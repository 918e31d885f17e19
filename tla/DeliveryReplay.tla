--------------------------- MODULE DeliveryReplay ---------------------------
(***************************************************************************)
(* What becomes of one pull request row (migration_prs) whose delivery     *)
(* failed: the delivery-only retry job, the full-pipeline fallback job it  *)
(* admits under a usage hold when there is no artifact to replay, the      *)
(* finalizer of dead-lettered fallbacks, and the operator's routes.        *)
(*                                                                         *)
(* The row, its two jobs and the usage ledger live in one database; worker *)
(* lanes and the API interleave between statements that share no           *)
(* transaction.  Job leases are those of JobQueue with the clock left out: *)
(* a lease lapses at any time, within bounds.                              *)
(***************************************************************************)
EXTENDS Integers, FiniteSets

CONSTANTS
  Lanes,          \* worker lanes
  Capacity,       \* maxRunningPerTenant; both jobs belong to one tenant
  MaxReplays,     \* MAX_FULL_PIPELINE_REPLAYS
  MaxAttempts,    \* max_attempts of both jobs
  Quota,          \* the entitlement, in replays
  Enforced,       \* MENDPOINT_USAGE_ENFORCEMENT
  Ages,           \* whether the delivery can grow older than seven days
  MaxGeneration,  \* bound on the operator's retries of the row
  MaxClaims,      \* bound on the lease generation of a job
  MaxRequests,    \* bound on the operator's requests
  MaxCrashes,     \* bound on crashes of lanes and of the API
  MaxStalls       \* bound on leases that lapse under a lane that lives

ASSUME ReplayAssumption ==
  /\ {Capacity, MaxReplays, MaxAttempts} \subseteq Nat \ {0}
  /\ {Quota, MaxGeneration, MaxClaims, MaxRequests, MaxCrashes, MaxStalls} \subseteq Nat
  /\ {Enforced, Ages} \subseteq BOOLEAN

None == "none"

NoHold == <<>>

ASSUME LanesAssumption == None \notin Lanes /\ IsFiniteSet(Lanes)

VARIABLES
  row,       \* the migration_prs row
  artifact,  \* a write-ahead delivery artifact exists
  origin,    \* the row keeps its originating fanout payload
  aged,      \* the row is older than GITHUB_DELIVERY_ABANDON_AFTER_MS
  jobs,      \* pipeline-delivery-retry:<pr> and pipeline-delivery-fallback:<pr>
  lane,      \* where each lane is, with what it has read
  holds,     \* the usage reservation of each replay admission key
  api,       \* the operator's request in progress
  spent,     \* requests, crashes and stalls so far
  races      \* history: the interleavings the exceptions below are named after

vars == <<row, artifact, origin, aged, jobs, lane, holds, api, spent, races>>

----------------------------------------------------------------------------
JobIds == {"retry", "fallback"}

\* rejected: gates_failed, repair_failed, low_confidence, notification_only
RowStatuses == {"delivery_failed", "delivery_pending", "delivery_blocked",
                "github_delivery_abandoned", "draft", "rejected"}

Codes == {None, "replay_failed", "replay_unavailable", "quota_refused"}

\* An admission key is delivery-replay:<pr>:<generation>:<count>.
Keys == (0..MaxGeneration) \X (0..MaxReplays - 1)

HoldStates == {"unused", "open", "settled", "released"}

Rows == [status : RowStatuses, recorded : BOOLEAN, error : Codes, count : Nat, gen : Nat]

\* replay and hold are the payload's replayGeneration and usageReservationId.
JobRows == [status : {"absent", "pending", "running", "done", "dead_letter", "cancelled"},
            attempts : Nat, owner : Lanes \cup {None}, gen : Nat, lapsed : BOOLEAN,
            replay : Nat, hold : Keys \cup {NoHold}]

Steps == {"idle", "retry", "checking", "abandoning", "deferring", "admitting", "delivering",
          "fallback", "analysing", "requeueing", "settling", "completing", "failing",
          "releasing", "stamping"}

LaneStates == [pc : Steps, job : JobIds \cup {None}, gen : Nat, replay : Nat,
               count : Nat, hold : Keys \cup {NoHold}]

Idle == [pc |-> "idle", job |-> None, gen |-> 0, replay |-> 0, count |-> 0, hold |-> NoHold]

Requests == [op : {"idle", "retrying", "cancelling"}, hold : Keys \cup {NoHold}]

NoRequest == [op |-> "idle", hold |-> NoHold]

Races == {"overtaken", "interrupted", "late", "requeued", "swept", "recorded", "cancelled", "yielded"}

(* The first fanout failed to deliver and enqueued the retry job.          *)
Init ==
  /\ row = [status |-> "delivery_failed", recorded |-> FALSE, error |-> None,
            count |-> 0, gen |-> 0]
  /\ artifact \in BOOLEAN
  /\ origin \in BOOLEAN
  /\ aged = FALSE
  /\ jobs = [j \in JobIds |->
               [status |-> IF j = "retry" THEN "pending" ELSE "absent", attempts |-> 0,
                owner |-> None, gen |-> 0, lapsed |-> FALSE, replay |-> 0, hold |-> NoHold]]
  /\ lane = [l \in Lanes |-> Idle]
  /\ holds = [k \in Keys |-> "unused"]
  /\ api = NoRequest
  /\ spent = [requests |-> 0, crashes |-> 0, stalls |-> 0]
  /\ races = {}

----------------------------------------------------------------------------
(***************************************************************************)
(* Rows: the write helpers of packages/db.                                 *)
(***************************************************************************)
Undelivered(r) == ~r.recorded

(* updateMigrationPrDelivery without a PR number: a compare-and-set.       *)
WithoutDraft(r, status) ==
  IF Undelivered(r) THEN [r EXCEPT !.status = status] ELSE r

WithDraft(r) == [r EXCEPT !.status = "draft", !.recorded = TRUE]

(* recordMigrationPrDeliveryBlocked                                        *)
Blocked(r, code) ==
  IF Undelivered(r) THEN [r EXCEPT !.status = "delivery_blocked", !.error = code] ELSE r

(* recordMigrationPrDeliveryErrorCode, for a replay generation.            *)
Stamped(r, generation) ==
  IF Undelivered(r) /\ r.error = None /\ r.gen = generation
  THEN [r EXCEPT !.error = "replay_failed"] ELSE r

(* The operator's transaction: the status is written whatever it was, the  *)
(* error and the generation only while no PR is recorded.                  *)
\* Mutant: reopening keeps the replay generation.
ReopenedSameGeneration(r) ==
  [r EXCEPT !.status = "delivery_failed", !.count = 0,
            !.error = IF Undelivered(r) THEN None ELSE @]

Reopened(r) ==
  [r EXCEPT !.status = "delivery_failed", !.count = 0,
            !.error = IF Undelivered(r) THEN None ELSE @,
            !.gen = IF Undelivered(r) THEN @ + 1 ELSE @]

----------------------------------------------------------------------------
(***************************************************************************)
(* Jobs: the statements of JobQueue on the two rows.                       *)
(***************************************************************************)
Live(j) == jobs[j].status \in {"pending", "running"}

Released(j, status) == [j EXCEPT !.status = status, !.owner = None, !.lapsed = FALSE]

FailedJob(j, retryable) ==
  Released(j, IF retryable /\ j.attempts < MaxAttempts THEN "pending" ELSE "dead_letter")

\* Mutant: recovery leaves a job that has used its attempts.
RecoveredWithinBudget ==
  [j \in JobIds |-> IF jobs[j].lapsed /\ jobs[j].attempts < MaxAttempts
                    THEN FailedJob(jobs[j], TRUE) ELSE jobs[j]]

(* recoverExpiredJobs, inside every claim.                                 *)
Recovered ==
  [j \in JobIds |-> IF jobs[j].lapsed THEN FailedJob(jobs[j], TRUE) ELSE jobs[j]]

Fresh(j, replay, hold) ==
  [Released(j, "pending") EXCEPT !.attempts = 0, !.gen = @ + 1, !.replay = replay, !.hold = hold]

\* owner, generation and lease, as completeJob and failJob compare them
Fenced(l) ==
  LET s == lane[l] IN
    /\ s.job # None
    /\ jobs[s.job].status = "running" /\ jobs[s.job].gen = s.gen /\ ~jobs[s.job].lapsed

(* enqueueOrResetJob of the retry job.                                     *)
RetryQueued ==
  IF Live("retry") THEN jobs ELSE [jobs EXCEPT !["retry"] = Fresh(@, 0, NoHold)]

(***************************************************************************)
(* The usage ledger, by hold.  A key reserves once; using it again returns *)
(* the same reservation, whatever has become of it.                        *)
(***************************************************************************)
OpenHolds == {k \in Keys : holds[k] = "open"}

WithoutOpenHolds == [k \in Keys |-> IF holds[k] = "open" THEN "released" ELSE holds[k]]

Used(h) == Cardinality({k \in Keys : h[k] \in {"open", "settled"}})

Admits(h, key) == h[key] # "unused" \/ Used(h) < Quota

Reserved(h, key) == IF h[key] = "unused" THEN [h EXCEPT ![key] = "open"] ELSE h

----------------------------------------------------------------------------
(***************************************************************************)
(* A lane's steps.                                                         *)
(***************************************************************************)
Goto(l, step) == lane' = [lane EXCEPT ![l].pc = step]

Rest(l) == lane' = [lane EXCEPT ![l] = Idle]

Noted(race) == races' = races \cup {race}

NotedIf(condition, race) == races' = IF condition THEN races \cup {race} ELSE races

(* claimNextJob: recovers lapsed jobs, then claims one if the tenant has   *)
(* capacity left.  The lane keeps the payload it claimed.                  *)
Claim(l) ==
  /\ lane[l].pc = "idle"
  /\ \E j \in JobIds :
       /\ Recovered[j].status = "pending"
       /\ Recovered[j].gen < MaxClaims
       /\ Cardinality({k \in JobIds : Recovered[k].status = "running"}) < Capacity
       /\ jobs' = [Recovered EXCEPT ![j].status = "running", ![j].owner = l,
                                    ![j].attempts = @ + 1, ![j].gen = @ + 1]
       /\ lane' = [lane EXCEPT ![l] =
            [Idle EXCEPT !.pc = j, !.job = j, !.gen = Recovered[j].gen + 1,
                         !.replay = Recovered[j].replay, !.hold = Recovered[j].hold]]
  /\ UNCHANGED <<row, artifact, origin, aged, holds, api, spent, races>>

(* The claim that finds no job it may take still recovers lapsed ones.     *)
Recover(l) ==
  /\ lane[l].pc = "idle"
  /\ jobs # Recovered
  /\ jobs' = Recovered
  /\ UNCHANGED <<row, artifact, origin, aged, lane, holds, api, spent, races>>

\* Mutant: a fallback of an earlier generation is adopted.
DeferralIgnoringGeneration == FALSE

(* A fallback of an earlier generation is waited for, not adopted.         *)
Deferral == jobs["fallback"].replay < row.gen

(* retryConsumerDelivery, up to its remote call.                           *)
StartRetry(l) ==
  /\ lane[l].pc = "retry"
  /\ IF row.status \notin {"delivery_failed", "delivery_blocked"}
     THEN Goto(l, "completing") /\ UNCHANGED row
     ELSE IF aged
     THEN Goto(l, "abandoning") /\ UNCHANGED row
     ELSE IF artifact
     THEN Goto(l, "delivering") /\ row' = WithoutDraft(row, "delivery_pending")
     ELSE Goto(l, "checking") /\ UNCHANGED row
  /\ races' = races \cup (IF row.status = "delivery_pending" THEN {"interrupted"} ELSE {})
                    \cup (IF row.status = "rejected" /\ Live("fallback") /\ Deferral
                          THEN {"yielded"} ELSE {})
                    \cup (IF row' # row /\ ~Fenced(l) THEN {"late"} ELSE {})
  /\ UNCHANGED <<artifact, origin, aged, jobs, holds, api, spent>>

(* updateMigrationPrStatus: past the age or the cap, whatever the row is.  *)
Abandon(l) ==
  /\ lane[l].pc = "abandoning"
  /\ row' = [row EXCEPT !.status = "github_delivery_abandoned"]
  /\ Goto(l, "completing")
  /\ UNCHANGED <<artifact, origin, aged, jobs, holds, api, spent, races>>

(* The decision of the retry job when there is no artifact to replay.      *)
Check(l) ==
  /\ lane[l].pc = "checking"
  /\ \/ /\ ~origin
        /\ row' = Blocked(row, "replay_unavailable")
        /\ Goto(l, "completing")
     \/ /\ origin
        /\ UNCHANGED row
        /\ IF Live("fallback")
           THEN Goto(l, IF Deferral THEN "deferring" ELSE "completing")
           ELSE IF row.count >= MaxReplays
           THEN Goto(l, "abandoning")
           ELSE lane' = [lane EXCEPT ![l].pc = "admitting", ![l].replay = row.gen,
                                     ![l].count = row.count]
  /\ UNCHANGED <<artifact, origin, aged, jobs, holds, api, spent, races>>

\* Mutant: the row is put back whoever owns it.
DeferUnowned(l) ==
  /\ lane[l].pc = "deferring"
  /\ jobs' = [jobs EXCEPT !["retry"] = [Released(@, "pending") EXCEPT !.attempts = @ - 1]]
  /\ Rest(l)
  /\ UNCHANGED <<row, artifact, origin, aged, holds, api, spent, races>>

(* rescheduleJob: back to pending, the attempt refunded; the owner's name  *)
(* is all it checks.                                                       *)
Defer(l) ==
  /\ lane[l].pc = "deferring"
  /\ LET r == jobs["retry"] IN
       jobs' = IF r.status = "running" /\ r.owner = l
               THEN [jobs EXCEPT !["retry"] = [Released(r, "pending") EXCEPT !.attempts = @ - 1]]
               ELSE jobs
  /\ Rest(l)
  /\ UNCHANGED <<row, artifact, origin, aged, holds, api, spent, races>>

(* One transaction: release superseded holds, reserve under the admission  *)
(* key, count the replay, enqueue the fallback, complete this job.  A lost *)
(* fence or a live fallback rolls all of it back.                          *)
Admit(l) ==
  /\ lane[l].pc = "admitting"
  /\ LET key == <<lane[l].replay, lane[l].count>>
         refused == Enforced /\ ~Admits(WithoutOpenHolds, key)
     IN  IF ~Fenced(l) \/ (~refused /\ Live("fallback"))
         THEN Goto(l, "failing") /\ UNCHANGED <<row, jobs, holds>>
         ELSE IF refused
         THEN /\ row' = Blocked(row, "quota_refused")
              /\ jobs' = [jobs EXCEPT !["retry"] = Released(@, "done")]
              /\ holds' = WithoutOpenHolds
              /\ Rest(l)
         ELSE /\ row' = IF Undelivered(row) THEN [row EXCEPT !.count = @ + 1] ELSE row
              /\ jobs' = [jobs EXCEPT
                   !["retry"] = Released(@, "done"),
                   !["fallback"] = Fresh(@, lane[l].replay, IF Enforced THEN key ELSE NoHold)]
              /\ holds' = IF Enforced THEN Reserved(WithoutOpenHolds, key) ELSE WithoutOpenHolds
              /\ Rest(l)
  /\ UNCHANGED <<artifact, origin, aged, api, spent, races>>

(* runChangePipeline reads the row's status once, at its start.            *)
StartFallback(l) ==
  /\ lane[l].pc = "fallback"
  /\ \/ row.status \notin {"delivery_failed", "delivery_pending"} /\ Goto(l, "settling")
     \/ row.status \in {"delivery_failed", "delivery_pending", "rejected"} /\ Goto(l, "analysing")
  /\ UNCHANGED <<row, artifact, origin, aged, jobs, holds, api, spent, races>>

(* After the analysis: the base could not be refreshed, the gates reject   *)
(* the change, the delivery starts, or the run throws.                     *)
Analyse(l) ==
  /\ lane[l].pc = "analysing"
  /\ \/ row' = WithoutDraft(row, "delivery_failed") /\ Goto(l, "requeueing")
     \/ row' = [row EXCEPT !.status = "rejected"] /\ Goto(l, "settling")
     \/ row' = WithoutDraft(row, "delivery_pending") /\ Goto(l, "delivering")
     \/ row' = row /\ Goto(l, "failing")
  /\ NotedIf(row' # row /\ ~Fenced(l), "late")
  /\ UNCHANGED <<artifact, origin, aged, jobs, holds, api, spent>>

(* deliverAdoptiveDraft returns or throws; the artifact is written ahead   *)
(* of the remote calls.  No fence guards the row.  A fallback that learns  *)
(* of its lost lease, or of a shutdown, throws before the call.            *)
Deliver(l) ==
  /\ lane[l].pc = "delivering"
  /\ artifact' \in {artifact, TRUE}
  /\ \/ /\ lane[l].job = "fallback"
        /\ Goto(l, "failing")
        /\ UNCHANGED row
     \/ /\ row' = WithDraft(row)
        /\ Goto(l, IF lane[l].job = "retry" THEN "completing" ELSE "settling")
     \/ /\ row' = WithoutDraft(row, "delivery_failed")
        /\ Goto(l, IF lane[l].job = "retry" THEN "failing" ELSE "requeueing")
     \/ /\ row' = WithoutDraft(row, "delivery_blocked")
        /\ Goto(l, IF lane[l].job = "retry" THEN "completing" ELSE "settling")
  /\ NotedIf(row' # row /\ ~Fenced(l), "late")
  /\ UNCHANGED <<origin, aged, jobs, holds, api, spent>>

(* A fanout hands a failed consumer to the retry job before it settles.    *)
Requeue(l) ==
  /\ lane[l].pc = "requeueing"
  /\ jobs' = RetryQueued
  /\ Goto(l, "settling")
  /\ UNCHANGED <<row, artifact, origin, aged, holds, api, spent, races>>

(* completeJob and settleFanoutRunUsage in one transaction: a hold that is *)
(* closed already makes it throw, and the job fails.                       *)
Settle(l) ==
  /\ lane[l].pc = "settling"
  /\ LET key == lane[l].hold IN
       IF Fenced(l) /\ (key = NoHold \/ holds[key] = "open")
       THEN /\ jobs' = [jobs EXCEPT !["fallback"] = Released(@, "done")]
            /\ holds' = IF key = NoHold THEN holds ELSE [holds EXCEPT ![key] = "settled"]
            /\ Rest(l)
       ELSE Goto(l, "failing") /\ UNCHANGED <<jobs, holds>>
  /\ UNCHANGED <<row, artifact, origin, aged, api, spent, races>>

(* completeJob of the retry job; a lost fence throws and fails nothing.    *)
Complete(l) ==
  /\ lane[l].pc = "completing"
  /\ jobs' = IF Fenced(l) THEN [jobs EXCEPT !["retry"] = Released(@, "done")] ELSE jobs
  /\ Rest(l)
  /\ UNCHANGED <<row, artifact, origin, aged, holds, api, spent, races>>

(* failJob on the generic path; a fallback it dead-letters is finalized.   *)
Fail(l) ==
  /\ lane[l].pc = "failing"
  /\ \E retryable \in BOOLEAN :
       LET j == FailedJob(jobs[lane[l].job], retryable)
       IN  IF ~Fenced(l) THEN Rest(l) /\ UNCHANGED jobs
           ELSE /\ jobs' = [jobs EXCEPT ![lane[l].job] = j]
                /\ IF lane[l].job = "fallback" /\ j.status = "dead_letter"
                   THEN Goto(l, "releasing") ELSE Rest(l)
  /\ UNCHANGED <<row, artifact, origin, aged, holds, api, spent, races>>

(* finalizeReplayFallbackDeadLetter: every open hold of the row first,     *)
(* then the stamp, under the generation of the payload at hand.            *)
Release(l) ==
  /\ lane[l].pc = "releasing"
  /\ holds' = WithoutOpenHolds
  /\ NotedIf(Live("fallback") /\ jobs["fallback"].hold \in OpenHolds, "swept")
  /\ Goto(l, "stamping")
  /\ UNCHANGED <<row, artifact, origin, aged, jobs, api, spent>>

Stamp(l) ==
  /\ lane[l].pc = "stamping"
  /\ row' = Stamped(row, lane[l].replay)
  /\ Rest(l)
  /\ UNCHANGED <<artifact, origin, aged, jobs, holds, api, spent, races>>

(* listUnfinalizedDeadLetteredReplayFallbacks, at the start of a drain.    *)
\* Mutant: only the missing error makes a dead-lettered fallback unfinalized.
UnfinalizedByError ==
  /\ jobs["fallback"].status = "dead_letter"
  /\ Undelivered(row)
  /\ row.error = None /\ jobs["fallback"].replay = row.gen

Unfinalized ==
  /\ jobs["fallback"].status = "dead_letter"
  /\ Undelivered(row)
  /\ \/ OpenHolds # {}
     \/ row.error = None /\ jobs["fallback"].replay = row.gen

Sweep(l) ==
  /\ lane[l].pc = "idle"
  /\ Unfinalized
  /\ lane' = [lane EXCEPT ![l].pc = "releasing", ![l].replay = jobs["fallback"].replay]
  /\ UNCHANGED <<row, artifact, origin, aged, jobs, holds, api, spent, races>>

----------------------------------------------------------------------------
(***************************************************************************)
(* Leases, crashes and age.                                                *)
(***************************************************************************)
Spend(kind, limit) == spent[kind] < limit /\ spent' = [spent EXCEPT ![kind] = @ + 1]

Orphaned(j) == ~\E l \in Lanes : lane[l].job = j /\ Fenced(l)

(* The lease of a job nobody works on lapses; that of a stalled lane may.  *)
Lapse(j) ==
  /\ jobs[j].status = "running" /\ ~jobs[j].lapsed
  /\ IF Orphaned(j) THEN UNCHANGED spent ELSE Spend("stalls", MaxStalls)
  /\ jobs' = [jobs EXCEPT ![j].lapsed = TRUE]
  /\ UNCHANGED <<row, artifact, origin, aged, lane, holds, api, races>>

Crash(l) ==
  /\ lane[l].pc # "idle"
  /\ Spend("crashes", MaxCrashes)
  /\ Rest(l)
  /\ UNCHANGED <<row, artifact, origin, aged, jobs, holds, api, races>>

GrowOld ==
  /\ Ages /\ ~aged
  /\ aged' = TRUE
  /\ UNCHANGED <<row, artifact, origin, jobs, lane, holds, api, spent, races>>

----------------------------------------------------------------------------
(***************************************************************************)
(* The operator, through the API.                                          *)
(***************************************************************************)
(* POST /migration-prs/:id/retry-delivery reads the row, then reopens it   *)
(* in a transaction that does not look at the status again.                *)
RetryDelivery ==
  /\ api = NoRequest
  /\ row.status \in {"delivery_failed", "delivery_blocked", "github_delivery_abandoned"}
  /\ Undelivered(row)
  /\ row.gen < MaxGeneration
  /\ Spend("requests", MaxRequests)
  /\ IF artifact \/ origin
     THEN api' = [NoRequest EXCEPT !.op = "retrying"] /\ UNCHANGED row
     ELSE row' = Blocked(row, "replay_unavailable") /\ UNCHANGED api
  /\ UNCHANGED <<artifact, origin, aged, jobs, lane, holds, races>>

Reopen ==
  /\ api.op = "retrying"
  /\ row' = Reopened(row)
  /\ jobs' = RetryQueued
  /\ api' = NoRequest
  /\ races' = races \cup (IF jobs["retry"].status = "running" THEN {"overtaken"} ELSE {})
                    \cup (IF row.recorded THEN {"recorded"} ELSE {})
  /\ UNCHANGED <<artifact, origin, aged, lane, holds, spent>>

(* POST /jobs/:id/cancel cancels, then releases the hold of the job it had *)
(* read in a transaction of its own.                                       *)
CancelJob(j) ==
  /\ api = NoRequest
  /\ jobs[j].status \in {"pending", "dead_letter"}
  /\ Spend("requests", MaxRequests)
  /\ jobs' = [jobs EXCEPT ![j] = Released(@, "cancelled")]
  /\ api' = IF jobs[j].hold = NoHold THEN api ELSE [op |-> "cancelling", hold |-> jobs[j].hold]
  /\ Noted("cancelled")
  /\ UNCHANGED <<row, artifact, origin, aged, lane, holds>>

ReleaseCancelled ==
  /\ api.op = "cancelling"
  /\ holds' = [holds EXCEPT ![api.hold] = IF @ = "open" THEN "released" ELSE @]
  /\ api' = NoRequest
  /\ UNCHANGED <<row, artifact, origin, aged, jobs, lane, spent, races>>

(* POST /jobs/:id/retry: the payload, and the hold it names, stay.         *)
RetryJob(j) ==
  /\ api = NoRequest
  /\ jobs[j].status \in {"dead_letter", "cancelled"}
  /\ Spend("requests", MaxRequests)
  /\ jobs' = [jobs EXCEPT ![j] = [Released(@, "pending") EXCEPT !.attempts = 0]]
  /\ IF j = "fallback" THEN Noted("requeued") ELSE UNCHANGED races
  /\ UNCHANGED <<row, artifact, origin, aged, lane, holds, api>>

ApiCrash ==
  /\ api # NoRequest
  /\ Spend("crashes", MaxCrashes)
  /\ api' = NoRequest
  /\ UNCHANGED <<row, artifact, origin, aged, jobs, lane, holds, races>>

----------------------------------------------------------------------------
Run(l) ==
  \/ StartRetry(l) \/ Abandon(l) \/ Check(l) \/ Defer(l) \/ Admit(l)
  \/ StartFallback(l) \/ Analyse(l) \/ Deliver(l) \/ Requeue(l) \/ Settle(l)
  \/ Complete(l) \/ Fail(l) \/ Release(l) \/ Stamp(l)

Drain(l) == Claim(l) \/ Recover(l) \/ Sweep(l)

Operator ==
  \/ RetryDelivery \/ Reopen \/ ReleaseCancelled \/ ApiCrash
  \/ \E j \in JobIds : CancelJob(j) \/ RetryJob(j)

Next ==
  \/ \E l \in Lanes : Drain(l) \/ Run(l) \/ Crash(l)
  \/ \E j \in JobIds : Lapse(j)
  \/ GrowOld
  \/ Operator

Spec == Init /\ [][Next]_vars

\* Lanes drain until shutdown, leases end, and a request that is served ends.
Fairness ==
  /\ \A l \in Lanes : WF_vars(Run(l)) /\ WF_vars(Drain(l))
  /\ \A j \in JobIds : WF_vars(Orphaned(j) /\ Lapse(j))
  /\ WF_vars(Reopen \/ ReleaseCancelled)

FairSpec == Spec /\ Fairness

----------------------------------------------------------------------------
(* Every variable has its type.                                            *)
TypeOK ==
  /\ row \in Rows
  /\ {artifact, origin, aged} \subseteq BOOLEAN
  /\ jobs \in [JobIds -> JobRows]
  /\ lane \in [Lanes -> LaneStates]
  /\ holds \in [Keys -> HoldStates]
  /\ api \in Requests
  /\ spent \in [{"requests", "crashes", "stalls"} -> Nat]
  /\ races \subseteq Races

(* Nothing is running, waiting or left for the sweep of the next drain.    *)
Over ==
  /\ api = NoRequest
  /\ \A l \in Lanes : lane[l].pc = "idle"
  /\ ~Live("retry") /\ ~Live("fallback") /\ ~Unfinalized

\* Neither delivered nor refused, with no error and no dead letter that says so.
Unexplained ==
  /\ row.status \in {"delivery_failed", "delivery_pending"}
  /\ row.error = None
  /\ jobs["retry"].status # "dead_letter"

(* A failed delivery whose work is over is never left without a visible    *)
(* reason, unless one of the named interleavings happened: the "no silent  *)
(* third state" of the fallback scheduling in processJobsOnceUnfenced.     *)
(* Without them it holds across crashes, lapsed leases, caps and deferral, *)
(* where a tenant runs one job at a time, as the worker has it.            *)
SilenceExplained == Over /\ Unexplained => races \ {"swept"} # {}

(* Whatever path a replay took, the hold it reserved has been settled or   *)
(* released once its work is over.  Two paths leak it: a fallback that     *)
(* recorded its draft before it was dead-lettered, which the sweep's query *)
(* excludes, and a cancelled job whose release the API did not reach.      *)
OpenHoldCarried == Over /\ OpenHolds # {} => row.recorded \/ "cancelled" \in races

(* While a fallback may still run, the hold it will settle is open; the    *)
(* release of superseded holds, the replay generation and the admission    *)
(* key together see to it that none is closed under it or used twice.      *)
(* Three operator interleavings break that, and name themselves.           *)
HoldBacksReplay ==
  Live("fallback") /\ jobs["fallback"].hold # NoHold =>
    \/ holds[jobs["fallback"].hold] = "open"
    \/ races \cap {"requeued", "swept", "recorded"} # {}

(* A recorded draft is not taken back into delivery by a lane, however     *)
(* late: every write of a failed delivery is a compare-and-set.  Only the  *)
(* operator's reopening, which is not one, may do so.                      *)
DraftStands ==
  row.recorded => \/ row.status \in {"draft", "rejected", "github_delivery_abandoned"}
                  \/ "recorded" \in races

\* The model's claims are used up: its bound, not the code, stops a job.
AtBound == \E j \in JobIds : jobs[j].gen >= MaxClaims

(* A failed delivery is eventually delivered, refused, abandoned, or its   *)
(* failure is put where the operator sees it, whatever crashes or lapses.  *)
FailureSurfaces ==
  row.status \in {"delivery_failed", "delivery_pending"} ~>
    ~Unexplained \/ races # {} \/ AtBound

=============================================================================
