------------------------------ MODULE CiReentry ------------------------------
(***************************************************************************)
(* One CI cycle of a delivered draft pull request                          *)
(* (packages/db/src/warden-ci-reentry.ts): worker lanes observe the checks *)
(* and reviews of its head, dispatch a repair of a failed head, and push   *)
(* the repair a human approved to the branch                               *)
(* (apps/worker/src/warden-candidate-observation.ts, -ci-repair-dispatch.ts *)
(* and -candidate-update.ts); people review, pause, retry and cancel.      *)
(*                                                                         *)
(* An update replaces the head it expects by the commit made from it, so a *)
(* head is the number of updates before it, and update and dispatch rows   *)
(* are named by the head they expect: there is never a second one.  A job  *)
(* row is the latest job of its kind; a generation is only ever compared   *)
(* with a lane's own, so the row keeps the lane of its last claim instead. *)
(* A lease has no clock: it lapses at any time while its lane works (an    *)
(* overrun), and in the end when no lane does.  A lane's step is one       *)
(* transaction or one call to GitHub.  The checks_running and              *)
(* candidate_ready states of a cycle are written by nothing.               *)
(***************************************************************************)
EXTENDS Naturals

CONSTANTS
  Lanes,        \* worker lanes
  None,         \* no lane
  Foreign,      \* a head of the branch that this program did not push
  MaxCycles,    \* max_cycles, the budget of the cycle
  MaxAttempts,  \* max_attempts of its jobs
  MaxEvents     \* bound on the people's requests, control-plane writes, webhooks, pushes by
                \* others, crashes, overrun leases and failures that are retried

ASSUME NamesAssumption == None \notin Lanes /\ Foreign \notin Nat

ASSUME BoundsAssumption == MaxCycles \in Nat /\ MaxAttempts \in Nat \ {0} /\ MaxEvents \in Nat

VARIABLES
  cycle,     \* status of the cycle, the head it believes in, the budget it used
  run,       \* the repair run of the cycle
  job,       \* the cycle's jobs
  update,    \* status of the update rows, by expected head
  dispatch,  \* state of the mission_mutation_dispatches rows of the update jobs
  mission,   \* whether the cycle is bound to a Mission, and the Mission is what was approved
  remote,    \* the head of the branch on GitHub
  outrun,    \* history: an update was recorded as not applied while a push of it was under way,
             \* or had landed since the branch was read
  lane,      \* what each lane is doing
  events     \* how many of the bounded events happened so far

rows == <<cycle, run, update, dispatch>>
vars == <<rows, job, mission, remote, outrun, lane, events>>

----------------------------------------------------------------------------
Heads == 0..MaxCycles

CycleStatuses == {"observation_pending", "checks_failed", "repair_pending", "update_pending",
                  "awaiting_review", "succeeded", "paused", "exhausted"}

\* ended: rejected, expired, superseded or failed
RunStatuses == {"none", "queued", "ready", "approved", "ended"}

Roles == {"observe", "repair", "update"}

JobRows == [status : {"absent", "pending", "running", "done", "dead_letter", "cancelled"},
            attempts : 0..MaxAttempts, holder : Lanes \cup {None}, lapsed : BOOLEAN]

NewJob == [status |-> "pending", attempts |-> 0, holder |-> None, lapsed |-> FALSE]

UpdateStates == {"none", "pending", "intent_bound", "uncertain", "delivered", "failed"}

DispatchStates == {"none", "authorized", "dispatching", "uncertain", "settled", "revoked"}

InDoubt == {"intent_bound", "uncertain"}

InFlight == {"dispatching", "uncertain"}

Steps == {"idle", "observing", "observed", "dispatching", "enqueuing", "inspecting", "resolving",
          "reconciling", "refuting", "authorizing", "beginning", "calling", "recording", "failing"}

\* note: the verdict of an observation, the update's status at its inspection, or a failure
\* (uncertain and refused: a push of unknown outcome, the latter for want of authorization)
LaneStates == [pc : Steps, role : Roles \cup {None}, head : Heads, paused : BOOLEAN,
               note : UpdateStates \cup {"success", "failure", "running", "terminal", "retryable", "refused"}]

Idle == [pc |-> "idle", role |-> None, head |-> 0, paused |-> FALSE, note |-> "none"]

(* enqueueWardenCiCycle, when the delivery was recorded.                   *)
Init ==
  /\ cycle = [status |-> "observation_pending", head |-> 0, used |-> 0]
  /\ run = "none"
  /\ job = [r \in Roles |-> IF r = "observe" THEN NewJob ELSE [NewJob EXCEPT !.status = "absent"]]
  /\ update = [h \in Heads |-> "none"]
  /\ dispatch = [h \in Heads |-> "none"]
  /\ mission \in {"none", "current"}
  /\ remote = 0
  /\ outrun = FALSE
  /\ lane = [l \in Lanes |-> Idle]
  /\ events = 0

----------------------------------------------------------------------------
Event == events < MaxEvents /\ events' = events + 1

Goto(l, step) == lane' = [lane EXCEPT ![l].pc = step]

Throw(l, failure) == lane' = [lane EXCEPT ![l].pc = "failing", ![l].note = failure]

Rest(l) == lane' = [lane EXCEPT ![l] = Idle]

Fenced(l) ==
  LET r == job[lane[l].role] IN r.status = "running" /\ r.holder = l /\ ~r.lapsed

Released(r, status) == [job EXCEPT ![r].status = status, ![r].holder = None]

WithStatus(status) == [cycle EXCEPT !.status = status]

MissionStands == mission # "changed"

----------------------------------------------------------------------------
(***************************************************************************)
(* The job table, by the operations of JobQueue.                           *)
(***************************************************************************)
\* Mutant: only jobs with an attempt left are recovered.
RecoveredWithinBudget ==
  [r \in Roles |->
     IF job[r].status = "running" /\ job[r].lapsed /\ job[r].attempts < MaxAttempts
     THEN [job[r] EXCEPT !.lapsed = FALSE, !.holder = None, !.status = "pending"]
     ELSE job[r]]

(* recoverExpiredJobs: it spares a candidate delivery that may have had    *)
(* its effect, not an update.                                              *)
Recovered ==
  [r \in Roles |->
     IF job[r].status = "running" /\ job[r].lapsed
     THEN [job[r] EXCEPT !.lapsed = FALSE, !.holder = None,
                         !.status = IF job[r].attempts < MaxAttempts THEN "pending" ELSE "dead_letter"]
     ELSE job[r]]

FirstStep == [observe |-> "observing", repair |-> "dispatching", update |-> "inspecting"]

(* claimNextJob, and the payload that names the update.                    *)
Claim(l) ==
  /\ lane[l].pc = "idle"
  /\ \E r \in Roles :
       /\ Recovered[r].status = "pending"
       /\ job' = [Recovered EXCEPT ![r].status = "running", ![r].holder = l,
                    ![r].attempts = IF @ < MaxAttempts THEN @ + 1 ELSE @]
       /\ lane' = [lane EXCEPT ![l] =
            [Idle EXCEPT !.pc = FirstStep[r], !.role = r, !.head = cycle.head]]
  /\ UNCHANGED <<rows, mission, remote, outrun, events>>

(* The claim that finds no job it may take still recovers lapsed ones.     *)
Recover(l) ==
  /\ lane[l].pc = "idle"
  /\ job # Recovered
  /\ job' = Recovered
  /\ UNCHANGED <<rows, mission, remote, outrun, lane, events>>

Held(r) == \E l \in Lanes : lane[l].role = r /\ job[r].holder = l

Lapse(r) ==
  /\ job[r].status = "running" /\ ~job[r].lapsed
  /\ job' = [job EXCEPT ![r].lapsed = TRUE]
  /\ UNCHANGED <<rows, mission, remote, outrun, lane>>

Expire(r) == ~Held(r) /\ Lapse(r) /\ UNCHANGED events

Overrun(r) == Held(r) /\ Event /\ Lapse(r)

Crash(l) ==
  /\ lane[l].pc # "idle"
  /\ Event
  /\ Rest(l)
  /\ UNCHANGED <<rows, job, mission, remote, outrun>>

(* POST /jobs/:id/retry and /jobs/:id/cancel.                              *)
RetryJob(r) ==
  /\ Event
  /\ job[r].status \in {"dead_letter", "cancelled"}
  /\ job' = [job EXCEPT ![r].status = "pending", ![r].attempts = 0]
  /\ UNCHANGED <<rows, mission, remote, outrun, lane>>

CancelJob(r) ==
  /\ Event
  /\ job[r].status \in {"pending", "dead_letter"}
  /\ job' = [job EXCEPT ![r].status = "cancelled"]
  /\ UNCHANGED <<rows, mission, remote, outrun, lane>>

(* failJob and failWardenCiOperation in one transaction.  A repair job of a *)
(* cycle that no longer waits for it may not fail: the transaction is      *)
(* rolled back and the job runs on until its lease lapses.  An update whose *)
(* outcome is uncertain is retried past its attempts, but not when the     *)
(* text of the error speaks of authorization: its job is dead-lettered,    *)
(* the cycle paused, and the update left in doubt.                         *)
Fail(l) ==
  LET r == lane[l].role
      h == lane[l].head
      retried == \/ lane[l].note = "uncertain"
                 \/ lane[l].note = "retryable" /\ job[r].attempts < MaxAttempts
      authorized == r # "repair" \/ cycle.status = "checks_failed"
  IN /\ lane[l].pc = "failing"
     /\ IF Fenced(l) /\ (retried \/ authorized)
        THEN /\ job' = Released(r, IF retried THEN "pending" ELSE "dead_letter")
             /\ cycle' = IF retried \/ cycle.status \in {"succeeded", "exhausted"}
                         THEN cycle ELSE WithStatus("paused")
             /\ update' = IF ~retried /\ r = "update" /\ update[h] = "pending"
                          THEN [update EXCEPT ![h] = "failed"] ELSE update
        ELSE UNCHANGED <<job, cycle, update>>
     /\ Rest(l)
     /\ UNCHANGED <<run, dispatch, mission, remote, outrun, events>>

----------------------------------------------------------------------------
(***************************************************************************)
(* Observation and dispatch of a repair.  A lane that lost its lease has   *)
(* no effect here: each transaction completes the job, or fails with it.   *)
(***************************************************************************)
(* runWardenCandidateObservation up to its transaction: the draft must be  *)
(* open at the cycle's head.                                               *)
Observe(l) ==
  /\ lane[l].pc = "observing"
  /\ \/ /\ cycle.status = "observation_pending" /\ remote = cycle.head
        /\ \E verdict \in {"success", "failure", "running"} :
             lane' = [lane EXCEPT ![l].pc = "observed", ![l].note = verdict]
        /\ UNCHANGED events
     \/ Throw(l, "terminal") /\ UNCHANGED events
     \/ cycle.status = "observation_pending" /\ Throw(l, "retryable") /\ Event
  /\ UNCHANGED <<rows, job, mission, remote, outrun>>

(* Checks that still run are polled again, and the cycle paused when the   *)
(* polls are used up.                                                      *)
Poll(l) ==
  LET exhausted == job["observe"].attempts = MaxAttempts IN
    /\ lane[l].pc = "observed" /\ lane[l].note = "running"
    /\ IF Fenced(l)
       THEN /\ job' = Released("observe", IF exhausted THEN "done" ELSE "pending")
            /\ cycle' = IF exhausted THEN WithStatus("paused") ELSE cycle
       ELSE UNCHANGED <<job, cycle>>
    /\ Rest(l)
    /\ UNCHANGED <<run, update, dispatch, mission, remote, outrun, events>>

\* Mutant: the status is not read again under the write lock.
RecordObservationStale(l) ==
  LET failed == lane[l].note = "failure" IN
    /\ lane[l].pc = "observed" /\ lane[l].note # "running"
    /\ IF Fenced(l)
       THEN /\ cycle' = WithStatus(IF failed THEN "checks_failed" ELSE "awaiting_review")
            /\ job' = IF failed THEN [Released("observe", "done") EXCEPT !["repair"] = NewJob]
                      ELSE Released("observe", "done")
       ELSE UNCHANGED <<cycle, job>>
    /\ Rest(l)
    /\ UNCHANGED <<run, update, dispatch, mission, remote, outrun, events>>

(* recordWardenCiObservation with its repair job, and the completion of    *)
(* the observation.  Green checks of a merged draft settle the cycle and   *)
(* its Mission's task (replayWardenCandidateDeliveryMergedOutcome).        *)
RecordObservation(l) ==
  LET failed == lane[l].note = "failure" IN
    /\ lane[l].pc = "observed" /\ lane[l].note # "running"
    /\ IF ~MissionStands \/ cycle.status # "observation_pending"
       THEN Throw(l, "terminal") /\ UNCHANGED <<cycle, job, mission>>
       ELSE IF ~Fenced(l)
       THEN Rest(l) /\ UNCHANGED <<cycle, job, mission>>
       ELSE /\ \/ failed /\ cycle' = WithStatus("checks_failed") /\ UNCHANGED mission
               \/ ~failed /\ cycle' = WithStatus("awaiting_review") /\ UNCHANGED mission
               \/ /\ ~failed /\ mission = "current"
                  /\ cycle' = WithStatus("succeeded")
                  /\ mission' \in {mission, "changed"}
            /\ job' = IF failed THEN [Released("observe", "done") EXCEPT !["repair"] = NewJob]
                      ELSE Released("observe", "done")
            /\ Rest(l)
    /\ UNCHANGED <<run, update, dispatch, remote, outrun, events>>

(* runWardenCiRepairDispatch: without budget the cycle is exhausted; else  *)
(* the evidence is read and the head materialized.                         *)
DispatchRepair(l) ==
  /\ lane[l].pc = "dispatching"
  /\ IF cycle.status # "checks_failed"
     THEN Throw(l, "terminal") /\ UNCHANGED <<cycle, job, events>>
     ELSE IF cycle.used >= MaxCycles
     THEN /\ IF Fenced(l)
             THEN cycle' = WithStatus("exhausted") /\ job' = Released("repair", "done")
             ELSE UNCHANGED <<cycle, job>>
          /\ Rest(l)
          /\ UNCHANGED events
     ELSE /\ \/ Goto(l, "enqueuing") /\ UNCHANGED events
             \/ Throw(l, "terminal") /\ UNCHANGED events
             \/ Throw(l, "retryable") /\ Event
          /\ UNCHANGED <<cycle, job>>
  /\ UNCHANGED <<run, update, dispatch, mission, remote, outrun>>

(* One transaction: the repair run and its job, beginWardenCiRepair, the   *)
(* completion of the dispatch.                                             *)
BeginRepair(l) ==
  /\ lane[l].pc = "enqueuing"
  /\ IF Fenced(l) /\ cycle.status = "checks_failed"
     THEN /\ cycle' = [WithStatus("repair_pending") EXCEPT !.used = @ + 1]
          /\ run' = "queued"
          /\ job' = Released("repair", "done")
          /\ Rest(l)
     ELSE Throw(l, "terminal") /\ UNCHANGED <<cycle, run, job>>
  /\ UNCHANGED <<update, dispatch, mission, remote, outrun, events>>

----------------------------------------------------------------------------
(***************************************************************************)
(* The repair run, its review, and the people.                             *)
(***************************************************************************)
(* The agent proposes a candidate; or it is refused, or finds nothing to   *)
(* do (settleWardenCiRepairWithoutCandidate); or its job is dead-lettered, *)
(* which leaves the cycle as it is.                                        *)
AgentEnds ==
  /\ run = "queued"
  /\ \/ run' = "ready" /\ UNCHANGED cycle
     \/ cycle.status = "repair_pending" /\ run' = "ended" /\ cycle' = WithStatus("paused")
     \/ run' = "ended" /\ UNCHANGED cycle
  /\ UNCHANGED <<job, update, dispatch, mission, remote, outrun, lane, events>>

Reviewable == run = "ready" /\ cycle.status = "repair_pending"

(* The approval mints the authority of the moment: enqueueWardenCiUpdate.  *)
Approve ==
  /\ Reviewable
  /\ run' = "approved"
  /\ cycle' = WithStatus("update_pending")
  /\ update' = [update EXCEPT ![cycle.head] = "pending"]
  /\ job' = [job EXCEPT !["update"] = NewJob]
  /\ mission' = IF mission = "none" THEN "none" ELSE "current"
  /\ UNCHANGED <<dispatch, remote, outrun, lane, events>>

\* Mutant: a regeneration does not look at the budget.
RegenerateUnbudgeted ==
  /\ Reviewable
  /\ cycle' = [cycle EXCEPT !.used = @ + 1]
  /\ run' = "queued"
  /\ UNCHANGED <<job, update, dispatch, mission, remote, outrun, lane, events>>

\* rebindWardenCiRepair.
Regenerate ==
  /\ Reviewable
  /\ cycle.used < MaxCycles
  /\ cycle' = [cycle EXCEPT !.used = @ + 1]
  /\ run' = "queued"
  /\ UNCHANGED <<job, update, dispatch, mission, remote, outrun, lane, events>>

Reject ==
  /\ Reviewable
  /\ run' = "ended"
  /\ cycle' = WithStatus("paused")
  /\ UNCHANGED <<job, update, dispatch, mission, remote, outrun, lane, events>>

(* The retention sweep: it spares a candidate whose update is pending or   *)
(* has its intent bound, not one whose update is uncertain.                *)
ExpireCandidate ==
  /\ run \in {"ready", "approved"}
  /\ update[cycle.head] \notin {"pending", "intent_bound"}
  /\ run' = "ended"
  /\ cycle' = IF cycle.status = "repair_pending" THEN WithStatus("paused") ELSE cycle
  /\ UNCHANGED <<job, update, dispatch, mission, remote, outrun, lane, events>>

\* Mutant: an interrupted update is taken for one that was never sent.
PauseForgets ==
  LET h == cycle.head IN
    /\ Event
    /\ cycle.status # "exhausted"
    /\ ~(update[h] = "intent_bound" /\ job["update"].status = "running" /\ ~job["update"].lapsed)
    /\ update' = [update EXCEPT ![h] = IF @ = "intent_bound" THEN "pending" ELSE @]
    /\ cycle' = WithStatus("paused")
    /\ UNCHANGED <<run, dispatch, job, mission, remote, outrun, lane>>

(* POST /agent/ci-cycles/:id/pause: pauseWardenCiCycle.                    *)
Pause ==
  LET h == cycle.head IN
    /\ Event
    /\ cycle.status # "exhausted"
    /\ ~(update[h] = "intent_bound" /\ job["update"].status = "running" /\ ~job["update"].lapsed)
    /\ update' = [update EXCEPT ![h] = IF @ = "intent_bound" THEN "uncertain" ELSE @]
    /\ cycle' = WithStatus("paused")
    /\ UNCHANGED <<run, dispatch, job, mission, remote, outrun, lane>>

\* Mutant: the observation job is found by its key, though it is done.
WakeKeepsJob ==
  /\ Event
  /\ cycle.status \in {"awaiting_review", "succeeded"}
  /\ cycle' = WithStatus("observation_pending")
  /\ run' = "none"
  /\ UNCHANGED <<job, update, dispatch, mission, remote, outrun, lane>>

(* wakeWardenCiReviewObservation, by the webhook of a review of the head.  *)
Wake ==
  /\ Event
  /\ cycle.status \in {"awaiting_review", "succeeded"}
  /\ cycle' = WithStatus("observation_pending")
  /\ run' = "none"
  /\ job' = [job EXCEPT !["observe"] = NewJob]
  /\ UNCHANGED <<update, dispatch, mission, remote, outrun, lane>>

(* The sweep of merged outcomes.                                           *)
Accept ==
  /\ cycle.status = "awaiting_review" /\ mission = "current"
  /\ Event
  /\ cycle' = WithStatus("succeeded")
  /\ mission' \in {mission, "changed"}
  /\ UNCHANGED <<run, update, dispatch, job, remote, outrun, lane>>

(* A writer of the Mission: refused in flight, it revokes what is armed.   *)
ChangeMission ==
  /\ Event
  /\ mission = "current"
  /\ \A h \in Heads : dispatch[h] \notin InFlight
  /\ mission' = "changed"
  /\ dispatch' = [h \in Heads |-> IF dispatch[h] = "authorized" THEN "revoked" ELSE dispatch[h]]
  /\ UNCHANGED <<cycle, run, update, job, remote, outrun, lane>>

(* Somebody else pushes to the branch.                                     *)
PushByOthers ==
  /\ Event
  /\ remote' = Foreign
  /\ UNCHANGED <<rows, job, mission, outrun, lane>>

----------------------------------------------------------------------------
(***************************************************************************)
(* runWardenCandidateUpdate.                                               *)
(***************************************************************************)
(* The rows as the handler finds them: an update in doubt must first be    *)
(* reconciled, which a paused cycle still allows.                          *)
Inspect(l) ==
  LET h == lane[l].head
      seen == update[h]
      only == seen \in InDoubt /\ cycle.status = "paused"
  IN /\ lane[l].pc = "inspecting"
     /\ IF (cycle.status = "update_pending" \/ only) /\ cycle.head = h
           /\ run = "approved" /\ MissionStands
        THEN lane' = [lane EXCEPT ![l].pc = "resolving", ![l].note = seen, ![l].paused = only]
        ELSE Throw(l, "terminal")
     /\ UNCHANGED <<rows, job, mission, remote, outrun, events>>

(* The repository cannot be resolved, or the sealed candidate not read.    *)
ResolveFails(l) ==
  /\ lane[l].pc = "resolving"
  /\ \/ Throw(l, "terminal") /\ UNCHANGED events
     \/ Throw(l, "retryable") /\ Event
  /\ UNCHANGED <<rows, job, mission, remote, outrun>>

Bound == mission # "none"

(* The second look, after the repository was resolved.  An intent that was *)
(* armed but never begun is armed again; the rows of any other interrupted *)
(* attempt become uncertain, both of them when there is a Mission          *)
(* (markWardenCiUpdateTakeoverUncertain).                                  *)
Preflight(l) ==
  LET h == lane[l].head
      seen == lane[l].note
      takeover == seen = "intent_bound" \/ dispatch[h] = "dispatching"
      conflict == IF Bound THEN update[h] \notin InDoubt \/ dispatch[h] \notin InFlight
                  ELSE update[h] # "intent_bound"
  IN /\ lane[l].pc = "resolving"
     /\ IF \/ ~Fenced(l) \/ ~MissionStands \/ cycle.head # h
           \/ cycle.status # "update_pending" /\ ~lane[l].paused
        THEN Throw(l, "terminal") /\ UNCHANGED <<update, dispatch>>
        ELSE IF seen = "pending" \/ (seen = "intent_bound" /\ dispatch[h] = "authorized")
        THEN Goto(l, "authorizing") /\ UNCHANGED <<update, dispatch>>
        ELSE IF ~takeover
        THEN Goto(l, "reconciling") /\ UNCHANGED <<update, dispatch>>
        ELSE IF conflict
        THEN Throw(l, "terminal") /\ UNCHANGED <<update, dispatch>>
        ELSE /\ Goto(l, "reconciling")
             /\ update' = [update EXCEPT ![h] = "uncertain"]
             /\ dispatch' = IF Bound THEN [dispatch EXCEPT ![h] = "uncertain"] ELSE dispatch
     /\ UNCHANGED <<cycle, run, job, mission, remote, outrun, events>>

(* markRemoteOutcomeUncertain, by any lane, whether it has its lease.      *)
MarkUncertain(h) ==
  /\ update' = [update EXCEPT ![h] = IF @ = "intent_bound" THEN "uncertain" ELSE @]
  /\ dispatch' = [dispatch EXCEPT ![h] = IF @ = "dispatching" THEN "uncertain" ELSE @]

Uncertain(l, failure) == MarkUncertain(lane[l].head) /\ Throw(l, failure)

UncertainFailures == {"uncertain", "refused"}

(* reconcileExactDraftUpdate reads the branch: the expected head, the      *)
(* commit of the intent, or anything else.                                 *)
Reconcile(l) ==
  LET h == lane[l].head IN
    /\ lane[l].pc = "reconciling"
    /\ \/ remote = h /\ Goto(l, "refuting") /\ UNCHANGED <<update, dispatch, events>>
       \/ remote = h + 1 /\ Goto(l, "recording") /\ UNCHANGED <<update, dispatch, events>>
       \/ remote \notin {h, h + 1} /\ Uncertain(l, "uncertain") /\ UNCHANGED events
       \/ (\E failure \in UncertainFailures : Uncertain(l, failure)) /\ Event
    /\ UNCHANGED <<cycle, run, job, mission, remote, outrun>>

Outrun(h) == remote # h \/ \E l \in Lanes : lane[l].head = h /\ lane[l].pc = "calling"

\* Mutant: the dispatch is settled, but the update left uncertain.
RefuteHalf(l) ==
  LET h == lane[l].head IN
    /\ lane[l].pc = "refuting"
    /\ IF update[h] = "uncertain" /\ (Bound => dispatch[h] = "uncertain")
       THEN /\ dispatch' = IF Bound THEN [dispatch EXCEPT ![h] = "settled"] ELSE dispatch
            /\ Goto(l, "authorizing")
       ELSE Throw(l, "terminal") /\ UNCHANGED dispatch
    /\ UNCHANGED <<cycle, run, update, job, mission, remote, outrun, events>>

(* reconcileWardenCiUpdateNotApplied: the update may be sent afresh and    *)
(* the Mission is released, in one transaction, with no look at the lease. *)
Refute(l) ==
  LET h == lane[l].head IN
    /\ lane[l].pc = "refuting"
    /\ IF update[h] = "pending" /\ (Bound => dispatch[h] = "settled")
       THEN Goto(l, "authorizing") /\ UNCHANGED <<update, dispatch, outrun>>
       ELSE IF update[h] = "uncertain" /\ (Bound => dispatch[h] = "uncertain")
       THEN /\ update' = [update EXCEPT ![h] = "pending"]
            /\ dispatch' = IF Bound THEN [dispatch EXCEPT ![h] = "settled"] ELSE dispatch
            /\ outrun' = (outrun \/ Outrun(h))
            /\ Goto(l, "authorizing")
       ELSE Throw(l, "terminal") /\ UNCHANGED <<update, dispatch, outrun>>
    /\ UNCHANGED <<cycle, run, job, mission, remote, events>>

(* The review the repair answers is read again: it may have changed.       *)
FeedbackDrifts(l) ==
  /\ lane[l].pc = "authorizing"
  /\ \/ Throw(l, "terminal") /\ UNCHANGED events
     \/ Throw(l, "retryable") /\ Event
  /\ UNCHANGED <<rows, job, mission, remote, outrun>>

(* authorizeWardenCiUpdateIntent: the intent of the update and the         *)
(* dispatch row in one transaction.  A bound intent is not checked again.  *)
Authorize(l) ==
  LET h == lane[l].head
      binds == update[h] = "intent_bound"
               \/ (update[h] \in {"pending", "uncertain"} /\ Fenced(l)
                   /\ cycle.status = "update_pending" /\ cycle.head = h)
      arms == \/ dispatch[h] = "none" \/ dispatch[h] \in {"authorized", "dispatching", "uncertain"}
              \/ dispatch[h] = "settled" /\ update[h] = "pending"
  IN /\ lane[l].pc = "authorizing"
     /\ IF binds /\ (Bound => MissionStands /\ Fenced(l) /\ arms)
        THEN /\ update' = [update EXCEPT ![h] = "intent_bound"]
             /\ dispatch' = IF Bound /\ dispatch[h] \in {"none", "settled"}
                            THEN [dispatch EXCEPT ![h] = "authorized"] ELSE dispatch
             /\ Goto(l, IF Bound THEN "beginning" ELSE "calling")
        ELSE Throw(l, "terminal") /\ UNCHANGED <<update, dispatch>>
     /\ UNCHANGED <<cycle, run, job, mission, remote, outrun, events>>

(* beginMissionMutationRemoteCall.                                         *)
Begin(l) ==
  LET h == lane[l].head IN
    /\ lane[l].pc = "beginning"
    /\ IF ~MissionStands
       THEN /\ dispatch' = [dispatch EXCEPT ![h] = IF @ = "authorized" THEN "revoked" ELSE @]
            /\ Throw(l, "terminal")
       ELSE IF ~Fenced(l) \/ dispatch[h] # "authorized"
       THEN Throw(l, "terminal") /\ UNCHANGED dispatch
       ELSE dispatch' = [dispatch EXCEPT ![h] = "dispatching"] /\ Goto(l, "calling")
    /\ UNCHANGED <<cycle, run, update, job, mission, remote, outrun, events>>

(* updateExactDraft: a fast-forward of the expected head, or the head it   *)
(* already has; any other head is refused.                                 *)
Push(l) ==
  LET h == lane[l].head IN
    /\ lane[l].pc = "calling"
    /\ IF remote \in {h, h + 1}
       THEN remote' = h + 1 /\ Goto(l, "recording") /\ UNCHANGED <<update, dispatch>>
       ELSE Uncertain(l, "uncertain") /\ UNCHANGED remote
    /\ UNCHANGED <<cycle, run, job, mission, outrun, events>>

(* The call fails before or after the push, or what it returned cannot be  *)
(* recorded.                                                               *)
PushThrows(l) ==
  /\ lane[l].pc \in {"calling", "recording"}
  /\ \E failure \in UncertainFailures : Uncertain(l, failure)
  /\ Event
  /\ UNCHANGED <<cycle, run, job, mission, remote, outrun>>

(* One transaction: completeWardenCiUpdate advances the head of the cycle, *)
(* with a new observation unless the cycle is paused; the job is completed *)
(* and the dispatch settled.  The errors that say the Mission's authority  *)
(* is stale or the update not authorized read as refusals.                 *)
RecordUpdate(l) ==
  LET h == lane[l].head
      resumes == cycle.status = "update_pending"
      authorized == /\ MissionStands /\ cycle.head = h
                    /\ cycle.status \in {"update_pending", "paused"} /\ update[h] \in InDoubt
  IN /\ lane[l].pc = "recording"
     /\ IF authorized /\ (Bound => dispatch[h] \in InFlight) /\ Fenced(l)
        THEN /\ update' = [update EXCEPT ![h] = "delivered"]
             /\ cycle' = [status |-> IF resumes THEN "observation_pending" ELSE "paused",
                          head |-> h + 1, used |-> cycle.used]
             /\ run' = IF resumes THEN "none" ELSE run
             /\ dispatch' = IF Bound THEN [dispatch EXCEPT ![h] = "settled"] ELSE dispatch
             /\ job' = IF resumes THEN [Released("update", "done") EXCEPT !["observe"] = NewJob]
                       ELSE Released("update", "done")
             /\ Rest(l)
        ELSE /\ Uncertain(l, IF authorized THEN "uncertain" ELSE "refused")
             /\ UNCHANGED <<cycle, run, job>>
     /\ UNCHANGED <<mission, remote, outrun, events>>

----------------------------------------------------------------------------
Run(l) ==
  \/ Observe(l) \/ Poll(l) \/ RecordObservation(l)
  \/ DispatchRepair(l) \/ BeginRepair(l)
  \/ Inspect(l) \/ ResolveFails(l) \/ Preflight(l) \/ Reconcile(l) \/ Refute(l)
  \/ FeedbackDrifts(l) \/ Authorize(l) \/ Begin(l) \/ Push(l) \/ PushThrows(l) \/ RecordUpdate(l)
  \/ Fail(l)

People == Approve \/ Regenerate \/ Reject \/ Pause \/ Wake \/ Accept \/ ChangeMission \/ PushByOthers

Next ==
  \/ \E l \in Lanes : Claim(l) \/ Recover(l) \/ Run(l) \/ Crash(l)
  \/ \E r \in Roles : RetryJob(r) \/ CancelJob(r) \/ Expire(r) \/ Overrun(r)
  \/ AgentEnds \/ ExpireCandidate \/ People

Spec == Init /\ [][Next]_vars

(* As long as a job can be claimed or a lane has work, some lane works; the *)
(* leases of crashed lanes run out.                                        *)
FairSpec ==
  /\ Spec
  /\ WF_vars(\E l \in Lanes : Claim(l) \/ Recover(l) \/ Run(l))
  /\ WF_vars(\E r \in Roles : Expire(r))

----------------------------------------------------------------------------
(***************************************************************************)
(* Correctness.                                                            *)
(***************************************************************************)
TypeOK ==
  /\ cycle \in [status : CycleStatuses, head : Heads, used : Heads]
  /\ run \in RunStatuses
  /\ job \in [Roles -> JobRows]
  /\ update \in [Heads -> UpdateStates]
  /\ dispatch \in [Heads -> DispatchStates]
  /\ mission \in {"none", "current", "changed"}
  /\ remote \in Heads \cup {Foreign}
  /\ outrun \in BOOLEAN
  /\ lane \in [Lanes -> LaneStates]
  /\ events \in 0..MaxEvents

(* The branch is where the cycle believes it is, or one approved update    *)
(* further, and then that update is still to be reconciled: no crash, lost *)
(* lease or pause forgets a push.  (A lane that stalls inside its call     *)
(* while another proves that nothing was pushed can still push.)           *)
HeadAccounted ==
  remote # Foreign =>
    /\ remote \in {cycle.head, cycle.head + 1}
    /\ remote = cycle.head + 1 => update[cycle.head] \in InDoubt \/ outrun

(* The update and the fence of the Mission are in doubt together, and are  *)
(* settled together, whatever lane came late (the takeover, the refutation *)
(* and the recording are one transaction each).                            *)
InDoubtTogether ==
  \A h \in Heads :
    /\ dispatch[h] \in InFlight => update[h] \in InDoubt
    /\ dispatch[h] = "settled" => update[h] \in {"pending", "delivered", "failed"}
    /\ update[h] = "delivered" /\ Bound => dispatch[h] = "settled"

(* A cycle that waits for a worker has exactly the job it waits for: no    *)
(* other kind of job may run, and the one it needs is not finished.        *)
ServedBy == [observe |-> "observation_pending", repair |-> "checks_failed", update |-> "update_pending"]

WaitsForItsJob ==
  \A r \in Roles :
    /\ job[r].status \in {"pending", "running"} => cycle.status \in {ServedBy[r], "paused", "exhausted"}
    /\ cycle.status = ServedBy[r] => job[r].status \notin {"absent", "done"}

(* Nothing that was under way when the cycle was paused takes it on again: *)
(* not an observation, a dispatch, a candidate or an update; and no update *)
(* that was not in doubt is armed for it.  (One that was armed before the  *)
(* pause can still be pushed when the operator retries its job.)           *)
PauseStands ==
  [][cycle.status = "paused" =>
       /\ cycle'.status = "paused"
       /\ \A h \in Heads : update'[h] \in InDoubt => update[h] \in InDoubt]_vars

(* An update in doubt is reconciled, past its attempts: recorded, or sent  *)
(* again, or refused for good; unless its job was given up, its candidate  *)
(* has expired or the branch was moved by somebody else.                   *)
UpdateResolved ==
  \A h \in Heads :
    dispatch[h] \in InFlight ~>
      \/ dispatch[h] \notin InFlight
      \/ job["update"].status \in {"dead_letter", "cancelled"}
      \/ remote = Foreign
=============================================================================
