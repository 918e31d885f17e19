------------------------------ MODULE JobQueue ------------------------------
(***************************************************************************)
(* The jobs table of packages/db/src/index.ts and the worker lanes of      *)
(* apps/worker that drain it.  Jobs interact: a claim recovers every       *)
(* lapsed job of its scope, and counts the running jobs of a tenant.       *)
(*                                                                         *)
(* Every statement is its own transaction unless the code opens one; a     *)
(* lane is cut into steps between statements and at every await.  Each     *)
(* statement compares leases with an instant the caller read before it     *)
(* waited for the write lock, at most LockWait earlier.                    *)
(***************************************************************************)
EXTENDS Integers, FiniteSets

CONSTANTS
  Lanes,         \* lanes of all worker processes
  FairLanes,     \* lanes that keep claiming and whose handlers return
  Owners,        \* workerId values
  OwnerOf,       \* the workerId a lane passes
  Jobs,          \* jobs
  Tenants,       \* tenants
  TenantOf,      \* the tenant that owns a job
  Scope,         \* the tenants a lane drains
  Deliveries,    \* jobs of type warden.candidate.deliver
  Forwarding,    \* jobs of type warden.candidate.observe, .repair and .update
  Deferring,     \* ordinary jobs of type pipeline.delivery-retry
  Failures,      \* how the handler of a job can fail
  MaxAttempts,   \* max_attempts
  Capacity,      \* maxRunningPerTenant
  Lease,         \* leaseMs
  Delays,        \* the delays boundedDelayMs can return, and the deferral
  LockWait,      \* bound on the wait for the write lock
  MaxTime,       \* bound on the clock
  MaxGeneration, \* bound on the claims of a job
  MaxRequests,   \* bound on enqueues, retries and cancellations
  MaxCrashes     \* bound on crashes

FailureKinds == {"transient", "outage", "uncertain", "terminal"}

ASSUME JobsAssumption ==
  /\ FairLanes \subseteq Lanes
  /\ OwnerOf \in [Lanes -> Owners]
  /\ TenantOf \in [Jobs -> Tenants]
  /\ Scope \in [Lanes -> SUBSET Tenants]
  /\ Deliveries \subseteq Jobs
  /\ Forwarding \subseteq Jobs \ Deliveries
  /\ Deferring \subseteq Jobs \ Deliveries
  /\ Failures \subseteq FailureKinds
ASSUME NumbersAssumption ==
  /\ MaxAttempts \in Nat \ {0}
  /\ Capacity \in Nat \ {0}
  /\ Lease \in Nat \ {0}
  /\ Delays \subseteq Nat
  /\ LockWait \in Nat
  /\ MaxTime \in Nat
  /\ MaxGeneration \in Nat
  /\ MaxRequests \in Nat
  /\ MaxCrashes \in Nat

None == "none"
Never == -1

ASSUME NoneAssumption == None \notin Owners \cup Jobs

\* The table has finitely many rows, so that the running ones can be counted.
ASSUME FiniteAssumption == IsFiniteSet(Jobs)

VARIABLES
  clock,     \* the wall clock
  jobs,      \* the jobs table
  delivery,  \* status of the delivery row a delivery job carries out
  pc,        \* where each lane is
  held,      \* the job a lane runs and the generation it was claimed at
  outcome,   \* what the lane's handler came to
  retry,     \* the decision failJob took from the row it read
  seen,      \* what the autocommitting enqueueOrResetJob read
  drafts,    \* deliveries whose remote draft exists
  requests,  \* enqueues, retries and cancellations so far
  crashes    \* crashes so far

lanes == <<pc, held, outcome, retry>>
bounds == <<requests, crashes>>
vars == <<clock, jobs, delivery, lanes, seen, drafts, bounds>>

----------------------------------------------------------------------------
Statuses == {"absent", "pending", "running", "done", "dead_letter", "cancelled"}

Active == {"pending", "running"}

Settled == {"done", "dead_letter", "cancelled"}

Times == Nat \cup {Never}

JobRows == [status : Statuses, attempts : Nat, available : Times,
            owner : Owners \cup {None}, gen : Nat, lease : Times]

Absent == [status |-> "absent", attempts |-> 0, available |-> Never,
           owner |-> None, gen |-> 0, lease |-> Never]

\* bound: delivery_pending with an intent_digest
DeliveryStates == {"none", "pending", "bound", "delivered", "failed"}

Steps == {"idle", "working", "calling", "settling", "failing"}

Outcomes == {"none", "done", "deferred"} \cup FailureKinds

Reads == [job : Jobs \cup {None}, status : Statuses]

NotReading == [job |-> None, status |-> "absent"]

Claims == [job : Jobs \cup {None}, gen : Nat]

NoClaim == [job |-> None, gen |-> 0]

Instants == {t \in 0..clock : t >= clock - LockWait}

Init ==
  /\ clock = 0
  /\ jobs = [j \in Jobs |-> Absent]
  /\ delivery = [j \in Jobs |-> "none"]
  /\ pc = [l \in Lanes |-> "idle"]
  /\ held = [l \in Lanes |-> NoClaim]
  /\ outcome = [l \in Lanes |-> "none"]
  /\ retry = [l \in Lanes |-> FALSE]
  /\ seen = NotReading
  /\ drafts = {}
  /\ requests = 0
  /\ crashes = 0

----------------------------------------------------------------------------
(***************************************************************************)
(* The statements, as functions of the row.                                *)
(***************************************************************************)
Released(r) == [r EXCEPT !.owner = None, !.lease = Never]

Queued(r, at) == [Released(r) EXCEPT !.status = "pending", !.available = at]

Ended(r, status) == [Released(r) EXCEPT !.status = status, !.available = Never]

(* enqueueJob, and enqueueOrResetJob of a settled row: fresh attempts and a *)
(* new generation, so that a lane still running the old one is fenced.     *)
Fresh(at) == Queued(Absent, at)

Reset(r, at) == [Queued(r, at) EXCEPT !.attempts = 0, !.gen = @ + 1]

(* recoverExpiredJobs: a lapsed job goes back to the queue while attempts   *)
(* are left or an external side effect may exist.                          *)
Lapsed(r, at) == r.status = "running" /\ r.lease <= at

SideEffectMayExist(j) == delivery[j] = "bound"

\* Mutant: a side effect that may exist does not keep the job alive.
ShouldRetryWithinBudget(j) == jobs[j].attempts < MaxAttempts

ShouldRetry(j) == jobs[j].attempts < MaxAttempts \/ SideEffectMayExist(j)

\* Mutant: a lapsed job without attempts left is not dead-lettered.
RecoveredWithinBudget(l, at) ==
  [j \in Jobs |->
     IF Lapsed(jobs[j], at) /\ TenantOf[j] \in Scope[l] /\ ShouldRetry(j)
     THEN Queued(jobs[j], at) ELSE jobs[j]]

Recovered(l, at) ==
  [j \in Jobs |->
     IF ~Lapsed(jobs[j], at) \/ TenantOf[j] \notin Scope[l] THEN jobs[j]
     ELSE IF ShouldRetry(j) THEN Queued(jobs[j], at)
     ELSE Ended(jobs[j], "dead_letter")]

(* claimNextJob: the due job that has been available longest, of a tenant  *)
(* with capacity left.  Ties go by created_at and id, not modelled.        *)
Running(table, tenant) ==
  {j \in Jobs : TenantOf[j] = tenant /\ table[j].status = "running"}

\* Mutant: the capacity is off by one.
CandidatesAtCapacity(l, table, at) ==
  {j \in Jobs :
     /\ table[j].status = "pending" /\ table[j].available <= at
     /\ TenantOf[j] \in Scope[l]
     /\ Cardinality(Running(table, TenantOf[j])) <= Capacity
     /\ table[j].gen < MaxGeneration}

Candidates(l, table, at) ==
  {j \in Jobs :
     /\ table[j].status = "pending" /\ table[j].available <= at
     /\ TenantOf[j] \in Scope[l]
     /\ Cardinality(Running(table, TenantOf[j])) < Capacity
     /\ table[j].gen < MaxGeneration}

Oldest(l, table, at) ==
  {j \in Candidates(l, table, at) :
     \A k \in Candidates(l, table, at) : table[j].available <= table[k].available}

\* Mutant: the lease is taken in the name of the lane.
GrantedToLane(r, l, at) ==
  [r EXCEPT !.status = "running", !.attempts = @ + 1, !.owner = l,
            !.lease = at + Lease, !.gen = @ + 1]

Granted(r, l, at) ==
  [r EXCEPT !.status = "running", !.attempts = @ + 1, !.owner = OwnerOf[l],
            !.lease = at + Lease, !.gen = @ + 1]

(* The fence of completeJob, failJob, renewJobLease and the delivery.      *)
\* Mutant: the fence does not compare the generation.
FencedByName(l, at) ==
  LET r == jobs[held[l].job]
  IN  r.status = "running" /\ r.owner = OwnerOf[l] /\ r.lease > at

Fenced(l, at) ==
  LET r == jobs[held[l].job]
  IN  r.status = "running" /\ r.owner = OwnerOf[l] /\ r.gen = held[l].gen /\ r.lease > at

(* The fence of rescheduleJob looks at the owner only.                     *)
OwnedBy(l) ==
  jobs[held[l].job].status = "running" /\ jobs[held[l].job].owner = OwnerOf[l]

Deferred(r, at) ==
  [Queued(r, at) EXCEPT !.attempts = IF @ > 0 THEN @ - 1 ELSE 0]

(* Whether failJob requeues: the handler's failure, the option the job's   *)
(* failure path passes, and the attempts of the row it reads.              *)
PastMaxAttempts(j, kind) ==
  \/ j \in Deliveries /\ kind = "uncertain"
  \/ j \in Forwarding /\ kind = "outage"

\* Mutant: the attempt budget is off by one.
RetriesOffByOne(j, kind) ==
  /\ kind # "terminal"
  /\ PastMaxAttempts(j, kind) \/ jobs[j].attempts <= MaxAttempts

Retries(j, kind) ==
  /\ kind # "terminal"
  /\ PastMaxAttempts(j, kind) \/ jobs[j].attempts < MaxAttempts

----------------------------------------------------------------------------
(***************************************************************************)
(* Requests: the API, and the pipeline that enqueues follow-up jobs.       *)
(***************************************************************************)
Request == requests < MaxRequests /\ requests' = requests + 1

Put(j, r) == jobs' = [jobs EXCEPT ![j] = r]

(* enqueueJob, or enqueueWardenCandidateDelivery with its delivery row.    *)
Enqueue(j) ==
  /\ Request
  /\ jobs[j].status = "absent"
  /\ Put(j, Fresh(clock))
  /\ delivery' = [delivery EXCEPT ![j] = IF j \in Deliveries THEN "pending" ELSE @]
  /\ UNCHANGED <<clock, lanes, seen, drafts, crashes>>

(* enqueueOrResetJob inside a transaction of the caller.                   *)
EnqueueOrReset(j) ==
  /\ Request
  /\ j \notin Deliveries
  /\ jobs[j].status \in Settled
  /\ Put(j, Reset(jobs[j], clock))
  /\ UNCHANGED <<clock, delivery, lanes, seen, drafts, crashes>>

(* enqueueOrResetJob without one: the lookup and the write that follows it *)
(* are two statements.  The UPDATE does not look at the status again.      *)
ReadForReset(j) ==
  /\ Request
  /\ seen = NotReading
  /\ j \notin Deliveries
  /\ seen' = [job |-> j, status |-> jobs[j].status]
  /\ UNCHANGED <<clock, jobs, delivery, lanes, drafts, crashes>>

WriteReset ==
  /\ seen # NotReading
  /\ seen' = NotReading
  /\ IF seen.status = "absent" /\ jobs[seen.job].status = "absent"
     THEN Put(seen.job, Fresh(clock))
     ELSE IF seen.status \in Settled
     THEN Put(seen.job, Reset(jobs[seen.job], clock))
     ELSE UNCHANGED jobs
  /\ UNCHANGED <<clock, delivery, lanes, drafts, bounds>>

(* POST /jobs/:id/retry and /jobs/:id/cancel.                              *)
RetryJob(j) ==
  /\ Request
  /\ jobs[j].status \in {"dead_letter", "cancelled"}
  /\ Put(j, [Queued(jobs[j], clock) EXCEPT !.attempts = 0])
  /\ UNCHANGED <<clock, delivery, lanes, seen, drafts, crashes>>

CancelJob(j) ==
  /\ Request
  /\ jobs[j].status \in {"pending", "dead_letter"}
  /\ Put(j, Ended(jobs[j], "cancelled"))
  /\ UNCHANGED <<clock, delivery, lanes, seen, drafts, crashes>>

----------------------------------------------------------------------------
(***************************************************************************)
(* A lane: processJobsOnce, one job after the other.                       *)
(***************************************************************************)
Goto(l, step) == pc' = [pc EXCEPT ![l] = step]

Rest(l) ==
  /\ Goto(l, "idle")
  /\ held' = [held EXCEPT ![l] = NoClaim]
  /\ outcome' = [outcome EXCEPT ![l] = "none"]
  /\ retry' = [retry EXCEPT ![l] = FALSE]

(* claimNextJob: one transaction recovers, selects and claims.             *)
Claim(l) ==
  /\ pc[l] = "idle"
  /\ \E at \in Instants :
       LET table == Recovered(l, at)
       IN  \/ /\ Oldest(l, table, at) = {}
              /\ jobs' = table
              /\ UNCHANGED <<pc, held>>
           \/ \E j \in Oldest(l, table, at) :
                /\ jobs' = [table EXCEPT ![j] = Granted(@, l, at)]
                /\ held' = [held EXCEPT ![l] = [job |-> j, gen |-> table[j].gen + 1]]
                /\ Goto(l, "working")
  /\ UNCHANGED <<clock, delivery, outcome, retry, seen, drafts, bounds>>

(* renewJobLease, every third of the lease while the handler runs.         *)
Renew(l) ==
  /\ pc[l] \in {"working", "calling"}
  /\ \E at \in Instants :
       /\ Fenced(l, at)
       /\ Put(held[l].job, [jobs[held[l].job] EXCEPT !.lease = at + Lease])
  /\ UNCHANGED <<clock, delivery, lanes, seen, drafts, bounds>>

Finish(l, result) ==
  Goto(l, "settling") /\ outcome' = [outcome EXCEPT ![l] = result]

(* The handler of an ordinary job returns or throws.  A delivery may throw *)
(* before its remote call, which leaves no effect of its own to doubt.     *)
Work(l) ==
  /\ pc[l] = "working"
  /\ \E result \in {"done", "deferred"} \cup Failures :
       /\ IF held[l].job \in Deliveries
          THEN result \in {"transient", "terminal"}
          ELSE /\ result = "deferred" => held[l].job \in Deferring
               /\ result # "uncertain"
       /\ Finish(l, result)
  /\ UNCHANGED <<clock, jobs, delivery, held, retry, seen, drafts, bounds>>

(* bindWardenCandidateDeliveryIntent, fenced; a delivery row no longer     *)
(* pending is a terminal failure.  A lane whose lease is lost throws, and  *)
(* failing the job is fenced off as well.                                  *)
BindIntent(l) ==
  /\ pc[l] = "working"
  /\ held[l].job \in Deliveries
  /\ \/ /\ delivery[held[l].job] \notin {"pending", "bound"}
        /\ Finish(l, "terminal")
        /\ UNCHANGED <<delivery, held, retry>>
     \/ /\ delivery[held[l].job] \in {"pending", "bound"}
        /\ \E at \in Instants :
             IF Fenced(l, at)
             THEN /\ delivery' = [delivery EXCEPT ![held[l].job] = "bound"]
                  /\ Goto(l, "calling")
                  /\ UNCHANGED <<held, outcome, retry>>
             ELSE Rest(l) /\ UNCHANGED delivery
  /\ UNCHANGED <<clock, jobs, seen, drafts, bounds>>

(* deliverExactDraft: done with the draft, uncertain about it, or a        *)
(* definite failure.  An existing draft is found and returned.             *)
Deliver(l) ==
  /\ pc[l] = "calling"
  /\ \E result \in {"done"} \cup (Failures \ {"outage"}) :
       /\ Finish(l, result)
       /\ \/ result = "done" /\ drafts' = drafts \cup {held[l].job}
          \/ result = "uncertain" /\ drafts' \in {drafts, drafts \cup {held[l].job}}
          \/ result \in {"transient", "terminal"} /\ drafts' = drafts
  /\ UNCHANGED <<clock, jobs, delivery, held, retry, seen, bounds>>

(* completeJob; a delivery is recorded in the same transaction.  A lane    *)
(* whose fence is lost throws, and failing the job is fenced off as well.  *)
Complete(l) ==
  /\ pc[l] = "settling" /\ outcome[l] = "done"
  /\ \E at \in Instants :
       IF Fenced(l, at)
       THEN /\ Put(held[l].job, Ended(jobs[held[l].job], "done"))
            /\ delivery' = [delivery EXCEPT ![held[l].job] =
                              IF held[l].job \in Deliveries THEN "delivered" ELSE @]
       ELSE UNCHANGED <<jobs, delivery>>
  /\ Rest(l)
  /\ UNCHANGED <<clock, seen, drafts, bounds>>

(* rescheduleJob                                                           *)
Reschedule(l) ==
  /\ pc[l] = "settling" /\ outcome[l] = "deferred"
  /\ IF OwnedBy(l)
     THEN \E delay \in Delays :
            Put(held[l].job, Deferred(jobs[held[l].job], clock + delay))
     ELSE UNCHANGED jobs
  /\ Rest(l)
  /\ UNCHANGED <<clock, delivery, seen, drafts, bounds>>

FailedRow(r, requeue, at) ==
  IF requeue THEN Queued(r, at) ELSE Ended(r, "dead_letter")

(* failJob of an ordinary job reads the row in one statement and updates   *)
(* it in another; not in one transaction, as for the jobs below.           *)
FailRead(l) ==
  /\ pc[l] = "settling" /\ outcome[l] \in FailureKinds
  /\ held[l].job \notin Deliveries \cup Forwarding
  /\ retry' = [retry EXCEPT ![l] = Retries(held[l].job, outcome[l])]
  /\ Goto(l, "failing")
  /\ UNCHANGED <<clock, jobs, delivery, held, outcome, seen, drafts, bounds>>

FailWrite(l) ==
  /\ pc[l] = "failing"
  /\ \E at \in Instants, delay \in Delays :
       IF Fenced(l, at)
       THEN Put(held[l].job, FailedRow(jobs[held[l].job], retry[l], at + delay))
       ELSE UNCHANGED jobs
  /\ Rest(l)
  /\ UNCHANGED <<clock, delivery, seen, drafts, bounds>>

(* A delivery or CI job is failed in one transaction, a delivery together  *)
(* with its row.                                                           *)
FailAtomically(l) ==
  /\ pc[l] = "settling" /\ outcome[l] \in FailureKinds
  /\ held[l].job \in Deliveries \cup Forwarding
  /\ \E at \in Instants, delay \in Delays :
       LET j == held[l].job
           requeue == Retries(j, outcome[l])
       IN  IF Fenced(l, at)
           THEN /\ Put(j, FailedRow(jobs[j], requeue, at + delay))
                /\ delivery' = [delivery EXCEPT ![j] =
                     IF ~requeue /\ @ \in {"pending", "bound"} THEN "failed" ELSE @]
           ELSE UNCHANGED <<jobs, delivery>>
  /\ Rest(l)
  /\ UNCHANGED <<clock, seen, drafts, bounds>>

(* The process dies, or a settlement throws and the lane goes on.          *)
Crash(l) ==
  /\ pc[l] # "idle"
  /\ crashes < MaxCrashes
  /\ crashes' = crashes + 1
  /\ Rest(l)
  /\ UNCHANGED <<clock, jobs, delivery, seen, drafts, requests>>

Tick ==
  /\ clock < MaxTime
  /\ clock' = clock + 1
  /\ UNCHANGED <<jobs, delivery, lanes, seen, drafts, bounds>>

Run(l) ==
  \/ Work(l) \/ BindIntent(l) \/ Deliver(l) \/ Complete(l) \/ Reschedule(l)
  \/ FailRead(l) \/ FailWrite(l) \/ FailAtomically(l)

Next ==
  \/ \E j \in Jobs : \/ Enqueue(j) \/ EnqueueOrReset(j) \/ ReadForReset(j)
                     \/ RetryJob(j) \/ CancelJob(j)
  \/ WriteReset
  \/ \E l \in Lanes : Claim(l) \/ Renew(l) \/ Run(l) \/ Crash(l)
  \/ Tick

Spec == Init /\ [][Next]_vars

(***************************************************************************)
(* Fairness: the clock advances, and the lanes of FairLanes claim again    *)
(* when idle and see their handlers return.  Other lanes may hang for      *)
(* ever, with or without renewing; requests and crashes owe nothing.       *)
(***************************************************************************)
FairSpec ==
  Spec /\ WF_vars(Tick) /\ \A l \in FairLanes : WF_vars(Claim(l)) /\ WF_vars(Run(l))

----------------------------------------------------------------------------
(* Every variable has its type.                                            *)
TypeOK ==
  /\ clock \in Nat
  /\ jobs \in [Jobs -> JobRows]
  /\ delivery \in [Jobs -> DeliveryStates]
  /\ pc \in [Lanes -> Steps]
  /\ held \in [Lanes -> Claims]
  /\ outcome \in [Lanes -> Outcomes]
  /\ retry \in [Lanes -> BOOLEAN]
  /\ seen \in Reads
  /\ drafts \subseteq Jobs
  /\ requests \in Nat
  /\ crashes \in Nat

Busy(l) == pc[l] # "idle"

(* However lanes stall, crash and share a workerId, at most one of them    *)
(* could settle or renew a job, also with an instant it read before it     *)
(* waited for the write lock.                                              *)
OneLease ==
  \A k, l \in Lanes :
    /\ Busy(k) /\ \E at \in Instants : Fenced(k, at)
    /\ Busy(l) /\ \E at \in Instants : Fenced(l, at)
    /\ held[k].job = held[l].job
    => k = l

(* The columns of a row agree: exactly the running jobs are leased, a      *)
(* queued job says when it is due, and a settled one will not be claimed.  *)
(* Without leave to retry past it, a queued job has an attempt left, so    *)
(* claimNextJob, which does not count attempts, never exceeds the budget.  *)
RowConsistent ==
  \A j \in Jobs :
    /\ (jobs[j].status = "running") <=> (jobs[j].owner # None)
    /\ (jobs[j].status = "running") <=> (jobs[j].lease # Never)
    /\ jobs[j].status \in Active => jobs[j].available # Never
    /\ jobs[j].status \in Settled => jobs[j].available = Never
    /\ jobs[j].status = "running" => jobs[j].attempts >= 1
    /\ j \notin Deliveries \cup Forwarding =>
         /\ jobs[j].attempts <= MaxAttempts
         /\ jobs[j].status = "pending" => jobs[j].attempts < MaxAttempts

(* A tenant never holds more leases than maxRunningPerTenant, whichever    *)
(* lanes claim concurrently and whatever is recovered meanwhile.           *)
TenantCapacity ==
  \A t \in Tenants : Cardinality(Running(jobs, t)) <= Capacity

(* failJob decides between retry and dead letter from a row it read in an  *)
(* earlier statement; where its update applies, the decision is the one    *)
(* the row still calls for.                                                *)
FailDecisionCurrent ==
  \A l \in Lanes :
    /\ pc[l] = "failing"
    /\ \E at \in Instants : Fenced(l, at)
    => retry[l] = Retries(held[l].job, outcome[l])

DeadLetters(j) == jobs[j].status = "running" /\ jobs'[j].status = "dead_letter"

Settles(l, j) == pc[l] \in {"settling", "failing"} /\ held[l].job = j /\ pc'[l] = "idle"

(* A delivery that may have left a draft behind is not dead-lettered by a  *)
(* lapsed lease, an uncertain outcome or a lane that lost its claim, but   *)
(* only by the lane that holds it: after a terminal failure, or a          *)
(* transient one in the last attempt.  (Either can come before the call of *)
(* this attempt; the draft an earlier one left is then given up with it.)  *)
LastAttempt(j) == jobs[j].attempts >= MaxAttempts

HoldsClaim(l) == \E at \in Instants : Fenced(l, at)

UncertainEffectSurvives ==
  [][\A j \in Deliveries :
       delivery[j] = "bound" /\ DeadLetters(j) =>
         \E l \in Lanes :
           /\ Settles(l, j) /\ HoldsClaim(l)
           /\ outcome[l] = "terminal" \/ (outcome[l] = "transient" /\ LastAttempt(j))]_vars

(* A delivery outage keeps retrying past the attempt budget: elapsed time  *)
(* alone never dead-letters the job.                                       *)
OutageOutlivesBudget ==
  [][\A j \in Jobs \ Deliveries, l \in Lanes :
       DeadLetters(j) /\ Settles(l, j) => outcome[l] # "outage"]_vars

PastHorizon(k) == jobs[k].status = "running" /\ jobs[k].lease > MaxTime

(* A crashed lane's job is recovered: within the modelled time, once its   *)
(* lease has lapsed some lane claims, requeues or dead-letters it.         *)
OrphanRecovered ==
  \A j \in Jobs, g \in 1..MaxGeneration :
    (jobs[j].status = "running" /\ jobs[j].gen = g /\ jobs[j].lease <= MaxTime)
      ~> (jobs[j].status # "running" \/ jobs[j].gen # g \/ PastHorizon(j))
=============================================================================
