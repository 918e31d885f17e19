---------------------------- MODULE FanoutUsage ----------------------------
(***************************************************************************)
(* pipeline.fanout jobs that hold quota while they run: the API routes of  *)
(* apps/api/src/server.ts that admit, cancel and retry a run, the worker   *)
(* that finishes or fails it (apps/worker/src/cli.ts), and the ledger they *)
(* share with the billing routes.  The job row and the ledger are written  *)
(* in one transaction when a run completes, and in two everywhere else.    *)
(*                                                                         *)
(* Leases and fences are those of JobQueue: here a lease may lapse at any  *)
(* time, and a lane that lost its job changes nothing.                     *)
(***************************************************************************)
EXTENDS UsageLedger

CONSTANTS
  Runs,         \* pipeline.fanout runs, each with its own job
  Estimates,    \* estimateRunMcuMicros of a run
  MaxAttempts,  \* max_attempts of a job
  MaxRetries    \* bound on the retries an operator asks for, per run

ASSUME RunsAssumption ==
  /\ Estimates \subseteq Nat \ {0} /\ Estimates # {}
  /\ MaxAttempts \in Nat \ {0}
  /\ MaxRetries \in Nat

VARIABLES
  jobs,    \* the job of a run; hold is the reservation id in its payload
  owed     \* releases a process has yet to call: the run and who owes it

vars == <<plans, entries, auths, jobs, owed>>

runs == <<jobs, owed>>

\* "admitted" is a request between its admission and its enqueue.
Statuses == {"none", "admitted", "lost", "pending", "running", "done", "dead_letter", "cancelled"}

NoJob == [status |-> "none", hold |-> 0, attempts |-> 0, retries |-> 0]

FanoutInit ==
  /\ Init
  /\ jobs = [r \in Runs |-> NoJob]
  /\ owed = {}

\* The accounts the ledger keeps; no operation moves more than a whole quota.
Versions == 1..MaxPlans

Granted == [p \in Versions |-> IF p \in DOMAIN plans THEN plans[p].quota ELSE 0]

OnHold == [p \in Versions |-> Reserved(p)]

Used == [p \in Versions |-> Consumed(p)]

Account == INSTANCE QuotaAccount WITH
  Plans <- Versions, Sums <- UpToOneOf(Quotas),
  quota <- Granted, reserved <- OnHold, consumed <- Used

-----------------------------------------------------------------------------
SetStatus(r, status) == jobs' = [jobs EXCEPT ![r].status = status]

\* POST /jobs/fanout: admitRunUsage under a fresh run id ...
AdmitRunUsage(r, n) ==
  /\ jobs[r].status = "none"
  /\ Reserve(None, n)
  /\ jobs' = [jobs EXCEPT ![r] = [@ EXCEPT !.status = "admitted", !.hold = Now]]
  /\ UNCHANGED <<plans, auths, owed>>

\* ... and, in a later statement, enqueueJob.
EnqueueJob(r) ==
  /\ jobs[r].status = "admitted"
  /\ SetStatus(r, "pending")
  /\ UNCHANGED <<ledger, owed>>

ApiCrash ==
  /\ jobs' = [r \in Runs |->
                IF jobs[r].status = "admitted" THEN [jobs[r] EXCEPT !.status = "lost"] ELSE jobs[r]]
  /\ owed' = {o \in owed : o.by # "api"}
  /\ UNCHANGED ledger

ClaimNextJob(r) ==
  /\ jobs[r].status = "pending"
  /\ jobs' = [jobs EXCEPT ![r].status = "running", ![r].attempts = @ + 1]
  /\ UNCHANGED <<ledger, owed>>

CompleteRunSettledApart(r, n) ==
  /\ jobs[r].status = "running"
  /\ Settle(jobs[r].hold, n, None)
  /\ UNCHANGED <<plans, auths, runs>>

\* completeJob and settleFanoutRunUsage commit together; a hold that is
\* closed makes the settlement throw, and the job fails instead.
CompleteRun(r, n) ==
  /\ jobs[r].status = "running"
  /\ Settle(jobs[r].hold, n, None)
  /\ SetStatus(r, "done")
  /\ UNCHANGED <<plans, auths, owed>>

Requeued(r) == SetStatus(r, "pending") /\ UNCHANGED owed

ReleaseOwed(r, by) == owed' = owed \cup {[run |-> r, by |-> by]}

\* failJob: only a dead letter gives its hold back, in a later transaction.
FailRun(r) ==
  /\ jobs[r].status = "running"
  /\ \/ jobs[r].attempts < MaxAttempts /\ Requeued(r)
     \/ SetStatus(r, "dead_letter") /\ ReleaseOwed(r, "worker")
  /\ UNCHANGED ledger

RecoverPastBudget(r) ==
  /\ jobs[r].status = "running"
  /\ SetStatus(r, "pending")
  /\ UNCHANGED <<ledger, owed>>

\* recoverExpiredJobs: nobody releases the hold of a run that dies this way.
RecoverExpiredJob(r) ==
  /\ jobs[r].status = "running"
  /\ SetStatus(r, IF jobs[r].attempts < MaxAttempts THEN "pending" ELSE "dead_letter")
  /\ UNCHANGED <<ledger, owed>>

\* cancelJob, then a release by the reservation id read before it.
CancelJob(r) ==
  /\ jobs[r].status \in {"pending", "dead_letter"}
  /\ SetStatus(r, "cancelled")
  /\ ReleaseOwed(r, "api")
  /\ UNCHANGED ledger

\* retryJob leaves the payload, and so the hold, as it is.
RetryJob(r) ==
  /\ jobs[r].status \in {"dead_letter", "cancelled"}
  /\ jobs[r].retries < MaxRetries
  /\ jobs' = [jobs EXCEPT ![r].status = "pending", ![r].attempts = 0, ![r].retries = @ + 1]
  /\ UNCHANGED <<ledger, owed>>

\* releaseRunUsage; a hold that is closed makes it throw, which is logged.
ReleaseRunUsage(o) ==
  /\ \/ Release(jobs[o.run].hold)
     \/ Outstanding(jobs[o.run].hold) = 0 /\ UNCHANGED entries
  /\ owed' = owed \ {o}
  /\ UNCHANGED <<plans, auths, jobs>>

WorkerCrash ==
  /\ owed' = {o \in owed : o.by # "worker"}
  /\ UNCHANGED <<ledger, jobs>>

RunNext ==
  \/ \E r \in Runs :
       \/ \E n \in Estimates : AdmitRunUsage(r, n)
       \/ EnqueueJob(r) \/ ClaimNextJob(r) \/ FailRun(r) \/ RecoverExpiredJob(r)
       \/ \E n \in UpToOneOf(Estimates) : CompleteRun(r, n)
       \/ CancelJob(r) \/ RetryJob(r)
  \/ \E o \in owed : ReleaseRunUsage(o)
  \/ ApiCrash \/ WorkerCrash

Next == RunNext \/ (LedgerNext /\ UNCHANGED runs)

Spec == FanoutInit /\ [][Next]_vars

-----------------------------------------------------------------------------
TypeOK ==
  /\ LedgerTypeOK
  /\ jobs \in [Runs -> [status : Statuses, hold : 0..MaxEntries, attempts : 0..MaxAttempts,
                        retries : 0..MaxRetries]]
  /\ owed \subseteq [run : Runs, by : {"api", "worker"}]

\* The ledger implements the accounts it keeps: no interleaving of admissions,
\* settlements, corrections and renewals takes an entitlement past its quota
\* or below zero, and a credit reaches all its entitlements at once.
ImplementsAccount == Account!Spec

Charges(r) == {i \in DOMAIN entries : entries[i].kind = "settlement" /\ entries[i].hold = jobs[r].hold}

\* A run is charged once if it completed and never otherwise, whoever crashed
\* between the job row and the ledger ("an infra failure burns no quota").
ChargedIffDone ==
  \A r \in Runs :
    jobs[r].hold # 0 => Cardinality(Charges(r)) = (IF jobs[r].status = "done" THEN 1 ELSE 0)

\* docs/USAGE_ENFORCEMENT.md of POST /jobs/:id/retry: "The in-place retry
\* reuses the existing outstanding hold; it settles when the retried run
\* completes."
RetriedRunHolds ==
  \A r \in Runs :
    (jobs[r].status \in {"pending", "running"} /\ jobs[r].retries > 0) =>
      Outstanding(jobs[r].hold) > 0
=============================================================================
