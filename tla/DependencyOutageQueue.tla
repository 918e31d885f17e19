----------------------- MODULE DependencyOutageQueue -----------------------
(***************************************************************************)
(* The durable dependency-outage ledger of                                 *)
(* packages/db/src/dependency-outage-queue.ts and the workers that run one *)
(* operation through it.                                                   *)
(*                                                                         *)
(* Every statement of the code is keyed by the full primary key of one     *)
(* operation, so operations do not interact: the model is one row, its     *)
(* last history event, and the workers (async calls of run, in one process *)
(* or several) that share it.  A worker's call is cut into steps exactly   *)
(* where another worker can get in between: at every BEGIN IMMEDIATE       *)
(* transaction and at every await.  A worker may crash between any two.    *)
(***************************************************************************)
EXTENDS OutagePolicy

CONSTANTS
  Workers,       \* concurrent calls of run
  Owners,        \* workerId values
  OwnerOf,       \* the workerId a call passes; calls of one process share it
  Authorities,   \* authority versions the credential can have
  Digests,       \* completion digests an execution can return
  Adoptive,      \* operation.adoptive: runAdoptive instead of run
  Failures,      \* what a call of the provider can fail with
  Replies,       \* what operation.reconcile can answer
  RetryBudget,   \* operation.retryBudget
  Lease,         \* operation.leaseMs
  Window,        \* operation.expiresAt, from the start of the call
  MaxTime,       \* bound on the clock
  MaxGeneration, \* bound on the claim generation at which a call starts
  MaxMishaps     \* bound on the number of mishaps: crashes and changes of the credential

ASSUME OwnersAssumption == OwnerOf \in [Workers -> Owners]
ASSUME ModeAssumption == Adoptive \in BOOLEAN
ASSUME FailuresAssumption == Failures \subseteq FailureKinds \cup {"unclassifiable"}
ASSUME RepliesAssumption == Replies \subseteq {"missing", "resume", "completed", "error"}
ASSUME TimesAssumption ==
  /\ RetryBudget \in Nat \ {0}
  /\ Lease \in Nat \ {0}
  /\ Window \in Nat \ {0}
  /\ MaxTime \in Nat
  /\ MaxGeneration \in Nat
  /\ MaxMishaps \in Nat

None == "none"

ASSUME NoneAssumption == None \notin Authorities \cup Digests \cup Owners

VARIABLES
  clock,      \* the wall clock every worker reads
  authority,  \* the authority version a call starting now would pass
  row,        \* the row of dependency_outage_operations
  event,      \* the kind of the last row of dependency_outage_history
  pc,         \* where each worker's call of run is
  now,        \* the instant run read at its start
  auth,       \* the authority version the call passes
  seen,       \* what the worker last read of the row before the claim
  claim,      \* the DependencyOutageClaim it holds: a copy of the row
  result,     \* what the last await of reconcile or execute gave it
  produced,   \* the completion digests of effects the provider applied
  executions, \* provider calls made since the window was opened
  uncertain,  \* an effect was recorded as possibly applied
  mishaps     \* mishaps so far

ledger == <<row, event>>
workers == <<pc, now, auth, seen, claim, result>>
ghosts == <<produced, executions, uncertain>>
vars == <<clock, authority, ledger, workers, ghosts, mishaps>>

----------------------------------------------------------------------------
Statuses == {"absent", "queued", "claimed", "blocked", "failed", "completed"}

LiveStatuses == {"queued", "claimed", "blocked"}

Events == {"none", "enqueued", "claimed", "claim_recovered", "reconciliation_claimed",
           "completed", "failed", "reconciliation_required", "authority_blocked",
           "retry_scheduled", "authority_reactivated", "reopened"}

Times == Nat \cup {Never}

Rows == [status : Statuses, standing : Standings, circuit : Circuits,
         attempts : Nat, next : Nat, expires : Nat,
         authority : Authorities \cup {None}, owner : Owners \cup {None},
         gen : Nat, lease : Times, digest : Digests \cup {None},
         reason : Reasons \cup {None}]

Absent == [status |-> "absent", standing |-> "healthy", circuit |-> ClosedCircuit,
           attempts |-> 0, next |-> 0, expires |-> 0, authority |-> None,
           owner |-> None, gen |-> 0, lease |-> Never, digest |-> None,
           reason |-> None]

Summaries == [status : Statuses, authority : Authorities \cup {None},
              reason : Reasons \cup {None}]

Summary(r) == [status |-> r.status, authority |-> r.authority, reason |-> r.reason]

Results == [tag : {"none", "missing", "resume", "completed", "executed", "error"},
            digest : Digests \cup {None}, kind : Failures \cup {None}]

Result(tag, digest, kind) == [tag |-> tag, digest |-> digest, kind |-> kind]

Unset == Result("none", None, None)

Steps == {"idle", "enqueue", "get", "authorize", "claim", "reconcile", "reconciled",
          "execute", "executed", "replay"}

Init ==
  /\ clock = 0
  /\ authority \in Authorities
  /\ row = Absent
  /\ event = "none"
  /\ pc = [w \in Workers |-> "idle"]
  /\ now = [w \in Workers |-> 0]
  /\ auth = [w \in Workers |-> None]
  /\ seen = [w \in Workers |-> Summary(Absent)]
  /\ claim = [w \in Workers |-> Absent]
  /\ result = [w \in Workers |-> Unset]
  /\ produced = {}
  /\ executions = 0
  /\ uncertain = FALSE
  /\ mishaps = 0

----------------------------------------------------------------------------
(***************************************************************************)
(* The transactions, as functions of the row.  A transaction that throws   *)
(* or returns without an UPDATE leaves the row alone.                      *)
(***************************************************************************)

(* enqueue: run always passes status queued and the default circuit.       *)
Inserted(w) ==
  [Absent EXCEPT !.status = "queued", !.standing = "degraded_retrying",
                 !.next = now[w], !.expires = now[w] + Window,
                 !.authority = auth[w]]

(* reopen                                                                  *)
AutoReopenReasons == {"operation_expired", "retry_budget_exhausted"}

CanReopen(r, reason) ==
  /\ r.status = "failed"
  /\ r.reason # "permanent_failure"
  /\ reason = "operator_retry" \/ r.reason = reason

Reopened(r, at) ==
  [r EXCEPT !.status = "queued", !.standing = "degraded_retrying",
            !.circuit = [@ EXCEPT !.state = "half_open", !.openedAt = Never],
            !.attempts = 0, !.next = at, !.expires = at + Window,
            !.owner = None, !.lease = Never, !.reason = None]

(* reactivateAuthority                                                     *)
CanReactivate(r, previous, at) ==
  /\ r.status \in {"blocked", "queued"}
  /\ r.authority = previous
  /\ r.expires > at
  /\ r.status = "blocked" => r.reason = AuthorityReason

Reactivated(r, next, at) ==
  [r EXCEPT !.status = "queued", !.standing = "degraded_retrying",
            !.circuit = [@ EXCEPT !.state = "half_open"],
            !.next = at, !.authority = next]

(* claim                                                                   *)

(* Broken variant: a claimed row is taken over without looking at the lease. *)
RecoveringLive(r, at) == r.status = "claimed"

Recovering(r, at) == r.status = "claimed" /\ r.lease <= at

Reconciling(r) == r.status = "blocked" /\ r.reason = ReconcileReason

ExpiredRecovery(r, at) == Recovering(r, at) /\ r.expires <= at

AuthorityMismatch(r, a, at) ==
  /\ r.status = "queued" \/ Recovering(r, at) \/ Reconciling(r)
  /\ r.authority # a

ExpiredInQueue(r, at) == r.status = "queued" /\ r.expires <= at

(* Broken variant: a lapsed claim may be retried past the budget. *)
RetryEligibleOverBudget(r, at) ==
  (r.status = "queued" \/ Recovering(r, at)) /\ r.next <= at /\ r.expires > at

RetryEligible(r, at) ==
  /\ r.status = "queued" \/ Recovering(r, at)
  /\ r.next <= at
  /\ r.expires > at
  /\ r.attempts < RetryBudget

ExpiredRow(r, at) ==
  [r EXCEPT !.status = "failed", !.standing = "degraded_failed",
            !.circuit = Opened(@, at), !.owner = None, !.lease = Never,
            !.reason = "operation_expired"]

(* Broken variant: a lapsed claim past its window is never recovered. *)
ClaimableInWindow(r, at) == RetryEligible(r, at) \/ Reconciling(r)

Claimable(r, at) ==
  RetryEligible(r, at) \/ Reconciling(r) \/ ExpiredRecovery(r, at)

ConsumesAttempt(r, at) == ~Reconciling(r) /\ ~ExpiredRecovery(r, at)

Claimed(r, w, at) ==
  [r EXCEPT !.status = "claimed", !.standing = "recovering",
            !.circuit = IF ConsumesAttempt(r, at) /\ @.state = "open"
                        THEN [@ EXCEPT !.state = "half_open"] ELSE @,
            !.owner = OwnerOf[w], !.gen = @ + 1, !.lease = at + Lease,
            !.attempts = IF ConsumesAttempt(r, at) THEN @ + 1 ELSE @]

ClaimEvent(r, at) ==
  IF Reconciling(r) THEN "reconciliation_claimed"
  ELSE IF Recovering(r, at) THEN "claim_recovered" ELSE "claimed"

(* complete and settleFencedCompletion                                     *)
ClaimActive(r, c, at) ==
  /\ r.status = "claimed"
  /\ r.owner = c.owner
  /\ r.gen = c.gen
  /\ r.lease > at

Completed(r, digest) ==
  [r EXCEPT !.status = "completed", !.standing = "healthy", !.circuit = ClosedCircuit,
            !.digest = digest, !.owner = None, !.lease = Never, !.reason = None]

(* fail                                                                    *)
DecisionFits(r, d, at) ==
  /\ ValidDecision(d)
  /\ d.remaining = Remaining(RetryBudget, r.attempts)
  /\ d.next # Never => d.next >= at /\ d.next < r.expires

BudgetExhausted(r, d) == d.action \in {"retry", "wait"} /\ r.attempts >= RetryBudget

FailedStatus(r, d) ==
  IF d.action = "fail" \/ BudgetExhausted(r, d) THEN "failed"
  ELSE IF d.action \in {"await_authority", "reconcile"} THEN "blocked" ELSE "queued"

FailedStanding(status, d) ==
  CASE status = "failed" -> "degraded_failed"
    [] status = "blocked" -> "degraded_blocked"
    [] OTHER -> d.standing

(* Broken variant: a null next attempt overwrites the scheduled one. *)
FailedRowNullNext(r, d) ==
  [r EXCEPT !.status = FailedStatus(r, d),
            !.standing = FailedStanding(FailedStatus(r, d), d),
            !.circuit = d.circuit, !.next = d.next,
            !.owner = None, !.lease = Never, !.reason = d.reason]

FailedRow(r, d) ==
  [r EXCEPT !.status = FailedStatus(r, d),
            !.standing = FailedStanding(FailedStatus(r, d), d),
            !.circuit = d.circuit,
            !.next = IF d.next # Never THEN d.next ELSE @,
            !.owner = None, !.lease = Never,
            !.reason = IF BudgetExhausted(r, d) THEN "retry_budget_exhausted" ELSE d.reason]

FailEvent(r, d) ==
  IF FailedStatus(r, d) = "failed" THEN "failed"
  ELSE IF d.action = "reconcile" THEN "reconciliation_required"
  ELSE IF FailedStatus(r, d) = "blocked" THEN "authority_blocked" ELSE "retry_scheduled"

(* The decisions run makes itself, without asking the policy.              *)
OwnDecision(c, action, kind, reason, circuit, standing) ==
  [action |-> action, kind |-> kind, reason |-> reason, next |-> Never,
   remaining |-> Remaining(RetryBudget, c.attempts), circuit |-> circuit,
   standing |-> standing]

ReconciliationDecision(c) ==
  OwnDecision(c, "reconcile", "completed", ReconcileReason, c.circuit, "recovering")

ExpiredDecision(c, at) ==
  OwnDecision(c, "fail", "expired", "operation_expired",
              Opened(c.circuit, at), "degraded_failed")

PolicyUnavailableDecision(c, at) ==
  OwnDecision(c, "fail", "permanent", "permanent_failure",
              Opened(c.circuit, at), "degraded_failed")

(* failThroughPolicy: the context the policy is given, and its fallback.   *)
PolicyContext(c, kind, at) ==
  [kind |-> kind, attempt |-> c.attempts, budget |-> RetryBudget, now |-> at,
   expires |-> c.expires, circuit |-> c.circuit]

PolicyDecision(c, kind, delay, at) ==
  IF kind = "unclassifiable" \/ ClassifyThrows(PolicyContext(c, kind, at))
  THEN PolicyUnavailableDecision(c, at)
  ELSE Classify(PolicyContext(c, kind, at), delay)

----------------------------------------------------------------------------
(***************************************************************************)
(* The steps of a worker's call.  Returning, throwing and crashing all end *)
(* the call; none of them touches the ledger.                              *)
(***************************************************************************)
Goto(w, step) == pc' = [pc EXCEPT ![w] = step]

Return(w) ==
  /\ Goto(w, "idle")
  /\ now' = [now EXCEPT ![w] = 0]
  /\ auth' = [auth EXCEPT ![w] = None]
  /\ seen' = [seen EXCEPT ![w] = Summary(Absent)]
  /\ claim' = [claim EXCEPT ![w] = Absent]
  /\ result' = [result EXCEPT ![w] = Unset]

Write(r, e) == row' = r /\ event' = e

(* run reads the clock once; runAdoptive also reads the row, outside any    *)
(* transaction, to decide between enqueue and reopen.                      *)
Start(w) ==
  /\ pc[w] = "idle"
  /\ row.gen < MaxGeneration
  /\ Goto(w, "enqueue")
  /\ now' = [now EXCEPT ![w] = clock]
  /\ auth' = [auth EXCEPT ![w] = authority]
  /\ seen' = [seen EXCEPT ![w] = IF Adoptive THEN Summary(row) ELSE @]
  /\ UNCHANGED <<clock, authority, ledger, claim, result, ghosts, mishaps>>

(* A live row held under another authority version is reactivated first.   *)
AfterRead(w, r) ==
  /\ seen' = [seen EXCEPT ![w] = Summary(r)]
  /\ Goto(w, IF r.status \in LiveStatuses /\ r.authority # auth[w]
             THEN "authorize" ELSE "claim")

ChoosesReopen(w) ==
  Adoptive /\ seen[w].status = "failed" /\ seen[w].reason \in AutoReopenReasons

(* enqueue (run) or enqueueOrReopenAdoptive (runAdoptive).                 *)
Enqueue(w) ==
  /\ pc[w] = "enqueue"
  /\ \/ /\ ChoosesReopen(w)
        /\ IF CanReopen(row, seen[w].reason)
           THEN Write(Reopened(row, now[w]), "reopened") /\ executions' = 0
           ELSE UNCHANGED <<ledger, executions>>
     \/ /\ ~ChoosesReopen(w)
        /\ IF row.status = "absent"
           THEN Write(Inserted(w), "enqueued") /\ executions' = 0
           ELSE UNCHANGED <<ledger, executions>>
  /\ IF Adoptive
     THEN Goto(w, "get") /\ UNCHANGED seen
     ELSE AfterRead(w, row')
  /\ UNCHANGED <<clock, authority, now, auth, claim, result, produced, uncertain, mishaps>>

(* runAdoptive reads the row again before it compares authorities.         *)
Get(w) ==
  /\ pc[w] = "get"
  /\ AfterRead(w, row)
  /\ UNCHANGED <<clock, authority, ledger, now, auth, claim, result, ghosts, mishaps>>

(* run reactivates only a blocked row; runAdoptive leaves the test to the  *)
(* transaction.  A refused reactivation throws out of the call.            *)
Authorize(w) ==
  /\ pc[w] = "authorize"
  /\ IF /\ Adoptive \/ seen[w].status = "blocked"
        /\ CanReactivate(row, seen[w].authority, now[w])
     THEN /\ Write(Reactivated(row, auth[w], now[w]), "authority_reactivated")
          /\ Goto(w, "claim")
          /\ UNCHANGED <<now, auth, seen, claim, result>>
     ELSE Return(w) /\ UNCHANGED ledger
  /\ UNCHANGED <<clock, authority, ghosts, mishaps>>

(* claim granted.  run reconciles before it executes, runAdoptive does not. *)
ClaimGranted(w) ==
  /\ pc[w] = "claim"
  /\ ~AuthorityMismatch(row, auth[w], now[w])
  /\ ~ExpiredInQueue(row, now[w])
  /\ Claimable(row, now[w])
  /\ Write(Claimed(row, w, now[w]), ClaimEvent(row, now[w]))
  /\ claim' = [claim EXCEPT ![w] = row']
  /\ Goto(w, IF Adoptive THEN "execute" ELSE "reconcile")
  /\ UNCHANGED <<clock, authority, now, auth, seen, result, ghosts, mishaps>>

(* claim throws, settles an expired queued row, or returns null.  The call *)
(* ends, except that runAdoptive executes a completed operation again to   *)
(* fetch the current delivery state; run reconciles it, which changes      *)
(* nothing here.                                                           *)
ClaimRefused(w) ==
  /\ pc[w] = "claim"
  /\ \/ /\ AuthorityMismatch(row, auth[w], now[w])
        /\ Return(w) /\ UNCHANGED ledger
     \/ /\ ~AuthorityMismatch(row, auth[w], now[w])
        /\ ExpiredInQueue(row, now[w])
        /\ Write(ExpiredRow(row, now[w]), "failed")
        /\ Return(w)
     \/ /\ ~AuthorityMismatch(row, auth[w], now[w])
        /\ ~ExpiredInQueue(row, now[w]) /\ ~Claimable(row, now[w])
        /\ IF Adoptive /\ row.status = "completed"
           THEN Goto(w, "replay") /\ UNCHANGED <<now, auth, seen, claim, result>>
           ELSE Return(w)
        /\ UNCHANGED ledger
  /\ UNCHANGED <<clock, authority, ghosts, mishaps>>

(* await operation.reconcile().  It tells the truth about a completed      *)
(* effect; answering "missing" is always possible, as the callers in       *)
(* packages/agent and packages/github do.                                  *)
Reconcile(w) ==
  /\ pc[w] = "reconcile"
  /\ \/ \E reply \in Replies \cap {"missing", "resume"} :
          result' = [result EXCEPT ![w] = Result(reply, None, None)]
     \/ \E d \in produced : /\ "completed" \in Replies
                            /\ result' = [result EXCEPT ![w] = Result("completed", d, None)]
     \/ \E k \in Failures : /\ "error" \in Replies
                            /\ result' = [result EXCEPT ![w] = Result("error", None, k)]
  /\ Goto(w, "reconciled")
  /\ UNCHANGED <<clock, authority, ledger, now, auth, seen, claim, ghosts, mishaps>>

(* Broken variant: the marker of an uncertain effect is not looked at. *)
ReconciliationOnlyExpired(w) == claim[w].expires <= now[w]

ReconciliationOnly(w) ==
  claim[w].reason = ReconcileReason \/ claim[w].expires <= now[w]

(* complete: applied under an active fence, otherwise without effect.      *)
Complete(w, digest) ==
  /\ IF ClaimActive(row, claim[w], clock)
     THEN Write(Completed(row, digest), "completed")
     ELSE UNCHANGED ledger
  /\ UNCHANGED uncertain

(* fail: throws without effect when the fence is lost or the decision does *)
(* not fit the row.                                                        *)
Fail(w, d) ==
  IF ClaimActive(row, claim[w], clock) /\ DecisionFits(row, d, clock)
  THEN /\ Write(FailedRow(row, d), FailEvent(row, d))
       /\ uncertain' = (uncertain \/ d.action = "reconcile")
  ELSE UNCHANGED <<ledger, uncertain>>

FailThroughPolicy(w) ==
  \E delay \in Delays : Fail(w, PolicyDecision(claim[w], result[w].kind, delay, clock))

(* run, from the answer of reconcile to its next await or its end.         *)
SettleReconciliation(w) ==
  /\ pc[w] = "reconciled"
  /\ \/ /\ result[w].tag = "error"
        /\ FailThroughPolicy(w) /\ Return(w)
     \/ /\ result[w].tag = "completed"
        /\ Complete(w, result[w].digest) /\ Return(w)
     \/ /\ result[w].tag \in {"missing", "resume"}
        /\ claim[w].expires <= clock
        /\ Fail(w, ExpiredDecision(claim[w], clock)) /\ Return(w)
     \/ /\ result[w].tag = "missing"
        /\ claim[w].expires > clock /\ ReconciliationOnly(w)
        /\ Fail(w, ReconciliationDecision(claim[w])) /\ Return(w)
     \/ /\ \/ result[w].tag = "resume"
           \/ result[w].tag = "missing" /\ ~ReconciliationOnly(w)
        /\ claim[w].expires > clock
        /\ Goto(w, "execute")
        /\ UNCHANGED <<ledger, uncertain, now, auth, seen, claim, result>>
  /\ UNCHANGED <<clock, authority, produced, executions, mishaps>>

(* await operation.execute().  A timeout, and an error the provider        *)
(* reports with kind completed, may leave the effect applied.              *)
Execute(w) ==
  /\ pc[w] = "execute"
  /\ \/ \E d \in Digests :
          /\ result' = [result EXCEPT ![w] = Result("executed", d, None)]
          /\ produced' = produced \cup {d}
     \/ \E k \in Failures :
          /\ result' = [result EXCEPT ![w] = Result("error", None, k)]
          /\ \/ produced' = produced
             \/ k \in {"timeout", "completed"} /\ \E d \in Digests : produced' = produced \cup {d}
  /\ executions' = IF executions > RetryBudget THEN executions ELSE executions + 1
  /\ Goto(w, "executed")
  /\ UNCHANGED <<clock, authority, ledger, now, auth, seen, claim, uncertain, mishaps>>

(* runAdoptive: a worker whose delivery succeeded after its claim was lost *)
(* settles the row as completed all the same, unless it already is:        *)
(* settleFencedCompletion has no fence.                                    *)
FencedSuccess(w) ==
  /\ Adoptive
  /\ result[w].tag = "executed"
  /\ row.status # "completed"
  /\ ~ClaimActive(row, claim[w], clock)

(* run: a lost fence throws, and failing through the policy throws again.  *)
SettleExecution(w) ==
  /\ pc[w] = "executed"
  /\ \/ /\ FencedSuccess(w)
        /\ Write(Completed(row, result[w].digest), "completed")
        /\ UNCHANGED uncertain
     \/ /\ ~FencedSuccess(w) /\ result[w].tag = "executed"
        /\ Complete(w, result[w].digest)
     \/ /\ ~FencedSuccess(w) /\ result[w].tag = "error"
        /\ FailThroughPolicy(w)
  /\ Return(w)
  /\ UNCHANGED <<clock, authority, produced, executions, mishaps>>

(* runAdoptive executes a completed operation again; the row stays.        *)
Replay(w) ==
  /\ pc[w] = "replay"
  /\ \/ \E d \in Digests : produced' = produced \cup {d}
     \/ Failures # {} /\ UNCHANGED produced
  /\ Return(w)
  /\ UNCHANGED <<clock, authority, ledger, executions, uncertain, mishaps>>

(***************************************************************************)
(* The environment: time, credentials, the operator, crashes.              *)
(***************************************************************************)
Tick ==
  /\ clock < MaxTime
  /\ clock' = clock + 1
  /\ UNCHANGED <<authority, ledger, workers, ghosts, mishaps>>

Mishap == mishaps < MaxMishaps /\ mishaps' = mishaps + 1

ChangeAuthority ==
  /\ Mishap
  /\ \E a \in Authorities \ {authority} : authority' = a
  /\ UNCHANGED <<clock, ledger, workers, ghosts>>

(* The delivery-retry route of apps/api reopens with operator_retry.       *)
OperatorReopen ==
  /\ Adoptive
  /\ CanReopen(row, "operator_retry")
  /\ Write(Reopened(row, clock), "reopened")
  /\ executions' = 0
  /\ UNCHANGED <<clock, authority, workers, produced, uncertain, mishaps>>

Crash(w) ==
  /\ pc[w] # "idle"
  /\ Mishap
  /\ Return(w)
  /\ UNCHANGED <<clock, authority, ledger, ghosts>>

Step(w) ==
  \/ Start(w) \/ Enqueue(w) \/ Get(w) \/ Authorize(w)
  \/ ClaimGranted(w) \/ ClaimRefused(w)
  \/ Reconcile(w) \/ SettleReconciliation(w)
  \/ Execute(w) \/ SettleExecution(w) \/ Replay(w)

Next ==
  \/ \E w \in Workers : Step(w) \/ Crash(w)
  \/ Tick \/ ChangeAuthority \/ OperatorReopen

Spec == Init /\ [][Next]_vars

(***************************************************************************)
(* Fairness: the clock advances, and callers keep calling run and let each *)
(* call proceed (a delivery stays pending and its job is run again until   *)
(* it settles).  Credentials, the operator and crashes owe nothing.        *)
(***************************************************************************)
Fairness == WF_vars(Tick) /\ \A w \in Workers : WF_vars(Step(w))

FairSpec == Spec /\ Fairness

----------------------------------------------------------------------------
(* Every variable has its type.                                            *)
TypeOK ==
  /\ clock \in Nat
  /\ authority \in Authorities
  /\ row \in Rows
  /\ event \in Events
  /\ pc \in [Workers -> Steps]
  /\ now \in [Workers -> Nat]
  /\ auth \in [Workers -> Authorities \cup {None}]
  /\ seen \in [Workers -> Summaries]
  /\ claim \in [Workers -> Rows]
  /\ result \in [Workers -> Results]
  /\ produced \subseteq Digests
  /\ executions \in Nat
  /\ uncertain \in BOOLEAN
  /\ mishaps \in Nat

Holding(w) == pc[w] \in {"reconcile", "reconciled", "execute", "executed"}

(* The fence of complete and fail: however leases lapse, workers stall and *)
(* crash, at most one call holds a claim those transactions would accept,  *)
(* even when both calls pass the same workerId.                            *)
OneActiveClaim ==
  \A v, w \in Workers :
    /\ Holding(v) /\ ClaimActive(row, claim[v], clock)
    /\ Holding(w) /\ ClaimActive(row, claim[w], clock)
    => v = w

(* A worker decides from the copy of the row claim returned, awaits later. *)
(* As long as the row is still under that claim the copy is the row: no    *)
(* other transaction (reopen, reactivateAuthority, enqueue, another claim) *)
(* changes a claimed row without ending the claim.                         *)
ClaimSnapshotCurrent ==
  \A w \in Workers :
    Holding(w) /\ row.status = "claimed" /\ row.gen = claim[w].gen => row = claim[w]

(* The policy in packages/ops and the validator in packages/db agree:      *)
(* whatever failure a call under an active claim meets, the policy does    *)
(* not throw and fail accepts its decision, and accepts the two decisions  *)
(* run makes itself, so that the lease is released instead of left to      *)
(* lapse.                                                                  *)
DecisionAccepted ==
  \A w \in Workers : Holding(w) /\ ClaimActive(row, claim[w], clock) =>
    /\ \A k \in Failures \cap FailureKinds : ~ClassifyThrows(PolicyContext(claim[w], k, clock))
    /\ \A k \in Failures, delay \in Delays :
         DecisionFits(row, PolicyDecision(claim[w], k, delay, clock), clock)
    /\ DecisionFits(row, ExpiredDecision(claim[w], clock), clock)
    /\ DecisionFits(row, ReconciliationDecision(claim[w]), clock)

(* A claim is only ever worked under the authority version its call        *)
(* passed, also when the credential changed between the call's steps.      *)
ClaimUnderOwnAuthority ==
  \A w \in Workers : Holding(w) => claim[w].authority = auth[w]

(* The ledger never records a completion the provider did not produce,     *)
(* whichever of the three paths to completed is taken.                     *)
CompletedHasEffect == row.status = "completed" => row.digest \in produced

(* retryBudget is documented as the maximum number of external attempts.   *)
ExecutionsWithinBudget == executions <= RetryBudget

(* A permanent failure is never reopened, by a later run or by an operator.*)
(* Only a fenced worker whose delivery succeeded may still complete it.    *)
PermanentFailureStands ==
  [][row.status = "failed" /\ row.reason = "permanent_failure" =>
       row' = row \/ (Adoptive /\ row'.status = "completed")]_vars

(* Once an effect is recorded as possibly applied, the worker that holds   *)
(* the claim calls the provider again only if reconcile said to resume.    *)
UncertainEffectNotRepeated ==
  [][\A w \in Workers :
       /\ pc[w] = "reconciled" /\ pc'[w] = "execute"
       /\ uncertain /\ ClaimActive(row, claim[w], clock)
       => result[w].tag = "resume"]_vars

(***************************************************************************)
(* The ledger row as a fenced lease.                                       *)
(***************************************************************************)
Phase ==
  CASE row.status = "completed" -> "done"
    [] row.status = "claimed" -> "held"
    [] OTHER -> "open"

Leased == INSTANCE FencedLease WITH
            Unfenced <- Adoptive, phase <- Phase, number <- row.gen, lease <- row.lease

(* The queue implements a fenced lease: whatever sequence of enqueue,      *)
(* reactivateAuthority, reopen, claim, complete, fail and fenced           *)
(* settlement the calls make, a live lease is never taken over though      *)
(* claim compares it with the earlier instant its call started at, every   *)
(* grant has a new generation, a late worker neither fails nor requeues    *)
(* what it no longer holds, and a completed operation is final.            *)
ImplementsLease == Leased!LeaseSpec

(* A claim whose worker died is not stranded: within the modelled time,    *)
(* once its lease has lapsed (and, with no attempt left, its window has    *)
(* closed) some later call reclaims or settles it - as long as the calls   *)
(* come under the version the row was claimed under.  Under any other the  *)
(* row stays claimed whatever is called: claim refuses the mismatch, and   *)
(* reactivateAuthority, which run asks for a blocked row only, takes no    *)
(* claimed one.                                                            *)
Stranded == row.status = "claimed" /\ row.authority # authority

LapsedLeaseIsReclaimed ==
  \A g \in 1..(MaxGeneration - 1) :
    (/\ row.status = "claimed" /\ row.gen = g
     /\ row.lease <= MaxTime
     /\ row.attempts < RetryBudget \/ row.expires <= MaxTime)
      ~> (row.status # "claimed" \/ row.gen # g \/ Stranded)
=============================================================================
