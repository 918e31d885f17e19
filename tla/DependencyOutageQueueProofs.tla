-------------------- MODULE DependencyOutageQueueProofs --------------------
(***************************************************************************)
(* Theorems about DependencyOutageQueue, for every number of workers and   *)
(* every value of the constants.                                           *)
(***************************************************************************)
EXTENDS DependencyOutageQueue, FiniteSets, FiniteSetTheorems, TLAPS

----------------------------------------------------------------------------
(* The policy's decisions carry a circuit and a next attempt of the right  *)
(* type, whatever the failure kind is.                                     *)
LEMMA ClassifyType ==
  ASSUME NEW in, in.circuit \in Circuits, in.now \in Nat,
         NEW delay \in Delays
  PROVE  /\ Classify(in, delay).circuit \in Circuits
         /\ Classify(in, delay).next \in Nat \cup {Never}
<1>1. /\ Opened(in.circuit, in.now) \in Circuits
      /\ [in.circuit EXCEPT !.state = "half_open"] \in Circuits
      /\ [state |-> "closed", openedAt |-> Never, failures |-> in.circuit.failures + 1] \in Circuits
  BY DEF Opened, Circuits, CircuitStates
<1>2. /\ in.now + Cooldown \in Nat
      /\ in.now + delay \in Nat
      /\ in.circuit.openedAt + Cooldown \in Nat
  BY CooldownAssumption, DelaysAssumption DEF Circuits, Never
<1> QED
  BY <1>1, <1>2
  DEF Classify, WhileOpen, Trip, Backoff, Expired, Decide

LEMMA PolicyDecisionType ==
  ASSUME NEW c \in Rows, NEW kind, NEW delay \in Delays, NEW at \in Nat
  PROVE  /\ PolicyDecision(c, kind, delay, at).circuit \in Circuits
         /\ PolicyDecision(c, kind, delay, at).next \in Nat \cup {Never}
<1>1. c.circuit \in Circuits
  BY DEF Rows
<1>2. Opened(c.circuit, at) \in Circuits
  BY <1>1 DEF Opened, Circuits, CircuitStates
<1>3. /\ PolicyContext(c, kind, at).circuit \in Circuits
      /\ PolicyContext(c, kind, at).now \in Nat
  BY <1>1 DEF PolicyContext
<1> QED
  BY <1>1, <1>2, <1>3, ClassifyType
  DEF PolicyDecision, PolicyUnavailableDecision, OwnDecision

(* What fail writes is a row.                                              *)
LEMMA FailedRowType ==
  ASSUME NEW r \in Rows, NEW d, NEW at \in Nat,
         d.circuit \in Circuits, d.next \in Nat \cup {Never}, DecisionFits(r, d, at)
  PROVE  FailedRow(r, d) \in Rows
<1>1. d.action \in Actions /\ d.reason \in AllowedReasons(d.action)
      /\ d.standing \in AllowedStandings(d.action)
  BY DEF DecisionFits, ValidDecision
<1>2. d.reason \in Reasons /\ d.standing \in Standings
  BY <1>1 DEF Actions, AllowedReasons, AllowedStandings, Reasons, Standings,
              RetryReasons, WaitReasons, FailReasons
<1>3. FailedStatus(r, d) \in Statuses
  BY DEF FailedStatus, Statuses
<1>4. FailedStanding(FailedStatus(r, d), d) \in Standings
  BY <1>2 DEF FailedStanding, Standings
<1>5. (IF d.next # Never THEN d.next ELSE r.next) \in Nat
  BY DEF Rows, Never
<1>6. (IF BudgetExhausted(r, d) THEN "retry_budget_exhausted" ELSE d.reason) \in Reasons
  BY <1>2 DEF Reasons, FailReasons
<1> QED
  BY <1>3, <1>4, <1>5, <1>6 DEF FailedRow, Rows, Times

(* Every other transaction writes a row too.                               *)
LEMMA AbsentType == Absent \in Rows
BY DEF Absent, Rows, Statuses, Standings, ClosedCircuit, Circuits, CircuitStates,
       Times, Never

LEMMA ReopenedType ==
  ASSUME NEW r \in Rows, NEW at \in Nat
  PROVE  Reopened(r, at) \in Rows
<1>1. [r.circuit EXCEPT !.state = "half_open", !.openedAt = Never] \in Circuits
  BY DEF Rows, Circuits, CircuitStates
<1>2. at + Window \in Nat
  BY TimesAssumption
<1> QED
  BY <1>1, <1>2 DEF Reopened, Rows, Statuses, Standings, Times

LEMMA ReactivatedType ==
  ASSUME NEW r \in Rows, NEW a \in Authorities \cup {None}, NEW at \in Nat
  PROVE  Reactivated(r, a, at) \in Rows
BY DEF Reactivated, Rows, Statuses, Standings, Circuits, CircuitStates

LEMMA ExpiredRowType ==
  ASSUME NEW r \in Rows, NEW at \in Nat
  PROVE  ExpiredRow(r, at) \in Rows
<1>1. Opened(r.circuit, at) \in Circuits
  BY DEF Opened, Rows, Circuits, CircuitStates
<1> QED
  BY <1>1 DEF ExpiredRow, Rows, Statuses, Standings, Times, Reasons, FailReasons

LEMMA ClaimedType ==
  ASSUME NEW r \in Rows, NEW w \in Workers, NEW at \in Nat
  PROVE  Claimed(r, w, at) \in Rows
<1>1. OwnerOf[w] \in Owners
  BY OwnersAssumption
<1>2. at + Lease \in Times
  BY TimesAssumption DEF Times
<1>3. (IF ConsumesAttempt(r, at) /\ r.circuit.state = "open"
       THEN [r.circuit EXCEPT !.state = "half_open"] ELSE r.circuit) \in Circuits
  BY DEF Rows, Circuits, CircuitStates
<1>4. (IF ConsumesAttempt(r, at) THEN r.attempts + 1 ELSE r.attempts) \in Nat
  BY DEF Rows
<1>5. r.gen + 1 \in Nat
  BY DEF Rows
<1> QED
  BY <1>1, <1>2, <1>3, <1>4, <1>5 DEF Claimed, Rows, Statuses, Standings

LEMMA CompletedType ==
  ASSUME NEW r \in Rows, NEW digest \in Digests \cup {None}
  PROVE  Completed(r, digest) \in Rows
BY DEF Completed, Rows, Statuses, Standings, ClosedCircuit, Circuits, CircuitStates,
       Times, Never

LEMMA SummaryType ==
  ASSUME NEW r \in Rows
  PROVE  Summary(r) \in Summaries
BY DEF Summary, Summaries, Rows

----------------------------------------------------------------------------
(* Ending a call, and the two transactions that end a claim, keep the      *)
(* types.                                                                  *)
WorkersType ==
  /\ pc \in [Workers -> Steps]
  /\ now \in [Workers -> Nat]
  /\ auth \in [Workers -> Authorities \cup {None}]
  /\ seen \in [Workers -> Summaries]
  /\ claim \in [Workers -> Rows]
  /\ result \in [Workers -> Results]

LedgerType == row \in Rows /\ event \in Events

LEMMA ReturnType ==
  ASSUME NEW w \in Workers, WorkersType, Return(w)
  PROVE  WorkersType'
<1>1. Summary(Absent) \in Summaries /\ Absent \in Rows
  BY AbsentType, SummaryType
<1>2. Unset \in Results
  BY DEF Unset, Result, Results
<1> QED
  BY <1>1, <1>2 DEF WorkersType, Return, Goto, Steps

LEMMA FailType ==
  ASSUME NEW w, NEW d, LedgerType, clock \in Nat, uncertain \in BOOLEAN,
         d.circuit \in Circuits, d.next \in Nat \cup {Never}, Fail(w, d)
  PROVE  LedgerType' /\ uncertain' \in BOOLEAN
<1>1. CASE ClaimActive(row, claim[w], clock) /\ DecisionFits(row, d, clock)
  <2>1. row' \in Rows
    BY <1>1, FailedRowType DEF Fail, Write, LedgerType
  <2>2. event' \in Events
    BY <1>1 DEF Fail, Write, FailEvent, Events
  <2>3. uncertain' \in BOOLEAN
    BY <1>1 DEF Fail
  <2> QED
    BY <2>1, <2>2, <2>3 DEF LedgerType
<1>2. CASE ~(ClaimActive(row, claim[w], clock) /\ DecisionFits(row, d, clock))
  BY <1>2 DEF Fail, ledger, LedgerType
<1> QED
  BY <1>1, <1>2

LEMMA FailThroughPolicyType ==
  ASSUME NEW w \in Workers, LedgerType, WorkersType, clock \in Nat, uncertain \in BOOLEAN,
         FailThroughPolicy(w)
  PROVE  LedgerType' /\ uncertain' \in BOOLEAN
<1>1. PICK delay \in Delays : Fail(w, PolicyDecision(claim[w], result[w].kind, delay, clock))
  BY DEF FailThroughPolicy
<1>2. claim[w] \in Rows
  BY DEF WorkersType
<1> QED
  BY <1>1, <1>2, PolicyDecisionType, FailType

LEMMA CompleteType ==
  ASSUME NEW w, NEW digest \in Digests \cup {None}, LedgerType, uncertain \in BOOLEAN,
         Complete(w, digest)
  PROVE  LedgerType' /\ uncertain' \in BOOLEAN
BY CompletedType DEF Complete, Write, ledger, LedgerType, Events

GhostsType ==
  produced \subseteq Digests /\ executions \in Nat /\ uncertain \in BOOLEAN

LEMMA StepType ==
  ASSUME NEW w \in Workers, TypeOK, Step(w)
  PROVE  TypeOK'
<1>a. /\ clock \in Nat /\ authority \in Authorities /\ mishaps \in Nat
      /\ LedgerType /\ WorkersType /\ GhostsType
  BY DEF TypeOK, LedgerType, WorkersType, GhostsType
<1> SUFFICES /\ clock' \in Nat /\ authority' \in Authorities /\ mishaps' \in Nat
             /\ LedgerType' /\ WorkersType' /\ GhostsType'
  BY DEF TypeOK, LedgerType, WorkersType, GhostsType
<1> USE <1>a DEF ledger, ghosts
<1>1. CASE Start(w)
  <2>1. Summary(row) \in Summaries
    BY SummaryType DEF LedgerType
  <2>2. WorkersType'
    BY <1>1, <2>1 DEF Start, Goto, WorkersType, Steps
  <2> QED
    BY <1>1, <2>2 DEF Start, LedgerType, GhostsType
<1>2. CASE Enqueue(w)
  <2>1. Inserted(w) \in Rows
    <3>1. /\ now[w] \in Nat /\ now[w] + Window \in Nat
          /\ auth[w] \in Authorities \cup {None}
      BY TimesAssumption DEF WorkersType
    <3> QED
      BY <3>1, AbsentType DEF Inserted, Rows, Statuses, Standings
  <2>2. Reopened(row, now[w]) \in Rows
    BY ReopenedType DEF LedgerType, WorkersType
  <2>3. LedgerType'
    BY <1>2, <2>1, <2>2 DEF Enqueue, Write, LedgerType, Events
  <2>4. Summary(row)' \in Summaries
    BY <2>3, SummaryType DEF LedgerType
  <2>5. WorkersType'
    BY <1>2, <2>4 DEF Enqueue, AfterRead, Goto, WorkersType, Steps
  <2>6. GhostsType'
    BY <1>2 DEF Enqueue, GhostsType
  <2> QED
    BY <1>2, <2>3, <2>5, <2>6 DEF Enqueue
<1>3. CASE Get(w)
  <2>1. Summary(row) \in Summaries
    BY SummaryType DEF LedgerType
  <2>2. WorkersType'
    BY <1>3, <2>1 DEF Get, AfterRead, Goto, WorkersType, Steps
  <2> QED
    BY <1>3, <2>2 DEF Get, LedgerType, GhostsType
<1>4. CASE Authorize(w)
  <2>1. Reactivated(row, auth[w], now[w]) \in Rows
    BY ReactivatedType DEF LedgerType, WorkersType
  <2>2. LedgerType'
    BY <1>4, <2>1 DEF Authorize, Write, LedgerType, Events
  <2>3. WorkersType'
    BY <1>4, ReturnType DEF Authorize, Goto, WorkersType, Steps
  <2> QED
    BY <1>4, <2>2, <2>3 DEF Authorize, GhostsType
<1>5. CASE ClaimGranted(w)
  <2>1. Claimed(row, w, now[w]) \in Rows
    BY ClaimedType DEF LedgerType, WorkersType
  <2>2. LedgerType'
    BY <1>5, <2>1 DEF ClaimGranted, Write, ClaimEvent, LedgerType, Events
  <2>3. WorkersType'
    BY <1>5, <2>2 DEF ClaimGranted, Goto, LedgerType, WorkersType, Steps
  <2> QED
    BY <1>5, <2>2, <2>3 DEF ClaimGranted, GhostsType
<1>6. CASE ClaimRefused(w)
  <2>1. ExpiredRow(row, now[w]) \in Rows
    BY ExpiredRowType DEF LedgerType, WorkersType
  <2>2. LedgerType'
    BY <1>6, <2>1 DEF ClaimRefused, Write, LedgerType, Events
  <2>3. WorkersType'
    BY <1>6, ReturnType DEF ClaimRefused, Goto, WorkersType, Steps
  <2> QED
    BY <1>6, <2>2, <2>3 DEF ClaimRefused, GhostsType
<1>7. CASE Reconcile(w)
  <2>1. result'[w] \in Results /\ \A v \in Workers \ {w} : result'[v] = result[v]
    BY <1>7 DEF Reconcile, Result, Results, WorkersType, GhostsType
  <2>2. WorkersType'
    BY <1>7, <2>1 DEF Reconcile, Goto, WorkersType, Steps
  <2> QED
    BY <1>7, <2>2 DEF Reconcile, LedgerType, GhostsType
<1>8. CASE SettleReconciliation(w)
  <2>1. claim[w] \in Rows /\ result[w].digest \in Digests \cup {None}
    BY DEF WorkersType, Results
  <2>2. LedgerType' /\ uncertain' \in BOOLEAN
    <3>1. CASE FailThroughPolicy(w)
      BY <3>1, FailThroughPolicyType DEF GhostsType
    <3>2. CASE Complete(w, result[w].digest)
      BY <2>1, <3>2, CompleteType DEF GhostsType
    <3>3. CASE Fail(w, ExpiredDecision(claim[w], clock))
      <4>1. Opened(claim[w].circuit, clock) \in Circuits
        BY <2>1 DEF Opened, Rows, Circuits, CircuitStates
      <4> QED
        BY <3>3, <4>1, FailType DEF ExpiredDecision, OwnDecision, GhostsType
    <3>4. CASE Fail(w, ReconciliationDecision(claim[w]))
      BY <2>1, <3>4, FailType DEF ReconciliationDecision, OwnDecision, Rows, GhostsType
    <3>5. CASE UNCHANGED <<ledger, uncertain>>
      BY <3>5 DEF LedgerType, GhostsType
    <3> QED
      BY <1>8, <3>1, <3>2, <3>3, <3>4, <3>5 DEF SettleReconciliation
  <2>3. WorkersType'
    BY <1>8, ReturnType DEF SettleReconciliation, Goto, WorkersType, Steps
  <2> QED
    BY <1>8, <2>2, <2>3 DEF SettleReconciliation, GhostsType
<1>9. CASE Execute(w)
  <2>1. result'[w] \in Results /\ \A v \in Workers \ {w} : result'[v] = result[v]
    BY <1>9 DEF Execute, Result, Results, WorkersType
  <2>2. WorkersType'
    BY <1>9, <2>1 DEF Execute, Goto, WorkersType, Steps
  <2>3. GhostsType'
    BY <1>9 DEF Execute, GhostsType
  <2> QED
    BY <1>9, <2>2, <2>3 DEF Execute, LedgerType
<1>10. CASE SettleExecution(w)
  <2>1. result[w].digest \in Digests \cup {None}
    BY DEF WorkersType, Results
  <2>2. LedgerType' /\ uncertain' \in BOOLEAN
    <3>1. CASE FailThroughPolicy(w)
      BY <3>1, FailThroughPolicyType DEF GhostsType
    <3>2. CASE Complete(w, result[w].digest)
      BY <2>1, <3>2, CompleteType DEF GhostsType
    <3>3. CASE Write(Completed(row, result[w].digest), "completed") /\ UNCHANGED uncertain
      BY <2>1, <3>3, CompletedType DEF Write, LedgerType, Events, GhostsType
    <3> QED
      BY <1>10, <3>1, <3>2, <3>3 DEF SettleExecution
  <2>3. WorkersType'
    BY <1>10, ReturnType DEF SettleExecution
  <2> QED
    BY <1>10, <2>2, <2>3 DEF SettleExecution, GhostsType
<1>11. CASE Replay(w)
  <2>1. WorkersType'
    BY <1>11, ReturnType DEF Replay
  <2> QED
    BY <1>11, <2>1 DEF Replay, LedgerType, GhostsType
<1> QED
  BY <1>1, <1>2, <1>3, <1>4, <1>5, <1>6, <1>7, <1>8, <1>9, <1>10, <1>11 DEF Step

(* TypeOK is inductive as it stands: every column keeps its type, in       *)
(* particular no transaction writes a null next attempt or expiry.         *)
THEOREM Typing == Spec => []TypeOK
<1>1. Init => TypeOK
  <2> SUFFICES ASSUME Init PROVE TypeOK
    OBVIOUS
  <2>1. Absent \in Rows /\ Summary(Absent) \in Summaries
    BY AbsentType, SummaryType
  <2>2. Unset \in Results
    BY DEF Unset, Result, Results
  <2> QED
    BY <2>1, <2>2 DEF Init, TypeOK, Events, Steps
<1>2. TypeOK /\ [Next]_vars => TypeOK'
  <2> SUFFICES ASSUME TypeOK, [Next]_vars PROVE TypeOK'
    OBVIOUS
  <2>a. /\ clock \in Nat /\ authority \in Authorities /\ mishaps \in Nat
        /\ LedgerType /\ WorkersType /\ GhostsType
    BY DEF TypeOK, LedgerType, WorkersType, GhostsType
  <2>1. ASSUME NEW w \in Workers, Step(w) PROVE TypeOK'
    BY <2>1, StepType
  <2>2. ASSUME NEW w \in Workers, Crash(w) PROVE TypeOK'
    <3>1. WorkersType'
      BY <2>a, <2>2, ReturnType DEF Crash, Mishap
    <3> QED
      BY <2>a, <2>2, <3>1
      DEF Crash, Mishap, ledger, ghosts, TypeOK, LedgerType, WorkersType, GhostsType
  <2>3. CASE Tick
    BY <2>3 DEF Tick, TypeOK, ledger, workers, ghosts
  <2>4. CASE ChangeAuthority
    BY <2>4 DEF ChangeAuthority, Mishap, TypeOK, ledger, workers, ghosts
  <2>5. CASE OperatorReopen
    <3>1. row' \in Rows
      BY <2>a, <2>5, ReopenedType DEF OperatorReopen, Write, LedgerType
    <3> QED
      BY <2>5, <3>1 DEF OperatorReopen, Write, TypeOK, Events, workers
  <2>6. CASE UNCHANGED vars
    BY <2>6 DEF vars, TypeOK, ledger, workers, ghosts
  <2> QED
    BY <2>1, <2>2, <2>3, <2>4, <2>5, <2>6 DEF Next
<1> QED
  BY <1>1, <1>2, PTL DEF Spec

----------------------------------------------------------------------------
(***************************************************************************)
(* The inductive invariant.  Generations are handed out in order and never *)
(* twice, so two calls that hold claims hold different ones; a row under a *)
(* claim is the copy its holder has; a row that was ever claimed since its *)
(* window opened has consumed an attempt; an open circuit says since when; *)
(* only a claimed row carries a lease.                                     *)
(***************************************************************************)
Fences ==
  /\ \A w \in Workers : Holding(w) => claim[w].gen <= row.gen
  /\ \A v, w \in Workers : Holding(v) /\ Holding(w) /\ v # w => claim[v].gen # claim[w].gen
  /\ ClaimSnapshotCurrent

RowSound ==
  /\ CircuitValid(row.circuit)
  /\ row.status \in {"claimed", "blocked"} => row.attempts >= 1
  /\ row.status = "absent" => row.gen = 0
  /\ row.status # "claimed" => row.lease = Never

IInv == TypeOK /\ Fences /\ RowSound

(* What every step but a granted claim does to the row and to the holders. *)
ClaimEnded == row'.status # "claimed" /\ row'.gen = row.gen

Untouched == row' = row \/ ClaimEnded

NoNewHolder ==
  \A w \in Workers : Holding(w)' => Holding(w) /\ claim'[w] = claim[w]

LEMMA FencesKept ==
  ASSUME Fences, Untouched, NoNewHolder
  PROVE  Fences'
BY DEF Fences, Untouched, ClaimEnded, NoNewHolder, ClaimSnapshotCurrent

LEMMA ReturnHolders ==
  ASSUME NEW w \in Workers, WorkersType, Return(w)
  PROVE  NoNewHolder
BY DEF Return, Goto, Holding, NoNewHolder, WorkersType

LEMMA FailEffect ==
  ASSUME NEW w, NEW d, row \in Rows, RowSound, Fail(w, d)
  PROVE  Untouched /\ RowSound'
<1>1. CASE ClaimActive(row, claim[w], clock) /\ DecisionFits(row, d, clock)
  <2>1. row' = FailedRow(row, d)
    BY <1>1 DEF Fail, Write
  <2>2. row'.status \in {"failed", "blocked", "queued"} /\ row'.gen = row.gen
        /\ row'.attempts = row.attempts /\ row'.circuit = d.circuit
        /\ row'.lease = Never
    BY <2>1 DEF FailedRow, FailedStatus, Rows
  <2>3. CircuitValid(d.circuit) /\ row.status = "claimed"
    BY <1>1 DEF DecisionFits, ValidDecision, ClaimActive
  <2> QED
    BY <2>2, <2>3 DEF Untouched, ClaimEnded, RowSound
<1>2. CASE ~(ClaimActive(row, claim[w], clock) /\ DecisionFits(row, d, clock))
  BY <1>2 DEF Fail, ledger, Untouched, RowSound
<1> QED
  BY <1>1, <1>2

LEMMA CompletedEffect ==
  ASSUME NEW digest, row \in Rows, row' = Completed(row, digest)
  PROVE  ClaimEnded /\ RowSound'
BY DEF Completed, ClosedCircuit, ClaimEnded, RowSound, CircuitValid, Rows

LEMMA CompleteEffect ==
  ASSUME NEW w, NEW digest, row \in Rows, RowSound, Complete(w, digest)
  PROVE  Untouched /\ RowSound'
<1>1. CASE row' = row
  BY <1>1 DEF Untouched, RowSound
<1>2. CASE row' = Completed(row, digest)
  BY <1>2, CompletedEffect DEF Untouched
<1> QED
  BY <1>1, <1>2 DEF Complete, Write, ledger

LEMMA ReopenedEffect ==
  ASSUME NEW at, row \in Rows, row' = Reopened(row, at)
  PROVE  ClaimEnded /\ RowSound'
BY DEF Reopened, ClaimEnded, RowSound, CircuitValid, Rows, Circuits

(* A granted claim takes a generation no other call holds.                 *)
LEMMA GrantEffect ==
  ASSUME NEW w \in Workers, IInv, ClaimGranted(w)
  PROVE  Fences' /\ RowSound'
<1>1. row \in Rows /\ row.gen \in Nat /\ row.attempts \in Nat
      /\ claim \in [Workers -> Rows] /\ pc \in [Workers -> Steps]
  BY DEF IInv, TypeOK, Rows
<1>2. row' = Claimed(row, w, now[w]) /\ claim' = [claim EXCEPT ![w] = row']
  BY DEF ClaimGranted, Write
<1>3. row'.gen = row.gen + 1 /\ row'.status = "claimed"
  BY <1>1, <1>2 DEF Claimed, Rows
<1>4. \A v \in Workers \ {w} : (Holding(v)' <=> Holding(v)) /\ claim'[v] = claim[v]
  BY <1>1, <1>2 DEF ClaimGranted, Goto, Holding
<1>5. claim'[w] = row'
  BY <1>1, <1>2
<1>6. \A v \in Workers : claim[v].gen \in Nat
  BY <1>1 DEF Rows
<1>7. Fences'
  BY <1>1, <1>3, <1>4, <1>5, <1>6 DEF IInv, Fences, ClaimSnapshotCurrent
<1>8. row'.attempts >= 1
  <2>1. CASE ConsumesAttempt(row, now[w])
    BY <1>1, <1>2, <2>1 DEF Claimed, Rows
  <2>2. CASE ~ConsumesAttempt(row, now[w])
    <3>1. row'.attempts = row.attempts
      BY <1>1, <1>2, <2>2 DEF Claimed, Rows
    <3>2. row.status \in {"claimed", "blocked"}
      BY <2>2 DEF ConsumesAttempt, Reconciling, ExpiredRecovery, Recovering
    <3> QED
      BY <3>1, <3>2 DEF IInv, RowSound
  <2> QED
    BY <2>1, <2>2
<1>9. CircuitValid(row'.circuit)
  BY <1>1, <1>2 DEF Claimed, Rows, Circuits, CircuitValid, IInv, RowSound
<1> QED
  BY <1>3, <1>7, <1>8, <1>9 DEF RowSound

LEMMA StepEffect ==
  ASSUME NEW w \in Workers, IInv, Step(w), ~ClaimGranted(w)
  PROVE  Untouched /\ NoNewHolder /\ RowSound'
<1>a. row \in Rows /\ WorkersType /\ RowSound
  BY DEF IInv, TypeOK, WorkersType
<1> USE <1>a
<1>b. ASSUME row' = row PROVE Untouched /\ RowSound'
  BY <1>b DEF Untouched, RowSound
<1>1. CASE Start(w)
  BY <1>1, <1>b DEF Start, Goto, Holding, NoNewHolder, ledger, WorkersType
<1>2. CASE Enqueue(w)
  <2>1. CASE row' = row
    BY <2>1, <1>b, <1>2 DEF Enqueue, AfterRead, Goto, Holding, NoNewHolder, WorkersType
  <2>2. CASE row' = Reopened(row, now[w])
    BY <2>2, <1>2, ReopenedEffect
    DEF Enqueue, AfterRead, Goto, Holding, NoNewHolder, WorkersType, Untouched
  <2>3. CASE row.status = "absent" /\ row' = Inserted(w)
    <3>1. NoNewHolder
      BY <1>2 DEF Enqueue, AfterRead, Goto, Holding, NoNewHolder, WorkersType
    <3>2. /\ row'.status = "queued" /\ row'.gen = 0 /\ row'.circuit = ClosedCircuit
          /\ row'.lease = Never
      BY <2>3 DEF Inserted, Absent
    <3> QED
      BY <3>1, <3>2, <2>3, <1>a DEF ClosedCircuit, Untouched, ClaimEnded, RowSound, CircuitValid
  <2> QED
    BY <1>2, <2>1, <2>2, <2>3 DEF Enqueue, Write, ledger
<1>3. CASE Get(w)
  BY <1>3, <1>b DEF Get, AfterRead, Goto, Holding, NoNewHolder, ledger, WorkersType
<1>4. CASE Authorize(w)
  <2>1. NoNewHolder
    BY <1>4, ReturnHolders DEF Authorize, Goto, Holding, NoNewHolder, WorkersType
  <2>2. CASE row.status # "claimed" /\ row' = Reactivated(row, auth[w], now[w])
    BY <2>1, <2>2
    DEF Reactivated, Rows, Circuits, Untouched, ClaimEnded, RowSound, CircuitValid
  <2> QED
    BY <1>4, <1>b, <2>1, <2>2 DEF Authorize, CanReactivate, Write, ledger
<1>5. CASE ClaimRefused(w)
  <2>1. NoNewHolder
    BY <1>5, ReturnHolders DEF ClaimRefused, Goto, Holding, NoNewHolder, WorkersType
  <2>2. CASE row' = ExpiredRow(row, now[w])
    <3>1. now[w] # Never
      BY DEF WorkersType, Never
    <3> QED
      BY <2>1, <2>2, <3>1
      DEF ExpiredRow, Opened, Rows, Untouched, ClaimEnded, RowSound, CircuitValid
  <2> QED
    BY <1>5, <1>b, <2>1, <2>2 DEF ClaimRefused, Write, ledger
<1>6. CASE Reconcile(w)
  BY <1>6, <1>b DEF Reconcile, Goto, Holding, NoNewHolder, ledger, WorkersType
<1>7. CASE SettleReconciliation(w)
  <2>1. NoNewHolder
    BY <1>7, ReturnHolders DEF SettleReconciliation, Goto, Holding, NoNewHolder, WorkersType
  <2>2. CASE row' = row
    BY <1>b, <2>1, <2>2
  <2>3. CASE \E d : Fail(w, d)
    BY <2>1, <2>3, FailEffect
  <2>4. CASE Complete(w, result[w].digest)
    BY <2>1, <2>4, CompleteEffect
  <2> QED
    BY <1>7, <2>2, <2>3, <2>4 DEF SettleReconciliation, FailThroughPolicy, ledger
<1>8. CASE Execute(w)
  BY <1>8, <1>b DEF Execute, Goto, Holding, NoNewHolder, ledger, WorkersType
<1>9. CASE SettleExecution(w)
  <2>1. NoNewHolder
    BY <1>9, ReturnHolders DEF SettleExecution
  <2>2. CASE \E d : Fail(w, d)
    BY <2>1, <2>2, FailEffect
  <2>3. CASE Complete(w, result[w].digest)
    BY <2>1, <2>3, CompleteEffect
  <2>4. CASE row' = Completed(row, result[w].digest)
    BY <2>1, <2>4, CompletedEffect DEF Untouched
  <2> QED
    BY <1>9, <2>2, <2>3, <2>4 DEF SettleExecution, FailThroughPolicy, Write
<1>10. CASE Replay(w)
  BY <1>10, <1>b, ReturnHolders DEF Replay, ledger
<1> QED
  BY <1>1, <1>2, <1>3, <1>4, <1>5, <1>6, <1>7, <1>8, <1>9, <1>10 DEF Step

LEMMA Inductive == IInv /\ [Next]_vars => Fences' /\ RowSound'
<1> SUFFICES ASSUME IInv, [Next]_vars PROVE Fences' /\ RowSound'
  OBVIOUS
<1>a. row \in Rows /\ WorkersType /\ Fences /\ RowSound
  BY DEF IInv, TypeOK, WorkersType
<1>b. ASSUME row' = row, NoNewHolder PROVE Fences' /\ RowSound'
  BY <1>a, <1>b, FencesKept DEF Untouched, RowSound
<1>1. ASSUME NEW w \in Workers, Step(w) PROVE Fences' /\ RowSound'
  <2>1. CASE ClaimGranted(w)
    BY <2>1, GrantEffect
  <2>2. CASE ~ClaimGranted(w)
    BY <1>a, <1>1, <2>2, StepEffect, FencesKept
  <2> QED
    BY <2>1, <2>2
<1>2. ASSUME NEW w \in Workers, Crash(w) PROVE Fences' /\ RowSound'
  BY <1>a, <1>b, <1>2, ReturnHolders DEF Crash, ledger
<1>3. CASE Tick \/ ChangeAuthority \/ UNCHANGED vars
  BY <1>b, <1>3
  DEF Tick, ChangeAuthority, vars, ledger, workers, NoNewHolder, Holding
<1>4. CASE OperatorReopen
  <2>1. row' = Reopened(row, clock) /\ NoNewHolder
    BY <1>4 DEF OperatorReopen, Write, workers, NoNewHolder, Holding
  <2> QED
    BY <1>a, <2>1, ReopenedEffect, FencesKept DEF Untouched
<1> QED
  BY <1>1, <1>2, <1>3, <1>4 DEF Next

THEOREM Invariance == Spec => []IInv
<1>1. Init => Fences /\ RowSound
  BY DEF Init, Fences, RowSound, ClaimSnapshotCurrent, Holding, CircuitValid,
         Absent, ClosedCircuit
<1>2. TypeOK /\ Fences /\ RowSound /\ [Next]_vars => Fences' /\ RowSound'
  BY Inductive DEF IInv
<1> QED
  BY <1>1, <1>2, Typing, PTL DEF Spec, IInv

(* Of all the calls that may still be running with a claim, at most one    *)
(* would be let through by complete and fail.                              *)
THEOREM OneActiveClaimTheorem == Spec => []OneActiveClaim
<1>1. IInv => OneActiveClaim
  BY DEF IInv, Fences, OneActiveClaim, ClaimActive
<1> QED
  BY <1>1, Invariance, PTL

(* The copy of the row a holder decides from is the row.                   *)
THEOREM SnapshotTheorem == Spec => []ClaimSnapshotCurrent
<1>1. IInv => ClaimSnapshotCurrent
  BY DEF IInv, Fences
<1> QED
  BY <1>1, Invariance, PTL

----------------------------------------------------------------------------
(***************************************************************************)
(* The policy and the validator agree.                                     *)
(***************************************************************************)
Acceptable(d, in) ==
  /\ ValidDecision(d)
  /\ d.remaining = Remaining(in.budget, in.attempt)
  /\ d.next # Never => d.next >= in.now /\ d.next < in.expires

LEMMA NoNextAccepted ==
  ASSUME NEW in \in FailureInputs, CircuitValid(in.circuit)
  PROVE  /\ in.kind = "completed" =>
              Acceptable(Decide(in, "reconcile", ReconcileReason, Never, in.circuit,
                                "recovering"), in)
         /\ Acceptable(Expired(in), in)
         /\ in.kind \in AuthorityKinds =>
              Acceptable(Decide(in, "await_authority", AuthorityReason, Never,
                                Opened(in.circuit, in.now), "degraded_blocked"), in)
         /\ in.kind \in Transients \cup {"permanent"} =>
              \A reason \in FailReasons :
                Acceptable(Decide(in, "fail", reason, Never,
                                  Opened(in.circuit, in.now), "degraded_failed"), in)
<1>1. in.now # Never
  BY DEF FailureInputs, Never
<1>2. in.circuit.state \in CircuitStates
  BY DEF FailureInputs, Circuits
<1> QED
  BY <1>1, <1>2
  DEF Acceptable, ValidDecision, Decide, Expired, Opened, CircuitValid, Actions,
      AllowedKinds, AllowedReasons, AllowedStandings, AllowedCircuits, FailReasons

LEMMA NextAccepted ==
  ASSUME NEW in \in FailureInputs, NEW delay \in Delays,
         CircuitValid(in.circuit), in.now < in.expires, in.kind \in Transients
  PROVE  /\ in.circuit.state = "open" => Acceptable(WhileOpen(in), in)
         /\ in.circuit.state # "open" => Acceptable(Trip(in), in)
         /\ in.circuit.state # "open" => Acceptable(Backoff(in, delay), in)
<1>1. Acceptable(Expired(in), in)
  BY NoNextAccepted
<1>2. /\ in.now \in Nat /\ in.expires \in Nat /\ Cooldown \in Nat /\ delay \in Nat
      /\ in.circuit.state = "open" => in.circuit.openedAt \in Nat
  BY CooldownAssumption, DelaysAssumption DEF FailureInputs, Circuits, CircuitValid
<1>3. in.circuit.state = "open" => Acceptable(WhileOpen(in), in)
  <2>1. in.circuit \in Circuits
    BY DEF FailureInputs
  <2> QED
    BY <1>1, <1>2, <2>1
    DEF WhileOpen, Acceptable, ValidDecision, Decide, CircuitValid, Actions, Never, Circuits,
        AllowedKinds, AllowedReasons, AllowedStandings, AllowedCircuits,
        RetryReasons, WaitReasons
<1>4. in.circuit.state # "open" => Acceptable(Trip(in), in)
  BY <1>1, <1>2
  DEF Trip, Acceptable, ValidDecision, Decide, Opened, CircuitValid, Actions, Never,
      AllowedKinds, AllowedReasons, AllowedStandings, AllowedCircuits, WaitReasons
<1>5. in.circuit.state # "open" => Acceptable(Backoff(in, delay), in)
  BY <1>1, <1>2
  DEF Backoff, Acceptable, ValidDecision, Decide, CircuitValid, Actions, Never, RetryReason,
      AllowedKinds, AllowedReasons, AllowedStandings, AllowedCircuits, RetryReasons
<1> QED
  BY <1>3, <1>4, <1>5

LEMMA ClassifyAccepted ==
  ASSUME NEW in \in FailureInputs, NEW delay \in Delays, CircuitValid(in.circuit)
  PROVE  Acceptable(Classify(in, delay), in)
<1>1. in.kind \in Transients \cup AuthorityKinds \cup {"permanent", "expired", "completed"}
      /\ in.now \in Nat /\ in.expires \in Nat
  BY DEF FailureInputs, FailureKinds
<1>2. "permanent_failure" \in FailReasons /\ "retry_budget_exhausted" \in FailReasons
  BY DEF FailReasons
<1> QED
  BY <1>1, <1>2, NoNextAccepted, NextAccepted DEF Classify

(* Whatever failure a call under an active claim meets, fail accepts the   *)
(* decision made about it, so the failure is recorded and the lease is     *)
(* given back: for every budget, lease, window, cooldown and delay.        *)
THEOREM DecisionsAcceptedTheorem == Spec => []DecisionAccepted
<1>1. IInv => DecisionAccepted
  <2> SUFFICES ASSUME IInv, NEW w \in Workers, Holding(w), ClaimActive(row, claim[w], clock)
               PROVE
    /\ \A k \in Failures \cap FailureKinds : ~ClassifyThrows(PolicyContext(claim[w], k, clock))
    /\ \A k \in Failures, delay \in Delays :
         DecisionFits(row, PolicyDecision(claim[w], k, delay, clock), clock)
    /\ DecisionFits(row, ExpiredDecision(claim[w], clock), clock)
    /\ DecisionFits(row, ReconciliationDecision(claim[w]), clock)
    BY DEF DecisionAccepted
  <2>1. claim[w] = row /\ row.status = "claimed"
    BY DEF IInv, Fences, ClaimSnapshotCurrent, ClaimActive
  <2>2. row \in Rows /\ clock \in Nat /\ RowSound
    BY DEF IInv, TypeOK
  <2>3. row.attempts >= 1 /\ CircuitValid(row.circuit) /\ row.circuit.state \in CircuitStates
    BY <2>1, <2>2 DEF RowSound, Rows, Circuits
  <2>4. ASSUME NEW k \in FailureKinds
        PROVE  /\ PolicyContext(row, k, clock) \in FailureInputs
               /\ ~ClassifyThrows(PolicyContext(row, k, clock))
    BY <2>2, <2>3, TimesAssumption
    DEF PolicyContext, FailureInputs, ClassifyThrows, Rows
  <2>5. /\ DecisionFits(row, ExpiredDecision(row, clock), clock)
        /\ DecisionFits(row, ReconciliationDecision(row), clock)
        /\ DecisionFits(row, PolicyUnavailableDecision(row, clock), clock)
    <3>1. clock # Never
      BY <2>2 DEF Never
    <3> QED
      BY <2>3, <3>1
      DEF DecisionFits, ExpiredDecision, ReconciliationDecision, PolicyUnavailableDecision,
          OwnDecision, Opened, ValidDecision, CircuitValid, Actions,
          AllowedKinds, AllowedReasons, AllowedStandings, AllowedCircuits, FailReasons
  <2>6. ASSUME NEW k \in Failures, NEW delay \in Delays
        PROVE  DecisionFits(row, PolicyDecision(row, k, delay, clock), clock)
    <3>1. CASE k = "unclassifiable"
      BY <2>5, <3>1 DEF PolicyDecision
    <3>2. CASE k # "unclassifiable"
      <4>1. k \in FailureKinds
        BY <3>2, FailuresAssumption
      <4>2. Acceptable(Classify(PolicyContext(row, k, clock), delay),
                       PolicyContext(row, k, clock))
        BY <2>3, <2>4, <4>1, ClassifyAccepted DEF PolicyContext
      <4>3. PolicyDecision(row, k, delay, clock) = Classify(PolicyContext(row, k, clock), delay)
        BY <2>4, <3>2, <4>1 DEF PolicyDecision
      <4> QED
        BY <4>2, <4>3 DEF Acceptable, DecisionFits, PolicyContext
    <3> QED
      BY <3>1, <3>2
  <2> QED
    BY <2>1, <2>4, <2>5, <2>6
<1> QED
  BY <1>1, Invariance, PTL

----------------------------------------------------------------------------
(***************************************************************************)
(* The row is a fenced lease.  The one fact the invariant above lacks: the *)
(* instant a call works with is never ahead of the clock, so a lease that  *)
(* claim takes for lapsed has lapsed.                                      *)
(***************************************************************************)
NowPast == \A w \in Workers : now[w] <= clock

THEOREM NowPastTheorem == Spec => []NowPast
<1>1. Init => NowPast
  BY DEF Init, NowPast
<1>2. TypeOK /\ NowPast /\ [Next]_vars => NowPast'
  <2> SUFFICES ASSUME TypeOK, NowPast, [Next]_vars PROVE NowPast'
    OBVIOUS
  <2>a. clock \in Nat /\ now \in [Workers -> Nat]
    BY DEF TypeOK
  <2>1. ASSUME NEW w \in Workers, Step(w) \/ Crash(w) PROVE NowPast'
    <3>1. clock' = clock
      BY <2>1 DEF Step, Crash, Start, Enqueue, Get, Authorize, ClaimGranted, ClaimRefused,
                  Reconcile, SettleReconciliation, Execute, SettleExecution, Replay
    <3>2. \/ now' = now
          \/ now' = [now EXCEPT ![w] = clock]
          \/ now' = [now EXCEPT ![w] = 0]
      BY <2>1 DEF Step, Crash, Start, Enqueue, Get, Authorize, ClaimGranted, ClaimRefused,
                  Reconcile, SettleReconciliation, Execute, SettleExecution, Replay, Return
    <3> QED
      BY <2>a, <3>1, <3>2 DEF NowPast
  <2>2. CASE Tick \/ ChangeAuthority \/ OperatorReopen \/ UNCHANGED vars
    BY <2>a, <2>2
    DEF Tick, ChangeAuthority, OperatorReopen, vars, workers, NowPast
  <2> QED
    BY <2>1, <2>2 DEF Next
<1> QED
  BY <1>1, <1>2, Typing, PTL DEF Spec

Quiet == UNCHANGED <<clock, Phase, row.gen, row.lease>>

Allowed == Leased!LeaseNext \/ Quiet

LEMMA FailMoves ==
  ASSUME NEW w, NEW d, row \in Rows, clock' = clock, Fail(w, d)
  PROVE  Allowed
<1>1. CASE ClaimActive(row, claim[w], clock) /\ DecisionFits(row, d, clock)
  <2>1. row' = FailedRow(row, d) /\ row.status = "claimed" /\ row.lease > clock
    BY <1>1 DEF Fail, Write, ClaimActive
  <2>2. row'.status \in {"failed", "blocked", "queued"} /\ row'.gen = row.gen
    BY <2>1 DEF FailedRow, FailedStatus, Rows
  <2> QED
    BY <2>1, <2>2
    DEF Allowed, Phase, Leased!LeaseNext, Leased!GiveBack, Leased!Live
<1>2. CASE ~(ClaimActive(row, claim[w], clock) /\ DecisionFits(row, d, clock))
  BY <1>2 DEF Fail, ledger, Allowed, Quiet, Phase
<1> QED
  BY <1>1, <1>2

LEMMA CompletedMoves ==
  ASSUME NEW digest, row \in Rows, clock' = clock, row' = Completed(row, digest),
         row.status # "completed",
         Adoptive \/ (row.status = "claimed" /\ row.lease > clock)
  PROVE  Allowed
<1>1. row'.status = "completed" /\ row'.gen = row.gen
  BY DEF Completed, Rows
<1> QED
  BY <1>1 DEF Allowed, Phase, Leased!LeaseNext, Leased!Finish, Leased!Live

LEMMA CompleteMoves ==
  ASSUME NEW w, NEW digest, row \in Rows, clock' = clock, Complete(w, digest)
  PROVE  Allowed
<1>1. CASE ClaimActive(row, claim[w], clock)
  BY <1>1, CompletedMoves DEF Complete, Write, ClaimActive
<1>2. CASE ~ClaimActive(row, claim[w], clock)
  BY <1>2 DEF Complete, ledger, Allowed, Quiet, Phase
<1> QED
  BY <1>1, <1>2

LEMMA GrantMoves ==
  ASSUME NEW w \in Workers, IInv, NowPast, ClaimGranted(w)
  PROVE  Leased!Grant
<1>1. row \in Rows /\ clock \in Nat /\ now[w] \in Nat /\ now[w] <= clock
  BY DEF IInv, TypeOK, NowPast
<1>2. row' = Claimed(row, w, now[w]) /\ clock' = clock /\ Claimable(row, now[w])
  BY DEF ClaimGranted, Write
<1>3. row'.status = "claimed" /\ row'.gen = row.gen + 1
  BY <1>1, <1>2 DEF Claimed, Rows
<1>4. row.status \in {"queued", "blocked"} \/ (row.status = "claimed" /\ row.lease <= clock)
  <2>1. row.lease \in Int
    BY <1>1 DEF Rows, Times, Never
  <2> QED
    BY <1>1, <1>2, <2>1
    DEF Claimable, RetryEligible, Reconciling, ExpiredRecovery, Recovering
<1>5. row.lease \in Int
  BY <1>1 DEF Rows, Times, Never
<1> QED
  BY <1>1, <1>2, <1>3, <1>4, <1>5 DEF Phase, Leased!Grant, Leased!Live

LEMMA StepMoves ==
  ASSUME NEW w \in Workers, IInv, NowPast, Step(w) \/ Crash(w)
  PROVE  Allowed
<1>a. row \in Rows /\ RowSound
  BY DEF IInv, TypeOK
<1>b. ASSUME clock' = clock, row' = row PROVE Allowed
  BY <1>b DEF Allowed, Quiet, Phase
<1>c. ASSUME clock' = clock, row'.gen = row.gen, row'.lease = Never,
             row.status \notin {"claimed", "completed"},
             row'.status \notin {"claimed", "completed"}
      PROVE  Allowed
  BY <1>a, <1>c DEF Allowed, Quiet, Phase, RowSound
<1>1. CASE Start(w) \/ Get(w) \/ Reconcile(w) \/ Execute(w) \/ Replay(w) \/ Crash(w)
  BY <1>b, <1>1 DEF Start, Get, Reconcile, Execute, Replay, Crash, ledger
<1>2. CASE Enqueue(w)
  <2>1. CASE row.status = "failed" /\ row' = Reopened(row, now[w])
    BY <1>a, <1>c, <1>2, <2>1 DEF Enqueue, Reopened, Rows
  <2>2. CASE row.status = "absent" /\ row' = Inserted(w)
    BY <1>a, <1>c, <1>2, <2>2 DEF Enqueue, Inserted, Absent, RowSound
  <2> QED
    BY <1>b, <1>2, <2>1, <2>2 DEF Enqueue, Write, CanReopen, ledger
<1>3. CASE Authorize(w)
  <2>1. CASE row.status \in {"blocked", "queued"} /\ row' = Reactivated(row, auth[w], now[w])
    BY <1>a, <1>c, <1>3, <2>1 DEF Authorize, Reactivated, Rows, RowSound
  <2> QED
    BY <1>b, <1>3, <2>1 DEF Authorize, Write, CanReactivate, ledger
<1>4. CASE ClaimGranted(w)
  BY <1>4, GrantMoves DEF Allowed, Leased!LeaseNext
<1>5. CASE ClaimRefused(w)
  <2>1. CASE row.status = "queued" /\ row' = ExpiredRow(row, now[w])
    BY <1>a, <1>c, <1>5, <2>1 DEF ClaimRefused, ExpiredRow, Rows
  <2> QED
    BY <1>b, <1>5, <2>1 DEF ClaimRefused, Write, ExpiredInQueue, ledger
<1>6. CASE SettleReconciliation(w)
  BY <1>a, <1>b, <1>6, FailMoves, CompleteMoves
  DEF SettleReconciliation, FailThroughPolicy, ledger
<1>7. CASE SettleExecution(w)
  <2>1. CASE FencedSuccess(w) /\ Write(Completed(row, result[w].digest), "completed")
    BY <1>a, <1>7, <2>1, CompletedMoves DEF SettleExecution, FencedSuccess, Write
  <2> QED
    BY <1>a, <1>7, <2>1, FailMoves, CompleteMoves DEF SettleExecution, FailThroughPolicy
<1> QED
  BY <1>1, <1>2, <1>3, <1>4, <1>5, <1>6, <1>7 DEF Step

(* The ledger implements the fenced lease: every step of every call is a   *)
(* grant, a give-back or a finish of the lease, or does not touch it.      *)
THEOREM LeaseRefinement == Spec => ImplementsLease
<1>1. Init => Leased!LeaseInit
  BY DEF Init, Absent, Phase, Leased!LeaseInit
<1>2. IInv /\ NowPast /\ [Next]_vars => [Leased!LeaseNext]_(Leased!leaseVars)
  <2> SUFFICES ASSUME IInv, NowPast, [Next]_vars
               PROVE  Leased!LeaseNext \/ UNCHANGED Leased!leaseVars
    OBVIOUS
  <2>1. Quiet => UNCHANGED Leased!leaseVars
    BY DEF Quiet, Leased!leaseVars
  <2>2. ASSUME NEW w \in Workers, Step(w) \/ Crash(w)
        PROVE  Leased!LeaseNext \/ UNCHANGED Leased!leaseVars
    BY <2>1, <2>2, StepMoves DEF Allowed
  <2>3. CASE Tick
    <3>1. clock' > clock /\ UNCHANGED row
      BY <2>3 DEF Tick, ledger, IInv, TypeOK
    <3> QED
      BY <3>1 DEF Leased!LeaseNext, Leased!Advance, Phase
  <2>4. CASE ChangeAuthority \/ UNCHANGED vars
    BY <2>1, <2>4 DEF ChangeAuthority, vars, ledger, Quiet, Phase
  <2>5. CASE OperatorReopen
    <3>1. /\ row.status = "failed" /\ row.lease = Never /\ row \in Rows
          /\ row' = Reopened(row, clock) /\ clock' = clock
      BY <2>5 DEF OperatorReopen, CanReopen, Write, IInv, TypeOK, RowSound
    <3>2. row'.status = "queued" /\ row'.gen = row.gen /\ row'.lease = Never
      BY <3>1 DEF Reopened, Rows
    <3> QED
      BY <2>1, <3>1, <3>2 DEF Quiet, Phase
  <2> QED
    BY <2>2, <2>3, <2>4, <2>5 DEF Next
<1> QED
  BY <1>1, <1>2, Invariance, NowPastTheorem, PTL DEF Spec, ImplementsLease, Leased!LeaseSpec

----------------------------------------------------------------------------
(* A claim is granted under the version its call passes, and neither the   *)
(* claim nor the version of a call changes while it holds the claim.       *)
THEOREM OwnAuthorityTheorem == Spec => []ClaimUnderOwnAuthority
<1>1. Init => ClaimUnderOwnAuthority
  BY DEF Init, ClaimUnderOwnAuthority, Holding
<1>2. TypeOK /\ ClaimUnderOwnAuthority /\ [Next]_vars => ClaimUnderOwnAuthority'
  <2> SUFFICES ASSUME TypeOK, ClaimUnderOwnAuthority, [Next]_vars, NEW v \in Workers, Holding(v)'
               PROVE  claim'[v].authority = auth'[v]
    BY DEF ClaimUnderOwnAuthority
  <2>a. WorkersType /\ row \in Rows
    BY DEF TypeOK, WorkersType
  <2>b. ASSUME claim'[v] = claim[v], auth'[v] = auth[v], Holding(v)
        PROVE  claim'[v].authority = auth'[v]
    BY <2>b DEF ClaimUnderOwnAuthority
  <2>c. ASSUME NEW w \in Workers, Return(w) PROVE claim'[v].authority = auth'[v]
    BY <2>a, <2>b, <2>c DEF Return, Goto, Holding, WorkersType
  <2>1. ASSUME NEW w \in Workers, ClaimGranted(w) PROVE claim'[v].authority = auth'[v]
    <3>1. CASE v = w
      <4>1. row.authority = auth[w]
        BY <2>1 DEF ClaimGranted, AuthorityMismatch, Claimable, RetryEligible, ExpiredRecovery
      <4>2. claim'[w] = Claimed(row, w, now[w]) /\ auth'[w] = auth[w]
        BY <2>a, <2>1 DEF ClaimGranted, Write, WorkersType
      <4> QED
        BY <2>a, <3>1, <4>1, <4>2 DEF Claimed, Rows
    <3>2. CASE v # w
      BY <2>a, <2>b, <2>1, <3>2 DEF ClaimGranted, Goto, Holding, WorkersType
    <3> QED
      BY <3>1, <3>2
  <2>2. ASSUME NEW w \in Workers, Step(w) \/ Crash(w), ~ClaimGranted(w)
        PROVE  claim'[v].authority = auth'[v]
    <3>1. CASE Start(w) \/ Enqueue(w) \/ Get(w) \/ Reconcile(w) \/ Execute(w)
      BY <2>a, <2>b, <3>1 DEF Start, Enqueue, Get, AfterRead, Reconcile, Execute, Goto, Holding, WorkersType
    <3>2. CASE Authorize(w) \/ ClaimRefused(w) \/ SettleReconciliation(w)
      BY <2>a, <2>b, <2>c, <3>2 DEF Authorize, ClaimRefused, SettleReconciliation, Goto, Holding, WorkersType
    <3>3. CASE SettleExecution(w) \/ Replay(w) \/ Crash(w)
      BY <2>c, <3>3 DEF SettleExecution, Replay, Crash
    <3> QED
      BY <2>2, <3>1, <3>2, <3>3 DEF Step
  <2>3. CASE Tick \/ ChangeAuthority \/ OperatorReopen \/ UNCHANGED vars
    BY <2>b, <2>3 DEF Tick, ChangeAuthority, OperatorReopen, workers, vars, Holding
  <2> QED
    BY <2>1, <2>2, <2>3 DEF Next
<1> QED
  BY <1>1, <1>2, Typing, PTL DEF Spec

----------------------------------------------------------------------------
(* What a call is about to record as its completion was produced.          *)
ResultsProduced ==
  \A w \in Workers :
    /\ pc[w] = "reconciled" /\ result[w].tag = "completed" => result[w].digest \in produced
    /\ pc[w] = "executed" /\ result[w].tag = "executed" => result[w].digest \in produced

LEMMA ProducedGrows == [Next]_vars => produced \subseteq produced'
<1>1. ASSUME NEW w \in Workers, Step(w) \/ Crash(w) PROVE produced \subseteq produced'
  BY <1>1 DEF Step, Crash, Start, Enqueue, Get, Authorize, ClaimGranted, ClaimRefused, Reconcile,
              SettleReconciliation, Execute, SettleExecution, Replay, ghosts
<1> QED
  BY <1>1 DEF Next, Tick, ChangeAuthority, OperatorReopen, vars, ghosts

LEMMA ResultsStayProduced ==
  ASSUME TypeOK, ResultsProduced, [Next]_vars
  PROVE  ResultsProduced'
<1> SUFFICES ASSUME NEW v \in Workers,
                    \/ pc'[v] = "reconciled" /\ result'[v].tag = "completed"
                    \/ pc'[v] = "executed" /\ result'[v].tag = "executed"
             PROVE  result'[v].digest \in produced'
  BY DEF ResultsProduced
<1>a. WorkersType
  BY DEF TypeOK, WorkersType
<1>b. ASSUME pc'[v] = pc[v], result'[v] = result[v] PROVE result'[v].digest \in produced'
  BY <1>b, ProducedGrows DEF ResultsProduced
<1>1. ASSUME NEW w \in Workers, Step(w) \/ Crash(w), w # v PROVE result'[v].digest \in produced'
  <2>1. pc'[v] = pc[v] /\ result'[v] = result[v]
    <3>1. CASE Start(w) \/ Enqueue(w) \/ Get(w) \/ ClaimGranted(w) \/ Reconcile(w) \/ Execute(w)
      BY <1>a, <1>1, <3>1 DEF Start, Enqueue, Get, AfterRead, ClaimGranted, Reconcile, Execute, Goto, WorkersType
    <3>2. CASE Authorize(w) \/ ClaimRefused(w) \/ SettleReconciliation(w) \/ SettleExecution(w)
               \/ Replay(w) \/ Crash(w)
      BY <1>a, <1>1, <3>2 DEF Authorize, ClaimRefused, SettleReconciliation, SettleExecution, Replay, Crash,
                              Return, Goto, WorkersType
    <3> QED
      BY <1>1, <3>1, <3>2 DEF Step
  <2> QED
    BY <1>b, <2>1
<1>2. ASSUME Step(v) \/ Crash(v) PROVE result'[v].digest \in produced'
  <2>1. CASE Reconcile(v)
    <3>1. pc'[v] = "reconciled" /\ UNCHANGED produced
      BY <1>a, <2>1 DEF Reconcile, Goto, WorkersType, ghosts
    <3>2. result'[v].tag = "completed" => result'[v].digest \in produced
      BY <1>a, <2>1 DEF Reconcile, Result, WorkersType
    <3> QED
      BY <3>1, <3>2
  <2>2. CASE Execute(v)
    <3>1. pc'[v] = "executed"
      BY <1>a, <2>2 DEF Execute, Goto, WorkersType
    <3>2. result'[v].tag = "executed" => result'[v].digest \in produced'
      BY <1>a, <2>2 DEF Execute, Result, WorkersType
    <3> QED
      BY <3>1, <3>2
  <2>3. CASE ~Reconcile(v) /\ ~Execute(v)
    <3>1. pc'[v] \notin {"reconciled", "executed"}
      BY <1>a, <1>2, <2>3
         DEF Step, Crash, Start, Enqueue, Get, AfterRead, Authorize, ClaimGranted, ClaimRefused,
             SettleReconciliation, SettleExecution, Replay, Return, Goto, WorkersType
    <3> QED
      BY <3>1
  <2> QED
    BY <2>1, <2>2, <2>3
<1>3. CASE Tick \/ ChangeAuthority \/ OperatorReopen \/ UNCHANGED vars
  BY <1>b, <1>3 DEF Tick, ChangeAuthority, OperatorReopen, vars, workers
<1> QED
  BY <1>1, <1>2, <1>3 DEF Next

(* The row is completed by complete, by a reconciliation and without a     *)
(* fence by settleFencedCompletion; on none of the three paths without an  *)
(* effect of the provider.                                                 *)
THEOREM CompletionTheorem == Spec => []CompletedHasEffect
<1>1. Init => ResultsProduced /\ CompletedHasEffect
  BY DEF Init, ResultsProduced, CompletedHasEffect, Absent
<1>2. TypeOK /\ ResultsProduced /\ CompletedHasEffect /\ [Next]_vars => CompletedHasEffect'
  <2> SUFFICES ASSUME TypeOK, ResultsProduced, CompletedHasEffect, [Next]_vars, row'.status = "completed"
               PROVE  row'.digest \in produced'
    BY DEF CompletedHasEffect
  <2>a. row \in Rows /\ WorkersType
    BY DEF TypeOK, WorkersType
  <2>b. ASSUME row' = row PROVE row'.digest \in produced'
    BY <2>b, ProducedGrows DEF CompletedHasEffect
  <2>c. ASSUME NEW w \in Workers, row' = Completed(row, result[w].digest),
               \/ pc[w] = "reconciled" /\ result[w].tag = "completed"
               \/ pc[w] = "executed" /\ result[w].tag = "executed"
        PROVE  row'.digest \in produced'
    BY <2>a, <2>c, ProducedGrows DEF Completed, Rows, ResultsProduced
  <2>d. ASSUME NEW w, NEW d, Fail(w, d) PROVE row' = row
    <3>1. FailedStatus(row, d) # "completed"
      BY DEF FailedStatus
    <3> QED
      BY <2>a, <2>d, <3>1 DEF Fail, Write, FailedRow, Rows, ledger
  <2>1. ASSUME NEW w \in Workers, Step(w) \/ Crash(w) PROVE row'.digest \in produced'
    <3>1. CASE Start(w) \/ Get(w) \/ Reconcile(w) \/ Execute(w) \/ Replay(w) \/ Crash(w)
      BY <2>b, <3>1 DEF Start, Get, Reconcile, Execute, Replay, Crash, ledger
    <3>2. CASE Enqueue(w)
      <4>1. Inserted(w).status = "queued" /\ Reopened(row, now[w]).status = "queued"
        BY <2>a DEF Inserted, Absent, Reopened, Rows
      <4> QED
        BY <2>b, <3>2, <4>1 DEF Enqueue, Write, ledger
    <3>3. CASE Authorize(w)
      <4>1. Reactivated(row, auth[w], now[w]).status = "queued"
        BY <2>a DEF Reactivated, Rows
      <4> QED
        BY <2>b, <3>3, <4>1 DEF Authorize, Write, ledger
    <3>4. CASE ClaimGranted(w)
      <4>1. Claimed(row, w, now[w]).status = "claimed"
        BY <2>a DEF Claimed, Rows
      <4> QED
        BY <3>4, <4>1 DEF ClaimGranted, Write
    <3>5. CASE ClaimRefused(w)
      <4>1. ExpiredRow(row, now[w]).status = "failed"
        BY <2>a DEF ExpiredRow, Rows
      <4> QED
        BY <2>b, <3>5, <4>1 DEF ClaimRefused, Write, ledger
    <3>6. CASE SettleReconciliation(w)
      BY <2>b, <2>c, <2>d, <3>6 DEF SettleReconciliation, FailThroughPolicy, Complete, Write, ledger
    <3>7. CASE SettleExecution(w)
      BY <2>b, <2>c, <2>d, <3>7 DEF SettleExecution, FencedSuccess, FailThroughPolicy, Complete, Write, ledger
    <3> QED
      BY <2>1, <3>1, <3>2, <3>3, <3>4, <3>5, <3>6, <3>7 DEF Step
  <2>2. CASE Tick \/ ChangeAuthority \/ UNCHANGED vars
    BY <2>b, <2>2 DEF Tick, ChangeAuthority, vars, ledger
  <2>3. CASE OperatorReopen
    <3>1. Reopened(row, clock).status = "queued"
      BY <2>a DEF Reopened, Rows
    <3> QED
      BY <2>3, <3>1 DEF OperatorReopen, Write
  <2> QED
    BY <2>1, <2>2, <2>3 DEF Next
<1>3. TypeOK /\ ResultsProduced /\ [Next]_vars => ResultsProduced'
  BY ResultsStayProduced
<1> QED
  BY <1>1, <1>2, <1>3, Typing, PTL DEF Spec

----------------------------------------------------------------------------
(* A row that failed for good is reopened by neither a run nor an operator, *)
(* reactivated by no credential and claimed by nobody; only the unfenced   *)
(* completion of runAdoptive still changes it.                             *)
THEOREM PermanentTheorem == Spec => PermanentFailureStands
<1>1. TypeOK /\ [Next]_vars =>
        [row.status = "failed" /\ row.reason = "permanent_failure" =>
           row' = row \/ (Adoptive /\ row'.status = "completed")]_vars
  <2> SUFFICES ASSUME TypeOK, Next, row.status = "failed", row.reason = "permanent_failure"
               PROVE  row' = row \/ (Adoptive /\ row'.status = "completed")
    OBVIOUS
  <2>a. row \in Rows
    BY DEF TypeOK
  <2>b. ASSUME NEW w, NEW d, Fail(w, d) PROVE row' = row
    BY <2>b DEF Fail, ClaimActive, ledger
  <2>c. ASSUME NEW w, NEW d, Complete(w, d) PROVE row' = row
    BY <2>c DEF Complete, ClaimActive, ledger
  <2>1. ASSUME NEW w \in Workers, Step(w) \/ Crash(w)
        PROVE  row' = row \/ (Adoptive /\ row'.status = "completed")
    <3>1. CASE Start(w) \/ Get(w) \/ Reconcile(w) \/ Execute(w) \/ Replay(w) \/ Crash(w)
      BY <3>1 DEF Start, Get, Reconcile, Execute, Replay, Crash, ledger
    <3>2. CASE Enqueue(w) \/ Authorize(w)
      BY <3>2 DEF Enqueue, CanReopen, Authorize, CanReactivate, ledger
    <3>3. CASE ClaimGranted(w) \/ ClaimRefused(w)
      BY <3>3 DEF ClaimGranted, Claimable, RetryEligible, Reconciling, ExpiredRecovery, Recovering,
                  ClaimRefused, ExpiredInQueue, ledger
    <3>4. CASE SettleReconciliation(w)
      BY <2>b, <2>c, <3>4 DEF SettleReconciliation, FailThroughPolicy, ledger
    <3>5. CASE SettleExecution(w)
      BY <2>a, <2>b, <2>c, <3>5 DEF SettleExecution, FencedSuccess, FailThroughPolicy, Write, Completed, Rows
    <3> QED
      BY <2>1, <3>1, <3>2, <3>3, <3>4, <3>5 DEF Step
  <2>2. CASE Tick \/ ChangeAuthority \/ OperatorReopen
    BY <2>2 DEF Tick, ChangeAuthority, OperatorReopen, CanReopen, ledger
  <2> QED
    BY <2>1, <2>2 DEF Next
<1> QED
  BY <1>1, Typing, PTL DEF Spec, PermanentFailureStands

----------------------------------------------------------------------------
(***************************************************************************)
(* The retry budget, and the marker of an uncertain effect.  Both are      *)
(* about run, the path packages/agent takes for a model call: runAdoptive  *)
(* reopens rows while an earlier call may still be executing, and is       *)
(* documented to execute again.  The budget is kept unless reconcile may   *)
(* say resume; the marker unless it may also fail.  packages/agent answers *)
(* missing on every call.                                                  *)
(*                                                                         *)
(* ExecutionsWithinBudget is not inductive: it says nothing of the calls   *)
(* that will still reach the provider.  Promised is the calls that may;    *)
(* each has taken an attempt of the row that no execution has used yet.    *)
(***************************************************************************)
Promised ==
  {w \in Workers :
     \/ pc[w] = "execute"
     \/ /\ pc[w] \in {"reconcile", "reconciled"}
        /\ claim[w].reason # ReconcileReason
        /\ claim[w].expires > now[w]}

BudgetKept ==
  /\ IsFiniteSet(Promised)
  /\ executions + Cardinality(Promised) <= row.attempts
  /\ row.attempts <= RetryBudget
  /\ row.status = "absent" => row.attempts = 0

NotResumed == \A w \in Workers : pc[w] = "reconciled" => result[w].tag # "resume"

(* An uncertain effect stays marked on the row until the row is final, and *)
(* no call executes under a marked claim.                                  *)
Marked ==
  /\ uncertain => \/ row.status \in {"failed", "completed"}
                  \/ row.status \in {"blocked", "claimed"} /\ row.reason = ReconcileReason
  /\ \A w \in Workers : pc[w] \in {"execute", "executed"} => claim[w].reason # ReconcileReason

(* What the steps do to the answers of reconcile: only reconcile gives one.*)
LEMMA AnswersFromReconcile ==
  ASSUME TypeOK, [Next]_vars, NEW v \in Workers, pc'[v] = "reconciled"
  PROVE  \/ pc[v] = "reconciled" /\ result'[v] = result[v]
         \/ result'[v].tag \in Replies
<1>a. WorkersType
  BY DEF TypeOK, WorkersType
<1>1. ASSUME NEW w \in Workers, Step(w) \/ Crash(w), w # v
      PROVE  pc[v] = "reconciled" /\ result'[v] = result[v]
  <2>1. CASE Start(w) \/ Enqueue(w) \/ Get(w) \/ ClaimGranted(w) \/ Reconcile(w) \/ Execute(w)
    BY <1>a, <1>1, <2>1 DEF Start, Enqueue, Get, AfterRead, ClaimGranted, Reconcile, Execute, Goto, WorkersType
  <2>2. CASE Authorize(w) \/ ClaimRefused(w) \/ SettleReconciliation(w) \/ SettleExecution(w)
             \/ Replay(w) \/ Crash(w)
    BY <1>a, <1>1, <2>2 DEF Authorize, ClaimRefused, SettleReconciliation, SettleExecution, Replay, Crash,
                            Return, Goto, WorkersType
  <2> QED
    BY <1>1, <2>1, <2>2 DEF Step
<1>2. CASE Reconcile(v)
  BY <1>a, <1>2 DEF Reconcile, Result, WorkersType
<1>3. ASSUME Step(v) \/ Crash(v), ~Reconcile(v) PROVE FALSE
  BY <1>a, <1>3
     DEF Step, Crash, Start, Enqueue, Get, AfterRead, Authorize, ClaimGranted, ClaimRefused, Execute,
         SettleReconciliation, SettleExecution, Replay, Return, Goto, WorkersType
<1>4. CASE Tick \/ ChangeAuthority \/ OperatorReopen \/ UNCHANGED vars
  BY <1>4 DEF Tick, ChangeAuthority, OperatorReopen, vars, workers
<1> QED
  BY <1>1, <1>2, <1>3, <1>4 DEF Next

LEMMA NotResumedTheorem == ASSUME "resume" \notin Replies PROVE Spec => []NotResumed
<1>1. Init => NotResumed
  BY DEF Init, NotResumed
<1>2. TypeOK /\ NotResumed /\ [Next]_vars => NotResumed'
  BY AnswersFromReconcile DEF NotResumed
<1> QED
  BY <1>1, <1>2, Typing, PTL DEF Spec

(* A step that promises nothing new and executes nothing.                  *)
Unpromising ==
  /\ Promised' \subseteq Promised
  /\ executions' = executions
  /\ row'.attempts = row.attempts
  /\ row'.status = "absent" => row.status = "absent"

LEMMA UnpromisingKeeps ==
  ASSUME TypeOK, BudgetKept, Unpromising
  PROVE  BudgetKept'
<1>1. IsFiniteSet(Promised) /\ executions \in Nat /\ row.attempts \in Nat
  BY DEF TypeOK, BudgetKept, Rows
<1>2. /\ IsFiniteSet(Promised') /\ Cardinality(Promised) \in Nat
      /\ Cardinality(Promised') \in Nat /\ Cardinality(Promised') <= Cardinality(Promised)
  BY <1>1, FS_Subset, FS_CardinalityType DEF Unpromising
<1> QED
  BY <1>1, <1>2, TimesAssumption DEF BudgetKept, Unpromising

(* A call that ends, or stands before its claim, promises nothing.         *)
LEMMA MovePromises ==
  ASSUME NEW w \in Workers, WorkersType,
         \A v \in Workers \ {w} : pc'[v] = pc[v] /\ claim'[v] = claim[v] /\ now'[v] = now[v],
         pc'[w] \notin {"reconcile", "reconciled", "execute"}
  PROVE  Promised' \subseteq Promised \ {w}
BY DEF Promised

LEMMA ReturnPromises ==
  ASSUME NEW w \in Workers, WorkersType, Return(w)
  PROVE  Promised' \subseteq Promised
<1>1. /\ \A v \in Workers \ {w} : pc'[v] = pc[v] /\ claim'[v] = claim[v] /\ now'[v] = now[v]
      /\ pc'[w] = "idle"
  BY DEF Return, Goto, WorkersType
<1> QED
  BY <1>1, MovePromises

(* The transactions that keep the attempts of the row.                     *)
SameAttempts ==
  /\ row'.attempts = row.attempts
  /\ row'.status = "absent" => row.status = "absent"

LEMMA SameRow == ASSUME row' = row PROVE SameAttempts
BY DEF SameAttempts

LEMMA FailAttempts ==
  ASSUME row \in Rows, NEW w, NEW d, Fail(w, d)
  PROVE  SameAttempts
<1>1. CASE row' = FailedRow(row, d)
  BY <1>1 DEF FailedRow, FailedStatus, Rows, SameAttempts
<1> QED
  BY <1>1, SameRow DEF Fail, Write, ledger

LEMMA CompleteAttempts ==
  ASSUME row \in Rows, NEW w, NEW d, Complete(w, d)
  PROVE  SameAttempts
<1>1. CASE row' = Completed(row, d)
  BY <1>1 DEF Completed, Rows, SameAttempts
<1> QED
  BY <1>1, SameRow DEF Complete, Write, ledger

LEMMA ReactivateAttempts ==
  ASSUME row \in Rows, NEW a, NEW at, row' = Reactivated(row, a, at)
  PROVE  SameAttempts
BY DEF Reactivated, Rows, SameAttempts

LEMMA ExpireAttempts ==
  ASSUME row \in Rows, NEW at, row' = ExpiredRow(row, at)
  PROVE  SameAttempts
BY DEF ExpiredRow, Rows, SameAttempts

(* A granted claim promises an execution only if it takes an attempt.      *)
LEMMA GrantPromises ==
  ASSUME NEW w \in Workers, TypeOK, BudgetKept, ~Adoptive, ClaimGranted(w)
  PROVE  BudgetKept'
<1>a. row \in Rows /\ WorkersType /\ executions \in Nat /\ row.attempts \in Nat
  BY DEF TypeOK, WorkersType, Rows
<1>1. /\ row' = Claimed(row, w, now[w]) /\ claim' = [claim EXCEPT ![w] = row']
      /\ pc' = [pc EXCEPT ![w] = "reconcile"] /\ now' = now /\ executions' = executions
      /\ Claimable(row, now[w])
  BY DEF ClaimGranted, Write, Goto, ghosts
<1>2. row'.status = "claimed" /\ row'.reason = row.reason /\ row'.expires = row.expires
  BY <1>1, <1>a DEF Claimed, Rows
<1>3. Promised' \subseteq Promised \cup {w}
  BY <1>1, <1>a DEF Promised, WorkersType
<1>4. w \notin Promised
  BY DEF ClaimGranted, Promised
<1>5. CASE ConsumesAttempt(row, now[w])
  <2>1. row.attempts < RetryBudget
    BY <1>1, <1>5 DEF ConsumesAttempt, Claimable, RetryEligible
  <2>2. row'.attempts = row.attempts + 1
    BY <1>1, <1>5, <1>a DEF Claimed, Rows
  <2>3. IsFiniteSet(Promised) /\ Cardinality(Promised) \in Nat
    BY FS_CardinalityType DEF BudgetKept
  <2>4. /\ IsFiniteSet(Promised \cup {w})
        /\ Cardinality(Promised \cup {w}) = Cardinality(Promised) + 1
    BY <1>4, <2>3, FS_AddElement
  <2>5. /\ IsFiniteSet(Promised') /\ Cardinality(Promised') \in Nat
        /\ Cardinality(Promised') <= Cardinality(Promised) + 1
    BY <1>3, <2>4, FS_Subset, FS_CardinalityType
  <2> QED
    BY <1>a, <1>1, <1>2, <2>1, <2>2, <2>3, <2>5, TimesAssumption DEF BudgetKept
<1>6. CASE ~ConsumesAttempt(row, now[w])
  <2>1. row'.attempts = row.attempts
    BY <1>1, <1>6, <1>a DEF Claimed, Rows
  <2>2. row.reason = ReconcileReason \/ row.expires <= now[w]
    BY <1>6 DEF ConsumesAttempt, Reconciling, ExpiredRecovery
  <2>3. row.expires \in Nat /\ now[w] \in Nat
    BY <1>a DEF Rows, WorkersType
  <2>4. ~(row.reason # ReconcileReason /\ row.expires > now[w])
    BY <2>2, <2>3
  <2>5. pc'[w] = "reconcile" /\ claim'[w] = row' /\ now'[w] = now[w]
    BY <1>a, <1>1 DEF WorkersType
  <2>6. w \notin Promised'
    BY <1>2, <2>4, <2>5 DEF Promised
  <2> QED
    BY <1>1, <1>2, <1>3, <2>1, <2>6, UnpromisingKeeps DEF Unpromising
<1> QED
  BY <1>5, <1>6

(* An execution uses up the promise of its call.                           *)
LEMMA ExecutePromises ==
  ASSUME NEW w \in Workers, TypeOK, BudgetKept, Execute(w)
  PROVE  BudgetKept'
<1>a. row \in Rows /\ WorkersType /\ executions \in Nat /\ row.attempts \in Nat
  BY DEF TypeOK, WorkersType, Rows
<1>1. /\ row' = row /\ executions' \in Nat /\ executions' <= executions + 1
      /\ pc'[w] = "executed"
      /\ \A v \in Workers \ {w} : pc'[v] = pc[v] /\ claim'[v] = claim[v] /\ now'[v] = now[v]
  BY <1>a DEF Execute, Goto, ledger, WorkersType
<1>2. w \in Promised
  BY DEF Execute, Promised
<1>3. Promised' \subseteq Promised \ {w}
  BY <1>a, <1>1, MovePromises
<1>4. IsFiniteSet(Promised) /\ Cardinality(Promised) \in Nat
  BY FS_CardinalityType DEF BudgetKept
<1>5. IsFiniteSet(Promised \ {w}) /\ Cardinality(Promised \ {w}) = Cardinality(Promised) - 1
  BY <1>2, <1>4, FS_RemoveElement
<1>6. /\ IsFiniteSet(Promised') /\ Cardinality(Promised') \in Nat
      /\ Cardinality(Promised') <= Cardinality(Promised) - 1
  BY <1>3, <1>5, FS_Subset, FS_CardinalityType
<1> QED
  BY <1>a, <1>1, <1>4, <1>6, TimesAssumption DEF BudgetKept

(* The first call inserts the row: nothing was executed or promised.       *)
LEMMA EnqueuePromises ==
  ASSUME NEW w \in Workers, TypeOK, BudgetKept, ~Adoptive, Enqueue(w)
  PROVE  BudgetKept'
<1>a. row \in Rows /\ WorkersType /\ executions \in Nat /\ row.attempts \in Nat
  BY DEF TypeOK, WorkersType, Rows
<1>1. Promised' \subseteq Promised
  <2>1. /\ \A v \in Workers \ {w} : pc'[v] = pc[v] /\ claim'[v] = claim[v] /\ now'[v] = now[v]
        /\ pc'[w] \in {"authorize", "claim"}
    BY <1>a DEF Enqueue, AfterRead, Goto, WorkersType
  <2> QED
    BY <1>a, <2>1, MovePromises
<1>2. CASE row' = row /\ executions' = executions
  BY <1>1, <1>2, UnpromisingKeeps DEF Unpromising
<1>3. CASE row.status = "absent" /\ row' = Inserted(w) /\ executions' = 0
  <2>1. row'.attempts = 0 /\ row'.status = "queued"
    BY <1>3 DEF Inserted, Absent
  <2>2. row.attempts = 0 /\ executions = 0
    BY <1>a, <1>3, FS_CardinalityType DEF BudgetKept
  <2> QED
    BY <1>1, <1>3, <2>1, <2>2, UnpromisingKeeps DEF Unpromising
<1> QED
  BY <1>2, <1>3 DEF Enqueue, ChoosesReopen, Write, ledger

LEMMA StepPromises ==
  ASSUME NEW w \in Workers, TypeOK, BudgetKept, NotResumed, ~Adoptive, Step(w) \/ Crash(w)
  PROVE  BudgetKept'
<1>a. row \in Rows /\ WorkersType
  BY DEF TypeOK, WorkersType
<1>b. ASSUME Promised' \subseteq Promised, executions' = executions, SameAttempts
      PROVE  BudgetKept'
  BY <1>b, UnpromisingKeeps DEF Unpromising, SameAttempts
<1>1. CASE Start(w) \/ Get(w) \/ Replay(w) \/ Crash(w)
  <2>1. Promised' \subseteq Promised
    BY <1>a, <1>1, ReturnPromises DEF Start, Get, Replay, Crash, AfterRead, Goto, Promised, WorkersType
  <2>2. row' = row /\ executions' = executions
    BY <1>1 DEF Start, Get, Replay, Crash, ledger, ghosts
  <2> QED
    BY <1>a, <1>b, <2>1, <2>2, SameRow
<1>2. CASE Enqueue(w)
  BY <1>2, EnqueuePromises
<1>3. CASE Authorize(w)
  <2>1. Promised' \subseteq Promised
    BY <1>a, <1>3, ReturnPromises DEF Authorize, Goto, Promised, WorkersType
  <2>2. executions' = executions /\ (row' = row \/ row' = Reactivated(row, auth[w], now[w]))
    BY <1>3 DEF Authorize, Write, ledger, ghosts
  <2> QED
    BY <1>a, <1>b, <2>1, <2>2, SameRow, ReactivateAttempts
<1>4. CASE ClaimGranted(w)
  BY <1>4, GrantPromises
<1>5. CASE ClaimRefused(w)
  <2>1. Promised' \subseteq Promised
    BY <1>a, <1>5, ReturnPromises DEF ClaimRefused
  <2>2. executions' = executions /\ (row' = row \/ row' = ExpiredRow(row, now[w]))
    BY <1>5 DEF ClaimRefused, Write, ledger, ghosts
  <2> QED
    BY <1>a, <1>b, <2>1, <2>2, SameRow, ExpireAttempts
<1>6. CASE Reconcile(w)
  <2>1. Promised' \subseteq Promised
    BY <1>a, <1>6 DEF Reconcile, Goto, Promised, WorkersType
  <2>2. row' = row /\ executions' = executions
    BY <1>6 DEF Reconcile, ledger, ghosts
  <2> QED
    BY <1>a, <1>b, <2>1, <2>2, SameRow
<1>7. CASE SettleReconciliation(w)
  <2>1. CASE Return(w)
    <3>1. Promised' \subseteq Promised /\ executions' = executions
      BY <1>a, <1>7, <2>1, ReturnPromises DEF SettleReconciliation
    <3>2. row' = row \/ (\E d : Fail(w, d)) \/ (\E d : Complete(w, d))
      BY <1>7 DEF SettleReconciliation, FailThroughPolicy, ledger
    <3> QED
      BY <1>a, <1>b, <3>1, <3>2, SameRow, FailAttempts, CompleteAttempts
  <2>2. CASE Goto(w, "execute")
    <3>1. row' = row /\ executions' = executions /\ claim' = claim /\ now' = now
      BY <1>a, <1>7, <2>2 DEF SettleReconciliation, Goto, Return, ledger, WorkersType
    <3>2. claim[w].reason # ReconcileReason /\ claim[w].expires > now[w]
      <4>1. pc'[w] = "execute"
        BY <1>a, <2>2 DEF Goto, WorkersType
      <4>2. ~ReconciliationOnly(w)
        BY <1>a, <1>7, <4>1 DEF SettleReconciliation, NotResumed, Return, Goto, WorkersType
      <4>3. claim[w].expires \in Nat /\ now[w] \in Nat
        BY <1>a DEF Rows, WorkersType
      <4> QED
        BY <4>2, <4>3 DEF ReconciliationOnly
    <3>3. Promised' \subseteq Promised
      BY <1>a, <1>7, <2>2, <3>1, <3>2 DEF SettleReconciliation, Goto, Promised, WorkersType
    <3> QED
      BY <1>a, <1>b, <3>1, <3>3, SameRow
  <2> QED
    BY <1>7, <2>1, <2>2 DEF SettleReconciliation
<1>8. CASE Execute(w)
  BY <1>8, ExecutePromises
<1>9. CASE SettleExecution(w)
  <2>1. Promised' \subseteq Promised /\ executions' = executions
    BY <1>a, <1>9, ReturnPromises DEF SettleExecution
  <2>2. (\E d : Fail(w, d)) \/ (\E d : Complete(w, d))
    BY <1>9 DEF SettleExecution, FencedSuccess, FailThroughPolicy
  <2> QED
    BY <1>a, <1>b, <2>1, <2>2, FailAttempts, CompleteAttempts
<1> QED
  BY <1>1, <1>2, <1>3, <1>4, <1>5, <1>6, <1>7, <1>8, <1>9 DEF Step

(* However calls overlap, stall, lose their claim and crash, the provider  *)
(* is called at most retryBudget times for one operation: a recovered      *)
(* claim, an expired one and a reconciliation never add a call that was    *)
(* not counted.                                                            *)
THEOREM BudgetTheorem ==
  ASSUME ~Adoptive, "resume" \notin Replies
  PROVE  Spec => []ExecutionsWithinBudget
<1>1. Init => BudgetKept
  <2> SUFFICES ASSUME Init PROVE BudgetKept
    OBVIOUS
  <2>1. Promised = {}
    BY DEF Init, Promised
  <2> QED
    BY <2>1, FS_EmptySet, TimesAssumption DEF Init, Absent, BudgetKept
<1>2. TypeOK /\ NotResumed /\ BudgetKept /\ [Next]_vars => BudgetKept'
  <2> SUFFICES ASSUME TypeOK, NotResumed, BudgetKept, [Next]_vars PROVE BudgetKept'
    OBVIOUS
  <2>1. CASE Tick \/ ChangeAuthority \/ UNCHANGED vars
    BY <2>1, UnpromisingKeeps
       DEF Tick, ChangeAuthority, vars, ledger, workers, ghosts, Unpromising, Promised
  <2>2. ~OperatorReopen
    BY DEF OperatorReopen
  <2> QED
    BY <2>1, <2>2, StepPromises DEF Next
<1>3. TypeOK /\ BudgetKept => ExecutionsWithinBudget
  BY FS_CardinalityType, TimesAssumption DEF TypeOK, Rows, BudgetKept, ExecutionsWithinBudget
<1> QED
  BY <1>1, <1>2, <1>3, Typing, NotResumedTheorem, PTL DEF Spec

----------------------------------------------------------------------------
OnlySettled == \A w \in Workers : pc[w] = "reconciled" => result[w].tag \in {"missing", "completed"}

LEMMA OnlySettledTheorem ==
  ASSUME Replies \subseteq {"missing", "completed"}
  PROVE  Spec => []OnlySettled
<1>1. Init => OnlySettled
  BY DEF Init, OnlySettled
<1>2. TypeOK /\ OnlySettled /\ [Next]_vars => OnlySettled'
  BY AnswersFromReconcile DEF OnlySettled
<1> QED
  BY <1>1, <1>2, Typing, PTL DEF Spec

(* Which rows an uncertain effect may leave.                               *)
Tagged(r) ==
  \/ r.status \in {"failed", "completed"}
  \/ r.status \in {"blocked", "claimed"} /\ r.reason = ReconcileReason

(* A decision to reconcile blocks the row under the marker.                *)
LEMMA ReconcileDecisionTags ==
  ASSUME row \in Rows, NEW d, d.action = "reconcile", DecisionFits(row, d, clock)
  PROVE  Tagged(FailedRow(row, d))
<1>1. d.reason = ReconcileReason
  BY DEF DecisionFits, ValidDecision, AllowedReasons
<1>2. ~BudgetExhausted(row, d) /\ FailedStatus(row, d) = "blocked"
  BY DEF BudgetExhausted, FailedStatus
<1> QED
  BY <1>1, <1>2 DEF FailedRow, Rows, Tagged

LEMMA FailDecisionTags ==
  ASSUME row \in Rows, NEW d, d.action = "fail"
  PROVE  Tagged(FailedRow(row, d))
BY DEF FailedRow, FailedStatus, Rows, Tagged

RowMarked == uncertain => Tagged(row)

NoMarkedExecution ==
  \A w \in Workers : pc[w] \in {"execute", "executed"} => claim[w].reason # ReconcileReason

LEMMA MarkedParts == Marked <=> RowMarked /\ NoMarkedExecution
BY DEF Marked, RowMarked, NoMarkedExecution, Tagged

(* A call that went on to execute holds an unmarked claim; when fail lets  *)
(* it through, the row is that claim and nothing uncertain is forgotten.   *)
LEMMA ExecutedFail ==
  ASSUME NEW w \in Workers, NEW d, IInv, Marked, pc[w] = "executed", Fail(w, d)
  PROVE  RowMarked'
<1>a. row \in Rows /\ RowMarked /\ NoMarkedExecution
  BY MarkedParts DEF IInv, TypeOK
<1>1. CASE ClaimActive(row, claim[w], clock) /\ DecisionFits(row, d, clock)
  <2>1. row = claim[w] /\ row.status = "claimed"
    BY <1>1 DEF IInv, Fences, ClaimSnapshotCurrent, Holding, ClaimActive
  <2>2. ~uncertain
    BY <1>a, <2>1 DEF RowMarked, NoMarkedExecution, Tagged
  <2>3. row' = FailedRow(row, d) /\ uncertain' = (d.action = "reconcile")
    BY <1>1, <2>2 DEF Fail, Write
  <2> QED
    BY <1>a, <1>1, <2>3, ReconcileDecisionTags DEF RowMarked
<1>2. CASE ~(ClaimActive(row, claim[w], clock) /\ DecisionFits(row, d, clock))
  BY <1>a, <1>2 DEF Fail, ledger, RowMarked
<1> QED
  BY <1>1, <1>2

LEMMA SettledFail ==
  ASSUME NEW w \in Workers, NEW d, row \in Rows, RowMarked, Fail(w, d),
         d.action \in {"fail", "reconcile"}
  PROVE  RowMarked'
<1>1. CASE ClaimActive(row, claim[w], clock) /\ DecisionFits(row, d, clock)
  <2>1. row' = FailedRow(row, d)
    BY <1>1 DEF Fail, Write
  <2> QED
    BY <1>1, <2>1, ReconcileDecisionTags, FailDecisionTags DEF RowMarked
<1>2. CASE ~(ClaimActive(row, claim[w], clock) /\ DecisionFits(row, d, clock))
  BY <1>2 DEF Fail, ledger, RowMarked
<1> QED
  BY <1>1, <1>2

LEMMA CompleteMarked ==
  ASSUME NEW w, NEW digest, row \in Rows, RowMarked, Complete(w, digest)
  PROVE  RowMarked'
<1>1. Tagged(Completed(row, digest))
  BY DEF Completed, Rows, Tagged
<1> QED
  BY <1>1 DEF Complete, Write, ledger, RowMarked

LEMMA ReturnMarked ==
  ASSUME NEW w \in Workers, WorkersType, NoMarkedExecution, Return(w)
  PROVE  NoMarkedExecution'
BY DEF Return, Goto, NoMarkedExecution, WorkersType

LEMMA StepMarked ==
  ASSUME NEW w \in Workers, IInv, OnlySettled, Marked, ~Adoptive, Step(w) \/ Crash(w)
  PROVE  Marked'
<1>a. row \in Rows /\ WorkersType /\ RowMarked /\ NoMarkedExecution
  BY MarkedParts DEF IInv, TypeOK, WorkersType
<1> SUFFICES RowMarked' /\ NoMarkedExecution'
  BY MarkedParts DEF Marked, RowMarked, NoMarkedExecution, Tagged
<1>b. ASSUME row' = row, uncertain' = uncertain PROVE RowMarked'
  BY <1>a, <1>b DEF RowMarked
<1>1. CASE Start(w) \/ Get(w) \/ Reconcile(w)
  BY <1>a, <1>b, <1>1
     DEF Start, Get, AfterRead, Reconcile, Goto, ledger, ghosts, NoMarkedExecution, WorkersType
<1>2. CASE Replay(w) \/ Crash(w)
  BY <1>a, <1>b, <1>2, ReturnMarked DEF Replay, Crash, ledger, ghosts
<1>3. CASE Enqueue(w)
  <2>1. NoMarkedExecution'
    BY <1>a, <1>3 DEF Enqueue, AfterRead, Goto, NoMarkedExecution, WorkersType
  <2>2. CASE row.status = "absent" /\ uncertain' = uncertain
    <3>1. ~uncertain
      BY <1>a, <2>2 DEF RowMarked, Tagged
    <3> QED
      BY <2>1, <2>2, <3>1 DEF RowMarked
  <2>3. CASE row' = row /\ uncertain' = uncertain
    BY <1>b, <2>1, <2>3
  <2> QED
    BY <1>3, <2>2, <2>3 DEF Enqueue, ChoosesReopen, Write, ledger
<1>4. CASE Authorize(w)
  <2>1. NoMarkedExecution'
    BY <1>a, <1>4, ReturnMarked DEF Authorize, Goto, NoMarkedExecution, WorkersType
  <2>2. uncertain' = uncertain
    BY <1>4 DEF Authorize, ghosts
  <2>3. CASE CanReactivate(row, seen[w].authority, now[w])
    <3>1. ~uncertain
      BY <1>a, <2>3 DEF CanReactivate, RowMarked, Tagged, AuthorityReason, ReconcileReason
    <3> QED
      BY <2>1, <2>2, <3>1 DEF RowMarked
  <2>4. CASE ~CanReactivate(row, seen[w].authority, now[w])
    BY <1>b, <1>4, <2>1, <2>2, <2>4 DEF Authorize, ledger
  <2> QED
    BY <2>3, <2>4
<1>5. CASE ClaimGranted(w)
  <2>1. NoMarkedExecution'
    BY <1>a, <1>5 DEF ClaimGranted, Goto, NoMarkedExecution, WorkersType
  <2>2. row' = Claimed(row, w, now[w]) /\ uncertain' = uncertain
    BY <1>5 DEF ClaimGranted, Write, ghosts
  <2>3. row'.status = "claimed" /\ row'.reason = row.reason
    BY <1>a, <2>2 DEF Claimed, Rows
  <2>4. row.status \notin {"failed", "completed"}
    BY <1>5 DEF ClaimGranted, Claimable, RetryEligible, Reconciling, ExpiredRecovery, Recovering
  <2> QED
    BY <1>a, <2>1, <2>2, <2>3, <2>4 DEF RowMarked, Tagged
<1>6. CASE ClaimRefused(w)
  <2>1. NoMarkedExecution'
    BY <1>a, <1>6, ReturnMarked DEF ClaimRefused, Goto, NoMarkedExecution, WorkersType
  <2>2. Tagged(ExpiredRow(row, now[w]))
    BY <1>a DEF ExpiredRow, Rows, Tagged
  <2> QED
    BY <1>a, <1>b, <1>6, <2>1, <2>2 DEF ClaimRefused, Write, ledger, ghosts, RowMarked
<1>7. CASE SettleReconciliation(w)
  <2>1. result[w].tag \in {"missing", "completed"} /\ pc[w] = "reconciled"
    BY <1>7 DEF SettleReconciliation, OnlySettled
  <2>2. CASE Complete(w, result[w].digest) /\ Return(w)
    BY <1>a, <2>2, CompleteMarked, ReturnMarked
  <2>3. CASE Fail(w, ExpiredDecision(claim[w], clock)) /\ Return(w)
    BY <1>a, <2>3, SettledFail, ReturnMarked DEF ExpiredDecision, OwnDecision
  <2>4. CASE Fail(w, ReconciliationDecision(claim[w])) /\ Return(w)
    BY <1>a, <2>4, SettledFail, ReturnMarked DEF ReconciliationDecision, OwnDecision
  <2>5. CASE ~ReconciliationOnly(w) /\ Goto(w, "execute") /\ UNCHANGED <<ledger, uncertain, claim>>
    <3>1. NoMarkedExecution'
      BY <1>a, <2>5 DEF ReconciliationOnly, Goto, NoMarkedExecution, WorkersType
    <3> QED
      BY <1>b, <2>5, <3>1 DEF ledger
  <2> QED
    BY <1>7, <2>1, <2>2, <2>3, <2>4, <2>5 DEF SettleReconciliation
<1>8. CASE Execute(w)
  <2>1. NoMarkedExecution'
    BY <1>a, <1>8 DEF Execute, Goto, NoMarkedExecution, WorkersType
  <2> QED
    BY <1>b, <1>8, <2>1 DEF Execute, ledger
<1>9. CASE SettleExecution(w)
  <2>1. NoMarkedExecution'
    BY <1>a, <1>9, ReturnMarked DEF SettleExecution
  <2>2. pc[w] = "executed" /\ ((\E d : Fail(w, d)) \/ (\E d : Complete(w, d)))
    BY <1>9 DEF SettleExecution, FencedSuccess, FailThroughPolicy
  <2> QED
    BY <1>a, <2>1, <2>2, ExecutedFail, CompleteMarked
<1> QED
  BY <1>1, <1>2, <1>3, <1>4, <1>5, <1>6, <1>7, <1>8, <1>9 DEF Step

(* Once an effect is recorded as possibly applied, no later call under a   *)
(* live claim executes: the marker survives every claim, crash and         *)
(* recovery, and no path but reconciliation lets go of it.                 *)
THEOREM UncertainTheorem ==
  ASSUME ~Adoptive, Replies \subseteq {"missing", "completed"}
  PROVE  Spec => UncertainEffectNotRepeated
<1>1. Init => Marked
  BY DEF Init, Marked
<1>2. IInv /\ OnlySettled /\ Marked /\ [Next]_vars => Marked'
  <2> SUFFICES ASSUME IInv, OnlySettled, Marked, [Next]_vars PROVE Marked'
    OBVIOUS
  <2>1. CASE Tick \/ ChangeAuthority \/ UNCHANGED vars
    BY <2>1 DEF Tick, ChangeAuthority, vars, ledger, workers, ghosts, Marked
  <2>2. ~OperatorReopen
    BY DEF OperatorReopen
  <2> QED
    BY <2>1, <2>2, StepMarked DEF Next
<1>3. IInv /\ OnlySettled /\ Marked /\ [Next]_vars =>
        [\A w \in Workers :
           /\ pc[w] = "reconciled" /\ pc'[w] = "execute"
           /\ uncertain /\ ClaimActive(row, claim[w], clock)
           => result[w].tag = "resume"]_vars
  <2> SUFFICES ASSUME IInv, OnlySettled, Marked, Next, NEW v \in Workers,
                      pc[v] = "reconciled", pc'[v] = "execute",
                      uncertain, ClaimActive(row, claim[v], clock)
               PROVE  FALSE
    OBVIOUS
  <2>a. WorkersType
    BY DEF IInv, TypeOK, WorkersType
  <2>1. ReconciliationOnly(v) /\ result[v].tag # "resume"
    <3>1. row = claim[v] /\ row.status = "claimed"
      BY DEF IInv, Fences, ClaimSnapshotCurrent, Holding, ClaimActive
    <3>2. row.reason = ReconcileReason
      BY <3>1 DEF Marked
    <3> QED
      BY <3>1, <3>2 DEF ReconciliationOnly, OnlySettled
  <2>2. ASSUME NEW w \in Workers, Step(w) \/ Crash(w) PROVE w = v
    <3>1. CASE Start(w) \/ Enqueue(w) \/ Get(w) \/ ClaimGranted(w) \/ Reconcile(w) \/ Execute(w)
      BY <2>a, <3>1 DEF Start, Enqueue, Get, AfterRead, ClaimGranted, Reconcile, Execute, Goto, WorkersType
    <3>2. CASE Authorize(w) \/ ClaimRefused(w) \/ SettleReconciliation(w) \/ SettleExecution(w)
               \/ Replay(w) \/ Crash(w)
      BY <2>a, <3>2 DEF Authorize, ClaimRefused, SettleReconciliation, SettleExecution, Replay, Crash,
                        Return, Goto, WorkersType
    <3> QED
      BY <2>2, <3>1, <3>2 DEF Step
  <2>3. ~(Step(v) \/ Crash(v))
    BY <2>a, <2>1
       DEF Step, Crash, Start, Enqueue, Get, AfterRead, Authorize, ClaimGranted, ClaimRefused, Reconcile,
           Execute, SettleReconciliation, SettleExecution, Replay, Return, Goto, WorkersType
  <2>4. ~(Tick \/ ChangeAuthority \/ OperatorReopen)
    BY DEF Tick, ChangeAuthority, OperatorReopen, workers
  <2> QED
    BY <2>2, <2>3, <2>4 DEF Next
<1> QED
  BY <1>1, <1>2, <1>3, Invariance, OnlySettledTheorem, PTL DEF Spec, UncertainEffectNotRepeated
=============================================================================
