------------------------- MODULE PaidAttemptsProofs -------------------------
(***************************************************************************)
(* The invariants of PaidAttempts, for any number of lanes, calls and      *)
(* attempts and any prices.  Sums come from FiniteSums.                    *)
(***************************************************************************)
EXTENDS PaidAttempts, FiniteSums, SequenceTheorems

(***************************************************************************)
(* The inductive invariant.                                                *)
(***************************************************************************)
AtWork == {"working", "calling", "called", "completing"}

\* A claim takes one of the attempts that are left, and only a claim has a lease.
Counted ==
  /\ job.status = "pending" => job.attempts < MaxAttempts
  /\ job.live => job.status = "running"

\* A lane without a claim has nothing, and no two lanes run the same attempt.
Placed ==
  /\ \A l \in Lanes : lane[l].pc = "idle" => lane[l] = Idle
  /\ \A l \in Lanes : lane[l].pc # "idle" => lane[l].gen >= 1
  /\ \A k, l \in Lanes : lane[k].pc # "idle" /\ lane[l].pc # "idle" /\ lane[k].gen = lane[l].gen => k = l

\* Only a lane in a call, or one that failed in it, has a call open.
Calling ==
  \A l \in Lanes :
    /\ lane[l].pc \in {"calling", "called"} =>
         /\ lane[l].call \in CallsOf(lane[l].gen)
         /\ calls[lane[l].call].status \in {"active", "unknown"}
         /\ Active(lane[l].gen) \subseteq {lane[l].call}
    /\ lane[l].pc \in {"reconciling", "working", "completing"} => Active(lane[l].gen) = {}

\* What a call is charged, by how it ended.
Priced ==
  \A i \in DOMAIN calls :
    /\ calls[i].status \in {"active", "unknown"} => calls[i].reported = 0
    /\ calls[i].status \in {"unknown", "failed"} => calls[i].charge = MaxCost
    /\ calls[i].status = "succeeded" => calls[i].charge = calls[i].bill

\* The attempt of a lane is decided by that lane.
Routed ==
  /\ \A l \in Lanes :
       /\ lane[l].pc = "reconciling" => ledger[lane[l].gen] = "none" /\ lane[l].outcome = NoOutcome
       /\ lane[l].pc = "completing" => lane[l].outcome.result = "succeeded"
       /\ lane[l].pc \in AtWork \/ lane[l].outcome.result # "none" => ledger[lane[l].gen] = "pending"
  /\ \A i \in DOMAIN calls : ledger[calls[i].gen] \notin {"none", "handoff"}

\* A lane at work has found every earlier paid attempt recorded, so a call has them all
\* behind it; a done job has its own as well.
Accounted ==
  /\ \A l \in Lanes, i \in DOMAIN calls :
       lane[l].pc \in AtWork /\ calls[i].gen < lane[l].gen => ledger[calls[i].gen] \in Outcomes
  /\ \A i, j \in DOMAIN calls : calls[i].gen < calls[j].gen => ledger[calls[i].gen] \in Outcomes
  /\ job.status = "done" => \A i \in DOMAIN calls : ledger[calls[i].gen] \in Outcomes

EntriesOf(g) == {c \in costs : c.gen = g}

\* An outcome and its cost entry are written together, once.
EntryEach ==
  \A g \in DOMAIN ledger :
    IF ledger[g] \in Outcomes THEN \E c \in costs : EntriesOf(g) = {c} ELSE EntriesOf(g) = {}

Base == TypeOK /\ Counted /\ Placed

IInv ==
  /\ Base
  /\ ActiveIsHeld /\ Calling /\ Priced /\ SpendWithinBudget
  /\ Routed /\ Accounted /\ EntryEach
  /\ BreakerCounts

----------------------------------------------------------------------------
(***************************************************************************)
(* Types.                                                                  *)
(***************************************************************************)
CallRow == [gen : 1..job.gen, status : CallStatuses, charge : 0..MaxCost,
            reported : {0} \cup Bills, bill : {0} \cup Bills]

LaneRow == [pc : {"idle", "reconciling", "refused", "working", "calling", "called",
                  "completing", "failing"},
            gen : 0..job.gen, call : 0..Len(calls),
            outcome : [result : {"none"} \cup Outcomes, cost : Costs]]

JobRow == [status : {"pending", "running", "done", "dead_letter", "cancelled"},
           gen : Nat, attempts : 0..MaxAttempts, live : BOOLEAN]

LEMMA Bounds ==
  /\ MaxCost \in Nat \ {0} /\ MaxAttempts \in Nat \ {0} /\ Budget \in Nat /\ MaxEvents \in Nat
  /\ \A b \in {0} \cup Bills : b \in 0..MaxCost
  BY BillsAssumption, BoundsAssumption

LEMMA TypesUnfold ==
  TypeOK <=> /\ job \in JobRow
             /\ calls \in Seq(CallRow)
             /\ ledger \in Seq(LedgerStates) /\ Len(ledger) = job.gen
             /\ costs \subseteq [gen : 1..job.gen, measured : BOOLEAN, amount : Nat]
             /\ breaker \in [failures : Nat, open : BOOLEAN]
             /\ lane \in [Lanes -> LaneRow]
             /\ events \in 0..MaxEvents
  BY DEF TypeOK, CallRow, LaneRow, JobRow

\* What the types say of the rows, in the form the later proofs use.
LEMMA Rows ==
  ASSUME TypeOK
  PROVE  /\ job.gen \in Nat /\ job.attempts \in 0..MaxAttempts /\ job.live \in BOOLEAN
         /\ DOMAIN calls = 1..Len(calls) /\ Len(calls) \in Nat
         /\ DOMAIN ledger = 1..job.gen
         /\ \A i \in DOMAIN calls :
              /\ calls[i] \in CallRow
              /\ calls[i].gen \in DOMAIN ledger /\ calls[i].status \in CallStatuses
              /\ calls[i].charge \in 0..MaxCost
              /\ calls[i].reported \in {0} \cup Bills /\ calls[i].bill \in {0} \cup Bills
              /\ calls[i].reported \in Nat /\ calls[i].bill \in Nat /\ calls[i].charge \in Nat
         /\ \A l \in Lanes : /\ lane[l] \in LaneRow /\ lane[l].gen \in 0..job.gen
                             /\ lane[l].call \in 0..Len(calls)
<1>1. job \in JobRow /\ calls \in Seq(CallRow) /\ ledger \in Seq(LedgerStates) /\ Len(ledger) = job.gen
      /\ lane \in [Lanes -> LaneRow]
  BY TypesUnfold
<1>2. job.gen \in Nat /\ job.attempts \in 0..MaxAttempts /\ job.live \in BOOLEAN
  BY <1>1 DEF JobRow
<1>3. /\ DOMAIN calls = 1..Len(calls) /\ Len(calls) \in Nat
      /\ DOMAIN ledger = 1..job.gen
      /\ \A i \in DOMAIN calls : calls[i] \in CallRow
  BY <1>1
<1>4. ASSUME NEW i \in DOMAIN calls
      PROVE  /\ calls[i] \in CallRow
             /\ calls[i].gen \in DOMAIN ledger /\ calls[i].status \in CallStatuses
             /\ calls[i].charge \in 0..MaxCost
             /\ calls[i].reported \in {0} \cup Bills /\ calls[i].bill \in {0} \cup Bills
             /\ calls[i].reported \in Nat /\ calls[i].bill \in Nat /\ calls[i].charge \in Nat
  <2>1. calls[i] \in CallRow
    BY <1>3
  <2>2. /\ calls[i].gen \in 1..job.gen /\ calls[i].status \in CallStatuses
        /\ calls[i].charge \in 0..MaxCost
        /\ calls[i].reported \in {0} \cup Bills /\ calls[i].bill \in {0} \cup Bills
    BY <2>1 DEF CallRow
  <2>3. \A b \in {0} \cup Bills : b \in Nat
    BY Bounds
  <2>4. calls[i].charge \in Nat
    BY <2>2, Bounds
  <2> QED
    BY <1>3, <2>1, <2>2, <2>3, <2>4
<1>5. ASSUME NEW l \in Lanes
      PROVE  lane[l] \in LaneRow /\ lane[l].gen \in 0..job.gen /\ lane[l].call \in 0..Len(calls)
  <2>1. lane[l] \in LaneRow
    BY <1>1
  <2> QED
    BY <2>1 DEF LaneRow
<1> QED
  BY <1>2, <1>3, <1>4, <1>5

\* Sums over the calls of an attempt are natural numbers.
LEMMA CallsFinite ==
  ASSUME TypeOK, NEW g
  PROVE  IsFiniteSet(DOMAIN calls) /\ IsFiniteSet(CallsOf(g))
<1>1. IsFiniteSet(DOMAIN calls)
  <2>1. DOMAIN calls = 1..Len(calls) /\ Len(calls) \in Int /\ 1 \in Int
    BY Rows
  <2> QED
    BY <2>1, FS_Interval
<1> QED
  BY <1>1, FS_Subset DEF CallsOf

LEMMA ReportedNat ==
  ASSUME TypeOK, NEW g
  PROVE  Reported(g) \in Nat
<1>1. IsFiniteSet(CallsOf(g)) /\ \A i \in CallsOf(g) : i \in DOMAIN calls
  BY CallsFinite DEF CallsOf
<1> QED
  BY <1>1, Rows, SumNat DEF Reported

LEMMA AmountsTyped ==
  ASSUME TypeOK, NEW g
  PROVE  Unmeasured \in Costs /\ NoOutcome.cost \in Costs /\ MeasuredCost(g) \in Costs
  BY ReportedNat DEF Unmeasured, NoOutcome, Costs, Amount, MeasuredCost

----------------------------------------------------------------------------
(***************************************************************************)
(* What each kind of step does to the job.                                 *)
(***************************************************************************)
ClaimedJob == [status |-> "running", gen |-> job.gen + 1, attempts |-> job.attempts + 1, live |-> TRUE]

Claims ==
  /\ job.status = "pending" /\ job' = ClaimedJob
  /\ ledger' = Append(ledger, "none")
  /\ UNCHANGED <<calls, costs, breaker>>

JobEnds(status) ==
  /\ job.status = "running" /\ job' = Over(status)
  /\ status \in {"pending", "dead_letter", "done"}
  /\ status = "pending" => job.attempts < MaxAttempts

JobIsAsked ==
  \/ job.live /\ job' = [job EXCEPT !.live = FALSE]
  \/ job.status \in {"pending", "dead_letter"} /\ job' = Over("cancelled")
  \/ job.status \in {"dead_letter", "cancelled"} /\ job' = [Over("pending") EXCEPT !.attempts = 0]

LEMMA JobSteps ==
  ASSUME Next
  PROVE  \/ job' = job
         \/ Claims
         \/ \E status \in {"pending", "dead_letter", "done"} : JobEnds(status)
         \/ JobIsAsked
<1>1. ASSUME NEW l \in Lanes, Claim(l) PROVE Claims
  BY <1>1 DEF Claim, Claims, ClaimedJob
<1>2. ASSUME NEW l \in Lanes, Recover(l)
      PROVE  \E status \in {"pending", "dead_letter", "done"} : JobEnds(status)
  BY <1>2 DEF Recover, JobEnds, Requeued
<1>3. ASSUME NEW l \in Lanes, Reconcile(l) \/ Route(l) \/ Reserve(l) \/ Send(l) \/ Settle(l) \/ End(l)
      PROVE  job' = job
  BY <1>3 DEF Reconcile, Route, Reserve, Send, Settle, End, books
<1>4. ASSUME NEW l \in Lanes, Complete(l)
      PROVE  job' = job \/ \E status \in {"pending", "dead_letter", "done"} : JobEnds(status)
  BY <1>4 DEF Complete, JobEnds, Held
<1>5. ASSUME NEW l \in Lanes, FailJob(l)
      PROVE  job' = job \/ \E status \in {"pending", "dead_letter", "done"} : JobEnds(status)
  BY <1>5 DEF FailJob, JobEnds, Held, Requeued
<1>6. ASSUME NEW l \in Lanes, Trouble(l) PROVE job' = job
  BY <1>6 DEF Trouble, FailEarly, Abort, RefuseCompletion, Crash
<1>7. ASSUME Lapse \/ CancelJob \/ RetryJob PROVE JobIsAsked
  BY <1>7 DEF Lapse, CancelJob, RetryJob, JobIsAsked
<1>8. ASSUME Cooldown PROVE job' = job
  BY <1>8 DEF Cooldown
<1> QED
  BY <1>1, <1>2, <1>3, <1>4, <1>5, <1>6, <1>7, <1>8 DEF Next, Attempt

LEMMA OverTyped ==
  ASSUME job \in JobRow, NEW s \in {"pending", "running", "done", "dead_letter", "cancelled"}
  PROVE  /\ Over(s) \in JobRow
         /\ Over(s).status = s /\ Over(s).live = FALSE /\ Over(s).gen = job.gen
         /\ Over(s).attempts = job.attempts
  BY DEF Over, JobRow

LEMMA OverCounted ==
  ASSUME job \in JobRow, NEW s \in {"pending", "dead_letter", "done", "cancelled"}, job' = Over(s),
         s = "pending" => job.attempts < MaxAttempts
  PROVE  Counted'
<1>1. job'.status = s /\ job'.live = FALSE /\ job'.attempts = job.attempts
  BY OverTyped
<1> QED
  BY <1>1 DEF Counted

LEMMA JobTyped ==
  ASSUME Base, Next
  PROVE  /\ job' \in JobRow /\ Counted'
         /\ job.gen \in Nat /\ job'.gen \in Nat /\ job.gen <= job'.gen
<1>1. job \in JobRow /\ job.gen \in Nat /\ job.attempts \in 0..MaxAttempts
  BY TypesUnfold, Rows DEF Base
<1>2. CASE job' = job
  BY <1>1, <1>2 DEF Base, Counted
<1>3. CASE Claims
  <2>1. job.attempts + 1 \in 0..MaxAttempts /\ job.gen + 1 \in Nat
    BY <1>1, <1>3, Bounds DEF Base, Counted, Claims
  <2> QED
    BY <1>1, <1>3, <2>1 DEF ClaimedJob, JobRow, Counted, Claims
<1>4. CASE \E status \in {"pending", "dead_letter", "done"} : JobEnds(status)
  <2>1. PICK s \in {"pending", "dead_letter", "done"} : JobEnds(s)
    BY <1>4
  <2>2. job' = Over(s) /\ (s = "pending" => job.attempts < MaxAttempts)
    BY <2>1 DEF JobEnds
  <2> QED
    <3>1. Counted'
      BY <1>1, <2>2, OverCounted
    <3>2. job' \in JobRow /\ job'.gen = job.gen
      BY <1>1, <2>2, OverTyped
    <3> QED
      BY <1>1, <3>1, <3>2
<1>5. CASE JobIsAsked
  <2>1. 0 \in 0..MaxAttempts /\ 0 < MaxAttempts
    BY Bounds
  <2> QED
    <3>1. CASE job.live /\ job' = [job EXCEPT !.live = FALSE]
      <4>1. /\ job' \in JobRow /\ job'.live = FALSE /\ job'.gen = job.gen
            /\ job'.status = job.status /\ job'.attempts = job.attempts
        BY <1>1, <3>1 DEF JobRow
      <4>2. Counted'
        BY <4>1 DEF Base, Counted
      <4> QED
        BY <1>1, <4>1, <4>2
    <3>2. CASE job' = Over("cancelled")
      BY <1>1, <3>2, OverTyped, OverCounted
    <3>3. CASE job' = [Over("pending") EXCEPT !.attempts = 0]
      <4>1. Over("pending") \in JobRow
        BY <1>1, OverTyped
      <4>2. job' \in JobRow /\ job'.attempts = 0 /\ job'.live = FALSE /\ job'.gen = job.gen
        BY <1>1, <2>1, <3>3, <4>1, OverTyped DEF JobRow
      <4> QED
        <5>1. Counted'
          BY <2>1, <4>2 DEF Counted
        <5> QED
          BY <1>1, <4>2, <5>1
    <3> QED
      BY <1>5, <3>1, <3>2, <3>3 DEF JobIsAsked
<1> QED
  BY <1>2, <1>3, <1>4, <1>5, JobSteps

\* Only a claim begins a generation.
LEMMA GenSteps ==
  ASSUME Base, Next
  PROVE  Claims \/ job'.gen = job.gen
<1>1. job \in JobRow
  BY TypesUnfold DEF Base
<1>2. ASSUME NEW s \in {"pending", "dead_letter", "done"}, JobEnds(s) PROVE job'.gen = job.gen
  BY <1>1, <1>2, OverTyped DEF JobEnds
<1>3. CASE JobIsAsked
  <2>1. Over("pending").gen = job.gen /\ Over("pending") \in JobRow /\ Over("cancelled").gen = job.gen
    BY <1>1, OverTyped
  <2> QED
    BY <1>1, <1>3, <2>1 DEF JobIsAsked, JobRow
<1> QED
  BY <1>2, <1>3, JobSteps

----------------------------------------------------------------------------
(***************************************************************************)
(* What each kind of step does to the calls.                               *)
(***************************************************************************)
Reserves(l) ==
  /\ lane[l].pc = "working" /\ Held(l) /\ Affordable
  /\ calls' = Append(calls, Call(job.gen))
  /\ lane' = [lane EXCEPT ![l].pc = "calling", ![l].call = Len(calls) + 1]
  /\ UNCHANGED <<job, ledger, costs, breaker>>

Sends(l) ==
  /\ lane[l].pc = "calling"
  /\ \E b \in {0} \cup Bills : calls' = [calls EXCEPT ![lane[l].call].bill = b]
  /\ lane' = [lane EXCEPT ![l].pc = "called"]
  /\ UNCHANGED <<job, ledger, costs, breaker>>

Settles(l) ==
  /\ lane[l].pc = "called" /\ Held(l)
  /\ \E c \in Settlements(calls[lane[l].call]) : calls' = [calls EXCEPT ![lane[l].call] = c]
  /\ lane' = [lane EXCEPT ![l].pc = "working", ![l].call = 0]
  /\ UNCHANGED <<job, ledger, costs, breaker>>

\* The claim ends, and with it what it had open.
Closes == SettleUnknown /\ job.status = "running" /\ \E s \in {"pending", "dead_letter"} : job' = Over(s)

LEMMA CallSteps ==
  ASSUME Next
  PROVE  \/ calls' = calls
         \/ \E l \in Lanes : Reserves(l) \/ Sends(l) \/ Settles(l)
         \/ Closes
<1>1. ASSUME NEW l \in Lanes, Reserve(l) PROVE calls' = calls \/ Reserves(l)
  BY <1>1 DEF Reserve, Reserves, Held
<1>2. ASSUME NEW l \in Lanes, Send(l) PROVE Sends(l)
  BY <1>2 DEF Send, Sends, Go
<1>3. ASSUME NEW l \in Lanes, Settle(l) PROVE calls' = calls \/ Settles(l)
  BY <1>3 DEF Settle, Settles
<1>4. ASSUME NEW l \in Lanes, Recover(l) PROVE Closes
  BY <1>4 DEF Recover, Closes
<1>5. ASSUME NEW l \in Lanes, FailJob(l) PROVE calls' = calls \/ Closes
  BY <1>5 DEF FailJob, Closes, Held, books
<1>6. ASSUME NEW l \in Lanes, Claim(l) \/ Reconcile(l) \/ Route(l) \/ End(l) \/ Complete(l) \/ Trouble(l)
      PROVE  calls' = calls
  BY <1>6 DEF Claim, Reconcile, Route, End, Complete, Trouble, FailEarly, Abort, RefuseCompletion, Crash, books
<1>7. ASSUME Lapse \/ CancelJob \/ RetryJob \/ Cooldown PROVE calls' = calls
  BY <1>7 DEF Lapse, CancelJob, RetryJob, Cooldown, books
<1> QED
  BY <1>1, <1>2, <1>3, <1>4, <1>5, <1>6, <1>7 DEF Next, Attempt

LEMMA SettlementRows ==
  ASSUME NEW c \in CallRow, NEW s \in Settlements(c)
  PROVE  /\ s \in CallRow /\ s.gen = c.gen /\ s.bill = c.bill
         /\ s.status \in {"failed", "succeeded"}
         /\ s.status = "failed" => s.charge = MaxCost
         /\ s.status = "succeeded" => s.charge = s.bill
<1>1. 0 \in 0..MaxCost /\ MaxCost \in 0..MaxCost
  BY Bounds
<1>2. c.bill \in {0} \cup Bills /\ c.bill \in 0..MaxCost
  BY Bounds DEF CallRow
<1>3. CASE s = Settled(c, "failed", 0)
  BY <1>1, <1>3 DEF Settled, CallRow, CallStatuses
<1>4. CASE s = Settled(c, "failed", c.bill)
  BY <1>1, <1>2, <1>4 DEF Settled, CallRow, CallStatuses
<1>5. CASE s = Settled(c, "succeeded", c.bill)
  BY <1>1, <1>2, <1>5 DEF Settled, CallRow, CallStatuses
<1> QED
  BY <1>3, <1>4, <1>5 DEF Settlements

LEMMA WrittenRows ==
  ASSUME TypeOK, NEW i \in DOMAIN calls
  PROVE  /\ Written(i) \in CallRow /\ Written(i).gen = calls[i].gen /\ Written(i).bill = calls[i].bill
         /\ i \in Active(job.gen) => Written(i).status = "unknown" /\ Written(i).charge = MaxCost
                                     /\ Written(i).reported = calls[i].reported
         /\ i \notin Active(job.gen) => Written(i) = calls[i]
<1>1. calls[i] \in CallRow /\ MaxCost \in 0..MaxCost
  BY Rows, Bounds
<1> QED
  BY <1>1 DEF Written, CallRow, CallStatuses

LEMMA CallRowGrows ==
  ASSUME TypeOK, job.gen \in Nat, job'.gen \in Nat, job.gen <= job'.gen, NEW c \in CallRow
  PROVE  c \in CallRow'
  BY DEF CallRow

LEMMA CallsTyped ==
  ASSUME Base, Calling, Next
  PROVE  /\ calls' \in Seq(CallRow') /\ Len(calls') \in Nat /\ Len(calls) <= Len(calls')
         /\ \A i \in DOMAIN calls : i \in DOMAIN calls' /\ calls'[i].gen = calls[i].gen
<1>1. /\ calls \in Seq(CallRow) /\ Len(calls) \in Nat /\ DOMAIN calls = 1..Len(calls)
      /\ \A i \in DOMAIN calls : calls[i] \in CallRow
  BY TypesUnfold, Rows DEF Base
<1>2. \A c \in CallRow : c \in CallRow'
  BY JobTyped, CallRowGrows DEF Base
<1>3. CASE calls' = calls
  <2>1. calls \in Seq(CallRow')
    BY <1>1, <1>2
  <2> QED
    BY <1>1, <1>3, <2>1
<1>4. ASSUME NEW l \in Lanes, Reserves(l)
      PROVE  /\ calls' \in Seq(CallRow') /\ Len(calls') \in Nat /\ Len(calls) <= Len(calls')
             /\ \A i \in DOMAIN calls : i \in DOMAIN calls' /\ calls'[i].gen = calls[i].gen
  <2>1. job.gen \in 1..job.gen
    BY <1>4, Rows DEF Reserves, Held, Base, Placed
  <2>2. Call(job.gen) \in CallRow
    BY <2>1, Bounds DEF Call, CallRow, CallStatuses
  <2>3. Append(calls, Call(job.gen)) \in Seq(CallRow')
    BY <1>1, <1>2, <2>2
  <2>4. calls' = Append(calls, Call(job.gen))
    BY <1>4 DEF Reserves
  <2> QED
    BY <1>1, <2>3, <2>4
<1>5. ASSUME NEW l \in Lanes, Sends(l) \/ Settles(l)
      PROVE  /\ calls' \in Seq(CallRow') /\ Len(calls') \in Nat /\ Len(calls) <= Len(calls')
             /\ \A i \in DOMAIN calls : i \in DOMAIN calls' /\ calls'[i].gen = calls[i].gen
  <2> DEFINE n == lane[l].call
  <2>1. n \in DOMAIN calls
    BY <1>5 DEF Sends, Settles, Calling, CallsOf
  <2>2. PICK c \in CallRow : calls' = [calls EXCEPT ![n] = c] /\ c.gen = calls[n].gen
    <3>1. CASE Sends(l)
      <4>1. PICK b \in {0} \cup Bills : calls' = [calls EXCEPT ![n].bill = b]
        BY <3>1 DEF Sends
      <4>2. [calls[n] EXCEPT !.bill = b] \in CallRow /\ [calls[n] EXCEPT !.bill = b].gen = calls[n].gen
        BY <1>1, <2>1 DEF CallRow
      <4> QED
        BY <4>1, <4>2
    <3>2. CASE Settles(l)
      <4>1. PICK c \in Settlements(calls[n]) : calls' = [calls EXCEPT ![n] = c]
        BY <3>2 DEF Settles
      <4> QED
        BY <1>1, <2>1, <4>1, SettlementRows
    <3> QED
      BY <1>5, <3>1, <3>2
  <2> HIDE DEF n
  <2>3. [calls EXCEPT ![n] = c] \in Seq(CallRow)
    BY <1>1, <2>1
  <2>4. [calls EXCEPT ![n] = c] \in Seq(CallRow')
    BY <1>2, <2>3
  <2> QED
    BY <1>1, <2>1, <2>2, <2>4
<1>6. ASSUME Closes
      PROVE  /\ calls' \in Seq(CallRow') /\ Len(calls') \in Nat /\ Len(calls) <= Len(calls')
             /\ \A i \in DOMAIN calls : i \in DOMAIN calls' /\ calls'[i].gen = calls[i].gen
  <2>1. calls' = [i \in 1..Len(calls) |-> Written(i)]
    BY <1>1, <1>6 DEF Closes, SettleUnknown
  <2>2. \A i \in 1..Len(calls) : Written(i) \in CallRow /\ Written(i).gen = calls[i].gen
    BY <1>1, WrittenRows DEF Base
  <2>3. [i \in 1..Len(calls) |-> Written(i)] \in Seq(CallRow')
    BY <1>1, <1>2, <2>2
  <2>4. Len(calls') = Len(calls) /\ DOMAIN calls' = 1..Len(calls)
    BY <1>1, <2>1, <2>3
  <2> QED
    BY <1>1, <2>1, <2>2, <2>3, <2>4
<1> QED
  BY <1>3, <1>4, <1>5, <1>6, CallSteps

----------------------------------------------------------------------------
(***************************************************************************)
(* What each kind of step does to the ledger and the cost entries.         *)
(***************************************************************************)
Routes(l, s) ==
  /\ lane[l].pc = "reconciling" /\ Lost(lane[l].gen) = {}
  /\ ledger' = [ledger EXCEPT ![lane[l].gen] = s]
  /\ lane' = [lane EXCEPT ![l].pc = IF s = "handoff" THEN "refused" ELSE "working"]
  /\ UNCHANGED <<job, calls, costs, breaker>>

Applies(l) ==
  /\ lane[l].pc \in {"completing", "failing", "refused"}
  /\ Held(l) /\ lane[l].outcome.result # "none"
  /\ Apply(l)
  /\ lane' = [lane EXCEPT ![l] = Idle]
  /\ \E status \in {"pending", "dead_letter", "done"} : JobEnds(status)

\* Neither outcomes, nor cost entries, nor the failures the breaker counts.
BooksKept == UNCHANGED <<ledger, costs>> /\ breaker'.failures = breaker.failures

LEMMA LedgerSteps ==
  ASSUME TypeOK, Next
  PROVE  \/ BooksKept
         \/ Claims
         \/ \E l \in Lanes : Applies(l) \/ \E s \in {"handoff", "pending"} : Routes(l, s)
<1>1. ASSUME NEW l \in Lanes, Claim(l) PROVE Claims
  BY <1>1 DEF Claim, Claims, ClaimedJob
<1>2. ASSUME NEW l \in Lanes, Route(l) PROVE \E s \in {"handoff", "pending"} : Routes(l, s)
  <2>1. CASE breaker.open
    BY <1>2, <2>1 DEF Route, Routes, Go
  <2>2. CASE ~breaker.open
    BY <1>2, <2>2 DEF Route, Routes, Go
  <2> QED
    BY <2>1, <2>2
<1>3. ASSUME NEW l \in Lanes, Reconcile(l) PROVE BooksKept
  BY <1>3 DEF Reconcile, books, BooksKept
<1>4. ASSUME NEW l \in Lanes, Complete(l) \/ FailJob(l)
      PROVE  BooksKept \/ Applies(l)
  <2>1. CASE lane[l].outcome.result = "none"
    BY <1>4, <2>1 DEF Complete, FailJob, Apply, books, BooksKept
  <2>2. CASE lane[l].outcome.result # "none"
    <3>1. CASE ~Held(l)
      BY <1>4, <3>1 DEF Complete, FailJob, books, BooksKept
    <3>2. CASE Held(l)
      <4>1. \E status \in {"pending", "dead_letter", "done"} : JobEnds(status)
        BY <1>4, <3>2 DEF Complete, FailJob, JobEnds, Held, Requeued
      <4>2. /\ Apply(l) /\ lane' = [lane EXCEPT ![l] = Idle]
            /\ lane[l].pc \in {"completing", "failing", "refused"}
        BY <1>4, <3>2 DEF Complete, FailJob, Stop
      <4> QED
        BY <2>2, <3>2, <4>1, <4>2 DEF Applies
    <3> QED
      BY <3>1, <3>2
  <2> QED
    BY <2>1, <2>2
<1>5. ASSUME NEW l \in Lanes, Recover(l) \/ Reserve(l) \/ Send(l) \/ Settle(l) \/ End(l) \/ Trouble(l)
      PROVE  BooksKept
  BY <1>5 DEF Recover, Reserve, Send, Settle, End, Trouble, FailEarly, Abort, RefuseCompletion, Crash, books,
           BooksKept
<1>6. ASSUME Lapse \/ CancelJob \/ RetryJob PROVE BooksKept
  BY <1>6 DEF Lapse, CancelJob, RetryJob, books, BooksKept
<1>7. ASSUME Cooldown PROVE BooksKept
  BY <1>7, TypesUnfold DEF Cooldown, BooksKept
<1> QED
  BY <1>1, <1>2, <1>3, <1>4, <1>5, <1>6, <1>7 DEF Next, Attempt

LEMMA LedgerTyped ==
  ASSUME Base, Routed, Next
  PROVE  /\ ledger' \in Seq(LedgerStates) /\ Len(ledger') = job'.gen
         /\ costs' \subseteq [gen : 1..job'.gen, measured : BOOLEAN, amount : Nat]
<1>1. /\ ledger \in Seq(LedgerStates) /\ Len(ledger) = job.gen /\ job.gen \in Nat
      /\ costs \subseteq [gen : 1..job.gen, measured : BOOLEAN, amount : Nat]
  BY TypesUnfold, Rows DEF Base
<1>2. job'.gen \in Nat /\ job.gen <= job'.gen
  BY JobTyped
<1>3. costs \subseteq [gen : 1..job'.gen, measured : BOOLEAN, amount : Nat]
  BY <1>1, <1>2
<1>4. CASE UNCHANGED <<ledger, costs>> /\ job'.gen = job.gen
  BY <1>1, <1>4
<1>5. CASE Claims
  BY <1>1, <1>3, <1>5 DEF Claims, ClaimedJob, LedgerStates
<1>6. ASSUME NEW l \in Lanes, NEW s \in {"handoff", "pending"}, Routes(l, s)
      PROVE  /\ ledger' \in Seq(LedgerStates) /\ Len(ledger') = job'.gen
             /\ costs' \subseteq [gen : 1..job'.gen, measured : BOOLEAN, amount : Nat]
  <2>1. s \in LedgerStates
    BY DEF LedgerStates
  <2> DEFINE g == lane[l].gen
  <2>2. ledger' = [ledger EXCEPT ![g] = s] /\ job' = job /\ costs' = costs
    BY <1>6 DEF Routes
  <2>3. g \in 1..job.gen
    BY <1>6, Rows DEF Routes, Base, Placed
  <2> HIDE DEF g
  <2> QED
    BY <1>1, <2>1, <2>2, <2>3
<1>7. ASSUME NEW g \in DOMAIN ledger, NEW s \in Outcomes, NEW cost \in Costs,
             ledger' = [ledger EXCEPT ![g] = s], costs' = costs \cup {Entry(g, cost)}, job'.gen = job.gen
      PROVE  /\ ledger' \in Seq(LedgerStates) /\ Len(ledger') = job'.gen
             /\ costs' \subseteq [gen : 1..job'.gen, measured : BOOLEAN, amount : Nat]
  <2>1. Entry(g, cost) \in [gen : 1..job.gen, measured : BOOLEAN, amount : Nat]
    BY <1>1 DEF Entry, Costs
  <2>2. s \in LedgerStates
    BY DEF LedgerStates
  <2> QED
    BY <1>1, <1>7, <2>1, <2>2
<1>9. ASSUME NEW l \in Lanes, Applies(l)
      PROVE  /\ ledger' \in Seq(LedgerStates) /\ Len(ledger') = job'.gen
             /\ costs' \subseteq [gen : 1..job'.gen, measured : BOOLEAN, amount : Nat]
  <2> DEFINE o == lane[l].outcome
             g == lane[l].gen
  <2>1. g \in DOMAIN ledger
    BY <1>9, Rows DEF Applies, Held, Base, Placed
  <2>2. o.result \in Outcomes /\ o.cost \in Costs
    <3>1. lane[l] \in LaneRow
      BY Rows DEF Base
    <3>2. o \in [result : {"none"} \cup Outcomes, cost : Costs]
      BY <3>1 DEF LaneRow
    <3> QED
      BY <1>9, <3>2 DEF Applies
  <2>3. ledger' = [ledger EXCEPT ![g] = o.result] /\ costs' = costs \cup {Entry(g, o.cost)}
    BY <1>9 DEF Applies, Apply
  <2>4. job'.gen = job.gen
    <3>1. job \in JobRow
      BY TypesUnfold DEF Base
    <3> QED
      BY <1>9, <3>1, OverTyped DEF Applies, JobEnds
  <2> HIDE DEF o, g
  <2> QED
    BY <1>7, <2>1, <2>2, <2>3, <2>4
<1>10. BooksKept => UNCHANGED <<ledger, costs>> /\ (job'.gen = job.gen \/ Claims)
  BY GenSteps DEF BooksKept
<1> QED
  BY <1>4, <1>5, <1>6, <1>9, <1>10, LedgerSteps DEF Base

----------------------------------------------------------------------------
(***************************************************************************)
(* What each kind of step does to the lanes.                               *)
(***************************************************************************)
Begins(l) ==
  /\ lane[l].pc = "idle" /\ Claims
  /\ lane' = [lane EXCEPT ![l] = Fresh("reconciling", job.gen + 1)]

Fails(l) ==
  /\ lane[l].pc \in {"reconciling", "completing"}
  /\ \E pc \in {"failing", "refused"} : lane' = [lane EXCEPT ![l].pc = pc]
  /\ UNCHANGED <<job, calls, ledger, costs, breaker>>

Ends(l, pc, result, cost) ==
  /\ lane[l].pc \in {"working", "calling", "called"}
  /\ pc = "completing" => lane[l].pc = "working" /\ result = "succeeded"
  /\ lane' = [lane EXCEPT ![l] = [pc |-> pc, gen |-> lane[l].gen, call |-> 0,
                                  outcome |-> [result |-> result, cost |-> cost]]]
  /\ UNCHANGED <<job, calls, ledger, costs, breaker>>

Results == {"succeeded", "failed", "unavailable"}

LaneEnds(l) == \E pc \in {"failing", "completing"}, result \in Results, cost \in Costs : Ends(l, pc, result, cost)

Stops(l) == lane[l].pc # "idle" /\ lane' = [lane EXCEPT ![l] = Idle]

LEMMA FinishEnds ==
  ASSUME TypeOK, NEW l \in Lanes, NEW pc \in {"failing", "completing"}, NEW result, NEW cost,
         Finish(l, pc, result, cost)
  PROVE  lane' = [lane EXCEPT ![l] = [pc |-> pc, gen |-> lane[l].gen, call |-> 0,
                                      outcome |-> [result |-> result, cost |-> cost]]]
<1> DEFINE o == [result |-> result, cost |-> cost]
           r1 == [lane[l] EXCEPT !.pc = pc]
           r2 == [r1 EXCEPT !.call = 0]
           r3 == [r2 EXCEPT !.outcome = o]
<1>1. lane[l] \in LaneRow /\ lane \in [Lanes -> LaneRow]
  BY TypesUnfold, Rows
<1> HIDE DEF o
<1>2. lane' = [lane EXCEPT ![l] = r3]
  BY <1>1 DEF Finish, o
<1>3. r1 = [pc |-> pc, gen |-> lane[l].gen, call |-> lane[l].call, outcome |-> lane[l].outcome]
  BY <1>1 DEF LaneRow
<1> HIDE DEF r1
<1>4. r2 = [pc |-> pc, gen |-> lane[l].gen, call |-> 0, outcome |-> lane[l].outcome]
  BY <1>3
<1> HIDE DEF r2
<1>5. r3 = [pc |-> pc, gen |-> lane[l].gen, call |-> 0, outcome |-> o]
  BY <1>4
<1> QED
  BY <1>2, <1>5 DEF o

LEMMA LaneSteps ==
  ASSUME TypeOK, Next
  PROVE  \/ lane' = lane
         \/ \E l \in Lanes :
              \/ Begins(l) \/ Fails(l) \/ Reserves(l) \/ Sends(l) \/ Settles(l) \/ LaneEnds(l) \/ Stops(l)
              \/ \E s \in {"handoff", "pending"} : Routes(l, s)
<1>1. ASSUME NEW l \in Lanes, Claim(l) PROVE Begins(l)
  BY <1>1 DEF Claim, Begins, Claims, ClaimedJob
<1>2. ASSUME NEW l \in Lanes, Reconcile(l) PROVE Fails(l)
  BY <1>2 DEF Reconcile, Fails, Go, books
<1>3. ASSUME NEW l \in Lanes, Route(l) PROVE \E s \in {"handoff", "pending"} : Routes(l, s)
  <2>1. CASE breaker.open
    BY <1>3, <2>1 DEF Route, Routes, Go
  <2>2. CASE ~breaker.open
    BY <1>3, <2>2 DEF Route, Routes, Go
  <2> QED
    BY <2>1, <2>2
<1>4. ASSUME NEW l \in Lanes, Throw(l), lane[l].pc \in {"working", "calling", "called"},
             UNCHANGED <<job, calls, ledger, costs, breaker>>
      PROVE  LaneEnds(l)
  <2>1. Ends(l, "failing", "failed", Unmeasured)
    BY <1>4, FinishEnds DEF Throw, Ends
  <2> QED
    BY <2>1, AmountsTyped DEF LaneEnds, Results
<1>5. ASSUME NEW l \in Lanes, Reserve(l) PROVE Reserves(l) \/ LaneEnds(l)
  <2>1. CASE Held(l) /\ Affordable
    BY <1>5, <2>1 DEF Reserve, Reserves, Held
  <2>2. CASE ~(Held(l) /\ Affordable)
    BY <1>4, <1>5, <2>2 DEF Reserve
  <2> QED
    BY <2>1, <2>2
<1>6. ASSUME NEW l \in Lanes, Send(l) PROVE Sends(l)
  BY <1>6 DEF Send, Sends, Go
<1>7. ASSUME NEW l \in Lanes, Settle(l) PROVE Settles(l) \/ LaneEnds(l)
  <2>1. CASE Held(l)
    BY <1>7, <2>1 DEF Settle, Settles
  <2>2. CASE ~Held(l)
    BY <1>4, <1>7, <2>2 DEF Settle
  <2> QED
    BY <2>1, <2>2
<1>8. ASSUME NEW l \in Lanes, End(l) PROVE LaneEnds(l)
  <2> DEFINE cost == MeasuredCost(lane[l].gen)
  <2>1. cost \in Costs
    BY AmountsTyped
  <2>2. PICK pc \in {"failing", "completing"}, result \in Results :
          /\ Finish(l, pc, result, cost) /\ (pc = "completing" => result = "succeeded")
    BY <1>8 DEF End, Results
  <2>3. Ends(l, pc, result, cost)
    BY <1>8, <2>2, FinishEnds DEF End, Ends, books
  <2> QED
    BY <2>1, <2>3 DEF LaneEnds
<1>9. ASSUME NEW l \in Lanes, Complete(l) \/ FailJob(l) PROVE Stops(l) \/ Fails(l)
  BY <1>9 DEF Complete, FailJob, Stops, Stop, Fails, Go
<1>10. ASSUME NEW l \in Lanes, Trouble(l) PROVE Fails(l) \/ LaneEnds(l) \/ Stops(l)
  <2>1. CASE FailEarly(l) \/ RefuseCompletion(l)
    BY <2>1 DEF FailEarly, RefuseCompletion, Fails, Go, books
  <2>2. CASE Abort(l)
    BY <1>4, <2>2 DEF Abort, books
  <2>3. CASE Crash(l)
    BY <2>3 DEF Crash, Stops, Stop
  <2> QED
    BY <1>10, <2>1, <2>2, <2>3 DEF Trouble
<1>11. ASSUME NEW l \in Lanes, Recover(l) PROVE lane' = lane
  BY <1>11 DEF Recover
<1>12. ASSUME Lapse \/ CancelJob \/ RetryJob \/ Cooldown PROVE lane' = lane
  BY <1>12 DEF Lapse, CancelJob, RetryJob, Cooldown
<1> QED
  BY <1>1, <1>2, <1>3, <1>5, <1>6, <1>7, <1>8, <1>9, <1>10, <1>11, <1>12 DEF Next, Attempt

\* A changed lane is typed when its new row is; the others keep theirs.
LEMMA LaneRowGrows ==
  ASSUME job.gen \in Nat, job'.gen \in Nat, job.gen <= job'.gen,
         Len(calls) \in Nat, Len(calls') \in Nat, Len(calls) <= Len(calls')
  PROVE  \A r \in LaneRow : r \in LaneRow'
<1> SUFFICES ASSUME NEW r \in LaneRow PROVE r \in LaneRow'
  OBVIOUS
<1>1. 0..job.gen \subseteq 0..job'.gen /\ 0..Len(calls) \subseteq 0..Len(calls')
  OBVIOUS
<1> QED
  BY <1>1 DEF LaneRow

LEMMA LaneTyped ==
  ASSUME Base, Calling, Next
  PROVE  lane' \in [Lanes -> LaneRow']
<1>1. /\ lane \in [Lanes -> LaneRow] /\ job.gen \in Nat /\ Len(calls) \in Nat
      /\ \A l \in Lanes : lane[l] \in LaneRow
  BY TypesUnfold, Rows DEF Base
<1>2. /\ job'.gen \in Nat /\ job.gen <= job'.gen
      /\ Len(calls') \in Nat /\ Len(calls) <= Len(calls')
  BY JobTyped, CallsTyped
<1>3. \A r \in LaneRow : r \in LaneRow'
  BY <1>1, <1>2, LaneRowGrows
<1>4. lane \in [Lanes -> LaneRow']
  BY <1>1, <1>3
<1>5. ASSUME NEW l \in Lanes, NEW r \in LaneRow', lane' = [lane EXCEPT ![l] = r]
      PROVE  lane' \in [Lanes -> LaneRow']
  BY <1>4, <1>5
<1>6. CASE lane' = lane
  BY <1>4, <1>6
<1>7. ASSUME NEW l \in Lanes, Begins(l) PROVE lane' \in [Lanes -> LaneRow']
  <2>1. job'.gen = job.gen + 1
    BY <1>7 DEF Begins, Claims, ClaimedJob
  <2>2. Fresh("reconciling", job.gen + 1) \in LaneRow'
    <3>1. NoOutcome \in [result : {"none"} \cup Outcomes, cost : Costs]
      BY AmountsTyped DEF NoOutcome, Base
    <3>2. job.gen + 1 \in 0..job'.gen /\ 0 \in 0..Len(calls')
      BY <1>1, <1>2, <2>1
    <3> QED
      BY <3>1, <3>2 DEF Fresh, LaneRow
  <2> QED
    BY <1>5, <1>7, <2>2 DEF Begins
<1>8. ASSUME NEW l \in Lanes, NEW pc \in {"failing", "refused", "working", "called"},
             lane' = [lane EXCEPT ![l].pc = pc]
      PROVE  lane' \in [Lanes -> LaneRow']
  <2>1. [lane[l] EXCEPT !.pc = pc] \in LaneRow
    BY <1>1 DEF LaneRow
  <2> QED
    BY <1>3, <1>5, <1>8, <2>1
<1>9. ASSUME NEW l \in Lanes, NEW pc \in {"calling", "working"}, NEW n \in 0..Len(calls'),
             lane' = [lane EXCEPT ![l].pc = pc, ![l].call = n]
      PROVE  lane' \in [Lanes -> LaneRow']
  <2> DEFINE r1 == [lane[l] EXCEPT !.pc = pc]
             r2 == [r1 EXCEPT !.call = n]
  <2>1. r1 \in LaneRow'
    BY <1>1, <1>3 DEF LaneRow
  <2>2. lane' = [lane EXCEPT ![l] = r2]
    BY <1>1, <1>9
  <2> HIDE DEF r1
  <2>3. r2 \in LaneRow'
    BY <2>1 DEF LaneRow
  <2> HIDE DEF r2
  <2> QED
    BY <1>5, <2>2, <2>3
<1>10. ASSUME NEW l \in Lanes, Fails(l) \/ Sends(l) \/ \E s \in {"handoff", "pending"} : Routes(l, s)
       PROVE  lane' \in [Lanes -> LaneRow']
  BY <1>8, <1>10 DEF Fails, Sends, Routes
<1>11. ASSUME NEW l \in Lanes, Reserves(l) PROVE lane' \in [Lanes -> LaneRow']
  <2>1. Len(calls) + 1 \in 0..Len(calls')
    BY <1>1, <1>11 DEF Reserves
  <2> QED
    BY <1>9, <1>11, <2>1 DEF Reserves
<1>12. ASSUME NEW l \in Lanes, Settles(l) PROVE lane' \in [Lanes -> LaneRow']
  <2>1. 0 \in 0..Len(calls')
    BY <1>2
  <2> QED
    BY <1>9, <1>12, <2>1 DEF Settles
<1>13. ASSUME NEW l \in Lanes, LaneEnds(l) PROVE lane' \in [Lanes -> LaneRow']
  <2>1. PICK pc \in {"failing", "completing"}, result \in Results, cost \in Costs : Ends(l, pc, result, cost)
    BY <1>13 DEF LaneEnds
  <2> DEFINE o == [result |-> result, cost |-> cost]
             r == [pc |-> pc, gen |-> lane[l].gen, call |-> 0, outcome |-> o]
  <2>2. o \in [result : {"none"} \cup Outcomes, cost : Costs]
    BY DEF Results, Outcomes
  <2>3. lane' = [lane EXCEPT ![l] = r]
    BY <2>1 DEF Ends
  <2> HIDE DEF o
  <2>4. r \in LaneRow
    BY <1>1, <2>2 DEF LaneRow
  <2> HIDE DEF r
  <2> QED
    BY <1>3, <1>5, <2>3, <2>4
<1>14. ASSUME NEW l \in Lanes, Stops(l) PROVE lane' \in [Lanes -> LaneRow']
  <2>0. /\ 0 \in 0..job.gen /\ 0 \in 0..Len(calls)
        /\ NoOutcome \in [result : {"none"} \cup Outcomes, cost : Costs]
    BY <1>1, AmountsTyped DEF NoOutcome, Base
  <2>1. Idle \in LaneRow
    BY <2>0 DEF Idle, Fresh, LaneRow
  <2> QED
    BY <1>3, <1>5, <1>14, <2>1 DEF Stops
<1> QED
  BY <1>6, <1>7, <1>10, <1>11, <1>12, <1>13, <1>14, LaneSteps DEF Base

(***************************************************************************)
(* Types, claims and places: the first part of the invariant.              *)
(***************************************************************************)
LEMMA OthersTyped ==
  ASSUME TypeOK, Next
  PROVE  breaker' \in [failures : Nat, open : BOOLEAN] /\ events' \in 0..MaxEvents
<1>1. breaker \in [failures : Nat, open : BOOLEAN] /\ events \in 0..MaxEvents
  BY TypesUnfold
<1>2. events' \in 0..MaxEvents
  <2>1. events' = events \/ Event
    BY DEF Next, Claim, Recover, Attempt, Reconcile, Route, Reserve, Send, Settle, End, Complete, FailJob,
           Trouble, FailEarly, Abort, RefuseCompletion, Crash, Lapse, Cooldown, CancelJob, RetryJob
  <2> QED
    BY <1>1, <2>1, Bounds DEF Event
<1>3. \A result \in {"none"} \cup Outcomes : Fed(result) \in [failures : Nat, open : BOOLEAN]
  BY <1>1 DEF Fed
<1>4. breaker' = breaker \/ (\E l \in Lanes : breaker' = Fed(lane[l].outcome.result))
      \/ breaker' = [breaker EXCEPT !.open = FALSE]
  BY DEF Next, Claim, Recover, Attempt, Reconcile, Route, Reserve, Send, Settle, End, Complete, FailJob, Apply,
         Trouble, FailEarly, Abort, RefuseCompletion, Crash, Lapse, Cooldown, CancelJob, RetryJob, books
<1>5. ASSUME NEW l \in Lanes PROVE lane[l].outcome.result \in {"none"} \cup Outcomes
  BY Rows DEF LaneRow
<1>6. [breaker EXCEPT !.open = FALSE] \in [failures : Nat, open : BOOLEAN]
  BY <1>1
<1> QED
  BY <1>1, <1>2, <1>3, <1>4, <1>5, <1>6

\* A lane starts with a new generation, goes on with its own, or stops.
LEMMA PlaceSteps ==
  ASSUME TypeOK, Next
  PROVE  \/ lane' = lane
         \/ \E l \in Lanes :
              /\ \A k \in Lanes \ {l} : lane'[k] = lane[k]
              /\ \/ Begins(l) /\ lane'[l] = Fresh("reconciling", job.gen + 1)
                 \/ lane'[l] = Idle
                 \/ lane[l].pc # "idle" /\ lane'[l].pc # "idle" /\ lane'[l].gen = lane[l].gen
<1>1. lane \in [Lanes -> LaneRow] /\ \A l \in Lanes : lane[l] \in LaneRow
  BY TypesUnfold, Rows
<1>2. ASSUME NEW l \in Lanes, Begins(l)
      PROVE  /\ \A k \in Lanes \ {l} : lane'[k] = lane[k]
             /\ lane'[l] = Fresh("reconciling", job.gen + 1)
  BY <1>1, <1>2 DEF Begins
<1>3. ASSUME NEW l \in Lanes, Stops(l)
      PROVE  (\A k \in Lanes \ {l} : lane'[k] = lane[k]) /\ lane'[l] = Idle
  BY <1>1, <1>3 DEF Stops
<1>4. ASSUME NEW l \in Lanes,
             Fails(l) \/ Reserves(l) \/ Sends(l) \/ Settles(l) \/ LaneEnds(l)
             \/ \E s \in {"handoff", "pending"} : Routes(l, s)
      PROVE  /\ \A k \in Lanes \ {l} : lane'[k] = lane[k]
             /\ lane[l].pc # "idle" /\ lane'[l].pc # "idle" /\ lane'[l].gen = lane[l].gen
  <2>1. CASE Fails(l)
    BY <1>1, <2>1 DEF Fails, LaneRow
  <2>2. CASE Reserves(l)
    BY <1>1, <2>2 DEF Reserves, LaneRow
  <2>3. CASE Sends(l)
    BY <1>1, <2>3 DEF Sends, LaneRow
  <2>4. CASE Settles(l)
    BY <1>1, <2>4 DEF Settles, LaneRow
  <2>5. CASE LaneEnds(l)
    BY <1>1, <2>5 DEF LaneEnds, Ends, LaneRow
  <2>6. ASSUME NEW s \in {"handoff", "pending"}, Routes(l, s)
        PROVE  /\ \A k \in Lanes \ {l} : lane'[k] = lane[k]
               /\ lane[l].pc # "idle" /\ lane'[l].pc # "idle" /\ lane'[l].gen = lane[l].gen
    BY <1>1, <2>6 DEF Routes, LaneRow
  <2> QED
    BY <1>4, <2>1, <2>2, <2>3, <2>4, <2>5, <2>6
<1> QED
  BY <1>2, <1>3, <1>4, LaneSteps

LEMMA PlacedStep ==
  ASSUME Base, Next
  PROVE  Placed'
<1>1. job.gen \in Nat /\ \A k \in Lanes : lane[k].gen \in 0..job.gen
  BY Rows DEF Base
<1>2. CASE lane' = lane
  BY <1>2 DEF Base, Placed
<1>3. ASSUME NEW l \in Lanes, \A k \in Lanes \ {l} : lane'[k] = lane[k],
             lane'[l] = Fresh("reconciling", job.gen + 1)
      PROVE  Placed'
  <2>1. lane'[l].pc = "reconciling" /\ lane'[l].gen = job.gen + 1
    BY <1>3 DEF Fresh
  <2>2. \A k \in Lanes \ {l} : lane'[k].gen # lane'[l].gen
    BY <1>1, <1>3, <2>1
  <2> QED
    BY <1>1, <1>3, <2>1, <2>2 DEF Base, Placed
<1>4. ASSUME NEW l \in Lanes, \A k \in Lanes \ {l} : lane'[k] = lane[k], lane'[l] = Idle
      PROVE  Placed'
  <2>1. lane'[l].pc = "idle"
    BY <1>4 DEF Idle, Fresh
  <2> QED
    BY <1>4, <2>1 DEF Base, Placed
<1>5. ASSUME NEW l \in Lanes, \A k \in Lanes \ {l} : lane'[k] = lane[k],
             lane[l].pc # "idle", lane'[l].pc # "idle", lane'[l].gen = lane[l].gen
      PROVE  Placed'
  BY <1>5 DEF Base, Placed
<1> QED
  BY <1>2, <1>3, <1>4, <1>5, PlaceSteps DEF Base

LEMMA BaseStep ==
  ASSUME Base, Calling, Routed, Next
  PROVE  Base'
<1>1. /\ job' \in JobRow /\ Counted' /\ Placed'
      /\ calls' \in Seq(CallRow')
      /\ ledger' \in Seq(LedgerStates) /\ Len(ledger') = job'.gen
      /\ costs' \subseteq [gen : 1..job'.gen, measured : BOOLEAN, amount : Nat]
      /\ lane' \in [Lanes -> LaneRow']
  BY JobTyped, PlacedStep, CallsTyped, LedgerTyped, LaneTyped
<1>2. breaker' \in [failures : Nat, open : BOOLEAN] /\ events' \in 0..MaxEvents
  BY OthersTyped DEF Base
<1>3. TypeOK'
  BY <1>1, <1>2 DEF TypeOK, CallRow, LaneRow, JobRow
<1> QED
  BY <1>1, <1>3 DEF Base

----------------------------------------------------------------------------
(***************************************************************************)
(* Open calls.                                                             *)
(***************************************************************************)
Completes(l) ==
  /\ lane[l].pc = "completing" /\ Held(l) /\ job' = Over("done")
  /\ lane' = [lane EXCEPT ![l] = Idle] /\ calls' = calls /\ Apply(l)

LEMMA EndSteps ==
  ASSUME Next
  PROVE  \/ job' = job
         \/ Claims
         \/ JobIsAsked /\ UNCHANGED <<calls, ledger, costs, breaker, lane>>
         \/ Closes
         \/ \E l \in Lanes : Completes(l)
<1>1. ASSUME NEW l \in Lanes, Claim(l) PROVE Claims
  BY <1>1 DEF Claim, Claims, ClaimedJob
<1>2. ASSUME NEW l \in Lanes, Recover(l) PROVE Closes
  BY <1>2 DEF Recover, Closes
<1>3. ASSUME NEW l \in Lanes, FailJob(l) PROVE job' = job \/ Closes
  BY <1>3 DEF FailJob, Closes, Held
<1>4. ASSUME NEW l \in Lanes, Complete(l) PROVE job' = job \/ Completes(l)
  BY <1>4 DEF Complete, Completes, Stop
<1>5. ASSUME NEW l \in Lanes, Reconcile(l) \/ Route(l) \/ Reserve(l) \/ Send(l) \/ Settle(l) \/ End(l) \/ Trouble(l)
      PROVE  job' = job
  BY <1>5 DEF Reconcile, Route, Reserve, Send, Settle, End, Trouble, FailEarly, Abort, RefuseCompletion, Crash, books
<1>6. ASSUME Lapse \/ CancelJob \/ RetryJob
      PROVE  JobIsAsked /\ UNCHANGED <<calls, ledger, costs, breaker, lane>>
  BY <1>6 DEF Lapse, CancelJob, RetryJob, JobIsAsked, books
<1>7. ASSUME Cooldown PROVE job' = job
  BY <1>7 DEF Cooldown
<1> QED
  BY <1>1, <1>2, <1>3, <1>4, <1>5, <1>6, <1>7 DEF Next, Attempt

\* The rows after each kind of step.
LEMMA ReservedRows ==
  ASSUME TypeOK, NEW l \in Lanes, Reserves(l)
  PROVE  /\ Len(calls) + 1 \in DOMAIN calls' /\ calls'[Len(calls) + 1] = Call(job.gen)
         /\ DOMAIN calls' = 1..(Len(calls) + 1) /\ DOMAIN calls = 1..Len(calls) /\ Len(calls) \in Nat
         /\ \A i \in DOMAIN calls' : i = Len(calls) + 1 \/ (i \in DOMAIN calls /\ calls'[i] = calls[i])
  BY TypesUnfold DEF Reserves

LEMMA SentRows ==
  ASSUME TypeOK, Calling, NEW l \in Lanes, Sends(l)
  PROVE  /\ lane[l].call \in DOMAIN calls /\ DOMAIN calls' = DOMAIN calls
         /\ \A i \in DOMAIN calls : i # lane[l].call => calls'[i] = calls[i]
         /\ \A i \in DOMAIN calls :
              /\ calls'[i].gen = calls[i].gen /\ calls'[i].status = calls[i].status
              /\ calls'[i].charge = calls[i].charge /\ calls'[i].reported = calls[i].reported
<1> DEFINE n == lane[l].call
<1>1. n \in DOMAIN calls
  BY DEF Sends, Calling, CallsOf
<1>2. PICK b \in {0} \cup Bills : calls' = [calls EXCEPT ![n].bill = b]
  BY DEF Sends
<1>3. \A i \in DOMAIN calls : calls[i] \in CallRow
  BY Rows
<1> HIDE DEF n
<1>4. DOMAIN calls' = DOMAIN calls /\ \A i \in DOMAIN calls : i # n => calls'[i] = calls[i]
  BY <1>2
<1>5. calls'[n] = [calls[n] EXCEPT !.bill = b]
  BY <1>1, <1>2
<1>6. /\ calls'[n].gen = calls[n].gen /\ calls'[n].status = calls[n].status
      /\ calls'[n].charge = calls[n].charge /\ calls'[n].reported = calls[n].reported
  BY <1>1, <1>3, <1>5 DEF CallRow
<1> QED
  BY <1>1, <1>4, <1>6 DEF n

LEMMA SettledRows ==
  ASSUME TypeOK, Calling, NEW l \in Lanes, Settles(l)
  PROVE  /\ lane[l].call \in DOMAIN calls /\ DOMAIN calls' = DOMAIN calls
         /\ \A i \in DOMAIN calls : i # lane[l].call => calls'[i] = calls[i]
         /\ \A i \in DOMAIN calls : calls'[i].gen = calls[i].gen /\ calls'[i].bill = calls[i].bill
         /\ calls'[lane[l].call].status \in {"failed", "succeeded"}
         /\ calls'[lane[l].call].status = "failed" => calls'[lane[l].call].charge = MaxCost
         /\ calls'[lane[l].call].status = "succeeded" =>
              calls'[lane[l].call].charge = calls'[lane[l].call].bill
<1> DEFINE n == lane[l].call
<1>1. n \in DOMAIN calls
  BY DEF Settles, Calling, CallsOf
<1>2. PICK c \in Settlements(calls[n]) : calls' = [calls EXCEPT ![n] = c]
  BY DEF Settles
<1>3. calls[n] \in CallRow
  BY <1>1, Rows
<1>4. /\ c.gen = calls[n].gen /\ c.bill = calls[n].bill
      /\ c.status \in {"failed", "succeeded"}
      /\ c.status = "failed" => c.charge = MaxCost
      /\ c.status = "succeeded" => c.charge = c.bill
  BY <1>3, SettlementRows
<1> HIDE DEF n
<1>5. /\ DOMAIN calls' = DOMAIN calls /\ \A i \in DOMAIN calls : i # n => calls'[i] = calls[i]
      /\ calls'[n] = c
  BY <1>1, <1>2
<1> QED
  BY <1>1, <1>4, <1>5 DEF n

LEMMA ClosedRows ==
  ASSUME TypeOK, Closes
  PROVE  /\ DOMAIN calls' = DOMAIN calls
         /\ \A i \in DOMAIN calls :
              /\ calls'[i].gen = calls[i].gen /\ calls'[i].bill = calls[i].bill
              /\ calls'[i].reported = calls[i].reported
              /\ i \in Active(job.gen) => calls'[i].status = "unknown" /\ calls'[i].charge = MaxCost
              /\ i \notin Active(job.gen) => calls'[i] = calls[i]
<1>1. DOMAIN calls' = DOMAIN calls /\ \A i \in DOMAIN calls : calls'[i] = Written(i)
  BY DEF Closes, SettleUnknown
<1> QED
  BY <1>1, WrittenRows

LEMMA ActiveStep ==
  ASSUME Base, ActiveIsHeld, Calling, Next
  PROVE  ActiveIsHeld'
<1>0. job \in JobRow
  BY TypesUnfold DEF Base
<1>1. CASE Claims
  BY <1>1 DEF Claims, ActiveIsHeld
<1>2. CASE JobIsAsked /\ UNCHANGED <<calls, ledger, costs, breaker, lane>>
  <2>1. CASE job' = [job EXCEPT !.live = FALSE]
    <3>1. job'.status = job.status /\ job'.gen = job.gen
      BY <1>0, <2>1 DEF JobRow
    <3> QED
      BY <1>2, <3>1 DEF ActiveIsHeld
  <2>2. CASE job.status # "running"
    BY <1>2, <2>2 DEF ActiveIsHeld
  <2> QED
    BY <1>2, <2>1, <2>2 DEF JobIsAsked
<1>3. CASE Closes
  <2>1. \A i \in DOMAIN calls : i \in DOMAIN calls' /\ (calls'[i].status = "active" => calls[i].status = "active" /\ i \notin Active(job.gen))
    BY <1>3, ClosedRows DEF Base
  <2>2. DOMAIN calls' = DOMAIN calls
    BY <1>3, ClosedRows DEF Base
  <2> QED
    BY <2>1, <2>2 DEF ActiveIsHeld, Active, CallsOf
<1>4. ASSUME NEW l \in Lanes, Completes(l) PROVE ActiveIsHeld'
  <2>1. Active(job.gen) = {}
    BY <1>4 DEF Completes, Held, Calling
  <2> QED
    BY <1>4, <2>1 DEF Completes, ActiveIsHeld, Active, CallsOf
<1>5. CASE job' = job
  <2>1. CASE calls' = calls
    BY <1>5, <2>1 DEF ActiveIsHeld
  <2>2. ASSUME NEW l \in Lanes, Reserves(l) PROVE ActiveIsHeld'
    <3>1. job.status = "running" /\ job'.gen = job.gen /\ job'.status = job.status
      BY <1>5, <2>2 DEF Reserves, Held
    <3>2. \A i \in DOMAIN calls' : calls'[i].gen = job.gen \/ (i \in DOMAIN calls /\ calls'[i] = calls[i])
      BY <2>2, ReservedRows DEF Base, Call
    <3> QED
      BY <3>1, <3>2 DEF ActiveIsHeld
  <2>3. ASSUME NEW l \in Lanes, Sends(l) PROVE ActiveIsHeld'
    BY <1>5, <2>3, SentRows DEF Base, ActiveIsHeld
  <2>4. ASSUME NEW l \in Lanes, Settles(l) PROVE ActiveIsHeld'
    <3>1. \A i \in DOMAIN calls' : i \in DOMAIN calls /\ (calls'[i].status = "active" => calls'[i] = calls[i])
      BY <2>4, SettledRows DEF Base
    <3> QED
      BY <1>5, <3>1 DEF ActiveIsHeld
  <2> QED
    BY <1>3, <2>1, <2>2, <2>3, <2>4, CallSteps
<1> QED
  BY <1>1, <1>2, <1>3, <1>4, <1>5, EndSteps

(***************************************************************************)
(* What the calls may cost.                                                *)
(***************************************************************************)
LEMMA PricedStep ==
  ASSUME Base, Calling, Priced, Next
  PROVE  Priced'
<1>1. CASE calls' = calls
  BY <1>1 DEF Priced
<1>2. ASSUME NEW l \in Lanes, Reserves(l) PROVE Priced'
  BY <1>2, ReservedRows DEF Base, Priced, Call
<1>3. ASSUME NEW l \in Lanes, Sends(l) PROVE Priced'
  <2> DEFINE n == lane[l].call
  <2>1. calls[n].status \in {"active", "unknown"}
    BY <1>3 DEF Sends, Calling
  <2>2. /\ DOMAIN calls' = DOMAIN calls
        /\ \A i \in DOMAIN calls : i # n => calls'[i] = calls[i]
        /\ \A i \in DOMAIN calls :
              /\ calls'[i].status = calls[i].status
              /\ calls'[i].charge = calls[i].charge /\ calls'[i].reported = calls[i].reported
    BY <1>3, SentRows DEF Base
  <2> HIDE DEF n
  <2> QED
    BY <2>1, <2>2 DEF Priced
<1>4. ASSUME NEW l \in Lanes, Settles(l) PROVE Priced'
  BY <1>4, SettledRows DEF Base, Priced
<1>5. CASE Closes
  <2>1. \A i \in DOMAIN calls : i \in Active(job.gen) => calls[i].status = "active"
    BY DEF Active
  <2> QED
    BY <1>5, <2>1, ClosedRows DEF Base, Priced
<1> QED
  BY <1>1, <1>2, <1>3, <1>4, <1>5, CallSteps

\* A step that asks for no more money leaves the sum committed within what it was.
LEMMA CommittedFalls ==
  ASSUME TypeOK, DOMAIN calls' = DOMAIN calls,
         \A i \in DOMAIN calls : CommittedTo'[i] \in Nat /\ CommittedTo'[i] <= CommittedTo[i],
         Committed <= Budget
  PROVE  Committed' <= Budget
<1> DEFINE D == DOMAIN calls
<1>1. IsFiniteSet(D) /\ DOMAIN CommittedTo = D /\ DOMAIN CommittedTo' = D
  BY CallsFinite DEF CommittedTo
<1>2. \A i \in D : CommittedTo[i] \in Nat
  BY Rows, Bounds DEF CommittedTo
<1>3. Committed = SumFunctionOnSet(CommittedTo, D) /\ Committed' = SumFunctionOnSet(CommittedTo', D)
  BY <1>1 DEF Committed, SumFunction
<1> DEFINE f == CommittedTo'
           g == CommittedTo
<1>4. \A i \in D : f[i] \in Nat /\ g[i] \in Nat /\ f[i] <= g[i]
  BY <1>2
<1> HIDE DEF f, g, D
<1>5. SumFunctionOnSet(f, D) <= SumFunctionOnSet(g, D)
  BY <1>1, <1>4, SumMonotone
<1>6. SumFunctionOnSet(f, D) \in Nat /\ SumFunctionOnSet(g, D) \in Nat
  BY <1>1, <1>4, SumNat
<1> QED
  BY <1>3, <1>5, <1>6, Bounds DEF f, g

\* A reservation adds what it may cost at most.
LEMMA CommittedRises ==
  ASSUME TypeOK, NEW l \in Lanes, Reserves(l)
  PROVE  Committed' <= Budget
<1> DEFINE n == Len(calls) + 1
           f == CommittedTo'
           g == CommittedTo
           D == DOMAIN calls
<1>1. DOMAIN f = DOMAIN calls' /\ DOMAIN g = D
  BY DEF CommittedTo
<1>2. /\ n \in DOMAIN calls' /\ DOMAIN calls' \ {n} = D
      /\ f[n] = MaxCost /\ \A i \in D : f[i] = g[i]
  <2>1. /\ n \in DOMAIN calls' /\ calls'[n] = Call(job.gen)
        /\ DOMAIN calls' = 1..n /\ D = 1..(n - 1) /\ n - 1 \in Nat
    BY ReservedRows
  <2>2. \A i \in D : i \in DOMAIN calls' /\ i # n /\ calls'[i] = calls[i]
    BY <2>1, ReservedRows
  <2>3. calls'[n].status = "active"
    BY <2>1 DEF Call
  <2> HIDE DEF n
  <2>4. DOMAIN calls' \ {n} = D
    BY <2>1
  <2> QED
    BY <2>1, <2>2, <2>3, <2>4 DEF CommittedTo
<1>3. \A i \in D : g[i] \in Nat
  BY Rows, Bounds DEF CommittedTo
<1>4. IsFiniteSet(D)
  BY CallsFinite
<1>5. DOMAIN calls' = D \cup {n}
  BY <1>2
<1>6. IsFiniteSet(DOMAIN calls')
  BY <1>4, <1>5, FS_AddElement
<1>7. Committed = SumFunctionOnSet(g, D) /\ Committed' = SumFunctionOnSet(f, DOMAIN calls')
  BY <1>1 DEF Committed, SumFunction
<1>8. \A i \in DOMAIN calls' : f[i] \in Nat
  BY <1>2, <1>3, <1>5, Bounds
<1>9. Committed + MaxCost <= Budget
  BY DEF Reserves, Affordable
<1> HIDE DEF f, g, D, n
<1>10. SumFunctionOnSet(f, DOMAIN calls') = f[n] + SumFunctionOnSet(f, D)
  BY <1>2, <1>6, <1>8, SumRest
<1>11. SumFunctionOnSet(f, D) = SumFunctionOnSet(g, D) /\ SumFunctionOnSet(g, D) \in Nat
  BY <1>2, <1>3, <1>4, SumSame, SumNat
<1> QED
  BY <1>2, <1>7, <1>9, <1>10, <1>11, Bounds

LEMMA SpendStep ==
  ASSUME Base, Calling, Priced, SpendWithinBudget, Next, Base', Priced'
  PROVE  SpendWithinBudget'
<1>1. \A i \in DOMAIN calls' : calls'[i].bill <= CommittedTo'[i]
  <2>1. \A i \in DOMAIN calls' :
          /\ calls'[i].bill \in {0} \cup Bills
          /\ calls'[i].status \in CallStatuses
    <3> SUFFICES ASSUME NEW i \in DOMAIN calls'
                 PROVE  calls'[i].bill \in {0} \cup Bills /\ calls'[i].status \in CallStatuses
      OBVIOUS
    <3>1. calls' \in Seq(CallRow')
      BY CallsTyped
    <3>2. calls'[i] \in CallRow'
      BY <3>1
    <3> QED
      BY <3>2 DEF CallRow
  <2>2. \A i \in DOMAIN calls' : calls'[i].bill \in 0..MaxCost
    BY <2>1, Bounds
  <2>3. \A i \in DOMAIN calls' :
          CommittedTo'[i] = IF calls'[i].status = "active" THEN MaxCost ELSE calls'[i].charge
    BY DEF CommittedTo
  <2> QED
    BY <2>1, <2>2, <2>3, Bounds DEF Priced, CallStatuses
<1>2. \A i \in DOMAIN calls : calls[i].charge \in Nat /\ calls[i].charge <= MaxCost /\ calls[i].bill <= MaxCost /\ calls[i].bill \in Nat
  BY Rows, Bounds DEF Base
<1>3. ASSUME calls' = calls PROVE Committed' <= Budget
  <2>1. CommittedTo' = CommittedTo /\ \A i \in DOMAIN calls : CommittedTo[i] \in Nat
    BY <1>2, <1>3, Bounds DEF CommittedTo
  <2> QED
    BY <1>3, <2>1, CommittedFalls DEF Base, SpendWithinBudget
<1>4. ASSUME NEW l \in Lanes, Reserves(l) PROVE Committed' <= Budget
  BY <1>4, CommittedRises DEF Base
<1>5. ASSUME NEW l \in Lanes, Sends(l) PROVE Committed' <= Budget
  <2>1. DOMAIN calls' = DOMAIN calls
        /\ \A i \in DOMAIN calls : calls'[i].status = calls[i].status /\ calls'[i].charge = calls[i].charge
    BY <1>5, SentRows DEF Base
  <2>2. \A i \in DOMAIN calls : CommittedTo'[i] \in Nat /\ CommittedTo'[i] <= CommittedTo[i]
    BY <1>2, <2>1, Bounds DEF CommittedTo
  <2> QED
    BY <2>1, <2>2, CommittedFalls DEF Base, SpendWithinBudget
<1>6. ASSUME NEW l \in Lanes, Settles(l) PROVE Committed' <= Budget
  <2> DEFINE n == lane[l].call
  <2>0. calls[n].status \in {"active", "unknown"}
    BY <1>6 DEF Settles, Calling
  <2>1. /\ n \in DOMAIN calls /\ DOMAIN calls' = DOMAIN calls
        /\ \A i \in DOMAIN calls : i # n => calls'[i] = calls[i]
        /\ calls'[n].bill = calls[n].bill
        /\ calls'[n].status \in {"failed", "succeeded"}
        /\ calls'[n].status = "failed" => calls'[n].charge = MaxCost
        /\ calls'[n].status = "succeeded" => calls'[n].charge = calls'[n].bill
    BY <1>6, SettledRows DEF Base
  <2> HIDE DEF n
  <2>2. CommittedTo[n] = MaxCost /\ CommittedTo'[n] = calls'[n].charge
    BY <2>0, <2>1 DEF CommittedTo, Priced
  <2>3. CommittedTo'[n] \in Nat /\ CommittedTo'[n] <= CommittedTo[n]
    BY <1>2, <2>1, <2>2, Bounds
  <2>4. \A i \in DOMAIN calls : i # n => CommittedTo'[i] \in Nat /\ CommittedTo'[i] <= CommittedTo[i]
    BY <1>2, <2>1, Bounds DEF CommittedTo
  <2> QED
    BY <2>1, <2>3, <2>4, CommittedFalls DEF Base, SpendWithinBudget
<1>7. ASSUME Closes PROVE Committed' <= Budget
  <2>1. DOMAIN calls' = DOMAIN calls
        /\ \A i \in DOMAIN calls :
             calls'[i] = calls[i] \/ (calls[i].status = "active" /\ calls'[i].status = "unknown" /\ calls'[i].charge = MaxCost)
    BY <1>7, ClosedRows DEF Base, Active
  <2>2. \A i \in DOMAIN calls : CommittedTo'[i] \in Nat /\ CommittedTo'[i] <= CommittedTo[i]
    BY <1>2, <2>1, Bounds DEF CommittedTo
  <2> QED
    BY <2>1, <2>2, CommittedFalls DEF Base, SpendWithinBudget
<1>8. Committed' <= Budget
  BY <1>3, <1>4, <1>5, <1>6, <1>7, CallSteps
<1> QED
  BY <1>1, <1>8 DEF SpendWithinBudget

----------------------------------------------------------------------------
(***************************************************************************)
(* Outcomes, cost entries and the breaker.                                 *)
(***************************************************************************)
\* An applied outcome is that of the job's present claim, whose row waits for it.
LEMMA AppliedRows ==
  ASSUME Base, Routed, NEW l \in Lanes, Applies(l)
  PROVE  /\ lane[l].gen = job.gen /\ job.gen \in DOMAIN ledger /\ ledger[job.gen] = "pending"
         /\ lane[l].outcome.result \in Results /\ Results \subseteq Outcomes
         /\ lane[l].outcome.cost \in Costs
         /\ ledger' = [ledger EXCEPT ![job.gen] = lane[l].outcome.result]
         /\ costs' = costs \cup {Entry(job.gen, lane[l].outcome.cost)}
         /\ breaker' = Fed(lane[l].outcome.result)
         /\ lane' = [lane EXCEPT ![l] = Idle]
         /\ job'.gen = job.gen /\ job.status = "running" /\ job'.status # "running"
<1>1. lane[l].gen = job.gen /\ job.gen \in DOMAIN ledger
  BY Rows DEF Applies, Held, Base, Placed
<1>2. lane[l].outcome.result \in {"none"} \cup Outcomes /\ lane[l].outcome.cost \in Costs
  <2>1. lane[l] \in LaneRow
    BY Rows DEF Base
  <2>2. lane[l].outcome \in [result : {"none"} \cup Outcomes, cost : Costs]
    BY <2>1 DEF LaneRow
  <2> QED
    BY <2>2
<1>3. lane[l].outcome.result \in Results /\ Results \subseteq Outcomes
  BY <1>2 DEF Applies, Routed, Outcomes, Results
<1>4. job.gen \in Nat
  BY Rows DEF Base
<1>5. ledger[job.gen] = "pending"
  BY <1>1, <1>4 DEF Applies, Routed
<1>6. /\ ledger' = [ledger EXCEPT ![job.gen] = lane[l].outcome.result]
      /\ costs' = costs \cup {Entry(job.gen, lane[l].outcome.cost)}
      /\ breaker' = Fed(lane[l].outcome.result)
      /\ lane' = [lane EXCEPT ![l] = Idle]
  BY <1>1 DEF Applies, Apply
<1>7. job'.gen = job.gen /\ job.status = "running" /\ job'.status # "running"
  <2>1. job \in JobRow
    BY TypesUnfold DEF Base
  <2>2. PICK s \in {"pending", "dead_letter", "done"} : JobEnds(s)
    BY DEF Applies
  <2> QED
    BY <2>1, <2>2, OverTyped DEF JobEnds
<1> QED
  BY <1>1, <1>2, <1>3, <1>5, <1>6, <1>7

\* How a row of the routing ledger changes: routed, or decided by its lane.
LEMMA LedgerRows ==
  ASSUME Base, Routed, Next
  PROVE  /\ \A g \in DOMAIN ledger :
              /\ g \in DOMAIN ledger'
              /\ \/ ledger'[g] = ledger[g]
                 \/ ledger[g] = "none" /\ ledger'[g] \in {"handoff", "pending"}
                 \/ ledger[g] = "pending" /\ g = job.gen /\ ledger'[g] \in Results
         /\ \A g \in DOMAIN ledger' : g \in DOMAIN ledger \/ (ledger'[g] = "none" /\ job'.gen = job.gen + 1)
<1>1. /\ DOMAIN ledger = 1..job.gen /\ job.gen \in Nat /\ ledger \in Seq(LedgerStates)
      /\ Len(ledger) = job.gen
  BY Rows, TypesUnfold DEF Base
<1>2. CASE BooksKept
  BY <1>2 DEF BooksKept
<1>3. CASE Claims
  <2>1. ledger' = Append(ledger, "none") /\ job'.gen = job.gen + 1
    BY <1>3 DEF Claims, ClaimedJob
  <2> QED
    BY <1>1, <2>1
<1>4. ASSUME NEW l \in Lanes, NEW s \in {"handoff", "pending"}, Routes(l, s)
      PROVE  /\ DOMAIN ledger' = DOMAIN ledger
             /\ \A g \in DOMAIN ledger : \/ ledger'[g] = ledger[g]
                                         \/ ledger[g] = "none" /\ ledger'[g] \in {"handoff", "pending"}
  BY <1>4 DEF Routes, Routed
<1>6. ASSUME NEW l \in Lanes, Applies(l)
      PROVE  /\ DOMAIN ledger' = DOMAIN ledger
             /\ \A g \in DOMAIN ledger : \/ ledger'[g] = ledger[g]
                                         \/ ledger[g] = "pending" /\ g = job.gen /\ ledger'[g] \in Results
  BY <1>6, AppliedRows
<1> QED
  BY <1>2, <1>3, <1>4, <1>6, LedgerSteps DEF Base

\* The calls of a step: those there were, and perhaps one of the present claim.
LEMMA CallGens ==
  ASSUME Base, Calling, Next
  PROVE  \/ DOMAIN calls' = DOMAIN calls
         \/ \E l \in Lanes :
              /\ Reserves(l) /\ DOMAIN calls' = DOMAIN calls \cup {Len(calls) + 1}
              /\ calls'[Len(calls) + 1].gen = job.gen
<1>1. ASSUME NEW l \in Lanes, Reserves(l)
      PROVE  /\ DOMAIN calls' = DOMAIN calls \cup {Len(calls) + 1}
             /\ calls'[Len(calls) + 1].gen = job.gen
  <2>1. /\ calls'[Len(calls) + 1] = Call(job.gen) /\ Len(calls) \in Nat
        /\ DOMAIN calls' = 1..(Len(calls) + 1) /\ DOMAIN calls = 1..Len(calls)
    BY <1>1, ReservedRows DEF Base
  <2> QED
    BY <2>1 DEF Call
<1>2. ASSUME NEW l \in Lanes, Sends(l) PROVE DOMAIN calls' = DOMAIN calls
  BY <1>2, SentRows DEF Base
<1>3. ASSUME NEW l \in Lanes, Settles(l) PROVE DOMAIN calls' = DOMAIN calls
  BY <1>3, SettledRows DEF Base
<1>4. ASSUME Closes PROVE DOMAIN calls' = DOMAIN calls
  BY <1>4, ClosedRows DEF Base
<1> QED
  BY <1>1, <1>2, <1>3, <1>4, CallSteps

LEMMA RoutedLanes ==
  ASSUME Base, Routed, Next, NEW k \in Lanes
  PROVE  /\ lane'[k].pc = "reconciling" => ledger'[lane'[k].gen] = "none" /\ lane'[k].outcome = NoOutcome
         /\ lane'[k].pc = "completing" => lane'[k].outcome.result = "succeeded"
         /\ lane'[k].pc \in AtWork \/ lane'[k].outcome.result # "none" => ledger'[lane'[k].gen] = "pending"
<1> DEFINE R(r, led) ==
             /\ r.pc = "reconciling" => led[r.gen] = "none" /\ r.outcome = NoOutcome
             /\ r.pc = "completing" => r.outcome.result = "succeeded"
             /\ r.pc \in AtWork \/ r.outcome.result # "none" => led[r.gen] = "pending"
<1>1. /\ \A l \in Lanes : lane[l] \in LaneRow /\ lane[l].gen \in 0..job.gen
      /\ \A l \in Lanes : lane[l].pc # "idle" => lane[l].gen \in DOMAIN ledger
      /\ lane \in [Lanes -> LaneRow] /\ job.gen \in Nat /\ DOMAIN ledger = 1..job.gen
  BY Rows, TypesUnfold DEF Base, Placed
<1>2. \A l \in Lanes : R(lane[l], ledger)
  BY DEF Routed
<1>3. \A led : R(Idle, led)
  BY DEF Idle, Fresh, NoOutcome, AtWork
\* A lane that does not move.
<1>5. ASSUME NEW l \in Lanes, lane'[l] = lane[l],
             lane[l].pc # "idle" => ledger'[lane[l].gen] = ledger[lane[l].gen]
      PROVE  R(lane'[l], ledger')
  <2>1. CASE lane[l].pc = "idle"
    BY <1>3, <1>5, <2>1 DEF Base, Placed
  <2>2. CASE lane[l].pc # "idle"
    BY <1>2, <1>5, <2>2
  <2> QED
    BY <2>1, <2>2
<1>6. ASSUME NEW l \in Lanes, NEW s \in {"handoff", "pending"}, Routes(l, s)
      PROVE  R(lane'[k], ledger')
  <2>1. /\ ledger' = [ledger EXCEPT ![lane[l].gen] = s] /\ job' = job
        /\ lane' = [lane EXCEPT ![l].pc = IF s = "handoff" THEN "refused" ELSE "working"]
        /\ lane[l].pc = "reconciling"
    BY <1>6 DEF Routes
  <2>2. CASE k = l
    <3>1. /\ lane'[k].pc = (IF s = "handoff" THEN "refused" ELSE "working")
          /\ lane'[k].gen = lane[k].gen /\ lane'[k].outcome = lane[k].outcome
      BY <1>1, <2>1, <2>2 DEF LaneRow
    <3>2. lane[k].outcome = NoOutcome /\ ledger'[lane[k].gen] = s
      BY <1>1, <2>1, <2>2 DEF Routed
    <3>3. NoOutcome.result = "none"
      BY DEF NoOutcome
    <3> QED
      BY <3>1, <3>2, <3>3 DEF AtWork
  <2>3. CASE k # l
    <3>1. lane'[k] = lane[k] /\ (lane[k].pc # "idle" => lane[k].gen # lane[l].gen)
      BY <1>1, <2>1, <2>3 DEF Base, Placed
    <3>2. lane[k].pc # "idle" => ledger'[lane[k].gen] = ledger[lane[k].gen]
      BY <1>1, <2>1, <3>1
    <3> QED
      BY <1>5, <3>1, <3>2
  <2> QED
    BY <2>2, <2>3
<1>8. ASSUME NEW l \in Lanes, Applies(l)
      PROVE  R(lane'[k], ledger')
  <2>1. /\ lane[l].gen = job.gen /\ lane[l].pc # "idle"
        /\ ledger' = [ledger EXCEPT ![job.gen] = lane[l].outcome.result]
        /\ lane' = [lane EXCEPT ![l] = Idle]
    BY <1>8, AppliedRows DEF Applies
  <2>2. CASE k = l
    <3>1. lane'[k] = Idle
      BY <1>1, <2>1, <2>2
    <3> QED
      BY <1>3, <3>1
  <2>3. CASE k # l
    <3>1. lane'[k] = lane[k] /\ (lane[k].pc # "idle" => lane[k].gen # job.gen)
      BY <1>1, <2>1, <2>3 DEF Base, Placed
    <3>2. lane[k].pc # "idle" => ledger'[lane[k].gen] = ledger[lane[k].gen]
      BY <1>1, <2>1, <3>1
    <3> QED
      BY <1>5, <3>1, <3>2
  <2> QED
    BY <2>2, <2>3
<1>9. ASSUME \A g \in DOMAIN ledger : ledger'[g] = ledger[g], BooksKept \/ Claims
      PROVE  R(lane'[k], ledger')
  <2>0. lane[k].pc # "idle" => ledger'[lane[k].gen] = ledger[lane[k].gen]
    BY <1>1, <1>9
  <2>1. CASE lane' = lane
    BY <1>5, <2>0, <2>1
  <2>2. ASSUME NEW l \in Lanes, Begins(l) PROVE R(lane'[k], ledger')
    <3>1. CASE k = l
      <4>1. lane'[k] = Fresh("reconciling", job.gen + 1) /\ ledger' = Append(ledger, "none")
        BY <1>1, <2>2, <3>1 DEF Begins, Claims
      <4>2. ledger'[job.gen + 1] = "none"
        BY <1>1, <4>1, TypesUnfold DEF Base
      <4>3. /\ lane'[k].pc = "reconciling" /\ lane'[k].gen = job.gen + 1
            /\ lane'[k].outcome = NoOutcome /\ NoOutcome.result = "none"
        BY <4>1 DEF Fresh, NoOutcome
      <4> QED
        BY <4>2, <4>3 DEF AtWork
    <3>2. CASE k # l
      <4>1. lane'[k] = lane[k]
        BY <1>1, <2>2, <3>2 DEF Begins
      <4> QED
        BY <1>5, <2>0, <4>1
    <3> QED
      BY <3>1, <3>2
  <2>3. ASSUME NEW l \in Lanes, Stops(l) PROVE R(lane'[k], ledger')
    <3>1. CASE k = l
      <4>1. lane'[k] = Idle
        BY <1>1, <2>3, <3>1 DEF Stops
      <4> QED
        BY <1>3, <4>1
    <3>2. CASE k # l
      <4>1. lane'[k] = lane[k]
        BY <1>1, <2>3, <3>2 DEF Stops
      <4> QED
        BY <1>5, <2>0, <4>1
    <3> QED
      BY <3>1, <3>2
  <2>4. ASSUME NEW l \in Lanes, Fails(l) \/ Reserves(l) \/ Sends(l) \/ Settles(l)
        PROVE  R(lane'[k], ledger')
    <3>0. job' = job /\ ledger' = ledger /\ lane[l].pc # "idle"
      BY <2>4 DEF Fails, Reserves, Sends, Settles
    <3>1. CASE k = l
      <4>1. lane'[k].gen = lane[k].gen /\ lane'[k].outcome = lane[k].outcome
            /\ (lane'[k].pc \in {"failing", "refused"} \/ (lane'[k].pc \in {"working", "calling", "called"} /\ lane[k].pc \in AtWork))
        <5>1. CASE Fails(l)
          BY <1>1, <3>1, <5>1 DEF Fails, LaneRow
        <5>2. CASE Reserves(l)
          BY <1>1, <3>1, <5>2 DEF Reserves, LaneRow, AtWork
        <5>3. CASE Sends(l)
          BY <1>1, <3>1, <5>3 DEF Sends, LaneRow, AtWork
        <5>4. CASE Settles(l)
          BY <1>1, <3>1, <5>4 DEF Settles, LaneRow, AtWork
        <5> QED
          BY <2>4, <5>1, <5>2, <5>3, <5>4
      <4> QED
        BY <1>2, <3>0, <4>1 DEF AtWork
    <3>2. CASE k # l
      <4>1. lane'[k] = lane[k]
        BY <1>1, <2>4, <3>2 DEF Fails, Reserves, Sends, Settles
      <4> QED
        BY <1>5, <2>0, <4>1
    <3> QED
      BY <3>1, <3>2
  <2>5. ASSUME NEW l \in Lanes, LaneEnds(l) PROVE R(lane'[k], ledger')
    <3>0. PICK pc \in {"failing", "completing"}, result \in Results, cost \in Costs : Ends(l, pc, result, cost)
      BY <2>5 DEF LaneEnds
    <3>1. CASE k = l
      <4>1. /\ lane'[k].pc = pc /\ lane'[k].gen = lane[k].gen /\ lane'[k].outcome.result = result
            /\ lane[k].pc \in AtWork /\ (pc = "completing" => result = "succeeded")
            /\ job' = job /\ ledger' = ledger
        BY <1>1, <3>0, <3>1 DEF Ends, AtWork
      <4> QED
        BY <1>2, <4>1 DEF Results
    <3>2. CASE k # l
      <4>1. lane'[k] = lane[k]
        BY <1>1, <3>0, <3>2 DEF Ends
      <4> QED
        BY <1>5, <2>0, <4>1
    <3> QED
      BY <3>1, <3>2
  <2> QED
    BY <1>6, <2>1, <2>2, <2>3, <2>4, <2>5, LaneSteps DEF Base
<1>10. CASE BooksKept
  BY <1>9, <1>10 DEF BooksKept
<1>11. CASE Claims
  <2>1. \A g \in DOMAIN ledger : ledger'[g] = ledger[g]
    BY <1>1, <1>11, TypesUnfold DEF Claims, Base
  <2> QED
    BY <1>9, <1>11, <2>1
<1> QED
  BY <1>6, <1>8, <1>10, <1>11, LedgerSteps DEF Base

LEMMA RoutedStep ==
  ASSUME Base, Calling, Routed, Next
  PROVE  Routed'
<1>1. \A k \in Lanes :
        /\ lane'[k].pc = "reconciling" => ledger'[lane'[k].gen] = "none" /\ lane'[k].outcome = NoOutcome
        /\ lane'[k].pc = "completing" => lane'[k].outcome.result = "succeeded"
        /\ lane'[k].pc \in AtWork \/ lane'[k].outcome.result # "none" => ledger'[lane'[k].gen] = "pending"
  BY RoutedLanes
<1>3. \A i \in DOMAIN calls' : ledger'[calls'[i].gen] \notin {"none", "handoff"}
  <2>1. \A i \in DOMAIN calls : calls[i].gen \in DOMAIN ledger /\ calls'[i].gen = calls[i].gen
    BY Rows, CallsTyped DEF Base
  <2>2. \A i \in DOMAIN calls : ledger'[calls'[i].gen] \notin {"none", "handoff"}
    BY <2>1, LedgerRows DEF Routed, Results
  <2>3. ASSUME NEW l \in Lanes, Reserves(l) PROVE ledger'[job.gen] \notin {"none", "handoff"}
    <3>1. lane[l].pc \in AtWork /\ lane[l].gen = job.gen /\ ledger' = ledger
      BY <2>3 DEF Reserves, Held, AtWork
    <3>2. ledger[lane[l].gen] = "pending"
      BY <3>1 DEF Routed
    <3> QED
      BY <3>1, <3>2
  <2>4. ASSUME NEW l \in Lanes, Reserves(l), DOMAIN calls' = DOMAIN calls \cup {Len(calls) + 1},
               calls'[Len(calls) + 1].gen = job.gen, NEW i \in DOMAIN calls'
        PROVE  ledger'[calls'[i].gen] \notin {"none", "handoff"}
    BY <2>2, <2>3, <2>4
  <2> QED
    BY <2>2, <2>4, CallGens
<1> QED
  BY <1>1, <1>3 DEF Routed

\* A lane at work was at work in its attempt, or has just found nothing lost.
LEMMA WorkSteps ==
  ASSUME TypeOK, Next, NEW k \in Lanes, lane'[k].pc \in AtWork
  PROVE  /\ lane'[k].gen = lane[k].gen
         /\ lane[k].pc \in AtWork \/ (lane[k].pc = "reconciling" /\ Lost(lane[k].gen) = {} /\ UNCHANGED <<calls, job>>)
<1>1. lane \in [Lanes -> LaneRow] /\ \A l \in Lanes : lane[l] \in LaneRow
  BY TypesUnfold, Rows
<1>2. ASSUME NEW l \in Lanes, \A j \in Lanes \ {l} : lane'[j] = lane[j],
             lane'[l].pc \in AtWork =>
               /\ lane'[l].gen = lane[l].gen
               /\ lane[l].pc \in AtWork \/ (lane[l].pc = "reconciling" /\ Lost(lane[l].gen) = {} /\ UNCHANGED <<calls, job>>)
      PROVE  /\ lane'[k].gen = lane[k].gen
             /\ lane[k].pc \in AtWork \/ (lane[k].pc = "reconciling" /\ Lost(lane[k].gen) = {} /\ UNCHANGED <<calls, job>>)
  BY <1>2
<1>3. ASSUME NEW l \in Lanes, Begins(l)
      PROVE  (\A j \in Lanes \ {l} : lane'[j] = lane[j]) /\ lane'[l].pc \notin AtWork
  BY <1>1, <1>3 DEF Begins, Fresh, AtWork
<1>4. ASSUME NEW l \in Lanes, Fails(l)
      PROVE  (\A j \in Lanes \ {l} : lane'[j] = lane[j]) /\ lane'[l].pc \notin AtWork
  BY <1>1, <1>4 DEF Fails, LaneRow, AtWork
<1>5. ASSUME NEW l \in Lanes, Stops(l)
      PROVE  (\A j \in Lanes \ {l} : lane'[j] = lane[j]) /\ lane'[l].pc \notin AtWork
  BY <1>1, <1>5 DEF Stops, Idle, Fresh, AtWork
<1>6. ASSUME NEW l \in Lanes, Reserves(l) \/ Sends(l) \/ Settles(l) \/ LaneEnds(l)
      PROVE  (\A j \in Lanes \ {l} : lane'[j] = lane[j]) /\ lane'[l].gen = lane[l].gen /\ lane[l].pc \in AtWork
  <2>1. CASE Reserves(l)
    BY <1>1, <2>1 DEF Reserves, LaneRow, AtWork
  <2>2. CASE Sends(l)
    BY <1>1, <2>2 DEF Sends, LaneRow, AtWork
  <2>3. CASE Settles(l)
    BY <1>1, <2>3 DEF Settles, LaneRow, AtWork
  <2>4. CASE LaneEnds(l)
    BY <1>1, <2>4 DEF LaneEnds, Ends, AtWork
  <2> QED
    BY <1>6, <2>1, <2>2, <2>3, <2>4
<1>7. ASSUME NEW l \in Lanes, NEW s \in {"handoff", "pending"}, Routes(l, s)
      PROVE  /\ \A j \in Lanes \ {l} : lane'[j] = lane[j]
             /\ lane'[l].gen = lane[l].gen /\ lane[l].pc = "reconciling" /\ Lost(lane[l].gen) = {}
             /\ UNCHANGED <<calls, job>>
  BY <1>1, <1>7 DEF Routes, LaneRow
<1>8. CASE lane' = lane
  BY <1>8
<1> QED
  BY <1>2, <1>3, <1>4, <1>5, <1>6, <1>7, <1>8, LaneSteps

LEMMA AccountedStep ==
  ASSUME Base, Calling, Routed, Accounted, Next
  PROVE  Accounted'
<1>0. /\ DOMAIN ledger = 1..job.gen /\ job.gen \in Nat /\ job \in JobRow
      /\ ledger \in Seq(LedgerStates)
      /\ \A i \in DOMAIN calls : calls[i].gen \in DOMAIN ledger /\ calls'[i].gen = calls[i].gen
      /\ \A l \in Lanes : lane[l].gen \in 0..job.gen
  BY Rows, TypesUnfold, CallsTyped DEF Base
<1>1. \A g \in DOMAIN ledger : ledger[g] \in Outcomes => ledger'[g] \in Outcomes
  BY LedgerRows DEF Outcomes, Results
<1>2. ASSUME NEW l \in Lanes, lane'[l].pc \in AtWork, NEW i \in DOMAIN calls', calls'[i].gen < lane'[l].gen
      PROVE  ledger'[calls'[i].gen] \in Outcomes
  <2>1. lane'[l].gen = lane[l].gen /\ lane[l].gen \in 0..job.gen
    BY <1>0, <1>2, WorkSteps DEF Base
  <2>2. i \in DOMAIN calls /\ calls[i].gen < lane[l].gen /\ calls'[i].gen = calls[i].gen
    <3>1. i \in DOMAIN calls \/ calls'[i].gen = job.gen
      BY CallGens
    <3> QED
      BY <1>0, <1>2, <2>1, <3>1
  <2>3. CASE lane[l].pc \in AtWork
    BY <1>0, <1>1, <2>2, <2>3 DEF Accounted
  <2>4. CASE lane[l].pc = "reconciling" /\ Lost(lane[l].gen) = {}
    <3> DEFINE g == calls[i].gen
    <3>1. g \in 1..(lane[l].gen - 1) /\ Paid(g) /\ g \in DOMAIN ledger
      BY <1>0, <2>1, <2>2 DEF Paid, CallsOf
    <3>2. ledger[g] # "pending" /\ ledger[g] \notin {"none", "handoff"} /\ ledger[g] \in LedgerStates
      BY <1>0, <2>2, <2>4, <3>1 DEF Lost, Routed
    <3>3. ledger[g] \in Outcomes
      BY <3>2 DEF LedgerStates
    <3> QED
      BY <1>1, <2>2, <3>1, <3>3
  <2> QED
    BY <1>2, <2>3, <2>4, WorkSteps DEF Base
<1>3. ASSUME job'.status = "done"
      PROVE  \A i \in DOMAIN calls' : ledger'[calls'[i].gen] \in Outcomes
  <2>1. CASE job.status = "done"
    <3>1. ~\E l \in Lanes : Reserves(l)
      BY <2>1 DEF Reserves, Held
    <3>2. DOMAIN calls' = DOMAIN calls
      BY <3>1, CallGens
    <3> QED
      BY <1>0, <1>1, <2>1, <3>2 DEF Accounted
  <2>2. CASE job.status # "done"
    <3>1. job' # job
      BY <1>3, <2>2
    <3>2. ~Claims
      BY <1>3 DEF Claims, ClaimedJob
    <3>3. ~JobIsAsked
      <4>1. [job EXCEPT !.live = FALSE].status = job.status /\ Over("cancelled").status = "cancelled"
            /\ Over("pending") \in JobRow /\ Over("pending").status = "pending"
        BY <1>0, OverTyped DEF JobRow
      <4>2. [Over("pending") EXCEPT !.attempts = 0].status = "pending"
        BY <4>1 DEF JobRow
      <4> QED
        BY <1>3, <2>2, <4>1, <4>2 DEF JobIsAsked
    <3>4. ~Closes
      <4>1. \A s \in {"pending", "dead_letter"} : Over(s).status = s
        BY <1>0, OverTyped
      <4> QED
        BY <1>3, <4>1 DEF Closes
    <3>5. PICK l \in Lanes : Completes(l)
      BY <3>1, <3>2, <3>3, <3>4, EndSteps
    <3>6. /\ lane[l].pc \in AtWork /\ lane[l].gen = job.gen /\ calls' = calls
          /\ lane[l].outcome.result = "succeeded"
      BY <3>5 DEF Completes, Held, AtWork, Routed
    <3>7. ASSUME NEW i \in DOMAIN calls, calls[i].gen = job.gen
          PROVE  ledger'[job.gen] \in Outcomes
      <4>1. ledger' = [ledger EXCEPT ![job.gen] = "succeeded"]
        BY <3>5, <3>6 DEF Completes, Apply
      <4>2. job.gen \in DOMAIN ledger
        BY <1>0, <3>7
      <4> QED
        BY <4>1, <4>2 DEF Outcomes
    <3>8. ASSUME NEW i \in DOMAIN calls, calls[i].gen # job.gen
          PROVE  ledger'[calls[i].gen] \in Outcomes
      <4>1. calls[i].gen < lane[l].gen
        BY <1>0, <3>6, <3>8
      <4> QED
        BY <1>0, <1>1, <3>6, <4>1 DEF Accounted
    <3> QED
      BY <3>6, <3>7, <3>8
  <2> QED
    BY <2>1, <2>2
<1>4. ASSUME NEW i \in DOMAIN calls', NEW j \in DOMAIN calls', calls'[i].gen < calls'[j].gen
      PROVE  ledger'[calls'[i].gen] \in Outcomes
  <2>1. i \in DOMAIN calls
    <3>1. i \in DOMAIN calls \/ calls'[i].gen = job.gen
      BY CallGens
    <3>2. j \in DOMAIN calls \/ calls'[j].gen = job.gen
      BY CallGens
    <3>3. calls'[j].gen \in 1..job.gen \/ calls'[j].gen = job.gen
      BY <1>0, <3>2
    <3>4. ~(job.gen < calls'[j].gen)
      BY <1>0, <3>3
    <3> QED
      BY <1>4, <3>1, <3>4
  <2>2. CASE j \in DOMAIN calls
    BY <1>0, <1>1, <1>4, <2>1, <2>2 DEF Accounted
  <2>3. CASE j \notin DOMAIN calls
    <3>1. PICK l \in Lanes : Reserves(l) /\ calls'[j].gen = job.gen
      BY <2>3, CallGens
    <3>2. lane[l].pc \in AtWork /\ lane[l].gen = job.gen
      BY <3>1 DEF Reserves, Held, AtWork
    <3> QED
      BY <1>0, <1>1, <1>4, <2>1, <3>1, <3>2 DEF Accounted
  <2> QED
    BY <2>2, <2>3
<1> QED
  BY <1>2, <1>3, <1>4 DEF Accounted

\* An outcome for an attempt that had none, and its entry.
LEMMA EntryWritten ==
  ASSUME EntryEach, NEW g \in DOMAIN ledger, ledger[g] \notin Outcomes, NEW s \in Outcomes, NEW cost,
         ledger' = [ledger EXCEPT ![g] = s], costs' = costs \cup {Entry(g, cost)}
  PROVE  EntryEach'
<1>1. Entry(g, cost).gen = g
  BY DEF Entry
<1>2. ASSUME NEW h \in DOMAIN ledger
      PROVE  IF ledger'[h] \in Outcomes THEN \E c \in costs' : EntriesOf(h)' = {c} ELSE EntriesOf(h)' = {}
  <2>1. CASE h = g
    <3>1. EntriesOf(g) = {}
      BY DEF EntryEach
    <3>2. EntriesOf(g)' = {Entry(g, cost)}
      BY <1>1, <3>1 DEF EntriesOf
    <3> QED
      BY <2>1, <3>2
  <2>2. CASE h # g
    <3>1. EntriesOf(h)' = EntriesOf(h) /\ ledger'[h] = ledger[h]
      BY <1>1, <2>2 DEF EntriesOf
    <3>2. IF ledger[h] \in Outcomes THEN \E c \in costs : EntriesOf(h) = {c} ELSE EntriesOf(h) = {}
      BY DEF EntryEach
    <3> QED
      BY <3>1, <3>2
  <2> QED
    BY <2>1, <2>2
<1>3. DOMAIN ledger' = DOMAIN ledger
  OBVIOUS
<1> QED
  BY <1>2, <1>3 DEF EntryEach

LEMMA EntryStep ==
  ASSUME Base, Routed, EntryEach, Next
  PROVE  EntryEach'
<1>0. /\ DOMAIN ledger = 1..job.gen /\ job.gen \in Nat
      /\ ledger \in Seq(LedgerStates) /\ Len(ledger) = job.gen
      /\ costs \subseteq [gen : 1..job.gen, measured : BOOLEAN, amount : Nat]
  BY Rows, TypesUnfold DEF Base
<1>1. CASE BooksKept
  BY <1>1 DEF BooksKept, EntryEach, EntriesOf
<1>2. CASE Claims
  <2>1. ledger' = Append(ledger, "none") /\ costs' = costs
    BY <1>2 DEF Claims
  <2>2. /\ DOMAIN ledger' = DOMAIN ledger \cup {job.gen + 1} /\ ledger'[job.gen + 1] = "none"
        /\ \A g \in DOMAIN ledger : ledger'[g] = ledger[g]
    BY <1>0, <2>1
  <2>3. \A c \in costs : c.gen # job.gen + 1
    <3>1. \A c \in costs : c.gen \in 1..job.gen
      BY <1>0
    <3> QED
      BY <1>0, <3>1
  <2>4. \A g : EntriesOf(g)' = EntriesOf(g)
    BY <2>1 DEF EntriesOf
  <2>5. EntriesOf(job.gen + 1) = {} /\ "none" \notin Outcomes
    BY <2>3 DEF EntriesOf, Outcomes
  <2> QED
    BY <2>1, <2>2, <2>4, <2>5 DEF EntryEach
<1>3. ASSUME NEW l \in Lanes, NEW s \in {"handoff", "pending"}, Routes(l, s) PROVE EntryEach'
  <2> DEFINE g == lane[l].gen
  <2>1. ledger[g] = "none" /\ ledger' = [ledger EXCEPT ![g] = s] /\ costs' = costs
    BY <1>3 DEF Routes, Routed
  <2> HIDE DEF g
  <2>2. \A h : EntriesOf(h)' = EntriesOf(h)
    BY <2>1 DEF EntriesOf
  <2>3. "none" \notin Outcomes /\ s \notin Outcomes /\ DOMAIN ledger' = DOMAIN ledger
    BY <2>1 DEF Outcomes
  <2>4. \A h \in DOMAIN ledger : ledger'[h] \in Outcomes <=> ledger[h] \in Outcomes
    BY <2>1, <2>3
  <2> QED
    BY <2>1, <2>2, <2>3, <2>4 DEF EntryEach
<1>5. ASSUME NEW l \in Lanes, Applies(l) PROVE EntryEach'
  <2>1. /\ job.gen \in DOMAIN ledger /\ ledger[job.gen] \notin Outcomes
        /\ lane[l].outcome.result \in Outcomes
        /\ ledger' = [ledger EXCEPT ![job.gen] = lane[l].outcome.result]
        /\ costs' = costs \cup {Entry(job.gen, lane[l].outcome.cost)}
    BY <1>5, AppliedRows DEF Outcomes
  <2> QED
    BY <2>1, EntryWritten
<1> QED
  BY <1>1, <1>2, <1>3, <1>5, LedgerSteps DEF Base

\* The attempts the breaker counts.
Counting == {g \in DOMAIN ledger : /\ ledger[g] = "unavailable"
                                   /\ \A h \in DOMAIN ledger : ledger[h] = "succeeded" => h < g}

LEMMA BreakerStep ==
  ASSUME Base, Routed, BreakerCounts, Next
  PROVE  BreakerCounts'
<1>0. /\ DOMAIN ledger = 1..job.gen /\ job.gen \in Nat
      /\ ledger \in Seq(LedgerStates) /\ Len(ledger) = job.gen
      /\ breaker \in [failures : Nat, open : BOOLEAN]
  BY Rows, TypesUnfold DEF Base
<1>1. breaker.failures = Cardinality(Counting)
  BY DEF BreakerCounts, Counting
<1>2. SUFFICES breaker'.failures = Cardinality(Counting')
  BY DEF BreakerCounts, Counting
<1>3. CASE BooksKept
  BY <1>1, <1>3 DEF BooksKept, Counting
\* Rows that are neither unavailable nor succeeded change nothing.
<1>4. ASSUME DOMAIN ledger \subseteq DOMAIN ledger', breaker' = breaker,
             \A g \in DOMAIN ledger : ledger'[g] # ledger[g] =>
               {ledger[g], ledger'[g]} \cap {"unavailable", "succeeded"} = {},
             \A g \in DOMAIN ledger' : g \in DOMAIN ledger \/ ledger'[g] = "none"
      PROVE  breaker'.failures = Cardinality(Counting')
  <2>1. \A g \in DOMAIN ledger : /\ ledger'[g] = "unavailable" <=> ledger[g] = "unavailable"
                                 /\ ledger'[g] = "succeeded" <=> ledger[g] = "succeeded"
    BY <1>4
  <2>2. Counting' = Counting
    BY <1>4, <2>1 DEF Counting
  <2> QED
    BY <1>1, <1>4, <2>2
<1>5. CASE Claims
  <2>1. ledger' = Append(ledger, "none") /\ breaker' = breaker
    BY <1>5 DEF Claims
  <2> QED
    BY <1>0, <1>4, <2>1
<1>6. ASSUME NEW l \in Lanes, NEW s \in {"handoff", "pending"}, Routes(l, s)
      PROVE  breaker'.failures = Cardinality(Counting')
  <2>1. ledger' = [ledger EXCEPT ![lane[l].gen] = s] /\ breaker' = breaker /\ ledger[lane[l].gen] = "none"
    BY <1>6 DEF Routes, Routed
  <2> QED
    BY <1>4, <2>1
<1>8. ASSUME NEW l \in Lanes, Applies(l)
      PROVE  breaker'.failures = Cardinality(Counting')
  <2> DEFINE result == lane[l].outcome.result
  <2>1. /\ job.gen \in DOMAIN ledger /\ ledger[job.gen] = "pending"
        /\ ledger' = [ledger EXCEPT ![job.gen] = result]
        /\ breaker' = Fed(result) /\ result \in Results
    BY <1>8, AppliedRows
  <2> HIDE DEF result
  <2>2. DOMAIN ledger' = DOMAIN ledger /\ ledger'[job.gen] = result
        /\ \A g \in DOMAIN ledger : g # job.gen => ledger'[g] = ledger[g] /\ g < job.gen
    BY <1>0, <2>1
  <2>3. CASE result = "succeeded"
    <3>1. Counting' = {}
      BY <1>0, <2>1, <2>2, <2>3 DEF Counting
    <3> QED
      BY <2>1, <2>3, <3>1, FS_EmptySet DEF Fed
  <2>4. CASE result = "unavailable"
    <3>1. Counting' = Counting \cup {job.gen}
      BY <2>1, <2>2, <2>4 DEF Counting
    <3>2. job.gen \notin Counting
      BY <2>1 DEF Counting
    <3>3. IsFiniteSet(Counting)
      <4>1. IsFiniteSet(DOMAIN ledger)
        BY <1>0, FS_Interval
      <4> QED
        BY <4>1, FS_Subset DEF Counting
    <3>4. Cardinality(Counting') = Cardinality(Counting) + 1
      BY <3>1, <3>2, <3>3, FS_AddElement
    <3> QED
      BY <1>1, <2>1, <2>4, <3>4 DEF Fed
  <2>5. CASE result = "failed"
    <3>1. breaker' = breaker
      BY <2>1, <2>5 DEF Fed
    <3>2. Counting' = Counting
      BY <2>1, <2>2, <2>5 DEF Counting
    <3> QED
      BY <1>1, <3>1, <3>2
  <2> QED
    BY <2>1, <2>3, <2>4, <2>5 DEF Results
<1> QED
  BY <1>3, <1>5, <1>6, <1>8, LedgerSteps DEF Base

----------------------------------------------------------------------------
(***************************************************************************)
(* The calls of the lanes.                                                 *)
(***************************************************************************)
CallingOf(k) ==
  /\ lane[k].pc \in {"calling", "called"} =>
       /\ lane[k].call \in CallsOf(lane[k].gen)
       /\ calls[lane[k].call].status \in {"active", "unknown"}
       /\ Active(lane[k].gen) \subseteq {lane[k].call}
  /\ lane[k].pc \in {"reconciling", "working", "completing"} => Active(lane[k].gen) = {}

LEMMA CallingReserved ==
  ASSUME Base, Calling, NEW l \in Lanes, Reserves(l), NEW k \in Lanes
  PROVE  CallingOf(k)'
<1> DEFINE n == Len(calls) + 1
<1>1. /\ n \in DOMAIN calls' /\ calls'[n] = Call(job.gen)
      /\ \A i \in DOMAIN calls' : i = n \/ (i \in DOMAIN calls /\ calls'[i] = calls[i])
      /\ \A i \in DOMAIN calls : i \in DOMAIN calls' /\ calls'[i] = calls[i] /\ i # n
  <2>1. /\ n \in DOMAIN calls' /\ calls'[n] = Call(job.gen)
        /\ DOMAIN calls' = 1..n /\ DOMAIN calls = 1..(n - 1) /\ n - 1 \in Nat
        /\ \A i \in DOMAIN calls' : i = n \/ (i \in DOMAIN calls /\ calls'[i] = calls[i])
    BY ReservedRows DEF Base
  <2> QED
    BY <2>1
<1>2. calls'[n].gen = job.gen /\ calls'[n].status = "active"
  BY <1>1 DEF Call
<1>3. lane[l].gen = job.gen /\ lane[l].pc = "working" /\ lane \in [Lanes -> LaneRow] /\ lane[l] \in LaneRow
  BY TypesUnfold, Rows DEF Reserves, Held, Base
<1>4. lane' = [lane EXCEPT ![l].pc = "calling", ![l].call = n]
  BY DEF Reserves
<1> HIDE DEF n
<1>5. CASE k = l
  <2>1. lane'[k].pc = "calling" /\ lane'[k].call = n /\ lane'[k].gen = job.gen
    BY <1>3, <1>4, <1>5 DEF LaneRow
  <2>2. Active(job.gen) = {}
    BY <1>3 DEF Calling
  <2>3. n \in CallsOf(job.gen)' /\ Active(job.gen)' \subseteq {n}
    <3>0. job'.gen = job.gen
      BY DEF Reserves
    <3>1. \A i \in DOMAIN calls' : calls'[i].gen = job.gen /\ calls'[i].status = "active" => i = n
      BY <1>1, <2>2 DEF Active, CallsOf
    <3> QED
      BY <1>1, <1>2, <3>0, <3>1 DEF Active, CallsOf
  <2>4. job'.gen = job.gen
    BY DEF Reserves
  <2> QED
    BY <1>2, <2>1, <2>3, <2>4 DEF CallingOf
<1>6. CASE k # l
  <2>1. lane'[k] = lane[k] /\ (lane[k].pc # "idle" => lane[k].gen # job.gen)
    BY <1>3, <1>4, <1>6 DEF Base, Placed
  <2> DEFINE g == lane[k].gen
  <2>2. ASSUME g # job.gen
        PROVE  CallsOf(g)' = CallsOf(g) /\ \A i \in CallsOf(g) : calls'[i] = calls[i]
    BY <1>1, <1>2, <2>1, <2>2 DEF CallsOf
  <2>3. ASSUME g # job.gen PROVE Active(g)' = Active(g)
    BY <2>1, <2>2, <2>3 DEF Active
  <2> QED
    BY <2>1, <2>2, <2>3 DEF CallingOf, Calling
<1> QED
  BY <1>5, <1>6

LEMMA CallingStep ==
  ASSUME Base, Calling, Next
  PROVE  Calling'
<1>0. /\ lane \in [Lanes -> LaneRow] /\ job.gen \in Nat
      /\ \A l \in Lanes : lane[l] \in LaneRow /\ lane[l].gen \in 0..job.gen
  BY TypesUnfold, Rows DEF Base
<1>1. SUFFICES ASSUME NEW k \in Lanes PROVE CallingOf(k)'
  BY DEF Calling, CallingOf
<1>2. CallingOf(k)
  BY DEF Calling, CallingOf
\* A lane that stands, when no call is opened and its own is at most given up.
<1>3. ASSUME DOMAIN calls' = DOMAIN calls, lane'[k] = lane[k],
             \A i \in DOMAIN calls :
               /\ calls'[i].gen = calls[i].gen /\ (calls'[i].status = "active" => calls[i].status = "active")
               /\ lane[k].pc \in {"calling", "called"} /\ i = lane[k].call =>
                    calls'[i].status \in {calls[i].status, "unknown"}
      PROVE  CallingOf(k)'
  <2>1. \A g : CallsOf(g)' = CallsOf(g) /\ Active(g)' \subseteq Active(g)
    BY <1>3 DEF CallsOf, Active
  <2>2. CallsOf(lane[k].gen) \subseteq DOMAIN calls
    BY DEF CallsOf
  <2> QED
    BY <1>2, <1>3, <2>1, <2>2 DEF CallingOf
<1>4. ASSUME NEW l \in Lanes, Reserves(l) PROVE CallingOf(k)'
  BY <1>4, CallingReserved
<1>5. ASSUME NEW l \in Lanes, Sends(l) PROVE CallingOf(k)'
  <2>1. /\ DOMAIN calls' = DOMAIN calls
        /\ \A i \in DOMAIN calls : calls'[i].gen = calls[i].gen /\ calls'[i].status = calls[i].status
    BY <1>5, SentRows DEF Base
  <2>2. CASE k = l
    <3>1. /\ lane'[k].pc = "called" /\ lane'[k].gen = lane[k].gen /\ lane'[k].call = lane[k].call
          /\ lane[k].pc = "calling"
      BY <1>0, <1>5, <2>2 DEF Sends, LaneRow
    <3>2. \A g : CallsOf(g)' = CallsOf(g) /\ Active(g)' = Active(g)
      BY <2>1 DEF CallsOf, Active
    <3>3. CallsOf(lane[k].gen) \subseteq DOMAIN calls
      BY DEF CallsOf
    <3> QED
      BY <1>2, <2>1, <3>1, <3>2, <3>3 DEF CallingOf
  <2>3. CASE k # l
    <3>1. lane'[k] = lane[k]
      BY <1>0, <1>5, <2>3 DEF Sends
    <3> QED
      BY <1>3, <2>1, <3>1
  <2> QED
    BY <2>2, <2>3
<1>6. ASSUME NEW l \in Lanes, Settles(l) PROVE CallingOf(k)'
  <2> DEFINE n == lane[l].call
  <2>1. /\ n \in DOMAIN calls /\ DOMAIN calls' = DOMAIN calls
        /\ \A i \in DOMAIN calls : i # n => calls'[i] = calls[i]
        /\ \A i \in DOMAIN calls : calls'[i].gen = calls[i].gen
        /\ calls'[n].status \in {"failed", "succeeded"}
    BY <1>6, SettledRows DEF Base
  <2>2. n \in CallsOf(lane[l].gen) /\ Active(lane[l].gen) \subseteq {n}
    BY <1>6 DEF Settles, Calling
  <2>3. CASE k = l
    <3>1. lane'[k].pc = "working" /\ lane'[k].gen = lane[k].gen
      BY <1>0, <1>6, <2>3 DEF Settles, LaneRow
    <3>2. Active(lane[k].gen)' = {}
      <4>1. \A i \in DOMAIN calls' : ~(calls'[i].gen = lane'[k].gen /\ calls'[i].status = "active")
        BY <2>1, <2>2, <2>3, <3>1 DEF Active, CallsOf
      <4> QED
        BY <4>1 DEF Active, CallsOf
    <3> QED
      BY <3>1, <3>2 DEF CallingOf
  <2>4. CASE k # l
    <3>1. lane'[k] = lane[k]
      BY <1>0, <1>6, <2>4 DEF Settles
    <3>2. lane[k].pc \in {"calling", "called"} => lane[k].call # n
      <4>1. lane[k].pc \in {"calling", "called"} => lane[k].gen # lane[l].gen
        BY <1>6, <2>4 DEF Settles, Base, Placed
      <4> QED
        BY <1>2, <2>2, <4>1 DEF CallingOf, CallsOf
    <3>3. \A i \in DOMAIN calls :
            /\ calls'[i].gen = calls[i].gen /\ (calls'[i].status = "active" => calls[i].status = "active")
            /\ lane[k].pc \in {"calling", "called"} /\ i = lane[k].call =>
                 calls'[i].status \in {calls[i].status, "unknown"}
      BY <2>1, <3>2
    <3> QED
      BY <1>3, <2>1, <3>1, <3>3
  <2> QED
    BY <2>3, <2>4
<1>7. ASSUME calls' = calls \/ Closes PROVE CallingOf(k)'
  <2>1. /\ DOMAIN calls' = DOMAIN calls
        /\ \A i \in DOMAIN calls :
             /\ calls'[i].gen = calls[i].gen /\ calls'[i].status \in {calls[i].status, "unknown"}
    <3>1. CASE calls' = calls
      BY <3>1
    <3>2. CASE Closes
      BY <3>2, ClosedRows DEF Base
    <3> QED
      BY <1>7, <3>1, <3>2
  <2>2. \A g : CallsOf(g)' = CallsOf(g) /\ Active(g)' \subseteq Active(g)
    BY <2>1 DEF CallsOf, Active
  <2>3. CASE lane'[k] = lane[k]
    BY <1>3, <2>1, <2>3
  <2>4. ASSUME NEW l \in Lanes, Begins(l), k = l PROVE CallingOf(k)'
    <3>1. lane'[k].pc = "reconciling" /\ lane'[k].gen = job.gen + 1
      BY <1>0, <2>4 DEF Begins, Fresh
    <3>2. \A i \in DOMAIN calls : calls[i].gen # job.gen + 1
      <4>1. \A i \in DOMAIN calls : calls[i].gen \in 1..job.gen
        BY Rows DEF Base
      <4> QED
        BY <1>0, <4>1
    <3>3. Active(job.gen + 1) = {} /\ job'.gen = job.gen + 1
      BY <2>4, <3>2 DEF Active, CallsOf, Begins, Claims, ClaimedJob
    <3>4. calls' = calls
      BY <2>4 DEF Begins, Claims
    <3> QED
      BY <3>1, <3>3, <3>4 DEF CallingOf, Active, CallsOf
  <2>5. ASSUME NEW l \in Lanes, Fails(l), k = l PROVE CallingOf(k)'
    <3>1. lane'[k].pc \in {"failing", "refused"}
      BY <1>0, <2>5 DEF Fails, LaneRow
    <3> QED
      BY <3>1 DEF CallingOf
  <2>6. ASSUME NEW l \in Lanes, Stops(l), k = l PROVE CallingOf(k)'
    <3>1. lane'[k].pc = "idle"
      BY <1>0, <2>6 DEF Stops, Idle, Fresh
    <3> QED
      BY <3>1 DEF CallingOf
  <2>7. ASSUME NEW l \in Lanes, LaneEnds(l), k = l PROVE CallingOf(k)'
    <3>1. /\ lane'[k].pc \in {"failing", "completing"} /\ lane'[k].gen = lane[k].gen
          /\ lane'[k].pc = "completing" => lane[k].pc = "working"
      BY <1>0, <2>7 DEF LaneEnds, Ends
    <3> QED
      BY <1>2, <2>2, <3>1 DEF CallingOf
  <2>8. ASSUME NEW l \in Lanes, NEW s \in {"handoff", "pending"}, Routes(l, s), k = l PROVE CallingOf(k)'
    <3>1. /\ lane'[k].pc \in {"refused", "working"} /\ lane'[k].gen = lane[k].gen
          /\ lane[k].pc = "reconciling"
      BY <1>0, <2>8 DEF Routes, LaneRow
    <3> QED
      BY <1>2, <2>2, <3>1 DEF CallingOf
  <2>9. ASSUME NEW l \in Lanes, k # l,
               Begins(l) \/ Fails(l) \/ Stops(l) \/ LaneEnds(l) \/ \E s \in {"handoff", "pending"} : Routes(l, s)
        PROVE  lane'[k] = lane[k]
    BY <1>0, <2>9 DEF Begins, Fails, Stops, LaneEnds, Ends, Routes
  <2> QED
    BY <1>4, <1>5, <1>6, <2>3, <2>4, <2>5, <2>6, <2>7, <2>8, <2>9, LaneSteps DEF Base
<1> QED
  BY <1>4, <1>5, <1>6, <1>7, CallSteps

----------------------------------------------------------------------------
(***************************************************************************)
(* The invariant and the theorems.                                         *)
(***************************************************************************)
LEMMA InitInv ==
  ASSUME Init
  PROVE  IInv
<1>1. /\ DOMAIN calls = {} /\ DOMAIN ledger = {} /\ costs = {} /\ Len(calls) = 0 /\ Len(ledger) = 0
      /\ calls = <<>> /\ ledger = <<>>
  BY DEF Init
<1>2. \A l \in Lanes : lane[l] = Idle
  BY DEF Init
<1>3. /\ Idle.pc = "idle" /\ Idle.gen = 0 /\ Idle.outcome = NoOutcome /\ NoOutcome.result = "none"
  BY DEF Idle, Fresh, NoOutcome
<1>4. TypeOK
  <2>1. Unmeasured \in Costs
    BY DEF Unmeasured, Amount, Costs
  <2>2. NoOutcome \in [result : {"none"} \cup Outcomes, cost : Costs]
    BY <2>1 DEF NoOutcome
  <2>3. job.gen = 0 /\ job \in JobRow
    BY Bounds DEF Init, JobRow
  <2>4. Idle \in LaneRow
    BY <1>1, <2>2, <2>3 DEF Idle, Fresh, LaneRow
  <2>5. lane \in [Lanes -> LaneRow]
    BY <2>4 DEF Init
  <2>6. calls \in Seq(CallRow) /\ ledger \in Seq(LedgerStates) /\ Len(ledger) = job.gen
    BY <1>1, <2>3
  <2>7. breaker \in [failures : Nat, open : BOOLEAN] /\ events \in 0..MaxEvents
    BY Bounds DEF Init
  <2>8. costs \subseteq [gen : 1..job.gen, measured : BOOLEAN, amount : Nat]
    BY <1>1
  <2> QED
    BY <2>3, <2>5, <2>6, <2>7, <2>8, TypesUnfold
<1>5. Counted /\ Placed
  BY <1>2, <1>3, Bounds DEF Init, Counted, Placed
<1>6. ActiveIsHeld /\ Priced /\ Calling /\ EntryEach
  BY <1>1, <1>2, <1>3 DEF ActiveIsHeld, Priced, Calling, EntryEach
<1>7. SpendWithinBudget
  <2>1. DOMAIN CommittedTo = {}
    BY <1>1 DEF CommittedTo
  <2>2. Committed = 0
    BY <2>1, SumEmpty DEF Committed, SumFunction
  <2> QED
    BY <1>1, <2>2, Bounds DEF SpendWithinBudget
<1>8. Routed /\ Accounted
  BY <1>1, <1>2, <1>3 DEF Routed, Accounted, AtWork
<1>9. BreakerCounts
  <2>1. Counting = {} /\ breaker.failures = 0
    BY <1>1 DEF Counting, Init
  <2> QED
    BY <2>1, FS_EmptySet DEF BreakerCounts, Counting
<1> QED
  BY <1>4, <1>5, <1>6, <1>7, <1>8, <1>9 DEF IInv, Base

LEMMA StepInv ==
  ASSUME IInv, [Next]_vars
  PROVE  IInv'
<1>1. CASE Next
  <2>1. Base' /\ Calling' /\ Priced' /\ ActiveIsHeld' /\ Routed'
    BY <1>1, BaseStep, CallingStep, PricedStep, ActiveStep, RoutedStep DEF IInv
  <2>2. SpendWithinBudget'
    BY <1>1, <2>1, SpendStep DEF IInv
  <2>3. Accounted' /\ EntryEach' /\ BreakerCounts'
    BY <1>1, AccountedStep, EntryStep, BreakerStep DEF IInv
  <2> QED
    BY <2>1, <2>2, <2>3 DEF IInv
<1>2. CASE UNCHANGED vars
  <2>1. UNCHANGED <<job, calls, ledger, costs, breaker, lane, events>>
    BY <1>2 DEF vars, books
  <2>2. Base'
    BY <2>1 DEF IInv, Base, TypeOK, Counted, Placed
  <2>3. ActiveIsHeld' /\ Calling' /\ Priced' /\ Routed' /\ Accounted' /\ BreakerCounts'
    BY <2>1 DEF IInv, ActiveIsHeld, Calling, Priced, Routed, Accounted, BreakerCounts, CallsOf, Active
  <2>4. SpendWithinBudget'
    BY <2>1 DEF IInv, SpendWithinBudget, CommittedTo, Committed
  <2>5. EntryEach'
    BY <2>1 DEF IInv, EntryEach, EntriesOf
  <2> QED
    BY <2>2, <2>3, <2>4, <2>5 DEF IInv
<1> QED
  BY <1>1, <1>2

LEMMA Invariance == Spec => []IInv
  BY InitInv, StepInv, PTL DEF Spec

(***************************************************************************)
(* The job, its reservations, its ledger, its cost entries and its lanes   *)
(* keep their types: generations, call numbers and charges in their        *)
(* ranges, a ledger row for every claim.                                   *)
(***************************************************************************)
THEOREM Typing == Spec => []TypeOK
<1>1. IInv => TypeOK
  BY DEF IInv, Base
<1> QED
  BY <1>1, Invariance, PTL

(***************************************************************************)
(* However a claim ends, it leaves no reservation open: an open one        *)
(* belongs to the running job's present claim.                             *)
(***************************************************************************)
THEOREM ActiveTheorem == Spec => []ActiveIsHeld
<1>1. IInv => ActiveIsHeld
  BY DEF IInv
<1> QED
  BY <1>1, Invariance, PTL

(***************************************************************************)
(* For any prices and any number of attempts and lanes, what the provider  *)
(* billed is covered call by call by what is committed, and that never     *)
(* exceeds the job's budget.                                               *)
(***************************************************************************)
THEOREM SpendTheorem == Spec => []SpendWithinBudget
<1>1. IInv => SpendWithinBudget
  BY DEF IInv
<1> QED
  BY <1>1, Invariance, PTL

(* Accounted and EntryEach say it of calls and of sets of entries.         *)
LEMMA RecordedFollows ==
  ASSUME IInv
  PROVE  PaidAttemptsRecorded
<1>0. /\ DOMAIN ledger = 1..job.gen /\ job.gen \in Nat
      /\ \A l \in Lanes : lane[l].gen \in 0..job.gen
  BY Rows DEF IInv, Base
<1>1. ASSUME NEW g \in DOMAIN ledger, Paid(g), Behind(g) PROVE ledger[g] \in Outcomes
  <2>1. PICK i \in DOMAIN calls : calls[i].gen = g
    BY <1>1 DEF Paid, CallsOf
  <2>2. CASE job.status = "done"
    BY <2>1, <2>2 DEF IInv, Accounted
  <2>3. ASSUME NEW l \in Lanes, g < job.gen, Held(l), lane[l].pc \in {"working", "calling", "called", "completing"}
        PROVE  ledger[g] \in Outcomes
    BY <2>1, <2>3 DEF IInv, Accounted, Held, AtWork
  <2>4. ASSUME NEW h \in (g + 1)..job.gen, Paid(h) PROVE ledger[g] \in Outcomes
    <3>1. PICK j \in DOMAIN calls : calls[j].gen = h
      BY <2>4 DEF Paid, CallsOf
    <3>2. calls[i].gen < calls[j].gen
      BY <1>0, <2>1, <2>4, <3>1
    <3> QED
      BY <2>1, <3>2 DEF IInv, Accounted
  <2> QED
    BY <1>1, <2>2, <2>3, <2>4 DEF Behind
<1>2. ASSUME NEW g \in DOMAIN ledger
      PROVE  Cardinality({c \in costs : c.gen = g}) = IF ledger[g] \in Outcomes THEN 1 ELSE 0
  <2>1. CASE ledger[g] \in Outcomes
    <3>1. PICK c : EntriesOf(g) = {c}
      BY <2>1 DEF IInv, EntryEach
    <3> QED
      BY <2>1, <3>1, FS_Singleton DEF EntriesOf
  <2>2. CASE ledger[g] \notin Outcomes
    <3>1. EntriesOf(g) = {}
      BY <2>2 DEF IInv, EntryEach
    <3> QED
      BY <2>2, <3>1, FS_EmptySet DEF EntriesOf
  <2> QED
    BY <2>1, <2>2
<1> QED
  BY <1>1, <1>2 DEF PaidAttemptsRecorded

(***************************************************************************)
(* No lane that holds the job works, no attempt has made a call and no job *)
(* is done past a paid attempt that has no outcome, and every outcome has  *)
(* its one cost entry, for any number of lanes, attempts and calls.        *)
(***************************************************************************)
THEOREM RecordedTheorem == Spec => []PaidAttemptsRecorded
  BY RecordedFollows, Invariance, PTL

(***************************************************************************)
(* The breaker's count is the number of attempts found unavailable since   *)
(* the last success, whatever was retried or refused.                      *)
(***************************************************************************)
THEOREM BreakerTheorem == Spec => []BreakerCounts
<1>1. IInv => BreakerCounts
  BY DEF IInv
<1> QED
  BY <1>1, Invariance, PTL
=============================================================================
