---------------------------- MODULE PaidAttempts ----------------------------
(***************************************************************************)
(* What the model calls of one agent.run job cost, over all its attempts:  *)
(* the reservations a lane makes before it calls the provider              *)
(* (packages/db/src/warden-model-accounting.ts), the routing decision and  *)
(* outcome of each attempt with the circuit breaker it feeds               *)
(* (packages/db/src/index.ts, apps/worker/src/warden-router.ts), and the   *)
(* cost entries of the Mission the job is bound to                         *)
(* (apps/worker/src/mission-task-job-bridge.ts), as the agent.run handler  *)
(* of apps/worker/src/cli.ts drives them.                                  *)
(*                                                                         *)
(* An attempt is named by the lease generation it runs under: routing run, *)
(* envelope, outcome key and execution id all contain it.  A lane's step   *)
(* is one transaction, or one call to the provider.  A lease has no clock: *)
(* it lapses at any time while its lane works (an overrun), and in the end *)
(* when no lane does.  Tokens follow the money and are left out.           *)
(***************************************************************************)
EXTENDS Naturals, Sequences, FiniteSetsExt

CONSTANTS
  Lanes,        \* worker lanes
  Budget,       \* jobBudgetUsd, for all attempts together
  MaxCost,      \* maximumCallCostUsd, reserved for a call
  Bills,        \* what the provider can charge for a call
  MaxCalls,     \* maxModelCalls of an attempt
  MaxAttempts,  \* max_attempts of the job
  Threshold,    \* failureThreshold of the breaker
  MaxEvents     \* bound on overrun leases, crashes, errors outside the attempt and requests

\* The provider keeps to the output bound it is sent, which the reservation is priced by.
ASSUME BillsAssumption == Bills \subseteq 1..MaxCost

ASSUME BoundsAssumption ==
  /\ {Budget, MaxCalls, MaxEvents} \subseteq Nat
  /\ {MaxCost, MaxAttempts, Threshold} \subseteq Nat \ {0}

VARIABLES
  job,      \* the jobs row; live is that its lease has not lapsed
  calls,    \* fettler_model_reservations, in the order of their insertion
  ledger,   \* outcome in routing_ledger, by generation
  costs,    \* actual_execution_cost_entries of the job
  breaker,  \* routing_executor_health of the job's executor
  lane,     \* what each lane is doing
  events    \* how many of the bounded events happened so far

books == <<calls, ledger, costs, breaker>>
vars == <<job, books, lane, events>>

----------------------------------------------------------------------------
CallStatuses == {"active", "succeeded", "failed", "unknown"}

\* reported is reported_cost_usd, 0 when it is null; bill is a history of
\* what the provider charged, which the program may never learn.
Call(g) == [gen |-> g, status |-> "active", charge |-> 0, reported |-> 0, bill |-> 0]

\* pending and handoff are rows without an outcome, the latter of a decision not to execute.
Outcomes == {"succeeded", "failed", "unavailable"}

LedgerStates == {"none", "pending", "handoff"} \cup Outcomes

Amount(measured, n) == [measured |-> measured, amount |-> n]

Unmeasured == Amount(FALSE, 0)

NoOutcome == [result |-> "none", cost |-> Unmeasured]

Fresh(pc, g) == [pc |-> pc, gen |-> g, call |-> 0, outcome |-> NoOutcome]

Idle == Fresh("idle", 0)

Init ==
  /\ job = [status |-> "pending", gen |-> 0, attempts |-> 0, live |-> FALSE]
  /\ calls = <<>>
  /\ ledger = <<>>
  /\ costs = {}
  /\ breaker = [failures |-> 0, open |-> FALSE]
  /\ lane = [l \in Lanes |-> Idle]
  /\ events = 0

----------------------------------------------------------------------------
(* Reading the tables.                                                     *)
CallsOf(g) == {i \in DOMAIN calls : calls[i].gen = g}

Paid(g) == CallsOf(g) # {}

Active(g) == {i \in CallsOf(g) : calls[i].status = "active"}

CommittedTo ==
  [i \in DOMAIN calls |-> IF calls[i].status = "active" THEN MaxCost ELSE calls[i].charge]

Committed == SumFunction(CommittedTo)

Reported(g) == SumFunctionOnSet([i \in DOMAIN calls |-> calls[i].reported], CallsOf(g))

\* The fence of completeJob, failJob and the reservations: assertLease.
Held(l) == job.status = "running" /\ job.gen = lane[l].gen /\ job.live

\* settleUnknownReservation of the active calls of the job's present claim.
Written(i) ==
  IF i \in Active(job.gen)
  THEN [calls[i] EXCEPT !.status = "unknown", !.charge = MaxCost] ELSE calls[i]

SettleUnknown == calls' = [i \in DOMAIN calls |-> Written(i)]

Event == events < MaxEvents /\ events' = events + 1

Go(l, pc) == lane' = [lane EXCEPT ![l].pc = pc]

Stop(l) == lane' = [lane EXCEPT ![l] = Idle]

\* The attempt is over; its outcome is kept until the job is settled
\* (deferOutcomePersistence).
Finish(l, pc, result, cost) ==
  lane' = [lane EXCEPT ![l].pc = pc, ![l].call = 0, ![l].outcome = [result |-> result, cost |-> cost]]

\* An error the dispatcher records as a failed outcome without a cost.
Throw(l) == Finish(l, "failing", "failed", Unmeasured)

----------------------------------------------------------------------------
(* claimNextJob, and recoverExpiredJobs within it.                         *)
Claim(l) ==
  /\ lane[l].pc = "idle" /\ job.status = "pending"
  /\ job' = [status |-> "running", gen |-> job.gen + 1, attempts |-> job.attempts + 1, live |-> TRUE]
  /\ ledger' = Append(ledger, "none")
  /\ lane' = [lane EXCEPT ![l] = Fresh("reconciling", job.gen + 1)]
  /\ UNCHANGED <<calls, costs, breaker, events>>

\* Mutant: one attempt too many.
RequeuedOnceMore == job.attempts <= MaxAttempts

Requeued == job.attempts < MaxAttempts

Over(status) == [job EXCEPT !.status = status, !.live = FALSE]

\* Mutant: the jobs are recovered first, so the settlement finds no running job.
RecoverThenSettle(l) ==
  /\ lane[l].pc = "idle" /\ job.status = "running" /\ ~job.live
  /\ job' = Over(IF Requeued THEN "pending" ELSE "dead_letter")
  /\ UNCHANGED <<calls, ledger, costs, breaker, lane, events>>

\* Mutant: only a job with attempts left is recovered.
RecoverWithinBudget(l) ==
  /\ lane[l].pc = "idle" /\ job.status = "running" /\ ~job.live /\ Requeued
  /\ SettleUnknown
  /\ job' = Over("pending")
  /\ UNCHANGED <<ledger, costs, breaker, lane, events>>

Recover(l) ==
  /\ lane[l].pc = "idle" /\ job.status = "running" /\ ~job.live
  /\ SettleUnknown
  /\ job' = Over(IF Requeued THEN "pending" ELSE "dead_letter")
  /\ UNCHANGED <<ledger, costs, breaker, lane, events>>

(* reconcilePriorPaidWardenAttempts: the earlier paid attempts whose outcome *)
(* was lost.  Each is refused: the function imports only a decision whose   *)
(* action is "route", and the router of the worker records "execute" for a  *)
(* decision to execute (there is no call without one).  So what the         *)
(* function does after that check is never reached, and the error, which    *)
(* the classifier does not retry, is all an attempt gets of it.             *)

\* Mutant: only the attempt before this one is looked at.
LostJustBefore(g) == {h \in 1..(g - 1) : h = g - 1 /\ ledger[h] = "pending" /\ Paid(h)}

Lost(g) == {h \in 1..(g - 1) : ledger[h] = "pending" /\ Paid(h)}

Reconcile(l) ==
  /\ lane[l].pc = "reconciling" /\ Lost(lane[l].gen) # {}
  /\ Go(l, "refused")
  /\ UNCHANGED <<job, books, events>>

\* Anything before the routing decision throws: there is no outcome to record.
FailEarly(l) ==
  /\ lane[l].pc = "reconciling" /\ Event
  /\ Go(l, "failing")
  /\ UNCHANGED <<job, books>>

(* prepare: the routing decision, under the breaker as it stands.          *)
Route(l) ==
  /\ lane[l].pc = "reconciling" /\ Lost(lane[l].gen) = {}
  /\ ledger' = [ledger EXCEPT ![lane[l].gen] = IF breaker.open THEN "handoff" ELSE "pending"]
  /\ Go(l, IF breaker.open THEN "refused" ELSE "working")
  /\ UNCHANGED <<job, calls, costs, breaker, events>>

----------------------------------------------------------------------------
(* A call: reserve, the request, settle (reserveWardenModelCall,           *)
(* settleWardenModelCall).  A call without an answer ends the agent's loop. *)
Unanswered(g) == {i \in CallsOf(g) : calls[i].status = "failed" /\ calls[i].reported = 0}

Affordable == Committed + MaxCost <= Budget

Reserve(l) ==
  /\ lane[l].pc = "working" /\ Unanswered(lane[l].gen) = {}
  /\ Cardinality(CallsOf(lane[l].gen)) < MaxCalls
  /\ IF Held(l) /\ Affordable
     THEN /\ calls' = Append(calls, Call(lane[l].gen))
          /\ lane' = [lane EXCEPT ![l].pc = "calling", ![l].call = Len(calls) + 1]
     ELSE Throw(l) /\ UNCHANGED calls
  /\ UNCHANGED <<job, ledger, costs, breaker, events>>

\* The request is sent whatever became of the lease; the provider bills it or not.
Send(l) ==
  /\ lane[l].pc = "calling"
  /\ \E b \in {0} \cup Bills : calls' = [calls EXCEPT ![lane[l].call].bill = b]
  /\ Go(l, "called")
  /\ UNCHANGED <<job, ledger, costs, breaker, events>>

\* Mutant: a failed call is charged what it reported.
SettledAsReported(c, status, reported) ==
  [c EXCEPT !.status = status, !.reported = reported, !.charge = reported]

\* materializeSettlement: only an exact success is charged what it cost.
Settled(c, status, reported) ==
  [c EXCEPT !.status = status, !.reported = reported,
            !.charge = IF status = "succeeded" THEN reported ELSE MaxCost]

\* An answer that is used, an answer that is invalid, none.
Settlements(c) ==
  {Settled(c, "failed", 0)} \cup
  IF c.bill = 0 THEN {} ELSE {Settled(c, "succeeded", c.bill), Settled(c, "failed", c.bill)}

Settle(l) ==
  /\ lane[l].pc = "called"
  /\ IF Held(l)
     THEN /\ \E c \in Settlements(calls[lane[l].call]) : calls' = [calls EXCEPT ![lane[l].call] = c]
          /\ lane' = [lane EXCEPT ![l].pc = "working", ![l].call = 0]
     ELSE Throw(l) /\ UNCHANGED calls
  /\ UNCHANGED <<job, ledger, costs, breaker, events>>

\* The lane notices a lost lease or fails otherwise, perhaps with a call reserved.
Abort(l) ==
  /\ lane[l].pc \in {"working", "calling", "called"} /\ Event
  /\ Throw(l)
  /\ UNCHANGED <<job, books>>

\* agentEvidence: the usage counts as measured when there was a call at all.
MeasuredCost(g) == IF Paid(g) THEN Amount(TRUE, Reported(g)) ELSE Unmeasured

End(l) ==
  /\ lane[l].pc = "working"
  /\ LET cost == MeasuredCost(lane[l].gen)
     IN  \/ /\ Unanswered(lane[l].gen) = {}
            /\ Finish(l, "completing", "succeeded", cost)
         \/ \E result \in {"failed", "unavailable"} : Finish(l, "failing", result, cost)
  /\ UNCHANGED <<job, books, events>>

----------------------------------------------------------------------------
(* Settling the job, its outcome and its cost entry in one transaction:    *)
(* persistCompletedAgentJob and persistFailedAgentJob.  A second outcome   *)
(* of an attempt would be refused (routing_outcome_idempotency_conflict).  *)
Fed(result) ==
  IF result = "succeeded" THEN [failures |-> 0, open |-> FALSE]
  ELSE IF result = "unavailable"
  THEN [failures |-> breaker.failures + 1, open |-> breaker.failures + 1 >= Threshold]
  ELSE breaker

Entry(g, cost) == [gen |-> g, measured |-> cost.measured, amount |-> cost.amount]

Apply(l) ==
  LET outcome == lane[l].outcome
  IN  IF outcome.result = "none" THEN UNCHANGED <<ledger, costs, breaker>>
      ELSE /\ ledger' = [ledger EXCEPT ![lane[l].gen] = outcome.result]
           /\ costs' = costs \cup {Entry(lane[l].gen, outcome.cost)}
           /\ breaker' = Fed(outcome.result)

Complete(l) ==
  /\ lane[l].pc = "completing"
  /\ IF Held(l)
     THEN job' = Over("done") /\ Apply(l) /\ Stop(l)
     ELSE Go(l, "failing") /\ UNCHANGED <<job, ledger, costs, breaker>>
  /\ UNCHANGED <<calls, events>>

\* The terminal checkpoint or the completion's other effects are refused:
\* rolled back, and the attempt fails with the outcome it had.
RefuseCompletion(l) ==
  /\ lane[l].pc = "completing" /\ Event
  /\ Go(l, "failing")
  /\ UNCHANGED <<job, books>>

\* Mutant: the outcome is applied whether or not the job could be failed.
FailJobUnfenced(l) ==
  /\ lane[l].pc \in {"failing", "refused"}
  /\ IF Held(l)
     THEN SettleUnknown /\ job' = Over(IF Requeued THEN "pending" ELSE "dead_letter")
     ELSE UNCHANGED <<job, calls>>
  /\ Apply(l) /\ Stop(l)
  /\ UNCHANGED events

FailJob(l) ==
  /\ lane[l].pc \in {"failing", "refused"}
  /\ IF Held(l)
     THEN /\ SettleUnknown
          /\ \E retryable \in BOOLEAN :
               /\ lane[l].pc = "refused" => ~retryable
               /\ job' = Over(IF retryable /\ Requeued THEN "pending" ELSE "dead_letter")
          /\ Apply(l)
     ELSE UNCHANGED <<job, books>>
  /\ Stop(l)
  /\ UNCHANGED events

----------------------------------------------------------------------------
(* The environment.                                                        *)

\* Also a WardenAtomicFinalizationError, which ends the worker's loop.
Crash(l) ==
  /\ lane[l].pc # "idle" /\ Event
  /\ Stop(l)
  /\ UNCHANGED <<job, books>>

Orphaned == \A l \in Lanes : lane[l].pc = "idle" \/ lane[l].gen # job.gen

Lapse ==
  /\ job.live
  /\ IF Orphaned THEN UNCHANGED events ELSE Event
  /\ job' = [job EXCEPT !.live = FALSE]
  /\ UNCHANGED <<books, lane>>

\* openDurationMs has passed since the last failure.
Cooldown ==
  /\ breaker.open
  /\ breaker' = [breaker EXCEPT !.open = FALSE]
  /\ UNCHANGED <<job, calls, ledger, costs, lane, events>>

CancelJob ==
  /\ job.status \in {"pending", "dead_letter"} /\ Event
  /\ job' = Over("cancelled")
  /\ UNCHANGED <<books, lane>>

RetryJob ==
  /\ job.status \in {"dead_letter", "cancelled"} /\ Event
  /\ job' = [Over("pending") EXCEPT !.attempts = 0]
  /\ UNCHANGED <<books, lane>>

Attempt(l) ==
  \/ Reconcile(l) \/ Route(l)
  \/ Reserve(l) \/ Send(l) \/ Settle(l) \/ End(l)
  \/ Complete(l) \/ FailJob(l)

Trouble(l) == FailEarly(l) \/ Abort(l) \/ RefuseCompletion(l) \/ Crash(l)

Next ==
  \/ \E l \in Lanes : Claim(l) \/ Recover(l) \/ Attempt(l) \/ Trouble(l)
  \/ Lapse \/ Cooldown \/ CancelJob \/ RetryJob

Spec == Init /\ [][Next]_vars

\* Some lane is at work or looking for it, and a lease nobody renews ends.
FairSpec ==
  /\ Spec
  /\ WF_vars(\E l \in Lanes : Claim(l) \/ Recover(l) \/ Attempt(l))
  /\ WF_vars(Lapse /\ Orphaned)

----------------------------------------------------------------------------
(* Type correctness of the rows, the lanes and the bounded counter.        *)
Costs == [measured : BOOLEAN, amount : Nat]

TypeOK ==
  /\ job \in [status : {"pending", "running", "done", "dead_letter", "cancelled"},
              gen : Nat, attempts : 0..MaxAttempts, live : BOOLEAN]
  /\ calls \in Seq([gen : 1..job.gen, status : CallStatuses, charge : 0..MaxCost,
                    reported : {0} \cup Bills, bill : {0} \cup Bills])
  /\ ledger \in Seq(LedgerStates) /\ Len(ledger) = job.gen
  /\ costs \subseteq [gen : 1..job.gen, measured : BOOLEAN, amount : Nat]
  /\ breaker \in [failures : Nat, open : BOOLEAN]
  /\ lane \in [Lanes -> [pc : {"idle", "reconciling", "refused", "working", "calling", "called",
                               "completing", "failing"},
                         gen : 0..job.gen, call : 0..Len(calls),
                         outcome : [result : {"none"} \cup Outcomes, cost : Costs]]]
  /\ events \in 0..MaxEvents

(* A reservation is open only while its attempt is the job's claim: every  *)
(* way a claim ends closes what it has open (settleExpired... in the       *)
(* recovery, settleActive...ForFence in the failure path, the completion's *)
(* assertWardenModelAccountingSettled), so no budget is held by the dead   *)
(* and the next attempt can read the evidence of this one.                 *)
ActiveIsHeld ==
  \A i \in DOMAIN calls :
    calls[i].status = "active" => job.status = "running" /\ calls[i].gen = job.gen

(* All attempts together never cost more than the job's budget, whatever   *)
(* became of answers, leases and lanes (reserveWardenModelCall): what the  *)
(* provider billed is covered by what the ledger holds against the budget, *)
(* call by call, even when the request left after the lease was gone.      *)
SpendWithinBudget ==
  /\ \A i \in DOMAIN calls : calls[i].bill <= CommittedTo[i]
  /\ Committed <= Budget

(* Nothing is spent, and no job is done, past paid work that is not        *)
(* accounted for: when a lane that holds the job works on, when a later    *)
(* attempt has made a call, or when the job is done, every earlier attempt *)
(* with a call has its outcome (reconcilePriorPaidWardenAttempts comes     *)
(* before the routing decision and fails closed); and an outcome has       *)
(* exactly one cost entry, which nothing else has                          *)
(* (recordBoundMissionExecutionCost).                                      *)
Behind(g) ==
  \/ g < job.gen /\ \E l \in Lanes : Held(l) /\ lane[l].pc \in {"working", "calling", "called", "completing"}
  \/ \E h \in (g + 1)..job.gen : Paid(h)
  \/ g <= job.gen /\ job.status = "done"

PaidAttemptsRecorded ==
  /\ \A g \in DOMAIN ledger : Paid(g) /\ Behind(g) => ledger[g] \in Outcomes
  /\ \A g \in DOMAIN ledger :
       Cardinality({c \in costs : c.gen = g}) = IF ledger[g] \in Outcomes THEN 1 ELSE 0

(* The breaker counts the attempts that found the executor unavailable     *)
(* since the last success, each once and none of a lane that lost its      *)
(* lease, though outcomes are held back and refused completions retried    *)
(* (recordRoutingOutcomeExactlyOnce).                                      *)
BreakerCounts ==
  breaker.failures =
    Cardinality({g \in DOMAIN ledger : /\ ledger[g] = "unavailable"
                                       /\ \A h \in DOMAIN ledger : ledger[h] = "succeeded" => h < g})

(* A job with paid work that is not accounted for comes to rest where      *)
(* people see it, as often as they retry it: its attempts are refused, and *)
(* none is left running or pending for ever (classifyJobFailure, failJob,  *)
(* recoverExpiredJobs).                                                    *)
Recorded(g) == g \in DOMAIN ledger /\ ledger[g] \in Outcomes

Unaccounted(g) == Paid(g) /\ ~Recorded(g) /\ (job.status # "running" \/ job.gen > g)

Generations == 1..(2 * MaxAttempts)

LostAttemptStopsJob ==
  \A g \in Generations : Unaccounted(g) ~> job.status \in {"dead_letter", "cancelled"}

(* What the comment of reconcilePriorPaidWardenAttempts promises, and the   *)
(* action it looks for breaks: an attempt with a paid call whose outcome   *)
(* was lost is recorded in the end, unless the job was given up before     *)
(* another attempt came.                                                   *)
CostRecovered ==
  \A g \in Generations :
    (Paid(g) /\ ~Recorded(g)) ~>
      (Recorded(g) \/ (job.status \in {"dead_letter", "cancelled"} /\ job.gen = g))

============================================================================
