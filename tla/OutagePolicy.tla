---------------------------- MODULE OutagePolicy ----------------------------
(***************************************************************************)
(* The outage decision policy of packages/ops/src/dependency-outage.ts and *)
(* the validator packages/db/src/dependency-outage-queue.ts applies to the *)
(* decision before it touches the ledger.  The two live in different       *)
(* packages that do not import each other; the policy is injected into the *)
(* queue.  Both are pure functions, so they are operators here.            *)
(*                                                                         *)
(* Instants are integers (the code compares canonical ISO strings, whose   *)
(* order is the order of the instants); Never stands for a null instant.   *)
(***************************************************************************)
EXTENDS Integers

CONSTANTS
  Cooldown,   \* circuit_cooldown_ms, set at enqueue and never changed
  Delays      \* the delays deterministicRetryDelayMs can return

ASSUME CooldownAssumption == Cooldown \in Nat \ {0}
ASSUME DelaysAssumption == Delays \subseteq Nat /\ Delays # {}

Never == -1

\* CIRCUIT_FAILURE_THRESHOLD
FailureThreshold == 3

Transients == {"timeout", "throttled", "transient", "invalid_response"}

AuthorityKinds == {"authentication", "permission"}

FailureKinds == Transients \cup AuthorityKinds \cup {"permanent", "expired", "completed"}

CircuitStates == {"closed", "open", "half_open"}

Standings == {"healthy", "degraded_retrying", "degraded_blocked",
              "degraded_failed", "recovering"}

Circuits == [state : CircuitStates, openedAt : Nat \cup {Never}, failures : Nat]

ClosedCircuit == [state |-> "closed", openedAt |-> Never, failures |-> 0]

Actions == {"retry", "wait", "await_authority", "fail", "reconcile"}

RetryReasons == {"half_open_probe", "provider_throttled", "provider_response_invalid",
                 "provider_timeout", "transient_failure"}

WaitReasons == {"circuit_open", "circuit_opened", "provider_throttled"}

FailReasons == {"operation_expired", "permanent_failure", "retry_budget_exhausted"}

AuthorityReason == "authority_change_required"

ReconcileReason == "completed_effect_requires_reconciliation"

Reasons == RetryReasons \cup WaitReasons \cup FailReasons
             \cup {AuthorityReason, ReconcileReason}

Decisions == [action : Actions, kind : FailureKinds, reason : Reasons,
              next : Nat \cup {Never}, remaining : Nat,
              circuit : Circuits, standing : Standings]

(***************************************************************************)
(* What classify is given: the claim's snapshot, the failure kind and the  *)
(* instant of the failure (failThroughPolicy's context).                   *)
(***************************************************************************)
FailureInputs == [kind : FailureKinds, attempt : Nat, budget : Nat, now : Nat,
                  expires : Nat, circuit : Circuits]

Remaining(budget, attempt) == IF budget > attempt THEN budget - attempt ELSE 0

Opened(circuit, at) ==
  [state |-> "open", openedAt |-> at, failures |-> circuit.failures + 1]

Decide(in, action, reason, next, circuit, standing) ==
  [action |-> action, kind |-> in.kind, reason |-> reason, next |-> next,
   remaining |-> Remaining(in.budget, in.attempt), circuit |-> circuit,
   standing |-> standing]

Expired(in) ==
  [Decide(in, "fail", "operation_expired", Never, Opened(in.circuit, in.now),
          "degraded_failed") EXCEPT !.kind = "expired"]

RetryReason(kind) ==
  CASE kind = "throttled" -> "provider_throttled"
    [] kind = "invalid_response" -> "provider_response_invalid"
    [] kind = "timeout" -> "provider_timeout"
    [] OTHER -> "transient_failure"

(***************************************************************************)
(* An open circuit: wait out the cooldown, then allow one half-open probe. *)
(***************************************************************************)
WhileOpen(in) ==
  LET probeAt == in.circuit.openedAt + Cooldown
  IN  IF in.now >= probeAt
      THEN Decide(in, "retry", "half_open_probe", in.now,
                  [in.circuit EXCEPT !.state = "half_open"], "recovering")
      ELSE IF probeAt >= in.expires
      THEN Expired(in)
      ELSE Decide(in, "wait", "circuit_open", probeAt, in.circuit, "degraded_retrying")

(***************************************************************************)
(* A failed probe, or the failure that reaches the threshold, opens it.    *)
(***************************************************************************)
Trips(circuit) ==
  circuit.state = "half_open" \/ circuit.failures + 1 >= FailureThreshold

Trip(in) ==
  IF in.now + Cooldown >= in.expires
  THEN Expired(in)
  ELSE Decide(in, "wait", "circuit_opened", in.now + Cooldown,
              Opened(in.circuit, in.now), "degraded_retrying")

(* Broken variant: an attempt is scheduled at the very instant the window closes. *)
BackoffOffByOne(in, delay) ==
  IF in.now + delay > in.expires
  THEN Expired(in)
  ELSE Decide(in, "retry", RetryReason(in.kind), in.now + delay,
              [state |-> "closed", openedAt |-> Never, failures |-> in.circuit.failures + 1],
              "degraded_retrying")

Backoff(in, delay) ==
  IF in.now + delay >= in.expires
  THEN Expired(in)
  ELSE Decide(in, "retry", RetryReason(in.kind), in.now + delay,
              [state |-> "closed", openedAt |-> Never, failures |-> in.circuit.failures + 1],
              "degraded_retrying")

(***************************************************************************)
(* classifyDependencyOutage; delay is what deterministicRetryDelayMs       *)
(* returns.  The order of the tests is the code's: reconciliation comes    *)
(* before expiry, expiry before authority, the budget before the circuit.  *)
(***************************************************************************)
Classify(in, delay) ==
  IF in.kind = "completed"
  THEN Decide(in, "reconcile", ReconcileReason, Never, in.circuit, "recovering")
  ELSE IF in.kind = "expired" \/ in.now >= in.expires
  THEN Expired(in)
  ELSE IF in.kind \in AuthorityKinds
  THEN Decide(in, "await_authority", AuthorityReason, Never,
              Opened(in.circuit, in.now), "degraded_blocked")
  ELSE IF in.kind = "permanent"
  THEN Decide(in, "fail", "permanent_failure", Never,
              Opened(in.circuit, in.now), "degraded_failed")
  ELSE IF in.attempt >= in.budget
  THEN Decide(in, "fail", "retry_budget_exhausted", Never,
              Opened(in.circuit, in.now), "degraded_failed")
  ELSE IF in.circuit.state = "open"
  THEN WhileOpen(in)
  ELSE IF Trips(in.circuit)
  THEN Trip(in)
  ELSE Backoff(in, delay)

(***************************************************************************)
(* classifyDependencyOutage throws on an attempt below one and on an open  *)
(* circuit that does not say since when.                                   *)
(***************************************************************************)
CircuitValid(circuit) == circuit.state = "open" => circuit.openedAt # Never

ClassifyThrows(in) == in.attempt < 1 \/ in.budget < 1 \/ ~CircuitValid(in.circuit)

(***************************************************************************)
(* validateFailureDecision: the tables DECISION_FAILURE_KINDS and          *)
(* DECISION_REASONS, and the standing, the circuit and the next attempt    *)
(* each action may come with.                                              *)
(***************************************************************************)
AllowedKinds(action) ==
  CASE action \in {"retry", "wait"} -> Transients
    [] action = "await_authority" -> AuthorityKinds
    [] action = "fail" -> Transients \cup {"permanent", "expired"}
    [] action = "reconcile" -> {"completed"}

AllowedReasons(action) ==
  CASE action = "retry" -> RetryReasons
    [] action = "wait" -> WaitReasons
    [] action = "await_authority" -> {AuthorityReason}
    [] action = "fail" -> FailReasons
    [] action = "reconcile" -> {ReconcileReason}

AllowedStandings(action) ==
  CASE action = "retry" -> {"degraded_retrying", "recovering"}
    [] action = "wait" -> {"degraded_retrying"}
    [] action = "await_authority" -> {"degraded_blocked"}
    [] action = "fail" -> {"degraded_failed"}
    [] action = "reconcile" -> {"recovering"}

AllowedCircuits(action) ==
  CASE action = "retry" -> {"closed", "half_open"}
    [] action = "reconcile" -> CircuitStates
    [] OTHER -> {"open"}

ValidDecision(d) ==
  /\ d.action \in Actions
  /\ CircuitValid(d.circuit)
  /\ (d.action \in {"retry", "wait"}) <=> (d.next # Never)
  /\ d.kind \in AllowedKinds(d.action)
  /\ d.reason \in AllowedReasons(d.action)
  /\ d.standing \in AllowedStandings(d.action)
  /\ d.circuit.state \in AllowedCircuits(d.action)
=============================================================================
