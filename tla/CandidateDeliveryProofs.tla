----------------------- MODULE CandidateDeliveryProofs -----------------------
(***************************************************************************)
(* Proofs about CandidateDelivery, for any number of deliveries and lanes  *)
(* and any bounds.                                                         *)
(***************************************************************************)
EXTENDS CandidateDelivery, TLAPS

USE NoneAssumption, BoundsAssumption

----------------------------------------------------------------------------
(* Types.                                                                  *)

LEMMA InitTypeOK == Init => TypeOK
  BY DEF Init, TypeOK, NoTask, Tasks, NoAuthority, Authorities, TaskStatuses, JobRows,
         DeliveryStates, DispatchStates, RemoteStates, Idle, LaneStates, Steps, Failures

(* A lane that works holds a delivery.                                     *)
LEMMA WorkingLane ==
  ASSUME TypeOK, NEW l \in Lanes, lane[l].pc # "idle"
  PROVE  lane[l].d \in Deliveries
  BY DEF TypeOK, LaneStates

LEMMA RecoveredType ==
  ASSUME TypeOK
  PROVE  /\ Recovered \in [Deliveries -> JobRows]
         /\ \A d \in Deliveries :
              /\ Recovered[d].gen = job[d].gen
              /\ ~Recovered[d].lapsed
              /\ IF job[d].lapsed
                 THEN Recovered[d].status \in {"pending", "dead_letter"}
                 ELSE Recovered[d] = job[d]
  <1>1. ASSUME NEW d \in Deliveries
        PROVE  /\ Recovered[d] \in JobRows
               /\ Recovered[d].gen = job[d].gen
               /\ ~Recovered[d].lapsed
               /\ IF job[d].lapsed
                  THEN Recovered[d].status \in {"pending", "dead_letter"}
                  ELSE Recovered[d] = job[d]
    <2>1. job[d] \in JobRows
      BY DEF TypeOK
    <2>2. CASE job[d].lapsed
      <3>1. PICK s \in {"pending", "dead_letter"} :
              Recovered[d] = [job[d] EXCEPT !.lapsed = FALSE, !.status = s]
        BY <2>2 DEF Recovered
      <3>. QED
        BY <2>1, <2>2, <3>1 DEF JobRows
    <2>3. CASE ~job[d].lapsed
      BY <2>1, <2>3 DEF Recovered
    <2>. QED
      BY <2>2, <2>3
  <1>. QED
    BY <1>1 DEF Recovered

(* What a step of lane l does to the lanes: it moves on with its delivery, *)
(* or rests.                                                               *)
Moves(l, S) ==
  /\ lane' \in [Lanes -> LaneStates]
  /\ \A k \in Lanes : lane'[k].pc = "idle" <=> lane'[k].d = None
  /\ \A k \in Lanes \ {l} : lane'[k] = lane[k]
  /\ \/ lane'[l].pc = "idle"
     \/ /\ lane'[l].pc \in S \cup {"failing"}
        /\ lane'[l].d = lane[l].d /\ lane'[l].gen = lane[l].gen

LEMMA LaneMoves ==
  ASSUME TypeOK, NEW l \in Lanes, lane[l].pc # "idle", NEW S \in SUBSET (Steps \ {"idle"}),
         (\E step \in S : Goto(l, step)) \/ (\E f \in Failures : Throw(l, f)) \/ Rest(l)
  PROVE  Moves(l, S)
  <1>. USE DEF Moves
  <1>. lane[l] \in LaneStates /\ lane[l].d # None
    BY DEF TypeOK
  <1>1. CASE \E step \in S : Goto(l, step)
    <2>1. PICK step \in S : Goto(l, step)
      BY <1>1
    <2>2. [lane[l] EXCEPT !.pc = step] \in LaneStates
      BY DEF LaneStates
    <2>3. lane' = [lane EXCEPT ![l] = [lane[l] EXCEPT !.pc = step]]
      BY <2>1 DEF Goto
    <2>. QED
      BY <2>2, <2>3 DEF TypeOK, LaneStates
  <1>2. CASE \E f \in Failures : Throw(l, f)
    <2>1. PICK f \in Failures : Throw(l, f)
      BY <1>2
    <2>2. [lane[l] EXCEPT !.pc = "failing", !.failure = f] \in LaneStates
      BY DEF LaneStates, Steps
    <2>3. lane' = [lane EXCEPT ![l] = [lane[l] EXCEPT !.pc = "failing", !.failure = f]]
      BY <2>1 DEF Throw
    <2>. QED
      BY <2>2, <2>3 DEF TypeOK, LaneStates
  <1>3. CASE Rest(l)
    BY <1>3 DEF TypeOK, Rest, LaneStates, Idle, Steps, Failures
  <1>. QED
    BY <1>1, <1>2, <1>3

----------------------------------------------------------------------------
(***************************************************************************)
(* The inductive invariant.  LiveUnderAuthority alone is not inductive: an *)
(* approval rewrites an authority, so a delivery that is not enqueued must *)
(* have no dispatch row (Fresh); a lane calls GitHub on the strength of a  *)
(* row it moved to dispatching some steps ago, which a successor may have  *)
(* touched since (Calling); what is settled must stay so (DraftKept,       *)
(* SettledTogether, LapsedRuns, OutcomeOfDelivered); and only the one lane *)
(* that holds the job, whose delivery is still bound, may record a draft   *)
(* (OneHolder, BoundHolder).                                               *)
(***************************************************************************)
Fresh ==
  \A d \in Deliveries :
    /\ job[d].status = "absent" <=> delivery[d] = "absent"
    /\ job[d].status = "absent" => dispatch[d] = "none" /\ d \notin scoped

HoldsEnqueued ==
  \A l \in Lanes : lane[l].pc # "idle" => job[lane[l].d].status # "absent"

Calling ==
  \A l \in Lanes :
    /\ lane[l].pc \in {"calling", "created", "finalizing"} =>
         dispatch[lane[l].d] \in {"dispatching", "uncertain", "settled"}
    /\ lane[l].pc \in {"created", "finalizing"} => remote[lane[l].d] # "none"

DraftKept ==
  \A d \in Deliveries :
    remote[d] # "none" => dispatch[d] \in {"dispatching", "uncertain", "settled"}

LapsedRuns == \A d \in Deliveries : job[d].lapsed => job[d].status = "running"

OutcomeOfDelivered ==
  \A d \in Deliveries : outcome[d] # "none" => delivery[d] = "delivered"

OneHolder ==
  /\ \A l \in Lanes : lane[l].pc # "idle" => lane[l].gen <= job[lane[l].d].gen
  /\ \A l, k \in Lanes :
       lane[l].pc # "idle" /\ lane[l].d = lane[k].d /\ lane[l].gen = lane[k].gen => l = k

BoundSteps == {"authorizing", "beginning", "calling", "created", "finalizing"}

BoundHolder ==
  \A l \in Lanes : lane[l].pc \in BoundSteps /\ Fenced(l) => delivery[lane[l].d] = "bound"

IInv ==
  /\ TypeOK
  /\ LiveUnderAuthority
  /\ Fresh
  /\ HoldsEnqueued
  /\ Calling
  /\ DraftKept
  /\ SettledTogether
  /\ LapsedRuns
  /\ OutcomeOfDelivered
  /\ ScopeOwnedOnce
  /\ OneHolder
  /\ BoundHolder

LEMMA InitIInv == Init => IInv
  BY InitTypeOK, SMT DEF Init, IInv, LiveUnderAuthority, Fresh, HoldsEnqueued, Calling, DraftKept,
     SettledTogether, LapsedRuns, OutcomeOfDelivered, ScopeOwnedOnce, OneHolder, BoundHolder, BoundSteps, Idle

----------------------------------------------------------------------------
(***************************************************************************)
(* The steps of a lane.                                                    *)
(***************************************************************************)
(* A lane that only moves on does not change who holds which job.          *)
LEMMA HoldersKept ==
  ASSUME IInv, NEW l \in Lanes, NEW S \in SUBSET (Steps \ {"idle"}), lane[l].pc # "idle",
         Moves(l, S), UNCHANGED job
  PROVE  OneHolder'
  <1>. USE DEF IInv, Moves, OneHolder
  <1>1. ASSUME NEW m \in Lanes, lane'[m].pc # "idle"
        PROVE  lane[m].pc # "idle" /\ lane'[m].d = lane[m].d /\ lane'[m].gen = lane[m].gen
    BY <1>1
  <1>2. ASSUME NEW m \in Lanes, NEW k \in Lanes, lane'[m].pc # "idle",
               lane'[m].d = lane'[k].d, lane'[m].gen = lane'[k].gen
        PROVE  m = k
    <2>1. lane'[k].pc # "idle"
      BY <1>2
    <2>. QED
      BY <1>1, <1>2, <2>1
  <1>. QED
    BY <1>1, <1>2

LEMMA BoundKept ==
  ASSUME IInv, NEW l \in Lanes, NEW S \in SUBSET (Steps \ {"idle"}), lane[l].pc # "idle",
         Moves(l, S), UNCHANGED <<job, delivery>>,
         S = {} \/ lane[l].pc \in BoundSteps
  PROVE  BoundHolder'
  BY DEF IInv, Moves, BoundHolder, BoundSteps, Fenced

LEMMA MoveKeeps ==
  ASSUME IInv, NEW l \in Lanes, lane[l].pc # "idle", Moves(l, {}), events' \in Nat,
         UNCHANGED <<control, rows, job, dispatch, remote>>
  PROVE  IInv'
  <1>. USE DEF IInv, control, rows
  <1>1. TypeOK'
    BY DEF TypeOK, Moves
  <1>2. (LiveUnderAuthority /\ Fresh /\ DraftKept /\ SettledTogether /\ LapsedRuns
          /\ OutcomeOfDelivered /\ ScopeOwnedOnce)'
    BY DEF LiveUnderAuthority, Fresh, DraftKept, SettledTogether, LapsedRuns, OutcomeOfDelivered,
           ScopeOwnedOnce, Current, MissionCurrent, Claimed
  <1>3. HoldsEnqueued'
    BY DEF HoldsEnqueued, Moves
  <1>4. Calling'
    BY DEF Calling, Moves
  <1>5. OneHolder' /\ BoundHolder'
    BY HoldersKept, BoundKept
  <1>. QED
    BY <1>1, <1>2, <1>3, <1>4, <1>5

LEMMA ResolveFailsKeeps ==
  ASSUME IInv, NEW l \in Lanes, ResolveFails(l) \/ SnapshotExpires(l) \/ Crash(l)
  PROVE  IInv'
  <1>1. TypeOK /\ lane[l].pc # "idle" /\ UNCHANGED <<control, rows, job, dispatch, remote>>
    BY DEF IInv, ResolveFails, SnapshotExpires, Crash
  <1>2. {"terminal", "retryable"} \subseteq Failures
    BY DEF Failures
  <1>3. (\E f \in Failures : Throw(l, f)) \/ Rest(l)
    BY <1>2 DEF ResolveFails, SnapshotExpires, Crash
  <1>4. Moves(l, {})
    BY <1>1, <1>3, LaneMoves
  <1>5. events' \in Nat
    BY <1>1 DEF TypeOK, ResolveFails, SnapshotExpires, Crash, Event
  <1>. QED
    BY <1>1, <1>4, <1>5, MoveKeeps

LEMMA ScopeKeeps ==
  ASSUME IInv, NEW l \in Lanes, Scope(l)
  PROVE  IInv'
  <1>. DEFINE d == lane[l].d
  <1>. USE DEF IInv
  <1>1. d \in Deliveries /\ lane[l].pc = "scoping" /\ job[d].status # "absent"
    BY WorkingLane DEF Scope, HoldsEnqueued
  <1>2. Goto(l, "binding") \/ Throw(l, "terminal")
    BY DEF Scope
  <1>3. {"binding"} \in SUBSET (Steps \ {"idle"}) /\ "terminal" \in Failures
    BY DEF Steps, Failures
  <1>4. Moves(l, {"binding"})
    BY <1>1, <1>2, <1>3, LaneMoves
  <1>5. /\ UNCHANGED <<mission, task, auth, job, delivery, outcome, dispatch, remote, events>>
        /\ \/ scoped' = scoped
           \/ scoped' = scoped \cup {d} /\ ~\E p \in Deliveries \ {d} : OwnsScope(p)
    BY DEF Scope, control
  <1>6. TypeOK'
    BY <1>1, <1>4, <1>5 DEF TypeOK, Moves
  <1>7. (LiveUnderAuthority /\ DraftKept /\ SettledTogether /\ LapsedRuns /\ OutcomeOfDelivered)'
    BY <1>5 DEF LiveUnderAuthority, DraftKept, SettledTogether, LapsedRuns, OutcomeOfDelivered,
                Current, MissionCurrent, Claimed
  <1>8. Fresh'
    BY <1>1, <1>5 DEF Fresh
  <1>9. HoldsEnqueued'
    BY <1>1, <1>4, <1>5 DEF HoldsEnqueued, Moves
  <1>10. Calling'
    BY <1>4, <1>5 DEF Calling, Moves
  <1>11. ScopeOwnedOnce'
    BY <1>1, <1>5 DEF ScopeOwnedOnce, OwnsScope, TypeOK
  <1>12. OneHolder'
    BY <1>1, <1>3, <1>4, <1>5, HoldersKept
  <1>13. BoundHolder'
    BY <1>4, <1>5 DEF BoundHolder, BoundSteps, Moves, Fenced
  <1>. QED
    BY <1>6, <1>7, <1>8, <1>9, <1>10, <1>11, <1>12, <1>13

LEMMA BindKeeps ==
  ASSUME IInv, NEW l \in Lanes, Bind(l)
  PROVE  IInv'
  <1>. DEFINE d == lane[l].d
  <1>. USE DEF IInv
  <1>0. Throw(l, "terminal") \/ Rest(l) => lane'[l].pc # "authorizing"
    BY DEF Throw, Rest, Idle, IInv, TypeOK, LaneStates
  <1>1. d \in Deliveries /\ lane[l].pc = "binding" /\ job[d].status # "absent"
    BY WorkingLane DEF Bind, HoldsEnqueued
  <1>2. Goto(l, "authorizing") \/ Throw(l, "terminal") \/ Rest(l)
    BY DEF Bind
  <1>3. {"authorizing"} \in SUBSET (Steps \ {"idle"}) /\ "terminal" \in Failures
    BY DEF Steps, Failures
  <1>4. Moves(l, {"authorizing"})
    BY <1>1, <1>2, <1>3, LaneMoves
  <1>5. /\ UNCHANGED <<mission, task, auth, job, scoped, outcome, dispatch, remote, events>>
        /\ \/ delivery' = delivery /\ lane'[l].pc # "authorizing"
           \/ /\ delivery[d] \in {"pending", "bound"}
              /\ delivery' = [delivery EXCEPT ![d] = "bound"]
    BY <1>0 DEF Bind, control
  <1>6. TypeOK'
    BY <1>1, <1>4, <1>5 DEF TypeOK, Moves, DeliveryStates
  <1>7. (LiveUnderAuthority /\ DraftKept /\ LapsedRuns)'
    BY <1>5 DEF LiveUnderAuthority, DraftKept, LapsedRuns, Current, MissionCurrent, Claimed
  <1>8. (Fresh /\ SettledTogether /\ OutcomeOfDelivered)'
    BY <1>1, <1>5 DEF Fresh, SettledTogether, OutcomeOfDelivered, TypeOK
  <1>9. HoldsEnqueued'
    BY <1>1, <1>4, <1>5 DEF HoldsEnqueued, Moves
  <1>10. Calling'
    BY <1>4, <1>5 DEF Calling, Moves
  <1>11. ScopeOwnedOnce'
    BY <1>1, <1>5 DEF ScopeOwnedOnce, TypeOK
  <1>12. OneHolder'
    BY <1>1, <1>3, <1>4, <1>5, HoldersKept
  <1>13. BoundHolder'
    <2>1. ASSUME NEW k \in Lanes, lane'[k].pc \in BoundSteps, Fenced(k)'
          PROVE  delivery'[lane'[k].d] = "bound"
      <3>1. CASE k = l
        <4>1. lane'[l].pc = "authorizing" /\ lane'[l].d = d
          BY <1>4, <2>1, <3>1 DEF Moves, BoundSteps
        <4>. QED
          BY <1>1, <1>5, <3>1, <4>1 DEF TypeOK
      <3>2. CASE k # l
        <4>1. lane'[k] = lane[k]
          BY <1>4, <3>2 DEF Moves
        <4>2. lane[k].d \in Deliveries /\ delivery[lane[k].d] = "bound"
          BY <1>5, <2>1, <4>1, WorkingLane DEF BoundHolder, BoundSteps, Fenced
        <4>. QED
          BY <1>5, <4>1, <4>2 DEF TypeOK
      <3>. QED
        BY <3>1, <3>2
    <2>. QED
      BY <2>1 DEF BoundHolder
  <1>. QED
    BY <1>6, <1>7, <1>8, <1>9, <1>10, <1>11, <1>12, <1>13

(* A step that moves one lane and takes its own dispatch row, which no     *)
(* writer is kept from, to dispatching or uncertain.                       *)
LEMMA ArmKeeps ==
  ASSUME IInv, NEW l \in Lanes, lane[l].pc # "idle", NEW S \in SUBSET (Steps \ {"idle"}),
         Moves(l, S), S \cap {"created", "finalizing"} = {}, S = {} \/ lane[l].pc \in BoundSteps,
         events' \in Nat,
         UNCHANGED <<control, rows, job, remote>>,
         NEW state \in {"authorized", "dispatching", "uncertain"},
         dispatch' = [dispatch EXCEPT ![lane[l].d] = state],
         state = "authorized" => dispatch[lane[l].d] \in {"none", "authorized"},
         "calling" \in S => state = "dispatching",
         dispatch[lane[l].d] # "settled",
         Current(lane[l].d)
  PROVE  IInv'
  <1>. DEFINE d == lane[l].d
  <1>. USE DEF IInv, control, rows
  <1>1. d \in Deliveries /\ job[d].status # "absent"
    BY WorkingLane DEF HoldsEnqueued
  <1>2. TypeOK'
    BY <1>1 DEF TypeOK, Moves, DispatchStates
  <1>3. /\ dispatch'[d] = state
        /\ \A p \in Deliveries \ {d} : dispatch'[p] = dispatch[p]
    BY <1>1 DEF TypeOK
  <1>4. LiveUnderAuthority'
    BY <1>1, <1>3 DEF LiveUnderAuthority, Current, MissionCurrent, Claimed
  <1>5. (Fresh /\ DraftKept /\ SettledTogether)'
    BY <1>1, <1>3 DEF Fresh, DraftKept, SettledTogether
  <1>6. (LapsedRuns /\ OutcomeOfDelivered /\ ScopeOwnedOnce)'
    BY DEF LapsedRuns, OutcomeOfDelivered, ScopeOwnedOnce
  <1>7. HoldsEnqueued'
    BY DEF HoldsEnqueued, Moves
  <1>8. ASSUME NEW k \in Lanes
        PROVE  /\ lane'[k].pc \in {"calling", "created", "finalizing"} =>
                    dispatch'[lane'[k].d] \in {"dispatching", "uncertain", "settled"}
               /\ lane'[k].pc \in {"created", "finalizing"} => remote'[lane'[k].d] # "none"
    <2>1. CASE k = l
      BY <1>1, <1>3, <2>1 DEF Moves
    <2>2. CASE k # l
      <3>1. lane'[k] = lane[k]
        BY <2>2 DEF Moves
      <3>2. lane[k].pc # "idle" => lane[k].d \in Deliveries
        BY WorkingLane
      <3>. QED
        BY <1>3, <3>1, <3>2 DEF Calling
    <2>. QED
      BY <2>1, <2>2
  <1>9. Calling'
    BY <1>8 DEF Calling
  <1>10. OneHolder' /\ BoundHolder'
    BY HoldersKept, BoundKept
  <1>. QED
    BY <1>2, <1>4, <1>5, <1>6, <1>7, <1>9, <1>10

(* markMissionMutationDispatchUncertain of a lane that gives up.            *)
LEMMA MarkKeeps ==
  ASSUME IInv, NEW l \in Lanes, lane[l].pc # "idle", Moves(l, {}), events' \in Nat,
         UNCHANGED <<control, rows, job, remote>>,
         dispatch' = MarkedUncertain(lane[l].d)
  PROVE  IInv'
  <1>. DEFINE d == lane[l].d
  <1>1. d \in Deliveries
    BY WorkingLane DEF IInv
  <1>2. CASE dispatch[d] = "dispatching"
    <2>1. dispatch' = [dispatch EXCEPT ![d] = "uncertain"]
      BY <1>2 DEF MarkedUncertain
    <2>2. Current(d)
      BY <1>1, <1>2 DEF IInv, LiveUnderAuthority
    <2>3. {} \in SUBSET (Steps \ {"idle"}) /\ "calling" \notin {} /\ dispatch[d] # "settled"
      BY <1>2
    <2>. QED
      BY <2>1, <2>2, <2>3, ArmKeeps
  <1>3. CASE dispatch[d] # "dispatching"
    <2>1. dispatch' = dispatch
      BY <1>1, <1>3 DEF MarkedUncertain, IInv, TypeOK
    <2>. QED
      BY <2>1, MoveKeeps
  <1>. QED
    BY <1>2, <1>3

LEMMA AuthorizeKeeps ==
  ASSUME IInv, NEW l \in Lanes, Authorize(l)
  PROVE  IInv'
  <1>. DEFINE d == lane[l].d
  <1>1. /\ TypeOK /\ lane[l].pc # "idle" /\ d \in Deliveries
        /\ lane[l].pc \in BoundSteps
        /\ UNCHANGED <<control, rows, job, remote>> /\ events' \in Nat
    BY WorkingLane DEF IInv, TypeOK, Authorize, BoundSteps
  <1>2. "terminal" \in Failures /\ {"beginning"} \in SUBSET (Steps \ {"idle"})
    BY DEF Failures, Steps
  <1>3. CASE ~Current(d) \/ ~Fenced(l) \/ dispatch[d] \in {"revoked", "settled"}
    <2>1. Throw(l, "terminal") /\ UNCHANGED dispatch
      BY <1>3 DEF Authorize
    <2>2. Moves(l, {})
      BY <1>1, <1>2, <2>1, LaneMoves
    <2>. QED
      BY <1>1, <2>1, <2>2, MoveKeeps
  <1>4. CASE ~(~Current(d) \/ ~Fenced(l) \/ dispatch[d] \in {"revoked", "settled"})
    <2>1. Goto(l, "beginning") /\ dispatch' = Rearmed(d)
      BY <1>4 DEF Authorize
    <2>2. Moves(l, {"beginning"})
      BY <1>1, <1>2, <2>1, LaneMoves
    <2>3. dispatch[d] \in DispatchStates
      BY <1>1 DEF TypeOK
    <2>4. \E state \in {"authorized", "dispatching", "uncertain"} :
            /\ dispatch' = [dispatch EXCEPT ![d] = state]
            /\ state = "authorized" => dispatch[d] \in {"none", "authorized"}
      BY <1>1, <1>4, <2>1, <2>3 DEF Rearmed, DispatchStates
    <2>. QED
      BY <1>1, <1>2, <1>4, <2>2, <2>4, ArmKeeps
  <1>. QED
    BY <1>3, <1>4

(* Nothing is left to revoke when the authority is not current.            *)
LEMMA BeginRevokesNothing ==
  ASSUME IInv, NEW d \in Deliveries, ~Current(d)
  PROVE  Revoked({d}) = dispatch
  BY DEF IInv, TypeOK, LiveUnderAuthority, Revoked

LEMMA BeginKeeps ==
  ASSUME IInv, NEW l \in Lanes, Begin(l)
  PROVE  IInv'
  <1>. DEFINE d == lane[l].d
  <1>1. /\ TypeOK /\ lane[l].pc # "idle" /\ d \in Deliveries
        /\ lane[l].pc \in BoundSteps
        /\ UNCHANGED <<control, rows, job, remote>> /\ events' \in Nat
    BY WorkingLane DEF IInv, TypeOK, Begin, BoundSteps
  <1>2. "terminal" \in Failures /\ {"calling"} \in SUBSET (Steps \ {"idle"})
    BY DEF Failures, Steps
  <1>3. CASE Throw(l, "terminal") /\ UNCHANGED dispatch
    <2>1. Moves(l, {})
      BY <1>1, <1>2, <1>3, LaneMoves
    <2>. QED
      BY <1>1, <1>3, <2>1, MoveKeeps
  <1>4. CASE /\ Current(d) /\ dispatch[d] \in {"authorized", "uncertain"}
             /\ Goto(l, "calling") /\ dispatch' = [dispatch EXCEPT ![d] = "dispatching"]
    <2>1. Moves(l, {"calling"})
      BY <1>1, <1>2, <1>4, LaneMoves
    <2>. QED
      BY <1>1, <1>2, <1>4, <2>1, ArmKeeps
  <1>. QED
    BY <1>1, <1>3, <1>4, BeginRevokesNothing DEF Begin

LEMMA CallThrowsKeeps ==
  ASSUME IInv, NEW l \in Lanes, CallThrows(l) \/ FinalizationFails(l)
  PROVE  IInv'
  <1>1. /\ TypeOK /\ lane[l].pc # "idle"
        /\ UNCHANGED <<control, rows, job, remote>>
        /\ dispatch' = MarkedUncertain(lane[l].d)
    BY DEF IInv, CallThrows, FinalizationFails
  <1>2. events' \in Nat
    BY <1>1 DEF TypeOK, CallThrows, FinalizationFails, Event
  <1>3. \E f \in Failures : Throw(l, f)
    BY DEF CallThrows, FinalizationFails, Failures
  <1>4. Moves(l, {})
    BY <1>1, <1>3, LaneMoves
  <1>. QED
    BY <1>1, <1>2, <1>4, MarkKeeps

(* The row under which a lane may create the draft is in flight still.     *)
LEMMA CallsInFlight ==
  ASSUME IInv, NEW l \in Lanes, CallCreates(l)
  PROVE  /\ lane[l].d \in Deliveries
         /\ dispatch[lane[l].d] \in {"dispatching", "uncertain"}
  BY WorkingLane DEF IInv, Calling, CallCreates, SettledTogether

LEMMA CallCreatesKeeps ==
  ASSUME IInv, NEW l \in Lanes, CallCreates(l)
  PROVE  IInv'
  <1>. DEFINE d == lane[l].d
  <1>. USE DEF IInv
  <1>1. /\ d \in Deliveries /\ lane[l].pc = "calling"
        /\ dispatch[d] \in {"dispatching", "uncertain"}
    BY CallsInFlight DEF CallCreates
  <1>2. {"created"} \in SUBSET (Steps \ {"idle"})
    BY DEF Steps
  <1>3. Moves(l, {"created"})
    BY <1>1, <1>2, LaneMoves DEF CallCreates
  <1>4. /\ UNCHANGED <<mission, task, auth, delivery, scoped, outcome, job, dispatch, events>>
        /\ remote' = [remote EXCEPT ![d] = "draft"]
    BY DEF CallCreates, control, rows
  <1>5. TypeOK'
    BY <1>1, <1>3, <1>4 DEF TypeOK, Moves, RemoteStates
  <1>6. (LiveUnderAuthority /\ Fresh /\ LapsedRuns /\ OutcomeOfDelivered /\ ScopeOwnedOnce)'
    BY <1>4 DEF LiveUnderAuthority, Fresh, LapsedRuns, OutcomeOfDelivered, ScopeOwnedOnce,
                Current, MissionCurrent, Claimed
  <1>7. (DraftKept /\ SettledTogether)'
    BY <1>1, <1>4 DEF DraftKept, SettledTogether, TypeOK
  <1>8. HoldsEnqueued'
    BY <1>1, <1>3, <1>4 DEF HoldsEnqueued, Moves
  <1>9. Calling'
    BY <1>1, <1>3, <1>4 DEF Calling, Moves, TypeOK
  <1>10. OneHolder' /\ BoundHolder'
    BY <1>1, <1>2, <1>3, <1>4, HoldersKept, BoundKept DEF BoundSteps
  <1>. QED
    BY <1>5, <1>6, <1>7, <1>8, <1>9, <1>10

LEMMA CallReturnsKeeps ==
  ASSUME IInv, NEW l \in Lanes, CallReturns(l)
  PROVE  IInv'
  <1>. USE DEF IInv, control, rows
  <1>1. /\ lane[l].pc \in {"calling", "created"} /\ remote[lane[l].d] # "none"
        /\ UNCHANGED <<control, rows, job, dispatch, remote, events>>
    BY DEF CallReturns, Calling
  <1>2. {"finalizing"} \in SUBSET (Steps \ {"idle"})
    BY DEF Steps
  <1>3. Moves(l, {"finalizing"})
    BY <1>1, <1>2, LaneMoves DEF CallReturns
  <1>4. TypeOK'
    BY <1>1, <1>3 DEF TypeOK, Moves
  <1>5. (LiveUnderAuthority /\ Fresh /\ DraftKept /\ SettledTogether /\ LapsedRuns
          /\ OutcomeOfDelivered /\ ScopeOwnedOnce)'
    BY <1>1 DEF LiveUnderAuthority, Fresh, DraftKept, SettledTogether, LapsedRuns,
                OutcomeOfDelivered, ScopeOwnedOnce, Current, MissionCurrent, Claimed
  <1>6. HoldsEnqueued'
    BY <1>1, <1>3 DEF HoldsEnqueued, Moves
  <1>7. Calling'
    BY <1>1, <1>3 DEF Calling, Moves
  <1>8. OneHolder' /\ BoundHolder'
    BY <1>1, <1>2, <1>3, HoldersKept, BoundKept DEF BoundSteps
  <1>. QED
    BY <1>4, <1>5, <1>6, <1>7, <1>8

(* Finalize's transaction: only the lane that holds the job gets here, and *)
(* its delivery is bound still.                                            *)
LEMMA FinalizeKeeps ==
  ASSUME IInv, NEW l \in Lanes, Finalize(l)
  PROVE  IInv'
  <1>. DEFINE d == lane[l].d
              applies == InFlight(d) /\ CurrentOrSettled(d)
  <1>1. /\ TypeOK /\ lane[l].pc = "finalizing" /\ d \in Deliveries
        /\ UNCHANGED <<control, scoped, outcome, remote>> /\ events' \in Nat
    BY WorkingLane DEF IInv, TypeOK, Finalize
  <1>2. CASE applies /\ Fenced(l)
    <2>. USE DEF IInv
    <2>1. /\ dispatch' = [dispatch EXCEPT ![d] = "settled"]
          /\ auth' = [auth EXCEPT ![d] = Refreshed]
          /\ delivery' = [delivery EXCEPT ![d] = "delivered"]
          /\ job' = [job EXCEPT ![d] = [job[d] EXCEPT !.status = "done"]]
          /\ Rest(l)
          /\ UNCHANGED <<mission, task, scoped, outcome, remote, events>>
      BY <1>2 DEF Finalize, control
    <2>2. Moves(l, {})
      BY <1>1, <2>1, LaneMoves DEF Steps
    <2>3. /\ delivery[d] = "bound" /\ remote[d] # "none"
          /\ job[d].status = "running" /\ ~job[d].lapsed
      BY <1>1, <1>2 DEF BoundHolder, BoundSteps, Calling, Fenced
    <2>4. job[d] \in JobRows /\ Refreshed \in Authorities
      BY <1>1 DEF TypeOK, Refreshed, Authorities
    <2>5. [job[d] EXCEPT !.status = "done"] \in JobRows
      BY <2>4 DEF JobRows
    <2>6. /\ job'[d].status = "done" /\ job'[d].gen = job[d].gen /\ ~job'[d].lapsed
          /\ \A p \in Deliveries \ {d} : job'[p] = job[p]
      BY <1>1, <2>1, <2>3, <2>4 DEF TypeOK, JobRows
    <2>7. TypeOK'
      BY <1>1, <2>1, <2>2, <2>4, <2>5 DEF TypeOK, Moves, DispatchStates, DeliveryStates
    <2>8. LiveUnderAuthority'
      BY <1>1, <2>1 DEF LiveUnderAuthority, Current, MissionCurrent, Claimed, TypeOK
    <2>9. (Fresh /\ DraftKept /\ SettledTogether /\ LapsedRuns /\ OutcomeOfDelivered)'
      BY <1>1, <2>1, <2>3, <2>6
      DEF Fresh, DraftKept, SettledTogether, LapsedRuns, OutcomeOfDelivered, TypeOK
    <2>10. ScopeOwnedOnce'
      BY <1>1, <2>1, <2>3 DEF ScopeOwnedOnce, TypeOK
    <2>11. \A k \in Lanes : lane'[k].pc # "idle" =>
             /\ k # l /\ lane'[k] = lane[k] /\ lane[k].d \in Deliveries
      BY <1>1, <2>1, <2>2, WorkingLane DEF Moves, Rest, Idle, TypeOK
    <2>12. HoldsEnqueued'
      BY <2>6, <2>11 DEF HoldsEnqueued
    <2>13. Calling'
      BY <1>1, <2>1, <2>11 DEF Calling, TypeOK
    <2>14. OneHolder'
      <3>1. \A k \in Lanes : lane'[k].pc # "idle" => lane'[k].gen <= job'[lane'[k].d].gen
        BY <2>6, <2>11 DEF OneHolder
      <3>2. ASSUME NEW m \in Lanes, NEW k \in Lanes, lane'[m].pc # "idle",
                   lane'[m].d = lane'[k].d, lane'[m].gen = lane'[k].gen
            PROVE  m = k
        <4>1. lane'[k].d # None
          BY <2>11, <3>2
        <4>2. lane'[k].pc # "idle"
          BY <2>7, <4>1 DEF TypeOK
        <4>. QED
          BY <2>11, <3>2, <4>2 DEF OneHolder
      <3>. QED
        BY <3>1, <3>2 DEF OneHolder
    <2>15. BoundHolder'
      <3>1. ASSUME NEW k \in Lanes, lane'[k].pc \in BoundSteps, Fenced(k)'
            PROVE  delivery'[lane'[k].d] = "bound"
        <4>1. lane'[k] = lane[k] /\ lane[k].d \in Deliveries
          BY <2>11, <3>1 DEF BoundSteps
        <4>2. lane[k].d # d
          BY <2>6, <3>1, <4>1 DEF Fenced
        <4>. QED
          BY <2>1, <2>6, <3>1, <4>1, <4>2 DEF BoundHolder, Fenced, TypeOK
      <3>. QED
        BY <3>1 DEF BoundHolder
    <2>. QED
      BY <2>7, <2>8, <2>9, <2>10, <2>12, <2>13, <2>14, <2>15
  <1>3. CASE ~(applies /\ Fenced(l))
    <2>1. UNCHANGED <<control, rows, job, remote>>
      BY <1>1, <1>3 DEF Finalize, rows
    <2>2. /\ Rest(l) \/ Throw(l, "uncertain")
          /\ dispatch' = dispatch \/ dispatch' = MarkedUncertain(d)
      BY <1>3 DEF Finalize
    <2>3. Moves(l, {})
      BY <1>1, <2>2, LaneMoves DEF Failures
    <2>. QED
      BY <1>1, <2>1, <2>2, <2>3, MoveKeeps, MarkKeeps
  <1>. QED
    BY <1>2, <1>3

----------------------------------------------------------------------------
(***************************************************************************)
(* Changes of the job table.  No step gives a running job to another lane  *)
(* without a new generation, brings a finished one back, or fails a        *)
(* delivery whose job still runs.                                          *)
(***************************************************************************)
JobsMove ==
  /\ job' \in [Deliveries -> JobRows]
  /\ \A p \in Deliveries :
       /\ job'[p].status = "absent" <=> job[p].status = "absent"
       /\ job[p].status = "done" => job'[p].status = "done"
       /\ job'[p].lapsed => job'[p].status = "running"
       /\ job'[p].gen >= job[p].gen
       /\ job'[p].status = "running" /\ ~job'[p].lapsed /\ job'[p].gen = job[p].gen =>
            job'[p] = job[p]

FailsStopped ==
  \/ UNCHANGED delivery
  \/ \E p \in Deliveries :
       /\ delivery[p] \in {"pending", "bound"} /\ job'[p].status # "running"
       /\ delivery' = [delivery EXCEPT ![p] = "failed"]

(* A lane keeps its work, rests, or takes a job under a new generation.    *)
LaneClaims(l) ==
  /\ lane' \in [Lanes -> LaneStates]
  /\ \A k \in Lanes : lane'[k].pc = "idle" <=> lane'[k].d = None
  /\ \A k \in Lanes \ {l} : lane'[k] = lane[k]
  /\ \/ lane'[l] = lane[l] \/ lane'[l].pc = "idle"
     \/ /\ lane'[l].pc = "scoping" /\ job[lane'[l].d].status # "absent"
        /\ lane'[l].gen = job'[lane'[l].d].gen
        /\ lane'[l].gen > job[lane'[l].d].gen

LEMMA JobKeeps ==
  ASSUME IInv, JobsMove, FailsStopped, NEW l, LaneClaims(l), events' \in Nat,
         UNCHANGED <<control, auth, scoped, outcome, dispatch, remote>>
  PROVE  IInv'
  <1>. USE DEF IInv, control
  <1>1. TypeOK'
    BY DEF TypeOK, JobsMove, FailsStopped, LaneClaims, DeliveryStates
  <1>2. (LiveUnderAuthority /\ DraftKept)'
    BY DEF LiveUnderAuthority, DraftKept, Current, MissionCurrent, Claimed
  <1>3. \A p \in Deliveries :
          \/ delivery'[p] = delivery[p]
          \/ /\ delivery[p] \in {"pending", "bound"} /\ delivery'[p] = "failed"
             /\ job'[p].status # "running"
    BY DEF FailsStopped, TypeOK
  <1>4. (Fresh /\ SettledTogether /\ LapsedRuns /\ OutcomeOfDelivered /\ ScopeOwnedOnce)'
    BY <1>3 DEF Fresh, SettledTogether, LapsedRuns, OutcomeOfDelivered, ScopeOwnedOnce,
                JobsMove, TypeOK
  <1>5. ASSUME NEW k \in Lanes, lane'[k].pc # "idle"
        PROVE  /\ lane'[k].d \in Deliveries
               /\ lane'[k] = lane[k] \/ (k = l /\ lane'[l].pc = "scoping")
    BY <1>1, <1>5 DEF LaneClaims, TypeOK, LaneStates
  <1>6. HoldsEnqueued'
    BY <1>5 DEF HoldsEnqueued, JobsMove, LaneClaims
  <1>7. Calling'
    BY <1>5 DEF Calling
  <1>8. OneHolder'
    <2>0. \A p \in Deliveries :
            job[p].gen \in Nat /\ job'[p].gen \in Nat /\ job'[p].gen >= job[p].gen
      BY <1>1 DEF TypeOK, JobRows, JobsMove
    <2>1. ASSUME NEW k \in Lanes, lane'[k].pc # "idle"
          PROVE  lane'[k].gen <= job'[lane'[k].d].gen
      <3>1. CASE lane'[k] = lane[k]
        <4>1. lane[k].gen \in Nat
          BY DEF TypeOK, LaneStates
        <4>. QED
          BY <1>5, <2>0, <2>1, <3>1, <4>1 DEF OneHolder, JobsMove
      <3>2. CASE lane'[k] # lane[k]
        BY <1>5, <2>0, <2>1, <3>2 DEF LaneClaims
      <3>. QED
        BY <3>1, <3>2
    <2>2. ASSUME NEW m \in Lanes, NEW k \in Lanes, lane'[m].pc # "idle",
                 lane'[m].d = lane'[k].d, lane'[m].gen = lane'[k].gen
          PROVE  m = k
      <3>1. lane'[k].pc # "idle"
        BY <1>1, <1>5, <2>2 DEF TypeOK
      <3>2. CASE lane'[m] = lane[m] /\ lane'[k] = lane[k]
        BY <2>2, <3>2 DEF OneHolder
      <3>3. ASSUME NEW a \in Lanes, NEW b \in Lanes, lane'[a].pc # "idle", lane'[b].pc # "idle",
                   lane'[a].d = lane'[b].d, lane'[a].gen = lane'[b].gen,
                   lane'[a] # lane[a], lane'[b] = lane[b]
            PROVE  FALSE
        <4>1. lane[b].gen <= job[lane[b].d].gen /\ lane[b].d \in Deliveries
          BY <1>5, <3>3 DEF OneHolder
        <4>2. lane'[a].gen > job[lane'[a].d].gen
          BY <1>5, <3>3 DEF LaneClaims
        <4>3. lane[b].gen \in Nat
          BY DEF TypeOK, LaneStates
        <4>. QED
          BY <2>0, <3>3, <4>1, <4>2, <4>3
      <3>4. CASE lane'[m] # lane[m] /\ lane'[k] # lane[k]
        BY <1>5, <2>2, <3>1, <3>4
      <3>. QED
        BY <2>2, <3>1, <3>2, <3>3, <3>4
    <2>. QED
      BY <2>1, <2>2 DEF OneHolder
  <1>9. BoundHolder'
    <2>1. ASSUME NEW k \in Lanes, lane'[k].pc \in BoundSteps, Fenced(k)'
          PROVE  delivery'[lane'[k].d] = "bound"
      <3>1. lane'[k] = lane[k] /\ lane[k].d \in Deliveries
        BY <1>5, <2>1 DEF BoundSteps
      <3>2. /\ job'[lane[k].d].status = "running" /\ ~job'[lane[k].d].lapsed
            /\ job'[lane[k].d].gen = lane[k].gen
        BY <2>1, <3>1 DEF Fenced
      <3>3. lane[k].gen <= job[lane[k].d].gen /\ job[lane[k].d].gen <= job'[lane[k].d].gen
        BY <2>1, <3>1 DEF OneHolder, JobsMove, BoundSteps
      <3>4. job'[lane[k].d].gen = job[lane[k].d].gen
        <4>1. job[lane[k].d].gen \in Nat /\ job'[lane[k].d].gen \in Nat
          BY <3>1 DEF TypeOK, JobRows, JobsMove
        <4>. QED
          BY <3>2, <3>3, <4>1
      <3>5. Fenced(k)
        BY <3>1, <3>2, <3>4 DEF JobsMove, Fenced
      <3>. QED
        BY <1>3, <2>1, <3>1, <3>2, <3>5 DEF BoundHolder
    <2>. QED
      BY <2>1 DEF BoundHolder
  <1>. QED
    BY <1>1, <1>2, <1>4, <1>6, <1>7, <1>8, <1>9

LEMMA LanesStay ==
  ASSUME IInv, UNCHANGED lane
  PROVE  LaneClaims(None)
  BY DEF IInv, TypeOK, LaneClaims

(* The jobs move when one row takes another status, or its lease lapses.   *)
LEMMA RowMoves ==
  ASSUME IInv, NEW d \in Deliveries, NEW row \in JobRows, job' = [job EXCEPT ![d] = row],
         job[d].status \notin {"absent", "done"}, row.status # "absent",
         row.gen = job[d].gen, row.status # "running" \/ row.lapsed,
         row.lapsed => row.status = "running"
  PROVE  JobsMove
  <1>1. /\ job'[d] = row
        /\ \A p \in Deliveries \ {d} : job'[p] = job[p]
        /\ job' \in [Deliveries -> JobRows]
    BY DEF IInv, TypeOK
  <1>2. \A p \in Deliveries : job[p].gen \in Nat
    BY DEF IInv, TypeOK, JobRows
  <1>. QED
    BY <1>1, <1>2 DEF JobsMove, IInv, LapsedRuns

LEMMA FailKeeps ==
  ASSUME IInv, NEW l \in Lanes, Fail(l)
  PROVE  IInv'
  <1>. DEFINE d == lane[l].d
  <1>1. /\ TypeOK /\ lane[l].pc # "idle" /\ d \in Deliveries
        /\ UNCHANGED <<control, auth, scoped, outcome, dispatch, remote, events>>
        /\ Rest(l) /\ events' \in Nat
    BY WorkingLane DEF IInv, TypeOK, Fail
  <1>2. LaneClaims(l)
    BY <1>1, LaneMoves DEF Moves, LaneClaims, Rest, Idle, Steps, TypeOK
  <1>3. CASE Fenced(l)
    <2>1. PICK s \in {"pending", "dead_letter"} :
            /\ job' = [job EXCEPT ![d] = [job[d] EXCEPT !.status = s]]
            /\ \/ UNCHANGED delivery
               \/ /\ delivery[d] \in {"pending", "bound"}
                  /\ delivery' = [delivery EXCEPT ![d] = "failed"]
      BY <1>3 DEF Fail
    <2>2. job[d] \in JobRows /\ job[d].status = "running" /\ ~job[d].lapsed
      BY <1>1, <1>3 DEF TypeOK, Fenced
    <2>3. /\ [job[d] EXCEPT !.status = s] \in JobRows
          /\ [job[d] EXCEPT !.status = s].status = s
          /\ [job[d] EXCEPT !.status = s].gen = job[d].gen
          /\ ~[job[d] EXCEPT !.status = s].lapsed
      BY <2>2 DEF JobRows
    <2>4. JobsMove
      BY <1>1, <2>1, <2>2, <2>3, RowMoves
    <2>5. FailsStopped
      BY <1>1, <2>1, <2>3 DEF FailsStopped, TypeOK
    <2>. QED
      BY <1>1, <1>2, <2>4, <2>5, JobKeeps
  <1>4. CASE ~Fenced(l)
    <2>1. UNCHANGED <<job, delivery>>
      BY <1>4 DEF Fail
    <2>2. Moves(l, {})
      BY <1>1, LaneMoves DEF Steps
    <2>. QED
      BY <1>1, <2>1, <2>2, MoveKeeps DEF rows
  <1>. QED
    BY <1>3, <1>4

LEMMA RecoverMoves ==
  ASSUME IInv, job' = Recovered
  PROVE  JobsMove
  <1>1. ASSUME NEW p \in Deliveries
        PROVE  /\ job'[p].status = "absent" <=> job[p].status = "absent"
               /\ job[p].status = "done" => job'[p].status = "done"
               /\ job'[p].lapsed => job'[p].status = "running"
               /\ job'[p].gen >= job[p].gen
               /\ job'[p].status = "running" => job'[p] = job[p]
    <2>1. job[p].gen \in Nat
      BY DEF IInv, TypeOK, JobRows
    <2>. QED
      BY <2>1, RecoveredType DEF IInv, LapsedRuns
  <1>. QED
    BY <1>1, RecoveredType DEF JobsMove, IInv

LEMMA RecoverKeeps ==
  ASSUME IInv, NEW l \in Lanes, Recover(l)
  PROVE  IInv'
  <1>1. JobsMove /\ LaneClaims(None) /\ FailsStopped /\ events' \in Nat
    BY RecoverMoves, LanesStay DEF Recover, rows, FailsStopped, IInv, TypeOK
  <1>. QED
    BY <1>1, JobKeeps DEF Recover, rows

LEMMA ClaimKeeps ==
  ASSUME IInv, NEW l \in Lanes, Claim(l)
  PROVE  IInv'
  <1>. DEFINE R == Recovered
  <1>1. PICK d \in Deliveries :
          /\ R[d].status = "pending"
          /\ job' = [R EXCEPT ![d] = [R[d] EXCEPT !.status = "running",
                                                !.attempts = R[d].attempts + 1,
                                                !.gen = R[d].gen + 1]]
          /\ lane' = [lane EXCEPT ![l] =
               [pc |-> "scoping", d |-> d, gen |-> R[d].gen + 1, failure |-> "none"]]
    BY DEF Claim
  <1>2. /\ R \in [Deliveries -> JobRows]
        /\ \A p \in Deliveries :
             /\ R[p].gen = job[p].gen /\ ~R[p].lapsed
             /\ IF job[p].lapsed THEN R[p].status \in {"pending", "dead_letter"}
                ELSE R[p] = job[p]
    BY RecoveredType DEF IInv
  <1>. HIDE DEF R
  <1>3. /\ R[d].attempts \in Nat /\ R[d].attempts + 1 \in Nat
        /\ R[d].gen \in Nat /\ R[d].gen + 1 \in Nat
    BY <1>2 DEF JobRows
  <1>4. [R[d] EXCEPT !.status = "running", !.attempts = R[d].attempts + 1,
                     !.gen = R[d].gen + 1] \in JobRows
    BY <1>2, <1>3 DEF JobRows
  <1>5. /\ job' \in [Deliveries -> JobRows]
        /\ job'[d].status = "running" /\ job'[d].gen = job[d].gen + 1 /\ ~job'[d].lapsed
        /\ \A p \in Deliveries \ {d} : job'[p] = R[p]
    BY <1>1, <1>2, <1>4 DEF JobRows
  <1>6. job[d].status \notin {"absent", "done"}
    BY <1>1, <1>2 DEF IInv, LapsedRuns
  <1>7. JobsMove
    <2>1. ASSUME NEW p \in Deliveries
          PROVE  /\ job'[p].status = "absent" <=> job[p].status = "absent"
                 /\ job[p].status = "done" => job'[p].status = "done"
                 /\ job'[p].lapsed => job'[p].status = "running"
                 /\ job'[p].gen >= job[p].gen
                 /\ job'[p].status = "running" /\ job'[p].gen = job[p].gen => job'[p] = job[p]
      <3>1. job[p].gen \in Nat
        BY DEF IInv, TypeOK, JobRows
      <3>2. CASE p = d
        BY <1>5, <1>6, <3>1, <3>2
      <3>3. CASE p # d
        BY <1>2, <1>5, <3>1, <3>3 DEF IInv, LapsedRuns
      <3>. QED
        BY <3>2, <3>3
    <2>. QED
      BY <1>5, <2>1 DEF JobsMove
  <1>8. [pc |-> "scoping", d |-> d, gen |-> R[d].gen + 1, failure |-> "none"] \in LaneStates
    BY <1>3 DEF LaneStates, Steps, Failures
  <1>9. job[d].gen \in Nat /\ job[d].gen = R[d].gen
    BY <1>2, <1>3
  <1>10. LaneClaims(l)
    BY <1>1, <1>5, <1>6, <1>8, <1>9 DEF LaneClaims, IInv, TypeOK
  <1>11. /\ FailsStopped /\ events' \in Nat
         /\ UNCHANGED <<control, auth, scoped, outcome, dispatch, remote>>
    BY DEF Claim, rows, FailsStopped, IInv, TypeOK
  <1>. QED
    BY <1>7, <1>10, <1>11, JobKeeps

LEMMA JobOpMoves ==
  ASSUME IInv, JobsMove, NEW d \in Deliveries,
         RetryJob(d) \/ CancelJob(d) \/ Expire(d) \/ Overrun(d)
  PROVE  IInv'
  <1>1. UNCHANGED <<control, rows, dispatch, remote, lane>>
    BY DEF RetryJob, CancelJob, Expire, Overrun, Lapse
  <1>2. events' \in Nat
    BY DEF RetryJob, CancelJob, Expire, Overrun, Event, IInv, TypeOK
  <1>3. FailsStopped /\ LaneClaims(None)
    BY <1>1, LanesStay DEF FailsStopped, rows
  <1>. QED
    BY <1>1, <1>2, <1>3, JobKeeps DEF rows

LEMMA JobOpKeeps ==
  ASSUME IInv, NEW d \in Deliveries,
         RetryJob(d) \/ CancelJob(d) \/ Expire(d) \/ Overrun(d)
  PROVE  IInv'
  <1>1. job[d] \in JobRows
    BY DEF IInv, TypeOK
  <1>2. CASE RetryJob(d)
    <2>1. [job[d] EXCEPT !.status = "pending", !.attempts = 0] \in JobRows
      BY <1>1 DEF JobRows
    <2>2. job[d].status \in {"dead_letter", "cancelled"} /\ ~job[d].lapsed
      BY <1>2 DEF RetryJob, IInv, LapsedRuns
    <2>3. job' = [job EXCEPT ![d] = [job[d] EXCEPT !.status = "pending", !.attempts = 0]]
      BY <1>2 DEF RetryJob
    <2>4. JobsMove
      BY <1>1, <2>1, <2>2, <2>3, RowMoves DEF JobRows
    <2>. QED
      BY <1>2, <2>4, JobOpMoves
  <1>3. CASE CancelJob(d)
    <2>1. [job[d] EXCEPT !.status = "cancelled"] \in JobRows
      BY <1>1 DEF JobRows
    <2>2. job[d].status \in {"pending", "dead_letter"} /\ ~job[d].lapsed
      BY <1>3 DEF CancelJob, IInv, LapsedRuns
    <2>3. job' = [job EXCEPT ![d] = [job[d] EXCEPT !.status = "cancelled"]]
      BY <1>3 DEF CancelJob
    <2>4. JobsMove
      BY <1>1, <2>1, <2>2, <2>3, RowMoves DEF JobRows
    <2>. QED
      BY <1>3, <2>4, JobOpMoves
  <1>4. CASE Expire(d) \/ Overrun(d)
    <2>1. [job[d] EXCEPT !.lapsed = TRUE] \in JobRows
      BY <1>1 DEF JobRows
    <2>2. /\ job[d].status = "running"
          /\ job' = [job EXCEPT ![d] = [job[d] EXCEPT !.lapsed = TRUE]]
      BY <1>4 DEF Expire, Overrun, Lapse
    <2>3. JobsMove
      BY <1>1, <2>1, <2>2, RowMoves DEF JobRows
    <2>. QED
      BY <1>4, <2>3, JobOpMoves
  <1>. QED
    BY <1>2, <1>3, <1>4

----------------------------------------------------------------------------
(***************************************************************************)
(* Writers of the Mission and its task.  What they fence is not in flight  *)
(* and is revoked; what they do not fence stays under its authority.       *)
(***************************************************************************)
LEMMA WriterKeeps ==
  ASSUME IInv, NEW F \in SUBSET Deliveries, \A d \in F : ~InFlight(d),
         dispatch' = Revoked(F),
         mission' \in [rev : Nat, blocked : BOOLEAN], task' \in Tasks,
         auth' \in [Deliveries -> Authorities], events' \in Nat,
         UNCHANGED <<delivery, scoped, outcome, job, remote, lane>>,
         \A d \in Deliveries \ F :
           dispatch[d] \in {"authorized", "dispatching", "uncertain"} => Current(d)'
  PROVE  IInv'
  <1>. USE DEF IInv
  <1>1. /\ dispatch' \in [Deliveries -> DispatchStates]
        /\ \A d \in Deliveries :
             \/ dispatch'[d] = dispatch[d]
                  /\ (d \in F => dispatch[d] \notin {"authorized", "dispatching", "uncertain"})
             \/ dispatch'[d] = "revoked" /\ dispatch[d] = "authorized"
    BY DEF Revoked, InFlight, TypeOK, DispatchStates
  <1>2. TypeOK'
    BY <1>1 DEF TypeOK
  <1>3. LiveUnderAuthority'
    BY <1>1 DEF LiveUnderAuthority
  <1>4. (Fresh /\ DraftKept /\ SettledTogether)'
    BY <1>1 DEF Fresh, DraftKept, SettledTogether
  <1>5. (HoldsEnqueued /\ LapsedRuns /\ OutcomeOfDelivered /\ ScopeOwnedOnce /\ OneHolder
          /\ BoundHolder)'
    BY DEF HoldsEnqueued, LapsedRuns, OutcomeOfDelivered, ScopeOwnedOnce, OneHolder, BoundHolder,
           Fenced
  <1>6. Calling'
    <2>1. \A l \in Lanes : lane[l].pc # "idle" => lane[l].d \in Deliveries
      BY WorkingLane
    <2>. QED
      BY <1>1, <2>1 DEF Calling
  <1>. QED
    BY <1>2, <1>3, <1>4, <1>5, <1>6

LEMMA ControlPlaneKeeps ==
  ASSUME IInv, ControlPlane
  PROVE  IInv'
  <1>. USE DEF rows
  <1>1. TypeOK /\ LiveUnderAuthority /\ mission.rev + 1 \in Nat /\ task.rev + 1 \in Nat
    BY DEF IInv, TypeOK, Tasks
  <1>2. CASE AdvanceMission \/ RaiseBlocker
    <2>1. /\ Write(Deliveries) /\ task' = task
          /\ mission' \in [rev : Nat, blocked : BOOLEAN]
      BY <1>1, <1>2 DEF AdvanceMission, RaiseBlocker, TypeOK
    <2>2. events' \in Nat
      BY <1>1, <2>1 DEF Write, Event, TypeOK
    <2>. QED
      BY <1>1, <2>1, <2>2, WriterKeeps DEF Write, TypeOK
  <1>3. CASE ResolveBlocker
    <2>1. /\ Write({}) /\ task' = task /\ mission.blocked
          /\ mission' \in [rev : Nat, blocked : BOOLEAN]
      BY <1>1, <1>3 DEF ResolveBlocker, TypeOK
    <2>2. events' \in Nat
      BY <1>1, <2>1 DEF Write, Event, TypeOK
    <2>3. \A d \in Deliveries : dispatch[d] \notin {"authorized", "dispatching", "uncertain"}
      BY <1>1, <2>1 DEF LiveUnderAuthority, Current, MissionCurrent
    <2>. QED
      BY <1>1, <2>1, <2>2, <2>3, WriterKeeps DEF Write, TypeOK
  <1>4. CASE CreateTask
    <2>1. Write(NullLane) /\ mission' = mission
      BY <1>4 DEF CreateTask
    <2>2. \/ task = NoTask /\ task' = [rev |-> 1, status |-> "waiting"]
          \/ task' = task
      BY <1>4 DEF CreateTask
    <2>3. task' \in Tasks /\ events' \in Nat
      BY <1>1, <2>1, <2>2 DEF Tasks, TaskStatuses, TypeOK, Write, Event
    <2>4. ASSUME NEW d \in Deliveries \ NullLane,
                 dispatch[d] \in {"authorized", "dispatching", "uncertain"}
          PROVE  Current(d)'
      <3>1. Current(d) /\ auth[d].task # NoTask
        BY <1>1, <2>4 DEF LiveUnderAuthority, NullLane, TaskLane
      <3>2. task # NoTask
        BY <3>1 DEF Current, Claimed, NoTask
      <3>. QED
        BY <2>1, <2>2, <3>1, <3>2 DEF Current, MissionCurrent, Claimed, Write
    <2>. QED
      BY <1>1, <2>1, <2>3, <2>4, WriterKeeps DEF Write, TypeOK, NullLane
  <1>5. CASE WriteTask
    <2>1. PICK status \in TaskMoves[task.status] :
            /\ Write(TaskLane) /\ mission' = mission
            /\ task' = [rev |-> task.rev + 1, status |-> status]
      BY <1>5 DEF WriteTask
    <2>2. task.status \in TaskStatuses
      BY <1>1 DEF TypeOK, Tasks
    <2>3. status \in TaskStatuses /\ task.status # "absent"
      BY <2>1, <2>2 DEF TaskStatuses, TaskMoves
    <2>4. task' \in Tasks /\ events' \in Nat
      BY <1>1, <2>1, <2>3 DEF Tasks, TypeOK, Write, Event
    <2>5. ASSUME NEW d \in Deliveries \ TaskLane,
                 dispatch[d] \in {"authorized", "dispatching", "uncertain"}
          PROVE  FALSE
      BY <1>1, <2>3, <2>5 DEF LiveUnderAuthority, Current, Claimed, TaskLane, NoTask
    <2>6. TaskLane \in SUBSET Deliveries
      BY DEF TaskLane
    <2>. QED
      BY <1>1, <2>1, <2>4, <2>5, <2>6, WriterKeeps DEF Write, TypeOK
  <1>. QED
    BY <1>2, <1>3, <1>4, <1>5 DEF ControlPlane

LEMMA ReplayMergedKeeps ==
  ASSUME IInv, NEW d \in Deliveries, ReplayMerged(d)
  PROVE  IInv'
  <1>1. /\ TypeOK /\ LiveUnderAuthority /\ task.rev + 1 \in Nat
        /\ task.status = "agent_working"
    BY DEF IInv, TypeOK, Tasks, ReplayMerged, MergeSettles
  <1>2. Refreshed \in Authorities
    BY <1>1 DEF TypeOK, Refreshed, Authorities
  <1>3. /\ task' \in Tasks /\ mission' \in [rev : Nat, blocked : BOOLEAN]
        /\ auth' \in [Deliveries -> Authorities] /\ events' \in Nat
    BY <1>1, <1>2 DEF ReplayMerged, TypeOK, Tasks, TaskStatuses
  <1>4. \A p \in Deliveries \ TaskLane :
          dispatch[p] \notin {"authorized", "dispatching", "uncertain"}
    BY <1>1 DEF LiveUnderAuthority, Current, Claimed, TaskLane, NoTask
  <1>5. TaskLane \in SUBSET Deliveries
    BY DEF TaskLane
  <1>. QED
    BY <1>3, <1>4, <1>5, WriterKeeps DEF ReplayMerged

----------------------------------------------------------------------------
(* The approval, the reviewer and the webhook.                             *)

LEMMA EnqueueKeeps ==
  ASSUME IInv, NEW d \in Deliveries, Enqueue(d)
  PROVE  IInv'
  <1>. USE DEF IInv
  <1>1. /\ job[d] \in JobRows /\ job[d].status = "absent" /\ dispatch[d] = "none"
        /\ delivery[d] = "absent" /\ d \notin scoped /\ ~job[d].lapsed
    BY DEF Enqueue, Fresh, LapsedRuns, TypeOK
  <1>2. [job[d] EXCEPT !.status = "pending"] \in JobRows
    BY <1>1 DEF JobRows
  <1>3. /\ job' = [job EXCEPT ![d] = [job[d] EXCEPT !.status = "pending"]]
        /\ delivery' = [delivery EXCEPT ![d] = "pending"]
        /\ auth' = [auth EXCEPT ![d] = Refreshed]
        /\ UNCHANGED <<mission, task, scoped, outcome, dispatch, remote, lane, events>>
    BY DEF Enqueue, control
  <1>4. /\ job' \in [Deliveries -> JobRows]
        /\ job'[d].status = "pending" /\ ~job'[d].lapsed
        /\ \A p \in Deliveries \ {d} : job'[p] = job[p]
    BY <1>1, <1>2, <1>3 DEF TypeOK, JobRows
  <1>5. Refreshed \in Authorities
    BY DEF TypeOK, Refreshed, Authorities
  <1>6. TypeOK'
    BY <1>3, <1>4, <1>5 DEF TypeOK, DeliveryStates
  <1>7. LiveUnderAuthority'
    BY <1>1, <1>3 DEF LiveUnderAuthority, Current, MissionCurrent, Claimed, TypeOK
  <1>8. (Fresh /\ DraftKept /\ SettledTogether /\ LapsedRuns /\ OutcomeOfDelivered
          /\ ScopeOwnedOnce)'
    BY <1>1, <1>3, <1>4 DEF Fresh, DraftKept, SettledTogether, LapsedRuns, OutcomeOfDelivered,
                            ScopeOwnedOnce, TypeOK
  <1>9. \A l \in Lanes : lane[l].pc # "idle" => lane[l].d \in Deliveries \ {d}
    BY <1>1, WorkingLane DEF HoldsEnqueued
  <1>10. (HoldsEnqueued /\ Calling /\ OneHolder)'
    BY <1>3, <1>4, <1>9 DEF HoldsEnqueued, Calling, OneHolder
  <1>11. BoundHolder'
    BY <1>3, <1>4, <1>9 DEF BoundHolder, BoundSteps, Fenced, TypeOK
  <1>. QED
    BY <1>6, <1>7, <1>8, <1>10, <1>11

LEMMA ReviewKeeps ==
  ASSUME IInv, NEW d \in Deliveries, Review(d) \/ RecordOutcome(d)
  PROVE  IInv'
  <1>. USE DEF IInv, control, rows
  <1>1. /\ UNCHANGED <<mission, task, auth, job, delivery, scoped, dispatch, lane, events>>
        /\ remote[d] # "none" /\ remote' = [remote EXCEPT ![d] = "changed"]
        /\ \/ outcome' = outcome
           \/ /\ delivery[d] = "delivered"
              /\ \E o \in {"closed", "merged"} : outcome' = [outcome EXCEPT ![d] = o]
    BY DEF Review, RecordOutcome, SettledTogether
  <1>2. TypeOK'
    BY <1>1 DEF TypeOK, RemoteStates
  <1>3. (LiveUnderAuthority /\ Fresh /\ HoldsEnqueued /\ LapsedRuns /\ OneHolder /\ BoundHolder)'
    BY <1>1 DEF LiveUnderAuthority, Fresh, HoldsEnqueued, LapsedRuns, OneHolder, BoundHolder,
                Current, MissionCurrent, Claimed, Fenced
  <1>4. (DraftKept /\ SettledTogether /\ OutcomeOfDelivered)'
    BY <1>1 DEF DraftKept, SettledTogether, OutcomeOfDelivered, TypeOK
  <1>5. ScopeOwnedOnce'
    BY <1>1 DEF ScopeOwnedOnce, TypeOK
  <1>6. Calling'
    <2>1. \A l \in Lanes : lane[l].pc # "idle" => lane[l].d \in Deliveries
      BY WorkingLane
    <2>. QED
      BY <1>1, <2>1 DEF Calling, TypeOK
  <1>. QED
    BY <1>2, <1>3, <1>4, <1>5, <1>6

LEMMA StutterKeeps ==
  ASSUME IInv, UNCHANGED vars
  PROVE  IInv'
  BY DEF IInv, vars, control, rows, TypeOK, LiveUnderAuthority, Fresh, HoldsEnqueued, Calling,
         DraftKept, SettledTogether, LapsedRuns, OutcomeOfDelivered, ScopeOwnedOnce, OneHolder,
         BoundHolder, Fenced, Current, MissionCurrent, Claimed

LEMMA NextKeeps == IInv /\ [Next]_vars => IInv'
  <1>. SUFFICES ASSUME IInv, [Next]_vars PROVE IInv'
    OBVIOUS
  <1>1. CASE \E l \in Lanes : Claim(l) \/ Recover(l) \/ Run(l) \/ Crash(l)
    <2>1. PICK l \in Lanes : Claim(l) \/ Recover(l) \/ Run(l) \/ Crash(l)
      BY <1>1
    <2>2. ASSUME Run(l) PROVE IInv'
      BY <2>2, ScopeKeeps, BindKeeps, ResolveFailsKeeps, AuthorizeKeeps, BeginKeeps,
         CallCreatesKeeps, CallReturnsKeeps, CallThrowsKeeps, FinalizeKeeps, FailKeeps DEF Run
    <2>. QED
      BY <2>1, <2>2, ClaimKeeps, RecoverKeeps, ResolveFailsKeeps
  <1>2. CASE ControlPlane
    BY <1>2, ControlPlaneKeeps
  <1>3. ASSUME NEW d \in Deliveries,
               \/ Enqueue(d) \/ RetryJob(d) \/ CancelJob(d) \/ Expire(d) \/ Overrun(d)
               \/ Review(d) \/ RecordOutcome(d) \/ ReplayMerged(d)
        PROVE  IInv'
    BY <1>3, EnqueueKeeps, JobOpKeeps, ReviewKeeps, ReplayMergedKeeps
  <1>4. CASE UNCHANGED vars
    BY <1>4, StutterKeeps
  <1>. QED
    BY <1>1, <1>2, <1>3, <1>4 DEF Next

LEMMA Invariance == Spec => []IInv
  BY InitIInv, NextKeeps, PTL DEF Spec

----------------------------------------------------------------------------
(***************************************************************************)
(* Theorems.                                                               *)
(***************************************************************************)
(* The rows, the lanes and the counters keep their shape, and a lane is    *)
(* idle exactly when it holds no delivery.                                 *)
THEOREM TypesHold == Spec => []TypeOK
  <1>1. IInv => TypeOK
    BY DEF IInv
  <1>. QED
    BY <1>1, Invariance, PTL

(* While a dispatch row is armed, or a draft may be half made, the Mission *)
(* is what the reviewer approved: the writers revoke or are refused        *)
(* (assertMissionMutationFence), whatever the lanes do meanwhile.          *)
THEOREM FencedMissionStands == Spec => []LiveUnderAuthority
  <1>1. IInv => LiveUnderAuthority
    BY DEF IInv
  <1>. QED
    BY <1>1, Invariance, PTL

(* A draft on GitHub is recorded, or fences the Mission: no crash, lost    *)
(* lease or handover between the call and finalizeDelivered forgets it.    *)
THEOREM NoDraftForgotten == Spec => []DraftAccountedFor
  <1>1. IInv => DraftAccountedFor
    BY DEF IInv, DraftAccountedFor, DraftKept, SettledTogether
  <1>. QED
    BY <1>1, Invariance, PTL

(* The transaction of finalizeDelivered: the fence, the delivery and the   *)
(* job finish together, and only with a draft.                             *)
THEOREM FinishedTogether == Spec => []SettledTogether
  <1>1. IInv => SettledTogether
    BY DEF IInv
  <1>. QED
    BY <1>1, Invariance, PTL

(* bindWardenCandidateDeliveryScope: a provider change has one owner among *)
(* the pending deliveries and the open pull requests, though scopes are    *)
(* bound, drafts recorded and outcomes stored in transactions of different *)
(* lanes.                                                                  *)
THEOREM ChangeOwnedOnce == Spec => []ScopeOwnedOnce
  <1>1. IInv => ScopeOwnedOnce
    BY DEF IInv
  <1>. QED
    BY <1>1, Invariance, PTL

(* The remote call of deliverExactDraft creates a draft only while the     *)
(* Mission is the one that was approved, also when the lane that calls has *)
(* lost its lease.                                                         *)
THEOREM CreatesUnderAuthority == Spec => EffectUnderAuthority
  <1>. DEFINE A == \A d \in Deliveries : remote[d] = "none" /\ remote'[d] # "none" => Current(d)
  <1>1. IInv /\ [Next]_vars => [A]_vars
    <2>. SUFFICES ASSUME IInv, Next, NEW d \in Deliveries, remote[d] = "none", remote'[d] # "none"
                  PROVE  Current(d)
      BY DEF vars
    <2>1. CASE \E l \in Lanes : CallCreates(l)
      <3>1. PICK l \in Lanes : CallCreates(l)
        BY <2>1
      <3>2. d = lane[l].d
        BY <3>1 DEF CallCreates, IInv, TypeOK
      <3>. QED
        BY <3>1, <3>2, CallsInFlight DEF IInv, LiveUnderAuthority
    <2>2. CASE \E p \in Deliveries : Review(p) \/ RecordOutcome(p)
      <3>1. PICK p \in Deliveries : Review(p) \/ RecordOutcome(p)
        BY <2>2
      <3>2. remote[p] # "none" /\ remote' = [remote EXCEPT ![p] = "changed"]
        BY <3>1 DEF Review, RecordOutcome, IInv, SettledTogether
      <3>. QED
        BY <3>2 DEF IInv, TypeOK
    <2>3. ASSUME NEW l \in Lanes, Claim(l) \/ Recover(l) \/ Run(l) \/ Crash(l), ~CallCreates(l)
          PROVE  UNCHANGED remote
      BY <2>3 DEF Claim, Recover, Run, Crash, Scope, Bind, ResolveFails, Authorize,
                  SnapshotExpires, Begin, CallReturns, CallThrows, Finalize, FinalizationFails, Fail
    <2>4. ControlPlane => UNCHANGED remote
      BY DEF ControlPlane, AdvanceMission, RaiseBlocker, ResolveBlocker, CreateTask, WriteTask, Write
    <2>5. \A p \in Deliveries :
            \/ Enqueue(p) \/ RetryJob(p) \/ CancelJob(p) \/ Expire(p) \/ Overrun(p)
            \/ ReplayMerged(p)
            => UNCHANGED remote
      BY DEF Enqueue, RetryJob, CancelJob, Expire, Overrun, Lapse, ReplayMerged
    <2>. QED
      BY <2>1, <2>2, <2>3, <2>4, <2>5 DEF Next
  <1>. QED
    BY <1>1, Invariance, PTL DEF Spec, EffectUnderAuthority

(* What the comment of beginMissionMutationRemoteCall asks for: a lane     *)
(* that lost its lease leaves the dispatch to its successor.               *)
THEOREM LanesRevokeNothing == Spec => RevokedOnlyByWriters
  <1>. DEFINE A == \A d \in Deliveries :
                     dispatch'[d] = "revoked" /\ dispatch[d] # "revoked" =>
                       events' # events \/ task' # task
  <1>1. IInv /\ [Next]_vars => [A]_vars
    <2>. SUFFICES ASSUME IInv, Next, NEW d \in Deliveries,
                         dispatch'[d] = "revoked", dispatch[d] # "revoked"
                  PROVE  events' # events \/ task' # task
      BY DEF vars
    <2>1. TypeOK
      BY DEF IInv
    <2>2. ASSUME NEW l \in Lanes, Authorize(l) \/ Begin(l) \/ CallThrows(l)
                                   \/ FinalizationFails(l) \/ Finalize(l)
          PROVE  FALSE
      <3>1. lane[l].d \in Deliveries
        BY <2>1, <2>2, WorkingLane
           DEF Authorize, Begin, CallThrows, FinalizationFails, Finalize
      <3>2. ~Current(lane[l].d) => Revoked({lane[l].d}) = dispatch
        BY <3>1, BeginRevokesNothing
      <3>. QED
        BY <2>1, <2>2, <3>1, <3>2
           DEF TypeOK, Authorize, Rearmed, Begin, CallThrows, FinalizationFails, Finalize,
               MarkedUncertain
    <2>3. ASSUME NEW l \in Lanes,
                 \/ Claim(l) \/ Recover(l) \/ Crash(l) \/ Scope(l) \/ Bind(l) \/ ResolveFails(l)
                 \/ SnapshotExpires(l) \/ CallCreates(l) \/ CallReturns(l) \/ Fail(l)
          PROVE  UNCHANGED dispatch
      BY <2>3 DEF Claim, Recover, Crash, Scope, Bind, ResolveFails, SnapshotExpires, CallCreates,
                  CallReturns, Fail
    <2>4. ControlPlane => events' # events
      BY <2>1 DEF ControlPlane, AdvanceMission, RaiseBlocker, ResolveBlocker, CreateTask,
                  WriteTask, Write, Event, TypeOK
    <2>5. \A p \in Deliveries : ReplayMerged(p) => task' # task
      BY <2>1 DEF ReplayMerged, TypeOK, Tasks
    <2>6. \A p \in Deliveries :
            \/ Enqueue(p) \/ RetryJob(p) \/ CancelJob(p) \/ Expire(p) \/ Overrun(p)
            \/ Review(p) \/ RecordOutcome(p)
            => UNCHANGED dispatch
      BY DEF Enqueue, RetryJob, CancelJob, Expire, Overrun, Lapse, Review, RecordOutcome
    <2>. QED
      BY <2>2, <2>3, <2>4, <2>5, <2>6 DEF Next, Run
  <1>. QED
    BY <1>1, Invariance, PTL DEF Spec, RevokedOnlyByWriters
=============================================================================
