--------------------------- MODULE CiReentryProofs ---------------------------
(***************************************************************************)
(* Proofs about CiReentry, for any number of lanes and any bounds.         *)
(***************************************************************************)
EXTENDS CiReentry, TLAPS

USE NamesAssumption, BoundsAssumption

----------------------------------------------------------------------------
(***************************************************************************)
(* The inductive invariant.  A lane acts on what it read some steps ago, so *)
(* the invariant says what remains true of it: what kind of job it is at   *)
(* (Placed), that a repair it decided on is still within the budget        *)
(* (Budgeted), that the update it pushes exists (Updating), is in doubt as *)
(* long as nobody refuted it behind the lane's back (CallsInDoubt), and    *)
(* that what it records has landed (RecordsLanded).                        *)
(***************************************************************************)
StepsOf == [observe |-> {"observing", "observed"},
            repair |-> {"dispatching", "enqueuing"},
            update |-> {"inspecting", "resolving", "reconciling", "refuting", "authorizing",
                        "beginning", "calling", "recording"}]

Placed ==
  \A l \in Lanes :
    lane[l].pc # "idle" =>
      /\ lane[l].role \in Roles
      /\ lane[l].pc \in StepsOf[lane[l].role] \cup {"failing"}
      /\ lane[l].head <= cycle.head

(* Every repair uses budget, and every update is made by a repair: the head *)
(* stays within the budget.                                                *)
Counted ==
  /\ cycle.head <= cycle.used
  /\ cycle.status = "repair_pending" => cycle.head < cycle.used
  /\ \A h \in Heads : update[h] # "none" => h < cycle.used

Budgeted ==
  \A l \in Lanes :
    lane[l].pc = "enqueuing" /\ Fenced(l) /\ cycle.status = "checks_failed" => cycle.used < MaxCycles

(* An update is made of the head of the cycle, once, and until it is over   *)
(* the cycle waits for it or stands.                                       *)
Unrepeated ==
  \A h \in Heads :
    update[h] # "none" =>
      \/ h < cycle.head
      \/ h = cycle.head /\ cycle.status \in {"update_pending", "paused"}

Pushes == {"resolving", "reconciling", "refuting", "authorizing", "beginning", "calling", "recording"}

Updating ==
  /\ cycle.status = "update_pending" => update[cycle.head] # "none"
  /\ \A l \in Lanes : lane[l].pc \in Pushes => update[lane[l].head] # "none"

(* A job that an operator could revive counts as one that may still run.   *)
Live(r) == job[r].status \notin {"absent", "done"}

Served ==
  \A r \in Roles :
    /\ Live(r) => cycle.status \in {ServedBy[r], "paused", "exhausted"}
    /\ cycle.status = ServedBy[r] => Live(r)

(* An armed dispatch belongs to an update in doubt, too, and without a     *)
(* Mission there is none.                                                  *)
DoubtShared ==
  \A h \in Heads :
    /\ dispatch[h] \in InFlight \cup {"authorized"} => update[h] \in InDoubt
    /\ dispatch[h] = "settled" => update[h] \in {"pending", "delivered", "failed"}
    /\ update[h] = "delivered" /\ Bound => dispatch[h] = "settled"
    /\ ~Bound => dispatch[h] = "none"

CallsInDoubt ==
  \A l \in Lanes :
    lane[l].pc = "calling" => \/ update[lane[l].head] \in InDoubt
                              \/ lane[l].head < cycle.head
                              \/ outrun

RecordsLanded ==
  \A l \in Lanes : lane[l].pc = "recording" => remote = Foreign \/ lane[l].head < remote

IInv ==
  /\ TypeOK
  /\ Placed
  /\ Counted
  /\ Budgeted
  /\ Unrepeated
  /\ Updating
  /\ Served
  /\ DoubtShared
  /\ CallsInDoubt
  /\ RecordsLanded
  /\ HeadAccounted

----------------------------------------------------------------------------
(* Types.                                                                  *)

LEMMA HeadsAreNat == Heads \subseteq Nat /\ 0 \in Heads /\ Foreign \notin Heads
  BY DEF Heads

LEMMA InitTypeOK == Init => TypeOK
  <1>. SUFFICES ASSUME Init PROVE TypeOK
    OBVIOUS
  <1>1. \A s \in {"pending", "absent"} :
          [status |-> s, attempts |-> 0, holder |-> None, lapsed |-> FALSE] \in JobRows
    BY DEF JobRows
  <1>2. job \in [Roles -> JobRows]
    <2>1. NewJob \in JobRows
      BY <1>1 DEF NewJob
    <2>2. [NewJob EXCEPT !.status = "absent"] \in JobRows
      BY <2>1 DEF JobRows
    <2>. QED
      BY <2>1, <2>2 DEF Init
  <1>3. lane \in [Lanes -> LaneStates]
    BY HeadsAreNat DEF Init, Idle, LaneStates, Steps, UpdateStates
  <1>4. cycle \in [status : CycleStatuses, head : Heads, used : Heads]
    BY HeadsAreNat DEF Init, CycleStatuses
  <1>5. events \in 0..MaxEvents
    BY DEF Init
  <1>. QED
    BY <1>2, <1>3, <1>4, <1>5, HeadsAreNat DEF Init, TypeOK, RunStatuses, UpdateStates, DispatchStates

(* What a step does to the lanes: lane l goes on at one of the steps S,    *)
(* fails, or rests.                                                        *)
Moves(l, S) ==
  /\ lane' \in [Lanes -> LaneStates]
  /\ \A k \in Lanes \ {l} : lane'[k] = lane[k]
  /\ \/ lane'[l].pc = "idle"
     \/ /\ lane'[l].pc \in S \cup {"failing"}
        /\ lane'[l].role = lane[l].role /\ lane'[l].head = lane[l].head

LEMMA IdleTyped == Idle \in LaneStates /\ Idle.pc = "idle"
  BY HeadsAreNat DEF Idle, LaneStates, Steps, UpdateStates

LEMMA RestMoves ==
  ASSUME TypeOK, NEW l \in Lanes, Rest(l), NEW S
  PROVE  Moves(l, S)
  BY IdleTyped DEF TypeOK, Rest, Moves

LEMMA GotoMoves ==
  ASSUME TypeOK, NEW l \in Lanes, NEW S \in SUBSET Steps, NEW step \in S, Goto(l, step)
  PROVE  Moves(l, S) /\ lane'[l].pc = step
  <1>1. lane[l] \in LaneStates
    BY DEF TypeOK
  <1>2. [lane[l] EXCEPT !.pc = step] \in LaneStates
    BY <1>1 DEF LaneStates
  <1>3. lane' = [lane EXCEPT ![l] = [lane[l] EXCEPT !.pc = step]]
    BY DEF Goto
  <1>4. /\ lane' \in [Lanes -> LaneStates]
        /\ lane'[l] = [lane[l] EXCEPT !.pc = step]
        /\ \A k \in Lanes \ {l} : lane'[k] = lane[k]
    BY <1>2, <1>3 DEF TypeOK
  <1>. QED
    BY <1>1, <1>4 DEF Moves, LaneStates

LEMMA ThrowMoves ==
  ASSUME TypeOK, NEW l \in Lanes, NEW f \in {"terminal", "retryable", "uncertain", "refused"}, Throw(l, f), NEW S
  PROVE  Moves(l, S) /\ lane'[l].pc = "failing"
  <1>1. lane[l] \in LaneStates
    BY DEF TypeOK
  <1>2. [lane[l] EXCEPT !.pc = "failing", !.note = f] \in LaneStates
    BY <1>1 DEF LaneStates, Steps, UpdateStates
  <1>3. lane' = [lane EXCEPT ![l] = [lane[l] EXCEPT !.pc = "failing", !.note = f]]
    BY DEF Throw
  <1>4. /\ lane' \in [Lanes -> LaneStates]
        /\ lane'[l] = [lane[l] EXCEPT !.pc = "failing", !.note = f]
        /\ \A k \in Lanes \ {l} : lane'[k] = lane[k]
    BY <1>2, <1>3 DEF TypeOK
  <1>. QED
    BY <1>1, <1>4 DEF Moves, LaneStates

JobStatuses == {"absent", "pending", "running", "done", "dead_letter", "cancelled"}

LEMMA ReleasedRow ==
  ASSUME TypeOK, NEW r \in Roles, NEW s \in JobStatuses
  PROVE  /\ Released(r, s) \in [Roles -> JobRows]
         /\ Released(r, s)[r].status = s /\ Released(r, s)[r].holder = None
         /\ \A k \in Roles \ {r} : Released(r, s)[k] = job[k]
  <1>1. job[r] \in JobRows
    BY DEF TypeOK
  <1>2. [job[r] EXCEPT !.status = s, !.holder = None] \in JobRows
    BY <1>1 DEF JobRows, JobStatuses
  <1>3. Released(r, s) = [job EXCEPT ![r] = [job[r] EXCEPT !.status = s, !.holder = None]]
    BY DEF Released
  <1>. QED
    BY <1>1, <1>2, <1>3 DEF TypeOK, JobRows

LEMMA NewJobTyped == NewJob \in JobRows
  BY DEF NewJob, JobRows

LEMMA RecoveredRows ==
  ASSUME TypeOK
  PROVE  /\ Recovered \in [Roles -> JobRows]
         /\ \A r \in Roles :
              \/ Recovered[r] = job[r]
              \/ /\ job[r].status = "running" /\ job[r].lapsed
                 /\ Recovered[r].status \in {"pending", "dead_letter"}
  <1>1. ASSUME NEW r \in Roles
        PROVE  /\ Recovered[r] \in JobRows
               /\ \/ Recovered[r] = job[r]
                  \/ /\ job[r].status = "running" /\ job[r].lapsed
                     /\ Recovered[r].status \in {"pending", "dead_letter"}
    <2>1. job[r] \in JobRows
      BY DEF TypeOK
    <2>2. CASE job[r].status = "running" /\ job[r].lapsed
      <3>1. PICK s \in {"pending", "dead_letter"} :
              Recovered[r] = [job[r] EXCEPT !.lapsed = FALSE, !.holder = None, !.status = s]
        BY <2>2 DEF Recovered
      <3>. QED
        BY <2>1, <2>2, <3>1 DEF JobRows
    <2>3. CASE ~(job[r].status = "running" /\ job[r].lapsed)
      BY <2>1, <2>3 DEF Recovered
    <2>. QED
      BY <2>2, <2>3
  <1>. QED
    BY <1>1 DEF Recovered

(* What a step does to the cycle: it gets another status, or keeps it.     *)
LEMMA StatusTyped ==
  ASSUME TypeOK, NEW s \in CycleStatuses
  PROVE  /\ WithStatus(s) \in [status : CycleStatuses, head : Heads, used : Heads]
         /\ WithStatus(s).status = s
         /\ WithStatus(s).head = cycle.head /\ WithStatus(s).used = cycle.used
  BY DEF TypeOK, WithStatus

----------------------------------------------------------------------------
LEMMA LanesStay ==
  ASSUME TypeOK, UNCHANGED lane
  PROVE  lane' \in [Lanes -> LaneStates]
  BY DEF TypeOK

Cycles == [status : CycleStatuses, head : Heads, used : Heads]

LEMMA EventsTyped ==
  ASSUME TypeOK, Event \/ UNCHANGED events
  PROVE  events' \in 0..MaxEvents
  BY DEF TypeOK, Event

LEMMA StepHeads ==
  ASSUME IInv, NEW h \in Heads, update[h] # "none"
  PROVE  h + 1 \in Heads /\ h + 1 <= cycle.used
  BY DEF IInv, TypeOK, Counted, Heads

(* The steps of the jobs, and of the people, type by type.                 *)
LEMMA JobStepTypes ==
  ASSUME TypeOK, Placed,
         \/ \E l \in Lanes : Claim(l) \/ Recover(l) \/ Crash(l)
         \/ \E r \in Roles : RetryJob(r) \/ CancelJob(r) \/ Expire(r) \/ Overrun(r)
  PROVE  TypeOK'
  <1>1. /\ UNCHANGED <<rows, mission, remote, outrun>>
        /\ events' \in 0..MaxEvents
    BY EventsTyped DEF Claim, Recover, Crash, RetryJob, CancelJob, Expire, Overrun, Lapse, rows
  <1>2. job' \in [Roles -> JobRows]
    <2>1. ASSUME NEW l \in Lanes, Claim(l) PROVE job' \in [Roles -> JobRows]
      <3>1. PICK r \in Roles :
              job' = [Recovered EXCEPT ![r].status = "running", ![r].holder = l,
                        ![r].attempts = IF @ < MaxAttempts THEN @ + 1 ELSE @]
        BY <2>1 DEF Claim
      <3>2. Recovered[r] \in JobRows
        BY RecoveredRows
      <3>3. \A n \in 0..MaxAttempts : (IF n < MaxAttempts THEN n + 1 ELSE n) \in 0..MaxAttempts
        OBVIOUS
      <3>4. [Recovered[r] EXCEPT !.status = "running", !.holder = l,
               !.attempts = IF @ < MaxAttempts THEN @ + 1 ELSE @] \in JobRows
        BY <3>2, <3>3 DEF JobRows
      <3>5. job' = [Recovered EXCEPT ![r] =
              [Recovered[r] EXCEPT !.status = "running", !.holder = l,
                 !.attempts = IF @ < MaxAttempts THEN @ + 1 ELSE @]]
        BY <3>1
      <3>. QED
        BY <3>4, <3>5, RecoveredRows
    <2>2. ASSUME NEW l \in Lanes, Recover(l) \/ Crash(l) PROVE job' \in [Roles -> JobRows]
      BY <2>2, RecoveredRows DEF Recover, Crash, TypeOK
    <2>3. ASSUME NEW r \in Roles, RetryJob(r) \/ CancelJob(r) \/ Lapse(r)
          PROVE  job' \in [Roles -> JobRows]
      <3>1. job[r] \in JobRows
        BY DEF TypeOK
      <3>2. /\ [job[r] EXCEPT !.status = "pending", !.attempts = 0] \in JobRows
            /\ [job[r] EXCEPT !.status = "cancelled"] \in JobRows
            /\ [job[r] EXCEPT !.lapsed = TRUE] \in JobRows
        <4>1. 0 \in 0..MaxAttempts
          OBVIOUS
        <4>2. [job[r] EXCEPT !.status = "pending", !.attempts = 0] \in JobRows
          BY <3>1, <4>1 DEF JobRows
        <4>3. [job[r] EXCEPT !.status = "cancelled"] \in JobRows
          BY <3>1 DEF JobRows
        <4>4. [job[r] EXCEPT !.lapsed = TRUE] \in JobRows
          BY <3>1 DEF JobRows
        <4>. QED
          BY <4>2, <4>3, <4>4
      <3>3. \/ job' = [job EXCEPT ![r] = [job[r] EXCEPT !.status = "pending", !.attempts = 0]]
            \/ job' = [job EXCEPT ![r] = [job[r] EXCEPT !.status = "cancelled"]]
            \/ job' = [job EXCEPT ![r] = [job[r] EXCEPT !.lapsed = TRUE]]
        BY <2>3 DEF RetryJob, CancelJob, Lapse
      <3>. QED
        BY <3>2, <3>3 DEF TypeOK
    <2>. QED
      BY <2>1, <2>2, <2>3 DEF Expire, Overrun
  <1>3. lane' \in [Lanes -> LaneStates]
    <2>1. ASSUME NEW l \in Lanes, Claim(l) PROVE lane' \in [Lanes -> LaneStates]
      <3>1. PICK r \in Roles :
              lane' = [lane EXCEPT ![l] = [Idle EXCEPT !.pc = FirstStep[r], !.role = r, !.head = cycle.head]]
        BY <2>1 DEF Claim
      <3>2. FirstStep[r] \in Steps
        BY DEF FirstStep, Steps, Roles
      <3>3. cycle.head \in Heads
        BY DEF TypeOK
      <3>4. [Idle EXCEPT !.pc = FirstStep[r], !.role = r, !.head = cycle.head] \in LaneStates
        BY <3>2, <3>3, IdleTyped DEF LaneStates
      <3>. QED
        BY <3>1, <3>4 DEF TypeOK
    <2>2. ASSUME NEW l \in Lanes, Crash(l) PROVE lane' \in [Lanes -> LaneStates]
      BY <2>2, IdleTyped DEF Crash, Rest, TypeOK
    <2>. QED
      BY <2>1, <2>2 DEF Recover, RetryJob, CancelJob, Expire, Overrun, Lapse, TypeOK
  <1>. QED
    BY <1>1, <1>2, <1>3 DEF TypeOK, rows

LEMMA PeopleStepTypes ==
  ASSUME IInv, AgentEnds \/ ExpireCandidate \/ People
  PROVE  TypeOK'
  <1>. TypeOK /\ Counted
    BY DEF IInv
  <1>1. lane' \in [Lanes -> LaneStates] /\ UNCHANGED lane /\ outrun' = outrun /\ events' \in 0..MaxEvents
    BY EventsTyped, LanesStay
       DEF AgentEnds, ExpireCandidate, People, Approve, Regenerate, Reject, Pause, Wake, Accept,
           ChangeMission, PushByOthers, rows, TypeOK
  <1>2. run' \in RunStatuses
    BY DEF AgentEnds, ExpireCandidate, People, Approve, Regenerate, Reject, Pause, Wake, Accept,
           ChangeMission, PushByOthers, rows, TypeOK, RunStatuses
  <1>3. cycle' \in Cycles
    <2>1. CASE Regenerate
      <3>1. cycle.used + 1 \in Heads
        BY <2>1 DEF Regenerate, TypeOK, Heads
      <3>. QED
        BY <2>1, <3>1 DEF Regenerate, TypeOK, Cycles
    <2>2. CASE ~Regenerate
      <3>1. UNCHANGED cycle \/ \E s \in CycleStatuses : cycle' = WithStatus(s)
        BY <2>2 DEF AgentEnds, ExpireCandidate, People, Approve, Reject, Pause, Wake, Accept,
           ChangeMission, PushByOthers, rows, CycleStatuses
      <3>. QED
        BY <3>1, StatusTyped DEF TypeOK, Cycles
    <2>. QED
      BY <2>1, <2>2
  <1>4. job' \in [Roles -> JobRows]
    BY NewJobTyped DEF AgentEnds, ExpireCandidate, People, Approve, Regenerate, Reject, Pause, Wake, Accept,
           ChangeMission, PushByOthers, rows, TypeOK
  <1>5. update' \in [Heads -> UpdateStates] /\ dispatch' \in [Heads -> DispatchStates]
    BY DEF AgentEnds, ExpireCandidate, People, Approve, Regenerate, Reject, Pause, Wake, Accept,
           ChangeMission, PushByOthers, rows, TypeOK, UpdateStates, DispatchStates
  <1>6. mission' \in {"none", "current", "changed"} /\ remote' \in Heads \cup {Foreign}
    BY DEF AgentEnds, ExpireCandidate, People, Approve, Regenerate, Reject, Pause, Wake, Accept,
           ChangeMission, PushByOthers, rows, TypeOK
  <1>. QED
    BY <1>1, <1>2, <1>3, <1>4, <1>5, <1>6 DEF TypeOK, Cycles

----------------------------------------------------------------------------
(* The steps of a lane.                                                    *)

(* The step a lane is at tells the job it is at.                           *)
LEMMA RoleOfStep ==
  ASSUME Placed, NEW l \in Lanes, lane[l].pc \notin {"idle", "failing"}
  PROVE  /\ lane[l].role \in Roles
         /\ lane[l].pc \in StepsOf[lane[l].role]
         /\ lane[l].pc \in StepsOf["observe"] => lane[l].role = "observe"
         /\ lane[l].pc \in StepsOf["repair"] => lane[l].role = "repair"
         /\ lane[l].pc \in StepsOf["update"] => lane[l].role = "update"
         /\ lane[l].head <= cycle.head
  BY DEF Placed, StepsOf, Roles

Doubted(l) == \E failure \in UncertainFailures : Uncertain(l, failure)

(* A recording throws, and then marks what was uncertain, or it commits.   *)
LEMMA RecordOrDoubt ==
  ASSUME NEW l \in Lanes, RecordUpdate(l)
  PROVE  \/ Doubted(l)
         \/ LET h == lane[l].head IN
              /\ MissionStands /\ cycle.head = h /\ cycle.status \in {"update_pending", "paused"}
              /\ update[h] \in InDoubt /\ Fenced(l)
              /\ update' = [update EXCEPT ![h] = "delivered"]
              /\ cycle' = [status |-> IF cycle.status = "update_pending"
                                       THEN "observation_pending" ELSE "paused",
                            head |-> h + 1, used |-> cycle.used]
              /\ dispatch' = IF Bound THEN [dispatch EXCEPT ![h] = "settled"] ELSE dispatch
              /\ Rest(l)
  <1>. DEFINE h == lane[l].head
              authorized == /\ MissionStands /\ cycle.head = h
                            /\ cycle.status \in {"update_pending", "paused"} /\ update[h] \in InDoubt
  <1>1. CASE authorized /\ (Bound => dispatch[h] \in InFlight) /\ Fenced(l)
    BY <1>1 DEF RecordUpdate
  <1>2. CASE ~(authorized /\ (Bound => dispatch[h] \in InFlight) /\ Fenced(l))
    <2>1. Uncertain(l, IF authorized THEN "uncertain" ELSE "refused")
      BY <1>2 DEF RecordUpdate
    <2>. QED
      BY <2>1 DEF Doubted, UncertainFailures
  <1>. QED
    BY <1>1, <1>2

LEMMA MarkTyped ==
  ASSUME TypeOK, NEW h \in Heads, MarkUncertain(h)
  PROVE  update' \in [Heads -> UpdateStates] /\ dispatch' \in [Heads -> DispatchStates]
  BY DEF TypeOK, MarkUncertain, UpdateStates, DispatchStates

LEMMA RunTypes ==
  ASSUME IInv, NEW l \in Lanes, Run(l)
  PROVE  TypeOK' /\ Moves(l, StepsOf[lane[l].role])
  <1>. /\ TypeOK /\ Placed
    BY DEF IInv
  <1>. DEFINE L == lane[l]
              S == StepsOf[L.role]
  <1>0. L \in LaneStates /\ L.head \in Heads
    BY DEF TypeOK, LaneStates
  <1>. SUFFICES TypeOK' /\ Moves(l, S)
    OBVIOUS
  <1>. HIDE DEF S
  <1>1. ASSUME UNCHANGED <<cycle, run, update, dispatch, mission, remote, outrun>>,
               job' \in [Roles -> JobRows], Moves(l, S), Event \/ UNCHANGED events
        PROVE  TypeOK' /\ Moves(l, S)
    BY <1>1, EventsTyped DEF TypeOK, Moves
  <1>2. CASE Observe(l)
    <2>. USE <1>2 DEF Observe
    <2>1. L.pc = "observing" /\ L.role = "observe"
      BY RoleOfStep DEF StepsOf
    <2>2. CASE \E verdict \in {"success", "failure", "running"} :
                 lane' = [lane EXCEPT ![l].pc = "observed", ![l].note = verdict]
      <3>1. PICK v \in {"success", "failure", "running"} :
              lane' = [lane EXCEPT ![l] = [L EXCEPT !.pc = "observed", !.note = v]]
        BY <2>2
      <3>2. [L EXCEPT !.pc = "observed", !.note = v] \in LaneStates
        BY <1>0 DEF LaneStates, Steps, UpdateStates
      <3>3. /\ lane' \in [Lanes -> LaneStates]
            /\ lane'[l] = [L EXCEPT !.pc = "observed", !.note = v]
            /\ \A k \in Lanes \ {l} : lane'[k] = lane[k]
        BY <3>1, <3>2 DEF TypeOK
      <3>4. Moves(l, S)
        BY <2>1, <1>0, <3>3 DEF Moves, StepsOf, S, LaneStates
      <3>. QED
        BY <1>1, <3>4 DEF TypeOK, rows
    <2>3. CASE \E f \in {"terminal", "retryable"} : Throw(l, f)
      BY <1>1, <2>3, ThrowMoves DEF TypeOK, rows
    <2>. QED
      BY <2>2, <2>3
  <1>3. CASE Poll(l)
    <2>1. L.role = "observe"
      BY <1>3, RoleOfStep DEF Poll, StepsOf
    <2>2. job' \in [Roles -> JobRows]
      BY <1>3, ReleasedRow DEF Poll, Roles, JobStatuses, TypeOK
    <2>3. cycle' \in Cycles
      BY <1>3, StatusTyped DEF Poll, TypeOK, CycleStatuses, Cycles
    <2>4. Moves(l, S)
      BY <1>3, RestMoves DEF Poll
    <2>. QED
      BY <1>3, <2>2, <2>3, <2>4 DEF Poll, TypeOK, Cycles, Moves
  <1>4. CASE RecordObservation(l)
    <2>1. job' \in [Roles -> JobRows]
      <3>1. Released("observe", "done") \in [Roles -> JobRows]
        BY ReleasedRow DEF Roles, JobStatuses
      <3>. QED
        BY <1>4, <3>1, NewJobTyped DEF RecordObservation, TypeOK
    <2>2. cycle' \in Cycles /\ mission' \in {"none", "current", "changed"}
      <3>1. UNCHANGED cycle \/ \E s \in CycleStatuses : cycle' = WithStatus(s)
        BY <1>4 DEF RecordObservation, CycleStatuses
      <3>2. cycle' \in Cycles
        BY <3>1, StatusTyped DEF TypeOK, Cycles
      <3>. QED
        BY <1>4, <3>2 DEF RecordObservation, TypeOK
    <2>3. Moves(l, S)
      <3>1. Rest(l) \/ Throw(l, "terminal")
        BY <1>4 DEF RecordObservation
      <3>. QED
        BY <3>1, RestMoves, ThrowMoves
    <2>. QED
      BY <1>4, <2>1, <2>2, <2>3 DEF RecordObservation, TypeOK, Cycles, Moves
  <1>5. CASE DispatchRepair(l)
    <2>1. L.role = "repair"
      BY <1>5, RoleOfStep DEF DispatchRepair, StepsOf
    <2>2. job' \in [Roles -> JobRows]
      BY <1>5, ReleasedRow DEF DispatchRepair, Roles, JobStatuses, TypeOK
    <2>3. cycle' \in Cycles
      BY <1>5, StatusTyped DEF DispatchRepair, TypeOK, CycleStatuses, Cycles
    <2>4. Rest(l) \/ Goto(l, "enqueuing") \/ \E f \in {"terminal", "retryable"} : Throw(l, f)
      BY <1>5 DEF DispatchRepair
    <2>5. S \in SUBSET Steps /\ "enqueuing" \in S
      BY <2>1 DEF S, StepsOf, Steps
    <2>6. Moves(l, S)
      BY <2>4, <2>5, RestMoves, GotoMoves, ThrowMoves
    <2>7. events' \in 0..MaxEvents
      BY <1>5, EventsTyped DEF DispatchRepair
    <2>. QED
      BY <1>5, <2>2, <2>3, <2>6, <2>7 DEF DispatchRepair, TypeOK, Cycles, Moves
  <1>6. CASE BeginRepair(l)
    <2>1. L.role = "repair"
      BY <1>6, RoleOfStep DEF BeginRepair, StepsOf
    <2>2. job' \in [Roles -> JobRows]
      BY <1>6, ReleasedRow DEF BeginRepair, Roles, JobStatuses, TypeOK
    <2>3. cycle' \in Cycles
      <3>1. CASE Fenced(l) /\ cycle.status = "checks_failed"
        <4>1. cycle.used + 1 \in Heads
          BY <1>6, <3>1 DEF IInv, Budgeted, BeginRepair, TypeOK, Heads
        <4>2. WithStatus("repair_pending") \in Cycles /\ WithStatus("repair_pending").used = cycle.used
          BY StatusTyped DEF CycleStatuses, Cycles
        <4>. QED
          BY <1>6, <3>1, <4>1, <4>2 DEF BeginRepair, Cycles
      <3>2. CASE ~(Fenced(l) /\ cycle.status = "checks_failed")
        BY <1>6, <3>2 DEF BeginRepair, TypeOK, Cycles
      <3>. QED
        BY <3>1, <3>2
    <2>4. Rest(l) \/ Throw(l, "terminal")
      BY <1>6 DEF BeginRepair
    <2>5. Moves(l, S)
      BY <2>4, RestMoves, ThrowMoves
    <2>6. run' \in RunStatuses
      BY <1>6 DEF BeginRepair, TypeOK, RunStatuses
    <2>. QED
      BY <1>6, <2>2, <2>3, <2>5, <2>6 DEF BeginRepair, TypeOK, Cycles, Moves
  <1>7. ASSUME UNCHANGED <<cycle, run, job, mission>>,
               remote' \in Heads \cup {Foreign}, outrun' \in BOOLEAN, Event \/ UNCHANGED events,
               update' \in [Heads -> UpdateStates], dispatch' \in [Heads -> DispatchStates],
               L.pc \in StepsOf["update"],
               \/ \E step \in StepsOf["update"] : Goto(l, step)
               \/ \E f \in {"terminal", "retryable", "uncertain", "refused"} : Throw(l, f)
               \/ Moves(l, S)
        PROVE  TypeOK' /\ Moves(l, S)
    <2>1. L.role = "update"
      BY <1>7, RoleOfStep DEF StepsOf
    <2>2. S \in SUBSET Steps /\ S = StepsOf["update"]
      BY <2>1 DEF S, StepsOf, Steps
    <2>3. Moves(l, S)
      BY <1>7, <2>2, GotoMoves, ThrowMoves
    <2>. QED
      BY <1>7, <2>3, EventsTyped DEF TypeOK, Moves
  <1>8. StepsOf["update"] = {"inspecting", "resolving", "reconciling", "refuting", "authorizing",
                             "beginning", "calling", "recording"}
    BY DEF StepsOf
  <1>9. CASE Inspect(l)
    <2>1. L.pc = "inspecting" /\ L.role = "update"
      BY <1>9, <1>8, RoleOfStep DEF Inspect
    <2>2. Throw(l, "terminal") \/ Moves(l, S)
      <3>1. CASE Throw(l, "terminal")
        BY <3>1
      <3>2. CASE ~Throw(l, "terminal")
        <4>1. PICK b \in BOOLEAN :
                lane' = [lane EXCEPT ![l] = [L EXCEPT !.pc = "resolving", !.note = update[L.head], !.paused = b]]
          BY <1>9, <3>2 DEF Inspect
        <4>2. update[L.head] \in UpdateStates
          BY <1>0 DEF TypeOK
        <4>3. [L EXCEPT !.pc = "resolving", !.note = update[L.head], !.paused = b] \in LaneStates
          BY <1>0, <4>2 DEF LaneStates, Steps
        <4>4. /\ lane' \in [Lanes -> LaneStates]
              /\ lane'[l] = [L EXCEPT !.pc = "resolving", !.note = update[L.head], !.paused = b]
              /\ \A k \in Lanes \ {l} : lane'[k] = lane[k]
          BY <4>1, <4>3 DEF TypeOK
        <4>. QED
          BY <2>1, <1>0, <4>4 DEF Moves, StepsOf, S, LaneStates
      <3>. QED
        BY <3>1, <3>2
    <2>. QED
      BY <1>7, <1>8, <1>9, <2>1, <2>2 DEF Inspect, TypeOK, rows
  <1>10. CASE ResolveFails(l) \/ FeedbackDrifts(l)
    BY <1>7, <1>8, <1>10 DEF ResolveFails, FeedbackDrifts, TypeOK, rows
  <1>11. CASE Preflight(l)
    <2>1. update' \in [Heads -> UpdateStates] /\ dispatch' \in [Heads -> DispatchStates]
      BY <1>11 DEF Preflight, TypeOK, UpdateStates, DispatchStates
    <2>2. Throw(l, "terminal") \/ \E step \in {"authorizing", "reconciling"} : Goto(l, step)
      BY <1>11 DEF Preflight
    <2>3. L.pc = "resolving" /\ UNCHANGED <<cycle, run, job, mission, remote, outrun, events>>
      BY <1>11 DEF Preflight
    <2>. QED
      BY <1>7, <1>8, <2>1, <2>2, <2>3 DEF TypeOK
  <1>12. CASE Reconcile(l)
    <2>1. update' \in [Heads -> UpdateStates] /\ dispatch' \in [Heads -> DispatchStates]
      BY <1>0, <1>12, MarkTyped DEF Reconcile, Doubted, Uncertain, UncertainFailures, TypeOK
    <2>. QED
      BY <1>7, <1>8, <1>12, <2>1 DEF Reconcile, Doubted, Uncertain, UncertainFailures, TypeOK
  <1>13. CASE Refute(l)
    <2>1. update' \in [Heads -> UpdateStates] /\ dispatch' \in [Heads -> DispatchStates]
      BY <1>13 DEF Refute, TypeOK, UpdateStates, DispatchStates
    <2>2. outrun' \in BOOLEAN
      BY <1>13 DEF Refute, TypeOK, Outrun
    <2>3. Throw(l, "terminal") \/ Goto(l, "authorizing")
      BY <1>13 DEF Refute
    <2>4. L.pc = "refuting" /\ UNCHANGED <<cycle, run, job, mission, remote, events>>
      BY <1>13 DEF Refute
    <2>. QED
      BY <1>7, <1>8, <2>1, <2>2, <2>3, <2>4 DEF TypeOK
  <1>14. CASE Authorize(l)
    <2>1. update' \in [Heads -> UpdateStates] /\ dispatch' \in [Heads -> DispatchStates]
      BY <1>14 DEF Authorize, TypeOK, UpdateStates, DispatchStates
    <2>2. Throw(l, "terminal") \/ \E step \in {"beginning", "calling"} : Goto(l, step)
      BY <1>14 DEF Authorize
    <2>3. L.pc = "authorizing" /\ UNCHANGED <<cycle, run, job, mission, remote, outrun, events>>
      BY <1>14 DEF Authorize
    <2>. QED
      BY <1>7, <1>8, <2>1, <2>2, <2>3 DEF TypeOK
  <1>15. CASE Begin(l)
    <2>1. dispatch' \in [Heads -> DispatchStates]
      BY <1>15 DEF Begin, TypeOK, DispatchStates
    <2>. QED
      BY <1>7, <1>8, <1>15, <2>1 DEF Begin, TypeOK
  <1>16. CASE Push(l)
    <2>1. update' \in [Heads -> UpdateStates] /\ dispatch' \in [Heads -> DispatchStates]
      BY <1>0, <1>16, MarkTyped DEF Push, Doubted, Uncertain, UncertainFailures, TypeOK
    <2>2. remote' \in Heads \cup {Foreign}
      BY <1>0, <1>16, StepHeads DEF Push, IInv, Updating, Pushes, TypeOK
    <2>. QED
      BY <1>7, <1>8, <1>16, <2>1, <2>2 DEF Push, Doubted, Uncertain, UncertainFailures, TypeOK
  <1>17. CASE PushThrows(l)
    <2>1. update' \in [Heads -> UpdateStates] /\ dispatch' \in [Heads -> DispatchStates]
      BY <1>0, <1>17, MarkTyped DEF PushThrows, Doubted, Uncertain, UncertainFailures
    <2>. QED
      BY <1>7, <1>8, <1>17, <2>1 DEF PushThrows, Doubted, Uncertain, UncertainFailures, TypeOK
  <1>18. CASE RecordUpdate(l)
    <2>1. L.role = "update" /\ S \in SUBSET Steps
      BY <1>18, <1>8, RoleOfStep DEF RecordUpdate, S, StepsOf, Steps
    <2>2. update' \in [Heads -> UpdateStates] /\ dispatch' \in [Heads -> DispatchStates]
      <3>1. CASE Doubted(l)
        BY <1>0, <3>1, MarkTyped DEF Doubted, Uncertain, UncertainFailures
      <3>2. CASE ~Doubted(l)
        BY <1>18, <3>2, RecordOrDoubt DEF TypeOK, UpdateStates, DispatchStates
      <3>. QED
        BY <3>1, <3>2
    <2>3. job' \in [Roles -> JobRows]
      <3>1. Released("update", "done") \in [Roles -> JobRows]
        BY ReleasedRow DEF Roles, JobStatuses
      <3>. QED
        BY <1>18, <3>1, NewJobTyped DEF RecordUpdate, TypeOK
    <2>4. cycle' \in Cycles /\ run' \in RunStatuses
      <3>1. L.head + 1 \in Heads
        BY <1>0, <1>18, StepHeads DEF RecordUpdate, IInv, Updating, Pushes
      <3>2. cycle' \in Cycles
        BY <1>18, <3>1 DEF RecordUpdate, TypeOK, Cycles, CycleStatuses
      <3>. QED
        BY <1>18, <3>2 DEF RecordUpdate, TypeOK, RunStatuses
    <2>5. Rest(l) \/ \E failure \in UncertainFailures : Throw(l, failure)
      BY <1>18, RecordOrDoubt DEF Doubted, Uncertain
    <2>6. Moves(l, S)
      BY <2>1, <2>5, RestMoves, ThrowMoves DEF UncertainFailures
    <2>7. UNCHANGED <<mission, remote, outrun, events>>
      BY <1>18 DEF RecordUpdate
    <2>. QED
      BY <2>2, <2>3, <2>4, <2>6, <2>7 DEF TypeOK, Moves, Cycles
  <1>19. CASE Fail(l)
    <2>1. L.role \in Roles
      BY <1>19 DEF Placed, Fail
    <2>2. job' \in [Roles -> JobRows]
      BY <1>19, <2>1, ReleasedRow DEF Fail, JobStatuses, TypeOK
    <2>3. cycle' \in Cycles
      BY <1>19, StatusTyped DEF Fail, TypeOK, CycleStatuses, Cycles
    <2>4. update' \in [Heads -> UpdateStates]
      BY <1>19 DEF Fail, TypeOK, UpdateStates
    <2>5. Moves(l, S)
      BY <1>19, RestMoves DEF Fail
    <2>6. UNCHANGED <<run, dispatch, mission, remote, outrun, events>>
      BY <1>19 DEF Fail
    <2>. QED
      BY <2>2, <2>3, <2>4, <2>5, <2>6 DEF TypeOK, Moves, Cycles
  <1>. QED
    BY <1>2, <1>3, <1>4, <1>5, <1>6, <1>9, <1>10, <1>11, <1>12, <1>13, <1>14, <1>15, <1>16, <1>17,
       <1>18, <1>19 DEF Run

----------------------------------------------------------------------------
(* Every step.                                                             *)

PeopleStep == AgentEnds \/ ExpireCandidate \/ People

JobStep ==
  \/ \E l \in Lanes : Claim(l) \/ Recover(l) \/ Crash(l)
  \/ \E r \in Roles : RetryJob(r) \/ CancelJob(r) \/ Expire(r) \/ Overrun(r)

LEMMA StepKinds == Next => JobStep \/ PeopleStep \/ \E l \in Lanes : Run(l)
  BY DEF Next, JobStep, PeopleStep

LEMMA JobStepKeeps == JobStep => UNCHANGED <<rows, mission, remote, outrun>>
  BY DEF JobStep, Claim, Recover, Crash, RetryJob, CancelJob, Expire, Overrun, Lapse

LEMMA PeopleKeepLanes == PeopleStep => UNCHANGED <<lane, outrun>>
  BY DEF PeopleStep, AgentEnds, ExpireCandidate, People, Approve, Regenerate, Reject, Pause, Wake, Accept,
         ChangeMission, PushByOthers, rows

LEMMA StepTypes == IInv /\ Next => TypeOK'
  <1>. SUFFICES ASSUME IInv, Next PROVE TypeOK'
    OBVIOUS
  <1>1. CASE JobStep
    BY <1>1, JobStepTypes DEF JobStep, IInv
  <1>2. CASE PeopleStep
    BY <1>2, PeopleStepTypes DEF PeopleStep
  <1>3. CASE \E l \in Lanes : Run(l)
    BY <1>3, RunTypes
  <1>. QED
    BY <1>1, <1>2, <1>3, StepKinds

(* The transaction that records the update of lane l.                      *)
Recorded(l) ==
  /\ lane[l].pc = "recording" /\ lane[l].head = cycle.head
  /\ Fenced(l)
  /\ cycle.status \in {"update_pending", "paused"}
  /\ update[cycle.head] \in InDoubt
  /\ cycle' = [status |-> IF cycle.status = "update_pending" THEN "observation_pending" ELSE "paused",
               head |-> cycle.head + 1, used |-> cycle.used]
  /\ UNCHANGED <<remote, outrun>>

(* How the cycle moves.                                                    *)
LEMMA CycleMoves ==
  ASSUME IInv, Next
  PROVE  \/ UNCHANGED cycle
         \/ \E s \in CycleStatuses \ {"repair_pending"} :
              /\ cycle' = WithStatus(s)
              /\ cycle.status = "paused" => s = "paused"
              /\ cycle.status = "update_pending" => s = "paused"
         \/ /\ cycle.status \in {"checks_failed", "repair_pending"}
            /\ cycle'.status = "repair_pending"
            /\ cycle'.head = cycle.head /\ cycle'.used = cycle.used + 1
         \/ \E l \in Lanes : Recorded(l)
  <1>. TypeOK /\ Placed /\ Served
    BY DEF IInv
  <1>1. CASE JobStep
    BY <1>1, JobStepKeeps DEF rows
  <1>2. CASE PeopleStep
    <2>1. CASE Regenerate
      BY <2>1 DEF Regenerate, Reviewable, TypeOK
    <2>2. CASE ~Regenerate
      BY <1>2, <2>2 DEF PeopleStep, AgentEnds, ExpireCandidate, People, Approve, Reject, Pause, Wake, Accept,
           ChangeMission, PushByOthers, Reviewable, rows, CycleStatuses
    <2>. QED
      BY <2>1, <2>2
  <1>3. ASSUME NEW l \in Lanes, Run(l)
        PROVE  \/ UNCHANGED cycle
               \/ \E s \in CycleStatuses \ {"repair_pending"} :
                    /\ cycle' = WithStatus(s)
                    /\ cycle.status = "paused" => s = "paused"
                    /\ cycle.status = "update_pending" => s = "paused"
               \/ /\ cycle.status = "checks_failed"
                  /\ cycle'.status = "repair_pending"
                  /\ cycle'.head = cycle.head /\ cycle'.used = cycle.used + 1
               \/ Recorded(l)
    <2>1. CASE Poll(l)
      BY <2>1 DEF Poll, CycleStatuses
    <2>2. CASE RecordObservation(l)
      BY <2>2 DEF RecordObservation, CycleStatuses
    <2>3. CASE DispatchRepair(l)
      BY <2>3 DEF DispatchRepair, CycleStatuses
    <2>4. CASE BeginRepair(l)
      BY <2>4 DEF BeginRepair, TypeOK, WithStatus
    <2>5. CASE RecordUpdate(l)
      BY <2>5 DEF RecordUpdate, Recorded
    <2>6. CASE Fail(l)
      BY <2>6 DEF Fail, CycleStatuses
    <2>7. CASE ~(Poll(l) \/ RecordObservation(l) \/ DispatchRepair(l) \/ BeginRepair(l)
                 \/ RecordUpdate(l) \/ Fail(l))
      BY <1>3, <2>7 DEF Run, Observe, Inspect, ResolveFails, Preflight, Reconcile, Refute, FeedbackDrifts,
           Authorize, Begin, Push, PushThrows, rows
    <2>. QED
      BY <2>1, <2>2, <2>3, <2>4, <2>5, <2>6, <2>7
  <1>. QED
    BY <1>1, <1>2, <1>3, StepKinds

LEMMA HeadGrows ==
  ASSUME IInv, Next
  PROVE  /\ cycle.head \in Nat /\ cycle'.head \in Nat
         /\ \/ cycle'.head = cycle.head
            \/ cycle'.head = cycle.head + 1 /\ cycle'.used = cycle.used /\ \E l \in Lanes : Recorded(l)
  <1>1. cycle.head \in Nat
    BY DEF IInv, TypeOK, Heads
  <1>. QED
    BY <1>1, CycleMoves, StatusTyped DEF IInv, Recorded, TypeOK

LEMMA StepPlaced == IInv /\ Next => Placed'
  <1>. SUFFICES ASSUME IInv, Next, NEW k \in Lanes, lane'[k].pc # "idle"
               PROVE  /\ lane'[k].role \in Roles
                      /\ lane'[k].pc \in StepsOf[lane'[k].role] \cup {"failing"}
                      /\ lane'[k].head <= cycle'.head
    BY DEF Placed
  <1>. TypeOK /\ Placed
    BY DEF IInv
  <1>1. cycle.head \in Nat /\ cycle'.head \in Nat /\ cycle.head <= cycle'.head /\ lane[k].head \in Nat
    BY HeadGrows DEF TypeOK, LaneStates, Heads
  <1>2. CASE lane'[k] = lane[k]
    BY <1>1, <1>2 DEF Placed
  <1>3. ASSUME NEW l \in Lanes, Claim(l), lane'[k] # lane[k]
        PROVE  /\ lane'[k].role \in Roles
               /\ lane'[k].pc = FirstStep[lane'[k].role]
               /\ lane'[k].head = cycle.head
    <2>1. PICK r \in Roles :
            lane' = [lane EXCEPT ![l] = [Idle EXCEPT !.pc = FirstStep[r], !.role = r, !.head = cycle.head]]
      BY <1>3 DEF Claim
    <2>2. lane'[k] = [Idle EXCEPT !.pc = FirstStep[r], !.role = r, !.head = cycle.head]
      BY <1>3, <2>1 DEF TypeOK
    <2>. QED
      BY <2>2 DEF Idle
  <1>4. ASSUME NEW l \in Lanes, Run(l), lane'[k] # lane[k]
        PROVE  /\ lane'[k].role \in Roles
               /\ lane'[k].pc \in StepsOf[lane'[k].role] \cup {"failing"}
               /\ lane'[k].head = lane[k].head /\ lane[k].head <= cycle.head
    <2>1. Moves(l, StepsOf[lane[l].role]) /\ k = l /\ lane[l].pc # "idle"
      BY <1>4, RunTypes
         DEF Moves, Run, Observe, Poll, RecordObservation, DispatchRepair, BeginRepair, Inspect,
             ResolveFails, Preflight, Reconcile, Refute, FeedbackDrifts, Authorize, Begin, Push, PushThrows,
             RecordUpdate, Fail
    <2>. QED
      BY <2>1 DEF Moves, Placed
  <1>5. CASE JobStep
    <2>1. UNCHANGED cycle
      BY <1>5, JobStepKeeps DEF rows
    <2>2. ASSUME NEW l \in Lanes, Claim(l) PROVE lane'[k] = lane[k] \/ lane'[k].head = cycle.head
      BY <2>2, <1>3
    <2>3. ASSUME NEW l \in Lanes, Crash(l) PROVE lane'[k] = lane[k] \/ lane'[k].pc = "idle"
      BY <2>3, IdleTyped DEF Crash, Rest, TypeOK
    <2>4. UNCHANGED lane \/ \E l \in Lanes : Claim(l) \/ Crash(l)
      BY <1>5 DEF JobStep, Recover, RetryJob, CancelJob, Expire, Overrun, Lapse
    <2>5. \A r \in Roles : FirstStep[r] \in StepsOf[r]
      BY DEF FirstStep, StepsOf, Roles
    <2>. QED
      BY <1>1, <1>2, <1>3, <2>1, <2>3, <2>4, <2>5
  <1>6. CASE PeopleStep
    BY <1>2, <1>6, PeopleKeepLanes
  <1>7. CASE \E l \in Lanes : Run(l)
    BY <1>1, <1>2, <1>4, <1>7
  <1>. QED
    BY <1>5, <1>6, <1>7, StepKinds
----------------------------------------------------------------------------
(* The steps of the updates.                                               *)

(* The approval makes the update of the head; no step unmakes one.         *)
LEMMA UpdateMoves ==
  ASSUME IInv, Next
  PROVE  \/ Approve
         \/ \A h \in Heads : (update'[h] = "none") <=> (update[h] = "none")
  <1>. TypeOK
    BY DEF IInv
  <1>1. CASE JobStep
    BY <1>1, JobStepKeeps DEF rows
  <1>2. CASE PeopleStep
    BY <1>2 DEF PeopleStep, AgentEnds, ExpireCandidate, People, Regenerate, Reject, Pause, Wake, Accept,
           ChangeMission, PushByOthers, rows, TypeOK
  <1>3. ASSUME NEW l \in Lanes, Run(l)
        PROVE  \A h \in Heads : (update'[h] = "none") <=> (update[h] = "none")
    <2>1. lane[l].head \in Heads
      BY DEF TypeOK, LaneStates
    <2>2. CASE Preflight(l)
      BY <2>1, <2>2 DEF Preflight, TypeOK, InDoubt
    <2>3. CASE Refute(l)
      BY <2>1, <2>3 DEF Refute, TypeOK
    <2>4. CASE Authorize(l)
      BY <2>1, <2>4 DEF Authorize, TypeOK
    <2>5. CASE RecordUpdate(l)
      BY <2>1, <2>5
         DEF RecordUpdate, Doubted, Uncertain, UncertainFailures, MarkUncertain, TypeOK, InDoubt
    <2>6. CASE Fail(l)
      BY <2>1, <2>6 DEF Fail, TypeOK
    <2>7. CASE Reconcile(l) \/ Push(l) \/ PushThrows(l)
      BY <2>1, <2>7
         DEF Reconcile, Push, PushThrows, Doubted, Uncertain, UncertainFailures, MarkUncertain, TypeOK
    <2>8. CASE ~(Preflight(l) \/ Refute(l) \/ Authorize(l) \/ RecordUpdate(l) \/ Fail(l)
                 \/ Reconcile(l) \/ Push(l) \/ PushThrows(l))
      BY <1>3, <2>8 DEF Run, Observe, Poll, RecordObservation, DispatchRepair, BeginRepair, Inspect,
             ResolveFails, FeedbackDrifts, Begin, rows
    <2>. QED
      BY <2>2, <2>3, <2>4, <2>5, <2>6, <2>7, <2>8
  <1>. QED
    BY <1>1, <1>2, <1>3, StepKinds

LEMMA ApproveMakes ==
  ASSUME IInv, Approve
  PROVE  /\ cycle.status = "repair_pending" /\ cycle' = WithStatus("update_pending")
         /\ update[cycle.head] = "none" /\ cycle.head \in Heads /\ cycle.head < cycle.used
         /\ update'[cycle.head] = "pending"
         /\ \A h \in Heads \ {cycle.head} : update'[h] = update[h]
  BY DEF Approve, Reviewable, IInv, TypeOK, Counted, Unrepeated, Heads

LEMMA StepUnrepeated == IInv /\ Next => Unrepeated'
  <1>. SUFFICES ASSUME IInv, Next, NEW h \in Heads, update'[h] # "none"
               PROVE  \/ h < cycle'.head
                      \/ h = cycle'.head /\ cycle'.status \in {"update_pending", "paused"}
    BY DEF Unrepeated
  <1>. TypeOK /\ Unrepeated
    BY DEF IInv
  <1>0. h \in Nat /\ cycle.head \in Nat
    BY DEF TypeOK, Heads
  <1>1. CASE Approve /\ h = cycle.head
    BY <1>1, ApproveMakes, StatusTyped DEF CycleStatuses
  <1>2. CASE ~Approve \/ h # cycle.head
    <2>1. update[h] # "none"
      BY <1>2, UpdateMoves, ApproveMakes
    <2>2. h < cycle.head \/ (h = cycle.head /\ cycle.status \in {"update_pending", "paused"})
      BY <2>1 DEF Unrepeated
    <2>3. CASE \E s \in CycleStatuses \ {"repair_pending"} :
                 /\ cycle' = WithStatus(s)
                 /\ cycle.status = "paused" => s = "paused"
                 /\ cycle.status = "update_pending" => s = "paused"
      BY <2>2, <2>3, StatusTyped
    <2>4. CASE cycle.status \in {"checks_failed", "repair_pending"} /\ cycle'.head = cycle.head
      BY <2>2, <2>4
    <2>5. CASE \E l \in Lanes : Recorded(l)
      BY <1>0, <2>2, <2>5 DEF Recorded
    <2>. QED
      BY <2>2, <2>3, <2>4, <2>5, CycleMoves
  <1>. QED
    BY <1>1, <1>2

LEMMA StepCounted == IInv /\ Next => Counted'
  <1>. SUFFICES ASSUME IInv, Next PROVE Counted'
    OBVIOUS
  <1>. TypeOK /\ Counted
    BY DEF IInv
  <1>0. cycle.head \in Nat /\ cycle.used \in Nat /\ Heads \subseteq Nat
    BY DEF TypeOK, Heads
  <1>1. /\ cycle.used <= cycle'.used /\ cycle'.used \in Nat
        /\ cycle'.head <= cycle'.used
        /\ cycle'.status = "repair_pending" => cycle'.head < cycle'.used
    <2>1. CASE UNCHANGED cycle
      BY <1>0, <2>1 DEF Counted
    <2>2. CASE \E s \in CycleStatuses \ {"repair_pending"} : cycle' = WithStatus(s)
      BY <1>0, <2>2, StatusTyped DEF Counted
    <2>3. CASE cycle'.head = cycle.head /\ cycle'.used = cycle.used + 1
      BY <1>0, <2>3 DEF Counted
    <2>4. CASE \E l \in Lanes : Recorded(l)
      <3>1. cycle.head \in Heads /\ update[cycle.head] # "none"
        BY <2>4 DEF Recorded, InDoubt, TypeOK
      <3>2. cycle.head < cycle.used
        BY <3>1 DEF Counted
      <3>. QED
        BY <1>0, <2>4, <3>2 DEF Recorded
    <2>. QED
      BY <2>1, <2>2, <2>3, <2>4, CycleMoves
  <1>2. ASSUME NEW h \in Heads, update'[h] # "none" PROVE h < cycle'.used
    <2>1. h < cycle.used
      BY <1>2, UpdateMoves, ApproveMakes DEF Counted
    <2>. QED
      BY <1>0, <1>1, <2>1
  <1>. QED
    BY <1>1, <1>2 DEF Counted

(* Which lanes a step may take to another step of theirs.                  *)
LEMMA LaneMoves ==
  ASSUME IInv, Next, NEW k \in Lanes, lane'[k] # lane[k],
         lane'[k].pc \notin {"idle", "failing", "observing", "dispatching", "inspecting"}
  PROVE  Run(k) /\ lane'[k].head = lane[k].head
  <1>. TypeOK
    BY DEF IInv
  <1>1. ~PeopleStep
    BY PeopleKeepLanes
  <1>2. ~JobStep
    <2>1. ASSUME NEW l \in Lanes PROVE ~Claim(l)
      <3>. SUFFICES ASSUME Claim(l) PROVE FALSE
        OBVIOUS
      <3>1. PICK r \in Roles :
              lane' = [lane EXCEPT ![l] = [Idle EXCEPT !.pc = FirstStep[r], !.role = r, !.head = cycle.head]]
        BY DEF Claim
      <3>2. lane'[k].pc = FirstStep[r]
        BY <3>1 DEF TypeOK, Idle
      <3>. QED
        BY <3>2 DEF FirstStep, Roles
    <2>2. ASSUME NEW l \in Lanes PROVE ~Crash(l)
      BY DEF Crash, Rest, TypeOK, Idle
    <2>. QED
      BY <2>1, <2>2 DEF JobStep, Recover, RetryJob, CancelJob, Expire, Overrun, Lapse
  <1>3. PICK l \in Lanes : Run(l)
    BY <1>1, <1>2, StepKinds
  <1>. QED
    BY <1>3, RunTypes DEF Moves

(* How a lane comes to its critical steps.                                 *)
LEMMA Arrivals ==
  ASSUME IInv, NEW l \in Lanes, Run(l), TypeOK', lane'[l] # lane[l], NEW h, h = lane[l].head
  PROVE  /\ lane'[l].pc \in Pushes =>
              \/ lane[l].pc \in Pushes
              \/ update[h] \in InDoubt
              \/ cycle.status = "update_pending" /\ h = cycle.head
         /\ lane'[l].pc = "calling" => update'[h] \in InDoubt
         /\ lane'[l].pc = "recording" => remote' = h + 1
         /\ lane'[l].pc = "enqueuing" => cycle.used < MaxCycles /\ UNCHANGED cycle
  <1>. TypeOK /\ Placed
    BY DEF IInv
  <1>0. h \in Heads
    BY DEF TypeOK, LaneStates
  <1>1. ASSUME lane'[l].pc \in {"idle", "failing"} \/ (lane[l].pc \in Pushes /\ lane'[l].pc \in Pushes \ {"calling", "recording"})
        PROVE  /\ lane'[l].pc \in Pushes => lane[l].pc \in Pushes
               /\ lane'[l].pc \notin {"calling", "recording", "enqueuing"}
    BY <1>1 DEF Pushes
  <1>2. ASSUME NEW f, Throw(l, f) PROVE lane'[l].pc = "failing"
    BY <1>2 DEF Throw, TypeOK, LaneStates
  <1>3. ASSUME Rest(l) PROVE lane'[l].pc = "idle"
    BY <1>3 DEF Rest, TypeOK, Idle
  <1>4. ASSUME NEW step, Goto(l, step) PROVE lane'[l].pc = step
    BY <1>4 DEF Goto, TypeOK, LaneStates
  <1>5. CASE Observe(l)
    <2>1. lane'[l].pc \in {"observed", "failing"}
      BY <1>2, <1>5 DEF Observe, TypeOK, LaneStates
    <2>. QED
      BY <2>1 DEF Pushes
  <1>6. CASE Poll(l) \/ RecordObservation(l) \/ BeginRepair(l) \/ RecordUpdate(l) \/ Fail(l)
    BY <1>1, <1>2, <1>3, <1>6
       DEF Poll, RecordObservation, BeginRepair, RecordUpdate, Doubted, Uncertain, UncertainFailures, Fail
  <1>7. CASE DispatchRepair(l)
    <2>1. \/ lane'[l].pc \in {"idle", "failing"}
          \/ lane'[l].pc = "enqueuing" /\ ~(cycle.used >= MaxCycles) /\ UNCHANGED cycle
      BY <1>2, <1>3, <1>4, <1>7 DEF DispatchRepair
    <2>2. cycle.used \in Nat
      BY DEF TypeOK, Heads
    <2>. QED
      BY <1>1, <2>1, <2>2 DEF Pushes
  <1>8. CASE Inspect(l)
    <2>1. \/ lane'[l].pc = "failing"
          \/ /\ lane'[l].pc = "resolving"
             /\ update[h] \in InDoubt \/ (cycle.status = "update_pending" /\ h = cycle.head)
      BY <1>2, <1>8 DEF Inspect, TypeOK, LaneStates
    <2>. QED
      BY <1>1, <2>1
  <1>9. CASE ResolveFails(l) \/ Preflight(l) \/ Refute(l) \/ FeedbackDrifts(l) \/ PushThrows(l)
    <2>1. lane[l].pc \in Pushes /\ lane'[l].pc \in {"failing", "authorizing", "reconciling"}
      BY <1>2, <1>4, <1>9
         DEF ResolveFails, Preflight, Refute, FeedbackDrifts, PushThrows, Doubted, Uncertain, UncertainFailures, Pushes
    <2>. QED
      BY <1>1, <2>1 DEF Pushes
  <1>10. CASE Reconcile(l)
    <2>1. lane[l].pc \in Pushes
      BY <1>10 DEF Reconcile, Pushes
    <2>2. \/ lane'[l].pc \in {"refuting", "failing"}
          \/ lane'[l].pc = "recording" /\ remote' = h + 1
      BY <1>2, <1>4, <1>10 DEF Reconcile, Doubted, Uncertain, UncertainFailures
    <2>. QED
      BY <1>1, <2>1, <2>2 DEF Pushes
  <1>11. CASE Authorize(l)
    <2>1. lane[l].pc \in Pushes
      BY <1>11 DEF Authorize, Pushes
    <2>2. \/ lane'[l].pc \in {"failing", "beginning"}
          \/ lane'[l].pc = "calling" /\ update'[h] = "intent_bound"
      BY <1>0, <1>2, <1>4, <1>11 DEF Authorize, TypeOK
    <2>. QED
      BY <1>1, <2>1, <2>2 DEF Pushes, InDoubt
  <1>12. CASE Begin(l)
    <2>1. lane[l].pc \in Pushes /\ UNCHANGED update
      BY <1>12 DEF Begin, Pushes
    <2>2. \/ lane'[l].pc = "failing"
          \/ lane'[l].pc = "calling" /\ dispatch[h] = "authorized"
      BY <1>2, <1>4, <1>12 DEF Begin
    <2>3. dispatch[h] = "authorized" => update[h] \in InDoubt
      BY <1>0 DEF IInv, DoubtShared
    <2>. QED
      BY <1>1, <2>1, <2>2, <2>3
  <1>13. CASE Push(l)
    <2>1. lane[l].pc \in Pushes
      BY <1>13 DEF Push, Pushes
    <2>2. lane'[l].pc = "failing" \/ (lane'[l].pc = "recording" /\ remote' = h + 1)
      BY <1>2, <1>4, <1>13 DEF Push, Doubted, Uncertain, UncertainFailures
    <2>. QED
      BY <1>1, <2>1, <2>2
  <1>. QED
    BY <1>5, <1>6, <1>7, <1>8, <1>9, <1>10, <1>11, <1>12, <1>13 DEF Run

LEMMA StepUpdating == IInv /\ Next => Updating'
  <1>. SUFFICES ASSUME IInv, Next PROVE Updating'
    OBVIOUS
  <1>. TypeOK /\ TypeOK' /\ Updating
    BY StepTypes DEF IInv
  <1>1. ASSUME NEW h \in Heads, update[h] # "none" PROVE update'[h] # "none"
    BY <1>1, UpdateMoves, ApproveMakes
  <1>2. ASSUME cycle'.status = "update_pending" PROVE update'[cycle'.head] # "none"
    <2>1. CASE Approve
      BY <2>1, ApproveMakes, StatusTyped DEF CycleStatuses
    <2>2. CASE ~Approve
      <3>1. UNCHANGED cycle \/ Approve
        <4>1. CASE JobStep
          BY <4>1, JobStepKeeps DEF rows
        <4>2. CASE PeopleStep
          <5>1. CASE Regenerate
            BY <5>1, <1>2 DEF Regenerate, Reviewable, TypeOK
          <5>2. CASE ~Regenerate
            BY <1>2, <4>2, <5>2, StatusTyped DEF PeopleStep, AgentEnds, ExpireCandidate, People, Reject, Pause, Wake, Accept,
               ChangeMission, PushByOthers, rows, CycleStatuses
          <5>. QED
            BY <5>1, <5>2
        <4>3. ASSUME NEW l \in Lanes, Run(l) PROVE UNCHANGED cycle
          <5>1. CASE BeginRepair(l)
            BY <1>2, <5>1 DEF BeginRepair, TypeOK, WithStatus
          <5>2. CASE ~BeginRepair(l)
            BY <1>2, <4>3, <5>2, StatusTyped
               DEF Run, Observe, Poll, RecordObservation, DispatchRepair, Inspect, ResolveFails, Preflight,
                   Reconcile, Refute, FeedbackDrifts, Authorize, Begin, Push, PushThrows, RecordUpdate, Fail,
                   rows, CycleStatuses
          <5>. QED
            BY <5>1, <5>2
        <4>. QED
          BY <4>1, <4>2, <4>3, StepKinds
      <3>2. cycle.head \in Heads
        BY DEF TypeOK
      <3>. QED
        BY <1>1, <1>2, <2>2, <3>1, <3>2 DEF Updating
    <2>. QED
      BY <2>1, <2>2
  <1>3. ASSUME NEW k \in Lanes, lane'[k].pc \in Pushes PROVE update'[lane'[k].head] # "none"
    <2>0. lane[k].head \in Heads /\ cycle.head \in Heads
      BY DEF TypeOK, LaneStates
    <2>1. CASE lane'[k] = lane[k]
      BY <1>1, <1>3, <2>0, <2>1 DEF Updating
    <2>2. CASE lane'[k] # lane[k]
      <3>1. Run(k) /\ lane'[k].head = lane[k].head
        BY <1>3, <2>2, LaneMoves DEF Pushes
      <3>2. update[lane[k].head] # "none"
        BY <1>3, <2>2, <3>1, Arrivals DEF Updating, InDoubt
      <3>. QED
        BY <1>1, <2>0, <3>1, <3>2
    <2>. QED
      BY <2>1, <2>2
  <1>. QED
    BY <1>2, <1>3 DEF Updating

(* A lease is only ever taken by the lane that claims; a new job has none. *)
LEMMA FenceMoves ==
  ASSUME IInv, Next, NEW k \in Lanes, lane[k].pc = "enqueuing", lane'[k].pc = "enqueuing", Fenced(k)'
  PROVE  Fenced(k) /\ ~(cycle.status # "checks_failed" /\ cycle'.status = "checks_failed")
  <1>. TypeOK /\ Placed /\ TypeOK'
    BY StepTypes DEF IInv
  <1>1. lane[k].role = "repair" /\ lane'[k].role = "repair"
    <2>1. Placed'
      BY StepPlaced
    <2>2. lane[k].role = "repair"
      BY RoleOfStep DEF StepsOf
    <2>3. lane'[k].role = "repair"
      BY <2>1 DEF Placed, StepsOf, Roles
    <2>. QED
      BY <2>2, <2>3
  <1>2. "repair" \in Roles /\ job["repair"] \in JobRows
    BY DEF Roles, TypeOK
  <1>3. /\ job'["repair"].status = "running"
        /\ job'["repair"].holder = k
        /\ ~job'["repair"].lapsed
    BY <1>1 DEF Fenced
  <1>4. SUFFICES /\ job["repair"].status = "running" /\ job["repair"].holder = k /\ ~job["repair"].lapsed
                 /\ ~(cycle.status # "checks_failed" /\ cycle'.status = "checks_failed")
    BY <1>1 DEF Fenced
  <1>5. CASE JobStep
    <2>1. UNCHANGED cycle
      BY <1>5, JobStepKeeps DEF rows
    <2>2. ASSUME NEW l \in Lanes, Claim(l) PROVE job'["repair"] = job["repair"]
      <3>1. PICK r \in Roles :
              /\ Recovered[r].status = "pending"
              /\ job' = [Recovered EXCEPT ![r].status = "running", ![r].holder = l,
                           ![r].attempts = IF @ < MaxAttempts THEN @ + 1 ELSE @]
              /\ lane' = [lane EXCEPT ![l] = [Idle EXCEPT !.pc = FirstStep[r], !.role = r, !.head = cycle.head]]
        BY <2>2 DEF Claim
      <3>2. l # k
        <4>1. SUFFICES ASSUME l = k PROVE FALSE
          OBVIOUS
        <4>2. lane[k].pc = "idle"
          BY <2>2, <4>1 DEF Claim
        <4>. QED
          BY <4>2
      <3>3. r # "repair"
        <4>1. SUFFICES ASSUME r = "repair" PROVE FALSE
          OBVIOUS
        <4>2. Recovered[r] \in JobRows
          BY RecoveredRows
        <4>3. job'["repair"].holder = l
          BY <3>1, <4>1, <4>2, RecoveredRows DEF JobRows
        <4>. QED
          BY <1>3, <3>2, <4>3
      <3>4. job'["repair"] = Recovered["repair"]
        BY <3>1, <3>3, <1>2, RecoveredRows
      <3>. QED
        BY <1>2, <1>3, <3>4, RecoveredRows
    <2>3. ASSUME NEW l \in Lanes, Recover(l) PROVE job'["repair"] = job["repair"]
      BY <1>2, <1>3, <2>3, RecoveredRows DEF Recover
    <2>4. ASSUME NEW l \in Lanes, Crash(l) PROVE job'["repair"] = job["repair"]
      BY <2>4 DEF Crash
    <2>5. ASSUME NEW r \in Roles, RetryJob(r) \/ CancelJob(r) \/ Lapse(r)
          PROVE  job'["repair"] = job["repair"]
      BY <1>2, <1>3, <2>5 DEF RetryJob, CancelJob, Lapse, TypeOK, JobRows
    <2>. QED
      BY <1>3, <1>5, <2>1, <2>2, <2>3, <2>4, <2>5 DEF JobStep, Expire, Overrun
  <1>6. CASE PeopleStep
    <2>1. job'["repair"] = job["repair"]
      <3>1. CASE Approve \/ Wake
        BY <3>1 DEF Approve, Wake, TypeOK, Roles
      <3>2. CASE ~(Approve \/ Wake)
        BY <1>6, <3>2 DEF PeopleStep, AgentEnds, ExpireCandidate, People, Regenerate, Reject, Pause,
             Accept, ChangeMission, PushByOthers, rows
      <3>. QED
        BY <3>1, <3>2
    <2>2. cycle'.status # "checks_failed" \/ UNCHANGED cycle
      <3>1. CASE Regenerate
        BY <3>1 DEF Regenerate, Reviewable, TypeOK
      <3>2. CASE ~Regenerate
        BY <1>6, <3>2, StatusTyped
           DEF PeopleStep, AgentEnds, ExpireCandidate, People, Approve, Reject, Pause, Wake,
               Accept, ChangeMission, PushByOthers, rows, CycleStatuses
      <3>. QED
        BY <3>1, <3>2
    <2>. QED
      BY <1>3, <2>1, <2>2
  <1>7. ASSUME NEW l \in Lanes, Run(l)
        PROVE  /\ job'["repair"] = job["repair"]
               /\ UNCHANGED cycle \/ cycle'.status # "checks_failed"
    <2>0. ASSUME NEW r \in Roles, NEW s \in JobStatuses
          PROVE  \/ Released(r, s)["repair"] = job["repair"]
                 \/ Released(r, s)["repair"].holder = None
      <3>1. /\ Released(r, s)[r].holder = None
            /\ \A i \in Roles \ {r} : Released(r, s)[i] = job[i]
        BY ReleasedRow
      <3>. QED
        BY <1>2, <3>1
    <2>01. Released("update", "done")["repair"] = job["repair"] /\ Released("observe", "done")["repair"] = job["repair"]
      <3>1. \A r \in {"update", "observe"} : \A i \in Roles \ {r} : Released(r, "done")[i] = job[i]
        BY ReleasedRow DEF Roles, JobStatuses
      <3>. QED
        BY <3>1 DEF Roles
    <2>1. None # k /\ NewJob.holder = None
      BY DEF NewJob
    <2>2. CASE Poll(l)
      BY <1>3, <2>0, <2>1, <2>2, StatusTyped DEF Poll, JobStatuses, Roles, CycleStatuses
    <2>3. CASE RecordObservation(l)
      <3>1. Released("observe", "done") \in [Roles -> JobRows]
        BY ReleasedRow DEF Roles, JobStatuses
      <3>2. [Released("observe", "done") EXCEPT !["repair"] = NewJob]["repair"].holder = None
        BY <1>2, <2>1, <3>1
      <3>3. "done" \in JobStatuses /\ "observe" \in Roles
        BY DEF JobStatuses, Roles
      <3>4. job'["repair"] # job["repair"] => job'["repair"].holder = None
        BY <2>0, <2>3, <3>2, <3>3 DEF RecordObservation
      <3>5. job'["repair"] = job["repair"]
        BY <1>3, <2>1, <3>4
      <3>6. UNCHANGED cycle \/ cycle'.status # "checks_failed"
        <4>1. CASE cycle' = WithStatus("checks_failed")
          <5>1. job'["repair"].holder = None \/ UNCHANGED cycle
            BY <2>3, <3>2, <4>1, StatusTyped DEF RecordObservation, CycleStatuses
          <5>. QED
            BY <1>3, <2>1, <5>1
        <4>2. CASE cycle' # WithStatus("checks_failed")
          BY <2>3, <4>2, StatusTyped DEF RecordObservation, CycleStatuses
        <4>. QED
          BY <4>1, <4>2
      <3>. QED
        BY <3>5, <3>6
    <2>4. CASE DispatchRepair(l)
      BY <1>3, <2>0, <2>1, <2>4, StatusTyped DEF DispatchRepair, JobStatuses, Roles, CycleStatuses
    <2>5. CASE BeginRepair(l)
      <3>1. job'["repair"] = job["repair"]
        BY <1>3, <2>0, <2>1, <2>5 DEF BeginRepair, JobStatuses, Roles
      <3>. QED
        BY <2>5, <3>1 DEF BeginRepair, TypeOK, WithStatus
    <2>6. CASE RecordUpdate(l)
      <3>1. Released("update", "done") \in [Roles -> JobRows]
        BY ReleasedRow DEF Roles, JobStatuses
      <3>2. job'["repair"] = job["repair"]
        BY <2>6, <2>01, <3>1 DEF RecordUpdate, Roles
      <3>. QED
        BY <2>6, <3>2 DEF RecordUpdate
    <2>7. CASE Fail(l)
      <3>1. lane[l].role \in Roles
        BY <2>7 DEF Fail, Placed
      <3>2. job'["repair"] = job["repair"]
        BY <1>3, <2>0, <2>1, <2>7, <3>1 DEF Fail, JobStatuses
      <3>. QED
        BY <2>7, <3>2, StatusTyped DEF Fail, CycleStatuses
    <2>8. CASE ~(Poll(l) \/ RecordObservation(l) \/ DispatchRepair(l) \/ BeginRepair(l)
                 \/ RecordUpdate(l) \/ Fail(l))
      BY <1>7, <2>8 DEF Run, Observe, Inspect, ResolveFails, Preflight, Reconcile, Refute, FeedbackDrifts,
           Authorize, Begin, Push, PushThrows, rows
    <2>. QED
      BY <2>2, <2>3, <2>4, <2>5, <2>6, <2>7, <2>8
  <1>. QED
    BY <1>3, <1>5, <1>6, <1>7, StepKinds

LEMMA StepBudgeted == IInv /\ Next => Budgeted'
  <1>. SUFFICES ASSUME IInv, Next, NEW k \in Lanes, lane'[k].pc = "enqueuing", Fenced(k)',
                      cycle'.status = "checks_failed"
               PROVE  cycle'.used < MaxCycles
    BY DEF Budgeted
  <1>. TypeOK /\ TypeOK'
    BY StepTypes DEF IInv
  <1>1. CASE lane'[k] = lane[k]
    <2>1. Fenced(k) /\ cycle.status = "checks_failed"
      BY <1>1, FenceMoves
    <2>2. cycle.used < MaxCycles
      BY <1>1, <2>1 DEF IInv, Budgeted
    <2>3. cycle'.used = cycle.used
      BY <2>1, CycleMoves, StatusTyped DEF Recorded
    <2>. QED
      BY <2>2, <2>3
  <1>2. CASE lane'[k] # lane[k]
    <2>1. Run(k)
      BY <1>2, LaneMoves
    <2>. QED
      BY <1>2, <2>1, Arrivals
  <1>. QED
    BY <1>1, <1>2

LEMMA ServedStays ==
  ASSUME Served,
         \/ UNCHANGED cycle /\ \A r \in Roles : Live(r)' <=> Live(r)
         \/ cycle'.status = "paused"
         \/ cycle.status = "exhausted" /\ cycle'.status = "exhausted"
  PROVE  Served'
  BY DEF Served, ServedBy, Roles

LEMMA StepServed == IInv /\ Next => Served'
  <1>. SUFFICES ASSUME IInv, Next PROVE Served'
    OBVIOUS
  <1>. TypeOK /\ Placed /\ Served
    BY DEF IInv
  <1>0. /\ NewJob.status = "pending"
        /\ \A r \in Roles : job[r] \in JobRows
        /\ \A s \in CycleStatuses : WithStatus(s).status = s
        /\ {"observe", "repair", "update"} = Roles
        /\ ServedBy["observe"] = "observation_pending" /\ ServedBy["repair"] = "checks_failed"
        /\ ServedBy["update"] = "update_pending"
    BY StatusTyped DEF NewJob, TypeOK, ServedBy, Roles
  <1>1. CASE JobStep
    <2>1. ASSUME NEW r \in Roles PROVE Live(r)' <=> Live(r)
      <3>1. ASSUME NEW l \in Lanes, Claim(l) PROVE Live(r)' <=> Live(r)
        <4>1. PICK q \in Roles :
                /\ Recovered[q].status = "pending"
                /\ job' = [Recovered EXCEPT ![q].status = "running", ![q].holder = l,
                             ![q].attempts = IF @ < MaxAttempts THEN @ + 1 ELSE @]
          BY <3>1 DEF Claim
        <4>2. Recovered[q] \in JobRows
          BY RecoveredRows
        <4>3. job'[r].status = IF r = q THEN "running" ELSE Recovered[r].status
          BY <4>1, <4>2, RecoveredRows DEF JobRows
        <4>. QED
          BY <4>1, <4>3, RecoveredRows DEF Live
      <3>2. ASSUME NEW l \in Lanes, Recover(l) PROVE Live(r)' <=> Live(r)
        BY <3>2, RecoveredRows DEF Recover, Live
      <3>3. ASSUME NEW l \in Lanes, Crash(l) PROVE Live(r)' <=> Live(r)
        BY <3>3 DEF Crash, Live
      <3>4. ASSUME NEW q \in Roles, RetryJob(q) \/ CancelJob(q) \/ Lapse(q) PROVE Live(r)' <=> Live(r)
        BY <3>4, <1>0 DEF RetryJob, CancelJob, Lapse, Live, TypeOK, JobRows
      <3>. QED
        BY <1>1, <3>1, <3>2, <3>3, <3>4 DEF JobStep, Expire, Overrun
    <2>. QED
      BY <1>1, <2>1, JobStepKeeps, ServedStays DEF rows
  <1>2. CASE PeopleStep
    <2>1. CASE Approve
      <3>1. cycle.status = "repair_pending" /\ cycle'.status = "update_pending"
        BY <1>0, <2>1, ApproveMakes DEF CycleStatuses
      <3>2. \A r \in Roles : Live(r)' <=> (r = "update")
        BY <1>0, <2>1, <3>1 DEF Approve, Served, Live, TypeOK
      <3>. QED
        BY <1>0, <3>1, <3>2 DEF Served
    <2>2. CASE Wake
      <3>1. cycle.status \in {"awaiting_review", "succeeded"} /\ cycle'.status = "observation_pending"
        BY <1>0, <2>2 DEF Wake, CycleStatuses
      <3>2. \A r \in Roles : Live(r)' <=> (r = "observe")
        BY <1>0, <2>2, <3>1 DEF Wake, Served, Live, TypeOK
      <3>. QED
        BY <1>0, <3>1, <3>2 DEF Served
    <2>3. CASE Regenerate
      BY <2>3 DEF Regenerate, Reviewable, TypeOK, Served, Live, ServedBy
    <2>4. CASE Accept
      BY <1>0, <2>4 DEF Accept, Served, Live, CycleStatuses
    <2>5. CASE ~(Approve \/ Wake \/ Regenerate \/ Accept)
      <3>1. /\ UNCHANGED job
            /\ UNCHANGED cycle \/ cycle' = WithStatus("paused")
        BY <1>2, <2>5 DEF PeopleStep, AgentEnds, ExpireCandidate, People, Reject, Pause, ChangeMission,
             PushByOthers, rows
      <3>. QED
        BY <1>0, <3>1, ServedStays DEF Live, CycleStatuses
    <2>. QED
      BY <2>1, <2>2, <2>3, <2>4, <2>5
  <1>3. ASSUME NEW l \in Lanes, Run(l) PROVE Served'
    <2>0. ASSUME NEW r \in Roles, NEW s \in JobStatuses
          PROVE  /\ Released(r, s) \in [Roles -> JobRows]
                 /\ Released(r, s)[r].status = s
                 /\ \A i \in Roles \ {r} : Released(r, s)[i] = job[i]
      BY ReleasedRow
    <2>1. Fenced(l) => job[lane[l].role].status = "running"
      BY DEF Fenced
    <2>2. {"done", "pending", "dead_letter"} \subseteq JobStatuses
      BY DEF JobStatuses
    <2>3. CASE Poll(l)
      <3>1. lane[l].role = "observe"
        BY <2>3, RoleOfStep DEF Poll, StepsOf
      <3>2. CASE job' = Released("observe", "pending") /\ UNCHANGED cycle /\ Fenced(l)
        <4>1. \A r \in Roles : Live(r)' <=> Live(r)
          BY <1>0, <2>0, <2>1, <2>2, <3>1, <3>2 DEF Live
        <4>. QED
          BY <3>2, <4>1, ServedStays
      <3>3. CASE cycle' = WithStatus("paused")
        BY <1>0, <3>3, ServedStays DEF CycleStatuses
      <3>4. CASE UNCHANGED <<job, cycle>>
        BY <3>4, ServedStays DEF Live
      <3>. QED
        BY <2>3, <3>2, <3>3, <3>4 DEF Poll
    <2>4. CASE RecordObservation(l)
      <3>1. CASE UNCHANGED <<job, cycle>>
        BY <3>1, ServedStays DEF Live
      <3>2. CASE ~UNCHANGED <<job, cycle>>
        <4>1. cycle.status = "observation_pending"
          BY <2>4, <3>2 DEF RecordObservation
        <4>2. \/ /\ cycle'.status = "checks_failed"
                 /\ job' = [Released("observe", "done") EXCEPT !["repair"] = NewJob]
              \/ /\ cycle'.status \in {"awaiting_review", "succeeded"}
                 /\ job' = Released("observe", "done")
          BY <1>0, <2>4, <3>2 DEF RecordObservation, CycleStatuses
        <4>3. \A r \in Roles : Live(r) => r = "observe"
          BY <1>0, <4>1 DEF Served
        <4>4. \A r \in Roles : Live(r)' <=> (r = "repair" /\ cycle'.status = "checks_failed")
          <5>1. /\ Released("observe", "done") \in [Roles -> JobRows]
                /\ Released("observe", "done")["observe"].status = "done"
                /\ Released("observe", "done")["repair"] = job["repair"]
                /\ Released("observe", "done")["update"] = job["update"]
            BY <2>0, <2>2 DEF Roles
          <5>2. /\ job'["observe"].status = "done"
                /\ job'["update"] = job["update"]
                /\ job'["repair"] = IF cycle'.status = "checks_failed" THEN NewJob ELSE job["repair"]
            BY <4>2, <5>1 DEF Roles
          <5>. QED
            BY <1>0, <4>3, <5>2 DEF Live, Roles
        <4>. QED
          BY <1>0, <4>2, <4>4 DEF Served
      <3>. QED
        BY <3>1, <3>2
    <2>5. CASE DispatchRepair(l)
      <3>1. lane[l].role = "repair"
        BY <2>5, RoleOfStep DEF DispatchRepair, StepsOf
      <3>2. CASE UNCHANGED <<job, cycle>>
        BY <3>2, ServedStays DEF Live
      <3>3. CASE ~UNCHANGED <<job, cycle>>
        <4>1. cycle'.status = "exhausted"
          BY <1>0, <2>5, <3>3 DEF DispatchRepair, CycleStatuses
        <4>. QED
          BY <1>0, <4>1 DEF Served
      <3>. QED
        BY <3>2, <3>3
    <2>6. CASE BeginRepair(l)
      <3>1. CASE UNCHANGED <<job, cycle>>
        BY <3>1, ServedStays DEF Live
      <3>2. CASE ~UNCHANGED <<job, cycle>>
        <4>1. /\ cycle.status = "checks_failed" /\ job' = Released("repair", "done")
              /\ cycle' = [WithStatus("repair_pending") EXCEPT !.used = @ + 1]
          BY <2>6, <3>2 DEF BeginRepair
        <4>2. cycle'.status = "repair_pending"
          BY <4>1 DEF TypeOK, WithStatus
        <4>3. \A r \in Roles : ~Live(r)'
          BY <1>0, <2>0, <2>2, <4>1 DEF Served, Live
        <4>. QED
          BY <1>0, <4>2, <4>3 DEF Served
      <3>. QED
        BY <3>1, <3>2
    <2>7. CASE RecordUpdate(l)
      <3>1. CASE UNCHANGED <<job, cycle>>
        BY <3>1, ServedStays DEF Live
      <3>2. CASE ~UNCHANGED <<job, cycle>>
        <4>1. CASE cycle.status = "update_pending"
          <5>1. /\ cycle'.status = "observation_pending"
                /\ job' = [Released("update", "done") EXCEPT !["observe"] = NewJob]
            BY <2>7, <3>2, <4>1 DEF RecordUpdate
          <5>2. \A r \in Roles : Live(r) => r = "update"
            BY <1>0, <4>1 DEF Served
          <5>3. \A r \in Roles : Live(r)' <=> (r = "observe")
            <6>1. /\ Released("update", "done") \in [Roles -> JobRows]
                  /\ Released("update", "done")["update"].status = "done"
                  /\ Released("update", "done")["repair"] = job["repair"]
              BY <2>0, <2>2 DEF Roles
            <6>2. job'["observe"] = NewJob /\ job'["update"].status = "done" /\ job'["repair"] = job["repair"]
              BY <5>1, <6>1 DEF Roles
            <6>. QED
              BY <1>0, <5>2, <6>2 DEF Live, Roles
          <5>. QED
            BY <1>0, <5>1, <5>3 DEF Served
        <4>2. CASE cycle.status # "update_pending"
          BY <2>7, <3>2, <4>2, ServedStays DEF RecordUpdate
        <4>. QED
          BY <4>1, <4>2
      <3>. QED
        BY <3>1, <3>2
    <2>8. CASE Fail(l)
      <3>1. lane[l].role \in Roles
        BY <2>8 DEF Fail, Placed
      <3>2. CASE UNCHANGED <<job, cycle>>
        BY <3>2, ServedStays DEF Live
      <3>3. CASE cycle' = WithStatus("paused")
        BY <1>0, <3>3, ServedStays DEF CycleStatuses
      <3>4. CASE UNCHANGED cycle /\ ~UNCHANGED job
        <4>1. /\ Fenced(l)
              /\ \E s \in {"pending", "dead_letter"} : job' = Released(lane[l].role, s)
          BY <2>8, <3>4 DEF Fail
        <4>2. \A r \in Roles : Live(r)' <=> Live(r)
          BY <1>0, <2>0, <2>1, <2>2, <3>1, <4>1 DEF Live
        <4>. QED
          BY <3>4, <4>2, ServedStays
      <3>. QED
        BY <2>8, <3>2, <3>3, <3>4 DEF Fail
    <2>9. CASE ~(Poll(l) \/ RecordObservation(l) \/ DispatchRepair(l) \/ BeginRepair(l)
                 \/ RecordUpdate(l) \/ Fail(l))
      <3>1. UNCHANGED <<cycle, job>>
        BY <1>3, <2>9 DEF Run, Observe, Inspect, ResolveFails, Preflight, Reconcile, Refute, FeedbackDrifts,
             Authorize, Begin, Push, PushThrows, rows
      <3>. QED
        BY <3>1, ServedStays DEF Live
    <2>. QED
      BY <2>3, <2>4, <2>5, <2>6, <2>7, <2>8, <2>9
  <1>. QED
    BY <1>1, <1>2, <1>3, StepKinds

----------------------------------------------------------------------------
(* The update and the dispatch.                                            *)

DoubtsOf(h) ==
  /\ dispatch[h] \in InFlight \cup {"authorized"} => update[h] \in InDoubt
  /\ dispatch[h] = "settled" => update[h] \in {"pending", "delivered", "failed"}
  /\ update[h] = "delivered" /\ Bound => dispatch[h] = "settled"
  /\ ~Bound => dispatch[h] = "none"

LEMMA BoundStays == IInv /\ Next => (Bound' <=> Bound)
  <1>1. ASSUME NEW l \in Lanes, Run(l) PROVE Bound' <=> Bound
    BY <1>1 DEF Bound, Run, Observe, Poll, RecordObservation, DispatchRepair, BeginRepair, Inspect, ResolveFails,
           Preflight, Reconcile, Refute, FeedbackDrifts, Authorize, Begin, Push, PushThrows, RecordUpdate, Fail,
           rows
  <1>2. PeopleStep => (Bound' <=> Bound)
    BY DEF Bound, PeopleStep, AgentEnds, ExpireCandidate, People, Approve, Regenerate, Reject, Pause, Wake, Accept,
           ChangeMission, PushByOthers, rows
  <1>. QED
    BY <1>1, <1>2, StepKinds, JobStepKeeps DEF Bound

LEMMA MarkKeepsDoubts ==
  ASSUME IInv, NEW g \in Heads, MarkUncertain(g), UNCHANGED mission, NEW h \in Heads
  PROVE  DoubtsOf(h)'
  <1>. TypeOK /\ DoubtsOf(h)
    BY DEF IInv, DoubtShared, DoubtsOf
  <1>1. CASE h = g
    <2>1. /\ update'[h] = IF update[h] = "intent_bound" THEN "uncertain" ELSE update[h]
          /\ dispatch'[h] = IF dispatch[h] = "dispatching" THEN "uncertain" ELSE dispatch[h]
      BY <1>1 DEF MarkUncertain, TypeOK
    <2>. QED
      BY <2>1 DEF DoubtsOf, InFlight, InDoubt, Bound
  <1>2. CASE h # g
    BY <1>2 DEF MarkUncertain, TypeOK, DoubtsOf, Bound
  <1>. QED
    BY <1>1, <1>2

LEMMA StepDoubtShared == IInv /\ Next => DoubtShared'
  <1>. SUFFICES ASSUME IInv, Next, NEW h \in Heads PROVE DoubtsOf(h)'
    BY DEF DoubtShared, DoubtsOf
  <1>. TypeOK /\ DoubtsOf(h)
    BY DEF IInv, DoubtShared, DoubtsOf
  <1>. USE DEF InFlight, InDoubt
  <1>1. CASE update'[h] = update[h] /\ dispatch'[h] = dispatch[h]
    BY <1>1, BoundStays DEF DoubtsOf
  <1>2. CASE JobStep
    BY <1>1, <1>2, JobStepKeeps DEF rows
  <1>3. CASE PeopleStep
    <2>1. CASE Approve
      BY <1>1, <2>1, BoundStays, ApproveMakes DEF DoubtsOf, Approve
    <2>2. CASE Pause
      BY <2>2, BoundStays DEF DoubtsOf, Pause, TypeOK
    <2>3. CASE ChangeMission
      BY <2>3, BoundStays DEF DoubtsOf, ChangeMission, TypeOK
    <2>4. CASE ~(Approve \/ Pause \/ ChangeMission)
      BY <1>1, <1>3, <2>4 DEF PeopleStep, AgentEnds, ExpireCandidate, People, Regenerate, Reject, Wake, Accept,
           PushByOthers, rows
    <2>. QED
      BY <2>1, <2>2, <2>3, <2>4
  <1>4. ASSUME NEW l \in Lanes, Run(l) PROVE DoubtsOf(h)'
    <2>. DEFINE g == lane[l].head
    <2>0. g \in Heads
      BY DEF TypeOK, LaneStates
    <2>1. CASE Preflight(l)
      <3>1. CASE h = g
        BY <2>0, <2>1, <3>1, BoundStays DEF DoubtsOf, Preflight, TypeOK
      <3>2. CASE h # g
        BY <1>1, <2>1, <3>2 DEF Preflight, TypeOK
      <3>. QED
        BY <3>1, <3>2
    <2>2. CASE Refute(l)
      <3>1. CASE h = g
        BY <2>0, <2>2, <3>1, BoundStays DEF DoubtsOf, Refute, TypeOK
      <3>2. CASE h # g
        BY <1>1, <2>2, <3>2 DEF Refute, TypeOK
      <3>. QED
        BY <3>1, <3>2
    <2>3. CASE Authorize(l)
      <3>1. CASE h = g
        BY <1>1, <2>0, <2>3, <3>1, BoundStays DEF DoubtsOf, Authorize, TypeOK
      <3>2. CASE h # g
        BY <1>1, <2>3, <3>2 DEF Authorize, TypeOK
      <3>. QED
        BY <3>1, <3>2
    <2>4. CASE Begin(l)
      BY <2>0, <2>4, BoundStays DEF DoubtsOf, Begin, TypeOK
    <2>5. CASE RecordUpdate(l)
      <3>1. CASE Doubted(l)
        BY <2>0, <2>5, <3>1, MarkKeepsDoubts DEF Doubted, Uncertain, UncertainFailures, RecordUpdate
      <3>2. CASE ~Doubted(l)
        <4>1. /\ update' = [update EXCEPT ![g] = "delivered"]
              /\ dispatch' = IF Bound THEN [dispatch EXCEPT ![g] = "settled"] ELSE dispatch
          BY <2>5, <3>2, RecordOrDoubt
        <4>. QED
          BY <2>0, <4>1, BoundStays DEF DoubtsOf, TypeOK
      <3>. QED
        BY <3>1, <3>2
    <2>6. CASE Fail(l)
      BY <2>0, <2>6, BoundStays DEF DoubtsOf, Fail, TypeOK
    <2>7. CASE (Reconcile(l) \/ Push(l) \/ PushThrows(l)) /\ Doubted(l)
      BY <2>0, <2>7, MarkKeepsDoubts
         DEF Doubted, Uncertain, UncertainFailures, Reconcile, Push, PushThrows
    <2>8. CASE (Reconcile(l) \/ Push(l) \/ PushThrows(l)) /\ ~Doubted(l)
      BY <1>1, <2>8 DEF Doubted, UncertainFailures, Reconcile, Push, PushThrows
    <2>9. CASE ~(Preflight(l) \/ Refute(l) \/ Authorize(l) \/ Begin(l) \/ RecordUpdate(l) \/ Fail(l)
                 \/ Reconcile(l) \/ Push(l) \/ PushThrows(l))
      BY <1>1, <1>4, <2>9 DEF Run, Observe, Poll, RecordObservation, DispatchRepair, BeginRepair, Inspect,
             ResolveFails, FeedbackDrifts, rows
    <2>. QED
      BY <2>1, <2>2, <2>3, <2>4, <2>5, <2>6, <2>7, <2>8, <2>9
  <1>. QED
    BY <1>2, <1>3, <1>4, StepKinds

----------------------------------------------------------------------------
(* The branch.                                                             *)

(* What takes an update out of doubt: its recording, and the refutation,   *)
(* which is outrun when the push of some lane is still under way or has    *)
(* landed.                                                                 *)
LEMMA DoubtMoves ==
  ASSUME IInv, Next, NEW h \in Heads, update[h] \in InDoubt
  PROVE  \/ update'[h] \in InDoubt
         \/ h = cycle.head /\ \E l \in Lanes : Recorded(l)
         \/ outrun' = (outrun \/ Outrun(h)) /\ UNCHANGED <<cycle, remote>>
  <1>. TypeOK
    BY DEF IInv
  <1>. USE DEF InDoubt
  <1>2. CASE JobStep
    BY <1>2, JobStepKeeps DEF rows
  <1>3. CASE PeopleStep
    <2>1. CASE Approve
      BY <2>1, ApproveMakes
    <2>2. CASE Pause
      BY <2>2 DEF Pause, TypeOK
    <2>3. CASE ~(Approve \/ Pause)
      BY <1>3, <2>3 DEF PeopleStep, AgentEnds, ExpireCandidate, People, Regenerate, Reject, Wake, Accept,
           ChangeMission, PushByOthers, rows
    <2>. QED
      BY <2>1, <2>2, <2>3
  <1>4. ASSUME NEW l \in Lanes, Run(l)
        PROVE  \/ update'[h] \in InDoubt
               \/ h = cycle.head /\ Recorded(l)
               \/ outrun' = (outrun \/ Outrun(h)) /\ UNCHANGED <<cycle, remote>>
    <2>. DEFINE g == lane[l].head
    <2>0. g \in Heads
      BY DEF TypeOK, LaneStates
    <2>1. CASE Preflight(l)
      BY <2>0, <2>1 DEF Preflight, TypeOK
    <2>2. CASE Refute(l)
      BY <2>0, <2>2 DEF Refute, TypeOK
    <2>3. CASE Authorize(l)
      BY <2>0, <2>3 DEF Authorize, TypeOK
    <2>5. CASE RecordUpdate(l)
      <3>1. CASE Doubted(l)
        BY <2>0, <3>1 DEF Doubted, Uncertain, UncertainFailures, MarkUncertain, TypeOK
      <3>2. CASE ~Doubted(l)
        BY <2>0, <2>5, <3>2, RecordOrDoubt DEF RecordUpdate, Recorded, TypeOK
      <3>. QED
        BY <3>1, <3>2
    <2>6. CASE Fail(l)
      BY <2>0, <2>6 DEF Fail, TypeOK
    <2>7. CASE Reconcile(l) \/ Push(l) \/ PushThrows(l)
      BY <2>0, <2>7
         DEF Doubted, Uncertain, UncertainFailures, MarkUncertain, Reconcile, Push, PushThrows, TypeOK
    <2>9. CASE ~(Preflight(l) \/ Refute(l) \/ Authorize(l) \/ RecordUpdate(l) \/ Fail(l)
                 \/ Reconcile(l) \/ Push(l) \/ PushThrows(l))
      BY <1>4, <2>9 DEF Run, Observe, Poll, RecordObservation, DispatchRepair, BeginRepair, Inspect,
             ResolveFails, FeedbackDrifts, Begin, rows
    <2>. QED
      BY <2>1, <2>2, <2>3, <2>5, <2>6, <2>7, <2>9
  <1>. QED
    BY <1>2, <1>3, <1>4, StepKinds

LEMMA OutrunStays == IInv /\ Next => (outrun => outrun')
  <1>1. ASSUME NEW l \in Lanes, Run(l) PROVE outrun => outrun'
    BY <1>1 DEF Run, Observe, Poll, RecordObservation, DispatchRepair, BeginRepair, Inspect, ResolveFails,
           Preflight, Reconcile, Refute, FeedbackDrifts, Authorize, Begin, Push, PushThrows, RecordUpdate, Fail
  <1>. QED
    BY <1>1, StepKinds, JobStepKeeps, PeopleKeepLanes

LEMMA StepCallsInDoubt == IInv /\ Next => CallsInDoubt'
  <1>. SUFFICES ASSUME IInv, Next, NEW k \in Lanes, lane'[k].pc = "calling"
               PROVE  update'[lane'[k].head] \in InDoubt \/ lane'[k].head < cycle'.head \/ outrun'
    BY DEF CallsInDoubt
  <1>. TypeOK /\ TypeOK' /\ CallsInDoubt
    BY StepTypes DEF IInv
  <1>0. lane[k].head \in Heads /\ lane[k].head \in Nat
    BY DEF TypeOK, LaneStates, Heads
  <1>1. CASE lane'[k] = lane[k]
    <2>1. CASE update[lane[k].head] \in InDoubt
      <3>1. CASE lane[k].head = cycle.head /\ \E l \in Lanes : Recorded(l)
        BY <1>0, <1>1, <3>1 DEF Recorded
      <3>2. Outrun(lane[k].head)
        BY <1>1 DEF Outrun
      <3>. QED
        BY <1>0, <1>1, <2>1, <3>1, <3>2, DoubtMoves
    <2>2. CASE lane[k].head < cycle.head
      BY <1>0, <1>1, <2>2, HeadGrows
    <2>3. CASE outrun
      BY <2>3, OutrunStays
    <2>. QED
      BY <1>1, <2>1, <2>2, <2>3 DEF CallsInDoubt
  <1>2. CASE lane'[k] # lane[k]
    BY <1>2, LaneMoves, Arrivals
  <1>. QED
    BY <1>1, <1>2

(* The branch moves by the pushes of the lanes, and of others.             *)
LEMMA RemoteMoves ==
  ASSUME IInv, Next
  PROVE  \/ UNCHANGED remote
         \/ remote' = Foreign
         \/ \E l \in Lanes :
              /\ lane[l].pc = "calling" /\ remote \in {lane[l].head, lane[l].head + 1}
              /\ remote' = lane[l].head + 1
              /\ UNCHANGED <<cycle, update, outrun>>
  <1>1. ASSUME NEW l \in Lanes, Run(l)
        PROVE  \/ UNCHANGED remote
               \/ /\ lane[l].pc = "calling" /\ remote \in {lane[l].head, lane[l].head + 1}
                  /\ remote' = lane[l].head + 1
                  /\ UNCHANGED <<cycle, update, outrun>>
    BY <1>1 DEF Run, Observe, Poll, RecordObservation, DispatchRepair, BeginRepair, Inspect, ResolveFails,
           Preflight, Reconcile, Refute, FeedbackDrifts, Authorize, Begin, Push, PushThrows, RecordUpdate, Fail
  <1>2. CASE PeopleStep
    BY <1>2 DEF PeopleStep, AgentEnds, ExpireCandidate, People, Approve, Regenerate, Reject, Pause, Wake, Accept,
           ChangeMission, PushByOthers
  <1>. QED
    BY <1>1, <1>2, StepKinds, JobStepKeeps

LEMMA StepRecordsLanded == IInv /\ Next => RecordsLanded'
  <1>. SUFFICES ASSUME IInv, Next, NEW k \in Lanes, lane'[k].pc = "recording"
               PROVE  remote' = Foreign \/ lane'[k].head < remote'
    BY DEF RecordsLanded
  <1>. TypeOK /\ RecordsLanded
    BY DEF IInv
  <1>0. lane[k].head \in Nat /\ (remote = Foreign \/ remote \in Nat)
    BY DEF TypeOK, LaneStates, Heads
  <1>1. CASE lane'[k] = lane[k]
    <2>1. remote = Foreign \/ lane[k].head < remote
      BY <1>1 DEF RecordsLanded
    <2>2. \A l \in Lanes : lane[l].head \in Nat /\ lane[l].head + 1 \in Nat
      BY DEF TypeOK, LaneStates, Heads
    <2>. QED
      BY <1>0, <1>1, <2>1, <2>2, RemoteMoves
  <1>2. CASE lane'[k] # lane[k]
    <2>1. remote' = lane'[k].head + 1 /\ lane'[k].head = lane[k].head
      BY <1>2, LaneMoves, Arrivals, StepTypes
    <2>. QED
      BY <1>0, <2>1
  <1>. QED
    BY <1>1, <1>2

LEMMA StepHeadAccounted == IInv /\ Next => HeadAccounted'
  <1>. SUFFICES ASSUME IInv, Next, remote' # Foreign
               PROVE  /\ remote' \in {cycle'.head, cycle'.head + 1}
                      /\ remote' = cycle'.head + 1 => update'[cycle'.head] \in InDoubt \/ outrun'
    BY DEF HeadAccounted
  <1>. TypeOK /\ Placed /\ HeadAccounted
    BY DEF IInv
  <1>0. /\ cycle.head \in Nat /\ cycle.head \in Heads
        /\ \A l \in Lanes : lane[l].head \in Nat
        /\ remote = Foreign \/ remote \in Nat
    BY DEF TypeOK, LaneStates, Heads
  <1>1. CASE \E l \in Lanes :
              /\ lane[l].pc = "calling" /\ remote \in {lane[l].head, lane[l].head + 1}
              /\ remote' = lane[l].head + 1
              /\ UNCHANGED <<cycle, update, outrun>>
    <2>1. PICK l \in Lanes : /\ lane[l].pc = "calling" /\ remote \in {lane[l].head, lane[l].head + 1}
                            /\ remote' = lane[l].head + 1
                            /\ UNCHANGED <<cycle, update, outrun>>
      BY <1>1
    <2>2. lane[l].head <= cycle.head
      BY <2>1, RoleOfStep
    <2>3. remote # Foreign /\ remote \in {cycle.head, cycle.head + 1}
      BY <1>0, <2>1 DEF HeadAccounted
    <2>4. CASE lane[l].head = cycle.head
      <3>1. update[cycle.head] \in InDoubt \/ outrun
        BY <1>0, <2>1, <2>4 DEF IInv, CallsInDoubt
      <3>. QED
        BY <2>1, <2>4, <3>1
    <2>5. CASE lane[l].head < cycle.head
      BY <1>0, <2>1, <2>3, <2>5
    <2>. QED
      BY <1>0, <2>2, <2>4, <2>5
  <1>2. CASE UNCHANGED remote
    <2>1. /\ remote \in {cycle.head, cycle.head + 1}
          /\ remote = cycle.head + 1 => update[cycle.head] \in InDoubt \/ outrun
      BY <1>2 DEF HeadAccounted
    <2>2. CASE \E l \in Lanes : Recorded(l)
      <3>1. PICK l \in Lanes : Recorded(l)
        BY <2>2
      <3>2. cycle.head < remote
        BY <1>2, <3>1 DEF IInv, RecordsLanded, Recorded
      <3>3. remote = cycle.head + 1 /\ cycle'.head = cycle.head + 1
        BY <1>0, <2>1, <3>1, <3>2 DEF Recorded
      <3>. QED
        BY <1>0, <1>2, <3>3
    <2>3. CASE ~\E l \in Lanes : Recorded(l)
      <3>1. cycle'.head = cycle.head
        BY <2>3, HeadGrows
      <3>2. ASSUME remote = cycle.head + 1 PROVE update'[cycle.head] \in InDoubt \/ outrun'
        <4>1. Outrun(cycle.head)
          BY <1>0, <3>2 DEF Outrun
        <4>. QED
          BY <1>0, <2>1, <2>3, <3>2, <4>1, DoubtMoves, OutrunStays
      <3>. QED
        BY <1>2, <2>1, <3>1, <3>2
    <2>. QED
      BY <2>2, <2>3
  <1>. QED
    BY <1>1, <1>2, RemoteMoves

----------------------------------------------------------------------------
(***************************************************************************)
(* The theorems.                                                           *)
(***************************************************************************)
LEMMA InitIInv == Init => IInv
  <1>. SUFFICES ASSUME Init PROVE IInv
    OBVIOUS
  <1>1. /\ lane = [l \in Lanes |-> Idle] /\ Idle.pc = "idle"
        /\ cycle.status = "observation_pending" /\ cycle.head = 0 /\ cycle.used = 0 /\ remote = 0
        /\ \A h \in Heads : update[h] = "none" /\ dispatch[h] = "none"
    BY DEF Init, Idle
  <1>2. \A l \in Lanes : lane[l].pc = "idle"
    BY <1>1
  <1>3. Served
    BY DEF Init, Served, Live, ServedBy, Roles, NewJob
  <1>4. DoubtShared
    BY <1>1 DEF DoubtShared, InFlight
  <1>5. Counted /\ Unrepeated /\ HeadAccounted
    BY <1>1 DEF Counted, Unrepeated, HeadAccounted
  <1>6. Placed /\ Budgeted /\ Updating /\ CallsInDoubt /\ RecordsLanded
    BY <1>1, <1>2 DEF Placed, Budgeted, Updating, Pushes, CallsInDoubt, RecordsLanded
  <1>. QED
    BY <1>3, <1>4, <1>5, <1>6, InitTypeOK DEF IInv

LEMMA NextIInv == IInv /\ [Next]_vars => IInv'
  <1>1. IInv /\ Next => IInv'
    BY StepTypes, StepPlaced, StepCounted, StepBudgeted, StepUnrepeated, StepUpdating, StepServed,
       StepDoubtShared, StepCallsInDoubt, StepRecordsLanded, StepHeadAccounted DEF IInv
  <1>2. IInv /\ UNCHANGED vars => IInv'
    BY DEF IInv, TypeOK, Placed, Counted, Budgeted, Unrepeated, Updating, Served, Live, DoubtShared,
           CallsInDoubt, RecordsLanded, HeadAccounted, Fenced, Bound, vars, rows
  <1>. QED
    BY <1>1, <1>2

LEMMA Invariance == Spec => []IInv
  BY InitIInv, NextIInv, PTL DEF Spec

(* The cycle, its updates, its jobs and the lanes stay in their domains: no *)
(* interleaving uses more repairs than the budget of the cycle.            *)
THEOREM Typing == Spec => []TypeOK
  BY Invariance, PTL DEF IInv

(* Neither a crash nor a lost lease nor a pause makes the cycle forget a   *)
(* push to its branch (warden-candidate-update.ts).                        *)
THEOREM HeadTheorem == Spec => []HeadAccounted
  BY Invariance, PTL DEF IInv

(* Update and Mission fence are in doubt together and settle together.     *)
THEOREM DoubtTheorem == Spec => []InDoubtTogether
  <1>1. IInv => InDoubtTogether
    BY DEF IInv, DoubtShared, InDoubtTogether
  <1>. QED
    BY <1>1, Invariance, PTL

(* A waiting cycle has the one job it waits for.                           *)
THEOREM ServiceTheorem == Spec => []WaitsForItsJob
  <1>1. IInv => WaitsForItsJob
    BY DEF IInv, Served, Live, WaitsForItsJob, ServedBy, Roles
  <1>. QED
    BY <1>1, Invariance, PTL

LEMMA PausedArmsNothing ==
  ASSUME IInv, Next, cycle.status = "paused", NEW h \in Heads, update'[h] \in InDoubt
  PROVE  update[h] \in InDoubt
  <1>0. update \in [Heads -> UpdateStates]
    BY DEF IInv, TypeOK
  <1>1. CASE PeopleStep
    BY <1>0, <1>1 DEF PeopleStep, AgentEnds, ExpireCandidate, People, Approve, Reviewable, Regenerate,
           Reject, Pause, Wake, Accept, ChangeMission, PushByOthers, InDoubt, rows
  <1>2. ASSUME NEW l \in Lanes, Run(l) PROVE update[h] \in InDoubt
    <2>0. lane[l].head \in Heads
      BY DEF IInv, TypeOK, LaneStates
    <2>1. CASE Preflight(l)
      BY <1>0, <2>0, <2>1 DEF Preflight, InDoubt
    <2>2. CASE Refute(l)
      BY <1>0, <2>0, <2>2 DEF Refute, InDoubt
    <2>3. CASE Authorize(l)
      BY <1>0, <2>0, <2>3 DEF Authorize, InDoubt
    <2>4. CASE RecordUpdate(l) \/ Reconcile(l) \/ Push(l) \/ PushThrows(l)
      <3>1. CASE Doubted(l)
        BY <1>0, <2>0, <3>1 DEF Doubted, Uncertain, MarkUncertain, InDoubt
      <3>2. CASE ~Doubted(l)
        BY <1>0, <2>0, <2>4, <3>2, RecordOrDoubt
           DEF Doubted, UncertainFailures, Reconcile, Push, PushThrows, InDoubt
      <3>. QED
        BY <3>1, <3>2
    <2>5. CASE Fail(l)
      BY <1>0, <2>0, <2>5 DEF Fail, InDoubt
    <2>6. CASE ~(Preflight(l) \/ Refute(l) \/ Authorize(l) \/ Fail(l)
                 \/ RecordUpdate(l) \/ Reconcile(l) \/ Push(l) \/ PushThrows(l))
      BY <1>2, <2>6 DEF Run, Observe, Poll, RecordObservation, DispatchRepair, BeginRepair, Inspect,
             ResolveFails, FeedbackDrifts, Begin, rows
    <2>. QED
      BY <2>1, <2>2, <2>3, <2>4, <2>5, <2>6
  <1>3. CASE JobStep
    BY <1>3, JobStepKeeps DEF rows
  <1>. QED
    BY <1>1, <1>2, <1>3, StepKinds

(* What was under way when the cycle was paused does not take it on again, *)
(* and arms no update for it.                                              *)
THEOREM PauseTheorem == Spec => PauseStands
  <1>1. IInv /\ [Next]_vars
          => [cycle.status = "paused" =>
                /\ cycle'.status = "paused"
                /\ \A h \in Heads : update'[h] \in InDoubt => update[h] \in InDoubt]_vars
    <2>. SUFFICES ASSUME IInv, Next, cycle.status = "paused"
                  PROVE  /\ cycle'.status = "paused"
                         /\ \A h \in Heads : update'[h] \in InDoubt => update[h] \in InDoubt
      OBVIOUS
    <2>1. cycle'.status = "paused"
      BY CycleMoves, StatusTyped DEF IInv, Recorded
    <2>2. ASSUME NEW h \in Heads, update'[h] \in InDoubt PROVE update[h] \in InDoubt
      BY <2>2, PausedArmsNothing
    <2>. QED
      BY <2>1, <2>2
  <1>. QED
    BY <1>1, Invariance, PTL DEF Spec, PauseStands
=============================================================================
