-------------------------- MODULE CandidateDelivery --------------------------
(***************************************************************************)
(* Approved candidate changes of one Mission and one repository, delivered *)
(* as draft pull requests by worker lanes                                  *)
(* (apps/worker/src/warden-candidate-delivery.ts), and the fence that keeps *)
(* the Mission from changing while a draft may be being created            *)
(* (packages/db/src/mission-mutation-dispatch.ts and -fence.ts).           *)
(*                                                                         *)
(* The ids of a delivery, its job and its dispatch row are derived from    *)
(* one another, so one name stands for the three.  Every delivery is bound *)
(* to the Mission and carries the same provider change.  A lane's step is  *)
(* one transaction, or one call to GitHub; another lane, a control-plane   *)
(* writer, a reviewer or a crash may come between any two.  A lease has no *)
(* clock: it lapses at any time while a lane holds the job (an overrun),   *)
(* and in the end when none does.                                          *)
(*                                                                         *)
(* A claim authorizes once, so a row that Authorize finds dispatching was  *)
(* left by an earlier claim, and the row's lease columns are left out.  A  *)
(* change of the Mission's state is a change of its revision.              *)
(***************************************************************************)
EXTENDS Naturals, FiniteSets

CONSTANTS
  Deliveries,   \* approved runs of the repository
  Lanes,        \* worker lanes
  None,         \* no delivery
  MaxAttempts,  \* max_attempts of a delivery job
  MaxEvents     \* bound on control-plane writes, operator requests, crashes,
                \* overrun leases and failures that are retried

ASSUME NoneAssumption == None \notin Deliveries

ASSUME BoundsAssumption == MaxAttempts \in Nat /\ MaxEvents \in Nat

VARIABLES
  mission,   \* revision of the Mission and whether an open exception blocks it
  task,      \* the Mission's task for the repository
  auth,      \* the authority each delivery was approved under
  job,       \* the delivery jobs
  delivery,  \* status of the delivery rows
  scoped,    \* deliveries whose job payload names the provider change
  outcome,   \* what became of the pull request of a delivered row
  dispatch,  \* state of the mission_mutation_dispatches rows
  remote,    \* the draft on GitHub, by delivery
  lane,      \* what each lane is doing
  events     \* how many of the bounded events happened so far

control == <<mission, task>>
rows == <<auth, delivery, scoped, outcome>>
vars == <<control, rows, job, dispatch, remote, lane, events>>

----------------------------------------------------------------------------
\* waiting stands for the statuses in which the task is with a human, or not started.
TaskStatuses == {"absent", "waiting", "agent_resume", "agent_working", "complete"}

NoTask == [rev |-> 0, status |-> "absent"]

Tasks == [rev : Nat, status : TaskStatuses]

Authorities == [mission : Nat, task : Tasks]

NoAuthority == [mission |-> 0, task |-> NoTask]

JobRows == [status : {"absent", "pending", "running", "done", "dead_letter", "cancelled"},
            attempts : Nat, gen : Nat, lapsed : BOOLEAN]

\* bound: delivery_pending with an intent_digest
DeliveryStates == {"absent", "pending", "bound", "delivered", "failed"}

DispatchStates == {"none", "authorized", "dispatching", "uncertain", "settled", "revoked"}

\* changed: the draft was opened for review, edited, merged or closed
RemoteStates == {"none", "draft", "changed"}

Steps == {"idle", "scoping", "binding", "authorizing", "beginning", "calling", "created",
          "finalizing", "failing"}

Failures == {"none", "terminal", "retryable", "uncertain"}

LaneStates == [pc : Steps, d : Deliveries \cup {None}, gen : Nat, failure : Failures]

Idle == [pc |-> "idle", d |-> None, gen |-> 0, failure |-> "none"]

Init ==
  /\ mission = [rev |-> 1, blocked |-> FALSE]
  /\ task \in {NoTask, [rev |-> 1, status |-> "agent_resume"]}
  /\ auth = [d \in Deliveries |-> NoAuthority]
  /\ job = [d \in Deliveries |-> [status |-> "absent", attempts |-> 0, gen |-> 0, lapsed |-> FALSE]]
  /\ delivery = [d \in Deliveries |-> "absent"]
  /\ scoped = {}
  /\ outcome = [d \in Deliveries |-> "none"]
  /\ dispatch = [d \in Deliveries |-> "none"]
  /\ remote = [d \in Deliveries |-> "none"]
  /\ lane = [l \in Lanes |-> Idle]
  /\ events = 0

----------------------------------------------------------------------------
(***************************************************************************)
(* The authority of a delivery (mission-mutation-authority.ts): the very   *)
(* revisions it was approved under, no open blocker, and the task as it    *)
(* was, or since claimed by the agent, or (settled) since completed.       *)
(***************************************************************************)
Claimed(was) ==
  /\ was.status = "agent_resume"
  /\ task = [rev |-> was.rev + 1, status |-> "agent_working"]

Completed(was) ==
  /\ task.status = "complete"
  /\ \/ was.status = "agent_resume" /\ task.rev = was.rev + 2
     \/ was.status = "agent_working" /\ task.rev = was.rev + 1

MissionCurrent(d) == mission.rev = auth[d].mission /\ ~mission.blocked

Current(d) == MissionCurrent(d) /\ (task = auth[d].task \/ Claimed(auth[d].task))

CurrentOrSettled(d) ==
  MissionCurrent(d) /\ (task = auth[d].task \/ Claimed(auth[d].task) \/ Completed(auth[d].task))

Refreshed == [mission |-> mission.rev, task |-> task]

Event == events < MaxEvents /\ events' = events + 1

----------------------------------------------------------------------------
(***************************************************************************)
(* Control-plane writers.  Each first revokes what is only authorized, and *)
(* is refused while a remote call may have had its effect.                 *)
(***************************************************************************)
\* Mutant: an uncertain row does not fence the writers.
InFlightCertain(d) == dispatch[d] = "dispatching"

InFlight(d) == dispatch[d] \in {"dispatching", "uncertain"}

TaskLane == {d \in Deliveries : auth[d].task # NoTask}

NullLane == Deliveries \ TaskLane

Revoked(fenced) ==
  [d \in Deliveries |->
     IF d \in fenced /\ dispatch[d] = "authorized" THEN "revoked" ELSE dispatch[d]]

Write(fenced) ==
  /\ Event
  /\ \A d \in fenced : ~InFlight(d)
  /\ dispatch' = Revoked(fenced)
  /\ UNCHANGED <<rows, job, remote, lane>>

(* transitionMission, bindMissionScope and the pins of a version.          *)
AdvanceMission ==
  /\ Write(Deliveries)
  /\ mission' = [mission EXCEPT !.rev = @ + 1]
  /\ UNCHANGED task

RaiseBlocker ==
  /\ ~mission.blocked
  /\ Write(Deliveries)
  /\ mission' = [mission EXCEPT !.blocked = TRUE]
  /\ UNCHANGED task

ResolveBlocker ==
  /\ mission.blocked
  /\ Write({})
  /\ mission' = [mission EXCEPT !.blocked = FALSE]
  /\ UNCHANGED task

(* createMissionTask, of this repository's task or of another one: it      *)
(* fences the authorities that name no task.                               *)
CreateTask ==
  /\ Write(NullLane)
  /\ \/ task = NoTask /\ task' = [rev |-> 1, status |-> "waiting"]
     \/ UNCHANGED task
  /\ UNCHANGED mission

TaskMoves ==
  [absent |-> {}, complete |-> {"complete"},
   waiting |-> {"waiting", "agent_resume", "agent_working", "complete"},
   agent_resume |-> {"agent_resume", "agent_working", "waiting", "complete"},
   agent_working |-> {"agent_working", "waiting", "complete"}]

(* transitionMissionTask, and addMissionTaskDependency, which keeps the    *)
(* status: both take a new revision and fence the task's own lane.         *)
WriteTask ==
  /\ Write(TaskLane)
  /\ \E status \in TaskMoves[task.status] : task' = [rev |-> task.rev + 1, status |-> status]
  /\ UNCHANGED mission

----------------------------------------------------------------------------
(***************************************************************************)
(* The job table, by the operations of JobQueue.                           *)
(***************************************************************************)
(* recoverExpiredJobs: past its attempts a job is kept only if its intent  *)
(* was bound.                                                              *)
ShouldRetry(d) == job[d].attempts < MaxAttempts \/ delivery[d] = "bound"

\* Mutant: lapsed leases are not recovered.
RecoveredNever == job

Recovered ==
  [d \in Deliveries |->
     IF job[d].lapsed
     THEN [job[d] EXCEPT !.lapsed = FALSE,
                         !.status = IF ShouldRetry(d) THEN "pending" ELSE "dead_letter"]
     ELSE job[d]]

Fenced(l) ==
  LET r == job[lane[l].d] IN r.status = "running" /\ r.gen = lane[l].gen /\ ~r.lapsed

Held(d) == \E l \in Lanes : lane[l].d = d /\ lane[l].gen = job[d].gen

(* The approval of a run: enqueueWardenCandidateDelivery.                  *)
Enqueue(d) ==
  /\ job[d].status = "absent"
  /\ ~mission.blocked
  /\ job' = [job EXCEPT ![d].status = "pending"]
  /\ delivery' = [delivery EXCEPT ![d] = "pending"]
  /\ auth' = [auth EXCEPT ![d] = Refreshed]
  /\ UNCHANGED <<control, scoped, outcome, dispatch, remote, lane, events>>

(* POST /jobs/:id/retry and /jobs/:id/cancel.                              *)
RetryJob(d) ==
  /\ Event
  /\ job[d].status \in {"dead_letter", "cancelled"}
  /\ job' = [job EXCEPT ![d].status = "pending", ![d].attempts = 0]
  /\ UNCHANGED <<control, rows, dispatch, remote, lane>>

CancelJob(d) ==
  /\ Event
  /\ job[d].status \in {"pending", "dead_letter"}
  /\ job' = [job EXCEPT ![d].status = "cancelled"]
  /\ UNCHANGED <<control, rows, dispatch, remote, lane>>

----------------------------------------------------------------------------
(***************************************************************************)
(* A lane's steps.                                                         *)
(***************************************************************************)
Goto(l, step) == lane' = [lane EXCEPT ![l].pc = step]

Throw(l, failure) == lane' = [lane EXCEPT ![l].pc = "failing", ![l].failure = failure]

\* Mutant: an idle lane still holds its job.
RestHolding(l) == lane' = [lane EXCEPT ![l].pc = "idle"]

Rest(l) == lane' = [lane EXCEPT ![l] = Idle]

(* claimNextJob recovers lapsed jobs, then claims a pending one.           *)
Claim(l) ==
  /\ lane[l].pc = "idle"
  /\ \E d \in Deliveries :
       /\ Recovered[d].status = "pending"
       /\ job' = [Recovered EXCEPT ![d].status = "running", ![d].attempts = @ + 1, ![d].gen = @ + 1]
       /\ lane' = [lane EXCEPT ![l] =
            [pc |-> "scoping", d |-> d, gen |-> Recovered[d].gen + 1, failure |-> "none"]]
  /\ UNCHANGED <<control, rows, dispatch, remote, events>>

(* The claim that finds no job it may take still recovers lapsed ones.     *)
Recover(l) ==
  /\ lane[l].pc = "idle"
  /\ job # Recovered
  /\ job' = Recovered
  /\ UNCHANGED <<control, rows, dispatch, remote, lane, events>>

(* bindWardenCandidateDeliveryScope: one pending delivery or open pull     *)
(* request owns the provider change.                                       *)
OwnsScope(d) ==
  /\ d \in scoped
  /\ delivery[d] \in {"pending", "bound"} \/ (delivery[d] = "delivered" /\ outcome[d] = "none")

Scope(l) ==
  LET d == lane[l].d IN
    /\ lane[l].pc = "scoping"
    /\ IF ~Current(d) \/ (\E p \in Deliveries \ {d} : OwnsScope(p))
       THEN Throw(l, "terminal") /\ UNCHANGED scoped
       ELSE Goto(l, "binding") /\ scoped' = scoped \cup {d}
    /\ UNCHANGED <<control, auth, job, delivery, outcome, dispatch, remote, events>>

(* The repository is resolved, the snapshot may have expired; then         *)
(* bindWardenCandidateDeliveryIntent, fenced.  A lost lease is rethrown.   *)
Bind(l) ==
  LET d == lane[l].d IN
    /\ lane[l].pc = "binding"
    /\ IF ~Current(d) \/ delivery[d] \notin {"pending", "bound"}
       THEN Throw(l, "terminal") /\ UNCHANGED delivery
       ELSE IF ~Fenced(l)
       THEN Rest(l) /\ UNCHANGED delivery
       ELSE Goto(l, "authorizing") /\ delivery' = [delivery EXCEPT ![d] = "bound"]
    /\ UNCHANGED <<control, auth, job, scoped, outcome, dispatch, remote, events>>

ResolveFails(l) ==
  /\ lane[l].pc = "binding"
  /\ \/ Throw(l, "terminal") /\ UNCHANGED events
     \/ Throw(l, "retryable") /\ Event
  /\ UNCHANGED <<control, rows, job, dispatch, remote>>

(* authorizeMissionMutationDispatch.                                       *)
\* Mutant: the successor of a crashed claim arms the row again.
RearmedAnyway(d) == [dispatch EXCEPT ![d] = "authorized"]

Rearmed(d) ==
  [dispatch EXCEPT ![d] = IF @ = "dispatching" THEN "uncertain"
                          ELSE IF @ = "none" THEN "authorized" ELSE @]

Authorize(l) ==
  LET d == lane[l].d IN
    /\ lane[l].pc = "authorizing"
    /\ IF ~Current(d) \/ ~Fenced(l) \/ dispatch[d] \in {"revoked", "settled"}
       THEN Throw(l, "terminal") /\ UNCHANGED dispatch
       ELSE Goto(l, "beginning") /\ dispatch' = Rearmed(d)
    /\ UNCHANGED <<control, rows, job, remote, events>>

(* The snapshot expired after the intent was bound.                        *)
SnapshotExpires(l) ==
  /\ lane[l].pc = "authorizing"
  /\ Throw(l, "terminal")
  /\ UNCHANGED <<control, rows, job, dispatch, remote, events>>

(* beginMissionMutationRemoteCall.  A changed authority revokes the row; a *)
(* lost lease leaves it for the successor.                                 *)
Begin(l) ==
  LET d == lane[l].d IN
    /\ lane[l].pc = "beginning"
    /\ IF ~Current(d)
       THEN Throw(l, "terminal") /\ dispatch' = Revoked({d})
       ELSE IF ~Fenced(l) \/ dispatch[d] \notin {"authorized", "uncertain"}
       THEN Throw(l, "terminal") /\ UNCHANGED dispatch
       ELSE Goto(l, "calling") /\ dispatch' = [dispatch EXCEPT ![d] = "dispatching"]
    /\ UNCHANGED <<control, rows, job, remote, events>>

\* markMissionMutationDispatchUncertain; a conflict is only logged.
MarkedUncertain(d) == [dispatch EXCEPT ![d] = IF @ = "dispatching" THEN "uncertain" ELSE @]

(* deliverExactDraft: it finds the draft as an earlier call left it, or    *)
(* creates it.                                                             *)
CallCreates(l) ==
  /\ lane[l].pc = "calling"
  /\ remote[lane[l].d] = "none"
  /\ remote' = [remote EXCEPT ![lane[l].d] = "draft"]
  /\ Goto(l, "created")
  /\ UNCHANGED <<control, rows, job, dispatch, events>>

CallReturns(l) ==
  /\ \/ lane[l].pc = "created"
     \/ lane[l].pc = "calling" /\ remote[lane[l].d] = "draft"
  /\ Goto(l, "finalizing")
  /\ UNCHANGED <<control, rows, job, dispatch, remote, events>>

(* Only the creation of the pull request leaves the caller uncertain,      *)
(* whether GitHub carried it out or not; any other failure changed nothing *)
(* and is retried or not by its HTTP status.  The dispatch is marked       *)
(* uncertain whatever the failure was.                                     *)
CallThrows(l) ==
  /\ \/ /\ lane[l].pc = "created" \/ (lane[l].pc = "calling" /\ remote[lane[l].d] = "none")
        /\ Throw(l, "uncertain") /\ Event
     \/ lane[l].pc = "calling" /\ Throw(l, "retryable") /\ Event
     \/ lane[l].pc = "calling" /\ Throw(l, "terminal") /\ UNCHANGED events
  /\ dispatch' = MarkedUncertain(lane[l].d)
  /\ UNCHANGED <<control, rows, job, remote>>

(* The evidence is refused, or the finalization fails before its end.      *)
FinalizationFails(l) ==
  /\ lane[l].pc = "finalizing"
  /\ dispatch' = MarkedUncertain(lane[l].d)
  /\ Throw(l, "uncertain")
  /\ Event
  /\ UNCHANGED <<control, rows, job, remote>>

(* One transaction: settle the dispatch, refresh the authority, record the *)
(* draft, complete the job.  A lost lease rolls all of it back and is      *)
(* rethrown; a step before it that fails leaves the dispatch uncertain.    *)
\* Mutant: the dispatch is settled in a transaction of its own.
FinalizeSettlesFirst(l) ==
  LET d == lane[l].d IN
    /\ lane[l].pc = "finalizing"
    /\ dispatch' = [dispatch EXCEPT ![d] = IF InFlight(d) THEN "settled" ELSE @]
    /\ IF Fenced(l) /\ InFlight(d)
       THEN /\ auth' = [auth EXCEPT ![d] = Refreshed]
            /\ delivery' = [delivery EXCEPT ![d] = "delivered"]
            /\ job' = [job EXCEPT ![d].status = "done"]
       ELSE UNCHANGED <<auth, delivery, job>>
    /\ Rest(l)
    /\ UNCHANGED <<control, scoped, outcome, remote, events>>

Finalize(l) ==
  LET d == lane[l].d
      applies == InFlight(d) /\ CurrentOrSettled(d)
  IN /\ lane[l].pc = "finalizing"
     /\ IF applies /\ Fenced(l)
        THEN /\ dispatch' = [dispatch EXCEPT ![d] = "settled"]
             /\ auth' = [auth EXCEPT ![d] = Refreshed]
             /\ delivery' = [delivery EXCEPT ![d] = "delivered"]
             /\ job' = [job EXCEPT ![d].status = "done"]
             /\ Rest(l)
        ELSE /\ UNCHANGED <<auth, delivery, job>>
             /\ IF applies THEN Rest(l) /\ UNCHANGED dispatch
                ELSE Throw(l, "uncertain") /\ dispatch' = MarkedUncertain(d)
     /\ UNCHANGED <<control, scoped, outcome, remote, events>>

(* failJob and the failure of the delivery row in one transaction; an      *)
(* uncertain effect is retried past the attempts.                          *)
Fail(l) ==
  LET d == lane[l].d
      retried == \/ lane[l].failure = "uncertain"
                 \/ lane[l].failure = "retryable" /\ job[d].attempts < MaxAttempts
  IN /\ lane[l].pc = "failing"
     /\ IF Fenced(l)
        THEN /\ job' = [job EXCEPT ![d].status = IF retried THEN "pending" ELSE "dead_letter"]
             /\ delivery' = IF ~retried /\ delivery[d] \in {"pending", "bound"}
                            THEN [delivery EXCEPT ![d] = "failed"] ELSE delivery
        ELSE UNCHANGED <<job, delivery>>
     /\ Rest(l)
     /\ UNCHANGED <<control, auth, scoped, outcome, dispatch, remote, events>>

Crash(l) ==
  /\ lane[l].pc # "idle"
  /\ Event
  /\ Rest(l)
  /\ UNCHANGED <<control, rows, job, dispatch, remote>>

(* The lease of a job lapses: of one that no lane holds any more, or by a  *)
(* lane that failed to renew it.                                           *)
Lapse(d) ==
  /\ job[d].status = "running" /\ ~job[d].lapsed
  /\ job' = [job EXCEPT ![d].lapsed = TRUE]
  /\ UNCHANGED <<control, rows, dispatch, remote, lane>>

Expire(d) == ~Held(d) /\ Lapse(d) /\ UNCHANGED events

Overrun(d) == Held(d) /\ Event /\ Lapse(d)

----------------------------------------------------------------------------
(***************************************************************************)
(* The reviewer, the outcome webhook and the sweep of merged outcomes.     *)
(***************************************************************************)
Review(d) ==
  /\ remote[d] = "draft" /\ delivery[d] # "delivered"
  /\ remote' = [remote EXCEPT ![d] = "changed"]
  /\ UNCHANGED <<control, rows, job, dispatch, lane, events>>

(* recordWardenCandidateDeliveryOutcome.  A closed pull request can still  *)
(* be reopened and merged.                                                 *)
RecordOutcome(d) ==
  /\ delivery[d] = "delivered"
  /\ \/ outcome[d] = "none" /\ outcome' = [outcome EXCEPT ![d] = "closed"]
     \/ outcome[d] \in {"none", "closed"} /\ outcome' = [outcome EXCEPT ![d] = "merged"]
  /\ remote' = [remote EXCEPT ![d] = "changed"]
  /\ UNCHANGED <<control, auth, job, delivery, scoped, dispatch, lane, events>>

(* replayWardenCandidateDeliveryMergedOutcome, after the webhook or from   *)
(* the sweep: it completes the task, unless the task's lane is in flight.  *)
\* Mutant: the task must still be as it was when the draft was recorded.
MergeSettlesExact(d) ==
  outcome[d] = "merged" /\ MissionCurrent(d) /\ task = auth[d].task /\ task.status = "agent_working"

MergeSettles(d) ==
  /\ outcome[d] = "merged"
  /\ auth[d].task # NoTask /\ CurrentOrSettled(d)
  /\ task.status = "agent_working"

ReplayMerged(d) ==
  /\ MergeSettles(d)
  /\ \A p \in TaskLane : ~InFlight(p)
  /\ auth' = [auth EXCEPT ![d] = Refreshed]
  /\ task' = [rev |-> task.rev + 1, status |-> "complete"]
  /\ dispatch' = Revoked(TaskLane)
  /\ UNCHANGED <<mission, delivery, scoped, outcome, job, remote, lane, events>>

----------------------------------------------------------------------------
Run(l) ==
  \/ Scope(l) \/ Bind(l) \/ ResolveFails(l) \/ Authorize(l) \/ SnapshotExpires(l) \/ Begin(l)
  \/ CallCreates(l) \/ CallReturns(l) \/ CallThrows(l) \/ Finalize(l) \/ FinalizationFails(l) \/ Fail(l)

ControlPlane ==
  AdvanceMission \/ RaiseBlocker \/ ResolveBlocker \/ CreateTask \/ WriteTask

Next ==
  \/ \E l \in Lanes : Claim(l) \/ Recover(l) \/ Run(l) \/ Crash(l)
  \/ ControlPlane
  \/ \E d \in Deliveries :
       \/ Enqueue(d) \/ RetryJob(d) \/ CancelJob(d) \/ Expire(d) \/ Overrun(d)
       \/ Review(d) \/ RecordOutcome(d) \/ ReplayMerged(d)

Spec == Init /\ [][Next]_vars

(* As long as a job can be claimed or a lane has work, some lane works; the *)
(* leases of crashed lanes run out; the sweep of merged outcomes runs.     *)
FairSpec ==
  /\ Spec
  /\ WF_vars(\E l \in Lanes : Claim(l) \/ Recover(l) \/ Run(l))
  /\ WF_vars(\E d \in Deliveries : Expire(d))
  /\ WF_vars(\E d \in Deliveries : ReplayMerged(d))

----------------------------------------------------------------------------
(***************************************************************************)
(* Correctness.                                                            *)
(***************************************************************************)
TypeOK ==
  /\ mission \in [rev : Nat, blocked : BOOLEAN]
  /\ task \in Tasks
  /\ auth \in [Deliveries -> Authorities]
  /\ job \in [Deliveries -> JobRows]
  /\ delivery \in [Deliveries -> DeliveryStates]
  /\ scoped \in SUBSET Deliveries
  /\ outcome \in [Deliveries -> {"none", "closed", "merged"}]
  /\ dispatch \in [Deliveries -> DispatchStates]
  /\ remote \in [Deliveries -> RemoteStates]
  /\ lane \in [Lanes -> LaneStates]
  /\ \A l \in Lanes : lane[l].pc = "idle" <=> lane[l].d = None
  /\ events \in Nat

(* As long as a dispatch row is armed, or a draft may be half made, the    *)
(* Mission is what the reviewer approved: every control-plane write either *)
(* takes the row with it or is refused.                                    *)
LiveUnderAuthority ==
  \A d \in Deliveries :
    dispatch[d] \in {"authorized", "dispatching", "uncertain"} => Current(d)

(* A draft on GitHub that is not recorded as delivered holds the fence:    *)
(* no crash, lost lease or handover makes the Mission forget it.           *)
DraftAccountedFor ==
  \A d \in Deliveries :
    remote[d] # "none" =>
      delivery[d] = "delivered" \/ dispatch[d] \in {"dispatching", "uncertain"}

(* The fence, the delivery row and the job agree on a finished delivery    *)
(* (Finalize's one transaction), whatever lane came late.                  *)
SettledTogether ==
  \A d \in Deliveries :
    /\ dispatch[d] = "settled" <=> delivery[d] = "delivered"
    /\ delivery[d] = "delivered" => job[d].status = "done" /\ remote[d] # "none"

(* At most one delivery that is pending or whose pull request is open owns *)
(* the provider change (bindWardenCandidateDeliveryScope).                 *)
ScopeOwnedOnce ==
  \A d, p \in scoped :
    (\A q \in {d, p} : delivery[q] \in {"pending", "bound"}
                        \/ (delivery[q] = "delivered" /\ outcome[q] = "none")) => d = p

(* No step creates a draft that the Mission of that moment does not allow: *)
(* not the call of a lane that lost its lease, nor one that outlived a     *)
(* write of the control plane.                                             *)
EffectUnderAuthority ==
  [][\A d \in Deliveries : remote[d] = "none" /\ remote'[d] # "none" => Current(d)]_vars

(* Only a write of the control plane revokes a dispatch; a lane that hands *)
(* its job over never does, so its successor can arm the row again         *)
(* (the comment of beginMissionMutationRemoteCall).                        *)
RevokedOnlyByWriters ==
  [][\A d \in Deliveries :
       dispatch'[d] = "revoked" /\ dispatch[d] # "revoked" =>
         events' # events \/ task' # task]_vars

(* The lease of a job is lost and recovered, an uncertain effect is tried  *)
(* again past the attempts: the fence around a draft is lifted, unless the *)
(* delivery was refused or cancelled.                                      *)
FenceLifts(d) ==
  dispatch[d] \in {"dispatching", "uncertain"} ~>
    dispatch[d] = "settled" \/ job[d].status \in {"dead_letter", "cancelled"}

(* The merge of a draft completes the task it was for, though the task was *)
(* fenced when the webhook came, unless the Mission has moved on or a      *)
(* sibling was left in doubt.                                              *)
MergedTaskCompletes(d) ==
  outcome[d] = "merged" /\ CurrentOrSettled(d) /\ auth[d].task # NoTask
      /\ task.status = "agent_working" ~>
    \/ task.status = "complete" \/ ~CurrentOrSettled(d)
    \/ \E p \in Deliveries : dispatch[p] \in {"dispatching", "uncertain"}
                            /\ job[p].status \in {"dead_letter", "cancelled"}

(* What the fence's comments promise, and what a refused delivery breaks:  *)
(* a row that fences the Mission can still be reconciled, that is its      *)
(* delivery was not failed for good.                                       *)
FenceCanLift ==
  \A d \in Deliveries :
    dispatch[d] \in {"dispatching", "uncertain"} => delivery[d] # "failed"
=============================================================================
