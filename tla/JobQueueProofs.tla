-------------------------- MODULE JobQueueProofs --------------------------
(***************************************************************************)
(* Theorems about JobQueue: its types, the exclusive lease, the rows and   *)
(* the tenant's capacity, for any lanes, jobs and tenants and any bounds.  *)
(***************************************************************************)
EXTENDS JobQueue, FiniteSetTheorems, TLAPS

(***************************************************************************)
(* Types.                                                                  *)
(***************************************************************************)
LEMMA InstantsType ==
  ASSUME clock \in Nat
  PROVE  Instants \subseteq Nat
  BY DEF Instants

LEMMA AbsentType == Absent \in JobRows
  BY DEF Absent, JobRows, Statuses, Times, Never

LEMMA QueuedType ==
  ASSUME NEW r \in JobRows, NEW at \in Nat
  PROVE  /\ Queued(r, at) \in JobRows
         /\ Queued(r, at).status = "pending"
         /\ Queued(r, at).available = at
         /\ Queued(r, at).owner = None
         /\ Queued(r, at).lease = Never
         /\ Queued(r, at).attempts = r.attempts
         /\ Queued(r, at).gen = r.gen
  BY DEF Queued, Released, JobRows, Statuses, Times, Never

LEMMA EndedType ==
  ASSUME NEW r \in JobRows, NEW status \in Settled
  PROVE  /\ Ended(r, status) \in JobRows
         /\ Ended(r, status).status = status
         /\ Ended(r, status).available = Never
         /\ Ended(r, status).owner = None
         /\ Ended(r, status).lease = Never
         /\ Ended(r, status).attempts = r.attempts
         /\ Ended(r, status).gen = r.gen
  BY DEF Ended, Released, JobRows, Statuses, Settled, Times, Never

LEMMA ResetType ==
  ASSUME NEW r \in JobRows, NEW at \in Nat
  PROVE  /\ Reset(r, at) \in JobRows
         /\ Reset(r, at).status = "pending"
         /\ Reset(r, at).available = at
         /\ Reset(r, at).owner = None
         /\ Reset(r, at).lease = Never
         /\ Reset(r, at).attempts = 0
         /\ Reset(r, at).gen = r.gen + 1
<1> DEFINE q == Queued(r, at)
<1>1. /\ q \in JobRows
      /\ q.status = "pending" /\ q.available = at /\ q.owner = None
      /\ q.lease = Never /\ q.gen = r.gen
  BY QueuedType
<1>2. Reset(r, at) = [q EXCEPT !.attempts = 0, !.gen = q.gen + 1]
  BY DEF Reset
<1> HIDE DEF q
<1>3. q.gen + 1 \in Nat
  BY <1>1 DEF JobRows
<1>4. [q EXCEPT !.attempts = 0, !.gen = q.gen + 1] \in JobRows
  BY <1>1, <1>3 DEF JobRows, Statuses
<1>5. /\ Reset(r, at).status = q.status
      /\ Reset(r, at).available = q.available
      /\ Reset(r, at).owner = q.owner
      /\ Reset(r, at).lease = q.lease
      /\ Reset(r, at).attempts = 0
      /\ Reset(r, at).gen = q.gen + 1
  BY <1>1, <1>2 DEF JobRows
<1> QED BY <1>1, <1>2, <1>4, <1>5

LEMMA DeferredType ==
  ASSUME NEW r \in JobRows, NEW at \in Nat
  PROVE  /\ Deferred(r, at) \in JobRows
         /\ Deferred(r, at).status = "pending"
         /\ Deferred(r, at).available = at
         /\ Deferred(r, at).owner = None
         /\ Deferred(r, at).lease = Never
         /\ Deferred(r, at).attempts = IF r.attempts > 0 THEN r.attempts - 1 ELSE 0
         /\ Deferred(r, at).gen = r.gen
  BY QueuedType DEF Deferred, JobRows

LEMMA GrantedType ==
  ASSUME NEW r \in JobRows, NEW l \in Lanes, NEW at \in Nat
  PROVE  /\ Granted(r, l, at) \in JobRows
         /\ Granted(r, l, at).status = "running"
         /\ Granted(r, l, at).available = r.available
         /\ Granted(r, l, at).owner = OwnerOf[l]
         /\ Granted(r, l, at).lease = at + Lease
         /\ Granted(r, l, at).attempts = r.attempts + 1
         /\ Granted(r, l, at).gen = r.gen + 1
<1>1. OwnerOf[l] \in Owners
  BY JobsAssumption
<1>2. at + Lease \in Times
  BY NumbersAssumption DEF Times
<1>a. r.attempts + 1 \in Nat
  BY DEF JobRows
<1>b. r.gen + 1 \in Nat
  BY DEF JobRows
<1>3. Granted(r, l, at) \in JobRows
  BY <1>1, <1>2, <1>a, <1>b DEF Granted, JobRows, Statuses
<1> QED BY <1>3 DEF Granted, JobRows

LEMMA FailedRowType ==
  ASSUME NEW r \in JobRows, NEW requeue \in BOOLEAN, NEW at \in Nat
  PROVE  FailedRow(r, requeue, at) \in JobRows
  BY QueuedType, EndedType DEF FailedRow, Settled

(* A lane at work names a job.                                              *)
Holding == \A l \in Lanes : Busy(l) => held[l].job \in Jobs

LanesType ==
  /\ pc \in [Lanes -> Steps]
  /\ held \in [Lanes -> Claims]
  /\ outcome \in [Lanes -> Outcomes]
  /\ retry \in [Lanes -> BOOLEAN]

JobsType == jobs \in [Jobs -> JobRows] /\ delivery \in [Jobs -> DeliveryStates]

RestType ==
  /\ seen \in Reads
  /\ drafts \subseteq Jobs
  /\ requests \in Nat
  /\ crashes \in Nat

Typed == TypeOK /\ Holding

LEMMA PutEffect ==
  ASSUME jobs \in [Jobs -> JobRows], NEW j \in Jobs, NEW r \in JobRows, Put(j, r)
  PROVE  /\ jobs' \in [Jobs -> JobRows]
         /\ jobs'[j] = r
         /\ \A k \in Jobs \ {j} : jobs'[k] = jobs[k]
  BY DEF Put

LEMMA RestEffect ==
  ASSUME LanesType, NEW l \in Lanes, Rest(l)
  PROVE  /\ LanesType'
         /\ pc'[l] = "idle"
         /\ \A k \in Lanes \ {l} : pc'[k] = pc[k] /\ held'[k] = held[k]
                                    /\ outcome'[k] = outcome[k] /\ retry'[k] = retry[k]
  BY DEF LanesType, Rest, Goto, Steps, NoClaim, Claims, Outcomes

LEMMA FinishEffect ==
  ASSUME LanesType, NEW l \in Lanes, NEW result \in Outcomes, Finish(l, result)
  PROVE  /\ pc' \in [Lanes -> Steps] /\ outcome' \in [Lanes -> Outcomes]
         /\ pc'[l] = "settling" /\ outcome'[l] = result
         /\ \A k \in Lanes \ {l} : pc'[k] = pc[k] /\ outcome'[k] = outcome[k]
  BY DEF LanesType, Finish, Goto, Steps

(* What recovery makes of a row.                                            *)
LEMMA RecoveredEffect ==
  ASSUME jobs \in [Jobs -> JobRows], NEW l \in Lanes, NEW at \in Nat, NEW j \in Jobs
  PROVE  LET q == Recovered(l, at)[j]
         IN  \/ q = jobs[j]
             \/ jobs[j].status = "running" /\ ShouldRetry(j) /\ q = Queued(jobs[j], at)
             \/ jobs[j].status = "running" /\ q = Ended(jobs[j], "dead_letter")
  BY DEF Recovered, Lapsed

LEMMA RecoveredType ==
  ASSUME jobs \in [Jobs -> JobRows], NEW l \in Lanes, NEW at \in Nat
  PROVE  Recovered(l, at) \in [Jobs -> JobRows]
<1>1. \A j \in Jobs : Recovered(l, at)[j] \in JobRows
  <2> SUFFICES ASSUME NEW j \in Jobs PROVE Recovered(l, at)[j] \in JobRows
    OBVIOUS
  <2>1. jobs[j] \in JobRows
    OBVIOUS
  <2>2. Queued(jobs[j], at) \in JobRows
    BY <2>1, QueuedType
  <2>3. Ended(jobs[j], "dead_letter") \in JobRows
    BY <2>1, EndedType DEF Settled
  <2> QED BY <2>1, <2>2, <2>3, RecoveredEffect
<1> QED BY <1>1 DEF Recovered

LEMMA TypedParts == TypeOK <=> clock \in Nat /\ JobsType /\ LanesType /\ RestType
  BY DEF TypeOK, JobsType, LanesType, RestType

(* Claim, case by case: nothing was due, or a pending job of the recovered  *)
(* table was granted.                                                       *)
Grants(l, at, j) ==
  LET table == Recovered(l, at)
  IN  /\ table[j].status = "pending"
      /\ Cardinality(Running(table, TenantOf[j])) < Capacity
      /\ jobs' = [table EXCEPT ![j] = Granted(table[j], l, at)]
      /\ held' = [held EXCEPT ![l] = [job |-> j, gen |-> table[j].gen + 1]]
      /\ pc' = [pc EXCEPT ![l] = "working"]

LEMMA ClaimEffect ==
  ASSUME clock \in Nat, jobs \in [Jobs -> JobRows], NEW l \in Lanes, Claim(l)
  PROVE  /\ pc[l] = "idle"
         /\ UNCHANGED <<clock, delivery, outcome, retry, seen, drafts, bounds>>
         /\ \E at \in Nat :
              \/ jobs' = Recovered(l, at) /\ UNCHANGED <<pc, held>>
              \/ \E j \in Jobs : Grants(l, at, j)
<1>1. PICK at \in Instants :
        LET table == Recovered(l, at)
        IN  \/ /\ Oldest(l, table, at) = {}
               /\ jobs' = table
               /\ UNCHANGED <<pc, held>>
            \/ \E j \in Oldest(l, table, at) :
                 /\ jobs' = [table EXCEPT ![j] = Granted(@, l, at)]
                 /\ held' = [held EXCEPT ![l] = [job |-> j, gen |-> table[j].gen + 1]]
                 /\ Goto(l, "working")
  BY DEF Claim
<1>2. at \in Nat
  BY InstantsType
<1>3. Recovered(l, at) \in [Jobs -> JobRows]
  BY <1>2, RecoveredType
<1>4. \A j \in Oldest(l, Recovered(l, at), at) :
        /\ j \in Jobs /\ Recovered(l, at)[j].status = "pending"
        /\ Cardinality(Running(Recovered(l, at), TenantOf[j])) < Capacity
  BY DEF Oldest, Candidates
<1>5. pc[l] = "idle" /\ UNCHANGED <<clock, delivery, outcome, retry, seen, drafts, bounds>>
  BY DEF Claim
<1>6. CASE jobs' = Recovered(l, at) /\ UNCHANGED <<pc, held>>
  BY <1>2, <1>5, <1>6
<1>7. CASE \E j \in Oldest(l, Recovered(l, at), at) :
             /\ jobs' = [Recovered(l, at) EXCEPT ![j] = Granted(@, l, at)]
             /\ held' = [held EXCEPT ![l] = [job |-> j, gen |-> Recovered(l, at)[j].gen + 1]]
             /\ Goto(l, "working")
  <2>1. PICK j \in Oldest(l, Recovered(l, at), at) :
             /\ jobs' = [Recovered(l, at) EXCEPT ![j] = Granted(@, l, at)]
             /\ held' = [held EXCEPT ![l] = [job |-> j, gen |-> Recovered(l, at)[j].gen + 1]]
             /\ Goto(l, "working")
    BY <1>7
  <2>2. j \in Jobs /\ Grants(l, at, j)
    BY <1>3, <1>4, <2>1 DEF Grants, Goto
  <2> QED BY <1>2, <1>5, <2>2
<1> QED BY <1>1, <1>6, <1>7

LEMMA GrantsType ==
  ASSUME clock \in Nat, JobsType, LanesType, NEW l \in Lanes, NEW at \in Nat,
         NEW j \in Jobs, Grants(l, at, j)
  PROVE  /\ jobs' \in [Jobs -> JobRows]
         /\ jobs'[j] = Granted(Recovered(l, at)[j], l, at)
         /\ \A k \in Jobs \ {j} : jobs'[k] = Recovered(l, at)[k]
         /\ pc' \in [Lanes -> Steps] /\ held' \in [Lanes -> Claims]
         /\ pc'[l] = "working" /\ held'[l].job = j
         /\ held'[l].gen = Recovered(l, at)[j].gen + 1
         /\ \A k \in Lanes \ {l} : pc'[k] = pc[k] /\ held'[k] = held[k]
<1>1. Recovered(l, at) \in [Jobs -> JobRows]
  BY RecoveredType DEF JobsType
<1>2. Granted(Recovered(l, at)[j], l, at) \in JobRows
  BY <1>1, GrantedType
<1>3. [job |-> j, gen |-> Recovered(l, at)[j].gen + 1] \in Claims
  BY <1>1 DEF JobRows, Claims
<1>4. /\ jobs' = [Recovered(l, at) EXCEPT ![j] = Granted(Recovered(l, at)[j], l, at)]
      /\ held' = [held EXCEPT ![l] = [job |-> j, gen |-> Recovered(l, at)[j].gen + 1]]
      /\ pc' = [pc EXCEPT ![l] = "working"]
  BY DEF Grants
<1>5. /\ jobs' \in [Jobs -> JobRows]
      /\ jobs'[j] = Granted(Recovered(l, at)[j], l, at)
      /\ \A k \in Jobs \ {j} : jobs'[k] = Recovered(l, at)[k]
  BY <1>1, <1>2, <1>4
<1>6. /\ pc' \in [Lanes -> Steps] /\ held' \in [Lanes -> Claims]
      /\ pc'[l] = "working" /\ held'[l].job = j
      /\ held'[l].gen = Recovered(l, at)[j].gen + 1
      /\ \A k \in Lanes \ {l} : pc'[k] = pc[k] /\ held'[k] = held[k]
  BY <1>3, <1>4 DEF LanesType, Steps
<1> QED BY <1>5, <1>6

(* A step in which nothing but one row changes, or one lane settles.        *)
LEMMA HoldingFacts ==
  ASSUME Typed, NEW l \in Lanes, Busy(l)
  PROVE  held[l].job \in Jobs /\ jobs[held[l].job] \in JobRows
  BY DEF Typed, Holding, TypeOK

LEMMA SettleType ==
  ASSUME Typed, NEW l \in Lanes, Rest(l), UNCHANGED <<clock, seen, drafts, requests>>,
         crashes' \in Nat, JobsType'
  PROVE  Typed'
<1>1. TypeOK'
  BY TypedParts, RestEffect DEF Typed, TypeOK, JobsType, LanesType
<1>2. Holding'
  <2> SUFFICES ASSUME NEW k \in Lanes, Busy(k)' PROVE held'[k].job \in Jobs
    BY DEF Holding
  <2>1. k # l /\ pc'[k] = pc[k] /\ held'[k] = held[k]
    BY TypedParts, RestEffect DEF Typed, Busy
  <2> QED BY <2>1 DEF Typed, Holding, Busy
<1> QED BY <1>1, <1>2 DEF Typed

LEMMA RequestType ==
  ASSUME Typed, UNCHANGED <<clock, lanes, seen, drafts, crashes>>, Request, JobsType'
  PROVE  Typed'
<1>1. requests' \in Nat /\ UNCHANGED <<pc, held, outcome, retry>>
  BY DEF Request, Typed, TypeOK, lanes
<1> QED BY <1>1 DEF Typed, TypeOK, JobsType, Holding, Busy

(* A lane moves from one busy step to another.                              *)
LEMMA MoveType ==
  ASSUME Typed, NEW l \in Lanes, Busy(l), UNCHANGED <<clock, held, seen, bounds>>,
         JobsType', pc' \in [Lanes -> Steps], \A k \in Lanes \ {l} : pc'[k] = pc[k],
         outcome' \in [Lanes -> Outcomes], retry' \in [Lanes -> BOOLEAN],
         drafts' \subseteq Jobs
  PROVE  Typed'
<1>1. TypeOK'
  BY DEF Typed, TypeOK, JobsType, bounds
<1>2. Holding'
  <2> SUFFICES ASSUME NEW k \in Lanes, Busy(k)' PROVE held'[k].job \in Jobs
    BY DEF Holding
  <2>1. Busy(k)
    BY DEF Busy
  <2> QED BY <2>1 DEF Typed, Holding
<1> QED BY <1>1, <1>2 DEF Typed

LEMMA FreshType == ASSUME NEW at \in Nat PROVE Fresh(at) \in JobRows
  BY AbsentType, QueuedType DEF Fresh

LEMMA RequestsTyped ==
  ASSUME Typed, NEW j \in Jobs,
         Enqueue(j) \/ EnqueueOrReset(j) \/ ReadForReset(j) \/ RetryJob(j) \/ CancelJob(j)
  PROVE  Typed'
<1>1. clock \in Nat /\ jobs[j] \in JobRows /\ jobs \in [Jobs -> JobRows]
      /\ delivery \in [Jobs -> DeliveryStates]
  BY DEF Typed, TypeOK
<1>2. CASE Enqueue(j)
  <2>1. jobs' \in [Jobs -> JobRows]
    BY <1>1, <1>2, FreshType, PutEffect DEF Enqueue
  <2>2. delivery' \in [Jobs -> DeliveryStates]
    BY <1>1, <1>2 DEF Enqueue, DeliveryStates
  <2> QED BY <1>2, <2>1, <2>2, RequestType DEF Enqueue, JobsType
<1>3. CASE EnqueueOrReset(j)
  <2>1. jobs' \in [Jobs -> JobRows]
    BY <1>1, <1>3, ResetType, PutEffect DEF EnqueueOrReset
  <2> QED BY <1>1, <1>3, <2>1, RequestType DEF EnqueueOrReset, JobsType
<1>4. CASE ReadForReset(j)
  <2>1. seen' \in Reads
    BY <1>1, <1>4 DEF ReadForReset, Reads, JobRows
  <2>2. UNCHANGED <<clock, jobs, delivery, pc, held, outcome, retry, drafts, crashes>>
    BY <1>4 DEF ReadForReset, lanes
  <2>3. requests' \in Nat
    BY <1>4 DEF ReadForReset, Request, Typed, TypeOK
  <2> QED BY <2>1, <2>2, <2>3 DEF Typed, TypeOK, Holding, Busy
<1>5. CASE RetryJob(j)
  <2>1. [Queued(jobs[j], clock) EXCEPT !.attempts = 0] \in JobRows
    BY <1>1, QueuedType DEF JobRows
  <2>2. jobs' \in [Jobs -> JobRows]
    BY <1>1, <1>5, <2>1, PutEffect DEF RetryJob
  <2> QED BY <1>1, <1>5, <2>2, RequestType DEF RetryJob, JobsType
<1>6. CASE CancelJob(j)
  <2>1. jobs' \in [Jobs -> JobRows]
    BY <1>1, <1>6, EndedType, PutEffect DEF CancelJob, Settled
  <2> QED BY <1>1, <1>6, <2>1, RequestType DEF CancelJob, JobsType
<1> QED BY <1>2, <1>3, <1>4, <1>5, <1>6

LEMMA WriteResetTyped ==
  ASSUME Typed, WriteReset
  PROVE  Typed'
<1>1. clock \in Nat /\ jobs \in [Jobs -> JobRows] /\ delivery \in [Jobs -> DeliveryStates]
      /\ seen.job \in Jobs \cup {None}
  BY DEF Typed, TypeOK, Reads
<1>2. jobs' \in [Jobs -> JobRows]
  <2>1. CASE jobs' = jobs
    BY <1>1, <2>1
  <2>2. CASE Put(seen.job, Fresh(clock))
    BY <1>1, <2>2, FreshType, NoneAssumption DEF Put
  <2>3. CASE Put(seen.job, Reset(jobs[seen.job], clock))
    <3>1. CASE seen.job \in Jobs
      BY <1>1, <2>3, <3>1, ResetType, PutEffect
    <3>2. CASE seen.job = None
      BY <1>1, <2>3, <3>2, NoneAssumption DEF Put
    <3> QED BY <1>1, <3>1, <3>2
  <2> QED BY <2>1, <2>2, <2>3 DEF WriteReset
<1>3. seen' \in Reads
  BY DEF WriteReset, NotReading, Reads, Statuses
<1>4. UNCHANGED <<clock, delivery, pc, held, outcome, retry, drafts, requests, crashes>>
  BY DEF WriteReset, lanes, bounds
<1> QED BY <1>2, <1>3, <1>4 DEF Typed, TypeOK, Holding, Busy

LEMMA ClaimTyped ==
  ASSUME Typed, NEW l \in Lanes, Claim(l)
  PROVE  Typed'
<1>1. clock \in Nat /\ JobsType /\ LanesType /\ RestType /\ jobs \in [Jobs -> JobRows]
  BY TypedParts DEF Typed, JobsType
<1>2. UNCHANGED <<clock, delivery, outcome, retry, seen, drafts, requests, crashes>>
  BY DEF Claim, bounds
<1>3. PICK at \in Nat :
        \/ jobs' = Recovered(l, at) /\ UNCHANGED <<pc, held>>
        \/ \E j \in Jobs : Grants(l, at, j)
  BY <1>1, ClaimEffect
<1>4. CASE jobs' = Recovered(l, at) /\ UNCHANGED <<pc, held>>
  <2>1. jobs' \in [Jobs -> JobRows]
    BY <1>1, <1>4, RecoveredType
  <2> QED BY <1>2, <1>4, <2>1 DEF Typed, TypeOK, Holding, Busy
<1>5. CASE \E j \in Jobs : Grants(l, at, j)
  <2>1. PICK j \in Jobs : Grants(l, at, j)
    BY <1>5
  <2>2. /\ jobs' \in [Jobs -> JobRows]
        /\ pc' \in [Lanes -> Steps] /\ held' \in [Lanes -> Claims]
        /\ held'[l].job = j
        /\ \A k \in Lanes \ {l} : pc'[k] = pc[k] /\ held'[k] = held[k]
    BY <1>1, <2>1, GrantsType
  <2>3. TypeOK'
    BY <1>2, <2>2 DEF Typed, TypeOK
  <2>4. Holding'
    <3> SUFFICES ASSUME NEW k \in Lanes, Busy(k)' PROVE held'[k].job \in Jobs
      BY DEF Holding
    <3>1. CASE k = l
      BY <2>2, <3>1
    <3>2. CASE k # l
      BY <2>2, <3>2 DEF Typed, Holding, Busy
    <3> QED BY <3>1, <3>2
  <2> QED BY <2>3, <2>4 DEF Typed
<1> QED BY <1>3, <1>4, <1>5

LEMMA RenewTyped ==
  ASSUME Typed, NEW l \in Lanes, Renew(l)
  PROVE  Typed'
<1>1. /\ clock \in Nat /\ jobs \in [Jobs -> JobRows]
      /\ held[l].job \in Jobs /\ jobs[held[l].job] \in JobRows
  BY HoldingFacts DEF Renew, Busy, Typed, TypeOK
<1>2. PICK at \in Instants :
        Put(held[l].job, [jobs[held[l].job] EXCEPT !.lease = at + Lease])
  BY DEF Renew
<1>3. at + Lease \in Times
  BY <1>1, InstantsType, NumbersAssumption DEF Times
<1>4. [jobs[held[l].job] EXCEPT !.lease = at + Lease] \in JobRows
  BY <1>1, <1>3 DEF JobRows
<1>5. jobs' \in [Jobs -> JobRows]
  BY <1>1, <1>2, <1>4, PutEffect
<1>6. UNCHANGED <<clock, delivery, pc, held, outcome, retry, seen, drafts, requests, crashes>>
  BY DEF Renew, lanes, bounds
<1> QED BY <1>5, <1>6 DEF Typed, TypeOK, Holding, Busy

(* The handler's own steps.                                                 *)
LEMMA HandlersTyped ==
  ASSUME Typed, NEW l \in Lanes, Work(l) \/ BindIntent(l) \/ Deliver(l) \/ FailRead(l)
  PROVE  Typed'
<1>1. LanesType /\ JobsType /\ clock \in Nat /\ drafts \subseteq Jobs
      /\ retry \in [Lanes -> BOOLEAN] /\ outcome \in [Lanes -> Outcomes]
      /\ crashes \in Nat
  BY TypedParts DEF Typed, TypeOK
<1>2. Busy(l) /\ held[l].job \in Jobs
  BY HoldingFacts DEF Busy, Work, BindIntent, Deliver, FailRead
<1>3. CASE Work(l)
  <2>1. PICK result \in {"done", "deferred"} \cup Failures : Finish(l, result)
    BY <1>3 DEF Work
  <2>2. result \in Outcomes
    BY JobsAssumption DEF Outcomes
  <2>3. UNCHANGED <<clock, jobs, delivery, held, retry, seen, drafts, bounds>>
    BY <1>3 DEF Work
  <2> QED BY <1>1, <1>2, <2>1, <2>2, <2>3, FinishEffect, MoveType DEF JobsType
<1>4. CASE BindIntent(l)
  <2>1. CASE Finish(l, "terminal") /\ UNCHANGED <<delivery, held, retry>>
    <3>1. UNCHANGED <<clock, jobs, delivery, held, retry, seen, drafts, bounds>>
      BY <1>4, <2>1 DEF BindIntent
    <3>2. "terminal" \in Outcomes
      BY DEF Outcomes, FailureKinds
    <3> QED BY <1>1, <1>2, <2>1, <3>1, <3>2, FinishEffect, MoveType DEF JobsType
  <2>2. CASE /\ delivery' = [delivery EXCEPT ![held[l].job] = "bound"]
             /\ Goto(l, "calling")
             /\ UNCHANGED <<held, outcome, retry>>
    <3>1. UNCHANGED <<clock, jobs, held, seen, drafts, bounds>>
      BY <1>4, <2>2 DEF BindIntent
    <3>2. JobsType'
      BY <1>1, <1>2, <2>2, <3>1 DEF JobsType, DeliveryStates
    <3>3. pc' \in [Lanes -> Steps] /\ \A k \in Lanes \ {l} : pc'[k] = pc[k]
      BY <1>1, <2>2 DEF LanesType, Goto, Steps
    <3> QED BY <1>1, <1>2, <2>2, <3>1, <3>2, <3>3, MoveType
  <2>3. CASE Rest(l) /\ UNCHANGED delivery
    <3>1. UNCHANGED <<clock, jobs, delivery, seen, drafts, requests, crashes>>
      BY <1>4, <2>3 DEF BindIntent, bounds
    <3> QED BY <1>1, <2>3, <3>1, SettleType DEF JobsType
  <2> QED BY <1>4, <2>1, <2>2, <2>3 DEF BindIntent
<1>5. CASE Deliver(l)
  <2>1. PICK result \in {"done"} \cup (Failures \ {"outage"}) : Finish(l, result)
    BY <1>5 DEF Deliver
  <2>2. result \in Outcomes
    BY JobsAssumption DEF Outcomes
  <2>3. UNCHANGED <<clock, jobs, delivery, held, retry, seen, bounds>>
    BY <1>5 DEF Deliver
  <2>4. drafts' \subseteq Jobs
    BY <1>1, <1>2, <1>5 DEF Deliver
  <2> QED BY <1>1, <1>2, <2>1, <2>2, <2>3, <2>4, FinishEffect, MoveType DEF JobsType
<1>6. CASE FailRead(l)
  <2>1. UNCHANGED <<clock, jobs, delivery, held, outcome, seen, drafts, bounds>>
    BY <1>6 DEF FailRead
  <2>2. pc' \in [Lanes -> Steps] /\ \A k \in Lanes \ {l} : pc'[k] = pc[k]
    BY <1>1, <1>6 DEF LanesType, FailRead, Goto, Steps
  <2>3. retry' \in [Lanes -> BOOLEAN]
    BY <1>1, <1>6 DEF FailRead, Retries
  <2> QED BY <1>1, <1>2, <2>1, <2>2, <2>3, MoveType DEF JobsType
<1> QED BY <1>3, <1>4, <1>5, <1>6

(* A lane settles its job and rests.                                        *)
LEMMA SettlementsTyped ==
  ASSUME Typed, NEW l \in Lanes,
         Complete(l) \/ Reschedule(l) \/ FailWrite(l) \/ FailAtomically(l) \/ Crash(l)
  PROVE  Typed'
<1>1. LanesType /\ JobsType /\ clock \in Nat /\ crashes \in Nat
      /\ jobs \in [Jobs -> JobRows] /\ delivery \in [Jobs -> DeliveryStates]
      /\ retry \in [Lanes -> BOOLEAN]
  BY TypedParts DEF Typed, TypeOK
<1>2. held[l].job \in Jobs /\ jobs[held[l].job] \in JobRows
  BY HoldingFacts DEF Busy, Complete, Reschedule, FailWrite, FailAtomically, Crash
<1>3. Rest(l) /\ UNCHANGED <<clock, seen, drafts, requests>>
  BY DEF Complete, Reschedule, FailWrite, FailAtomically, Crash, bounds
<1>4. crashes' \in Nat
  BY <1>1 DEF Complete, Reschedule, FailWrite, FailAtomically, Crash, bounds
<1>5. JobsType'
  <2>1. CASE Complete(l)
    <3>1. CASE UNCHANGED <<jobs, delivery>>
      BY <1>1, <3>1 DEF JobsType
    <3>2. CASE /\ Put(held[l].job, Ended(jobs[held[l].job], "done"))
               /\ delivery' = [delivery EXCEPT ![held[l].job] =
                                 IF held[l].job \in Deliveries THEN "delivered" ELSE @]
      <4>1. jobs' \in [Jobs -> JobRows]
        BY <1>1, <1>2, <3>2, EndedType, PutEffect DEF Settled
      <4>2. delivery' \in [Jobs -> DeliveryStates]
        BY <1>1, <1>2, <3>2 DEF DeliveryStates
      <4> QED BY <4>1, <4>2 DEF JobsType
    <3> QED BY <2>1, <3>1, <3>2 DEF Complete
  <2>2. CASE Reschedule(l)
    <3>1. delivery' = delivery
      BY <2>2 DEF Reschedule
    <3>2. CASE jobs' = jobs
      BY <1>1, <3>1, <3>2 DEF JobsType
    <3>3. CASE \E delay \in Delays :
                 Put(held[l].job, Deferred(jobs[held[l].job], clock + delay))
      <4>1. PICK delay \in Delays :
              Put(held[l].job, Deferred(jobs[held[l].job], clock + delay))
        BY <3>3
      <4>2. clock + delay \in Nat
        BY <1>1, NumbersAssumption
      <4>3. jobs' \in [Jobs -> JobRows]
        BY <1>1, <1>2, <4>1, <4>2, DeferredType, PutEffect
      <4> QED BY <1>1, <3>1, <4>3 DEF JobsType
    <3> QED BY <2>2, <3>2, <3>3 DEF Reschedule
  <2>3. CASE FailWrite(l)
    <3>1. delivery' = delivery
      BY <2>3 DEF FailWrite
    <3>2. PICK at \in Instants, delay \in Delays :
            \/ Put(held[l].job, FailedRow(jobs[held[l].job], retry[l], at + delay))
            \/ jobs' = jobs
      BY <2>3 DEF FailWrite
    <3>3. at + delay \in Nat /\ retry[l] \in BOOLEAN
      BY <1>1, InstantsType, NumbersAssumption
    <3>4. FailedRow(jobs[held[l].job], retry[l], at + delay) \in JobRows
      BY <1>2, <3>3, FailedRowType
    <3>5. jobs' \in [Jobs -> JobRows]
      BY <1>1, <1>2, <3>2, <3>4, PutEffect
    <3> QED BY <1>1, <3>1, <3>5 DEF JobsType
  <2>4. CASE FailAtomically(l)
    <3> DEFINE j == held[l].job
               requeue == Retries(j, outcome[l])
    <3>1. PICK at \in Instants, delay \in Delays :
            \/ /\ Put(j, FailedRow(jobs[j], requeue, at + delay))
               /\ delivery' = [delivery EXCEPT ![j] =
                    IF ~requeue /\ @ \in {"pending", "bound"} THEN "failed" ELSE @]
            \/ UNCHANGED <<jobs, delivery>>
      BY <2>4 DEF FailAtomically
    <3>2. requeue \in BOOLEAN
      BY DEF Retries
    <3>3. at + delay \in Nat
      BY <1>1, InstantsType, NumbersAssumption
    <3>4. j \in Jobs /\ jobs[j] \in JobRows
      BY <1>2
    <3> HIDE DEF j, requeue
    <3>5. FailedRow(jobs[j], requeue, at + delay) \in JobRows
      BY <3>2, <3>3, <3>4, FailedRowType
    <3>6. jobs' \in [Jobs -> JobRows]
      BY <1>1, <3>1, <3>4, <3>5, PutEffect
    <3>7. delivery' \in [Jobs -> DeliveryStates]
      BY <1>1, <3>1, <3>4 DEF DeliveryStates
    <3> QED BY <3>6, <3>7 DEF JobsType
  <2>5. CASE Crash(l)
    BY <1>1, <2>5 DEF Crash, JobsType
  <2> QED BY <2>1, <2>2, <2>3, <2>4, <2>5
<1> QED BY <1>3, <1>4, <1>5, SettleType

LEMMA InitTyped == Init => Typed
<1> SUFFICES ASSUME Init PROVE Typed
  OBVIOUS
<1>1. jobs \in [Jobs -> JobRows]
  BY AbsentType DEF Init
<1>2. /\ delivery \in [Jobs -> DeliveryStates] /\ pc \in [Lanes -> Steps]
      /\ outcome \in [Lanes -> Outcomes] /\ retry \in [Lanes -> BOOLEAN]
      /\ held \in [Lanes -> Claims]
  BY DEF Init, DeliveryStates, Steps, Outcomes, Claims, NoClaim
<1>3. clock \in Nat /\ seen \in Reads /\ drafts \subseteq Jobs /\ requests \in Nat /\ crashes \in Nat
  BY DEF Init, Reads, NotReading, Statuses
<1>4. Holding
  BY DEF Init, Holding, Busy
<1> QED BY <1>1, <1>2, <1>3, <1>4 DEF Typed, TypeOK

(* Every step keeps the types.                                              *)
LEMMA StepTyped ==
  ASSUME Typed, [Next]_vars
  PROVE  Typed'
<1>1. CASE \E j \in Jobs : \/ Enqueue(j) \/ EnqueueOrReset(j) \/ ReadForReset(j)
                           \/ RetryJob(j) \/ CancelJob(j)
  BY <1>1, RequestsTyped
<1>2. CASE WriteReset
  BY <1>2, WriteResetTyped
<1>3. ASSUME NEW l \in Lanes, Claim(l) \/ Renew(l) \/ Run(l) \/ Crash(l)
      PROVE  Typed'
  BY <1>3, ClaimTyped, RenewTyped, HandlersTyped, SettlementsTyped DEF Run
<1>4. CASE Tick
  <2>1. clock' \in Nat
    BY <1>4 DEF Tick, Typed, TypeOK
  <2> QED BY <1>4, <2>1 DEF Tick, Typed, TypeOK, Holding, Busy, lanes, bounds
<1>5. CASE UNCHANGED vars
  BY <1>5 DEF vars, Typed, TypeOK, Holding, Busy, lanes, bounds
<1> QED BY <1>1, <1>2, <1>3, <1>4, <1>5 DEF Next

(* Every variable has its type in every reachable state.                    *)
THEOREM Typing == Spec => []TypeOK
<1>1. Typed /\ [Next]_vars => Typed'
  BY StepTyped
<1>2. Typed => TypeOK
  BY DEF Typed
<1> QED BY InitTyped, <1>1, <1>2, PTL DEF Spec

(***************************************************************************)
(* Rows and leases.  A lane's claim is tied to its row by the generation,  *)
(* which only grows: a grant takes a generation nobody held before, and a  *)
(* row that stops running runs again only under a later one.               *)
(***************************************************************************)
Ordinary == Jobs \ (Deliveries \cup Forwarding)

RowOK(j, r) ==
  /\ r.status = "absent" => r.gen = 0
  /\ (r.status = "running") <=> (r.owner # None)
  /\ (r.status = "running") <=> (r.lease # Never)
  /\ r.status \in Active => r.available # Never
  /\ r.status \in Settled => r.available = Never
  /\ r.status = "running" => r.attempts >= 1
  /\ j \in Ordinary =>
       /\ r.attempts <= MaxAttempts
       /\ r.status = "pending" => r.attempts < MaxAttempts

Moves(r, q) ==
  /\ q.gen >= r.gen
  /\ q.status = "running" /\ q.gen = r.gen =>
       r.status = "running" /\ q.attempts = r.attempts

LEMMA MovesTrivially ==
  ASSUME NEW r \in JobRows
  PROVE  Moves(r, r)
  BY DEF Moves, JobRows

LEMMA QueuedOK ==
  ASSUME NEW j \in Jobs, NEW r \in JobRows, NEW at \in Nat,
         j \in Ordinary => r.attempts < MaxAttempts
  PROVE  RowOK(j, Queued(r, at)) /\ Moves(r, Queued(r, at))
<1> DEFINE q == Queued(r, at)
<1>1. /\ q.status = "pending" /\ q.available = at /\ q.owner = None
      /\ q.lease = Never /\ q.attempts = r.attempts /\ q.gen = r.gen
  BY QueuedType
<1>2. r.gen \in Nat /\ r.attempts \in Nat
  BY DEF JobRows
<1> HIDE DEF q
<1>3. RowOK(j, q)
  BY <1>1, <1>2, NumbersAssumption DEF RowOK, Active, Settled, Never
<1>4. Moves(r, q)
  BY <1>1, <1>2 DEF Moves
<1> QED BY <1>3, <1>4 DEF q

LEMMA EndedOK ==
  ASSUME NEW j \in Jobs, NEW r \in JobRows, NEW status \in Settled,
         j \in Ordinary => r.attempts <= MaxAttempts
  PROVE  RowOK(j, Ended(r, status)) /\ Moves(r, Ended(r, status))
<1> DEFINE q == Ended(r, status)
<1>1. /\ q.status = status /\ q.available = Never /\ q.owner = None
      /\ q.lease = Never /\ q.attempts = r.attempts /\ q.gen = r.gen
  BY EndedType
<1>2. r.gen \in Nat /\ r.attempts \in Nat
  BY DEF JobRows
<1> HIDE DEF q
<1>3. RowOK(j, q)
  BY <1>1, <1>2, NumbersAssumption DEF RowOK, Active, Settled
<1>4. Moves(r, q)
  BY <1>1, <1>2 DEF Moves, Settled
<1> QED BY <1>3, <1>4 DEF q

LEMMA ResetOK ==
  ASSUME NEW j \in Jobs, NEW r \in JobRows, NEW at \in Nat
  PROVE  RowOK(j, Reset(r, at)) /\ Moves(r, Reset(r, at))
<1> DEFINE q == Reset(r, at)
<1>1. /\ q.status = "pending" /\ q.available = at /\ q.owner = None
      /\ q.lease = Never /\ q.attempts = 0 /\ q.gen = r.gen + 1
  BY ResetType
<1>2. r.gen \in Nat
  BY DEF JobRows
<1> HIDE DEF q
<1>3. RowOK(j, q)
  BY <1>1, NumbersAssumption DEF RowOK, Active, Settled, Never
<1>4. Moves(r, q)
  BY <1>1, <1>2 DEF Moves
<1> QED BY <1>3, <1>4 DEF q

LEMMA RetriedOK ==
  ASSUME NEW j \in Jobs, NEW r \in JobRows, NEW at \in Nat
  PROVE  LET q == [Queued(r, at) EXCEPT !.attempts = 0]
         IN  RowOK(j, q) /\ Moves(r, q)
<1> DEFINE p == Queued(r, at)
           q == [p EXCEPT !.attempts = 0]
<1>1. /\ p \in JobRows /\ p.status = "pending" /\ p.available = at /\ p.owner = None
      /\ p.lease = Never /\ p.gen = r.gen
  BY QueuedType
<1> HIDE DEF p
<1>2. /\ q.status = "pending" /\ q.available = at /\ q.owner = None
      /\ q.lease = Never /\ q.attempts = 0 /\ q.gen = r.gen
  BY <1>1 DEF JobRows
<1>3. r.gen \in Nat
  BY DEF JobRows
<1> HIDE DEF q
<1>4. RowOK(j, q)
  BY <1>2, NumbersAssumption DEF RowOK, Active, Settled, Never
<1>5. Moves(r, q)
  BY <1>2, <1>3 DEF Moves
<1> QED BY <1>4, <1>5 DEF p, q

LEMMA DeferredOK ==
  ASSUME NEW j \in Jobs, NEW r \in JobRows, NEW at \in Nat, RowOK(j, r),
         r.status = "running"
  PROVE  RowOK(j, Deferred(r, at)) /\ Moves(r, Deferred(r, at))
<1> DEFINE q == Deferred(r, at)
<1>1. /\ q.status = "pending" /\ q.available = at /\ q.owner = None /\ q.lease = Never
      /\ q.attempts = (IF r.attempts > 0 THEN r.attempts - 1 ELSE 0) /\ q.gen = r.gen
  BY DeferredType
<1>2. /\ r.gen \in Nat /\ r.attempts \in Nat /\ r.attempts >= 1
      /\ j \in Ordinary => r.attempts <= MaxAttempts
  BY DEF JobRows, RowOK
<1> HIDE DEF q
<1>3. RowOK(j, q)
  BY <1>1, <1>2, NumbersAssumption DEF RowOK, Active, Settled, Never
<1>4. Moves(r, q)
  BY <1>1, <1>2 DEF Moves
<1> QED BY <1>3, <1>4 DEF q

LEMMA GrantedOK ==
  ASSUME NEW j \in Jobs, NEW r \in JobRows, NEW l \in Lanes, NEW at \in Nat,
         RowOK(j, r), r.status = "pending"
  PROVE  /\ RowOK(j, Granted(r, l, at)) /\ Moves(r, Granted(r, l, at))
         /\ Granted(r, l, at).gen > r.gen
<1> DEFINE q == Granted(r, l, at)
<1>1. /\ q.status = "running" /\ q.available = r.available /\ q.owner = OwnerOf[l]
      /\ q.lease = at + Lease /\ q.attempts = r.attempts + 1 /\ q.gen = r.gen + 1
  BY GrantedType
<1>2. /\ r.gen \in Nat /\ r.attempts \in Nat /\ r.available # Never
      /\ j \in Ordinary => r.attempts < MaxAttempts
  BY DEF JobRows, RowOK, Active
<1>3. OwnerOf[l] # None /\ at + Lease # Never
  BY JobsAssumption, NoneAssumption, NumbersAssumption DEF Never
<1> HIDE DEF q
<1>4. RowOK(j, q)
  BY <1>1, <1>2, <1>3, NumbersAssumption DEF RowOK, Active, Settled
<1>5. Moves(r, q) /\ q.gen > r.gen
  BY <1>1, <1>2 DEF Moves
<1> QED BY <1>4, <1>5 DEF q

LEMMA RenewedOK ==
  ASSUME NEW j \in Jobs, NEW r \in JobRows, NEW until \in Nat, RowOK(j, r),
         r.status = "running"
  PROVE  LET q == [r EXCEPT !.lease = until]
         IN  RowOK(j, q) /\ Moves(r, q)
<1> DEFINE q == [r EXCEPT !.lease = until]
<1>1. /\ q.status = "running" /\ q.available = r.available /\ q.owner = r.owner
      /\ q.lease = until /\ q.attempts = r.attempts /\ q.gen = r.gen
  BY DEF JobRows
<1>2. r.gen \in Nat /\ until # Never
  BY DEF JobRows, Never
<1> HIDE DEF q
<1>3. RowOK(j, q)
  BY <1>1, <1>2 DEF RowOK, Active, Settled
<1>4. Moves(r, q)
  BY <1>1, <1>2 DEF Moves
<1> QED BY <1>3, <1>4 DEF q

LEMMA FreshOK ==
  ASSUME NEW j \in Jobs, NEW r \in JobRows, NEW at \in Nat, RowOK(j, r),
         r.status = "absent"
  PROVE  RowOK(j, Fresh(at)) /\ Moves(r, Fresh(at))
<1>1. Absent.attempts = 0 /\ Absent.gen = 0 /\ Absent \in JobRows
  BY AbsentType DEF Absent
<1>2. RowOK(j, Fresh(at))
  BY <1>1, QueuedOK, NumbersAssumption DEF Fresh
<1>3. Fresh(at).status = "pending" /\ Fresh(at).gen = 0
  BY <1>1, QueuedType DEF Fresh
<1>4. r.gen = 0
  BY DEF RowOK
<1> QED BY <1>2, <1>3, <1>4 DEF Moves

(* The rows of the table, and failJob's decision about a row it has read.   *)
RowsOK == \A j \in Jobs : RowOK(j, jobs[j])

OnlyDeliveriesBound == \A j \in Jobs \ Deliveries : delivery[j] # "bound"

Verdict(r, j, kind) ==
  /\ kind # "terminal"
  /\ PastMaxAttempts(j, kind) \/ r.attempts < MaxAttempts

Decided ==
  \A l \in Lanes : pc[l] = "failing" =>
    /\ held[l].job \notin Deliveries \cup Forwarding
    /\ jobs[held[l].job].gen = held[l].gen /\ jobs[held[l].job].status = "running"
         => retry[l] = Verdict(jobs[held[l].job], held[l].job, outcome[l])

RowsMove == \A j \in Jobs : RowOK(j, jobs'[j]) /\ Moves(jobs[j], jobs'[j])

LEMMA PutMoves ==
  ASSUME Typed, RowsOK, NEW j \in Jobs, NEW r \in JobRows, Put(j, r),
         RowOK(j, r), Moves(jobs[j], r)
  PROVE  RowsMove
<1>1. jobs \in [Jobs -> JobRows]
  BY DEF Typed, TypeOK
<1>2. jobs'[j] = r /\ \A k \in Jobs \ {j} : jobs'[k] = jobs[k]
  BY <1>1, PutEffect
<1>3. \A k \in Jobs \ {j} : RowOK(k, jobs'[k]) /\ Moves(jobs[k], jobs'[k])
  BY <1>1, <1>2, MovesTrivially DEF RowsOK
<1> QED BY <1>2, <1>3 DEF RowsMove

LEMMA KeepMoves ==
  ASSUME Typed, RowsOK, UNCHANGED jobs
  PROVE  RowsMove
<1>1. jobs \in [Jobs -> JobRows]
  BY DEF Typed, TypeOK
<1> QED BY <1>1, MovesTrivially DEF RowsOK, RowsMove

LEMMA RequestsMove ==
  ASSUME Typed, RowsOK,
         NEW j \in Jobs,
         Enqueue(j) \/ EnqueueOrReset(j) \/ ReadForReset(j) \/ RetryJob(j) \/ CancelJob(j)
  PROVE  RowsMove
<1>1. clock \in Nat /\ jobs[j] \in JobRows /\ RowOK(j, jobs[j])
  BY DEF Typed, TypeOK, RowsOK
<1>2. CASE Enqueue(j)
  BY <1>1, <1>2, FreshOK, FreshType, PutMoves DEF Enqueue
<1>3. CASE EnqueueOrReset(j)
  BY <1>1, <1>3, ResetOK, ResetType, PutMoves DEF EnqueueOrReset
<1>4. CASE ReadForReset(j)
  BY <1>4, KeepMoves DEF ReadForReset
<1>5. CASE RetryJob(j)
  <2>1. [Queued(jobs[j], clock) EXCEPT !.attempts = 0] \in JobRows
    BY <1>1, QueuedType DEF JobRows
  <2> QED BY <1>1, <1>5, <2>1, RetriedOK, PutMoves DEF RetryJob
<1>6. CASE CancelJob(j)
  <2>1. j \in Ordinary => jobs[j].attempts <= MaxAttempts
    BY <1>1 DEF RowOK
  <2>2. "cancelled" \in Settled
    BY DEF Settled
  <2> QED BY <1>1, <1>6, <2>1, <2>2, EndedOK, EndedType, PutMoves DEF CancelJob
<1> QED BY <1>2, <1>3, <1>4, <1>5, <1>6

LEMMA WriteResetMoves ==
  ASSUME Typed, RowsOK, WriteReset
  PROVE  RowsMove
<1>1. clock \in Nat /\ jobs \in [Jobs -> JobRows] /\ seen.job \in Jobs \cup {None}
  BY DEF Typed, TypeOK, Reads
<1>2. CASE seen.job \in Jobs
  <2>1. jobs[seen.job] \in JobRows /\ RowOK(seen.job, jobs[seen.job])
    BY <1>1, <1>2 DEF RowsOK
  <2>2. CASE UNCHANGED jobs
    BY <2>2, KeepMoves
  <2>3. CASE jobs[seen.job].status = "absent" /\ Put(seen.job, Fresh(clock))
    BY <1>1, <1>2, <2>1, <2>3, FreshOK, FreshType, PutMoves
  <2>4. CASE Put(seen.job, Reset(jobs[seen.job], clock))
    BY <1>1, <1>2, <2>1, <2>4, ResetOK, ResetType, PutMoves
  <2> QED BY <2>2, <2>3, <2>4 DEF WriteReset
<1>3. CASE seen.job = None
  <2>1. jobs' = jobs
    BY <1>1, <1>3, NoneAssumption DEF WriteReset, Put
  <2> QED BY <2>1, KeepMoves
<1> QED BY <1>1, <1>2, <1>3

LEMMA RecoveredMoves ==
  ASSUME Typed, RowsOK, OnlyDeliveriesBound, NEW l \in Lanes, NEW at \in Nat, NEW j \in Jobs
  PROVE  /\ RowOK(j, Recovered(l, at)[j]) /\ Moves(jobs[j], Recovered(l, at)[j])
         /\ Recovered(l, at)[j].status = "running" => jobs[j].status = "running"
<1>1. jobs \in [Jobs -> JobRows] /\ jobs[j] \in JobRows /\ RowOK(j, jobs[j])
  BY DEF Typed, TypeOK, RowsOK
<1>2. CASE Recovered(l, at)[j] = jobs[j]
  BY <1>1, <1>2, MovesTrivially
<1>3. CASE ShouldRetry(j) /\ Recovered(l, at)[j] = Queued(jobs[j], at)
  <2>1. j \in Ordinary => jobs[j].attempts < MaxAttempts
    BY <1>3 DEF ShouldRetry, SideEffectMayExist, OnlyDeliveriesBound, Ordinary
  <2> QED BY <1>1, <1>3, <2>1, QueuedOK, QueuedType
<1>4. CASE Recovered(l, at)[j] = Ended(jobs[j], "dead_letter")
  <2>1. j \in Ordinary => jobs[j].attempts <= MaxAttempts
    BY <1>1 DEF RowOK
  <2>2. "dead_letter" \in Settled
    BY DEF Settled
  <2>3. Ended(jobs[j], "dead_letter").status = "dead_letter"
    BY <1>1, <2>2, EndedType
  <2> QED BY <1>1, <1>4, <2>1, <2>2, <2>3, EndedOK
<1> QED BY <1>1, <1>2, <1>3, <1>4, RecoveredEffect

LEMMA ClaimMoves ==
  ASSUME Typed, RowsOK, OnlyDeliveriesBound, NEW l \in Lanes, Claim(l)
  PROVE  RowsMove
<1>1. clock \in Nat /\ jobs \in [Jobs -> JobRows] /\ JobsType /\ LanesType
  BY TypedParts DEF Typed, TypeOK
<1>2. PICK at \in Nat :
        \/ jobs' = Recovered(l, at) /\ UNCHANGED <<pc, held>>
        \/ \E j \in Jobs : Grants(l, at, j)
  BY <1>1, ClaimEffect
<1>3. \A k \in Jobs : /\ RowOK(k, Recovered(l, at)[k])
                      /\ Moves(jobs[k], Recovered(l, at)[k])
  BY RecoveredMoves
<1>4. CASE jobs' = Recovered(l, at)
  BY <1>3, <1>4 DEF RowsMove
<1>5. ASSUME NEW j \in Jobs, Grants(l, at, j) PROVE RowsMove
  <2> DEFINE q == Recovered(l, at)[j]
  <2>1. /\ jobs'[j] = Granted(q, l, at)
        /\ \A k \in Jobs \ {j} : jobs'[k] = Recovered(l, at)[k]
    BY <1>1, <1>5, GrantsType
  <2>2. q \in JobRows /\ q.status = "pending"
    BY <1>1, <1>5, RecoveredType DEF Grants
  <2>3. RowOK(j, q) /\ Moves(jobs[j], q) /\ jobs[j].gen \in Nat
    BY <1>1, <1>3 DEF JobRows
  <2> HIDE DEF q
  <2>4. RowOK(j, Granted(q, l, at)) /\ Granted(q, l, at).gen > q.gen
    BY <2>2, <2>3, GrantedOK
  <2>5. Granted(q, l, at).gen \in Nat /\ q.gen \in Nat
    BY <2>2, GrantedType DEF JobRows
  <2>6. Moves(jobs[j], Granted(q, l, at))
    BY <2>3, <2>4, <2>5 DEF Moves
  <2> QED BY <1>3, <2>1, <2>4, <2>6 DEF RowsMove
<1> QED BY <1>2, <1>4, <1>5

LEMMA RenewMoves ==
  ASSUME Typed, RowsOK, NEW l \in Lanes, Renew(l)
  PROVE  RowsMove
<1> DEFINE j == held[l].job
<1>1. clock \in Nat /\ j \in Jobs /\ jobs[j] \in JobRows
  BY HoldingFacts DEF Renew, Busy, Typed, TypeOK
<1>2. PICK at \in Instants :
        Fenced(l, at) /\ Put(j, [jobs[j] EXCEPT !.lease = at + Lease])
  BY DEF Renew
<1>3. jobs[j].status = "running"
  BY <1>2 DEF Fenced
<1> HIDE DEF j
<1>4. at + Lease \in Nat
  BY <1>1, InstantsType, NumbersAssumption
<1>5. [jobs[j] EXCEPT !.lease = at + Lease] \in JobRows
  BY <1>1, <1>4 DEF JobRows, Times
<1>6. RowOK(j, jobs[j])
  BY <1>1 DEF RowsOK
<1> QED BY <1>1, <1>2, <1>3, <1>4, <1>5, <1>6, RenewedOK, PutMoves

LEMMA FailedOK ==
  ASSUME NEW j \in Jobs, NEW r \in JobRows, NEW requeue \in BOOLEAN, NEW at \in Nat,
         RowOK(j, r), j \in Ordinary /\ requeue => r.attempts < MaxAttempts
  PROVE  RowOK(j, FailedRow(r, requeue, at)) /\ Moves(r, FailedRow(r, requeue, at))
<1>1. j \in Ordinary => r.attempts <= MaxAttempts
  BY DEF RowOK
<1>2. "dead_letter" \in Settled
  BY DEF Settled
<1>3. CASE requeue
  BY <1>3, QueuedOK DEF FailedRow
<1>4. CASE ~requeue
  BY <1>1, <1>2, <1>4, EndedOK DEF FailedRow
<1> QED BY <1>3, <1>4

LEMMA SettlementsMove ==
  ASSUME Typed, RowsOK, Decided, NEW l \in Lanes,
         Complete(l) \/ Reschedule(l) \/ FailWrite(l) \/ FailAtomically(l)
  PROVE  RowsMove
<1> DEFINE j == held[l].job
<1>1. /\ clock \in Nat /\ j \in Jobs /\ jobs[j] \in JobRows /\ RowOK(j, jobs[j])
      /\ retry \in [Lanes -> BOOLEAN]
  BY HoldingFacts DEF Complete, Reschedule, FailWrite, FailAtomically, Busy, Typed, TypeOK, RowsOK
<1>2. CASE UNCHANGED jobs
  BY <1>2, KeepMoves
<1>3. CASE Complete(l) /\ Put(j, Ended(jobs[j], "done"))
  <2>1. "done" \in Settled
    BY DEF Settled
  <2>2. j \in Ordinary => jobs[j].attempts <= MaxAttempts
    BY <1>1 DEF RowOK
  <2> HIDE DEF j
  <2> QED BY <1>1, <1>3, <2>1, <2>2, EndedOK, EndedType, PutMoves
<1>4. CASE Reschedule(l) /\ ~UNCHANGED jobs
  <2>1. PICK delay \in Delays : Put(j, Deferred(jobs[j], clock + delay))
    BY <1>4 DEF Reschedule
  <2>2. jobs[j].status = "running"
    BY <1>4 DEF Reschedule, OwnedBy
  <2>3. clock + delay \in Nat
    BY <1>1, NumbersAssumption
  <2> HIDE DEF j
  <2> QED BY <1>1, <2>1, <2>2, <2>3, DeferredOK, DeferredType, PutMoves
<1>5. CASE FailWrite(l) /\ ~UNCHANGED jobs
  <2>1. PICK at \in Instants, delay \in Delays :
          Fenced(l, at) /\ Put(j, FailedRow(jobs[j], retry[l], at + delay))
    BY <1>5 DEF FailWrite
  <2>2. at + delay \in Nat /\ retry[l] \in BOOLEAN
    BY <1>1, InstantsType, NumbersAssumption
  <2>3. pc[l] = "failing" /\ jobs[j].gen = held[l].gen /\ jobs[j].status = "running"
    BY <1>5, <2>1 DEF FailWrite, Fenced
  <2>4. j \in Ordinary /\ retry[l] => jobs[j].attempts < MaxAttempts
    BY <2>3 DEF Decided, Verdict, PastMaxAttempts, Ordinary
  <2> HIDE DEF j
  <2> QED BY <1>1, <2>1, <2>2, <2>4, FailedOK, FailedRowType, PutMoves
<1>6. CASE FailAtomically(l) /\ ~UNCHANGED jobs
  <2>1. PICK at \in Instants, delay \in Delays :
          Put(j, FailedRow(jobs[j], Retries(j, outcome[l]), at + delay))
    BY <1>6 DEF FailAtomically
  <2>2. at + delay \in Nat /\ Retries(j, outcome[l]) \in BOOLEAN
    BY <1>1, InstantsType, NumbersAssumption DEF Retries
  <2>3. j \notin Ordinary
    BY <1>6 DEF FailAtomically, Ordinary
  <2> DEFINE requeue == Retries(j, outcome[l])
  <2>4. requeue \in BOOLEAN /\ Put(j, FailedRow(jobs[j], requeue, at + delay))
    BY <2>1, <2>2
  <2> HIDE DEF j, requeue
  <2> QED BY <1>1, <2>2, <2>3, <2>4, FailedOK, FailedRowType, PutMoves
<1>7. CASE Complete(l)
  BY <1>2, <1>3, <1>7 DEF Complete
<1> QED BY <1>2, <1>4, <1>5, <1>6, <1>7

LEMMA StepMovesRows ==
  ASSUME Typed, RowsOK, OnlyDeliveriesBound, Decided, [Next]_vars
  PROVE  RowsMove
<1>1. CASE \E j \in Jobs : \/ Enqueue(j) \/ EnqueueOrReset(j) \/ ReadForReset(j)
                           \/ RetryJob(j) \/ CancelJob(j)
  BY <1>1, RequestsMove
<1>2. CASE WriteReset
  BY <1>2, WriteResetMoves
<1>3. ASSUME NEW l \in Lanes, Claim(l) \/ Renew(l) \/ Run(l) \/ Crash(l)
      PROVE  RowsMove
  <2>1. CASE Claim(l)
    BY <2>1, ClaimMoves
  <2>2. CASE Renew(l)
    BY <2>2, RenewMoves
  <2>3. CASE Work(l) \/ BindIntent(l) \/ Deliver(l) \/ FailRead(l) \/ Crash(l)
    BY <2>3, KeepMoves DEF Work, BindIntent, Deliver, FailRead, Crash
  <2>4. CASE Complete(l) \/ Reschedule(l) \/ FailWrite(l) \/ FailAtomically(l)
    BY <2>4, SettlementsMove
  <2> QED BY <1>3, <2>1, <2>2, <2>3, <2>4 DEF Run
<1>4. CASE Tick \/ UNCHANGED vars
  BY <1>4, KeepMoves DEF Tick, vars
<1> QED BY <1>1, <1>2, <1>3, <1>4 DEF Next

(* The lanes: a lane keeps its claim, rests, or takes a new one.            *)
Keeps(l) ==
  /\ Busy(l)' => Busy(l) /\ held'[l] = held[l]
  /\ pc'[l] = "failing" =>
       \/ pc[l] = "failing" /\ retry'[l] = retry[l] /\ outcome'[l] = outcome[l]
       \/ FailRead(l)

Takes(l) ==
  LET j == held'[l].job
  IN  /\ j \in Jobs /\ pc'[l] = "working"
      /\ held'[l].gen = jobs'[j].gen /\ jobs'[j].gen > jobs[j].gen

LEMMA RestKeeps ==
  ASSUME LanesType, NEW l \in Lanes, Rest(l)
  PROVE  \A k \in Lanes : Keeps(k)
<1>1. CASE Busy(l)
  BY RestEffect, <1>1 DEF Keeps, Busy
<1>2. CASE ~Busy(l)
  BY RestEffect, <1>2 DEF Keeps, Busy
<1> QED BY <1>1, <1>2

LEMMA StillKeeps ==
  ASSUME UNCHANGED lanes
  PROVE  \A k \in Lanes : Keeps(k)
  BY DEF lanes, Keeps, Busy

LEMMA HandlersKeep ==
  ASSUME LanesType, NEW l \in Lanes, Work(l) \/ BindIntent(l) \/ Deliver(l) \/ FailRead(l)
  PROVE  \A k \in Lanes : Keeps(k)
<1>1. CASE Rest(l)
  BY <1>1, RestKeeps
<1>2. CASE ~Rest(l)
  <2>1. Busy(l) /\ held' = held
    BY <1>2 DEF Busy, Work, BindIntent, Deliver, FailRead
  <2>2. \A k \in Lanes \ {l} : pc'[k] = pc[k] /\ retry'[k] = retry[k] /\ outcome'[k] = outcome[k]
    BY <1>2 DEF LanesType, Work, BindIntent, Deliver, FailRead, Finish, Goto
  <2>3. pc'[l] = "failing" => FailRead(l)
    BY <1>2 DEF LanesType, Work, BindIntent, Deliver, Finish, Goto
  <2> QED BY <2>1, <2>2, <2>3 DEF Keeps, Busy
<1> QED BY <1>1, <1>2

LEMMA StepMovesLanes ==
  ASSUME Typed, RowsOK, OnlyDeliveriesBound, [Next]_vars
  PROVE  \/ \A k \in Lanes : Keeps(k)
         \/ \E l \in Lanes : Takes(l) /\ \A k \in Lanes \ {l} : Keeps(k)
<1>1. LanesType /\ JobsType /\ clock \in Nat /\ jobs \in [Jobs -> JobRows]
  BY TypedParts DEF Typed, TypeOK
<1>2. ASSUME NEW l \in Lanes, Claim(l)
      PROVE  \/ \A k \in Lanes : Keeps(k)
             \/ Takes(l) /\ \A k \in Lanes \ {l} : Keeps(k)
  <2>1. PICK at \in Nat :
          \/ jobs' = Recovered(l, at) /\ UNCHANGED <<pc, held>>
          \/ \E j \in Jobs : Grants(l, at, j)
    BY <1>1, <1>2, ClaimEffect
  <2>2. UNCHANGED <<outcome, retry>>
    BY <1>2 DEF Claim
  <2>3. CASE UNCHANGED <<pc, held>>
    BY <2>2, <2>3, StillKeeps DEF lanes
  <2>4. ASSUME NEW j \in Jobs, Grants(l, at, j)
        PROVE  Takes(l) /\ \A k \in Lanes \ {l} : Keeps(k)
    <3> DEFINE q == Recovered(l, at)[j]
    <3>1. /\ jobs'[j] = Granted(q, l, at)
          /\ pc'[l] = "working" /\ held'[l].job = j /\ held'[l].gen = q.gen + 1
          /\ \A k \in Lanes \ {l} : pc'[k] = pc[k] /\ held'[k] = held[k]
      BY <1>1, <2>4, GrantsType
    <3>2. q \in JobRows /\ Granted(q, l, at).gen = q.gen + 1
      BY <1>1, RecoveredType, GrantedType
    <3>3. Moves(jobs[j], q) /\ jobs[j].gen \in Nat /\ q.gen \in Nat
      BY <1>1, <3>2, RecoveredMoves DEF JobRows
    <3> HIDE DEF q
    <3>4. Takes(l)
      BY <3>1, <3>2, <3>3 DEF Takes, Moves
    <3>5. \A k \in Lanes \ {l} : Keeps(k)
      BY <2>2, <3>1 DEF Keeps, Busy
    <3> QED BY <3>4, <3>5
  <2> QED BY <2>1, <2>3, <2>4
<1>3. ASSUME NEW l \in Lanes, Work(l) \/ BindIntent(l) \/ Deliver(l) \/ FailRead(l)
      PROVE  \A k \in Lanes : Keeps(k)
  BY <1>1, <1>3, HandlersKeep
<1>4. ASSUME NEW l \in Lanes,
             Complete(l) \/ Reschedule(l) \/ FailWrite(l) \/ FailAtomically(l) \/ Crash(l)
      PROVE  \A k \in Lanes : Keeps(k)
  BY <1>1, <1>4, RestKeeps DEF Complete, Reschedule, FailWrite, FailAtomically, Crash
<1>5. ASSUME NEW l \in Lanes, Renew(l)
      PROVE  \A k \in Lanes : Keeps(k)
  BY <1>5, StillKeeps DEF Renew
<1>6. CASE \/ \E j \in Jobs : \/ Enqueue(j) \/ EnqueueOrReset(j) \/ ReadForReset(j)
                              \/ RetryJob(j) \/ CancelJob(j)
           \/ WriteReset \/ Tick \/ UNCHANGED vars
  BY <1>6, StillKeeps DEF Enqueue, EnqueueOrReset, ReadForReset, RetryJob, CancelJob,
                          WriteReset, Tick, vars
<1> QED BY <1>2, <1>3, <1>4, <1>5, <1>6 DEF Next, Run

(* A claim's generation is one its job has had, and no two lanes hold the   *)
(* same generation of a job.                                                *)
Tracked == \A l \in Lanes : Busy(l) => held[l].gen <= jobs[held[l].job].gen

Unique ==
  \A k, l \in Lanes :
    Busy(k) /\ Busy(l) /\ held[k] = held[l] => k = l

Leased ==
  /\ Typed /\ RowsOK /\ OnlyDeliveriesBound
  /\ Decided /\ Tracked /\ Unique

LEMMA StepTracked ==
  ASSUME Leased, [Next]_vars
  PROVE  Tracked' /\ Unique'
<1>1. Typed' /\ RowsMove
  BY StepTyped, StepMovesRows DEF Leased
<1>2. /\ jobs \in [Jobs -> JobRows] /\ held \in [Lanes -> Claims]
      /\ jobs' \in [Jobs -> JobRows] /\ held' \in [Lanes -> Claims]
  BY <1>1 DEF Leased, Typed, TypeOK
<1>3. \A j \in Jobs : jobs'[j].gen >= jobs[j].gen /\ jobs[j].gen \in Nat /\ jobs'[j].gen \in Nat
  BY <1>1, <1>2 DEF RowsMove, Moves, JobRows
<1>4. \A l \in Lanes : held[l].gen \in Nat
  BY <1>2 DEF Claims
<1>5. \A l \in Lanes : Keeps(l) /\ Busy(l)' =>
        /\ Busy(l) /\ held'[l] = held[l] /\ held[l].job \in Jobs
        /\ held[l].gen <= jobs[held[l].job].gen
  BY DEF Keeps, Leased, Typed, Holding, Tracked
<1>6. \A l \in Lanes : Keeps(l) /\ Busy(l)' => held'[l].gen <= jobs'[held'[l].job].gen
  BY <1>3, <1>4, <1>5
<1>7. CASE \A k \in Lanes : Keeps(k)
  <2>1. Tracked'
    BY <1>6, <1>7 DEF Tracked
  <2>2. Unique'
    BY <1>5, <1>7 DEF Leased, Unique
  <2> QED BY <2>1, <2>2
<1>8. ASSUME NEW l \in Lanes, Takes(l), \A k \in Lanes \ {l} : Keeps(k)
      PROVE  Tracked' /\ Unique'
  <2>1. /\ held'[l].job \in Jobs /\ held'[l].gen = jobs'[held'[l].job].gen
        /\ held'[l].gen > jobs[held'[l].job].gen
    BY <1>8 DEF Takes
  <2>2. held'[l].gen <= jobs'[held'[l].job].gen
    BY <1>3, <2>1
  <2>3. Tracked'
    BY <1>6, <1>8, <2>2 DEF Tracked
  <2>4. \A k \in Lanes \ {l} : Busy(k)' => held'[k] # held'[l]
    BY <1>3, <1>4, <1>5, <1>8, <2>1
  <2>5. Unique'
    <3> SUFFICES ASSUME NEW k \in Lanes, NEW m \in Lanes, Busy(k)', Busy(m)', held'[k] = held'[m]
                 PROVE  k = m
      BY DEF Unique
    <3>1. CASE k # l /\ m # l
      BY <1>5, <1>8, <3>1 DEF Leased, Unique
    <3>2. CASE k = l \/ m = l
      BY <2>4, <3>2
    <3> QED BY <3>1, <3>2
  <2> QED BY <2>3, <2>5
<1>9. Typed /\ RowsOK /\ OnlyDeliveriesBound
  BY DEF Leased
<1> QED BY <1>7, <1>8, <1>9, StepMovesLanes

LEMMA StepDecided ==
  ASSUME Leased, [Next]_vars
  PROVE  Decided'
<1> SUFFICES ASSUME NEW l \in Lanes, pc'[l] = "failing"
             PROVE  /\ held'[l].job \notin Deliveries \cup Forwarding
                    /\ jobs'[held'[l].job].gen = held'[l].gen
                         /\ jobs'[held'[l].job].status = "running"
                         => retry'[l] = Verdict(jobs'[held'[l].job], held'[l].job, outcome'[l])
  BY DEF Decided
<1>1. Typed' /\ RowsMove
  BY StepTyped, StepMovesRows DEF Leased
<1>2. Keeps(l)
  BY StepMovesLanes DEF Leased, Takes
<1>3. Busy(l) /\ held'[l] = held[l] /\ held[l].job \in Jobs
  BY <1>2 DEF Keeps, Busy, Leased, Typed, Holding
<1> DEFINE j == held[l].job
<1>4. /\ jobs[j].gen \in Nat /\ jobs'[j].gen \in Nat /\ held[l].gen \in Nat
      /\ Moves(jobs[j], jobs'[j]) /\ held[l].gen <= jobs[j].gen
  BY <1>1, <1>3 DEF RowsMove, Leased, Typed, TypeOK, Tracked, JobRows, Claims
<1>5. CASE FailRead(l)
  <2>1. /\ jobs' = jobs /\ outcome' = outcome /\ retry'[l] = Retries(j, outcome[l])
        /\ j \notin Deliveries \cup Forwarding
    BY <1>5 DEF FailRead, Leased, Typed, TypeOK
  <2> QED BY <1>3, <2>1 DEF Retries, Verdict
<1>6. CASE pc[l] = "failing" /\ retry'[l] = retry[l] /\ outcome'[l] = outcome[l]
  <2>1. /\ j \notin Deliveries \cup Forwarding
        /\ jobs[j].gen = held[l].gen /\ jobs[j].status = "running"
             => retry[l] = Verdict(jobs[j], j, outcome[l])
    BY <1>6 DEF Leased, Decided
  <2>2. ASSUME jobs'[j].gen = held[l].gen, jobs'[j].status = "running"
        PROVE  retry'[l] = Verdict(jobs'[j], j, outcome'[l])
    <3>1. /\ jobs[j].gen = held[l].gen /\ jobs[j].status = "running"
          /\ jobs'[j].attempts = jobs[j].attempts
      BY <1>4, <2>2 DEF Moves
    <3>2. Verdict(jobs'[j], j, outcome'[l]) = Verdict(jobs[j], j, outcome[l])
      BY <1>6, <3>1 DEF Verdict
    <3> QED BY <1>6, <2>1, <3>1, <3>2
  <2> QED BY <1>3, <2>1, <2>2
<1> QED BY <1>2, <1>3, <1>5, <1>6 DEF Keeps

LEMMA StepBound ==
  ASSUME Leased, [Next]_vars
  PROVE  OnlyDeliveriesBound'
<1>1. delivery \in [Jobs -> DeliveryStates]
  BY DEF Leased, Typed, TypeOK
<1>2. CASE delivery' = delivery
  BY <1>2 DEF Leased, OnlyDeliveriesBound
<1>3. ASSUME NEW j \in Jobs, Enqueue(j) PROVE OnlyDeliveriesBound'
  BY <1>1, <1>3 DEF Enqueue, Leased, OnlyDeliveriesBound
<1>4. ASSUME NEW l \in Lanes, BindIntent(l) PROVE OnlyDeliveriesBound'
  BY <1>1, <1>4 DEF BindIntent, Leased, OnlyDeliveriesBound
<1>5. ASSUME NEW l \in Lanes, Complete(l) PROVE OnlyDeliveriesBound'
  BY <1>1, <1>5 DEF Complete, Leased, OnlyDeliveriesBound
<1>6. ASSUME NEW l \in Lanes, FailAtomically(l) PROVE OnlyDeliveriesBound'
  BY <1>1, <1>6 DEF FailAtomically, Leased, OnlyDeliveriesBound
<1>7. ASSUME NEW l \in Lanes,
             \/ Claim(l) \/ Renew(l) \/ Work(l) \/ Deliver(l) \/ Reschedule(l)
             \/ FailRead(l) \/ FailWrite(l) \/ Crash(l)
      PROVE  delivery' = delivery
  BY <1>7 DEF Claim, Renew, Work, Deliver, Reschedule, FailRead, FailWrite, Crash
<1>8. ASSUME NEW j \in Jobs,
             EnqueueOrReset(j) \/ ReadForReset(j) \/ RetryJob(j) \/ CancelJob(j)
      PROVE  delivery' = delivery
  BY <1>8 DEF EnqueueOrReset, ReadForReset, RetryJob, CancelJob
<1>9. CASE WriteReset \/ Tick \/ UNCHANGED vars
  BY <1>2, <1>9 DEF WriteReset, Tick, vars
<1> QED BY <1>2, <1>3, <1>4, <1>5, <1>6, <1>7, <1>8, <1>9 DEF Next, Run

LEMMA InitLeased == Init => Leased
<1> SUFFICES ASSUME Init PROVE Leased
  OBVIOUS
<1>1. Typed
  BY InitTyped
<1>2. RowsOK
  BY NumbersAssumption DEF Init, RowsOK, RowOK, Absent, Active, Settled, Never
<1>3. OnlyDeliveriesBound
  BY DEF Init, OnlyDeliveriesBound
<1>4. Decided /\ Tracked /\ Unique
  BY DEF Init, Decided, Tracked, Unique, Busy
<1> QED BY <1>1, <1>2, <1>3, <1>4 DEF Leased

LEMMA StepLeased ==
  ASSUME Leased, [Next]_vars
  PROVE  Leased'
<1>1. RowsMove
  BY StepMovesRows DEF Leased
<1>2. RowsOK'
  BY <1>1 DEF RowsMove, RowsOK, RowOK
<1> QED BY <1>2, StepTyped, StepTracked, StepDecided, StepBound DEF Leased

LEMMA Leases == Spec => []Leased
<1>1. Leased /\ [Next]_vars => Leased'
  BY StepLeased
<1> QED BY InitLeased, <1>1, PTL DEF Spec

(* At most one lane could settle or renew a job, for any number of lanes    *)
(* and however many of them share a workerId.                               *)
THEOREM OneLeaseTheorem == Spec => []OneLease
<1>1. Leased => OneLease
  <2> SUFFICES ASSUME Leased, NEW k \in Lanes, NEW l \in Lanes, Busy(k), Busy(l),
                      held[k].job = held[l].job,
                      \E at \in Instants : Fenced(k, at), \E at \in Instants : Fenced(l, at)
               PROVE  k = l
    BY DEF OneLease
  <2>1. held[k].gen = held[l].gen
    BY DEF Fenced
  <2>2. held[k] = held[l]
    BY <2>1 DEF Leased, Typed, TypeOK, Claims
  <2> QED BY <2>2 DEF Leased, Unique
<1> QED BY Leases, <1>1, PTL

(* The columns of a row agree, and an ordinary job never exceeds its        *)
(* attempts, whatever lanes, recoveries and requests do in between.         *)
THEOREM RowsTheorem == Spec => []RowConsistent
<1>1. Leased => RowConsistent
  BY DEF Leased, RowsOK, RowOK, RowConsistent, Ordinary
<1> QED BY Leases, <1>1, PTL

(* failJob's decision is the one the row still calls for when its update    *)
(* applies, though the row may have changed hands since it was read.        *)
THEOREM DecisionTheorem == Spec => []FailDecisionCurrent
<1>1. Leased => FailDecisionCurrent
  BY DEF Leased, Decided, FailDecisionCurrent, Fenced, Retries, Verdict
<1> QED BY Leases, <1>1, PTL

(***************************************************************************)
(* Capacity: only a claim starts a job, and it counts the running jobs of  *)
(* the tenant in the transaction that adds one.                            *)
(***************************************************************************)
NoneStarts == \A j \in Jobs : jobs'[j].status = "running" => jobs[j].status = "running"

LEMMA PutStartsNone ==
  ASSUME Typed, NEW j \in Jobs, NEW r, Put(j, r),
         r.status = "running" => jobs[j].status = "running"
  PROVE  NoneStarts
  BY DEF Typed, TypeOK, Put, NoneStarts

LEMMA RequestsStartNone ==
  ASSUME Typed, NEW j \in Jobs,
         Enqueue(j) \/ EnqueueOrReset(j) \/ ReadForReset(j) \/ RetryJob(j) \/ CancelJob(j)
  PROVE  NoneStarts
<1>1. clock \in Nat /\ jobs[j] \in JobRows
  BY DEF Typed, TypeOK
<1>2. /\ Fresh(clock).status = "pending" /\ Reset(jobs[j], clock).status = "pending"
      /\ Ended(jobs[j], "cancelled").status = "cancelled"
  BY <1>1, AbsentType, QueuedType, ResetType, EndedType DEF Fresh, Settled
<1>3. [Queued(jobs[j], clock) EXCEPT !.attempts = 0].status = "pending"
  BY <1>1, QueuedType DEF JobRows
<1>4. CASE ReadForReset(j)
  BY <1>4 DEF ReadForReset, NoneStarts
<1> QED BY <1>2, <1>3, <1>4, PutStartsNone DEF Enqueue, EnqueueOrReset, RetryJob, CancelJob

LEMMA WriteResetStartsNone ==
  ASSUME Typed, WriteReset
  PROVE  NoneStarts
<1>1. clock \in Nat /\ jobs \in [Jobs -> JobRows] /\ seen.job \in Jobs \cup {None}
  BY DEF Typed, TypeOK, Reads
<1>2. CASE seen.job \in Jobs
  <2>1. Fresh(clock).status = "pending" /\ Reset(jobs[seen.job], clock).status = "pending"
    BY <1>1, <1>2, AbsentType, QueuedType, ResetType DEF Fresh
  <2>2. CASE UNCHANGED jobs
    BY <2>2 DEF NoneStarts
  <2> QED BY <1>2, <2>1, <2>2, PutStartsNone DEF WriteReset
<1>3. CASE seen.job = None
  <2>1. jobs' = jobs
    BY <1>1, <1>3, NoneAssumption DEF WriteReset, Put
  <2> QED BY <2>1 DEF NoneStarts
<1> QED BY <1>1, <1>2, <1>3

LEMMA LaneStartsNone ==
  ASSUME Typed, NEW l \in Lanes,
         Renew(l) \/ Complete(l) \/ Reschedule(l) \/ FailWrite(l) \/ FailAtomically(l)
  PROVE  NoneStarts
<1> DEFINE j == held[l].job
<1>1. clock \in Nat /\ j \in Jobs /\ jobs[j] \in JobRows
  BY HoldingFacts DEF Renew, Complete, Reschedule, FailWrite, FailAtomically, Busy, Typed, TypeOK
<1>2. CASE UNCHANGED jobs
  BY <1>2 DEF NoneStarts
<1>3. CASE ~UNCHANGED jobs
  <2>1. jobs[j].status = "running"
    BY <1>3 DEF Fenced, OwnedBy, Renew, Complete, Reschedule, FailWrite, FailAtomically
  <2>2. \E r : Put(j, r)
    <3>1. CASE Renew(l)
      BY <3>1 DEF Renew
    <3>2. CASE Complete(l)
      BY <1>3, <3>2 DEF Complete
    <3>3. CASE Reschedule(l)
      BY <1>3, <3>3 DEF Reschedule
    <3>4. CASE FailWrite(l)
      BY <1>3, <3>4 DEF FailWrite
    <3>5. CASE FailAtomically(l)
      BY <1>3, <3>5 DEF FailAtomically
    <3> QED BY <3>1, <3>2, <3>3, <3>4, <3>5
  <2> QED BY <1>1, <2>1, <2>2, PutStartsNone
<1> QED BY <1>2, <1>3

LEMMA FewerRunning ==
  ASSUME NEW table, NEW other, NEW t,
         \A j \in Jobs : other[j].status = "running" => table[j].status = "running"
  PROVE  /\ IsFiniteSet(Running(table, t)) /\ Cardinality(Running(table, t)) \in Nat
         /\ IsFiniteSet(Running(other, t)) /\ Cardinality(Running(other, t)) \in Nat
         /\ Cardinality(Running(other, t)) <= Cardinality(Running(table, t))
<1>1. Running(table, t) \subseteq Jobs /\ Running(other, t) \subseteq Running(table, t)
  BY DEF Running
<1>2. IsFiniteSet(Running(table, t))
  BY <1>1, FS_Subset, FiniteAssumption
<1> QED BY <1>1, <1>2, FS_Subset, FS_CardinalityType

LEMMA GrantWithinCapacity ==
  ASSUME Leased, TenantCapacity, NEW l \in Lanes, NEW at \in Nat, NEW j \in Jobs,
         Grants(l, at, j), NEW t \in Tenants
  PROVE  Cardinality(Running(jobs', t)) <= Capacity
<1> DEFINE table == Recovered(l, at)
<1>1. \A k \in Jobs : table[k].status = "running" => jobs[k].status = "running"
  BY RecoveredMoves DEF Leased
<1>2. /\ Cardinality(Running(table, t)) <= Cardinality(Running(jobs, t))
      /\ IsFiniteSet(Running(table, t)) /\ Cardinality(Running(table, t)) \in Nat
      /\ Cardinality(Running(jobs, t)) \in Nat
  BY <1>1, FewerRunning
<1>3. \A k \in Jobs \ {j} : jobs'[k] = table[k]
  BY TypedParts, GrantsType DEF Leased, Typed
<1>4. CASE TenantOf[j] = t
  <2>1. Cardinality(Running(table, t)) < Capacity
    BY <1>4 DEF Grants
  <2>2. IsFiniteSet(Running(table, t) \cup {j})
        /\ Cardinality(Running(table, t) \cup {j}) <= Cardinality(Running(table, t)) + 1
    <3> HIDE DEF table
    <3>1. IsFiniteSet(Running(table, t))
      BY <1>2
    <3>2. /\ IsFiniteSet(Running(table, t) \cup {j})
          /\ Cardinality(Running(table, t) \cup {j}) =
               IF j \in Running(table, t) THEN Cardinality(Running(table, t))
                                          ELSE Cardinality(Running(table, t)) + 1
      BY <3>1, FS_AddElement
    <3> QED BY <1>2, <3>2
  <2>3. Running(jobs', t) \subseteq Running(table, t) \cup {j}
    BY <1>3 DEF Running
  <2>4. /\ Cardinality(Running(jobs', t)) <= Cardinality(Running(table, t) \cup {j})
        /\ Cardinality(Running(jobs', t)) \in Nat
        /\ Cardinality(Running(table, t) \cup {j}) \in Nat
    BY <2>2, <2>3, FS_Subset, FS_CardinalityType
  <2> HIDE DEF table
  <2> QED BY <1>2, <2>1, <2>2, <2>4, NumbersAssumption
<1>5. CASE TenantOf[j] # t
  <2>1. Running(jobs', t) = Running(table, t)
    BY <1>3, <1>5 DEF Running
  <2>2. Cardinality(Running(jobs, t)) <= Capacity
    BY DEF TenantCapacity
  <2> HIDE DEF table
  <2> QED BY <1>2, <2>1, <2>2, NumbersAssumption
<1> QED BY <1>4, <1>5

LEMMA StepCapacity ==
  ASSUME Leased, TenantCapacity, [Next]_vars
  PROVE  TenantCapacity'
<1>1. clock \in Nat /\ jobs \in [Jobs -> JobRows] /\ Typed
  BY DEF Leased, Typed, TypeOK
<1>2. CASE NoneStarts
  <2> SUFFICES ASSUME NEW t \in Tenants PROVE Cardinality(Running(jobs', t)) <= Capacity
    BY DEF TenantCapacity
  <2>1. /\ Cardinality(Running(jobs', t)) <= Cardinality(Running(jobs, t))
        /\ Cardinality(Running(jobs', t)) \in Nat /\ Cardinality(Running(jobs, t)) \in Nat
    BY <1>2, FewerRunning DEF NoneStarts
  <2>2. Cardinality(Running(jobs, t)) <= Capacity
    BY DEF TenantCapacity
  <2> QED BY <2>1, <2>2, NumbersAssumption
<1>3. ASSUME NEW l \in Lanes, Claim(l) PROVE TenantCapacity'
  <2>1. PICK at \in Nat :
          \/ jobs' = Recovered(l, at) /\ UNCHANGED <<pc, held>>
          \/ \E j \in Jobs : Grants(l, at, j)
    BY <1>1, <1>3, ClaimEffect
  <2>2. CASE jobs' = Recovered(l, at)
    <3>1. NoneStarts
      BY <2>2, RecoveredMoves DEF Leased, NoneStarts
    <3> QED BY <1>2, <3>1
  <2>3. CASE \E j \in Jobs : Grants(l, at, j)
    BY <2>3, GrantWithinCapacity DEF TenantCapacity
  <2> QED BY <2>1, <2>2, <2>3
<1>4. ASSUME NEW l \in Lanes,
             Work(l) \/ BindIntent(l) \/ Deliver(l) \/ FailRead(l) \/ Crash(l)
      PROVE  NoneStarts
  BY <1>4 DEF Work, BindIntent, Deliver, FailRead, Crash, NoneStarts
<1>5. CASE Tick \/ UNCHANGED vars
  <2>1. NoneStarts
    BY <1>5 DEF Tick, vars, NoneStarts
  <2> QED BY <1>2, <2>1
<1> QED BY <1>1, <1>2, <1>3, <1>4, <1>5, RequestsStartNone, WriteResetStartsNone, LaneStartsNone
        DEF Next, Run

(* No tenant ever runs more jobs than maxRunningPerTenant, however many     *)
(* lanes claim, crash and recover at once.                                  *)
THEOREM CapacityTheorem == Spec => []TenantCapacity
<1>1. Init => TenantCapacity
  <2> SUFFICES ASSUME Init, NEW t \in Tenants PROVE Cardinality(Running(jobs, t)) <= Capacity
    BY DEF TenantCapacity
  <2>1. Running(jobs, t) = {}
    BY DEF Init, Running, Absent
  <2> QED BY <2>1, FS_EmptySet, NumbersAssumption
<1>2. Leased /\ TenantCapacity /\ [Next]_vars => TenantCapacity'
  BY StepCapacity
<1> QED BY Leases, <1>1, <1>2, PTL DEF Spec

(***************************************************************************)
(* The effect of a delivery: a lane that is about to settle a delivery has *)
(* not come to an outage, so that only a definite failure ends it.         *)
(***************************************************************************)
Definite ==
  \A l \in Lanes : pc[l] = "settling" /\ held[l].job \in Deliveries => outcome[l] # "outage"

LEMMA StepDefinite ==
  ASSUME Leased, Definite, [Next]_vars
  PROVE  Definite'
<1>1. LanesType /\ JobsType /\ clock \in Nat /\ jobs \in [Jobs -> JobRows]
  BY TypedParts DEF Leased, Typed, TypeOK
<1>2. ASSUME UNCHANGED lanes PROVE Definite'
  BY <1>2 DEF lanes, Definite
<1>3. ASSUME NEW l \in Lanes, Rest(l) PROVE Definite'
  BY <1>1, <1>3, RestEffect DEF Definite
<1>4. ASSUME NEW l \in Lanes, NEW result \in Outcomes, Finish(l, result), held' = held,
             held[l].job \in Deliveries => result # "outage"
      PROVE  Definite'
  BY <1>1, <1>4, FinishEffect DEF Definite
<1>5. ASSUME NEW l \in Lanes, NEW step, step # "settling", Goto(l, step),
             UNCHANGED <<held, outcome>>
      PROVE  Definite'
  BY <1>1, <1>5 DEF LanesType, Goto, Definite
<1>6. {"done", "deferred"} \cup Failures \subseteq Outcomes
  BY JobsAssumption DEF Outcomes
<1>7. ASSUME NEW l \in Lanes, Claim(l) PROVE Definite'
  <2>1. /\ UNCHANGED <<outcome, retry>>
        /\ \/ UNCHANGED <<pc, held>>
           \/ /\ pc'[l] = "working"
              /\ \A k \in Lanes \ {l} : pc'[k] = pc[k] /\ held'[k] = held[k]
    <3>1. UNCHANGED <<outcome, retry>>
      BY <1>7 DEF Claim
    <3>2. PICK at \in Nat :
            \/ jobs' = Recovered(l, at) /\ UNCHANGED <<pc, held>>
            \/ \E j \in Jobs : Grants(l, at, j)
      BY <1>1, <1>7, ClaimEffect
    <3> QED BY <1>1, <3>1, <3>2, GrantsType
  <2> QED BY <2>1 DEF Definite
<1>8. ASSUME NEW l \in Lanes, Work(l) PROVE Definite'
  <2>1. PICK result \in {"done", "deferred"} \cup Failures :
          /\ held[l].job \in Deliveries => result \in {"transient", "terminal"}
          /\ Finish(l, result)
    BY <1>8 DEF Work
  <2>2. held' = held
    BY <1>8 DEF Work
  <2> QED BY <1>4, <1>6, <2>1, <2>2
<1>9. ASSUME NEW l \in Lanes, BindIntent(l) PROVE Definite'
  BY <1>3, <1>4, <1>5, <1>9 DEF BindIntent, Outcomes, FailureKinds
<1>10. ASSUME NEW l \in Lanes, Deliver(l) PROVE Definite'
  <2>1. PICK result \in {"done"} \cup (Failures \ {"outage"}) : Finish(l, result)
    BY <1>10 DEF Deliver
  <2>2. held' = held
    BY <1>10 DEF Deliver
  <2> QED BY <1>4, <1>6, <2>1, <2>2
<1>11. ASSUME NEW l \in Lanes, FailRead(l) PROVE Definite'
  BY <1>5, <1>11 DEF FailRead
<1>12. ASSUME NEW l \in Lanes,
              Complete(l) \/ Reschedule(l) \/ FailWrite(l) \/ FailAtomically(l) \/ Crash(l)
       PROVE  Definite'
  BY <1>3, <1>12 DEF Complete, Reschedule, FailWrite, FailAtomically, Crash
<1>13. ASSUME NEW l \in Lanes, Renew(l) PROVE Definite'
  BY <1>2, <1>13 DEF Renew
<1>14. CASE \/ \E j \in Jobs : \/ Enqueue(j) \/ EnqueueOrReset(j) \/ ReadForReset(j)
                               \/ RetryJob(j) \/ CancelJob(j)
            \/ WriteReset \/ Tick \/ UNCHANGED vars
  BY <1>2, <1>14 DEF Enqueue, EnqueueOrReset, ReadForReset, RetryJob, CancelJob,
                     WriteReset, Tick, vars
<1> QED BY <1>7, <1>8, <1>9, <1>10, <1>11, <1>12, <1>13, <1>14 DEF Next, Run

(* The steps that cannot dead-letter a job at all.                          *)
LEMMA NeverDeadLetters ==
  ASSUME Typed, NEW j \in Jobs, DeadLetters(j), [Next]_vars
  PROVE  \E l \in Lanes : Claim(l) \/ FailWrite(l) \/ FailAtomically(l)
<1>1. clock \in Nat /\ jobs \in [Jobs -> JobRows] /\ delivery \in [Jobs -> DeliveryStates]
  BY DEF Typed, TypeOK
<1>2. ASSUME NEW k \in Jobs, NEW r, Put(k, r), r.status # "dead_letter" PROVE FALSE
  BY <1>1, <1>2 DEF Put, DeadLetters
<1>3. jobs' # jobs
  BY DEF DeadLetters
<1>4. ASSUME NEW k \in Jobs,
             Enqueue(k) \/ EnqueueOrReset(k) \/ ReadForReset(k) \/ RetryJob(k) \/ CancelJob(k)
      PROVE  FALSE
  <2>1. /\ Fresh(clock).status = "pending" /\ Reset(jobs[k], clock).status = "pending"
        /\ Ended(jobs[k], "cancelled").status = "cancelled"
    BY <1>1, AbsentType, QueuedType, ResetType, EndedType DEF Fresh, Settled
  <2>2. [Queued(jobs[k], clock) EXCEPT !.attempts = 0].status = "pending"
    BY <1>1, QueuedType DEF JobRows
  <2> QED BY <1>2, <1>3, <1>4, <2>1, <2>2
          DEF Enqueue, EnqueueOrReset, ReadForReset, RetryJob, CancelJob
<1>5. CASE WriteReset
  <2>1. seen.job \in Jobs \cup {None}
    BY DEF Typed, TypeOK, Reads
  <2>2. CASE seen.job \in Jobs
    <3>1. Fresh(clock).status = "pending" /\ Reset(jobs[seen.job], clock).status = "pending"
      BY <1>1, <2>2, AbsentType, QueuedType, ResetType DEF Fresh
    <3> QED BY <1>2, <1>3, <1>5, <2>2, <3>1 DEF WriteReset
  <2>3. CASE seen.job = None
    BY <1>1, <1>3, <1>5, <2>3, NoneAssumption DEF WriteReset, Put
  <2> QED BY <2>1, <2>2, <2>3
<1>6. ASSUME NEW l \in Lanes, Renew(l) \/ Complete(l) \/ Reschedule(l) PROVE FALSE
  <2>1. held[l].job \in Jobs /\ jobs[held[l].job] \in JobRows
    BY <1>6, HoldingFacts DEF Renew, Complete, Reschedule, Busy
  <2>2. Ended(jobs[held[l].job], "done").status = "done"
    BY <2>1, EndedType DEF Settled
  <2>3. \A delay \in Delays : Deferred(jobs[held[l].job], clock + delay).status = "pending"
    BY <1>1, <2>1, DeferredType, NumbersAssumption
  <2>4. CASE Renew(l)
    <3>1. PICK at \in Instants :
            /\ Fenced(l, at)
            /\ Put(held[l].job, [jobs[held[l].job] EXCEPT !.lease = at + Lease])
      BY <2>4 DEF Renew
    <3>2. [jobs[held[l].job] EXCEPT !.lease = at + Lease].status = "running"
      BY <2>1, <3>1 DEF Fenced, JobRows
    <3> QED BY <1>2, <2>1, <3>1, <3>2
  <2>5. CASE Complete(l)
    BY <1>2, <1>3, <2>1, <2>2, <2>5 DEF Complete
  <2>6. CASE Reschedule(l)
    BY <1>2, <1>3, <2>1, <2>3, <2>6 DEF Reschedule
  <2> QED BY <1>6, <2>4, <2>5, <2>6
<1>7. ASSUME NEW l \in Lanes, Work(l) \/ BindIntent(l) \/ Deliver(l) \/ FailRead(l) \/ Crash(l)
      PROVE  FALSE
  BY <1>3, <1>7 DEF Work, BindIntent, Deliver, FailRead, Crash
<1>8. CASE Tick \/ UNCHANGED vars
  BY <1>3, <1>8 DEF Tick, vars
<1> QED BY <1>4, <1>5, <1>6, <1>7, <1>8 DEF Next, Run

(* Recovery keeps a delivery whose intent is bound, whatever its attempts.  *)
LEMMA ClaimSparesBound ==
  ASSUME Typed, NEW l \in Lanes, Claim(l), NEW j \in Jobs, delivery[j] = "bound"
  PROVE  ~DeadLetters(j)
<1>1. clock \in Nat /\ jobs \in [Jobs -> JobRows] /\ JobsType /\ LanesType
  BY TypedParts DEF Typed, TypeOK
<1>2. \A at \in Nat : jobs[j].status = "running" => Recovered(l, at)[j].status # "dead_letter"
  <2> SUFFICES ASSUME NEW at \in Nat, jobs[j].status = "running"
               PROVE  Recovered(l, at)[j].status # "dead_letter"
    OBVIOUS
  <2>1. Recovered(l, at)[j] \in {jobs[j], Queued(jobs[j], at)}
    BY DEF Recovered, ShouldRetry, SideEffectMayExist
  <2> QED BY <1>1, <2>1, QueuedType
<1>3. PICK at \in Nat :
        \/ jobs' = Recovered(l, at) /\ UNCHANGED <<pc, held>>
        \/ \E k \in Jobs : Grants(l, at, k)
  BY <1>1, ClaimEffect
<1>4. CASE jobs' = Recovered(l, at)
  BY <1>2, <1>4 DEF DeadLetters
<1>5. ASSUME NEW k \in Jobs, Grants(l, at, k) PROVE ~DeadLetters(j)
  <2>1. /\ jobs'[k] = Granted(Recovered(l, at)[k], l, at)
        /\ \A i \in Jobs \ {k} : jobs'[i] = Recovered(l, at)[i]
    BY <1>1, <1>5, GrantsType
  <2>2. Granted(Recovered(l, at)[k], l, at).status = "running"
    BY <1>1, RecoveredType, GrantedType
  <2> QED BY <1>2, <2>1, <2>2 DEF DeadLetters
<1> QED BY <1>3, <1>4, <1>5

(* A delivery that may have left a draft behind is never given up by a      *)
(* lapsed lease, a request, an uncertain outcome or a lane that lost its    *)
(* claim: the lane that holds it dead-letters it after a terminal failure,  *)
(* or a transient one when the attempts are used.                           *)
THEOREM EffectTheorem == Spec => UncertainEffectSurvives
<1>1. Init => Definite
  BY DEF Init, Definite
<1>2. Leased /\ Definite /\ [Next]_vars => Definite'
  BY StepDefinite
<1>3. ASSUME Leased, Definite, [Next]_vars, NEW j \in Deliveries,
             delivery[j] = "bound", DeadLetters(j)
      PROVE  \E l \in Lanes :
               /\ Settles(l, j) /\ HoldsClaim(l)
               /\ outcome[l] = "terminal" \/ (outcome[l] = "transient" /\ LastAttempt(j))
  <2>1. j \in Jobs /\ Typed /\ LanesType /\ jobs \in [Jobs -> JobRows]
    <3>1. Typed /\ TypeOK
      BY <1>3 DEF Leased, Typed
    <3> QED BY <3>1, JobsAssumption, TypedParts DEF JobsType
  <2>2. PICK l \in Lanes : Claim(l) \/ FailWrite(l) \/ FailAtomically(l)
    BY <1>3, <2>1, NeverDeadLetters
  <2>3. ~Claim(l)
    BY <1>3, <2>1, ClaimSparesBound
  <2>4. /\ Busy(l) /\ held[l].job \in Jobs /\ Rest(l)
        /\ jobs' # jobs
    BY <1>3, <2>1, <2>2, <2>3, HoldingFacts DEF Busy, FailWrite, FailAtomically, DeadLetters
  <2>5. \E r : Put(held[l].job, r)
    BY <2>2, <2>3, <2>4 DEF FailWrite, FailAtomically
  <2>6. held[l].job = j
    BY <1>3, <2>1, <2>5 DEF Put, DeadLetters
  <2>7. FailAtomically(l)
    BY <1>3, <2>2, <2>3, <2>6 DEF FailWrite, Leased, Decided
  <2>8. Settles(l, j)
    BY <2>1, <2>4, <2>6, <2>7, RestEffect DEF Settles, FailAtomically
  <2>9. outcome[l] \in FailureKinds /\ outcome[l] # "outage"
    BY <1>3, <2>6, <2>7 DEF FailAtomically, Definite
  <2>10. PICK at \in Instants, delay \in Delays :
           /\ Fenced(l, at)
           /\ Put(j, FailedRow(jobs[j], Retries(j, outcome[l]), at + delay))
    BY <2>4, <2>6, <2>7 DEF FailAtomically
  <2>11. ~Retries(j, outcome[l])
    <3>1. at + delay \in Nat
      BY <2>1, InstantsType, NumbersAssumption DEF Typed, TypeOK
    <3>2. FailedRow(jobs[j], TRUE, at + delay).status = "pending"
      BY <2>1, <3>1, QueuedType DEF FailedRow
    <3> QED BY <1>3, <2>1, <2>10, <3>2 DEF Put, DeadLetters
  <2>12. HoldsClaim(l)
    BY <2>10 DEF HoldsClaim
  <2>13. outcome[l] # "uncertain"
    BY <1>3, <2>11 DEF Retries, PastMaxAttempts
  <2>14. outcome[l] = "terminal" \/ (outcome[l] = "transient" /\ LastAttempt(j))
    <3>1. jobs[j].attempts \in Nat
      BY <2>1 DEF JobRows
    <3> QED BY <2>9, <2>11, <2>13, <3>1, NumbersAssumption DEF FailureKinds, Retries, LastAttempt
  <2> QED BY <2>8, <2>12, <2>14
<1>4. Leased /\ Definite /\ [Next]_vars =>
        [\A j \in Deliveries :
           delivery[j] = "bound" /\ DeadLetters(j) =>
             \E l \in Lanes :
               /\ Settles(l, j) /\ HoldsClaim(l)
               /\ outcome[l] = "terminal" \/ (outcome[l] = "transient" /\ LastAttempt(j))]_vars
  BY <1>3
<1> QED BY Leases, <1>1, <1>2, <1>4, PTL DEF Spec, UncertainEffectSurvives

=============================================================================
