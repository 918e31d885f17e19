------------------------ MODULE DeliveryReplayProofs ------------------------
(***************************************************************************)
(* Proofs about DeliveryReplay, for any number of lanes and any bounds.    *)
(***************************************************************************)
EXTENDS DeliveryReplay, FiniteSetTheorems, TLAPS

USE ReplayAssumption, LanesAssumption

----------------------------------------------------------------------------
(***************************************************************************)
(* The inductive invariant.  A lane works with the payload it claimed and  *)
(* with what it read of the row some steps ago; what remains true of that  *)
(* is true as long as its lease is not lost, hence the fences below.       *)
(***************************************************************************)
RetrySteps == {"retry", "checking", "abandoning", "deferring", "admitting", "completing"}

FallbackSteps == {"fallback", "analysing", "requeueing", "settling"}

(* What kind of job a lane is at.                                          *)
Placed ==
  \A l \in Lanes :
    /\ lane[l].pc = "idle" => lane[l] = Idle
    /\ lane[l].pc \in RetrySteps => lane[l].job = "retry"
    /\ lane[l].pc \in FallbackSteps => lane[l].job = "fallback"
    /\ lane[l].pc \in {"delivering", "failing"} => lane[l].job \in JobIds

(* The admission key a lane will use is one of the modelled keys.          *)
Bounded ==
  /\ row.gen <= MaxGeneration
  /\ api.op = "retrying" => row.gen < MaxGeneration
  /\ \A l \in Lanes : lane[l].pc = "admitting" => <<lane[l].replay, lane[l].count>> \in Keys

(* A deferral refunds an attempt that was counted.                         *)
Counted == \A j \in JobIds : jobs[j].status = "running" => jobs[j].attempts >= 1

LapsedRuns == \A j \in JobIds : jobs[j].lapsed => jobs[j].status = "running"

Typed == TypeOK /\ Placed /\ Bounded /\ Counted /\ LapsedRuns

(* A lane's generation is one its job has had, and no two lanes have the   *)
(* same generation of a job.                                               *)
Tracked ==
  /\ \A l \in Lanes : lane[l].job # None => lane[l].gen <= jobs[lane[l].job].gen
  /\ \A k, l \in Lanes :
       lane[k].job # None /\ lane[k].job = lane[l].job /\ lane[k].gen = lane[l].gen => k = l

(* A lane that keeps its lease settles the hold of the row it claimed.     *)
CarriesHold ==
  \A l \in Lanes :
    lane[l].job = "fallback" /\ Fenced(l) => lane[l].hold = jobs["fallback"].hold

(* An open hold is the one of the latest fallback, whatever was admitted,  *)
(* released and retried before; the holds others name have been reserved.  *)
OneOpenHold ==
  /\ OpenHolds \subseteq {jobs["fallback"].hold}
  /\ OpenHolds # {} =>
       jobs["fallback"].status \in {"pending", "running", "dead_letter"} \/ "cancelled" \in races

Named ==
  /\ jobs["retry"].hold = NoHold
  /\ jobs["fallback"].hold \in Keys => holds[jobs["fallback"].hold] # "unused"
  /\ api.hold \in Keys => holds[api.hold] # "unused"
  /\ api.op = "cancelling" => api.hold \in Keys

(* The interleavings HoldBacksReplay excepts.                              *)
Excused == races \cap {"requeued", "swept", "recorded"} # {}

(* A key that was used is of an earlier generation, or counted; the row    *)
(* counts nothing once its draft is recorded.                              *)
KeysSpent ==
  \A k \in Keys :
    holds[k] # "unused" =>
      \/ k[1] < row.gen
      \/ k[1] = row.gen /\ (k[2] < row.count \/ row.recorded)

NextKeyUnused ==
  \A l \in Lanes :
    lane[l].pc = "checking" /\ Fenced(l) =>
      \A k \in Keys : k = <<row.gen, row.count>> => holds[k] = "unused"

AdmitsFreshly ==
  \A l \in Lanes :
    lane[l].pc = "admitting" /\ Fenced(l) =>
      /\ ~Live("fallback")
      /\ lane[l].replay <= row.gen
      /\ lane[l].replay = row.gen => lane[l].count = row.count
      /\ \A k \in Keys : k = <<lane[l].replay, lane[l].count>> => holds[k] = "unused"

(* The hold whose release the API still owes is not that of a live job.    *)
CancelledApart ==
  api.op = "cancelling" /\ Live("fallback") => jobs["fallback"].hold # api.hold

HoldsSound ==
  Excused \/ (KeysSpent /\ NextKeyUnused /\ AdmitsFreshly /\ CancelledApart)

IInv ==
  /\ Typed /\ Tracked /\ CarriesHold /\ OneOpenHold /\ Named
  /\ HoldsSound /\ DraftStands /\ HoldBacksReplay

----------------------------------------------------------------------------
(***************************************************************************)
(* The statements on a job row.                                            *)
(***************************************************************************)
LEMMA ReleasedFacts ==
  ASSUME NEW r \in JobRows,
         NEW status \in {"absent", "pending", "running", "done", "dead_letter", "cancelled"}
  PROVE  LET q == Released(r, status)
         IN  /\ q \in JobRows
             /\ q.status = status /\ q.attempts = r.attempts /\ q.gen = r.gen
             /\ q.owner = None /\ q.lapsed = FALSE /\ q.replay = r.replay /\ q.hold = r.hold
  BY DEF Released, JobRows

LEMMA FailedFacts ==
  ASSUME NEW r \in JobRows, NEW retryable \in BOOLEAN
  PROVE  LET q == FailedJob(r, retryable)
         IN  /\ q \in JobRows
             /\ q.status \in {"pending", "dead_letter"} /\ q.attempts = r.attempts /\ q.gen = r.gen
             /\ q.owner = None /\ q.lapsed = FALSE /\ q.replay = r.replay /\ q.hold = r.hold
  BY ReleasedFacts DEF FailedJob

LEMMA FreshFacts ==
  ASSUME NEW r \in JobRows, NEW replay \in Nat, NEW hold \in Keys \cup {NoHold}
  PROVE  LET q == Fresh(r, replay, hold)
         IN  q \in JobRows /\ q.status = "pending" /\ q.lapsed = FALSE
<1> DEFINE p == Released(r, "pending")
<1>1. p \in JobRows /\ p.status = "pending" /\ p.gen = r.gen /\ p.lapsed = FALSE
  BY ReleasedFacts
<1>2. p.gen + 1 \in Nat
  BY <1>1 DEF JobRows
<1> HIDE DEF p
<1> DEFINE q == [p EXCEPT !.attempts = 0, !.gen = p.gen + 1, !.replay = replay, !.hold = hold]
<1>3. q \in JobRows /\ q.status = "pending" /\ q.lapsed = FALSE
  BY <1>1, <1>2 DEF JobRows
<1>4. Fresh(r, replay, hold) = q
  BY <1>1 DEF Fresh, JobRows, p
<1> HIDE DEF q
<1> QED BY <1>3, <1>4

LEMMA FreshGen ==
  ASSUME NEW r \in JobRows, NEW replay \in Nat, NEW hold \in Keys \cup {NoHold}
  PROVE  Fresh(r, replay, hold).gen = r.gen + 1
<1>1. Released(r, "pending") \in JobRows /\ Released(r, "pending").gen = r.gen
  BY ReleasedFacts
<1> QED BY <1>1 DEF Fresh, JobRows

LEMMA FreshPayload ==
  ASSUME NEW r \in JobRows, NEW replay \in Nat, NEW hold \in Keys \cup {NoHold}
  PROVE  /\ Fresh(r, replay, hold).replay = replay
         /\ Fresh(r, replay, hold).hold = hold
<1>1. Released(r, "pending") \in JobRows
  BY ReleasedFacts
<1> QED BY <1>1 DEF Fresh, JobRows

LEMMA RecoveredFacts ==
  ASSUME jobs \in [JobIds -> JobRows]
  PROVE  /\ Recovered \in [JobIds -> JobRows]
         /\ \A j \in JobIds :
              LET q == Recovered[j]
              IN  /\ q.gen = jobs[j].gen /\ q.hold = jobs[j].hold /\ q.replay = jobs[j].replay
                  /\ q.lapsed = FALSE
                  /\ IF jobs[j].lapsed THEN q.status \in {"pending", "dead_letter"}
                                       ELSE q = jobs[j]
<1> SUFFICES ASSUME NEW j \in JobIds
             PROVE  LET q == Recovered[j]
                    IN  /\ q \in JobRows
                        /\ q.gen = jobs[j].gen /\ q.hold = jobs[j].hold /\ q.replay = jobs[j].replay
                        /\ q.lapsed = FALSE
                        /\ IF jobs[j].lapsed THEN q.status \in {"pending", "dead_letter"}
                                             ELSE q = jobs[j]
  BY DEF Recovered
<1>1. jobs[j] \in JobRows
  OBVIOUS
<1>2. CASE jobs[j].lapsed
  <2> DEFINE q == FailedJob(jobs[j], TRUE)
  <2>1. Recovered[j] = q
    BY <1>2 DEF Recovered
  <2>2. /\ q \in JobRows /\ q.status \in {"pending", "dead_letter"} /\ q.gen = jobs[j].gen
        /\ q.lapsed = FALSE /\ q.replay = jobs[j].replay /\ q.hold = jobs[j].hold
    BY <1>1, FailedFacts
  <2> HIDE DEF q
  <2> QED BY <1>2, <2>1, <2>2
<1>3. CASE ~jobs[j].lapsed
  <2>1. Recovered[j] = jobs[j]
    BY <1>3 DEF Recovered
  <2> QED BY <1>1, <1>3, <2>1 DEF JobRows
<1> QED BY <1>2, <1>3

LEMMA GrantedFacts ==
  ASSUME NEW r \in JobRows, NEW l \in Lanes
  PROVE  LET q == [r EXCEPT !.status = "running", !.owner = l, !.attempts = @ + 1, !.gen = @ + 1]
         IN  /\ q \in JobRows
             /\ q.status = "running" /\ q.attempts >= 1 /\ q.gen = r.gen + 1
             /\ q.lapsed = r.lapsed /\ q.replay = r.replay /\ q.hold = r.hold
<1>1. r.attempts + 1 \in Nat /\ r.attempts + 1 >= 1 /\ r.gen + 1 \in Nat
  BY DEF JobRows
<1> QED BY <1>1 DEF JobRows

----------------------------------------------------------------------------
(***************************************************************************)
(* What a step makes of the jobs.                                          *)
(***************************************************************************)
\* A job stops, or stays as it is.
Stops(j) ==
  /\ jobs'[j] \in JobRows
  /\ \/ jobs'[j] = jobs[j]
     \/ /\ jobs'[j].gen = jobs[j].gen /\ jobs'[j].hold = jobs[j].hold
        /\ jobs'[j].replay = jobs[j].replay
        /\ jobs'[j].status # "running" /\ jobs'[j].lapsed = FALSE
        /\ jobs'[j].status = "pending" => Live(j)

\* A claim starts it, recovered or not.
Starts(j) ==
  /\ jobs'[j] \in JobRows
  /\ jobs'[j].gen = jobs[j].gen + 1 /\ jobs'[j].hold = jobs[j].hold
  /\ jobs'[j].replay = jobs[j].replay
  /\ jobs'[j].status = "running" /\ jobs'[j].lapsed = FALSE /\ jobs'[j].attempts >= 1
  /\ jobs[j].status = "pending" \/ jobs[j].lapsed
  /\ \E l \in Lanes : Claim(l)

\* A job that is over is enqueued anew.
Renews(j) ==
  /\ jobs'[j] \in JobRows
  /\ ~Live(j)
  /\ jobs'[j].gen = jobs[j].gen + 1
  /\ jobs'[j].status = "pending" /\ jobs'[j].lapsed = FALSE

Lapses(j) ==
  /\ jobs'[j] \in JobRows
  /\ jobs[j].status = "running"
  /\ jobs'[j].status = "running" /\ jobs'[j].lapsed = TRUE
  /\ jobs'[j].gen = jobs[j].gen /\ jobs'[j].hold = jobs[j].hold
  /\ jobs'[j].replay = jobs[j].replay /\ jobs'[j].attempts = jobs[j].attempts

\* The operator puts a dead-lettered or cancelled job back.
Requeues(j) ==
  /\ jobs'[j] \in JobRows
  /\ ~Live(j)
  /\ jobs'[j].gen = jobs[j].gen /\ jobs'[j].hold = jobs[j].hold
  /\ jobs'[j].replay = jobs[j].replay
  /\ jobs'[j].status = "pending" /\ jobs'[j].lapsed = FALSE

Goes(j) == Stops(j) \/ Starts(j) \/ Lapses(j)

\* One lane claims job j.
Takes(l, j) ==
  /\ lane[l].pc = "idle"
  /\ Starts(j)
  /\ \A i \in JobIds \ {j} : Stops(i)
  /\ lane' = [lane EXCEPT ![l] =
       [Idle EXCEPT !.pc = j, !.job = j, !.gen = jobs'[j].gen,
                    !.replay = jobs'[j].replay, !.hold = jobs'[j].hold]]

LEMMA ClaimFacts ==
  ASSUME Typed, NEW l \in Lanes, Claim(l)
  PROVE  \E j \in JobIds : Takes(l, j)
<1>1. PICK j \in JobIds :
        /\ Recovered[j].status = "pending"
        /\ jobs' = [Recovered EXCEPT ![j].status = "running", ![j].owner = l,
                                     ![j].attempts = @ + 1, ![j].gen = @ + 1]
        /\ lane' = [lane EXCEPT ![l] =
             [Idle EXCEPT !.pc = j, !.job = j, !.gen = Recovered[j].gen + 1,
                          !.replay = Recovered[j].replay, !.hold = Recovered[j].hold]]
  BY DEF Claim
<1>2. jobs \in [JobIds -> JobRows] /\ \A i \in JobIds : jobs[i].lapsed => Live(i)
  BY DEF Typed, TypeOK, LapsedRuns, Live
<1> DEFINE r == Recovered[j]
           q == [r EXCEPT !.status = "running", !.owner = l, !.attempts = @ + 1, !.gen = @ + 1]
<1>3. Recovered \in [JobIds -> JobRows] /\ r \in JobRows
  BY <1>2, RecoveredFacts
<1>4. jobs' = [Recovered EXCEPT ![j] = q]
  BY <1>1, <1>3
<1>5. jobs'[j] = q /\ \A i \in JobIds \ {j} : jobs'[i] = Recovered[i]
  BY <1>3, <1>4
<1>6. /\ q \in JobRows /\ q.status = "running" /\ q.gen = r.gen + 1 /\ q.attempts >= 1
      /\ q.lapsed = r.lapsed /\ q.replay = r.replay /\ q.hold = r.hold
  BY <1>3, GrantedFacts
<1>7. /\ r.gen = jobs[j].gen /\ r.hold = jobs[j].hold /\ r.replay = jobs[j].replay
      /\ r.lapsed = FALSE
      /\ ~jobs[j].lapsed => r = jobs[j]
  BY <1>2, RecoveredFacts
<1>8. Starts(j)
  <2> HIDE DEF r, q
  <2>1. r.status = "pending"
    BY <1>1 DEF r
  <2> QED BY <1>5, <1>6, <1>7, <2>1 DEF Starts
<1>9. \A i \in JobIds \ {j} : Stops(i)
  <2> SUFFICES ASSUME NEW i \in JobIds \ {j} PROVE Stops(i)
    OBVIOUS
  <2>1. jobs'[i] = Recovered[i] /\ i \in JobIds
    BY <1>5
  <2> QED BY <1>2, <2>1, RecoveredFacts DEF Stops
<1>10. lane' = [lane EXCEPT ![l] =
         [Idle EXCEPT !.pc = j, !.job = j, !.gen = jobs'[j].gen,
                      !.replay = jobs'[j].replay, !.hold = jobs'[j].hold]]
  <2>1. r.gen + 1 = jobs'[j].gen /\ r.replay = jobs'[j].replay /\ r.hold = jobs'[j].hold
    BY <1>5, <1>6
  <2> QED BY <1>1, <2>1
<1>11. lane[l].pc = "idle"
  BY DEF Claim
<1> QED BY <1>8, <1>9, <1>10, <1>11 DEF Takes


\* A statement on one job, the other stays.
LEMMA OneJob ==
  ASSUME jobs \in [JobIds -> JobRows], NEW j \in JobIds, NEW r \in JobRows,
         jobs' = [jobs EXCEPT ![j] = r]
  PROVE  jobs'[j] = r /\ \A i \in JobIds \ {j} : jobs'[i] = jobs[i]
  OBVIOUS

LEMMA OneStops ==
  ASSUME jobs \in [JobIds -> JobRows], NEW j \in JobIds, NEW r \in JobRows,
         jobs' = [jobs EXCEPT ![j] = r],
         r.gen = jobs[j].gen, r.hold = jobs[j].hold, r.replay = jobs[j].replay,
         r.status # "running", r.lapsed = FALSE, r.status = "pending" => Live(j)
  PROVE  \A i \in JobIds : Stops(i)
  BY OneJob DEF Stops

LEMMA NoneStops ==
  ASSUME jobs \in [JobIds -> JobRows], jobs' = jobs
  PROVE  \A i \in JobIds : Stops(i)
  BY DEF Stops

LEMMA RetryQueuedFacts ==
  ASSUME jobs \in [JobIds -> JobRows], jobs' = RetryQueued
  PROVE  /\ jobs'["fallback"] = jobs["fallback"]
         /\ Stops("fallback")
         /\ IF Live("retry") THEN jobs'["retry"] = jobs["retry"] /\ Stops("retry")
            ELSE Renews("retry") /\ jobs'["retry"].hold = NoHold
<1>1. jobs["retry"] \in JobRows /\ {"retry", "fallback"} = JobIds
  BY DEF JobIds
<1>2. CASE Live("retry")
  BY <1>1, <1>2 DEF RetryQueued, Stops
<1>3. CASE ~Live("retry")
  <2> DEFINE r == Fresh(jobs["retry"], 0, NoHold)
  <2>1. /\ r \in JobRows /\ r.status = "pending" /\ r.gen = jobs["retry"].gen + 1
        /\ r.lapsed = FALSE /\ r.hold = NoHold
    <3>1. 0 \in Nat /\ NoHold \in Keys \cup {NoHold}
      OBVIOUS
    <3>2. r \in JobRows /\ r.status = "pending" /\ r.lapsed = FALSE
      BY <1>1, <3>1, FreshFacts
    <3>3. r.gen = jobs["retry"].gen + 1
      BY <1>1, <3>1, FreshGen
    <3>4. r.hold = NoHold
      BY <1>1, <3>1, FreshPayload
    <3> QED BY <3>2, <3>3, <3>4
  <2>2. jobs' = [jobs EXCEPT !["retry"] = r]
    BY <1>3 DEF RetryQueued
  <2> HIDE DEF r
  <2> QED BY <1>1, <1>3, <2>1, <2>2 DEF Renews, Stops
<1> QED BY <1>2, <1>3

LEMMA DeferFacts ==
  ASSUME Typed, NEW l \in Lanes, Defer(l)
  PROVE  /\ \A j \in JobIds : Stops(j)
         /\ jobs'["fallback"] = jobs["fallback"]
<1>1. jobs \in [JobIds -> JobRows] /\ jobs["retry"] \in JobRows /\ {"retry", "fallback"} = JobIds
  BY DEF Typed, TypeOK, JobIds
<1>2. CASE jobs' = jobs
  BY <1>1, <1>2, NoneStops
<1>3. CASE jobs' # jobs
  <2> DEFINE p == Released(jobs["retry"], "pending")
             r == [p EXCEPT !.attempts = @ - 1]
  <2>1. /\ p \in JobRows /\ p.status = "pending" /\ p.attempts = jobs["retry"].attempts
        /\ p.gen = jobs["retry"].gen /\ p.hold = jobs["retry"].hold
        /\ p.replay = jobs["retry"].replay /\ p.lapsed = FALSE
    BY <1>1, ReleasedFacts
  <2>2. /\ jobs["retry"].status = "running" /\ Live("retry")
        /\ jobs' = [jobs EXCEPT !["retry"] = r]
    BY <1>3 DEF Defer, Live
  <2>3. jobs["retry"].attempts >= 1 /\ jobs["retry"].attempts \in Nat
    BY <1>1, <2>2 DEF Typed, Counted, JobRows
  <2> HIDE DEF p
  <2>4. p.attempts - 1 \in Nat
    BY <2>1, <2>3
  <2>5. /\ r \in JobRows /\ r.status = "pending" /\ r.gen = p.gen /\ r.hold = p.hold
        /\ r.replay = p.replay /\ r.lapsed = FALSE
    BY <2>1, <2>4 DEF JobRows
  <2> HIDE DEF r
  <2> QED BY <1>1, <2>1, <2>2, <2>5, OneStops
<1> QED BY <1>2, <1>3

(* The outcomes of Admit.                                                  *)
AdmitFails(l) ==
  /\ lane' = [lane EXCEPT ![l].pc = "failing"]
  /\ UNCHANGED <<row, jobs, holds>>

AdmitRefused(l) ==
  /\ Fenced(l)
  /\ row' = Blocked(row, "quota_refused")
  /\ \A j \in JobIds : Stops(j)
  /\ jobs'["retry"].status = "done"
  /\ jobs'["fallback"] = jobs["fallback"]
  /\ holds' = WithoutOpenHolds
  /\ lane' = [lane EXCEPT ![l] = Idle]

Admitted(l) ==
  LET key == <<lane[l].replay, lane[l].count>>
  IN  /\ Fenced(l)
      /\ Stops("retry") /\ jobs'["retry"].status = "done"
      /\ jobs'["retry"].hold = jobs["retry"].hold
      /\ Renews("fallback")
      /\ jobs'["fallback"].replay = lane[l].replay
      /\ jobs'["fallback"].hold = IF Enforced THEN key ELSE NoHold
      /\ row' = IF Undelivered(row) THEN [row EXCEPT !.count = @ + 1] ELSE row
      /\ holds' = IF Enforced THEN Reserved(WithoutOpenHolds, key) ELSE WithoutOpenHolds
      /\ lane' = [lane EXCEPT ![l] = Idle]

LEMMA AdmitFacts ==
  ASSUME Typed, NEW l \in Lanes, Admit(l)
  PROVE  /\ lane[l].pc = "admitting" /\ lane[l].job = "retry"
         /\ AdmitFails(l) \/ AdmitRefused(l) \/ Admitted(l)
<1> DEFINE key == <<lane[l].replay, lane[l].count>>
           hold == IF Enforced THEN key ELSE NoHold
           refused == Enforced /\ ~Admits(WithoutOpenHolds, key)
           r == Released(jobs["retry"], "done")
           f == Fresh(jobs["fallback"], lane[l].replay, hold)
<1>1. /\ jobs \in [JobIds -> JobRows] /\ jobs["retry"] \in JobRows /\ jobs["fallback"] \in JobRows
      /\ {"retry", "fallback"} = JobIds /\ lane[l] \in LaneStates
  BY DEF Typed, TypeOK, JobIds
<1>2. lane[l].pc = "admitting" /\ lane[l].job = "retry" /\ key \in Keys
  BY DEF Admit, Typed, Placed, Bounded, RetrySteps
<1>3. /\ r \in JobRows /\ r.status = "done" /\ r.gen = jobs["retry"].gen
      /\ r.hold = jobs["retry"].hold /\ r.replay = jobs["retry"].replay /\ r.lapsed = FALSE
  BY <1>1, ReleasedFacts
<1>4. CASE ~Fenced(l) \/ (~refused /\ Live("fallback"))
  BY <1>2, <1>4 DEF Admit, AdmitFails, Goto
<1>5. CASE Fenced(l) /\ refused
  <2>1. /\ row' = Blocked(row, "quota_refused")
        /\ jobs' = [jobs EXCEPT !["retry"] = r]
        /\ holds' = WithoutOpenHolds
        /\ lane' = [lane EXCEPT ![l] = Idle]
    BY <1>5 DEF Admit, Rest
  <2>2. \A j \in JobIds : Stops(j)
    BY <1>1, <1>3, <2>1, OneStops
  <2>3. jobs'["retry"].status = "done" /\ jobs'["fallback"] = jobs["fallback"]
    BY <1>1, <1>3, <2>1
  <2> QED BY <1>2, <1>5, <2>1, <2>2, <2>3 DEF AdmitRefused
<1>6. CASE Fenced(l) /\ ~refused /\ ~Live("fallback")
  <2>1. /\ row' = IF Undelivered(row) THEN [row EXCEPT !.count = @ + 1] ELSE row
        /\ jobs' = [jobs EXCEPT !["retry"] = r, !["fallback"] = f]
        /\ holds' = IF Enforced THEN Reserved(WithoutOpenHolds, key) ELSE WithoutOpenHolds
        /\ lane' = [lane EXCEPT ![l] = Idle]
    BY <1>6 DEF Admit, Rest
  <2>2. /\ f \in JobRows /\ f.status = "pending" /\ f.gen = jobs["fallback"].gen + 1
        /\ f.lapsed = FALSE /\ f.replay = lane[l].replay
        /\ f.hold = hold
    <3>1. lane[l].replay \in Nat /\ hold \in Keys \cup {NoHold}
      BY <1>1, <1>2 DEF LaneStates
    <3> HIDE DEF hold
    <3>0. jobs["fallback"] \in JobRows
      BY <1>1
    <3>2. f \in JobRows /\ f.status = "pending" /\ f.lapsed = FALSE
      BY <3>0, <3>1, FreshFacts
    <3>3. f.gen = jobs["fallback"].gen + 1
      BY <1>1, <3>1, FreshGen
    <3>4. f.replay = lane[l].replay /\ f.hold = hold
      BY <1>1, <3>1, FreshPayload
    <3> QED BY <3>2, <3>3, <3>4
  <2>3. jobs'["retry"] = r /\ jobs'["fallback"] = f
    BY <1>1, <2>1
  <2> HIDE DEF r, f, refused
  <2>4. Stops("retry") /\ jobs'["retry"].status = "done" /\ jobs'["retry"].hold = jobs["retry"].hold
    BY <1>3, <2>3 DEF Stops
  <2>5. Renews("fallback")
    BY <1>6, <2>2, <2>3 DEF Renews
  <2> QED BY <1>2, <1>6, <2>1, <2>2, <2>3, <2>4, <2>5 DEF Admitted
<1> QED BY <1>2, <1>4, <1>5, <1>6

----------------------------------------------------------------------------
(* The retry job is enqueued by a fanout or by the operator's reopening.   *)
RetryRenewed ==
  /\ (\E l \in Lanes : Requeue(l)) \/ Reopen
  /\ Renews("retry") /\ jobs'["retry"].hold = NoHold
  /\ jobs'["fallback"] = jobs["fallback"] /\ Stops("fallback")

JobRequeued(j) ==
  RetryJob(j) /\ Requeues(j) /\ \A i \in JobIds \ {j} : Stops(i)

JobSteps ==
  \/ \A j \in JobIds : Goes(j)
  \/ \E j \in JobIds : JobRequeued(j)
  \/ RetryRenewed
  \/ \E l \in Lanes : Admit(l) /\ Admitted(l)

LEMMA StepJobs ==
  ASSUME Typed, [Next]_vars
  PROVE  JobSteps
<1>1. /\ jobs \in [JobIds -> JobRows] /\ {"retry", "fallback"} = JobIds
      /\ \A i \in JobIds : jobs[i].lapsed => Live(i)
  BY DEF Typed, TypeOK, JobIds, LapsedRuns, Live
<1>0. ASSUME \A j \in JobIds : Stops(j) PROVE JobSteps
  BY <1>0 DEF JobSteps, Goes
<1>2. ASSUME jobs' = jobs PROVE JobSteps
  BY <1>0, <1>1, <1>2, NoneStops
<1>3. ASSUME NEW j \in JobIds, NEW status \in {"done", "cancelled"},
             jobs' = [jobs EXCEPT ![j] = Released(@, status)]
      PROVE  JobSteps
  <2> DEFINE r == Released(jobs[j], status)
  <2>1. /\ r \in JobRows /\ r.status = status /\ r.gen = jobs[j].gen
        /\ r.hold = jobs[j].hold /\ r.replay = jobs[j].replay /\ r.lapsed = FALSE
    <3>1. /\ jobs[j] \in JobRows
          /\ status \in {"absent", "pending", "running", "done", "dead_letter", "cancelled"}
      BY <1>1
    <3> QED BY <3>1, ReleasedFacts
  <2>2. jobs' = [jobs EXCEPT ![j] = r]
    BY <1>3
  <2> HIDE DEF r
  <2> QED BY <1>0, <1>1, <1>3, <2>1, <2>2, OneStops
<1>4. ASSUME NEW l \in Lanes, Claim(l) PROVE JobSteps
  <2>1. PICK j \in JobIds : Takes(l, j)
    BY <1>4, ClaimFacts
  <2> QED BY <2>1 DEF Takes, JobSteps, Goes
<1>5. ASSUME NEW l \in Lanes, Recover(l) PROVE JobSteps
  <2> SUFFICES ASSUME NEW j \in JobIds PROVE Stops(j)
    BY <1>0
  <2>1. jobs'[j] = Recovered[j]
    BY <1>5 DEF Recover
  <2> QED BY <1>1, <2>1, RecoveredFacts DEF Stops
<1>6. ASSUME NEW l \in Lanes, Defer(l) PROVE JobSteps
  BY <1>0, <1>6, DeferFacts
<1>7. ASSUME NEW l \in Lanes, Admit(l) PROVE JobSteps
  <2>1. AdmitFails(l) \/ AdmitRefused(l) \/ Admitted(l)
    BY <1>7, AdmitFacts
  <2> QED BY <1>0, <1>2, <1>7, <2>1 DEF AdmitFails, AdmitRefused, JobSteps
<1>8. ASSUME jobs' = RetryQueued, (\E l \in Lanes : Requeue(l)) \/ Reopen PROVE JobSteps
  <2>1. CASE Live("retry")
    <3>1. \A j \in JobIds : Stops(j)
      BY <1>1, <1>8, <2>1, RetryQueuedFacts
    <3> QED BY <1>0, <3>1
  <2>2. CASE ~Live("retry")
    BY <1>1, <1>8, <2>2, RetryQueuedFacts DEF JobSteps, RetryRenewed
  <2> QED BY <2>1, <2>2
<1>9. ASSUME NEW l \in Lanes, Settle(l) \/ Complete(l) PROVE JobSteps
  <2>1. \/ jobs' = jobs
        \/ jobs' = [jobs EXCEPT !["fallback"] = Released(@, "done")]
        \/ jobs' = [jobs EXCEPT !["retry"] = Released(@, "done")]
    BY <1>9 DEF Settle, Complete
  <2>2. {"retry", "fallback"} \subseteq JobIds
    BY <1>1
  <2> QED BY <1>2, <1>3, <2>1, <2>2
<1>10. ASSUME NEW l \in Lanes, Fail(l) PROVE JobSteps
  <2> DEFINE j == lane[l].job
  <2>1. j \in JobIds
    BY <1>10 DEF Fail, Typed, Placed
  <2>2. PICK retryable \in BOOLEAN :
          \/ jobs' = jobs
          \/ Live(j) /\ jobs' = [jobs EXCEPT ![j] = FailedJob(jobs[j], retryable)]
    BY <1>10 DEF Fail, Fenced, Live
  <2> DEFINE r == FailedJob(jobs[j], retryable)
  <2>3. /\ r \in JobRows /\ r.status # "running" /\ r.gen = jobs[j].gen
        /\ r.hold = jobs[j].hold /\ r.replay = jobs[j].replay /\ r.lapsed = FALSE
    <3>1. jobs[j] \in JobRows
      BY <1>1, <2>1
    <3> HIDE DEF j
    <3> QED BY <3>1, FailedFacts
  <2>4. CASE Live(j) /\ jobs' = [jobs EXCEPT ![j] = r]
    <3> HIDE DEF r, j
    <3> QED BY <1>0, <1>1, <2>1, <2>3, <2>4, OneStops
  <2> QED BY <1>2, <2>2, <2>4
<1>11. ASSUME NEW j \in JobIds, Lapse(j) PROVE JobSteps
  <2> DEFINE r == [jobs[j] EXCEPT !.lapsed = TRUE]
  <2>1. /\ r \in JobRows /\ r.status = jobs[j].status /\ r.gen = jobs[j].gen
        /\ r.hold = jobs[j].hold /\ r.replay = jobs[j].replay /\ r.lapsed = TRUE
        /\ r.attempts = jobs[j].attempts
    BY <1>1 DEF JobRows
  <2>2. jobs' = [jobs EXCEPT ![j] = r] /\ jobs[j].status = "running"
    BY <1>11 DEF Lapse
  <2> HIDE DEF r
  <2>3. jobs'[j] = r /\ \A i \in JobIds \ {j} : jobs'[i] = jobs[i]
    BY <1>1, <2>1, <2>2, OneJob
  <2>4. Lapses(j)
    BY <2>1, <2>2, <2>3 DEF Lapses
  <2>5. \A i \in JobIds \ {j} : Stops(i)
    BY <1>1, <2>3 DEF Stops
  <2> QED BY <2>4, <2>5 DEF JobSteps, Goes
<1>12. ASSUME NEW j \in JobIds, CancelJob(j) PROVE JobSteps
  BY <1>3, <1>12 DEF CancelJob
<1>13. ASSUME NEW j \in JobIds, RetryJob(j) PROVE JobSteps
  <2> DEFINE p == Released(jobs[j], "pending")
             r == [p EXCEPT !.attempts = 0]
  <2>1. /\ p \in JobRows /\ p.status = "pending" /\ p.gen = jobs[j].gen
        /\ p.hold = jobs[j].hold /\ p.replay = jobs[j].replay /\ p.lapsed = FALSE
    <3>1. jobs[j] \in JobRows
      BY <1>1
    <3> QED BY <3>1, ReleasedFacts
  <2>2. jobs' = [jobs EXCEPT ![j] = r] /\ ~Live(j)
    BY <1>13 DEF RetryJob, Live
  <2> HIDE DEF p
  <2>3. /\ r \in JobRows /\ r.status = "pending" /\ r.gen = p.gen
        /\ r.hold = p.hold /\ r.replay = p.replay /\ r.lapsed = FALSE
    BY <2>1 DEF JobRows
  <2> HIDE DEF r
  <2>4. jobs'[j] = r /\ \A i \in JobIds \ {j} : jobs'[i] = jobs[i]
    BY <1>1, <2>2, <2>3, OneJob
  <2>5. Requeues(j)
    BY <2>1, <2>2, <2>3, <2>4 DEF Requeues
  <2>6. \A i \in JobIds \ {j} : Stops(i)
    BY <1>1, <2>4 DEF Stops
  <2> QED BY <1>13, <2>5, <2>6 DEF JobSteps, JobRequeued
<1>14. ASSUME NEW l \in Lanes,
              \/ Sweep(l) \/ StartRetry(l) \/ Abandon(l) \/ Check(l) \/ StartFallback(l)
              \/ Analyse(l) \/ Deliver(l) \/ Release(l) \/ Stamp(l) \/ Crash(l)
       PROVE  jobs' = jobs
  BY <1>14 DEF Sweep, StartRetry, Abandon, Check, StartFallback, Analyse, Deliver, Release,
               Stamp, Crash
<1>15. CASE GrowOld \/ RetryDelivery \/ ReleaseCancelled \/ ApiCrash \/ UNCHANGED vars
  BY <1>2, <1>15 DEF GrowOld, RetryDelivery, ReleaseCancelled, ApiCrash, vars
<1>16. ASSUME NEW l \in Lanes, Requeue(l) PROVE JobSteps
  BY <1>8, <1>16 DEF Requeue
<1>17. CASE Reopen
  BY <1>8, <1>17 DEF Reopen
<1> QED BY <1>2, <1>4, <1>5, <1>6, <1>7, <1>9, <1>10, <1>11, <1>12, <1>13, <1>14, <1>15, <1>16, <1>17
        DEF Next, Drain, Run, Operator

LEMMA JobsFunction ==
  ASSUME Typed, [Next]_vars
  PROVE  jobs' = [j \in JobIds |-> jobs'[j]]
<1>1. jobs \in [JobIds -> JobRows] /\ Recovered = [j \in JobIds |-> Recovered[j]]
  BY DEF Typed, TypeOK, Recovered
<1>2. ASSUME NEW l \in Lanes, Claim(l) \/ Recover(l)
      PROVE  jobs' = [j \in JobIds |-> jobs'[j]]
  <2>1. CASE Recover(l)
    BY <1>1, <2>1 DEF Recover
  <2>2. CASE Claim(l)
    <3>1. PICK j \in JobIds :
            jobs' = [Recovered EXCEPT ![j].status = "running", ![j].owner = l,
                                      ![j].attempts = @ + 1, ![j].gen = @ + 1]
      BY <2>2 DEF Claim
    <3> QED BY <1>1, <3>1
  <2> QED BY <1>2, <2>1, <2>2
<1>3. ASSUME NEW l \in Lanes, Admit(l) \/ Defer(l) \/ Settle(l) \/ Complete(l) \/ Fail(l)
      PROVE  jobs' = [j \in JobIds |-> jobs'[j]]
  BY <1>1, <1>3 DEF Admit, Defer, Settle, Complete, Fail
<1>4. ASSUME jobs' = RetryQueued PROVE jobs' = [j \in JobIds |-> jobs'[j]]
  BY <1>1, <1>4 DEF RetryQueued
<1>5. ASSUME NEW l \in Lanes,
              \/ Sweep(l) \/ StartRetry(l) \/ Abandon(l) \/ Check(l) \/ StartFallback(l)
              \/ Analyse(l) \/ Deliver(l) \/ Release(l) \/ Stamp(l) \/ Crash(l)
       PROVE  jobs' = jobs
  BY <1>5 DEF Sweep, StartRetry, Abandon, Check, StartFallback, Analyse, Deliver, Release,
              Stamp, Crash
<1>6. ASSUME NEW j \in JobIds, Lapse(j) \/ CancelJob(j) \/ RetryJob(j)
      PROVE  jobs' = [i \in JobIds |-> jobs'[i]]
  BY <1>1, <1>6 DEF Lapse, CancelJob, RetryJob
<1>7. CASE GrowOld \/ RetryDelivery \/ ReleaseCancelled \/ ApiCrash \/ UNCHANGED vars
  BY <1>1, <1>7 DEF GrowOld, RetryDelivery, ReleaseCancelled, ApiCrash, vars
<1> QED BY <1>1, <1>2, <1>3, <1>4, <1>5, <1>6, <1>7
        DEF Next, Drain, Run, Operator, Requeue, Reopen

LEMMA JobsTyped ==
  ASSUME Typed, [Next]_vars
  PROVE  jobs' \in [JobIds -> JobRows]
<1>1. ASSUME NEW j \in JobIds PROVE jobs'[j] \in JobRows
  <2>1. /\ JobSteps /\ JobIds = {"retry", "fallback"}
        /\ j = "retry" \/ j = "fallback"
    BY StepJobs DEF JobIds
  <2> QED BY <2>1 DEF JobSteps, JobRequeued, RetryRenewed, Admitted, Goes, Stops, Starts, Lapses,
                      Requeues, Renews
<1> QED BY <1>1, JobsFunction

(* A running job has counted an attempt, and only a running one lapses.    *)
LEMMA JobsCounted ==
  ASSUME Typed, [Next]_vars
  PROVE  Counted' /\ LapsedRuns'
<1> SUFFICES ASSUME NEW j \in JobIds
             PROVE  /\ (jobs[j].status = "running" => jobs[j].attempts >= 1)'
                    /\ (jobs[j].lapsed => jobs[j].status = "running")'
  BY DEF Counted, LapsedRuns
<1>1. /\ jobs[j].status = "running" => jobs[j].attempts >= 1
      /\ jobs[j].lapsed => jobs[j].status = "running"
  BY DEF Typed, Counted, LapsedRuns
<1>2. JobSteps /\ JobIds = {"retry", "fallback"} /\ (j = "retry" \/ j = "fallback")
  BY StepJobs DEF JobIds
<1>3. Stops(j) \/ Starts(j) \/ Lapses(j) \/ Renews(j) \/ Requeues(j)
  BY <1>2 DEF JobSteps, JobRequeued, RetryRenewed, Admitted, Goes
<1> QED BY <1>1, <1>3 DEF Stops, Starts, Lapses, Renews, Requeues

(***************************************************************************)
(* What a step makes of the lanes.                                         *)
(***************************************************************************)
Others(l) == \A k \in Lanes \ {l} : lane'[k] = lane[k]

\* The lane goes on with the claim it has.
Keeps(l) ==
  /\ lane'[l].job = lane[l].job /\ lane'[l].gen = lane[l].gen /\ lane'[l].hold = lane[l].hold
  /\ Others(l)

Idles(l) == lane'[l] = Idle /\ Others(l)

\* What it reads of the row before it may admit a replay, it reads here.
Moves(l) ==
  /\ Keeps(l)
  /\ lane'[l].pc = "checking" => StartRetry(l)
  /\ lane'[l].pc = "admitting" => Check(l)

LaneSteps ==
  \/ lane' = lane
  \/ \E l \in Lanes : Moves(l) \/ Idles(l)
  \/ \E l \in Lanes, j \in JobIds : Takes(l, j)

LanesTyped == lane' \in [Lanes -> LaneStates]

LEMMA IdleType == Idle \in LaneStates
  BY DEF Idle, LaneStates, Steps

LEMMA GotoFacts ==
  ASSUME lane \in [Lanes -> LaneStates], NEW l \in Lanes, NEW step \in Steps, Goto(l, step)
  PROVE  /\ LanesTyped /\ Keeps(l)
         /\ lane'[l].pc = step /\ lane'[l].replay = lane[l].replay
         /\ lane'[l].count = lane[l].count
  BY DEF Goto, LanesTyped, Keeps, Others, LaneStates

LEMMA RestFacts ==
  ASSUME lane \in [Lanes -> LaneStates], NEW l \in Lanes, lane' = [lane EXCEPT ![l] = Idle]
  PROVE  LanesTyped /\ Idles(l)
  BY IdleType DEF LanesTyped, Idles, Others

\* Placed, of one lane.
PlacedAt(s) ==
  /\ s.pc = "idle" => s = Idle
  /\ s.pc \in RetrySteps => s.job = "retry"
  /\ s.pc \in FallbackSteps => s.job = "fallback"
  /\ s.pc \in {"delivering", "failing"} => s.job \in JobIds

LEMMA IdlePlaced == PlacedAt(Idle)
  BY DEF PlacedAt, Idle, RetrySteps, FallbackSteps

LEMMA OnePlaced ==
  ASSUME Placed, NEW l \in Lanes, Others(l), PlacedAt(lane'[l])
  PROVE  Placed'
  BY DEF Placed, Others, PlacedAt

LanesSound == LanesTyped /\ Placed' /\ LaneSteps

LEMMA SameLanes ==
  ASSUME Typed, lane' = lane
  PROVE  LanesSound
  BY DEF Typed, TypeOK, Placed, LanesSound, LanesTyped, LaneSteps

LEMMA RestSteps ==
  ASSUME Typed, NEW l \in Lanes, Rest(l)
  PROVE  LanesSound
<1>1. LanesTyped /\ Idles(l)
  BY RestFacts DEF Rest, Typed, TypeOK
<1>2. Placed'
  BY <1>1, IdlePlaced, OnePlaced DEF Idles, Typed
<1> QED BY <1>1, <1>2 DEF LanesSound, LaneSteps

LEMMA GotoSteps ==
  ASSUME Typed, NEW l \in Lanes, NEW step \in Steps \ {"idle", "checking", "admitting"},
         Goto(l, step),
         step \in RetrySteps => lane[l].job = "retry",
         step \in FallbackSteps => lane[l].job = "fallback",
         step \in {"delivering", "failing"} => lane[l].job \in JobIds
  PROVE  LanesSound
<1>1. LanesTyped /\ Keeps(l) /\ lane'[l].pc = step
  BY GotoFacts DEF Typed, TypeOK
<1>2. PlacedAt(lane'[l])
  BY <1>1 DEF PlacedAt, Keeps
<1>3. Placed'
  BY <1>1, <1>2, OnePlaced DEF Keeps, Typed
<1> QED BY <1>1, <1>3 DEF LanesSound, LaneSteps, Moves

LEMMA StepLanes ==
  ASSUME Typed, [Next]_vars
  PROVE  LanesSound
<1>1. ASSUME NEW l \in Lanes, Claim(l) PROVE LanesSound
  <2>1. PICK j \in JobIds : Takes(l, j)
    BY <1>1, ClaimFacts
  <2> DEFINE s == [Idle EXCEPT !.pc = j, !.job = j, !.gen = jobs'[j].gen,
                               !.replay = jobs'[j].replay, !.hold = jobs'[j].hold]
  <2>2. jobs'[j] \in JobRows /\ lane' = [lane EXCEPT ![l] = s]
    BY <2>1 DEF Takes, Starts
  <2>3. s \in LaneStates /\ s.pc = j /\ s.job = j
    BY <2>2 DEF JobRows, LaneStates, Idle, Steps, JobIds
  <2>4. PlacedAt(s)
    BY <2>3 DEF PlacedAt, RetrySteps, FallbackSteps, JobIds
  <2> HIDE DEF s
  <2>5. LanesTyped /\ Others(l) /\ lane'[l] = s
    BY <2>2, <2>3 DEF Typed, TypeOK, LanesTyped, Others
  <2>6. Placed'
    BY <2>4, <2>5, OnePlaced DEF Typed
  <2> QED BY <2>1, <2>5, <2>6 DEF LanesSound, LaneSteps
<1>2. ASSUME NEW l \in Lanes, StartRetry(l) PROVE LanesSound
  <2>1. lane[l].pc = "retry" /\ lane[l].job = "retry"
    BY <1>2 DEF StartRetry, Typed, Placed, RetrySteps
  <2>2. PICK step \in {"completing", "abandoning", "delivering", "checking"} : Goto(l, step)
    BY <1>2 DEF StartRetry
  <2>3. CASE step # "checking"
    BY <2>1, <2>2, <2>3, GotoSteps DEF Steps, RetrySteps, FallbackSteps, JobIds
  <2>4. CASE step = "checking"
    <3>1. LanesTyped /\ Keeps(l) /\ lane'[l].pc = step
      BY <2>2, GotoFacts DEF Typed, TypeOK, Steps
    <3>2. PlacedAt(lane'[l])
      BY <2>1, <2>4, <3>1 DEF PlacedAt, Keeps, RetrySteps, FallbackSteps
    <3>3. Placed'
      BY <3>1, <3>2, OnePlaced DEF Keeps, Typed
    <3> QED BY <1>2, <2>4, <3>1, <3>3 DEF LanesSound, LaneSteps, Moves
  <2> QED BY <2>3, <2>4
<1>3. ASSUME NEW l \in Lanes, Check(l) PROVE LanesSound
  <2>1. lane[l].pc = "checking" /\ lane[l].job = "retry"
    BY <1>3 DEF Check, Typed, Placed, RetrySteps
  <2>2. CASE \E step \in {"completing", "deferring", "abandoning"} : Goto(l, step)
    BY <2>1, <2>2, GotoSteps DEF Steps, RetrySteps, FallbackSteps, JobIds
  <2>3. CASE lane' = [lane EXCEPT ![l].pc = "admitting", ![l].replay = row.gen,
                                  ![l].count = row.count]
    <3>1. /\ lane \in [Lanes -> LaneStates] /\ lane[l] \in LaneStates
          /\ row.gen \in Nat /\ row.count \in Nat
      BY DEF Typed, TypeOK, Rows
    <3> DEFINE s == [lane[l] EXCEPT !.pc = "admitting", !.replay = row.gen, !.count = row.count]
    <3>2. /\ s \in LaneStates /\ s.pc = "admitting" /\ s.job = "retry"
          /\ s.gen = lane[l].gen /\ s.hold = lane[l].hold
      BY <2>1, <3>1 DEF LaneStates, Steps
    <3>3. lane' = [lane EXCEPT ![l] = s]
      BY <2>3, <3>1
    <3> HIDE DEF s
    <3>4. LanesTyped /\ lane'[l] = s /\ Keeps(l)
      BY <2>1, <3>1, <3>2, <3>3 DEF LanesTyped, Keeps, Others
    <3>5. PlacedAt(s)
      BY <3>2 DEF PlacedAt, RetrySteps, FallbackSteps
    <3>6. Placed'
      BY <3>4, <3>5, OnePlaced DEF Keeps, Typed
    <3> QED BY <1>3, <3>2, <3>4, <3>6 DEF LanesSound, LaneSteps, Moves
  <2> QED BY <1>3, <2>2, <2>3 DEF Check
<1>4. ASSUME NEW l \in Lanes, Sweep(l) PROVE LanesSound
  <2>1. lane[l] = Idle /\ lane \in [Lanes -> LaneStates] /\ jobs["fallback"].replay \in Nat
    BY <1>4 DEF Sweep, Typed, TypeOK, Placed, JobRows, JobIds
  <2> DEFINE s == [Idle EXCEPT !.pc = "releasing", !.replay = jobs["fallback"].replay]
  <2>2. /\ s \in LaneStates /\ s.pc = "releasing"
        /\ s.job = Idle.job /\ s.gen = Idle.gen /\ s.hold = Idle.hold
    BY <2>1 DEF LaneStates, Steps, Idle
  <2>3. lane' = [lane EXCEPT ![l] = s]
    BY <1>4, <2>1 DEF Sweep
  <2> HIDE DEF s
  <2>4. LanesTyped /\ lane'[l] = s /\ Keeps(l)
    BY <2>1, <2>2, <2>3 DEF LanesTyped, Keeps, Others
  <2>5. Placed'
    BY <2>2, <2>4, OnePlaced DEF Keeps, Typed, PlacedAt, RetrySteps, FallbackSteps
  <2> QED BY <2>2, <2>4, <2>5 DEF LanesSound, LaneSteps, Moves
<1>5. ASSUME NEW l \in Lanes, Admit(l) PROVE LanesSound
  <2>1. lane[l].job = "retry" /\ (AdmitFails(l) \/ AdmitRefused(l) \/ Admitted(l))
    BY <1>5, AdmitFacts
  <2>2. CASE AdmitFails(l)
    BY <2>1, <2>2, GotoSteps DEF AdmitFails, Goto, Steps, RetrySteps, FallbackSteps, JobIds
  <2>3. CASE AdmitRefused(l) \/ Admitted(l)
    BY <2>3, RestSteps DEF AdmitRefused, Admitted, Rest
  <2> QED BY <2>1, <2>2, <2>3
<1>6. ASSUME NEW l \in Lanes, Abandon(l) PROVE LanesSound
  BY <1>6, GotoSteps DEF Abandon, Steps, RetrySteps, FallbackSteps, Typed, Placed
<1>7. ASSUME NEW l \in Lanes, StartFallback(l) PROVE LanesSound
  BY <1>7, GotoSteps DEF StartFallback, Steps, RetrySteps, FallbackSteps, Typed, Placed
<1>8. ASSUME NEW l \in Lanes, Analyse(l) PROVE LanesSound
  BY <1>8, GotoSteps DEF Analyse, Steps, RetrySteps, FallbackSteps, Typed, Placed, JobIds
<1>9. ASSUME NEW l \in Lanes, Deliver(l) PROVE LanesSound
  BY <1>9, GotoSteps DEF Deliver, Steps, RetrySteps, FallbackSteps, Typed, Placed, JobIds
<1>10. ASSUME NEW l \in Lanes, Requeue(l) PROVE LanesSound
  BY <1>10, GotoSteps DEF Requeue, Steps, RetrySteps, FallbackSteps, Typed, Placed
<1>11. ASSUME NEW l \in Lanes, Settle(l) PROVE LanesSound
  <2>1. CASE Goto(l, "failing")
    BY <1>11, <2>1, GotoSteps DEF Settle, Steps, RetrySteps, FallbackSteps, Typed, Placed, JobIds
  <2> QED BY <1>11, <2>1, RestSteps DEF Settle
<1>12. ASSUME NEW l \in Lanes, Fail(l) PROVE LanesSound
  <2>1. CASE Goto(l, "releasing")
    BY <2>1, GotoSteps DEF Steps, RetrySteps, FallbackSteps
  <2> QED BY <1>12, <2>1, RestSteps DEF Fail
<1>13. ASSUME NEW l \in Lanes, Release(l) PROVE LanesSound
  BY <1>13, GotoSteps DEF Release, Steps, RetrySteps, FallbackSteps
<1>14. ASSUME NEW l \in Lanes, Defer(l) \/ Complete(l) \/ Stamp(l) \/ Crash(l) PROVE LanesSound
  BY <1>14, RestSteps DEF Defer, Complete, Stamp, Crash
<1>15. ASSUME NEW l \in Lanes, Recover(l) PROVE LanesSound
  BY <1>15, SameLanes DEF Recover
<1>16. ASSUME NEW j \in JobIds, Lapse(j) \/ CancelJob(j) \/ RetryJob(j) PROVE LanesSound
  BY <1>16, SameLanes DEF Lapse, CancelJob, RetryJob
<1>17. CASE GrowOld \/ RetryDelivery \/ Reopen \/ ReleaseCancelled \/ ApiCrash \/ UNCHANGED vars
  BY <1>17, SameLanes DEF GrowOld, RetryDelivery, Reopen, ReleaseCancelled, ApiCrash, vars
<1> QED BY <1>1, <1>2, <1>3, <1>4, <1>5, <1>6, <1>7, <1>8, <1>9, <1>10, <1>11, <1>12, <1>13, <1>14,
           <1>15, <1>16, <1>17
        DEF Next, Drain, Run, Operator

(***************************************************************************)
(* What a step makes of the row.                                           *)
(***************************************************************************)
Final == {"draft", "rejected", "github_delivery_abandoned"}

\* No new replay is counted, and a recorded draft stands.
Rewrites ==
  /\ row' \in Rows
  /\ row'.gen = row.gen /\ row'.count = row.count
  /\ row.recorded => row'.recorded /\ (row'.status = row.status \/ row'.status \in Final)
  /\ row'.recorded /\ ~row.recorded => row'.status \in Final

LEMMA RowKept ==
  ASSUME Typed, row' = row
  PROVE  Rewrites
  BY DEF Typed, TypeOK, Rewrites

LEMMA WithoutDraftFacts ==
  ASSUME Typed, NEW status \in RowStatuses, row' = WithoutDraft(row, status)
  PROVE  Rewrites
  BY DEF Typed, TypeOK, Rewrites, WithoutDraft, Undelivered, Rows

LEMMA StatusFacts ==
  ASSUME Typed, NEW status \in Final, row' = [row EXCEPT !.status = status]
  PROVE  Rewrites
  BY DEF Typed, TypeOK, Rewrites, Rows, Final, RowStatuses

LEMMA WithDraftFacts ==
  ASSUME Typed, row' = WithDraft(row)
  PROVE  Rewrites
  BY DEF Typed, TypeOK, Rewrites, Rows, WithDraft, Final, RowStatuses

LEMMA BlockedFacts ==
  ASSUME Typed, NEW code \in Codes, row' = Blocked(row, code)
  PROVE  Rewrites
  BY DEF Typed, TypeOK, Rewrites, Rows, Blocked, Undelivered, RowStatuses

LEMMA StampedFacts ==
  ASSUME Typed, NEW g, row' = Stamped(row, g)
  PROVE  Rewrites
  BY DEF Typed, TypeOK, Rewrites, Rows, Stamped, Undelivered, Codes

Counts(l) ==
  /\ Admit(l) /\ Admitted(l)
  /\ row' \in Rows
  /\ row'.gen = row.gen /\ row'.recorded = row.recorded /\ row'.status = row.status
  /\ row'.count = IF row.recorded THEN row.count ELSE row.count + 1

Reopens ==
  /\ Reopen
  /\ row' \in Rows
  /\ row'.recorded = row.recorded /\ row'.count = 0
  /\ row'.gen = IF row.recorded THEN row.gen ELSE row.gen + 1
  /\ row.recorded => "recorded" \in races'

RowSteps == Rewrites \/ (\E l \in Lanes : Counts(l)) \/ Reopens

LEMMA StepRow ==
  ASSUME Typed, [Next]_vars
  PROVE  RowSteps
<1>1. ASSUME row' = row PROVE RowSteps
  BY <1>1, RowKept DEF RowSteps
<1>2. ASSUME NEW l \in Lanes, StartRetry(l) PROVE RowSteps
  <2>1. row' = row \/ row' = WithoutDraft(row, "delivery_pending")
    BY <1>2 DEF StartRetry
  <2> QED BY <1>1, <2>1, WithoutDraftFacts DEF RowSteps, RowStatuses
<1>3. ASSUME NEW l \in Lanes, Abandon(l) PROVE RowSteps
  BY <1>3, StatusFacts DEF Abandon, RowSteps, Final
<1>4. ASSUME NEW l \in Lanes, Check(l) PROVE RowSteps
  <2>1. row' = row \/ row' = Blocked(row, "replay_unavailable")
    BY <1>4 DEF Check
  <2> QED BY <1>1, <2>1, BlockedFacts DEF RowSteps, Codes
<1>5. ASSUME NEW l \in Lanes, Admit(l) PROVE RowSteps
  <2>1. AdmitFails(l) \/ AdmitRefused(l) \/ Admitted(l)
    BY <1>5, AdmitFacts
  <2>2. CASE AdmitFails(l)
    BY <1>1, <2>2 DEF AdmitFails
  <2>3. CASE AdmitRefused(l)
    BY <2>3, BlockedFacts DEF AdmitRefused, RowSteps, Codes
  <2>4. CASE Admitted(l)
    <3>1. row \in Rows /\ row' = IF row.recorded THEN row ELSE [row EXCEPT !.count = row.count + 1]
      BY <2>4 DEF Admitted, Typed, TypeOK, Undelivered
    <3>2. row.count + 1 \in Nat
      BY <3>1 DEF Rows
    <3>3. /\ row' \in Rows
          /\ row'.gen = row.gen /\ row'.recorded = row.recorded /\ row'.status = row.status
          /\ row'.count = IF row.recorded THEN row.count ELSE row.count + 1
      BY <3>1, <3>2 DEF Rows
    <3> QED BY <1>5, <2>4, <3>3 DEF Counts, RowSteps
  <2> QED BY <2>1, <2>2, <2>3, <2>4
<1>6. ASSUME NEW l \in Lanes, Analyse(l) PROVE RowSteps
  <2>1. \/ row' = row
        \/ \E status \in {"delivery_failed", "delivery_pending"} : row' = WithoutDraft(row, status)
        \/ row' = [row EXCEPT !.status = "rejected"]
    BY <1>6 DEF Analyse
  <2> QED BY <1>1, <2>1, WithoutDraftFacts, StatusFacts DEF RowSteps, RowStatuses, Final
<1>7. ASSUME NEW l \in Lanes, Deliver(l) PROVE RowSteps
  <2>1. \/ row' = row
        \/ \E status \in {"delivery_failed", "delivery_blocked"} : row' = WithoutDraft(row, status)
        \/ row' = WithDraft(row)
    BY <1>7 DEF Deliver
  <2> QED BY <1>1, <2>1, WithoutDraftFacts, WithDraftFacts DEF RowSteps, RowStatuses
<1>8. ASSUME NEW l \in Lanes, Stamp(l) PROVE RowSteps
  BY <1>8, StampedFacts DEF Stamp, RowSteps
<1>9. CASE RetryDelivery
  <2>1. row' = row \/ row' = Blocked(row, "replay_unavailable")
    BY <1>9 DEF RetryDelivery
  <2> QED BY <1>1, <2>1, BlockedFacts DEF RowSteps, Codes
<1>10. CASE Reopen
  <2>1. row \in Rows /\ row.gen \in Nat /\ row.gen + 1 \in Nat /\ row' = Reopened(row)
    BY <1>10 DEF Typed, TypeOK, Rows, Reopen
  <2>2. /\ row' \in Rows
        /\ row'.recorded = row.recorded /\ row'.count = 0
        /\ row'.gen = IF row.recorded THEN row.gen ELSE row.gen + 1
    BY <2>1 DEF Reopened, Undelivered, Rows, RowStatuses, Codes
  <2>3. row.recorded => "recorded" \in races'
    BY <1>10 DEF Reopen
  <2> QED BY <1>10, <2>2, <2>3 DEF RowSteps, Reopens
<1>11. ASSUME NEW l \in Lanes,
              \/ Drain(l) \/ Defer(l) \/ StartFallback(l) \/ Requeue(l) \/ Settle(l)
              \/ Complete(l) \/ Fail(l) \/ Release(l) \/ Crash(l)
       PROVE  row' = row
  BY <1>11 DEF Drain, Claim, Recover, Sweep, Defer, StartFallback, Requeue, Settle, Complete, Fail,
               Release, Crash
<1>12. ASSUME NEW j \in JobIds, Lapse(j) \/ CancelJob(j) \/ RetryJob(j) PROVE row' = row
  BY <1>12 DEF Lapse, CancelJob, RetryJob
<1>13. CASE GrowOld \/ ReleaseCancelled \/ ApiCrash \/ UNCHANGED vars
  BY <1>1, <1>13 DEF GrowOld, ReleaseCancelled, ApiCrash, vars
<1> QED BY <1>1, <1>2, <1>3, <1>4, <1>5, <1>6, <1>7, <1>8, <1>9, <1>10, <1>11, <1>12, <1>13
        DEF Next, Run, Operator

LEMMA StepRaces ==
  ASSUME Typed, [Next]_vars
  PROVE  races \subseteq races' /\ races' \subseteq Races
<1>1. races \subseteq Races
  BY DEF Typed, TypeOK
<1>2. ASSUME NEW l \in Lanes, Drain(l)
      PROVE  races' = races
  BY <1>2 DEF Drain, Claim, Recover, Sweep
<1>3. ASSUME NEW l \in Lanes, Run(l)
      PROVE  races \subseteq races' /\ races' \subseteq Races
  BY <1>1, <1>3 DEF Run, StartRetry, Abandon, Check, Defer, Admit, StartFallback, Analyse, Deliver,
                    Requeue, Settle, Complete, Fail, Release, Stamp, NotedIf, Races
<1>4. ASSUME NEW l \in Lanes, Crash(l) PROVE races' = races
  BY <1>4 DEF Crash
<1>5. ASSUME NEW j \in JobIds, Lapse(j) \/ CancelJob(j) \/ RetryJob(j)
      PROVE  races \subseteq races' /\ races' \subseteq Races
  BY <1>1, <1>5 DEF Lapse, CancelJob, RetryJob, Noted, Races
<1>6. CASE GrowOld \/ RetryDelivery \/ Reopen \/ ReleaseCancelled \/ ApiCrash \/ UNCHANGED vars
  BY <1>1, <1>6 DEF GrowOld, RetryDelivery, Reopen, ReleaseCancelled, ApiCrash, vars, Races
<1> QED BY <1>1, <1>2, <1>3, <1>4, <1>5, <1>6 DEF Next, Operator

(***************************************************************************)
(* What a step makes of the ledger and of the operator's request.          *)
(***************************************************************************)
\* Holds are settled or released, none is reserved.
Lowers ==
  /\ holds' \in [Keys -> HoldStates]
  /\ \A k \in Keys : /\ holds'[k] = "unused" <=> holds[k] = "unused"
                     /\ holds'[k] = "open" => holds[k] = "open"

Reserves(l) ==
  LET key == <<lane[l].replay, lane[l].count>>
  IN  /\ Admit(l) /\ Admitted(l)
      /\ holds' \in [Keys -> HoldStates]
      /\ key \in Keys
      /\ \A k \in Keys : holds'[k] = "open" => Enforced /\ k = key
      /\ \A k \in Keys \ {key} : holds'[k] = "unused" <=> holds[k] = "unused"
      /\ Enforced => holds'[key] # "unused" /\ (holds[key] = "unused" => holds'[key] = "open")
      /\ ~Enforced => (holds'[key] = "unused" <=> holds[key] = "unused")

HoldSteps == Lowers \/ \E l \in Lanes : Reserves(l)

LEMMA WithoutOpenFacts ==
  ASSUME holds \in [Keys -> HoldStates]
  PROVE  /\ WithoutOpenHolds \in [Keys -> HoldStates]
         /\ \A k \in Keys : /\ WithoutOpenHolds[k] # "open"
                            /\ WithoutOpenHolds[k] = "unused" <=> holds[k] = "unused"
  BY DEF WithoutOpenHolds, HoldStates

LEMMA HoldsKept ==
  ASSUME Typed, holds' = holds
  PROVE  Lowers
  BY DEF Typed, TypeOK, Lowers

LEMMA OpensReleased ==
  ASSUME Typed, holds' = WithoutOpenHolds
  PROVE  Lowers
  BY WithoutOpenFacts DEF Typed, TypeOK, Lowers

LEMMA OneClosed ==
  ASSUME Typed, NEW k \in Keys, NEW state \in {"settled", "released"}, holds[k] = "open",
         holds' = [holds EXCEPT ![k] = state]
  PROVE  Lowers
  BY DEF Typed, TypeOK, Lowers, HoldStates

LEMMA AdmitReserves ==
  ASSUME Typed, NEW l \in Lanes, Admit(l), Admitted(l)
  PROVE  Reserves(l)
<1> DEFINE key == <<lane[l].replay, lane[l].count>>
           W == WithoutOpenHolds
<1>1. key \in Keys /\ holds \in [Keys -> HoldStates]
  BY DEF Typed, TypeOK, Bounded, Admit
<1>2. /\ W \in [Keys -> HoldStates]
      /\ \A k \in Keys : W[k] # "open" /\ (W[k] = "unused" <=> holds[k] = "unused")
  BY <1>1, WithoutOpenFacts
<1>3. holds' = IF Enforced /\ W[key] = "unused" THEN [W EXCEPT ![key] = "open"] ELSE W
  BY DEF Admitted, Reserved
<1> HIDE DEF W, key
<1>4. /\ holds' \in [Keys -> HoldStates]
      /\ \A k \in Keys : holds'[k] = "open" => Enforced /\ k = key
      /\ \A k \in Keys \ {key} : holds'[k] = "unused" <=> holds[k] = "unused"
      /\ Enforced => holds'[key] # "unused" /\ (holds[key] = "unused" => holds'[key] = "open")
      /\ ~Enforced => (holds'[key] = "unused" <=> holds[key] = "unused")
  BY <1>1, <1>2, <1>3 DEF HoldStates
<1> QED BY <1>1, <1>4 DEF Reserves, key

LEMMA StepHolds ==
  ASSUME Typed, Named, [Next]_vars
  PROVE  HoldSteps
<1>1. ASSUME holds' = holds PROVE HoldSteps
  BY <1>1, HoldsKept DEF HoldSteps
<1>2. ASSUME NEW l \in Lanes, Admit(l) PROVE HoldSteps
  <2>1. AdmitFails(l) \/ AdmitRefused(l) \/ Admitted(l)
    BY <1>2, AdmitFacts
  <2>2. CASE AdmitFails(l)
    BY <1>1, <2>2 DEF AdmitFails
  <2>3. CASE AdmitRefused(l)
    BY <2>3, OpensReleased DEF AdmitRefused, HoldSteps
  <2>4. CASE Admitted(l)
    BY <1>2, <2>4, AdmitReserves DEF HoldSteps
  <2> QED BY <2>1, <2>2, <2>3, <2>4
<1>3. ASSUME NEW l \in Lanes, Settle(l) PROVE HoldSteps
  <2>1. \/ holds' = holds
        \/ lane[l].hold # NoHold /\ holds[lane[l].hold] = "open"
           /\ holds' = [holds EXCEPT ![lane[l].hold] = "settled"]
    BY <1>3 DEF Settle
  <2>2. lane[l].hold \in Keys \cup {NoHold}
    BY DEF Typed, TypeOK, LaneStates
  <2> QED BY <1>1, <2>1, <2>2, OneClosed DEF HoldSteps
<1>4. ASSUME NEW l \in Lanes, Release(l) PROVE HoldSteps
  BY <1>4, OpensReleased DEF Release, HoldSteps
<1>5. CASE ReleaseCancelled
  <2>1. /\ api.hold \in Keys /\ holds \in [Keys -> HoldStates]
        /\ holds' = [holds EXCEPT ![api.hold] = IF @ = "open" THEN "released" ELSE @]
    BY <1>5 DEF ReleaseCancelled, Named, Typed, TypeOK
  <2>2. holds' = holds \/ (holds[api.hold] = "open" /\ holds' = [holds EXCEPT ![api.hold] = "released"])
    BY <2>1
  <2> QED BY <1>1, <2>1, <2>2, OneClosed DEF HoldSteps
<1>6. ASSUME NEW l \in Lanes,
             \/ Drain(l) \/ StartRetry(l) \/ Abandon(l) \/ Check(l) \/ Defer(l) \/ StartFallback(l)
             \/ Analyse(l) \/ Deliver(l) \/ Requeue(l) \/ Complete(l) \/ Fail(l) \/ Stamp(l) \/ Crash(l)
      PROVE  holds' = holds
  BY <1>6 DEF Drain, Claim, Recover, Sweep, StartRetry, Abandon, Check, Defer, StartFallback,
              Analyse, Deliver, Requeue, Complete, Fail, Stamp, Crash
<1>7. ASSUME NEW j \in JobIds, Lapse(j) \/ CancelJob(j) \/ RetryJob(j) PROVE holds' = holds
  BY <1>7 DEF Lapse, CancelJob, RetryJob
<1>8. CASE GrowOld \/ RetryDelivery \/ Reopen \/ ApiCrash \/ UNCHANGED vars
  BY <1>1, <1>8 DEF GrowOld, RetryDelivery, Reopen, ApiCrash, vars
<1> QED BY <1>1, <1>2, <1>3, <1>4, <1>5, <1>6, <1>7, <1>8 DEF Next, Run, Operator

(* The request names a hold only to cancel it.                             *)
ApiSteps ==
  \/ api' = api
  \/ api' = NoRequest
  \/ RetryDelivery /\ api'.op = "retrying" /\ api'.hold = NoHold
  \/ \E j \in JobIds : /\ CancelJob(j) /\ jobs[j].hold \in Keys
                       /\ api'.op = "cancelling" /\ api'.hold = jobs[j].hold

LEMMA StepApi ==
  ASSUME Typed, [Next]_vars
  PROVE  ApiSteps /\ api' \in Requests
<1>1. api \in Requests /\ NoRequest \in Requests
  BY DEF Typed, TypeOK, Requests, NoRequest
<1>2. ASSUME NEW l \in Lanes, Drain(l) \/ Crash(l) PROVE api' = api
  BY <1>2 DEF Drain, Claim, Recover, Sweep, Crash
<1>3. ASSUME NEW l \in Lanes, Run(l) PROVE api' = api
  BY <1>3 DEF Run, StartRetry, Abandon, Check, Defer, Admit, StartFallback, Analyse, Deliver, Requeue,
              Settle, Complete, Fail, Release, Stamp
<1>4. ASSUME NEW j \in JobIds, Lapse(j) \/ RetryJob(j) PROVE api' = api
  BY <1>4 DEF Lapse, RetryJob
<1>5. ASSUME NEW j \in JobIds, CancelJob(j) PROVE ApiSteps /\ api' \in Requests
  <2>1. jobs[j].hold \in Keys \cup {NoHold}
    BY DEF Typed, TypeOK, JobRows
  <2>2. api' = IF jobs[j].hold = NoHold THEN api ELSE [op |-> "cancelling", hold |-> jobs[j].hold]
    BY <1>5 DEF CancelJob
  <2> QED BY <1>1, <1>5, <2>1, <2>2 DEF ApiSteps, Requests
<1>6. CASE RetryDelivery
  BY <1>1, <1>6 DEF RetryDelivery, ApiSteps, NoRequest, Requests
<1>7. CASE GrowOld \/ Reopen \/ ReleaseCancelled \/ ApiCrash \/ UNCHANGED vars
  BY <1>1, <1>7 DEF GrowOld, Reopen, ReleaseCancelled, ApiCrash, vars, ApiSteps
<1> QED BY <1>1, <1>2, <1>3, <1>4, <1>5, <1>6, <1>7 DEF Next, Operator, ApiSteps

(***************************************************************************)
(* The types.                                                              *)
(***************************************************************************)
LEMMA SpendFacts ==
  ASSUME Typed, NEW kind \in {"requests", "crashes", "stalls"}, NEW limit, Spend(kind, limit)
  PROVE  spent' \in [{"requests", "crashes", "stalls"} -> Nat]
<1>1. spent \in [{"requests", "crashes", "stalls"} -> Nat] /\ spent[kind] + 1 \in Nat
  BY DEF Typed, TypeOK
<1> QED BY <1>1 DEF Spend

LEMMA StepRest ==
  ASSUME Typed, [Next]_vars
  PROVE  /\ {artifact', origin', aged'} \subseteq BOOLEAN
         /\ spent' \in [{"requests", "crashes", "stalls"} -> Nat]
<1>1. /\ {artifact, origin, aged} \subseteq BOOLEAN
      /\ spent \in [{"requests", "crashes", "stalls"} -> Nat]
  BY DEF Typed, TypeOK
<1>2. ASSUME NEW l \in Lanes, Drain(l)
      PROVE  UNCHANGED <<artifact, origin, aged, spent>>
  BY <1>2 DEF Drain, Claim, Recover, Sweep
<1>3. ASSUME NEW l \in Lanes, Run(l)
      PROVE  artifact' \in {artifact, TRUE} /\ UNCHANGED <<origin, aged, spent>>
  BY <1>3 DEF Run, StartRetry, Abandon, Check, Defer, Admit, StartFallback, Analyse, Deliver,
              Requeue, Settle, Complete, Fail, Release, Stamp
<1>4. ASSUME NEW l \in Lanes, Crash(l)
      PROVE  UNCHANGED <<artifact, origin, aged>>
             /\ spent' \in [{"requests", "crashes", "stalls"} -> Nat]
  BY <1>4, SpendFacts DEF Crash
<1>5. ASSUME NEW j \in JobIds, Lapse(j) \/ CancelJob(j) \/ RetryJob(j)
      PROVE  UNCHANGED <<artifact, origin, aged>>
             /\ spent' \in [{"requests", "crashes", "stalls"} -> Nat]
  BY <1>1, <1>5, SpendFacts DEF Lapse, CancelJob, RetryJob
<1>6. CASE RetryDelivery \/ ApiCrash
  BY <1>1, <1>6, SpendFacts DEF RetryDelivery, ApiCrash
<1>7. CASE GrowOld \/ Reopen \/ ReleaseCancelled \/ UNCHANGED vars
  BY <1>1, <1>7 DEF GrowOld, Reopen, ReleaseCancelled, vars
<1> QED BY <1>1, <1>2, <1>3, <1>4, <1>5, <1>6, <1>7 DEF Next, Operator

LEMMA CheckReads ==
  ASSUME Typed, NEW l \in Lanes, Check(l), lane'[l].pc = "admitting"
  PROVE  /\ lane[l].pc = "checking"
         /\ lane'[l].replay = row.gen /\ lane'[l].count = row.count
         /\ row.count < MaxReplays
         /\ row' = row /\ jobs' = jobs /\ holds' = holds /\ ~Live("fallback")
<1>1. lane \in [Lanes -> LaneStates] /\ row.count \in Nat
  BY DEF Typed, TypeOK, Rows
<1>2. \A step \in Steps : Goto(l, step) => lane'[l].pc = step
  BY <1>1, GotoFacts
<1> QED BY <1>1, <1>2 DEF Check, Steps, LaneStates

LEMMA StepBounded ==
  ASSUME Typed, [Next]_vars
  PROVE  Bounded'
<1>1. /\ row \in Rows /\ row.gen \in Nat /\ row.count \in Nat /\ row.gen <= MaxGeneration
      /\ api.op = "retrying" => row.gen < MaxGeneration
      /\ MaxGeneration \in Nat /\ MaxReplays \in Nat
  BY DEF Typed, TypeOK, Bounded, Rows
<1>2. RowSteps /\ ApiSteps /\ LaneSteps
  BY StepRow, StepApi, StepLanes DEF LanesSound
<1>3. row'.gen <= MaxGeneration
  BY <1>1, <1>2 DEF RowSteps, Rewrites, Counts, Reopens, Reopen
<1>4. ASSUME api'.op = "retrying" PROVE row'.gen < MaxGeneration
  <2>1. ~Reopen
    BY <1>4 DEF Reopen, NoRequest
  <2>2. row'.gen = row.gen
    BY <1>2, <2>1 DEF RowSteps, Rewrites, Counts, Reopens
  <2>3. api' = api \/ RetryDelivery
    BY <1>2, <1>4 DEF ApiSteps, NoRequest
  <2> QED BY <1>1, <1>4, <2>2, <2>3 DEF RetryDelivery
<1>5. ASSUME NEW l \in Lanes, lane'[l].pc = "admitting"
      PROVE  <<lane'[l].replay, lane'[l].count>> \in Keys
  <2>1. lane'[l] = lane[l] \/ Check(l)
    <3>1. \A j \in JobIds : Takes(l, j) => lane'[l].pc # "admitting"
      <4> SUFFICES ASSUME NEW j \in JobIds, Takes(l, j) PROVE lane'[l].pc = j
        BY DEF JobIds
      <4> QED BY DEF Takes, Typed, TypeOK, Idle
    <3>2. \A k \in Lanes, j \in JobIds : Takes(k, j) /\ k # l => lane'[l] = lane[l]
      BY DEF Takes, Typed, TypeOK
    <3>3. Idle.pc = "idle"
      BY DEF Idle
    <3> QED BY <1>2, <1>5, <3>1, <3>2, <3>3 DEF LaneSteps, Moves, Idles, Keeps, Others
  <2>2. CASE lane'[l] = lane[l]
    BY <1>5, <2>2 DEF Typed, Bounded
  <2>3. CASE Check(l)
    <3>1. lane'[l].replay = row.gen /\ lane'[l].count = row.count /\ row.count < MaxReplays
      BY <1>5, <2>3, CheckReads
    <3>2. row.gen \in 0..MaxGeneration /\ row.count \in 0..MaxReplays - 1
      BY <1>1, <3>1
    <3> QED BY <3>1, <3>2 DEF Keys
  <2> QED BY <2>1, <2>2, <2>3
<1> QED BY <1>3, <1>4, <1>5 DEF Bounded

LEMMA StepTyped ==
  ASSUME Typed, Named, [Next]_vars
  PROVE  Typed'
<1>1. row' \in Rows
  BY StepRow DEF RowSteps, Rewrites, Counts, Reopens
<1>2. jobs' \in [JobIds -> JobRows] /\ Counted' /\ LapsedRuns'
  BY JobsTyped, JobsCounted
<1>3. lane' \in [Lanes -> LaneStates] /\ Placed'
  BY StepLanes DEF LanesSound, LanesTyped
<1>4. holds' \in [Keys -> HoldStates]
  BY StepHolds DEF HoldSteps, Lowers, Reserves
<1>5. api' \in Requests /\ races' \subseteq Races
  BY StepApi, StepRaces
<1>6. {artifact', origin', aged'} \subseteq BOOLEAN
      /\ spent' \in [{"requests", "crashes", "stalls"} -> Nat]
  BY StepRest
<1>7. Bounded'
  BY StepBounded
<1> QED BY <1>1, <1>2, <1>3, <1>4, <1>5, <1>6, <1>7 DEF Typed, TypeOK

(***************************************************************************)
(* Generations: a fenced lane is the only one at its job, and the job is   *)
(* as it was when the lane last looked.                                    *)
(***************************************************************************)
\* What becomes of one lane.
Keeping(l) == lane'[l].job = lane[l].job /\ lane'[l].gen = lane[l].gen /\ lane'[l].hold = lane[l].hold

LEMMA OneLane ==
  ASSUME Typed, [Next]_vars, NEW l \in Lanes
  PROVE  \/ lane'[l] = lane[l]
         \/ lane'[l] = Idle
         \/ Moves(l) /\ Keeping(l)
         \/ \E j \in JobIds : Takes(l, j)
<1>1. LaneSteps /\ lane \in [Lanes -> LaneStates]
  BY StepLanes DEF LanesSound, Typed, TypeOK
<1>2. \A k \in Lanes, j \in JobIds : Takes(k, j) /\ k # l => lane'[l] = lane[l]
  BY <1>1 DEF Takes
<1> QED BY <1>1, <1>2 DEF LaneSteps, Moves, Idles, Keeps, Others, Keeping

LEMMA TakenLane ==
  ASSUME Typed, NEW l \in Lanes, NEW j \in JobIds, Takes(l, j)
  PROVE  /\ lane'[l].pc = j /\ lane'[l].job = j /\ lane'[l].gen = jobs'[j].gen
         /\ lane'[l].hold = jobs'[j].hold
         /\ jobs'[j].gen = jobs[j].gen + 1 /\ jobs[j].gen \in Nat
         /\ \A k \in Lanes \ {l} : lane'[k] = lane[k]
<1>1. lane \in [Lanes -> LaneStates] /\ jobs[j].gen \in Nat
  BY DEF Typed, TypeOK, JobRows
<1> QED BY <1>1 DEF Takes, Starts, Idle

LEMMA GenGrows ==
  ASSUME Typed, [Next]_vars, NEW j \in JobIds
  PROVE  jobs'[j].gen >= jobs[j].gen /\ jobs'[j].gen \in Nat
<1>1. jobs[j].gen \in Nat /\ jobs'[j].gen \in Nat
  BY JobsTyped DEF Typed, TypeOK, JobRows
<1>2. JobSteps /\ JobIds = {"retry", "fallback"} /\ (j = "retry" \/ j = "fallback")
  BY StepJobs DEF JobIds
<1>3. Stops(j) \/ Starts(j) \/ Lapses(j) \/ Renews(j) \/ Requeues(j)
  BY <1>2 DEF JobSteps, JobRequeued, RetryRenewed, Admitted, Goes
<1> QED BY <1>1, <1>3 DEF Stops, Starts, Lapses, Renews, Requeues

LEMMA StepTracked ==
  ASSUME Typed, Tracked, [Next]_vars
  PROVE  Tracked'
<1>1. \A l \in Lanes : lane[l].gen \in Nat /\ lane[l].job \in JobIds \cup {None}
  BY DEF Typed, TypeOK, LaneStates
<1>2. Idle.job = None /\ None \notin JobIds
  BY DEF Idle, None, JobIds
<1>3. ASSUME NEW l \in Lanes, lane'[l].job # None
      PROVE  Keeping(l) \/ \E j \in JobIds : Takes(l, j)
  BY <1>2, <1>3, OneLane DEF Keeping
<1>4. ASSUME NEW l \in Lanes, lane'[l].job # None
      PROVE  lane'[l].gen <= jobs'[lane'[l].job].gen
  <2>1. CASE Keeping(l)
    <3>1. lane[l].job \in JobIds /\ lane[l].gen <= jobs[lane[l].job].gen
      BY <1>1, <1>4, <2>1 DEF Keeping, Tracked
    <3>2. jobs'[lane[l].job].gen >= jobs[lane[l].job].gen /\ jobs'[lane[l].job].gen \in Nat
          /\ jobs[lane[l].job].gen \in Nat
      BY <3>1, GenGrows DEF Typed, TypeOK, JobRows
    <3> QED BY <1>1, <2>1, <3>1, <3>2 DEF Keeping
  <2>2. CASE \E j \in JobIds : Takes(l, j)
    BY <2>2, TakenLane, GenGrows
  <2> QED BY <1>3, <1>4, <2>1, <2>2
<1>5. ASSUME NEW k \in Lanes, NEW l \in Lanes, k # l, lane'[k].job # None,
             lane'[k].job = lane'[l].job, lane'[k].gen = lane'[l].gen
      PROVE  FALSE
  <2>1. CASE Keeping(k) /\ Keeping(l)
    BY <1>5, <2>1 DEF Keeping, Tracked
  <2>2. ASSUME NEW a \in Lanes, NEW b \in Lanes, a # b, NEW j \in JobIds, Takes(a, j),
               lane'[b].job = j, lane'[b].gen = lane'[a].gen
        PROVE  FALSE
    <3>1. lane'[b] = lane[b] /\ lane'[a].gen = jobs[j].gen + 1 /\ jobs[j].gen \in Nat
      BY <2>2, TakenLane
    <3>2. lane[b].gen <= jobs[j].gen
      BY <1>2, <2>2, <3>1 DEF Tracked
    <3> QED BY <1>1, <2>2, <3>1, <3>2
  <2>3. CASE \E j \in JobIds : Takes(k, j)
    BY <1>5, <2>2, <2>3, TakenLane
  <2>4. CASE \E j \in JobIds : Takes(l, j)
    BY <1>5, <2>2, <2>4, TakenLane
  <2> QED BY <1>3, <1>5, <2>1, <2>3, <2>4
<1> QED BY <1>4, <1>5 DEF Tracked

LEMMA FencedBefore ==
  ASSUME Typed, Tracked, [Next]_vars, NEW l \in Lanes, Fenced(l)', Keeping(l)
  PROVE  Fenced(l) /\ jobs'[lane[l].job] = jobs[lane[l].job]
<1> DEFINE j == lane[l].job
<1>1. /\ j \in JobIds /\ lane[l].gen \in Nat /\ lane[l].gen <= jobs[j].gen
      /\ jobs[j].gen \in Nat
  BY DEF Fenced, Keeping, Typed, TypeOK, LaneStates, JobRows, Tracked
<1>2. jobs'[j].status = "running" /\ jobs'[j].gen = lane[l].gen /\ ~jobs'[j].lapsed
  BY DEF Fenced, Keeping
<1>3. JobSteps /\ JobIds = {"retry", "fallback"}
  BY StepJobs DEF JobIds
<1> HIDE DEF j
<1>4. Stops(j) \/ Starts(j) \/ Lapses(j) \/ Renews(j) \/ Requeues(j)
  <2>1. j = "retry" \/ j = "fallback"
    BY <1>1, <1>3
  <2> QED BY <1>1, <1>3, <2>1 DEF JobSteps, JobRequeued, RetryRenewed, Admitted, Goes
<1>5. jobs'[j] = jobs[j]
  BY <1>1, <1>2, <1>4 DEF Stops, Starts, Lapses, Renews, Requeues
<1> QED BY <1>1, <1>2, <1>5 DEF Fenced, j, Keeping, None, JobIds

LEMMA StepCarries ==
  ASSUME Typed, Tracked, CarriesHold, [Next]_vars
  PROVE  CarriesHold'
<1> SUFFICES ASSUME NEW l \in Lanes, lane'[l].job = "fallback", Fenced(l)'
             PROVE  lane'[l].hold = jobs'["fallback"].hold
  BY DEF CarriesHold
<1>1. Idle.job = None /\ None # "fallback"
  BY DEF Idle, None
<1>2. CASE Keeping(l)
  BY <1>2, FencedBefore DEF Keeping, CarriesHold
<1>3. CASE \E j \in JobIds : Takes(l, j)
  BY <1>3, TakenLane
<1> QED BY <1>1, <1>2, <1>3, OneLane DEF Keeping

(***************************************************************************)
(* The fallback and the hold it names.                                     *)
(***************************************************************************)
\* It is live only if it was, and names the hold it named.
FallbackKept ==
  /\ jobs'["fallback"].hold = jobs["fallback"].hold
  /\ Live("fallback")' => Live("fallback") \/ Excused'

Reserving(l) == Counts(l) /\ Reserves(l)

StepKinds ==
  \/ \E l \in Lanes : Reserving(l)
  \/ Lowers /\ FallbackKept /\ (Rewrites \/ Reopens)

LEMMA StepKind ==
  ASSUME Typed, Named, [Next]_vars
  PROVE  StepKinds
<1>1. ASSUME NEW l \in Lanes, Admit(l), Admitted(l) PROVE Reserving(l)
  <2>1. Reserves(l)
    BY <1>1, AdmitReserves
  <2>2. row \in Rows /\ row' = IF row.recorded THEN row ELSE [row EXCEPT !.count = row.count + 1]
    BY <1>1 DEF Admitted, Typed, TypeOK, Undelivered
  <2>3. row.count + 1 \in Nat
    BY <2>2 DEF Rows
  <2>4. /\ row' \in Rows
        /\ row'.gen = row.gen /\ row'.recorded = row.recorded /\ row'.status = row.status
        /\ row'.count = IF row.recorded THEN row.count ELSE row.count + 1
    BY <2>2, <2>3 DEF Rows
  <2> QED BY <1>1, <2>1, <2>4 DEF Reserving, Counts
<1>2. CASE \A l \in Lanes : ~(Admit(l) /\ Admitted(l))
  <2>1. Lowers /\ (Rewrites \/ Reopens)
    BY <1>2, StepHolds, StepRow DEF HoldSteps, Reserves, RowSteps, Counts
  <2>2. FallbackKept
    <3>1. JobSteps /\ JobIds = {"retry", "fallback"} /\ jobs["fallback"].lapsed => Live("fallback")
      BY DEF Typed, LapsedRuns, Live, JobIds
    <3>2. Goes("fallback") \/ JobRequeued("fallback")
      BY <1>2, <3>1, StepJobs DEF JobSteps, RetryRenewed, JobRequeued, Goes, JobIds
    <3>3. CASE Goes("fallback")
      BY <3>1, <3>3, StepJobs DEF Goes, Stops, Starts, Lapses, FallbackKept, Live, JobIds, Typed, LapsedRuns
    <3>4. CASE JobRequeued("fallback")
      BY <3>4 DEF JobRequeued, Requeues, RetryJob, Noted, FallbackKept, Excused
    <3> QED BY <3>2, <3>3, <3>4
  <2> QED BY <2>1, <2>2 DEF StepKinds
<1> QED BY <1>1, <1>2 DEF StepKinds

LEMMA UsedStays ==
  ASSUME Typed, Named, [Next]_vars, NEW k \in Keys, holds[k] # "unused"
  PROVE  holds'[k] # "unused"
  BY StepHolds DEF HoldSteps, Lowers, Reserves

LEMMA NoHoldApart == \A k \in Keys : k # NoHold
<1> SUFFICES ASSUME NEW a \in 0..MaxGeneration, NEW b \in 0..MaxReplays - 1, <<a, b>> = NoHold
             PROVE  FALSE
  BY DEF Keys
<1>1. DOMAIN <<a, b>> = 1..2
  OBVIOUS
<1>2. DOMAIN NoHold = {}
  BY DEF NoHold
<1> QED BY <1>1, <1>2

LEMMA StepNamed ==
  ASSUME Typed, Named, [Next]_vars
  PROVE  Named'
<1>1. JobSteps /\ JobIds = {"retry", "fallback"}
  BY StepJobs DEF JobIds
<1>2. jobs'["retry"].hold = NoHold
  <2>1. jobs["retry"].hold = NoHold
    BY DEF Named
  <2>2. \/ Stops("retry") \/ Starts("retry") \/ Lapses("retry") \/ Requeues("retry")
        \/ jobs'["retry"].hold = NoHold
    BY <1>1, <2>1 DEF JobSteps, JobRequeued, RetryRenewed, Admitted, Goes
  <2> QED BY <2>1, <2>2 DEF Stops, Starts, Lapses, Requeues
<1>3. jobs'["fallback"].hold \in Keys => holds'[jobs'["fallback"].hold] # "unused"
  <2>1. CASE \E l \in Lanes : Reserving(l)
    BY <2>1, NoHoldApart DEF Reserving, Counts, Reserves, Admitted
  <2>2. CASE FallbackKept
    BY <2>2, UsedStays DEF FallbackKept, Named
  <2> QED BY <2>1, <2>2, StepKind DEF StepKinds
<1>4. /\ api'.hold \in Keys => holds'[api'.hold] # "unused"
      /\ api'.op = "cancelling" => api'.hold \in Keys
  <2>1. CASE api' = api
    BY <2>1, UsedStays DEF Named
  <2>2. CASE api' = NoRequest \/ (api'.op = "retrying" /\ api'.hold = NoHold)
    BY <2>2, NoHoldApart DEF NoRequest
  <2>3. ASSUME NEW j \in JobIds, CancelJob(j), jobs[j].hold \in Keys,
               api'.op = "cancelling", api'.hold = jobs[j].hold
        PROVE  api'.hold \in Keys /\ holds'[api'.hold] # "unused"
    <3>1. j = "fallback"
      BY <1>1, <2>3, NoHoldApart DEF Named
    <3> QED BY <2>3, <3>1, UsedStays DEF Named
  <2> QED BY <2>1, <2>2, <2>3, StepApi DEF ApiSteps
<1> QED BY <1>2, <1>3, <1>4 DEF Named

(* A fallback leaves these states only when its lane settles it, or when   *)
(* the operator cancels it.                                                *)
Unsettled == {"pending", "running", "dead_letter"}

LEMMA FallbackEnds ==
  ASSUME Typed, [Next]_vars, jobs["fallback"].status \in Unsettled,
         jobs'["fallback"].status \notin Unsettled
  PROVE  \/ CancelJob("fallback")
         \/ \E l \in Lanes : /\ Settle(l) /\ Fenced(l)
                             /\ lane[l].hold = NoHold \/ holds[lane[l].hold] = "open"
                             /\ lane[l].hold # NoHold => holds'[lane[l].hold] = "settled"
<1>1. /\ jobs \in [JobIds -> JobRows] /\ {"retry", "fallback"} = JobIds
      /\ jobs["fallback"].lapsed => jobs["fallback"].status = "running"
      /\ holds \in [Keys -> HoldStates]
  BY DEF Typed, TypeOK, JobIds, LapsedRuns
<1>2. jobs'["fallback"] # jobs["fallback"]
  OBVIOUS
<1>3. ASSUME NEW l \in Lanes, Claim(l) PROVE FALSE
  <2>1. PICK j \in JobIds :
          jobs' = [Recovered EXCEPT ![j].status = "running", ![j].owner = l,
                                    ![j].attempts = @ + 1, ![j].gen = @ + 1]
    BY <1>3 DEF Claim
  <2>2. Recovered \in [JobIds -> JobRows] /\ Recovered["fallback"].status \in Unsettled
    BY <1>1, RecoveredFacts DEF Unsettled
  <2>3. jobs'["fallback"].status \in {"running", Recovered["fallback"].status}
    BY <1>1, <2>1, <2>2 DEF JobRows
  <2> QED BY <2>2, <2>3 DEF Unsettled
<1>4. ASSUME NEW l \in Lanes, Recover(l) PROVE FALSE
  BY <1>1, <1>4, RecoveredFacts DEF Recover, Unsettled
<1>5. ASSUME NEW l \in Lanes, Admit(l) PROVE FALSE
  <2>1. AdmitFails(l) \/ AdmitRefused(l) \/ Admitted(l)
    BY <1>5, AdmitFacts
  <2> QED BY <1>2, <2>1 DEF AdmitFails, AdmitRefused, Admitted, Renews, Unsettled
<1>6. ASSUME NEW l \in Lanes, Defer(l) PROVE FALSE
  BY <1>2, <1>6, DeferFacts
<1>7. ASSUME jobs' = RetryQueued PROVE FALSE
  BY <1>1, <1>2, <1>7, RetryQueuedFacts
<1>8. ASSUME NEW l \in Lanes, Complete(l) PROVE FALSE
  BY <1>1, <1>2, <1>8 DEF Complete
<1>9. ASSUME NEW l \in Lanes, Fail(l) PROVE FALSE
  <2>1. PICK retryable \in BOOLEAN :
          \/ jobs' = jobs
          \/ jobs' = [jobs EXCEPT ![lane[l].job] = FailedJob(jobs[lane[l].job], retryable)]
    BY <1>9 DEF Fail
  <2>2. lane[l].job = "fallback"
    BY <1>1, <1>2, <2>1
  <2>3. FailedJob(jobs["fallback"], retryable).status \in Unsettled
    <3>1. jobs["fallback"] \in JobRows
      BY <1>1
    <3> QED BY <3>1, FailedFacts DEF Unsettled
  <2> QED BY <1>1, <1>2, <2>1, <2>2, <2>3
<1>10. ASSUME NEW l \in Lanes, Settle(l)
       PROVE  /\ Fenced(l)
              /\ lane[l].hold = NoHold \/ holds[lane[l].hold] = "open"
              /\ lane[l].hold # NoHold => holds'[lane[l].hold] = "settled"
  <2>1. lane[l].hold \in Keys \cup {NoHold}
    BY DEF Typed, TypeOK, LaneStates
  <2> QED BY <1>1, <1>2, <1>10, <2>1 DEF Settle
<1>11. ASSUME NEW j \in JobIds, Lapse(j) PROVE FALSE
  BY <1>1, <1>2, <1>11 DEF Lapse, JobRows
<1>12. ASSUME NEW j \in JobIds, CancelJob(j) PROVE j = "fallback"
  BY <1>1, <1>2, <1>12 DEF CancelJob
<1>13. ASSUME NEW j \in JobIds, RetryJob(j) PROVE FALSE
  <2> DEFINE p == Released(jobs["fallback"], "pending")
  <2>1. p \in JobRows /\ p.status = "pending"
    <3>1. jobs["fallback"] \in JobRows
      BY <1>1
    <3> QED BY <3>1, ReleasedFacts
  <2>2. j = "fallback" /\ jobs' = [jobs EXCEPT ![j] = [Released(jobs[j], "pending") EXCEPT !.attempts = 0]]
    BY <1>1, <1>2, <1>13 DEF RetryJob
  <2>3. jobs'["fallback"] = [p EXCEPT !.attempts = 0]
    BY <1>1, <2>2
  <2> HIDE DEF p
  <2>4. jobs'["fallback"].status = "pending"
    BY <2>1, <2>3 DEF JobRows
  <2> QED BY <2>4 DEF Unsettled
<1>14. ASSUME NEW l \in Lanes,
              \/ Sweep(l) \/ StartRetry(l) \/ Abandon(l) \/ Check(l) \/ StartFallback(l)
              \/ Analyse(l) \/ Deliver(l) \/ Release(l) \/ Stamp(l) \/ Crash(l)
       PROVE  FALSE
  BY <1>2, <1>14 DEF Sweep, StartRetry, Abandon, Check, StartFallback, Analyse, Deliver, Release,
               Stamp, Crash
<1>15. CASE GrowOld \/ RetryDelivery \/ ReleaseCancelled \/ ApiCrash \/ UNCHANGED vars
  BY <1>2, <1>15 DEF GrowOld, RetryDelivery, ReleaseCancelled, ApiCrash, vars
<1> QED BY <1>3, <1>4, <1>5, <1>6, <1>7, <1>8, <1>9, <1>10, <1>11, <1>12, <1>13, <1>14, <1>15
        DEF Next, Drain, Run, Operator, Requeue, Reopen

LEMMA StepOneOpen ==
  ASSUME Typed, Named, CarriesHold, OneOpenHold, [Next]_vars
  PROVE  OneOpenHold'
<1>1. CASE \E l \in Lanes : Reserving(l)
  BY <1>1 DEF Reserving, Counts, Reserves, Admitted, Renews, OneOpenHold, OpenHolds
<1>2. CASE Lowers /\ FallbackKept
  <2>1. OpenHolds' \subseteq OpenHolds /\ OpenHolds' \subseteq {jobs'["fallback"].hold}
    BY <1>2 DEF Lowers, FallbackKept, OneOpenHold, OpenHolds
  <2>2. ASSUME OpenHolds' # {}, jobs'["fallback"].status \notin Unsettled
        PROVE  "cancelled" \in races'
    <3>1. "cancelled" \in races => "cancelled" \in races'
      BY StepRaces
    <3>2. CASE "cancelled" \notin races
      <4>1. jobs["fallback"].status \in Unsettled
        BY <2>1, <2>2, <3>2 DEF OneOpenHold, Unsettled
      <4>2. CASE CancelJob("fallback")
        BY <4>2 DEF CancelJob, Noted
      <4>3. ASSUME NEW l \in Lanes, Settle(l), Fenced(l),
                   lane[l].hold # NoHold => holds'[lane[l].hold] = "settled"
            PROVE  FALSE
        <5>1. lane[l].hold = jobs["fallback"].hold
          BY <4>3 DEF Settle, Typed, Placed, FallbackSteps, CarriesHold
        <5>2. PICK k \in Keys : holds'[k] = "open" /\ k = jobs["fallback"].hold
          BY <1>2, <2>1, <2>2 DEF OpenHolds, FallbackKept
        <5> QED BY <4>3, <5>1, <5>2, NoHoldApart
      <4> QED BY <2>2, <4>1, <4>2, <4>3, FallbackEnds
    <3> QED BY <3>1, <3>2
  <2> QED BY <2>1, <2>2 DEF OneOpenHold, Unsettled
<1> QED BY <1>1, <1>2, StepKind DEF StepKinds

LEMMA ExcusedStays ==
  ASSUME Typed, [Next]_vars, Excused
  PROVE  Excused'
  BY StepRaces DEF Excused

LEMMA StepDraft ==
  ASSUME Typed, DraftStands, [Next]_vars
  PROVE  DraftStands'
<1>1. "recorded" \in races => "recorded" \in races'
  BY StepRaces
<1>2. RowSteps
  BY StepRow
<1> QED BY <1>1, <1>2 DEF RowSteps, Rewrites, Counts, Reopens, DraftStands, Final

(***************************************************************************)
(* As long as none of the excepted interleavings has happened, a key is    *)
(* reserved once, and nothing closes the hold under the fallback.          *)
(***************************************************************************)
Sound == KeysSpent /\ NextKeyUnused /\ AdmitsFreshly /\ CancelledApart

\* A step of sound holds that brings no exception.
Unexcused == IInv /\ Sound /\ ~Excused' /\ [Next]_vars

LEMMA UnexcusedFacts ==
  ASSUME Unexcused
  PROVE  /\ Typed /\ Tracked /\ CarriesHold /\ OneOpenHold /\ Named /\ DraftStands
         /\ HoldBacksReplay /\ [Next]_vars /\ ~Excused /\ ~Excused'
         /\ "recorded" \notin races /\ "recorded" \notin races'
         /\ row.gen \in Nat /\ row.count \in Nat
         /\ \A k \in Keys : k[1] \in Nat /\ k[2] \in Nat /\ k = <<k[1], k[2]>>
<1>1. Typed /\ Tracked /\ CarriesHold /\ OneOpenHold /\ Named /\ DraftStands
      /\ HoldBacksReplay /\ [Next]_vars /\ ~Excused'
  BY DEF Unexcused, IInv
<1>2. ~Excused
  BY <1>1, ExcusedStays
<1>3. row.gen \in Nat /\ row.count \in Nat
  BY <1>1 DEF Typed, TypeOK, Rows
<1> QED BY <1>1, <1>2, <1>3 DEF Excused, Keys

LEMMA StepKeysSpent ==
  ASSUME Unexcused
  PROVE  KeysSpent'
<1> SUFFICES ASSUME NEW k \in Keys, holds'[k] # "unused"
             PROVE  \/ k[1] < row'.gen
                    \/ k[1] = row'.gen /\ (k[2] < row'.count \/ row'.recorded)
  BY DEF KeysSpent
<1>1. holds[k] # "unused" =>
        \/ k[1] < row.gen
        \/ k[1] = row.gen /\ (k[2] < row.count \/ row.recorded)
  BY DEF Unexcused, Sound, KeysSpent
<1>2. CASE \E l \in Lanes : Reserving(l)
  <2>1. PICK l \in Lanes : Reserving(l)
    BY <1>2
  <2> DEFINE key == <<lane[l].replay, lane[l].count>>
  <2>2. CASE k = key /\ holds[k] = "unused"
    <3>1. lane[l].pc = "admitting" /\ Fenced(l)
      BY <2>1 DEF Reserving, Reserves, Admitted, Admit
    <3>2. lane[l].replay <= row.gen /\ (lane[l].replay = row.gen => lane[l].count = row.count)
      BY <3>1 DEF Unexcused, Sound, AdmitsFreshly
    <3>3. k[1] = lane[l].replay /\ k[2] = lane[l].count
      BY <2>2
    <3> QED BY <2>1, <3>2, <3>3, UnexcusedFacts DEF Reserving, Counts
  <2>3. CASE holds[k] # "unused"
    BY <1>1, <2>1, <2>3, UnexcusedFacts DEF Reserving, Counts
  <2> QED BY <2>1, <2>2, <2>3 DEF Reserving, Reserves
<1>3. CASE Lowers /\ Rewrites
  BY <1>1, <1>3 DEF Lowers, Rewrites
<1>4. CASE Lowers /\ Reopens
  BY <1>1, <1>4, UnexcusedFacts DEF Lowers, Reopens
<1> QED BY <1>2, <1>3, <1>4, UnexcusedFacts, StepKind DEF StepKinds

\* Only a fenced retry lane admits, and no other lane is fenced with it.
LEMMA AdmitsAlone ==
  ASSUME Unexcused, NEW l \in Lanes, Keeping(l), lane[l].job = "retry", Fenced(l)',
         NEW k \in Lanes, Reserving(k)
  PROVE  FALSE
<1>1. Fenced(l) /\ jobs'["retry"] = jobs["retry"]
  BY UnexcusedFacts, FencedBefore
<1>2. jobs'["retry"].status = "done"
  BY DEF Reserving, Counts, Admitted
<1> QED BY <1>1, <1>2 DEF Fenced

LEMMA StepNextKey ==
  ASSUME Unexcused
  PROVE  NextKeyUnused'
<1> SUFFICES ASSUME NEW l \in Lanes, lane'[l].pc = "checking", Fenced(l)',
                    NEW k \in Keys, k = <<row'.gen, row'.count>>
             PROVE  holds'[k] = "unused"
  BY DEF NextKeyUnused
<1>1. Idle.pc = "idle" /\ \A j \in JobIds : j # "checking"
  BY DEF Idle, JobIds
<1>2. lane'[l] = lane[l] \/ (Moves(l) /\ Keeping(l))
  BY <1>1, UnexcusedFacts, OneLane, TakenLane
<1>3. k[1] = row'.gen /\ k[2] = row'.count
  OBVIOUS
<1>4. CASE Moves(l) /\ lane'[l].pc # lane[l].pc
  <2>1. StartRetry(l)
    BY <1>4 DEF Moves
  <2>2. row' = row /\ row.status \in {"delivery_failed", "delivery_blocked"} /\ holds' = holds
    <3>1. lane \in [Lanes -> LaneStates]
      BY UnexcusedFacts DEF Typed, TypeOK
    <3>2. \A step \in Steps : Goto(l, step) => lane'[l].pc = step
      BY <3>1, GotoFacts
    <3> QED BY <2>1, <3>2 DEF StartRetry, Steps
  <2>3. ~row.recorded
    BY <2>2, UnexcusedFacts DEF DraftStands
  <2> QED BY <1>3, <2>2, <2>3, UnexcusedFacts DEF Unexcused, Sound, KeysSpent
<1>5. CASE Keeping(l) /\ lane'[l].pc = lane[l].pc
  <2>1. lane[l].job = "retry"
    BY <1>5, UnexcusedFacts DEF Typed, Placed, RetrySteps
  <2>2. Fenced(l)
    BY <1>5, FencedBefore, UnexcusedFacts
  <2>3. \A q \in Lanes : ~Reserving(q)
    BY <1>5, <2>1, AdmitsAlone
  <2>4. CASE Rewrites /\ Lowers
    BY <1>5, <2>2, <2>4 DEF Rewrites, Lowers, Unexcused, Sound, NextKeyUnused
  <2>5. CASE Reopens /\ Lowers
    <3>1. row'.gen = row.gen + 1
      BY <2>5, UnexcusedFacts DEF Reopens
    <3>2. holds[k] = "unused"
      BY <1>3, <3>1, UnexcusedFacts DEF Unexcused, Sound, KeysSpent
    <3> QED BY <2>5, <3>2 DEF Lowers
  <2> QED BY <2>3, <2>4, <2>5, UnexcusedFacts, StepKind DEF StepKinds
<1> QED BY <1>2, <1>4, <1>5 DEF Keeping

LEMMA StepAdmits ==
  ASSUME Unexcused
  PROVE  AdmitsFreshly'
<1> SUFFICES ASSUME NEW l \in Lanes, lane'[l].pc = "admitting", Fenced(l)'
             PROVE  /\ ~Live("fallback")'
                    /\ lane'[l].replay <= row'.gen
                    /\ lane'[l].replay = row'.gen => lane'[l].count = row'.count
                    /\ \A k \in Keys : k = <<lane'[l].replay, lane'[l].count>> => holds'[k] = "unused"
  BY DEF AdmitsFreshly
<1>1. Idle.pc = "idle" /\ \A j \in JobIds : j # "admitting"
  BY DEF Idle, JobIds
<1>2. lane'[l] = lane[l] \/ (Moves(l) /\ Keeping(l))
  BY <1>1, UnexcusedFacts, OneLane, TakenLane
<1>3. CASE Moves(l) /\ Keeping(l)
  <2>1. Check(l)
    BY <1>3 DEF Moves
  <2>2. /\ lane[l].pc = "checking"
        /\ lane'[l].replay = row.gen /\ lane'[l].count = row.count
        /\ row' = row /\ jobs' = jobs /\ holds' = holds /\ ~Live("fallback")
    BY <2>1, UnexcusedFacts, CheckReads
  <2>3. Fenced(l)
    BY <1>3, FencedBefore, UnexcusedFacts
  <2>4. \A k \in Keys : k = <<row.gen, row.count>> => holds[k] = "unused"
    BY <2>2, <2>3 DEF Unexcused, Sound, NextKeyUnused
  <2> QED BY <2>2, <2>4, UnexcusedFacts DEF Live
<1>4. CASE lane'[l] = lane[l]
  <2>1. lane[l].job = "retry" /\ Keeping(l)
    BY <1>4, UnexcusedFacts DEF Typed, Placed, RetrySteps, Keeping
  <2>2. Fenced(l) /\ jobs'["retry"] = jobs["retry"]
    BY <2>1, FencedBefore, UnexcusedFacts
  <2>3. /\ ~Live("fallback")
        /\ lane[l].replay <= row.gen
        /\ lane[l].replay = row.gen => lane[l].count = row.count
        /\ \A k \in Keys : k = <<lane[l].replay, lane[l].count>> => holds[k] = "unused"
    BY <1>4, <2>2 DEF Unexcused, Sound, AdmitsFreshly
  <2>4. Lowers /\ FallbackKept /\ (Rewrites \/ Reopens)
    BY <2>1, AdmitsAlone, UnexcusedFacts, StepKind DEF StepKinds
  <2>5. ~Live("fallback")'
    BY <2>3, <2>4, UnexcusedFacts DEF FallbackKept
  <2>6. \A k \in Keys : k = <<lane'[l].replay, lane'[l].count>> => holds'[k] = "unused"
    BY <1>4, <2>3, <2>4 DEF Lowers
  <2>7. CASE Rewrites
    BY <1>4, <2>3, <2>5, <2>6, <2>7 DEF Rewrites
  <2>8. CASE Reopens
    <3>1. row'.gen = row.gen + 1 /\ row.gen \in Nat /\ lane[l].replay \in Nat
      BY <2>8, UnexcusedFacts DEF Reopens, Typed, TypeOK, LaneStates
    <3> QED BY <1>4, <2>3, <2>5, <2>6, <3>1
  <2> QED BY <2>4, <2>7, <2>8
<1> QED BY <1>2, <1>3, <1>4

LEMMA StepCancelled ==
  ASSUME Unexcused
  PROVE  CancelledApart'
<1> SUFFICES ASSUME api'.op = "cancelling", Live("fallback")'
             PROVE  jobs'["fallback"].hold # api'.hold
  BY DEF CancelledApart
<1>1. CASE \E l \in Lanes : Reserving(l)
  <2>1. PICK l \in Lanes : Reserving(l)
    BY <1>1
  <2> DEFINE key == <<lane[l].replay, lane[l].count>>
  <2>2. api' = api
    BY <2>1 DEF Reserving, Reserves, Admit
  <2>3. api.hold \in Keys /\ holds[api.hold] # "unused"
    BY <2>2, UnexcusedFacts DEF Named
  <2>4. key \in Keys /\ holds[key] = "unused"
    BY <2>1 DEF Reserving, Reserves, Admitted, Admit, Unexcused, Sound, AdmitsFreshly
  <2>5. jobs'["fallback"].hold \in {key, NoHold}
    BY <2>1 DEF Reserving, Counts, Admitted
  <2> QED BY <2>2, <2>3, <2>4, <2>5, NoHoldApart
<1>2. CASE FallbackKept
  <2>1. Live("fallback") /\ jobs'["fallback"].hold = jobs["fallback"].hold
    BY <1>2, UnexcusedFacts DEF FallbackKept
  <2>2. CASE api' = api
    BY <2>1, <2>2 DEF Unexcused, Sound, CancelledApart
  <2>3. ASSUME NEW j \in JobIds, CancelJob(j), jobs[j].hold \in Keys PROVE FALSE
    <3>1. j = "fallback"
      BY <2>3, NoHoldApart, UnexcusedFacts DEF Named, JobIds
    <3>2. jobs \in [JobIds -> JobRows] /\ jobs["fallback"] \in JobRows
      BY <3>1, UnexcusedFacts DEF Typed, TypeOK
    <3>3. jobs'["fallback"] = Released(jobs["fallback"], "cancelled")
      BY <2>3, <3>1, <3>2 DEF CancelJob
    <3>4. jobs'["fallback"].status = "cancelled"
      <4>1. jobs["fallback"] \in JobRows
        BY <3>2
      <4>2. Released(jobs["fallback"], "cancelled").status = "cancelled"
        BY <4>1, ReleasedFacts
      <4> QED BY <3>3, <4>2
    <3> QED BY <3>4 DEF Live
  <2> QED BY <2>2, <2>3, UnexcusedFacts, StepApi DEF ApiSteps, NoRequest
<1> QED BY <1>1, <1>2, UnexcusedFacts, StepKind DEF StepKinds

LEMMA HoldSurvives ==
  ASSUME Unexcused, Live("fallback"), Live("fallback")',
         NEW h \in Keys, h = jobs["fallback"].hold, holds[h] = "open",
         \A l \in Lanes : ~Reserving(l)
  PROVE  holds'[h] = "open"
<1>1. holds \in [Keys -> HoldStates]
  BY UnexcusedFacts DEF Typed, TypeOK
<1>2. ASSUME NEW l \in Lanes, Admit(l) PROVE holds' = holds
  <2>1. AdmitFails(l) \/ AdmitRefused(l) \/ Admitted(l)
    BY <1>2, AdmitFacts, UnexcusedFacts
  <2>2. ~AdmitRefused(l)
    BY <1>2 DEF AdmitRefused, Admit, Unexcused, Sound, AdmitsFreshly
  <2>3. ~Admitted(l)
    BY <1>2 DEF Admitted, Renews, Live
  <2> QED BY <2>1, <2>2, <2>3 DEF AdmitFails
<1>3. ASSUME NEW l \in Lanes, Settle(l) PROVE holds' = holds
  <2>1. jobs["fallback"] \in JobRows /\ jobs \in [JobIds -> JobRows]
    BY UnexcusedFacts DEF Typed, TypeOK, JobIds
  <2>2. Released(jobs["fallback"], "done").status = "done"
    BY <2>1, ReleasedFacts
  <2> QED BY <1>3, <2>1, <2>2 DEF Settle, Live, JobIds
<1>4. ASSUME NEW l \in Lanes, Release(l) PROVE FALSE
  <2>1. h \in OpenHolds
    BY DEF OpenHolds
  <2>2. "swept" \in races'
    BY <1>4, <2>1 DEF Release, NotedIf
  <2> QED BY <2>2, UnexcusedFacts DEF Excused
<1>5. CASE ReleaseCancelled
  <2>1. api.hold # h
    BY <1>5 DEF ReleaseCancelled, Unexcused, Sound, CancelledApart
  <2> QED BY <1>1, <1>5, <2>1 DEF ReleaseCancelled
<1>6. ASSUME NEW l \in Lanes,
             \/ Drain(l) \/ StartRetry(l) \/ Abandon(l) \/ Check(l) \/ Defer(l) \/ StartFallback(l)
             \/ Analyse(l) \/ Deliver(l) \/ Requeue(l) \/ Complete(l) \/ Fail(l) \/ Stamp(l) \/ Crash(l)
      PROVE  holds' = holds
  BY <1>6 DEF Drain, Claim, Recover, Sweep, StartRetry, Abandon, Check, Defer, StartFallback,
              Analyse, Deliver, Requeue, Complete, Fail, Stamp, Crash
<1>7. ASSUME NEW j \in JobIds, Lapse(j) \/ CancelJob(j) \/ RetryJob(j) PROVE holds' = holds
  BY <1>7 DEF Lapse, CancelJob, RetryJob
<1>8. CASE GrowOld \/ RetryDelivery \/ Reopen \/ ApiCrash \/ UNCHANGED vars
  BY <1>8 DEF GrowOld, RetryDelivery, Reopen, ApiCrash, vars
<1> QED BY <1>2, <1>3, <1>4, <1>5, <1>6, <1>7, <1>8, UnexcusedFacts DEF Next, Run, Operator

LEMMA StepHoldBacks ==
  ASSUME Unexcused
  PROVE  HoldBacksReplay'
<1> SUFFICES ASSUME Live("fallback")', jobs'["fallback"].hold # NoHold
             PROVE  holds'[jobs'["fallback"].hold] = "open"
  BY DEF HoldBacksReplay
<1>1. CASE \E l \in Lanes : Reserving(l)
  <2>1. PICK l \in Lanes : Reserving(l)
    BY <1>1
  <2> DEFINE key == <<lane[l].replay, lane[l].count>>
  <2>2. key \in Keys /\ holds[key] = "unused"
    BY <2>1 DEF Reserving, Reserves, Admitted, Admit, Unexcused, Sound, AdmitsFreshly
  <2>3. Enforced /\ jobs'["fallback"].hold = key
    BY <2>1 DEF Reserving, Counts, Admitted
  <2> QED BY <2>1, <2>2, <2>3 DEF Reserving, Reserves
<1>2. CASE FallbackKept /\ \A l \in Lanes : ~Reserving(l)
  <2> DEFINE h == jobs["fallback"].hold
  <2>1. Live("fallback") /\ jobs'["fallback"].hold = h
    BY <1>2, UnexcusedFacts DEF FallbackKept
  <2>2. h \in Keys
    BY <2>1, UnexcusedFacts DEF Typed, TypeOK, JobRows, JobIds
  <2>3. holds[h] = "open"
    BY <2>1, UnexcusedFacts DEF HoldBacksReplay, Excused
  <2> HIDE DEF h
  <2> QED BY <1>2, <2>1, <2>2, <2>3, HoldSurvives DEF h
<1> QED BY <1>1, <1>2, UnexcusedFacts, StepKind DEF StepKinds

----------------------------------------------------------------------------
LEMMA InitInvariant ==
  ASSUME Init
  PROVE  IInv
<1>1. \A l \in Lanes : lane[l] = Idle
  BY DEF Init
<1>2. /\ Idle.pc = "idle" /\ Idle.job = None
      /\ \A j \in JobIds : jobs[j] \in JobRows /\ jobs[j].hold = NoHold /\ ~jobs[j].lapsed
                           /\ jobs[j].status \in {"pending", "absent"}
      /\ jobs["fallback"].status = "absent" /\ jobs["fallback"].hold = NoHold
      /\ jobs["retry"].hold = NoHold
      /\ \A k \in Keys : holds[k] = "unused"
      /\ api.op = "idle" /\ api.hold = NoHold
      /\ row.gen = 0 /\ ~row.recorded
  BY DEF Init, Idle, JobIds, JobRows, NoRequest
<1>3. TypeOK
  <2>1. row \in Rows /\ {artifact, origin, aged} \subseteq BOOLEAN
    BY DEF Init, Rows, RowStatuses, Codes
  <2>2. jobs \in [JobIds -> JobRows]
    BY <1>2 DEF Init
  <2>3. lane \in [Lanes -> LaneStates]
    BY IdleType DEF Init
  <2>4. holds \in [Keys -> HoldStates]
    BY DEF Init, HoldStates
  <2>5. api \in Requests /\ races \subseteq Races
    BY DEF Init, NoRequest, Requests
  <2>6. spent \in [{"requests", "crashes", "stalls"} -> Nat]
    BY DEF Init
  <2> QED BY <2>1, <2>2, <2>3, <2>4, <2>5, <2>6 DEF TypeOK
<1>4. Typed
  BY <1>1, <1>2, <1>3
     DEF Typed, Placed, Bounded, Counted, LapsedRuns, RetrySteps, FallbackSteps
<1>5. Tracked /\ CarriesHold
  BY <1>1, <1>2 DEF Tracked, CarriesHold, None
<1>6. OneOpenHold /\ Named
  BY <1>2, NoHoldApart DEF OneOpenHold, Named, OpenHolds
<1>7. HoldsSound
  BY <1>1, <1>2 DEF HoldsSound, KeysSpent, NextKeyUnused, AdmitsFreshly, CancelledApart
<1>8. DraftStands /\ HoldBacksReplay
  BY <1>2 DEF DraftStands, HoldBacksReplay
<1> QED BY <1>4, <1>5, <1>6, <1>7, <1>8 DEF IInv

LEMMA NextInvariant ==
  ASSUME IInv, [Next]_vars
  PROVE  IInv'
<1>1. Typed /\ Tracked /\ CarriesHold /\ OneOpenHold /\ Named /\ DraftStands
  BY DEF IInv
<1>2. Typed' /\ Tracked' /\ CarriesHold' /\ OneOpenHold' /\ Named' /\ DraftStands'
  BY <1>1, StepTyped, StepTracked, StepCarries, StepOneOpen, StepNamed, StepDraft
<1>3. HoldsSound' /\ HoldBacksReplay'
  <2>1. CASE Excused'
    BY <2>1 DEF HoldsSound, HoldBacksReplay, Excused
  <2>2. CASE ~Excused'
    <3>1. Sound
      BY <1>1, <2>2, ExcusedStays DEF IInv, HoldsSound, Sound
    <3>2. Unexcused
      BY <2>2, <3>1 DEF Unexcused
    <3> QED BY <3>2, StepKeysSpent, StepNextKey, StepAdmits, StepCancelled, StepHoldBacks
            DEF HoldsSound
  <2> QED BY <2>1, <2>2
<1> QED BY <1>2, <1>3 DEF IInv

LEMMA Invariant == Spec => []IInv
BY InitInvariant, NextInvariant, PTL DEF Spec

(* Every variable keeps its type.                                          *)
THEOREM Typing == Spec => []TypeOK
<1>1. IInv => TypeOK
  BY DEF IInv, Typed
<1> QED BY <1>1, Invariant, PTL

(* While a fallback may still run, the hold it will settle is open, unless *)
(* one of the three excepted operator interleavings happened.              *)
THEOREM HoldTheorem == Spec => []HoldBacksReplay
<1>1. IInv => HoldBacksReplay
  BY DEF IInv
<1> QED BY <1>1, Invariant, PTL

(* No lane, however late, takes a recorded draft back into delivery.       *)
THEOREM DraftTheorem == Spec => []DraftStands
<1>1. IInv => DraftStands
  BY DEF IInv
<1> QED BY <1>1, Invariant, PTL

(* When its work is over, no hold of the row is left open, but on the two  *)
(* paths that leak one.                                                    *)
THEOREM CarriedTheorem == Spec => []OpenHoldCarried
<1>1. ASSUME IInv PROVE OpenHoldCarried
  <2> SUFFICES ASSUME Over, OpenHolds # {}, ~row.recorded, "cancelled" \notin races
               PROVE  FALSE
    BY DEF OpenHoldCarried
  <2>1. jobs["fallback"].status \in {"pending", "running", "dead_letter"}
    BY <1>1 DEF IInv, OneOpenHold
  <2>2. jobs["fallback"].status = "dead_letter" /\ ~Unfinalized
    BY <2>1 DEF Over, Live
  <2> QED BY <2>2 DEF Unfinalized, Undelivered
<1> QED BY <1>1, Invariant, PTL
----------------------------------------------------------------------------
(***************************************************************************)
(* No failed delivery ends in silence.  What must hold in between is that  *)
(* whoever ends its job leaves the row to somebody: a retry job that ends  *)
(* leaves it to a fallback of its generation, a fallback that ends to a    *)
(* retry job, and a fallback of an earlier generation, which nobody counts *)
(* on, to a retry job that is not gone.                                    *)
(***************************************************************************)
(* The interleavings SilenceExplained excepts.                             *)
Told == races \ {"swept"} # {}

OneRunning == ~(jobs["retry"].status = "running" /\ jobs["fallback"].status = "running")

(* A fallback of the row's generation either runs again or is stamped.     *)
FallbackAnswers ==
  /\ jobs["fallback"].status \in {"pending", "running", "dead_letter"}
  /\ jobs["fallback"].replay = row.gen

Answered == Unexplained => Live("retry") \/ FallbackAnswers

(* A dead-lettered retry job explains the row, a live one will.            *)
RetryStands == jobs["retry"].status \in {"pending", "running", "dead_letter"}

Outdated == Live("fallback") /\ Deferral

Closed == row.status \in {"draft", "delivery_blocked", "github_delivery_abandoned"}

(* A lane of the fallback that may still write the row.                    *)
Writing(l) ==
  lane[l].job = "fallback" /\ Fenced(l) /\ lane[l].pc \in {"analysing", "delivering", "requeueing"}

OutdatedBacked ==
  Outdated => \/ RetryStands
              \/ row.recorded
              \/ Closed /\ \A l \in Lanes : ~Writing(l)

ReplayPast == jobs["fallback"].replay <= row.gen

(* What holds when a lane is about to end its job, or to admit a fallback. *)
LaneAnswers(l) ==
  Fenced(l) =>
    /\ lane[l].pc = "completing" =>
         /\ Unexplained => FallbackAnswers
         /\ Outdated => row.recorded \/ Closed
    /\ lane[l].pc = "settling" /\ Unexplained => Live("retry")
    /\ lane[l].pc = "admitting" => lane[l].replay = row.gen /\ ~Live("fallback")

Silence == Answered /\ OutdatedBacked /\ ReplayPast /\ \A l \in Lanes : LaneAnswers(l)

SInv == IInv /\ OneRunning /\ (Told \/ Silence)

\* A step, and none of the excepted interleavings.
Untold == IInv /\ OneRunning /\ Silence /\ ~Told' /\ [Next]_vars

Open == {"delivery_failed", "delivery_pending"}

LEMMA UntoldFacts ==
  ASSUME Untold
  PROVE  /\ Typed /\ Tracked /\ [Next]_vars /\ OneRunning /\ ~Told'
         /\ Answered /\ OutdatedBacked /\ ReplayPast /\ \A l \in Lanes : LaneAnswers(l)
         /\ \A race \in Races \ {"swept"} : race \notin races'
         /\ row \in Rows /\ row.gen \in Nat /\ jobs["fallback"].replay \in Nat
         /\ row.recorded => row.status \in Final
         /\ row'.recorded => row'.status \in Final
<1>1. Typed /\ Tracked /\ [Next]_vars /\ DraftStands
  BY DEF Untold, IInv
<1>2. races \subseteq races' /\ \A race \in Races \ {"swept"} : race \notin races'
  BY <1>1, StepRaces DEF Untold, Told
<1>3. DraftStands' /\ "recorded" \notin races /\ "recorded" \notin races'
  BY <1>1, <1>2, StepDraft DEF Races
<1>4. row \in Rows /\ row.gen \in Nat /\ jobs["fallback"].replay \in Nat
  BY <1>1 DEF Typed, TypeOK, Rows, JobRows, JobIds
<1> QED BY <1>1, <1>2, <1>3, <1>4 DEF Untold, Silence, DraftStands, Final

\* Two lanes with their leases would run both jobs.
LEMMA OneFenced ==
  ASSUME Typed, Tracked, OneRunning, NEW k \in Lanes, NEW l \in Lanes, Fenced(k), Fenced(l)
  PROVE  k = l
<1>1. lane[k].job \in JobIds /\ lane[l].job \in JobIds
  BY DEF Fenced, Typed, TypeOK, LaneStates
<1>2. lane[k].job = lane[l].job
  BY <1>1 DEF Fenced, OneRunning, JobIds
<1> QED BY <1>2 DEF Fenced, Tracked

LEMMA StaysUnfenced ==
  ASSUME Untold, NEW l \in Lanes, ~Fenced(l), Keeping(l)
  PROVE  LaneAnswers(l)' /\ ~Writing(l)'
<1>1. ~Fenced(l)'
  BY UntoldFacts, FencedBefore
<1> QED BY <1>1 DEF LaneAnswers, Writing

LEMMA IdleAnswers ==
  ASSUME NEW l \in Lanes, lane'[l] = Idle
  PROVE  LaneAnswers(l)' /\ ~Writing(l)'
<1>1. lane'[l].job = None
  BY DEF Idle
<1>2. ~Fenced(l)'
  BY <1>1 DEF Fenced
<1> QED BY <1>2 DEF LaneAnswers, Writing

\* Beside a lane that has its lease and acts, no other has one.
LEMMA ActsAlone ==
  ASSUME Untold, NEW l \in Lanes, Fenced(l), Others(l)
  PROVE  \A k \in Lanes \ {l} : LaneAnswers(k)' /\ ~Writing(k)'
<1> SUFFICES ASSUME NEW k \in Lanes \ {l} PROVE LaneAnswers(k)' /\ ~Writing(k)'
  OBVIOUS
<1>1. ~Fenced(k) /\ Keeping(k)
  BY UntoldFacts, OneFenced DEF Others, Keeping
<1> QED BY <1>1, StaysUnfenced

----------------------------------------------------------------------------
(* The calm steps: the fallback goes on or fails, the retry job goes on,   *)
(* fails or is enqueued, and the row is not taken back into delivery.      *)
Persists(j) ==
  /\ jobs'[j].replay = jobs[j].replay
  /\ \/ jobs'[j].status = jobs[j].status
     \/ Live(j) /\ jobs'[j].status \in {"pending", "running", "dead_letter"}

RetryWakes == jobs["retry"].status # "running" /\ Live("retry")'

RowCalm ==
  /\ row'.gen = row.gen
  /\ row.recorded => row'.recorded
  /\ Closed => Closed'
  /\ row'.status \in Open /\ row'.error = None => row.status \in Open /\ row.error = None

Calm == RowCalm /\ Persists("fallback") /\ (Persists("retry") \/ RetryWakes)

LEMMA CalmAnswers ==
  ASSUME Untold, Calm
  PROVE  Answered' /\ ReplayPast'
<1>1. Answered /\ ReplayPast
  BY UntoldFacts
<1>2. ReplayPast'
  BY <1>1 DEF ReplayPast, Calm, RowCalm, Persists
<1>3. Answered'
  BY <1>1 DEF Answered, Calm, RowCalm, Persists, RetryWakes, Unexplained, FallbackAnswers, Live, Open
<1> QED BY <1>2, <1>3

LEMMA CalmBacked ==
  ASSUME Untold, Calm, \A l \in Lanes : Writing(l)' => Writing(l) \/ ~Closed
  PROVE  OutdatedBacked'
<1>1. OutdatedBacked
  BY UntoldFacts
<1>2. Outdated' => Outdated
  BY DEF Outdated, Deferral, Live, Calm, RowCalm, Persists
<1>3. RetryStands => RetryStands'
  BY DEF RetryStands, Calm, Persists, RetryWakes, Live
<1>4. (row.recorded => row'.recorded) /\ (Closed => Closed')
  BY DEF Calm, RowCalm
<1> QED BY <1>1, <1>2, <1>3, <1>4 DEF OutdatedBacked

LEMMA CalmLane ==
  ASSUME Untold, Calm, NEW k \in Lanes, lane'[k] = lane[k]
  PROVE  LaneAnswers(k)' /\ (Writing(k)' => Writing(k))
<1>1. CASE ~Fenced(k)
  BY <1>1, StaysUnfenced DEF Keeping
<1>2. CASE Fenced(k)
  <2>1. LaneAnswers(k) /\ Typed
    BY UntoldFacts
  <2>2. Writing(k)' => Writing(k)
    BY <1>2 DEF Writing
  <2>3. ASSUME lane[k].pc = "completing"
        PROVE  Unexplained' => FallbackAnswers'
    <3>1. jobs["retry"].status = "running"
      BY <1>2, <2>1, <2>3 DEF Fenced, Typed, Placed, RetrySteps
    <3>2. Persists("retry")
      BY <3>1 DEF Calm, RetryWakes
    <3>3. Unexplained => FallbackAnswers
      BY <1>2, <2>1, <2>3 DEF LaneAnswers
    <3> QED BY <3>1, <3>2, <3>3 DEF Calm, RowCalm, Persists, Unexplained, FallbackAnswers, Live, Open
  <2>4. ASSUME lane[k].pc = "completing"
        PROVE  Outdated' => row'.recorded \/ Closed'
    <3>1. Outdated => row.recorded \/ Closed
      BY <1>2, <2>1, <2>4 DEF LaneAnswers
    <3>2. Outdated' => Outdated
      BY DEF Outdated, Deferral, Live, Calm, RowCalm, Persists
    <3> QED BY <3>1, <3>2 DEF Calm, RowCalm
  <2>5. ASSUME lane[k].pc = "settling", Unexplained'
        PROVE  Live("retry")'
    <3>1. Unexplained => Live("retry")
      BY <1>2, <2>1, <2>5 DEF LaneAnswers
    <3> QED BY <2>5, <3>1 DEF Calm, RowCalm, Persists, RetryWakes, Unexplained, Live, Open
  <2>6. ASSUME lane[k].pc = "admitting"
        PROVE  lane[k].replay = row'.gen /\ ~Live("fallback")'
    <3>1. lane[k].replay = row.gen /\ ~Live("fallback")
      BY <1>2, <2>1, <2>6 DEF LaneAnswers
    <3> QED BY <3>1 DEF Calm, RowCalm, Persists, Live
  <2> QED BY <2>2, <2>3, <2>4, <2>5, <2>6 DEF LaneAnswers
<1> QED BY <1>1, <1>2

LEMMA CalmLanes ==
  ASSUME Untold, Calm, lane' = lane
  PROVE  Silence'
<1>1. \A k \in Lanes : LaneAnswers(k)' /\ (Writing(k)' => Writing(k))
  BY CalmLane
<1> QED BY <1>1, CalmAnswers, CalmBacked DEF Silence

LEMMA CalmStep ==
  ASSUME Untold, Calm, NEW l \in Lanes, Others(l),
         LaneAnswers(l)', Writing(l)' => Writing(l) \/ ~Closed
  PROVE  Silence'
<1>1. \A k \in Lanes \ {l} : LaneAnswers(k)' /\ (Writing(k)' => Writing(k))
  BY CalmLane DEF Others
<1>2. \A k \in Lanes : LaneAnswers(k)' /\ (Writing(k)' => Writing(k) \/ ~Closed)
  BY <1>1
<1> QED BY <1>2, CalmAnswers, CalmBacked DEF Silence

\* A lane that goes where nothing is asked of it.
Elsewhere == Steps \ {"completing", "settling", "admitting", "analysing", "delivering", "requeueing"}

LEMMA CalmElsewhere ==
  ASSUME Untold, Calm, NEW l \in Lanes, Others(l), lane'[l].pc \in Elsewhere
  PROVE  Silence'
<1>1. LaneAnswers(l)' /\ ~Writing(l)'
  BY DEF LaneAnswers, Writing, Elsewhere
<1> QED BY <1>1, CalmStep
----------------------------------------------------------------------------
(* A lane with its lease writes the row.                                   *)
LEMMA RetryWrites ==
  ASSUME Untold, NEW l \in Lanes, Fenced(l), lane[l].job = "retry", Others(l),
         jobs' = jobs, row'.gen = row.gen, LaneAnswers(l)'
  PROVE  Silence'
<1>1. jobs["retry"].status = "running"
  BY DEF Fenced
<1>2. Answered' /\ OutdatedBacked'
  BY <1>1 DEF Answered, OutdatedBacked, Live, RetryStands
<1>3. ReplayPast'
  BY UntoldFacts DEF ReplayPast
<1>4. \A k \in Lanes : LaneAnswers(k)'
  BY ActsAlone
<1> QED BY <1>2, <1>3, <1>4 DEF Silence

LEMMA FallbackWrites ==
  ASSUME Untold, NEW l \in Lanes, Writing(l), Others(l),
         jobs' = jobs, row'.gen = row.gen, row.recorded => row'.recorded, LaneAnswers(l)'
  PROVE  Silence'
<1>1. Fenced(l) /\ jobs["fallback"].status = "running" /\ Live("fallback")
  BY DEF Writing, Fenced, Live
<1>2. \/ jobs["fallback"].replay = row.gen
      \/ Outdated /\ (RetryStands \/ row.recorded)
  BY <1>1, UntoldFacts DEF ReplayPast, OutdatedBacked, Outdated, Deferral
<1>3. row'.recorded => ~Unexplained'
  BY UntoldFacts DEF Unexplained, Final
<1>4. Answered'
  <2> SUFFICES ASSUME Unexplained' PROVE Live("retry")' \/ FallbackAnswers'
    BY DEF Answered
  <2>1. ~row.recorded /\ jobs["retry"].status # "dead_letter"
    BY <1>3 DEF Unexplained
  <2> QED BY <1>1, <1>2, <2>1 DEF FallbackAnswers, RetryStands, Live
<1>7. OutdatedBacked'
  <2>1. Outdated' => Outdated
    BY DEF Outdated, Live, Deferral
  <2>2. Outdated => RetryStands \/ row.recorded
    BY <1>2, UntoldFacts DEF Outdated, Deferral
  <2> QED BY <2>1, <2>2 DEF OutdatedBacked, RetryStands
<1>5. ReplayPast'
  BY UntoldFacts DEF ReplayPast
<1>6. \A k \in Lanes : LaneAnswers(k)'
  BY <1>1, ActsAlone
<1> QED BY <1>4, <1>5, <1>6, <1>7 DEF Silence

LEMMA SameJobs ==
  ASSUME jobs' = jobs
  PROVE  Persists("retry") /\ Persists("fallback")
  BY DEF Persists

LEMMA GotoStep ==
  ASSUME Untold, NEW l \in Lanes, NEW step \in Steps, Goto(l, step)
  PROVE  /\ Others(l) /\ Keeping(l) /\ lane'[l].pc = step /\ lane'[l].replay = lane[l].replay
  BY UntoldFacts, GotoFacts DEF Typed, TypeOK, Keeps, Keeping

LEMMA RestStep ==
  ASSUME Untold, NEW l \in Lanes, lane' = [lane EXCEPT ![l] = Idle]
  PROVE  /\ Others(l) /\ LaneAnswers(l)' /\ ~Writing(l)'
         /\ Calm => Silence'
<1>1. Others(l) /\ lane'[l] = Idle
  BY UntoldFacts, RestFacts DEF Typed, TypeOK, Idles
<1>2. LaneAnswers(l)' /\ ~Writing(l)'
  BY <1>1, IdleAnswers
<1> QED BY <1>1, <1>2, CalmStep

LEMMA BlockedRow ==
  ASSUME Untold, NEW code \in Codes \ {None}, row' = Blocked(row, code)
  PROVE  RowCalm /\ ~Unexplained' /\ (row'.recorded \/ Closed')
<1>1. CASE row.recorded
  BY <1>1, UntoldFacts DEF Blocked, Undelivered, RowCalm, Unexplained, Final, Closed
<1>2. CASE ~row.recorded
  <2>1. row'.status = "delivery_blocked" /\ row'.gen = row.gen
    BY <1>2, UntoldFacts DEF Blocked, Undelivered, Rows
  <2> QED BY <1>2, <2>1 DEF RowCalm, Unexplained, Closed, Open
<1> QED BY <1>1, <1>2

\* A compare-and-set of the status.
LEMMA WithoutDraftRow ==
  ASSUME Untold, NEW status \in RowStatuses, row' = WithoutDraft(row, status)
  PROVE  /\ row'.gen = row.gen /\ row'.recorded = row.recorded
         /\ row'.recorded \/ row'.status = status
  BY UntoldFacts DEF WithoutDraft, Undelivered, Rows

----------------------------------------------------------------------------
LEMMA SilentStartRetry ==
  ASSUME Untold, NEW l \in Lanes, StartRetry(l)
  PROVE  Silence'
<1>1. PICK step \in {"completing", "abandoning", "delivering", "checking"} :
        /\ Goto(l, step)
        /\ step = "completing" => row' = row /\ row.status \notin {"delivery_failed", "delivery_blocked"}
        /\ row' = row \/ (row' = WithoutDraft(row, "delivery_pending") /\ step = "delivering")
  BY DEF StartRetry
<1>2. Others(l) /\ Keeping(l) /\ lane'[l].pc = step /\ lane[l].job = "retry"
  BY <1>1, GotoStep, UntoldFacts DEF Steps, StartRetry, Typed, Placed, RetrySteps
<1>3. jobs' = jobs
  BY DEF StartRetry
<1>4. ~Writing(l)'
  BY <1>2 DEF Writing, Keeping
<1>5. LaneAnswers(l)'
  <2>1. CASE step # "completing"
    BY <1>1, <1>2, <2>1 DEF LaneAnswers
  <2>2. CASE step = "completing"
    <3>1. row' = row /\ row.status \notin {"delivery_failed", "delivery_blocked"}
      BY <1>1, <2>2
    <3>2. row.status # "delivery_pending" /\ ~(row.status = "rejected" /\ Outdated)
      BY UntoldFacts DEF StartRetry, Races, Outdated
    <3>3. ~Unexplained'
      BY <3>1, <3>2 DEF Unexplained
    <3>4. Outdated' => Closed'
      BY <1>3, <3>1, <3>2, UntoldFacts DEF Outdated, Live, Deferral, Closed, Rows, RowStatuses
    <3> QED BY <1>2, <2>2, <3>3, <3>4 DEF LaneAnswers
  <2> QED BY <2>1, <2>2
<1>6. CASE row' = row
  <2>1. Calm
    BY <1>3, <1>6, SameJobs DEF Calm, RowCalm, Closed
  <2> QED BY <1>2, <1>4, <1>5, <2>1, CalmStep
<1>7. CASE row' # row
  <2>1. Fenced(l)
    BY <1>7, UntoldFacts DEF StartRetry, Races
  <2>2. row'.gen = row.gen
    BY <1>1, <1>7, WithoutDraftRow DEF RowStatuses
  <2> QED BY <1>2, <1>3, <1>5, <2>1, <2>2, RetryWrites
<1> QED BY <1>6, <1>7

LEMMA SilentAbandon ==
  ASSUME Untold, NEW l \in Lanes, Abandon(l)
  PROVE  Silence'
<1>1. Others(l) /\ Keeping(l) /\ lane'[l].pc = "completing" /\ lane[l].job = "retry"
  BY GotoStep, UntoldFacts DEF Abandon, Steps, Typed, Placed, RetrySteps
<1>2. row'.status = "github_delivery_abandoned" /\ row'.gen = row.gen /\ row'.recorded = row.recorded
  BY UntoldFacts DEF Abandon, Rows
<1>3. Calm
  BY <1>2, SameJobs DEF Abandon, Calm, RowCalm, Closed, Open
<1>4. LaneAnswers(l)' /\ ~Writing(l)'
  BY <1>1, <1>2 DEF LaneAnswers, Writing, Unexplained, Closed
<1> QED BY <1>1, <1>3, <1>4, CalmStep

LEMMA SilentCheck ==
  ASSUME Untold, NEW l \in Lanes, Check(l)
  PROVE  Silence'
<1>1. lane[l].job = "retry" /\ jobs' = jobs /\ lane \in [Lanes -> LaneStates]
  BY UntoldFacts DEF Check, Typed, TypeOK, Placed, RetrySteps
<1>2. CASE row' = Blocked(row, "replay_unavailable") /\ Goto(l, "completing")
  <2>1. Others(l) /\ Keeping(l) /\ lane'[l].pc = "completing"
    BY <1>2, GotoStep DEF Steps
  <2>2. RowCalm /\ ~Unexplained' /\ (row'.recorded \/ Closed')
    BY <1>2, BlockedRow DEF Codes, None
  <2>3. Calm
    BY <1>1, <2>2, SameJobs DEF Calm
  <2>4. LaneAnswers(l)' /\ ~Writing(l)'
    BY <2>1, <2>2 DEF LaneAnswers, Writing
  <2> QED BY <2>1, <2>3, <2>4, CalmStep
<1>3. CASE row' = row
  <2>1. Calm
    BY <1>1, <1>3, SameJobs DEF Calm, RowCalm, Closed
  <2>2. CASE \E step \in {"deferring", "abandoning"} : Goto(l, step)
    BY <2>1, <2>2, GotoStep, CalmElsewhere DEF Elsewhere, Steps
  <2>3. CASE Goto(l, "completing") /\ Live("fallback") /\ ~Deferral
    <3>1. Others(l) /\ lane'[l].pc = "completing"
      BY <2>3, GotoStep DEF Steps
    <3>2. FallbackAnswers' /\ ~Outdated'
      BY <1>1, <1>3, <2>3, UntoldFacts DEF FallbackAnswers, Outdated, Live, Deferral, ReplayPast
    <3>3. LaneAnswers(l)' /\ ~Writing(l)'
      BY <3>1, <3>2 DEF LaneAnswers, Writing
    <3> QED BY <2>1, <3>1, <3>3, CalmStep
  <2>4. CASE /\ lane' = [lane EXCEPT ![l].pc = "admitting", ![l].replay = row.gen, ![l].count = row.count]
             /\ ~Live("fallback")
    <3>1. Others(l) /\ lane'[l].pc = "admitting" /\ lane'[l].replay = row.gen
      BY <1>1, <2>4 DEF Others, LaneStates
    <3>2. LaneAnswers(l)' /\ ~Writing(l)'
      BY <1>1, <1>3, <2>4, <3>1 DEF LaneAnswers, Writing, Live
    <3> QED BY <2>1, <3>1, <3>2, CalmStep
  <2> QED BY <1>2, <2>2, <2>3, <2>4 DEF Check
<1> QED BY <1>2, <1>3 DEF Check

LEMMA SilentAdmit ==
  ASSUME Untold, NEW l \in Lanes, Admit(l)
  PROVE  Silence'
<1>1. lane[l].pc = "admitting" /\ (AdmitFails(l) \/ AdmitRefused(l) \/ Admitted(l))
  BY AdmitFacts, UntoldFacts
<1>2. CASE AdmitFails(l)
  <2>1. Others(l) /\ lane'[l].pc = "failing"
    BY <1>2, GotoStep DEF AdmitFails, Goto, Steps
  <2>2. Calm
    BY <1>2, SameJobs DEF AdmitFails, Calm, RowCalm, Closed
  <2> QED BY <2>1, <2>2, CalmElsewhere DEF Elsewhere, Steps
<1>3. ASSUME Fenced(l), lane' = [lane EXCEPT ![l] = Idle]
      PROVE  \A k \in Lanes : LaneAnswers(k)'
  BY <1>3, RestStep, ActsAlone
<1>4. CASE AdmitRefused(l)
  <2>1. RowCalm /\ ~Unexplained'
    BY <1>4, BlockedRow DEF AdmitRefused, Codes, None
  <2>2. jobs'["fallback"] = jobs["fallback"] /\ ~Live("fallback")
    BY <1>1, <1>4, UntoldFacts DEF AdmitRefused, LaneAnswers
  <2>3. Answered' /\ OutdatedBacked' /\ ReplayPast'
    BY <2>1, <2>2, UntoldFacts DEF RowCalm, Answered, OutdatedBacked, Outdated, Live, ReplayPast
  <2> QED BY <1>3, <1>4, <2>3 DEF AdmitRefused, Silence
<1>5. CASE Admitted(l)
  <2>1. row'.gen = row.gen
    BY <1>5, UntoldFacts DEF Admitted, Rows
  <2>2. jobs'["fallback"].status = "pending" /\ jobs'["fallback"].replay = row.gen
    BY <1>1, <1>5, UntoldFacts DEF Admitted, Renews, LaneAnswers
  <2>3. Answered' /\ OutdatedBacked' /\ ReplayPast'
    BY <2>1, <2>2, UntoldFacts DEF Answered, FallbackAnswers, OutdatedBacked, Outdated, Deferral, ReplayPast
  <2> QED BY <1>3, <1>5, <2>3 DEF Admitted, Silence
<1> QED BY <1>1, <1>2, <1>4, <1>5
LEMMA SilentStartFallback ==
  ASSUME Untold, NEW l \in Lanes, StartFallback(l)
  PROVE  Silence'
<1>1. Calm
  BY SameJobs DEF StartFallback, Calm, RowCalm, Closed
<1>2. CASE row.status \notin Open /\ Goto(l, "settling")
  <2>1. Others(l) /\ lane'[l].pc = "settling"
    BY <1>2, GotoStep DEF Steps
  <2>2. LaneAnswers(l)' /\ ~Writing(l)'
    BY <1>2, <2>1 DEF LaneAnswers, Writing, StartFallback, Unexplained, Open
  <2> QED BY <1>1, <2>1, <2>2, CalmStep
<1>3. CASE row.status \in {"delivery_failed", "delivery_pending", "rejected"} /\ Goto(l, "analysing")
  <2>1. Others(l) /\ lane'[l].pc = "analysing"
    BY <1>3, GotoStep DEF Steps
  <2>2. LaneAnswers(l)' /\ ~Closed
    BY <1>3, <2>1 DEF LaneAnswers, Closed
  <2> QED BY <1>1, <2>1, <2>2, CalmStep
<1> QED BY <1>2, <1>3 DEF StartFallback, Open

LEMMA SilentAnalyse ==
  ASSUME Untold, NEW l \in Lanes, Analyse(l)
  PROVE  Silence'
<1>1. PICK step \in {"requeueing", "settling", "delivering", "failing"} :
        /\ Goto(l, step)
        /\ step = "settling" => row' = [row EXCEPT !.status = "rejected"]
  BY DEF Analyse
<1>2. /\ Others(l) /\ Keeping(l) /\ lane'[l].pc = step
      /\ lane[l].pc = "analysing" /\ lane[l].job = "fallback" /\ jobs' = jobs
  BY <1>1, GotoStep, UntoldFacts DEF Steps, Analyse, Typed, Placed, FallbackSteps
<1>3. CASE ~Fenced(l)
  <2>1. row' = row
    BY <1>3, UntoldFacts DEF Analyse, NotedIf, Races
  <2>2. Calm
    BY <1>2, <2>1, SameJobs DEF Calm, RowCalm, Closed
  <2> QED BY <1>2, <1>3, <2>2, StaysUnfenced, CalmStep
<1>4. CASE Fenced(l)
  <2>1. Writing(l)
    BY <1>2, <1>4 DEF Writing
  <2>2. row'.gen = row.gen /\ row'.recorded = row.recorded
    BY WithoutDraftRow, UntoldFacts DEF Analyse, RowStatuses, Rows
  <2>3. LaneAnswers(l)'
    BY <1>1, <1>2, UntoldFacts DEF LaneAnswers, Unexplained, Rows
  <2> QED BY <1>2, <2>1, <2>2, <2>3, FallbackWrites
<1> QED BY <1>3, <1>4

LEMMA SilentDeliver ==
  ASSUME Untold, NEW l \in Lanes, Deliver(l)
  PROVE  Silence'
<1> DEFINE retry == lane[l].job = "retry"
<1>1. /\ jobs' = jobs /\ lane[l].pc = "delivering" /\ lane[l].job \in {"retry", "fallback"}
      /\ ~Fenced(l) => row' = row
  BY UntoldFacts DEF Deliver, NotedIf, Races, Typed, Placed, JobIds
<1>2. PICK step \in {"failing", "completing", "settling", "requeueing"} :
        /\ Goto(l, step)
        /\ step = "completing" => retry
        /\ step = "settling" => ~retry
        /\ \/ row' = row /\ step = "failing"
           \/ row' = WithDraft(row)
           \/ row' = WithoutDraft(row, "delivery_failed") /\ step \in {"failing", "requeueing"}
           \/ row' = WithoutDraft(row, "delivery_blocked")
  BY DEF Deliver
<1>3. Others(l) /\ Keeping(l) /\ lane'[l].pc = step
  BY <1>2, GotoStep DEF Steps
<1>4. /\ row'.gen = row.gen
      /\ row.recorded => row'.recorded
      /\ step \in {"completing", "settling"} =>
           (row'.recorded \/ Closed') /\ ~Unexplained'
  <2>1. CASE row' = WithDraft(row)
    BY <2>1, UntoldFacts DEF WithDraft, Rows, Unexplained
  <2>2. CASE row' = WithoutDraft(row, "delivery_failed") /\ step \in {"failing", "requeueing"}
    BY <2>2, WithoutDraftRow DEF RowStatuses
  <2>3. CASE row' = WithoutDraft(row, "delivery_blocked")
    <3>1. /\ row'.gen = row.gen /\ row'.recorded = row.recorded
          /\ row'.recorded \/ row'.status = "delivery_blocked"
      BY <2>3, WithoutDraftRow DEF RowStatuses
    <3> QED BY <3>1, UntoldFacts DEF Unexplained, Closed, Final
  <2> QED BY <1>2, <2>1, <2>2, <2>3
<1>5. LaneAnswers(l)'
  BY <1>2, <1>3, <1>4 DEF LaneAnswers
<1>6. CASE ~Fenced(l)
  <2>1. Calm
    BY <1>1, <1>6, SameJobs DEF Calm, RowCalm, Closed
  <2> QED BY <1>3, <1>6, <2>1, StaysUnfenced, CalmStep
<1>7. CASE Fenced(l) /\ retry
  BY <1>1, <1>3, <1>4, <1>5, <1>7, RetryWrites
<1>8. CASE Fenced(l) /\ ~retry
  <2>1. Writing(l)
    BY <1>1, <1>8 DEF Writing
  <2> QED BY <1>1, <1>3, <1>4, <1>5, <2>1, FallbackWrites
<1> QED BY <1>6, <1>7, <1>8

\* The retry job is enqueued, unless it waits or runs.
LEMMA QueuedFacts ==
  ASSUME Typed, jobs' = RetryQueued
  PROVE  /\ Live("retry")' /\ Persists("fallback") /\ jobs'["fallback"] = jobs["fallback"]
         /\ Persists("retry") \/ RetryWakes
<1>1. jobs \in [JobIds -> JobRows]
  BY DEF Typed, TypeOK
<1> QED BY <1>1, RetryQueuedFacts DEF Renews, Live, Persists, RetryWakes

LEMMA SilentRequeue ==
  ASSUME Untold, NEW l \in Lanes, Requeue(l)
  PROVE  Silence'
<1>1. Others(l) /\ lane'[l].pc = "settling"
  BY GotoStep DEF Requeue, Steps
<1>2. Live("retry")' /\ Persists("fallback") /\ (Persists("retry") \/ RetryWakes)
  BY UntoldFacts, QueuedFacts DEF Requeue
<1>3. Calm
  BY <1>2 DEF Requeue, Calm, RowCalm, Closed
<1>4. LaneAnswers(l)' /\ ~Writing(l)'
  BY <1>1, <1>2 DEF LaneAnswers, Writing
<1> QED BY <1>1, <1>3, <1>4, CalmStep

\* A job is done.
LEMMA DoneFacts ==
  ASSUME Typed, NEW j \in JobIds, jobs' = [jobs EXCEPT ![j] = Released(@, "done")]
  PROVE  /\ jobs'[j].status = "done" /\ jobs'[j].replay = jobs[j].replay
         /\ \A i \in JobIds \ {j} : jobs'[i] = jobs[i]
<1>1. jobs \in [JobIds -> JobRows] /\ jobs[j] \in JobRows
  BY DEF Typed, TypeOK
<1> DEFINE r == Released(jobs[j], "done")
<1>2. r \in JobRows /\ r.status = "done" /\ r.replay = jobs[j].replay
  BY <1>1, ReleasedFacts
<1>3. jobs' = [jobs EXCEPT ![j] = r]
  OBVIOUS
<1> HIDE DEF r
<1> QED BY <1>1, <1>2, <1>3

LEMMA SilentSettle ==
  ASSUME Untold, NEW l \in Lanes, Settle(l)
  PROVE  Silence'
<1>1. CASE Goto(l, "failing") /\ jobs' = jobs
  <2>1. Others(l) /\ lane'[l].pc = "failing"
    BY <1>1, GotoStep DEF Steps
  <2>2. Calm
    BY <1>1, SameJobs DEF Settle, Calm, RowCalm, Closed
  <2> QED BY <2>1, <2>2, CalmElsewhere DEF Elsewhere, Steps
<1>2. CASE Fenced(l) /\ Rest(l) /\ jobs' = [jobs EXCEPT !["fallback"] = Released(@, "done")]
  <2>1. /\ jobs'["fallback"].status = "done" /\ jobs'["fallback"].replay = jobs["fallback"].replay
        /\ jobs'["retry"] = jobs["retry"] /\ row' = row
    BY <1>2, UntoldFacts, DoneFacts DEF Settle, JobIds
  <2>2. Unexplained => Live("retry")
    BY <1>2, UntoldFacts DEF LaneAnswers, Settle
  <2>3. Answered' /\ OutdatedBacked' /\ ReplayPast'
    BY <2>1, <2>2, UntoldFacts DEF Answered, Unexplained, OutdatedBacked, Outdated, Live, ReplayPast
  <2>4. \A k \in Lanes : LaneAnswers(k)'
    BY <1>2, RestStep, ActsAlone DEF Rest
  <2> QED BY <2>3, <2>4 DEF Silence
<1> QED BY <1>1, <1>2 DEF Settle

LEMMA SilentComplete ==
  ASSUME Untold, NEW l \in Lanes, Complete(l)
  PROVE  Silence'
<1>1. CASE jobs' = jobs
  <2>1. Calm
    BY <1>1, SameJobs DEF Complete, Calm, RowCalm, Closed
  <2> QED BY <2>1, RestStep DEF Complete, Rest
<1>2. CASE Fenced(l) /\ jobs' = [jobs EXCEPT !["retry"] = Released(@, "done")]
  <2>1. /\ lane[l].pc = "completing" /\ jobs["retry"].status = "running"
    BY <1>2, UntoldFacts DEF Complete, Typed, Placed, RetrySteps, Fenced
  <2>2. jobs'["retry"].status = "done" /\ jobs'["fallback"] = jobs["fallback"] /\ row' = row
    BY <1>2, UntoldFacts, DoneFacts DEF Complete, JobIds
  <2>3. (Unexplained => FallbackAnswers) /\ (Outdated => row.recorded \/ Closed)
    BY <1>2, <2>1, UntoldFacts DEF LaneAnswers
  <2>4. \A k \in Lanes : LaneAnswers(k)' /\ ~Writing(k)'
    BY <1>2, RestStep, ActsAlone DEF Complete, Rest
  <2>5. Answered'
    BY <2>1, <2>2, <2>3 DEF Answered, Unexplained, FallbackAnswers
  <2>6. OutdatedBacked' /\ ReplayPast'
    BY <2>2, <2>3, <2>4, UntoldFacts DEF OutdatedBacked, Outdated, Deferral, Live, Closed, ReplayPast
  <2> QED BY <2>4, <2>5, <2>6 DEF Silence
<1> QED BY <1>1, <1>2 DEF Complete
\* A statement that leaves the other job alone.
LEMMA OneJobPersists ==
  ASSUME Typed, NEW j \in JobIds, NEW r \in JobRows, jobs' = [jobs EXCEPT ![j] = r],
         r.replay = jobs[j].replay,
         r.status = jobs[j].status \/ (Live(j) /\ r.status \in {"pending", "running", "dead_letter"})
  PROVE  Persists("retry") /\ Persists("fallback")
<1>1. jobs \in [JobIds -> JobRows] /\ JobIds = {"retry", "fallback"}
  BY DEF Typed, TypeOK, JobIds
<1>2. jobs'[j] = r /\ \A i \in JobIds \ {j} : jobs'[i] = jobs[i]
  BY <1>1, OneJob
<1>3. Persists(j) /\ \A i \in JobIds \ {j} : Persists(i)
  BY <1>2 DEF Persists
<1> QED BY <1>1, <1>3

LEMMA SilentFail ==
  ASSUME Untold, NEW l \in Lanes, Fail(l)
  PROVE  Silence'
<1> DEFINE j == lane[l].job
<1>1. PICK retryable \in BOOLEAN :
        \/ jobs' = jobs
        \/ Live(j) /\ jobs' = [jobs EXCEPT ![j] = FailedJob(jobs[j], retryable)]
  BY DEF Fail, Fenced, Live
<1>2. j \in JobIds /\ jobs \in [JobIds -> JobRows]
  BY UntoldFacts DEF Fail, Typed, TypeOK, Placed
<1>3. Persists("retry") /\ Persists("fallback")
  <2>1. CASE jobs' = jobs
    BY <2>1, SameJobs
  <2>2. CASE Live(j) /\ jobs' = [jobs EXCEPT ![j] = FailedJob(jobs[j], retryable)]
    <3> DEFINE r == FailedJob(jobs[j], retryable)
    <3> HIDE DEF j
    <3>1. r \in JobRows /\ r.status \in {"pending", "dead_letter"} /\ r.replay = jobs[j].replay
      BY <1>2, FailedFacts
    <3>2. jobs' = [jobs EXCEPT ![j] = r]
      BY <2>2
    <3> HIDE DEF r
    <3> QED BY <1>2, <2>2, <3>1, <3>2, UntoldFacts, OneJobPersists
  <2> QED BY <1>1, <2>1, <2>2
<1>4. Calm
  BY <1>3 DEF Fail, Calm, RowCalm, Closed
<1>5. Rest(l) \/ Goto(l, "releasing")
  BY DEF Fail
<1>6. CASE Goto(l, "releasing")
  BY <1>4, <1>6, GotoStep, CalmElsewhere DEF Elsewhere, Steps
<1>7. CASE Rest(l)
  BY <1>4, <1>7, RestStep DEF Rest
<1> QED BY <1>5, <1>6, <1>7

LEMMA SilentDefer ==
  ASSUME Untold, NEW l \in Lanes, Defer(l)
  PROVE  Silence'
<1>1. jobs \in [JobIds -> JobRows] /\ jobs["retry"] \in JobRows /\ "retry" \in JobIds
  BY UntoldFacts DEF Typed, TypeOK, JobIds
<1>2. Persists("retry") /\ Persists("fallback")
  <2>1. CASE jobs' = jobs
    BY <2>1, SameJobs
  <2>2. CASE jobs' # jobs
    <3> DEFINE p == Released(jobs["retry"], "pending")
               r == [p EXCEPT !.attempts = @ - 1]
    <3>1. /\ p \in JobRows /\ p.status = "pending" /\ p.attempts = jobs["retry"].attempts
          /\ p.replay = jobs["retry"].replay
      BY <1>1, ReleasedFacts
    <3>2. /\ jobs["retry"].status = "running" /\ Live("retry")
          /\ jobs' = [jobs EXCEPT !["retry"] = r]
      BY <2>2 DEF Defer, Live
    <3>3. jobs["retry"].attempts >= 1 /\ jobs["retry"].attempts \in Nat
      BY <1>1, <3>2, UntoldFacts DEF Typed, Counted, JobRows
    <3> HIDE DEF p
    <3>4. p.attempts - 1 \in Nat
      BY <3>1, <3>3
    <3>5. r \in JobRows /\ r.status = "pending" /\ r.replay = jobs["retry"].replay
      BY <3>1, <3>4 DEF JobRows
    <3> HIDE DEF r
    <3> QED BY <1>1, <3>2, <3>5, UntoldFacts, OneJobPersists
  <2> QED BY <2>1, <2>2
<1>3. Calm
  BY <1>2 DEF Defer, Calm, RowCalm, Closed
<1> QED BY <1>3, RestStep DEF Defer, Rest

LEMMA SilentStamp ==
  ASSUME Untold, NEW l \in Lanes, Stamp(l)
  PROVE  Silence'
<1>1. /\ row'.gen = row.gen /\ row'.recorded = row.recorded /\ row'.status = row.status
      /\ row'.error = None => row.error = None
  BY UntoldFacts DEF Stamp, Stamped, Undelivered, Rows, None
<1>2. Calm
  BY <1>1, SameJobs DEF Stamp, Calm, RowCalm, Closed
<1> QED BY <1>2, RestStep DEF Stamp, Rest

LEMMA RecoveredPersists ==
  ASSUME Typed, NEW j \in JobIds
  PROVE  /\ Recovered[j].replay = jobs[j].replay
         /\ \/ Recovered[j].status = jobs[j].status
            \/ jobs[j].status = "running" /\ Recovered[j].status \in {"pending", "dead_letter"}
BY RecoveredFacts DEF Typed, TypeOK, LapsedRuns

LEMMA SilentRecover ==
  ASSUME Untold, NEW l \in Lanes, Recover(l)
  PROVE  Silence'
<1>1. \A j \in JobIds : Persists(j)
  BY UntoldFacts, RecoveredPersists DEF Recover, Persists, Live
<1>2. Calm
  BY <1>1 DEF Recover, Calm, RowCalm, Closed, JobIds
<1> QED BY <1>2, CalmLanes DEF Recover

LEMMA SilentClaim ==
  ASSUME Untold, NEW l \in Lanes, Claim(l)
  PROVE  Silence'
<1>1. PICK j \in JobIds :
        /\ Recovered[j].status = "pending"
        /\ jobs' = [Recovered EXCEPT ![j].status = "running", ![j].owner = l,
                                     ![j].attempts = @ + 1, ![j].gen = @ + 1]
        /\ lane' = [lane EXCEPT ![l] =
             [Idle EXCEPT !.pc = j, !.job = j, !.gen = Recovered[j].gen + 1,
                          !.replay = Recovered[j].replay, !.hold = Recovered[j].hold]]
  BY DEF Claim
<1>2. jobs \in [JobIds -> JobRows] /\ lane \in [Lanes -> LaneStates]
  BY UntoldFacts DEF Typed, TypeOK
<1> DEFINE r == Recovered[j]
           q == [r EXCEPT !.status = "running", !.owner = l, !.attempts = @ + 1, !.gen = @ + 1]
<1>3. Recovered \in [JobIds -> JobRows] /\ r \in JobRows
  BY <1>2, RecoveredFacts
<1>4. jobs' = [Recovered EXCEPT ![j] = q]
  BY <1>1, <1>3
<1>5. jobs'[j] = q /\ \A i \in JobIds \ {j} : jobs'[i] = Recovered[i]
  BY <1>3, <1>4
<1>6. q.status = "running" /\ q.replay = r.replay
  BY <1>3, GrantedFacts
<1>7. Persists(j)
  <2> HIDE DEF q
  <2>1. r.replay = jobs[j].replay /\ Live(j)
    BY <1>1, UntoldFacts, RecoveredPersists DEF Live
  <2> QED BY <1>5, <1>6, <2>1 DEF Persists
<1>8. \A i \in JobIds \ {j} : Persists(i)
  BY <1>5, UntoldFacts, RecoveredPersists DEF Persists, Live
<1>9. Calm
  BY <1>7, <1>8 DEF Claim, Calm, RowCalm, Closed, JobIds
<1>10. Others(l) /\ lane'[l].pc = j
  BY <1>1, <1>2 DEF Others, Idle
<1> QED BY <1>9, <1>10, CalmElsewhere DEF Elsewhere, Steps, JobIds

LEMMA SilentLapse ==
  ASSUME Untold, NEW j \in JobIds, Lapse(j)
  PROVE  Silence'
<1>1. jobs \in [JobIds -> JobRows]
  BY UntoldFacts DEF Typed, TypeOK
<1> DEFINE r == [jobs[j] EXCEPT !.lapsed = TRUE]
<1>2. r \in JobRows /\ r.status = jobs[j].status /\ r.replay = jobs[j].replay
  BY <1>1 DEF JobRows
<1>3. jobs' = [jobs EXCEPT ![j] = r]
  BY DEF Lapse
<1> HIDE DEF r
<1>4. Persists("retry") /\ Persists("fallback")
  BY <1>2, <1>3, UntoldFacts, OneJobPersists
<1>5. Calm
  BY <1>4 DEF Lapse, Calm, RowCalm, Closed
<1> QED BY <1>5, CalmLanes DEF Lapse

LEMMA SilentReopen ==
  ASSUME Untold, Reopen
  PROVE  Silence'
<1>1. ~row.recorded /\ jobs["retry"].status # "running"
  BY UntoldFacts DEF Reopen, Races
<1>2. row'.gen = row.gen + 1
  BY <1>1, UntoldFacts DEF Reopen, Reopened, Undelivered, Rows
<1>3. Live("retry")' /\ jobs'["fallback"] = jobs["fallback"]
  BY UntoldFacts, QueuedFacts DEF Reopen
<1>4. Answered' /\ OutdatedBacked' /\ ReplayPast'
  BY <1>2, <1>3, UntoldFacts DEF Answered, OutdatedBacked, RetryStands, Live, ReplayPast
<1>5. ASSUME NEW k \in Lanes PROVE LaneAnswers(k)'
  <2>1. lane'[k] = lane[k]
    BY DEF Reopen
  <2>2. CASE ~Fenced(k)
    BY <2>1, <2>2, StaysUnfenced DEF Keeping
  <2>3. CASE lane[k].pc = "settling"
    BY <1>3, <2>1, <2>3 DEF LaneAnswers
  <2>4. CASE Fenced(k) /\ lane[k].pc \in {"completing", "admitting"}
    BY <1>1, <2>4, UntoldFacts DEF Fenced, Typed, Placed, RetrySteps
  <2> QED BY <2>1, <2>2, <2>3, <2>4 DEF LaneAnswers
<1> QED BY <1>4, <1>5 DEF Silence

LEMMA SilentRetryJob ==
  ASSUME Untold, NEW j \in JobIds, RetryJob(j)
  PROVE  Silence'
<1>1. j = "retry"
  BY UntoldFacts DEF RetryJob, Noted, Races, JobIds
<1> DEFINE p == Released(jobs["retry"], "pending")
           r == [p EXCEPT !.attempts = 0]
<1>2. jobs \in [JobIds -> JobRows] /\ jobs["retry"] \in JobRows /\ JobIds = {"retry", "fallback"}
  BY UntoldFacts DEF Typed, TypeOK, JobIds
<1>3. p \in JobRows /\ p.status = "pending"
  BY <1>2, ReleasedFacts
<1> HIDE DEF p
<1>4. r \in JobRows /\ r.status = "pending"
  BY <1>3 DEF JobRows
<1>5. jobs' = [jobs EXCEPT !["retry"] = r] /\ ~Live("retry")
  BY <1>1 DEF RetryJob, Live, p
<1> HIDE DEF r
<1>6. RetryWakes /\ Persists("fallback")
  BY <1>2, <1>4, <1>5 DEF RetryWakes, Live, Persists
<1>7. Calm
  BY <1>6 DEF RetryJob, Calm, RowCalm, Closed
<1> QED BY <1>7, CalmLanes DEF RetryJob

LEMMA SilentRetryDelivery ==
  ASSUME Untold, RetryDelivery
  PROVE  Silence'
<1>1. RowCalm
  <2>1. CASE row' = row
    BY <2>1 DEF RowCalm, Closed
  <2>2. CASE row' = Blocked(row, "replay_unavailable")
    BY <2>2, BlockedRow DEF Codes, None
  <2> QED BY <2>1, <2>2 DEF RetryDelivery
<1>2. Calm
  BY <1>1, SameJobs DEF RetryDelivery, Calm
<1> QED BY <1>2, CalmLanes DEF RetryDelivery

LEMMA StepSilence ==
  ASSUME Untold
  PROVE  Silence'
<1>1. ASSUME NEW l \in Lanes, Drain(l) PROVE Silence'
  <2>1. CASE Sweep(l)
    <3>1. Calm
      BY <2>1, SameJobs DEF Sweep, Calm, RowCalm, Closed
    <3>2. Others(l) /\ lane'[l].pc = "releasing"
      BY <2>1, UntoldFacts DEF Sweep, Others, Typed, TypeOK, LaneStates
    <3> QED BY <3>1, <3>2, CalmElsewhere DEF Elsewhere, Steps
  <2> QED BY <1>1, <2>1, SilentClaim, SilentRecover DEF Drain
<1>2. ASSUME NEW l \in Lanes, Run(l) PROVE Silence'
  <2>1. CASE Release(l)
    <3>1. Calm
      BY <2>1, SameJobs DEF Release, Calm, RowCalm, Closed
    <3> QED BY <2>1, <3>1, GotoStep, CalmElsewhere DEF Release, Elsewhere, Steps
  <2> QED BY <1>2, <2>1, SilentStartRetry, SilentAbandon, SilentCheck, SilentDefer, SilentAdmit,
             SilentStartFallback, SilentAnalyse, SilentDeliver, SilentRequeue, SilentSettle,
             SilentComplete, SilentFail, SilentStamp DEF Run
<1>3. ASSUME NEW l \in Lanes, Crash(l) PROVE Silence'
  <2>1. Calm
    BY <1>3, SameJobs DEF Crash, Calm, RowCalm, Closed
  <2> QED BY <1>3, <2>1, RestStep DEF Crash, Rest
<1>4. ASSUME NEW j \in JobIds, CancelJob(j) PROVE Silence'
  BY <1>4, UntoldFacts DEF CancelJob, Noted, Races
<1>5. CASE GrowOld \/ ReleaseCancelled \/ ApiCrash \/ UNCHANGED vars
  <2>1. jobs' = jobs /\ row' = row /\ lane' = lane
    BY <1>5 DEF GrowOld, ReleaseCancelled, ApiCrash, vars
  <2>2. Calm
    BY <2>1, SameJobs DEF Calm, RowCalm, Closed
  <2> QED BY <2>1, <2>2, CalmLanes
<1> QED BY <1>1, <1>2, <1>3, <1>4, <1>5, UntoldFacts, SilentLapse, SilentReopen, SilentRetryJob,
           SilentRetryDelivery DEF Next, Operator

----------------------------------------------------------------------------
(* A claim under a capacity of one finds no job running.                   *)
LEMMA ClaimsAlone ==
  ASSUME Typed, Capacity = 1, NEW l \in Lanes, Claim(l)
  PROVE  OneRunning'
<1> DEFINE R == {k \in JobIds : Recovered[k].status = "running"}
<1>1. PICK j \in JobIds :
        /\ Cardinality(R) < 1
        /\ jobs' = [Recovered EXCEPT ![j].status = "running", ![j].owner = l,
                                     ![j].attempts = @ + 1, ![j].gen = @ + 1]
  BY DEF Claim
<1>2. IsFiniteSet(R)
  <2>1. IsFiniteSet({"retry"}) /\ IsFiniteSet({"retry"} \cup {"fallback"})
    BY FS_Singleton, FS_AddElement
  <2> QED BY <2>1, FS_Subset DEF JobIds
<1>3. R = {}
  <2> HIDE DEF R
  <2>1. Cardinality(R) \in Nat
    BY <1>2, FS_CardinalityType
  <2>2. Cardinality(R) = 0
    BY <1>1, <2>1
  <2> QED BY <1>2, <2>2, FS_EmptySet
<1>4. \A i \in JobIds \ {j} : jobs'[i] = Recovered[i]
  BY <1>1 DEF Recovered
<1> QED BY <1>3, <1>4 DEF OneRunning, JobIds

LEMMA StepOneRunning ==
  ASSUME Typed, Capacity = 1, OneRunning, [Next]_vars
  PROVE  OneRunning'
<1>1. CASE \E l \in Lanes : Claim(l)
  BY <1>1, ClaimsAlone
<1>2. CASE ~\E l \in Lanes : Claim(l)
  <2>1. JobSteps /\ JobIds = {"retry", "fallback"}
    BY StepJobs DEF JobIds
  <2>2. ASSUME NEW j \in JobIds PROVE jobs'[j].status = "running" => jobs[j].status = "running"
    <3>1. Stops(j) \/ Lapses(j) \/ Renews(j) \/ Requeues(j)
      <4>1. j = "retry" \/ j = "fallback"
        BY <2>1
      <4>2. ~Starts(j)
        BY <1>2 DEF Starts
      <4> QED BY <2>1, <4>1, <4>2 DEF JobSteps, JobRequeued, RetryRenewed, Admitted, Goes
    <3> QED BY <3>1 DEF Stops, Lapses, Renews, Requeues
  <2> QED BY <2>1, <2>2 DEF OneRunning
<1> QED BY <1>1, <1>2

(* With the lanes of a tenant claiming one job at a time, as the worker    *)
(* has them, a failed delivery whose work is over tells why, unless one of *)
(* the named interleavings happened; whatever crashes, lapses, is retried, *)
(* deferred or refused, for any number of lanes, attempts and replays.     *)
THEOREM SilenceTheorem ==
  ASSUME Capacity = 1
  PROVE  Spec => []SilenceExplained
<1>1. Init => SInv
  <2> SUFFICES ASSUME Init PROVE SInv
    OBVIOUS
  <2>1. /\ jobs["retry"].status = "pending" /\ jobs["fallback"].status = "absent"
        /\ jobs["fallback"].replay = 0 /\ row.gen = 0 /\ \A l \in Lanes : lane[l].job = None
    BY DEF Init, JobIds, Idle
  <2>2. Silence
    BY <2>1 DEF Silence, Answered, Live, OutdatedBacked, Outdated, ReplayPast, LaneAnswers, Fenced
  <2> QED BY <2>1, <2>2, InitInvariant DEF SInv, OneRunning
<1>2. SInv /\ [Next]_vars => SInv'
  <2> SUFFICES ASSUME SInv, [Next]_vars PROVE SInv'
    OBVIOUS
  <2>1. IInv' /\ Typed /\ OneRunning'
    BY NextInvariant, StepOneRunning DEF SInv, IInv
  <2>2. CASE Told
    <3>1. Told'
      BY <2>1, <2>2, StepRaces DEF Told
    <3> QED BY <2>1, <3>1 DEF SInv
  <2>3. CASE ~Told /\ ~Told'
    BY <2>1, <2>3, StepSilence DEF SInv, Untold
  <2> QED BY <2>1, <2>2, <2>3 DEF SInv
<1>3. SInv => SilenceExplained
  <2> SUFFICES ASSUME SInv, Over, Unexplained, ~Told PROVE FALSE
    BY DEF SilenceExplained, Told
  <2>1. DraftStands /\ Answered /\ "recorded" \notin races
    <3>1. races \subseteq Races /\ "recorded" \in Races
      BY DEF SInv, IInv, Typed, TypeOK, Races
    <3> QED BY <3>1 DEF SInv, IInv, Silence, Told
  <2>2. jobs["fallback"].status = "dead_letter" /\ jobs["fallback"].replay = row.gen
    BY <2>1 DEF Answered, FallbackAnswers, Over, Live
  <2>3. ~row.recorded /\ row.error = None
    BY <2>1 DEF Unexplained, DraftStands
  <2> QED BY <2>2, <2>3 DEF Over, Unfinalized, Undelivered
<1> QED BY <1>1, <1>2, <1>3, PTL DEF Spec
=============================================================================
