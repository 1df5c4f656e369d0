----------------------------- MODULE WebhookProof -----------------------------
(***************************************************************************)
(* Proofs about WebhookDelivery, for every number of deliveries, jobs and  *)
(* workers.  The invariant relates each job to its delivery: what the job  *)
(* has counted is not more than what was sent or lost, and a job about to  *)
(* record a success has reached the receiver.  It holds of redundant jobs  *)
(* too, so no bound on them is needed.                                     *)
(***************************************************************************)
EXTENDS WebhookDelivery, FiniteSetTheorems, TLAPS

(* What a job q may rely on, given the posts, the faults and the events    *)
(* that were accepted.                                                     *)
JobSound(q, p, f, a) ==
  /\ q.stage # "free" => q.delivery \in Deliveries /\ q.made <= p[q.delivery] + f
  /\ q.stage = "bad" => q.made + 1 <= p[q.delivery] + f
  /\ q.stage = "ok" => q.delivery \in a

JobsSound == \A j \in Jobs : JobSound(job[j], posts, faults, accepted)

IInv ==
  /\ TypeOK
  /\ JobsSound
  /\ SucceededWasAccepted
  /\ FailedAfterAllAttempts

-----------------------------------------------------------------------------
LEMMA JobType ==
  ASSUME NEW d \in Deliveries \cup {"none"}, NEW m \in 0 .. MaxAttempts - 1, NEW s \in Stages
  PROVE  /\ Job(d, m, s) \in JobTypes
         /\ Job(d, m, s).delivery = d /\ Job(d, m, s).made = m /\ Job(d, m, s).stage = s
  BY DEF Job, JobTypes

LEMMA JobFields ==
  ASSUME NEW q \in JobTypes
  PROVE  q.delivery \in Deliveries \cup {"none"} /\ q.made \in 0 .. MaxAttempts - 1 /\ q.stage \in Stages
  BY DEF JobTypes

LEMMA NoJobType == NoJob \in JobTypes /\ NoJob.stage = "free"
<1>1. 0 \in 0 .. MaxAttempts - 1
  BY DeliveryAssumption DEF DeliveryAssumption
<1>2. QED
  BY <1>1 DEF NoJob, Job, JobTypes, Stages

(* Posts and faults only grow, so that what a job relies on stays true.    *)
LEMMA SoundStays ==
  ASSUME NEW q \in JobTypes, NEW p, NEW pp, NEW f \in Nat, NEW ff \in Nat, NEW a, NEW aa,
         p \in [Deliveries -> Nat], pp \in [Deliveries -> Nat],
         \A d \in Deliveries : p[d] <= pp[d], f <= ff, a \subseteq aa,
         JobSound(q, p, f, a)
  PROVE  JobSound(q, pp, ff, aa)
<1>1. q.made \in Nat
  BY DeliveryAssumption DEF JobTypes, DeliveryAssumption
<1>2. CASE q.stage = "free"
  BY <1>2 DEF JobSound
<1>3. CASE q.stage # "free"
  <2>1. q.delivery \in Deliveries /\ q.made <= p[q.delivery] + f
    BY <1>3 DEF JobSound
  <2>2. p[q.delivery] \in Nat /\ pp[q.delivery] \in Nat /\ p[q.delivery] <= pp[q.delivery]
    BY <2>1
  <2>3. q.made <= pp[q.delivery] + ff
    BY <1>1, <2>1, <2>2
  <2>4. q.stage = "bad" => q.made + 1 <= pp[q.delivery] + ff
    BY <1>1, <2>2 DEF JobSound
  <2>5. q.stage = "ok" => q.delivery \in aa
    BY DEF JobSound
  <2>6. QED
    BY <2>1, <2>3, <2>4, <2>5 DEF JobSound
<1>4. QED
  BY <1>2, <1>3

(* The queue changes in one slot, or not at all.                           *)
LEMMA JobsMove ==
  ASSUME IInv, NEW j \in Jobs, NEW q \in JobTypes, job' = [job EXCEPT ![j] = q],
         posts' \in [Deliveries -> 0 .. MaxAttempts + 1], \A d \in Deliveries : posts[d] <= posts'[d],
         faults' \in 0 .. MaxFaults, faults <= faults', accepted \subseteq accepted',
         JobSound(q, posts', faults', accepted')
  PROVE  job' \in [Jobs -> JobTypes] /\ JobsSound'
<1>1. job \in [Jobs -> JobTypes] /\ posts \in [Deliveries -> 0 .. MaxAttempts + 1]
      /\ faults \in 0 .. MaxFaults /\ MaxAttempts \in Nat /\ MaxFaults \in Nat
  BY DeliveryAssumption DEF IInv, TypeOK, DeliveryAssumption
<1>2. job' \in [Jobs -> JobTypes]
  BY <1>1
<1>3. posts \in [Deliveries -> Nat] /\ posts' \in [Deliveries -> Nat] /\ faults \in Nat /\ faults' \in Nat
  BY <1>1
<1>4. ASSUME NEW g \in Jobs PROVE JobSound(job'[g], posts', faults', accepted')
  <2>1. CASE g = j
    BY <1>1, <2>1
  <2>2. CASE g # j
    <3>1. job'[g] = job[g] /\ job[g] \in JobTypes
      BY <1>1, <2>2
    <3>2. JobSound(job[g], posts, faults, accepted)
      BY DEF IInv, JobsSound
    <3>3. JobSound(job[g], posts', faults', accepted')
      BY <1>3, <3>1, <3>2, SoundStays
    <3>4. QED
      BY <3>1, <3>3
  <2>3. QED
    BY <2>1, <2>2
<1>5. JobsSound'
  BY <1>4 DEF JobsSound
<1>6. QED
  BY <1>2, <1>5

LEMMA JobsStay ==
  ASSUME IInv, job' = job, posts' = posts, faults' \in 0 .. MaxFaults, faults <= faults',
         accepted' = accepted
  PROVE  JobsSound'
<1>1. job \in [Jobs -> JobTypes] /\ posts \in [Deliveries -> 0 .. MaxAttempts + 1]
      /\ faults \in 0 .. MaxFaults /\ MaxAttempts \in Nat /\ MaxFaults \in Nat
  BY DeliveryAssumption DEF IInv, TypeOK, DeliveryAssumption
<1>2. posts \in [Deliveries -> Nat] /\ faults \in Nat /\ faults' \in Nat
      /\ \A d \in Deliveries : posts[d] <= posts[d]
  BY <1>1
<1>3. ASSUME NEW g \in Jobs PROVE JobSound(job[g], posts, faults', accepted)
  <2>1. JobSound(job[g], posts, faults, accepted) /\ job[g] \in JobTypes
    BY <1>1 DEF IInv, JobsSound
  <2>2. QED
    BY <1>2, <2>1, SoundStays
<1>4. QED
  BY <1>3 DEF JobsSound

LEMMA FaultCounts ==
  ASSUME IInv, Fault
  PROVE  faults' \in 0 .. MaxFaults /\ faults <= faults' /\ faults' = faults + 1
  BY DeliveryAssumption DEF Fault, IInv, TypeOK, DeliveryAssumption

(* A step that takes no row to SUCCEEDED or to FAILED.                     *)
LEMMA RowsKeep ==
  ASSUME IInv, \A d \in Deliveries : row'[d] \in {"SUCCEEDED", "FAILED"} => row'[d] = row[d],
         accepted \subseteq accepted', excused \subseteq excused',
         posts' \in [Deliveries -> 0 .. MaxAttempts + 1], \A d \in Deliveries : posts[d] <= posts'[d],
         faults' \in 0 .. MaxFaults, faults <= faults'
  PROVE  SucceededWasAccepted' /\ FailedAfterAllAttempts'
<1>1. SucceededWasAccepted'
  BY DEF IInv, SucceededWasAccepted
<1>2. ASSUME NEW d \in Deliveries, row'[d] = "FAILED", d \notin excused'
      PROVE  posts'[d] + faults' >= MaxAttempts
  <2>1. posts[d] + faults >= MaxAttempts
    BY <1>2 DEF IInv, FailedAfterAllAttempts
  <2>2. posts[d] \in Nat /\ posts'[d] \in Nat /\ faults \in Nat /\ faults' \in Nat
        /\ posts[d] <= posts'[d] /\ MaxAttempts \in Nat
    BY DeliveryAssumption DEF IInv, TypeOK, DeliveryAssumption
  <2>3. QED
    BY <2>1, <2>2
<1>3. FailedAfterAllAttempts'
  BY <1>2 DEF FailedAfterAllAttempts
<1>4. QED
  BY <1>1, <1>3

LEMMA InitInv == Init => IInv
<1> SUFFICES ASSUME Init PROVE IInv
  OBVIOUS
<1>1. TypeOK
  <2>1. 0 \in 0 .. MaxAttempts + 1 /\ resends \in 0 .. MaxResends /\ faults \in 0 .. MaxFaults
    BY DeliveryAssumption DEF Init, DeliveryAssumption
  <2>2. posts \in [Deliveries -> 0 .. MaxAttempts + 1]
    BY <2>1 DEF Init
  <2>3. job \in [Jobs -> JobTypes]
    BY NoJobType DEF Init
  <2>4. row \in [Deliveries -> {"none", "begun", "PENDING", "SUCCEEDED", "FAILED"}]
    BY DEF Init
  <2>5. adding \in [Actors -> SUBSET Deliveries]
    BY DEF Init
  <2>6. created \in Seq(Deliveries) /\ disabled \in BOOLEAN
    <3>1. created = <<>> /\ disabled = FALSE
      BY DEF Init
    <3>2. <<>> \in Seq(Deliveries)
      OBVIOUS
    <3>3. QED
      BY <3>1, <3>2
  <2>7. replaying = {} /\ accepted = {} /\ excused = {} /\ given = {} /\ resent = {}
    BY DEF Init
  <2>8. QED
    BY <2>1, <2>2, <2>3, <2>4, <2>5, <2>6, <2>7 DEF TypeOK
<1>2. JobsSound
  BY NoJobType DEF Init, JobsSound, JobSound
<1>3. SucceededWasAccepted /\ FailedAfterAllAttempts
  BY DEF Init, SucceededWasAccepted, FailedAfterAllAttempts
<1>4. QED
  BY <1>1, <1>2, <1>3 DEF IInv

(* What the lemmas above ask of a step that sends nothing and fails        *)
(* nothing.                                                                *)
LEMMA Quiet ==
  ASSUME IInv, UNCHANGED <<posts, faults>>
  PROVE  /\ posts' \in [Deliveries -> 0 .. MaxAttempts + 1]
         /\ \A d \in Deliveries : posts[d] <= posts'[d]
         /\ faults' \in 0 .. MaxFaults /\ faults <= faults'
<1>1. posts \in [Deliveries -> 0 .. MaxAttempts + 1] /\ faults \in 0 .. MaxFaults
      /\ MaxAttempts \in Nat /\ MaxFaults \in Nat
  BY DeliveryAssumption DEF IInv, TypeOK, DeliveryAssumption
<1>2. \A d \in Deliveries : posts[d] \in Nat
  BY <1>1
<1>3. QED
  BY <1>1, <1>2

(* Rows come to be, or are handed to the queue: no job moves.              *)
LEMMA RowsInv ==
  ASSUME IInv,
         \/ \E d \in Deliveries : BeginEmit(d) \/ CreateRow(d) \/ Resend(d)
         \/ \E a \in Actors : EnqueueFails(a)
         \/ \E S \in SUBSET Deliveries : Reconcile(S)
         \/ ReadDeadLettered
         \/ Replay
  PROVE  IInv'
<1>1. UNCHANGED <<job, posts, accepted, excused, given>>
  BY DEF BeginEmit, CreateRow, Resend, EnqueueFails, Reconcile, ReadDeadLettered, Replay, history
<1>2. /\ row' \in [Deliveries -> {"none", "begun", "PENDING", "SUCCEEDED", "FAILED"}]
      /\ \A d \in Deliveries : row'[d] \in {"SUCCEEDED", "FAILED"} => row'[d] = row[d]
  BY DEF BeginEmit, CreateRow, Resend, EnqueueFails, Reconcile, ReadDeadLettered, Replay, rows, Set,
         IInv, TypeOK
<1>3. faults' \in 0 .. MaxFaults /\ faults <= faults'
  <2>1. CASE \E a \in Actors : EnqueueFails(a)
    BY <2>1, FaultCounts DEF EnqueueFails
  <2>2. CASE UNCHANGED faults
    BY <1>1, <2>2, Quiet
  <2>3. QED
    BY <2>1, <2>2 DEF BeginEmit, CreateRow, Resend, Reconcile, ReadDeadLettered, Replay, bounds
<1>4. created' \in Seq(Deliveries) /\ disabled' \in BOOLEAN
  <2>1. created \in Seq(Deliveries) /\ disabled \in BOOLEAN
    BY DEF IInv, TypeOK
  <2>2. ASSUME NEW d \in Deliveries, CreateRow(d)
        PROVE  created' \in Seq(Deliveries) /\ disabled' \in BOOLEAN
    BY <2>1, <2>2 DEF CreateRow
  <2>3. CASE UNCHANGED created
    BY <2>1, <2>2, <2>3
       DEF BeginEmit, CreateRow, Resend, EnqueueFails, Reconcile, ReadDeadLettered, Replay, rows
  <2>4. QED
    BY <2>2, <2>3 DEF BeginEmit, Resend, EnqueueFails, Reconcile, ReadDeadLettered, Replay, rows
<1>5. adding' \in [Actors -> SUBSET Deliveries] /\ replaying' \subseteq Deliveries
  <2>1. adding \in [Actors -> SUBSET Deliveries] /\ replaying \subseteq Deliveries
    BY DEF IInv, TypeOK
  <2>2. CASE \E d \in Deliveries : BeginEmit(d) \/ CreateRow(d) \/ Resend(d)
    BY <2>1, <2>2 DEF BeginEmit, CreateRow, Resend, Actors
  <2>3. CASE \E a \in Actors : EnqueueFails(a)
    BY <2>1, <2>3 DEF EnqueueFails
  <2>4. CASE \E S \in SUBSET Deliveries : Reconcile(S)
    BY <2>1, <2>4 DEF Reconcile
  <2>5. CASE ReadDeadLettered \/ Replay
    BY <2>1, <2>5 DEF ReadDeadLettered, Replay, Failed
  <2>6. QED
    BY <2>2, <2>3, <2>4, <2>5
<1>6. resent' \subseteq Deliveries /\ resends' \in 0 .. MaxResends
  <2>1. resent \subseteq Deliveries /\ resends \in 0 .. MaxResends /\ replaying \subseteq Deliveries
    BY DEF IInv, TypeOK
  <2>2. resends' \in 0 .. MaxResends
    BY <2>1, DeliveryAssumption
       DEF BeginEmit, CreateRow, Resend, EnqueueFails, Reconcile, ReadDeadLettered, Replay, bounds,
           DeliveryAssumption
  <2>3. resent' \subseteq Deliveries
    BY <2>1
       DEF BeginEmit, CreateRow, Resend, EnqueueFails, Reconcile, ReadDeadLettered, Replay, history
  <2>4. QED
    BY <2>2, <2>3
<1>7. TypeOK'
  BY <1>1, <1>2, <1>3, <1>4, <1>5, <1>6 DEF IInv, TypeOK
<1>8. JobsSound'
  BY <1>1, <1>3, JobsStay
<1>9. SucceededWasAccepted' /\ FailedAfterAllAttempts'
  <2>1. posts' \in [Deliveries -> 0 .. MaxAttempts + 1] /\ \A d \in Deliveries : posts[d] <= posts'[d]
    <3>1. posts \in [Deliveries -> 0 .. MaxAttempts + 1] /\ MaxAttempts \in Nat
      BY DeliveryAssumption DEF IInv, TypeOK, DeliveryAssumption
    <3>2. \A d \in Deliveries : posts[d] \in Nat
      BY <3>1
    <3>3. QED
      BY <1>1, <3>1, <3>2
  <2>2. accepted \subseteq accepted' /\ excused \subseteq excused'
    BY <1>1
  <2>3. QED
    BY <1>2, <1>3, <2>1, <2>2, RowsKeep
<1>10. QED
  BY <1>7, <1>8, <1>9 DEF IInv

(* The job of one slot moves to q, and no row changes.                     *)
LEMMA SlotInv ==
  ASSUME IInv, NEW j \in Jobs, NEW q \in JobTypes, job' = [job EXCEPT ![j] = q],
         JobSound(q, posts, faults', accepted),
         UNCHANGED <<row, created, posts, accepted, excused, given, resent, resends>>,
         disabled' \in BOOLEAN, adding' \in [Actors -> SUBSET Deliveries],
         replaying' = replaying, faults' \in 0 .. MaxFaults, faults <= faults'
  PROVE  IInv'
<1>1. posts' \in [Deliveries -> 0 .. MaxAttempts + 1] /\ \A d \in Deliveries : posts[d] <= posts'[d]
  <2>1. posts \in [Deliveries -> 0 .. MaxAttempts + 1] /\ MaxAttempts \in Nat
    BY DeliveryAssumption DEF IInv, TypeOK, DeliveryAssumption
  <2>2. \A d \in Deliveries : posts[d] \in Nat
    BY <2>1
  <2>3. QED
    BY <2>1, <2>2
<1>2. job' \in [Jobs -> JobTypes] /\ JobsSound'
  BY <1>1, JobsMove
<1>3. SucceededWasAccepted' /\ FailedAfterAllAttempts'
  BY <1>1, RowsKeep
<1>4. TypeOK'
  BY <1>1, <1>2 DEF IInv, TypeOK
<1>5. QED
  BY <1>2, <1>3, <1>4 DEF IInv

LEMMA QueueInv ==
  ASSUME IInv, NEW j \in Jobs,
         \/ \E a \in Actors, d \in Deliveries : Enqueue(a, d, j)
         \/ LoseJob(j)
         \/ Take(j)
         \/ Read(j)
         \/ Judge(j)
         \/ Disable(j)
         \/ WorkerFails(j)
  PROVE  IInv'
<1> DEFINE q == job[j]
           d == job[j].delivery
           m == job[j].made
<1>1. /\ q \in JobTypes /\ JobSound(q, posts, faults, accepted)
      /\ faults \in 0 .. MaxFaults /\ MaxFaults \in Nat /\ MaxAttempts \in Nat \ {0}
      /\ posts \in [Deliveries -> 0 .. MaxAttempts + 1]
      /\ adding \in [Actors -> SUBSET Deliveries] /\ disabled \in BOOLEAN
  BY DeliveryAssumption DEF IInv, TypeOK, JobsSound, DeliveryAssumption
<1>2. d \in Deliveries \cup {"none"} /\ m \in 0 .. MaxAttempts - 1
  BY <1>1, JobFields
<1>3. ASSUME NEW s \in Stages, s \notin {"ok", "bad"}, q.stage # "free"
      PROVE  Job(d, m, s) \in JobTypes /\ JobSound(Job(d, m, s), posts, faults, accepted)
  <2>1. /\ Job(d, m, s) \in JobTypes /\ Job(d, m, s).delivery = d /\ Job(d, m, s).made = m
        /\ Job(d, m, s).stage = s
    BY <1>2, JobType
  <2>2. d \in Deliveries /\ m <= posts[d] + faults
    BY <1>1, <1>3 DEF JobSound
  <2>3. QED
    BY <1>3, <2>1, <2>2 DEF JobSound
<1>4. ASSUME NEW f \in Nat PROVE NoJob \in JobTypes /\ JobSound(NoJob, posts, f, accepted)
  BY NoJobType DEF JobSound
<1>5. faults \in Nat /\ faults <= faults
  BY <1>1
<1>6. ASSUME NEW a \in Actors, NEW c \in Deliveries, Enqueue(a, c, j)
      PROVE  IInv'
  <2>1. /\ Job(c, 0, "waiting") \in JobTypes /\ Job(c, 0, "waiting").delivery = c
        /\ Job(c, 0, "waiting").made = 0 /\ Job(c, 0, "waiting").stage = "waiting"
    <3>1. 0 \in 0 .. MaxAttempts - 1 /\ "waiting" \in Stages
      BY <1>1 DEF Stages
    <3>2. QED
      BY <3>1, JobType
  <2>2. JobSound(Job(c, 0, "waiting"), posts, faults, accepted)
    <3>1. posts[c] \in Nat
      BY <1>1
    <3>2. QED
      BY <1>5, <2>1, <3>1 DEF JobSound
  <2>3. /\ job' = [job EXCEPT ![j] = Job(c, 0, "waiting")]
        /\ UNCHANGED <<rows, replaying, history, bounds>>
    BY <1>6 DEF Enqueue
  <2>4. adding' \in [Actors -> SUBSET Deliveries]
    BY <1>1, <1>6 DEF Enqueue
  <2>5. QED
    BY <1>1, <1>5, <2>1, <2>2, <2>3, <2>4, SlotInv DEF rows, history, bounds
<1>7. CASE LoseJob(j)
  <2>1. faults' \in 0 .. MaxFaults /\ faults <= faults' /\ faults' \in Nat
    BY <1>1, <1>7, FaultCounts DEF LoseJob
  <2>2. job' = [job EXCEPT ![j] = NoJob] /\ UNCHANGED <<rows, adding, replaying, history, resends>>
    BY <1>7 DEF LoseJob
  <2>3. QED
    BY <1>1, <1>4, <2>1, <2>2, SlotInv DEF rows, history
<1>8. ASSUME NEW s \in Stages, s \notin {"ok", "bad"}, q.stage # "free", Move(j, s), disabled' = disabled,
             UNCHANGED <<row, created, adding, replaying, history, bounds>>
      PROVE  IInv'
  <2>1. Job(d, m, s) \in JobTypes /\ JobSound(Job(d, m, s), posts, faults, accepted)
    BY <1>3, <1>8
  <2>2. job' = [job EXCEPT ![j] = Job(d, m, s)]
    BY <1>8 DEF Move
  <2>3. QED
    BY <1>1, <1>5, <1>8, <2>1, <2>2, SlotInv DEF history, bounds
<1>9. ASSUME Done(j), disabled' \in BOOLEAN,
             UNCHANGED <<row, created, adding, replaying, history, bounds>>
      PROVE  IInv'
  <2>1. NoJob \in JobTypes /\ JobSound(NoJob, posts, faults, accepted)
    BY <1>4, <1>5
  <2>2. job' = [job EXCEPT ![j] = NoJob]
    BY <1>9 DEF Done
  <2>3. QED
    BY <1>1, <1>5, <1>9, <2>1, <2>2, SlotInv DEF history, bounds
<1>10. CASE Take(j)
  BY <1>8, <1>10 DEF Take, At, Stages, rows
<1>11. CASE Read(j)
  BY <1>1, <1>8, <1>9, <1>11 DEF Read, At, Stages, rows
<1>12. CASE Judge(j)
  BY <1>1, <1>8, <1>9, <1>12 DEF Judge, At, Stages, rows
<1>13. CASE Disable(j)
  BY <1>9, <1>13 DEF Disable
<1>14. CASE WorkerFails(j)
  <2>1. /\ faults' \in 0 .. MaxFaults /\ faults <= faults' /\ faults' \in Nat /\ faults' = faults + 1
        /\ q.stage # "free"
        /\ UNCHANGED <<rows, adding, replaying, history, resends>>
    BY <1>1, <1>14, FaultCounts DEF WorkerFails, Working
  <2>2. d \in Deliveries /\ m <= posts[d] + faults /\ posts[d] \in Nat /\ m \in Nat
    BY <1>1, <1>2, <2>1 DEF JobSound
  <2>3. CASE Move(j, "waiting")
    <3>1. /\ Job(d, m, "waiting") \in JobTypes /\ Job(d, m, "waiting").delivery = d
          /\ Job(d, m, "waiting").made = m /\ Job(d, m, "waiting").stage = "waiting"
      BY <1>2, JobType DEF Stages
    <3>2. JobSound(Job(d, m, "waiting"), posts, faults', accepted)
      <4>1. m <= posts[d] + faults'
        BY <1>5, <2>1, <2>2
      <4>2. QED
        BY <2>2, <3>1, <4>1 DEF JobSound
    <3>3. QED
      BY <1>1, <2>1, <2>3, <3>1, <3>2, SlotInv DEF Move, rows, history
  <2>4. CASE ~Final(j) /\ job' = [job EXCEPT ![j] = Job(d, m + 1, "waiting")]
    <3>1. m + 1 \in 0 .. MaxAttempts - 1
      BY <1>1, <1>2, <2>4 DEF Final
    <3>2. /\ Job(d, m + 1, "waiting") \in JobTypes /\ Job(d, m + 1, "waiting").delivery = d
          /\ Job(d, m + 1, "waiting").made = m + 1 /\ Job(d, m + 1, "waiting").stage = "waiting"
      BY <1>2, <3>1, JobType DEF Stages
    <3>3. JobSound(Job(d, m + 1, "waiting"), posts, faults', accepted)
      <4>1. m + 1 <= posts[d] + faults'
        BY <1>5, <2>1, <2>2
      <4>2. QED
        BY <2>2, <3>2, <4>1 DEF JobSound
    <3>4. QED
      BY <1>1, <2>1, <2>4, <3>2, <3>3, SlotInv DEF rows, history
  <2>5. CASE Done(j)
    BY <1>1, <1>4, <2>1, <2>5, SlotInv DEF Done, rows, history
  <2>6. QED
    BY <1>14, <2>3, <2>4, <2>5 DEF WorkerFails
<1>15. QED
  BY <1>6, <1>7, <1>10, <1>11, <1>12, <1>13, <1>14

(* The receiver is sent the event.                                         *)
LEMMA PostInv ==
  ASSUME IInv, NEW j \in Jobs, Post(j)
  PROVE  IInv'
<1> DEFINE q == job[j]
           d == job[j].delivery
           m == job[j].made
<1>1. /\ q \in JobTypes /\ JobSound(q, posts, faults, accepted) /\ q.stage = "post"
      /\ faults \in 0 .. MaxFaults /\ MaxFaults \in Nat /\ MaxAttempts \in Nat \ {0}
      /\ posts \in [Deliveries -> 0 .. MaxAttempts + 1]
      /\ accepted \subseteq Deliveries /\ resent \subseteq Deliveries
  BY DeliveryAssumption DEF IInv, TypeOK, JobsSound, Post, At, DeliveryAssumption
<1>2. d \in Deliveries /\ m \in 0 .. MaxAttempts - 1 /\ m <= posts[d] + faults
  BY <1>1, JobFields DEF JobSound
<1> DEFINE v == IF posts[d] > MaxAttempts THEN posts[d] ELSE posts[d] + 1
<1>3. /\ posts' = [posts EXCEPT ![d] = v]
      /\ resent' = resent \ {d}
      /\ UNCHANGED <<rows, adding, replaying, excused, given, bounds>>
  BY DEF Post
<1>4. v \in 0 .. MaxAttempts + 1 /\ posts[d] <= v /\ m + 1 <= v + faults
  <2>1. posts[d] \in 0 .. MaxAttempts + 1
    BY <1>1, <1>2
  <2>2. QED
    BY <1>1, <1>2, <2>1
<1> HIDE DEF v
<1>5. posts' \in [Deliveries -> 0 .. MaxAttempts + 1] /\ \A c \in Deliveries : posts[c] <= posts'[c]
  <2>1. \A c \in Deliveries : posts[c] \in Nat
    BY <1>1
  <2>2. QED
    BY <1>1, <1>2, <1>3, <1>4, <2>1
<1>6. faults' \in 0 .. MaxFaults /\ faults <= faults' /\ faults' = faults
  BY <1>1, <1>3 DEF bounds
<1>7. posts'[d] = v
  BY <1>1, <1>2, <1>3
<1>8. /\ accepted \subseteq accepted' /\ accepted' \subseteq Deliveries
      /\ \/ d \in accepted' /\ Move(j, "ok")
         \/ Move(j, "bad")
  BY <1>1, <1>2 DEF Post
<1>9. ASSUME NEW s \in {"ok", "bad"}, Move(j, s), s = "ok" => d \in accepted'
      PROVE  job' \in [Jobs -> JobTypes] /\ JobsSound'
  <2>1. /\ Job(d, m, s) \in JobTypes /\ Job(d, m, s).delivery = d /\ Job(d, m, s).made = m
        /\ Job(d, m, s).stage = s
    BY <1>2, JobType DEF Stages
  <2>2. m <= posts'[d] + faults' /\ m + 1 <= posts'[d] + faults'
    <3>1. m \in Nat /\ v \in Nat /\ faults \in Nat
      BY <1>1, <1>2, <1>4
    <3>2. QED
      BY <1>4, <1>6, <1>7, <3>1
  <2>3. JobSound(Job(d, m, s), posts', faults', accepted')
    BY <1>2, <1>9, <2>1, <2>2 DEF JobSound
  <2>4. QED
    BY <1>5, <1>6, <1>8, <1>9, <2>1, <2>3, JobsMove DEF Move
<1>10. job' \in [Jobs -> JobTypes] /\ JobsSound'
  BY <1>8, <1>9
<1>11. SucceededWasAccepted' /\ FailedAfterAllAttempts'
  BY <1>3, <1>5, <1>6, <1>8, RowsKeep DEF rows
<1>12. TypeOK'
  BY <1>1, <1>3, <1>5, <1>6, <1>8, <1>10 DEF IInv, TypeOK, rows, bounds
<1>13. QED
  BY <1>10, <1>11, <1>12 DEF IInv

(* The outcome is recorded, whatever the row has become in the meantime.   *)
LEMMA RecordInv ==
  ASSUME IInv, NEW j \in Jobs,
         RecordSucceeded(j) \/ RecordRetry(j) \/ RecordFailed(j) \/ RecordDropped(j)
  PROVE  IInv'
<1> DEFINE q == job[j]
           d == job[j].delivery
           m == job[j].made
<1>1. /\ q \in JobTypes /\ JobSound(q, posts, faults, accepted)
      /\ q.stage \in {"ok", "bad", "drop", "unsendable"}
      /\ faults \in 0 .. MaxFaults /\ MaxFaults \in Nat /\ MaxAttempts \in Nat \ {0}
      /\ posts \in [Deliveries -> 0 .. MaxAttempts + 1]
      /\ row \in [Deliveries -> {"none", "begun", "PENDING", "SUCCEEDED", "FAILED"}]
  BY DeliveryAssumption
     DEF IInv, TypeOK, JobsSound, RecordSucceeded, RecordRetry, RecordFailed, RecordDropped, At,
         DeliveryAssumption
<1>2. /\ d \in Deliveries /\ m \in 0 .. MaxAttempts - 1 /\ m <= posts[d] + faults
      /\ posts[d] \in Nat /\ faults \in Nat
  BY <1>1, JobFields DEF JobSound
<1>3. /\ UNCHANGED <<created, disabled, adding, replaying, posts, accepted, bounds>>
      /\ given' \subseteq Deliveries /\ excused' \subseteq Deliveries /\ resent' \subseteq Deliveries
      /\ excused \subseteq excused'
  BY <1>2 DEF RecordSucceeded, RecordRetry, RecordFailed, RecordDropped, GiveUp, history, IInv, TypeOK
<1>4. /\ posts' \in [Deliveries -> 0 .. MaxAttempts + 1] /\ \A c \in Deliveries : posts[c] <= posts'[c]
      /\ faults' \in 0 .. MaxFaults /\ faults <= faults' /\ faults' = faults /\ posts' = posts
      /\ accepted' = accepted
  BY <1>3, Quiet DEF bounds
<1>5. row' \in [Deliveries -> {"none", "begun", "PENDING", "SUCCEEDED", "FAILED"}]
      /\ \A c \in Deliveries : c # d => row'[c] = row[c]
  BY <1>1, <1>2
     DEF RecordSucceeded, RecordRetry, RecordFailed, RecordDropped, GiveUp, Set
<1>6. job' \in [Jobs -> JobTypes] /\ JobsSound'
  <2>1. CASE Done(j)
    <3>1. NoJob \in JobTypes /\ JobSound(NoJob, posts', faults', accepted')
      BY NoJobType DEF JobSound
    <3>2. QED
      BY <1>4, <2>1, <3>1, JobsMove DEF Done
  <2>2. CASE Move(j, "judge")
    <3>1. /\ Job(d, m, "judge") \in JobTypes /\ Job(d, m, "judge").delivery = d
          /\ Job(d, m, "judge").made = m /\ Job(d, m, "judge").stage = "judge"
      BY <1>2, JobType DEF Stages
    <3>2. JobSound(Job(d, m, "judge"), posts', faults', accepted')
      BY <1>2, <1>4, <3>1 DEF JobSound
    <3>3. QED
      BY <1>4, <2>2, <3>1, <3>2, JobsMove DEF Move
  <2>3. CASE RecordRetry(j)
    <3>1. m + 1 \in 0 .. MaxAttempts - 1
      BY <1>1, <1>2, <2>3 DEF RecordRetry, Final
    <3>2. /\ Job(d, m + 1, "waiting") \in JobTypes /\ Job(d, m + 1, "waiting").delivery = d
          /\ Job(d, m + 1, "waiting").made = m + 1 /\ Job(d, m + 1, "waiting").stage = "waiting"
      BY <1>2, <3>1, JobType DEF Stages
    <3>3. m + 1 <= posts[d] + faults
      BY <1>1, <2>3 DEF RecordRetry, At, JobSound
    <3>4. JobSound(Job(d, m + 1, "waiting"), posts', faults', accepted')
      BY <1>2, <1>4, <3>2, <3>3 DEF JobSound
    <3>5. QED
      BY <1>4, <2>3, <3>2, <3>4, JobsMove DEF RecordRetry
  <2>4. QED
    BY <2>1, <2>2, <2>3 DEF RecordSucceeded, RecordFailed, RecordDropped
<1>7. row'[d] = "SUCCEEDED" => d \in accepted
  BY <1>1, <1>2 DEF RecordSucceeded, RecordRetry, RecordFailed, RecordDropped, GiveUp, Set, At, JobSound
<1>8. row'[d] = "FAILED" /\ d \notin excused' => posts[d] + faults >= MaxAttempts
  <2>1. CASE RecordSucceeded(j) \/ RecordRetry(j)
    BY <1>1, <1>2, <2>1 DEF RecordSucceeded, RecordRetry, Set
  <2>2. CASE At(j, "bad") /\ Final(j)
    <3>1. m + 1 >= MaxAttempts /\ m + 1 <= posts[d] + faults
      BY <1>1, <2>2 DEF Final, At, JobSound
    <3>2. QED
      BY <1>1, <1>2, <3>1
  <2>3. CASE d \in excused'
    BY <2>3
  <2>4. QED
    BY <2>1, <2>2, <2>3 DEF RecordFailed, RecordDropped
<1>9. SucceededWasAccepted'
  BY <1>4, <1>5, <1>7 DEF IInv, SucceededWasAccepted
<1>10. FailedAfterAllAttempts'
  <2> SUFFICES ASSUME NEW c \in Deliveries, row'[c] = "FAILED", c \notin excused'
               PROVE  posts[c] + faults >= MaxAttempts
    BY <1>4 DEF FailedAfterAllAttempts
  <2>1. CASE c = d
    BY <1>8, <2>1
  <2>2. CASE c # d
    BY <1>3, <1>5, <2>2 DEF IInv, FailedAfterAllAttempts
  <2>3. QED
    BY <2>1, <2>2
<1>11. TypeOK'
  BY <1>3, <1>4, <1>5, <1>6 DEF IInv, TypeOK, bounds
<1>12. QED
  BY <1>6, <1>9, <1>10, <1>11 DEF IInv

-----------------------------------------------------------------------------
LEMMA StepInv == IInv /\ [Next]_vars => IInv'
<1> SUFFICES ASSUME IInv, [Next]_vars PROVE IInv'
  OBVIOUS
<1>1. ASSUME NEW j \in Jobs, Process(j) \/ LoseJob(j) \/ WorkerFails(j)
      PROVE  IInv'
  BY <1>1, QueueInv, PostInv, RecordInv DEF Process
<1>2. ASSUME NEW a \in Actors, NEW d \in Deliveries, NEW j \in Jobs, Enqueue(a, d, j)
      PROVE  IInv'
  BY <1>2, QueueInv
<1>3. CASE UNCHANGED vars
  BY <1>3 DEF vars, IInv, TypeOK, JobsSound, SucceededWasAccepted, FailedAfterAllAttempts
<1>4. QED
  BY <1>1, <1>2, <1>3, RowsInv DEF Next

LEMMA Invariance == Spec => []IInv
  BY InitInv, StepInv, PTL DEF Spec

(* Types: no job counts more attempts than it was given.                   *)
THEOREM TypeCorrect == Spec => []TypeOK
<1>1. IInv => TypeOK
  BY DEF IInv
<1>2. QED
  BY <1>1, Invariance, PTL

(* No row claims a delivery that did not happen, with any number of        *)
(* redundant jobs, workers and crashes.                                    *)
THEOREM SuccessIsHonest == Spec => []SucceededWasAccepted
<1>1. IInv => SucceededWasAccepted
  BY DEF IInv
<1>2. QED
  BY <1>1, Invariance, PTL

(* No delivery is dead-lettered before its attempts are used up.           *)
THEOREM DeadLetterIsEarned == Spec => []FailedAfterAllAttempts
<1>1. IInv => FailedAfterAllAttempts
  BY DEF IInv
<1>2. QED
  BY <1>1, Invariance, PTL

-----------------------------------------------------------------------------
(* Disabling.  What is counted are rows, one for each delivery, and those  *)
(* that are FAILED now have failed for good; the disabling comes later,    *)
(* when some may have been sent again.                                     *)

RowsOnce ==
  /\ \A i, k \in DOMAIN created : created[i] = created[k] => i = k
  /\ \A i \in DOMAIN created : row[created[i]] \notin {"none", "begun"}

FailedGiven == \A d \in Deliveries : row[d] = "FAILED" => d \in given

Enough == Cardinality(given) >= Threshold

DisablingEarned == disabled \/ (\E j \in Jobs : job[j].stage = "disable") => Enough

Judged ==
  /\ RowsOnce
  /\ FailedGiven
  /\ IsFiniteSet(given)
  /\ DisablingEarned

(* A step that gives nothing up and disables nothing.                      *)
LEMMA JudgedStays ==
  ASSUME TypeOK, Judged, UNCHANGED <<created, given>>,
         \A d \in Deliveries : /\ row'[d] = "FAILED" => row[d] = "FAILED"
                               /\ row'[d] \in {"none", "begun"} => row[d] \in {"none", "begun"},
         disabled' => disabled,
         \A j \in Jobs : job'[j].stage = "disable" => job[j].stage = "disable"
  PROVE  Judged'
<1>1. \A i \in DOMAIN created : created[i] \in Deliveries
  BY DEF TypeOK
<1>2. RowsOnce' /\ FailedGiven'
  BY <1>1 DEF Judged, RowsOnce, FailedGiven
<1>3. DisablingEarned'
  BY DEF Judged, DisablingEarned, Enough
<1>4. QED
  BY <1>2, <1>3 DEF Judged

(* One slot of the queue is put to another use than "disable".             *)
LEMMA SlotStage ==
  ASSUME TypeOK, NEW j \in Jobs, NEW q, q.stage # "disable", job' = [job EXCEPT ![j] = q]
  PROVE  \A g \in Jobs : job'[g].stage = "disable" => job[g].stage = "disable"
BY DEF TypeOK

LEMMA JudgedRows ==
  ASSUME TypeOK, Judged,
         \/ \E d \in Deliveries : BeginEmit(d) \/ Resend(d)
         \/ \E a \in Actors : EnqueueFails(a)
         \/ \E S \in SUBSET Deliveries : Reconcile(S)
         \/ ReadDeadLettered \/ Replay
  PROVE  Judged'
<1>1. UNCHANGED <<created, given, job>> /\ (disabled' => disabled)
  BY DEF BeginEmit, Resend, EnqueueFails, Reconcile, ReadDeadLettered, Replay, rows, history
<1>2. \A d \in Deliveries : /\ row'[d] = "FAILED" => row[d] = "FAILED"
                            /\ row'[d] \in {"none", "begun"} => row[d] \in {"none", "begun"}
  <2>1. CASE \E d \in Deliveries : BeginEmit(d) \/ Resend(d)
    BY <2>1 DEF BeginEmit, Resend, Set, TypeOK
  <2>2. CASE Replay
    BY <2>2 DEF Replay, TypeOK
  <2>3. CASE \/ \E a \in Actors : EnqueueFails(a)
             \/ \E S \in SUBSET Deliveries : Reconcile(S)
             \/ ReadDeadLettered
    BY <2>3 DEF EnqueueFails, Reconcile, ReadDeadLettered, rows
  <2>4. QED
    BY <2>1, <2>2, <2>3
<1>3. QED
  BY <1>1, <1>2, JudgedStays

LEMMA JudgedCreate ==
  ASSUME TypeOK, Judged, NEW d \in Deliveries, CreateRow(d)
  PROVE  Judged'
<1> DEFINE n == Len(created)
<1>1. /\ row[d] = "begun" /\ row' = [row EXCEPT ![d] = "PENDING"] /\ created' = Append(created, d)
      /\ UNCHANGED <<given, disabled, job>>
  BY DEF CreateRow, Set, history
<1>2. /\ n \in Nat /\ DOMAIN created = 1 .. n /\ DOMAIN created' = 1 .. n + 1 /\ created'[n + 1] = d
      /\ \A i \in 1 .. n : created'[i] = created[i] /\ created[i] \in Deliveries /\ created[i] # d
      /\ \A i \in 1 .. n + 1 : i = n + 1 \/ i \in 1 .. n
  BY <1>1 DEF TypeOK, Judged, RowsOnce
<1> HIDE DEF n
<1>3. RowsOnce'
  BY <1>1, <1>2 DEF Judged, RowsOnce, TypeOK
<1>4. FailedGiven' /\ DisablingEarned'
  BY <1>1 DEF Judged, FailedGiven, DisablingEarned, Enough, TypeOK
<1>5. QED
  BY <1>1, <1>3, <1>4 DEF Judged

(* A job that records no failure and is not judged.                        *)
LEMMA JudgedQueue ==
  ASSUME TypeOK, Judged, NEW j \in Jobs,
         \/ \E a \in Actors, d \in Deliveries : Enqueue(a, d, j)
         \/ LoseJob(j) \/ WorkerFails(j) \/ Take(j) \/ Read(j) \/ Post(j)
         \/ RecordSucceeded(j) \/ RecordRetry(j)
  PROVE  Judged'
<1>1. UNCHANGED <<created, given, disabled>>
  BY DEF Enqueue, LoseJob, WorkerFails, Take, Read, Post, RecordSucceeded, RecordRetry, rows, history
<1>2. \A d \in Deliveries : /\ row'[d] = "FAILED" => row[d] = "FAILED"
                            /\ row'[d] \in {"none", "begun"} => row[d] \in {"none", "begun"}
  <2>1. CASE RecordSucceeded(j) \/ RecordRetry(j)
    BY <2>1 DEF RecordSucceeded, RecordRetry, Set, TypeOK
  <2>2. CASE \/ \E a \in Actors, d \in Deliveries : Enqueue(a, d, j)
             \/ LoseJob(j) \/ WorkerFails(j) \/ Take(j) \/ Read(j) \/ Post(j)
    BY <2>2 DEF Enqueue, LoseJob, WorkerFails, Take, Read, Post, rows
  <2>3. QED
    BY <2>1, <2>2
<1>3. \E q : q.stage # "disable" /\ job' = [job EXCEPT ![j] = q]
  <2>1. NoJob.stage # "disable"
    BY DEF NoJob, Job
  <2>2. \A d, m : \A s \in Stages \ {"disable"} : Job(d, m, s).stage # "disable"
    BY DEF Job
  <2>3. CASE \E a \in Actors, d \in Deliveries : Enqueue(a, d, j)
    <3>1. PICK d \in Deliveries : job' = [job EXCEPT ![j] = Job(d, 0, "waiting")]
      BY <2>3 DEF Enqueue
    <3>2. Job(d, 0, "waiting").stage # "disable"
      BY <2>2 DEF Stages
    <3>3. QED
      BY <3>1, <3>2
  <2>4. CASE LoseJob(j) \/ RecordSucceeded(j)
    BY <2>1, <2>4 DEF LoseJob, RecordSucceeded, Done
  <2>5. CASE Take(j) \/ Post(j)
    BY <2>2, <2>5 DEF Take, Post, Move, Stages
  <2>6. CASE Read(j)
    BY <2>1, <2>2, <2>6 DEF Read, Move, Done, Stages
  <2>7. CASE WorkerFails(j)
    BY <2>1, <2>2, <2>7 DEF WorkerFails, Move, Done, Stages
  <2>8. CASE RecordRetry(j)
    BY <2>2, <2>8 DEF RecordRetry, Stages
  <2>9. QED
    BY <2>3, <2>4, <2>5, <2>6, <2>7, <2>8
<1>4. \A g \in Jobs : job'[g].stage = "disable" => job[g].stage = "disable"
  BY <1>3, SlotStage
<1>5. QED
  BY <1>1, <1>2, <1>4, JudgedStays

(* A row is given up.                                                      *)
LEMMA JudgedGiveUp ==
  ASSUME TypeOK, Judged, NEW j \in Jobs, RecordFailed(j) \/ RecordDropped(j),
         job[j].delivery \in Deliveries
  PROVE  Judged'
<1> DEFINE d == job[j].delivery
<1>1. /\ row' = [row EXCEPT ![d] = "FAILED"] /\ given' = given \cup {d}
      /\ UNCHANGED <<created, disabled>>
  BY DEF RecordFailed, RecordDropped, GiveUp, Set
<1>2. \E q : q.stage # "disable" /\ job' = [job EXCEPT ![j] = q]
  BY DEF RecordFailed, RecordDropped, Move, Done, NoJob, Job
<1>3. \A g \in Jobs : job'[g].stage = "disable" => job[g].stage = "disable"
  BY <1>2, SlotStage
<1>4. \A i \in DOMAIN created : created[i] \in Deliveries
  BY DEF TypeOK
<1>5. RowsOnce' /\ FailedGiven'
  BY <1>1, <1>4 DEF Judged, RowsOnce, FailedGiven, TypeOK
<1>6. IsFiniteSet(given) /\ IsFiniteSet(given') /\ given \in SUBSET given'
  BY <1>1, FS_AddElement DEF Judged
<1>7. Enough => Enough'
  <2>1. /\ Cardinality(given) <= Cardinality(given')
        /\ Cardinality(given) \in Nat /\ Cardinality(given') \in Nat /\ Threshold \in Nat
    BY <1>6, FS_Subset, FS_CardinalityType, DeliveryAssumption DEF DeliveryAssumption
  <2>2. QED
    BY <2>1 DEF Enough
<1>8. DisablingEarned'
  BY <1>1, <1>3, <1>7 DEF Judged, DisablingEarned
<1>9. QED
  BY <1>5, <1>6, <1>8 DEF Judged

(* Every row that is counted is that of another delivery, and was given up.*)
LEMMA CountIsGiven ==
  ASSUME TypeOK, Judged
  PROVE  ConsecutiveFailures \in Nat /\ ConsecutiveFailures <= Cardinality(given)
<1> DEFINE S == {i \in DOMAIN created :
                   /\ i + 3 * Threshold > Len(created)
                   /\ row[created[i]] = "FAILED"
                   /\ \A k \in i .. Len(created) : row[created[k]] # "SUCCEEDED"}
           f == [i \in S |-> created[i]]
<1>1. /\ S \subseteq DOMAIN created
      /\ \A i \in S : created[i] \in given
  BY DEF TypeOK, Judged, FailedGiven
<1>2. ConsecutiveFailures = Cardinality(S)
  BY DEF ConsecutiveFailures
<1> HIDE DEF S
<1>3. f \in [S -> given] /\ IsInjective(f)
  BY <1>1 DEF IsInjective, Judged, RowsOnce
<1>4. f \in Injection(S, given)
  BY <1>3 DEF Injection
<1> HIDE DEF f
<1>5. IsFiniteSet(S) /\ Cardinality(S) <= Cardinality(given)
  BY <1>4, FS_Injection DEF Judged
<1>6. Cardinality(S) \in Nat
  BY <1>5, FS_CardinalityType
<1>7. QED
  BY <1>2, <1>5, <1>6

LEMMA JudgedJudge ==
  ASSUME TypeOK, Judged, NEW j \in Jobs, Judge(j) \/ Disable(j)
  PROVE  Judged'
<1>1. UNCHANGED <<row, created, given>>
  BY DEF Judge, Disable, rows, history
<1>2. RowsOnce' /\ FailedGiven' /\ IsFiniteSet(given')
  BY <1>1 DEF Judged, RowsOnce, FailedGiven
<1>3. CASE Judge(j) /\ ConsecutiveFailures >= Threshold
  <2>1. ConsecutiveFailures \in Nat /\ ConsecutiveFailures <= Cardinality(given)
    BY CountIsGiven
  <2>2. Cardinality(given) \in Nat /\ Threshold \in Nat
    BY FS_CardinalityType, DeliveryAssumption DEF Judged, DeliveryAssumption
  <2>3. Enough
    BY <1>3, <2>1, <2>2 DEF Enough
  <2>4. QED
    BY <1>1, <1>2, <2>3 DEF Judged, DisablingEarned, Enough
<1>4. CASE Judge(j) /\ ~(ConsecutiveFailures >= Threshold)
  <2>1. job' = [job EXCEPT ![j] = NoJob] /\ disabled' = disabled /\ NoJob.stage # "disable"
    BY <1>4 DEF Judge, Done, rows, NoJob, Job
  <2>2. \A g \in Jobs : job'[g].stage = "disable" => job[g].stage = "disable"
    BY <2>1, SlotStage
  <2>3. QED
    BY <1>1, <2>1, <2>2, JudgedStays
<1>5. CASE Disable(j)
  BY <1>1, <1>2, <1>5 DEF Disable, At, Judged, DisablingEarned, Enough
<1>6. QED
  BY <1>3, <1>4, <1>5

LEMMA JudgedStep ==
  ASSUME IInv, Judged, [Next]_vars
  PROVE  Judged'
<1>0. TypeOK
  BY DEF IInv
<1>1. ASSUME NEW j \in Jobs, Process(j) \/ LoseJob(j) \/ WorkerFails(j)
      PROVE  Judged'
  <2>1. CASE RecordFailed(j) \/ RecordDropped(j)
    <3>1. job[j].stage # "free" /\ JobSound(job[j], posts, faults, accepted)
      BY <2>1 DEF RecordFailed, RecordDropped, At, IInv, JobsSound
    <3>2. job[j].delivery \in Deliveries
      BY <3>1 DEF JobSound
    <3>3. QED
      BY <1>0, <2>1, <3>2, JudgedGiveUp
  <2>2. CASE Judge(j) \/ Disable(j)
    BY <1>0, <2>2, JudgedJudge
  <2>3. QED
    BY <1>0, <1>1, <2>1, <2>2, JudgedQueue DEF Process
<1>2. ASSUME NEW a \in Actors, NEW d \in Deliveries, NEW j \in Jobs, Enqueue(a, d, j)
      PROVE  Judged'
  BY <1>0, <1>2, JudgedQueue
<1>3. CASE UNCHANGED vars
  BY <1>3 DEF vars, Judged, RowsOnce, FailedGiven, DisablingEarned, Enough
<1>4. QED
  BY <1>0, <1>1, <1>2, <1>3, JudgedRows, JudgedCreate DEF Next

(* An endpoint is disabled only after as many deliveries as the threshold  *)
(* have failed for good, however old the count that decided it.            *)
THEOREM DisablingIsEarned == Spec => []DisabledForCause
<1>1. Init => Judged
  <2> SUFFICES ASSUME Init PROVE Judged
    OBVIOUS
  <2>1. NoJob.stage # "disable"
    BY DEF NoJob, Job
  <2>2. QED
    BY <2>1, FS_EmptySet DEF Init, Judged, RowsOnce, FailedGiven, DisablingEarned
<1>2. Judged => DisabledForCause
  BY DEF Judged, DisablingEarned, Enough, DisabledForCause
<1>3. IInv /\ Judged /\ [Next]_vars => Judged'
  BY JudgedStep
<1>4. QED
  BY <1>1, <1>2, <1>3, Invariance, PTL DEF Spec
-----------------------------------------------------------------------------
(* One worker.  A job that has looked for SUCCEEDED is then the only one   *)
(* that may write it, so that what it goes on to write takes no success    *)
(* back.  Two workers break this: the row is not looked at again.          *)
OneAtATime == \A i, j \in Working : i = j

Sending == {"post", "ok", "bad", "drop", "unsendable"}

StillUnsent == \A j \in Jobs : job[j].stage \in Sending => row[job[j].delivery] # "SUCCEEDED"

Solo == OneAtATime /\ StillUnsent

NoNewSuccess == \A d \in Deliveries : row'[d] = "SUCCEEDED" => row[d] = "SUCCEEDED"

(* One slot of the queue is put to another use.                            *)
LEMMA SoloSlot ==
  ASSUME IInv, Solo, NEW j \in Jobs, NEW q \in JobTypes, job' = [job EXCEPT ![j] = q], NoNewSuccess,
         q.stage \notin {"free", "waiting"} => j \in Working \/ Working = {},
         q.stage \in Sending => q.delivery \in Deliveries /\ row[q.delivery] # "SUCCEEDED"
  PROVE  Solo'
<1>1. \A g \in Jobs : job'[g] = IF g = j THEN q ELSE job[g]
  BY DEF IInv, TypeOK
<1>2. OneAtATime'
  BY <1>1 DEF Solo, OneAtATime, Working
<1>3. StillUnsent'
  <2> SUFFICES ASSUME NEW g \in Jobs, job'[g].stage \in Sending
               PROVE  row'[job'[g].delivery] # "SUCCEEDED"
    BY DEF StillUnsent
  <2>1. CASE g = j
    BY <1>1, <2>1 DEF NoNewSuccess
  <2>2. CASE g # j
    <3>1. job'[g] = job[g] /\ job[g].stage # "free"
      BY <1>1, <2>2 DEF Sending
    <3>2. job[g].delivery \in Deliveries
      BY <3>1 DEF IInv, JobsSound, JobSound
    <3>3. QED
      BY <3>1, <3>2 DEF NoNewSuccess, Solo, StillUnsent
  <2>3. QED
    BY <2>1, <2>2
<1>4. QED
  BY <1>2, <1>3 DEF Solo

(* A job at work moves to a stage with nothing left to write, or goes on   *)
(* with a row that is not SUCCEEDED.                                       *)
LEMMA SoloMove ==
  ASSUME IInv, Solo, NEW j \in Working, NEW s \in Stages, Move(j, s), NoNewSuccess,
         s \in Sending => row[job[j].delivery] # "SUCCEEDED"
  PROVE  Solo'
<1> DEFINE q == Job(job[j].delivery, job[j].made, s)
<1>1. j \in Jobs /\ job[j] \in JobTypes /\ job[j].stage # "free"
  BY DEF IInv, TypeOK, Working
<1>2. job[j].delivery \in Deliveries
  BY <1>1 DEF IInv, JobsSound, JobSound
<1>3. q \in JobTypes /\ q.stage = s /\ q.delivery = job[j].delivery
  BY <1>1, JobFields, JobType
<1>4. QED
  BY <1>1, <1>2, <1>3, SoloSlot DEF Move

(* A slot that is free or waits is no worker's.                            *)
LEMMA SoloRest ==
  ASSUME IInv, Solo, NEW j \in Jobs, NEW q \in JobTypes, job' = [job EXCEPT ![j] = q], NoNewSuccess,
         q.stage \in {"free", "waiting"}
  PROVE  Solo'
  BY SoloSlot DEF Sending

(* A step leaves the queue as it is.                                       *)
LEMMA SoloRows ==
  ASSUME IInv, Solo, job' = job, NoNewSuccess
  PROVE  Solo'
<1>1. OneAtATime'
  BY DEF Solo, OneAtATime, Working
<1>2. \A j \in Jobs : job[j].stage \in Sending => job[j].delivery \in Deliveries
  BY DEF IInv, JobsSound, JobSound, Sending
<1>3. StillUnsent'
  BY <1>2 DEF Solo, StillUnsent, NoNewSuccess
<1>4. QED
  BY <1>1, <1>3 DEF Solo

(* The rows that are taken back from SUCCEEDED, for each kind of step.     *)
TakenBack == {d \in Deliveries : row[d] = "SUCCEEDED" /\ row'[d] # "SUCCEEDED"}

LEMMA OutsideQueue ==
  ASSUME IInv,
         \/ \E d \in Deliveries : BeginEmit(d) \/ CreateRow(d) \/ Resend(d)
         \/ \E a \in Actors : EnqueueFails(a)
         \/ \E S \in SUBSET Deliveries : Reconcile(S)
         \/ ReadDeadLettered \/ Replay
  PROVE  job' = job /\ NoNewSuccess /\ TakenBack \subseteq resent'
<1> USE DEF NoNewSuccess, TakenBack
<1>1. ASSUME NEW d \in Deliveries, BeginEmit(d) \/ CreateRow(d) \/ Resend(d)
      PROVE  job' = job /\ NoNewSuccess /\ TakenBack \subseteq resent'
  BY <1>1 DEF BeginEmit, CreateRow, Resend, Set, IInv, TypeOK, history
<1>2. CASE Replay
  BY <1>2 DEF Replay, IInv, TypeOK
<1>3. CASE \/ \E a \in Actors : EnqueueFails(a)
           \/ \E S \in SUBSET Deliveries : Reconcile(S)
           \/ ReadDeadLettered
  BY <1>3 DEF EnqueueFails, Reconcile, ReadDeadLettered, rows
<1>4. QED
  BY <1>1, <1>2, <1>3

(* The job that records what became of its attempt.                        *)
LEMMA SoloRecord ==
  ASSUME IInv, Solo, NEW j \in Jobs, RecordSucceeded(j) \/ RecordRetry(j) \/ RecordFailed(j) \/ RecordDropped(j)
  PROVE  Solo' /\ TakenBack = {}
<1> DEFINE d == job[j].delivery
<1>1. job[j] \in JobTypes /\ job[j].stage \in Sending /\ j \in Working
  BY DEF RecordSucceeded, RecordRetry, RecordFailed, RecordDropped, At, Sending, Working, IInv, TypeOK
<1>2. d \in Deliveries /\ row[d] # "SUCCEEDED" /\ row \in [Deliveries -> {"none", "begun", "PENDING", "SUCCEEDED", "FAILED"}]
  BY <1>1 DEF Solo, StillUnsent, IInv, TypeOK, JobsSound, JobSound, Sending
<1>3. CASE RecordSucceeded(j)
  <2>1. \A g \in Jobs : job'[g].stage \in {"free", "waiting"}
    BY <1>1, <1>3, NoJobType DEF RecordSucceeded, Done, Solo, OneAtATime, Working, IInv, TypeOK
  <2>2. Solo'
    BY <2>1 DEF Solo, OneAtATime, StillUnsent, Working, Sending
  <2>3. TakenBack = {}
    BY <1>2, <1>3 DEF RecordSucceeded, Set, TakenBack
  <2>4. QED
    BY <2>2, <2>3
<1>4. CASE RecordRetry(j) \/ RecordFailed(j) \/ RecordDropped(j)
  <2>1. row' = [row EXCEPT ![d] = "PENDING"] \/ row' = [row EXCEPT ![d] = "FAILED"]
    BY <1>4 DEF RecordRetry, RecordFailed, RecordDropped, GiveUp, Set
  <2>2. NoNewSuccess /\ TakenBack = {}
    BY <1>2, <2>1 DEF NoNewSuccess, TakenBack
  <2>3. CASE RecordRetry(j)
    <3> DEFINE q == Job(d, job[j].made + 1, "waiting")
    <3>1. job[j].made + 1 \in 0 .. MaxAttempts - 1
      BY <1>1, <2>3, JobFields, DeliveryAssumption DEF RecordRetry, Final, DeliveryAssumption
    <3>2. q \in JobTypes /\ q.stage = "waiting" /\ job' = [job EXCEPT ![j] = q]
      BY <1>2, <2>3, <3>1, JobType DEF RecordRetry, Stages
    <3>3. QED
      BY <2>2, <3>2, SoloRest
  <2>4. CASE RecordFailed(j)
    <3>1. Move(j, "judge")
      BY <2>4 DEF RecordFailed
    <3>2. QED
      BY <1>1, <2>2, <3>1, SoloMove DEF Stages, Sending
  <2>5. CASE RecordDropped(j)
    BY <2>2, <2>5, NoJobType, SoloRest DEF RecordDropped, Done
  <2>6. QED
    BY <1>4, <2>2, <2>3, <2>4, <2>5
<1>5. QED
  BY <1>3, <1>4

(* The job's other steps, and what befalls it.  A worker takes a job only  *)
(* when it has none.                                                       *)
LEMMA SoloQueue ==
  ASSUME IInv, Solo, Workers = 1, NEW j \in Jobs,
         \/ \E a \in Actors, d \in Deliveries : Enqueue(a, d, j)
         \/ LoseJob(j) \/ WorkerFails(j) \/ Take(j) \/ Read(j) \/ Post(j) \/ Judge(j) \/ Disable(j)
  PROVE  Solo' /\ TakenBack = {}
<1>1. row' = row
  BY DEF Enqueue, LoseJob, WorkerFails, Take, Read, Post, Judge, Disable, rows
<1>2. NoNewSuccess /\ TakenBack = {} /\ job[j] \in JobTypes
  BY <1>1 DEF NoNewSuccess, TakenBack, IInv, TypeOK
<1>3. CASE \E a \in Actors, d \in Deliveries : Enqueue(a, d, j)
  <2>1. PICK d \in Deliveries : job' = [job EXCEPT ![j] = Job(d, 0, "waiting")]
    BY <1>3 DEF Enqueue
  <2>2. Job(d, 0, "waiting") \in JobTypes /\ Job(d, 0, "waiting").stage = "waiting"
    BY JobType, DeliveryAssumption DEF DeliveryAssumption, Stages
  <2>3. QED
    BY <1>2, <2>1, <2>2, SoloRest
<1>4. CASE Done(j)
  BY <1>2, <1>4, NoJobType, SoloRest DEF Done
<1>5. CASE LoseJob(j) \/ Disable(j)
  BY <1>4, <1>5 DEF LoseJob, Disable, Done
<1>6. CASE Take(j)
  <2> DEFINE q == Job(job[j].delivery, job[j].made, "read")
  <2>1. Working = {}
    <3>1. ASSUME NEW i \in Working PROVE FALSE
      <4>1. Working = {i}
        BY DEF Solo, OneAtATime
      <4>2. Cardinality(Working) = 1
        BY <4>1, FS_Singleton
      <4>3. QED
        BY <1>6, <4>2 DEF Take
    <3>2. QED
      BY <3>1
  <2>2. q \in JobTypes /\ q.stage = "read" /\ job' = [job EXCEPT ![j] = q]
    BY <1>2, <1>6, JobFields, JobType DEF Take, Move, Stages
  <2>3. QED
    BY <1>2, <2>1, <2>2, SoloSlot DEF Sending
<1>7. CASE WorkerFails(j)
  <2>1. CASE Move(j, "waiting")
    BY <1>2, <1>7, <2>1, SoloMove DEF WorkerFails, Stages, Sending
  <2>2. CASE ~Final(j) /\ job' = [job EXCEPT ![j] = Job(job[j].delivery, job[j].made + 1, "waiting")]
    <3> DEFINE q == Job(job[j].delivery, job[j].made + 1, "waiting")
    <3>1. job[j].made + 1 \in 0 .. MaxAttempts - 1
      BY <1>2, <2>2, JobFields, DeliveryAssumption DEF Final, DeliveryAssumption
    <3>2. job[j].delivery \in Deliveries \cup {"none"} /\ "waiting" \in Stages
      BY <1>2, JobFields DEF Stages
    <3>3. q \in JobTypes /\ q.stage = "waiting"
      BY <3>1, <3>2, JobType
    <3>4. QED
      BY <1>2, <2>2, <3>3, SoloRest
  <2>3. QED
    BY <1>4, <1>7, <2>1, <2>2 DEF WorkerFails
<1>8. CASE Read(j) \/ Post(j) \/ Judge(j)
  <2>1. j \in Working
    BY <1>8 DEF Read, Post, Judge, At, Working
  <2>2. At(j, "post") => row[job[j].delivery] # "SUCCEEDED"
    BY DEF Solo, StillUnsent, Sending, At
  <2>3. \/ Done(j)
        \/ \E s \in Stages : Move(j, s) /\ (s \in Sending => row[job[j].delivery] # "SUCCEEDED")
    <3>1. CASE Read(j)
      BY <3>1 DEF Read, Stages
    <3>2. CASE Post(j)
      BY <2>2, <3>2 DEF Post, Stages
    <3>3. CASE Judge(j)
      BY <3>3 DEF Judge, Stages, Sending
    <3>4. QED
      BY <1>8, <3>1, <3>2, <3>3
  <2>4. QED
    BY <1>2, <1>4, <2>1, <2>3, SoloMove
<1>9. QED
  BY <1>3, <1>5, <1>6, <1>7, <1>8

LEMMA SoloStep ==
  ASSUME Workers = 1, IInv, Solo, [Next]_vars
  PROVE  Solo' /\ TakenBack \subseteq resent'
<1>1. CASE \/ \E d \in Deliveries : BeginEmit(d) \/ CreateRow(d) \/ Resend(d)
           \/ \E a \in Actors : EnqueueFails(a)
           \/ \E S \in SUBSET Deliveries : Reconcile(S)
           \/ ReadDeadLettered \/ Replay
  BY <1>1, OutsideQueue, SoloRows
<1>2. CASE \/ \E a \in Actors, d \in Deliveries, j \in Jobs : Enqueue(a, d, j)
           \/ \E j \in Jobs : Process(j) \/ LoseJob(j) \/ WorkerFails(j)
  <2>1. Solo' /\ TakenBack = {}
    BY <1>2, SoloQueue, SoloRecord DEF Process
  <2>2. QED
    BY <2>1
<1>3. CASE UNCHANGED vars
  <2>1. job' = job /\ NoNewSuccess /\ TakenBack = {}
    BY <1>3 DEF vars, NoNewSuccess, TakenBack
  <2>2. QED
    BY <2>1, SoloRows
<1>4. QED
  BY <1>1, <1>2, <1>3 DEF Next

(* With one worker, however many redundant jobs reconciliation adds and    *)
(* whatever crashes, nobody but the operator takes a delivery back from    *)
(* SUCCEEDED: the short-circuit of process() is enough.                    *)
THEOREM RedundantJobsWithOneWorker ==
  ASSUME Workers = 1
  PROVE  Spec => RedundantJobIsHarmless
<1>1. Init => Solo
  BY DEF Init, Solo, OneAtATime, StillUnsent, Working, Sending, NoJob, Job
<1>2. IInv /\ Solo /\ [Next]_vars => Solo'
  BY SoloStep
<1>3. IInv /\ Solo /\ [Next]_vars =>
        [\A d \in Deliveries :
            row[d] = "SUCCEEDED" /\ row'[d] # "SUCCEEDED" => d \in resent']_vars
  BY SoloStep DEF TakenBack
<1>4. QED
  BY <1>1, <1>2, <1>3, Invariance, PTL DEF Spec, RedundantJobIsHarmless
=============================================================================
