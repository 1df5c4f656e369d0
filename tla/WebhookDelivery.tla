--------------------------- MODULE WebhookDelivery ---------------------------
(***************************************************************************)
(* Delivery of webhook events to one endpoint of a merchant: the rows of   *)
(* WebhookDelivery, the BullMQ jobs that work on them, the periodic        *)
(* reconcilePending that adds jobs for rows it takes for orphans, the      *)
(* operator's resend and replay, and the automatic disabling of the        *)
(* endpoint.  A row and its job live in two stores (Postgres and Redis)    *)
(* and no transaction spans them.                                          *)
(***************************************************************************)
EXTENDS Naturals, Sequences, FiniteSets

CONSTANTS
  Deliveries,   \* deliveries to the endpoint, one for each event
  Jobs,         \* slots of the queue: a bound on the jobs at one time
  Workers,      \* jobs worked on at a time, over all worker processes
  MaxAttempts,  \* WEBHOOK_MAX_ATTEMPTS
  Threshold,    \* ENDPOINT_FAILURE_DISABLE_THRESHOLD
  MaxResends,   \* bound on what the operator asks for
  MaxFaults     \* bound on crashes and lost jobs

ASSUME DeliveryAssumption ==
  /\ Workers \in Nat \ {0}
  /\ MaxAttempts \in Nat \ {0}
  /\ Threshold \in Nat \ {0}
  /\ MaxResends \in Nat
  /\ MaxFaults \in Nat

VARIABLES
  row,        \* the status of each row; "none" and "begun" before there is one
  created,    \* the deliveries with a row, oldest first
  disabled,   \* the endpoint is disabled
  job,        \* the queue
  adding,     \* adding[a]: deliveries whose job actor a is about to add
  replaying,  \* FAILED deliveries as replayDeadLettered has read them
  posts,      \* requests made for each delivery, up to MaxAttempts + 1
  accepted,   \* deliveries whose event has reached the receiver
  excused,    \* deliveries given up for a reason other than their attempts
  given,      \* deliveries that have ever been FAILED
  resent,     \* deliveries sent again and not attempted since
  resends,
  faults

vars == <<row, created, disabled, job, adding, replaying, posts, accepted, excused, given, resent,
          resends, faults>>

rows    == <<row, created, disabled>>
history == <<posts, accepted, excused, given, resent>>
bounds  == <<resends, faults>>

Actors == {"emit", "reconcile", "operator"}
Stages == {"free", "waiting", "read", "post", "ok", "bad", "drop", "unsendable", "judge", "disable"}

(* A job: BullMQ's attemptsMade and where process() is.                    *)
Job(d, m, s) == [delivery |-> d, made |-> m, stage |-> s]
NoJob == Job("none", 0, "free")
JobTypes == [delivery : Deliveries \cup {"none"}, made : 0 .. MaxAttempts - 1, stage : Stages]

Init ==
  /\ row = [d \in Deliveries |-> "none"]
  /\ created = <<>>
  /\ disabled = FALSE
  /\ job = [j \in Jobs |-> NoJob]
  /\ adding = [a \in Actors |-> {}]
  /\ replaying = {}
  /\ posts = [d \in Deliveries |-> 0]
  /\ accepted = {}
  /\ excused = {}
  /\ given = {}
  /\ resent = {}
  /\ resends = 0
  /\ faults = 0

Pending == {d \in Deliveries : row[d] = "PENDING"}
Failed  == {d \in Deliveries : row[d] = "FAILED"}

Set(d, s) == row' = [row EXCEPT ![d] = s]

Fault == faults < MaxFaults /\ faults' = faults + 1

-----------------------------------------------------------------------------
(* Rows and jobs come to be.                                               *)

(* emit(): the endpoint is read, and matches; the event row is written.    *)
BeginEmit(d) ==
  /\ row[d] = "none"
  /\ ~disabled
  /\ Set(d, "begun")
  /\ UNCHANGED <<created, disabled, job, adding, replaying, history, bounds>>

CreateRow(d) ==
  /\ row[d] = "begun"
  /\ Set(d, "PENDING")
  /\ created' = Append(created, d)
  /\ adding' = [adding EXCEPT !["emit"] = @ \cup {d}]
  /\ UNCHANGED <<disabled, job, replaying, history, bounds>>

(* enqueue(): a job with all its attempts before it.                       *)
Enqueue(a, d, j) ==
  /\ d \in adding[a]
  /\ job[j] = NoJob
  /\ job' = [job EXCEPT ![j] = Job(d, 0, "waiting")]
  /\ adding' = [adding EXCEPT ![a] = @ \ {d}]
  /\ UNCHANGED <<rows, replaying, history, bounds>>

(* The process dies, or Redis is away, after the rows and before the jobs. *)
EnqueueFails(a) ==
  /\ adding[a] # {}
  /\ Fault
  /\ adding' = [adding EXCEPT ![a] = {}]
  /\ UNCHANGED <<rows, job, replaying, history, resends>>

(* Redis is flushed, or a job stalls once too often.                       *)
LoseJob(j) ==
  /\ job[j] # NoJob
  /\ Fault
  /\ job' = [job EXCEPT ![j] = NoJob]
  /\ UNCHANGED <<rows, adding, replaying, history, resends>>

(* Mutant: rows that wait for their first attempt are left to their job.   *)
OverdueOnceTried(S) == S = {d \in Pending : posts[d] > 0} /\ S # {}

(* Which rows count as orphans depends on the clock and on nextAttemptAt,  *)
(* which stays in the past while the job that is due waits or runs.        *)
Overdue(S) == S # {} /\ S \subseteq Pending

(* reconcilePending: reads the orphans of an enabled endpoint, and adds a  *)
(* job for each whatever jobs there are.                                   *)
Reconcile(S) ==
  /\ adding["reconcile"] = {}
  /\ ~disabled
  /\ Overdue(S)
  /\ adding' = [adding EXCEPT !["reconcile"] = S]
  /\ UNCHANGED <<rows, job, replaying, history, bounds>>

(* resend(): the endpoint enabled and the row reset in one transaction.    *)
Resend(d) ==
  /\ resends < MaxResends
  /\ row[d] \in {"PENDING", "SUCCEEDED", "FAILED"}
  /\ adding["operator"] = {}
  /\ disabled' = FALSE
  /\ Set(d, "PENDING")
  /\ adding' = [adding EXCEPT !["operator"] = {d}]
  /\ resent' = resent \cup {d}
  /\ resends' = resends + 1
  /\ UNCHANGED <<created, job, replaying, posts, accepted, excused, given, faults>>

(* replayDeadLettered(): reads the FAILED rows; resets those ids later.    *)
ReadDeadLettered ==
  /\ resends < MaxResends
  /\ replaying = {}
  /\ Failed # {}
  /\ replaying' = Failed
  /\ resends' = resends + 1
  /\ UNCHANGED <<rows, job, adding, history, faults>>

Replay ==
  /\ replaying # {}
  /\ adding["operator"] = {}
  /\ disabled' = FALSE
  /\ row' = [d \in Deliveries |-> IF d \in replaying THEN "PENDING" ELSE row[d]]
  /\ adding' = [adding EXCEPT !["operator"] = replaying]
  /\ resent' = resent \cup replaying
  /\ replaying' = {}
  /\ UNCHANGED <<created, job, posts, accepted, excused, given, bounds>>

-----------------------------------------------------------------------------
(* WebhookDeliveryProcessor.process, one await at a time.                  *)

Working == {j \in Jobs : job[j].stage \notin {"free", "waiting"}}

At(j, s) == job[j].stage = s
Move(j, s) == job' = [job EXCEPT ![j] = Job(job[j].delivery, job[j].made, s)]
Done(j) == job' = [job EXCEPT ![j] = NoJob]

(* A worker takes the job.                                                 *)
Take(j) ==
  /\ At(j, "waiting")
  /\ Cardinality(Working) < Workers
  /\ Move(j, "read")
  /\ UNCHANGED <<rows, adding, replaying, history, bounds>>

(* Mutant: a row that is SUCCEEDED is not looked for.                      *)
ReadAnyway(j) ==
  /\ At(j, "read")
  /\ Move(j, IF disabled THEN "drop" ELSE "post")
  /\ UNCHANGED <<rows, adding, replaying, history, bounds>>

(* The row and its endpoint are read once; then the secrets and the URL.   *)
Read(j) ==
  /\ At(j, "read")
  /\ \/ row[job[j].delivery] = "SUCCEEDED" /\ Done(j)
     \/ row[job[j].delivery] # "SUCCEEDED" /\ disabled /\ Move(j, "drop")
     \/ row[job[j].delivery] # "SUCCEEDED" /\ ~disabled /\ Move(j, "post")
     \/ row[job[j].delivery] # "SUCCEEDED" /\ ~disabled /\ Move(j, "unsendable")
  /\ UNCHANGED <<rows, adding, replaying, history, bounds>>

(* Mutant: an answer that is not 2xx passes for a delivery.                *)
PostAnyAnswer(j) ==
  LET d == job[j].delivery
  IN  /\ At(j, "post")
      /\ posts' = [posts EXCEPT ![d] = IF @ > MaxAttempts THEN @ ELSE @ + 1]
      /\ resent' = resent \ {d}
      /\ Move(j, "ok")
      /\ accepted' \in {accepted, accepted \cup {d}}
      /\ UNCHANGED <<rows, adding, replaying, excused, given, bounds>>

(* The receiver takes the event and answers 2xx; takes it and the answer   *)
(* is lost or late; or does not take it.                                   *)
Post(j) ==
  LET d == job[j].delivery
  IN  /\ At(j, "post")
      /\ posts' = [posts EXCEPT ![d] = IF @ > MaxAttempts THEN @ ELSE @ + 1]
      /\ resent' = resent \ {d}
      /\ \/ accepted' = accepted \cup {d} /\ Move(j, "ok")
         \/ accepted' = accepted \cup {d} /\ Move(j, "bad")
         \/ accepted' = accepted /\ Move(j, "bad")
      /\ UNCHANGED <<rows, adding, replaying, excused, given, bounds>>

(* Written without a look at what the row has become.                      *)
RecordSucceeded(j) ==
  /\ At(j, "ok")
  /\ Set(job[j].delivery, "SUCCEEDED")
  /\ resent' = resent \ {job[j].delivery}
  /\ Done(j)
  /\ UNCHANGED <<created, disabled, adding, replaying, posts, accepted, excused, given, bounds>>

(* Mutant: off by one, the last attempt is not made.                       *)
FinalTooSoon(j) == job[j].made + 2 >= MaxAttempts

Final(j) == job[j].made + 1 >= MaxAttempts

(* The row waits for the next attempt; the error makes BullMQ retry.       *)
RecordRetry(j) ==
  /\ At(j, "bad")
  /\ ~Final(j)
  /\ Set(job[j].delivery, "PENDING")
  /\ job' = [job EXCEPT ![j] = Job(job[j].delivery, job[j].made + 1, "waiting")]
  /\ UNCHANGED <<created, disabled, adding, replaying, history, bounds>>

GiveUp(j) ==
  /\ Set(job[j].delivery, "FAILED")
  /\ given' = given \cup {job[j].delivery}
  /\ UNCHANGED <<created, disabled, adding, replaying, posts, accepted, resent, bounds>>

(* markPermanentFailure after the last attempt, or without any.            *)
RecordFailed(j) ==
  \/ At(j, "bad") /\ Final(j) /\ Move(j, "judge") /\ GiveUp(j) /\ UNCHANGED excused
  \/ At(j, "unsendable") /\ Move(j, "judge") /\ GiveUp(j)
     /\ excused' = excused \cup {job[j].delivery}

(* The endpoint was disabled when it was read.                             *)
RecordDropped(j) ==
  /\ At(j, "drop")
  /\ Done(j)
  /\ GiveUp(j)
  /\ excused' = excused \cup {job[j].delivery}

(* The FAILED rows newer than the last SUCCEEDED one, of the newest rows.  *)
ConsecutiveFailures ==
  Cardinality({i \in DOMAIN created :
                 /\ i + 3 * Threshold > Len(created)
                 /\ row[created[i]] = "FAILED"
                 /\ \A k \in i .. Len(created) : row[created[k]] # "SUCCEEDED"})

(* maybeDisableEndpoint: the rows are counted, then the endpoint is        *)
(* disabled.                                                               *)
Judge(j) ==
  /\ At(j, "judge")
  /\ IF ConsecutiveFailures >= Threshold THEN Move(j, "disable") ELSE Done(j)
  /\ UNCHANGED <<rows, adding, replaying, history, bounds>>

Disable(j) ==
  /\ At(j, "disable")
  /\ disabled' = TRUE
  /\ Done(j)
  /\ UNCHANGED <<row, created, adding, replaying, history, bounds>>

(* The worker dies, or process() throws on a failed query: BullMQ hands    *)
(* the job out again, or gives it up for good and leaves the row behind.   *)
WorkerFails(j) ==
  /\ j \in Working
  /\ Fault
  /\ \/ Move(j, "waiting")
     \/ ~Final(j) /\ job' = [job EXCEPT ![j] = Job(job[j].delivery, job[j].made + 1, "waiting")]
     \/ Final(j) /\ Done(j)
  /\ UNCHANGED <<rows, adding, replaying, history, resends>>

Process(j) ==
  \/ Take(j)
  \/ Read(j)
  \/ Post(j)
  \/ RecordSucceeded(j)
  \/ RecordRetry(j)
  \/ RecordFailed(j)
  \/ RecordDropped(j)
  \/ Judge(j)
  \/ Disable(j)

Next ==
  \/ \E d \in Deliveries : BeginEmit(d) \/ CreateRow(d) \/ Resend(d)
  \/ \E a \in Actors, d \in Deliveries, j \in Jobs : Enqueue(a, d, j)
  \/ \E a \in Actors : EnqueueFails(a)
  \/ \E S \in SUBSET Deliveries : Reconcile(S)
  \/ ReadDeadLettered
  \/ Replay
  \/ \E j \in Jobs : Process(j) \/ LoseJob(j) \/ WorkerFails(j)

Spec == Init /\ [][Next]_vars

(* Handlers and workers go on; the queue hands out every job; the repeated *)
(* reconciliation meets every row that stays overdue.  The slots of the    *)
(* queue are a bound of the model, so adding a job is strongly fair.       *)
Fairness ==
  /\ \A d \in Deliveries : WF_vars(CreateRow(d))
  /\ \A a \in Actors, d \in Deliveries : SF_vars(\E j \in Jobs : Enqueue(a, d, j))
  /\ \A j \in Jobs : SF_vars(Take(j)) /\ WF_vars(Process(j))
  /\ \A d \in Deliveries : SF_vars(\E S \in SUBSET Deliveries : d \in S /\ Reconcile(S))

FairSpec == Spec /\ Fairness

-----------------------------------------------------------------------------
(* Properties.                                                             *)

TypeOK ==
  /\ row \in [Deliveries -> {"none", "begun", "PENDING", "SUCCEEDED", "FAILED"}]
  /\ created \in Seq(Deliveries)
  /\ disabled \in BOOLEAN
  /\ job \in [Jobs -> JobTypes]
  /\ adding \in [Actors -> SUBSET Deliveries]
  /\ replaying \subseteq Deliveries
  /\ posts \in [Deliveries -> 0 .. MaxAttempts + 1]
  /\ accepted \subseteq Deliveries
  /\ excused \subseteq Deliveries
  /\ given \subseteq Deliveries
  /\ resent \subseteq Deliveries
  /\ resends \in 0 .. MaxResends
  /\ faults \in 0 .. MaxFaults

(* A delivery shown as SUCCEEDED has reached the receiver, whichever of    *)
(* its jobs wrote the row and whatever was lost on the way.                *)
SucceededWasAccepted == \A d \in Deliveries : row[d] = "SUCCEEDED" => d \in accepted

(* A delivery is dead-lettered only after every attempt was made, or was   *)
(* lost to a fault of our own, unless its endpoint was disabled or cannot  *)
(* be sent to.                                                             *)
FailedAfterAllAttempts ==
  \A d \in Deliveries : row[d] = "FAILED" /\ d \notin excused => posts[d] + faults >= MaxAttempts

(* An endpoint is disabled only after as many deliveries as the threshold  *)
(* have failed for good.                                                   *)
DisabledForCause == disabled => Cardinality(given) >= Threshold

(* No row is forgotten: whatever happens to its job, it is decided, unless *)
(* its endpoint is disabled.                                               *)
PendingIsDecided ==
  \A d \in Deliveries : (row[d] = "PENDING") ~> (row[d] \in {"SUCCEEDED", "FAILED"} \/ disabled)

(* The SUCCEEDED short-circuit makes a redundant job harmless: nobody but  *)
(* the operator takes a delivery back.                                     *)
RedundantJobIsHarmless ==
  [][\A d \in Deliveries :
       row[d] = "SUCCEEDED" /\ row'[d] # "SUCCEEDED" => d \in resent']_vars

(* Up to 6 attempts, as long as nobody sends a delivery again.             *)
AttemptsAreBounded ==
  \A d \in Deliveries : resends = 0 => posts[d] <= MaxAttempts

(* What the operator sends again is tried again.                           *)
ResendIsTried == \A d \in Deliveries : (d \in resent) ~> (d \notin resent)
=============================================================================
