---------------------------- MODULE PaymentsProof ----------------------------
(***************************************************************************)
(* Theorems about Payments, for any number of payments, requests, worker   *)
(* jobs and faults.                                                        *)
(***************************************************************************)
EXTENDS Payments, TLAPS

(* The least of the consequences left is one of them.                      *)
LEMMA LeastExists ==
  ASSUME NEW S, S \subseteq 1 .. 10, S # {}
  PROVE  \E e \in S : \A f \in S : e <= f
<1> SUFFICES ASSUME \A e \in S : \E f \in S : f < e PROVE FALSE
  OBVIOUS
<1>1. S \subseteq Nat /\ \A e \in S : e > 0
  OBVIOUS
<1>2. \A e \in S : e > 1
  BY <1>1
<1>3. \A e \in S : e > 2
  BY <1>1, <1>2
<1>4. \A e \in S : e > 3
  BY <1>1, <1>3
<1>5. \A e \in S : e > 4
  BY <1>1, <1>4
<1>6. \A e \in S : e > 5
  BY <1>1, <1>5
<1>7. \A e \in S : e > 6
  BY <1>1, <1>6
<1>8. \A e \in S : e > 7
  BY <1>1, <1>7
<1>9. \A e \in S : e > 8
  BY <1>1, <1>8
<1>10. \A e \in S : e > 9
  BY <1>1, <1>9
<1>11. \A e \in S : e > 10
  BY <1>1, <1>10
<1>12. PICK e \in S : TRUE
  OBVIOUS
<1>13. e <= 10
  BY <1>12
<1>14. QED
  BY <1>1, <1>11, <1>12, <1>13

LEMMA TurnIsLeft ==
  ASSUME NEW h, job[h].todo \subseteq Effects, job[h].todo # {}
  PROVE  Turn(h) \in job[h].todo
<1>1. job[h].todo \subseteq 1 .. 10
  BY PaymentsAssumption DEF PaymentsAssumption
<1>2. \E e \in job[h].todo : \A f \in job[h].todo : e <= f
  BY <1>1, LeastExists
<1>3. QED
  BY <1>2 DEF Turn

(* What canTransition says, without the table.                             *)
LEMMA Transitions ==
  ASSUME NEW from, NEW to, canTransition(from, to)
  PROVE  /\ from \in PaymentStatus
         /\ to \in PaymentStatus
         /\ from # to
         /\ to # "pending"
         /\ to = "paid" => from \notin Captured
         /\ from \in Captured => to \in Captured
         /\ from # "cancelled"
         /\ to = "cancelled" => from \in Open
BY DEF canTransition, PAYMENT_TRANSITIONS, PaymentStatus, Captured, Open

-----------------------------------------------------------------------------
(* What a handler at l holds in its job record j.                          *)
Sound(l, j) ==
  /\ l \in {"created", "poll", "read", "write", "effects", "emit"} => j.payment \in Payments
  /\ l = "next" => j.op \in Batch
  /\ l = "poll" => j.op = "poll"
  /\ l = "write" => canTransition(j.seen, j.to)
  /\ l = "effects" => j.to = "paid" /\ j.todo # {}
  /\ l \in {"read", "emit"} => j.to \in PaymentStatus
  /\ j.op = "cancel" => j.to = "cancelled"
  /\ j.op = "sweep" => j.to = "expired"

HandlersOK ==
  /\ pc \in [Handlers -> Pcs]
  /\ job \in [Handlers -> Job]
  /\ \A h \in Handlers : Sound(pc[h], job[h])

TypeInv == TypeOK /\ HandlersOK

LEMMA StatusTypes ==
  /\ "pending" \in PaymentStatus /\ "paid" \in PaymentStatus
  /\ PaymentStatus \subseteq RowStatus
  /\ Absent \in RowStatus
  /\ Absent \notin PaymentStatus
BY DEF PaymentStatus, RowStatus, Absent

LEMMA NoJobType == NoJob \in Job /\ Sound("idle", NoJob)
BY DEF NoJob, Job, Ops, Batch, RowStatus, Sound

(* Whatever a step does to one handler, the others stay as they were.      *)
LEMMA Updated ==
  ASSUME HandlersOK, NEW h \in Handlers, NEW l \in Pcs, NEW j \in Job, Sound(l, j),
         Goto(h, l), job' = [job EXCEPT ![h] = j]
  PROVE  HandlersOK'
BY DEF HandlersOK, Goto, Sound

LEMMA CallType ==
  ASSUME HandlersOK, NEW h \in Handlers, NEW op \in Ops \ Batch, NEW p \in Payments,
         NEW to \in PaymentStatus, op = "cancel" => to = "cancelled", Call(h, op, p, to)
  PROVE  HandlersOK'
<1> DEFINE j == [NoJob EXCEPT !.op = op, !.payment = p, !.to = to]
<1>1. j \in Job
  BY DEF NoJob, Job, RowStatus
<1>2. Sound("read", j)
  BY DEF NoJob, Sound, Batch
<1>3. QED
  BY <1>1, <1>2, Updated DEF Call, Pcs

LEMMA ReturnType ==
  ASSUME HandlersOK, NEW h \in Handlers, Return(h)
  PROVE  HandlersOK'
<1>1. CASE job[h].op \in Batch
  <2> DEFINE j == [job[h] EXCEPT !.payment = Absent, !.seen = Absent, !.todo = {}]
  <2>1. j \in Job
    BY DEF HandlersOK, Job, RowStatus
  <2>2. Sound("next", j)
    BY <1>1 DEF HandlersOK, Job, Batch, Sound
  <2>3. job' = [job EXCEPT ![h] = j]
    BY <1>1 DEF Return, HandlersOK, Job
  <2>4. QED
    BY <1>1, <2>1, <2>2, <2>3, Updated DEF Return, Pcs
<1>2. CASE job[h].op \notin Batch
  BY <1>2, NoJobType, Updated DEF Return, Pcs
<1>3. QED
  BY <1>1, <1>2

LEMMA AnswerType ==
  ASSUME HandlersOK, NEW h \in Handlers, NEW st \in PaymentStatus, Answer(h, st),
         told \in [Payments -> SUBSET PaymentStatus]
  PROVE  HandlersOK' /\ told' \in [Payments -> SUBSET PaymentStatus]
<1>1. HandlersOK'
  BY ReturnType DEF Answer
<1>2. told' \in [Payments -> SUBSET PaymentStatus]
  BY StatusTypes DEF Answer
<1>3. QED
  BY <1>1, <1>2

LEMMA AdvanceType ==
  ASSUME HandlersOK, NEW h \in Handlers, pc[h] = "effects", Advance(h)
  PROVE  HandlersOK'
<1> DEFINE left == job[h].todo \ {Turn(h)}
           j == [job[h] EXCEPT !.todo = left]
           l == IF left = {} THEN "emit" ELSE "effects"
<1>1. j \in Job
  BY DEF HandlersOK, Job
<1>2. Sound(l, j)
  BY StatusTypes DEF HandlersOK, Sound, Job
<1>3. job' = [job EXCEPT ![h] = j]
  BY DEF Advance, HandlersOK, Job
<1>4. QED
  BY <1>1, <1>2, <1>3, Updated DEF Advance, Pcs

LEMMA TypeInit == Init => TypeInv
<1> SUFFICES ASSUME Init PROVE TypeInv
  OBVIOUS
<1>1. HandlersOK
  BY NoJobType DEF Init, HandlersOK, Pcs
<1>2. QED
  BY <1>1, PaymentsAssumption, StatusTypes DEF Init, TypeInv, TypeOK, HandlersOK, PaymentsAssumption

LEMMA TypeNext == TypeInv /\ [Next]_vars => TypeInv'
<1> SUFFICES ASSUME TypeInv, [Next]_vars PROVE TypeInv'
  OBVIOUS
<1> USE DEF TypeInv, TypeOK, rows, world
<1>1. ASSUME NEW p \in Payments, PassExpiry(p) \/ Ingest(p) PROVE TypeInv'
  BY <1>1 DEF PassExpiry, Ingest, HandlersOK
<1>2. ASSUME NEW h \in ApiHandlers, NEW p \in Payments, NEW covered \in BOOLEAN, Create(h, p, covered)
      PROVE  TypeInv'
  <2> DEFINE j == [NoJob EXCEPT !.op = "create", !.payment = p,
                                !.to = IF covered THEN "paid" ELSE Absent]
  <2>1. HandlersOK'
    <3>1. j \in Job /\ Sound("created", j)
      BY DEF NoJob, Job, RowStatus, PaymentStatus, Ops, Sound
    <3>2. QED
      BY <1>2, <3>1, Updated DEF Create, Pcs, Handlers
  <2>2. Append(history[p], "pending") \in Seq(PaymentStatus)
    BY StatusTypes
  <2>3. QED
    BY <1>2, <2>1, <2>2, StatusTypes DEF Create, HandlersOK
<1>3. ASSUME NEW h \in ApiHandlers, NEW p \in Payments,
             \/ Cancel(h, p)
             \/ \E to \in {"scanned", "paid", "failed", "expired"} : Simulate(h, p, to)
             \/ ConfirmPayment(h, p)
             \/ ConfirmDetection(h, p)
             \/ LazyExpiry(h, p)
             \/ FullRefund(h, p)
      PROVE  TypeInv'
  <2>1. PICK op \in Ops \ Batch, to \in PaymentStatus :
           Call(h, op, p, to) /\ (op = "cancel" => to = "cancelled")
    BY <1>3 DEF Cancel, Simulate, ConfirmPayment, ConfirmDetection, LazyExpiry, FullRefund,
                Ops, Batch, PaymentStatus
  <2>2. HandlersOK'
    BY <2>1, CallType DEF Handlers
  <2>3. QED
    BY <1>3, <2>2 DEF Cancel, Simulate, ConfirmPayment, ConfirmDetection, LazyExpiry, FullRefund,
                      HandlersOK
<1>4. ASSUME NEW h \in ApiHandlers, NEW p \in Payments, ConfirmAlreadyPaid(h, p)
      PROVE  TypeInv'
  BY <1>4, StatusTypes DEF ConfirmAlreadyPaid, HandlersOK
<1>5. ASSUME NEW w \in Workers, ExpirySweep(w) \/ StatusPoll(w)
      PROVE  TypeInv'
  <2>1. PICK op \in Batch, to \in RowStatus, due \in SUBSET Payments :
           Start(w, op, to, due) /\ (op = "sweep" => to = "expired")
    BY <1>5, PaymentsAssumption
       DEF ExpirySweep, StatusPoll, Batch, RowStatus, PaymentStatus, PaymentsAssumption
  <2> DEFINE j == [NoJob EXCEPT !.op = op, !.to = to, !.rest = due]
  <2>2. j \in Job /\ Sound("next", j)
    BY <2>1 DEF NoJob, Job, RowStatus, Ops, Batch, Sound
  <2>3. HandlersOK'
    BY <2>1, <2>2, Updated DEF Start, Pcs, Handlers
  <2>4. QED
    BY <2>1, <2>3 DEF Start, HandlersOK
<1>6. ASSUME NEW h \in Handlers, EmitCreated(h)
      PROVE  TypeInv'
  <2>1. HandlersOK'
    <3>1. CASE job[h].to = "paid"
      <4>1. Sound("read", job[h]) /\ job[h] \in Job
        BY <1>6, <3>1 DEF EmitCreated, HandlersOK, Sound, PaymentStatus
      <4>2. job' = [job EXCEPT ![h] = job[h]]
        BY <1>6, <3>1 DEF EmitCreated, HandlersOK
      <4>3. QED
        BY <1>6, <3>1, <4>1, <4>2, Updated DEF EmitCreated, Pcs
    <3>2. CASE job[h].to # "paid"
      BY <1>6, <3>2, ReturnType DEF EmitCreated
    <3>3. QED
      BY <3>1, <3>2
  <2>2. emitted' \in [Payments -> [PaymentStatus -> Nat]]
    BY <1>6, StatusTypes DEF EmitCreated, HandlersOK, Sound
  <2>3. QED
    BY <1>6, <2>1, <2>2 DEF EmitCreated, HandlersOK
<1>7. ASSUME NEW h \in Handlers, NextInBatch(h)
      PROVE  TypeInv'
  <2>1. CASE job[h].rest = {} /\ Goto(h, "idle") /\ job' = [job EXCEPT ![h] = NoJob]
    BY <1>7, <2>1, NoJobType, Updated DEF NextInBatch, Pcs, HandlersOK
  <2>2. ASSUME NEW p \in job[h].rest,
               job' = [job EXCEPT ![h].payment = p, ![h].rest = @ \ {p}],
               Goto(h, IF job[h].op = "sweep" THEN "read" ELSE "poll")
        PROVE  TypeInv'
    <3> DEFINE j == [job[h] EXCEPT !.payment = p, !.rest = @ \ {p}]
    <3>1. j \in Job /\ p \in Payments
      BY DEF HandlersOK, Job
    <3>2. Sound(IF j.op = "sweep" THEN "read" ELSE "poll", j)
      BY <1>7, <3>1 DEF NextInBatch, HandlersOK, Job, Sound, Batch, PaymentStatus
    <3>3. job' = [job EXCEPT ![h] = j]
      BY <2>2 DEF HandlersOK, Job
    <3>4. HandlersOK'
      BY <2>2, <3>1, <3>2, <3>3, Updated DEF Pcs, HandlersOK, Job
    <3>5. QED
      BY <1>7, <3>4 DEF NextInBatch, HandlersOK
  <2>3. QED
    BY <1>7, <2>1, <2>2 DEF NextInBatch
<1>8. ASSUME NEW h \in Handlers, PollAnswer(h)
      PROVE  TypeInv'
  <2>1. ASSUME NEW to \in {"paid", "failed"}, job' = [job EXCEPT ![h].to = to], Goto(h, "read")
        PROVE  HandlersOK'
    <3> DEFINE j == [job[h] EXCEPT !.to = to]
    <3>1. j \in Job
      BY DEF HandlersOK, Job, RowStatus, PaymentStatus
    <3>2. Sound("read", j)
      BY <1>8, <2>1 DEF PollAnswer, HandlersOK, Job, Sound, Batch, PaymentStatus
    <3>3. job' = [job EXCEPT ![h] = j]
      BY <2>1 DEF HandlersOK, Job
    <3>4. QED
      BY <2>1, <3>1, <3>2, <3>3, Updated DEF Pcs
  <2>2. QED
    BY <1>8, <2>1, ReturnType DEF PollAnswer, HandlersOK
<1>9. ASSUME NEW h \in Handlers, TxRead(h)
      PROVE  TypeInv'
  <2> DEFINE p == job[h].payment
             to == job[h].to
             from == status[p]
  <2>1. p \in Payments
    BY <1>9 DEF TxRead, HandlersOK, Sound
  <2>2. CASE canTransition(from, to) /\ job' = [job EXCEPT ![h].seen = from] /\ Goto(h, "write")
             /\ UNCHANGED told
    <3> DEFINE j == [job[h] EXCEPT !.seen = from]
    <3>1. j \in Job
      BY <2>1 DEF HandlersOK, Job
    <3>2. Sound("write", j)
      BY <1>9, <2>1, <2>2 DEF TxRead, HandlersOK, Job, Sound
    <3>3. job' = [job EXCEPT ![h] = j]
      BY <2>2 DEF HandlersOK, Job
    <3>4. HandlersOK'
      BY <2>2, <3>1, <3>2, <3>3, Updated DEF Pcs
    <3>5. QED
      BY <1>9, <2>2, <3>4 DEF TxRead, HandlersOK
  <2>3. CASE from = to /\ Answer(h, from)
    <3>1. from \in PaymentStatus
      BY <1>9, <2>3 DEF TxRead, HandlersOK, Sound
    <3>2. QED
      BY <1>9, <2>3, <3>1, AnswerType DEF TxRead, HandlersOK
  <2>4. CASE Return(h) /\ UNCHANGED told
    BY <1>9, <2>4, ReturnType DEF TxRead, HandlersOK
  <2>5. QED
    BY <1>9, <2>2, <2>3, <2>4 DEF TxRead
<1>10. ASSUME NEW h \in Handlers, TxWrite(h)
       PROVE  TypeInv'
  <2> DEFINE p == job[h].payment
             to == job[h].to
             j == [job[h] EXCEPT !.seen = Absent, !.todo = IF to = "paid" THEN Effects ELSE {}]
             l == IF to = "paid" THEN "effects" ELSE "emit"
  <2>1. p \in Payments /\ to \in PaymentStatus
    BY <1>10, Transitions DEF TxWrite, HandlersOK, Sound
  <2>2. j \in Job
    BY StatusTypes DEF HandlersOK, Job
  <2>3. Sound(l, j)
    BY <1>10, <2>1, PaymentsAssumption DEF TxWrite, HandlersOK, Job, Sound, PaymentsAssumption
  <2>4. job' = [job EXCEPT ![h] = j]
    BY <1>10 DEF TxWrite, HandlersOK, Job
  <2>5. HandlersOK'
    BY <1>10, <2>2, <2>3, <2>4, Updated DEF TxWrite, Pcs
  <2>6. Append(history[p], to) \in Seq(PaymentStatus)
    BY <2>1
  <2>7. QED
    BY <1>10, <2>1, <2>5, <2>6, StatusTypes DEF TxWrite, HandlersOK
<1>11. ASSUME NEW h \in Handlers, TxLost(h)
       PROVE  TypeInv'
  <2>1. job[h].seen \in PaymentStatus
    BY <1>11, Transitions DEF TxLost, HandlersOK, Sound
  <2>2. QED
    BY <1>11, <2>1, AnswerType DEF TxLost, HandlersOK
<1>12. ASSUME NEW h \in Handlers, ApplyEffect(h)
       PROVE  TypeInv'
  <2>1. HandlersOK'
    BY <1>12, AdvanceType DEF ApplyEffect
  <2>2. job[h].payment \in Payments /\ Turn(h) \in Effects
    BY <1>12, TurnIsLeft DEF ApplyEffect, HandlersOK, Sound, Job
  <2>3. applied' \in [Payments -> [Effects -> Nat]]
    BY <1>12, <2>2 DEF ApplyEffect, CarryOut
  <2>4. QED
    BY <1>12, <2>1, <2>3 DEF ApplyEffect, HandlersOK
<1>13. ASSUME NEW h \in Handlers, Emit(h)
       PROVE  TypeInv'
  <2>1. job[h].payment \in Payments /\ job[h].to \in PaymentStatus
    BY <1>13 DEF Emit, HandlersOK, Sound
  <2>2. emitted' \in [Payments -> [PaymentStatus -> Nat]]
    BY <1>13, <2>1 DEF Emit
  <2>3. QED
    BY <1>13, <2>1, <2>2, AnswerType DEF Emit, HandlersOK
<1>14. ASSUME NEW h \in Handlers, EffectSwallowed(h)
       PROVE  TypeInv'
  BY <1>14, AdvanceType, PaymentsAssumption
     DEF EffectSwallowed, Fault, HandlersOK, PaymentsAssumption
<1>15. ASSUME NEW h \in Handlers, Throw(h)
       PROVE  TypeInv'
  <2>1. HandlersOK'
    BY <1>15, ReturnType DEF Throw
  <2>2. applied' \in [Payments -> [Effects -> Nat]]
    <3>1. CASE pc[h] = "effects" /\ CarryOut(h)
      <4>1. job[h].payment \in Payments /\ Turn(h) \in Effects
        BY <3>1, TurnIsLeft DEF HandlersOK, Sound, Job
      <4>2. QED
        BY <3>1, <4>1 DEF CarryOut
    <3>2. CASE UNCHANGED applied
      BY <3>2
    <3>3. QED
      BY <1>15, <3>1, <3>2 DEF Throw
  <2>3. QED
    BY <1>15, <2>1, <2>2, PaymentsAssumption DEF Throw, Fault, HandlersOK, PaymentsAssumption
<1>16. ASSUME NEW h \in Handlers, Crash(h)
       PROVE  TypeInv'
  <2>1. HandlersOK'
    BY <1>16, NoJobType, Updated DEF Crash, Pcs
  <2>2. QED
    BY <1>16, <2>1, PaymentsAssumption DEF Crash, Fault, HandlersOK, PaymentsAssumption
<1>17. CASE UNCHANGED vars
  BY <1>17 DEF vars, HandlersOK
<1>18. QED
  BY <1>1, <1>2, <1>3, <1>4, <1>5, <1>6, <1>7, <1>8, <1>9, <1>10, <1>11, <1>12,
     <1>13, <1>14, <1>15, <1>16, <1>17
     DEF Next, Request, Continue

(* Every variable keeps its type, and every handler holds what its program *)
(* counter needs.                                                          *)
THEOREM TypeCorrect == Spec => []TypeOK
<1>1. TypeInv => TypeOK
  BY DEF TypeInv
<1>2. QED
  BY <1>1, TypeInit, TypeNext, PTL DEF Spec
-----------------------------------------------------------------------------
(* The consequences of a capture.  A handler that is carrying them out     *)
(* holds those that nobody has carried out yet, and it is the only one     *)
(* that does so for its payment: the guarded update let a single handler   *)
(* move the payment to paid, and paid is never left for an open status.    *)
Serving(h) == pc[h] = "effects"

Must == Effects \ Swallowed

ServersHoldTheRest ==
  \A h \in Handlers : Serving(h) =>
     /\ status[job[h].payment] \in Captured
     /\ \A e \in job[h].todo : applied[job[h].payment][e] = 0
     /\ \A e \in Must \ job[h].todo : applied[job[h].payment][e] = 1

OneServer ==
  \A g, h \in Handlers :
     Serving(g) /\ Serving(h) /\ job[g].payment = job[h].payment => g = h

EmittersAreDone ==
  \A h \in Handlers : pc[h] = "emit" /\ job[h].to = "paid" =>
     \A e \in Must : applied[job[h].payment][e] = 1

CaptureInv ==
  /\ ServersHoldTheRest
  /\ OneServer
  /\ EmittersAreDone
  /\ EffectsOncePerCapture
  /\ AnnouncedAfterEffects

LEMMA CaptureInit == Init => CaptureInv
BY DEF Init, CaptureInv, ServersHoldTheRest, OneServer, EmittersAreDone, Serving,
       EffectsOncePerCapture, AnnouncedAfterEffects, PaymentStatus

(* The other handlers stay as they were.                                   *)
Alone(h) == \A g \in Handlers \ {h} : pc'[g] = pc[g] /\ job'[g] = job[g]

(* A step that carries nothing out, announces no capture and leaves its    *)
(* handler neither serving nor emitting.                                   *)
LEMMA Quiet ==
  ASSUME TypeInv, CaptureInv, NEW h \in Handlers, Alone(h),
         pc'[h] \notin {"effects", "emit"},
         \A p \in Payments : status[p] \in Captured => status'[p] \in Captured,
         UNCHANGED applied,
         \A p \in Payments : emitted'[p]["paid"] = emitted[p]["paid"]
  PROVE  CaptureInv'
<1> USE DEF TypeInv, TypeOK, HandlersOK, Sound, CaptureInv, Alone, Serving
<1>1. ServersHoldTheRest'
  BY DEF ServersHoldTheRest
<1>2. OneServer'
  BY DEF OneServer
<1>3. EmittersAreDone'
  BY DEF EmittersAreDone
<1>4. EffectsOncePerCapture'
  BY DEF EffectsOncePerCapture
<1>5. AnnouncedAfterEffects'
  BY DEF AnnouncedAfterEffects
<1>6. QED
  BY <1>1, <1>2, <1>3, <1>4, <1>5

(* A handler returns.                                                      *)
LEMMA ReturnQuiet ==
  ASSUME TypeInv, NEW h \in Handlers, Return(h)
  PROVE  Alone(h) /\ pc'[h] \in {"idle", "next"}
BY DEF Return, Goto, Alone, TypeInv, HandlersOK

LEMMA AdvanceMoves ==
  ASSUME TypeInv, NEW h \in Handlers, pc[h] = "effects", Advance(h)
  PROVE  /\ Alone(h)
         /\ job'[h] = [job[h] EXCEPT !.todo = @ \ {Turn(h)}]
         /\ pc'[h] = IF job'[h].todo = {} THEN "emit" ELSE "effects"
         /\ job[h].payment \in Payments
         /\ job'[h].payment = job[h].payment
         /\ job'[h].todo = job[h].todo \ {Turn(h)}
         /\ job[h].todo \subseteq Effects
         /\ Turn(h) \in job[h].todo
<1>1. job[h] \in Job /\ job[h].todo # {} /\ job[h].payment \in Payments
  BY DEF TypeInv, HandlersOK, Sound
<1>2. Turn(h) \in job[h].todo
  BY <1>1, TurnIsLeft DEF Job
<1>3. QED
  BY <1>1, <1>2 DEF Advance, Goto, Alone, TypeInv, HandlersOK, Job

(* The consequence whose turn it is is carried out, or it is one of those  *)
(* that may be lost, and the handler goes on.                              *)
LEMMA AdvanceServes ==
  ASSUME TypeInv, CaptureInv, NEW h \in Handlers, pc[h] = "effects", Advance(h),
         CarryOut(h) \/ (Turn(h) \in Swallowed /\ UNCHANGED applied),
         UNCHANGED <<status, emitted>>
  PROVE  CaptureInv'
<1> DEFINE p == job[h].payment
           t == Turn(h)
<1>1. /\ Alone(h) /\ p \in Payments /\ t \in job[h].todo /\ job[h].todo \subseteq Effects
      /\ job'[h].payment = p /\ job'[h].todo = job[h].todo \ {t}
      /\ job'[h].to = "paid"
      /\ pc'[h] = IF job'[h].todo = {} THEN "emit" ELSE "effects"
  <2>1. job[h] \in Job /\ job[h].to = "paid"
    BY DEF TypeInv, HandlersOK, Sound
  <2>2. job'[h] = [job[h] EXCEPT !.todo = @ \ {Turn(h)}]
    BY AdvanceMoves
  <2>3. job'[h].to = "paid"
    BY <2>1, <2>2 DEF Job
  <2>4. QED
    BY <2>3, AdvanceMoves
<1>2. status[p] \in Captured /\ applied[p][t] = 0
  BY <1>1 DEF CaptureInv, ServersHoldTheRest, Serving
<1>3. /\ applied' \in [Payments -> [Effects -> Nat]]
      /\ \A q \in Payments, e \in Effects : q # p \/ e # t => applied'[q][e] = applied[q][e]
      /\ t \in Must => applied'[p][t] = 1
      /\ applied'[p][t] <= 1
  <2>1. t \in Effects /\ applied \in [Payments -> [Effects -> Nat]]
    BY <1>1 DEF TypeInv, TypeOK
  <2>2. CASE CarryOut(h)
    <3>1. applied' = [applied EXCEPT ![p][t] = 1]
      BY <1>1, <1>2, <2>1, <2>2 DEF CarryOut
    <3>2. QED
      BY <1>1, <2>1, <3>1
  <2>3. CASE t \in Swallowed /\ UNCHANGED applied
    BY <1>2, <2>1, <2>3 DEF Must
  <2>4. QED
    BY <2>2, <2>3
<1>4. \A g \in Handlers \ {h} : Serving(g) => job[g].payment # p
  BY <1>1 DEF CaptureInv, OneServer, Serving
<1>5. ServersHoldTheRest'
  <2> SUFFICES ASSUME NEW g \in Handlers, Serving(g)'
               PROVE  /\ status[job'[g].payment] \in Captured
                      /\ \A e \in job'[g].todo : applied'[job'[g].payment][e] = 0
                      /\ \A e \in Must \ job'[g].todo : applied'[job'[g].payment][e] = 1
    BY DEF ServersHoldTheRest
  <2>1. CASE g = h
    BY <1>1, <1>2, <1>3, <2>1 DEF CaptureInv, ServersHoldTheRest, Serving, Must
  <2>2. CASE g # h
    <3>1. Serving(g) /\ job'[g] = job[g] /\ job[g].payment # p /\ job[g].payment \in Payments
          /\ job[g].todo \subseteq Effects
      BY <1>1, <1>4, <2>2 DEF Serving, Alone, TypeInv, HandlersOK, Sound, Job
    <3>2. QED
      BY <1>3, <3>1 DEF CaptureInv, ServersHoldTheRest, Must
  <2>3. QED
    BY <2>1, <2>2
<1>6. OneServer'
  BY <1>1, <1>4 DEF CaptureInv, OneServer, Serving, Alone
<1>7. EmittersAreDone'
  <2> SUFFICES ASSUME NEW g \in Handlers, pc'[g] = "emit", job'[g].to = "paid"
               PROVE  \A e \in Must : applied'[job'[g].payment][e] = 1
    BY DEF EmittersAreDone
  <2>1. CASE g = h
    BY <1>1, <1>3, <2>1 DEF CaptureInv, ServersHoldTheRest, Serving, Must
  <2>2. CASE g # h
    <3>1. pc[g] = "emit" /\ job'[g] = job[g] /\ job[g].payment \in Payments /\ job[g].to = "paid"
      BY <1>1, <2>2 DEF Alone, TypeInv, HandlersOK, Sound
    <3>2. \A e \in Must : applied[job[g].payment][e] = 1
      BY <3>1 DEF CaptureInv, EmittersAreDone
    <3>3. QED
      BY <1>1, <1>2, <1>3, <3>1, <3>2 DEF Must
  <2>3. QED
    BY <2>1, <2>2
<1>8. EffectsOncePerCapture'
  BY <1>1, <1>2, <1>3 DEF CaptureInv, EffectsOncePerCapture
<1>9. AnnouncedAfterEffects'
  BY <1>1, <1>2, <1>3 DEF CaptureInv, AnnouncedAfterEffects, Must
<1>10. QED
  BY <1>5, <1>6, <1>7, <1>8, <1>9 DEF CaptureInv

LEMMA TxWriteServes ==
  ASSUME TypeInv, CaptureInv, NEW h \in Handlers, TxWrite(h)
  PROVE  CaptureInv'
<1> DEFINE p == job[h].payment
           to == job[h].to
<1>1. /\ p \in Payments /\ canTransition(status[p], to)
      /\ status' = [status EXCEPT ![p] = to]
      /\ Alone(h)
      /\ job'[h].payment = p /\ job'[h].to = to
      /\ job'[h].todo = IF to = "paid" THEN Effects ELSE {}
      /\ pc'[h] = IF to = "paid" THEN "effects" ELSE "emit"
      /\ UNCHANGED <<applied, emitted>>
  BY DEF TxWrite, Goto, Alone, TypeInv, HandlersOK, Sound, Job
<1>2. \A q \in Payments : status[q] \in Captured => status'[q] \in Captured
  BY <1>1, Transitions DEF TypeInv, TypeOK
<1>3. to = "paid" => status[p] \notin Captured /\ status'[p] \in Captured
  BY <1>1, Transitions DEF TypeInv, TypeOK, Captured
<1>4. to = "paid" => \A e \in Effects : applied[p][e] = 0
  BY <1>1, <1>3 DEF TypeInv, TypeOK, CaptureInv, EffectsOncePerCapture
<1>5. to = "paid" => \A g \in Handlers : Serving(g) => job[g].payment # p
  BY <1>3 DEF CaptureInv, ServersHoldTheRest
<1>6. ServersHoldTheRest'
  <2> SUFFICES ASSUME NEW g \in Handlers, Serving(g)'
               PROVE  /\ status'[job'[g].payment] \in Captured
                      /\ \A e \in job'[g].todo : applied[job'[g].payment][e] = 0
                      /\ \A e \in Must \ job'[g].todo : applied[job'[g].payment][e] = 1
    BY <1>1 DEF ServersHoldTheRest
  <2>1. CASE g = h
    BY <1>1, <1>3, <1>4, <2>1 DEF Serving, Must
  <2>2. CASE g # h
    BY <1>1, <1>2, <2>2 DEF Serving, Alone, TypeInv, HandlersOK, Sound, CaptureInv, ServersHoldTheRest
  <2>3. QED
    BY <2>1, <2>2
<1>7. OneServer'
  BY <1>1, <1>5 DEF CaptureInv, OneServer, Serving, Alone
<1>8. EmittersAreDone'
  BY <1>1 DEF CaptureInv, EmittersAreDone, Alone
<1>9. EffectsOncePerCapture'
  BY <1>1, <1>2 DEF CaptureInv, EffectsOncePerCapture
<1>10. AnnouncedAfterEffects'
  BY <1>1 DEF CaptureInv, AnnouncedAfterEffects
<1>11. QED
  BY <1>6, <1>7, <1>8, <1>9, <1>10 DEF CaptureInv

LEMMA EmitServes ==
  ASSUME TypeInv, CaptureInv, NEW h \in Handlers, Emit(h)
  PROVE  CaptureInv'
<1> DEFINE p == job[h].payment
           to == job[h].to
<1>1. p \in Payments /\ to \in PaymentStatus /\ Alone(h) /\ pc'[h] \in {"idle", "next"}
  BY ReturnQuiet DEF Emit, Answer, TypeInv, HandlersOK, Sound
<1>2. \A q \in Payments : emitted'[q]["paid"] # emitted[q]["paid"] => q = p /\ to = "paid"
  BY <1>1, StatusTypes DEF Emit, TypeInv, TypeOK
<1>3. UNCHANGED <<status, applied>>
  BY DEF Emit, rows
<1>4. ServersHoldTheRest' /\ OneServer' /\ EmittersAreDone'
  BY <1>1, <1>3 DEF CaptureInv, ServersHoldTheRest, OneServer, EmittersAreDone, Serving, Alone
<1>5. EffectsOncePerCapture'
  BY <1>3 DEF CaptureInv, EffectsOncePerCapture
<1>6. AnnouncedAfterEffects'
  <2> SUFFICES ASSUME NEW q \in Payments, emitted'[q]["paid"] > 0
               PROVE  \A e \in Effects \ Swallowed : applied[q][e] = 1
    BY <1>3 DEF AnnouncedAfterEffects
  <2>1. CASE q = p /\ to = "paid"
    BY <2>1 DEF Emit, CaptureInv, EmittersAreDone, Must
  <2>2. CASE emitted'[q]["paid"] = emitted[q]["paid"]
    BY <2>2 DEF CaptureInv, AnnouncedAfterEffects
  <2>3. QED
    BY <1>2, <2>1, <2>2
<1>7. QED
  BY <1>4, <1>5, <1>6 DEF CaptureInv

LEMMA ThrowServes ==
  ASSUME TypeInv, CaptureInv, NEW h \in Handlers, Throw(h)
  PROVE  CaptureInv'
<1> DEFINE p == job[h].payment
           t == Turn(h)
<1>1. Alone(h) /\ pc'[h] \in {"idle", "next"}
  BY ReturnQuiet DEF Throw
<1>2. UNCHANGED <<status, emitted>>
  BY DEF Throw, rows
<1>3. CASE UNCHANGED applied
  BY <1>1, <1>2, <1>3, Quiet
<1>4. CASE pc[h] = "effects" /\ CarryOut(h)
  <2>1. p \in Payments /\ t \in job[h].todo /\ t \in Effects
    BY <1>4, TurnIsLeft DEF TypeInv, HandlersOK, Sound, Job
  <2>2. status[p] \in Captured /\ applied[p][t] = 0
    BY <1>4, <2>1 DEF CaptureInv, ServersHoldTheRest, Serving
  <2>3. applied' = [applied EXCEPT ![p][t] = 1]
    BY <1>4, <2>1, <2>2 DEF CarryOut, TypeInv, TypeOK
  <2>4. \A q \in Payments, e \in Effects :
           applied'[q][e] = IF q = p /\ e = t THEN 1 ELSE applied[q][e]
    BY <2>1, <2>3 DEF TypeInv, TypeOK
  <2>5. \A g \in Handlers \ {h} : Serving(g) => job[g].payment # p
    BY <1>4, <2>1 DEF CaptureInv, OneServer, Serving
  <2>6. ServersHoldTheRest'
    <3> SUFFICES ASSUME NEW g \in Handlers, Serving(g)'
                 PROVE  /\ status[job'[g].payment] \in Captured
                        /\ \A e \in job'[g].todo : applied'[job'[g].payment][e] = 0
                        /\ \A e \in Must \ job'[g].todo : applied'[job'[g].payment][e] = 1
      BY <1>2 DEF ServersHoldTheRest
    <3>1. g # h /\ Serving(g) /\ job'[g] = job[g] /\ job[g].payment # p
          /\ job[g].payment \in Payments /\ job[g].todo \subseteq Effects
      BY <1>1, <2>5 DEF Serving, Alone, TypeInv, HandlersOK, Sound, Job
    <3>2. QED
      BY <2>4, <3>1 DEF CaptureInv, ServersHoldTheRest, Must
  <2>7. OneServer'
    BY <1>1 DEF CaptureInv, OneServer, Serving, Alone
  <2>8. EmittersAreDone'
    <3> SUFFICES ASSUME NEW g \in Handlers, pc'[g] = "emit", job'[g].to = "paid"
                 PROVE  \A e \in Must : applied'[job'[g].payment][e] = 1
      BY DEF EmittersAreDone
    <3>1. pc[g] = "emit" /\ job'[g] = job[g] /\ job[g].payment \in Payments
      BY <1>1 DEF Alone, TypeInv, HandlersOK, Sound
    <3>2. QED
      BY <2>4, <3>1 DEF CaptureInv, EmittersAreDone, Must
  <2>9. EffectsOncePerCapture' /\ AnnouncedAfterEffects'
    BY <1>2, <2>2, <2>4 DEF CaptureInv, EffectsOncePerCapture, AnnouncedAfterEffects
  <2>10. QED
    BY <2>6, <2>7, <2>8, <2>9 DEF CaptureInv
<1>5. QED
  BY <1>3, <1>4 DEF Throw

LEMMA CaptureNext == TypeInv /\ CaptureInv /\ [Next]_vars => CaptureInv'
<1> SUFFICES ASSUME TypeInv, CaptureInv, [Next]_vars PROVE CaptureInv'
  OBVIOUS
<1>1. ASSUME NEW p \in Payments, PassExpiry(p) \/ Ingest(p) PROVE CaptureInv'
  BY <1>1 DEF PassExpiry, Ingest, rows, CaptureInv, ServersHoldTheRest, OneServer,
              EmittersAreDone, Serving, EffectsOncePerCapture, AnnouncedAfterEffects
<1>2. ASSUME NEW h \in ApiHandlers, NEW p \in Payments, Request(h, p)
      PROVE  CaptureInv'
  <2>1. h \in Handlers
    BY DEF Handlers
  <2>2. Alone(h) /\ pc'[h] \notin {"effects", "emit"}
    BY <1>2, <2>1 DEF Request, Create, Cancel, Simulate, ConfirmPayment, ConfirmAlreadyPaid,
             ConfirmDetection, LazyExpiry, FullRefund, Call, Goto, Alone, TypeInv, HandlersOK
  <2>3. \A q \in Payments : status[q] \in Captured => status'[q] \in Captured
    BY <1>2 DEF Request, Create, Cancel, Simulate, ConfirmPayment, ConfirmAlreadyPaid,
                ConfirmDetection, LazyExpiry, FullRefund, rows, TypeInv, TypeOK, Captured, Absent
  <2>4. UNCHANGED <<applied, emitted>>
    BY <1>2 DEF Request, Create, Cancel, Simulate, ConfirmPayment, ConfirmAlreadyPaid,
                ConfirmDetection, LazyExpiry, FullRefund
  <2>5. QED
    BY <2>1, <2>2, <2>3, <2>4, Quiet
<1>3. ASSUME NEW w \in Workers, ExpirySweep(w) \/ StatusPoll(w)
      PROVE  CaptureInv'
  <2>1. w \in Handlers
    BY DEF Handlers
  <2>2. Alone(w) /\ pc'[w] \notin {"effects", "emit"} /\ UNCHANGED <<status, applied, emitted>>
    BY <1>3, <2>1 DEF ExpirySweep, StatusPoll, Start, Goto, rows, Alone, TypeInv, HandlersOK
  <2>3. QED
    BY <2>1, <2>2, Quiet
<1>4. ASSUME NEW h \in Handlers, EmitCreated(h)
      PROVE  CaptureInv'
  <2>1. Alone(h) /\ pc'[h] \notin {"effects", "emit"}
    BY <1>4, ReturnQuiet DEF EmitCreated, Goto, Alone, TypeInv, HandlersOK
  <2>2. UNCHANGED <<status, applied>> /\ \A q \in Payments : emitted'[q]["paid"] = emitted[q]["paid"]
    BY <1>4, StatusTypes DEF EmitCreated, rows, TypeInv, TypeOK
  <2>3. QED
    BY <2>1, <2>2, Quiet
<1>5. ASSUME NEW h \in Handlers, NextInBatch(h) \/ PollAnswer(h) \/ TxRead(h) \/ TxLost(h) \/ Crash(h)
      PROVE  CaptureInv'
  <2>1. Alone(h) /\ pc'[h] \notin {"effects", "emit"}
    BY <1>5, ReturnQuiet DEF NextInBatch, PollAnswer, TxRead, TxLost, Crash, Answer, Goto, Alone,
                             TypeInv, HandlersOK
  <2>2. UNCHANGED <<status, applied, emitted>>
    BY <1>5 DEF NextInBatch, PollAnswer, TxRead, TxLost, Crash, rows
  <2>3. QED
    BY <2>1, <2>2, Quiet
<1>6. ASSUME NEW h \in Handlers, ApplyEffect(h) \/ EffectSwallowed(h)
      PROVE  CaptureInv'
  BY <1>6, AdvanceServes DEF ApplyEffect, EffectSwallowed, rows
<1>7. CASE UNCHANGED vars
  BY <1>7 DEF vars, CaptureInv, ServersHoldTheRest, OneServer, EmittersAreDone, Serving,
              EffectsOncePerCapture, AnnouncedAfterEffects
<1>8. QED
  BY <1>1, <1>2, <1>3, <1>4, <1>5, <1>6, <1>7, TxWriteServes, EmitServes, ThrowServes
     DEF Next, Continue

LEMMA Invariance == Spec => [](TypeInv /\ CaptureInv)
<1>1. Init => TypeInv /\ CaptureInv
  BY TypeInit, CaptureInit
<1>2. TypeInv /\ CaptureInv /\ [Next]_vars => (TypeInv /\ CaptureInv)'
  BY TypeNext, CaptureNext
<1>3. QED
  BY <1>1, <1>2, PTL DEF Spec

(* However many requests and jobs see the payer's money, each consequence  *)
(* of the capture is carried out at most once.                             *)
THEOREM CaptureOnce == Spec => []EffectsOncePerCapture
<1>1. CaptureInv => EffectsOncePerCapture
  BY DEF CaptureInv
<1>2. QED
  BY <1>1, Invariance, PTL

(* payment.completed follows every consequence whose error is not swallowed. *)
THEOREM CompletedComesLast == Spec => []AnnouncedAfterEffects
<1>1. CaptureInv => AnnouncedAfterEffects
  BY DEF CaptureInv
<1>2. QED
  BY <1>1, Invariance, PTL

-----------------------------------------------------------------------------
(* A cancellation that was answered stands.  A cancel request that is about *)
(* to answer works on a cancelled payment, and no path leads out of         *)
(* cancelled; one that lost its race answers the open status it had read.   *)
CancelsLanded ==
  \A h \in Handlers :
     pc[h] = "emit" /\ job[h].op = "cancel" => status[job[h].payment] = "cancelled"

CancelInv == CancelMeansCancelled /\ CancelsLanded

StaysCancelled ==
  \A p \in Payments : status[p] = "cancelled" => status'[p] = "cancelled"

LEMMA CancelInit == Init => CancelInv
BY DEF Init, CancelInv, CancelMeansCancelled, CancelsLanded

(* A handler goes on, without an answer and not to its event.              *)
LEMMA CancelQuiet ==
  ASSUME TypeInv, CancelInv, NEW h \in Handlers, Alone(h), pc'[h] # "emit",
         StaysCancelled, UNCHANGED told
  PROVE  CancelInv'
<1>1. CancelMeansCancelled'
  BY DEF CancelInv, CancelMeansCancelled, StaysCancelled
<1>2. CancelsLanded'
  <2> SUFFICES ASSUME NEW g \in Handlers, pc'[g] = "emit", job'[g].op = "cancel"
               PROVE  status'[job'[g].payment] = "cancelled"
    BY DEF CancelsLanded
  <2>1. pc[g] = "emit" /\ job'[g] = job[g]
    BY DEF Alone
  <2>2. job[g].payment \in Payments
    BY <2>1 DEF TypeInv, HandlersOK, Sound
  <2>3. QED
    BY <2>1, <2>2 DEF CancelInv, CancelsLanded, StaysCancelled
<1>3. QED
  BY <1>1, <1>2 DEF CancelInv

(* A handler answers: what a cancel request says is open or is so.         *)
LEMMA CancelAnswer ==
  ASSUME TypeInv, CancelInv, NEW h \in Handlers, NEW st, Answer(h, st), UNCHANGED status,
         job[h].payment \in Payments,
         job[h].op = "cancel" =>
           st \in Open \/ (st = "cancelled" /\ status[job[h].payment] = "cancelled")
  PROVE  CancelInv'
<1> DEFINE p == job[h].payment
<1>1. Alone(h) /\ pc'[h] \in {"idle", "next"}
  BY ReturnQuiet DEF Answer
<1>2. CancelsLanded'
  BY <1>1 DEF CancelInv, CancelsLanded, Alone
<1>3. \A q \in Payments : "cancelled" \in told'[q] =>
         "cancelled" \in told[q] \/ (q = p /\ job[h].op = "cancel" /\ st = "cancelled")
  <2>1. CASE job[h].op = "cancel"
    <3>1. told' = [told EXCEPT ![p] = @ \cup ({st} \ Open)]
      BY <2>1 DEF Answer
    <3>2. QED
      BY <2>1, <3>1 DEF TypeInv, TypeOK
  <2>2. CASE job[h].op \in {"confirm", "telegram"}
    <3>1. told' = [told EXCEPT ![p] = @ \cup {"paid"}]
      BY <2>2 DEF Answer
    <3>2. QED
      BY <3>1 DEF TypeInv, TypeOK
  <2>3. CASE job[h].op \notin {"cancel", "confirm", "telegram"}
    <3>1. told' = [told EXCEPT ![p] = @ \cup {}]
      BY <2>3 DEF Answer
    <3>2. QED
      BY <3>1 DEF TypeInv, TypeOK
  <2>4. QED
    BY <2>1, <2>2, <2>3
<1>4. CancelMeansCancelled'
  BY <1>3 DEF CancelInv, CancelMeansCancelled, Open
<1>5. QED
  BY <1>2, <1>4 DEF CancelInv

LEMMA CancelNext == TypeInv /\ CancelInv /\ [Next]_vars => CancelInv'
<1> SUFFICES ASSUME TypeInv, CancelInv, [Next]_vars PROVE CancelInv'
  OBVIOUS
<1>1. ASSUME NEW p \in Payments, PassExpiry(p) \/ Ingest(p) PROVE CancelInv'
  BY <1>1 DEF PassExpiry, Ingest, rows, CancelInv, CancelMeansCancelled, CancelsLanded
<1>2. ASSUME NEW h \in ApiHandlers, NEW p \in Payments, Request(h, p) PROVE CancelInv'
  <2>1. h \in Handlers
    BY DEF Handlers
  <2>2. Alone(h) /\ pc'[h] # "emit"
    BY <1>2, <2>1 DEF Request, Create, Cancel, Simulate, ConfirmPayment, ConfirmAlreadyPaid,
             ConfirmDetection, LazyExpiry, FullRefund, Call, Goto, Alone, TypeInv, HandlersOK
  <2>3. StaysCancelled
    BY <1>2 DEF Request, Create, Cancel, Simulate, ConfirmPayment, ConfirmAlreadyPaid,
                ConfirmDetection, LazyExpiry, FullRefund, rows, TypeInv, TypeOK, Absent,
                StaysCancelled
  <2>4. CASE ConfirmAlreadyPaid(h, p)
    <3>1. told' = [told EXCEPT ![p] = @ \cup {"paid"}] /\ UNCHANGED <<status, pc, job>>
      BY <2>4 DEF ConfirmAlreadyPaid, rows
    <3>2. \A q \in Payments : "cancelled" \in told'[q] => "cancelled" \in told[q]
      BY <3>1 DEF TypeInv, TypeOK
    <3>3. QED
      BY <3>1, <3>2 DEF CancelInv, CancelMeansCancelled, CancelsLanded
  <2>5. CASE UNCHANGED told
    BY <2>1, <2>2, <2>3, <2>5, CancelQuiet
  <2>6. QED
    BY <1>2, <2>4, <2>5 DEF Request, Create, Cancel, Simulate, ConfirmPayment,
                            ConfirmDetection, LazyExpiry, FullRefund
<1>3. ASSUME NEW w \in Workers, ExpirySweep(w) \/ StatusPoll(w) PROVE CancelInv'
  <2>1. w \in Handlers
    BY DEF Handlers
  <2>2. Alone(w) /\ pc'[w] # "emit" /\ UNCHANGED <<status, told>>
    BY <1>3, <2>1 DEF ExpirySweep, StatusPoll, Start, Goto, rows, Alone, TypeInv, HandlersOK
  <2>3. QED
    BY <2>1, <2>2, CancelQuiet DEF StaysCancelled
<1>4. ASSUME NEW h \in Handlers,
             EmitCreated(h) \/ NextInBatch(h) \/ PollAnswer(h) \/ Throw(h) \/ Crash(h)
      PROVE  CancelInv'
  <2>1. Alone(h) /\ pc'[h] # "emit"
    BY <1>4, ReturnQuiet DEF EmitCreated, NextInBatch, PollAnswer, Throw, Crash, Goto, Alone,
                             TypeInv, HandlersOK
  <2>2. UNCHANGED <<status, told>>
    BY <1>4 DEF EmitCreated, NextInBatch, PollAnswer, Throw, Crash, rows
  <2>3. QED
    BY <2>1, <2>2, CancelQuiet DEF StaysCancelled
<1>5. ASSUME NEW h \in Handlers, TxRead(h) PROVE CancelInv'
  <2>1. job[h].payment \in Payments /\ (job[h].op = "cancel" => job[h].to = "cancelled")
    BY <1>5 DEF TxRead, TypeInv, HandlersOK, Sound
  <2>2. CASE status[job[h].payment] = job[h].to /\ Answer(h, status[job[h].payment])
    BY <1>5, <2>1, <2>2, CancelAnswer DEF TxRead, rows
  <2>3. CASE UNCHANGED told /\ (Goto(h, "write") \/ Return(h))
    <3>1. Alone(h) /\ pc'[h] # "emit"
      BY <1>5, <2>3, ReturnQuiet DEF TxRead, Answer, Goto, Alone, TypeInv, HandlersOK
    <3>2. QED
      BY <1>5, <2>3, <3>1, CancelQuiet DEF TxRead, rows, StaysCancelled
  <2>4. QED
    BY <1>5, <2>2, <2>3 DEF TxRead
<1>6. ASSUME NEW h \in Handlers, TxLost(h) PROVE CancelInv'
  <2>1. canTransition(job[h].seen, job[h].to) /\ job[h].payment \in Payments
        /\ (job[h].op = "cancel" => job[h].to = "cancelled")
    BY <1>6 DEF TxLost, TypeInv, HandlersOK, Sound
  <2>2. job[h].op = "cancel" => job[h].seen \in Open
    BY <2>1, Transitions
  <2>3. QED
    BY <1>6, <2>1, <2>2, CancelAnswer DEF TxLost, rows
<1>7. ASSUME NEW h \in Handlers, TxWrite(h) PROVE CancelInv'
  <2> DEFINE p == job[h].payment
             to == job[h].to
  <2>1. /\ p \in Payments /\ canTransition(status[p], to)
        /\ status' = [status EXCEPT ![p] = to]
        /\ Alone(h) /\ UNCHANGED told
        /\ job'[h].payment = p /\ job'[h].op = job[h].op
        /\ job[h].op = "cancel" => to = "cancelled"
    BY <1>7 DEF TxWrite, Goto, Alone, TypeInv, HandlersOK, Sound, Job
  <2>2. StaysCancelled
    BY <2>1, Transitions DEF StaysCancelled, TypeInv, TypeOK
  <2>3. CancelMeansCancelled'
    BY <2>1, <2>2 DEF CancelInv, CancelMeansCancelled, StaysCancelled
  <2>4. CancelsLanded'
    <3> SUFFICES ASSUME NEW g \in Handlers, pc'[g] = "emit", job'[g].op = "cancel"
                 PROVE  status'[job'[g].payment] = "cancelled"
      BY DEF CancelsLanded
    <3>1. CASE g = h
      BY <2>1, <3>1 DEF TypeInv, TypeOK
    <3>2. CASE g # h
      <4>1. pc[g] = "emit" /\ job'[g] = job[g]
        BY <2>1, <3>2 DEF Alone
      <4>2. job[g].payment \in Payments
        BY <4>1 DEF TypeInv, HandlersOK, Sound
      <4>3. QED
        BY <2>2, <4>1, <4>2 DEF CancelInv, CancelsLanded, StaysCancelled
    <3>3. QED
      BY <3>1, <3>2
  <2>5. QED
    BY <2>3, <2>4 DEF CancelInv
<1>8. ASSUME NEW h \in Handlers, ApplyEffect(h) \/ EffectSwallowed(h) PROVE CancelInv'
  <2>1. pc[h] = "effects" /\ Advance(h) /\ UNCHANGED <<status, told>>
    BY <1>8 DEF ApplyEffect, EffectSwallowed, rows
  <2>2. Alone(h) /\ job'[h] = [job[h] EXCEPT !.todo = @ \ {Turn(h)}]
    BY <2>1, AdvanceMoves
  <2>3. job[h] \in Job /\ job[h].to = "paid" /\ job[h].op # "cancel"
    BY <2>1 DEF TypeInv, HandlersOK, Sound
  <2>4. job'[h].op # "cancel"
    BY <2>2, <2>3 DEF Job
  <2>5. CancelsLanded'
    BY <2>1, <2>2, <2>4 DEF CancelInv, CancelsLanded, Alone
  <2>6. QED
    BY <2>1, <2>5 DEF CancelInv, CancelMeansCancelled
<1>9. ASSUME NEW h \in Handlers, Emit(h) PROVE CancelInv'
  <2>1. job[h].payment \in Payments /\ (job[h].op = "cancel" => job[h].to = "cancelled")
    BY <1>9 DEF Emit, TypeInv, HandlersOK, Sound
  <2>2. job[h].op = "cancel" => status[job[h].payment] = "cancelled"
    BY <1>9 DEF Emit, CancelInv, CancelsLanded
  <2>3. QED
    BY <1>9, <2>1, <2>2, CancelAnswer DEF Emit, rows
<1>10. CASE UNCHANGED vars
  BY <1>10 DEF vars, CancelInv, CancelMeansCancelled, CancelsLanded
<1>11. QED
  BY <1>1, <1>2, <1>3, <1>4, <1>5, <1>6, <1>7, <1>8, <1>9, <1>10 DEF Next, Continue

(* A merchant who was answered "cancelled" is never charged afterwards,    *)
(* whichever of the paths that see the payer's money races the request.    *)
THEOREM CancelledForGood == Spec => []CancelMeansCancelled
<1>1. CancelInv => CancelMeansCancelled
  BY DEF CancelInv
<1>2. Init => TypeInv /\ CancelInv
  BY TypeInit, CancelInit
<1>3. TypeInv /\ CancelInv /\ [Next]_vars => (TypeInv /\ CancelInv)'
  BY TypeNext, CancelNext
<1>4. QED
  BY <1>1, <1>2, <1>3, PTL DEF Spec

-----------------------------------------------------------------------------
(* Payments implements PaymentMachine: every step creates a payment, moves *)
(* one along the table, carries out one consequence, or changes nothing    *)
(* that the machine shows.                                                 *)
LEMMA SameTables ==
  /\ Machine!PaymentStatus = PaymentStatus
  /\ Machine!Absent = Absent
  /\ Machine!Captured = Captured
  /\ \A from, to : Machine!canTransition(from, to) <=> canTransition(from, to)
BY DEF Machine!PaymentStatus, PaymentStatus, Machine!Absent, Absent, Machine!Captured, Captured,
       Machine!canTransition, canTransition, Machine!PAYMENT_TRANSITIONS, PAYMENT_TRANSITIONS

LEMMA InitRefines == Init => Machine!Init
BY SameTables DEF Init, Machine!Init

LEMMA StepRefines == TypeInv /\ CaptureInv /\ [Next]_vars => [Machine!Next]_(Machine!vars)
<1> SUFFICES ASSUME TypeInv, CaptureInv, [Next]_vars
             PROVE  Machine!Next \/ UNCHANGED <<status, applied>>
  BY DEF Machine!vars
<1>1. ASSUME NEW h \in ApiHandlers, NEW p \in Payments, NEW covered \in BOOLEAN, Create(h, p, covered)
      PROVE  Machine!Next
  BY <1>1, SameTables DEF Create, Machine!Next, Machine!Create
<1>2. ASSUME NEW h \in Handlers, TxWrite(h)
      PROVE  Machine!Next
  <2> DEFINE p == job[h].payment
             to == job[h].to
  <2>1. p \in Payments /\ canTransition(status[p], to) /\ status' = [status EXCEPT ![p] = to]
        /\ UNCHANGED applied
    BY <1>2 DEF TxWrite, TypeInv, HandlersOK, Sound
  <2>2. to \in PaymentStatus /\ Machine!Move(p, to)
    BY <2>1, Transitions, SameTables DEF Machine!Move
  <2>3. QED
    BY <2>1, <2>2, SameTables DEF Machine!Next
<1>3. ASSUME NEW h \in Handlers, pc[h] = "effects", CarryOut(h), UNCHANGED status
      PROVE  Machine!Next
  <2> DEFINE p == job[h].payment
             t == Turn(h)
  <2>1. p \in Payments /\ t \in job[h].todo /\ t \in Effects
    BY <1>3, TurnIsLeft DEF TypeInv, HandlersOK, Sound, Job
  <2>2. status[p] \in Captured /\ applied[p][t] = 0
    BY <1>3, <2>1 DEF CaptureInv, ServersHoldTheRest, Serving
  <2>3. applied' = [applied EXCEPT ![p][t] = 1]
    BY <1>3, <2>1, <2>2 DEF CarryOut, TypeInv, TypeOK
  <2>4. Machine!Perform(p, t)
    BY <1>3, <2>2, <2>3, SameTables DEF Machine!Perform
  <2>5. QED
    BY <2>1, <2>4 DEF Machine!Next
<1>4. ASSUME NEW h \in Handlers, ApplyEffect(h) PROVE Machine!Next
  BY <1>3, <1>4 DEF ApplyEffect, rows
<1>5. ASSUME NEW h \in Handlers, Throw(h) PROVE Machine!Next \/ UNCHANGED <<status, applied>>
  BY <1>3, <1>5 DEF Throw, rows
<1>6. ASSUME NEW p \in Payments, PassExpiry(p) \/ Ingest(p) PROVE UNCHANGED <<status, applied>>
  BY <1>6 DEF PassExpiry, Ingest, rows
<1>7. ASSUME NEW h \in ApiHandlers, NEW p \in Payments, Request(h, p)
      PROVE  Machine!Next \/ UNCHANGED <<status, applied>>
  BY <1>1, <1>7 DEF Request, Cancel, Simulate, ConfirmPayment, ConfirmAlreadyPaid,
                    ConfirmDetection, LazyExpiry, FullRefund, rows
<1>8. ASSUME NEW w \in Workers, ExpirySweep(w) \/ StatusPoll(w) PROVE UNCHANGED <<status, applied>>
  BY <1>8 DEF ExpirySweep, StatusPoll, Start, rows
<1>9. ASSUME NEW h \in Handlers,
             EmitCreated(h) \/ NextInBatch(h) \/ PollAnswer(h) \/ TxRead(h) \/ TxLost(h)
               \/ Emit(h) \/ EffectSwallowed(h) \/ Crash(h)
      PROVE  UNCHANGED <<status, applied>>
  BY <1>9 DEF EmitCreated, NextInBatch, PollAnswer, TxRead, TxLost, Emit, EffectSwallowed, Crash, rows
<1>10. CASE UNCHANGED vars
  BY <1>10 DEF vars
<1>11. QED
  BY <1>2, <1>4, <1>5, <1>6, <1>7, <1>8, <1>9, <1>10 DEF Next, Continue

(* transition() and its callers, interleaved and failing, implement the    *)
(* machine in which every operation is atomic.                             *)
THEOREM Refinement == Spec => ImplementsMachine
<1>1. QED
  BY InitRefines, StepRefines, Invariance, PTL DEF Spec, ImplementsMachine, Machine!Spec
=============================================================================
