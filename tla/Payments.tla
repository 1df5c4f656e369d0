------------------------------- MODULE Payments -------------------------------
(***************************************************************************)
(* PaymentsService and its callers.  Every status change goes through      *)
(* transition(): a transaction that reads the row, checks the table and    *)
(* updates WHERE status = <what was read>, then the consequences of a      *)
(* capture one after the other, then the webhook event.  Requests of the   *)
(* API, of the dashboard and of Telegram, and the jobs of the worker, run  *)
(* at the same time: each is a handler with a program counter, and any     *)
(* handler may run between two awaits of another.                          *)
(*                                                                         *)
(* The guarded update and the history row commit together and hold the     *)
(* row lock until then, so they are one step; under READ COMMITTED nobody  *)
(* sees the row in between.                                                *)
(***************************************************************************)
EXTENDS Naturals, FiniteSets, Sequences, PaymentStates

CONSTANTS
  Payments,      \* the payments that may be created
  LivePayments,  \* those created with a live key, which the poller follows
  ApiHandlers,   \* requests in flight in the API
  Workers,       \* maintenance jobs in flight in the worker
  Effects,       \* the consequences of a capture that the store has set up
  MaxFaults      \* bound on crashes and on calls that fail

ASSUME PaymentsAssumption ==
  /\ LivePayments \subseteq Payments
  /\ ApiHandlers \cap Workers = {}
  /\ MaxFaults \in Nat
  /\ Absent \notin Payments
  /\ Effects # {}
  /\ Effects \subseteq 1 .. 10

Handlers == ApiHandlers \cup Workers

(* The consequences of a capture, numbered in the order transition() awaits *)
(* them.  A store without coupons, gift cards, a loyalty programme and so  *)
(* on has fewer of them: the service returns at once.                      *)
Quota      == 1
Coupon     == 2
GiftCard   == 3
Loyalty    == 4
Referral   == 5
Commission == 6
Games      == 7
Risk       == 8
Receipt    == 9
LedgerPost == 10

(* These catch their own errors, so transition() goes on without them.     *)
(* An error in any of the others escapes and ends the handler.             *)
Swallowed == {Coupon, Risk, Receipt, LedgerPost}

Batch == {"sweep", "poll"}
Ops   == Batch \cup {"none", "create", "cancel", "simulate", "confirm",
                     "telegram", "lazy", "refund"}
Pcs   == {"idle", "created", "next", "poll", "read", "write", "effects", "emit"}

VARIABLES
  status,    \* payment.status, "none" before the row exists
  history,   \* history[p]: the toStatus column of PaymentStatusHistory
  overdue,   \* payments whose expiresAt has passed
  repaid,    \* payments whose refundedAmount has reached the amount
  detected,  \* payments matched by a Telegram bank alert
  applied,   \* applied[p][e]: how many times consequence e was carried out
  emitted,   \* emitted[p][s]: how many webhook events announced status s of p
  told,      \* told[p]: the final statuses the merchant was answered for p
  pc,        \* where each handler is
  job,       \* what each handler is working on
  faults     \* crashes and failures so far

rows  == <<status, history>>
world == <<overdue, repaid, detected>>
vars  == <<status, history, overdue, repaid, detected, applied, emitted, told,
           pc, job, faults>>

NoJob == [op |-> "none", payment |-> Absent, to |-> Absent, seen |-> Absent,
          todo |-> {}, rest |-> {}]

Job == [op : Ops, payment : Payments \cup {Absent}, to : RowStatus,
        seen : RowStatus, todo : SUBSET Effects, rest : SUBSET Payments]

Init ==
  /\ status   = [p \in Payments |-> Absent]
  /\ history  = [p \in Payments |-> <<>>]
  /\ overdue  = {}
  /\ repaid   = {}
  /\ detected = {}
  /\ applied  = [p \in Payments |-> [e \in Effects |-> 0]]
  /\ emitted  = [p \in Payments |-> [s \in PaymentStatus |-> 0]]
  /\ told     = [p \in Payments |-> {}]
  /\ pc       = [h \in Handlers |-> "idle"]
  /\ job      = [h \in Handlers |-> NoJob]
  /\ faults   = 0

-----------------------------------------------------------------------------
(* How a handler starts, goes on and stops.                                *)

Goto(h, l) == pc' = [pc EXCEPT ![h] = l]

(* h calls transition(p, to, ...).                                         *)
Call(h, op, p, to) ==
  /\ pc[h] = "idle"
  /\ Goto(h, "read")
  /\ job' = [job EXCEPT ![h] = [NoJob EXCEPT !.op = op, !.payment = p, !.to = to]]

(* A request ends; a batch job catches the error and takes the next one.   *)
Return(h) ==
  IF job[h].op \in Batch
    THEN /\ Goto(h, "next")
         /\ job' = [job EXCEPT ![h].payment = Absent, ![h].seen = Absent, ![h].todo = {}]
    ELSE /\ Goto(h, "idle")
         /\ job' = [job EXCEPT ![h] = NoJob]

(* transition() returned a row with status st.  cancel() serialises that   *)
(* row; the dashboard's confirm answers "paid" and Telegram's confirm sets *)
(* detection.confirmed, both without looking at it.  An answer with an open *)
(* status promises nothing and is not kept.                                *)
Answer(h, st) ==
  LET said == CASE job[h].op = "cancel" -> {st} \ Open
                [] job[h].op \in {"confirm", "telegram"} -> {"paid"}
                [] OTHER -> {}
  IN  /\ told' = [told EXCEPT ![job[h].payment] = @ \cup said]
      /\ Return(h)

-----------------------------------------------------------------------------
(* The world outside.                                                      *)

PassExpiry(p) ==
  /\ status[p] # Absent
  /\ p \notin overdue
  /\ overdue' = overdue \cup {p}
  /\ UNCHANGED <<rows, repaid, detected, applied, emitted, told, pc, job, faults>>

(* A bank alert matches exactly one open payment and is stored with it.    *)
Ingest(p) ==
  /\ status[p] \in Open
  /\ p \notin detected
  /\ detected' = detected \cup {p}
  /\ UNCHANGED <<rows, overdue, repaid, applied, emitted, told, pc, job, faults>>

-----------------------------------------------------------------------------
(* The operations, up to their call of transition().                       *)

(* The row, its first history row and the idempotency record commit in one *)
(* transaction.  A gift card that covers everything (covered) makes the    *)
(* same request capture the payment after the created event.               *)
Create(h, p, covered) ==
  /\ pc[h] = "idle"
  /\ status[p] = Absent
  /\ status' = [status EXCEPT ![p] = "pending"]
  /\ history' = [history EXCEPT ![p] = Append(@, "pending")]
  /\ job' = [job EXCEPT ![h] =
               [NoJob EXCEPT !.op = "create", !.payment = p,
                             !.to = IF covered THEN "paid" ELSE Absent]]
  /\ Goto(h, "created")
  /\ UNCHANGED <<world, applied, emitted, told, faults>>

EmitCreated(h) ==
  /\ pc[h] = "created"
  /\ emitted' = [emitted EXCEPT ![job[h].payment]["pending"] = @ + 1]
  /\ IF job[h].to = "paid" THEN Goto(h, "read") /\ UNCHANGED job ELSE Return(h)
  /\ UNCHANGED <<rows, world, applied, told, faults>>

Cancel(h, p) ==
  /\ canTransition(status[p], "cancelled")
  /\ Call(h, "cancel", p, "cancelled")
  /\ UNCHANGED <<rows, world, applied, emitted, told, faults>>

Simulate(h, p, to) ==
  /\ canTransition(status[p], to)
  /\ Call(h, "simulate", p, to)
  /\ UNCHANGED <<rows, world, applied, emitted, told, faults>>

(* The dashboard's manual confirmation.                                    *)
ConfirmPayment(h, p) ==
  /\ canTransition(status[p], "paid")
  /\ Call(h, "confirm", p, "paid")
  /\ UNCHANGED <<rows, world, applied, emitted, told, faults>>

ConfirmAlreadyPaid(h, p) ==
  /\ pc[h] = "idle"
  /\ status[p] = "paid"
  /\ told' = [told EXCEPT ![p] = @ \cup {"paid"}]
  /\ UNCHANGED <<rows, world, applied, emitted, pc, job, faults>>

(* The cashier confirms a detection, whatever became of the payment since. *)
ConfirmDetection(h, p) ==
  /\ p \in detected
  /\ Call(h, "telegram", p, "paid")
  /\ UNCHANGED <<rows, world, applied, emitted, told, faults>>

(* retrieve() and publicView() expire a payment they find overdue.         *)
LazyExpiry(h, p) ==
  /\ status[p] \in Open
  /\ p \in overdue
  /\ Call(h, "lazy", p, "expired")
  /\ UNCHANGED <<rows, world, applied, emitted, told, faults>>

(* refund(): its transaction has brought refundedAmount up to the amount   *)
(* (module Refunds has the detail), so it calls transition("refunded").    *)
FullRefund(h, p) ==
  /\ status[p] = "paid"
  /\ p \notin repaid
  /\ repaid' = repaid \cup {p}
  /\ Call(h, "refund", p, "refunded")
  /\ UNCHANGED <<rows, overdue, detected, applied, emitted, told, faults>>

(* The worker lists the payments of a batch, then handles one at a time.   *)
Start(w, op, to, due) ==
  /\ pc[w] = "idle"
  /\ due # {}
  /\ job' = [job EXCEPT ![w] = [NoJob EXCEPT !.op = op, !.to = to, !.rest = due]]
  /\ Goto(w, "next")
  /\ UNCHANGED <<rows, world, applied, emitted, told, faults>>

(* Mutant: the sweep selects pending payments only.                        *)
ExpirySweepPendingOnly(w) ==
  Start(w, "sweep", "expired", {p \in overdue : status[p] = "pending"})

ExpirySweep(w) ==
  Start(w, "sweep", "expired", {p \in overdue : status[p] \in Open})

StatusPoll(w) ==
  Start(w, "poll", Absent, {p \in LivePayments \ overdue : status[p] \in Open})

NextInBatch(w) ==
  /\ pc[w] = "next"
  /\ \/ /\ job[w].rest = {}
        /\ Goto(w, "idle")
        /\ job' = [job EXCEPT ![w] = NoJob]
     \/ \E p \in job[w].rest :
          /\ job' = [job EXCEPT ![w].payment = p, ![w].rest = @ \ {p}]
          /\ Goto(w, IF job[w].op = "sweep" THEN "read" ELSE "poll")
  /\ UNCHANGED <<rows, world, applied, emitted, told, faults>>

(* checkPaymentStatus: paid, failed, or nothing to do (also when it fails). *)
PollAnswer(w) ==
  /\ pc[w] = "poll"
  /\ \/ \E to \in {"paid", "failed"} :
          /\ job' = [job EXCEPT ![w].to = to]
          /\ Goto(w, "read")
     \/ Return(w)
  /\ UNCHANGED <<rows, world, applied, emitted, told, faults>>

-----------------------------------------------------------------------------
(* transition().                                                           *)

TxRead(h) ==
  LET from == status[job[h].payment]
      to   == job[h].to
  IN  /\ pc[h] = "read"
      /\ \/ /\ from = to                       \* already there: no-op
            /\ Answer(h, from)
         \/ /\ canTransition(from, to)
            /\ job' = [job EXCEPT ![h].seen = from]
            /\ Goto(h, "write")
            /\ UNCHANGED told
         \/ /\ from # to /\ ~canTransition(from, to)   \* illegal: throws
            /\ Return(h)
            /\ UNCHANGED told
      /\ UNCHANGED <<rows, world, applied, emitted, faults>>

(* Mutants: the update is not guarded by the status read before it; the    *)
(* event goes out without the consequences.                                *)
TxWriteUnguarded(h) ==
  LET p  == job[h].payment
      to == job[h].to
  IN  /\ pc[h] = "write"
      /\ status' = [status EXCEPT ![p] = to]
      /\ history' = [history EXCEPT ![p] = Append(@, to)]
      /\ job' = [job EXCEPT ![h].seen = Absent,
                            ![h].todo = IF to = "paid" THEN Effects ELSE {}]
      /\ Goto(h, IF to = "paid" THEN "effects" ELSE "emit")
      /\ UNCHANGED <<world, applied, emitted, told, faults>>

TxWriteThenEmit(h) ==
  LET p  == job[h].payment
      to == job[h].to
  IN  /\ pc[h] = "write"
      /\ status[p] = job[h].seen
      /\ status' = [status EXCEPT ![p] = to]
      /\ history' = [history EXCEPT ![p] = Append(@, to)]
      /\ job' = [job EXCEPT ![h].seen = Absent]
      /\ Goto(h, "emit")
      /\ UNCHANGED <<world, applied, emitted, told, faults>>

(* updateMany WHERE status = seen, with the history row, and commit.       *)
TxWrite(h) ==
  LET p  == job[h].payment
      to == job[h].to
  IN  /\ pc[h] = "write"
      /\ status[p] = job[h].seen
      /\ status' = [status EXCEPT ![p] = to]
      /\ history' = [history EXCEPT ![p] = Append(@, to)]
      /\ job' = [job EXCEPT ![h].seen = Absent,
                            ![h].todo = IF to = "paid" THEN Effects ELSE {}]
      /\ Goto(h, IF to = "paid" THEN "effects" ELSE "emit")
      /\ UNCHANGED <<world, applied, emitted, told, faults>>

(* The update matched no row: another transaction moved the payment.  The  *)
(* row read before is returned and nothing is emitted.                     *)
TxLost(h) ==
  /\ pc[h] = "write"
  /\ status[job[h].payment] # job[h].seen
  /\ Answer(h, job[h].seen)
  /\ UNCHANGED <<rows, world, applied, emitted, faults>>

(* The consequence whose turn it is.                                       *)
Turn(h) == CHOOSE e \in job[h].todo : \A f \in job[h].todo : e <= f

(* Mutant: the last consequence is forgotten.                              *)
AdvanceTooFar(h) ==
  LET left == {e \in job[h].todo : e # Turn(h) /\ e # LedgerPost}
  IN  /\ job' = [job EXCEPT ![h].todo = left]
      /\ Goto(h, IF left = {} THEN "emit" ELSE "effects")

(* On to the consequence after it, or to the event.                        *)
Advance(h) ==
  LET left == job[h].todo \ {Turn(h)}
  IN  /\ job' = [job EXCEPT ![h].todo = left]
      /\ Goto(h, IF left = {} THEN "emit" ELSE "effects")

CarryOut(h) == applied' = [applied EXCEPT ![job[h].payment][Turn(h)] = @ + 1]

ApplyEffect(h) ==
  /\ pc[h] = "effects"
  /\ CarryOut(h)
  /\ Advance(h)
  /\ UNCHANGED <<rows, world, emitted, told, faults>>

(* emitForStatus: the event of the status just reached.                    *)
Emit(h) ==
  /\ pc[h] = "emit"
  /\ emitted' = [emitted EXCEPT ![job[h].payment][job[h].to] = @ + 1]
  /\ Answer(h, job[h].to)
  /\ UNCHANGED <<rows, world, applied, faults>>

-----------------------------------------------------------------------------
(* Faults.                                                                 *)

Fault == faults < MaxFaults /\ faults' = faults + 1

(* A consequence that catches its own error is lost, and the next follows. *)
EffectSwallowed(h) ==
  /\ Fault
  /\ pc[h] = "effects"
  /\ Turn(h) \in Swallowed
  /\ Advance(h)
  /\ UNCHANGED <<rows, world, applied, emitted, told>>

(* An error that escapes, with the consequence carried out or not: the     *)
(* consequences after it and the event are never reached.                  *)
Throw(h) ==
  /\ Fault
  /\ pc[h] \notin {"idle", "next"}
  /\ pc[h] = "effects" => Turn(h) \notin Swallowed
  /\ \/ pc[h] = "effects" /\ CarryOut(h)
     \/ UNCHANGED applied
  /\ Return(h)
  /\ UNCHANGED <<rows, world, emitted, told>>

(* The process of h dies: nothing it had left to do is remembered.         *)
Crash(h) ==
  /\ Fault
  /\ pc[h] # "idle"
  /\ Goto(h, "idle")
  /\ job' = [job EXCEPT ![h] = NoJob]
  /\ UNCHANGED <<rows, world, applied, emitted, told>>

-----------------------------------------------------------------------------
Request(h, p) ==
  \/ \E covered \in BOOLEAN : Create(h, p, covered)
  \/ Cancel(h, p)
  \/ \E to \in {"scanned", "paid", "failed", "expired"} : Simulate(h, p, to)
  \/ ConfirmPayment(h, p)
  \/ ConfirmAlreadyPaid(h, p)
  \/ ConfirmDetection(h, p)
  \/ LazyExpiry(h, p)
  \/ FullRefund(h, p)

Continue(h) ==
  \/ EmitCreated(h)
  \/ NextInBatch(h)
  \/ PollAnswer(h)
  \/ TxRead(h)
  \/ TxWrite(h)
  \/ TxLost(h)
  \/ ApplyEffect(h)
  \/ Emit(h)

Next ==
  \/ \E p \in Payments : PassExpiry(p) \/ Ingest(p)
  \/ \E h \in ApiHandlers, p \in Payments : Request(h, p)
  \/ \E w \in Workers : ExpirySweep(w) \/ StatusPoll(w)
  \/ \E h \in Handlers : Continue(h) \/ EffectSwallowed(h) \/ Throw(h) \/ Crash(h)

Spec == Init /\ [][Next]_vars

(* A running handler is not suspended for ever (the event loop resumes     *)
(* every await), and the expiry sweep is a repeatable job that gets its    *)
(* turn whenever the worker keeps coming free.  Requests are not fair.     *)
FairSpec ==
  /\ Spec
  /\ \A h \in Handlers : WF_vars(Continue(h))
  /\ \A w \in Workers : SF_vars(ExpirySweep(w))

-----------------------------------------------------------------------------
(* Properties.                                                             *)

TypeOK ==
  /\ status \in [Payments -> RowStatus]
  /\ history \in [Payments -> Seq(PaymentStatus)]
  /\ overdue \subseteq Payments
  /\ repaid \subseteq Payments
  /\ detected \subseteq Payments
  /\ applied \in [Payments -> [Effects -> Nat]]
  /\ emitted \in [Payments -> [PaymentStatus -> Nat]]
  /\ told \in [Payments -> SUBSET PaymentStatus]
  /\ pc \in [Handlers -> Pcs]
  /\ job \in [Handlers -> Job]
  /\ faults \in 0 .. MaxFaults

(* However many handlers saw the payer's money (poller, cashier, dashboard,*)
(* gift card), each consequence of the capture is carried out at most once,*)
(* and only for a payment that was captured.                               *)
EffectsOncePerCapture ==
  \A p \in Payments, e \in Effects :
     /\ applied[p][e] <= 1
     /\ applied[p][e] > 0 => status[p] \in Captured

(* payment.completed goes out only when quota, gift card, points, referral,*)
(* commission and scratch card are all done: a merchant who reacts to the  *)
(* event finds them in place.                                              *)
AnnouncedAfterEffects ==
  \A p \in Payments :
     emitted[p]["paid"] > 0 =>
        \A e \in Effects \ Swallowed : applied[p][e] = 1

(* A merchant who was answered "cancelled" is never charged afterwards:    *)
(* the late money of a cancelled payment is refused by every path.         *)
CancelMeansCancelled ==
  \A p \in Payments : "cancelled" \in told[p] => status[p] = "cancelled"

(* The component implements the atomic machine of PaymentMachine.          *)
Machine == INSTANCE PaymentMachine WITH performed <- applied

ImplementsMachine == Machine!Spec

(* An overdue payment does not stay open: the sweep gets to it in spite of *)
(* crashes and failed calls, unless another operation moves it first.      *)
OverdueIsClosed ==
  \A p \in Payments :
     (p \in overdue /\ status[p] \in Open) ~> (status[p] \notin Open)

(* Unless a process dies or a call fails, a capture leads to all its       *)
(* consequences and to its event.                                          *)
CaptureIsServed ==
  \A p \in Payments :
     (status[p] = "paid") ~>
        \/ faults > 0
        \/ /\ \A e \in Effects : applied[p][e] = 1
           /\ emitted[p]["paid"] = 1

-----------------------------------------------------------------------------
(* What documents and comments say that the code does not keep.            *)

(* dashboard.service.ts:82: the operator "marks it received", and the      *)
(* answer is status "paid"; likewise a detection is marked confirmed.      *)
(* Both are said of a payment whose transition lost its race.              *)
ConfirmMeansCaptured ==
  \A p \in Payments : "paid" \in told[p] => status[p] \in Captured

(* docs/webhooks.md:82: at-least-once delivery.  When no handler is left   *)
(* that works on a captured payment, its payment.completed was emitted.    *)
CaptureIsAnnounced ==
  \A p \in Payments :
     /\ status[p] \in Captured
     /\ \A h \in Handlers : job[h].payment # p
     => emitted[p]["paid"] > 0
=============================================================================
