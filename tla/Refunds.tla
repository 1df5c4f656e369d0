------------------------------- MODULE Refunds -------------------------------
(***************************************************************************)
(* PaymentsService.refund: full and partial refunds of one paid payment,   *)
(* asked for by the API and the dashboard at once, retried under an        *)
(* idempotency key, and stopped by a crash or a failure at any await.      *)
(* Beside the payment: the provider, the rows of the Refund table, the     *)
(* ledger journals and the backfill that rebuilds them.                    *)
(***************************************************************************)
EXTENDS Naturals, Sequences

CONSTANTS
  Amount,     \* what was paid, in its smallest unit
  Keys,       \* idempotency keys
  NoKey,      \* a refund without a key, as the dashboard sends it
  Handlers,   \* refund requests in flight
  MaxFaults   \* bound on crashes and failed calls

ASSUME RefundsAssumption ==
  /\ Amount \in Nat \ {0}
  /\ NoKey \notin Keys
  /\ MaxFaults \in Nat

VARIABLES
  status,     \* Payment.status
  refunded,   \* Payment.refundedAmount
  rows,       \* the Refund table, in order of insertion
  records,    \* keys that have an idempotency record
  asked,      \* what the provider agreed to give back, up to Amount + 1
  journal,    \* journal[r]: posted for row r; journal[0]: by the backfill
  announced,  \* rows for which payment.refunded was emitted
  backfill,   \* refundedAmount as the backfill read it, 0 while it rests
  pc,
  request,
  faults

vars == <<status, refunded, rows, records, asked, journal, announced, backfill, pc, request, faults>>

money   == <<status, refunded, rows, records>>
outside == <<asked, journal, announced, backfill>>

(* The body of a request: the amount it names, or 0 when it omits it.      *)
Bodies == 0 .. Amount

Row(k, a, b) == [key |-> k, amount |-> a, before |-> b]
Rows == [key : Keys \cup {NoKey}, amount : 1 .. Amount, before : 0 .. Amount]

(* What a handler has read and decided: alreadyRefunded, refundAmount and, *)
(* once it has committed, its row.                                         *)
Req(k, b, s, a, r) == [key |-> k, body |-> b, seen |-> s, amount |-> a, row |-> r]
NoRequest == Req(NoKey, 0, 0, 0, 0)
Requests  == [key : Keys \cup {NoKey}, body : Bodies, seen : 0 .. Amount,
              amount : 0 .. Amount, row : 0 .. Amount]

Init ==
  /\ status = "paid"
  /\ refunded = 0
  /\ rows = <<>>
  /\ records = {}
  /\ asked = 0
  /\ journal = [r \in 0 .. Amount |-> 0]
  /\ announced = {}
  /\ backfill = 0
  /\ pc = [h \in Handlers |-> "idle"]
  /\ request = [h \in Handlers |-> NoRequest]
  /\ faults = 0

Goto(h, l) == pc' = [pc EXCEPT ![h] = l]

(* The handler returns or throws.                                          *)
Leave(h) ==
  /\ Goto(h, "idle")
  /\ request' = [request EXCEPT ![h] = NoRequest]

Fault == faults < MaxFaults /\ faults' = faults + 1

Recorded(h) == request[h].key \in records

-----------------------------------------------------------------------------
(* The request, up to the transaction.                                     *)

Submit(h, k, b) ==
  /\ pc[h] = "idle"
  /\ request' = [request EXCEPT ![h] = Req(k, b, 0, 0, 0)]
  /\ Goto(h, "precheck")
  /\ UNCHANGED <<money, outside, faults>>

(* A key that has its record is answered from it, or refused for another   *)
(* body: either way nothing happens again.  Looked up at the top of        *)
(* refund() and once more in IdempotencyService.execute.                   *)
Precheck(h) ==
  /\ pc[h] = "precheck"
  /\ IF Recorded(h) THEN Leave(h) ELSE Goto(h, "read") /\ UNCHANGED request
  /\ UNCHANGED <<money, outside, faults>>

Asked(b, remaining) == IF b = 0 THEN remaining ELSE b

(* The payment is read once; everything up to the transaction is decided   *)
(* on this copy.                                                           *)
Read(h) ==
  LET q         == request[h]
      remaining == Amount - refunded
      a         == Asked(q.body, remaining)
  IN  /\ pc[h] = "read"
      /\ IF status = "paid" /\ remaining > 0 /\ a <= remaining
           THEN /\ request' = [request EXCEPT ![h] = Req(q.key, q.body, refunded, a, 0)]
                /\ Goto(h, "ask")
           ELSE Leave(h)
      /\ UNCHANGED <<money, outside, faults>>

(* The provider agrees.  More than Amount is not told apart.               *)
AskProvider(h) ==
  /\ pc[h] = "ask"
  /\ asked' = IF asked + request[h].amount > Amount THEN Amount + 1
                                                     ELSE asked + request[h].amount
  /\ Goto(h, "find")
  /\ UNCHANGED <<money, journal, announced, backfill, request, faults>>

ProviderFails(h) ==
  /\ pc[h] = "ask"
  /\ Fault
  /\ Leave(h)
  /\ UNCHANGED <<money, outside>>

(* execute(): the fast path again, now after the provider was asked.       *)
Find(h) ==
  /\ pc[h] = "find"
  /\ IF Recorded(h) THEN Leave(h) ELSE Goto(h, "tx") /\ UNCHANGED request
  /\ UNCHANGED <<money, outside, faults>>

-----------------------------------------------------------------------------
(* The transaction and what follows it.                                    *)

(* Mutant: the amount is incremented without the optimistic lock.          *)
Unlocked(h) == TRUE

(* updateMany where refundedAmount is what this handler has read.          *)
Unchanged(h) == refunded = request[h].seen

(* Mutant: the amount is written in the transaction and the key is not.    *)
CommitWithoutKey(h) ==
  LET q == request[h]
      n == Len(rows) + 1
  IN  /\ pc[h] = "tx"
      /\ Unchanged(h)
      /\ refunded' = q.seen + q.amount
      /\ rows' = Append(rows, Row(q.key, q.amount, q.seen))
      /\ request' = [request EXCEPT ![h] = Req(q.key, q.body, q.seen, q.amount, n)]
      /\ Goto(h, "post")
      /\ UNCHANGED <<status, records, outside, faults>>

(* The increment, the row and the record of the key commit together.       *)
Commit(h) ==
  LET q == request[h]
      n == Len(rows) + 1
  IN  /\ pc[h] = "tx"
      /\ Unchanged(h)
      /\ refunded' = q.seen + q.amount
      /\ rows' = Append(rows, Row(q.key, q.amount, q.seen))
      /\ records' = records \cup ({q.key} \ {NoKey})
      /\ request' = [request EXCEPT ![h] = Req(q.key, q.body, q.seen, q.amount, n)]
      /\ Goto(h, "post")
      /\ UNCHANGED <<status, outside, faults>>

(* The lock was lost: 409, and the transaction rolls back.                 *)
LoseLock(h) ==
  /\ pc[h] = "tx"
  /\ ~Unchanged(h)
  /\ Leave(h)
  /\ UNCHANGED <<money, outside, faults>>

(* Mutant: any refund counts as the last.                                  *)
AlwaysFully(h) == TRUE

(* Mutant: off by one, no refund counts as the last.                       *)
NeverFully(h) == request[h].seen + request[h].amount > Amount

FullyRefunded(h) == request[h].seen + request[h].amount >= Amount

Posted(h) == Goto(h, IF FullyRefunded(h) THEN "close" ELSE "emit")

(* postRefund: the journal is unique on (event, payment and refund id).    *)
PostLedger(h) ==
  LET r == request[h].row
  IN  /\ pc[h] = "post"
      /\ journal' = [journal EXCEPT ![r] = IF @ = 0 THEN request[h].amount ELSE @]
      /\ Posted(h)
      /\ UNCHANGED <<money, asked, announced, backfill, request, faults>>

(* Its failure is logged and swallowed.                                    *)
PostFails(h) ==
  /\ pc[h] = "post"
  /\ Fault
  /\ Posted(h)
  /\ UNCHANGED <<money, outside, request>>

(* Mutant: a full refund returns without its event.                        *)
CloseSilently(h) ==
  /\ pc[h] = "close"
  /\ status = "paid"
  /\ status' = "refunded"
  /\ Leave(h)
  /\ UNCHANGED <<refunded, rows, records, outside, faults>>

(* transition(refunded): guarded by the status it has read.                *)
Close(h) ==
  /\ pc[h] = "close"
  /\ status = "paid"
  /\ status' = "refunded"
  /\ Goto(h, "emit")
  /\ UNCHANGED <<refunded, rows, records, outside, request, faults>>

(* payment.refunded, from transition() or, for a slice, directly.          *)
Emit(h) ==
  /\ pc[h] = "emit"
  /\ announced' = announced \cup {request[h].row}
  /\ Leave(h)
  /\ UNCHANGED <<money, asked, journal, backfill, faults>>

(* The process dies, or the client goes away and its handler fails.        *)
Crash(h) ==
  /\ pc[h] # "idle"
  /\ Fault
  /\ Leave(h)
  /\ UNCHANGED <<money, outside>>

-----------------------------------------------------------------------------
(* ReconciliationService.backfill: reads paid payments, then posts what    *)
(* each has refunded under one reference of its own.                       *)

BackfillRead ==
  /\ backfill = 0
  /\ status = "paid"
  /\ refunded > 0
  /\ backfill' = refunded
  /\ UNCHANGED <<money, asked, journal, announced, pc, request, faults>>

BackfillPost ==
  /\ backfill > 0
  /\ journal' = [journal EXCEPT ![0] = IF @ = 0 THEN backfill ELSE @]
  /\ backfill' = 0
  /\ UNCHANGED <<money, asked, announced, pc, request, faults>>

Step(h) ==
  \/ Precheck(h)
  \/ Read(h)
  \/ AskProvider(h)
  \/ Find(h)
  \/ Commit(h)
  \/ LoseLock(h)
  \/ PostLedger(h)
  \/ Close(h)
  \/ Emit(h)

Failure(h) ==
  \/ ProviderFails(h)
  \/ PostFails(h)
  \/ Crash(h)

Next ==
  \/ \E h \in Handlers, k \in Keys \cup {NoKey}, b \in Bodies : Submit(h, k, b)
  \/ \E h \in Handlers : Step(h) \/ Failure(h)
  \/ BackfillRead
  \/ BackfillPost

Spec == Init /\ [][Next]_vars

(* A running handler goes on; nobody has to ask for a refund.              *)
FairSpec == Spec /\ \A h \in Handlers : WF_vars(Step(h))

-----------------------------------------------------------------------------
(* Properties.                                                             *)

TypeOK ==
  /\ status \in {"paid", "refunded"}
  /\ refunded \in 0 .. Amount
  /\ rows \in Seq(Rows)
  /\ records \subseteq Keys
  /\ asked \in 0 .. Amount + 1
  /\ journal \in [0 .. Amount -> 0 .. Amount]
  /\ announced \subseteq 1 .. Amount
  /\ backfill \in 0 .. Amount
  /\ pc \in [Handlers -> {"idle", "precheck", "read", "ask", "find", "tx", "post", "close", "emit"}]
  /\ request \in [Handlers -> Requests]
  /\ faults \in 0 .. MaxFaults

(* sum(succeeded refunds) = refundedAmount <= amount, told without a sum:  *)
(* every row starts where the one before it ended and the last one ends at *)
(* refundedAmount, so that no interleaving of partial refunds counts an    *)
(* amount twice or loses one.                                              *)
RefundsAddUp ==
  /\ refunded <= Amount
  /\ rows = <<>> => refunded = 0
  /\ rows # <<>> => /\ rows[1].before = 0
                    /\ rows[Len(rows)].before + rows[Len(rows)].amount = refunded
  /\ \A i \in 1 .. Len(rows) - 1 : rows[i].before + rows[i].amount = rows[i + 1].before

(* A retried refund is given back once.  The lock comes before the unique  *)
(* index in the transaction, so a handler that would break the index has   *)
(* lost the lock already and answers 409 instead of the winner's refund.   *)
OneRefundPerKey ==
  /\ \A i, j \in DOMAIN rows : rows[i].key = rows[j].key /\ rows[i].key # NoKey => i = j
  /\ \A h \in Handlers : pc[h] = "tx" /\ Unchanged(h) => ~Recorded(h)

(* The journal of a slice carries that slice, and one that the backfill    *)
(* posts never more than was given back.                                   *)
JournalsHaveRows ==
  /\ \A r \in 1 .. Amount : journal[r] > 0 => r <= Len(rows) /\ journal[r] = rows[r].amount
  /\ journal[0] <= refunded

(* The handlers implement the account: slices one at a time, and no        *)
(* `refunded` before the last.                                             *)
Account == INSTANCE RefundAccount
ImplementsAccount == Account!AccountSpec

(* A payment that has been given back whole ends `refunded`, unless a call *)
(* failed or a process died: nothing repeats the transition for it.        *)
FullRefundCloses == (refunded = Amount) ~> (status = "refunded" \/ faults > 0)

(* Each refund fires a payment.refunded webhook, under the same proviso.   *)
EachRefundIsAnnounced ==
  \A r \in 1 .. Amount : (Len(rows) >= r) ~> (r \in announced \/ faults > 0)

(* The optimistic lock prevents double refunds: the provider is never      *)
(* asked for more than was paid.                                           *)
ProviderGivesBackOnce == asked <= Amount

(* The backfill is safe to run and to run again: the ledger never shows    *)
(* more refunded than the payment does.                                    *)
BackfillIsIdempotent ==
  \A r \in 1 .. Amount : journal[0] > 0 /\ journal[r] > 0 => journal[0] + journal[r] <= refunded
=============================================================================
