---------------------------- MODULE RefundAccount ----------------------------
(***************************************************************************)
(* What refunds of one paid payment promise: slices are given back one at  *)
(* a time, each on top of what was given back before, never more than was  *)
(* paid, and only a payment that has been given back whole is `refunded`.  *)
(***************************************************************************)
EXTENDS Naturals, Sequences

CONSTANTS
  Amount,   \* what was paid, in its smallest unit
  Keys,     \* idempotency keys
  NoKey     \* a refund asked for without one

VARIABLES status, refunded, rows

accountVars == <<status, refunded, rows>>

(* A row of the Refund table, with the amount refunded before it.          *)
Row(k, a, b) == [key |-> k, amount |-> a, before |-> b]

AccountInit ==
  /\ status = "paid"
  /\ refunded = 0
  /\ rows = <<>>

(* A key is given at most one slice.                                       *)
Slice(k, a) ==
  /\ status = "paid"
  /\ refunded + a <= Amount
  /\ \A i \in DOMAIN rows : k \in Keys => rows[i].key # k
  /\ refunded' = refunded + a
  /\ rows' = Append(rows, Row(k, a, refunded))
  /\ UNCHANGED status

Close ==
  /\ refunded = Amount
  /\ status' = "refunded"
  /\ UNCHANGED <<refunded, rows>>

AccountNext ==
  \/ \E k \in Keys \cup {NoKey}, a \in 1 .. Amount : Slice(k, a)
  \/ Close

AccountSpec == AccountInit /\ [][AccountNext]_accountVars
=============================================================================
