---------------------------- MODULE PaymentStates ----------------------------
(***************************************************************************)
(* The payment statuses and the table of allowed transitions that every    *)
(* module about payments shares.  Both come from the shared-types package; *)
(* "none" stands for a payment whose row does not exist yet.               *)
(***************************************************************************)

PaymentStatus ==
  {"pending", "scanned", "paid", "expired", "failed", "cancelled", "refunded"}

Absent == "none"

RowStatus == PaymentStatus \cup {Absent}

(* Mutant: a late payment revives a cancelled payment as it does an expired *)
(* one.                                                                    *)
TransitionsReviveCancelled ==
  [pending   |-> {"scanned", "paid", "expired", "failed", "cancelled"},
   scanned   |-> {"paid", "expired", "failed", "cancelled"},
   paid      |-> {"refunded"},
   expired   |-> {"paid"},
   failed    |-> {},
   cancelled |-> {"paid"},
   refunded  |-> {}]

PAYMENT_TRANSITIONS ==
  [pending   |-> {"scanned", "paid", "expired", "failed", "cancelled"},
   scanned   |-> {"paid", "expired", "failed", "cancelled"},
   paid      |-> {"refunded"},
   expired   |-> {"paid"},
   failed    |-> {},
   cancelled |-> {},
   refunded  |-> {}]

canTransition(from, to) ==
  /\ from \in PaymentStatus
  /\ to \in PAYMENT_TRANSITIONS[from]

(* Waiting for the payer: what the sweep and the poller select.            *)
Open == {"pending", "scanned"}

(* The money has been taken, and possibly given back since.                *)
Captured == {"paid", "refunded"}
=============================================================================
