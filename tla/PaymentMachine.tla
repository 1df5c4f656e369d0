---------------------------- MODULE PaymentMachine ----------------------------
(***************************************************************************)
(* What the payments component promises, with every operation atomic: a    *)
(* payment's status follows the transition table, and each consequence of  *)
(* a capture is carried out at most once, never before the capture.        *)
(* Payments implements this machine with handlers that interleave.         *)
(***************************************************************************)
EXTENDS Naturals, PaymentStates

CONSTANTS
  Payments,     \* the payments that may be created
  Effects       \* the consequences of a capture (quota, coupon, ..., ledger)

VARIABLES
  status,       \* status[p]: the status of payment p, or "none"
  performed     \* performed[p][e]: how many times e was carried out for p

vars == <<status, performed>>

Init ==
  /\ status = [p \in Payments |-> Absent]
  /\ performed = [p \in Payments |-> [e \in Effects |-> 0]]

Create(p) ==
  /\ status[p] = Absent
  /\ status' = [status EXCEPT ![p] = "pending"]
  /\ UNCHANGED performed

Move(p, to) ==
  /\ canTransition(status[p], to)
  /\ status' = [status EXCEPT ![p] = to]
  /\ UNCHANGED performed

Perform(p, e) ==
  /\ status[p] \in Captured
  /\ performed[p][e] = 0
  /\ performed' = [performed EXCEPT ![p][e] = 1]
  /\ UNCHANGED status

Next ==
  \E p \in Payments :
     \/ Create(p)
     \/ \E to \in PaymentStatus : Move(p, to)
     \/ \E e \in Effects : Perform(p, e)

Spec == Init /\ [][Next]_vars
=============================================================================
