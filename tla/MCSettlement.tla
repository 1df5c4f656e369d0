----------------------------- MODULE MCSettlement -----------------------------
(* Instances of Settlement for TLC.                                        *)
EXTENDS Settlement, TLC

(* One payment of a single unit, the others of two, which can be refunded  *)
(* in parts.                                                               *)
OneIsSmall == LET small == CHOOSE p \in Payments : TRUE
              IN  [p \in Payments |-> IF p = small THEN 1 ELSE 2]

AllSmall == [p \in Payments |-> 1]

Symmetry == Permutations(Admins)
=============================================================================
