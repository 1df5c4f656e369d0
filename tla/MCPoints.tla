------------------------------ MODULE MCPoints ------------------------------
(* Instances of Points for TLC.                                            *)
EXTENDS Points, TLC

Symmetry == Permutations(Handlers) \cup Permutations(Vouchers)

NoLegacy == <<>>

(* Movements from before journals were posted: a voucher taken back.       *)
OldRows == <<Row("c1", "EARN", 2, FALSE), Row("c1", "REDEEM", -2, FALSE),
             Row("c1", "ADJUST", 2, TRUE)>>

OneOwner == [p \in Payments |-> "c1"]
=============================================================================
