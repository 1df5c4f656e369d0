------------------------------ MODULE MCPayments ------------------------------
(* Instances of Payments for TLC.                                          *)
EXTENDS Payments, TLC

(* Requests are interchangeable.                                           *)
Symmetry == Permutations(ApiHandlers)

TwoEffects == {Quota, LedgerPost}

(* One consequence of each kind: the first one, the one that swallows its  *)
(* errors in the middle, one that does not, and the last one.              *)
FewEffects == {Quota, Coupon, Loyalty, LedgerPost}
=============================================================================
