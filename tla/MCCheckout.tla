------------------------------ MODULE MCCheckout ------------------------------
(* Instances of Checkout for TLC.                                          *)
EXTENDS Checkout, TLC

Symmetry == Permutations(Payments)

(* A link, a coupon with a card, and a card alone.                         *)
AllCarts == {{"link"}, {"coupon", "card"}, {"card"}}
=============================================================================
