------------------------------- MODULE Checkout -------------------------------
(***************************************************************************)
(* What a new payment is checked against and what its capture uses up: the *)
(* organization's monthly quota, a single-use link, a coupon and a gift    *)
(* card.  All four are checked by plain reads when the payment is created  *)
(* and moved only once it is captured, so that any number of other         *)
(* payments can come in between.                                           *)
(***************************************************************************)
EXTENDS Naturals, Sequences, FiniteSets

CONSTANTS
  Payments,       \* payments of one organization in one period
  Carts,          \* what they carry: sets of "link", "coupon" and "card"
  Quota,          \* Plan.monthlyPaidQuota
  MaxRedemptions, \* Coupon.maxRedemptions
  FirstOrderOnly, \* Coupon.firstOrderOnly
  Price,          \* the amount of an order
  Discount,       \* what the coupon takes off it
  Initial,        \* GiftCard.initialBalance
  MaxFaults       \* bound on crashes and failed calls

ASSUME CheckoutAssumption ==
  /\ IsFiniteSet(Payments)
  /\ Carts \subseteq SUBSET {"link", "coupon", "card"}
  /\ Quota \in Nat
  /\ MaxRedemptions \in Nat
  /\ FirstOrderOnly \in BOOLEAN
  /\ Price \in Nat
  /\ Discount \in 0 .. Price
  /\ Initial \in Nat
  /\ MaxFaults \in Nat

VARIABLES
  status,      \* Payment.status, "none" until the payment is created
  cart,        \* what the payment carries
  applied,     \* metadata.gift_card.applied
  counted,     \* payments counted in UsageRecord.paidCount
  redeemed,    \* payments with a CouponRedemption
  redemptions, \* Coupon.redemptionCount
  balance,     \* GiftCard.balance
  debits,      \* the card's REDEEM transactions, in order
  pc,
  reads,       \* which of the two counts of the quota check are in
  seen,        \* what was read and is still to be used
  raced,       \* history: payments that moved under a quota check
  faults

vars == <<status, cart, applied, counted, redeemed, redemptions, balance, debits, pc, reads,
          seen, raced, faults>>

coupon == <<redeemed, redemptions>>
card   == <<balance, debits>>
quota  == <<reads, raced>>

Init ==
  /\ status = [p \in Payments |-> "none"]
  /\ cart = [p \in Payments |-> {}]
  /\ applied = [p \in Payments |-> 0]
  /\ counted = {}
  /\ redeemed = {}
  /\ redemptions = 0
  /\ balance = Initial
  /\ debits = <<>>
  /\ pc = [p \in Payments |-> "idle"]
  /\ reads = [p \in Payments |-> {}]
  /\ seen = [p \in Payments |-> 0]
  /\ raced = [p \in Payments |-> {}]
  /\ faults = 0

Goto(p, l) == pc' = [pc EXCEPT ![p] = l]

Fault == faults < MaxFaults /\ faults' = faults + 1

InFlight == {p \in Payments : status[p] = "pending"}
Captured == {p \in Payments : status[p] \in {"paid", "refunded"}}
PaidNow  == {p \in Payments : status[p] = "paid"}

-----------------------------------------------------------------------------
(* The checks, up to the insertion.                                        *)

Request(p, c) ==
  /\ pc[p] = "idle"
  /\ cart' = [cart EXCEPT ![p] = c]
  /\ raced' = [raced EXCEPT ![p] = Captured \ counted]
  /\ Goto(p, IF "link" \in c THEN "link" ELSE "quota")
  /\ UNCHANGED <<status, applied, counted, coupon, card, reads, seen, faults>>

(* LinksService.pay: a single-use link that a PAID payment came through is *)
(* refused.                                                                *)
CheckLink(p) ==
  /\ pc[p] = "link"
  /\ Goto(p, IF \E q \in PaidNow : "link" \in cart[q] THEN "refused" ELSE "quota")
  /\ raced' = [raced EXCEPT ![p] = Captured \ counted]
  /\ UNCHANGED <<status, cart, applied, counted, coupon, card, reads, seen, faults>>

(* The quota admits the payment, once both counts are in.                  *)
Admitted(n) == n < Quota

Priced(p) ==
  IF "coupon" \in cart[p] THEN "coupon" ELSE IF "card" \in cart[p] THEN "card" ELSE "insert"

(* assertWithinQuota: the two counts come in either order.                 *)
Count(p, kind, n) ==
  /\ pc[p] = "quota"
  /\ kind \notin reads[p]
  /\ reads' = [reads EXCEPT ![p] = @ \cup {kind}]
  /\ seen' = [seen EXCEPT ![p] = @ + n]
  /\ Goto(p, IF reads[p] = {} THEN "quota"
             ELSE IF Admitted(seen[p] + n) THEN Priced(p) ELSE "refused")
  /\ UNCHANGED <<status, cart, applied, counted, coupon, card, raced, faults>>

ReadUsage(p) == Count(p, "usage", Cardinality(counted))

(* Mutant: the payments in flight are left out of the count.               *)
CountNone(p) == Count(p, "flight", 0)

CountInFlight(p) == Count(p, "flight", Cardinality(InFlight))

CouponApplies ==
  /\ redemptions < MaxRedemptions
  /\ FirstOrderOnly => PaidNow = {}

Charge(p) == IF "coupon" \in cart[p] THEN Price - Discount ELSE Price

(* CouponsService.quote: a discount that leaves nothing to pay is refused. *)
QuoteCoupon(p) ==
  /\ pc[p] = "coupon"
  /\ Goto(p, CASE ~(CouponApplies /\ Charge(p) > 0) -> "refused"
               [] "card" \in cart[p]                -> "card"
               [] OTHER                             -> "insert")
  /\ UNCHANGED <<status, cart, applied, counted, coupon, card, quota, seen, faults>>

Least(a, b) == IF a <= b THEN a ELSE b

(* GiftCardsService.quote: nothing is set aside.                           *)
QuoteCard(p) ==
  /\ pc[p] = "card"
  /\ IF balance > 0
       THEN /\ applied' = [applied EXCEPT ![p] = Least(balance, Charge(p))]
            /\ Goto(p, "insert")
       ELSE Goto(p, "refused") /\ UNCHANGED applied
  /\ UNCHANGED <<status, cart, counted, coupon, card, quota, seen, faults>>

Checking(p) == pc[p] \in {"link", "quota", "coupon", "card", "insert"}

(* What a check does not see: a payment created after it has counted those *)
(* in flight, and one captured before it has.                              *)
Missed(q, p) ==
  /\ Checking(p)
  /\ ("flight" \in reads[p]) = (status[q] = "none")

Races(q) == raced' = [p \in Payments |-> IF Missed(q, p) THEN raced[p] \cup {q} ELSE raced[p]]

(* Mutant: the redemption is counted when the payment is created.          *)
InsertRedeemed(p) ==
  /\ pc[p] = "insert"
  /\ status' = [status EXCEPT ![p] = "pending"]
  /\ redeemed' = redeemed \cup {q \in {p} : "coupon" \in cart[q]}
  /\ redemptions' = IF "coupon" \in cart[p] THEN redemptions + 1 ELSE redemptions
  /\ Goto(p, "open")
  /\ Races(p)
  /\ UNCHANGED <<cart, applied, counted, card, reads, seen, faults>>

Insert(p) ==
  /\ pc[p] = "insert"
  /\ status' = [status EXCEPT ![p] = "pending"]
  /\ Goto(p, "open")
  /\ Races(p)
  /\ UNCHANGED <<cart, applied, counted, coupon, card, reads, seen, faults>>

(* A query or createKhqr fails before anything is written.                 *)
CheckFails(p) ==
  /\ Checking(p)
  /\ Fault
  /\ Goto(p, "refused")
  /\ UNCHANGED <<status, cart, applied, counted, coupon, card, quota, seen>>

-----------------------------------------------------------------------------
(* The end of the payment and what its capture uses up.                    *)

(* transition(paid), by the bank's word or at once when the card covers    *)
(* the whole amount.  It wins once.                                        *)
Capture(p) ==
  /\ pc[p] = "open"
  /\ status[p] = "pending"
  /\ status' = [status EXCEPT ![p] = "paid"]
  /\ Goto(p, "count")
  /\ Races(p)
  /\ UNCHANGED <<cart, applied, counted, coupon, card, reads, seen, faults>>

(* Expired or cancelled.                                                   *)
Close(p) ==
  /\ status[p] = "pending"
  /\ status' = [status EXCEPT ![p] = "closed"]
  /\ Goto(p, "done")
  /\ UNCHANGED <<cart, applied, counted, coupon, card, quota, seen, faults>>

(* A refund gives nothing back to quota, coupon or card.                   *)
Refund(p) ==
  /\ status[p] = "paid"
  /\ status' = [status EXCEPT ![p] = "refunded"]
  /\ UNCHANGED <<cart, applied, counted, coupon, card, pc, quota, seen, faults>>

RecordPaid(p) ==
  /\ pc[p] = "count"
  /\ counted' = counted \cup {p}
  /\ Goto(p, "redeem")
  /\ UNCHANGED <<status, cart, applied, coupon, card, quota, seen, faults>>

(* CouponsService.onPaid: row and counter in one transaction.              *)
RedeemCoupon(p) ==
  /\ pc[p] = "redeem"
  /\ IF "coupon" \in cart[p]
       THEN redeemed' = redeemed \cup {p} /\ redemptions' = redemptions + 1
       ELSE UNCHANGED coupon
  /\ Goto(p, "debit")
  /\ UNCHANGED <<status, cart, applied, counted, card, quota, seen, faults>>

(* It swallows its errors.                                                 *)
RedeemFails(p) ==
  /\ pc[p] = "redeem"
  /\ Fault
  /\ Goto(p, "debit")
  /\ UNCHANGED <<status, cart, applied, counted, coupon, card, quota, seen>>

(* GiftCardsService.onPaid: the transaction reads the card.                *)
ReadCard(p) ==
  /\ pc[p] = "debit"
  /\ seen' = [seen EXCEPT ![p] = balance]
  /\ Goto(p, IF applied[p] > 0 THEN "spend" ELSE "done")
  /\ UNCHANGED <<status, cart, applied, counted, coupon, card, quota, faults>>

(* Mutant: the update is not guarded by the balance that was read.         *)
AnyBalance(p) == TRUE

SameBalance(p) == balance = seen[p]

Monus(a, b) == IF a >= b THEN a - b ELSE 0

Debit(p, a, b) == [payment |-> p, applied |-> a, balance |-> b]

(* The debit stops at zero; who finds another balance debits nothing.      *)
Spend(p) ==
  LET left == Monus(seen[p], applied[p])
  IN  /\ pc[p] = "spend"
      /\ IF SameBalance(p)
           THEN balance' = left /\ debits' = Append(debits, Debit(p, applied[p], left))
           ELSE UNCHANGED card
      /\ Goto(p, "done")
      /\ UNCHANGED <<status, cart, applied, counted, coupon, quota, seen, faults>>

(* A consequence throws past its caller, or the process dies.              *)
Dies(p) ==
  /\ pc[p] \in {"count", "redeem", "debit", "spend"}
  /\ Fault
  /\ Goto(p, "done")
  /\ UNCHANGED <<status, cart, applied, counted, coupon, card, quota, seen>>

Check(p) ==
  \/ CheckLink(p)
  \/ ReadUsage(p)
  \/ CountInFlight(p)
  \/ QuoteCoupon(p)
  \/ QuoteCard(p)
  \/ Insert(p)

Consequence(p) ==
  \/ RecordPaid(p)
  \/ RedeemCoupon(p)
  \/ ReadCard(p)
  \/ Spend(p)

Next ==
  \E p \in Payments :
    \/ \E c \in Carts : Request(p, c)
    \/ Check(p)
    \/ CheckFails(p)
    \/ Capture(p)
    \/ Close(p)
    \/ Refund(p)
    \/ Consequence(p)
    \/ RedeemFails(p)
    \/ Dies(p)

Spec == Init /\ [][Next]_vars

-----------------------------------------------------------------------------
(* Properties.                                                             *)

TypeOK ==
  /\ status \in [Payments -> {"none", "pending", "paid", "closed", "refunded"}]
  /\ cart \in [Payments -> SUBSET {"link", "coupon", "card"}]
  /\ applied \in [Payments -> 0 .. Price]
  /\ counted \subseteq Payments
  /\ redeemed \subseteq Payments
  /\ redemptions \in Nat
  /\ balance \in 0 .. Initial
  /\ debits \in Seq([payment : Payments, applied : 0 .. Price, balance : 0 .. Initial])
  /\ pc \in [Payments -> {"idle", "link", "quota", "coupon", "card", "insert", "refused",
                          "open", "count", "redeem", "debit", "spend", "done"}]
  /\ reads \in [Payments -> SUBSET {"usage", "flight"}]
  /\ seen \in [Payments -> Nat]
  /\ raced \in [Payments -> SUBSET Payments]
  /\ faults \in 0 .. MaxFaults

(* The quota is passed only by payments that raced: when one is created,   *)
(* the others, in flight or captured, that stood before its check, did not *)
(* move under it and had their capture counted are fewer than the quota.   *)
(* The two counts are not one snapshot, yet between them they see each of  *)
(* those.                                                                  *)
QuotaHoldsUnlessRaced ==
  [][\A p \in Payments : pc[p] = "insert" /\ pc'[p] = "open"
       => Cardinality((InFlight \cup Captured) \ raced[p]) < Quota]_vars

(* The card's balance is what its transactions say: each starts where the  *)
(* one before it ended, however many captures read the card at once.       *)
BalanceBefore(i) == IF i = 1 THEN Initial ELSE debits[i - 1].balance

BalanceFollowsJournal ==
  /\ \A i \in 1 .. Len(debits) : debits[i].balance = Monus(BalanceBefore(i), debits[i].applied)
  /\ balance = BalanceBefore(Len(debits) + 1)

(* Abandoned carts never burn a code: the count is that of the redemption  *)
(* rows, one for each captured payment that carried the coupon.            *)
RedemptionsAreCounted ==
  /\ redemptions = Cardinality(redeemed)
  /\ \A p \in redeemed : p \in Captured /\ "coupon" \in cart[p]

(* "so two captures can't both spend it": a payment that the card covered, *)
(* and whose capture ran to its end, has debited what it was let off.      *)
CardIsDebited ==
  faults = 0 => \A p \in Captured :
    pc[p] = "done" /\ applied[p] > 0 => \E i \in DOMAIN debits : debits[i].payment = p

(* The coupon is not redeemed past its limit.                              *)
CouponWithinLimit == redemptions <= MaxRedemptions

(* A single-use link is paid once.                                         *)
LinkPaidOnce == Cardinality({p \in PaidNow : "link" \in cart[p]}) <= 1

(* The quota holds.                                                        *)
QuotaHolds == Cardinality(counted) <= Quota
=============================================================================
