-------------------------- MODULE CheckoutBillingProof -------------------------
(***************************************************************************)
(* Proofs about Checkout, for any number of payments, any carts, limits    *)
(* and amounts, and, at the end, about Billing, which sells the plan whose *)
(* quota Checkout checks.                                                  *)
(*                                                                         *)
(* The heart is QuotaSound: what the two counts of the quota check, taken  *)
(* apart and in either order, still say about the payments that stand when *)
(* they are compared.  A payment counted by neither was captured before    *)
(* the check and had not been counted by then, or moved since: raced[p].   *)
(***************************************************************************)
EXTENDS Checkout, Billing, FiniteSetTheorems, TLAPS

Checks == {"link", "quota", "coupon", "card", "insert"}
Labels == {"idle", "link", "quota", "coupon", "card", "insert", "refused",
           "open", "count", "redeem", "debit", "spend", "done"}
Kept   == {"paid", "refunded"}
Rows   == [payment : Payments, applied : 0 .. Price, balance : 0 .. Initial]

(* The row of a payment by the point its request or capture has reached.   *)
Staged(p) ==
  /\ pc[p] \in Checks \cup {"idle", "refused"} => status[p] = "none"
  /\ pc[p] = "open" => status[p] = "pending"
  /\ pc[p] \in {"count", "redeem", "debit", "spend"} => status[p] \in Kept
  /\ pc[p] = "done" => status[p] \in Kept \cup {"closed"}

(* The counts a check has by then.                                         *)
CountsIn(p) ==
  /\ pc[p] \in {"idle", "link"} => reads[p] = {}
  /\ pc[p] = "quota" => reads[p] \in {{}, {"usage"}, {"flight"}}
  /\ pc[p] \in {"coupon", "card", "insert"} => reads[p] = {"usage", "flight"}
  /\ pc[p] \in {"idle", "link", "quota"} /\ reads[p] = {} => seen[p] = 0

Stages == \A p \in Payments : Staged(p) /\ CountsIn(p)

Live == InFlight \cup Captured

(* What the counts of p's check say, as long as it lasts.                  *)
CountsHold(p) ==
  Checking(p) =>
    /\ reads[p] = {} => Captured \ raced[p] \subseteq counted
    /\ reads[p] = {"usage"} => Cardinality(Captured \ raced[p]) <= seen[p]
    /\ reads[p] = {"flight"} => Cardinality((Live \ raced[p]) \ counted) <= seen[p]
    /\ reads[p] = {"usage", "flight"} => Cardinality(Live \ raced[p]) < Quota

QuotaSound == \A p \in Payments : CountsHold(p)

(* The rows behind the coupon's counter.                                   *)
CouponSound ==
  /\ RedemptionsAreCounted
  /\ \A p \in redeemed : pc[p] \in {"debit", "spend", "done"}

IInv ==
  /\ TypeOK
  /\ Stages
  /\ QuotaSound
  /\ CouponSound
  /\ BalanceFollowsJournal

-----------------------------------------------------------------------------
(* Sets of payments.                                                       *)

LEMMA Finite ==
  ASSUME NEW S \in SUBSET Payments
  PROVE  IsFiniteSet(S) /\ Cardinality(S) \in Nat
<1>1. IsFiniteSet(Payments)
  BY CheckoutAssumption DEF CheckoutAssumption
<1>2. IsFiniteSet(S)
  BY <1>1, FS_Subset
<1>3. QED
  BY <1>2, FS_CardinalityType

LEMMA Smaller ==
  ASSUME NEW S \in SUBSET Payments, NEW T \in SUBSET S
  PROVE  Cardinality(T) <= Cardinality(S)
BY Finite, FS_Subset

(* A union has no more elements than its parts together.                   *)
LEMMA Both ==
  ASSUME NEW S \in SUBSET Payments, NEW T \in SUBSET Payments, NEW U \in SUBSET (S \cup T)
  PROVE  Cardinality(U) <= Cardinality(S) + Cardinality(T)
<1>1. IsFiniteSet(S) /\ IsFiniteSet(T) /\ S \cup T \in SUBSET Payments /\ S \cap T \in SUBSET Payments
  BY Finite
<1>2. Cardinality(S \cup T) = Cardinality(S) + Cardinality(T) - Cardinality(S \cap T)
  BY <1>1, FS_Union
<1>3. Cardinality(U) <= Cardinality(S \cup T) /\ U \in SUBSET Payments
  BY <1>1, Smaller
<1>4. /\ Cardinality(S) \in Nat /\ Cardinality(T) \in Nat /\ Cardinality(S \cap T) \in Nat
      /\ Cardinality(S \cup T) \in Nat /\ Cardinality(U) \in Nat
  BY <1>1, <1>3, Finite
<1>5. QED
  BY <1>2, <1>3, <1>4

LEMMA GroupTypes ==
  /\ InFlight \in SUBSET Payments /\ Captured \in SUBSET Payments /\ Live \in SUBSET Payments
  BY DEF InFlight, Captured, Live

-----------------------------------------------------------------------------
LEMMA InitInv == Init => IInv
<1> SUFFICES ASSUME Init PROVE IInv
  OBVIOUS
<1>1. /\ Initial \in Nat /\ MaxFaults \in Nat /\ 0 \in 0 .. Price
  BY CheckoutAssumption DEF CheckoutAssumption
<1>2. TypeOK
  BY <1>1 DEF Init, TypeOK
<1>3. Stages
  BY DEF Init, Stages, Staged, CountsIn, Checks
<1>4. QuotaSound
  BY DEF Init, QuotaSound, CountsHold, Checking
<1>5. CouponSound
  BY FS_EmptySet DEF Init, CouponSound, RedemptionsAreCounted
<1>6. BalanceFollowsJournal
  BY DEF Init, BalanceFollowsJournal, BalanceBefore
<1>7. QED
  BY <1>2, <1>3, <1>4, <1>5, <1>6 DEF IInv

-----------------------------------------------------------------------------
(* Types.                                                                  *)

LEMMA AmountTypes ==
  ASSUME TypeOK, NEW p \in Payments
  PROVE  /\ Charge(p) \in 0 .. Price
         /\ Least(balance, Charge(p)) \in 0 .. Price
<1>1. Price \in Nat /\ Discount \in 0 .. Price /\ Initial \in Nat /\ balance \in 0 .. Initial
  BY CheckoutAssumption DEF CheckoutAssumption, TypeOK
<1>2. Charge(p) \in 0 .. Price
  BY <1>1 DEF Charge
<1>3. QED
  BY <1>1, <1>2 DEF Least

LEMMA CheckTypes ==
  ASSUME TypeOK, NEW p \in Payments,
         \/ \E c \in Carts : Request(p, c)
         \/ Check(p) \/ CheckFails(p)
  PROVE  TypeOK'
<1> USE DEF TypeOK, Goto, coupon, card, quota
<1>1. CASE \E c \in Carts : Request(p, c)
  BY <1>1, CheckoutAssumption DEF Request, CheckoutAssumption, Captured
<1>2. CASE CheckLink(p)
  BY <1>2 DEF CheckLink, Captured
<1>3. ASSUME NEW k \in {"usage", "flight"}, NEW n \in Nat, Count(p, k, n)
      PROVE  TypeOK'
  <2>1. /\ reads' \in [Payments -> SUBSET {"usage", "flight"}]
        /\ seen' \in [Payments -> Nat]
    BY <1>3 DEF Count
  <2>2. pc' \in [Payments -> Labels]
    BY <1>3 DEF Count, Priced, Labels
  <2>3. QED
    BY <1>3, <2>1, <2>2 DEF Count, Labels
<1>4. CASE ReadUsage(p) \/ CountInFlight(p)
  <2>1. Cardinality(counted) \in Nat /\ Cardinality(InFlight) \in Nat
    BY Finite, GroupTypes
  <2>2. QED
    BY <1>3, <1>4, <2>1 DEF ReadUsage, CountInFlight
<1>5. CASE QuoteCoupon(p)
  BY <1>5 DEF QuoteCoupon
<1>6. CASE QuoteCard(p)
  <2> DEFINE a == Least(balance, Charge(p))
  <2>0. a \in 0 .. Price
    BY AmountTypes
  <2> HIDE DEF a
  <2>1. applied' \in [Payments -> 0 .. Price]
    <3>1. applied' = [applied EXCEPT ![p] = a] \/ UNCHANGED applied
      BY <1>6 DEF QuoteCard, a
    <3>2. QED
      BY <2>0, <3>1
  <2>2. QED
    BY <1>6, <2>1 DEF QuoteCard
<1>7. CASE Insert(p)
  BY <1>7 DEF Insert, Races
<1>8. CASE CheckFails(p)
  BY <1>8, CheckoutAssumption DEF CheckFails, Fault, CheckoutAssumption
<1>9. QED
  BY <1>1, <1>2, <1>4, <1>5, <1>6, <1>7, <1>8 DEF Check

LEMMA EndTypes ==
  ASSUME TypeOK, NEW p \in Payments,
         \/ Capture(p) \/ Close(p) \/ Refund(p)
         \/ Consequence(p) \/ RedeemFails(p) \/ Dies(p)
  PROVE  TypeOK'
<1> USE DEF TypeOK, Goto, coupon, card, quota
<1>1. CASE Capture(p)
  BY <1>1 DEF Capture, Races
<1>2. CASE Close(p) \/ Refund(p)
  BY <1>2 DEF Close, Refund
<1>3. CASE RecordPaid(p)
  BY <1>3 DEF RecordPaid
<1>4. CASE RedeemCoupon(p)
  BY <1>4 DEF RedeemCoupon
<1>5. CASE ReadCard(p)
  BY <1>5, CheckoutAssumption DEF ReadCard, CheckoutAssumption
<1>6. CASE Spend(p)
  <2> DEFINE left == Monus(seen[p], applied[p])
  <2>1. CASE SameBalance(p)
    <3>1. left \in 0 .. Initial
      BY <2>1, CheckoutAssumption DEF SameBalance, Monus, CheckoutAssumption
    <3>2. Debit(p, applied[p], left) \in Rows
      BY <3>1 DEF Debit, Rows
    <3>3. balance' = left /\ debits' = Append(debits, Debit(p, applied[p], left))
      BY <1>6, <2>1 DEF Spend
    <3> HIDE DEF left
    <3>4. debits' \in Seq(Rows) /\ balance' \in 0 .. Initial
      BY <3>1, <3>2, <3>3 DEF Rows
    <3>5. QED
      BY <1>6, <3>4 DEF Spend, Rows
  <2>2. CASE ~SameBalance(p)
    BY <1>6, <2>2 DEF Spend
  <2>3. QED
    BY <2>1, <2>2
<1>7. CASE RedeemFails(p) \/ Dies(p)
  <2>1. faults' \in 0 .. MaxFaults
    BY <1>7, CheckoutAssumption DEF RedeemFails, Dies, Fault, CheckoutAssumption
  <2>2. QED
    BY <1>7, <2>1 DEF RedeemFails, Dies
<1>8. QED
  BY <1>1, <1>2, <1>3, <1>4, <1>5, <1>6, <1>7 DEF Consequence

-----------------------------------------------------------------------------
(* Stages.                                                                 *)

LEMMA StagesInv ==
  ASSUME TypeOK, Stages, Next
  PROVE  Stages'
<1> SUFFICES ASSUME NEW g \in Payments PROVE Staged(g)' /\ CountsIn(g)'
  BY DEF Stages
<1>0. Staged(g) /\ CountsIn(g)
  BY DEF Stages
<1> USE <1>0 DEF TypeOK, Goto, coupon, card, quota, Staged, CountsIn, Checks, Kept
<1>1. ASSUME NEW p \in Payments, CheckLink(p) \/ \E c \in Carts : Request(p, c)
      PROVE  Staged(g)' /\ CountsIn(g)'
  BY <1>1 DEF Request, CheckLink
<1>2. ASSUME NEW p \in Payments, NEW k \in {"usage", "flight"}, NEW n \in Nat, Count(p, k, n)
      PROVE  Staged(g)' /\ CountsIn(g)'
  <2>1. CASE g # p
    BY <1>2, <2>1 DEF Count
  <2>2. CASE g = p
    <3>1. /\ reads'[g] = reads[g] \cup {k} /\ k \notin reads[g] /\ pc[g] = "quota"
          /\ status' = status /\ status[g] = "none"
      BY <1>2, <2>2 DEF Count
    <3>2. IF reads[g] = {} THEN pc'[g] = "quota"
                           ELSE pc'[g] \in {"coupon", "card", "insert", "refused"}
      <4>1. CASE reads[g] = {}
        BY <1>2, <2>2, <4>1 DEF Count
      <4>2. CASE reads[g] # {} /\ Admitted(seen[g] + n)
        BY <1>2, <2>2, <4>2 DEF Count, Priced
      <4>3. CASE reads[g] # {} /\ ~Admitted(seen[g] + n)
        BY <1>2, <2>2, <4>3 DEF Count
      <4>4. QED
        BY <4>1, <4>2, <4>3
    <3>3. QED
      BY <3>1, <3>2
  <2>3. QED
    BY <2>1, <2>2
<1>3. ASSUME NEW p \in Payments, ReadUsage(p) \/ CountInFlight(p)
      PROVE  Staged(g)' /\ CountsIn(g)'
  <2>1. Cardinality(counted) \in Nat /\ Cardinality(InFlight) \in Nat
    BY Finite, GroupTypes
  <2>2. QED
    BY <1>2, <1>3, <2>1 DEF ReadUsage, CountInFlight
<1>4. ASSUME NEW p \in Payments, QuoteCoupon(p) \/ QuoteCard(p)
      PROVE  Staged(g)' /\ CountsIn(g)'
  BY <1>4 DEF QuoteCoupon, QuoteCard
<1>5. ASSUME NEW p \in Payments, Insert(p) \/ CheckFails(p)
      PROVE  Staged(g)' /\ CountsIn(g)'
  BY <1>5 DEF Insert, CheckFails, Checking
<1>6. ASSUME NEW p \in Payments, Capture(p) \/ Close(p) \/ Refund(p)
      PROVE  Staged(g)' /\ CountsIn(g)'
  BY <1>6 DEF Capture, Close, Refund
<1>7. ASSUME NEW p \in Payments, RecordPaid(p) \/ RedeemCoupon(p) \/ RedeemFails(p) \/ Dies(p)
      PROVE  Staged(g)' /\ CountsIn(g)'
  BY <1>7 DEF RecordPaid, RedeemCoupon, RedeemFails, Dies
<1>8. ASSUME NEW p \in Payments, ReadCard(p) \/ Spend(p)
      PROVE  Staged(g)' /\ CountsIn(g)'
  BY <1>8 DEF ReadCard, Spend
<1> HIDE DEF TypeOK, Staged, CountsIn
<1>9. QED
  BY <1>1, <1>3, <1>4, <1>5, <1>6, <1>7, <1>8 DEF Next, Check, Consequence

-----------------------------------------------------------------------------
(* The quota.                                                              *)

(* What a check has counted still holds after the step of another payment  *)
(* by which no payment it would miss came to stand.                        *)
LEMMA CountsKept ==
  ASSUME TypeOK, TypeOK', NEW g \in Payments, CountsHold(g),
         Checking(g)' => Checking(g),
         reads'[g] = reads[g], seen'[g] = seen[g] \/ ~Checking(g)', counted \subseteq counted',
         "flight" \notin reads[g] => (Captured \ raced[g])' \subseteq Captured \ raced[g],
         "flight" \in reads[g] => (Live \ raced[g])' \subseteq Live \ raced[g]
  PROVE  CountsHold(g)'
<1> SUFFICES ASSUME Checking(g)' PROVE CountsHold(g)'
  BY DEF CountsHold
<1> DEFINE c == Captured \ raced[g]
           l == Live \ raced[g]
<1>0. /\ Checking(g) /\ seen'[g] = seen[g] /\ seen[g] \in Nat /\ Quota \in Nat
  BY CheckoutAssumption DEF TypeOK, CheckoutAssumption
<1>1. c \in SUBSET Payments /\ l \in SUBSET Payments /\ l \ counted \in SUBSET Payments
  BY GroupTypes
<1>2. CASE reads[g] = {}
  BY <1>0, <1>2 DEF CountsHold
<1>3. CASE reads[g] = {"usage"}
  <2>1. c' \in SUBSET c /\ Cardinality(c) <= seen[g]
    BY <1>0, <1>3 DEF CountsHold
  <2>2. Cardinality(c') <= Cardinality(c) /\ c' \in SUBSET Payments
    BY <1>1, <2>1, Smaller
  <2>3. Cardinality(c') \in Nat /\ Cardinality(c) \in Nat
    BY <1>1, <2>2, Finite
  <2>4. Cardinality(c') <= seen[g]
    BY <1>0, <2>1, <2>2, <2>3
  <2>5. QED
    BY <1>0, <1>3, <2>4 DEF CountsHold
<1>4. CASE reads[g] = {"flight"}
  <2>1. (l \ counted)' \in SUBSET (l \ counted) /\ Cardinality(l \ counted) <= seen[g]
    BY <1>0, <1>4 DEF CountsHold
  <2>2. Cardinality((l \ counted)') <= Cardinality(l \ counted) /\ (l \ counted)' \in SUBSET Payments
    BY <1>1, <2>1, Smaller
  <2>3. Cardinality((l \ counted)') \in Nat /\ Cardinality(l \ counted) \in Nat
    BY <1>1, <2>2, Finite
  <2>4. Cardinality((l \ counted)') <= seen[g]
    BY <1>0, <2>1, <2>2, <2>3
  <2>5. QED
    BY <1>0, <1>4, <2>4 DEF CountsHold
<1>5. CASE reads[g] = {"usage", "flight"}
  <2>1. l' \in SUBSET l /\ Cardinality(l) < Quota
    BY <1>0, <1>5 DEF CountsHold
  <2>2. Cardinality(l') <= Cardinality(l) /\ l' \in SUBSET Payments
    BY <1>1, <2>1, Smaller
  <2>3. Cardinality(l') \in Nat /\ Cardinality(l) \in Nat
    BY <1>1, <2>2, Finite
  <2>4. Cardinality(l') < Quota
    BY <1>0, <2>1, <2>2, <2>3
  <2>5. QED
    BY <1>0, <1>5, <2>4 DEF CountsHold
<1>6. QED
  BY <1>2, <1>3, <1>4, <1>5 DEF CountsHold, TypeOK

(* The same, when the payments that stand do not change at all.            *)
LEMMA CountsStill ==
  ASSUME TypeOK, TypeOK', NEW g \in Payments, CountsHold(g),
         Checking(g)' => Checking(g),
         reads'[g] = reads[g], seen'[g] = seen[g] \/ ~Checking(g)', counted \subseteq counted',
         raced'[g] = raced[g], status' = status
  PROVE  CountsHold(g)'
<1>1. Captured' = Captured /\ Live' = Live
  BY DEF Captured, Live, InFlight
<1>2. QED
  BY <1>1, CountsKept

(* The first of the two counts.                                            *)
LEMMA FirstCount ==
  ASSUME TypeOK, NEW p \in Payments, CountsHold(p), Stages, reads[p] = {}, pc[p] = "quota"
  PROVE  /\ Cardinality(Captured \ raced[p]) <= seen[p] + Cardinality(counted)
         /\ Cardinality((Live \ raced[p]) \ counted) <= seen[p] + Cardinality(InFlight)
<1>1. seen[p] = 0 /\ Captured \ raced[p] \subseteq counted /\ counted \in SUBSET Payments
  BY DEF Stages, CountsIn, CountsHold, Checking, TypeOK
<1>2. (Live \ raced[p]) \ counted \in SUBSET InFlight
  BY <1>1 DEF Live
<1>3. /\ Cardinality(Captured \ raced[p]) <= Cardinality(counted)
      /\ Cardinality((Live \ raced[p]) \ counted) <= Cardinality(InFlight)
      /\ Cardinality(counted) \in Nat /\ Cardinality(InFlight) \in Nat
  BY <1>1, <1>2, Smaller, Finite, GroupTypes
<1>4. QED
  BY <1>1, <1>3

(* With the second all payments that count are in the sum.                 *)
LEMMA SecondCount ==
  ASSUME TypeOK, NEW p \in Payments, CountsHold(p), pc[p] = "quota"
  PROVE  /\ reads[p] = {"flight"}
              => Cardinality(Live \ raced[p]) <= seen[p] + Cardinality(counted)
         /\ reads[p] = {"usage"}
              => Cardinality(Live \ raced[p]) <= seen[p] + Cardinality(InFlight)
<1> DEFINE l == Live \ raced[p]
           c == Captured \ raced[p]
<1>0. /\ Checking(p) /\ seen[p] \in Nat /\ counted \in SUBSET Payments
      /\ l \in SUBSET Payments /\ c \in SUBSET Payments /\ l \ counted \in SUBSET Payments
      /\ InFlight \in SUBSET Payments
  BY GroupTypes DEF Checking, TypeOK
<1>1. /\ Cardinality(l) \in Nat /\ Cardinality(c) \in Nat /\ Cardinality(l \ counted) \in Nat
      /\ Cardinality(counted) \in Nat /\ Cardinality(InFlight) \in Nat
  BY <1>0, Finite
<1>2. /\ l \in SUBSET ((l \ counted) \cup counted)
      /\ l \in SUBSET (c \cup InFlight)
  BY DEF Live
<1>3. /\ Cardinality(l) <= Cardinality(l \ counted) + Cardinality(counted)
      /\ Cardinality(l) <= Cardinality(c) + Cardinality(InFlight)
  BY <1>0, <1>2, Both
<1>4. /\ reads[p] = {"flight"} => Cardinality(l \ counted) <= seen[p]
      /\ reads[p] = {"usage"} => Cardinality(c) <= seen[p]
  BY <1>0 DEF CountsHold
<1>5. QED
  BY <1>0, <1>1, <1>3, <1>4

LEMMA QuotaInv ==
  ASSUME TypeOK, TypeOK', Stages, QuotaSound, Next
  PROVE  QuotaSound'
<1> SUFFICES ASSUME NEW g \in Payments PROVE CountsHold(g)'
  BY DEF QuotaSound
<1>0. CountsHold(g) /\ Staged(g) /\ CountsIn(g)
  BY DEF QuotaSound, Stages
<1>1. ASSUME NEW p \in Payments, CheckLink(p) \/ \E c \in Carts : Request(p, c)
      PROVE  CountsHold(g)'
  <2>1. CASE g = p
    <3>1. /\ reads'[g] = {} /\ raced'[g] = Captured \ counted
          /\ UNCHANGED <<status, counted>>
      BY <1>0, <1>1, <2>1 DEF Request, CheckLink, CountsIn, TypeOK
    <3>2. Captured' \ raced'[g] \subseteq counted'
      BY <3>1 DEF Captured
    <3>3. QED
      BY <3>1, <3>2 DEF CountsHold
  <2>2. CASE g # p
    <3>1. /\ UNCHANGED <<status, reads, seen, counted>> /\ raced'[g] = raced[g]
          /\ Checking(g)' => Checking(g)
      BY <1>1, <2>2 DEF Request, CheckLink, Checking, Goto, TypeOK
    <3>2. QED
      BY <1>0, <3>1, CountsStill
  <2>3. QED
    BY <2>1, <2>2
<1>2. ASSUME NEW p \in Payments, NEW k \in {"usage", "flight"}, NEW n \in Nat, Count(p, k, n),
             n = Cardinality(IF k = "usage" THEN counted ELSE InFlight)
      PROVE  CountsHold(g)'
  <2>0. UNCHANGED <<status, counted, raced>> /\ pc[p] = "quota" /\ k \notin reads[p]
    BY <1>2 DEF Count, quota
  <2>1. CASE g # p
    <3>1. /\ reads'[g] = reads[g] /\ seen'[g] = seen[g]
          /\ Checking(g)' => Checking(g)
      BY <1>2, <2>1 DEF Count, Checking, Goto, TypeOK
    <3>2. QED
      BY <1>0, <2>0, <3>1, CountsStill
  <2>2. CASE g = p
    <3>1. /\ reads'[g] = reads[g] \cup {k} /\ seen'[g] = seen[g] + n
          /\ Captured' = Captured /\ Live' = Live
      BY <1>2, <2>0, <2>2 DEF Count, TypeOK, Captured, Live, InFlight
    <3>2. CASE reads[g] = {}
      <4>1. reads'[g] = {k}
        BY <3>1, <3>2
      <4>2. k = "usage" => Cardinality(Captured' \ raced'[g]) <= seen'[g]
        BY <1>0, <1>2, <2>0, <2>2, <3>1, <3>2, FirstCount
      <4>3. k = "flight" => Cardinality((Live' \ raced'[g]) \ counted') <= seen'[g]
        BY <1>0, <1>2, <2>0, <2>2, <3>1, <3>2, FirstCount
      <4>4. QED
        BY <4>1, <4>2, <4>3 DEF CountsHold
    <3>3. CASE reads[g] # {}
      <4>1. /\ reads'[g] = {"usage", "flight"}
            /\ k = "usage" => reads[g] = {"flight"}
            /\ k = "flight" => reads[g] = {"usage"}
        BY <1>0, <2>0, <2>2, <3>1, <3>3 DEF CountsIn
      <4>2. CASE seen[g] + n < Quota
        <5>1. Cardinality(Live \ raced[g]) <= seen[g] + n
          BY <1>0, <1>2, <2>0, <2>2, <4>1, SecondCount
        <5>2. /\ Live \ raced[g] \in SUBSET Payments /\ seen[g] \in Nat /\ Quota \in Nat
              /\ Cardinality(Live \ raced[g]) \in Nat
          BY GroupTypes, Finite, CheckoutAssumption DEF TypeOK, CheckoutAssumption
        <5>3. Cardinality(Live \ raced[g]) < Quota
          BY <4>2, <5>1, <5>2
        <5>4. QED
          BY <2>0, <3>1, <4>1, <5>3 DEF CountsHold
      <4>3. CASE ~(seen[g] + n < Quota)
        BY <1>2, <2>2, <3>3, <4>3 DEF Count, Admitted, Goto, TypeOK, CountsHold, Checking
      <4>4. QED
        BY <4>2, <4>3
    <3>4. QED
      BY <3>2, <3>3
  <2>3. QED
    BY <2>1, <2>2
<1>3. ASSUME NEW p \in Payments, ReadUsage(p) \/ CountInFlight(p)
      PROVE  CountsHold(g)'
  <2>1. Cardinality(counted) \in Nat /\ Cardinality(InFlight) \in Nat
    BY Finite, GroupTypes DEF TypeOK
  <2>2. CASE ReadUsage(p)
    BY <1>2, <2>1, <2>2 DEF ReadUsage
  <2>3. CASE CountInFlight(p)
    BY <1>2, <2>1, <2>3 DEF CountInFlight
  <2>4. QED
    BY <1>3, <2>2, <2>3
<1>4. ASSUME NEW p \in Payments, QuoteCoupon(p) \/ QuoteCard(p) \/ CheckFails(p)
      PROVE  CountsHold(g)'
  BY <1>0, <1>4, CountsStill
     DEF QuoteCoupon, QuoteCard, CheckFails, Checking, Goto, TypeOK, quota
<1>5. ASSUME NEW p \in Payments, Insert(p) \/ Capture(p)
      PROVE  CountsHold(g)'
  <2>0. raced'[g] = IF Missed(p, g) THEN raced[g] \cup {p} ELSE raced[g]
    BY <1>5 DEF Insert, Capture, Races, TypeOK
  <2>1. CASE Insert(p)
    <3>1. status[p] = "none"
      BY <2>1 DEF Insert, Stages, Staged, Checks
    <3>2. /\ Captured' = Captured /\ InFlight' = InFlight \cup {p}
          /\ Checking(g)' => Checking(g)
          /\ UNCHANGED <<reads, seen, counted>>
      BY <2>1, <3>1 DEF Insert, Captured, InFlight, TypeOK, Goto, Checking
    <3>3. CASE Checking(g)
      BY <1>0, <2>0, <3>1, <3>2, <3>3, CountsKept DEF Missed, Live
    <3>4. CASE ~Checking(g)
      BY <3>2, <3>4 DEF CountsHold
    <3>5. QED
      BY <3>3, <3>4
  <2>2. CASE Capture(p)
    <3>1. status[p] = "pending"
      BY <2>2 DEF Capture
    <3>2. /\ Captured' = Captured \cup {p} /\ InFlight' = InFlight \ {p} /\ p \in InFlight
          /\ Checking(g)' => Checking(g)
          /\ UNCHANGED <<reads, seen, counted>>
      BY <2>2, <3>1 DEF Capture, Captured, InFlight, TypeOK, Goto, Checking
    <3>3. CASE Checking(g)
      BY <1>0, <2>0, <3>1, <3>2, <3>3, CountsKept DEF Missed, Live
    <3>4. CASE ~Checking(g)
      BY <3>2, <3>4 DEF CountsHold
    <3>5. QED
      BY <3>3, <3>4
  <2>3. QED
    BY <1>5, <2>1, <2>2
<1>6. ASSUME NEW p \in Payments, Close(p) \/ Refund(p)
      PROVE  CountsHold(g)'
  <2>1. /\ Captured' = Captured /\ InFlight' \subseteq InFlight
        /\ Checking(g)' => Checking(g)
        /\ UNCHANGED <<reads, seen, counted, raced>>
    BY <1>6 DEF Close, Refund, Captured, InFlight, TypeOK, Goto, Checking, quota
  <2>2. QED
    BY <1>0, <2>1, CountsKept DEF Live
<1>7. ASSUME NEW p \in Payments,
             RecordPaid(p) \/ RedeemCoupon(p) \/ RedeemFails(p) \/ Spend(p) \/ Dies(p)
      PROVE  CountsHold(g)'
  <2>1. /\ UNCHANGED <<status, reads, raced, seen>> /\ counted \subseteq counted'
        /\ Checking(g)' => Checking(g)
    BY <1>7 DEF RecordPaid, RedeemCoupon, RedeemFails, Spend, Dies, quota, Checking, Goto, TypeOK
  <2>2. QED
    BY <1>0, <2>1, CountsStill
<1>8. ASSUME NEW p \in Payments, ReadCard(p)
      PROVE  CountsHold(g)'
  <2>1. /\ UNCHANGED <<status, reads, raced, counted>>
        /\ Checking(g)' => Checking(g) /\ seen'[g] = seen[g]
    BY <1>8 DEF ReadCard, quota, Checking, Goto, TypeOK
  <2>2. QED
    BY <1>0, <2>1, CountsStill
<1>9. QED
  BY <1>1, <1>3, <1>4, <1>5, <1>6, <1>7, <1>8 DEF Next, Check, Consequence

-----------------------------------------------------------------------------
(* The coupon.                                                             *)

LEMMA CouponInv ==
  ASSUME TypeOK, TypeOK', Stages, CouponSound, Next
  PROVE  CouponSound'
<1>0. /\ redemptions = Cardinality(redeemed)
      /\ \A p \in redeemed : /\ status[p] \in Kept /\ "coupon" \in cart[p] /\ p \in Payments
                              /\ pc[p] \in {"debit", "spend", "done"}
  BY DEF CouponSound, RedemptionsAreCounted, Captured, Kept, TypeOK
<1>1. SUFFICES /\ redemptions' = Cardinality(redeemed')
               /\ \A p \in redeemed' : /\ status'[p] \in Kept /\ "coupon" \in cart'[p]
                                        /\ pc'[p] \in {"debit", "spend", "done"}
  BY DEF CouponSound, RedemptionsAreCounted, Captured, Kept, TypeOK
<1> USE DEF TypeOK, Goto, Kept, coupon, card, quota
<1>2. ASSUME NEW p \in Payments,
             \/ \E c \in Carts : Request(p, c)
             \/ Check(p) \/ CheckFails(p) \/ Capture(p) \/ Close(p)
      PROVE  /\ pc[p] \notin {"redeem", "debit", "spend", "done"}
             /\ UNCHANGED coupon
             /\ \A q \in Payments \ {p} : /\ status'[q] = status[q] /\ cart'[q] = cart[q]
                                          /\ pc'[q] = pc[q]
  <2>1. CASE CheckLink(p) \/ \E c \in Carts : Request(p, c)
    BY <2>1 DEF Request, CheckLink
  <2>2. CASE ReadUsage(p) \/ CountInFlight(p)
    BY <2>2 DEF ReadUsage, CountInFlight, Count
  <2>3. CASE QuoteCoupon(p) \/ QuoteCard(p)
    BY <2>3 DEF QuoteCoupon, QuoteCard
  <2>4. CASE Insert(p) \/ CheckFails(p)
    BY <2>4 DEF Insert, CheckFails, Checking
  <2>5. CASE Capture(p) \/ Close(p)
    <3>1. status[p] = "pending" /\ Staged(p)
      BY <2>5 DEF Capture, Close, Stages
    <3>2. pc[p] = "open"
      BY <3>1 DEF Staged, Checks
    <3>3. QED
      BY <2>5, <3>2 DEF Capture, Close
  <2>6. QED
    BY <1>2, <2>1, <2>2, <2>3, <2>4, <2>5 DEF Check
<1>3. CASE \E p \in Payments : \/ \E c \in Carts : Request(p, c)
                              \/ Check(p) \/ CheckFails(p) \/ Capture(p) \/ Close(p)
  BY <1>0, <1>2, <1>3
<1>4. ASSUME NEW p \in Payments, Refund(p) \/ RecordPaid(p) \/ RedeemFails(p) \/ Dies(p)
      PROVE  <1>1!1
  BY <1>0, <1>4 DEF Refund, RecordPaid, RedeemFails, Dies
<1>5. ASSUME NEW p \in Payments, ReadCard(p) \/ Spend(p)
      PROVE  <1>1!1
  BY <1>0, <1>5 DEF ReadCard, Spend
<1>6. ASSUME NEW p \in Payments, RedeemCoupon(p)
      PROVE  <1>1!1
  <2>1. pc[p] = "redeem" /\ p \notin redeemed /\ status[p] \in Kept
    BY <1>0, <1>6 DEF RedeemCoupon, Stages, Staged
  <2>2. UNCHANGED <<status, cart>> /\ pc' = [pc EXCEPT ![p] = "debit"]
    BY <1>6 DEF RedeemCoupon
  <2>3. CASE "coupon" \in cart[p]
    <3>1. redeemed' = redeemed \cup {p} /\ redemptions' = redemptions + 1
      BY <1>6, <2>3 DEF RedeemCoupon
    <3>2. IsFiniteSet(redeemed)
      BY Finite
    <3>3. Cardinality(redeemed') = Cardinality(redeemed) + 1
      BY <2>1, <3>1, <3>2, FS_AddElement
    <3>4. QED
      BY <1>0, <2>1, <2>2, <2>3, <3>1, <3>3
  <2>4. CASE "coupon" \notin cart[p]
    <3>1. UNCHANGED coupon
      BY <1>6, <2>4 DEF RedeemCoupon
    <3>2. QED
      BY <1>0, <2>2, <3>1
  <2>5. QED
    BY <2>3, <2>4
<1>7. QED
  BY <1>3, <1>4, <1>5, <1>6 DEF Next, Consequence

-----------------------------------------------------------------------------
(* The card.                                                               *)

LEMMA SpendInv ==
  ASSUME TypeOK, BalanceFollowsJournal, NEW p \in Payments, Spend(p)
  PROVE  BalanceFollowsJournal'
<1> DEFINE left == Monus(seen[p], applied[p])
           d    == Debit(p, applied[p], left)
           n    == Len(debits)
<1>1. CASE ~SameBalance(p)
  BY <1>1 DEF Spend, card, BalanceFollowsJournal, BalanceBefore
<1>2. CASE SameBalance(p)
  <2>1. /\ balance' = left /\ debits' = Append(debits, d) /\ seen[p] = balance
        /\ d.balance = left /\ d.applied = applied[p]
    BY <1>2 DEF Spend, SameBalance, Debit
  <2> HIDE DEF left, d
  <2>2. /\ n \in Nat /\ Len(debits') = n + 1 /\ debits'[n + 1] = d
        /\ \A i \in 1 .. n : debits'[i] = debits[i]
    BY <2>1 DEF TypeOK
  <2>3. \A i \in 1 .. n + 1 : BalanceBefore(i)' = BalanceBefore(i)
    <3> SUFFICES ASSUME NEW i \in 1 .. n + 1 PROVE BalanceBefore(i)' = BalanceBefore(i)
      OBVIOUS
    <3>1. CASE i = 1
      BY <3>1 DEF BalanceBefore
    <3>2. CASE i # 1
      <4>1. i - 1 \in 1 .. n
        BY <2>2, <3>2
      <4>2. QED
        BY <2>2, <3>2, <4>1 DEF BalanceBefore
    <3>3. QED
      BY <3>1, <3>2
  <2>4. balance = BalanceBefore(n + 1)
    BY DEF BalanceFollowsJournal
  <2>5. ASSUME NEW i \in 1 .. n + 1
        PROVE  debits'[i].balance = Monus(BalanceBefore(i)', debits'[i].applied)
    <3>1. CASE i = n + 1
      BY <2>1, <2>2, <2>3, <2>4, <3>1 DEF left
    <3>2. CASE i # n + 1
      <4>1. i \in 1 .. n
        BY <2>2, <3>2
      <4>2. QED
        BY <2>2, <2>3, <4>1 DEF BalanceFollowsJournal
    <3>3. QED
      BY <3>1, <3>2
  <2>6. balance' = BalanceBefore(Len(debits) + 1)'
    <3>1. /\ Len(debits') + 1 # 1 /\ Len(debits') + 1 - 1 = n + 1
          /\ debits'[n + 1].balance = balance'
      BY <2>1, <2>2
    <3>2. QED
      BY <3>1 DEF BalanceBefore
  <2>7. \A i \in 1 .. Len(debits') : debits'[i].balance = Monus(BalanceBefore(i)', debits'[i].applied)
    BY <2>2, <2>5
  <2>8. QED
    BY <2>6, <2>7 DEF BalanceFollowsJournal
<1>3. QED
  BY <1>1, <1>2

LEMMA CardInv ==
  ASSUME TypeOK, BalanceFollowsJournal, Next
  PROVE  BalanceFollowsJournal'
<1>1. ASSUME NEW p \in Payments, Spend(p)
      PROVE  BalanceFollowsJournal'
  BY <1>1, SpendInv
<1>2. ASSUME NEW p \in Payments,
             \/ \E c \in Carts : Request(p, c)
             \/ Check(p) \/ CheckFails(p) \/ Capture(p) \/ Close(p) \/ Refund(p)
      PROVE  UNCHANGED card
  BY <1>2 DEF Request, Check, CheckLink, ReadUsage, CountInFlight, Count, QuoteCoupon, QuoteCard,
              Insert, CheckFails, Capture, Close, Refund, card
<1>3. ASSUME NEW p \in Payments,
             RecordPaid(p) \/ RedeemCoupon(p) \/ RedeemFails(p) \/ ReadCard(p) \/ Dies(p)
      PROVE  UNCHANGED card
  BY <1>3 DEF RecordPaid, RedeemCoupon, RedeemFails, ReadCard, Dies, card
<1>4. UNCHANGED card => BalanceFollowsJournal'
  BY DEF card, BalanceFollowsJournal, BalanceBefore
<1>5. QED
  BY <1>1, <1>2, <1>3, <1>4 DEF Next, Consequence

-----------------------------------------------------------------------------
LEMMA StepInv == IInv /\ [Next]_vars => IInv'
<1>1. IInv /\ Next => IInv'
  <2> SUFFICES ASSUME IInv, Next PROVE IInv'
    OBVIOUS
  <2>1. TypeOK'
    BY CheckTypes, EndTypes DEF IInv, Next
  <2>2. QED
    BY <2>1, StagesInv, QuotaInv, CouponInv, CardInv DEF IInv
<1>2. IInv /\ UNCHANGED vars => IInv'
  <2> SUFFICES ASSUME IInv, UNCHANGED vars PROVE IInv'
    OBVIOUS
  <2>1. TypeOK' /\ Stages'
    BY DEF IInv, vars, TypeOK, Stages, Staged, CountsIn
  <2>2. QuotaSound'
    BY DEF IInv, vars, QuotaSound, CountsHold, Checking, Live, Captured, InFlight
  <2>3. CouponSound' /\ BalanceFollowsJournal'
    BY DEF IInv, vars, CouponSound, RedemptionsAreCounted, Captured, BalanceFollowsJournal,
           BalanceBefore
  <2>4. QED
    BY <2>1, <2>2, <2>3 DEF IInv
<1>3. QED
  BY <1>1, <1>2

LEMMA Invariance == Spec => []IInv
  BY InitInv, StepInv, PTL DEF Spec

(* Types: in particular the card's balance never leaves 0 .. Initial.      *)
THEOREM TypeCorrect == Spec => []TypeOK
<1>1. IInv => TypeOK
  BY DEF IInv
<1>2. QED
  BY <1>1, Invariance, PTL

(* The quota is passed by no more than the payments that raced, whatever   *)
(* the order of the two counts and of what happens between them.           *)
THEOREM QuotaStands == Spec => QuotaHoldsUnlessRaced
<1>1. IInv /\ [Next]_vars
        => [\A p \in Payments : pc[p] = "insert" /\ pc'[p] = "open"
              => Cardinality((InFlight \cup Captured) \ raced[p]) < Quota]_vars
  <2> SUFFICES ASSUME IInv, NEW p \in Payments, pc[p] = "insert"
               PROVE  Cardinality((InFlight \cup Captured) \ raced[p]) < Quota
    OBVIOUS
  <2>1. Checking(p) /\ reads[p] = {"usage", "flight"} /\ CountsHold(p)
    BY DEF IInv, Stages, CountsIn, QuotaSound, Checking
  <2>2. QED
    BY <2>1 DEF CountsHold, Live
<1>2. QED
  BY <1>1, Invariance, PTL DEF Spec, QuotaHoldsUnlessRaced

(* The coupon's counter is that of its redemptions, one to a captured      *)
(* payment.                                                                *)
THEOREM CouponCounts == Spec => []RedemptionsAreCounted
<1>1. IInv => RedemptionsAreCounted
  BY DEF IInv, CouponSound
<1>2. QED
  BY <1>1, Invariance, PTL

(* The card's balance is what its transactions say.                        *)
THEOREM CardBalances == Spec => []BalanceFollowsJournal
<1>1. IInv => BalanceFollowsJournal
  BY DEF IInv
<1>2. QED
  BY <1>1, Invariance, PTL

-----------------------------------------------------------------------------
(* Billing (module Billing) of the same organization.                      *)

(* The periodic sweep is one repeated job of a worker that takes one job   *)
(* at a time.                                                              *)
OneSweep == \A s, t \in Sweepers : s = t

AtInvoice == {"check", "mark", "find", "activate", "revenue", "org", "pastdue", "suspend"}

(* Who works on an invoice has one.                                        *)
HasInvoice ==
  /\ \A x \in Procs : billPc[x] = "khqr" => inv[x] \in Invoices
  /\ \A s \in Sweepers : billPc[s] \in AtInvoice => inv[s] \in Invoices

BillsTyped == BillingTypeOK /\ HasInvoice

LEMMA LeastExists ==
  ASSUME NEW S \in SUBSET Nat, S # {}
  PROVE  \E i \in S : \A j \in S : i <= j
<1> DEFINE R == OpToRel(<, Nat)
<1>1. \A i, j \in Nat : j < i => <<j, i>> \in R
  BY DEF OpToRel
<1>2. IsWellFoundedOn(R, Nat)
  BY NatLessThanWellFounded
<1> HIDE DEF R
<1>3. PICK i \in S : \A j \in S : ~ (<<j, i>> \in R)
  BY <1>2, WFMin
<1>4. ASSUME NEW j \in S PROVE i <= j
  <2>1. i \in Nat /\ j \in Nat
    OBVIOUS
  <2>2. ~ (j < i)
    BY <1>1, <1>3, <2>1
  <2>3. QED
    BY <2>1, <2>2
<1>5. QED
  BY <1>4

(* The oldest overdue invoice is one.                                      *)
LEMMA OldestIsOverdue ==
  ASSUME Overdue # {}
  PROVE  (CHOOSE i \in Overdue : \A j \in Overdue : i <= j) \in Overdue
<1>1. Overdue \in SUBSET Nat
  BY BillingAssumption DEF Overdue, Open, Invoices
<1>2. \E i \in Overdue : \A j \in Overdue : i <= j
  BY <1>1, LeastExists
<1>3. QED
  BY <1>2

LEMMA BillsInit == BillingInit => BillsTyped
  BY BillingAssumption DEF BillingInit, BillsTyped, BillingTypeOK, HasInvoice, Invoices, Procs, AtInvoice

(* Subscriptions change their status and period where they stand.          *)
SubType == [status : {"ACTIVE", "PAST_DUE", "CANCELLED"}, source : 0 .. MaxInvoices, lapsed : BOOLEAN]

LEMMA SubsStand ==
  ASSUME subs \in Seq(SubType), NEW t, t = [k \in DOMAIN subs |-> t[k]],
         \A k \in DOMAIN subs : t[k] \in SubType
  PROVE  t \in Seq(SubType) /\ DOMAIN t = DOMAIN subs
<1>1. Len(subs) \in Nat /\ DOMAIN subs = 1 .. Len(subs)
  OBVIOUS
<1>2. t \in [1 .. Len(subs) -> SubType]
  BY <1>1
<1>3. QED
  BY <1>1, <1>2

(* Time, the payer, the administrator, and a period that ends.             *)
LEMMA BillsAround ==
  ASSUME BillsTyped,
         \/ \E i \in Invoices : Age(i) \/ Pay(i)
         \/ \E k \in DOMAIN subs : Lapse(k)
         \/ \E b \in BOOLEAN : SetSuspended(b)
         \/ UNCHANGED billingVars
  PROVE  BillsTyped'
<1> USE DEF BillsTyped, BillingTypeOK, HasInvoice, bills, account, local, bounds
<1> USE BillingAssumption
<1>1. ASSUME NEW i \in Invoices, Age(i) PROVE BillsTyped'
  <2>1. age[i] \in 0 .. 2 /\ age[i] < 2 /\ age' = [age EXCEPT ![i] = age[i] + 1]
    BY <1>1 DEF Age
  <2>2. age' \in [Invoices -> 0 .. 2]
    BY <2>1
  <2>3. QED
    BY <1>1, <2>2 DEF Age
<1>2. ASSUME NEW i \in Invoices, Pay(i) PROVE BillsTyped'
  BY <1>2 DEF Pay
<1>3. ASSUME NEW k \in DOMAIN subs, Lapse(k) PROVE BillsTyped'
  <2>1. subs' = [subs EXCEPT ![k].lapsed = TRUE] /\ subs \in Seq(SubType)
    BY <1>3 DEF Lapse, SubType
  <2>2. subs' = [m \in DOMAIN subs |-> subs'[m]]
    BY <2>1
  <2>3. \A m \in DOMAIN subs : subs[m] \in SubType
    BY <2>1
  <2>4. \A m \in DOMAIN subs : subs'[m] = IF m = k THEN [subs[k] EXCEPT !.lapsed = TRUE] ELSE subs[m]
    BY <2>1
  <2>5. \A m \in DOMAIN subs : subs'[m] \in SubType
    BY <2>3, <2>4 DEF SubType
  <2>6. subs' \in Seq(SubType) /\ DOMAIN subs' = DOMAIN subs
    BY <2>1, <2>2, <2>5, SubsStand
  <2>7. QED
    BY <1>3, <2>6 DEF Lapse, SubType
<1>4. ASSUME NEW b \in BOOLEAN, SetSuspended(b) PROVE BillsTyped'
  BY <1>4 DEF SetSuspended
<1>5. ASSUME UNCHANGED billingVars PROVE BillsTyped'
  BY <1>5 DEF billingVars
<1>6. QED
  BY <1>1, <1>2, <1>3, <1>4, <1>5

(* Requests to subscribe, and what they share with the sweep.              *)
LEMMA BillsShared ==
  ASSUME BillsTyped,
         \/ \E x \in Owners : SubscribeFree(x) \/ SubscribePaid(x)
         \/ \E x \in Procs : Either(x) \/ BillingDies(x)
  PROVE  BillsTyped'
<1> USE DEF BillsTyped, BillingTypeOK, HasInvoice, bills, account, local, bounds, BillGoto, Procs,
            Invoices, AtInvoice
<1> USE BillingAssumption
<1>1. ASSUME NEW x \in Owners, SubscribeFree(x) PROVE BillsTyped'
  BY <1>1 DEF SubscribeFree
<1>2. ASSUME NEW x \in Owners, SubscribePaid(x) PROVE BillsTyped'
  BY <1>2 DEF SubscribePaid
<1>3. ASSUME NEW x \in Procs, CreateInvoice(x) PROVE BillsTyped'
  BY <1>3 DEF CreateInvoice
<1>4. ASSUME NEW x \in Procs, AttachQr(x) PROVE BillsTyped'
  BY <1>4 DEF AttachQr
<1>5. ASSUME NEW x \in Procs, FindCurrent(x) PROVE BillsTyped'
  BY <1>5 DEF FindCurrent, Current
<1>6. ASSUME NEW x \in Procs, ActivatePlan(x) PROVE BillsTyped'
  <2> DEFINE t == [k \in DOMAIN subs |->
                     IF k \in old[x] THEN [subs[k] EXCEPT !.status = "CANCELLED"] ELSE subs[k]]
  <2>1. subs' = Append(t, Sub("ACTIVE", inv[x])) /\ subs \in Seq(SubType) /\ inv[x] \in 0 .. MaxInvoices
    BY <1>6 DEF ActivatePlan, SubType
  <2>2. \A k \in DOMAIN subs : subs[k] \in SubType
    BY <2>1
  <2>3. \A k \in DOMAIN subs : t[k] \in SubType
    BY <2>2 DEF SubType
  <2>4. t \in Seq(SubType) /\ DOMAIN t = DOMAIN subs
    <3>1. t = [k \in DOMAIN subs |-> t[k]]
      OBVIOUS
    <3> HIDE DEF t
    <3>2. QED
      BY <2>1, <2>3, <3>1, SubsStand
  <2>5. Sub("ACTIVE", inv[x]) \in SubType
    BY <2>1 DEF Sub, SubType
  <2> HIDE DEF t
  <2>6. subs' \in Seq(SubType) /\ DOMAIN subs \subseteq DOMAIN subs'
    BY <2>1, <2>4, <2>5
  <2>7. old' \in [Procs -> SUBSET DOMAIN subs']
    BY <1>6, <2>6 DEF ActivatePlan
  <2>8. billPc' = [billPc EXCEPT ![x] = IF x \in Sweepers THEN "revenue" ELSE "idle"]
    BY <1>6 DEF ActivatePlan
  <2>9. UNCHANGED <<invoice, qr, age, received, revenue, todo, inv, orders, billFaults>>
        /\ org' = "ACTIVE" /\ grace' = 0
    BY <1>6 DEF ActivatePlan
  <2>10. HasInvoice'
    BY <1>6, <2>8, <2>9 DEF ActivatePlan
  <2>11. QED
    BY <2>6, <2>7, <2>8, <2>9, <2>10 DEF SubType
<1>7. ASSUME NEW x \in Procs, BillingDies(x) PROVE BillsTyped'
  BY <1>7 DEF BillingDies, BillFault
<1>8. QED
  BY <1>1, <1>2, <1>3, <1>4, <1>5, <1>6, <1>7 DEF Either

(* The sweep.                                                              *)
LEMMA BillsSweep ==
  ASSUME BillsTyped, NEW s \in Sweepers, Sweep(s) \/ ConfirmFails(s)
  PROVE  BillsTyped'
<1> USE DEF BillsTyped, BillingTypeOK, HasInvoice, bills, account, local, bounds, BillGoto, Procs,
            AtInvoice
<1> USE BillingAssumption
<1>1. ASSUME Begin(s) PROVE BillsTyped'
  BY <1>1 DEF Begin, Open
<1>2. ASSUME Poll(s) PROVE BillsTyped'
  BY <1>2 DEF Poll, Invoices
<1>3. ASSUME PollDone(s) PROVE BillsTyped'
  BY <1>3 DEF PollDone
<1>4. ASSUME CheckInvoice(s) PROVE BillsTyped'
  BY <1>4 DEF CheckInvoice
<1>5. ASSUME MarkPaid(s) PROVE BillsTyped'
  BY <1>5 DEF MarkPaid
<1>6. ASSUME PostRevenue(s) PROVE BillsTyped'
  BY <1>6 DEF PostRevenue
<1>7. ASSUME FindDue(s) PROVE BillsTyped'
  BY <1>7 DEF FindDue
<1>8. ASSUME CountOpen(s) PROVE BillsTyped'
  BY <1>8 DEF CountOpen
<1>9. ASSUME FindOverdue(s) PROVE BillsTyped'
  <2>1. CASE Overdue = {}
    BY <1>9, <2>1 DEF FindOverdue
  <2>2. CASE Overdue # {}
    <3>1. PICK i \in Invoices : inv' = [inv EXCEPT ![s] = i] /\ billPc' = [billPc EXCEPT ![s] = "org"]
      BY <1>9, <2>2, OldestIsOverdue DEF FindOverdue, Overdue, Open
    <3>2. QED
      BY <1>9, <3>1 DEF FindOverdue, Invoices
  <2>3. QED
    BY <2>1, <2>2
<1>10. ASSUME ReadOrg(s) PROVE BillsTyped'
  <2> DEFINE l == CASE grace = 0                       -> "pastdue"
                    [] GraceOver /\ org = "ACTIVE"   -> "suspend"
                    [] OTHER                           -> "idle"
  <2>1. l \in {"pastdue", "suspend", "idle"}
    OBVIOUS
  <2>2. billPc' = [billPc EXCEPT ![s] = l]
    BY <1>10, Zenon DEF ReadOrg
  <2> HIDE DEF l
  <2>3. QED
    BY <1>10, <2>1, <2>2 DEF ReadOrg
<1>11. ASSUME PastDue(s) PROVE BillsTyped'
  <2> DEFINE t == [k \in DOMAIN subs |->
                IF subs[k].status = "ACTIVE" THEN [subs[k] EXCEPT !.status = "PAST_DUE"] ELSE subs[k]]
  <2>1. subs' = t /\ subs \in Seq(SubType)
    BY <1>11 DEF PastDue, SubType
  <2>2. \A k \in DOMAIN subs : subs[k] \in SubType
    BY <2>1
  <2>3. \A k \in DOMAIN subs : t[k] \in SubType
    BY <2>2 DEF SubType
  <2>4. t \in Seq(SubType) /\ DOMAIN t = DOMAIN subs
    <3>1. t = [k \in DOMAIN subs |-> t[k]]
      OBVIOUS
    <3> HIDE DEF t
    <3>2. QED
      BY <2>1, <2>3, <3>1, SubsStand
  <2> HIDE DEF t
  <2>5. QED
    BY <1>11, <2>1, <2>4 DEF PastDue, SubType
<1>12. ASSUME Suspend(s) PROVE BillsTyped'
  BY <1>12 DEF Suspend
<1>13. ASSUME ConfirmFails(s) PROVE BillsTyped'
  BY <1>13 DEF ConfirmFails, BillFault
<1>14. QED
  BY <1>1, <1>2, <1>3, <1>4, <1>5, <1>6, <1>7, <1>8, <1>9, <1>10, <1>11, <1>12, <1>13 DEF Sweep

LEMMA BillsStep == BillsTyped /\ [BillingNext]_billingVars => BillsTyped'
  BY BillsAround, BillsShared, BillsSweep DEF BillingNext

LEMMA BillsInvariance == BillingSpec => []BillsTyped
  BY BillsInit, BillsStep, PTL DEF BillingSpec

(* Types: among others, every subscription points to an invoice or to none.*)
THEOREM BillingTypeCorrect == BillingSpec => []BillingTypeOK
<1>1. BillsTyped => BillingTypeOK
  BY DEF BillsTyped
<1>2. QED
  BY <1>1, BillsInvariance, PTL

-----------------------------------------------------------------------------
(* The dunning of one sweep: the invoice it duns for stays overdue, since  *)
(* only the sweep itself marks invoices paid; as long as nothing fails the *)
(* grace period is that of an open invoice or about to be cleared; and who *)
(* is about to suspend has seen it run out.                                *)
DunsOverdue == \A s \in Sweepers : billPc[s] \in {"org", "pastdue", "suspend"} => inv[s] \in Overdue

GraceOpen ==
  billFaults = 0 /\ grace > 0 =>
    \/ invoice[grace] = "open"
    \/ \E s \in Sweepers : billPc[s] \in {"find", "activate"}

PastGrace == \E i \in Overdue : age[i] = 2

SuspendsLate == \A s \in Sweepers : billPc[s] = "suspend" /\ billFaults = 0 => PastGrace

DunInv == DunsOverdue /\ GraceOpen /\ SuspendsLate

LEMMA DunInit == BillingInit => DunInv
  BY DEF BillingInit, DunInv, DunsOverdue, GraceOpen, SuspendsLate, Procs

(* Unless an invoice is marked paid, what is overdue stays overdue.        *)
LEMMA OverdueGrows ==
  ASSUME BillsTyped, [BillingNext]_billingVars, \A s \in Sweepers : ~MarkPaid(s)
  PROVE  /\ \A i \in Invoices : invoice[i] = "open" => invoice'[i] = "open"
         /\ Overdue \subseteq Overdue'
         /\ PastGrace => PastGrace'
<1>1. \A i \in Invoices : invoice[i] = "open" => invoice'[i] = "open"
  <2>1. ASSUME NEW x \in Procs, CreateInvoice(x)
        PROVE  \A i \in Invoices : invoice[i] = "open" => invoice'[i] = "open"
    BY <2>1 DEF CreateInvoice, BillsTyped, BillingTypeOK
  <2>2. CASE invoice' = invoice
    BY <2>2
  <2>3. QED
    BY <2>1, <2>2 DEF BillingNext, Sweep, Either, Age, Pay, Lapse, SetSuspended, SubscribeFree,
          SubscribePaid, AttachQr, Begin, Poll, PollDone, CheckInvoice, FindCurrent,
          ActivatePlan, PostRevenue, ConfirmFails, FindDue, CountOpen, FindOverdue, ReadOrg,
          PastDue, Suspend, BillingDies, bills, billingVars
<1>2. \A i \in Invoices : age'[i] >= age[i] /\ age[i] \in 0 .. 2 /\ age'[i] \in 0 .. 2
  <2>1. ASSUME NEW j \in Invoices, Age(j)
        PROVE  \A i \in Invoices : age'[i] >= age[i] /\ age[i] \in 0 .. 2 /\ age'[i] \in 0 .. 2
    BY <2>1 DEF Age, BillsTyped, BillingTypeOK
  <2>2. CASE age' = age
    BY <2>2 DEF BillsTyped, BillingTypeOK
  <2>3. QED
    BY <2>1, <2>2 DEF BillingNext, Sweep, Either, CreateInvoice, Pay, Lapse, SetSuspended,
          SubscribeFree, SubscribePaid, AttachQr, Begin, Poll, PollDone, CheckInvoice, FindCurrent,
          ActivatePlan, PostRevenue, ConfirmFails, FindDue, CountOpen, FindOverdue, ReadOrg,
          PastDue, Suspend, BillingDies, bills, billingVars
<1>3. Overdue \subseteq Overdue'
  BY <1>1, <1>2 DEF Overdue, Open
<1>4. PastGrace => PastGrace'
  <2> SUFFICES ASSUME NEW i \in Overdue, age[i] = 2 PROVE PastGrace'
    BY DEF PastGrace
  <2>1. i \in Overdue' /\ i \in Invoices
    BY <1>3 DEF Overdue, Open
  <2>2. age'[i] = 2
    BY <1>2, <2>1
  <2>3. QED
    BY <2>1, <2>2 DEF PastGrace
<1>5. QED
  BY <1>1, <1>3, <1>4

(* The sweep's own steps, in the order in which it duns.                   *)
LEMMA DunSweep ==
  ASSUME OneSweep, BillsTyped, DunInv, NEW s \in Sweepers,
         MarkPaid(s) \/ FindOverdue(s) \/ ReadOrg(s) \/ PastDue(s)
  PROVE  DunInv'
<1> USE DEF BillsTyped, BillingTypeOK, Procs, OneSweep, BillGoto, bills, account, local, bounds
<1>1. ASSUME MarkPaid(s) PROVE DunInv'
  <2>1. billPc' = [billPc EXCEPT ![s] = "find"] /\ \A t \in Sweepers : billPc'[t] = "find"
    BY <1>1 DEF MarkPaid
  <2>2. QED
    BY <2>1 DEF DunInv, DunsOverdue, GraceOpen, SuspendsLate
<1>2. ASSUME FindOverdue(s) PROVE DunInv'
  <2>1. UNCHANGED <<invoice, age, grace, billFaults>> /\ billPc[s] = "dun"
    BY <1>2 DEF FindOverdue
  <2>2. Overdue' = Overdue
    BY <2>1 DEF Overdue, Open
  <2>3. CASE Overdue = {}
    <3>1. \A t \in Sweepers : billPc'[t] = "idle"
      BY <1>2, <2>3 DEF FindOverdue
    <3>2. QED
      BY <2>1, <3>1 DEF DunInv, DunsOverdue, GraceOpen, SuspendsLate
  <2>4. CASE Overdue # {}
    <3>1. PICK i \in Overdue : inv' = [inv EXCEPT ![s] = i] /\ billPc' = [billPc EXCEPT ![s] = "org"]
      BY <1>2, <2>4, OldestIsOverdue DEF FindOverdue
    <3>2. \A t \in Sweepers : billPc'[t] = "org" /\ inv'[t] \in Overdue
      BY <3>1
    <3>3. QED
      BY <2>1, <2>2, <3>2 DEF DunInv, DunsOverdue, GraceOpen, SuspendsLate
  <2>5. QED
    BY <2>3, <2>4
<1>3. ASSUME ReadOrg(s) PROVE DunInv'
  <2>1. UNCHANGED <<invoice, age, grace, billFaults, inv>> /\ billPc[s] = "org"
    BY <1>3 DEF ReadOrg
  <2>2. Overdue' = Overdue /\ (PastGrace => PastGrace')
    BY <2>1 DEF Overdue, Open, PastGrace
  <2>3. PICK l \in {"pastdue", "suspend", "idle"} : \A t \in Sweepers : billPc'[t] = l
    BY <1>3 DEF ReadOrg
  <2>4. DunsOverdue' /\ GraceOpen'
    BY <2>1, <2>2, <2>3 DEF DunInv, DunsOverdue, GraceOpen
  <2>5. ASSUME NEW t \in Sweepers, billPc'[t] = "suspend", billFaults = 0
        PROVE  PastGrace
    <3>1. grace > 0 /\ grace \in Invoices /\ age[grace] = 2
      BY <1>3, <2>5, BillingAssumption DEF ReadOrg, GraceOver, Invoices
    <3>2. invoice[grace] = "open"
      BY <2>1, <2>5, <3>1 DEF DunInv, GraceOpen
    <3>3. QED
      BY <3>1, <3>2 DEF PastGrace, Overdue, Open
  <2>6. SuspendsLate'
    BY <2>1, <2>2, <2>5 DEF SuspendsLate
  <2>7. QED
    BY <2>4, <2>6 DEF DunInv
<1>4. ASSUME PastDue(s) PROVE DunInv'
  <2>1. UNCHANGED <<invoice, age>> /\ grace' = inv[s] /\ \A t \in Sweepers : billPc'[t] = "idle"
    BY <1>4 DEF PastDue
  <2>2. invoice[inv[s]] = "open"
    BY <1>4 DEF PastDue, DunInv, DunsOverdue, Overdue, Open
  <2>3. QED
    BY <2>1, <2>2 DEF DunInv, DunsOverdue, GraceOpen, SuspendsLate
<1>5. QED
  BY <1>1, <1>2, <1>3, <1>4

GraceKept ==
  /\ grace' = grace
  /\ \A s \in Sweepers : billPc[s] \in {"find", "activate"} => billPc'[s] \in {"find", "activate"}

(* A step neither duns nor touches the grace period, or it clears it, or   *)
(* something fails.                                                        *)
Calm ==
  /\ billFaults' = 0 => billFaults = 0
  /\ \/ grace' = 0
     \/ billFaults' = 0 => GraceKept
  /\ \A s \in Sweepers :
       billPc'[s] \in {"org", "pastdue", "suspend"} => billPc'[s] = billPc[s] /\ inv'[s] = inv[s]

LEMMA DunCalm ==
  ASSUME BillsTyped, DunInv, [BillingNext]_billingVars, Calm, \A s \in Sweepers : ~MarkPaid(s)
  PROVE  DunInv'
<1>1. /\ \A i \in Invoices : invoice[i] = "open" => invoice'[i] = "open"
      /\ Overdue \subseteq Overdue'
      /\ PastGrace => PastGrace'
  BY OverdueGrows
<1>2. DunsOverdue'
  BY <1>1 DEF Calm, DunInv, DunsOverdue
<1>3. GraceOpen'
  <2>1. CASE grace' = 0
    BY <2>1 DEF GraceOpen
  <2>2. CASE billFaults' = 0 => GraceKept
    <3>1. grace > 0 => grace \in Invoices
      BY BillingAssumption DEF BillsTyped, BillingTypeOK, Invoices
    <3>2. QED
      BY <1>1, <2>2, <3>1 DEF Calm, GraceKept, DunInv, GraceOpen
  <2>3. QED
    BY <2>1, <2>2 DEF Calm
<1>4. SuspendsLate'
  BY <1>1 DEF Calm, DunInv, SuspendsLate
<1>5. QED
  BY <1>2, <1>3, <1>4 DEF DunInv

LEMMA CalmAround ==
  ASSUME BillsTyped,
         \/ \E i \in Invoices : Age(i) \/ Pay(i)
         \/ \E k \in DOMAIN subs : Lapse(k)
         \/ \E b \in BOOLEAN : SetSuspended(b)
         \/ UNCHANGED billingVars
  PROVE  Calm /\ UNCHANGED billPc
<1>1. UNCHANGED <<billPc, inv, billFaults>> /\ (grace' = grace \/ grace' = 0)
  BY DEF Age, Pay, Lapse, SetSuspended, billingVars, account, local, bounds
<1>2. QED
  BY <1>1 DEF Calm, GraceKept

LEMMA CalmShared ==
  ASSUME BillsTyped, NEW x \in Procs,
         \/ x \in Owners /\ (SubscribeFree(x) \/ SubscribePaid(x))
         \/ Either(x) \/ BillingDies(x)
  PROVE  Calm /\ \A s \in Sweepers : billPc[s] = "mark" => billPc'[s] # "find"
<1> USE DEF BillsTyped, BillingTypeOK, BillGoto, bills, account, local, bounds, Calm, GraceKept
<1>1. CASE SubscribeFree(x)
  BY <1>1 DEF SubscribeFree
<1>2. CASE SubscribePaid(x)
  BY <1>2 DEF SubscribePaid
<1>3. CASE CreateInvoice(x)
  BY <1>3 DEF CreateInvoice
<1>4. CASE AttachQr(x)
  BY <1>4 DEF AttachQr
<1>5. CASE FindCurrent(x)
  BY <1>5 DEF FindCurrent
<1>6. CASE ActivatePlan(x)
  BY <1>6 DEF ActivatePlan
<1>7. CASE BillingDies(x)
  BY <1>7 DEF BillingDies, BillFault
<1>8. QED
  BY <1>1, <1>2, <1>3, <1>4, <1>5, <1>6, <1>7 DEF Either

LEMMA CalmSweep ==
  ASSUME BillsTyped, NEW s \in Sweepers,
         \/ Begin(s) \/ Poll(s) \/ PollDone(s) \/ CheckInvoice(s) \/ PostRevenue(s)
         \/ FindDue(s) \/ CountOpen(s) \/ Suspend(s) \/ ConfirmFails(s)
  PROVE  Calm /\ \A t \in Sweepers : billPc[t] = "mark" => billPc'[t] # "find"
<1> USE DEF BillsTyped, BillingTypeOK, Procs, BillGoto, bills, account, local, bounds, Calm, GraceKept
<1>1. CASE Begin(s) \/ PollDone(s) \/ CheckInvoice(s)
  BY <1>1 DEF Begin, PollDone, CheckInvoice
<1>2. CASE Poll(s)
  BY <1>2 DEF Poll
<1>3. CASE PostRevenue(s) \/ FindDue(s) \/ CountOpen(s)
  BY <1>3 DEF PostRevenue, FindDue, CountOpen
<1>4. CASE Suspend(s)
  BY <1>4 DEF Suspend
<1>5. CASE ConfirmFails(s)
  BY <1>5 DEF ConfirmFails, BillFault
<1>6. QED
  BY <1>1, <1>2, <1>3, <1>4, <1>5

LEMMA DunStep ==
  OneSweep /\ BillsTyped /\ DunInv /\ [BillingNext]_billingVars => DunInv'
<1> SUFFICES ASSUME OneSweep, BillsTyped, DunInv, [BillingNext]_billingVars PROVE DunInv'
  OBVIOUS
<1>1. ASSUME Calm, \A s \in Sweepers : billPc[s] = "mark" => billPc'[s] # "find" PROVE DunInv'
  <2>1. \A s \in Sweepers : ~MarkPaid(s)
    BY <1>1 DEF MarkPaid, BillGoto, BillsTyped, BillingTypeOK, Procs
  <2>2. QED
    BY <1>1, <2>1, DunCalm
<1>2. CASE \/ \E i \in Invoices : Age(i) \/ Pay(i)
           \/ \E k \in DOMAIN subs : Lapse(k)
           \/ \E b \in BOOLEAN : SetSuspended(b)
           \/ UNCHANGED billingVars
  BY <1>1, <1>2, CalmAround
<1>3. ASSUME NEW x \in Procs,
             \/ x \in Owners /\ (SubscribeFree(x) \/ SubscribePaid(x))
             \/ Either(x) \/ BillingDies(x)
      PROVE  DunInv'
  BY <1>1, <1>3, CalmShared
<1>4. ASSUME NEW s \in Sweepers, Sweep(s) \/ ConfirmFails(s)
      PROVE  DunInv'
  BY <1>1, <1>4, CalmSweep, DunSweep DEF Sweep
<1>5. QED
  BY <1>2, <1>3, <1>4 DEF BillingNext, Procs

(* Who suspends does so for an invoice that is overdue and, unless         *)
(* something failed, for one that had its grace days.  This needs that     *)
(* sweeps do not overlap.                                                  *)
THEOREM SuspensionIsEarned ==
  ASSUME OneSweep
  PROVE  BillingSpec => SuspendedForDebt
<1>1. BillingSpec => [](BillsTyped /\ DunInv)
  BY BillsInvariance, DunInit, DunStep, PTL DEF BillingSpec
<1>2. DunInv =>
        [\A s \in Sweepers :
           billPc[s] = "suspend" /\ org = "ACTIVE" /\ org' = "SUSPENDED" /\ orders' = orders
           => /\ Overdue # {}
              /\ billFaults = 0 => \E i \in Overdue : age[i] = 2]_billingVars
  BY DEF DunInv, DunsOverdue, SuspendsLate, PastGrace
<1>3. QED
  BY <1>1, <1>2, PTL DEF SuspendedForDebt
===============================================================================
