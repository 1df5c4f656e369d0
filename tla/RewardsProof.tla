----------------------------- MODULE RewardsProof -----------------------------
(***************************************************************************)
(* Proofs about what customers are given: Referrals, for any number of     *)
(* payments, payouts and failures, and, in the second half, Games, for any *)
(* prizes, cards, requests, stocks and failures.                           *)
(*                                                                         *)
(* FlaggedIsNotPaid is not inductive: a payment's consequences go by a     *)
(* flag that was read several awaits ago.  They may, since a referral is   *)
(* flagged only when it is created and the flag only ever comes off: what  *)
(* was once read as clear still is.  DecidedIsFinal rests on the list of a *)
(* payout, which may be old but whose rows can only have become PAID.      *)
(***************************************************************************)
EXTENDS Referrals, Games, FiniteSetTheorems, TLAPS

(* Before she is linked there is nothing to hold or to pay.                *)
Unlinked ==
  referral = "none" =>
    /\ ~flagged
    /\ rewardedBy = {}
    /\ \A p \in Payments : /\ commission[p] = "none"
                           /\ pc[p] \notin {"program", "recheck", "award", "terms", "create", "post"}

(* What a payment's consequences rely on.                                  *)
FlagsStillHold ==
  \A p \in Payments :
    /\ pc[p] \in {"program", "recheck", "award"} => ~flagged
    /\ pc[p] \in {"terms", "create"} /\ ~held[p] => ~flagged

(* A commission's row is created by the consequences of its own payment.   *)
RowsByStage ==
  \A p \in Payments : IF pc[p] = "post" THEN commission[p] # "none"
                      ELSE pc[p] # "done" => commission[p] = "none"

(* The list of a payout, before and after its rows are marked.             *)
BatchesSound ==
  \A o \in Operators, p \in Payments : p \in batch[o] =>
    \/ stage[o] = "mark" /\ commission[p] \in {"ACCRUED", "PAID"}
    \/ stage[o] = "post" /\ commission[p] = "PAID"

(* Cash leaves the books only for commissions that are marked as paid.     *)
SettledIsPaid == \A p \in settled \cup toSettle : commission[p] = "PAID"

(* What is held for review is not ready to be paid out.                    *)
FlaggedIsHeld ==
  flagged => /\ rewardedBy = {}
             /\ \A p \in Payments : commission[p] \in {"none", "HELD", "VOID"}

IInv ==
  /\ TypeOK
  /\ Unlinked
  /\ FlagsStillHold
  /\ RowsByStage
  /\ BatchesSound
  /\ SettledIsPaid
  /\ FlaggedIsHeld

LEMMA InitInv == Init => IInv
<1> SUFFICES ASSUME Init PROVE IInv
  OBVIOUS
<1>1. TypeOK
  <2>1. flagged \in BOOLEAN /\ active \in BOOLEAN
    BY DEF Init
  <2>2. faults \in 0 .. MaxFaults
    BY ReferralsAssumption DEF Init, ReferralsAssumption
  <2>3. commission \in [Payments -> Statuses] /\ held \in [Payments -> BOOLEAN]
    BY DEF Init, Statuses
  <2>4. QED
    BY <2>1, <2>2, <2>3 DEF Init, TypeOK
<1>2. Unlinked /\ FlagsStillHold /\ RowsByStage
  BY DEF Init, Unlinked, FlagsStillHold, RowsByStage
<1>3. BatchesSound /\ SettledIsPaid /\ FlaggedIsHeld
  BY DEF Init, BatchesSound, SettledIsPaid, FlaggedIsHeld
<1>4. QED
  BY <1>1, <1>2, <1>3 DEF IInv

(* The referral, its program and its review.                               *)
LEMMA LinkInv ==
  ASSUME IInv, \/ \E f \in BOOLEAN : LinkReferral(f)
               \/ UpdateProgram \/ Clear \/ Void
  PROVE  IInv'
<1> USE DEF IInv, TypeOK, Statuses, journals, capture, payout, backfill, link
<1>1. CASE \E f \in BOOLEAN : LinkReferral(f)
  BY <1>1 DEF LinkReferral, Unlinked, FlagsStillHold, RowsByStage, BatchesSound, SettledIsPaid,
              FlaggedIsHeld
<1>2. CASE UpdateProgram
  BY <1>2 DEF UpdateProgram, Unlinked, FlagsStillHold, RowsByStage, BatchesSound, SettledIsPaid,
              FlaggedIsHeld
<1>3. CASE Clear
  BY <1>3 DEF Clear, Unlinked, FlagsStillHold, RowsByStage, BatchesSound, SettledIsPaid,
              FlaggedIsHeld
<1>4. CASE Void
  BY <1>4 DEF Void, Unlinked, FlagsStillHold, RowsByStage, BatchesSound, SettledIsPaid,
              FlaggedIsHeld
<1>5. QED
  BY <1>1, <1>2, <1>3, <1>4

(* The consequences of a payment.                                          *)
LEMMA ConsequenceInv ==
  ASSUME IInv, NEW p \in Payments, Capture(p) \/ Consequence(p) \/ Fails(p)
  PROVE  IInv'
<1> USE DEF IInv, TypeOK, Statuses, journals, payout, backfill, link, Goto
<1>1. CASE Capture(p) \/ ReadReferral(p) \/ ReadProgram(p) \/ Recheck(p)
  BY <1>1 DEF Capture, ReadReferral, ReadProgram, Recheck, Unlinked, FlagsStillHold, RowsByStage,
              BatchesSound, SettledIsPaid, FlaggedIsHeld
<1>2. CASE Award(p)
  BY <1>2 DEF Award, Unlinked, FlagsStillHold, RowsByStage, BatchesSound, SettledIsPaid, FlaggedIsHeld
<1>3. CASE ReadHold(p) \/ ReadTerms(p)
  BY <1>3 DEF ReadHold, ReadTerms, Unlinked, FlagsStillHold, RowsByStage, BatchesSound, SettledIsPaid,
              FlaggedIsHeld
<1>4. CASE CreateCommission(p)
  BY <1>4 DEF CreateCommission, Unlinked, FlagsStillHold, RowsByStage, BatchesSound, SettledIsPaid,
              FlaggedIsHeld
<1>5. CASE PostAccrual(p)
  BY <1>5 DEF PostAccrual, Unlinked, FlagsStillHold, RowsByStage, BatchesSound, SettledIsPaid,
              FlaggedIsHeld
<1>6. CASE Fails(p)
  BY <1>6, ReferralsAssumption DEF Fails, Fault, ReferralsAssumption, Unlinked, FlagsStillHold,
              RowsByStage, BatchesSound, SettledIsPaid, FlaggedIsHeld
<1>7. QED
  BY <1>1, <1>2, <1>3, <1>4, <1>5, <1>6 DEF Consequence

(* The payouts.                                                            *)
LEMMA PayoutInv ==
  ASSUME IInv, NEW o \in Operators, ListAccrued(o) \/ Payout(o) \/ PayoutFails(o)
  PROVE  IInv'
<1> USE DEF IInv, TypeOK, Statuses, journals, capture, backfill, link
<1>1. CASE ListAccrued(o)
  BY <1>1 DEF ListAccrued, With, Unlinked, FlagsStillHold, RowsByStage, BatchesSound, SettledIsPaid,
              FlaggedIsHeld
<1>2. CASE MarkPaid(o)
  BY <1>2 DEF MarkPaid, Unlinked, FlagsStillHold, RowsByStage, BatchesSound, SettledIsPaid,
              FlaggedIsHeld
<1>3. ASSUME NEW p \in Payments, PostPaid(o, p)
      PROVE  IInv'
  BY <1>3 DEF PostPaid, Unlinked, FlagsStillHold, RowsByStage, BatchesSound, SettledIsPaid,
              FlaggedIsHeld
<1>4. CASE PayoutFails(o)
  BY <1>4, ReferralsAssumption DEF PayoutFails, Fault, ReferralsAssumption, Unlinked, FlagsStillHold,
              RowsByStage, BatchesSound, SettledIsPaid, FlaggedIsHeld
<1>5. QED
  BY <1>1, <1>2, <1>3, <1>4 DEF Payout

(* The backfill of their journals.                                         *)
LEMMA BackfillInv ==
  ASSUME IInv, \/ BackfillRead
               \/ \E p \in Payments : BackfillAccrued(p) \/ BackfillPaid(p)
  PROVE  IInv'
<1> USE DEF IInv
<1>1. UNCHANGED <<link, rewardedBy, commission, capture, payout, faults>>
  BY DEF BackfillRead, BackfillAccrued, BackfillPaid
<1>2. /\ accrued' \subseteq Payments /\ settled' \subseteq Payments
      /\ toAccrue' \subseteq Payments /\ toSettle' \subseteq Payments
  <2>1. CASE BackfillRead
    BY <2>1 DEF BackfillRead, With, TypeOK, journals
  <2>2. ASSUME NEW p \in Payments, BackfillAccrued(p) \/ BackfillPaid(p)
        PROVE  /\ accrued' \subseteq Payments /\ settled' \subseteq Payments
               /\ toAccrue' \subseteq Payments /\ toSettle' \subseteq Payments
    <3>1. /\ accrued' \subseteq accrued \cup {p} /\ settled' \subseteq settled \cup {p}
          /\ toAccrue' \subseteq toAccrue /\ toSettle' \subseteq toSettle
      BY <2>2 DEF BackfillAccrued, BackfillPaid
    <3>2. QED
      BY <3>1 DEF TypeOK
  <2>3. QED
    BY <2>1, <2>2
<1>3. TypeOK'
  BY <1>1, <1>2 DEF TypeOK, link, capture, payout
<1>4. Unlinked' /\ FlagsStillHold' /\ RowsByStage'
  BY <1>1 DEF Unlinked, FlagsStillHold, RowsByStage, link, capture
<1>5. BatchesSound' /\ FlaggedIsHeld'
  BY <1>1 DEF BatchesSound, FlaggedIsHeld, link, payout
<1>6. settled' \cup toSettle' \subseteq settled \cup toSettle \cup With("PAID")
  <2>1. CASE BackfillRead
    BY <2>1 DEF BackfillRead, journals
  <2>2. ASSUME NEW p \in Payments, BackfillAccrued(p) \/ BackfillPaid(p)
        PROVE  settled' \cup toSettle' \subseteq settled \cup toSettle
    BY <2>2 DEF BackfillAccrued, BackfillPaid
  <2>3. QED
    BY <2>1, <2>2
<1>7. SettledIsPaid'
  BY <1>1, <1>6 DEF SettledIsPaid, With
<1>8. QED
  BY <1>3, <1>4, <1>5, <1>7

LEMMA StepInv == IInv /\ [Next]_vars => IInv'
<1> SUFFICES ASSUME IInv, [Next]_vars PROVE IInv'
  OBVIOUS
<1>1. CASE UNCHANGED vars
  BY <1>1 DEF vars, IInv, TypeOK, Unlinked, FlagsStillHold, RowsByStage, BatchesSound, SettledIsPaid,
              FlaggedIsHeld
<1>2. QED
  BY <1>1, LinkInv, ConsequenceInv, PayoutInv, BackfillInv DEF Next

LEMMA Invariance == Spec => []IInv
  BY InitInv, StepInv, PTL DEF Spec

(* Types: every commission is in one of its statuses, every stage is one.  *)
THEOREM TypeCorrect == Spec => []TypeOK
<1>1. IInv => TypeOK
  BY DEF IInv
<1>2. QED
  BY <1>1, Invariance, PTL

(* While a referral is held for review nothing of it is paid.              *)
THEOREM ReviewHolds == Spec => []FlaggedIsNotPaid
<1>1. IInv => FlaggedIsNotPaid
  <2> SUFFICES ASSUME IInv, flagged PROVE FlaggedIsNotPaid
    BY DEF FlaggedIsNotPaid
  <2>1. \A p \in Payments : commission[p] \notin {"ACCRUED", "PAID"}
    BY DEF IInv, FlaggedIsHeld
  <2>2. \A o \in Operators : batch[o] = {}
    BY <2>1 DEF IInv, TypeOK, BatchesSound
  <2>3. settled = {}
    BY <2>1 DEF IInv, TypeOK, SettledIsPaid
  <2>4. QED
    BY <2>2, <2>3 DEF IInv, FlaggedIsHeld, FlaggedIsNotPaid
<1>2. QED
  BY <1>1, Invariance, PTL

(* What was paid out or voided stays so.                                   *)
THEOREM DecisionsStand == Spec => DecidedIsFinal
<1>1. IInv /\ [Next]_vars
        => [\A p \in Payments : commission[p] \in {"PAID", "VOID"} => commission'[p] = commission[p]]_vars
  <2> SUFFICES ASSUME IInv, Next, NEW p \in Payments, commission[p] \in {"PAID", "VOID"}
               PROVE  commission'[p] = commission[p]
    OBVIOUS
  <2>1. CASE Clear \/ Void
    BY <2>1 DEF Clear, Void, IInv, TypeOK
  <2>2. ASSUME NEW q \in Payments, CreateCommission(q)
        PROVE  commission'[p] = commission[p]
    BY <2>2 DEF CreateCommission, IInv, TypeOK, RowsByStage
  <2>3. ASSUME NEW o \in Operators, MarkPaid(o)
        PROVE  commission'[p] = commission[p]
    BY <2>3 DEF MarkPaid, IInv, TypeOK, BatchesSound
  <2>4. CASE \/ \E f \in BOOLEAN : LinkReferral(f)
             \/ UpdateProgram
    BY <2>4 DEF LinkReferral, UpdateProgram
  <2>5. ASSUME NEW q \in Payments,
               \/ Capture(q) \/ ReadReferral(q) \/ ReadProgram(q) \/ Recheck(q) \/ Award(q)
               \/ ReadHold(q) \/ ReadTerms(q) \/ PostAccrual(q) \/ Fails(q)
        PROVE  commission'[p] = commission[p]
    BY <2>5 DEF Capture, ReadReferral, ReadProgram, Recheck, Award, ReadHold, ReadTerms, PostAccrual,
                Fails
  <2>6. ASSUME NEW o \in Operators,
               ListAccrued(o) \/ PayoutFails(o) \/ \E q \in Payments : PostPaid(o, q)
        PROVE  commission'[p] = commission[p]
    BY <2>6 DEF ListAccrued, PayoutFails, PostPaid
  <2>7. CASE \/ BackfillRead
             \/ \E q \in Payments : BackfillAccrued(q) \/ BackfillPaid(q)
    BY <2>7 DEF BackfillRead, BackfillAccrued, BackfillPaid
  <2>8. QED
    BY <2>1, <2>2, <2>3, <2>4, <2>5, <2>6, <2>7 DEF Next, Consequence, Payout
<1>2. QED
  BY <1>1, Invariance, PTL DEF Spec, DecidedIsFinal

-----------------------------------------------------------------------------
(* The prizes (module Games).                                              *)

(* What the history of a prize's stock says of the stock.                  *)
KindsTell ==
  \A z \in Prizes :
    /\ kinds[z] # {} /\ kinds[z] \subseteq {"limited", "unlimited"}
    /\ stock[z] >= -1
    /\ IF stock[z] = -1 THEN "unlimited" \in kinds[z] ELSE "limited" \in kinds[z]

(* A request that claims has picked a prize and knows of which kind it was. *)
ClaimsTell ==
  \A r \in Requests : gamePc[r] = "claim" =>
    /\ chosen[r] \in Prizes
    /\ IF free[r] THEN "unlimited" \in kinds[chosen[r]] ELSE "limited" \in kinds[chosen[r]]

PrizeInv == GamesTypeOK /\ KindsTell /\ ClaimsTell /\ NoOverAward

LEMMA PrizeInit == GamesInit => PrizeInv
<1> SUFFICES ASSUME GamesInit PROVE PrizeInv
  OBVIOUS
<1> USE GamesAssumption
<1>1. /\ stock \in [Prizes -> Int]
      /\ \A z \in Prizes : (stock[z] = -1 <=> z \in Endless) /\ stock[z] >= -1
  BY DEF GamesInit
<1>2. awarded \in [Prizes -> Nat] /\ supplied \in [Prizes -> Int]
  BY <1>1 DEF GamesInit
<1>3. /\ kinds \in [Prizes -> SUBSET {"limited", "unlimited"}]
      /\ \A z \in Prizes : kinds[z] = IF z \in Endless THEN {"unlimited"} ELSE {"limited"}
  BY DEF GamesInit
<1>4. GamesTypeOK
  BY <1>1, <1>2, <1>3 DEF GamesInit, GamesTypeOK, Plays
<1>5. KindsTell
  BY <1>1, <1>3 DEF KindsTell
<1>6. ClaimsTell
  BY DEF GamesInit, ClaimsTell
<1>7. NoOverAward
  BY <1>1, <1>3 DEF GamesInit, NoOverAward
<1>8. QED
  BY <1>4, <1>5, <1>6, <1>7 DEF PrizeInv

(* The merchant changes a prize.                                           *)
LEMMA PrizeUpdate ==
  ASSUME PrizeInv, NEW z \in Prizes, NEW n \in -1 .. MaxStock, UpdatePrize(z, n)
  PROVE  PrizeInv'
<1> USE DEF PrizeInv, GamesTypeOK
<1>1. n \in Int /\ n >= -1
  BY GamesAssumption
<1> DEFINE kind == IF n = -1 THEN "unlimited" ELSE "limited"
           fill == IF n = -1 \/ stock[z] = -1 THEN 0 ELSE supplied[z] + n - stock[z]
<1>2. /\ stock' = [stock EXCEPT ![z] = n]
      /\ supplied' = [supplied EXCEPT ![z] = fill]
      /\ kinds' = [kinds EXCEPT ![z] = @ \cup {kind}]
      /\ UNCHANGED <<awarded, play, prizeOf, credits, gamePc, target, excluded, chosen, free, gameFaults>>
  BY DEF UpdatePrize, outcome, draw
<1>3. \A y \in Prizes :
        /\ y = z => /\ stock'[y] = n /\ supplied'[y] = fill
                    /\ kinds'[y] = kinds[y] \cup {kind}
        /\ y # z => /\ stock'[y] = stock[y] /\ supplied'[y] = supplied[y]
                    /\ kinds'[y] = kinds[y]
  BY <1>2
<1>4. fill \in Int
  BY <1>1
<1>5. GamesTypeOK'
  BY <1>1, <1>2, <1>4
<1>6. KindsTell'
  BY <1>1, <1>3 DEF KindsTell
<1>7. ClaimsTell'
  BY <1>2, <1>3 DEF ClaimsTell
<1>8. NoOverAward'
  <2> SUFFICES ASSUME NEW y \in Prizes, kinds'[y] = {"limited"}
               PROVE  stock'[y] >= 0 /\ awarded[y] + stock'[y] = supplied'[y]
    BY <1>2 DEF NoOverAward
  <2>1. CASE y # z
    BY <1>3, <2>1 DEF NoOverAward
  <2>2. CASE y = z
    <3>1. kinds[z] = {"limited"} /\ n # -1
      <4>1. kinds[z] \cup {kind} = {"limited"}
        BY <1>3, <2>2
      <4>2. kind = "limited"
        BY <4>1
      <4>3. kinds[z] \subseteq {"limited"} /\ kinds[z] # {}
        BY <4>1 DEF KindsTell
      <4>4. QED
        BY <4>2, <4>3
    <3>2. stock[z] >= 0 /\ awarded[z] + stock[z] = supplied[z] /\ stock[z] # -1
      BY <3>1 DEF NoOverAward, KindsTell
    <3>3. QED
      BY <1>1, <1>3, <2>2, <3>1, <3>2
  <2>3. QED
    BY <2>1, <2>2
<1>9. QED
  BY <1>5, <1>6, <1>7, <1>8

(* A unit is claimed, or counted.                                          *)
LEMMA PrizeClaim ==
  ASSUME PrizeInv, NEW r \in Requests, Claim(r) \/ ClaimFree(r)
  PROVE  PrizeInv'
<1> USE DEF PrizeInv, GamesTypeOK
<1> DEFINE z == chosen[r]
<1>1. z \in Prizes /\ (IF free[r] THEN "unlimited" \in kinds[z] ELSE "limited" \in kinds[z])
  BY DEF ClaimsTell, Claim, ClaimFree
<1>2. /\ awarded' = [awarded EXCEPT ![z] = @ + 1]
      /\ gamePc' = [gamePc EXCEPT ![r] = "record"]
      /\ UNCHANGED <<supplied, kinds, play, prizeOf, credits, target, excluded, chosen, free, gameFaults>>
  BY DEF Claim, ClaimFree, GameGoto, outcome, draw
<1>3. \/ stock[z] > 0 /\ stock' = [stock EXCEPT ![z] = @ - 1]
      \/ "unlimited" \in kinds[z] /\ stock' = stock
  BY <1>1 DEF Claim, ClaimFree, InStock
<1>4. GamesTypeOK'
  BY <1>1, <1>2, <1>3
<1>5. KindsTell'
  BY <1>1, <1>2, <1>3 DEF KindsTell
<1>6. ClaimsTell'
  BY <1>2 DEF ClaimsTell
<1>7. NoOverAward'
  BY <1>1, <1>2, <1>3 DEF NoOverAward
<1>8. QED
  BY <1>4, <1>5, <1>6, <1>7

(* The other steps leave the stock alone.                                  *)
LEMMA PrizeOther ==
  ASSUME PrizeInv,
         \/ \E i \in Cards : IssueCard(i)
         \/ \E r \in Requests, i \in Cards : Reveal(r, i)
         \/ \E r \in Requests : \/ Play(r) \/ Pick(r) \/ PickNothing(r) \/ LoseClaim(r)
                                \/ Record(r) \/ CreditPrize(r) \/ DrawFails(r)
  PROVE  PrizeInv'
<1> USE DEF PrizeInv, GamesTypeOK
<1>1. UNCHANGED <<stock, awarded, supplied, kinds>>
  BY DEF IssueCard, Reveal, Play, Pick, PickNothing, LoseClaim, Record, CreditPrize,
         DrawFails, stockroom
<1>2. KindsTell' /\ NoOverAward'
  BY <1>1 DEF KindsTell, NoOverAward
<1>3. CASE \E i \in Cards : IssueCard(i)
  BY <1>1, <1>2, <1>3 DEF IssueCard, draw, ClaimsTell, Plays
<1>4. ASSUME NEW r \in Requests, \/ Play(r) \/ PickNothing(r) \/ LoseClaim(r)
                                 \/ \E i \in Cards : Reveal(r, i)
      PROVE  PrizeInv'
  <2>1. LoseClaim(r) => chosen[r] \in Prizes
    BY DEF LoseClaim, ClaimsTell
  <2>2. ClaimsTell'
    BY <1>1, <1>4 DEF Reveal, Play, PickNothing, LoseClaim, GameGoto, draw, ClaimsTell
  <2>3. GamesTypeOK'
    BY <1>1, <1>4, <2>1 DEF Reveal, Play, PickNothing, LoseClaim, GameGoto, draw, outcome, Plays
  <2>4. QED
    BY <1>2, <2>2, <2>3
<1>5. ASSUME NEW r \in Requests, Pick(r)
      PROVE  PrizeInv'
  <2>1. PICK z \in Available(r) : /\ chosen' = [chosen EXCEPT ![r] = z]
                                    /\ free' = [free EXCEPT ![r] = stock[z] = -1]
    BY <1>5 DEF Pick
  <2>2. z \in Prizes /\ (stock[z] = -1) \in BOOLEAN /\ gamePc' = [gamePc EXCEPT ![r] = "claim"]
    BY <1>5 DEF Available, Pick, GameGoto
  <2>3. ClaimsTell'
    BY <1>1, <2>1, <2>2 DEF ClaimsTell, KindsTell
  <2>4. GamesTypeOK'
    BY <1>1, <1>5, <2>1, <2>2 DEF Pick, outcome
  <2>5. QED
    BY <1>2, <2>3, <2>4
<1>6. ASSUME NEW r \in Requests, Record(r) \/ CreditPrize(r) \/ DrawFails(r)
      PROVE  PrizeInv'
  <2>1. ClaimsTell'
    BY <1>1, <1>6 DEF Record, CreditPrize, DrawFails, GameGoto, draw, ClaimsTell
  <2>2. GamesTypeOK'
    BY <1>1, <1>6, GamesAssumption DEF Record, CreditPrize, DrawFails, GameFault, GameGoto, draw, outcome
  <2>3. QED
    BY <1>2, <2>1, <2>2
<1>7. QED
  BY <1>3, <1>4, <1>5, <1>6

LEMMA PrizeStep == PrizeInv /\ [GamesNext]_gamesVars => PrizeInv'
<1> SUFFICES ASSUME PrizeInv, [GamesNext]_gamesVars PROVE PrizeInv'
  OBVIOUS
<1>1. CASE UNCHANGED gamesVars
  BY <1>1 DEF gamesVars, PrizeInv, GamesTypeOK, KindsTell, ClaimsTell, NoOverAward
<1>2. QED
  BY <1>1, PrizeUpdate, PrizeClaim, PrizeOther DEF GamesNext, Draw

LEMMA PrizeInvariance == GamesSpec => []PrizeInv
  BY PrizeInit, PrizeStep, PTL DEF GamesSpec

(* Types: whatever is drawn and updated, a stock is a number.              *)
THEOREM GamesTypeCorrect == GamesSpec => []GamesTypeOK
<1>1. PrizeInv => GamesTypeOK
  BY DEF PrizeInv
<1>2. QED
  BY <1>1, PrizeInvariance, PTL

(* A prize of limited stock gives away what was put in and no more, however *)
(* many players draw at once.                                              *)
THEOREM StockIsNotOverdrawn == GamesSpec => []NoOverAward
<1>1. PrizeInv => NoOverAward
  BY DEF PrizeInv
<1>2. QED
  BY <1>1, PrizeInvariance, PTL

-----------------------------------------------------------------------------
(* Counting.  What plays show of a prize and the claims that are yet to be *)
(* shown come to at most what was counted as awarded; likewise credits.    *)
Shown(z) == {i \in Plays : prizeOf[i] = z}
Credited(z) == {c \in credits : c.prize = z}
ToShow(z) == {r \in Requests : gamePc[r] = "record" /\ chosen[r] = z}
ToCredit(z) == {r \in Requests : gamePc[r] \in {"record", "credit"} /\ chosen[r] = z}

CountsHold ==
  /\ IsFiniteSet(credits)
  /\ \A z \in Prizes : /\ Cardinality(Shown(z)) + Cardinality(ToShow(z)) <= awarded[z]
                       /\ Cardinality(Credited(z)) + Cardinality(ToCredit(z)) <= awarded[z]

LEMMA FiniteConstants == IsFiniteSet(Cards) /\ IsFiniteSet(Requests) /\ IsFiniteSet(Prizes)
BY GamesAssumption

LEMMA AddsAtMostOne ==
  ASSUME NEW S, IsFiniteSet(S), NEW x
  PROVE  IsFiniteSet(S \cup {x}) /\ Cardinality(S \cup {x}) <= Cardinality(S) + 1
<1>1. IsFiniteSet(S \cup {x})
  BY FS_AddElement
<1>2. Cardinality(S \cup {x}) = IF x \in S THEN Cardinality(S) ELSE Cardinality(S) + 1
  BY FS_AddElement
<1>3. Cardinality(S) \in Nat
  BY FS_CardinalityType
<1>4. QED
  BY <1>1, <1>2, <1>3

(* Of two finite sets together: none gains; one gains an element; one      *)
(* gains an element and the other gives one up.                            *)
LEMMA NoneGains ==
  ASSUME NEW S, NEW T, IsFiniteSet(S), IsFiniteSet(T), NEW A \in SUBSET S, NEW B \in SUBSET T
  PROVE  Cardinality(A) + Cardinality(B) <= Cardinality(S) + Cardinality(T)
BY FS_Subset, FS_CardinalityType

LEMMA OneGains ==
  ASSUME NEW S, NEW T, IsFiniteSet(S), IsFiniteSet(T), NEW y,
         NEW A \in SUBSET S, NEW B \in SUBSET (T \cup {y})
  PROVE  Cardinality(A) + Cardinality(B) <= Cardinality(S) + Cardinality(T) + 1
<1>1. IsFiniteSet(T \cup {y}) /\ Cardinality(T \cup {y}) <= Cardinality(T) + 1
  BY AddsAtMostOne
<1>2. Cardinality(A) + Cardinality(B) <= Cardinality(S) + Cardinality(T \cup {y})
  BY <1>1, NoneGains
<1>3. /\ Cardinality(S) \in Nat /\ Cardinality(T) \in Nat /\ Cardinality(T \cup {y}) \in Nat
      /\ Cardinality(A) \in Nat /\ Cardinality(B) \in Nat
  BY <1>1, FS_Subset, FS_CardinalityType
<1>4. QED
  BY <1>1, <1>2, <1>3

LEMMA OneIsTraded ==
  ASSUME NEW S, NEW T, IsFiniteSet(S), IsFiniteSet(T), NEW x, NEW y \in T,
         NEW A \in SUBSET (S \cup {x}), NEW B \in SUBSET (T \ {y})
  PROVE  Cardinality(A) + Cardinality(B) <= Cardinality(S) + Cardinality(T)
<1>1. IsFiniteSet(S \cup {x}) /\ Cardinality(S \cup {x}) <= Cardinality(S) + 1
  BY AddsAtMostOne
<1>2. IsFiniteSet(T \ {y}) /\ Cardinality(T \ {y}) = Cardinality(T) - 1
  BY FS_RemoveElement
<1>3. Cardinality(A) + Cardinality(B) <= Cardinality(S \cup {x}) + Cardinality(T \ {y})
  BY <1>1, <1>2, NoneGains
<1>4. /\ Cardinality(S) \in Nat /\ Cardinality(T) \in Nat
      /\ Cardinality(S \cup {x}) \in Nat /\ Cardinality(T \ {y}) \in Nat
      /\ Cardinality(A) \in Nat /\ Cardinality(B) \in Nat
  BY <1>1, <1>2, FS_Subset, FS_CardinalityType
<1>5. QED
  BY <1>1, <1>2, <1>3, <1>4

LEMMA CountsAreFinite ==
  ASSUME IsFiniteSet(credits), NEW z
  PROVE  /\ IsFiniteSet(Shown(z)) /\ IsFiniteSet(ToShow(z))
         /\ IsFiniteSet(Credited(z)) /\ IsFiniteSet(ToCredit(z))
<1>1. IsFiniteSet(Plays)
  <2>1. IsFiniteSet(Cards \cup Requests)
    BY FiniteConstants, FS_Union
  <2>2. QED
    BY <2>1 DEF Plays
<1>2. Shown(z) \subseteq Plays /\ ToShow(z) \subseteq Requests
      /\ Credited(z) \subseteq credits /\ ToCredit(z) \subseteq Requests
  BY DEF Shown, ToShow, Credited, ToCredit
<1>3. QED
  BY <1>1, <1>2, FiniteConstants, FS_Subset

(* Awarding, showing and crediting, as a step does one of them or none.    *)
LEMMA CountsKept ==
  ASSUME PrizeInv, CountsHold, PrizeInv', credits' = credits,
         \A z \in Prizes : /\ awarded[z] <= awarded'[z]
                           /\ Shown(z)' \subseteq Shown(z) /\ ToShow(z)' \subseteq ToShow(z)
                           /\ ToCredit(z)' \subseteq ToCredit(z)
  PROVE  CountsHold'
<1> SUFFICES ASSUME NEW z \in Prizes
             PROVE  /\ Cardinality(Shown(z)') + Cardinality(ToShow(z)') <= awarded'[z]
                    /\ Cardinality(Credited(z)') + Cardinality(ToCredit(z)') <= awarded'[z]
  BY DEF CountsHold
<1>1. /\ IsFiniteSet(Shown(z)) /\ IsFiniteSet(ToShow(z))
      /\ IsFiniteSet(Credited(z)) /\ IsFiniteSet(ToCredit(z))
  BY CountsAreFinite DEF CountsHold
<1>2. /\ Shown(z)' \in SUBSET Shown(z) /\ ToShow(z)' \in SUBSET ToShow(z)
      /\ Credited(z)' = Credited(z) /\ ToCredit(z)' \in SUBSET ToCredit(z)
  BY DEF Credited
<1>3. Cardinality(Shown(z)') + Cardinality(ToShow(z)') <= Cardinality(Shown(z)) + Cardinality(ToShow(z))
  BY <1>1, <1>2, NoneGains
<1>4. Cardinality(Credited(z)') + Cardinality(ToCredit(z)')
        <= Cardinality(Credited(z)) + Cardinality(ToCredit(z))
  BY <1>1, <1>2, NoneGains
<1>5. /\ Cardinality(Shown(z)') \in Nat /\ Cardinality(ToShow(z)') \in Nat
      /\ Cardinality(Credited(z)') \in Nat /\ Cardinality(ToCredit(z)') \in Nat
      /\ Cardinality(Shown(z)) \in Nat /\ Cardinality(ToShow(z)) \in Nat
      /\ Cardinality(Credited(z)) \in Nat /\ Cardinality(ToCredit(z)) \in Nat
  BY <1>1, <1>2, FS_Subset, FS_CardinalityType
<1>6. awarded[z] \in Nat /\ awarded'[z] \in Nat /\ awarded[z] <= awarded'[z]
  BY DEF PrizeInv, GamesTypeOK
<1>7. QED
  BY <1>3, <1>4, <1>5, <1>6 DEF CountsHold

LEMMA CountsClaim ==
  ASSUME PrizeInv, CountsHold, NEW r \in Requests, Claim(r) \/ ClaimFree(r)
  PROVE  CountsHold'
<1>1. /\ gamePc[r] = "claim" /\ chosen[r] \in Prizes
      /\ awarded' = [awarded EXCEPT ![chosen[r]] = @ + 1]
      /\ gamePc' = [gamePc EXCEPT ![r] = "record"]
      /\ UNCHANGED <<prizeOf, credits, chosen>>
  BY DEF Claim, ClaimFree, GameGoto, outcome, draw, PrizeInv, ClaimsTell
<1> SUFFICES ASSUME NEW z \in Prizes
             PROVE  /\ Cardinality(Shown(z)') + Cardinality(ToShow(z)') <= awarded'[z]
                    /\ Cardinality(Credited(z)') + Cardinality(ToCredit(z)') <= awarded'[z]
  BY <1>1 DEF CountsHold
<1>2. /\ IsFiniteSet(Shown(z)) /\ IsFiniteSet(ToShow(z))
      /\ IsFiniteSet(Credited(z)) /\ IsFiniteSet(ToCredit(z))
  BY CountsAreFinite DEF CountsHold
<1>3. Shown(z)' = Shown(z) /\ Credited(z)' = Credited(z)
  BY <1>1 DEF Shown, Credited
<1>4. /\ Cardinality(Shown(z)) \in Nat /\ Cardinality(ToShow(z)) \in Nat
      /\ Cardinality(Credited(z)) \in Nat /\ Cardinality(ToCredit(z)) \in Nat
  BY <1>2, FS_CardinalityType
<1>5. /\ Cardinality(Shown(z)) + Cardinality(ToShow(z)) <= awarded[z]
      /\ Cardinality(Credited(z)) + Cardinality(ToCredit(z)) <= awarded[z]
  BY DEF CountsHold
<1>6. CASE z # chosen[r]
  <2>1. ToShow(z)' = ToShow(z) /\ ToCredit(z)' = ToCredit(z)
    BY <1>1, <1>6 DEF ToShow, ToCredit, PrizeInv, GamesTypeOK
  <2>2. awarded'[z] = awarded[z]
    BY <1>1, <1>6 DEF PrizeInv, GamesTypeOK
  <2>3. QED
    BY <1>3, <1>5, <2>1, <2>2
<1>7. CASE z = chosen[r]
  <2>1. ToShow(z)' \in SUBSET (ToShow(z) \cup {r}) /\ ToCredit(z)' \in SUBSET (ToCredit(z) \cup {r})
    BY <1>1, <1>7 DEF ToShow, ToCredit, PrizeInv, GamesTypeOK
  <2>2. awarded'[z] = awarded[z] + 1 /\ awarded[z] \in Nat
    BY <1>1, <1>7 DEF PrizeInv, GamesTypeOK
  <2>3. Cardinality(Shown(z)') + Cardinality(ToShow(z)')
          <= Cardinality(Shown(z)) + Cardinality(ToShow(z)) + 1
    BY <1>2, <1>3, <2>1, OneGains
  <2>4. Cardinality(Credited(z)') + Cardinality(ToCredit(z)')
          <= Cardinality(Credited(z)) + Cardinality(ToCredit(z)) + 1
    BY <1>2, <1>3, <2>1, OneGains
  <2>5. /\ Cardinality(ToShow(z)') \in Nat /\ Cardinality(ToCredit(z)') \in Nat
    BY <1>2, <2>1, FS_AddElement, FS_Subset, FS_CardinalityType
  <2>6. QED
    BY <1>3, <1>4, <1>5, <2>2, <2>3, <2>4, <2>5
<1>8. QED
  BY <1>6, <1>7

LEMMA CountsRecord ==
  ASSUME PrizeInv, CountsHold, NEW r \in Requests, Record(r)
  PROVE  CountsHold'
<1>1. /\ gamePc[r] = "record" /\ target[r] \in Plays
      /\ prizeOf' = [prizeOf EXCEPT ![target[r]] = chosen[r]]
      /\ gamePc' = [gamePc EXCEPT ![r] = "credit"]
      /\ UNCHANGED <<awarded, credits, chosen>>
  BY DEF Record, GameGoto, stockroom, draw, PrizeInv, GamesTypeOK
<1> SUFFICES ASSUME NEW z \in Prizes
             PROVE  /\ Cardinality(Shown(z)') + Cardinality(ToShow(z)') <= awarded[z]
                    /\ Cardinality(Credited(z)') + Cardinality(ToCredit(z)') <= awarded[z]
  BY <1>1 DEF CountsHold
<1>2. /\ IsFiniteSet(Shown(z)) /\ IsFiniteSet(ToShow(z))
      /\ IsFiniteSet(Credited(z)) /\ IsFiniteSet(ToCredit(z))
  BY CountsAreFinite DEF CountsHold
<1>3. Credited(z)' = Credited(z) /\ ToCredit(z)' = ToCredit(z)
  BY <1>1 DEF Credited, ToCredit, PrizeInv, GamesTypeOK
<1>4. Cardinality(Shown(z)') + Cardinality(ToShow(z)') <= Cardinality(Shown(z)) + Cardinality(ToShow(z))
  <2>1. CASE z = chosen[r]
    <3>1. /\ Shown(z)' \in SUBSET (Shown(z) \cup {target[r]})
          /\ ToShow(z)' \in SUBSET (ToShow(z) \ {r}) /\ r \in ToShow(z)
      BY <1>1, <2>1 DEF Shown, ToShow, PrizeInv, GamesTypeOK
    <3>2. QED
      BY <1>2, <3>1, OneIsTraded
  <2>2. CASE z # chosen[r]
    <3>1. Shown(z)' \in SUBSET Shown(z) /\ ToShow(z)' \in SUBSET ToShow(z)
      BY <1>1, <2>2 DEF Shown, ToShow, PrizeInv, GamesTypeOK
    <3>2. QED
      BY <1>2, <3>1, NoneGains
  <2>3. QED
    BY <2>1, <2>2
<1>5. /\ Cardinality(Shown(z)') \in Nat /\ Cardinality(ToShow(z)') \in Nat
  <2>1. /\ Shown(z)' \in SUBSET (Shown(z) \cup {target[r]}) /\ ToShow(z)' \in SUBSET ToShow(z)
    BY <1>1 DEF Shown, ToShow, PrizeInv, GamesTypeOK
  <2>2. QED
    BY <1>2, <2>1, FS_AddElement, FS_Subset, FS_CardinalityType
<1>6. /\ Cardinality(Shown(z)) \in Nat /\ Cardinality(ToShow(z)) \in Nat /\ awarded[z] \in Nat
  BY <1>2, FS_CardinalityType DEF PrizeInv, GamesTypeOK
<1>7. QED
  BY <1>3, <1>4, <1>5, <1>6 DEF CountsHold

LEMMA CountsCredit ==
  ASSUME PrizeInv, CountsHold, NEW r \in Requests, CreditPrize(r)
  PROVE  CountsHold'
<1> DEFINE c == [by |-> r, prize |-> chosen[r]]
<1>1. /\ gamePc[r] = "credit" /\ gamePc' = [gamePc EXCEPT ![r] = "done"]
      /\ credits \subseteq credits' /\ credits' \subseteq credits \cup {c}
      /\ UNCHANGED <<awarded, prizeOf, chosen>>
  BY DEF CreditPrize, GameGoto, stockroom, draw
<1>2. IsFiniteSet(credits')
  BY <1>1, FS_AddElement, FS_Subset DEF CountsHold
<1> SUFFICES ASSUME NEW z \in Prizes
             PROVE  /\ Cardinality(Shown(z)') + Cardinality(ToShow(z)') <= awarded[z]
                    /\ Cardinality(Credited(z)') + Cardinality(ToCredit(z)') <= awarded[z]
  BY <1>1, <1>2 DEF CountsHold
<1>3. /\ IsFiniteSet(Shown(z)) /\ IsFiniteSet(ToShow(z))
      /\ IsFiniteSet(Credited(z)) /\ IsFiniteSet(ToCredit(z))
  BY CountsAreFinite DEF CountsHold
<1>4. Shown(z)' = Shown(z) /\ ToShow(z)' = ToShow(z)
  BY <1>1 DEF Shown, ToShow, PrizeInv, GamesTypeOK
<1>5. Cardinality(Credited(z)') + Cardinality(ToCredit(z)')
        <= Cardinality(Credited(z)) + Cardinality(ToCredit(z))
  <2>1. CASE z = chosen[r]
    <3>1. /\ Credited(z)' \in SUBSET (Credited(z) \cup {c})
          /\ ToCredit(z)' \in SUBSET (ToCredit(z) \ {r}) /\ r \in ToCredit(z)
      BY <1>1, <2>1 DEF Credited, ToCredit, PrizeInv, GamesTypeOK
    <3>2. QED
      BY <1>3, <3>1, OneIsTraded
  <2>2. CASE z # chosen[r]
    <3>1. Credited(z)' \in SUBSET Credited(z) /\ ToCredit(z)' \in SUBSET ToCredit(z)
      BY <1>1, <2>2 DEF Credited, ToCredit, PrizeInv, GamesTypeOK
    <3>2. QED
      BY <1>3, <3>1, NoneGains
  <2>3. QED
    BY <2>1, <2>2
<1>6. Cardinality(Credited(z)') \in Nat /\ Cardinality(ToCredit(z)') \in Nat
  <2>1. /\ Credited(z)' \in SUBSET (Credited(z) \cup {c}) /\ ToCredit(z)' \in SUBSET ToCredit(z)
    BY <1>1 DEF Credited, ToCredit, PrizeInv, GamesTypeOK
  <2>2. QED
    BY <1>3, <2>1, FS_AddElement, FS_Subset, FS_CardinalityType
<1>7. Cardinality(Credited(z)) \in Nat /\ Cardinality(ToCredit(z)) \in Nat /\ awarded[z] \in Nat
  BY <1>3, FS_CardinalityType DEF PrizeInv, GamesTypeOK
<1>8. QED
  BY <1>4, <1>5, <1>6, <1>7 DEF CountsHold

LEMMA CountsOther ==
  ASSUME PrizeInv, PrizeInv', CountsHold,
         \/ \E z \in Prizes, n \in -1 .. MaxStock : UpdatePrize(z, n)
         \/ \E i \in Cards : IssueCard(i)
         \/ \E r \in Requests : \/ \E i \in Cards : Reveal(r, i)
                                \/ Play(r) \/ Pick(r) \/ PickNothing(r) \/ LoseClaim(r) \/ DrawFails(r)
         \/ UNCHANGED gamesVars
  PROVE  CountsHold'
<1>1. UNCHANGED <<awarded, prizeOf, credits>>
  BY DEF UpdatePrize, IssueCard, Reveal, Play, Pick, PickNothing, LoseClaim, DrawFails,
         gamesVars, stockroom, outcome
<1>2. \A r \in Requests, z \in Prizes : gamePc'[r] \in {"record", "credit"} /\ chosen'[r] = z
                                          => gamePc'[r] = gamePc[r] /\ chosen'[r] = chosen[r]
  <2>1. CASE UNCHANGED <<gamePc, chosen>>
    BY <2>1
  <2>2. ASSUME NEW r \in Requests, \/ \E i \in Cards : Reveal(r, i)
                                   \/ Play(r) \/ Pick(r) \/ PickNothing(r) \/ LoseClaim(r) \/ DrawFails(r)
        PROVE  \A q \in Requests, z \in Prizes : gamePc'[q] \in {"record", "credit"} /\ chosen'[q] = z
                                          => gamePc'[q] = gamePc[q] /\ chosen'[q] = chosen[q]
    BY <2>2, GamesAssumption
       DEF Reveal, Play, Pick, PickNothing, LoseClaim, DrawFails, GameGoto, draw, PrizeInv,
           GamesTypeOK
  <2>3. QED
    BY <2>1, <2>2 DEF UpdatePrize, IssueCard, gamesVars, draw
<1>3. \A z \in Prizes : /\ Shown(z)' = Shown(z) /\ ToShow(z)' \subseteq ToShow(z)
                        /\ ToCredit(z)' \subseteq ToCredit(z)
  BY <1>1, <1>2 DEF Shown, ToShow, ToCredit
<1>4. \A z \in Prizes : awarded[z] <= awarded'[z]
  BY <1>1 DEF PrizeInv, GamesTypeOK
<1>5. QED
  BY <1>1, <1>3, <1>4, CountsKept

LEMMA CountsInit == GamesInit => CountsHold
<1> SUFFICES ASSUME GamesInit PROVE CountsHold
  OBVIOUS
<1>1. \A z \in Prizes :
        /\ Shown(z) = {} /\ ToShow(z) = {}
        /\ Credited(z) = {} /\ ToCredit(z) = {} /\ awarded[z] = 0
  BY GamesAssumption DEF GamesInit, Shown, ToShow, Credited, ToCredit
<1>2. IsFiniteSet({}) /\ Cardinality({}) = 0
  BY FS_EmptySet
<1>3. credits = {}
  BY DEF GamesInit
<1>4. QED
  BY <1>1, <1>2, <1>3 DEF CountsHold

LEMMA CountsStep == PrizeInv /\ PrizeInv' /\ CountsHold /\ [GamesNext]_gamesVars => CountsHold'
  BY CountsClaim, CountsRecord, CountsCredit, CountsOther DEF GamesNext, Draw

(* What plays show and customers were credited is within what was counted  *)
(* as awarded, in spite of crashes and of cards revealed twice at once.    *)
THEOREM AwardsCover == GamesSpec => []AwardsAreCounted
<1>1. PrizeInv /\ CountsHold => AwardsAreCounted
  <2>1. ASSUME PrizeInv, CountsHold, NEW z \in Prizes
        PROVE  Cardinality(Shown(z)) <= awarded[z] /\ Cardinality(Credited(z)) <= awarded[z]
    <3>1. /\ IsFiniteSet(Shown(z)) /\ IsFiniteSet(ToShow(z))
          /\ IsFiniteSet(Credited(z)) /\ IsFiniteSet(ToCredit(z))
      BY <2>1, CountsAreFinite DEF CountsHold
    <3>2. /\ Cardinality(Shown(z)) \in Nat /\ Cardinality(ToShow(z)) \in Nat
          /\ Cardinality(Credited(z)) \in Nat /\ Cardinality(ToCredit(z)) \in Nat
      BY <3>1, FS_CardinalityType
    <3>3. QED
      BY <2>1, <3>2 DEF CountsHold, PrizeInv, GamesTypeOK
  <2>2. QED
    BY <2>1 DEF AwardsAreCounted, Shown, Credited
<1>2. QED
  BY <1>1, CountsInit, CountsStep, PrizeInvariance, PTL DEF GamesSpec

-----------------------------------------------------------------------------
(* A prize that is unlimited throughout is never lost to anybody, so every *)
(* draw still has it when the rounds of the others are used up.            *)
NeverExcluded ==
  \A z \in Prizes : kinds[z] = {"unlimited"} => \A r \in Requests : z \notin excluded[r]

RecordsAPrize == \A r \in Requests : gamePc[r] = "record" => chosen[r] # NoPrize

Sure == (\E z \in Prizes : kinds[z] = {"unlimited"}) /\ Attempts >= Cardinality(Prizes)

ShowsAPrize == \A i \in Plays : play[i] = "REVEALED" => prizeOf[i] # NoPrize

DrawInv == NeverExcluded /\ (Sure => RecordsAPrize /\ ShowsAPrize)

(* As long as it lasts the player has a round and a prize to pick.         *)
LEMMA SomethingIsLeft ==
  ASSUME PrizeInv, NeverExcluded, Sure, NEW r \in Requests
  PROVE  RoundsLeft(r) /\ Available(r) # {}
<1>1. PICK z \in Prizes : kinds[z] = {"unlimited"}
  BY DEF Sure
<1>2. z \notin excluded[r] /\ stock[z] = -1
  BY <1>1 DEF NeverExcluded, PrizeInv, KindsTell
<1>3. excluded[r] \in SUBSET (Prizes \ {z})
  BY <1>2 DEF PrizeInv, GamesTypeOK
<1>4. /\ IsFiniteSet(Prizes \ {z}) /\ Cardinality(Prizes \ {z}) = Cardinality(Prizes) - 1
      /\ Cardinality(Prizes) \in Nat
  BY FiniteConstants, FS_RemoveElement, FS_CardinalityType
<1>5. Cardinality(excluded[r]) <= Cardinality(Prizes) - 1 /\ Cardinality(excluded[r]) \in Nat
  BY <1>3, <1>4, FS_Subset, FS_CardinalityType
<1>6. RoundsLeft(r)
  BY <1>4, <1>5, GamesAssumption DEF Sure, RoundsLeft
<1>7. QED
  BY <1>2, <1>6 DEF Available

LEMMA DrawInit == GamesInit => DrawInv
  BY DEF GamesInit, DrawInv, NeverExcluded, RecordsAPrize, ShowsAPrize

LEMMA DrawStep == PrizeInv /\ DrawInv /\ [GamesNext]_gamesVars => DrawInv'
<1> SUFFICES ASSUME PrizeInv, DrawInv, [GamesNext]_gamesVars PROVE DrawInv'
  OBVIOUS
<1>1. \A z \in Prizes : kinds'[z] = {"unlimited"} => kinds[z] = {"unlimited"}
  <2>1. ASSUME NEW y \in Prizes, NEW n \in -1 .. MaxStock, UpdatePrize(y, n)
        PROVE  \A z \in Prizes : kinds'[z] = {"unlimited"} => kinds[z] = {"unlimited"}
    BY <2>1 DEF UpdatePrize, PrizeInv, KindsTell, GamesTypeOK
  <2>2. CASE kinds' = kinds
    BY <2>2
  <2>3. QED
    BY <2>1, <2>2 DEF GamesNext, Draw, IssueCard, Reveal, Play, Pick, PickNothing, ClaimFree,
                      Claim, LoseClaim, Record, CreditPrize, DrawFails, stockroom, gamesVars
<1>2. Sure' => Sure
  BY <1>1 DEF Sure
<1>3. ASSUME NEW r \in Requests, LoseClaim(r)
      PROVE  DrawInv'
  <2>1. /\ excluded' = [excluded EXCEPT ![r] = @ \cup {chosen[r]}] /\ "limited" \in kinds[chosen[r]]
        /\ gamePc' = [gamePc EXCEPT ![r] = "pick"] /\ UNCHANGED <<kinds, play, prizeOf, chosen>>
    BY <1>3 DEF LoseClaim, GameGoto, stockroom, outcome, PrizeInv, ClaimsTell
  <2>2. NeverExcluded'
    BY <2>1 DEF NeverExcluded, DrawInv, PrizeInv, GamesTypeOK
  <2>3. QED
    BY <1>2, <2>1, <2>2 DEF DrawInv, RecordsAPrize, ShowsAPrize, PrizeInv, GamesTypeOK
<1>4. ASSUME UNCHANGED excluded PROVE NeverExcluded'
  BY <1>1, <1>4 DEF NeverExcluded, DrawInv
<1>5. ASSUME NEW r \in Requests, PickNothing(r)
      PROVE  DrawInv'
  <2>1. ~Sure
    BY <1>5, SomethingIsLeft DEF PickNothing, DrawInv
  <2>2. NeverExcluded'
    BY <1>4, <1>5 DEF PickNothing
  <2>3. QED
    BY <1>2, <2>1, <2>2 DEF DrawInv
<1>6. ASSUME NEW r \in Requests, Record(r)
      PROVE  DrawInv'
  <2>1. /\ gamePc[r] = "record" /\ target[r] \in Plays
        /\ play' = [play EXCEPT ![target[r]] = "REVEALED"]
        /\ prizeOf' = [prizeOf EXCEPT ![target[r]] = chosen[r]]
        /\ gamePc' = [gamePc EXCEPT ![r] = "credit"] /\ UNCHANGED <<kinds, excluded, chosen>>
    BY <1>6 DEF Record, GameGoto, stockroom, draw, PrizeInv, GamesTypeOK
  <2>2. Sure => \A i \in Plays : play'[i] = "REVEALED" => prizeOf'[i] # NoPrize
    BY <2>1 DEF DrawInv, RecordsAPrize, ShowsAPrize, PrizeInv, GamesTypeOK
  <2>3. QED
    BY <1>2, <1>4, <2>1, <2>2 DEF DrawInv, RecordsAPrize, ShowsAPrize, PrizeInv, GamesTypeOK
<1>7. ASSUME NEW r \in Requests, Claim(r) \/ ClaimFree(r)
      PROVE  DrawInv'
  <2>1. /\ chosen[r] # NoPrize /\ gamePc' = [gamePc EXCEPT ![r] = "record"]
        /\ UNCHANGED <<kinds, play, prizeOf, chosen, excluded>>
    BY <1>7, GamesAssumption DEF Claim, ClaimFree, GameGoto, outcome, draw, PrizeInv, ClaimsTell
  <2>2. QED
    BY <1>2, <1>4, <2>1 DEF DrawInv, RecordsAPrize, ShowsAPrize, PrizeInv, GamesTypeOK
<1>8. ASSUME NEW i \in Cards, IssueCard(i)
      PROVE  DrawInv'
  BY <1>2, <1>4, <1>8 DEF IssueCard, draw, DrawInv, RecordsAPrize, ShowsAPrize, PrizeInv, GamesTypeOK
<1>9. ASSUME UNCHANGED <<play, prizeOf, excluded>>,
             \A r \in Requests : gamePc'[r] = "record" => gamePc[r] = "record" /\ chosen'[r] = chosen[r]
      PROVE  DrawInv'
  BY <1>2, <1>4, <1>9 DEF DrawInv, RecordsAPrize, ShowsAPrize
<1>10. ASSUME \/ \E z \in Prizes, n \in -1 .. MaxStock : UpdatePrize(z, n)
              \/ UNCHANGED gamesVars
       PROVE  DrawInv'
  BY <1>9, <1>10 DEF UpdatePrize, outcome, draw, gamesVars
<1>11. ASSUME NEW r \in Requests, \/ \E i \in Cards : Reveal(r, i)
                                  \/ Play(r) \/ Pick(r) \/ CreditPrize(r) \/ DrawFails(r)
       PROVE  DrawInv'
  <2>1. UNCHANGED <<play, prizeOf, excluded>>
    BY <1>11 DEF Reveal, Play, Pick, CreditPrize, DrawFails, outcome, draw
  <2>2. \A q \in Requests : gamePc'[q] = "record" => gamePc[q] = "record" /\ chosen'[q] = chosen[q]
    BY <1>11 DEF Reveal, Play, Pick, CreditPrize, DrawFails, GameGoto, draw, PrizeInv, GamesTypeOK
  <2>3. QED
    BY <1>9, <2>1, <2>2
<1>12. QED
  BY <1>3, <1>5, <1>6, <1>7, <1>8, <1>10, <1>11 DEF GamesNext, Draw

(* Losing the last units to others costs a player rounds and not the draw. *)
THEOREM NoEmptyHands == GamesSpec => []AlwaysAPrize
<1>1. DrawInv => AlwaysAPrize
  BY DEF DrawInv, Sure, ShowsAPrize, AlwaysAPrize
<1>2. QED
  BY <1>1, DrawInit, DrawStep, PrizeInvariance, PTL DEF GamesSpec
===============================================================================
