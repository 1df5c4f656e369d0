------------------------------ MODULE Referrals ------------------------------
(***************************************************************************)
(* ReferralsService for one referee: the referral that ties her to who     *)
(* brought her, the points both get on her first payment, the commission   *)
(* on each of her payments, the review that holds them back or releases    *)
(* them, the payout, and the journals of all this with their backfill.     *)
(***************************************************************************)
EXTENDS Naturals, FiniteSets

CONSTANTS
  Payments,   \* the referee's payments
  Operators,  \* merchants' requests that pay commissions out
  MaxFaults   \* bound on crashes and failed calls

ASSUME ReferralsAssumption == MaxFaults \in Nat

VARIABLES
  referral,   \* Referral.status, or "none" before she is linked
  flagged,    \* Referral.flagged
  active,     \* ReferralProgram.active
  rewardedBy, \* payments whose transaction gave the reward
  commission, \* ReferralCommission.status by payment, or "none"
  accrued,    \* payments with a commission.accrued journal
  settled,    \* payments with a commission.paid journal
  pc,         \* the paid consequence of each payment
  held,       \* flagged, as that consequence read it
  stage,      \* the payout of each operator
  batch,      \* the commissions it has yet to mark or to post
  toAccrue,   \* what the backfill has yet to post as accrued,
  toSettle,   \*   and as paid
  faults

vars == <<referral, flagged, active, rewardedBy, commission, accrued, settled, pc, held,
          stage, batch, toAccrue, toSettle, faults>>

link     == <<referral, flagged, active>>
journals == <<accrued, settled>>
capture  == <<pc, held>>
payout   == <<stage, batch>>
backfill == <<toAccrue, toSettle>>

With(s) == {p \in Payments : commission[p] = s}

Init ==
  /\ referral = "none"
  /\ flagged = FALSE
  /\ active = TRUE
  /\ rewardedBy = {}
  /\ commission = [p \in Payments |-> "none"]
  /\ accrued = {}
  /\ settled = {}
  /\ pc = [p \in Payments |-> "unpaid"]
  /\ held = [p \in Payments |-> FALSE]
  /\ stage = [o \in Operators |-> "idle"]
  /\ batch = [o \in Operators |-> {}]
  /\ toAccrue = {}
  /\ toSettle = {}
  /\ faults = 0

Goto(p, l) == pc' = [pc EXCEPT ![p] = l]

Fault == faults < MaxFaults /\ faults' = faults + 1

-----------------------------------------------------------------------------
(* The referral and its program.                                           *)

(* linkReferral, from the creation of the customer: at most one referral   *)
(* per referee, flagged for good or ill by the screening at this moment.   *)
LinkReferral(f) ==
  /\ active
  /\ referral = "none"
  /\ referral' = "PENDING"
  /\ flagged' = f
  /\ UNCHANGED <<active, rewardedBy, commission, journals, capture, payout, backfill, faults>>

UpdateProgram ==
  /\ active' = ~active
  /\ UNCHANGED <<referral, flagged, rewardedBy, commission, journals, capture, payout, backfill, faults>>

(* reviewReferral(clear), one transaction.                                 *)
Clear ==
  /\ referral # "none"
  /\ flagged' = FALSE
  /\ commission' = [p \in Payments |-> IF commission[p] = "HELD" THEN "ACCRUED" ELSE commission[p]]
  /\ UNCHANGED <<referral, active, rewardedBy, journals, capture, payout, backfill, faults>>

(* Mutant: every commission of the referral is voided, not the HELD alone. *)
VoidAll ==
  /\ referral # "none"
  /\ commission' = [p \in Payments |-> IF commission[p] = "none" THEN "none" ELSE "VOID"]
  /\ UNCHANGED <<link, rewardedBy, journals, capture, payout, backfill, faults>>

(* reviewReferral(void): the referral stays flagged.                       *)
Void ==
  /\ referral # "none"
  /\ commission' = [p \in Payments |-> IF commission[p] = "HELD" THEN "VOID" ELSE commission[p]]
  /\ UNCHANGED <<link, rewardedBy, journals, capture, payout, backfill, faults>>

-----------------------------------------------------------------------------
(* onPaidPayment: the reward.                                              *)

Capture(p) ==
  /\ pc[p] = "unpaid"
  /\ Goto(p, "reward")
  /\ UNCHANGED <<link, rewardedBy, commission, journals, held, payout, backfill, faults>>

ReadReferral(p) ==
  /\ pc[p] = "reward"
  /\ Goto(p, IF referral = "PENDING" /\ ~flagged THEN "program" ELSE "accrue")
  /\ UNCHANGED <<link, rewardedBy, commission, journals, held, payout, backfill, faults>>

ReadProgram(p) ==
  /\ pc[p] = "program"
  /\ Goto(p, IF active THEN "recheck" ELSE "accrue")
  /\ UNCHANGED <<link, rewardedBy, commission, journals, held, payout, backfill, faults>>

(* The transaction opens with a second look, which takes no lock.          *)
Recheck(p) ==
  /\ pc[p] = "recheck"
  /\ Goto(p, IF referral = "REWARDED" THEN "accrue" ELSE "award")
  /\ UNCHANGED <<link, rewardedBy, commission, journals, held, payout, backfill, faults>>

(* Points of both, their journals and the status, together.                *)
Award(p) ==
  /\ pc[p] = "award"
  /\ rewardedBy' = rewardedBy \cup {p}
  /\ referral' = "REWARDED"
  /\ Goto(p, "accrue")
  /\ UNCHANGED <<flagged, active, commission, journals, held, payout, backfill, faults>>

-----------------------------------------------------------------------------
(* accrueCommission.                                                       *)

ReadHold(p) ==
  /\ pc[p] = "accrue"
  /\ held' = [held EXCEPT ![p] = flagged]
  /\ Goto(p, IF referral = "none" THEN "done" ELSE "terms")
  /\ UNCHANGED <<link, rewardedBy, commission, journals, payout, backfill, faults>>

(* Nothing is due outside the program's window, or on too small an amount. *)
ReadTerms(p) ==
  /\ pc[p] = "terms"
  /\ \/ active /\ Goto(p, "create")
     \/ Goto(p, "done")
  /\ UNCHANGED <<link, rewardedBy, commission, journals, held, payout, backfill, faults>>

(* Mutant: a flagged referral accrues like any other.                      *)
CreatePayable(p) ==
  /\ pc[p] = "create"
  /\ commission' = [commission EXCEPT ![p] = "ACCRUED"]
  /\ Goto(p, "post")
  /\ UNCHANGED <<link, rewardedBy, journals, held, payout, backfill, faults>>

CreateCommission(p) ==
  /\ pc[p] = "create"
  /\ commission' = [commission EXCEPT ![p] = IF held[p] THEN "HELD" ELSE "ACCRUED"]
  /\ Goto(p, "post")
  /\ UNCHANGED <<link, rewardedBy, journals, held, payout, backfill, faults>>

(* Mutant: the accrual is posted only for a commission that is still due.  *)
PostAccrualIfDue(p) ==
  /\ pc[p] = "post"
  /\ accrued' = IF commission[p] \in {"ACCRUED", "HELD"} THEN accrued \cup {p} ELSE accrued
  /\ Goto(p, "done")
  /\ UNCHANGED <<link, rewardedBy, commission, settled, held, payout, backfill, faults>>

PostAccrual(p) ==
  /\ pc[p] = "post"
  /\ accrued' = accrued \cup {p}
  /\ Goto(p, "done")
  /\ UNCHANGED <<link, rewardedBy, commission, settled, held, payout, backfill, faults>>

(* The creation or the posting fails and is swallowed, an earlier query    *)
(* fails and ends the consequences, or the process dies.                   *)
Fails(p) ==
  /\ pc[p] \notin {"unpaid", "done"}
  /\ Fault
  /\ Goto(p, "done")
  /\ UNCHANGED <<link, rewardedBy, commission, journals, held, payout, backfill>>

-----------------------------------------------------------------------------
(* payoutCommissions: list, mark by id, post one by one.                   *)

ListAccrued(o) ==
  /\ stage[o] = "idle"
  /\ With("ACCRUED") # {}
  /\ batch' = [batch EXCEPT ![o] = With("ACCRUED")]
  /\ stage' = [stage EXCEPT ![o] = "mark"]
  /\ UNCHANGED <<link, rewardedBy, commission, journals, capture, backfill, faults>>

(* updateMany by id: whatever status the rows have by now.                 *)
MarkPaid(o) ==
  /\ stage[o] = "mark"
  /\ commission' = [p \in Payments |-> IF p \in batch[o] THEN "PAID" ELSE commission[p]]
  /\ stage' = [stage EXCEPT ![o] = "post"]
  /\ UNCHANGED <<link, rewardedBy, journals, capture, batch, backfill, faults>>

PostPaid(o, p) ==
  /\ stage[o] = "post"
  /\ p \in batch[o]
  /\ settled' = settled \cup {p}
  /\ batch' = [batch EXCEPT ![o] = @ \ {p}]
  /\ stage' = [stage EXCEPT ![o] = IF batch[o] = {p} THEN "idle" ELSE "post"]
  /\ UNCHANGED <<link, rewardedBy, commission, accrued, capture, backfill, faults>>

(* A post throws, or the process dies: what is left is not posted.         *)
PayoutFails(o) ==
  /\ stage[o] # "idle"
  /\ Fault
  /\ stage' = [stage EXCEPT ![o] = "idle"]
  /\ batch' = [batch EXCEPT ![o] = {}]
  /\ UNCHANGED <<link, rewardedBy, commission, journals, capture, backfill>>

-----------------------------------------------------------------------------
(* The commissions' part of ReconciliationService.backfill.                *)

BackfillRead ==
  /\ toAccrue = {}
  /\ toSettle = {}
  /\ toAccrue' = With("ACCRUED") \cup With("HELD") \cup With("PAID")
  /\ toSettle' = With("PAID")
  /\ UNCHANGED <<link, rewardedBy, commission, journals, capture, payout, faults>>

BackfillAccrued(p) ==
  /\ p \in toAccrue
  /\ accrued' = accrued \cup {p}
  /\ toAccrue' = toAccrue \ {p}
  /\ UNCHANGED <<link, rewardedBy, commission, settled, capture, payout, toSettle, faults>>

BackfillPaid(p) ==
  /\ p \in toSettle \ toAccrue
  /\ settled' = settled \cup {p}
  /\ toSettle' = toSettle \ {p}
  /\ UNCHANGED <<link, rewardedBy, commission, accrued, capture, payout, toAccrue, faults>>

-----------------------------------------------------------------------------
Consequence(p) ==
  \/ ReadReferral(p)
  \/ ReadProgram(p)
  \/ Recheck(p)
  \/ Award(p)
  \/ ReadHold(p)
  \/ ReadTerms(p)
  \/ CreateCommission(p)
  \/ PostAccrual(p)

Payout(o) ==
  \/ MarkPaid(o)
  \/ \E p \in Payments : PostPaid(o, p)

Next ==
  \/ \E f \in BOOLEAN : LinkReferral(f)
  \/ UpdateProgram
  \/ Clear
  \/ Void
  \/ \E p \in Payments : Capture(p) \/ Consequence(p) \/ Fails(p)
  \/ \E o \in Operators : ListAccrued(o) \/ Payout(o) \/ PayoutFails(o)
  \/ BackfillRead
  \/ \E p \in Payments : BackfillAccrued(p) \/ BackfillPaid(p)

Spec == Init /\ [][Next]_vars

(* What has begun goes on; nobody has to pay, review or run the backfill.  *)
FairSpec ==
  /\ Spec
  /\ \A p \in Payments : WF_vars(Consequence(p))
  /\ \A o \in Operators : WF_vars(Payout(o))

-----------------------------------------------------------------------------
(* Properties.                                                             *)

Statuses == {"none", "ACCRUED", "HELD", "PAID", "VOID"}

TypeOK ==
  /\ referral \in {"none", "PENDING", "REWARDED"}
  /\ flagged \in BOOLEAN
  /\ active \in BOOLEAN
  /\ rewardedBy \subseteq Payments
  /\ commission \in [Payments -> Statuses]
  /\ accrued \subseteq Payments
  /\ settled \subseteq Payments
  /\ pc \in [Payments -> {"unpaid", "reward", "program", "recheck", "award", "accrue", "terms", "create", "post", "done"}]
  /\ held \in [Payments -> BOOLEAN]
  /\ stage \in [Operators -> {"idle", "mark", "post"}]
  /\ batch \in [Operators -> SUBSET Payments]
  /\ toAccrue \subseteq Payments
  /\ toSettle \subseteq Payments
  /\ faults \in 0 .. MaxFaults

(* While a referral is held for review nothing of it is paid: no points,   *)
(* no commission that a payout would take up, no cash in the ledger, in    *)
(* spite of flags read several awaits before they are used.                *)
FlaggedIsNotPaid ==
  flagged => /\ rewardedBy = {}
             /\ \A p \in Payments : commission[p] \in {"none", "HELD", "VOID"}
             /\ \A o \in Operators : batch[o] = {}
             /\ settled = {}

(* What was paid out or voided stays so.  The payout marks rows by id with *)
(* no look at their status, on a list that may be old: it revives no void  *)
(* commission because a listed one leaves ACCRUED only towards PAID.       *)
DecidedIsFinal ==
  [][\A p \in Payments : commission[p] \in {"PAID", "VOID"} => commission'[p] = commission[p]]_vars

(* Every commission that was paid out ends with both journals, so that the *)
(* payable comes back to nothing, unless a call failed or a process died.  *)
PaidIsBooked ==
  \A p \in Payments : (commission[p] = "PAID") ~> (p \in accrued \cap settled \/ faults > 0)

(* "Idempotent (referral moves to REWARDED once)."                         *)
RewardedOnce == Cardinality(rewardedBy) <= 1

(* "clear unflags it and releases any HELD commissions to ACCRUED".        *)
ClearReleases == referral # "none" /\ ~flagged => With("HELD") = {}

(* The commission payable is never overdrawn.                              *)
PayableCovers == settled \subseteq accrued

(* A commission that was cancelled is not left as a liability.             *)
VoidIsReversed == With("VOID") \cap accrued = {}
=============================================================================
