------------------------------ MODULE Settlement ------------------------------
(***************************************************************************)
(* The daily statements of one store in one currency, and what is paid out *)
(* to its merchant.  Settlement runs (the worker's hourly sweep and the    *)
(* dashboard's "settle now") list payments first and fold them into the    *)
(* statement of their day later, one transaction for each day, under an    *)
(* advisory lock.  Payouts are booked against merchant_payable under a     *)
(* lock of their own.  Captures, refunds and their journals go on beside   *)
(* both and take neither lock.                                             *)
(*                                                                         *)
(* Money is counted in units, Scale to one of an amount, of which the fee  *)
(* takes Rate, so that it is exact; the rounding of Decimal to four places *)
(* is left out, and so are an administrator's change of the fee and the    *)
(* backfill of refunds, which module Refunds has.                          *)
(***************************************************************************)
EXTENDS Integers, FiniteSets

CONSTANTS
  Payments,    \* the payments of the store
  Amount,      \* Amount[p]: the amount of payment p
  MaxDay,      \* bound on the days
  Workers,     \* maintenance jobs, which sweep the days that are over
  Admins,      \* requests: settle now, and payouts
  Asked,       \* the amounts, in units, an administrator may ask to pay out
  Take,        \* how many payments a run lists at most
  Scale,       \* units of an amount
  Rate,        \* Store.feeBps, as the units of an amount that are its fee
  Tol,         \* TOL of the payout service, in units
  MaxFaults    \* bound on crashes and failed transactions

ASSUME SettlementAssumption ==
  /\ Amount \in [Payments -> Nat \ {0}]
  /\ MaxDay \in Nat \ {0}
  /\ Asked \subseteq Nat \ {0}
  /\ Take \in Nat \ {0}
  /\ Workers \cap Admins = {}
  /\ Scale \in Nat \ {0}
  /\ Rate \in 0 .. Scale
  /\ Tol \in Nat
  /\ MaxFaults \in Nat

Handlers == Workers \cup Admins
Days     == 1 .. MaxDay

VARIABLES
  today,      \* the UTC day
  day,        \* the day of paidAt, 0 as long as the payment is not captured
  refunded,   \* refundedAmount
  late,       \* of which refunded since the payment is in a statement
  batch,      \* settlementId: the day of the statement, 0 for NULL
  statement,  \* statement[d][p]: what the statement of d holds of p
  charged,    \* payments whose capture has its journal
  unposted,   \* refunds that have no journal yet
  position,   \* position[p]: what the journals of p add to merchant_payable
  credits,    \* merchant_payable: credits, debits by refunds, by payouts
  debits,
  paidOut,
  pc,
  job,
  faults

money  == <<day, refunded, late>>
sheets == <<batch, statement>>
books  == <<charged, unposted, position, credits, debits, paidOut>>
vars   == <<today, money, sheets, books, pc, job, faults>>

(* The columns of a statement are sums over its payments; kept apart are   *)
(* how often an amount was added, and the refund and the fee added with it.*)
Line   == [times : Nat, refund : Nat, fee : Nat]
NoLine == [times |-> 0, refund |-> 0, fee |-> 0]

(* What a run has read: the payments it still has to settle, and within    *)
(* its transaction the day, the unclaimed payments, their refunded amounts *)
(* and the statement.  For a payout, the value.                            *)
Job == [todo : SUBSET Payments, day : 0 .. MaxDay, fresh : SUBSET Payments, seen : [Payments -> Nat],
        sheet : [Payments -> Line], value : Nat]

NoJob == [todo |-> {}, day |-> 0, fresh |-> {}, seen |-> [p \in Payments |-> 0],
          sheet |-> [p \in Payments |-> NoLine], value |-> 0]

Init ==
  /\ today = 1
  /\ day = [p \in Payments |-> 0]
  /\ refunded = [p \in Payments |-> 0]
  /\ late = [p \in Payments |-> 0]
  /\ batch = [p \in Payments |-> 0]
  /\ statement = [d \in Days |-> [p \in Payments |-> NoLine]]
  /\ charged = {}
  /\ unposted = [p \in Payments |-> 0]
  /\ position = [p \in Payments |-> 0]
  /\ credits = 0
  /\ debits = 0
  /\ paidOut = 0
  /\ pc = [h \in Handlers |-> "idle"]
  /\ job = [h \in Handlers |-> NoJob]
  /\ faults = 0

Goto(h, l) == pc' = [pc EXCEPT ![h] = l]

Finish(h) == Goto(h, "idle") /\ job' = [job EXCEPT ![h] = NoJob]

-----------------------------------------------------------------------------
(* Time, captures, refunds, and their journals.                            *)

PassDay ==
  /\ today < MaxDay
  /\ today' = today + 1
  /\ UNCHANGED <<money, sheets, books, pc, job, faults>>

(* transition() takes paidAt from the clock before it commits: a capture   *)
(* around midnight may appear with the day that is over.                   *)
Capture(p, d) ==
  /\ day[p] = 0
  /\ d \in {today, today - 1} \cap Days
  /\ day' = [day EXCEPT ![p] = d]
  /\ UNCHANGED <<today, refunded, late, sheets, books, pc, job, faults>>

(* The transaction of refund(), which module Refunds has in detail.        *)
Refund(p, a) ==
  /\ day[p] # 0
  /\ refunded[p] + a <= Amount[p]
  /\ refunded' = [refunded EXCEPT ![p] = @ + a]
  /\ late' = [late EXCEPT ![p] = IF batch[p] = 0 THEN @ ELSE @ + a]
  /\ unposted' = [unposted EXCEPT ![p] = @ + a]
  /\ UNCHANGED <<today, day, sheets, charged, position, credits, debits, paidOut, pc, job, faults>>

(* What the merchant has of an amount a.                                   *)
NetOf(a) == a * (Scale - Rate)

(* The last consequence of a capture, or the backfill; it may fail, and so *)
(* come late or never.                                                     *)
PostPaymentCaptured(p) ==
  /\ day[p] # 0
  /\ p \notin charged
  /\ charged' = charged \cup {p}
  /\ position' = [position EXCEPT ![p] = @ + NetOf(Amount[p])]
  /\ credits' = credits + NetOf(Amount[p])
  /\ UNCHANGED <<today, money, sheets, unposted, debits, paidOut, pc, job, faults>>

(* After the refund has committed; best effort, so that it may not happen. *)
PostRefund(p, a) ==
  /\ a <= unposted[p]
  /\ unposted' = [unposted EXCEPT ![p] = @ - a]
  /\ position' = [position EXCEPT ![p] = @ - NetOf(a)]
  /\ debits' = debits + NetOf(a)
  /\ UNCHANGED <<today, money, sheets, charged, credits, paidOut, pc, job, faults>>

-----------------------------------------------------------------------------
(* A settlement run.                                                       *)

Captured  == {p \in Payments : day[p] # 0}
Unclaimed == {p \in Captured : batch[p] = 0}

(* runForStore: the payments are read.                                     *)
List(h, eligible) ==
  /\ pc[h] = "idle"
  /\ \E L \in SUBSET eligible :
       /\ L # {}
       /\ Cardinality(L) <= Take
       /\ L = eligible \/ Cardinality(L) = Take
       /\ job' = [job EXCEPT ![h] = [NoJob EXCEPT !.todo = L]]
  /\ Goto(h, "groups")
  /\ UNCHANGED <<today, money, sheets, books, faults>>

SettlementSweep(w) == List(w, {p \in Unclaimed : day[p] < today})
SettleNow(a) == List(a, Unclaimed)

Locked(d) == \E h \in Handlers : pc[h] = "claim" /\ job[h].day = d

(* The groups go one by one; the run ends after the last.                  *)
NextGroup(h, rest) ==
  IF rest = {}
    THEN Finish(h)
    ELSE Goto(h, "groups") /\ job' = [job EXCEPT ![h] = [NoJob EXCEPT !.todo = rest]]

GroupOf(h, d) == {p \in job[h].todo : day[p] = d}

(* Mutant: what was listed is taken as it is.                              *)
FreshAsListed(G) == G

(* The re-read within the transaction.                                     *)
Fresh(G) == {p \in G : batch[p] = 0}

(* settleGroup, under the lock: the payments nobody has claimed, what they *)
(* have refunded, and the statement of the day.                            *)
OpenGroup(h, d) ==
  LET G == GroupOf(h, d)
      F == Fresh(G)
  IN  /\ pc[h] = "groups"
      /\ G # {}
      /\ ~Locked(d)
      /\ \/ F = {} /\ NextGroup(h, job[h].todo \ G)
         \/ /\ F # {}
            /\ Goto(h, "claim")
            /\ job' = [job EXCEPT ![h].day = d, ![h].fresh = F, ![h].sheet = statement[d],
                    ![h].seen = [p \in Payments |-> IF p \in F THEN refunded[p] ELSE 0]]
      /\ UNCHANGED <<today, money, sheets, books, faults>>

(* Mutant: the fee is charged on the gross amount.                         *)
FeeOfGross(amount, refund) == amount * Rate

(* computeSettlementAmounts.                                               *)
FeeOf(amount, refund) == (amount - refund) * Rate

(* The statement is written from what was read, the payments are claimed,  *)
(* and the transaction commits.                                            *)
ClaimGroup(h) ==
  LET j == job[h]
  IN  /\ pc[h] = "claim"
      /\ statement' = [statement EXCEPT ![j.day] =
           [p \in Payments |->
              IF p \in j.fresh
                THEN [times  |-> j.sheet[p].times + 1,
                      refund |-> j.sheet[p].refund + j.seen[p],
                      fee    |-> j.sheet[p].fee + FeeOf(Amount[p], j.seen[p])]
                ELSE j.sheet[p]]]
      /\ batch' = [p \in Payments |-> IF p \in Fresh(j.fresh) THEN j.day ELSE batch[p]]
      /\ NextGroup(h, j.todo \ GroupOf(h, j.day))
      /\ UNCHANGED <<today, money, books, faults>>

-----------------------------------------------------------------------------
(* A payout (MANUAL): the money has left already, and is recorded.         *)

Owed == credits - debits - paidOut

(* Mutant: earlier payouts are not subtracted.                             *)
CoveredAfresh(v) == v <= Owed + paidOut + Tol

Covered(v) == v <= Owed + Tol

(* pay(), under the lock of the payouts.                                   *)
Pay(a, v) ==
  /\ pc[a] = "idle"
  /\ \A h \in Handlers : pc[h] # "pay"
  /\ Covered(v)
  /\ Goto(a, "pay")
  /\ job' = [job EXCEPT ![a] = [NoJob EXCEPT !.value = v]]
  /\ UNCHANGED <<today, money, sheets, books, faults>>

(* The row and its journal commit together.                                *)
PostPayout(a) ==
  /\ pc[a] = "pay"
  /\ paidOut' = paidOut + job[a].value
  /\ Finish(a)
  /\ UNCHANGED <<today, money, sheets, charged, unposted, position, credits, debits, faults>>

(* A crash or a failed transaction: it is rolled back and its lock is      *)
(* free; the groups before it stay settled.                                *)
Fail(h) ==
  /\ faults < MaxFaults
  /\ pc[h] # "idle"
  /\ faults' = faults + 1
  /\ Finish(h)
  /\ UNCHANGED <<today, money, sheets, books>>

-----------------------------------------------------------------------------
Settle(h) == (\E d \in Days : OpenGroup(h, d)) \/ ClaimGroup(h)

Next ==
  \/ PassDay
  \/ \E p \in Payments : \/ \E d \in Days : Capture(p, d)
                         \/ \E a \in 1 .. Amount[p] : Refund(p, a) \/ PostRefund(p, a)
                         \/ PostPaymentCaptured(p)
  \/ \E w \in Workers : SettlementSweep(w)
  \/ \E a \in Admins : SettleNow(a) \/ PostPayout(a) \/ \E v \in Asked : Pay(a, v)
  \/ \E h \in Handlers : Settle(h) \/ Fail(h)

Spec == Init /\ [][Next]_vars

(* A run goes on, and its turn for a lock comes (Postgres queues those who *)
(* wait); the sweep is a repeated job, for which a worker comes free.      *)
FairSpec ==
  /\ Spec
  /\ \A h \in Handlers : SF_vars(Settle(h))
  /\ \A w \in Workers : SF_vars(SettlementSweep(w))

-----------------------------------------------------------------------------
(* Properties.                                                             *)

TypeOK ==
  /\ today \in Days
  /\ day \in [Payments -> 0 .. MaxDay]
  /\ refunded \in [Payments -> Nat]
  /\ \A p \in Payments : refunded[p] <= Amount[p]
  /\ late \in [Payments -> Nat]
  /\ batch \in [Payments -> 0 .. MaxDay]
  /\ statement \in [Days -> [Payments -> Line]]
  /\ charged \subseteq Payments
  /\ unposted \in [Payments -> Nat]
  /\ position \in [Payments -> Int]
  /\ credits \in Nat
  /\ debits \in Nat
  /\ paidOut \in Nat
  /\ pc \in [Handlers -> {"idle", "groups", "claim", "pay"}]
  /\ job \in [Handlers -> Job]
  /\ faults \in 0 .. MaxFaults

(* However many runs overlap, a payment is in the statement of its day,    *)
(* and counted there once: no run doubles what another has folded in, and  *)
(* none loses it.                                                          *)
CountedOnce ==
  \A p \in Payments :
     /\ batch[p] \in {0, day[p]}
     /\ \A d \in Days : statement[d][p].times = IF batch[p] = d THEN 1 ELSE 0

(* A statement shows no refund that was not made, nor one made after its   *)
(* payment was settled.                                                    *)
RefundsNotOverstated ==
  \A p \in Payments, d \in Days : statement[d][p].refund + late[p] <= refunded[p]

(* The statement agrees with the books: where both know of the same        *)
(* refunds, what it leaves the merchant of a payment is what the journals  *)
(* of the payment added to merchant_payable.                               *)
StatementMatchesBooks ==
  \A p \in charged, d \in Days :
     /\ batch[p] = d
     /\ statement[d][p].refund = refunded[p] - unposted[p]
     => position[p] = (Amount[p] - statement[d][p].refund) * Scale - statement[d][p].fee

(* Concurrent payouts do not drain the account twice: together they never  *)
(* take more than was ever credited, but for the tolerance.                *)
PayoutsCovered == paidOut <= credits + Tol

(* A payment of a day that is over is settled in the end, whatever run     *)
(* fails on the way.                                                       *)
EveryPaymentSettles ==
  \A p \in Payments : (day[p] # 0 /\ day[p] < today) ~> (batch[p] # 0)

-----------------------------------------------------------------------------
(* What documents say that the code does not keep.                         *)

(* docs/settlement.md:26: what a statement does not show are the refunds   *)
(* issued after settlement.                                                *)
EarlierRefundsAreShown ==
  \A p \in Payments, d \in Days : batch[p] = d => statement[d][p].refund + late[p] = refunded[p]
=============================================================================
