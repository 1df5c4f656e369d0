------------------------------- MODULE Points -------------------------------
(***************************************************************************)
(* Loyalty points of a store: the balance column of each customer, the     *)
(* movements behind it (PointsTransaction), the journals posted for them,  *)
(* the stock of a reward and its vouchers, and the budget of a promotion.  *)
(* Every operation reads first and writes later; its writes commit in one  *)
(* transaction, at PostgreSQL's default isolation, where a row may change  *)
(* between the read and the write of the same transaction.  Some writes    *)
(* add to what the row then holds, the others put down a value computed    *)
(* from what was read.                                                     *)
(***************************************************************************)
EXTENDS PointsExpiry

CONSTANTS
  Handlers,    \* requests and worker jobs that run at the same time
  Customers,
  Payments,    \* captured payments
  Vouchers,    \* redemptions of the reward
  Owner,       \* Owner[p]: the customer of a payment
  Legacy,      \* movements from before journals were posted
  Earns,       \* what a payment may earn, the tier's multiplier included
  Amounts,     \* points that a redemption or an adjustment moves
  Wordings,    \* 1 if their reason may read like that of a cancelled voucher
  Cost,        \* price of the reward
  Stock,       \* its initial stock
  Bonus,       \* what the promotion gives
  Budget,      \* and what it may give in all
  MaxOps       \* bound on the operations

(* `undo` says that the reason is REDEMPTION_CANCELLED_REASON.             *)
RowTypes == {"EARN", "REDEEM", "ADJUST", "EXPIRE"}
RowSet == [customer : Customers, type : RowTypes, points : Int, undo : BOOLEAN]

(* The movements of a customer among some rows.                            *)
MovesIn(r, c) == [i \in DOMAIN r |-> IF r[i].customer = c THEN r[i].points ELSE 0]

Earnings(r, c) == Total({i \in DOMAIN r : r[i].type = "EARN"}, MovesIn(r, c))

OldBalance  == [c \in Customers |-> Balance(MovesIn(Legacy, c))]
OldLifetime == [c \in Customers |-> Earnings(Legacy, c)]

ASSUME PointsAssumption ==
  /\ Owner \in [Payments -> Customers]
  /\ Legacy \in Seq(RowSet)
  /\ OldBalance \in [Customers -> Nat]
  /\ OldLifetime \in [Customers -> Nat]
  /\ Earns \subseteq Nat \ {0}
  /\ Amounts \subseteq Nat \ {0}
  /\ Wordings \subseteq {0, 1}
  /\ Cost \in Nat \ {0}
  /\ Stock \in Nat
  /\ Bonus \in Nat \ {0}
  /\ Budget \in Nat
  /\ MaxOps \in Nat

VARIABLES
  balance,    \* Customer.pointsBalance
  lifetime,   \* Customer.lifetimePoints
  rows,       \* the PointsTransaction table, oldest first
  journals,   \* the postings of points_liability, one for each journal
  cutoff,     \* the first `cutoff` rows are older than the expiry window
  stock,      \* Reward.stock
  voucher,    \* Redemption.status
  holder,     \* the customer of each voucher
  ends,       \* how often the worth of a voucher was given, in goods or in points
  spent,      \* Promotion.spentPoints
  ended,      \* the promotion is ENDED
  awarded,    \* payments whose award was asked for
  task,       \* what each handler has read
  ops

vars == <<balance, lifetime, rows, journals, cutoff, stock, voucher, holder, ends, spent, ended,
          awarded, task, ops>>

accounts  == <<balance, lifetime, rows, journals>>
catalogue == <<stock, voucher, holder, ends>>
promotion == <<spent, ended>>

Row(c, t, n, u) == [customer |-> c, type |-> t, points |-> n, undo |-> u]
Journal(e, i, r) == [event |-> e, row |-> i, customer |-> r.customer, points |-> r.points]

(* What a handler does, for whom, and what it has read.                    *)
Task(o, c, v, n, b, a) ==
  [op |-> o, customer |-> c, voucher |-> v, points |-> n, seen |-> b, also |-> a]
Idle == Task("idle", "none", "none", 0, 0, 0)

Init ==
  /\ rows = Legacy
  /\ journals = {}
  /\ balance = OldBalance
  /\ lifetime = OldLifetime
  /\ cutoff = 0
  /\ stock = Stock
  /\ voucher = [v \in Vouchers |-> "none"]
  /\ holder = [v \in Vouchers |-> "none"]
  /\ ends = [v \in Vouchers |-> 0]
  /\ spent = 0
  /\ ended = FALSE
  /\ awarded = {}
  /\ task = [h \in Handlers |-> Idle]
  /\ ops = 0

Doing(h, o) == task[h].op = o
Goes(h, t) == task' = [task EXCEPT ![h] = t]
Ends(h) == Goes(h, Idle)

(* A new operation of an idle handler.                                     *)
Begins(h, t) ==
  /\ task[h] = Idle
  /\ ops < MaxOps
  /\ ops' = ops + 1
  /\ Goes(h, t)

(* LedgerService.post: idempotent by event and reference.                  *)
Post(e, i, r) ==
  IF \E j \in journals : j.event = e /\ j.row = i
  THEN journals
  ELSE journals \cup {Journal(e, i, r)}

(* The new row and its journal, and the balance as it then is.             *)
Books(e, r, b) ==
  /\ rows' = Append(rows, r)
  /\ journals' = Post(e, Len(rows) + 1, r)
  /\ balance' = [balance EXCEPT ![r.customer] = b]

-----------------------------------------------------------------------------
(* Points earned on a payment, then the promotion's bonus.                 *)

(* awardForPayment reads the customer before its transaction.              *)
ReadAward(h, p, n) ==
  /\ p \notin awarded
  /\ Begins(h, Task("award", Owner[p], "none", n, balance[Owner[p]], lifetime[Owner[p]]))
  /\ awarded' = awarded \cup {p}
  /\ UNCHANGED <<accounts, cutoff, catalogue, promotion>>

(* The balance is incremented, the lifetime put down as computed.          *)
CommitAward(h) ==
  LET t == task[h]
  IN  /\ Doing(h, "award")
      /\ Books("EARN", Row(t.customer, "EARN", t.points, FALSE), balance[t.customer] + t.points)
      /\ lifetime' = [lifetime EXCEPT ![t.customer] = t.also + t.points]
      /\ Goes(h, Task("promotion", t.customer, "none", 0, 0, 0))
      /\ UNCHANGED <<cutoff, catalogue, promotion, awarded, ops>>

(* Mutant: the bonus is not capped by what is left.                        *)
ReadPromotionUncapped(h) ==
  /\ Doing(h, "promotion")
  /\ IF ended \/ spent >= Budget
     THEN Ends(h)
     ELSE Goes(h, Task("bonus", task[h].customer, "none", Bonus, 0, spent))
  /\ UNCHANGED <<accounts, cutoff, catalogue, promotion, awarded, ops>>

(* applyToPayment reads the ACTIVE promotion and what is left of it.       *)
ReadPromotion(h) ==
  /\ Doing(h, "promotion")
  /\ IF ended \/ spent >= Budget
     THEN Ends(h)
     ELSE Goes(h, Task("bonus", task[h].customer, "none", Min({Bonus, Budget - spent}), 0, spent))
  /\ UNCHANGED <<accounts, cutoff, catalogue, promotion, awarded, ops>>

(* Mutant: a bonus does not count for the tier.                            *)
CommitBonusOutside(h) ==
  LET t == task[h]
  IN  /\ Doing(h, "bonus")
      /\ Books("EARN", Row(t.customer, "EARN", t.points, FALSE), balance[t.customer] + t.points)
      /\ spent' = spent + t.points
      /\ ended' = (ended \/ t.also + t.points >= Budget)
      /\ Ends(h)
      /\ UNCHANGED <<lifetime, cutoff, catalogue, awarded, ops>>

CommitBonus(h) ==
  LET t == task[h]
  IN  /\ Doing(h, "bonus")
      /\ Books("EARN", Row(t.customer, "EARN", t.points, FALSE), balance[t.customer] + t.points)
      /\ lifetime' = [lifetime EXCEPT ![t.customer] = @ + t.points]
      /\ spent' = spent + t.points
      /\ ended' = (ended \/ t.also + t.points >= Budget)
      /\ Ends(h)
      /\ UNCHANGED <<cutoff, catalogue, awarded, ops>>

-----------------------------------------------------------------------------
(* redeem, adjust and expiry: one row and a balance put down as computed.  *)

(* mutateIn: read, and refuse what the balance does not cover.             *)
ReadMutate(h, c, o, n, w) ==
  /\ balance[c] + n >= 0
  /\ Begins(h, Task(o, c, "none", n, balance[c], w))
  /\ UNCHANGED <<accounts, cutoff, catalogue, promotion, awarded>>

Mutate(h, c) ==
  \E n \in Amounts, w \in Wordings : \/ ReadMutate(h, c, "REDEEM", -n, w)
                                     \/ ReadMutate(h, c, "ADJUST", -n, w)
                                     \/ ReadMutate(h, c, "ADJUST", n, w)

(* expireCustomer reads the customer, then the movements.                  *)
ReadExpiry(h, c) ==
  /\ balance[c] > 0
  /\ Begins(h, Task("expiry", c, "none", 0, balance[c], 0))
  /\ UNCHANGED <<accounts, cutoff, catalogue, promotion, awarded>>

FindExpirable(h) ==
  LET t == task[h]
      due == AtRiskBefore(MovesIn(rows, t.customer), t.seen, cutoff)
  IN  /\ Doing(h, "expiry")
      /\ \/ due = 0 /\ Ends(h)
         \/ \E n \in 1 .. t.seen : /\ n = due
                                  /\ Goes(h, Task("EXPIRE", t.customer, "none", -n, t.seen, 0))
      /\ UNCHANGED <<accounts, cutoff, catalogue, promotion, awarded, ops>>

(* Mutant: the balance is decremented after all.                           *)
CommitByDecrement(h) ==
  LET t == task[h]
  IN  /\ t.op \in {"REDEEM", "ADJUST", "EXPIRE"}
      /\ Books(t.op, Row(t.customer, t.op, t.points, t.also = 1), balance[t.customer] + t.points)
      /\ Ends(h)
      /\ UNCHANGED <<lifetime, cutoff, catalogue, promotion, awarded, ops>>

(* Mutant: an expiry forgets the balance column.                           *)
CommitExpiryToLog(h) ==
  LET t == task[h]
  IN  /\ t.op \in {"REDEEM", "ADJUST", "EXPIRE"}
      /\ Books(t.op, Row(t.customer, t.op, t.points, t.also = 1),
               IF t.op = "EXPIRE" THEN t.seen ELSE t.seen + t.points)
      /\ Ends(h)
      /\ UNCHANGED <<lifetime, cutoff, catalogue, promotion, awarded, ops>>

Commit(h) ==
  LET t == task[h]
  IN  /\ t.op \in {"REDEEM", "ADJUST", "EXPIRE"}
      /\ Books(t.op, Row(t.customer, t.op, t.points, t.also = 1), t.seen + t.points)
      /\ Ends(h)
      /\ UNCHANGED <<lifetime, cutoff, catalogue, promotion, awarded, ops>>

(* Time passes.                                                            *)
Age ==
  /\ cutoff < Len(rows)
  /\ cutoff' = Len(rows)
  /\ UNCHANGED <<accounts, catalogue, promotion, awarded, task, ops>>

-----------------------------------------------------------------------------
(* Rewards and vouchers.                                                   *)

(* redeemReward reads the reward, then the customer.                       *)
ReadReward(h, c) ==
  /\ stock > 0
  /\ Begins(h, Task("reward", c, "none", 0, 0, stock))
  /\ UNCHANGED <<accounts, cutoff, catalogue, promotion, awarded>>

ReadHolder(h) ==
  LET t == task[h]
  IN  /\ Doing(h, "reward")
      /\ IF balance[t.customer] < Cost
         THEN Ends(h)
         ELSE Goes(h, Task("voucher", t.customer, "none", -Cost, balance[t.customer], t.also))
      /\ UNCHANGED <<accounts, cutoff, catalogue, promotion, awarded, ops>>

(* Mutant: the stock is left as it is.                                     *)
IssueFromStock(h, v) ==
  LET t == task[h]
  IN  /\ Doing(h, "voucher")
      /\ voucher[v] = "none"
      /\ Books("REDEEM", Row(t.customer, "REDEEM", -Cost, FALSE), t.seen - Cost)
      /\ voucher' = [voucher EXCEPT ![v] = "ISSUED"]
      /\ holder' = [holder EXCEPT ![v] = t.customer]
      /\ Ends(h)
      /\ UNCHANGED <<lifetime, cutoff, stock, ends, promotion, awarded, ops>>

Issue(h, v) ==
  LET t == task[h]
  IN  /\ Doing(h, "voucher")
      /\ voucher[v] = "none"
      /\ Books("REDEEM", Row(t.customer, "REDEEM", -Cost, FALSE), t.seen - Cost)
      /\ stock' = t.also - 1
      /\ voucher' = [voucher EXCEPT ![v] = "ISSUED"]
      /\ holder' = [holder EXCEPT ![v] = t.customer]
      /\ Ends(h)
      /\ UNCHANGED <<lifetime, cutoff, ends, promotion, awarded, ops>>

(* Mutant: any voucher that was issued may be cancelled.                   *)
ReadAnyVoucher(h, v, o) ==
  /\ voucher[v] # "none"
  /\ Begins(h, Task(o, holder[v], v, 0, 0, 0))
  /\ UNCHANGED <<accounts, cutoff, catalogue, promotion, awarded>>

(* fulfill and cancel look at the status, and write later.                 *)
ReadVoucher(h, v, o) ==
  /\ voucher[v] = "ISSUED"
  /\ Begins(h, Task(o, holder[v], v, 0, 0, 0))
  /\ UNCHANGED <<accounts, cutoff, catalogue, promotion, awarded>>

Closes(v, s) ==
  /\ voucher' = [voucher EXCEPT ![v] = s]
  /\ ends' = IF s = "FULFILLED" /\ voucher[v] = s THEN ends ELSE [ends EXCEPT ![v] = @ + 1]

Fulfill(h) ==
  /\ Doing(h, "fulfill")
  /\ Closes(task[h].voucher, "FULFILLED")
  /\ Ends(h)
  /\ UNCHANGED <<accounts, cutoff, stock, holder, promotion, awarded, ops>>

(* The points come back, under an event of their own, and so does the      *)
(* reward.                                                                 *)
CancelVoucher(h) ==
  LET t == task[h]
  IN  /\ Doing(h, "cancel")
      /\ Books("REDEEM_REVERSAL", Row(t.customer, "ADJUST", Cost, TRUE), balance[t.customer] + Cost)
      /\ stock' = stock + 1
      /\ Closes(t.voucher, "CANCELLED")
      /\ Ends(h)
      /\ UNCHANGED <<lifetime, cutoff, holder, promotion, awarded, ops>>

-----------------------------------------------------------------------------
(* Failures and repair.                                                    *)

(* A crash, or a failed statement: the transaction is rolled back.         *)
Abort(h) ==
  /\ task[h] # Idle
  /\ Ends(h)
  /\ UNCHANGED <<accounts, cutoff, catalogue, promotion, awarded, ops>>

(* Mutant: the rebuild posts every row under its own type.                 *)
EventOfType(r) == r.type

(* The event of a row as backfillPoints rebuilds it.                       *)
EventOf(r) ==
  IF r.points > 0 /\ r.type = "ADJUST" /\ r.undo THEN "REDEEM_REVERSAL" ELSE r.type

(* backfillPoints posts every row, one by one.                             *)
Backfill(i) ==
  /\ rows[i].points # 0
  /\ journals' = Post(EventOf(rows[i]), i, rows[i])
  /\ UNCHANGED <<balance, lifetime, rows, cutoff, catalogue, promotion, awarded, task, ops>>

Next ==
  \/ \E h \in Handlers :
       \/ \E p \in Payments, n \in Earns : ReadAward(h, p, n)
       \/ CommitAward(h)
       \/ ReadPromotion(h)
       \/ CommitBonus(h)
       \/ \E c \in Customers : Mutate(h, c) \/ ReadExpiry(h, c) \/ ReadReward(h, c)
       \/ FindExpirable(h)
       \/ Commit(h)
       \/ ReadHolder(h)
       \/ \E v \in Vouchers : \/ Issue(h, v)
                              \/ ReadVoucher(h, v, "fulfill")
                              \/ ReadVoucher(h, v, "cancel")
       \/ Fulfill(h)
       \/ CancelVoucher(h)
       \/ Abort(h)
  \/ \E i \in DOMAIN rows : Backfill(i)
  \/ Age

Spec == Init /\ [][Next]_vars

-----------------------------------------------------------------------------
(* Properties.                                                             *)

TypeOK ==
  /\ balance \in [Customers -> Int]
  /\ lifetime \in [Customers -> Nat]
  /\ rows \in Seq(RowSet)
  /\ journals \subseteq [event : RowTypes \cup {"REDEEM_REVERSAL"}, row : Nat,
                         customer : Customers, points : Int]
  /\ cutoff \in Nat
  /\ stock \in Int
  /\ voucher \in [Vouchers -> {"none", "ISSUED", "FULFILLED", "CANCELLED"}]
  /\ holder \in [Vouchers -> Customers \cup {"none"}]
  /\ ends \in [Vouchers -> Nat]
  /\ spent \in Nat
  /\ ended \in BOOLEAN
  /\ awarded \subseteq Payments
  /\ task \in [Handlers ->
                 [op : RowTypes \cup {"idle", "award", "promotion", "bonus", "expiry", "reward",
                                      "voucher", "fulfill", "cancel"},
                  customer : Customers \cup {"none"}, voucher : Vouchers \cup {"none"},
                  points : Int, seen : Int, also : Int]]
  /\ ops \in 0 .. MaxOps

(* A movement and its journal commit together or not at all, and the       *)
(* rebuild of old journals never posts a movement a second time: every     *)
(* journal is the one of its row, and only old rows may be without.        *)
OneJournalPerRow ==
  /\ \A j \in journals : /\ j.row \in DOMAIN rows
                         /\ j = Journal(EventOf(rows[j.row]), j.row, rows[j.row])
  /\ \A i \in DOMAIN rows : i > Len(Legacy) => \E j \in journals : j.row = i

(* However operations overlap, no balance is ever below zero.              *)
BalanceNeverNegative == \A c \in Customers : balance[c] >= 0

(* The balance is the sum of the customer's movements: a drift is never    *)
(* routine.                                                                *)
NoDrift == \A c \in Customers : balance[c] = Balance(MovesIn(rows, c))

(* The lifetime, which decides the tier, is the sum of what was earned.    *)
LifetimeIsEarned == \A c \in Customers : lifetime[c] = Earnings(rows, c)

(* Points, stock and voucher are taken atomically: no more vouchers are    *)
(* out than there were rewards.                                            *)
VouchersWithinStock ==
  Cardinality({v \in Vouchers : voucher[v] \in {"ISSUED", "FULFILLED"}}) + stock = Stock

(* A voucher is worth the reward or its points, once.                      *)
VoucherEndsOnce == \A v \in Vouchers : ends[v] <= 1

(* A promotion honours its budget cap.                                     *)
WithinBudget == spent <= Budget
=============================================================================
