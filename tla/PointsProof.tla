----------------------------- MODULE PointsProof -----------------------------
(***************************************************************************)
(* Proofs about Points, for any number of customers, handlers, payments    *)
(* and vouchers: the types, that every journal belongs to its row, and     *)
(* that no interleaving takes a balance below zero.  Then about            *)
(* PointsExpiryHistory: for every history, the expiry rule is first-in     *)
(* first-out, and the warning is what expires.  Last about Points when     *)
(* handlers do not overlap: nothing drifts.                                *)
(***************************************************************************)
EXTENDS Points, PointsExpiryHistory, FiniteSetTheorems, TLAPS

Ops == RowTypes \cup {"idle", "award", "promotion", "bonus", "expiry", "reward", "voucher",
                      "fulfill", "cancel"}

TaskType == [op : Ops, customer : Customers \cup {"none"}, voucher : Vouchers \cup {"none"},
             points : Int, seen : Int, also : Int]

(* What a handler has read is enough for what it will write: a customer, a *)
(* balance that stays above zero, and a voucher that was issued.           *)
TaskSound(t) ==
  /\ t \in TaskType
  /\ t.op # "idle" => t.customer \in Customers
  /\ t.op \in {"REDEEM", "ADJUST", "EXPIRE", "voucher"} => t.seen + t.points >= 0
  /\ t.op \in {"REDEEM", "ADJUST", "EXPIRE"} => t.also \in Wordings \cup {0}
  /\ t.op = "voucher" => t.points = -Cost
  /\ t.op \in {"award", "bonus"} => t.points >= 0 /\ t.also >= 0
  /\ t.op \in {"fulfill", "cancel"} => t.voucher \in Vouchers /\ voucher[t.voucher] # "none"

(* No merchant words an adjustment like a cancelled redemption.            *)
Honest == Wordings \subseteq {0}

HoldersKnown == \A v \in Vouchers : voucher[v] # "none" => holder[v] \in Customers

IInv ==
  /\ TypeOK
  /\ \A h \in Handlers : TaskSound(task[h])
  /\ HoldersKnown
  /\ Honest => OneJournalPerRow
  /\ BalanceNeverNegative

LEMMA ConstantTypes ==
  /\ Legacy \in Seq(RowSet) /\ OldBalance \in [Customers -> Nat]
  /\ OldLifetime \in [Customers -> Nat]
  /\ Cost \in Nat /\ Cost > 0 /\ Stock \in Nat /\ Bonus \in Nat /\ Budget \in Nat /\ MaxOps \in Nat
  /\ Earns \subseteq Nat /\ Amounts \subseteq Nat /\ Wordings \subseteq {0, 1}
  BY PointsAssumption DEF PointsAssumption

LEMMA IdleIsSound == TaskSound(Idle)
<1>1. Idle \in TaskType
  BY DEF Idle, Task, TaskType, Ops
<1>2. Idle.op = "idle"
  BY DEF Idle, Task
<1>3. QED
  BY <1>1, <1>2 DEF TaskSound

(* The task of a handler that goes on, seen as a whole.                    *)
LEMMA TaskFields ==
  ASSUME NEW o \in Ops, NEW c \in Customers, NEW v \in Vouchers \cup {"none"},
         NEW n \in Int, NEW b \in Int, NEW a \in Int
  PROVE  /\ Task(o, c, v, n, b, a) \in TaskType
         /\ Task(o, c, v, n, b, a).op = o
         /\ Task(o, c, v, n, b, a).customer = c
         /\ Task(o, c, v, n, b, a).voucher = v
         /\ Task(o, c, v, n, b, a).points = n
         /\ Task(o, c, v, n, b, a).seen = b
         /\ Task(o, c, v, n, b, a).also = a
<1>1. Task(o, c, v, n, b, a) \in TaskType
  BY DEF Task, TaskType
<1>2. QED
  BY <1>1 DEF Task

LEMMA TasksStay ==
  ASSUME IInv, NEW h \in Handlers, NEW t, TaskSound(t), Goes(h, t)
  PROVE  \A g \in Handlers : TaskSound(task'[g])
<1>1. task \in [Handlers -> TaskType]
  BY DEF IInv, TypeOK, TaskType, Ops
<1>2. QED
  BY <1>1 DEF Goes, IInv

LEMMA TasksTyped ==
  ASSUME IInv, NEW h \in Handlers, NEW t, TaskSound(t), Goes(h, t)
  PROVE  task' \in [Handlers -> TaskType]
<1>1. task \in [Handlers -> TaskType] /\ t \in TaskType
  BY DEF IInv, TypeOK, TaskType, Ops, TaskSound
<1>2. QED
  BY <1>1 DEF Goes

LEMMA RowFields ==
  ASSUME NEW c \in Customers, NEW t \in RowTypes, NEW n \in Int, NEW u \in BOOLEAN
  PROVE  /\ Row(c, t, n, u) \in RowSet
         /\ Row(c, t, n, u).customer = c
         /\ Row(c, t, n, u).type = t
         /\ Row(c, t, n, u).points = n
         /\ Row(c, t, n, u).undo = u
  BY DEF Row, RowSet

(* The rebuild books a row under the event the live path used.             *)
LEMMA RowEvent ==
  ASSUME NEW c \in Customers, NEW t \in RowTypes, NEW n \in Int
  PROVE  /\ Row(c, t, n, FALSE) \in RowSet
         /\ EventOf(Row(c, t, n, FALSE)) = t
<1> DEFINE u == FALSE
           r == Row(c, t, n, u)
<1>1. u \in BOOLEAN
  OBVIOUS
<1> HIDE DEF u
<1>2. r \in RowSet /\ r.type = t /\ r.undo = u
  BY <1>1, RowFields
<1> HIDE DEF r
<1>3. EventOf(r) = t
  BY <1>2 DEF EventOf, u
<1>4. QED
  BY <1>2, <1>3 DEF r, u

LEMMA ReversalRow ==
  ASSUME NEW c \in Customers, NEW n \in Int, n > 0
  PROVE  /\ Row(c, "ADJUST", n, TRUE) \in RowSet
         /\ EventOf(Row(c, "ADJUST", n, TRUE)) = "REDEEM_REVERSAL"
<1> DEFINE r == Row(c, "ADJUST", n, TRUE)
<1>1. "ADJUST" \in RowTypes /\ TRUE \in BOOLEAN
  BY DEF RowTypes
<1>2. r \in RowSet /\ r.type = "ADJUST" /\ r.points = n /\ r.undo = TRUE
  BY <1>1, RowFields
<1> HIDE DEF r
<1>3. r.points > 0
  BY <1>2
<1>4. EventOf(r) = "REDEEM_REVERSAL"
  BY <1>2, <1>3 DEF EventOf
<1>5. QED
  BY <1>2, <1>4 DEF r

LEMMA EarnRow ==
  ASSUME NEW c \in Customers, NEW n \in Int
  PROVE  /\ Row(c, "EARN", n, FALSE) \in RowSet
         /\ EventOf(Row(c, "EARN", n, FALSE)) = "EARN"
<1>1. "EARN" \in RowTypes
  BY DEF RowTypes
<1>2. QED
  BY <1>1, RowEvent

(* What the property asks of the journals for some rows.                   *)
JournalsFit(js, rs) ==
  /\ \A j \in js : /\ j.row \in DOMAIN rs
                   /\ j = Journal(EventOf(rs[j.row]), j.row, rs[j.row])
  /\ \A i \in DOMAIN rs : i > Len(Legacy) => \E j \in js : j.row = i

JournalType == [event : RowTypes \cup {"REDEEM_REVERSAL"}, row : Nat, customer : Customers,
                points : Int]

LEMMA JournalFields ==
  ASSUME NEW e \in RowTypes \cup {"REDEEM_REVERSAL"}, NEW i \in Nat, NEW r \in RowSet
  PROVE  /\ Journal(e, i, r) \in JournalType
         /\ Journal(e, i, r).event = e
         /\ Journal(e, i, r).row = i
<1>1. r.customer \in Customers /\ r.points \in Int
  BY DEF RowSet
<1>2. QED
  BY <1>1 DEF Journal, JournalType

LEMMA EventTyped ==
  ASSUME NEW r \in RowSet
  PROVE  EventOf(r) \in RowTypes \cup {"REDEEM_REVERSAL"}
<1>1. r.type \in RowTypes
  BY DEF RowSet
<1>2. QED
  BY <1>1 DEF EventOf

(* Posting a row of any event keeps the types; posting it under the event  *)
(* that the rebuild would use fits.                                        *)
LEMMA PostTyped ==
  ASSUME journals \subseteq JournalType, NEW e \in RowTypes \cup {"REDEEM_REVERSAL"},
         NEW i \in Nat, NEW r \in RowSet
  PROVE  Post(e, i, r) \subseteq JournalType
  BY JournalFields DEF Post

LEMMA PostFits ==
  ASSUME rows \in Seq(RowSet), OneJournalPerRow, NEW i \in DOMAIN rows
  PROVE  JournalsFit(Post(EventOf(rows[i]), i, rows[i]), rows)
<1> DEFINE j0 == Journal(EventOf(rows[i]), i, rows[i])
<1>1. rows[i] \in RowSet /\ i \in Nat
  OBVIOUS
<1>2. j0.row = i
  BY <1>1, EventTyped, JournalFields
<1>3. JournalsFit(journals, rows)
  BY DEF OneJournalPerRow, JournalsFit
<1>4. JournalsFit(journals \cup {j0}, rows)
  BY <1>2, <1>3 DEF JournalsFit
<1>5. QED
  BY <1>3, <1>4 DEF Post

LEMMA BooksTyped ==
  ASSUME IInv, NEW r \in RowSet, NEW e \in RowTypes \cup {"REDEEM_REVERSAL"}, NEW b,
         Books(e, r, b)
  PROVE  rows' \in Seq(RowSet) /\ journals' \subseteq JournalType
<1>1. rows \in Seq(RowSet) /\ journals \subseteq JournalType
  BY DEF IInv, TypeOK, JournalType
<1>2. rows' = Append(rows, r) /\ journals' = Post(e, Len(rows) + 1, r)
  BY DEF Books
<1>3. Len(rows) + 1 \in Nat /\ rows' \in Seq(RowSet)
  BY <1>1, <1>2
<1>4. QED
  BY <1>1, <1>2, <1>3, PostTyped

LEMMA BooksFit ==
  ASSUME IInv, NEW r \in RowSet, NEW b, Books(EventOf(r), r, b), OneJournalPerRow
  PROVE  OneJournalPerRow'
<1> DEFINE i0 == Len(rows) + 1
           j0 == Journal(EventOf(r), i0, r)
<1>1. rows \in Seq(RowSet) /\ OneJournalPerRow
  BY DEF IInv, TypeOK
<1>2. rows' = Append(rows, r) /\ journals' = Post(EventOf(r), i0, r)
  BY DEF Books
<1>3. Len(rows) \in Nat /\ DOMAIN rows = 1 .. Len(rows)
  BY <1>1
<1>4. i0 \in Nat /\ i0 \notin DOMAIN rows
  BY <1>3
<1>5. \A j \in journals : j.row \in DOMAIN rows
  BY <1>1 DEF OneJournalPerRow
<1>6. journals' = journals \cup {j0}
  BY <1>2, <1>4, <1>5 DEF Post
<1>7. j0.row = i0
  BY <1>4, EventTyped, JournalFields
<1>8. Len(rows') = i0 /\ DOMAIN rows' = 1 .. i0
  BY <1>1, <1>2
<1>9. rows'[i0] = r /\ \A i \in DOMAIN rows : rows'[i] = rows[i]
  BY <1>1, <1>2, <1>3
<1>10. DOMAIN rows' = DOMAIN rows \cup {i0}
  BY <1>3, <1>8
<1>11. ASSUME NEW j \in journals'
       PROVE  /\ j.row \in DOMAIN rows'
              /\ j = Journal(EventOf(rows'[j.row]), j.row, rows'[j.row])
  <2>1. CASE j = j0
    BY <1>7, <1>9, <1>10, <2>1
  <2>2. CASE j \in journals
    BY <1>1, <1>9, <1>10, <2>2 DEF OneJournalPerRow
  <2>3. QED
    BY <1>6, <2>1, <2>2
<1>12. ASSUME NEW i \in DOMAIN rows', i > Len(Legacy)
       PROVE  \E j \in journals' : j.row = i
  <2>1. CASE i = i0
    BY <1>6, <1>7, <2>1
  <2>2. CASE i \in DOMAIN rows
    BY <1>1, <1>6, <1>12, <2>2 DEF OneJournalPerRow
  <2>3. QED
    BY <1>10, <2>1, <2>2
<1>13. QED
  BY <1>11, <1>12 DEF OneJournalPerRow

(* A balance that is put down at or above zero.                            *)
LEMMA BooksBalance ==
  ASSUME IInv, NEW r \in RowSet, NEW e, NEW b \in Int, b >= 0, Books(e, r, b)
  PROVE  balance' \in [Customers -> Int] /\ BalanceNeverNegative'
<1>1. balance \in [Customers -> Int] /\ BalanceNeverNegative
  BY DEF IInv, TypeOK
<1>2. balance' = [balance EXCEPT ![r.customer] = b]
  BY DEF Books
<1>3. balance' \in [Customers -> Int]
  BY <1>1, <1>2
<1>4. \A c \in Customers : balance'[c] = b \/ balance'[c] = balance[c]
  BY <1>1, <1>2
<1>5. BalanceNeverNegative'
  BY <1>1, <1>4 DEF BalanceNeverNegative
<1>6. QED
  BY <1>3, <1>5

LEMMA InitInv == Init => IInv
<1> SUFFICES ASSUME Init PROVE IInv
  OBVIOUS
<1>1. TypeOK
  <2>1. balance \in [Customers -> Int] /\ lifetime \in [Customers -> Nat]
    BY ConstantTypes DEF Init
  <2>2. rows \in Seq(RowSet) /\ journals = {} /\ cutoff = 0 /\ stock \in Int
    BY ConstantTypes DEF Init
  <2>3. voucher \in [Vouchers -> {"none", "ISSUED", "FULFILLED", "CANCELLED"}]
    BY DEF Init
  <2>4. holder \in [Vouchers -> Customers \cup {"none"}]
    BY DEF Init
  <2>5. ends \in [Vouchers -> Nat]
    BY DEF Init
  <2>6. spent = 0 /\ ended = FALSE /\ awarded = {} /\ ops = 0 /\ ops \in 0 .. MaxOps
    BY ConstantTypes DEF Init
  <2>7. task \in [Handlers -> TaskType]
    BY IdleIsSound DEF Init, TaskSound
  <2>8. QED
    BY <2>1, <2>2, <2>3, <2>4, <2>5, <2>6, <2>7 DEF TypeOK, TaskType, Ops
<1>2. \A h \in Handlers : TaskSound(task[h])
  BY IdleIsSound DEF Init
<1>3. HoldersKnown
  BY DEF Init, HoldersKnown
<1>4. OneJournalPerRow
  BY ConstantTypes DEF Init, OneJournalPerRow
<1>5. BalanceNeverNegative
  BY ConstantTypes DEF Init, BalanceNeverNegative
<1>6. QED
  BY <1>1, <1>2, <1>3, <1>4, <1>5 DEF IInv

-----------------------------------------------------------------------------
(* A step that reads: only the task, and the bookkeeping of what was asked *)
(* for, change.                                                            *)
LEMMA ReadsKeep ==
  ASSUME IInv, NEW h \in Handlers, NEW t, TaskSound(t), Goes(h, t),
         UNCHANGED <<accounts, cutoff, catalogue, promotion>>,
         awarded' \subseteq Payments, ops' \in 0 .. MaxOps
  PROVE  IInv'
<1>1. task' \in [Handlers -> TaskType] /\ \A g \in Handlers : TaskSound(task'[g])
  BY TasksStay, TasksTyped
<1>2. TypeOK'
  BY <1>1 DEF IInv, TypeOK, accounts, catalogue, promotion, TaskType, Ops
<1>3. \A g \in Handlers : TaskSound(task'[g])
  BY <1>1
<1>4. HoldersKnown'
  BY DEF IInv, HoldersKnown, catalogue
<1>5. (Honest => OneJournalPerRow') /\ BalanceNeverNegative'
  BY DEF IInv, OneJournalPerRow, BalanceNeverNegative, accounts
<1>6. QED
  BY <1>2, <1>3, <1>4, <1>5 DEF IInv, TaskSound, catalogue

(* A step that books a row.                                                *)
LEMMA BooksKeep ==
  ASSUME IInv, NEW h \in Handlers, NEW t, TaskSound(t), Goes(h, t),
         NEW r \in RowSet, NEW b \in Int, b >= 0,
         NEW e \in RowTypes \cup {"REDEEM_REVERSAL"}, Books(e, r, b), Honest => e = EventOf(r),
         lifetime' \in [Customers -> Nat], stock' \in Int,
         voucher' \in [Vouchers -> {"none", "ISSUED", "FULFILLED", "CANCELLED"}],
         holder' \in [Vouchers -> Customers \cup {"none"}],
         ends' \in [Vouchers -> Nat], spent' \in Nat, ended' \in BOOLEAN,
         HoldersKnown', \A v \in Vouchers : voucher[v] # "none" => voucher'[v] # "none",
         UNCHANGED <<cutoff, awarded, ops>>
  PROVE  IInv'
<1>1. task' \in [Handlers -> TaskType] /\ \A g \in Handlers : TaskSound(task'[g])
  BY TasksStay, TasksTyped
<1>2. rows' \in Seq(RowSet) /\ journals' \subseteq JournalType
  BY BooksTyped
<1>7. Honest => OneJournalPerRow'
  BY BooksFit DEF IInv
<1>3. balance' \in [Customers -> Int] /\ BalanceNeverNegative'
  BY BooksBalance
<1>4. cutoff' \in Nat /\ awarded' \subseteq Payments /\ ops' \in 0 .. MaxOps
  BY DEF IInv, TypeOK
<1>5. TypeOK'
  BY <1>1, <1>2, <1>3, <1>4 DEF TypeOK, TaskType, Ops, JournalType
<1>6. \A g \in Handlers : TaskSound(task[g])'
  BY <1>1 DEF TaskSound
<1>8. QED
  BY <1>2, <1>3, <1>5, <1>6, <1>7 DEF IInv

LEMMA BeginsCounts ==
  ASSUME IInv, NEW h \in Handlers, NEW t, Begins(h, t)
  PROVE  Goes(h, t) /\ ops' \in 0 .. MaxOps
<1>1. ops \in 0 .. MaxOps /\ ops < MaxOps /\ ops' = ops + 1 /\ MaxOps \in Nat
  BY ConstantTypes DEF IInv, TypeOK, Begins
<1>2. QED
  BY <1>1 DEF Begins

(* A task that will write nothing, or nothing that depends on a balance.   *)
LEMMA PlainTask ==
  ASSUME NEW o \in {"promotion", "expiry", "reward"}, NEW c \in Customers,
         NEW v \in Vouchers \cup {"none"}, NEW b \in Int, NEW a \in Int
  PROVE  TaskSound(Task(o, c, v, 0, b, a))
<1>1. o \in Ops /\ 0 \in Int
  BY DEF Ops
<1>2. Task(o, c, v, 0, b, a) \in TaskType /\ Task(o, c, v, 0, b, a).op = o
      /\ Task(o, c, v, 0, b, a).customer = c
  BY <1>1, TaskFields
<1>3. QED
  BY <1>2 DEF TaskSound

(* A task that will put down seen + points.                                *)
LEMMA WritingTask ==
  ASSUME NEW o \in {"REDEEM", "ADJUST", "EXPIRE"}, NEW c \in Customers,
         NEW n \in Int, NEW b \in Int, b + n >= 0, NEW a \in Wordings \cup {0}
  PROVE  TaskSound(Task(o, c, "none", n, b, a))
<1> DEFINE t == Task(o, c, "none", n, b, a)
<1>1. o \in Ops /\ a \in Int
  BY ConstantTypes DEF Ops, RowTypes
<1>2. /\ t \in TaskType /\ t.op = o /\ t.customer = c
      /\ t.points = n /\ t.seen = b /\ t.also = a
  BY <1>1, TaskFields
<1> HIDE DEF t
<1>3. TaskSound(t)
  BY <1>2 DEF TaskSound
<1>4. QED
  BY <1>3 DEF t

(* A task that will add points.                                            *)
LEMMA AddingTask ==
  ASSUME NEW o \in {"award", "bonus"}, NEW c \in Customers,
         NEW n \in Nat, NEW b \in Int, NEW a \in Nat
  PROVE  TaskSound(Task(o, c, "none", n, b, a))
<1>1. o \in Ops /\ n \in Int /\ a \in Int
  BY DEF Ops
<1>2. /\ Task(o, c, "none", n, b, a) \in TaskType
      /\ Task(o, c, "none", n, b, a).op = o
      /\ Task(o, c, "none", n, b, a).customer = c
      /\ Task(o, c, "none", n, b, a).points = n
      /\ Task(o, c, "none", n, b, a).also = a
  BY <1>1, TaskFields
<1>3. n >= 0 /\ a >= 0
  OBVIOUS
<1>4. QED
  BY <1>2, <1>3 DEF TaskSound

(* A task that will take the price of the reward.                          *)
LEMMA VoucherTask ==
  ASSUME NEW c \in Customers, NEW n \in Int, NEW b \in Int, NEW a \in Int,
         n = -Cost, b + n >= 0
  PROVE  TaskSound(Task("voucher", c, "none", n, b, a))
<1> DEFINE t == Task("voucher", c, "none", n, b, a)
<1>1. "voucher" \in Ops /\ "none" \in Vouchers \cup {"none"}
  BY DEF Ops
<1>2. /\ t \in TaskType /\ t.op = "voucher" /\ t.customer = c
      /\ t.points = n /\ t.seen = b
  BY <1>1, TaskFields
<1> HIDE DEF t
<1>3. TaskSound(t)
  BY <1>2 DEF TaskSound
<1>4. QED
  BY <1>3 DEF t

(* A task that will end a voucher.                                         *)
LEMMA EndingTask ==
  ASSUME NEW o \in {"fulfill", "cancel"}, NEW c \in Customers, NEW v \in Vouchers,
         voucher[v] # "none"
  PROVE  TaskSound(Task(o, c, v, 0, 0, 0))
<1>1. o \in Ops /\ 0 \in Int
  BY DEF Ops
<1>2. /\ Task(o, c, v, 0, 0, 0) \in TaskType /\ Task(o, c, v, 0, 0, 0).op = o
      /\ Task(o, c, v, 0, 0, 0).customer = c /\ Task(o, c, v, 0, 0, 0).voucher = v
  BY <1>1, TaskFields
<1>3. QED
  BY <1>2 DEF TaskSound

LEMMA AccountTypes ==
  ASSUME IInv
  PROVE  /\ balance \in [Customers -> Int] /\ \A c \in Customers : balance[c] >= 0
         /\ lifetime \in [Customers -> Nat] /\ stock \in Int /\ spent \in Nat
         /\ \A h \in Handlers : TaskSound(task[h]) /\ task[h] \in TaskType
  BY DEF IInv, TypeOK, BalanceNeverNegative, TaskSound

LEMMA ReadAwardInv ==
  ASSUME IInv, NEW h \in Handlers, NEW p \in Payments, NEW n \in Earns, ReadAward(h, p, n)
  PROVE  IInv'
<1> DEFINE t == Task("award", Owner[p], "none", n, balance[Owner[p]], lifetime[Owner[p]])
<1>1. Owner[p] \in Customers /\ n \in Nat
  BY ConstantTypes, PointsAssumption DEF PointsAssumption
<1>2. balance[Owner[p]] \in Int /\ lifetime[Owner[p]] \in Nat
  BY <1>1, AccountTypes
<1>3. TaskSound(t)
  BY <1>1, <1>2, AddingTask
<1>4. Begins(h, t)
  BY DEF ReadAward
<1>5. Goes(h, t) /\ ops' \in 0 .. MaxOps
  BY <1>4, BeginsCounts
<1>6. UNCHANGED <<accounts, cutoff, catalogue, promotion>> /\ awarded' \subseteq Payments
  BY DEF ReadAward, IInv, TypeOK
<1>7. QED
  BY <1>3, <1>5, <1>6, ReadsKeep

LEMMA CommitAwardInv ==
  ASSUME IInv, NEW h \in Handlers, CommitAward(h)
  PROVE  IInv'
<1> DEFINE c == task[h].customer
           n == task[h].points
           a == task[h].also
           r == Row(c, "EARN", n, FALSE)
           t == Task("promotion", c, "none", 0, 0, 0)
<1>1. task[h].op = "award" /\ TaskSound(task[h]) /\ task[h] \in TaskType
  BY AccountTypes DEF CommitAward, Doing
<1>2. c \in Customers /\ n \in Int /\ a \in Int /\ n >= 0 /\ a >= 0
  BY <1>1 DEF TaskSound, TaskType
<1>3. r \in RowSet
  BY <1>2, EarnRow
<1>4. EventOf(r) = "EARN"
  BY <1>2, EarnRow
<1>5. TaskSound(t) /\ Goes(h, t)
  <2>1. "promotion" \in {"promotion", "expiry", "reward"} /\ 0 \in Int
    OBVIOUS
  <2>2. TaskSound(t)
    BY <1>2, <2>1, PlainTask
  <2>3. QED
    BY <2>2 DEF CommitAward
<1>6. balance[c] \in Int /\ balance[c] >= 0
  BY <1>2, AccountTypes
<1>7. balance[c] + n \in Int /\ balance[c] + n >= 0 /\ a + n \in Nat
  BY <1>2, <1>6
<1>8. Books(EventOf(r), r, balance[c] + n)
  BY <1>4 DEF CommitAward
<1>9. lifetime' \in [Customers -> Nat]
  <2>1. lifetime' = [lifetime EXCEPT ![c] = a + n]
    BY DEF CommitAward
  <2>2. QED
    BY <1>7, <2>1, AccountTypes
<1>10. UNCHANGED <<cutoff, catalogue, promotion, awarded, ops>>
  BY DEF CommitAward
<1>11. /\ stock' \in Int
       /\ voucher' \in [Vouchers -> {"none", "ISSUED", "FULFILLED", "CANCELLED"}]
       /\ holder' \in [Vouchers -> Customers \cup {"none"}]
       /\ ends' \in [Vouchers -> Nat] /\ HoldersKnown' /\ spent' \in Nat /\ ended' \in BOOLEAN
       /\ \A v \in Vouchers : voucher[v] # "none" => voucher'[v] # "none"
  BY <1>10 DEF IInv, TypeOK, HoldersKnown, catalogue, promotion
<1>12. EventOf(r) \in RowTypes \cup {"REDEEM_REVERSAL"}
  BY <1>3, EventTyped
<1>13. QED
  BY <1>3, <1>5, <1>7, <1>8, <1>9, <1>10, <1>11, <1>12, BooksKeep

LEMMA ReadPromotionInv ==
  ASSUME IInv, NEW h \in Handlers, ReadPromotion(h)
  PROVE  IInv'
<1> DEFINE c == task[h].customer
           n == Min({Bonus, Budget - spent})
           t == Task("bonus", c, "none", n, 0, spent)
<1>1. task[h].op = "promotion" /\ TaskSound(task[h])
  BY AccountTypes DEF ReadPromotion, Doing
<1>2. c \in Customers /\ spent \in Nat /\ Bonus \in Nat /\ Budget \in Nat
  BY <1>1, AccountTypes, ConstantTypes DEF TaskSound
<1>3. UNCHANGED <<accounts, cutoff, catalogue, promotion>> /\ awarded' \subseteq Payments
      /\ ops' \in 0 .. MaxOps
  BY DEF ReadPromotion, IInv, TypeOK
<1>4. CASE ended \/ spent >= Budget
  BY <1>3, <1>4, IdleIsSound, ReadsKeep DEF ReadPromotion, Ends
<1>5. CASE ~(ended \/ spent >= Budget)
  <2>1. Goes(h, t)
    BY <1>5 DEF ReadPromotion
  <2>2. n \in Nat
    <3>1. Budget - spent \in Nat
      BY <1>2, <1>5
    <3>2. {Bonus, Budget - spent} \subseteq Nat /\ {Bonus, Budget - spent} # {}
      BY <1>2, <3>1
    <3>3. \E x \in {Bonus, Budget - spent} : \A y \in {Bonus, Budget - spent} : x <= y
      BY <1>2, <3>1
    <3>4. n \in {Bonus, Budget - spent}
      BY <3>3 DEF Min
    <3>5. QED
      BY <3>2, <3>4
  <2>3. TaskSound(t)
    BY <1>2, <2>2, AddingTask
  <2>4. QED
    BY <1>3, <2>1, <2>3, ReadsKeep
<1>6. QED
  BY <1>4, <1>5

LEMMA CommitBonusInv ==
  ASSUME IInv, NEW h \in Handlers, CommitBonus(h)
  PROVE  IInv'
<1> DEFINE c == task[h].customer
           n == task[h].points
           r == Row(c, "EARN", n, FALSE)
<1>1. task[h].op = "bonus" /\ TaskSound(task[h]) /\ task[h] \in TaskType
  BY AccountTypes DEF CommitBonus, Doing
<1>2. c \in Customers /\ n \in Int /\ n >= 0
  BY <1>1 DEF TaskSound, TaskType
<1>3. r \in RowSet
  BY <1>2, EarnRow
<1>4. EventOf(r) = "EARN"
  BY <1>2, EarnRow
<1>5. TaskSound(Idle) /\ Goes(h, Idle)
  BY IdleIsSound DEF CommitBonus, Ends
<1>6. balance[c] \in Int /\ balance[c] >= 0 /\ lifetime[c] \in Nat /\ spent \in Nat
  BY <1>2, AccountTypes
<1>7. balance[c] + n \in Int /\ balance[c] + n >= 0 /\ lifetime[c] + n \in Nat
      /\ spent + n \in Nat
  BY <1>2, <1>6
<1>8. Books(EventOf(r), r, balance[c] + n)
  BY <1>4 DEF CommitBonus
<1>9. lifetime' \in [Customers -> Nat]
  <2>1. lifetime' = [lifetime EXCEPT ![c] = lifetime[c] + n]
    BY DEF CommitBonus
  <2>2. QED
    BY <1>7, <2>1, AccountTypes
<1>10. UNCHANGED <<cutoff, catalogue, awarded, ops>> /\ spent' = spent + n
       /\ ended' \in BOOLEAN
  BY DEF CommitBonus
<1>11. /\ stock' \in Int
       /\ voucher' \in [Vouchers -> {"none", "ISSUED", "FULFILLED", "CANCELLED"}]
       /\ holder' \in [Vouchers -> Customers \cup {"none"}]
       /\ ends' \in [Vouchers -> Nat] /\ HoldersKnown'
       /\ \A v \in Vouchers : voucher[v] # "none" => voucher'[v] # "none"
  BY <1>10 DEF IInv, TypeOK, HoldersKnown, catalogue
<1>12. EventOf(r) \in RowTypes \cup {"REDEEM_REVERSAL"}
  BY <1>3, EventTyped
<1>13. QED
  BY <1>3, <1>5, <1>7, <1>8, <1>9, <1>10, <1>11, <1>12, BooksKeep

LEMMA MutateInv ==
  ASSUME IInv, NEW h \in Handlers, NEW c \in Customers, Mutate(h, c)
  PROVE  IInv'
<1>1. ASSUME NEW o \in {"REDEEM", "ADJUST"}, NEW n \in Int, NEW w \in Wordings,
             ReadMutate(h, c, o, n, w)
      PROVE  IInv'
  <2>1. balance[c] \in Int /\ balance[c] + n >= 0
    BY <1>1, AccountTypes DEF ReadMutate
  <2>2. TaskSound(Task(o, c, "none", n, balance[c], w))
    BY <2>1, WritingTask
  <2>3. Begins(h, Task(o, c, "none", n, balance[c], w))
    BY <1>1 DEF ReadMutate
  <2>4. UNCHANGED <<accounts, cutoff, catalogue, promotion>> /\ awarded' \subseteq Payments
    BY <1>1 DEF ReadMutate, IInv, TypeOK
  <2>5. QED
    BY <2>2, <2>3, <2>4, BeginsCounts, ReadsKeep
<1>2. PICK n \in Amounts, w \in Wordings : \/ ReadMutate(h, c, "REDEEM", -n, w)
                                           \/ ReadMutate(h, c, "ADJUST", -n, w)
                                           \/ ReadMutate(h, c, "ADJUST", n, w)
  BY DEF Mutate
<1>3. n \in Int /\ -n \in Int
  BY ConstantTypes
<1>4. QED
  BY <1>1, <1>2, <1>3

LEMMA ReadExpiryInv ==
  ASSUME IInv, NEW h \in Handlers, NEW c \in Customers, ReadExpiry(h, c)
  PROVE  IInv'
<1>1. balance[c] \in Int
  BY AccountTypes
<1>2. TaskSound(Task("expiry", c, "none", 0, balance[c], 0))
  BY <1>1, PlainTask
<1>3. Begins(h, Task("expiry", c, "none", 0, balance[c], 0))
  BY DEF ReadExpiry
<1>4. UNCHANGED <<accounts, cutoff, catalogue, promotion>> /\ awarded' \subseteq Payments
  BY DEF ReadExpiry, IInv, TypeOK
<1>5. QED
  BY <1>2, <1>3, <1>4, BeginsCounts, ReadsKeep

LEMMA FindExpirableInv ==
  ASSUME IInv, NEW h \in Handlers, FindExpirable(h)
  PROVE  IInv'
<1> DEFINE c == task[h].customer
           b == task[h].seen
<1>1. task[h].op = "expiry" /\ TaskSound(task[h]) /\ task[h] \in TaskType
  BY AccountTypes DEF FindExpirable, Doing
<1>2. c \in Customers /\ b \in Int
  BY <1>1 DEF TaskSound, TaskType
<1>3. UNCHANGED <<accounts, cutoff, catalogue, promotion>> /\ awarded' \subseteq Payments
      /\ ops' \in 0 .. MaxOps
  BY DEF FindExpirable, IInv, TypeOK
<1>4. CASE Ends(h)
  BY <1>3, <1>4, IdleIsSound, ReadsKeep DEF Ends
<1>5. ASSUME NEW n \in 1 .. b, Goes(h, Task("EXPIRE", c, "none", -n, b, 0))
      PROVE  IInv'
  <2>1. -n \in Int /\ b + (-n) >= 0
    BY <1>2
  <2>2. TaskSound(Task("EXPIRE", c, "none", -n, b, 0))
    BY <1>2, <2>1, WritingTask
  <2>3. QED
    BY <1>3, <1>5, <2>2, ReadsKeep
<1>6. Ends(h) \/ \E n \in 1 .. b : Goes(h, Task("EXPIRE", c, "none", -n, b, 0))
  BY DEF FindExpirable
<1>7. QED
  BY <1>4, <1>5, <1>6

LEMMA CommitInv ==
  ASSUME IInv, NEW h \in Handlers, Commit(h)
  PROVE  IInv'
<1> DEFINE c == task[h].customer
           o == task[h].op
           n == task[h].points
           b == task[h].seen + task[h].points
           u == task[h].also = 1
           r == Row(c, o, n, u)
<1>1. o \in {"REDEEM", "ADJUST", "EXPIRE"} /\ TaskSound(task[h]) /\ task[h] \in TaskType
  BY AccountTypes DEF Commit
<1>2. c \in Customers /\ n \in Int /\ task[h].seen \in Int /\ b >= 0
  BY <1>1 DEF TaskSound, TaskType
<1>3. o \in RowTypes /\ b \in Int
  BY <1>1, <1>2 DEF RowTypes
<1>4. r \in RowSet
  BY <1>2, <1>3, RowFields
<1>10. ASSUME Honest
       PROVE  o = EventOf(r)
  <2>1. u = FALSE
    BY <1>1, <1>10 DEF Honest, TaskSound
  <2>2. r = Row(c, o, n, FALSE)
    BY <2>1
  <2>3. EventOf(Row(c, o, n, FALSE)) = o
    <3> HIDE DEF c, o, n
    <3>1. QED
      BY <1>2, <1>3, RowEvent
  <2>4. QED
    BY <2>2, <2>3
<1>11. o \in RowTypes \cup {"REDEEM_REVERSAL"}
  BY <1>3
<1>5. TaskSound(Idle) /\ Goes(h, Idle)
  BY IdleIsSound DEF Commit, Ends
<1>6. Books(o, r, b)
  BY DEF Commit
<1>7. UNCHANGED <<lifetime, cutoff, catalogue, promotion, awarded, ops>>
  BY DEF Commit
<1>8. /\ lifetime' \in [Customers -> Nat] /\ stock' \in Int
      /\ voucher' \in [Vouchers -> {"none", "ISSUED", "FULFILLED", "CANCELLED"}]
      /\ holder' \in [Vouchers -> Customers \cup {"none"}]
      /\ ends' \in [Vouchers -> Nat] /\ HoldersKnown' /\ spent' \in Nat /\ ended' \in BOOLEAN
      /\ \A v \in Vouchers : voucher[v] # "none" => voucher'[v] # "none"
  BY <1>7 DEF IInv, TypeOK, HoldersKnown, catalogue, promotion
<1>9. QED
  BY <1>2, <1>3, <1>4, <1>5, <1>6, <1>7, <1>8, <1>10, <1>11, BooksKeep

LEMMA ReadRewardInv ==
  ASSUME IInv, NEW h \in Handlers, NEW c \in Customers, ReadReward(h, c)
  PROVE  IInv'
<1>1. stock \in Int /\ 0 \in Int
  BY AccountTypes
<1>2. TaskSound(Task("reward", c, "none", 0, 0, stock))
  BY <1>1, PlainTask
<1>3. Begins(h, Task("reward", c, "none", 0, 0, stock))
  BY DEF ReadReward
<1>4. UNCHANGED <<accounts, cutoff, catalogue, promotion>> /\ awarded' \subseteq Payments
  BY DEF ReadReward, IInv, TypeOK
<1>5. QED
  BY <1>2, <1>3, <1>4, BeginsCounts, ReadsKeep

LEMMA ReadHolderInv ==
  ASSUME IInv, NEW h \in Handlers, ReadHolder(h)
  PROVE  IInv'
<1> DEFINE c == task[h].customer
           a == task[h].also
           t == Task("voucher", c, "none", -Cost, balance[c], a)
<1>1. task[h].op = "reward" /\ TaskSound(task[h]) /\ task[h] \in TaskType
  BY AccountTypes DEF ReadHolder, Doing
<1>2. c \in Customers /\ a \in Int /\ balance[c] \in Int /\ Cost \in Nat
  BY <1>1, AccountTypes, ConstantTypes DEF TaskSound, TaskType
<1>3. UNCHANGED <<accounts, cutoff, catalogue, promotion>> /\ awarded' \subseteq Payments
      /\ ops' \in 0 .. MaxOps
  BY DEF ReadHolder, IInv, TypeOK
<1>4. CASE balance[c] < Cost
  BY <1>3, <1>4, IdleIsSound, ReadsKeep DEF ReadHolder, Ends
<1>5. CASE ~(balance[c] < Cost)
  <2>1. Goes(h, t)
    BY <1>5 DEF ReadHolder
  <2>2. -Cost \in Int /\ balance[c] + (-Cost) >= 0
    BY <1>2, <1>5
  <2>3. TaskSound(t)
    BY <1>2, <2>2, VoucherTask
  <2>4. QED
    BY <1>3, <2>1, <2>3, ReadsKeep
<1>6. QED
  BY <1>4, <1>5

LEMMA IssueInv ==
  ASSUME IInv, NEW h \in Handlers, NEW v \in Vouchers, Issue(h, v)
  PROVE  IInv'
<1> DEFINE c == task[h].customer
           b == task[h].seen - Cost
           r == Row(c, "REDEEM", -Cost, FALSE)
<1>1. task[h].op = "voucher" /\ TaskSound(task[h]) /\ task[h] \in TaskType
  BY AccountTypes DEF Issue, Doing
<1>2. /\ c \in Customers /\ task[h].seen \in Int /\ task[h].also \in Int /\ Cost \in Nat
      /\ task[h].points = -Cost /\ task[h].seen + task[h].points >= 0
  BY <1>1, ConstantTypes DEF TaskSound, TaskType
<1>3. b \in Int /\ b >= 0 /\ -Cost \in Int
  BY <1>2
<1>4. "REDEEM" \in RowTypes
  BY DEF RowTypes
<1>5. r \in RowSet /\ EventOf(r) = "REDEEM"
  BY <1>2, <1>3, <1>4, RowEvent
<1>6. TaskSound(Idle) /\ Goes(h, Idle)
  BY IdleIsSound DEF Issue, Ends
<1>7. Books(EventOf(r), r, b)
  BY <1>5 DEF Issue
<1>8. stock' \in Int
  BY <1>2 DEF Issue
<1>9. UNCHANGED <<lifetime, cutoff, ends, promotion, awarded, ops>>
      /\ voucher' = [voucher EXCEPT ![v] = "ISSUED"] /\ holder' = [holder EXCEPT ![v] = c]
  BY DEF Issue
<1>10. /\ lifetime' \in [Customers -> Nat] /\ ends' \in [Vouchers -> Nat]
       /\ spent' \in Nat /\ ended' \in BOOLEAN
  BY <1>9 DEF IInv, TypeOK, promotion
<1>11. /\ voucher \in [Vouchers -> {"none", "ISSUED", "FULFILLED", "CANCELLED"}]
       /\ holder \in [Vouchers -> Customers \cup {"none"}] /\ HoldersKnown
  BY DEF IInv, TypeOK
<1>12. /\ voucher' \in [Vouchers -> {"none", "ISSUED", "FULFILLED", "CANCELLED"}]
       /\ holder' \in [Vouchers -> Customers \cup {"none"}]
  BY <1>2, <1>9, <1>11
<1>13. HoldersKnown' /\ \A u \in Vouchers : voucher[u] # "none" => voucher'[u] # "none"
  BY <1>2, <1>9, <1>11 DEF HoldersKnown
<1>14. EventOf(r) \in RowTypes \cup {"REDEEM_REVERSAL"}
  BY <1>5, EventTyped
<1>15. QED
  BY <1>3, <1>5, <1>6, <1>7, <1>8, <1>9, <1>10, <1>12, <1>13, <1>14, BooksKeep

LEMMA ReadVoucherInv ==
  ASSUME IInv, NEW h \in Handlers, NEW v \in Vouchers, NEW o \in {"fulfill", "cancel"},
         ReadVoucher(h, v, o)
  PROVE  IInv'
<1>1. voucher[v] = "ISSUED" /\ Begins(h, Task(o, holder[v], v, 0, 0, 0))
  BY DEF ReadVoucher
<1>2. holder[v] \in Customers
  BY <1>1 DEF IInv, HoldersKnown
<1>3. TaskSound(Task(o, holder[v], v, 0, 0, 0))
  BY <1>1, <1>2, EndingTask
<1>4. UNCHANGED <<accounts, cutoff, catalogue, promotion>> /\ awarded' \subseteq Payments
  BY DEF ReadVoucher, IInv, TypeOK
<1>5. QED
  BY <1>1, <1>3, <1>4, BeginsCounts, ReadsKeep

(* What a voucher's end does to the vouchers.                              *)
LEMMA ClosesTypes ==
  ASSUME IInv, NEW v \in Vouchers, voucher[v] # "none", NEW s \in {"FULFILLED", "CANCELLED"},
         Closes(v, s), holder' = holder
  PROVE  /\ voucher' \in [Vouchers -> {"none", "ISSUED", "FULFILLED", "CANCELLED"}]
         /\ holder' \in [Vouchers -> Customers \cup {"none"}]
         /\ ends' \in [Vouchers -> Nat]
         /\ HoldersKnown'
         /\ \A u \in Vouchers : voucher[u] # "none" => voucher'[u] # "none"
<1>1. /\ voucher \in [Vouchers -> {"none", "ISSUED", "FULFILLED", "CANCELLED"}]
      /\ holder \in [Vouchers -> Customers \cup {"none"}]
      /\ ends \in [Vouchers -> Nat] /\ HoldersKnown
  BY DEF IInv, TypeOK
<1>2. voucher' = [voucher EXCEPT ![v] = s]
  BY DEF Closes
<1>3. ends' = ends \/ ends' = [ends EXCEPT ![v] = ends[v] + 1]
  BY DEF Closes
<1>4. ends[v] + 1 \in Nat
  BY <1>1
<1>5. ends' \in [Vouchers -> Nat]
  BY <1>1, <1>3, <1>4
<1>6. voucher' \in [Vouchers -> {"none", "ISSUED", "FULFILLED", "CANCELLED"}]
  BY <1>1, <1>2
<1>7. \A u \in Vouchers : voucher'[u] # "none" <=> voucher[u] # "none"
  BY <1>1, <1>2
<1>8. HoldersKnown'
  BY <1>1, <1>7 DEF HoldersKnown
<1>9. QED
  BY <1>1, <1>5, <1>6, <1>7, <1>8

LEMMA FulfillInv ==
  ASSUME IInv, NEW h \in Handlers, Fulfill(h)
  PROVE  IInv'
<1> DEFINE v == task[h].voucher
<1>1. task[h].op = "fulfill" /\ TaskSound(task[h])
  BY AccountTypes DEF Fulfill, Doing
<1>2. v \in Vouchers /\ voucher[v] # "none"
  BY <1>1 DEF TaskSound
<1>3. Closes(v, "FULFILLED") /\ Goes(h, Idle)
      /\ UNCHANGED <<accounts, cutoff, stock, holder, promotion, awarded, ops>>
  BY DEF Fulfill, Ends
<1>4. /\ voucher' \in [Vouchers -> {"none", "ISSUED", "FULFILLED", "CANCELLED"}]
      /\ holder' \in [Vouchers -> Customers \cup {"none"}]
      /\ ends' \in [Vouchers -> Nat]
      /\ HoldersKnown'
      /\ \A u \in Vouchers : voucher[u] # "none" => voucher'[u] # "none"
  BY <1>2, <1>3, ClosesTypes
<1>5. task' \in [Handlers -> TaskType] /\ \A g \in Handlers : TaskSound(task'[g])
  BY <1>3, IdleIsSound, TasksStay, TasksTyped
<1>6. TypeOK'
  BY <1>3, <1>4, <1>5 DEF IInv, TypeOK, accounts, promotion, TaskType, Ops
<1>7. \A g \in Handlers : TaskSound(task[g])'
  BY <1>4, <1>5 DEF TaskSound
<1>8. (Honest => OneJournalPerRow') /\ BalanceNeverNegative'
  BY <1>3 DEF IInv, OneJournalPerRow, BalanceNeverNegative, accounts
<1>9. QED
  BY <1>4, <1>6, <1>7, <1>8 DEF IInv

LEMMA CancelVoucherInv ==
  ASSUME IInv, NEW h \in Handlers, CancelVoucher(h)
  PROVE  IInv'
<1> DEFINE c == task[h].customer
           v == task[h].voucher
           r == Row(c, "ADJUST", Cost, TRUE)
<1>1. task[h].op = "cancel" /\ TaskSound(task[h])
  BY AccountTypes DEF CancelVoucher, Doing
<1>2. v \in Vouchers /\ voucher[v] # "none" /\ c \in Customers
  BY <1>1 DEF TaskSound
<1>3. Closes(v, "CANCELLED") /\ Goes(h, Idle) /\ stock' = stock + 1
      /\ UNCHANGED <<lifetime, cutoff, holder, promotion, awarded, ops>>
  BY DEF CancelVoucher, Ends
<1>4. /\ voucher' \in [Vouchers -> {"none", "ISSUED", "FULFILLED", "CANCELLED"}]
      /\ holder' \in [Vouchers -> Customers \cup {"none"}]
      /\ ends' \in [Vouchers -> Nat]
      /\ HoldersKnown'
      /\ \A u \in Vouchers : voucher[u] # "none" => voucher'[u] # "none"
  BY <1>2, <1>3, ClosesTypes
<1>5. Cost \in Int /\ Cost > 0
  BY ConstantTypes
<1>6. r \in RowSet /\ EventOf(r) = "REDEEM_REVERSAL"
  BY <1>2, <1>5, ReversalRow
<1>7. balance[c] \in Int /\ balance[c] >= 0 /\ stock \in Int
  BY <1>2, AccountTypes
<1>8. balance[c] + Cost \in Int /\ balance[c] + Cost >= 0 /\ stock' \in Int
  BY <1>3, <1>5, <1>7
<1>9. /\ lifetime' \in [Customers -> Nat] /\ spent' \in Nat /\ ended' \in BOOLEAN
  BY <1>3 DEF IInv, TypeOK, promotion
<1>10. TaskSound(Idle)
  BY IdleIsSound
<1>11. Books(EventOf(r), r, balance[c] + Cost)
  BY <1>6 DEF CancelVoucher
<1>12. UNCHANGED <<cutoff, awarded, ops>>
  BY <1>3
<1>13. QED
  BY <1>3, <1>4, <1>6, <1>8, <1>9, <1>10, <1>11, <1>12, BooksKeep

LEMMA AbortInv ==
  ASSUME IInv, NEW h \in Handlers, Abort(h)
  PROVE  IInv'
<1>1. Goes(h, Idle) /\ UNCHANGED <<accounts, cutoff, catalogue, promotion>>
      /\ awarded' \subseteq Payments /\ ops' \in 0 .. MaxOps
  BY DEF Abort, Ends, IInv, TypeOK
<1>2. QED
  BY <1>1, IdleIsSound, ReadsKeep

LEMMA BackfillInv ==
  ASSUME IInv, NEW i \in DOMAIN rows, Backfill(i)
  PROVE  IInv'
<1>1. rows \in Seq(RowSet) /\ journals \subseteq JournalType
  BY DEF IInv, TypeOK, JournalType
<1>2. UNCHANGED <<balance, lifetime, rows, cutoff, catalogue, promotion, awarded, task, ops>>
      /\ journals' = Post(EventOf(rows[i]), i, rows[i])
  BY DEF Backfill
<1>3. rows[i] \in RowSet /\ i \in Nat
  BY <1>1
<1>4. journals' \subseteq JournalType
  BY <1>1, <1>2, <1>3, EventTyped, PostTyped
<1>5. ASSUME Honest
      PROVE  OneJournalPerRow'
  <2>1. OneJournalPerRow
    BY <1>5 DEF IInv
  <2>2. JournalsFit(journals', rows')
    BY <1>1, <1>2, <2>1, PostFits
  <2>3. QED
    BY <2>2 DEF JournalsFit, OneJournalPerRow
<1>6. TypeOK'
  BY <1>2, <1>4 DEF IInv, TypeOK, JournalType, catalogue, promotion
<1>7. HoldersKnown' /\ BalanceNeverNegative'
  BY <1>2 DEF IInv, HoldersKnown, BalanceNeverNegative, catalogue
<1>8. \A h \in Handlers : TaskSound(task[h])'
  BY <1>2 DEF IInv, TaskSound, catalogue
<1>9. QED
  BY <1>5, <1>6, <1>7, <1>8 DEF IInv

LEMMA AgeInv == IInv /\ Age => IInv'
<1> SUFFICES ASSUME IInv, Age PROVE IInv'
  OBVIOUS
<1>1. UNCHANGED <<accounts, catalogue, promotion, awarded, task, ops>> /\ cutoff' = Len(rows)
  BY DEF Age
<1>2. cutoff' \in Nat
  BY <1>1 DEF IInv, TypeOK
<1>3. TypeOK'
  BY <1>1, <1>2 DEF IInv, TypeOK, accounts, catalogue, promotion
<1>4. HoldersKnown' /\ (Honest => OneJournalPerRow') /\ BalanceNeverNegative'
  BY <1>1 DEF IInv, HoldersKnown, OneJournalPerRow, BalanceNeverNegative, accounts, catalogue
<1>5. \A h \in Handlers : TaskSound(task[h])'
  BY <1>1 DEF IInv, TaskSound, catalogue
<1>6. QED
  BY <1>3, <1>4, <1>5 DEF IInv

LEMMA StutterInv == IInv /\ UNCHANGED vars => IInv'
<1> SUFFICES ASSUME IInv, UNCHANGED vars PROVE IInv'
  OBVIOUS
<1>1. TypeOK'
  BY DEF IInv, TypeOK, vars
<1>2. HoldersKnown' /\ (Honest => OneJournalPerRow') /\ BalanceNeverNegative'
  BY DEF IInv, HoldersKnown, OneJournalPerRow, BalanceNeverNegative, vars
<1>3. \A h \in Handlers : TaskSound(task[h])'
  BY DEF IInv, TaskSound, vars
<1>4. QED
  BY <1>1, <1>2, <1>3 DEF IInv

LEMMA NextInv == IInv /\ [Next]_vars => IInv'
<1> SUFFICES ASSUME IInv, [Next]_vars PROVE IInv'
  OBVIOUS
<1>1. CASE UNCHANGED vars
  BY <1>1, StutterInv
<1>2. CASE Age
  BY <1>2, AgeInv
<1>3. CASE \E i \in DOMAIN rows : Backfill(i)
  BY <1>3, BackfillInv
<1>4. ASSUME NEW h \in Handlers, CommitAward(h) \/ ReadPromotion(h) \/ CommitBonus(h)
      PROVE  IInv'
  BY <1>4, CommitAwardInv, ReadPromotionInv, CommitBonusInv
<1>5. ASSUME NEW h \in Handlers, FindExpirable(h) \/ Commit(h) \/ ReadHolder(h) \/ Fulfill(h)
                                 \/ CancelVoucher(h) \/ Abort(h)
      PROVE  IInv'
  BY <1>5, FindExpirableInv, CommitInv, ReadHolderInv, FulfillInv, CancelVoucherInv, AbortInv
<1>6. ASSUME NEW h \in Handlers, NEW c \in Customers,
             Mutate(h, c) \/ ReadExpiry(h, c) \/ ReadReward(h, c)
      PROVE  IInv'
  BY <1>6, MutateInv, ReadExpiryInv, ReadRewardInv
<1>7. ASSUME NEW h \in Handlers, NEW v \in Vouchers,
             Issue(h, v) \/ ReadVoucher(h, v, "fulfill") \/ ReadVoucher(h, v, "cancel")
      PROVE  IInv'
  <2>1. "fulfill" \in {"fulfill", "cancel"} /\ "cancel" \in {"fulfill", "cancel"}
    OBVIOUS
  <2>2. CASE Issue(h, v)
    BY <2>2, IssueInv
  <2>3. CASE ReadVoucher(h, v, "fulfill")
    BY <2>1, <2>3, ReadVoucherInv
  <2>4. CASE ReadVoucher(h, v, "cancel")
    BY <2>1, <2>4, ReadVoucherInv
  <2>5. QED
    BY <1>7, <2>2, <2>3, <2>4
<1>8. ASSUME NEW h \in Handlers, NEW p \in Payments, NEW n \in Earns, ReadAward(h, p, n)
      PROVE  IInv'
  BY <1>8, ReadAwardInv
<1>9. QED
  BY <1>1, <1>2, <1>3, <1>4, <1>5, <1>6, <1>7, <1>8 DEF Next

LEMMA Invariance == Spec => []IInv
<1>1. Init => IInv
  BY InitInv
<1>2. IInv /\ [Next]_vars => IInv'
  BY NextInv
<1>3. QED
  BY <1>1, <1>2, PTL DEF Spec

(* Every column keeps its type, and a handler that books a row always      *)
(* knows the customer whose row it is.                                     *)
THEOREM TypeCorrect == Spec => []TypeOK
<1>1. IInv => TypeOK
  BY DEF IInv
<1>2. QED
  BY <1>1, Invariance, PTL

(* If no adjustment is worded like a cancelled redemption, the rebuild of  *)
(* journals (backfillPoints) and the live postings never book one movement *)
(* twice, and no movement since is without its journal.                    *)
THEOREM JournalsFollowRows ==
  ASSUME Wordings \subseteq {0}
  PROVE  Spec => []OneJournalPerRow
<1>1. IInv => OneJournalPerRow
  BY DEF IInv, Honest
<1>2. QED
  BY <1>1, Invariance, PTL

(* Writing down a balance computed from an earlier read may lose what      *)
(* others added, but it never puts a customer into debt.                   *)
THEOREM NoDebt == Spec => []BalanceNeverNegative
<1>1. IInv => BalanceNeverNegative
  BY DEF IInv
<1>2. QED
  BY <1>1, Invariance, PTL

-----------------------------------------------------------------------------
(* Induction over the subsets of a finite set, with the set of those that  *)
(* have the property in the place of the property.                         *)
LEMMA SubsetInduction ==
  ASSUME NEW S, IsFiniteSet(S), NEW G \in SUBSET SUBSET S,
         \A s \in SUBSET S : (\A r \in SUBSET s : r # s => r \in G) => s \in G
  PROVE  SUBSET S = G
<1> SUFFICES ASSUME SUBSET S # G PROVE FALSE
  OBVIOUS
<1> DEFINE R == StrictSubsetOrdering(S)
           T == (SUBSET S) \ G
<1>1. IsWellFoundedOn(R, SUBSET S)
  <2>1. IsWellFoundedOn(R, FiniteSubsetsOf(S))
    BY FS_StrictSubsetOrderingWellFounded
  <2>2. FiniteSubsetsOf(S) = SUBSET S
    BY FS_FiniteSubsetsOfFinite
  <2> HIDE DEF R
  <2>3. QED
    BY <2>1, <2>2
<1>2. \A r, s \in SUBSET S : r \subseteq s /\ r # s => <<r, s>> \in R
  BY DEF StrictSubsetOrdering
<1>3. T \subseteq SUBSET S /\ T # {}
  OBVIOUS
<1> HIDE DEF R
<1>4. PICK s \in T : \A r \in T : ~ (<<r, s>> \in R)
  <2> HIDE DEF T
  <2> QED BY <1>1, <1>3, WFMin
<1>5. ASSUME NEW r \in SUBSET s, r # s PROVE r \in G
  <2>1. r \in SUBSET S /\ s \in SUBSET S
    BY <1>4
  <2>2. <<r, s>> \in R
    BY <1>2, <1>5, <2>1
  <2>3. QED
    BY <1>4, <2>1, <2>2
<1>6. QED
  BY <1>4, <1>5

LEMMA UpToInduction ==
  ASSUME NEW n \in Nat, NEW G, 0 \in G,
         \A k \in 0 .. n - 1 : k \in G => k + 1 \in G
  PROVE  0 .. n \subseteq G
<1> SUFFICES ASSUME (0 .. n) \ G # {} PROVE FALSE
  OBVIOUS
<1> DEFINE R == OpToRel(<, Nat)
           T == (0 .. n) \ G
<1>1. \A i, j \in Nat : j < i => <<j, i>> \in R
  BY DEF OpToRel
<1>2. IsWellFoundedOn(R, Nat)
  BY NatLessThanWellFounded
<1>3. T \subseteq Nat /\ T # {}
  OBVIOUS
<1> HIDE DEF R
<1>4. PICK i \in T : \A j \in T : ~ (<<j, i>> \in R)
  <2> HIDE DEF T
  <2> QED BY <1>2, <1>3, WFMin
<1>5. i - 1 \in 0 .. n - 1 /\ i - 1 < i
  <2>1. i \in 0 .. n /\ i # 0
    BY <1>4
  <2>2. QED
    BY <2>1
<1>6. i - 1 \in G
  <2>1. i \in Nat /\ i - 1 \in Nat /\ i - 1 \in 0 .. n
    BY <1>4, <1>5
  <2>2. <<i - 1, i>> \in R
    BY <1>1, <1>5, <2>1
  <2>3. QED
    BY <1>4, <2>1, <2>2
<1>7. i - 1 + 1 = i
  BY <1>5
<1>8. QED
  BY <1>4, <1>5, <1>6, <1>7

-----------------------------------------------------------------------------
(* Sums: a fold takes the elements in the order CHOOSE gives them, and the *)
(* sum does not depend on it.                                              *)

First(s) == CHOOSE x \in s : TRUE

SumsTo(g, S, t) ==
  g = [s \in SUBSET S |-> IF s = {} THEN 0 ELSE t[First(s)] + g[s \ {First(s)}]]

LEMMA FirstIn == ASSUME NEW s, s # {} PROVE First(s) \in s
  BY DEF First

LEMMA TotalIsSum ==
  ASSUME NEW S, NEW t PROVE Total(S, t) = (CHOOSE g : SumsTo(g, S, t))[S]
  BY DEF Total, MapThenSumSet, MapThenFoldSet, SumsTo, First

LEMMA SumsExist ==
  ASSUME NEW S, IsFiniteSet(S), NEW t
  PROVE  \E g : SumsTo(g, S, t)
<1> DEFINE Step(g, s) == IF s = {} THEN 0 ELSE t[First(s)] + g[s \ {First(s)}]
           Upto(g, n) == \A s \in SUBSET S : Cardinality(s) <= n => g[s] = Step(g, s)
           G == {n \in Nat : \E g : g = [s \in SUBSET S |-> g[s]] /\ Upto(g, n)}
<1>1. \A s \in SUBSET S : /\ IsFiniteSet(s) /\ Cardinality(s) \in Nat
                          /\ Cardinality(s) <= Cardinality(S)
                          /\ s # {} => /\ Cardinality(s \ {First(s)}) = Cardinality(s) - 1
                                       /\ Cardinality(s) # 0
                                       /\ s \ {First(s)} \in SUBSET S
  BY FS_Subset, FS_CardinalityType, FS_RemoveElement, FS_EmptySet, FirstIn
<1>2. Cardinality(S) \in Nat
  BY FS_CardinalityType
<1>3. 0 \in G
  <2> DEFINE g == [s \in SUBSET S |-> 0]
  <2>1. ASSUME NEW s \in SUBSET S, Cardinality(s) <= 0 PROVE s = {}
    <3>1. Cardinality(s) = 0
      <4>1. Cardinality(s) \in Nat
        BY FS_Subset, FS_CardinalityType
      <4>2. QED
        BY <2>1, <4>1
    <3>2. QED
      BY <1>1, <3>1
  <2>2. Upto(g, 0)
    BY <2>1
  <2>3. g = [s \in SUBSET S |-> g[s]]
    OBVIOUS
  <2> HIDE DEF g
  <2>4. QED
    BY <2>2, <2>3
<1>4. ASSUME NEW n \in 0 .. Cardinality(S) - 1, n \in G PROVE n + 1 \in G
  <2>1. PICK g : g = [s \in SUBSET S |-> g[s]] /\ Upto(g, n)
    BY <1>4
  <2> DEFINE h == [s \in SUBSET S |-> Step(g, s)]
  <2>2. \A s \in SUBSET S : Cardinality(s) <= n => h[s] = g[s]
    BY <2>1
  <2>3. ASSUME NEW s \in SUBSET S, Cardinality(s) <= n + 1 PROVE h[s] = Step(h, s)
    <3>1. CASE s = {}
      BY <3>1
    <3>2. CASE s # {}
      <4>1. s \ {First(s)} \in SUBSET S /\ Cardinality(s \ {First(s)}) <= n
        BY <1>1, <1>2, <2>3, <3>2
      <4>2. h[s \ {First(s)}] = g[s \ {First(s)}]
        BY <2>2, <4>1
      <4>3. QED
        BY <3>2, <4>2
    <3>3. QED
      BY <3>1, <3>2
  <2>4. h = [s \in SUBSET S |-> h[s]]
    OBVIOUS
  <2> HIDE DEF h
  <2>5. n + 1 \in Nat
    BY <1>2
  <2>6. QED
    BY <2>3, <2>4, <2>5
<1>5. Cardinality(S) \in G
  <2> HIDE DEF G
  <2>1. 0 .. Cardinality(S) \subseteq G
    BY <1>2, <1>3, <1>4, UpToInduction
  <2>2. QED
    BY <1>2, <2>1
<1>6. PICK g : g = [s \in SUBSET S |-> g[s]] /\ Upto(g, Cardinality(S))
  BY <1>5
<1>7. \A s \in SUBSET S : g[s] = Step(g, s)
  BY <1>1, <1>6
<1>8. g = [s \in SUBSET S |-> Step(g, s)]
  BY <1>6, <1>7
<1>9. QED
  BY <1>8 DEF SumsTo

(* Two such functions agree wherever both are defined.                     *)
LEMMA SumsAgree ==
  ASSUME NEW S, IsFiniteSet(S), NEW T \in SUBSET S, NEW t, NEW g, NEW h,
         SumsTo(g, S, t), SumsTo(h, T, t)
  PROVE  g[T] = h[T]
<1> DEFINE G == {s \in SUBSET T : g[s] = h[s]}
<1>1. IsFiniteSet(T)
  BY FS_Subset
<1>2. ASSUME NEW s \in SUBSET T, \A r \in SUBSET s : r # s => r \in G PROVE s \in G
  <2>1. g[s] = IF s = {} THEN 0 ELSE t[First(s)] + g[s \ {First(s)}]
    BY DEF SumsTo
  <2>2. h[s] = IF s = {} THEN 0 ELSE t[First(s)] + h[s \ {First(s)}]
    BY DEF SumsTo
  <2>3. s # {} => g[s \ {First(s)}] = h[s \ {First(s)}]
    BY <1>2, FirstIn
  <2>4. QED
    BY <2>1, <2>2, <2>3
<1>3. G \in SUBSET SUBSET T
  OBVIOUS
<1>4. SUBSET T = G
  <2> HIDE DEF G
  <2> QED BY <1>1, <1>2, <1>3, SubsetInduction
<1>5. QED
  BY <1>4

LEMMA TotalEmpty == ASSUME NEW t PROVE Total({}, t) = 0
<1>1. IsFiniteSet({})
  BY FS_EmptySet
<1>2. PICK g : SumsTo(g, {}, t)
  BY <1>1, SumsExist
<1>3. SumsTo(CHOOSE h : SumsTo(h, {}, t), {}, t)
  BY <1>2
<1>4. QED
  BY <1>3, TotalIsSum DEF SumsTo

LEMMA TotalFirst ==
  ASSUME NEW S, IsFiniteSet(S), S # {}, NEW t
  PROVE  Total(S, t) = t[First(S)] + Total(S \ {First(S)}, t)
<1> DEFINE T == S \ {First(S)}
           g == CHOOSE h : SumsTo(h, S, t)
           f == CHOOSE h : SumsTo(h, T, t)
<1>1. IsFiniteSet(T) /\ T \in SUBSET S
  BY FS_Subset
<1>2. SumsTo(g, S, t) /\ SumsTo(f, T, t)
  BY <1>1, SumsExist
<1>3. Total(S, t) = g[S] /\ Total(T, t) = f[T]
  BY TotalIsSum
<1> HIDE DEF g, f
<1>4. g[T] = f[T]
  <2> HIDE DEF T
  <2> QED BY <1>1, <1>2, SumsAgree
<1>5. g[S] = t[First(S)] + g[T]
  BY <1>2 DEF SumsTo
<1>6. QED
  BY <1>3, <1>4, <1>5

LEMMA TotalInt ==
  ASSUME NEW S, IsFiniteSet(S), NEW t, \A i \in S : t[i] \in Int
  PROVE  Total(S, t) \in Int
<1> DEFINE G == {s \in SUBSET S : Total(s, t) \in Int}
<1>1. ASSUME NEW s \in SUBSET S, \A r \in SUBSET s : r # s => r \in G PROVE s \in G
  <2>1. CASE s = {}
    BY <2>1, TotalEmpty
  <2>2. CASE s # {}
    <3>1. Total(s, t) = t[First(s)] + Total(s \ {First(s)}, t)
      BY <2>2, FS_Subset, TotalFirst
    <3>2. Total(s \ {First(s)}, t) \in Int /\ t[First(s)] \in Int
      BY <1>1, <2>2, FirstIn
    <3>3. QED
      BY <3>1, <3>2
  <2>3. QED
    BY <2>1, <2>2
<1>2. G \in SUBSET SUBSET S
  OBVIOUS
<1>3. SUBSET S = G
  <2> HIDE DEF G
  <2> QED BY <1>1, <1>2, SubsetInduction
<1>4. QED
  BY <1>3

LEMMA TotalSame ==
  ASSUME NEW S, IsFiniteSet(S), NEW t, NEW u, \A i \in S : t[i] = u[i]
  PROVE  Total(S, t) = Total(S, u)
<1> DEFINE G == {s \in SUBSET S : Total(s, t) = Total(s, u)}
<1>1. ASSUME NEW s \in SUBSET S, \A r \in SUBSET s : r # s => r \in G PROVE s \in G
  <2>1. CASE s = {}
    BY <2>1, TotalEmpty
  <2>2. CASE s # {}
    <3>1. /\ Total(s, t) = t[First(s)] + Total(s \ {First(s)}, t)
          /\ Total(s, u) = u[First(s)] + Total(s \ {First(s)}, u)
      BY <2>2, FS_Subset, TotalFirst
    <3>2. /\ Total(s \ {First(s)}, t) = Total(s \ {First(s)}, u)
          /\ t[First(s)] = u[First(s)]
      BY <1>1, <2>2, FirstIn
    <3>3. QED
      BY <3>1, <3>2
  <2>3. QED
    BY <2>1, <2>2
<1>2. G \in SUBSET SUBSET S
  OBVIOUS
<1>3. SUBSET S = G
  <2> HIDE DEF G
  <2> QED BY <1>1, <1>2, SubsetInduction
<1>4. QED
  BY <1>3

(* Any element may be taken out first.                                     *)
LEMMA TotalRemove ==
  ASSUME NEW S, IsFiniteSet(S), NEW t, \A i \in S : t[i] \in Int, NEW x \in S
  PROVE  Total(S, t) = t[x] + Total(S \ {x}, t)
<1> DEFINE G == {s \in SUBSET S : \A y \in s : Total(s, t) = t[y] + Total(s \ {y}, t)}
<1>1. ASSUME NEW s \in SUBSET S, \A r \in SUBSET s : r # s => r \in G PROVE s \in G
  <2> SUFFICES ASSUME NEW y \in s PROVE Total(s, t) = t[y] + Total(s \ {y}, t)
    OBVIOUS
  <2> DEFINE f == First(s)
  <2>1. f \in s
    BY FirstIn
  <2>2. Total(s, t) = t[f] + Total(s \ {f}, t)
    BY FS_Subset, TotalFirst
  <2> HIDE DEF f
  <2>3. CASE y = f
    BY <2>2, <2>3
  <2>4. CASE y # f
    <3>1. Total(s \ {f}, t) = t[y] + Total((s \ {f}) \ {y}, t)
      <4>1. s \ {f} \in G /\ y \in s \ {f}
        BY <1>1, <2>1, <2>4
      <4>2. QED
        BY <4>1
    <3>2. Total(s \ {y}, t) = t[f] + Total((s \ {y}) \ {f}, t)
      <4>1. s \ {y} \in G /\ f \in s \ {y}
        BY <1>1, <2>1, <2>4
      <4>2. QED
        BY <4>1
    <3>3. (s \ {f}) \ {y} = (s \ {y}) \ {f}
      OBVIOUS
    <3>4. t[f] \in Int /\ t[y] \in Int /\ Total((s \ {y}) \ {f}, t) \in Int
      <4>1. IsFiniteSet((s \ {y}) \ {f}) /\ \A i \in (s \ {y}) \ {f} : t[i] \in Int
        BY FS_Subset
      <4>2. QED
        BY <2>1, <4>1, TotalInt
    <3> DEFINE rest == Total((s \ {y}) \ {f}, t)
    <3>5. Total(s \ {f}, t) = t[y] + rest /\ Total(s \ {y}, t) = t[f] + rest
      BY <3>1, <3>2, <3>3
    <3>6. rest \in Int
      BY <3>4
    <3> HIDE DEF rest
    <3>7. QED
      BY <2>2, <3>4, <3>5, <3>6
  <2>5. QED
    BY <2>3, <2>4
<1>2. G \in SUBSET SUBSET S
  OBVIOUS
<1>3. SUBSET S = G
  <2> HIDE DEF G
  <2> QED BY <1>1, <1>2, SubsetInduction
<1>4. S \in G
  BY <1>3
<1>5. QED
  BY <1>4

-----------------------------------------------------------------------------
(* Sums over the first movements.                                          *)

LEMMA TotalNext ==
  ASSUME NEW k \in Nat, k > 0, NEW t, \A i \in 1 .. k : t[i] \in Int
  PROVE  /\ Total(1 .. k, t) = Total(1 .. k - 1, t) + t[k]
         /\ Total(1 .. k, t) \in Int /\ Total(1 .. k - 1, t) \in Int
<1>1. (1 .. k) \ {k} = 1 .. k - 1 /\ k \in 1 .. k
  OBVIOUS
<1>2. IsFiniteSet(1 .. k) /\ IsFiniteSet(1 .. k - 1)
  BY FS_Interval
<1>3. Total(1 .. k, t) \in Int /\ Total(1 .. k - 1, t) \in Int
  BY <1>2, TotalInt
<1>4. Total(1 .. k, t) = t[k] + Total((1 .. k) \ {k}, t)
  BY <1>1, <1>2, TotalRemove
<1>5. Total((1 .. k) \ {k}, t) = Total(1 .. k - 1, t)
  BY <1>1
<1>6. t[k] \in Int
  BY <1>1
<1>7. QED
  BY <1>3, <1>4, <1>5, <1>6

LEMMA TotalNone == ASSUME NEW t PROVE Total(1 .. 0, t) = 0
<1>1. 1 .. 0 = {}
  OBVIOUS
<1>2. QED
  BY <1>1, TotalEmpty

(* What was taken away by the first k movements.                           *)
Lost(t, k) == -Total({i \in 1 .. k : t[i] < 0}, t)

LEMMA EarnedNone == ASSUME NEW t PROVE EarnedBefore(t, 0) = 0 /\ Lost(t, 0) = 0
<1>1. {i \in 1 .. 0 : t[i] > 0} = {} /\ {i \in 1 .. 0 : t[i] < 0} = {}
  OBVIOUS
<1>2. QED
  BY <1>1, TotalEmpty DEF EarnedBefore, Lost

LEMMA EarnedNext ==
  ASSUME NEW k \in Nat, k > 0, NEW t, \A i \in 1 .. k : t[i] \in Int
  PROVE  /\ EarnedBefore(t, k) = EarnedBefore(t, k - 1) + Above0(t[k])
         /\ EarnedBefore(t, k) \in Int /\ EarnedBefore(t, k - 1) \in Int
<1> DEFINE A == {i \in 1 .. k : t[i] > 0}
           B == {i \in 1 .. k - 1 : t[i] > 0}
<1>1. IsFiniteSet(1 .. k) /\ A \in SUBSET (1 .. k) /\ B \in SUBSET (1 .. k)
  BY FS_Interval
<1>2. IsFiniteSet(A) /\ IsFiniteSet(B) /\ t[k] \in Int
  BY <1>1, FS_Subset
<1>3. Total(A, t) \in Int /\ Total(B, t) \in Int
  BY <1>1, <1>2, TotalInt
<1>4. CASE t[k] > 0
  <2>1. k \in A /\ A \ {k} = B
    BY <1>4
  <2>2. Total(A, t) = t[k] + Total(A \ {k}, t)
    BY <1>1, <1>2, <2>1, TotalRemove
  <2>3. Total(A, t) = t[k] + Total(B, t)
    BY <2>1, <2>2
  <2> HIDE DEF A, B
  <2>4. QED
    BY <1>2, <1>3, <1>4, <2>3 DEF EarnedBefore, Above0, A, B
<1>5. CASE ~ (t[k] > 0)
  <2>1. A = B
    BY <1>5
  <2>2. Total(A, t) = Total(B, t)
    BY <2>1
  <2> HIDE DEF A, B
  <2>3. Above0(t[k]) = 0
    BY <1>2, <1>5 DEF Above0
  <2>4. QED
    BY <1>3, <2>2, <2>3 DEF EarnedBefore, A, B
<1>6. QED
  BY <1>4, <1>5

LEMMA LostNext ==
  ASSUME NEW k \in Nat, k > 0, NEW t, \A i \in 1 .. k : t[i] \in Int
  PROVE  /\ Lost(t, k) = Lost(t, k - 1) + Above0(-t[k])
         /\ Lost(t, k) \in Int /\ Lost(t, k - 1) \in Int
<1> DEFINE A == {i \in 1 .. k : t[i] < 0}
           B == {i \in 1 .. k - 1 : t[i] < 0}
<1>1. IsFiniteSet(1 .. k) /\ A \in SUBSET (1 .. k) /\ B \in SUBSET (1 .. k)
  BY FS_Interval
<1>2. IsFiniteSet(A) /\ IsFiniteSet(B) /\ t[k] \in Int
  BY <1>1, FS_Subset
<1>3. Total(A, t) \in Int /\ Total(B, t) \in Int
  BY <1>1, <1>2, TotalInt
<1>4. CASE t[k] < 0
  <2>1. k \in A /\ A \ {k} = B
    BY <1>4
  <2>2. Total(A, t) = t[k] + Total(A \ {k}, t)
    BY <1>1, <1>2, <2>1, TotalRemove
  <2>3. Total(A, t) = t[k] + Total(B, t)
    BY <2>1, <2>2
  <2> HIDE DEF A, B
  <2>4. QED
    BY <1>2, <1>3, <1>4, <2>3 DEF Lost, Above0, A, B
<1>5. CASE ~ (t[k] < 0)
  <2>1. A = B
    BY <1>5
  <2>2. Total(A, t) = Total(B, t)
    BY <2>1
  <2> HIDE DEF A, B
  <2>3. Above0(-t[k]) = 0
    BY <1>2, <1>5 DEF Above0
  <2>4. QED
    BY <1>3, <2>2, <2>3 DEF Lost, A, B
<1>6. QED
  BY <1>4, <1>5

(* The balance is what was earned less what was lost, after any movement.  *)
LEMMA PrefixBalance ==
  ASSUME NEW n \in Nat, NEW t, \A i \in 1 .. n : t[i] \in Int
  PROVE  \A k \in 0 .. n : /\ EarnedBefore(t, k) \in Int /\ Lost(t, k) \in Int
                           /\ Total(1 .. k, t) = EarnedBefore(t, k) - Lost(t, k)
<1> DEFINE Fits(k) == /\ EarnedBefore(t, k) \in Int /\ Lost(t, k) \in Int
                      /\ Total(1 .. k, t) = EarnedBefore(t, k) - Lost(t, k)
           G == {k \in 0 .. n : Fits(k)}
<1>1. 0 \in G
  BY TotalNone, EarnedNone
<1>2. ASSUME NEW k \in 0 .. n - 1, k \in G PROVE k + 1 \in G
  <2>1. /\ k + 1 \in Nat /\ k + 1 > 0 /\ k + 1 \in 0 .. n /\ (k + 1) - 1 = k
        /\ \A i \in 1 .. k + 1 : t[i] \in Int
        /\ t[k + 1] \in Int
    OBVIOUS
  <2>2. /\ EarnedBefore(t, k + 1) = EarnedBefore(t, k) + Above0(t[k + 1])
        /\ EarnedBefore(t, k + 1) \in Int
    BY <2>1, EarnedNext
  <2>3. /\ Lost(t, k + 1) = Lost(t, k) + Above0(-t[k + 1])
        /\ Lost(t, k + 1) \in Int
    BY <2>1, LostNext
  <2>4. Total(1 .. k + 1, t) = Total(1 .. k, t) + t[k + 1]
    BY <2>1, TotalNext
  <2>5. Fits(k)
    BY <1>2
  <2>6. Above0(t[k + 1]) - Above0(-t[k + 1]) = t[k + 1]
    BY <2>1 DEF Above0
  <2>7. Fits(k + 1)
    BY <2>1, <2>2, <2>3, <2>4, <2>5, <2>6 DEF Above0
  <2>8. QED
    BY <2>1, <2>7
<1>3. 0 .. n \subseteq G
  <2> HIDE DEF G
  <2> QED BY <1>1, <1>2, UpToInduction
<1>4. QED
  BY <1>3

LEMMA EarnedGrows ==
  ASSUME NEW n \in Nat, NEW t, \A i \in 1 .. n : t[i] \in Int, NEW j \in 0 .. n
  PROVE  \A k \in j .. n : EarnedBefore(t, j) <= EarnedBefore(t, k)
<1> DEFINE Fits(k) == k >= j => EarnedBefore(t, j) <= EarnedBefore(t, k)
           G == {k \in 0 .. n : Fits(k)}
<1>1. \A k \in 0 .. n : EarnedBefore(t, k) \in Int
  BY PrefixBalance
<1>2. 0 \in G
  BY <1>1
<1>3. ASSUME NEW k \in 0 .. n - 1, k \in G PROVE k + 1 \in G
  <2>1. /\ k + 1 \in Nat /\ k + 1 > 0 /\ k + 1 \in 0 .. n /\ (k + 1) - 1 = k
        /\ \A i \in 1 .. k + 1 : t[i] \in Int
        /\ t[k + 1] \in Int
    OBVIOUS
  <2>2. EarnedBefore(t, k + 1) = EarnedBefore(t, k) + Above0(t[k + 1])
    BY <2>1, EarnedNext
  <2>3. EarnedBefore(t, k) <= EarnedBefore(t, k + 1)
    BY <1>1, <2>1, <2>2 DEF Above0
  <2>4. Fits(k)
    BY <1>3
  <2>5. Fits(k + 1)
    <3>1. CASE j = k + 1
      BY <1>1, <2>1, <3>1
    <3>2. CASE j <= k
      BY <1>1, <2>1, <2>3, <2>4, <3>2
    <3>3. QED
      BY <3>1, <3>2
  <2>6. QED
    BY <2>1, <2>5
<1>4. 0 .. n \subseteq G
  <2> HIDE DEF G
  <2> QED BY <1>2, <1>3, UpToInduction
<1>5. QED
  BY <1>4

-----------------------------------------------------------------------------
(* The table of lots.                                                      *)

LotsStep(l, t, k) ==
  IF t[k] > 0
  THEN [l EXCEPT ![k] = t[k]]
  ELSE [i \in DOMAIN t |-> Above0(l[i] - Above0(-t[k] - Total(1 .. i - 1, l)))]

LotsOf(f, t) ==
  f = [k \in 0 .. Len(t) |-> IF k = 0 THEN [i \in DOMAIN t |-> 0] ELSE LotsStep(f[k - 1], t, k)]

LEMMA LotsAreSteps ==
  ASSUME NEW t PROVE Lots(t) = (CHOOSE f : LotsOf(f, t))[Len(t)]
  BY DEF Lots, LotsOf, LotsStep

LEMMA LotsExist ==
  ASSUME NEW t, Len(t) \in Nat PROVE \E f : LotsOf(f, t)
<1> DEFINE N == Len(t)
           Step(f, k) == IF k = 0 THEN [i \in DOMAIN t |-> 0] ELSE LotsStep(f[k - 1], t, k)
           Upto(f, n) == \A k \in 0 .. n : f[k] = Step(f, k)
           G == {n \in 0 .. N : \E f : f = [k \in 0 .. N |-> f[k]] /\ Upto(f, n)}
<1>1. 0 \in G
  <2> DEFINE f == [k \in 0 .. N |-> [i \in DOMAIN t |-> 0]]
  <2>1. Upto(f, 0)
    OBVIOUS
  <2>2. f = [k \in 0 .. N |-> f[k]]
    OBVIOUS
  <2> HIDE DEF f
  <2>3. QED
    BY <2>1, <2>2
<1>2. ASSUME NEW n \in 0 .. N - 1, n \in G PROVE n + 1 \in G
  <2>1. PICK f : f = [k \in 0 .. N |-> f[k]] /\ Upto(f, n)
    BY <1>2
  <2> DEFINE h == [k \in 0 .. N |-> IF k = n + 1 THEN Step(f, k) ELSE f[k]]
  <2>2. \A k \in 0 .. n : h[k] = f[k]
    OBVIOUS
  <2>3. ASSUME NEW k \in 0 .. n + 1 PROVE h[k] = Step(h, k)
    <3>1. k # 0 => k - 1 \in 0 .. n
      OBVIOUS
    <3>2. Step(h, k) = Step(f, k)
      <4> HIDE DEF h
      <4> QED BY <2>2, <3>1
    <3>3. h[k] = Step(f, k)
      <4>1. CASE k = n + 1
        BY <4>1
      <4>2. CASE k \in 0 .. n
        <5>1. f[k] = Step(f, k)
          BY <2>1, <4>2
        <5> HIDE DEF h, Step
        <5>2. QED
          BY <2>2, <4>2, <5>1
      <4>3. QED
        BY <4>1, <4>2
    <3>4. QED
      BY <3>2, <3>3
  <2>4. h = [k \in 0 .. N |-> h[k]]
    OBVIOUS
  <2>5. n + 1 \in 0 .. N
    OBVIOUS
  <2> HIDE DEF h
  <2>6. Upto(h, n + 1)
    BY <2>3
  <2>7. QED
    BY <2>4, <2>5, <2>6
<1>3. 0 .. N \subseteq G
  <2> HIDE DEF G
  <2> QED BY <1>1, <1>2, UpToInduction
<1>4. PICK f : f = [k \in 0 .. N |-> f[k]] /\ Upto(f, N)
  BY <1>3
<1>5. f = [k \in 0 .. N |-> Step(f, k)]
  BY <1>4
<1>6. QED
  BY <1>5 DEF LotsOf

(* A reduction by d leaves in the first m lots what they had less d.       *)
Taken(l, n, d) == [i \in 1 .. n |-> Above0(l[i] - Above0(d - Total(1 .. i - 1, l)))]

LEMMA TakeFromLots ==
  ASSUME NEW n \in Nat, NEW l \in [1 .. n -> Nat], NEW d \in Nat
  PROVE  /\ Taken(l, n, d) \in [1 .. n -> Nat]
         /\ \A m \in 0 .. n : Total(1 .. m, Taken(l, n, d)) = Above0(Total(1 .. m, l) - d)
<1> DEFINE h == Taken(l, n, d)
<1>0. h = [i \in 1 .. n |-> Above0(l[i] - Above0(d - Total(1 .. i - 1, l)))]
  BY DEF Taken
<1> HIDE DEF h
<1>1. \A i \in 1 .. n : l[i] \in Int /\ l[i] \in Nat
  OBVIOUS
<1>2. ASSUME NEW m \in 0 .. n PROVE Total(1 .. m, l) \in Int
  <2>1. IsFiniteSet(1 .. m) /\ \A i \in 1 .. m : l[i] \in Int
    BY <1>1, FS_Interval
  <2>2. QED
    BY <2>1, TotalInt
<1>3. \A i \in 1 .. n : h[i] \in Nat /\ h[i] \in Int
  <2> SUFFICES ASSUME NEW i \in 1 .. n PROVE h[i] \in Nat
    OBVIOUS
  <2>1. Total(1 .. i - 1, l) \in Int
    BY <1>2
  <2>2. QED
    BY <1>1, <1>0, <2>1 DEF Above0
<1> DEFINE Fits(m) == Total(1 .. m, h) = Above0(Total(1 .. m, l) - d) /\ Total(1 .. m, l) >= 0
           G == {m \in 0 .. n : Fits(m)}
<1>4. 0 \in G
  BY TotalNone DEF Above0
<1>5. ASSUME NEW m \in 0 .. n - 1, m \in G PROVE m + 1 \in G
  <2>1. /\ m + 1 \in Nat /\ m + 1 > 0 /\ m + 1 \in 0 .. n /\ m + 1 \in 1 .. n /\ (m + 1) - 1 = m
        /\ \A i \in 1 .. m + 1 : l[i] \in Int /\ h[i] \in Int
    BY <1>1, <1>3
  <2>2. Total(1 .. m + 1, l) = Total(1 .. m, l) + l[m + 1]
    BY <2>1, TotalNext
  <2>3. Total(1 .. m + 1, h) = Total(1 .. m, h) + h[m + 1]
    BY <2>1, TotalNext
  <2>4. h[m + 1] = Above0(l[m + 1] - Above0(d - Total(1 .. m, l)))
    BY <1>0, <2>1
  <2>5. Fits(m) /\ Total(1 .. m, l) \in Int /\ l[m + 1] \in Nat
    BY <1>1, <1>2, <1>5, <2>1
  <2> DEFINE p == Total(1 .. m, l)
             x == l[m + 1]
  <2>6. p \in Int /\ p >= 0 /\ x \in Nat
    BY <2>5
  <2>7. /\ Total(1 .. m + 1, l) = p + x
        /\ Total(1 .. m + 1, h) = Above0(p - d) + Above0(x - Above0(d - p))
    BY <2>2, <2>3, <2>4, <2>5
  <2> HIDE DEF p, x
  <2>8. Above0(p - d) + Above0(x - Above0(d - p)) = Above0((p + x) - d)
    BY <2>6 DEF Above0
  <2>9. Fits(m + 1)
    BY <2>6, <2>7, <2>8
  <2>10. QED
    BY <2>1, <2>9
<1>6. 0 .. n \subseteq G
  <2> HIDE DEF G
  <2> QED BY <1>4, <1>5, UpToInduction
<1>7. h \in [1 .. n -> Nat]
  BY <1>0, <1>3
<1>8. QED
  BY <1>6, <1>7 DEF h

(* No movement takes more than there is.                                   *)
Solvent(t) == \A k \in 0 .. Len(t) : Total(1 .. k, t) >= 0

(* The lots l after the first k movements of t.                            *)
LotsFit(l, t, k) ==
  /\ l \in [1 .. Len(t) -> Nat]
  /\ \A i \in k + 1 .. Len(t) : l[i] = 0
  /\ \A m \in 0 .. Len(t) :
       Total(1 .. m, l) = Above0(EarnedBefore(t, IF m < k THEN m ELSE k) - Lost(t, k))

LEMMA NoLots ==
  ASSUME NEW t \in Seq(Int)
  PROVE  LotsFit([i \in DOMAIN t |-> 0], t, 0)
<1> DEFINE l == [i \in DOMAIN t |-> 0]
           G == {m \in 0 .. Len(t) : Total(1 .. m, l) = 0}
<1>1. l \in [1 .. Len(t) -> Nat] /\ (\A i \in 1 .. Len(t) : l[i] = 0) /\ Len(t) \in Nat
  OBVIOUS
<1> HIDE DEF l
<1>2. 0 \in G
  BY <1>1, TotalNone
<1>3. ASSUME NEW m \in 0 .. Len(t) - 1, m \in G PROVE m + 1 \in G
  <2>1. /\ m + 1 \in Nat /\ m + 1 > 0 /\ m + 1 \in 0 .. Len(t) /\ (m + 1) - 1 = m
        /\ l[m + 1] = 0 /\ \A i \in 1 .. m + 1 : l[i] \in Int
    BY <1>1
  <2>2. Total(1 .. m + 1, l) = Total(1 .. m, l) + l[m + 1]
    BY <2>1, TotalNext
  <2>3. QED
    BY <1>3, <2>1, <2>2
<1>4. 0 .. Len(t) \subseteq G
  <2> HIDE DEF G
  <2> QED BY <1>1, <1>2, <1>3, UpToInduction
<1>5. \A m \in 0 .. Len(t) :
        Total(1 .. m, l) = Above0(EarnedBefore(t, IF m < 0 THEN m ELSE 0) - Lost(t, 0))
  BY <1>1, <1>4, EarnedNone DEF Above0
<1>6. LotsFit(l, t, 0)
  BY <1>1, <1>5 DEF LotsFit
<1>7. QED
  BY <1>6 DEF l

(* What the k-th movement does to the sums.                                *)
LEMMA MovementSums ==
  ASSUME NEW t \in Seq(Int), NEW k \in 1 .. Len(t)
  PROVE  /\ t[k] \in Int /\ EarnedBefore(t, k - 1) \in Int /\ Lost(t, k - 1) \in Int
         /\ Total(1 .. k - 1, t) = EarnedBefore(t, k - 1) - Lost(t, k - 1)
         /\ EarnedBefore(t, k) = EarnedBefore(t, k - 1) + Above0(t[k])
         /\ Lost(t, k) = Lost(t, k - 1) + Above0(-t[k])
<1>1. /\ k \in Nat /\ k > 0 /\ k - 1 \in 0 .. k
      /\ \A i \in 1 .. k : t[i] \in Int
      /\ t[k] \in Int
  OBVIOUS
<1>2. /\ EarnedBefore(t, k) = EarnedBefore(t, k - 1) + Above0(t[k])
      /\ Lost(t, k) = Lost(t, k - 1) + Above0(-t[k])
  BY <1>1, EarnedNext, LostNext
<1>3. /\ EarnedBefore(t, k - 1) \in Int /\ Lost(t, k - 1) \in Int
      /\ Total(1 .. k - 1, t) = EarnedBefore(t, k - 1) - Lost(t, k - 1)
  BY <1>1, PrefixBalance
<1>4. QED
  BY <1>1, <1>2, <1>3

LEMMA EarnedLots ==
  ASSUME NEW t \in Seq(Int), Solvent(t), NEW k \in 1 .. Len(t), t[k] > 0,
         NEW l, LotsFit(l, t, k - 1), NEW h, h = [l EXCEPT ![k] = t[k]]
  PROVE  LotsFit(h, t, k)
<1> DEFINE n == Len(t)
           e == EarnedBefore(t, k - 1)
           c == Lost(t, k - 1)
<1>1. /\ n \in Nat /\ l \in [1 .. n -> Nat] /\ h \in [1 .. n -> Nat] /\ k \in Nat /\ k <= n
      /\ l[k] = 0 /\ h[k] = t[k] /\ \A i \in 1 .. n : i # k => h[i] = l[i]
      /\ \A i \in 1 .. n : l[i] \in Int /\ h[i] \in Int
  <2>1. n \in Nat /\ l \in [1 .. n -> Nat] /\ t[k] \in Nat /\ k \in (k - 1) + 1 .. n
    BY DEF LotsFit
  <2>2. l[k] = 0
    BY <2>1 DEF LotsFit
  <2>3. QED
    BY <2>1, <2>2
<1>2. /\ e \in Int /\ c \in Int /\ t[k] \in Int
      /\ EarnedBefore(t, k) = e + t[k]
      /\ Lost(t, k) = c
  BY MovementSums DEF Above0
<1>3. e - c >= 0
  <2>1. k - 1 \in 0 .. n
    BY <1>1
  <2>2. Total(1 .. k - 1, t) >= 0
    BY <2>1 DEF Solvent
  <2>3. QED
    BY <2>2, MovementSums
<1>4. ASSUME NEW m \in 0 .. n
      PROVE  Total(1 .. m, h) = Above0(EarnedBefore(t, IF m < k THEN m ELSE k) - Lost(t, k))
  <2>1. Total(1 .. m, l) = Above0(EarnedBefore(t, IF m < k - 1 THEN m ELSE k - 1) - Lost(t, k - 1))
    BY DEF LotsFit
  <2>2. IsFiniteSet(1 .. m) /\ \A i \in 1 .. m : l[i] \in Int /\ h[i] \in Int
    BY <1>1, FS_Interval
  <2>3. CASE m < k
    <3>1. Total(1 .. m, h) = Total(1 .. m, l)
      <4>1. \A i \in 1 .. m : h[i] = l[i]
        BY <1>1, <2>3
      <4>2. QED
        BY <2>2, <4>1, TotalSame
    <3>2. (IF m < k - 1 THEN m ELSE k - 1) = m /\ (IF m < k THEN m ELSE k) = m
      BY <1>1, <2>3
    <3>3. QED
      BY <1>2, <2>1, <3>1, <3>2
  <2>4. CASE ~ (m < k)
    <3>1. k \in 1 .. m
      BY <1>1, <2>4
    <3> DEFINE R == (1 .. m) \ {k}
    <3>2. Total(1 .. m, h) = t[k] + Total(R, h) /\ Total(1 .. m, l) = 0 + Total(R, l)
      BY <1>1, <2>2, <3>1, TotalRemove
    <3>3. IsFiniteSet(R) /\ (\A i \in R : h[i] = l[i]) /\ \A i \in R : l[i] \in Int
      BY <1>1, <2>2, FS_Subset
    <3>4. Total(R, h) = Total(R, l) /\ Total(R, l) \in Int
      <4> HIDE DEF R
      <4> QED BY <3>3, TotalSame, TotalInt
    <3> HIDE DEF R
    <3>5. Total(1 .. m, h) = t[k] + Total(1 .. m, l)
      BY <1>1, <3>2, <3>4
    <3>6. (IF m < k - 1 THEN m ELSE k - 1) = k - 1 /\ (IF m < k THEN m ELSE k) = k
      BY <1>1, <2>4
    <3>7. Total(1 .. m, l) = Above0(e - c)
      BY <2>1, <3>6
    <3> HIDE DEF e, c
    <3>8. Total(1 .. m, h) = Above0((e + t[k]) - c)
      BY <1>2, <1>3, <3>5, <3>7 DEF Above0
    <3>9. QED
      BY <1>2, <3>6, <3>8
  <2>5. QED
    BY <2>3, <2>4
<1>5. \A i \in k + 1 .. n : h[i] = 0
  <2>1. \A i \in k + 1 .. n : i \in (k - 1) + 1 .. n /\ i \in 1 .. n /\ i # k
    BY <1>1
  <2>2. QED
    BY <1>1, <2>1 DEF LotsFit
<1>6. QED
  BY <1>1, <1>4, <1>5 DEF LotsFit

LEMMA ReducedLots ==
  ASSUME NEW t \in Seq(Int), NEW k \in 1 .. Len(t), ~ (t[k] > 0),
         NEW l, LotsFit(l, t, k - 1), NEW h,
         h = [i \in DOMAIN t |-> Above0(l[i] - Above0(-t[k] - Total(1 .. i - 1, l)))]
  PROVE  LotsFit(h, t, k)
<1> DEFINE n == Len(t)
           d == -t[k]
<1>1. /\ n \in Nat /\ DOMAIN t = 1 .. n /\ l \in [1 .. n -> Nat] /\ d \in Nat
      /\ \A i \in 1 .. n : t[i] \in Int
  BY DEF LotsFit
<1>2. h = Taken(l, n, d)
  BY <1>1 DEF Taken
<1>3. /\ h \in [1 .. n -> Nat]
      /\ \A m \in 0 .. n : Total(1 .. m, h) = Above0(Total(1 .. m, l) - d)
  <2> HIDE DEF n, d
  <2>1. /\ Taken(l, n, d) \in [1 .. n -> Nat]
        /\ \A m \in 0 .. n : Total(1 .. m, Taken(l, n, d)) = Above0(Total(1 .. m, l) - d)
    BY <1>1, TakeFromLots
  <2>2. QED
    BY <1>2, <2>1
<1>4. k - 1 \in 0 .. n /\ k \in Nat /\ k > 0 /\ k \in 0 .. n
  BY <1>1
<1>5. EarnedBefore(t, k) = EarnedBefore(t, k - 1) /\ Lost(t, k) = Lost(t, k - 1) + d
  <2>1. Above0(t[k]) = 0 /\ Above0(-t[k]) = d
    BY MovementSums DEF Above0
  <2>2. QED
    BY <2>1, MovementSums
<1>6. ASSUME NEW m \in 0 .. n
      PROVE  Total(1 .. m, h) = Above0(EarnedBefore(t, IF m < k THEN m ELSE k) - Lost(t, k))
  <2> DEFINE j == IF m < k - 1 THEN m ELSE k - 1
  <2>1. Total(1 .. m, l) = Above0(EarnedBefore(t, j) - Lost(t, k - 1))
    BY DEF LotsFit
  <2>2. j \in 0 .. n
    BY <1>4
  <2>3. EarnedBefore(t, IF m < k THEN m ELSE k) = EarnedBefore(t, j)
    <3>1. CASE m < k
      <4>1. (IF m < k THEN m ELSE k) = j
        BY <1>4, <3>1
      <4>2. QED
        BY <4>1
    <3>2. CASE ~ (m < k)
      <4>1. (IF m < k THEN m ELSE k) = k /\ j = k - 1
        BY <1>4, <3>2
      <4>2. QED
        BY <1>5, <4>1
    <3>3. QED
      BY <3>1, <3>2
  <2>4. Total(1 .. m, h) = Above0(Above0(EarnedBefore(t, j) - Lost(t, k - 1)) - d)
    BY <1>3, <2>1
  <2> HIDE DEF j
  <2>5. EarnedBefore(t, j) \in Int /\ Lost(t, k - 1) \in Int
    BY <1>1, <1>4, <2>2, PrefixBalance
  <2> DEFINE e == EarnedBefore(t, j)
             c == Lost(t, k - 1)
  <2>6. Above0(Above0(e - c) - d) = Above0(e - (c + d))
    <3> HIDE DEF e, c, d
    <3>1. e \in Int /\ c \in Int /\ d \in Nat
      BY <1>1, <2>5 DEF e, c
    <3>2. QED
      BY <3>1 DEF Above0
  <2>7. QED
    BY <1>5, <2>3, <2>4, <2>6
<1>7. ASSUME NEW i \in k + 1 .. n PROVE h[i] = 0
  <2>1. i \in (k - 1) + 1 .. n /\ i \in 1 .. n /\ i - 1 \in 0 .. n
    BY <1>4
  <2>2. l[i] = 0
    BY <2>1 DEF LotsFit
  <2>3. Total(1 .. i - 1, l) \in Int
    <3>1. \A a \in 1 .. i - 1 : l[a] \in Int
      <4> HIDE DEF n
      <4> QED BY <1>1, <2>1
    <3>2. IsFiniteSet(1 .. i - 1)
      BY FS_Interval
    <3>3. QED
      BY <3>1, <3>2, TotalInt
  <2> DEFINE x == Total(1 .. i - 1, l)
  <2>4. h[i] = Above0(0 - Above0(d - x))
    BY <1>2, <2>1, <2>2 DEF Taken
  <2>5. x \in Int /\ d \in Int
    BY <1>1, <2>3
  <2> HIDE DEF x, d
  <2>6. QED
    BY <2>4, <2>5 DEF Above0
<1>8. QED
  BY <1>3, <1>6, <1>7 DEF LotsFit

LEMMA LotsPrefix ==
  ASSUME NEW t \in Seq(Int), Solvent(t)
  PROVE  LotsFit(Lots(t), t, Len(t))
<1> DEFINE n == Len(t)
           f == CHOOSE g : LotsOf(g, t)
           G == {k \in 0 .. n : LotsFit(f[k], t, k)}
<1>1. n \in Nat
  OBVIOUS
<1>2. LotsOf(f, t)
  BY <1>1, LotsExist
<1>3. Lots(t) = f[n]
  BY LotsAreSteps
<1> HIDE DEF f
<1>4. /\ f[0] = [i \in DOMAIN t |-> 0]
      /\ \A k \in 1 .. n : f[k] = LotsStep(f[k - 1], t, k)
  BY <1>1, <1>2 DEF LotsOf
<1>5. 0 \in G
  BY <1>1, <1>4, NoLots
<1>6. ASSUME NEW k \in 0 .. n - 1, k \in G PROVE k + 1 \in G
  <2>1. k + 1 \in 1 .. n /\ k + 1 \in 0 .. n /\ (k + 1) - 1 = k
    BY <1>1
  <2>2. f[k + 1] = LotsStep(f[k], t, k + 1) /\ LotsFit(f[k], t, (k + 1) - 1)
    BY <1>4, <1>6, <2>1
  <2>3. LotsFit(f[k + 1], t, k + 1)
    <3>1. CASE t[k + 1] > 0
      BY <2>1, <2>2, <3>1, EarnedLots DEF LotsStep
    <3>2. CASE ~ (t[k + 1] > 0)
      BY <2>1, <2>2, <3>2, ReducedLots DEF LotsStep
    <3>3. QED
      BY <3>1, <3>2
  <2>4. QED
    BY <2>1, <2>3
<1>7. 0 .. n \subseteq G
  <2> HIDE DEF G
  <2> QED BY <1>1, <1>5, <1>6, UpToInduction
<1>8. QED
  BY <1>1, <1>3, <1>7

-----------------------------------------------------------------------------
(* The rule.                                                               *)

(* What is at risk is what was earned before the cutoff and never lost.    *)
LEMMA RuleInSums ==
  ASSUME NEW t \in Seq(Int), Solvent(t), NEW cut \in 0 .. Len(t)
  PROVE  /\ AtRiskBefore(t, Balance(t), cut) = Above0(EarnedBefore(t, cut) - Lost(t, Len(t)))
         /\ AtRiskBefore(t, Balance(t), cut) \in 0 .. Balance(t)
         /\ Balance(t) \in Nat
<1> DEFINE n == Len(t)
           e == EarnedBefore(t, cut)
           c == Lost(t, n)
           b == Balance(t)
<1>1. /\ n \in Nat /\ DOMAIN t = 1 .. n /\ \A i \in 1 .. n : t[i] \in Int
  OBVIOUS
<1>2. \A j \in 0 .. n : /\ EarnedBefore(t, j) \in Int /\ Lost(t, j) \in Int
                        /\ Total(1 .. j, t) = EarnedBefore(t, j) - Lost(t, j)
  BY <1>1, PrefixBalance
<1>3. e <= EarnedBefore(t, n) /\ n \in 0 .. n /\ n \in cut .. n
  BY <1>1, EarnedGrows
<1>4. b = EarnedBefore(t, n) - c
  BY <1>1, <1>2, <1>3 DEF Balance
<1>5. b >= 0
  BY <1>1, <1>3 DEF Balance, Solvent
<1>6. e \in Int /\ c \in Int /\ b \in Int
  BY <1>2, <1>3, <1>4
<1>7. Consumed(t) = c
  BY <1>1 DEF Consumed, Lost
<1>8. AtRiskBefore(t, b, cut) = Above0(Min({Above0(e - c), b}))
  BY <1>7 DEF AtRiskBefore
<1>9. e - c <= b
  BY <1>2, <1>3, <1>4, <1>6
<1> HIDE DEF e, c, b
<1>10. Above0(e - c) <= b /\ Above0(e - c) \in Nat
  BY <1>5, <1>6, <1>9 DEF Above0
<1>11. Min({Above0(e - c), b}) = Above0(e - c)
  <2> DEFINE x == Above0(e - c)
  <2>1. x \in Nat /\ x <= b
    BY <1>10
  <2> HIDE DEF x
  <2>2. \A y \in {x, b} : (\A z \in {x, b} : y =< z) => y = x
    BY <1>6, <2>1
  <2>3. x \in {x, b} /\ \A z \in {x, b} : x =< z
    BY <1>6, <2>1
  <2>4. Min({x, b}) = x
    BY <2>2, <2>3 DEF Min
  <2>5. QED
    BY <2>4 DEF x
<1>12. QED
  BY <1>5, <1>6, <1>8, <1>10, <1>11 DEF e, c, b, Above0

LEMMA RuleOfHistory ==
  ASSUME txns \in Seq(Int), Solvent(txns)
  PROVE  RuleIsFifo
<1> SUFFICES ASSUME NEW cut \in 0 .. Len(txns)
             PROVE  AtRiskBefore(txns, Balance(txns), cut) = AliveBefore(txns, cut)
  BY DEF RuleIsFifo
<1>1. AtRiskBefore(txns, Balance(txns), cut)
        = Above0(EarnedBefore(txns, cut) - Lost(txns, Len(txns)))
  BY RuleInSums
<1>2. LotsFit(Lots(txns), txns, Len(txns))
  BY LotsPrefix
<1>3. (IF cut < Len(txns) THEN cut ELSE Len(txns)) = cut
  OBVIOUS
<1>4. Total(1 .. cut, Lots(txns)) = Above0(EarnedBefore(txns, cut) - Lost(txns, Len(txns)))
  BY <1>2, <1>3 DEF LotsFit
<1>5. QED
  BY <1>1, <1>4 DEF AliveBefore

(* One more movement.                                                      *)
LEMMA AppendSums ==
  ASSUME NEW t \in Seq(Int), NEW n \in Int, NEW k \in 0 .. Len(t)
  PROVE  /\ Total(1 .. k, Append(t, n)) = Total(1 .. k, t)
         /\ EarnedBefore(Append(t, n), k) = EarnedBefore(t, k)
         /\ Lost(Append(t, n), k) = Lost(t, k)
<1> DEFINE u == Append(t, n)
<1>1. \A i \in 1 .. k : u[i] = t[i]
  OBVIOUS
<1> HIDE DEF u
<1>2. \A S \in SUBSET (1 .. k) : Total(S, u) = Total(S, t)
  <2> SUFFICES ASSUME NEW S \in SUBSET (1 .. k) PROVE Total(S, u) = Total(S, t)
    OBVIOUS
  <2>1. IsFiniteSet(S)
    <3>1. IsFiniteSet(1 .. k)
      BY FS_Interval
    <3>2. QED
      BY <3>1, FS_Subset
  <2>2. \A i \in S : u[i] = t[i]
    BY <1>1
  <2>3. QED
    BY <2>1, <2>2, TotalSame
<1>3. /\ {i \in 1 .. k : u[i] > 0} = {i \in 1 .. k : t[i] > 0}
      /\ {i \in 1 .. k : u[i] < 0} = {i \in 1 .. k : t[i] < 0}
  BY <1>1
<1>4. /\ Total(1 .. k, u) = Total(1 .. k, t)
      /\ EarnedBefore(u, k) = EarnedBefore(t, k)
      /\ Lost(u, k) = Lost(t, k)
  BY <1>2, <1>3 DEF EarnedBefore, Lost
<1>5. QED
  BY <1>4 DEF u

LEMMA AppendEnds ==
  ASSUME NEW t \in Seq(Int), NEW n \in Int
  PROVE  /\ Append(t, n) \in Seq(Int) /\ Len(Append(t, n)) = Len(t) + 1
         /\ Balance(t) \in Int
         /\ Balance(Append(t, n)) = Balance(t) + n
         /\ Lost(Append(t, n), Len(t) + 1) = Lost(t, Len(t)) + Above0(-n)
<1> DEFINE u == Append(t, n)
           m == Len(t)
<1>1. /\ m \in Nat /\ m \in 0 .. m /\ m + 1 > 0 /\ (m + 1) - 1 = m
      /\ u \in Seq(Int) /\ Len(u) = m + 1 /\ u[m + 1] = n
      /\ DOMAIN t = 1 .. m /\ DOMAIN u = 1 .. m + 1
      /\ \A i \in 1 .. m + 1 : u[i] \in Int
  OBVIOUS
<1>2. Total(1 .. m, u) = Total(1 .. m, t) /\ Lost(u, m) = Lost(t, m)
  BY <1>1, AppendSums
<1> HIDE DEF u, m
<1>3. /\ Total(1 .. m + 1, u) = Total(1 .. m, u) + n
      /\ Total(1 .. m, u) \in Int
      /\ Lost(u, m + 1) = Lost(u, m) + Above0(-n)
  BY <1>1, TotalNext, LostNext
<1>4. QED
  BY <1>1, <1>2, <1>3 DEF u, m, Balance

LEMMA AppendSolvent ==
  ASSUME NEW t \in Seq(Int), Solvent(t), NEW n \in Int, Balance(t) + n >= 0
  PROVE  Solvent(Append(t, n))
<1> DEFINE u == Append(t, n)
           m == Len(t)
<1>1. m \in Nat /\ Len(u) = m + 1 /\ DOMAIN u = 1 .. m + 1
  OBVIOUS
<1>2. \A k \in 0 .. m : Total(1 .. k, u) = Total(1 .. k, t)
  BY AppendSums
<1>3. \A k \in 0 .. m : Total(1 .. k, t) >= 0
  BY DEF Solvent
<1>4. Total(1 .. m + 1, u) >= 0
  BY <1>1, AppendEnds DEF Balance
<1> HIDE DEF u, m
<1>5. \A k \in 0 .. m + 1 : k \in 0 .. m \/ k = m + 1
  BY <1>1
<1>6. QED
  BY <1>1, <1>2, <1>3, <1>4, <1>5 DEF Solvent, u

LEMMA WarningOfHistory ==
  ASSUME txns \in Seq(Int), Solvent(txns)
  PROVE  WarnedIsWhatExpires
<1> DEFINE n == Len(txns)
           b == Balance(txns)
           c == Lost(txns, n)
           AtRisk(k) == AtRiskBefore(txns, b, k)
<1> SUFFICES ASSUME NEW cut \in 0 .. n, NEW warn \in cut .. n
             PROVE  /\ AtRisk(warn) - AtRisk(cut) >= 0
                    /\ AtRiskBefore(Append(txns, -AtRisk(cut)), b - AtRisk(cut), warn)
                         = AtRisk(warn) - AtRisk(cut)
  BY DEF WarnedIsWhatExpires
<1>1. warn \in 0 .. n /\ n \in Nat /\ n \in 0 .. n /\ \A i \in 1 .. n : txns[i] \in Int
  OBVIOUS
<1> DEFINE e == EarnedBefore(txns, cut)
           w == EarnedBefore(txns, warn)
           due == AtRisk(cut)
           u == Append(txns, -due)
<1>2. /\ due = Above0(e - c) /\ AtRisk(warn) = Above0(w - c)
      /\ due \in 0 .. b /\ b \in Nat
  BY <1>1, RuleInSums
<1>3. e \in Int /\ w \in Int /\ c \in Int
  BY <1>1, PrefixBalance
<1>4. e <= w
  BY <1>1, EarnedGrows
<1>5. -due \in Int /\ b + -due >= 0
  BY <1>2
<1>6. /\ u \in Seq(Int) /\ Len(u) = n + 1
      /\ Balance(u) = b + -due
      /\ Lost(u, n + 1) = c + Above0(-(-due))
      /\ EarnedBefore(u, warn) = w
  <2> HIDE DEF due
  <2> QED BY <1>1, <1>5, AppendEnds, AppendSums
<1>7. Solvent(u)
  <2> HIDE DEF due
  <2> QED BY <1>5, AppendSolvent
<1>8. AtRiskBefore(u, Balance(u), warn) = Above0(EarnedBefore(u, warn) - Lost(u, Len(u)))
  <2>1. warn \in 0 .. Len(u)
    BY <1>1, <1>6
  <2> HIDE DEF u
  <2>2. QED
    BY <1>6, <1>7, <2>1, RuleInSums
<1>9. Balance(u) = b - due /\ Lost(u, Len(u)) = c + due
  <2> HIDE DEF u, due, c, b
  <2>1. Above0(-(-due)) = due
    BY <1>2 DEF Above0
  <2>2. QED
    BY <1>2, <1>6, <2>1
<1>10. AtRiskBefore(u, b - due, warn) = Above0(w - (c + due))
  BY <1>6, <1>8, <1>9
<1>11. AtRisk(warn) - due >= 0 /\ Above0(w - (c + due)) = AtRisk(warn) - due
  <2> HIDE DEF e, w, c, due, AtRisk
  <2> QED BY <1>2, <1>3, <1>4 DEF Above0
<1>12. QED
  BY <1>10, <1>11

-----------------------------------------------------------------------------
(* The history.                                                            *)

HistoryInv == txns \in Seq(Int) /\ Solvent(txns) /\ window \in 0 .. Len(txns)

LEMMA HistoryStarts == HistoryInit => HistoryInv
<1> SUFFICES ASSUME HistoryInit PROVE HistoryInv
  OBVIOUS
<1>1. txns = <<>> /\ txns \in Seq(Int) /\ Len(txns) = 0 /\ window = 0
  BY DEF HistoryInit
<1>2. \A k \in 0 .. 0 : Total(1 .. k, txns) = 0
  BY TotalNone
<1>3. QED
  BY <1>1, <1>2 DEF HistoryInv, Solvent

LEMMA MoveKeeps ==
  ASSUME HistoryInv, NEW n \in Int, Balance(txns) + n >= 0,
         txns' = Append(txns, n), UNCHANGED window
  PROVE  HistoryInv'
<1>1. Solvent(Append(txns, n))
  BY AppendSolvent DEF HistoryInv
<1>2. Append(txns, n) \in Seq(Int) /\ Len(Append(txns, n)) = Len(txns) + 1
  BY AppendEnds DEF HistoryInv
<1>3. Solvent(txns)'
  BY <1>1 DEF Solvent
<1>4. window' \in 0 .. Len(txns')
  BY <1>2 DEF HistoryInv
<1>5. QED
  BY <1>2, <1>3, <1>4 DEF HistoryInv

LEMMA HistoryStep == HistoryInv /\ [HistoryNext]_historyVars => HistoryInv'
<1> SUFFICES ASSUME HistoryInv, [HistoryNext]_historyVars PROVE HistoryInv'
  OBVIOUS
<1>1. Balance(txns) \in Nat /\ AtRiskBefore(txns, Balance(txns), window) \in 0 .. Balance(txns)
  BY RuleInSums DEF HistoryInv
<1>2. CASE Expire
  <2> DEFINE n == AtRiskBefore(txns, Balance(txns), window)
  <2>1. txns' = Append(txns, -n) /\ UNCHANGED window
    BY <1>2 DEF Expire
  <2>2. -n \in Int /\ Balance(txns) + -n >= 0
    BY <1>1
  <2> HIDE DEF n
  <2>3. QED
    BY <2>1, <2>2, MoveKeeps
<1>3. ASSUME NEW n \in Sizes, Earn(n) PROVE HistoryInv'
  <2>1. n \in Int /\ Balance(txns) + n >= 0
    BY <1>1, HistoryAssumption DEF HistoryAssumption
  <2>2. QED
    BY <1>3, <2>1, MoveKeeps DEF Earn
<1>4. ASSUME NEW n \in Sizes, Consume(n) PROVE HistoryInv'
  <2>1. -n \in Int /\ Balance(txns) + -n >= 0
    BY <1>1, <1>4, HistoryAssumption DEF HistoryAssumption, Consume
  <2>2. QED
    BY <1>4, <2>1, MoveKeeps DEF Consume
<1>5. ASSUME NEW k \in 1 .. Len(txns), WindowMoves(k) PROVE HistoryInv'
  BY <1>5 DEF WindowMoves, HistoryInv, Solvent
<1>6. CASE UNCHANGED historyVars
  BY <1>6 DEF historyVars, HistoryInv, Solvent
<1>7. QED
  BY <1>2, <1>3, <1>4, <1>5, <1>6 DEF HistoryNext

LEMMA HistoryInvariance == HistorySpec => []HistoryInv
<1>1. QED
  BY HistoryStarts, HistoryStep, PTL DEF HistorySpec

(* For every history and every cutoff the rule of atRiskBefore, two sums   *)
(* and the balance, gives what a table of lots would.                      *)
THEOREM ExpiryIsFifo == HistorySpec => []RuleIsFifo
<1>1. HistoryInv => RuleIsFifo
  BY RuleOfHistory DEF HistoryInv
<1>2. QED
  BY <1>1, HistoryInvariance, PTL

(* For every history, what expiringSoon warns of is what goes at the later *)
(* cutoff once what is due now is gone.                                    *)
THEOREM WarningsAreExact == HistorySpec => []WarnedIsWhatExpires
<1>1. HistoryInv => WarnedIsWhatExpires
  BY WarningOfHistory DEF HistoryInv
<1>2. QED
  BY <1>1, HistoryInvariance, PTL

-----------------------------------------------------------------------------
(* One handler at a time.                                                  *)

OneAtATime == \A g, h \in Handlers : g = h

(* One more row.                                                           *)
LEMMA MovesAppend ==
  ASSUME NEW s \in Seq(RowSet), NEW r \in RowSet, NEW c \in Customers
  PROVE  /\ Balance(MovesIn(s, c)) \in Int
         /\ Balance(MovesIn(Append(s, r), c))
              = Balance(MovesIn(s, c)) + IF r.customer = c THEN r.points ELSE 0
<1> DEFINE n == Len(s)
           m == MovesIn(s, c)
           u == MovesIn(Append(s, r), c)
<1>1. /\ n \in Nat /\ n + 1 > 0 /\ (n + 1) - 1 = n /\ n + 1 \in 1 .. n + 1
      /\ DOMAIN s = 1 .. n /\ DOMAIN Append(s, r) = 1 .. n + 1
      /\ Append(s, r)[n + 1] = r /\ \A i \in 1 .. n : Append(s, r)[i] = s[i] /\ s[i] \in RowSet
  OBVIOUS
<1>2. /\ DOMAIN m = 1 .. n /\ DOMAIN u = 1 .. n + 1
      /\ u[n + 1] = IF r.customer = c THEN r.points ELSE 0
      /\ \A i \in 1 .. n : u[i] = m[i] /\ m[i] \in Int
  BY <1>1 DEF MovesIn, RowSet
<1>3. u[n + 1] \in Int
  BY <1>2 DEF RowSet
<1> HIDE DEF n, m, u
<1>4. \A i \in 1 .. n + 1 : u[i] \in Int
  BY <1>1, <1>2, <1>3
<1>5. Total(1 .. n + 1, u) = Total(1 .. n, u) + u[n + 1] /\ Total(1 .. n, u) \in Int
  BY <1>1, <1>4, TotalNext
<1>6. IsFiniteSet(1 .. n)
  BY <1>1, FS_Interval
<1>7. Total(1 .. n, u) = Total(1 .. n, m)
  BY <1>2, <1>6, TotalSame
<1>8. Balance(m) = Total(1 .. n, m) /\ Balance(u) = Total(1 .. n + 1, u)
  BY <1>2 DEF Balance
<1>9. /\ Balance(m) \in Int
      /\ Balance(u) = Balance(m) + u[n + 1]
  BY <1>5, <1>7, <1>8
<1>10. QED
  BY <1>2, <1>9 DEF m, u

LEMMA EarningsAppend ==
  ASSUME NEW s \in Seq(RowSet), NEW r \in RowSet, NEW c \in Customers
  PROVE  /\ Earnings(s, c) \in Int
         /\ Earnings(Append(s, r), c)
              = Earnings(s, c) + IF r.type = "EARN" /\ r.customer = c THEN r.points ELSE 0
<1> DEFINE n == Len(s)
           m == MovesIn(s, c)
           u == MovesIn(Append(s, r), c)
           A == {i \in DOMAIN s : s[i].type = "EARN"}
           B == {i \in DOMAIN Append(s, r) : Append(s, r)[i].type = "EARN"}
           x == IF r.customer = c THEN r.points ELSE 0
<1>1. /\ n \in Nat /\ n + 1 \in 1 .. n + 1 /\ n + 1 \notin 1 .. n
      /\ DOMAIN s = 1 .. n /\ DOMAIN Append(s, r) = 1 .. n + 1
      /\ Append(s, r)[n + 1] = r /\ \A i \in 1 .. n : Append(s, r)[i] = s[i] /\ s[i] \in RowSet
  OBVIOUS
<1>2. /\ u[n + 1] = x /\ x \in Int
      /\ \A i \in 1 .. n : u[i] = m[i] /\ m[i] \in Int
  BY <1>1 DEF MovesIn, RowSet
<1>3. A \in SUBSET (1 .. n) /\ B = IF r.type = "EARN" THEN A \cup {n + 1} ELSE A
  BY <1>1
<1>4. Earnings(s, c) = Total(A, m) /\ Earnings(Append(s, r), c) = Total(B, u)
  BY DEF Earnings
<1> HIDE DEF n, m, u, A, B, x
<1>5. IsFiniteSet(1 .. n) /\ IsFiniteSet(1 .. n + 1)
  BY <1>1, FS_Interval
<1>6. IsFiniteSet(A) /\ IsFiniteSet(A \cup {n + 1})
  BY <1>3, <1>5, FS_Subset, FS_AddElement
<1>7. Total(A, m) \in Int /\ Total(A, u) = Total(A, m)
  <2>1. \A i \in A : m[i] \in Int /\ u[i] = m[i]
    BY <1>2, <1>3
  <2>2. QED
    BY <1>6, <2>1, TotalInt, TotalSame
<1>8. Total(A \cup {n + 1}, u) = Total(A, u) + x
  <2>1. \A i \in A \cup {n + 1} : u[i] \in Int
    BY <1>2, <1>3
  <2>2. (A \cup {n + 1}) \ {n + 1} = A /\ n + 1 \in A \cup {n + 1}
    BY <1>1, <1>3
  <2>3. Total(A \cup {n + 1}, u) = u[n + 1] + Total((A \cup {n + 1}) \ {n + 1}, u)
    BY <1>6, <2>1, <2>2, TotalRemove
  <2>4. Total((A \cup {n + 1}) \ {n + 1}, u) = Total(A, u)
    BY <2>2
  <2>5. QED
    BY <1>2, <1>7, <2>3, <2>4
<1>9. CASE r.type = "EARN"
  BY <1>3, <1>4, <1>7, <1>8, <1>9 DEF x
<1>10. CASE r.type # "EARN"
  BY <1>3, <1>4, <1>7, <1>10
<1>11. QED
  BY <1>9, <1>10

(* What a handler has read is still so.                                    *)
Fresh(t, b, l, s, p, v) ==
  /\ t.op \in {"REDEEM", "ADJUST", "EXPIRE", "voucher", "expiry"} => t.seen = b[t.customer]
  /\ t.op = "award" => t.also = l[t.customer]
  /\ t.op \in {"reward", "voucher"} => t.also = s
  /\ t.op = "bonus" => t.also = p /\ p + t.points <= Budget
  /\ t.op \in {"fulfill", "cancel"} => v[t.voucher] = "ISSUED"

Out == {v \in Vouchers : voucher[v] \in {"ISSUED", "FULFILLED"}}

VouchersSound ==
  /\ IsFiniteSet(Out)
  /\ VouchersWithinStock
  /\ \A v \in Vouchers : ends[v] = IF voucher[v] \in {"none", "ISSUED"} THEN 0 ELSE 1

AloneInv ==
  /\ \A h \in Handlers : Fresh(task[h], balance, lifetime, stock, spent, voucher)
  /\ NoDrift
  /\ LifetimeIsEarned
  /\ VouchersSound
  /\ WithinBudget

LEMMA AllFresh ==
  ASSUME OneAtATime, IInv, NEW h \in Handlers, NEW t, Goes(h, t),
         Fresh(t, balance', lifetime', stock', spent', voucher')
  PROVE  \A g \in Handlers : Fresh(task'[g], balance', lifetime', stock', spent', voucher')
<1>1. task \in [Handlers -> TaskType]
  BY DEF IInv, TypeOK, TaskType, Ops
<1>2. \A g \in Handlers : task'[g] = t
  BY <1>1 DEF Goes, OneAtATime
<1>3. QED
  BY <1>2

LEMMA AloneReads ==
  ASSUME OneAtATime, IInv, AloneInv, NEW h \in Handlers, NEW t, Goes(h, t),
         Fresh(t, balance, lifetime, stock, spent, voucher),
         UNCHANGED <<accounts, cutoff, catalogue, promotion>>
  PROVE  AloneInv'
<1>1. UNCHANGED <<balance, lifetime, rows, stock, voucher, ends, spent>>
  BY DEF accounts, catalogue, promotion
<1>2. \A g \in Handlers : Fresh(task'[g], balance', lifetime', stock', spent', voucher')
  <2>1. Fresh(t, balance', lifetime', stock', spent', voucher')
    BY <1>1
  <2>2. QED
    BY <2>1, AllFresh
<1>3. NoDrift' /\ LifetimeIsEarned' /\ WithinBudget'
  BY <1>1 DEF AloneInv, NoDrift, LifetimeIsEarned, WithinBudget
<1>4. VouchersSound'
  BY <1>1 DEF AloneInv, VouchersSound, VouchersWithinStock, Out
<1>5. QED
  BY <1>2, <1>3, <1>4 DEF AloneInv

LEMMA AloneBooks ==
  ASSUME OneAtATime, IInv, AloneInv, NEW h \in Handlers, NEW t, Goes(h, t),
         NEW r \in RowSet, NEW e, Books(e, r, balance[r.customer] + r.points),
         Fresh(t, balance', lifetime', stock', spent', voucher'),
         lifetime' = IF r.type = "EARN"
                     THEN [lifetime EXCEPT ![r.customer] = lifetime[r.customer] + r.points]
                     ELSE lifetime,
         VouchersSound', WithinBudget'
  PROVE  AloneInv'
<1>1. /\ rows \in Seq(RowSet) /\ rows' = Append(rows, r) /\ r.customer \in Customers
      /\ balance \in [Customers -> Int] /\ lifetime \in [Customers -> Nat]
      /\ balance' = [balance EXCEPT ![r.customer] = balance[r.customer] + r.points]
  BY DEF IInv, TypeOK, Books, RowSet
<1>2. ASSUME NEW c \in Customers PROVE balance'[c] = Balance(MovesIn(rows', c))
  <2>1. Balance(MovesIn(Append(rows, r), c))
          = Balance(MovesIn(rows, c)) + IF r.customer = c THEN r.points ELSE 0
    BY <1>1, MovesAppend
  <2>2. Balance(MovesIn(rows, c)) \in Int
    BY <1>1, MovesAppend
  <2>3. balance[c] = Balance(MovesIn(rows, c))
    BY DEF AloneInv, NoDrift
  <2>4. QED
    BY <1>1, <2>1, <2>2, <2>3
<1>3. ASSUME NEW c \in Customers PROVE lifetime'[c] = Earnings(rows', c)
  <2>1. Earnings(Append(rows, r), c)
          = Earnings(rows, c) + IF r.type = "EARN" /\ r.customer = c THEN r.points ELSE 0
    BY <1>1, EarningsAppend
  <2>2. Earnings(rows, c) \in Int
    BY <1>1, EarningsAppend
  <2>3. lifetime[c] = Earnings(rows, c)
    BY DEF AloneInv, LifetimeIsEarned
  <2>4. QED
    BY <1>1, <2>1, <2>2, <2>3
<1>4. \A g \in Handlers : Fresh(task'[g], balance', lifetime', stock', spent', voucher')
  BY AllFresh
<1>5. NoDrift' /\ LifetimeIsEarned'
  BY <1>2, <1>3 DEF NoDrift, LifetimeIsEarned
<1>6. QED
  BY <1>4, <1>5 DEF AloneInv

LEMMA IdleIsFresh ==
  ASSUME NEW b, NEW l, NEW s, NEW p, NEW v PROVE Fresh(Idle, b, l, s, p, v)
  BY DEF Fresh, Idle, Task

LEMMA AloneInit == Init => AloneInv
<1> SUFFICES ASSUME Init PROVE AloneInv
  OBVIOUS
<1>1. \A h \in Handlers : Fresh(task[h], balance, lifetime, stock, spent, voucher)
  BY IdleIsFresh DEF Init
<1>2. NoDrift /\ LifetimeIsEarned
  BY DEF Init, NoDrift, LifetimeIsEarned, OldBalance, OldLifetime
<1>3. VouchersSound
  <2>1. Out = {}
    BY DEF Init, Out
  <2>2. IsFiniteSet({}) /\ Cardinality({}) = 0
    BY FS_EmptySet
  <2>3. 0 + stock = Stock
    BY ConstantTypes DEF Init
  <2>4. QED
    BY <2>1, <2>2, <2>3 DEF Init, VouchersSound, VouchersWithinStock, Out
<1>4. WithinBudget
  BY ConstantTypes DEF Init, WithinBudget
<1>5. QED
  BY <1>1, <1>2, <1>3, <1>4 DEF AloneInv

LEMMA BonusFits ==
  ASSUME spent \in Nat, spent < Budget
  PROVE  /\ Min({Bonus, Budget - spent}) \in Int
         /\ spent + Min({Bonus, Budget - spent}) <= Budget
<1> DEFINE x == Budget - spent
<1>1. x \in Int /\ Bonus \in Nat
  BY ConstantTypes
<1> HIDE DEF x
<1>2. \E m \in {Bonus, x} : \A y \in {Bonus, x} : m =< y
  BY <1>1
<1>3. Min({Bonus, x}) \in {Bonus, x} /\ Min({Bonus, x}) =< x
  BY <1>2 DEF Min
<1>4. Min({Bonus, x}) \in Int
  BY <1>1, <1>3
<1>5. QED
  BY <1>3, <1>4, ConstantTypes DEF x

LEMMA AloneRead ==
  ASSUME OneAtATime, IInv, AloneInv, NEW h \in Handlers,
         \/ \E p \in Payments, n \in Earns : ReadAward(h, p, n)
         \/ \E c \in Customers : Mutate(h, c) \/ ReadExpiry(h, c) \/ ReadReward(h, c)
         \/ \E v \in Vouchers : ReadVoucher(h, v, "fulfill") \/ ReadVoucher(h, v, "cancel")
         \/ ReadPromotion(h) \/ FindExpirable(h) \/ ReadHolder(h) \/ Abort(h)
  PROVE  AloneInv'
<1> USE DEF Fresh, Task
<1>1. /\ Fresh(task[h], balance, lifetime, stock, spent, voucher)
      /\ spent \in Nat
  BY DEF AloneInv, IInv, TypeOK
<1>2. ASSUME NEW p \in Payments, NEW n \in Earns, ReadAward(h, p, n) PROVE AloneInv'
  <2> DEFINE t == Task("award", Owner[p], "none", n, balance[Owner[p]], lifetime[Owner[p]])
  <2>1. /\ Goes(h, t) /\ UNCHANGED <<accounts, cutoff, catalogue, promotion>>
        /\ Fresh(t, balance, lifetime, stock, spent, voucher)
    BY <1>2 DEF ReadAward, Begins
  <2> HIDE DEF t
  <2>2. QED
    BY <2>1, AloneReads
<1>3. ASSUME NEW c \in Customers, NEW o \in {"REDEEM", "ADJUST"}, NEW n, NEW w,
             ReadMutate(h, c, o, n, w)
      PROVE  AloneInv'
  <2> DEFINE t == Task(o, c, "none", n, balance[c], w)
  <2>1. /\ Goes(h, t) /\ UNCHANGED <<accounts, cutoff, catalogue, promotion>>
        /\ Fresh(t, balance, lifetime, stock, spent, voucher)
    BY <1>3 DEF ReadMutate, Begins
  <2> HIDE DEF t
  <2>2. QED
    BY <2>1, AloneReads
<1>4. ASSUME NEW c \in Customers, ReadExpiry(h, c) PROVE AloneInv'
  <2> DEFINE t == Task("expiry", c, "none", 0, balance[c], 0)
  <2>1. /\ Goes(h, t) /\ UNCHANGED <<accounts, cutoff, catalogue, promotion>>
        /\ Fresh(t, balance, lifetime, stock, spent, voucher)
    BY <1>4 DEF ReadExpiry, Begins
  <2> HIDE DEF t
  <2>2. QED
    BY <2>1, AloneReads
<1>5. ASSUME NEW c \in Customers, ReadReward(h, c) PROVE AloneInv'
  <2> DEFINE t == Task("reward", c, "none", 0, 0, stock)
  <2>1. /\ Goes(h, t) /\ UNCHANGED <<accounts, cutoff, catalogue, promotion>>
        /\ Fresh(t, balance, lifetime, stock, spent, voucher)
    BY <1>5 DEF ReadReward, Begins
  <2> HIDE DEF t
  <2>2. QED
    BY <2>1, AloneReads
<1>6. ASSUME NEW v \in Vouchers, NEW o \in {"fulfill", "cancel"}, ReadVoucher(h, v, o)
      PROVE  AloneInv'
  <2> DEFINE t == Task(o, holder[v], v, 0, 0, 0)
  <2>1. /\ Goes(h, t) /\ UNCHANGED <<accounts, cutoff, catalogue, promotion>>
        /\ Fresh(t, balance, lifetime, stock, spent, voucher)
    BY <1>6 DEF ReadVoucher, Begins
  <2> HIDE DEF t
  <2>2. QED
    BY <2>1, AloneReads
<1>7. ASSUME Ends(h), UNCHANGED <<accounts, cutoff, catalogue, promotion>> PROVE AloneInv'
  BY <1>7, IdleIsFresh, AloneReads DEF Ends
<1>8. CASE ReadPromotion(h)
  <2> DEFINE t == Task("bonus", task[h].customer, "none", Min({Bonus, Budget - spent}), 0, spent)
  <2>1. CASE ended \/ spent >= Budget
    BY <1>7, <1>8, <2>1 DEF ReadPromotion
  <2>2. CASE ~ (ended \/ spent >= Budget)
    <3>1. Goes(h, t) /\ UNCHANGED <<accounts, cutoff, catalogue, promotion>>
      BY <1>8, <2>2 DEF ReadPromotion
    <3>2. spent + Min({Bonus, Budget - spent}) <= Budget
      BY <1>1, <2>2, ConstantTypes, BonusFits
    <3>3. Fresh(t, balance, lifetime, stock, spent, voucher)
      BY <3>2
    <3> HIDE DEF t
    <3>4. QED
      BY <3>1, <3>3, AloneReads
  <2>3. QED
    BY <2>1, <2>2
<1>9. CASE FindExpirable(h)
  <2>1. CASE Ends(h)
    BY <1>7, <1>9, <2>1 DEF FindExpirable
  <2>2. CASE ~ Ends(h)
    <3>1. PICK n \in 1 .. task[h].seen :
            /\ Goes(h, Task("EXPIRE", task[h].customer, "none", -n, task[h].seen, 0))
            /\ Doing(h, "expiry") /\ UNCHANGED <<accounts, cutoff, catalogue, promotion>>
      BY <1>9, <2>2 DEF FindExpirable
    <3> DEFINE t == Task("EXPIRE", task[h].customer, "none", -n, task[h].seen, 0)
    <3>2. Fresh(t, balance, lifetime, stock, spent, voucher)
      BY <1>1, <3>1 DEF Doing
    <3> HIDE DEF t
    <3>3. QED
      BY <3>1, <3>2, AloneReads DEF t
  <2>3. QED
    BY <2>1, <2>2
<1>10. CASE ReadHolder(h)
  <2> DEFINE t == Task("voucher", task[h].customer, "none", -Cost, balance[task[h].customer],
                       task[h].also)
  <2>1. Doing(h, "reward") /\ UNCHANGED <<accounts, cutoff, catalogue, promotion>>
        /\ (Ends(h) \/ Goes(h, t))
    BY <1>10 DEF ReadHolder
  <2>2. Fresh(t, balance, lifetime, stock, spent, voucher)
    BY <1>1, <2>1 DEF Doing
  <2> HIDE DEF t
  <2>3. QED
    BY <1>7, <2>1, <2>2, AloneReads
<1>11. CASE Abort(h)
  BY <1>7, <1>11 DEF Abort
<1>12. ASSUME NEW c \in Customers, Mutate(h, c) PROVE AloneInv'
  BY <1>3, <1>12 DEF Mutate
<1>13. QED
  BY <1>2, <1>4, <1>5, <1>6, <1>8, <1>9, <1>10, <1>11, <1>12

(* Who closes a voucher that is still out.                                 *)
LEMMA ClosesSound ==
  ASSUME IInv, VouchersSound, NEW v \in Vouchers, voucher[v] = "ISSUED",
         NEW s \in {"FULFILLED", "CANCELLED"}, Closes(v, s),
         stock' = IF s = "CANCELLED" THEN stock + 1 ELSE stock
  PROVE  VouchersSound'
<1>1. /\ voucher \in [Vouchers -> {"none", "ISSUED", "FULFILLED", "CANCELLED"}]
      /\ ends \in [Vouchers -> Nat] /\ stock \in Int /\ Stock \in Nat
      /\ voucher' = [voucher EXCEPT ![v] = s] /\ ends' = [ends EXCEPT ![v] = ends[v] + 1]
  BY ConstantTypes DEF IInv, TypeOK, Closes
<1>2. \A w \in Vouchers : ends'[w] = IF voucher'[w] \in {"none", "ISSUED"} THEN 0 ELSE 1
  BY <1>1 DEF VouchersSound
<1>3. IsFiniteSet(Out) /\ Cardinality(Out) + stock = Stock /\ v \in Out
  BY DEF VouchersSound, VouchersWithinStock, Out
<1>4. Cardinality(Out) \in Nat
  BY <1>3, FS_CardinalityType
<1>5. IsFiniteSet(Out') /\ Cardinality(Out') + stock' = Stock
  <2>1. CASE s = "FULFILLED"
    <3>1. Out' = Out
      BY <1>1, <2>1 DEF Out
    <3>2. QED
      BY <1>3, <2>1, <3>1
  <2>2. CASE s = "CANCELLED"
    <3>1. Out' = Out \ {v}
      BY <1>1, <2>2 DEF Out
    <3>2. IsFiniteSet(Out \ {v}) /\ Cardinality(Out \ {v}) = Cardinality(Out) - 1
      BY <1>3, FS_RemoveElement
    <3>3. QED
      BY <1>1, <1>3, <1>4, <2>2, <3>1, <3>2
  <2>3. QED
    BY <2>1, <2>2
<1>6. QED
  BY <1>2, <1>5 DEF VouchersSound, VouchersWithinStock, Out

LEMMA IssueSound ==
  ASSUME IInv, VouchersSound, NEW v \in Vouchers, voucher[v] = "none",
         voucher' = [voucher EXCEPT ![v] = "ISSUED"], stock' = stock - 1, UNCHANGED ends
  PROVE  VouchersSound'
<1>1. /\ voucher \in [Vouchers -> {"none", "ISSUED", "FULFILLED", "CANCELLED"}]
      /\ ends \in [Vouchers -> Nat] /\ stock \in Int /\ Stock \in Nat
  BY ConstantTypes DEF IInv, TypeOK
<1>2. \A w \in Vouchers : ends'[w] = IF voucher'[w] \in {"none", "ISSUED"} THEN 0 ELSE 1
  BY <1>1 DEF VouchersSound
<1>3. IsFiniteSet(Out) /\ Cardinality(Out) + stock = Stock /\ v \notin Out
  BY DEF VouchersSound, VouchersWithinStock, Out
<1>4. Cardinality(Out) \in Nat
  BY <1>3, FS_CardinalityType
<1>5. Out' = Out \cup {v}
  BY <1>1 DEF Out
<1>6. IsFiniteSet(Out \cup {v}) /\ Cardinality(Out \cup {v}) = Cardinality(Out) + 1
  BY <1>3, FS_AddElement
<1>7. IsFiniteSet(Out') /\ Cardinality(Out') + stock' = Stock
  BY <1>1, <1>3, <1>4, <1>5, <1>6
<1>8. QED
  BY <1>2, <1>7 DEF VouchersSound, VouchersWithinStock, Out

LEMMA SoundStays ==
  ASSUME AloneInv, UNCHANGED catalogue PROVE VouchersSound'
  BY DEF AloneInv, catalogue, VouchersSound, VouchersWithinStock, Out

LEMMA BudgetStays ==
  ASSUME AloneInv, UNCHANGED spent PROVE WithinBudget'
  BY DEF AloneInv, WithinBudget

LEMMA AloneWrite ==
  ASSUME OneAtATime, IInv, AloneInv, NEW h \in Handlers,
         \/ CommitAward(h) \/ CommitBonus(h) \/ Commit(h)
         \/ CancelVoucher(h) \/ Fulfill(h) \/ \E v \in Vouchers : Issue(h, v)
  PROVE  AloneInv'
<1> DEFINE t == task[h]
           c == task[h].customer
           n == task[h].points
<1>1. /\ Fresh(t, balance, lifetime, stock, spent, voucher) /\ TaskSound(t)
      /\ NoDrift /\ VouchersSound /\ WithinBudget
      /\ balance \in [Customers -> Int] /\ lifetime \in [Customers -> Nat]
      /\ spent \in Nat /\ stock \in Int
  BY DEF AloneInv, IInv, TypeOK
<1>2. /\ n \in Int /\ Cost \in Int
      /\ t.op # "idle" => c \in Customers
  BY <1>1, ConstantTypes DEF TaskSound, TaskType
<1>3. \A b, l, s, p, v : Fresh(Idle, b, l, s, p, v)
  BY IdleIsFresh
<1>4. CASE CommitAward(h)
  <2> DEFINE r == Row(c, "EARN", n, FALSE)
             g == Task("promotion", c, "none", 0, 0, 0)
  <2>1. /\ Doing(h, "award") /\ Books("EARN", r, balance[c] + n) /\ Goes(h, g)
        /\ lifetime' = [lifetime EXCEPT ![c] = t.also + n]
        /\ UNCHANGED <<catalogue, promotion>>
    BY <1>4 DEF CommitAward
  <2>2. c \in Customers /\ t.also = lifetime[c]
    BY <1>1, <1>2, <2>1 DEF Doing, Fresh
  <2>3. r \in RowSet /\ r.customer = c /\ r.points = n /\ r.type = "EARN"
    BY <1>2, <2>2 DEF Row, RowSet, RowTypes
  <2>4. Fresh(g, balance', lifetime', stock', spent', voucher')
    BY DEF Fresh, Task
  <2>5. VouchersSound' /\ WithinBudget'
    BY <2>1, SoundStays, BudgetStays DEF promotion
  <2>6. lifetime' = [lifetime EXCEPT ![r.customer] = lifetime[r.customer] + r.points]
    BY <2>1, <2>2, <2>3
  <2>7. Books("EARN", r, balance[r.customer] + r.points)
    BY <2>1, <2>3
  <2> HIDE DEF r, g
  <2>8. QED
    BY <2>1, <2>3, <2>4, <2>5, <2>6, <2>7, AloneBooks
<1>5. CASE CommitBonus(h)
  <2> DEFINE r == Row(c, "EARN", n, FALSE)
  <2>1. /\ Doing(h, "bonus") /\ Books("EARN", r, balance[c] + n) /\ Goes(h, Idle)
        /\ lifetime' = [lifetime EXCEPT ![c] = lifetime[c] + n]
        /\ spent' = spent + n
        /\ UNCHANGED catalogue
    BY <1>5 DEF CommitBonus, Ends
  <2>2. c \in Customers /\ spent + n <= Budget
    BY <1>1, <1>2, <2>1 DEF Doing, Fresh
  <2>3. r \in RowSet /\ r.customer = c /\ r.points = n /\ r.type = "EARN"
    BY <1>2, <2>2 DEF Row, RowSet, RowTypes
  <2>4. VouchersSound' /\ WithinBudget'
    BY <2>1, <2>2, SoundStays DEF WithinBudget
  <2>5. lifetime' = [lifetime EXCEPT ![r.customer] = lifetime[r.customer] + r.points]
    BY <2>1, <2>3
  <2>6. Books("EARN", r, balance[r.customer] + r.points)
    BY <2>1, <2>3
  <2> HIDE DEF r
  <2>7. QED
    BY <1>3, <2>1, <2>3, <2>4, <2>5, <2>6, AloneBooks
<1>6. CASE Commit(h)
  <2> DEFINE r == Row(c, t.op, n, t.also = 1)
  <2>1. /\ t.op \in {"REDEEM", "ADJUST", "EXPIRE"} /\ Books(t.op, r, t.seen + n) /\ Goes(h, Idle)
        /\ UNCHANGED <<lifetime, catalogue, promotion>>
    BY <1>6 DEF Commit, Ends
  <2>2. c \in Customers /\ t.seen = balance[c] /\ t.op \in RowTypes
    BY <1>1, <1>2, <2>1 DEF Fresh, RowTypes
  <2>3. r \in RowSet /\ r.customer = c /\ r.points = n /\ r.type # "EARN"
    BY <1>2, <2>1, <2>2 DEF Row, RowSet, RowTypes
  <2>4. VouchersSound' /\ WithinBudget'
    BY <2>1, SoundStays, BudgetStays DEF promotion
  <2>5. Books(t.op, r, balance[r.customer] + r.points)
    BY <2>1, <2>2, <2>3
  <2> HIDE DEF r
  <2>6. QED
    BY <1>3, <2>1, <2>3, <2>4, <2>5, AloneBooks
<1>7. CASE CancelVoucher(h)
  <2> DEFINE r == Row(c, "ADJUST", Cost, TRUE)
  <2>1. /\ Doing(h, "cancel") /\ Books("REDEEM_REVERSAL", r, balance[c] + Cost) /\ Goes(h, Idle)
        /\ Closes(t.voucher, "CANCELLED") /\ stock' = stock + 1
        /\ UNCHANGED <<lifetime, promotion>>
    BY <1>7 DEF CancelVoucher, Ends
  <2>2. c \in Customers /\ t.voucher \in Vouchers /\ voucher[t.voucher] = "ISSUED"
    BY <1>1, <1>2, <2>1 DEF Doing, Fresh, TaskSound
  <2>3. r \in RowSet /\ r.customer = c /\ r.points = Cost /\ r.type # "EARN"
    BY <1>2, <2>2 DEF Row, RowSet, RowTypes
  <2>4. VouchersSound' /\ WithinBudget'
    BY <1>1, <2>1, <2>2, ClosesSound, BudgetStays DEF promotion
  <2>5. Books("REDEEM_REVERSAL", r, balance[r.customer] + r.points)
    BY <2>1, <2>3
  <2> HIDE DEF r
  <2>6. QED
    BY <1>3, <2>1, <2>3, <2>4, <2>5, AloneBooks
<1>8. ASSUME NEW v \in Vouchers, Issue(h, v) PROVE AloneInv'
  <2> DEFINE r == Row(c, "REDEEM", -Cost, FALSE)
  <2>1. /\ Doing(h, "voucher") /\ Books("REDEEM", r, t.seen - Cost) /\ Goes(h, Idle)
        /\ voucher[v] = "none" /\ voucher' = [voucher EXCEPT ![v] = "ISSUED"]
        /\ stock' = t.also - 1 /\ UNCHANGED ends
        /\ UNCHANGED <<lifetime, promotion>>
    BY <1>8 DEF Issue, Ends
  <2>2. c \in Customers /\ t.seen = balance[c] /\ t.also = stock
    BY <1>1, <1>2, <2>1 DEF Doing, Fresh
  <2>3. r \in RowSet /\ r.customer = c /\ r.points = -Cost /\ r.type # "EARN"
    BY <1>2, <2>2 DEF Row, RowSet, RowTypes
  <2>4. VouchersSound' /\ WithinBudget'
    BY <1>1, <2>1, <2>2, IssueSound, BudgetStays DEF promotion
  <2>5. balance[c] \in Int /\ t.seen - Cost = balance[r.customer] + r.points
    BY <1>1, <1>2, <2>2, <2>3
  <2>6. Books("REDEEM", r, balance[r.customer] + r.points)
    BY <2>1, <2>5
  <2> HIDE DEF r
  <2>7. QED
    BY <1>3, <2>1, <2>3, <2>4, <2>6, AloneBooks
<1>9. CASE Fulfill(h)
  <2>1. /\ Doing(h, "fulfill") /\ Goes(h, Idle) /\ Closes(t.voucher, "FULFILLED")
        /\ UNCHANGED <<accounts, stock, promotion>>
    BY <1>9 DEF Fulfill, Ends
  <2>2. t.voucher \in Vouchers /\ voucher[t.voucher] = "ISSUED"
    BY <1>1, <2>1 DEF Doing, Fresh, TaskSound
  <2>3. VouchersSound' /\ WithinBudget'
    BY <1>1, <2>1, <2>2, ClosesSound, BudgetStays DEF promotion
  <2>4. NoDrift' /\ LifetimeIsEarned'
    BY <2>1 DEF AloneInv, NoDrift, LifetimeIsEarned, accounts
  <2>5. \A g \in Handlers : Fresh(task'[g], balance', lifetime', stock', spent', voucher')
    BY <1>3, <2>1, AllFresh
  <2>6. QED
    BY <2>3, <2>4, <2>5 DEF AloneInv
<1>10. QED
  BY <1>4, <1>5, <1>6, <1>7, <1>8, <1>9

LEMMA AloneNext == OneAtATime /\ IInv /\ AloneInv /\ [Next]_vars => AloneInv'
<1> SUFFICES ASSUME OneAtATime, IInv, AloneInv, [Next]_vars PROVE AloneInv'
  OBVIOUS
<1>1. CASE Age \/ (\E i \in DOMAIN rows : Backfill(i)) \/ UNCHANGED vars
  <2>1. UNCHANGED <<balance, lifetime, rows, catalogue, promotion, task>>
    BY <1>1 DEF Age, Backfill, accounts, catalogue, promotion, vars
  <2>2. VouchersSound' /\ WithinBudget'
    BY <2>1, SoundStays, BudgetStays DEF promotion
  <2>3. QED
    BY <2>1, <2>2 DEF AloneInv, NoDrift, LifetimeIsEarned, catalogue, promotion
<1>2. ASSUME NEW h \in Handlers,
             \/ CommitAward(h) \/ CommitBonus(h) \/ Commit(h)
             \/ CancelVoucher(h) \/ Fulfill(h) \/ \E v \in Vouchers : Issue(h, v)
      PROVE  AloneInv'
  BY <1>2, AloneWrite
<1>3. ASSUME NEW h \in Handlers,
             \/ \E p \in Payments, n \in Earns : ReadAward(h, p, n)
             \/ \E c \in Customers : Mutate(h, c) \/ ReadExpiry(h, c) \/ ReadReward(h, c)
             \/ \E v \in Vouchers : ReadVoucher(h, v, "fulfill") \/ ReadVoucher(h, v, "cancel")
             \/ ReadPromotion(h) \/ FindExpirable(h) \/ ReadHolder(h) \/ Abort(h)
      PROVE  AloneInv'
  BY <1>3, AloneRead
<1>4. QED
  BY <1>1, <1>2, <1>3 DEF Next

(* Handlers that do not overlap keep every promise the concurrent ones     *)
(* break: the balance is the sum of the movements, the lifetime what was   *)
(* earned, vouchers and stock make up the rewards there were, a voucher    *)
(* is worth something once, and a promotion stays within its budget.       *)
THEOREM AloneNothingDrifts ==
  ASSUME OneAtATime
  PROVE  Spec => [](/\ NoDrift /\ LifetimeIsEarned
                    /\ VouchersWithinStock /\ VoucherEndsOnce /\ WithinBudget)
<1>1. Init => AloneInv
  BY AloneInit
<1>2. IInv /\ AloneInv /\ [Next]_vars => AloneInv'
  BY AloneNext
<1>3. AloneInv => /\ NoDrift /\ LifetimeIsEarned
                  /\ VouchersWithinStock /\ VoucherEndsOnce /\ WithinBudget
  BY DEF AloneInv, VouchersSound, VoucherEndsOnce
<1>4. QED
  BY <1>1, <1>2, <1>3, Invariance, PTL DEF Spec
=============================================================================
