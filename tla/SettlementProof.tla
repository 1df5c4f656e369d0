---------------------------- MODULE SettlementProof ----------------------------
(***************************************************************************)
(* Proofs about Settlement, for any payments, amounts, fee, runs, payouts  *)
(* and failures.                                                           *)
(***************************************************************************)
EXTENDS Settlement, TLAPS

(* At most one run is in the transaction of a day, and one in a payout.    *)
OneHolder ==
  /\ \A g, h \in Handlers :
        pc[g] = "claim" /\ pc[h] = "claim" /\ job[g].day = job[h].day => g = h
  /\ \A g, h \in Handlers : pc[g] = "pay" /\ pc[h] = "pay" => g = h

(* What a run in its transaction has read is still so, or was less.        *)
RunSound(h) ==
  /\ job[h].day \in Days
  /\ job[h].sheet = statement[job[h].day]
  /\ \A p \in job[h].fresh :
        day[p] = job[h].day /\ batch[p] = 0 /\ job[h].seen[p] <= refunded[p]

RunsSound == \A h \in Handlers : pc[h] = "claim" => RunSound(h)

(* The line of a payment in the statement of a day.                        *)
LineSound(p, d) ==
  IF batch[p] = d
    THEN /\ statement[d][p].times = 1
         /\ statement[d][p].refund + late[p] <= refunded[p]
         /\ statement[d][p].fee = FeeOf(Amount[p], statement[d][p].refund)
    ELSE statement[d][p] = NoLine

LinesSound ==
  \A p \in Payments :
     /\ batch[p] \in {0, day[p]}
     /\ batch[p] = 0 => late[p] = 0
     /\ \A d \in Days : LineSound(p, d)

PayoutsSound ==
  /\ paidOut <= credits + Tol
  /\ \A h \in Handlers : pc[h] = "pay" => paidOut + job[h].value <= credits + Tol

(* The journals of a payment, added up.                                    *)
BooksSound ==
  \A p \in Payments :
     /\ unposted[p] <= refunded[p]
     /\ position[p] = (IF p \in charged THEN NetOf(Amount[p]) ELSE 0) - NetOf(refunded[p] - unposted[p])

IInv ==
  /\ TypeOK
  /\ OneHolder
  /\ RunsSound
  /\ LinesSound
  /\ PayoutsSound
  /\ BooksSound

-----------------------------------------------------------------------------
(* Arithmetic.                                                             *)
LEMMA NetNat == ASSUME NEW a \in Nat PROVE NetOf(a) \in Nat
<1>1. Scale - Rate \in Nat
  BY SettlementAssumption DEF SettlementAssumption
<1> DEFINE k == Scale - Rate
<1>2. k \in Nat
  BY <1>1
<1> HIDE DEF k
<1>3. a * k \in Nat
  BY <1>2
<1>4. QED
  BY <1>3 DEF NetOf, k

LEMMA NetAdds == ASSUME NEW a \in Int, NEW b \in Int PROVE NetOf(a + b) = NetOf(a) + NetOf(b)
<1> DEFINE k == Scale - Rate
<1>1. k \in Int
  BY SettlementAssumption DEF SettlementAssumption
<1> HIDE DEF k
<1>2. (a + b) * k = a * k + b * k
  BY <1>1
<1>3. QED
  BY <1>2 DEF NetOf, k

LEMMA FeeNat == ASSUME NEW a \in Nat, NEW r \in Nat, r <= a PROVE FeeOf(a, r) \in Nat
<1>1. Rate \in Nat /\ a - r \in Nat
  BY SettlementAssumption DEF SettlementAssumption
<1> DEFINE v == a - r
<1> HIDE DEF v
<1>2. v \in Nat
  BY <1>1 DEF v
<1>3. v * Rate \in Nat
  BY <1>1, <1>2
<1>4. QED
  BY <1>3 DEF FeeOf, v

(* What the fee leaves of an amount that was partly refunded.              *)
LEMMA NetOfFee ==
  ASSUME NEW a \in Nat, NEW r \in Nat
  PROVE  (a - r) * Scale - FeeOf(a, r) = NetOf(a) - NetOf(r)
<1>1. Rate \in Int /\ Scale \in Int
  BY SettlementAssumption DEF SettlementAssumption
<1>2. a * (Scale - Rate) = a * Scale - a * Rate /\ r * (Scale - Rate) = r * Scale - r * Rate
  BY <1>1
<1>3. (a - r) * Scale = a * Scale - r * Scale /\ (a - r) * Rate = a * Rate - r * Rate
  BY <1>1
<1>4. QED
  BY <1>1, <1>2, <1>3 DEF FeeOf, NetOf

-----------------------------------------------------------------------------
(* The reads of a run.                                                     *)
LEMMA JobFields ==
  ASSUME NEW j \in Job
  PROVE  /\ j.todo \in SUBSET Payments /\ j.day \in 0 .. MaxDay /\ j.fresh \in SUBSET Payments
         /\ j.seen \in [Payments -> Nat] /\ j.sheet \in [Payments -> Line] /\ j.value \in Nat
  BY DEF Job

LEMMA JobType ==
  /\ NoJob \in Job
  /\ \A L \in SUBSET Payments : [NoJob EXCEPT !.todo = L] \in Job
  /\ \A v \in Nat : [NoJob EXCEPT !.value = v] \in Job /\ [NoJob EXCEPT !.value = v].value = v
<1>1. NoLine \in Line
  BY DEF NoLine, Line
<1>2. 0 \in 0 .. MaxDay
  BY SettlementAssumption DEF SettlementAssumption
<1>3. QED
  BY <1>1, <1>2 DEF NoJob, Job

(* A handler that moves keeps the types.                                   *)
LEMMA HandlerTyped ==
  ASSUME IInv, NEW h \in Handlers, NEW l \in {"idle", "groups", "claim", "pay"}, NEW j \in Job,
         pc' = [pc EXCEPT ![h] = l], job' = [job EXCEPT ![h] = j]
  PROVE  /\ pc' \in [Handlers -> {"idle", "groups", "claim", "pay"}]
         /\ job' \in [Handlers -> Job]
         /\ pc'[h] = l /\ job'[h] = j
         /\ \A g \in Handlers : g # h => pc'[g] = pc[g] /\ job'[g] = job[g]
  BY DEF IInv, TypeOK

(* A handler that holds no lock afterwards, and moved no money.            *)
LEMMA HandlerLeaves ==
  ASSUME IInv, NEW h \in Handlers, NEW l \in {"idle", "groups"}, NEW j \in Job,
         pc' = [pc EXCEPT ![h] = l], job' = [job EXCEPT ![h] = j],
         UNCHANGED <<today, money, sheets, books>>, faults' \in 0 .. MaxFaults
  PROVE  IInv'
<1> USE DEF money, sheets, books
<1>1. TypeOK'
  BY HandlerTyped DEF IInv, TypeOK
<1>0. /\ pc'[h] = l /\ \A g \in Handlers : g # h => pc'[g] = pc[g] /\ job'[g] = job[g]
      /\ l # "claim" /\ l # "pay"
  BY HandlerTyped
<1>2. OneHolder'
  BY <1>0 DEF IInv, OneHolder
<1>3. RunsSound'
  <2> SUFFICES ASSUME NEW g \in Handlers, pc'[g] = "claim" PROVE RunSound(g)'
    BY DEF RunsSound
  <2>1. g # h /\ pc[g] = "claim" /\ job'[g] = job[g]
    BY <1>0
  <2>2. QED
    BY <2>1 DEF IInv, RunsSound, RunSound
<1>4. LinesSound'
  BY DEF IInv, LinesSound, LineSound
<1>5. PayoutsSound'
  BY HandlerTyped DEF IInv, PayoutsSound
<1>6. BooksSound'
  BY DEF IInv, BooksSound
<1>7. QED
  BY <1>1, <1>2, <1>3, <1>4, <1>5, <1>6 DEF IInv

LEMMA HandlerFinishes ==
  ASSUME IInv, NEW h \in Handlers, Finish(h),
         UNCHANGED <<today, money, sheets, books>>, faults' \in 0 .. MaxFaults
  PROVE  IInv'
  BY HandlerLeaves, JobType DEF Finish, Goto

(* After its last group a run is idle, before it among its groups.         *)
LEMMA NextGroupMoves ==
  ASSUME NEW h \in Handlers, NEW rest \in SUBSET Payments, NextGroup(h, rest)
  PROVE  \E l \in {"idle", "groups"}, j \in Job :
            pc' = [pc EXCEPT ![h] = l] /\ job' = [job EXCEPT ![h] = j]
<1>1. CASE rest = {}
  BY <1>1, JobType DEF NextGroup, Finish, Goto
<1>2. CASE rest # {}
  BY <1>2, JobType DEF NextGroup, Goto
<1>3. QED
  BY <1>1, <1>2

-----------------------------------------------------------------------------
LEMMA InitInv == Init => IInv
<1> SUFFICES ASSUME Init PROVE IInv
  OBVIOUS
<1> USE SettlementAssumption DEF SettlementAssumption, Init
<1>0. NoLine \in Line
  BY DEF NoLine, Line
<1>1. TypeOK
  <2>1. today \in Days /\ faults \in 0 .. MaxFaults
    BY DEF Days
  <2>2. /\ day \in [Payments -> 0 .. MaxDay] /\ batch \in [Payments -> 0 .. MaxDay]
        /\ refunded \in [Payments -> Nat] /\ late \in [Payments -> Nat]
        /\ unposted \in [Payments -> Nat] /\ position \in [Payments -> Int]
    OBVIOUS
  <2>3. \A p \in Payments : refunded[p] <= Amount[p]
    OBVIOUS
  <2>4. statement \in [Days -> [Payments -> Line]]
    BY <1>0
  <2>5. pc \in [Handlers -> {"idle", "groups", "claim", "pay"}] /\ job \in [Handlers -> Job]
    BY JobType
  <2>6. QED
    BY <2>1, <2>2, <2>3, <2>4, <2>5 DEF TypeOK
<1>2. OneHolder /\ RunsSound
  BY DEF OneHolder, RunsSound
<1>3. LinesSound
  BY DEF LinesSound, LineSound, Days
<1>4. PayoutsSound
  BY DEF PayoutsSound
<1>5. BooksSound
  <2>1. NetOf(0) = 0
    BY DEF NetOf
  <2>2. QED
    BY <2>1 DEF BooksSound
<1>6. QED
  BY <1>1, <1>2, <1>3, <1>4, <1>5 DEF IInv

-----------------------------------------------------------------------------
LEMMA PassDayInv == IInv /\ PassDay => IInv'
<1> SUFFICES ASSUME IInv, PassDay PROVE IInv'
  OBVIOUS
<1> USE DEF PassDay, money, sheets, books
<1>1. TypeOK'
  BY SettlementAssumption DEF IInv, TypeOK, Days, SettlementAssumption
<1>2. OneHolder' /\ RunsSound'
  BY DEF IInv, OneHolder, RunsSound, RunSound
<1>3. LinesSound' /\ PayoutsSound' /\ BooksSound'
  BY DEF IInv, LinesSound, LineSound, PayoutsSound, BooksSound
<1>4. QED
  BY <1>1, <1>2, <1>3 DEF IInv

LEMMA CaptureInv == ASSUME IInv, NEW p \in Payments, NEW d \in Days, Capture(p, d) PROVE IInv'
<1> USE DEF Capture, sheets, books
<1>1. TypeOK'
  BY DEF IInv, TypeOK, Days
<1>2. \A q \in Payments : day[q] # 0 => day'[q] = day[q]
  BY DEF IInv, TypeOK
<1>3. OneHolder'
  BY DEF IInv, OneHolder
<1>4. RunsSound'
  <2> SUFFICES ASSUME NEW h \in Handlers, pc[h] = "claim" PROVE RunSound(h)'
    BY DEF RunsSound
  <2>1. RunSound(h) /\ job[h] \in Job
    BY DEF IInv, RunsSound, TypeOK
  <2>2. job[h].fresh \subseteq Payments
    BY <2>1, JobFields
  <2>3. QED
    BY <1>2, <2>1, <2>2 DEF RunSound, Days
<1>5. LinesSound'
  <2> SUFFICES ASSUME NEW q \in Payments
               PROVE  /\ batch[q] \in {0, day'[q]}
                      /\ batch[q] = 0 => late[q] = 0
                      /\ \A e \in Days : LineSound(q, e)
    BY DEF LinesSound, LineSound
  <2>1. QED
    BY <1>2 DEF IInv, LinesSound
<1>6. PayoutsSound' /\ BooksSound'
  BY DEF IInv, PayoutsSound, BooksSound
<1>7. QED
  BY <1>1, <1>3, <1>4, <1>5, <1>6 DEF IInv

LEMMA RefundInv ==
  ASSUME IInv, NEW p \in Payments, NEW a \in 1 .. Amount[p], Refund(p, a) PROVE IInv'
<1> USE DEF Refund, sheets
<1>0. Amount[p] \in Nat /\ a \in Nat
  BY SettlementAssumption DEF SettlementAssumption
<1>1. TypeOK'
  BY <1>0, SettlementAssumption DEF IInv, TypeOK, SettlementAssumption
<1>2. /\ refunded'[p] = refunded[p] + a /\ unposted'[p] = unposted[p] + a
      /\ late'[p] = IF batch[p] = 0 THEN late[p] ELSE late[p] + a
      /\ \A q \in Payments : q # p => /\ refunded'[q] = refunded[q] /\ late'[q] = late[q]
                                      /\ unposted'[q] = unposted[q]
      /\ refunded[p] \in Nat /\ late[p] \in Nat /\ unposted[p] \in Nat
  BY DEF IInv, TypeOK
<1>3. OneHolder' /\ PayoutsSound'
  BY DEF IInv, OneHolder, PayoutsSound
<1>4. RunsSound'
  <2> SUFFICES ASSUME NEW h \in Handlers, pc[h] = "claim" PROVE RunSound(h)'
    BY DEF RunsSound
  <2>1. RunSound(h) /\ job[h] \in Job
    BY DEF IInv, RunsSound, TypeOK
  <2>2. /\ job[h].fresh \subseteq Payments
        /\ \A q \in job[h].fresh : job[h].seen[q] \in Nat
    BY <2>1, JobFields
  <2>3. \A q \in job[h].fresh : job[h].seen[q] <= refunded'[q]
    BY <1>0, <1>2, <2>1, <2>2 DEF RunSound
  <2>4. QED
    BY <2>1, <2>3 DEF RunSound
<1>5. LinesSound'
  <2>0. ASSUME NEW q \in Payments PROVE batch'[q] \in {0, day'[q]} /\ (batch'[q] = 0 => late'[q] = 0)
    BY <1>2 DEF IInv, LinesSound
  <2> SUFFICES ASSUME NEW q \in Payments, NEW d \in Days PROVE LineSound(q, d)'
    BY <2>0 DEF LinesSound
  <2>1. LineSound(q, d)
    BY DEF IInv, LinesSound
  <2>2. statement[d][q].refund \in Nat
    BY DEF IInv, TypeOK, Line
  <2>3. d # 0
    BY DEF Days
  <2>4. batch[q] = d => statement[d][q].refund + late'[q] <= refunded'[q]
    BY <1>0, <1>2, <2>1, <2>2, <2>3 DEF LineSound
  <2>5. QED
    BY <1>2, <2>1, <2>4 DEF LineSound
<1>6. BooksSound'
  <2> SUFFICES ASSUME NEW q \in Payments
               PROVE  /\ unposted'[q] <= refunded'[q]
                      /\ refunded'[q] - unposted'[q] = refunded[q] - unposted[q]
    BY DEF IInv, BooksSound
  <2>1. QED
    BY <1>0, <1>2 DEF IInv, BooksSound
<1>7. QED
  BY <1>1, <1>3, <1>4, <1>5, <1>6 DEF IInv

LEMMA PostPaymentCapturedInv ==
  ASSUME IInv, NEW p \in Payments, PostPaymentCaptured(p) PROVE IInv'
<1> USE DEF PostPaymentCaptured, money, sheets
<1>1. NetOf(Amount[p]) \in Nat
  BY NetNat, SettlementAssumption DEF SettlementAssumption
<1> DEFINE n == NetOf(Amount[p])
<1>2. position' = [position EXCEPT ![p] = @ + n] /\ credits' = credits + n /\ n \in Nat
  BY <1>1
<1>3. TypeOK'
  <2> HIDE DEF n
  <2>1. position' \in [Payments -> Int] /\ credits' \in Nat
    BY <1>2 DEF IInv, TypeOK
  <2>2. QED
    BY <2>1 DEF IInv, TypeOK
<1>4. OneHolder' /\ RunsSound' /\ LinesSound'
  BY DEF IInv, OneHolder, RunsSound, RunSound, LinesSound, LineSound
<1>5. PayoutsSound'
  <2> HIDE DEF n
  <2>1. credits \in Nat /\ paidOut \in Nat /\ Tol \in Nat /\ \A h \in Handlers : job[h].value \in Nat
    BY JobFields, SettlementAssumption DEF IInv, TypeOK, SettlementAssumption
  <2>2. QED
    BY <1>2, <2>1 DEF IInv, PayoutsSound
<1>6. BooksSound'
  <2> SUFFICES ASSUME NEW q \in Payments
               PROVE  position'[q] = (IF q \in charged' THEN NetOf(Amount[q]) ELSE 0)
                                       - NetOf(refunded[q] - unposted[q])
    BY DEF IInv, BooksSound
  <2> DEFINE r == NetOf(refunded[q] - unposted[q])
  <2>1. r \in Nat
    <3>1. refunded[q] - unposted[q] \in Nat
      BY DEF IInv, TypeOK, BooksSound
    <3>2. QED
      BY <3>1, NetNat
  <2>2. position[q] = (IF q \in charged THEN NetOf(Amount[q]) ELSE 0) - r
    BY DEF IInv, BooksSound
  <2>3. position \in [Payments -> Int]
    BY DEF IInv, TypeOK
  <2> HIDE DEF n, r
  <2>4. CASE q = p
    <3>1. position[p] = 0 - r
      BY <2>2, <2>4
    <3>2. position'[p] = n - r
      BY <1>2, <2>1, <2>3, <3>1
    <3>3. p \in charged'
      OBVIOUS
    <3>4. QED
      BY <2>4, <3>2, <3>3 DEF n, r
  <2>5. CASE q # p
    <3>1. position'[q] = position[q] /\ (q \in charged' <=> q \in charged)
      BY <1>2, <2>3, <2>5
    <3>2. QED
      BY <2>2, <3>1 DEF r
  <2>6. QED
    BY <2>4, <2>5
<1>7. QED
  BY <1>3, <1>4, <1>5, <1>6 DEF IInv

LEMMA PostRefundInv ==
  ASSUME IInv, NEW p \in Payments, NEW a \in 1 .. Amount[p], PostRefund(p, a) PROVE IInv'
<1> USE DEF PostRefund, money, sheets
<1>0. /\ unposted \in [Payments -> Nat] /\ refunded \in [Payments -> Nat]
      /\ position \in [Payments -> Int] /\ debits \in Nat /\ a \in Nat
  BY SettlementAssumption DEF IInv, TypeOK, SettlementAssumption
<1> DEFINE n == NetOf(a)
<1>1. n \in Nat
  BY <1>0, NetNat
<1>2. position' = [position EXCEPT ![p] = @ - n] /\ debits' = debits + n
  OBVIOUS
<1>3. TypeOK'
  <2> HIDE DEF n
  <2>1. position' \in [Payments -> Int] /\ debits' \in Nat
    BY <1>0, <1>1, <1>2
  <2>2. unposted' \in [Payments -> Nat]
    BY <1>0
  <2>3. QED
    BY <2>1, <2>2 DEF IInv, TypeOK
<1>4. OneHolder' /\ RunsSound' /\ LinesSound' /\ PayoutsSound'
  BY DEF IInv, OneHolder, RunsSound, RunSound, LinesSound, LineSound, PayoutsSound
<1>5. BooksSound'
  <2> SUFFICES ASSUME NEW q \in Payments
               PROVE  /\ unposted'[q] <= refunded[q]
                      /\ position'[q] = (IF q \in charged THEN NetOf(Amount[q]) ELSE 0)
                                           - NetOf(refunded[q] - unposted'[q])
    BY DEF BooksSound
  <2> DEFINE c == IF q \in charged THEN NetOf(Amount[q]) ELSE 0
             b == refunded[q] - unposted[q]
             r == NetOf(b)
  <2>1. unposted[q] <= refunded[q] /\ position[q] = c - r
    BY DEF IInv, BooksSound
  <2>2. CASE q # p
    BY <1>0, <1>2, <2>1, <2>2
  <2>3. CASE q = p
    <3>1. unposted'[q] = unposted[q] - a /\ position'[q] = position[q] - n
      BY <1>0, <1>2, <2>3
    <3>2. refunded[q] - unposted'[q] = b + a /\ unposted'[q] <= refunded[q] /\ b \in Nat
      BY <1>0, <2>1, <3>1
    <3>3. NetOf(b + a) = r + n
      <4> HIDE DEF b
      <4>1. QED
        BY <1>0, <3>2, NetAdds
    <3>4. r \in Nat /\ c \in Nat
      <4> HIDE DEF b
      <4>1. r \in Nat
        BY <3>2, NetNat
      <4>2. c \in Nat
        BY NetNat, SettlementAssumption DEF SettlementAssumption
      <4>3. QED
        BY <4>1, <4>2
    <3>5. position'[q] = c - NetOf(b + a)
      <4> HIDE DEF c, r, n, b
      <4>1. QED
        BY <1>1, <2>1, <3>1, <3>3, <3>4
    <3>6. QED
      BY <3>2, <3>5
  <2>4. QED
    BY <2>2, <2>3
<1>6. QED
  BY <1>3, <1>4, <1>5 DEF IInv

-----------------------------------------------------------------------------
LEMMA ListInv ==
  ASSUME IInv, NEW h \in Handlers, NEW E \in SUBSET Payments, List(h, E) PROVE IInv'
<1>1. PICK L \in SUBSET E : job' = [job EXCEPT ![h] = [NoJob EXCEPT !.todo = L]]
  BY DEF List
<1>2. [NoJob EXCEPT !.todo = L] \in Job
  BY JobType
<1>3. faults' \in 0 .. MaxFaults
  BY DEF IInv, TypeOK, List
<1>4. QED
  BY <1>1, <1>2, <1>3, HandlerLeaves DEF List, Goto

LEMMA FailInv == ASSUME IInv, NEW h \in Handlers, Fail(h) PROVE IInv'
<1>1. faults' \in 0 .. MaxFaults
  BY SettlementAssumption DEF IInv, TypeOK, Fail, SettlementAssumption
<1>2. QED
  BY <1>1, HandlerFinishes DEF Fail

(* Under the lock a run knows the statement, and that nobody has claimed   *)
(* its payments.                                                           *)
LEMMA OpenGroupInv == ASSUME IInv, NEW h \in Handlers, NEW d \in Days, OpenGroup(h, d) PROVE IInv'
<1> DEFINE F == Fresh(GroupOf(h, d))
<1>1. faults' \in 0 .. MaxFaults /\ UNCHANGED <<today, money, sheets, books, faults>> /\ ~Locked(d)
  BY DEF IInv, TypeOK, OpenGroup
<1>2. job[h] \in Job /\ job[h].todo \in SUBSET Payments
  BY JobFields DEF IInv, TypeOK
<1>3. CASE F = {} /\ NextGroup(h, job[h].todo \ GroupOf(h, d))
  <2>1. \E l \in {"idle", "groups"}, j \in Job :
          pc' = [pc EXCEPT ![h] = l] /\ job' = [job EXCEPT ![h] = j]
    BY <1>2, <1>3, NextGroupMoves
  <2>2. QED
    BY <1>1, <2>1, HandlerLeaves
<1>4. CASE F # {} /\ ~(F = {} /\ NextGroup(h, job[h].todo \ GroupOf(h, d)))
  <2> DEFINE s == [p \in Payments |-> IF p \in F THEN refunded[p] ELSE 0]
             j == [job[h] EXCEPT !.day = d, !.fresh = F, !.sheet = statement[d], !.seen = s]
  <2>1. pc' = [pc EXCEPT ![h] = "claim"] /\ job' = [job EXCEPT ![h] = j]
    <3>1. job' = [job EXCEPT ![h].day = d, ![h].fresh = F, ![h].sheet = statement[d], ![h].seen = s]
      BY <1>4 DEF OpenGroup
    <3>2. job \in [Handlers -> Job]
      BY DEF IInv, TypeOK
    <3>3. QED
      BY <1>4, <3>1, <3>2 DEF OpenGroup, Goto
  <2>2. /\ F \in SUBSET Payments
        /\ \A p \in F : day[p] = d /\ batch[p] = 0
    BY <1>2 DEF Fresh, GroupOf
  <2>3. s \in [Payments -> Nat]
    BY DEF IInv, TypeOK
  <2>4. statement[d] \in [Payments -> Line] /\ d \in 0 .. MaxDay
    <3>1. statement \in [Days -> [Payments -> Line]]
      BY DEF IInv, TypeOK
    <3>2. d \in 0 .. MaxDay
      BY SettlementAssumption DEF Days, SettlementAssumption
    <3>3. QED
      BY <3>1, <3>2
  <2> HIDE DEF F, s
  <2>5. /\ j \in Job /\ j.day = d /\ j.fresh = F /\ j.sheet = statement[d] /\ j.seen = s
    BY <1>2, <2>2, <2>3, <2>4 DEF Job
  <2> HIDE DEF j
  <2>6. /\ pc' \in [Handlers -> {"idle", "groups", "claim", "pay"}]
        /\ job' \in [Handlers -> Job]
        /\ pc'[h] = "claim" /\ job'[h] = j
        /\ \A g \in Handlers : g # h => pc'[g] = pc[g] /\ job'[g] = job[g]
    BY <2>1, <2>5, HandlerTyped
  <2> USE DEF money, sheets, books
  <2>7. TypeOK'
    BY <1>1, <2>6 DEF IInv, TypeOK
  <2>8. OneHolder'
    <3>1. \A g \in Handlers : pc[g] = "claim" => job[g].day # d
      BY <1>1 DEF Locked
    <3>2. QED
      BY <2>5, <2>6, <3>1 DEF IInv, OneHolder
  <2>9. RunsSound'
    <3> SUFFICES ASSUME NEW g \in Handlers, pc'[g] = "claim" PROVE RunSound(g)'
      BY DEF RunsSound
    <3>1. CASE g = h
      <4>1. \A p \in F : j.seen[p] = refunded[p] /\ refunded[p] \in Nat
        BY <2>2, <2>5 DEF s, IInv, TypeOK
      <4>2. QED
        BY <1>1, <2>2, <2>5, <2>6, <3>1, <4>1 DEF RunSound
    <3>2. CASE g # h
      <4>1. RunSound(g) /\ job'[g] = job[g]
        BY <2>6, <3>2 DEF IInv, RunsSound
      <4>2. QED
        BY <1>1, <4>1 DEF RunSound
    <3>3. QED
      BY <3>1, <3>2
  <2>10. LinesSound' /\ BooksSound'
    BY <1>1 DEF IInv, LinesSound, LineSound, BooksSound
  <2>11. PayoutsSound'
    BY <1>1, <2>6 DEF IInv, PayoutsSound
  <2>12. QED
    BY <2>7, <2>8, <2>9, <2>10, <2>11 DEF IInv
<1>5. QED
  BY <1>3, <1>4 DEF OpenGroup

(* The payments a run claims are still unclaimed, and it alone writes the  *)
(* statement of its day.                                                   *)
LEMMA ClaimGroupInv == ASSUME IInv, NEW h \in Handlers, ClaimGroup(h) PROVE IInv'
<1> DEFINE j == job[h]
           d == j.day
           row(p) == [times  |-> j.sheet[p].times + 1,
                      refund |-> j.sheet[p].refund + j.seen[p],
                      fee    |-> j.sheet[p].fee + FeeOf(Amount[p], j.seen[p])]
<1>1. RunSound(h) /\ pc[h] = "claim"
  BY DEF ClaimGroup, IInv, RunsSound
<1>2. /\ d \in Days /\ d # 0 /\ j.sheet = statement[d] /\ j.fresh \in SUBSET Payments
      /\ \A p \in j.fresh : day[p] = d /\ batch[p] = 0 /\ j.seen[p] \in Nat /\ j.seen[p] <= refunded[p]
      /\ j.todo \in SUBSET Payments
  BY <1>1, JobFields DEF RunSound, IInv, TypeOK, Days
<1>3. Fresh(j.fresh) = j.fresh
  BY <1>2 DEF Fresh
<1>4. PICK l \in {"idle", "groups"}, k \in Job : pc' = [pc EXCEPT ![h] = l] /\ job' = [job EXCEPT ![h] = k]
  BY <1>2, NextGroupMoves DEF ClaimGroup
<1>5. /\ pc' \in [Handlers -> {"idle", "groups", "claim", "pay"}]
      /\ job' \in [Handlers -> Job]
      /\ pc'[h] = l /\ l # "claim" /\ l # "pay"
      /\ \A g \in Handlers : g # h => pc'[g] = pc[g] /\ job'[g] = job[g]
  BY <1>4, HandlerTyped
<1>6. UNCHANGED <<today, day, refunded, late, charged, unposted, position, credits, debits, paidOut, faults>>
  BY DEF ClaimGroup, money, books
<1>7. batch' = [p \in Payments |-> IF p \in j.fresh THEN d ELSE batch[p]]
  BY <1>3 DEF ClaimGroup
<1>8. \A p \in j.fresh : /\ row(p) = [times |-> 1, refund |-> j.seen[p], fee |-> FeeOf(Amount[p], j.seen[p])]
                        /\ FeeOf(Amount[p], j.seen[p]) \in Nat
                        /\ row(p) \in Line
  <2> SUFFICES ASSUME NEW p \in j.fresh
               PROVE  /\ row(p) = [times |-> 1, refund |-> j.seen[p], fee |-> FeeOf(Amount[p], j.seen[p])]
                      /\ FeeOf(Amount[p], j.seen[p]) \in Nat
                      /\ row(p) \in Line
    OBVIOUS
  <2>0. p \in Payments
    BY <1>2
  <2>1. statement[d][p] = NoLine
    BY <1>2, <2>0 DEF IInv, LinesSound, LineSound
  <2>2. j.sheet[p].times = 0 /\ j.sheet[p].refund = 0 /\ j.sheet[p].fee = 0
    BY <1>2, <2>1 DEF NoLine
  <2>3. FeeOf(Amount[p], j.seen[p]) \in Nat
    <3>1. Amount[p] \in Nat /\ refunded[p] \in Nat /\ refunded[p] <= Amount[p]
      BY <2>0, SettlementAssumption DEF IInv, TypeOK, SettlementAssumption
    <3>2. j.seen[p] \in Nat /\ j.seen[p] <= Amount[p]
      BY <1>2, <3>1
    <3>3. QED
      BY <3>1, <3>2, FeeNat
  <2>4. j.seen[p] \in Nat
    BY <1>2
  <2>5. QED
    BY <2>2, <2>3, <2>4 DEF Line
<1>9. statement' = [statement EXCEPT ![d] = [p \in Payments |-> IF p \in j.fresh THEN row(p) ELSE j.sheet[p]]]
  BY DEF ClaimGroup
<1>10. statement \in [Days -> [Payments -> Line]]
  BY DEF IInv, TypeOK
<1>11. /\ \A e \in Days : e # d => statement'[e] = statement[e]
       /\ \A p \in Payments : statement'[d][p] = IF p \in j.fresh THEN row(p) ELSE statement[d][p]
  BY <1>2, <1>9, <1>10
<1>12. TypeOK'
  <2> HIDE DEF row
  <2>1. statement' \in [Days -> [Payments -> Line]]
    BY <1>2, <1>8, <1>9, <1>10
  <2>2. batch' \in [Payments -> 0 .. MaxDay]
    BY <1>2, <1>7 DEF IInv, TypeOK, Days
  <2>3. QED
    BY <1>5, <1>6, <2>1, <2>2 DEF IInv, TypeOK
<1>13. OneHolder'
  BY <1>5 DEF IInv, OneHolder
<1>14. RunsSound'
  <2> SUFFICES ASSUME NEW g \in Handlers, pc'[g] = "claim" PROVE RunSound(g)'
    BY DEF RunsSound
  <2>1. g # h /\ pc[g] = "claim" /\ job'[g] = job[g]
    BY <1>5
  <2>2. RunSound(g) /\ job[g].day # d /\ job[g].fresh \subseteq Payments
    BY <1>1, <2>1, JobFields DEF IInv, RunsSound, OneHolder, TypeOK
  <2>3. \A p \in job[g].fresh : p \notin j.fresh
    BY <1>2, <2>2 DEF RunSound
  <2>4. \A p \in job[g].fresh : batch'[p] = 0
    BY <1>7, <2>2, <2>3 DEF RunSound
  <2>5. statement'[job[g].day] = statement[job[g].day]
    BY <1>11, <2>2 DEF RunSound
  <2>6. QED
    BY <1>6, <2>1, <2>2, <2>4, <2>5 DEF RunSound
<1>15. LinesSound'
  <2> SUFFICES ASSUME NEW p \in Payments
               PROVE  /\ batch'[p] \in {0, day[p]}
                      /\ batch'[p] = 0 => late[p] = 0
                      /\ \A e \in Days : LineSound(p, e)'
    BY <1>6 DEF LinesSound
  <2>1. /\ batch[p] \in {0, day[p]} /\ (batch[p] = 0 => late[p] = 0)
        /\ \A e \in Days : LineSound(p, e)
    BY DEF IInv, LinesSound
  <2>2. CASE p \in j.fresh
    <3>1. batch'[p] = d /\ batch[p] = 0 /\ day[p] = d /\ late[p] = 0
      BY <1>2, <1>7, <2>1, <2>2
    <3>2. \A e \in Days : e # d => statement'[e][p] = NoLine
      <4>1. \A e \in Days : e # 0
        BY DEF Days
      <4>2. QED
        BY <1>11, <2>1, <3>1, <4>1 DEF LineSound
    <3>3. statement'[d][p] = [times |-> 1, refund |-> j.seen[p], fee |-> FeeOf(Amount[p], j.seen[p])]
      BY <1>8, <1>11, <2>2
    <3>4. j.seen[p] + late'[p] <= refunded'[p]
      BY <1>2, <1>6, <2>2, <3>1 DEF IInv, TypeOK
    <3>5. \A e \in Days : LineSound(p, e)'
      BY <3>1, <3>2, <3>3, <3>4 DEF LineSound, FeeOf
    <3>6. QED
      BY <1>2, <3>1, <3>5
  <2>3. CASE p \notin j.fresh
    <3>1. batch'[p] = batch[p]
      BY <1>7, <2>3
    <3>2. \A e \in Days : statement'[e][p] = statement[e][p]
      BY <1>11, <2>3
    <3>3. QED
      BY <1>6, <2>1, <3>1, <3>2 DEF LineSound
  <2>4. QED
    BY <2>2, <2>3
<1>16. PayoutsSound'
  BY <1>5, <1>6 DEF IInv, PayoutsSound
<1>17. BooksSound'
  BY <1>6 DEF IInv, BooksSound
<1>18. QED
  BY <1>12, <1>13, <1>14, <1>15, <1>16, <1>17 DEF IInv

-----------------------------------------------------------------------------
(* A payout that was covered when it took the lock stays covered.          *)
LEMMA PayInv == ASSUME IInv, NEW a \in Admins, NEW v \in Asked, Pay(a, v) PROVE IInv'
<1> USE DEF money, sheets, books
<1>1. /\ credits \in Nat /\ debits \in Nat /\ paidOut \in Nat /\ Tol \in Nat /\ a \in Handlers
  BY SettlementAssumption DEF IInv, TypeOK, SettlementAssumption, Handlers
<1>2. v \in Nat /\ paidOut + v <= credits + Tol
  <2>1. v \in Nat
    BY SettlementAssumption DEF SettlementAssumption
  <2>2. QED
    BY <1>1, <2>1 DEF Pay, Covered, Owed
<1>3. UNCHANGED <<today, money, sheets, books, faults>> /\ \A g \in Handlers : pc[g] # "pay"
  BY DEF Pay
<1> DEFINE j == [NoJob EXCEPT !.value = v]
<1>4. j \in Job /\ j.value = v /\ pc' = [pc EXCEPT ![a] = "pay"] /\ job' = [job EXCEPT ![a] = j]
  BY <1>2, JobType DEF Pay, Goto
<1> HIDE DEF j
<1>5. /\ pc' \in [Handlers -> {"idle", "groups", "claim", "pay"}]
      /\ job' \in [Handlers -> Job]
      /\ pc'[a] = "pay" /\ job'[a] = j
      /\ \A g \in Handlers : g # a => pc'[g] = pc[g] /\ job'[g] = job[g]
  BY <1>1, <1>4, HandlerTyped
<1>6. TypeOK'
  BY <1>3, <1>5 DEF IInv, TypeOK
<1>7. OneHolder'
  BY <1>3, <1>5 DEF IInv, OneHolder
<1>8. RunsSound'
  <2> SUFFICES ASSUME NEW g \in Handlers, pc'[g] = "claim" PROVE RunSound(g)'
    BY DEF RunsSound
  <2>1. g # a /\ pc[g] = "claim" /\ job'[g] = job[g]
    BY <1>5
  <2>2. QED
    BY <1>3, <2>1 DEF IInv, RunsSound, RunSound
<1>9. LinesSound' /\ BooksSound'
  BY <1>3 DEF IInv, LinesSound, LineSound, BooksSound
<1>10. PayoutsSound'
  BY <1>2, <1>3, <1>4, <1>5 DEF IInv, PayoutsSound
<1>11. QED
  BY <1>6, <1>7, <1>8, <1>9, <1>10 DEF IInv

LEMMA PostPayoutInv == ASSUME IInv, NEW a \in Admins, PostPayout(a) PROVE IInv'
<1> USE DEF money, sheets
<1>1. a \in Handlers /\ pc[a] = "pay" /\ job[a].value \in Nat /\ paidOut \in Nat
  BY JobFields DEF IInv, TypeOK, Handlers, PostPayout
<1>2. /\ UNCHANGED <<today, day, refunded, late, batch, statement, charged, unposted, position,
                     credits, debits, faults>>
      /\ paidOut' = paidOut + job[a].value
      /\ pc' = [pc EXCEPT ![a] = "idle"] /\ job' = [job EXCEPT ![a] = NoJob]
  BY DEF PostPayout, Finish, Goto
<1>3. /\ pc' \in [Handlers -> {"idle", "groups", "claim", "pay"}]
      /\ job' \in [Handlers -> Job]
      /\ pc'[a] = "idle"
      /\ \A g \in Handlers : g # a => pc'[g] = pc[g] /\ job'[g] = job[g]
  BY <1>1, <1>2, JobType, HandlerTyped
<1>4. TypeOK'
  BY <1>1, <1>2, <1>3 DEF IInv, TypeOK
<1>5. OneHolder'
  BY <1>3 DEF IInv, OneHolder
<1>6. RunsSound'
  <2> SUFFICES ASSUME NEW g \in Handlers, pc'[g] = "claim" PROVE RunSound(g)'
    BY DEF RunsSound
  <2>1. g # a /\ pc[g] = "claim" /\ job'[g] = job[g]
    BY <1>3
  <2>2. QED
    BY <1>2, <2>1 DEF IInv, RunsSound, RunSound
<1>7. LinesSound' /\ BooksSound'
  BY <1>2 DEF IInv, LinesSound, LineSound, BooksSound
<1>8. PayoutsSound'
  <2>1. paidOut' <= credits' + Tol
    BY <1>1, <1>2 DEF IInv, PayoutsSound
  <2>2. \A h \in Handlers : pc'[h] # "pay"
    BY <1>1, <1>3 DEF IInv, OneHolder
  <2>3. QED
    BY <2>1, <2>2 DEF PayoutsSound
<1>9. QED
  BY <1>4, <1>5, <1>6, <1>7, <1>8 DEF IInv

-----------------------------------------------------------------------------
LEMMA StepInv == IInv /\ [Next]_vars => IInv'
<1> SUFFICES ASSUME IInv, [Next]_vars PROVE IInv'
  OBVIOUS
<1>1. CASE PassDay
  BY <1>1, PassDayInv
<1>2. ASSUME NEW p \in Payments, NEW d \in Days, Capture(p, d) PROVE IInv'
  BY <1>2, CaptureInv
<1>3. ASSUME NEW p \in Payments, NEW a \in 1 .. Amount[p], Refund(p, a) PROVE IInv'
  BY <1>3, RefundInv
<1>4. ASSUME NEW p \in Payments, PostPaymentCaptured(p) PROVE IInv'
  BY <1>4, PostPaymentCapturedInv
<1>5. ASSUME NEW p \in Payments, NEW a \in 1 .. Amount[p], PostRefund(p, a) PROVE IInv'
  BY <1>5, PostRefundInv
<1>6. ASSUME NEW w \in Workers, SettlementSweep(w) PROVE IInv'
  <2> DEFINE E == {p \in Unclaimed : day[p] < today}
  <2>1. E \in SUBSET Payments
    BY DEF Unclaimed, Captured
  <2>2. w \in Handlers /\ List(w, E)
    BY <1>6 DEF SettlementSweep, Handlers
  <2> HIDE DEF E
  <2>3. QED
    BY <2>1, <2>2, ListInv
<1>7. ASSUME NEW a \in Admins, SettleNow(a) PROVE IInv'
  <2>1. Unclaimed \in SUBSET Payments /\ a \in Handlers
    BY DEF Unclaimed, Captured, Handlers
  <2>2. QED
    BY <1>7, <2>1, ListInv DEF SettleNow
<1>8. ASSUME NEW a \in Admins, PostPayout(a) PROVE IInv'
  BY <1>8, PostPayoutInv
<1>9. ASSUME NEW a \in Admins, NEW v \in Asked, Pay(a, v) PROVE IInv'
  BY <1>9, PayInv
<1>10. ASSUME NEW h \in Handlers, NEW d \in Days, OpenGroup(h, d) PROVE IInv'
  BY <1>10, OpenGroupInv
<1>11. ASSUME NEW h \in Handlers, ClaimGroup(h) PROVE IInv'
  BY <1>11, ClaimGroupInv
<1>12. ASSUME NEW h \in Handlers, Fail(h) PROVE IInv'
  BY <1>12, FailInv
<1>13. CASE UNCHANGED vars
  <2> USE <1>13 DEF vars, money, sheets, books
  <2>1. TypeOK'
    BY DEF IInv, TypeOK
  <2>2. OneHolder' /\ RunsSound' /\ LinesSound' /\ PayoutsSound' /\ BooksSound'
    BY DEF IInv, OneHolder, RunsSound, RunSound, LinesSound, LineSound, PayoutsSound, BooksSound
  <2>3. QED
    BY <2>1, <2>2 DEF IInv
<1>14. QED
  BY <1>1, <1>2, <1>3, <1>4, <1>5, <1>6, <1>7, <1>8, <1>9, <1>10, <1>11, <1>12, <1>13
     DEF Next, Settle

LEMMA Invariance == Spec => []IInv
<1>1. QED
  BY InitInv, StepInv, PTL DEF Spec

-----------------------------------------------------------------------------
(* Every column and everything a run or a payout has read keeps its type,  *)
(* and no payment is refunded beyond its amount.                           *)
THEOREM TypeCorrect == Spec => []TypeOK
<1>1. IInv => TypeOK
  BY DEF IInv
<1>2. QED
  BY <1>1, Invariance, PTL

(* However many sweeps and requests settle the same days, and wherever     *)
(* they fail, each payment is counted once, in the statement of its day.   *)
THEOREM OnceInItsStatement == Spec => []CountedOnce
<1>1. IInv => CountedOnce
  <2> SUFFICES ASSUME IInv, NEW p \in Payments
               PROVE  /\ batch[p] \in {0, day[p]}
                      /\ \A d \in Days : statement[d][p].times = IF batch[p] = d THEN 1 ELSE 0
    BY DEF CountedOnce
  <2>1. batch[p] \in {0, day[p]} /\ \A d \in Days : LineSound(p, d)
    BY DEF IInv, LinesSound
  <2>2. QED
    BY <2>1 DEF LineSound, NoLine
<1>2. QED
  BY <1>1, Invariance, PTL

(* A statement shows no refund that was not made when its payment was      *)
(* claimed, whatever refunds commit beside the run.                        *)
THEOREM RefundsAreReal == Spec => []RefundsNotOverstated
<1>1. IInv => RefundsNotOverstated
  <2> SUFFICES ASSUME IInv, NEW p \in Payments, NEW d \in Days
               PROVE  statement[d][p].refund + late[p] <= refunded[p]
    BY DEF RefundsNotOverstated
  <2>1. LineSound(p, d) /\ (batch[p] = 0 => late[p] = 0) /\ batch[p] \in {0, day[p]}
    BY DEF IInv, LinesSound
  <2>2. late[p] \in Nat /\ refunded[p] \in Nat
    BY DEF IInv, TypeOK
  <2>3. CASE batch[p] = d
    BY <2>1, <2>3 DEF LineSound
  <2>4. CASE batch[p] # d
    <3>1. statement[d][p].refund = 0
      BY <2>1, <2>4 DEF LineSound, NoLine
    <3>2. CASE batch[p] = 0
      BY <2>1, <2>2, <3>1, <3>2
    <3>3. CASE batch[p] # 0
      <4>1. batch[p] \in Days
        BY <3>3, SettlementAssumption DEF IInv, TypeOK, Days, SettlementAssumption
      <4>2. /\ statement[batch[p]][p].refund + late[p] <= refunded[p]
            /\ statement[batch[p]][p].refund \in Nat
        BY <4>1 DEF IInv, LinesSound, LineSound, TypeOK, Line
      <4>3. QED
        BY <2>2, <3>1, <4>2
    <3>4. QED
      BY <3>2, <3>3
  <2>5. QED
    BY <2>3, <2>4
<1>2. QED
  BY <1>1, Invariance, PTL

(* The fee of the statements and that of the journals are one: where both  *)
(* have the same refunds, they leave the merchant the same, for every fee  *)
(* and every amount.                                                       *)
THEOREM BooksAgree == Spec => []StatementMatchesBooks
<1>1. IInv => StatementMatchesBooks
  <2> SUFFICES ASSUME IInv, NEW p \in charged, NEW d \in Days, batch[p] = d,
                      statement[d][p].refund = refunded[p] - unposted[p]
               PROVE  position[p] = (Amount[p] - statement[d][p].refund) * Scale - statement[d][p].fee
    BY DEF StatementMatchesBooks
  <2> DEFINE r == statement[d][p].refund
  <2>1. p \in Payments /\ r \in Nat /\ Amount[p] \in Nat
    BY SettlementAssumption DEF IInv, TypeOK, Line, SettlementAssumption
  <2>2. statement[d][p].fee = FeeOf(Amount[p], r)
    BY <2>1 DEF IInv, LinesSound, LineSound
  <2>3. position[p] = NetOf(Amount[p]) - NetOf(r)
    BY <2>1 DEF IInv, BooksSound
  <2> HIDE DEF r
  <2>4. (Amount[p] - r) * Scale - FeeOf(Amount[p], r) = NetOf(Amount[p]) - NetOf(r)
    BY <2>1, NetOfFee
  <2>5. QED
    BY <2>2, <2>3, <2>4 DEF r
<1>2. QED
  BY <1>1, Invariance, PTL

(* Whatever payouts are attempted together, and whatever refunds are       *)
(* posted beside them, they never take more than was credited, but for the *)
(* tolerance.                                                              *)
THEOREM PayoutsAreCovered == Spec => []PayoutsCovered
<1>1. IInv => PayoutsCovered
  BY DEF IInv, PayoutsSound, PayoutsCovered
<1>2. QED
  BY <1>1, Invariance, PTL
=============================================================================
