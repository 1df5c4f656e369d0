----------------------------- MODULE RefundsProof -----------------------------
(***************************************************************************)
(* Proofs about Refunds, for every amount and any number of requests.      *)
(*                                                                         *)
(* The inductive invariant says what a handler may rely on at each point   *)
(* of refund(): before the transaction only that its copy of               *)
(* refundedAmount is not ahead of the column, which is why the lock        *)
(* decides; after it, that its row is in the table.                        *)
(***************************************************************************)
EXTENDS Refunds, TLAPS

Labels == {"idle", "precheck", "read", "ask", "find", "tx", "post", "close", "emit"}

(* What a handler at label p with request q may rely on.                   *)
Sound(p, q) ==
  /\ p \in {"ask", "find", "tx"} => /\ q.amount \in 1 .. Amount
                                    /\ q.seen + q.amount <= Amount
                                    /\ q.seen <= refunded
  /\ p = "tx" /\ q.key \in records => q.seen < refunded
  /\ p \in {"post", "close", "emit"} => /\ q.row \in DOMAIN rows
                                        /\ rows[q.row].amount = q.amount
                                        /\ q.seen + q.amount <= refunded
  /\ p = "close" => q.seen + q.amount >= Amount

HandlersSound == \A h \in Handlers : Sound(pc[h], request[h])

KeysRecorded == \A i \in DOMAIN rows : rows[i].key \in Keys => rows[i].key \in records

KeysOnce == \A i, j \in DOMAIN rows : rows[i].key = rows[j].key /\ rows[i].key # NoKey => i = j

(* Every row gives something back, so the table is bounded by the amount.  *)
RowsBounded == Len(rows) <= refunded

ClosedIsWhole == status = "refunded" => refunded = Amount

BackfillBehind == backfill <= refunded

IInv ==
  /\ TypeOK
  /\ HandlersSound
  /\ KeysRecorded
  /\ KeysOnce
  /\ RowsBounded
  /\ ClosedIsWhole
  /\ BackfillBehind
  /\ RefundsAddUp
  /\ JournalsHaveRows

-----------------------------------------------------------------------------
LEMMA ReqType ==
  ASSUME NEW k \in Keys \cup {NoKey}, NEW b \in 0 .. Amount, NEW s \in 0 .. Amount,
         NEW a \in 0 .. Amount, NEW r \in 0 .. Amount
  PROVE  /\ Req(k, b, s, a, r) \in Requests
         /\ Req(k, b, s, a, r).key = k /\ Req(k, b, s, a, r).body = b
         /\ Req(k, b, s, a, r).seen = s /\ Req(k, b, s, a, r).amount = a
         /\ Req(k, b, s, a, r).row = r
  BY DEF Req, Requests, Bodies

LEMMA RequestFields ==
  ASSUME NEW q \in Requests
  PROVE  /\ q.key \in Keys \cup {NoKey} /\ q.body \in 0 .. Amount /\ q.seen \in 0 .. Amount
         /\ q.amount \in 0 .. Amount /\ q.row \in 0 .. Amount
  BY DEF Requests, Bodies

LEMMA NoRequestType == NoRequest \in Requests
  BY ReqType, RefundsAssumption DEF NoRequest, RefundsAssumption

(* A handler that moves while the money stays where it is.                 *)
LEMMA HandlerMoves ==
  ASSUME IInv, NEW h \in Handlers, NEW l \in Labels, NEW q \in Requests,
         pc' = [pc EXCEPT ![h] = l], request' = [request EXCEPT ![h] = q],
         UNCHANGED <<refunded, rows, records>>, Sound(l, q)
  PROVE  /\ pc' \in [Handlers -> Labels]
         /\ request' \in [Handlers -> Requests]
         /\ HandlersSound'
<1>1. pc \in [Handlers -> Labels] /\ request \in [Handlers -> Requests]
  BY DEF IInv, TypeOK, Labels
<1>2. pc' \in [Handlers -> Labels] /\ request' \in [Handlers -> Requests]
  BY <1>1
<1>3. ASSUME NEW g \in Handlers PROVE Sound(pc'[g], request'[g])
  <2>1. CASE g = h
    BY <1>1, <2>1
  <2>2. CASE g # h
    BY <1>1, <2>2 DEF IInv, HandlersSound
  <2>3. QED
    BY <2>1, <2>2
<1>4. HandlersSound'
  BY <1>3 DEF HandlersSound, Sound
<1>5. QED
  BY <1>2, <1>4

LEMMA HandlerLeaves ==
  ASSUME IInv, NEW h \in Handlers, Leave(h), UNCHANGED <<refunded, rows, records>>
  PROVE  /\ pc' \in [Handlers -> Labels]
         /\ request' \in [Handlers -> Requests]
         /\ HandlersSound'
<1>1. Sound("idle", NoRequest)
  BY DEF Sound
<1>2. QED
  BY <1>1, HandlerMoves, NoRequestType DEF Leave, Goto, Labels

(* A handler that moves and keeps its request.                             *)
LEMMA HandlerGoes ==
  ASSUME IInv, NEW h \in Handlers, NEW l \in Labels, Goto(h, l),
         UNCHANGED <<refunded, rows, records, request>>, Sound(l, request[h])
  PROVE  /\ pc' \in [Handlers -> Labels]
         /\ request' \in [Handlers -> Requests]
         /\ HandlersSound'
<1>1. request \in [Handlers -> Requests] /\ request[h] \in Requests
  BY DEF IInv, TypeOK
<1>2. request' = [request EXCEPT ![h] = request[h]]
  BY <1>1
<1>3. QED
  BY <1>1, <1>2, HandlerMoves DEF Goto

(* A step that moves no money and posts no journal.                        *)
LEMMA MoneySame ==
  ASSUME IInv, UNCHANGED <<status, refunded, rows, records, journal, backfill>>,
         pc' \in [Handlers -> Labels], request' \in [Handlers -> Requests], HandlersSound',
         asked' \in 0 .. Amount + 1, announced' \subseteq 1 .. Amount, faults' \in 0 .. MaxFaults
  PROVE  IInv'
<1>1. TypeOK'
  BY DEF IInv, TypeOK, Labels
<1>2. KeysRecorded' /\ KeysOnce' /\ RowsBounded' /\ ClosedIsWhole' /\ BackfillBehind'
  BY DEF IInv, KeysRecorded, KeysOnce, RowsBounded, ClosedIsWhole, BackfillBehind
<1>3. RefundsAddUp' /\ JournalsHaveRows'
  BY DEF IInv, RefundsAddUp, JournalsHaveRows
<1>4. QED
  BY <1>1, <1>2, <1>3 DEF IInv

LEMMA FaultType == ASSUME IInv, Fault PROVE faults' \in 0 .. MaxFaults
  BY RefundsAssumption DEF Fault, IInv, TypeOK, RefundsAssumption

-----------------------------------------------------------------------------
LEMMA InitInv == Init => IInv
<1> SUFFICES ASSUME Init PROVE IInv
  OBVIOUS
<1>1. TypeOK
  BY NoRequestType, RefundsAssumption DEF Init, TypeOK, RefundsAssumption
<1>2. HandlersSound
  BY DEF Init, HandlersSound, Sound
<1>3. KeysRecorded /\ KeysOnce /\ RowsBounded /\ ClosedIsWhole /\ BackfillBehind
  BY DEF Init, KeysRecorded, KeysOnce, RowsBounded, ClosedIsWhole, BackfillBehind
<1>4. RefundsAddUp /\ JournalsHaveRows
  BY RefundsAssumption DEF Init, RefundsAddUp, JournalsHaveRows, RefundsAssumption
<1>5. QED
  BY <1>1, <1>2, <1>3, <1>4 DEF IInv

(* Up to the transaction: nothing but the handler moves.                   *)
LEMMA RequestInv ==
  ASSUME IInv, NEW h \in Handlers,
         \/ \E k \in Keys \cup {NoKey}, b \in Bodies : Submit(h, k, b)
         \/ Precheck(h)
         \/ Read(h)
         \/ AskProvider(h)
         \/ Find(h)
         \/ LoseLock(h)
         \/ Emit(h)
         \/ ProviderFails(h)
         \/ Crash(h)
  PROVE  IInv'
<1> DEFINE Q == request[h]
<1>1. /\ Q \in Requests /\ faults \in 0 .. MaxFaults /\ asked \in 0 .. Amount + 1
      /\ announced \subseteq 1 .. Amount /\ Amount \in Nat \ {0}
      /\ refunded \in 0 .. Amount
      /\ Sound(pc[h], Q)
  BY RefundsAssumption DEF IInv, TypeOK, HandlersSound, RefundsAssumption
<1>2. /\ Q.key \in Keys \cup {NoKey} /\ Q.body \in 0 .. Amount /\ Q.seen \in 0 .. Amount
      /\ Q.amount \in 0 .. Amount /\ Q.row \in 0 .. Amount
  BY <1>1, RequestFields
<1>3. ASSUME NEW k \in Keys \cup {NoKey}, NEW b \in Bodies, Submit(h, k, b)
      PROVE  IInv'
  <2>1. Req(k, b, 0, 0, 0) \in Requests
    <3>1. b \in 0 .. Amount /\ 0 \in 0 .. Amount
      BY <1>1 DEF Bodies
    <3>2. QED
      BY <3>1, ReqType
  <2>2. Sound("precheck", Req(k, b, 0, 0, 0))
    BY DEF Sound
  <2>3. /\ pc' = [pc EXCEPT ![h] = "precheck"] /\ request' = [request EXCEPT ![h] = Req(k, b, 0, 0, 0)]
        /\ UNCHANGED <<money, outside, faults>>
    BY <1>3 DEF Submit, Goto
  <2>4. QED
    BY <1>1, <2>1, <2>2, <2>3, HandlerMoves, MoneySame DEF money, outside, Labels
<1>4. CASE Precheck(h)
  <2>1. Sound("read", Q)
    BY DEF Sound
  <2>2. UNCHANGED <<money, outside, faults>>
    BY <1>4 DEF Precheck
  <2>3. CASE Leave(h)
    BY <1>1, <2>2, <2>3, HandlerLeaves, MoneySame DEF money, outside
  <2>4. CASE Goto(h, "read") /\ UNCHANGED request
    BY <1>1, <2>1, <2>2, <2>4, HandlerGoes, MoneySame DEF money, outside, Labels
  <2>5. QED
    BY <1>4, <2>3, <2>4 DEF Precheck
<1>5. CASE Read(h)
  <2> DEFINE remaining == Amount - refunded
             a == Asked(Q.body, remaining)
             q == Req(Q.key, Q.body, refunded, a, 0)
  <2>1. UNCHANGED <<money, outside, faults>>
    BY <1>5 DEF Read
  <2>2. CASE Leave(h)
    BY <1>1, <2>1, <2>2, HandlerLeaves, MoneySame DEF money, outside
  <2>3. CASE /\ remaining > 0 /\ a <= remaining
             /\ request' = [request EXCEPT ![h] = q] /\ Goto(h, "ask")
    <3>1. a \in 1 .. Amount /\ refunded + a <= Amount
      BY <1>1, <1>2, <2>3 DEF Asked
    <3>2. q \in Requests /\ q.seen = refunded /\ q.amount = a
      <4>1. a \in 0 .. Amount /\ 0 \in 0 .. Amount
        BY <1>1, <3>1
      <4>2. QED
        BY <1>1, <1>2, <4>1 DEF Req, Requests, Bodies
    <3>3. Sound("ask", q)
      BY <1>1, <3>1, <3>2 DEF Sound
    <3>4. QED
      BY <1>1, <2>1, <2>3, <3>2, <3>3, HandlerMoves, MoneySame DEF money, outside, Labels, Goto
  <2>4. QED
    BY <1>5, <2>2, <2>3 DEF Read
<1>6. CASE AskProvider(h)
  <2>1. asked' \in 0 .. Amount + 1
    BY <1>1, <1>2, <1>6 DEF AskProvider
  <2>2. Sound("find", Q)
    BY <1>1, <1>6 DEF Sound, AskProvider
  <2>3. QED
    BY <1>1, <1>6, <2>1, <2>2, HandlerGoes, MoneySame DEF AskProvider, money, Labels
<1>7. CASE Find(h)
  <2>1. UNCHANGED <<money, outside, faults>>
    BY <1>7 DEF Find
  <2>2. CASE Leave(h)
    BY <1>1, <2>1, <2>2, HandlerLeaves, MoneySame DEF money, outside
  <2>3. CASE ~Recorded(h) /\ Goto(h, "tx") /\ UNCHANGED request
    <3>1. Sound("tx", Q)
      BY <1>1, <1>7, <2>3 DEF Sound, Find, Recorded
    <3>2. QED
      BY <1>1, <2>1, <2>3, <3>1, HandlerGoes, MoneySame DEF money, outside, Labels
  <2>4. QED
    BY <1>7, <2>2, <2>3 DEF Find
<1>8. CASE LoseLock(h)
  BY <1>1, <1>8, HandlerLeaves, MoneySame DEF LoseLock, money, outside
<1>9. CASE Emit(h)
  <2>1. Q.row \in 1 .. Amount
    <3>1. Q.row \in DOMAIN rows
      BY <1>1, <1>9 DEF Emit, Sound
    <3>2. rows \in Seq(Rows) /\ Len(rows) <= refunded
      BY DEF IInv, TypeOK, RowsBounded
    <3>3. QED
      BY <1>1, <3>1, <3>2
  <2>2. announced' \subseteq 1 .. Amount
    BY <1>1, <1>9, <2>1 DEF Emit
  <2>3. QED
    BY <1>1, <1>9, <2>2, HandlerLeaves, MoneySame DEF Emit, money
<1>10. CASE ProviderFails(h)
  BY <1>1, <1>10, FaultType, HandlerLeaves, MoneySame DEF ProviderFails, money, outside
<1>11. CASE Crash(h)
  BY <1>1, <1>11, FaultType, HandlerLeaves, MoneySame DEF Crash, money, outside
<1>12. QED
  BY <1>3, <1>4, <1>5, <1>6, <1>7, <1>8, <1>9, <1>10, <1>11

(* After the transaction: the journal of the slice, or its failure.        *)
LEMMA PostInv ==
  ASSUME IInv, NEW h \in Handlers, PostLedger(h) \/ PostFails(h)
  PROVE  IInv'
<1> DEFINE Q == request[h]
<1>1. /\ Q \in Requests /\ faults \in 0 .. MaxFaults /\ Amount \in Nat \ {0}
      /\ pc[h] = "post" /\ Sound("post", Q) /\ rows \in Seq(Rows) /\ Len(rows) <= refunded
      /\ refunded \in 0 .. Amount /\ journal \in [0 .. Amount -> 0 .. Amount]
  BY RefundsAssumption
     DEF IInv, TypeOK, RowsBounded, HandlersSound, PostLedger, PostFails, RefundsAssumption
<1>2. /\ Q.row \in DOMAIN rows /\ rows[Q.row].amount = Q.amount /\ Q.seen + Q.amount <= refunded
      /\ Q.row \in 1 .. Amount /\ Q.amount \in 1 .. Amount
      /\ Q.amount \in 0 .. Amount /\ Q.seen \in 0 .. Amount
  <2>1. /\ Q.row \in DOMAIN rows /\ rows[Q.row].amount = Q.amount
        /\ Q.seen + Q.amount <= refunded
    BY <1>1 DEF Sound
  <2>2. rows[Q.row] \in Rows
    <3>1. rows \in Seq(Rows) /\ Q.row \in DOMAIN rows
      BY <1>1, <2>1
    <3>2. QED
      BY <3>1
  <2>3. Q.amount \in 1 .. Amount
    BY <2>1, <2>2 DEF Rows
  <2>4. Q.row \in 1 .. Amount
    <3>1. DOMAIN rows = 1 .. Len(rows) /\ Len(rows) \in Nat
      BY <1>1
    <3>2. Q.row \in 1 .. Len(rows)
      BY <2>1, <3>1
    <3>3. Len(rows) <= Amount /\ Amount \in Nat
      BY <1>1, <3>1
    <3>4. QED
      BY <3>1, <3>2, <3>3
  <2>5. QED
    BY <1>1, <2>1, <2>3, <2>4, RequestFields
<1>3. /\ UNCHANGED <<money, asked, announced, backfill, request>>
      /\ Posted(h)
      /\ faults' \in 0 .. MaxFaults
  BY <1>1, FaultType DEF PostLedger, PostFails, outside
<1>4. pc' \in [Handlers -> Labels] /\ request' \in [Handlers -> Requests] /\ HandlersSound'
  <2>1. CASE FullyRefunded(h) /\ Goto(h, "close")
    <3>1. Sound("close", Q)
      BY <1>2, <2>1 DEF Sound, FullyRefunded
    <3>2. QED
      BY <1>3, <2>1, <3>1, HandlerGoes DEF money, Labels
  <2>2. CASE Goto(h, "emit")
    <3>1. Sound("emit", Q)
      BY <1>2 DEF Sound
    <3>2. QED
      BY <1>3, <2>2, <3>1, HandlerGoes DEF money, Labels
  <2>3. QED
    BY <1>3, <2>1, <2>2 DEF Posted
<1>5. /\ journal' \in [0 .. Amount -> 0 .. Amount]
      /\ \A r \in 0 .. Amount : journal'[r] = journal[r] \/ (r = Q.row /\ journal'[r] = Q.amount)
  <2>1. CASE PostFails(h)
    <3>1. journal' = journal
      BY <2>1 DEF PostFails, outside
    <3>2. journal' \in [0 .. Amount -> 0 .. Amount]
      BY <1>1, <3>1
    <3>3. \A r \in 0 .. Amount : journal'[r] = journal[r]
      BY <3>1
    <3>4. QED
      BY <3>2, <3>3
  <2>2. CASE PostLedger(h)
    <3> DEFINE v == IF journal[Q.row] = 0 THEN Q.amount ELSE journal[Q.row]
    <3>1. journal' = [journal EXCEPT ![Q.row] = v]
      BY <2>2 DEF PostLedger
    <3>2. Amount \in Nat /\ Q.row \in 1 .. Amount
      BY <1>1, <1>2
    <3>3. Q.row \in 0 .. Amount
      BY <3>2
    <3>4. v \in 0 .. Amount /\ (v = Q.amount \/ v = journal[Q.row])
      BY <1>1, <1>2, <3>3
    <3> HIDE DEF v
    <3>5. journal' \in [0 .. Amount -> 0 .. Amount]
      BY <1>1, <3>1, <3>4
    <3>6. \A r \in 0 .. Amount : journal'[r] = IF r = Q.row THEN v ELSE journal[r]
      BY <1>1, <3>1
    <3>7. QED
      BY <3>4, <3>5, <3>6
  <2>3. QED
    BY <1>1, <2>1, <2>2
<1>6. JournalsHaveRows'
  <2>1. rows' = rows /\ refunded' = refunded
    BY <1>3 DEF money
  <2>2. journal'[0] = journal[0]
    <3>1. Amount \in Nat \ {0} /\ Q.row \in 1 .. Amount
      BY <1>1, <1>2
    <3>2. 0 \in 0 .. Amount /\ Q.row # 0
      BY <3>1
    <3>3. QED
      BY <1>5, <3>2
  <2>3. ASSUME NEW r \in 1 .. Amount, journal'[r] > 0
        PROVE  r <= Len(rows) /\ journal'[r] = rows[r].amount
    <3>1. CASE journal'[r] = journal[r]
      BY <2>3, <3>1 DEF IInv, JournalsHaveRows
    <3>2. CASE r = Q.row /\ journal'[r] = Q.amount
      <4>1. DOMAIN rows = 1 .. Len(rows) /\ Len(rows) \in Nat
        BY <1>1
      <4>2. r \in DOMAIN rows /\ journal'[r] = rows[r].amount
        BY <1>2, <3>2
      <4>3. QED
        BY <4>1, <4>2
    <3>3. r \in 0 .. Amount
      BY <1>1
    <3>4. QED
      BY <1>5, <3>1, <3>2, <3>3
  <2>4. QED
    BY <2>1, <2>2, <2>3 DEF IInv, JournalsHaveRows
<1>7. TypeOK'
  BY <1>3, <1>4, <1>5 DEF IInv, TypeOK, money, Labels
<1>8. KeysRecorded' /\ KeysOnce' /\ RowsBounded' /\ ClosedIsWhole' /\ BackfillBehind' /\ RefundsAddUp'
  BY <1>3 DEF IInv, money, KeysRecorded, KeysOnce, RowsBounded, ClosedIsWhole, BackfillBehind, RefundsAddUp
<1>9. QED
  BY <1>4, <1>6, <1>7, <1>8 DEF IInv

(* The transaction.                                                        *)
LEMMA CommitFacts ==
  ASSUME IInv, NEW h \in Handlers, Commit(h)
  PROVE  LET q == request[h]
             n == Len(rows) + 1
             w == Row(q.key, q.amount, refunded)
         IN  /\ q \in Requests /\ q.key \in Keys \cup {NoKey} /\ q.body \in 0 .. Amount
             /\ q.amount \in 1 .. Amount /\ q.seen = refunded /\ q.key \notin records
             /\ refunded \in 0 .. Amount /\ refunded + q.amount <= Amount
             /\ refunded' = refunded + q.amount /\ refunded' \in 0 .. Amount
             /\ status = "paid" /\ n \in 1 .. Amount /\ n <= refunded'
             /\ w \in Rows /\ w.key = q.key /\ w.amount = q.amount /\ w.before = refunded
             /\ rows \in Seq(Rows) /\ rows' = Append(rows, w) /\ rows' \in Seq(Rows)
             /\ Len(rows') = n /\ rows'[n] = w
             /\ DOMAIN rows = 1 .. Len(rows) /\ DOMAIN rows' = 1 .. n
             /\ \A i \in DOMAIN rows : rows'[i] = rows[i]
<1> DEFINE q == request[h]
           n == Len(rows) + 1
           w == Row(q.key, q.amount, refunded)
<1>1. /\ q \in Requests /\ pc[h] = "tx" /\ Sound("tx", q) /\ q.seen = refunded
      /\ refunded \in 0 .. Amount /\ rows \in Seq(Rows) /\ Len(rows) <= refunded
      /\ Amount \in Nat \ {0}
  BY RefundsAssumption
     DEF IInv, TypeOK, HandlersSound, RowsBounded, Commit, Unchanged, RefundsAssumption
<1>2. q.key \in Keys \cup {NoKey} /\ q.body \in 0 .. Amount
  BY <1>1, RequestFields
<1>3. /\ q.amount \in 1 .. Amount /\ refunded + q.amount <= Amount /\ q.key \notin records
  BY <1>1 DEF Sound
<1>4. status = "paid"
  <2>1. refunded # Amount
    BY <1>1, <1>3
  <2>2. status \in {"paid", "refunded"}
    BY DEF IInv, TypeOK
  <2>3. status # "refunded"
    BY <2>1 DEF IInv, ClosedIsWhole
  <2>4. QED
    BY <2>2, <2>3
<1>5. /\ w \in Rows /\ w.key = q.key /\ w.amount = q.amount /\ w.before = refunded
  BY <1>1, <1>2, <1>3 DEF Row, Rows
<1>6. refunded' = refunded + q.amount /\ rows' = Append(rows, w)
  BY <1>1 DEF Commit
<1>7. /\ refunded' \in 0 .. Amount /\ n \in 1 .. Amount /\ n <= refunded'
  BY <1>1, <1>3, <1>6
<1>8. /\ rows' \in Seq(Rows) /\ Len(rows') = n /\ rows'[n] = w
      /\ DOMAIN rows = 1 .. Len(rows) /\ DOMAIN rows' = 1 .. n
      /\ \A i \in DOMAIN rows : rows'[i] = rows[i]
  BY <1>1, <1>5, <1>6
<1>9. QED
  BY <1>1, <1>2, <1>3, <1>4, <1>5, <1>6, <1>7, <1>8

LEMMA CommitInv ==
  ASSUME IInv, NEW h \in Handlers, Commit(h)
  PROVE  IInv'
<1> DEFINE q == request[h]
           n == Len(rows) + 1
           w == Row(q.key, q.amount, refunded)
           t == Req(q.key, q.body, refunded, q.amount, n)
<1>0. Amount \in Nat \ {0}
  BY RefundsAssumption DEF RefundsAssumption
<1>1. /\ q \in Requests /\ q.key \in Keys \cup {NoKey} /\ q.body \in 0 .. Amount
      /\ q.amount \in 1 .. Amount /\ q.seen = refunded /\ q.key \notin records
      /\ refunded \in 0 .. Amount /\ refunded + q.amount <= Amount
      /\ refunded' = refunded + q.amount /\ refunded' \in 0 .. Amount
      /\ status = "paid" /\ n \in 1 .. Amount /\ n <= refunded'
  BY CommitFacts
<1>2. /\ w \in Rows /\ w.key = q.key /\ w.amount = q.amount /\ w.before = refunded
      /\ rows \in Seq(Rows) /\ rows' \in Seq(Rows)
      /\ Len(rows') = n /\ rows'[n] = w
      /\ DOMAIN rows = 1 .. Len(rows) /\ DOMAIN rows' = 1 .. n
      /\ \A i \in DOMAIN rows : rows'[i] = rows[i]
  BY CommitFacts
<1>3. /\ records' = records \cup ({q.key} \ {NoKey})
      /\ request' = [request EXCEPT ![h] = t] /\ pc' = [pc EXCEPT ![h] = "post"]
      /\ UNCHANGED <<status, outside, faults>>
  BY <1>1 DEF Commit, Goto
<1>4. t \in Requests /\ t.amount = q.amount /\ t.seen = refunded /\ t.row = n /\ t.key = q.key
  <2>1. q.amount \in 0 .. Amount /\ n \in 0 .. Amount
    BY <1>0, <1>1
  <2>2. QED
    BY <1>1, <2>1 DEF Req, Requests, Bodies
<1>5. TypeOK'
  <2>1. records' \subseteq Keys
    BY <1>1, <1>3 DEF IInv, TypeOK
  <2>2. pc' \in [Handlers -> Labels] /\ request' \in [Handlers -> Requests]
    BY <1>3, <1>4 DEF IInv, TypeOK, Labels
  <2>3. QED
    BY <1>1, <1>2, <1>3, <2>1, <2>2 DEF IInv, TypeOK, outside, Labels
<1>6. HandlersSound'
  <2> SUFFICES ASSUME NEW g \in Handlers PROVE Sound(pc[g], request[g])'
    BY DEF HandlersSound
  <2>1. CASE g = h
    <3>1. pc'[g] = "post" /\ request'[g] = t
      BY <1>3, <2>1 DEF IInv, TypeOK
    <3>2. /\ t.row \in DOMAIN rows' /\ rows'[t.row].amount = t.amount
          /\ t.seen + t.amount <= refunded'
      BY <1>0, <1>1, <1>2, <1>4
    <3>3. QED
      BY <3>1, <3>2 DEF Sound
  <2>2. CASE g # h
    <3> DEFINE r == request[g]
    <3>1. pc'[g] = pc[g] /\ request'[g] = r
      BY <1>3, <2>2 DEF IInv, TypeOK
    <3>2. Sound(pc[g], r) /\ r \in Requests
      BY DEF IInv, HandlersSound, TypeOK
    <3>3. r.seen \in 0 .. Amount /\ r.amount \in 0 .. Amount /\ r.row \in 0 .. Amount
      BY <3>2, RequestFields
    <3>4. pc[g] \in {"ask", "find", "tx"} => r.seen <= refunded' /\ r.seen < refunded'
      BY <1>0, <1>1, <3>2, <3>3 DEF Sound
    <3>5. pc[g] \in {"post", "close", "emit"} =>
             /\ r.row \in DOMAIN rows'
             /\ rows'[r.row].amount = r.amount
             /\ r.seen + r.amount <= refunded'
      <4> SUFFICES ASSUME pc[g] \in {"post", "close", "emit"}
                   PROVE  /\ r.row \in DOMAIN rows' /\ rows'[r.row].amount = r.amount
                          /\ r.seen + r.amount <= refunded'
        OBVIOUS
      <4>1. r.row \in DOMAIN rows /\ rows[r.row].amount = r.amount /\ r.seen + r.amount <= refunded
        BY <3>2 DEF Sound
      <4>2. Len(rows) \in Nat
        BY <1>2
      <4>3. r.row \in DOMAIN rows' /\ rows'[r.row] = rows[r.row]
        BY <1>2, <4>1, <4>2
      <4>4. r.seen + r.amount <= refunded'
        <5>1. refunded' >= refunded /\ refunded \in Nat /\ refunded' \in Nat
          BY <1>0, <1>1
        <5>2. r.seen \in Nat /\ r.amount \in Nat
          BY <1>0, <3>3
        <5>3. QED
          BY <4>1, <5>1, <5>2
      <4>5. QED
        BY <4>1, <4>3, <4>4
    <3>6. QED
      BY <3>1, <3>2, <3>4, <3>5 DEF Sound
  <2>3. QED
    BY <2>1, <2>2
<1>7. \A i \in 1 .. n : i = n \/ i \in DOMAIN rows
  BY <1>2
<1>8. KeysRecorded'
  <2> SUFFICES ASSUME NEW i \in 1 .. n, rows'[i].key \in Keys PROVE rows'[i].key \in records'
    BY <1>2 DEF KeysRecorded
  <2>1. CASE i = n
    BY <1>2, <1>3, <2>1, RefundsAssumption DEF RefundsAssumption
  <2>2. CASE i \in DOMAIN rows
    BY <1>2, <1>3, <2>2 DEF IInv, KeysRecorded
  <2>3. QED
    BY <1>7, <2>1, <2>2
<1>9. KeysOnce'
  <2>1. ASSUME NEW i \in DOMAIN rows PROVE rows[i].key # NoKey => rows[i].key # q.key
    <3>1. rows[i] \in Rows
      BY <1>2
    <3>2. QED
      BY <1>1, <3>1 DEF IInv, KeysRecorded, Rows
  <2>2. QED
    BY <1>2, <1>7, <2>1 DEF IInv, KeysOnce
<1>10. RowsBounded' /\ ClosedIsWhole'
  BY <1>1, <1>2, <1>3 DEF RowsBounded, ClosedIsWhole
<1>11. BackfillBehind'
  <2>1. backfill' = backfill /\ backfill \in 0 .. Amount /\ backfill <= refunded
    BY <1>3 DEF outside, IInv, BackfillBehind, TypeOK
  <2>2. QED
    BY <1>0, <1>1, <2>1 DEF BackfillBehind
<1>12. RefundsAddUp'
  <2>1. rows' # <<>> /\ refunded' <= Amount
    BY <1>0, <1>1, <1>2
  <2>2. rows'[1].before = 0
    <3>1. CASE rows = <<>>
      BY <1>2, <3>1 DEF IInv, RefundsAddUp
    <3>2. CASE rows # <<>>
      BY <1>2, <3>2 DEF IInv, RefundsAddUp
    <3>3. QED
      BY <3>1, <3>2
  <2>3. rows'[n].before + rows'[n].amount = refunded'
    BY <1>1, <1>2
  <2>4. ASSUME NEW i \in 1 .. n - 1
        PROVE  rows'[i].before + rows'[i].amount = rows'[i + 1].before
    <3>1. CASE i = n - 1
      <4>1. rows # <<>> /\ i = Len(rows) /\ i + 1 = n
        BY <1>2, <3>1
      <4>2. rows'[i] = rows[i]
        BY <1>2, <4>1
      <4>3. QED
        BY <1>2, <4>1, <4>2 DEF IInv, RefundsAddUp
    <3>2. CASE i # n - 1
      <4>1. i \in 1 .. Len(rows) - 1 /\ i \in DOMAIN rows /\ i + 1 \in DOMAIN rows
        <5>1. Len(rows) \in Nat /\ n - 1 = Len(rows)
          BY <1>2
        <5>2. i \in 1 .. Len(rows) /\ i # Len(rows)
          BY <3>2, <5>1
        <5> DEFINE L == Len(rows)
        <5> HIDE DEF L
        <5>3. L \in Nat /\ i \in 1 .. L /\ i # L
          BY <5>1, <5>2 DEF L
        <5>4. i \in 1 .. L - 1 /\ i + 1 \in 1 .. L
          BY <5>3
        <5>5. QED
          BY <1>2, <5>3, <5>4 DEF L
      <4>2. rows'[i] = rows[i] /\ rows'[i + 1] = rows[i + 1]
        BY <1>2, <4>1
      <4>3. rows[i].before + rows[i].amount = rows[i + 1].before
        BY <4>1 DEF IInv, RefundsAddUp
      <4>4. QED
        BY <4>2, <4>3
    <3>3. QED
      BY <3>1, <3>2
  <2>5. QED
    BY <1>2, <2>1, <2>2, <2>3, <2>4 DEF RefundsAddUp
<1>13. JournalsHaveRows'
  <2>1. journal' = journal
    BY <1>3 DEF outside
  <2>2. journal'[0] <= refunded'
    <3>1. journal \in [0 .. Amount -> 0 .. Amount] /\ journal[0] <= refunded
      BY DEF IInv, JournalsHaveRows, TypeOK
    <3>2. 0 \in 0 .. Amount
      BY <1>0
    <3>3. journal[0] \in 0 .. Amount /\ journal[0] <= refunded /\ journal'[0] = journal[0]
      BY <2>1, <3>1, <3>2
    <3>4. journal[0] \in Nat /\ refunded \in Nat /\ q.amount \in Nat
      BY <1>0, <1>1, <3>3
    <3>5. QED
      BY <1>1, <3>3, <3>4
  <2>3. ASSUME NEW r \in 1 .. Amount, journal'[r] > 0
        PROVE  r <= Len(rows') /\ journal'[r] = rows'[r].amount
    <3>1. r <= Len(rows) /\ journal[r] = rows[r].amount
      BY <2>1, <2>3 DEF IInv, JournalsHaveRows
    <3>2. r \in DOMAIN rows
      BY <1>0, <1>2, <3>1
    <3>3. QED
      BY <1>2, <2>1, <3>1, <3>2
  <2>4. QED
    BY <2>2, <2>3 DEF JournalsHaveRows
<1>14. QED
  BY <1>5, <1>6, <1>8, <1>9, <1>10, <1>11, <1>12, <1>13 DEF IInv

LEMMA CloseFacts ==
  ASSUME IInv, NEW h \in Handlers, Close(h)
  PROVE  refunded = Amount /\ Sound("emit", request[h])
<1>1. /\ Sound("close", request[h]) /\ request[h] \in Requests /\ refunded \in 0 .. Amount
      /\ Amount \in Nat
  BY RefundsAssumption DEF IInv, TypeOK, HandlersSound, Close, RefundsAssumption
<1>2. request[h].seen \in 0 .. Amount /\ request[h].amount \in 0 .. Amount
  BY <1>1, RequestFields
<1>3. QED
  BY <1>1, <1>2 DEF Sound

LEMMA CloseInv ==
  ASSUME IInv, NEW h \in Handlers, Close(h)
  PROVE  IInv'
<1>1. /\ UNCHANGED <<refunded, rows, records, outside, request, faults>>
      /\ status' = "refunded" /\ Goto(h, "emit")
  BY DEF Close
<1>2. pc' \in [Handlers -> Labels] /\ request' \in [Handlers -> Requests] /\ HandlersSound'
  BY <1>1, CloseFacts, HandlerGoes DEF Labels
<1>3. TypeOK'
  BY <1>1, <1>2 DEF IInv, TypeOK, outside, Labels
<1>4. ClosedIsWhole'
  BY <1>1, CloseFacts DEF ClosedIsWhole
<1>5. KeysRecorded' /\ KeysOnce' /\ RowsBounded' /\ BackfillBehind' /\ RefundsAddUp' /\ JournalsHaveRows'
  BY <1>1 DEF IInv, outside, KeysRecorded, KeysOnce, RowsBounded, BackfillBehind, RefundsAddUp,
              JournalsHaveRows
<1>6. QED
  BY <1>2, <1>3, <1>4, <1>5 DEF IInv

LEMMA BackfillInv ==
  ASSUME IInv, BackfillRead \/ BackfillPost
  PROVE  IInv'
<1>0. Amount \in Nat \ {0}
  BY RefundsAssumption DEF RefundsAssumption
<1>1. UNCHANGED <<money, asked, announced, pc, request, faults>>
  BY DEF BackfillRead, BackfillPost
<1>2. /\ backfill' \in 0 .. Amount /\ backfill' <= refunded
      /\ journal' \in [0 .. Amount -> 0 .. Amount]
      /\ journal'[0] <= refunded
      /\ \A r \in 1 .. Amount : journal'[r] = journal[r]
  <2>1. CASE BackfillRead
    BY <1>0, <2>1 DEF BackfillRead, IInv, TypeOK, JournalsHaveRows, BackfillBehind
  <2>2. CASE BackfillPost
    <3>1. journal \in [0 .. Amount -> 0 .. Amount] /\ backfill \in 0 .. Amount
          /\ backfill <= refunded /\ journal[0] <= refunded /\ refunded \in 0 .. Amount
      BY DEF IInv, TypeOK, JournalsHaveRows, BackfillBehind
    <3>2. backfill' = 0 /\ journal' = [journal EXCEPT ![0] = IF @ = 0 THEN backfill ELSE @]
      BY <2>2 DEF BackfillPost
    <3>3. QED
      BY <1>0, <3>1, <3>2
  <2>3. QED
    BY <2>1, <2>2
<1>3. TypeOK'
  BY <1>1, <1>2 DEF IInv, TypeOK, money
<1>4. HandlersSound'
  BY <1>1 DEF IInv, HandlersSound, Sound, money
<1>5. KeysRecorded' /\ KeysOnce' /\ RowsBounded' /\ ClosedIsWhole' /\ BackfillBehind' /\ RefundsAddUp'
  BY <1>1, <1>2 DEF IInv, money, KeysRecorded, KeysOnce, RowsBounded, ClosedIsWhole, BackfillBehind,
                    RefundsAddUp
<1>6. JournalsHaveRows'
  BY <1>1, <1>2 DEF IInv, money, JournalsHaveRows
<1>7. QED
  BY <1>3, <1>4, <1>5, <1>6 DEF IInv

-----------------------------------------------------------------------------
LEMMA StepInv == IInv /\ [Next]_vars => IInv'
<1> SUFFICES ASSUME IInv, [Next]_vars PROVE IInv'
  OBVIOUS
<1>1. ASSUME NEW h \in Handlers, NEW k \in Keys \cup {NoKey}, NEW b \in Bodies, Submit(h, k, b)
      PROVE  IInv'
  BY <1>1, RequestInv
<1>2. ASSUME NEW h \in Handlers, Step(h)
      PROVE  IInv'
  BY <1>2, RequestInv, CommitInv, PostInv, CloseInv DEF Step
<1>3. ASSUME NEW h \in Handlers, Failure(h)
      PROVE  IInv'
  BY <1>3, RequestInv, PostInv DEF Failure
<1>4. CASE BackfillRead \/ BackfillPost
  BY <1>4, BackfillInv
<1>5. CASE UNCHANGED vars
  <2>1. TypeOK' /\ HandlersSound' /\ KeysRecorded' /\ KeysOnce' /\ RowsBounded'
    BY <1>5 DEF vars, IInv, TypeOK, HandlersSound, Sound, KeysRecorded, KeysOnce, RowsBounded
  <2>2. ClosedIsWhole' /\ BackfillBehind' /\ RefundsAddUp' /\ JournalsHaveRows'
    BY <1>5 DEF vars, IInv, ClosedIsWhole, BackfillBehind, RefundsAddUp, JournalsHaveRows
  <2>3. QED
    BY <2>1, <2>2 DEF IInv
<1>6. QED
  BY <1>1, <1>2, <1>3, <1>4, <1>5 DEF Next

LEMMA Invariance == Spec => []IInv
  BY InitInv, StepInv, PTL DEF Spec

(* Types: in particular the amount refunded never leaves 0 .. Amount.      *)
THEOREM TypeCorrect == Spec => []TypeOK
<1>1. IInv => TypeOK
  BY DEF IInv
<1>2. QED
  BY <1>1, Invariance, PTL

(* No interleaving of refunds, retries and failures gives back more than   *)
(* was paid, and the rows account for every unit that was given back.      *)
THEOREM RefundsNeverExceed == Spec => []RefundsAddUp
<1>1. IInv => RefundsAddUp
  BY DEF IInv
<1>2. QED
  BY <1>1, Invariance, PTL

(* A key gives one refund, and the lock decides before the unique index.   *)
THEOREM RetriesAreSafe == Spec => []OneRefundPerKey
<1>1. IInv => OneRefundPerKey
  <2> SUFFICES ASSUME IInv PROVE OneRefundPerKey
    OBVIOUS
  <2>1. ASSUME NEW h \in Handlers, pc[h] = "tx", Unchanged(h), Recorded(h)
        PROVE  FALSE
    <3>1. request[h].seen < refunded /\ refunded = request[h].seen /\ refunded \in 0 .. Amount
      BY <2>1 DEF IInv, TypeOK, HandlersSound, Sound, Unchanged, Recorded
    <3>2. QED
      BY <3>1, RefundsAssumption DEF RefundsAssumption
  <2>2. QED
    BY <2>1 DEF OneRefundPerKey, IInv, KeysOnce
<1>2. QED
  BY <1>1, Invariance, PTL

(* The handlers implement the account of RefundAccount, step by step.      *)
LEMMA InitRefines == Init => Account!AccountInit
  BY DEF Init, Account!AccountInit

LEMMA StepRefines ==
  ASSUME IInv, [Next]_vars
  PROVE  [Account!AccountNext]_(Account!accountVars)
<1>1. ASSUME NEW h \in Handlers, Commit(h)
      PROVE  Account!AccountNext
  <2> DEFINE q == request[h]
  <2>1. /\ q.key \in Keys \cup {NoKey} /\ q.amount \in 1 .. Amount /\ q.seen = refunded
        /\ q.key \notin records /\ refunded + q.amount <= Amount
        /\ refunded' = refunded + q.amount /\ status = "paid"
        /\ rows' = Append(rows, Row(q.key, q.amount, refunded))
    BY <1>1, CommitFacts
  <2>2. \A i \in DOMAIN rows : q.key \in Keys => rows[i].key # q.key
    BY <2>1 DEF IInv, KeysRecorded
  <2>3. UNCHANGED status
    BY <1>1 DEF Commit
  <2>4. Account!Slice(q.key, q.amount)
    BY <2>1, <2>2, <2>3 DEF Account!Slice, Account!Row, Row
  <2>5. QED
    BY <2>1, <2>4 DEF Account!AccountNext
<1>2. ASSUME NEW h \in Handlers, Close(h)
      PROVE  Account!AccountNext
  <2>1. Account!Close
    BY <1>2, CloseFacts DEF Account!Close, Close
  <2>2. QED
    BY <2>1 DEF Account!AccountNext
<1>3. ASSUME NEW h \in Handlers,
             \/ \E k \in Keys \cup {NoKey}, b \in Bodies : Submit(h, k, b)
             \/ Precheck(h) \/ Read(h) \/ AskProvider(h) \/ Find(h) \/ LoseLock(h)
             \/ PostLedger(h) \/ Emit(h) \/ ProviderFails(h) \/ PostFails(h) \/ Crash(h)
      PROVE  UNCHANGED Account!accountVars
  BY <1>3 DEF Submit, Precheck, Read, AskProvider, Find, LoseLock, PostLedger, Emit, ProviderFails,
              PostFails, Crash, money, Account!accountVars
<1>4. CASE BackfillRead \/ BackfillPost \/ UNCHANGED vars
  BY <1>4 DEF BackfillRead, BackfillPost, vars, money, Account!accountVars
<1>5. QED
  BY <1>1, <1>2, <1>3, <1>4 DEF Next, Step, Failure

(* refund(), with its reads apart from its writes, its retries and its     *)
(* failures, is the account that gives back one slice at a time.           *)
THEOREM Refinement == Spec => ImplementsAccount
<1>1. QED
  BY InitRefines, StepRefines, Invariance, PTL DEF Spec, ImplementsAccount, Account!AccountSpec
=============================================================================
