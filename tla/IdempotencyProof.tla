--------------------------- MODULE IdempotencyProof ---------------------------
(***************************************************************************)
(* Theorems about Idempotency, for any keys, bodies and number of          *)
(* concurrent requests.                                                    *)
(***************************************************************************)
EXTENDS Idempotency, TLAPS

(* What a request holds where it is.                                       *)
RequestsAreSound ==
  \A h \in Handlers :
     /\ pc[h] # "idle" => request[h].body \in Bodies
     /\ pc[h] \in {"find", "lost"} => request[h].key \in Keys
     /\ pc[h] = "reply" =>
          /\ request[h].effect \in DOMAIN effects
          /\ effects[request[h].effect] = [key |-> request[h].key, body |-> request[h].body,
                                           generation |-> request[h].generation]

(* A record names the effect of its key in the present generation.         *)
RecordsNameEffects ==
  \A k \in Keys : record[k] # NoRecord =>
     /\ record[k].effect \in DOMAIN effects
     /\ effects[record[k].effect] = [key |-> k, body |-> record[k].body,
                                     generation |-> generation[k]]

(* No effect belongs to a generation that has not begun.                   *)
GenerationsBegun ==
  \A i \in DOMAIN effects : effects[i].generation <= Generation(effects[i].key)

LenBound == Len(effects) <= MaxEffects

IInv ==
  /\ TypeOK
  /\ RequestsAreSound
  /\ RecordsNameEffects
  /\ GenerationsBegun
  /\ LenBound
  /\ EffectIsRemembered
  /\ OncePerKey
  /\ AnswersOwnRequest

LEMMA InitInv == Init => IInv
<1> SUFFICES ASSUME Init PROVE IInv
  OBVIOUS
<1>1. TypeOK
  BY IdempotencyAssumption DEF Init, TypeOK, NoRequest, Req, Request, NoRecord, IdempotencyAssumption
<1>2. RequestsAreSound /\ RecordsNameEffects /\ GenerationsBegun /\ LenBound
  BY IdempotencyAssumption
     DEF Init, RequestsAreSound, RecordsNameEffects, GenerationsBegun, LenBound, IdempotencyAssumption
<1>3. EffectIsRemembered /\ OncePerKey /\ AnswersOwnRequest
  BY DEF Init, EffectIsRemembered, OncePerKey, AnswersOwnRequest
<1>4. QED
  BY <1>1, <1>2, <1>3 DEF IInv

(* What only depends on what is committed.                                 *)
LEMMA CommittedSame ==
  ASSUME IInv, UNCHANGED <<effects, record, generation>>
  PROVE  RecordsNameEffects' /\ GenerationsBegun' /\ LenBound' /\ EffectIsRemembered' /\ OncePerKey'
BY DEF IInv, RecordsNameEffects, GenerationsBegun, LenBound, EffectIsRemembered, OncePerKey, Generation

(* The request of h ends.                                                  *)
LEMMA FinishSound ==
  ASSUME IInv, NEW h \in Handlers, Finish(h), UNCHANGED effects
  PROVE  /\ RequestsAreSound'
         /\ pc' \in [Handlers -> {"idle", "find", "run", "lost", "reply"}]
         /\ request' \in [Handlers -> Request]
<1>1. NoRequest \in Request
  BY IdempotencyAssumption DEF NoRequest, Req, Request, IdempotencyAssumption
<1>2. QED
  BY <1>1 DEF IInv, TypeOK, RequestsAreSound, Finish, Goto

LEMMA ReplaySound ==
  ASSUME IInv, NEW h \in Handlers, pc[h] \in {"find", "lost"}, Replay(h), UNCHANGED effects
  PROVE  /\ RequestsAreSound'
         /\ pc' \in [Handlers -> {"idle", "find", "run", "lost", "reply"}]
         /\ request' \in [Handlers -> Request]
<1> DEFINE k == request[h].key
           r == record[k]
           q == Req(k, request[h].body, r.effect, generation[k])
<1>1. k \in Keys /\ r # NoRecord /\ r.body = request[h].body
  BY DEF IInv, RequestsAreSound, Replay
<1>2. r.effect \in 1 .. MaxEffects /\ generation[k] \in Nat
  BY <1>1 DEF IInv, TypeOK, Record
<1>3. request' = [request EXCEPT ![h] = q] /\ pc' = [pc EXCEPT ![h] = "reply"]
  BY DEF Replay, Hold, Goto, IInv, TypeOK
<1>4. q \in Request
  BY <1>2 DEF IInv, TypeOK, Request, Req
<1>5. /\ q.effect \in DOMAIN effects
      /\ effects[q.effect] = [key |-> q.key, body |-> q.body, generation |-> q.generation]
      /\ q.body = request[h].body
  BY <1>1, <1>2 DEF Req, RecordsNameEffects, IInv
<1>6. request[h].body \in Bodies
  BY DEF IInv, RequestsAreSound
<1>7. RequestsAreSound'
  BY <1>3, <1>4, <1>5, <1>6 DEF IInv, TypeOK, RequestsAreSound
<1>8. QED
  BY <1>3, <1>4, <1>7 DEF IInv, TypeOK

LEMMA NextInv == IInv /\ [Next]_vars => IInv'
<1> SUFFICES ASSUME IInv, [Next]_vars PROVE IInv'
  OBVIOUS
<1>1. ASSUME NEW h \in Handlers, NEW k \in Keys \cup {NoKey}, NEW b \in Bodies, Submit(h, k, b)
      PROVE  IInv'
  <2> DEFINE q == Req(k, b, 0, 0)
  <2>1. q \in Request
    BY IdempotencyAssumption DEF NoRequest, Req, Request, IdempotencyAssumption
  <2>2. TypeOK'
    BY <1>1, <2>1 DEF IInv, TypeOK, Submit, Goto
  <2>3. RequestsAreSound'
    BY <1>1, <2>1 DEF IInv, TypeOK, RequestsAreSound, Submit, Goto, Req
  <2>4. AnswersOwnRequest'
    BY <1>1 DEF IInv, AnswersOwnRequest, Submit
  <2>5. QED
    BY <1>1, <2>2, <2>3, <2>4, CommittedSame DEF IInv, Submit
<1>2. ASSUME NEW h \in Handlers,
             FindPrior(h) \/ FindWinner(h) \/ RunFails(h) \/ Crash(h) \/ LoseInsert(h)
      PROVE  IInv'
  <2>1. UNCHANGED <<effects, record, generation, aged, answered>>
    BY <1>2 DEF FindPrior, FindWinner, RunFails, Crash, LoseInsert
  <2>2. /\ RequestsAreSound'
        /\ pc' \in [Handlers -> {"idle", "find", "run", "lost", "reply"}]
        /\ request' \in [Handlers -> Request]
    <3>1. CASE pc[h] \in {"find", "lost"} /\ Replay(h)
      BY <2>1, <3>1, ReplaySound
    <3>2. CASE Finish(h)
      BY <2>1, <3>2, FinishSound
    <3>3. CASE UNCHANGED request /\ pc[h] = "find" /\ Goto(h, "run")
      BY <2>1, <3>3 DEF IInv, TypeOK, RequestsAreSound, Goto
    <3>4. CASE UNCHANGED request /\ pc[h] = "run" /\ Goto(h, "lost") /\ request[h].key # NoKey
      <4>1. request[h].key \in Keys
        BY <3>4 DEF IInv, TypeOK, Request
      <4>2. request[h].body \in Bodies
        BY <3>4 DEF IInv, RequestsAreSound
      <4>3. pc' = [pc EXCEPT ![h] = "lost"] /\ request' = request
        BY <3>4 DEF Goto
      <4>4. pc' \in [Handlers -> {"idle", "find", "run", "lost", "reply"}]
        BY <4>3 DEF IInv, TypeOK
      <4>5. \A g \in Handlers : pc'[g] = IF g = h THEN "lost" ELSE pc[g]
        BY <4>3 DEF IInv, TypeOK
      <4>6. RequestsAreSound'
        BY <2>1, <4>1, <4>2, <4>3, <4>5 DEF IInv, RequestsAreSound
      <4>7. QED
        BY <4>3, <4>4, <4>6 DEF IInv, TypeOK
    <3>5. CASE FindPrior(h)
      BY <3>1, <3>2, <3>3, <3>5 DEF FindPrior, Refuse
    <3>6. CASE FindWinner(h)
      BY <3>1, <3>2, <3>6 DEF FindWinner, Refuse
    <3>7. CASE RunFails(h)
      BY <3>2, <3>4, <3>7 DEF RunFails
    <3>8. CASE Crash(h)
      BY <3>2, <3>8 DEF Crash
    <3>9. CASE LoseInsert(h)
      <4>1. request[h].key # NoKey
        BY <3>9, IdempotencyAssumption DEF LoseInsert, Insertable, IdempotencyAssumption
      <4>2. UNCHANGED request /\ pc[h] = "run" /\ Goto(h, "lost")
        BY <3>9 DEF LoseInsert
      <4>3. QED
        BY <3>4, <4>1, <4>2
    <3>10. QED
      BY <1>2, <3>5, <3>6, <3>7, <3>8, <3>9
  <2>3. faults' \in 0 .. MaxFaults
    BY <1>2, IdempotencyAssumption
       DEF FindPrior, FindWinner, RunFails, Crash, LoseInsert, IInv, TypeOK, IdempotencyAssumption
  <2>4. TypeOK'
    BY <2>1, <2>2, <2>3 DEF IInv, TypeOK
  <2>5. AnswersOwnRequest'
    BY <2>1 DEF IInv, AnswersOwnRequest
  <2>6. QED
    BY <2>1, <2>2, <2>4, <2>5, CommittedSame DEF IInv
<1>3. ASSUME NEW h \in Handlers, RunAndCommit(h)
      PROVE  IInv'
  <2> DEFINE k == request[h].key
             b == request[h].body
             n == Len(effects) + 1
             e == [key |-> k, body |-> b, generation |-> Generation(k)]
             q == Req(k, b, n, Generation(k))
  <2>1. /\ k \in Keys \cup {NoKey} /\ b \in Bodies
        /\ k \in Keys => record[k] = NoRecord
        /\ effects \in Seq(Effect)
        /\ n \in 1 .. MaxEffects /\ Generation(k) \in Nat
    <3>1. request[h] \in Request /\ b \in Bodies /\ effects \in Seq(Effect)
      BY <1>3 DEF RunAndCommit, IInv, TypeOK, RequestsAreSound
    <3>2. k \in Keys \cup {NoKey}
      BY <3>1 DEF Request
    <3>3. (k \in Keys => record[k] = NoRecord) /\ n <= MaxEffects
      BY <1>3 DEF RunAndCommit, Insertable
    <3>4. n \in 1 .. MaxEffects
      BY <3>1, <3>3, IdempotencyAssumption DEF IdempotencyAssumption
    <3>5. Generation(k) \in Nat
      BY <3>2 DEF Generation, IInv, TypeOK
    <3>6. QED
      BY <3>1, <3>2, <3>3, <3>4, <3>5
  <2>2. e \in Effect
    BY <2>1 DEF Effect
  <2>3. /\ effects' = Append(effects, e) /\ effects' \in Seq(Effect)
        /\ Len(effects') = n /\ DOMAIN effects' = 1 .. n /\ DOMAIN effects = 1 .. (n - 1)
        /\ effects'[n] = e
        /\ \A i \in DOMAIN effects : effects'[i] = effects[i]
    BY <1>3, <2>1, <2>2 DEF RunAndCommit
  <2>4. /\ record' = [j \in Keys |-> IF j = k THEN [body |-> b, effect |-> n] ELSE record[j]]
        /\ request' = [request EXCEPT ![h] = q]
        /\ pc' = [pc EXCEPT ![h] = "reply"]
        /\ UNCHANGED <<generation, aged, answered, faults>>
    BY <1>3 DEF RunAndCommit, Hold, Goto
  <2>5. q \in Request /\ q.key = k /\ q.body = b /\ q.effect = n /\ q.generation = Generation(k)
    BY <2>1 DEF Request, Req
  <2>6. TypeOK'
    BY <2>1, <2>3, <2>4, <2>5 DEF IInv, TypeOK, Record
  <2>7. RequestsAreSound'
    BY <2>1, <2>3, <2>4, <2>5 DEF IInv, TypeOK, RequestsAreSound
  <2>8. RecordsNameEffects'
    <3> SUFFICES ASSUME NEW j \in Keys, record'[j] # NoRecord
                 PROVE  /\ record'[j].effect \in DOMAIN effects'
                        /\ effects'[record'[j].effect] = [key |-> j, body |-> record'[j].body,
                                                          generation |-> generation[j]]
      BY <2>4 DEF RecordsNameEffects
    <3>1. CASE j = k
      <4>1. record'[j].effect = n /\ record'[j].body = b
        BY <2>4, <3>1
      <4>2. Generation(k) = generation[j]
        BY <3>1, IdempotencyAssumption DEF Generation, IdempotencyAssumption
      <4>3. QED
        BY <2>1, <2>3, <3>1, <4>1, <4>2
    <3>2. CASE j # k
      <4>1. record'[j] = record[j]
        BY <2>4, <3>2
      <4>2. record[j].effect \in DOMAIN effects
            /\ effects[record[j].effect] = [key |-> j, body |-> record[j].body,
                                            generation |-> generation[j]]
        BY <4>1 DEF IInv, RecordsNameEffects
      <4>3. QED
        BY <2>1, <2>3, <4>1, <4>2
    <3>3. QED
      BY <3>1, <3>2
  <2>9. GenerationsBegun' /\ LenBound'
    BY <2>1, <2>3, <2>4 DEF IInv, GenerationsBegun, Generation, LenBound
  <2>10. k \in Keys => \A i \in DOMAIN effects :
            ~(effects[i].key = k /\ effects[i].generation = Generation(k))
    <3> SUFFICES ASSUME k \in Keys, NEW i \in DOMAIN effects, effects[i].key = k,
                        effects[i].generation = Generation(k)
                 PROVE  FALSE
      OBVIOUS
    <3>1. record[k] = [body |-> effects[i].body, effect |-> i]
      BY IdempotencyAssumption DEF IInv, EffectIsRemembered, IdempotencyAssumption
    <3>2. record[k].effect = i /\ record[k].effect = 0
      BY <2>1, <3>1 DEF NoRecord
    <3>3. QED
      BY <2>1, <3>2
  <2>11. EffectIsRemembered'
    <3> SUFFICES ASSUME NEW i \in DOMAIN effects', effects'[i].key # NoKey,
                        effects'[i].generation = Generation(effects'[i].key)
                 PROVE  record'[effects'[i].key] = [body |-> effects'[i].body, effect |-> i]
      BY <2>4 DEF EffectIsRemembered, Generation
    <3>1. CASE i = n
      <4>1. effects'[i].key = k /\ effects'[i].body = b /\ k \in Keys
        BY <2>1, <2>3, <3>1
      <4>2. QED
        BY <2>4, <3>1, <4>1
    <3>2. CASE i # n
      <4>1. i \in DOMAIN effects /\ effects'[i] = effects[i]
        BY <2>1, <2>3, <3>2
      <4>2. effects[i].key \in Keys
        <5>1. effects[i] \in Effect
          BY <2>1, <4>1
        <5>2. effects[i].key # NoKey
          BY <4>1
        <5>3. QED
          BY <5>1, <5>2 DEF Effect
      <4>3. effects[i].key # k
        BY <2>10, <4>1, <4>2
      <4>4. record[effects[i].key] = [body |-> effects[i].body, effect |-> i]
        BY <4>1 DEF IInv, EffectIsRemembered
      <4>5. QED
        BY <2>4, <4>1, <4>2, <4>3, <4>4
    <3>3. QED
      BY <3>1, <3>2
  <2>12. OncePerKey'
    <3>1. e.key = k /\ e.generation = Generation(k)
      OBVIOUS
    <3>2. \A i \in DOMAIN effects : effects[i].key = k /\ k # NoKey => effects[i].generation # Generation(k)
      BY <2>1, <2>10
    <3>3. \A i \in 1 .. n : i = n \/ i \in DOMAIN effects
      BY <2>1, <2>3
    <3>4. QED
      BY <2>3, <3>1, <3>2, <3>3 DEF IInv, OncePerKey
  <2>13. AnswersOwnRequest'
    <3>1. \A i \in DOMAIN effects : i \in DOMAIN effects' /\ effects'[i] = effects[i]
      BY <2>1, <2>3
    <3>2. answered' = answered
      BY <2>4
    <3>3. QED
      BY <3>1, <3>2 DEF IInv, AnswersOwnRequest
  <2>14. QED
    BY <2>6, <2>7, <2>8, <2>9, <2>11, <2>12, <2>13 DEF IInv
<1>4. ASSUME NEW h \in Handlers, Reply(h)
      PROVE  IInv'
  <2> DEFINE a == [key |-> request[h].key, body |-> request[h].body,
                   generation |-> request[h].generation, effect |-> request[h].effect]
  <2>1. UNCHANGED <<effects, record, generation, aged, faults>> /\ answered' = answered \cup {a}
    BY <1>4 DEF Reply
  <2>2. RequestsAreSound' /\ TypeOK'
    <3>1. /\ request[h] \in Request /\ request[h].body \in Bodies
          /\ request[h].effect \in DOMAIN effects
      BY <1>4 DEF Reply, IInv, TypeOK, RequestsAreSound
    <3>2. request[h].effect \in 1 .. MaxEffects
      BY <3>1, IdempotencyAssumption DEF IInv, LenBound, TypeOK, IdempotencyAssumption
    <3>3. a \in Answered
      BY <3>1, <3>2 DEF Answered, Request
    <3>4. QED
      BY <1>4, <2>1, <3>3, FinishSound DEF Reply, IInv, TypeOK
  <2>3. AnswersOwnRequest'
    <3>1. /\ a.effect \in DOMAIN effects
          /\ effects[a.effect] = [key |-> a.key, body |-> a.body, generation |-> a.generation]
      BY <1>4 DEF Reply, IInv, RequestsAreSound
    <3>2. QED
      BY <2>1, <3>1 DEF IInv, AnswersOwnRequest
  <2>4. QED
    BY <2>1, <2>2, <2>3, CommittedSame DEF IInv
<1>5. ASSUME NEW k \in Keys, PassTTL(k)
      PROVE  IInv'
  <2>1. UNCHANGED <<effects, record, generation, answered, pc, request, faults>>
        /\ aged' = aged \cup {k}
    BY <1>5 DEF PassTTL
  <2>2. TypeOK' /\ RequestsAreSound' /\ AnswersOwnRequest'
    BY <2>1 DEF IInv, TypeOK, RequestsAreSound, AnswersOwnRequest
  <2>3. QED
    BY <2>1, <2>2, CommittedSame DEF IInv
<1>6. CASE Cleanup
  <2>1. /\ record' = [k \in Keys |-> IF k \in aged THEN NoRecord ELSE record[k]]
        /\ generation' = [k \in Keys |-> IF k \in aged THEN generation[k] + 1 ELSE generation[k]]
        /\ aged' = {}
        /\ UNCHANGED <<effects, answered, pc, request, faults>>
        /\ generation \in [Keys -> Nat]
    BY <1>6 DEF Cleanup, IInv, TypeOK
  <2>2. TypeOK' /\ RequestsAreSound' /\ AnswersOwnRequest' /\ OncePerKey' /\ LenBound'
    BY <2>1 DEF IInv, TypeOK, RequestsAreSound, AnswersOwnRequest, OncePerKey, LenBound
  <2>3. RecordsNameEffects'
    BY <2>1 DEF IInv, RecordsNameEffects
  <2>4. \A i \in DOMAIN effects : effects[i].key \in Keys \cup {NoKey} /\ effects[i].generation \in Nat
    <3>1. effects \in Seq(Effect)
      BY DEF IInv, TypeOK
    <3>2. \A i \in DOMAIN effects : effects[i] \in Effect
      BY <3>1
    <3>3. QED
      BY <3>2 DEF Effect
  <2>5. GenerationsBegun'
    BY <2>1, <2>4 DEF IInv, GenerationsBegun, Generation
  <2>6. EffectIsRemembered'
    BY <2>1, <2>4 DEF IInv, GenerationsBegun, EffectIsRemembered, Generation
  <2>7. QED
    BY <2>2, <2>3, <2>5, <2>6 DEF IInv
<1>7. CASE UNCHANGED vars
  BY <1>7, CommittedSame DEF vars, IInv, TypeOK, RequestsAreSound, AnswersOwnRequest
<1>8. QED
  BY <1>1, <1>2, <1>3, <1>4, <1>5, <1>6, <1>7 DEF Next, Step

LEMMA Invariance == Spec => []IInv
<1>1. QED
  BY InitInv, NextInv, PTL DEF Spec

(* Every variable keeps its type.                                          *)
THEOREM TypeCorrect == Spec => []TypeOK
<1>1. IInv => TypeOK
  BY DEF IInv
<1>2. QED
  BY <1>1, Invariance, PTL

(* A key moves value at most once per generation of its record.            *)
THEOREM AtMostOnce == Spec => []OncePerKey
<1>1. IInv => OncePerKey
  BY DEF IInv
<1>2. QED
  BY <1>1, Invariance, PTL

(* What was carried out under a key is remembered until its record goes.   *)
THEOREM NothingIsForgotten == Spec => []EffectIsRemembered
<1>1. IInv => EffectIsRemembered
  BY DEF IInv
<1>2. QED
  BY <1>1, Invariance, PTL

(* Every answer is the outcome of the client's own key and body.           *)
THEOREM OwnAnswer == Spec => []AnswersOwnRequest
<1>1. IInv => AnswersOwnRequest
  BY DEF IInv
<1>2. QED
  BY <1>1, Invariance, PTL
=============================================================================
