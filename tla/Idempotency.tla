----------------------------- MODULE Idempotency -----------------------------
(***************************************************************************)
(* IdempotencyService.execute: a request that carries an Idempotency-Key   *)
(* runs once, whatever is retried, raced or lost.  The record of a key is  *)
(* inserted in the transaction that carries out the request, under a       *)
(* unique index, and a repeated request is answered from it.  Records are  *)
(* removed after their time to live, and the key begins a new generation.  *)
(***************************************************************************)
EXTENDS Naturals, Sequences

CONSTANTS
  Keys,         \* idempotency keys of one store and endpoint
  NoKey,        \* a request without the header
  Bodies,       \* request bodies, told apart by their hash
  Handlers,     \* requests in flight
  MaxEffects,   \* bound on what is carried out
  MaxFaults     \* bound on crashes

ASSUME IdempotencyAssumption ==
  /\ NoKey \notin Keys
  /\ MaxEffects \in Nat
  /\ MaxFaults \in Nat

VARIABLES
  effects,     \* what has been committed: [key, body, generation], in order
  record,      \* record[k]: the record of key k, or NoRecord
  generation,  \* generation[k]: how many records of k have been removed
  aged,        \* keys whose record has outlived its time to live
  answered,    \* what clients were told: [key, body, generation, effect]
  pc,          \* where each handler is
  request,     \* what each handler is working on
  faults

vars == <<effects, record, generation, aged, answered, pc, request, faults>>

NoRecord == [body |-> "none", effect |-> 0]
Record   == [body : Bodies, effect : 1 .. MaxEffects]

(* The effect a request is answered with, 0 while there is none.           *)
Req(k, b, e, g) == [key |-> k, body |-> b, effect |-> e, generation |-> g]

NoRequest == Req(NoKey, "none", 0, 0)

Request == [key : Keys \cup {NoKey}, body : Bodies \cup {"none"}, effect : 0 .. MaxEffects,
            generation : Nat]

Effect == [key : Keys \cup {NoKey}, body : Bodies, generation : Nat]
Answered == [key : Keys \cup {NoKey}, body : Bodies, generation : Nat, effect : 1 .. MaxEffects]

Init ==
  /\ effects = <<>>
  /\ record = [k \in Keys |-> NoRecord]
  /\ generation = [k \in Keys |-> 0]
  /\ aged = {}
  /\ answered = {}
  /\ pc = [h \in Handlers |-> "idle"]
  /\ request = [h \in Handlers |-> NoRequest]
  /\ faults = 0

Goto(h, l) == pc' = [pc EXCEPT ![h] = l]

Finish(h) ==
  /\ Goto(h, "idle")
  /\ request' = [request EXCEPT ![h] = NoRequest]

(* The answer to give, with the generation it belongs to.                  *)
Hold(h, e, g) ==
  request' = [request EXCEPT ![h] = Req(request[h].key, request[h].body, e, g)]

Generation(k) == IF k = NoKey THEN 0 ELSE generation[k]

(* A first attempt or a retry: the client may send the same again at any   *)
(* time, and the header is optional.                                       *)
Submit(h, k, b) ==
  /\ pc[h] = "idle"
  /\ request' = [request EXCEPT ![h] = Req(k, b, 0, 0)]
  /\ Goto(h, IF k = NoKey THEN "run" ELSE "find")
  /\ UNCHANGED <<effects, record, generation, aged, answered, faults>>

(* Mutant: the body of the record is not compared.                         *)
ReplayAnyBody(h) ==
  LET r == record[request[h].key]
  IN  /\ r # NoRecord
      /\ Hold(h, r.effect, generation[request[h].key])
      /\ Goto(h, "reply")

(* replay(): the stored answer, for the same body only.                    *)
Replay(h) ==
  LET r == record[request[h].key]
  IN  /\ r # NoRecord
      /\ r.body = request[h].body
      /\ Hold(h, r.effect, generation[request[h].key])
      /\ Goto(h, "reply")

(* replay(): the key was used for another body; the request is refused.    *)
Refuse(h) ==
  LET r == record[request[h].key]
  IN  /\ r # NoRecord
      /\ r.body # request[h].body
      /\ Finish(h)

FindPrior(h) ==
  /\ pc[h] = "find"
  /\ \/ Replay(h)
     \/ Refuse(h)
     \/ /\ record[request[h].key] = NoRecord
        /\ Goto(h, "run")
        /\ UNCHANGED request
  /\ UNCHANGED <<effects, record, generation, aged, answered, faults>>

(* Mutant: the record is written with an upsert.                           *)
InsertableAlways(k) == TRUE

(* The unique index on (storeId, endpoint, idempotencyKey) lets the record *)
(* in.                                                                     *)
Insertable(k) == k \in Keys => record[k] = NoRecord

(* Mutant: the record is left for a write after the transaction, which a   *)
(* crash may prevent.                                                      *)
RunAndRecordLater(h) ==
  LET k == request[h].key
      b == request[h].body
      n == Len(effects) + 1
  IN  /\ pc[h] = "run"
      /\ n <= MaxEffects
      /\ Insertable(k)
      /\ effects' = Append(effects, [key |-> k, body |-> b, generation |-> Generation(k)])
      /\ Hold(h, n, Generation(k))
      /\ Goto(h, "reply")
      /\ UNCHANGED <<record, generation, aged, answered, faults>>

(* run(tx) and the insert of the record commit together.                   *)
RunAndCommit(h) ==
  LET k == request[h].key
      b == request[h].body
      n == Len(effects) + 1
  IN  /\ pc[h] = "run"
      /\ n <= MaxEffects
      /\ Insertable(k)
      /\ effects' = Append(effects, [key |-> k, body |-> b, generation |-> Generation(k)])
      /\ record' = [j \in Keys |-> IF j = k THEN [body |-> b, effect |-> n] ELSE record[j]]
      /\ Hold(h, n, Generation(k))
      /\ Goto(h, "reply")
      /\ UNCHANGED <<generation, aged, answered, faults>>

(* The insert met the record of a concurrent request: P2002, and the whole *)
(* transaction is rolled back.                                             *)
LoseInsert(h) ==
  /\ pc[h] = "run"
  /\ ~Insertable(request[h].key)
  /\ Goto(h, "lost")
  /\ UNCHANGED <<effects, record, generation, aged, answered, request, faults>>

(* run(tx) itself fails: on a rule of the business, or on another unique   *)
(* index, which looks like a lost insert to a request that carries a key.  *)
RunFails(h) ==
  /\ pc[h] = "run"
  /\ \/ Finish(h)
     \/ request[h].key # NoKey /\ Goto(h, "lost") /\ UNCHANGED request
  /\ UNCHANGED <<effects, record, generation, aged, answered, faults>>

(* The loser answers for the winner, or rethrows when there is none.       *)
FindWinner(h) ==
  /\ pc[h] = "lost"
  /\ \/ Replay(h)
     \/ Refuse(h)
     \/ record[request[h].key] = NoRecord /\ Finish(h)
  /\ UNCHANGED <<effects, record, generation, aged, answered, faults>>

Reply(h) ==
  /\ pc[h] = "reply"
  /\ answered' = answered \cup
       {[key |-> request[h].key, body |-> request[h].body,
         generation |-> request[h].generation, effect |-> request[h].effect]}
  /\ Finish(h)
  /\ UNCHANGED <<effects, record, generation, aged, faults>>

(* The process dies, before or after the commit: nobody is answered.       *)
Crash(h) ==
  /\ faults < MaxFaults
  /\ faults' = faults + 1
  /\ pc[h] # "idle"
  /\ Finish(h)
  /\ UNCHANGED <<effects, record, generation, aged, answered>>

(* The time to live (a day) is longer than any request takes.              *)
PassTTL(k) ==
  /\ record[k] # NoRecord
  /\ k \notin aged
  /\ \A h \in Handlers : request[h].key # k
  /\ aged' = aged \cup {k}
  /\ UNCHANGED <<effects, record, generation, answered, pc, request, faults>>

(* idempotencyCleanup: one statement deletes all expired records.  Until   *)
(* it has run, an expired record is still answered from.                   *)
Cleanup ==
  /\ aged # {}
  /\ record' = [k \in Keys |-> IF k \in aged THEN NoRecord ELSE record[k]]
  /\ generation' = [k \in Keys |-> IF k \in aged THEN generation[k] + 1 ELSE generation[k]]
  /\ aged' = {}
  /\ UNCHANGED <<effects, answered, pc, request, faults>>

Step(h) ==
  \/ FindPrior(h)
  \/ RunAndCommit(h)
  \/ LoseInsert(h)
  \/ RunFails(h)
  \/ FindWinner(h)
  \/ Reply(h)

Next ==
  \/ \E h \in Handlers, k \in Keys \cup {NoKey}, b \in Bodies : Submit(h, k, b)
  \/ \E h \in Handlers : Step(h) \/ Crash(h)
  \/ \E k \in Keys : PassTTL(k)
  \/ Cleanup

Spec == Init /\ [][Next]_vars

-----------------------------------------------------------------------------
(* Properties.                                                             *)

TypeOK ==
  /\ effects \in Seq(Effect)
  /\ record \in [Keys -> Record \cup {NoRecord}]
  /\ generation \in [Keys -> Nat]
  /\ aged \subseteq Keys
  /\ answered \subseteq Answered
  /\ pc \in [Handlers -> {"idle", "find", "run", "lost", "reply"}]
  /\ request \in [Handlers -> Request]
  /\ faults \in 0 .. MaxFaults

(* A key moves value once per generation of its record, however the        *)
(* requests that carry it race, fail or are sent again.                    *)
OncePerKey ==
  \A i, j \in DOMAIN effects :
     /\ effects[i].key # NoKey
     /\ effects[i].key = effects[j].key
     /\ effects[i].generation = effects[j].generation
     => i = j

(* A client is answered with an effect of its own key and its own body:    *)
(* never with the outcome of a request that asked for something else.      *)
AnswersOwnRequest ==
  \A a \in answered :
     /\ a.effect \in DOMAIN effects
     /\ effects[a.effect] = [key |-> a.key, body |-> a.body, generation |-> a.generation]

(* What was carried out under a key is remembered until the record is      *)
(* removed: a crash after the commit leaves an effect that a retry finds.  *)
EffectIsRemembered ==
  \A i \in DOMAIN effects :
     LET e == effects[i]
     IN  e.key # NoKey /\ e.generation = Generation(e.key)
           => record[e.key] = [body |-> e.body, effect |-> i]
=============================================================================
