-------------------------------- MODULE Games --------------------------------
(***************************************************************************)
(* GamesService: the prizes of one active game, drawn by instant plays and *)
(* by the reveal of scratch cards, many at once.  A draw reads the prizes, *)
(* picks one by chance, claims a unit of it and starts again without it    *)
(* when somebody else took the last.  Names that other components have too *)
(* begin with the component's, so that a module can extend both.           *)
(***************************************************************************)
EXTENDS Integers, FiniteSets

CONSTANTS
  Cards,       \* scratch cards: plays that are issued first, revealed later
  Requests,    \* requests that draw; an instant play is named for its request
  Prizes,
  PointPrizes, \* those that credit points to the customer of the play
  NoPrize,
  Endless,     \* prizes created with an unlimited stock
  MaxStock,    \* bound on the stock of the others
  Attempts,    \* rounds of claimPrize, 10 in the code
  MaxGameFaults \* bound on crashes and failed calls

ASSUME GamesAssumption ==
  /\ IsFiniteSet(Cards)
  /\ IsFiniteSet(Requests)
  /\ IsFiniteSet(Prizes)
  /\ PointPrizes \subseteq Prizes
  /\ Endless \subseteq Prizes
  /\ NoPrize \notin Prizes
  /\ Cards \cap Requests = {}
  /\ MaxStock \in Nat
  /\ Attempts \in Nat
  /\ MaxGameFaults \in Nat

VARIABLES
  stock,    \* Prize.stock, -1 when it is unlimited
  awarded,  \* Prize.awarded
  supplied, \* history: the units that were ever put in a limited stock
  kinds,    \* history: whether the prize was "limited", "unlimited" or both
  play,     \* GamePlay.status, "none" before there is a row
  prizeOf,  \* GamePlay.prizeId
  credits,  \* points credited, by request and prize
  gamePc,
  target,   \* the play a request draws for
  excluded, \* the prizes it has lost to others
  chosen,   \* the prize it picked
  free,     \* whether that was unlimited when it was read
  gameFaults

gamesVars == <<stock, awarded, supplied, kinds, play, prizeOf, credits, gamePc, target, excluded,
               chosen, free, gameFaults>>

Plays == Cards \cup Requests

stockroom == <<stock, awarded, supplied, kinds>>
outcome   == <<play, prizeOf, credits>>
draw      == <<target, excluded, chosen, free>>

GamesInit ==
  /\ stock \in {s \in [Prizes -> -1 .. MaxStock] : \A z \in Prizes : s[z] = -1 <=> z \in Endless}
  /\ awarded = [z \in Prizes |-> 0]
  /\ supplied = [z \in Prizes |-> IF z \in Endless THEN 0 ELSE stock[z]]
  /\ kinds = [z \in Prizes |-> IF z \in Endless THEN {"unlimited"} ELSE {"limited"}]
  /\ play = [i \in Plays |-> "none"]
  /\ prizeOf = [i \in Plays |-> NoPrize]
  /\ credits = {}
  /\ gamePc = [r \in Requests |-> "idle"]
  /\ target = [r \in Requests |-> r]
  /\ excluded = [r \in Requests |-> {}]
  /\ chosen = [r \in Requests |-> NoPrize]
  /\ free = [r \in Requests |-> FALSE]
  /\ gameFaults = 0

GameGoto(r, l) == gamePc' = [gamePc EXCEPT ![r] = l]

GameFault == gameFaults < MaxGameFaults /\ gameFaults' = gameFaults + 1

-----------------------------------------------------------------------------
(* The merchant, and the paid payment.                                     *)

(* updatePrize: the stock is put down, whatever is drawn meanwhile.        *)
UpdatePrize(z, n) ==
  /\ n # stock[z]
  /\ stock' = [stock EXCEPT ![z] = n]
  /\ supplied' = [supplied EXCEPT ![z] = IF n = -1 \/ stock[z] = -1 THEN 0 ELSE @ + n - stock[z]]
  /\ kinds' = [kinds EXCEPT ![z] = @ \cup {IF n = -1 THEN "unlimited" ELSE "limited"}]
  /\ UNCHANGED <<awarded, outcome, gamePc, draw, gameFaults>>

(* issueForPayment and issuePlay: a card to be revealed later.             *)
IssueCard(i) ==
  /\ play[i] = "none"
  /\ play' = [play EXCEPT ![i] = "ISSUED"]
  /\ UNCHANGED <<stockroom, prizeOf, credits, gamePc, draw, gameFaults>>

-----------------------------------------------------------------------------
(* reveal and play.                                                        *)

(* A revealed card answers with its stored outcome.                        *)
Reveal(r, i) ==
  /\ gamePc[r] = "idle"
  /\ play[i] # "none"
  /\ target' = [target EXCEPT ![r] = i]
  /\ GameGoto(r, IF play[i] = "REVEALED" THEN "done" ELSE "pick")
  /\ UNCHANGED <<stockroom, outcome, excluded, chosen, free, gameFaults>>

Play(r) ==
  /\ gamePc[r] = "idle"
  /\ GameGoto(r, "pick")
  /\ UNCHANGED <<stockroom, outcome, draw, gameFaults>>

Available(r) == {z \in Prizes \ excluded[r] : stock[z] = -1 \/ stock[z] > 0}

(* Mutant: off by one, the last round is not played.                       *)
OneRoundLess(r) == Cardinality(excluded[r]) + 1 < Attempts

(* Each round but the last has excluded one prize.                         *)
RoundsLeft(r) == Cardinality(excluded[r]) < Attempts

Pick(r) ==
  /\ gamePc[r] = "pick"
  /\ RoundsLeft(r)
  /\ \E z \in Available(r) :
       /\ chosen' = [chosen EXCEPT ![r] = z]
       /\ free' = [free EXCEPT ![r] = stock[z] = -1]
  /\ GameGoto(r, "claim")
  /\ UNCHANGED <<stockroom, outcome, target, excluded, gameFaults>>

PickNothing(r) ==
  /\ gamePc[r] = "pick"
  /\ ~RoundsLeft(r) \/ Available(r) = {}
  /\ chosen' = [chosen EXCEPT ![r] = NoPrize]
  /\ GameGoto(r, "record")
  /\ UNCHANGED <<stockroom, outcome, target, excluded, free, gameFaults>>

(* An unlimited prize needs no claim, only its count.                      *)
ClaimFree(r) ==
  /\ gamePc[r] = "claim"
  /\ free[r]
  /\ awarded' = [awarded EXCEPT ![chosen[r]] = @ + 1]
  /\ GameGoto(r, "record")
  /\ UNCHANGED <<stock, supplied, kinds, outcome, draw, gameFaults>>

(* Mutant: the unit is taken because the stock was there when it was read. *)
AsRead(r) == TRUE

(* The condition of updateMany.                                            *)
InStock(r) == stock[chosen[r]] > 0

(* Mutant: the unit leaves the stock and is not counted as awarded.        *)
ClaimUncounted(r) ==
  /\ gamePc[r] = "claim"
  /\ ~free[r]
  /\ InStock(r)
  /\ stock' = [stock EXCEPT ![chosen[r]] = @ - 1]
  /\ GameGoto(r, "record")
  /\ UNCHANGED <<awarded, supplied, kinds, outcome, draw, gameFaults>>

Claim(r) ==
  /\ gamePc[r] = "claim"
  /\ ~free[r]
  /\ InStock(r)
  /\ stock' = [stock EXCEPT ![chosen[r]] = @ - 1]
  /\ awarded' = [awarded EXCEPT ![chosen[r]] = @ + 1]
  /\ GameGoto(r, "record")
  /\ UNCHANGED <<supplied, kinds, outcome, draw, gameFaults>>

LoseClaim(r) ==
  /\ gamePc[r] = "claim"
  /\ ~free[r]
  /\ ~InStock(r)
  /\ excluded' = [excluded EXCEPT ![r] = @ \cup {chosen[r]}]
  /\ GameGoto(r, "pick")
  /\ UNCHANGED <<stockroom, outcome, target, chosen, free, gameFaults>>

(* A new row for an instant play, an update by id for a card.              *)
Record(r) ==
  /\ gamePc[r] = "record"
  /\ play' = [play EXCEPT ![target[r]] = "REVEALED"]
  /\ prizeOf' = [prizeOf EXCEPT ![target[r]] = chosen[r]]
  /\ GameGoto(r, "credit")
  /\ UNCHANGED <<stockroom, credits, draw, gameFaults>>

(* creditPrize: points, balance and journal in one transaction.            *)
CreditPrize(r) ==
  /\ gamePc[r] = "credit"
  /\ credits' = credits \cup {[by |-> r, prize |-> z] : z \in {chosen[r]} \cap PointPrizes}
  /\ GameGoto(r, "done")
  /\ UNCHANGED <<stockroom, play, prizeOf, draw, gameFaults>>

(* A query fails, or the process dies: what was claimed stays claimed.     *)
DrawFails(r) ==
  /\ gamePc[r] \notin {"idle", "done"}
  /\ GameFault
  /\ GameGoto(r, "done")
  /\ UNCHANGED <<stockroom, outcome, draw>>

Draw(r) ==
  \/ Pick(r)
  \/ PickNothing(r)
  \/ ClaimFree(r)
  \/ Claim(r)
  \/ LoseClaim(r)
  \/ Record(r)
  \/ CreditPrize(r)

GamesNext ==
  \/ \E z \in Prizes, n \in -1 .. MaxStock : UpdatePrize(z, n)
  \/ \E i \in Cards : IssueCard(i)
  \/ \E r \in Requests :
       \/ \E i \in Cards : Reveal(r, i)
       \/ Play(r)
       \/ Draw(r)
       \/ DrawFails(r)

GamesSpec == GamesInit /\ [][GamesNext]_gamesVars

-----------------------------------------------------------------------------
(* Properties.                                                             *)

GamesTypeOK ==
  /\ stock \in [Prizes -> Int]
  /\ awarded \in [Prizes -> Nat]
  /\ supplied \in [Prizes -> Int]
  /\ kinds \in [Prizes -> SUBSET {"limited", "unlimited"}]
  /\ play \in [Plays -> {"none", "ISSUED", "REVEALED"}]
  /\ prizeOf \in [Plays -> Prizes \cup {NoPrize}]
  /\ credits \subseteq [by : Requests, prize : PointPrizes]
  /\ gamePc \in [Requests -> {"idle", "pick", "claim", "record", "credit", "done"}]
  /\ target \in [Requests -> Plays]
  /\ excluded \in [Requests -> SUBSET Prizes]
  /\ chosen \in [Requests -> Prizes \cup {NoPrize}]
  /\ free \in [Requests -> BOOLEAN]
  /\ gameFaults \in 0 .. MaxGameFaults

(* "guarding against over-award under concurrency": a prize that was never *)
(* unlimited gives away what was put in and no more, and its stock never   *)
(* slips below zero, where -1 would make it unlimited.                     *)
NoOverAward ==
  \A z \in Prizes : kinds[z] = {"limited"} =>
    stock[z] >= 0 /\ awarded[z] + stock[z] = supplied[z]

(* What plays show and what customers were credited never exceeds the      *)
(* units that were counted as awarded, crashes and double reveals included.*)
AwardsAreCounted ==
  \A z \in Prizes :
    /\ Cardinality({i \in Plays : prizeOf[i] = z}) <= awarded[z]
    /\ Cardinality({c \in credits : c.prize = z}) <= awarded[z]

(* Losing the last units to others costs a player rounds and not the draw: *)
(* as long as one prize is unlimited throughout and there are more rounds  *)
(* than other prizes, no play is revealed without a prize.                 *)
AlwaysAPrize ==
  (/\ \E z \in Prizes : kinds[z] = {"unlimited"}
   /\ Attempts >= Cardinality(Prizes))
    => \A i \in Plays : play[i] = "REVEALED" => prizeOf[i] # NoPrize

(* "Idempotent - revealing an already-revealed play returns its stored     *)
(* outcome": one card gives points once.                                   *)
OneCreditPerCard ==
  \A c, d \in credits : target[c.by] = target[d.by] => c = d
=============================================================================
