------------------------- MODULE PointsExpiryHistory -------------------------
(***************************************************************************)
(* One customer's movements, one at a time, as the rule of PointsExpiry    *)
(* meets them, and the table of lots that the rule does without.           *)
(***************************************************************************)
EXTENDS PointsExpiry

CONSTANTS
  Sizes,     \* points of one movement
  MaxMoves   \* bound on the movements of the customer

ASSUME HistoryAssumption == Sizes \subseteq Nat /\ MaxMoves \in Nat

VARIABLES
  txns,      \* signed points of the CONFIRMED movements, oldest first
  window     \* the first `window` movements are old enough to expire

historyVars == <<txns, window>>

HistoryInit == txns = <<>> /\ window = 0

Earn(n) ==
  /\ txns' = Append(txns, n)
  /\ UNCHANGED window

Consume(n) ==
  /\ n <= Balance(txns)
  /\ txns' = Append(txns, -n)
  /\ UNCHANGED window

(* Time passes.                                                            *)
WindowMoves(k) ==
  /\ k > window
  /\ window' = k
  /\ UNCHANGED txns

(* expireCustomer, alone.                                                  *)
Expire ==
  LET n == AtRiskBefore(txns, Balance(txns), window)
  IN  /\ n > 0
      /\ txns' = Append(txns, -n)
      /\ UNCHANGED window

HistoryNext ==
  \/ Len(txns) < MaxMoves /\ (Expire \/ \E n \in Sizes : Earn(n) \/ Consume(n))
  \/ \E k \in 1 .. Len(txns) : WindowMoves(k)

HistorySpec == HistoryInit /\ [][HistoryNext]_historyVars

-----------------------------------------------------------------------------
(* The lots the rule stands for.                                           *)

(* Lots(t)[k][i]: what is left of the i-th movement after the first k,     *)
(* when every reduction takes from the oldest lot that has points.         *)
Lots(t) ==
  LET lots[k \in 0 .. Len(t)] ==
        IF k = 0
        THEN [i \in DOMAIN t |-> 0]
        ELSE IF t[k] > 0
        THEN [lots[k - 1] EXCEPT ![k] = t[k]]
        ELSE [i \in DOMAIN t |->
                Above0(lots[k - 1][i]
                         - Above0(-t[k] - Total(1 .. i - 1, lots[k - 1])))]
  IN  lots[Len(t)]

(* The points still alive from before a cutoff, lot by lot.                *)
AliveBefore(t, cut) == Total(1 .. cut, Lots(t))

(* The rule gives what a table of lots would give, for every history and   *)
(* every cutoff.                                                           *)
RuleIsFifo ==
  \A cut \in 0 .. Len(txns) : AtRiskBefore(txns, Balance(txns), cut) = AliveBefore(txns, cut)

(* What customers are warned of, the points at risk at a later cutoff less *)
(* those due now, is what goes then if they let it.                        *)
WarnedIsWhatExpires ==
  \A cut \in 0 .. Len(txns) : \A warn \in cut .. Len(txns) :
    LET due == AtRiskBefore(txns, Balance(txns), cut)
        warned == AtRiskBefore(txns, Balance(txns), warn) - due
    IN  /\ warned >= 0
        /\ AtRiskBefore(Append(txns, -due), Balance(txns) - due, warn) = warned
=============================================================================
