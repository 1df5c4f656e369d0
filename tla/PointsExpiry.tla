---------------------------- MODULE PointsExpiry ----------------------------
(***************************************************************************)
(* The rule by which loyalty points expire, LoyaltyService.atRiskBefore:   *)
(* first-in first-out without a table of lots, computed from the movements *)
(* of a customer, a sequence of signed points with the oldest first.  The  *)
(* movements 1 .. cut are the ones older than a cutoff.                    *)
(***************************************************************************)
EXTENDS Integers, Sequences, FiniteSetsExt

Above0(n) == IF n < 0 THEN 0 ELSE n

Total(S, t) == MapThenSumSet(LAMBDA i : t[i], S)

Balance(t) == Total(DOMAIN t, t)
EarnedBefore(t, cut) == Total({i \in 1 .. cut : t[i] > 0}, t)
Consumed(t) == -Total({i \in DOMAIN t : t[i] < 0}, t)

(* Mutant: only what was consumed before the cutoff is subtracted.         *)
AtRiskByAge(t, balance, cut) ==
  Above0(Min({Above0(EarnedBefore(t, cut)
                + Total({i \in 1 .. cut : t[i] < 0}, t)), balance}))

(* What expires at a cutoff.                                               *)
AtRiskBefore(t, balance, cut) ==
  Above0(Min({Above0(EarnedBefore(t, cut) - Consumed(t)), balance}))
=============================================================================
