---------------------------- MODULE MCRideRules ----------------------------
(* Team A plays twice in round 1 and once in round 3; round 2 is empty.     *)
EXTENDS RideRules, TLC

CONSTANTS A, B, r1, r2

MCRoundOf  == [m \in Match |-> IF m = 3 THEN 3 ELSE 1]
MCHomeTeam == [m \in Match |-> IF m = 2 THEN B ELSE A]
MCAwayTeam == [m \in Match |-> IF m = 2 THEN A ELSE B]
MCStartsAt == [m \in Match |-> m]

Interchangeable == Permutations(Ride)

\* Bound: a continuation may name any match, so streaks need a ceiling.
MaxStreak == 2
ShortStreaks == \A r \in Ride : ride[r].streak <= MaxStreak
=============================================================================
