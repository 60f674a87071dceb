---------------------------- MODULE MCRideService ----------------------------
(* Schedules for the checks.  In round 1 the team A plays twice, as a team   *)
(* with a rescheduled match does; match 3 belongs to round 2.                *)
EXTENDS RideService, TLC

CONSTANTS A, B, r1, r2, s1, s2

MCRoundOf  == [m \in Match |-> IF m = 3 THEN 2 ELSE 1]
MCHomeTeam == [m \in Match |-> IF m = 2 THEN B ELSE A]
MCAwayTeam == [m \in Match |-> IF m = 2 THEN A ELSE B]
MCStartsAt == [m \in Match |-> CASE m = 1 -> 2 [] m = 2 -> 3 [] OTHER -> 5]

\* Rides are interchangeable, and so are requests.
Interchangeable == Permutations(Ride) \cup Permutations(Session)
=============================================================================
