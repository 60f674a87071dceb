---------------------------- MODULE MCRideCommand ----------------------------
(* Two keys, each used by duplicates of one request and by a different one.  *)
EXTENDS RideCommand

CONSTANTS k1, k2, q1, q2, s1, s2, s3

\* A create reads once beside its transaction, a lock three times: two is
\* enough for a read to come after a read.
MCReads == [q \in Request |-> IF q = q1 THEN 2 ELSE 1]
=============================================================================
