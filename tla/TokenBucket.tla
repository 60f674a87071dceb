---------------------------- MODULE TokenBucket ----------------------------
(***************************************************************************)
(* What a rate limiter promises: each client has a bucket that fills with  *)
(* time, and a caller is let through only against a token taken from the   *)
(* bucket of the client it asks for.  A bucket is filled up at once only   *)
(* for a client that has not asked for longer than CleanupInterval.        *)
(*                                                                         *)
(* A bucket is measured in the time it took to fill: a token is Cost       *)
(* ticks, a full bucket Capacity.                                          *)
(***************************************************************************)
EXTENDS Integers

CONSTANTS Client, Caller, Cost, Capacity, CleanupInterval

VARIABLES bucket,   \* what each client has in its bucket
          quiet,    \* ticks since it last asked, up to the first too many
          asking,   \* <<caller, client>> without a token or an answer yet
          taken,    \* callers that hold a token and have no answer yet
          verdict   \* the last answer to each caller

vars == <<bucket, quiet, asking, taken, verdict>>

LongQuiet == CleanupInterval + 1

Filled(c) == IF bucket[c] < Capacity THEN bucket[c] + 1 ELSE Capacity

Init ==
  /\ bucket = [c \in Client |-> Capacity]
  /\ quiet = [c \in Client |-> LongQuiet]
  /\ asking = {}
  /\ taken = {}
  /\ verdict = [k \in Caller |-> "none"]

Ask(k, c) ==
  /\ asking' = asking \cup {<<k, c>>}
  /\ quiet' = [quiet EXCEPT ![c] = 0]
  /\ UNCHANGED <<bucket, taken, verdict>>

Take(k, c) ==
  /\ <<k, c>> \in asking
  /\ bucket[c] >= Cost
  /\ bucket' = [bucket EXCEPT ![c] = @ - Cost]
  /\ asking' = asking \ {<<k, c>>}
  /\ taken' = taken \cup {k}
  /\ UNCHANGED <<quiet, verdict>>

Ages == quiet' = [c \in Client |-> IF quiet[c] < LongQuiet THEN quiet[c] + 1 ELSE LongQuiet]

\* Time passes; at the end of it a caller who waits may take its token.
Pass ==
  /\ bucket' = [c \in Client |-> Filled(c)]
  /\ Ages
  /\ UNCHANGED <<asking, taken, verdict>>

PassAndTake(k, c) ==
  /\ <<k, c>> \in asking
  /\ Filled(c) >= Cost
  /\ bucket' = [d \in Client |-> IF d = c THEN Filled(d) - Cost ELSE Filled(d)]
  /\ asking' = asking \ {<<k, c>>}
  /\ taken' = taken \cup {k}
  /\ Ages
  /\ UNCHANGED verdict

Grant(k) ==
  /\ k \in taken
  /\ taken' = taken \ {k}
  /\ verdict' = [verdict EXCEPT ![k] = "allowed"]
  /\ UNCHANGED <<bucket, quiet, asking>>

\* A token that was taken too late for its caller may be lost or go back.
Deny(k) ==
  /\ asking' = {a \in asking : a[1] # k}
  /\ taken' = taken \ {k}
  /\ verdict' = [verdict EXCEPT ![k] = "denied"]
  /\ UNCHANGED <<bucket, quiet>>

GiveBack(k, c) ==
  /\ k \in taken
  /\ taken' = taken \ {k}
  /\ bucket' = [bucket EXCEPT ![c] = IF @ + Cost < Capacity THEN @ + Cost ELSE Capacity]
  /\ verdict' = [verdict EXCEPT ![k] = "denied"]
  /\ UNCHANGED <<quiet, asking>>

\* Clients nobody has heard of for too long are as good as new.
Forgive(S) ==
  /\ asking = {} /\ taken = {}
  /\ \A c \in S : quiet[c] = LongQuiet
  /\ bucket' = [c \in Client |-> IF c \in S THEN Capacity ELSE bucket[c]]
  /\ UNCHANGED <<quiet, asking, taken, verdict>>

Leave(k) ==
  /\ verdict' = [verdict EXCEPT ![k] = "none"]
  /\ UNCHANGED <<bucket, quiet, asking, taken>>

Next ==
  \/ Pass
  \/ \E S \in SUBSET Client : Forgive(S)
  \/ \E k \in Caller :
       \/ Grant(k) \/ Deny(k) \/ Leave(k)
       \/ \E c \in Client : Ask(k, c) \/ Take(k, c) \/ PassAndTake(k, c) \/ GiveBack(k, c)

Spec == Init /\ [][Next]_vars
=============================================================================
