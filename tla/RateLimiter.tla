---------------------------- MODULE RateLimiter ----------------------------
(***************************************************************************)
(* internal/api/ratelimiter.go: token buckets by client address under one  *)
(* mutex, and the sweep that evicts idle ones.  Allow reads the clock for  *)
(* lastSeen, for Reserve, for Delay and for Cancel, and time passes in     *)
(* between, so it is four steps with the mutex held.                       *)
(*                                                                         *)
(* Levels are in ticks of refill time: a token is Cost ticks (1 / Rps).    *)
(* A level is negative while a reservation lies in the future.             *)
(***************************************************************************)
EXTENDS Integers

CONSTANTS Client,          \* addresses
          Caller,          \* calls of Allow, one at a time each
          Burst, Cost,     \* tokens of a full bucket; ticks of one token
          CleanupInterval, \* constants.RateLimitCleanupInterval, in ticks
          Null

\* config.go asks for a positive rate and a burst of at least 1.  Nothing asks
\* for an interval in which a bucket fills: an idle client may be evicted, and
\* come back to a full bucket, before its own is full again.
ASSUME LimiterAssumption ==
  /\ Burst \in Nat \ {0}
  /\ Cost \in Nat \ {0}
  /\ CleanupInterval \in Nat
ASSUME NullLockAssumption == Null \notin [level : Int, idle : Nat]

Capacity == Burst * Cost

VARIABLES clients, \* the map: [level, idle] of each known client, or Null
          lock,    \* the call that holds the mutex
          verdict  \* what Allow has answered each caller

limiterVars == <<clients, lock, verdict>>

Unlocked == [stage |-> "free", caller |-> Null, client |-> Null, left |-> 0]

LimiterInit ==
  /\ clients = [c \in Client |-> Null]
  /\ lock = Unlocked
  /\ verdict = [k \in Caller |-> "none"]

Free == lock.stage = "free"

\* A client that is not in the map gets a new, full limiter.
Level(c) == IF clients[c] = Null THEN Capacity ELSE clients[c].level

AtMost(n, m) == IF n < m THEN n ELSE m

Locked(stage, k, c, left) == lock' = [stage |-> stage, caller |-> k, client |-> c, left |-> left]

\* VARIANT: only a new client is marked as seen.
SeeUnmarked(k, c) ==
  /\ Free
  /\ clients' = [clients EXCEPT ![c] =
                   [level |-> Level(c), idle |-> IF clients[c] = Null THEN 0 ELSE clients[c].idle]]
  /\ Locked("seen", k, c, 0)
  /\ UNCHANGED verdict

\* Allow as far as lastSeen, which is now.
See(k, c) ==
  /\ Free
  /\ clients' = [clients EXCEPT ![c] = [level |-> Level(c), idle |-> 0]]
  /\ Locked("seen", k, c, 0)
  /\ UNCHANGED verdict

\* One token is booked, if need be in the future.
Reserve ==
  LET c == lock.client
      level == clients[c].level
  IN  /\ lock.stage = "seen"
      /\ clients' = [clients EXCEPT ![c].level = @ - Cost]
      /\ Locked("judge", lock.caller, c, IF level < Cost THEN Cost - level ELSE 0)
      /\ UNCHANGED verdict

\* Delay: no wait (any more) is the permission, otherwise the token goes back.
Judge ==
  /\ lock.stage = "judge"
  /\ IF lock.left <= 0
       THEN /\ verdict' = [verdict EXCEPT ![lock.caller] = "allowed"]
            /\ lock' = Unlocked
       ELSE /\ lock' = [lock EXCEPT !.stage = "cancel"]
            /\ UNCHANGED verdict
  /\ UNCHANGED clients

\* Cancel does nothing for a reservation whose time has come meanwhile.
Cancel ==
  /\ lock.stage = "cancel"
  /\ clients' = IF lock.left < 0 THEN clients
                  ELSE [clients EXCEPT ![lock.client].level = AtMost(@ + Cost, Capacity)]
  /\ verdict' = [verdict EXCEPT ![lock.caller] = "denied"]
  /\ lock' = Unlocked

\* rateLimit has turned the verdict into a 429 or called the handler.
Return(k) ==
  /\ verdict[k] # "none"
  /\ verdict' = [verdict EXCEPT ![k] = "none"]
  /\ UNCHANGED <<clients, lock>>

\* Sweep evicts who has been idle for longer than the interval.
Stale(c) == clients[c] # Null /\ clients[c].idle > CleanupInterval

Sweep ==
  /\ Free
  /\ \E c \in Client : Stale(c)
  /\ clients' = [c \in Client |-> IF Stale(c) THEN Null ELSE clients[c]]
  /\ UNCHANGED <<lock, verdict>>

\* A reservation comes nearer.
Waiting == lock.stage \in {"judge", "cancel"}

\* Idle times are counted up to the first that is stale, a reservation that is
\* past to -1: nothing tells larger ones apart.
Tick ==
  /\ clients' = [c \in Client |->
                   IF clients[c] = Null THEN Null
                   ELSE [level |-> AtMost(clients[c].level + 1, Capacity),
                         idle |-> AtMost(clients[c].idle + 1, CleanupInterval + 1)]]
  /\ lock' = [lock EXCEPT !.left = IF Waiting /\ @ >= 0 THEN @ - 1 ELSE @]
  /\ UNCHANGED verdict

LimiterNext ==
  \/ \E k \in Caller : Return(k) \/ \E c \in Client : verdict[k] = "none" /\ See(k, c)
  \/ Reserve \/ Judge \/ Cancel \/ Sweep \/ Tick

LimiterSpec == LimiterInit /\ [][LimiterNext]_limiterVars

-----------------------------------------------------------------------------
(* Properties *)

LimiterTypeOK ==
  /\ clients \in [Client -> [level : -Cost .. Capacity, idle : 0 .. CleanupInterval + 1]
                            \cup {Null}]
  /\ lock \in [stage : {"free", "seen", "judge", "cancel"}, caller : Caller \cup {Null},
               client : Client \cup {Null}, left : -1 .. Cost]
  /\ verdict \in [Caller -> {"none", "allowed", "denied"}]

\* A booked token counts as taken once its time has come; a client that is not
\* in the map counts as one with a full bucket that has been quiet for long.
Bucket == INSTANCE TokenBucket WITH
            bucket <- [c \in Client |-> IF Level(c) < 0 THEN Level(c) + Cost ELSE Level(c)],
            quiet <- [c \in Client |-> IF clients[c] = Null THEN CleanupInterval + 1
                                       ELSE clients[c].idle],
            asking <- IF lock.stage = "seen" \/ (Waiting /\ lock.left > 0)
                        THEN {<<lock.caller, lock.client>>} ELSE {},
            taken <- IF Waiting /\ lock.left <= 0 THEN {lock.caller} ELSE {}

\* No interleaving of calls, clock and sweep lets a client through more often
\* than one permission for one token of a bucket of its own, which time alone
\* fills as long as the client keeps asking: an active client is never evicted
\* mid-use, and one that pauses shorter than the interval gains nothing.
ImplementsBucket == Bucket!Init /\ [][Bucket!Next]_(Bucket!vars)
=============================================================================
