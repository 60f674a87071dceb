-------------------------- MODULE RateLimiterProofs --------------------------
(***************************************************************************)
(* The limiter with its readings of the clock, its bookings in the future  *)
(* and its sweep implements plain token buckets, for any number of clients *)
(* and callers, any rate, any burst and any interval of the sweep.         *)
(*                                                                         *)
(* Two facts carry it.  A level below zero belongs to the call that holds  *)
(* the mutex, and is what that call still has to wait for (Booked): so the *)
(* next call never finds one.  And the longer a client has been idle the   *)
(* fuller its bucket, but for the token its last call took after lastSeen  *)
(* (Refilled): so there is a bound on what an eviction forgives.           *)
(*                                                                         *)
(* The rate in a window (BurstAndRate) is an account: what a client's      *)
(* bucket holds and what is still undecided about it (Credit) is raised by *)
(* time and by evictions only, and every permission is paid from it        *)
(* (Accounted); and there is an interval between two evictions (Spaced).   *)
(***************************************************************************)
EXTENDS RateWindow, TLAPS

Booked ==
    \A c \in Client : clients[c] # Null /\ clients[c].level < 0 =>
        Waiting /\ lock.client = c /\ lock.left = - clients[c].level

Refilled ==
    \A c \in Client : clients[c] # Null =>
        clients[c].level >= AtMost(clients[c].idle, Capacity) - Cost

\* A call that holds the mutex is one of a caller about a client it has seen,
\* and what it waits for is what the client's level lacks.
Held == ~Free => /\ lock.caller \in Caller
                 /\ lock.client \in Client
                 /\ clients[lock.client] # Null
                 /\ Waiting /\ lock.left > 0 => clients[lock.client].level = - lock.left
                 /\ lock.stage = "seen" =>
                      /\ lock.left = 0
                      /\ clients[lock.client].level >= AtMost(clients[lock.client].idle, Capacity)

LInv == LimiterTypeOK /\ Booked /\ Refilled /\ Held

Entry == [level : -Cost .. Capacity, idle : 0 .. CleanupInterval + 1]

-----------------------------------------------------------------------------

\* What the argument needs to know about the numbers.
LEMMA Numbers == /\ Cost \in Nat /\ Cost > 0 /\ CleanupInterval \in Nat
                 /\ Capacity \in Nat /\ Capacity >= Cost
  <1>1. Burst \in Nat /\ Burst >= 1 /\ Cost \in Nat /\ Cost > 0 /\ CleanupInterval \in Nat
    BY LimiterAssumption DEF LimiterAssumption
  <1>3. Burst * Cost \in Nat /\ Burst * Cost >= Cost
    <2>1. \E n \in Nat : Burst = n + 1
      <3>1. Burst - 1 \in Nat /\ Burst = (Burst - 1) + 1
        BY <1>1
      <3> QED BY <3>1
    <2>2. PICK n \in Nat : Burst = n + 1
      BY <2>1
    <2>3. n * Cost \in Nat /\ (n + 1) * Cost = n * Cost + Cost
      BY <1>1
    <2> QED BY <1>1, <2>2, <2>3
  <1> QED BY <1>1, <1>3 DEF Capacity

\* An entry is never mistaken for none.
LEMMA EntryIsThere == Null \notin Entry
  BY NullLockAssumption, Numbers DEF NullLockAssumption, Entry

LEMMA InitLInv == LimiterInit => LInv
  BY Numbers DEF LimiterInit, LInv, LimiterTypeOK, Booked, Refilled, Held, Free, Waiting, Unlocked

\* While nobody waits a level is a number of tokens one may have.
LEMMA LevelRange ==
    ASSUME LInv, NEW c \in Client
    PROVE  /\ Level(c) \in -Cost .. Capacity
           /\ ~Waiting => Level(c) >= 0
  BY Numbers DEF LInv, LimiterTypeOK, Booked, Level

-----------------------------------------------------------------------------
(* The invariant *)

\* What a call makes of the entry of its client.
LEMMA SeesEntry ==
    ASSUME LInv, NEW k \in Caller, NEW c \in Client, See(k, c)
    PROVE  /\ clients'[c] = [level |-> Level(c), idle |-> 0]
           /\ clients'[c] \in Entry /\ clients'[c] # Null
           /\ clients'[c].level = Level(c) /\ clients'[c].idle = 0 /\ Level(c) \in 0 .. Capacity
           /\ \A d \in Client \ {c} : clients'[d] = clients[d]
           /\ clients' \in [Client -> Entry \cup {Null}]
           /\ lock' = [stage |-> "seen", caller |-> k, client |-> c, left |-> 0]
           /\ verdict' = verdict /\ Free /\ ~Waiting
  <1> DEFINE e == [level |-> Level(c), idle |-> 0]
  <1>1. Free /\ ~Waiting /\ verdict' = verdict
    BY DEF See, Free, Waiting
  <1>2. Level(c) \in 0 .. Capacity
    BY <1>1, LevelRange, Numbers
  <1>3. e \in Entry /\ e.level = Level(c) /\ e.idle = 0 /\ e # Null
    BY <1>2, Numbers, EntryIsThere DEF Entry
  <1>4. /\ clients \in [Client -> Entry \cup {Null}]
        /\ clients' = [clients EXCEPT ![c] = e]
        /\ lock' = [stage |-> "seen", caller |-> k, client |-> c, left |-> 0]
    BY DEF LInv, LimiterTypeOK, See, Locked, Entry
  <1> QED BY <1>1, <1>2, <1>3, <1>4

LEMMA ReservesEntry ==
    ASSUME LInv, Reserve, NEW c, c = lock.client
    PROVE  /\ c \in Client /\ lock.caller \in Caller
           /\ clients[c] \in Entry /\ clients[c] # Null /\ clients[c].level \in 0 .. Capacity
           /\ clients'[c] \in Entry /\ clients'[c] # Null
           /\ clients'[c].level = clients[c].level - Cost /\ clients'[c].idle = clients[c].idle
           /\ \A d \in Client \ {c} : clients'[d] = clients[d]
           /\ clients' \in [Client -> Entry \cup {Null}]
           /\ lock' = [stage |-> "judge", caller |-> lock.caller, client |-> c,
                       left |-> IF clients[c].level < Cost THEN Cost - clients[c].level ELSE 0]
           /\ verdict' = verdict /\ lock.stage = "seen" /\ ~Waiting /\ ~Free
  <1> DEFINE e == [clients[c] EXCEPT !.level = @ - Cost]
  <1>1. lock.stage = "seen" /\ ~Waiting /\ ~Free /\ verdict' = verdict
    BY DEF Reserve, Free, Waiting
  <1>2. c \in Client /\ lock.caller \in Caller /\ clients[c] # Null
    BY <1>1 DEF LInv, Held
  <1>3. clients[c] \in Entry
    BY <1>2 DEF LInv, LimiterTypeOK, Entry
  <1>4. clients[c].level \in 0 .. Capacity
    BY <1>1, <1>2, LevelRange, Numbers DEF Level
  <1>5. e \in Entry /\ e.level = clients[c].level - Cost /\ e.idle = clients[c].idle /\ e # Null
    BY <1>3, <1>4, Numbers, EntryIsThere DEF Entry
  <1>6. /\ clients \in [Client -> Entry \cup {Null}]
        /\ clients' = [clients EXCEPT ![c] = e]
        /\ lock' = [stage |-> "judge", caller |-> lock.caller, client |-> c,
                    left |-> IF clients[c].level < Cost THEN Cost - clients[c].level ELSE 0]
    BY DEF LInv, LimiterTypeOK, Reserve, Locked, Entry
  <1> QED BY <1>1, <1>2, <1>3, <1>4, <1>5, <1>6

LEMMA SeeKeeps ==
    ASSUME LInv, NEW k \in Caller, NEW c \in Client, See(k, c)
    PROVE  LInv'
  <1>0. /\ clients'[c] # Null /\ clients'[c].level = Level(c) /\ clients'[c].idle = 0
        /\ Level(c) \in 0 .. Capacity
        /\ \A d \in Client \ {c} : clients'[d] = clients[d]
        /\ clients' \in [Client -> Entry \cup {Null}]
        /\ lock' = [stage |-> "seen", caller |-> k, client |-> c, left |-> 0]
        /\ verdict' = verdict /\ ~Waiting
    BY SeesEntry
  <1>1. LimiterTypeOK'
    <2>1. lock' \in [stage : {"free", "seen", "judge", "cancel"}, caller : Caller \cup {Null},
                     client : Client \cup {Null}, left : -1 .. Cost]
      BY <1>0, Numbers
    <2> QED BY <1>0, <2>1 DEF LInv, LimiterTypeOK, Entry
  <1>2. \A d \in Client : clients[d] # Null => ~(clients[d].level < 0)
    BY <1>0 DEF LInv, Booked
  <1>3. Booked'
    <2>1. ~(clients'[c].level < 0)
      BY <1>0, Numbers
    <2> QED BY <1>0, <1>2, <2>1 DEF Booked
  <1>4. Refilled'
    <2>1. clients'[c].level >= AtMost(clients'[c].idle, Capacity) - Cost
      BY <1>0, Numbers DEF AtMost
    <2> QED BY <1>0, <2>1 DEF LInv, Refilled
  <1>5. Held'
    <2>1. clients'[c].level >= AtMost(clients'[c].idle, Capacity)
      BY <1>0, Numbers DEF AtMost
    <2>2. /\ lock'.stage = "seen" /\ lock'.left = 0 /\ lock'.client = c /\ lock'.caller = k
          /\ ~Waiting'
      BY <1>0 DEF Waiting
    <2> QED BY <1>0, <2>1, <2>2 DEF Held
  <1> QED BY <1>1, <1>3, <1>4, <1>5 DEF LInv

LEMMA ReserveKeeps ==
    ASSUME LInv, Reserve
    PROVE  LInv'
  <1> DEFINE c == lock.client
             w == IF clients[c].level < Cost THEN Cost - clients[c].level ELSE 0
  <1>1. /\ clients[c].level \in 0 .. Capacity
        /\ clients'[c].level = clients[c].level - Cost
        /\ lock' = [stage |-> "judge", caller |-> lock.caller, client |-> c, left |-> w]
    BY ReservesEntry
  <1>2. w \in 0 .. Cost /\ (clients'[c].level < 0 => w = - clients'[c].level)
        /\ (w > 0 => clients'[c].level = - w)
    BY <1>1, Numbers
  <1>3. \A d \in Client \ {c} : clients[d] # Null => ~(clients[d].level < 0)
    BY ReservesEntry, Numbers DEF LInv, LimiterTypeOK, Booked
  <1>4. clients[c].level >= AtMost(clients[c].idle, Capacity) /\ clients[c].idle \in Int
    <2>1. clients[c] \in Entry /\ ~Free /\ lock.stage = "seen"
      BY ReservesEntry
    <2>2. clients[c].idle \in 0 .. CleanupInterval + 1
      BY <2>1 DEF Entry
    <2> QED BY <2>1, <2>2, Numbers DEF LInv, Held
  <1>5. lock' \in [stage : {"free", "seen", "judge", "cancel"}, caller : Caller \cup {Null},
                   client : Client \cup {Null}, left : -1 .. Cost]
    BY <1>1, <1>2, ReservesEntry, Numbers
  <1>6. LimiterTypeOK'
    BY <1>5, ReservesEntry DEF LInv, LimiterTypeOK, Entry
  <1>7. Booked'
    BY <1>1, <1>2, <1>3, ReservesEntry DEF Booked, Waiting
  <1>8. Held'
    BY <1>1, <1>2, ReservesEntry DEF Held, Free, Waiting
  <1>9. Refilled'
    <2>1. clients'[c].level >= AtMost(clients'[c].idle, Capacity) - Cost
      BY <1>1, <1>4, ReservesEntry, Numbers DEF AtMost
    <2> QED BY <2>1, ReservesEntry DEF LInv, Refilled
  <1> QED BY <1>6, <1>7, <1>8, <1>9 DEF LInv

LEMMA CancelKeeps ==
    ASSUME LInv, Cancel
    PROVE  LInv'
  <1> DEFINE c == lock.client
  <1>1. c \in Client /\ clients[c] \in Entry /\ lock.caller \in Caller /\ ~Free /\ Waiting
    BY DEF LInv, LimiterTypeOK, Held, Free, Waiting, Cancel, Entry
  <1>2. /\ clients \in [Client -> Entry \cup {Null}]
        /\ lock' = Unlocked
        /\ verdict' \in [Caller -> {"none", "allowed", "denied"}]
    BY <1>1 DEF LInv, LimiterTypeOK, Cancel, Entry
  <1>3. lock.left \in Int /\ clients[c].level \in -Cost .. Capacity
        /\ clients[c].idle \in 0 .. CleanupInterval + 1
    BY <1>1, Numbers DEF LInv, LimiterTypeOK, Entry
  <1>4. \A d \in Client : clients[d] # Null /\ d # c => clients[d].level >= 0
    BY <1>2, Numbers DEF LInv, LimiterTypeOK, Booked
  <1>5. CASE lock.left < 0
    <2>1. clients' = clients
      BY <1>5 DEF Cancel
    <2>2. clients[c].level >= 0
      BY <1>1, <1>3, <1>5, EntryIsThere, Numbers DEF LInv, Booked
    <2> QED BY <1>2, <1>4, <2>1, <2>2, Numbers
            DEF LInv, LimiterTypeOK, Booked, Refilled, Held, Free, Waiting, Unlocked
  <1>6. CASE ~(lock.left < 0)
    <2> DEFINE e == [clients[c] EXCEPT !.level = AtMost(@ + Cost, Capacity)]
    <2>1. clients' = [clients EXCEPT ![c] = e]
      BY <1>6 DEF Cancel
    <2>2. /\ e \in Entry /\ e # Null /\ e.idle = clients[c].idle
          /\ e.level = AtMost(clients[c].level + Cost, Capacity)
      BY <1>1, <1>3, Numbers, EntryIsThere DEF Entry, AtMost
    <2>3. e.level >= 0 /\ e.level >= clients[c].level
      BY <1>3, <2>2, Numbers DEF AtMost
    <2>4. clients'[c] = e /\ \A d \in Client \ {c} : clients'[d] = clients[d]
      BY <1>1, <1>2, <2>1
    <2>5. clients' \in [Client -> Entry \cup {Null}]
      BY <1>1, <1>2, <2>1, <2>2
    <2>6. e.level >= AtMost(e.idle, Capacity) - Cost
      BY <1>1, <1>3, <2>2, <2>3, Numbers, EntryIsThere DEF LInv, Refilled, AtMost
    <2> HIDE DEF e, c
    <2>7. LimiterTypeOK'
      BY <1>2, <2>5, Numbers DEF LimiterTypeOK, Entry, Unlocked
    <2>8. Booked'
      BY <1>4, <2>2, <2>3, <2>4, Numbers, <2>5 DEF Booked, Entry
    <2>9. Refilled'
      BY <2>4, <2>6 DEF LInv, Refilled
    <2>10. Held'
      BY <1>2 DEF Held, Free, Waiting, Unlocked
    <2> QED BY <2>7, <2>8, <2>9, <2>10 DEF LInv
  <1> QED BY <1>5, <1>6

\* What a tick makes of one entry.
Older(e) == [level |-> AtMost(e.level + 1, Capacity),
             idle |-> AtMost(e.idle + 1, CleanupInterval + 1)]

LEMMA OlderIsEntry ==
    ASSUME NEW e \in Entry
    PROVE  /\ Older(e) \in Entry
           /\ Older(e) # Null
           /\ Older(e).level = IF e.level = Capacity THEN Capacity ELSE e.level + 1
           /\ Older(e).idle \in Int
           /\ Older(e).idle <= e.idle + 1
           /\ e.level \in -Cost .. Capacity /\ e.idle \in 0 .. CleanupInterval + 1
  BY Numbers, EntryIsThere DEF Older, Entry, AtMost

LEMMA TickKeeps ==
    ASSUME LInv, Tick
    PROVE  LInv'
  <1>1. clients \in [Client -> Entry \cup {Null}]
    BY DEF LInv, LimiterTypeOK, Entry
  <1>2. \A c \in Client : clients'[c] = IF clients[c] = Null THEN Null ELSE Older(clients[c])
    BY DEF Tick, Older
  <1>3. \A c \in Client : clients[c] # Null => clients[c] \in Entry
    BY <1>1
  <1>4. clients' \in [Client -> Entry \cup {Null}]
    <2>1. clients' = [c \in Client |-> IF clients[c] = Null THEN Null ELSE Older(clients[c])]
      BY DEF Tick, Older
    <2> QED BY <1>3, <2>1, OlderIsEntry
  <1>5. /\ lock'.stage = lock.stage /\ lock'.client = lock.client /\ lock'.caller = lock.caller
        /\ lock'.left = IF Waiting /\ lock.left >= 0 THEN lock.left - 1 ELSE lock.left
        /\ lock' \in [stage : {"free", "seen", "judge", "cancel"}, caller : Caller \cup {Null},
                      client : Client \cup {Null}, left : -1 .. Cost]
    BY Numbers DEF LInv, LimiterTypeOK, Tick
  <1>6. lock.left \in -1 .. Cost
    BY DEF LInv, LimiterTypeOK
  <1>7. LimiterTypeOK'
    BY <1>4, <1>5 DEF LInv, LimiterTypeOK, Tick, Entry
  <1>8. Booked'
    <2> SUFFICES ASSUME NEW c \in Client, clients'[c] # Null, clients'[c].level < 0
                 PROVE  Waiting' /\ lock'.client = c /\ lock'.left = - clients'[c].level
      BY DEF Booked
    <2>1. clients[c] # Null /\ clients[c] \in Entry
      BY <1>2, <1>3
    <2>2. /\ clients'[c].level = clients[c].level + 1
          /\ clients[c].level < 0 /\ clients[c].level \in Int
      BY <1>2, <2>1, OlderIsEntry, Numbers
    <2>3. Waiting /\ lock.client = c /\ lock.left = - clients[c].level
      BY <2>1, <2>2 DEF LInv, Booked
    <2> QED BY <1>5, <1>6, <2>2, <2>3 DEF Waiting
  <1>9. Refilled'
    <2> SUFFICES ASSUME NEW c \in Client, clients'[c] # Null
                 PROVE  clients'[c].level >= AtMost(clients'[c].idle, Capacity) - Cost
      BY DEF Refilled
    <2>1. clients[c] # Null /\ clients[c] \in Entry /\ clients'[c] = Older(clients[c])
      BY <1>2, <1>3
    <2>2. clients[c].level >= AtMost(clients[c].idle, Capacity) - Cost
      BY <2>1 DEF LInv, Refilled
    <2> QED BY <2>1, <2>2, OlderIsEntry, Numbers DEF AtMost
  <1>10. Held'
    <2> SUFFICES ASSUME ~Free
                 PROVE  /\ lock.caller \in Caller /\ lock.client \in Client
                        /\ clients'[lock.client] # Null
                        /\ Waiting /\ lock'.left > 0 => clients'[lock.client].level = - lock'.left
                        /\ lock.stage = "seen" =>
                             /\ lock'.left = 0
                             /\ clients'[lock.client].level >= AtMost(clients'[lock.client].idle, Capacity)
      BY <1>5 DEF Held, Free, Waiting
    <2>1. /\ lock.caller \in Caller /\ lock.client \in Client
          /\ clients[lock.client] # Null
          /\ Waiting /\ lock.left > 0 => clients[lock.client].level = - lock.left
          /\ lock.stage = "seen" =>
               /\ lock.left = 0
               /\ clients[lock.client].level >= AtMost(clients[lock.client].idle, Capacity)
      BY DEF LInv, Held
    <2>2. clients'[lock.client] = Older(clients[lock.client]) /\ clients[lock.client] \in Entry
      BY <1>2, <1>3, <2>1
    <2>3. Waiting /\ lock'.left > 0 => clients'[lock.client].level = - lock'.left
      BY <1>5, <1>6, <2>1, <2>2, OlderIsEntry, Numbers
    <2>4. lock.stage = "seen" =>
             clients'[lock.client].level >= AtMost(clients'[lock.client].idle, Capacity)
      BY <2>1, <2>2, OlderIsEntry, Numbers DEF AtMost
    <2>5. lock.stage = "seen" => lock'.left = 0
      BY <1>5, <2>1 DEF Waiting
    <2> QED BY <2>1, <2>2, <2>3, <2>4, <2>5, OlderIsEntry
  <1> QED BY <1>7, <1>8, <1>9, <1>10 DEF LInv

LEMMA StepKeeps == LInv /\ [LimiterNext]_limiterVars => LInv'
  <1> SUFFICES ASSUME LInv, [LimiterNext]_limiterVars
               PROVE  LInv'
    OBVIOUS
  <1>1. ASSUME NEW k \in Caller, NEW c \in Client, See(k, c) PROVE LInv'
    BY <1>1, SeeKeeps
  <1>8. CASE Reserve
    BY <1>8, ReserveKeeps
  <1>2. CASE Judge
    <2>1. CASE lock.left <= 0
      <3>1. \A c \in Client : clients[c] # Null => ~(clients[c].level < 0)
        BY <2>1, Numbers DEF LInv, LimiterTypeOK, Booked
      <3>2. LimiterTypeOK'
        BY <1>2, <2>1, Numbers DEF LInv, LimiterTypeOK, Judge, Unlocked
      <3>3. Booked' /\ Refilled' /\ Held'
        BY <1>2, <2>1, <3>1 DEF LInv, Booked, Refilled, Held, Free, Waiting, Judge, Unlocked
      <3> QED BY <3>2, <3>3 DEF LInv
    <2>2. CASE ~(lock.left <= 0)
      <3>1. /\ lock' = [lock EXCEPT !.stage = "cancel"] /\ UNCHANGED <<clients, verdict>>
            /\ ~Free /\ Waiting
        BY <1>2, <2>2 DEF Judge, Free, Waiting
      <3> QED BY <3>1 DEF LInv, LimiterTypeOK, Booked, Refilled, Held, Free, Waiting
    <2> QED BY <2>1, <2>2
  <1>3. CASE Cancel
    BY <1>3, CancelKeeps
  <1>4. ASSUME NEW k \in Caller, Return(k) PROVE LInv'
    BY <1>4 DEF LInv, LimiterTypeOK, Booked, Refilled, Held, Free, Waiting, Return
  <1>5. CASE Sweep
    <2>1. LimiterTypeOK'
      BY <1>5 DEF LInv, LimiterTypeOK, Sweep
    <2>2. Booked' /\ Refilled' /\ Held'
      BY <1>5 DEF LInv, Booked, Refilled, Held, Free, Waiting, Sweep
    <2> QED BY <2>1, <2>2 DEF LInv
  <1>6. CASE Tick
    BY <1>6, TickKeeps
  <1>7. CASE UNCHANGED limiterVars
    BY <1>7 DEF LInv, LimiterTypeOK, Booked, Refilled, Held, Free, Waiting, limiterVars
  <1> QED BY <1>1, <1>2, <1>3, <1>4, <1>5, <1>6, <1>7, <1>8 DEF LimiterNext

LEMMA LimiterInvariant == LimiterSpec => []LInv
  BY InitLInv, StepKeeps, PTL DEF LimiterSpec

\* The limiter's state has its type whatever callers, clock and sweep do:
\* levels stay within one token below zero and the burst.
THEOREM LimiterTypeCorrect == LimiterSpec => []LimiterTypeOK
  <1>1. LInv => LimiterTypeOK
    BY DEF LInv
  <1> QED BY <1>1, LimiterInvariant, PTL

-----------------------------------------------------------------------------
(* The refinement *)

BucketOf(c) == IF Level(c) < 0 THEN Level(c) + Cost ELSE Level(c)
QuietOf(c)  == IF clients[c] = Null THEN CleanupInterval + 1 ELSE clients[c].idle
Buckets == [c \in Client |-> BucketOf(c)]
Quiets  == [c \in Client |-> QuietOf(c)]
Asking  == IF lock.stage = "seen" \/ (Waiting /\ lock.left > 0)
             THEN {<<lock.caller, lock.client>>} ELSE {}
Taken   == IF Waiting /\ lock.left <= 0 THEN {lock.caller} ELSE {}

LEMMA BucketFrame ==
    ASSUME NEW c \in Client, clients'[c] = clients[c]
    PROVE  BucketOf(c)' = BucketOf(c) /\ QuietOf(c)' = QuietOf(c)
  BY DEF BucketOf, QuietOf, Level

LEMMA SeeSteps ==
    ASSUME LInv, NEW k \in Caller, NEW c \in Client, See(k, c)
    PROVE  [Bucket!Next]_(Bucket!vars)
  <1>1. \A d \in Client \ {c} : BucketOf(d)' = BucketOf(d) /\ QuietOf(d)' = QuietOf(d)
    BY SeesEntry, BucketFrame
  <1>2. BucketOf(c)' = BucketOf(c) /\ QuietOf(c)' = 0
    BY SeesEntry DEF BucketOf, QuietOf, Level
  <1>3. Buckets' = Buckets /\ Quiets' = [Quiets EXCEPT ![c] = 0]
    BY <1>1, <1>2 DEF Buckets, Quiets
  <1>6. /\ lock' = [stage |-> "seen", caller |-> k, client |-> c, left |-> 0]
        /\ verdict' = verdict /\ Free /\ ~Waiting
    BY SeesEntry
  <1>4. Taken = {} /\ Taken' = {} /\ Asking = {} /\ Asking' = {<<k, c>>}
    BY <1>6 DEF Taken, Asking, Waiting, Free
  <1>5. Bucket!Ask(k, c)
    BY <1>3, <1>4, <1>6
       DEF Bucket!Ask, Buckets, BucketOf, Quiets, QuietOf, Asking, Taken
  <1> QED BY <1>5 DEF Bucket!Next

LEMMA ReserveSteps ==
    ASSUME LInv, Reserve
    PROVE  [Bucket!Next]_(Bucket!vars)
  <1>0. PICK c \in Client : c = lock.client
    BY ReservesEntry
  <1>1. PICK k \in Caller : k = lock.caller
    BY ReservesEntry
  <1>2. Level(c) = clients[c].level /\ Level(c) \in 0 .. Capacity /\ Level(c)' = Level(c) - Cost
    BY <1>0, ReservesEntry, Numbers DEF Level
  <1>3. /\ lock' = [stage |-> "judge", caller |-> k, client |-> c,
                    left |-> IF Level(c) < Cost THEN Cost - Level(c) ELSE 0]
        /\ verdict' = verdict
    BY <1>0, <1>1, <1>2, ReservesEntry
  <1>4. \A d \in Client \ {c} : BucketOf(d)' = BucketOf(d)
    BY <1>0, ReservesEntry, BucketFrame
  <1>5. Quiets' = Quiets
    BY <1>0, ReservesEntry DEF Quiets, QuietOf
  <1>6. Taken = {} /\ Asking = {<<k, c>>} /\ BucketOf(c) = Level(c)
    BY <1>0, <1>1, <1>2, ReservesEntry, Numbers DEF Taken, Asking, BucketOf
  <1>7. CASE Level(c) < Cost
    <2>1. BucketOf(c)' = BucketOf(c)
      BY <1>2, <1>6, <1>7, Numbers DEF BucketOf
    <2>2. Taken' = {} /\ Asking' = {<<k, c>>}
      BY <1>2, <1>3, <1>7, Numbers DEF Taken, Asking, Waiting
    <2>3. Buckets' = Buckets
      BY <1>4, <2>1 DEF Buckets
    <2> QED BY <1>3, <1>5, <1>6, <2>2, <2>3
            DEF Bucket!vars, Buckets, BucketOf, Quiets, QuietOf, Asking, Taken
  <1>8. CASE ~(Level(c) < Cost)
    <2>1. BucketOf(c)' = BucketOf(c) - Cost /\ BucketOf(c) >= Cost
      BY <1>2, <1>6, <1>8, Numbers DEF BucketOf
    <2>2. Taken' = {k} /\ Asking' = {}
      BY <1>3, <1>8 DEF Taken, Asking, Waiting
    <2>3. Buckets' = [Buckets EXCEPT ![c] = @ - Cost] /\ Buckets[c] >= Cost
      BY <1>4, <2>1 DEF Buckets
    <2>4. Bucket!Take(k, c)
      BY <1>3, <1>5, <1>6, <2>2, <2>3
         DEF Bucket!Take, Buckets, BucketOf, Quiets, QuietOf, Asking, Taken
    <2> QED BY <2>4 DEF Bucket!Next
  <1> QED BY <1>7, <1>8

LEMMA JudgeSteps ==
    ASSUME LInv, Judge
    PROVE  [Bucket!Next]_(Bucket!vars)
  <1>1. clients' = clients /\ Waiting /\ ~Free /\ lock.caller \in Caller /\ lock.left \in Int
    BY Numbers DEF Judge, Free, Waiting, LInv, LimiterTypeOK, Held
  <1>2. Buckets' = Buckets /\ Quiets' = Quiets
    BY <1>1, BucketFrame DEF Buckets, Quiets
  <1>3. CASE lock.left <= 0
    <2>1. Taken = {lock.caller} /\ Taken' = {} /\ Asking = {} /\ Asking' = {}
      BY <1>1, <1>3 DEF Taken, Asking, Judge, Waiting, Unlocked
    <2>2. Bucket!Grant(lock.caller)
      BY <1>2, <1>3, <2>1
         DEF Judge, Bucket!Grant, Buckets, BucketOf, Quiets, QuietOf, Asking, Taken
    <2> QED BY <1>1, <2>2 DEF Bucket!Next
  <1>4. CASE ~(lock.left <= 0)
    <2>1. /\ lock'.left = lock.left /\ lock'.caller = lock.caller /\ lock'.client = lock.client
          /\ Waiting' /\ verdict' = verdict
      BY <1>1, <1>4 DEF Judge, Waiting, LInv, LimiterTypeOK
    <2>2. Taken = {} /\ Taken' = {}
      BY <1>1, <1>4, <2>1 DEF Taken
    <2>3. Asking' = Asking
      BY <1>1, <1>4, <2>1 DEF Asking
    <2> QED BY <1>2, <2>1, <2>2, <2>3
            DEF Bucket!vars, Buckets, BucketOf, Quiets, QuietOf, Asking, Taken
  <1> QED BY <1>3, <1>4

LEMMA CancelSteps ==
    ASSUME LInv, Cancel
    PROVE  [Bucket!Next]_(Bucket!vars)
  <1>0. PICK c \in Client : c = lock.client
    BY DEF LInv, Held, Free, Cancel
  <1> DEFINE e == [clients[c] EXCEPT !.level = AtMost(@ + Cost, Capacity)]
  <1>1. clients[c] \in Entry /\ lock.caller \in Caller /\ ~Free /\ Waiting /\ lock.stage # "seen"
    BY <1>0 DEF LInv, LimiterTypeOK, Held, Free, Waiting, Cancel, Entry
  <1>2. /\ lock.left \in Int /\ clients[c].level \in -Cost .. Capacity /\ clients[c] # Null
    BY <1>1, Numbers, EntryIsThere DEF LInv, LimiterTypeOK, Entry
  <1>3. /\ Taken' = {} /\ Asking' = {}
        /\ verdict' = [verdict EXCEPT ![lock.caller] = "denied"]
    BY DEF Cancel, Taken, Asking, Waiting, Unlocked
  <1>4. Taken \ {lock.caller} = {} /\ {a \in Asking : a[1] # lock.caller} = {}
    BY DEF Taken, Asking
  <1>5. CASE lock.left < 0
    <2>1. Buckets' = Buckets /\ Quiets' = Quiets
      BY <1>5, BucketFrame DEF Cancel, Buckets, Quiets
    <2>2. Bucket!Deny(lock.caller)
      BY <1>3, <1>4, <2>1 DEF Bucket!Deny, Buckets, BucketOf, Quiets, QuietOf, Asking, Taken
    <2> QED BY <1>1, <2>2 DEF Bucket!Next
  <1>6. CASE ~(lock.left < 0)
    <2>1. clients \in [Client -> Entry \cup {Null}] /\ clients' = [clients EXCEPT ![c] = e]
      BY <1>0, <1>6 DEF Cancel, LInv, LimiterTypeOK, Entry
    <2>2. /\ e \in Entry /\ e # Null /\ e.level = AtMost(clients[c].level + Cost, Capacity)
          /\ e.idle = clients[c].idle
      BY <1>1, <1>2, Numbers, EntryIsThere DEF Entry, AtMost
    <2>3. clients'[c] = e /\ \A d \in Client \ {c} : clients'[d] = clients[d]
      BY <1>1, <2>1
    <2> HIDE DEF e
    <2>4. Level(c) = clients[c].level /\ Level(c)' = AtMost(clients[c].level + Cost, Capacity)
      BY <1>2, <2>2, <2>3 DEF Level
    <2>5. \A d \in Client \ {c} : BucketOf(d)' = BucketOf(d)
      BY <2>3, BucketFrame
    <2>8. Quiets' = Quiets
      BY <1>2, <2>2, <2>3 DEF Quiets, QuietOf
    <2>6. CASE lock.left <= 0
      <3>1. clients[c].level >= 0
        BY <1>0, <1>1, <1>2, <2>6 DEF LInv, Booked
      <3>2. BucketOf(c)' = IF BucketOf(c) + Cost < Capacity THEN BucketOf(c) + Cost ELSE Capacity
        BY <1>2, <2>4, <3>1, Numbers DEF BucketOf, AtMost
      <3>3. Buckets' = [Buckets EXCEPT ![c] = IF @ + Cost < Capacity THEN @ + Cost ELSE Capacity]
        BY <2>5, <3>2 DEF Buckets
      <3>4. lock.caller \in Taken /\ Asking = {}
        BY <1>1, <1>2, <2>6 DEF Taken, Asking
      <3>5. Bucket!GiveBack(lock.caller, c)
        BY <1>3, <1>4, <2>8, <3>3, <3>4
           DEF Bucket!GiveBack, Buckets, BucketOf, Quiets, QuietOf, Asking, Taken
      <3> QED BY <1>1, <3>5 DEF Bucket!Next
    <2>7. CASE ~(lock.left <= 0)
      <3>1. clients[c].level < 0
        BY <1>0, <1>1, <1>2, <2>7 DEF LInv, Held
      <3>2. BucketOf(c)' = BucketOf(c)
        BY <1>2, <2>4, <3>1, Numbers DEF BucketOf, AtMost
      <3>3. Buckets' = Buckets
        BY <2>5, <3>2 DEF Buckets
      <3>4. Bucket!Deny(lock.caller)
        BY <1>3, <1>4, <2>8, <3>3
           DEF Bucket!Deny, Buckets, BucketOf, Quiets, QuietOf, Asking, Taken
      <3> QED BY <1>1, <3>4 DEF Bucket!Next
    <2> QED BY <2>6, <2>7
  <1> QED BY <1>5, <1>6

\* The sweep forgives exactly those who have been quiet for too long.
LEMMA SweepSteps ==
    ASSUME LInv, Sweep
    PROVE  [Bucket!Next]_(Bucket!vars)
  <1> DEFINE S == {c \in Client : Stale(c)}
  <1>1. ASSUME NEW c \in Client
        PROVE  /\ QuietOf(c)' = QuietOf(c)
               /\ Stale(c) => QuietOf(c) = CleanupInterval + 1
               /\ BucketOf(c)' = IF Stale(c) THEN Capacity ELSE BucketOf(c)
    <2>1. CASE Stale(c)
      <3>1. clients[c] # Null /\ clients[c].idle = CleanupInterval + 1 /\ clients'[c] = Null
        BY <2>1, Numbers DEF Stale, LInv, LimiterTypeOK, Sweep
      <3>2. Level(c)' = Capacity /\ ~(Capacity < 0)
        <4>1. (clients[c] = Null => Level(c) = Capacity)'
          BY DEF Level, Capacity
        <4> QED BY <3>1, <4>1, Numbers DEF Capacity
      <3>3. BucketOf(c)' = Capacity
        <4> HIDE DEF Capacity
        <4> QED BY <3>2 DEF BucketOf
      <3> QED BY <2>1, <3>1, <3>3 DEF QuietOf
    <2>2. CASE ~Stale(c)
      BY <2>2, BucketFrame DEF Sweep
    <2> QED BY <2>1, <2>2
  <1>2. Buckets' = [c \in Client |-> IF c \in S THEN Capacity ELSE Buckets[c]]
    BY <1>1 DEF Buckets
  <1>3. Quiets' = Quiets /\ \A c \in S : Quiets[c] = CleanupInterval + 1
    BY <1>1 DEF Quiets
  <1>4. /\ Asking = {} /\ Taken = {} /\ Asking' = {} /\ Taken' = {}
        /\ verdict' = verdict /\ S \in SUBSET Client
    BY DEF Sweep, Asking, Taken, Free, Waiting
  <1> HIDE DEF S
  <1>5. Bucket!Forgive(S)
    BY <1>2, <1>3, <1>4
       DEF Bucket!Forgive, Bucket!LongQuiet, Buckets, BucketOf, Quiets, QuietOf, Asking, Taken
  <1> QED BY <1>4, <1>5 DEF Bucket!Next

LEMMA TickSteps ==
    ASSUME LInv, Tick
    PROVE  [Bucket!Next]_(Bucket!vars)
  <1> DEFINE filled(c) == IF BucketOf(c) < Capacity THEN BucketOf(c) + 1 ELSE Capacity
             aged(c) == IF QuietOf(c) < CleanupInterval + 1 THEN QuietOf(c) + 1 ELSE CleanupInterval + 1
  <1>1. \A c \in Client :
          /\ clients[c] # Null => clients[c] \in Entry
          /\ clients'[c] = IF clients[c] = Null THEN Null ELSE Older(clients[c])
    BY DEF Tick, Older, LInv, LimiterTypeOK, Entry
  <1>2. /\ lock'.stage = lock.stage /\ lock'.caller = lock.caller /\ lock'.client = lock.client
        /\ lock'.left = IF Waiting /\ lock.left >= 0 THEN lock.left - 1 ELSE lock.left
        /\ lock.left \in Int /\ verdict' = verdict
    BY Numbers DEF LInv, LimiterTypeOK, Tick
  <1>3. ASSUME NEW c \in Client, ~(Level(c) = -1)
        PROVE  BucketOf(c)' = filled(c)
    <2>1. CASE clients[c] = Null
      BY <1>1, <2>1, Numbers DEF BucketOf, Level
    <2>2. CASE clients[c] # Null
      <3>1. clients'[c] = Older(clients[c]) /\ clients[c] \in Entry
        BY <1>1, <2>2
      <3>2. /\ Level(c) = clients[c].level /\ Level(c)' = Older(clients[c]).level
            /\ Level(c) \in -Cost .. Capacity
            /\ Level(c)' = IF Level(c) = Capacity THEN Capacity ELSE Level(c) + 1
        BY <2>2, <3>1, OlderIsEntry DEF Level
      <3> QED BY <1>3, <3>2, Numbers DEF BucketOf
    <2> QED BY <2>1, <2>2
  <1>6. Quiets' = [c \in Client |-> aged(c)]
    <2>1. ASSUME NEW c \in Client PROVE QuietOf(c)' = aged(c)
      <3>1. CASE clients[c] = Null
        BY <1>1, <3>1, Numbers DEF QuietOf
      <3>2. CASE clients[c] # Null
        <4>1. /\ clients'[c] = Older(clients[c]) /\ clients'[c] # Null
              /\ clients[c].idle \in 0 .. CleanupInterval + 1
          BY <1>1, <3>2, OlderIsEntry
        <4>2. Older(clients[c]).idle = AtMost(clients[c].idle + 1, CleanupInterval + 1)
          BY DEF Older
        <4>3. QuietOf(c) = clients[c].idle /\ QuietOf(c)' = Older(clients[c]).idle
          BY <3>2, <4>1 DEF QuietOf
        <4> QED BY <4>1, <4>2, <4>3, Numbers DEF AtMost
      <3> QED BY <3>1, <3>2
    <2> HIDE DEF aged
    <2> QED BY <2>1 DEF Quiets
  <1>4. CASE \A c \in Client : ~(Level(c) = -1)
    <2>1. Buckets' = [c \in Client |-> filled(c)]
      BY <1>3, <1>4 DEF Buckets
    <2>2. Taken' = Taken /\ Asking' = Asking
      <3>1. CASE ~Waiting
        BY <1>2, <3>1 DEF Taken, Asking, Waiting
      <3>2. CASE Waiting /\ lock.left > 0
        <4>1. /\ lock.client \in Client /\ clients[lock.client] # Null
              /\ clients[lock.client].level = - lock.left
          BY <3>2 DEF LInv, Held, Free, Waiting
        <4>2. Level(lock.client) = - lock.left
          BY <4>1 DEF Level
        <4>3. lock.left # 1
          BY <1>4, <4>1, <4>2
        <4> QED BY <1>2, <3>2, <4>3 DEF Taken, Asking, Waiting
      <3>3. CASE Waiting /\ lock.left <= 0
        BY <1>2, <3>3 DEF Taken, Asking, Waiting
      <3> QED BY <1>2, <3>1, <3>2, <3>3
    <2>3. Bucket!Pass
      BY <1>2, <1>6, <2>1, <2>2
         DEF Bucket!Pass, Bucket!Filled, Bucket!Ages, Bucket!LongQuiet,
             Buckets, BucketOf, Quiets, QuietOf, Asking, Taken
    <2> QED BY <2>3 DEF Bucket!Next
  <1>5. ASSUME NEW c \in Client, Level(c) = -1
        PROVE  [Bucket!Next]_(Bucket!vars)
    <2>1. clients[c] # Null /\ clients[c].level = -1 /\ clients[c] \in Entry
      BY <1>1, <1>5, Numbers DEF Level
    <2>2. Waiting /\ lock.stage # "seen" /\ lock.client = c /\ lock.left = 1 /\ lock.caller \in Caller
      BY <2>1 DEF LInv, Booked, Held, Free, Waiting
    <2>3. \A d \in Client \ {c} : ~(Level(d) = -1)
      <3> SUFFICES ASSUME NEW d \in Client \ {c}, Level(d) = -1
                   PROVE  FALSE
        OBVIOUS
      <3>1. clients[d] # Null /\ clients[d].level = -1
        BY Numbers DEF Level
      <3> QED BY <2>2, <3>1 DEF LInv, Booked
    <2>4. clients'[c] # Null /\ clients'[c].level = 0
      BY <1>1, <2>1, OlderIsEntry, Numbers
    <2>5. BucketOf(c)' = 0 /\ filled(c) = Cost /\ filled(c) - Cost = 0
      BY <1>5, <2>4, Numbers DEF BucketOf, Level
    <2>6. Buckets' = [d \in Client |-> IF d = c THEN filled(d) - Cost ELSE filled(d)]
      BY <1>3, <2>3, <2>5 DEF Buckets
    <2>7. /\ Taken = {} /\ Taken' = {lock.caller}
          /\ Asking = {<<lock.caller, c>>} /\ Asking' = {}
      BY <1>2, <2>2 DEF Taken, Asking, Waiting
    <2>8. Bucket!PassAndTake(lock.caller, c)
      BY <1>2, <1>6, <2>5, <2>6, <2>7, Numbers
         DEF Bucket!PassAndTake, Bucket!Filled, Bucket!Ages, Bucket!LongQuiet,
             Buckets, BucketOf, Quiets, QuietOf, Asking, Taken
    <2> QED BY <2>2, <2>8 DEF Bucket!Next
  <1> QED BY <1>4, <1>5

LEMMA EveryStep ==
    ASSUME LInv, LInv', [LimiterNext]_limiterVars
    PROVE  [Bucket!Next]_(Bucket!vars)
  <1>1. ASSUME NEW k \in Caller, Return(k) PROVE [Bucket!Next]_(Bucket!vars)
    <2>1. Buckets' = Buckets /\ Quiets' = Quiets /\ Taken' = Taken /\ Asking' = Asking
      BY <1>1, BucketFrame DEF Return, Buckets, Quiets, Taken, Asking, Waiting
    <2>2. Bucket!Leave(k)
      BY <1>1, <2>1 DEF Return, Bucket!Leave, Buckets, BucketOf, Quiets, QuietOf, Asking, Taken
    <2> QED BY <2>2 DEF Bucket!Next
  <1>2. CASE UNCHANGED limiterVars
    <2>1. /\ Buckets' = Buckets /\ Quiets' = Quiets /\ Taken' = Taken /\ Asking' = Asking
          /\ verdict' = verdict
      BY <1>2, BucketFrame DEF limiterVars, Buckets, Quiets, Taken, Asking, Waiting
    <2> QED BY <2>1 DEF Bucket!vars, Buckets, BucketOf, Quiets, QuietOf, Asking, Taken
  <1> QED BY <1>1, <1>2, SeeSteps, ReserveSteps, JudgeSteps, CancelSteps, SweepSteps, TickSteps
          DEF LimiterNext

\* For every rate, burst and interval, no interleaving of calls, clock and sweep
\* grants a client more than its own bucket holds, which is filled up at once
\* only after the client has been silent for longer than the interval.
THEOREM GrantsAsBuckets == LimiterSpec => ImplementsBucket
  <1>1. LimiterInit => Bucket!Init
    <2> SUFFICES ASSUME LimiterInit PROVE Bucket!Init
      OBVIOUS
    <2>1. ASSUME NEW c \in Client
          PROVE  BucketOf(c) = Capacity /\ QuietOf(c) = CleanupInterval + 1
      <3>1. Level(c) = Capacity /\ clients[c] = Null
        BY DEF LimiterInit, Level
      <3>2. Capacity \in Nat
        BY Numbers
      <3> HIDE DEF Capacity
      <3> QED BY <3>1, <3>2 DEF BucketOf, QuietOf
    <2>2. Taken = {} /\ Asking = {}
      BY DEF LimiterInit, Taken, Asking, Waiting, Unlocked
    <2> QED BY <2>1, <2>2
            DEF LimiterInit, Bucket!Init, Bucket!LongQuiet, BucketOf, QuietOf, Asking, Taken
  <1>2. LInv /\ LInv' /\ [LimiterNext]_limiterVars => [Bucket!Next]_(Bucket!vars)
    BY EveryStep
  <1> QED BY <1>1, <1>2, LimiterInvariant, PTL DEF LimiterSpec, ImplementsBucket

-----------------------------------------------------------------------------
(* How much gets through in a window.  A client's credit is what its bucket  *)
(* holds, and the token of its call inside Allow: a call moves a token from  *)
(* one to the other, a permission spends it, and only time and the sweep add *)
(* to it.                                                                    *)

Booking(c) == IF Waiting /\ lock.client = c THEN Cost ELSE 0
Credit(c)  == Level(c) + Booking(c)

LEMMA CreditIsNat == LInv => \A c \in Client : Credit(c) \in Nat
  <1> SUFFICES ASSUME LInv, NEW c \in Client PROVE Credit(c) \in Nat
    OBVIOUS
  <1>1. Level(c) \in -Cost .. Capacity
    BY LevelRange
  <1>2. Level(c) < 0 => Booking(c) = Cost
    BY Numbers DEF Level, LInv, Booked, Booking
  <1>3. Booking(c) \in {0, Cost}
    BY DEF Booking
  <1> QED BY <1>1, <1>2, <1>3, Numbers DEF Credit

LEMMA SeeKeepsCredit ==
    ASSUME LInv, NEW k \in Caller, NEW c \in Client, See(k, c), NEW d \in Client
    PROVE  Credit(d)' = Credit(d)
  <1>1. Level(d)' = Level(d)
    BY SeesEntry DEF Level
  <1>3. lock' = [stage |-> "seen", caller |-> k, client |-> c, left |-> 0] /\ ~Waiting
    BY SeesEntry
  <1>2. Booking(d)' = Booking(d)
    BY <1>3 DEF Booking, Waiting
  <1> QED BY <1>1, <1>2 DEF Credit

LEMMA ReserveMovesCredit ==
    ASSUME LInv, Reserve, NEW d \in Client
    PROVE  Credit(d)' = Credit(d)
  <1>1. PICK c \in Client : c = lock.client
    BY ReservesEntry
  <1>2. Level(c)' = Level(c) - Cost /\ (d # c => Level(d)' = Level(d))
    BY <1>1, ReservesEntry DEF Level
  <1>3. Booking(d) = 0 /\ Booking(d)' = IF d = c THEN Cost ELSE 0
    BY <1>1, ReservesEntry DEF Booking, Waiting
  <1> QED BY <1>2, <1>3, LevelRange, Numbers DEF Credit

\* What is cancelled gives back at most the token that was booked.
LEMMA CancelAddsNoCredit ==
    ASSUME LInv, Cancel, NEW d \in Client
    PROVE  Credit(d)' <= Credit(d)
  <1>1. PICK c \in Client : c = lock.client
    BY DEF LInv, Held, Free, Cancel
  <1>2. Waiting /\ ~Waiting' /\ clients[c] # Null
    BY <1>1 DEF LInv, Held, Cancel, Free, Waiting, Unlocked
  <1>3. Booking(d)' = 0 /\ Booking(d) = IF d = c THEN Cost ELSE 0
    BY <1>1, <1>2 DEF Booking
  <1>4. clients \in [Client -> Entry \cup {Null}] /\ clients[c] \in Entry
    BY <1>2 DEF LInv, LimiterTypeOK, Entry
  <1>5. Level(c)' \in Int /\ Level(c)' <= Level(c) + Cost /\ (d # c => Level(d)' = Level(d))
    <2>1. Level(c) = clients[c].level /\ Level(c) \in Int
      BY <1>2, LevelRange, Numbers DEF Level
    <2>2. CASE lock.left < 0
      <3>1. clients' = clients
        BY <2>2 DEF Cancel
      <3>2. \A b \in Client : Level(b)' = Level(b)
        BY <3>1 DEF Level
      <3> QED BY <2>1, <3>2, Numbers
    <2>3. CASE ~(lock.left < 0)
      <3> DEFINE e == [clients[c] EXCEPT !.level = AtMost(@ + Cost, Capacity)]
      <3>1. clients' = [clients EXCEPT ![c] = e]
        BY <1>1, <2>3 DEF Cancel
      <3>2. e \in Entry /\ e # Null /\ e.level = AtMost(clients[c].level + Cost, Capacity)
        BY <1>4, Numbers, EntryIsThere DEF Entry, AtMost
      <3> HIDE DEF e
      <3>3. Level(c)' = e.level /\ (d # c => Level(d)' = Level(d))
        BY <1>4, <3>1, <3>2 DEF Level
      <3> QED BY <2>1, <3>2, <3>3, Numbers DEF AtMost
    <2> QED BY <2>2, <2>3
  <1> QED BY <1>3, <1>5, LevelRange, Numbers DEF Credit

LEMMA ForgivenIsNat == Forgiven \in Nat
  BY Numbers DEF Forgiven, AtMost

\* An eviction forgives what the bucket lacks.
LEMMA SweepForgives ==
    ASSUME LInv, Sweep, NEW d \in Client
    PROVE  Credit(d)' <= Credit(d) + (IF Stale(d) THEN Forgiven ELSE 0)
  <1>1. Booking(d)' = 0 /\ Booking(d) = 0
    BY DEF Sweep, Booking, Free, Waiting
  <1>2. CASE Stale(d)
    <2>1. /\ clients[d] # Null /\ clients[d] \in Entry /\ clients'[d] = Null
          /\ clients[d].idle = CleanupInterval + 1
      BY <1>2, Numbers DEF Stale, LInv, LimiterTypeOK, Sweep, Entry
    <2>2. Level(d) >= AtMost(CleanupInterval + 1, Capacity) - Cost
      BY <2>1 DEF LInv, Refilled, Level
    <2>3. Level(d)' = Capacity
      <3>1. (clients[d] = Null => Level(d) = Capacity)'
        BY DEF Level, Capacity
      <3> QED BY <2>1, <3>1 DEF Capacity
    <2> QED BY <1>1, <1>2, <2>2, <2>3, LevelRange, Numbers DEF Credit, Forgiven, AtMost
  <1>3. CASE ~Stale(d)
    <2>1. Level(d)' = Level(d)
      BY <1>3 DEF Level, Sweep
    <2> QED BY <1>1, <1>3, <2>1, LevelRange, Numbers DEF Credit
  <1> QED BY <1>2, <1>3

LEMMA TickAddsOne ==
    ASSUME LInv, Tick, NEW d \in Client
    PROVE  Credit(d)' <= Credit(d) + 1
  <1>1. Booking(d)' = Booking(d) /\ Booking(d) \in Int
    <2>1. lock'.stage = lock.stage /\ lock'.client = lock.client
      BY DEF Tick, LInv, LimiterTypeOK
    <2> QED BY <2>1, Numbers DEF Booking, Waiting
  <1>2. Level(d)' \in Int /\ Level(d)' <= Level(d) + 1
    <2>1. CASE clients[d] = Null
      BY <2>1, Numbers DEF Tick, Level
    <2>2. CASE clients[d] # Null
      <3>1. clients[d] \in Entry /\ clients'[d] = Older(clients[d])
        BY <2>2 DEF Tick, Older, LInv, LimiterTypeOK, Entry
      <3> QED BY <2>2, <3>1, OlderIsEntry, LevelRange, Numbers DEF Level
    <2> QED BY <2>1, <2>2
  <1> QED BY <1>1, <1>2, LevelRange, Numbers DEF Credit

LEMMA JudgeSpendsCredit ==
    ASSUME LInv, Judge, NEW d \in Client
    PROVE  Credit(d)' = IF lock.left <= 0 /\ d = lock.client THEN Credit(d) - Cost ELSE Credit(d)
  <1>1. Level(d)' = Level(d) /\ Waiting
    BY DEF Judge, Level, Waiting
  <1>2. Booking(d)' = IF lock.left <= 0 THEN 0 ELSE Booking(d)
    <2>1. CASE lock.left <= 0
      BY <2>1 DEF Judge, Booking, Waiting, Unlocked
    <2>2. CASE ~(lock.left <= 0)
      <3>1. lock'.stage = "cancel" /\ lock'.client = lock.client
        BY <2>2 DEF Judge, LInv, LimiterTypeOK
      <3> QED BY <1>1, <2>2, <3>1 DEF Booking, Waiting
    <2> QED BY <2>1, <2>2
  <1>3. Booking(d) = IF lock.client = d THEN Cost ELSE 0
    BY <1>1 DEF Booking
  <1> QED BY <1>1, <1>2, <1>3, LevelRange, Numbers DEF Credit

-----------------------------------------------------------------------------

Allowance(c) == Capacity + elapsed + (IF early = c THEN Cost ELSE 0) + evicted[c] * Forgiven

\* What a client got in the window and what it still has is never more than
\* it had when the window was opened and what was refilled or forgiven since.
Accounted ==
    /\ elapsed \in Nat /\ passed \in [Client -> Nat] /\ evicted \in [Client -> Nat]
    /\ \A c \in Client : passed[c] * Cost + Credit(c) <= Allowance(c)

\* Between two evictions a client is idle for an interval.
Idle(c) == IF clients[c] = Null THEN 0 ELSE clients[c].idle

Spaced ==
    \A c \in Client : evicted[c] * (CleanupInterval + 1) + Idle(c) <= elapsed + CleanupInterval + 1

LEMMA Products ==
    ASSUME NEW n \in Nat, NEW m \in Nat
    PROVE  n * m \in Nat /\ (n + 1) * m = n * m + m /\ 0 * m = 0
  OBVIOUS

LEMMA Numeric ==
    ASSUME LInv, Accounted, NEW c \in Client
    PROVE  /\ passed[c] * Cost \in Nat /\ (passed[c] + 1) * Cost = passed[c] * Cost + Cost
           /\ evicted[c] * Forgiven \in Nat
           /\ (evicted[c] + 1) * Forgiven = evicted[c] * Forgiven + Forgiven
           /\ Credit(c) \in Nat /\ Allowance(c) \in Nat
  <1>1. passed[c] \in Nat /\ evicted[c] \in Nat
    BY DEF Accounted
  <1>2. passed[c] * Cost \in Nat /\ (passed[c] + 1) * Cost = passed[c] * Cost + Cost
    BY <1>1, Products, Numbers
  <1>3. /\ evicted[c] * Forgiven \in Nat
        /\ (evicted[c] + 1) * Forgiven = evicted[c] * Forgiven + Forgiven
    BY <1>1, Products, ForgivenIsNat
  <1>4. Credit(c) \in Nat
    BY CreditIsNat
  <1> HIDE DEF Capacity
  <1>5. Allowance(c) \in Nat
    BY <1>3, Numbers DEF Allowance, Accounted
  <1> QED BY <1>2, <1>3, <1>4, <1>5

\* A window opens on no permissions and at most a full bucket and one token.
LEMMA OpeningIsAccounted ==
    LInv /\ elapsed = 0 /\ passed = Never /\ evicted = Never /\ (Free \/ early = lock.client)
      => Accounted
  <1> SUFFICES ASSUME LInv, elapsed = 0, passed = Never, evicted = Never, Free \/ early = lock.client
               PROVE  Accounted
    OBVIOUS
  <1>1. ASSUME NEW c \in Client
        PROVE  passed[c] * Cost + Credit(c) <= Allowance(c)
    <2>1. passed[c] = 0 /\ evicted[c] = 0
      BY DEF Never
    <2>2. 0 * Cost = 0 /\ 0 * Forgiven = 0
      BY Products, Numbers, ForgivenIsNat
    <2>3. Booking(c) \in {0, Cost} /\ (Booking(c) # 0 => early = c)
      BY DEF Booking, Waiting, Free
    <2>4. Level(c) \in Int /\ Level(c) <= Capacity
      BY LevelRange, Numbers
    <2> QED BY <2>1, <2>2, <2>3, <2>4, Numbers DEF Credit, Allowance
  <1> QED BY <1>1 DEF Accounted, Never

\* A step that gives c neither a permission nor an eviction, and no credit but
\* the ticks.
LEMMA StillAccounted ==
    ASSUME LInv, LInv', Accounted,
           passed' = passed, evicted' = evicted, early' = early,
           elapsed' \in Nat, elapsed' >= elapsed,
           \A c \in Client : /\ Credit(c)' \in Nat
                              /\ Credit(c)' <= Credit(c) + (elapsed' - elapsed)
    PROVE  Accounted'
  <1>1. ASSUME NEW c \in Client
        PROVE  passed'[c] * Cost + Credit(c)' <= Allowance(c)'
    <2>1. Credit(c)' \in Nat
      OBVIOUS
    <2>2. Credit(c)' <= Credit(c) + (elapsed' - elapsed) /\ elapsed \in Nat
      BY DEF Accounted
    <2>3. Allowance(c)' = Capacity + elapsed' + (IF early = c THEN Cost ELSE 0) + evicted[c] * Forgiven
      BY DEF Allowance, Capacity, Forgiven, AtMost
    <2>4. passed[c] * Cost + Credit(c) <= Capacity + elapsed + (IF early = c THEN Cost ELSE 0) + evicted[c] * Forgiven
      BY DEF Accounted, Allowance
    <2> DEFINE p == passed[c] * Cost
               v == evicted[c] * Forgiven
               x == IF early = c THEN Cost ELSE 0
    <2>5. p \in Nat /\ v \in Nat /\ Credit(c) \in Nat /\ x \in Nat /\ Capacity \in Nat
      BY Numeric, Numbers
    <2> HIDE DEF p, v, x, Capacity
    <2>6. p + Credit(c)' <= Capacity + elapsed' + x + v
      <3>1. p + Credit(c) <= Capacity + elapsed + x + v
        BY <2>4 DEF p, v, x
      <3> QED BY <2>1, <2>2, <2>5, <3>1
    <2> QED BY <2>3, <2>6 DEF p, v, x
  <1> QED BY <1>1 DEF Accounted

LEMMA WindowKeeps == LInv /\ LInv' /\ Accounted /\ [WindowNext]_windowVars => Accounted'
  <1> SUFFICES ASSUME LInv, LInv', Accounted, [WindowNext]_windowVars PROVE Accounted'
    OBVIOUS
  <1>0. \A c \in Client : Credit(c) \in Nat /\ Credit(c)' \in Nat
    <2>1. (LInv => \A c \in Client : Credit(c) \in Nat)'
      BY CreditIsNat, PTL
    <2> QED BY <2>1, CreditIsNat
  <1>1. CASE OpenWindow
    <2>1. (LInv /\ elapsed = 0 /\ passed = Never /\ evicted = Never /\ (Free \/ early = lock.client)
             => Accounted)'
      BY OpeningIsAccounted, PTL
    <2>2. elapsed' = 0 /\ passed' = Never /\ evicted' = Never /\ early' = lock'.client
      BY <1>1 DEF OpenWindow, limiterVars
    <2> QED BY <2>1, <2>2 DEF Never
  <1>2. CASE JudgeSeen
    <2>1. elapsed' = elapsed /\ early' = early /\ evicted' = evicted /\ Judge
      BY <1>2 DEF JudgeSeen
    <2>2. lock.client \in Client
      BY <2>1 DEF LInv, Held, Judge, Free
    <2>3. CASE lock.left <= 0
      <3>1. passed' = [passed EXCEPT ![lock.client] = passed[lock.client] + 1]
        BY <1>2, <2>3 DEF JudgeSeen
      <3>2. passed' \in [Client -> Nat]
        BY <2>2, <3>1 DEF Accounted
      <3>3. ASSUME NEW c \in Client
            PROVE  passed'[c] * Cost + Credit(c)' <= Allowance(c)'
        <4>1. Allowance(c)' = Allowance(c)
          BY <2>1 DEF Allowance, Capacity, Forgiven, AtMost
        <4>2. CASE c = lock.client
          <5>1. passed'[c] = passed[c] + 1 /\ Credit(c)' = Credit(c) - Cost
            BY <2>1, <2>2, <2>3, <3>1, <4>2, JudgeSpendsCredit DEF Accounted
          <5> QED BY <4>1, <5>1, Numeric, Numbers DEF Accounted
        <4>3. CASE c # lock.client
          <5>1. passed'[c] = passed[c] /\ Credit(c)' = Credit(c)
            BY <2>1, <2>2, <3>1, <4>3, JudgeSpendsCredit DEF Accounted
          <5> QED BY <4>1, <5>1 DEF Accounted
        <4> QED BY <4>2, <4>3
      <3> QED BY <2>1, <3>2, <3>3 DEF Accounted
    <2>4. CASE ~(lock.left <= 0)
      <3>1. passed' = passed /\ \A c \in Client : Credit(c)' = Credit(c)
        BY <1>2, <2>1, <2>4, JudgeSpendsCredit DEF JudgeSeen
      <3>2. elapsed' \in Nat /\ elapsed' - elapsed = 0
        BY <2>1 DEF Accounted
      <3> QED BY <1>0, <2>1, <3>1, <3>2, StillAccounted
    <2> QED BY <2>3, <2>4
  <1>3. CASE TickSeen
    <2>1. /\ elapsed' = elapsed + 1 /\ passed' = passed /\ evicted' = evicted /\ early' = early
          /\ Tick
      BY <1>3 DEF TickSeen
    <2>2. elapsed' \in Nat /\ elapsed' - elapsed = 1 /\ elapsed' >= elapsed
      BY <2>1 DEF Accounted
    <2> QED BY <1>0, <2>1, <2>2, TickAddsOne, StillAccounted
  <1>7. CASE SweepSeen
    <2>1. /\ UNCHANGED <<elapsed, passed, early>> /\ Sweep
          /\ evicted' = [c \in Client |-> IF Stale(c) THEN evicted[c] + 1 ELSE evicted[c]]
      BY <1>7 DEF SweepSeen
    <2>2. evicted' \in [Client -> Nat]
      BY <2>1 DEF Accounted
    <2>3. ASSUME NEW c \in Client
          PROVE  passed'[c] * Cost + Credit(c)' <= Allowance(c)'
      <3> DEFINE g == IF Stale(c) THEN Forgiven ELSE 0
      <3>1. evicted'[c] * Forgiven = evicted[c] * Forgiven + g /\ g \in Nat
        BY <2>1, Numeric, ForgivenIsNat
      <3>2. Allowance(c)' = Capacity + elapsed + (IF early = c THEN Cost ELSE 0) + evicted'[c] * Forgiven
        BY <2>1 DEF Allowance, Capacity, Forgiven, AtMost
      <3>3. Credit(c)' <= Credit(c) + g
        BY <2>1, SweepForgives
      <3> DEFINE p == passed[c] * Cost
                 v == evicted[c] * Forgiven
                 x == IF early = c THEN Cost ELSE 0
      <3>4. /\ p \in Nat /\ v \in Nat /\ Credit(c) \in Nat /\ Credit(c)' \in Nat
            /\ x \in Nat /\ Capacity \in Nat /\ elapsed \in Nat
        BY <1>0, Numeric, Numbers DEF Accounted
      <3>5. p + Credit(c) <= Capacity + elapsed + x + v
        BY DEF Accounted, Allowance
      <3>6. Allowance(c)' = Capacity + elapsed + x + (v + g) /\ passed'[c] * Cost = p
        BY <2>1, <3>1, <3>2
      <3> HIDE DEF p, v, x, g, Capacity
      <3>7. p + Credit(c)' <= Capacity + elapsed + x + (v + g)
        BY <3>1, <3>3, <3>4, <3>5
      <3> QED BY <3>6, <3>7
    <2> QED BY <2>1, <2>2, <2>3 DEF Accounted
  <1>4. ASSUME UNCHANGED observer, \A c \in Client : Credit(c)' <= Credit(c)
        PROVE  Accounted'
    <2>1. elapsed' \in Nat /\ elapsed' = elapsed /\ elapsed' - elapsed = 0
      BY <1>4 DEF observer, Accounted
    <2>2. \A c \in Client : Credit(c)' <= Credit(c) + (elapsed' - elapsed)
      BY <1>0, <1>4, <2>1
    <2> QED BY <1>0, <1>4, <2>1, <2>2, StillAccounted DEF observer
  <1>5. CASE Unseen
    <2>1. UNCHANGED observer
      BY <1>5 DEF Unseen
    <2>2. ASSUME NEW k \in Caller, Return(k), NEW c \in Client PROVE Credit(c)' = Credit(c)
      BY <2>2 DEF Return, Credit, Level, Booking, Waiting
    <2>3. \A c \in Client : Credit(c)' <= Credit(c)
      BY <1>0, <1>5, <2>2, SeeKeepsCredit, ReserveMovesCredit, CancelAddsNoCredit DEF Unseen
    <2> QED BY <1>4, <2>1, <2>3
  <1>6. CASE UNCHANGED windowVars
    <2>1. UNCHANGED observer /\ \A c \in Client : Credit(c)' = Credit(c)
      BY <1>6 DEF windowVars, observer, Credit, Level, Booking, Waiting
    <2> QED BY <1>0, <1>4, <2>1
  <1> QED BY <1>1, <1>2, <1>3, <1>5, <1>6, <1>7 DEF WindowNext

LEMMA SpacedKeeps ==
    LInv /\ LInv' /\ Accounted /\ Spaced /\ [WindowNext]_windowVars => Spaced'
  <1> SUFFICES ASSUME LInv, LInv', Accounted, Spaced, [WindowNext]_windowVars, NEW c \in Client
               PROVE  evicted'[c] * (CleanupInterval + 1) + Idle(c)' <= elapsed' + CleanupInterval + 1
    BY DEF Spaced
  <1> DEFINE I == CleanupInterval + 1
             v == evicted[c] * I
  <1>1. /\ I \in Nat /\ evicted[c] \in Nat /\ elapsed \in Nat
        /\ v \in Nat /\ (evicted[c] + 1) * I = v + I /\ 0 * I = 0
    BY Numbers, Products DEF Accounted
  <1>2. Idle(c) \in 0 .. I /\ (Stale(c) => Idle(c) = I)
    BY Numbers DEF LInv, LimiterTypeOK, Idle, Stale
  <1>3. v + Idle(c) <= elapsed + I
    BY Numbers DEF Spaced, Accounted
  <1>9. elapsed' + CleanupInterval + 1 = elapsed' + I
    <2>1. elapsed' \in Nat
      <3>1. Accounted'
        BY WindowKeeps
      <3> QED BY <3>1 DEF Accounted
    <2> QED BY <2>1, Numbers
  <1>4. ASSUME evicted' = evicted, elapsed' = elapsed, Idle(c)' \in Int, Idle(c)' <= Idle(c)
        PROVE  evicted'[c] * I + Idle(c)' <= elapsed' + I
    <2> HIDE DEF v, I
    <2>1. v + Idle(c)' <= elapsed + I
      BY <1>1, <1>2, <1>3, <1>4
    <2> QED BY <1>4, <2>1 DEF v
  <1>5. CASE OpenWindow
    <2>1. evicted'[c] = 0 /\ elapsed' = 0 /\ Idle(c)' = Idle(c)
      BY <1>5 DEF OpenWindow, Never, limiterVars, Idle
    <2> QED BY <1>1, <1>2, <1>9, <2>1
  <1>6. CASE TickSeen
    <2>1. evicted' = evicted /\ elapsed' = elapsed + 1 /\ Tick
      BY <1>6 DEF TickSeen
    <2>2. Idle(c)' \in Int /\ Idle(c)' <= Idle(c) + 1
      <3>1. CASE clients[c] = Null
        BY <2>1, <3>1 DEF Tick, Idle
      <3>2. CASE clients[c] # Null
        <4>1. clients[c] \in Entry /\ clients'[c] = Older(clients[c])
          BY <2>1, <3>2 DEF Tick, Older, LInv, LimiterTypeOK, Entry
        <4> QED BY <3>2, <4>1, OlderIsEntry DEF Idle
      <3> QED BY <3>1, <3>2
    <2>3. v + Idle(c)' <= elapsed + 1 + I
      <3> HIDE DEF v, I
      <3> QED BY <1>1, <1>2, <1>3, <2>2
    <2> QED BY <1>9, <2>1, <2>3
  <1>7. CASE SweepSeen
    <2>1. evicted'[c] = (IF Stale(c) THEN evicted[c] + 1 ELSE evicted[c]) /\ elapsed' = elapsed /\ Sweep
      BY <1>7 DEF SweepSeen
    <2>2. CASE Stale(c)
      <3>1. Idle(c)' = 0 /\ evicted'[c] = evicted[c] + 1
        BY <2>1, <2>2 DEF Sweep, Idle
      <3>2. v + I <= elapsed + I
        BY <1>2, <1>3, <2>2
      <3> HIDE DEF v
      <3>3. evicted'[c] * I + Idle(c)' = v + I
        BY <1>1, <3>1
      <3> QED BY <1>9, <2>1, <3>2, <3>3
    <2>3. CASE ~Stale(c)
      <3>1. Idle(c)' = Idle(c) /\ evicted'[c] = evicted[c]
        BY <2>1, <2>3 DEF Sweep, Idle
      <3> QED BY <1>3, <1>9, <2>1, <3>1
    <2> QED BY <2>2, <2>3
  <1>8. CASE JudgeSeen \/ Unseen \/ UNCHANGED windowVars
    <2>1. evicted' = evicted /\ elapsed' = elapsed
      BY <1>8 DEF JudgeSeen, Unseen, observer, windowVars
    <2>2. Idle(c)' \in Int /\ Idle(c)' <= Idle(c)
      <3>1. ASSUME clients' = clients PROVE Idle(c)' = Idle(c)
        BY <3>1 DEF Idle
      <3>2. CASE JudgeSeen \/ UNCHANGED windowVars
        BY <1>2, <3>1, <3>2, Numbers DEF JudgeSeen, Judge, windowVars
      <3>3. ASSUME NEW k \in Caller, Return(k) PROVE Idle(c)' = Idle(c)
        BY <3>1, <3>3 DEF Return
      <3>4. ASSUME NEW k \in Caller, NEW d \in Client, See(k, d)
            PROVE  Idle(c)' = Idle(c) \/ Idle(c)' = 0
        BY <3>4, SeesEntry DEF Idle
      <3>5. CASE Reserve
        BY <3>5, <1>2, ReservesEntry, Numbers DEF Idle
      <3>6. CASE Cancel
        <4>1. PICK b \in Client : b = lock.client /\ clients[b] # Null
          BY <3>6 DEF LInv, Held, Free, Cancel
        <4>2. clients \in [Client -> Entry \cup {Null}] /\ clients[b] \in Entry
          BY <4>1 DEF LInv, LimiterTypeOK, Entry
        <4> DEFINE e == [clients[b] EXCEPT !.level = AtMost(@ + Cost, Capacity)]
        <4>3. e \in Entry /\ e # Null /\ e.idle = clients[b].idle
          BY <4>2, Numbers, EntryIsThere DEF Entry, AtMost
        <4>4. clients' = clients \/ clients' = [clients EXCEPT ![b] = e]
          BY <3>6, <4>1 DEF Cancel
        <4> HIDE DEF e
        <4>5. Idle(c)' = Idle(c)
          BY <4>1, <4>2, <4>3, <4>4 DEF Idle
        <4> QED BY <1>2, <4>5, Numbers
      <3>7. Unseen => \/ Idle(c)' = Idle(c) \/ Idle(c)' = 0
                      \/ Reserve \/ Cancel
        BY <3>3, <3>4 DEF Unseen
      <3> HIDE DEF I
      <3> QED BY <1>1, <1>2, <1>8, <3>2, <3>5, <3>6, <3>7
    <2> QED BY <1>4, <1>9, <2>1, <2>2
  <1> QED BY <1>5, <1>6, <1>7, <1>8 DEF WindowNext

\* No stretch of time lets a client through more often than its burst, the rate
\* and the evictions of that stretch allow, of which there is at most one per
\* interval: for any burst, rate and interval, any number of clients and
\* concurrent calls, wherever the stretch begins and however long it is,
\* cancelled bookings and the four readings of the clock included.
THEOREM NeverFasterThanTheRate == WindowSpec => []BurstAndRate
  <1>1. WindowInit => LInv /\ Accounted /\ Spaced
    <2> SUFFICES ASSUME WindowInit PROVE LInv /\ Accounted /\ Spaced
      OBVIOUS
    <2>1. LInv /\ Accounted
      BY InitLInv, OpeningIsAccounted DEF WindowInit, LimiterInit, Free, Unlocked
    <2>2. ASSUME NEW c \in Client
          PROVE  evicted[c] * (CleanupInterval + 1) + Idle(c) <= elapsed + CleanupInterval + 1
      <3>1. evicted[c] = 0 /\ Idle(c) = 0 /\ elapsed = 0 /\ CleanupInterval + 1 \in Nat
        BY Numbers DEF WindowInit, LimiterInit, Never, Idle
      <3>2. 0 * (CleanupInterval + 1) = 0
        BY <3>1, Products
      <3> QED BY <3>1, <3>2, Numbers
    <2> QED BY <2>1, <2>2 DEF Spaced
  <1>2. LInv /\ [WindowNext]_windowVars => LInv'
    <2>1. [WindowNext]_windowVars => [LimiterNext]_limiterVars
      BY DEF WindowNext, OpenWindow, JudgeSeen, TickSeen, SweepSeen, Unseen, windowVars,
             LimiterNext, limiterVars
    <2> QED BY <2>1, StepKeeps
  <1>3. LInv /\ Accounted /\ Spaced => BurstAndRate
    <2> SUFFICES ASSUME LInv, Accounted, Spaced, NEW c \in Client
                 PROVE  /\ passed[c] * Cost <= Allowance(c)
                        /\ evicted[c] * (CleanupInterval + 1) <= elapsed + CleanupInterval + 1
      BY DEF BurstAndRate, Allowance
    <2>1. passed[c] * Cost + Credit(c) <= Allowance(c)
      BY DEF Accounted
    <2>2. evicted[c] * (CleanupInterval + 1) + Idle(c) <= elapsed + CleanupInterval + 1
      BY DEF Spaced
    <2>3. evicted[c] * (CleanupInterval + 1) \in Nat /\ elapsed \in Nat
      BY Products, Numbers DEF Accounted
    <2>4. Idle(c) \in Nat
      BY Numbers DEF LInv, LimiterTypeOK, Idle
    <2>5. passed[c] * Cost <= Allowance(c)
      BY <2>1, Numeric
    <2>6. evicted[c] * (CleanupInterval + 1) <= elapsed + CleanupInterval + 1
      BY <2>2, <2>3, <2>4, Numbers
    <2> QED BY <2>5, <2>6
  <1> QED BY <1>1, <1>2, <1>3, WindowKeeps, SpacedKeeps, PTL DEF WindowSpec
=============================================================================
