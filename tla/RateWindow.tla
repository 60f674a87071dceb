----------------------------- MODULE RateWindow -----------------------------
(***************************************************************************)
(* What the -limiter-rps and -limiter-burst flags promise an operator: how *)
(* many requests of one address get past rateLimit in any stretch of time. *)
(* The limiter of RateLimiter runs unchanged; an observer, who is not in   *)
(* the code, opens its window at any moment, between any two steps of      *)
(* Allow, and counts the ticks and the permissions from there.             *)
(***************************************************************************)
EXTENDS RateLimiter

CONSTANT MaxWindow   \* bound: ticks of the longest window

VARIABLES elapsed,   \* ticks since the window was opened
          passed,    \* permissions of each client since then
          evicted,   \* how often the sweep has dropped each client since then
          early      \* whose call was inside Allow when it was opened

observer == <<elapsed, passed, evicted, early>>
windowVars == <<clients, lock, verdict, observer>>

Never == [c \in Client |-> 0]

WindowInit == LimiterInit /\ elapsed = 0 /\ passed = Never /\ evicted = Never /\ early = Null

OpenWindow ==
  /\ elapsed' = 0
  /\ passed' = Never
  /\ evicted' = Never
  /\ early' = lock.client
  /\ UNCHANGED limiterVars

\* Allow answers true where Delay is no wait.
JudgeSeen ==
  /\ Judge
  /\ passed' = IF lock.left <= 0 THEN [passed EXCEPT ![lock.client] = @ + 1] ELSE passed
  /\ UNCHANGED <<elapsed, evicted, early>>

TickSeen ==
  /\ elapsed < MaxWindow
  /\ Tick
  /\ elapsed' = elapsed + 1
  /\ UNCHANGED <<passed, evicted, early>>

SweepSeen ==
  /\ Sweep
  /\ evicted' = [c \in Client |-> IF Stale(c) THEN evicted[c] + 1 ELSE evicted[c]]
  /\ UNCHANGED <<elapsed, passed, early>>

Unseen ==
  /\ \/ \E k \in Caller : Return(k) \/ \E c \in Client : verdict[k] = "none" /\ See(k, c)
     \/ Reserve \/ Cancel
  /\ UNCHANGED observer

WindowNext == OpenWindow \/ JudgeSeen \/ TickSeen \/ SweepSeen \/ Unseen

WindowSpec == WindowInit /\ [][WindowNext]_windowVars

-----------------------------------------------------------------------------
(* Properties *)

\* What the bucket of an idle client may lack when it is evicted: whatever the
\* interval does not refill, and the token its last call took late.
Forgiven == Capacity + Cost - AtMost(CleanupInterval + 1, Capacity)

\* In any window a client gets no more than its burst and what the window
\* refills, one more if a call of its own was half-way through Allow when the
\* window was opened, and what evictions forgave it; of those there is one for
\* every interval at most. Handing a token back that was booked in the future
\* never adds to that.
BurstAndRate ==
  \A c \in Client :
    /\ passed[c] * Cost <= Capacity + elapsed + (IF early = c THEN Cost ELSE 0)
                             + evicted[c] * Forgiven
    /\ evicted[c] * (CleanupInterval + 1) <= elapsed + CleanupInterval + 1
=============================================================================
