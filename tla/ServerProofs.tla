---------------------------- MODULE ServerProofs ----------------------------
(***************************************************************************)
(* The process as a whole, for any number of requests, any number of       *)
(* attempts per mail and any limiter that satisfies its assumption.        *)
(*                                                                         *)
(* The argument for an orderly exit.  A handler that is at work has a      *)
(* connection that is open or was cut, and only a forced close cuts        *)
(* (Connections).  When the drain is over nothing is open, so if nothing   *)
(* was forced no handler is at work and none can start a task any more;    *)
(* from then on tasks only end, and the wait sees the last of them go      *)
(* (Waited).                                                               *)
(*                                                                         *)
(* For the mails, the copy that is on the network counts as delivered: an  *)
(* attempt adds it, its end does not, and no attempt begins on the network *)
(* after the signal (Mails).                                               *)
(***************************************************************************)
EXTENDS Server, RateLimiterProofs

TaskState == [stage : {"none", "dial", "send", "backoff", "sent", "gone"},
              attempt : 0 .. MaxRetries]

Types ==
    /\ main \in {"serving", "draining", "waiting", "closing", "exited"}
    /\ canceled \in BOOLEAN
    /\ drain \in {"none", "running", "done"}
    /\ endings \subseteq {"forced", "abandoned", "failed"}
    /\ conn \in [Caller -> {"none", "open", "answered", "cut"}]
    /\ handler \in [Caller -> {"none", "limit", "run", "query", "done"}]
    /\ task \in [Caller -> TaskState]
    /\ sweeping \in BOOLEAN
    /\ copies \in [Caller -> 0 .. MaxRetries]
    /\ onTheWire \in [Caller -> 0 .. MaxRetries]

\* An attempt is only ever prepared while there is one left.
Attempts == \A k \in Caller : task[k].stage = "dial" => task[k].attempt < MaxRetries

InFlight(k) == IF task[k].stage = "send" THEN 1 ELSE 0

MailKept(k) == /\ copies[k] + InFlight(k) <= task[k].attempt
               /\ canceled => copies[k] + InFlight(k) <= onTheWire[k]

Mails == \A k \in Caller : MailKept(k)

AtWork(k) == handler[k] \in {"limit", "run", "query"}

Connections ==
    \A k \in Caller : /\ AtWork(k) => conn[k] \in {"open", "cut"}
                      /\ conn[k] = "cut" => "forced" \in endings

Stages ==
    /\ main = "serving" => drain = "none"
    /\ main = "draining" => drain = "running"
    /\ main \in {"waiting", "closing"} => drain = "done"
    /\ main = "exited" /\ "failed" \notin endings => drain = "done"
    /\ drain = "done" => \A k \in Caller : conn[k] # "open"

\* Once the wait has ended in time nothing is running, and nothing will.
Waited ==
    main \in {"closing", "exited"} /\ endings = {} =>
        ~sweeping /\ \A k \in Caller : ~TaskRunning(k)

PoolWaited ==
    main = "exited" /\ "failed" \notin endings => \A k \in Caller : handler[k] # "query"

SInv == Types /\ Attempts /\ Mails /\ Connections /\ Stages /\ Waited /\ PoolWaited

\* Nobody is at work after an orderly drain.
LEMMA DrainedMeansIdle ==
    ASSUME SInv, drain = "done", "forced" \notin endings
    PROVE  \A k \in Caller : ~AtWork(k)
  BY DEF SInv, Stages, Connections

-----------------------------------------------------------------------------

LEMMA InitSInv == Init => SInv
  <1> SUFFICES ASSUME Init PROVE SInv
    OBVIOUS
  <1>1. NoTask \in TaskState /\ NoTask.stage = "none"
    BY ServerAssumption DEF NoTask, TaskState, ServerAssumption
  <1>4. 0 \in 0 .. MaxRetries
    BY ServerAssumption DEF ServerAssumption
  <1>2. Types
    BY <1>1, <1>4 DEF Init, Types
  <1>3. Mails
    <2> SUFFICES ASSUME NEW k \in Caller PROVE MailKept(k)
      BY DEF Mails
    <2>1. copies[k] = 0 /\ onTheWire[k] = 0 /\ task[k] = NoTask
      BY DEF Init
    <2> QED BY <2>1 DEF MailKept, InFlight, NoTask
  <1> QED BY <1>1, <1>2, <1>3 DEF Init, SInv, Attempts, Connections, AtWork, Stages, Waited, PoolWaited

\* Steps of a request that start no task.
LEMMA RequestKeeps ==
    ASSUME SInv, NEW k \in Caller,
           CallAllow(k) \/ Limited(k) \/ Query(k) \/ Queried(k) \/ Answer(k)
    PROVE  SInv'
  <1>1. UNCHANGED <<main, canceled, drain, endings, task, sweeping, mailVars>> /\ Alive
    BY DEF CallAllow, Limited, Query, Queried, Answer, serverVars
  <1>2. Attempts' /\ Mails' /\ Waited'
    BY <1>1 DEF SInv, Attempts, Mails, MailKept, InFlight, mailVars, Waited, TaskRunning
  <1>3. CASE CallAllow(k)
    BY <1>1, <1>2, <1>3 DEF CallAllow, serverVars, mailVars, SInv, Types, Connections, AtWork, Stages, PoolWaited
  <1>4. CASE Limited(k)
    BY <1>1, <1>2, <1>4 DEF Limited, Alive, mailVars, SInv, Types, Connections, AtWork, Stages, PoolWaited
  <1>5. CASE Query(k) \/ Queried(k)
    BY <1>1, <1>2, <1>5 DEF Query, Queried, Alive, mailVars, SInv, Types, Connections, AtWork, Stages, PoolWaited
  <1>6. CASE Answer(k)
    BY <1>1, <1>2, <1>6 DEF Answer, Alive, mailVars, SInv, Types, Connections, AtWork, Stages, PoolWaited
  <1> QED BY <1>3, <1>4, <1>5, <1>6

LEMMA ArriveKeeps ==
    ASSUME SInv, NEW k \in Caller, Arrive(k)
    PROVE  SInv'
  <1>1. NoTask \in TaskState /\ NoTask.stage = "none"
    BY ServerAssumption DEF NoTask, TaskState, ServerAssumption
  <1>2. Types'
    BY <1>1, ServerAssumption DEF Arrive, SInv, Types, ServerAssumption
  <1>3. \A j \in Caller : task'[j] = task[j] \/ task'[j].stage = "none"
    BY <1>1 DEF Arrive, SInv, Types
  <1>4. Attempts' /\ Waited'
    BY <1>3 DEF Arrive, SInv, Attempts, Waited, TaskRunning
  <1>6. Mails'
    <2>1. /\ task'[k] = NoTask /\ copies'[k] = 0 /\ onTheWire'[k] = 0 /\ canceled' = canceled
          /\ \A j \in Caller \ {k} :
               task'[j] = task[j] /\ copies'[j] = copies[j] /\ onTheWire'[j] = onTheWire[j]
      BY DEF Arrive, SInv, Types
    <2>2. MailKept(k)'
      BY <2>1 DEF MailKept, InFlight, NoTask
    <2>3. \A j \in Caller \ {k} : MailKept(j) => MailKept(j)'
      BY <2>1 DEF MailKept, InFlight
    <2> QED BY <2>2, <2>3 DEF SInv, Mails
  <1>5. Connections' /\ Stages' /\ PoolWaited'
    BY DEF Arrive, Alive, SInv, Types, Connections, AtWork, Stages, PoolWaited
  <1> QED BY <1>2, <1>4, <1>5, <1>6 DEF SInv

LEMMA BackgroundKeeps ==
    ASSUME SInv, NEW k \in Caller, Background(k)
    PROVE  SInv'
  <1>1. PICK new : new = [NoTask EXCEPT !.stage = "dial"]
    OBVIOUS
  <1>2. new \in TaskState /\ new.stage = "dial" /\ new.attempt = 0 /\ 0 < MaxRetries
    BY <1>1, ServerAssumption DEF NoTask, TaskState, ServerAssumption
  <1>3. task' = [task EXCEPT ![k] = new]
    BY <1>1 DEF Background
  <1>4. Types'
    BY <1>2, <1>3 DEF Background, SInv, Types, mailVars
  <1>5. task'[k] = new /\ \A j \in Caller \ {k} : task'[j] = task[j]
    BY <1>3 DEF SInv, Types
  <1>6. Attempts' /\ Mails'
    <2>1. task[k].stage = "none" /\ task[k].attempt = 0
      BY DEF Background, NoTask
    <2>2. Attempts'
      BY <1>2, <1>5 DEF SInv, Attempts
    <2>3. \A j \in Caller : InFlight(j)' = InFlight(j) /\ task'[j].attempt = task[j].attempt
      BY <1>2, <1>5, <2>1 DEF InFlight
    <2>4. \A j \in Caller : MailKept(j) => MailKept(j)'
      BY <2>3 DEF Background, MailKept, mailVars
    <2> QED BY <2>2, <2>4 DEF SInv, Mails
  <1>7. Connections' /\ Stages' /\ PoolWaited'
    BY DEF Background, SInv, Connections, AtWork, Stages, PoolWaited
  <1>8. ~(main = "closing" /\ endings = {})
    BY DrainedMeansIdle DEF Background, AtWork, SInv, Stages
  <1>9. Waited'
    BY <1>8 DEF Background, Alive, Waited
  <1> QED BY <1>4, <1>6, <1>7, <1>9 DEF SInv

\* What a task does to its own record and to its mail.
LEMMA TaskKeeps ==
    ASSUME SInv, NEW k \in Caller,
           \/ Unsendable(k) \/ Dial(k) \/ SendSucceeds(k) \/ SendFails(k)
           \/ GiveUp(k) \/ Retry(k)
    PROVE  SInv'
  <1>1. /\ task[k] \in TaskState /\ TaskRunning(k) /\ Alive
        /\ UNCHANGED <<main, canceled, drain, endings, conn, handler, sweeping, onTheWire>>
    BY DEF SInv, Types, Unsendable, Dial, SendSucceeds, SendFails, GiveUp, Retry, TaskRunning, mailVars
  <1>2. PICK new : task' = [task EXCEPT ![k] = new]
    BY DEF Unsendable, Dial, SendSucceeds, SendFails, GiveUp, Retry
  <1>3. task'[k] = new /\ \A j \in Caller \ {k} : task'[j] = task[j]
    BY <1>2 DEF SInv, Types
  <1>0. /\ MaxRetries \in Nat /\ task[k].attempt \in 0 .. MaxRetries
        /\ copies[k] \in 0 .. MaxRetries /\ onTheWire[k] \in 0 .. MaxRetries
        /\ copies[k] + InFlight(k) <= task[k].attempt
        /\ canceled => copies[k] + InFlight(k) <= onTheWire[k]
    <2>1. MaxRetries \in Nat
      BY ServerAssumption DEF ServerAssumption
    <2>2. MailKept(k)
      BY DEF SInv, Mails
    <2>3. task[k].attempt \in 0 .. MaxRetries
      BY <1>1 DEF TaskState
    <2>4. copies[k] \in 0 .. MaxRetries /\ onTheWire[k] \in 0 .. MaxRetries
      BY DEF SInv, Types
    <2> QED BY <2>1, <2>2, <2>3, <2>4 DEF MailKept
  <1>4. /\ new \in TaskState
        /\ new.stage = "dial" => new.attempt < MaxRetries
        /\ \E n \in {copies[k], copies[k] + 1} :
             /\ copies' = [copies EXCEPT ![k] = n]
             /\ n + InFlight(k)' <= new.attempt
             /\ canceled => n + InFlight(k)' <= onTheWire[k]
    <2>1. copies = [copies EXCEPT ![k] = copies[k]]
      BY DEF SInv, Types
    <2>2. CASE Dial(k)
      <3>1. task[k].attempt < MaxRetries /\ InFlight(k) = 0 /\ copies' = copies
        BY <2>2 DEF Dial, SInv, Attempts, InFlight, mailVars
      <3>2. task[k].attempt + 1 \in 0 .. MaxRetries
        BY <1>0, <3>1
      <3>3. task'[k] = [stage |-> IF canceled THEN "backoff" ELSE "send", attempt |-> task[k].attempt + 1]
        BY <2>2 DEF Dial, SInv, Types
      <3>4. InFlight(k)' = IF canceled THEN 0 ELSE 1
        BY <3>3 DEF InFlight
      <3>5. new \in TaskState /\ new.stage # "dial" /\ new.attempt = task[k].attempt + 1
        BY <1>3, <3>2, <3>3 DEF TaskState
      <3> QED BY <1>0, <2>1, <3>1, <3>4, <3>5
    <2>3. CASE SendSucceeds(k) \/ SendFails(k)
      <3>1. PICK st \in {"sent", "backoff"} : task'[k] = [task[k] EXCEPT !.stage = st]
        BY <2>3 DEF SendSucceeds, SendFails, SInv, Types
      <3>2. new \in TaskState /\ new.stage = st /\ new.attempt = task[k].attempt
        BY <1>1, <1>3, <3>1 DEF TaskState
      <3>3. InFlight(k) = 1 /\ InFlight(k)' = 0
        BY <1>3, <2>3, <3>2 DEF InFlight, SendSucceeds, SendFails
      <3>4. copies' = copies \/ copies' = [copies EXCEPT ![k] = copies[k] + 1]
        BY <2>3 DEF SendSucceeds, SendFails
      <3>5. PICK n \in {copies[k], copies[k] + 1} : copies' = [copies EXCEPT ![k] = n]
        BY <2>1, <3>4
      <3>6. n + 0 <= task[k].attempt /\ (canceled => n + 0 <= onTheWire[k])
        BY <1>0, <3>3, <3>5
      <3> QED BY <3>2, <3>3, <3>5, <3>6
    <2>4. CASE GiveUp(k) \/ Retry(k) \/ Unsendable(k)
      <3>1. PICK st \in {"gone", "dial"} : /\ task'[k] = [task[k] EXCEPT !.stage = st]
                                           /\ st = "dial" => task[k].attempt # MaxRetries
        BY <2>4 DEF GiveUp, Retry, Unsendable, Last, SInv, Types
      <3>2. new \in TaskState /\ new.stage = st /\ new.attempt = task[k].attempt
        BY <1>1, <1>3, <3>1 DEF TaskState
      <3>3. InFlight(k) = 0 /\ InFlight(k)' = 0 /\ copies' = copies
        BY <1>3, <2>4, <3>2 DEF InFlight, GiveUp, Retry, Unsendable, mailVars
      <3> QED BY <1>0, <2>1, <3>1, <3>2, <3>3
    <2> QED BY <2>2, <2>3, <2>4
  <1>9. PICK n : /\ n \in {copies[k], copies[k] + 1}
                 /\ copies' = [copies EXCEPT ![k] = n]
                 /\ n + InFlight(k)' <= new.attempt
                 /\ canceled => n + InFlight(k)' <= onTheWire[k]
    BY <1>4
  <1>10. InFlight(k)' \in {0, 1} /\ new.attempt \in 0 .. MaxRetries
    BY <1>4 DEF InFlight, TaskState
  <1>11. n \in 0 .. MaxRetries
    BY <1>0, <1>9, <1>10
  <1>5. Types'
    BY <1>1, <1>2, <1>4, <1>9, <1>11 DEF SInv, Types
  <1>6. Attempts' /\ Mails'
    <2>1. Attempts'
      BY <1>3, <1>4 DEF SInv, Attempts
    <2>2. copies'[k] = n /\ \A j \in Caller \ {k} : copies'[j] = copies[j]
      BY <1>9 DEF SInv, Types
    <2>3. \A j \in Caller \ {k} : InFlight(j)' = InFlight(j)
      BY <1>3 DEF InFlight
    <2>4. \A j \in Caller \ {k} : MailKept(j) => MailKept(j)'
      BY <1>1, <1>3, <2>2, <2>3 DEF MailKept
    <2>5. MailKept(k)'
      BY <1>1, <1>3, <1>9, <2>2 DEF MailKept
    <2> QED BY <2>1, <2>4, <2>5 DEF SInv, Mails
  <1>7. Connections' /\ Stages' /\ PoolWaited'
    BY <1>1 DEF SInv, Connections, AtWork, Stages, PoolWaited
  <1>8. Waited'
    BY <1>1 DEF SInv, Waited, Alive
  <1> QED BY <1>5, <1>6, <1>7, <1>8 DEF SInv

LEMMA ShutdownKeeps ==
    ASSUME SInv,
           \/ FinishAllow \/ SweepIdle \/ SweepEnds \/ Signal \/ Shutdown \/ SecondSignal
           \/ Drained \/ GraceOver \/ Fail \/ TasksDone \/ BudgetOver \/ PoolClosed \/ Clock
    PROVE  SInv'
  <1> USE DEF SInv, Types, Attempts, Connections, AtWork, Stages, Waited, TaskRunning,
              PoolWaited, Alive
  <1>12. ASSUME UNCHANGED <<canceled, task, mailVars>> PROVE Mails'
    BY <1>12 DEF SInv, Mails, MailKept, InFlight, mailVars
  <1>1. CASE FinishAllow \/ SweepIdle \/ Clock
    <2>1. UNCHANGED serverVars
      BY <1>1 DEF FinishAllow, SweepIdle, Clock
    <2> QED BY <1>12, <2>1 DEF serverVars, mailVars
  <1>2. CASE SweepEnds
    BY <1>2, <1>12 DEF mailVars, SweepEnds
  <1>10. CASE Signal
    <2>1. ASSUME NEW k \in Caller
          PROVE  /\ onTheWire'[k] = copies[k] + InFlight(k)
                 /\ copies[k] + InFlight(k) \in 0 .. MaxRetries
      <3>3. task[k].attempt \in 0 .. MaxRetries /\ copies[k] \in 0 .. MaxRetries
        BY DEF TaskState
      <3>4. InFlight(k) \in {0, 1}
        BY DEF InFlight
      <3>5. MailKept(k)
        BY DEF Mails
      <3>1. copies[k] + InFlight(k) <= task[k].attempt
        BY <3>5 DEF MailKept
      <3>2. onTheWire'[k] = copies[k] + InFlight(k)
        BY <1>10 DEF Signal, InFlight
      <3>6. MaxRetries \in Nat
        BY ServerAssumption DEF ServerAssumption
      <3> QED BY <3>1, <3>2, <3>3, <3>4, <3>6
    <2>2. onTheWire' \in [Caller -> 0 .. MaxRetries]
      <3>1. onTheWire' = [k \in Caller |-> copies[k] + InFlight(k)]
        BY <1>10 DEF Signal, InFlight
      <3> QED BY <2>1, <3>1
    <2>3. Mails'
      <3>1. UNCHANGED <<task, copies>>
        BY <1>10 DEF Signal
      <3>2. \A k \in Caller : InFlight(k)' = InFlight(k)
        BY <3>1 DEF InFlight
      <3>3. ASSUME NEW k \in Caller PROVE MailKept(k)'
        <4>1. MailKept(k)
          BY DEF Mails
        <4>2. copies[k] + InFlight(k) \in Int
          BY <2>1
        <4> QED BY <2>1, <3>1, <3>2, <4>1, <4>2 DEF MailKept
      <3> QED BY <3>3 DEF Mails
    <2> QED BY <1>10, <2>2, <2>3 DEF Signal
  <1>3. CASE Shutdown
    BY <1>3, <1>12 DEF mailVars, Shutdown
  <1>4. CASE SecondSignal
    BY <1>4, <1>12 DEF mailVars, SecondSignal, CutAll
  <1>5. CASE Drained
    BY <1>5, <1>12 DEF mailVars, Drained, Connected
  <1>6. CASE GraceOver
    BY <1>6, <1>12 DEF mailVars, GraceOver, CutAll
  <1>7. CASE Fail
    BY <1>7, <1>12 DEF mailVars, Fail
  <1>8. CASE TasksDone
    BY <1>8, <1>12 DEF mailVars, TasksDone
  <1>11. CASE BudgetOver
    BY <1>11, <1>12 DEF mailVars, BudgetOver
  <1>9. CASE PoolClosed
    BY <1>9, <1>12 DEF mailVars, PoolClosed
  <1> QED BY <1>1, <1>2, <1>3, <1>4, <1>5, <1>6, <1>7, <1>8, <1>9, <1>10, <1>11

LEMMA NextKeepsSInv == SInv /\ [Next]_vars => SInv'
  <1>1. ASSUME SInv, UNCHANGED vars PROVE SInv'
    BY <1>1 DEF vars, serverVars, mailVars, SInv, Types, Attempts, Mails, MailKept, InFlight, Connections, AtWork,
                Stages, Waited, TaskRunning, PoolWaited
  <1> QED BY <1>1, RequestKeeps, ArriveKeeps, BackgroundKeeps, TaskKeeps, ShutdownKeeps DEF Next

\* What the process knows of its connections, handlers and tasks.
THEOREM ServerInvariance == Spec => []SInv
  <1> QED BY InitSInv, NextKeepsSInv, PTL DEF Spec

-----------------------------------------------------------------------------
(* The limiter inside the server is the limiter. *)

LEMMA StepsOfTheLimiter == [Next]_vars => [LimiterNext]_limiterVars
  <1> SUFFICES ASSUME [Next]_vars PROVE LimiterNext \/ UNCHANGED limiterVars
    OBVIOUS
  <1>1. ASSUME NEW k \in Caller, CallAllow(k) PROVE LimiterNext
    <2>1. ClientOf[k] \in Client
      BY ServerAssumption DEF ServerAssumption
    <2> QED BY <1>1, <2>1 DEF CallAllow, LimiterNext
  <1>2. ASSUME NEW k \in Caller, Limited(k) PROVE LimiterNext
    BY <1>2 DEF Limited, LimiterNext
  <1>3. CASE FinishAllow \/ SweepIdle \/ Clock
    BY <1>3 DEF FinishAllow, SweepIdle, Clock, LimiterNext
  <1>4. ASSUME NEW k \in Caller,
               \/ Arrive(k) \/ Query(k) \/ Queried(k) \/ Background(k) \/ Answer(k)
               \/ Unsendable(k) \/ Dial(k) \/ SendSucceeds(k) \/ SendFails(k) \/ GiveUp(k) \/ Retry(k)
        PROVE  UNCHANGED limiterVars
    BY <1>4 DEF Arrive, Query, Queried, Background, Answer, Unsendable, Dial, SendSucceeds, SendFails, GiveUp, Retry
  <1>5. CASE \/ SweepEnds \/ Signal \/ Shutdown \/ SecondSignal \/ Drained \/ GraceOver \/ Fail
             \/ TasksDone \/ BudgetOver \/ PoolClosed
    BY <1>5 DEF SweepEnds, Signal, Shutdown, SecondSignal, Drained, GraceOver, Fail, TasksDone,
                BudgetOver, PoolClosed
  <1>6. CASE UNCHANGED vars
    BY <1>6 DEF vars, limiterVars
  <1> QED BY <1>1, <1>2, <1>3, <1>4, <1>5, <1>6 DEF Next

LEMMA SpecOfTheLimiter == Spec => LimiterSpec
  <1>1. Init => LimiterInit
    BY DEF Init
  <1> QED BY <1>1, StepsOfTheLimiter, PTL DEF Spec, LimiterSpec

-----------------------------------------------------------------------------

\* The process's state has its type, the limiter's included.
THEOREM ServerTypeCorrect == Spec => []TypeOK
  <1>1. SInv /\ LimiterTypeOK => TypeOK
    BY DEF SInv, Types, TypeOK, TaskState
  <1> QED BY <1>1, ServerInvariance, SpecOfTheLimiter, LimiterTypeCorrect, PTL

\* However requests, signals and the exit interleave, and however early the
\* sweep evicts, the limiter grants what each client's own bucket holds.
THEOREM ServerGrantsAsBuckets == Spec => ImplementsBucket
  <1> QED BY SpecOfTheLimiter, GrantsAsBuckets, PTL

\* An orderly exit has answered every request and finished every task, those
\* started during the drain included; and the pool is never taken from a
\* handler unless the server failed.
THEOREM CleanExitIsClean == Spec => []CleanExitLeavesNothing
  <1>1. SInv => CleanExitLeavesNothing
    <2> SUFFICES ASSUME SInv, main = "exited"
                 PROVE  /\ endings = {} =>
                             /\ \A k \in Caller : conn[k] \in {"none", "answered"} /\ ~TaskRunning(k)
                             /\ ~sweeping
                        /\ "failed" \notin endings => \A k \in Caller : handler[k] # "query"
      BY DEF CleanExitLeavesNothing
    <2>1. ASSUME endings = {}, NEW k \in Caller PROVE conn[k] \in {"none", "answered"}
      BY <2>1 DEF SInv, Types, Stages, Connections
    <2>2. endings = {} => ~sweeping /\ \A k \in Caller : ~TaskRunning(k)
      BY DEF SInv, Waited
    <2>3. "failed" \notin endings => \A k \in Caller : handler[k] # "query"
      BY DEF SInv, PoolWaited
    <2> QED BY <2>1, <2>2, <2>3
  <1> QED BY <1>1, ServerInvariance, PTL

\* For any number of mails and attempts, a mail is delivered at most once per
\* attempt, and after the signal only from what was on the network by then.
THEOREM LadderIsCutShort == Spec => []ShutdownCutsTheLadder
  <1>1. SInv => ShutdownCutsTheLadder
    <2> SUFFICES ASSUME SInv, NEW k \in Caller
                 PROVE  /\ copies[k] <= task[k].attempt
                        /\ canceled => copies[k] <= onTheWire[k]
      BY DEF ShutdownCutsTheLadder
    <2>1. /\ copies[k] \in 0 .. MaxRetries /\ onTheWire[k] \in 0 .. MaxRetries
          /\ task[k].attempt \in 0 .. MaxRetries /\ InFlight(k) \in {0, 1}
      BY DEF SInv, Types, TaskState, InFlight
    <2>2. MailKept(k)
      BY DEF SInv, Mails
    <2>3. MaxRetries \in Nat
      BY ServerAssumption DEF ServerAssumption
    <2> QED BY <2>1, <2>2, <2>3 DEF MailKept
  <1> QED BY <1>1, ServerInvariance, PTL
=============================================================================
