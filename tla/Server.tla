------------------------------- MODULE Server -------------------------------
(***************************************************************************)
(* The life of the process (internal/api/server.go, helpers.go,            *)
(* cmd/server/main.go): requests pass the rate limiter and run, some start *)
(* a background task that sends a mail (internal/mailer), a first signal   *)
(* cancels the root context and starts the drain, a second one or the end  *)
(* of the grace period closes what is still connected, the tasks are       *)
(* waited for within a budget, and the pool is closed.                     *)
(*                                                                         *)
(* A Caller of the rate limiter is a request.                              *)
(***************************************************************************)
EXTENDS RateLimiter, FiniteSets

CONSTANTS ClientOf,   \* the address of each request
          MaxRetries  \* mailer.maxRetries

ASSUME ServerAssumption == ClientOf \in [Caller -> Client] /\ MaxRetries \in Nat \ {0}

VARIABLES main,     \* where main and runServer stand
          canceled, \* RootCtx
          drain,    \* the shutdown goroutine
          endings,  \* what has gone other than by the book
          conn,     \* the connection of each request
          handler,  \* its goroutine
          task,     \* the mail its handler started: [stage, attempt]
          sweeping, \* the sweep task is alive
          copies,   \* of each mail, what the mail server has taken
          onTheWire \* history: copies that could be complete when the signal came

mailVars   == <<copies, onTheWire>>
serverVars == <<main, canceled, drain, endings, conn, handler, task, sweeping, mailVars>>
vars == <<clients, lock, verdict, serverVars>>

NoTask == [stage |-> "none", attempt |-> 0]

\* "dial": about to try; "send": on the network, dialled with a live context;
\* "backoff": between two attempts.
TaskRunning(k) == task[k].stage \in {"dial", "send", "backoff"}

TypeOK ==
  /\ LimiterTypeOK
  /\ main \in {"serving", "draining", "waiting", "closing", "exited"}
  /\ canceled \in BOOLEAN
  /\ drain \in {"none", "running", "done"}
  /\ endings \subseteq {"forced", "abandoned", "failed"}
  /\ conn \in [Caller -> {"none", "open", "answered", "cut"}]
  /\ handler \in [Caller -> {"none", "limit", "run", "query", "done"}]
  /\ task \in [Caller -> [stage : {"none", "dial", "send", "backoff", "sent", "gone"},
                          attempt : 0 .. MaxRetries]]
  /\ sweeping \in BOOLEAN
  /\ copies \in [Caller -> 0 .. MaxRetries]
  /\ onTheWire \in [Caller -> 0 .. MaxRetries]

Init ==
  /\ LimiterInit
  /\ main = "serving"
  /\ canceled = FALSE
  /\ drain = "none"
  /\ endings = {}
  /\ conn = [k \in Caller |-> "none"]
  /\ handler = [k \in Caller |-> "none"]
  /\ task = [k \in Caller |-> NoTask]
  /\ sweeping = TRUE
  /\ copies = [k \in Caller |-> 0]
  /\ onTheWire = [k \in Caller |-> 0]

Alive == main # "exited"

-----------------------------------------------------------------------------
(* Requests *)

\* The listener accepts until Shutdown or Close has begun.  A caller who is
\* done comes again as another request.
Arrive(k) ==
  /\ Alive
  /\ drain = "none"
  /\ conn[k] \in {"none", "answered"}
  /\ handler[k] \in {"none", "done"}
  /\ ~ TaskRunning(k)
  /\ conn' = [conn EXCEPT ![k] = "open"]
  /\ handler' = [handler EXCEPT ![k] = "limit"]
  /\ task' = [task EXCEPT ![k] = NoTask]
  /\ copies' = [copies EXCEPT ![k] = 0]
  /\ onTheWire' = [onTheWire EXCEPT ![k] = 0]
  /\ UNCHANGED <<limiterVars, main, canceled, drain, endings, sweeping>>

\* rateLimit calls Allow ...
CallAllow(k) ==
  /\ Alive
  /\ handler[k] = "limit"
  /\ verdict[k] = "none"
  /\ lock.caller # k
  /\ See(k, ClientOf[k])
  /\ UNCHANGED serverVars

\* ... which finishes under its mutex ...
FinishAllow ==
  /\ Alive
  /\ Reserve \/ Judge \/ Cancel
  /\ UNCHANGED serverVars

\* ... and answers 429 or goes on to the handler.
Limited(k) ==
  /\ Alive
  /\ handler[k] = "limit"
  /\ Return(k)
  /\ IF verdict[k] = "allowed"
       THEN /\ handler' = [handler EXCEPT ![k] = "run"]
            /\ UNCHANGED conn
       ELSE /\ handler' = [handler EXCEPT ![k] = "done"]
            /\ conn' = [conn EXCEPT ![k] = IF @ = "open" THEN "answered" ELSE @]
  /\ UNCHANGED <<main, canceled, drain, endings, task, sweeping, mailVars>>

\* A handler holds a connection of the pool for the time of a statement or a
\* transaction, at most DBTimeout; the pool gives none once it closes.
Query(k) ==
  /\ Alive
  /\ main # "closing"
  /\ handler[k] = "run"
  /\ handler' = [handler EXCEPT ![k] = "query"]
  /\ UNCHANGED <<limiterVars, main, canceled, drain, endings, conn, task, sweeping, mailVars>>

\* VARIANT: statements without a deadline, against a database that hangs.
NeverQueried(k) == FALSE /\ UNCHANGED vars

Queried(k) ==
  /\ Alive
  /\ handler[k] = "query"
  /\ handler' = [handler EXCEPT ![k] = "run"]
  /\ UNCHANGED <<limiterVars, main, canceled, drain, endings, conn, task, sweeping, mailVars>>

\* background: wg.Go, then the handler goes on to its answer.
Background(k) ==
  /\ Alive
  /\ handler[k] = "run"
  /\ task[k] = NoTask
  /\ task' = [task EXCEPT ![k].stage = "dial"]
  /\ UNCHANGED <<limiterVars, main, canceled, drain, endings, conn, handler, sweeping, mailVars>>

\* The answer, an error, or a panic (recoverPanic answers 500).
Answer(k) ==
  /\ Alive
  /\ handler[k] = "run"
  /\ handler' = [handler EXCEPT ![k] = "done"]
  /\ conn' = [conn EXCEPT ![k] = IF @ = "open" THEN "answered" ELSE @]
  /\ UNCHANGED <<limiterVars, main, canceled, drain, endings, task, sweeping, mailVars>>

-----------------------------------------------------------------------------
(* Background tasks *)

\* A template that does not parse or execute, an address that is none: Send
\* returns before the first attempt, and so does a task that panics.
Unsendable(k) ==
  /\ Alive
  /\ task[k] = [stage |-> "dial", attempt |-> 0]
  /\ task' = [task EXCEPT ![k].stage = "gone"]
  /\ UNCHANGED <<limiterVars, main, canceled, drain, endings, conn, handler, sweeping, mailVars>>

\* VARIANT: the attempts do not get the context.
DialAnyway(k) ==
  /\ Alive
  /\ task[k].stage = "dial"
  /\ task' = [task EXCEPT ![k] = [stage |-> "send", attempt |-> @.attempt + 1]]
  /\ UNCHANGED <<limiterVars, main, canceled, drain, endings, conn, handler, sweeping, mailVars>>

\* DialAndSendWithContext; a canceled context fails before anything is sent.
Dial(k) ==
  /\ Alive
  /\ task[k].stage = "dial"
  /\ task' = [task EXCEPT ![k] = [stage |-> IF canceled THEN "backoff" ELSE "send",
                                  attempt |-> @.attempt + 1]]
  /\ UNCHANGED <<limiterVars, main, canceled, drain, endings, conn, handler, sweeping, mailVars>>

SendSucceeds(k) ==
  /\ Alive
  /\ task[k].stage = "send"
  /\ task' = [task EXCEPT ![k].stage = "sent"]
  /\ copies' = [copies EXCEPT ![k] = @ + 1]
  /\ UNCHANGED <<limiterVars, main, canceled, drain, endings, conn, handler, sweeping, onTheWire>>

\* A failure may come after the server has taken the mail.
SendFails(k) ==
  /\ Alive
  /\ task[k].stage = "send"
  /\ task' = [task EXCEPT ![k].stage = "backoff"]
  /\ copies' \in {copies, [copies EXCEPT ![k] = @ + 1]}
  /\ UNCHANGED <<limiterVars, main, canceled, drain, endings, conn, handler, sweeping, onTheWire>>

Last(k) == task[k].attempt = MaxRetries

\* No sleep after the final attempt; otherwise the select of the context and
\* the timer, which takes either when both are ready.
GiveUp(k) ==
  /\ Alive
  /\ task[k].stage = "backoff"
  /\ Last(k) \/ canceled
  /\ task' = [task EXCEPT ![k].stage = "gone"]
  /\ UNCHANGED <<limiterVars, main, canceled, drain, endings, conn, handler, sweeping, mailVars>>

Retry(k) ==
  /\ Alive
  /\ task[k].stage = "backoff"
  /\ ~ Last(k)
  /\ task' = [task EXCEPT ![k].stage = "dial"]
  /\ UNCHANGED <<limiterVars, main, canceled, drain, endings, conn, handler, sweeping, mailVars>>

\* The sweep is a task of its own, from the start of runServer.
SweepIdle ==
  /\ Alive
  /\ sweeping
  /\ Sweep
  /\ UNCHANGED serverVars

SweepEnds ==
  /\ Alive
  /\ sweeping
  /\ canceled
  /\ sweeping' = FALSE
  /\ UNCHANGED <<limiterVars, main, canceled, drain, endings, conn, handler, task, mailVars>>

-----------------------------------------------------------------------------
(* Shutdown *)

Signal ==
  /\ Alive
  /\ ~ canceled
  /\ canceled' = TRUE
  /\ onTheWire' = [k \in Caller |-> copies[k] + (IF task[k].stage = "send" THEN 1 ELSE 0)]
  /\ UNCHANGED <<limiterVars, main, drain, endings, conn, handler, task, sweeping, copies>>

\* srv.Shutdown begins: the listener closes, and ListenAndServe returns to
\* runServer, which waits for the result of the drain.
Shutdown ==
  /\ Alive
  /\ canceled
  /\ drain = "none"
  /\ drain' = "running"
  /\ main' = "draining"
  /\ UNCHANGED <<limiterVars, canceled, endings, conn, handler, task, sweeping, mailVars>>

Connected == {k \in Caller : conn[k] = "open"}

\* srv.Close drops every connection; the handlers do not notice.
CutAll == conn' = [k \in Caller |-> IF conn[k] = "open" THEN "cut" ELSE conn[k]]

\* The watcher of the second signal, while Shutdown runs (which then finds
\* nobody connected).  Before and after, further signals go unheard.
SecondSignal ==
  /\ Alive
  /\ drain = "running"
  /\ CutAll
  /\ endings' = endings \cup {"forced"}
  /\ UNCHANGED <<limiterVars, main, canceled, drain, handler, task, sweeping, mailVars>>

\* VARIANT: the drain is over when the limiter's clients are.
DrainedEarly ==
  /\ Alive
  /\ drain = "running"
  /\ \A k \in Caller : handler[k] # "limit"
  /\ drain' = "done"
  /\ main' = "waiting"
  /\ UNCHANGED <<limiterVars, canceled, endings, conn, handler, task, sweeping, mailVars>>

Drained ==
  /\ Alive
  /\ drain = "running"
  /\ Connected = {}
  /\ drain' = "done"
  /\ main' = "waiting"
  /\ UNCHANGED <<limiterVars, canceled, endings, conn, handler, task, sweeping, mailVars>>

\* The grace period is over.
GraceOver ==
  /\ Alive
  /\ drain = "running"
  /\ Connected # {}
  /\ CutAll
  /\ drain' = "done"
  /\ main' = "waiting"
  /\ endings' = endings \cup {"forced"}
  /\ UNCHANGED <<limiterVars, canceled, handler, task, sweeping, mailVars>>

\* ListenAndServe fails, or Shutdown or Close does: runServer returns the error
\* and main exits without a wait and without closing the pool.
Fail ==
  /\ main \in {"serving", "draining"}
  /\ main' = "exited"
  /\ endings' = endings \cup {"failed"}
  /\ UNCHANGED <<limiterVars, canceled, drain, conn, handler, task, sweeping, mailVars>>

\* wg.Wait in time ...
TasksDone ==
  /\ main = "waiting"
  /\ ~ sweeping
  /\ \A k \in Caller : ~ TaskRunning(k)
  /\ main' = "closing"
  /\ UNCHANGED <<limiterVars, canceled, drain, endings, conn, handler, task, sweeping, mailVars>>

\* ... or not.
BudgetOver ==
  /\ main = "waiting"
  /\ main' = "closing"
  /\ endings' = endings \cup {"abandoned"}
  /\ UNCHANGED <<limiterVars, canceled, drain, conn, handler, task, sweeping, mailVars>>

\* pool.Close waits for every connection, and the process ends.
PoolClosed ==
  /\ main = "closing"
  /\ \A k \in Caller : handler[k] # "query"
  /\ main' = "exited"
  /\ UNCHANGED <<limiterVars, canceled, drain, endings, conn, handler, task, sweeping, mailVars>>

Clock ==
  /\ Alive
  /\ Tick
  /\ UNCHANGED serverVars

Next ==
  \/ \E k \in Caller :
       \/ Arrive(k) \/ CallAllow(k) \/ Limited(k)
       \/ Query(k) \/ Queried(k) \/ Background(k) \/ Answer(k)
       \/ Unsendable(k) \/ Dial(k) \/ SendSucceeds(k) \/ SendFails(k) \/ GiveUp(k) \/ Retry(k)
  \/ FinishAllow \/ SweepIdle \/ SweepEnds
  \/ Signal \/ Shutdown \/ SecondSignal \/ Drained \/ GraceOver \/ Fail
  \/ TasksDone \/ BudgetOver \/ PoolClosed
  \/ Clock

\* Timers fire and the shutdown's own goroutines run.  Of handlers only the
\* end of a statement is fair (DBTimeout); a handler or a task may hang.
Fairness ==
  /\ WF_vars(Shutdown)
  /\ WF_vars(Drained)
  /\ WF_vars(GraceOver)
  /\ WF_vars(BudgetOver)
  /\ WF_vars(PoolClosed)
  /\ \A k \in Caller : WF_vars(Queried(k))

Spec == Init /\ [][Next]_vars /\ Fairness

-----------------------------------------------------------------------------
(* Properties *)

\* A process that exits without having forced, abandoned or failed anything
\* has answered every request it accepted and finished every task they
\* started, the ones started during the drain included; and unless it fails it
\* takes no connection out of the hands of a handler.
CleanExitLeavesNothing ==
  main = "exited" =>
    /\ endings = {} =>
         /\ \A k \in Caller : conn[k] \in {"none", "answered"} /\ ~ TaskRunning(k)
         /\ ~ sweeping
    /\ "failed" \notin endings => \A k \in Caller : handler[k] # "query"

\* "A shutdown cuts the retry ladder short instead of letting it run to
\* completion": an attempt may deliver and fail all the same, so a mail may go
\* out once per attempt; but after the signal only what was on the network by
\* then is still delivered, and nothing of what a handler starts later, however
\* backoffs end, drains take and requests come in.
ShutdownCutsTheLadder ==
  \A k \in Caller : /\ copies[k] <= task[k].attempt
                     /\ canceled => copies[k] <= onTheWire[k]

\* After the first signal the process ends, whatever handlers and background
\* tasks do, and although the pool closes only when every connection is back.
ShutdownEnds == canceled ~> main = "exited"
=============================================================================
