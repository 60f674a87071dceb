----------------------------- MODULE RideCommand -----------------------------
(***************************************************************************)
(* The execution shape RideCreate, RideLock, RideBurn and RideUnlock share *)
(* (ADR-024): one transaction claims the Idempotency-Key, executes the     *)
(* command, stores its answer and commits; the advisory reads run on the   *)
(* connection pool beside it.  A request therefore holds one connection    *)
(* throughout and needs a second one now and then, and a duplicate waits   *)
(* for its key with a connection in hand.                                  *)
(*                                                                         *)
(* What the command does to the rides is RideService's subject: here it is *)
(* either executed or refused.                                             *)
(***************************************************************************)
EXTENDS Naturals, Sequences, FiniteSets

CONSTANTS
    Session,     \* requests in flight at a time
    Key,         \* Idempotency-Key values
    Request,     \* what request_hash tells apart: method, URI and body
    NoKey, NoRequest,
    Reads,       \* Reads[q]: the pool reads of the command q is for
    MaxConns     \* size of the pool

ASSUME PoolAssumption ==
    /\ MaxConns \in Nat \ {0}
    /\ Reads \in [Request -> Nat \ {0}]
    /\ NoKey \notin Key
    /\ NoRequest \notin Request

VARIABLES
    keyRow,      \* committed idempotency_keys: request_hash and the stored answer
    effect,      \* effect[k]: the commands committed under key k
    replies,     \* answers that left the server
    busy,        \* connections taken from the pool
    sess

vars == <<keyRow, effect, replies, busy, sess>>

\* answer: the execution the stored response describes; 0 is the placeholder
\* of Claim (status 0, empty body).
KeyRow == [request: Request \cup {NoRequest}, answer: Nat]
Unclaimed == [request |-> NoRequest, answer |-> 0]

\* left: the advisory reads still to do; run: which execution under the key
\* this is; answer: what the claimed row stores for it.
Idle == [pc |-> "idle", key |-> NoKey, request |-> NoRequest, left |-> 0, run |-> 0, answer |-> 0]

SessionState ==
    [pc: {"idle", "begin", "claim", "read", "reading", "write", "classify", "classifying",
          "save", "commit", "answer"},
     key: Key \cup {NoKey}, request: Request \cup {NoRequest}, left: Nat, run: Nat, answer: Nat]

TypeOK ==
    /\ keyRow \in [Key -> KeyRow]
    /\ effect \in [Key -> Seq(Request)]
    /\ replies \subseteq [key: Key, request: Request, run: Nat]
    /\ busy \in 0..MaxConns
    /\ sess \in [Session -> SessionState]

Init ==
    /\ keyRow = [k \in Key |-> Unclaimed]
    /\ effect = [k \in Key |-> <<>>]
    /\ replies = {}
    /\ busy = 0
    /\ sess = [s \in Session |-> Idle]

-----------------------------------------------------------------------------

\* Variant: the Rollback after a Commit gives a connection back once more.
HeldTooLong(s) == CASE sess[s].pc \in {"idle", "begin"}          -> 0
                    [] sess[s].pc \in {"reading", "classifying"} -> 2
                    [] OTHER                                     -> 1

\* The connections a request has: its transaction's, and that of a read.
Held(s) == CASE sess[s].pc \in {"idle", "begin", "answer"}   -> 0
             [] sess[s].pc \in {"reading", "classifying"}    -> 2
             [] OTHER                                        -> 1

\* Variant: the claim does not wait for an uncommitted one.
ClaimsNothing(s, k) == FALSE

Claims(s, k) == /\ sess[s].key = k
                /\ sess[s].pc \in {"read", "reading", "write", "classify", "classifying",
                                   "save", "commit"}

Goto(s, pc) == sess' = [sess EXCEPT ![s].pc = pc]

\* Variant: the connection of a read is forgotten.
GiveBackOne(s) ==
    /\ sess' = [sess EXCEPT ![s] = Idle]
    /\ busy' = IF Held(s) = 0 THEN busy ELSE busy - 1
    /\ UNCHANGED <<keyRow, effect, replies>>

\* The read's connection goes back when its row is scanned or its context ends,
\* the transaction's in the deferred Rollback; the claim goes with it.
GiveUp(s) ==
    /\ sess' = [sess EXCEPT ![s] = Idle]
    /\ busy' = busy - Held(s)
    /\ UNCHANGED <<keyRow, effect, replies>>

\* A deadline, a client gone, a lost connection, a crash; from "answer" the
\* command is committed and only its answer is lost.
Fail(s) == sess[s].pc # "idle" /\ GiveUp(s)

\* A request arrives: a first attempt, a retry, or a key used for another.
Arrive(s, k, q) ==
    /\ sess[s].pc = "idle"
    /\ sess' = [sess EXCEPT ![s] = [Idle EXCEPT !.pc = "begin", !.key = k, !.request = q]]
    /\ UNCHANGED <<keyRow, effect, replies, busy>>

\* Pool.Begin, or Pool.QueryRow: wait for a connection.
Acquire(s, from, to) ==
    /\ sess[s].pc = from
    /\ busy < MaxConns
    /\ busy' = busy + 1
    /\ Goto(s, to)
    /\ UNCHANGED <<keyRow, effect, replies>>

BeginTx(s)      == Acquire(s, "begin", "claim")
AcquireRead(s)  == Acquire(s, "read", "reading") \/ Acquire(s, "classify", "classifying")

Send(s, run) == replies' = replies \cup {[key |-> sess[s].key, request |-> sess[s].request,
                                          run |-> run]}

\* Variant: the stored answer goes to whoever holds the key.
ReplayUnhashed(s) ==
    LET row == keyRow[sess[s].key] IN
    /\ row.request # NoRequest
    /\ Send(s, row.answer)
    /\ sess' = [sess EXCEPT ![s] = Idle]
    /\ busy' = busy - Held(s)
    /\ UNCHANGED <<keyRow, effect>>

\* Claim lost to a committed row of the same request: its answer is replayed.
Replay(s) ==
    LET row == keyRow[sess[s].key] IN
    /\ row.request = sess[s].request
    /\ Send(s, row.answer)
    /\ sess' = [sess EXCEPT ![s] = Idle]
    /\ busy' = busy - Held(s)
    /\ UNCHANGED <<keyRow, effect>>

\* Claim lost to another request's row: ErrIdempotencyConflict.
Conflict(s) ==
    /\ keyRow[sess[s].key].request \notin {NoRequest, sess[s].request}
    /\ GiveUp(s)

\* INSERT ... ON CONFLICT DO NOTHING waits for an uncommitted claim of the key.
Claim(s) ==
    /\ sess[s].pc = "claim"
    /\ \A o \in Session \ {s} : ~Claims(o, sess[s].key)
    /\ \/ /\ keyRow[sess[s].key] = Unclaimed
          /\ sess' = [sess EXCEPT ![s].pc = "read", ![s].left = Reads[sess[s].request]]
          /\ UNCHANGED <<keyRow, effect, replies, busy>>
       \/ Replay(s)
       \/ Conflict(s)

\* An advisory read answers and gives its connection back; what it read may
\* refuse the command.
Read(s) ==
    /\ sess[s].pc = "reading"
    /\ \/ /\ busy' = busy - 1
          /\ sess' = [sess EXCEPT ![s].left = @ - 1,
                                  ![s].pc = IF sess[s].left > 1 THEN "read" ELSE "write"]
          /\ UNCHANGED <<keyRow, effect, replies>>
       \/ GiveUp(s)

\* The guarded write: it happens, with the execution's own answer, or the
\* race is lost and the refusal is classified by one more pool read.
Write(s) ==
    /\ sess[s].pc = "write"
    /\ \/ sess' = [sess EXCEPT ![s].pc = "save", ![s].run = Len(effect[sess[s].key]) + 1]
       \/ Goto(s, "classify")
    /\ UNCHANGED <<keyRow, effect, replies, busy>>

Classify(s) == sess[s].pc = "classifying" /\ GiveUp(s)

Save(s) ==
    /\ sess[s].pc = "save"
    /\ sess' = [sess EXCEPT ![s].pc = "commit", ![s].answer = sess[s].run]
    /\ UNCHANGED <<keyRow, effect, replies, busy>>

\* Claim, command and answer become visible together.
Commit(s) ==
    LET k == sess[s].key IN
    /\ sess[s].pc = "commit"
    /\ keyRow' = [keyRow EXCEPT ![k] = [request |-> sess[s].request, answer |-> sess[s].answer]]
    /\ effect' = [effect EXCEPT ![k] = Append(@, sess[s].request)]
    /\ busy' = busy - 1
    /\ Goto(s, "answer")
    /\ UNCHANGED replies

Answer(s) ==
    /\ sess[s].pc = "answer"
    /\ Send(s, sess[s].answer)
    /\ sess' = [sess EXCEPT ![s] = Idle]
    /\ UNCHANGED <<keyRow, effect, busy>>

Progress(s) ==
    \/ BeginTx(s) \/ Claim(s) \/ AcquireRead(s) \/ Read(s)
    \/ Write(s) \/ Classify(s) \/ Save(s) \/ Commit(s) \/ Answer(s)

Next == \E s \in Session :
    \/ \E k \in Key, q \in Request : Arrive(s, k, q)
    \/ Progress(s)
    \/ Fail(s)

Spec == Init /\ [][Next]_vars

\* Goroutines run, PostgreSQL answers, a free connection is handed out; no
\* deadline is counted on.
FairSpec == Spec /\ \A s \in Session : WF_vars(Progress(s))

-----------------------------------------------------------------------------
(* Properties *)

\* Failures are never cached and nothing executes unclaimed: a key row is
\* committed exactly with one execution of the request it names, and it holds
\* that execution's answer, never the placeholder.
ClaimedIffExecuted ==
    \A k \in Key : IF keyRow[k] = Unclaimed THEN effect[k] = <<>>
                   ELSE effect[k] = <<keyRow[k].request>> /\ keyRow[k].answer = 1

\* The ADR-024 promise to the client.
Promise == INSTANCE ExactlyOnce
KeepsPromise == Promise!Spec

\* What the next statement of a request waits for is there: a connection, or
\* its key.
Ready(s) ==
    CASE sess[s].pc = "idle"                          -> FALSE
      [] sess[s].pc \in {"begin", "read", "classify"} -> busy < MaxConns
      [] sess[s].pc = "claim" -> \A o \in Session \ {s} : ~Claims(o, sess[s].key)
      [] OTHER                                        -> TRUE

\* Whoever waits, somebody else's wait is over.  Not so when there are as many
\* requests as connections and each waits for a second one.
SomebodyProceeds ==
    (\E s \in Session : sess[s].pc # "idle") => \E s \in Session : Ready(s)

\* Those who wait with their one connection in hand.
Stuck == {s \in Session : sess[s].pc \in {"read", "classify", "claim"}}

\* That is the only stall there is: somebody can go on, or every connection of
\* the pool is in the hands of another waiting request. Requests never wait for
\* each other's keys in a circle, and no connection is ever lost on a path out
\* of a command. IdempotencyStore: "a concurrent duplicate blocks on the claim,
\* then replays the committed response".
StallTakesThePool ==
    SomebodyProceeds \/ (busy = MaxConns /\ Cardinality(Stuck) = MaxConns)

\* With a connection to spare, requests drain without any deadline.
RequestsDrain ==
    <>[][\A s \in Session : sess[s].pc = "idle" => sess'[s].pc = "idle"]_vars
        => <>[](\A s \in Session : sess[s].pc = "idle")
=============================================================================
