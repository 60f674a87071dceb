-------------------------- MODULE RideCommandProofs --------------------------
(***************************************************************************)
(* The idempotent execution shape keeps the promise of ExactlyOnce, for    *)
(* any number of requests, keys, connections and advisory reads.  What     *)
(* makes it work is that a key has at most one claimant at a time and only *)
(* while no row of it is committed (SingleFlight): from there on, a        *)
(* claimant is the first execution under its key.                          *)
(***************************************************************************)
EXTENDS RideCommand, FiniteSetTheorems, TLAPS

\* The types this argument needs: busy is left out, counting connections is
\* of no use to it (the pool is counted at the end of the module).
Types == /\ keyRow \in [Key -> KeyRow]
         /\ effect \in [Key -> Seq(Request)]
         /\ sess \in [Session -> SessionState]

\* A request that has arrived knows its key and what it asks for, and one that
\* reads has a read left to do.
Arrived ==
    \A s \in Session :
        /\ sess[s].pc # "idle" => sess[s].key \in Key /\ sess[s].request \in Request
        /\ sess[s].pc \in {"read", "reading"} => sess[s].left > 0

SingleFlight ==
    \A s \in Session, k \in Key : Claims(s, k) =>
        /\ keyRow[k] = Unclaimed
        /\ \A o \in Session \ {s} : ~Claims(o, k)

\* The answer on its way is that of the first execution under the key.
FirstRun ==
    \A s \in Session :
        /\ sess[s].pc = "save"   => sess[s].run = 1
        /\ sess[s].pc = "commit" => sess[s].answer = 1
        /\ sess[s].pc = "answer" => /\ sess[s].answer = 1
                                    /\ keyRow[sess[s].key].request = sess[s].request

IInv == Types /\ Arrived /\ SingleFlight /\ FirstRun /\ ClaimedIffExecuted

-----------------------------------------------------------------------------

LEMMA InitIInv == Init => IInv
  BY PoolAssumption
  DEF Init, IInv, Types, Arrived, SingleFlight, FirstRun, ClaimedIffExecuted, KeyRow, Unclaimed,
      Idle, SessionState, Claims, PoolAssumption

\* A request that ends gives up its claim and changes no row.
LEMMA EndKeepsIInv ==
    ASSUME IInv, NEW s \in Session, sess' = [sess EXCEPT ![s] = Idle], UNCHANGED <<keyRow, effect>>
    PROVE  IInv'
  <1> USE DEF IInv, Types
  <1>1. sess'[s].pc = "idle" /\ \A o \in Session \ {s} : sess'[o] = sess[o]
    BY DEF Idle
  <1>2. Types'
    BY DEF Idle, SessionState
  <1>3. Arrived' /\ FirstRun' /\ ClaimedIffExecuted'
    BY <1>1 DEF Arrived, FirstRun, ClaimedIffExecuted
  <1>4. SingleFlight'
    BY <1>1 DEF SingleFlight, Claims
  <1> QED BY <1>2, <1>3, <1>4

\* A step that moves a request on without touching its key, its request or
\* the tables, and claims nothing new, keeps the invariant if the answer it
\* carries stays the first.
LEMMA MoveKeepsIInv ==
    ASSUME IInv, NEW s \in Session, UNCHANGED <<keyRow, effect>>,
           sess' \in [Session -> SessionState],
           \A o \in Session \ {s} : sess'[o] = sess[o],
           sess'[s].key = sess[s].key, sess'[s].request = sess[s].request,
           sess[s].pc # "idle",
           \A k \in Key : Claims(s, k)' => Claims(s, k),
           sess'[s].pc = "save" => sess'[s].run = 1,
           sess'[s].pc = "commit" => sess'[s].answer = 1,
           sess'[s].pc # "answer",
           sess'[s].pc \in {"read", "reading"} => sess'[s].left > 0
    PROVE  IInv'
  <1> USE DEF IInv, Types
  <1>1. \A o \in Session, k \in Key : Claims(o, k)' => Claims(o, k)
    BY DEF Claims
  <1>2. SingleFlight'
    BY <1>1 DEF SingleFlight
  <1>3. Types' /\ Arrived' /\ FirstRun' /\ ClaimedIffExecuted'
    BY DEF Arrived, FirstRun, ClaimedIffExecuted
  <1> QED BY <1>2, <1>3

\* What moving on comes to, for any new state n of the request.
LEMMA OnlyOne ==
    ASSUME Types, NEW s \in Session, NEW n \in SessionState, sess' = [sess EXCEPT ![s] = n]
    PROVE  /\ sess' \in [Session -> SessionState]
           /\ sess'[s] = n
           /\ \A o \in Session \ {s} : sess'[o] = sess[o]
  BY DEF Types

\* While it moves on, a request that already claims its key is the only one to
\* do so, and what it is about to store describes run 1.
LEMMA StepKeepsIInv ==
    ASSUME IInv, NEW s \in Session,
           BeginTx(s) \/ AcquireRead(s) \/ Read(s) \/ Write(s) \/ Save(s)
    PROVE  IInv'
  <1>0. Types /\ sess[s] \in SessionState
    BY DEF IInv, Types
  <1>1. ASSUME NEW from, NEW to, Acquire(s, from, to),
               <<from, to>> \in {<<"begin", "claim">>, <<"read", "reading">>,
                                 <<"classify", "classifying">>}
        PROVE  IInv'
    <2> DEFINE n == [sess[s] EXCEPT !.pc = to]
    <2>1. /\ n \in SessionState /\ n.pc = to /\ n.key = sess[s].key
          /\ n.request = sess[s].request /\ n.left = sess[s].left
      BY <1>0, <1>1 DEF SessionState
    <2>2. sess' = [sess EXCEPT ![s] = n] /\ sess[s].pc = from /\ UNCHANGED <<keyRow, effect>>
      BY <1>1 DEF Acquire, Goto
    <2>3. \A k \in Key : Claims(s, k)' => Claims(s, k)
      BY <1>0, <1>1, <2>1, <2>2, OnlyOne DEF Claims
    <2>4. n.pc \in {"read", "reading"} => n.left > 0
      BY <1>1, <2>1, <2>2 DEF IInv, Arrived
    <2> HIDE DEF n
    <2> QED BY <1>0, <1>1, <2>1, <2>2, <2>3, <2>4, OnlyOne, MoveKeepsIInv
  <1>2. CASE Read(s)
    <2>1. CASE GiveUp(s)
      BY <2>1, EndKeepsIInv DEF GiveUp
    <2>2. CASE ~GiveUp(s)
      <3> DEFINE to == IF sess[s].left > 1 THEN "read" ELSE "write"
                 n  == [sess[s] EXCEPT !.left = @ - 1, !.pc = to]
      <3>1. /\ sess[s].pc = "reading"
            /\ sess' = [sess EXCEPT ![s] = n]
            /\ UNCHANGED <<keyRow, effect>>
        BY <1>2, <2>2 DEF Read
      <3>2. sess[s].left \in Nat /\ sess[s].left > 0
        BY <1>0, <3>1 DEF IInv, Arrived, SessionState
      <3>3. sess[s].left - 1 \in Nat /\ (to = "read" => sess[s].left - 1 > 0)
        BY <3>2
      <3>4. /\ n \in SessionState /\ n.pc = to /\ n.key = sess[s].key
            /\ n.request = sess[s].request /\ n.left = sess[s].left - 1
        BY <1>0, <3>3 DEF SessionState
      <3>5. \A k \in Key : Claims(s, k)' => Claims(s, k)
        BY <1>0, <3>1, <3>4, OnlyOne DEF Claims
      <3>6. to \in {"read", "write"}
        OBVIOUS
      <3> HIDE DEF n, to
      <3> QED BY <1>0, <3>1, <3>3, <3>4, <3>5, <3>6, OnlyOne, MoveKeepsIInv
    <2> QED BY <2>1, <2>2
  <1>3. CASE Write(s)
    <2>1. PICK k \in Key : k = sess[s].key
      BY <1>3 DEF IInv, Write, Arrived
    <2>2. Claims(s, k)
      BY <1>3, <2>1 DEF Write, Claims
    <2>3. effect[k] = <<>>
      BY <2>2 DEF IInv, SingleFlight, ClaimedIffExecuted
    <2>4. Len(effect[sess[s].key]) + 1 = 1
      BY <2>1, <2>3
    <2>5. PICK n \in SessionState :
             /\ sess' = [sess EXCEPT ![s] = n] /\ UNCHANGED <<keyRow, effect>>
             /\ n.key = sess[s].key /\ n.request = sess[s].request
             /\ n.pc = "classify" \/ (n.pc = "save" /\ n.run = 1)
      <3>1. CASE Goto(s, "classify")
        <4> DEFINE n == [sess[s] EXCEPT !.pc = "classify"]
        <4>1. /\ n \in SessionState /\ n.pc = "classify"
              /\ n.key = sess[s].key /\ n.request = sess[s].request
          BY <1>0 DEF SessionState
        <4>2. sess' = [sess EXCEPT ![s] = n]
          BY <3>1 DEF Goto
        <4> HIDE DEF n
        <4> QED BY <1>3, <4>1, <4>2 DEF Write
      <3>2. CASE sess' = [sess EXCEPT ![s].pc = "save",
                                      ![s].run = Len(effect[sess[s].key]) + 1]
        <4> DEFINE n == [sess[s] EXCEPT !.pc = "save", !.run = 1]
        <4>1. /\ n \in SessionState /\ n.pc = "save" /\ n.run = 1
              /\ n.key = sess[s].key /\ n.request = sess[s].request
          BY <1>0 DEF SessionState
        <4>2. sess' = [sess EXCEPT ![s] = n]
          BY <2>4, <3>2
        <4> HIDE DEF n
        <4> QED BY <1>3, <4>1, <4>2 DEF Write
      <3> QED BY <1>3, <3>1, <3>2 DEF Write
    <2>6. \A l \in Key : Claims(s, l)' => Claims(s, l)
      BY <1>0, <1>3, <2>5, OnlyOne DEF Claims, Write
    <2>7. sess[s].pc = "write"
      BY <1>3 DEF Write
    <2> QED BY <1>0, <2>5, <2>6, <2>7, OnlyOne, MoveKeepsIInv
  <1>4. CASE Save(s)
    <2> DEFINE n == [sess[s] EXCEPT !.pc = "commit", !.answer = sess[s].run]
    <2>1. /\ sess[s].pc = "save" /\ sess[s].run = 1
          /\ sess' = [sess EXCEPT ![s] = n] /\ UNCHANGED <<keyRow, effect>>
      BY <1>4 DEF Save, IInv, FirstRun
    <2>2. /\ n \in SessionState /\ n.pc = "commit" /\ n.answer = 1
          /\ n.key = sess[s].key /\ n.request = sess[s].request
      BY <1>0, <2>1 DEF SessionState
    <2>3. \A k \in Key : Claims(s, k)' => Claims(s, k)
      BY <1>0, <2>1, <2>2, OnlyOne DEF Claims
    <2> HIDE DEF n
    <2> QED BY <1>0, <2>1, <2>2, <2>3, OnlyOne, MoveKeepsIInv
  <1> QED BY <1>1, <1>2, <1>3, <1>4 DEF BeginTx, AcquireRead

\* A request gets the claim only when nobody has it and no row is committed.
LEMMA ClaimKeepsIInv ==
    ASSUME IInv, NEW s \in Session, Claim(s)
    PROVE  IInv'
  <1> USE DEF IInv, Types
  <1>1. CASE Replay(s) \/ Conflict(s)
    BY <1>1, EndKeepsIInv DEF Replay, Conflict, GiveUp
  <1>2. CASE ~(Replay(s) \/ Conflict(s))
    <2>1. /\ sess[s].pc = "claim"
          /\ \A o \in Session \ {s} : ~Claims(o, sess[s].key)
          /\ keyRow[sess[s].key] = Unclaimed
          /\ sess' = [sess EXCEPT ![s].pc = "read", ![s].left = Reads[sess[s].request]]
          /\ UNCHANGED <<keyRow, effect>>
      BY <1>2 DEF Claim
    <2>2. sess[s].key \in Key /\ sess[s].request \in Request
      BY <2>1 DEF Arrived
    <2> DEFINE n == [sess[s] EXCEPT !.pc = "read", !.left = Reads[sess[s].request]]
    <2>3. Reads[sess[s].request] \in Nat /\ Reads[sess[s].request] > 0
      BY <2>2, PoolAssumption DEF PoolAssumption
    <2>4. /\ n \in SessionState /\ n.pc = "read" /\ n.left > 0
          /\ n.key = sess[s].key /\ n.request = sess[s].request
      BY <2>3 DEF SessionState
    <2>5. sess' = [sess EXCEPT ![s] = n]
      BY <2>1
    <2> HIDE DEF n
    <2>6. /\ sess' \in [Session -> SessionState] /\ sess'[s] = n
          /\ \A o \in Session \ {s} : sess'[o] = sess[o]
      BY <2>4, <2>5, OnlyOne
    <2>7. Types' /\ Arrived' /\ FirstRun' /\ ClaimedIffExecuted'
      BY <2>1, <2>2, <2>4, <2>6 DEF Arrived, FirstRun, ClaimedIffExecuted
    <2>8. \A o \in Session \ {s}, l \in Key : Claims(o, l)' <=> Claims(o, l)
      BY <2>6 DEF Claims
    <2>9. \A l \in Key : Claims(s, l)' => l = sess[s].key
      BY <2>4, <2>6 DEF Claims
    <2>10. SingleFlight'
      BY <2>1, <2>8, <2>9 DEF SingleFlight
    <2> QED BY <2>7, <2>10
  <1> QED BY <1>1, <1>2

\* The claimant commits the first execution under its key, with its answer.
LEMMA CommitKeepsIInv ==
    ASSUME IInv, NEW s \in Session, Commit(s)
    PROVE  /\ IInv'
           /\ sess[s].key \in Key /\ sess[s].request \in Request
           /\ effect[sess[s].key] = <<>>
           /\ effect' = [effect EXCEPT ![sess[s].key] = <<sess[s].request>>]
  <1> USE DEF IInv, Types
  <1> DEFINE k == sess[s].key
             q == sess[s].request
  <1>1. k \in Key /\ q \in Request /\ sess[s].answer = 1
    BY DEF Commit, Arrived, FirstRun
  <1>2. keyRow[k] = Unclaimed /\ \A o \in Session \ {s} : ~Claims(o, k)
    BY <1>1 DEF Commit, SingleFlight, Claims
  <1>3. effect[k] = <<>>
    BY <1>1, <1>2 DEF ClaimedIffExecuted
  <1>4. Append(effect[k], q) = <<q>>
    BY <1>3
  <1>5. effect' = [effect EXCEPT ![k] = <<q>>]
    BY <1>4 DEF Commit
  <1>6. keyRow' = [keyRow EXCEPT ![k] = [request |-> q, answer |-> 1]]
    BY <1>1 DEF Commit
  <1> DEFINE n == [sess[s] EXCEPT !.pc = "answer"]
  <1>n. /\ n \in SessionState /\ n.pc = "answer" /\ n.key = k /\ n.request = q /\ n.answer = 1
        /\ sess' = [sess EXCEPT ![s] = n]
    BY <1>1 DEF Commit, Goto, SessionState
  <1> HIDE DEF n
  <1>7. /\ sess' \in [Session -> SessionState] /\ sess'[s] = n
        /\ \A o \in Session \ {s} : sess'[o] = sess[o]
    BY <1>n, OnlyOne
  <1>8. Types'
    <2>1. <<q>> \in Seq(Request)
      BY <1>1
    <2>2. [request |-> q, answer |-> 1] \in KeyRow
      BY <1>1 DEF KeyRow
    <2> QED BY <1>1, <1>5, <1>6, <1>7, <2>1, <2>2
  <1>9. Arrived'
    BY <1>1, <1>7, <1>n DEF Arrived
  <1>10. ClaimedIffExecuted'
    BY <1>1, <1>5, <1>6, PoolAssumption DEF ClaimedIffExecuted, Unclaimed, PoolAssumption
  <1>11. FirstRun'
    <2>1. keyRow'[k].request = q
      BY <1>1, <1>6
    <2>2. ASSUME NEW o \in Session \ {s}, sess[o].pc = "answer"
          PROVE  keyRow'[sess[o].key].request = sess[o].request
      <3>1. /\ sess[o].key \in Key /\ sess[o].request \in Request
            /\ keyRow[sess[o].key].request = sess[o].request
        BY <2>2 DEF FirstRun, Arrived
      <3>2. sess[o].key # k
        BY <1>2, <3>1, PoolAssumption DEF Unclaimed, PoolAssumption
      <3> QED BY <1>6, <3>1, <3>2
    <2> QED BY <1>7, <1>n, <2>1, <2>2 DEF FirstRun
  <1>12. SingleFlight'
    <2>1. \A o \in Session \ {s}, l \in Key : Claims(o, l)' <=> Claims(o, l)
      BY <1>7 DEF Claims
    <2>2. \A l \in Key : ~Claims(s, l)'
      BY <1>7, <1>n DEF Claims
    <2>3. \A l \in Key \ {k} : keyRow'[l] = keyRow[l]
      BY <1>6
    <2>4. ASSUME NEW o \in Session, NEW l \in Key, Claims(o, l)'
          PROVE  keyRow'[l] = Unclaimed /\ \A p \in Session \ {o} : ~Claims(p, l)'
      <3>1. o # s /\ Claims(o, l) /\ l # k
        BY <1>2, <2>1, <2>2, <2>4
      <3>2. keyRow[l] = Unclaimed /\ \A p \in Session \ {o} : ~Claims(p, l)
        BY <3>1 DEF SingleFlight
      <3>3. keyRow'[l] = Unclaimed
        BY <2>3, <3>1, <3>2
      <3>4. \A p \in Session \ {o} : ~Claims(p, l)'
        BY <2>1, <2>2, <3>2
      <3> QED BY <3>3, <3>4
    <2> QED BY <2>4 DEF SingleFlight, Unclaimed
  <1> QED BY <1>1, <1>3, <1>5, <1>8, <1>9, <1>10, <1>11, <1>12

\* A request that arrives claims nothing yet.
LEMMA ArriveKeepsIInv ==
    ASSUME IInv, NEW s \in Session, NEW k \in Key, NEW q \in Request, Arrive(s, k, q)
    PROVE  IInv'
  <1> USE DEF IInv, Types
  <1> DEFINE n == [Idle EXCEPT !.pc = "begin", !.key = k, !.request = q]
  <1>1. /\ n \in SessionState /\ n.pc = "begin" /\ n.key = k /\ n.request = q
        /\ sess' = [sess EXCEPT ![s] = n] /\ UNCHANGED <<keyRow, effect>>
    BY DEF Arrive, Idle, SessionState
  <1> HIDE DEF n
  <1>2. /\ sess' \in [Session -> SessionState] /\ sess'[s] = n
        /\ \A o \in Session \ {s} : sess'[o] = sess[o]
    BY <1>1, OnlyOne
  <1>3. Types' /\ Arrived' /\ FirstRun' /\ ClaimedIffExecuted'
    BY <1>1, <1>2 DEF Arrived, FirstRun, ClaimedIffExecuted
  <1>4. \A o \in Session, l \in Key : Claims(o, l)' => Claims(o, l)
    BY <1>1, <1>2 DEF Claims
  <1>5. SingleFlight'
    BY <1>1, <1>4 DEF SingleFlight
  <1> QED BY <1>3, <1>5

LEMMA NextKeepsIInv == IInv /\ [Next]_vars => IInv'
  <1> SUFFICES ASSUME IInv, [Next]_vars PROVE IInv'
    OBVIOUS
  <1>1. CASE UNCHANGED vars
    BY <1>1 DEF IInv, Types, Arrived, SingleFlight, FirstRun, ClaimedIffExecuted, Claims, vars
  <1>2. ASSUME NEW s \in Session, NEW k \in Key, NEW q \in Request, Arrive(s, k, q)
        PROVE  IInv'
    BY <1>2, ArriveKeepsIInv
  <1>3. ASSUME NEW s \in Session, Fail(s) \/ Classify(s) \/ Answer(s)
        PROVE  IInv'
    BY <1>3, EndKeepsIInv DEF Fail, Classify, Answer, GiveUp
  <1>4. ASSUME NEW s \in Session, Progress(s)
        PROVE  IInv'
    BY <1>3, <1>4, StepKeepsIInv, ClaimKeepsIInv, CommitKeepsIInv DEF Progress
  <1> QED BY <1>1, <1>2, <1>3, <1>4 DEF Next

\* A key row is committed exactly with one execution of the request it names,
\* and with that execution's answer (the one transaction of Claim, the command
\* and Save).
THEOREM ClaimedOnce == Spec => []ClaimedIffExecuted
  <1>1. IInv => ClaimedIffExecuted
    BY DEF IInv
  <1> QED BY <1>1, InitIInv, NextKeepsIInv, PTL DEF Spec

-----------------------------------------------------------------------------

\* An answer that leaves is the first execution's, to its own request.
LEMMA SendIsReply ==
    ASSUME IInv, NEW k \in Key, NEW q \in Request, keyRow[k].request = q,
           replies' = replies \cup {[key |-> k, request |-> q, run |-> 1]},
           UNCHANGED effect
    PROVE  Promise!Next
  <1>1. keyRow[k] # Unclaimed
    BY PoolAssumption DEF Unclaimed, PoolAssumption
  <1>2. effect[k] = <<q>>
    BY <1>1 DEF IInv, ClaimedIffExecuted
  <1>3. Promise!Reply(k, q)
    BY <1>2 DEF Promise!Reply
  <1> QED BY <1>3 DEF Promise!Next

LEMMA StepIsPromised == IInv /\ [Next]_vars => [Promise!Next]_<<effect, replies>>
  <1> SUFFICES ASSUME IInv, Next PROVE Promise!Next \/ UNCHANGED <<effect, replies>>
    BY DEF vars
  <1>1. PICK s \in Session : \/ \E k \in Key, q \in Request : Arrive(s, k, q)
                            \/ Progress(s)
                            \/ Fail(s)
    BY DEF Next
  <1>2. CASE Commit(s)
    <2>1. /\ sess[s].key \in Key /\ sess[s].request \in Request
          /\ Promise!Execute(sess[s].key, sess[s].request)
      BY <1>2, CommitKeepsIInv DEF Promise!Execute, Commit
    <2> QED BY <2>1 DEF Promise!Next
  <1>3. CASE Answer(s)
    <2>1. /\ sess[s].key \in Key /\ sess[s].request \in Request /\ sess[s].answer = 1
          /\ keyRow[sess[s].key].request = sess[s].request
      BY <1>3 DEF Answer, IInv, Arrived, FirstRun
    <2> QED BY <1>3, <2>1, SendIsReply DEF Answer, Send
  <1>4. CASE Claim(s) /\ Replay(s)
    <2>1. sess[s].key \in Key /\ sess[s].request \in Request
      BY <1>4 DEF Claim, IInv, Arrived
    <2>2. keyRow[sess[s].key].request = sess[s].request
      BY <1>4 DEF Replay
    <2>3. keyRow[sess[s].key] # Unclaimed
      BY <2>1, <2>2, PoolAssumption DEF Unclaimed, PoolAssumption
    <2>4. keyRow[sess[s].key].answer = 1
      BY <2>1, <2>3 DEF IInv, ClaimedIffExecuted
    <2> QED BY <1>4, <2>1, <2>2, <2>4, SendIsReply DEF Replay, Send
  <1>5. CASE ~(Commit(s) \/ Answer(s) \/ (Claim(s) /\ Replay(s)))
    BY <1>1, <1>5
    DEF Arrive, Progress, Fail, GiveUp, BeginTx, AcquireRead, Acquire, Claim, Conflict, Read,
        Write, Classify, Save
  <1> QED BY <1>2, <1>3, <1>4, <1>5

\* The execution shape implements the Idempotency-Key promise: under a key one
\* request at most is executed, once, and every answer is that execution's,
\* replayed or not, whatever requests fail or are repeated meanwhile.
THEOREM PromiseKept == Spec => KeepsPromise
  <1>1. Init => Promise!Init
    BY DEF Init, Promise!Init
  <1> QED BY <1>1, InitIInv, NextKeepsIInv, StepIsPromised, PTL
          DEF Spec, KeepsPromise, Promise!Spec, Promise!vars

\* What the promise gives a client: every answer is backed by the one
\* execution under its key, so an answer is never taken back, and two answers
\* under a key are the same one.
Backed == \A a \in replies : effect[a.key] = <<a.request>> /\ a.run = 1

LEMMA PromiseBacksAnswers == Promise!Spec => []Backed
  <1> DEFINE Kept == /\ Backed
                     /\ DOMAIN effect = Key
                     /\ \A a \in replies : a.key \in Key
  <1>1. Promise!Init => Kept
    BY DEF Promise!Init, Backed
  <1>2. Kept /\ [Promise!Next]_(Promise!vars) => Kept'
    <2> SUFFICES ASSUME Kept, [Promise!Next]_(Promise!vars) PROVE Kept'
      OBVIOUS
    <2>1. CASE UNCHANGED Promise!vars
      BY <2>1 DEF Promise!vars, Backed
    <2>2. ASSUME NEW k \in Key, NEW q \in Request, Promise!Execute(k, q) PROVE Kept'
      <3>1. effect[k] = <<>> /\ effect' = [effect EXCEPT ![k] = <<q>>] /\ replies' = replies
        BY <2>2 DEF Promise!Execute
      <3>2. ASSUME NEW a \in replies, a.key = k PROVE FALSE
        <4>1. <<a.request>> = <<>>
          BY <3>1, <3>2 DEF Backed
        <4> QED BY <4>1
      <3>3. \A a \in replies : a.key \in Key /\ effect'[a.key] = effect[a.key]
        BY <3>1, <3>2
      <3>4. DOMAIN effect' = Key
        BY <3>1
      <3> QED BY <3>1, <3>3, <3>4 DEF Backed
    <2>3. ASSUME NEW k \in Key, NEW q \in Request, Promise!Reply(k, q) PROVE Kept'
      BY <2>3 DEF Promise!Reply, Backed
    <2> QED BY <2>1, <2>2, <2>3 DEF Promise!Next
  <1>3. Kept => Backed
    OBVIOUS
  <1> QED BY <1>1, <1>2, <1>3, PTL DEF Promise!Spec

\* No client ever holds an answer to a command that is not committed, and
\* whoever asks under the same key gets the same answer to the same request: a
\* lost answer can be asked for again, and a crash takes none back.
THEOREM AnswersAreBacked ==
    Spec => [](Backed /\ \A a, b \in replies : a.key = b.key => a.request = b.request /\ a.run = b.run)
  <1>1. Backed => \A a, b \in replies : a.key = b.key => a.request = b.request /\ a.run = b.run
    <2> SUFFICES ASSUME Backed, NEW a \in replies, NEW b \in replies, a.key = b.key
                 PROVE  a.request = b.request /\ a.run = b.run
      OBVIOUS
    <2>1. <<a.request>> = <<b.request>> /\ a.run = 1 /\ b.run = 1
      BY DEF Backed
    <2> QED BY <2>1
  <1> QED BY <1>1, PromiseKept, PromiseBacksAnswers, PTL DEF KeepsPromise

-----------------------------------------------------------------------------
(* The pool: connections taken are connections held *)

\* A request's first connection is its transaction's, its second a read's.
HasFirst(q)  == q.pc \notin {"idle", "begin", "answer"}
HasSecond(q) == q.pc \in {"reading", "classifying"}
Units(q)     == (IF HasFirst(q) THEN 1 ELSE 0) + (IF HasSecond(q) THEN 1 ELSE 0)

WithFirst  == {s \in Session : HasFirst(sess[s])}
WithSecond == {s \in Session : HasSecond(sess[s])}

PoolCounted ==
    /\ IsFiniteSet(WithFirst) /\ IsFiniteSet(WithSecond)
    /\ busy = Cardinality(WithFirst) + Cardinality(WithSecond)
    /\ busy <= MaxConns

Replies == replies \subseteq [key: Key, request: Request, run: Nat]

\* A set that gains or loses x at most.
LEMMA OneMember ==
    ASSUME NEW S, IsFiniteSet(S), NEW T, NEW x, \A y : y # x => (y \in S <=> y \in T)
    PROVE  /\ IsFiniteSet(T) /\ Cardinality(S) \in Nat /\ Cardinality(T) \in Nat
           /\ Cardinality(T) = Cardinality(S) - (IF x \in S THEN 1 ELSE 0) + (IF x \in T THEN 1 ELSE 0)
  <1>1. Cardinality(S) \in Nat
    BY FS_CardinalityType
  <1>2. CASE x \in S <=> x \in T
    <2>1. S = T
      BY <1>2
    <2> QED BY <1>1, <2>1
  <1>3. CASE x \in S /\ x \notin T
    <2>1. T = S \ {x}
      BY <1>3
    <2>2. IsFiniteSet(T) /\ Cardinality(T) = Cardinality(S) - 1
      BY <1>3, <2>1, FS_RemoveElement
    <2>3. Cardinality(T) \in Nat
      BY <2>2, FS_CardinalityType
    <2> QED BY <1>1, <1>3, <2>2, <2>3
  <1>4. CASE x \notin S /\ x \in T
    <2>1. T = S \cup {x}
      BY <1>4
    <2>2. IsFiniteSet(T) /\ Cardinality(T) = Cardinality(S) + 1
      BY <1>4, <2>1, FS_AddElement
    <2> QED BY <1>1, <1>4, <2>2
  <1> QED BY <1>2, <1>3, <1>4

\* One request takes or gives back what its step says.
LEMMA PoolStep ==
    ASSUME Types, Types', PoolCounted, NEW s \in Session,
           \A o \in Session \ {s} : sess'[o] = sess[o],
           busy' = busy - Units(sess[s]) + Units(sess[s])',
           Units(sess[s])' <= Units(sess[s]) \/ busy' <= MaxConns
    PROVE  PoolCounted'
  <1>1. PICK first, second : first = WithFirst' /\ second = WithSecond'
    OBVIOUS
  <1>2. /\ \A y : y # s => (y \in WithFirst <=> y \in first)
        /\ \A y : y # s => (y \in WithSecond <=> y \in second)
        /\ s \in WithFirst <=> HasFirst(sess[s])
        /\ s \in first <=> HasFirst(sess[s])'
        /\ s \in WithSecond <=> HasSecond(sess[s])
        /\ s \in second <=> HasSecond(sess[s])'
    BY <1>1 DEF WithFirst, WithSecond, HasFirst, HasSecond
  <1>3. PICK a, b, c, d : /\ a = (IF HasFirst(sess[s]) THEN 1 ELSE 0)
                          /\ b = (IF HasSecond(sess[s]) THEN 1 ELSE 0)
                          /\ c = (IF HasFirst(sess[s])' THEN 1 ELSE 0)
                          /\ d = (IF HasSecond(sess[s])' THEN 1 ELSE 0)
    OBVIOUS
  <1>4. /\ a \in {0, 1} /\ b \in {0, 1} /\ c \in {0, 1} /\ d \in {0, 1}
        /\ Units(sess[s]) = a + b /\ Units(sess[s])' = c + d
    BY <1>3 DEF Units
  <1>5. /\ IsFiniteSet(first) /\ Cardinality(WithFirst) \in Nat /\ Cardinality(first) \in Nat
        /\ Cardinality(first) = Cardinality(WithFirst) - a + c
    BY <1>2, <1>3, OneMember DEF PoolCounted
  <1>6. /\ IsFiniteSet(second) /\ Cardinality(WithSecond) \in Nat /\ Cardinality(second) \in Nat
        /\ Cardinality(second) = Cardinality(WithSecond) - b + d
    BY <1>2, <1>3, OneMember DEF PoolCounted
  <1>7. busy' = Cardinality(first) + Cardinality(second)
    BY <1>4, <1>5, <1>6 DEF PoolCounted
  <1>8. busy \in Nat /\ busy' \in Nat /\ busy <= MaxConns /\ MaxConns \in Nat
    BY <1>5, <1>6, <1>7, PoolAssumption DEF PoolCounted, PoolAssumption
  <1>9. busy' <= MaxConns
    BY <1>4, <1>8
  <1> QED BY <1>1, <1>5, <1>6, <1>7, <1>9 DEF PoolCounted

\* What Held says is what is counted.
LEMMA HeldIsUnits == \A s \in Session : Held(s) = Units(sess[s])
  BY DEF Held, Units, HasFirst, HasSecond

LEMMA EndGivesBack ==
    ASSUME Types, Types', PoolCounted, NEW s \in Session,
           sess' = [sess EXCEPT ![s] = Idle], busy' = busy - Held(s)
    PROVE  PoolCounted'
  <1>1. sess'[s].pc = "idle" /\ \A o \in Session \ {s} : sess'[o] = sess[o]
    BY DEF Types, Idle
  <1>2. Units(sess[s])' = 0
    BY <1>1 DEF Units, HasFirst, HasSecond
  <1>3. Units(sess[s]) \in {0, 1, 2} /\ Held(s) = Units(sess[s])
    BY HeldIsUnits DEF Units
  <1>4. busy \in Int
    BY FS_CardinalityType DEF PoolCounted
  <1> QED BY <1>1, <1>2, <1>3, <1>4, PoolStep

LEMMA PoolInit == Init => PoolCounted /\ Replies
  <1> SUFFICES ASSUME Init PROVE PoolCounted /\ Replies
    OBVIOUS
  <1>1. WithFirst = {} /\ WithSecond = {}
    BY DEF Init, WithFirst, WithSecond, HasFirst, HasSecond, Idle
  <1> QED BY <1>1, FS_EmptySet, PoolAssumption DEF Init, PoolCounted, Replies, PoolAssumption

LEMMA PoolNext == IInv /\ IInv' /\ PoolCounted /\ [Next]_vars => PoolCounted'
  <1> SUFFICES ASSUME IInv, IInv', PoolCounted, [Next]_vars PROVE PoolCounted'
    OBVIOUS
  <1> USE DEF Units, HasFirst, HasSecond
  <1>0. Types /\ Types' /\ busy \in Nat /\ MaxConns \in Nat
    <2>1. Cardinality(WithFirst) \in Nat /\ Cardinality(WithSecond) \in Nat
      BY FS_CardinalityType DEF PoolCounted
    <2> QED BY <2>1, PoolAssumption DEF IInv, PoolCounted, PoolAssumption
  <1>1. CASE UNCHANGED vars
    BY <1>1 DEF vars, PoolCounted, WithFirst, WithSecond
  <1>2. ASSUME NEW s \in Session, NEW k \in Key, NEW q \in Request, Arrive(s, k, q)
        PROVE  PoolCounted'
    <2>1. sess'[s].pc = "begin" /\ sess[s].pc = "idle" /\ busy' = busy
          /\ \A o \in Session \ {s} : sess'[o] = sess[o]
      BY <1>0, <1>2 DEF Arrive, Types, Idle
    <2> QED BY <1>0, <2>1, PoolStep
  <1>3. ASSUME NEW s \in Session, GiveUp(s) PROVE PoolCounted'
    BY <1>0, <1>3, EndGivesBack DEF GiveUp
  <1>4. ASSUME NEW s \in Session, NEW from, NEW to, Acquire(s, from, to),
               <<from, to>> \in {<<"begin", "claim">>, <<"read", "reading">>,
                                 <<"classify", "classifying">>}
        PROVE  PoolCounted'
    <2>1. sess[s].pc = from /\ sess'[s].pc = to /\ busy' = busy + 1 /\ busy < MaxConns
          /\ \A o \in Session \ {s} : sess'[o] = sess[o]
      BY <1>0, <1>4 DEF Acquire, Goto, Types, SessionState
    <2>2. busy' <= MaxConns
      BY <1>0, <2>1
    <2> QED BY <1>0, <1>4, <2>1, <2>2, PoolStep
  <1>5. ASSUME NEW s \in Session, Claim(s) PROVE PoolCounted'
    <2>1. CASE Replay(s)
      BY <1>0, <2>1, EndGivesBack DEF Replay
    <2>2. CASE Conflict(s)
      BY <2>2, <1>3 DEF Conflict
    <2>3. CASE ~Replay(s) /\ ~Conflict(s)
      <3>1. /\ sess[s].pc = "claim" /\ sess'[s].pc = "read" /\ busy' = busy
            /\ \A o \in Session \ {s} : sess'[o] = sess[o]
        BY <1>0, <1>5, <2>3 DEF Claim, Types, SessionState
      <3> QED BY <1>0, <3>1, PoolStep
    <2> QED BY <2>1, <2>2, <2>3
  <1>6. ASSUME NEW s \in Session, Read(s) PROVE PoolCounted'
    <2>1. CASE ~GiveUp(s)
      <3>1. /\ sess[s].pc = "reading" /\ sess'[s].pc \in {"read", "write"} /\ busy' = busy - 1
            /\ \A o \in Session \ {s} : sess'[o] = sess[o]
        BY <1>0, <1>6, <2>1 DEF Read, Types, SessionState
      <3> QED BY <1>0, <3>1, PoolStep
    <2> QED BY <1>3, <2>1
  <1>7. ASSUME NEW s \in Session, Write(s) \/ Save(s) PROVE PoolCounted'
    <2>1. /\ sess[s].pc \in {"write", "save"} /\ sess'[s].pc \in {"save", "classify", "commit"}
          /\ busy' = busy /\ \A o \in Session \ {s} : sess'[o] = sess[o]
      BY <1>0, <1>7 DEF Write, Save, Goto, Types, SessionState
    <2> QED BY <1>0, <2>1, PoolStep
  <1>8. ASSUME NEW s \in Session, Commit(s) PROVE PoolCounted'
    <2>1. /\ sess[s].pc = "commit" /\ sess'[s].pc = "answer" /\ busy' = busy - 1
          /\ \A o \in Session \ {s} : sess'[o] = sess[o]
      BY <1>0, <1>8 DEF Commit, Goto, Types, SessionState
    <2> QED BY <1>0, <2>1, PoolStep
  <1>9. ASSUME NEW s \in Session, Answer(s) PROVE PoolCounted'
    <2>1. /\ sess[s].pc = "answer" /\ sess'[s].pc = "idle" /\ busy' = busy
          /\ \A o \in Session \ {s} : sess'[o] = sess[o]
      BY <1>0, <1>9 DEF Answer, Types, Idle
    <2> QED BY <1>0, <2>1, PoolStep
  <1>10. ASSUME NEW s \in Session, Progress(s) \/ Fail(s) PROVE PoolCounted'
    <2>1. CASE BeginTx(s) \/ AcquireRead(s)
      BY <1>4, <2>1 DEF BeginTx, AcquireRead
    <2> QED BY <1>3, <1>5, <1>6, <1>7, <1>8, <1>9, <1>10, <2>1 DEF Progress, Fail, Classify
  <1> QED BY <1>1, <1>2, <1>10 DEF Next

LEMMA RepliesNext == IInv /\ Replies /\ [Next]_vars => Replies'
  <1> SUFFICES ASSUME IInv, Replies, [Next]_vars PROVE Replies'
    OBVIOUS
  <1>1. ASSUME NEW s \in Session, sess[s].pc # "idle", NEW run \in Nat, Send(s, run) PROVE Replies'
    BY <1>1 DEF Send, Replies, IInv, Arrived
  <1>2. ASSUME NEW s \in Session, Claim(s), Replay(s) PROVE Replies'
    <2>1. sess[s].pc # "idle" /\ sess[s].key \in Key
      BY <1>2 DEF Claim, IInv, Arrived
    <2>2. keyRow[sess[s].key].answer \in Nat
      BY <2>1 DEF IInv, Types, KeyRow
    <2> QED BY <1>1, <1>2, <2>1, <2>2 DEF Replay
  <1>3. ASSUME NEW s \in Session, Answer(s) PROVE Replies'
    <2>1. sess[s].pc # "idle" /\ sess[s].answer \in Nat
      BY <1>3 DEF Answer, IInv, Types, SessionState
    <2> QED BY <1>1, <1>3, <2>1 DEF Answer
  <1>4. ASSUME NEW s \in Session, Progress(s) \/ Fail(s), ~Answer(s), ~(Claim(s) /\ Replay(s))
        PROVE  UNCHANGED replies
    BY <1>4
    DEF Progress, Fail, GiveUp, BeginTx, AcquireRead, Acquire, Claim, Conflict, Read, Write,
        Classify, Save, Commit
  <1>5. ASSUME NEW s \in Session, NEW k \in Key, NEW q \in Request, Arrive(s, k, q)
        PROVE  UNCHANGED replies
    BY <1>5 DEF Arrive
  <1>6. CASE UNCHANGED replies
    BY <1>6 DEF Replies
  <1> QED BY <1>2, <1>3, <1>4, <1>5, <1>6 DEF Next, vars

\* Every connection taken is held by a request and given back once, on every
\* path out of a command: the pool is never overdrawn nor overfilled, and rows,
\* answers and requests keep their types.
THEOREM PoolIsCounted == Spec => []TypeOK
  <1>1. IInv /\ PoolCounted /\ Replies => TypeOK
    <2> SUFFICES ASSUME IInv, PoolCounted, Replies PROVE TypeOK
      OBVIOUS
    <2>1. Cardinality(WithFirst) \in Nat /\ Cardinality(WithSecond) \in Nat
      BY FS_CardinalityType DEF PoolCounted
    <2>2. busy \in 0 .. MaxConns
      BY <2>1, PoolAssumption DEF PoolCounted, PoolAssumption
    <2> QED BY <2>2 DEF IInv, Types, Replies, TypeOK
  <1> QED BY <1>1, InitIInv, NextKeepsIInv, PoolInit, PoolNext, RepliesNext, PTL DEF Spec

\* A request that waits for its key waits for one that holds a connection and
\* needs another, or can go on; and when all those are refused a connection,
\* every connection is some request's first.
LEMMA StallTakesThemAll ==
    ASSUME IInv, PoolCounted
    PROVE  StallTakesThePool
  <1> SUFFICES ASSUME NEW s \in Session, sess[s].pc # "idle", \A o \in Session : ~Ready(o)
               PROVE  busy = MaxConns /\ Cardinality(Stuck) = MaxConns
    BY DEF StallTakesThePool, SomebodyProceeds
  <1>0. MaxConns \in Nat /\ \A o \in Session : sess[o] \in SessionState
    BY PoolAssumption DEF PoolAssumption, IInv, Types
  <1>1. \A o \in Session : sess[o].pc \in {"idle", "begin", "read", "classify", "claim"}
    BY <1>0 DEF Ready, SessionState
  <1>2. PICK o \in Session : sess[o].pc \in {"begin", "read", "classify"}
    <2>1. CASE sess[s].pc = "claim"
      <3>1. PICK o \in Session \ {s} : Claims(o, sess[s].key)
        BY <2>1 DEF Ready
      <3> QED BY <1>1, <3>1 DEF Claims
    <2> QED BY <1>1, <2>1
  <1>3. ~(busy < MaxConns)
    BY <1>2 DEF Ready
  <1>4. WithSecond = {}
    BY <1>1 DEF WithSecond, HasSecond
  <1>5. WithFirst = Stuck
    BY <1>1 DEF WithFirst, HasFirst, Stuck
  <1>6. Cardinality(WithSecond) = 0 /\ Cardinality(WithFirst) \in Nat
    BY <1>4, FS_EmptySet, FS_CardinalityType DEF PoolCounted
  <1>7. busy = Cardinality(Stuck) /\ busy <= MaxConns
    BY <1>5, <1>6 DEF PoolCounted
  <1> QED BY <1>0, <1>3, <1>6, <1>5, <1>7

\* For any number of requests, keys, reads and connections: where nobody in
\* flight can take its next statement, the whole pool is in the hands of as many
\* requests as it has connections, each of which holds one and waits. With one
\* connection more than requests that is impossible.
THEOREM StallsTakeThePool == Spec => []StallTakesThePool
  <1>1. IInv /\ PoolCounted => StallTakesThePool
    BY StallTakesThemAll
  <1> QED BY <1>1, InitIInv, NextKeepsIInv, PoolInit, PoolNext, PTL DEF Spec
=============================================================================
