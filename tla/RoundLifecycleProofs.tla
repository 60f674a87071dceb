------------------------ MODULE RoundLifecycleProofs ------------------------
(***************************************************************************)
(* Proofs about RoundLifecycle for any number of operators, rows and       *)
(* rounds.  What the locks, the versions and the unique index achieve they *)
(* achieve whatever operators do; what the progress gate achieves it does  *)
(* until somebody first renumbers a closed round (Gated, LiveNext), and    *)
(* after that a hole in the sequence is always a number renumbered away    *)
(* from (Covered, SequenceUnbroken).                                       *)
(*                                                                         *)
(* The argument.  Past its write a request holds its row, alone, and the   *)
(* row stays what the request has read.  It has also passed the progress   *)
(* gate, and what the gate saw stays true until its commit: only the       *)
(* commit of another close could falsify it, that close went for the same  *)
(* successor, and the unique index lets only one of the two enter.         *)
(***************************************************************************)
EXTENDS RoundLifecycle, TLAPS

Updates == {"update", "open", "close"}

\* A request past its write, and one that has entered the index.
Holds(q)   == q.cmd # "season" /\ q.pc \in {"index", "end season", "commit"}
Entered(q) == q.cmd \notin {"season", "delete"} /\ q.pc \in {"end season", "commit"}

\* A request whose write the progress gate judged.
Progressing(q) == q.cmd \in Updates /\ IsProgress(q.seen, q.new)

Shape(q) ==
    /\ q.pc = "idle" => q = Idle
    /\ q.cmd \in {"none", "season"} => q.row = NoRow
    /\ q.cmd \notin {"none", "season"} => q.row \in RoundRow
    /\ q.cmd = "none" => q.pc = "idle"
    /\ q.pc = "flip" => q.cmd = "open"
    /\ q.pc = "end season" => q.cmd = "close"
    /\ q.cmd = "insert" => q.pc \in {"index", "commit"} /\ q.seen = NoRound /\ q.new.status = "created"
    /\ q.cmd = "delete" => q.pc \in {"write", "commit"}
    /\ q.cmd = "delete" /\ q.pc = "commit" => q.seen.status # "closed"
    /\ q.cmd = "season" => q.pc \in {"write", "commit"} /\ SeasonRank(q.to) >= SeasonRank(q.from)
    /\ q.cmd \in Updates \cup {"insert"} => q.new \in [status: RoundStatus, number: Number]
    /\ q.cmd \in Updates =>
         /\ q.seen.status # "absent"
         /\ RoundRank(q.new.status) >= RoundRank(q.seen.status)

\* A request past the gate, before and after the unique index.
Sequenced(q) ==
    \/ IsSuccessor(q.new.number)
    \/ /\ q.pc = "index"
       /\ \E id \in RoundRow \ {q.row} : round[id].status = "closed" /\ round[id].number = q.new.number

Shapes == \A s \in Session : Shape(sess[s])

RowsShaped == \A id \in RoundRow :
    IF round[id].status = "absent" THEN round[id] = NoRound ELSE round[id].number \in Number

OneHolder == \A s \in Session, o \in Session :
    s # o /\ Holds(sess[s]) /\ Holds(sess[o]) => sess[s].row # sess[o].row

Frozen == \A s \in Session : Holds(sess[s]) => round[sess[s].row] = sess[s].seen

Gated == vacated = {} =>
    \A s \in Session : Holds(sess[s]) /\ Progressing(sess[s]) => Sequenced(sess[s])

Covered == \A s \in Session :
    Holds(sess[s]) /\ Progressing(sess[s]) => NothingSkipped(sess[s].new.number)

LiveNext == vacated = {} =>
    \A id \in RoundRow : round[id].status = "open" => IsSuccessor(round[id].number)

LiveCovered == \A id \in RoundRow : round[id].status = "open" => NothingSkipped(round[id].number)

OneNumber == \A id \in RoundRow, other \in RoundRow :
    id # other /\ round[id].number = round[other].number => round[id].number = 0

AloneInIndex == \A s \in Session : Entered(sess[s]) =>
    /\ \A id \in RoundRow \ {sess[s].row} : round[id].number # sess[s].new.number
    /\ \A o \in Session \ {s} : Entered(sess[o]) => sess[o].new.number # sess[s].new.number

SeasonHeld == \A s \in Session : sess[s].flip # "none" =>
    /\ SeasonRank(sess[s].flip) >= SeasonRank(season)
    /\ SeasonFree(s)

IInv == /\ TypeOK
        /\ Shapes
        /\ RowsShaped
        /\ OneHolder
        /\ Frozen
        /\ Gated
        /\ Covered
        /\ OneNumber
        /\ AloneInIndex
        /\ SeasonHeld
        /\ LiveNext
        /\ LiveCovered
        /\ SequenceUnbroken

-----------------------------------------------------------------------------
(* Lemmas *)

LEMMA IdleIsFine == Idle \in SessionState /\ Shape(Idle) /\ ~Holds(Idle) /\ ~Entered(Idle) /\ Idle.flip = "none"
  BY DEF Idle, SessionState, Shape, Holds, Entered, NoRound, Row, RoundStatus, SeasonStatus, Updates

LEMMA InClosed ==
    \A n : n \in ClosedNumbers <=> \E id \in RoundRow : round[id].status = "closed" /\ round[id].number = n
  BY DEF ClosedNumbers

LEMMA ClosedAreNumbers ==
  ASSUME RowsShaped, TypeOK
  PROVE  ClosedNumbers \subseteq Number
  BY InClosed DEF RowsShaped, TypeOK

\* Directly above a sequence without a hole of its own, nothing is skipped.
LEMMA SuccessorSkipsNothing ==
  ASSUME SequenceUnbroken, NEW n \in Number, IsSuccessor(n)
  PROVE  NothingSkipped(n)
  <1> SUFFICES ASSUME NEW k \in 1..(n - 1), k # n - 1 PROVE k \in ClosedNumbers \cup vacated
    BY RowAssumption DEF NothingSkipped, IsSuccessor, Number
  <1>1. n - 1 \in ClosedNumbers /\ k \in 1..((n - 1) - 1)
    BY RowAssumption DEF IsSuccessor, Number
  <1> QED BY <1>1 DEF SequenceUnbroken, NothingSkipped

\* What has been passed stays passed.
LEMMA PassedStaysPassed ==
  ASSUME ClosedNumbers \cup vacated \subseteq ClosedNumbers' \cup vacated',
         NEW n, NothingSkipped(n)
  PROVE  \A k \in 1..(n - 1) : k \in ClosedNumbers' \cup vacated'
  BY DEF NothingSkipped

LEMMA InitSatisfiesIInv == Init => IInv
  <1> SUFFICES ASSUME Init PROVE IInv
    OBVIOUS
  <1>1. \A s \in Session : sess[s] = Idle
    BY DEF Init
  <1>2. \A id \in RoundRow : round[id] = NoRound /\ round[id].status = "absent" /\ round[id].number = 0
    BY DEF Init, NoRound
  <1>3. TypeOK
    BY IdleIsFine DEF Init, TypeOK, SeasonStatus, Play, NoRound, Row
  <1>4. Shapes /\ OneHolder /\ Frozen /\ Gated /\ Covered /\ AloneInIndex /\ SeasonHeld
    BY <1>1, IdleIsFine DEF Shapes, OneHolder, Frozen, Gated, Covered, AloneInIndex, SeasonHeld
  <1>5. ClosedNumbers = {}
    BY <1>2 DEF ClosedNumbers
  <1>6. RowsShaped /\ OneNumber /\ LiveNext /\ LiveCovered /\ SequenceUnbroken
    BY <1>2, <1>5 DEF RowsShaped, OneNumber, LiveNext, LiveCovered, SequenceUnbroken
  <1> QED BY <1>3, <1>4, <1>6 DEF IInv

-----------------------------------------------------------------------------
(* A step of one request that commits nothing *)

\* What its record must satisfy afterwards for the invariant to survive.
MayBecome(s, q) ==
    /\ q \in SessionState
    /\ Shape(q)
    /\ Holds(q) =>
         /\ round[q.row] = q.seen
         /\ \A o \in Session \ {s} : Holds(sess[o]) => sess[o].row # q.row
         /\ vacated = {} /\ Progressing(q) => Sequenced(q)
         /\ Progressing(q) => NothingSkipped(q.new.number)
    /\ Entered(q) =>
         /\ \A id \in RoundRow \ {q.row} : round[id].number # q.new.number
         /\ \A o \in Session \ {s} : Entered(sess[o]) => sess[o].new.number # q.new.number
    /\ q.flip # "none" => SeasonRank(q.flip) >= SeasonRank(season) /\ SeasonFree(s)

LEMMA SessionStep ==
  ASSUME IInv, NEW s \in Session, NEW q, MayBecome(s, q),
         sess' = [sess EXCEPT ![s] = q], Unwritten
  PROVE  IInv'
  <1> USE DEF MayBecome
  <1>1. sess \in [Session -> SessionState]
    BY DEF IInv, TypeOK
  <1>2. sess'[s] = q /\ \A o \in Session \ {s} : sess'[o] = sess[o]
    BY <1>1
  <1>3. UNCHANGED <<season, round, play, vacated>>
    BY DEF Unwritten
  <1>4. UNCHANGED ClosedNumbers
    BY <1>3 DEF ClosedNumbers
  <1>5. TypeOK'
    BY <1>1, <1>3 DEF IInv, TypeOK
  <1>6. RowsShaped' /\ OneNumber' /\ LiveNext' /\ LiveCovered' /\ SequenceUnbroken'
    BY <1>3, <1>4 DEF IInv, RowsShaped, OneNumber, LiveNext, LiveCovered, SequenceUnbroken, IsSuccessor,
                      NothingSkipped
  <1>7. Shapes'
    BY <1>2 DEF IInv, Shapes
  <1>8. OneHolder'
    BY <1>2 DEF IInv, OneHolder
  <1>9. Frozen'
    BY <1>2, <1>3 DEF IInv, Frozen
  <1>10. Gated'
    BY <1>2, <1>3, <1>4 DEF IInv, Gated, Sequenced, IsSuccessor
  <1>11. AloneInIndex'
    BY <1>2, <1>3 DEF IInv, AloneInIndex
  <1>12. SeasonHeld'
    BY <1>2, <1>3 DEF IInv, SeasonHeld, SeasonFree
  <1>13. Covered'
    BY <1>2, <1>3, <1>4 DEF IInv, Covered, NothingSkipped
  <1> QED BY <1>5, <1>6, <1>7, <1>8, <1>9, <1>10, <1>11, <1>12, <1>13 DEF IInv

LEMMA EndStep ==
  ASSUME IInv, NEW s \in Session, End(s)
  PROVE  IInv'
  <1>1. MayBecome(s, Idle)
    BY IdleIsFine DEF MayBecome
  <1> QED BY <1>1, SessionStep DEF End

LEMMA Fields ==
  ASSUME IInv, NEW s \in Session
  PROVE  /\ sess[s] \in SessionState
         /\ Shape(sess[s])
         /\ round \in [RoundRow -> Row]
         /\ sess \in [Session -> SessionState]
         /\ season \in SeasonStatus
  BY DEF IInv, TypeOK, Shapes

LEMMA BeginInsertStep ==
  ASSUME IInv, NEW s \in Session, NEW id \in RoundRow, NEW n \in Number, BeginInsert(s, id, n)
  PROVE  IInv'
  <1>1. PICK q : q = [Idle EXCEPT !.cmd = "insert", !.pc = "index", !.row = id,
                                  !.new = [status |-> "created", number |-> n]]
    OBVIOUS
  <1>2. /\ q.cmd = "insert" /\ q.pc = "index" /\ q.row = id /\ q.seen = NoRound /\ q.flip = "none"
        /\ q.new = [status |-> "created", number |-> n]
    BY <1>1 DEF Idle
  <1>3. q \in SessionState
    BY <1>1 DEF Idle, SessionState, NoRound, Row, RoundStatus, SeasonStatus, Number
  <1>4. Shape(q)
    BY <1>2 DEF Shape, Updates, RoundStatus
  <1>5. round[id] = NoRound
    BY DEF BeginInsert, IInv, RowsShaped
  <1>6. \A o \in Session : sess[o].row # id
    BY DEF BeginInsert
  <1>7. ~Entered(q) /\ ~Progressing(q)
    BY <1>2 DEF Entered, Progressing, Updates
  <1>8. MayBecome(s, q)
    BY <1>2, <1>3, <1>4, <1>5, <1>6, <1>7 DEF MayBecome
  <1>9. sess' = [sess EXCEPT ![s] = q] /\ Unwritten
    BY <1>1 DEF BeginInsert
  <1> QED BY <1>8, <1>9, SessionStep

LEMMA BeginUpdateStep ==
  ASSUME IInv, NEW s \in Session, NEW id \in RoundRow,
         NEW new \in [status: RoundStatus, number: Number], BeginUpdate(s, id, new)
  PROVE  IInv'
  <1>1. PICK cmd : cmd = Dispatch(round[id].status, new.status)
    OBVIOUS
  <1>2. cmd \in Updates
    BY <1>1 DEF Dispatch, Updates
  <1>3. PICK q : q = [Idle EXCEPT !.cmd = cmd, !.row = id, !.seen = round[id],
                       !.new = new, !.pc = IF cmd = "open" THEN "flip" ELSE "write"]
    OBVIOUS
  <1>4. /\ q.cmd = cmd /\ q.pc \in {"flip", "write"} /\ q.row = id /\ q.seen = round[id]
        /\ q.flip = "none" /\ q.new = new /\ (q.pc = "flip" => cmd = "open")
    BY <1>3 DEF Idle
  <1>5. round[id] \in Row /\ new \in Row
    BY Fields DEF Row
  <1>6. q \in SessionState
    BY <1>2, <1>3, <1>5 DEF Idle, SessionState, SeasonStatus, Updates
  <1>7. Shape(q)
    BY <1>2, <1>4 DEF Shape, BeginUpdate, Updates
  <1>8. ~Holds(q) /\ ~Entered(q)
    BY <1>4 DEF Holds, Entered
  <1>9. MayBecome(s, q)
    BY <1>4, <1>6, <1>7, <1>8 DEF MayBecome
  <1>10. sess' = [sess EXCEPT ![s] = q] /\ Unwritten
    BY <1>1, <1>3 DEF BeginUpdate
  <1> QED BY <1>9, <1>10, SessionStep

LEMMA BeginDeleteStep ==
  ASSUME IInv, NEW s \in Session, NEW id \in RoundRow, BeginDelete(s, id)
  PROVE  IInv'
  <1>1. PICK q : q = [Idle EXCEPT !.cmd = "delete", !.pc = "write", !.row = id]
    OBVIOUS
  <1>2. q.cmd = "delete" /\ q.pc = "write" /\ q.row = id /\ q.flip = "none"
    BY <1>1 DEF Idle
  <1>3. q \in SessionState
    BY <1>1, IdleIsFine DEF Idle, SessionState
  <1>4. Shape(q) /\ ~Holds(q) /\ ~Entered(q)
    BY <1>2 DEF Shape, Holds, Entered, Updates
  <1>5. MayBecome(s, q)
    BY <1>2, <1>3, <1>4 DEF MayBecome
  <1>6. sess' = [sess EXCEPT ![s] = q] /\ Unwritten
    BY <1>1 DEF BeginDelete
  <1> QED BY <1>5, <1>6, SessionStep

LEMMA BeginSeasonStep ==
  ASSUME IInv, NEW s \in Session, NEW to \in SeasonStatus, BeginSeason(s, to)
  PROVE  IInv'
  <1>1. PICK q : q = [Idle EXCEPT !.cmd = "season", !.pc = "write", !.from = season, !.to = to]
    OBVIOUS
  <1>2. /\ q.cmd = "season" /\ q.pc = "write" /\ q.row = NoRow /\ q.flip = "none"
        /\ q.from = season /\ q.to = to
    BY <1>1 DEF Idle
  <1>3. q \in SessionState
    BY <1>1, IdleIsFine, Fields DEF Idle, SessionState
  <1>4. Shape(q) /\ ~Holds(q) /\ ~Entered(q)
    BY <1>2 DEF Shape, Holds, Entered, Updates, BeginSeason
  <1>5. MayBecome(s, q)
    BY <1>2, <1>3, <1>4 DEF MayBecome
  <1>6. sess' = [sess EXCEPT ![s] = q] /\ Unwritten
    BY <1>1 DEF BeginSeason
  <1> QED BY <1>5, <1>6, SessionStep

\* The two conditional flips: a transaction that flips writes the season's row
\* forward, one that finds another status passes by.
LEMMA FlipStep ==
  ASSUME IInv, NEW s \in Session, NEW from \in SeasonStatus, NEW to \in SeasonStatus, NEW pc,
         SeasonRank(to) >= SeasonRank(from), FlipSeason(s, from, to, pc),
         \/ sess[s].cmd = "open" /\ sess[s].pc = "flip" /\ pc = "write"
         \/ sess[s].cmd = "close" /\ sess[s].pc = "end season" /\ pc = "commit"
  PROVE  IInv'
  <1>1. PICK flip : flip = IF season = from THEN to ELSE sess[s].flip
    OBVIOUS
  <1>2. PICK q : q = [sess[s] EXCEPT !.flip = flip, !.pc = pc]
    OBVIOUS
  <1>3. sess[s] \in SessionState /\ Shape(sess[s])
    BY Fields
  <1>4. /\ q.pc = pc /\ q.flip = flip /\ q.cmd = sess[s].cmd /\ q.row = sess[s].row
        /\ q.seen = sess[s].seen /\ q.new = sess[s].new /\ q.from = sess[s].from /\ q.to = sess[s].to
    BY <1>2, <1>3 DEF SessionState
  <1>5. q \in SessionState
    BY <1>1, <1>2, <1>3 DEF SessionState
  <1>6. Shape(q)
    BY <1>3, <1>4 DEF Shape, Updates
  <1>7. Holds(q) => Holds(sess[s])
    BY <1>4 DEF Holds
  <1>8. Entered(q) => Entered(sess[s])
    BY <1>4 DEF Entered
  <1>9. Holds(q) /\ Progressing(q) => /\ vacated = {} => Sequenced(q)
                                     /\ NothingSkipped(q.new.number)
    <2> SUFFICES ASSUME Holds(q), Progressing(q)
                 PROVE  (vacated = {} => Sequenced(q)) /\ NothingSkipped(q.new.number)
      OBVIOUS
    <2>1. Progressing(sess[s]) /\ sess[s].pc = "end season"
      BY <1>4 DEF Progressing, Holds
    <2>2. NothingSkipped(q.new.number)
      BY <2>1, <1>4, <1>7 DEF IInv, Covered
    <2> QED BY <2>1, <2>2, <1>4, <1>7 DEF IInv, Gated, Sequenced
  <1>10. q.flip # "none" => SeasonRank(q.flip) >= SeasonRank(season) /\ SeasonFree(s)
    BY <1>1, <1>4 DEF FlipSeason, IInv, SeasonHeld
  <1>11. Holds(q) => /\ round[q.row] = q.seen
                     /\ \A o \in Session \ {s} : Holds(sess[o]) => sess[o].row # q.row
    BY <1>4, <1>7 DEF IInv, Frozen, OneHolder
  <1>12. Entered(q) =>
           /\ \A id \in RoundRow \ {q.row} : round[id].number # q.new.number
           /\ \A o \in Session \ {s} : Entered(sess[o]) => sess[o].new.number # q.new.number
    BY <1>4, <1>8 DEF IInv, AloneInIndex
  <1>13. MayBecome(s, q)
    BY <1>5, <1>6, <1>9, <1>10, <1>11, <1>12 DEF MayBecome
  <1>14. sess' = [sess EXCEPT ![s] = q] /\ Unwritten
    BY <1>1, <1>2, <1>3, Fields DEF FlipSeason, Goto, SessionState
  <1> QED BY <1>13, <1>14, SessionStep

LEMMA RanksOfStatus ==
    /\ SeasonRank("created") = 0 /\ SeasonRank("open") = 1
    /\ SeasonRank("in_progress") = 2 /\ SeasonRank("closed") = 3
    /\ RoundRank("created") = 0 /\ RoundRank("open") = 1 /\ RoundRank("closed") = 2
  BY DEF SeasonRank, RoundRank

LEMMA OpenSeasonFlipStep ==
  ASSUME IInv, NEW s \in Session, OpenSeasonFlip(s)
  PROVE  IInv'
  <1>1. sess[s].cmd = "open"
    BY Fields DEF OpenSeasonFlip, Shape
  <1>2. "open" \in SeasonStatus /\ "in_progress" \in SeasonStatus
    BY DEF SeasonStatus
  <1>3. SeasonRank("in_progress") >= SeasonRank("open")
    BY RanksOfStatus
  <1> QED BY <1>1, <1>2, <1>3, FlipStep DEF OpenSeasonFlip

LEMMA CloseSeasonFlipStep ==
  ASSUME IInv, NEW s \in Session, CloseSeasonFlip(s)
  PROVE  IInv'
  <1>1. sess[s].cmd = "close"
    BY Fields DEF CloseSeasonFlip, Shape
  <1>2. "closed" \in SeasonStatus /\ "in_progress" \in SeasonStatus
    BY DEF SeasonStatus
  <1>3. SeasonRank("closed") >= SeasonRank("in_progress")
    BY RanksOfStatus
  <1> QED BY <1>1, <1>2, <1>3, FlipStep DEF CloseSeasonFlip

-----------------------------------------------------------------------------
(* The write, the index, the deletion, the season's PATCH *)

LEMMA RowFreeMeans ==
  ASSUME IInv, NEW s \in Session, NEW id \in RoundRow, RowFree(s, id)
  PROVE  \A o \in Session \ {s} : Holds(sess[o]) => sess[o].row # id
  BY DEF RowFree, HoldsRow, Holds

LEMMA WriteRoundStep ==
  ASSUME IInv, NEW s \in Session, WriteRound(s)
  PROVE  IInv'
  <1>1. CASE End(s)
    BY <1>1, EndStep
  <1>2. CASE Goto(s, "index") /\ Current(s) /\ ProgressGate(s)
    <2>1. sess[s] \in SessionState /\ Shape(sess[s])
      BY Fields
    <2>2. PICK q : q = [sess[s] EXCEPT !.pc = "index"]
      OBVIOUS
    <2>3. /\ q.pc = "index" /\ q.flip = sess[s].flip /\ q.cmd = sess[s].cmd /\ q.row = sess[s].row
          /\ q.seen = sess[s].seen /\ q.new = sess[s].new /\ q.from = sess[s].from
          /\ q.to = sess[s].to /\ q.cmd \in Updates
      BY <2>1, <2>2 DEF SessionState, WriteRound, Updates
    <2>4. q \in SessionState
      BY <2>1, <2>2 DEF SessionState
    <2>5. Shape(q)
      BY <2>1, <2>3 DEF Shape, Updates
    <2>6. q.row \in RoundRow
      BY <2>5, <2>3 DEF Shape, Updates
    <2>7. round[q.row] = q.seen
      BY <1>2, <2>3 DEF Current
    <2>8. \A o \in Session \ {s} : Holds(sess[o]) => sess[o].row # q.row
      BY <2>3, <2>6, RowFreeMeans DEF WriteRound
    <2>9. Progressing(q) => Sequenced(q) /\ NothingSkipped(q.new.number)
      <3> SUFFICES ASSUME Progressing(q) PROVE Sequenced(q) /\ NothingSkipped(q.new.number)
        OBVIOUS
      <3>1. IsSuccessor(q.new.number)
        BY <1>2, <2>3 DEF ProgressGate, Progressing
      <3>2. q.new.number \in Number
        BY <2>3, <2>5 DEF Shape
      <3> QED BY <3>1, <3>2, SuccessorSkipsNothing DEF IInv, Sequenced
    <2>10. ~Entered(q)
      BY <2>3 DEF Entered
    <2>11. q.flip # "none" => SeasonRank(q.flip) >= SeasonRank(season) /\ SeasonFree(s)
      BY <2>3 DEF IInv, SeasonHeld
    <2>12. MayBecome(s, q)
      BY <2>4, <2>5, <2>7, <2>8, <2>9, <2>10, <2>11 DEF MayBecome
    <2>13. sess' = [sess EXCEPT ![s] = q] /\ Unwritten
      BY <1>2, <2>1, <2>2, Fields DEF Goto, SessionState
    <2> QED BY <2>12, <2>13, SessionStep
  <1> QED BY <1>1, <1>2 DEF WriteRound

LEMMA EnterIndexStep ==
  ASSUME IInv, NEW s \in Session, EnterIndex(s)
  PROVE  IInv'
  <1>1. CASE End(s)
    BY <1>1, EndStep
  <1>2. ASSUME NEW pc \in {"end season", "commit"}, Goto(s, pc),
               pc = "end season" => sess[s].cmd = "close",
               \A id \in RoundRow \ {sess[s].row} : round[id].number # sess[s].new.number
        PROVE  IInv'
    <2>1. sess[s] \in SessionState /\ Shape(sess[s]) /\ sess[s].pc = "index"
      BY Fields DEF EnterIndex
    <2>2. PICK q : q = [sess[s] EXCEPT !.pc = pc]
      OBVIOUS
    <2>3. /\ q.pc = pc /\ q.flip = sess[s].flip /\ q.cmd = sess[s].cmd /\ q.row = sess[s].row
          /\ q.seen = sess[s].seen /\ q.new = sess[s].new /\ q.from = sess[s].from /\ q.to = sess[s].to
      BY <2>1, <2>2 DEF SessionState
    <2>4. q \in SessionState
      BY <2>1, <2>2 DEF SessionState
    <2>5. sess[s].cmd \in Updates \cup {"insert"}
      BY <2>1 DEF Shape, SessionState, Updates
    <2>6. Shape(q)
      BY <1>2, <2>1, <2>3, <2>5 DEF Shape, Updates
    <2>7. Holds(sess[s])
      BY <2>1, <2>5 DEF Holds, Updates
    <2>8. round[q.row] = q.seen /\ \A o \in Session \ {s} : Holds(sess[o]) => sess[o].row # q.row
      BY <2>3, <2>7 DEF IInv, Frozen, OneHolder
    <2>9. Progressing(q) => (vacated = {} => Sequenced(q)) /\ NothingSkipped(q.new.number)
      <3> SUFFICES ASSUME Progressing(q)
                   PROVE  (vacated = {} => Sequenced(q)) /\ NothingSkipped(q.new.number)
        OBVIOUS
      <3>1. Progressing(sess[s])
        BY <2>3 DEF Progressing
      <3>2. vacated = {} => Sequenced(sess[s])
        BY <2>7, <3>1 DEF IInv, Gated
      <3>3. NothingSkipped(q.new.number)
        BY <2>3, <2>7, <3>1 DEF IInv, Covered
      <3> QED BY <1>2, <2>3, <3>2, <3>3 DEF Sequenced
    <2>10. \A o \in Session \ {s} : Entered(sess[o]) => sess[o].new.number # q.new.number
      BY <2>3 DEF EnterIndex, Touches, Entered
    <2>11. q.flip # "none" => SeasonRank(q.flip) >= SeasonRank(season) /\ SeasonFree(s)
      BY <2>3 DEF IInv, SeasonHeld
    <2>12. MayBecome(s, q)
      BY <1>2, <2>3, <2>4, <2>6, <2>8, <2>9, <2>10, <2>11 DEF MayBecome
    <2>13. sess' = [sess EXCEPT ![s] = q] /\ Unwritten
      BY <1>2, <2>1, <2>2, Fields DEF Goto, SessionState
    <2> QED BY <2>12, <2>13, SessionStep
  <1>3. CASE \E id \in RoundRow \ {sess[s].row} : round[id].number = sess[s].new.number
    BY <1>1, <1>3 DEF EnterIndex
  <1>4. CASE ~\E id \in RoundRow \ {sess[s].row} : round[id].number = sess[s].new.number
    <2>1. PICK pc : pc = IF sess[s].cmd = "close" /\ sess[s].new.number = LastRound
                         THEN "end season" ELSE "commit"
      OBVIOUS
    <2>2. Goto(s, pc) /\ pc \in {"end season", "commit"} /\ (pc = "end season" => sess[s].cmd = "close")
      BY <1>4, <2>1 DEF EnterIndex
    <2> QED BY <1>2, <1>4, <2>2
  <1> QED BY <1>3, <1>4

LEMMA DeleteRoundStep ==
  ASSUME IInv, NEW s \in Session, DeleteRound(s)
  PROVE  IInv'
  <1>1. CASE End(s)
    BY <1>1, EndStep
  <1>2. PICK id : id = sess[s].row
    OBVIOUS
  <1>3. CASE /\ round[id].status # "closed"
             /\ sess' = [sess EXCEPT ![s].pc = "commit", ![s].seen = round[id]] /\ Unwritten
    <2>1. sess[s] \in SessionState /\ Shape(sess[s]) /\ id \in RoundRow /\ round[id] \in Row
      BY <1>2, Fields DEF DeleteRound, Shape
    <2>2. PICK q : q = [sess[s] EXCEPT !.pc = "commit", !.seen = round[id]]
      OBVIOUS
    <2>3. /\ q.pc = "commit" /\ q.flip = sess[s].flip /\ q.cmd = "delete" /\ q.row = id
          /\ q.seen = round[id] /\ q.new = sess[s].new /\ q.from = sess[s].from /\ q.to = sess[s].to
      BY <1>2, <2>1, <2>2 DEF SessionState, DeleteRound
    <2>4. q \in SessionState
      BY <2>1, <2>2 DEF SessionState
    <2>5. Shape(q)
      BY <1>3, <2>1, <2>3 DEF Shape, Updates
    <2>6. \A o \in Session \ {s} : Holds(sess[o]) => sess[o].row # q.row
      BY <1>2, <2>1, <2>3, RowFreeMeans DEF DeleteRound
    <2>7. ~Entered(q) /\ ~Progressing(q)
      BY <2>3 DEF Entered, Progressing, Updates
    <2>8. q.flip # "none" => SeasonRank(q.flip) >= SeasonRank(season) /\ SeasonFree(s)
      BY <2>3 DEF IInv, SeasonHeld
    <2>9. MayBecome(s, q)
      BY <2>3, <2>4, <2>5, <2>6, <2>7, <2>8 DEF MayBecome
    <2>10. sess' = [sess EXCEPT ![s] = q] /\ Unwritten
      BY <1>3, <2>1, <2>2, Fields DEF SessionState
    <2> QED BY <2>9, <2>10, SessionStep
  <1> QED BY <1>1, <1>2, <1>3 DEF DeleteRound, DeleteGate

LEMMA WriteSeasonStep ==
  ASSUME IInv, NEW s \in Session, WriteSeason(s)
  PROVE  IInv'
  <1>1. CASE End(s)
    BY <1>1, EndStep
  <1>2. CASE /\ season = sess[s].from
             /\ sess' = [sess EXCEPT ![s].pc = "commit", ![s].flip = sess[s].to] /\ Unwritten
    <2>1. sess[s] \in SessionState /\ Shape(sess[s]) /\ sess[s].cmd = "season"
      BY Fields DEF WriteSeason
    <2>2. PICK q : q = [sess[s] EXCEPT !.pc = "commit", !.flip = sess[s].to]
      OBVIOUS
    <2>3. /\ q.pc = "commit" /\ q.flip = sess[s].to /\ q.cmd = "season" /\ q.row = sess[s].row
          /\ q.seen = sess[s].seen /\ q.new = sess[s].new /\ q.from = sess[s].from /\ q.to = sess[s].to
      BY <2>1, <2>2 DEF SessionState
    <2>4. q \in SessionState
      BY <2>1, <2>2 DEF SessionState
    <2>5. Shape(q)
      BY <2>1, <2>3 DEF Shape, Updates
    <2>6. ~Holds(q) /\ ~Entered(q)
      BY <2>3 DEF Holds, Entered
    <2>7. SeasonRank(q.flip) >= SeasonRank(season) /\ SeasonFree(s)
      BY <1>2, <2>1, <2>3 DEF Shape, WriteSeason
    <2>8. MayBecome(s, q)
      BY <2>4, <2>5, <2>6, <2>7 DEF MayBecome
    <2>9. sess' = [sess EXCEPT ![s] = q] /\ Unwritten
      BY <1>2, <2>1, <2>2, Fields DEF SessionState
    <2> QED BY <2>8, <2>9, SessionStep
  <1> QED BY <1>1, <1>2 DEF WriteSeason

-----------------------------------------------------------------------------
(* The commit *)

\* Whatever a commit does to the tables, its request is forgotten, and all that
\* is left to say is about the tables and about the others.
LEMMA CommitForgets ==
  ASSUME IInv, NEW s \in Session, Commit(s)
  PROVE  /\ sess'[s] = Idle /\ \A o \in Session \ {s} : sess'[o] = sess[o]
         /\ sess' \in [Session -> SessionState]
         /\ Shapes' /\ OneHolder' /\ SeasonHeld'
         /\ season' \in SeasonStatus
         /\ SeasonRank(season') >= SeasonRank(season)
  <1>1. sess'[s] = Idle /\ (\A o \in Session \ {s} : sess'[o] = sess[o])
    BY Fields DEF Commit
  <1>2. sess' \in [Session -> SessionState]
    BY Fields, IdleIsFine DEF Commit
  <1>3. Shapes'
    BY <1>1, IdleIsFine DEF IInv, Shapes
  <1>4. OneHolder'
    BY <1>1, IdleIsFine DEF IInv, OneHolder
  <1>5. season' = SeasonSeen(s)
    BY DEF Commit
  <1>6. season' \in SeasonStatus
    BY <1>5, Fields DEF SeasonSeen, SessionState
  <1>7. SeasonRank(season) \in Nat
    BY Fields DEF SeasonStatus, SeasonRank
  <1>8. SeasonRank(season') >= SeasonRank(season)
    BY <1>5, <1>7 DEF SeasonSeen, IInv, SeasonHeld
  <1>9. SeasonHeld'
    <2> SUFFICES ASSUME NEW o \in Session, sess'[o].flip # "none"
                 PROVE  SeasonRank(sess'[o].flip) >= SeasonRank(season') /\ SeasonFree(o)'
      BY DEF SeasonHeld
    <2>1. o # s /\ sess'[o] = sess[o]
      BY <1>1, IdleIsFine
    <2>2. SeasonRank(sess[o].flip) >= SeasonRank(season) /\ SeasonFree(o)
      BY <2>1 DEF IInv, SeasonHeld
    <2>3. sess[s].flip = "none"
      BY <2>1, <2>2 DEF SeasonFree
    <2>4. season' = season
      BY <1>5, <2>3 DEF SeasonSeen
    <2>5. SeasonFree(o)'
      BY <1>1, <2>1, <2>2, IdleIsFine DEF SeasonFree
    <2> QED BY <2>1, <2>2, <2>4, <2>5
  <1> QED BY <1>1, <1>2, <1>3, <1>4, <1>6, <1>8, <1>9

\* What becomes of the closed numbers when a row is written: nothing, or they
\* gain their successor.
Grows(n) == IsSuccessor(n) /\ (\A k : k \in ClosedNumbers' <=> k \in ClosedNumbers \/ k = n)

LEMMA WriteOfARow ==
  ASSUME IInv, NEW s \in Session, Commit(s), sess[s].cmd \in Updates \cup {"insert"}
  PROVE  /\ Holds(sess[s]) /\ Entered(sess[s]) /\ sess[s].row \in RoundRow
         /\ sess[s].new \in [status: RoundStatus, number: Number]
         /\ round[sess[s].row] = sess[s].seen
         /\ round' = [round EXCEPT ![sess[s].row] = sess[s].new]
         /\ UNCHANGED play
         /\ vacated' = vacated \cup Vacates(sess[s].seen, sess[s].new)
         /\ IsProgress(sess[s].seen, sess[s].new) =>
              /\ vacated = {} => IsSuccessor(sess[s].new.number)
              /\ NothingSkipped(sess[s].new.number)
         /\ vacated' = {} =>
              /\ vacated = {}
              /\ sess[s].new.status = "closed" /\ sess[s].seen.status = "closed" => round' = round
         /\ sess[s].seen.status = "closed" => sess[s].new.status = "closed"
         /\ sess[s].seen.status # "absent" => RoundRank(sess[s].new.status) >= RoundRank(sess[s].seen.status)
  <1>1. sess[s].pc = "commit" /\ Shape(sess[s]) /\ sess[s] \in SessionState
    BY Fields DEF Commit
  <1>2. /\ Holds(sess[s]) /\ Entered(sess[s]) /\ sess[s].row \in RoundRow
        /\ sess[s].new \in [status: RoundStatus, number: Number]
    BY <1>1 DEF Holds, Entered, Shape, Updates
  <1>3. round[sess[s].row] = sess[s].seen
    BY <1>2 DEF IInv, Frozen
  <1>4. /\ round' = [round EXCEPT ![sess[s].row] = sess[s].new] /\ UNCHANGED play
        /\ vacated' = vacated \cup Vacates(sess[s].seen, sess[s].new)
    BY DEF Commit, Updates
  <1>5. IsProgress(sess[s].seen, sess[s].new) =>
          /\ vacated = {} => IsSuccessor(sess[s].new.number)
          /\ NothingSkipped(sess[s].new.number)
    <2> SUFFICES ASSUME IsProgress(sess[s].seen, sess[s].new)
                 PROVE  /\ vacated = {} => IsSuccessor(sess[s].new.number)
                        /\ NothingSkipped(sess[s].new.number)
      OBVIOUS
    <2>1. sess[s].cmd \in Updates
      BY <1>1 DEF IsProgress, Shape
    <2>2. NothingSkipped(sess[s].new.number)
      BY <1>2, <2>1 DEF Progressing, IInv, Covered
    <2> QED BY <1>1, <1>2, <2>1, <2>2 DEF Progressing, IInv, Gated, Sequenced
  <1>6. sess[s].seen.status = "closed" => sess[s].new.status = "closed"
    <2> SUFFICES ASSUME sess[s].seen.status = "closed" PROVE sess[s].new.status = "closed"
      OBVIOUS
    <2>1. sess[s].cmd \in Updates
      BY <1>1 DEF Shape, NoRound
    <2>2. RoundRank(sess[s].new.status) >= 2
      BY <1>1, <2>1, RanksOfStatus DEF Shape
    <2>3. sess[s].new.status \in RoundStatus
      BY <1>2
    <2> QED BY <2>2, <2>3, RanksOfStatus DEF RoundStatus
  <1>7. vacated' = {} =>
          /\ vacated = {}
          /\ sess[s].new.status = "closed" /\ sess[s].seen.status = "closed" => round' = round
    <2> SUFFICES ASSUME vacated' = {}, sess[s].new.status = "closed", sess[s].seen.status = "closed"
                 PROVE  round' = round
      BY <1>4
    <2>1. sess[s].new \in Row /\ sess[s].seen \in Row
      BY <1>1 DEF SessionState
    <2>2. sess[s].new.number = sess[s].seen.number
      BY <1>4 DEF Vacates
    <2>3. sess[s].new = sess[s].seen
      BY <2>1, <2>2 DEF Row
    <2> QED BY <1>2, <1>3, <1>4, <2>3, Fields
  <1>8. sess[s].seen.status # "absent" => RoundRank(sess[s].new.status) >= RoundRank(sess[s].seen.status)
    BY <1>1 DEF Shape, NoRound, Updates
  <1> QED BY <1>2, <1>3, <1>4, <1>5, <1>6, <1>7, <1>8

LEMMA ClosedAfterWrite ==
  ASSUME vacated' = {}, IInv, NEW s \in Session, Commit(s), sess[s].cmd \in Updates \cup {"insert"}
  PROVE  \/ UNCHANGED ClosedNumbers
         \/ sess[s].new.status = "closed" /\ Grows(sess[s].new.number)
  <1>1. PICK r : r = sess[s].row
    OBVIOUS
  <1>2. /\ r \in RoundRow /\ round[r] = sess[s].seen
        /\ round' = [round EXCEPT ![r] = sess[s].new] /\ round \in [RoundRow -> Row]
    BY <1>1, WriteOfARow, Fields
  <1>3. round'[r] = sess[s].new /\ \A id \in RoundRow \ {r} : round'[id] = round[id]
    BY <1>2
  <1>4. \A n : n \in ClosedNumbers' <=> \E id \in RoundRow : round'[id].status = "closed" /\ round'[id].number = n
    BY DEF ClosedNumbers
  <1>5. CASE sess[s].seen.status = "closed"
    <2>1. round' = round
      BY <1>5, WriteOfARow
    <2> QED BY <2>1 DEF ClosedNumbers
  <1>6. CASE sess[s].seen.status # "closed" /\ sess[s].new.status # "closed"
    <2>1. \A n : n \in ClosedNumbers' <=> n \in ClosedNumbers
      BY <1>2, <1>3, <1>4, <1>6, InClosed
    <2> QED BY <2>1
  <1>7. CASE sess[s].seen.status # "closed" /\ sess[s].new.status = "closed"
    <2>1. IsSuccessor(sess[s].new.number)
      BY <1>7, WriteOfARow DEF IsProgress
    <2>2. \A n : n \in ClosedNumbers' <=> n \in ClosedNumbers \/ n = sess[s].new.number
      BY <1>2, <1>3, <1>4, <1>7, InClosed
    <2> QED BY <1>7, <2>1, <2>2 DEF Grows
  <1> QED BY <1>5, <1>6, <1>7

\* A number leaves the closed ones only into the vacated ones.
LEMMA NothingIsForgotten ==
  ASSUME IInv, NEW s \in Session, Commit(s), sess[s].cmd \in Updates \cup {"insert"}
  PROVE  ClosedNumbers \cup vacated \subseteq ClosedNumbers' \cup vacated'
  <1>1. PICK r : r = sess[s].row
    OBVIOUS
  <1>2. /\ r \in RoundRow /\ round[r] = sess[s].seen
        /\ round' = [round EXCEPT ![r] = sess[s].new] /\ round \in [RoundRow -> Row]
        /\ vacated' = vacated \cup Vacates(sess[s].seen, sess[s].new)
    BY <1>1, WriteOfARow, Fields
  <1>3. round'[r] = sess[s].new /\ \A id \in RoundRow \ {r} : round'[id] = round[id]
    BY <1>2
  <1>4. \A n : n \in ClosedNumbers' <=> \E id \in RoundRow : round'[id].status = "closed" /\ round'[id].number = n
    BY DEF ClosedNumbers
  <1> SUFFICES ASSUME NEW n \in ClosedNumbers PROVE n \in ClosedNumbers' \cup vacated'
    BY <1>2
  <1>5. PICK id \in RoundRow : round[id].status = "closed" /\ round[id].number = n
    BY InClosed
  <1>6. CASE id # r
    BY <1>3, <1>4, <1>5, <1>6
  <1>7. CASE id = r /\ sess[s].new.number = n
    <2>1. sess[s].new.status = "closed"
      BY <1>2, <1>5, <1>7, WriteOfARow
    <2> QED BY <1>3, <1>4, <1>7, <2>1
  <1>8. CASE id = r /\ sess[s].new.number # n
    BY <1>2, <1>5, <1>8 DEF Vacates
  <1> QED BY <1>6, <1>7, <1>8

LEMMA CommitWrite ==
  ASSUME IInv, NEW s \in Session, Commit(s), sess[s].cmd \in Updates \cup {"insert"}
  PROVE  IInv'
  <1>1. PICK r, n : r = sess[s].row /\ n = sess[s].new.number
    OBVIOUS
  <1>2. /\ r \in RoundRow /\ n \in Number /\ sess[s].new \in Row /\ sess[s].new.status # "absent"
        /\ round[r] = sess[s].seen /\ Holds(sess[s]) /\ Entered(sess[s])
        /\ round' = [round EXCEPT ![r] = sess[s].new] /\ round \in [RoundRow -> Row] /\ UNCHANGED play
    BY <1>1, WriteOfARow, Fields DEF Row, RoundStatus
  <1>3. round'[r] = sess[s].new /\ \A id \in RoundRow \ {r} : round'[id] = round[id]
    BY <1>2
  <1>4. sess'[s] = Idle /\ \A o \in Session \ {s} : sess'[o] = sess[o]
    BY CommitForgets
  <1>5. ~Holds(sess'[s]) /\ ~Entered(sess'[s])
    BY <1>4, IdleIsFine
  <1>6. \A id \in RoundRow \ {r} : round[id].number # n
    BY <1>1, <1>2 DEF IInv, AloneInIndex
  <1>7. vacated' = {} => /\ vacated = {}
                         /\ \/ UNCHANGED ClosedNumbers
                            \/ sess[s].new.status = "closed" /\ Grows(n)
    BY <1>1, ClosedAfterWrite, WriteOfARow
  <1>8. TypeOK'
    <2>1. vacated' \subseteq Number
      <3>1. vacated' = vacated \cup Vacates(sess[s].seen, sess[s].new)
        BY WriteOfARow
      <3>2. sess[s].seen.status = "closed" => sess[s].seen.number \in Number
        BY <1>1, <1>2 DEF IInv, RowsShaped
      <3> QED BY <3>1, <3>2 DEF Vacates, IInv, TypeOK
    <2> QED BY <1>2, <2>1, CommitForgets DEF IInv, TypeOK
  <1>9. RowsShaped'
    BY <1>1, <1>2, <1>3 DEF IInv, RowsShaped
  <1>10. OneNumber'
    BY <1>1, <1>3, <1>6 DEF IInv, OneNumber
  <1>11. Frozen'
    <2> SUFFICES ASSUME NEW o \in Session, Holds(sess'[o]) PROVE round'[sess'[o].row] = sess'[o].seen
      BY DEF Frozen
    <2>1. o # s /\ sess'[o] = sess[o]
      BY <1>4, <1>5
    <2>2. sess[o].row # r /\ round[sess[o].row] = sess[o].seen
      BY <1>1, <1>2, <2>1 DEF IInv, OneHolder, Frozen
    <2>3. sess[o].row \in RoundRow
      BY <2>1, Fields DEF Holds, Shape
    <2> QED BY <1>3, <2>1, <2>2, <2>3
  <1>12. AloneInIndex'
    <2> SUFFICES ASSUME NEW o \in Session, Entered(sess'[o])
                 PROVE  /\ \A id \in RoundRow \ {sess'[o].row} : round'[id].number # sess'[o].new.number
                        /\ \A p \in Session \ {o} : Entered(sess'[p]) => sess'[p].new.number # sess'[o].new.number
      BY DEF AloneInIndex
    <2>1. o # s /\ sess'[o] = sess[o]
      BY <1>4, <1>5
    <2>2. /\ \A id \in RoundRow \ {sess[o].row} : round[id].number # sess[o].new.number
          /\ \A p \in Session \ {o} : Entered(sess[p]) => sess[p].new.number # sess[o].new.number
      BY <2>1 DEF IInv, AloneInIndex
    <2>3. n # sess[o].new.number
      BY <1>1, <1>2, <2>1, <2>2
    <2> QED BY <1>1, <1>3, <1>4, <1>5, <2>1, <2>2, <2>3
  <1>13. Gated'
    <2> SUFFICES ASSUME vacated' = {}, NEW o \in Session, Holds(sess'[o]), Progressing(sess'[o])
                 PROVE  Sequenced(sess[o])'
      BY DEF Gated
    <2>1. o # s /\ sess'[o] = sess[o]
      BY <1>4, <1>5
    <2>2. Sequenced(sess[o]) /\ sess[o].row # r
      BY <1>1, <1>2, <1>7, <2>1 DEF IInv, Gated, OneHolder
    <2>3. CASE UNCHANGED ClosedNumbers /\ IsSuccessor(sess[o].new.number)
      BY <2>1, <2>3 DEF Sequenced, IsSuccessor
    <2>4. CASE sess[s].new.status = "closed" /\ Grows(n) /\ IsSuccessor(sess[o].new.number)
      <3>1. sess[o].new.number = n
        <4>1. sess[o].new.number \in Number
          BY <2>1, Fields DEF Progressing, Shape
        <4>2. /\ \A c \in ClosedNumbers : c < n /\ c < sess[o].new.number
              /\ n > 1 => n - 1 \in ClosedNumbers
              /\ sess[o].new.number > 1 => sess[o].new.number - 1 \in ClosedNumbers
          BY <2>4 DEF Grows, IsSuccessor
        <4> QED BY <1>2, <4>1, <4>2, RowAssumption DEF Number
      <3>2. ~Entered(sess[o])
        BY <1>1, <1>2, <2>1, <3>1 DEF IInv, AloneInIndex
      <3>3. sess[o].pc = "index"
        BY <2>1, <3>2 DEF Holds, Entered, Progressing, Updates
      <3>4. round'[r].status = "closed" /\ round'[r].number = n
        BY <1>1, <1>3, <2>4
      <3> QED BY <1>2, <2>1, <2>2, <3>1, <3>3, <3>4 DEF Sequenced
    <2>5. ASSUME sess[o].pc = "index",
                 NEW id \in RoundRow \ {sess[o].row},
                 round[id].status = "closed", round[id].number = sess[o].new.number
          PROVE  Sequenced(sess[o])'
      <3>1. round'[id] = round[id]
        <4>1. CASE id = r
          BY <1>1, <1>2, <2>5, <4>1, WriteOfARow
        <4>2. CASE id # r
          BY <1>3, <4>2
        <4> QED BY <4>1, <4>2
      <3> QED BY <2>1, <2>5, <3>1 DEF Sequenced
    <2> QED BY <1>7, <2>2, <2>3, <2>4, <2>5 DEF Sequenced
  <1>14. LiveNext'
    <2> SUFFICES ASSUME vacated' = {}, NEW id \in RoundRow, round'[id].status = "open"
                 PROVE  IsSuccessor(round[id].number)'
      BY DEF LiveNext
    <2>1. CASE id = r
      <3>1. UNCHANGED ClosedNumbers
        BY <1>3, <1>7, <2>1
      <3>2. IsSuccessor(n)
        <4>1. CASE IsProgress(sess[s].seen, sess[s].new)
          BY <1>1, <1>7, <4>1, WriteOfARow
        <4>2. CASE sess[s].seen.status = "open" /\ sess[s].seen.number = n
          BY <1>2, <1>7, <4>2 DEF IInv, LiveNext
        <4> QED BY <1>1, <1>3, <2>1, <4>1, <4>2 DEF IsProgress
      <3> QED BY <1>1, <1>3, <2>1, <3>1, <3>2 DEF IsSuccessor
    <2>2. CASE id # r
      <3>1. /\ round'[id] = round[id] /\ IsSuccessor(round[id].number) /\ round[id].number # n
        BY <1>3, <1>6, <1>7, <2>2 DEF IInv, LiveNext
      <3>2. UNCHANGED ClosedNumbers
        <4> SUFFICES ASSUME Grows(n) PROVE FALSE
          BY <1>7
        <4>1. round[id].number \in Number
          BY <2>2, <3>1 DEF IInv, RowsShaped
        <4>2. /\ \A c \in ClosedNumbers : c < n /\ c < round[id].number
              /\ n > 1 => n - 1 \in ClosedNumbers
              /\ round[id].number > 1 => round[id].number - 1 \in ClosedNumbers
          BY <3>1 DEF Grows, IsSuccessor
        <4> QED BY <1>2, <3>1, <4>1, <4>2, RowAssumption DEF Number
      <3> QED BY <3>1, <3>2 DEF IsSuccessor
    <2> QED BY <2>1, <2>2
  <1>15. \A m : NothingSkipped(m) => NothingSkipped(m)'
    BY NothingIsForgotten, PassedStaysPassed DEF NothingSkipped
  <1>16. Covered'
    BY <1>4, <1>5, <1>15 DEF IInv, Covered, NothingSkipped
  <1>17. ASSUME NEW id \in RoundRow, round'[id].status \in {"open", "closed"}
         PROVE  NothingSkipped(round[id].number)'
    <2>1. CASE id # r \/ round'[id] = round[id]
      <3>1. NothingSkipped(round[id].number)
        <4>1. round[id].status = "closed" => round[id].number \in ClosedNumbers
          BY InClosed
        <4> QED BY <1>3, <1>17, <2>1, <4>1 DEF IInv, LiveCovered, SequenceUnbroken
      <3> QED BY <1>3, <1>15, <2>1, <3>1 DEF NothingSkipped
    <2>2. CASE id = r /\ round'[id] # round[id]
      <3>1. sess[s].new \in Row /\ sess[s].seen \in Row /\ sess[s].new # sess[s].seen
        BY <1>2, <1>3, <2>2
      <3>2. IsProgress(sess[s].seen, sess[s].new)
        BY <1>3, <1>17, <2>2, <3>1 DEF IsProgress, Row
      <3>3. NothingSkipped(n)
        BY <1>1, <3>2, WriteOfARow
      <3> QED BY <1>1, <1>3, <1>15, <2>2, <3>3 DEF NothingSkipped
    <2> QED BY <2>1, <2>2
  <1>18. LiveCovered' /\ SequenceUnbroken'
    <2>1. \A m \in ClosedNumbers' : \E id \in RoundRow : round'[id].status = "closed" /\ round'[id].number = m
      BY DEF ClosedNumbers
    <2> QED BY <1>17, <2>1 DEF LiveCovered, SequenceUnbroken, NothingSkipped
  <1> QED BY <1>8, <1>9, <1>10, <1>11, <1>12, <1>13, <1>14, <1>16, <1>18, CommitForgets DEF IInv

LEMMA CommitDelete ==
  ASSUME IInv, NEW s \in Session, Commit(s), sess[s].cmd = "delete"
  PROVE  /\ IInv'
         /\ \E r \in RoundRow : /\ round[r].status # "closed"
                                /\ round' = [round EXCEPT ![r] = NoRound]
  <1>1. PICK r : r = sess[s].row
    OBVIOUS
  <1>2. /\ r \in RoundRow /\ Holds(sess[s]) /\ sess[s].seen.status # "closed"
        /\ round \in [RoundRow -> Row] /\ play \in [RoundRow -> Play]
    BY <1>1, Fields DEF Commit, Shape, Holds, IInv, TypeOK
  <1>3. round[r] = sess[s].seen
    BY <1>1, <1>2 DEF IInv, Frozen
  <1>4. round' = [round EXCEPT ![r] = NoRound] /\ play' = [play EXCEPT ![r] = "none"]
    BY <1>1 DEF Commit
  <1>5. /\ round'[r] = NoRound /\ NoRound.status = "absent" /\ NoRound.number = 0
        /\ \A id \in RoundRow \ {r} : round'[id] = round[id]
    BY <1>2, <1>4 DEF NoRound
  <1>6. sess'[s] = Idle /\ \A o \in Session \ {s} : sess'[o] = sess[o]
    BY CommitForgets
  <1>7. ~Holds(sess'[s]) /\ ~Entered(sess'[s])
    BY <1>6, IdleIsFine
  <1>8. \A n : n \in ClosedNumbers' <=> n \in ClosedNumbers
    <2>1. \A n : n \in ClosedNumbers' <=> \E id \in RoundRow : round'[id].status = "closed" /\ round'[id].number = n
      BY DEF ClosedNumbers
    <2> QED BY <1>2, <1>3, <1>5, <2>1, InClosed
  <1>9. UNCHANGED ClosedNumbers /\ UNCHANGED vacated
    BY <1>8 DEF Commit
  <1>10. TypeOK'
    BY <1>2, <1>4, <1>9, CommitForgets DEF IInv, TypeOK, NoRound, Row, Play
  <1>11. RowsShaped' /\ OneNumber'
    BY <1>5 DEF IInv, RowsShaped, OneNumber
  <1>12. Frozen'
    <2> SUFFICES ASSUME NEW o \in Session, Holds(sess'[o]) PROVE round'[sess'[o].row] = sess'[o].seen
      BY DEF Frozen
    <2>1. o # s /\ sess'[o] = sess[o]
      BY <1>6, <1>7
    <2>2. sess[o].row # r /\ round[sess[o].row] = sess[o].seen /\ sess[o].row \in RoundRow
      BY <1>1, <1>2, <2>1, Fields DEF IInv, OneHolder, Frozen, Holds, Shape
    <2> QED BY <1>5, <2>1, <2>2
  <1>13. Gated'
    <2> SUFFICES ASSUME vacated' = {}, NEW o \in Session, Holds(sess'[o]), Progressing(sess'[o])
                 PROVE  Sequenced(sess[o])'
      BY DEF Gated
    <2>1. o # s /\ sess'[o] = sess[o]
      BY <1>6, <1>7
    <2>2. Sequenced(sess[o])
      BY <1>9, <2>1 DEF IInv, Gated
    <2>3. \A id \in RoundRow : round[id].status = "closed" => round'[id] = round[id]
      BY <1>2, <1>3, <1>5
    <2>4. CASE IsSuccessor(sess[o].new.number)
      BY <1>9, <2>1, <2>4 DEF Sequenced, IsSuccessor
    <2> QED BY <2>1, <2>2, <2>3, <2>4 DEF Sequenced
  <1>14. AloneInIndex'
    <2> SUFFICES ASSUME NEW o \in Session, Entered(sess'[o])
                 PROVE  /\ \A id \in RoundRow \ {sess'[o].row} : round'[id].number # sess'[o].new.number
                        /\ \A p \in Session \ {o} : Entered(sess'[p]) => sess'[p].new.number # sess'[o].new.number
      BY DEF AloneInIndex
    <2>1. o # s /\ sess'[o] = sess[o]
      BY <1>6, <1>7
    <2>2. /\ \A id \in RoundRow \ {sess[o].row} : round[id].number # sess[o].new.number
          /\ \A p \in Session \ {o} : Entered(sess[p]) => sess[p].new.number # sess[o].new.number
      BY <2>1 DEF IInv, AloneInIndex
    <2>3. sess[o].cmd \in Updates \cup {"insert"}
      BY <2>1, Fields DEF Entered, Shape, SessionState, Updates
    <2>4. sess[o].new.number \in Number
      BY <2>3, Fields DEF Shape
    <2>5. sess[o].new.number # 0
      BY <2>4, RowAssumption DEF Number
    <2> QED BY <1>5, <1>6, <1>7, <2>1, <2>2, <2>5
  <1>15. \A m : NothingSkipped(m) => NothingSkipped(m)'
    BY <1>9 DEF NothingSkipped
  <1>16. Covered' /\ SequenceUnbroken'
    BY <1>6, <1>7, <1>9, <1>15 DEF IInv, Covered, SequenceUnbroken, NothingSkipped
  <1>17. LiveNext' /\ LiveCovered'
    <2>1. \A id \in RoundRow : round'[id].status = "open" => round'[id] = round[id]
      BY <1>5
    <2> QED BY <1>9, <2>1 DEF IInv, LiveNext, LiveCovered, NothingSkipped, IsSuccessor
  <1>18. IInv'
    BY <1>10, <1>11, <1>12, <1>13, <1>14, <1>16, <1>17, CommitForgets DEF IInv
  <1> QED BY <1>2, <1>3, <1>4, <1>18

LEMMA CommitSeason ==
  ASSUME IInv, NEW s \in Session, Commit(s), sess[s].cmd = "season"
  PROVE  IInv' /\ UNCHANGED round
  <1>1. UNCHANGED <<round, play, vacated>>
    BY DEF Commit
  <1>2. UNCHANGED ClosedNumbers
    BY <1>1 DEF ClosedNumbers
  <1>3. sess'[s] = Idle /\ \A o \in Session \ {s} : sess'[o] = sess[o]
    BY CommitForgets
  <1>4. ~Holds(sess'[s]) /\ ~Entered(sess'[s])
    BY <1>3, IdleIsFine
  <1>5. TypeOK' /\ RowsShaped' /\ OneNumber'
    BY <1>1, CommitForgets DEF IInv, TypeOK, RowsShaped, OneNumber
  <1>6. Frozen' /\ AloneInIndex'
    BY <1>1, <1>3, <1>4 DEF IInv, Frozen, AloneInIndex
  <1>7. Gated'
    BY <1>1, <1>2, <1>3, <1>4 DEF IInv, Gated, Sequenced, IsSuccessor
  <1>8. Covered' /\ LiveNext' /\ LiveCovered' /\ SequenceUnbroken'
    BY <1>1, <1>2, <1>3, <1>4 DEF IInv, Covered, LiveNext, LiveCovered, SequenceUnbroken, IsSuccessor,
                                  NothingSkipped
  <1> QED BY <1>1, <1>5, <1>6, <1>7, <1>8, CommitForgets DEF IInv

LEMMA CommitIsOfSomething ==
  ASSUME IInv, NEW s \in Session, Commit(s)
  PROVE  \/ sess[s].cmd \in Updates \cup {"insert"}
         \/ sess[s].cmd = "delete"
         \/ sess[s].cmd = "season"
  BY Fields DEF Commit, SessionState, Shape, Updates

LEMMA PlayStep ==
  ASSUME IInv, NEW id \in RoundRow, NEW to \in Play, Played(id, to)
  PROVE  IInv'
  <1>1. UNCHANGED <<season, round, vacated, sess>> /\ play' \in [RoundRow -> Play]
    BY DEF Played, IInv, TypeOK
  <1>2. UNCHANGED ClosedNumbers
    BY <1>1 DEF ClosedNumbers
  <1> QED BY <1>1, <1>2 DEF IInv, TypeOK, Shapes, RowsShaped, OneHolder, Frozen, Gated, Sequenced,
             OneNumber, AloneInIndex, SeasonHeld, SeasonFree, Covered, LiveNext, LiveCovered, SequenceUnbroken,
             IsSuccessor, NothingSkipped

LEMMA StutterStep == ASSUME IInv, UNCHANGED vars PROVE IInv'
  <1>1. UNCHANGED <<season, round, play, vacated, sess>>
    BY DEF vars
  <1>2. UNCHANGED ClosedNumbers
    BY <1>1 DEF ClosedNumbers
  <1> QED BY <1>1, <1>2 DEF IInv, TypeOK, Shapes, RowsShaped, OneHolder, Frozen, Gated, Sequenced,
             OneNumber, AloneInIndex, SeasonHeld, SeasonFree, Covered, LiveNext, LiveCovered, SequenceUnbroken,
             IsSuccessor, NothingSkipped

-----------------------------------------------------------------------------
(* The theorems *)

\* A step commits, or leaves season and rounds alone.
LEMMA CommitsAlone ==
  ASSUME Next
  PROVE  (\E s \in Session : Commit(s)) \/ UNCHANGED <<season, round>>
  BY DEF Next, Request, Statement, BeginInsert, BeginUpdate, BeginDelete, BeginSeason, OpenSeasonFlip,
         WriteRound, EnterIndex, CloseSeasonFlip, DeleteRound, WriteSeason, Cancel, FlipSeason, Goto, End,
         Unwritten, AddMatch, KickOff, ResolveLast, DeleteMatches, Played

LEMMA NextKeepsIInv ==
  ASSUME IInv, [Next]_vars
  PROVE  IInv'
  <1>1. CASE UNCHANGED vars
    BY <1>1, StutterStep
  <1>2. ASSUME NEW s \in Session, Request(s) PROVE IInv'
    BY <1>2, BeginInsertStep, BeginUpdateStep, BeginDeleteStep, BeginSeasonStep DEF Request
  <1>3. ASSUME NEW s \in Session, Statement(s) PROVE IInv'
    <2>1. CASE Commit(s)
      BY <2>1, CommitIsOfSomething, CommitWrite, CommitDelete, CommitSeason
    <2>2. CASE Cancel(s)
      BY <2>2, EndStep DEF Cancel
    <2> QED BY <1>3, <2>1, <2>2, OpenSeasonFlipStep, CloseSeasonFlipStep, WriteRoundStep,
               EnterIndexStep, DeleteRoundStep, WriteSeasonStep DEF Statement
  <1>4. ASSUME NEW id \in RoundRow, AddMatch(id) \/ KickOff(id) \/ ResolveLast(id) \/ DeleteMatches(id)
        PROVE  IInv'
    <2>1. \E to \in {"none", "ahead", "started", "over"} : Played(id, to)
      BY <1>4 DEF AddMatch, KickOff, ResolveLast, DeleteMatches
    <2> QED BY <2>1, PlayStep DEF Play
  <1> QED BY <1>1, <1>2, <1>3, <1>4 DEF Next

\* What requests have read and passed stays true until they commit, under any
\* interleaving of operators.
THEOREM Invariance == Spec => []IInv
  <1>1. Init => IInv
    BY InitSatisfiesIInv
  <1>2. IInv /\ [Next]_vars => IInv'
    BY NextKeepsIInv
  <1> QED BY <1>1, <1>2, PTL DEF Spec

\* The rows and the requests of every reachable state have their types.
THEOREM TypeCorrect == Spec => []TypeOK
  <1>1. IInv => TypeOK
    BY DEF IInv
  <1> QED BY <1>1, Invariance, PTL

\* A live round has skipped nothing and is alone with its number, and until a
\* closed round is first renumbered it is the immediate successor of what is
\* closed: what rounds_progress_gate and the unique index are for.
THEOREM LiveRoundIsNext == Spec => []OpenIsNext
  <1>1. ASSUME IInv, NEW id \in RoundRow, round[id].status = "open"
        PROVE  /\ NothingSkipped(round[id].number)
               /\ vacated = {} => IsSuccessor(round[id].number)
               /\ \A other \in RoundRow \ {id} : round[other].number # round[id].number
    <2>1. round[id].number \in Number
      BY <1>1 DEF IInv, RowsShaped
    <2>2. round[id].number # 0
      BY <2>1, RowAssumption DEF Number
    <2> QED BY <1>1, <2>2 DEF IInv, OneNumber, LiveNext, LiveCovered
  <1>2. IInv => OpenIsNext
    BY <1>1 DEF OpenIsNext
  <1> QED BY <1>2, Invariance, PTL

\* Every hole in the sequence of closed rounds is a number that a closed round
\* was renumbered away from: no race of openings, closes and renumberings
\* leaves one of its own.
THEOREM SequenceStaysUnbroken == Spec => []SequenceUnbroken
  <1>1. IInv => SequenceUnbroken
    BY DEF IInv
  <1> QED BY <1>1, Invariance, PTL

\* When an opening, a close or a renumbering takes effect, and not only when
\* its gate looked, nothing is skipped, and up to the first renumbering of a
\* closed round its number is the successor of everything closed.
THEOREM RoundsProgressInSequence == Spec => ProgressInSequence
  <1>1. ASSUME IInv, [Next]_vars, NEW id \in RoundRow, IsProgress(round[id], round'[id])
        PROVE  /\ NothingSkipped(round'[id].number)
               /\ vacated = {} => IsSuccessor(round'[id].number)
    <2>1. round'[id] # round[id]
      BY <1>1 DEF IsProgress
    <2>2. PICK s \in Session : Commit(s)
      BY <1>1, <2>1, CommitsAlone DEF vars
    <2>3. round \in [RoundRow -> Row]
      BY <1>1, <2>2, Fields
    <2>4. CASE sess[s].cmd \in Updates \cup {"insert"}
      <3>1. id = sess[s].row /\ round'[id] = sess[s].new /\ round[id] = sess[s].seen
        BY <1>1, <2>1, <2>2, <2>3, <2>4, WriteOfARow
      <3> QED BY <1>1, <2>2, <2>4, <3>1, WriteOfARow
    <2>5. CASE sess[s].cmd = "delete"
      <3>1. round'[id] = NoRound
        BY <1>1, <2>1, <2>2, <2>3, <2>5, CommitDelete
      <3> QED BY <1>1, <3>1 DEF IsProgress, NoRound
    <2>6. CASE sess[s].cmd = "season"
      BY <1>1, <2>1, <2>2, <2>6, CommitSeason
    <2> QED BY <1>1, <2>2, <2>4, <2>5, <2>6, CommitIsOfSomething
  <1>2. IInv /\ [Next]_vars =>
          [\A id \in RoundRow : IsProgress(round[id], round'[id]) =>
             /\ NothingSkipped(round'[id].number)
             /\ vacated = {} => IsSuccessor(round'[id].number)]_vars
    BY <1>1
  <1> QED BY <1>2, Invariance, PTL DEF Spec, ProgressInSequence

\* Neither a round nor the season goes back, whatever a handler read before.
THEOREM NothingGoesBack == Spec => NoRegression
  <1>1. ASSUME IInv, [Next]_vars, ~UNCHANGED vars
        PROVE  /\ SeasonRank(season') >= SeasonRank(season)
               /\ \A id \in RoundRow :
                    /\ round'[id].status # "absent" /\ round[id].status # "absent" =>
                           RoundRank(round'[id].status) >= RoundRank(round[id].status)
                    /\ round[id].status = "closed" => round'[id].status = "closed"
    <2>1. SeasonRank(season) \in Nat /\ \A id \in RoundRow :
            round[id].status # "absent" => RoundRank(round[id].status) \in Nat
      BY <1>1 DEF IInv, TypeOK, SeasonStatus, SeasonRank, RoundRank, Row, RoundStatus
    <2>2. CASE UNCHANGED <<season, round>>
      BY <2>1, <2>2
    <2>3. ASSUME NEW s \in Session, Commit(s)
          PROVE  /\ SeasonRank(season') >= SeasonRank(season)
                 /\ \A id \in RoundRow :
                      /\ round'[id].status # "absent" /\ round[id].status # "absent" =>
                             RoundRank(round'[id].status) >= RoundRank(round[id].status)
                      /\ round[id].status = "closed" => round'[id].status = "closed"
      <3>1. SeasonRank(season') >= SeasonRank(season)
        BY <1>1, <2>3, CommitForgets
      <3>2. round \in [RoundRow -> Row]
        BY <1>1, <2>3, Fields
      <3> SUFFICES ASSUME NEW id \in RoundRow
                   PROVE  /\ round'[id].status # "absent" /\ round[id].status # "absent" =>
                                 RoundRank(round'[id].status) >= RoundRank(round[id].status)
                          /\ round[id].status = "closed" => round'[id].status = "closed"
        BY <3>1
      <3>3. CASE round'[id] = round[id]
        BY <2>1, <3>3
      <3>4. CASE round'[id] # round[id] /\ sess[s].cmd \in Updates \cup {"insert"}
        <4>1. id = sess[s].row /\ round'[id] = sess[s].new /\ round[id] = sess[s].seen
          BY <1>1, <2>3, <3>2, <3>4, WriteOfARow
        <4> QED BY <1>1, <2>3, <3>4, <4>1, WriteOfARow
      <3>5. CASE round'[id] # round[id] /\ sess[s].cmd = "delete"
        <4>1. round'[id] = NoRound /\ round[id].status # "closed"
          BY <1>1, <2>3, <3>2, <3>5, CommitDelete
        <4> QED BY <4>1 DEF NoRound
      <3>6. CASE round'[id] # round[id] /\ sess[s].cmd = "season"
        BY <1>1, <2>3, <3>6, CommitSeason
      <3> QED BY <1>1, <2>3, <3>3, <3>4, <3>5, <3>6, CommitIsOfSomething
    <2> QED BY <1>1, <2>2, <2>3, CommitsAlone
  <1>2. IInv /\ [Next]_vars =>
          [/\ SeasonRank(season') >= SeasonRank(season)
           /\ \A id \in RoundRow :
                /\ round'[id].status # "absent" /\ round[id].status # "absent" =>
                       RoundRank(round'[id].status) >= RoundRank(round[id].status)
                /\ round[id].status = "closed" => round'[id].status = "closed"]_vars
    BY <1>1
  <1> QED BY <1>2, Invariance, PTL DEF Spec, NoRegression
=============================================================================
