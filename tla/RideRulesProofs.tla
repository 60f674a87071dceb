--------------------------- MODULE RideRulesProofs ---------------------------
(***************************************************************************)
(* The invariants of RideRules, for every schedule, every number of rides  *)
(* and every season length.  TypeOK carries the rest; each invariant is    *)
(* then inductive by itself, and what a decision does to a row is stated   *)
(* once, as a lemma about the row operators.                               *)
(***************************************************************************)
EXTENDS RideRules, TLAPS

-----------------------------------------------------------------------------
(* The row operators *)

\* EndedAs changes the state and counts the write.
LEMMA EndedAsIsRow ==
    ASSUME NEW row \in RideRow, NEW st \in RideState
    PROVE  LET new == EndedAs(row, st)
           IN  /\ new \in RideRow
               /\ new.state = st
               /\ new.match = row.match /\ new.streak = row.streak
               /\ new.version = row.version + 1
  <1>1. row.version + 1 \in Nat
    BY DEF RideRow
  <1> QED BY <1>1 DEF EndedAs, RideRow

\* LockedOnto also counts the continuation.
LEMMA LockedOntoIsRow ==
    ASSUME NEW row \in RideRow, NEW m \in Match
    PROVE  LET new == LockedOnto(row, m)
           IN  /\ new \in RideRow
               /\ new.state = "locked"
               /\ new.match = m /\ new.streak = row.streak + 1
               /\ new.version = row.version + 1
  <1>1. row.version + 1 \in Nat /\ row.streak + 1 \in Nat
    BY DEF RideRow
  <1> QED BY <1>1 DEF LockedOnto, RideRow, RideState, LiveState

\* What a player may decide is one of the two.
LEMMA DecisionsAreRows ==
    ASSUME NEW row \in RideRow, NEW decided \in Decisions(row)
    PROVE  /\ decided \in RideRow
           /\ decided.state \in {"locked", "burned", "unlocked"}
           /\ decided.version = row.version + 1
           /\ decided.streak = IF decided.state = "locked" THEN row.streak + 1 ELSE row.streak
  <1>1. CASE \E st \in {"burned", "unlocked"} : decided = EndedAs(row, st)
    BY <1>1, EndedAsIsRow DEF RideState, TerminalState
  <1>2. CASE \E m \in Match : decided = LockedOnto(row, m)
    BY <1>2, LockedOntoIsRow
  <1> QED BY <1>1, <1>2 DEF Decisions

\* A settled row keeps all but its state and version.
LEMMA SettledIsRow ==
    ASSUME NEW row \in RideRow, NEW winner
    PROVE  LET new == SettledBy(row, winner)
           IN  /\ new \in RideRow
               /\ new.state \in {"won_pending", "lost"}
               /\ new.match = row.match /\ new.streak = row.streak
               /\ new.version = row.version + 1
  <1>1. row.version + 1 \in Nat
    BY DEF RideRow
  <1> QED BY <1>1 DEF SettledBy, RideRow, RideState, LiveState, TerminalState

\* So does an auto-resolved one, and it is decided.
LEMMA AutoResolvedIsRow ==
    ASSUME NEW row \in RideRow, NEW k
    PROVE  LET new == AutoResolved(row, k)
           IN  /\ new \in RideRow
               /\ new.state \in {"burned", "unlocked"}
               /\ new.match = row.match /\ new.streak = row.streak
               /\ new.version = row.version + 1
  BY EndedAsIsRow DEF AutoResolved, RideState, TerminalState

-----------------------------------------------------------------------------
(* Type correctness *)

\* Every behaviour keeps rows, matches and rounds in their types.
THEOREM TypeCorrect == Spec => []TypeOK
<1>1. Init => TypeOK
  BY DEF Init, TypeOK, AbsentRide, RideRow, ScheduledMatch, MatchFact, Round
<1>2. TypeOK /\ [Next]_vars => TypeOK'
  <2> SUFFICES ASSUME TypeOK, [Next]_vars PROVE TypeOK'
    OBVIOUS
  <2> USE DEF TypeOK
  <2>1. CASE \E k \in Round : Open(k) \/ Skip(k)
    BY <2>1 DEF Open, Skip
  <2>2. CASE \E k \in Round : Close(k)
    <3> PICK k \in Round : Close(k)
      BY <2>2
    <3>1. \A r \in Ride : AutoResolved(ride[r], k) \in RideRow
      BY AutoResolvedIsRow
    <3> QED BY <3>1 DEF Close
  <2>3. CASE \E m \in Match : Start(m)
    BY <2>3 DEF Start, MatchFact
  <2>4. CASE \E r \in Ride, m \in Match, t \in Team : Create(r, m, t)
    BY <2>4 DEF Create, CreatedRide, RideRow, RideState, LiveState
  <2>5. CASE \E m \in Match, winner \in Team \cup {NoTeam} :
                \E settled \in SUBSET LockedOn(m) : Resolve(m, winner, settled)
    <3> PICK m \in Match, winner \in Team \cup {NoTeam} :
                \E settled \in SUBSET LockedOn(m) : Resolve(m, winner, settled)
      BY <2>5
    <3> PICK settled \in SUBSET LockedOn(m) : Resolve(m, winner, settled)
      OBVIOUS
    <3>1. \A r \in Ride : SettledBy(ride[r], winner) \in RideRow
      BY SettledIsRow
    <3> QED BY <3>1 DEF Resolve, MatchFact
  <2>6. CASE \E m \in Match, winner \in Team \cup {NoTeam} : Correct(m, winner)
    BY <2>6 DEF Correct, MatchFact
  <2>7. CASE \E r \in Ride : \E decided \in Decisions(ride[r]) : Decide(r, decided)
    BY <2>7, DecisionsAreRows DEF Decide
  <2>8. CASE UNCHANGED vars
    BY <2>8 DEF vars
  <2> QED BY <2>1, <2>2, <2>3, <2>4, <2>5, <2>6, <2>7, <2>8 DEF Next
<1> QED BY <1>1, <1>2, PTL DEF Spec

-----------------------------------------------------------------------------
(* The invariants *)

\* match_id is NOT NULL.
RidesHaveMatches == \A r \in Ride : ride[r].state # "absent" => ride[r].match \in Match

\* The four invariants, kept together: each step is looked at once.
Safe == /\ RidesHaveMatches
        /\ ClosedRoundIsDecided
        /\ UndecidedOnClosedMatch
        /\ StreakCountsContinuations
        /\ RoundsInOrder

LEMMA SafeInit == Init => Safe
  BY ScheduleAssumption
  DEF Init, Safe, RidesHaveMatches, ClosedRoundIsDecided, UndecidedOnClosedMatch, StreakCountsContinuations,
      RoundsInOrder, AbsentRide, Round

\* Opening or skipping a round: everything below it is closed, because its
\* predecessor is and, by RoundsInOrder, everything below that.
LEMMA SafeOpen ==
    ASSUME TypeOK, Safe, NEW k \in Round, Open(k) \/ Skip(k)
    PROVE  Safe'
  <1> USE DEF Safe, TypeOK, Open, Skip
  <1>0. /\ ride' = ride /\ match' = match
        /\ \A j \in Round : round[j] = "open" => round'[j] = "open"
    OBVIOUS
  <1>1. RidesHaveMatches' /\ UndecidedOnClosedMatch' /\ StreakCountsContinuations'
    BY <1>0 DEF RidesHaveMatches, UndecidedOnClosedMatch, StreakCountsContinuations
  <1>3. ClosedRoundIsDecided'
    <2> SUFFICES ASSUME NEW r \in Ride, ride[r].state = "won_pending"
                 PROVE  round'[RoundOf[ride[r].match]] = "open"
      BY <1>0 DEF ClosedRoundIsDecided
    <2>1. round[RoundOf[ride[r].match]] = "open"
      BY DEF ClosedRoundIsDecided
    <2>2. ride[r].match \in Match
      BY DEF RidesHaveMatches
    <2>3. RoundOf[ride[r].match] \in Round
      BY <2>2, ScheduleAssumption DEF ScheduleAssumption, Round
    <2> QED BY <1>0, <2>1, <2>3
  <1>2. RoundsInOrder'
    BY ScheduleAssumption DEF RoundsInOrder, NextInSequence, Round, ScheduleAssumption
  <1> QED BY <1>1, <1>2, <1>3

\* Closing a round decides its undecided rides, and those of other rounds are
\* not touched.
LEMMA SafeClose ==
    ASSUME TypeOK, Safe, NEW k \in Round, Close(k)
    PROVE  Safe'
  <1> USE DEF Safe, TypeOK, Close
  <1>1. \A r \in Ride : AutoResolved(ride[r], k).state \in {"burned", "unlocked"}
    BY AutoResolvedIsRow
  <1>2. \A r \in Ride : ride'[r].state = "won_pending" => ride'[r] = ride[r] /\ r \notin Undecided(k)
    BY <1>1
  <1>3. ClosedRoundIsDecided' /\ UndecidedOnClosedMatch'
    BY <1>2 DEF ClosedRoundIsDecided, UndecidedOnClosedMatch, Undecided, InRound
  <1>6. RidesHaveMatches'
    BY AutoResolvedIsRow DEF RidesHaveMatches, Undecided
  <1>4. StreakCountsContinuations'
    BY AutoResolvedIsRow DEF StreakCountsContinuations, Undecided, RideRow
  <1>5. RoundsInOrder'
    BY DEF RoundsInOrder
  <1> QED BY <1>3, <1>4, <1>5, <1>6

\* Starting and correcting a match leave a closed match closed.
LEMMA SafeMatch ==
    ASSUME TypeOK, Safe, NEW m \in Match, NEW winner, Start(m) \/ Correct(m, winner)
    PROVE  Safe'
  <1> USE DEF Safe, TypeOK, Start, Correct
  <1>1. \A o \in Match : match[o].status = "closed" => match'[o].status = "closed"
    BY DEF MatchFact
  <1>2. RidesHaveMatches' /\ UndecidedOnClosedMatch'
    BY <1>1 DEF RidesHaveMatches, UndecidedOnClosedMatch, RideRow
  <1>3. ClosedRoundIsDecided' /\ StreakCountsContinuations' /\ RoundsInOrder'
    BY DEF ClosedRoundIsDecided, StreakCountsContinuations, RoundsInOrder
  <1> QED BY <1>2, <1>3

\* A new ride is locked, with streak 0 and version 1.
LEMMA SafeCreate ==
    ASSUME TypeOK, Safe, NEW r \in Ride, NEW m \in Match, NEW t \in Team, Create(r, m, t)
    PROVE  Safe'
  BY DEF Safe, TypeOK, Create, CreatedRide, RidesHaveMatches, ClosedRoundIsDecided, UndecidedOnClosedMatch,
         StreakCountsContinuations, RoundsInOrder

\* A resolution makes rides undecided only on the match it closes, whose round
\* is open.
LEMMA SafeResolve ==
    ASSUME TypeOK, Safe, NEW m \in Match, NEW winner, NEW settled \in SUBSET LockedOn(m),
           Resolve(m, winner, settled)
    PROVE  Safe'
  <1> USE DEF Safe, TypeOK, Resolve
  <1>1. \A r \in settled : r \in Ride /\ ride[r].state = "locked" /\ ride[r].match = m
    BY DEF LockedOn
  <1>8. \A r \in settled : /\ ride'[r].state \in {"won_pending", "lost"}
                           /\ ride'[r].match = m /\ ride'[r].streak = ride[r].streak
                           /\ ride'[r].version = ride[r].version + 1
    BY <1>1, SettledIsRow
  <1>2. \A r \in Ride \ settled : ride'[r] = ride[r]
    OBVIOUS
  <1>3. ClosedRoundIsDecided'
    BY <1>8, <1>2 DEF ClosedRoundIsDecided
  <1>4. RidesHaveMatches'
    BY <1>8, <1>2 DEF RidesHaveMatches
  <1>7. UndecidedOnClosedMatch'
    <2>1. match'[m].status = "closed"
      OBVIOUS
    <2>2. \A o \in Match \ {m} : match'[o] = match[o]
      OBVIOUS
    <2> QED BY <1>8, <1>2, <2>1, <2>2 DEF UndecidedOnClosedMatch, RidesHaveMatches
  <1>5. StreakCountsContinuations'
    <2>1. \A r \in settled : ride[r].version = 2 * ride[r].streak + 1
      BY <1>1 DEF StreakCountsContinuations
    <2>2. \A r \in settled : ride[r].streak \in Nat
      BY <1>1 DEF RideRow
    <2>3. \A r \in settled : ride'[r].version = 2 * ride'[r].streak + 2
      BY <1>8, <2>1, <2>2
    <2> QED BY <1>8, <1>2, <2>3 DEF StreakCountsContinuations
  <1>6. RoundsInOrder'
    BY DEF RoundsInOrder
  <1> QED BY <1>3, <1>4, <1>5, <1>6, <1>7

\* A decision leaves the ride decided or locked again.
LEMMA SafeDecide ==
    ASSUME TypeOK, Safe, NEW r \in Ride, NEW decided \in Decisions(ride[r]), Decide(r, decided)
    PROVE  Safe'
  <1> USE DEF Safe, TypeOK, Decide
  <1>1. /\ ride'[r] = decided
        /\ decided.state \in {"locked", "burned", "unlocked"}
        /\ decided.version = ride[r].version + 1
        /\ decided.streak = IF decided.state = "locked" THEN ride[r].streak + 1
                                                       ELSE ride[r].streak
    BY DecisionsAreRows
  <1>2. \A q \in Ride \ {r} : ride'[q] = ride[q]
    OBVIOUS
  <1>3. ClosedRoundIsDecided' /\ UndecidedOnClosedMatch'
    BY <1>1, <1>2 DEF ClosedRoundIsDecided, UndecidedOnClosedMatch
  <1>4. StreakCountsContinuations'
    BY <1>1, <1>2 DEF StreakCountsContinuations, RideRow
  <1>5. RoundsInOrder'
    BY DEF RoundsInOrder
  <1>6. RidesHaveMatches'
    BY <1>1, <1>2, EndedAsIsRow, LockedOntoIsRow DEF RidesHaveMatches, Decisions, RideState, TerminalState
  <1> QED BY <1>3, <1>4, <1>5, <1>6

\* One case per disjunct of Next.
LEMMA SafeAlways == Spec => []Safe
<1>1. TypeOK /\ Safe /\ [Next]_vars => Safe'
  <2> SUFFICES ASSUME TypeOK, Safe, [Next]_vars PROVE Safe'
    OBVIOUS
  <2>1. CASE \E k \in Round : Open(k) \/ Close(k) \/ Skip(k)
    BY <2>1, SafeOpen, SafeClose
  <2>2. CASE \E m \in Match : Start(m)
    BY <2>2, SafeMatch
  <2>3. CASE \E r \in Ride, m \in Match, t \in Team : Create(r, m, t)
    BY <2>3, SafeCreate
  <2>4. CASE \E m \in Match, winner \in Team \cup {NoTeam} :
                \/ \E settled \in SUBSET LockedOn(m) : Resolve(m, winner, settled)
                \/ Correct(m, winner)
    BY <2>4, SafeResolve, SafeMatch
  <2>5. CASE \E r \in Ride : \E decided \in Decisions(ride[r]) : Decide(r, decided)
    BY <2>5, SafeDecide
  <2>6. CASE UNCHANGED vars
    BY <2>6 DEF vars, Safe, RidesHaveMatches, ClosedRoundIsDecided, UndecidedOnClosedMatch,
                StreakCountsContinuations, RoundsInOrder
  <2> QED BY <2>1, <2>2, <2>3, <2>4, <2>5, <2>6 DEF Next
<1> QED BY SafeInit, TypeCorrect, <1>1, PTL DEF Spec

\* A round that is closed owns no undecided ride, whatever the schedule and
\* however many rides there are: what Close's auto-resolution is for.
THEOREM ClosedRoundDecided == Spec => []ClosedRoundIsDecided
BY SafeAlways, PTL DEF Safe

\* A ride waits for a decision only on a match that is over.
THEOREM UndecidedIsOver == Spec => []UndecidedOnClosedMatch
BY SafeAlways, PTL DEF Safe

\* Every write of a ride is counted once, every continuation once.
THEOREM StreakIsCounted == Spec => []StreakCountsContinuations
BY SafeAlways, PTL DEF Safe

\* Rounds are worked through in order, one at a time, in a season of any length.
THEOREM RoundsAreOrdered == Spec => []RoundsInOrder
BY SafeAlways, PTL DEF Safe

\* burned, unlocked and lost are final: only locked rides settle and only
\* undecided ones are decided, by their player or by the close.
THEOREM TerminalIsFinal == Spec => TerminalStaysTerminal
<1> DEFINE Final == \A r \in Ride : ride[r].state \in TerminalState => ride'[r] = ride[r]
<1>1. TypeOK /\ [Next]_vars => [Final]_vars
  <2> SUFFICES ASSUME TypeOK, [Next]_vars, NEW r \in Ride, ride[r].state \in TerminalState
               PROVE  ride'[r] = ride[r]
    OBVIOUS
  <2> USE DEF TypeOK, TerminalState
  <2>1. CASE \E k \in Round : Open(k) \/ Close(k) \/ Skip(k)
    BY <2>1 DEF Open, Close, Skip, Undecided
  <2>2. CASE \E m \in Match : Start(m)
    BY <2>2 DEF Start
  <2>3. CASE \E q \in Ride, m \in Match, t \in Team : Create(q, m, t)
    BY <2>3 DEF Create
  <2>4. CASE \E m \in Match, winner \in Team \cup {NoTeam} :
                \/ \E settled \in SUBSET LockedOn(m) : Resolve(m, winner, settled)
                \/ Correct(m, winner)
    BY <2>4 DEF Resolve, Correct, LockedOn
  <2>5. CASE \E q \in Ride : \E decided \in Decisions(ride[q]) : Decide(q, decided)
    BY <2>5 DEF Decide
  <2>6. CASE UNCHANGED vars
    BY <2>6 DEF vars
  <2> QED BY <2>1, <2>2, <2>3, <2>4, <2>5, <2>6 DEF Next
<1> QED BY <1>1, TypeCorrect, PTL DEF Spec, TerminalStaysTerminal
=============================================================================
