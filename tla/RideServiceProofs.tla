-------------------------- MODULE RideServiceProofs --------------------------
(***************************************************************************)
(* RideService implements RideRules, for every schedule, any number of     *)
(* rides and any number of requests in flight; and the safety properties   *)
(* of its runs.                                                            *)
(*                                                                         *)
(* The argument.  What a request has written and not committed is a        *)
(* successor of the committed row (Written), and stays one, because nobody *)
(* else writes a row that is held (Apart).  What a request has read is     *)
(* either still true or betrayed by a version (ReadRide, ReadMatch).  A    *)
(* round that has been flipped and not committed is still the next one and *)
(* every undecided ride of it is held by the closing transaction           *)
(* (ReadRound): nothing undecided can appear in it any more, because its   *)
(* matches are closed.  With that every commit is a step of RideRules and  *)
(* every other step changes nothing RideRules can see.                     *)
(*                                                                         *)
(* Two more invariants stand on it: Punctual, which says why a creation    *)
(* can do without a lock on its match, and Sweeps, which says why waiting  *)
(* requests are never all waiting for each other.                          *)
(***************************************************************************)
EXTENDS RideService, FiniteSetTheorems, WellFoundedInduction, TLAPS

-----------------------------------------------------------------------------
(* What is true of a request by itself *)

Player == Decision \cup {"create"}

ShapeByStep(q) ==
    /\ q.pc = "idle"     => q = Idle
    /\ q.pc = "phase"    => q.cmd \in Player
    /\ q.pc = "next"     => q.cmd = "lock"
    /\ q.pc = "snapshot" => q.cmd \in Player
    /\ q.pc = "write"    => q.cmd \in Decision \cup {"resolve"}
    /\ q.pc = "settle"   => q.cmd = "resolve"
    /\ q.pc = "sweep"    => q.cmd = "close"
    /\ q.pc = "commit"   => q.cmd \in Command

ShapeByCommand(q) ==
    /\ q.cmd = "none"      => q.pc = "idle"
    /\ q.cmd \in Player    => q.row \in Ride /\ q.seen.match \in Match /\ q.pc # "sweep"
    /\ q.cmd = "create"    => q.seen.team \in Team
    /\ q.cmd \in Decision  => q.seen.state = "won_pending"
    /\ q.cmd = "lock" /\ q.pc \in {"snapshot", "write", "commit"} => q.match \in Match
    /\ q.cmd = "resolve"   => q.match \in Match /\ q.pc \in {"write", "settle", "commit"}
    /\ q.cmd = "close"     => /\ q.pc \in {"sweep", "commit"}
                              /\ \A e \in q.todo : e[2] \in Match /\ RoundOf[e[2]] = q.round

Shape(q) == ShapeByStep(q) /\ ShapeByCommand(q)

-----------------------------------------------------------------------------
(* What a request has written *)

Has(p, r) == p[r].state # "absent"

Wrote(q, r, new) ==
    \/ /\ q.cmd = "create" /\ q.pc = "commit" /\ r = q.row
       /\ ride[r].state = "absent"
       /\ new = CreatedRide(q.seen.match, q.seen.team)
    \/ /\ q.cmd \in Decision /\ q.pc = "commit" /\ r = q.row
       /\ ride[r].state = "won_pending"
       /\ new \in Rules!Decisions(ride[r])
    \/ /\ q.cmd = "resolve" /\ q.pc = "commit"
       /\ ride[r].state = "locked" /\ ride[r].match = q.match
       /\ new = SettledBy(ride[r], q.winner)
    \/ /\ q.cmd = "close"
       /\ ride[r].state = "won_pending" /\ RoundOf[ride[r].match] = q.round
       /\ new = AutoResolved(ride[r], q.round)

Written(q, p) == \A r \in Ride : Has(p, r) => Wrote(q, r, p[r])

-----------------------------------------------------------------------------
(* What a request has read, as far as it can rely on it *)

HoldsMatch(q) == q.cmd = "resolve" /\ q.pc \in {"settle", "commit"}
Flipped(q)    == q.cmd = "close" /\ q.pc = "commit"
Shares(q)     == q.cmd = "create" /\ q.pc = "commit"

ReadRide(q) ==
    /\ q.cmd = "create" => ride[q.row].state = "absent"
    /\ q.cmd \in Decision =>
         /\ q.seen.version <= ride[q.row].version
         /\ q.seen.version = ride[q.row].version => q.seen = ride[q.row]

ReadMatch(q) == q.cmd = "resolve" =>
    /\ round[RoundOf[q.match]] # "created"
    /\ q.version <= match[q.match].version
    /\ q.version = match[q.match].version => match[q.match].startsAt < q.at
    /\ HoldsMatch(q) => match[q.match].status = "in_progress" /\ match[q.match].version = q.version

ReadRound(q, p) ==
    /\ Shares(q)  => round[RoundOf[q.seen.match]] = "open"
    /\ Flipped(q) => /\ round[q.round] = "open"
                     /\ NextInSequence(q.round)
                     /\ \A m \in MatchesOf(q.round) : match[m].status = "closed"
                     /\ \A r \in UndecidedIn(q.round) : Has(p, r)

-----------------------------------------------------------------------------
(* What two requests never have together *)

Apart(q, p, q2, p2) ==
    /\ \A r \in Ride : ~(Has(p, r) /\ Has(p2, r))
    /\ q.cmd = "create" /\ q2.cmd = "create" => q.row # q2.row
    /\ HoldsMatch(q) /\ HoldsMatch(q2) => q.match # q2.match
    /\ Flipped(q) /\ Flipped(q2) => q.round # q2.round
    /\ Flipped(q) /\ Shares(q2) => q.round # RoundOf[q2.seen.match]
    /\ Shares(q) /\ Flipped(q2) => q2.round # RoundOf[q.seen.match]

Fine(q, p) == Shape(q) /\ Written(q, p) /\ ReadRide(q) /\ ReadMatch(q) /\ ReadRound(q, p)

Requests == \A s \in Session : Fine(sess[s], pend[s])

Exclusion == \A s \in Session, o \in Session :
    s # o => Apart(sess[s], pend[s], sess[o], pend[o])

-----------------------------------------------------------------------------
(* What is true of the tables *)

RidesHaveMatches == \A r \in Ride :
    IF ride[r].state = "absent" THEN ride[r].version = 0 ELSE ride[r].match \in Match

ClosedHasEnded == \A m \in Match : match[m].status = "closed" <=> match[m].endedAt # NotEnded

ClosedRoundIsOver ==
    \A k \in Round : round[k] = "closed" => \A m \in MatchesOf(k) : match[m].status = "closed"

Tables == /\ RidesHaveMatches
          /\ ClosedHasEnded
          /\ ClosedRoundIsOver
          /\ ClosedRoundIsDecided
          /\ EndsAfterStart

IInv == TypeOK /\ Tables /\ Requests /\ Exclusion

-----------------------------------------------------------------------------
(* Rows *)

LEMMA RowsOfTheRules ==
  /\ Rules!AbsentRide = AbsentRide
  /\ \A m, t : Rules!CreatedRide(m, t) = CreatedRide(m, t)
  /\ \A row, m : Rules!LockedOnto(row, m) = LockedOnto(row, m)
  /\ \A row, st : Rules!EndedAs(row, st) = EndedAs(row, st)
  /\ \A row, w : Rules!SettledBy(row, w) = SettledBy(row, w)
  /\ \A row, k : Rules!AutoResolved(row, k) = AutoResolved(row, k)
  /\ \A k : Rules!MatchesOf(k) = MatchesOf(k)
  /\ Rules!Round = Round
  /\ Rules!RideRow = RideRow
  BY DEF Rules!AbsentRide, AbsentRide, Rules!CreatedRide, CreatedRide, Rules!LockedOnto, LockedOnto,
         Rules!EndedAs, EndedAs, Rules!SettledBy, SettledBy, Rules!AutoResolved, AutoResolved,
         Rules!MatchesOf, MatchesOf, Rules!Round, Round, Rules!RideRow, RideRow, Rules!RideState, RideState,
         Rules!LiveState, LiveState, Rules!TerminalState, TerminalState

LEMMA EndedAsRow ==
  ASSUME NEW row \in RideRow, NEW st \in RideState
  PROVE  /\ EndedAs(row, st) \in RideRow
         /\ EndedAs(row, st).state = st
         /\ EndedAs(row, st).match = row.match
         /\ EndedAs(row, st).team = row.team
         /\ EndedAs(row, st).version = row.version + 1
  <1>1. row.version + 1 \in Nat
    BY DEF RideRow
  <1> QED BY <1>1 DEF EndedAs, RideRow

LEMMA LockedOntoRow ==
  ASSUME NEW row \in RideRow, NEW m \in Match
  PROVE  /\ LockedOnto(row, m) \in RideRow
         /\ LockedOnto(row, m).state = "locked"
         /\ LockedOnto(row, m).match = m
         /\ LockedOnto(row, m).version = row.version + 1
  <1>1. row.version + 1 \in Nat /\ row.streak + 1 \in Nat
    BY DEF RideRow
  <1> QED BY <1>1 DEF LockedOnto, RideRow, RideState, LiveState

LEMMA CreatedRow ==
  ASSUME NEW m \in Match, NEW t \in Team
  PROVE  /\ CreatedRide(m, t) \in RideRow
         /\ CreatedRide(m, t).state = "locked"
         /\ CreatedRide(m, t).match = m
         /\ CreatedRide(m, t).version = 1
  BY DEF CreatedRide, RideRow, RideState, LiveState

LEMMA SettledRow ==
  ASSUME NEW row \in RideRow, NEW winner
  PROVE  /\ SettledBy(row, winner) = EndedAs(row, IF row.team = winner THEN "won_pending" ELSE "lost")
         /\ SettledBy(row, winner) \in RideRow
         /\ SettledBy(row, winner).state = IF row.team = winner THEN "won_pending" ELSE "lost"
         /\ SettledBy(row, winner).match = row.match
         /\ SettledBy(row, winner).team = row.team
         /\ SettledBy(row, winner).version = row.version + 1
  <1>1. SettledBy(row, winner) = EndedAs(row, IF row.team = winner THEN "won_pending" ELSE "lost")
    BY DEF SettledBy, EndedAs
  <1>2. (IF row.team = winner THEN "won_pending" ELSE "lost") \in RideState
    BY DEF RideState, LiveState, TerminalState
  <1> QED BY <1>1, <1>2, EndedAsRow

LEMMA AutoResolvedRow ==
  ASSUME NEW row \in RideRow, NEW k
  PROVE  /\ AutoResolved(row, k) = EndedAs(row, IF k = LastRound THEN "burned" ELSE "unlocked")
         /\ AutoResolved(row, k) \in RideRow
         /\ AutoResolved(row, k).state \in {"burned", "unlocked"}
         /\ AutoResolved(row, k).match = row.match
         /\ AutoResolved(row, k).version = row.version + 1
  <1>1. (IF k = LastRound THEN "burned" ELSE "unlocked") \in {"burned", "unlocked"}
    OBVIOUS
  <1>2. {"burned", "unlocked"} \subseteq RideState
    BY DEF RideState, TerminalState
  <1> QED BY <1>1, <1>2, EndedAsRow DEF AutoResolved

LEMMA DecidedRow ==
  ASSUME NEW row \in RideRow, NEW new \in Rules!Decisions(row)
  PROVE  /\ new \in RideRow
         /\ new.state \in {"locked", "burned", "unlocked"}
         /\ new.match \in Match \/ new.match = row.match
         /\ new.match # row.match => new.state = "locked"
         /\ new.version = row.version + 1
         /\ \/ \E m \in Match : new = LockedOnto(row, m)
            \/ \E st \in {"burned", "unlocked"} : new = EndedAs(row, st)
  <1>1. \/ \E m \in Match : new = LockedOnto(row, m)
        \/ \E st \in {"burned", "unlocked"} : new = EndedAs(row, st)
    BY RowsOfTheRules DEF Rules!Decisions
  <1>2. {"burned", "unlocked"} \subseteq RideState
    BY DEF RideState, TerminalState
  <1> QED BY <1>1, <1>2, EndedAsRow, LockedOntoRow

LEMMA RoundOfMatch == \A m \in Match : RoundOf[m] \in Round
  BY ScheduleAssumption DEF ScheduleAssumption, Round

-----------------------------------------------------------------------------
(* The initial state *)

LEMMA AbsentIsRow == AbsentRide \in RideRow /\ AbsentRide.state = "absent" /\ AbsentRide.match = NoMatch
  BY DEF AbsentRide, RideRow

LEMMA NothingPending == NoPending \in [Ride -> RideRow] /\ \A r \in Ride : ~Has(NoPending, r)
  BY AbsentIsRow DEF NoPending, Has

LEMMA IdleIsFine ==
  /\ Idle \in SessionState /\ Fine(Idle, NoPending)
  /\ Idle.cmd = "none" /\ Idle.pc = "idle" /\ ~HoldsMatch(Idle) /\ ~Flipped(Idle) /\ ~Shares(Idle)
  <1>1. Idle.cmd = "none" /\ Idle.pc = "idle"
    BY DEF Idle
  <1>2. ~HoldsMatch(Idle) /\ ~Flipped(Idle) /\ ~Shares(Idle)
    BY <1>1 DEF HoldsMatch, Flipped, Shares
  <1>3. Shape(Idle)
    BY <1>1 DEF Shape, ShapeByStep, ShapeByCommand, Player, Decision
  <1>4. Fine(Idle, NoPending)
    BY <1>1, <1>2, <1>3, NothingPending DEF Fine, Written, ReadRide, ReadMatch, ReadRound, Decision
  <1>5. 1 \in Round
    BY ScheduleAssumption DEF ScheduleAssumption, Round
  <1>6. Idle \in SessionState
    BY <1>5, AbsentIsRow DEF Idle, SessionState, Command
  <1> QED BY <1>1, <1>2, <1>4, <1>6

LEMMA InitSatisfiesIInv == Init => IInv
  <1> SUFFICES ASSUME Init PROVE IInv
    OBVIOUS
  <1>1. \A s \in Session : sess[s] = Idle /\ pend[s] = NoPending
    BY DEF Init
  <1>2. \A m \in Match : NewMatch(m) \in MatchRow
    BY ScheduleAssumption DEF NewMatch, MatchRow, ScheduleAssumption
  <1>3. TypeOK
    BY <1>2, AbsentIsRow, NothingPending, IdleIsFine DEF Init, TypeOK
  <1>4. \A r \in Ride : ride[r].state = "absent" /\ ride[r].version = 0
    BY DEF Init, AbsentRide
  <1>5. \A m \in Match : match[m].status = "created" /\ match[m].endedAt = NotEnded
    BY DEF Init, NewMatch
  <1>6. \A k \in Round : round[k] = "created"
    BY DEF Init
  <1>7. Tables
    BY <1>4, <1>5, <1>6 DEF Tables, RidesHaveMatches, ClosedHasEnded, ClosedRoundIsOver,
       ClosedRoundIsDecided, EndsAfterStart
  <1>8. Requests
    BY <1>1, IdleIsFine DEF Requests
  <1>9. Exclusion
    BY <1>1, IdleIsFine, NothingPending DEF Exclusion, Apart
  <1> QED BY <1>3, <1>7, <1>8, <1>9 DEF IInv

-----------------------------------------------------------------------------
(* A step of one request that commits nothing *)

MayBecome(s, q, p) ==
    /\ q \in SessionState
    /\ p \in [Ride -> RideRow]
    /\ Fine(q, p)
    /\ \A o \in Session \ {s} : Apart(q, p, sess[o], pend[o])

LEMMA ApartIsMutual ==
  ASSUME NEW q, NEW p, NEW q2, NEW p2, Apart(q, p, q2, p2)
  PROVE  Apart(q2, p2, q, p)
  BY DEF Apart

LEMMA SessionStep ==
  ASSUME IInv, NEW s \in Session, NEW q, NEW p, MayBecome(s, q, p),
         sess' = [sess EXCEPT ![s] = q], pend' = [pend EXCEPT ![s] = p], AllFree
  PROVE  IInv'
  <1>1. sess \in [Session -> SessionState] /\ pend \in [Session -> [Ride -> RideRow]]
    BY DEF IInv, TypeOK
  <1>2. sess'[s] = q /\ pend'[s] = p /\ \A o \in Session \ {s} : sess'[o] = sess[o] /\ pend'[o] = pend[o]
    BY <1>1
  <1>3. UNCHANGED <<now, ride, match, round>>
    BY DEF AllFree
  <1>4. TypeOK'
    BY <1>1, <1>3 DEF IInv, TypeOK, MayBecome
  <1>5. Tables'
    BY <1>3 DEF IInv, Tables, RidesHaveMatches, ClosedHasEnded, ClosedRoundIsOver, ClosedRoundIsDecided,
       EndsAfterStart
  <1>6. \A k : UndecidedIn(k)' = UndecidedIn(k) /\ (NextInSequence(k)' <=> NextInSequence(k))
    BY <1>3 DEF UndecidedIn, NextInSequence
  <1>7. Fine(q, p) /\ \A o \in Session \ {s} : Fine(sess[o], pend[o])
    BY DEF MayBecome, IInv, Requests
  <1>8. ASSUME NEW o \in Session PROVE Fine(sess[o], pend[o])'
    <2>1. Fine(sess'[o], pend'[o])
      BY <1>2, <1>7
    <2> QED BY <1>3, <1>6, <2>1 DEF Fine, Written, Wrote, ReadRide, ReadMatch, ReadRound
  <1>9. Requests'
    BY <1>8 DEF Requests
  <1>10. Exclusion'
    <2> SUFFICES ASSUME NEW o \in Session, NEW o2 \in Session, o # o2
                 PROVE  Apart(sess'[o], pend'[o], sess'[o2], pend'[o2])
      BY DEF Exclusion
    <2>1. CASE o = s
      BY <1>2, <2>1 DEF MayBecome
    <2>2. CASE o2 = s
      BY <1>2, <2>2, ApartIsMutual DEF MayBecome
    <2>3. CASE o # s /\ o2 # s
      BY <1>2, <2>3 DEF IInv, Exclusion
    <2> QED BY <2>1, <2>2, <2>3
  <1> QED BY <1>4, <1>5, <1>9, <1>10 DEF IInv

LEMMA EndStep ==
  ASSUME IInv, NEW s \in Session, End(s)
  PROVE  IInv'
  <1>1. MayBecome(s, Idle, NoPending)
    BY IdleIsFine, NothingPending DEF MayBecome, Apart
  <1> QED BY <1>1, SessionStep DEF End

LEMMA Fields ==
  ASSUME IInv, NEW s \in Session
  PROVE  /\ sess[s] \in SessionState /\ pend[s] \in [Ride -> RideRow]
         /\ Fine(sess[s], pend[s]) /\ Shape(sess[s])
         /\ sess \in [Session -> SessionState] /\ pend \in [Session -> [Ride -> RideRow]]
         /\ ride \in [Ride -> RideRow] /\ match \in [Match -> MatchRow] /\ now \in Nat
         /\ round \in [Round -> {"created", "open", "closed"}]
  BY DEF IInv, TypeOK, Requests, Fine

LEMMA NothingWritten ==
  ASSUME IInv, NEW s \in Session, sess[s].pc \notin {"commit", "sweep"}
  PROVE  \A r \in Ride : ~Has(pend[s], r)
  BY Fields DEF Fine, Written, Wrote, Shape, ShapeByCommand, Player

\* A request that has written nothing reads, or goes on without writing.
LEMMA QuietStep ==
  ASSUME IInv, NEW s \in Session, NEW q \in SessionState,
         Shape(q), ReadRide(q), ReadMatch(q), q.pc \notin {"settle", "commit"},
         sess[s].pc \notin {"commit", "sweep"},
         q.cmd = "create" =>
             \A o \in Session \ {s} : sess[o].cmd = "create" => sess[o].row # q.row,
         sess' = [sess EXCEPT ![s] = q], UNCHANGED pend, AllFree
  PROVE  IInv'
  <1>1. \A r \in Ride : ~Has(pend[s], r)
    BY NothingWritten
  <1>2. ~HoldsMatch(q) /\ ~Flipped(q) /\ ~Shares(q)
    BY DEF HoldsMatch, Flipped, Shares
  <1>3. Fine(q, pend[s])
    BY <1>1, <1>2 DEF Fine, Written, ReadRound
  <1>4. \A o \in Session \ {s} : Apart(q, pend[s], sess[o], pend[o])
    BY <1>1, <1>2 DEF Apart
  <1>5. MayBecome(s, q, pend[s])
    BY <1>3, <1>4, Fields DEF MayBecome
  <1>6. pend' = [pend EXCEPT ![s] = pend[s]]
    BY Fields
  <1> QED BY <1>5, <1>6, SessionStep

LEMMA BeginCreateStep ==
  ASSUME IInv, NEW s \in Session, NEW r \in Ride, NEW m \in Match, NEW t \in Team, BeginCreate(s, r, m, t)
  PROVE  IInv'
  <1>1. PICK seen : seen = [AbsentRide EXCEPT !.match = m, !.team = t]
    OBVIOUS
  <1>2. seen \in RideRow /\ seen.match = m /\ seen.team = t
    BY <1>1 DEF AbsentRide, RideRow
  <1>3. PICK q : q = [Idle EXCEPT !.cmd = "create", !.pc = "phase", !.row = r, !.seen = seen]
    OBVIOUS
  <1>4. q.cmd = "create" /\ q.pc = "phase" /\ q.row = r /\ q.seen = seen
    BY <1>3 DEF Idle
  <1>5. q \in SessionState
    BY <1>2, <1>3, IdleIsFine DEF Idle, SessionState, Command
  <1>6. Shape(q)
    BY <1>2, <1>4 DEF Shape, ShapeByStep, ShapeByCommand, Player, Decision
  <1>7. ReadRide(q) /\ ReadMatch(q)
    BY <1>4 DEF ReadRide, ReadMatch, Decision, BeginCreate
  <1>8. \A o \in Session \ {s} : sess[o].cmd = "create" => sess[o].row # q.row
    BY <1>4 DEF BeginCreate
  <1>9. sess' = [sess EXCEPT ![s] = q] /\ UNCHANGED pend /\ AllFree /\ sess[s].pc = "idle"
    BY <1>1, <1>3 DEF BeginCreate
  <1> QED BY <1>4, <1>5, <1>6, <1>7, <1>8, <1>9, QuietStep

LEMMA BeginDecisionStep ==
  ASSUME IInv, NEW s \in Session, NEW r \in Ride, NEW cmd \in Decision, BeginDecision(s, r, cmd)
  PROVE  IInv'
  <1>1. ride[r] \in RideRow /\ ride[r].state = "won_pending" /\ ride[r].match \in Match
    BY Fields DEF BeginDecision, IInv, Tables, RidesHaveMatches
  <1>2. PICK q : q = [Idle EXCEPT !.cmd = cmd, !.pc = "phase", !.row = r, !.seen = ride[r]]
    OBVIOUS
  <1>3. q.cmd = cmd /\ q.pc = "phase" /\ q.row = r /\ q.seen = ride[r]
    BY <1>2 DEF Idle
  <1>4. q \in SessionState
    BY <1>1, <1>2, IdleIsFine DEF Idle, SessionState, Command, Decision
  <1>5. Shape(q)
    BY <1>1, <1>3 DEF Shape, ShapeByStep, ShapeByCommand, Player, Decision
  <1>6. ReadRide(q) /\ ReadMatch(q)
    BY <1>1, <1>3 DEF ReadRide, ReadMatch, Decision, RideRow
  <1>7. sess' = [sess EXCEPT ![s] = q] /\ UNCHANGED pend /\ AllFree /\ sess[s].pc = "idle"
    BY <1>2 DEF BeginDecision
  <1> QED BY <1>3, <1>4, <1>5, <1>6, <1>7, QuietStep DEF Decision

LEMMA BeginResolveStep ==
  ASSUME IInv, NEW s \in Session, NEW m \in Match, NEW winner \in Team \cup {NoTeam}, BeginResolve(s, m, winner)
  PROVE  IInv'
  <1>1. match[m] \in MatchRow /\ now \in Nat
    BY Fields
  <1>2. PICK q : q = [Idle EXCEPT !.cmd = "resolve", !.pc = "write", !.match = m,
                                  !.winner = winner, !.version = match[m].version, !.at = now]
    OBVIOUS
  <1>3. /\ q.cmd = "resolve" /\ q.pc = "write" /\ q.match = m /\ q.winner = winner
        /\ q.version = match[m].version /\ q.at = now
    BY <1>2 DEF Idle
  <1>4. q \in SessionState
    BY <1>1, <1>2, IdleIsFine DEF Idle, SessionState, Command, MatchRow
  <1>5. Shape(q)
    BY <1>3 DEF Shape, ShapeByStep, ShapeByCommand, Player, Decision
  <1>6. ReadRide(q) /\ ReadMatch(q)
    BY <1>1, <1>3 DEF ReadRide, ReadMatch, Decision, MatchRow, BeginResolve, HoldsMatch
  <1>7. sess' = [sess EXCEPT ![s] = q] /\ UNCHANGED pend /\ AllFree /\ sess[s].pc = "idle"
    BY <1>2 DEF BeginResolve
  <1> QED BY <1>3, <1>4, <1>5, <1>6, <1>7, QuietStep

LEMMA BeginCloseStep ==
  ASSUME IInv, NEW s \in Session, NEW k \in Round, BeginClose(s, k)
  PROVE  IInv'
  <1>1. PICK todo : todo = {<<r, ride[r].match>> : r \in UndecidedIn(k)}
    OBVIOUS
  <1>2. \A r \in UndecidedIn(k) : r \in Ride /\ ride[r].match \in Match /\ RoundOf[ride[r].match] = k
    BY DEF UndecidedIn, IInv, Tables, RidesHaveMatches
  <1>3. todo \in SUBSET (Ride \X Match) /\ \A e \in todo : e[2] \in Match /\ RoundOf[e[2]] = k
    BY <1>1, <1>2
  <1>4. PICK q : q = [Idle EXCEPT !.cmd = "close", !.pc = "sweep", !.round = k, !.todo = todo]
    OBVIOUS
  <1>5. q.cmd = "close" /\ q.pc = "sweep" /\ q.round = k /\ q.todo = todo
    BY <1>4 DEF Idle
  <1>6. q \in SessionState
    BY <1>3, <1>4, IdleIsFine DEF Idle, SessionState, Command
  <1>7. Shape(q)
    BY <1>3, <1>5 DEF Shape, ShapeByStep, ShapeByCommand, Player, Decision
  <1>8. ReadRide(q) /\ ReadMatch(q)
    BY <1>5 DEF ReadRide, ReadMatch, Decision
  <1>9. sess' = [sess EXCEPT ![s] = q] /\ UNCHANGED pend /\ AllFree /\ sess[s].pc = "idle"
    BY <1>1, <1>4 DEF BeginClose
  <1> QED BY <1>5, <1>6, <1>7, <1>8, <1>9, QuietStep

-----------------------------------------------------------------------------
(* Reads and snapshots *)

\* The record of a request that only goes on to its next step.
LEMMA GotoRecord ==
  ASSUME IInv, NEW s \in Session, NEW pc \in {"phase", "next", "snapshot", "write", "settle", "commit"},
         NEW q, q = [sess[s] EXCEPT !.pc = pc]
  PROVE  /\ q \in SessionState /\ q.pc = pc
         /\ q.cmd = sess[s].cmd /\ q.row = sess[s].row /\ q.seen = sess[s].seen /\ q.match = sess[s].match
         /\ q.winner = sess[s].winner /\ q.round = sess[s].round /\ q.version = sess[s].version
         /\ q.at = sess[s].at /\ q.todo = sess[s].todo
         /\ Goto(s, pc) => sess' = [sess EXCEPT ![s] = q]
  BY Fields DEF SessionState, Goto

LEMMA CreateRowsDiffer ==
  ASSUME IInv, NEW s \in Session, sess[s].cmd = "create"
  PROVE  \A o \in Session \ {s} : sess[o].cmd = "create" => sess[o].row # sess[s].row
  BY DEF IInv, Exclusion, Apart

LEMMA ReadPhaseStep ==
  ASSUME IInv, NEW s \in Session, ReadPhase(s)
  PROVE  IInv'
  <1>1. CASE End(s)
    BY <1>1, EndStep
  <1>2. ASSUME NEW pc \in {"next", "snapshot"}, pc = "next" => sess[s].cmd = "lock",
               pc = "snapshot" => sess[s].cmd # "lock",
               Goto(s, pc), UNCHANGED pend, AllFree
        PROVE  IInv'
    <2>1. PICK q : q = [sess[s] EXCEPT !.pc = pc]
      OBVIOUS
    <2>2. /\ q \in SessionState /\ q.pc = pc /\ q.cmd = sess[s].cmd /\ q.row = sess[s].row
          /\ q.seen = sess[s].seen /\ q.match = sess[s].match /\ sess' = [sess EXCEPT ![s] = q]
      BY <1>2, <2>1, GotoRecord
    <2>3. sess[s].cmd \in Player /\ sess[s].pc = "phase"
      BY Fields DEF ReadPhase, Shape, ShapeByStep
    <2>4. Shape(q)
      BY <1>2, <2>2, <2>3, Fields DEF Shape, ShapeByStep, ShapeByCommand, Player, Decision
    <2>5. ReadRide(q) /\ ReadMatch(q)
      BY <2>2, <2>3, Fields DEF ReadRide, ReadMatch, Fine, Player, Decision
    <2> QED BY <1>2, <2>2, <2>3, <2>4, <2>5, CreateRowsDiffer, QuietStep
  <1>3. PICK pc : pc = IF sess[s].cmd = "lock" THEN "next" ELSE "snapshot"
    OBVIOUS
  <1>4. End(s) \/ (Goto(s, pc) /\ UNCHANGED pend /\ AllFree)
    BY <1>3 DEF ReadPhase, StepOrEnd
  <1> QED BY <1>1, <1>2, <1>3, <1>4

LEMMA NextForTeamStep ==
  ASSUME IInv, NEW s \in Session, NextForTeam(s)
  PROVE  IInv'
  <1>1. CASE End(s)
    BY <1>1, EndStep
  <1>2. ASSUME NEW m \in Match, sess' = [sess EXCEPT ![s].match = m, ![s].pc = "snapshot"], UNCHANGED pend, AllFree
        PROVE  IInv'
    <2>1. PICK q : q = [sess[s] EXCEPT !.match = m, !.pc = "snapshot"]
      OBVIOUS
    <2>2. /\ q \in SessionState /\ q.pc = "snapshot" /\ q.cmd = sess[s].cmd /\ q.row = sess[s].row
          /\ q.seen = sess[s].seen /\ q.match = m /\ sess' = [sess EXCEPT ![s] = q]
      <3>1. sess[s] \in SessionState /\ sess \in [Session -> SessionState]
        BY Fields
      <3>2. q \in SessionState /\ q.pc = "snapshot" /\ q.match = m
        BY <2>1, <3>1 DEF SessionState
      <3>3. q.cmd = sess[s].cmd /\ q.row = sess[s].row /\ q.seen = sess[s].seen
        BY <2>1, <3>1 DEF SessionState
      <3> QED BY <1>2, <2>1, <3>1, <3>2, <3>3
    <2>3. sess[s].cmd = "lock" /\ sess[s].pc = "next"
      BY Fields DEF NextForTeam, Shape, ShapeByStep
    <2>4. Shape(q)
      BY <2>2, <2>3, Fields DEF Shape, ShapeByStep, ShapeByCommand, Player, Decision
    <2>5. ReadRide(q) /\ ReadMatch(q)
      BY <2>2, <2>3, Fields DEF ReadRide, ReadMatch, Fine, Decision
    <2> QED BY <1>2, <2>2, <2>3, <2>4, <2>5, QuietStep
  <1> QED BY <1>1, <1>2 DEF NextForTeam, Upcoming

LEMMA SnapshotGuardedStep ==
  ASSUME IInv, NEW s \in Session, SnapshotGuarded(s)
  PROVE  IInv'
  <1>1. CASE End(s)
    BY <1>1, EndStep
  <1>2. CASE Goto(s, "write") /\ UNCHANGED pend /\ AllFree
    <2>1. PICK q : q = [sess[s] EXCEPT !.pc = "write"]
      OBVIOUS
    <2>2. /\ q \in SessionState /\ q.pc = "write" /\ q.cmd = sess[s].cmd /\ q.row = sess[s].row
          /\ q.seen = sess[s].seen /\ q.match = sess[s].match /\ sess' = [sess EXCEPT ![s] = q]
      BY <1>2, <2>1, GotoRecord
    <2>3. sess[s].cmd \in Decision /\ sess[s].pc = "snapshot"
      BY DEF SnapshotGuarded
    <2>4. Shape(q)
      BY <2>2, <2>3, Fields DEF Shape, ShapeByStep, ShapeByCommand, Player, Decision
    <2>5. ReadRide(q) /\ ReadMatch(q)
      BY <2>2, <2>3, Fields DEF ReadRide, ReadMatch, Fine, Decision
    <2> QED BY <1>2, <2>2, <2>3, <2>4, <2>5, QuietStep DEF Decision
  <1> QED BY <1>1, <1>2 DEF SnapshotGuarded, StepOrEnd

-----------------------------------------------------------------------------
(* Writes *)

LEMMA OneRowWritten ==
  ASSUME NEW p \in [Ride -> RideRow], NEW r \in Ride, NEW new \in RideRow, NEW p2, p2 = [p EXCEPT ![r] = new]
  PROVE  /\ p2 \in [Ride -> RideRow] /\ p2[r] = new
         /\ \A r2 \in Ride \ {r} : p2[r2] = p[r2]
  OBVIOUS

\* A row nobody else holds.
LEMMA FreeMeans ==
  ASSUME NEW s \in Session, NEW r \in Ride, RideFree(s, r)
  PROVE  \A o \in Session \ {s} : ~Has(pend[o], r)
  BY DEF RideFree, Holds, Has

LEMMA InsertGuardedStep ==
  ASSUME IInv, NEW s \in Session, InsertGuarded(s)
  PROVE  IInv'
  <1>1. CASE End(s)
    BY <1>1, EndStep
  <1>2. ASSUME round[RoundOf[sess[s].seen.match]] = "open",
               pend' = [pend EXCEPT ![s][sess[s].row] = CreatedRide(sess[s].seen.match, sess[s].seen.team)],
               Goto(s, "commit"), AllFree
        PROVE  IInv'
    <2>1. PICK q : q = [sess[s] EXCEPT !.pc = "commit"]
      OBVIOUS
    <2>2. /\ q \in SessionState /\ q.pc = "commit" /\ q.cmd = sess[s].cmd /\ q.row = sess[s].row
          /\ q.seen = sess[s].seen /\ q.match = sess[s].match /\ sess' = [sess EXCEPT ![s] = q]
      BY <1>2, <2>1, GotoRecord
    <2>3. sess[s].cmd = "create" /\ sess[s].pc = "snapshot"
      BY DEF InsertGuarded
    <2>4. q.row \in Ride /\ q.seen.match \in Match /\ q.seen.team \in Team
      BY <2>2, <2>3, Fields DEF Shape, ShapeByCommand, Player
    <2>5. PICK new : new = CreatedRide(q.seen.match, q.seen.team)
      OBVIOUS
    <2>6. new \in RideRow
      BY <2>4, <2>5, CreatedRow
    <2>7. PICK p : p = [pend[s] EXCEPT ![q.row] = new]
      OBVIOUS
    <2>8. p \in [Ride -> RideRow] /\ p[q.row] = new /\ \A r \in Ride \ {q.row} : p[r] = pend[s][r]
      BY <2>4, <2>6, <2>7, Fields, OneRowWritten
    <2>9. \A r \in Ride : Has(p, r) => r = q.row
      BY <2>3, <2>8, NothingWritten DEF Has
    <2>10. ride[q.row].state = "absent"
      BY <2>2, <2>3, Fields DEF Fine, ReadRide
    <2>11. Shape(q)
      BY <2>2, <2>3, <2>4 DEF Shape, ShapeByStep, ShapeByCommand, Player, Decision, Command
    <2>12. Written(q, p)
      BY <2>2, <2>3, <2>5, <2>8, <2>9, <2>10 DEF Written, Wrote
    <2>13. ReadRide(q) /\ ReadMatch(q) /\ ReadRound(q, p)
      BY <1>2, <2>2, <2>3, <2>10 DEF ReadRide, ReadMatch, ReadRound, Flipped, Decision
    <2>14. Fine(q, p)
      BY <2>11, <2>12, <2>13 DEF Fine
    <2>15. ~HoldsMatch(q) /\ ~Flipped(q)
      BY <2>2, <2>3 DEF HoldsMatch, Flipped
    <2>16. \A o \in Session \ {s} : Apart(q, p, sess[o], pend[o])
      <3> SUFFICES ASSUME NEW o \in Session \ {s} PROVE Apart(q, p, sess[o], pend[o])
        OBVIOUS
      <3>1. ~Has(pend[o], q.row)
        <4> SUFFICES ASSUME Has(pend[o], q.row) PROVE FALSE
          OBVIOUS
        <4>1. Wrote(sess[o], q.row, pend[o][q.row])
          BY <2>4, Fields DEF Fine, Written
        <4>2. sess[o].cmd = "create" /\ sess[o].row = q.row
          BY <2>10, <4>1 DEF Wrote
        <4> QED BY <2>2, <2>3, <4>2, CreateRowsDiffer
      <3>2. sess[o].cmd = "create" => sess[o].row # q.row
        BY <2>2, <2>3, CreateRowsDiffer
      <3>3. Flipped(sess[o]) => sess[o].round # RoundOf[q.seen.match]
        BY <2>2 DEF InsertGuarded, FlippedBy, Flipped
      <3> QED BY <2>9, <2>15, <3>1, <3>2, <3>3 DEF Apart
    <2>17. MayBecome(s, q, p)
      BY <2>2, <2>8, <2>14, <2>16 DEF MayBecome
    <2>18. pend' = [pend EXCEPT ![s] = p]
      BY <1>2, <2>2, <2>5, <2>7, Fields
    <2> QED BY <1>2, <2>2, <2>17, <2>18, SessionStep
  <1> QED BY <1>1, <1>2 DEF InsertGuarded

\* The WHERE pins the version, so that the row written is the successor of the
\* row read.
LEMMA DecidedIsADecision ==
  ASSUME IInv, NEW s \in Session, sess[s].cmd \in Decision, sess[s].pc = "write", RowUnchanged(s)
  PROVE  /\ ride[sess[s].row].state = "won_pending"
         /\ Decided(s) \in Rules!Decisions(ride[sess[s].row])
         /\ Decided(s) \in RideRow
  <1>1. PICK row : row = ride[sess[s].row]
    OBVIOUS
  <1>2. sess[s].row \in Ride /\ row \in RideRow /\ sess[s].seen = row /\ row.state = "won_pending"
    BY <1>1, Fields DEF Fine, Shape, ShapeByCommand, Player, ReadRide, RowUnchanged
  <1>3. CASE sess[s].cmd = "lock"
    <2>1. sess[s].match \in Match
      BY <1>3, Fields DEF Shape, ShapeByCommand
    <2>2. PICK new : new = LockedOnto(row, sess[s].match)
      OBVIOUS
    <2>3. new \in RideRow /\ new.version = row.version + 1
      BY <1>2, <2>1, <2>2, LockedOntoRow
    <2>4. Decided(s) = [new EXCEPT !.version = row.version + 1]
      BY <1>1, <1>2, <1>3, <2>2 DEF Decided
    <2>5. Decided(s) = new
      BY <2>3, <2>4 DEF RideRow
    <2>6. new \in Rules!Decisions(row)
      BY <2>1, <2>2, RowsOfTheRules DEF Rules!Decisions
    <2> QED BY <1>1, <1>2, <2>3, <2>5, <2>6
  <1>4. CASE sess[s].cmd # "lock"
    <2>1. PICK st : st = IF sess[s].cmd = "burn" THEN "burned" ELSE "unlocked"
      OBVIOUS
    <2>2. st \in {"burned", "unlocked"} /\ st \in RideState
      BY <2>1 DEF RideState, TerminalState
    <2>3. PICK new : new = EndedAs(row, st)
      OBVIOUS
    <2>4. new \in RideRow /\ new.version = row.version + 1
      BY <1>2, <2>2, <2>3, EndedAsRow
    <2>5. Decided(s) = [new EXCEPT !.version = row.version + 1]
      BY <1>1, <1>2, <1>4, <2>1, <2>3 DEF Decided
    <2>6. Decided(s) = new
      BY <2>4, <2>5 DEF RideRow
    <2>7. new \in Rules!Decisions(row)
      BY <2>2, <2>3, RowsOfTheRules DEF Rules!Decisions
    <2> QED BY <1>1, <1>2, <2>4, <2>6, <2>7
  <1> QED BY <1>3, <1>4

LEMMA UpdateGuardedStep ==
  ASSUME IInv, NEW s \in Session, UpdateGuarded(s)
  PROVE  IInv'
  <1>1. CASE End(s)
    BY <1>1, EndStep
  <1>2. ASSUME RowUnchanged(s), pend' = [pend EXCEPT ![s][sess[s].row] = Decided(s)],
               Goto(s, "commit"), AllFree
        PROVE  IInv'
    <2>1. PICK q : q = [sess[s] EXCEPT !.pc = "commit"]
      OBVIOUS
    <2>2. /\ q \in SessionState /\ q.pc = "commit" /\ q.cmd = sess[s].cmd /\ q.row = sess[s].row
          /\ q.seen = sess[s].seen /\ q.match = sess[s].match /\ sess' = [sess EXCEPT ![s] = q]
      BY <1>2, <2>1, GotoRecord
    <2>3. sess[s].cmd \in Decision /\ sess[s].pc = "write"
      BY DEF UpdateGuarded
    <2>4. q.row \in Ride
      BY <2>2, <2>3, Fields DEF Shape, ShapeByCommand, Player
    <2>5. PICK new : new = Decided(s)
      OBVIOUS
    <2>6. ride[q.row].state = "won_pending" /\ new \in Rules!Decisions(ride[q.row]) /\ new \in RideRow
      BY <1>2, <2>2, <2>3, <2>5, DecidedIsADecision
    <2>7. PICK p : p = [pend[s] EXCEPT ![q.row] = new]
      OBVIOUS
    <2>8. p \in [Ride -> RideRow] /\ p[q.row] = new /\ \A r \in Ride \ {q.row} : p[r] = pend[s][r]
      BY <2>4, <2>6, <2>7, Fields, OneRowWritten
    <2>9. \A r \in Ride : Has(p, r) => r = q.row
      BY <2>3, <2>8, NothingWritten DEF Has
    <2>10. Shape(q)
      BY <2>2, <2>3, Fields DEF Shape, ShapeByStep, ShapeByCommand, Player, Decision, Command
    <2>11. Written(q, p)
      BY <2>2, <2>3, <2>6, <2>8, <2>9 DEF Written, Wrote
    <2>12. ReadRide(q) /\ ReadMatch(q) /\ ReadRound(q, p)
      BY <2>2, <2>3, Fields DEF Fine, ReadRide, ReadMatch, ReadRound, Shares, Flipped, Decision
    <2>13. Fine(q, p)
      BY <2>10, <2>11, <2>12 DEF Fine
    <2>14. ~HoldsMatch(q) /\ ~Flipped(q) /\ ~Shares(q) /\ q.cmd # "create"
      BY <2>2, <2>3 DEF HoldsMatch, Flipped, Shares, Decision
    <2>15. \A o \in Session \ {s} : ~Has(pend[o], q.row)
      BY <2>2, <2>4, FreeMeans DEF UpdateGuarded
    <2>16. \A o \in Session \ {s} : Apart(q, p, sess[o], pend[o])
      BY <2>9, <2>14, <2>15 DEF Apart
    <2>17. MayBecome(s, q, p)
      BY <2>2, <2>8, <2>13, <2>16 DEF MayBecome
    <2>18. pend' = [pend EXCEPT ![s] = p]
      BY <1>2, <2>2, <2>5, <2>7, Fields
    <2> QED BY <1>2, <2>2, <2>17, <2>18, SessionStep
  <1> QED BY <1>1, <1>2 DEF UpdateGuarded

LEMMA ResolveMatchRowStep ==
  ASSUME IInv, NEW s \in Session, ResolveMatchRow(s)
  PROVE  IInv'
  <1>1. CASE End(s)
    BY <1>1, EndStep
  <1>2. ASSUME match[sess[s].match].status = "in_progress",
               match[sess[s].match].version = sess[s].version,
               Goto(s, "settle"), UNCHANGED pend, AllFree
        PROVE  IInv'
    <2>1. PICK q : q = [sess[s] EXCEPT !.pc = "settle"]
      OBVIOUS
    <2>2. /\ q \in SessionState /\ q.pc = "settle" /\ q.cmd = sess[s].cmd /\ q.match = sess[s].match
          /\ q.winner = sess[s].winner /\ q.version = sess[s].version /\ q.at = sess[s].at
          /\ sess' = [sess EXCEPT ![s] = q]
      BY <1>2, <2>1, GotoRecord
    <2>3. sess[s].cmd = "resolve" /\ sess[s].pc = "write"
      BY DEF ResolveMatchRow
    <2>4. \A r \in Ride : ~Has(pend[s], r)
      BY <2>3, NothingWritten
    <2>5. Shape(q)
      BY <2>2, <2>3, Fields DEF Shape, ShapeByStep, ShapeByCommand, Player, Decision
    <2>6. ReadRide(q) /\ ReadMatch(q)
      BY <1>2, <2>2, <2>3, Fields DEF ReadRide, ReadMatch, Fine, Decision
    <2>7. ~Flipped(q) /\ ~Shares(q) /\ q.cmd # "create"
      BY <2>2, <2>3 DEF Flipped, Shares
    <2>8. Fine(q, pend[s])
      BY <2>4, <2>5, <2>6, <2>7 DEF Fine, Written, ReadRound
    <2>9. \A o \in Session \ {s} : HoldsMatch(sess[o]) => sess[o].match # q.match
      BY <2>2 DEF ResolveMatchRow, MatchFree, ResolvedBy, HoldsMatch
    <2>10. \A o \in Session \ {s} : Apart(q, pend[s], sess[o], pend[o])
      BY <2>4, <2>7, <2>9 DEF Apart
    <2>11. MayBecome(s, q, pend[s])
      BY <2>2, <2>8, <2>10, Fields DEF MayBecome
    <2>12. pend' = [pend EXCEPT ![s] = pend[s]]
      BY <1>2, Fields
    <2> QED BY <1>2, <2>2, <2>11, <2>12, SessionStep
  <1> QED BY <1>1, <1>2 DEF ResolveMatchRow, StepOrEnd

\* A resolution that has written the match row reads its own scores there.
LEMMA SeesItsScores ==
  ASSUME IInv, NEW s \in Session, sess[s].cmd = "resolve", sess[s].pc \in {"settle", "commit"}
  PROVE  /\ MatchSeen(s, sess[s].match).winner = sess[s].winner
         /\ MatchSeen(s, sess[s].match).status = "closed"
  <1>1. sess[s].match \in Match /\ match[sess[s].match] \in MatchRow
    BY Fields DEF Shape, ShapeByCommand
  <1>2. MatchSeen(s, sess[s].match) = ClosedMatch(s)
    BY DEF MatchSeen, ResolvedBy
  <1> QED BY <1>1, <1>2 DEF ClosedMatch, MatchRow

LEMMA SettleRidesStep ==
  ASSUME IInv, NEW s \in Session, SettleRides(s)
  PROVE  IInv'
  <1>1. PICK q : q = [sess[s] EXCEPT !.pc = "commit"]
    OBVIOUS
  <1>2. /\ q \in SessionState /\ q.pc = "commit" /\ q.cmd = sess[s].cmd /\ q.match = sess[s].match
        /\ q.winner = sess[s].winner /\ q.version = sess[s].version /\ q.at = sess[s].at
        /\ sess' = [sess EXCEPT ![s] = q]
    BY <1>1, GotoRecord DEF SettleRides
  <1>3. sess[s].cmd = "resolve" /\ sess[s].pc = "settle"
    BY Fields DEF SettleRides, Shape, ShapeByStep
  <1>4. PICK settled : settled = LockedOn(q.match)
    OBVIOUS
  <1>5. PICK p : p = [r \in Ride |-> IF r \in settled THEN SettledBy(ride[r], q.winner) ELSE pend[s][r]]
    OBVIOUS
  <1>6. \A r \in Ride : ~Has(pend[s], r)
    BY <1>3, NothingWritten
  <1>7. \A r \in Ride : r \in settled <=> ride[r].state = "locked" /\ ride[r].match = q.match
    BY <1>4 DEF LockedOn
  <1>8. p \in [Ride -> RideRow]
    BY <1>5, Fields, SettledRow
  <1>9. \A r \in Ride : Has(p, r) => r \in settled /\ p[r] = SettledBy(ride[r], q.winner)
    BY <1>5, <1>6 DEF Has
  <1>10. Shape(q)
    BY <1>2, <1>3, Fields DEF Shape, ShapeByStep, ShapeByCommand, Player, Decision, Command
  <1>11. Written(q, p)
    BY <1>2, <1>3, <1>7, <1>9 DEF Written, Wrote
  <1>12. HoldsMatch(sess[s])
    BY <1>3 DEF HoldsMatch
  <1>13. ReadRide(q) /\ ReadMatch(q)
    BY <1>2, <1>3, <1>12, Fields DEF ReadRide, ReadMatch, Fine, Decision
  <1>14. ~Flipped(q) /\ ~Shares(q) /\ q.cmd # "create"
    BY <1>2, <1>3 DEF Flipped, Shares
  <1>15. Fine(q, p)
    BY <1>10, <1>11, <1>13, <1>14 DEF Fine, ReadRound
  <1>16. \A o \in Session \ {s} : HoldsMatch(sess[o]) => sess[o].match # q.match
    BY <1>2, <1>12 DEF IInv, Exclusion, Apart
  <1>17. \A o \in Session \ {s}, r \in Ride : r \in settled => ~Has(pend[o], r)
    BY <1>2, <1>4, FreeMeans DEF SettleRides
  <1>18. \A o \in Session \ {s} : Apart(q, p, sess[o], pend[o])
    BY <1>9, <1>14, <1>16, <1>17 DEF Apart
  <1>19. MayBecome(s, q, p)
    BY <1>2, <1>8, <1>15, <1>18 DEF MayBecome
  <1>20. MatchSeen(s, sess[s].match).winner = q.winner
    BY <1>2, <1>3, SeesItsScores
  <1>21. pend' = [pend EXCEPT ![s] = p]
    BY <1>2, <1>4, <1>5, <1>20, Fields DEF SettleRides
  <1> QED BY <1>2, <1>19, <1>21, SessionStep DEF SettleRides

LEMMA SweepRideStep ==
  ASSUME IInv, NEW s \in Session, NEW r \in Ride, NEW m \in Match, SweepRide(s, r, m)
  PROVE  IInv'
  <1>0. PICK todo : todo = sess[s].todo \ {<<r, m>>}
    OBVIOUS
  <1>1. PICK q : q = [sess[s] EXCEPT !.todo = todo]
    OBVIOUS
  <1>2. /\ q \in SessionState /\ q.pc = "sweep" /\ q.cmd = sess[s].cmd /\ q.round = sess[s].round
        /\ q.todo \subseteq sess[s].todo /\ sess' = [sess EXCEPT ![s] = q]
    <2>1. sess[s] \in SessionState /\ sess[s].pc = "sweep"
      BY Fields DEF SweepRide
    <2>2. sess[s].todo \in SUBSET (Ride \X Match)
      BY <2>1 DEF SessionState
    <2>3. todo \in SUBSET (Ride \X Match) /\ todo \subseteq sess[s].todo
      BY <1>0, <2>2
    <2>4. q \in SessionState
      BY <1>1, <2>1, <2>3 DEF SessionState
    <2>5. q.pc = "sweep" /\ q.cmd = sess[s].cmd /\ q.round = sess[s].round /\ q.todo = todo
      BY <1>1, <2>1 DEF SessionState
    <2>6. sess' = [sess EXCEPT ![s] = q]
      BY <1>0, <1>1, Fields DEF SweepRide
    <2> QED BY <2>3, <2>4, <2>5, <2>6
  <1>3. sess[s].cmd = "close"
    BY Fields DEF SweepRide, Shape, ShapeByStep
  <1>4. RoundOf[m] = q.round
    <2>1. <<r, m>> \in sess[s].todo
      BY DEF SweepRide
    <2>2. <<r, m>>[2] \in Match /\ RoundOf[<<r, m>>[2]] = sess[s].round
      BY <1>3, <2>1, Fields DEF Shape, ShapeByCommand
    <2> QED BY <1>2, <2>2
  <1>5. PICK p : p = IF ride[r].state = "won_pending" /\ ride[r].match = m
                     THEN [pend[s] EXCEPT ![r] = AutoResolved(ride[r], q.round)] ELSE pend[s]
    OBVIOUS
  <1>6. ride[r] \in RideRow /\ AutoResolved(ride[r], q.round) \in RideRow
    BY Fields, AutoResolvedRow
  <1>7. p \in [Ride -> RideRow] /\ \A r2 \in Ride \ {r} : p[r2] = pend[s][r2]
    BY <1>5, <1>6, Fields
  <1>8. \/ p[r] = pend[s][r]
        \/ ride[r].state = "won_pending" /\ ride[r].match = m /\ p[r] = AutoResolved(ride[r], q.round)
    BY <1>5, Fields
  <1>9. Shape(q)
    BY <1>2, <1>3, Fields DEF Shape, ShapeByStep, ShapeByCommand, Player, Decision
  <1>10. Written(q, p)
    <2> SUFFICES ASSUME NEW r2 \in Ride, Has(p, r2) PROVE Wrote(q, r2, p[r2])
      BY DEF Written
    <2>1. CASE p[r2] = pend[s][r2]
      <3>1. Wrote(sess[s], r2, pend[s][r2])
        BY <2>1, Fields DEF Fine, Written, Has
      <3> QED BY <1>2, <1>3, <2>1, <3>1 DEF Wrote, Decision
    <2>2. CASE r2 = r /\ ride[r].state = "won_pending" /\ ride[r].match = m
               /\ p[r] = AutoResolved(ride[r], q.round)
      BY <1>2, <1>3, <1>4, <2>2 DEF Wrote
    <2> QED BY <1>7, <1>8, <2>1, <2>2
  <1>11. ReadRide(q) /\ ReadMatch(q)
    BY <1>2, <1>3 DEF ReadRide, ReadMatch, Decision
  <1>12. ~Flipped(q) /\ ~Shares(q) /\ ~HoldsMatch(q) /\ q.cmd # "create"
    BY <1>2, <1>3 DEF Flipped, Shares, HoldsMatch
  <1>13. Fine(q, p)
    BY <1>9, <1>10, <1>11, <1>12 DEF Fine, ReadRound
  <1>14. \A o \in Session \ {s}, r2 \in Ride : ~(Has(p, r2) /\ Has(pend[o], r2))
    <2> SUFFICES ASSUME NEW o \in Session \ {s}, NEW r2 \in Ride, Has(p, r2), Has(pend[o], r2) PROVE FALSE
      OBVIOUS
    <2>1. r2 # r
      BY FreeMeans DEF SweepRide
    <2>2. Has(pend[s], r2)
      BY <1>7, <2>1 DEF Has
    <2> QED BY <2>2 DEF IInv, Exclusion, Apart
  <1>15. \A o \in Session \ {s} : Apart(q, p, sess[o], pend[o])
    BY <1>12, <1>14 DEF Apart
  <1>16. MayBecome(s, q, p)
    BY <1>2, <1>7, <1>13, <1>15 DEF MayBecome
  <1>17. pend' = [pend EXCEPT ![s] = p]
    BY <1>2, <1>5, Fields DEF SweepRide
  <1> QED BY <1>2, <1>16, <1>17, SessionStep DEF SweepRide

LEMMA FlipRoundStep ==
  ASSUME IInv, NEW s \in Session, FlipRound(s)
  PROVE  IInv'
  <1>1. CASE End(s)
    BY <1>1, EndStep
  <1>2. ASSUME round[sess[s].round] = "open", NextInSequence(sess[s].round), CloseGate(s, sess[s].round),
               Goto(s, "commit"), UNCHANGED pend, AllFree
        PROVE  IInv'
    <2>1. PICK q : q = [sess[s] EXCEPT !.pc = "commit"]
      OBVIOUS
    <2>2. /\ q \in SessionState /\ q.pc = "commit" /\ q.cmd = sess[s].cmd /\ q.round = sess[s].round
          /\ q.todo = sess[s].todo /\ sess' = [sess EXCEPT ![s] = q]
      BY <1>2, <2>1, GotoRecord
    <2>3. sess[s].cmd = "close"
      BY Fields DEF FlipRound, Shape, ShapeByStep
    <2>4. Shape(q)
      BY <2>2, <2>3, Fields DEF Shape, ShapeByStep, ShapeByCommand, Player, Decision, Command
    <2>5. Written(q, pend[s])
      BY <2>2, <2>3, Fields DEF Fine, Written, Wrote, Decision
    <2>6. ReadRide(q) /\ ReadMatch(q)
      BY <2>2, <2>3 DEF ReadRide, ReadMatch, Decision
    <2>7. ReadRound(q, pend[s])
      BY <1>2, <2>2, <2>3 DEF ReadRound, Shares, CloseGate, Holds, Has
    <2>8. Fine(q, pend[s])
      BY <2>4, <2>5, <2>6, <2>7 DEF Fine
    <2>9. \A o \in Session \ {s} : ~FlippedBy(o, q.round) /\ ~SharedBy(o, q.round)
      BY <2>2 DEF FlipRound
    <2>10. \A o \in Session \ {s} : /\ Flipped(sess[o]) => sess[o].round # q.round
                                    /\ Shares(sess[o]) => q.round # RoundOf[sess[o].seen.match]
      BY <2>9 DEF FlippedBy, SharedBy, Flipped, Shares
    <2>11. \A o \in Session \ {s}, r \in Ride : ~(Has(pend[s], r) /\ Has(pend[o], r))
      BY DEF IInv, Exclusion, Apart
    <2>12. ~Shares(q) /\ ~HoldsMatch(q) /\ q.cmd # "create"
      BY <2>2, <2>3 DEF Shares, HoldsMatch
    <2>13. \A o \in Session \ {s} : Apart(q, pend[s], sess[o], pend[o])
      BY <2>10, <2>11, <2>12 DEF Apart
    <2>14. MayBecome(s, q, pend[s])
      BY <2>2, <2>8, <2>13, Fields DEF MayBecome
    <2>15. pend' = [pend EXCEPT ![s] = pend[s]]
      BY <1>2, Fields
    <2> QED BY <1>2, <2>2, <2>14, <2>15, SessionStep
  <1> QED BY <1>1, <1>2 DEF FlipRound, StepOrEnd

-----------------------------------------------------------------------------
(* The tables change: what the requests that did not do it still know *)

LEMMA OthersStay ==
  ASSUME IInv, NEW o \in Session, sess'[o] = sess[o], pend'[o] = pend[o],
         ride' \in [Ride -> RideRow], match' \in [Match -> MatchRow],
         \A r \in Ride : Has(pend[o], r) => ride'[r] = ride[r],
         \A r \in Ride : ride'[r] = ride[r] \/ ride'[r].version > ride[r].version,
         sess[o].cmd = "create" => ride'[sess[o].row].state = "absent",
         \A m \in Match : match'[m] = match[m] \/ match'[m].version > match[m].version,
         HoldsMatch(sess[o]) => match'[sess[o].match] = match[sess[o].match],
         \A m \in Match : match[m].status = "closed" => match'[m].status = "closed",
         \A k \in Round : round[k] # "created" => round'[k] # "created",
         Shares(sess[o]) => round'[RoundOf[sess[o].seen.match]] = "open",
         Flipped(sess[o]) => /\ round'[sess[o].round] = "open"
                             /\ NextInSequence(sess[o].round)'
                             /\ \A r \in Ride : ride'[r].state = "won_pending"
                                                  /\ RoundOf[ride'[r].match] = sess[o].round
                                    => r \in UndecidedIn(sess[o].round)
  PROVE  Fine(sess[o], pend[o])'
  <1>1. PICK q, p : q = sess[o] /\ p = pend[o]
    OBVIOUS
  <1>2. /\ Shape(q) /\ Written(q, p) /\ ReadRide(q) /\ ReadMatch(q) /\ ReadRound(q, p) /\ q \in SessionState
        /\ ride \in [Ride -> RideRow] /\ match \in [Match -> MatchRow]
    BY <1>1, Fields DEF Fine
  <1>3. Written(q, p)'
    BY <1>1, <1>2 DEF Written, Wrote
  <1>4. ReadRide(q)'
    <2>1. CASE q.cmd = "create"
      BY <1>1, <2>1 DEF ReadRide, Decision
    <2>2. CASE q.cmd \in Decision
      <3>1. q.row \in Ride /\ q.seen.version \in Nat
        BY <1>2, <2>2 DEF Shape, ShapeByCommand, Player, SessionState, RideRow
      <3>2. ride[q.row].version \in Nat /\ ride'[q.row].version \in Nat
        BY <1>2, <3>1 DEF RideRow
      <3>3. /\ q.seen.version <= ride[q.row].version
            /\ q.seen.version = ride[q.row].version => q.seen = ride[q.row]
        BY <1>2, <2>2 DEF ReadRide
      <3>4. /\ q.seen.version <= ride'[q.row].version
            /\ q.seen.version = ride'[q.row].version => q.seen = ride'[q.row]
        BY <3>1, <3>2, <3>3
      <3> QED BY <2>2, <3>4 DEF ReadRide, Decision
    <2>3. CASE q.cmd # "create" /\ q.cmd \notin Decision
      BY <2>3 DEF ReadRide
    <2> QED BY <2>1, <2>2, <2>3
  <1>5. ReadMatch(q)'
    <2>1. CASE q.cmd = "resolve"
      <3>1. q.match \in Match /\ q.version \in Nat /\ q.at \in Nat
        BY <1>2, <2>1 DEF Shape, ShapeByCommand, SessionState
      <3>2. match[q.match].version \in Nat /\ match'[q.match].version \in Nat
        BY <1>2, <3>1 DEF MatchRow
      <3>3. /\ round[RoundOf[q.match]] # "created"
            /\ q.version <= match[q.match].version
            /\ q.version = match[q.match].version => match[q.match].startsAt < q.at
            /\ HoldsMatch(q) => match[q.match].status = "in_progress" /\ match[q.match].version = q.version
        BY <1>2, <2>1 DEF ReadMatch
      <3>4. round'[RoundOf[q.match]] # "created"
        BY <3>1, <3>3, RoundOfMatch
      <3>5. /\ q.version <= match'[q.match].version
            /\ q.version = match'[q.match].version => match'[q.match].startsAt < q.at
        BY <3>1, <3>2, <3>3
      <3>6. HoldsMatch(q) => match'[q.match].status = "in_progress" /\ match'[q.match].version = q.version
        BY <1>1, <3>3
      <3> QED BY <3>4, <3>5, <3>6 DEF ReadMatch
    <2>2. CASE q.cmd # "resolve"
      BY <2>2 DEF ReadMatch
    <2> QED BY <2>1, <2>2
  <1>6. ReadRound(q, p)'
    <2>1. Shares(q) => round'[RoundOf[q.seen.match]] = "open"
      BY <1>1
    <2>2. ASSUME Flipped(q)
          PROVE  /\ round'[q.round] = "open"
                 /\ NextInSequence(q.round)'
                 /\ \A m \in MatchesOf(q.round) : match'[m].status = "closed"
                 /\ \A r \in UndecidedIn(q.round)' : Has(p, r)
      <3>1. round'[q.round] = "open"
        BY <1>1, <2>2
      <3>2. NextInSequence(q.round)'
        BY <1>1, <2>2 DEF NextInSequence
      <3>3. \A m \in MatchesOf(q.round) : match'[m].status = "closed"
        BY <1>2, <2>2 DEF ReadRound, MatchesOf
      <3>4. \A r \in UndecidedIn(q.round)' : r \in UndecidedIn(q.round)
        BY <1>1, <2>2 DEF UndecidedIn
      <3> QED BY <1>2, <2>2, <3>1, <3>2, <3>3, <3>4 DEF ReadRound
    <2> QED BY <2>1, <2>2 DEF ReadRound
  <1>7. Fine(q, p)'
    BY <1>2, <1>3, <1>4, <1>5, <1>6 DEF Fine
  <1> QED BY <1>1, <1>7

\* Only one round can be next.
LEMMA NextIsUnique ==
  ASSUME IInv, NEW k \in Round, NEW j \in Round, NextInSequence(k), NextInSequence(j)
  PROVE  j = k
  BY ScheduleAssumption DEF NextInSequence, Round, ScheduleAssumption

-----------------------------------------------------------------------------
(* The commit *)

\* What is written is a row, a version later than the committed one.
LEMMA WroteARow ==
  ASSUME IInv, NEW s \in Session, NEW r \in Ride, NEW new, Wrote(sess[s], r, new)
  PROVE  /\ new \in RideRow /\ new.state # "absent"
         /\ new.version = ride[r].version + 1 /\ new.version > ride[r].version
         /\ new.match \in Match
         /\ new.state = "won_pending" =>
              sess[s].cmd = "resolve" /\ ride[r].match = sess[s].match /\ new.match = sess[s].match
  <1>1. PICK q : q = sess[s]
    OBVIOUS
  <1>2. /\ ride[r] \in RideRow /\ ride[r].version \in Nat
        /\ IF ride[r].state = "absent" THEN ride[r].version = 0 ELSE ride[r].match \in Match
    BY Fields DEF RideRow, IInv, Tables, RidesHaveMatches
  <1>3. CASE ride[r].state = "absent" /\ q.cmd = "create" /\ new = CreatedRide(q.seen.match, q.seen.team)
    <2>1. q.seen.match \in Match /\ q.seen.team \in Team
      BY <1>1, <1>3, Fields DEF Shape, ShapeByCommand, Player
    <2> QED BY <1>2, <1>3, <2>1, CreatedRow
  <1>4. CASE ride[r].state = "won_pending" /\ new \in Rules!Decisions(ride[r])
    BY <1>2, <1>4, DecidedRow
  <1>5. CASE /\ q.cmd = "resolve" /\ ride[r].state = "locked" /\ ride[r].match = q.match
             /\ new = SettledBy(ride[r], q.winner)
    <2>1. new.state \in {"won_pending", "lost"}
      BY <1>2, <1>5, SettledRow
    <2> QED BY <1>1, <1>2, <1>5, <2>1, SettledRow
  <1>6. CASE ride[r].state = "won_pending" /\ new = AutoResolved(ride[r], q.round)
    <2>1. new.state \in {"burned", "unlocked"}
      BY <1>2, <1>6, AutoResolvedRow
    <2> QED BY <1>2, <1>6, <2>1, AutoResolvedRow
  <1> QED BY <1>1, <1>3, <1>4, <1>5, <1>6 DEF Wrote

LEMMA CommitChanges ==
  ASSUME IInv, NEW s \in Session, Commit(s)
  PROVE  /\ ride' \in [Ride -> RideRow]
         /\ \A r \in Ride : IF Has(pend[s], r) THEN ride'[r] = pend[s][r] /\ Wrote(sess[s], r, ride'[r])
                                               ELSE ride'[r] = ride[r]
         /\ match' \in [Match -> MatchRow]
         /\ sess[s].cmd # "resolve" => match' = match
         /\ sess[s].cmd = "resolve" =>
              /\ sess[s].match \in Match /\ HoldsMatch(sess[s])
              /\ match[sess[s].match].status = "in_progress"
              /\ round[RoundOf[sess[s].match]] = "open"
              /\ match' = [match EXCEPT ![sess[s].match] = match'[sess[s].match]]
              /\ match'[sess[s].match].status = "closed"
              /\ match'[sess[s].match].winner = sess[s].winner
              /\ match'[sess[s].match].endedAt # NotEnded
              /\ match'[sess[s].match].startsAt < match'[sess[s].match].endedAt
              /\ match'[sess[s].match].version > match[sess[s].match].version
         /\ sess[s].cmd # "close" => round' = round
         /\ sess[s].cmd = "close" =>
              /\ Flipped(sess[s]) /\ sess[s].round \in Round
              /\ round' = [round EXCEPT ![sess[s].round] = "closed"]
              /\ round[sess[s].round] = "open"
              /\ NextInSequence(sess[s].round)
              /\ \A m \in MatchesOf(sess[s].round) : match[m].status = "closed"
              /\ \A r \in UndecidedIn(sess[s].round) : Has(pend[s], r)
         /\ sess'[s] = Idle /\ pend'[s] = NoPending
         /\ sess' \in [Session -> SessionState] /\ pend' \in [Session -> [Ride -> RideRow]]
         /\ \A o \in Session \ {s} : sess'[o] = sess[o] /\ pend'[o] = pend[o]
         /\ UNCHANGED now
  <1>1. sess[s].pc = "commit" /\ Fine(sess[s], pend[s]) /\ Shape(sess[s]) /\ sess[s] \in SessionState
    BY Fields DEF Commit
  <1>2. ride' \in [Ride -> RideRow]
    BY Fields DEF Commit, Holds
  <1>3. \A r \in Ride : IF Has(pend[s], r) THEN ride'[r] = pend[s][r] /\ Wrote(sess[s], r, ride'[r])
                                           ELSE ride'[r] = ride[r]
    BY <1>1 DEF Commit, Holds, Has, Fine, Written
  <1>4. sess[s].cmd # "resolve" => match' = match
    BY DEF Commit
  <1>5. ASSUME sess[s].cmd = "resolve"
        PROVE  /\ sess[s].match \in Match /\ HoldsMatch(sess[s])
               /\ match[sess[s].match].status = "in_progress"
               /\ round[RoundOf[sess[s].match]] = "open"
               /\ match' = [match EXCEPT ![sess[s].match] = match'[sess[s].match]]
               /\ match'[sess[s].match] \in MatchRow
               /\ match'[sess[s].match].status = "closed"
               /\ match'[sess[s].match].winner = sess[s].winner
               /\ match'[sess[s].match].endedAt # NotEnded
               /\ match'[sess[s].match].startsAt < match'[sess[s].match].endedAt
               /\ match'[sess[s].match].version > match[sess[s].match].version
    <2>1. PICK m : m = sess[s].match
      OBVIOUS
    <2>2. m \in Match /\ HoldsMatch(sess[s]) /\ match[m] \in MatchRow
      BY <1>1, <1>5, <2>1, Fields DEF Shape, ShapeByCommand, HoldsMatch
    <2>3. match[m].status = "in_progress" /\ match[m].startsAt < sess[s].at /\ round[RoundOf[m]] # "created"
      BY <1>1, <1>5, <2>1, <2>2 DEF Fine, ReadMatch
    <2>4. round[RoundOf[m]] = "open"
      <3>1. RoundOf[m] \in Round /\ m \in MatchesOf(RoundOf[m])
        BY <2>2, RoundOfMatch DEF MatchesOf
      <3>2. round[RoundOf[m]] # "closed"
        BY <2>3, <3>1 DEF IInv, Tables, ClosedRoundIsOver
      <3> QED BY <2>3, <3>1, <3>2, Fields
    <2>5. PICK row : row = ClosedMatch(s)
      OBVIOUS
    <2>6. match[m].version \in Nat /\ sess[s].at \in Nat /\ sess[s].winner \in Team \cup {NoTeam}
      BY <1>1, <2>2 DEF MatchRow, SessionState
    <2>7. /\ row.status = "closed" /\ row.winner = sess[s].winner /\ row.endedAt = sess[s].at
          /\ row.startsAt = match[m].startsAt /\ row.version = match[m].version + 1
      BY <2>1, <2>2, <2>5 DEF MatchRow, ClosedMatch
    <2>8. row \in MatchRow
      <3>1. match[m].version + 1 \in Nat
        BY <2>6
      <3> QED BY <2>1, <2>2, <2>5, <2>6, <3>1 DEF MatchRow, ClosedMatch
    <2>9. match' = [match EXCEPT ![m] = row] /\ match'[m] = row
      BY <1>5, <2>1, <2>2, <2>5, Fields DEF Commit
    <2>10. sess[s].at # NotEnded
      BY <2>6, NullAssumption DEF NullAssumption
    <2>11. row.version > match[m].version
      BY <2>6, <2>7
    <2>12. /\ match' = [match EXCEPT ![m] = match'[m]]
           /\ match'[m] \in MatchRow
           /\ match'[m].status = "closed"
           /\ match'[m].winner = sess[s].winner
           /\ match'[m].endedAt # NotEnded
           /\ match'[m].startsAt < match'[m].endedAt
           /\ match'[m].version > match[m].version
      BY <2>3, <2>7, <2>8, <2>9, <2>10, <2>11
    <2> QED BY <2>1, <2>2, <2>3, <2>4, <2>12
  <1>6. match' \in [Match -> MatchRow]
    <2>1. CASE sess[s].cmd = "resolve"
      <3>1. PICK row \in MatchRow : match' = [match EXCEPT ![sess[s].match] = row]
        BY <1>5, <2>1
      <3> QED BY <3>1, Fields
    <2> QED BY <1>4, <2>1, Fields
  <1>7. sess[s].cmd # "close" => round' = round
    BY DEF Commit
  <1>8. ASSUME sess[s].cmd = "close"
        PROVE  /\ Flipped(sess[s]) /\ sess[s].round \in Round
               /\ round' = [round EXCEPT ![sess[s].round] = "closed"]
               /\ round[sess[s].round] = "open"
               /\ NextInSequence(sess[s].round)
               /\ \A m \in MatchesOf(sess[s].round) : match[m].status = "closed"
               /\ \A r \in UndecidedIn(sess[s].round) : Has(pend[s], r)
    <2>1. Flipped(sess[s])
      BY <1>1, <1>8 DEF Flipped
    <2> QED BY <1>1, <1>8, <2>1 DEF Fine, ReadRound, Commit, SessionState
  <1>9. /\ sess'[s] = Idle /\ pend'[s] = NoPending
        /\ sess' \in [Session -> SessionState] /\ pend' \in [Session -> [Ride -> RideRow]]
        /\ \A o \in Session \ {s} : sess'[o] = sess[o] /\ pend'[o] = pend[o]
        /\ UNCHANGED now
    BY Fields, IdleIsFine, NothingPending DEF Commit
  <1> QED BY <1>2, <1>3, <1>4, <1>5, <1>6, <1>7, <1>8, <1>9

\* What the others know survives the commit.
LEMMA CommitKeepsRequests ==
  ASSUME IInv, NEW s \in Session, Commit(s)
  PROVE  Requests' /\ Exclusion'
  <1>1. ride' \in [Ride -> RideRow] /\ match' \in [Match -> MatchRow]
    BY CommitChanges
  <1>2. \A r \in Ride : IF Has(pend[s], r) THEN ride'[r] = pend[s][r] /\ Wrote(sess[s], r, ride'[r])
                                           ELSE ride'[r] = ride[r]
    BY CommitChanges
  <1>3. /\ sess'[s] = Idle /\ pend'[s] = NoPending
        /\ \A o \in Session \ {s} : sess'[o] = sess[o] /\ pend'[o] = pend[o]
    BY CommitChanges
  <1>4. \A r \in Ride : ride'[r] = ride[r] \/ ride'[r].version > ride[r].version
    BY <1>2, WroteARow
  <1>5. \A m \in Match : match'[m] = match[m] \/ (match'[m].version > match[m].version /\ match'[m].status = "closed")
    <2>1. CASE sess[s].cmd = "resolve"
      BY <2>1, CommitChanges, Fields
    <2>2. CASE sess[s].cmd # "resolve"
      BY <2>2, CommitChanges
    <2> QED BY <2>1, <2>2
  <1>6. \A k \in Round : round'[k] = round[k] \/ (sess[s].cmd = "close" /\ k = sess[s].round /\ round'[k] = "closed")
    <2>1. CASE sess[s].cmd = "close"
      BY <2>1, CommitChanges, Fields
    <2>2. CASE sess[s].cmd # "close"
      BY <2>2, CommitChanges
    <2> QED BY <2>1, <2>2
  <1>7. ASSUME NEW o \in Session \ {s} PROVE Fine(sess[o], pend[o])'
    <2>1. Apart(sess[s], pend[s], sess[o], pend[o]) /\ Fine(sess[o], pend[o]) /\ sess[o] \in SessionState
      BY Fields DEF IInv, Exclusion
    <2>2. \A r \in Ride : Has(pend[o], r) => ride'[r] = ride[r]
      BY <1>2, <2>1 DEF Apart
    <2>3. sess[o].cmd = "create" => ride'[sess[o].row].state = "absent"
      <3> SUFFICES ASSUME sess[o].cmd = "create" PROVE ride'[sess[o].row].state = "absent"
        OBVIOUS
      <3>1. sess[o].row \in Ride /\ ride[sess[o].row].state = "absent"
        BY <2>1 DEF Fine, Shape, ShapeByCommand, Player, ReadRide
      <3>2. ~Has(pend[s], sess[o].row)
        <4> SUFFICES ASSUME Has(pend[s], sess[o].row) PROVE FALSE
          OBVIOUS
        <4>1. Wrote(sess[s], sess[o].row, ride'[sess[o].row])
          BY <1>2, <3>1
        <4>2. sess[s].cmd = "create" /\ sess[s].row = sess[o].row
          BY <3>1, <4>1 DEF Wrote
        <4> QED BY <2>1, <4>2 DEF Apart
      <3> QED BY <1>2, <3>1, <3>2
    <2>4. HoldsMatch(sess[o]) => match'[sess[o].match] = match[sess[o].match]
      <3> SUFFICES ASSUME HoldsMatch(sess[o]) PROVE match'[sess[o].match] = match[sess[o].match]
        OBVIOUS
      <3>1. sess[o].match \in Match
        BY <2>1 DEF Fine, Shape, ShapeByCommand, HoldsMatch
      <3>2. CASE sess[s].cmd = "resolve"
        <4>1. sess[s].match # sess[o].match
          BY <2>1, <3>2, CommitChanges DEF Apart
        <4> QED BY <3>1, <3>2, <4>1, CommitChanges, Fields
      <3> QED BY <3>2, CommitChanges
    <2>5. \A m \in Match : match[m].status = "closed" => match'[m].status = "closed"
      BY <1>5
    <2>6. \A k \in Round : round[k] # "created" => round'[k] # "created"
      BY <1>6
    <2>7. Shares(sess[o]) => round'[RoundOf[sess[o].seen.match]] = "open"
      <3> SUFFICES ASSUME Shares(sess[o]) PROVE round'[RoundOf[sess[o].seen.match]] = "open"
        OBVIOUS
      <3>1. RoundOf[sess[o].seen.match] \in Round /\ round[RoundOf[sess[o].seen.match]] = "open"
        BY <2>1, RoundOfMatch DEF Fine, ReadRound, Shares, Shape, ShapeByCommand, Player
      <3>2. sess[s].cmd = "close" => sess[s].round # RoundOf[sess[o].seen.match]
        BY <2>1, CommitChanges DEF Apart
      <3> QED BY <1>6, <3>1, <3>2
    <2>8. ASSUME Flipped(sess[o])
          PROVE  /\ round'[sess[o].round] = "open"
                 /\ NextInSequence(sess[o].round)'
                 /\ \A r \in Ride : ride'[r].state = "won_pending" /\ RoundOf[ride'[r].match] = sess[o].round
                       => r \in UndecidedIn(sess[o].round)
      <3>1. PICK k : k = sess[o].round
        OBVIOUS
      <3>2. /\ k \in Round /\ round[k] = "open" /\ NextInSequence(k)
            /\ \A m \in MatchesOf(k) : match[m].status = "closed"
        BY <2>1, <2>8, <3>1 DEF Fine, ReadRound, SessionState
      <3>3. sess[s].cmd # "close"
        <4> SUFFICES ASSUME sess[s].cmd = "close" PROVE FALSE
          OBVIOUS
        <4>1. sess[s].round = k
          BY <3>2, CommitChanges, NextIsUnique
        <4> QED BY <2>1, <2>8, <3>1, <4>1, CommitChanges DEF Apart
      <3>4. round' = round
        BY <3>3, CommitChanges
      <3>5. NextInSequence(k)'
        BY <3>2, <3>4 DEF NextInSequence
      <3>6. ASSUME NEW r \in Ride, ride'[r].state = "won_pending", RoundOf[ride'[r].match] = k
            PROVE  r \in UndecidedIn(k)
        <4>1. CASE ride'[r] = ride[r]
          BY <3>6, <4>1 DEF UndecidedIn
        <4>2. CASE Wrote(sess[s], r, ride'[r])
          <5>1. sess[s].cmd = "resolve" /\ ride'[r].match = sess[s].match
            BY <3>6, <4>2, WroteARow
          <5>2. sess[s].match \in MatchesOf(k) /\ match[sess[s].match].status = "in_progress"
            BY <3>6, <5>1, CommitChanges DEF MatchesOf
          <5> QED BY <3>2, <5>2
        <4> QED BY <1>2, <4>1, <4>2
      <3>7. NextInSequence(sess[o].round)'
        BY <1>3, <3>1, <3>5
      <3> QED BY <3>1, <3>2, <3>4, <3>6, <3>7
    <2> QED BY <1>1, <1>3, <1>4, <1>5, <2>2, <2>3, <2>4, <2>5, <2>6, <2>7, <2>8, OthersStay
  <1>8. Fine(sess[s], pend[s])'
    <2>1. Shape(Idle) /\ \A r \in Ride : ~Has(NoPending, r)
      BY IdleIsFine, NothingPending DEF Fine
    <2>2. Idle.cmd = "none" /\ ~HoldsMatch(Idle) /\ ~Flipped(Idle) /\ ~Shares(Idle)
      BY IdleIsFine
    <2>3. Fine(Idle, NoPending)'
      BY <2>1, <2>2 DEF Fine, Written, ReadRide, ReadMatch, ReadRound, Decision
    <2> QED BY <1>3, <2>3
  <1>9. Requests'
    BY <1>7, <1>8 DEF Requests
  <1>10. Exclusion'
    <2> SUFFICES ASSUME NEW o \in Session, NEW o2 \in Session, o # o2
                 PROVE  Apart(sess'[o], pend'[o], sess'[o2], pend'[o2])
      BY DEF Exclusion
    <2>1. CASE o = s \/ o2 = s
      BY <1>3, <2>1, IdleIsFine, NothingPending DEF Apart
    <2>2. CASE o # s /\ o2 # s
      BY <1>3, <2>2 DEF IInv, Exclusion
    <2> QED BY <2>1, <2>2
  <1> QED BY <1>9, <1>10

LEMMA CommitKeepsTables ==
  ASSUME IInv, NEW s \in Session, Commit(s)
  PROVE  Tables'
  <1>1. \A r \in Ride : ride'[r] = ride[r] \/ Wrote(sess[s], r, ride'[r])
    BY CommitChanges
  <1>2. RidesHaveMatches'
    BY <1>1, WroteARow DEF IInv, Tables, RidesHaveMatches
  <1>3. ClosedHasEnded'
    <2>1. CASE sess[s].cmd = "resolve"
      BY <2>1, CommitChanges, Fields DEF IInv, Tables, ClosedHasEnded
    <2>2. CASE sess[s].cmd # "resolve"
      BY <2>2, CommitChanges DEF IInv, Tables, ClosedHasEnded
    <2> QED BY <2>1, <2>2
  <1>4. EndsAfterStart'
    <2>1. CASE sess[s].cmd = "resolve"
      BY <2>1, CommitChanges, Fields DEF IInv, Tables, EndsAfterStart
    <2>2. CASE sess[s].cmd # "resolve"
      BY <2>2, CommitChanges DEF IInv, Tables, EndsAfterStart
    <2> QED BY <2>1, <2>2
  <1>5. \A m \in Match : match[m].status = "closed" => match'[m].status = "closed"
    <2>1. CASE sess[s].cmd = "resolve"
      BY <2>1, CommitChanges, Fields
    <2>2. CASE sess[s].cmd # "resolve"
      BY <2>2, CommitChanges
    <2> QED BY <2>1, <2>2
  <1>6. ClosedRoundIsOver'
    <2> SUFFICES ASSUME NEW k \in Round, round'[k] = "closed", NEW m \in MatchesOf(k)
                 PROVE  match'[m].status = "closed"
      BY DEF ClosedRoundIsOver, MatchesOf
    <2>1. m \in Match
      BY DEF MatchesOf
    <2>2. CASE round[k] = "closed"
      BY <1>5, <2>1, <2>2 DEF IInv, Tables, ClosedRoundIsOver
    <2>3. CASE round[k] # "closed"
      <3>1. sess[s].cmd = "close"
        BY <2>3, CommitChanges
      <3>2. k = sess[s].round
        BY <2>3, <3>1, CommitChanges, Fields
      <3> QED BY <1>5, <2>1, <3>1, <3>2, CommitChanges
    <2> QED BY <2>2, <2>3
  <1>7. ClosedRoundIsDecided'
    <2> SUFFICES ASSUME NEW r \in Ride, ride'[r].state = "won_pending"
                 PROVE  round'[RoundOf[ride'[r].match]] = "open"
      BY DEF ClosedRoundIsDecided
    <2>1. CASE Has(pend[s], r)
      <3>1. Wrote(sess[s], r, ride'[r])
        BY <2>1, CommitChanges
      <3>2. sess[s].cmd = "resolve" /\ ride'[r].match = sess[s].match
        BY <3>1, WroteARow
      <3> QED BY <3>2, CommitChanges
    <2>2. CASE ~Has(pend[s], r)
      <3>1. ride'[r] = ride[r]
        BY <2>2, CommitChanges
      <3>2. round[RoundOf[ride[r].match]] = "open"
        BY <3>1 DEF IInv, Tables, ClosedRoundIsDecided
      <3>3. CASE sess[s].cmd = "close"
        <4>1. RoundOf[ride[r].match] # sess[s].round
          BY <2>2, <3>1, <3>3, CommitChanges DEF UndecidedIn
        <4>2. RoundOf[ride[r].match] \in Round
          BY <3>1, RoundOfMatch DEF IInv, Tables, RidesHaveMatches
        <4> QED BY <3>1, <3>2, <3>3, <4>1, <4>2, CommitChanges, Fields
      <3>4. CASE sess[s].cmd # "close"
        BY <3>1, <3>2, <3>4, CommitChanges
      <3> QED BY <3>3, <3>4
    <2> QED BY <2>1, <2>2
  <1> QED BY <1>2, <1>3, <1>4, <1>6, <1>7 DEF Tables

LEMMA CommitStep ==
  ASSUME IInv, NEW s \in Session, Commit(s)
  PROVE  IInv'
  <1>1. round' \in [Round -> {"created", "open", "closed"}]
    BY CommitChanges, Fields
  <1>2. TypeOK'
    BY <1>1, CommitChanges, Fields DEF TypeOK
  <1> QED BY <1>2, CommitKeepsRequests, CommitKeepsTables DEF IInv

-----------------------------------------------------------------------------
(* Steps outside of requests *)

\* An edit of a match that nobody is resolving.
LEMMA PatchStep ==
  ASSUME IInv, NEW m \in Match, NEW row \in MatchRow, Patch(m, row),
         row.status = "closed" <=> row.endedAt # NotEnded,
         match[m].status = "closed" => row.status = "closed",
         row.endedAt # NotEnded => row.startsAt < row.endedAt,
         row.version = match[m].version
  PROVE  IInv'
  <1>1. PICK new : new = [row EXCEPT !.version = row.version + 1]
    OBVIOUS
  <1>2. row.version \in Nat /\ row.version + 1 \in Nat
    BY DEF MatchRow
  <1>3. /\ new \in MatchRow /\ new.status = row.status /\ new.endedAt = row.endedAt
        /\ new.startsAt = row.startsAt /\ new.version = row.version + 1
    BY <1>1, <1>2 DEF MatchRow
  <1>4. match' = [match EXCEPT ![m] = new] /\ UNCHANGED <<now, ride, round, sess, pend>>
    BY <1>1 DEF Patch
  <1>5. match' \in [Match -> MatchRow] /\ match'[m] = new /\ \A o \in Match \ {m} : match'[o] = match[o]
    BY <1>3, <1>4 DEF IInv, TypeOK
  <1>6. new.version > match[m].version
    BY <1>2, <1>3
  <1>7. TypeOK'
    BY <1>4, <1>5 DEF IInv, TypeOK
  <1>8. Tables'
    BY <1>3, <1>4, <1>5 DEF IInv, Tables, RidesHaveMatches, ClosedHasEnded, ClosedRoundIsOver,
       ClosedRoundIsDecided, EndsAfterStart, MatchesOf
  <1>9. ASSUME NEW o \in Session PROVE Fine(sess[o], pend[o])'
    <2>1. Fine(sess[o], pend[o]) /\ sess[o] \in SessionState
      BY Fields
    <2>2. HoldsMatch(sess[o]) => sess[o].match # m /\ sess[o].match \in Match
      BY <2>1 DEF Patch, ResolvedBy, HoldsMatch, Fine, Shape, ShapeByCommand
    <2>3. HoldsMatch(sess[o]) => match'[sess[o].match] = match[sess[o].match]
      BY <1>5, <2>2
    <2>4. \A j \in Match : match'[j] = match[j] \/ match'[j].version > match[j].version
      BY <1>5, <1>6
    <2>5. \A j \in Match : match[j].status = "closed" => match'[j].status = "closed"
      BY <1>3, <1>5
    <2>6. sess[o].cmd = "create" => ride'[sess[o].row].state = "absent"
      BY <1>4, <2>1 DEF Fine, ReadRide
    <2>7. Shares(sess[o]) => round'[RoundOf[sess[o].seen.match]] = "open"
      BY <1>4, <2>1 DEF Fine, ReadRound
    <2>8. Flipped(sess[o]) =>
            /\ round'[sess[o].round] = "open"
            /\ NextInSequence(sess[o].round)'
            /\ \A r \in Ride : ride'[r].state = "won_pending" /\ RoundOf[ride'[r].match] = sess[o].round
                   => r \in UndecidedIn(sess[o].round)
      BY <1>4, <2>1 DEF Fine, ReadRound, NextInSequence, UndecidedIn
    <2> QED BY <1>4, <1>5, <2>3, <2>4, <2>5, <2>6, <2>7, <2>8, OthersStay, Fields
  <1>10. Exclusion'
    BY <1>4 DEF IInv, Exclusion
  <1> QED BY <1>7, <1>8, <1>9, <1>10 DEF IInv, Requests

LEMMA StartMatchStep ==
  ASSUME IInv, NEW m \in Match, StartMatch(m)
  PROVE  IInv'
  <1>1. PICK row : row = [match[m] EXCEPT !.status = "in_progress"]
    OBVIOUS
  <1>2. match[m] \in MatchRow /\ match[m].status = "created" /\ match[m].endedAt = NotEnded
    BY DEF StartMatch, IInv, TypeOK, Tables, ClosedHasEnded
  <1>3. row \in MatchRow /\ row.status = "in_progress" /\ row.endedAt = NotEnded /\ row.version = match[m].version
    BY <1>1, <1>2 DEF MatchRow
  <1>4. Patch(m, row)
    BY <1>1 DEF StartMatch
  <1> QED BY <1>2, <1>3, <1>4, PatchStep

LEMMA CorrectScoreStep ==
  ASSUME IInv, NEW m \in Match, NEW winner \in Team \cup {NoTeam}, CorrectScore(m, winner)
  PROVE  IInv'
  <1>1. PICK row : row = [match[m] EXCEPT !.winner = winner]
    OBVIOUS
  <1>2. match[m] \in MatchRow
    BY DEF IInv, TypeOK
  <1>3. /\ row \in MatchRow /\ row.status = match[m].status /\ row.endedAt = match[m].endedAt
        /\ row.version = match[m].version /\ row.startsAt = match[m].startsAt
    BY <1>1, <1>2 DEF MatchRow
  <1>4. Patch(m, row)
    BY <1>1 DEF CorrectScore
  <1>5. /\ row.status = "closed" <=> row.endedAt # NotEnded
        /\ row.endedAt # NotEnded => row.startsAt < row.endedAt
    BY <1>3 DEF IInv, Tables, ClosedHasEnded, EndsAfterStart
  <1> QED BY <1>3, <1>4, <1>5, PatchStep

LEMMA RescheduleStep ==
  ASSUME IInv, NEW m \in Match, NEW startsAt \in Slots, Reschedule(m, startsAt)
  PROVE  IInv'
  <1>1. PICK row : row = [match[m] EXCEPT !.startsAt = startsAt]
    OBVIOUS
  <1>2. match[m] \in MatchRow /\ startsAt \in Nat
    BY BoundAssumption DEF IInv, TypeOK, BoundAssumption
  <1>3. /\ row \in MatchRow /\ row.status = match[m].status /\ row.endedAt = match[m].endedAt
        /\ row.version = match[m].version /\ row.startsAt = startsAt
    BY <1>1, <1>2 DEF MatchRow
  <1>4. Patch(m, row)
    BY <1>1 DEF Reschedule
  <1>5. /\ row.status = "closed" <=> row.endedAt # NotEnded
        /\ row.endedAt # NotEnded => row.startsAt < row.endedAt
    BY <1>3 DEF IInv, Tables, ClosedHasEnded, Reschedule
  <1> QED BY <1>3, <1>4, <1>5, PatchStep

\* An opening, or a close without one, of the round that is next.
LEMMA RoundStep ==
  ASSUME IInv, NEW k \in Round, NEW st \in {"open", "closed"},
         round[k] = "created", NextInSequence(k), round' = [round EXCEPT ![k] = st],
         st = "closed" => \A m \in MatchesOf(k) : match[m].status = "closed",
         UNCHANGED <<now, ride, match, sess, pend>>
  PROVE  IInv'
  <1>1. round' \in [Round -> {"created", "open", "closed"}] /\ round'[k] = st
        /\ \A j \in Round \ {k} : round'[j] = round[j]
    BY DEF IInv, TypeOK
  <1>2. TypeOK'
    BY <1>1 DEF IInv, TypeOK
  <1>3. RidesHaveMatches' /\ ClosedHasEnded' /\ EndsAfterStart'
    BY DEF IInv, Tables, RidesHaveMatches, ClosedHasEnded, EndsAfterStart
  <1>4. ClosedRoundIsOver'
    BY <1>1 DEF IInv, Tables, ClosedRoundIsOver, MatchesOf
  <1>5. ClosedRoundIsDecided'
    <2> SUFFICES ASSUME NEW r \in Ride, ride[r].state = "won_pending"
                 PROVE  round'[RoundOf[ride[r].match]] = "open"
      BY DEF ClosedRoundIsDecided
    <2>1. round[RoundOf[ride[r].match]] = "open" /\ RoundOf[ride[r].match] \in Round
      BY RoundOfMatch DEF IInv, Tables, ClosedRoundIsDecided, RidesHaveMatches
    <2> QED BY <1>1, <2>1
  <1>6. ASSUME NEW o \in Session PROVE Fine(sess[o], pend[o])'
    <2>1. Fine(sess[o], pend[o]) /\ sess[o] \in SessionState
      BY Fields
    <2>2. sess[o].cmd = "create" => ride'[sess[o].row].state = "absent"
      BY <2>1 DEF Fine, ReadRide
    <2>3. Shares(sess[o]) => round'[RoundOf[sess[o].seen.match]] = "open"
      <3> SUFFICES ASSUME Shares(sess[o]) PROVE round'[RoundOf[sess[o].seen.match]] = "open"
        OBVIOUS
      <3>1. RoundOf[sess[o].seen.match] \in Round /\ round[RoundOf[sess[o].seen.match]] = "open"
        BY <2>1, RoundOfMatch DEF Fine, ReadRound, Shares, Shape, ShapeByCommand, Player
      <3> QED BY <1>1, <3>1
    <2>4. ASSUME Flipped(sess[o])
          PROVE  /\ round'[sess[o].round] = "open"
                 /\ NextInSequence(sess[o].round)'
                 /\ \A r \in Ride : ride'[r].state = "won_pending" /\ RoundOf[ride'[r].match] = sess[o].round
                        => r \in UndecidedIn(sess[o].round)
      <3>1. sess[o].round \in Round /\ round[sess[o].round] = "open" /\ NextInSequence(sess[o].round)
        BY <2>1, <2>4 DEF Fine, ReadRound, SessionState
      <3>2. FALSE
        BY <3>1, NextIsUnique
      <3> QED BY <3>2
    <2>5. \A j \in Round : round[j] # "created" => round'[j] # "created"
      BY <1>1
    <2> QED BY <2>2, <2>3, <2>4, <2>5, OthersStay, Fields
  <1>7. Exclusion'
    BY DEF IInv, Exclusion
  <1> QED BY <1>2, <1>3, <1>4, <1>5, <1>6, <1>7 DEF IInv, Requests, Tables

LEMMA OpenRoundStep ==
  ASSUME IInv, NEW k \in Round, OpenRound(k) \/ CloseUnopened(k)
  PROVE  IInv'
  BY RoundStep DEF OpenRound, CloseUnopened

LEMMA TickStep ==
  ASSUME IInv, Tick
  PROVE  IInv'
  <1>1. UNCHANGED <<ride, match, round, pend>> /\ now' \in Nat
    BY DEF Tick, IInv, TypeOK
  <1>2. ASSUME NEW s \in Session
        PROVE  /\ sess'[s] \in SessionState
               /\ sess'[s].cmd = sess[s].cmd /\ sess'[s].pc = sess[s].pc /\ sess'[s].row = sess[s].row
               /\ sess'[s].seen = sess[s].seen /\ sess'[s].match = sess[s].match
               /\ sess'[s].winner = sess[s].winner /\ sess'[s].round = sess[s].round
               /\ sess'[s].version = sess[s].version /\ sess'[s].at = sess[s].at
               /\ sess'[s].todo = sess[s].todo
               /\ sess[s].pc = "idle" => sess'[s] = Idle
    <2>1. sess[s] \in SessionState
      BY Fields
    <2>2. sess'[s] = [sess[s] EXCEPT !.late = (sess[s].pc # "idle")]
      BY DEF Tick
    <2>3. (sess[s].pc # "idle") \in BOOLEAN
      OBVIOUS
    <2>4. sess[s].pc = "idle" => sess'[s] = Idle
      <3> SUFFICES ASSUME sess[s].pc = "idle" PROVE sess'[s] = Idle
        OBVIOUS
      <3>1. sess[s] = Idle
        BY Fields DEF Shape, ShapeByStep
      <3>2. sess'[s] = [Idle EXCEPT !.late = FALSE]
        BY <2>2, <3>1 DEF Idle
      <3> QED BY <3>2 DEF Idle
    <2> QED BY <2>1, <2>2, <2>3, <2>4 DEF SessionState
  <1>3. sess' \in [Session -> SessionState]
    <2>1. sess' = [s \in Session |-> sess'[s]]
      BY DEF Tick
    <2> QED BY <1>2, <2>1
  <1>4. TypeOK'
    BY <1>1, <1>3 DEF IInv, TypeOK
  <1>5. Tables'
    BY <1>1 DEF IInv, Tables, RidesHaveMatches, ClosedHasEnded, ClosedRoundIsOver, ClosedRoundIsDecided,
       EndsAfterStart
  <1>6. ASSUME NEW s \in Session PROVE Fine(sess[s], pend[s])'
    <2>1. Fine(sess[s], pend[s])
      BY Fields
    <2>2. Shape(sess'[s])
      BY <1>2, <2>1 DEF Fine, Shape, ShapeByStep, ShapeByCommand
    <2>3. Written(sess[s], pend[s])'
      BY <1>1, <1>2, <2>1 DEF Fine, Written, Wrote
    <2>4. ReadRide(sess[s])' /\ ReadMatch(sess[s])'
      BY <1>1, <1>2, <2>1 DEF Fine, ReadRide, ReadMatch, HoldsMatch
    <2>5. ReadRound(sess[s], pend[s])'
      BY <1>1, <1>2, <2>1 DEF Fine, ReadRound, Shares, Flipped, NextInSequence, UndecidedIn
    <2> QED BY <2>2, <2>3, <2>4, <2>5 DEF Fine
  <1>7. Exclusion'
    BY <1>1, <1>2 DEF IInv, Exclusion, Apart, HoldsMatch, Flipped, Shares
  <1> QED BY <1>4, <1>5, <1>6, <1>7 DEF IInv, Requests

LEMMA StutterStep == ASSUME IInv, UNCHANGED vars PROVE IInv'
  <1>1. UNCHANGED <<now, ride, match, round, sess, pend>>
    BY DEF vars
  <1>2. TypeOK' /\ Tables' /\ Exclusion'
    BY <1>1 DEF IInv, TypeOK, Tables, RidesHaveMatches, ClosedHasEnded, ClosedRoundIsOver,
       ClosedRoundIsDecided, EndsAfterStart, Exclusion
  <1>3. Requests'
    BY <1>1 DEF IInv, Requests, Fine, Written, Wrote, ReadRide, ReadMatch, ReadRound, NextInSequence, UndecidedIn
  <1> QED BY <1>2, <1>3 DEF IInv

-----------------------------------------------------------------------------
(* Every step *)

\* A step of a request either commits or leaves the tables alone.
LEMMA RequestStep ==
  ASSUME IInv, NEW s \in Session, Begin(s) \/ Progress(s) \/ Cancel(s)
  PROVE  IInv' /\ (Commit(s) \/ AllFree)
  <1>1. CASE Begin(s)
    <2>1. ASSUME NEW r \in Ride, NEW m \in Match, NEW t \in Team, BeginCreate(s, r, m, t)
          PROVE  IInv' /\ AllFree
      BY <2>1, BeginCreateStep DEF BeginCreate
    <2>2. ASSUME NEW r \in Ride, NEW cmd \in Decision, BeginDecision(s, r, cmd)
          PROVE  IInv' /\ AllFree
      BY <2>2, BeginDecisionStep DEF BeginDecision
    <2>3. ASSUME NEW m \in Match, NEW winner \in {HomeTeam[m], AwayTeam[m], NoTeam}, BeginResolve(s, m, winner)
          PROVE  IInv' /\ AllFree
      <3>1. winner \in Team \cup {NoTeam}
        BY ScheduleAssumption DEF ScheduleAssumption
      <3>2. AllFree
        BY <2>3 DEF BeginResolve
      <3> QED BY <2>3, <3>1, <3>2, BeginResolveStep
    <2>4. ASSUME NEW k \in Round, BeginClose(s, k) PROVE IInv' /\ AllFree
      BY <2>4, BeginCloseStep DEF BeginClose
    <2> QED BY <1>1, <2>1, <2>2, <2>3, <2>4 DEF Begin
  <1>2. CASE Progress(s)
    <2>1. CASE ReadPhase(s)
      <3>1. AllFree
        BY <2>1 DEF ReadPhase, StepOrEnd, End
      <3> QED BY <2>1, <3>1, ReadPhaseStep
    <2>2. CASE InsertGuarded(s)
      <3>1. AllFree
        BY <2>2 DEF InsertGuarded, End
      <3> QED BY <2>2, <3>1, InsertGuardedStep
    <2>3. CASE NextForTeam(s)
      <3>1. AllFree
        BY <2>3 DEF NextForTeam, End
      <3> QED BY <2>3, <3>1, NextForTeamStep
    <2>4. CASE SnapshotGuarded(s)
      <3>1. AllFree
        BY <2>4 DEF SnapshotGuarded, StepOrEnd, End
      <3> QED BY <2>4, <3>1, SnapshotGuardedStep
    <2>5. CASE UpdateGuarded(s)
      <3>1. AllFree
        BY <2>5 DEF UpdateGuarded, End
      <3> QED BY <2>5, <3>1, UpdateGuardedStep
    <2>6. CASE ResolveMatchRow(s)
      <3>1. AllFree
        BY <2>6 DEF ResolveMatchRow, StepOrEnd, End
      <3> QED BY <2>6, <3>1, ResolveMatchRowStep
    <2>7. CASE SettleRides(s)
      <3>1. AllFree
        BY <2>7 DEF SettleRides
      <3> QED BY <2>7, <3>1, SettleRidesStep
    <2>8. ASSUME NEW r \in Ride, NEW m \in Match, SweepRide(s, r, m) PROVE IInv' /\ AllFree
      <3>1. AllFree
        BY <2>8 DEF SweepRide
      <3> QED BY <2>8, <3>1, SweepRideStep
    <2>9. CASE FlipRound(s)
      <3>1. AllFree
        BY <2>9 DEF FlipRound, StepOrEnd, End
      <3> QED BY <2>9, <3>1, FlipRoundStep
    <2>10. CASE AbortDeadlock(s)
      <3>1. End(s)
        BY <2>10 DEF AbortDeadlock
      <3> QED BY <3>1, EndStep DEF End
    <2>11. CASE Commit(s)
      BY <2>11, CommitStep
    <2> QED BY <1>2, <2>1, <2>2, <2>3, <2>4, <2>5, <2>6, <2>7, <2>8, <2>9, <2>10, <2>11 DEF Progress
  <1>3. CASE Cancel(s)
    <2>1. End(s)
      BY <1>3 DEF Cancel
    <2> QED BY <2>1, EndStep DEF End
  <1> QED BY <1>1, <1>2, <1>3

\* Only a commit changes a ride.
LEMMA RidesChangeByCommit ==
  ASSUME IInv, [Next]_vars, NEW r \in Ride, ride'[r] # ride[r]
  PROVE  \E s \in Session : Commit(s)
  <1>1. ASSUME NEW s \in Session, Begin(s) \/ Progress(s) \/ Cancel(s), ~Commit(s) PROVE FALSE
    BY <1>1, RequestStep DEF AllFree
  <1>2. ASSUME NEW m \in Match, NEW row, Patch(m, row) PROVE FALSE
    BY <1>2 DEF Patch
  <1>3. \A k \in Round : ~OpenRound(k) /\ ~CloseUnopened(k)
    BY DEF OpenRound, CloseUnopened
  <1>4. \A m \in Match : ~StartMatch(m)
    BY <1>2 DEF StartMatch
  <1>5. \A m \in Match, winner \in Team \cup {NoTeam} : ~CorrectScore(m, winner)
    BY <1>2 DEF CorrectScore
  <1>6. \A m \in Match, startsAt \in Slots : ~Reschedule(m, startsAt)
    BY <1>2 DEF Reschedule
  <1>7. ~Tick /\ ~UNCHANGED vars
    BY DEF Tick, vars
  <1> QED BY <1>1, <1>3, <1>4, <1>5, <1>6, <1>7 DEF Next

LEMMA NextKeepsIInv == IInv /\ [Next]_vars => IInv'
  <1> SUFFICES ASSUME IInv, [Next]_vars PROVE IInv'
    OBVIOUS
  <1>1. CASE \E s \in Session : Begin(s) \/ Progress(s) \/ Cancel(s)
    BY <1>1, RequestStep
  <1>2. CASE \E k \in Round : OpenRound(k) \/ CloseUnopened(k)
    BY <1>2, OpenRoundStep
  <1>3. CASE \E m \in Match : StartMatch(m)
    BY <1>3, StartMatchStep
  <1>4. CASE \E m \in Match, winner \in Team \cup {NoTeam} : CorrectScore(m, winner)
    BY <1>4, CorrectScoreStep
  <1>5. CASE \E m \in Match, startsAt \in Slots : Reschedule(m, startsAt)
    BY <1>5, RescheduleStep
  <1>6. CASE Tick
    BY <1>6, TickStep
  <1>7. CASE UNCHANGED vars
    BY <1>7, StutterStep
  <1> QED BY <1>1, <1>2, <1>3, <1>4, <1>5, <1>6, <1>7 DEF Next

\* What requests have read and written fits the tables, in every state of
\* every schedule.
THEOREM Invariance == Spec => []IInv
<1> QED BY InitSatisfiesIInv, NextKeepsIInv, PTL DEF Spec

\* The tables and the requests stay what their types say.
THEOREM TypeCorrect == Spec => []TypeOK
<1>1. IInv => TypeOK
  BY DEF IInv
<1> QED BY <1>1, Invariance, PTL

\* A closed round owns no undecided ride, between any two commits: not only at
\* the instant rounds_close_gate looked.
THEOREM ClosedRoundStaysDecided == Spec => []ClosedRoundIsDecided
<1>1. IInv => ClosedRoundIsDecided
  BY DEF IInv, Tables
<1> QED BY <1>1, Invariance, PTL

\* A match never ends before it starts, whatever is rescheduled while it is
\* being resolved.
THEOREM EndFollowsStart == Spec => []EndsAfterStart
<1>1. IInv => EndsAfterStart
  BY DEF IInv, Tables
<1> QED BY <1>1, Invariance, PTL

\* What a request has written and not committed is a successor of the row as
\* committed, and nobody else has written that row.
THEOREM UpdatesAreNotLost == Spec => []NoLostUpdate
<1>1. IInv => NoLostUpdate
  <2> SUFFICES ASSUME IInv, NEW s \in Session, NEW r \in Ride, Holds(s, r)
               PROVE  pend[s][r] \in Successors(ride[r]) /\ RideFree(s, r)
    BY DEF NoLostUpdate
  <2>1. Wrote(sess[s], r, pend[s][r]) /\ Shape(sess[s]) /\ ride[r] \in RideRow
    BY Fields DEF Fine, Written, Has, Holds
  <2>2. RideFree(s, r)
    BY DEF RideFree, Holds, IInv, Exclusion, Apart, Has
  <2>3. {"burned", "unlocked", "lost", "won_pending"} \subseteq TerminalState \cup {"won_pending"}
    BY DEF TerminalState
  <2>4. CASE ride[r].state = "absent" /\ sess[s].cmd = "create"
             /\ pend[s][r] = CreatedRide(sess[s].seen.match, sess[s].seen.team)
    <3>1. sess[s].seen.match \in Match /\ sess[s].seen.team \in Team
      BY <2>1, <2>4 DEF Shape, ShapeByCommand, Player
    <3> QED BY <2>2, <2>4, <3>1 DEF Successors
  <2>5. CASE ride[r].state = "won_pending" /\ pend[s][r] \in Rules!Decisions(ride[r])
    <3>1. \/ \E m \in Match : pend[s][r] = LockedOnto(ride[r], m)
          \/ \E st \in {"burned", "unlocked"} : pend[s][r] = EndedAs(ride[r], st)
      BY <2>1, <2>5, DecidedRow
    <3> QED BY <2>2, <2>3, <2>5, <3>1 DEF Successors
  <2>6. CASE ride[r].state = "locked" /\ pend[s][r] = SettledBy(ride[r], sess[s].winner)
    <3>1. pend[s][r] = EndedAs(ride[r], IF ride[r].team = sess[s].winner THEN "won_pending" ELSE "lost")
      BY <2>1, <2>6, SettledRow
    <3> QED BY <2>2, <2>3, <2>6, <3>1 DEF Successors
  <2>7. CASE ride[r].state = "won_pending" /\ pend[s][r] = AutoResolved(ride[r], sess[s].round)
    <3>1. pend[s][r] = EndedAs(ride[r], IF sess[s].round = LastRound THEN "burned" ELSE "unlocked")
      BY <2>1, <2>7, AutoResolvedRow
    <3> QED BY <2>2, <2>3, <2>7, <3>1 DEF Successors
  <2> QED BY <2>1, <2>4, <2>5, <2>6, <2>7 DEF Wrote
<1> QED BY <1>1, Invariance, PTL

-----------------------------------------------------------------------------
(* The service implements the rules *)

LEMMA InitOfTheRules == Init => Rules!Init
  BY RowsOfTheRules DEF Init, Rules!Init, NewMatch, Rules!ScheduledMatch

\* What RideRules sees when a request commits.
LEMMA CommitImplements ==
  ASSUME IInv, NEW s \in Session, Commit(s)
  PROVE  Rules!Next \/ UNCHANGED Rules!vars
  <1>1. PICK q, p : q = sess[s] /\ p = pend[s]
    OBVIOUS
  <1>2. /\ q.pc = "commit" /\ Shape(q) /\ q.cmd \in Command /\ q \in SessionState
        /\ ride \in [Ride -> RideRow] /\ match \in [Match -> MatchRow]
        /\ ride' \in [Ride -> RideRow] /\ match' \in [Match -> MatchRow]
    BY <1>1, Fields, CommitChanges DEF Commit, Shape, ShapeByStep
  <1>3. \A r \in Ride : IF Has(p, r) THEN Wrote(q, r, ride'[r]) ELSE ride'[r] = ride[r]
    BY <1>1, CommitChanges
  <1>4. CASE q.cmd \in Player
    <2>1. match' = match /\ round' = round
      BY <1>1, <1>4, CommitChanges DEF Player, Decision
    <2>2. \A r \in Ride : Has(p, r) => r = q.row
      BY <1>3, <1>4 DEF Wrote, Player, Decision
    <2>3. q.row \in Ride /\ q.seen.match \in Match
      BY <1>2, <1>4 DEF Shape, ShapeByCommand
    <2>4. ride' = [ride EXCEPT ![q.row] = ride'[q.row]]
      BY <1>2, <1>3, <2>2, <2>3
    <2>5. CASE ~Has(p, q.row)
      <3>1. ride' = ride
        BY <1>2, <1>3, <2>2, <2>5
      <3> QED BY <2>1, <3>1 DEF Rules!vars
    <2>6. CASE Has(p, q.row) /\ q.cmd = "create"
      <3>1. ride[q.row].state = "absent" /\ ride'[q.row] = CreatedRide(q.seen.match, q.seen.team)
        BY <1>3, <2>3, <2>6 DEF Wrote, Decision
      <3>2. q.seen.team \in Team
        BY <1>2, <2>6 DEF Shape, ShapeByCommand
      <3>3. round[RoundOf[q.seen.match]] = "open"
        BY <1>1, <1>2, <2>6, Fields DEF Fine, ReadRound, Shares
      <3>4. Rules!Create(q.row, q.seen.match, q.seen.team)
        BY <2>1, <2>4, <3>1, <3>3, RowsOfTheRules DEF Rules!Create
      <3> QED BY <2>3, <3>2, <3>4 DEF Rules!Next
    <2>7. CASE Has(p, q.row) /\ q.cmd # "create"
      <3>1. ride[q.row].state = "won_pending" /\ ride'[q.row] \in Rules!Decisions(ride[q.row])
        BY <1>3, <1>4, <2>3, <2>7 DEF Wrote, Player, Decision
      <3>2. round[RoundOf[ride[q.row].match]] = "open"
        BY <2>3, <3>1 DEF IInv, Tables, ClosedRoundIsDecided
      <3>3. Rules!Decide(q.row, ride'[q.row])
        BY <2>1, <2>4, <3>1, <3>2 DEF Rules!Decide
      <3> QED BY <2>3, <3>1, <3>3 DEF Rules!Next
    <2> QED BY <2>5, <2>6, <2>7
  <1>5. CASE q.cmd = "resolve"
    <2>1. PICK m : m = q.match
      OBVIOUS
    <2>2. /\ m \in Match /\ match[m].status = "in_progress" /\ round[RoundOf[m]] = "open"
          /\ match' = [match EXCEPT ![m] = match'[m]]
          /\ match'[m].status = "closed" /\ match'[m].winner = q.winner
          /\ round' = round
      BY <1>1, <1>5, <2>1, CommitChanges
    <2>3. q.winner \in Team \cup {NoTeam}
      BY <1>2 DEF SessionState
    <2>4. PICK settled : settled = {r \in Ride : Has(p, r)}
      OBVIOUS
    <2>5. \A r \in settled : /\ r \in Ride /\ ride[r].state = "locked" /\ ride[r].match = m
                             /\ ride'[r] = SettledBy(ride[r], q.winner)
      BY <1>3, <1>5, <2>1, <2>4 DEF Wrote, Decision
    <2>6. settled \in SUBSET Rules!LockedOn(m)
      BY <2>5 DEF Rules!LockedOn
    <2>7. ride' = [r \in Ride |-> IF r \in settled THEN Rules!SettledBy(ride[r], q.winner) ELSE ride[r]]
      BY <1>2, <1>3, <2>4, <2>5, RowsOfTheRules
    <2>8. [j \in Match |-> [status |-> match'[j].status, winner |-> match'[j].winner]] =
            [[j \in Match |-> [status |-> match[j].status, winner |-> match[j].winner]]
                EXCEPT ![m] = [status |-> "closed", winner |-> q.winner]]
      BY <1>2, <2>2
    <2>9. Rules!Resolve(m, q.winner, settled)
      BY <2>2, <2>7, <2>8 DEF Rules!Resolve
    <2> QED BY <2>2, <2>3, <2>6, <2>9 DEF Rules!Next
  <1>6. CASE q.cmd = "close"
    <2>1. PICK k : k = q.round
      OBVIOUS
    <2>2. /\ k \in Round /\ round[k] = "open" /\ NextInSequence(k)
          /\ round' = [round EXCEPT ![k] = "closed"] /\ match' = match
          /\ \A m \in MatchesOf(k) : match[m].status = "closed"
          /\ \A r \in UndecidedIn(k) : Has(p, r)
      BY <1>1, <1>6, <2>1, CommitChanges
    <2>3. \A r \in Ride : r \in Rules!Undecided(k) <=> r \in UndecidedIn(k)
      BY DEF Rules!Undecided, Rules!InRound, UndecidedIn
    <2>4. \A r \in Ride : IF r \in UndecidedIn(k) THEN ride'[r] = AutoResolved(ride[r], k)
                                                  ELSE ride'[r] = ride[r]
      BY <1>3, <1>6, <2>1, <2>2 DEF Wrote, UndecidedIn, Decision
    <2>5. ride' = [r \in Ride |-> IF r \in Rules!Undecided(k) THEN Rules!AutoResolved(ride[r], k) ELSE ride[r]]
      BY <1>2, <2>3, <2>4, RowsOfTheRules
    <2>6. Rules!NextInSequence(k)
      BY <2>2, RowsOfTheRules DEF NextInSequence, Rules!NextInSequence
    <2>7. \A m \in Rules!MatchesOf(k) :
            [j \in Match |-> [status |-> match[j].status, winner |-> match[j].winner]][m].status = "closed"
      BY <2>2, RowsOfTheRules DEF MatchesOf
    <2>8. Rules!Close(k)
      BY <2>2, <2>5, <2>6, <2>7 DEF Rules!Close
    <2> QED BY <2>2, <2>8, RowsOfTheRules DEF Rules!Next
  <1> QED BY <1>2, <1>4, <1>5, <1>6 DEF Command, Player, Decision

LEMMA StepImplements == IInv /\ [Next]_vars => [Rules!Next]_(Rules!vars)
  <1> SUFFICES ASSUME IInv, [Next]_vars PROVE Rules!Next \/ UNCHANGED Rules!vars
    OBVIOUS
  <1>1. ASSUME NEW s \in Session, Begin(s) \/ Progress(s) \/ Cancel(s)
        PROVE  Rules!Next \/ UNCHANGED Rules!vars
    <2>1. CASE Commit(s)
      BY <2>1, CommitImplements
    <2>2. CASE AllFree
      BY <2>2 DEF AllFree, Rules!vars
    <2> QED BY <1>1, <2>1, <2>2, RequestStep
  <1>2. ASSUME NEW k \in Round, OpenRound(k) \/ CloseUnopened(k)
        PROVE  Rules!Next
    <2>1. Rules!NextInSequence(k)
      BY <1>2, RowsOfTheRules DEF OpenRound, CloseUnopened, NextInSequence, Rules!NextInSequence
    <2>2. CASE OpenRound(k)
      BY <2>1, <2>2, RowsOfTheRules DEF OpenRound, Rules!Open, Rules!Next
    <2>3. CASE CloseUnopened(k)
      <3>1. \A m \in Rules!MatchesOf(k) :
              [j \in Match |-> [status |-> match[j].status, winner |-> match[j].winner]][m].status = "closed"
        BY <2>3, RowsOfTheRules DEF MatchesOf, CloseUnopened
      <3>2. Rules!Skip(k)
        BY <2>1, <2>3, <3>1 DEF CloseUnopened, Rules!Skip
      <3> QED BY <3>2, RowsOfTheRules DEF Rules!Next
    <2> QED BY <1>2, <2>2, <2>3
  <1>3. ASSUME NEW m \in Match, StartMatch(m) PROVE Rules!Next
    <2>1. match[m].status = "created" /\ match \in [Match -> MatchRow] /\ UNCHANGED <<ride, round>>
      BY <1>3 DEF StartMatch, Patch, IInv, TypeOK
    <2>2. /\ match'[m].status = "in_progress" /\ match'[m].winner = match[m].winner
          /\ \A j \in Match \ {m} : match'[j] = match[j]
      BY <1>3, <2>1 DEF StartMatch, Patch, MatchRow
    <2>3. [j \in Match |-> [status |-> match'[j].status, winner |-> match'[j].winner]] =
            [[j \in Match |-> [status |-> match[j].status, winner |-> match[j].winner]]
                EXCEPT ![m].status = "in_progress"]
      BY <2>2
    <2>4. Rules!Start(m)
      BY <2>1, <2>3 DEF Rules!Start
    <2> QED BY <2>4 DEF Rules!Next
  <1>4. ASSUME NEW m \in Match, NEW winner \in Team \cup {NoTeam}, CorrectScore(m, winner)
        PROVE  Rules!Next
    <2>1. match[m].status = "closed" /\ match \in [Match -> MatchRow] /\ UNCHANGED <<ride, round>>
      BY <1>4 DEF CorrectScore, Patch, IInv, TypeOK
    <2>2. /\ match'[m].status = match[m].status /\ match'[m].winner = winner
          /\ \A j \in Match \ {m} : match'[j] = match[j]
      BY <1>4, <2>1 DEF CorrectScore, Patch, MatchRow
    <2>3. [j \in Match |-> [status |-> match'[j].status, winner |-> match'[j].winner]] =
            [[j \in Match |-> [status |-> match[j].status, winner |-> match[j].winner]]
                EXCEPT ![m].winner = winner]
      BY <2>2
    <2>4. Rules!Correct(m, winner)
      BY <2>1, <2>3 DEF Rules!Correct
    <2> QED BY <2>4 DEF Rules!Next
  <1>5. ASSUME NEW m \in Match, NEW startsAt \in Slots, Reschedule(m, startsAt)
        PROVE  UNCHANGED Rules!vars
    <2>1. match \in [Match -> MatchRow] /\ UNCHANGED <<ride, round>>
      BY <1>5 DEF Reschedule, Patch, IInv, TypeOK
    <2>2. \A j \in Match : match'[j].status = match[j].status /\ match'[j].winner = match[j].winner
      BY <1>5, <2>1 DEF Reschedule, Patch, MatchRow
    <2> QED BY <2>1, <2>2 DEF Rules!vars
  <1>6. CASE Tick
    BY <1>6 DEF Tick, Rules!vars
  <1>7. CASE UNCHANGED vars
    BY <1>7 DEF vars, Rules!vars
  <1> QED BY <1>1, <1>2, <1>3, <1>4, <1>5, <1>6, <1>7 DEF Next

\* Every schedule of requests, deadlines and crashes shows the tables only
\* changes RideRules makes in single steps: the ride commands are atomic.
THEOREM ServiceImplementsRules == Spec => ImplementsRules
<1> QED BY InitOfTheRules, StepImplements, Invariance, PTL DEF Spec, ImplementsRules, Rules!Spec

\* A locked ride changes only in the step that closes its match, and to what
\* that result makes of it.
THEOREM SettledTogether == Spec => SettledWithItsMatch
<1> DEFINE Settled == \A r \in Ride : ride[r].state = "locked" /\ ride'[r] # ride[r] =>
         LET m == ride[r].match IN
         /\ match[m].status = "in_progress" /\ match'[m].status = "closed"
         /\ (ride'[r].state = "won_pending") <=> (ride[r].team = match'[m].winner)
<1>1. IInv /\ [Next]_vars => [Settled]_vars
  <2> SUFFICES ASSUME IInv, [Next]_vars, NEW r \in Ride, ride[r].state = "locked", ride'[r] # ride[r]
               PROVE  LET m == ride[r].match IN
                      /\ match[m].status = "in_progress" /\ match'[m].status = "closed"
                      /\ (ride'[r].state = "won_pending") <=> (ride[r].team = match'[m].winner)
    OBVIOUS
  <2>1. \E s \in Session : Commit(s)
    BY RidesChangeByCommit
  <2>2. PICK s \in Session : Commit(s)
    BY <2>1
  <2>3. Wrote(sess[s], r, ride'[r]) /\ ride[r] \in RideRow
    BY <2>2, CommitChanges, Fields
  <2>4. sess[s].cmd = "resolve" /\ ride[r].match = sess[s].match /\ ride'[r] = SettledBy(ride[r], sess[s].winner)
    BY <2>3 DEF Wrote
  <2> QED BY <2>2, <2>3, <2>4, CommitChanges, SettledRow
<1> QED BY <1>1, Invariance, PTL DEF Spec, SettledWithItsMatch

\* Rounds and players never both decide: a commit that decides a ride decides
\* every undecided ride of a round it closes, or that one ride of an open one.
THEOREM DecidersExclude == Spec => OneDecider
<1> DEFINE Decider == \A r \in Ride : ride[r].state = "won_pending" /\ ride'[r] # ride[r] =>
         LET k == RoundOf[ride[r].match] IN
         IF round'[k] = "closed"
         THEN \A q \in UndecidedIn(k) : ride'[q] = AutoResolved(ride[q], k)
         ELSE \A q \in Ride \ {r} : ride'[q] = ride[q]
<1>1. IInv /\ [Next]_vars => [Decider]_vars
  <2> SUFFICES ASSUME IInv, [Next]_vars, NEW r \in Ride, ride[r].state = "won_pending", ride'[r] # ride[r]
               PROVE  LET k == RoundOf[ride[r].match] IN
                      IF round'[k] = "closed"
                      THEN \A q \in UndecidedIn(k) : ride'[q] = AutoResolved(ride[q], k)
                      ELSE \A q \in Ride \ {r} : ride'[q] = ride[q]
    OBVIOUS
  <2>1. PICK s \in Session : Commit(s)
    BY RidesChangeByCommit
  <2>2. Wrote(sess[s], r, ride'[r])
    BY <2>1, CommitChanges
  <2>3. round[RoundOf[ride[r].match]] = "open"
    BY DEF IInv, Tables, ClosedRoundIsDecided
  <2>4. CASE sess[s].cmd \in Decision
    <3>1. round' = round
      BY <2>1, <2>4, CommitChanges DEF Decision
    <3>2. r = sess[s].row
      BY <2>2, <2>4 DEF Wrote, Decision
    <3>3. \A q \in Ride \ {r} : ride'[q] = ride[q]
      BY <2>1, <2>4, <3>2, CommitChanges DEF Wrote, Decision
    <3> QED BY <2>3, <3>1, <3>3
  <2>5. CASE sess[s].cmd = "close"
    <3>1. RoundOf[ride[r].match] = sess[s].round
      BY <2>2, <2>5 DEF Wrote, Decision
    <3>2. round'[sess[s].round] = "closed"
      BY <2>1, <2>5, CommitChanges, Fields
    <3>3. \A q \in UndecidedIn(sess[s].round) : Wrote(sess[s], q, ride'[q])
      BY <2>1, <2>5, CommitChanges DEF UndecidedIn
    <3>4. \A q \in UndecidedIn(sess[s].round) : ride'[q] = AutoResolved(ride[q], sess[s].round)
      BY <2>5, <3>3 DEF Wrote, Decision
    <3> QED BY <3>1, <3>2, <3>4
  <2> QED BY <2>2, <2>4, <2>5 DEF Wrote
<1> QED BY <1>1, Invariance, PTL DEF Spec, OneDecider

-----------------------------------------------------------------------------
(* The ride gate *)

\* What makes the gate's demand for an empty bonus harmless: nothing the
\* service runs accrues one.
NothingAccrued == \A r \in Ride : ride[r].bonus = 0

LEMMA WritesAccrueNothing ==
  ASSUME IInv, NothingAccrued, NEW s \in Session, NEW r \in Ride, NEW new, Wrote(sess[s], r, new)
  PROVE  new.bonus = 0
  <1>1. ride[r] \in RideRow /\ ride[r].bonus = 0
    BY Fields DEF NothingAccrued
  <1>2. \A m : LockedOnto(ride[r], m).bonus = 0
    BY <1>1 DEF LockedOnto, RideRow
  <1>3. \A st : EndedAs(ride[r], st).bonus = 0
    BY <1>1 DEF EndedAs, RideRow
  <1>4. \A m, t : CreatedRide(m, t).bonus = 0
    BY DEF CreatedRide
  <1>5. \A winner : SettledBy(ride[r], winner).bonus = 0
    BY <1>1, <1>3, SettledRow
  <1>6. \A k : AutoResolved(ride[r], k).bonus = 0
    BY <1>3 DEF AutoResolved
  <1>7. CASE new \in Rules!Decisions(ride[r])
    BY <1>1, <1>2, <1>3, <1>7, DecidedRow
  <1> QED BY <1>4, <1>5, <1>6, <1>7 DEF Wrote

LEMMA BonusStaysEmpty == Spec => []NothingAccrued
<1>1. Init => NothingAccrued
  BY DEF Init, NothingAccrued, AbsentRide
<1>2. IInv /\ NothingAccrued /\ [Next]_vars => NothingAccrued'
  <2> SUFFICES ASSUME IInv, NothingAccrued, [Next]_vars, NEW r \in Ride
               PROVE  ride'[r].bonus = 0
    BY DEF NothingAccrued
  <2>1. CASE ride'[r] = ride[r]
    BY <2>1 DEF NothingAccrued
  <2>2. CASE ride'[r] # ride[r]
    <3>1. PICK s \in Session : Commit(s)
      BY <2>2, RidesChangeByCommit
    <3>2. Wrote(sess[s], r, ride'[r])
      BY <2>2, <3>1, CommitChanges
    <3> QED BY <3>2, WritesAccrueNothing
  <2> QED BY <2>1, <2>2
<1> QED BY <1>1, <1>2, Invariance, PTL DEF Spec

\* The trigger rides_state_gate accepts every transition the service writes:
\* the row is the one the request read, the scores are in the transaction's own
\* match row before the rides are settled, and no bonus is left to forfeit.
THEOREM GateAgrees == Spec => []GateNeverRefuses
<1>1. IInv /\ NothingAccrued => GateNeverRefuses
  <2> SUFFICES ASSUME IInv, NothingAccrued,
                      NEW s \in Session, NEW r \in Ride, Holds(s, r), ride[r].state # "absent"
               PROVE  RideGate(ride[r], pend[s][r], MatchSeen(s, pend[s][r].match))
    BY DEF GateNeverRefuses
  <2>1. Wrote(sess[s], r, pend[s][r]) /\ ride[r] \in RideRow
    BY Fields DEF Fine, Written, Has, Holds
  <2>2. pend[s][r].bonus = 0
    BY <2>1, WritesAccrueNothing
  <2>3. CASE ride[r].state = "won_pending" /\ pend[s][r] \in Rules!Decisions(ride[r])
    BY <2>1, <2>2, <2>3, DecidedRow DEF RideGate, TerminalState
  <2>4. CASE /\ sess[s].cmd = "resolve" /\ sess[s].pc = "commit"
             /\ ride[r].state = "locked" /\ ride[r].match = sess[s].match
             /\ pend[s][r] = SettledBy(ride[r], sess[s].winner)
    <3>1. pend[s][r].match = sess[s].match
      BY <2>1, <2>4, SettledRow
    <3>2. LET row == MatchSeen(s, pend[s][r].match) IN row.winner = sess[s].winner /\ Scored(row)
      BY <2>4, <3>1, SeesItsScores DEF Scored
    <3> QED BY <2>1, <2>2, <2>4, <3>2, SettledRow DEF RideGate, TerminalState
  <2>5. CASE ride[r].state = "won_pending" /\ pend[s][r] = AutoResolved(ride[r], sess[s].round)
    BY <2>1, <2>2, <2>5, AutoResolvedRow DEF RideGate, TerminalState
  <2> QED BY <2>1, <2>3, <2>4, <2>5 DEF Wrote
<1> QED BY <1>1, BonusStaysEmpty, Invariance, PTL

-----------------------------------------------------------------------------
(* What the rules promise, the service keeps.  RideRulesProofs is taken over  *)
(* the service's own rows; Proved and Rules are the same rules, twice.        *)

Proved == INSTANCE RideRulesProofs WITH
    match <- [m \in Match |-> [status |-> match[m].status, winner |-> match[m].winner]]

LEMMA SameAssumptions == Proved!ScheduleAssumption /\ Proved!NullAssumption
  BY ScheduleAssumption, NullAssumption
  DEF ScheduleAssumption, NullAssumption, Proved!ScheduleAssumption, Proved!NullAssumption

LEMMA SameRows ==
    /\ \A row, st : Rules!EndedAs(row, st) = Proved!EndedAs(row, st)
    /\ \A row, m : Rules!LockedOnto(row, m) = Proved!LockedOnto(row, m)
    /\ \A m, t : Rules!CreatedRide(m, t) = Proved!CreatedRide(m, t)
    /\ \A row, w : Rules!SettledBy(row, w) = Proved!SettledBy(row, w)
    /\ \A row, k : Rules!AutoResolved(row, k) = Proved!AutoResolved(row, k)
    /\ \A row : Rules!Decisions(row) = Proved!Decisions(row)
    /\ \A m : Rules!LockedOn(m) = Proved!LockedOn(m)
    /\ \A k : Rules!Undecided(k) = Proved!Undecided(k)
    /\ \A k : Rules!MatchesOf(k) = Proved!MatchesOf(k)
    /\ Rules!Round = Proved!Round
  BY DEF Rules!EndedAs, Proved!EndedAs, Rules!LockedOnto, Proved!LockedOnto, Rules!CreatedRide,
         Proved!CreatedRide, Rules!SettledBy, Proved!SettledBy, Rules!AutoResolved,
         Proved!AutoResolved, Rules!Decisions, Proved!Decisions, Rules!LockedOn, Proved!LockedOn,
         Rules!Undecided, Proved!Undecided, Rules!InRound, Proved!InRound, Rules!MatchesOf,
         Proved!MatchesOf, Rules!Round, Proved!Round

LEMMA SameNext == Rules!Next => Proved!Next
  <1> USE SameRows
  <1>1. \A k : Rules!Open(k) => Proved!Open(k)
    BY DEF Rules!Open, Proved!Open, Rules!NextInSequence, Proved!NextInSequence
  <1>2. \A k : Rules!Close(k) => Proved!Close(k)
    BY DEF Rules!Close, Proved!Close, Rules!NextInSequence, Proved!NextInSequence
  <1>3. \A k : Rules!Skip(k) => Proved!Skip(k)
    BY DEF Rules!Skip, Proved!Skip, Rules!NextInSequence, Proved!NextInSequence
  <1>4. \A m : Rules!Start(m) => Proved!Start(m)
    BY DEF Rules!Start, Proved!Start
  <1>5. \A r, m, t : Rules!Create(r, m, t) => Proved!Create(r, m, t)
    BY DEF Rules!Create, Proved!Create
  <1>6. \A m, winner, settled : Rules!Resolve(m, winner, settled) => Proved!Resolve(m, winner, settled)
    BY DEF Rules!Resolve, Proved!Resolve
  <1>7. \A m, winner : Rules!Correct(m, winner) => Proved!Correct(m, winner)
    BY DEF Rules!Correct, Proved!Correct
  <1>8. \A r, decided : Rules!Decide(r, decided) => Proved!Decide(r, decided)
    BY DEF Rules!Decide, Proved!Decide
  <1> QED BY <1>1, <1>2, <1>3, <1>4, <1>5, <1>6, <1>7, <1>8 DEF Rules!Next, Proved!Next

LEMMA SameSpec == Rules!Spec => Proved!Spec
  <1>1. Rules!Init => Proved!Init
    BY SameRows DEF Rules!Init, Proved!Init, Rules!ScheduledMatch, Proved!ScheduledMatch,
                    Rules!AbsentRide, Proved!AbsentRide
  <1>2. [Rules!Next]_(Rules!vars) => [Proved!Next]_(Proved!vars)
    BY SameNext DEF Rules!vars, Proved!vars
  <1> QED BY <1>1, <1>2, PTL DEF Rules!Spec, Proved!Spec

\* However requests interleave: a ride waits for its player only on a match
\* that is over; its streak and its version count continuations and writes and
\* never part, which a write lost or applied twice would make them do; and
\* rounds are worked through in order, although no transaction locks more than
\* one of them.
THEOREM ServiceKeepsTheRules ==
    Spec => [](/\ Rules!UndecidedOnClosedMatch
               /\ Rules!StreakCountsContinuations
               /\ Rules!RoundsInOrder)
  <1>1. Proved!Spec => [](/\ Proved!UndecidedOnClosedMatch
                          /\ Proved!StreakCountsContinuations
                          /\ Proved!RoundsInOrder)
    BY Proved!UndecidedIsOver, Proved!StreakIsCounted, Proved!RoundsAreOrdered, SameAssumptions, PTL
  <1>2. /\ Proved!UndecidedOnClosedMatch => Rules!UndecidedOnClosedMatch
        /\ Proved!StreakCountsContinuations => Rules!StreakCountsContinuations
        /\ Proved!RoundsInOrder => Rules!RoundsInOrder
    BY SameRows DEF Proved!UndecidedOnClosedMatch, Rules!UndecidedOnClosedMatch,
                    Proved!StreakCountsContinuations, Rules!StreakCountsContinuations,
                    Proved!RoundsInOrder, Rules!RoundsInOrder
  <1> QED BY <1>1, <1>2, ServiceImplementsRules, SameSpec, PTL DEF ImplementsRules

\* No request, however stale what it has read, changes a ride that is burned,
\* unlocked or lost.
THEOREM ServiceKeepsDecisions ==
    Spec => [][\A r \in Ride : ride[r].state \in TerminalState => ride'[r] = ride[r]]_ride
  <1>1. Proved!Spec => Proved!TerminalStaysTerminal
    BY Proved!TerminalIsFinal, SameAssumptions
  <1>2. [\A r \in Ride : ride[r].state \in Proved!TerminalState => ride'[r] = ride[r]]_(Proved!vars)
        => [\A r \in Ride : ride[r].state \in TerminalState => ride'[r] = ride[r]]_ride
    BY DEF Proved!vars, Proved!TerminalState, TerminalState
  <1> QED BY <1>1, <1>2, ServiceImplementsRules, SameSpec, PTL
          DEF ImplementsRules, Proved!TerminalStaysTerminal

-----------------------------------------------------------------------------
(* Time does the rest: a creation does not lock its match *)

\* A ride that was created on m and not continued since.
Fresh(r, m) == ride[r].state = "locked" /\ ride[r].streak = 0 /\ ride[r].match = m

\* A creation that has passed its phase check is before the start of its match,
\* and still will be when the hour it may live to see has struck; a resolution
\* that has settled the rides of its match has settled every fresh one.
Timely(q, p) ==
    /\ q.cmd = "create" /\ q.pc \in {"snapshot", "commit"} /\ q.seen.match \notin Editable =>
         now < match[q.seen.match].startsAt - (IF q.late THEN 0 ELSE 1)
    /\ q.cmd = "resolve" => q.at <= now
    /\ q.cmd = "resolve" /\ q.pc = "commit" /\ q.match \notin Editable =>
         \A r \in Ride : Fresh(r, q.match) => Has(p, r)

OverInThePast == \A m \in Match : match[m].endedAt # NotEnded => match[m].endedAt <= now

FreshIsOpen == \A r \in Ride, m \in Match \ Editable : Fresh(r, m) => match[m].status # "closed"

Punctual == /\ \A s \in Session : Timely(sess[s], pend[s])
            /\ OverInThePast
            /\ FreshIsOpen

LEMMA InitIsPunctual == Init => Punctual
  BY IdleIsFine DEF Init, Punctual, Timely, OverInThePast, FreshIsOpen, Fresh, AbsentRide, NewMatch

\* A request steps and commits nothing: all that counts is what it is now.
LEMMA OwnStep ==
  ASSUME IInv, Punctual, NEW s \in Session, NEW q, NEW p, Timely(q, p),
         sess' = [sess EXCEPT ![s] = q], pend' = [pend EXCEPT ![s] = p], AllFree
  PROVE  Punctual'
  <1>1. /\ sess'[s] = q /\ pend'[s] = p
        /\ \A o \in Session \ {s} : sess'[o] = sess[o] /\ pend'[o] = pend[o]
    BY DEF IInv, TypeOK
  <1>2. UNCHANGED <<now, ride, match, round>>
    BY DEF AllFree
  <1>3. \A o \in Session : Timely(sess'[o], pend'[o])
    BY <1>1 DEF Punctual
  <1>4. \A o \in Session : Timely(sess[o], pend[o])'
    BY <1>2, <1>3 DEF Timely, Fresh
  <1>5. OverInThePast' /\ FreshIsOpen'
    BY <1>2 DEF Punctual, OverInThePast, FreshIsOpen, Fresh
  <1> QED BY <1>4, <1>5 DEF Punctual

LEMMA EndIsPunctual ==
  ASSUME IInv, Punctual, NEW s \in Session, End(s)
  PROVE  Punctual'
  <1>1. Timely(Idle, NoPending)
    BY IdleIsFine DEF Timely
  <1> QED BY <1>1, OwnStep DEF End

\* A request that has passed no phase check of a creation and resolves nothing.
LEMMA UntimedStep ==
  ASSUME IInv, Punctual, NEW s \in Session, NEW q, NEW p,
         q.cmd # "resolve", q.cmd = "create" => q.pc = "phase",
         sess' = [sess EXCEPT ![s] = q], pend' = [pend EXCEPT ![s] = p], AllFree
  PROVE  Punctual'
  <1>1. Timely(q, p)
    BY DEF Timely
  <1> QED BY <1>1, OwnStep

LEMMA BeginIsPunctual ==
  ASSUME IInv, Punctual, NEW s \in Session, Begin(s)
  PROVE  Punctual'
  <1>0. pend = [pend EXCEPT ![s] = pend[s]]
    BY Fields
  <1>1. ASSUME NEW r \in Ride, NEW m \in Match, NEW t \in Team, BeginCreate(s, r, m, t) PROVE Punctual'
    <2>1. PICK q : q = [Idle EXCEPT !.cmd = "create", !.pc = "phase", !.row = r,
                                    !.seen = [AbsentRide EXCEPT !.match = m, !.team = t]]
      OBVIOUS
    <2>2. q.cmd = "create" /\ q.pc = "phase"
      BY <2>1 DEF Idle
    <2>3. sess' = [sess EXCEPT ![s] = q] /\ pend' = [pend EXCEPT ![s] = pend[s]] /\ AllFree
      BY <1>0, <1>1, <2>1 DEF BeginCreate
    <2> QED BY <2>2, <2>3, UntimedStep
  <1>2. ASSUME NEW r \in Ride, NEW cmd \in Decision, BeginDecision(s, r, cmd) PROVE Punctual'
    <2>1. PICK q : q = [Idle EXCEPT !.cmd = cmd, !.pc = "phase", !.row = r, !.seen = ride[r]]
      OBVIOUS
    <2>2. q.cmd \in Decision
      BY <2>1 DEF Idle
    <2>3. sess' = [sess EXCEPT ![s] = q] /\ pend' = [pend EXCEPT ![s] = pend[s]] /\ AllFree
      BY <1>0, <1>2, <2>1 DEF BeginDecision
    <2> QED BY <2>2, <2>3, UntimedStep DEF Decision
  <1>3. ASSUME NEW m \in Match, NEW winner, BeginResolve(s, m, winner) PROVE Punctual'
    <2>1. PICK q : q = [Idle EXCEPT !.cmd = "resolve", !.pc = "write", !.match = m,
                                    !.winner = winner, !.version = match[m].version, !.at = now]
      OBVIOUS
    <2>2. q.cmd = "resolve" /\ q.pc = "write" /\ q.at = now
      BY <2>1 DEF Idle
    <2>3. sess' = [sess EXCEPT ![s] = q] /\ pend' = [pend EXCEPT ![s] = pend[s]] /\ AllFree
      BY <1>0, <1>3, <2>1 DEF BeginResolve
    <2>4. now \in Nat
      BY Fields
    <2>5. Timely(q, pend[s])
      BY <2>2, <2>4 DEF Timely
    <2> QED BY <2>3, <2>5, OwnStep
  <1>4. ASSUME NEW k \in Round, BeginClose(s, k) PROVE Punctual'
    <2>0. PICK todo : todo = {<<r, ride[r].match>> : r \in UndecidedIn(k)}
      OBVIOUS
    <2>1. PICK q : q = [Idle EXCEPT !.cmd = "close", !.pc = "sweep", !.round = k, !.todo = todo]
      OBVIOUS
    <2>2. q.cmd = "close"
      BY <2>1 DEF Idle
    <2>3. sess' = [sess EXCEPT ![s] = q] /\ pend' = [pend EXCEPT ![s] = pend[s]] /\ AllFree
      BY <1>0, <1>4, <2>0, <2>1 DEF BeginClose
    <2> QED BY <2>2, <2>3, UntimedStep
  <1> QED BY <1>1, <1>2, <1>3, <1>4 DEF Begin

\* The check itself: more than an hour is left before the match starts.
LEMMA ReadPhaseIsPunctual ==
  ASSUME IInv, Punctual, NEW s \in Session, ReadPhase(s)
  PROVE  Punctual'
  <1>1. CASE End(s)
    BY <1>1, EndIsPunctual
  <1>2. CASE ~End(s)
    <2>1. PICK pc : pc = IF sess[s].cmd = "lock" THEN "next" ELSE "snapshot"
      OBVIOUS
    <2>2. /\ Goto(s, pc) /\ UNCHANGED pend /\ AllFree
          /\ PhaseForMatch(sess[s].seen.match) = PhaseFor(sess[s].cmd)
      BY <1>2, <2>1 DEF ReadPhase, StepOrEnd
    <2>3. PICK q : q = [sess[s] EXCEPT !.pc = pc]
      OBVIOUS
    <2>4. /\ q.cmd = sess[s].cmd /\ q.seen = sess[s].seen /\ q.late = sess[s].late /\ q.late \in BOOLEAN
          /\ sess' = [sess EXCEPT ![s] = q] /\ pend' = [pend EXCEPT ![s] = pend[s]]
      BY <2>2, <2>3, Fields DEF Goto, SessionState
    <2>5. sess[s].cmd \in Player
      BY Fields DEF ReadPhase, Shape, ShapeByStep
    <2>6. ASSUME q.cmd = "create"
          PROVE  now < match[q.seen.match].startsAt - (IF q.late THEN 0 ELSE 1)
      <3>1. q.seen.match \in Match
        BY <2>4, <2>5, Fields DEF Shape, ShapeByCommand
      <3>2. match[q.seen.match].startsAt \in Nat /\ now \in Nat
        BY <3>1, Fields DEF MatchRow
      <3>3. PhaseForMatch(q.seen.match) = "action"
        BY <2>2, <2>4, <2>6 DEF PhaseFor
      <3>4. now < match[q.seen.match].startsAt - 1
        BY <3>2, <3>3 DEF PhaseForMatch, Phase, Lead
      <3> QED BY <2>4, <3>2, <3>4
    <2>7. Timely(q, pend[s])
      BY <2>4, <2>5, <2>6 DEF Timely, Player, Decision
    <2> QED BY <2>2, <2>4, <2>7, OwnStep
  <1> QED BY <1>1, <1>2

LEMMA InsertIsPunctual ==
  ASSUME IInv, Punctual, NEW s \in Session, InsertGuarded(s)
  PROVE  Punctual'
  <1>1. CASE End(s)
    BY <1>1, EndIsPunctual
  <1>2. CASE ~End(s)
    <2>1. PICK q, p : q = [sess[s] EXCEPT !.pc = "commit"] /\ p = pend'[s]
      OBVIOUS
    <2>2. /\ q.cmd = sess[s].cmd /\ q.seen = sess[s].seen /\ q.late = sess[s].late /\ q.cmd = "create"
          /\ sess' = [sess EXCEPT ![s] = q] /\ pend' = [pend EXCEPT ![s] = p] /\ AllFree
          /\ sess[s].pc = "snapshot"
      BY <1>2, <2>1, Fields DEF InsertGuarded, Goto, SessionState
    <2>3. Timely(q, p)
      BY <2>2 DEF Punctual, Timely
    <2> QED BY <2>2, <2>3, OwnStep
  <1> QED BY <1>1, <1>2

LEMMA ResolveIsPunctual ==
  ASSUME IInv, Punctual, NEW s \in Session, ResolveMatchRow(s) \/ SettleRides(s)
  PROVE  Punctual'
  <1>1. CASE End(s)
    BY <1>1, EndIsPunctual
  <1>2. CASE ~End(s) /\ ResolveMatchRow(s)
    <2>1. PICK q : q = [sess[s] EXCEPT !.pc = "settle"]
      OBVIOUS
    <2>2. /\ q.cmd = "resolve" /\ q.pc = "settle" /\ q.at = sess[s].at /\ sess[s].cmd = "resolve"
          /\ sess' = [sess EXCEPT ![s] = q] /\ pend' = [pend EXCEPT ![s] = pend[s]] /\ AllFree
      BY <1>2, <2>1, Fields DEF ResolveMatchRow, StepOrEnd, Goto, SessionState
    <2>3. Timely(q, pend[s])
      BY <2>2 DEF Punctual, Timely
    <2> QED BY <2>2, <2>3, OwnStep
  <1>3. CASE SettleRides(s)
    <2>1. PICK q, p : q = [sess[s] EXCEPT !.pc = "commit"] /\ p = pend'[s]
      OBVIOUS
    <2>2. /\ q.cmd = sess[s].cmd /\ q.at = sess[s].at /\ q.match = sess[s].match
          /\ sess' = [sess EXCEPT ![s] = q] /\ pend' = [pend EXCEPT ![s] = p] /\ AllFree
          /\ sess[s].cmd = "resolve"
      BY <1>3, <2>1, Fields DEF SettleRides, Goto, SessionState, Shape, ShapeByStep
    <2>3. \A r \in Ride : Fresh(r, q.match) => p[r] = SettledBy(ride[r], sess[s].winner)
      <3>1. sess[s].pc = "settle"
        BY <1>3 DEF SettleRides
      <3>2. MatchSeen(s, sess[s].match).winner = sess[s].winner
        BY <2>2, <3>1, SeesItsScores
      <3> QED BY <1>3, <2>1, <2>2, <3>2, Fields DEF SettleRides, LockedOn, Fresh
    <2>4. \A r \in Ride : Fresh(r, q.match) => Has(p, r)
      BY <2>3, Fields, SettledRow DEF Has
    <2>5. Timely(q, p)
      BY <2>2, <2>4 DEF Punctual, Timely
    <2> QED BY <2>2, <2>5, OwnStep
  <1> QED BY <1>1, <1>2, <1>3

LEMMA DecisionIsPunctual ==
  ASSUME IInv, Punctual, NEW s \in Session, NextForTeam(s) \/ SnapshotGuarded(s) \/ UpdateGuarded(s)
  PROVE  Punctual'
  <1>1. CASE End(s)
    BY <1>1, EndIsPunctual
  <1>2. CASE ~End(s)
    <2>1. PICK q, p : q = sess'[s] /\ p = pend'[s]
      OBVIOUS
    <2>2. sess[s].cmd \in Decision
      BY Fields DEF NextForTeam, SnapshotGuarded, UpdateGuarded, Shape, ShapeByStep, Decision
    <2>3. /\ q.cmd = sess[s].cmd
          /\ sess' = [sess EXCEPT ![s] = q] /\ pend' = [pend EXCEPT ![s] = p] /\ AllFree
      <3>1. CASE NextForTeam(s)
        <4>1. PICK m : /\ sess' = [sess EXCEPT ![s].match = m, ![s].pc = "snapshot"]
                       /\ UNCHANGED pend /\ AllFree
          BY <1>2, <3>1 DEF NextForTeam
        <4>2. sess' = [sess EXCEPT ![s] = [[sess[s] EXCEPT !.match = m] EXCEPT !.pc = "snapshot"]]
          BY <4>1, Fields
        <4>3. q = [[sess[s] EXCEPT !.match = m] EXCEPT !.pc = "snapshot"]
          BY <2>1, <4>2, Fields
        <4> QED BY <2>1, <4>1, <4>2, <4>3, Fields DEF SessionState
      <3>2. CASE SnapshotGuarded(s)
        BY <1>2, <2>1, <3>2, Fields DEF SnapshotGuarded, StepOrEnd, Goto, SessionState
      <3>3. CASE UpdateGuarded(s)
        BY <1>2, <2>1, <3>3, Fields DEF UpdateGuarded, Goto, SessionState
      <3> QED BY <3>1, <3>2, <3>3
    <2> QED BY <2>2, <2>3, UntimedStep DEF Decision
  <1> QED BY <1>1, <1>2

LEMMA CloseIsPunctual ==
  ASSUME IInv, Punctual, NEW s \in Session,
         FlipRound(s) \/ \E r \in Ride, m \in Match : SweepRide(s, r, m)
  PROVE  Punctual'
  <1>1. CASE End(s)
    BY <1>1, EndIsPunctual
  <1>2. CASE ~End(s)
    <2>1. PICK q, p : q = sess'[s] /\ p = pend'[s]
      OBVIOUS
    <2>0. FlipRound(s) \/ \E r \in Ride, m \in Match : SweepRide(s, r, m)
      OBVIOUS
    <2>2. sess[s].cmd = "close"
      BY Fields DEF FlipRound, SweepRide, Shape, ShapeByStep
    <2>3. /\ q.cmd = sess[s].cmd
          /\ sess' = [sess EXCEPT ![s] = q] /\ pend' = [pend EXCEPT ![s] = p] /\ AllFree
      <3>1. CASE FlipRound(s)
        BY <1>2, <2>1, <3>1, Fields DEF FlipRound, StepOrEnd, Goto, SessionState
      <3>2. ASSUME NEW r \in Ride, NEW m \in Match, SweepRide(s, r, m)
            PROVE  /\ q.cmd = sess[s].cmd
                   /\ sess' = [sess EXCEPT ![s] = q] /\ pend' = [pend EXCEPT ![s] = p] /\ AllFree
        <4>1. PICK todo : todo = sess[s].todo \ {<<r, m>>}
          OBVIOUS
        <4>2. sess' = [sess EXCEPT ![s] = [sess[s] EXCEPT !.todo = todo]] /\ AllFree
          BY <3>2, <4>1, Fields DEF SweepRide
        <4>3. q = [sess[s] EXCEPT !.todo = todo]
          BY <2>1, <4>2, Fields
        <4>4. q.cmd = sess[s].cmd
          BY <4>3, Fields DEF SessionState
        <4>5. pend' = [pend EXCEPT ![s] = p]
          <5>1. CASE UNCHANGED pend
            BY <2>1, <5>1, Fields
          <5>2. PICK new : new = AutoResolved(ride[r], sess[s].round)
            OBVIOUS
          <5>3. CASE pend' = [pend EXCEPT ![s][r] = new]
            BY <2>1, <5>3, Fields
          <5> QED BY <3>2, <5>1, <5>2, <5>3 DEF SweepRide
        <4> QED BY <4>2, <4>3, <4>4, <4>5
      <3> QED BY <2>0, <3>1, <3>2
    <2> QED BY <2>2, <2>3, UntimedStep
  <1> QED BY <1>1, <1>2

\* A creation and a resolution of one match are never in flight together past
\* their checks: the one is before its start, the other after it.
LEMMA CreationIsEarly ==
  ASSUME IInv, Punctual, NEW s \in Session, sess[s].cmd = "create", sess[s].pc = "commit",
         sess[s].seen.match \notin Editable
  PROVE  /\ match[sess[s].seen.match].status # "closed"
         /\ \A o \in Session : HoldsMatch(sess[o]) => sess[o].match # sess[s].seen.match
  <1>1. PICK m : m = sess[s].seen.match
    OBVIOUS
  <1>2. m \in Match
    BY <1>1, Fields DEF Shape, ShapeByCommand, Player
  <1>3. match[m].startsAt \in Nat /\ now \in Nat /\ match[m].endedAt \in Nat \cup {NotEnded}
    BY <1>2, Fields DEF MatchRow
  <1>4. now < match[m].startsAt
    <2>1. now < match[m].startsAt - (IF sess[s].late THEN 0 ELSE 1)
      BY <1>1 DEF Punctual, Timely
    <2> QED BY <1>3, <2>1
  <1>5. match[m].status # "closed"
    <2> SUFFICES ASSUME match[m].status = "closed" PROVE FALSE
      OBVIOUS
    <2>1. match[m].endedAt # NotEnded /\ match[m].startsAt < match[m].endedAt
      BY <1>2 DEF IInv, Tables, ClosedHasEnded, EndsAfterStart
    <2>2. match[m].endedAt <= now
      BY <1>2, <2>1 DEF Punctual, OverInThePast
    <2> QED BY <1>3, <1>4, <2>1, <2>2
  <1>6. ASSUME NEW o \in Session, HoldsMatch(sess[o]), sess[o].match = m PROVE FALSE
    <2>1. sess[o].cmd = "resolve" /\ sess[o].at \in Nat
      BY <1>6, Fields DEF HoldsMatch, SessionState
    <2>2. match[m].startsAt < sess[o].at
      BY <1>6, <2>1, Fields DEF Fine, ReadMatch
    <2>3. sess[o].at <= now
      BY <2>1 DEF Punctual, Timely
    <2> QED BY <1>3, <1>4, <2>1, <2>2, <2>3
  <1> QED BY <1>1, <1>5, <1>6

\* A commit makes a ride fresh only if it creates it.
LEMMA OnlyCreationsAreFresh ==
  ASSUME IInv, NEW s \in Session, Commit(s), NEW r \in Ride, NEW m \in Match, Fresh(r, m)'
  PROVE  \/ ride'[r] = ride[r] /\ Fresh(r, m) /\ ~Has(pend[s], r)
         \/ sess[s].cmd = "create" /\ sess[s].seen.match = m
  <1>1. CASE ~Has(pend[s], r)
    BY <1>1, CommitChanges DEF Fresh
  <1>2. CASE Has(pend[s], r)
    <2>1. Wrote(sess[s], r, ride'[r]) /\ ride[r] \in RideRow
      BY <1>2, CommitChanges, Fields
    <2>2. ride'[r].state = "locked" /\ ride'[r].streak = 0 /\ ride'[r].match = m
      BY DEF Fresh
    <2>3. CASE sess[s].cmd = "create" /\ ride'[r] = CreatedRide(sess[s].seen.match, sess[s].seen.team)
      BY <2>2, <2>3 DEF CreatedRide
    <2>4. CASE ride'[r] \in Rules!Decisions(ride[r])
      <3>1. PICK n \in Match : ride'[r] = LockedOnto(ride[r], n)
        BY <2>1, <2>2, <2>4, DecidedRow, EndedAsRow DEF RideState, TerminalState
      <3>2. ride'[r].streak = ride[r].streak + 1 /\ ride[r].streak \in Nat
        BY <2>1, <3>1 DEF LockedOnto, RideRow
      <3> QED BY <2>2, <3>2
    <2>5. CASE ride'[r] = SettledBy(ride[r], sess[s].winner)
      BY <2>1, <2>2, <2>5, SettledRow
    <2>6. CASE ride'[r] = AutoResolved(ride[r], sess[s].round)
      BY <2>1, <2>2, <2>6, AutoResolvedRow
    <2> QED BY <2>1, <2>3, <2>4, <2>5, <2>6 DEF Wrote
  <1> QED BY <1>1, <1>2

LEMMA CommitIsPunctual ==
  ASSUME IInv, Punctual, NEW s \in Session, Commit(s)
  PROVE  Punctual'
  <1>1. /\ UNCHANGED now /\ now \in Nat /\ sess[s].pc = "commit"
        /\ match \in [Match -> MatchRow] /\ sess[s] \in SessionState
    BY CommitChanges, Fields DEF Commit
  <1>2. \A m \in Match : /\ match'[m].startsAt = match[m].startsAt
                         /\ match'[m].endedAt # match[m].endedAt => match'[m].endedAt <= now
                         /\ match'[m].status # match[m].status =>
                              sess[s].cmd = "resolve" /\ sess[s].match = m
    <2>1. CASE sess[s].cmd # "resolve"
      BY <2>1, CommitChanges
    <2>2. CASE sess[s].cmd = "resolve"
      <3>1. match' = [match EXCEPT ![sess[s].match] = ClosedMatch(s)] /\ sess[s].match \in Match
        BY <2>2, CommitChanges DEF Commit
      <3>2. /\ ClosedMatch(s).startsAt = match[sess[s].match].startsAt
            /\ ClosedMatch(s).endedAt = sess[s].at
        BY <1>1, <3>1 DEF ClosedMatch, MatchRow
      <3>3. sess[s].at <= now
        BY <2>2 DEF Punctual, Timely
      <3> QED BY <1>1, <2>2, <3>1, <3>2, <3>3
    <2> QED BY <2>1, <2>2
  <1>3. OverInThePast'
    BY <1>1, <1>2 DEF Punctual, OverInThePast
  <1>4. FreshIsOpen'
    <2> SUFFICES ASSUME NEW r \in Ride, NEW m \in Match \ Editable, Fresh(r, m)'
                 PROVE  match'[m].status # "closed"
      BY DEF FreshIsOpen
    <2>1. CASE Fresh(r, m) /\ ~Has(pend[s], r)
      <3>1. match[m].status # "closed"
        BY <2>1 DEF Punctual, FreshIsOpen
      <3>2. ~(sess[s].cmd = "resolve" /\ sess[s].match = m)
        BY <1>1, <2>1 DEF Punctual, Timely
      <3> QED BY <1>2, <3>1, <3>2
    <2>2. CASE sess[s].cmd = "create" /\ sess[s].seen.match = m
      BY <1>1, <1>2, <2>2, CreationIsEarly
    <2> QED BY <2>1, <2>2, OnlyCreationsAreFresh
  <1>5. ASSUME NEW o \in Session PROVE Timely(sess[o], pend[o])'
    <2>1. CASE o = s
      BY <2>1, CommitChanges, IdleIsFine DEF Timely
    <2>2. CASE o # s
      <3>1. sess'[o] = sess[o] /\ pend'[o] = pend[o] /\ Timely(sess[o], pend[o])
        BY <2>2, CommitChanges DEF Punctual
      <3>2. sess[o].cmd = "create" => sess[o].seen.match \in Match
        BY Fields DEF Shape, ShapeByCommand, Player
      <3>3. PICK m : m = sess[o].match
        OBVIOUS
      <3>4. ASSUME sess[o].cmd = "resolve", sess[o].pc = "commit", m \notin Editable,
                   NEW r \in Ride, Fresh(r, m)'
            PROVE  Has(pend[o], r)
        <4>1. m \in Match /\ HoldsMatch(sess[o])
          BY <3>3, <3>4, Fields DEF Shape, ShapeByCommand, HoldsMatch
        <4>2. ~(sess[s].cmd = "create" /\ sess[s].seen.match = m)
          BY <1>1, <3>3, <3>4, <4>1, CreationIsEarly
        <4>3. Fresh(r, m)
          BY <3>4, <4>1, <4>2, OnlyCreationsAreFresh
        <4> QED BY <3>1, <3>3, <3>4, <4>3 DEF Timely
      <3>5. sess'[o].cmd = "resolve" /\ sess'[o].pc = "commit" /\ sess'[o].match \notin Editable =>
              \A r \in Ride : Fresh(r, m)' => Has(pend'[o], r)
        BY <3>1, <3>3, <3>4
      <3>6. m = sess'[o].match
        BY <3>1, <3>3
      <3> QED BY <1>1, <1>2, <3>1, <3>2, <3>5, <3>6 DEF Timely
    <2> QED BY <2>1, <2>2
  <1> QED BY <1>3, <1>4, <1>5 DEF Punctual

\* A PATCH ends nothing and, outside of Editable, leaves the start alone.
LEMMA PatchIsPunctual ==
  ASSUME IInv, Punctual, NEW m \in Match, NEW row \in MatchRow, Patch(m, row),
         row.status = "closed" => match[m].status = "closed",
         row.endedAt = match[m].endedAt,
         m \notin Editable => row.startsAt = match[m].startsAt
  PROVE  Punctual'
  <1>1. UNCHANGED <<now, ride, round, sess, pend>> /\ match \in [Match -> MatchRow]
    BY DEF Patch, IInv, TypeOK
  <1>2. /\ match'[m].status = row.status /\ match'[m].endedAt = row.endedAt
        /\ match'[m].startsAt = row.startsAt
        /\ \A o \in Match \ {m} : match'[o] = match[o]
    BY <1>1 DEF Patch, MatchRow
  <1>3. \A s \in Session : sess[s].cmd = "create" => sess[s].seen.match \in Match
    BY Fields DEF Shape, ShapeByCommand, Player
  <1>4. \A s \in Session : Timely(sess[s], pend[s])'
    BY <1>1, <1>2, <1>3 DEF Punctual, Timely, Fresh
  <1>5. OverInThePast' /\ FreshIsOpen'
    BY <1>1, <1>2 DEF Punctual, OverInThePast, FreshIsOpen, Fresh
  <1> QED BY <1>4, <1>5 DEF Punctual

LEMMA EditIsPunctual ==
  ASSUME IInv, Punctual, NEW m \in Match,
         \/ StartMatch(m)
         \/ \E winner \in Team \cup {NoTeam} : CorrectScore(m, winner)
         \/ \E startsAt \in Slots : Reschedule(m, startsAt)
  PROVE  Punctual'
  <1>0. match[m] \in MatchRow
    BY DEF IInv, TypeOK
  <1>1. CASE StartMatch(m)
    <2>1. PICK row : row = [match[m] EXCEPT !.status = "in_progress"]
      OBVIOUS
    <2>2. /\ row \in MatchRow /\ row.status = "in_progress" /\ row.endedAt = match[m].endedAt
          /\ row.startsAt = match[m].startsAt
      BY <1>0, <2>1 DEF MatchRow
    <2> QED BY <1>1, <2>1, <2>2, PatchIsPunctual DEF StartMatch
  <1>2. ASSUME NEW winner \in Team \cup {NoTeam}, CorrectScore(m, winner) PROVE Punctual'
    <2>1. PICK row : row = [match[m] EXCEPT !.winner = winner]
      OBVIOUS
    <2>2. /\ row \in MatchRow /\ row.status = match[m].status /\ row.endedAt = match[m].endedAt
          /\ row.startsAt = match[m].startsAt
      BY <1>0, <2>1 DEF MatchRow
    <2> QED BY <1>2, <2>1, <2>2, PatchIsPunctual DEF CorrectScore
  <1>3. ASSUME NEW startsAt \in Slots, Reschedule(m, startsAt) PROVE Punctual'
    <2>1. PICK row : row = [match[m] EXCEPT !.startsAt = startsAt]
      OBVIOUS
    <2>2. row \in MatchRow /\ row.status = match[m].status /\ row.endedAt = match[m].endedAt
      BY <1>0, <2>1, BoundAssumption DEF MatchRow, BoundAssumption
    <2>3. m \in Editable
      BY <1>3 DEF Reschedule, MayEdit
    <2> QED BY <1>3, <2>1, <2>2, <2>3, PatchIsPunctual DEF Reschedule
  <1> QED BY <1>1, <1>2, <1>3

LEMMA TickIsPunctual ==
  ASSUME IInv, Punctual, Tick
  PROVE  Punctual'
  <1>1. UNCHANGED <<ride, match, round, pend>> /\ now' = now + 1 /\ now \in Nat
    BY DEF Tick, IInv, TypeOK
  <1>2. OverInThePast' /\ FreshIsOpen'
    <2>1. \A m \in Match : match[m].endedAt # NotEnded => match[m].endedAt \in Nat
      BY DEF IInv, TypeOK, MatchRow
    <2> QED BY <1>1, <2>1 DEF Punctual, OverInThePast, FreshIsOpen, Fresh
  <1>3. ASSUME NEW s \in Session PROVE Timely(sess[s], pend[s])'
    <2>1. /\ sess'[s].cmd = sess[s].cmd /\ sess'[s].pc = sess[s].pc /\ sess'[s].seen = sess[s].seen
          /\ sess'[s].match = sess[s].match /\ sess'[s].at = sess[s].at /\ sess[s].at \in Nat
          /\ sess'[s].late = (sess[s].pc # "idle") /\ ~sess[s].late
      BY Fields DEF Tick, SessionState
    <2>2. Timely(sess[s], pend[s])
      BY DEF Punctual
    <2>3. ASSUME sess[s].cmd = "create", sess[s].pc \in {"snapshot", "commit"},
                 sess[s].seen.match \notin Editable
          PROVE  now' < match'[sess'[s].seen.match].startsAt - (IF sess'[s].late THEN 0 ELSE 1)
      <3>1. match[sess[s].seen.match].startsAt \in Nat
        BY <2>3, Fields DEF Shape, ShapeByCommand, Player, MatchRow
      <3>2. now < match[sess[s].seen.match].startsAt - 1
        BY <2>1, <2>2, <2>3 DEF Timely
      <3>3. sess'[s].late = TRUE
        BY <2>1, <2>3
      <3>4. now + 1 < match[sess[s].seen.match].startsAt - 0
        BY <1>1, <3>1, <3>2
      <3> QED BY <1>1, <2>1, <3>3, <3>4
    <2> QED BY <1>1, <2>1, <2>2, <2>3 DEF Timely, Fresh
  <1> QED BY <1>2, <1>3 DEF Punctual

LEMMA NextIsPunctual == IInv /\ Punctual /\ [Next]_vars => Punctual'
  <1> SUFFICES ASSUME IInv, Punctual, [Next]_vars PROVE Punctual'
    OBVIOUS
  <1>1. ASSUME NEW s \in Session, Begin(s) \/ Progress(s) \/ Cancel(s) PROVE Punctual'
    <2>1. CASE Progress(s)
      BY <2>1, ReadPhaseIsPunctual, InsertIsPunctual, ResolveIsPunctual, DecisionIsPunctual,
         CloseIsPunctual, CommitIsPunctual, EndIsPunctual DEF Progress, AbortDeadlock
    <2> QED BY <1>1, <2>1, BeginIsPunctual, EndIsPunctual DEF Cancel
  <1>2. ASSUME NEW k \in Round, OpenRound(k) \/ CloseUnopened(k) PROVE Punctual'
    BY <1>2 DEF OpenRound, CloseUnopened, Punctual, Timely, OverInThePast, FreshIsOpen, Fresh
  <1>3. CASE UNCHANGED vars
    BY <1>3 DEF vars, Punctual, Timely, OverInThePast, FreshIsOpen, Fresh
  <1> QED BY <1>1, <1>2, <1>3, EditIsPunctual, TickIsPunctual DEF Next

\* A ride nobody has continued is on a match that is not over and in a round
\* that is not closed, although a creation locks only the round: it can always
\* still be settled.
THEOREM FreshRidesStayPlayable == Spec => []FreshRidesArePlayable
<1>1. IInv /\ Punctual => FreshRidesArePlayable
  <2> SUFFICES ASSUME IInv, Punctual, NEW r \in Ride, NEW m, m = ride[r].match,
                      ride[r].state = "locked", ride[r].streak = 0, m \notin Editable
               PROVE  match[m].status # "closed" /\ round[RoundOf[m]] # "closed"
    BY DEF FreshRidesArePlayable
  <2>1. m \in Match
    BY DEF IInv, Tables, RidesHaveMatches
  <2>2. match[m].status # "closed"
    BY <2>1 DEF Punctual, FreshIsOpen, Fresh
  <2>3. RoundOf[m] \in Round /\ m \in MatchesOf(RoundOf[m])
    BY <2>1, RoundOfMatch DEF MatchesOf
  <2> QED BY <2>2, <2>3 DEF IInv, Tables, ClosedRoundIsOver
<1> QED BY <1>1, InitIsPunctual, NextIsPunctual, Invariance, InitSatisfiesIInv, NextKeepsIInv, PTL DEF Spec

-----------------------------------------------------------------------------
(* Nobody waits for ever for a row.  What two auto-resolutions visit are the  *)
(* undecided rides of two instants, and in between rides are only decided, as *)
(* far as either of them is concerned.  Of what is still undecided one of the *)
(* two therefore knows everything the other knows (Nested); that is why a     *)
(* cycle of waits always contains one of two.                                 *)

Closing(q) == q.cmd = "close"

\* The undecided rides an auto-resolution has still to visit or has written.
Knows(q, p) == {r \in Ride : /\ ride[r].state = "won_pending"
                             /\ <<r, ride[r].match>> \in q.todo \/ Has(p, r)}

Undecided == {r \in Ride : ride[r].state = "won_pending"}

VisitsClosed(q) == Closing(q) => \A e \in q.todo : match[e[2]].status = "closed"

Comparable(q, p, q2, p2) == Closing(q) /\ Closing(q2) =>
    Knows(q, p) \subseteq Knows(q2, p2) \/ Knows(q2, p2) \subseteq Knows(q, p)

Nested == \A s \in Session, o \in Session : Comparable(sess[s], pend[s], sess[o], pend[o])

Busy == {s \in Session : sess[s].pc # "idle"}

Sweeps == /\ \A s \in Session : VisitsClosed(sess[s])
          /\ Nested
          /\ IsFiniteSet(Busy)

\* What the rules promise and the argument rests on.
Ordered == Rules!UndecidedOnClosedMatch /\ Rules!RoundsInOrder

LEMMA InitIsSwept == Init => Sweeps
  <1> SUFFICES ASSUME Init PROVE Sweeps
    OBVIOUS
  <1>1. \A s \in Session : sess[s].pc = "idle" /\ ~Closing(sess[s])
    BY IdleIsFine DEF Init, Closing
  <1>2. Busy = {}
    BY <1>1 DEF Busy
  <1> QED BY <1>1, <1>2, FS_EmptySet DEF Sweeps, VisitsClosed, Nested, Comparable

\* One request steps and commits nothing.  If it is a close after the step, it
\* knows what it knew before, or everything there is to know.
LEMMA OneSweeps ==
  ASSUME Sweeps, NEW s \in Session, UNCHANGED <<ride, match>>,
         \A o \in Session \ {s} : sess'[o] = sess[o] /\ pend'[o] = pend[o],
         Closing(sess'[s]) =>
             /\ VisitsClosed(sess'[s])
             /\ \/ Closing(sess[s]) /\ Knows(sess'[s], pend'[s]) = Knows(sess[s], pend[s])
                \/ Knows(sess'[s], pend'[s]) = Undecided
  PROVE  Sweeps'
  <1>1. \A o \in Session : VisitsClosed(sess'[o])
    BY DEF Sweeps, VisitsClosed
  <1>2. ASSUME NEW o1 \in Session, NEW o2 \in Session
        PROVE  Comparable(sess'[o1], pend'[o1], sess'[o2], pend'[o2])
    <2>1. \A q, p : Knows(q, p) \subseteq Undecided
      BY DEF Knows, Undecided
    <2>2. \A o \in Session : Closing(sess'[o]) =>
            \/ Closing(sess[o]) /\ Knows(sess'[o], pend'[o]) = Knows(sess[o], pend[o])
            \/ Knows(sess'[o], pend'[o]) = Undecided
      OBVIOUS
    <2> QED BY <2>1, <2>2 DEF Sweeps, Nested, Comparable
  <1>4. \A o \in Session : VisitsClosed(sess[o])'
    BY <1>1 DEF VisitsClosed, Closing
  <1>5. Nested'
    BY <1>2 DEF Nested, Comparable, Closing, Knows, Has
  <1>6. IsFiniteSet(Busy')
    <2>1. Busy' \in SUBSET (Busy \cup {s})
      BY DEF Busy
    <2>2. IsFiniteSet(Busy \cup {s})
      BY FS_AddElement DEF Sweeps
    <2> QED BY <2>1, <2>2, FS_Subset
  <1> QED BY <1>4, <1>5, <1>6 DEF Sweeps

LEMMA OtherCommand ==
  ASSUME IInv, Sweeps, NEW s \in Session, UNCHANGED <<ride, match>>,
         \A o \in Session \ {s} : sess'[o] = sess[o] /\ pend'[o] = pend[o],
         ~Closing(sess'[s])
  PROVE  Sweeps'
  BY OneSweeps

LEMMA EndSweeps ==
  ASSUME IInv, Sweeps, NEW s \in Session, End(s)
  PROVE  Sweeps'
  <1>1. sess'[s] = Idle /\ \A o \in Session \ {s} : sess'[o] = sess[o] /\ pend'[o] = pend[o]
    BY Fields DEF End
  <1>2. ~Closing(sess'[s])
    BY <1>1, IdleIsFine DEF Closing
  <1> QED BY <1>1, <1>2, OtherCommand DEF End, AllFree

\* The snapshot of a close is of all there is to know: one round is open.
LEMMA BeginSweeps ==
  ASSUME IInv, Ordered, Sweeps, NEW s \in Session, Begin(s)
  PROVE  Sweeps'
  <1>1. sess[s].pc = "idle" /\ AllFree /\ UNCHANGED pend
    BY DEF Begin, BeginCreate, BeginDecision, BeginResolve, BeginClose
  <1>2. \A o \in Session \ {s} : sess'[o] = sess[o] /\ pend'[o] = pend[o]
    BY <1>1, Fields DEF Begin, BeginCreate, BeginDecision, BeginResolve, BeginClose
  <1>3. CASE \A k \in Round : ~BeginClose(s, k)
    <2>1. ASSUME NEW r \in Ride, NEW m \in Match, NEW t \in Team, BeginCreate(s, r, m, t)
          PROVE  sess'[s].cmd = "create"
      BY <2>1, Fields DEF BeginCreate, Idle
    <2>2. ASSUME NEW r \in Ride, NEW cmd \in Decision, BeginDecision(s, r, cmd)
          PROVE  sess'[s].cmd \in Decision
      BY <2>2, Fields DEF BeginDecision, Idle
    <2>3. ASSUME NEW m \in Match, NEW winner, BeginResolve(s, m, winner)
          PROVE  sess'[s].cmd = "resolve"
      BY <2>3, Fields DEF BeginResolve, Idle
    <2>4. ~Closing(sess'[s])
      BY <1>3, <2>1, <2>2, <2>3 DEF Begin, Closing, Decision
    <2> QED BY <1>1, <1>2, <2>4, OtherCommand DEF AllFree
  <1>4. ASSUME NEW k \in Round, BeginClose(s, k) PROVE Sweeps'
    <2>1. /\ round[k] = "open"
          /\ sess'[s].todo = {<<r, ride[r].match>> : r \in UndecidedIn(k)}
      BY <1>4, Fields DEF BeginClose, Idle
    <2>2. UndecidedIn(k) = Undecided
      <3>1. ASSUME NEW r \in Undecided PROVE RoundOf[ride[r].match] = k
        <4>1. ride[r].match \in Match /\ round[RoundOf[ride[r].match]] = "open"
          BY DEF Undecided, IInv, Tables, RidesHaveMatches, ClosedRoundIsDecided
        <4>2. RoundOf[ride[r].match] \in Round /\ Rules!Round = Round
          BY <4>1, RoundOfMatch, RowsOfTheRules
        <4>3. RoundOf[ride[r].match] \in Nat /\ k \in Nat
          BY <4>2, ScheduleAssumption DEF Round, ScheduleAssumption
        <4> QED BY <2>1, <4>1, <4>2, <4>3 DEF Ordered, Rules!RoundsInOrder
      <3> QED BY <3>1 DEF UndecidedIn, Undecided
    <2>3. VisitsClosed(sess'[s])
      <3>1. \A r \in UndecidedIn(k) : ride[r].match \in Match /\ match[ride[r].match].status = "closed"
        BY DEF UndecidedIn, IInv, Tables, RidesHaveMatches, Ordered, Rules!UndecidedOnClosedMatch
      <3> QED BY <1>1, <2>1, <3>1 DEF VisitsClosed, AllFree
    <2>4. Knows(sess'[s], pend'[s]) = Undecided
      BY <2>1, <2>2 DEF Knows, Undecided
    <2> QED BY <1>1, <1>2, <2>3, <2>4, OneSweeps DEF AllFree, VisitsClosed
  <1> QED BY <1>3, <1>4

LEMMA PlayersSweep ==
  ASSUME IInv, Sweeps, NEW s \in Session,
         \/ ReadPhase(s) \/ InsertGuarded(s) \/ NextForTeam(s) \/ SnapshotGuarded(s)
         \/ UpdateGuarded(s) \/ ResolveMatchRow(s) \/ SettleRides(s)
  PROVE  Sweeps'
  <1>1. CASE End(s)
    BY <1>1, EndSweeps
  <1>2. CASE ~End(s)
    <2>1. sess[s].pc \in {"phase", "next", "snapshot", "write", "settle"} /\ UNCHANGED <<ride, match>>
      BY <1>2 DEF ReadPhase, InsertGuarded, NextForTeam, SnapshotGuarded, UpdateGuarded,
         ResolveMatchRow, SettleRides, StepOrEnd, AllFree
    <2>2. ~Closing(sess[s])
      BY <2>1, Fields DEF Shape, ShapeByStep, Closing, Player, Decision
    <2>3. ASSUME NEW pc, Goto(s, pc)
          PROVE  sess'[s].cmd = sess[s].cmd /\ \A o \in Session \ {s} : sess'[o] = sess[o]
      BY <2>3, Fields DEF Goto, SessionState
    <2>4. ASSUME NEW m, sess' = [sess EXCEPT ![s].match = m, ![s].pc = "snapshot"]
          PROVE  sess'[s].cmd = sess[s].cmd /\ \A o \in Session \ {s} : sess'[o] = sess[o]
      <3>1. sess' = [sess EXCEPT ![s] = [sess[s] EXCEPT !.match = m, !.pc = "snapshot"]]
        BY <2>4, Fields
      <3> QED BY <3>1, Fields DEF SessionState
    <2>5. \/ \E pc : Goto(s, pc)
          \/ \E m : sess' = [sess EXCEPT ![s].match = m, ![s].pc = "snapshot"]
      BY <1>2 DEF ReadPhase, InsertGuarded, NextForTeam, SnapshotGuarded, UpdateGuarded,
         ResolveMatchRow, SettleRides, StepOrEnd
    <2>6. \A o \in Session \ {s} : pend'[o] = pend[o]
      BY <1>2, Fields DEF ReadPhase, InsertGuarded, NextForTeam, SnapshotGuarded, UpdateGuarded,
         ResolveMatchRow, SettleRides, StepOrEnd
    <2> QED BY <2>1, <2>2, <2>3, <2>4, <2>5, <2>6, OtherCommand DEF Closing
  <1> QED BY <1>1, <1>2

\* A row is visited, skipped or written: what is known of rides that are still
\* undecided stays the same.
LEMMA SweepRideSweeps ==
  ASSUME IInv, Sweeps, NEW s \in Session, NEW r \in Ride, NEW m \in Match, SweepRide(s, r, m)
  PROVE  Sweeps'
  <1>1. /\ sess[s] \in SessionState /\ pend[s] \in [Ride -> RideRow] /\ ride[r] \in RideRow
        /\ Closing(sess[s]) /\ <<r, m>> \in sess[s].todo /\ AllFree
    BY Fields DEF SweepRide, Shape, ShapeByStep, Closing
  <1>2. sess'[s] = [sess[s] EXCEPT !.todo = sess[s].todo \ {<<r, m>>}]
    BY Fields DEF SweepRide
  <1>3. sess'[s].cmd = sess[s].cmd /\ sess'[s].todo = sess[s].todo \ {<<r, m>>}
    BY <1>1, <1>2 DEF SessionState
  <1>4. \A o \in Session \ {s} : sess'[o] = sess[o] /\ pend'[o] = pend[o]
    BY Fields DEF SweepRide
  <1>5. /\ \A q \in Ride \ {r} : pend'[s][q] = pend[s][q]
        /\ IF ride[r].state = "won_pending" /\ ride[r].match = m
           THEN pend'[s][r].state # "absent" ELSE pend'[s][r] = pend[s][r]
    BY <1>1, AutoResolvedRow, Fields DEF SweepRide
  <1>6. Knows(sess'[s], pend'[s]) = Knows(sess[s], pend[s])
    <2>1. ASSUME NEW q \in Ride, ride[q].state = "won_pending"
          PROVE  (<<q, ride[q].match>> \in sess'[s].todo \/ Has(pend'[s], q))
                   <=> (<<q, ride[q].match>> \in sess[s].todo \/ Has(pend[s], q))
      <3>1. CASE q = r /\ ride[q].match = m
        BY <1>1, <1>5, <2>1, <3>1 DEF Has
      <3>2. CASE ~(q = r /\ ride[q].match = m)
        BY <1>3, <1>5, <2>1, <3>2 DEF Has
      <3> QED BY <3>1, <3>2
    <2> QED BY <2>1 DEF Knows
  <1>7. VisitsClosed(sess'[s])
    BY <1>1, <1>3 DEF Sweeps, VisitsClosed
  <1> QED BY <1>1, <1>4, <1>6, <1>7, OneSweeps DEF AllFree

LEMMA FlipSweeps ==
  ASSUME IInv, Sweeps, NEW s \in Session, FlipRound(s)
  PROVE  Sweeps'
  <1>1. CASE End(s)
    BY <1>1, EndSweeps
  <1>2. CASE Goto(s, "commit") /\ UNCHANGED pend /\ AllFree
    <2>1. Closing(sess[s]) /\ sess[s] \in SessionState
      BY Fields DEF FlipRound, Shape, ShapeByStep, Closing
    <2>2. /\ sess'[s].cmd = sess[s].cmd /\ sess'[s].todo = sess[s].todo
          /\ \A o \in Session \ {s} : sess'[o] = sess[o] /\ pend'[o] = pend[o]
      BY <1>2, <2>1, Fields DEF Goto, SessionState
    <2>3. VisitsClosed(sess'[s]) /\ Knows(sess'[s], pend'[s]) = Knows(sess[s], pend[s])
      BY <1>2, <2>1, <2>2 DEF Sweeps, VisitsClosed, Knows, Closing
    <2> QED BY <1>2, <2>1, <2>2, <2>3, OneSweeps DEF AllFree
  <1> QED BY <1>1, <1>2 DEF FlipRound, StepOrEnd

\* A commit adds no ride to what a close knows: what it makes undecided was on
\* a match that ran until now, and a close visits matches that are over.
LEMMA CommitKeepsKnowledge ==
  ASSUME IInv, Sweeps, NEW s \in Session, Commit(s), NEW o \in Session \ {s}, Closing(sess[o])
  PROVE  Knows(sess[o], pend[o])' = {r \in Knows(sess[o], pend[o]) : ride'[r] = ride[r]}
  <1>1. sess'[o] = sess[o] /\ pend'[o] = pend[o]
    BY CommitChanges
  <1>2. ASSUME NEW r \in Ride, ride'[r].state = "won_pending", ride'[r] # ride[r]
        PROVE  ~(<<r, ride'[r].match>> \in sess[o].todo \/ Has(pend[o], r))
    <2>1. Has(pend[s], r) /\ Wrote(sess[s], r, ride'[r])
      BY <1>2, CommitChanges
    <2>2. sess[s].cmd = "resolve" /\ ride'[r].match = sess[s].match
      BY <1>2, <2>1, WroteARow
    <2>3. match[ride'[r].match].status = "in_progress"
      BY <2>2, CommitChanges
    <2>4. <<r, ride'[r].match>> \notin sess[o].todo
      BY <2>3 DEF Sweeps, VisitsClosed
    <2>5. ~Has(pend[o], r)
      BY <2>1 DEF IInv, Exclusion, Apart
    <2> QED BY <2>4, <2>5
  <1>3. ASSUME NEW r \in Ride
        PROVE  (/\ ride'[r].state = "won_pending"
                /\ <<r, ride'[r].match>> \in sess'[o].todo \/ Has(pend'[o], r))
               <=> r \in Knows(sess[o], pend[o]) /\ ride'[r] = ride[r]
    BY <1>1, <1>2, <1>3 DEF Knows
  <1>4. Knows(sess[o], pend[o])' =
          {r \in Ride : /\ ride'[r].state = "won_pending"
                        /\ <<r, ride'[r].match>> \in sess'[o].todo \/ Has(pend'[o], r)}
    BY DEF Knows, Has
  <1>5. Knows(sess[o], pend[o]) \subseteq Ride
    BY DEF Knows
  <1> QED BY <1>3, <1>4, <1>5

LEMMA CommitSweeps ==
  ASSUME IInv, Sweeps, NEW s \in Session, Commit(s)
  PROVE  Sweeps'
  <1>1. /\ sess'[s] = Idle /\ ~Closing(Idle) /\ Idle.pc = "idle"
        /\ \A o \in Session \ {s} : sess'[o] = sess[o] /\ pend'[o] = pend[o]
    BY CommitChanges, IdleIsFine DEF Closing
  <1>2. ASSUME NEW o \in Session, Closing(sess'[o])
        PROVE  /\ o # s /\ Closing(sess[o])
               /\ Knows(sess[o], pend[o])' = {r \in Knows(sess[o], pend[o]) : ride'[r] = ride[r]}
    BY <1>1, <1>2, CommitKeepsKnowledge
  <1>3. Nested'
    <2> SUFFICES ASSUME NEW o1 \in Session, NEW o2 \in Session, Closing(sess'[o1]), Closing(sess'[o2])
                 PROVE  \/ Knows(sess[o1], pend[o1])' \subseteq Knows(sess[o2], pend[o2])'
                        \/ Knows(sess[o2], pend[o2])' \subseteq Knows(sess[o1], pend[o1])'
      BY DEF Nested, Comparable, Closing
    <2>1. \/ Knows(sess[o1], pend[o1]) \subseteq Knows(sess[o2], pend[o2])
          \/ Knows(sess[o2], pend[o2]) \subseteq Knows(sess[o1], pend[o1])
      BY <1>2 DEF Sweeps, Nested, Comparable
    <2> QED BY <1>2, <2>1
  <1>4. \A m \in Match : match[m].status = "closed" => match'[m].status = "closed"
    <2>1. CASE sess[s].cmd # "resolve"
      BY <2>1, CommitChanges
    <2>2. CASE sess[s].cmd = "resolve"
      BY <2>2, CommitChanges, Fields
    <2> QED BY <2>1, <2>2
  <1>5. ASSUME NEW o \in Session PROVE VisitsClosed(sess[o])'
    <2>1. \A e \in sess[o].todo : e[2] \in Match
      BY Fields DEF SessionState
    <2> QED BY <1>1, <1>4, <2>1 DEF Sweeps, VisitsClosed, Closing
  <1>6. IsFiniteSet(Busy')
    <2>1. Busy' \in SUBSET Busy
      BY <1>1 DEF Busy
    <2> QED BY <2>1, FS_Subset DEF Sweeps
  <1> QED BY <1>3, <1>5, <1>6 DEF Sweeps

\* No request steps, no ride changes, and no match reopens.
LEMMA OutsideSweeps ==
  ASSUME IInv, Sweeps, UNCHANGED <<ride, pend>>,
         \A s \in Session : /\ sess'[s].pc = sess[s].pc /\ sess'[s].cmd = sess[s].cmd
                            /\ sess'[s].todo = sess[s].todo,
         \A m \in Match : match[m].status = "closed" => match'[m].status = "closed"
  PROVE  Sweeps'
  <1>1. \A s \in Session : Knows(sess[s], pend[s])' = Knows(sess[s], pend[s])
    BY DEF Knows, Has
  <1>2. Nested'
    BY <1>1 DEF Sweeps, Nested, Comparable, Closing
  <1>3. ASSUME NEW s \in Session PROVE VisitsClosed(sess[s])'
    <2>1. \A e \in sess[s].todo : e[2] \in Match
      BY Fields DEF SessionState
    <2> QED BY <2>1 DEF Sweeps, VisitsClosed, Closing
  <1>4. Busy' = Busy
    BY DEF Busy
  <1> QED BY <1>2, <1>3, <1>4 DEF Sweeps

LEMMA EditSweeps ==
  ASSUME IInv, Sweeps, NEW m \in Match,
         \/ StartMatch(m)
         \/ \E winner \in Team \cup {NoTeam} : CorrectScore(m, winner)
         \/ \E startsAt \in Slots : Reschedule(m, startsAt)
  PROVE  Sweeps'
  <1>0. match \in [Match -> MatchRow]
    BY Fields DEF IInv, TypeOK
  <1>1. ASSUME NEW row, Patch(m, row), row.status = "closed" \/ match[m].status # "closed",
               row \in MatchRow
        PROVE  Sweeps'
    <2>1. /\ match'[m].status = row.status /\ \A o \in Match \ {m} : match'[o] = match[o]
          /\ UNCHANGED <<ride, sess, pend>>
      BY <1>0, <1>1 DEF Patch, MatchRow
    <2> QED BY <1>1, <2>1, OutsideSweeps
  <1>2. CASE StartMatch(m)
    <2>1. PICK row : row = [match[m] EXCEPT !.status = "in_progress"]
      OBVIOUS
    <2>2. row \in MatchRow
      BY <1>0, <2>1 DEF MatchRow
    <2> QED BY <1>1, <1>2, <2>1, <2>2 DEF StartMatch
  <1>3. ASSUME NEW winner \in Team \cup {NoTeam}, CorrectScore(m, winner) PROVE Sweeps'
    <2>1. PICK row : row = [match[m] EXCEPT !.winner = winner]
      OBVIOUS
    <2>2. row \in MatchRow /\ row.status = match[m].status
      BY <1>0, <2>1 DEF MatchRow
    <2> QED BY <1>1, <1>3, <2>1, <2>2 DEF CorrectScore
  <1>4. ASSUME NEW startsAt \in Slots, Reschedule(m, startsAt) PROVE Sweeps'
    <2>1. PICK row : row = [match[m] EXCEPT !.startsAt = startsAt]
      OBVIOUS
    <2>2. row \in MatchRow /\ row.status = match[m].status
      BY <1>0, <2>1, BoundAssumption DEF MatchRow, BoundAssumption
    <2> QED BY <1>1, <1>4, <2>1, <2>2 DEF Reschedule
  <1> QED BY <1>2, <1>3, <1>4

LEMMA NextSweeps == IInv /\ Ordered /\ Sweeps /\ [Next]_vars => Sweeps'
  <1> SUFFICES ASSUME IInv, Ordered, Sweeps, [Next]_vars PROVE Sweeps'
    OBVIOUS
  <1>1. ASSUME NEW s \in Session, Begin(s) \/ Progress(s) \/ Cancel(s) PROVE Sweeps'
    <2>1. CASE Progress(s)
      BY <2>1, PlayersSweep, SweepRideSweeps, FlipSweeps, CommitSweeps, EndSweeps
         DEF Progress, AbortDeadlock
    <2> QED BY <1>1, <2>1, BeginSweeps, EndSweeps DEF Cancel
  <1>2. ASSUME NEW k \in Round, OpenRound(k) \/ CloseUnopened(k) PROVE Sweeps'
    <2>1. UNCHANGED <<ride, match, sess, pend>>
      BY <1>2 DEF OpenRound, CloseUnopened
    <2> QED BY <2>1, OutsideSweeps
  <1>3. CASE Tick
    <2>1. \A s \in Session : /\ sess'[s].pc = sess[s].pc /\ sess'[s].cmd = sess[s].cmd
                             /\ sess'[s].todo = sess[s].todo
      BY <1>3, Fields DEF Tick, SessionState
    <2> QED BY <1>3, <2>1, OutsideSweeps DEF Tick
  <1>4. CASE UNCHANGED vars
    BY <1>4, OutsideSweeps DEF vars
  <1> QED BY <1>1, <1>2, <1>3, <1>4, EditSweeps DEF Next

LEMMA LeastNumber ==
  ASSUME NEW N \in SUBSET Nat, N # {}
  PROVE  \E n \in N : \A k \in N : n <= k
  <1>1. PICK n \in N : \A k \in N : ~(<<k, n>> \in OpToRel(<, Nat))
    BY NatLessThanWellFounded, WFMin
  <1>2. \A k \in N : ~(k < n)
    BY <1>1 DEF OpToRel
  <1> QED BY <1>2

\* ORDER BY starts_at, id LIMIT 1 always finds a row where there is one.
LEMMA FirstExists ==
  ASSUME match \in [Match -> MatchRow], NEW S \in SUBSET Match, S # {}
  PROVE  \E m \in S : IsFirst(m, S)
  <1>1. \A m \in S : m \in Nat /\ match[m].startsAt \in Nat
    BY ScheduleAssumption DEF ScheduleAssumption, MatchRow
  <1>2. PICK t \in {match[m].startsAt : m \in S} : \A u \in {match[m].startsAt : m \in S} : t <= u
    <2>1. {match[m].startsAt : m \in S} \in SUBSET Nat /\ {match[m].startsAt : m \in S} # {}
      BY <1>1
    <2> QED BY <2>1, LeastNumber
  <1>3. PICK m \in {n \in S : match[n].startsAt = t} : \A n \in {n \in S : match[n].startsAt = t} : m <= n
    <2>1. {n \in S : match[n].startsAt = t} \in SUBSET Nat /\ {n \in S : match[n].startsAt = t} # {}
      BY <1>1, <1>2
    <2> QED BY <2>1, LeastNumber
  <1>4. ASSUME NEW o \in S
        PROVE  \/ match[m].startsAt < match[o].startsAt
               \/ match[m].startsAt = match[o].startsAt /\ m <= o
    BY <1>1, <1>2, <1>3
  <1> QED BY <1>3, <1>4 DEF IsFirst

\* Whoever holds a row is about to commit, or is an auto-resolution that holds
\* an undecided ride.
LEMMA WhoHolds ==
  ASSUME IInv, NEW o \in Session, NEW r \in Ride, Holds(o, r)
  PROVE  \/ sess[o].pc = "commit"
         \/ sess[o].pc = "sweep" /\ Closing(sess[o]) /\ ride[r].state = "won_pending"
  <1>1. Has(pend[o], r) /\ Wrote(sess[o], r, pend[o][r]) /\ Shape(sess[o])
    BY Fields DEF Holds, Has, Fine, Written
  <1>2. sess[o].pc \in {"commit", "sweep"}
    BY <1>1, NothingWritten
  <1>3. sess[o].pc = "sweep" => sess[o].cmd = "close"
    BY <1>1 DEF Shape, ShapeByStep
  <1> QED BY <1>1, <1>2, <1>3 DEF Wrote, Closing, Decision

\* Where nobody can go on, all wait for auto-resolutions.
LEMMA AllWaitForCloses ==
  ASSUME IInv, \A s \in Session : ~Ready(s), NEW s \in Session, sess[s].pc # "idle"
  PROVE  /\ sess[s].pc = "sweep" => sess[s].todo # {}
         /\ \E o \in Session, r \in Ride : sess[o].pc = "sweep" /\ Holds(o, r)
  <1>1. \A o \in Session : sess[o].pc \notin {"commit", "phase"}
    BY DEF Ready
  <1>2. \A o \in Session, r \in Ride : Holds(o, r) =>
            sess[o].pc = "sweep" /\ Closing(sess[o]) /\ ride[r].state = "won_pending"
    BY <1>1, WhoHolds
  <1>3. \A o \in Session : \A k : ~FlippedBy(o, k) /\ ~SharedBy(o, k)
    BY <1>1 DEF FlippedBy, SharedBy
  <1>4. \A o \in Session : sess[o].pc # "settle"
    <2> SUFFICES ASSUME NEW o \in Session, sess[o].pc = "settle" PROVE FALSE
      OBVIOUS
    <2>1. PICK r \in LockedOn(sess[o].match) : ~RideFree(o, r)
      BY DEF Ready
    <2> QED BY <1>2, <2>1 DEF RideFree, LockedOn
  <1>5. sess[s].pc # "next"
    <2> SUFFICES ASSUME sess[s].pc = "next" PROVE FALSE
      OBVIOUS
    <2>1. Upcoming(sess[s].seen.team) \in SUBSET Match
      BY DEF Upcoming
    <2> QED BY <2>1, FirstExists, Fields DEF Ready
  <1>6. sess[s].pc # "snapshot"
    BY <1>3 DEF Ready
  <1>7. CASE sess[s].pc = "write"
    <2>1. sess[s].cmd # "resolve"
      BY <1>1, <1>4, <1>7 DEF Ready, MatchFree, ResolvedBy
    <2>2. ~RideFree(s, sess[s].row) /\ sess[s].row \in Ride
      BY <1>7, <2>1, Fields DEF Ready, Shape, ShapeByStep, ShapeByCommand, Player
    <2> QED BY <1>2, <1>7, <2>2 DEF RideFree
  <1>8. CASE sess[s].pc = "sweep"
    <2>1. PICK row \in sess[s].todo : ~RideFree(s, row[1])
      BY <1>3, <1>8 DEF Ready
    <2>2. row[1] \in Ride
      BY Fields DEF SessionState
    <2> QED BY <1>2, <2>1, <2>2 DEF RideFree
  <1>9. sess[s].pc \in {"idle", "phase", "next", "snapshot", "write", "settle", "sweep", "commit"}
    BY Fields DEF SessionState
  <1> QED BY <1>1, <1>4, <1>5, <1>6, <1>7, <1>8, <1>9

\* Of the auto-resolutions that hold something take one that knows least: who
\* holds what it waits for knows of everything that it holds, and waits for it.
LEMMA SomeoneIsReady ==
  ASSUME IInv, Sweeps
  PROVE  NoStandstill
  <1> SUFFICES ASSUME NEW b \in Session, sess[b].pc # "idle", \A s \in Session : ~Ready(s)
               PROVE  FALSE
    BY DEF NoStandstill
  <1> DEFINE K(o) == Knows(sess[o], pend[o])
             Holder == {o \in Session : sess[o].pc = "sweep" /\ \E r \in Ride : Holds(o, r)}
             Below(o) == {h \in Busy : Closing(sess[h]) /\ K(h) \subseteq K(o)}
             Rank == {Cardinality(Below(o)) : o \in Holder}
  <1>1. \A o \in Holder : Closing(sess[o]) /\ o \in Busy
    BY WhoHolds DEF Busy
  <1>2. \A o : IsFiniteSet(Below(o)) /\ Cardinality(Below(o)) \in Nat
    <2>1. \A o : Below(o) \in SUBSET Busy
      OBVIOUS
    <2> QED BY <2>1, FS_Subset, FS_CardinalityType DEF Sweeps
  <1>3. Rank \in SUBSET Nat /\ Rank # {}
    BY <1>2, AllWaitForCloses
  <1>4. PICK s \in Holder : \A o \in Holder : Cardinality(Below(s)) <= Cardinality(Below(o))
    <2>1. PICK n \in Rank : \A k \in Rank : n <= k
      BY <1>3, LeastNumber
    <2>2. PICK s \in Holder : n = Cardinality(Below(s))
      BY <2>1
    <2>3. \A o \in Holder : Cardinality(Below(o)) \in Rank
      OBVIOUS
    <2> QED BY <2>1, <2>2, <2>3
  <1>5. PICK row \in sess[s].todo, o \in Session \ {s} : Holds(o, row[1])
    <2>1. sess[s].todo # {}
      BY <1>4, AllWaitForCloses
    <2> QED BY <1>4, <2>1 DEF Ready, RideFree
  <1>6. row[1] \in Ride
    BY <1>4, Fields DEF SessionState
  <1>7. o \in Holder
    BY <1>5, <1>6, WhoHolds DEF Ready
  <1>8. K(s) \subseteq K(o)
    <2> SUFFICES ASSUME ~(K(s) \subseteq K(o)) PROVE FALSE
      OBVIOUS
    <2>1. K(o) \subseteq K(s)
      BY <1>1, <1>4, <1>7 DEF Sweeps, Nested, Comparable
    <2>2. Below(o) \in SUBSET Below(s) /\ s \in Below(s) /\ s \notin Below(o)
      BY <1>1, <1>4, <2>1
    <2>3. Cardinality(Below(o)) <= Cardinality(Below(s)) /\ Cardinality(Below(o)) # Cardinality(Below(s))
      BY <1>2, <2>2, FS_Subset
    <2>4. Cardinality(Below(s)) <= Cardinality(Below(o))
      BY <1>4, <1>7
    <2> HIDE DEF Below
    <2> QED BY <1>2, <2>3, <2>4
  <1>9. PICK r \in Ride : Holds(s, r)
    BY <1>4
  <1>10. r \in K(o) /\ ~Has(pend[o], r)
    <2>1. ride[r].state = "won_pending"
      BY <1>4, <1>9, WhoHolds
    <2>2. r \in K(s)
      BY <1>9, <2>1 DEF Knows, Holds, Has
    <2> QED BY <1>4, <1>5, <1>8, <1>9, <2>2 DEF IInv, Exclusion, Apart, Holds, Has
  <1>11. <<r, ride[r].match>> \in sess[o].todo /\ <<r, ride[r].match>>[1] = r
    BY <1>10 DEF Knows
  <1>12. Deadlocked(s)
    BY <1>4, <1>5, <1>9, <1>11 DEF Deadlocked
  <1> QED BY <1>4, <1>12 DEF Ready

\* However many requests are in flight, and whatever rows they wait for, the
\* next statement of one of them can run: no deadline has to break a cycle.
THEOREM NobodyStandsStill == Spec => []NoStandstill
<1>1. Spec => []Ordered
  BY ServiceKeepsTheRules, PTL DEF Ordered
<1>2. IInv /\ Sweeps => NoStandstill
  BY SomeoneIsReady
<1> QED BY <1>1, <1>2, InitIsSwept, NextSweeps, Invariance, InitSatisfiesIInv, NextKeepsIInv, PTL DEF Spec
=============================================================================
