----------------------------- MODULE RideService -----------------------------
(***************************************************************************)
(* The ride commands, match resolution and round close of internal/game as *)
(* they run against PostgreSQL: every request is a transaction of several  *)
(* statements under READ COMMITTED, any number of requests at a time.      *)
(*                                                                         *)
(* What a statement sees.  ride, match and round hold committed rows only. *)
(* pend[s] holds the row versions session s has written and not committed: *)
(* they are invisible to others and lock the row against other writers.    *)
(* A guarded UPDATE is two steps.  Snapshot evaluates its WHERE on the     *)
(* rows committed at that instant; Write waits until nobody else holds the *)
(* row and then re-evaluates, on the newest version of that row only, what *)
(* the WHERE says of it (EvalPlanQual): facts of other tables stay as they *)
(* were in the snapshot.  A trigger reads with a snapshot of its own.      *)
(*                                                                         *)
(* A round's version column is abstracted to its status, which no round    *)
(* enters twice.  A match that is postponed is one that is still created.  *)
(* A request that is refused leaves no trace, so it simply ends.           *)
(***************************************************************************)
EXTENDS LeagueDefs

CONSTANTS
    Session,     \* requests in flight at a time
    NoRide,      \* a request that is about no ride
    MaxTime,     \* bound: the last hour the clock reaches
    Editable,    \* bound: the matches whose score or start is edited,
    MaxVersion,  \* bound: up to this version,
    Slots        \* bound: to one of these hours

ASSUME BoundAssumption ==
    MaxTime \in Nat /\ Editable \subseteq Match /\ MaxVersion \in Nat /\ Slots \subseteq Nat
ASSUME NoRideAssumption == NoRide \notin Ride

VARIABLES
    now,         \* the hour, for time.Now() and now() alike
    ride, match, round,
    sess,        \* what each request has read and where it stands
    pend         \* pend[s][r]: the uncommitted version of ride r s wrote

vars == <<now, ride, match, round, sess, pend>>

NoPending == [r \in Ride |-> AbsentRide]

Command == {"create", "lock", "burn", "unlock", "resolve", "close"}

\* seen: the ride as Rides.Get returned it (or as the create handler built
\* it); row: its id; match: the continuation's destination, or the match
\* being resolved; version: the match version the caller sent; at: the
\* transaction's now(); todo: the rows the auto-resolution has still to visit;
\* late: an hour has struck since the request began.
Idle ==
    [cmd |-> "none", pc |-> "idle", row |-> NoRide, seen |-> AbsentRide,
     match |-> NoMatch, winner |-> NoTeam, round |-> 1, version |-> 0, at |-> 0,
     todo |-> {}, late |-> FALSE]

SessionState ==
    [cmd: Command \cup {"none"},
     pc: {"idle", "phase", "next", "snapshot", "write", "settle", "sweep", "commit"},
     row: Ride \cup {NoRide}, seen: RideRow, match: Match \cup {NoMatch},
     winner: Team \cup {NoTeam}, round: Round, version: Nat, at: Nat,
     todo: SUBSET (Ride \X Match), late: BOOLEAN]

MatchRow == [status: {"created", "in_progress", "closed"},
             winner: Team \cup {NoTeam}, startsAt: Nat, endedAt: Nat \cup {NotEnded},
             version: Nat]

NewMatch(m) == [status |-> "created", winner |-> NoTeam, startsAt |-> StartsAt[m],
                endedAt |-> NotEnded, version |-> 1]

TypeOK ==
    /\ now \in Nat
    /\ ride  \in [Ride -> RideRow]
    /\ match \in [Match -> MatchRow]
    /\ round \in [Round -> {"created", "open", "closed"}]
    /\ sess  \in [Session -> SessionState]
    /\ pend  \in [Session -> [Ride -> RideRow]]

Init ==
    /\ now = 0
    /\ ride  = [r \in Ride |-> AbsentRide]
    /\ match = [m \in Match |-> NewMatch(m)]
    /\ round = [k \in Round |-> "created"]
    /\ sess  = [s \in Session |-> Idle]
    /\ pend  = [s \in Session |-> NoPending]

-----------------------------------------------------------------------------
(* Row locks *)

Holds(s, r) == pend[s][r].state # "absent"

RideFree(s, r) == \A o \in Session \ {s} : ~Holds(o, r)

\* From its UPDATE matches to its commit a resolution holds the match row.
ResolvedBy(o, m) == /\ sess[o].cmd = "resolve"
                    /\ sess[o].pc \in {"settle", "commit"}
                    /\ sess[o].match = m

MatchFree(s, m) == \A o \in Session \ {s} : ~ResolvedBy(o, m)

\* A close that has flipped the round holds its row; a create that has
\* inserted its ride holds it FOR SHARE.
FlippedBy(o, k) == sess[o].cmd = "close"  /\ sess[o].pc = "commit" /\ sess[o].round = k
ShareNothing(o, k) == FALSE   \* variant: INSERT ... SELECT without FOR SHARE
SharedBy(o, k)  == sess[o].cmd = "create" /\ sess[o].pc = "commit"
                       /\ RoundOf[sess[o].seen.match] = k

-----------------------------------------------------------------------------
(* The ends of a request *)

AllFree == UNCHANGED <<now, ride, match, round>>

\* Variant: the request ends and what it wrote is not rolled back.
EndUnrolled(s) ==
    /\ sess' = [sess EXCEPT ![s] = Idle]
    /\ UNCHANGED pend
    /\ AllFree

End(s) ==
    /\ sess' = [sess EXCEPT ![s] = Idle]
    /\ pend' = [pend EXCEPT ![s] = NoPending]
    /\ AllFree

Goto(s, pc) == sess' = [sess EXCEPT ![s].pc = pc]

\* The statement's condition decides between the next step and a refusal,
\* which rolls the transaction back.
StepOrEnd(s, cond, pc) ==
    \/ cond  /\ Goto(s, pc) /\ UNCHANGED pend /\ AllFree
    \/ ~cond /\ End(s)

\* The 3-second deadline, a client gone, a lost connection, a crash of the
\* server: whatever has not committed rolls back.
Cancel(s) ==
    /\ sess[s].pc # "idle"
    /\ End(s)

\* The row ResolveTx's UPDATE makes of the match.
ClosedMatch(s) ==
    [match[sess[s].match] EXCEPT !.status = "closed", !.winner = sess[s].winner,
                                 !.endedAt = sess[s].at, !.version = @ + 1]

\* A match row as the session's own transaction sees it: a resolution that has
\* written its scores reads those, everybody else the committed row.
MatchSeen(s, m) == IF ResolvedBy(s, m) THEN ClosedMatch(s) ELSE match[m]

\* COMMIT makes the pending versions of the session the rows themselves.
Commit(s) ==
    /\ sess[s].pc = "commit"
    /\ ride' = [r \in Ride |-> IF Holds(s, r) THEN pend[s][r] ELSE ride[r]]
    /\ match' = IF sess[s].cmd = "resolve"
                THEN [match EXCEPT ![sess[s].match] = ClosedMatch(s)]
                ELSE match
    /\ round' = IF sess[s].cmd = "close"
                THEN [round EXCEPT ![sess[s].round] = "closed"]
                ELSE round
    /\ sess' = [sess EXCEPT ![s] = Idle]
    /\ pend' = [pend EXCEPT ![s] = NoPending]
    /\ UNCHANGED now

-----------------------------------------------------------------------------
(* RideCreate *)

\* The handler builds the ride; ids come from a sequence, so no two requests
\* ever insert the same row.
BeginCreate(s, r, m, t) ==
    /\ sess[s].pc = "idle"
    /\ ride[r].state = "absent"
    /\ \A o \in Session : sess[o].cmd = "create" => sess[o].row # r
    /\ sess' = [sess EXCEPT ![s] = [Idle EXCEPT !.cmd = "create", !.pc = "phase", !.row = r,
                    !.seen = [AbsentRide EXCEPT !.match = m, !.team = t]]]
    /\ UNCHANGED pend
    /\ AllFree

\* RidePhase: one statement reads the round's status and the window, which
\* PhaseForMatch takes from the ride's own match alone (WHERE m.id = $1).
PhaseForMatch(m) == Phase(now, match[m].startsAt, match[m].endedAt)

\* Variant: the round's status is all that is asked.
ReadStatusOnly(s) ==
    /\ sess[s].pc = "phase"
    /\ StepOrEnd(s, round[RoundOf[sess[s].seen.match]] = "open",
                 IF sess[s].cmd = "lock" THEN "next" ELSE "snapshot")

ReadPhase(s) ==
    /\ sess[s].pc = "phase"
    /\ LET m == sess[s].seen.match
           cmd == sess[s].cmd
       IN StepOrEnd(s, /\ round[RoundOf[m]] = "open"
                       /\ PhaseForMatch(m) = PhaseFor(cmd),
                    IF cmd = "lock" THEN "next" ELSE "snapshot")

\* guardedInsertSQL: FOR SHARE waits for a close that has flipped the round
\* and then sees its outcome.
InsertGuarded(s) ==
    /\ sess[s].pc = "snapshot"
    /\ sess[s].cmd = "create"
    /\ LET k == RoundOf[sess[s].seen.match]
       IN /\ \A o \in Session : ~FlippedBy(o, k)
          /\ \/ /\ round[k] = "open"
                /\ pend' = [pend EXCEPT ![s][sess[s].row] =
                                CreatedRide(sess[s].seen.match, sess[s].seen.team)]
                /\ Goto(s, "commit")
                /\ AllFree
             \/ /\ round[k] # "open"
                /\ End(s)

-----------------------------------------------------------------------------
(* RideLock, RideBurn, RideUnlock *)

\* Rides.Get.  A ride that is not won_pending is refused by the domain
\* command whatever else is read, so those requests are left out.
BeginDecision(s, r, cmd) ==
    /\ sess[s].pc = "idle"
    /\ ride[r].state = "won_pending"
    /\ sess' = [sess EXCEPT ![s] = [Idle EXCEPT !.cmd = cmd, !.pc = "phase",
                                                !.row = r, !.seen = ride[r]]]
    /\ UNCHANGED pend
    /\ AllFree

Upcoming(t) == {m \in Match : /\ Plays(t, m)
                              /\ match[m].endedAt = NotEnded
                              /\ round[RoundOf[m]] # "closed"}

\* ORDER BY starts_at, id.
IsFirst(m, S) == \A o \in S : \/ match[m].startsAt < match[o].startsAt
                              \/ match[m].startsAt = match[o].startsAt /\ m <= o

NextForTeam(s) ==
    /\ sess[s].pc = "next"
    /\ LET found == Upcoming(sess[s].seen.team)
       IN \/ \E m \in found :
                /\ IsFirst(m, found)
                /\ sess' = [sess EXCEPT ![s].match = m, ![s].pc = "snapshot"]
                /\ UNCHANGED pend
                /\ AllFree
          \/ found = {} /\ End(s)

\* Variants: the WHERE without the version, and without either.
RowStillUndecided(s) == ride[sess[s].row].state = "won_pending"
RowUnasked(s) == TRUE

\* What guardedUpdateSQL asks of the ride's own row, before and after a wait.
RowUnchanged(s) == /\ ride[sess[s].row].version = sess[s].seen.version
                   /\ ride[sess[s].row].state = "won_pending"

Decision == {"lock", "burn", "unlock"}

SnapshotGuarded(s) ==
    /\ sess[s].pc = "snapshot"
    /\ sess[s].cmd \in Decision
    /\ LET dest == sess[s].match
       IN StepOrEnd(s, /\ RowUnchanged(s)
                       /\ round[RoundOf[ride[sess[s].row].match]] = "open"
                       /\ sess[s].cmd = "lock" => /\ match[dest].endedAt = NotEnded
                                                  /\ round[RoundOf[dest]] # "closed",
                    "write")

\* The domain command's result over what was read; version + 1 is the row's.
Decided(s) ==
    LET row == CASE sess[s].cmd = "lock" -> LockedOnto(sess[s].seen, sess[s].match)
                 [] sess[s].cmd = "burn" -> EndedAs(sess[s].seen, "burned")
                 [] OTHER                -> EndedAs(sess[s].seen, "unlocked")
    IN [row EXCEPT !.version = ride[sess[s].row].version + 1]

\* Variant: no answer when the UPDATE affects no row.
UpdateUnanswered(s) ==
    /\ sess[s].pc = "write"
    /\ sess[s].cmd \in Decision
    /\ RideFree(s, sess[s].row)
    /\ RowUnchanged(s)
    /\ pend' = [pend EXCEPT ![s][sess[s].row] = Decided(s)]
    /\ Goto(s, "commit")
    /\ AllFree

UpdateGuarded(s) ==
    /\ sess[s].pc = "write"
    /\ sess[s].cmd \in Decision
    /\ RideFree(s, sess[s].row)
    /\ \/ /\ RowUnchanged(s)
          /\ pend' = [pend EXCEPT ![s][sess[s].row] = Decided(s)]
          /\ Goto(s, "commit")
          /\ AllFree
       \/ /\ ~RowUnchanged(s)
          /\ End(s)

-----------------------------------------------------------------------------
(* MatchResolve *)

\* The snapshot of ResolveTx's UPDATE.  The caller's version is current, or
\* the request is refused here; ended_at will be the transaction's now(),
\* which matches_set_ended_at_on_close puts in place of the caller's.
BeginResolve(s, m, winner) ==
    /\ sess[s].pc = "idle"
    /\ match[m].status = "in_progress"
    /\ match[m].startsAt < now
    /\ match[m].endedAt = NotEnded
    /\ round[RoundOf[m]] = "open"
    /\ sess' = [sess EXCEPT ![s] = [Idle EXCEPT !.cmd = "resolve", !.pc = "write", !.match = m,
                                                !.winner = winner, !.version = match[m].version,
                                                !.at = now]]
    /\ UNCHANGED pend
    /\ AllFree

\* Variant: the match row is not re-checked against the version sent.
ResolveUnversioned(s) ==
    /\ sess[s].pc = "write"
    /\ sess[s].cmd = "resolve"
    /\ MatchFree(s, sess[s].match)
    /\ StepOrEnd(s, match[sess[s].match].status = "in_progress", "settle")

ResolveMatchRow(s) ==
    /\ sess[s].pc = "write"
    /\ sess[s].cmd = "resolve"
    /\ MatchFree(s, sess[s].match)
    /\ StepOrEnd(s, /\ match[sess[s].match].status = "in_progress"
                    /\ match[sess[s].match].version = sess[s].version, "settle")

\* UpdateAllForMatchTx: one statement over the rides that are locked on the
\* match in its snapshot, joined with the match row as its transaction has
\* just written it.  A ride another request is re-pointing to the match
\* is not among them.
LockedOn(m) == {r \in Ride : ride[r].state = "locked" /\ ride[r].match = m}

SettleRides(s) ==
    /\ sess[s].pc = "settle"
    /\ LET settled == LockedOn(sess[s].match)
           winner  == MatchSeen(s, sess[s].match).winner
       IN /\ \A r \in settled : RideFree(s, r)
          /\ pend' = [pend EXCEPT ![s] = [r \in Ride |->
                          IF r \in settled THEN SettledBy(ride[r], winner) ELSE @[r]]]
    /\ Goto(s, "commit")
    /\ AllFree

-----------------------------------------------------------------------------
(* RoundStore.Close and RoundStore.Open *)

UndecidedIn(k) == {r \in Ride : ride[r].state = "won_pending" /\ RoundOf[ride[r].match] = k}

\* The handler read an open round; the auto-resolution takes its snapshot.
BeginClose(s, k) ==
    /\ sess[s].pc = "idle"
    /\ round[k] = "open"
    /\ sess' = [sess EXCEPT ![s] = [Idle EXCEPT !.cmd = "close", !.pc = "sweep",
                                                !.round = k,
                    !.todo = {<<r, ride[r].match>> : r \in UndecidedIn(k)}]]
    /\ UNCHANGED pend
    /\ AllFree

\* One row of the auto-resolution: a ride a player decided meanwhile fails the
\* re-evaluated WHERE, which still joins it to the match m of the snapshot, and
\* is skipped.
SweepRide(s, r, m) ==
    /\ sess[s].pc = "sweep"
    /\ <<r, m>> \in sess[s].todo
    /\ RideFree(s, r)
    /\ sess' = [sess EXCEPT ![s].todo = @ \ {<<r, m>>}]
    /\ IF ride[r].state = "won_pending" /\ ride[r].match = m
       THEN pend' = [pend EXCEPT ![s][r] = AutoResolved(ride[r], sess[s].round)]
       ELSE UNCHANGED pend
    /\ AllFree

\* The auto-resolution visits its rows in whatever order PostgreSQL scans them,
\* so two closes of a round may each hold a row the other is waiting for.
\* The deadlock detector then aborts one of them.  It looks for any cycle;
\* cycles of two are enough here (NoStandstill).
Deadlocked(s) ==
    \E o \in Session \ {s} : /\ \E row \in sess[s].todo : Holds(o, row[1])
                            /\ \E row \in sess[o].todo : Holds(s, row[1])

AbortDeadlock(s) ==
    /\ sess[s].pc = "sweep"
    /\ Deadlocked(s)
    /\ End(s)

\* Variant: only a round above is refused.
NothingLaterClosed(k) == \A j \in Round : round[j] = "closed" => j < k

\* rounds_progress_gate: the highest closed round is the predecessor.
NextInSequence(k) == /\ \A j \in Round : round[j] = "closed" => j < k
                     /\ k > 1 => \E j \in Round : j = k - 1 /\ round[j] = "closed"

\* Variants: each half of the gate alone.
MatchesClosed(s, k)  == \A m \in MatchesOf(k) : match[m].status = "closed"
RidesResolved(s, k) == \A r \in UndecidedIn(k) : Holds(s, r)

\* rounds_close_gate, as the closing transaction sees the rows.
CloseGate(s, k) ==
    /\ \A m \in MatchesOf(k) : match[m].status = "closed"
    /\ \A r \in UndecidedIn(k) : Holds(s, r)

\* The flip waits for the round row, then the triggers judge it.
FlipRound(s) ==
    /\ sess[s].pc = "sweep"
    /\ sess[s].todo = {}
    /\ LET k == sess[s].round
       IN /\ \A o \in Session \ {s} : ~FlippedBy(o, k) /\ ~SharedBy(o, k)
          /\ StepOrEnd(s, round[k] = "open" /\ NextInSequence(k) /\ CloseGate(s, k), "commit")

\* Open writes one round row, guarded by the version it read; freeze gate and
\* progress gate judge it.  One step: nothing of it is visible in between.
OpenRound(k) ==
    /\ round[k] = "created"
    /\ NextInSequence(k)
    /\ \A m \in MatchesOf(k) : now < match[m].startsAt
    /\ round' = [round EXCEPT ![k] = "open"]
    /\ UNCHANGED <<now, ride, match, sess, pend>>

\* A PATCH from created to closed is a plain Update: no auto-resolution, the
\* same gates.
CloseUnopened(k) ==
    /\ round[k] = "created"
    /\ NextInSequence(k)
    /\ \A m \in MatchesOf(k) : match[m].status = "closed"
    /\ UndecidedIn(k) = {}
    /\ round' = [round EXCEPT ![k] = "closed"]
    /\ UNCHANGED <<now, ride, match, sess, pend>>

-----------------------------------------------------------------------------
(* PATCH of a match: one statement, guarded by the version the handler read  *)
(* in the same request, waiting for a resolution that holds the row.         *)

Patch(m, row) ==
    /\ \A s \in Session : ~ResolvedBy(s, m)
    /\ match' = [match EXCEPT ![m] = [row EXCEPT !.version = @ + 1]]
    /\ UNCHANGED <<now, ride, round, sess, pend>>

StartMatch(m) ==
    /\ match[m].status = "created"
    /\ Patch(m, [match[m] EXCEPT !.status = "in_progress"])

MayEdit(m) == m \in Editable /\ match[m].version < MaxVersion

CorrectScore(m, winner) ==
    /\ MayEdit(m)
    /\ match[m].status = "closed"
    /\ winner \in {HomeTeam[m], AwayTeam[m], NoTeam} \ {match[m].winner}
    /\ Patch(m, [match[m] EXCEPT !.winner = winner])

\* matches_freeze_gate refuses the edit of a match that has started and is
\* still created; matches_ended_at_check keeps the end after the start.
Reschedule(m, startsAt) ==
    /\ MayEdit(m)
    /\ match[m].status = "created" => now < match[m].startsAt
    /\ match[m].status = "closed"  => startsAt < match[m].endedAt
    /\ Patch(m, [match[m] EXCEPT !.startsAt = startsAt])

\* No request outlives three seconds, so it sees at most one hour strike.
Tick ==
    /\ now < MaxTime
    /\ \A s \in Session : ~sess[s].late
    /\ now' = now + 1
    /\ sess' = [s \in Session |-> [sess[s] EXCEPT !.late = (sess[s].pc # "idle")]]
    /\ UNCHANGED <<ride, match, round, pend>>

-----------------------------------------------------------------------------

Progress(s) ==
    \/ ReadPhase(s) \/ InsertGuarded(s)
    \/ NextForTeam(s) \/ SnapshotGuarded(s) \/ UpdateGuarded(s)
    \/ ResolveMatchRow(s) \/ SettleRides(s)
    \/ \E r \in Ride, m \in Match : SweepRide(s, r, m)
    \/ FlipRound(s) \/ AbortDeadlock(s)
    \/ Commit(s)

Begin(s) ==
    \/ \E r \in Ride, m \in Match, t \in Team : BeginCreate(s, r, m, t)
    \/ \E r \in Ride, cmd \in Decision : BeginDecision(s, r, cmd)
    \/ \E m \in Match : \E winner \in {HomeTeam[m], AwayTeam[m], NoTeam} : BeginResolve(s, m, winner)
    \/ \E k \in Round : BeginClose(s, k)

Next ==
    \/ \E s \in Session : Begin(s) \/ Progress(s) \/ Cancel(s)
    \/ \E k \in Round : OpenRound(k) \/ CloseUnopened(k)
    \/ \E m \in Match : StartMatch(m)
    \/ \E m \in Match, winner \in Team \cup {NoTeam} : CorrectScore(m, winner)
    \/ \E m \in Match, startsAt \in Slots : Reschedule(m, startsAt)
    \/ Tick

Spec == Init /\ [][Next]_vars

\* The scheduler runs every goroutine and PostgreSQL every statement whose
\* locks are free; nothing makes an operator act, a clock strike or a client
\* give up.
FairSpec == Spec /\ \A s \in Session : WF_vars(Progress(s))

-----------------------------------------------------------------------------
(* Safety *)

\* Whoever holds a ride row holds it alone and has written a successor of the
\* row as committed: no request overwrites a change it has not read.
Successors(row) ==
    IF row.state = "absent" THEN {CreatedRide(m, t) : m \in Match, t \in Team}
    ELSE {EndedAs(row, st) : st \in TerminalState \cup {"won_pending"}}
         \cup {LockedOnto(row, m) : m \in Match}

NoLostUpdate ==
    \A s \in Session, r \in Ride : Holds(s, r) =>
        pend[s][r] \in Successors(ride[r]) /\ RideFree(s, r)

\* The database's ride gate never refuses what the service writes ("a refusal
\* means the app and the DB disagree", updateRoundHandler): whoever has written
\* a row made a transition the gate knows from the row as committed, on a match
\* whose scores its own transaction can read, and left no bonus behind.
GateNeverRefuses ==
    \A s \in Session, r \in Ride : Holds(s, r) /\ ride[r].state # "absent" =>
        RideGate(ride[r], pend[s][r], MatchSeen(s, pend[s][r].match))

\* rounds_close_gate's promise about undecided rides, from commit to commit
\* and not only at the instant the trigger looked.
ClosedRoundIsDecided ==
    \A r \in Ride : ride[r].state = "won_pending" =>
        round[RoundOf[ride[r].match]] = "open"

\* The test's forbidden third shape: a closed round that owns a ride nobody
\* can resolve any more, locked ones included.
ClosedRoundOwnsNoLiveRide ==
    \A r \in Ride : ride[r].state \in LiveState =>
        round[RoundOf[ride[r].match]] # "closed"

\* A creation locks the round of its match and not the match.  That is enough:
\* the action phase ends an hour before the start, no request lives that long,
\* and no match is resolved before it starts.  A ride nobody has continued is
\* therefore never left behind by a resolution that did not see it, and only a
\* continuation can strand (on a match whose start nobody edits).
FreshRidesArePlayable ==
    \A r \in Ride :
        LET m == ride[r].match IN
        ride[r].state = "locked" /\ ride[r].streak = 0 /\ m \notin Editable =>
            match[m].status # "closed" /\ round[RoundOf[m]] # "closed"

\* A request whose next statement nobody keeps waiting: no lock it needs is
\* held by another, or the deadlock detector has found it.
Ready(s) ==
    LET q == sess[s] IN
    CASE q.pc = "idle"     -> FALSE
      [] q.pc = "next"     -> LET found == Upcoming(q.seen.team)
                              IN found = {} \/ \E m \in found : IsFirst(m, found)
      [] q.pc = "snapshot" -> q.cmd = "create" =>
                                  \A o \in Session : ~FlippedBy(o, RoundOf[q.seen.match])
      [] q.pc = "write"    -> IF q.cmd = "resolve" THEN MatchFree(s, q.match)
                              ELSE RideFree(s, q.row)
      [] q.pc = "settle"   -> \A r \in LockedOn(q.match) : RideFree(s, r)
      [] q.pc = "sweep"    -> \/ \E row \in q.todo : RideFree(s, row[1])
                              \/ /\ q.todo = {}
                                 /\ \A o \in Session \ {s} : ~FlippedBy(o, q.round) /\ ~SharedBy(o, q.round)
                              \/ Deadlocked(s)
      [] OTHER             -> TRUE

\* However many requests wait for each other's rows, one of them can go on:
\* the locks on rides, matches and rounds close no cycle but the one of two
\* auto-resolutions that each hold a row of the other, and there the detector
\* steps in.  No deadline is needed for that.
NoStandstill == (\E s \in Session : sess[s].pc # "idle") => \E s \in Session : Ready(s)

\* matches_ended_at_check: no interleaving of a rescheduling and a resolution
\* dates the end of a match before its start.
EndsAfterStart ==
    \A m \in Match : match[m].endedAt # NotEnded => match[m].startsAt < match[m].endedAt

\* Match and rides settle together: a locked ride changes only in the step
\* that closes its match, and to what that result makes of it.
SettledWithItsMatch ==
    [][\A r \in Ride : ride[r].state = "locked" /\ ride'[r] # ride[r] =>
         LET m == ride[r].match IN
         /\ match[m].status = "in_progress" /\ match'[m].status = "closed"
         /\ (ride'[r].state = "won_pending") <=> (ride[r].team = match'[m].winner)]_vars

\* Rounds and players never both decide: a step that decides a ride either
\* closes its round and decides every undecided ride of it, or leaves the
\* round open and decides that one ride.
OneDecider ==
    [][\A r \in Ride : ride[r].state = "won_pending" /\ ride'[r] # ride[r] =>
         LET k == RoundOf[ride[r].match] IN
         IF round'[k] = "closed"
         THEN \A q \in UndecidedIn(k) : ride'[q] = AutoResolved(ride[q], k)
         ELSE \A q \in Ride \ {r} : ride'[q] = ride[q]]_vars

\* round_phase.go: the round "becomes MatchPhase one hour before its first
\* match starts"; no request to create a ride gets past the phase later.
CreatedInRoundsActionPhase ==
    [][\A s \in Session : sess[s].cmd = "create" /\ sess[s].pc = "phase"
                              /\ sess'[s].pc = "snapshot" =>
         \A m \in MatchesOf(RoundOf[sess[s].seen.match]) : now < match[m].startsAt - Lead]_vars

(* The service implements the rules *)

Rules == INSTANCE RideRules WITH
    match <- [m \in Match |-> [status |-> match[m].status, winner |-> match[m].winner]]

ImplementsRules == Rules!Spec

(* Liveness *)

\* Once no new request arrives, every request in flight comes to an end
\* without its deadline having to cut it off: two closes of one round are the
\* only waits in a cycle, and PostgreSQL breaks those.  (While requests keep
\* arriving one of them may be overtaken at a row for ever; then the three
\* seconds end it.)
RequestsDrain ==
    <>[][\A s \in Session : sess[s].pc = "idle" => sess'[s].pc = "idle"]_vars
        => <>[](\A s \in Session : sess[s].pc = "idle")
=============================================================================
