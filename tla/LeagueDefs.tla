----------------------------- MODULE LeagueDefs -----------------------------
(***************************************************************************)
(* The vocabulary the ride modules share: the schedule as constants, the   *)
(* ride row, the phase of a round as the service derives it, and the       *)
(* database's own ride gate.  No variables: this is what internal/game     *)
(* computes without looking at the database.                               *)
(*                                                                         *)
(* Matches are numbered as their ids are, because NextForTeam breaks ties  *)
(* by id.  Time is counted in hours: actionPhaseLead and decisionPhaseLag  *)
(* are both one hour.                                                      *)
(***************************************************************************)
EXTENDS Integers, FiniteSets

CONSTANTS
    Ride,        \* the ride rows that may come to exist
    Match,       \* the matches of the season, a set of ids
    Team,
    NoTeam,      \* no winner: not closed, or a draw
    NoMatch,     \* match_id of a ride that does not exist, and "$7 = 0"
    NotEnded,    \* ended_at IS NULL
    LastRound,   \* roundsPerSeason
    RoundOf,     \* round_id of each match, as the round's number
    HomeTeam, AwayTeam, StartsAt

ScheduleAssumption ==
    /\ Match \subseteq Nat
    /\ LastRound \in Nat \ {0}
    /\ RoundOf \in [Match -> 1..LastRound]
    /\ StartsAt \in [Match -> Nat]
    /\ HomeTeam \in [Match -> Team]
    /\ AwayTeam \in [Match -> Team]

NullAssumption ==
    /\ NoTeam \notin Team
    /\ NoMatch \notin Match
    /\ NotEnded \notin Nat

ASSUME ScheduleAssumption
ASSUME NullAssumption

Round == 1..LastRound

MatchesOf(k) == {m \in Match : RoundOf[m] = k}

Plays(t, m) == t \in {HomeTeam[m], AwayTeam[m]}

-----------------------------------------------------------------------------
(* Rides *)

TerminalState == {"burned", "unlocked", "lost"}
LiveState     == {"locked", "won_pending"}
RideState     == LiveState \cup TerminalState

\* A row of rides.  "absent" is no row yet; bonus is bonus_acc; player and
\* tokens are left out: nothing here depends on them.
RideRow == [state: RideState \cup {"absent"}, match: Match \cup {NoMatch},
            team: Team \cup {NoTeam}, bonus: Nat, streak: Nat, version: Nat]

AbsentRide == [state |-> "absent", match |-> NoMatch, team |-> NoTeam,
               bonus |-> 0, streak |-> 0, version |-> 0]

\* ride.Create on the row the handler built: whatever the caller supplied for
\* the state, the bonus and the streak is discarded.
CreatedRide(m, t) == [state |-> "locked", match |-> m, team |-> t,
                      bonus |-> 0, streak |-> 0, version |-> 1]

\* ride.Lock / Burn / Unlock followed by the guarded UPDATE's version + 1.
\* Only an unlocked ride forfeits its bonus.
LockedOnto(row, m) == [row EXCEPT !.state = "locked", !.match = m,
                                  !.streak = @ + 1, !.version = @ + 1]
EndedAs(row, st)   == [row EXCEPT !.state = st,
                                  !.bonus = IF st = "unlocked" THEN 0 ELSE @,
                                  !.version = @ + 1]

\* Variants: a draw pays the ride, or leaves it in a state of its own.
SettledDrawWins(row, winner) ==
    [row EXCEPT !.state = IF winner \in {row.team, NoTeam} THEN "won_pending" ELSE "lost",
                !.version = @ + 1]
SettledDrawApart(row, winner) ==
    [row EXCEPT !.state = IF winner = NoTeam THEN "draw"
                          ELSE IF row.team = winner THEN "won_pending" ELSE "lost",
                !.version = @ + 1]

\* The CASE of UpdateAllForMatchTx: the ride's team won, or it did not.  The
\* statement writes no bonus, neither an accrued one nor a zero.
SettledBy(row, winner) ==
    [row EXCEPT !.state = IF row.team = winner THEN "won_pending" ELSE "lost",
                !.version = @ + 1]

\* What a round close does to its undecided rides: unlocked, and burned in
\* the season's last round.
AutoResolved(row, k) ==
    EndedAs(row, IF k = LastRound THEN "burned" ELSE "unlocked")

\* matches_status_score_check: a match has scores from its start on.
Scored(matchRow) == matchRow.status # "created"

\* rides_state_gate: the transitions the database lets any writer make.
\* matchRow is the new ride's match as the writer's own transaction sees it,
\* with the scores that transaction has written and nobody else can read yet.
RideGate(old, new, matchRow) ==
    /\ old.state \in TerminalState => new.state = old.state /\ new.match = old.match
    /\ new.match # old.match => old.state = "won_pending" /\ new.state = "locked"
    /\ new.state # old.state =>
          \/ old.state = "locked"      /\ new.state \in {"won_pending", "lost"}
          \/ old.state = "won_pending" /\ new.state \in {"locked", "burned", "unlocked"}
    /\ new.state \in {"unlocked", "lost"} => new.bonus = 0
    /\ old.state = "locked" /\ new.state \in {"won_pending", "lost"} =>
          /\ Scored(matchRow)
          /\ (new.state = "won_pending") <=> (new.team = matchRow.winner)

-----------------------------------------------------------------------------
(* Phases *)

Lead == 1   \* actionPhaseLead
Lag  == 1   \* decisionPhaseLag

\* game.Phase: firstStartsAt and lastEndedAt as its caller derived them.
Phase(now, firstStartsAt, lastEndedAt) ==
    IF now < firstStartsAt - Lead THEN "action"
    ELSE IF lastEndedAt = NotEnded \/ now < lastEndedAt + Lag THEN "match"
    ELSE "decision"

\* The phase each command insists on.
PhaseFor(cmd) == IF cmd = "create" THEN "action" ELSE "decision"
=============================================================================
