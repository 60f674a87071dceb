------------------------------ MODULE RideRules ------------------------------
(***************************************************************************)
(* What the ride service promises, with every command a single step: the  *)
(* abstract specification RideService implements.  No sessions, no locks,  *)
(* no clock; only which changes of the committed rows are ever visible.    *)
(***************************************************************************)
EXTENDS LeagueDefs

VARIABLES
    ride,     \* [Ride -> RideRow]
    match,    \* [Match -> status and winner]
    round     \* [Round -> status]

vars == <<ride, match, round>>

MatchFact == [status: {"created", "in_progress", "closed"}, winner: Team \cup {NoTeam}]

ScheduledMatch == [status |-> "created", winner |-> NoTeam]

TypeOK ==
    /\ ride  \in [Ride -> RideRow]
    /\ match \in [Match -> MatchFact]
    /\ round \in [Round -> {"created", "open", "closed"}]

Init ==
    /\ ride  = [r \in Ride |-> AbsentRide]
    /\ match = [m \in Match |-> ScheduledMatch]
    /\ round = [k \in Round |-> "created"]

-----------------------------------------------------------------------------

InRound(r, k) == ride[r].state # "absent" /\ RoundOf[ride[r].match] = k
RidesOf(k)   == {r \in Ride : InRound(r, k)}   \* variant: no condition on the state
Undecided(k) == {r \in Ride : ride[r].state = "won_pending" /\ InRound(r, k)}
LockedOn(m) == {r \in Ride : ride[r].state = "locked" /\ ride[r].match = m}

\* Variant: only a round above is refused.
NothingLaterClosed(k) == \A j \in Round : round[j] = "closed" => j < k

\* The highest closed round is exactly the predecessor.
NextInSequence(k) == /\ \A j \in Round : round[j] = "closed" => j < k
                     /\ k > 1 => \E j \in Round : j = k - 1 /\ round[j] = "closed"

Open(k) ==
    /\ round[k] = "created"
    /\ NextInSequence(k)
    /\ round' = [round EXCEPT ![k] = "open"]
    /\ UNCHANGED <<ride, match>>

Start(m) ==
    /\ match[m].status = "created"
    /\ match' = [match EXCEPT ![m].status = "in_progress"]
    /\ UNCHANGED <<ride, round>>

\* A ride is born locked, on a match of an open round.
Create(r, m, t) ==
    /\ ride[r].state = "absent"
    /\ round[RoundOf[m]] = "open"
    /\ ride' = [ride EXCEPT ![r] = CreatedRide(m, t)]
    /\ UNCHANGED <<match, round>>

\* Variant: the rides settle, the match stays open.
SettleOnly(m, winner, settled) ==
    /\ match[m].status = "in_progress"
    /\ round[RoundOf[m]] = "open"
    /\ ride' = [r \in Ride |-> IF r \in settled THEN SettledBy(ride[r], winner)
                                                ELSE ride[r]]
    /\ UNCHANGED <<match, round>>

\* The match closes and the rides settle in one step.  settled need not be
\* all of LockedOn(m): a ride that another request is just locking onto m is
\* not among those the resolution saw.
Resolve(m, winner, settled) ==
    /\ match[m].status = "in_progress"
    /\ round[RoundOf[m]] = "open"
    /\ match' = [match EXCEPT ![m] = [status |-> "closed", winner |-> winner]]
    /\ ride' = [r \in Ride |-> IF r \in settled THEN SettledBy(ride[r], winner)
                                                ELSE ride[r]]
    /\ UNCHANGED round

\* A closed match's score can be edited; its rides are not revisited.
Correct(m, winner) ==
    /\ match[m].status = "closed"
    /\ match' = [match EXCEPT ![m].winner = winner]
    /\ UNCHANGED <<ride, round>>

\* A player decides while the round of the ride's match is still open.
Decide(r, decided) ==
    /\ ride[r].state = "won_pending"
    /\ round[RoundOf[ride[r].match]] = "open"
    /\ ride' = [ride EXCEPT ![r] = decided]
    /\ UNCHANGED <<match, round>>

\* Variant: a continuation that forgets to count itself.
DecisionsUncounted(row) ==
    {EndedAs(row, "burned"), EndedAs(row, "unlocked")}
    \cup {[row EXCEPT !.state = "locked", !.match = m, !.version = @ + 1] : m \in Match}

Decisions(row) == {EndedAs(row, "burned"), EndedAs(row, "unlocked")}
                  \cup {LockedOnto(row, m) : m \in Match}

\* Variant: the close leaves the undecided rides alone.
CloseOnly(k) ==
    /\ round[k] = "open"
    /\ NextInSequence(k)
    /\ \A m \in MatchesOf(k) : match[m].status = "closed"
    /\ round' = [round EXCEPT ![k] = "closed"]
    /\ UNCHANGED <<ride, match>>

\* A round closes over closed matches only and decides what is undecided.
Close(k) ==
    /\ round[k] = "open"
    /\ NextInSequence(k)
    /\ \A m \in MatchesOf(k) : match[m].status = "closed"
    /\ round' = [round EXCEPT ![k] = "closed"]
    /\ ride' = [r \in Ride |-> IF r \in Undecided(k) THEN AutoResolved(ride[r], k)
                                                     ELSE ride[r]]
    /\ UNCHANGED match

\* A created round may be closed without ever being open, if all its matches
\* are over: no ride is resolved, because none can be undecided there.
Skip(k) ==
    /\ round[k] = "created"
    /\ NextInSequence(k)
    /\ \A m \in MatchesOf(k) : match[m].status = "closed"
    /\ round' = [round EXCEPT ![k] = "closed"]
    /\ UNCHANGED <<ride, match>>

Next ==
    \/ \E k \in Round : Open(k) \/ Close(k) \/ Skip(k)
    \/ \E m \in Match : Start(m)
    \/ \E r \in Ride, m \in Match, t \in Team : Create(r, m, t)
    \/ \E m \in Match, winner \in Team \cup {NoTeam} :
          \/ \E settled \in SUBSET LockedOn(m) : Resolve(m, winner, settled)
          \/ Correct(m, winner)
    \/ \E r \in Ride : \E decided \in Decisions(ride[r]) : Decide(r, decided)

Spec == Init /\ [][Next]_vars

-----------------------------------------------------------------------------
(* Invariants *)

\* A closed round owns no undecided ride: what the close transaction and
\* rounds_close_gate are for.
ClosedRoundIsDecided ==
    \A r \in Ride : ride[r].state = "won_pending" =>
        round[RoundOf[ride[r].match]] = "open"

\* A ride only ever waits for a decision on a match that is over.
UndecidedOnClosedMatch ==
    \A r \in Ride : ride[r].state = "won_pending" => match[ride[r].match].status = "closed"

\* The streak counts the continuations, the version counts the writes, and
\* the two never part: a write lost or applied twice would show here.
StreakCountsContinuations ==
    \A r \in Ride :
        CASE ride[r].state = "absent" -> ride[r].version = 0 /\ ride[r].streak = 0
          [] ride[r].state = "locked" -> ride[r].version = 2 * ride[r].streak + 1
          [] ride[r].state \in {"won_pending", "lost"} -> ride[r].version = 2 * ride[r].streak + 2
          [] OTHER -> ride[r].version = 2 * ride[r].streak + 3

\* Rounds are worked through in order, one at a time.
RoundsInOrder ==
    \A j, k \in Round : j < k /\ round[k] # "created" => round[j] = "closed"

(* Action properties *)

\* burned, unlocked and lost are final.
TerminalStaysTerminal ==
    [][\A r \in Ride : ride[r].state \in TerminalState => ride'[r] = ride[r]]_vars
=============================================================================
