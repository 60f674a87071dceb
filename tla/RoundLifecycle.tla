---------------------------- MODULE RoundLifecycle ----------------------------
(***************************************************************************)
(* The rounds of one season and the season row itself, as the operator's   *)
(* requests change them: RoundStore.Insert/Update/Open/Close/Delete and    *)
(* SeasonStore.Update, called by the handlers of internal/api, judged by   *)
(* the gates of migrations 000001 and 000008.  The rides a close resolves  *)
(* are RideService's subject; here only the matches' progress is left of   *)
(* them.                                                                   *)
(*                                                                         *)
(* A request reads its row, then writes it in steps: the UPDATE locks the  *)
(* row and re-checks its version, BEFORE triggers judge the new row with a *)
(* snapshot of their own, the unique index on the number is entered (it    *)
(* waits for anybody who has not committed the same number), the           *)
(* transaction commits.  round and season hold what is committed.          *)
(*                                                                         *)
(* Versions are abstracted to contents: a request whose row was changed    *)
(* and changed back is the request of a caller who read it later.          *)
(***************************************************************************)
EXTENDS Integers, FiniteSets

CONSTANTS
    RoundRow,    \* the ids of rounds rows that may come to exist
    Session,     \* requests in flight at a time
    NoRow,       \* a request that is about no round
    LastRound    \* roundsPerSeason

ASSUME RowAssumption == LastRound \in Nat \ {0} /\ NoRow \notin RoundRow

VARIABLES
    season,      \* status of the season row
    round,       \* the rounds rows
    play,        \* how far the matches of each round are
    vacated,     \* history: the numbers closed rounds have been renumbered away from
    sess

vars == <<season, round, play, vacated, sess>>

SeasonStatus == {"created", "open", "in_progress", "closed"}
RoundStatus  == {"created", "open", "closed"}
Number       == 1..LastRound

Row == [status: RoundStatus \cup {"absent"}, number: Number \cup {0}]
NoRound == [status |-> "absent", number |-> 0]

\* "none": no match; "ahead": none has started; "started": one has and one is
\* not closed; "over": all are closed.
Play == {"none", "ahead", "started", "over"}

\* seen: the row as the handler read it; new: the row it wants; from and to:
\* the season's status a PATCH read and wants; flip: the season's status this
\* transaction has written.
Idle == [cmd |-> "none", pc |-> "idle", row |-> NoRow, seen |-> NoRound, new |-> NoRound,
         from |-> "created", to |-> "created", flip |-> "none"]

SessionState ==
    [cmd: {"none", "insert", "update", "open", "close", "delete", "season"},
     pc: {"idle", "flip", "write", "index", "end season", "commit"},
     row: RoundRow \cup {NoRow}, seen: Row, new: Row,
     from: SeasonStatus, to: SeasonStatus, flip: SeasonStatus \cup {"none"}]

TypeOK ==
    /\ season \in SeasonStatus
    /\ round \in [RoundRow -> Row]
    /\ play \in [RoundRow -> Play]
    /\ vacated \subseteq Number
    /\ sess \in [Session -> SessionState]

Init ==
    /\ season = "created"
    /\ round = [id \in RoundRow |-> NoRound]
    /\ play = [id \in RoundRow |-> "none"]
    /\ vacated = {}
    /\ sess = [s \in Session |-> Idle]

-----------------------------------------------------------------------------
(* Locks *)

\* Past its write, a request holds its round row until it commits.
HoldsRow(s, id) == sess[s].row = id /\ sess[s].pc \in {"index", "end season", "commit"}

RowFree(s, id) == \A o \in Session \ {s} : ~HoldsRow(o, id)
SeasonFree(s)  == \A o \in Session \ {s} : sess[o].flip = "none"

\* The index entries an uncommitted write touches: the number it leaves and,
\* once it has entered the index, the number it takes.
Touches(o, n) ==
    /\ sess[o].cmd # "season"
    /\ \/ sess[o].pc \in {"index", "end season", "commit"} /\ sess[o].seen.number = n
       \/ sess[o].pc \in {"end season", "commit"} /\ sess[o].new.number = n

-----------------------------------------------------------------------------
(* The gates *)

SeasonSeen(s) == IF sess[s].flip # "none" THEN sess[s].flip ELSE season

HasStarted(id)    == play[id] \in {"started", "over"}
MatchesClosed(id) == play[id] \in {"none", "over"}

ClosedNumbers == {round[id].number : id \in {i \in RoundRow : round[i].status = "closed"}}

\* Variant: nothing above n is closed, whatever is below.
IsAbove(n) == \A c \in ClosedNumbers : c < n

\* COALESCE(max(number) over the closed rounds, 0) = number - 1.
IsSuccessor(n) == /\ \A c \in ClosedNumbers : c < n
                  /\ n > 1 => n - 1 \in ClosedNumbers

\* rounds_progress_gate: forward transitions and the renumbering of a live or
\* closed round.
IsProgress(old, new) ==
    /\ new.status \in {"open", "closed"}
    /\ old.status # new.status \/ old.number # new.number

\* Variant: the gate asks for a live season only.
SeasonGate(s) == IsProgress(sess[s].seen, sess[s].new) => SeasonSeen(s) \in {"open", "in_progress"}

ProgressGate(s) ==
    IsProgress(sess[s].seen, sess[s].new) =>
        SeasonSeen(s) \in {"open", "in_progress"} /\ IsSuccessor(sess[s].new.number)

\* rounds_freeze_gate and rounds_close_gate (its half about the matches).
FreezeGate(s) == sess[s].new.status \in {"created", "open"} => ~HasStarted(sess[s].row)
CloseGate(s)  == sess[s].seen.status # "closed" /\ sess[s].new.status = "closed"
                     => MatchesClosed(sess[s].row)

\* rounds_delete_gate, over the row as it is.
DeleteGate(id) == round[id].status # "closed" /\ ~HasStarted(id)

-----------------------------------------------------------------------------
(* The ends of a request *)

Unwritten == UNCHANGED <<season, round, play, vacated>>

End(s) == sess' = [sess EXCEPT ![s] = Idle] /\ Unwritten
Goto(s, pc) == sess' = [sess EXCEPT ![s].pc = pc] /\ Unwritten

\* The deadline, a crash, or PostgreSQL breaking a deadlock in the index.
Cancel(s) == sess[s].pc # "idle" /\ End(s)

\* The number a rewrite of a closed round takes out of the sequence.
Vacates(old, new) ==
    IF old.status = "closed" /\ old.number # new.number THEN {old.number} ELSE {}

Commit(s) ==
    /\ sess[s].pc = "commit"
    /\ season' = SeasonSeen(s)
    /\ CASE sess[s].cmd = "season" -> UNCHANGED <<round, play, vacated>>
         [] sess[s].cmd = "delete" -> /\ round' = [round EXCEPT ![sess[s].row] = NoRound]
                                      /\ play'  = [play EXCEPT ![sess[s].row] = "none"]
                                      /\ UNCHANGED vacated
         [] OTHER -> /\ round' = [round EXCEPT ![sess[s].row] = sess[s].new]
                     /\ vacated' = vacated \cup Vacates(sess[s].seen, sess[s].new)
                     /\ UNCHANGED play
    /\ sess' = [sess EXCEPT ![s] = Idle]

-----------------------------------------------------------------------------
(* The handlers *)

\* createRoundHandler: ids come from a sequence, so no two requests share one.
BeginInsert(s, id, n) ==
    /\ sess[s].pc = "idle"
    /\ round[id].status = "absent"
    /\ \A o \in Session : sess[o].row # id
    /\ sess' = [sess EXCEPT ![s] = [Idle EXCEPT !.cmd = "insert", !.pc = "index", !.row = id,
                                    !.new = [status |-> "created", number |-> n]]]
    /\ Unwritten

RoundRank(status) == CASE status = "created" -> 0 [] status = "open" -> 1 [] OTHER -> 2

\* Which store method updateRoundHandler calls.
Dispatch(old, new) ==
    CASE old = "created" /\ new = "open"   -> "open"
      [] old = "open"    /\ new = "closed" -> "close"
      [] OTHER                             -> "update"

\* updateRoundHandler: Get, the advisory check of ValidateRoundUpdate, dispatch.
\* Close resolves the undecided rides first; none of it shows here.
BeginUpdate(s, id, new) ==
    /\ sess[s].pc = "idle"
    /\ round[id].status # "absent"
    /\ RoundRank(new.status) >= RoundRank(round[id].status)
    /\ LET cmd == Dispatch(round[id].status, new.status)
       IN sess' = [sess EXCEPT ![s] = [Idle EXCEPT !.cmd = cmd, !.row = id, !.seen = round[id],
                       !.new = new, !.pc = IF cmd = "open" THEN "flip" ELSE "write"]]
    /\ Unwritten

\* deleteRoundHandler reads nothing beforehand.
BeginDelete(s, id) ==
    /\ sess[s].pc = "idle"
    /\ round[id].status # "absent"
    /\ sess' = [sess EXCEPT ![s] = [Idle EXCEPT !.cmd = "delete", !.pc = "write", !.row = id]]
    /\ Unwritten

SeasonRank(status) == CASE status = "created" -> 0 [] status = "open" -> 1
                        [] status = "in_progress" -> 2 [] OTHER -> 3

BeginSeason(s, to) ==
    /\ sess[s].pc = "idle"
    /\ SeasonRank(to) >= SeasonRank(season)
    /\ sess' = [sess EXCEPT ![s] = [Idle EXCEPT !.cmd = "season", !.pc = "write",
                                                !.from = season, !.to = to]]
    /\ Unwritten

-----------------------------------------------------------------------------
(* The statements *)

\* UPDATE seasons ... WHERE id = $1 AND status = from: it waits for the row
\* only if the row qualifies.
FlipSeason(s, from, to, pc) ==
    \/ /\ season = from
       /\ SeasonFree(s)
       /\ sess' = [sess EXCEPT ![s].flip = to, ![s].pc = pc]
       /\ Unwritten
    \/ /\ season # from
       /\ Goto(s, pc)

OpenSeasonFlip(s)  == sess[s].pc = "flip" /\ FlipSeason(s, "open", "in_progress", "write")
CloseSeasonFlip(s) == sess[s].pc = "end season" /\ FlipSeason(s, "in_progress", "closed", "commit")

\* Variant: UPDATE rounds ... WHERE id = $3, without the version.
Overwrites(s) == round[sess[s].row].status # "absent"

\* WHERE id = $3 AND version = $4, and the row is still there.
Current(s) == round[sess[s].row] = sess[s].seen

WriteRound(s) ==
    /\ sess[s].pc = "write"
    /\ sess[s].cmd \in {"update", "open", "close"}
    /\ RowFree(s, sess[s].row)
    /\ IF Current(s) /\ ProgressGate(s) /\ FreezeGate(s) /\ CloseGate(s)
       THEN Goto(s, "index")
       ELSE End(s)

\* Variant: the table without rounds_season_id_number_key.
EnterNoIndex(s) ==
    /\ sess[s].pc = "index"
    /\ Goto(s, IF sess[s].cmd = "close" /\ sess[s].new.number = LastRound
               THEN "end season" ELSE "commit")

\* rounds_season_id_number_key.
EnterIndex(s) ==
    LET n == sess[s].new.number IN
    /\ sess[s].pc = "index"
    /\ \A o \in Session \ {s} : ~Touches(o, n)
    /\ IF \E id \in RoundRow \ {sess[s].row} : round[id].number = n
       THEN End(s)
       ELSE Goto(s, IF sess[s].cmd = "close" /\ n = LastRound THEN "end season" ELSE "commit")

DeleteRound(s) ==
    LET id == sess[s].row IN
    /\ sess[s].pc = "write"
    /\ sess[s].cmd = "delete"
    /\ RowFree(s, id)
    /\ IF round[id].status # "absent" /\ DeleteGate(id)
       THEN sess' = [sess EXCEPT ![s].pc = "commit", ![s].seen = round[id]] /\ Unwritten
       ELSE End(s)

\* SeasonStore.Update behind seasons_freeze_gate.
WriteSeason(s) ==
    /\ sess[s].pc = "write"
    /\ sess[s].cmd = "season"
    /\ SeasonFree(s)
    /\ IF /\ season = sess[s].from
          /\ sess[s].to \in {"created", "open"} => \A id \in RoundRow : ~HasStarted(id)
       THEN sess' = [sess EXCEPT ![s].pc = "commit", ![s].flip = sess[s].to] /\ Unwritten
       ELSE End(s)

-----------------------------------------------------------------------------
(* The matches, as far as the gates look at them.  A match can be added to   *)
(* any round and, while it has no rides, deleted from any.                   *)

Played(id, to) ==
    /\ play' = [play EXCEPT ![id] = to]
    /\ UNCHANGED <<season, round, vacated, sess>>

AddMatch(id) ==
    /\ round[id].status # "absent"
    /\ \/ play[id] = "none" /\ Played(id, "ahead")
       \/ play[id] = "over" /\ Played(id, "started")

KickOff(id)       == play[id] = "ahead"   /\ Played(id, "started")
ResolveLast(id)   == play[id] = "started" /\ Played(id, "over")
DeleteMatches(id) == play[id] # "none"    /\ Played(id, "none")

-----------------------------------------------------------------------------

Request(s) ==
    \/ \E id \in RoundRow, n \in Number : BeginInsert(s, id, n)
    \/ \E id \in RoundRow, new \in [status: RoundStatus, number: Number] : BeginUpdate(s, id, new)
    \/ \E id \in RoundRow : BeginDelete(s, id)
    \/ \E to \in SeasonStatus : BeginSeason(s, to)

Statement(s) ==
    \/ OpenSeasonFlip(s) \/ WriteRound(s) \/ EnterIndex(s) \/ CloseSeasonFlip(s)
    \/ DeleteRound(s) \/ WriteSeason(s)
    \/ Commit(s) \/ Cancel(s)

Next ==
    \/ \E s \in Session : Request(s) \/ Statement(s)
    \/ \E id \in RoundRow : AddMatch(id) \/ KickOff(id) \/ ResolveLast(id) \/ DeleteMatches(id)

Spec == Init /\ [][Next]_vars

-----------------------------------------------------------------------------
(* Properties *)

\* Every number below n is closed, or was until an operator renumbered it.
NothingSkipped(n) == \A k \in 1..(n - 1) : k \in ClosedNumbers \cup vacated

\* A live round has skipped nothing and shares its number with no other row,
\* and until an operator first renumbers a closed round it is the immediate
\* successor of what is closed, so that at most one is live: the gate reads
\* only committed rows, and it is the unique index that keeps two transactions
\* from passing it for different rounds at once.
OpenIsNext ==
    \A id \in RoundRow : round[id].status = "open" =>
        /\ NothingSkipped(round[id].number)
        /\ vacated = {} => IsSuccessor(round[id].number)
        /\ \A other \in RoundRow \ {id} : round[other].number # round[id].number

\* At the moment it takes effect, and not only when the gate looked, a round
\* goes live or into history, or takes another number there, above an unbroken
\* sequence; up to and including the first renumbering of a closed round,
\* directly above everything closed so far.
ProgressInSequence ==
    [][\A id \in RoundRow : IsProgress(round[id], round'[id]) =>
         /\ NothingSkipped(round'[id].number)
         /\ vacated = {} => IsSuccessor(round'[id].number)]_vars

\* Nothing goes back: not through a stale read in updateRoundHandler, not
\* through a deletion racing a close.
NoRegression ==
    [][/\ SeasonRank(season') >= SeasonRank(season)
       /\ \A id \in RoundRow :
            /\ round'[id].status # "absent" /\ round[id].status # "absent" =>
                   RoundRank(round'[id].status) >= RoundRank(round[id].status)
            /\ round[id].status = "closed" => round'[id].status = "closed"]_vars

\* A closed round has skipped nothing: the gates leave no hole of their own in
\* the sequence, whatever closes and renumberings race, and every hole there is
\* is a number that a closed round was renumbered away from.
SequenceUnbroken == \A n \in ClosedNumbers : NothingSkipped(n)

\* 000008: "the round sequence is unbroken ... 38 can only close after 1..37
\* closed", and renumbering is gated so that no writer can bypass that by
\* "renaming its way around the order".
ClosedFromTheFirst == \A n \in ClosedNumbers : 1..n \subseteq ClosedNumbers

\* RoundStore.Open: "opening a round starts the competitive phase".
LiveRoundHasSeasonInProgress ==
    (\E id \in RoundRow : round[id].status = "open") => season \in {"in_progress", "closed"}
=============================================================================
