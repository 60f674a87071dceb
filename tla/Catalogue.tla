------------------------------ MODULE Catalogue ------------------------------
(***************************************************************************)
(* The rows everything else refers to: seasons, rounds, matches, teams and *)
(* players, and the requests that create, edit and delete them.  A handler *)
(* reads what it needs, checks it, and writes in a later statement; each   *)
(* statement commits by itself, so anything may happen in between, and the *)
(* foreign keys, the unique keys, the version columns and the gates of     *)
(* migration 000001 have the last word.  The deletion of a season or a      *)
(* round is one statement, but looks at the tables more than once: its     *)
(* gate judges the row it has locked, the cascades find what refers to it  *)
(* later, each with a snapshot of its own.                                 *)
(*                                                                         *)
(* Ids are never used twice: a row is not there yet (None), is there, or   *)
(* is gone for good (Gone).  A request that is refused leaves no trace and *)
(* ends; the ones refused before any write take no step at all, the ones   *)
(* whose X-Expected-Version differs from the version they read included.   *)
(***************************************************************************)
EXTENDS Naturals

CONSTANTS Season, Round, Match, Team, Player,  \* ids of rows that may come to exist
          User,        \* callers
          Admin,       \* those with players:write:any
          Session,     \* requests in flight at a time
          None, Gone,
          LastHour,    \* bound: hours the clock strikes
          MaxVersion,  \* bound: version of a row that is edited
          Editable     \* bound: teams, players and matches that are edited

ASSUME CallerAssumption == Admin \subseteq User
ASSUME BoundAssumption  == LastHour \in Nat /\ MaxVersion \in Nat \ {0}

VARIABLES now, season, round, match, team, player,
          ride,    \* rides rows: who rides which team in which match
          req      \* requests between their reads and their write

tables == <<season, round, match, team, player, ride>>
vars   == <<now, tables, req>>

There(table, id) == table[id] \notin {None, Gone}

\* Starts; none is in the past when the clock begins.
Hour == 1..LastHour + 1

\* Texts are left out: every edit has its version, and the favourite team of a
\* player is the one column with consequences.
TeamRow   == [version : 1..MaxVersion]
PlayerRow == [season : Season, user : User, team : Team, version : 1..MaxVersion]
MatchRow  == [season : Season, round : Round, home : Team, away : Team, startsAt : Hour,
              status : {"created", "in_progress"}, version : 1..MaxVersion]
RideRow   == [player : Player, team : Team, match : Match]

SeasonStatus == {"created", "open", "in_progress", "closed"}

ASSUME AbsentAssumption ==
  /\ None # Gone
  /\ \A x \in {None, Gone} :
       x \notin Season \cup SeasonStatus \cup TeamRow \cup PlayerRow \cup MatchRow

\* at: what now() is to the statements of a deletion.
Idle == [op |-> "none", pc |-> "idle", user |-> None, id |-> None, seen |-> None, new |-> None,
         at |-> 0]

Request ==
  [op : {"none", "insert player", "update player", "delete player", "update team",
         "insert match", "update match", "delete season", "delete round"},
   pc : {"idle", "round", "teams", "write", "rounds", "rows"},
   user : User \cup {None}, id : Player \cup Team \cup Match \cup Season \cup Round \cup {None},
   seen : TeamRow \cup PlayerRow \cup MatchRow \cup {None},
   new : TeamRow \cup PlayerRow \cup MatchRow \cup {None},
   at : 0..LastHour]

\* Rows are well formed, and whatever waits to be written has been validated.
TypeOK ==
  /\ now \in 0..LastHour
  /\ season \in [Season -> SeasonStatus \cup {None, Gone}]
  /\ round \in [Round -> Season \cup {None, Gone}]
  /\ match \in [Match -> MatchRow \cup {None, Gone}]
  /\ team \in [Team -> TeamRow \cup {None, Gone}]
  /\ player \in [Player -> PlayerRow \cup {None, Gone}]
  /\ ride \subseteq RideRow
  /\ req \in [Session -> Request]
  /\ \A m \in Match : There(match, m) => match[m].home # match[m].away

Init ==
  /\ now = 0
  /\ season = [s \in Season |-> None]
  /\ round = [r \in Round |-> None]
  /\ match = [m \in Match |-> None]
  /\ team = [t \in Team |-> None]
  /\ player = [p \in Player |-> None]
  /\ ride = {}
  /\ req = [s \in Session |-> Idle]

-----------------------------------------------------------------------------
(* Helpers *)

\* A sequence hands out ids: no row has it, no other request will get it.
Unused(table, id) == table[id] = None

Begin(s, r) == req[s].pc = "idle" /\ req' = [req EXCEPT ![s] = r]
End(s)      == req' = [req EXCEPT ![s] = Idle]
Goto(s, pc) == req' = [req EXCEPT ![s].pc = pc]

At(s, op, pc) == req[s].op = op /\ req[s].pc = pc

Unwritten == UNCHANGED <<now, tables>>

\* A statement that finds its row goes on; one that does not ends the request
\* with a 404 or a 422.
FindOrEnd(s, found, pc) ==
  /\ IF found THEN Goto(s, pc) ELSE End(s)
  /\ Unwritten

\* The deadline of DBTimeout, a client that has gone, a database error.
Cancel(s) == req[s].pc # "idle" /\ End(s) /\ Unwritten

\* UPDATE ... WHERE id = $1 AND version = $2, over what the handler read.
RowAsRead(table, s) == /\ There(table, req[s].id)
                       /\ table[req[s].id].version = req[s].seen.version

\* VARIANT: WHERE id = $1.
RowThere(table, s) == There(table, req[s].id)

\* The teams a player or a match refers to.
TeamsOf(row) == IF "team" \in DOMAIN row THEN {row.team} ELSE {row.home, row.away}

TeamsThere(row) == \A t \in TeamsOf(row) : There(team, t)

\* The handler's Teams.Get of each; what becomes of them before the write the
\* foreign keys see.
FindTeams(s) ==
  /\ req[s].pc = "teams"
  /\ FindOrEnd(s, TeamsThere(req[s].new), "write")

\* VARIANT: the row is built anew and its version with it.
EditedAnew(table, s) == [req[s].new EXCEPT !.version = 0]

\* SET every column the handler has, version = version + 1.
Edited(table, s) == [req[s].new EXCEPT !.version = table[req[s].id].version + 1]

StartedBy(m, at) == There(match, m) /\ match[m].startsAt <= at
Started(m)       == StartedBy(m, now)

\* A deletion holds the row it deletes from its gate to its commit, and those
\* its cascade has reached; an UPDATE of such a row waits, and so does an
\* INSERT that refers to it.
DeletesSeason(o, se) == req[o].op = "delete season" /\ req[o].id = se

DeletesRound(o, r) == \/ req[o].op = "delete round" /\ req[o].id = r
                      \/ req[o].pc = "rows" /\ DeletesSeason(o, round[r])

\* VARIANT: nothing is locked, nobody waits.
NobodyWaits(se) == TRUE

SeasonFree(se) == \A o \in Session : ~DeletesSeason(o, se)
RoundFree(r)   == \A o \in Session : ~DeletesRound(o, r)

-----------------------------------------------------------------------------
(* teams *)

CreateTeam(t) ==
  /\ Unused(team, t)
  /\ team' = [team EXCEPT ![t] = [version |-> 1]]
  /\ UNCHANGED <<now, season, round, match, player, ride, req>>

\* updateTeamHandler: TeamStore.Get, the check of X-Expected-Version, the merge
\* of the fields the client named.
BeginUpdateTeam(s, t) ==
  /\ There(team, t)
  /\ t \in Editable /\ team[t].version < MaxVersion
  /\ Begin(s, [Idle EXCEPT !.op = "update team", !.pc = "write", !.id = t,
                           !.seen = team[t], !.new = team[t]])
  /\ Unwritten

\* VARIANT: the statement forgets the version.
UpdateTeamBlindly(s) ==
  /\ At(s, "update team", "write")
  /\ team' = IF RowThere(team, s) THEN [team EXCEPT ![req[s].id] = Edited(team, s)] ELSE team
  /\ End(s)
  /\ UNCHANGED <<now, season, round, match, player, ride>>

UpdateTeam(s) ==
  /\ At(s, "update team", "write")
  /\ team' = IF RowAsRead(team, s) THEN [team EXCEPT ![req[s].id] = Edited(team, s)] ELSE team
  /\ End(s)
  /\ UNCHANGED <<now, season, round, match, player, ride>>

\* VARIANT: the favourite team of a player does not keep it.
PlaysOrRidden(t) ==
  \/ \E m \in Match : There(match, m) /\ t \in {match[m].home, match[m].away}
  \/ \E r \in ride : r.team = t

\* ON DELETE RESTRICT of matches, players and rides.
TeamInUse(t) ==
  \/ \E m \in Match : There(match, m) /\ t \in {match[m].home, match[m].away}
  \/ \E p \in Player : There(player, p) /\ player[p].team = t
  \/ \E r \in ride : r.team = t

DeleteTeam(t) ==
  /\ There(team, t)
  /\ ~TeamInUse(t)
  /\ team' = [team EXCEPT ![t] = Gone]
  /\ UNCHANGED <<now, season, round, match, player, ride, req>>

-----------------------------------------------------------------------------
(* players *)

\* createPlayerHandler after Seasons.Get; the caller becomes the owner.
BeginInsertPlayer(s, se, u, t) ==
  /\ There(season, se)
  /\ Begin(s, [Idle EXCEPT !.op = "insert player", !.pc = "teams", !.user = u,
                 !.new = [season |-> se, user |-> u, team |-> t, version |-> 1]])
  /\ Unwritten

\* VARIANT: a caller with a player of their own is taken for the owner.
MayAsPlayer(u, p) == \E q \in Player : There(player, q) /\ player[q].user = u

\* userCanManagePlayer.
MayManage(u, p) == player[p].user = u \/ u \in Admin

\* updatePlayerHandler up to the merged row.
BeginUpdatePlayer(s, p, u, t) ==
  /\ There(player, p)
  /\ MayManage(u, p)
  /\ p \in Editable /\ player[p].version < MaxVersion
  /\ Begin(s, [Idle EXCEPT !.op = "update player", !.pc = "teams", !.user = u, !.id = p,
                 !.seen = player[p], !.new = [player[p] EXCEPT !.team = t]])
  /\ Unwritten

\* players_season_id_user_id_key.
FirstInSeason(s) ==
  \A p \in Player : There(player, p) =>
     player[p].season # req[s].new.season \/ player[p].user # req[s].user

\* PlayerStore.Insert: the unique key and both references decide.  (When a
\* reference is violated the handler answers 422 and then, for want of a
\* return, 201 as well; the row is not there.)
InsertPlayer(s, p) ==
  /\ At(s, "insert player", "write")
  /\ Unused(player, p)
  /\ SeasonFree(req[s].new.season)
  /\ player' = IF /\ There(season, req[s].new.season)
                  /\ TeamsThere(req[s].new)
                  /\ FirstInSeason(s)
               THEN [player EXCEPT ![p] = req[s].new] ELSE player
  /\ End(s)
  /\ UNCHANGED <<now, season, round, match, team, ride>>

\* PlayerStore.Update writes the whole row.
UpdatePlayer(s) ==
  /\ At(s, "update player", "write")
  /\ player' = IF RowAsRead(player, s) /\ TeamsThere(req[s].new)
               THEN [player EXCEPT ![req[s].id] = Edited(player, s)] ELSE player
  /\ End(s)
  /\ UNCHANGED <<now, season, round, match, team, ride>>

\* deletePlayerHandler reads the owner first.
BeginDeletePlayer(s, p, u) ==
  /\ There(player, p)
  /\ MayManage(u, p)
  /\ Begin(s, [Idle EXCEPT !.op = "delete player", !.pc = "write", !.user = u, !.id = p,
                           !.seen = player[p]])
  /\ Unwritten

\* WHERE id = $1 AND season_id = $2, restricted by the rides of the player.
DeletePlayer(s) ==
  /\ At(s, "delete player", "write")
  /\ player' = IF There(player, req[s].id) /\ \A r \in ride : r.player # req[s].id
               THEN [player EXCEPT ![req[s].id] = Gone] ELSE player
  /\ End(s)
  /\ UNCHANGED <<now, season, round, match, team, ride>>

-----------------------------------------------------------------------------
(* seasons and rounds; what moves their status is RoundLifecycle's subject *)

CreateSeason(se) ==
  /\ Unused(season, se)
  /\ season' = [season EXCEPT ![se] = "created"]
  /\ UNCHANGED <<now, round, match, team, player, ride, req>>

SeasonRank == [created |-> 0, open |-> 1, in_progress |-> 2, closed |-> 3]

SeasonHasStarted(se)   == \E m \in Match : Started(m) /\ match[m].season = se
RoundHasStarted(r, at) == \E m \in Match : StartedBy(m, at) /\ match[m].round = r

\* Forward only, and seasons_freeze_gate keeps created and open for seasons
\* nothing has started in.
AdvanceSeason(se, status) ==
  /\ There(season, se)
  /\ SeasonFree(se)
  /\ SeasonRank[season[se]] < SeasonRank[status]
  /\ status = "open" => ~SeasonHasStarted(se)
  /\ season' = [season EXCEPT ![se] = status]
  /\ UNCHANGED <<now, round, match, team, player, ride, req>>

\* One step: what createRoundHandler reads of the season decides nothing the
\* foreign key does not decide again.
CreateRound(r, se) ==
  /\ Unused(round, r)
  /\ There(season, se)
  /\ SeasonFree(se)
  /\ round' = [round EXCEPT ![r] = se]
  /\ UNCHANGED <<now, season, match, team, player, ride, req>>

\* seasons_delete_gate.
SeasonKept(se) == season[se] \in {"in_progress", "closed"} \/ SeasonHasStarted(se)

Ridden(m) == \E r \in ride : r.match = m

\* SeasonStore.Delete: the row is locked, the gate looks.
BeginDeleteSeason(s, se) ==
  /\ There(season, se)
  /\ SeasonFree(se)
  /\ ~SeasonKept(se)
  /\ Begin(s, [Idle EXCEPT !.op = "delete season", !.pc = "rounds", !.id = se, !.at = now])
  /\ Unwritten

\* The cascade deletes the rounds, and rounds_delete_gate looks at each.
CascadeToRounds(s) ==
  LET mine == {r \in Round : round[r] = req[s].id} IN
  /\ At(s, "delete season", "rounds")
  /\ \A r \in mine : RoundFree(r)
  /\ IF \E r \in mine : RoundHasStarted(r, req[s].at) THEN End(s) ELSE Goto(s, "rows")
  /\ Unwritten

\* The cascade deletes the matches and the players of that moment, each of
\* which refuses while it is ridden, and the deletion commits.
DeleteSeason(s) ==
  LET se == req[s].id IN
  /\ At(s, "delete season", "rows")
  /\ IF \A r \in ride : match[r.match].season # se /\ player[r.player].season # se
     THEN /\ season' = [season EXCEPT ![se] = Gone]
          /\ round' = [r \in Round |-> IF round[r] = se THEN Gone ELSE round[r]]
          /\ match' = [m \in Match |->
                         IF There(match, m) /\ match[m].season = se THEN Gone ELSE match[m]]
          /\ player' = [p \in Player |->
                          IF There(player, p) /\ player[p].season = se THEN Gone ELSE player[p]]
          /\ UNCHANGED <<team, ride>>
     ELSE UNCHANGED tables
  /\ End(s)
  /\ UNCHANGED now

\* RoundStore.Delete, and rounds_delete_gate as far as it looks at the matches.
BeginDeleteRound(s, r) ==
  /\ There(round, r)
  /\ RoundFree(r)
  /\ ~RoundHasStarted(r, now)
  /\ Begin(s, [Idle EXCEPT !.op = "delete round", !.pc = "rows", !.id = r, !.at = now])
  /\ Unwritten

DeleteRound(s) ==
  LET r == req[s].id IN
  /\ At(s, "delete round", "rows")
  /\ IF \A m \in Match : Ridden(m) => match[m].round # r
     THEN /\ round' = [round EXCEPT ![r] = Gone]
          /\ match' = [m \in Match |->
                         IF There(match, m) /\ match[m].round = r THEN Gone ELSE match[m]]
          /\ UNCHANGED <<season, team, player, ride>>
     ELSE UNCHANGED tables
  /\ End(s)
  /\ UNCHANGED now

-----------------------------------------------------------------------------
(* matches *)

\* createMatchHandler after Seasons.Get and ValidateNewMatch.
BeginInsertMatch(s, se, r, h, a, at) ==
  /\ There(season, se)
  /\ h # a
  /\ at > now
  /\ Begin(s, [Idle EXCEPT !.op = "insert match", !.pc = "round",
                 !.new = [season |-> se, round |-> r, home |-> h, away |-> a, startsAt |-> at,
                          status |-> "created", version |-> 1]])
  /\ Unwritten

\* Rounds.Get: the round exists, in this season.
FindRound(s) ==
  /\ req[s].pc = "round"
  /\ FindOrEnd(s, round[req[s].new.round] = req[s].new.season, "teams")

\* The insert's season and round must still be there, the round in the season.
InsertMatch(s, m) ==
  /\ At(s, "insert match", "write")
  /\ Unused(match, m)
  /\ SeasonFree(req[s].new.season) /\ RoundFree(req[s].new.round)
  /\ match' = IF round[req[s].new.round] = req[s].new.season /\ TeamsThere(req[s].new)
              THEN [match EXCEPT ![m] = req[s].new] ELSE match
  /\ End(s)
  /\ UNCHANGED <<now, season, round, team, player, ride>>

\* updateMatchHandler: any of the columns, but a status that does not go back
\* (ValidateMatchUpdate, over the row it read).
BeginUpdateMatch(s, m, h, a, at, status) ==
  /\ There(match, m)
  /\ m \in Editable /\ match[m].version < MaxVersion
  /\ h # a
  /\ match[m].status = "in_progress" => status = "in_progress"
  /\ Begin(s, [Idle EXCEPT !.op = "update match", !.pc = "teams", !.id = m, !.seen = match[m],
                 !.new = [match[m] EXCEPT !.home = h, !.away = a, !.startsAt = at,
                                          !.status = status]])
  /\ Unwritten

\* matches_freeze_gate.
Frozen(s) == req[s].new.status = "created" /\ Started(req[s].id)

UpdateMatch(s) ==
  /\ At(s, "update match", "write")
  /\ match' = IF RowAsRead(match, s) /\ ~Frozen(s) /\ TeamsThere(req[s].new)
              THEN [match EXCEPT ![req[s].id] = Edited(match, s)] ELSE match
  /\ End(s)
  /\ UNCHANGED <<now, season, round, team, player, ride>>

\* MatchStore.Delete: no gate, only the rides on the match keep it.
DeleteMatch(m) ==
  /\ There(match, m)
  /\ ~Ridden(m)
  /\ match' = [match EXCEPT ![m] = Gone]
  /\ UNCHANGED <<now, season, round, team, player, ride, req>>

\* RideCreate in short: before the start, in a season that is live.
CreateRide(p, t, m) ==
  /\ There(player, p)
  /\ There(team, t)
  /\ There(match, m)
  /\ ~Started(m)
  /\ season[match[m].season] \in {"open", "in_progress"}
  /\ ride' = ride \cup {[player |-> p, team |-> t, match |-> m]}
  /\ UNCHANGED <<now, season, round, match, team, player, req>>

Tick ==
  /\ now < LastHour
  /\ now' = now + 1
  /\ UNCHANGED <<tables, req>>

-----------------------------------------------------------------------------

Step(s) ==
  \/ \E t \in Team : BeginUpdateTeam(s, t)
  \/ \E se \in Season, u \in User, t \in Team : BeginInsertPlayer(s, se, u, t)
  \/ \E p \in Player, u \in User, t \in Team : BeginUpdatePlayer(s, p, u, t)
  \/ \E p \in Player, u \in User : BeginDeletePlayer(s, p, u)
  \/ \E se \in Season, r \in Round, h, a \in Team, at \in Hour : BeginInsertMatch(s, se, r, h, a, at)
  \/ \E m \in Match, h, a \in Team, at \in Hour, status \in {"created", "in_progress"} :
       BeginUpdateMatch(s, m, h, a, at, status)
  \/ \E se \in Season : BeginDeleteSeason(s, se)
  \/ \E r \in Round : BeginDeleteRound(s, r)
  \/ FindTeams(s) \/ FindRound(s) \/ CascadeToRounds(s)
  \/ UpdateTeam(s) \/ UpdatePlayer(s) \/ DeletePlayer(s) \/ UpdateMatch(s)
  \/ DeleteSeason(s) \/ DeleteRound(s)
  \/ \E p \in Player : InsertPlayer(s, p)
  \/ \E m \in Match : InsertMatch(s, m)
  \/ Cancel(s)

Next ==
  \/ \E s \in Session : Step(s)
  \/ \E t \in Team : CreateTeam(t) \/ DeleteTeam(t)
  \/ \E se \in Season : CreateSeason(se)
  \/ \E se \in Season, status \in SeasonStatus : AdvanceSeason(se, status)
  \/ \E r \in Round, se \in Season : CreateRound(r, se)
  \/ \E m \in Match : DeleteMatch(m)
  \/ \E p \in Player, t \in Team, m \in Match : CreateRide(p, t, m)
  \/ Tick

Spec == Init /\ [][Next]_vars

-----------------------------------------------------------------------------
(* Properties *)

\* No row refers to one that is missing, however long ago its writer looked;
\* and the season a match carries is the season of its round.
ReferencesHold ==
  /\ \A r \in Round : There(round, r) => There(season, round[r])
  /\ \A m \in Match : There(match, m) =>
       /\ round[match[m].round] = match[m].season
       /\ There(team, match[m].home) /\ There(team, match[m].away)
  /\ \A p \in Player : There(player, p) =>
       There(season, player[p].season) /\ There(team, player[p].team)
  /\ \A r \in ride : There(player, r.player) /\ There(team, r.team) /\ There(match, r.match)

\* An edit replaces the very row its handler read and merged into: nobody's
\* change in between is overwritten by fields the client never named.
EditOf(table, id) ==
  There(table, id) /\ There(table', id) /\ table'[id] # table[id] =>
    \E s \in Session : /\ req[s].id = id /\ req'[s] = Idle
                       /\ req[s].seen = table[id]
                       /\ table'[id] = [req[s].new EXCEPT !.version = @ + 1]

NoLostEdit ==
  [][/\ \A t \in Team : EditOf(team, t)
     /\ \A p \in Player : EditOf(player, p)
     /\ \A m \in Match : EditOf(match, m)]_vars

\* "The owner may always manage their own registration; any other user only if
\* their role carries players:write:any": whoever changes or removes a player
\* was allowed to when it was read and is still the one who is.
OnlyItsOwner ==
  [][\A p \in Player : There(player, p) /\ player'[p] # player[p] =>
       \/ season'[player[p].season] = Gone
       \/ \E s \in Session : /\ req[s].id = p /\ req'[s] = Idle
                             /\ req[s].user = player[p].user \/ req[s].user \in Admin]_vars

\* "in_progress/closed seasons ... are durable": no season is deleted that is
\* live or over, although the gate looks at its status long before the deletion
\* commits and the first round may be opened meanwhile.
LiveSeasonIsKept ==
  [][\A se \in Season : season[se] \in {"in_progress", "closed"} => season'[se] # Gone]_vars
=============================================================================
