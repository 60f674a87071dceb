--------------------------- MODULE CatalogueProofs ---------------------------
(***************************************************************************)
(* References, edits and ownership are safe for any number of rows and of  *)
(* requests, and any number of edits.                                      *)
(*                                                                         *)
(* The foreign keys speak of the rows of one moment, so ReferencesHold is  *)
(* inductive with the types.  What a request knows (Knows) is what makes   *)
(* its later write sound: rows only ever move on (MovesOn), one version at *)
(* a time, so that a row with the version that was read is the row that    *)
(* was read; and the owner of a player never changes.  What the gate of a  *)
(* deletion saw of the season's status stays true because the row is held  *)
(* (Undisturbed).                                                          *)
(***************************************************************************)
EXTENDS Catalogue, TLAPS

\* What the version of a row tells of the row that was read.
Tells(table, id, seen) ==
    /\ table[id] # None
    /\ There(table, id) => /\ table[id].version >= seen.version
                           /\ table[id].version = seen.version => table[id] = seen

TeamEdit(r) ==
    /\ r.op = "update team" /\ r.pc = "write" /\ r.id \in Team
    /\ r.seen \in TeamRow /\ r.seen.version < MaxVersion /\ r.new = r.seen
    /\ Tells(team, r.id, r.seen)

PlayerInsert(r) ==
    /\ r.op = "insert player" /\ r.pc \in {"teams", "write"}
    /\ r.new \in PlayerRow

OwnerKnown(r) ==
    /\ r.id \in Player
    /\ r.seen \in PlayerRow
    /\ There(player, r.id) => player[r.id].user = r.seen.user
    /\ r.seen.user = r.user \/ r.user \in Admin

PlayerEdit(r) ==
    /\ r.op = "update player" /\ r.pc \in {"teams", "write"}
    /\ OwnerKnown(r)
    /\ r.seen.version < MaxVersion
    /\ r.new \in PlayerRow /\ r.new.version = r.seen.version
    /\ r.new.season = r.seen.season /\ r.new.user = r.seen.user
    /\ Tells(player, r.id, r.seen)

PlayerDelete(r) ==
    /\ r.op = "delete player" /\ r.pc = "write"
    /\ OwnerKnown(r)
    /\ player[r.id] # None

MatchInsert(r) ==
    /\ r.op = "insert match" /\ r.pc \in {"round", "teams", "write"}
    /\ r.new \in MatchRow /\ r.new.home # r.new.away

MatchEdit(r) ==
    /\ r.op = "update match" /\ r.pc \in {"teams", "write"} /\ r.id \in Match
    /\ r.seen \in MatchRow /\ r.seen.version < MaxVersion
    /\ r.new \in MatchRow /\ r.new.home # r.new.away /\ r.new.version = r.seen.version
    /\ r.new.season = r.seen.season /\ r.new.round = r.seen.round
    /\ Tells(match, r.id, r.seen)

SeasonDelete(r) ==
    /\ r.op = "delete season" /\ r.pc \in {"rounds", "rows"}
    /\ r.id \in Season /\ season[r.id] \in {"created", "open", Gone}

RoundDelete(r) ==
    /\ r.op = "delete round" /\ r.pc = "rows"
    /\ r.id \in Round /\ round[r.id] # None

Pending(r) == \/ r = Idle
              \/ TeamEdit(r)
              \/ PlayerInsert(r) \/ PlayerEdit(r) \/ PlayerDelete(r)
              \/ MatchInsert(r) \/ MatchEdit(r)
              \/ SeasonDelete(r) \/ RoundDelete(r)

Knows == \A s \in Session : Pending(req[s])

RowsOK ==
    /\ season \in [Season -> SeasonStatus \cup {None, Gone}]
    /\ round \in [Round -> Season \cup {None, Gone}]
    /\ match \in [Match -> MatchRow \cup {None, Gone}]
    /\ team \in [Team -> TeamRow \cup {None, Gone}]
    /\ player \in [Player -> PlayerRow \cup {None, Gone}]
    /\ ride \subseteq RideRow
    /\ \A m \in Match : There(match, m) => match[m].home # match[m].away

IInv == TypeOK /\ ReferencesHold /\ Knows

-----------------------------------------------------------------------------
(* Rows and requests *)

LEMMA RowsAreThere ==
    /\ \A x \in TeamRow \cup PlayerRow \cup MatchRow \cup Season \cup SeasonStatus :
         x \notin {None, Gone}
    /\ None # Gone
  BY AbsentAssumption DEF AbsentAssumption

LEMMA IdleIsRequest == Idle \in Request /\ Pending(Idle)
  BY BoundAssumption DEF Idle, Request, Pending, BoundAssumption

\* A row that is there is a row of its table.
LEMMA ThereIsRow ==
    ASSUME RowsOK
    PROVE  /\ \A x \in Season : There(season, x) => season[x] \in SeasonStatus
           /\ \A x \in Round : There(round, x) => round[x] \in Season
           /\ \A x \in Match : There(match, x) => match[x] \in MatchRow
           /\ \A x \in Team : There(team, x) => team[x] \in TeamRow
           /\ \A x \in Player : There(player, x) => player[x] \in PlayerRow
  BY DEF RowsOK, There

LEMMA TypesAndRows == TypeOK => RowsOK
  BY DEF TypeOK, RowsOK

LEMMA InitIInv == Init => IInv
  BY IdleIsRequest, BoundAssumption
  DEF Init, IInv, TypeOK, ReferencesHold, Knows, There, BoundAssumption

\* How the rows of a table may change in one step.
MovesOn(table, Ids) ==
    \A id \in Ids : table[id] # None =>
        /\ table'[id] # None
        /\ There(table', id) =>
             /\ There(table, id)
             /\ table'[id] = table[id] \/ table'[id].version = table[id].version + 1

OwnersStay == \A p \in Player : There(player, p) /\ There(player', p) =>
                player'[p].user = player[p].user

Monotone == /\ MovesOn(team, Team) /\ MovesOn(player, Player) /\ MovesOn(match, Match) /\ OwnersStay
            /\ \A x \in Round : round[x] # None => round'[x] # None

\* A season that somebody deletes does not change, except that it goes.
Undisturbed == \A s \in Session : SeasonDelete(req[s]) =>
    season'[req[s].id] \in {season[req[s].id], Gone}

LEMMA RowVersions ==
    /\ \A x \in TeamRow \cup PlayerRow \cup MatchRow : x.version \in Nat
    /\ MaxVersion \in Nat
  BY BoundAssumption DEF BoundAssumption, TeamRow, PlayerRow, MatchRow

\* What a request knows stays true while others write.
LEMMA PendingKeeps ==
    ASSUME RowsOK, RowsOK', Monotone, NEW r \in Request, Pending(r),
           SeasonDelete(r) => season'[r.id] \in {season[r.id], Gone}
    PROVE  Pending(r)'
  <1>1. CASE r = Idle
    BY <1>1 DEF Pending, Idle
  <1>2. CASE TeamEdit(r)
    <2>1. r.id \in Team /\ Tells(team, r.id, r.seen) /\ r.seen \in TeamRow
      BY <1>2 DEF TeamEdit
    <2>2. There(team, r.id) => team[r.id].version \in Nat
      BY <2>1, ThereIsRow, RowVersions
    <2>3. Tells(team, r.id, r.seen)'
      BY <2>1, <2>2, RowVersions DEF Monotone, MovesOn, Tells, There
    <2>4. TeamEdit(r)'
      BY <1>2, <2>3 DEF TeamEdit
    <2> QED BY <2>4 DEF Pending
  <1>3. CASE PlayerInsert(r) \/ MatchInsert(r)
    BY <1>3 DEF Pending, PlayerInsert, MatchInsert
  <1>4. ASSUME OwnerKnown(r), player[r.id] # None
        PROVE  OwnerKnown(r)' /\ player'[r.id] # None
    BY <1>4 DEF OwnerKnown, Monotone, OwnersStay, MovesOn
  <1>5. CASE PlayerEdit(r)
    <2>1. r.id \in Player /\ Tells(player, r.id, r.seen) /\ r.seen \in PlayerRow
      BY <1>5 DEF PlayerEdit, OwnerKnown
    <2>2. There(player, r.id) => player[r.id].version \in Nat
      BY <2>1, ThereIsRow, RowVersions
    <2>3. Tells(player, r.id, r.seen)'
      BY <2>1, <2>2, RowVersions DEF Monotone, MovesOn, Tells, There
    <2>4. OwnerKnown(r)'
      BY <1>4, <1>5, <2>1 DEF PlayerEdit, Tells
    <2>5. PlayerEdit(r)'
      BY <1>5, <2>3, <2>4 DEF PlayerEdit
    <2> QED BY <2>5 DEF Pending
  <1>6. CASE PlayerDelete(r)
    BY <1>4, <1>6 DEF PlayerDelete, Pending
  <1>7. CASE MatchEdit(r)
    <2>1. r.id \in Match /\ Tells(match, r.id, r.seen) /\ r.seen \in MatchRow
      BY <1>7 DEF MatchEdit
    <2>2. There(match, r.id) => match[r.id].version \in Nat
      BY <2>1, ThereIsRow, RowVersions
    <2>3. Tells(match, r.id, r.seen)'
      BY <2>1, <2>2, RowVersions DEF Monotone, MovesOn, Tells, There
    <2>4. MatchEdit(r)'
      BY <1>7, <2>3 DEF MatchEdit
    <2> QED BY <2>4 DEF Pending
  <1>8. CASE SeasonDelete(r)
    BY <1>8 DEF SeasonDelete, Pending
  <1>9. CASE RoundDelete(r)
    BY <1>9 DEF RoundDelete, Pending, Monotone
  <1> QED BY <1>1, <1>2, <1>3, <1>5, <1>6, <1>7, <1>8, <1>9 DEF Pending

\* Two kinds of step: a request moves on to n, the rows stay ...
LEMMA RequestMoves ==
    ASSUME IInv, NEW s \in Session, NEW n \in Request, Pending(n),
           req' = [req EXCEPT ![s] = n], Unwritten
    PROVE  IInv'
  <1>1. /\ now' = now /\ season' = season /\ round' = round /\ match' = match
        /\ team' = team /\ player' = player /\ ride' = ride
    BY DEF Unwritten, tables
  <1>2. TypeOK'
    BY <1>1 DEF IInv, TypeOK, There
  <1>3. ReferencesHold'
    BY <1>1 DEF IInv, ReferencesHold, There
  <1>4. req'[s] = n /\ \A o \in Session \ {s} : req'[o] = req[o]
    BY DEF IInv, TypeOK
  <1>5. \A r \in Request : Pending(r) => Pending(r)'
    <2> SUFFICES ASSUME NEW r \in Request, Pending(r) PROVE Pending(r)'
      OBVIOUS
    <2>1. TeamEdit(r) => TeamEdit(r)'
      BY <1>1 DEF TeamEdit, Tells, There
    <2>2. OwnerKnown(r) => OwnerKnown(r)'
      BY <1>1 DEF OwnerKnown, There
    <2>3. PlayerInsert(r) => PlayerInsert(r)'
      BY DEF PlayerInsert
    <2>4. PlayerEdit(r) => PlayerEdit(r)'
      BY <1>1, <2>2 DEF PlayerEdit, Tells, There
    <2>5. PlayerDelete(r) => PlayerDelete(r)'
      BY <1>1, <2>2 DEF PlayerDelete
    <2>6. MatchInsert(r) => MatchInsert(r)'
      BY DEF MatchInsert
    <2>7. MatchEdit(r) => MatchEdit(r)'
      BY <1>1 DEF MatchEdit, Tells, There
    <2>8. (SeasonDelete(r) => SeasonDelete(r)') /\ (RoundDelete(r) => RoundDelete(r)')
      BY <1>1 DEF SeasonDelete, RoundDelete
    <2> QED BY <2>1, <2>3, <2>4, <2>5, <2>6, <2>7, <2>8 DEF Pending
  <1>6. Knows'
    <2> SUFFICES ASSUME NEW o \in Session PROVE Pending(req[o])'
      BY DEF Knows
    <2>1. Pending(req[o]) /\ req[o] \in Request
      BY DEF IInv, Knows, TypeOK
    <2> QED BY <1>4, <1>5, <2>1
  <1> QED BY <1>2, <1>3, <1>6 DEF IInv

\* ... or rows change, and a request may end with it.
LEMMA RowsMove ==
    ASSUME IInv, RowsOK', ReferencesHold', Monotone, Undisturbed,
           now' \in 0..LastHour,
           req' = req \/ \E s \in Session : req' = [req EXCEPT ![s] = Idle]
    PROVE  IInv'
  <1>1. req' \in [Session -> Request]
    BY IdleIsRequest DEF IInv, TypeOK
  <1>2. TypeOK'
    BY <1>1 DEF TypeOK, RowsOK
  <1>3. Knows'
    <2> SUFFICES ASSUME NEW o \in Session PROVE Pending(req[o])'
      BY DEF Knows
    <2>1. Pending(req[o]) /\ req[o] \in Request
      BY DEF IInv, Knows, TypeOK
    <2>2. req'[o] = req[o] \/ req'[o] = Idle
      BY DEF IInv, TypeOK
    <2>3. RowsOK
      BY TypesAndRows DEF IInv
    <2>4. CASE req'[o] = Idle
      BY <2>4, IdleIsRequest DEF Pending, Idle
    <2>5. CASE req'[o] = req[o]
      BY <2>1, <2>3, <2>5, PendingKeeps DEF Undisturbed
    <2> QED BY <2>2, <2>4, <2>5
  <1> QED BY <1>2, <1>3 DEF IInv

-----------------------------------------------------------------------------
(* What a request reads, and how it goes on *)

LEMMA EndKeeps ==
    ASSUME IInv, NEW s \in Session, End(s), Unwritten
    PROVE  IInv'
  BY IdleIsRequest, RequestMoves DEF End

\* The next statement's turn: a request keeps what it knows.
LEMMA GotoKeeps ==
    ASSUME IInv, NEW s \in Session, NEW pc \in {"teams", "write"}, Goto(s, pc), Unwritten,
           req[s].pc \in {"round", "teams"}
    PROVE  IInv'
  <1> DEFINE n == [req[s] EXCEPT !.pc = pc]
  <1>1. req[s] \in Request /\ Pending(req[s])
    BY DEF IInv, TypeOK, Knows
  <1>2. /\ n \in Request /\ n.pc = pc /\ n.op = req[s].op /\ n.user = req[s].user
        /\ n.at = req[s].at /\ n.id = req[s].id /\ n.seen = req[s].seen /\ n.new = req[s].new
    BY <1>1 DEF Request
  <1> HIDE DEF n
  <1>3. PlayerInsert(req[s]) \/ PlayerEdit(req[s]) \/ MatchInsert(req[s]) \/ MatchEdit(req[s])
    <2>1. Idle.pc = "idle"
      BY DEF Idle
    <2>2. req[s] # Idle /\ ~TeamEdit(req[s]) /\ ~PlayerDelete(req[s])
          /\ ~SeasonDelete(req[s]) /\ ~RoundDelete(req[s])
      BY <2>1 DEF TeamEdit, PlayerDelete, SeasonDelete, RoundDelete
    <2> QED BY <1>1, <2>2 DEF Pending
  <1>4. ASSUME PlayerInsert(req[s]) PROVE Pending(n)
    BY <1>2, <1>4 DEF Pending, PlayerInsert
  <1>5. ASSUME PlayerEdit(req[s]) PROVE Pending(n)
    BY <1>2, <1>5 DEF Pending, PlayerEdit, OwnerKnown
  <1>6. ASSUME MatchInsert(req[s]) PROVE Pending(n)
    BY <1>2, <1>6 DEF Pending, MatchInsert
  <1>7. ASSUME MatchEdit(req[s]) PROVE Pending(n)
    BY <1>2, <1>7 DEF Pending, MatchEdit
  <1>8. Pending(n)
    BY <1>3, <1>4, <1>5, <1>6, <1>7
  <1>9. req' = [req EXCEPT ![s] = n]
    BY DEF Goto, n
  <1> QED BY <1>2, <1>8, <1>9, RequestMoves

LEMMA FindKeeps ==
    ASSUME IInv, NEW s \in Session, FindTeams(s) \/ FindRound(s)
    PROVE  IInv'
  <1>1. CASE FindTeams(s)
    BY <1>1, EndKeeps, GotoKeeps DEF FindTeams, FindOrEnd
  <1>2. CASE FindRound(s)
    BY <1>2, EndKeeps, GotoKeeps DEF FindRound, FindOrEnd
  <1> QED BY <1>1, <1>2

\* A row read now tells everything about itself.
LEMMA ReadTells ==
    ASSUME RowsOK
    PROVE  /\ \A id \in Team : There(team, id) => Tells(team, id, team[id])
           /\ \A id \in Player : There(player, id) => Tells(player, id, player[id])
           /\ \A id \in Match : There(match, id) => Tells(match, id, match[id])
  <1>1. /\ \A id \in Team : There(team, id) => team[id].version \in Nat
        /\ \A id \in Player : There(player, id) => player[id].version \in Nat
        /\ \A id \in Match : There(match, id) => match[id].version \in Nat
    BY ThereIsRow, RowVersions
  <1> QED BY <1>1 DEF There, Tells

LEMMA BeginUpdateTeamKeeps ==
    ASSUME IInv, NEW s \in Session, NEW t \in Team, BeginUpdateTeam(s, t)
    PROVE  IInv'
  <1> DEFINE n == [Idle EXCEPT !.op = "update team", !.pc = "write", !.id = t,
                               !.seen = team[t], !.new = team[t]]
  <1>1. There(team, t) /\ team[t] \in TeamRow /\ team[t].version < MaxVersion
        /\ Tells(team, t, team[t])
    BY ThereIsRow, TypesAndRows, ReadTells DEF IInv, BeginUpdateTeam
  <1>2. n \in Request /\ n.op = "update team" /\ n.pc = "write" /\ n.id = t
        /\ n.seen = team[t] /\ n.new = team[t]
    BY <1>1, IdleIsRequest DEF Idle, Request
  <1>3. req' = [req EXCEPT ![s] = n] /\ Unwritten
    BY DEF BeginUpdateTeam, Begin
  <1> HIDE DEF n
  <1>4. Pending(n)
    BY <1>1, <1>2 DEF Pending, TeamEdit
  <1> QED BY <1>2, <1>3, <1>4, RequestMoves

LEMMA BeginInsertPlayerKeeps ==
    ASSUME IInv, NEW s \in Session, NEW se \in Season, NEW u \in User, NEW t \in Team,
           BeginInsertPlayer(s, se, u, t)
    PROVE  IInv'
  <1> DEFINE row == [season |-> se, user |-> u, team |-> t, version |-> 1]
             n == [Idle EXCEPT !.op = "insert player", !.pc = "teams", !.user = u, !.new = row]
  <1>1. row \in PlayerRow
    BY BoundAssumption DEF PlayerRow, BoundAssumption
  <1>2. req' = [req EXCEPT ![s] = n] /\ Unwritten
    BY DEF BeginInsertPlayer, Begin
  <1> HIDE DEF row
  <1>3. n \in Request /\ n.op = "insert player" /\ n.pc = "teams" /\ n.new = row
    BY <1>1, IdleIsRequest DEF Idle, Request
  <1> HIDE DEF n
  <1>4. Pending(n)
    BY <1>1, <1>3 DEF Pending, PlayerInsert
  <1> QED BY <1>2, <1>3, <1>4, RequestMoves

LEMMA BeginUpdatePlayerKeeps ==
    ASSUME IInv, NEW s \in Session, NEW p \in Player, NEW u \in User, NEW t \in Team,
           BeginUpdatePlayer(s, p, u, t)
    PROVE  IInv'
  <1> DEFINE row == [player[p] EXCEPT !.team = t]
             n == [Idle EXCEPT !.op = "update player", !.pc = "teams", !.user = u, !.id = p,
                               !.seen = player[p], !.new = row]
  <1>1. There(player, p) /\ player[p] \in PlayerRow /\ player[p].version < MaxVersion
        /\ Tells(player, p, player[p]) /\ MayManage(u, p)
    BY ThereIsRow, TypesAndRows, ReadTells DEF IInv, BeginUpdatePlayer
  <1>2. row \in PlayerRow /\ row.version = player[p].version /\ row.season = player[p].season
        /\ row.user = player[p].user
    BY <1>1 DEF PlayerRow
  <1>3. req' = [req EXCEPT ![s] = n] /\ Unwritten
    BY DEF BeginUpdatePlayer, Begin
  <1> HIDE DEF row
  <1>4. n \in Request /\ n.op = "update player" /\ n.pc = "teams" /\ n.user = u /\ n.id = p
        /\ n.seen = player[p] /\ n.new = row
    BY <1>1, <1>2, IdleIsRequest DEF Idle, Request
  <1> HIDE DEF n
  <1>5. OwnerKnown(n)
    BY <1>1, <1>4 DEF OwnerKnown, MayManage
  <1>6. Pending(n)
    BY <1>1, <1>2, <1>4, <1>5 DEF Pending, PlayerEdit
  <1> QED BY <1>3, <1>4, <1>6, RequestMoves

LEMMA BeginDeletePlayerKeeps ==
    ASSUME IInv, NEW s \in Session, NEW p \in Player, NEW u \in User, BeginDeletePlayer(s, p, u)
    PROVE  IInv'
  <1> DEFINE n == [Idle EXCEPT !.op = "delete player", !.pc = "write", !.user = u, !.id = p,
                               !.seen = player[p]]
  <1>1. There(player, p) /\ player[p] \in PlayerRow /\ player[p] # None /\ MayManage(u, p)
    BY ThereIsRow, TypesAndRows DEF IInv, BeginDeletePlayer, There
  <1>2. req' = [req EXCEPT ![s] = n] /\ Unwritten
    BY DEF BeginDeletePlayer, Begin
  <1>3. n \in Request /\ n.op = "delete player" /\ n.pc = "write" /\ n.user = u /\ n.id = p
        /\ n.seen = player[p]
    BY <1>1, IdleIsRequest DEF Idle, Request
  <1> HIDE DEF n
  <1>4. Pending(n)
    BY <1>1, <1>3 DEF Pending, PlayerDelete, OwnerKnown, MayManage
  <1> QED BY <1>2, <1>3, <1>4, RequestMoves

LEMMA BeginInsertMatchKeeps ==
    ASSUME IInv, NEW s \in Session, NEW se \in Season, NEW r \in Round, NEW h \in Team,
           NEW a \in Team, NEW at \in Hour, BeginInsertMatch(s, se, r, h, a, at)
    PROVE  IInv'
  <1> DEFINE row == [season |-> se, round |-> r, home |-> h, away |-> a, startsAt |-> at,
                     status |-> "created", version |-> 1]
             n == [Idle EXCEPT !.op = "insert match", !.pc = "round", !.new = row]
  <1>1. row \in MatchRow /\ row.home # row.away
    BY BoundAssumption DEF MatchRow, BoundAssumption, BeginInsertMatch
  <1>2. req' = [req EXCEPT ![s] = n] /\ Unwritten
    BY DEF BeginInsertMatch, Begin
  <1> HIDE DEF row
  <1>3. n \in Request /\ n.op = "insert match" /\ n.pc = "round" /\ n.new = row
    BY <1>1, IdleIsRequest DEF Idle, Request
  <1> HIDE DEF n
  <1>4. Pending(n)
    BY <1>1, <1>3 DEF Pending, MatchInsert
  <1> QED BY <1>2, <1>3, <1>4, RequestMoves

LEMMA BeginUpdateMatchKeeps ==
    ASSUME IInv, NEW s \in Session, NEW m \in Match, NEW h \in Team, NEW a \in Team,
           NEW at \in Hour, NEW status \in {"created", "in_progress"},
           BeginUpdateMatch(s, m, h, a, at, status)
    PROVE  IInv'
  <1> DEFINE row == [match[m] EXCEPT !.home = h, !.away = a, !.startsAt = at, !.status = status]
             n == [Idle EXCEPT !.op = "update match", !.pc = "teams", !.id = m,
                               !.seen = match[m], !.new = row]
  <1>1. There(match, m) /\ match[m] \in MatchRow /\ match[m].version < MaxVersion
        /\ Tells(match, m, match[m]) /\ h # a
    BY ThereIsRow, TypesAndRows, ReadTells DEF IInv, BeginUpdateMatch
  <1>2. row \in MatchRow /\ row.version = match[m].version /\ row.season = match[m].season
        /\ row.round = match[m].round /\ row.home # row.away
    BY <1>1 DEF MatchRow
  <1>3. req' = [req EXCEPT ![s] = n] /\ Unwritten
    BY DEF BeginUpdateMatch, Begin
  <1> HIDE DEF row
  <1>4. n \in Request /\ n.op = "update match" /\ n.pc = "teams" /\ n.id = m
        /\ n.seen = match[m] /\ n.new = row
    BY <1>1, <1>2, IdleIsRequest DEF Idle, Request
  <1> HIDE DEF n
  <1>5. Pending(n)
    BY <1>1, <1>2, <1>4 DEF Pending, MatchEdit
  <1> QED BY <1>3, <1>4, <1>5, RequestMoves

LEMMA BeginDeleteSeasonKeeps ==
    ASSUME IInv, NEW s \in Session, NEW se \in Season, BeginDeleteSeason(s, se)
    PROVE  IInv'
  <1> DEFINE n == [Idle EXCEPT !.op = "delete season", !.pc = "rounds", !.id = se, !.at = now]
  <1>1. now \in 0..LastHour /\ season[se] \in {"created", "open"}
    BY DEF BeginDeleteSeason, SeasonKept, There, IInv, TypeOK, SeasonStatus
  <1>2. req' = [req EXCEPT ![s] = n] /\ Unwritten
    BY DEF BeginDeleteSeason, Begin
  <1>3. n \in Request /\ n.op = "delete season" /\ n.pc = "rounds" /\ n.id = se
    BY <1>1, IdleIsRequest DEF Idle, Request
  <1> HIDE DEF n
  <1>4. Pending(n)
    BY <1>1, <1>3 DEF Pending, SeasonDelete
  <1> QED BY <1>2, <1>3, <1>4, RequestMoves

LEMMA BeginDeleteRoundKeeps ==
    ASSUME IInv, NEW s \in Session, NEW r \in Round, BeginDeleteRound(s, r)
    PROVE  IInv'
  <1> DEFINE n == [Idle EXCEPT !.op = "delete round", !.pc = "rows", !.id = r, !.at = now]
  <1>1. now \in 0..LastHour /\ round[r] # None
    BY DEF BeginDeleteRound, There, IInv, TypeOK
  <1>2. req' = [req EXCEPT ![s] = n] /\ Unwritten
    BY DEF BeginDeleteRound, Begin
  <1>3. n \in Request /\ n.op = "delete round" /\ n.pc = "rows" /\ n.id = r
    BY <1>1, IdleIsRequest DEF Idle, Request
  <1> HIDE DEF n
  <1>4. Pending(n)
    BY <1>1, <1>3 DEF Pending, RoundDelete
  <1> QED BY <1>2, <1>3, <1>4, RequestMoves

LEMMA CascadeToRoundsKeeps ==
    ASSUME IInv, NEW s \in Session, CascadeToRounds(s)
    PROVE  IInv'
  <1>1. CASE End(s)
    BY <1>1, EndKeeps DEF CascadeToRounds
  <1>2. CASE Goto(s, "rows")
    <2> DEFINE n == [req[s] EXCEPT !.pc = "rows"]
    <2>1. req[s] \in Request /\ Pending(req[s])
      BY DEF IInv, TypeOK, Knows
    <2>2. n \in Request /\ n.pc = "rows" /\ n.op = req[s].op /\ n.id = req[s].id
      BY <2>1 DEF Request
    <2>3. Idle.op = "none" /\ req[s].op = "delete season"
      BY DEF Idle, CascadeToRounds, At
    <2>4. SeasonDelete(req[s])
      BY <2>1, <2>3 DEF Pending, TeamEdit, PlayerInsert, PlayerEdit, PlayerDelete, MatchInsert,
                        MatchEdit, RoundDelete
    <2>5. req' = [req EXCEPT ![s] = n] /\ Unwritten
      BY <1>2 DEF Goto, CascadeToRounds
    <2> HIDE DEF n
    <2>6. Pending(n)
      BY <2>2, <2>4 DEF Pending, SeasonDelete
    <2> QED BY <2>2, <2>5, <2>6, RequestMoves
  <1> QED BY <1>1, <1>2 DEF CascadeToRounds

-----------------------------------------------------------------------------
(* Writes *)

\* The references of a row, as ReferencesHold asks for them.
LEMMA TeamsOfRow ==
    /\ \A row \in PlayerRow : TeamsOf(row) = {row.team}
    /\ \A row \in MatchRow : TeamsOf(row) = {row.home, row.away}
  <1>1. ASSUME NEW row \in PlayerRow PROVE "team" \in DOMAIN row
    BY DEF PlayerRow
  <1>2. ASSUME NEW row \in MatchRow PROVE "team" \notin DOMAIN row
    BY DEF MatchRow
  <1> QED BY <1>1, <1>2 DEF TeamsOf

\* What a request that writes knows of itself.
LEMMA Writers ==
    ASSUME IInv, NEW s \in Session
    PROVE  /\ At(s, "update team", "write") => TeamEdit(req[s])
           /\ At(s, "insert player", "write") => PlayerInsert(req[s])
           /\ At(s, "update player", "write") => PlayerEdit(req[s])
           /\ At(s, "delete player", "write") => PlayerDelete(req[s])
           /\ At(s, "insert match", "write") => MatchInsert(req[s])
           /\ At(s, "update match", "write") => MatchEdit(req[s])
           /\ At(s, "delete season", "rows") => SeasonDelete(req[s])
           /\ At(s, "delete round", "rows") => RoundDelete(req[s])
  <1>1. Pending(req[s])
    BY DEF IInv, Knows
  <1>2. Idle.op = "none"
    BY DEF Idle
  <1> QED BY <1>1, <1>2
          DEF At, Pending, TeamEdit, PlayerInsert, PlayerEdit, PlayerDelete, MatchInsert, MatchEdit,
              SeasonDelete, RoundDelete

LEMMA EndIs ==
    ASSUME NEW s \in Session, End(s)
    PROVE  \E x \in Session : req' = [req EXCEPT ![x] = Idle]
  BY DEF End

LEMMA TeamsKeep ==
    ASSUME IInv,
           \/ \E t \in Team : CreateTeam(t) \/ DeleteTeam(t)
           \/ \E s \in Session : UpdateTeam(s)
    PROVE  IInv'
  <1>0. RowsOK /\ ReferencesHold /\ now \in 0..LastHour
    BY TypesAndRows DEF IInv, TypeOK
  <1>1. ASSUME NEW t \in Team, CreateTeam(t)
        PROVE  IInv'
    <2> DEFINE row == [version |-> 1]
    <2>1. row \in TeamRow /\ row \notin {None, Gone}
      <3>1. row \in TeamRow
        BY BoundAssumption DEF TeamRow, BoundAssumption
      <3> QED BY <3>1, RowsAreThere
    <2>2. /\ team[t] = None /\ team' = [team EXCEPT ![t] = row]
          /\ UNCHANGED <<now, season, round, match, player, ride, req>>
      BY <1>1 DEF CreateTeam, Unused
    <2> HIDE DEF row
    <2>3. RowsOK'
      BY <1>0, <2>1, <2>2 DEF RowsOK, There
    <2>4. \A x \in Team : There(team, x) => There(team', x)
      BY <1>0, <2>1, <2>2 DEF RowsOK, There
    <2>5. ReferencesHold'
      BY <1>0, <2>2, <2>4, ThereIsRow DEF ReferencesHold, MatchRow, PlayerRow, RideRow, RowsOK, There
    <2>6. Monotone /\ Undisturbed
      BY <1>0, <2>1, <2>2 DEF Monotone, MovesOn, OwnersStay, RowsOK, There, Undisturbed
    <2> QED BY <1>0, <2>2, <2>3, <2>5, <2>6, RowsMove
  <1>2. ASSUME NEW t \in Team, DeleteTeam(t)
        PROVE  IInv'
    <2>1. /\ There(team, t) /\ ~TeamInUse(t) /\ team' = [team EXCEPT ![t] = Gone]
          /\ UNCHANGED <<now, season, round, match, player, ride, req>>
      BY <1>2 DEF DeleteTeam
    <2>2. RowsOK'
      BY <1>0, <2>1 DEF RowsOK, There
    <2>3. \A x \in Team : x # t => team'[x] = team[x]
      BY <1>0, <2>1 DEF RowsOK
    <2>4. ReferencesHold'
      <3>1. \A m \in Match : There(match, m) => match[m].home # t /\ match[m].away # t
        BY <2>1 DEF TeamInUse
      <3>2. \A p \in Player : There(player, p) => player[p].team # t
        BY <2>1 DEF TeamInUse
      <3>3. \A r \in ride : r.team # t
        BY <2>1 DEF TeamInUse
      <3>4. \A m \in Match : There(match, m) => match[m].home \in Team /\ match[m].away \in Team
        BY <1>0, ThereIsRow DEF MatchRow
      <3>5. \A p \in Player : There(player, p) => player[p].team \in Team
        BY <1>0, ThereIsRow DEF PlayerRow
      <3>6. \A r \in ride : r.team \in Team
        BY <1>0 DEF RowsOK, RideRow
      <3> QED BY <1>0, <2>1, <2>3, <3>1, <3>2, <3>3, <3>4, <3>5, <3>6 DEF ReferencesHold, There
    <2>5. Monotone /\ Undisturbed
      BY <1>0, <2>1, RowsAreThere DEF Monotone, MovesOn, OwnersStay, RowsOK, There, Undisturbed
    <2> QED BY <1>0, <2>1, <2>2, <2>4, <2>5, RowsMove
  <1>3. ASSUME NEW s \in Session, UpdateTeam(s)
        PROVE  IInv'
    <2>1. PICK t \in Team : t = req[s].id /\ TeamEdit(req[s])
      BY <1>3, Writers DEF UpdateTeam, TeamEdit
    <2>2. /\ UNCHANGED <<now, season, round, match, player, ride>>
          /\ \E x \in Session : req' = [req EXCEPT ![x] = Idle]
      BY <1>3, EndIs DEF UpdateTeam
    <2>3. CASE ~RowAsRead(team, s)
      <3>1. team' = team
        BY <1>3, <2>3 DEF UpdateTeam
      <3> QED BY <1>0, <2>2, <3>1, RowsMove
              DEF RowsOK, ReferencesHold, Monotone, MovesOn, OwnersStay, There, Undisturbed
    <2>4. CASE RowAsRead(team, s)
      <3> DEFINE row == Edited(team, s)
      <3>1. There(team, t) /\ team[t].version = req[s].seen.version /\ team' = [team EXCEPT ![t] = row]
        BY <1>3, <2>1, <2>4 DEF UpdateTeam, RowAsRead
      <3>2. row \in TeamRow /\ row.version = team[t].version + 1 /\ row \notin {None, Gone}
        <4>1. req[s].new \in TeamRow /\ team[t].version \in 1..MaxVersion
              /\ team[t].version < MaxVersion
          BY <1>0, <2>1, <3>1, ThereIsRow DEF TeamEdit, TeamRow
        <4>2. row \in TeamRow /\ row.version = team[t].version + 1
          BY <2>1, <4>1, RowVersions DEF Edited, TeamRow
        <4> QED BY <4>2, RowsAreThere
      <3> HIDE DEF row
      <3>3. RowsOK' /\ \A x \in Team : There(team, x) => There(team', x)
        BY <1>0, <2>2, <3>1, <3>2 DEF RowsOK, There
      <3>4. ReferencesHold'
        BY <1>0, <2>2, <3>3, ThereIsRow
           DEF ReferencesHold, MatchRow, PlayerRow, RideRow, RowsOK, There
      <3>5. Monotone /\ Undisturbed
        BY <1>0, <2>2, <3>1, <3>2 DEF Monotone, MovesOn, OwnersStay, RowsOK, There, Undisturbed
      <3> QED BY <1>0, <2>2, <3>3, <3>4, <3>5, RowsMove
    <2> QED BY <2>3, <2>4
  <1> QED BY <1>1, <1>2, <1>3

\* A step that touches only players who are nobody's reference any more, or
\* whose references hold.
LEMMA PlayersMove ==
    ASSUME IInv, NEW p \in Player, NEW row \in PlayerRow \cup {Gone},
           player' = [player EXCEPT ![p] = row],
           UNCHANGED <<now, season, round, match, team, ride>>,
           req' = req \/ \E s \in Session : req' = [req EXCEPT ![s] = Idle],
           row # Gone => There(season, row.season) /\ There(team, row.team),
           row = Gone => \A r \in ride : r.player # p,
           \/ player[p] = None
           \/ row = Gone
           \/ /\ There(player, p)
              /\ row.version = player[p].version + 1 /\ row.user = player[p].user
    PROVE  IInv'
  <1>1. RowsOK /\ ReferencesHold /\ now \in 0..LastHour
    BY TypesAndRows DEF IInv, TypeOK
  <1>2. player'[p] = row /\ \A x \in Player \ {p} : player'[x] = player[x]
    BY <1>1 DEF RowsOK
  <1>3. row \in PlayerRow => row \notin {None, Gone}
    BY RowsAreThere
  <1>4. RowsOK'
    BY <1>1 DEF RowsOK, There
  <1>5. ReferencesHold'
    <2>1. \A x \in Player : There(player', x) =>
            There(season, player'[x].season) /\ There(team, player'[x].team)
      BY <1>1, <1>2 DEF ReferencesHold, There
    <2>2. \A r \in ride : r.player \in Player /\ There(player', r.player)
      BY <1>1, <1>2, <1>3 DEF ReferencesHold, RowsOK, RideRow, There
    <2> QED BY <1>1, <2>1, <2>2 DEF ReferencesHold, There
  <1>6. MovesOn(player, Player) /\ OwnersStay
    BY <1>2, <1>3, RowsAreThere DEF MovesOn, OwnersStay, There
  <1>7. Monotone /\ Undisturbed
    BY <1>6 DEF Monotone, MovesOn, There, Undisturbed
  <1> QED BY <1>1, <1>4, <1>5, <1>7, RowsMove

\* Nothing but the request changes.
LEMMA NothingWritten ==
    ASSUME IInv, Unwritten, NEW s \in Session, End(s)
    PROVE  IInv'
  BY EndKeeps

LEMMA PlayersKeep ==
    ASSUME IInv, NEW s \in Session,
           \/ \E p \in Player : InsertPlayer(s, p)
           \/ UpdatePlayer(s) \/ DeletePlayer(s)
    PROVE  IInv'
  <1>0. RowsOK
    BY TypesAndRows DEF IInv
  <1>1. ASSUME NEW p \in Player, InsertPlayer(s, p)
        PROVE  IInv'
    <2>1. PlayerInsert(req[s]) /\ player[p] = None /\ End(s)
          /\ UNCHANGED <<now, season, round, match, team, ride>>
      BY <1>1, Writers DEF InsertPlayer, Unused
    <2>2. CASE player' = player
      BY <2>1, <2>2, NothingWritten DEF Unwritten, tables
    <2>3. CASE player' # player
      <3>1. /\ There(season, req[s].new.season) /\ TeamsThere(req[s].new)
            /\ player' = [player EXCEPT ![p] = req[s].new]
        BY <1>1, <2>3 DEF InsertPlayer
      <3>2. req[s].new \in PlayerRow /\ There(team, req[s].new.team)
        BY <2>1, <3>1, TeamsOfRow DEF PlayerInsert, TeamsThere
      <3> DEFINE row == req[s].new
      <3>3. row \in PlayerRow \cup {Gone} /\ row # Gone
        BY <3>2, RowsAreThere
      <3> HIDE DEF row
      <3>4. There(season, row.season) /\ There(team, row.team)
            /\ player' = [player EXCEPT ![p] = row]
        BY <3>1, <3>2 DEF row
      <3> QED BY <2>1, <3>3, <3>4, EndIs, PlayersMove
    <2> QED BY <2>2, <2>3
  <1>2. CASE UpdatePlayer(s)
    <2>1. PlayerEdit(req[s]) /\ End(s) /\ UNCHANGED <<now, season, round, match, team, ride>>
      BY <1>2, Writers DEF UpdatePlayer
    <2>2. PICK p \in Player : p = req[s].id
      BY <2>1 DEF PlayerEdit, OwnerKnown
    <2>3. CASE player' = player
      BY <2>1, <2>3, NothingWritten DEF Unwritten, tables
    <2>4. CASE player' # player
      <3> DEFINE row == Edited(player, s)
      <3>1. /\ There(player, p) /\ player[p].version = req[s].seen.version
            /\ TeamsThere(req[s].new) /\ player' = [player EXCEPT ![p] = row]
        BY <1>2, <2>2, <2>4 DEF UpdatePlayer, RowAsRead
      <3>2. /\ req[s].new \in PlayerRow /\ player[p] \in PlayerRow
            /\ player[p] = req[s].seen /\ player[p].version \in 1..MaxVersion
            /\ player[p].version < MaxVersion
        BY <1>0, <2>1, <2>2, <3>1, ThereIsRow DEF PlayerEdit, Tells, PlayerRow
      <3>3. row \in PlayerRow /\ row.version = player[p].version + 1
            /\ row.user = req[s].new.user /\ row.season = req[s].new.season
            /\ row.team = req[s].new.team
        BY <2>2, <3>2, RowVersions DEF Edited, PlayerRow
      <3> HIDE DEF row
      <3>4. row.user = player[p].user /\ row.season = player[p].season
        BY <2>1, <3>2, <3>3 DEF PlayerEdit
      <3>5. There(season, row.season) /\ There(team, row.team)
        BY <3>1, <3>2, <3>3, <3>4, TeamsOfRow DEF IInv, ReferencesHold, TeamsThere
      <3>6. row # Gone
        BY <3>3, RowsAreThere
      <3> QED BY <2>1, <3>1, <3>3, <3>4, <3>5, <3>6, EndIs, PlayersMove
    <2> QED BY <2>3, <2>4
  <1>3. CASE DeletePlayer(s)
    <2>1. PlayerDelete(req[s]) /\ End(s) /\ UNCHANGED <<now, season, round, match, team, ride>>
      BY <1>3, Writers DEF DeletePlayer
    <2>2. PICK p \in Player : p = req[s].id
      BY <2>1 DEF PlayerDelete, OwnerKnown
    <2>3. CASE player' = player
      BY <2>1, <2>3, NothingWritten DEF Unwritten, tables
    <2>4. CASE player' # player
      <3>1. player' = [player EXCEPT ![p] = Gone] /\ \A r \in ride : r.player # p
        BY <1>3, <2>2, <2>4 DEF DeletePlayer
      <3> QED BY <2>1, <3>1, EndIs, PlayersMove
    <2> QED BY <2>3, <2>4
  <1> QED BY <1>1, <1>2, <1>3

LEMMA MatchesMove ==
    ASSUME IInv, NEW m \in Match, NEW row \in MatchRow \cup {Gone},
           match' = [match EXCEPT ![m] = row],
           UNCHANGED <<now, season, round, team, player, ride>>,
           req' = req \/ \E s \in Session : req' = [req EXCEPT ![s] = Idle],
           row # Gone => /\ row.home # row.away
                         /\ round[row.round] = row.season
                         /\ There(team, row.home) /\ There(team, row.away),
           row = Gone => \A r \in ride : r.match # m,
           \/ match[m] = None
           \/ row = Gone
           \/ There(match, m) /\ row.version = match[m].version + 1
    PROVE  IInv'
  <1>1. RowsOK /\ ReferencesHold /\ now \in 0..LastHour
    BY TypesAndRows DEF IInv, TypeOK
  <1>2. match'[m] = row /\ \A x \in Match \ {m} : match'[x] = match[x]
    BY <1>1 DEF RowsOK
  <1>3. row \in MatchRow => row \notin {None, Gone}
    BY RowsAreThere
  <1>4. RowsOK'
    BY <1>1, <1>2 DEF RowsOK, There
  <1>5. ReferencesHold'
    <2>1. \A x \in Match : There(match', x) =>
            /\ round[match'[x].round] = match'[x].season
            /\ There(team, match'[x].home) /\ There(team, match'[x].away)
      BY <1>1, <1>2 DEF ReferencesHold, There
    <2>2. \A r \in ride : r.match \in Match /\ There(match', r.match)
      BY <1>1, <1>2, <1>3 DEF ReferencesHold, RowsOK, RideRow, There
    <2> QED BY <1>1, <2>1, <2>2 DEF ReferencesHold, There
  <1>6. MovesOn(match, Match)
    BY <1>2, <1>3, RowsAreThere DEF MovesOn, There
  <1>7. Monotone /\ Undisturbed
    BY <1>6 DEF Monotone, MovesOn, OwnersStay, There, Undisturbed
  <1> QED BY <1>1, <1>4, <1>5, <1>7, RowsMove

LEMMA MatchesKeep ==
    ASSUME IInv,
           \/ \E s \in Session, m \in Match : InsertMatch(s, m)
           \/ \E s \in Session : UpdateMatch(s)
           \/ \E m \in Match : DeleteMatch(m)
    PROVE  IInv'
  <1>0. RowsOK
    BY TypesAndRows DEF IInv
  <1>1. ASSUME NEW s \in Session, NEW m \in Match, InsertMatch(s, m)
        PROVE  IInv'
    <2>1. MatchInsert(req[s]) /\ match[m] = None /\ End(s)
          /\ UNCHANGED <<now, season, round, team, player, ride>>
      BY <1>1, Writers DEF InsertMatch, Unused
    <2>2. CASE match' = match
      BY <2>1, <2>2, NothingWritten DEF Unwritten, tables
    <2>3. CASE match' # match
      <3> DEFINE row == req[s].new
      <3>1. /\ round[row.round] = row.season /\ TeamsThere(row)
            /\ match' = [match EXCEPT ![m] = row]
        BY <1>1, <2>3 DEF InsertMatch
      <3>2. row \in MatchRow /\ row \in MatchRow \cup {Gone} /\ row.home # row.away /\ row # Gone
        BY <2>1, RowsAreThere DEF MatchInsert
      <3>3. There(team, row.home) /\ There(team, row.away)
        BY <3>1, <3>2, TeamsOfRow DEF TeamsThere
      <3> HIDE DEF row
      <3>4. \/ match[m] = None
            \/ row = Gone
            \/ There(match, m) /\ row.version = match[m].version + 1
        BY <2>1
      <3>5. \E x \in Session : req' = [req EXCEPT ![x] = Idle]
        BY <2>1, EndIs
      <3> QED BY <2>1, <3>1, <3>2, <3>3, <3>4, <3>5, MatchesMove
    <2> QED BY <2>2, <2>3
  <1>2. ASSUME NEW s \in Session, UpdateMatch(s)
        PROVE  IInv'
    <2>1. MatchEdit(req[s]) /\ End(s) /\ UNCHANGED <<now, season, round, team, player, ride>>
      BY <1>2, Writers DEF UpdateMatch
    <2>2. PICK m \in Match : m = req[s].id
      BY <2>1 DEF MatchEdit
    <2>3. CASE match' = match
      BY <2>1, <2>3, NothingWritten DEF Unwritten, tables
    <2>4. CASE match' # match
      <3> DEFINE row == Edited(match, s)
      <3>1. /\ There(match, m) /\ match[m].version = req[s].seen.version
            /\ TeamsThere(req[s].new) /\ match' = [match EXCEPT ![m] = row]
        BY <1>2, <2>2, <2>4 DEF UpdateMatch, RowAsRead
      <3>2. /\ req[s].new \in MatchRow /\ match[m] \in MatchRow
            /\ match[m] = req[s].seen /\ match[m].version \in 1..MaxVersion
            /\ match[m].version < MaxVersion
        BY <1>0, <2>1, <2>2, <3>1, ThereIsRow DEF MatchEdit, Tells, MatchRow
      <3>3. row \in MatchRow /\ row.version = match[m].version + 1
            /\ row.round = req[s].new.round /\ row.season = req[s].new.season
            /\ row.home = req[s].new.home /\ row.away = req[s].new.away
        BY <2>2, <3>2, RowVersions DEF Edited, MatchRow
      <3> HIDE DEF row
      <3>4. row.round = match[m].round /\ row.season = match[m].season /\ row.home # row.away
        BY <2>1, <3>2, <3>3 DEF MatchEdit
      <3>5. round[row.round] = row.season
        BY <3>1, <3>4 DEF IInv, ReferencesHold
      <3>6. There(team, row.home) /\ There(team, row.away)
        BY <3>1, <3>2, <3>3, TeamsOfRow DEF TeamsThere
      <3>7. row # Gone
        BY <3>3, RowsAreThere
      <3> QED BY <2>1, <3>1, <3>3, <3>4, <3>5, <3>6, <3>7, EndIs, MatchesMove
    <2> QED BY <2>3, <2>4
  <1>3. ASSUME NEW m \in Match, DeleteMatch(m)
        PROVE  IInv'
    <2>1. /\ match' = [match EXCEPT ![m] = Gone] /\ \A r \in ride : r.match # m
          /\ UNCHANGED <<now, season, round, team, player, ride>> /\ req' = req
      BY <1>3 DEF DeleteMatch, Ridden
    <2> DEFINE row == Gone
    <2>2. row \in MatchRow \cup {Gone} /\ row = Gone /\ match' = [match EXCEPT ![m] = row]
      BY <2>1
    <2> HIDE DEF row
    <2> QED BY <2>1, <2>2, MatchesMove
  <1> QED BY <1>1, <1>2, <1>3

\* Seasons and rounds come, advance and go; what goes takes along what refers
\* to it.
LEMMA CreateSeasonKeeps ==
    ASSUME IInv, NEW se \in Season,
           CreateSeason(se) \/ \E status \in SeasonStatus : AdvanceSeason(se, status)
    PROVE  IInv'
  <1>1. RowsOK /\ ReferencesHold /\ now \in 0..LastHour
    BY TypesAndRows DEF IInv, TypeOK
  <1>2. PICK status \in SeasonStatus : season' = [season EXCEPT ![se] = status]
    BY DEF CreateSeason, AdvanceSeason, SeasonStatus
  <1>3. UNCHANGED <<now, round, match, team, player, ride, req>> /\ status \notin {None, Gone}
    BY RowsAreThere DEF CreateSeason, AdvanceSeason
  <1>4. RowsOK' /\ \A x \in Season : There(season, x) => There(season', x)
    BY <1>1, <1>2, <1>3 DEF RowsOK, There
  <1>5. ReferencesHold'
    BY <1>1, <1>3, <1>4, ThereIsRow DEF ReferencesHold, PlayerRow, There
  <1>6. Monotone
    BY <1>3 DEF Monotone, MovesOn, OwnersStay, There
  <1>7. Undisturbed
    <2>1. ASSUME NEW s \in Session, SeasonDelete(req[s]), req[s].id = se
          PROVE  FALSE
      <3>1. DeletesSeason(s, se) /\ season[se] # None
        BY <2>1, RowsAreThere DEF SeasonDelete, DeletesSeason, SeasonStatus
      <3> QED BY <3>1 DEF CreateSeason, AdvanceSeason, Unused, SeasonFree
    <2> QED BY <1>1, <1>2, <2>1 DEF Undisturbed, SeasonDelete, RowsOK
  <1> QED BY <1>1, <1>3, <1>4, <1>5, <1>6, <1>7, RowsMove

LEMMA CreateRoundKeeps ==
    ASSUME IInv, NEW r \in Round, NEW se \in Season, CreateRound(r, se)
    PROVE  IInv'
  <1>1. RowsOK /\ ReferencesHold /\ now \in 0..LastHour
    BY TypesAndRows DEF IInv, TypeOK
  <1>2. /\ round[r] = None /\ There(season, se) /\ round' = [round EXCEPT ![r] = se]
        /\ UNCHANGED <<now, season, match, team, player, ride, req>>
    BY DEF CreateRound, Unused
  <1>3. round'[r] = se /\ \A x \in Round \ {r} : round'[x] = round[x]
    BY <1>1, <1>2 DEF RowsOK
  <1>4. RowsOK'
    BY <1>1, <1>2 DEF RowsOK, There
  <1>5. \A m \in Match : There(match, m) =>
          match[m].round \in Round /\ match[m].round # r
    BY <1>1, <1>2, ThereIsRow, RowsAreThere DEF ReferencesHold, MatchRow
  <1>6. ReferencesHold'
    BY <1>1, <1>2, <1>3, <1>5 DEF ReferencesHold, There
  <1>7. Monotone /\ Undisturbed
    BY <1>1, <1>2, <1>3, RowsAreThere DEF Monotone, MovesOn, OwnersStay, There, Undisturbed
  <1> QED BY <1>1, <1>2, <1>4, <1>6, <1>7, RowsMove

LEMMA DeleteRoundKeeps ==
    ASSUME IInv, NEW s \in Session, DeleteRound(s)
    PROVE  IInv'
  <1>1. RowsOK /\ ReferencesHold /\ now \in 0..LastHour
    BY TypesAndRows DEF IInv, TypeOK
  <1>0. PICK r \in Round : r = req[s].id
    BY Writers DEF DeleteRound, RoundDelete
  <1>8. End(s) /\ \E x \in Session : req' = [req EXCEPT ![x] = Idle]
    BY EndIs DEF DeleteRound
  <1>9. CASE UNCHANGED tables
    BY <1>8, <1>9, EndKeeps DEF DeleteRound, Unwritten
  <1> SUFFICES ASSUME ~UNCHANGED tables PROVE IInv'
    BY <1>9
  <1>2. /\ round' = [round EXCEPT ![r] = Gone]
        /\ match' = [m \in Match |->
                       IF There(match, m) /\ match[m].round = r THEN Gone ELSE match[m]]
        /\ \A m \in Match : Ridden(m) => match[m].round # r
        /\ UNCHANGED <<now, season, team, player, ride>>
    BY <1>0 DEF DeleteRound
  <1>3. \A x \in Round \ {r} : round'[x] = round[x]
    BY <1>1, <1>2 DEF RowsOK
  <1>4. \A m \in Match : There(match', m) => There(match, m) /\ match'[m] = match[m]
                                              /\ match[m].round # r
    BY <1>2 DEF There
  <1>5. RowsOK'
    BY <1>1, <1>2 DEF RowsOK, There
  <1>6. ReferencesHold'
    <2>1. \A x \in Round : There(round', x) => There(season', round'[x])
      BY <1>1, <1>2, <1>3 DEF ReferencesHold, RowsOK, There
    <2>2. \A m \in Match : There(match', m) =>
            /\ round'[match'[m].round] = match'[m].season
            /\ There(team', match'[m].home) /\ There(team', match'[m].away)
      BY <1>1, <1>2, <1>3, <1>4, ThereIsRow DEF ReferencesHold, MatchRow, There
    <2>3. \A x \in ride : There(match', x.match)
      <3>1. \A x \in ride : x.match \in Match /\ match[x.match].round # r
        BY <1>1, <1>2 DEF Ridden, RowsOK, RideRow
      <3> QED BY <1>1, <1>2, <3>1 DEF ReferencesHold, There
    <2> QED BY <1>1, <1>2, <2>1, <2>2, <2>3 DEF ReferencesHold, There
  <1>7. Monotone /\ Undisturbed
    BY <1>1, <1>2, <1>3, <1>4, RowsAreThere DEF Monotone, MovesOn, OwnersStay, There, Undisturbed
  <1> QED BY <1>1, <1>2, <1>5, <1>6, <1>7, <1>8, RowsMove

LEMMA DeleteSeasonKeeps ==
    ASSUME IInv, NEW s \in Session, DeleteSeason(s)
    PROVE  IInv'
  <1>1. RowsOK /\ ReferencesHold /\ now \in 0..LastHour
    BY TypesAndRows DEF IInv, TypeOK
  <1>0. PICK se \in Season : se = req[s].id
    BY Writers DEF DeleteSeason, SeasonDelete
  <1>8. End(s) /\ \E x \in Session : req' = [req EXCEPT ![x] = Idle]
    BY EndIs DEF DeleteSeason
  <1>9. CASE UNCHANGED tables
    BY <1>8, <1>9, EndKeeps DEF DeleteSeason, Unwritten
  <1> SUFFICES ASSUME ~UNCHANGED tables PROVE IInv'
    BY <1>9
  <1>2. /\ season' = [season EXCEPT ![se] = Gone]
        /\ round' = [r \in Round |-> IF round[r] = se THEN Gone ELSE round[r]]
        /\ match' = [m \in Match |->
                       IF There(match, m) /\ match[m].season = se THEN Gone ELSE match[m]]
        /\ player' = [p \in Player |->
                        IF There(player, p) /\ player[p].season = se THEN Gone ELSE player[p]]
        /\ \A r \in ride : match[r.match].season # se /\ player[r.player].season # se
        /\ UNCHANGED <<now, team, ride>>
    BY <1>0 DEF DeleteSeason
  <1>3. \A x \in Season \ {se} : season'[x] = season[x]
    BY <1>1, <1>2 DEF RowsOK
  <1>4. /\ \A m \in Match : There(match', m) => There(match, m) /\ match'[m] = match[m]
                                                /\ match[m].season # se
        /\ \A p \in Player : There(player', p) => There(player, p) /\ player'[p] = player[p]
                                                  /\ player[p].season # se
        /\ \A r \in Round : There(round', r) => There(round, r) /\ round'[r] = round[r]
                                                /\ round[r] # se
    BY <1>2 DEF There
  <1>5. RowsOK'
    BY <1>1, <1>2 DEF RowsOK, There
  <1>6. ReferencesHold'
    <2>1. \A r \in Round : There(round', r) => There(season', round'[r])
      BY <1>1, <1>3, <1>4, ThereIsRow DEF ReferencesHold, There
    <2>2. \A m \in Match : There(match', m) =>
            /\ round'[match'[m].round] = match'[m].season
            /\ There(team', match'[m].home) /\ There(team', match'[m].away)
      BY <1>1, <1>2, <1>4, ThereIsRow DEF ReferencesHold, MatchRow, There
    <2>3. \A p \in Player : There(player', p) =>
            There(season', player'[p].season) /\ There(team', player'[p].team)
      BY <1>1, <1>2, <1>3, <1>4, ThereIsRow DEF ReferencesHold, PlayerRow, There
    <2>4. \A x \in ride : There(match', x.match) /\ There(player', x.player)
      <3>1. \A x \in ride : x.match \in Match /\ x.player \in Player
        BY <1>1 DEF RowsOK, RideRow
      <3> QED BY <1>1, <1>2, <3>1 DEF ReferencesHold, There
    <2> QED BY <1>1, <1>2, <2>1, <2>2, <2>3, <2>4 DEF ReferencesHold, There
  <1>7. Monotone
    BY <1>1, <1>2, <1>4, RowsAreThere DEF Monotone, MovesOn, OwnersStay, There
  <1>10. Undisturbed
    BY <1>1, <1>2, <1>3 DEF Undisturbed, SeasonDelete, RowsOK
  <1> QED BY <1>1, <1>2, <1>5, <1>6, <1>7, <1>8, <1>10, RowsMove

LEMMA RideAndTickKeep ==
    ASSUME IInv,
           Tick \/ \E p \in Player, t \in Team, m \in Match : CreateRide(p, t, m)
    PROVE  IInv'
  <1>1. RowsOK /\ ReferencesHold /\ now \in 0..LastHour
    BY TypesAndRows DEF IInv, TypeOK
  <1>2. UNCHANGED <<season, round, match, team, player, req>>
    BY DEF Tick, CreateRide, tables
  <1>3. now' \in 0..LastHour
    BY <1>1, BoundAssumption DEF Tick, CreateRide, BoundAssumption
  <1>4. \A r \in ride' \ ride :
          r \in RideRow /\ There(player, r.player) /\ There(team, r.team) /\ There(match, r.match)
    BY DEF Tick, CreateRide, tables, RideRow
  <1>5. RowsOK' /\ ReferencesHold'
    BY <1>1, <1>2, <1>4 DEF RowsOK, ReferencesHold, There
  <1>6. Monotone /\ Undisturbed
    BY <1>2 DEF Monotone, MovesOn, OwnersStay, There, Undisturbed
  <1> QED BY <1>2, <1>3, <1>5, <1>6, RowsMove

LEMMA StepKeeps == IInv /\ [Next]_vars => IInv'
  <1> SUFFICES ASSUME IInv, [Next]_vars
               PROVE  IInv'
    OBVIOUS
  <1>1. ASSUME NEW s \in Session, Step(s)
        PROVE  IInv'
    <2>1. CASE Cancel(s)
      BY <2>1, EndKeeps DEF Cancel
    <2> QED BY <1>1, <2>1, FindKeeps, BeginUpdateTeamKeeps, BeginInsertPlayerKeeps,
               BeginUpdatePlayerKeeps, BeginDeletePlayerKeeps, BeginInsertMatchKeeps,
               BeginUpdateMatchKeeps, BeginDeleteSeasonKeeps, BeginDeleteRoundKeeps,
               CascadeToRoundsKeeps, DeleteSeasonKeeps, DeleteRoundKeeps,
               TeamsKeep, PlayersKeep, MatchesKeep DEF Step
  <1>2. CASE UNCHANGED vars
    <2>1. /\ now' = now /\ season' = season /\ round' = round /\ match' = match
          /\ team' = team /\ player' = player /\ ride' = ride /\ req' = req
      BY <1>2 DEF vars, tables
    <2>2. RowsOK /\ ReferencesHold /\ now \in 0..LastHour
      BY TypesAndRows DEF IInv, TypeOK
    <2>3. RowsOK' /\ ReferencesHold'
      BY <2>1, <2>2 DEF RowsOK, ReferencesHold, There
    <2>4. Monotone /\ Undisturbed
      BY <2>1 DEF Monotone, MovesOn, OwnersStay, There, Undisturbed
    <2> QED BY <2>1, <2>2, <2>3, <2>4, RowsMove
  <1> QED BY <1>1, <1>2, TeamsKeep, MatchesKeep, CreateSeasonKeeps, CreateRoundKeeps,
             RideAndTickKeep DEF Next

LEMMA Invariant == Spec => []IInv
  BY InitIInv, StepKeeps, PTL DEF Spec

-----------------------------------------------------------------------------

\* Rows and requests have their types; no match is of a team against itself.
THEOREM TypeCorrect == Spec => []TypeOK
  <1>1. IInv => TypeOK
    BY DEF IInv
  <1> QED BY <1>1, Invariant, PTL

\* No reference dangles, and every match is in a round of its own season.
THEOREM ReferencesAlwaysHold == Spec => []ReferencesHold
  <1>1. IInv => ReferencesHold
    BY DEF IInv
  <1> QED BY <1>1, Invariant, PTL

\* Who changes a row that is there.
LEMMA WhoChanges ==
    ASSUME [Next]_vars
    PROVE  /\ \/ team' = team
              \/ \E t \in Team : CreateTeam(t) \/ DeleteTeam(t)
              \/ \E s \in Session : UpdateTeam(s)
           /\ \/ player' = player
              \/ \E s \in Session, p \in Player : InsertPlayer(s, p)
              \/ \E s \in Session : UpdatePlayer(s) \/ DeletePlayer(s) \/ DeleteSeason(s)
           /\ \/ match' = match
              \/ \E s \in Session, m \in Match : InsertMatch(s, m)
              \/ \E s \in Session : UpdateMatch(s) \/ DeleteSeason(s) \/ DeleteRound(s)
              \/ \E m \in Match : DeleteMatch(m)
  <1>1. CASE UNCHANGED vars
    BY <1>1 DEF vars, tables
  <1>2. ASSUME NEW s \in Session, Step(s)
        PROVE  \/ Unwritten
               \/ UpdateTeam(s)
               \/ UpdatePlayer(s) \/ DeletePlayer(s) \/ \E p \in Player : InsertPlayer(s, p)
               \/ UpdateMatch(s) \/ \E m \in Match : InsertMatch(s, m)
               \/ DeleteSeason(s) \/ DeleteRound(s)
    BY <1>2 DEF Step, BeginUpdateTeam, BeginInsertPlayer, BeginUpdatePlayer, BeginDeletePlayer,
                BeginInsertMatch, BeginUpdateMatch, BeginDeleteSeason, BeginDeleteRound,
                CascadeToRounds, FindTeams, FindRound, FindOrEnd, Cancel
  <1>3. ASSUME NEW s \in Session, Step(s)
        PROVE  \/ team' = team /\ player' = player /\ match' = match
               \/ UpdateTeam(s) /\ player' = player /\ match' = match
               \/ /\ UpdatePlayer(s) \/ DeletePlayer(s) \/ \E p \in Player : InsertPlayer(s, p)
                  /\ team' = team /\ match' = match
               \/ /\ UpdateMatch(s) \/ \E m \in Match : InsertMatch(s, m)
                  /\ team' = team /\ player' = player
               \/ DeleteSeason(s) /\ team' = team
               \/ DeleteRound(s) /\ team' = team /\ player' = player
    BY <1>2, <1>3 DEF Unwritten, tables, UpdateTeam, UpdatePlayer, DeletePlayer, InsertPlayer,
                      UpdateMatch, InsertMatch, DeleteSeason, DeleteRound
  <1>4. ASSUME NEW t \in Team, CreateTeam(t) \/ DeleteTeam(t)
        PROVE  player' = player /\ match' = match
    BY <1>4 DEF CreateTeam, DeleteTeam
  <1>5. ASSUME NEW se \in Season, CreateSeason(se) \/ \E x \in SeasonStatus : AdvanceSeason(se, x)
        PROVE  team' = team /\ player' = player /\ match' = match
    BY <1>5 DEF CreateSeason, AdvanceSeason
  <1>8. ASSUME NEW m \in Match, DeleteMatch(m)
        PROVE  team' = team /\ player' = player
    BY <1>8 DEF DeleteMatch
  <1>9. ASSUME \/ \E r \in Round, se \in Season : CreateRound(r, se)
               \/ \E p \in Player, t \in Team, m \in Match : CreateRide(p, t, m)
               \/ Tick
        PROVE  team' = team /\ player' = player /\ match' = match
    BY <1>9 DEF CreateRound, CreateRide, Tick, tables
  <1> QED BY <1>1, <1>3, <1>4, <1>5, <1>8, <1>9 DEF Next

\* Every edit is of the row its request has read.
THEOREM EditsAreOfWhatWasRead == Spec => NoLostEdit
  <1>1. ASSUME IInv, [Next]_vars, NEW t \in Team
        PROVE  EditOf(team, t)
    <2> SUFFICES ASSUME There(team, t), There(team', t), team'[t] # team[t]
                 PROVE  \E s \in Session : /\ req[s].id = t /\ req'[s] = Idle
                                           /\ req[s].seen = team[t]
                                           /\ team'[t] = [req[s].new EXCEPT !.version = @ + 1]
      BY DEF EditOf
    <2>1. RowsOK /\ req \in [Session -> Request]
      BY <1>1, TypesAndRows DEF IInv, TypeOK
    <2>2. ASSUME NEW x \in Team, CreateTeam(x) \/ DeleteTeam(x) PROVE FALSE
      BY <2>1, <2>2 DEF CreateTeam, DeleteTeam, Unused, There, RowsOK
    <2>3. PICK s \in Session : UpdateTeam(s)
      BY <1>1, <2>2, WhoChanges
    <2>4. TeamEdit(req[s])
      BY <1>1, <2>3, Writers DEF UpdateTeam
    <2>5. /\ req[s].id = t /\ team[t].version = req[s].seen.version
          /\ team'[t] = Edited(team, s)
      BY <2>1, <2>3, <2>4 DEF UpdateTeam, RowAsRead, TeamEdit, RowsOK
    <2>6. req'[s] = Idle
      BY <2>1, <2>3 DEF UpdateTeam, End
    <2>7. req[s].seen = team[t] /\ req[s].new.version = team[t].version
      BY <2>4, <2>5 DEF TeamEdit, Tells
    <2> QED BY <2>5, <2>6, <2>7 DEF Edited
  <1>2. ASSUME IInv, [Next]_vars, NEW p \in Player
        PROVE  EditOf(player, p)
    <2> SUFFICES ASSUME There(player, p), There(player', p), player'[p] # player[p]
                 PROVE  \E s \in Session : /\ req[s].id = p /\ req'[s] = Idle
                                           /\ req[s].seen = player[p]
                                           /\ player'[p] = [req[s].new EXCEPT !.version = @ + 1]
      BY DEF EditOf
    <2>1. RowsOK /\ req \in [Session -> Request]
      BY <1>2, TypesAndRows DEF IInv, TypeOK
    <2>2. ASSUME NEW s \in Session, NEW x \in Player, InsertPlayer(s, x) PROVE FALSE
      BY <2>1, <2>2 DEF InsertPlayer, Unused, There, RowsOK
    <2>3. ASSUME NEW s \in Session, DeletePlayer(s) PROVE FALSE
      <3>1. player' = player \/ player' = [player EXCEPT ![req[s].id] = Gone]
        BY <2>3 DEF DeletePlayer
      <3> QED BY <2>1, <3>1 DEF There, RowsOK
    <2>4. ASSUME NEW s \in Session, DeleteSeason(s) PROVE FALSE
      BY <2>4 DEF DeleteSeason, There, tables
    <2>5. PICK s \in Session : UpdatePlayer(s)
      BY <1>2, <2>2, <2>3, <2>4, WhoChanges
    <2>6. PlayerEdit(req[s])
      BY <1>2, <2>5, Writers DEF UpdatePlayer
    <2>7. /\ req[s].id = p /\ player[p].version = req[s].seen.version
          /\ player'[p] = Edited(player, s)
      BY <2>1, <2>5, <2>6 DEF UpdatePlayer, RowAsRead, PlayerEdit, OwnerKnown, RowsOK
    <2>8. req'[s] = Idle
      BY <2>1, <2>5 DEF UpdatePlayer, End
    <2>9. req[s].seen = player[p] /\ req[s].new.version = player[p].version
      BY <2>6, <2>7 DEF PlayerEdit, Tells
    <2> QED BY <2>7, <2>8, <2>9 DEF Edited
  <1>3. ASSUME IInv, [Next]_vars, NEW m \in Match
        PROVE  EditOf(match, m)
    <2> SUFFICES ASSUME There(match, m), There(match', m), match'[m] # match[m]
                 PROVE  \E s \in Session : /\ req[s].id = m /\ req'[s] = Idle
                                           /\ req[s].seen = match[m]
                                           /\ match'[m] = [req[s].new EXCEPT !.version = @ + 1]
      BY DEF EditOf
    <2>1. RowsOK /\ req \in [Session -> Request]
      BY <1>3, TypesAndRows DEF IInv, TypeOK
    <2>2. ASSUME NEW s \in Session, NEW x \in Match, InsertMatch(s, x) PROVE FALSE
      BY <2>1, <2>2 DEF InsertMatch, Unused, There, RowsOK
    <2>3. ASSUME NEW x \in Match, DeleteMatch(x) PROVE FALSE
      BY <2>1, <2>3 DEF DeleteMatch, There, RowsOK
    <2>4. ASSUME NEW s \in Session, DeleteSeason(s) \/ DeleteRound(s) PROVE FALSE
      BY <2>4 DEF DeleteSeason, DeleteRound, There, tables
    <2>5. PICK s \in Session : UpdateMatch(s)
      BY <1>3, <2>2, <2>3, <2>4, WhoChanges
    <2>6. MatchEdit(req[s])
      BY <1>3, <2>5, Writers DEF UpdateMatch
    <2>7. /\ req[s].id = m /\ match[m].version = req[s].seen.version
          /\ match'[m] = Edited(match, s)
      BY <2>1, <2>5, <2>6 DEF UpdateMatch, RowAsRead, MatchEdit, RowsOK
    <2>8. req'[s] = Idle
      BY <2>1, <2>5 DEF UpdateMatch, End
    <2>9. req[s].seen = match[m] /\ req[s].new.version = match[m].version
      BY <2>6, <2>7 DEF MatchEdit, Tells
    <2> QED BY <2>7, <2>8, <2>9 DEF Edited
  <1>4. IInv /\ [Next]_vars => [/\ \A t \in Team : EditOf(team, t)
                                /\ \A p \in Player : EditOf(player, p)
                                /\ \A m \in Match : EditOf(match, m)]_vars
    BY <1>1, <1>2, <1>3
  <1> QED BY <1>4, Invariant, PTL DEF Spec, NoLostEdit

\* Nobody changes or removes another's player, unless it is an administrator or
\* the season goes with everything in it.
THEOREM OwnersOnly == Spec => OnlyItsOwner
  <1>1. ASSUME IInv, [Next]_vars, NEW p \in Player, There(player, p), player'[p] # player[p]
        PROVE  \/ season'[player[p].season] = Gone
               \/ \E s \in Session : /\ req[s].id = p /\ req'[s] = Idle
                                     /\ req[s].user = player[p].user \/ req[s].user \in Admin
    <2>1. RowsOK /\ req \in [Session -> Request] /\ player[p].season \in Season
      BY <1>1, TypesAndRows, ThereIsRow DEF IInv, TypeOK, PlayerRow
    <2>2. ASSUME NEW s \in Session, NEW x \in Player, InsertPlayer(s, x) PROVE FALSE
      BY <1>1, <2>1, <2>2 DEF InsertPlayer, Unused, There, RowsOK
    <2>3. CASE \E s \in Session : DeleteSeason(s)
      <3>1. PICK s \in Session : DeleteSeason(s)
        BY <2>3
      <3>2. PICK se \in Season : se = req[s].id
        BY <1>1, <3>1, Writers DEF DeleteSeason, SeasonDelete
      <3>3. player[p].season = se /\ season' = [season EXCEPT ![se] = Gone]
        BY <1>1, <3>1, <3>2 DEF DeleteSeason, tables
      <3> QED BY <2>1, <3>3 DEF RowsOK
    <2>4. ASSUME NEW s \in Session, UpdatePlayer(s) \/ DeletePlayer(s)
          PROVE  /\ req[s].id = p /\ req'[s] = Idle
                 /\ req[s].user = player[p].user \/ req[s].user \in Admin
      <3>1. OwnerKnown(req[s])
        BY <1>1, <2>4, Writers DEF UpdatePlayer, DeletePlayer, PlayerEdit, PlayerDelete
      <3>2. req[s].id = p
        <4>1. PICK row : player' = player \/ player' = [player EXCEPT ![req[s].id] = row]
          BY <2>4 DEF UpdatePlayer, DeletePlayer
        <4> QED BY <1>1, <2>1, <4>1 DEF RowsOK
      <3>3. req'[s] = Idle
        BY <2>1, <2>4 DEF UpdatePlayer, DeletePlayer, End
      <3> QED BY <1>1, <3>1, <3>2, <3>3 DEF OwnerKnown
    <2> QED BY <1>1, <2>2, <2>3, <2>4, WhoChanges
  <1>2. IInv /\ [Next]_vars =>
          [\A p \in Player : There(player, p) /\ player'[p] # player[p] =>
             \/ season'[player[p].season] = Gone
             \/ \E s \in Session : /\ req[s].id = p /\ req'[s] = Idle
                                   /\ req[s].user = player[p].user \/ req[s].user \in Admin]_vars
    BY <1>1
  <1> QED BY <1>2, Invariant, PTL DEF Spec, OnlyItsOwner

\* A season that is live or over is never deleted: the deletion holds the row
\* whose status its gate has seen, and the opening of a round waits for it.
THEOREM LiveSeasonStays == Spec => LiveSeasonIsKept
  <1>1. ASSUME IInv, [Next]_vars, NEW se \in Season, season[se] \in {"in_progress", "closed"},
               season'[se] = Gone
        PROVE  FALSE
    <2>1. RowsOK /\ season[se] \notin {None, Gone}
      BY <1>1, TypesAndRows, RowsAreThere DEF IInv, SeasonStatus
    <2>2. ASSUME NEW s \in Session, DeleteSeason(s) PROVE FALSE
      <3>1. SeasonDelete(req[s])
        BY <1>1, <2>2, Writers DEF DeleteSeason
      <3>2. req[s].id = se
        BY <1>1, <2>1, <2>2, <3>1 DEF DeleteSeason, tables, RowsOK
      <3> QED BY <1>1, <2>1, <3>1, <3>2 DEF SeasonDelete
    <2>3. ASSUME NEW x \in Season, CreateSeason(x) \/ \E y \in SeasonStatus : AdvanceSeason(x, y)
          PROVE  FALSE
      <3>1. PICK y \in SeasonStatus : season' = [season EXCEPT ![x] = y]
        BY <2>3 DEF CreateSeason, AdvanceSeason, SeasonStatus
      <3> QED BY <1>1, <2>1, <3>1, RowsAreThere DEF RowsOK
    <2>4. ASSUME season' = season PROVE FALSE
      BY <1>1, <2>1, <2>4
    <2>5. ASSUME NEW s \in Session, Step(s), ~DeleteSeason(s) PROVE season' = season
      BY <2>5 DEF Step, BeginUpdateTeam, BeginInsertPlayer, BeginUpdatePlayer, BeginDeletePlayer,
             BeginInsertMatch, BeginUpdateMatch, BeginDeleteSeason, BeginDeleteRound,
             CascadeToRounds, FindTeams, FindRound, FindOrEnd, Cancel, Unwritten, tables, UpdateTeam,
             UpdatePlayer, DeletePlayer, InsertPlayer, UpdateMatch, InsertMatch, DeleteRound
    <2>6. ASSUME \/ \E t \in Team : CreateTeam(t) \/ DeleteTeam(t)
                 \/ \E r \in Round, x \in Season : CreateRound(r, x)
                 \/ \E m \in Match : DeleteMatch(m)
                 \/ \E p \in Player, t \in Team, m \in Match : CreateRide(p, t, m)
                 \/ Tick
                 \/ UNCHANGED vars
          PROVE  season' = season
      BY <2>6 DEF CreateTeam, DeleteTeam, CreateRound, DeleteMatch, CreateRide, Tick, vars, tables
    <2> QED BY <1>1, <2>2, <2>3, <2>4, <2>5, <2>6 DEF Next
  <1>2. IInv /\ [Next]_vars =>
          [\A se \in Season : season[se] \in {"in_progress", "closed"} => season'[se] # Gone]_vars
    BY <1>1
  <1> QED BY <1>2, Invariant, PTL DEF Spec, LiveSeasonIsKept
=============================================================================
