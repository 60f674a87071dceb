# A verification of lt-api

lt-api is the backend of a prediction league: players *ride* a team through the
matches of a season. A ride is `locked` on a match; when the match is resolved
it is `won_pending` or `lost`; a player whose ride has won continues it onto
the team's next match, burns it or unlocks it before the round closes, and the
close of the round decides for those who did not.

The program is Go on PostgreSQL. There is no state of the game in memory: every
request runs statements against the tables, any number of requests at a time,
under READ COMMITTED. What makes the system correct is therefore spread over
guarded statements (`internal/game`), triggers (`migrations`) and the order in
which handlers call them (`internal/api`), and that is what is modelled here.

## 1. Inventory

| Component | State | Operations | Properties that make it correct |
|---|---|---|---|
| Ride commands, `internal/game/service.go`, `rides.go`, `internal/api/rides.go` | `rides` rows: state, match, streak, version | create, lock (continue), burn, unlock; settlement of a match's rides | no acknowledged decision is lost; a ride settles with its match and by its result; no undecided ride in a closed round; decided rides are final |
| Match resolution, `matches.go`, `internal/api/matches.go` | `matches` rows: status, score, start, end, version | insert, PATCH (start, reschedule, correct the score), resolve, delete | match and rides settle together, once; a match ends after it starts |
| Round and season lifecycle, `rounds.go`, `seasons.go`, `lifecycle.go` | `rounds` rows: number, status, version; the `seasons` row | insert, PATCH (open, close, renumber), delete; season PATCH | rounds are played in sequence, one at a time; nothing goes back; a live round has a running season |
| Database gates, `migrations/000001`, `05`, `06`, `08`, `11` | none of their own | BEFORE triggers, checks, unique indexes | they refuse what the service must not write, and never what it may |
| Idempotent execution, `idempotency.go`, `service.go` | `idempotency_keys` rows; connections taken from the pool | claim, replay, refuse, execute, save, commit | a key executes one request once; every answer under it is that execution's; no connection is lost |
| Round phase, `round_phase.go` | none (a function of the clock and the matches) | `Phase` | create only before the round, decide only after it |
| Players and teams, `players.go`, `teams.go` in `internal/game` and `internal/api` | `players`, `teams` rows, and the seasons, rounds and matches they refer to | register, PATCH, delete | no reference dangles; no edit overwrites one it has not read; nobody edits another's player; no season is deleted that has gone live meanwhile |
| Identity, `internal/identity`, `internal/api/users.go`, `user_tokens.go` | `users` and `user_tokens` rows, mails under way | register, resend, log in, activate, authenticate | a token activates once, together with its cleanup; only a mail opens an account; no failure locks a user out |
| Rate limiter, `internal/api/ratelimiter.go` | token bucket per address, a mutex | allow, sweep | nobody who keeps asking is let through more often than a bucket of his own would let him, although buckets are evicted |
| Server lifecycle, mailer, `server.go`, `main.go`, `mailer.go` | open requests, background tasks, the pool | serve, background, shutdown; send with retries | shutdown ends; an orderly one leaves nothing behind; it cuts the retries of mails short |
| Handlers, validation, filters, configuration | none | decode, check, encode | functions of one request |

How they interact. A handler reads what it needs on the pool, checks it, and
calls one method of the service or of a store. `Service.RideCreate`, `RideLock`,
`RideBurn` and `RideUnlock` open a transaction, claim the Idempotency-Key in it,
read the phase and the ride *beside* it on the pool, write the ride with a
guarded statement, store their answer and commit. `Service.MatchResolve` closes
the match and settles its rides in one transaction; `RoundStore.Close` decides
the undecided rides of a round and flips the round, and for the last round the
season; `RoundStore.Open` flips the season and the round. These components never
call back into each other: they meet in the tables, at row locks, and in what a
statement's snapshot does not see yet. The handlers of players, teams, matches
and seasons have no transaction of their own: they read, check, and write in a
later statement that carries the version they read, and foreign keys and gates
have the last word.

Around them stands the process. Every request passes the rate limiter, whose map
is shared under one mutex with a sweep that runs as a background task.
Registration and resend insert a token and start another background task, which
sends it by mail with retries. A signal cancels the context both tasks watch,
while the server drains requests that may still start new ones; then it waits
for the tasks, and closes the pool.

The hard behaviours are the interleavings of these transactions. Four facts
about PostgreSQL carry the design, and the model has each of them:

* a statement sees what was committed when it began, a trigger sees its own
  transaction's writes as well, with a snapshot of its own;
* an UPDATE that finds its row locked waits, and then evaluates its WHERE again
  on the newest version of *that row*, while what it read from other rows stays
  as it was in its snapshot (EvalPlanQual);
* `FOR SHARE` and an update of the same row exclude each other, a plain `EXISTS`
  excludes nobody;
* an index entry that is not committed makes others wait who want the same key.

`PROJECT.json` lists each hazard at its line, with the properties that cover it.

## 2. Modules

```
 LeagueDefs        rows, decisions, settlement, ride gate, phases  (no variables)
   |-- RideRules         what is promised: every command one step
   |     |-- RideRulesProofs
   |     `-- MCRideRules
   `-- RideService       the transactions, statement by statement
         |   implements RideRules  (ImplementsRules)
         |-- RideServiceProofs
         `-- MCRideService     -- MCRideQueue (a third ride and request)
 RoundLifecycle    rounds and season under concurrent operators
   |-- RoundLifecycleProofs
   `-- MCRoundLifecycle
 Catalogue         seasons, rounds, matches, teams, players: reads apart from writes
   |-- CatalogueProofs
   |-- MCCatalogue
   `-- MatchHistory      Catalogue and which matches have ever started -- MCMatchHistory
 ExactlyOnce       what an Idempotency-Key promises
   `-- RideCommand       claim, execute, save, commit, and the pool; implements ExactlyOnce
         |-- RideCommandProofs
         `-- MCRideCommand
 Accounts          users, tokens, mails
   |-- AccountsProofs
   `-- MCAccounts
 TokenBucket       what a rate limiter promises
   `-- RateLimiter       Allow under its mutex, the sweep; implements TokenBucket
         |-- RateWindow        an observer who counts permissions -- MCRateWindow
         |     `-- RateLimiterProofs
         `-- Server            requests, handlers, mail tasks, signals, drain, exit
               |-- ServerProofs
               `-- MCServer
```

**RideService** is the core. `ride`, `match` and `round` hold committed rows.
`sess[s]` is a request: the command, where it stands (`pc`), and what it has
read; `pend[s]` are the ride versions it has written and not committed, which
lock their rows. The actions follow the statements: `ReadPhase`
(`Service.RidePhase`), `NextForTeam`, `InsertGuarded` (`guardedInsertSQL`),
`SnapshotGuarded` and `UpdateGuarded` (`guardedUpdateSQL` before and after its
wait), `BeginResolve`/`ResolveMatchRow` (the same two instants of `ResolveTx`),
`SettleRides` (`UpdateAllForMatchTx`), `BeginClose`/`SweepRide`/`FlipRound`
(`RoundStore.Close`: snapshot of the auto-resolution, one row of it, the round
and its gates), `Commit`. `Cancel` is whatever ends a request before that: the
three-second `DBTimeout`, the client, the connection, a crash; PostgreSQL rolls
back and nothing of the request stays, so one action stands for all of them.
`AbortDeadlock` is the deadlock detector, which here looks for circles of two
only (`Deadlocked`); `NoStandstill` says that this is enough. PATCHes of matches and the opening of
a round are single statements (or transactions of which nothing shows before
their commit) and single actions. A request that any later statement refuses
for certain is not started; `Tick` advances the clock an hour at a time, at most
once during a request, because no request lives longer than three seconds.

**RideRules** is the same system without sessions, locks and clock: which
changes of the committed rows are ever visible. Two of its actions are wider
than a first reading suggests, because the service is: `Resolve` settles *some*
of the rides locked on the match (one that another request is just locking onto
it is not seen), and `Decide` may lock a ride onto any match. `RideService`
maps to it by forgetting everything but `ride`, `round` and the status and
winner of each match.

**RoundLifecycle** has the rounds rows themselves: their numbers change, rows
come and go. A request reads (`BeginUpdate`), flips the season (`FlipSeason`),
updates its row and passes the gates (`WriteRound`), enters the unique index
(`EnterIndex`), commits. `play` abstracts the matches of a round to what the
gates ask: none, none started, some started, all closed. Operators renumber what
they like; `vacated`, which is not in the code, remembers the numbers closed rounds
were renumbered away from.

**RideCommand** is the execution shape of the four ride commands, without what
the command does: the claim, the advisory reads, the write or its refusal, the
stored answer, the commit and the answer on the wire, with the connections held
in each state and `Fail` in all of them. **ExactlyOnce** has two actions:
execute a request under a key that has none, and reply to that request.

**Catalogue** has the rows everything else refers to. Ids are never reused: a row
is not there yet, is there, or is gone. `req[s]` is a request between its reads
and its write: what it has seen, what it is going to write. Registering a player
looks at the season and then at the team (`RegisterPlayer`, `CheckTeam`), a match
at its round and its two teams, a PATCH reads its row, merges, and writes under
the version it read; then the foreign keys, the unique keys and the freeze and
delete gates of migration 000001 judge the statement. What needs one statement
is one action (`CreateTeam`, `DeleteTeam`, `CreateRide`, ...). The deletion of a
season or a round is one statement too, but not one instant: `BeginDeleteSeason`
locks the row and passes its gate, `CascadeToRounds` lets the gates of its rounds
judge, `DeleteSeason` takes what refers to the season by then and commits
(`BeginDeleteRound` and `DeleteRound` likewise). Until then nobody changes the row
or inserts one that refers to it (`SeasonFree`, `RoundFree`: the row lock against
updates and against the KEY SHARE of a foreign key), while its matches are edited
as ever. The status of rounds and the closing of matches are left to
RoundLifecycle and RideService: here matches are created or in progress.
**MatchHistory** adds one history variable, the matches that have started at
some time.

**Accounts** has the `users` and `user_tokens` rows and the mails between them.
Each statement is a step and each step can be the last (`Fail`): `Register`
(inserts the user), `Issue` (inserts a token and hands it to a mail task or to
the caller), `Deliver` and `MailLost`, `Resend`, `Login`, `Activate` (reads the
user behind the token) and then the transaction `Flip`, `Clean`, `Commit`, whose
UPDATE is guarded by the version and whose DELETE removes what its own snapshot
shows; `Authenticate` and `RequirePermission` are the two middlewares. `Tick` is
a day of a token's life.

**RateLimiter** is `Allow` in four steps, because it reads the clock four times
while it holds the mutex: `See` (which makes the limiter of a new client and
stamps `lastSeen`), `Reserve`, `Judge` (the delay), `Cancel` (which gives a future
booking back, or is too late to); and `Sweep`. Levels are measured in refill time,
so nothing is rounded. Nothing is assumed of the interval of the sweep: a bucket
may be evicted before it is full. **RateWindow** adds an observer, who is not in
the code: it opens a window between any two steps of a call and counts ticks,
permissions and evictions in it. **TokenBucket** is a bucket per client and a
permission for a token; only time fills a bucket, except that of a client that has
not asked for longer than the interval (`Forgive`).

**Server** extends RateLimiter: its callers are requests. A request arrives, is
limited or runs its handler (`Limited`, `Query`, `Queried`, `Background`,
`Answer`); a mail task returns early (`Unsendable`: template, address, panic) or
dials, sends, backs off, retries or gives up as `mailer.Send` does, with the
context looked at where the code looks at it. `copies` counts what the mail server
has taken, by an attempt that succeeds or by one that fails afterwards; `onTheWire`
remembers what could still be complete when the signal came. The first signal
cancels `RootCtx`; `Shutdown` stops the listener and drains; a second signal or the
end of the grace period closes what is left; `TasksDone` or `BudgetOver` ends the
wait; `PoolClosed` waits for connections. `Fail` stands for an error of Serve or
Shutdown, which skips the waits. The clock, and with it the limiter, runs until the
process exits.

**LeagueDefs** has what Go and SQL compute without looking anything up: the row
operators (`CreatedRide`, `LockedOnto`, `EndedAs`, `SettledBy`,
`AutoResolved`), the ride gate with its five checks, `Phase`. A ride row carries its
bonus as far as the gate asks for it: nothing accrues one yet (the settlement is a
statement that writes none), so what `RideGate` can find is a bonus an unlocked ride
was not stripped of. The match row the gate is shown is the one the writing
transaction reads (`MatchSeen`): a resolution sees its own uncommitted scores,
everybody else the committed row; a match in progress has scores (0-0 at its start,
which crown nobody). What gate and settlement share is the rule that a draw has no
winner; goals are not counted in the model.

Definitions introduced as a *variant* in a comment are not the program's: each is a plausible
mistake in the definition that follows it, and `PROJECT.json` ("mutants") says
which property notices when it takes that definition's place.

## 3. Runs

| Run | Instance | States | Shows |
|---|---|---|---|
| `rules` | 2 rides, 3 matches in rounds 1 and 3 of 3, streaks to 2 | 148 k | the invariants of the rules, which the proofs then take to any size |
| `ride_race` | 2 requests, 2 rides, 2 matches of round 1, empty round 2, 4 hours | 258 k | no lost update, one decider, settlement with the match, no fresh ride left behind, what is written passes the ride gate, somebody can always go on (`NoStandstill`), `ImplementsRules` |
| `ride_season` | 2 requests, 1 ride, a match in each of 2 rounds, match 1 rescheduled and corrected, 7 hours | 662 k | continuation into the last round, burning, ends after starts, `ImplementsRules` |
| `ride_drain` | 2 requests, 2 rides, 1 match | 55 k | requests end without their deadline |
| `rounds` | 2 operators, 2 rounds rows, 2 numbers, anything renumbered | 405 k | no number skipped, one live round until a closed one is renumbered, no regression |
| `commands` | 3 requests, 2 keys, 2 kinds of request, 4 connections | 88 k | exactly once, nobody waits in a circle (`StallTakesThePool`), and requests drain |
| `accounts` | 1 user, 2 activation and 1 authentication token values, 2 requests, tokens that last a day | 11 k | a token activates once and with its cleanup, only a mail opens the account, nobody is locked out |
| `server` | 2 requests of 1 address, burst 1, a token of 2 ticks, sweep interval 0, two attempts per mail | 1112 k | `ImplementsBucket`, an orderly exit leaves nothing, shutdown cuts retries short, shutdown ends |
| `catalogue` | 1 season, round, match; 2 teams, players and users (one an administrator), 2 requests | 944 k | references, edits, ownership, live seasons |
| `ride_stranded`, `round_hole`, `match_history` | as above; one match and one operator for the last | | three disagreements of code and comments, section 6 |

Two configurations beside the runs are wider instances of properties that are
proved for every instance: `tlc -config MCRideQueue.cfg MCRideQueue` checks
`NoStandstill` with three requests after three rides of one match (699 k states,
two minutes), `tlc -config MCRateWindow.cfg MCRateWindow` checks `BurstAndRate` with two
addresses, two callers, a token every two ticks, an interval of two and windows of
four (2364 k states); the interval is shorter than the four ticks of a full bucket,
so evictions forgive something. `rounds` with three numbers (`LastRound = 3`, 2.7 M
states, three minutes) also holds, and has two live rounds after a renumbering. The plain type invariants of RideRules, RoundLifecycle and Server are proved and are in
no run.

Why the bounds are enough. Every interaction in the code is between two
transactions at one row, or between two transactions and a third row one of
them changed; two requests of any kind over two rides and two matches contain
all of those pairs, and each request may be followed by others without limit.
Two matches of one round let a continuation and a resolution meet in it, two
rounds let a continuation cross a close, and the second of two rounds is the
last one, where rides burn and the season ends. The clock runs one hour past
the last decision window. Three requests are needed for the key: the claimant, its
duplicate and the other request. `MCRideQueue` has three requests and three rides
of one match because the question is whether a circle can be longer than two;
the detector of the model, which looks for two, is enough with three, and
`NobodyStandsStill` (section 4) answers for any number. The bounds are the constants `MaxTime`,
`Editable`, `MaxVersion` and `Slots` and the definitions `MaxStreak` of
MCRideRules; `MaxVersion` limits only the edits an operator makes, never a
command. Rides and requests are interchangeable in the safety runs, which use
symmetry; the liveness runs do not.

In `accounts` one user is enough because nothing a user does reads another's
rows, and two activation tokens with two requests let a resend, or a second
activation, overlap an activation; token values are reused once no row, mail or
client has them, as fresh ones. `server` needs two requests because a second one
competes for the bucket and drains while the first one's mail is retried. With
`Burst` 1, `Cost` 2 and an interval of 0 a bucket is evicted after one idle tick,
when it lacks one, and a call can be half-way when a tick passes; two attempts
per mail are a first and a last one. In `MCRateWindow` a window of four ticks
contains the eviction of an idle client (after more than two) and its return.
`catalogue` is bounded by
`LastHour`, `MaxVersion` and `Editable` (which rows are edited) and by the
constraint `Few` of MCCatalogue: the season is not closed, there is one ride, new
rows are about team A, and two requests are in flight together only if they are
after the same row or both register players. A request in flight still meets
every single-statement request (creations, the deletion of a team or a match, the
changes of a season) at each of its steps; the deletions that cascade have steps of
their own and are in flight like an edit.
What the constraint cuts off is covered by the proofs, which have no bound.

No run checks for deadlock: a season that is over, a clock at `MaxTime`, a process
that has exited are states in which nothing need happen. That nobody waits for ever is stated by
`NoStandstill` and `StallTakesThePool` instead, which say by guards (`Ready`) that
one of the requests in flight can take its next step, `Fail` and `Cancel` left
aside (of commands, unless as many as the pool has connections hold one each and
want a second), and by `RequestsDrain`, which says that they all end; of commands,
where there is a connection to spare, as in the instance of `commands`.

Fairness. `RequestsDrain` assumes weak fairness of each request's next
statement: Go runs every goroutine, PostgreSQL executes a statement once its
locks are free, its deadlock detector breaks a cycle, the pool hands out a free
connection. Nothing else is fair: no operator need act, no clock strike, no
deadline fire, and the property asks only about the time after requests have
stopped arriving, since a queue of newcomers may overtake a waiting one.

`ShutdownEnds` assumes that the shutdown's own goroutines run, that its timers
(grace period, task budget) fire, and that a statement ends (`Queried`, by
`DBTimeout`). It assumes nothing of handlers and tasks, which may hang.
`NobodyLockedOut` is about a user who does not give up: he keeps asking for a
resend, and neither do all his requests fail, nor all his mails get lost or
arrive late (`Persistent`, strong fairness per step, because every step can be
pre-empted by a failure or an expiry for a while); a mail task ends one way or
the other, and so does a request.

`ClosedRoundIsDecided` in `ride_race` is the promise of `rounds_close_gate`
*between* commits. It holds because everything that makes a ride undecided
(`MatchResolve`) closes its match first, a round with an open match does not
close, and the two conditions are read in the closing transaction after the
round row is locked.

## 4. Proofs

`RideRulesProofs` (the abstract rules, any `Ride`, `Match`, `Team`, `LastRound`
and schedule that satisfy `ScheduleAssumption` and `NullAssumption`):

* what each row operator does to a row, as lemmas (`EndedAsIsRow`,
  `LockedOntoIsRow`, `SettledIsRow`, `AutoResolvedIsRow`, `DecisionsAreRows`);
* `TypeCorrect`, by cases over the actions;
* `ClosedRoundDecided`, `UndecidedIsOver`, `StreakIsCounted`, `RoundsAreOrdered`,
  all from `Safe`. The invariants need each other and one thing more: a ride
  that exists is on a match (`RidesHaveMatches`, the NOT NULL of `match_id`).
  `RoundsInOrder` is the one that is not obvious: the gate looks only at the
  highest closed round, and that *everything* below an opened round is closed
  follows because it was so when the predecessor was opened. One lemma per
  action (`SafeOpen` ... `SafeDecide`) shows that it keeps `Safe`;
* `TerminalIsFinal`, an action property, from `TypeOK` alone.

`RideCommandProofs` (any number of requests, keys and connections):

* `ClaimedOnce` and `PromiseKept`, the refinement of `ExactlyOnce`. The
  inductive invariant adds to `ClaimedIffExecuted` that a claimant is alone
  under its key and the key has no committed row (`SingleFlight`), that the
  answer a request carries is that of the first execution (`FirstRun`), and
  that a request past its arrival knows its key (`Arrived`). `SingleFlight` is
  where the unique index enters: `Claim` waits for every other claimant.
* `PoolIsCounted`, which is `TypeOK`. The connections taken are the requests that
  hold a first one plus those that hold a second, counted as finite sets; a step
  changes the share of one request, and a count with nobody in it is zero, so a
  connection is never given back twice. No bound on the number of requests is
  needed, only that finitely many hold one.
* `StallsTakeThePool`, for any pool and any load. Where nobody can go on, a
  connection is wanted and none is left: if only keys were wanted somebody could
  go on, since a claimant never waits for a key. Whoever waits, for either, holds
  exactly one connection, and whoever holds two or has nothing left to acquire
  goes on; so all that are taken are in the hands of waiting requests, one each,
  and there are as many of those as connections. It follows that one connection
  more than requests makes a stall impossible; item 5 of section 6 shows that as
  many connections as requests are not enough.
* `AnswersAreBacked`, from the refinement: what any client has been told is the
  outcome of one committed execution of its request, and two answers under one
  key agree.

`RideServiceProofs` (any number of rides and of requests in flight, any schedule
under `ScheduleAssumption`, `NullAssumption` and `BoundAssumption`):

* `ServiceImplementsRules`, the refinement: each commit is one step of RideRules
  (or none, for a request that has written nothing), every other step of the
  service is invisible to it;
* `ServiceKeepsTheRules` and `ServiceKeepsDecisions`, which carry the theorems of
  RideRulesProofs over to the service (an instance of that module under the
  refinement): streaks and versions, decisions that are final, rounds in order;
* `UpdatesAreNotLost`, `GateAgrees`, `ClosedRoundStaysDecided`, `EndFollowsStart`,
  `SettledTogether`, `DecidersExclude`, `TypeCorrect`;
* of these `GateAgrees` says that the five checks of `rides_state_gate` pass for
  whatever a request has written over a committed row. The trigger reads the
  result in the match row the writing transaction sees, the settlement in what its
  own UPDATE returned; that they agree rests on the row lock, and the scores being
  there on the order of the two statements. The bonus of an unlocked ride is gone
  because every way to unlock drops it (`EndedAs`), and that of a lost one because
  none has accrued yet;
* `FreshRidesStayPlayable`: only continuations can strand (item 1 of section 6).
  Its invariant (`Punctual`) is about the clock: a creation that has passed its
  phase check is at most an hour old, so its match has not started, and a match
  that has not started is not being resolved. Matches whose start is edited are
  exempt;
* `NobodyStandsStill`: one of the requests in flight can always go on, without a
  deadline, although the model's detector looks for circles of two. Requests that
  are not auto-resolutions either wait for nobody, or for one that is about to
  commit, or for an auto-resolution. What two auto-resolutions visit are the
  undecided rides of two instants, and of those still undecided one of the two
  knows all the other knows (`Nested`, part of `Sweeps`): after the later one
  began, rides only left the earlier one's list, because a ride becomes undecided
  on a match that has just closed, and a close visits matches that were closed
  already (`VisitsClosed`). Take the one that holds a row and knows least: whoever
  keeps it waiting knows of everything it holds, and waits for it. `Sweeps` needs
  that only one round can hold undecided rides, which comes over from the rules
  (`Ordered`), and that finitely many requests are in flight, which is invariant.

The inductive invariant `IInv` says four things. Of every request by itself: what
its step implies of its fields (`Shape`). Of what it has written (`Written`): an
uncommitted row is what the command makes of the committed row *as it is now*.
Of what it has read: a ride or match it read either has a higher version or is
still the row it read (`ReadRide`, `ReadMatch`), and a round that is flipped and
not committed is still open, still the next one, and all its undecided rides are
held by the closing transaction (`ReadRound`). Of any two requests (`Apart`): they
hold no row together, and no create shares a round that another has flipped. It
is needed because none of the properties is inductive: that a commit is a step
of the rules depends on what the writer knew when it passed its guard, several
statements earlier. The tables need two facts more (`ClosedRoundIsOver`,
`ClosedHasEnded`): nothing undecided appears in a flipped round *because* its
matches are closed. One lemma per action shows that it keeps `IInv`; steps of a
single request go through `SessionStep`, steps that change tables through
`OthersStay`, which says what the other requests still know.

`RoundLifecycleProofs` (any number of operators, rows and rounds):

* `NothingGoesBack` and `TypeCorrect`, whatever operators renumber;
* `LiveRoundIsNext`, `SequenceStaysUnbroken` and `RoundsProgressInSequence`, of
  every schedule and every renumbering. The module remembers in `vacated` the
  numbers closed rounds were renumbered away from, and `NothingSkipped(n)` says
  that every number below n is closed or vacated: the gates leave no hole of their
  own, and every hole there is was made by such a renumbering (item 2 of section
  6). Until the first one, `vacated` is empty, and the theorems say what the
  migration's comment says: a live round is the immediate successor of all that
  is closed. Past its write a request holds its row and has passed the progress
  gate. What the gate saw stays true until its commit, since only the commit of
  another transition could change it; while nothing is vacated that one went for
  the same number, and the unique index lets one of the two enter (`Gated`,
  `OneNumber`, `AloneInIndex`). A commit that vacates a number adds it to
  `vacated`, so that what was passed stays passed (`Covered`, `LiveCovered`).

`CatalogueProofs` (any number of rows and requests; `AbsentAssumption` only says
that the marks for absent rows are no rows):

* `ReferencesAlwaysHold` is inductive with the types; `EditsAreOfWhatWasRead` and
  `OwnersOnly` need what a waiting request knows of its row (`Knows`): a row only
  moves on, one version at a time, and its owner never changes;
  `LiveSeasonStays` is about the time between the gate of a deletion, the
  cascade's look at the rounds and the commit: the season was not live when the
  gate looked (`SeasonDelete`), and every change of its status waits for the
  row the deletion holds. Without the lock (`NobodyWaits`) it is violated.

`AccountsProofs` (any number of users, tokens and requests, `RowAssumption`):

* `MailboxProved`, `SpentOnce`, `CleanedWithTheFlip`, `TypeCorrect`. The UPDATE of
  an activation does not look at the token any more. That the token is still
  there follows from the version (`Activating`): whoever deletes it is another
  activation of the same user, and raises the version.

`RateLimiterProofs` (any number of clients and callers, any positive rate and
burst, any sweep interval):

* `GrantsAsBuckets`, the refinement of TokenBucket, and `LimiterTypeCorrect`. A
  level below zero belongs to the call that holds the mutex (`Booked`). A bucket
  is refilled by time, and by nothing else but a silence of its client for longer
  than the sweep interval (`Forgive`): an evicted client starts again with a full
  bucket, however much it lacked. That a client which keeps asking is never evicted
  is the part that could go wrong, since the look at the clock that marks the
  client as seen and the reservation are two steps.
* `NeverFasterThanTheRate`, which is `BurstAndRate` for windows of any length. It
  is an account: what a bucket holds, and the token of a call whose outcome is
  open (`Credit`), is moved by a reservation, not raised by a cancellation or a
  new bucket, raised by one in a tick, by `Forgiven` at most in an eviction,
  and spent by a permission; so what a client got and still has is covered by
  what it started with, the refill, and what was forgiven (`Accounted`). Evictions
  of one client are more than an interval apart (`Spaced`). The token above
  the burst is that of a call that was half-way when the window opened.

`ServerProofs` (any number of requests and of attempts, `ServerAssumption`):

* `LadderIsCutShort`: a mail goes out at most once per attempt, and after the
  signal only what was on the network by then. A copy counts as soon as it is on
  the network, since the relay may deliver what the mailer takes for a failure; and
  a task that starts after the signal finds its context cancelled before it
  dials (`Mails`);
* `CleanExitIsClean`, `ServerTypeCorrect`, and
  `ServerGrantsAsBuckets`, which composes: every step of the server is a step of
  the limiter or invisible to it. A handler at work has a connection that is open
  or was cut by a forced close (`Connections`), so that after an orderly drain
  nobody is left who could start a task (`Waited`).

TLC checks the invariants of these theorems on the instances above
before the provers meet them, except those carried over from the rules and
`AnswersAreBacked`, which follow from refinements TLC checks. Only model-checked:
the liveness properties (`RequestsDrain`, `ShutdownEnds`, `NobodyLockedOut`),
which are out of the provers' reach because they rest on fairness. The safety
part of draining, that somebody can always take a step, is proved: `NoStandstill`
and `StallTakesThePool` state it by the guards of the actions, and that `Ready`
in RideService is the enabledness of `Progress` TLC has confirmed on the instance
of `ride_drain`.

## 5. What is not modelled, and why

* **Tokens and odds.** No command decides anything by them. The bonus account is
  carried in the rows as far as `rides_state_gate` asks for it: whether there is any.
* **Status codes and messages of refusals.** A refused request rolls back and
  ends; that it was refused, and when, is modelled, how it is told is not.
* **Refusals that are certain when the request starts** (a decision about a ride
  that is not `won_pending`, a resolution of a match that is not running): they
  write nothing and hold no row.
* **Postponed matches.** Postponed is
  `created` with another name for everything modelled. A PATCH cannot close a
  match: `validateMatchShape` asks for an end, which the PATCH cannot set.
* **A match whose teams change under its rides** in RideService (Catalogue has
  the PATCH, and section 6 what it means for rides).
* **More than one season for rides.** Catalogue creates and deletes seasons;
  RideService and RoundLifecycle live in one.
* **The closed states of rounds and matches in Catalogue**: its requests do not
  ask for them, and its gates only for what has started. `rounds_delete_gate` also
  refuses a round that is closed; Catalogue deletes such a round, if nothing in it
  has started, and so allows more than the code. RoundLifecycle has that half of
  the gate (`DeleteGate`).
* **A statement that outlives its cancelled request on the server** for the
  moment it takes PostgreSQL to notice: it still cannot commit.
* **Passwords and their hashes; roles and permission codes**, which are read-only:
  a protected request asks for activation in Accounts, for ownership or
  `players:write:any` in Catalogue.
* **Validation, listing, filters, configuration, logging, status codes and
  envelopes**: functions of one request, or I/O. What validation refuses before
  any statement is a guard of the action it protects.
* **The start of the process** before its listener is up, the templates and the
  SMTP dialogue of a mail.

## 6. Where the code and its comments disagree

1. *A stranded ride* (`ride_stranded`). The destination of a continuation is
   checked by an `EXISTS` that locks nothing. If the destination is resolved
   between that look and the commit, the ride is `locked` on a closed match: the
   resolution has not seen it. The round closes afterwards, which its gate allows
   (it cannot close earlier, while the ride is committed `won_pending` in it), and
   the close resolves `won_pending` rides only, so the ride is locked in a closed
   round for good. `rides_concurrency_test.go:564` calls that the forbidden third
   shape. It takes a team that plays twice in one round: a match is resolved in a
   live round, and another round is not live while this one is (unless item 2 made
   it so). `ClosedRoundIsDecided` holds all the same, because the ride is locked. Creations cannot strand a ride
   in this way (`FreshRidesStayPlayable`), although they do not lock their match
   either: the action phase ends an hour too early for it.
2. *A hole in the sequence* (`round_hole`). A closed round may be renumbered past
   itself: the gate compares its new number with the highest closed one, which is
   its own. Afterwards nothing is closed below it, although migration 000008 says
   that the sequence is unbroken and that renumbering is gated for that reason.
   With three rows and three numbers the same renumbering gives two live rounds:
   a round passes the gate for number 1 while nothing is closed, another closes
   as 1 and becomes 2, the first goes live as 1, and a third opens as 3.
   `SequenceUnbroken` and `OpenIsNext` say what is left of the promise.
3. *Un-starting a match* (`match_history`). The regression trigger of migration
   000001 compares statuses, and the gates take "started" from the start time as
   it is now. A PATCH of a match in progress may move its start into the future;
   the season can then be deleted, and the match goes with it.

Three more have a configuration of their own. The first contradicts a comment, but
takes one read and no interleaving; of the others no document says outright that
they must not occur:

4. *The phase of one match*: `PhaseForMatch` aggregates over `WHERE m.id = $1`
   (`matches.go:386`); the comments say over the round.
   `tlc -config MCRidePhase.cfg MCRideService`
5. *A stall*: as many commands as connections, each needing a second one, wait
   for their deadlines. `tlc -config MCPoolStall.cfg MCRideCommand`
   It is the only one there is (`StallTakesThePool`), and with one connection more
   than requests there is none.
6. *A live round in a season that has not started*: `Open`'s conditional flip can
   miss a season that is opened at the same time.
   `tlc -config MCRoundStart.cfg MCRoundLifecycle`

Met while modelling, and outside of what the properties are about:

* the answer of a resolution carries the `ended_at` the client sent, while the
  trigger of migration 000005 stores `now()` (`matches.go:468`);
* the comment on the mailer's jitter describes a wait in [0, backoff), the code
  waits in [backoff, 2 * backoff) (`mailer.go:128-131`);
* `createPlayerHandler` answers twice when the team vanishes between check and
  insert: 422, and then, for want of a return, 201 (`api/players.go:102-118`);
* a reservation that is cancelled after its time has come keeps its token
  (`ratelimiter.go:116-122`; the comment at 15-21 says a denial rolls it back).
  `TokenBucket` allows for it in `Deny`;
* no validation relates burst and rate to the eviction interval
  (`config.go:339-345`): with a rate low enough a client that keeps silent until
  its eviction gets a full bucket early. The model makes no assumption against it;
  `ImplementsBucket` and `BurstAndRate` say what it costs: at most `Forgiven` per
  interval, and nothing a client that keeps asking could gain;
* a PATCH of `starts_at` that commits between the gate of a season's deletion and
  its cascades is not seen by the gate: the match may have started by then, and is
  deleted with its season (the gate's look and the cascades are two steps in
  Catalogue);
* a mail started by a request that is drained after the signal finds its context
  cancelled and is not sent, although the request is answered 202;
* when Serve or Shutdown fails, the waits for tasks are skipped;
* refusals of deletions by a foreign key (`ErrRecordInUse` for a match,
  restricted players and seasons) are not mapped and end as 500;
* the teams of a match can be changed after rides were placed on it, and
  `createRideHandler` asks neither whether the team plays in the match nor whether
  the match is of the player's season.

## 7. Plan

Done: rules and ride service with their refinement proved, rounds, commands,
accounts, limiter and server, catalogue, each with its proofs; every invariant and
action property of the passing runs is a theorem. What is left:

1. The closed states of rounds and matches in Catalogue, so that the deletion of
   a match under its round's close is in one module with the rides' foreign key.
2. Rides of two seasons (`NextForTeam` does not ask for the season), if the
   schedule of a second season enters the program.
3. The bonus account, once a command reads it.
