# Verification of the bughouse.app server

TLA+ models, TLC runs and TLAPS proofs of the server in
`src/backend/web/src` (Rust, actix). Bughouse is chess for two teams of two on
two boards, so a game has four seats. The server keeps tables and running
games in memory, pairs seekers, runs clocks, records games and ratings in
ScyllaDB, and tells web clients over WebSockets.

All file names below are relative to `src/backend/web/src`, unless they start
with another directory of the repository.

## 1. Inventory

### Threads

`bin/main.rs` starts one `ServerHandler` actor on the main arbiter thread. It
handles every `ServerMessage` (`bughouse_server.rs:136-218`). Most handlers are
futures: they run to their next `.await` (a database query), let the thread go,
and continue later. So on this one thread many handlers are in flight and
their *sections* interleave; two sections never overlap. The two
`UserStateMessage` handlers (`GameUserHandler`, `SeekUserHandler`) run there too.

WebSocket actors (`bug_web_sock.rs`) run on the HTTP server's worker threads.
They call `make_move`, `add_seek`, `observe`, `unobserve`, `refresh` and
`on_close` directly, in true parallel with the arbiter, and queue everything
else with `try_send` into the arbiter's bounded mailbox.

### Components

| Component | State | Operations | What makes it correct | Module |
|---|---|---|---|---|
| Registry (`games.rs`, `game.rs`) | `games`, `user_games`; per game `players`, `start`, `result` | form_table, sit, vacate, start_game, start_new_game, make_move, end_game, rm_game, on_offline_user | links and seats agree, one seat per user, seats are not stolen, a result is final | `Games` |
| Message loop (`bughouse_server.rs`, `db.rs`) | mailbox, suspended futures, game locks, rows of `games` | the handlers of `ServerMessage` | uses the registry as it may be used, writes what it did, never waits for itself, removes games only once recorded | `BughouseServer` |
| Locks (all of the above and below) | who holds and wants which read-write lock | every call of the arbiter and of a socket | no circle of guards that are held and wanted | `Locks` |
| Clocks (`game.rs`, `schedule_check`) | `clocks`, `last_move_time`, pending timers | update_clocks, CheckGame, end_game | flags fall, in time, for the player who is out of time | `GameClock` |
| Seek queues (`seeks/`) | `user_seeks`, `pod_queues` | add_seeker, form_game, clean_user | no match missed, nobody matched twice or after leaving | `Seeks` |
| Observers (`observers.rs`) | `observer_to_games`, `game_to_observers` | observe, unobserve, remove_recipient, notify | whoever is on record is notified | `Observers` (specification), `Broadcast` |
| Updates (`games.rs:344-403`, `send_to_user`, snapshots) | mailboxes of sockets, what clients were told | notify_game_observers, observe, refresh | no announced change is lost, seats are announced in order | `Broadcast` |
| Connections (`connection_mgr.rs`) | `conns`, `user_conns`, `subs` | add_conn, on_close, send_to_user, sub/unsub_online_players | the two maps agree, absence is reported, the list of online players is current | `Connections` |
| Accounts (`db.rs`, `users.rs`) | tables `users`, `handles`, `firebase_users`; caches | first login, set_handle | one user per firebase id, every handle registered, cache equals table | `Accounts` |
| Row of a game (`db.rs`, `game_row.rs`, the client's `AnalysisState.js`) | columns `moves`, `result`, `user_games.result` | record_move, record_game_result, replay | a replay shows moves of the game, in the order of their stamps, and misses none without a reason; the result reads back; the list of past games agrees | `GameRow` |
| Encodings (`b66.rs`, `game_row.rs`, `players.rs`, `time_control.rs`) | none | encode, decode | decode inverts encode | `Encodings` |
| Past games (`graphql/`, `UserGames.react.js`) | none | get_chunk, paging, scores | no game missed or shown twice | `UserGames` |
| Ratings (`rating.rs`) | none | who wins (`Winners`); the formula | see docs/ratings.md | `Encodings`, the formula not modelled |
| Lists of tables and current games (`subscriptions.rs`, `games.rs:460-588`) | sets of recipients | sub, unsub, notify | lists follow the registry | only their locks, in `Locks` |
| firebase, guest names, chess rules, HTTP, most of the web client | | | | not modelled |

### How they interact

* `add_seek` (socket thread) calls `Seeks`; a full pod goes to the arbiter as
  `CreateGame`, which calls `Games::start_new_game`.
* `make_move` (socket thread) calls `Games::make_move` and sends `RecordMove`
  and `CheckGame`; both may find that the game is over and record it.
* `on_close` (socket thread) calls `Observers::remove_recipient` and
  `ConnectionMgr::on_close`; when a user's last connection goes, an `Offline`
  message makes `Games` and `Seeks` drop him.
* `vacate` (arbiter) makes the user an observer of the table he left.
* Whoever changes a game announces it afterwards, on his own thread: the game is
  changed under its write lock, copied under a read guard of its own
  (`GameJson::new`), and sent under another (`notify_game_observers`) to the
  mailboxes of the players' connections and of the observers. Only `update_seats`
  holds a guard over all of that.
* `add_conn` and `remove_conn` tell the subscribers of the online list, under
  the lock of `user_conns`.
* `update_seats`, `db.start_game` and `db.record_game_result` keep the read
  guard of their game's lock while they wait for the database.

### What is hard

Interleaving of sections at awaits; state tested before an await and used
after it; locks held across awaits on a single thread; two locks taken in turn
where one would be needed; results found by two parties; queries that fail
half way; a mailbox that is full; a reply that overtakes what waits in a
mailbox; a dozen locks nested in many orders on many threads; a timer chain
whose timers are never cancelled; a server that forgets all games when it
stops. `PROJECT.json` lists each hazard at its line.

## 2. Modules

**Games** is the specification of the registry: one action per method, any
caller, any order. The only restrictions are what every caller establishes
first. Times are reduced to `start` in None / Pending / Reached; boards and
clocks to the choice whether a move mates. Seats are a set, of four in the
code and two in the instances: no rule of the registry speaks of a third one.

**BughouseServer** is the system. It instantiates Games on its own variables
and calls Games' actions from its handlers, so the refinement mapping is the
identity, and `ImplementsGames == G!Spec` says that every section is a step of
the registry or leaves it alone. This is not for free: `EndGame`, `RmGame`,
`StartGame` and `StartNewGame` have guards in Games that the server code never
tests, but must have established sections earlier.
A slot of `Task` is a queued message or a suspended future, with its stage, and
what it remembers across the await. The stages with a pending query under the
read guard are `GuardStages`. If a section needs the write lock of a game whose
guard another future holds, the arbiter blocks for ever (`Wedge`), since the
guard can be released by no other thread. A `CheckGame` handler is two steps
because a mate on a socket thread may come between its two lock scopes; no
other arbiter section runs in between (`ArbiterFree`). Failing queries and full
mailboxes are switched on by `Faults`. A query that fails ends its future, but for
those whose failure the code only logs: the batches of `record_ratings`
(db.rs:547-569) and of `record_game_result`, and `record_move`; the future then goes
on as if nothing had happened. `record_game_result` may also stop between its two
queries (`ResultHalfDone`). A panic in it (empty seat) ends that future and nothing
else. What readers do while a writer waits is not modelled: where they queue behind
it there are further deadlocks (section 5).

**GameClock** counts time in ticks for one full game: `update_clocks`, the timers
(`checks`, a set of due times; never cancelled), the two sections of the flag
handler, moves and refreshes by sockets. That a due message is late is bounded
by `Late`.

**Seeks** models `user_seeks` and the pod queues at the grain of their locks: a
call is a `job` whose steps are the critical sections. `add_seeker` is one step,
as it holds `user_seeks` throughout. All constraints are the default. A filtered
queue is defined by the ranks of the pods it keeps (`At`), as in GameRow a replay
is by the ranks of its keys (`Rank`): the provers can follow ranks, and neither a
recursive selection nor a sort. The set of threads is finite; one of them, the
arbiter, removes users and adds none.

**Observers** is what the registry of observers promises: who is on record for a
game is notified. **Broadcast** is how it is done, and more: both maps section by
section, the changes of a game by sockets and futures, mailboxes of bounded size,
logins, and the snapshots of `observe` and `refresh`, which refresh the clocks of the
game, do not announce that, and do not pass through the mailbox. An announcement has
the sections of the code: the change, the copy (`MakeUpdate`), the guard
(`BeginNotify`), each player's connections (`SendToUser`), the observers
(`NotifyObservers`). What an update says is the version of the game that was copied
(`version`, one more with each change), which may be old by the time it is sent.
`news` is the last change that watchers are to hear of; `told` and `excused` say who
has been sent it, and who has not, for a reason that the code admits. The query of
`update_seats` runs under its guard and may fail, after which nothing is announced.
`ImplementsObservers` is the refinement, with `recipients` joined by the connection
that is between the two maps.

**Connections** has `conns`, `user_conns`, the closing of sockets in its three
sections, `send_to_user`'s own removals, the Offline messages, and the list of
online players: subscribers, their mailboxes, and the set that the client of
`UsersProvider.js` shows. Only the connections in `Viewer` look at the list. The
heartbeat is one of the reasons for which a socket may close at any time.

**Locks** has nothing but locks. Each call is a script: a sequence of steps, each
with the guard (mode and lock) that it wants and the guards that are still held
then, in the order of the code and nested as its scopes are (`Under`). The only
variable is what is left of each thread's call. `NoCircleOfGuards` says that no set of
threads has each of them kept from its next lock by a guard that one of the set, perhaps
itself, holds. Which of the threads that could have a lock gets it is left open: a lock
that prefers writers takes steps away and adds none, but it also makes readers wait for
threads that hold nothing, and of those circles nothing is said. To keep the scripts
short, a guard is dropped as the last step in its scope is taken; the objects of all
users are one lock, and the queues of all pools; where the code may return early the
script is the longest path, which asks for all the locks of the others in the same
order. A loop over the map of games repeats its body for each (`EachGame`).

**Accounts** models first login and change of handle query by query, with
failures at each query and restarts of the server. The uuid of a user is
fresh; its default handle, of a few words or bits of the uuid (db.rs:140-144), is any
handle at all, also one that somebody has.

**Encodings** has the numbers: ids in base 66, moves as 16 bits, keys of moves as
32, results, the widths of the time control, seats, partners and winners. Fields
that the code joins with `|` and `<<` do not overlap, so the model adds.

**GameRow** uses them: moves are made on two boards, stamped with the clock
*after* they were made, as late as their threads come to it, queued, written or lost;
the result is written, in two queries, to the row of the game and to the rows of
`user_games`, by as many futures as record the game; the server crashes. `stamps`
remembers the time that each move's message carried. What is in the row is compared
with what was played by the client's own replay (`AnalysisState.formMoves`), which
sorts keys and validates nothing.

**UserGames** has the pages of a user's past games and what the client makes of
them, as operators on the set of rows.

The modules **...Proofs** hold the proofs; **MC...** the instances.
Definitions called *Mutant* are bugs on purpose: each property of a passing run
is broken by one, which `PROJECT.json` names.

## 3. Runs

| Run | Asks | Bounds | States |
|---|---|---|---|
| games | seats, links and results under the most general caller | 3 users (1 guest), 2 games, 2 seats | |
| server_faults | refinement of Games, recording before removal, rows that match seats, under all requests and faults | 2 users, 1 game, 2 slots | 686,599 |
| server_seeks | no self-deadlock, decided games are removed (fair) | 2 users, 2 games, 2 slots; tables, seeks and moves | 337,145 |
| server_wedge | **violated**: the arbiter never waits for itself | 2 users, 1 game | |
| seeks_patient | queues complete, matches not missed or repeated, pods without leavers | 4 users, 1 pool, pods of 2, 2 seeks each, two socket threads and the arbiter | 1,762,205 |
| clock_no_increment | flags in time, for the right player, games end (fair) | 4 ticks per player, 4 moves | |
| clock_increment_no_flag | **violated**: games end | 2 ticks, increment 1, no moves | |
| connections_patient | maps agree, absence is reported (fair), the online list is current | 2 users, 4 connections, 3 of one user; mailboxes of 2 | 125,539 |
| accounts_careful | one user per id, handles registered, cache equals table | 2 ids, 3 uuids, 2 handles, 2 requests | 3,347 |
| broadcast | no announced change lost, seats in order, refinement of Observers | 2 users with a connection each, who may log in over it or watch without, 1 game of 3 versions, 1 future of the arbiter, mailboxes of 2 | 2,144,778 |
| locks | no circle of guards | 2 sockets and the arbiter, any calls; 1 game | 1,169,568 |
| game_row | replay, completeness and result of a row, and the result in `user_games` | 2 boards, 3 moves on both together, 2 milliseconds, 2 moves that are hard to encode; also `ShortIds`, `PagesShowAll` | 1,676,736 |

Why the bounds are enough: the hazards are races of two parties over one game
or one user, so two slots, two users, and a second game or pool to escape to
show them; mutants with exactly such bugs are all found. Two seats have both
interesting cases, a table with a free seat and a full one. In `seeks_patient`, pods
of 2 with four users leave two groups to be formed at once by two threads, while the
arbiter removes a third user; a user waits in one pool at a time, and the theorems hold
for any number of pools. A
mailbox of 2 can be empty, in use, and full. `locks` also holds for one socket
and two games (not kept as a run); three threads are what a circle through a
socket, another and the arbiter needs. Three moves on two boards in two milliseconds
have keys of one board that are equal, in order and out of order.
Counters that would grow for ever are bounded by constants: slots (`Task`),
`RatingCap`, `MaxSeeks`, `MaxMoves`, `MaxClock`, `MaxVersion`, `MaxMs`,
`MailboxSize`; each module says what it bounds. Most systems here may stop,
since ids are used up and clients owe nothing, and their configurations switch
the deadlock check off; Accounts can always restart, and in `locks` the check is
on, so that a thread that waits for ever alone is found too.

`GameClock`, `Locks` and `Accounts` state no type invariant, since their other
properties break as soon as a type does. The refinement of Games with two games is
covered by a theorem, for all sizes.

### Preconditions on clients

Some properties hold only of clients that do not race with themselves, because
the code does not protect itself. These are constants, not silent guards, and the
comment of each property that rests on one says so:
`Seeks.Patient` (a user does not seek again while a call is removing him; for
`PodUsersWait` and `QueueIsComplete`),
`Connections.Patient` (a socket does not close in the middle of its login; for
`MapsAgree`, `ListIsCurrent` and `AbsenceIsReported`),
`Connections.Settled` (a client does not subscribe to the online list anew while
a change from its last subscription waits in its mailbox; for `ListIsCurrent`),
`Accounts.Careful` (no two requests at a time for one user or firebase id, whatever
handle they ask for; for `OneUserPerFid` and `CacheAgrees`), `Observers.Inexact`
(clients may name a game they do not observe) and `Observers.Vacating`, both TRUE in
the refinement. Without them the properties fail; see Disagreements.

What would need a condition that takes its own hazard away is not claimed: that a user
who "already seeks" has a pod, that the `expect` of `on_close` never fails, that a handle
stays with its owner, that rows replay in the order of play, that the newest state is
sent last, and that readers never wait for ever. All of them are false of the code, and
listed in section 5.

### Fairness

Weak fairness of what the executor and the threads do once it can be done: a
suspended future continues after its query (`TaskStep`), a queued message is
handled (`FlagGame`, `CheckGameIdle`, `HandleOffline`, `CheckGame`, `EndGame`),
time passes (`Tick`), a closing socket goes on closing. Clients owe nothing: no
fairness on moves, logins or requests. The database is assumed to answer where a
liveness property is checked (`Faults = {}`).

## 4. Proofs

*Registry* (`GamesProofs`), for all finite or infinite sets of users, games and seats,
from `GamesAssumption` alone: `GamesInvariant` proves `IInv == TypeOK /\ OneSeatPerTable
/\ LinkedIsSeated` inductive. `LinkedIsSeated` (an entry of `user_games` leads to a live
game where the user sits) does not follow by itself: vacating empties *one* seat and
deletes *one* link, and if a user could sit twice, or a seat hold somebody whose link
says so elsewhere, the two would part. With it proved, the `unwrap` in `get_user_game`
(games.rs:454) and the "impossible" case of `on_offline_user` (games.rs:614) are safe
for every caller that uses the registry as Games does, and `ImplementsGames` (below)
says that the server is such a caller. `ResultIsFinalTheorem` needs
no invariant beyond the types. `SeatsFallEmptyFirstTheorem` (who sits is put out of his
seat by nobody else: the step that clears it takes his link away and nobody else's, or
gives him another seat of the table) rests on the whole of it.

*Server* (`BughouseServerProofs`), for all sets, all requests and every fault:
`ServerInvariant` proves `SInv` inductive. Its heart is `Fits`: what a future that
waits for the database may still rely on when it goes on. An id reserved for a
new game is used by nobody else (`NewIdsDiffer`); a future that holds a guard finds
the seats it is writing; a future that records a game finds a result; one that
updates ratings finds that result in the row. (That the tables of ratings have heard of
them is not claimed: a batch that fails is only logged.) From it follow
`ImplementsGamesTheorem` (the refinement, action by action: each section of the
server is one method of the registry whose guard `SInv` establishes, or leaves it
alone), `RemovedIsRecordedTheorem`, `RowWritesAreCurrentTheorem` and
`StartedRowMatchesTheorem`. `ServerKeepsGames` puts the two together: the server
inherits the invariants of the registry, and `SeatsFallEmptyFirst`.
`NeverWedgedTheorem` gives a reason for which the arbiter does not wait for itself:
if clients neither sit nor vacate (`NobodySits`: tables are formed and left by
going offline, games come from the seek queues), a read guard is held across a query
only for a game that is full and has a result, and no section writes to such a game
before it is removed (`FreeInv`). The run server_wedge shows that the condition is
needed.

*Observers* (`BroadcastProofs`): `NotifiedTheorem`, for any clients, that an
observer on record is in the list of its game. `ExactTheorem`, the converse,
assumes exact clients and no vacating: it is what the code achieves when none
of the disagreements below applies.

*Updates* (`BroadcastProofs`): `Ordered` says that an update, in a mailbox or still to be
sent, tells a version that the game has reached, and that the one of `update_seats` tells
the present one as long as its guard is held; from this follows `SeatsInOrderTheorem`.
Of other updates nothing of the kind is true, since they are copied under one guard and
sent under another. `ImplementsObserversTheorem` is the refinement, and
`ObserverIsNotifiedTheorem` its consequence. `NobodyIsForgottenTheorem` is about the
whole of an announcement: whoever watches a game has been sent its last announced change,
or a later state, or there is an actor who will (`WillTell`), until he is excused. It is
inductive with `Ordered`; the cases that need an argument are those in which the one who
would have told somebody cannot any more: a player who leaves between the copy and the
guard is told as an observer, an observer who sits down is told by his own `update_seats`, a
newer change takes over the duty from an older one, and a copy that is older than `news`
settles nothing. There is no condition on clients, threads or sizes.

*Connections* (`UsersProofs`, first part), for patient and settled clients: `CInv` says of
every connection where it is filed at each stage of its login and its closing
(`Filed`), and of every subscriber that the list he shows, with the changes in his
mailbox applied, is who is online (`Told`, in terms of the last change in the
mailbox for each user). Theorems: `MapsAgreeTheorem`, `ListIsCurrentTheorem`.

*Accounts* (`UsersProofs`, second part), for careful clients: `AInv` says, for each stage of
a request, what it has found or left in the three tables (`Fits`): a user who is being
made has an id that no row has, and a request that is past the row of a user has only
the memory left to change. No two requests are about the same id or user (`Distinct`).
Theorems: `OneUserPerFidTheorem`, `CacheAgreesTheorem`. They hold through failures of
any query and restarts between any two. `HandleRegisteredTheorem` has an invariant of
its own (`HInv`) and no condition: whatever is asked for, and whatever default handles
are made, the handle in a row of `users` is registered, to whomever.

*Clocks* (`GameClockProofs`), for any number of ticks and any lateness: `CInv` says
that in a running game each board has a pending check that is due when the clock of
the player to move is empty (`Guarded`), give or take the delay of earlier messages,
unless the handler is between its sections; so the clocks are overdrawn by no more than
those delays (`Overdraft`). `FlagsInTimeTheorem` holds with any increment: what an
increment delays is the end of the game, by filling the clock again (section 5, 2.).
`LoserIsOutOfTimeTheorem` needs `Inc = 0`; `ResultIsFinalTheorem` needs nothing.

*Locks* (`LocksProofs`), for any numbers of sockets and games:
`NoCircleOfGuardsTheorem`. No order of
the locks explains it, since calls take `user_games` under `games` and `games` under
`user_games`, and a game under a user and a user under a game. But most of these
guards are read guards, which keep out writers only. So it is the pairs of mode and
lock that are ordered: `Level` gives each one of ten levels, such that every step of
every call is `InOrder`, that is, whoever a guard held keeps out wants a guard of a
lower level than the one that is wanted now. For example, a game is read under a read
guard of `games`, and `games` under one of `user_games`; writers of `games` (level 3)
and of `user_games` (5) wait under no guard that keeps those readers out. The
invariant, `StepsInOrder`, is that what is left of each call is in order; there is a
lemma for each script that says above which level it stays (`Rising`), and so under
which guards it may stand. Whoever is kept out by a thread that is kept out itself then
wants a guard of a lower level than that one, so a circle would need an eleventh level.
`SomebodyIsFreeTheorem` is the consequence: while any call is under way, some thread is
kept from its next lock by no guard. A lock that prefers writers may still not give it
to him (section 5).

*Seek queues* (`SeeksProofs`), for any finite set of threads: `SeeksTypeOK` and
`MatchesPerSeekTheorem` hold without any assumption on users. For the latter every
seek pays for one match by each thread (`MatchesFit`): where pods name a user, every
thread may still match him once, and the first that does strikes his pods, after
which only those that had found one of them may (`Late`). `PodUsersWaitTheorem`
assumes `Patient`; `QInv` adds what each step of a job relies on (`JobFits`): the
users it is about to remove, the pod it has found, the pools it has still to clean.
`EveryGroupOnceTheorem`, for patient users too, is the half of `QueueIsComplete` that
holds for any number of threads: each group of a queue's seekers that fits into a game is
there once and nothing else is (`Grouped`; `add_new_pods` and `retain` keep it), so that
whenever enough users wait there is a full pod to be found. That too few of them are left
waiting is checked by TLC for two socket threads; with three it is false (section 5).

*Encodings* (`GameRowProofs`): every move, key and result reads back, in the server
and in the client; winners are partners; increments over 32 seconds wrap around.

*Row* (`GameRowProofs`): all that is written fits its column (`RowTypeOK`), a
result in the row is the game's (`ResultReadsBackTheorem`), and the list of past
games shows no result that the row does not have (`UserListAgreesTheorem`): the
row is written first, by every future (`RowIsAhead`). `RowReplaysTheorem` and
`RowIsCompleteTheorem` hold of threads that read the clock as late as they like: the
client replays moves of the board, none twice, in the order of their stamps, and a move
is missing only if it is on its way, was lost, or shares its stamp with another one. The
invariant (`RowExplained`) is that each key of the row is that of a stamped move and has
its number (`KeysAreOfStamps`), and that each move is unstamped, on its way, lost, or has
its key in the row (`Accounted`). `PlayedInOrderTheorem` says when that order is the one
of play: whenever the stamps are in the order of the moves (`StampedInOrder`).

*Past games* (`GameRowProofs`): the next page continues where the last one
stopped, if no two games of a user start in the same millisecond; a page without
`has_more` is the last; the score shown is that of the winners.

The type invariants of Games, BughouseServer, Broadcast, Connections, Seeks and GameRow
are parts of these inductive invariants, and theorems of their own.

Not proved, checked by TLC only: liveness (`DecidedIsRemoved`, `GameEnds`,
`AbsenceIsReported`: out of the prover's reach), and two assumptions of the instances
about functions of data: `ShortIds`, a recursion on digits, and `PagesShowAll`, an
induction on pages; and of `QueueIsComplete` that too few users are left waiting. All
other invariants and action properties of the passing runs are theorems.

## 5. Disagreements between code and documents

Two are runs that TLC shows violated (`findings` in `PROJECT.json`):

1. **The arbiter can wait for itself** (bughouse_server.rs:594). `update_seats`
   holds the game's read guard across its query; a second `sit` or `vacate` on
   that table calls `write()` on the same thread.
2. **With an increment, flags do not fall** (game.rs:256). The check that comes
   when a clock should be empty first adds the increment to it.

The others were met while modelling. They are why some properties above are
stated with preconditions, or not at all:

* A finished game is recorded, and rated, once per `RecordMove` that finds a
  result, and once by the timer (bughouse_server.rs:734, :207), against "Your
  new rating = (pregame rating) + ..." (docs/ratings.md:66).
* Guests get rated games from the seek queue (bughouse_server.rs:342), against
  "Can't create rated game as guest" (error.rs:93).
* A player may vacate a seat of a running game (games.rs:191). A game formed as
  public is then listed as a public table again, against db.rs:750; recording
  its result panics, and it is never removed.
* Two quick requests for a table get a user two (bughouse_server.rs:654),
  against "User {0} is in game already" (error.rs:78); the second stays in
  the registry with a seat that no link leads to.
* Seeking again while one's old pods are being removed leaves an entry without
  pods: "User already seeking" (error.rs:54) for ever (seeks/seeks.rs:81). TLC finds
  it for `SeekerHasPod` with `Patient = FALSE`.
* `unobserve` of another game than the observed one leaves the connection
  listed there (observers.rs:61), against "You can observe one game at a time"
  (observers.rs:37); it is then told of both.
* A request for a game gives the players to move their increment (game.rs:256).
* A socket that closes within the first `add_conn` of its user makes `on_close`
  panic (bughouse_server.rs:927), since `add_conn` enters `conns` before
  `user_conns`; one that closes before leaves a ghost. In `Connections` with
  `Patient = FALSE` the variable `panicked` becomes true.
* `insert_handle` ignores whether `IF NOT EXISTS` was applied, so a taken handle
  can be taken again (db.rs:163-171), against "Don't let people "steal" recently
  abandoned handles" (db.rs:169), and two default handles may be the same; the
  same for firebase_users (db.rs:135), which may name a uuid without a user.
* Concurrent first logins of one firebase id make two users, and two logins of
  a known one leave two `User` objects in memory, of which a running game may
  hold the stale one (users.rs:93).
* An `Offline` message handled after the user has come back costs him his seat.
* With an `RwLock` that prefers waiting writers the server can deadlock:
  `notify_game_observers` reads a game again in `get_player_set` while it holds a
  read guard of it (games.rs:349 and 389), and a `make_move` whose `write()` comes
  between the two waits for the first guard while the second waits for it; `add_seek`
  holds the read guard of the user and reads him again in `add_seeker`. Rust's
  standard library has preferred writers on Linux since 1.62; the Dockerfile
  (`FROM rust`) does not pin a version.
* A game is copied (games.rs:399) before the guard under which it is announced
  (games.rs:349). Of two moves on two boards, or a move and the timer's
  announcement of the clocks, the older state may be sent last, and clients believe
  whatever comes last, until the next change.
* When the query of `update_seats` fails (bughouse_server.rs:596), the change of
  seats is not announced. An update for a full mailbox is dropped. In both cases it
  takes the next announced change.
* A client that logs in while the game it observes is announced can miss the
  change (observers.rs:91): `notify` leaves it to `send_to_user`, which does not
  know it yet; and nobody tells the new connection of a player about his game.
* A request for a game refreshes its clocks (bughouse_server.rs:915) and tells
  only the one who asked. His snapshot may overtake older updates in the mailbox,
  and the client goes back to the old state until the next one.
* A client that leaves and re-enters the online list at once can apply an old
  change to the new list (`Connections` with `Settled = FALSE`). A subscriber with
  a full mailbox is struck and not told. `send_to_user` takes a user offline
  without telling subscribers until `on_close` does.
* The server reads the clock for the row after the move was made and announced
  (bughouse_server.rs:786). The answer to a move, on another thread, may be
  stamped first, and the row then replays the two in the wrong order (TLC finds it
  for `PlayedInOrder`); two moves of a board in one millisecond have
  one key, and one of them is lost. AnalysisState.js:6 says that it "Does NOT have to
  concern itself with validating moves. The server has already done that."
* Moves remain possible on the other board after a game is over, until it is
  removed. A game whose server stopped keeps the result -1 for ever, and the list
  of past games shows -1 as a mate won by black on the second board.
* Games from the seek queue never get rows in `user_games` from `create_game`, but
  their result is written there by UPDATE, which in CQL makes rows without players
  (db.rs:474-516); `get_chunk` fails on such a row (`row?`), and with it the user's
  list. The same happens when `start_game`'s insert fails, which is only logged.
* Pages of newer games (`before`) are the newest ones, not the nearest; games that
  start in the same millisecond as the last one of a page are skipped; `first: 0`
  says that there are no more.
* Three socket threads that overlap in the seek queues can miss a match, and a seek can
  be matched once by each of two overlapping threads.
* Two `record_game` futures of one game may both update the ratings, the second
  from what the first has made of them; `record_ratings` logs a failed batch
  (db.rs:547-569), after which the users in memory get their ratings, the tables do
  not, and the game is removed.
* `is_current` is off by one (games.rs:480); a rehash of the map may change which
  games are the first ten; `notify_current_subs` makes its list under one guard and
  sends it under another, so that an old list may come last; `start_new_game` does
  not notify it at all, and the client then updates a game that it does not have
  (GameStatusSource.js:46).
* `get_inc_ms` wraps around at 33 seconds (time_control.rs:28), `to_move_key` after
  twelve days. `decode_num` checks its multiplication and not its addition
  (b66.rs:58), so that a string that is too long may name a game.
* The comment of rating.rs at `P` speaks of 400^2; the constant, like
  docs/ratings.md, is that of 800^2.

## 6. Not modelled, and why

The rating formula: floating point; who wins and when ratings are applied are
modelled. Chess rules: the `bughouse` crate is a git dependency that the
repository does not contain. JSON, logging, HTTP set-up and the GraphQL queries
for single objects: no state. Firebase: an external process; both its answers are
actions. Guest handles: two words chosen by the bits of the id; the lists of
words are 27,290 of the 33,984 lines under `backend`, so that about a fifth of
the lines is all that a model can stand for. The lists of public tables and of
current games: their contents depend on the order of a `HashMap`; their locks are
in Locks. Pods with seek constraints: no caller sets any. The web client: only
where it gives meaning to what the server sends. The login, game_msg and rating
messages to clients: no property is about them. The i32 of a clock is unbounded
in GameClock. A `User` object has no identity in Accounts. A subscriber who
subscribes again between the two guards of `notify_online_subs` is left out.

## 7. Plan

Done: the registry, the server on top of it, the components on their own locks,
the lock order, updates and lists, the row of a game and the encodings, with proofs
of all their invariants. Next:

1. *Locks whose writers go first*: the nested reads of games.rs:349 and of `add_seek`
   would have to go first; then waiting writers can be added to Locks, and the levels of
   `LocksProofs` extended to readers that wait behind them.
2. *User objects*: identity of `Arc<User>` in Accounts and the ratings that reach
   a stale one; the rating update itself in integers.
3. *Rows of user_games* by player: what a failed insert and the later UPDATE leave.
4. *Lists* of public tables and current games, with the order of the map as a
   choice.
