--------------------------- MODULE BughouseServer ---------------------------
(***************************************************************************)
(* The server as a whole: ServerHandler and BughouseServer                 *)
(* (bughouse_server.rs) on top of the registry of module Games, with the   *)
(* rows that db.rs writes.                                                 *)
(*                                                                         *)
(* One arbiter thread runs every ServerMessage handler and the user-state  *)
(* handlers.  A handler is a future: it gives the thread away at each      *)
(* database call, so many are in flight and their sections interleave.     *)
(* Socket threads call make_move concurrently with all of that.            *)
(*                                                                         *)
(* update_seats, db.start_game and db.record_game_result hold the read     *)
(* guard of their game across the database call.  Any other section of     *)
(* the arbiter that asks for the write lock of the same game meanwhile     *)
(* blocks the one thread that could ever release that guard: wedged.       *)
(* Readers are assumed never to queue behind a waiting writer.             *)
(***************************************************************************)
EXTENDS Naturals

CONSTANTS
  User, Guest, GameID, Seat, HostSeat, NoUser, NoGame,  \* as in Games
  Task,       \* slots for queued messages and suspended futures; the bound
              \* on the mailbox and on concurrency
  Requests,   \* the kinds of requests that clients make
  Faults,     \* "db": queries may fail; "mailbox": try_send may fail
  RatingCap   \* bound on the count of rating updates per game

VARIABLES
  life, players, userGames, rated, start, result,  \* as in Games
  task,        \* what each slot is doing
  armed,       \* armed[g]: a CheckGame for g is queued or timed
  wedged,      \* the arbiter thread waits for a lock for ever
  rowPlayers,  \* column players of table games
  rowResult,   \* column result of table games ("None" is -1)
  rateCount    \* how often the ratings of g's players were updated, in memory

G == INSTANCE Games

ASSUME ServerAssumption ==
  /\ G!GamesAssumption
  /\ Seat # {HostSeat}
  /\ Requests \subseteq {"form", "sit", "vacate", "seek", "move", "offline"}
  /\ Faults \subseteq {"db", "mailbox"}
  /\ RatingCap \in Nat

gameVars == <<life, players, userGames, rated, start, result>>
rowVars  == <<rowPlayers, rowResult, rateCount>>
vars     == <<gameVars, task, armed, wedged, rowVars>>

\* The read guard of the game is held while a future is in these stages.
GuardStages == {"sitDb", "vacateDb", "startDb", "resultDb"}
Stages == GuardStages \cup
  {"idle", "form", "formDb", "sit", "vacate", "create", "createDb",
   "recordMove", "checkGame", "recordGame", "ratingsDb"}

\* stage, requesting user, game, seat, rated flag and players (a lineup to
\* create a game for, or the snapshot that a query writes).
TaskState ==
  [stage : Stages, u : User \cup {NoUser}, g : GameID \cup {NoGame},
   s : Seat, r : BOOLEAN, p : [Seat -> User \cup {NoUser}]]

Idle == [stage |-> "idle", u |-> NoUser, g |-> NoGame, s |-> HostSeat,
         r |-> FALSE, p |-> G!EmptySeats]

ReadGuarded(g) == \E t \in Task : /\ task[t].stage \in GuardStages
                                  /\ task[t].g = g

\* Another future than t's own holds the guard.
GuardedByOther(g, t) == \E o \in Task \ {t} : /\ task[o].stage \in GuardStages
                                              /\ task[o].g = g

\* An id that no game has and no query is about to give to one.
Fresh(g) == /\ life[g] = "unborn"
            /\ \A t \in Task : task[t].g # g

-----------------------------------------------------------------------------
(* Steps of a slot *)

\* The arbiter runs one section at a time, and CheckGame's takes two steps.
ArbiterFree == ~wedged /\ \A t \in Task : task[t].stage # "checkGame"

\* A message is queued, if a slot is free; try_send fails otherwise.
Enqueue(m) == \E t \in Task : /\ task[t].stage = "idle"
                              /\ task' = [task EXCEPT ![t] = m]

\* Mutant: the slot keeps what the message carried.
FinishDirty(t) == task' = [task EXCEPT ![t].stage = "idle"]

Goto(t, stage) == task' = [task EXCEPT ![t].stage = stage]
Finish(t)      == task' = [task EXCEPT ![t] = Idle]

At(t, stage) == ArbiterFree /\ task[t].stage = stage

\* The arbiter blocks on the write lock of a game whose guard is held.
Wedge == /\ wedged' = TRUE
         /\ UNCHANGED <<task, armed, rowVars>>

Init ==
  /\ G!Init
  /\ task = [t \in Task |-> Idle]
  /\ armed = [g \in GameID |-> FALSE]
  /\ wedged = FALSE
  /\ rowPlayers = [g \in GameID |-> G!EmptySeats]
  /\ rowResult = [g \in GameID |-> "None"]
  /\ rateCount = [g \in GameID |-> 0]

-----------------------------------------------------------------------------
(* Socket threads: requests *)

\* queue_formation, queue_sit and queue_vacate.
QueueFormation(u, r) ==
  /\ "form" \in Requests
  /\ Enqueue([Idle EXCEPT !.stage = "form", !.u = u, !.r = r])
  /\ UNCHANGED <<gameVars, armed, wedged, rowVars>>

QueueSit(u, g, s) ==
  /\ "sit" \in Requests
  /\ life[g] # "unborn"
  /\ Enqueue([Idle EXCEPT !.stage = "sit", !.u = u, !.g = g, !.s = s])
  /\ UNCHANGED <<gameVars, armed, wedged, rowVars>>

QueueVacate(u, g, s) ==
  /\ "vacate" \in Requests
  /\ life[g] # "unborn"
  /\ Enqueue([Idle EXCEPT !.stage = "vacate", !.u = u, !.g = g, !.s = s])
  /\ UNCHANGED <<gameVars, armed, wedged, rowVars>>

\* add_seek when it completes a pod: CreateGame for the pod's players.
\* Guests may seek rated games, and a seeker may have sat down elsewhere
\* since he joined the queue.
SeekFormsGame(p, r) ==
  /\ "seek" \in Requests
  /\ Enqueue([Idle EXCEPT !.stage = "create", !.p = p, !.r = r])
  /\ UNCHANGED <<gameVars, armed, wedged, rowVars>>

\* BughouseServer::make_move: the move, then RecordMove and CheckGame for
\* the arbiter.  The write lock is not to be had while a future of the
\* arbiter holds the guard.
MakeMove(u, g, mates) ==
  /\ "move" \in Requests
  /\ ~ReadGuarded(g)
  /\ G!MakeMove(u, g, mates)
  /\ \/ /\ Enqueue([Idle EXCEPT !.stage = "recordMove", !.g = g])
        /\ armed' = [armed EXCEPT ![g] = TRUE]
     \/ /\ "mailbox" \in Faults
        /\ \/ Enqueue([Idle EXCEPT !.stage = "recordMove", !.g = g])
           \/ UNCHANGED task
        /\ UNCHANGED armed
  /\ UNCHANGED <<wedged, rowVars>>

ReachStart(g) ==
  /\ G!ReachStart(g)
  /\ UNCHANGED <<task, armed, wedged, rowVars>>

-----------------------------------------------------------------------------
(* The arbiter: tables *)

\* uid_from_conn fails: the connection closed after the request.
NotAuthed(t) ==
  /\ \E stage \in {"form", "sit", "vacate"} : At(t, stage)
  /\ "offline" \in Requests
  /\ Finish(t)
  /\ UNCHANGED <<gameVars, armed, wedged, rowVars>>

\* form_table up to its query: a user in a game and a guest who wants a
\* rated game are turned away.
FormTable(t) ==
  LET u == task[t].u IN
  /\ At(t, "form")
  /\ IF userGames[u] # NoGame \/ (u \in Guest /\ task[t].r)
       THEN Finish(t)
       ELSE \E g \in GameID :
              /\ Fresh(g)
              /\ task' = [task EXCEPT ![t].stage = "formDb", ![t].g = g]
  /\ UNCHANGED <<gameVars, armed, wedged, rowVars>>

\* form_table after its query; the founder may be in a game by now.
FormTableDone(t) ==
  LET g == task[t].g IN
  /\ At(t, "formDb")
  /\ G!FormTable(task[t].u, g, task[t].r)
  /\ rowPlayers' = [rowPlayers EXCEPT ![g] =
                      [G!EmptySeats EXCEPT ![HostSeat] = task[t].u]]
  /\ Finish(t)
  /\ UNCHANGED <<armed, wedged, rowResult, rateCount>>

\* Mutant: the guard is released before the query.
SitUnguarded(t) ==
  LET u == task[t].u  g == task[t].g  s == task[t].s IN
  /\ At(t, "sit")
  /\ IF G!MaySit(g, s, u)
       THEN /\ G!Sit(g, s, u)
            /\ task' = [task EXCEPT ![t].stage = "sitDb", ![t].p = players'[g]]
       ELSE Finish(t) /\ UNCHANGED gameVars
  /\ UNCHANGED <<wedged, armed, rowVars>>

\* sit up to the query of update_seats, which holds the guard from here on.
\* Games::sit asks for the write lock before it looks at the seat.
Sit(t) ==
  LET u == task[t].u  g == task[t].g  s == task[t].s IN
  /\ At(t, "sit")
  /\ \/ /\ ~(life[g] = "live" /\ G!GameIdMatches(u, g))
        /\ Finish(t)
        /\ UNCHANGED <<gameVars, wedged, armed, rowVars>>
     \/ /\ life[g] = "live" /\ G!GameIdMatches(u, g)
        /\ ReadGuarded(g)
        /\ Wedge
        /\ UNCHANGED gameVars
     \/ /\ life[g] = "live" /\ G!GameIdMatches(u, g)
        /\ ~ReadGuarded(g) /\ ~G!MaySit(g, s, u)
        /\ Finish(t)
        /\ UNCHANGED <<gameVars, wedged, armed, rowVars>>
     \/ /\ ~ReadGuarded(g)
        /\ G!Sit(g, s, u)
        /\ task' = [task EXCEPT ![t].stage = "sitDb", ![t].p = players'[g]]
        /\ UNCHANGED <<wedged, armed, rowVars>>

\* Mutant: the seats of a full table are left to the queries of start_game.
StartUnwritten(t) ==
  LET g == task[t].g IN
  /\ At(t, "sitDb")
  /\ IF G!HasEmptySeat(g)
       THEN /\ rowPlayers' = [rowPlayers EXCEPT ![g] = task[t].p]
            /\ Finish(t)
            /\ UNCHANGED gameVars
       ELSE /\ G!StartGame(g)
            /\ Goto(t, "startDb")
            /\ UNCHANGED rowPlayers
  /\ UNCHANGED <<armed, wedged, rowResult, rateCount>>

\* sit after the query: the guard is dropped, and a table found full starts.
\* start_game goes on to its own queries, under the guard again.
SitDone(t) ==
  LET g == task[t].g IN
  /\ At(t, "sitDb")
  /\ rowPlayers' = [rowPlayers EXCEPT ![g] = task[t].p]
  /\ \/ /\ G!HasEmptySeat(g)
        /\ Finish(t)
        /\ UNCHANGED <<gameVars, wedged>>
     \/ /\ ~G!HasEmptySeat(g) /\ GuardedByOther(g, t)
        /\ wedged' = TRUE
        /\ UNCHANGED <<gameVars, task>>
     \/ /\ ~GuardedByOther(g, t)
        /\ G!StartGame(g)
        /\ Goto(t, "startDb")
        /\ UNCHANGED wedged
  /\ UNCHANGED <<armed, rowResult, rateCount>>

\* start_game after its queries: CheckGame is queued.
StartDone(t) ==
  LET g == task[t].g IN
  /\ At(t, "startDb")
  /\ \/ armed' = [armed EXCEPT ![g] = TRUE]
     \/ "mailbox" \in Faults /\ UNCHANGED armed
  /\ Finish(t)
  /\ UNCHANGED <<gameVars, wedged, rowVars>>

\* vacate up to the query of update_seats.  user_games is changed before
\* the write lock of the game is asked for.
Vacate(t) ==
  LET u == task[t].u  g == task[t].g  s == task[t].s IN
  /\ At(t, "vacate")
  /\ \/ /\ life[g] # "live"
        /\ Finish(t)
        /\ UNCHANGED <<gameVars, wedged, armed, rowVars>>
     \/ /\ life[g] = "live" /\ ReadGuarded(g)
        /\ userGames' = [userGames EXCEPT ![u] = NoGame]
        /\ Wedge
        /\ UNCHANGED <<life, players, rated, start, result>>
     \/ /\ ~ReadGuarded(g)
        /\ G!Vacate(g, s, u)
        /\ IF players[g][s] = u
             THEN task' = [task EXCEPT ![t].stage = "vacateDb",
                                       ![t].p = players'[g]]
             ELSE Finish(t)
        /\ UNCHANGED <<wedged, armed, rowVars>>

VacateDone(t) ==
  /\ At(t, "vacateDb")
  /\ rowPlayers' = [rowPlayers EXCEPT ![task[t].g] = task[t].p]
  /\ Finish(t)
  /\ UNCHANGED <<gameVars, armed, wedged, rowResult, rateCount>>

\* GameUserHandler, for a user whose last connection closed.
OnOfflineUser(u, g) ==
  /\ "offline" \in Requests
  /\ ArbiterFree
  /\ \/ /\ ReadGuarded(g) /\ userGames[u] = g /\ G!HasEmptySeat(g)
        /\ Wedge
        /\ UNCHANGED gameVars
     \/ /\ ~ReadGuarded(g)
        /\ G!OnOfflineUser(u, g)
        /\ UNCHANGED <<task, armed, wedged, rowVars>>

-----------------------------------------------------------------------------
(* The arbiter: games out of the seek queues *)

StartNewGame(t) ==
  /\ At(t, "create")
  /\ \E g \in GameID :
       /\ Fresh(g)
       /\ task' = [task EXCEPT ![t].stage = "createDb", ![t].g = g]
  /\ UNCHANGED <<gameVars, armed, wedged, rowVars>>

StartNewGameDone(t) ==
  LET g == task[t].g IN
  /\ At(t, "createDb")
  /\ G!StartNewGame(g, task[t].p, task[t].r)
  /\ rowPlayers' = [rowPlayers EXCEPT ![g] = task[t].p]
  /\ \/ armed' = [armed EXCEPT ![g] = TRUE]
     \/ "mailbox" \in Faults /\ UNCHANGED armed
  /\ Finish(t)
  /\ UNCHANGED <<wedged, rowResult, rateCount>>

-----------------------------------------------------------------------------
(* The arbiter: the end of a game *)

\* CheckGame with nothing to do: the game is gone or over.
CheckGameIdle(g) ==
  /\ ArbiterFree /\ armed[g]
  /\ life[g] # "live" \/ result[g] # "None"
  /\ armed' = [armed EXCEPT ![g] = FALSE]
  /\ UNCHANGED <<gameVars, task, wedged, rowVars>>

\* A handler of CheckGame for g occupies a slot.
BeginCheck(g) ==
  IF ReadGuarded(g)
    THEN Wedge
    ELSE /\ Enqueue([Idle EXCEPT !.stage = "checkGame", !.g = g])
         /\ armed' = [armed EXCEPT ![g] = FALSE]
         /\ UNCHANGED <<wedged, rowVars>>

\* Mutant: the handler does not look at the status before it takes the
\* write lock.
CheckGameOverToo(g) ==
  /\ ArbiterFree /\ armed[g]
  /\ life[g] = "live" /\ start[g] = "Reached"
  /\ BeginCheck(g)
  /\ UNCHANGED gameVars

\* CheckGame of a running game: get_game_status updates the clocks under the
\* write lock.  With time left the check is armed again (no change here);
\* without, the handler goes on to end_game.
CheckGame(g) ==
  /\ ArbiterFree /\ armed[g]
  /\ life[g] = "live" /\ result[g] = "None" /\ start[g] = "Reached"
  /\ BeginCheck(g)
  /\ UNCHANGED gameVars

\* The rest of the handler: end_game, then record_game as a future.  A mate
\* on a socket thread may have come in between.
FlagGame(t) ==
  /\ task[t].stage = "checkGame"
  /\ G!EndGame(task[t].g)
  /\ Goto(t, "recordGame")
  /\ UNCHANGED <<armed, wedged, rowVars>>

\* record_move after its query, which may have failed (that is logged): a game
\* that has a result by now is recorded, by this move or again.
RecordMove(t) ==
  LET g == task[t].g IN
  /\ At(t, "recordMove")
  /\ IF life[g] = "live" /\ result[g] # "None"
       THEN Goto(t, "resultDb") ELSE Finish(t)
  /\ UNCHANGED <<gameVars, armed, wedged, rowVars>>

RecordGame(t) ==
  /\ At(t, "recordGame")
  /\ Goto(t, "resultDb")
  /\ UNCHANGED <<gameVars, armed, wedged, rowVars>>

\* Mutant: the players' entries of user_games outlive the game.
RmGameOnly(g) == /\ life' = [life EXCEPT ![g] = "gone"]
                 /\ UNCHANGED <<players, userGames, rated, start, result>>

\* rm_game does nothing when an earlier record_game has removed the game.
RmGame(g) == IF life[g] = "live" THEN G!RmGame(g) ELSE UNCHANGED gameVars

\* Mutant: the game is removed although its result may never be written.
RemoveBeforeResult(t) ==
  LET g == task[t].g IN
  /\ At(t, "resultDb")
  /\ \/ /\ rowResult' = [rowResult EXCEPT ![g] = result[g]]
        /\ IF rated[g] /\ ~G!HasEmptySeat(g)
             THEN Goto(t, "ratingsDb") /\ UNCHANGED gameVars
             ELSE Finish(t) /\ RmGame(g)
     \/ /\ "db" \in Faults
        /\ Finish(t)
        /\ RmGame(g)
        /\ UNCHANGED rowResult
  /\ UNCHANGED <<armed, wedged, rowPlayers, rateCount>>

\* Mutant: only rated games are removed.
UnratedStays(t) ==
  LET g == task[t].g IN
  /\ At(t, "resultDb")
  /\ rowResult' = [rowResult EXCEPT ![g] = result[g]]
  /\ IF rated[g] THEN Goto(t, "ratingsDb") ELSE Finish(t)
  /\ UNCHANGED <<gameVars, armed, wedged, rowPlayers, rateCount>>

\* record_game after db.record_game_result.  The result column is written
\* first; then an empty seat panics the future (unwrap), and the game stays
\* in the registry for good.
ResultDone(t) ==
  LET g == task[t].g IN
  /\ At(t, "resultDb")
  /\ rowResult' = [rowResult EXCEPT ![g] = result[g]]
  /\ IF rated[g] /\ ~G!HasEmptySeat(g)
       THEN Goto(t, "ratingsDb") /\ UNCHANGED gameVars
       ELSE /\ Finish(t)
            /\ IF G!HasEmptySeat(g) THEN UNCHANGED gameVars ELSE RmGame(g)
  /\ UNCHANGED <<armed, wedged, rowPlayers, rateCount>>

\* record_game_result has written the row of the game and cannot prepare the
\* batch for user_games: the error ends record_game.
ResultHalfDone(t) ==
  LET g == task[t].g IN
  /\ "db" \in Faults
  /\ At(t, "resultDb")
  /\ rowResult' = [rowResult EXCEPT ![g] = result[g]]
  /\ Finish(t)
  /\ UNCHANGED <<gameVars, armed, wedged, rowPlayers, rateCount>>

\* record_game after db.record_ratings, with ratings computed from whatever
\* the players' ratings were when the query was made.  A batch that fails is
\* logged only: the users in memory get their ratings, and the game is removed,
\* even if the tables rating_history and users have not heard of it.
RatingsDone(t) ==
  LET g == task[t].g IN
  /\ At(t, "ratingsDb")
  /\ rateCount' = [rateCount EXCEPT ![g] = IF @ < RatingCap THEN @ + 1 ELSE @]
  /\ RmGame(g)
  /\ Finish(t)
  /\ UNCHANGED <<armed, wedged, rowPlayers, rowResult>>

\* A query fails whose error the handler returns; nobody tries again.  Of
\* record_ratings these are the two that prepare its batches.
QueryFails(t) ==
  /\ "db" \in Faults
  /\ \E stage \in {"formDb", "sitDb", "vacateDb", "startDb", "createDb",
                   "resultDb", "ratingsDb"} : At(t, stage)
  /\ Finish(t)
  /\ UNCHANGED <<gameVars, armed, wedged, rowVars>>

-----------------------------------------------------------------------------
TaskStep(t) ==
  \/ NotAuthed(t)
  \/ FormTable(t)
  \/ FormTableDone(t)
  \/ Sit(t)
  \/ SitDone(t)
  \/ StartDone(t)
  \/ Vacate(t)
  \/ VacateDone(t)
  \/ StartNewGame(t)
  \/ StartNewGameDone(t)
  \/ RecordMove(t)
  \/ RecordGame(t)
  \/ ResultDone(t)
  \/ ResultHalfDone(t)
  \/ RatingsDone(t)
  \/ QueryFails(t)

Next ==
  \/ \E u \in User, r \in BOOLEAN : QueueFormation(u, r)
  \/ \E u \in User, g \in GameID, s \in Seat : QueueSit(u, g, s)
  \/ \E u \in User, g \in GameID, s \in Seat : QueueVacate(u, g, s)
  \/ \E p \in G!Lineup, r \in BOOLEAN : SeekFormsGame(p, r)
  \/ \E u \in User, g \in GameID, mates \in BOOLEAN : MakeMove(u, g, mates)
  \/ \E u \in User, g \in GameID : OnOfflineUser(u, g)
  \/ \E g \in GameID : ReachStart(g)
  \/ \E g \in GameID : CheckGameIdle(g)
  \/ \E g \in GameID : CheckGame(g)
  \/ \E t \in Task : FlagGame(t)
  \/ \E t \in Task : TaskStep(t)

Spec == Init /\ [][Next]_vars

\* The executor polls every ready future and the database answers every
\* query; the arbiter works through its messages.  Clients owe nothing.
Fairness ==
  /\ \A t \in Task : WF_vars(TaskStep(t)) /\ WF_vars(FlagGame(t))
  /\ \A g \in GameID : WF_vars(CheckGameIdle(g))

FairSpec == Spec /\ Fairness
-----------------------------------------------------------------------------
(* Properties *)

\* Type invariant: an idle slot carries nothing, and a future that holds a
\* guard holds that of a game the registry has or had.
TypeOK ==
  /\ task \in [Task -> TaskState]
  /\ armed \in [GameID -> BOOLEAN]
  /\ wedged \in BOOLEAN
  /\ rowPlayers \in [GameID -> [Seat -> User \cup {NoUser}]]
  /\ rowResult \in [GameID -> G!Result]
  /\ rateCount \in [GameID -> 0 .. RatingCap]
  /\ \A t \in Task :
       /\ task[t].stage = "idle" => task[t] = Idle
       /\ task[t].stage \in GuardStages =>
            task[t].g # NoGame /\ life[task[t].g] # "unborn"

\* The server calls the methods of Games only in ways that Games allows:
\* however the handlers' sections interleave, each of them is a step of the
\* registry or none, so what is proved of Games holds in the server.
ImplementsGames == G!Spec

\* A game leaves the registry only with its result in its row, the same that
\* the players were told, and a rated one only once its players in memory have
\* their new ratings, whichever queries fail, and whoever else records it at
\* the same time: rm_game comes last in record_game.  That the ratings are in
\* the database is more than the code achieves.
RemovedIsRecorded ==
  \A g \in GameID :
    life[g] = "gone" => /\ rowResult[g] = result[g]
                        /\ rowResult[g] # "None"
                        /\ rated[g] /\ RatingCap > 0 => rateCount[g] >= 1

\* Whatever is written to a game's row is how its seats are at that moment,
\* although the query was made from a snapshot and the arbiter runs other
\* handlers while it is under way: update_seats keeps the guard.  The row may
\* lag behind a user who has left his seat by going offline (no query
\* follows that), or behind one whose query failed.
RowWritesAreCurrent ==
  [][\A g \in GameID :
        rowPlayers'[g] # rowPlayers[g] => rowPlayers'[g] = players'[g]]_vars

\* A game that has just been given its start time has the row of its
\* players: sit awaits the write of the last seat before it calls
\* start_game.
StartedRowMatches ==
  [][\A g \in GameID :
        start[g] = "None" /\ start'[g] = "Pending" =>
          rowPlayers'[g] = players'[g]]_vars

\* The arbiter never waits for a lock that only it can free.  True of a
\* server where games come out of the seek queues; tables break it: sit and
\* vacate ask for the lock that update_seats holds across its query, while
\* error.rs:99 promises the second of two sitters "already taken".
NeverWedged == ~wedged

\* With a database that answers, a decided game is recorded and removed.
DecidedIsRemoved ==
  \A g \in GameID : result[g] # "None" ~> life[g] = "gone"
=============================================================================
