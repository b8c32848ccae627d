------------------------ MODULE BughouseServerProofs ------------------------
(***************************************************************************)
(* Proofs about BughouseServer, for every set of users, games, seats and   *)
(* slots, for all kinds of requests and with every fault.                  *)
(*                                                                         *)
(* The heart of it is Fits: what a future that waits for the database may  *)
(* still rely on when it goes on, although the arbiter has run any number  *)
(* of other handlers in the meantime.                                      *)
(***************************************************************************)
EXTENDS BughouseServer, TLAPS

GP == INSTANCE GamesProofs

-----------------------------------------------------------------------------
(* What a future relies on *)

\* Futures that hold an id that is about to be given to a game.
NewGameStages == {"formDb", "createDb"}

\* The parameters of a message or future are what its handler expects; an
\* idle slot carries nothing.
ParametersFit(x) ==
  /\ x.stage = "idle" => x = Idle
  /\ x.stage \in {"form", "sit", "vacate", "formDb"} => x.u \in User
  /\ x.stage \notin {"idle", "form", "create"} => x.g \in GameID
  /\ x.stage \in {"create", "createDb"} => x.p \in G!Lineup

\* A future's game is still at the point where the future left it.
Fits(x) ==
  /\ x.stage \in NewGameStages => life[x.g] = "unborn"
  /\ x.stage \in GuardStages \cup {"checkGame", "recordGame", "ratingsDb"}
       => life[x.g] # "unborn"
  /\ x.stage \in {"sitDb", "vacateDb"} => x.p = players[x.g]
  /\ x.stage \in {"resultDb", "recordGame", "ratingsDb"} => result[x.g] # "None"
  /\ x.stage = "ratingsDb" => rowResult[x.g] = result[x.g]

\* No two futures are about to use one id.
NewIdsDiffer ==
  \A t, o \in Task :
    task[t].stage \in NewGameStages /\ task[o].stage \in NewGameStages
      /\ task[t].g = task[o].g => t = o

SInv ==
  /\ TypeOK
  /\ G!TypeOK /\ G!OneSeatPerTable
  /\ \A t \in Task : ParametersFit(task[t]) /\ Fits(task[t])
  /\ NewIdsDiffer
  /\ RemovedIsRecorded

-----------------------------------------------------------------------------
(* The registry takes a step of its own, or none *)

\* Each method of Games is a step of its specification.
LEMMA FormIsNext ==
  ASSUME NEW u \in User, NEW g \in GameID, NEW r \in BOOLEAN, G!FormTable(u, g, r)
  PROVE  G!Next
BY DEF G!Next

\* Games::sit.
LEMMA SitIsNext ==
  ASSUME NEW g \in GameID, NEW s \in Seat, NEW u \in User, G!Sit(g, s, u)
  PROVE  G!Next
BY DEF G!Next

\* Games::vacate.
LEMMA VacateIsNext ==
  ASSUME NEW g \in GameID, NEW s \in Seat, NEW u \in User, G!Vacate(g, s, u)
  PROVE  G!Next
BY DEF G!Next

\* Games::start_game.
LEMMA StartGameIsNext ==
  ASSUME NEW g \in GameID, G!StartGame(g)
  PROVE  G!Next
BY DEF G!Next

\* Games::start_new_game.
LEMMA StartNewGameIsNext ==
  ASSUME NEW g \in GameID, NEW p \in G!Lineup, NEW r \in BOOLEAN,
         G!StartNewGame(g, p, r)
  PROVE  G!Next
BY DEF G!Next

\* Games::make_move.
LEMMA MakeMoveIsNext ==
  ASSUME NEW u \in User, NEW g \in GameID, NEW mates \in BOOLEAN,
         G!MakeMove(u, g, mates)
  PROVE  G!Next
BY DEF G!Next

\* Game::end_game.
LEMMA EndGameIsNext ==
  ASSUME NEW g \in GameID, G!EndGame(g)
  PROVE  G!Next
BY DEF G!Next

\* Games::rm_game.
LEMMA RmGameIsNext ==
  ASSUME NEW g \in GameID, G!RmGame(g)
  PROVE  G!Next
BY DEF G!Next

\* Removing a game that an earlier record has removed already is no step.
LEMMA RmGameRefines ==
  ASSUME NEW g \in GameID, RmGame(g)
  PROVE  G!Next \/ UNCHANGED gameVars
<1>1. CASE life[g] = "live"
  <2>1. G!RmGame(g)
    BY <1>1 DEF RmGame
  <2> QED
    BY <2>1, RmGameIsNext
<1>2. CASE life[g] # "live"
  BY <1>2 DEF RmGame
<1> QED
  BY <1>1, <1>2

\* A vacate that blocks on the lock has already unlinked the user: in the
\* registry, a vacate of a seat that is not his.
LEMMA BlockedVacateRefines ==
  ASSUME G!TypeOK, G!OneSeatPerTable, NEW u \in User, NEW g \in GameID,
         life[g] = "live", userGames' = [userGames EXCEPT ![u] = NoGame],
         UNCHANGED <<life, players, rated, start, result>>
  PROVE  G!Next
<1>1. PICK s \in Seat : s # HostSeat
  BY ServerAssumption DEF G!GamesAssumption
<1>2. HostSeat \in Seat /\ NoUser \notin User
  BY ServerAssumption DEF G!GamesAssumption
<1>3. players[g][s] # u \/ players[g][HostSeat] # u
  BY <1>1, <1>2 DEF G!OneSeatPerTable
<1>4. PICK z \in Seat : players[g][z] # u
  BY <1>2, <1>3
<1>5. G!Vacate(g, z, u)
  BY <1>4 DEF G!Vacate
<1> QED
  BY <1>5, VacateIsNext

\* Whatever the server does, the registry takes one of its steps or none.
LEMMA StepImplementsGames == SInv /\ [Next]_vars => [G!Next]_(G!vars)
<1> SUFFICES ASSUME SInv, [Next]_vars PROVE G!Next \/ UNCHANGED gameVars
  BY DEF gameVars, G!vars
<1>0. /\ task \in [Task -> TaskState]
      /\ G!TypeOK /\ G!OneSeatPerTable
      /\ \A t \in Task : ParametersFit(task[t])
  BY DEF SInv, TypeOK
<1>1. ASSUME NEW t \in Task, FormTableDone(t) PROVE G!Next
  <2>1. PICK u \in User, g \in GameID, r \in BOOLEAN :
          u = task[t].u /\ g = task[t].g /\ r = task[t].r
    BY <1>0, <1>1 DEF FormTableDone, At, ParametersFit, TaskState
  <2>2. G!FormTable(u, g, r)
    BY <1>1, <2>1 DEF FormTableDone
  <2> QED
    BY <2>2, FormIsNext
<1>2. ASSUME NEW t \in Task, Sit(t) PROVE G!Next \/ UNCHANGED gameVars
  <2>1. PICK u \in User, g \in GameID, s \in Seat :
          u = task[t].u /\ g = task[t].g /\ s = task[t].s
    BY <1>0, <1>2 DEF Sit, At, ParametersFit, TaskState
  <2>2. G!Sit(g, s, u) \/ UNCHANGED gameVars
    BY <1>2, <2>1 DEF Sit
  <2> QED
    BY <2>2, SitIsNext
<1>3. ASSUME NEW t \in Task, SitDone(t) PROVE G!Next \/ UNCHANGED gameVars
  <2>1. PICK g \in GameID : g = task[t].g
    BY <1>0, <1>3 DEF SitDone, At, ParametersFit
  <2>2. G!StartGame(g) \/ UNCHANGED gameVars
    BY <1>3, <2>1 DEF SitDone
  <2> QED
    BY <2>2, StartGameIsNext
<1>4. ASSUME NEW t \in Task, Vacate(t) PROVE G!Next \/ UNCHANGED gameVars
  <2>1. PICK u \in User, g \in GameID, s \in Seat :
          u = task[t].u /\ g = task[t].g /\ s = task[t].s
    BY <1>0, <1>4 DEF Vacate, At, ParametersFit, TaskState
  <2>2. \/ G!Vacate(g, s, u)
        \/ UNCHANGED gameVars
        \/ /\ life[g] = "live"
           /\ userGames' = [userGames EXCEPT ![u] = NoGame]
           /\ UNCHANGED <<life, players, rated, start, result>>
    BY <1>4, <2>1 DEF Vacate
  <2> QED
    BY <1>0, <2>2, VacateIsNext, BlockedVacateRefines
<1>5. ASSUME NEW t \in Task, StartNewGameDone(t) PROVE G!Next
  <2>1. PICK g \in GameID, p \in G!Lineup, r \in BOOLEAN :
          g = task[t].g /\ p = task[t].p /\ r = task[t].r
    BY <1>0, <1>5 DEF StartNewGameDone, At, ParametersFit, TaskState
  <2>2. G!StartNewGame(g, p, r)
    BY <1>5, <2>1 DEF StartNewGameDone
  <2> QED
    BY <2>2, StartNewGameIsNext
<1>6. ASSUME NEW t \in Task, ResultDone(t) \/ RatingsDone(t)
      PROVE  G!Next \/ UNCHANGED gameVars
  <2>1. PICK g \in GameID : g = task[t].g
    BY <1>0, <1>6 DEF ResultDone, RatingsDone, At, ParametersFit
  <2>2. RmGame(g) \/ UNCHANGED gameVars
    BY <1>6, <2>1 DEF ResultDone, RatingsDone
  <2> QED
    BY <2>2, RmGameRefines
<1>7. ASSUME NEW t \in Task, FlagGame(t) PROVE G!Next
  <2>1. PICK g \in GameID : g = task[t].g
    BY <1>0, <1>7 DEF FlagGame, ParametersFit
  <2>2. G!EndGame(g)
    BY <1>7, <2>1 DEF FlagGame
  <2> QED
    BY <2>2, EndGameIsNext
<1>8. ASSUME NEW t \in Task, TaskStep(t) PROVE G!Next \/ UNCHANGED gameVars
  BY <1>1, <1>2, <1>3, <1>4, <1>5, <1>6, <1>8
  DEF TaskStep, NotAuthed, FormTable, StartDone, VacateDone, StartNewGame,
      RecordMove, RecordGame, QueryFails, ResultHalfDone
<1>9. ASSUME NEW u \in User, NEW g \in GameID, NEW mates \in BOOLEAN,
             MakeMove(u, g, mates)
      PROVE  G!Next
  BY <1>9, MakeMoveIsNext DEF MakeMove
<1>10. ASSUME NEW u \in User, NEW g \in GameID, OnOfflineUser(u, g)
       PROVE  G!Next \/ UNCHANGED gameVars
  BY <1>10 DEF OnOfflineUser, G!Next
<1>11. ASSUME NEW g \in GameID, ReachStart(g) PROVE G!Next
  BY <1>11 DEF ReachStart, G!Next
<1>12. CASE UNCHANGED vars
  BY <1>12 DEF vars
<1> QED
  BY <1>7, <1>8, <1>9, <1>10, <1>11, <1>12
  DEF Next, QueueFormation, QueueSit, QueueVacate, SeekFormsGame,
      CheckGameIdle, CheckGame

-----------------------------------------------------------------------------
(* What the steps of the registry keep *)

\* The registry as its proofs name it.
LEMMA SameSteps == [G!Next]_(G!vars) => [GP!Next]_(GP!vars)
BY DEF G!Next, GP!Next, G!vars, GP!vars, G!FormTable, GP!FormTable,
       G!GameIdMatches, GP!GameIdMatches, G!EmptySeats, GP!EmptySeats,
       G!Sit, GP!Sit, G!MaySit, GP!MaySit, G!Without, GP!Without,
       G!Vacate, GP!Vacate, G!StartGame, GP!StartGame, G!HasEmptySeat,
       GP!HasEmptySeat, G!StartNewGame, GP!StartNewGame, G!Lineup,
       GP!Lineup, G!ReachStart, GP!ReachStart, G!MakeMove, GP!MakeMove,
       G!CheckForMate, GP!CheckForMate, G!Seated, GP!Seated, G!EndGame,
       GP!EndGame, G!RmGame, GP!RmGame, G!OnOfflineUser, GP!OnOfflineUser

\* Types and seats: proved of module Games.
LEMMA GamesStepKeeps ==
  G!TypeOK /\ G!OneSeatPerTable /\ [G!Next]_(G!vars)
    => G!TypeOK' /\ G!OneSeatPerTable'
<1>0. GP!GamesAssumption
  BY ServerAssumption DEF G!GamesAssumption, GP!GamesAssumption
<1>1. G!TypeOK <=> GP!TypeOK
  BY DEF G!TypeOK, GP!TypeOK, G!Life, GP!Life, G!Start, GP!Start, G!Result,
         GP!Result, G!EmptySeats, GP!EmptySeats
<1>2. G!OneSeatPerTable <=> GP!OneSeatPerTable
  BY DEF G!OneSeatPerTable, GP!OneSeatPerTable
<1>3. G!TypeOK' <=> GP!TypeOK'
  BY DEF G!TypeOK, GP!TypeOK, G!Life, GP!Life, G!Start, GP!Start, G!Result,
         GP!Result, G!EmptySeats, GP!EmptySeats
<1>4. G!OneSeatPerTable' <=> GP!OneSeatPerTable'
  BY DEF G!OneSeatPerTable, GP!OneSeatPerTable
<1>5. [G!Next]_(G!vars) => [GP!Next]_(GP!vars)
  BY SameSteps
<1>6. GP!TypeOK /\ [GP!Next]_(GP!vars) => GP!TypeOK'
  BY <1>0, GP!NextTypeOK
<1>7. GP!TypeOK /\ GP!OneSeatPerTable /\ [GP!Next]_(GP!vars) => GP!OneSeatPerTable'
  BY <1>0, GP!NextOneSeat
<1> QED
  BY <1>1, <1>2, <1>3, <1>4, <1>5, <1>6, <1>7

\* A game never returns to an earlier stage of its life, and neither its
\* result nor its rated flag changes once it has one.
LEMMA GamesStepAdvances ==
  ASSUME G!TypeOK, [G!Next]_(G!vars), NEW g \in GameID
  PROVE  /\ life[g] # "unborn" => life'[g] # "unborn" /\ rated'[g] = rated[g]
         /\ life[g] = "gone" => life'[g] = "gone"
         /\ result[g] # "None" => result'[g] = result[g]
         /\ life'[g] = "gone" =>
              life[g] = "gone" \/ (life[g] = "live" /\ result[g] # "None")
<1> DEFINE Goal ==
      /\ life[g] # "unborn" => life'[g] # "unborn" /\ rated'[g] = rated[g]
      /\ life[g] = "gone" => life'[g] = "gone"
      /\ result[g] # "None" => result'[g] = result[g]
      /\ life'[g] = "gone" =>
           life[g] = "gone" \/ (life[g] = "live" /\ result[g] # "None")
<1> USE DEF G!TypeOK
<1>1. ASSUME NEW u \in User, NEW h \in GameID, NEW r \in BOOLEAN, G!FormTable(u, h, r)
      PROVE  Goal
  BY <1>1 DEF G!FormTable
<1>2. ASSUME NEW h \in GameID, NEW q \in G!Lineup, NEW r \in BOOLEAN,
             G!StartNewGame(h, q, r)
      PROVE  Goal
  BY <1>2 DEF G!StartNewGame
<1>3. ASSUME NEW h \in GameID, G!RmGame(h)
      PROVE  Goal
  BY <1>3 DEF G!RmGame
<1>4. ASSUME NEW u \in User, NEW h \in GameID, NEW mates \in BOOLEAN,
             G!MakeMove(u, h, mates)
      PROVE  Goal
  BY <1>4 DEF G!MakeMove, G!CheckForMate
<1>5. ASSUME NEW h \in GameID, G!EndGame(h)
      PROVE  Goal
  BY <1>5 DEF G!EndGame
<1>6. ASSUME UNCHANGED <<life, rated, result>> PROVE Goal
  BY <1>6
<1> HIDE DEF Goal
<1>7. ASSUME G!Next PROVE Goal
  BY <1>1, <1>2, <1>3, <1>4, <1>5, <1>6, <1>7
  DEF G!Next, G!Sit, G!Vacate, G!StartGame, G!ReachStart, G!OnOfflineUser
<1>8. Goal
  BY <1>6, <1>7 DEF G!vars
<1> QED
  BY <1>8 DEF Goal

-----------------------------------------------------------------------------
(* What the steps of a slot bring about *)

\* Slot t comes to hold x: parameters and game are as its handler expects,
\* and an id that is about to be used is nobody else's.
Becomes(t, x) ==
  /\ task' = [task EXCEPT ![t] = x]
  /\ ParametersFit(x)
  /\ x.stage \in NewGameStages =>
       \A o \in Task : o # t => task[o].g # x.g

\* At most one slot moves, and its game is where it has to be.
Moves == \/ UNCHANGED task
         \/ \E t \in Task, x \in TaskState : Becomes(t, x) /\ Fits(x)'

\* A slot that is given back is well typed and asks for nothing.
LEMMA IdleFits ==
  /\ Idle \in TaskState /\ Idle.stage = "idle"
  /\ ParametersFit(Idle) /\ Fits(Idle)'
<1>1. Idle \in TaskState /\ Idle.stage = "idle"
  BY ServerAssumption
  DEF G!GamesAssumption, Idle, TaskState, Stages, G!EmptySeats
<1> QED
  BY <1>1 DEF ParametersFit, Fits, NewGameStages, GuardStages

\* A slot that is given up.
LEMMA FinishMoves ==
  ASSUME NEW t \in Task, Finish(t)
  PROVE  Moves
<1>1. Becomes(t, Idle)
  BY IdleFits DEF Finish, Becomes, NewGameStages
<1> QED
  BY <1>1, IdleFits DEF Moves

\* A slot that is put to use: the message has the fields of Idle except for
\* those that are named.
LEMMA EnqueueMoves ==
  ASSUME NEW x \in TaskState, ParametersFit(x), Fits(x)',
         x.stage \notin NewGameStages, Enqueue(x)
  PROVE  Moves
BY DEF Enqueue, Moves, Becomes

\* A slot that goes on to another stage, with what it has.
LEMMA GotoMoves ==
  ASSUME task \in [Task -> TaskState], NEW t \in Task,
         NEW stage \in {"startDb", "recordGame", "resultDb", "ratingsDb"},
         Goto(t, stage),
         task[t].g \in GameID, life'[task[t].g] # "unborn",
         stage # "startDb" => result'[task[t].g] # "None",
         stage = "ratingsDb" => rowResult'[task[t].g] = result'[task[t].g]
  PROVE  Moves
<1> DEFINE x == [task[t] EXCEPT !.stage = stage]
<1>1. /\ x \in TaskState /\ x.stage = stage /\ x.g = task[t].g
  BY DEF TaskState, Stages, GuardStages
<1>2. task' = [task EXCEPT ![t] = x]
  BY DEF Goto
<1> HIDE DEF x
<1>3. PICK y \in TaskState : y = x
  BY <1>1
<1>4. Becomes(t, y)
  BY <1>1, <1>2, <1>3 DEF Becomes, ParametersFit, NewGameStages
<1>5. Fits(y)'
  BY <1>1, <1>3 DEF Fits, NewGameStages, GuardStages
<1> QED
  BY <1>4, <1>5 DEF Moves

\* The games that may have changed since a message was queued are not relied
\* upon before its handler has looked them up.
LEMMA MessageMoves ==
  ASSUME NEW x \in TaskState, ParametersFit(x),
         x.stage \in {"form", "sit", "vacate", "create", "recordMove"}, Enqueue(x)
  PROVE  Moves
<1>1. Fits(x)' /\ x.stage \notin NewGameStages
  BY DEF Fits, NewGameStages, GuardStages
<1> QED
  BY <1>1, EnqueueMoves

\* Requests, and the messages that follow a move, fit.
LEMMA RequestMoves ==
  ASSUME SInv,
         \/ \E u \in User, r \in BOOLEAN : QueueFormation(u, r)
         \/ \E u \in User, g \in GameID, s \in Seat :
              QueueSit(u, g, s) \/ QueueVacate(u, g, s)
         \/ \E p \in G!Lineup, r \in BOOLEAN : SeekFormsGame(p, r)
         \/ \E u \in User, g \in GameID, mates \in BOOLEAN : MakeMove(u, g, mates)
  PROVE  Moves
<1>1. ASSUME NEW u \in User, NEW r \in BOOLEAN, QueueFormation(u, r) PROVE Moves
  <2>1. PICK x \in TaskState : x = [Idle EXCEPT !.stage = "form", !.u = u, !.r = r]
    BY IdleFits DEF TaskState, Stages
  <2>2. x.stage = "form" /\ x.u = u
    BY <2>1, IdleFits DEF TaskState
  <2> QED
    BY <1>1, <2>1, <2>2, MessageMoves DEF QueueFormation, ParametersFit
<1>2. ASSUME NEW u \in User, NEW g \in GameID, NEW s \in Seat, QueueSit(u, g, s)
      PROVE  Moves
  <2>1. PICK x \in TaskState :
          x = [Idle EXCEPT !.stage = "sit", !.u = u, !.g = g, !.s = s]
    BY IdleFits DEF TaskState, Stages
  <2>2. x.stage = "sit" /\ x.u = u /\ x.g = g
    BY <2>1, IdleFits DEF TaskState
  <2> QED
    BY <1>2, <2>1, <2>2, MessageMoves DEF QueueSit, ParametersFit
<1>3. ASSUME NEW u \in User, NEW g \in GameID, NEW s \in Seat, QueueVacate(u, g, s)
      PROVE  Moves
  <2>1. PICK x \in TaskState :
          x = [Idle EXCEPT !.stage = "vacate", !.u = u, !.g = g, !.s = s]
    BY IdleFits DEF TaskState, Stages
  <2>2. x.stage = "vacate" /\ x.u = u /\ x.g = g
    BY <2>1, IdleFits DEF TaskState
  <2> QED
    BY <1>3, <2>1, <2>2, MessageMoves DEF QueueVacate, ParametersFit
<1>4. ASSUME NEW p \in G!Lineup, NEW r \in BOOLEAN, SeekFormsGame(p, r)
      PROVE  Moves
  <2>1. p \in [Seat -> User \cup {NoUser}]
    BY DEF G!Lineup
  <2>2. PICK x \in TaskState : x = [Idle EXCEPT !.stage = "create", !.p = p, !.r = r]
    BY <2>1, IdleFits DEF TaskState, Stages
  <2>3. x.stage = "create" /\ x.p = p
    BY <2>2, IdleFits DEF TaskState
  <2> QED
    BY <1>4, <2>2, <2>3, MessageMoves DEF SeekFormsGame, ParametersFit
<1>5. ASSUME NEW u \in User, NEW g \in GameID, NEW mates \in BOOLEAN,
             MakeMove(u, g, mates)
      PROVE  Moves
  <2>1. PICK x \in TaskState : x = [Idle EXCEPT !.stage = "recordMove", !.g = g]
    BY IdleFits DEF TaskState, Stages
  <2>2. x.stage = "recordMove" /\ x.g = g
    BY <2>1, IdleFits DEF TaskState
  <2>3. ParametersFit(x)
    BY <2>2 DEF ParametersFit
  <2>4. Enqueue(x) \/ UNCHANGED task
    BY <1>5, <2>1 DEF MakeMove
  <2> QED
    BY <2>2, <2>3, <2>4, MessageMoves DEF Moves
<1> QED
  BY <1>1, <1>2, <1>3, <1>4, <1>5

\* Every step moves one slot at most, to where its game is.
LEMMA StepMoves == SInv /\ [Next]_vars => Moves
<1> SUFFICES ASSUME SInv, [Next]_vars PROVE Moves
  OBVIOUS
<1>0. /\ task \in [Task -> TaskState] /\ G!TypeOK
      /\ \A t \in Task : ParametersFit(task[t]) /\ Fits(task[t])
  BY DEF SInv, TypeOK
<1>00. [G!Next]_(G!vars)
  BY StepImplementsGames
<1>1. ASSUME NEW t \in Task, FormTable(t) PROVE Moves
  <2>1. CASE Finish(t)
    BY <2>1, FinishMoves
  <2>2. ASSUME NEW g \in GameID, Fresh(g),
               task' = [task EXCEPT ![t].stage = "formDb", ![t].g = g],
               task[t].stage = "form", UNCHANGED life
        PROVE  Moves
    <3>1. PICK x \in TaskState : x = [task[t] EXCEPT !.stage = "formDb", !.g = g]
      BY <1>0 DEF TaskState, Stages
    <3>2. x.stage = "formDb" /\ x.g = g /\ x.u = task[t].u
      BY <1>0, <3>1 DEF TaskState
    <3>3. task' = [task EXCEPT ![t] = x]
      BY <1>0, <2>2, <3>1 DEF TaskState
    <3>4. ParametersFit(x)
      BY <1>0, <2>2, <3>2 DEF ParametersFit
    <3>5. Becomes(t, x)
      BY <2>2, <3>2, <3>3, <3>4 DEF Becomes, Fresh
    <3>6. Fits(x)'
      BY <2>2, <3>2 DEF Fits, Fresh, NewGameStages, GuardStages
    <3> QED
      BY <3>5, <3>6 DEF Moves
  <2> QED
    BY <1>1, <2>1, <2>2 DEF FormTable, At, gameVars
<1>2. ASSUME NEW t \in Task, StartNewGame(t) PROVE Moves
  <2>1. PICK g \in GameID :
          /\ Fresh(g)
          /\ task' = [task EXCEPT ![t].stage = "createDb", ![t].g = g]
    BY <1>2 DEF StartNewGame
  <2>2. task[t].stage = "create" /\ UNCHANGED life
    BY <1>2 DEF StartNewGame, At, gameVars
  <2>3. PICK x \in TaskState : x = [task[t] EXCEPT !.stage = "createDb", !.g = g]
    BY <1>0 DEF TaskState, Stages
  <2>4. x.stage = "createDb" /\ x.g = g /\ x.p = task[t].p
    BY <1>0, <2>3 DEF TaskState
  <2>5. task' = [task EXCEPT ![t] = x]
    BY <1>0, <2>1, <2>3 DEF TaskState
  <2>6. ParametersFit(x)
    BY <1>0, <2>2, <2>4 DEF ParametersFit
  <2>7. Becomes(t, x)
    BY <2>1, <2>4, <2>5, <2>6 DEF Becomes, Fresh
  <2>8. Fits(x)'
    BY <2>1, <2>2, <2>4 DEF Fits, Fresh, NewGameStages, GuardStages
  <2> QED
    BY <2>7, <2>8 DEF Moves
\* Sitting down and leaving: the query is made from the seats as they are.
<1>3. ASSUME NEW t \in Task, NEW stage \in {"sitDb", "vacateDb"},
             task[t].g \in GameID, life'[task[t].g] = "live",
             players' \in [GameID -> [Seat -> User \cup {NoUser}]],
             task' = [task EXCEPT ![t].stage = stage, ![t].p = players'[task[t].g]]
      PROVE  Moves
  <2>1. players'[task[t].g] \in [Seat -> User \cup {NoUser}]
    BY <1>3
  <2>2. PICK x \in TaskState :
          x = [task[t] EXCEPT !.stage = stage, !.p = players'[task[t].g]]
    BY <1>0, <2>1 DEF TaskState, Stages, GuardStages
  <2>3. x.stage = stage /\ x.g = task[t].g /\ x.p = players'[task[t].g]
    BY <1>0, <2>2 DEF TaskState
  <2>4. task' = [task EXCEPT ![t] = x]
    BY <1>0, <1>3, <2>2 DEF TaskState
  <2>5. Becomes(t, x)
    BY <1>3, <2>3, <2>4 DEF Becomes, ParametersFit, NewGameStages
  <2>6. Fits(x)'
    BY <1>3, <2>3 DEF Fits, NewGameStages, GuardStages
  <2> QED
    BY <2>5, <2>6 DEF Moves
<1>4. G!TypeOK'
  BY <1>00, GamesStepKeeps DEF SInv
<1>5. ASSUME NEW t \in Task, Sit(t) PROVE Moves
  <2>1. task[t].g \in GameID
    BY <1>0, <1>5 DEF Sit, At, ParametersFit
  <2>2. \/ Finish(t) \/ UNCHANGED task
        \/ /\ G!Sit(task[t].g, task[t].s, task[t].u)
           /\ task' = [task EXCEPT ![t].stage = "sitDb",
                                   ![t].p = players'[task[t].g]]
    BY <1>5 DEF Sit, Wedge
  <2>3. G!Sit(task[t].g, task[t].s, task[t].u) => life'[task[t].g] = "live"
    BY DEF G!Sit, G!MaySit
  <2> QED
    BY <1>3, <1>4, <2>1, <2>2, <2>3, FinishMoves DEF G!TypeOK, Moves
<1>6. ASSUME NEW t \in Task, Vacate(t) PROVE Moves
  <2>1. task[t].g \in GameID
    BY <1>0, <1>6 DEF Vacate, At, ParametersFit
  <2>2. \/ Finish(t) \/ UNCHANGED task
        \/ /\ G!Vacate(task[t].g, task[t].s, task[t].u)
           /\ task' = [task EXCEPT ![t].stage = "vacateDb",
                                   ![t].p = players'[task[t].g]]
    BY <1>6 DEF Vacate, Wedge
  <2>3. G!Vacate(task[t].g, task[t].s, task[t].u) => life'[task[t].g] = "live"
    BY DEF G!Vacate
  <2> QED
    BY <1>3, <1>4, <2>1, <2>2, <2>3, FinishMoves DEF G!TypeOK, Moves
<1>7. ASSUME NEW t \in Task, SitDone(t) PROVE Moves
  <2>1. /\ task[t].g \in GameID /\ life[task[t].g] # "unborn"
    BY <1>0, <1>7 DEF SitDone, At, ParametersFit, Fits, GuardStages
  <2>2. UNCHANGED life
    BY <1>7 DEF SitDone, gameVars, G!StartGame
  <2>3. Finish(t) \/ UNCHANGED task \/ Goto(t, "startDb")
    BY <1>7 DEF SitDone
  <2> QED
    BY <1>0, <2>1, <2>2, <2>3, FinishMoves, GotoMoves DEF Moves
<1>8. ASSUME NEW t \in Task, FlagGame(t) PROVE Moves
  <2>1. task[t].g \in GameID /\ life[task[t].g] # "unborn"
    BY <1>0, <1>8 DEF FlagGame, ParametersFit, Fits
  <2>2. UNCHANGED life /\ result'[task[t].g] # "None"
    BY <1>0, <1>8, <2>1 DEF FlagGame, G!EndGame, G!TypeOK, G!Result
  <2> QED
    BY <1>0, <1>8, <2>1, <2>2, GotoMoves DEF FlagGame
<1>9. ASSUME NEW t \in Task, RecordMove(t) PROVE Moves
  <2>1. task[t].g \in GameID /\ UNCHANGED <<life, result>>
    BY <1>0, <1>9 DEF RecordMove, At, ParametersFit, gameVars
  <2>2. \/ Finish(t)
        \/ /\ Goto(t, "resultDb")
           /\ life[task[t].g] = "live" /\ result[task[t].g] # "None"
    BY <1>9 DEF RecordMove
  <2> QED
    BY <1>0, <2>1, <2>2, FinishMoves, GotoMoves
<1>10. ASSUME NEW t \in Task, RecordGame(t) PROVE Moves
  <2>1. /\ task[t].g \in GameID /\ UNCHANGED <<life, result>>
        /\ life[task[t].g] # "unborn" /\ result[task[t].g] # "None"
    BY <1>0, <1>10 DEF RecordGame, At, ParametersFit, Fits, gameVars
  <2> QED
    BY <1>0, <1>10, <2>1, GotoMoves DEF RecordGame
<1>11. ASSUME NEW t \in Task, ResultDone(t) PROVE Moves
  <2>1. /\ task[t].g \in GameID
        /\ life[task[t].g] # "unborn" /\ result[task[t].g] # "None"
    BY <1>0, <1>11 DEF ResultDone, At, ParametersFit, Fits, GuardStages
  <2>2. rowResult'[task[t].g] = result[task[t].g]
    BY <1>11, <2>1 DEF ResultDone, SInv, TypeOK
  <2>3. Finish(t) \/ (Goto(t, "ratingsDb") /\ UNCHANGED gameVars)
    BY <1>11 DEF ResultDone
  <2> QED
    BY <1>0, <2>1, <2>2, <2>3, FinishMoves, GotoMoves DEF gameVars
<1>12. ASSUME NEW g \in GameID, CheckGame(g) PROVE Moves
  <2>1. PICK x \in TaskState : x = [Idle EXCEPT !.stage = "checkGame", !.g = g]
    BY IdleFits DEF TaskState, Stages
  <2>2. x.stage = "checkGame" /\ x.g = g
    BY <2>1, IdleFits DEF TaskState
  <2>3. life'[g] # "unborn"
    BY <1>12 DEF CheckGame, gameVars
  <2>4. ParametersFit(x) /\ Fits(x)' /\ x.stage \notin NewGameStages
    BY <2>2, <2>3 DEF ParametersFit, Fits, NewGameStages, GuardStages
  <2>5. Enqueue(x) \/ UNCHANGED task
    BY <1>12, <2>1 DEF CheckGame, BeginCheck, Wedge
  <2> QED
    BY <2>4, <2>5, EnqueueMoves DEF Moves
<1>13. ASSUME NEW t \in Task,
              \/ NotAuthed(t) \/ FormTableDone(t) \/ StartDone(t)
              \/ VacateDone(t) \/ StartNewGameDone(t) \/ RatingsDone(t)
              \/ QueryFails(t) \/ ResultHalfDone(t)
       PROVE  Moves
  BY <1>13, FinishMoves
  DEF NotAuthed, FormTableDone, StartDone, VacateDone, StartNewGameDone,
      RatingsDone, QueryFails, ResultHalfDone
<1>14. ASSUME NEW t \in Task, TaskStep(t) PROVE Moves
  BY <1>1, <1>2, <1>5, <1>6, <1>7, <1>9, <1>10, <1>11, <1>13, <1>14 DEF TaskStep
<1>15. CASE UNCHANGED task
  BY <1>15 DEF Moves
<1>16. ASSUME NEW u \in User, NEW g \in GameID, OnOfflineUser(u, g) PROVE UNCHANGED task
  BY <1>16 DEF OnOfflineUser, Wedge
<1> QED
  BY <1>8, <1>12, <1>14, <1>15, <1>16, RequestMoves
  DEF Next, vars, ReachStart, CheckGameIdle

-----------------------------------------------------------------------------
(* What the steps leave to the futures that wait *)

\* Nobody moves on or off a seat while a query holds the guard of the game.
LEMMA GuardedStands ==
  ASSUME SInv, [Next]_vars, NEW g \in GameID, ReadGuarded(g)
  PROVE  players'[g] = players[g]
<1>0. /\ G!TypeOK /\ task \in [Task -> TaskState]
      /\ \A t \in Task : ParametersFit(task[t]) /\ Fits(task[t])
  BY DEF SInv, TypeOK
<1>1. life[g] # "unborn"
  BY <1>0 DEF ReadGuarded, Fits
<1> DEFINE Stands == players'[g] = players[g]
<1>2. ASSUME NEW t \in Task, FormTableDone(t) \/ StartNewGameDone(t) PROVE Stands
  <2>1. /\ task[t].g \in GameID /\ task[t].g # g
    BY <1>0, <1>1, <1>2
    DEF FormTableDone, StartNewGameDone, At, ParametersFit, Fits, NewGameStages
  <2> QED
    BY <1>0, <1>2, <2>1
    DEF FormTableDone, StartNewGameDone, G!FormTable, G!StartNewGame, G!TypeOK
<1>3. ASSUME NEW t \in Task, Sit(t) PROVE Stands
  <2>1. task[t].g \in GameID
    BY <1>0, <1>3 DEF Sit, At, ParametersFit
  <2> QED
    BY <1>0, <1>3, <2>1 DEF Sit, G!Sit, G!TypeOK, gameVars
<1>4. ASSUME NEW t \in Task, Vacate(t) PROVE Stands
  <2>1. task[t].g \in GameID
    BY <1>0, <1>4 DEF Vacate, At, ParametersFit
  <2> QED
    BY <1>0, <1>4, <2>1 DEF Vacate, G!Vacate, G!TypeOK, gameVars
<1>5. ASSUME NEW u \in User, NEW h \in GameID, OnOfflineUser(u, h) PROVE Stands
  BY <1>0, <1>5 DEF OnOfflineUser, G!OnOfflineUser, G!TypeOK, gameVars
<1>6. ASSUME NEW t \in Task,
             \/ SitDone(t) \/ ResultDone(t) \/ RatingsDone(t) \/ FlagGame(t)
      PROVE  UNCHANGED players
  BY <1>6 DEF SitDone, ResultDone, RatingsDone, FlagGame, G!StartGame, RmGame,
              G!RmGame, G!EndGame, gameVars
<1>7. ASSUME NEW t \in Task, TaskStep(t) PROVE Stands
  BY <1>2, <1>3, <1>4, <1>6, <1>7
  DEF TaskStep, NotAuthed, FormTable, StartDone, VacateDone, StartNewGame,
      RecordMove, RecordGame, QueryFails, ResultHalfDone, gameVars
<1>8. ASSUME NEW u \in User, NEW h \in GameID, NEW mates \in BOOLEAN,
             MakeMove(u, h, mates)
      PROVE  UNCHANGED players
  BY <1>8 DEF MakeMove, G!MakeMove
<1>9. CASE UNCHANGED players
  BY <1>9
<1> QED
  BY <1>5, <1>6, <1>7, <1>8, <1>9
  DEF Next, vars, gameVars, QueueFormation, QueueSit, QueueVacate,
      SeekFormsGame, CheckGameIdle, CheckGame, ReachStart, G!ReachStart

\* A new id goes to the game of the future that holds it.
LEMMA NewIdsStand ==
  ASSUME SInv, [Next]_vars, NEW t \in Task, task[t].stage \in NewGameStages,
         task'[t] = task[t]
  PROVE  life'[task[t].g] = "unborn"
<1>0. /\ G!TypeOK /\ task \in [Task -> TaskState] /\ NewIdsDiffer
      /\ \A o \in Task : ParametersFit(task[o]) /\ Fits(task[o])
  BY DEF SInv, TypeOK
<1>1. task[t].g \in GameID /\ life[task[t].g] = "unborn"
  BY <1>0 DEF ParametersFit, Fits, NewGameStages
<1>2. ASSUME NEW o \in Task, FormTableDone(o) \/ StartNewGameDone(o)
      PROVE  life'[task[t].g] = "unborn"
  <2>1. task[o].stage \in NewGameStages /\ Finish(o)
    BY <1>2 DEF FormTableDone, StartNewGameDone, At, NewGameStages
  <2>2. o # t
    BY <1>0, <2>1, IdleFits DEF Finish, NewGameStages
  <2>3. task[o].g \in GameID /\ task[o].g # task[t].g
    BY <1>0, <2>1, <2>2 DEF NewIdsDiffer, ParametersFit, NewGameStages
  <2> QED
    BY <1>0, <1>1, <1>2, <2>3
    DEF FormTableDone, StartNewGameDone, G!FormTable, G!StartNewGame, G!TypeOK
<1>3. ASSUME NEW o \in Task, ResultDone(o) \/ RatingsDone(o)
      PROVE  life'[task[t].g] = "unborn"
  BY <1>0, <1>1, <1>3 DEF ResultDone, RatingsDone, RmGame, G!RmGame, gameVars, G!TypeOK
<1>4. ASSUME NEW o \in Task, TaskStep(o) PROVE life'[task[t].g] = "unborn"
  BY <1>1, <1>2, <1>3, <1>4
  DEF TaskStep, NotAuthed, FormTable, StartDone, VacateDone, StartNewGame,
      RecordMove, RecordGame, QueryFails, ResultHalfDone, gameVars, Sit, G!Sit, SitDone,
      G!StartGame, Vacate, G!Vacate
<1>5. ASSUME UNCHANGED life PROVE life'[task[t].g] = "unborn"
  BY <1>1, <1>5
<1> QED
  BY <1>4, <1>5
  DEF Next, vars, gameVars, QueueFormation, QueueSit, QueueVacate,
      SeekFormsGame, CheckGameIdle, CheckGame, ReachStart, G!ReachStart,
      MakeMove, G!MakeMove, OnOfflineUser, G!OnOfflineUser, FlagGame, G!EndGame

\* The result column of a game is written with its result or not at all.
LEMMA RowResultStep ==
  ASSUME SInv, [Next]_vars, NEW g \in GameID
  PROVE  rowResult'[g] \in {rowResult[g], result[g]}
<1>1. ASSUME NEW t \in Task, ResultDone(t) \/ ResultHalfDone(t)
      PROVE  rowResult'[g] \in {rowResult[g], result[g]}
  BY <1>1 DEF ResultDone, ResultHalfDone, SInv, TypeOK
<1>2. ASSUME NEW t \in Task, TaskStep(t)
      PROVE  rowResult'[g] \in {rowResult[g], result[g]}
  BY <1>1, <1>2
  DEF TaskStep, NotAuthed, FormTable, FormTableDone, Sit, Wedge, SitDone,
      StartDone, Vacate, VacateDone, StartNewGame, StartNewGameDone,
      RecordMove, RecordGame, RatingsDone, QueryFails, ResultHalfDone, rowVars
<1> QED
  BY <1>2
  DEF Next, vars, rowVars, QueueFormation, QueueSit, QueueVacate,
      SeekFormsGame, CheckGameIdle, CheckGame, BeginCheck, Wedge, ReachStart,
      MakeMove, OnOfflineUser, FlagGame

\* What a future relies on still holds when others have had their turns.
LEMMA StepFits ==
  SInv /\ [Next]_vars =>
    /\ \A t \in Task : ParametersFit(task'[t]) /\ Fits(task[t])'
    /\ NewIdsDiffer'
<1> SUFFICES ASSUME SInv, [Next]_vars
             PROVE  /\ \A t \in Task : ParametersFit(task'[t]) /\ Fits(task[t])'
                    /\ NewIdsDiffer'
  OBVIOUS
<1>0. /\ G!TypeOK /\ task \in [Task -> TaskState] /\ NewIdsDiffer
      /\ \A o \in Task : ParametersFit(task[o]) /\ Fits(task[o])
  BY DEF SInv, TypeOK
<1>1. [G!Next]_(G!vars) /\ Moves
  BY StepImplementsGames, StepMoves
<1>2. ASSUME NEW o \in Task, task'[o] = task[o]
      PROVE  ParametersFit(task'[o]) /\ Fits(task[o])'
  <2>1. PICK x \in TaskState : x = task[o]
    BY <1>0
  <2>2. x.stage \notin {"idle", "form", "create"} => x.g \in GameID
    BY <1>0, <2>1 DEF ParametersFit
  <2>3. x.g \in GameID =>
          /\ life[x.g] # "unborn" => life'[x.g] # "unborn"
          /\ result[x.g] # "None" => result'[x.g] = result[x.g]
          /\ rowResult'[x.g] \in {rowResult[x.g], result[x.g]}
    BY <1>0, <1>1, GamesStepAdvances, RowResultStep
  <2>4. x.stage \in NewGameStages => life'[x.g] = "unborn"
    BY <1>2, <2>1, NewIdsStand
  <2>5. x.stage \in {"sitDb", "vacateDb"} => players'[x.g] = players[x.g]
    BY <2>1, <2>2, GuardedStands DEF ReadGuarded, GuardStages
  <2>6. Fits(x)
    BY <1>0, <2>1
  <2>7. Fits(x)'
    BY <2>2, <2>3, <2>4, <2>5, <2>6 DEF Fits, NewGameStages, GuardStages
  <2>8. task'[o] = x
    BY <1>2, <2>1
  <2> QED
    BY <1>0, <2>1, <2>7, <2>8 DEF Fits
<1>3. CASE UNCHANGED task
  BY <1>0, <1>2, <1>3 DEF NewIdsDiffer
<1>4. ASSUME NEW t \in Task, NEW x \in TaskState, Becomes(t, x), Fits(x)'
      PROVE  /\ \A o \in Task : ParametersFit(task'[o]) /\ Fits(task[o])'
             /\ NewIdsDiffer'
  <2>1. \A o \in Task : task'[o] = IF o = t THEN x ELSE task[o]
    BY <1>0, <1>4 DEF Becomes
  <2>2. ParametersFit(task'[t]) /\ Fits(task[t])'
    BY <1>4, <2>1 DEF Becomes, Fits
  <2>3. NewIdsDiffer'
    BY <1>0, <1>4, <2>1 DEF Becomes, NewIdsDiffer
  <2> QED
    BY <1>2, <2>1, <2>2, <2>3
<1> QED
  BY <1>1, <1>3, <1>4 DEF Moves

-----------------------------------------------------------------------------
(* The invariant *)

\* The columns and flags keep their types.
LEMMA StepColumns ==
  ASSUME SInv, [Next]_vars
  PROVE  /\ armed' \in [GameID -> BOOLEAN]
         /\ wedged' \in BOOLEAN
         /\ rowPlayers' \in [GameID -> [Seat -> User \cup {NoUser}]]
         /\ rowResult' \in [GameID -> G!Result]
         /\ rateCount' \in [GameID -> 0 .. RatingCap]
<1> DEFINE Columns == /\ armed' \in [GameID -> BOOLEAN]
                      /\ wedged' \in BOOLEAN
                      /\ rowPlayers' \in [GameID -> [Seat -> User \cup {NoUser}]]
                      /\ rowResult' \in [GameID -> G!Result]
                      /\ rateCount' \in [GameID -> 0 .. RatingCap]
<1>0. /\ task \in [Task -> TaskState]
      /\ armed \in [GameID -> BOOLEAN] /\ wedged \in BOOLEAN
      /\ rowPlayers \in [GameID -> [Seat -> User \cup {NoUser}]]
      /\ rowResult \in [GameID -> G!Result]
      /\ rateCount \in [GameID -> 0 .. RatingCap]
      /\ result \in [GameID -> G!Result]
      /\ \A t \in Task : ParametersFit(task[t])
  BY DEF SInv, TypeOK, G!TypeOK
<1>1. ASSUME NEW t \in Task, \/ FormTableDone(t) \/ StartNewGameDone(t)
                             \/ SitDone(t) \/ VacateDone(t)
      PROVE  Columns
  <2>1. task[t].p \in [Seat -> User \cup {NoUser}]
    BY <1>0 DEF TaskState
  <2>2. FormTableDone(t) => task[t].u \in User
    BY <1>0 DEF FormTableDone, At, ParametersFit
  <2>3. FormTableDone(t) =>
          [G!EmptySeats EXCEPT ![HostSeat] = task[t].u] \in [Seat -> User \cup {NoUser}]
    BY <2>2 DEF G!EmptySeats
  <2> QED
    BY <1>0, <1>1, <2>1, <2>3
    DEF FormTableDone, StartNewGameDone, SitDone, VacateDone
<1>2. ASSUME NEW t \in Task, ResultDone(t) \/ ResultHalfDone(t) \/ RatingsDone(t)
      PROVE  Columns
  <2>1. task[t].g \in GameID
    BY <1>0, <1>2 DEF ResultDone, ResultHalfDone, RatingsDone, At, ParametersFit
  <2>2. \A n \in 0 .. RatingCap : n < RatingCap => n + 1 \in 0 .. RatingCap
    BY ServerAssumption
  <2>3. CASE RatingsDone(t)
    BY <1>0, <2>1, <2>2, <2>3 DEF RatingsDone
  <2>4. CASE ResultDone(t) \/ ResultHalfDone(t)
    BY <1>0, <2>1, <2>4 DEF ResultDone, ResultHalfDone
  <2> QED
    BY <1>2, <2>3, <2>4
<1>3. ASSUME UNCHANGED rowVars, armed' \in [GameID -> BOOLEAN], wedged' \in BOOLEAN
      PROVE  Columns
  BY <1>0, <1>3 DEF rowVars
<1>4. ASSUME NEW t \in Task, TaskStep(t) PROVE Columns
  BY <1>0, <1>1, <1>2, <1>3, <1>4
  DEF TaskStep, NotAuthed, FormTable, Sit, Wedge, StartDone, Vacate,
      StartNewGame, RecordMove, RecordGame, QueryFails, ResultHalfDone
<1>5. CASE UNCHANGED vars
  BY <1>0, <1>3, <1>5 DEF vars
<1> QED
  BY <1>0, <1>3, <1>4, <1>5
  DEF Next, QueueFormation, QueueSit, QueueVacate, SeekFormsGame,
      CheckGameIdle, CheckGame, BeginCheck, Wedge, ReachStart, MakeMove,
      OnOfflineUser, FlagGame

\* A game that is removed has its result written, and the players of a rated
\* one their ratings in memory: record_game has come past its last query.
LEMMA StepRecorded == SInv /\ [Next]_vars => RemovedIsRecorded'
<1> SUFFICES ASSUME SInv, [Next]_vars, NEW g \in GameID, life'[g] = "gone"
             PROVE  /\ rowResult'[g] = result'[g] /\ rowResult'[g] # "None"
                    /\ rated'[g] /\ RatingCap > 0 => rateCount'[g] >= 1
  BY DEF RemovedIsRecorded
<1> DEFINE Recorded == /\ rowResult'[g] = result'[g] /\ rowResult'[g] # "None"
                       /\ rated'[g] /\ RatingCap > 0 => rateCount'[g] >= 1
<1>0. /\ G!TypeOK /\ TypeOK
      /\ \A o \in Task : ParametersFit(task[o]) /\ Fits(task[o])
  BY DEF SInv
<1>1. [G!Next]_(G!vars)
  BY StepImplementsGames
<1>2. \/ life[g] = "gone"
      \/ life[g] = "live" /\ result[g] # "None"
  BY <1>0, <1>1, GamesStepAdvances
<1>3. /\ rated'[g] = rated[g]
      /\ result[g] # "None" => result'[g] = result[g]
  BY <1>0, <1>1, <1>2, GamesStepAdvances
\* Ratings are counted upwards.
<1>4. \A h \in GameID : rateCount[h] \in 0 .. RatingCap
  BY <1>0 DEF TypeOK
<1>5. rateCount'[g] = rateCount[g] \/ (rateCount'[g] = rateCount[g] + 1)
  <2>1. ASSUME NEW t \in Task, RatingsDone(t)
        PROVE  rateCount'[g] = rateCount[g] \/ (rateCount'[g] = rateCount[g] + 1)
    BY <1>0, <2>1 DEF RatingsDone, TypeOK
  <2>2. UNCHANGED rateCount \/ \E t \in Task : RatingsDone(t)
    BY DEF Next, vars, rowVars, QueueFormation, QueueSit, QueueVacate,
           SeekFormsGame, CheckGameIdle, CheckGame, BeginCheck, Wedge,
           ReachStart, MakeMove, OnOfflineUser, FlagGame, TaskStep, NotAuthed,
           FormTable, FormTableDone, Sit, SitDone, StartDone, Vacate,
           VacateDone, StartNewGame, StartNewGameDone, RecordMove, RecordGame,
           ResultDone, QueryFails, ResultHalfDone
  <2> QED
    BY <2>1, <2>2
<1>6. CASE life[g] = "gone"
  <2>1. /\ rowResult[g] = result[g] /\ rowResult[g] # "None"
        /\ rated[g] /\ RatingCap > 0 => rateCount[g] >= 1
    BY <1>6 DEF SInv, RemovedIsRecorded
  <2>2. rowResult'[g] = result[g]
    BY <2>1, RowResultStep
  <2>3. rateCount[g] >= 1 => rateCount'[g] >= 1
    BY <1>4, <1>5
  <2> QED
    BY <1>3, <2>1, <2>2, <2>3
<1>7. CASE life[g] = "live" /\ result[g] # "None"
  <2>1. ASSUME NEW t \in Task, ResultDone(t) PROVE Recorded
    <3>1. task[t].g = g /\ ~rated[g] /\ rowResult'[g] = result[g]
      BY <1>0, <1>7, <2>1
      DEF ResultDone, RmGame, G!RmGame, gameVars, G!TypeOK, TypeOK
    <3> QED
      BY <1>3, <1>7, <3>1
  <2>2. ASSUME NEW t \in Task, RatingsDone(t) PROVE Recorded
    <3>1. task[t].g = g
      BY <1>0, <1>7, <2>2 DEF RatingsDone, RmGame, G!RmGame, gameVars, G!TypeOK
    <3>2. rowResult'[g] = result[g]
      BY <1>0, <2>2, <3>1 DEF RatingsDone, At, Fits
    <3>3. RatingCap > 0 => rateCount'[g] >= 1
      BY <1>0, <1>4, <2>2, <3>1, ServerAssumption DEF RatingsDone, TypeOK
    <3> QED
      BY <1>3, <1>7, <3>2, <3>3
  <2>3. ASSUME NEW t \in Task, FormTableDone(t) \/ StartNewGameDone(t)
        PROVE  life'[g] # "gone"
    BY <1>0, <1>7, <2>3
    DEF FormTableDone, StartNewGameDone, G!FormTable, G!StartNewGame, G!TypeOK
  <2>4. \/ life'[g] # "gone" \/ UNCHANGED life
        \/ \E t \in Task : ResultDone(t) \/ RatingsDone(t)
    BY <2>3
    DEF Next, vars, gameVars, QueueFormation, QueueSit, QueueVacate,
        SeekFormsGame, CheckGameIdle, CheckGame, ReachStart, G!ReachStart,
        MakeMove, G!MakeMove, OnOfflineUser, G!OnOfflineUser, FlagGame,
        G!EndGame, TaskStep, NotAuthed, FormTable, Sit, G!Sit, SitDone,
        G!StartGame, StartDone, Vacate, G!Vacate, VacateDone, StartNewGame,
        RecordMove, RecordGame, QueryFails, ResultHalfDone
  <2> QED
    BY <1>7, <2>1, <2>2, <2>4
<1> QED
  BY <1>2, <1>6, <1>7

\* Every step keeps the invariant.
LEMMA NextSInv == SInv /\ [Next]_vars => SInv'
<1> SUFFICES ASSUME SInv, [Next]_vars PROVE SInv'
  OBVIOUS
<1>1. G!TypeOK' /\ G!OneSeatPerTable'
  BY StepImplementsGames, GamesStepKeeps DEF SInv
<1>2. /\ \A t \in Task : ParametersFit(task'[t]) /\ Fits(task[t])'
      /\ NewIdsDiffer'
  BY StepFits
<1>3. RemovedIsRecorded'
  BY StepRecorded
<1>4. task' \in [Task -> TaskState]
  <2>1. Moves
    BY StepMoves
  <2> QED
    BY <2>1 DEF Moves, Becomes, SInv, TypeOK
<1>5. \A t \in Task :
        /\ task'[t].stage = "idle" => task'[t] = Idle
        /\ task'[t].stage \in GuardStages =>
             task'[t].g # NoGame /\ life'[task'[t].g] # "unborn"
  <2>1. NoGame \notin GameID
    BY ServerAssumption DEF G!GamesAssumption
  <2> QED
    BY <1>2, <2>1 DEF ParametersFit, Fits, GuardStages
<1>6. TypeOK'
  BY <1>4, <1>5, StepColumns DEF TypeOK
<1>7. \A t \in Task : ParametersFit(task[t])' /\ Fits(task[t])'
  BY <1>2 DEF ParametersFit
<1> QED
  BY <1>1, <1>2, <1>3, <1>6, <1>7 DEF SInv

\* The server starts with it.
LEMMA InitSInv == Init => SInv
<1> SUFFICES ASSUME Init PROVE SInv
  OBVIOUS
<1>1. G!TypeOK /\ G!OneSeatPerTable
  BY ServerAssumption
  DEF Init, G!Init, G!TypeOK, G!OneSeatPerTable, G!EmptySeats, G!Life,
      G!Start, G!Result, G!GamesAssumption
<1>2. \A t \in Task : task[t] = Idle /\ task[t].stage = "idle"
  BY IdleFits DEF Init
<1>3. \A t \in Task : ParametersFit(task[t]) /\ Fits(task[t])
  BY <1>2 DEF ParametersFit, Fits, NewGameStages, GuardStages
<1>4. NewIdsDiffer
  BY <1>2 DEF NewIdsDiffer, NewGameStages
<1>5. RemovedIsRecorded
  BY DEF Init, G!Init, RemovedIsRecorded
<1>6. rowPlayers \in [GameID -> [Seat -> User \cup {NoUser}]]
  <2>1. G!EmptySeats \in [Seat -> User \cup {NoUser}]
    BY DEF G!EmptySeats
  <2> QED
    BY <2>1 DEF Init
<1>7. /\ rowResult \in [GameID -> G!Result]
      /\ armed \in [GameID -> BOOLEAN] /\ wedged \in BOOLEAN
  BY DEF Init, G!Result
<1>8. rateCount \in [GameID -> 0 .. RatingCap]
  BY ServerAssumption DEF Init
<1>9. task \in [Task -> TaskState]
  BY IdleFits DEF Init
<1>10. TypeOK
  BY <1>2, <1>6, <1>7, <1>8, <1>9 DEF TypeOK, GuardStages
<1> QED
  BY <1>1, <1>3, <1>4, <1>5, <1>10 DEF SInv

\* The server's own invariant, for any number of users, games, slots.
THEOREM ServerInvariant == Spec => []SInv
BY InitSInv, NextSInv, PTL DEF Spec

\* Futures, rows and guards are well typed.
THEOREM ServerTypeOK == Spec => []TypeOK
<1>1. SInv => TypeOK
  BY DEF SInv
<1> QED
  BY <1>1, ServerInvariant, PTL

\* A game leaves the registry with its result in the database, whatever
\* queries and messages fail (record_game, bughouse_server.rs:849-872).
THEOREM RemovedIsRecordedTheorem == Spec => []RemovedIsRecorded
<1>1. SInv => RemovedIsRecorded
  BY DEF SInv
<1> QED
  BY <1>1, ServerInvariant, PTL

\* The server implements the registry.
THEOREM ImplementsGamesTheorem == Spec => ImplementsGames
<1>1. Init => G!Init
  BY DEF Init
<1> QED
  BY <1>1, StepImplementsGames, ServerInvariant, PTL
  DEF Spec, ImplementsGames, G!Spec

\* Nothing is written to a game's row but how its seats are: the guard that
\* update_seats holds across its query keeps them (bughouse_server.rs:583-597).
THEOREM RowWritesAreCurrentTheorem == Spec => RowWritesAreCurrent
<1> DEFINE Current == \A g \in GameID :
      rowPlayers'[g] # rowPlayers[g] => rowPlayers'[g] = players'[g]
<1>1. ASSUME SInv, [Next]_vars PROVE [Current]_vars
  <2> SUFFICES ASSUME NEW g \in GameID, rowPlayers'[g] # rowPlayers[g]
               PROVE  rowPlayers'[g] = players'[g]
    OBVIOUS
  <2>0. /\ G!TypeOK /\ TypeOK
        /\ \A t \in Task : ParametersFit(task[t]) /\ Fits(task[t])
    BY <1>1 DEF SInv
  <2>1. ASSUME NEW t \in Task, SitDone(t) PROVE rowPlayers'[g] = players'[g]
    BY <2>0, <2>1
    DEF SitDone, At, Fits, TypeOK, gameVars, G!StartGame, GuardStages
  <2>2. ASSUME NEW t \in Task, VacateDone(t) PROVE rowPlayers'[g] = players'[g]
    BY <2>0, <2>2 DEF VacateDone, At, Fits, TypeOK, gameVars
  <2>3. ASSUME NEW t \in Task, FormTableDone(t) PROVE rowPlayers'[g] = players'[g]
    BY <2>0, <2>3 DEF FormTableDone, TypeOK, G!FormTable, G!TypeOK
  <2>4. ASSUME NEW t \in Task, StartNewGameDone(t) PROVE rowPlayers'[g] = players'[g]
    BY <2>0, <2>4 DEF StartNewGameDone, TypeOK, G!StartNewGame, G!TypeOK
  <2>5. ASSUME NEW t \in Task, TaskStep(t) PROVE rowPlayers'[g] = players'[g]
    BY <2>1, <2>2, <2>3, <2>4, <2>5
    DEF TaskStep, NotAuthed, FormTable, Sit, Wedge, StartDone, Vacate,
        StartNewGame, RecordMove, RecordGame, ResultDone, RatingsDone,
        QueryFails, ResultHalfDone, rowVars
  <2> QED
    BY <1>1, <2>5
    DEF Next, vars, rowVars, QueueFormation, QueueSit, QueueVacate,
        SeekFormsGame, CheckGameIdle, CheckGame, BeginCheck, Wedge, ReachStart,
        MakeMove, OnOfflineUser, FlagGame
<1> QED
  BY <1>1, ServerInvariant, PTL DEF Spec, RowWritesAreCurrent

\* A game that gets its start time has the row of its players.
THEOREM StartedRowMatchesTheorem == Spec => StartedRowMatches
<1> DEFINE Matches == \A g \in GameID :
      start[g] = "None" /\ start'[g] = "Pending" => rowPlayers'[g] = players'[g]
<1>1. ASSUME SInv, [Next]_vars PROVE [Matches]_vars
  <2> SUFFICES ASSUME NEW g \in GameID, start[g] = "None", start'[g] = "Pending"
               PROVE  rowPlayers'[g] = players'[g]
    OBVIOUS
  <2>0. /\ G!TypeOK /\ TypeOK
        /\ \A t \in Task : ParametersFit(task[t]) /\ Fits(task[t])
    BY <1>1 DEF SInv
  <2>1. ASSUME NEW t \in Task, SitDone(t) PROVE rowPlayers'[g] = players'[g]
    BY <2>0, <2>1
    DEF SitDone, At, ParametersFit, Fits, TypeOK, gameVars, G!TypeOK,
        G!StartGame, GuardStages
  <2>2. ASSUME NEW t \in Task, StartNewGameDone(t) PROVE rowPlayers'[g] = players'[g]
    BY <2>0, <2>2 DEF StartNewGameDone, TypeOK, G!StartNewGame, G!TypeOK
  <2>3. ASSUME NEW h \in GameID, G!ReachStart(h) PROVE start'[g] # "Pending" \/ UNCHANGED start[g]
    BY <2>0, <2>3 DEF G!ReachStart, G!TypeOK
  <2>4. ASSUME NEW t \in Task, TaskStep(t) PROVE rowPlayers'[g] = players'[g]
    BY <2>1, <2>2, <2>4
    DEF TaskStep, NotAuthed, FormTable, FormTableDone, G!FormTable, Sit, G!Sit,
        StartDone, Vacate, G!Vacate, VacateDone, StartNewGame, RecordMove,
        RecordGame, ResultDone, RatingsDone, RmGame, G!RmGame, QueryFails,
        ResultHalfDone, gameVars
  <2> QED
    BY <1>1, <2>3, <2>4
    DEF Next, vars, gameVars, QueueFormation, QueueSit, QueueVacate,
        SeekFormsGame, CheckGameIdle, CheckGame, ReachStart, MakeMove,
        G!MakeMove, OnOfflineUser, G!OnOfflineUser, FlagGame, G!EndGame
<1> QED
  BY <1>1, ServerInvariant, PTL DEF Spec, StartedRowMatches

\* In the server as in the registry, an entry of user_games leads to a live
\* game where its user sits, no result is ever overwritten, and nobody's seat is
\* given to another.
THEOREM ServerKeepsGames ==
  Spec => []G!LinkedIsSeated /\ G!ResultIsFinal /\ G!SeatsFallEmptyFirst
<1>0. GP!GamesAssumption
  BY ServerAssumption DEF G!GamesAssumption, GP!GamesAssumption
<1>1. G!Init => GP!Init
  BY DEF G!Init, GP!Init, G!EmptySeats, GP!EmptySeats
<1>2. [G!Next]_(G!vars) => [GP!Next]_(GP!vars)
  BY SameSteps
<1>3. GP!LinkedIsSeated => G!LinkedIsSeated
  BY DEF GP!LinkedIsSeated, G!LinkedIsSeated, GP!Seated, G!Seated
<1>4. /\ GP!Spec => []GP!LinkedIsSeated
      /\ GP!Spec => GP!ResultIsFinal
      /\ GP!Spec => GP!SeatsFallEmptyFirst
  BY <1>0, GP!LinkedIsSeatedTheorem, GP!ResultIsFinalTheorem,
     GP!SeatsFallEmptyFirstTheorem
<1> QED
  BY <1>1, <1>2, <1>3, <1>4, ImplementsGamesTheorem, PTL
  DEF ImplementsGames, G!Spec, GP!Spec, GP!ResultIsFinal, G!ResultIsFinal,
      GP!SeatsFallEmptyFirst, G!SeatsFallEmptyFirst,
      GP!vars, G!vars

-----------------------------------------------------------------------------
(* A server whose clients neither sit nor vacate *)

\* Games come out of the seek queues only; tables are formed, and left by
\* going offline.
NobodySits == "sit" \notin Requests /\ "vacate" \notin Requests

\* The futures that sit and vacate lead to.
TableStages == {"sit", "vacate", "sitDb", "vacateDb", "startDb"}

\* A game that has started is full, and only such a game gets a result.  So
\* the one guard that is left, that of the query for a result, is never in
\* the way: CheckGame passes by a game with a result, and nobody goes
\* offline from a table that is full.
StartedIsFull ==
  \A g \in GameID :
    /\ life[g] = "unborn" => start[g] = "None"
    /\ start[g] # "None" => ~G!HasEmptySeat(g)
    /\ result[g] # "None" => start[g] # "None"

FreeInv ==
  /\ \A t \in Task : task[t].stage \notin TableStages
  /\ StartedIsFull
  /\ NeverWedged

\* The guard of a game is held only when it has a result.
LEMMA GuardMeansResult ==
  ASSUME SInv, FreeInv, NEW g \in GameID, ReadGuarded(g)
  PROVE  result[g] # "None" /\ ~G!HasEmptySeat(g)
<1>1. PICK t \in Task : task[t].stage \in GuardStages /\ task[t].g = g
  BY DEF ReadGuarded
<1>2. task[t].stage = "resultDb"
  BY <1>1 DEF FreeInv, TableStages, GuardStages
<1>3. result[g] # "None"
  BY <1>1, <1>2 DEF SInv, Fits
<1> QED
  BY <1>3 DEF FreeInv, StartedIsFull

\* Nothing leads to a future of sit or vacate but their requests.
LEMMA StagesStayFree ==
  ASSUME NobodySits, SInv, FreeInv, [Next]_vars
  PROVE  \A t \in Task : task'[t].stage \notin TableStages
<1> DEFINE Free == \A o \in Task : task'[o].stage \notin TableStages
<1>0. /\ task \in [Task -> TaskState]
      /\ \A t \in Task : task[t].stage \notin TableStages
  BY DEF SInv, TypeOK, FreeInv
<1>1. ASSUME NEW t \in Task, NEW x \in TaskState, x.stage \notin TableStages,
             task' = [task EXCEPT ![t] = x]
      PROVE  Free
  BY <1>0, <1>1
<1>2. ASSUME NEW t \in Task, Finish(t) PROVE Free
  BY <1>1, <1>2, IdleFits DEF Finish, TableStages
<1>3. ASSUME NEW t \in Task, NEW stage \in Stages \ TableStages, Goto(t, stage)
      PROVE  Free
  <2>1. PICK x \in TaskState : x = [task[t] EXCEPT !.stage = stage]
    BY <1>0 DEF TaskState
  <2>2. x.stage = stage /\ task' = [task EXCEPT ![t] = x]
    BY <1>0, <1>3, <2>1 DEF Goto, TaskState
  <2> QED
    BY <1>1, <2>2
<1>4. ASSUME NEW x \in TaskState, x.stage \notin TableStages, Enqueue(x) PROVE Free
  BY <1>1, <1>4 DEF Enqueue
<1>5. ASSUME NEW t \in Task, NEW stage \in Stages \ TableStages, NEW g \in GameID,
             task' = [task EXCEPT ![t].stage = stage, ![t].g = g]
      PROVE  Free
  <2>1. PICK x \in TaskState : x = [task[t] EXCEPT !.stage = stage, !.g = g]
    BY <1>0 DEF TaskState
  <2>2. x.stage = stage /\ task' = [task EXCEPT ![t] = x]
    BY <1>0, <1>5, <2>1 DEF TaskState
  <2> QED
    BY <1>1, <2>2
<1>6. ASSUME UNCHANGED task PROVE Free
  BY <1>0, <1>6
<1> HIDE DEF Free
<1>7. {"formDb", "createDb", "recordGame", "resultDb", "ratingsDb"}
        \subseteq Stages \ TableStages
  BY DEF Stages, GuardStages, TableStages
<1>8. ASSUME NEW u \in User, NEW r \in BOOLEAN, QueueFormation(u, r) PROVE Free
  <2>1. PICK x \in TaskState : x = [Idle EXCEPT !.stage = "form", !.u = u, !.r = r]
    BY IdleFits DEF TaskState, Stages
  <2>2. x.stage = "form"
    BY <2>1, IdleFits DEF TaskState
  <2> QED
    BY <1>4, <1>8, <2>1, <2>2 DEF QueueFormation, TableStages
<1>9. ASSUME NEW p \in G!Lineup, NEW r \in BOOLEAN, SeekFormsGame(p, r) PROVE Free
  <2>1. p \in [Seat -> User \cup {NoUser}]
    BY DEF G!Lineup
  <2>2. PICK x \in TaskState : x = [Idle EXCEPT !.stage = "create", !.p = p, !.r = r]
    BY <2>1, IdleFits DEF TaskState, Stages
  <2>3. x.stage = "create"
    BY <2>2, IdleFits DEF TaskState
  <2> QED
    BY <1>4, <1>9, <2>2, <2>3 DEF SeekFormsGame, TableStages
<1>10. ASSUME NEW u \in User, NEW g \in GameID, NEW mates \in BOOLEAN,
              MakeMove(u, g, mates)
       PROVE  Free
  <2>1. PICK x \in TaskState : x = [Idle EXCEPT !.stage = "recordMove", !.g = g]
    BY IdleFits DEF TaskState, Stages
  <2>2. x.stage = "recordMove"
    BY <2>1, IdleFits DEF TaskState
  <2> QED
    BY <1>4, <1>6, <1>10, <2>1, <2>2 DEF MakeMove, TableStages
<1>11. ASSUME NEW g \in GameID, CheckGame(g) PROVE Free
  <2>1. PICK x \in TaskState : x = [Idle EXCEPT !.stage = "checkGame", !.g = g]
    BY IdleFits DEF TaskState, Stages
  <2>2. x.stage = "checkGame"
    BY <2>1, IdleFits DEF TaskState
  <2> QED
    BY <1>4, <1>6, <1>11, <2>1, <2>2 DEF CheckGame, BeginCheck, Wedge, TableStages
<1>12. ASSUME NEW t \in Task, TaskStep(t) PROVE Free
  <2>1. ~(Sit(t) \/ SitDone(t) \/ StartDone(t) \/ Vacate(t) \/ VacateDone(t))
    BY <1>0 DEF Sit, SitDone, StartDone, Vacate, VacateDone, At, TableStages
  <2>2. CASE FormTable(t)
    BY <1>2, <1>5, <1>7, <2>2 DEF FormTable
  <2>3. CASE StartNewGame(t)
    BY <1>5, <1>7, <2>3 DEF StartNewGame
  <2>4. CASE RecordMove(t) \/ RecordGame(t) \/ ResultDone(t)
    BY <1>2, <1>3, <1>7, <2>4 DEF RecordMove, RecordGame, ResultDone
  <2> QED
    BY <1>2, <1>12, <2>1, <2>2, <2>3, <2>4
    DEF TaskStep, NotAuthed, FormTableDone, StartNewGameDone, RatingsDone, QueryFails,
        ResultHalfDone
<1>13. ASSUME NEW t \in Task, FlagGame(t) PROVE Free
  BY <1>3, <1>7, <1>13 DEF FlagGame
<1>14. ASSUME NEW u \in User, NEW g \in GameID, OnOfflineUser(u, g) PROVE Free
  BY <1>6, <1>14 DEF OnOfflineUser, Wedge
<1>15. Free
  BY <1>6, <1>8, <1>9, <1>10, <1>11, <1>12, <1>13, <1>14
  DEF Next, vars, NobodySits, QueueSit, QueueVacate, CheckGameIdle, ReachStart
<1> QED
  BY <1>15 DEF Free

\* Nobody leaves a game that has started.
LEMMA StartedStaysFull ==
  ASSUME SInv, FreeInv, [Next]_vars
  PROVE  StartedIsFull'
<1> DEFINE Full == StartedIsFull'
<1>0. /\ G!TypeOK /\ StartedIsFull /\ NoUser \notin User
      /\ \A t \in Task : ParametersFit(task[t]) /\ task[t].stage \notin TableStages
  BY ServerAssumption DEF SInv, FreeInv, G!GamesAssumption
<1>1. CASE UNCHANGED gameVars
  BY <1>0, <1>1 DEF StartedIsFull, gameVars, G!HasEmptySeat
<1>2. ASSUME NEW t \in Task, FormTableDone(t) PROVE Full
  <2>1. task[t].g \in GameID /\ task[t].u \in User
    BY <1>0, <1>2 DEF FormTableDone, At, ParametersFit
  <2> QED
    BY <1>0, <1>2, <2>1
    DEF FormTableDone, G!FormTable, G!TypeOK, StartedIsFull, G!HasEmptySeat
<1>3. ASSUME NEW t \in Task, StartNewGameDone(t) PROVE Full
  <2>1. task[t].g \in GameID /\ task[t].p \in G!Lineup
    BY <1>0, <1>3 DEF StartNewGameDone, At, ParametersFit
  <2>2. \A s \in Seat : task[t].p[s] # NoUser
    BY <1>0, <2>1 DEF G!Lineup
  <2> QED
    BY <1>0, <1>3, <2>1, <2>2
    DEF StartNewGameDone, G!StartNewGame, G!TypeOK, StartedIsFull, G!HasEmptySeat
<1>4. ASSUME NEW g \in GameID, RmGame(g) PROVE Full
  BY <1>0, <1>1, <1>4 DEF RmGame, G!RmGame, G!TypeOK, StartedIsFull, G!HasEmptySeat
<1>5. ASSUME NEW t \in Task, TaskStep(t) PROVE Full
  <2>1. ~(Sit(t) \/ SitDone(t) \/ StartDone(t) \/ Vacate(t) \/ VacateDone(t))
    BY <1>0 DEF Sit, SitDone, StartDone, Vacate, VacateDone, At, TableStages
  <2>2. CASE ResultDone(t) \/ RatingsDone(t)
    <3>1. task[t].g \in GameID
      BY <1>0, <2>2 DEF ResultDone, RatingsDone, At, ParametersFit
    <3> QED
      BY <1>1, <1>4, <2>2, <3>1 DEF ResultDone, RatingsDone
  <2> QED
    BY <1>1, <1>2, <1>3, <1>5, <2>1, <2>2
    DEF TaskStep, NotAuthed, FormTable, StartNewGame, RecordMove, RecordGame,
        QueryFails, ResultHalfDone
<1>6. ASSUME NEW u \in User, NEW g \in GameID, NEW mates \in BOOLEAN,
             MakeMove(u, g, mates)
      PROVE  Full
  BY <1>0, <1>6
  DEF MakeMove, G!MakeMove, G!CheckForMate, G!TypeOK, StartedIsFull, G!HasEmptySeat
<1>7. ASSUME NEW t \in Task, FlagGame(t) PROVE Full
  <2>1. task[t].g \in GameID
    BY <1>0, <1>7 DEF FlagGame, ParametersFit
  <2> QED
    BY <1>0, <1>7, <2>1
    DEF FlagGame, G!EndGame, G!TypeOK, StartedIsFull, G!HasEmptySeat
<1>8. ASSUME NEW u \in User, NEW g \in GameID, OnOfflineUser(u, g) PROVE Full
  BY <1>0, <1>1, <1>8
  DEF OnOfflineUser, G!OnOfflineUser, G!TypeOK, StartedIsFull, G!HasEmptySeat
<1>9. ASSUME NEW g \in GameID, ReachStart(g) PROVE Full
  BY <1>0, <1>9
  DEF ReachStart, G!ReachStart, G!TypeOK, StartedIsFull, G!HasEmptySeat
<1> QED
  BY <1>1, <1>5, <1>6, <1>7, <1>8, <1>9
  DEF Next, vars, QueueFormation, QueueSit, QueueVacate, SeekFormsGame,
      CheckGameIdle, CheckGame

\* A lock that the arbiter asks for is never held by one of its own futures.
LEMMA StaysUnwedged ==
  ASSUME SInv, FreeInv, [Next]_vars
  PROVE  NeverWedged'
<1>0. /\ NeverWedged
      /\ \A t \in Task : task[t].stage \notin TableStages
  BY DEF FreeInv
<1>1. ASSUME NEW g \in GameID, CheckGame(g) PROVE UNCHANGED wedged
  BY <1>1, GuardMeansResult DEF CheckGame, BeginCheck
<1>2. ASSUME NEW u \in User, NEW g \in GameID, OnOfflineUser(u, g) PROVE UNCHANGED wedged
  BY <1>2, GuardMeansResult DEF OnOfflineUser
<1>3. ASSUME NEW t \in Task, TaskStep(t) PROVE UNCHANGED wedged
  BY <1>0, <1>3
  DEF TaskStep, Sit, SitDone, StartDone, Vacate, VacateDone, At, TableStages,
      NotAuthed, FormTable, FormTableDone, StartNewGame, StartNewGameDone,
      RecordMove, RecordGame, ResultDone, RatingsDone, QueryFails, ResultHalfDone
<1>4. UNCHANGED wedged
  BY <1>1, <1>2, <1>3
  DEF Next, vars, QueueFormation, QueueSit, QueueVacate, SeekFormsGame,
      MakeMove, ReachStart, CheckGameIdle, FlagGame
<1> QED
  BY <1>0, <1>4 DEF NeverWedged

\* As long as nobody sits down or vacates a seat, the arbiter never waits for
\* a lock that only it can free, whatever tables are formed, games made out
\* of the seek queues, users lost and queries failed.  With the requests to
\* sit it may (run server_wedge).
THEOREM NeverWedgedTheorem ==
  ASSUME NobodySits
  PROVE  Spec => []NeverWedged
<1>1. Init => FreeInv
  <2> SUFFICES ASSUME Init PROVE FreeInv
    OBVIOUS
  <2>1. \A t \in Task : task[t].stage \notin TableStages
    BY IdleFits DEF Init, TableStages
  <2>2. StartedIsFull /\ NeverWedged
    BY DEF Init, G!Init, StartedIsFull, NeverWedged
  <2> QED
    BY <2>1, <2>2 DEF FreeInv
<1>2. SInv /\ FreeInv /\ [Next]_vars => FreeInv'
  <2> SUFFICES ASSUME SInv, FreeInv, [Next]_vars PROVE FreeInv'
    OBVIOUS
  <2>1. \A t \in Task : task'[t].stage \notin TableStages
    BY StagesStayFree
  <2> QED
    BY <2>1, StartedStaysFull, StaysUnwedged DEF FreeInv, TableStages
<1>3. FreeInv => NeverWedged
  BY DEF FreeInv
<1> QED
  BY <1>1, <1>2, <1>3, ServerInvariant, PTL DEF Spec
=============================================================================
