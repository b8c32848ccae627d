------------------------------ MODULE GameRow ------------------------------
(***************************************************************************)
(* The row of one game: how its moves get there, and what a client makes   *)
(* of the row.                                                             *)
(*                                                                         *)
(* A socket thread makes a move under the lock of the game (Games::        *)
(* make_move), tells everybody, and only then reads the clock and queues   *)
(* RecordMove. The arbiter writes each move into the map "moves" of the    *)
(* row, under a key made of that time and the board, and the result into a *)
(* column of its own. A client that asks for a game which is over gets the *)
(* row, sorts the keys and replays the moves.                              *)
(***************************************************************************)
EXTENDS Encodings, FiniteSets

CONSTANTS
    NoResult,
    Moves,          \* the moves that players choose from
    MaxMs,          \* bound: milliseconds of a game
    MaxMoves        \* bound: moves of a game

ASSUME GameRowAssumption ==
    /\ NoResult \notin GameResult
    /\ Moves \subseteq BughouseMove
    /\ MaxMs \in Nat /\ 2 * MaxMs < MaxKey
    /\ MaxMoves \in Nat

VARIABLES
    now,            \* milliseconds since the start
    played,         \* per board, the moves made, in the order of the lock
    result,         \* the result in memory, or NoResult
    inMemory,       \* whether the registry has the game
    unstamped,      \* moves made whose thread has not read the clock
    stamps,         \* the time in the RecordMove message of a move
    queued,         \* moves whose message waits or whose query runs
    moves,          \* column of the row: key to number
    resultCol,      \* column of the row: a number, negative if there is none
    userCol,        \* the same column of the players' rows in user_games
    recording,      \* a future has written resultCol, and userCol not as yet
    recorded,       \* a future has been through both queries
    lost            \* moves that will never be in the row

recordVars == <<userCol, recording, recorded>>
vars == <<now, played, result, inMemory, unstamped, stamps, queued, moves,
          resultCol, recordVars, lost>>

\* The nth move of a board.
MoveID == Board \X (1..MaxMoves)

TypeOK ==
    /\ now \in 0..MaxMs
    /\ DOMAIN played = Board
    /\ \A b \in Board : /\ played[b] \in Seq(Moves)
                        /\ Len(played[b]) <= MaxMoves
    /\ result \in GameResult \cup {NoResult}
    /\ inMemory \in BOOLEAN
    /\ unstamped \subseteq MoveID
    /\ DOMAIN stamps \subseteq MoveID
    /\ \A id \in DOMAIN stamps : stamps[id] \in 0..MaxMs
    /\ queued \subseteq DOMAIN stamps
    /\ DOMAIN moves \subseteq 0..2 * MaxMs + 1
    /\ \A key \in DOMAIN moves : moves[key] \in Int /\ FitsI16(moves[key])
    /\ resultCol \in -1..7 /\ userCol \in -1..7
    /\ recording \in BOOLEAN /\ recorded \in BOOLEAN
    /\ lost \subseteq MoveID

Init ==
    /\ now = 0
    /\ played = [b \in Board |-> <<>>]
    /\ result = NoResult
    /\ inMemory = TRUE
    /\ unstamped = {}
    /\ stamps = [id \in {} |-> 0]
    /\ queued = {}
    /\ moves = [key \in {} |-> 0]
    /\ resultCol = -1 /\ userCol = -1
    /\ recording = FALSE /\ recorded = FALSE
    /\ lost = {}

Tick ==
    /\ now < MaxMs
    /\ now' = now + 1
    /\ UNCHANGED <<played, result, inMemory, unstamped, stamps, queued, moves,
                   resultCol, recordVars, lost>>

\* A move, and the result if it mates. Nothing keeps players from moving on
\* the other board when the game is over but the removal of the game.
MakeMove(b, m) ==
    /\ inMemory
    /\ Len(played[b]) + Len(played[1 - b]) < MaxMoves
    /\ played' = [played EXCEPT ![b] = Append(@, m)]
    /\ unstamped' = unstamped \cup {<<b, Len(played[b]) + 1>>}
    /\ result' \in IF result # NoResult THEN {result}
                   ELSE {NoResult, [board |-> b, winner |-> Len(played[b]) % 2,
                                kind |-> Checkmate]}
    /\ UNCHANGED <<now, inMemory, stamps, queued, moves, resultCol, recordVars,
                   lost>>

\* BughouseServer::make_move, when the move is made and announced: the time
\* since the start, as late as the thread comes to it. The mailbox may be full.
Stamp(id) ==
    /\ id \in unstamped
    /\ unstamped' = unstamped \ {id}
    /\ \/ /\ stamps' = [i \in DOMAIN stamps \cup {id} |->
                           IF i = id THEN now ELSE stamps[i]]
          /\ queued' = queued \cup {id}
          /\ UNCHANGED lost
       \/ lost' = lost \cup {id} /\ UNCHANGED <<stamps, queued>>
    /\ UNCHANGED <<now, played, result, inMemory, moves, resultCol, recordVars>>

\* Db::record_move. A query that fails is logged and forgotten.
RecordMove(id) ==
    LET key == ToMoveKey(stamps[id], id[1])
        num == SerializeMove(played[id[1]][id[2]])
    IN  /\ id \in queued
        /\ queued' = queued \ {id}
        /\ \/ /\ moves' = [k \in DOMAIN moves \cup {key} |->
                              IF k = key THEN num ELSE moves[k]]
              /\ UNCHANGED lost
           \/ lost' = lost \cup {id} /\ UNCHANGED moves
        /\ UNCHANGED <<now, played, result, inMemory, unstamped, stamps,
                       resultCol, recordVars>>

\* CheckGame finds a flag fallen.
EndGame(b, c) ==
    /\ inMemory /\ result = NoResult
    /\ result' = [board |-> b, winner |-> 1 - c, kind |-> Flagged]
    /\ UNCHANGED <<now, played, inMemory, unstamped, stamps, queued, moves,
                   resultCol, recordVars, lost>>

\* Mutant: the rows of the users come first.
RecordGameResultLast ==
    /\ inMemory /\ result # NoResult
    /\ userCol' = SerializeResult(result)
    /\ recording' = TRUE
    /\ UNCHANGED <<now, played, result, inMemory, unstamped, stamps, queued,
                   moves, resultCol, recorded, lost>>

\* Db::record_game_result, a query on games, if it does not fail, ...
RecordGameResult ==
    /\ inMemory /\ result # NoResult
    /\ resultCol' = SerializeResult(result)
    /\ recording' = TRUE
    /\ UNCHANGED <<now, played, result, inMemory, unstamped, stamps, queued,
                   moves, userCol, recorded, lost>>

\* ... and then one on user_games. If that cannot be prepared the call fails;
\* if it fails itself, it is only logged. Several futures that record one game
\* all write the same, so that one between its queries stands for many.
RecordUserGames ==
    /\ recording
    /\ recording' = FALSE
    /\ \/ recorded' = TRUE /\ userCol' \in {userCol, SerializeResult(result)}
       \/ UNCHANGED <<recorded, userCol>>
    /\ UNCHANGED <<now, played, result, inMemory, unstamped, stamps, queued,
                   moves, resultCol, lost>>

RmGame ==
    /\ inMemory /\ recorded
    /\ inMemory' = FALSE
    /\ UNCHANGED <<now, played, result, unstamped, stamps, queued, moves,
                   resultCol, recordVars, lost>>

\* The server stops; whatever it had in memory is gone.
Crash ==
    /\ inMemory' = FALSE
    /\ unstamped' = {} /\ queued' = {} /\ recording' = FALSE
    /\ lost' = lost \cup unstamped \cup queued
    /\ UNCHANGED <<now, played, result, stamps, moves, resultCol, userCol,
                   recorded>>

Next ==
    \/ Tick
    \/ \E b \in Board, m \in Moves : MakeMove(b, m)
    \/ \E id \in unstamped : Stamp(id)
    \/ \E id \in queued : RecordMove(id)
    \/ \E b \in Board, c \in Color : EndGame(b, c)
    \/ RecordGameResult
    \/ RecordUserGames
    \/ RmGame
    \/ Crash

Spec == Init /\ [][Next]_vars

----------------------------------------------------------------------------
\* AnalysisState.formMoves, for the moves of one board: the keys are sorted.
Keys(b) == {key \in DOMAIN moves : KeyBoard(key) = b}

Rank(b, key) == Cardinality({k \in Keys(b) : k <= key})

Replayed(b) ==
    [i \in 1..Cardinality(Keys(b)) |->
        ClientMove(moves[CHOOSE key \in Keys(b) : Rank(b, key) = i])]

\* Where the replayed moves of a board can have been played.
Places(b) ==
    {place \in [DOMAIN Replayed(b) -> 1..Len(played[b])] :
        \A i \in DOMAIN place : Replayed(b)[i] = played[b][place[i]]}

(* Whatever got lost and in whatever order the queries ran, a client replays *)
(* on a board moves that were played on that board, none twice, in the order *)
(* of the times that their threads read from the clock. That order need not  *)
(* be the order of the moves: see PlayedInOrder.                             *)
RowReplays ==
    \A b \in Board : \E place \in Places(b) :
        /\ \A i \in DOMAIN place : <<b, place[i]>> \in DOMAIN stamps
        /\ \A i, j \in DOMAIN place :
               i < j => stamps[<<b, place[i]>>] < stamps[<<b, place[j]>>]

(* The client does not validate moves, "the server has already done that"    *)
(* (AnalysisState.js:6): what it replays on a board, whatever got lost, would *)
(* then be moves in the order in which the server validated them. It need    *)
(* not be: BughouseServer::make_move reads the clock when the move is        *)
(* announced, and the answer to it may have been made and stamped by then.    *)
PlayedInOrder ==
    \A b \in Board : \E place \in Places(b) :
        \A i, j \in DOMAIN place : i < j => place[i] < place[j]

(* What that takes: the stamps of a board are in the order of its moves.     *)
StampedInOrder ==
    \A id, later \in DOMAIN stamps :
        id[1] = later[1] /\ id[2] < later[2] => stamps[id] < stamps[later]

(* A move is only missing from the row, under its time and its board, if it  *)
(* is on its way, if a full mailbox, a failed query or a stop of the server  *)
(* lost it, or if another move of the same board has the same time: that one *)
(* then took its place.                                                      *)
RowIsComplete ==
    \A b \in Board : \A i \in 1..Len(played[b]) :
        \/ <<b, i>> \in unstamped \cup queued \cup lost
        \/ /\ <<b, i>> \in DOMAIN stamps
           /\ \E key \in Keys(b), j \in 1..Len(played[b]) :
                  /\ KeyMs(key) = stamps[<<b, i>>]
                  /\ <<b, j>> \in DOMAIN stamps
                  /\ stamps[<<b, j>>] = stamps[<<b, i>>]
                  /\ moves[key] = SerializeMove(played[b][j])

(* A row that send_game_row may send as finished tells the result of the     *)
(* game, and the seats whose ratings rose are the winner's and the one that  *)
(* the server takes for his partner's.                                       *)
ResultReadsBack ==
    resultCol >= 0 =>
        LET r == DeserializeResult(resultCol)
        IN  /\ r = result
            /\ Winners(r) = {<<r.board, r.winner>>,
                             Partner(<<r.board, r.winner>>)}

(* What the list of a player's past games says of this game, whatever query  *)
(* failed and wherever the server stopped, is what the row of the game says. *)
UserListAgrees == userCol >= 0 => userCol = resultCol
=============================================================================
