------------------------------ MODULE GameClock ------------------------------
(***************************************************************************)
(* The clocks of one full game, and the chain of CheckGame messages that   *)
(* is to notice when one runs out (game.rs; ServerMessageKind::CheckGame,  *)
(* get_game_status and schedule_check in bughouse_server.rs).              *)
(*                                                                         *)
(* Clocks are only brought up to date when something happens: a move, a    *)
(* check, or a request for the game.  Time passes in ticks.  A pending     *)
(* check is known by the ticks left until it is due; replacing the handle  *)
(* of a timer in game_checkers does not cancel the old one, so every move  *)
(* starts one more chain.  Checks due at the same tick are one element.    *)
(*                                                                         *)
(* Socket threads move and refresh at any time, also between the two       *)
(* sections of the arbiter's handler that finds a flag.                    *)
(***************************************************************************)
EXTENDS Integers

CONSTANTS
  Base,      \* time on each clock at the start
  Inc,       \* get_inc_ms of the time control
  Delay,     \* GAME_MS_IN_FUTURE
  Late,      \* a due check is handled within that many ticks
  MaxMoves,  \* bound on the moves of the game; after the last, nobody
             \* asks for the game either
  MaxClock   \* bound on what clocks show, either side of zero

ASSUME ClockAssumption ==
  /\ Base \in Nat \ {0}
  /\ Inc \in Nat
  /\ Delay \in Nat
  /\ Late \in Nat
  /\ MaxMoves \in Nat
  /\ MaxClock \in Nat

VARIABLES
  untilStart,  \* ticks left until Game.start
  clocks,      \* Game.clocks
  since,       \* since[b]: ticks since last_move_time[b]
  toMove,      \* side_to_move of each board
  checks,      \* when the pending CheckGame messages are due
  ending,      \* the arbiter has seen a clock run out, end_game comes next
  result,      \* Game.result: "None" | "Checkmate" | "Flagged"
  loser,       \* whose flag fell: 2 * board + colour, or NoLoser
  moves        \* moves made

vars == <<untilStart, clocks, since, toMove, checks, ending, result, loser, moves>>

Board == 0 .. 1
Color == 0 .. 1   \* 0 is White
Player == 0 .. 3
NoLoser == 4

ClockOf(p) == clocks[p \div 2][p % 2]

\* What the clock of the side to move shows.
Shown(b) == clocks[b][toMove[b]] - since[b]

Init ==
  /\ untilStart = Delay
  /\ clocks = [b \in Board |-> [c \in Color |-> Base]]
  /\ since = [b \in Board |-> 0]
  /\ toMove = [b \in Board |-> 0]
  /\ checks = {0}
  /\ ending = FALSE
  /\ result = "None"
  /\ loser = NoLoser
  /\ moves = 0

-----------------------------------------------------------------------------
(* Operations of Game *)

\* update_clocks: the increment is given at each update, moved or not.
Updated(b) == [clocks[b] EXCEPT ![toMove[b]] = Shown(b) + Inc]

UpdateAllClocks ==
  /\ clocks' = IF untilStart > 0 THEN clocks ELSE [b \in Board |-> Updated(b)]
  /\ since' = IF untilStart > 0 THEN since ELSE [b \in Board |-> 0]

\* Mutant: the larger clock is waited for.
MaxToMoveClock(cl) ==
  LET a == cl[0][toMove[0]]  b == cl[1][toMove[1]] IN IF a >= b THEN a ELSE b

MinToMoveClock(cl) ==
  LET a == cl[0][toMove[0]]  b == cl[1][toMove[1]] IN IF a <= b THEN a ELSE b

\* Mutant: the opponent of the player with less time.
FlaggeeOpponent(cl) == IF cl[0][toMove[0]] <= cl[1][toMove[1]]
                         THEN 1 - toMove[0] ELSE 3 - toMove[1]

\* The first player with the least time, of all four.
Flaggee(cl) ==
  CHOOSE p \in Player :
    /\ \A q \in Player : cl[p \div 2][p % 2] <= cl[q \div 2][q % 2]
    /\ \A q \in Player : q < p => cl[q \div 2][q % 2] > cl[p \div 2][p % 2]

-----------------------------------------------------------------------------
(* Actions *)

Tick ==
  /\ result = "None" /\ ~ending
  /\ \A d \in checks : d > -Late
  /\ \A b \in Board : Shown(b) > -MaxClock
  /\ checks' = {d - 1 : d \in checks}
  /\ IF untilStart > 0
       THEN /\ untilStart' = untilStart - 1
            /\ UNCHANGED since
       ELSE /\ since' = [b \in Board |-> since[b] + 1]
            /\ UNCHANGED untilStart
  /\ UNCHANGED <<clocks, toMove, ending, result, loser, moves>>

\* Game::make_move, then CheckGame.  The clock may have run out unnoticed,
\* and the game may be over.
Move(b, mates) ==
  /\ untilStart = 0
  /\ moves < MaxMoves
  /\ Shown(b) + Inc <= MaxClock
  /\ clocks' = [clocks EXCEPT ![b] = Updated(b)]
  /\ since' = [since EXCEPT ![b] = 0]
  /\ toMove' = [toMove EXCEPT ![b] = 1 - @]
  /\ result' = IF result = "None" /\ mates THEN "Checkmate" ELSE result
  /\ moves' = moves + 1
  /\ checks' = checks \cup {0}
  /\ UNCHANGED <<untilStart, ending, loser>>

\* get_game_json_payload.
Refresh ==
  /\ moves < MaxMoves
  /\ \A b \in Board : Shown(b) + Inc <= MaxClock
  /\ UpdateAllClocks
  /\ UNCHANGED <<untilStart, toMove, checks, ending, result, loser, moves>>

\* CheckGame, up to the end of get_game_status or to the next timer.
CheckGame(d) ==
  /\ ~ending
  /\ d \in checks /\ d <= 0
  /\ \/ /\ result # "None"
        /\ checks' = checks \ {d}
        /\ UNCHANGED <<clocks, since, ending>>
     \/ /\ result = "None" /\ untilStart > 0
        /\ checks' = (checks \ {d}) \cup {untilStart}
        /\ UNCHANGED <<clocks, since, ending>>
     \/ /\ result = "None" /\ untilStart = 0
        /\ UpdateAllClocks
        /\ LET left == MinToMoveClock(clocks') IN
             /\ ending' = (left <= 0)
             /\ checks' = (checks \ {d}) \cup (IF left > 0 THEN {left} ELSE {})
  /\ UNCHANGED <<untilStart, toMove, result, loser, moves>>

\* Mutant: only a mate is looked for.
EndGameByMateOnly ==
  /\ ending
  /\ ending' = FALSE
  /\ UpdateAllClocks
  /\ UNCHANGED <<untilStart, toMove, checks, result, loser, moves>>

\* Mutant: no second look for a mate.
EndGameAnyway ==
  /\ ending
  /\ UpdateAllClocks
  /\ result' = "Flagged"
  /\ loser' = Flaggee(clocks')
  /\ ending' = FALSE
  /\ UNCHANGED <<untilStart, toMove, checks, moves>>

\* end_game: a mate may have come in between.
EndGame ==
  /\ ending
  /\ ending' = FALSE
  /\ \/ /\ result # "None"
        /\ UNCHANGED <<clocks, since, result, loser>>
     \/ /\ result = "None"
        /\ UpdateAllClocks
        /\ result' = "Flagged"
        /\ loser' = Flaggee(clocks')
  /\ UNCHANGED <<untilStart, toMove, checks, moves>>

Next ==
  \/ Tick
  \/ \E b \in Board, mates \in BOOLEAN : Move(b, mates)
  \/ Refresh
  \/ \E d \in checks : CheckGame(d)
  \/ EndGame

Spec == Init /\ [][Next]_vars

\* Time passes, timers fire and the arbiter handles its messages.
Fairness == /\ WF_vars(Tick)
            /\ WF_vars(\E d \in checks : CheckGame(d))
            /\ WF_vars(EndGame)

FairSpec == Spec /\ Fairness

-----------------------------------------------------------------------------
(* Properties *)

\* A game in which somebody has overdrawn his time goes on for no longer
\* than checks are late, once per move: one timer, set for
\* the smaller clock, stands guard over both boards, although moves and
\* refreshes keep changing the clocks behind its back.  The factor is the
\* code's: a move made before a late check hides the mover's empty clock
\* until it is his turn again.
FlagsInTime ==
  result = "None" /\ untilStart = 0 =>
    \A b \in Board : Shown(b) >= -(Late * (moves + 1))

\* Without increment, a player whose flag falls has run out of time, also
\* when he or others moved between the two sections of the handler.
LoserIsOutOfTime == loser # NoLoser => ClockOf(loser) <= 0

\* A result stays as it is, and a mate before the flag counts.
ResultIsFinal ==
  [][result # "None" => result' = result /\ loser' = loser]_vars

\* Every game ends, at the latest when the "Timer handler detected a flag"
\* (bughouse_server.rs:194) of a player who does not move.
GameEnds == <>(result # "None")
=============================================================================
