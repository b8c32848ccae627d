-------------------------- MODULE GameClockProofs --------------------------
(***************************************************************************)
(* Proofs about GameClock, for all times, increments, delays and numbers   *)
(* of moves.                                                               *)
(***************************************************************************)
EXTENDS GameClock, TLAPS

TypeOK ==
  /\ untilStart \in Nat
  /\ clocks \in [Board -> [Color -> Int]]
  /\ since \in [Board -> Nat]
  /\ toMove \in [Board -> Color]
  /\ checks \subseteq Int
  /\ ending \in BOOLEAN
  /\ result \in {"None", "Checkmate", "Flagged"}
  /\ loser \in Player \cup {NoLoser}
  /\ moves \in Nat

-----------------------------------------------------------------------------
(* Clocks *)

\* What the clock of the side that waits shows.
Waiting(b) == clocks[b][1 - toMove[b]]

LEMMA ClockTypes ==
  ASSUME TypeOK
  PROVE  /\ \A b \in Board : /\ toMove[b] \in Color /\ 1 - toMove[b] \in Color
                             /\ 1 - toMove[b] # toMove[b]
                             /\ Shown(b) \in Int /\ Waiting(b) \in Int
                             /\ clocks[b] \in [Color -> Int]
         /\ \A b \in Board : Updated(b) \in [Color -> Int]
BY ClockAssumption DEF TypeOK, Board, Color, Shown, Waiting, Updated

\* update_clocks brings the clock of the side to move up to date, and adds
\* the increment.
LEMMA UpdatedClocks ==
  ASSUME TypeOK, UpdateAllClocks, UNCHANGED <<toMove, untilStart>>
  PROVE  /\ clocks' \in [Board -> [Color -> Int]]
         /\ since' \in [Board -> Nat]
         /\ \A b \in Board : /\ Shown(b)' >= Shown(b)
                             /\ Waiting(b)' = Waiting(b)
         /\ Inc = 0 => \A b \in Board, c \in Color : clocks'[b][c] <= clocks[b][c]
         /\ untilStart = 0 =>
              \A b \in Board : clocks'[b][toMove[b]] = Shown(b) + Inc
         /\ untilStart > 0 => UNCHANGED <<clocks, since>>
<1>1. CASE untilStart > 0
  BY <1>1, ClockTypes DEF UpdateAllClocks, TypeOK, Shown, Waiting, Board, Color
<1>2. CASE untilStart = 0
  <2>1. clocks' = [b \in Board |-> Updated(b)] /\ since' = [b \in Board |-> 0]
    BY <1>2 DEF UpdateAllClocks
  <2>2. /\ clocks' \in [Board -> [Color -> Int]]
        /\ since' \in [Board -> Nat]
    BY <2>1, ClockTypes
  <2>3. ASSUME NEW b \in Board
        PROVE  /\ clocks'[b][toMove[b]] = Shown(b) + Inc
               /\ clocks'[b][1 - toMove[b]] = Waiting(b)
               /\ since'[b] = 0
    BY <2>1, <2>3, ClockTypes DEF Updated, Waiting
  <2>4. ASSUME NEW b \in Board
        PROVE  Shown(b)' >= Shown(b) /\ Waiting(b)' = Waiting(b)
    BY <2>3, ClockTypes, ClockAssumption DEF Shown, Waiting
  <2>5. ASSUME Inc = 0, NEW b \in Board, NEW c \in Color
        PROVE  clocks'[b][c] <= clocks[b][c]
    <3>1. c = toMove[b] \/ c = 1 - toMove[b]
      BY ClockTypes DEF Color
    <3> QED
      BY <2>3, <2>5, <3>1, ClockTypes DEF Shown, Waiting, TypeOK
  <2> QED
    BY <1>2, <2>2, <2>3, <2>4, <2>5
<1> QED
  BY <1>1, <1>2 DEF TypeOK

-----------------------------------------------------------------------------
(* One timer stands guard *)

\* Before the start nothing has happened, and a check is due by then.
NotStarted ==
  untilStart > 0 =>
    /\ result = "None" /\ ~ending /\ moves = 0
    /\ \A b \in Board : Shown(b) = Base /\ Waiting(b) = Base
    /\ \E d \in checks : d <= untilStart

\* What the game may have been overdrawn by so far.
Overdraft == \A b \in Board : /\ Shown(b) >= -(Late * (moves + 1))
                              /\ Waiting(b) >= -(Late * moves)

\* Each clock that runs has a check that is due when it is empty, give or
\* take the delay of earlier checks.
Guarded ==
  \A b \in Board : \E d \in checks : d <= Shown(b) + Late * moves

CInv ==
  /\ TypeOK
  /\ \A d \in checks : d >= -Late
  /\ NotStarted
  /\ untilStart = 0 /\ result = "None" => Overdraft
  /\ untilStart = 0 /\ result = "None" /\ ~ending => Guarded

\* Multiplication, as far as it is needed.
LEMMA LateTimes ==
  ASSUME NEW k \in Nat
  PROVE  Late * k \in Nat /\ Late * (k + 1) = Late * k + Late
BY ClockAssumption

LEMMA TickKeeps == ASSUME CInv, Tick PROVE CInv'
<1>1. TypeOK'
  <2>1. checks' \subseteq Int
    BY DEF CInv, TypeOK, Tick
  <2>2. untilStart' \in Nat /\ since' \in [Board -> Nat]
    BY DEF CInv, TypeOK, Tick
  <2> QED
    BY <2>1, <2>2 DEF CInv, TypeOK, Tick
<1>2. \A d \in checks' : d >= -Late
  BY ClockAssumption DEF CInv, TypeOK, Tick
<1>3. CASE untilStart > 0
  <2>1. \A b \in Board : Shown(b)' = Base /\ Waiting(b)' = Base
    BY <1>3 DEF CInv, Tick, NotStarted, Shown, Waiting
  <2>2. PICK d \in checks : d <= untilStart
    BY <1>3 DEF CInv, NotStarted
  <2>3. d - 1 \in checks' /\ d - 1 <= untilStart' /\ untilStart' = untilStart - 1
    <3>1. d \in Int /\ untilStart \in Nat
      BY DEF CInv, TypeOK
    <3>2. untilStart' = untilStart - 1 /\ d - 1 \in checks'
      BY <1>3 DEF Tick
    <3> QED
      BY <2>2, <3>1, <3>2
  <2>4. moves' = 0 /\ result' = "None" /\ ~ending' /\ Late * 0 = 0 /\ Late * 1 = Late
    BY <1>3, ClockAssumption DEF CInv, Tick, NotStarted
  <2>5. NotStarted'
    BY <2>1, <2>3, <2>4 DEF NotStarted
  <2>6. Overdraft'
    BY <2>1, <2>4, ClockAssumption DEF Overdraft
  <2>7. untilStart' = 0 => Guarded'
    <3>1. ASSUME untilStart' = 0, NEW b \in Board
          PROVE  d - 1 <= Shown(b)' + Late * moves'
      <4>1. Shown(b)' = Base /\ Late * moves' = 0 /\ d \in Int
        BY <2>1, <2>4 DEF CInv, TypeOK
      <4> QED
        BY <2>3, <3>1, <4>1, ClockAssumption
    <3> QED
      BY <2>3, <3>1 DEF Guarded
  <2> QED
    BY <1>1, <1>2, <2>5, <2>6, <2>7 DEF CInv
<1>4. CASE untilStart = 0
  <2>1. \A b \in Board : Shown(b)' = Shown(b) - 1 /\ Waiting(b)' = Waiting(b)
    BY <1>4, ClockTypes DEF CInv, TypeOK, Tick, Shown, Waiting
  <2>2. moves' = moves /\ moves \in Nat /\ untilStart' = 0 /\ result = "None" /\ ~ending
    BY <1>4 DEF CInv, TypeOK, Tick
  <2>3. Overdraft /\ Guarded
    BY <1>4, <2>2 DEF CInv
  <2>4. ASSUME NEW b \in Board PROVE \E d \in checks' : d <= Shown(b)' + Late * moves'
    <3>1. PICK d \in checks : d <= Shown(b) + Late * moves
      BY <2>3 DEF Guarded
    <3>2. d - 1 \in checks' /\ d \in Int
      BY <3>1 DEF CInv, TypeOK, Tick
    <3>3. d - 1 <= Shown(b)' + Late * moves'
      BY <2>1, <2>2, <3>1, <3>2, LateTimes, ClockTypes DEF CInv
    <3> QED
      BY <3>2, <3>3
  <2>5. Guarded'
    BY <2>4 DEF Guarded
  <2>6. ASSUME NEW b \in Board
        PROVE  Shown(b)' >= -(Late * (moves' + 1)) /\ Waiting(b)' >= -(Late * moves')
    <3>1. PICK d \in checks' : d <= Shown(b)' + Late * moves'
      BY <2>5 DEF Guarded
    <3>2. d >= -Late /\ d \in Int
      BY <1>1, <1>2 DEF TypeOK
    <3>3. Late * (moves + 1) = Late * moves + Late /\ Late * moves \in Nat
      BY <2>2, LateTimes
    <3>4. Shown(b)' \in Int
      BY <2>1, ClockTypes DEF CInv
    <3> QED
      BY <2>1, <2>2, <2>3, <3>1, <3>2, <3>3, <3>4, ClockAssumption DEF Overdraft
  <2>7. Overdraft'
    BY <2>6 DEF Overdraft
  <2> QED
    BY <1>1, <1>2, <2>2, <2>5, <2>7 DEF CInv, NotStarted
<1> QED
  BY <1>3, <1>4 DEF CInv, TypeOK

LEMMA MoveKeeps ==
  ASSUME CInv, NEW b \in Board, NEW mates \in BOOLEAN, Move(b, mates)
  PROVE  CInv'
<1>1. /\ toMove[b] \in Color /\ 1 - toMove[b] \in Color /\ 1 - toMove[b] # toMove[b]
      /\ Shown(b) \in Int /\ Waiting(b) \in Int /\ moves \in Nat
      /\ Updated(b) \in [Color -> Int]
      /\ clocks \in [Board -> [Color -> Int]] /\ since \in [Board -> Nat]
      /\ toMove \in [Board -> Color]
  BY ClockTypes DEF CInv, TypeOK
<1>2. clocks' = [clocks EXCEPT ![b] = Updated(b)] /\ since' = [since EXCEPT ![b] = 0]
      /\ toMove' = [toMove EXCEPT ![b] = 1 - @]
      /\ moves' = moves + 1 /\ checks' = checks \cup {0}
      /\ untilStart' = 0 /\ untilStart = 0 /\ ending' = ending /\ loser' = loser
      /\ result' \in {result, "Checkmate"} /\ (result' = "None" => result = "None")
  BY DEF Move
<1>3. TypeOK'
  BY <1>1, <1>2 DEF CInv, TypeOK
<1>4. \A d \in checks' : d >= -Late
  BY <1>2, ClockAssumption DEF CInv
<1>5. Shown(b)' = Waiting(b) /\ Waiting(b)' = Shown(b) + Inc
  <2>1. clocks'[b] = Updated(b) /\ since'[b] = 0 /\ toMove'[b] = 1 - toMove[b]
    BY <1>1, <1>2
  <2>2. 1 - (1 - toMove[b]) = toMove[b]
    BY <1>1 DEF Color
  <2>3. Updated(b)[1 - toMove[b]] = Waiting(b) /\ Updated(b)[toMove[b]] = Shown(b) + Inc
    BY <1>1 DEF Updated, Waiting
  <2> QED
    BY <1>1, <2>1, <2>2, <2>3 DEF Shown, Waiting
<1>6. \A c \in Board : c # b => Shown(c)' = Shown(c) /\ Waiting(c)' = Waiting(c)
  BY <1>1, <1>2 DEF Shown, Waiting
<1>7. /\ Late * moves \in Nat /\ Late * (moves + 1) = Late * moves + Late
      /\ Late * (moves + 2) = Late * moves + 2 * Late
  BY <1>1, ClockAssumption
<1>8. ASSUME result' = "None" PROVE Overdraft'
  <2>1. Overdraft
    BY <1>2, <1>8 DEF CInv
  <2> SUFFICES ASSUME NEW c \in Board
               PROVE  /\ Shown(c)' >= -(Late * (moves + 2))
                      /\ Waiting(c)' >= -(Late * (moves + 1))
    BY <1>1, <1>2 DEF Overdraft
  <2>2. Shown(c) \in Int /\ Waiting(c) \in Int
    BY ClockTypes DEF CInv
  <2>3. CASE c = b
    BY <1>1, <1>5, <1>7, <2>1, <2>3, ClockAssumption DEF Overdraft
  <2>4. CASE c # b
    BY <1>6, <1>7, <2>1, <2>2, <2>4, ClockAssumption DEF Overdraft
  <2> QED
    BY <2>3, <2>4
<1>9. ASSUME result' = "None", ~ending PROVE Guarded'
  <2>1. Overdraft /\ Guarded
    BY <1>2, <1>9 DEF CInv
  <2> SUFFICES ASSUME NEW c \in Board
               PROVE  \E d \in checks' : d <= Shown(c)' + Late * (moves + 1)
    BY <1>2 DEF Guarded
  <2>2. CASE c = b
    <3>1. 0 <= Shown(c)' + Late * (moves + 1)
      BY <1>1, <1>5, <1>7, <2>1, <2>2, ClockAssumption DEF Overdraft
    <3> QED
      BY <1>2, <3>1
  <2>3. CASE c # b
    <3>1. PICK d \in checks : d <= Shown(c) + Late * moves
      BY <2>1 DEF Guarded
    <3>2. d \in Int /\ Shown(c) \in Int
      BY ClockTypes DEF CInv, TypeOK
    <3> QED
      BY <1>2, <1>6, <1>7, <2>3, <3>1, <3>2, ClockAssumption
  <2> QED
    BY <2>2, <2>3
<1> QED
  BY <1>2, <1>3, <1>4, <1>8, <1>9 DEF CInv, NotStarted

LEMMA RefreshKeeps == ASSUME CInv, Refresh PROVE CInv'
<1>1. /\ clocks' \in [Board -> [Color -> Int]] /\ since' \in [Board -> Nat]
      /\ \A b \in Board : Shown(b)' >= Shown(b) /\ Waiting(b)' = Waiting(b)
      /\ untilStart > 0 => UNCHANGED <<clocks, since>>
  BY UpdatedClocks DEF CInv, Refresh
<1>2. TypeOK'
  BY <1>1 DEF CInv, TypeOK, Refresh
<1>3. NotStarted'
  BY <1>1 DEF CInv, Refresh, NotStarted, Shown, Waiting
<1>4. \A b \in Board : /\ Shown(b) \in Int /\ Shown(b)' \in Int
                       /\ Late * moves \in Nat /\ Late * (moves + 1) \in Nat
  BY <1>2, ClockTypes, LateTimes DEF CInv, TypeOK, Shown, Board
<1>5. Overdraft => Overdraft'
  BY <1>1, <1>4 DEF Overdraft, Refresh
<1>6. Guarded => Guarded'
  <2> SUFFICES ASSUME Guarded, NEW b \in Board
               PROVE  \E d \in checks' : d <= Shown(b)' + Late * moves'
    BY DEF Guarded
  <2>1. PICK d \in checks : d <= Shown(b) + Late * moves
    BY DEF Guarded
  <2>2. d \in checks' /\ d \in Int /\ moves' = moves
    BY <2>1 DEF CInv, TypeOK, Refresh
  <2> QED
    BY <1>1, <1>4, <2>1, <2>2
<1> QED
  BY <1>2, <1>3, <1>5, <1>6 DEF CInv, Refresh

\* The next check is set for the smaller of the clocks that run.
LEMMA CheckGameKeeps ==
  ASSUME CInv, NEW d \in checks, CheckGame(d) PROVE CInv'
<1>1. CASE result # "None"
  <2>1. checks' = checks \ {d} /\ UNCHANGED <<clocks, since, ending, result, untilStart, toMove, loser, moves>>
    BY <1>1 DEF CheckGame
  <2>2. untilStart = 0
    BY <1>1 DEF CInv, NotStarted, TypeOK
  <2> QED
    BY <1>1, <2>1, <2>2 DEF CInv, TypeOK, NotStarted
<1>2. CASE result = "None" /\ untilStart > 0
  <2>1. /\ checks' = (checks \ {d}) \cup {untilStart}
        /\ UNCHANGED <<clocks, since, ending, result, untilStart, toMove, loser, moves>>
    BY <1>2 DEF CheckGame, CInv, TypeOK
  <2>2. NotStarted'
    BY <2>1 DEF CInv, TypeOK, NotStarted, Shown, Waiting
  <2>3. \A e \in checks' : e \in Int /\ e >= -Late
    BY <1>2, <2>1, ClockAssumption DEF CInv, TypeOK
  <2> QED
    BY <1>2, <2>1, <2>2, <2>3 DEF CInv, TypeOK
<1>3. CASE result = "None" /\ untilStart = 0
  <2> DEFINE left == MinToMoveClock(clocks')
  <2>1. /\ UpdateAllClocks /\ UNCHANGED <<untilStart, toMove, result, loser, moves>>
        /\ ending' = (left <= 0)
        /\ checks' = (checks \ {d}) \cup (IF left > 0 THEN {left} ELSE {})
    BY <1>3 DEF CheckGame
  <2>2. /\ clocks' \in [Board -> [Color -> Int]] /\ since' \in [Board -> Nat]
        /\ \A b \in Board : Shown(b)' >= Shown(b) /\ Waiting(b)' = Waiting(b)
    BY <2>1, UpdatedClocks DEF CInv
  <2>3. left \in Int /\ \A b \in Board : left <= clocks'[b][toMove[b]]
    BY <2>1, <2>2 DEF MinToMoveClock, CInv, TypeOK, Board, Color
  <2>4. \A b \in Board : Shown(b)' = clocks'[b][toMove[b]] /\ Shown(b)' \in Int
    BY <1>3, <2>1, <2>2 DEF UpdateAllClocks, Shown, CInv, TypeOK, Color
  <2> HIDE DEF left
  <2>5. TypeOK'
    <3>1. checks' \subseteq Int
      BY <2>1, <2>3 DEF CInv, TypeOK
    <3>2. ending' \in BOOLEAN
      BY <2>1
    <3> QED
      BY <2>1, <2>2, <3>1, <3>2 DEF CInv, TypeOK
  <2>6. \A e \in checks' : e >= -Late
    BY <2>1, <2>3, ClockAssumption DEF CInv
  <2>7. /\ moves \in Nat /\ Late * moves \in Nat /\ Late * (moves + 1) \in Nat
        /\ \A b \in Board : Shown(b) \in Int
    BY ClockTypes, LateTimes DEF CInv, TypeOK
  <2>8. Overdraft'
    BY <1>3, <2>1, <2>2, <2>4, <2>7 DEF CInv, Overdraft
  <2>9. ~ending' => Guarded'
    <3> SUFFICES ASSUME ~ending', NEW b \in Board
                 PROVE  \E e \in checks' : e <= Shown(b)' + Late * moves'
      BY DEF Guarded
    <3>1. left \in checks'
      <4>1. ~(left <= 0)
        BY <2>1, Zenon
      <4>2. left > 0
        BY <2>3, <4>1
      <4> QED
        BY <2>1, <4>2
    <3>2. left <= Shown(b)' + Late * moves'
      BY <2>1, <2>3, <2>4, <2>7
    <3> QED
      BY <3>1, <3>2
  <2> QED
    BY <1>3, <2>1, <2>5, <2>6, <2>8, <2>9 DEF CInv, NotStarted
<1> QED
  BY <1>1, <1>2, <1>3 DEF CInv, TypeOK

\* There is a first player with the least time.
LEMMA FlaggeeHasLeast ==
  ASSUME NEW cl \in [Board -> [Color -> Int]]
  PROVE  /\ Flaggee(cl) \in Player
         /\ \A q \in Player :
              cl[Flaggee(cl) \div 2][Flaggee(cl) % 2] <= cl[q \div 2][q % 2]
<1> DEFINE time(q) == cl[q \div 2][q % 2]
           Least(p) == /\ \A q \in Player : time(p) <= time(q)
                       /\ \A q \in Player : q < p => time(q) > time(p)
<1>1. time(0) \in Int /\ time(1) \in Int /\ time(2) \in Int /\ time(3) \in Int
  BY DEF Board, Color
<1>2. Player = {0, 1, 2, 3}
  BY DEF Player
<1> HIDE DEF time
<1>3. Least(0) \/ Least(1) \/ Least(2) \/ Least(3)
  BY <1>1, <1>2
<1>4. \E p \in Player : Least(p)
  BY <1>2, <1>3
<1>5. Flaggee(cl) = CHOOSE p \in Player : Least(p)
  BY DEF Flaggee, time
<1>6. Flaggee(cl) \in Player /\ Least(Flaggee(cl))
  BY <1>4, <1>5
<1> QED
  BY <1>6 DEF time

LEMMA EndGameKeeps == ASSUME CInv, EndGame PROVE CInv'
<1>1. untilStart = 0
  BY DEF CInv, NotStarted, TypeOK, EndGame
<1>2. CASE result # "None"
  BY <1>1, <1>2 DEF EndGame, CInv, TypeOK, NotStarted
<1>3. CASE result = "None"
  <2>1. /\ UpdateAllClocks /\ result' = "Flagged" /\ loser' = Flaggee(clocks') /\ ending' = FALSE
        /\ UNCHANGED <<untilStart, toMove, checks, moves>>
    BY <1>3 DEF EndGame
  <2>2. clocks' \in [Board -> [Color -> Int]] /\ since' \in [Board -> Nat]
    BY <2>1, UpdatedClocks DEF CInv
  <2>3. loser' \in Player
    BY <2>1, <2>2, FlaggeeHasLeast
  <2>4. TypeOK'
    BY <2>1, <2>2, <2>3 DEF CInv, TypeOK
  <2> QED
    BY <1>1, <2>1, <2>4 DEF CInv, NotStarted
<1> QED
  BY <1>2, <1>3

LEMMA ClockInvariant == Spec => []CInv
<1>1. Init => CInv
  <2> SUFFICES ASSUME Init PROVE CInv
    OBVIOUS
  <2>1. TypeOK
    <3>1. clocks \in [Board -> [Color -> Int]]
      BY ClockAssumption DEF Init
    <3>2. since \in [Board -> Nat] /\ toMove \in [Board -> Color]
      BY DEF Init, Color
    <3>4. checks \subseteq Int
      BY DEF Init
    <3>3. untilStart \in Nat /\ loser \in Player \cup {NoLoser} /\ moves \in Nat
      BY ClockAssumption DEF Init
    <3> QED
      BY <3>1, <3>2, <3>3, <3>4 DEF Init, TypeOK
  <2>2. /\ \A b \in Board : Shown(b) = Base /\ Waiting(b) = Base
        /\ checks = {0} /\ moves = 0 /\ untilStart \in Nat /\ result = "None"
        /\ Late * 0 = 0 /\ Late * 1 = Late
    BY ClockAssumption DEF Init, Shown, Waiting, Board, Color
  <2>3. NotStarted
    BY <2>2 DEF NotStarted, Init
  <2>4. Overdraft
    BY <2>2, ClockAssumption DEF Overdraft
  <2>5. Guarded
    BY <2>2, ClockAssumption DEF Guarded
  <2> QED
    BY <2>1, <2>2, <2>3, <2>4, <2>5, ClockAssumption DEF CInv
<1>2. CInv /\ [Next]_vars => CInv'
  <2> SUFFICES ASSUME CInv, [Next]_vars PROVE CInv'
    OBVIOUS
  <2>1. CASE UNCHANGED vars
    BY <2>1
    DEF vars, CInv, TypeOK, NotStarted, Overdraft, Guarded, Shown, Waiting
  <2> QED
    BY <2>1, TickKeeps, MoveKeeps, RefreshKeeps, CheckGameKeeps, EndGameKeeps
    DEF Next
<1> QED
  BY <1>1, <1>2, PTL DEF Spec

-----------------------------------------------------------------------------
(* Theorems *)

\* The timer of get_game_status and schedule_check notices an empty clock
\* before it is overdrawn by more than the delay of a check for each move,
\* with any increment.
THEOREM FlagsInTimeTheorem == Spec => []FlagsInTime
<1>1. CInv => FlagsInTime
  BY DEF CInv, Overdraft, FlagsInTime
<1> QED
  BY <1>1, ClockInvariant, PTL

\* The time of a player who is out of time when the arbiter sees it.
SomeoneIsOut == \E p \in Player : ClockOf(p) <= 0

\* end_game finds an empty clock, although moves may have come in between,
\* and the one it blames is empty (Game::end_game). With increments both are
\* false: bringing the clocks up to date once more refills them.
THEOREM LoserIsOutOfTimeTheorem ==
  ASSUME Inc = 0
  PROVE  Spec => []LoserIsOutOfTime
<1> DEFINE LInv == /\ ending => SomeoneIsOut
                   /\ loser # NoLoser => loser \in Player /\ ClockOf(loser) <= 0
<1>1. Init => LInv
  BY DEF Init
<1>2. CInv /\ LInv /\ [Next]_vars => LInv'
  <2> SUFFICES ASSUME CInv, LInv, [Next]_vars PROVE LInv'
    OBVIOUS
  <2>1. ASSUME UNCHANGED <<ending, loser>>,
               \A b \in Board, c \in Color : clocks'[b][c] <= clocks[b][c],
               clocks' \in [Board -> [Color -> Int]]
        PROVE  LInv'
    <3>1. \A p \in Player : /\ ClockOf(p)' <= ClockOf(p)
                            /\ ClockOf(p) \in Int /\ ClockOf(p)' \in Int
      <4>1. \A p \in Player : p \div 2 \in Board /\ p % 2 \in Color
        BY DEF Player, Board, Color
      <4> QED
        BY <2>1, <4>1 DEF CInv, TypeOK, ClockOf
    <3> QED
      BY <2>1, <3>1 DEF SomeoneIsOut, ClockOf
  <2>2. ASSUME UpdateAllClocks, UNCHANGED <<toMove, untilStart>>
        PROVE  /\ clocks' \in [Board -> [Color -> Int]]
               /\ \A b \in Board, c \in Color : clocks'[b][c] <= clocks[b][c]
    BY <2>2, UpdatedClocks DEF CInv
  <2>3. ASSUME UNCHANGED clocks
        PROVE  /\ clocks' \in [Board -> [Color -> Int]]
               /\ \A b \in Board, c \in Color : clocks'[b][c] <= clocks[b][c]
    BY <2>3 DEF CInv, TypeOK
  <2>4. CASE Tick
    BY <2>1, <2>3, <2>4 DEF Tick
  <2>5. ASSUME NEW b \in Board, NEW mates \in BOOLEAN, Move(b, mates) PROVE LInv'
    <3>1. /\ clocks' = [clocks EXCEPT ![b] = Updated(b)]
          /\ Updated(b) \in [Color -> Int] /\ clocks \in [Board -> [Color -> Int]]
      BY <2>5, ClockTypes DEF Move, CInv, TypeOK
    <3>2. \A c \in Color : Updated(b)[c] <= clocks[b][c]
      BY ClockTypes, ClockAssumption DEF Updated, Shown, CInv, TypeOK
    <3>3. clocks' \in [Board -> [Color -> Int]]
      BY <3>1
    <3>4. ASSUME NEW a \in Board, NEW c \in Color PROVE clocks'[a][c] <= clocks[a][c]
      <4>1. CASE a = b
        BY <3>1, <3>2, <4>1
      <4>2. CASE a # b
        <5>1. clocks'[a] = clocks[a] /\ clocks[a][c] \in Int
          BY <3>1, <4>2
        <5> QED
          BY <5>1
      <4> QED
        BY <4>1, <4>2
    <3> QED
      BY <2>1, <2>5, <3>3, <3>4 DEF Move
  <2>6. CASE Refresh
    BY <2>1, <2>2, <2>6 DEF Refresh
  <2>7. ASSUME NEW d \in checks, CheckGame(d) PROVE LInv'
    <3>1. CASE UNCHANGED <<clocks, ending>>
      BY <2>1, <2>3, <2>7, <3>1 DEF CheckGame
    <3>2. CASE /\ untilStart = 0 /\ UpdateAllClocks
               /\ ending' = (MinToMoveClock(clocks') <= 0)
      <4>1. \A b \in Board, c \in Color : clocks'[b][c] <= clocks[b][c]
        BY <2>2, <2>7, <3>2 DEF CheckGame
      <4>2. clocks' \in [Board -> [Color -> Int]] /\ ~ending /\ UNCHANGED loser
        BY <2>2, <2>7, <3>2 DEF CheckGame
      <4>3. loser # NoLoser => ClockOf(loser)' <= 0
        <5>1. loser # NoLoser => /\ loser \div 2 \in Board /\ loser % 2 \in Color
                                 /\ clocks[loser \div 2][loser % 2] <= 0
          BY DEF Player, Board, Color, ClockOf
        <5> QED
          BY <4>1, <4>2, <5>1 DEF ClockOf, CInv, TypeOK
      <4>4. ASSUME ending' PROVE \E p \in Player : ClockOf(p)' <= 0
        <5>1. MinToMoveClock(clocks') <= 0
          BY <3>2, <4>4, Zenon
        <5>2. \E b \in Board : clocks'[b][toMove[b]] <= 0
          BY <4>2, <5>1 DEF MinToMoveClock, Board
        <5>3. PICK b \in Board : clocks'[b][toMove[b]] <= 0
          BY <5>2
        <5>4. /\ 2 * b + toMove[b] \in Player
              /\ (2 * b + toMove[b]) \div 2 = b /\ (2 * b + toMove[b]) % 2 = toMove[b]
          BY DEF CInv, TypeOK, Board, Color, Player
        <5> QED
          BY <5>3, <5>4 DEF ClockOf
      <4> QED
        BY <4>2, <4>3, <4>4 DEF SomeoneIsOut, ClockOf
    <3> QED
      BY <2>7, <3>1, <3>2 DEF CheckGame
  <2>8. CASE EndGame
    <3>1. CASE result # "None"
      BY <2>8, <3>1 DEF EndGame, ClockOf
    <3>2. CASE result = "None"
      <4>1. clocks' \in [Board -> [Color -> Int]] /\ ~ending'
            /\ loser' = Flaggee(clocks') /\ ending
        BY <2>2, <2>8, <3>2 DEF EndGame
      <4>2. PICK p \in Player : ClockOf(p) <= 0
        BY <4>1 DEF SomeoneIsOut
      <4>3. /\ p \div 2 \in Board /\ p % 2 \in Color
            /\ clocks[p \div 2][p % 2] \in Int /\ clocks'[p \div 2][p % 2] \in Int
        BY <4>1 DEF CInv, TypeOK, Player, Board, Color
      <4>4. clocks'[p \div 2][p % 2] <= 0
        BY <2>2, <2>8, <3>2, <4>2, <4>3 DEF EndGame, ClockOf
      <4>5. loser' \in Player /\ clocks'[loser' \div 2][loser' % 2] <= clocks'[p \div 2][p % 2]
        BY <4>1, FlaggeeHasLeast
      <4>6. clocks'[loser' \div 2][loser' % 2] \in Int
        BY <4>1, <4>5 DEF Player, Board, Color
      <4> QED
        BY <4>1, <4>3, <4>4, <4>5, <4>6 DEF ClockOf
    <3> QED
      BY <3>1, <3>2
  <2>9. CASE UNCHANGED vars
    BY <2>1, <2>3, <2>9 DEF vars
  <2> QED
    BY <2>4, <2>5, <2>6, <2>7, <2>8, <2>9 DEF Next
<1>3. LInv => LoserIsOutOfTime
  BY DEF LoserIsOutOfTime
<1> QED
  BY <1>1, <1>2, <1>3, ClockInvariant, PTL DEF Spec

\* A result is final, also for the arbiter that is about to end the game for
\* another reason (Game::end_game).
THEOREM ResultIsFinalTheorem == Spec => ResultIsFinal
<1>1. [Next]_vars => [result # "None" => result' = result /\ loser' = loser]_vars
  BY DEF Next, Tick, Move, Refresh, CheckGame, EndGame, vars
<1> QED
  BY <1>1, PTL DEF Spec, ResultIsFinal
=============================================================================
