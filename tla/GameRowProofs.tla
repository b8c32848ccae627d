--------------------------- MODULE GameRowProofs ---------------------------
(***************************************************************************)
(* Proofs about the row of a game and what is made of it: the encodings,   *)
(* for every move, key and result; the row, for any moves and length of a  *)
(* game; the pages of past games, for any set of rows.                     *)
(***************************************************************************)
EXTENDS GameRow, UserGames, FiniteSetTheorems, TLAPS

-----------------------------------------------------------------------------
(* Encodings: what is written reads back *)

(* The fields of a drop, and of a move from a square, do not overlap. *)
LEMMA DropFields ==
    ASSUME NEW dest \in 0..63, NEW piece \in 0..5
    PROVE  /\ (dest + 64 * piece) % 64 = dest
           /\ (dest + 64 * piece) \div 64 = piece
OBVIOUS

(* See DropFields. *)
LEMMA StepFields ==
    ASSUME NEW src \in 0..63, NEW dest \in 0..63, NEW piece \in 0..6
    PROVE  /\ (dest + 512 * src + 64 * piece) % 64 = dest
           /\ ((dest + 512 * src + 64 * piece) \div 64) % 8 = piece
           /\ (dest + 512 * src + 64 * piece) \div 512 = src
           /\ src % 64 = src
OBVIOUS

(* What serialize_move makes of a drop, and of a move from a square. *)
LEMMA DropReadsBack ==
    ASSUME NEW dest \in 0..63, NEW piece \in 0..5, piece # 0 \/ dest >= 8,
           NEW m, m = [src |-> -1, dest |-> dest, piece |-> piece]
    PROVE  /\ SerializeMove(m) \in Int /\ FitsI16(SerializeMove(m))
           /\ DeserializeMove(SerializeMove(m)) = m
           /\ ClientMove(SerializeMove(m)) = m
<1>1. m.src = -1 /\ m.dest = dest /\ m.piece = piece
  OBVIOUS
<1>2. PICK n \in Nat : /\ 0 < n /\ n <= 32767
                   /\ n = dest + 64 * piece
  OBVIOUS
<1>3. SerializeMove(m) = -n
  BY <1>1, <1>2 DEF SerializeMove, None
<1>4. n % 64 = dest /\ n \div 64 = piece
  BY <1>2, DropFields
<1>5. -n < 0 /\ -n < 1 /\ -(-n) = n /\ FitsI16(-n)
  BY <1>2 DEF FitsI16
<1>6. DeserializeMove(-n) = m
  BY <1>4, <1>5 DEF DeserializeMove, None
<1>7. ClientMove(-n) = m
  BY <1>4, <1>5 DEF ClientMove, None
<1> QED BY <1>3, <1>5, <1>6, <1>7

\* A move from square to square, with its promotion.
LEMMA StepReadsBack ==
    ASSUME NEW src \in 0..63, NEW dest \in 0..63, NEW piece \in -1..5,
           src # dest,
           NEW m, m = [src |-> src, dest |-> dest, piece |-> piece]
    PROVE  /\ SerializeMove(m) \in Int /\ FitsI16(SerializeMove(m))
           /\ DeserializeMove(SerializeMove(m)) = m
           /\ ClientMove(SerializeMove(m)) = m
<1>1. m.src = src /\ m.dest = dest /\ m.piece = piece
  OBVIOUS
<1>2. PICK field \in 0..6 : field = IF piece = -1 THEN 6 ELSE piece
  OBVIOUS
<1>3. PICK n \in Nat : /\ 0 < n /\ n <= 32767
                   /\ n = dest + 512 * src + 64 * field
  BY <1>2
<1>4. SerializeMove(m) = n
  BY <1>1, <1>2, <1>3 DEF SerializeMove, None, NUM_PIECES
<1>5. /\ n % 64 = dest /\ (n \div 64) % 8 = field
      /\ n \div 512 = src /\ src % 64 = src
  BY <1>3, StepFields
<1>6. /\ (IF field >= 6 THEN -1 ELSE field) = piece
      /\ (IF field < 6 THEN field ELSE -1) = piece
  BY <1>2
<1>7. ~(n < 0) /\ ~(n < 1) /\ FitsI16(n)
  BY <1>3 DEF FitsI16
<1>8. DeserializeMove(n) = m
  BY <1>5, <1>6, <1>7 DEF DeserializeMove, None, NUM_PIECES
<1>9. ClientMove(n) = m
  BY <1>5, <1>6, <1>7 DEF ClientMove, None
<1> QED BY <1>4, <1>7, <1>8, <1>9

(* Moves survive serialize_move and deserialize_move, the number fits in 16 *)
(* bits, and the web client reads the same move. A pawn dropped on a1, which *)
(* chess forbids, would be written as 0 and read back as a move.            *)
THEOREM MovesReadBack ==
    ASSUME NEW m \in BughouseMove
    PROVE  /\ SerializeMove(m) \in Int /\ FitsI16(SerializeMove(m))
           /\ DeserializeMove(SerializeMove(m)) = m
           /\ ClientMove(SerializeMove(m)) = m
<1>1. CASE m \in Drops /\ (m.piece = Pawn => m.dest >= 8)
  <2>1. PICK dest \in 0..63, piece \in 0..5 :
            m = [src |-> -1, dest |-> dest, piece |-> piece]
    BY <1>1 DEF Drops, None, Squares, Pieces, NUM_PIECES
  <2>2. piece # 0 \/ dest >= 8
    BY <1>1, <2>1 DEF Pawn
  <2> QED BY <2>1, <2>2, DropReadsBack
<1>2. CASE m \in Steps /\ m.src # m.dest
  <2>1. PICK src \in 0..63, dest \in 0..63, piece \in -1..5 :
            m = [src |-> src, dest |-> dest, piece |-> piece]
    <3>1. Pieces \cup {None} = -1..5
      BY DEF None, Pieces, NUM_PIECES
    <3>2. m \in [src : 0..63, dest : 0..63, piece : -1..5]
      BY <1>2, <3>1 DEF Steps, Squares
    <3> QED BY <3>2
  <2>2. src # dest
    BY <1>2, <2>1
  <2> QED BY <2>1, <2>2, StepReadsBack
<1> QED BY <1>1, <1>2 DEF BughouseMove

(* Within half the range of an i32, the key of a move tells its board and   *)
(* its time, and keys of one board are sorted like the times.               *)
LEMMA SmallIsNotWrapped ==
    ASSUME NEW n \in Int, NEW half \in Nat, -half <= n, n < half
    PROVE  Wrap(n, half) = n
<1>1. (n + half) % (2 * half) = n + half
  <2>1. PICK k \in Nat : k = n + half
    OBVIOUS
  <2>2. PICK d \in Nat : d = 2 * half /\ k < d
    BY <2>1
  <2>3. k % d = k
    BY <2>2
  <2> QED BY <2>1, <2>2, <2>3
<1> QED BY <1>1 DEF Wrap

\* A key is its time and, in the last bit, its board.
LEMMA KeyFields ==
    ASSUME NEW ms \in Nat, NEW board \in Board
    PROVE  (2 * ms + board) % 2 = board /\ (2 * ms + board) \div 2 = ms
BY DEF Board

\* The key of a move (Db::to_move_key) gives back its time and board, and later
\* moves have greater keys.
THEOREM KeysReadBack ==
    ASSUME NEW ms \in Nat, NEW board \in Board, 2 * ms < MaxKey
    PROVE  /\ ToMoveKey(ms, board) \in 0..MaxKey
           /\ KeyBoard(ToMoveKey(ms, board)) = board
           /\ KeyMs(ToMoveKey(ms, board)) = ms
           /\ \A later \in Nat : ms < later /\ 2 * later < MaxKey =>
                  ToMoveKey(ms, board) < ToMoveKey(later, board)
<1> DEFINE Short(n) == n \in Nat /\ 2 * n < MaxKey
<1>1. ASSUME NEW n \in Nat, Short(n)
      PROVE  ToMoveKey(n, board) = 2 * n + board
  <2>1. MaxKey + 1 \in Nat
    BY EncodingsAssumption
  <2>2. Wrap(n, MaxKey + 1) = n
    BY <1>1, <2>1, SmallIsNotWrapped, EncodingsAssumption
  <2>3. Wrap(2 * n, MaxKey + 1) = 2 * n
    BY <1>1, <2>1, SmallIsNotWrapped, EncodingsAssumption
  <2> QED BY <2>2, <2>3 DEF ToMoveKey
<1>2. ToMoveKey(ms, board) = 2 * ms + board
  BY <1>1
<1>3. 2 * ms + board \in 0..MaxKey
  BY EncodingsAssumption DEF Board
<1>4. ASSUME NEW later \in Nat, ms < later, 2 * later < MaxKey
      PROVE  ToMoveKey(ms, board) < ToMoveKey(later, board)
  BY <1>1, <1>2, <1>4 DEF Board
<1> QED BY <1>2, <1>3, <1>4, KeyFields DEF KeyBoard, KeyMs

(* Results survive serialize_result and deserialize_result, and are told    *)
(* from the -1 of a game in progress.                                       *)
THEOREM ResultsReadBack ==
    ASSUME NEW r \in GameResult
    PROVE  /\ SerializeResult(r) \in 0..7
           /\ DeserializeResult(SerializeResult(r)) = r
<1>1. /\ r.board \in 0..1 /\ r.winner \in 0..1 /\ r.kind \in 0..1
      /\ r = [board |-> r.board, winner |-> r.winner, kind |-> r.kind]
  BY DEF GameResult, Board, Color, Flagged, Checkmate
<1>2. ASSUME NEW b \in 0..1, NEW w \in 0..1, NEW k \in 0..1
      PROVE  /\ (b + 2 * w + 4 * k) % 2 = b
             /\ ((b + 2 * w + 4 * k) \div 2) % 2 = w
             /\ ((b + 2 * w + 4 * k) \div 4) % 2 = k
  OBVIOUS
<1>3. SerializeResult(r) = r.board + 2 * r.winner + 4 * r.kind
  BY DEF SerializeResult
<1>4. r.kind = IF r.kind = 0 THEN 0 ELSE 1
  BY <1>1
<1> QED BY <1>1, <1>2, <1>3, <1>4 DEF DeserializeResult, Flagged, Checkmate

(* The players whose ratings rise are the winner and the player whom        *)
(* get_partner takes for his partner, whichever board and color decided.    *)
THEOREM WinnersArePartners ==
    ASSUME NEW r \in GameResult
    PROVE  Winners(r) = {<<r.board, r.winner>>, Partner(<<r.board, r.winner>>)}
<1>1. Seat = {<<0, 0>>, <<0, 1>>, <<1, 0>>, <<1, 1>>}
  BY DEF Seat, Board, Color
<1>2. /\ Index(<<0, 0>>) = 0 /\ Index(<<0, 1>>) = 1
      /\ Index(<<1, 0>>) = 2 /\ Index(<<1, 1>>) = 3
  BY DEF Index
<1>3. r.board \in {0, 1} /\ r.winner \in {0, 1}
  BY DEF GameResult, Board, Color
<1>4. CASE (r.board = 0) = (r.winner = 0)
  <2>1. Winners(r) = {<<0, 0>>, <<1, 1>>}
    BY <1>1, <1>2, <1>4 DEF Winners
  <2>2. /\ Partner(<<0, 0>>) = <<1, 1>> /\ Partner(<<1, 1>>) = <<0, 0>>
    BY DEF Partner
  <2>3. \/ <<r.board, r.winner>> = <<0, 0>>
        \/ <<r.board, r.winner>> = <<1, 1>>
    BY <1>3, <1>4
  <2> QED BY <2>1, <2>2, <2>3
<1>5. CASE (r.board = 0) # (r.winner = 0)
  <2>1. Winners(r) = {<<0, 1>>, <<1, 0>>}
    BY <1>1, <1>2, <1>5 DEF Winners
  <2>2. /\ Partner(<<0, 1>>) = <<1, 0>> /\ Partner(<<1, 0>>) = <<0, 1>>
    BY DEF Partner
  <2>3. \/ <<r.board, r.winner>> = <<0, 1>>
        \/ <<r.board, r.winner>> = <<1, 0>>
    BY <1>3, <1>5
  <2> QED BY <2>1, <2>2, <2>3
<1> QED BY <1>4, <1>5

FitsI32(n) == -2147483648 <= n /\ n <= 2147483647

(* The increment in milliseconds is exact up to 32 seconds; 33 seconds wrap *)
(* around to a negative one. The base time fits for every i16.              *)
THEOREM TimesFit ==
    /\ \A inc \in -32..32 : GetIncMs(inc) = 1000 * inc
    /\ GetIncMs(33) < 0
    /\ \A base \in Int : FitsI16(base) => FitsI32(GetBaseMs(base))
BY DEF GetIncMs, GetBaseMs, Wrap, FitsI16, FitsI32

-----------------------------------------------------------------------------
(* GameRow *)

(* The key of a move of the game, which is far shorter than twelve days. *)
LEMMA KeyInRange ==
    ASSUME NEW ms \in 0..MaxMs, NEW b \in Board
    PROVE  ToMoveKey(ms, b) \in 0..2 * MaxMs + 1
<1>1. ms \in Nat /\ 2 * ms < MaxKey /\ 2 * ms <= 2 * MaxMs
  BY GameRowAssumption, EncodingsAssumption
<1>2. KeyBoard(ToMoveKey(ms, b)) = b /\ KeyMs(ToMoveKey(ms, b)) = ms
  BY <1>1, KeysReadBack
<1>3. ToMoveKey(ms, b) \in Nat
  BY <1>1, KeysReadBack, EncodingsAssumption
<1>4. PICK key \in Nat : key = ToMoveKey(ms, b)
  BY <1>3
<1>5. key % 2 = b /\ key \div 2 = ms
  BY <1>2, <1>4 DEF KeyBoard, KeyMs
<1>6. key <= 2 * ms + 1
  BY <1>4, <1>5
<1> QED BY <1>1, <1>4, <1>6, GameRowAssumption

(* Moves with and without a stamp were made, and the column tells the result. *)
IdsArePlayed ==
    /\ \A id \in unstamped \cup DOMAIN stamps : id[2] <= Len(played[id[1]])
    /\ unstamped \cap DOMAIN stamps = {}

ResultIsWritten ==
    resultCol >= 0 => /\ result \in GameResult
                      /\ resultCol = SerializeResult(result)

(* A future between its two queries has written the first one. *)
RowIsAhead ==
    /\ recording => resultCol >= 0
    /\ userCol >= 0 => resultCol >= 0 /\ userCol = SerializeResult(result)

RInv == TypeOK /\ IdsArePlayed /\ ResultIsWritten /\ RowIsAhead

(* Where the game has room for a move, each board has. *)
LEMMA RoomOnBoard ==
    ASSUME TypeOK, NEW b \in Board, Len(played[b]) + Len(played[1 - b]) < MaxMoves
    PROVE  Len(played[b]) < MaxMoves
<1>1. 1 - b \in Board
  BY DEF Board
<1>2. PICK m \in Nat, n \in Nat : m = Len(played[b]) /\ n = Len(played[1 - b])
  BY <1>1 DEF TypeOK
<1>3. m + n < MaxMoves
  BY <1>2
<1>4. m < MaxMoves
  BY <1>3, GameRowAssumption
<1> QED BY <1>2, <1>4

(* The inductive invariant behind the theorems about types and results. *)
LEMMA RowInvariant == Spec => []RInv
<1>1. Init => RInv
  <2> SUFFICES ASSUME Init PROVE RInv
    OBVIOUS
  <2>1. TypeOK
    <3>1. /\ DOMAIN played = Board
          /\ \A b \in Board : played[b] \in Seq(Moves) /\ Len(played[b]) <= MaxMoves
      BY GameRowAssumption DEF Init
    <3>2. DOMAIN moves = {}
      BY DEF Init
    <3>3. resultCol \in -1..7 /\ userCol \in -1..7
      BY DEF Init
    <3>4. now \in 0..MaxMs
      BY GameRowAssumption DEF Init
    <3>5. /\ result \in GameResult \cup {NoResult} /\ inMemory \in BOOLEAN
          /\ recording \in BOOLEAN /\ recorded \in BOOLEAN
      BY DEF Init
    <3>6. /\ unstamped \subseteq MoveID /\ lost \subseteq MoveID
          /\ DOMAIN stamps = {} /\ queued = {}
      BY DEF Init
    <3> QED BY <3>1, <3>2, <3>3, <3>4, <3>5, <3>6 DEF TypeOK
  <2>2. IdsArePlayed /\ ResultIsWritten /\ RowIsAhead
    BY DEF Init, IdsArePlayed, ResultIsWritten, RowIsAhead
  <2> QED BY <2>1, <2>2 DEF RInv
<1>2. RInv /\ [Next]_vars => RInv'
  <2> SUFFICES ASSUME RInv, [Next]_vars PROVE RInv'
    OBVIOUS
  <2> USE GameRowAssumption DEF RInv
  <2>1. CASE Tick
    <3>1. TypeOK'
      BY <2>1 DEF Tick, TypeOK, recordVars
    <3> QED BY <2>1, <3>1 DEF Tick, IdsArePlayed, ResultIsWritten, RowIsAhead, recordVars
  <2>2. ASSUME NEW b \in Board, NEW m \in Moves, MakeMove(b, m)
        PROVE  RInv'
    <3>1. PICK seq \in Seq(Moves) : seq = played[b] /\ Len(seq) < MaxMoves
      BY <2>2, RoomOnBoard DEF MakeMove, TypeOK
    <3>2. /\ Append(seq, m) \in Seq(Moves)
          /\ Len(Append(seq, m)) = Len(seq) + 1
          /\ Len(seq) \in Nat /\ Len(seq) + 1 \in 1..MaxMoves
          /\ Len(seq) % 2 \in Color
      <4>1. /\ Append(seq, m) \in Seq(Moves)
            /\ Len(Append(seq, m)) = Len(seq) + 1
            /\ Len(seq) \in Nat
        BY <3>1
      <4>2. PICK n \in Nat : n = Len(seq) /\ n < MaxMoves
        BY <3>1, <4>1
      <4>3. n % 2 \in {0, 1} /\ n + 1 \in 1..MaxMoves
        BY <4>2
      <4> QED BY <4>1, <4>2, <4>3 DEF Color
    <3>3. played' = [played EXCEPT ![b] = Append(seq, m)]
      BY <2>2, <3>1 DEF MakeMove
    <3>4. /\ DOMAIN played' = Board
          /\ \A c \in Board : /\ played'[c] \in Seq(Moves)
                              /\ Len(played'[c]) <= MaxMoves
      <4>1. /\ DOMAIN played' = Board
            /\ \A c \in Board : played'[c] = IF c = b THEN Append(seq, m)
                                                      ELSE played[c]
        BY <3>3 DEF TypeOK
      <4>2. Len(Append(seq, m)) <= MaxMoves
        BY <3>1, <3>2
      <4> QED BY <3>2, <4>1, <4>2 DEF TypeOK
    <3>6. unstamped' = unstamped \cup {<<b, Len(seq) + 1>>}
      BY <2>2, <3>1 DEF MakeMove
    <3>7. unstamped' \subseteq MoveID
      BY <3>2, <3>6 DEF TypeOK, MoveID
    <3>8. result' \in GameResult \cup {NoResult}
      <4>1. [board |-> b, winner |-> Len(seq) % 2, kind |-> Checkmate]
                \in GameResult
        BY <3>2 DEF GameResult
      <4> QED BY <2>2, <3>1, <4>1 DEF MakeMove, TypeOK, recordVars
    <3>9. TypeOK'
      BY <2>2, <3>4, <3>7, <3>8 DEF MakeMove, TypeOK, recordVars
    <3>10. \A c \in Board : /\ Len(played[c]) \in Nat
                            /\ Len(played'[c]) \in Nat
                            /\ Len(played[c]) <= Len(played'[c])
      BY <3>1, <3>2, <3>3 DEF TypeOK
    <3>11. IdsArePlayed'
      <4>1. ASSUME NEW id \in unstamped \cup DOMAIN stamps
            PROVE  /\ id[1] \in Board /\ id[2] \in Nat
                   /\ id[2] <= Len(played[id[1]])
                   /\ id[2] <= Len(played'[id[1]])
        <5>1. id[1] \in Board /\ id[2] \in Nat
          BY DEF TypeOK, MoveID
        <5>2. id[2] <= Len(played[id[1]])
          BY DEF IdsArePlayed
        <5> QED BY <3>10, <5>1, <5>2
      <4>2. <<b, Len(seq) + 1>> \notin unstamped \cup DOMAIN stamps
        <5> SUFFICES ASSUME <<b, Len(seq) + 1>> \in unstamped \cup DOMAIN stamps
                     PROVE  FALSE
          OBVIOUS
        <5>1. Len(seq) + 1 <= Len(seq)
          BY <3>1, <4>1
        <5> QED BY <3>2, <5>1
      <4>3. <<b, Len(seq) + 1>>[2] <= Len(played'[<<b, Len(seq) + 1>>[1]])
        BY <3>1, <3>2, <3>3 DEF TypeOK
      <4>4. stamps' = stamps
        BY <2>2 DEF MakeMove
      <4>5. unstamped \cap DOMAIN stamps = {}
        BY DEF IdsArePlayed
      <4> QED BY <3>6, <4>1, <4>2, <4>3, <4>4, <4>5 DEF IdsArePlayed
    <3>12. ResultIsWritten' /\ RowIsAhead'
      BY <2>2 DEF MakeMove, ResultIsWritten, RowIsAhead, recordVars
    <3> QED BY <3>9, <3>11, <3>12
  <2>3. ASSUME NEW id \in unstamped, Stamp(id)
        PROVE  RInv'
    <3>1. id \in MoveID /\ now \in 0..MaxMs
      BY DEF TypeOK
    <3>2. /\ DOMAIN stamps' \subseteq DOMAIN stamps \cup {id}
          /\ \A i \in DOMAIN stamps' : stamps'[i] \in {now, stamps[i]}
          /\ \A i \in DOMAIN stamps' : i # id => i \in DOMAIN stamps
          /\ unstamped' = unstamped \ {id} /\ UNCHANGED <<now, played>>
          /\ \/ queued' = queued /\ stamps' = stamps /\ lost' = lost \cup {id}
             \/ /\ queued' = queued \cup {id} /\ lost' = lost
                /\ DOMAIN stamps' = DOMAIN stamps \cup {id}
      BY <2>3 DEF Stamp
    <3>3. /\ DOMAIN stamps' \subseteq MoveID
          /\ queued' \subseteq DOMAIN stamps' /\ lost' \subseteq MoveID
      BY <3>1, <3>2 DEF TypeOK
    <3>4. \A i \in DOMAIN stamps' : stamps'[i] \in 0..MaxMs
      <4> SUFFICES ASSUME NEW i \in DOMAIN stamps' PROVE stamps'[i] \in 0..MaxMs
        OBVIOUS
      <4>1. CASE stamps'[i] = now
        BY <3>1, <4>1
      <4>2. CASE stamps'[i] # now
        <5>1. stamps' = stamps \/ stamps' = [j \in DOMAIN stamps \cup {id} |->
                                             IF j = id THEN now ELSE stamps[j]]
          BY <2>3 DEF Stamp
        <5>2. stamps'[i] = stamps[i] /\ i \in DOMAIN stamps
          BY <4>2, <5>1
        <5> QED BY <5>2 DEF TypeOK
      <4> QED BY <4>1, <4>2
    <3>5. TypeOK'
      BY <2>3, <3>3, <3>4 DEF Stamp, TypeOK, recordVars
    <3>6. IdsArePlayed'
      BY <3>2 DEF IdsArePlayed
    <3> QED BY <2>3, <3>5, <3>6 DEF Stamp, ResultIsWritten, RowIsAhead, recordVars
  <2>4. ASSUME NEW id \in queued, RecordMove(id)
        PROVE  RInv'
    <3>1. PICK b \in Board, i \in 1..MaxMoves, ms \in 0..MaxMs :
              id = <<b, i>> /\ ms = stamps[id]
      BY DEF TypeOK, MoveID
    <3>2. id \in MoveID /\ id \in DOMAIN stamps
      BY DEF TypeOK
    <3>3. /\ DOMAIN moves' \subseteq 0..2 * MaxMs + 1
          /\ \A key \in DOMAIN moves' : /\ moves'[key] \in Int
                                         /\ FitsI16(moves'[key])
      <4>1. CASE moves' = moves
        BY <4>1 DEF TypeOK
      <4>2. CASE moves' # moves
        <5> DEFINE key == ToMoveKey(ms, b)
                   num == SerializeMove(played[b][i])
        <5>1. moves' = [k \in DOMAIN moves \cup {key} |->
                            IF k = key THEN num ELSE moves[k]]
          BY <2>4, <3>1, <4>2 DEF RecordMove
        <5>2. key \in 0..2 * MaxMs + 1
          BY KeyInRange
        <5>3. played[b] \in Seq(Moves) /\ i \in 1..Len(played[b])
          BY <3>1, <3>2 DEF TypeOK, IdsArePlayed
        <5>4. played[b][i] \in BughouseMove
          BY <5>3
        <5>5. num \in Int /\ FitsI16(num)
          BY <5>4, MovesReadBack
        <5> HIDE DEF key, num
        <5> QED BY <5>1, <5>2, <5>5 DEF TypeOK
      <4> QED BY <4>1, <4>2
    <3>4. TypeOK'
      BY <2>4, <3>2, <3>3 DEF RecordMove, TypeOK, recordVars
    <3> QED BY <2>4, <3>4 DEF RecordMove, IdsArePlayed, ResultIsWritten, RowIsAhead, recordVars
  <2>5. ASSUME NEW b \in Board, NEW c \in Color, EndGame(b, c)
        PROVE  RInv'
    <3>1. [board |-> b, winner |-> 1 - c, kind |-> Flagged] \in GameResult
      BY DEF GameResult, Color
    <3>2. TypeOK'
      BY <2>5, <3>1 DEF EndGame, TypeOK, recordVars
    <3> QED BY <2>5, <3>2 DEF EndGame, IdsArePlayed, ResultIsWritten, RowIsAhead, recordVars
  <2>6. CASE RecordGameResult
    <3>1. result \in GameResult /\ SerializeResult(result) \in 0..7
      BY <2>6, ResultsReadBack DEF RecordGameResult, TypeOK
    <3>2. TypeOK'
      BY <2>6, <3>1 DEF RecordGameResult, TypeOK
    <3> QED BY <2>6, <3>1, <3>2
            DEF RecordGameResult, IdsArePlayed, ResultIsWritten, RowIsAhead, recordVars
  <2>7. CASE RecordUserGames
    <3>1. result \in GameResult /\ SerializeResult(result) \in 0..7
      BY <2>7, ResultsReadBack DEF RecordUserGames, RowIsAhead, ResultIsWritten
    <3>2. TypeOK'
      <4>1. userCol' \in -1..7
        BY <2>7, <3>1 DEF RecordUserGames, TypeOK
      <4> QED BY <2>7, <4>1 DEF RecordUserGames, TypeOK
    <3> QED BY <2>7, <3>1, <3>2
            DEF RecordUserGames, IdsArePlayed, ResultIsWritten, RowIsAhead
  <2>8. CASE RmGame
    <3>1. TypeOK'
      BY <2>8 DEF RmGame, TypeOK, recordVars
    <3> QED BY <2>8, <3>1 DEF RmGame, IdsArePlayed, ResultIsWritten, RowIsAhead, recordVars
  <2>9. CASE Crash
    <3>1. queued \subseteq MoveID
      BY DEF TypeOK
    <3>2. TypeOK'
      BY <2>9, <3>1 DEF Crash, TypeOK, recordVars
    <3> QED BY <2>9, <3>2 DEF Crash, IdsArePlayed, ResultIsWritten, RowIsAhead, recordVars
  <2>10. CASE UNCHANGED vars
    BY <2>10 DEF vars, TypeOK, IdsArePlayed, ResultIsWritten, RowIsAhead, recordVars
  <2> QED BY <2>1, <2>2, <2>3, <2>4, <2>5, <2>6, <2>7, <2>8, <2>9, <2>10 DEF Next
<1> QED BY <1>1, <1>2, PTL DEF Spec

(* Every number that Db::record_move writes fits the column, and every key  *)
(* lies within the game.                                                    *)
THEOREM RowTypeOK == Spec => []TypeOK
<1>1. RInv => TypeOK
  BY DEF RInv
<1> QED BY <1>1, RowInvariant, PTL

(* A row with a result tells the result of the game, whatever moves came    *)
(* after it or got lost, and the seats whose ratings rise are the winner's  *)
(* and the one that get_partner takes for his partner's.                    *)
THEOREM ResultReadsBackTheorem == Spec => []ResultReadsBack
<1>1. RInv => ResultReadsBack
  BY ResultsReadBack, WinnersArePartners
     DEF RInv, ResultIsWritten, ResultReadsBack
<1> QED BY <1>1, RowInvariant, PTL

(* The list of a player's past games never tells another result than the    *)
(* row of the game.                                                         *)
THEOREM UserListAgreesTheorem == Spec => []UserListAgrees
<1>1. RInv => UserListAgrees
  BY DEF RInv, RowIsAhead, ResultIsWritten, UserListAgrees
<1> QED BY <1>1, RowInvariant, PTL

-----------------------------------------------------------------------------
(* What becomes of each move. A key in the row is that of a move that has a *)
(* stamp, with the number of that move; and a move is on its way, lost, or  *)
(* there is something under its key.                                        *)
Made == {id \in MoveID : id[2] <= Len(played[id[1]])}

KeyOf(id) == ToMoveKey(stamps[id], id[1])

KeysAreOfStamps ==
    \A key \in DOMAIN moves :
        \E id \in DOMAIN stamps :
            key = KeyOf(id) /\ moves[key] = SerializeMove(played[id[1]][id[2]])

Accounted ==
    \A id \in Made :
        \/ id \in unstamped \cup queued \cup lost
        \/ id \in DOMAIN stamps /\ KeyOf(id) \in DOMAIN moves

(* Moves that were made are of the type of moves, and those with a stamp     *)
(* were made.                                                                *)
LEMMA MadeTypes ==
    ASSUME TypeOK, NEW id \in Made
    PROVE  /\ id \in MoveID /\ id[1] \in Board /\ id[2] \in 1..MaxMoves
           /\ id[2] \in 1..Len(played[id[1]]) /\ id = <<id[1], id[2]>>
           /\ Len(played[id[1]]) \in Nat
           /\ played[id[1]][id[2]] \in BughouseMove
<1>1. /\ id \in MoveID /\ id[1] \in Board /\ id[2] \in 1..MaxMoves
      /\ id = <<id[1], id[2]>>
  BY DEF Made, MoveID
<1>2. PICK seq \in Seq(Moves) : seq = played[id[1]]
  BY <1>1 DEF TypeOK
<1>3. Len(seq) \in Nat /\ id[2] <= Len(seq)
  BY <1>2 DEF Made
<1>4. id[2] \in 1..Len(seq)
  BY <1>1, <1>3, GameRowAssumption
<1>5. seq[id[2]] \in Moves
  BY <1>4
<1> QED BY <1>1, <1>2, <1>3, <1>4, <1>5, GameRowAssumption

(* See MadeTypes.                                                            *)
LEMMA StampedIsMade ==
    ASSUME RInv, NEW id \in DOMAIN stamps
    PROVE  /\ id \in Made /\ id \notin unstamped
           /\ stamps[id] \in Nat /\ 2 * stamps[id] < MaxKey
<1>1. id \in Made /\ id \notin unstamped
  BY DEF RInv, TypeOK, IdsArePlayed, Made
<1>2. stamps[id] \in 0..MaxMs
  BY DEF RInv, TypeOK
<1> QED BY <1>1, <1>2, GameRowAssumption, EncodingsAssumption

(* The key of a move tells its board and its stamp.                          *)
LEMMA KeyTells ==
    ASSUME RInv, NEW id \in DOMAIN stamps
    PROVE  KeyBoard(KeyOf(id)) = id[1] /\ KeyMs(KeyOf(id)) = stamps[id]
<1>1. id[1] \in Board
  BY StampedIsMade, MadeTypes DEF RInv
<1> QED BY <1>1, StampedIsMade, KeysReadBack DEF KeyOf

(* What was played is there to stay, and a new move has no stamp.            *)
LEMMA ExplainedMove ==
    ASSUME RInv, KeysAreOfStamps, Accounted,
           NEW b \in Board, NEW m \in Moves, MakeMove(b, m)
    PROVE  KeysAreOfStamps' /\ Accounted'
<1>0. TypeOK
  BY DEF RInv
<1>1. PICK seq \in Seq(Moves) : seq = played[b]
  BY <1>0 DEF TypeOK
<1>2. /\ played' = [played EXCEPT ![b] = Append(seq, m)]
      /\ unstamped' = unstamped \cup {<<b, Len(seq) + 1>>}
      /\ UNCHANGED <<stamps, queued, moves, lost>>
  BY <1>1 DEF MakeMove
<1>3. /\ Len(seq) \in Nat /\ Len(Append(seq, m)) = Len(seq) + 1
      /\ \A i \in 1..Len(seq) : Append(seq, m)[i] = seq[i]
  OBVIOUS
<1>4. /\ played'[b] = Append(seq, m)
      /\ \A c \in Board : c # b => played'[c] = played[c]
  BY <1>0, <1>2 DEF TypeOK
<1>5. ASSUME NEW id \in Made
      PROVE  played'[id[1]][id[2]] = played[id[1]][id[2]]
  <2>1. id[1] \in Board /\ id[2] \in 1..Len(played[id[1]])
    BY <1>0, MadeTypes
  <2>2. CASE id[1] = b
    BY <1>1, <1>3, <1>4, <2>1, <2>2
  <2>3. CASE id[1] # b
    BY <1>4, <2>1, <2>3
  <2> QED BY <2>2, <2>3
<1>6. \A id : KeyOf(id)' = KeyOf(id)
  BY <1>2 DEF KeyOf
<1>7. ASSUME NEW id \in Made' PROVE id \in Made \/ id \in unstamped'
  <2>1. id \in MoveID /\ id[1] \in Board /\ id[2] \in Nat /\ id = <<id[1], id[2]>>
    BY DEF Made, MoveID
  <2>2. CASE id[1] = b
    <3>1. id[2] <= Len(seq) + 1
      BY <1>3, <1>4, <2>2 DEF Made
    <3>2. CASE id[2] = Len(seq) + 1
      BY <1>2, <2>1, <2>2, <3>2
    <3>3. CASE id[2] # Len(seq) + 1
      <4>1. id[2] <= Len(seq)
        BY <1>3, <2>1, <3>1, <3>3
      <4> QED BY <1>1, <2>1, <2>2, <4>1 DEF Made
    <3> QED BY <3>2, <3>3
  <2>3. CASE id[1] # b
    BY <1>4, <2>1, <2>3 DEF Made
  <2> QED BY <2>2, <2>3
<1>8. KeysAreOfStamps'
  <2> SUFFICES ASSUME NEW key \in DOMAIN moves
               PROVE  \E id \in DOMAIN stamps :
                          /\ key = KeyOf(id)
                          /\ moves[key] = SerializeMove(played'[id[1]][id[2]])
    BY <1>2, <1>6 DEF KeysAreOfStamps
  <2>1. PICK id \in DOMAIN stamps :
            key = KeyOf(id) /\ moves[key] = SerializeMove(played[id[1]][id[2]])
    BY DEF KeysAreOfStamps
  <2>2. played'[id[1]][id[2]] = played[id[1]][id[2]]
    BY <1>5, StampedIsMade
  <2> QED BY <2>1, <2>2
<1>9. Accounted'
  BY <1>2, <1>6, <1>7 DEF Accounted
<1> QED BY <1>8, <1>9

(* A stamp is given once: the keys of the other moves stay.                  *)
LEMMA ExplainedStamp ==
    ASSUME RInv, KeysAreOfStamps, Accounted, NEW id \in unstamped, Stamp(id)
    PROVE  KeysAreOfStamps' /\ Accounted'
<1>1. /\ UNCHANGED <<played, moves>> /\ unstamped' = unstamped \ {id}
      /\ Made' = Made
  BY DEF Stamp, Made
<1>2. id \notin DOMAIN stamps
  BY DEF RInv, IdsArePlayed
<1>3. CASE UNCHANGED <<stamps, queued>> /\ lost' = lost \cup {id}
  <2>1. \A i : KeyOf(i)' = KeyOf(i)
    BY <1>3 DEF KeyOf
  <2> QED BY <1>1, <1>3, <2>1 DEF KeysAreOfStamps, Accounted
<1>4. CASE /\ stamps' = [i \in DOMAIN stamps \cup {id} |->
                            IF i = id THEN now ELSE stamps[i]]
           /\ queued' = queued \cup {id} /\ UNCHANGED lost
  <2>1. DOMAIN stamps' = DOMAIN stamps \cup {id}
    BY <1>4
  <2>2. \A i \in DOMAIN stamps : stamps'[i] = stamps[i]
    BY <1>2, <1>4
  <2>3. \A i \in DOMAIN stamps : KeyOf(i)' = KeyOf(i)
    BY <2>2 DEF KeyOf
  <2>4. KeysAreOfStamps'
    BY <1>1, <2>1, <2>3 DEF KeysAreOfStamps
  <2>5. Accounted'
    BY <1>1, <1>4, <2>1, <2>3 DEF Accounted
  <2> QED BY <2>4, <2>5
<1> QED BY <1>3, <1>4 DEF Stamp

(* RecordMove writes a move under its own key; what was there is of a move   *)
(* with the same key.                                                        *)
LEMMA ExplainedRecord ==
    ASSUME RInv, KeysAreOfStamps, Accounted, NEW id \in queued, RecordMove(id)
    PROVE  KeysAreOfStamps' /\ Accounted'
<1>1. /\ UNCHANGED <<played, stamps, unstamped>> /\ queued' = queued \ {id}
      /\ Made' = Made /\ \A i : KeyOf(i)' = KeyOf(i)
  BY DEF RecordMove, Made, KeyOf
<1>2. id \in DOMAIN stamps
  BY DEF RInv, TypeOK
<1>3. CASE moves' = moves /\ lost' = lost \cup {id}
  BY <1>1, <1>3 DEF KeysAreOfStamps, Accounted
<1>4. CASE /\ moves' = [k \in DOMAIN moves \cup {KeyOf(id)} |->
                           IF k = KeyOf(id)
                             THEN SerializeMove(played[id[1]][id[2]])
                             ELSE moves[k]]
           /\ lost' = lost
  <2>1. PICK key, num : key = KeyOf(id) /\ num = SerializeMove(played[id[1]][id[2]])
    OBVIOUS
  <2>2. moves' = [k \in DOMAIN moves \cup {key} |->
                      IF k = key THEN num ELSE moves[k]]
    BY <1>4, <2>1
  <2>3. /\ DOMAIN moves' = DOMAIN moves \cup {key} /\ moves'[key] = num
        /\ \A k \in DOMAIN moves : k # key => moves'[k] = moves[k]
    BY <2>2
  <2>4. KeysAreOfStamps'
    <3> SUFFICES ASSUME NEW k \in DOMAIN moves'
                 PROVE  \E i \in DOMAIN stamps :
                          /\ k = KeyOf(i)
                          /\ moves'[k] = SerializeMove(played[i[1]][i[2]])
      BY <1>1 DEF KeysAreOfStamps
    <3>1. CASE k = key
      BY <1>2, <2>1, <2>3, <3>1
    <3>2. CASE k # key
      <4>1. k \in DOMAIN moves /\ moves'[k] = moves[k]
        BY <2>3, <3>2
      <4> QED BY <4>1 DEF KeysAreOfStamps
    <3> QED BY <3>1, <3>2
  <2>5. Accounted'
    BY <1>1, <1>2, <1>4, <2>1, <2>3 DEF Accounted
  <2> QED BY <2>4, <2>5
<1> QED BY <1>3, <1>4 DEF RecordMove, KeyOf

(* All that is in the row, and all that is not, is explained at all times.   *)
RowExplained == KeysAreOfStamps /\ Accounted

LEMMA Explained == Spec => [](RInv /\ RowExplained)
<1>1. Init => RowExplained
  <2> SUFFICES ASSUME Init PROVE RowExplained
    OBVIOUS
  <2>1. ASSUME NEW id \in MoveID PROVE ~(id[2] <= Len(played[id[1]]))
    <3>1. id[1] \in Board /\ id[2] \in Nat /\ id[2] >= 1
      BY GameRowAssumption DEF MoveID
    <3>2. Len(played[id[1]]) = 0
      BY <3>1 DEF Init
    <3> QED BY <3>1, <3>2
  <2>2. Made = {} /\ DOMAIN moves = {}
    BY <2>1 DEF Made, Init
  <2> QED BY <2>2 DEF RowExplained, KeysAreOfStamps, Accounted
<1>2. RInv /\ RowExplained /\ [Next]_vars => RowExplained'
  <2> SUFFICES ASSUME RInv, RowExplained, [Next]_vars PROVE RowExplained'
    OBVIOUS
  <2>1. KeysAreOfStamps /\ Accounted
    BY DEF RowExplained
  <2>2. CASE \E b \in Board, m \in Moves : MakeMove(b, m)
    BY <2>1, <2>2, ExplainedMove DEF RowExplained
  <2>3. CASE \E id \in unstamped : Stamp(id)
    BY <2>1, <2>3, ExplainedStamp DEF RowExplained
  <2>4. CASE \E id \in queued : RecordMove(id)
    BY <2>1, <2>4, ExplainedRecord DEF RowExplained
  <2>5. CASE UNCHANGED <<played, stamps, unstamped, queued, moves, lost>>
    <3>1. Made' = Made /\ \A i : KeyOf(i)' = KeyOf(i)
      BY <2>5 DEF Made, KeyOf
    <3> QED BY <2>1, <2>5, <3>1 DEF RowExplained, KeysAreOfStamps, Accounted
  <2>6. CASE Crash
    <3>1. Made' = Made /\ \A i : KeyOf(i)' = KeyOf(i)
      BY <2>6 DEF Crash, Made, KeyOf
    <3>2. /\ UNCHANGED <<played, stamps, moves>>
          /\ lost' = lost \cup unstamped \cup queued
      BY <2>6 DEF Crash
    <3> QED BY <2>1, <3>1, <3>2 DEF RowExplained, KeysAreOfStamps, Accounted
  <2> QED
    BY <2>2, <2>3, <2>4, <2>5, <2>6
       DEF Next, vars, Tick, EndGame, RecordGameResult, RecordUserGames, RmGame,
           recordVars
<1> QED BY <1>1, <1>2, RowInvariant, PTL DEF Spec

(* Ranks number the keys of a board from 1, in their order. *)
LEMMA Ranks ==
    ASSUME NEW b \in Board, IsFiniteSet(Keys(b)), Keys(b) \subseteq Nat
    PROVE  /\ \A key \in Keys(b) : Rank(b, key) \in 1..Cardinality(Keys(b))
           /\ \A j, k \in Keys(b) : Rank(b, j) < Rank(b, k) => j < k
           /\ \A i \in 1..Cardinality(Keys(b)) :
                  \E key \in Keys(b) : Rank(b, key) = i
<1> DEFINE S == Keys(b)
           UpTo(key) == {k \in S : k <= key}
           n == Cardinality(S)
           rank == [key \in S |-> Rank(b, key)]
<1>0. n \in Nat /\ IsFiniteSet(1..n) /\ Cardinality(1..n) = n
  <2>1. n \in Nat
    BY FS_CardinalityType
  <2> HIDE DEF n
  <2> QED BY <2>1, FS_Interval
<1>1. ASSUME NEW key \in S
      PROVE  /\ IsFiniteSet(UpTo(key))
             /\ Rank(b, key) = Cardinality(UpTo(key))
             /\ Rank(b, key) \in Nat /\ Rank(b, key) <= n
  <2>1. UpTo(key) \in SUBSET S
    OBVIOUS
  <2>2. Rank(b, key) = Cardinality(UpTo(key))
    BY DEF Rank
  <2> HIDE DEF UpTo
  <2> QED BY <2>1, <2>2, FS_Subset, FS_CardinalityType
<1> HIDE DEF n
<1>2. ASSUME NEW key \in S PROVE Rank(b, key) \in 1..n
  <2>1. key \in UpTo(key)
    OBVIOUS
  <2>2. Cardinality(UpTo(key)) # 0
    BY <1>1, <2>1, FS_EmptySet
  <2>3. Rank(b, key) # 0
    BY <1>1, <2>2
  <2>4. Rank(b, key) \in Nat /\ Rank(b, key) <= n
    BY <1>1
  <2> QED BY <1>0, <2>3, <2>4
<1>3. ASSUME NEW j \in S, NEW k \in S, k < j PROVE Rank(b, k) < Rank(b, j)
  <2>1. UpTo(k) \subseteq UpTo(j) /\ j \in UpTo(j) /\ j \notin UpTo(k)
    BY <1>3
  <2>2. Cardinality(UpTo(k)) <= Cardinality(UpTo(j))
    BY <1>1, <2>1, FS_Subset
  <2>3. Cardinality(UpTo(k)) # Cardinality(UpTo(j))
    BY <1>1, <2>1, FS_Subset
  <2> QED BY <1>1, <2>2, <2>3
<1>4. ASSUME NEW j \in S, NEW k \in S, Rank(b, j) <= Rank(b, k) PROVE j <= k
  <2>1. Rank(b, j) \in Nat /\ Rank(b, k) \in Nat
    BY <1>1, <1>2
  <2> QED BY <1>3, <1>4, <2>1
<1>5. rank \in Injection(S, 1..n)
  <2>1. rank \in [S -> 1..n]
    BY <1>2
  <2>2. ASSUME NEW j \in S, NEW k \in S, rank[j] = rank[k] PROVE j = k
    <3>1. Rank(b, j) = Rank(b, k) /\ Rank(b, j) \in Nat
      BY <1>1, <1>2, <2>2
    <3>2. j <= k /\ k <= j
      BY <1>4, <3>1
    <3> QED BY <3>2
  <2> HIDE DEF rank
  <2> QED BY <2>1, <2>2 DEF Injection, IsInjective
<1>6. rank \in Surjection(S, 1..n)
  BY <1>0, <1>5, FS_Injection DEF n
<1>7. \A i \in 1..n : \E key \in S : rank[key] = i
  BY <1>6 DEF Surjection
<1>8. \A j, k \in S : Rank(b, j) < Rank(b, k) => j < k
  <2> SUFFICES ASSUME NEW j \in S, NEW k \in S, Rank(b, j) < Rank(b, k)
               PROVE  j < k
    OBVIOUS
  <2>1. Rank(b, j) \in Nat /\ Rank(b, k) \in Nat
    BY <1>1, <1>2
  <2>2. j <= k /\ j # k
    BY <1>4, <2>1
  <2> QED BY <2>2
<1> QED BY <1>2, <1>7, <1>8 DEF n

(* The keys of a board are few, and each is that of a move of the board.     *)
LEMMA KeysOfBoard ==
    ASSUME RInv, RowExplained, NEW b \in Board
    PROVE  /\ IsFiniteSet(Keys(b)) /\ Keys(b) \subseteq Nat
           /\ \A key \in Keys(b) :
                  \E j \in 1..Len(played[b]) :
                      /\ <<b, j>> \in DOMAIN stamps
                      /\ key = KeyOf(<<b, j>>)
                      /\ moves[key] = SerializeMove(played[b][j])
<1>0. TypeOK
  BY DEF RInv
<1>1. /\ Keys(b) \subseteq DOMAIN moves /\ DOMAIN moves \subseteq 0..2 * MaxMs + 1
      /\ 2 * MaxMs + 1 \in Int
  BY <1>0, GameRowAssumption DEF Keys, TypeOK
<1>2. IsFiniteSet(Keys(b)) /\ Keys(b) \subseteq Nat
  <2>1. IsFiniteSet(0..2 * MaxMs + 1)
    BY <1>1, FS_Interval
  <2>2. Keys(b) \subseteq 0..2 * MaxMs + 1
    BY <1>1
  <2>3. \A key \in 0..2 * MaxMs + 1 : key \in Nat
    BY <1>1
  <2>4. IsFiniteSet(Keys(b))
    BY <2>1, <2>2, FS_Subset
  <2> QED BY <2>2, <2>3, <2>4
<1>3. ASSUME NEW key \in Keys(b)
      PROVE  \E j \in 1..Len(played[b]) :
                 /\ <<b, j>> \in DOMAIN stamps
                 /\ key = KeyOf(<<b, j>>)
                 /\ moves[key] = SerializeMove(played[b][j])
  <2>1. PICK id \in DOMAIN stamps :
            key = KeyOf(id) /\ moves[key] = SerializeMove(played[id[1]][id[2]])
    BY DEF RowExplained, KeysAreOfStamps, Keys
  <2>2. id[1] = b
    BY <2>1, KeyTells DEF Keys
  <2>3. id[2] \in 1..Len(played[b]) /\ id = <<b, id[2]>>
    BY <1>0, <2>2, StampedIsMade, MadeTypes
  <2> QED BY <2>1, <2>2, <2>3
<1> QED BY <1>2, <1>3

(* Keys are in the order of the stamps.                                      *)
LEMMA KeysInOrder ==
    ASSUME RInv, NEW b \in Board, NEW i, NEW j,
           <<b, i>> \in DOMAIN stamps, <<b, j>> \in DOMAIN stamps,
           KeyOf(<<b, i>>) < KeyOf(<<b, j>>)
    PROVE  stamps[<<b, i>>] < stamps[<<b, j>>]
<1>1. PICK s \in Nat, t \in Nat : /\ s = stamps[<<b, i>>] /\ t = stamps[<<b, j>>]
                                 /\ 2 * s < MaxKey /\ 2 * t < MaxKey
  BY StampedIsMade
<1>2. ToMoveKey(s, b) < ToMoveKey(t, b)
  BY <1>1 DEF KeyOf
<1>3. ToMoveKey(s, b) \in Int /\ ToMoveKey(t, b) \in Int
  BY <1>1, KeysReadBack
<1>4. t < s => ToMoveKey(t, b) < ToMoveKey(s, b)
  BY <1>1, KeysReadBack
<1>5. ~(ToMoveKey(t, b) < ToMoveKey(s, b)) /\ ToMoveKey(s, b) # ToMoveKey(t, b)
  BY <1>2, <1>3
<1>6. ~(t < s) /\ s # t
  BY <1>4, <1>5
<1> QED BY <1>1, <1>6

(* AnalysisState.formMoves: the moves that the client replays, and where     *)
(* they were played.                                                         *)
LEMMA ReplayedPlaces ==
    ASSUME RInv, RowExplained, NEW b \in Board
    PROVE  \E place \in Places(b) :
               /\ \A i \in DOMAIN place : <<b, place[i]>> \in DOMAIN stamps
               /\ \A i, j \in DOMAIN place :
                      i < j => stamps[<<b, place[i]>>] < stamps[<<b, place[j]>>]
<1>1. PICK n : n = Cardinality(Keys(b))
  OBVIOUS
<1>2. n \in Nat
  BY <1>1, KeysOfBoard, FS_CardinalityType
<1>3. PICK key : key = [i \in 1..n |-> CHOOSE k \in Keys(b) : Rank(b, k) = i]
  OBVIOUS
<1>4. \A i \in 1..n : key[i] \in Keys(b) /\ Rank(b, key[i]) = i
  BY <1>1, <1>3, KeysOfBoard, Ranks
<1>5. PICK place :
          place = [i \in 1..n |->
                     CHOOSE j \in 1..Len(played[b]) :
                         /\ <<b, j>> \in DOMAIN stamps
                         /\ key[i] = KeyOf(<<b, j>>)
                         /\ moves[key[i]] = SerializeMove(played[b][j])]
  OBVIOUS
<1>6. ASSUME NEW i \in 1..n
      PROVE  /\ place[i] \in 1..Len(played[b]) /\ <<b, place[i]>> \in DOMAIN stamps
             /\ key[i] = KeyOf(<<b, place[i]>>)
             /\ moves[key[i]] = SerializeMove(played[b][place[i]])
  <2>1. \E j \in 1..Len(played[b]) :
            /\ <<b, j>> \in DOMAIN stamps
            /\ key[i] = KeyOf(<<b, j>>)
            /\ moves[key[i]] = SerializeMove(played[b][j])
    BY <1>4, KeysOfBoard
  <2>2. place[i] = CHOOSE j \in 1..Len(played[b]) :
                       /\ <<b, j>> \in DOMAIN stamps
                       /\ key[i] = KeyOf(<<b, j>>)
                       /\ moves[key[i]] = SerializeMove(played[b][j])
    BY <1>5
  <2> QED BY <2>1, <2>2
<1>7. /\ DOMAIN Replayed(b) = 1..n
      /\ \A i \in 1..n : Replayed(b)[i] = ClientMove(moves[key[i]])
  BY <1>1, <1>3 DEF Replayed
<1>8. place \in [1..n -> 1..Len(played[b])] /\ DOMAIN place = 1..n
  BY <1>5, <1>6
<1>9. ASSUME NEW i \in 1..n, NEW j \in 1..n, i < j
      PROVE  stamps[<<b, place[i]>>] < stamps[<<b, place[j]>>]
  <2>1. Rank(b, key[i]) < Rank(b, key[j])
    BY <1>4, <1>9
  <2>2. key[i] < key[j]
    BY <1>4, <2>1, KeysOfBoard, Ranks
  <2> QED BY <1>6, <2>2, KeysInOrder
<1>10. ASSUME NEW i \in 1..n
       PROVE  Replayed(b)[i] = played[b][place[i]]
  <2>1. PICK id : id = <<b, place[i]>>
    OBVIOUS
  <2>2. id \in Made /\ id[1] = b /\ id[2] = place[i]
    BY <1>6, <2>1, StampedIsMade
  <2>3. played[b][place[i]] \in BughouseMove
    BY <2>2, MadeTypes DEF RInv
  <2>4. ClientMove(moves[key[i]]) = played[b][place[i]]
    BY <1>6, <2>3, MovesReadBack
  <2> QED BY <1>7, <2>4
<1>11. place \in Places(b)
  BY <1>7, <1>8, <1>10 DEF Places
<1> QED BY <1>6, <1>8, <1>9, <1>11

(* Whatever was lost on the way, the client replays moves of the board, none *)
(* twice, in the order of their stamps.                                      *)
THEOREM RowReplaysTheorem == Spec => []RowReplays
<1>1. RInv /\ RowExplained => RowReplays
  BY ReplayedPlaces DEF RowReplays
<1> QED BY <1>1, Explained, PTL

(* Where the stamps of each board are in the order of its moves, the client  *)
(* replays them in the order in which the server validated them. It takes    *)
(* nothing else; the late reading of the clock alone can spoil the order.     *)
THEOREM PlayedInOrderTheorem == Spec => [](StampedInOrder => PlayedInOrder)
<1>1. RInv /\ RowExplained /\ StampedInOrder => PlayedInOrder
  <2> SUFFICES ASSUME RInv, RowExplained, StampedInOrder, NEW b \in Board
               PROVE  \E place \in Places(b) :
                          \A i, j \in DOMAIN place : i < j => place[i] < place[j]
    BY DEF PlayedInOrder
  <2>1. PICK place \in Places(b) :
            /\ \A i \in DOMAIN place : <<b, place[i]>> \in DOMAIN stamps
            /\ \A i, j \in DOMAIN place :
                   i < j => stamps[<<b, place[i]>>] < stamps[<<b, place[j]>>]
    BY ReplayedPlaces
  <2>2. ASSUME NEW i \in DOMAIN place, NEW j \in DOMAIN place, i < j
        PROVE  place[i] < place[j]
    <3>1. PICK p, q : p = <<b, place[i]>> /\ q = <<b, place[j]>>
      OBVIOUS
    <3>2. /\ p \in DOMAIN stamps /\ q \in DOMAIN stamps
          /\ p[1] = q[1] /\ p[2] = place[i] /\ q[2] = place[j]
          /\ stamps[p] < stamps[q]
      BY <2>1, <2>2, <3>1
    <3>3. stamps[p] \in Nat /\ stamps[q] \in Nat /\ place[i] \in Nat /\ place[j] \in Nat
      BY <2>1, <3>2, StampedIsMade DEF Places
    <3>4. place[j] < place[i] => stamps[q] < stamps[p]
      BY <3>2 DEF StampedInOrder
    <3>5. place[i] # place[j]
      BY <3>1, <3>2, <3>3
    <3> QED BY <3>2, <3>3, <3>4, <3>5
  <2> QED BY <2>1, <2>2
<1> QED BY <1>1, Explained, PTL

(* Every move on a board is on its way, lost, or in the row, unless another  *)
(* one of that board with the same stamp took its place.                     *)
THEOREM RowIsCompleteTheorem == Spec => []RowIsComplete
<1>1. RInv /\ RowExplained => RowIsComplete
  <2> SUFFICES ASSUME RInv, RowExplained, NEW b \in Board,
                      NEW i \in 1..Len(played[b]),
                      <<b, i>> \notin unstamped \cup queued \cup lost
               PROVE  /\ <<b, i>> \in DOMAIN stamps
                      /\ \E key \in Keys(b), j \in 1..Len(played[b]) :
                             /\ KeyMs(key) = stamps[<<b, i>>]
                             /\ <<b, j>> \in DOMAIN stamps
                             /\ stamps[<<b, j>>] = stamps[<<b, i>>]
                             /\ moves[key] = SerializeMove(played[b][j])
    BY DEF RowIsComplete
  <2>1. PICK id : id = <<b, i>>
    OBVIOUS
  <2>2. id \in Made
    <3>1. PICK n \in Nat : n = Len(played[b]) /\ n <= MaxMoves
      BY DEF RInv, TypeOK
    <3>2. i \in 1..MaxMoves /\ i <= n
      BY <3>1, GameRowAssumption
    <3> QED BY <2>1, <3>1, <3>2 DEF Made, MoveID
  <2>3. id \in DOMAIN stamps /\ KeyOf(id) \in DOMAIN moves
    BY <2>1, <2>2 DEF RowExplained, Accounted
  <2>4. /\ KeyOf(id) \in Keys(b) /\ KeyMs(KeyOf(id)) = stamps[id]
    BY <2>1, <2>3, KeyTells DEF Keys
  <2>5. PICK j \in 1..Len(played[b]) :
            /\ <<b, j>> \in DOMAIN stamps /\ KeyOf(id) = KeyOf(<<b, j>>)
            /\ moves[KeyOf(id)] = SerializeMove(played[b][j])
    BY <2>4, KeysOfBoard
  <2>6. stamps[<<b, j>>] = stamps[id]
    BY <2>4, <2>5, KeyTells
  <2> QED BY <2>1, <2>3, <2>4, <2>5, <2>6
<1> QED BY <1>1, Explained, PTL

-----------------------------------------------------------------------------
(* UserGames: paging misses no game and shows none twice, as long as no two   *)
(* of a user start in the same millisecond.                                 *)

(* Rows have an order.                                                      *)
LEMMA RowsInOrder ==
    ASSUME NEW r \in Row, NEW s \in Row
    PROVE  /\ r = s \/ Before(r, s) \/ Before(s, r)
           /\ ~(Before(r, s) /\ Before(s, r))
           /\ \A t \in Row : Before(r, s) /\ Before(s, t) => Before(r, t)
<1>1. r.start \in Nat /\ r.id \in Nat /\ s.start \in Nat /\ s.id \in Nat
  BY DEF Row
<1>2. r.start = s.start /\ r.id = s.id => r = s
  BY DEF Row
<1>3. \A t \in Row : t.start \in Nat /\ t.id \in Nat
  BY DEF Row
<1> QED BY <1>1, <1>2, <1>3 DEF Before

(* A row that is not on the page comes after all rows that are.             *)
LEMMA PageIsFirst ==
    ASSUME NEW rows \in SUBSET Row, IsFiniteSet(rows),
           NEW cursor \in Nat, NEW count \in Nat, NEW comparison \in TimeComp,
           NEW p \in Chunk(rows, cursor, count, comparison),
           NEW r \in Matching(rows, cursor, comparison),
           r \notin Chunk(rows, cursor, count, comparison)
    PROVE  Before(p, r)
<1> DEFINE M == Matching(rows, cursor, comparison)
           Ahead(x) == {s \in M : Before(s, x)}
<1>1. M \subseteq rows /\ IsFiniteSet(M)
  BY FS_Subset DEF Matching
<1>2. p \in M /\ Cardinality(Ahead(p)) < count
  BY DEF Chunk
<1>3. ~(Cardinality(Ahead(r)) < count)
  BY DEF Chunk
<1>4. p \in Row /\ r \in Row /\ M \subseteq Row
  BY <1>1, <1>2
<1>5. ASSUME Before(r, p) PROVE FALSE
  <2>1. Ahead(r) \subseteq Ahead(p)
    BY <1>4, <1>5, RowsInOrder
  <2>2. IsFiniteSet(Ahead(p)) /\ IsFiniteSet(Ahead(r))
    BY <1>1, FS_Subset
  <2>3. /\ Cardinality(Ahead(r)) \in Nat /\ Cardinality(Ahead(p)) \in Nat
        /\ Cardinality(Ahead(r)) <= Cardinality(Ahead(p))
    BY <2>1, <2>2, FS_Subset, FS_CardinalityType
  <2> QED BY <1>2, <1>3, <2>3
<1>6. p # r
  BY <1>2, <1>3
<1> QED BY <1>4, <1>5, <1>6, RowsInOrder

(* get_chunk: the page that loadNext asks for, after the last game of a     *)
(* page, is taken from exactly the games that the page left out. Two games  *)
(* of the user with the same start would break this, since the cursor is    *)
(* the start alone.                                                         *)
THEOREM NextPageContinues ==
    ASSUME NEW rows \in SUBSET Row, IsFiniteSet(rows),
           \A r, s \in rows : r.start = s.start => r = s,
           NEW cursor \in Nat, NEW count \in Nat, NEW next \in Nat,
           EndCursor(Chunk(rows, cursor, count, "older"), next)
    PROVE  Matching(rows, next, "older") =
               Matching(rows, cursor, "older") \ Chunk(rows, cursor, count, "older")
<1> DEFINE M == Matching(rows, cursor, "older")
           page == Chunk(rows, cursor, count, "older")
<1>1. "older" \in TimeComp
  BY DEF TimeComp
<1>2. \A r \in rows : r.start \in Nat
  BY DEF Row
<1>3. page \subseteq M /\ M \subseteq rows /\ \A r \in M : r.start < cursor
  BY DEF Chunk, Matching
<1>4. PICK last \in page : last.start = next
  BY DEF EndCursor
<1>5. \A p \in page : p.start >= next
  BY DEF EndCursor
<1>6. ASSUME NEW r \in Matching(rows, next, "older") PROVE r \in M \ page
  <2>1. r \in rows /\ r.start < next
    BY DEF Matching
  <2>2. r.start < cursor
    BY <1>2, <1>3, <1>4, <2>1
  <2> QED BY <1>2, <1>5, <2>1, <2>2 DEF Matching
<1>7. ASSUME NEW r \in M \ page PROVE r \in Matching(rows, next, "older")
  <2>1. Before(last, r)
    BY <1>1, <1>4, PageIsFirst
  <2>2. r \in rows /\ last \in rows /\ r # last
    BY <1>3, <1>4
  <2>3. last.start > r.start
    BY <2>1, <2>2 DEF Before
  <2> QED BY <1>4, <2>2, <2>3 DEF Matching
<1> QED BY <1>6, <1>7

(* get_chunk: a page of at least one game that says that there are no more  *)
(* leaves none out.                                                         *)
THEOREM LastPageIsLast ==
    ASSUME NEW rows \in SUBSET Row, IsFiniteSet(rows),
           NEW cursor \in Nat, NEW count \in Nat \ {0},
           NEW comparison \in TimeComp,
           ~HasMore(rows, cursor, count, comparison)
    PROVE  Chunk(rows, cursor, count, comparison)
               = Matching(rows, cursor, comparison)
<1> DEFINE M == Matching(rows, cursor, comparison)
           Ahead(x) == {s \in M : Before(s, x)}
<1>1. M \subseteq rows /\ IsFiniteSet(M)
  BY FS_Subset DEF Matching
<1>2. Cardinality(M) \in Nat /\ Cardinality(M) <= count
  BY <1>1, FS_CardinalityType DEF HasMore
<1>3. ASSUME NEW r \in M PROVE Cardinality(Ahead(r)) < count
  <2>1. r \in Row /\ ~Before(r, r)
    BY <1>1, RowsInOrder
  <2>2. Ahead(r) \subseteq M \ {r}
    BY <2>1
  <2>3. IsFiniteSet(M \ {r}) /\ Cardinality(M \ {r}) = Cardinality(M) - 1
    BY <1>1, FS_RemoveElement
  <2>4. /\ Cardinality(Ahead(r)) \in Nat
        /\ Cardinality(Ahead(r)) <= Cardinality(M \ {r})
    BY <2>2, <2>3, FS_Subset, FS_CardinalityType
  <2> QED BY <1>2, <2>3, <2>4
<1> QED BY <1>3 DEF Chunk

(* GameRow of UserGames.react.js: the list of a user shows a 1 for the      *)
(* games that he or his partner won, read through the column, the           *)
(* deserializer and the rearrangement of the teams.                         *)
THEOREM ScoreIsOfTheWinners ==
    ASSUME NEW seat \in Seat, NEW r \in GameResult
    PROVE  Score(seat, DeserializeResult(SerializeResult(r))) = 1
               <=> seat \in Winners(r)
<1>1. DeserializeResult(SerializeResult(r)) = r
  BY ResultsReadBack
<1>2. PICK b \in {0, 1}, c \in {0, 1} : seat = <<b, c>>
  BY DEF Seat, Board, Color
<1>3. r.board \in {0, 1} /\ r.winner \in {0, 1}
  BY DEF GameResult, Board, Color
<1>4. Index(seat) = 2 * b + c
  BY <1>2 DEF Index
<1>5. (Index(seat) % 3 = 0) <=> Index(seat) \in {0, 3}
  BY <1>2, <1>4
<1>6. (Score(seat, r) = 1) <=>
          ((Index(seat) \in {0, 3}) <=> (r.board = r.winner))
  BY <1>5 DEF Score
<1>7. seat \in Winners(r) <=>
          ((Index(seat) \in {0, 3}) = ((r.board = 0) = (r.winner = 0)))
  BY DEF Winners
<1>8. (r.board = r.winner) <=> ((r.board = 0) = (r.winner = 0))
  BY <1>3
<1> QED BY <1>1, <1>6, <1>7, <1>8
=============================================================================
