----------------------------- MODULE Encodings -----------------------------
(***************************************************************************)
(* How ids, moves, results and time controls are written as numbers and    *)
(* strings: b66.rs, game_row.rs, Db::to_move_key, time_control.rs, and the *)
(* seats of players.rs and game.rs. What web clients do with a row is      *)
(* taken from frontend/react-app/src/game/AnalysisState.js.                *)
(*                                                                         *)
(* The fields that the code joins by | and << do not overlap, so the       *)
(* joining is addition; >> and & are division and remainder.               *)
(***************************************************************************)
EXTENDS Integers, SequencesExt

CONSTANTS
    LEN,            \* characters of the alphabet of B66: 66
    MaxNum,         \* the largest number of an id: 2^128 - 1
    MAX_STR_LEN,    \* the buffer of encode_num: 22
    MaxKey          \* the largest i32: 2^31 - 1

ASSUME EncodingsAssumption ==
    /\ LEN \in Nat \ {0, 1} /\ MaxNum \in Nat /\ MAX_STR_LEN \in Nat
    /\ MaxKey \in Nat

\* No square, no piece, or no number.
None == -1

----------------------------------------------------------------------------
(* Ids. A character is its place in the alphabet; "?" is any other one. *)

EncodeNum ==
    [n \in 0..MaxNum |->
        LET digits[k \in 0..n] ==
                IF k = 0 THEN <<>> ELSE Append(digits[k \div LEN], k % LEN)
        IN  digits[n]]

\* The multiplication is checked, the addition wraps around.
DecodeNum(s) ==
    FoldLeft(LAMBDA res, char :
                 IF res = None \/ char \notin 0..LEN - 1 THEN None
                 ELSE IF res * LEN > MaxNum THEN None
                 ELSE (res * LEN + char) % (MaxNum + 1),
             0, s)

(* The id of a game or user that a client sends back is the one it was sent, *)
(* and no id is too long for the buffer.                                     *)
IdsReadBack ==
    \A n \in 0..MaxNum :
        /\ DecodeNum(EncodeNum[n]) = n
        /\ Len(EncodeNum[n]) <= MAX_STR_LEN

----------------------------------------------------------------------------
\* The integers of columns.
FitsI16(n) == -32768 <= n /\ n <= 32767

(* Moves. A square is 0..63 from a1 by ranks, a piece 0..5 from pawn to king; *)
(* src None is a drop, piece None a move without promotion.                   *)

NUM_PIECES == 6
Squares == 0..63
Pieces  == 0..NUM_PIECES - 1
Pawn    == 0

Drops == [src : {None}, dest : Squares, piece : Pieces]
Steps == [src : Squares, dest : Squares, piece : Pieces \cup {None}]

\* What chess allows, as far as the encoding depends on it: no pawn is dropped
\* on the first rank, and a move goes somewhere else.
BughouseMove ==
    {m \in Drops : m.piece = Pawn => m.dest >= 8}
        \cup {m \in Steps : m.src # m.dest}

(* Mutant: seven bits for the destination. *)
SerializeMoveWide(m) ==
    IF m.src = None
    THEN -(m.dest + 128 * m.piece)
    ELSE m.dest + 1024 * m.src
         + 128 * (IF m.piece = None THEN NUM_PIECES ELSE m.piece)

(* Mutant: no promotion is written like a promotion to a pawn. *)
SerializeMovePawn(m) ==
    IF m.src = None
    THEN -(m.dest + 64 * m.piece)
    ELSE m.dest + 512 * m.src + 64 * (IF m.piece = None THEN 0 ELSE m.piece)

SerializeMove(m) ==
    IF m.src = None
    THEN -(m.dest + 64 * m.piece)
    ELSE m.dest + 512 * m.src
         + 64 * (IF m.piece = None THEN NUM_PIECES ELSE m.piece)

DeserializeMove(num) ==
    IF num < 0
    THEN [src |-> None, dest |-> (-num) % 64, piece |-> (-num) \div 64]
    ELSE LET piece == (num \div 64) % 8
         IN  [src   |-> num \div 512,
              dest  |-> num % 64,
              piece |-> IF piece >= NUM_PIECES THEN None ELSE piece]

\* AnalysisState.deserialize.
ClientMove(num) ==
    IF num < 1
    THEN [src |-> None, dest |-> (-num) % 64, piece |-> (-num) \div 64]
    ELSE LET piece == (num \div 64) % 8
         IN  [src   |-> (num \div 512) % 64,
              dest  |-> num % 64,
              piece |-> IF piece < 6 THEN piece ELSE None]

----------------------------------------------------------------------------
(* Keys of moves, and results. Boards are 0 and 1, white is 0. *)

Board == {0, 1}
Color == {0, 1}

\* An integer cut down to a signed one of which half - 1 is the largest.
Wrap(n, half) == ((n + half) % (2 * half)) - half

(* Mutant: the board is left out. *)
ToMoveKeyNoBoard(ms, board) == Wrap(2 * Wrap(ms, MaxKey + 1), MaxKey + 1)

\* Db::to_move_key: the milliseconds as i32, shifted within an i32.
ToMoveKey(ms, board) ==
    Wrap(2 * Wrap(ms, MaxKey + 1), MaxKey + 1) + board

KeyBoard(key) == key % 2
KeyMs(key)    == key \div 2

Flagged   == 0
Checkmate == 1

GameResult == [board : Board, winner : Color, kind : {Flagged, Checkmate}]

(* Mutant: board and winner change places. *)
SerializeResultSwapped(r) == r.winner + 2 * r.board + 4 * r.kind

SerializeResult(r) == r.board + 2 * r.winner + 4 * r.kind

DeserializeResult(col) ==
    [board  |-> col % 2,
     winner |-> (col \div 2) % 2,
     kind   |-> IF (col \div 4) % 2 = 0 THEN Flagged ELSE Checkmate]

----------------------------------------------------------------------------
(* Time controls: minutes and seconds as i16. *)

GetBaseMs(base) == base * 60 * 1000

GetIncMs(inc) == Wrap(inc * 1000, 32768)

----------------------------------------------------------------------------
(* Seats and teams. *)

Seat == Board \X Color

\* Game::get_partner.
Partner(seat) == <<1 - seat[1], 1 - seat[2]>>

\* The place of a seat in Players and in the ratings of a game.
Index(seat) == 2 * seat[1] + seat[2]

\* UserRating::get_updated_ratings and Rating::update_ratings: whose score is 1.
Winners(r) ==
    LET teamA == (r.board = 0) = (r.winner = 0)
    IN  {seat \in Seat : (Index(seat) \in {0, 3}) = teamA}
=============================================================================
