----------------------------- MODULE UserGames -----------------------------
(***************************************************************************)
(* The list of a user's past games: pages of the table user_games          *)
(* (graphql/user_games_fetcher.rs, query.rs), and how the web client asks  *)
(* for them and shows their results (frontend/react-app/src/user/          *)
(* UserGames.react.js).                                                    *)
(*                                                                         *)
(* A row is the start of a game, in milliseconds, and its id; ids are      *)
(* numbers here. Within the partition of the user, rows are in the order   *)
(* of their key: latest start first, then by id.                           *)
(***************************************************************************)
EXTENDS Encodings, FiniteSets

Row == [start : Nat, id : Nat]

Before(r, s) ==
    \/ r.start > s.start
    \/ r.start = s.start /\ r.id < s.id

\* TimeComp and the WHERE clause of get_chunk.
TimeComp == {"older", "newer"}

Matching(rows, cursor, comparison) ==
    {r \in rows : IF comparison = "older" THEN r.start < cursor
                                          ELSE r.start > cursor}

\* get_chunk: the rows of a page, the first ones that match, in either
\* direction ...
Chunk(rows, cursor, count, comparison) ==
    LET matching == Matching(rows, cursor, comparison)
    IN  {r \in matching :
            Cardinality({s \in matching : Before(s, r)}) < count}

\* ... and whether there are more, by a row that is fetched and not sent. An
\* empty page has no more.
HasMore(rows, cursor, count, comparison) ==
    /\ count > 0
    /\ Cardinality(Matching(rows, cursor, comparison)) > count

\* Relay's loadNext: the next page is after the last edge of this one, whose
\* cursor is the start of its game.
EndCursor(page, cursor) ==
    /\ \E r \in page : r.start = cursor
    /\ \A r \in page : r.start >= cursor

\* What the list shows for a game of a user in that seat: GameRow of
\* UserGames.react.js puts the user's team below, at index 1.
Score(seat, result) ==
    LET winners == IF result.board = result.winner THEN 0 ELSE 1
    IN  IF Index(seat) % 3 = 0 THEN 1 - winners ELSE winners
=============================================================================
