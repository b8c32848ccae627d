----------------------------- MODULE MCGameRow -----------------------------
(* GameRow with the moves that are hardest to encode, and bounded checks of *)
(* the functions of Encodings and UserGames.                                *)
EXTENDS GameRow, UserGames

\* Two moves that are hard to encode: a knight dropped on a1, and a move between
\* the last squares. The theorem MovesReadBack is about all, with promotions.
CornerMoves ==
    {[src |-> None, dest |-> 0, piece |-> 1],
     [src |-> 63, dest |-> 56, piece |-> None]}

\* Every id of eight bits in an alphabet of six.
ASSUME ShortIds == IdsReadBack

\* The list of a client that loads pages until there are no more.
Listed(rows, today, count) ==
    LET list[cursor \in 0..today] ==
            LET page == Chunk(rows, cursor, count, "older")
            IN  IF HasMore(rows, cursor, count, "older")
                  THEN page \cup list[CHOOSE next \in 0..today : EndCursor(page, next)]
                  ELSE page
    IN  list[today]

\* Every list of up to five games with different starts is shown in full, for
\* any size of pages; two with one start may not be.
ASSUME PagesShowAll ==
    /\ \A starts \in SUBSET (0..4), count \in 1..3 :
           LET rows == {[start |-> ms, id |-> 0] : ms \in starts}
           IN  Listed(rows, 5, count) = rows
    /\ LET twins == {[start |-> 1, id |-> id] : id \in 0..1}
       IN  Listed(twins, 5, 1) # twins
=============================================================================
