-------------------------- MODULE MCBughouseServer --------------------------
(* Instance of BughouseServer for TLC: two seats, users of whom u3, where   *)
(* there is one, is a guest; the .cfg files choose the games, the slots,    *)
(* the kinds of requests and the faults.                                    *)
EXTENDS BughouseServer, TLC

CONSTANTS u1, u2, u3, g1, g2, t1, t2, t3, aw, ab

\* Slots, registered users and games are interchangeable.
Symmetry == Permutations(Task) \cup Permutations(User \ Guest)
              \cup Permutations(GameID)
=============================================================================
