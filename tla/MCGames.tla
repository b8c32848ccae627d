------------------------------- MODULE MCGames -------------------------------
(* Instance of Games for TLC: two tables of two seats, three users of whom  *)
(* one is a guest.                                                         *)
EXTENDS Games, TLC

CONSTANTS u1, u2, u3, g1, g2, aw, ab

\* The two registered users are interchangeable.
Symmetry == Permutations({u1, u2}) \cup Permutations({g1, g2})
=============================================================================
