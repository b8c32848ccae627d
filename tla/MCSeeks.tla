------------------------------- MODULE MCSeeks -------------------------------
(* Instances of Seeks for TLC; the .cfg files choose users, pools, threads. *)
EXTENDS Seeks, TLC

CONSTANTS u1, u2, u3, u4, p1, p2, main, s1, s2

Symmetry == Permutations(User) \cup Permutations(Pool)
              \cup Permutations(Thread \ {Arbiter})
=============================================================================
