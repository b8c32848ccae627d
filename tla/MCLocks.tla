------------------------------ MODULE MCLocks ------------------------------
(* Locks with symmetric sockets. *)
EXTENDS Locks, TLC

CONSTANTS s1, s2, g1, g2

Symmetric == Permutations(Socket)
=============================================================================
