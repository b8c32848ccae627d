----------------------------- MODULE MCGameClock -----------------------------
(* Instances of GameClock for TLC: the .cfg files choose the numbers.       *)
EXTENDS GameClock
=============================================================================
