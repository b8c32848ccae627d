----------------------------- MODULE MCBroadcast -----------------------------
(* A small instance of Broadcast: two users with a connection each, who may
   log in over it, or watch without. *)
EXTENDS Broadcast, TLC

CONSTANTS u1, u2, c1, c2

MCUser  == {u1, u2}
MCConn  == {c1, c2}
MCOwner == c1 :> u1 @@ c2 :> u2
=============================================================================
