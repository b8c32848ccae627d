---------------------------- MODULE MCConnections ----------------------------
(* Instances of Connections for TLC: u1 logs in over two or three           *)
(* connections, u2 over one, whose client looks at the list.                *)
EXTENDS Connections, TLC

CONSTANTS u1, u2, c1, c2, c3, c4

MCOwner == [c \in Conn |-> IF c = c4 THEN u2 ELSE u1]
=============================================================================
