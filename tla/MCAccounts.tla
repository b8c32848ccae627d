----------------------------- MODULE MCAccounts -----------------------------
(* Instances of Accounts for TLC.                                           *)
EXTENDS Accounts, TLC

CONSTANTS f1, f2, u1, u2, u3, h1, h2, t1, t2

Symmetry == Permutations(Fid) \cup Permutations(Uid) \cup Permutations(Handle)
              \cup Permutations(Task)
=============================================================================
