----------------------------- MODULE MCBufferSync -----------------------------
(* Model values for BufferSync: a query, a channel that was read once, and an   *)
(* id to come.                                                                 *)
EXTENDS BufferSync
CONSTANTS c1, c2
Table0Value ==
  (1 :> [name |-> "x", seen |-> 0, marker |-> 0]) @@
  (3 :> [name |-> "chan", seen |-> 1, marker |-> 0])
Symmetry == Permutations(Clients)
=============================================================================
