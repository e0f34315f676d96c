------------------------------- MODULE MCIrcView -------------------------------
(* Model values for IrcView. *)
EXTENDS IrcView
CONSTANTS u1, u2, u3, c1, c2
Symmetry == Permutations({u1, u2, u3}) \union Permutations({c1, c2})
=============================================================================
