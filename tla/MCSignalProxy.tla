----------------------------- MODULE MCSignalProxy -----------------------------
(* Model values for SignalProxy. *)
EXTENDS SignalProxy
CONSTANTS n1, n2, id, o1, o2, o3
Symmetry == Permutations({n1, n2}) \union Permutations({o1, o2, o3})
=============================================================================
