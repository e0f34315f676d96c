------------------------------- MODULE MCBacklog -------------------------------
(* Model values for Backlog: a long buffer whose messages surround the one of   *)
(* another.                                                                     *)
EXTENDS Backlog
LogValue == <<"a", "b", "a", "a">>
=============================================================================
