------------------------------- MODULE MCAutoWho -------------------------------
(* Model values for AutoWho: two channels that are asked about and a large one. *)
EXTENDS AutoWho
CONSTANTS a, b, big
=============================================================================
