------------------------------- MODULE MCAttach -------------------------------
(* Model values for Attach and DetachAway.  The two have no variable in common:    *)
(* one run checks both, each while the other stays at its start.                  *)
EXTENDS Attach, DetachAway

MCInit == AttachInit /\ AwayInit

MCNext ==
  \/ AttachNext /\ AwayInit /\ ~detachAway /\ UNCHANGED awayVars
  \/ AwayNext /\ AttachInit /\ UNCHANGED attachVars

MCSpec == MCInit /\ [][MCNext]_<<attachVars, awayVars>> /\ AttachFairness
=============================================================================
