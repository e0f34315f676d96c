----------------------------- MODULE MCCoreNetwork -----------------------------
(* Model values for CoreNetwork: reconnect settings and event sets. *)
EXTENDS CoreNetwork

Off        == [use |-> FALSE, retries |-> 1, unlimited |-> FALSE]
Once       == [use |-> TRUE,  retries |-> 1, unlimited |-> FALSE]
Twice      == [use |-> TRUE,  retries |-> 2, unlimited |-> FALSE]
Endless    == [use |-> TRUE,  retries |-> 1, unlimited |-> TRUE]

FixedConfigs   == {Off, Once, Twice, Endless}
LiveConfigs    == {Once, Twice, Endless}
=============================================================================
