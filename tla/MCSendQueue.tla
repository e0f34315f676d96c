------------------------------ MODULE MCSendQueue ------------------------------
(* Model values for SendQueue. *)
EXTENDS SendQueueFifo
GarbageValues == {-1, 0, 1, 4}
=============================================================================
