------------------------------ MODULE SendQueueFifo ------------------------------
(* SendQueue implements LineFifo: the lines of the current connection, without *)
(* those that were left over when it was made.                                 *)
EXTENDS SendQueue

Since(first, lines) ==
  LET kept[i \in 0 .. Len(lines)] ==
        IF i = 0 THEN << >>
        ELSE IF lines[i] >= first THEN Append(kept[i - 1], lines[i]) ELSE kept[i - 1]
  IN kept[Len(lines)]

Own(lines) == IF open THEN Since(born, lines) ELSE << >>

Fifo == INSTANCE LineFifo WITH sent <- Own(wire), waiting <- Own(queue)

\* Direct writes, the token timer, leftovers of the time before the connection and quits
\* together neither lose, double nor reorder a line of the connection.
ImplementsFifo == Fifo!Spec
=============================================================================
