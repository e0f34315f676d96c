-------------------------------- MODULE LineFifo --------------------------------
(***************************************************************************)
(* What CoreNetwork promises about the lines issued on a connection to an  *)
(* IRC server: each is written once, in the order in which they were       *)
(* issued, unless the connection ends or a quit drops those that wait.     *)
(* Lines are numbered as they are issued.  SendQueue implements this with  *)
(* a token bucket, a timer and a queue that outlives connections.          *)
(***************************************************************************)
EXTENDS Naturals, Sequences

CONSTANT Registration   \* how many lines a connection starts with

VARIABLES open, sent, waiting, next

Init == open = FALSE /\ sent = << >> /\ waiting = << >> /\ next = 1

Connect ==
  /\ ~open /\ open' = TRUE
  /\ sent' \o waiting' = [i \in 1 .. Registration |-> next + i - 1]
  /\ next' = next + Registration

\* A line waits, or goes out at once if it overtakes none.
Accept ==
  \/ waiting = << >> /\ sent' = Append(sent, next) /\ UNCHANGED waiting
  \/ waiting' = Append(waiting, next) /\ UNCHANGED sent

\* Without a connection nothing is promised of a line.
Issue ==
  /\ IF open THEN Accept ELSE UNCHANGED <<sent, waiting>>
  /\ next' = next + 1 /\ UNCHANGED open

Write ==
  /\ waiting # << >>
  /\ sent' = Append(sent, Head(waiting)) /\ waiting' = Tail(waiting)
  /\ UNCHANGED <<open, next>>

\* The farewell takes the place of all that wait.
Quit ==
  /\ open
  /\ \/ sent' = Append(sent, next) /\ waiting' = << >>
     \/ sent' = sent /\ waiting' = <<next>>
  /\ next' = next + 1 /\ UNCHANGED open

Disconnect ==
  /\ open /\ open' = FALSE
  /\ sent' = << >> /\ waiting' = << >>
  /\ UNCHANGED next

Next == Connect \/ Issue \/ Write \/ Quit \/ Disconnect

Spec == Init /\ [][Next]_<<open, sent, waiting, next>>
=============================================================================
