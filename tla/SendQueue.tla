------------------------------- MODULE SendQueue -------------------------------
(***************************************************************************)
(* The way of a line from the core to the IRC server: CoreNetwork's token  *)
(* bucket and message queue (core/corenetwork.cpp, putRawLine,             *)
(* fillBucketAndProcessQueue and the handlers that reset them).  A line is *)
(* the number of its putRawLine call.  A name with a suffix after an       *)
(* underscore is a faulty variant of the definition below it.              *)
(***************************************************************************)
EXTENDS Integers, Sequences

CONSTANTS
  Burst,          \* _burstSize
  Registration,   \* lines socketInitialized sends: CAP, PASS, NICK, USER
  MaxLines,       \* bound on putRawLine calls
  MaxTicks,       \* bound on the token timer's expirations per connection
  Garbage         \* values the uninitialised _tokenBucket may start with

ASSUME SendQueueAssumption ==
  /\ Burst \in Nat \ {0}
  /\ Registration \in Nat
  /\ MaxLines \in Nat
  /\ MaxTicks \in Nat
  /\ Garbage \subseteq Int

VARIABLES
  tokens,    \* _tokenBucket
  queue,     \* _msgQueue
  ticking,   \* _tokenBucketTimer.isActive()
  open,      \* the socket is connected
  wire,      \* what was written to the current connection
  next,      \* the number of the next line
  born,      \* history: the first line issued on the current connection
  ticks      \* history: expirations of the timer on the current connection

vars == <<tokens, queue, ticking, open, wire, next, born, ticks>>

Lines == 1 .. MaxLines

Init ==
  /\ tokens \in Garbage
  /\ queue = << >> /\ wire = << >>
  /\ ticking = FALSE /\ open = FALSE
  /\ next = 1 /\ born = 1 /\ ticks = 0

-----------------------------------------------------------------------------
\* A write to a closed socket is dropped, but costs its token all the same.
WriteToSocket(lines) ==
  /\ wire' = IF open THEN wire \o lines ELSE wire
  /\ tokens' = tokens - Len(lines)

MayWrite_OffByOne == tokens >= 0
MayWrite == tokens > 0

PutRawLine ==
  /\ next <= MaxLines
  /\ next' = next + 1
  /\ \/ MayWrite /\ WriteToSocket(<<next>>) /\ UNCHANGED queue
     \/ ~MayWrite /\ queue' = Append(queue, next) /\ UNCHANGED <<wire, tokens>>
  /\ UNCHANGED <<ticking, open, born, ticks>>

\* one token more, then as many queued lines as there are tokens
Sendable_Nothing(filled) == 0
Sendable(filled) == IF filled <= 0 THEN 0 ELSE IF Len(queue) < filled THEN Len(queue) ELSE filled

Rest_SkipsOne(n) == SubSeq(queue, n + 2, Len(queue))
Rest(n) == SubSeq(queue, n + 1, Len(queue))

Filled == IF tokens < Burst THEN tokens + 1 ELSE tokens

FillBucketAndProcessQueue ==
  /\ ticking
  /\ ticks < MaxTicks
  /\ ticks' = ticks + 1
  /\ LET n == Sendable(Filled)
     IN /\ wire' = IF open THEN wire \o SubSeq(queue, 1, n) ELSE wire
        /\ queue' = Rest(n)
        /\ tokens' = Filled - n
  /\ UNCHANGED <<ticking, open, next, born>>

\* connected: a full bucket, and the lines of the registration, of which those
\* beyond the bucket are queued.  _msgQueue is not cleared here.
Registering == [i \in 1 .. Registration |-> next + i - 1]
Direct == IF Registration < Burst THEN Registration ELSE Burst

FirstLines_QueueFirst == queue \o Registering
FirstLines == SubSeq(Registering, 1, Direct)

SocketInitialized ==
  /\ ~open
  /\ next + Registration <= MaxLines + 1
  /\ open' = TRUE /\ ticking' = TRUE
  /\ wire' = FirstLines
  /\ queue' = queue \o SubSeq(Registering, Direct + 1, Registration)
  /\ tokens' = Burst - Direct
  /\ next' = next + Registration
  /\ born' = next /\ ticks' = 0

SocketDisconnected ==
  /\ open
  /\ open' = FALSE /\ ticking' = FALSE
  /\ queue' = << >> /\ wire' = << >>
  /\ UNCHANGED <<tokens, next, born, ticks>>

\* The queue makes way for the QUIT line, which only an open socket gets.
DisconnectFromIrc ==
  /\ \/ ~open /\ queue' = << >> /\ UNCHANGED <<wire, tokens, next>>
     \/ /\ open
        /\ next <= MaxLines /\ next' = next + 1
        /\ \/ MayWrite /\ WriteToSocket(<<next>>) /\ queue' = << >>
           \/ ~MayWrite /\ queue' = <<next>> /\ UNCHANGED <<wire, tokens>>
  /\ UNCHANGED <<ticking, open, born, ticks>>

Next ==
  \/ PutRawLine
  \/ FillBucketAndProcessQueue
  \/ SocketInitialized
  \/ SocketDisconnected
  \/ DisconnectFromIrc

Spec == Init /\ [][Next]_vars

\* The timer repeats as long as it is active.
FairSpec == Spec /\ WF_vars(FillBucketAndProcessQueue)

-----------------------------------------------------------------------------
\* Flood protection: after k expirations of the timer a connection has carried at
\* most Burst + k lines, whoever asked for them and in whatever order.
FloodBound == Len(wire) <= Burst + ticks

\* The server hears NICK and USER before any line left over from before the
\* connection was made.
RegistersFirst ==
  \A i \in 1 .. Len(wire) : wire[i] < born => i > Direct

\* Every waiting line leaves the queue: the i-th after at most i expirations, which
\* the bound must still allow, or with the end of its connection.
Waiting(l) == \E i \in 1 .. Len(queue) : queue[i] = l
WithinBound(l) == \E i \in 1 .. Len(queue) : queue[i] = l /\ ticks + i <= MaxTicks
EventuallySent == \A l \in Lines : (open /\ WithinBound(l)) ~> ~Waiting(l)
=============================================================================
