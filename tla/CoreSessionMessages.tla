-------------------------- MODULE CoreSessionMessages --------------------------
(***************************************************************************)
(* How a message reaches the backlog and the clients (core/coresession.cpp,*)
(* recvMessageFromServer, processMessages), on top of the event pipeline:  *)
(* the session's handler of message events fills _messageQueue, and the    *)
(* manager's eventQueueEmptied signal flushes it.  One network.  A name    *)
(* with a suffix after an underscore is a faulty variant of the definition *)
(* below it.                                                               *)
(***************************************************************************)
EXTENDS EventManager

CONSTANTS
  Targets,      \* names of channels and nicks
  Status,       \* the status buffer's name
  Known0,       \* buffers the storage has at the start
  MaxMessages   \* bound on the messages of a behaviour

ASSUME MessagesAssumption == Status \notin Targets /\ Known0 \subseteq Targets \union {Status}

VARIABLES
  messageQueue,   \* _messageQueue
  buffers,        \* buffers the storage knows
  stored,         \* history: what was stored and shown, in order, with its buffer
  received        \* history: the messages received

messageVars == <<messageQueue, buffers, stored, received>>

\* A redirected message goes to the buffer of its target only if there is one; a
\* direct one was displayed by the core itself, not by way of an event.
RawMessages ==
  [number : 1 .. MaxMessages, target : Targets \union {Status},
   redirected : BOOLEAN, direct : BOOLEAN]

MessageInit ==
  /\ Init
  /\ messageQueue = << >> /\ stored = << >> /\ received = << >>
  /\ buffers = Known0

-----------------------------------------------------------------------------
(* processMessages *)

In(m, b) == [msg |-> m, buffer |-> b]

\* Core::bufferInfo: the buffer of a name, which is created if the flags allow it
Found(m, known) == m.target \in known \/ ~m.redirected

\* a batch: the cache of buffers, what is stored, what waits for the recheck
Batch(known) == [cache |-> << >>, known |-> known, out |-> << >>, waiting |-> << >>]

Cached(batch, m, b) ==
  [batch EXCEPT !.out = Append(@, In(m, b)),
                !.cache = [t \in DOMAIN @ \union {m.target} |->
                             IF t = m.target THEN b ELSE @[t]],
                !.known = @ \union {b}]

\* bufferInfo is a variable of the whole loop
BufferOf_Stale(batch, m) == IF batch.out = << >> THEN m.target ELSE Last(batch.out).buffer
BufferOf(batch, m) == m.target

Sorted(batch, m) ==
  IF m.target \in DOMAIN batch.cache
    THEN [batch EXCEPT !.out = Append(@, In(m, batch.cache[m.target]))]
  ELSE IF Found(m, batch.known) THEN Cached(batch, m, BufferOf(batch, m))
  ELSE [batch EXCEPT !.waiting = Append(@, m)]

Rechecked(batch, m) ==
  IF m.target \in DOMAIN batch.cache
    THEN [batch EXCEPT !.out = Append(@, In(m, batch.cache[m.target]))]
    ELSE Cached(batch, m, Status)

\* The recheck runs over as many messages as wait, but takes them from the start
\* of _messageQueue.
Recheck(q, batch) == SubSeq(q, 1, Len(batch.waiting))

Flushed(q, known) ==
  IF Len(q) = 1
    THEN LET b == IF Found(Head(q), known) THEN Head(q).target ELSE Status
         IN [out |-> <<In(Head(q), b)>>, known |-> known \union {b}]
    ELSE LET batch == FoldLeft(Sorted, Batch(known), q)
         IN FoldLeft(Rechecked, batch, Recheck(q, batch))

Kept(q) == << >>

ProcessMessages(q) ==
  LET f == Flushed(q, buffers)
  IN /\ stored' = stored \o f.out
     /\ buffers' = f.known
     /\ messageQueue' = Kept(q)

-----------------------------------------------------------------------------
(* what fills and flushes the queue *)

\* recvMessageFromServer: a hard ignore rule drops the message
Receive(direct) ==
  {<<m>> : m \in {r \in RawMessages : r.number = Len(received) + 1 /\ r.direct = direct}}
    \union {<< >>}

\* eventQueueEmptied
Emptied_Before == queue = << >>
Emptied == queue' = << >>

MessageArrives == \E i \in DOMAIN log' : Registered[log'[i].handler].object = "session"

SessionHandles ==
  \E new \in (IF done' # done /\ MessageArrives THEN Receive(FALSE) ELSE {<< >>}) :
    /\ received' = received \o new
    /\ IF done' # done /\ Emptied
         THEN ProcessMessages(messageQueue \o new)
         ELSE messageQueue' = messageQueue \o new /\ UNCHANGED <<buffers, stored>>

EventSent == (\E k \in External : SendEvent(k)) /\ SessionHandles

EventWoken == CustomEvent /\ SessionHandles

\* CoreNetwork::displayMsg, from the socket's and the timers' handlers
DisplayMsg ==
  /\ \E new \in Receive(TRUE) : messageQueue' = messageQueue \o new /\ received' = received \o new
  /\ UNCHANGED <<buffers, stored, vars>>

\* The user's input is shown at once.
MsgFromClient ==
  /\ \E new \in Receive(TRUE) :
       ProcessMessages(messageQueue \o new) /\ received' = received \o new
  /\ UNCHANGED vars

MessageNext == EventSent \/ EventWoken \/ DisplayMsg \/ MsgFromClient

MessageSpec == MessageInit /\ [][MessageNext]_<<vars, messageVars>>

\* Qt delivers a posted event.
FairMessageSpec == MessageSpec /\ WF_vars(CustomEvent)

-----------------------------------------------------------------------------
StoredAs(m) == {i \in DOMAIN stored : stored[i].msg = m}
First(m) == CHOOSE i \in StoredAs(m) : \A j \in StoredAs(m) : i <= j
PlainFlushed == {m \in ToSet(received) \ ToSet(messageQueue) : ~m.redirected}

\* Every message that is not redirected and has left the queue is stored, in its own
\* target's buffer and no other, in the order in which such messages came.
PlainInPlace ==
  \A m \in PlainFlushed :
    /\ StoredAs(m) # {}
    /\ \A i \in StoredAs(m) : stored[i].buffer = m.target
    /\ \A o \in PlainFlushed : m.number < o.number => First(m) < First(o)

\* When the event queue is empty, nothing that came out of an event waits to be
\* stored, whatever was displayed directly before or in between.
FlushedWhenIdle ==
  queue = << >> => \A i \in DOMAIN messageQueue : messageQueue[i].direct

\* coresession.cpp:234 "ALL messages coming pass through these functions", and :311
\* "recheck if there exists a buffer to store a redirected message in": each message
\* received is stored once.
EachStoredOnce ==
  messageQueue = << >> => \A m \in ToSet(received) : \E i \in DOMAIN stored : StoredAs(m) = {i}
=============================================================================
