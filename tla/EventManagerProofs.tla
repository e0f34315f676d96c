--------------------------- MODULE EventManagerProofs ---------------------------
(* Theorems about EventManager and CoreSessionMessages, for any handlers, kinds, buffers *)
(* and number of events and messages.                                              *)
EXTENDS CoreSessionMessages, SequenceTheorems, WellFoundedInduction, TLAPS

Events == [number : Nat, kind : Kinds]

\* q holds the events after the d-th up to the c-th, in order.
Holds(q, d, c) ==
  /\ q \in Seq(Events) /\ Len(q) = c - d
  /\ \A i \in 1 .. Len(q) : q[i].number = d + i

IInv ==
  /\ sent \in Nat /\ done \in Nat
  /\ Holds(queue, done, sent)
  /\ OneWakeup

\* Events sent together are numbered on from the last one.
LEMMA NumberedHolds ==
  ASSUME NEW kinds \in Seq(Kinds), NEW from \in Nat
  PROVE  Holds(Numbered(kinds, from), from, from + Len(kinds))
<1>1. Len(kinds) \in Nat /\ DOMAIN kinds = 1 .. Len(kinds)
  BY LenProperties
<1>2. \A i \in 1 .. Len(kinds) : kinds[i] \in Kinds
  BY ElementOfSeq
<1>3. Numbered(kinds, from) = [i \in 1 .. Len(kinds) |-> [number |-> from + i, kind |-> kinds[i]]]
  BY <1>1 DEF Numbered
<1>4. \A i \in 1 .. Len(kinds) : [number |-> from + i, kind |-> kinds[i]] \in Events
  BY <1>1, <1>2 DEF Events
<1>5. Numbered(kinds, from) \in [1 .. Len(kinds) -> Events]
  BY <1>3, <1>4
<1>6. Numbered(kinds, from) \in Seq(Events)
  BY <1>1, <1>5, SeqDef
<1>7. Len(Numbered(kinds, from)) = Len(kinds)
  BY <1>1, <1>5, <1>6, LenProperties
<1>8. QED
  BY <1>1, <1>3, <1>6, <1>7 DEF Holds

\* Taking the first event away and adding what was sent meanwhile keeps the row.
LEMMA RemainingHolds ==
  ASSUME NEW d \in Nat, NEW c \in Nat, NEW e \in Nat, NEW q, NEW new,
         q # << >>, Holds(q, d, c), Holds(new, c, e)
  PROVE  Holds(Remaining(q, new), d + 1, e)
<1>1. /\ Tail(q) \in Seq(Events) /\ Len(Tail(q)) = c - d - 1
      /\ \A i \in 1 .. Len(Tail(q)) : Tail(q)[i].number = d + 1 + i
  <2>1. q \in Seq(Events) /\ Len(q) \in Nat
    BY LenProperties DEF Holds
  <2>2. /\ Tail(q) \in Seq(Events) /\ Len(Tail(q)) = Len(q) - 1
        /\ \A i \in 1 .. Len(Tail(q)) : Tail(q)[i] = q[i + 1]
    BY <2>1, HeadTailProperties
  <2>3. ASSUME NEW i \in 1 .. Len(Tail(q))
        PROVE  Tail(q)[i].number = d + 1 + i
    BY <2>1, <2>2 DEF Holds
  <2>4. QED
    BY <2>1, <2>2, <2>3 DEF Holds
<1>2. new \in Seq(Events) /\ Len(new) \in Nat /\ Len(Tail(q)) \in Nat
  BY <1>1, LenProperties DEF Holds
<1> DEFINE r == Tail(q) \o new
<1>3. /\ r \in Seq(Events) /\ Len(r) = Len(Tail(q)) + Len(new)
      /\ \A i \in 1 .. Len(Tail(q)) + Len(new) : r[i] =
           IF i <= Len(Tail(q)) THEN Tail(q)[i] ELSE new[i - Len(Tail(q))]
  BY <1>1, <1>2, ConcatProperties
<1> HIDE DEF r
<1>4. ASSUME NEW i \in 1 .. Len(r)
      PROVE  r[i].number = d + 1 + i
  <2>1. CASE i <= Len(Tail(q))
    <3>1. r[i] = Tail(q)[i] /\ i \in 1 .. Len(Tail(q))
      BY <2>1, <1>2, <1>3
    <3>2. QED
      BY <3>1, <1>1
  <2>2. CASE ~(i <= Len(Tail(q)))
    <3>1. r[i] = new[i - Len(Tail(q))] /\ i - Len(Tail(q)) \in 1 .. Len(new)
      BY <2>2, <1>2, <1>3
    <3>2. new[i - Len(Tail(q))].number = c + (i - Len(Tail(q)))
      BY <3>1 DEF Holds
    <3>3. QED
      <4>1. Len(Tail(q)) = c - d - 1
        BY <1>1
      <4> DEFINE m == Len(Tail(q))
      <4>2. r[i].number = c + (i - m) /\ m = c - d - 1 /\ i \in Nat
        BY <3>1, <3>2, <4>1
      <4> HIDE DEF m
      <4>3. QED
        BY <4>2
  <2>3. QED
    BY <2>1, <2>2
<1>5. Len(r) = e - (d + 1)
  <2>1. Len(new) = e - c
    BY DEF Holds
  <2>2. QED
    <3>1. Len(r) = Len(Tail(q)) + Len(new)
      BY <1>3
    <3>2. Len(Tail(q)) = c - d - 1
      BY <1>1
    <3>3. QED
      BY <2>1, <3>1, <3>2
<1>6. QED
  BY <1>3, <1>4, <1>5 DEF Holds, Remaining, r

\* An event sent is the last of the row.
LEMMA AppendHolds ==
  ASSUME NEW d \in Nat, NEW c \in Nat, NEW q, NEW k \in Kinds, Holds(q, d, c)
  PROVE  /\ Holds(Append(q, [number |-> c + 1, kind |-> k]), d, c + 1)
         /\ Append(q, [number |-> c + 1, kind |-> k]) # << >>
<1> DEFINE e == [number |-> c + 1, kind |-> k]
<1>1. e \in Events
  BY DEF Events
<1>2. q \in Seq(Events) /\ Len(q) \in Nat
  BY LenProperties DEF Holds
<1> HIDE DEF e
<1>3. /\ Append(q, e) \in Seq(Events) /\ Append(q, e) # << >> /\ Len(Append(q, e)) = Len(q) + 1
      /\ \A i \in 1 .. Len(q) : Append(q, e)[i] = q[i]
      /\ Append(q, e)[Len(q) + 1] = e
  BY <1>1, <1>2, AppendProperties
<1>4. e.number = c + 1
  BY DEF e
<1>5. ASSUME NEW i \in 1 .. Len(Append(q, e))
      PROVE  Append(q, e)[i].number = d + i
  <2>1. CASE i = Len(q) + 1
    BY <2>1, <1>2, <1>3, <1>4 DEF Holds
  <2>2. CASE i # Len(q) + 1
    BY <2>2, <1>2, <1>3 DEF Holds
  <2>3. QED
    BY <2>1, <2>2
<1>6. Len(Append(q, e)) = (c + 1) - d
  BY <1>2, <1>3 DEF Holds
<1>7. Holds(Append(q, e), d, c + 1)
  BY <1>3, <1>5, <1>6 DEF Holds
<1>8. QED
  BY <1>3, <1>7 DEF e

\* One dispatch, whatever its handlers send.
LEMMA ProcessHolds ==
  ASSUME NEW q, NEW c \in Nat, NEW w \in Nat, done \in Nat,
         q # << >>, Holds(q, done, c), ProcessEvents(q, c, w)
  PROVE  /\ sent' \in Nat /\ done' \in Nat
         /\ Holds(queue', done', sent')
         /\ posted' = w + Wakeups(queue')
<1>1. PICK run, out \in Seq(Kinds) :
        /\ sent' = c + Len(out)
        /\ queue' = Remaining(q, Numbered(out, c))
        /\ posted' = w + Wakeups(queue')
        /\ done' = Head(q).number
  BY DEF ProcessEvents, Outputs
<1>2. sent' \in Nat
  BY <1>1, LenProperties
<1>3. done' = done + 1
  <2>1. q \in Seq(Events) /\ Len(q) \in Nat \ {0}
    BY EmptySeq DEF Holds
  <2>2. Head(q) = q[1]
    BY <2>1
  <2>3. QED
    BY <1>1, <2>1, <2>2 DEF Holds
<1>4. Holds(Numbered(out, c), c, sent')
  BY <1>1, NumberedHolds
<1>5. Holds(queue', done + 1, sent')
  BY <1>1, <1>2, <1>4, RemainingHolds
<1>6. QED
  BY <1>1, <1>2, <1>3, <1>5

\* Every step keeps the row and its wake-up.
LEMMA InvStep == IInv /\ [Next]_vars => IInv'
<1> SUFFICES ASSUME IInv, [Next]_vars
             PROVE  IInv'
  OBVIOUS
<1>0. sent \in Nat /\ done \in Nat /\ Holds(queue, done, sent) /\ posted = IF queue = << >> THEN 0 ELSE 1
  BY DEF IInv, OneWakeup
<1>1. ASSUME NEW k \in External, SendEvent(k)
      PROVE  IInv'
  <2> DEFINE q == Append(queue, [number |-> sent + 1, kind |-> k])
  <2>1. Holds(q, done, sent + 1) /\ q # << >>
    BY <1>0, EventManagerAssumption, AppendHolds
  <2>2. Len(q) = Len(queue) + 1 /\ Len(queue) \in Nat /\ (Len(queue) = 0 <=> queue = << >>)
    <3>1. queue \in Seq(Events)
      BY <1>0 DEF Holds
    <3>2. QED
      BY <3>1, <2>1, <1>0, EmptySeq, LenProperties DEF Holds
  <2>3. \/ Len(q) = 1 /\ ProcessEvents(q, sent + 1, posted)
        \/ Len(q) # 1 /\ queue' = q /\ sent' = sent + 1 /\ posted' = posted /\ done' = done
    BY <1>1 DEF SendEvent, Idle
  <2> HIDE DEF q
  <2>4. CASE Len(q) = 1 /\ ProcessEvents(q, sent + 1, posted)
    <3>1. posted = 0
      <4>1. Len(q) = 1
        BY <2>4
      <4>a. Len(queue) + 1 = 1 /\ Len(queue) \in Nat
        BY <4>1, <2>2
      <4>2. Len(queue) = 0
        BY <4>a
      <4>3. QED
        BY <4>2, <2>2, <1>0
    <3>2. /\ sent' \in Nat /\ done' \in Nat /\ Holds(queue', done', sent')
          /\ posted' = 0 + Wakeups(queue')
      BY <3>1, <2>1, <2>4, <1>0, ProcessHolds
    <3>3. QED
      BY <3>2 DEF IInv, OneWakeup, Wakeups
  <2>5. CASE Len(q) # 1 /\ queue' = q /\ sent' = sent + 1 /\ posted' = posted /\ done' = done
    <3>1. queue # << >>
      BY <2>2, <2>5
    <3>2. QED
      BY <3>1, <2>1, <2>5, <1>0 DEF IInv, OneWakeup, Holds
  <2>6. QED
    BY <2>3, <2>4, <2>5
<1>2. CASE CustomEvent
  <2>1. queue # << >> /\ posted = 1
    BY <1>0, <1>2 DEF CustomEvent, Awake
  <2>2. ProcessEvents(queue, sent, 0)
    BY <1>2, <2>1 DEF CustomEvent
  <2>3. /\ sent' \in Nat /\ done' \in Nat /\ Holds(queue', done', sent')
        /\ posted' = 0 + Wakeups(queue')
    BY <2>1, <2>2, <1>0, ProcessHolds
  <2>4. QED
    BY <2>3 DEF IInv, OneWakeup, Wakeups
<1>3. CASE UNCHANGED vars
  BY <1>0, <1>3 DEF vars, IInv, OneWakeup, Holds
<1>4. QED
  BY <1>1, <1>2, <1>3 DEF Next

LEMMA InitHolds == Init => IInv
<1>1. << >> \in Seq(Events) /\ Len(<< >>) = 0
  BY EmptySeq
<1>2. QED
  BY <1>1 DEF Init, IInv, Holds, OneWakeup

LEMMA InvHolds == Spec => []IInv
BY InitHolds, InvStep, PTL DEF Spec

\* Whatever the handlers send, and however external events and wake-ups interleave,
\* events are dispatched first come, first served, each once.
THEOREM InOrderHolds == Spec => []InOrder
<1>1. IInv => InOrder
  <2>1. ASSUME IInv PROVE DOMAIN queue = 1 .. Len(queue)
    BY <2>1, LenProperties DEF IInv, Holds
  <2>2. QED
    BY <2>1 DEF IInv, InOrder, Holds
<1>2. QED
  BY <1>1, InvHolds, PTL

\* There is one wake-up on its way exactly when an event waits: the queue neither
\* stalls nor is run twice.
THEOREM OneWakeupHolds == Spec => []OneWakeup
<1>1. IInv => OneWakeup
  BY DEF IInv
<1>2. QED
  BY <1>1, InvHolds, PTL

-----------------------------------------------------------------------------
(* The message queue on top of the event queue. *)

\* A step of the session is one of the event manager's, or leaves that alone.
LEMMA MessageStep == [MessageNext]_<<vars, messageVars>> => [Next]_vars
BY DEF MessageNext, EventSent, EventWoken, DisplayMsg, MsgFromClient, Next

LEMMA MessageInvHolds == MessageSpec => []IInv
<1>1. MessageInit => Init
  BY DEF MessageInit
<1>2. Init => IInv
  BY InitHolds
<1>3. QED
  BY <1>1, <1>2, MessageStep, InvStep, PTL DEF MessageSpec

WaitInv ==
  /\ messageQueue \in Seq(RawMessages)
  /\ FlushedWhenIdle

LEMMA ReceiveType ==
  ASSUME NEW direct \in BOOLEAN, NEW new \in Receive(direct)
  PROVE  /\ new \in Seq(RawMessages)
         /\ \A i \in DOMAIN new : new[i].direct = direct
<1>1. CASE new = << >>
  BY <1>1
<1>2. CASE new # << >>
  <2>1. PICK m \in RawMessages : new = <<m>> /\ m.direct = direct
    BY <1>2 DEF Receive
  <2>2. QED
    BY <2>1
<1>3. QED
  BY <1>1, <1>2

LEMMA ConcatDirect ==
  ASSUME NEW q \in Seq(RawMessages), NEW new \in Seq(RawMessages),
         \A i \in DOMAIN q : q[i].direct, \A i \in DOMAIN new : new[i].direct
  PROVE  \A i \in DOMAIN (q \o new) : (q \o new)[i].direct
<1>1. /\ q \o new \in Seq(RawMessages) /\ Len(q \o new) = Len(q) + Len(new)
      /\ \A i \in 1 .. Len(q) + Len(new) :
           (q \o new)[i] = IF i <= Len(q) THEN q[i] ELSE new[i - Len(q)]
  BY ConcatProperties
<1>2. /\ Len(q) \in Nat /\ DOMAIN q = 1 .. Len(q) /\ Len(new) \in Nat
      /\ DOMAIN new = 1 .. Len(new) /\ DOMAIN (q \o new) = 1 .. Len(q) + Len(new)
  BY <1>1, LenProperties
<1>3. ASSUME NEW i \in 1 .. Len(q) + Len(new)
      PROVE  (q \o new)[i].direct
  <2>1. CASE i <= Len(q)
    <3>1. (q \o new)[i] = q[i] /\ i \in DOMAIN q
      BY <1>1, <1>2, <2>1
    <3>2. QED
      BY <3>1
  <2>2. CASE ~(i <= Len(q))
    <3>1. (q \o new)[i] = new[i - Len(q)] /\ i - Len(q) \in DOMAIN new
      BY <1>1, <1>2, <2>2
    <3>2. QED
      BY <3>1
  <2>3. QED
    BY <2>1, <2>2
<1>4. QED
  BY <1>2, <1>3

\* An event that leaves the queue empty flushes the messages with it.
LEMMA WaitStep == IInv /\ IInv' /\ WaitInv /\ [MessageNext]_<<vars, messageVars>> => WaitInv'
<1> SUFFICES ASSUME IInv, IInv', WaitInv, [MessageNext]_<<vars, messageVars>>
             PROVE  WaitInv'
  OBVIOUS
<1>1. messageQueue \in Seq(RawMessages)
  BY DEF WaitInv
<1>2. ASSUME SessionHandles, done' # done \/ queue' # << >>
      PROVE  WaitInv'
  <2>1. PICK new \in Receive(FALSE) \union {<< >>} :
          \/ messageQueue' = messageQueue \o new /\ ~(done' # done /\ Emptied)
          \/ messageQueue' = << >>
    <3>1. PICK new \in (IF done' # done /\ MessageArrives THEN Receive(FALSE) ELSE {<< >>}) :
            IF done' # done /\ Emptied
              THEN ProcessMessages(messageQueue \o new)
              ELSE messageQueue' = messageQueue \o new /\ UNCHANGED <<buffers, stored>>
      BY <1>2 DEF SessionHandles
    <3>2. QED
      BY <3>1 DEF ProcessMessages, Kept
  <2>2. new \in Seq(RawMessages)
    <3>1. CASE new \in Receive(FALSE)
      BY <3>1, ReceiveType
    <3>2. CASE new = << >>
      BY <3>2
    <3>3. QED
      BY <3>1, <3>2
  <2>3. CASE messageQueue' = << >>
    BY <2>3 DEF WaitInv, FlushedWhenIdle
  <2>4. CASE messageQueue' = messageQueue \o new /\ ~(done' # done /\ Emptied)
    <3>1. queue' # << >>
      BY <1>2, <2>4 DEF Emptied
    <3>2. QED
      BY <1>1, <2>2, <2>4, <3>1, ConcatProperties DEF WaitInv, FlushedWhenIdle
  <2>5. QED
    BY <2>1, <2>3, <2>4
<1>3. ASSUME NEW q, NEW c \in Nat, NEW w \in Nat, q # << >>, Holds(q, done, c),
             ProcessEvents(q, c, w)
      PROVE  done' # done
  <2>1. done' = Head(q).number
    BY <1>3 DEF ProcessEvents
  <2>2. q \in Seq(Events) /\ Len(q) \in Nat \ {0}
    BY <1>3, EmptySeq DEF Holds
  <2>3. Head(q).number = done + 1
    BY <1>3, <2>2 DEF Holds
  <2>4. QED
    BY <2>1, <2>3 DEF IInv
<1>4. CASE EventSent
  <2>1. PICK k \in External : SendEvent(k)
    BY <1>4 DEF EventSent
  <2> DEFINE q == Append(queue, [number |-> sent + 1, kind |-> k])
  <2>2. Holds(q, done, sent + 1) /\ q # << >>
    BY EventManagerAssumption, AppendHolds DEF IInv
  <2>3. ProcessEvents(q, sent + 1, posted) \/ queue' = q
    BY <2>1 DEF SendEvent
  <2> HIDE DEF q
  <2>4. posted \in Nat /\ sent + 1 \in Nat
    BY DEF IInv, OneWakeup
  <2>5. done' # done \/ queue' # << >>
    BY <1>3, <2>2, <2>3, <2>4
  <2>6. QED
    BY <1>2, <1>4, <2>5 DEF EventSent
<1>5. CASE EventWoken
  <2>1. queue # << >> /\ posted = 1 /\ Holds(queue, done, sent) /\ sent \in Nat
    BY <1>5 DEF EventWoken, CustomEvent, Awake, IInv, OneWakeup
  <2>2. ProcessEvents(queue, sent, 0)
    BY <1>5, <2>1 DEF EventWoken, CustomEvent
  <2>3. done' # done
    BY <1>3, <2>1, <2>2
  <2>4. QED
    BY <1>2, <1>5, <2>3 DEF EventWoken
<1>6. CASE DisplayMsg
  <2>1. PICK new \in Receive(TRUE) : messageQueue' = messageQueue \o new
    BY <1>6 DEF DisplayMsg
  <2>2. new \in Seq(RawMessages) /\ \A i \in DOMAIN new : new[i].direct
    BY ReceiveType
  <2>3. messageQueue' \in Seq(RawMessages)
    BY <1>1, <2>1, <2>2, ConcatProperties
  <2>4. queue' = queue
    BY <1>6 DEF DisplayMsg, vars
  <2>5. queue = << >> => \A i \in DOMAIN messageQueue' : messageQueue'[i].direct
    BY <1>1, <2>1, <2>2, ConcatDirect DEF WaitInv, FlushedWhenIdle
  <2>6. QED
    BY <2>3, <2>4, <2>5 DEF WaitInv, FlushedWhenIdle
<1>7. CASE MsgFromClient
  <2>1. messageQueue' = << >>
    BY <1>7 DEF MsgFromClient, ProcessMessages, Kept
  <2>2. QED
    BY <2>1 DEF WaitInv, FlushedWhenIdle
<1>8. CASE UNCHANGED <<vars, messageVars>>
  BY <1>8 DEF vars, messageVars, WaitInv, FlushedWhenIdle
<1>9. QED
  BY <1>4, <1>5, <1>6, <1>7, <1>8 DEF MessageNext

\* Whatever events handlers send and clients or timers interleave, no message that an
\* event made is left waiting once the event queue is empty.
THEOREM FlushedWhenIdleHolds == MessageSpec => []FlushedWhenIdle
<1>1. MessageInit => WaitInv
  BY DEF MessageInit, WaitInv, FlushedWhenIdle
<1>2. WaitInv => FlushedWhenIdle
  BY DEF WaitInv
<1>3. QED
  BY <1>1, <1>2, MessageInvHolds, WaitStep, PTL DEF MessageSpec

-----------------------------------------------------------------------------
(* Folds over sequences, step by step. *)

\* Induction on the naturals, for the members of a set.
LEMMA CountingUp ==
  ASSUME NEW G, 0 \in G, \A n \in Nat : n \in G => n + 1 \in G
  PROVE  \A n \in Nat : n \in G
<1> DEFINE Missed == Nat \ G
<1> SUFFICES ASSUME Missed # {} PROVE FALSE
  OBVIOUS
<1>1. PICK n \in Missed : \A m \in Missed : ~(<<m, n>> \in OpToRel(<, Nat))
  <2>1. Missed \subseteq Nat
    OBVIOUS
  <2>2. QED
    BY <2>1, NatLessThanWellFounded, WFMin
<1>2. n \in Nat /\ n \notin G
  OBVIOUS
<1>3. n # 0
  BY <1>2
<1>4. n - 1 \in Nat
  BY <1>2, <1>3
<1>5. n - 1 \notin G
  BY <1>2, <1>4
<1>6. <<n - 1, n>> \in OpToRel(<, Nat)
  BY <1>2, <1>4 DEF OpToRel
<1>7. QED
  BY <1>1, <1>4, <1>5, <1>6

LEMMA MaxOf ==
  ASSUME NEW n \in Nat, NEW s \in SUBSET (1 .. n), s # {}
  PROVE  Max(s) \in s /\ \A y \in s : Max(s) >= y
<1> DEFINE G == {m \in Nat : \A t \in SUBSET (1 .. m) :
                                t # {} => \E x \in t : \A y \in t : x >= y}
<1>1. 0 \in G
  <2>1. \A t \in SUBSET (1 .. 0) : t = {}
    OBVIOUS
  <2>2. QED
    BY <2>1
<1>2. ASSUME NEW m \in Nat, m \in G PROVE m + 1 \in G
  <2> SUFFICES ASSUME NEW t \in SUBSET (1 .. m + 1), t # {}
               PROVE  \E x \in t : \A y \in t : x >= y
    OBVIOUS
  <2>1. CASE m + 1 \in t
    BY <2>1
  <2>2. CASE m + 1 \notin t
    <3>1. t \in SUBSET (1 .. m)
      BY <2>2
    <3>2. QED
      BY <1>2, <3>1
  <2>3. QED
    BY <2>1, <2>2
<1>3. n \in G
  <2> HIDE DEF G
  <2>1. QED
    BY <1>1, <1>2, CountingUp
<1>4. QED
  BY <1>3 DEF Max

LEMMA MaxUpTo ==
  ASSUME NEW n \in Nat, NEW i \in 1 .. n
  PROVE  Max(1 .. i) = i /\ (1 .. i) \ {i} = 1 .. i - 1 /\ 1 .. i # {}
<1>1. 1 .. i \in SUBSET (1 .. n) /\ i \in 1 .. i
  OBVIOUS
<1>2. Max(1 .. i) \in 1 .. i /\ Max(1 .. i) >= i
  BY <1>1, MaxOf
<1>3. QED
  BY <1>2

\* h is the table that a fold of the community modules fills.
Folds(h, base, n, step) ==
  /\ h[{}] = base
  /\ \A s \in SUBSET (1 .. n) : s # {} => h[s] = step[Max(s)][h[s \ {Max(s)}]]

LEMMA SubsetRecursion ==
  ASSUME NEW D, NEW base \in D, NEW n \in Nat, NEW step \in [1 .. n -> [D -> D]]
  PROVE  \E h \in [SUBSET (1 .. n) -> D] : Folds(h, base, n, step)
<1> DEFINE Sol(m, h) == h[{}] = base /\ \A s \in SUBSET (1 .. m) :
                          s # {} => h[s] = step[Max(s)][h[s \ {Max(s)}]]
           P(m) == \E h \in [SUBSET (1 .. m) -> D] : Sol(m, h)
           G == {m \in Nat : m <= n => P(m)}
<1>1. P(0)
  <2> DEFINE h == [s \in SUBSET (1 .. 0) |-> base]
  <2>1. \A s \in SUBSET (1 .. 0) : s = {}
    OBVIOUS
  <2>2. h \in [SUBSET (1 .. 0) -> D] /\ h[{}] = base
    OBVIOUS
  <2> HIDE DEF h
  <2>3. Sol(0, h)
    BY <2>1, <2>2
  <2>4. QED
    BY <2>2, <2>3
<1>2. ASSUME NEW m \in Nat, m + 1 <= n, P(m) PROVE P(m + 1)
  <2>1. PICK h \in [SUBSET (1 .. m) -> D] : Sol(m, h)
    BY <1>2
  <2> DEFINE g == [s \in SUBSET (1 .. m + 1) |->
                     IF m + 1 \in s THEN step[m + 1][h[s \ {m + 1}]] ELSE h[s]]
  <2>2. \A s \in SUBSET (1 .. m + 1) : s \ {m + 1} \in SUBSET (1 .. m)
                                       /\ (m + 1 \notin s => s \in SUBSET (1 .. m))
    OBVIOUS
  <2>3. g \in [SUBSET (1 .. m + 1) -> D]
    <3>1. m + 1 \in 1 .. n
      BY <1>2
    <3>2. \A s \in SUBSET (1 .. m + 1) : g[s] \in D
      BY <2>2, <3>1
    <3>3. QED
      BY <3>2
  <2>4. g[{}] = base
    BY <2>1
  <2>5. ASSUME NEW s \in SUBSET (1 .. m + 1), s # {}
        PROVE  g[s] = step[Max(s)][g[s \ {Max(s)}]]
    <3>1. Max(s) \in s /\ (\A y \in s : Max(s) >= y) /\ Max(s) \in 1 .. m + 1
      <4>1. m + 1 \in Nat /\ s # {}
        BY <2>5
      <4>2. QED
        BY <4>1, MaxOf
    <3>2. s \ {Max(s)} \in SUBSET (1 .. m + 1)
      OBVIOUS
    <3>3. CASE m + 1 \in s
      <4>1. Max(s) = m + 1
        BY <3>1, <3>3
      <4>2. g[s \ {m + 1}] = h[s \ {m + 1}]
        BY <2>2
      <4>3. QED
        BY <3>3, <4>1, <4>2
    <3>4. CASE m + 1 \notin s
      <4>1. g[s] = h[s] /\ g[s \ {Max(s)}] = h[s \ {Max(s)}] /\ s \in SUBSET (1 .. m)
        BY <3>2, <3>4, <2>2
      <4>2. h[s] = step[Max(s)][h[s \ {Max(s)}]]
        BY <4>1, <2>1, <2>5
      <4>3. QED
        BY <4>1, <4>2
    <3>5. QED
      BY <3>3, <3>4
  <2>6. Sol(m + 1, g)
    BY <2>4, <2>5
  <2> HIDE DEF g, Sol
  <2>7. QED
    BY <2>3, <2>6
<1>3. P(n)
  <2> HIDE DEF P
  <2>1. 0 \in G /\ \A m \in Nat : m \in G => m + 1 \in G
    BY <1>1, <1>2
  <2>2. n \in G
    <3> HIDE DEF G
    <3>1. QED
      BY <2>1, CountingUp
  <2>3. QED
    BY <2>2
<1>4. QED
  BY <1>3 DEF Folds

-----------------------------------------------------------------------------
Names == Targets \union {Status}
Stored == [msg : RawMessages, buffer : Names]
Batches ==
  [cache : UNION {[S -> Names] : S \in SUBSET Names}, known : SUBSET Names,
   out : Seq(Stored), waiting : Seq(RawMessages)]

LEMMA CachedType ==
  ASSUME NEW batch \in Batches, NEW m \in RawMessages, NEW b \in Names,
         m.target \notin DOMAIN batch.cache
  PROVE  LET c == Cached(batch, m, b)
         IN /\ c \in Batches
            /\ c.out = Append(batch.out, In(m, b)) /\ c.waiting = batch.waiting
            /\ DOMAIN c.cache = DOMAIN batch.cache \union {m.target}
            /\ c.cache[m.target] = b
            /\ \A t \in DOMAIN batch.cache : c.cache[t] = batch.cache[t]
<1> DEFINE cache == [t \in DOMAIN batch.cache \union {m.target} |->
                      IF t = m.target THEN b ELSE batch.cache[t]]
<1>1. PICK S \in SUBSET Names : batch.cache \in [S -> Names]
  BY DEF Batches
<1>2. m.target \in Names
  BY DEF RawMessages, Names
<1>3. DOMAIN batch.cache = S
  BY <1>1
<1>4. /\ cache \in [S \union {m.target} -> Names] /\ S \union {m.target} \in SUBSET Names
      /\ DOMAIN cache = S \union {m.target}
  BY <1>1, <1>2, <1>3
<1>5. /\ cache \in UNION {[T -> Names] : T \in SUBSET Names}
      /\ DOMAIN cache = DOMAIN batch.cache \union {m.target}
      /\ cache[m.target] = b /\ \A t \in DOMAIN batch.cache : cache[t] = batch.cache[t]
  BY <1>1, <1>3, <1>4
<1>6. In(m, b) \in Stored
  BY DEF In, Stored
<1>7. batch.out \in Seq(Stored) /\ Append(batch.out, In(m, b)) \in Seq(Stored)
  BY <1>6 DEF Batches
<1> HIDE DEF cache
<1>8. Cached(batch, m, b) = [batch EXCEPT !.out = Append(@, In(m, b)), !.cache = cache,
                                          !.known = @ \union {b}]
  BY DEF Cached, cache
<1> DEFINE c == [batch EXCEPT !.out = Append(@, In(m, b)), !.cache = cache,
                              !.known = @ \union {b}]
<1>9. /\ c.out = Append(batch.out, In(m, b)) /\ c.waiting = batch.waiting
      /\ c.cache = cache /\ c \in Batches
  BY <1>5, <1>7 DEF Batches
<1> HIDE DEF c
<1>10. QED
  BY <1>5, <1>8, <1>9 DEF c

LEMMA SortedType ==
  ASSUME NEW batch \in Batches, NEW m \in RawMessages
  PROVE  Sorted(batch, m) \in Batches
<1>1. CASE m.target \in DOMAIN batch.cache
  <2>1. batch.cache[m.target] \in Names
    BY <1>1 DEF Batches
  <2>2. Append(batch.out, In(m, batch.cache[m.target])) \in Seq(Stored)
    BY <2>1 DEF Batches, In, Stored
  <2>3. QED
    BY <1>1, <2>2 DEF Sorted, Batches
<1>2. CASE m.target \notin DOMAIN batch.cache /\ Found(m, batch.known)
  <2>1. m.target \in Names
    BY DEF RawMessages, Names
  <2>2. QED
    BY <1>2, <2>1, CachedType DEF Sorted, BufferOf
<1>3. CASE m.target \notin DOMAIN batch.cache /\ ~Found(m, batch.known)
  <2>1. Sorted(batch, m) = [batch EXCEPT !.waiting = Append(@, m)]
    BY <1>3 DEF Sorted
  <2>2. Append(batch.waiting, m) \in Seq(RawMessages)
    BY DEF Batches
  <2>3. QED
    BY <2>1, <2>2 DEF Batches
<1>4. QED
  BY <1>1, <1>2, <1>3

LEMMA RecheckedType ==
  ASSUME NEW batch \in Batches, NEW m \in RawMessages
  PROVE  Rechecked(batch, m) \in Batches
<1>1. CASE m.target \in DOMAIN batch.cache
  <2>1. batch.cache[m.target] \in Names
    BY <1>1 DEF Batches
  <2>2. Append(batch.out, In(m, batch.cache[m.target])) \in Seq(Stored)
    BY <2>1 DEF Batches, In, Stored
  <2>3. QED
    BY <1>1, <2>2 DEF Rechecked, Batches
<1>2. CASE m.target \notin DOMAIN batch.cache
  BY <1>2, CachedType DEF Rechecked, Names
<1>3. QED
  BY <1>1, <1>2

\* The loop of processMessages over the queue, as a sequence of batches.
LEMMA SortedFold ==
  ASSUME NEW q \in Seq(RawMessages), NEW base \in Batches
  PROVE  \E f \in [0 .. Len(q) -> Batches] :
           /\ f[0] = base
           /\ \A i \in 1 .. Len(q) : f[i] = Sorted(f[i - 1], q[i])
           /\ f[Len(q)] = FoldLeft(Sorted, base, q)
<1> DEFINE n == Len(q)
           step == [i \in 1 .. n |-> [d \in Batches |-> Sorted(d, q[i])]]
           Sol(h) == h = [s \in SUBSET (1 .. n) |->
                            IF s = {} THEN base ELSE Sorted(h[s \ {Max(s)}], q[Max(s)])]
           iter == CHOOSE h : Sol(h)
<1>1. n \in Nat /\ DOMAIN q = 1 .. n /\ \A i \in 1 .. n : q[i] \in RawMessages
  BY LenProperties
<1>2. FoldLeft(Sorted, base, q) = iter[1 .. n]
  BY <1>1 DEF FoldLeft, MapThenFoldSet
<1>3. /\ step \in [1 .. n -> [Batches -> Batches]]
      /\ \A i \in 1 .. n : \A d \in Batches : step[i][d] = Sorted(d, q[i])
  BY <1>1, SortedType
<1> HIDE DEF n, step
<1>4. PICK h \in [SUBSET (1 .. n) -> Batches] : Folds(h, base, n, step)
  <2> HIDE DEF Sol, iter
  <2>1. n \in Nat /\ base \in Batches /\ step \in [1 .. n -> [Batches -> Batches]]
    BY <1>1, <1>3
  <2>2. QED
    BY <2>1, SubsetRecursion
<1>5. \A s \in SUBSET (1 .. n) : s # {} => h[s] = Sorted(h[s \ {Max(s)}], q[Max(s)])
  <2> SUFFICES ASSUME NEW s \in SUBSET (1 .. n), s # {}
               PROVE  h[s] = Sorted(h[s \ {Max(s)}], q[Max(s)])
    OBVIOUS
  <2>1. Max(s) \in 1 .. n
    BY <1>1, MaxOf
  <2>2. h[s \ {Max(s)}] \in Batches
    OBVIOUS
  <2>3. QED
    BY <1>3, <1>4, <2>1, <2>2 DEF Folds
<1>6. Sol(h)
  BY <1>4, <1>5 DEF Folds
<1>7. Sol(iter)
  <2> HIDE DEF Sol
  <2>1. QED
    BY <1>6
<1> HIDE DEF iter
<1>8. iter[{}] = base /\ \A i \in 1 .. n : iter[1 .. i] = Sorted(iter[1 .. i - 1], q[i])
  <2>1. iter[{}] = base
    BY <1>7
  <2>2. ASSUME NEW i \in 1 .. n PROVE iter[1 .. i] = Sorted(iter[1 .. i - 1], q[i])
    <3>1. Max(1 .. i) = i /\ (1 .. i) \ {i} = 1 .. i - 1 /\ 1 .. i # {}
      BY <1>1, MaxUpTo
    <3>2. 1 .. i \in SUBSET (1 .. n)
      BY <1>1
    <3>3. iter[1 .. i] = Sorted(iter[(1 .. i) \ {Max(1 .. i)}], q[Max(1 .. i)])
      BY <1>7, <3>1, <3>2
    <3>4. QED
      BY <3>1, <3>3
  <2>3. QED
    BY <2>1, <2>2
<1> DEFINE f == [i \in 0 .. n |-> iter[1 .. i]]
           G == {i \in Nat : i <= n => f[i] \in Batches}
<1>9. f[0] = base /\ (\A i \in 1 .. n : f[i] = Sorted(f[i - 1], q[i])) /\ f[n] = iter[1 .. n]
  BY <1>1, <1>8
<1>10. \A i \in Nat : i \in G
  <2>1. 0 \in G
    BY <1>9
  <2>2. ASSUME NEW i \in Nat, i \in G PROVE i + 1 \in G
    <3> SUFFICES ASSUME i + 1 <= n PROVE f[i + 1] \in Batches
      OBVIOUS
    <3>1. f[i] \in Batches /\ i + 1 \in 1 .. n /\ f[i + 1] = Sorted(f[i], q[i + 1])
      BY <1>1, <1>9, <2>2
    <3>2. QED
      BY <1>1, <3>1, SortedType
  <2> HIDE DEF G
  <2>3. QED
    BY <2>1, <2>2, CountingUp
<1>11. f \in [0 .. n -> Batches]
  <2>1. \A i \in 0 .. n : i \in Nat /\ i <= n
    BY <1>1
  <2>2. \A i \in 0 .. n : f[i] \in Batches
    <3> HIDE DEF f
    <3>1. QED
      BY <1>10, <2>1
  <2>3. QED
    BY <2>2
<1>12. QED
  <2> HIDE DEF f
  <2>1. QED
    BY <1>2, <1>9, <1>11 DEF n

\* The same for the loop over the messages to be rechecked.
LEMMA RecheckedFold ==
  ASSUME NEW q \in Seq(RawMessages), NEW base \in Batches
  PROVE  \E f \in [0 .. Len(q) -> Batches] :
           /\ f[0] = base
           /\ \A i \in 1 .. Len(q) : f[i] = Rechecked(f[i - 1], q[i])
           /\ f[Len(q)] = FoldLeft(Rechecked, base, q)
<1> DEFINE n == Len(q)
           step == [i \in 1 .. n |-> [d \in Batches |-> Rechecked(d, q[i])]]
           Sol(h) == h = [s \in SUBSET (1 .. n) |->
                            IF s = {} THEN base ELSE Rechecked(h[s \ {Max(s)}], q[Max(s)])]
           iter == CHOOSE h : Sol(h)
<1>1. n \in Nat /\ DOMAIN q = 1 .. n /\ \A i \in 1 .. n : q[i] \in RawMessages
  BY LenProperties
<1>2. FoldLeft(Rechecked, base, q) = iter[1 .. n]
  BY <1>1 DEF FoldLeft, MapThenFoldSet
<1>3. /\ step \in [1 .. n -> [Batches -> Batches]]
      /\ \A i \in 1 .. n : \A d \in Batches : step[i][d] = Rechecked(d, q[i])
  BY <1>1, RecheckedType
<1> HIDE DEF n, step
<1>4. PICK h \in [SUBSET (1 .. n) -> Batches] : Folds(h, base, n, step)
  <2> HIDE DEF Sol, iter
  <2>1. n \in Nat /\ base \in Batches /\ step \in [1 .. n -> [Batches -> Batches]]
    BY <1>1, <1>3
  <2>2. QED
    BY <2>1, SubsetRecursion
<1>5. \A s \in SUBSET (1 .. n) : s # {} => h[s] = Rechecked(h[s \ {Max(s)}], q[Max(s)])
  <2> SUFFICES ASSUME NEW s \in SUBSET (1 .. n), s # {}
               PROVE  h[s] = Rechecked(h[s \ {Max(s)}], q[Max(s)])
    OBVIOUS
  <2>1. Max(s) \in 1 .. n
    BY <1>1, MaxOf
  <2>2. h[s \ {Max(s)}] \in Batches
    OBVIOUS
  <2>3. QED
    BY <1>3, <1>4, <2>1, <2>2 DEF Folds
<1>6. Sol(h)
  BY <1>4, <1>5 DEF Folds
<1>7. Sol(iter)
  <2> HIDE DEF Sol
  <2>1. QED
    BY <1>6
<1> HIDE DEF iter
<1>8. iter[{}] = base /\ \A i \in 1 .. n : iter[1 .. i] = Rechecked(iter[1 .. i - 1], q[i])
  <2>1. iter[{}] = base
    BY <1>7
  <2>2. ASSUME NEW i \in 1 .. n PROVE iter[1 .. i] = Rechecked(iter[1 .. i - 1], q[i])
    <3>1. Max(1 .. i) = i /\ (1 .. i) \ {i} = 1 .. i - 1 /\ 1 .. i # {}
      BY <1>1, MaxUpTo
    <3>2. 1 .. i \in SUBSET (1 .. n)
      BY <1>1
    <3>3. iter[1 .. i] = Rechecked(iter[(1 .. i) \ {Max(1 .. i)}], q[Max(1 .. i)])
      BY <1>7, <3>1, <3>2
    <3>4. QED
      BY <3>1, <3>3
  <2>3. QED
    BY <2>1, <2>2
<1> DEFINE f == [i \in 0 .. n |-> iter[1 .. i]]
           G == {i \in Nat : i <= n => f[i] \in Batches}
<1>9. f[0] = base /\ (\A i \in 1 .. n : f[i] = Rechecked(f[i - 1], q[i])) /\ f[n] = iter[1 .. n]
  BY <1>1, <1>8
<1>10. \A i \in Nat : i \in G
  <2>1. 0 \in G
    BY <1>9
  <2>2. ASSUME NEW i \in Nat, i \in G PROVE i + 1 \in G
    <3> SUFFICES ASSUME i + 1 <= n PROVE f[i + 1] \in Batches
      OBVIOUS
    <3>1. f[i] \in Batches /\ i + 1 \in 1 .. n /\ f[i + 1] = Rechecked(f[i], q[i + 1])
      BY <1>1, <1>9, <2>2
    <3>2. QED
      BY <1>1, <3>1, RecheckedType
  <2> HIDE DEF G
  <2>3. QED
    BY <2>1, <2>2, CountingUp
<1>11. f \in [0 .. n -> Batches]
  <2>1. \A i \in 0 .. n : i \in Nat /\ i <= n
    BY <1>1
  <2>2. \A i \in 0 .. n : f[i] \in Batches
    <3> HIDE DEF f
    <3>1. QED
      BY <1>10, <2>1
  <2>3. QED
    BY <2>2
<1>12. QED
  <2> HIDE DEF f
  <2>1. QED
    BY <1>2, <1>9, <1>11 DEF n

-----------------------------------------------------------------------------
(* What a flush stores. *)

\* s stores the first d messages of q: each plain one in the buffer of its target, and
\* nothing before the plain ones that came earlier.
Filed(s, q, d) ==
  /\ \A a \in 1 .. d : ~q[a].redirected => \E j \in DOMAIN s : s[j].msg = q[a]
  /\ \A j \in DOMAIN s : \E a \in 1 .. d :
       /\ s[j].msg = q[a]
       /\ ~q[a].redirected => s[j].buffer = q[a].target
       /\ \A c \in 1 .. a - 1 :
            ~q[c].redirected => \E i \in 1 .. j - 1 : s[i].msg = q[c]

LEMMA FiledAppend ==
  ASSUME NEW s \in Seq(Stored), NEW q \in Seq(RawMessages), NEW d \in Nat, Filed(s, q, d),
         NEW e \in {d, d + 1}, NEW a \in 1 .. e, e \in 1 .. Len(q), e = d + 1 => a = e,
         NEW b \in Names, ~q[a].redirected => b = q[a].target
  PROVE  Filed(Append(s, In(q[a], b)), q, e)
<1> DEFINE x == In(q[a], b)
           t == Append(s, x)
<1>1. x \in Stored /\ x.msg = q[a] /\ x.buffer = b
  <2>1. Len(q) \in Nat /\ a \in 1 .. Len(q)
    BY LenProperties
  <2>2. q[a] \in RawMessages
    BY <2>1, ElementOfSeq
  <2>3. QED
    BY <2>2 DEF In, Stored
<1> HIDE DEF x
<1>2. /\ Len(s) \in Nat /\ DOMAIN s = 1 .. Len(s) /\ DOMAIN t = 1 .. Len(s) + 1
      /\ (\A i \in 1 .. Len(s) : t[i] = s[i]) /\ t[Len(s) + 1] = x
  BY <1>1, AppendProperties, LenProperties
<1> HIDE DEF t
<1>3. ASSUME NEW c \in 1 .. e, ~q[c].redirected
      PROVE  \E j \in DOMAIN t : t[j].msg = q[c]
  <2>1. CASE c \in 1 .. d
    <3>1. PICK j \in DOMAIN s : s[j].msg = q[c]
      BY <1>3, <2>1 DEF Filed
    <3>2. j \in DOMAIN t /\ t[j] = s[j]
      BY <1>2
    <3>3. QED
      BY <3>1, <3>2
  <2>2. CASE c \notin 1 .. d
    <3>1. c = a
      BY <2>2
    <3>2. QED
      BY <1>1, <1>2, <3>1
  <2>3. QED
    BY <2>1, <2>2
<1>4. ASSUME NEW j \in DOMAIN t
      PROVE  \E o \in 1 .. e :
               /\ t[j].msg = q[o]
               /\ ~q[o].redirected => t[j].buffer = q[o].target
               /\ \A c \in 1 .. o - 1 :
                    ~q[c].redirected => \E i \in 1 .. j - 1 : t[i].msg = q[c]
  <2>1. CASE j \in 1 .. Len(s)
    <3>1. PICK o \in 1 .. d :
            /\ s[j].msg = q[o]
            /\ ~q[o].redirected => s[j].buffer = q[o].target
            /\ \A c \in 1 .. o - 1 :
                 ~q[c].redirected => \E i \in 1 .. j - 1 : s[i].msg = q[c]
      BY <1>2, <2>1 DEF Filed
    <3>2. o \in 1 .. e /\ t[j] = s[j] /\ \A i \in 1 .. j - 1 : t[i] = s[i]
      BY <1>2, <2>1
    <3>3. QED
      BY <3>1, <3>2
  <2>2. CASE j \notin 1 .. Len(s)
    <3>1. t[j] = x /\ j = Len(s) + 1
      BY <1>2, <2>2
    <3>2. ASSUME NEW c \in 1 .. a - 1, ~q[c].redirected
          PROVE  \E i \in 1 .. j - 1 : t[i].msg = q[c]
      <4>1. c \in 1 .. d /\ j - 1 = Len(s)
        BY <1>2, <3>1
      <4>2. PICK i \in DOMAIN s : s[i].msg = q[c]
        BY <3>2, <4>1 DEF Filed
      <4>3. QED
        BY <1>2, <4>1, <4>2
    <3>3. QED
      BY <1>1, <3>1, <3>2
  <2>3. QED
    BY <2>1, <2>2
<1>5. QED
  BY <1>3, <1>4 DEF Filed, t, x

\* A redirected message may also wait.
LEMMA FiledSkip ==
  ASSUME NEW s, NEW q, NEW d \in Nat, Filed(s, q, d), q[d + 1].redirected
  PROVE  Filed(s, q, d + 1)
<1>1. ASSUME NEW a \in 1 .. d + 1, ~q[a].redirected
      PROVE  \E j \in DOMAIN s : s[j].msg = q[a]
  <2>1. a \in 1 .. d
    BY <1>1
  <2>2. QED
    BY <1>1, <2>1 DEF Filed
<1>2. 1 .. d \subseteq 1 .. d + 1
  OBVIOUS
<1>3. QED
  BY <1>1, <1>2 DEF Filed

LEMMA FiledSame ==
  ASSUME NEW s, NEW q, NEW r, NEW d \in Nat, Filed(s, q, d), \A a \in 1 .. d : r[a] = q[a]
  PROVE  Filed(s, r, d)
<1>1. ASSUME NEW j \in DOMAIN s
      PROVE  \E a \in 1 .. d :
               /\ s[j].msg = r[a]
               /\ ~r[a].redirected => s[j].buffer = r[a].target
               /\ \A c \in 1 .. a - 1 :
                    ~r[c].redirected => \E i \in 1 .. j - 1 : s[i].msg = r[c]
  <2>1. PICK a \in 1 .. d :
          /\ s[j].msg = q[a]
          /\ ~q[a].redirected => s[j].buffer = q[a].target
          /\ \A c \in 1 .. a - 1 :
               ~q[c].redirected => \E i \in 1 .. j - 1 : s[i].msg = q[c]
    BY DEF Filed
  <2>2. r[a] = q[a] /\ \A c \in 1 .. a - 1 : r[c] = q[c]
    OBVIOUS
  <2>3. QED
    BY <2>1, <2>2
<1>2. QED
  BY <1>1 DEF Filed

\* One flush after another files what came before and what came since.
LEMMA FiledConcat ==
  ASSUME NEW s \in Seq(Stored), NEW out \in Seq(Stored), NEW r, NEW q,
         NEW d \in Nat, NEW n \in Nat, Filed(s, r, d), Filed(out, q, n),
         \A a \in 1 .. n : q[a] = r[d + a]
  PROVE  Filed(s \o out, r, d + n)
<1> DEFINE t == s \o out
<1>1. /\ Len(s) \in Nat /\ DOMAIN s = 1 .. Len(s)
      /\ Len(out) \in Nat /\ DOMAIN out = 1 .. Len(out)
      /\ DOMAIN t = 1 .. Len(s) + Len(out)
      /\ \A i \in 1 .. Len(s) + Len(out) : t[i] = IF i <= Len(s) THEN s[i] ELSE out[i - Len(s)]
  BY ConcatProperties, LenProperties
<1> HIDE DEF t
<1>2. /\ \A i \in DOMAIN s : i \in DOMAIN t /\ t[i] = s[i]
      /\ \A i \in DOMAIN out : Len(s) + i \in DOMAIN t /\ t[Len(s) + i] = out[i]
  <2>1. ASSUME NEW i \in DOMAIN s PROVE i \in DOMAIN t /\ t[i] = s[i]
    BY <1>1
  <2>2. ASSUME NEW i \in DOMAIN out
        PROVE  Len(s) + i \in DOMAIN t /\ t[Len(s) + i] = out[i]
    <3>1. Len(s) + i \in 1 .. Len(s) + Len(out) /\ ~(Len(s) + i <= Len(s))
          /\ (Len(s) + i) - Len(s) = i
      BY <1>1
    <3>2. QED
      BY <1>1, <3>1
  <2>3. QED
    BY <2>1, <2>2
<1>3. ASSUME NEW a \in 1 .. d, ~r[a].redirected
      PROVE  \E j \in DOMAIN s : t[j].msg = r[a]
  <2>1. PICK j \in DOMAIN s : s[j].msg = r[a]
    BY <1>3 DEF Filed
  <2>2. QED
    BY <1>2, <2>1
<1>4. ASSUME NEW a \in 1 .. d + n, a \notin 1 .. d
      PROVE  a - d \in 1 .. n /\ q[a - d] = r[a]
  <2>1. a - d \in 1 .. n /\ d + (a - d) = a
    BY <1>4
  <2>2. QED
    BY <2>1
<1>5. ASSUME NEW a \in 1 .. d + n, ~r[a].redirected
      PROVE  \E j \in DOMAIN t : t[j].msg = r[a]
  <2>1. CASE a \in 1 .. d
    BY <1>2, <1>3, <1>5, <2>1
  <2>2. CASE a \notin 1 .. d
    <3>1. PICK j \in DOMAIN out : out[j].msg = q[a - d]
      BY <1>4, <1>5, <2>2 DEF Filed
    <3>2. QED
      BY <1>2, <1>4, <2>2, <3>1
  <2>3. QED
    BY <2>1, <2>2
<1>6. ASSUME NEW j \in DOMAIN t
      PROVE  \E o \in 1 .. d + n :
               /\ t[j].msg = r[o]
               /\ ~r[o].redirected => t[j].buffer = r[o].target
               /\ \A c \in 1 .. o - 1 :
                    ~r[c].redirected => \E i \in 1 .. j - 1 : t[i].msg = r[c]
  <2>1. CASE j \in DOMAIN s
    <3>1. PICK o \in 1 .. d :
            /\ s[j].msg = r[o]
            /\ ~r[o].redirected => s[j].buffer = r[o].target
            /\ \A c \in 1 .. o - 1 :
                 ~r[c].redirected => \E i \in 1 .. j - 1 : s[i].msg = r[c]
      BY <2>1 DEF Filed
    <3>2. o \in 1 .. d + n /\ t[j] = s[j] /\ \A i \in 1 .. j - 1 : t[i] = s[i]
      BY <1>1, <2>1
    <3>3. QED
      BY <3>1, <3>2
  <2>2. CASE j \notin DOMAIN s
    <3>1. j - Len(s) \in DOMAIN out /\ t[j] = out[j - Len(s)] /\ j \in Int
      BY <1>1, <2>2
    <3>2. PICK p \in 1 .. n :
            /\ t[j].msg = q[p]
            /\ ~q[p].redirected => t[j].buffer = q[p].target
            /\ \A c \in 1 .. p - 1 :
                 ~q[c].redirected => \E i \in 1 .. (j - Len(s)) - 1 : out[i].msg = q[c]
      BY <3>1 DEF Filed
    <3>3. d + p \in 1 .. d + n /\ q[p] = r[d + p]
      OBVIOUS
    <3>4. ASSUME NEW c \in 1 .. (d + p) - 1, ~r[c].redirected
          PROVE  \E i \in 1 .. j - 1 : t[i].msg = r[c]
      <4>1. CASE c \in 1 .. d
        <5>1. PICK i \in DOMAIN s : t[i].msg = r[c]
          BY <1>3, <3>4, <4>1
        <5>2. i \in 1 .. j - 1
          BY <1>1, <3>1
        <5>3. QED
          BY <5>1, <5>2
      <4>2. CASE c \notin 1 .. d
        <5>1. c \in 1 .. d + n /\ c - d \in 1 .. p - 1
          BY <4>2
        <5>2. q[c - d] = r[c]
          BY <1>4, <4>2, <5>1
        <5>3. PICK i \in 1 .. (j - Len(s)) - 1 : out[i].msg = q[c - d]
          BY <3>2, <3>4, <5>1, <5>2
        <5>4. i \in DOMAIN out /\ Len(s) + i \in 1 .. j - 1
          BY <1>1, <3>1, SMTT(30)
        <5>5. t[Len(s) + i] = out[i]
          BY <1>2, <5>4
        <5>6. QED
          BY <5>2, <5>3, <5>4, <5>5
      <4>3. QED
        BY <4>1, <4>2
    <3>5. QED
      BY <3>2, <3>3, <3>4
  <2>3. QED
    BY <2>1, <2>2
<1>7. QED
  BY <1>5, <1>6 DEF Filed, t

\* What a batch knows once it has sorted the first d messages of q.
Sorts(b, q, d) ==
  /\ Filed(b.out, q, d)
  /\ Len(b.waiting) <= d
  /\ \A t \in DOMAIN b.cache : b.cache[t] = t
  /\ \A a \in 1 .. d : ~q[a].redirected => q[a].target \in DOMAIN b.cache

\* and what it still knows while it rechecks
Rechecks(b, q) ==
  /\ Filed(b.out, q, Len(q))
  /\ \A a \in 1 .. Len(q) :
       ~q[a].redirected => q[a].target \in DOMAIN b.cache /\ b.cache[q[a].target] = q[a].target

LEMMA SortedSorts ==
  ASSUME NEW q \in Seq(RawMessages), NEW d \in Nat, d + 1 \in 1 .. Len(q),
         NEW batch \in Batches, Sorts(batch, q, d)
  PROVE  Sorts(Sorted(batch, q[d + 1]), q, d + 1)
<1> DEFINE m == q[d + 1]
           c == Sorted(batch, m)
<1>1. m \in RawMessages /\ m.target \in Names
  <2>1. \A i \in 1 .. Len(q) : q[i] \in RawMessages
    BY ElementOfSeq
  <2>2. q[d + 1] \in RawMessages
    BY <2>1
  <2>3. QED
    BY <2>2 DEF RawMessages, Names
<1>2. /\ batch.out \in Seq(Stored) /\ Len(batch.waiting) \in Nat /\ batch.waiting \in Seq(RawMessages)
      /\ Filed(batch.out, q, d) /\ Len(batch.waiting) <= d
      /\ (\A t \in DOMAIN batch.cache : batch.cache[t] = t)
      /\ \A a \in 1 .. d : ~q[a].redirected => q[a].target \in DOMAIN batch.cache
  BY LenProperties DEF Batches, Sorts
<1>3. ASSUME NEW a \in 1 .. d + 1, a \notin 1 .. d
      PROVE  q[a] = m
  <2>1. a = d + 1
    BY <1>3
  <2>2. QED
    BY <2>1
<1>4. Filed(Append(batch.out, In(m, m.target)), q, d + 1)
  <2>1. d + 1 \in {d, d + 1} /\ d + 1 \in 1 .. d + 1
    OBVIOUS
  <2>2. QED
    BY <1>1, <1>2, <2>1, FiledAppend
<1>5. CASE m.target \in DOMAIN batch.cache
  <2>1. /\ c.out = Append(batch.out, In(m, m.target)) /\ c.cache = batch.cache
        /\ c.waiting = batch.waiting
    BY <1>2, <1>5 DEF Sorted, Batches
  <2> HIDE DEF c, m
  <2>2. Len(c.waiting) <= d + 1
    BY <1>2, <2>1
  <2>3. QED
    BY <1>2, <1>3, <1>4, <1>5, <2>1, <2>2 DEF Sorts, c, m
<1>6. CASE m.target \notin DOMAIN batch.cache /\ Found(m, batch.known)
  <2>1. c = Cached(batch, m, m.target)
    BY <1>6 DEF Sorted, BufferOf
  <2> HIDE DEF c, m
  <2>2. /\ c.out = Append(batch.out, In(m, m.target)) /\ c.waiting = batch.waiting
        /\ DOMAIN c.cache = DOMAIN batch.cache \union {m.target}
        /\ c.cache[m.target] = m.target
        /\ \A t \in DOMAIN batch.cache : c.cache[t] = batch.cache[t]
    BY <1>1, <1>6, <2>1, CachedType
  <2>3. Len(c.waiting) <= d + 1
    BY <1>2, <2>2
  <2>4. QED
    BY <1>2, <1>3, <1>4, <2>2, <2>3 DEF Sorts, c, m
<1>7. CASE m.target \notin DOMAIN batch.cache /\ ~Found(m, batch.known)
  <2>1. /\ c.out = batch.out /\ c.cache = batch.cache /\ c.waiting = Append(batch.waiting, m)
        /\ m.redirected
    BY <1>7 DEF Sorted, Batches, Found
  <2>2. Len(c.waiting) <= d + 1
    BY <1>1, <1>2, <2>1, AppendProperties
  <2>3. Filed(batch.out, q, d + 1)
    BY <1>2, <2>1, FiledSkip
  <2> HIDE DEF c, m
  <2>4. QED
    BY <1>2, <1>3, <2>1, <2>2, <2>3 DEF Sorts, c, m
<1>8. QED
  BY <1>5, <1>6, <1>7

LEMMA RecheckedRechecks ==
  ASSUME NEW q \in Seq(RawMessages), NEW batch \in Batches, Rechecks(batch, q),
         NEW a \in 1 .. Len(q)
  PROVE  Rechecks(Rechecked(batch, q[a]), q)
<1> DEFINE m == q[a]
           c == Rechecked(batch, m)
<1>1. m \in RawMessages /\ Len(q) \in Nat
  BY ElementOfSeq, LenProperties
<1>2. batch.out \in Seq(Stored) /\ Filed(batch.out, q, Len(q))
  BY DEF Batches, Rechecks
<1>3. ASSUME NEW b \in Names, ~m.redirected => b = m.target
      PROVE  Filed(Append(batch.out, In(m, b)), q, Len(q))
  <2>1. Len(q) \in {Len(q), Len(q) + 1} /\ Len(q) \in 1 .. Len(q) /\ ~(Len(q) = Len(q) + 1)
    BY <1>1
  <2>2. QED
    BY <1>1, <1>2, <1>3, <2>1, FiledAppend
<1>4. CASE m.target \in DOMAIN batch.cache
  <2>1. batch.cache[m.target] \in Names
    BY <1>4 DEF Batches
  <2>2. c.out = Append(batch.out, In(m, batch.cache[m.target])) /\ c.cache = batch.cache
    BY <1>4 DEF Rechecked, Batches
  <2>3. ~m.redirected => batch.cache[m.target] = m.target
    BY DEF Rechecks
  <2>4. Filed(c.out, q, Len(q))
    BY <1>3, <2>1, <2>2, <2>3
  <2> HIDE DEF c, m
  <2>5. QED
    BY <2>2, <2>4 DEF Rechecks, c, m
<1>5. CASE m.target \notin DOMAIN batch.cache
  <2>1. c = Cached(batch, m, Status) /\ Status \in Names
    BY <1>5 DEF Rechecked, Names
  <2>2. m.redirected
    BY <1>5 DEF Rechecks
  <2> HIDE DEF c, m
  <2>3. /\ c.out = Append(batch.out, In(m, Status))
        /\ DOMAIN c.cache = DOMAIN batch.cache \union {m.target}
        /\ \A t \in DOMAIN batch.cache : c.cache[t] = batch.cache[t]
    BY <1>1, <1>5, <2>1, CachedType
  <2>4. Filed(c.out, q, Len(q))
    BY <1>3, <2>1, <2>2, <2>3
  <2>5. QED
    BY <2>3, <2>4 DEF Rechecks, c, m
<1>6. QED
  BY <1>4, <1>5

\* A flush files its queue, whatever the storage knows and the recheck picks.
LEMMA FlushedFiles ==
  ASSUME NEW q \in Seq(RawMessages), NEW known \in SUBSET Names
  PROVE  /\ Flushed(q, known).out \in Seq(Stored) /\ Flushed(q, known).known \in SUBSET Names
         /\ Filed(Flushed(q, known).out, q, Len(q))
<1>1. Len(q) \in Nat /\ \A i \in 1 .. Len(q) : q[i] \in RawMessages
  BY LenProperties, ElementOfSeq
<1>2. CASE Len(q) = 1
  <2> DEFINE b == IF Found(Head(q), known) THEN Head(q).target ELSE Status
             out == <<In(Head(q), b)>>
  <2>1. Head(q) = q[1] /\ q[1] \in RawMessages
    BY <1>1, <1>2
  <2>2. b \in Names /\ (~q[1].redirected => b = q[1].target)
    BY <2>1 DEF Found, RawMessages, Names
  <2> HIDE DEF b
  <2>3. In(q[1], b) \in Stored /\ In(q[1], b).msg = q[1] /\ In(q[1], b).buffer = b
    BY <2>1, <2>2 DEF In, Stored
  <2>4. out \in Seq(Stored) /\ DOMAIN out = {1} /\ out[1] = In(q[1], b)
    BY <2>1, <2>3
  <2> HIDE DEF out
  <2>5. Filed(out, q, 1)
    <3>1. 1 .. 1 = {1} /\ 1 .. 1 - 1 = {}
      OBVIOUS
    <3>2. QED
      BY <2>2, <2>3, <2>4, <3>1 DEF Filed
  <2>6. Flushed(q, known) = [out |-> out, known |-> known \union {b}]
    BY <1>2 DEF Flushed, b, out
  <2>7. QED
    BY <1>2, <2>2, <2>4, <2>5, <2>6
<1>3. CASE Len(q) # 1
  <2> DEFINE base == Batch(known)
             batch == FoldLeft(Sorted, base, q)
             again == Recheck(q, batch)
             end == FoldLeft(Rechecked, batch, again)
  <2>1. base \in Batches
    <3>1. << >> \in [{} -> Names] /\ {} \in SUBSET Names
      OBVIOUS
    <3>2. << >> \in UNION {[S -> Names] : S \in SUBSET Names}
      BY <3>1
    <3>3. << >> \in Seq(Stored) /\ << >> \in Seq(RawMessages)
      OBVIOUS
    <3>4. QED
      BY <3>2, <3>3 DEF Batch, Batches
  <2>2. Sorts(base, q, 0)
    <3>1. base.out = << >> /\ base.cache = << >> /\ base.waiting = << >>
      BY DEF Batch
    <3>2. DOMAIN << >> = {} /\ Len(<< >>) = 0 /\ 1 .. 0 = {}
      OBVIOUS
    <3> HIDE DEF base
    <3>3. QED
      BY <3>1, <3>2 DEF Sorts, Filed
  <2>3. PICK f \in [0 .. Len(q) -> Batches] :
          /\ f[0] = base
          /\ \A i \in 1 .. Len(q) : f[i] = Sorted(f[i - 1], q[i])
          /\ f[Len(q)] = batch
    <3> HIDE DEF base
    <3>1. QED
      BY <2>1, SortedFold
  <2> HIDE DEF base, batch
  <2>4. batch \in Batches /\ Sorts(batch, q, Len(q))
    <3> DEFINE G == {i \in Nat : i <= Len(q) => Sorts(f[i], q, i)}
    <3>1. 0 \in G
      BY <2>2, <2>3
    <3>2. ASSUME NEW i \in Nat, i \in G PROVE i + 1 \in G
      <4> SUFFICES ASSUME i + 1 <= Len(q) PROVE Sorts(f[i + 1], q, i + 1)
        OBVIOUS
      <4>1. i + 1 \in 1 .. Len(q) /\ i \in 0 .. Len(q) /\ Sorts(f[i], q, i)
            /\ f[i + 1] = Sorted(f[i], q[i + 1])
        BY <1>1, <2>3, <3>2
      <4>2. f[i] \in Batches
        BY <2>3, <4>1
      <4>3. QED
        BY <4>1, <4>2, SortedSorts
    <3> HIDE DEF G
    <3>3. Len(q) \in G
      BY <1>1, <3>1, <3>2, CountingUp
    <3>4. QED
      BY <1>1, <2>3, <3>3 DEF G
  <2>5. Rechecks(batch, q)
    BY <2>4 DEF Sorts, Rechecks
  <2>6. again \in Seq(RawMessages) /\ \A i \in 1 .. Len(again) : \E a \in 1 .. Len(q) : again[i] = q[a]
    <3>1. Len(batch.waiting) \in Nat /\ Len(batch.waiting) <= Len(q)
      BY <2>4, LenProperties DEF Sorts, Batches
    <3> DEFINE w == Len(batch.waiting)
    <3> HIDE DEF w
    <3>2. w \in Int /\ 1 \in Int /\ \A i \in 1 .. w : i \in 1 .. Len(q) /\ q[i] \in RawMessages
      BY <1>1, <3>1 DEF w
    <3>3. /\ SubSeq(q, 1, w) \in Seq(RawMessages)
          /\ Len(SubSeq(q, 1, w)) = IF 1 <= w THEN w - 1 + 1 ELSE 0
          /\ \A i \in 1 .. w - 1 + 1 : SubSeq(q, 1, w)[i] = q[1 + i - 1]
      BY <3>2, SubSeqProperties
    <3>4. again = SubSeq(q, 1, w)
      BY DEF Recheck, w
    <3> HIDE DEF again
    <3>5. ASSUME NEW i \in 1 .. Len(again) PROVE i \in 1 .. Len(q) /\ again[i] = q[i]
      <4>1. i \in 1 .. w /\ 1 + i - 1 = i /\ w - 1 + 1 = w
        BY <3>1, <3>3, <3>4 DEF w
      <4>2. QED
        BY <3>2, <3>3, <3>4, <4>1
    <3>6. QED
      BY <3>3, <3>4, <3>5 DEF again
  <2> HIDE DEF again
  <2>7. PICK g \in [0 .. Len(again) -> Batches] :
          /\ g[0] = batch
          /\ \A i \in 1 .. Len(again) : g[i] = Rechecked(g[i - 1], again[i])
          /\ g[Len(again)] = end
    BY <2>4, <2>6, RecheckedFold
  <2> HIDE DEF end
  <2>8. end \in Batches /\ Rechecks(end, q)
    <3>1. Len(again) \in Nat
      BY <2>6, LenProperties
    <3> DEFINE G == {i \in Nat : i <= Len(again) => Rechecks(g[i], q)}
    <3>2. 0 \in G
      BY <2>5, <2>7
    <3>3. ASSUME NEW i \in Nat, i \in G PROVE i + 1 \in G
      <4> SUFFICES ASSUME i + 1 <= Len(again) PROVE Rechecks(g[i + 1], q)
        OBVIOUS
      <4>1. i + 1 \in 1 .. Len(again) /\ i \in 0 .. Len(again) /\ Rechecks(g[i], q)
            /\ g[i + 1] = Rechecked(g[i], again[i + 1])
        BY <2>7, <3>1, <3>3
      <4>2. g[i] \in Batches /\ \E a \in 1 .. Len(q) : again[i + 1] = q[a]
        BY <2>6, <2>7, <4>1
      <4>3. QED
        BY <4>1, <4>2, RecheckedRechecks
    <3> HIDE DEF G
    <3>4. Len(again) \in G
      BY <3>1, <3>2, <3>3, CountingUp
    <3>5. QED
      BY <2>7, <3>1, <3>4 DEF G
  <2>9. Flushed(q, known) = end
    BY <1>3 DEF Flushed, batch, base, again, end
  <2>10. QED
    BY <2>8, <2>9 DEF Rechecks, Batches
<1>4. QED
  BY <1>2, <1>3

-----------------------------------------------------------------------------
(* The messages received are those filed and those that wait. *)

Flushes == Len(received) - Len(messageQueue)

FileInv ==
  /\ received \in Seq(RawMessages) /\ messageQueue \in Seq(RawMessages)
  /\ stored \in Seq(Stored) /\ buffers \in SUBSET Names
  /\ \A i \in 1 .. Len(received) : received[i].number = i
  /\ Flushes \in Nat
  /\ \A i \in 1 .. Len(messageQueue) : messageQueue[i] = received[Flushes + i]
  /\ Filed(stored, received, Flushes)

\* A message that arrives is the last one received and the last one that waits.
LEMMA ReceiveKeeps ==
  ASSUME FileInv, NEW direct \in BOOLEAN, NEW new \in Receive(direct) \union {<< >>}
  PROVE  LET r == received \o new
             q == messageQueue \o new
         IN /\ r \in Seq(RawMessages) /\ q \in Seq(RawMessages)
            /\ \A i \in 1 .. Len(r) : r[i].number = i
            /\ Len(r) = Flushes + Len(q) /\ Len(q) \in Nat
            /\ \A i \in 1 .. Len(q) : q[i] = r[Flushes + i]
            /\ Filed(stored, r, Flushes)
<1> DEFINE r == received \o new
           q == messageQueue \o new
           d == Flushes
<1>1. /\ received \in Seq(RawMessages) /\ messageQueue \in Seq(RawMessages)
      /\ Len(received) \in Nat /\ Len(messageQueue) \in Nat
      /\ Len(received) = d + Len(messageQueue) /\ d \in Nat
      /\ \A i \in 1 .. Len(received) : received[i].number = i
      /\ \A i \in 1 .. Len(messageQueue) : messageQueue[i] = received[d + i]
      /\ Filed(stored, received, d)
  BY LenProperties DEF FileInv, Flushes
<1> HIDE DEF d
<1>2. CASE new = << >>
  <2>1. r = received /\ q = messageQueue
    BY <1>1, <1>2, ConcatEmptySeq
  <2> HIDE DEF r, q
  <2>2. QED
    BY <1>1, <2>1 DEF r, q, d
<1>3. CASE new # << >>
  <2>1. PICK m \in RawMessages : new = <<m>> /\ m.number = Len(received) + 1
    BY <1>3 DEF Receive
  <2>2. r = Append(received, m) /\ q = Append(messageQueue, m)
    BY <1>1, <2>1
  <2>3. /\ r \in Seq(RawMessages) /\ Len(r) = Len(received) + 1
        /\ (\A i \in 1 .. Len(received) : r[i] = received[i]) /\ r[Len(received) + 1] = m
        /\ q \in Seq(RawMessages) /\ Len(q) = Len(messageQueue) + 1
        /\ (\A i \in 1 .. Len(messageQueue) : q[i] = messageQueue[i])
        /\ q[Len(messageQueue) + 1] = m
    <3>1. received \in Seq(RawMessages) /\ messageQueue \in Seq(RawMessages)
      BY <1>1
    <3> HIDE DEF r, q
    <3>2. /\ r \in Seq(RawMessages) /\ Len(r) = Len(received) + 1
          /\ (\A i \in 1 .. Len(received) : r[i] = received[i]) /\ r[Len(received) + 1] = m
      BY <2>2, <3>1, AppendProperties
    <3>3. /\ q \in Seq(RawMessages) /\ Len(q) = Len(messageQueue) + 1
          /\ (\A i \in 1 .. Len(messageQueue) : q[i] = messageQueue[i])
          /\ q[Len(messageQueue) + 1] = m
      BY <2>2, <3>1, AppendProperties
    <3>4. QED
      BY <3>2, <3>3
  <2> HIDE DEF r, q
  <2>4. ASSUME NEW i \in 1 .. Len(r) PROVE r[i].number = i
    <3>1. i \in 1 .. Len(received) \/ i = Len(received) + 1
      <4>1. Len(received) \in Nat /\ Len(r) = Len(received) + 1
        BY <1>1, <2>3
      <4>2. QED
        BY <4>1
    <3>2. QED
      BY <1>1, <2>1, <2>3, <3>1
  <2>5. ASSUME NEW i \in 1 .. Len(q) PROVE q[i] = r[d + i]
    <3>1. CASE i \in 1 .. Len(messageQueue)
      <4>1. d + i \in 1 .. Len(received)
        BY <1>1, <3>1
      <4>2. q[i] = messageQueue[i] /\ messageQueue[i] = received[d + i]
        BY <1>1, <2>3, <3>1
      <4>3. QED
        BY <2>3, <4>1, <4>2
    <3>2. CASE i \notin 1 .. Len(messageQueue)
      <4>1. i = Len(messageQueue) + 1 /\ d + i = Len(received) + 1
        BY <1>1, <2>3, <3>2
      <4>2. QED
        BY <2>3, <4>1
    <3>3. QED
      BY <3>1, <3>2
  <2>6. Filed(stored, r, d)
    <3>1. \A a \in 1 .. d : a \in 1 .. Len(received)
      BY <1>1
    <3>2. \A a \in 1 .. d : r[a] = received[a]
      BY <2>3, <3>1
    <3>3. QED
      BY <1>1, <3>2, FiledSame
  <2>7. Len(r) = d + Len(q) /\ Len(q) \in Nat
    BY <1>1, <2>3
  <2>8. QED
    BY <2>3, <2>4, <2>5, <2>6, <2>7 DEF r, q, d
<1>4. QED
  BY <1>2, <1>3

LEMMA ReceiveStep ==
  ASSUME FileInv, NEW direct \in BOOLEAN, NEW new \in Receive(direct) \union {<< >>},
         received' = received \o new,
         \/ messageQueue' = messageQueue \o new /\ UNCHANGED <<buffers, stored>>
         \/ ProcessMessages(messageQueue \o new)
  PROVE  FileInv'
<1> DEFINE r == received \o new
           q == messageQueue \o new
           d == Flushes
<1>1. /\ r \in Seq(RawMessages) /\ q \in Seq(RawMessages)
      /\ \A i \in 1 .. Len(r) : r[i].number = i
      /\ Len(r) = d + Len(q) /\ Len(q) \in Nat
      /\ \A i \in 1 .. Len(q) : q[i] = r[d + i]
      /\ Filed(stored, r, d)
  BY ReceiveKeeps
<1>2. d \in Nat /\ stored \in Seq(Stored) /\ buffers \in SUBSET Names /\ received' = r
  BY DEF FileInv
<1> HIDE DEF d
<1>3. CASE messageQueue' = q /\ UNCHANGED <<buffers, stored>>
  <2> HIDE DEF r, q
  <2>1. Flushes' = d
    BY <1>1, <1>2, <1>3 DEF Flushes
  <2>2. QED
    BY <1>1, <1>2, <1>3, <2>1 DEF FileInv
<1>4. CASE ProcessMessages(q)
  <2> HIDE DEF r, q
  <2> DEFINE f == Flushed(q, buffers)
  <2>1. f.out \in Seq(Stored) /\ f.known \in SUBSET Names /\ Filed(f.out, q, Len(q))
    BY <1>1, <1>2, FlushedFiles
  <2>2. stored' = stored \o f.out /\ buffers' = f.known /\ messageQueue' = << >>
    BY <1>4 DEF ProcessMessages, Kept
  <2> HIDE DEF f
  <2>3. Filed(stored', r, d + Len(q))
    BY <1>1, <1>2, <2>1, <2>2, FiledConcat
  <2>4. stored' \in Seq(Stored)
    BY <1>2, <2>1, <2>2, ConcatProperties
  <2>5. Flushes' = d + Len(q) /\ d + Len(q) \in Nat /\ Len(messageQueue') = 0
    BY <1>1, <1>2, <2>2 DEF Flushes
  <2>6. 1 .. 0 = {} /\ messageQueue' \in Seq(RawMessages)
    BY <2>2
  <2>7. QED
    BY <1>1, <1>2, <2>1, <2>2, <2>3, <2>4, <2>5, <2>6 DEF FileInv
<1>5. QED
  BY <1>3, <1>4

LEMMA FileStep == FileInv /\ [MessageNext]_<<vars, messageVars>> => FileInv'
<1> SUFFICES ASSUME FileInv, [MessageNext]_<<vars, messageVars>> PROVE FileInv'
  OBVIOUS
<1>1. CASE SessionHandles
  <2>1. PICK new \in (IF done' # done /\ MessageArrives THEN Receive(FALSE) ELSE {<< >>}) :
          /\ received' = received \o new
          /\ IF done' # done /\ Emptied
               THEN ProcessMessages(messageQueue \o new)
               ELSE messageQueue' = messageQueue \o new /\ UNCHANGED <<buffers, stored>>
    BY <1>1 DEF SessionHandles
  <2>2. new \in Receive(FALSE) \union {<< >>}
    BY <2>1
  <2>3. \/ messageQueue' = messageQueue \o new /\ UNCHANGED <<buffers, stored>>
        \/ ProcessMessages(messageQueue \o new)
    BY <2>1
  <2>4. QED
    BY <2>1, <2>2, <2>3, ReceiveStep
<1>2. CASE DisplayMsg
  <2>1. PICK new \in Receive(TRUE) :
          messageQueue' = messageQueue \o new /\ received' = received \o new
          /\ UNCHANGED <<buffers, stored>>
    BY <1>2 DEF DisplayMsg
  <2>2. QED
    BY <2>1, ReceiveStep
<1>3. CASE MsgFromClient
  <2>1. PICK new \in Receive(TRUE) :
          ProcessMessages(messageQueue \o new) /\ received' = received \o new
    BY <1>3 DEF MsgFromClient
  <2>2. QED
    BY <2>1, ReceiveStep
<1>4. CASE UNCHANGED <<vars, messageVars>>
  BY <1>4 DEF messageVars, FileInv, Flushes
<1>5. QED
  BY <1>1, <1>2, <1>3, <1>4 DEF MessageNext, EventSent, EventWoken

LEMMA FirstIsLeast ==
  ASSUME stored \in Seq(Stored), NEW m, StoredAs(m) # {}
  PROVE  First(m) \in StoredAs(m) /\ \A j \in StoredAs(m) : First(m) <= j
<1>1. StoredAs(m) \subseteq Nat
  <2>1. DOMAIN stored = 1 .. Len(stored) /\ Len(stored) \in Nat
    BY LenProperties
  <2>2. QED
    BY <2>1 DEF StoredAs
<1>2. PICK i \in StoredAs(m) : \A j \in StoredAs(m) : ~(<<j, i>> \in OpToRel(<, Nat))
  <2> HIDE DEF StoredAs
  <2>1. QED
    BY <1>1, NatLessThanWellFounded, WFMin
<1>3. \A j \in StoredAs(m) : i <= j
  <2> SUFFICES ASSUME NEW j \in StoredAs(m) PROVE i <= j
    OBVIOUS
  <2>1. i \in Nat /\ j \in Nat
    BY <1>1
  <2>2. ~(j < i)
    BY <1>2, <2>1 DEF OpToRel
  <2>3. QED
    BY <2>1, <2>2
<1>4. QED
  BY <1>3 DEF First

\* The invariant orders the plain messages that have left the queue.
LEMMA FiledInPlace == FileInv => PlainInPlace
<1> SUFFICES ASSUME FileInv PROVE PlainInPlace
  OBVIOUS
<1> DEFINE d == Flushes
<1>1. /\ Len(received) \in Nat /\ Len(messageQueue) \in Nat /\ d \in Nat
      /\ Len(received) = d + Len(messageQueue)
      /\ DOMAIN received = 1 .. Len(received)
      /\ DOMAIN messageQueue = 1 .. Len(messageQueue)
      /\ \A i \in 1 .. Len(received) : received[i].number = i
      /\ \A i \in 1 .. Len(messageQueue) : messageQueue[i] = received[d + i]
      /\ Filed(stored, received, d) /\ stored \in Seq(Stored)
  BY LenProperties DEF FileInv, Flushes
<1> HIDE DEF d
<1>2. DOMAIN stored = 1 .. Len(stored) /\ Len(stored) \in Nat
  BY <1>1, LenProperties
<1>3. ASSUME NEW m \in PlainFlushed
      PROVE  \E a \in 1 .. d : m = received[a] /\ m.number = a /\ ~m.redirected
  <2>1. PICK a \in 1 .. Len(received) : m = received[a]
    BY <1>1 DEF PlainFlushed, ToSet
  <2>2. a \in 1 .. d
    <3> SUFFICES ASSUME a \notin 1 .. d PROVE FALSE
      OBVIOUS
    <3>1. a - d \in 1 .. Len(messageQueue) /\ d + (a - d) = a
      BY <1>1
    <3>2. messageQueue[a - d] = m
      BY <1>1, <2>1, <3>1
    <3>3. m \in ToSet(messageQueue)
      BY <1>1, <3>1, <3>2 DEF ToSet
    <3>4. QED
      BY <3>3 DEF PlainFlushed
  <2>3. QED
    BY <1>1, <2>1, <2>2 DEF PlainFlushed
<1>4. ASSUME NEW m \in PlainFlushed
      PROVE  /\ StoredAs(m) # {}
             /\ \A i \in StoredAs(m) : stored[i].buffer = m.target
  <2>1. PICK a \in 1 .. d : m = received[a] /\ m.number = a /\ ~m.redirected
    BY <1>3
  <2>2. StoredAs(m) # {}
    BY <1>1, <2>1 DEF Filed, StoredAs
  <2>3. ASSUME NEW i \in StoredAs(m) PROVE stored[i].buffer = m.target
    <3>1. i \in DOMAIN stored /\ stored[i].msg = m
      BY DEF StoredAs
    <3>2. PICK o \in 1 .. d : /\ stored[i].msg = received[o]
                              /\ ~received[o].redirected => stored[i].buffer = received[o].target
      BY <1>1, <3>1 DEF Filed
    <3>3. QED
      BY <2>1, <3>1, <3>2
  <2>4. QED
    BY <2>2, <2>3
<1>5. ASSUME NEW m \in PlainFlushed, NEW o \in PlainFlushed, m.number < o.number
      PROVE  First(m) < First(o)
  <2>1. PICK c \in 1 .. d : m = received[c] /\ m.number = c /\ ~m.redirected
    BY <1>3
  <2>2. PICK b \in 1 .. d : o = received[b] /\ o.number = b /\ ~o.redirected
    BY <1>3
  <2> DEFINE j == First(o)
  <2>3. j \in StoredAs(o)
    BY <1>1, <1>4, FirstIsLeast
  <2> HIDE DEF j
  <2>4. j \in DOMAIN stored /\ stored[j].msg = o
    BY <2>3 DEF StoredAs
  <2>5. PICK a \in 1 .. d :
          /\ stored[j].msg = received[a]
          /\ \A e \in 1 .. a - 1 :
               ~received[e].redirected => \E i \in 1 .. j - 1 : stored[i].msg = received[e]
    BY <1>1, <2>4 DEF Filed
  <2>6. a = b
    <3>1. a \in 1 .. Len(received) /\ received[a] = o
      BY <1>1, <2>4, <2>5
    <3>2. received[a].number = a
      BY <1>1, <3>1
    <3>3. QED
      BY <2>2, <3>1, <3>2
  <2>7. c \in 1 .. a - 1
    BY <1>5, <2>1, <2>2, <2>6
  <2>8. PICK i \in 1 .. j - 1 : stored[i].msg = m
    BY <2>1, <2>5, <2>7
  <2>9. i \in StoredAs(m) /\ i < j /\ i \in Nat /\ j \in Nat
    BY <1>2, <2>4, <2>8 DEF StoredAs
  <2>10. First(m) <= i /\ First(m) \in StoredAs(m)
    BY <1>1, <2>9, FirstIsLeast
  <2>11. First(m) \in Nat
    BY <1>2, <2>10 DEF StoredAs
  <2>12. QED
    BY <2>9, <2>10, <2>11 DEF j
<1>6. QED
  BY <1>4, <1>5 DEF PlainInPlace

\* For any buffers, any rows of messages and any order of events, every message that was
\* not redirected is stored once it has left the queue: in its target's buffer, whatever
\* the recheck does to the batch it is in, and in the order of arrival.
THEOREM PlainInPlaceHolds == MessageSpec => []PlainInPlace
<1>1. MessageInit => FileInv
  <2>1. Known0 \in SUBSET Names
    BY MessagesAssumption DEF Names
  <2>2. << >> \in Seq(RawMessages) /\ << >> \in Seq(Stored) /\ Len(<< >>) = 0
        /\ 1 .. 0 = {} /\ DOMAIN << >> = {}
    OBVIOUS
  <2>3. Filed(<< >>, << >>, 0)
    BY <2>2 DEF Filed
  <2>4. MessageInit => Flushes = 0
    BY <2>2 DEF MessageInit, Flushes
  <2>5. QED
    BY <2>1, <2>2, <2>3, <2>4 DEF MessageInit, FileInv
<1>2. QED
  BY <1>1, FileStep, FiledInPlace, PTL DEF MessageSpec

-----------------------------------------------------------------------------
(* The order of delivery is the order of registration. *)

\* A list of handlers in which those of one event stand in the order of registration,
\* and their events are among the first n types of keys.
Ranked(list, keys, n) ==
  /\ \A i \in DOMAIN list : \E m \in 1 .. n : Registered[list[i]].event = keys[m]
  /\ \A i, j \in DOMAIN list :
       i < j /\ Registered[list[i]].event = Registered[list[j]].event => list[i] < list[j]

\* what one pass of insertHandlers does with a registration
Inserted(acc, h, key, checkDupes) ==
  IF Registered[h].event # key \/ (checkDupes /\ Known(acc, h)) THEN acc ELSE InsertOne(acc, h)

LEMMA HandlersAre == Len(Registered) \in Nat /\ Handlers = 1 .. Len(Registered)
BY EventManagerAssumption, LenProperties DEF Handlers

LEMMA InsertedType ==
  ASSUME NEW acc \in Seq(Handlers), NEW h \in Handlers, NEW key, NEW checkDupes
  PROVE  Inserted(acc, h, key, checkDupes) \in Seq(Handlers)
BY DEF Inserted, InsertOne

\* f holds the handlers after each registration of a pass.
Passes(f, list, key, dupes) ==
  /\ f[0] = list
  /\ \A h \in 1 .. Len(Registered) : f[h] = Inserted(f[h - 1], h, key, dupes)
  /\ f[Len(Registered)] = InsertHandlers(list, key, dupes)

LEMMA InsertFold ==
  ASSUME NEW list \in Seq(Handlers), NEW key, NEW dupes
  PROVE  \E f \in [0 .. Len(Registered) -> Seq(Handlers)] : Passes(f, list, key, dupes)
<1> DEFINE n == Len(Registered)
           D == Seq(Handlers)
           Op(acc, h) == Inserted(acc, h, key, dupes)
           step == [i \in 1 .. n |-> [d \in D |-> Op(d, i)]]
           Sol(h) == h = [s \in SUBSET (1 .. n) |->
                            IF s = {} THEN list ELSE Op(h[s \ {Max(s)}], Max(s))]
           iter == CHOOSE h : Sol(h)
<1>1. n \in Nat /\ DOMAIN Registered = 1 .. n /\ Handlers = 1 .. n
  BY HandlersAre DEF Handlers
<1>2. InsertHandlers(list, key, dupes) = iter[1 .. n]
  <2> DEFINE id == [i \in DOMAIN Registered |-> i]
  <2>1. DOMAIN id = 1 .. n /\ \A i \in 1 .. n : id[i] = i
    BY <1>1
  <2>2. InsertHandlers(list, key, dupes) =
          FoldLeft(LAMBDA acc, h : Inserted(acc, h, key, dupes), list, id)
    BY DEF InsertHandlers, FoldLeftDomain, Inserted
  <2> DEFINE Sol2(h) == h = [s \in SUBSET (1 .. n) |->
                            IF s = {} THEN list
                            ELSE Inserted(h[s \ {Max(s)}], id[Max(s)], key, dupes)]
  <2>3. FoldLeft(LAMBDA acc, h : Inserted(acc, h, key, dupes), list, id)
          = (CHOOSE h : Sol2(h))[1 .. n]
    BY <2>1 DEF FoldLeft, MapThenFoldSet
  <2>4. ASSUME NEW h PROVE Sol(h) <=> Sol2(h)
    <3>1. \A s \in SUBSET (1 .. n) : s # {} => id[Max(s)] = Max(s)
      BY <1>1, <2>1, MaxOf
    <3> HIDE DEF id
    <3>2. [s \in SUBSET (1 .. n) |->
                            IF s = {} THEN list
                            ELSE Inserted(h[s \ {Max(s)}], id[Max(s)], key, dupes)]
          = [s \in SUBSET (1 .. n) |->
                            IF s = {} THEN list ELSE Op(h[s \ {Max(s)}], Max(s))]
      BY <3>1
    <3>3. QED
      BY <3>2
  <2>5. (CHOOSE h : Sol2(h)) = iter
    <3> HIDE DEF Sol, Sol2
    <3>1. QED
      BY <2>4
  <2> HIDE DEF Sol2
  <2>6. QED
    BY <2>2, <2>3, <2>5
<1>3. step \in [1 .. n -> [D -> D]] /\ \A i \in 1 .. n : \A d \in D : step[i][d] = Op(d, i)
  BY <1>1, InsertedType
<1> HIDE DEF n, step, D, Op
<1>4. PICK h \in [SUBSET (1 .. n) -> D] : Folds(h, list, n, step)
  <2> HIDE DEF Sol, iter
  <2>1. n \in Nat /\ list \in D /\ step \in [1 .. n -> [D -> D]]
    BY <1>1, <1>3 DEF D
  <2>2. QED
    BY <2>1, SubsetRecursion
<1>5. \A s \in SUBSET (1 .. n) : s # {} => h[s] = Op(h[s \ {Max(s)}], Max(s))
  <2> SUFFICES ASSUME NEW s \in SUBSET (1 .. n), s # {}
               PROVE  h[s] = Op(h[s \ {Max(s)}], Max(s))
    OBVIOUS
  <2>1. Max(s) \in 1 .. n
    BY <1>1, MaxOf
  <2>2. h[s \ {Max(s)}] \in D
    OBVIOUS
  <2>3. QED
    BY <1>3, <1>4, <2>1, <2>2 DEF Folds
<1>6. Sol(h)
  BY <1>4, <1>5 DEF Folds
<1>7. Sol(iter)
  <2> HIDE DEF Sol
  <2>1. QED
    BY <1>6
<1> HIDE DEF iter
<1>8. iter[{}] = list /\ \A i \in 1 .. n : iter[1 .. i] = Op(iter[1 .. i - 1], i)
  <2>1. iter[{}] = list
    BY <1>7
  <2>2. ASSUME NEW i \in 1 .. n PROVE iter[1 .. i] = Op(iter[1 .. i - 1], i)
    <3>1. Max(1 .. i) = i /\ (1 .. i) \ {i} = 1 .. i - 1 /\ 1 .. i # {}
      BY <1>1, MaxUpTo
    <3>2. 1 .. i \in SUBSET (1 .. n)
      BY <1>1
    <3>3. iter[1 .. i] = Op(iter[(1 .. i) \ {Max(1 .. i)}], Max(1 .. i))
      BY <1>7, <3>1, <3>2
    <3>4. QED
      BY <3>1, <3>3
  <2>3. QED
    BY <2>1, <2>2
<1> DEFINE f == [i \in 0 .. n |-> iter[1 .. i]]
           G == {i \in Nat : i <= n => f[i] \in D}
<1>9. f[0] = list /\ (\A i \in 1 .. n : f[i] = Op(f[i - 1], i)) /\ f[n] = iter[1 .. n]
  BY <1>1, <1>8
<1>10. \A i \in Nat : i \in G
  <2>1. 0 \in G
    BY <1>9 DEF D
  <2>2. ASSUME NEW i \in Nat, i \in G PROVE i + 1 \in G
    <3> SUFFICES ASSUME i + 1 <= n PROVE f[i + 1] \in D
      OBVIOUS
    <3>1. i + 1 \in 1 .. n /\ (i + 1) - 1 = i /\ i <= n
      BY <1>1
    <3>2. f[i] \in D
      BY <2>2, <3>1
    <3>3. f[i + 1] = Op(f[i], i + 1)
      <4> HIDE DEF f
      <4>1. QED
        BY <1>9, <3>1
    <3>4. QED
      BY <1>1, <3>1, <3>2, <3>3, InsertedType DEF D, Op
  <2> HIDE DEF G
  <2>3. QED
    BY <2>1, <2>2, CountingUp
<1>11. f \in [0 .. n -> D]
  <2>1. \A i \in 0 .. n : i \in Nat /\ i <= n
    BY <1>1
  <2>2. \A i \in 0 .. n : f[i] \in D
    <3> HIDE DEF f
    <3>1. QED
      BY <1>10, <2>1
  <2>3. QED
    BY <2>2
<1>12. QED
  <2> HIDE DEF f
  <2>1. QED
    BY <1>2, <1>9, <1>11 DEF n, D, Op, Passes

LEMMA InsertHandlersType ==
  ASSUME NEW list \in Seq(Handlers), NEW key, NEW dupes
  PROVE  InsertHandlers(list, key, dupes) \in Seq(Handlers)
<1>1. Len(Registered) \in 0 .. Len(Registered)
  BY HandlersAre
<1>2. QED
  BY <1>1, InsertFold DEF Passes

\* The passes for one event, from its most special type to the most generic one.
LEMMA HandlersFold ==
  ASSUME NEW k \in Kinds
  PROVE  \E f \in [0 .. Len(Keys[k]) -> Seq(Handlers)] :
           /\ f[0] = << >>
           /\ \A i \in 1 .. Len(Keys[k]) : f[i] = InsertHandlers(f[i - 1], Keys[k][i], i > 1)
           /\ f[Len(Keys[k])] = HandlersOf[k]
<1> DEFINE n == Len(Keys[k])
           list == << >>
           D == Seq(Handlers)
           Op(acc, i) == InsertHandlers(acc, Keys[k][i], i > 1)
           step == [i \in 1 .. n |-> [d \in D |-> Op(d, i)]]
           Sol(h) == h = [s \in SUBSET (1 .. n) |->
                            IF s = {} THEN list ELSE Op(h[s \ {Max(s)}], Max(s))]
           iter == CHOOSE h : Sol(h)
<1>1. n \in Nat /\ DOMAIN Keys[k] = 1 .. n
  BY EventManagerAssumption, LenProperties
<1>2. HandlersOf[k] = iter[1 .. n]
  <2> DEFINE id == [i \in DOMAIN Keys[k] |-> i]
  <2>1. DOMAIN id = 1 .. n /\ \A i \in 1 .. n : id[i] = i
    BY <1>1
  <2>2. HandlersOf[k] =
          FoldLeft(LAMBDA acc, i : InsertHandlers(acc, Keys[k][i], i > 1), list, id)
    BY DEF HandlersOf, FoldLeftDomain
  <2> DEFINE Sol2(h) == h = [s \in SUBSET (1 .. n) |->
                            IF s = {} THEN list
                            ELSE InsertHandlers(h[s \ {Max(s)}], Keys[k][id[Max(s)]], id[Max(s)] > 1)]
  <2>3. FoldLeft(LAMBDA acc, i : InsertHandlers(acc, Keys[k][i], i > 1), list, id)
          = (CHOOSE h : Sol2(h))[1 .. n]
    BY <2>1 DEF FoldLeft, MapThenFoldSet
  <2>4. ASSUME NEW h PROVE Sol(h) <=> Sol2(h)
    <3>1. \A s \in SUBSET (1 .. n) : s # {} => id[Max(s)] = Max(s)
      BY <1>1, <2>1, MaxOf
    <3> HIDE DEF id
    <3>2. [s \in SUBSET (1 .. n) |->
                            IF s = {} THEN list
                            ELSE InsertHandlers(h[s \ {Max(s)}], Keys[k][id[Max(s)]], id[Max(s)] > 1)]
          = [s \in SUBSET (1 .. n) |->
                            IF s = {} THEN list ELSE Op(h[s \ {Max(s)}], Max(s))]
      BY <3>1
    <3>3. QED
      BY <3>2
  <2>5. (CHOOSE h : Sol2(h)) = iter
    <3> HIDE DEF Sol, Sol2
    <3>1. QED
      BY <2>4
  <2> HIDE DEF Sol2
  <2>6. QED
    BY <2>2, <2>3, <2>5
<1>3. step \in [1 .. n -> [D -> D]] /\ \A i \in 1 .. n : \A d \in D : step[i][d] = Op(d, i)
  BY <1>1, InsertHandlersType
<1> HIDE DEF n, step, D, Op, list
<1>4. PICK h \in [SUBSET (1 .. n) -> D] : Folds(h, list, n, step)
  <2> HIDE DEF Sol, iter
  <2>1. n \in Nat /\ list \in D /\ step \in [1 .. n -> [D -> D]]
    BY <1>1, <1>3 DEF D, list
  <2>2. QED
    BY <2>1, SubsetRecursion
<1>5. \A s \in SUBSET (1 .. n) : s # {} => h[s] = Op(h[s \ {Max(s)}], Max(s))
  <2> SUFFICES ASSUME NEW s \in SUBSET (1 .. n), s # {}
               PROVE  h[s] = Op(h[s \ {Max(s)}], Max(s))
    OBVIOUS
  <2>1. Max(s) \in 1 .. n
    BY <1>1, MaxOf
  <2>2. h[s \ {Max(s)}] \in D
    OBVIOUS
  <2>3. QED
    BY <1>3, <1>4, <2>1, <2>2 DEF Folds
<1>6. Sol(h)
  BY <1>4, <1>5 DEF Folds
<1>7. Sol(iter)
  <2> HIDE DEF Sol
  <2>1. QED
    BY <1>6
<1> HIDE DEF iter
<1>8. iter[{}] = list /\ \A i \in 1 .. n : iter[1 .. i] = Op(iter[1 .. i - 1], i)
  <2>1. iter[{}] = list
    BY <1>7
  <2>2. ASSUME NEW i \in 1 .. n PROVE iter[1 .. i] = Op(iter[1 .. i - 1], i)
    <3>1. Max(1 .. i) = i /\ (1 .. i) \ {i} = 1 .. i - 1 /\ 1 .. i # {}
      BY <1>1, MaxUpTo
    <3>2. 1 .. i \in SUBSET (1 .. n)
      BY <1>1
    <3>3. iter[1 .. i] = Op(iter[(1 .. i) \ {Max(1 .. i)}], Max(1 .. i))
      BY <1>7, <3>1, <3>2
    <3>4. QED
      BY <3>1, <3>3
  <2>3. QED
    BY <2>1, <2>2
<1> DEFINE f == [i \in 0 .. n |-> iter[1 .. i]]
           G == {i \in Nat : i <= n => f[i] \in D}
<1>9. f[0] = list /\ (\A i \in 1 .. n : f[i] = Op(f[i - 1], i)) /\ f[n] = iter[1 .. n]
  BY <1>1, <1>8
<1>10. \A i \in Nat : i \in G
  <2>1. 0 \in G
    <3>1. list \in D
      BY DEF D, list
    <3>2. QED
      BY <1>9, <3>1
  <2>2. ASSUME NEW i \in Nat, i \in G PROVE i + 1 \in G
    <3> SUFFICES ASSUME i + 1 <= n PROVE f[i + 1] \in D
      OBVIOUS
    <3>1. i + 1 \in 1 .. n /\ (i + 1) - 1 = i /\ i <= n
      BY <1>1
    <3>2. f[i] \in D
      BY <2>2, <3>1
    <3>3. f[i + 1] = Op(f[i], i + 1)
      <4> HIDE DEF f
      <4>1. QED
        BY <1>9, <3>1
    <3>4. QED
      BY <1>1, <3>1, <3>2, <3>3, InsertHandlersType DEF D, Op
  <2> HIDE DEF G
  <2>3. QED
    BY <2>1, <2>2, CountingUp
<1>11. f \in [0 .. n -> D]
  <2>1. \A i \in 0 .. n : i \in Nat /\ i <= n
    BY <1>1
  <2>2. \A i \in 0 .. n : f[i] \in D
    <3> HIDE DEF f
    <3>1. QED
      BY <1>10, <2>1
  <2>3. QED
    BY <2>2
<1>12. QED
  <2> HIDE DEF f
  <2>1. QED
    BY <1>2, <1>9, <1>11 DEF n, D, Op, list

\* A handler added by the pass for the next type stands behind those of its event.
LEMMA InsertedRanked ==
  ASSUME NEW acc \in Seq(Handlers), NEW keys, NEW n \in Nat, NEW h \in Handlers,
         NEW dupes, Ranked(acc, keys, n + 1),
         \A i \in DOMAIN acc : Registered[acc[i]].event = keys[n + 1] => acc[i] < h
  PROVE  LET c == Inserted(acc, h, keys[n + 1], dupes)
         IN /\ Ranked(c, keys, n + 1)
            /\ \A i \in DOMAIN c : Registered[c[i]].event = keys[n + 1] => c[i] < h + 1
<1>1. /\ Len(acc) \in Nat /\ DOMAIN acc = 1 .. Len(acc) /\ Handlers \subseteq Nat
      /\ \A i \in DOMAIN acc : acc[i] \in Handlers
  BY HandlersAre, LenProperties, ElementOfSeq
<1>2. CASE Inserted(acc, h, keys[n + 1], dupes) = acc
  <2>1. \A i \in DOMAIN acc : Registered[acc[i]].event = keys[n + 1] => acc[i] < h + 1
    BY <1>1
  <2>2. QED
    BY <1>2, <2>1
<1>3. CASE Registered[h].event = keys[n + 1]
           /\ Inserted(acc, h, keys[n + 1], dupes) = Append(acc, h)
  <2> DEFINE c == Append(acc, h)
  <2>1. /\ DOMAIN c = 1 .. Len(acc) + 1 /\ c[Len(acc) + 1] = h
        /\ \A i \in 1 .. Len(acc) : c[i] = acc[i]
    BY <1>1, AppendProperties, LenProperties
  <2> HIDE DEF c
  <2>2. ASSUME NEW i \in DOMAIN c
        PROVE  \/ i \in DOMAIN acc /\ c[i] = acc[i]
               \/ i = Len(acc) + 1 /\ c[i] = h
    BY <1>1, <2>1
  <2>3. \A i \in DOMAIN c : \E m \in 1 .. n + 1 : Registered[c[i]].event = keys[m]
    <3>1. n + 1 \in 1 .. n + 1
      OBVIOUS
    <3>2. QED
      BY <1>3, <2>2, <3>1 DEF Ranked
  <2>4. ASSUME NEW i \in DOMAIN c, NEW j \in DOMAIN c, i < j,
               Registered[c[i]].event = Registered[c[j]].event
        PROVE  c[i] < c[j]
    <3>1. i \in DOMAIN acc /\ c[i] = acc[i]
      BY <1>1, <2>1, <2>2, <2>4
    <3>2. CASE j \in DOMAIN acc /\ c[j] = acc[j]
      BY <2>4, <3>1, <3>2 DEF Ranked
    <3>3. CASE c[j] = h
      BY <1>3, <2>4, <3>1, <3>3
    <3>4. QED
      BY <2>2, <3>2, <3>3
  <2>5. ASSUME NEW i \in DOMAIN c, Registered[c[i]].event = keys[n + 1]
        PROVE  c[i] < h + 1
    <3>1. h \in Nat /\ \A m \in DOMAIN acc : acc[m] \in Nat
      BY <1>1
    <3>2. CASE c[i] = h
      BY <3>1, <3>2
    <3>3. CASE i \in DOMAIN acc /\ c[i] = acc[i]
      <4>1. acc[i] < h
        BY <2>5, <3>3
      <4>2. QED
        BY <3>1, <3>3, <4>1
    <3>4. QED
      BY <2>2, <3>2, <3>3
  <2>6. QED
    BY <1>3, <2>3, <2>4, <2>5 DEF Ranked, c
<1>4. QED
  BY <1>2, <1>3 DEF Inserted, InsertOne

\* A whole pass for the next type of the event keeps the order.
LEMMA InsertRanked ==
  ASSUME NEW list \in Seq(Handlers), NEW keys \in Seq(STRING), NEW n \in Nat,
         n + 1 \in 1 .. Len(keys), IsInjective(keys), NEW dupes, Ranked(list, keys, n)
  PROVE  Ranked(InsertHandlers(list, keys[n + 1], dupes), keys, n + 1)
<1> DEFINE N == Len(Registered)
           key == keys[n + 1]
           Before(acc, h) == /\ Ranked(acc, keys, n + 1)
                             /\ \A i \in DOMAIN acc : Registered[acc[i]].event = key => acc[i] < h
<1>1. N \in Nat /\ Handlers = 1 .. N
  BY HandlersAre
<1>p. PICK f \in [0 .. N -> Seq(Handlers)] : Passes(f, list, key, dupes)
  BY InsertFold
<1>2. /\ f[0] = list
      /\ \A h \in 1 .. N : f[h] = Inserted(f[h - 1], h, key, dupes)
      /\ f[N] = InsertHandlers(list, key, dupes)
  BY <1>p DEF Passes
<1>3. Before(list, 1)
  <2>1. \A m \in 1 .. n : keys[m] # key
    <3>1. DOMAIN keys = 1 .. Len(keys) /\ Len(keys) \in Nat
      BY LenProperties
    <3>2. ASSUME NEW m \in 1 .. n PROVE keys[m] # key
      <4>1. m \in DOMAIN keys /\ n + 1 \in DOMAIN keys /\ m # n + 1
        BY <3>1
      <4>2. QED
        BY <4>1 DEF IsInjective
    <3>3. QED
      BY <3>2
  <2>2. \A i \in DOMAIN list : Registered[list[i]].event # key
    BY <2>1 DEF Ranked
  <2>3. 1 .. n \subseteq 1 .. n + 1
    OBVIOUS
  <2>4. Ranked(list, keys, n + 1)
    BY <2>3 DEF Ranked
  <2>5. QED
    BY <2>2, <2>4
<1> DEFINE G == {h \in Nat : h <= N => Before(f[h], h + 1)}
<1>4. 0 \in G
  BY <1>2, <1>3
<1>5. ASSUME NEW h \in Nat, h \in G PROVE h + 1 \in G
  <2> SUFFICES ASSUME h + 1 <= N PROVE Before(f[h + 1], (h + 1) + 1)
    OBVIOUS
  <2>1. h + 1 \in 1 .. N /\ (h + 1) - 1 = h /\ h \in 0 .. N /\ h <= N
    BY <1>1
  <2>2. f[h] \in Seq(Handlers) /\ Before(f[h], h + 1)
    BY <1>2, <1>5, <2>1
  <2>3. f[h + 1] = Inserted(f[h], h + 1, key, dupes)
    BY <1>2, <2>1
  <2>4. QED
    BY <1>1, <2>1, <2>2, <2>3, InsertedRanked
<1> HIDE DEF G
<1>6. N \in G
  BY <1>1, <1>4, <1>5, CountingUp
<1>7. QED
  BY <1>1, <1>2, <1>6 DEF G

\* The handlers of one event see it in the order in which they were registered.
LEMMA HandlersRanked ==
  ASSUME NEW k \in Kinds
  PROVE  /\ HandlersOf[k] \in Seq(Handlers)
         /\ Ranked(HandlersOf[k], Keys[k], Len(Keys[k]))
<1> DEFINE n == Len(Keys[k])
<1>1. n \in Nat /\ Keys[k] \in Seq(STRING) /\ IsInjective(Keys[k])
  BY EventManagerAssumption, LenProperties
<1>2. PICK f \in [0 .. n -> Seq(Handlers)] :
        /\ f[0] = << >>
        /\ \A i \in 1 .. n : f[i] = InsertHandlers(f[i - 1], Keys[k][i], i > 1)
        /\ f[n] = HandlersOf[k]
  BY HandlersFold
<1> DEFINE G == {i \in Nat : i <= n => Ranked(f[i], Keys[k], i)}
<1> HIDE DEF n
<1>3. 0 \in G
  BY <1>2 DEF Ranked
<1>4. ASSUME NEW i \in Nat, i \in G PROVE i + 1 \in G
  <2> SUFFICES ASSUME i + 1 <= n PROVE Ranked(f[i + 1], Keys[k], i + 1)
    OBVIOUS
  <2>1. i + 1 \in 1 .. n /\ (i + 1) - 1 = i /\ i \in 0 .. n /\ i <= n
    BY <1>1
  <2>2. f[i] \in Seq(Handlers) /\ Ranked(f[i], Keys[k], i)
    BY <1>2, <1>4, <2>1
  <2>3. f[i + 1] = InsertHandlers(f[i], Keys[k][i + 1], i + 1 > 1)
    BY <1>2, <2>1
  <2>4. QED
    BY <1>1, <2>1, <2>2, <2>3, InsertRanked DEF n
<1> HIDE DEF G
<1>5. n \in G
  BY <1>1, <1>3, <1>4, CountingUp
<1>6. n \in 0 .. n /\ n <= n
  BY <1>1
<1>7. QED
  BY <1>2, <1>5, <1>6 DEF G, n

\* The log of a dispatch keeps the order of its handlers.
LogInv ==
  /\ DOMAIN log \subseteq Nat
  /\ \A i \in DOMAIN log : log[i].handler \in Handlers
  /\ \A i, j \in DOMAIN log :
       i < j /\ Registered[log[i].handler].event = Registered[log[j].handler].event
         => log[i].handler < log[j].handler

LEMMA DispatchLogs ==
  ASSUME NEW q \in Seq(Events), q # << >>, NEW c, NEW w, ProcessEvents(q, c, w)
  PROVE  LogInv'
<1> DEFINE list == HandlersOf[Head(q).kind]
<1>1. PICK run \in Runs(list) : log' = Deliveries(run)
  BY DEF ProcessEvents
<1>2. Head(q).kind \in Kinds
  <2>1. Head(q) \in Events
    BY HeadTailProperties
  <2>2. QED
    BY <2>1 DEF Events
<1>3. list \in Seq(Handlers) /\ Ranked(list, Keys[Head(q).kind], Len(Keys[Head(q).kind]))
  BY <1>2, HandlersRanked
<1> HIDE DEF list
<1>4. /\ Len(list) \in Nat /\ DOMAIN list = 1 .. Len(list)
      /\ \A i \in DOMAIN list : list[i] \in Handlers
  BY <1>3, LenProperties, ElementOfSeq
<1>5. DOMAIN run.ran \subseteq DOMAIN list /\ \A i \in DOMAIN run.ran : run.ran[i] = list[i]
  <2>1. CASE run.ran = list
    BY <2>1
  <2>2. CASE \E i \in DOMAIN list : run.ran = SubSeq(list, 1, i)
    <3>1. PICK i \in DOMAIN list : run.ran = SubSeq(list, 1, i)
      BY <2>2
    <3>2. /\ i \in Int /\ 1 \in Int /\ 1 <= i /\ i - 1 + 1 = i
          /\ \A m \in 1 .. i : m \in DOMAIN list /\ 1 + m - 1 = m /\ list[m] \in Handlers
      BY <1>4
    <3>3. /\ SubSeq(list, 1, i) \in Seq(Handlers) /\ Len(SubSeq(list, 1, i)) = i
          /\ \A m \in 1 .. i : SubSeq(list, 1, i)[m] = list[m]
      BY <3>2, SubSeqProperties
    <3>4. DOMAIN SubSeq(list, 1, i) = 1 .. i
      BY <3>3, LenProperties
    <3>5. QED
      BY <3>1, <3>2, <3>3, <3>4
  <2>3. QED
    BY <2>1, <2>2 DEF Runs
<1>6. DOMAIN log' = DOMAIN run.ran /\ \A i \in DOMAIN log' : log'[i].handler = run.ran[i]
  BY <1>1 DEF Deliveries
<1>7. DOMAIN log' \subseteq DOMAIN list /\ \A i \in DOMAIN log' : log'[i].handler = list[i]
  BY <1>5, <1>6
<1>8. QED
  BY <1>3, <1>4, <1>7 DEF LogInv, Ranked

LEMMA LogStep == IInv /\ LogInv /\ [Next]_vars => LogInv'
<1> SUFFICES ASSUME IInv, LogInv, [Next]_vars PROVE LogInv'
  OBVIOUS
<1>1. ASSUME log' = log PROVE LogInv'
  BY <1>1 DEF LogInv
<1>2. ASSUME NEW k \in External, SendEvent(k) PROVE LogInv'
  <2> DEFINE q == Append(queue, [number |-> sent + 1, kind |-> k])
  <2>1. q \in Seq(Events) /\ q # << >>
    <3>1. Holds(q, done, sent + 1) /\ q # << >>
      BY EventManagerAssumption, AppendHolds DEF IInv
    <3>2. QED
      BY <3>1 DEF Holds
  <2>2. ProcessEvents(q, sent + 1, posted) \/ log' = log
    BY <1>2 DEF SendEvent
  <2> HIDE DEF q
  <2>3. QED
    BY <1>1, <2>1, <2>2, DispatchLogs
<1>3. CASE CustomEvent
  <2>1. queue \in Seq(Events)
    BY DEF IInv, Holds
  <2>2. \/ queue # << >> /\ ProcessEvents(queue, sent, posted - 1)
        \/ log' = log
    BY <1>3 DEF CustomEvent
  <2>3. QED
    BY <1>1, <2>1, <2>2, DispatchLogs
<1>4. QED
  BY <1>1, <1>2, <1>3 DEF Next, vars

\* For any kinds of events, priorities and further registrations: as long as the session
\* registers its objects in the right order, none of their handlers sees an event before
\* one that must see it first, wherever a handler stops the event.
THEOREM StateBeforeTextHolds == Spec => []StateBeforeText
<1>1. Init => LogInv
  BY DEF Init, LogInv
<1>2. LogInv => StateBeforeText
  BY RegisteredInOrder DEF LogInv, StateBeforeText, Misplaced
<1>3. QED
  BY <1>1, <1>2, InvHolds, LogStep, PTL DEF Spec

\* What is proved of the event manager holds of the session that runs on it.
LEMMA MessagesRefine == MessageSpec => Spec
<1>1. MessageInit => Init
  BY DEF MessageInit
<1>2. QED
  BY <1>1, MessageStep, PTL DEF MessageSpec, Spec
=============================================================================
