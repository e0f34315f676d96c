---------------------------- MODULE NetworkQueueProofs -------------------------
(* Theorems about the two queues of a CoreNetwork: SendQueue, for every bucket  *)
(* size and every bound, and AutoWho, for every set of channels and any number  *)
(* of queries.                                                                  *)
EXTENDS SendQueueFifo, AutoWho, FiniteSetTheorems, SequenceTheorems, WellFoundedInduction, TLAPS

-----------------------------------------------------------------------------
(* SendQueue *)

\* What the handlers keep: each line written on an open connection is paid for
\* with a token, each token comes from the full bucket or from a tick.  Between
\* connections nothing is written and the stale bucket says nothing.
IInv ==
  /\ tokens \in Int /\ ticks \in Nat /\ next \in Nat
  /\ queue \in Seq(Nat) /\ wire \in Seq(Nat)
  /\ open \in BOOLEAN
  /\ open => tokens \in 0 .. Burst /\ Len(wire) + tokens <= Burst + ticks
  /\ ~open => wire = << >>

\* The timer sends at most what is queued and at most what the bucket holds.
LEMMA SendableBounds ==
  ASSUME NEW filled \in Int, queue \in Seq(Nat)
  PROVE  /\ Sendable(filled) \in Nat
         /\ Sendable(filled) <= Len(queue)
         /\ filled >= 0 => Sendable(filled) <= filled
BY DEF Sendable

\* The lines of the registration that fit the bucket.
LEMMA FirstLinesBounds ==
  ASSUME next \in Nat
  PROVE  /\ FirstLines \in Seq(Nat) /\ Len(FirstLines) = Direct
         /\ Direct \in Nat /\ Direct <= Burst /\ Direct <= Registration
         /\ Registering \in Seq(Nat) /\ Len(Registering) = Registration
<1>1. Registering \in Seq(Nat) /\ Len(Registering) = Registration
  BY SendQueueAssumption DEF Registering
<1>2. Direct \in Nat /\ Direct <= Burst /\ Direct <= Registration
  BY SendQueueAssumption DEF Direct
<1>3. QED
  BY <1>1, <1>2, SendQueueAssumption DEF FirstLines

\* A line written is one line longer a wire.
LEMMA OneLine ==
  ASSUME wire \in Seq(Nat), next \in Nat
  PROVE  wire \o <<next>> \in Seq(Nat) /\ Len(wire \o <<next>>) = Len(wire) + 1
<1>1. <<next>> \in Seq(Nat) /\ Len(<<next>>) = 1
  OBVIOUS
<1>2. QED
  BY <1>1, ConcatProperties

\* Every step keeps the books.
LEMMA InvStep == IInv /\ [Next]_vars => IInv'
<1> SUFFICES ASSUME IInv, [Next]_vars
             PROVE  IInv'
  OBVIOUS
<1> USE SendQueueAssumption
<1>1. CASE PutRawLine
  <2>1. CASE MayWrite
    <3>1. /\ wire' = IF open THEN wire \o <<next>> ELSE wire
          /\ tokens' = tokens - 1 /\ tokens > 0
          /\ UNCHANGED <<queue, open, ticks>> /\ next' = next + 1
      BY <1>1, <2>1 DEF PutRawLine, WriteToSocket, MayWrite
    <3>2. QED
      BY <3>1, OneLine DEF IInv
  <2>2. CASE ~MayWrite
    <3>1. queue' = Append(queue, next) /\ UNCHANGED <<wire, tokens, open, ticks>> /\ next' = next + 1
      BY <1>1, <2>2 DEF PutRawLine
    <3>2. QED
      BY <3>1, AppendProperties DEF IInv
  <2>3. QED
    BY <2>1, <2>2
<1>2. CASE FillBucketAndProcessQueue
  <2> DEFINE filled == Filled
             n == Sendable(filled)
             sent == SubSeq(queue, 1, n)
  <2>1. filled \in Int /\ filled <= tokens + 1 /\ (tokens >= 0 => filled >= 0)
        /\ (tokens <= Burst => filled <= Burst)
    BY DEF IInv, Filled
  <2>2. n \in Nat /\ n <= Len(queue) /\ (filled >= 0 => n <= filled)
    BY <2>1, SendableBounds DEF IInv
  <2>3. sent \in Seq(Nat) /\ Len(sent) = n /\ Rest(n) \in Seq(Nat)
    <3>1. queue \in Seq(Nat) /\ Len(queue) \in Nat
      BY LenProperties DEF IInv
    <3>2. \A i \in 1 .. Len(queue) : queue[i] \in Nat
      BY <3>1, ElementOfSeq
    <3> HIDE DEF n
    <3>3. sent \in Seq(Nat) /\ Len(sent) = n
      BY <2>2, <3>1, <3>2, SubSeqProperties
    <3>4. Rest(n) \in Seq(Nat)
      BY <2>2, <3>1, <3>2, SubSeqProperties DEF Rest
    <3>5. QED
      BY <3>3, <3>4
  <2>4. /\ wire' = IF open THEN wire \o sent ELSE wire
        /\ queue' = Rest(n) /\ tokens' = filled - n /\ ticks' = ticks + 1
        /\ open' = open /\ next' = next
    BY <1>2 DEF FillBucketAndProcessQueue
  <2> HIDE DEF filled, n, sent
  <2>5. Len(wire \o sent) = Len(wire) + n /\ wire \o sent \in Seq(Nat)
    BY <2>3, ConcatProperties DEF IInv
  <2>6. QED
    BY <2>1, <2>2, <2>3, <2>4, <2>5 DEF IInv
<1>3. CASE SocketInitialized
  <2>1. next \in Nat
    BY DEF IInv
  <2>2. SubSeq(Registering, Direct + 1, Registration) \in Seq(Nat)
    BY <2>1, FirstLinesBounds, SubSeqProperties
  <2>3. queue' \in Seq(Nat)
    BY <1>3, <2>2, ConcatProperties DEF SocketInitialized, IInv
  <2>4. /\ open' = TRUE /\ tokens' = Burst - Direct /\ ticks' = 0
        /\ wire' = FirstLines /\ next' = next + Registration
    BY <1>3 DEF SocketInitialized
  <2>5. QED
    BY <2>1, <2>3, <2>4, FirstLinesBounds DEF IInv
<1>4. CASE SocketDisconnected
  <2>1. /\ open' = FALSE /\ queue' = << >> /\ wire' = << >>
        /\ UNCHANGED <<tokens, next, ticks>>
    BY <1>4 DEF SocketDisconnected
  <2>2. << >> \in Seq(Nat)
    OBVIOUS
  <2>3. QED
    BY <2>1, <2>2 DEF IInv
<1>5. CASE DisconnectFromIrc
  <2>1. CASE open /\ MayWrite
    <3>1. /\ wire' = wire \o <<next>> /\ queue' = << >>
          /\ tokens' = tokens - 1 /\ tokens > 0
          /\ UNCHANGED <<open, ticks>> /\ next' = next + 1
      BY <1>5, <2>1 DEF DisconnectFromIrc, WriteToSocket, MayWrite
    <3>2. << >> \in Seq(Nat) /\ open
      BY <2>1
    <3>3. QED
      BY <3>1, <3>2, OneLine DEF IInv
  <2>2. CASE open /\ ~MayWrite
    <3>1. queue' = <<next>> /\ UNCHANGED <<wire, tokens, open, ticks>> /\ next' = next + 1
      BY <1>5, <2>2 DEF DisconnectFromIrc
    <3>2. <<next>> \in Seq(Nat)
      BY DEF IInv
    <3>3. QED
      BY <3>1, <3>2 DEF IInv
  <2>3. CASE ~open
    <3>1. queue' = << >> /\ UNCHANGED <<wire, tokens, open, ticks, next>>
      BY <1>5, <2>3 DEF DisconnectFromIrc
    <3>2. << >> \in Seq(Nat)
      OBVIOUS
    <3>3. QED
      BY <3>1, <3>2 DEF IInv
  <2>4. QED
    BY <2>1, <2>2, <2>3
<1>6. CASE UNCHANGED vars
  BY <1>6 DEF vars, IInv
<1>7. QED
  BY <1>1, <1>2, <1>3, <1>4, <1>5, <1>6 DEF Next

\* Flood protection holds for every burst size, any number of lines, and any
\* interleaving of user input, the timer, quits and reconnects.
THEOREM FloodBoundHolds == Spec => []FloodBound
<1>1. Init => IInv
  <2>1. << >> \in Seq(Nat)
    OBVIOUS
  <2>2. ASSUME Init PROVE tokens \in Int
    BY <2>2, SendQueueAssumption DEF Init
  <2>3. ASSUME Init PROVE /\ ticks = 0 /\ next = 1 /\ open = FALSE
                         /\ queue = << >> /\ wire = << >>
    BY <2>3 DEF Init
  <2>4. QED
    BY <2>1, <2>2, <2>3 DEF IInv
<1>2. IInv => FloodBound
  <2>1. Len(<< >>) = 0
    OBVIOUS
  <2>2. QED
    BY <2>1, SendQueueAssumption, LenProperties DEF IInv, FloodBound
<1>3. QED
  BY <1>1, <1>2, InvStep, PTL DEF Spec

-----------------------------------------------------------------------------
\* The registration that was written directly stays at the head of the wire: handlers
\* only append, and connecting starts from an empty wire, whatever waits in the queue.
Headed ==
  /\ born \in Nat
  /\ open => /\ Direct <= Len(wire)
             /\ \A i \in 1 .. Direct : wire[i] >= born

\* Lines that are added leave the head as it is.
LEMMA HeadStays ==
  ASSUME wire \in Seq(Nat), Direct \in Nat, Direct <= Len(wire),
         NEW more \in Seq(Nat), \A i \in 1 .. Direct : wire[i] >= born
  PROVE  /\ Direct <= Len(wire \o more)
         /\ \A i \in 1 .. Direct : (wire \o more)[i] >= born
<1>1. Len(wire \o more) = Len(wire) + Len(more) /\ Len(wire) \in Nat /\ Len(more) \in Nat
  BY ConcatProperties, LenProperties
<1>2. \A i \in 1 .. Len(wire) : (wire \o more)[i] = wire[i]
  BY <1>1, ConcatProperties
<1>3. QED
  BY <1>1, <1>2

\* Every step keeps the head.
LEMMA HeadedStep == IInv /\ Headed /\ [Next]_vars => Headed'
<1> SUFFICES ASSUME IInv, Headed, [Next]_vars
             PROVE  Headed'
  OBVIOUS
<1> USE SendQueueAssumption
<1>0. wire \in Seq(Nat) /\ queue \in Seq(Nat) /\ next \in Nat /\ open \in BOOLEAN /\ Direct \in Nat
  BY FirstLinesBounds DEF IInv
<1>a. Direct' = Direct
  BY DEF Direct
<1>b. ASSUME NEW more \in Seq(Nat), wire' = (IF open THEN wire \o more ELSE wire),
             UNCHANGED <<open, born>>
      PROVE  Headed'
  <2>1. CASE open
    <3>1. wire' = wire \o more
      BY <1>b, <2>1
    <3>2. Direct <= Len(wire') /\ \A i \in 1 .. Direct : wire'[i] >= born
      BY <1>0, <2>1, <3>1, HeadStays DEF Headed
    <3>3. QED
      BY <1>a, <1>b, <3>2 DEF Headed
  <2>2. CASE ~open
    BY <1>b, <2>2 DEF Headed
  <2>3. QED
    BY <1>0, <2>1, <2>2
<1>c. ASSUME UNCHANGED <<wire, open, born>> PROVE Headed'
  BY <1>a, <1>c DEF Headed
<1>d. <<next>> \in Seq(Nat)
  BY <1>0
<1>1. CASE PutRawLine
  <2>1. \/ wire' = (IF open THEN wire \o <<next>> ELSE wire)
        \/ wire' = wire
    BY <1>1 DEF PutRawLine, WriteToSocket
  <2>2. UNCHANGED <<open, born>>
    BY <1>1 DEF PutRawLine
  <2>3. QED
    BY <1>b, <1>c, <1>d, <2>1, <2>2
<1>2. CASE FillBucketAndProcessQueue
  <2> DEFINE n == Sendable(Filled)
             sent == SubSeq(queue, 1, n)
  <2>1. Filled \in Int
    BY DEF IInv, Filled
  <2>2. n \in Nat /\ n <= Len(queue)
    BY <1>0, <2>1, SendableBounds
  <2>3. wire' = (IF open THEN wire \o sent ELSE wire) /\ UNCHANGED <<open, born>>
    BY <1>2 DEF FillBucketAndProcessQueue
  <2> HIDE DEF n
  <2>4. \A i \in 1 .. Len(queue) : queue[i] \in Nat
    BY <1>0, ElementOfSeq
  <2>5. sent \in Seq(Nat)
    BY <1>0, <2>2, <2>4, SubSeqProperties
  <2>6. QED
    BY <1>b, <2>3, <2>5
<1>3. CASE SocketInitialized
  <2>1. /\ wire' = FirstLines /\ born' = next
    BY <1>3 DEF SocketInitialized
  <2>2. \A i \in 1 .. Direct : FirstLines[i] = next + i - 1
    BY <1>0, FirstLinesBounds DEF FirstLines, Registering
  <2>3. QED
    BY <1>0, <1>a, <2>1, <2>2, FirstLinesBounds DEF Headed
<1>4. CASE SocketDisconnected
  BY <1>0, <1>4 DEF SocketDisconnected, Headed
<1>5. CASE DisconnectFromIrc
  <2>1. \/ wire' = (IF open THEN wire \o <<next>> ELSE wire)
        \/ wire' = wire
    BY <1>5 DEF DisconnectFromIrc, WriteToSocket
  <2>2. UNCHANGED <<open, born>>
    BY <1>5 DEF DisconnectFromIrc
  <2>3. QED
    BY <1>b, <1>c, <1>d, <2>1, <2>2
<1>6. CASE UNCHANGED vars
  BY <1>6, <1>c DEF vars
<1>7. QED
  BY <1>1, <1>2, <1>3, <1>4, <1>5, <1>6 DEF Next

\* No line left over from before a connection, or from before it was made, goes out
\* ahead of the part of the registration that a full bucket pays for.
THEOREM RegistersFirstHolds == Spec => []RegistersFirst
<1>1. Init => IInv /\ Headed
  <2>1. << >> \in Seq(Nat)
    OBVIOUS
  <2>2. ASSUME Init PROVE tokens \in Int
    BY <2>2, SendQueueAssumption DEF Init
  <2>3. ASSUME Init PROVE /\ ticks = 0 /\ next = 1 /\ born = 1 /\ open = FALSE
                         /\ queue = << >> /\ wire = << >>
    BY <2>3 DEF Init
  <2>4. QED
    BY <2>1, <2>2, <2>3 DEF IInv, Headed
<1>2. IInv /\ Headed => RegistersFirst
  <2> SUFFICES ASSUME IInv, Headed, NEW i \in 1 .. Len(wire), wire[i] < born
               PROVE  i > Direct
    BY DEF RegistersFirst
  <2>1. wire \in Seq(Nat) /\ Direct \in Nat /\ open \in BOOLEAN
    BY FirstLinesBounds DEF IInv
  <2>2. wire[i] \in Nat /\ born \in Nat
    BY <2>1, ElementOfSeq DEF Headed
  <2>3. CASE open
    BY <2>1, <2>2, <2>3 DEF Headed
  <2>4. CASE ~open
    BY <2>4 DEF IInv
  <2>5. QED
    BY <2>1, <2>3, <2>4
<1>3. QED
  BY <1>1, <1>2, InvStep, HeadedStep, PTL DEF Spec

-----------------------------------------------------------------------------
\* Induction on the naturals, for the members of a set.
LEMMA CountingUp ==
  ASSUME NEW G, 0 \in G, \A n \in Nat : n \in G => n + 1 \in G
  PROVE  \A n \in Nat : n \in G
<1> DEFINE Missed == Nat \ G
<1> SUFFICES ASSUME Missed # {} PROVE FALSE
  OBVIOUS
<1>1. PICK n \in Missed : \A m \in Missed : ~(<<m, n>> \in OpToRel(<, Nat))
  <2>1. Missed \subseteq Nat
    OBVIOUS
  <2>2. QED
    BY <2>1, NatLessThanWellFounded, WFMin
<1>2. n \in Nat /\ n \notin G
  OBVIOUS
<1>3. n # 0
  BY <1>2
<1>4. n - 1 \in Nat
  BY <1>2, <1>3
<1>5. n - 1 \notin G
  BY <1>2, <1>4
<1>6. <<n - 1, n>> \in OpToRel(<, Nat)
  BY <1>2, <1>4 DEF OpToRel
<1>7. QED
  BY <1>1, <1>4, <1>5, <1>6

\* A recursion over a finite range has a solution.
LEMMA Recursion ==
  ASSUME NEW D, NEW base \in D, NEW n \in Nat, NEW step \in [1 .. n -> [D -> D]]
  PROVE  \E f \in [0 .. n -> D] :
           f[0] = base /\ \A i \in 1 .. n : f[i] = step[i][f[i - 1]]
<1> DEFINE Good(m, f) == f[0] = base /\ \A i \in 1 .. m : f[i] = step[i][f[i - 1]]
           G == {m \in Nat : m <= n => \E f \in [0 .. m -> D] : Good(m, f)}
<1>1. 0 \in G
  <2>1. [i \in 0 .. 0 |-> base] \in [0 .. 0 -> D] /\ Good(0, [i \in 0 .. 0 |-> base])
    OBVIOUS
  <2>2. QED
    BY <2>1
<1>2. ASSUME NEW m \in Nat, m \in G PROVE m + 1 \in G
  <2> SUFFICES ASSUME m + 1 <= n
               PROVE  \E f \in [0 .. m + 1 -> D] : Good(m + 1, f)
    OBVIOUS
  <2>1. PICK f \in [0 .. m -> D] : Good(m, f)
    BY <1>2
  <2> DEFINE g == [i \in 0 .. m + 1 |-> IF i <= m THEN f[i] ELSE step[m + 1][f[m]]]
  <2>2. f[m] \in D /\ m + 1 \in 1 .. n
    OBVIOUS
  <2>3. step[m + 1][f[m]] \in D
    BY <2>2
  <2>4. g \in [0 .. m + 1 -> D]
    BY <2>3
  <2>5. g[0] = base
    BY <2>1
  <2>6. ASSUME NEW i \in 1 .. m + 1 PROVE g[i] = step[i][g[i - 1]]
    <3>1. CASE i = m + 1
      <4>1. g[i] = step[m + 1][f[m]] /\ g[m] = f[m] /\ i - 1 = m
        BY <3>1
      <4>2. QED
        BY <3>1, <4>1
    <3>2. CASE i # m + 1
      <4>1. i \in 1 .. m /\ i - 1 \in 0 .. m /\ i - 1 <= m /\ i \in 0 .. m + 1 /\ i - 1 \in 0 .. m + 1
        BY <3>2
      <4>2. f[i] = step[i][f[i - 1]]
        BY <4>1, <2>1
      <4>3. QED
        BY <4>1, <4>2
    <3>3. QED
      BY <3>1, <3>2
  <2>7. QED
    BY <2>4, <2>5, <2>6
<1>3. n \in G
  BY <1>1, <1>2, CountingUp
<1>4. QED
  BY <1>3

LEMMA SinceDef ==
  ASSUME NEW first \in Nat, NEW s \in Seq(Nat)
  PROVE  \E f \in [0 .. Len(s) -> Seq(Nat)] :
           /\ f[0] = << >>
           /\ \A i \in 1 .. Len(s) :
                f[i] = IF s[i] >= first THEN Append(f[i - 1], s[i]) ELSE f[i - 1]
           /\ Since(first, s) = f[Len(s)]
<1> DEFINE n == Len(s)
           D == Seq(Nat)
           e == << >>
           More(i, d) == IF s[i] >= first THEN Append(d, s[i]) ELSE d
           step == [i \in 1 .. n |-> [d \in D |-> More(i, d)]]
           Sol(f) == f = [i \in 0 .. n |-> IF i = 0 THEN e ELSE More(i, f[i - 1])]
           kept == CHOOSE f : Sol(f)
<1>1. n \in Nat /\ e \in D /\ \A i \in 1 .. n : \A d \in D : More(i, d) \in D
  OBVIOUS
<1>2. Since(first, s) = kept[n]
  BY DEF Since
<1> HIDE DEF D, n, e, More
<1>3. step \in [1 .. n -> [D -> D]] /\ \A i \in 1 .. n : \A d \in D : step[i][d] = More(i, d)
  BY <1>1
<1> HIDE DEF step, kept, Sol
<1>4. PICK f \in [0 .. n -> D] : f[0] = e /\ \A i \in 1 .. n : f[i] = step[i][f[i - 1]]
  <2>1. n \in Nat /\ e \in D /\ step \in [1 .. n -> [D -> D]]
    BY <1>1, <1>3
  <2>2. QED
    BY <2>1, Recursion, SMTT(60)
<1>5. \A i \in 1 .. n : f[i] = More(i, f[i - 1])
  BY <1>1, <1>3, <1>4
<1>6. Sol(f)
  BY <1>1, <1>4, <1>5 DEF Sol
<1>7. Sol(kept)
  BY <1>6 DEF kept
<1>8. kept[0] = e /\ \A i \in 1 .. n : kept[i] = More(i, kept[i - 1])
  BY <1>1, <1>7 DEF Sol
<1>9. kept[n] = f[n]
  <2> DEFINE G == {m \in Nat : m <= n => kept[m] = f[m]}
  <2>1. 0 \in G
    BY <1>1, <1>4, <1>8
  <2>2. ASSUME NEW m \in Nat, m \in G PROVE m + 1 \in G
    <3> SUFFICES ASSUME m + 1 <= n PROVE kept[m + 1] = f[m + 1]
      OBVIOUS
    <3>1. kept[m] = f[m] /\ m + 1 \in 1 .. n /\ (m + 1) - 1 = m
      BY <2>2, <1>1
    <3>2. QED
      BY <1>5, <1>8, <3>1
  <2>3. n \in G
    <3> HIDE DEF G
    <3>1. QED
      BY <1>1, <2>1, <2>2, CountingUp
  <2>4. QED
    BY <1>1, <2>3
<1>10. QED
  BY <1>2, <1>4, <1>5, <1>9 DEF D, n, e, More

LEMMA AppendToConcat ==
  \A s, t \in Seq(Nat) : \A e \in Nat : Append(s \o t, e) = s \o Append(t, e)
<1> SUFFICES ASSUME NEW s \in Seq(Nat), NEW t \in Seq(Nat), NEW e \in Nat
             PROVE  Append(s \o t, e) = s \o Append(t, e)
  OBVIOUS
<1>1. <<e>> \in Seq(Nat) /\ s \o t \in Seq(Nat)
  BY ConcatProperties
<1>2. Append(s \o t, e) = (s \o t) \o <<e>> /\ Append(t, e) = t \o <<e>>
  BY <1>1, AppendIsConcat
<1>3. QED
  BY <1>1, <1>2, ConcatAssociative

\* Of two sequences one after the other it keeps what it keeps of each.
LEMMA SinceConcat ==
  ASSUME NEW first \in Nat, NEW s \in Seq(Nat), NEW t \in Seq(Nat)
  PROVE  /\ Since(first, s) \in Seq(Nat)
         /\ Since(first, s \o t) = Since(first, s) \o Since(first, t)
<1> DEFINE m == Len(s)
           n == Len(t)
           u == s \o t
<1>1. m \in Nat /\ n \in Nat
  OBVIOUS
<1>2. u \in Seq(Nat) /\ Len(u) = m + n
  BY ConcatProperties
<1>3. (\A i \in 1 .. m : u[i] = s[i]) /\ (\A i \in 1 .. n : u[m + i] = t[i] /\ t[i] \in Nat)
  BY <1>1, ConcatProperties
<1> HIDE DEF m, n, u
<1>4. PICK f \in [0 .. m -> Seq(Nat)] :
        /\ f[0] = << >>
        /\ \A i \in 1 .. m : f[i] = IF s[i] >= first THEN Append(f[i - 1], s[i]) ELSE f[i - 1]
        /\ Since(first, s) = f[m]
  BY SinceDef DEF m
<1>5. PICK g \in [0 .. n -> Seq(Nat)] :
        /\ g[0] = << >>
        /\ \A i \in 1 .. n : g[i] = IF t[i] >= first THEN Append(g[i - 1], t[i]) ELSE g[i - 1]
        /\ Since(first, t) = g[n]
  BY SinceDef DEF n
<1>6. PICK h \in [0 .. m + n -> Seq(Nat)] :
        /\ h[0] = << >>
        /\ \A i \in 1 .. m + n : h[i] = IF u[i] >= first THEN Append(h[i - 1], u[i]) ELSE h[i - 1]
        /\ Since(first, u) = h[m + n]
  <2>1. \E h \in [0 .. Len(u) -> Seq(Nat)] :
          /\ h[0] = << >>
          /\ \A i \in 1 .. Len(u) : h[i] = IF u[i] >= first THEN Append(h[i - 1], u[i]) ELSE h[i - 1]
          /\ Since(first, u) = h[Len(u)]
    BY <1>2, SinceDef
  <2>2. QED
    BY <1>2, <2>1
<1>7. h[m] = f[m]
  <2> DEFINE G == {i \in Nat : i <= m => h[i] = f[i]}
  <2>1. 0 \in G
    BY <1>4, <1>6
  <2>2. ASSUME NEW i \in Nat, i \in G PROVE i + 1 \in G
    <3> SUFFICES ASSUME i + 1 <= m PROVE h[i + 1] = f[i + 1]
      OBVIOUS
    <3>1. h[i] = f[i] /\ i + 1 \in 1 .. m /\ i + 1 \in 1 .. m + n /\ (i + 1) - 1 = i
      BY <1>1, <2>2
    <3>2. u[i + 1] = s[i + 1]
      BY <1>3, <3>1
    <3>3. f[i + 1] = IF s[i + 1] >= first THEN Append(f[i], s[i + 1]) ELSE f[i]
      BY <1>4, <3>1
    <3>4. h[i + 1] = IF u[i + 1] >= first THEN Append(h[i], u[i + 1]) ELSE h[i]
      BY <1>6, <3>1
    <3>5. QED
      BY <3>1, <3>2, <3>3, <3>4
  <2>3. m \in G
    <3> HIDE DEF G
    <3>1. QED
      BY <1>1, <2>1, <2>2, CountingUp
  <2>4. QED
    BY <1>1, <2>3
<1>8. h[m + n] = f[m] \o g[n]
  <2> DEFINE Joined(i) == h[m + i] = f[m] \o g[i]
             G == {i \in Nat : i <= n => Joined(i)}
  <2>0. f[m] \in Seq(Nat)
    BY <1>1, <1>4
  <2>1. 0 \in G
    <3>1. f[m] \o << >> = f[m] /\ m + 0 = m
      BY <1>1, <2>0, ConcatEmptySeq
    <3>2. QED
      BY <3>1, <1>5, <1>7
  <2>2. ASSUME NEW i \in Nat, i \in G PROVE i + 1 \in G
    <3> HIDE DEF Joined
    <3> SUFFICES ASSUME i + 1 <= n PROVE Joined(i + 1)
      OBVIOUS
    <3> DEFINE e == t[i + 1]
    <3>0. i <= n /\ Joined(i)
      BY <1>1, <2>2
    <3>1. /\ h[m + i] = f[m] \o g[i] /\ i + 1 \in 1 .. n /\ m + (i + 1) \in 1 .. m + n
          /\ (m + (i + 1)) - 1 = m + i /\ (i + 1) - 1 = i /\ i \in 0 .. n
      BY <1>1, <3>0 DEF Joined
    <3>2. u[m + (i + 1)] = e /\ e \in Nat /\ g[i] \in Seq(Nat)
      BY <1>3, <1>5, <3>1
    <3>3. g[i + 1] = IF e >= first THEN Append(g[i], e) ELSE g[i]
      BY <1>5, <3>1
    <3>4. h[m + (i + 1)] = IF e >= first THEN Append(f[m] \o g[i], e) ELSE f[m] \o g[i]
      BY <1>6, <3>1, <3>2
    <3> HIDE DEF e
    <3>5. Append(f[m] \o g[i], e) = f[m] \o Append(g[i], e)
      BY <2>0, <3>2, AppendToConcat
    <3>6. QED
      BY <3>3, <3>4, <3>5 DEF Joined
  <2>3. n \in G
    <3> HIDE DEF G
    <3>1. QED
      BY <1>1, <2>1, <2>2, CountingUp
  <2>4. QED
    BY <1>1, <2>3
<1>9. Since(first, s) \in Seq(Nat)
  BY <1>1, <1>4
<1>10. QED
  BY <1>4, <1>5, <1>6, <1>7, <1>8, <1>9 DEF u

\* It keeps nothing of the leftovers, and all of the connection's own lines.
LEMMA SinceOld ==
  ASSUME NEW first \in Nat, NEW s \in Seq(Nat), \A i \in 1 .. Len(s) : s[i] < first
  PROVE  Since(first, s) = << >>
<1>1. PICK f \in [0 .. Len(s) -> Seq(Nat)] :
        /\ f[0] = << >>
        /\ \A i \in 1 .. Len(s) : f[i] = IF s[i] >= first THEN Append(f[i - 1], s[i]) ELSE f[i - 1]
        /\ Since(first, s) = f[Len(s)]
  BY SinceDef
<1>2. \A i \in 1 .. Len(s) : f[i] = f[i - 1]
  <2>1. \A i \in 1 .. Len(s) : ~(s[i] >= first)
    BY ElementOfSeq
  <2>2. QED
    BY <1>1, <2>1
<1> DEFINE G == {i \in Nat : i <= Len(s) => f[i] = << >>}
<1>3. 0 \in G
  BY <1>1
<1>4. ASSUME NEW i \in Nat, i \in G PROVE i + 1 \in G
  BY <1>2, <1>4
<1>5. Len(s) \in Nat
  OBVIOUS
<1>6. Len(s) \in G
  <2> HIDE DEF G
  <2>1. QED
    BY <1>3, <1>4, <1>5, CountingUp
<1>7. QED
  BY <1>1, <1>5, <1>6

LEMMA SinceOwn ==
  ASSUME NEW first \in Nat, NEW s \in Seq(Nat), \A i \in 1 .. Len(s) : s[i] >= first
  PROVE  Since(first, s) = s
<1>1. PICK f \in [0 .. Len(s) -> Seq(Nat)] :
        /\ f[0] = << >>
        /\ \A i \in 1 .. Len(s) : f[i] = IF s[i] >= first THEN Append(f[i - 1], s[i]) ELSE f[i - 1]
        /\ Since(first, s) = f[Len(s)]
  BY SinceDef
<1>2. \A i \in 1 .. Len(s) : f[i] = Append(f[i - 1], s[i])
  BY <1>1
<1> DEFINE G == {i \in Nat : i <= Len(s) => /\ Len(f[i]) = i
                                             /\ \A j \in 1 .. i : f[i][j] = s[j]}
<1>3. 0 \in G
  BY <1>1
<1>4. ASSUME NEW i \in Nat, i \in G PROVE i + 1 \in G
  <2> SUFFICES ASSUME i + 1 <= Len(s)
               PROVE  Len(f[i + 1]) = i + 1 /\ \A j \in 1 .. i + 1 : f[i + 1][j] = s[j]
    OBVIOUS
  <2>1. f[i] \in Seq(Nat) /\ Len(f[i]) = i /\ (\A j \in 1 .. i : f[i][j] = s[j]) /\ s[i + 1] \in Nat
    BY <1>4, ElementOfSeq
  <2>2. f[i + 1] = Append(f[i], s[i + 1])
    BY <1>2
  <2>3. QED
    BY <2>1, <2>2, AppendProperties
<1>5. Len(s) \in Nat
  OBVIOUS
<1>6. Len(s) \in G
  <2> HIDE DEF G
  <2>1. QED
    BY <1>3, <1>4, <1>5, CountingUp
<1>7. f[Len(s)] \in Seq(Nat) /\ Len(f[Len(s)]) = Len(s) /\ \A j \in 1 .. Len(s) : f[Len(s)][j] = s[j]
  BY <1>5, <1>6
<1>8. QED
  BY <1>1, <1>7, SeqEqual

-----------------------------------------------------------------------------
\* While a connection is open the queue holds leftovers first and own lines behind them,
\* and own lines wait only for an empty bucket: so nothing is written directly past them,
\* and a tick, which fills one token, writes at most one of them.
Split(old, own) ==
  /\ old \in Seq(Nat) /\ own \in Seq(Nat) /\ queue = old \o own
  /\ \A i \in 1 .. Len(old) : old[i] < born
  /\ \A i \in 1 .. Len(own) : own[i] >= born
  /\ own # << >> => tokens = 0

Layered ==
  /\ born \in Nat /\ born <= next
  /\ \A i \in 1 .. Len(queue) : queue[i] < next
  /\ open => \E old, own \in Seq(Nat) : Split(old, own)

\* Every element of a longer queue is an old one or the new one.
LEMMA Appended ==
  ASSUME NEW s \in Seq(Nat), NEW e \in Nat
  PROVE  /\ Append(s, e) \in Seq(Nat)
         /\ \A i \in 1 .. Len(Append(s, e)) :
              Append(s, e)[i] = e \/ (i \in 1 .. Len(s) /\ Append(s, e)[i] = s[i])
<1> DEFINE t == Append(s, e)
<1>1. /\ t \in Seq(Nat) /\ Len(t) = Len(s) + 1 /\ Len(s) \in Nat
      /\ \A i \in 1 .. Len(s) : t[i] = s[i]
      /\ t[Len(s) + 1] = e
  BY AppendProperties
<1> HIDE DEF t
<1>2. ASSUME NEW i \in 1 .. Len(t) PROVE t[i] = e \/ (i \in 1 .. Len(s) /\ t[i] = s[i])
  <2>1. CASE i = Len(s) + 1
    BY <1>1, <2>1
  <2>2. CASE i # Len(s) + 1
    <3>1. i \in 1 .. Len(s)
      BY <1>1, <2>2
    <3>2. QED
      BY <1>1, <3>1
  <2>3. QED
    BY <2>1, <2>2
<1>3. QED
  BY <1>1, <1>2 DEF t

LEMMA NewestLast ==
  ASSUME NEW s \in Seq(Nat), NEW n \in Nat, \A i \in 1 .. Len(s) : s[i] < n
  PROVE  \A i \in 1 .. Len(Append(s, n)) : Append(s, n)[i] < n + 1
<1>1. \A i \in 1 .. Len(s) : s[i] < n /\ s[i] \in Nat
  BY ElementOfSeq
<1>2. \A i \in 1 .. Len(Append(s, n)) : Append(s, n)[i] = n \/ (i \in 1 .. Len(s) /\ Append(s, n)[i] = s[i])
  BY Appended
<1>3. QED
  BY <1>1, <1>2

\* What a split queue looks like to the abstract specification.
LEMMA SplitOwn ==
  ASSUME NEW old, NEW own, born \in Nat, open, Split(old, own)
  PROVE  Own(queue) = own
<1>1. Since(born, old) = << >> /\ Since(born, own) = own
  BY SinceOld, SinceOwn DEF Split
<1>2. Since(born, old \o own) = << >> \o own
  <2>1. old \in Seq(Nat) /\ own \in Seq(Nat)
    BY DEF Split
  <2>2. Since(born, old \o own) = Since(born, old) \o Since(born, own)
    BY <2>1, SinceConcat
  <2>3. QED
    BY <1>1, <2>2
<1>3. QED
  BY <1>2, ConcatEmptySeq DEF Split, Own

\* Writing one own line, or leftovers only.
LEMMA WriteOwn ==
  ASSUME born \in Nat, wire \in Seq(Nat), NEW l \in Nat, l >= born
  PROVE  Since(born, wire \o <<l>>) = Append(Since(born, wire), l)
<1> DEFINE s == <<l>>
<1>1. s \in Seq(Nat) /\ \A i \in 1 .. Len(s) : s[i] >= born
  OBVIOUS
<1>2. Append(Since(born, wire), l) = Since(born, wire) \o s
  <2>1. Since(born, wire) \in Seq(Nat)
    BY SinceConcat
  <2>2. QED
    BY <2>1, AppendIsConcat
<1> HIDE DEF s
<1>3. Since(born, s) = s
  BY <1>1, SinceOwn
<1>4. Since(born, wire \o s) = Since(born, wire) \o Since(born, s)
  BY <1>1, SinceConcat
<1>5. QED
  BY <1>2, <1>3, <1>4 DEF s

LEMMA WriteOld ==
  ASSUME born \in Nat, wire \in Seq(Nat), NEW s \in Seq(Nat), \A i \in 1 .. Len(s) : s[i] < born
  PROVE  Since(born, wire \o s) = Since(born, wire)
<1>1. Since(born, s) = << >>
  BY SinceOld
<1>2. Since(born, wire) \in Seq(Nat)
  BY SinceConcat
<1>3. Since(born, wire \o s) = Since(born, wire) \o Since(born, s)
  BY SinceConcat
<1>4. Since(born, wire) \o << >> = Since(born, wire)
  BY <1>2, ConcatEmptySeq
<1>5. QED
  BY <1>1, <1>3, <1>4

\* The abstract step, or stutter, behind each step of the bucket and the queue.
Maps == Layered' /\ [Fifo!Next]_<<open, Own(wire), Own(queue), next>>

LEMMA MapsPutRawLine == ASSUME IInv, Layered, PutRawLine PROVE Maps
<1> USE SendQueueAssumption
<1>1. /\ wire \in Seq(Nat) /\ queue \in Seq(Nat) /\ next \in Nat /\ open \in BOOLEAN
      /\ born \in Nat /\ born <= next
  BY DEF IInv, Layered
<1>2. next' = next + 1 /\ open' = open /\ born' = born
  BY DEF PutRawLine
<1>3. CASE ~open
  <2>1. \A i \in 1 .. Len(queue') : queue'[i] < next'
    <3>1. \A i \in 1 .. Len(queue) : queue[i] < next /\ queue[i] \in Nat
      BY <1>1, ElementOfSeq DEF Layered
    <3>2. CASE queue' = queue
      BY <1>1, <1>2, <3>1, <3>2
    <3>3. CASE queue' = Append(queue, next)
      BY <1>1, <1>2, <3>1, <3>3, NewestLast
    <3>4. QED
      BY <3>2, <3>3 DEF PutRawLine
  <2>2. Layered'
    BY <1>1, <1>2, <1>3, <2>1 DEF Layered
  <2>3. Fifo!Issue
    BY <1>2, <1>3 DEF Fifo!Issue, Own
  <2>4. QED
    BY <2>2, <2>3 DEF Maps, Fifo!Next
<1>4. CASE open
  <2>1. PICK old, own \in Seq(Nat) : Split(old, own)
    BY <1>4 DEF Layered
  <2>2. Own(queue) = own
    BY <1>1, <1>4, <2>1, SplitOwn
  <2>3. CASE MayWrite
    <3>1. wire' = wire \o <<next>> /\ queue' = queue
      BY <1>4, <2>3 DEF PutRawLine, WriteToSocket
    <3>2. own = << >>
      BY <1>4, <2>1, <2>3 DEF Split, IInv, MayWrite
    <3>3. Split(old, own)'
      BY <1>2, <2>1, <3>1, <3>2 DEF Split
    <3>4. Layered'
      BY <1>1, <1>2, <3>1, <3>3, ElementOfSeq DEF Layered
    <3>5. Own(wire)' = Append(Own(wire), next) /\ Own(queue)' = Own(queue)
      BY <1>1, <1>2, <1>4, <3>1, WriteOwn DEF Own
    <3>6. Fifo!Issue
      BY <1>2, <1>4, <2>2, <3>2, <3>5 DEF Fifo!Issue, Fifo!Accept
    <3>7. QED
      BY <3>4, <3>6 DEF Maps, Fifo!Next
  <2>4. CASE ~MayWrite
    <3>1. wire' = wire /\ queue' = Append(queue, next) /\ tokens' = tokens
      BY <1>4, <2>4 DEF PutRawLine
    <3>2. tokens = 0
      BY <1>4, <2>4 DEF IInv, MayWrite
    <3>3. PICK more \in Seq(Nat) : more = Append(own, next)
      BY <1>1, Appended
    <3>4. queue' = old \o more
      <4>1. queue = old \o own
        BY <2>1 DEF Split
      <4>2. Append(old \o own, next) = old \o Append(own, next)
        BY ONLY <1>1, old \in Seq(Nat), own \in Seq(Nat), AppendToConcat
      <4>3. QED
        BY <3>1, <3>3, <4>1, <4>2
    <3>5. \A i \in 1 .. Len(more) : more[i] >= born
      <4>1. \A i \in 1 .. Len(own) : own[i] >= born
        BY <2>1 DEF Split
      <4>2. \A i \in 1 .. Len(more) : more[i] = next \/ (i \in 1 .. Len(own) /\ more[i] = own[i])
        BY <1>1, <3>3, Appended
      <4>3. QED
        BY <1>1, <4>1, <4>2
    <3>6. Split(old, more)'
      <4>1. \A i \in 1 .. Len(old) : old[i] < born
        BY <2>1 DEF Split
      <4>2. tokens' = 0
        BY <3>1, <3>2
      <4>3. QED
        BY <1>2, <3>4, <3>5, <4>1, <4>2 DEF Split
    <3>7. \A i \in 1 .. Len(queue') : queue'[i] < next'
      <4>1. \A i \in 1 .. Len(queue) : queue[i] < next
        BY DEF Layered
      <4>2. QED
        BY <1>1, <1>2, <3>1, <4>1, NewestLast
    <3>8. Layered'
      <4>1. born' \in Nat /\ born' <= next'
        BY <1>1, <1>2
      <4>2. QED
        BY <3>6, <3>7, <4>1 DEF Layered
    <3>9. Own(queue)' = more
      <4>1. born' \in Nat /\ open'
        BY <1>1, <1>2, <1>4
      <4>2. Since(born, old) = << >> /\ Since(born, more) = more
        BY <1>1, <2>1, <3>5, SinceOld, SinceOwn DEF Split
      <4>3. Since(born, old \o more) = Since(born, old) \o Since(born, more)
        BY <1>1, SinceConcat
      <4>4. << >> \o more = more
        BY ConcatEmptySeq
      <4>5. QED
        BY <1>2, <3>4, <4>1, <4>2, <4>3, <4>4 DEF Own
    <3>10. Own(wire)' = Own(wire)
      BY <1>2, <3>1 DEF Own
    <3>11. Fifo!Issue
      BY <1>2, <1>4, <2>2, <3>3, <3>9, <3>10 DEF Fifo!Issue, Fifo!Accept
    <3>12. QED
      BY <3>8, <3>11 DEF Maps, Fifo!Next
  <2>5. QED
    BY <2>3, <2>4
<1>5. QED
  BY <1>1, <1>3, <1>4

LEMMA TailOfConcat ==
  ASSUME NEW s \in Seq(Nat), NEW t \in Seq(Nat), s # << >>
  PROVE  Tail(s \o t) = Tail(s) \o t
<1>1. PICK h \in Nat, r \in Seq(Nat) : r = Tail(s) /\ s = <<h>> \o r
  <2>1. Head(s) \in Nat /\ Tail(s) \in Seq(Nat) /\ s = <<Head(s)>> \o Tail(s)
    BY HeadTailProperties
  <2>2. QED
    BY <2>1
<1>2. <<h>> \in Seq(Nat) /\ s \o t \in Seq(Nat) /\ r \o t \in Seq(Nat)
  BY ConcatProperties
<1>3. s \o t = <<h>> \o (r \o t)
  BY <1>1, <1>2, ConcatAssociative
<1>4. \A q \in Seq(Nat) : Tail(<<h>> \o q) = q
  <2>1. SUFFICES ASSUME NEW q \in Seq(Nat) PROVE Tail(<<h>> \o q) = q
    OBVIOUS
  <2> DEFINE a == <<h>>
  <2>2. a \in Seq(Nat) /\ Len(a) = 1 /\ Len(q) \in Nat
    BY LenProperties
  <2> HIDE DEF a
  <2> DEFINE c == a \o q
  <2>3. /\ c \in Seq(Nat) /\ Len(c) = 1 + Len(q)
        /\ \A i \in 1 .. 1 + Len(q) : c[i] = IF i <= 1 THEN a[i] ELSE q[i - 1]
    <3>1. /\ c \in Seq(Nat) /\ Len(c) = Len(a) + Len(q)
          /\ \A i \in 1 .. Len(a) + Len(q) : c[i] = IF i <= Len(a) THEN a[i] ELSE q[i - Len(a)]
      BY <2>2, ConcatProperties
    <3>2. QED
      BY <2>2, <3>1
  <2> HIDE DEF c
  <2>4. c # << >>
    BY <2>2, <2>3, EmptySeq
  <2>5. /\ Tail(c) \in Seq(Nat) /\ Len(Tail(c)) = Len(q)
        /\ \A i \in 1 .. Len(q) : Tail(c)[i] = c[i + 1]
    BY <2>2, <2>3, <2>4, HeadTailProperties
  <2>6. ASSUME NEW i \in 1 .. Len(q) PROVE Tail(c)[i] = q[i]
    <3>1. i + 1 \in 1 .. 1 + Len(q) /\ ~(i + 1 <= 1) /\ (i + 1) - 1 = i
      BY <2>2
    <3>2. c[i + 1] = q[(i + 1) - 1]
      BY <2>3, <3>1
    <3>3. QED
      BY <2>5, <3>1, <3>2
  <2>7. Tail(c) = q
    BY <2>5, <2>6, SeqEqual
  <2>8. QED
    BY <2>7 DEF a, c
<1>5. QED
  BY <1>1, <1>2, <1>3, <1>4

\* A tick writes the front of the queue.
LEMMA MapsTick == ASSUME IInv, Layered, FillBucketAndProcessQueue PROVE Maps
<1> USE SendQueueAssumption
<1> DEFINE n == Sendable(Filled)
<1>1. /\ wire \in Seq(Nat) /\ queue \in Seq(Nat) /\ next \in Nat /\ open \in BOOLEAN
      /\ born \in Nat /\ born <= next
  BY DEF IInv, Layered
<1>3. Filled \in Int /\ n \in Nat /\ n <= Len(queue) /\ Len(queue) \in Nat
  <2>1. Filled \in Int
    BY DEF Filled, IInv
  <2>2. QED
    BY <1>1, <2>1, SendableBounds
<1>4. \A i \in 1 .. Len(queue) : queue[i] \in Nat /\ queue[i] < next
  BY <1>1, ElementOfSeq DEF Layered
<1> HIDE DEF n
<1>5. PICK out \in Seq(Nat) :
        /\ out = SubSeq(queue, 1, n)
        /\ Len(out) = n /\ \A i \in 1 .. n : out[i] = queue[i]
  <2>1. /\ SubSeq(queue, 1, n) \in Seq(Nat)
        /\ Len(SubSeq(queue, 1, n)) = n
        /\ \A i \in 1 .. n : SubSeq(queue, 1, n)[i] = queue[i]
    BY <1>3, <1>4, SubSeqProperties
  <2>2. QED
    BY <2>1
<1>6. PICK kept \in Seq(Nat) :
        /\ kept = SubSeq(queue, n + 1, Len(queue))
        /\ Len(kept) = Len(queue) - n
        /\ \A i \in 1 .. Len(kept) : n + i \in 1 .. Len(queue) /\ kept[i] = queue[n + i]
  <2>1. /\ SubSeq(queue, n + 1, Len(queue)) \in Seq(Nat)
        /\ Len(SubSeq(queue, n + 1, Len(queue))) = Len(queue) - n
        /\ \A i \in 1 .. Len(queue) - n : SubSeq(queue, n + 1, Len(queue))[i] = queue[n + i]
    BY <1>3, <1>4, SubSeqProperties
  <2>2. \A i \in 1 .. Len(queue) - n : n + i \in 1 .. Len(queue)
    BY <1>3
  <2>3. QED
    BY <2>1, <2>2
<1>2. /\ wire' = IF open THEN wire \o out ELSE wire
      /\ queue' = kept /\ tokens' = Filled - n
      /\ UNCHANGED <<open, next, born>>
  BY <1>5, <1>6 DEF FillBucketAndProcessQueue, Rest, n
<1>7. \A i \in 1 .. Len(queue') : queue'[i] < next'
  BY <1>1, <1>2, <1>3, <1>4, <1>6
<1>8. CASE ~open
  <2>1. Layered'
    BY <1>1, <1>2, <1>7, <1>8 DEF Layered
  <2>2. UNCHANGED <<open, Own(wire), Own(queue), next>>
    BY <1>2, <1>8 DEF Own
  <2>3. QED
    BY <2>1, <2>2 DEF Maps
<1>9. CASE open
  <2>1. PICK old, own \in Seq(Nat) : Split(old, own)
    BY <1>9 DEF Layered
  <2>2. Own(queue) = own
    BY <1>1, <1>9, <2>1, SplitOwn
  <2>3. Len(old) \in Nat /\ Len(own) \in Nat /\ Len(queue) = Len(old) + Len(own)
    BY <2>1, ConcatProperties DEF Split
  <2>4. /\ \A i \in 1 .. Len(old) : queue[i] = old[i] /\ old[i] < born
        /\ \A i \in 1 .. Len(own) : queue[Len(old) + i] = own[i] /\ own[i] >= born
    BY <2>1, <2>3, ConcatProperties DEF Split
  <2>5. CASE own = << >>
    <3>1. \A i \in 1 .. Len(queue) : queue[i] < born
      <4>1. Len(<< >>) = 0
        OBVIOUS
      <4>2. Len(queue) = Len(old)
        BY <2>3, <2>5, <4>1
      <4>3. QED
        BY <2>4, <4>2
    <3>2. \A i \in 1 .. Len(out) : out[i] < born
      BY <1>3, <1>5, <3>1
    <3>3. \A i \in 1 .. Len(kept) : kept[i] < born
      BY <1>3, <1>6, <3>1
    <3>4. Split(kept, << >>)'
      <4>1. << >> \in Seq(Nat) /\ kept \o << >> = kept /\ Len(<< >>) = 0
        BY <1>6, ConcatEmptySeq
      <4>2. QED
        BY <1>2, <1>6, <3>3, <4>1 DEF Split
    <3>5. Layered'
      <4>1. << >> \in Seq(Nat)
        OBVIOUS
      <4>2. \E x, y \in Seq(Nat) : Split(x, y)'
        BY <3>4, <4>1
      <4>3. QED
        BY <1>1, <1>2, <1>7, <4>2 DEF Layered
    <3>6. Own(wire)' = Own(wire)
      BY <1>1, <1>2, <1>5, <1>9, <3>2, WriteOld DEF Own
    <3>7. Own(queue)' = Own(queue)
      <4>1. Since(born, kept) = << >>
        BY <1>1, <1>6, <3>3, SinceOld
      <4>2. QED
        BY <1>2, <1>9, <2>2, <2>5, <4>1 DEF Own
    <3>8. QED
      BY <1>2, <3>5, <3>6, <3>7 DEF Maps
  <2>6. CASE own # << >>
    <3>1. tokens = 0 /\ Len(own) > 0
      BY <2>1, <2>6, <2>3 DEF Split
    <3>2. n = 1
      BY <3>1, <2>3 DEF n, Sendable, Filled
    <3>3. tokens' = 0
      BY <1>2, <3>1, <3>2 DEF Filled
    <3>4. out = <<queue[1]>> /\ kept = Tail(queue)
      <4>1. queue # << >> /\ Len(queue) >= 1
        BY <1>1, <2>3, <3>1
      <4>2. Len(out) = 1 /\ out[1] = queue[1]
        BY <1>5, <3>2
      <4>3. kept = Tail(queue)
        BY <1>1, <1>6, <3>2, <4>1, TailIsSubSeq
      <4>4. QED
        BY <4>2, <4>3
    <3>5. CASE old = << >>
      <4>1. queue = own
        BY <2>1, <3>5, ConcatEmptySeq DEF Split
      <4>2. /\ Tail(own) \in Seq(Nat) /\ own[1] \in Nat /\ own[1] >= born
            /\ \A i \in 1 .. Len(Tail(own)) : Tail(own)[i] >= born
        BY <2>3, <2>4, <3>1, <3>5, HeadTailProperties, ElementOfSeq
      <4>3. Split(<< >>, Tail(own))'
        <5>1. << >> \in Seq(Nat) /\ << >> \o Tail(own) = Tail(own) /\ Len(<< >>) = 0
          BY <4>2, ConcatEmptySeq
        <5>2. QED
          BY <1>2, <3>3, <3>4, <4>1, <4>2, <5>1 DEF Split
      <4>4. Layered'
        <5>1. << >> \in Seq(Nat)
          OBVIOUS
        <5>2. \E x, y \in Seq(Nat) : Split(x, y)'
          BY <4>2, <4>3, <5>1
        <5>3. QED
          BY <1>1, <1>2, <1>7, <5>2 DEF Layered
      <4>5. Own(wire)' = Append(Own(wire), own[1])
        BY <1>1, <1>2, <1>9, <3>4, <4>1, <4>2, WriteOwn DEF Own
      <4>6. Own(queue)' = Tail(own)
        <5>1. Since(born, Tail(own)) = Tail(own)
          BY <1>1, <4>2, SinceOwn
        <5>2. QED
          BY <1>2, <1>9, <3>4, <4>1, <5>1 DEF Own
      <4>7. Fifo!Write
        BY <1>2, <2>2, <2>6, <4>5, <4>6 DEF Fifo!Write
      <4>8. QED
        BY <4>4, <4>7 DEF Maps, Fifo!Next
    <3>6. CASE old # << >>
      <4>1. /\ Tail(old) \in Seq(Nat) /\ queue[1] \in Nat /\ queue[1] < born
            /\ \A i \in 1 .. Len(Tail(old)) : Tail(old)[i] < born
        <5>1. /\ Tail(old) \in Seq(Nat) /\ Len(Tail(old)) = Len(old) - 1
              /\ \A i \in 1 .. Len(Tail(old)) : Tail(old)[i] = old[i + 1]
          BY <3>6, HeadTailProperties
        <5>2. Len(old) >= 1
          BY <2>3, <3>6
        <5>3. old[1] \in Nat
          BY <5>2, ElementOfSeq
        <5>4. \A i \in 1 .. Len(Tail(old)) : i + 1 \in 1 .. Len(old)
          BY <2>3, <5>1
        <5>5. QED
          BY <2>3, <2>4, <5>1, <5>2, <5>3, <5>4
      <4>2. kept = Tail(old) \o own
        <5>1. \A s, t \in Seq(Nat) : s # << >> => Tail(s \o t) = Tail(s) \o t
          BY TailOfConcat
        <5>2. QED
          BY <2>1, <3>4, <3>6, <5>1 DEF Split
      <4>3. Split(Tail(old), own)'
        BY <1>2, <2>1, <3>3, <4>1, <4>2 DEF Split
      <4>4. Layered'
        BY <1>1, <1>2, <1>7, <4>1, <4>3 DEF Layered
      <4>5. Own(wire)' = Own(wire)
        <5>1. \A i \in 1 .. Len(out) : out[i] < born
          BY <1>5, <3>2, <4>1
        <5>2. Since(born, wire \o out) = Since(born, wire)
          BY <1>1, <5>1, WriteOld
        <5>3. QED
          BY <1>2, <1>9, <5>2 DEF Own
      <4>6. Own(queue)' = own
        <5>1. Since(born, Tail(old)) = << >> /\ Since(born, own) = own
          BY <1>1, <2>1, <4>1, SinceOld, SinceOwn DEF Split
        <5>2. Since(born, Tail(old) \o own) = Since(born, Tail(old)) \o Since(born, own)
          BY <1>1, <4>1, SinceConcat
        <5>3. << >> \o own = own
          BY ConcatEmptySeq
        <5>4. QED
          BY <1>2, <1>9, <4>2, <5>1, <5>2, <5>3 DEF Own
      <4>7. QED
        BY <1>2, <2>2, <4>4, <4>5, <4>6 DEF Maps
    <3>7. QED
      BY <3>5, <3>6
  <2>7. QED
    BY <2>5, <2>6
<1>10. QED
  BY <1>1, <1>8, <1>9

LEMMA MapsConnect == ASSUME IInv, Layered, SocketInitialized PROVE Maps
<1> USE SendQueueAssumption
<1>1. /\ wire \in Seq(Nat) /\ queue \in Seq(Nat) /\ next \in Nat /\ born \in Nat
  BY DEF IInv, Layered
<1>2. PICK reg \in Seq(Nat) :
        /\ reg = Registering /\ Len(reg) = Registration
        /\ \A i \in 1 .. Registration : reg[i] = next + i - 1
  <2>1. \A i \in 1 .. Registration : Registering[i] = next + i - 1
    BY DEF Registering
  <2>2. QED
    BY <1>1, <2>1, FirstLinesBounds
<1>3. Direct \in Nat /\ Direct <= Burst /\ Direct <= Registration
      /\ (Direct < Registration => Direct = Burst)
  BY DEF Direct
<1>4. \A i \in 1 .. Registration : reg[i] \in Nat
  BY <1>2, ElementOfSeq
<1> HIDE DEF Direct
<1>5. PICK out \in Seq(Nat) :
        out = SubSeq(reg, 1, Direct) /\ Len(out) = Direct /\ \A i \in 1 .. Direct : out[i] = reg[i]
  <2>1. /\ SubSeq(reg, 1, Direct) \in Seq(Nat)
        /\ Len(SubSeq(reg, 1, Direct)) = Direct
        /\ \A i \in 1 .. Direct : SubSeq(reg, 1, Direct)[i] = reg[i]
    BY <1>3, <1>4, SubSeqProperties
  <2>2. QED
    BY <2>1
<1>6. PICK own \in Seq(Nat) :
        /\ own = SubSeq(reg, Direct + 1, Registration) /\ Len(own) = Registration - Direct
        /\ \A i \in 1 .. Len(own) : Direct + i \in 1 .. Registration /\ own[i] = reg[Direct + i]
  <2>1. /\ SubSeq(reg, Direct + 1, Registration) \in Seq(Nat)
        /\ Len(SubSeq(reg, Direct + 1, Registration)) = Registration - Direct
        /\ \A i \in 1 .. Registration - Direct :
             SubSeq(reg, Direct + 1, Registration)[i] = reg[Direct + i]
    BY <1>3, <1>4, SubSeqProperties
  <2>2. \A i \in 1 .. Registration - Direct : Direct + i \in 1 .. Registration
    BY <1>3
  <2>3. QED
    BY <2>1, <2>2
<1>7. /\ ~open /\ open' = TRUE /\ wire' = out /\ queue' = queue \o own
      /\ tokens' = Burst - Direct /\ next' = next + Registration /\ born' = next
  BY <1>2, <1>5, <1>6 DEF SocketInitialized, FirstLines
<1>8. /\ \A i \in 1 .. Len(out) : out[i] >= next
      /\ \A i \in 1 .. Len(own) : own[i] >= next /\ own[i] < next + Registration
  <2>1. \A i \in 1 .. Registration : reg[i] >= next /\ reg[i] < next + Registration
    BY <1>1, <1>2
  <2>2. QED
    BY <1>3, <1>5, <1>6, <2>1
<1>9. \A i \in 1 .. Len(queue) : queue[i] < next
  BY DEF Layered
<1>10. own # << >> => tokens' = 0
  <2> SUFFICES ASSUME own # << >> PROVE tokens' = 0
    OBVIOUS
  <2>1. Direct < Registration
    BY <1>3, <1>6
  <2>2. QED
    BY <1>3, <1>7, <2>1
<1>11. PICK old \in Seq(Nat) : old = queue
  BY <1>1
<1>12. Split(old, own)'
  BY <1>7, <1>8, <1>9, <1>10, <1>11 DEF Split
<1>13. \A i \in 1 .. Len(queue') : queue'[i] < next'
  <2>1. \A i \in 1 .. Len(queue) : queue[i] < next + Registration
    BY <1>1, <1>9, ElementOfSeq
  <2>2. /\ Len(queue') = Len(queue) + Len(own) /\ Len(queue) \in Nat /\ Len(own) \in Nat
        /\ \A i \in 1 .. Len(queue) + Len(own) :
             queue'[i] = IF i <= Len(queue) THEN queue[i] ELSE own[i - Len(queue)]
    BY <1>1, <1>7, ConcatProperties
  <2>3. QED
    BY <1>7, <1>8, <2>1, <2>2
<1>14. Layered'
  <2>1. born' \in Nat /\ born' <= next'
    BY <1>1, <1>7
  <2>2. QED
    BY <1>12, <1>13, <2>1 DEF Layered
<1>15. Own(wire)' = out
  <2>1. Since(next, out) = out
    BY <1>1, <1>8, SinceOwn
  <2>2. QED
    BY <1>7, <2>1 DEF Own
<1>16. Own(queue)' = own
  <2>1. Since(next, queue) = << >> /\ Since(next, own) = own
    BY <1>1, <1>8, <1>9, SinceOld, SinceOwn
  <2>2. Since(next, queue \o own) = Since(next, queue) \o Since(next, own)
    BY <1>1, SinceConcat
  <2>3. << >> \o own = own
    BY ConcatEmptySeq
  <2>4. QED
    BY <1>7, <2>1, <2>2, <2>3 DEF Own
<1>17. out \o own = Registering
  <2>1. SubSeq(reg, 1, Direct) \o SubSeq(reg, Direct + 1, Registration) = SubSeq(reg, 1, Registration)
    <3>1. 1 \in 1 .. Len(reg) + 1 /\ Direct \in 1 - 1 .. Len(reg) /\ Registration \in Direct .. Len(reg)
      BY <1>2, <1>3
    <3>2. QED
      BY <1>2, <3>1, ConcatAdjacentSubSeq
  <2>2. SubSeq(reg, 1, Registration) = reg
    BY <1>2, SubSeqFull
  <2>3. QED
    BY <1>2, <1>5, <1>6, <2>1, <2>2
<1>18. Fifo!Connect
  BY <1>7, <1>15, <1>16, <1>17 DEF Fifo!Connect, Registering
<1>19. QED
  BY <1>14, <1>18 DEF Maps, Fifo!Next

LEMMA MapsDisconnect == ASSUME IInv, Layered, SocketDisconnected PROVE Maps
<1>1. /\ open /\ open' = FALSE /\ queue' = << >> /\ UNCHANGED <<next, born>>
  BY DEF SocketDisconnected
<1>2. Layered'
  BY <1>1 DEF Layered
<1>3. Fifo!Disconnect
  BY <1>1 DEF Fifo!Disconnect, Own
<1>4. QED
  BY <1>2, <1>3 DEF Maps, Fifo!Next

LEMMA MapsQuit == ASSUME IInv, Layered, DisconnectFromIrc PROVE Maps
<1>1. /\ wire \in Seq(Nat) /\ queue \in Seq(Nat) /\ next \in Nat /\ open \in BOOLEAN
      /\ born \in Nat /\ born <= next
  BY DEF IInv, Layered
<1>2. /\ << >> \in Seq(Nat) /\ Len(<< >>) = 0 /\ << >> \o << >> = << >>
      /\ UNCHANGED <<open, born>>
  BY DEF DisconnectFromIrc
<1>3. Since(born, << >>) = << >>
  <2>1. << >> \in Seq(Nat) /\ \A i \in 1 .. Len(<< >>) : << >>[i] < born
    BY <1>2
  <2>2. QED
    BY <1>1, <2>1, SinceOld
<1>4. CASE ~open
  <2>1. queue' = << >> /\ UNCHANGED <<open, next, born>>
    BY <1>4 DEF DisconnectFromIrc
  <2>2. Layered'
    BY <1>1, <1>2, <1>4, <2>1 DEF Layered
  <2>3. UNCHANGED <<open, Own(wire), Own(queue), next>>
    BY <1>4, <2>1 DEF Own
  <2>4. QED
    BY <2>2, <2>3 DEF Maps
<1>5. CASE open /\ MayWrite
  <2>1. wire' = wire \o <<next>> /\ queue' = << >> /\ next' = next + 1
    BY <1>5 DEF DisconnectFromIrc, WriteToSocket
  <2>2. Split(<< >>, << >>)'
    BY <1>2, <2>1 DEF Split
  <2>3. Layered'
    <3>1. \E x, y \in Seq(Nat) : Split(x, y)'
      BY <1>2, <2>2
    <3>2. born' \in Nat /\ born' <= next' /\ Len(queue') = 0
      BY <1>1, <1>2, <2>1
    <3>3. QED
      BY <3>1, <3>2 DEF Layered
  <2>4. Own(wire)' = Append(Own(wire), next)
    BY <1>1, <1>2, <1>5, <2>1, WriteOwn DEF Own
  <2>5. Own(queue)' = << >>
    BY <1>2, <1>3, <1>5, <2>1 DEF Own
  <2>6. Fifo!Quit
    BY <1>2, <1>5, <2>1, <2>4, <2>5 DEF Fifo!Quit
  <2>7. QED
    BY <2>3, <2>6 DEF Maps, Fifo!Next
<1>6. CASE open /\ ~MayWrite
  <2>1. wire' = wire /\ tokens' = tokens /\ next' = next + 1
    BY <1>6 DEF DisconnectFromIrc
  <2>2. PICK own \in Seq(Nat) : own = <<next>> /\ Len(own) = 1 /\ own[1] = next
    <3>1. <<next>> \in Seq(Nat) /\ Len(<<next>>) = 1 /\ <<next>>[1] = next
      BY <1>1
    <3>2. QED
      BY <3>1
  <2>3. queue' = own
    BY <1>6, <2>2 DEF DisconnectFromIrc
  <2>4. tokens = 0
    BY <1>6 DEF IInv, MayWrite
  <2>5. \A i \in 1 .. Len(own) : own[i] >= born /\ own[i] = next
    BY <1>1, <2>2
  <2>6. Split(<< >>, own)'
    <3>1. << >> \o own = own
      BY ConcatEmptySeq
    <3>2. QED
      BY <1>2, <2>1, <2>3, <2>4, <2>5, <3>1 DEF Split
  <2>7. Layered'
    <3>1. \E x, y \in Seq(Nat) : Split(x, y)'
      BY <1>2, <2>6
    <3>2. born' \in Nat /\ born' <= next' /\ \A i \in 1 .. Len(queue') : queue'[i] < next'
      BY <1>1, <1>2, <2>1, <2>3, <2>5
    <3>3. QED
      BY <3>1, <3>2 DEF Layered
  <2>8. Own(wire)' = Own(wire) /\ Own(queue)' = own
    <3>1. Since(born, own) = own
      BY <1>1, <2>5, SinceOwn
    <3>2. QED
      BY <1>2, <1>6, <2>1, <2>3, <3>1 DEF Own
  <2>9. Fifo!Quit
    BY <1>2, <1>6, <2>1, <2>2, <2>8 DEF Fifo!Quit
  <2>10. QED
    BY <2>7, <2>9 DEF Maps, Fifo!Next
<1>7. QED
  BY <1>1, <1>4, <1>5, <1>6

\* The bucket, the queue and the timer implement the promise of LineFifo: a line issued on
\* a connection is written once and in order, whatever was left over from before it.
THEOREM ImplementsFifoHolds == Spec => ImplementsFifo
<1>1. Init => IInv /\ Layered /\ Fifo!Init
  <2>1. << >> \in Seq(Nat) /\ Len(<< >>) = 0
    OBVIOUS
  <2>2. ASSUME Init PROVE tokens \in Int
    BY <2>2, SendQueueAssumption DEF Init
  <2>3. ASSUME Init PROVE /\ ticks = 0 /\ next = 1 /\ born = 1 /\ open = FALSE
                         /\ queue = << >> /\ wire = << >>
    BY <2>3 DEF Init
  <2>4. QED
    BY <2>1, <2>2, <2>3 DEF IInv, Layered, Fifo!Init, Own
<1>2. IInv /\ Layered /\ [Next]_vars => Maps
  <2> SUFFICES ASSUME IInv, Layered, [Next]_vars PROVE Maps
    OBVIOUS
  <2>1. CASE UNCHANGED vars
    <3>1. UNCHANGED <<open, Own(wire), Own(queue), next>>
      BY <2>1 DEF vars, Own
    <3>2. Layered'
      BY <2>1 DEF vars, Layered, Split
    <3>3. QED
      BY <3>1, <3>2 DEF Maps
  <2>2. CASE Next
    BY <2>2, MapsPutRawLine, MapsTick, MapsConnect, MapsDisconnect, MapsQuit DEF Next
  <2>3. QED
    BY <2>1, <2>2
<1>3. QED
  BY <1>1, <1>2, InvStep, PTL DEF Spec, Maps, ImplementsFifo, Fifo!Spec

-----------------------------------------------------------------------------
(* AutoWho: whose answers are kept from the user *)

Query == [chan : Chans, by : {"core", "user"}]

\* the places of the core's own queries to c among the queries s
OwnQueries(s, c) == {i \in DOMAIN s : s[i].chan = c /\ s[i].by = "core"}

\* A record of AutoWho with counters: what the steps need of it.
Counting(w) ==
  /\ DOMAIN w = {"queue", "pending", "timer", "cycle"}
  /\ w.pending \in [Chans -> Nat]

\* Of each channel, the ends kept from the user and those the core still expects are
\* together no more than its queries under way.
Balance(c) == owed[c] + who.pending[c] <= Cardinality(OwnQueries(asked, c))

WhoIInv ==
  /\ Counting(who)
  /\ joined \subseteq Chans
  /\ asked \in Seq(Query)
  /\ owed \in [Chans -> Int]
  /\ \A c \in Chans : Balance(c)

-----------------------------------------------------------------------------
(* the queries under way *)

LEMMA OwnFinite ==
  ASSUME NEW s \in Seq(Query), NEW c
  PROVE  IsFiniteSet(OwnQueries(s, c)) /\ Cardinality(OwnQueries(s, c)) \in Nat
<1>1. OwnQueries(s, c) \subseteq 1 .. Len(s) /\ Len(s) \in Nat
  BY LenProperties DEF OwnQueries
<1>2. IsFiniteSet(1 .. Len(s))
  BY <1>1, FS_Interval
<1>3. IsFiniteSet(OwnQueries(s, c))
  BY <1>1, <1>2, FS_Subset
<1>4. QED
  BY <1>3, FS_CardinalityType

\* A query of the core's to c counts for c; no other query does.
LEMMA OwnAppended ==
  ASSUME NEW s \in Seq(Query), NEW a \in Query, NEW c
  PROVE  Cardinality(OwnQueries(Append(s, a), c))
           = Cardinality(OwnQueries(s, c)) + (IF a.chan = c /\ a.by = "core" THEN 1 ELSE 0)
<1>1. /\ Append(s, a) \in Seq(Query) /\ Len(Append(s, a)) = Len(s) + 1
      /\ \A i \in 1 .. Len(s) : Append(s, a)[i] = s[i]
      /\ Append(s, a)[Len(s) + 1] = a
      /\ DOMAIN Append(s, a) = 1 .. Len(s) + 1
      /\ DOMAIN s = 1 .. Len(s) /\ Len(s) \in Nat
  BY AppendProperties, LenProperties
<1>2. IsFiniteSet(OwnQueries(s, c)) /\ Cardinality(OwnQueries(s, c)) \in Nat
  BY OwnFinite
<1>3. CASE a.chan = c /\ a.by = "core"
  <2>1. OwnQueries(Append(s, a), c) = OwnQueries(s, c) \cup {Len(s) + 1} /\ Len(s) + 1 \notin OwnQueries(s, c)
    BY <1>1, <1>3 DEF OwnQueries
  <2>2. QED
    BY <1>2, <1>3, <2>1, FS_AddElement
<1>4. CASE ~(a.chan = c /\ a.by = "core")
  <2>1. OwnQueries(Append(s, a), c) = OwnQueries(s, c)
    BY <1>1, <1>4 DEF OwnQueries
  <2>2. QED
    BY <1>2, <1>4, <2>1
<1>5. QED
  BY <1>3, <1>4

\* An answer takes its query away.
LEMMA OwnAnswered ==
  ASSUME NEW s \in Seq(Query), s # << >>, NEW c
  PROVE  Cardinality(OwnQueries(Tail(s), c))
           = Cardinality(OwnQueries(s, c)) - (IF Head(s).chan = c /\ Head(s).by = "core" THEN 1 ELSE 0)
<1> DEFINE f == [i \in OwnQueries(Tail(s), c) |-> i + 1]
<1>1. /\ Tail(s) \in Seq(Query) /\ Len(Tail(s)) = Len(s) - 1
      /\ \A i \in 1 .. Len(Tail(s)) : Tail(s)[i] = s[i + 1]
      /\ DOMAIN Tail(s) = 1 .. Len(s) - 1
      /\ DOMAIN s = 1 .. Len(s) /\ Len(s) \in Nat \ {0}
      /\ Head(s) = s[1]
  BY HeadTailProperties, LenProperties, EmptySeq
<1>2. IsFiniteSet(OwnQueries(s, c)) /\ IsFiniteSet(OwnQueries(Tail(s), c))
  BY <1>1, OwnFinite
<1>3. f \in Bijection(OwnQueries(Tail(s), c), OwnQueries(s, c) \ {1})
  <2>1. \A i \in OwnQueries(Tail(s), c) : i \in Int /\ i + 1 \in OwnQueries(s, c) \ {1}
    BY <1>1 DEF OwnQueries
  <2>2. \A j \in OwnQueries(s, c) \ {1} : j \in Int /\ j - 1 \in OwnQueries(Tail(s), c)
    BY <1>1 DEF OwnQueries
  <2>3. f \in [OwnQueries(Tail(s), c) -> OwnQueries(s, c) \ {1}]
    BY <2>1
  <2>4. \A i, j \in OwnQueries(Tail(s), c) : f[i] = f[j] => i = j
    BY <2>1
  <2>5. \A j \in OwnQueries(s, c) \ {1} : \E i \in OwnQueries(Tail(s), c) : f[i] = j
    <3>1. SUFFICES ASSUME NEW j \in OwnQueries(s, c) \ {1}
                   PROVE  \E i \in OwnQueries(Tail(s), c) : f[i] = j
      OBVIOUS
    <3>2. j - 1 \in OwnQueries(Tail(s), c) /\ f[j - 1] = j
      BY <2>2
    <3>3. QED
      BY <3>2
  <2>6. f \in Injection(OwnQueries(Tail(s), c), OwnQueries(s, c) \ {1})
    BY <2>3, <2>4 DEF Injection, IsInjective
  <2>7. f \in Surjection(OwnQueries(Tail(s), c), OwnQueries(s, c) \ {1})
    BY <2>3, <2>5 DEF Surjection
  <2>8. QED
    BY <2>6, <2>7 DEF Bijection
<1>4. Cardinality(OwnQueries(Tail(s), c)) = Cardinality(OwnQueries(s, c) \ {1})
  BY <1>2, <1>3, FS_Bijection DEF ExistsBijection
<1>5. 1 \in OwnQueries(s, c) <=> Head(s).chan = c /\ Head(s).by = "core"
  BY <1>1 DEF OwnQueries
<1>6. Cardinality(OwnQueries(s, c)) \in Nat
  BY OwnFinite
<1>7. Cardinality(OwnQueries(s, c) \ {1})
        = IF 1 \in OwnQueries(s, c) THEN Cardinality(OwnQueries(s, c)) - 1 ELSE Cardinality(OwnQueries(s, c))
  BY <1>2, FS_RemoveElement
<1>8. QED
  BY <1>4, <1>5, <1>6, <1>7

-----------------------------------------------------------------------------
(* the state of AutoWho *)

\* A field other than `pending' may be set to anything.
LEMMA CountingExcept ==
  ASSUME NEW w, Counting(w), NEW x
  PROVE  /\ Counting([w EXCEPT !.queue = x]) /\ [w EXCEPT !.queue = x].pending = w.pending
         /\ Counting([w EXCEPT !.timer = x]) /\ [w EXCEPT !.timer = x].pending = w.pending
         /\ Counting([w EXCEPT !.cycle = x]) /\ [w EXCEPT !.cycle = x].pending = w.pending
BY DEF Counting

\* A cycle that starts counts nothing.
LEMMA StartCycleCounts ==
  ASSUME NEW w, Counting(w), NEW all
  PROVE  Counting(StartCycle(w, all)) /\ StartCycle(w, all).pending = w.pending
BY CountingExcept DEF StartCycle

LEMMA IfDueCounts ==
  ASSUME NEW w, Counting(w), NEW all
  PROVE  Counting(IfDue(w, all)) /\ IfDue(w, all).pending = w.pending
<1>1. Counting([w EXCEPT !.cycle = TRUE]) /\ [w EXCEPT !.cycle = TRUE].pending = w.pending
  BY CountingExcept
<1>2. QED
  BY <1>1, StartCycleCounts DEF IfDue

\* What sendAutoWho asks about is a channel the core is on.
LEMMA FirstAskableJoined ==
  ASSUME NEW q, FirstAskable(q) # 0
  PROVE  q[FirstAskable(q)] \in joined
<1> DEFINE I == {i \in 1 .. Len(q) : Askable(q[i])}
<1>1. I # {} /\ FirstAskable(q) = Min(I)
  BY DEF FirstAskable, SelectInSeq
<1>2. I \subseteq Nat
  OBVIOUS
<1> HIDE DEF I
<1>3. PICK n \in I : \A m \in I : ~(<<m, n>> \in OpToRel(<, Nat))
  BY <1>1, <1>2, NatLessThanWellFounded, WFMin
<1>4. ASSUME NEW m \in I PROVE n <= m
  <2>1. m \in Nat /\ n \in Nat /\ ~(<<m, n>> \in OpToRel(<, Nat))
    BY <1>2, <1>3, <1>4
  <2>2. ~(m < n)
    BY <2>1 DEF OpToRel
  <2>3. \A i, j \in Nat : ~(i < j) => j <= i
    OBVIOUS
  <2>4. QED
    BY <2>1, <2>2, <2>3
<1>5. Min(I) \in I
  BY <1>4 DEF Min
<1>6. QED
  BY <1>1, <1>5 DEF Askable, I

-----------------------------------------------------------------------------
LEMMA WhoInvInit == WhoInit => WhoIInv
<1> SUFFICES ASSUME WhoInit PROVE WhoIInv
  OBVIOUS
<1>1. asked \in Seq(Query) /\ asked = << >>
  BY EmptySeq DEF WhoInit
<1>2. \A c \in Chans : OwnQueries(asked, c) = {}
  BY <1>1 DEF OwnQueries
<1>3. Cardinality({}) = 0
  BY FS_EmptySet
<1>4. /\ Counting(who) /\ joined \subseteq Chans
      /\ owed \in [Chans -> Int] /\ \A c \in Chans : owed[c] = 0 /\ who.pending[c] = 0
  BY DEF WhoInit, Counting, Idle, Settled
<1>5. \A c \in Chans : Balance(c)
  BY <1>2, <1>3, <1>4 DEF Balance
<1>6. QED
  BY <1>1, <1>4, <1>5 DEF WhoIInv

\* A query of the core's counts on both sides.
LEMMA WhoInvSend == WhoIInv /\ SendAutoWho => WhoIInv'
<1> SUFFICES ASSUME WhoIInv, SendAutoWho PROVE WhoIInv'
  OBVIOUS
<1> DEFINE n == FirstAskable(who.queue)
           c == who.queue[n]
           w == [who EXCEPT !.queue = QueueAfter(@, n)]
<1>1. Counting(w) /\ w.pending = who.pending
  BY CountingExcept DEF WhoIInv
<1>2. PICK all : \/ n = 0 /\ who' = IfDue(w, all) /\ UNCHANGED asked
                 \/ /\ n # 0
                    /\ who' = IfDue([w EXCEPT !.pending[c] = @ + 1], all)
                    /\ asked' = Append(asked, [chan |-> c, by |-> "core"])
  BY DEF SendAutoWho
<1>3. joined' = joined /\ owed' = owed
  BY DEF SendAutoWho
<1>4. CASE n = 0 /\ who' = IfDue(w, all) /\ UNCHANGED asked
  <2>1. Counting(who') /\ who'.pending = who.pending
    BY <1>1, <1>4, IfDueCounts
  <2>2. QED
    BY <1>3, <1>4, <2>1 DEF WhoIInv, Balance, OwnQueries
<1>5. CASE /\ n # 0
           /\ who' = IfDue([w EXCEPT !.pending[c] = @ + 1], all)
           /\ asked' = Append(asked, [chan |-> c, by |-> "core"])
  <2> DEFINE v == [w EXCEPT !.pending[c] = @ + 1]
             a == [chan |-> c, by |-> "core"]
  <2>1. c \in Chans
    BY <1>5, FirstAskableJoined DEF WhoIInv
  <2>2. Counting(v) /\ v.pending = [w.pending EXCEPT ![c] = @ + 1]
    BY <1>1, <2>1 DEF Counting
  <2>3. Counting(who') /\ who'.pending = [who.pending EXCEPT ![c] = @ + 1]
    BY <1>1, <1>5, <2>2, IfDueCounts
  <2>4. a \in Query /\ a.chan = c /\ a.by = "core"
    BY <2>1 DEF Query
  <2>5. asked' \in Seq(Query)
    BY <1>5, <2>4, AppendProperties DEF WhoIInv
  <2>6. ASSUME NEW d \in Chans PROVE Balance(d)'
    <3>1. Cardinality(OwnQueries(asked', d)) = Cardinality(OwnQueries(asked, d)) + (IF d = c THEN 1 ELSE 0)
      BY <1>5, <2>4, OwnAppended DEF WhoIInv
    <3>2. Cardinality(OwnQueries(asked, d)) \in Nat
      BY OwnFinite DEF WhoIInv
    <3>3. who'.pending[d] = who.pending[d] + (IF d = c THEN 1 ELSE 0)
      BY <2>3, <2>6 DEF WhoIInv, Counting
    <3>4. who.pending[d] \in Nat /\ owed[d] \in Int
      BY <2>6 DEF WhoIInv, Counting
    <3>5. owed[d] + who.pending[d] <= Cardinality(OwnQueries(asked, d))
      BY <2>6 DEF WhoIInv, Balance
    <3>6. owed[d] + who'.pending[d] <= Cardinality(OwnQueries(asked', d))
      BY <3>1, <3>2, <3>3, <3>4, <3>5
    <3>7. QED
      BY <1>3, <3>6 DEF Balance, OwnQueries
  <2>7. QED
    BY <1>3, <2>3, <2>5, <2>6 DEF WhoIInv
<1>6. QED
  BY <1>2, <1>4, <1>5

\* An end of an answer is hidden only against a query of the core's.
LEMMA WhoInvEnd == WhoIInv /\ EndOfWho => WhoIInv'
<1> SUFFICES ASSUME WhoIInv, EndOfWho PROVE WhoIInv'
  OBVIOUS
<1> DEFINE a == Head(asked)
           c == a.chan
           p == who.pending
<1>1. /\ asked # << >> /\ asked' = Tail(asked) /\ joined' = joined
      /\ who' = Done(who, c).who
      /\ owed' = [owed EXCEPT ![c] = @ + Kept(a.by, Done(who, c).silent)]
  BY DEF EndOfWho
<1>2. a \in Query /\ Tail(asked) \in Seq(Query) /\ c \in Chans /\ a.by \in {"core", "user"}
  <2>1. a \in Query /\ Tail(asked) \in Seq(Query)
    BY <1>1, HeadTailProperties DEF WhoIInv
  <2>2. QED
    BY <2>1 DEF Query
<1>3. p \in [Chans -> Nat] /\ p[c] \in Nat
  BY <1>2 DEF WhoIInv, Counting
<1>4. Counting(who') /\ who'.pending = [p EXCEPT ![c] = IF p[c] = 0 THEN 0 ELSE p[c] - 1]
  <2>1. CASE p[c] = 0
    BY <1>1, <1>3, <2>1 DEF Done, WhoIInv, Counting
  <2>2. CASE p[c] # 0
    <3> DEFINE v == [who EXCEPT !.pending[c] = @ - 1]
    <3>1. who' = v
      BY <1>1, <2>2 DEF Done
    <3>2. v.pending = [p EXCEPT ![c] = p[c] - 1]
      BY DEF WhoIInv, Counting
    <3>3. p[c] - 1 \in Nat
      BY <1>3, <2>2
    <3>4. Counting(v)
      BY <1>3, <3>2, <3>3 DEF WhoIInv, Counting
    <3>5. QED
      BY <2>2, <3>1, <3>2, <3>4
  <2>3. QED
    BY <2>1, <2>2
<1>5. Kept(a.by, Done(who, c).silent)
        = IF a.by = "user" THEN (IF p[c] = 0 THEN 0 ELSE 1) ELSE (IF p[c] = 0 THEN -1 ELSE 0)
  BY <1>2 DEF Kept, Done
<1>6. owed' \in [Chans -> Int]
  BY <1>1, <1>2, <1>5 DEF WhoIInv
<1>7. ASSUME NEW d \in Chans PROVE Balance(d)'
  <2>1. Cardinality(OwnQueries(asked', d))
          = Cardinality(OwnQueries(asked, d)) - (IF c = d /\ a.by = "core" THEN 1 ELSE 0)
    BY <1>1, OwnAnswered DEF WhoIInv
  <2>2. Cardinality(OwnQueries(asked, d)) \in Nat /\ p[d] \in Nat /\ owed[d] \in Int
    BY <1>3, <1>7, OwnFinite DEF WhoIInv
  <2>3. owed[d] + p[d] <= Cardinality(OwnQueries(asked, d))
    BY <1>7 DEF WhoIInv, Balance
  <2>4. who'.pending[d] = IF d = c /\ p[c] # 0 THEN p[d] - 1 ELSE p[d]
    BY <1>3, <1>4, <1>7
  <2>5. owed'[d] = IF d = c THEN owed[d] + Kept(a.by, Done(who, c).silent) ELSE owed[d]
    BY <1>1, <1>7 DEF WhoIInv
  <2>6. owed'[d] + who'.pending[d] <= Cardinality(OwnQueries(asked', d))
    <3>1. CASE d # c
      BY <2>1, <2>2, <2>3, <2>4, <2>5, <3>1
    <3>2. CASE d = c /\ a.by = "core"
      BY <1>5, <2>1, <2>2, <2>3, <2>4, <2>5, <3>2
    <3>3. CASE d = c /\ a.by # "core"
      BY <1>2, <1>5, <2>1, <2>2, <2>3, <2>4, <2>5, <3>3
    <3>4. QED
      BY <3>1, <3>2, <3>3
  <2>7. QED
    BY <2>6 DEF Balance, OwnQueries
<1>8. QED
  BY <1>1, <1>2, <1>4, <1>6, <1>7 DEF WhoIInv

\* Nobody else's query counts, and whatever else happens takes from the counters only.
LEMMA WhoInvStep == WhoIInv /\ [WhoNext]_whoVars => WhoIInv'
<1> SUFFICES ASSUME WhoIInv, [WhoNext]_whoVars PROVE WhoIInv'
  OBVIOUS
<1>1. ASSUME Counting(who'), joined' \subseteq Chans, UNCHANGED <<asked, owed>>,
             \A c \in Chans : who'.pending[c] <= who.pending[c]
      PROVE  WhoIInv'
  <2>1. ASSUME NEW c \in Chans PROVE Balance(c)'
    <3>1. /\ who'.pending[c] \in Nat /\ who.pending[c] \in Nat /\ owed[c] \in Int
          /\ Cardinality(OwnQueries(asked, c)) \in Nat
      BY <1>1, <2>1, OwnFinite DEF WhoIInv, Counting
    <3>2. owed[c] + who.pending[c] <= Cardinality(OwnQueries(asked, c))
      BY <2>1 DEF WhoIInv, Balance
    <3>3. owed[c] + who'.pending[c] <= Cardinality(OwnQueries(asked, c))
      BY <1>1, <2>1, <3>1, <3>2
    <3>4. QED
      BY <1>1, <3>3 DEF Balance, OwnQueries
  <2>2. QED
    BY <1>1, <2>1 DEF WhoIInv
<1>2. ASSUME Counting(who'), joined' \subseteq Chans, UNCHANGED <<asked, owed>>,
             who'.pending = who.pending
      PROVE  WhoIInv'
  <2>1. \A c \in Chans : who'.pending[c] <= who.pending[c]
    BY <1>2 DEF WhoIInv, Counting
  <2>2. QED
    BY <1>1, <1>2, <2>1
<1>3. CASE CycleTimeout
  <2>1. PICK all : who' = StartCycle(who, all)
    BY <1>3 DEF CycleTimeout
  <2>2. QED
    BY <1>2, <1>3, <2>1, StartCycleCounts DEF CycleTimeout, WhoIInv
<1>4. ASSUME NEW enable \in BOOLEAN, SetAutoWhoEnabled(enable) PROVE WhoIInv'
  <2>1. Counting(who') /\ who'.pending = who.pending
    BY <1>4 DEF SetAutoWhoEnabled, WhoIInv, Counting
  <2>2. QED
    BY <1>2, <1>4, <2>1 DEF SetAutoWhoEnabled, WhoIInv
<1>5. ASSUME NEW c \in Chans, UserWho(c) PROVE WhoIInv'
  <2> DEFINE a == [chan |-> c, by |-> "user"]
  <2>1. a \in Query /\ a.by # "core"
    BY <1>5 DEF Query
  <2>2. asked' = Append(asked, a) /\ UNCHANGED <<joined, who, owed>>
    BY <1>5 DEF UserWho
  <2>3. asked' \in Seq(Query)
    BY <2>1, <2>2, AppendProperties DEF WhoIInv
  <2>4. ASSUME NEW d \in Chans PROVE Balance(d)'
    <3>1. Cardinality(OwnQueries(asked', d)) = Cardinality(OwnQueries(asked, d)) + 0
      BY <2>1, <2>2, OwnAppended DEF WhoIInv
    <3>2. Cardinality(OwnQueries(asked', d)) = Cardinality(OwnQueries(asked, d))
      BY <3>1, OwnFinite DEF WhoIInv
    <3>3. QED
      BY <2>2, <2>4, <3>2 DEF WhoIInv, Balance, OwnQueries
  <2>5. QED
    BY <2>2, <2>3, <2>4 DEF WhoIInv
<1>6. ASSUME NEW c \in Chans, SetChannelJoined(c) PROVE WhoIInv'
  BY <1>2, <1>6, CountingExcept DEF SetChannelJoined, WhoIInv
<1>7. ASSUME NEW c \in Chans, SetChannelParted(c) PROVE WhoIInv'
  <2>1. Counting(who') /\ who'.pending = [who.pending EXCEPT ![c] = 0]
    BY <1>7 DEF SetChannelParted, WhoIInv, Counting
  <2>2. \A d \in Chans : who'.pending[d] <= who.pending[d]
    BY <2>1 DEF WhoIInv, Counting
  <2>3. QED
    BY <1>1, <1>7, <2>1, <2>2 DEF SetChannelParted, WhoIInv
<1>8. ASSUME NEW c \in Chans, Kicked(c) PROVE WhoIInv'
  BY <1>2, <1>8 DEF Kicked, WhoIInv
<1>9. CASE NetworkInitialized
  <2>1. Counting(who') /\ who'.pending = who.pending
    BY <1>9 DEF NetworkInitialized, WhoIInv, Counting
  <2>2. QED
    BY <1>2, <1>9, <2>1 DEF NetworkInitialized, WhoIInv
<1>10. CASE WhoSocketDisconnected
  <2>1. asked' \in Seq(Query) /\ asked' = << >>
    BY <1>10, EmptySeq DEF WhoSocketDisconnected
  <2>2. \A c \in Chans : Cardinality(OwnQueries(asked', c)) = 0
    BY <2>1, FS_EmptySet DEF OwnQueries
  <2>3. Counting(who') /\ \A c \in Chans : who'.pending[c] = 0 /\ owed'[c] = 0
    BY <1>10 DEF WhoSocketDisconnected, Cleared, Idle, Settled, Counting
  <2>4. \A c \in Chans : Balance(c)'
    BY <2>2, <2>3 DEF Balance, OwnQueries
  <2>5. QED
    BY <1>10, <2>1, <2>3, <2>4 DEF WhoSocketDisconnected, Settled, WhoIInv
<1>11. CASE UNCHANGED whoVars
  BY <1>11 DEF whoVars, WhoIInv, Counting, Balance, OwnQueries
<1>12. QED
  BY <1>3, <1>4, <1>5, <1>6, <1>7, <1>8, <1>9, <1>10, <1>11, WhoInvSend, WhoInvEnd DEF WhoNext

\* Nothing is kept from the user for good: of each channel, however queries, parts, kicks
\* and answers interleave, no more of the user's answers are hidden than the core has
\* queries under way whose answers it will show instead.
THEOREM NoneSwallowedHolds == WhoSpec => []NoneSwallowed
<1>1. WhoIInv => NoneSwallowed
  <2> SUFFICES ASSUME WhoIInv, NEW c \in Chans PROVE owed[c] <= OwnAsked(c)
    BY DEF NoneSwallowed
  <2>1. OwnAsked(c) = Cardinality(OwnQueries(asked, c))
    BY DEF OwnAsked, OwnQueries
  <2>2. who.pending[c] \in Nat /\ owed[c] \in Int /\ Cardinality(OwnQueries(asked, c)) \in Nat
    BY OwnFinite DEF WhoIInv, Counting
  <2>3. owed[c] + who.pending[c] <= Cardinality(OwnQueries(asked, c))
    BY DEF WhoIInv, Balance
  <2>4. QED
    BY <2>1, <2>2, <2>3
<1>2. QED
  BY <1>1, WhoInvInit, WhoInvStep, PTL DEF WhoSpec
=============================================================================
