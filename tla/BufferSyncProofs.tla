--------------------------- MODULE BufferSyncProofs ---------------------------
(* Theorems about BufferSync, for any buffers, clients and bounds. *)
EXTENDS BufferSync, FiniteSetTheorems, SequenceTheorems, WellFoundedInduction, TLAPS

\* What may be under way when the ids u have been given out: a position is only ever
\* asked for a buffer that was there once.
Requests(u) ==
  [op : {"seen", "marker"}, b : u, msg : Nat \ {0}]
    \cup [op : {"remove"}, b : Ids] \cup [op : {"rename"}, b : Ids, name : Names]
    \cup [op : {"merge"}, b : Ids, b2 : Ids] \cup [op : {"init", "purge"}]

Messages(u) ==
  [op : {"buffer"}, b : u, name : Names \cup {Channel}]
    \cup [op : {"seen", "marker"}, b : Ids, msg : Nat]
    \cup [op : {"removed"}, b : Ids] \cup [op : {"renamed"}, b : Ids, name : Names]
    \cup [op : {"dropped"}] \cup [op : {"init"}, seen : [Ids -> Nat], marker : [Ids -> Nat]]

Row(r) == DOMAIN r = {"name", "seen", "marker"} /\ r.seen \in Nat /\ r.marker \in Nat

TableOK ==
  /\ DOMAIN rows \subseteq used /\ used \subseteq Ids
  /\ \A b \in DOMAIN rows : Row(rows[b])

\* No position without a buffer that is or was, and none lost for one that is.
PositionsOK ==
  /\ seen \in [Ids -> Nat] /\ marker \in [Ids -> Nat]
  /\ \A b \in Ids \ used : seen[b] = 0 /\ marker[b] = 0
  /\ \A b \in DOMAIN rows :
       /\ seen[b] = 0 => rows[b].seen = 0
       /\ marker[b] = 0 => rows[b].marker = 0

\* A client knows buffers that are or were there.
ClientOK(k) ==
  /\ DOMAIN k = {"state", "known", "seen", "marker", "missed"}
  /\ DOMAIN k.known \subseteq used

ClientsOK ==
  /\ client = [c \in Clients |-> client[c]]
  /\ \A c \in Clients : ClientOK(client[c])

WiresOK ==
  /\ up \in [Clients -> Seq(Requests(used))]
  /\ down \in [Clients -> Seq(Messages(used))]

IInv == TableOK /\ PositionsOK /\ ClientsOK /\ WiresOK /\ UnsavedIsDirty

-----------------------------------------------------------------------------
(* what is under way *)

\* What is sent to all who are attached is under way to each of them.
LEMMA ToldType ==
  ASSUME NEW M, NEW w \in [Clients -> Seq(M)], NEW c, NEW m \in M
  PROVE  Told(w, c, m) \in [Clients -> Seq(M)]
<1>1. \A d \in Clients : Append(w[d], m) \in Seq(M)
  BY AppendProperties
<1>2. QED
  BY <1>1 DEF Told

LEMMA ToldAllType ==
  ASSUME NEW M, down \in [Clients -> Seq(M)], NEW s \in Seq(M)
  PROVE  ToldAll(s) \in [Clients -> Seq(M)]
<1>1. \A d \in Clients : down[d] \o s \in Seq(M)
  BY ConcatProperties
<1>2. QED
  BY <1>1 DEF ToldAll

\* The ghosts in some order.
LEMMA GhostsSequence ==
  ASSUME seen \in [Ids -> Nat], marker \in [Ids -> Nat]
  PROVE  /\ SetToSeq(Ghosts) \in Seq(Ids)
         /\ Ghosts = {SetToSeq(Ghosts)[i] : i \in 1 .. Len(SetToSeq(Ghosts))}
<1> DEFINE G == Ghosts
<1>1. G \subseteq Ids
  BY DEF Ghosts, Positions
<1>2. IsFiniteSet(G)
  BY <1>1, BufferAssumption, FS_Subset
<1>3. Cardinality(G) \in Nat /\ ExistsBijection(1 .. Cardinality(G), G)
  BY <1>2, FS_CardinalityType
<1>4. \E f \in [1 .. Cardinality(G) -> G] : IsInjective(f)
  BY <1>3 DEF ExistsBijection, Bijection, Injection
<1>5. SetToSeq(G) \in [1 .. Cardinality(G) -> G] /\ IsInjective(SetToSeq(G))
  <2> HIDE DEF G
  <2>1. QED
    BY <1>4 DEF SetToSeq
<1>6. SetToSeq(G) \in [1 .. Cardinality(G) -> Ids]
  BY <1>1, <1>5
<1>7. SetToSeq(G) \in Surjection(1 .. Cardinality(G), G)
  <2>1. SetToSeq(G) \in Injection(1 .. Cardinality(G), G)
    BY <1>5 DEF Injection
  <2>2. Cardinality(1 .. Cardinality(G)) = Cardinality(G)
    BY <1>3, FS_Interval
  <2> HIDE DEF G
  <2>3. QED
    BY <1>2, <2>1, <2>2, FS_Injection
<1>8. Len(SetToSeq(G)) = Cardinality(G)
  BY <1>3, <1>6
<1>9. G = {SetToSeq(G)[i] : i \in 1 .. Cardinality(G)}
  <2> HIDE DEF G
  <2>1. QED
    BY <1>5, <1>7 DEF Surjection
<1>10. QED
  BY <1>3, <1>6, <1>8, <1>9, SeqDef

\* More ids, more that may be under way.
LEMMA WiresGrow ==
  ASSUME NEW u, NEW v, u \subseteq v
  PROVE  /\ Requests(u) \subseteq Requests(v)
         /\ Messages(u) \subseteq Messages(v)
BY DEF Requests, Messages

-----------------------------------------------------------------------------
(* requests *)

\* the part of the invariant that the core keeps by itself
CoreInv ==
  /\ TableOK /\ PositionsOK /\ UnsavedIsDirty
  /\ down \in [Clients -> Seq(Messages(used))]

\* A position moves forward from one that was stored or marked, and is marked.
LEMMA SeenStep ==
  ASSUME CoreInv, NEW c, NEW b \in used, NEW msg \in Nat \ {0},
         RequestSetLastSeenMsg(c, b, msg)
  PROVE  CoreInv' /\ used' = used
<1>1. CASE UNCHANGED <<seen, dirtySeen, down>>
  BY <1>1 DEF RequestSetLastSeenMsg, CoreInv, TableOK, PositionsOK, UnsavedIsDirty
<1>2. CASE /\ seen' = [seen EXCEPT ![b] = msg]
           /\ dirtySeen' = dirtySeen \union {b}
           /\ down' = Told(down, c, [op |-> "seen", b |-> b, msg |-> msg])
  <2>1. UNCHANGED <<rows, used, marker, dirtyMarker>>
    BY DEF RequestSetLastSeenMsg
  <2>2. [op |-> "seen", b |-> b, msg |-> msg] \in Messages(used)
    BY DEF Messages, CoreInv, TableOK
  <2>3. down' \in [Clients -> Seq(Messages(used))]
    BY <1>2, <2>2, ToldType DEF CoreInv
  <2>4. TableOK' /\ PositionsOK' /\ UnsavedIsDirty'
    BY <1>2, <2>1 DEF CoreInv, TableOK, PositionsOK, UnsavedIsDirty
  <2>5. QED
    BY <2>1, <2>3, <2>4 DEF CoreInv
<1>3. QED
  BY <1>1, <1>2 DEF RequestSetLastSeenMsg

LEMMA MarkerStep ==
  ASSUME CoreInv, NEW c, NEW b \in used, NEW msg \in Nat \ {0},
         RequestSetMarkerLine(c, b, msg)
  PROVE  CoreInv' /\ used' = used
<1>1. CASE UNCHANGED <<marker, dirtyMarker, down>>
  BY <1>1 DEF RequestSetMarkerLine, CoreInv, TableOK, PositionsOK, UnsavedIsDirty
<1>2. CASE /\ marker' = [marker EXCEPT ![b] = msg]
           /\ dirtyMarker' = Dirty(b)
           /\ down' = Told(down, c, [op |-> "marker", b |-> b, msg |-> msg])
  <2>1. UNCHANGED <<rows, used, seen, dirtySeen>>
    BY DEF RequestSetMarkerLine
  <2>2. [op |-> "marker", b |-> b, msg |-> msg] \in Messages(used)
    BY DEF Messages, CoreInv, TableOK
  <2>3. down' \in [Clients -> Seq(Messages(used))]
    BY <1>2, <2>2, ToldType DEF CoreInv
  <2>4. TableOK' /\ PositionsOK' /\ UnsavedIsDirty'
    BY <1>2, <2>1 DEF CoreInv, TableOK, PositionsOK, UnsavedIsDirty, Dirty
  <2>5. QED
    BY <2>1, <2>3, <2>4 DEF CoreInv
<1>3. QED
  BY <1>1, <1>2 DEF RequestSetMarkerLine

\* Positions that are cleared are those of buffers that are not there.
LEMMA ClearedStep ==
  ASSUME CoreInv, NEW S \in SUBSET Ids, UNCHANGED <<used, dirtySeen, dirtyMarker>>,
         DOMAIN rows' = DOMAIN rows \ S, \A b \in DOMAIN rows' : rows'[b] = rows[b],
         seen' = Cleared(seen, S), marker' = Cleared(marker, S)
  PROVE  (TableOK /\ PositionsOK /\ UnsavedIsDirty)'
<1>1. seen' \in [Ids -> Nat] /\ marker' \in [Ids -> Nat]
  BY DEF Cleared, CoreInv, PositionsOK
<1>2. \A b \in Ids : seen'[b] = (IF b \in S THEN 0 ELSE seen[b])
                  /\ marker'[b] = (IF b \in S THEN 0 ELSE marker[b])
  BY DEF Cleared
<1>3. TableOK'
  BY DEF CoreInv, TableOK
<1>4. \A b \in DOMAIN rows' : b \in DOMAIN rows /\ b \in Ids /\ b \notin S
  BY DEF CoreInv, TableOK
<1>5. PositionsOK'
  BY <1>1, <1>2, <1>4 DEF CoreInv, PositionsOK
<1>6. UnsavedIsDirty'
  BY <1>2, <1>4 DEF CoreInv, UnsavedIsDirty
<1>7. QED
  BY <1>3, <1>5, <1>6

LEMMA RemoveStep ==
  ASSUME CoreInv, NEW c, NEW b \in Ids, RemoveBuffer(c, b)
  PROVE  CoreInv' /\ used' = used
<1>1. CASE UNCHANGED <<rows, seen, marker, down>>
  BY <1>1 DEF RemoveBuffer, CoreInv, TableOK, PositionsOK, UnsavedIsDirty
<1>2. CASE /\ rows' = Without(rows, {b})
           /\ seen' = Cleared(seen, {b}) /\ marker' = Cleared(marker, {b})
           /\ down' = Told(down, c, [op |-> "removed", b |-> b])
  <2>1. UNCHANGED <<used, dirtySeen, dirtyMarker>>
    BY DEF RemoveBuffer
  <2>2. [op |-> "removed", b |-> b] \in Messages(used)
    BY DEF Messages
  <2>3. down' \in [Clients -> Seq(Messages(used))]
    BY <1>2, <2>2, ToldType DEF CoreInv
  <2>4. (TableOK /\ PositionsOK /\ UnsavedIsDirty)'
    BY <1>2, <2>1, ClearedStep DEF Without
  <2>5. QED
    BY <2>1, <2>3, <2>4 DEF CoreInv
<1>3. QED
  BY <1>1, <1>2 DEF RemoveBuffer

LEMMA MergeStep ==
  ASSUME CoreInv, NEW c, NEW b1 \in Ids, NEW b2 \in Ids, MergeBuffersPermanently(c, b1, b2)
  PROVE  CoreInv' /\ used' = used
<1>1. CASE UNCHANGED <<rows, seen, marker, down>>
  BY <1>1 DEF MergeBuffersPermanently, CoreInv, TableOK, PositionsOK, UnsavedIsDirty
<1>2. CASE /\ rows' = Without(rows, {b2})
           /\ seen' = Cleared(seen, {b2}) /\ marker' = Cleared(marker, {b2})
           /\ down' = Told(down, c, [op |-> "removed", b |-> b2])
  <2>1. UNCHANGED <<used, dirtySeen, dirtyMarker>>
    BY DEF MergeBuffersPermanently
  <2>2. [op |-> "removed", b |-> b2] \in Messages(used)
    BY DEF Messages
  <2>3. down' \in [Clients -> Seq(Messages(used))]
    BY <1>2, <2>2, ToldType DEF CoreInv
  <2>4. (TableOK /\ PositionsOK /\ UnsavedIsDirty)'
    BY <1>2, <2>1, ClearedStep DEF Without
  <2>5. QED
    BY <2>1, <2>3, <2>4 DEF CoreInv
<1>3. QED
  BY <1>1, <1>2 DEF MergeBuffersPermanently

\* A name is no position.
LEMMA RenameStep ==
  ASSUME CoreInv, NEW c, NEW b \in Ids, NEW name \in Names, RenameBuffer(c, b, name)
  PROVE  CoreInv' /\ used' = used
<1>1. CASE UNCHANGED <<rows, down>>
  BY <1>1 DEF RenameBuffer, CoreInv, TableOK, PositionsOK, UnsavedIsDirty
<1>2. CASE /\ rows' = [rows EXCEPT ![b].name = name]
           /\ down' = Told(down, c, [op |-> "renamed", b |-> b, name |-> name])
  <2>1. UNCHANGED <<used, seen, marker, dirtySeen, dirtyMarker>>
    BY DEF RenameBuffer
  <2>2. [op |-> "renamed", b |-> b, name |-> name] \in Messages(used)
    BY DEF Messages
  <2>3. down' \in [Clients -> Seq(Messages(used))]
    BY <1>2, <2>2, ToldType DEF CoreInv
  <2>4. /\ DOMAIN rows' = DOMAIN rows
        /\ \A d \in DOMAIN rows :
             rows'[d] = IF d = b THEN [rows[d] EXCEPT !.name = name] ELSE rows[d]
    BY <1>2
  <2>5. \A d \in DOMAIN rows :
          Row(rows'[d]) /\ rows'[d].seen = rows[d].seen /\ rows'[d].marker = rows[d].marker
    BY <2>4 DEF CoreInv, TableOK, Row
  <2>6. TableOK' /\ PositionsOK' /\ UnsavedIsDirty'
    BY <2>1, <2>4, <2>5 DEF CoreInv, TableOK, PositionsOK, UnsavedIsDirty
  <2>7. QED
    BY <2>1, <2>3, <2>6 DEF CoreInv
<1>3. QED
  BY <1>1, <1>2 DEF RenameBuffer

\* Each request a client may have under way, in the core.
LEMMA CoreReceivesStep ==
  ASSUME IInv, NEW c \in Clients, CoreReceives(c)
  PROVE  IInv'
<1> DEFINE r == Head(up[c])
<1>1. r \in Requests(used) /\ Tail(up[c]) \in Seq(Requests(used))
  BY HeadTailProperties DEF IInv, WiresOK, CoreReceives
<1>2. CoreInv /\ used \subseteq Ids
  BY DEF IInv, CoreInv, WiresOK, TableOK
<1>3. CoreInv' /\ used' = used
  <2>1. CASE r.op = "seen" /\ RequestSetLastSeenMsg(c, r.b, r.msg)
    BY <1>1, <1>2, <2>1, SeenStep DEF Requests
  <2>2. CASE r.op = "marker" /\ RequestSetMarkerLine(c, r.b, r.msg)
    BY <1>1, <1>2, <2>2, MarkerStep DEF Requests
  <2>3. CASE r.op = "remove" /\ RemoveBuffer(c, r.b)
    BY <1>1, <1>2, <2>3, RemoveStep DEF Requests
  <2>4. CASE r.op = "rename" /\ RenameBuffer(c, r.b, r.name)
    BY <1>1, <1>2, <2>4, RenameStep DEF Requests
  <2>5. CASE r.op = "merge" /\ MergeBuffersPermanently(c, r.b, r.b2)
    BY <1>1, <1>2, <2>5, MergeStep DEF Requests
  <2>6. CASE r.op = "purge" /\ RequestPurgeBufferIds
    BY <1>2, <2>6 DEF RequestPurgeBufferIds, CoreInv, TableOK, PositionsOK, UnsavedIsDirty
  <2>7. CASE r.op = "init" /\ SendInitData(c)
    <3> DEFINE m == [op |-> "init", seen |-> seen, marker |-> marker]
    <3>1. m \in Messages(used)
      BY <1>2 DEF Messages, CoreInv, PositionsOK
    <3>2. down' \in [Clients -> Seq(Messages(used))]
      <4>1. Append(down[c], m) \in Seq(Messages(used))
        BY <1>2, <3>1, AppendProperties DEF CoreInv
      <4>2. QED
        BY <1>2, <2>7, <4>1 DEF SendInitData, CoreInv
    <3>3. QED
      BY <1>2, <2>7, <3>2 DEF SendInitData, CoreInv, TableOK, PositionsOK, UnsavedIsDirty
  <2>8. QED
    BY <2>1, <2>2, <2>3, <2>4, <2>5, <2>6, <2>7 DEF CoreReceives
<1>4. up' \in [Clients -> Seq(Requests(used))]
  BY <1>1 DEF IInv, WiresOK, CoreReceives
<1>5. ClientsOK'
  BY <1>3 DEF IInv, ClientsOK, ClientOK, CoreReceives
<1>6. QED
  BY <1>3, <1>4, <1>5 DEF IInv, CoreInv, WiresOK

-----------------------------------------------------------------------------
(* the core by itself *)

\* What a step of the core alone has to show.
LEMMA CoreAlone ==
  ASSUME IInv, (TableOK /\ PositionsOK /\ UnsavedIsDirty)', used \subseteq used',
         down' \in [Clients -> Seq(Messages(used'))], UNCHANGED <<client, up>>
  PROVE  IInv'
<1>1. up' \in [Clients -> Seq(Requests(used'))]
  <2>1. \A c \in Clients : up[c] \in Seq(Requests(used'))
    BY WiresGrow, SeqMonotonic DEF IInv, WiresOK
  <2>2. QED
    BY <2>1 DEF IInv, WiresOK
<1>2. ClientsOK'
  BY DEF IInv, ClientsOK, ClientOK
<1>3. QED
  BY <1>1, <1>2 DEF IInv, WiresOK

\* Ghosts have no row, so nothing that is stored is cleared.
LEMMA PurgeStep == IInv /\ PurgeBufferIds => IInv'
<1> SUFFICES ASSUME IInv, PurgeBufferIds PROVE IInv'
  OBVIOUS
<1> DEFINE gone == SetToSeq(Ghosts)
           said == [i \in DOMAIN gone |-> [op |-> "removed", b |-> gone[i]]]
<1>1. CoreInv /\ Ghosts \in SUBSET Ids /\ Ghosts \intersect DOMAIN rows = {}
  BY DEF IInv, CoreInv, WiresOK, Ghosts, Positions
<1>2. (TableOK /\ PositionsOK /\ UnsavedIsDirty)'
  BY <1>1, ClearedStep DEF PurgeBufferIds
<1>3. gone \in Seq(Ids)
  BY GhostsSequence DEF IInv, PositionsOK
<1>4. Len(gone) \in Nat /\ DOMAIN gone = 1 .. Len(gone) /\ \A i \in 1 .. Len(gone) : gone[i] \in Ids
  BY <1>3, LenProperties, ElementOfSeq
<1>5. said \in [1 .. Len(gone) -> Messages(used)]
  BY <1>4 DEF Messages
<1>6. said \in Seq(Messages(used))
  BY <1>4, <1>5, SeqDef
<1>7. down' = ToldAll(said) /\ UNCHANGED <<used, client, up>>
  BY DEF PurgeBufferIds
<1>8. down' \in [Clients -> Seq(Messages(used))]
  BY <1>6, <1>7, ToldAllType DEF IInv, WiresOK
<1>9. QED
  BY <1>2, <1>7, <1>8, CoreAlone

\* What is stored is what the core has: a position that is not marked is in its row
\* already, one that is marked but invalid never had another value there.
LEMMA StoredRows ==
  ASSUME TableOK, PositionsOK, UnsavedIsDirty
  PROVE  /\ DOMAIN Stored = DOMAIN rows
         /\ \A b \in DOMAIN rows :
              Row(Stored[b]) /\ Stored[b].seen = seen[b] /\ Stored[b].marker = marker[b]
<1>1. ASSUME NEW b \in DOMAIN rows
      PROVE  Row(Stored[b]) /\ Stored[b].seen = seen[b] /\ Stored[b].marker = marker[b]
  <2>1. /\ Stored[b].seen = IF b \in dirtySeen /\ seen[b] # 0 THEN seen[b] ELSE rows[b].seen
        /\ Stored[b].marker = IF b \in dirtyMarker /\ marker[b] # 0 THEN marker[b] ELSE rows[b].marker
        /\ DOMAIN Stored[b] = {"name", "seen", "marker"}
    BY <1>1 DEF Stored
  <2>2. seen[b] \in Nat /\ marker[b] \in Nat
    BY <1>1 DEF TableOK, PositionsOK
  <2>3. Stored[b].seen = seen[b]
    BY <1>1, <2>1 DEF PositionsOK, UnsavedIsDirty
  <2>4. Stored[b].marker = marker[b]
    BY <1>1, <2>1 DEF PositionsOK, UnsavedIsDirty
  <2>5. QED
    BY <2>1, <2>2, <2>3, <2>4 DEF Row
<1>2. QED
  BY <1>1 DEF Stored

LEMMA StoreStep == IInv /\ StoreDirtyIds => IInv'
<1> SUFFICES ASSUME IInv, StoreDirtyIds PROVE IInv'
  OBVIOUS
<1>1. TableOK /\ PositionsOK /\ UnsavedIsDirty
  BY DEF IInv
<1>2. rows' = Stored /\ UNCHANGED <<used, seen, marker, client, up, down>>
  BY DEF StoreDirtyIds
<1>3. (TableOK /\ PositionsOK /\ UnsavedIsDirty)'
  BY <1>1, <1>2, StoredRows DEF TableOK, PositionsOK, UnsavedIsDirty
<1>4. QED
  BY <1>2, <1>3, CoreAlone DEF IInv, WiresOK

\* A buffer gets an id that no position belongs to.
LEMMA CreateStep ==
  ASSUME IInv, NEW b \in Ids, NEW name \in Names \cup {Channel}, CreateBuffer(b, name)
  PROVE  IInv'
<1> DEFINE m == [op |-> "buffer", b |-> b, name |-> name]
<1>1. /\ b \notin used /\ used' = used \union {b}
      /\ UNCHANGED <<seen, marker, dirtySeen, dirtyMarker, client, up>>
      /\ down' = ToldAll(<<m>>)
  BY DEF CreateBuffer
<1>2. /\ DOMAIN rows' = DOMAIN rows \union {b}
      /\ rows'[b] = [name |-> name, seen |-> 0, marker |-> 0]
      /\ \A d \in DOMAIN rows : rows'[d] = rows[d]
  BY <1>1 DEF CreateBuffer, IInv, TableOK
<1>3. TableOK'
  BY <1>1, <1>2 DEF IInv, TableOK, Row
<1>4. PositionsOK'
  BY <1>1, <1>2 DEF IInv, TableOK, PositionsOK
<1>5. UnsavedIsDirty'
  BY <1>1, <1>2 DEF IInv, PositionsOK, UnsavedIsDirty
<1>6. m \in Messages(used')
  BY <1>1 DEF Messages
<1>7. <<m>> \in Seq(Messages(used'))
  BY <1>6
<1>8. down \in [Clients -> Seq(Messages(used'))]
  <2>1. \A c \in Clients : down[c] \in Seq(Messages(used'))
    BY <1>1, WiresGrow, SeqMonotonic DEF IInv, WiresOK
  <2>2. QED
    BY <2>1 DEF IInv, WiresOK
<1>9. down' \in [Clients -> Seq(Messages(used'))]
  BY <1>1, <1>7, <1>8, ToldAllType
<1>10. QED
  BY <1>1, <1>3, <1>4, <1>5, <1>9, CoreAlone

LEMMA NickStep ==
  ASSUME IInv, NEW b \in Ids, NEW name \in Names, NickChange(b, name)
  PROVE  IInv'
<1>1. PICK c : RenameBuffer(c, b, name)
  BY DEF NickChange
<1>2. CoreInv' /\ used' = used
  BY <1>1, RenameStep DEF IInv, CoreInv, WiresOK
<1>3. UNCHANGED <<client, up>>
  BY DEF NickChange
<1>4. QED
  BY <1>2, <1>3, CoreAlone DEF CoreInv

LEMMA DestroyStep == IInv /\ DestroyNetwork => IInv'
<1> SUFFICES ASSUME IInv, DestroyNetwork PROVE IInv'
  OBVIOUS
<1>1. DOMAIN rows' = {}
  <2>1. rows' = << >>
    BY DEF DestroyNetwork
  <2>2. QED
    BY <2>1
<1>2. UNCHANGED <<used, seen, marker, client, up>> /\ down' = ToldAll(<<[op |-> "dropped"]>>)
  BY DEF DestroyNetwork
<1>3. (TableOK /\ PositionsOK /\ UnsavedIsDirty)'
  BY <1>1, <1>2 DEF IInv, TableOK, PositionsOK, UnsavedIsDirty
<1>4. <<[op |-> "dropped"]>> \in Seq(Messages(used))
  <2>1. [op |-> "dropped"] \in Messages(used)
    BY DEF Messages
  <2>2. QED
    BY <2>1
<1>5. down' \in [Clients -> Seq(Messages(used))]
  BY <1>2, <1>4, ToldAllType DEF IInv, WiresOK
<1>6. QED
  BY <1>2, <1>3, <1>5, CoreAlone

\* A core that starts has the positions of its rows.
LEMMA StartStep ==
  ASSUME IInv, NEW r, DOMAIN r = DOMAIN rows, \A b \in DOMAIN rows : Row(r[b]), StartWith(r)
  PROVE  IInv'
<1>1. /\ rows' = r /\ used' = used
      /\ seen' = SeenIn(r) /\ marker' = MarkerIn(r)
      /\ client' = [c \in Clients |-> Away]
      /\ up' = [c \in Clients |-> << >>] /\ down' = [c \in Clients |-> << >>]
  BY DEF StartWith
<1>2. TableOK'
  BY <1>1 DEF IInv, TableOK
<1>3. /\ seen' \in [Ids -> Nat] /\ marker' \in [Ids -> Nat]
      /\ \A b \in Ids \ used : seen'[b] = 0 /\ marker'[b] = 0
      /\ \A b \in DOMAIN rows' : seen'[b] = rows'[b].seen /\ marker'[b] = rows'[b].marker
  BY <1>1 DEF SeenIn, MarkerIn, IInv, TableOK, Row
<1>4. PositionsOK' /\ UnsavedIsDirty'
  BY <1>1, <1>3 DEF PositionsOK, UnsavedIsDirty
<1>5. ClientsOK'
  <2>1. DOMAIN << >> = {}
    OBVIOUS
  <2>2. ClientOK(Away)'
    BY <2>1 DEF ClientOK, Away
  <2>3. QED
    BY <1>1, <2>2 DEF ClientsOK
<1>6. WiresOK'
  BY <1>1, EmptySeq DEF WiresOK
<1>7. QED
  BY <1>2, <1>4, <1>5, <1>6 DEF IInv

LEMMA RestartStep == IInv /\ (Crash \/ Shutdown) => IInv'
<1> SUFFICES ASSUME IInv, Crash \/ Shutdown PROVE IInv'
  OBVIOUS
<1>1. CASE Crash
  BY <1>1, StartStep DEF Crash, IInv, TableOK
<1>2. CASE Shutdown
  BY <1>2, StartStep, StoredRows DEF Shutdown, IInv
<1>3. QED
  BY <1>1, <1>2

-----------------------------------------------------------------------------
(* clients *)

\* What a step of client c has to show.
LEMMA ClientAlone ==
  ASSUME IInv, NEW c \in Clients, NEW k, ClientOK(k), client' = [client EXCEPT ![c] = k],
         UNCHANGED <<rows, used, seen, marker, dirtySeen, dirtyMarker>>, WiresOK'
  PROVE  IInv'
<1>1. ClientsOK'
  BY DEF IInv, ClientsOK, ClientOK
<1>2. (TableOK /\ PositionsOK /\ UnsavedIsDirty)'
  BY DEF IInv, TableOK, PositionsOK, UnsavedIsDirty
<1>3. QED
  BY <1>1, <1>2 DEF IInv

\* No message makes a client know a buffer that never was.
LEMMA AppliedOK ==
  ASSUME NEW k, ClientOK(k), NEW m \in Messages(used)
  PROVE  ClientOK(Applied(k, m))
<1>1. ClientOK(Missed(k, m))
  BY DEF ClientOK, Missed
<1>2. CASE m.op = "buffer"
  <2>1. m.b \in used
    BY <1>2 DEF Messages
  <2>2. ClientOK(Shown(k, m.b, m.name))
    BY <2>1 DEF ClientOK, Shown
  <2>3. QED
    BY <1>2, <2>2 DEF Applied
<1>3. CASE m.op = "dropped"
  <2>1. DOMAIN << >> = {}
    OBVIOUS
  <2>2. ClientOK([k EXCEPT !.known = << >>])
    BY <2>1 DEF ClientOK
  <2>3. QED
    BY <1>3, <2>2 DEF Applied
<1>4. CASE m.op \notin {"buffer", "dropped"} /\ k.state = "networks"
  <2>1. ClientOK([k EXCEPT !.state = "ready", !.seen = m.seen, !.marker = m.marker])
    BY DEF ClientOK
  <2>2. QED
    BY <1>1, <1>4, <2>1 DEF Applied
<1>5. CASE m.op \notin {"buffer", "dropped"} /\ k.state # "networks"
  <2>1. ClientOK([k EXCEPT !.state = "ready", !.seen = m.seen, !.marker = m.marker])
    BY DEF ClientOK
  <2>2. ClientOK([k EXCEPT !.seen[m.b] = m.msg]) /\ ClientOK([k EXCEPT !.marker[m.b] = m.msg])
    BY DEF ClientOK
  <2>3. ClientOK(Forgotten(k, m.b)) /\ ClientOK(Renamed(k, m.b, m.name))
    BY DEF ClientOK, Forgotten, Renamed, Without
  <2>4. m.op \in {"seen", "marker", "removed", "renamed", "init"}
    BY <1>5 DEF Messages
  <2>5. QED
    BY <1>5, <2>1, <2>2, <2>3, <2>4 DEF Applied
<1>6. QED
  BY <1>2, <1>3, <1>4, <1>5

LEMMA ClientReceivesStep ==
  ASSUME IInv, NEW c \in Clients, ClientReceives(c)
  PROVE  IInv'
<1> DEFINE m == Head(down[c])
           k == client[c]
<1>1. m \in Messages(used) /\ Tail(down[c]) \in Seq(Messages(used))
  BY HeadTailProperties DEF IInv, WiresOK, ClientReceives
<1>2. ClientOK(Applied(k, m))
  BY <1>1, AppliedOK DEF IInv, ClientsOK
<1>3. /\ client' = [client EXCEPT ![c] = Applied(k, m)]
      /\ UNCHANGED <<rows, used, seen, marker, dirtySeen, dirtyMarker>>
  BY DEF ClientReceives, coreVars, IInv, ClientsOK
<1>4. PurgeAsked(k, m) \in Seq(Requests(used))
  <2>1. [op |-> "purge"] \in Requests(used)
    BY DEF Requests
  <2>2. <<[op |-> "purge"]>> \in Seq(Requests(used)) /\ << >> \in Seq(Requests(used))
    BY <2>1
  <2>3. QED
    BY <2>2 DEF PurgeAsked
<1>5. up[c] \o PurgeAsked(k, m) \in Seq(Requests(used))
  BY <1>4, ConcatProperties DEF IInv, WiresOK
<1>6. up' = [up EXCEPT ![c] = @ \o PurgeAsked(k, m)] /\ down' = [down EXCEPT ![c] = Tail(@)]
  BY DEF ClientReceives
<1>7. WiresOK'
  BY <1>1, <1>3, <1>5, <1>6 DEF IInv, WiresOK
<1>8. QED
  BY <1>2, <1>3, <1>7, ClientAlone

\* The user asks about buffers the client knows.
LEMMA RequestStep ==
  ASSUME IInv, NEW c \in Clients, NEW b, NEW r, Request(c, b, r),
         b \in used => r \in Requests(used),
         NEW k, ClientOK(k), client' = [client EXCEPT ![c] = k]
  PROVE  IInv'
<1>1. b \in used
  BY DEF Request, IInv, ClientsOK, ClientOK
<1>2. Append(up[c], r) \in Seq(Requests(used))
  BY <1>1, AppendProperties DEF IInv, WiresOK
<1>3. up' = [up EXCEPT ![c] = Append(@, r)]
      /\ UNCHANGED <<rows, used, seen, marker, dirtySeen, dirtyMarker, down>>
  BY DEF Request, coreVars
<1>4. WiresOK'
  BY <1>2, <1>3 DEF IInv, WiresOK
<1>5. QED
  BY <1>3, <1>4, ClientAlone

LEMMA UserStepStep ==
  ASSUME IInv, NEW c \in Clients, UserStep(c)
  PROVE  IInv'
<1>1. PICK b \in Ids :
        \/ \E msg \in 1 .. MaxMsg :
             \/ MoveMarker(c, b, msg)
             \/ Request(c, b, [op |-> "seen", b |-> b, msg |-> msg]) /\ UNCHANGED client
        \/ Request(c, b, [op |-> "remove", b |-> b]) /\ UNCHANGED client
        \/ \E n \in Names :
             Request(c, b, [op |-> "rename", b |-> b, name |-> n]) /\ UNCHANGED client
        \/ \E b2 \in Ids :
             Request(c, b, [op |-> "merge", b |-> b, b2 |-> b2]) /\ UNCHANGED client
  BY DEF UserStep
<1>2. ClientOK(client[c])
  BY DEF IInv, ClientsOK
<1>3. ASSUME UNCHANGED client, NEW r, Request(c, b, r), b \in used => r \in Requests(used)
      PROVE  IInv'
  <2>1. client' = [client EXCEPT ![c] = client[c]]
    BY <1>3 DEF Request, IInv, ClientsOK
  <2>2. QED
    BY <1>2, <1>3, <2>1, RequestStep
<1>4. ASSUME NEW msg \in 1 .. MaxMsg, MoveMarker(c, b, msg) PROVE IInv'
  <2> DEFINE k == [client[c] EXCEPT !.marker[b] = msg]
  <2>1. ClientOK(k)
    BY <1>2 DEF ClientOK
  <2>2. client' = [client EXCEPT ![c] = k]
    BY <1>4 DEF MoveMarker
  <2>3. b \in used => [op |-> "marker", b |-> b, msg |-> msg] \in Requests(used)
    BY <1>4, BufferAssumption DEF Requests
  <2>4. QED
    BY <1>4, <2>1, <2>2, <2>3, RequestStep DEF MoveMarker
<1>5. \A msg \in 1 .. MaxMsg :
        b \in used => [op |-> "seen", b |-> b, msg |-> msg] \in Requests(used)
  BY BufferAssumption DEF Requests
<1>6. /\ [op |-> "remove", b |-> b] \in Requests(used)
      /\ \A n \in Names : [op |-> "rename", b |-> b, name |-> n] \in Requests(used)
      /\ \A b2 \in Ids : [op |-> "merge", b |-> b, b2 |-> b2] \in Requests(used)
  BY DEF Requests
<1>7. QED
  BY <1>1, <1>3, <1>4, <1>5, <1>6

LEMMA ComeAndGoStep ==
  ASSUME IInv, NEW c \in Clients, Attach(c) \/ Detach(c) \/ Synchronized(c)
  PROVE  IInv'
<1>1. CASE Attach(c)
  <2> DEFINE k == [client[c] EXCEPT !.state = "networks", !.known = NamesOf]
  <2>1. ClientOK(k)
    BY DEF IInv, ClientsOK, ClientOK, TableOK, NamesOf
  <2>2. client' = [client EXCEPT ![c] = k]
    BY <1>1 DEF Attach
  <2>3. UNCHANGED <<rows, used, seen, marker, dirtySeen, dirtyMarker, up, down>>
    BY <1>1 DEF Attach, coreVars
  <2>4. QED
    BY <2>1, <2>2, <2>3, ClientAlone DEF IInv, WiresOK
<1>2. CASE Detach(c)
  <2>1. ClientOK(Away)
    <3>1. DOMAIN << >> = {}
      OBVIOUS
    <3>2. QED
      BY <3>1 DEF ClientOK, Away
  <2>2. /\ client' = [client EXCEPT ![c] = Away]
        /\ UNCHANGED <<rows, used, seen, marker, dirtySeen, dirtyMarker>>
        /\ up' = [up EXCEPT ![c] = << >>] /\ down' = [down EXCEPT ![c] = << >>]
    BY <1>2 DEF Detach, coreVars
  <2>3. WiresOK'
    BY <2>2, EmptySeq DEF IInv, WiresOK
  <2>4. QED
    BY <2>1, <2>2, <2>3, ClientAlone
<1>3. CASE Synchronized(c)
  <2> DEFINE k == [client[c] EXCEPT !.state = "synced"]
  <2>1. ClientOK(k)
    BY DEF IInv, ClientsOK, ClientOK
  <2>2. /\ client' = [client EXCEPT ![c] = k]
        /\ UNCHANGED <<rows, used, seen, marker, dirtySeen, dirtyMarker, down>>
        /\ up' = [up EXCEPT ![c] = Append(@, [op |-> "init"])]
    BY <1>3 DEF Synchronized, coreVars
  <2>3. Append(up[c], [op |-> "init"]) \in Seq(Requests(used))
    <3>1. [op |-> "init"] \in Requests(used)
      BY DEF Requests
    <3>2. QED
      BY <3>1, AppendProperties DEF IInv, WiresOK
  <2>4. WiresOK'
    BY <2>2, <2>3 DEF IInv, WiresOK
  <2>5. QED
    BY <2>1, <2>2, <2>4, ClientAlone
<1>4. QED
  BY <1>1, <1>2, <1>3

-----------------------------------------------------------------------------
LEMMA InvInit == BufferInit => IInv
<1> SUFFICES ASSUME BufferInit PROVE IInv
  OBVIOUS
<1>1. \A b \in DOMAIN Table0 : Row(Table0[b])
  BY BufferAssumption DEF Row
<1>2. TableOK
  BY <1>1, BufferAssumption DEF BufferInit, TableOK
<1>3. /\ seen \in [Ids -> Nat] /\ marker \in [Ids -> Nat]
      /\ \A b \in Ids \ used : seen[b] = 0 /\ marker[b] = 0
      /\ \A b \in DOMAIN rows : seen[b] = rows[b].seen /\ marker[b] = rows[b].marker
  BY <1>1, BufferAssumption DEF BufferInit, SeenIn, MarkerIn, Row
<1>4. PositionsOK /\ UnsavedIsDirty
  BY <1>3 DEF PositionsOK, UnsavedIsDirty
<1>5. ClientOK(Away) /\ ClientOK(Old)
  <2>1. DOMAIN << >> = {}
    OBVIOUS
  <2>2. QED
    BY <2>1 DEF BufferInit, ClientOK, Away, Old
<1>6. ClientsOK
  BY <1>5 DEF BufferInit, ClientsOK
<1>7. WiresOK
  BY EmptySeq DEF BufferInit, WiresOK
<1>8. QED
  BY <1>2, <1>4, <1>6, <1>7 DEF IInv

LEMMA InvStep == IInv /\ [BufferNext]_bufferVars => IInv'
<1> SUFFICES ASSUME IInv, [BufferNext]_bufferVars PROVE IInv'
  OBVIOUS
<1>1. CASE JoinOrPart
  BY <1>1 DEF JoinOrPart, IInv, TableOK, PositionsOK, UnsavedIsDirty, ClientsOK, ClientOK, WiresOK
<1>2. CASE UNCHANGED bufferVars
  BY <1>2 DEF bufferVars, coreVars, IInv, TableOK, PositionsOK, UnsavedIsDirty, ClientsOK,
              ClientOK, WiresOK
<1>3. ASSUME NEW b \in Queries, NEW n \in Names, CreateBuffer(b, n) \/ NickChange(b, n)
      PROVE  IInv'
  <2>1. b \in Ids
    BY DEF Ids
  <2>2. QED
    BY <1>3, <2>1, CreateStep, NickStep
<1>4. ASSUME NEW b \in Chans, CreateBuffer(b, Channel) PROVE IInv'
  <2>1. b \in Ids
    BY DEF Ids
  <2>2. QED
    BY <1>4, <2>1, CreateStep
<1>5. QED
  BY <1>1, <1>2, <1>3, <1>4, CoreReceivesStep, ClientReceivesStep, ComeAndGoStep, UserStepStep,
     PurgeStep, StoreStep, DestroyStep, RestartStep DEF BufferNext

\* Whatever is read, marked, removed, merged, renamed, purged or asked for by any number of
\* clients, a position that differs from its row is marked to be written.
THEOREM UnsavedIsDirtyHolds == BufferSpec => []UnsavedIsDirty
<1>1. IInv => UnsavedIsDirty
  BY DEF IInv
<1>2. QED
  BY <1>1, InvInit, InvStep, PTL DEF BufferSpec

\* An orderly end of the core: it starts again with the positions it had.
KeepsPositions ==
  Shutdown => \A b \in DOMAIN rows :
                b \in DOMAIN rows' /\ seen'[b] = seen[b] /\ marker'[b] = marker[b]

\* storeDirtyIds and the constructor of CoreBufferSyncer together lose no position.
THEOREM ShutdownKeeps == BufferSpec => [][KeepsPositions]_bufferVars
<1>1. ASSUME IInv, Shutdown, NEW b \in DOMAIN rows
      PROVE  b \in DOMAIN rows' /\ seen'[b] = seen[b] /\ marker'[b] = marker[b]
  <2>1. rows' = Stored /\ seen' = SeenIn(Stored) /\ marker' = MarkerIn(Stored)
    BY <1>1 DEF Shutdown, StartWith
  <2>2. b \in Ids /\ b \in DOMAIN Stored /\ Stored[b].seen = seen[b] /\ Stored[b].marker = marker[b]
    BY <1>1, StoredRows DEF IInv, TableOK
  <2>3. QED
    BY <2>1, <2>2 DEF SeenIn, MarkerIn
<1>2. IInv => KeepsPositions
  BY <1>1 DEF KeepsPositions
<1>3. QED
  BY <1>2, InvInit, InvStep, PTL DEF BufferSpec
-----------------------------------------------------------------------------
(* What is under way to a client, buffer by buffer *)

\* the name f has for b, if any
At(f, b) == {f[x] : x \in {b} \cap DOMAIN f}

Removes(m, b) == m.op = "removed" /\ m.b = b

\* What message m makes of the name v a client has for b, and of the position x.
Named(v, m, b) ==
  IF m.op = "dropped" \/ Removes(m, b) THEN {}
  ELSE IF \/ m.op = "buffer" /\ m.b = b /\ v = {}
          \/ m.op = "renamed" /\ m.b = b /\ v # {}
    THEN {m.name} ELSE v
SeenAt(x, m, b) ==
  CASE m.op = "init" -> m.seen[b]
    [] Removes(m, b) -> 0
    [] m.op = "seen" /\ m.b = b /\ x < m.msg -> m.msg
    [] OTHER -> x

\* the messages that set the marker line of b, and to what
About(m, b) == m.op = "init" \/ (m.op \in {"marker", "removed"} /\ m.b = b)
Marked(m, b) == IF m.op = "init" THEN m.marker[b] ELSE IF m.op = "removed" THEN 0 ELSE m.msg

Has(w, op) == \E i \in 1 .. Len(w) : w[i].op = op

\* The last that client asked about the marker line of b is to move it to v.
Pending(u, b, v) ==
  \E j \in 1 .. Len(u) :
    /\ u[j].op = "marker" /\ u[j].b = b /\ u[j].msg = v
    /\ \A x \in j + 1 .. Len(u) : ~(u[x].op = "marker" /\ u[x].b = b)

\* The names n and the positions p that b has with the client after each message of w.
Paths(n, p, w, b) ==
  \A i \in 1 .. Len(w) : n[i] = Named(n[i - 1], w[i], b) /\ p[i] = SeenAt(p[i - 1], w[i], b)

\* They lead to the name N of the core.  A buffer that is gone, but with its network, was
\* or will be removed.
NamesFit(k, n, w, b, N, O) ==
  b \notin k.missed =>
    /\ n[0] = At(k.known, b) /\ n[Len(w)] = N
    /\ \A i \in 1 .. Len(w) : w[i].op = "dropped" /\ n[i - 1] # {} => b \in O
    /\ N = {} /\ b \notin O =>
         \A i \in 0 .. Len(w) : n[i] # {} => \E j \in i + 1 .. Len(w) : Removes(w[j], b)

\* They lead to the position x of the core, once the client has its initial data.
SeenFits(k, p, w, b, x) ==
  /\ k.state = "ready" => p[0] = k.seen[b]
  /\ k.state = "ready" \/ Has(w, "init") => p[Len(w)] = x

\* The last word about the marker line of b is the core's, y.  Without one the client has
\* it already, unless it moved it before the core did.
LastWord(w, b, y) ==
  \A i \in 1 .. Len(w) :
    About(w[i], b) /\ (\A x \in i + 1 .. Len(w) : ~About(w[x], b)) => Marked(w[i], b) = y
MarkerFits(k, u, w, b, y, O) ==
  /\ LastWord(w, b, y)
  /\ k.state = "ready" /\ (\A i \in 1 .. Len(w) : ~About(w[i], b)) =>
       \/ k.marker[b] = y
       \/ Pending(u, b, k.marker[b]) /\ (b \in DOMAIN k.known \/ b \in O \/ b \in k.missed)

\* Message i sets a position of b, which the client does not know then.
Asks(k, n, p, w, i, b) ==
  /\ n[i - 1] = {}
  /\ \/ w[i].op = "init" /\ (w[i].seen[b] # 0 \/ w[i].marker[b] # 0)
     \/ /\ w[i].op = "seen" /\ w[i].b = b /\ p[i - 1] < w[i].msg
        /\ k.state = "ready" \/ \E j \in 1 .. i - 1 : w[j].op = "init"
     \/ /\ w[i].op = "marker" /\ w[i].b = b
        /\ \/ \E j \in 1 .. i - 1 :
                /\ About(w[j], b) /\ Marked(w[j], b) # w[i].msg
                /\ \A x \in j + 1 .. i - 1 : ~About(w[x], b)
                /\ \A x \in j .. i - 1 : n[x] = {}
           \/ /\ k.marker[b] # w[i].msg
              /\ \A x \in 1 .. i - 1 : ~About(w[x], b)
              /\ \A x \in 0 .. i - 1 : n[x] = {}
WillAsk(k, u, w, n, p, b) ==
  \/ k.state = "networks" \/ Has(u, "purge") \/ Has(u, "init")
  \/ \E i \in 1 .. Len(w) : Asks(k, n, p, w, i, b)

\* Client k with u under way to the core and w to it, and what the core has for b: the name
\* N, the positions x and y; O are the orphans, P whether a purge is posted.
Fits(k, u, w, b, N, x, y, O, P) ==
  \E n, p :
    /\ Paths(n, p, w, b) /\ NamesFit(k, n, w, b, N, O) /\ SeenFits(k, p, w, b, x)
    /\ MarkerFits(k, u, w, b, y, O)
    /\ b \notin k.missed /\ N = {} /\ b \notin O /\ (x # 0 \/ y # 0) /\ ~P
         => WillAsk(k, u, w, n, p, b)

NoInit(w) == \A i \in 1 .. Len(w) : w[i].op # "init"
OneInit(w) ==
  \E i \in 1 .. Len(w) : w[i].op = "init" /\ \A j \in 1 .. Len(w) : w[j].op = "init" => j = i

\* The initial data is asked for once, and comes once.
InitOnce(s, u, w) ==
  IF s = "synced" THEN (OneInit(u) /\ NoInit(w)) \/ (NoInit(u) /\ OneInit(w))
  ELSE NoInit(u) /\ NoInit(w)

-----------------------------------------------------------------------------
(* One message more to a client *)

Longer(w, w2, m) ==
  /\ Len(w) \in Nat /\ Len(w2) = Len(w) + 1 /\ w2[Len(w) + 1] = m
  /\ \A i \in 1 .. Len(w) : w2[i] = w[i]

LEMMA LastOf ==
  ASSUME NEW n \in Nat, NEW S \in SUBSET (1 .. n), S # {}
  PROVE  \E i \in S : \A j \in S : j <= i
<1> DEFINE D == {n - i : i \in S}
<1>1. D \subseteq Nat /\ D # {}
  OBVIOUS
<1>2. PICK d \in D : \A e \in D : ~(<<e, d>> \in OpToRel(<, Nat))
  BY <1>1, NatLessThanWellFounded, WFMin
<1>3. PICK i \in S : d = n - i
  OBVIOUS
<1>4. ASSUME NEW j \in S
      PROVE  j <= i
  <2>1. n - j \in D /\ n - j \in Nat /\ d \in Nat
    BY <1>1
  <2>2. ~(n - j < d)
    BY <1>2, <2>1 DEF OpToRel
  <2> QED BY <1>3, <2>2
<1> QED BY <1>4

LEMMA AtIs ==
  ASSUME NEW f, NEW b
  PROVE  /\ b \in DOMAIN f => At(f, b) = {f[b]} /\ At(f, b) # {}
         /\ b \notin DOMAIN f => At(f, b) = {}
<1>1. CASE b \in DOMAIN f
  <2>1. {b} \cap DOMAIN f = {b}
    BY <1>1
  <2>2. At(f, b) = {f[x] : x \in {b}}
    BY <2>1 DEF At
  <2> QED BY <1>1, <2>2
<1>2. CASE b \notin DOMAIN f
  <2>1. {b} \cap DOMAIN f = {}
    BY <1>2
  <2> QED BY <1>2, <2>1 DEF At
<1> QED BY <1>1, <1>2

LEMMA PathsTold ==
  ASSUME NEW n, NEW n2, NEW p, NEW p2, NEW w, NEW w2, NEW m, NEW b,
         Longer(w, w2, m), Paths(n, p, w, b),
         \A i \in 0 .. Len(w) : n2[i] = n[i] /\ p2[i] = p[i],
         n2[Len(w) + 1] = Named(n[Len(w)], m, b), p2[Len(w) + 1] = SeenAt(p[Len(w)], m, b)
  PROVE  Paths(n2, p2, w2, b)
<1> SUFFICES ASSUME NEW i \in 1 .. Len(w) + 1
             PROVE  n2[i] = Named(n2[i - 1], w2[i], b) /\ p2[i] = SeenAt(p2[i - 1], w2[i], b)
  BY DEF Paths, Longer
<1>1. CASE i = Len(w) + 1
  <2>1. i - 1 = Len(w) /\ Len(w) \in 0 .. Len(w) /\ w2[i] = m
    BY <1>1 DEF Longer
  <2> QED BY <1>1, <2>1
<1>2. CASE i # Len(w) + 1
  <2>1. i \in 1 .. Len(w) /\ i \in 0 .. Len(w) /\ i - 1 \in 0 .. Len(w) /\ w2[i] = w[i]
    BY <1>2 DEF Longer
  <2> QED BY <2>1 DEF Paths
<1> QED BY <1>1, <1>2

LEMMA NamesTold ==
  ASSUME NEW k, NEW n, NEW n2, NEW w, NEW w2, NEW m, NEW b, NEW N, NEW O, NEW O2,
         Longer(w, w2, m), NamesFit(k, n, w, b, N, O),
         \A i \in 0 .. Len(w) : n2[i] = n[i], n2[Len(w) + 1] = Named(n[Len(w)], m, b),
         b \in O => b \in O2, m.op = "dropped" /\ N # {} => b \in O2
  PROVE  NamesFit(k, n2, w2, b, Named(N, m, b), O2)
<1> SUFFICES ASSUME b \notin k.missed
             PROVE  /\ n2[0] = At(k.known, b) /\ n2[Len(w2)] = Named(N, m, b)
                    /\ \A i \in 1 .. Len(w2) : w2[i].op = "dropped" /\ n2[i - 1] # {} => b \in O2
                    /\ Named(N, m, b) = {} /\ b \notin O2 =>
                         \A i \in 0 .. Len(w2) : n2[i] # {} => \E j \in i + 1 .. Len(w2) : Removes(w2[j], b)
  BY DEF NamesFit
<1> DEFINE L == Len(w)
<1>1. /\ n[0] = At(k.known, b) /\ n[L] = N
      /\ \A i \in 1 .. L : w[i].op = "dropped" /\ n[i - 1] # {} => b \in O
      /\ N = {} /\ b \notin O =>
           \A i \in 0 .. L : n[i] # {} => \E j \in i + 1 .. L : Removes(w[j], b)
  BY DEF NamesFit
<1>2. L \in Nat /\ Len(w2) = L + 1 /\ w2[L + 1] = m /\ \A i \in 1 .. L : w2[i] = w[i]
  BY DEF Longer
<1> HIDE DEF L
<1>3. /\ \A i \in 0 .. L : n2[i] = n[i]
      /\ n2[L + 1] = Named(N, m, b)
  BY <1>1 DEF L
<1>4. n2[0] = At(k.known, b) /\ n2[Len(w2)] = Named(N, m, b)
  BY <1>1, <1>2, <1>3
<1>5. ASSUME NEW i \in 1 .. L + 1, w2[i].op = "dropped", n2[i - 1] # {}
      PROVE  b \in O2
  <2>1. CASE i = L + 1
    <3>1. n2[i - 1] = N
      BY <1>1, <1>2, <1>3, <2>1
    <3> QED BY <1>2, <1>5, <2>1, <3>1
  <2>2. CASE i # L + 1
    <3>1. i \in 1 .. L /\ i - 1 \in 0 .. L
      BY <1>2, <2>2
    <3> QED BY <1>1, <1>2, <1>3, <1>5, <3>1
  <2> QED BY <2>1, <2>2
<1>6. ASSUME Named(N, m, b) = {}, b \notin O2, NEW i \in 0 .. L + 1, n2[i] # {}
      PROVE  \E j \in i + 1 .. L + 1 : Removes(w2[j], b)
  <2>1. i \in 0 .. L
    BY <1>2, <1>3, <1>6
  <2>2. CASE Removes(m, b)
    <3>1. L + 1 \in i + 1 .. L + 1
      BY <1>2, <2>1
    <3> QED BY <1>2, <2>2, <3>1
  <2>3. CASE ~Removes(m, b)
    <3>1. N = {} /\ b \notin O
      BY <1>6, <2>3 DEF Named
    <3>2. PICK j \in i + 1 .. L : Removes(w[j], b)
      BY <1>1, <1>3, <1>6, <2>1, <3>1
    <3>3. j \in i + 1 .. L + 1 /\ j \in 1 .. L
      BY <1>2, <2>1
    <3> QED BY <1>2, <3>2, <3>3
  <2> QED BY <2>2, <2>3
<1> QED BY <1>2, <1>4, <1>5, <1>6

LEMMA SeenTold ==
  ASSUME NEW k, NEW p, NEW p2, NEW w, NEW w2, NEW m, NEW b, NEW x,
         Longer(w, w2, m), SeenFits(k, p, w, b, x),
         \A i \in 0 .. Len(w) : p2[i] = p[i], p2[Len(w) + 1] = SeenAt(p[Len(w)], m, b)
  PROVE  SeenFits(k, p2, w2, b, SeenAt(x, m, b))
<1>1. Len(w) \in Nat /\ Len(w2) = Len(w) + 1 /\ w2[Len(w) + 1] = m /\ \A i \in 1 .. Len(w) : w2[i] = w[i]
  BY DEF Longer
<1>2. p2[0] = p[0]
  BY <1>1
<1>3. CASE m.op = "init"
  <2>1. p2[Len(w2)] = m.seen[b] /\ SeenAt(x, m, b) = m.seen[b]
    BY <1>1, <1>3 DEF SeenAt, Removes
  <2> QED BY <1>2, <2>1 DEF SeenFits
<1>4. CASE m.op # "init"
  <2>1. Has(w2, "init") => Has(w, "init")
    <3> SUFFICES ASSUME NEW i \in 1 .. Len(w) + 1, w2[i].op = "init"
                 PROVE  \E j \in 1 .. Len(w) : w[j].op = "init"
      BY <1>1 DEF Has
    <3>1. i \in 1 .. Len(w)
      BY <1>1, <1>4
    <3> QED BY <1>1, <3>1
  <2> QED BY <1>1, <1>2, <2>1 DEF SeenFits
<1> QED BY <1>3, <1>4

LEMMA MarkerTold ==
  ASSUME NEW k, NEW u, NEW u2, NEW w, NEW w2, NEW m, NEW b, NEW y, NEW y2, NEW O, NEW O2,
         Longer(w, w2, m), MarkerFits(k, u, w, b, y, O), b \in O => b \in O2,
         y2 = IF About(m, b) THEN Marked(m, b) ELSE y,
         ~About(m, b) => \A v : Pending(u, b, v) => Pending(u2, b, v)
  PROVE  MarkerFits(k, u2, w2, b, y2, O2)
<1>1. Len(w) \in Nat /\ Len(w2) = Len(w) + 1 /\ w2[Len(w) + 1] = m /\ \A i \in 1 .. Len(w) : w2[i] = w[i]
  BY DEF Longer
<1>2. LastWord(w2, b, y2)
  <2> SUFFICES ASSUME NEW i \in 1 .. Len(w) + 1, About(w2[i], b),
                      \A z \in i + 1 .. Len(w) + 1 : ~About(w2[z], b)
               PROVE  Marked(w2[i], b) = y2
    BY <1>1 DEF LastWord
  <2>1. CASE i = Len(w) + 1
    BY <1>1, <2>1
  <2>2. CASE i # Len(w) + 1
    <3>1. i \in 1 .. Len(w) /\ Len(w) + 1 \in i + 1 .. Len(w) + 1
      BY <1>1, <2>2
    <3>2. ~About(m, b)
      BY <1>1, <3>1
    <3>3. \A z \in i + 1 .. Len(w) : z \in i + 1 .. Len(w) + 1 /\ z \in 1 .. Len(w)
      BY <1>1, <3>1
    <3>4. \A z \in i + 1 .. Len(w) : ~About(w[z], b)
      BY <1>1, <3>3
    <3> QED BY <1>1, <3>1, <3>2, <3>4 DEF MarkerFits, LastWord
  <2> QED BY <2>1, <2>2
<1>3. ASSUME k.state = "ready", \A i \in 1 .. Len(w) + 1 : ~About(w2[i], b)
      PROVE  \/ k.marker[b] = y2
             \/ Pending(u2, b, k.marker[b]) /\ (b \in DOMAIN k.known \/ b \in O2 \/ b \in k.missed)
  <2>1. ~About(m, b)
    <3>1. Len(w) + 1 \in 1 .. Len(w) + 1
      BY <1>1
    <3> QED BY <1>1, <1>3, <3>1
  <2>2. \A i \in 1 .. Len(w) : ~About(w[i], b)
    <3>1. \A i \in 1 .. Len(w) : i \in 1 .. Len(w) + 1
      BY <1>1
    <3> QED BY <1>1, <1>3, <3>1
  <2> QED BY <1>3, <2>1, <2>2 DEF MarkerFits
<1> QED BY <1>1, <1>2, <1>3 DEF MarkerFits

\* What a client will ask because of it stays so.
LEMMA AsksTold ==
  ASSUME NEW k, NEW n, NEW n2, NEW p, NEW p2, NEW w, NEW w2, NEW m, NEW b,
         Longer(w, w2, m), \A i \in 0 .. Len(w) : n2[i] = n[i] /\ p2[i] = p[i],
         NEW i \in 1 .. Len(w), Asks(k, n, p, w, i, b)
  PROVE  Asks(k, n2, p2, w2, i, b)
<1>1. Len(w) \in Nat /\ \A x \in 1 .. Len(w) : w2[x] = w[x]
  BY DEF Longer
<1>2. i - 1 \in 0 .. Len(w) /\ w2[i] = w[i]
  BY <1>1
<1>3. \A j \in 1 .. i - 1 : w2[j] = w[j]
  <2>1. \A j \in 1 .. i - 1 : j \in 1 .. Len(w)
    BY <1>1
  <2> QED BY <1>1, <2>1
<1>4. \A j \in 0 .. i - 1 : n2[j] = n[j]
  <2>1. \A j \in 0 .. i - 1 : j \in 0 .. Len(w)
    BY <1>1
  <2> QED BY <2>1
<1>5. n2[i - 1] = n[i - 1] /\ p2[i - 1] = p[i - 1]
  BY <1>2
<1>6. \A j \in 1 .. i - 1 : \A x \in j + 1 .. i - 1 : x \in 1 .. i - 1
  OBVIOUS
<1>7. \A j \in 1 .. i - 1 : \A x \in j .. i - 1 : x \in 0 .. i - 1
  OBVIOUS
<1> QED BY <1>2, <1>3, <1>4, <1>5, <1>6, <1>7 DEF Asks

\* A position that is set for a buffer that is gone is news to the client.
LEMMA AsksNew ==
  ASSUME NEW k, NEW u, NEW n, NEW n2, NEW p, NEW p2, NEW w, NEW w2, NEW m, NEW b, NEW x, NEW y, NEW O,
         Longer(w, w2, m), \A i \in 0 .. Len(w) : n2[i] = n[i] /\ p2[i] = p[i],
         NamesFit(k, n, w, b, {}, O), SeenFits(k, p, w, b, x), MarkerFits(k, u, w, b, y, O),
         b \notin k.missed, b \notin O,
         InitOnce(k.state, u, w), k.state \in {"synced", "ready"}, m.op = "init" \/ ~Has(u, "init"),
         \/ m.op = "init" /\ (m.seen[b] # 0 \/ m.marker[b] # 0)
         \/ m.op = "seen" /\ m.b = b /\ x < m.msg
         \/ m.op = "marker" /\ m.b = b /\ y # m.msg
  PROVE  Asks(k, n2, p2, w2, Len(w) + 1, b)
<1> DEFINE L == Len(w)
<1>1. L \in Nat /\ w2[L + 1] = m /\ (L + 1) - 1 = L /\ \A i \in 1 .. L : w2[i] = w[i]
  BY DEF Longer
<1>2. \A i \in 0 .. L : n2[i] = n[i] /\ p2[i] = p[i]
  OBVIOUS
<1>3. ASSUME NEW i \in 0 .. L, \A j \in i + 1 .. L : ~Removes(w[j], b)
      PROVE  n2[i] = {}
  BY <1>3 DEF NamesFit
<1> HIDE DEF L
<1>4. n2[L] = {}
  <2>1. L \in 0 .. L /\ L + 1 .. L = {}
    BY <1>1
  <2> QED BY <1>3, <2>1
<1>5. CASE m.op = "init"
  BY <1>1, <1>4, <1>5 DEF Asks, L
<1>6. ASSUME m.op # "init"
      PROVE  k.state = "ready" \/ \E j \in 1 .. L : w[j].op = "init"
  BY <1>6 DEF InitOnce, OneInit, NoInit, Has, L
<1>7. CASE m.op = "seen"
  <2>1. p2[L] = x
    <3>1. L \in 0 .. L /\ p[L] = x
      BY <1>1, <1>6, <1>7 DEF SeenFits, Has, L
    <3> QED BY <1>2, <3>1
  <2>2. k.state = "ready" \/ \E j \in 1 .. L : w2[j].op = "init"
    BY <1>1, <1>6, <1>7
  <2> QED BY <1>1, <1>4, <1>7, <2>1, <2>2 DEF Asks, L
<1>8. CASE m.op = "marker"
  <2> DEFINE S == {i \in 1 .. L : About(w[i], b)}
  <2>1. \A j \in 1 .. L : Removes(w[j], b) => About(w[j], b)
    BY DEF Removes, About
  <2>2. CASE S = {}
    <3>1. \A i \in 1 .. L : ~About(w[i], b)
      BY <2>2
    <3>2. k.state = "ready"
      BY <1>6, <1>8, <3>1 DEF About
    <3>3. \A i \in 0 .. L : n2[i] = {}
      <4>1. \A i \in 0 .. L : \A j \in i + 1 .. L : j \in 1 .. L
        BY <1>1
      <4> QED BY <1>3, <2>1, <3>1, <4>1
    <3>4. b \notin DOMAIN k.known
      <4>1. n2[0] = At(k.known, b)
        BY <1>1, <1>2 DEF NamesFit
      <4>2. n2[0] = {}
        BY <1>1, <3>3
      <4> QED BY <4>1, <4>2, AtIs
    <3>5. k.marker[b] = y
      BY <3>1, <3>2, <3>4 DEF MarkerFits, L
    <3>6. \A i \in 1 .. L : ~About(w2[i], b)
      BY <1>1, <3>1
    <3> QED BY <1>1, <1>4, <1>8, <3>3, <3>5, <3>6 DEF Asks, L
  <2>3. CASE S # {}
    <3>1. PICK j \in S : \A i \in S : i <= j
      BY <1>1, <2>3, LastOf
    <3>2. j \in 1 .. L /\ About(w[j], b) /\ \A i \in j + 1 .. L : i \in 1 .. L /\ ~About(w[i], b)
      <4>1. \A i \in j + 1 .. L : i \in 1 .. L /\ ~(i <= j)
        BY <1>1
      <4> QED BY <3>1, <4>1
    <3>3. Marked(w[j], b) = y
      BY <3>2 DEF MarkerFits, LastWord, L
    <3>4. \A i \in j .. L : n2[i] = {}
      <4>1. \A i \in j .. L : i \in 0 .. L /\ \A z \in i + 1 .. L : z \in j + 1 .. L
        BY <1>1, <3>2
      <4> QED BY <1>3, <2>1, <3>2, <4>1
    <3>5. /\ About(w2[j], b) /\ Marked(w2[j], b) = y
          /\ \A i \in j + 1 .. L : ~About(w2[i], b)
      BY <1>1, <3>2, <3>3
    <3> QED BY <1>1, <1>4, <1>8, <3>2, <3>4, <3>5 DEF Asks, L
  <2> QED BY <2>2, <2>3
<1> QED BY <1>5, <1>7, <1>8

\* The core tells a client of a change, m.
LEMMA FitsTold ==
  ASSUME NEW k, NEW u, NEW u2, NEW w, NEW w2, NEW m, NEW b, NEW N, NEW x, NEW y, NEW x2, NEW y2,
         NEW O, NEW O2, NEW P \in BOOLEAN,
         Fits(k, u, w, b, N, x, y, O, P), Longer(w, w2, m),
         InitOnce(k.state, u, w), k.state \in {"networks", "synced", "ready"},
         b \in O => b \in O2, m.op = "dropped" /\ N # {} => b \in O2,
         x2 = SeenAt(x, m, b), About(m, b) => y2 = Marked(m, b), ~About(m, b) => y2 = y,
         m.op = "seen" /\ m.b = b => x < m.msg, m.op = "marker" /\ m.b = b => y # m.msg,
         m.op = "init" => m.seen[b] = x /\ m.marker[b] = y,
         ~About(m, b) => \A v : Pending(u, b, v) => Pending(u2, b, v),
         Has(u, "purge") => Has(u2, "purge"), Has(u, "init") => Has(u2, "init") \/ m.op = "init"
  PROVE  Fits(k, u2, w2, b, Named(N, m, b), x2, y2, O2, P)
<1>1. PICK n, p :
        /\ Paths(n, p, w, b) /\ NamesFit(k, n, w, b, N, O) /\ SeenFits(k, p, w, b, x)
        /\ MarkerFits(k, u, w, b, y, O)
        /\ b \notin k.missed /\ N = {} /\ b \notin O /\ (x # 0 \/ y # 0) /\ ~P
             => WillAsk(k, u, w, n, p, b)
  BY DEF Fits
<1> DEFINE L == Len(w)
           n2 == [i \in 0 .. L + 1 |-> IF i = L + 1 THEN Named(n[L], m, b) ELSE n[i]]
           p2 == [i \in 0 .. L + 1 |-> IF i = L + 1 THEN SeenAt(p[L], m, b) ELSE p[i]]
<1>2. L \in Nat /\ Len(w2) = L + 1
  BY DEF Longer
<1>3. /\ \A i \in 0 .. L : n2[i] = n[i] /\ p2[i] = p[i]
      /\ n2[L + 1] = Named(n[L], m, b) /\ p2[L + 1] = SeenAt(p[L], m, b)
  BY <1>2
<1> HIDE DEF n2, p2
<1>4. Paths(n2, p2, w2, b)
  BY <1>1, <1>3, PathsTold
<1>5. NamesFit(k, n2, w2, b, Named(N, m, b), O2)
  BY <1>1, <1>3, NamesTold
<1>6. SeenFits(k, p2, w2, b, x2)
  BY <1>1, <1>3, SeenTold
<1>7. MarkerFits(k, u2, w2, b, y2, O2)
  <2>1. y2 = IF About(m, b) THEN Marked(m, b) ELSE y
    OBVIOUS
  <2> QED BY <1>1, <2>1, MarkerTold
<1>8. ASSUME b \notin k.missed, Named(N, m, b) = {}, b \notin O2, x2 # 0 \/ y2 # 0, ~P
      PROVE  WillAsk(k, u2, w2, n2, p2, b)
  <2>1. ~Removes(m, b)
    <3> SUFFICES ASSUME Removes(m, b) PROVE x2 = 0 /\ y2 = 0
      BY <1>8
    <3> QED BY DEF Removes, SeenAt, About, Marked
  <2>2. N = {} /\ b \notin O
    BY <1>8, <2>1 DEF Named
  <2>3. L + 1 \in 1 .. Len(w2)
    BY <1>2
  <2>4. CASE k.state = "networks"
    BY <2>4 DEF WillAsk
  <2>5. CASE /\ k.state # "networks" /\ (m.op = "init" \/ ~Has(u, "init"))
             /\ \/ m.op = "init" /\ (m.seen[b] # 0 \/ m.marker[b] # 0)
                \/ m.op = "seen" /\ m.b = b /\ x < m.msg
                \/ m.op = "marker" /\ m.b = b /\ y # m.msg
    <3>1. Asks(k, n2, p2, w2, Len(w) + 1, b)
      BY <1>1, <1>3, <1>8, <2>2, <2>5, AsksNew
    <3> QED BY <2>3, <3>1 DEF WillAsk
  <2>6. CASE m.op = "init"
    <3>1. x2 = m.seen[b] /\ y2 = m.marker[b]
      BY <2>6 DEF SeenAt, About, Marked, Removes
    <3> QED BY <1>8, <2>4, <2>5, <2>6, <3>1
  <2>7. CASE m.op # "init" /\ (x # 0 \/ y # 0)
    <3>1. WillAsk(k, u, w, n, p, b)
      BY <1>1, <1>8, <2>2, <2>7
    <3>2. ASSUME NEW i \in 1 .. L, Asks(k, n, p, w, i, b)
          PROVE  WillAsk(k, u2, w2, n2, p2, b)
      <4>1. Asks(k, n2, p2, w2, i, b)
        BY <1>3, <3>2, AsksTold
      <4>2. i \in 1 .. Len(w2)
        BY <1>2
      <4> QED BY <4>1, <4>2 DEF WillAsk
    <3> QED BY <2>7, <3>1, <3>2 DEF WillAsk
  <2>8. CASE m.op # "init" /\ x = 0 /\ y = 0
    <3>1. (m.op = "seen" /\ m.b = b) \/ (m.op = "marker" /\ m.b = b)
      BY <1>8, <2>1, <2>8 DEF SeenAt, About, Removes
    <3>2. CASE Has(u, "init")
      BY <2>8, <3>2 DEF WillAsk
    <3> QED BY <2>4, <2>5, <3>1, <3>2
  <2> QED BY <2>6, <2>7, <2>8
<1> QED BY <1>4, <1>5, <1>6, <1>7, <1>8 DEF Fits

-----------------------------------------------------------------------------
(* A client receives *)

Typed(k) == ClientOK(k) /\ k.seen \in [Ids -> Nat] /\ k.marker \in [Ids -> Nat]

\* What message m makes of client k, as far as buffer b goes.
LEMMA AppliedTo ==
  ASSUME used \subseteq Ids, NEW k, Typed(k), k.state \in {"networks", "synced", "ready"},
         NEW m \in Messages(used), k.state = "networks" => m.op # "init", NEW b \in Ids, NEW k2, k2 = Applied(k, m)
  PROVE  /\ Typed(k2)
         /\ k2.state = IF m.op = "init" THEN "ready" ELSE k.state
         /\ b \in k.missed => b \in k2.missed
         /\ b \notin k2.missed => At(k2.known, b) = Named(At(k.known, b), m, b)
         /\ k.state # "networks" =>
              /\ k2.seen[b] = SeenAt(k.seen[b], m, b)
              /\ k2.marker[b] = IF About(m, b) THEN Marked(m, b) ELSE k.marker[b]
         /\ b \in DOMAIN k.known /\ m.op # "dropped" /\ ~Removes(m, b) => b \in DOMAIN k2.known
<1> DEFINE Good(j) ==
      /\ Typed(j)
      /\ j.state = IF m.op = "init" THEN "ready" ELSE k.state
      /\ b \in k.missed => b \in j.missed
      /\ b \notin j.missed => At(j.known, b) = Named(At(k.known, b), m, b)
      /\ k.state # "networks" =>
           /\ j.seen[b] = SeenAt(k.seen[b], m, b)
           /\ j.marker[b] = IF About(m, b) THEN Marked(m, b) ELSE k.marker[b]
      /\ b \in DOMAIN k.known /\ m.op # "dropped" /\ ~Removes(m, b) => b \in DOMAIN j.known
<1>1. /\ DOMAIN k = {"state", "known", "seen", "marker", "missed"} /\ DOMAIN k.known \subseteq used
      /\ k.seen \in [Ids -> Nat] /\ k.marker \in [Ids -> Nat]
  BY DEF Typed, ClientOK
<1>2. /\ b \in DOMAIN k.known => At(k.known, b) = {k.known[b]} /\ At(k.known, b) # {}
      /\ b \notin DOMAIN k.known => At(k.known, b) = {}
      /\ b \in DOMAIN k2.known => At(k2.known, b) = {k2.known[b]} /\ At(k2.known, b) # {}
      /\ b \notin DOMAIN k2.known => At(k2.known, b) = {}
  BY AtIs
<1>3. ClientOK(k2)
  BY AppliedOK DEF Typed
<1>4. CASE m.op = "buffer"
  <2>1. k2 = Shown(k, m.b, m.name)
    BY <1>4 DEF Applied
  <2>2. /\ DOMAIN k2.known = DOMAIN k.known \union {m.b}
        /\ \A d \in DOMAIN k.known : k2.known[d] = k.known[d]
        /\ m.b \notin DOMAIN k.known => k2.known[m.b] = m.name
        /\ k2.state = k.state /\ k2.missed = k.missed /\ k2.seen = k.seen /\ k2.marker = k.marker
    BY <1>1, <2>1 DEF Shown
  <2>3. At(k2.known, b) = Named(At(k.known, b), m, b)
    BY <1>2, <1>4, <2>2 DEF Named, Removes
  <2>4. SeenAt(k.seen[b], m, b) = k.seen[b] /\ ~About(m, b)
    BY <1>4 DEF SeenAt, About, Removes
  <2> QED BY <1>1, <1>3, <1>4, <2>2, <2>3, <2>4 DEF Typed
<1>5. CASE m.op = "dropped"
  <2>1. k2 = [k EXCEPT !.known = << >>]
    BY <1>5 DEF Applied
  <2>2. b \notin DOMAIN << >>
    OBVIOUS
  <2>3. At(k2.known, b) = {}
    BY <1>1, <2>1, <2>2, AtIs
  <2>4. SeenAt(k.seen[b], m, b) = k.seen[b] /\ ~About(m, b) /\ Named(At(k.known, b), m, b) = {}
    BY <1>5 DEF SeenAt, About, Removes, Named
  <2> QED BY <1>1, <1>3, <1>5, <2>1, <2>3, <2>4 DEF Typed
<1>6. CASE m.op \notin {"buffer", "dropped"} /\ k.state = "networks"
  <2>1. k2 = Missed(k, m)
    BY <1>6 DEF Applied
  <2>2. CASE m.op \in {"removed", "renamed"}
    <3>1. k2 = [k EXCEPT !.missed = @ \union {m.b}]
      BY <2>1, <2>2 DEF Missed
    <3>2. b # m.b => Named(At(k.known, b), m, b) = At(k.known, b)
      BY <2>2 DEF Named, Removes
    <3> QED BY <1>1, <1>3, <1>6, <2>2, <3>1, <3>2 DEF Typed
  <2>3. CASE m.op \notin {"removed", "renamed"}
    <3>1. k2 = k
      BY <2>1, <2>3 DEF Missed
    <3>2. Named(At(k.known, b), m, b) = At(k.known, b)
      BY <1>6, <2>3 DEF Named, Removes
    <3> QED BY <1>1, <1>3, <1>6, <2>3, <3>1, <3>2 DEF Typed
  <2> QED BY <2>2, <2>3
<1>7. CASE m.op = "seen" /\ k.state # "networks"
  <2>1. k2 = IF k.seen[m.b] < m.msg THEN [k EXCEPT !.seen[m.b] = m.msg] ELSE k
    BY <1>7 DEF Applied
  <2>2. m.b \in Ids /\ m.msg \in Nat
    BY <1>7 DEF Messages
  <2>3. /\ k2.seen = IF k.seen[m.b] < m.msg THEN [k.seen EXCEPT ![m.b] = m.msg] ELSE k.seen
        /\ k2.state = k.state /\ k2.missed = k.missed /\ k2.known = k.known /\ k2.marker = k.marker
    BY <1>1, <2>1
  <2>4. k2.seen \in [Ids -> Nat] /\ k2.seen[b] = SeenAt(k.seen[b], m, b)
    BY <1>1, <1>7, <2>2, <2>3 DEF SeenAt, Removes
  <2>5. ~About(m, b) /\ Named(At(k.known, b), m, b) = At(k.known, b)
    BY <1>7 DEF About, Removes, Named
  <2> QED BY <1>1, <1>3, <1>7, <2>3, <2>4, <2>5 DEF Typed
<1>8. CASE m.op = "marker" /\ k.state # "networks"
  <2>1. k2 = [k EXCEPT !.marker[m.b] = m.msg]
    BY <1>8 DEF Applied
  <2>2. m.b \in Ids /\ m.msg \in Nat
    BY <1>8 DEF Messages
  <2>3. /\ k2.marker = [k.marker EXCEPT ![m.b] = m.msg]
        /\ k2.state = k.state /\ k2.missed = k.missed /\ k2.known = k.known /\ k2.seen = k.seen
    BY <1>1, <2>1
  <2>4. k2.marker \in [Ids -> Nat] /\ k2.marker[b] = IF About(m, b) THEN Marked(m, b) ELSE k.marker[b]
    BY <1>1, <1>8, <2>2, <2>3 DEF About, Marked
  <2>5. SeenAt(k.seen[b], m, b) = k.seen[b] /\ Named(At(k.known, b), m, b) = At(k.known, b)
    BY <1>8 DEF SeenAt, Removes, Named
  <2> QED BY <1>1, <1>3, <1>8, <2>3, <2>4, <2>5 DEF Typed
<1>9. CASE m.op = "removed" /\ k.state # "networks"
  <2>1. k2 = Forgotten(k, m.b)
    BY <1>9 DEF Applied
  <2>2. m.b \in Ids
    BY <1>9 DEF Messages
  <2>3. /\ k2.known = Without(k.known, {m.b})
        /\ k2.seen = [k.seen EXCEPT ![m.b] = 0] /\ k2.marker = [k.marker EXCEPT ![m.b] = 0]
        /\ k2.state = k.state /\ k2.missed = k.missed
    BY <1>1, <2>1 DEF Forgotten
  <2>4. DOMAIN k2.known = DOMAIN k.known \ {m.b} /\ \A d \in DOMAIN k2.known : k2.known[d] = k.known[d]
    BY <2>3 DEF Without
  <2>5. At(k2.known, b) = Named(At(k.known, b), m, b)
    BY <1>2, <1>9, <2>4 DEF Named, Removes
  <2>6. /\ k2.seen \in [Ids -> Nat] /\ k2.marker \in [Ids -> Nat]
        /\ k2.seen[b] = SeenAt(k.seen[b], m, b)
        /\ k2.marker[b] = IF About(m, b) THEN Marked(m, b) ELSE k.marker[b]
    BY <1>1, <1>9, <2>2, <2>3 DEF SeenAt, About, Marked, Removes
  <2> QED BY <1>1, <1>3, <1>9, <2>3, <2>4, <2>5, <2>6 DEF Typed, Removes
<1>10. CASE m.op = "renamed" /\ k.state # "networks"
  <2>1. k2 = Renamed(k, m.b, m.name)
    BY <1>10 DEF Applied
  <2>2. /\ DOMAIN k2.known = DOMAIN k.known
        /\ \A d \in DOMAIN k.known : k2.known[d] = IF d = m.b THEN m.name ELSE k.known[d]
        /\ k2.state = k.state /\ k2.missed = k.missed /\ k2.seen = k.seen /\ k2.marker = k.marker
    BY <1>1, <2>1 DEF Renamed
  <2>3. At(k2.known, b) = Named(At(k.known, b), m, b)
    BY <1>2, <1>10, <2>2 DEF Named, Removes
  <2>4. SeenAt(k.seen[b], m, b) = k.seen[b] /\ ~About(m, b)
    BY <1>10 DEF SeenAt, About, Removes
  <2> QED BY <1>1, <1>3, <1>10, <2>2, <2>3, <2>4 DEF Typed
<1>11. CASE m.op = "init" /\ k.state # "networks"
  <2>1. k2 = [k EXCEPT !.state = "ready", !.seen = m.seen, !.marker = m.marker]
    BY <1>11 DEF Applied
  <2>2. m.seen \in [Ids -> Nat] /\ m.marker \in [Ids -> Nat]
    BY <1>11 DEF Messages
  <2>3. k2.state = "ready" /\ k2.missed = k.missed /\ k2.known = k.known /\ k2.seen = m.seen /\ k2.marker = m.marker
    BY <1>1, <2>1
  <2>4. SeenAt(k.seen[b], m, b) = m.seen[b] /\ About(m, b) /\ Marked(m, b) = m.marker[b]
        /\ Named(At(k.known, b), m, b) = At(k.known, b)
    BY <1>11 DEF SeenAt, About, Marked, Removes, Named
  <2> QED BY <1>1, <1>3, <1>11, <2>2, <2>3, <2>4 DEF Typed
<1>12. m.op \in {"buffer", "dropped", "seen", "marker", "removed", "renamed", "init"}
  BY DEF Messages
<1>13. Good(k2)
  BY <1>4, <1>5, <1>6, <1>7, <1>8, <1>9, <1>10, <1>11, <1>12
<1> QED BY <1>13

Shorter(w, w2, m) ==
  /\ Len(w2) \in Nat /\ Len(w) = Len(w2) + 1 /\ m = w[1]
  /\ \A i \in 1 .. Len(w2) : w2[i] = w[i + 1]

LEMMA HeadTail ==
  ASSUME NEW M, NEW w \in Seq(M), w # << >>
  PROVE  Shorter(w, Tail(w), Head(w)) /\ Head(w) \in M
BY HeadTailProperties DEF Shorter

LEMMA NamesReceived ==
  ASSUME NEW k, NEW k2, NEW n, NEW n2, NEW w, NEW w2, NEW m, NEW b, NEW N, NEW O,
         Shorter(w, w2, m), \A i \in 0 .. Len(w2) : n2[i] = n[i + 1], n[1] = Named(n[0], m, b),
         NamesFit(k, n, w, b, N, O),
         b \in k.missed => b \in k2.missed,
         b \notin k2.missed => At(k2.known, b) = Named(At(k.known, b), m, b)
  PROVE  NamesFit(k2, n2, w2, b, N, O)
<1> DEFINE L == Len(w2)
<1> SUFFICES ASSUME b \notin k2.missed
             PROVE  /\ n2[0] = At(k2.known, b) /\ n2[Len(w2)] = N
                    /\ \A i \in 1 .. Len(w2) : w2[i].op = "dropped" /\ n2[i - 1] # {} => b \in O
                    /\ N = {} /\ b \notin O =>
                         \A i \in 0 .. Len(w2) : n2[i] # {} => \E j \in i + 1 .. Len(w2) : Removes(w2[j], b)
  BY DEF NamesFit
<1>1. L \in Nat /\ Len(w) = L + 1 /\ \A i \in 1 .. L : w2[i] = w[i + 1]
  BY DEF Shorter
<1>2. /\ n[0] = At(k.known, b) /\ n[L + 1] = N
      /\ \A i \in 1 .. L + 1 : w[i].op = "dropped" /\ n[i - 1] # {} => b \in O
      /\ N = {} /\ b \notin O =>
           \A i \in 0 .. L + 1 : n[i] # {} => \E j \in i + 1 .. L + 1 : Removes(w[j], b)
  BY <1>1 DEF NamesFit
<1>3. \A i \in 0 .. L : n2[i] = n[i + 1]
  OBVIOUS
<1> HIDE DEF L
<1>4. n2[0] = At(k2.known, b) /\ n2[L] = N
  BY <1>1, <1>2, <1>3
<1>5. ASSUME NEW i \in 1 .. L, w2[i].op = "dropped", n2[i - 1] # {}
      PROVE  b \in O
  <2>1. i + 1 \in 1 .. L + 1 /\ i - 1 \in 0 .. L /\ (i - 1) + 1 = i /\ (i + 1) - 1 = i
    BY <1>1
  <2> QED BY <1>1, <1>2, <1>3, <1>5, <2>1
<1>6. ASSUME N = {}, b \notin O, NEW i \in 0 .. L, n2[i] # {}
      PROVE  \E j \in i + 1 .. L : Removes(w2[j], b)
  <2>1. i + 1 \in 0 .. L + 1 /\ n[i + 1] # {}
    BY <1>1, <1>3, <1>6
  <2>2. PICK j \in (i + 1) + 1 .. L + 1 : Removes(w[j], b)
    BY <1>2, <1>6, <2>1
  <2>3. j - 1 \in i + 1 .. L /\ j - 1 \in 1 .. L /\ (j - 1) + 1 = j
    BY <1>1, <2>1
  <2> QED BY <1>1, <2>2, <2>3
<1> QED BY <1>4, <1>5, <1>6 DEF L

LEMMA SeenReceived ==
  ASSUME NEW k, NEW k2, NEW p, NEW p2, NEW w, NEW w2, NEW m, NEW b, NEW x,
         Shorter(w, w2, m), \A i \in 0 .. Len(w2) : p2[i] = p[i + 1], p[1] = SeenAt(p[0], m, b),
         SeenFits(k, p, w, b, x),
         k2.state = IF m.op = "init" THEN "ready" ELSE k.state,
         k.state = "networks" => m.op # "init",
         k.state # "networks" => k2.seen[b] = SeenAt(k.seen[b], m, b)
  PROVE  SeenFits(k2, p2, w2, b, x)
<1> DEFINE L == Len(w2)
<1>1. L \in Nat /\ Len(w) = L + 1 /\ m = w[1] /\ \A i \in 1 .. L : w2[i] = w[i + 1]
  BY DEF Shorter
<1>2. p2[0] = p[1] /\ p2[L] = p[L + 1]
  BY <1>1
<1> HIDE DEF L
<1>3. ASSUME k2.state = "ready"
      PROVE  p2[0] = k2.seen[b]
  <2>1. CASE m.op = "init"
    BY <1>2, <2>1 DEF SeenAt, Removes
  <2>2. CASE m.op # "init"
    BY <1>2, <1>3, <2>2 DEF SeenFits
  <2> QED BY <2>1, <2>2
<1>4. ASSUME k2.state = "ready" \/ \E i \in 1 .. L : w2[i].op = "init"
      PROVE  k.state = "ready" \/ \E i \in 1 .. L + 1 : w[i].op = "init"
  <2>1. CASE m.op = "init"
    BY <1>1, <2>1
  <2>2. CASE \E i \in 1 .. L : w2[i].op = "init"
    <3>1. PICK i \in 1 .. L : w2[i].op = "init"
      BY <2>2
    <3>2. i + 1 \in 1 .. L + 1 /\ w[i + 1].op = "init"
      BY <1>1, <3>1
    <3> QED BY <3>2
  <2>3. CASE m.op # "init" /\ k2.state = "ready"
    BY <2>3
  <2> QED BY <1>4, <2>1, <2>2, <2>3
<1> QED BY <1>1, <1>2, <1>3, <1>4 DEF SeenFits, Has, L

LEMMA MarkerReceived ==
  ASSUME NEW k, NEW k2, NEW u, NEW u2, NEW w, NEW w2, NEW m, NEW b, NEW y, NEW O,
         Shorter(w, w2, m), MarkerFits(k, u, w, b, y, O),
         k2.state = IF m.op = "init" THEN "ready" ELSE k.state,
         k.state = "networks" => m.op # "init",
         k.state # "networks" => k2.marker[b] = IF About(m, b) THEN Marked(m, b) ELSE k.marker[b],
         b \in k.missed => b \in k2.missed,
         b \in DOMAIN k.known /\ m.op # "dropped" /\ ~Removes(m, b) => b \in DOMAIN k2.known,
         b \in DOMAIN k.known /\ m.op = "dropped" => b \in O \/ b \in k.missed,
         \A v : Pending(u, b, v) => Pending(u2, b, v)
  PROVE  MarkerFits(k2, u2, w2, b, y, O)
<1> DEFINE L == Len(w2)
<1>1. L \in Nat /\ Len(w) = L + 1 /\ m = w[1] /\ \A i \in 1 .. L : w2[i] = w[i + 1]
  BY DEF Shorter
<1>2. \A i \in 1 .. L + 1 :
        About(w[i], b) /\ (\A x \in i + 1 .. L + 1 : ~About(w[x], b)) => Marked(w[i], b) = y
  BY <1>1 DEF MarkerFits, LastWord
<1> HIDE DEF L
<1>3. ASSUME NEW i \in 1 .. L, About(w2[i], b), \A x \in i + 1 .. L : ~About(w2[x], b)
      PROVE  Marked(w2[i], b) = y
  <2>1. i + 1 \in 1 .. L + 1 /\ w2[i] = w[i + 1]
    BY <1>1
  <2>2. \A x \in (i + 1) + 1 .. L + 1 : ~About(w[x], b)
    <3> TAKE x \in (i + 1) + 1 .. L + 1
    <3>1. x - 1 \in i + 1 .. L /\ x - 1 \in 1 .. L /\ (x - 1) + 1 = x
      BY <1>1
    <3> QED BY <1>1, <1>3, <3>1
  <2> QED BY <1>2, <1>3, <2>1, <2>2
<1>4. ASSUME k2.state = "ready", \A i \in 1 .. L : ~About(w2[i], b)
      PROVE  \/ k2.marker[b] = y
             \/ Pending(u2, b, k2.marker[b]) /\ (b \in DOMAIN k2.known \/ b \in O \/ b \in k2.missed)
  <2>1. \A i \in 2 .. L + 1 : ~About(w[i], b)
    <3> TAKE i \in 2 .. L + 1
    <3>1. i - 1 \in 1 .. L /\ (i - 1) + 1 = i
      BY <1>1
    <3> QED BY <1>1, <1>4, <3>1
  <2>2. k.state # "networks"
    BY <1>4
  <2>3. CASE About(m, b)
    <3>1. Marked(w[1], b) = y
      <4>1. 1 \in 1 .. L + 1 /\ 1 + 1 = 2
        BY <1>1
      <4> QED BY <1>1, <1>2, <2>1, <2>3, <4>1
    <3> QED BY <1>1, <2>2, <2>3, <3>1
  <2>4. CASE ~About(m, b)
    <3>1. m.op # "init" /\ ~Removes(m, b) /\ k.state = "ready" /\ k2.marker[b] = k.marker[b]
      BY <1>4, <2>2, <2>4 DEF About, Removes
    <3>2. \A i \in 1 .. L + 1 : ~About(w[i], b)
      <4>1. \A i \in 1 .. L + 1 : i = 1 \/ i \in 2 .. L + 1
        BY <1>1
      <4> QED BY <1>1, <2>1, <2>4, <4>1
    <3>3. \/ k.marker[b] = y
          \/ Pending(u, b, k.marker[b]) /\ (b \in DOMAIN k.known \/ b \in O \/ b \in k.missed)
      BY <1>1, <3>1, <3>2 DEF MarkerFits
    <3> QED BY <3>1, <3>3
  <2> QED BY <2>3, <2>4
<1> QED BY <1>3, <1>4 DEF MarkerFits, LastWord, L

\* A message that will make the client ask does so when it comes.
LEMMA AsksReceived ==
  ASSUME NEW k, NEW k2, NEW n, NEW n2, NEW p, NEW p2, NEW w, NEW w2, NEW m, NEW b \in Ids,
         Shorter(w, w2, m), \A i \in 0 .. Len(w2) : n2[i] = n[i + 1] /\ p2[i] = p[i + 1],
         n[0] = At(k.known, b), k.state = "ready" => p[0] = k.seen[b],
         k.state \in {"synced", "ready"},
         k2.state = IF m.op = "init" THEN "ready" ELSE k.state,
         k2.marker[b] = IF About(m, b) THEN Marked(m, b) ELSE k.marker[b],
         NEW i \in 1 .. Len(w), Asks(k, n, p, w, i, b)
  PROVE  \/ PurgeAsked(k, m) = <<[op |-> "purge"]>>
         \/ \E j \in 1 .. Len(w2) : Asks(k2, n2, p2, w2, j, b)
<1> DEFINE L == Len(w2)
<1>1. L \in Nat /\ Len(w) = L + 1 /\ m = w[1] /\ \A j \in 1 .. L : w2[j] = w[j + 1]
  BY DEF Shorter
<1>2. \A j \in 0 .. L : n2[j] = n[j + 1] /\ p2[j] = p[j + 1]
  OBVIOUS
<1> HIDE DEF L
<1>3. CASE i = 1
  <2>1. n[0] = {} /\ i - 1 = 0 /\ 1 .. i - 1 = {}
    BY <1>3 DEF Asks
  <2>2. b \notin DOMAIN k.known
    BY <2>1, AtIs
  <2>3. b \in Placed(k, m)
    BY <1>1, <1>3, <2>1 DEF Asks, Placed
  <2> QED BY <2>2, <2>3 DEF PurgeAsked
<1>4. CASE i # 1
  <2> DEFINE j == i - 1
  <2>1. /\ j \in 1 .. L /\ j - 1 \in 0 .. L /\ j + 1 = i /\ (j - 1) + 1 = i - 1
        /\ w2[j] = w[i] /\ n2[j - 1] = n[i - 1] /\ p2[j - 1] = p[i - 1]
    <3>1. j \in 1 .. L /\ j - 1 \in 0 .. L /\ j + 1 = i /\ (j - 1) + 1 = i - 1
      BY <1>1, <1>4
    <3> QED BY <1>1, <1>2, <3>1
  <2> HIDE DEF j
  <2>2. CASE w[i].op = "init"
    BY <2>1, <2>2 DEF Asks, L
  <2>3. CASE w[i].op = "seen"
    <3>1. k2.state = "ready" \/ \E z \in 1 .. j - 1 : w2[z].op = "init"
      <4>1. CASE k.state = "ready"
        BY <4>1
      <4>2. CASE \E z \in 1 .. i - 1 : w[z].op = "init"
        <5>1. PICK z \in 1 .. i - 1 : w[z].op = "init"
          BY <4>2
        <5>2. CASE z = 1
          BY <1>1, <5>1, <5>2
        <5>3. CASE z # 1
          <6>1. z - 1 \in 1 .. j - 1 /\ z - 1 \in 1 .. L /\ (z - 1) + 1 = z
            BY <1>1, <2>1, <5>3
          <6> QED BY <1>1, <5>1, <6>1
        <5> QED BY <5>2, <5>3
      <4> QED BY <2>3, <4>1, <4>2 DEF Asks
    <3> QED BY <2>1, <2>3, <3>1 DEF Asks, L
  <2>4. CASE w[i].op = "marker"
    <3>1. w[i].b = b /\ n[i - 1] = {}
      BY <2>4 DEF Asks
    <3>2. ASSUME NEW z \in 1 .. i - 1, About(w[z], b), Marked(w[z], b) # w[i].msg,
                 \A x \in z + 1 .. i - 1 : ~About(w[x], b), \A x \in z .. i - 1 : n[x] = {}
          PROVE  Asks(k2, n2, p2, w2, j, b)
      <4>1. CASE z = 1
        <5>1. k2.marker[b] # w2[j].msg
          BY <1>1, <2>1, <3>2, <4>1
        <5>2. \A x \in 1 .. j - 1 : ~About(w2[x], b)
          <6>1. \A x \in 1 .. j - 1 : x + 1 \in 2 .. i - 1 /\ x \in 1 .. L
            BY <1>1, <2>1
          <6> QED BY <1>1, <3>2, <4>1, <6>1
        <5>3. \A x \in 0 .. j - 1 : n2[x] = {}
          <6>1. \A x \in 0 .. j - 1 : x + 1 \in 1 .. i - 1 /\ x \in 0 .. L
            BY <1>1, <2>1
          <6> QED BY <1>2, <3>2, <4>1, <6>1
        <5> QED BY <2>1, <2>4, <3>1, <5>1, <5>2, <5>3 DEF Asks
      <4>2. CASE z # 1
        <5>1. z - 1 \in 1 .. j - 1 /\ z - 1 \in 1 .. L /\ (z - 1) + 1 = z
          BY <1>1, <2>1, <4>2
        <5>2. About(w2[z - 1], b) /\ Marked(w2[z - 1], b) # w2[j].msg
          BY <1>1, <2>1, <3>2, <5>1
        <5>3. \A x \in (z - 1) + 1 .. j - 1 : ~About(w2[x], b)
          <6>1. \A x \in (z - 1) + 1 .. j - 1 : x + 1 \in z + 1 .. i - 1 /\ x \in 1 .. L
            BY <1>1, <2>1, <5>1
          <6> QED BY <1>1, <3>2, <6>1
        <5>4. \A x \in z - 1 .. j - 1 : n2[x] = {}
          <6>1. \A x \in z - 1 .. j - 1 : x + 1 \in z .. i - 1 /\ x \in 0 .. L
            BY <1>1, <2>1, <5>1
          <6> QED BY <1>2, <3>2, <6>1
        <5> QED BY <2>1, <2>4, <3>1, <5>1, <5>2, <5>3, <5>4 DEF Asks
      <4> QED BY <4>1, <4>2
    <3>3. ASSUME k.marker[b] # w[i].msg, \A x \in 1 .. i - 1 : ~About(w[x], b),
                 \A x \in 0 .. i - 1 : n[x] = {}
          PROVE  Asks(k2, n2, p2, w2, j, b)
      <4>1. k2.marker[b] # w2[j].msg
        <5>1. 1 \in 1 .. i - 1
          BY <1>4
        <5> QED BY <1>1, <2>1, <3>3, <5>1
      <4>2. \A x \in 1 .. j - 1 : ~About(w2[x], b)
        <5>1. \A x \in 1 .. j - 1 : x + 1 \in 1 .. i - 1 /\ x \in 1 .. L
          BY <1>1, <2>1
        <5> QED BY <1>1, <3>3, <5>1
      <4>3. \A x \in 0 .. j - 1 : n2[x] = {}
        <5>1. \A x \in 0 .. j - 1 : x + 1 \in 0 .. i - 1 /\ x \in 0 .. L
          BY <1>1, <2>1
        <5> QED BY <1>2, <3>3, <5>1
      <4> QED BY <2>1, <2>4, <3>1, <4>1, <4>2, <4>3 DEF Asks
    <3>4. \/ \E z \in 1 .. i - 1 :
                /\ About(w[z], b) /\ Marked(w[z], b) # w[i].msg
                /\ \A x \in z + 1 .. i - 1 : ~About(w[x], b)
                /\ \A x \in z .. i - 1 : n[x] = {}
          \/ /\ k.marker[b] # w[i].msg
             /\ \A x \in 1 .. i - 1 : ~About(w[x], b)
             /\ \A x \in 0 .. i - 1 : n[x] = {}
      BY <2>4 DEF Asks
    <3> QED BY <2>1, <3>2, <3>3, <3>4 DEF L
  <2>5. w[i].op \in {"init", "seen", "marker"}
    BY DEF Asks
  <2> QED BY <2>2, <2>3, <2>4, <2>5
<1> QED BY <1>3, <1>4

LEMMA FitsReceived ==
  ASSUME used \subseteq Ids, NEW k, Typed(k), k.state \in {"networks", "synced", "ready"},
         NEW u, NEW w \in Seq(Messages(used)), w # << >>, InitOnce(k.state, u, w),
         NEW b \in Ids, NEW N, NEW x, NEW y, NEW O, NEW P \in BOOLEAN, Fits(k, u, w, b, N, x, y, O, P),
         NEW u2, \A v : Pending(u, b, v) => Pending(u2, b, v), \A op : Has(u, op) => Has(u2, op),
         PurgeAsked(k, Head(w)) = <<[op |-> "purge"]>> => Has(u2, "purge")
  PROVE  Fits(Applied(k, Head(w)), u2, Tail(w), b, N, x, y, O, P)
<1> DEFINE m == Head(w)
           w2 == Tail(w)
           k2 == Applied(k, m)
<1>1. PICK n, p :
        /\ Paths(n, p, w, b) /\ NamesFit(k, n, w, b, N, O) /\ SeenFits(k, p, w, b, x)
        /\ MarkerFits(k, u, w, b, y, O)
        /\ b \notin k.missed /\ N = {} /\ b \notin O /\ (x # 0 \/ y # 0) /\ ~P
             => WillAsk(k, u, w, n, p, b)
  BY DEF Fits
<1>2. Shorter(w, w2, m) /\ m \in Messages(used)
  BY HeadTail
<1>3. k.state = "networks" => m.op # "init"
  BY <1>2 DEF InitOnce, NoInit, Shorter
<1> DEFINE L == Len(w2)
           n2 == [i \in 0 .. L |-> n[i + 1]]
           p2 == [i \in 0 .. L |-> p[i + 1]]
<1>4. /\ L \in Nat /\ Len(w) = L + 1 /\ m = w[1] /\ \A i \in 1 .. L : w2[i] = w[i + 1]
      /\ 1 \in 1 .. Len(w) /\ 1 - 1 = 0
  BY <1>2 DEF Shorter
<1>5. \A i \in 0 .. L : n2[i] = n[i + 1] /\ p2[i] = p[i + 1]
  OBVIOUS
<1> HIDE DEF m, n2, p2, k2, w2
<1>6. n[1] = Named(n[0], m, b) /\ p[1] = SeenAt(p[0], m, b)
  <2>1. n[1] = Named(n[1 - 1], w[1], b) /\ p[1] = SeenAt(p[1 - 1], w[1], b)
    BY <1>1, <1>4 DEF Paths
  <2> QED BY <1>4, <2>1
<1>7. /\ k2.state = IF m.op = "init" THEN "ready" ELSE k.state
      /\ b \in k.missed => b \in k2.missed
      /\ b \notin k2.missed => At(k2.known, b) = Named(At(k.known, b), m, b)
      /\ k.state # "networks" =>
           /\ k2.seen[b] = SeenAt(k.seen[b], m, b)
           /\ k2.marker[b] = IF About(m, b) THEN Marked(m, b) ELSE k.marker[b]
      /\ b \in DOMAIN k.known /\ m.op # "dropped" /\ ~Removes(m, b) => b \in DOMAIN k2.known
  <2>1. k2 = Applied(k, m)
    BY DEF k2
  <2> HIDE DEF Messages
  <2> QED BY <1>2, <1>3, <2>1, AppliedTo
<1>8. Paths(n2, p2, w2, b)
  <2> SUFFICES ASSUME NEW i \in 1 .. L
               PROVE  n2[i] = Named(n2[i - 1], w2[i], b) /\ p2[i] = SeenAt(p2[i - 1], w2[i], b)
    BY DEF Paths
  <2>1. i + 1 \in 1 .. Len(w) /\ (i + 1) - 1 = i /\ i \in 0 .. L /\ i - 1 \in 0 .. L /\ (i - 1) + 1 = i
    BY <1>4
  <2>2. n[i + 1] = Named(n[i], w[i + 1], b) /\ p[i + 1] = SeenAt(p[i], w[i + 1], b)
    BY <1>1, <2>1 DEF Paths
  <2> QED BY <1>4, <1>5, <2>1, <2>2
<1>9. NamesFit(k2, n2, w2, b, N, O)
  BY <1>1, <1>2, <1>5, <1>6, <1>7, NamesReceived
<1>10. SeenFits(k2, p2, w2, b, x)
  BY <1>1, <1>2, <1>3, <1>5, <1>6, <1>7, SeenReceived
<1>11. b \in DOMAIN k.known /\ m.op = "dropped" => b \in O \/ b \in k.missed
  <2> SUFFICES ASSUME b \in DOMAIN k.known, m.op = "dropped", b \notin k.missed
               PROVE  b \in O
    OBVIOUS
  <2>1. n[1 - 1] # {}
    BY <1>1, <1>4, AtIs DEF NamesFit
  <2> QED BY <1>1, <1>4, <2>1 DEF NamesFit
<1>12. MarkerFits(k2, u2, w2, b, y, O)
  BY <1>1, <1>2, <1>3, <1>7, <1>11, MarkerReceived
<1>13. ASSUME b \notin k2.missed, N = {}, b \notin O, x # 0 \/ y # 0, ~P
       PROVE  WillAsk(k2, u2, w2, n2, p2, b)
  <2>1. b \notin k.missed /\ WillAsk(k, u, w, n, p, b)
    BY <1>1, <1>7, <1>13
  <2>2. CASE k.state = "networks"
    BY <1>3, <1>7, <2>2 DEF WillAsk
  <2>3. CASE Has(u, "purge") \/ Has(u, "init")
    BY <2>3 DEF WillAsk
  <2>4. ASSUME k.state # "networks", NEW i \in 1 .. Len(w), Asks(k, n, p, w, i, b)
        PROVE  WillAsk(k2, u2, w2, n2, p2, b)
    <3>1. n[0] = At(k.known, b) /\ (k.state = "ready" => p[0] = k.seen[b])
      BY <1>1, <2>1 DEF NamesFit, SeenFits
    <3>2. \/ PurgeAsked(k, m) = <<[op |-> "purge"]>>
          \/ \E j \in 1 .. Len(w2) : Asks(k2, n2, p2, w2, j, b)
      BY <1>2, <1>5, <1>7, <2>4, <3>1, AsksReceived
    <3> QED BY <3>2 DEF WillAsk, m
  <2> QED BY <2>1, <2>2, <2>3, <2>4 DEF WillAsk
<1>14. Fits(k2, u2, w2, b, N, x, y, O, P)
  BY <1>8, <1>9, <1>10, <1>12, <1>13 DEF Fits
<1> QED BY <1>14 DEF k2, w2, m

-----------------------------------------------------------------------------
(* Other steps *)

\* The core takes a request that changes nothing, or asks for a purge.
LEMMA FitsKept ==
  ASSUME NEW k, NEW u, NEW u2, NEW w, NEW b, NEW N, NEW x, NEW y, NEW O, NEW P \in BOOLEAN, NEW P2 \in BOOLEAN,
         Fits(k, u, w, b, N, x, y, O, P), P => P2,
         \A v : Pending(u, b, v) => Pending(u2, b, v) \/ v = y,
         Has(u, "purge") => Has(u2, "purge") \/ P2, Has(u, "init") => Has(u2, "init")
  PROVE  Fits(k, u2, w, b, N, x, y, O, P2)
<1>1. PICK n, p :
        /\ Paths(n, p, w, b) /\ NamesFit(k, n, w, b, N, O) /\ SeenFits(k, p, w, b, x)
        /\ MarkerFits(k, u, w, b, y, O)
        /\ b \notin k.missed /\ N = {} /\ b \notin O /\ (x # 0 \/ y # 0) /\ ~P
             => WillAsk(k, u, w, n, p, b)
  BY DEF Fits
<1>2. MarkerFits(k, u2, w, b, y, O)
  BY <1>1 DEF MarkerFits
<1>3. WillAsk(k, u, w, n, p, b) /\ ~P2 => WillAsk(k, u2, w, n, p, b)
  BY DEF WillAsk
<1> QED BY <1>1, <1>2, <1>3 DEF Fits

\* w2 goes on from w by telling that the buffers in S are removed.
Purged(w, w2, S) ==
  /\ Len(w) \in Nat
  /\ \E said : /\ Len(said) \in Nat /\ Len(w2) = Len(w) + Len(said)
               /\ \A i \in 1 .. Len(w) : w2[i] = w[i]
               /\ \A i \in 1 .. Len(said) : w2[Len(w) + i] = said[i] /\ said[i].op = "removed"
               /\ S = {said[i].b : i \in 1 .. Len(said)}

\* A purge takes the positions from all buffers that are gone, S among them.
LEMMA FitsPurged ==
  ASSUME NEW k, NEW u, NEW w, NEW w2, NEW b, NEW N, NEW x, NEW y, NEW x2, NEW y2, NEW O,
         NEW P, NEW P2, Fits(k, u, w, b, N, x, y, O, P), NEW S, Purged(w, w2, S),
         b \in S => x2 = 0 /\ y2 = 0, b \notin S => x2 = x /\ y2 = y,
         b \in S => N = {}, N = {} => x2 = 0 /\ y2 = 0
  PROVE  Fits(k, u, w2, b, N, x2, y2, O, P2)
<1>1. PICK said :
        /\ Len(said) \in Nat /\ Len(w2) = Len(w) + Len(said)
        /\ \A i \in 1 .. Len(w) : w2[i] = w[i]
        /\ \A i \in 1 .. Len(said) : w2[Len(w) + i] = said[i] /\ said[i].op = "removed"
        /\ S = {said[i].b : i \in 1 .. Len(said)}
  BY DEF Purged
<1>2. PICK n, p :
        /\ Paths(n, p, w, b) /\ NamesFit(k, n, w, b, N, O) /\ SeenFits(k, p, w, b, x)
        /\ MarkerFits(k, u, w, b, y, O)
  BY DEF Fits
<1> DEFINE L == Len(w)
           M == Len(said)
           Gone(j) == \E z \in 1 .. j : said[z].b = b
           n2 == [i \in 0 .. L + M |-> IF i <= L THEN n[i] ELSE IF Gone(i - L) THEN {} ELSE n[L]]
           p2 == [i \in 0 .. L + M |-> IF i <= L THEN p[i] ELSE IF Gone(i - L) THEN 0 ELSE p[L]]
<1>3. /\ L \in Nat /\ M \in Nat /\ Len(w2) = L + M
      /\ \A i \in 1 .. L : w2[i] = w[i]
      /\ \A i \in 1 .. M : w2[L + i] = said[i] /\ said[i].op = "removed"
  BY <1>1 DEF Purged
<1>4. \A i \in 0 .. L + M : /\ i <= L => n2[i] = n[i] /\ p2[i] = p[i]
                            /\ i > L /\ Gone(i - L) => n2[i] = {} /\ p2[i] = 0
                            /\ i > L /\ ~Gone(i - L) => n2[i] = n[L] /\ p2[i] = p[L]
  BY <1>3
<1>5. b \in S <=> Gone(M)
  BY <1>1
<1>6. ASSUME NEW j \in 1 .. M
      PROVE  Gone(j) <=> (said[j].b = b \/ (j # 1 /\ Gone(j - 1)))
  <2>1. ASSUME NEW z \in 1 .. j, said[z].b = b, said[j].b # b
        PROVE  j # 1 /\ z \in 1 .. j - 1
    BY <2>1
  <2>2. \A z \in 1 .. j - 1 : z \in 1 .. j
    OBVIOUS
  <2>3. Gone(j) => said[j].b = b \/ (j # 1 /\ Gone(j - 1))
    BY <2>1
  <2>4. said[j].b = b => Gone(j)
    <3>1. j \in 1 .. j
      OBVIOUS
    <3> QED BY <3>1
  <2>5. Gone(j - 1) => Gone(j)
    BY <2>2
  <2> HIDE DEF Gone
  <2> QED BY <2>3, <2>4, <2>5
<1> HIDE DEF L, M, Gone, n2, p2
<1>7. Paths(n2, p2, w2, b)
  <2> SUFFICES ASSUME NEW i \in 1 .. L + M
               PROVE  n2[i] = Named(n2[i - 1], w2[i], b) /\ p2[i] = SeenAt(p2[i - 1], w2[i], b)
    BY <1>3 DEF Paths
  <2>1. CASE i <= L
    <3>1. i \in 1 .. L /\ i - 1 <= L /\ i \in 0 .. L + M /\ i - 1 \in 0 .. L + M
      BY <1>3, <2>1
    <3>2. n[i] = Named(n[i - 1], w[i], b) /\ p[i] = SeenAt(p[i - 1], w[i], b)
      BY <1>2, <3>1 DEF Paths, L
    <3> QED BY <1>3, <1>4, <3>1, <3>2
  <2>2. CASE i > L
    <3> DEFINE j == i - L
    <3>1. j \in 1 .. M /\ L + j = i /\ (i - 1) - L = j - 1 /\ i \in 0 .. L + M /\ i - 1 \in 0 .. L + M
      BY <1>3, <2>2
    <3>2. w2[i] = said[j] /\ said[j].op = "removed"
      <4>1. w2[L + j] = said[j] /\ said[j].op = "removed"
        BY <1>3, <3>1
      <4> QED BY <3>1, <4>1
    <3>3. /\ n2[i] = IF Gone(j) THEN {} ELSE n[L]
          /\ p2[i] = IF Gone(j) THEN 0 ELSE p[L]
      BY <1>4, <2>2, <3>1
    <3>4. /\ n2[i - 1] = IF j # 1 /\ Gone(j - 1) THEN {} ELSE n[L]
          /\ p2[i - 1] = IF j # 1 /\ Gone(j - 1) THEN 0 ELSE p[L]
      <4>1. CASE j = 1
        BY <1>3, <1>4, <3>1, <4>1
      <4>2. CASE j # 1
        <5>1. i - 1 > L
          BY <1>3, <3>1, <4>2
        <5> QED BY <1>4, <3>1, <4>2, <5>1
      <4> QED BY <4>1, <4>2
    <3> HIDE DEF j
    <3>5. Gone(j) <=> (said[j].b = b \/ (j # 1 /\ Gone(j - 1)))
      BY <1>6, <3>1
    <3>6. CASE said[j].b = b
      BY <3>2, <3>3, <3>5, <3>6 DEF Named, SeenAt, Removes
    <3>7. CASE said[j].b # b
      <4>1. Named(n2[i - 1], w2[i], b) = n2[i - 1] /\ SeenAt(p2[i - 1], w2[i], b) = p2[i - 1]
        BY <3>2, <3>7 DEF Named, SeenAt, Removes
      <4> QED BY <3>3, <3>4, <3>5, <3>7, <4>1
    <3> QED BY <3>6, <3>7
  <2> QED BY <1>3, <2>1, <2>2
<1>8. /\ n2[0] = n[0] /\ p2[0] = p[0]
      /\ b \in S => n2[L + M] = {} /\ p2[L + M] = 0
      /\ b \notin S => n2[L + M] = n[L] /\ p2[L + M] = p[L]
  <2>1. n2[0] = n[0] /\ p2[0] = p[0]
    <3>1. 0 \in 0 .. L + M /\ 0 <= L
      BY <1>3
    <3> QED BY <1>4, <3>1
  <2>2. CASE M = 0
    <3>1. ~Gone(M) /\ L + M = L /\ L \in 0 .. L + M
      BY <1>3, <2>2 DEF Gone
    <3> QED BY <1>4, <1>5, <2>1, <3>1
  <2>3. CASE M # 0
    <3>1. L + M > L /\ (L + M) - L = M /\ L + M \in 0 .. L + M
      BY <1>3, <2>3
    <3> QED BY <1>4, <1>5, <2>1, <3>1
  <2> QED BY <2>2, <2>3
<1>9. NamesFit(k, n2, w2, b, N, O)
  <2> SUFFICES ASSUME b \notin k.missed
               PROVE  /\ n2[0] = At(k.known, b) /\ n2[L + M] = N
                      /\ \A i \in 1 .. L + M : w2[i].op = "dropped" /\ n2[i - 1] # {} => b \in O
                      /\ N = {} /\ b \notin O =>
                           \A i \in 0 .. L + M : n2[i] # {} => \E j \in i + 1 .. L + M : Removes(w2[j], b)
    BY <1>3 DEF NamesFit
  <2>1. /\ n[0] = At(k.known, b) /\ n[L] = N
        /\ \A i \in 1 .. L : w[i].op = "dropped" /\ n[i - 1] # {} => b \in O
        /\ N = {} /\ b \notin O =>
             \A i \in 0 .. L : n[i] # {} => \E j \in i + 1 .. L : Removes(w[j], b)
    BY <1>2 DEF NamesFit, L
  <2>2. n2[0] = At(k.known, b) /\ n2[L + M] = N
    BY <1>8, <2>1
  <2>3. ASSUME NEW i \in 1 .. L + M, w2[i].op = "dropped", n2[i - 1] # {}
        PROVE  b \in O
    <3>1. i <= L
      <4> SUFFICES ASSUME i > L PROVE w2[i].op = "removed"
        BY <1>3, <2>3
      <4>1. i - L \in 1 .. M /\ L + (i - L) = i
        BY <1>3
      <4> QED BY <1>3, <4>1
    <3>2. i \in 1 .. L /\ i - 1 <= L /\ i - 1 \in 0 .. L + M
      BY <1>3, <3>1
    <3> QED BY <1>3, <1>4, <2>1, <2>3, <3>2
  <2>4. ASSUME N = {}, b \notin O, NEW i \in 0 .. L + M, n2[i] # {}
        PROVE  \E j \in i + 1 .. L + M : Removes(w2[j], b)
    <3>1. i <= L
      <4> SUFFICES ASSUME i > L PROVE n2[i] = {}
        BY <1>3, <2>4
      <4> QED BY <1>4, <2>1, <2>4
    <3>2. i \in 0 .. L /\ n[i] # {}
      <4>1. i \in 0 .. L
        BY <1>3, <3>1
      <4> QED BY <1>4, <2>4, <3>1, <4>1
    <3>3. PICK j \in i + 1 .. L : Removes(w[j], b)
      BY <2>1, <2>4, <3>2
    <3>4. j \in 1 .. L /\ j \in i + 1 .. L + M
      BY <1>3, <3>2
    <3> QED BY <1>3, <3>3, <3>4
  <2> QED BY <2>2, <2>3, <2>4
<1>10. SeenFits(k, p2, w2, b, x2)
  <2>1. Has(w2, "init") => Has(w, "init")
    <3> SUFFICES ASSUME NEW i \in 1 .. L + M, w2[i].op = "init"
                 PROVE  \E j \in 1 .. L : w[j].op = "init"
      BY <1>3 DEF Has, L
    <3>1. i <= L
      <4> SUFFICES ASSUME i > L PROVE w2[i].op = "removed"
        BY <1>3
      <4>1. i - L \in 1 .. M /\ L + (i - L) = i
        BY <1>3
      <4> QED BY <1>3, <4>1
    <3>2. i \in 1 .. L
      BY <1>3, <3>1
    <3> QED BY <1>3, <3>2
  <2> QED BY <1>2, <1>3, <1>8, <2>1 DEF SeenFits, L
<1>11. MarkerFits(k, u, w2, b, y2, O)
  <2>1. \A i \in 1 .. L : i \in 1 .. L + M /\ w2[i] = w[i]
    BY <1>3
  <2>2. ASSUME NEW i \in 1 .. M
        PROVE  L + i \in 1 .. L + M /\ w2[L + i] = said[i] /\ (About(said[i], b) <=> said[i].b = b)
    BY <1>3 DEF About
  <2>3. b \in S => \E i \in 1 .. M : About(w2[L + i], b)
    BY <1>1, <2>2 DEF M
  <2>4. ASSUME NEW i \in 1 .. L + M, About(w2[i], b), \A z \in i + 1 .. L + M : ~About(w2[z], b)
        PROVE  Marked(w2[i], b) = y2
    <3>1. CASE i > L
      <4>1. i - L \in 1 .. M /\ L + (i - L) = i
        BY <1>3, <3>1
      <4>2. w2[i] = said[i - L] /\ said[i - L].op = "removed" /\ said[i - L].b = b
        BY <1>3, <2>2, <2>4, <4>1
      <4>3. b \in S
        BY <1>1, <4>1, <4>2 DEF M
      <4> QED BY <4>2, <4>3 DEF Marked
    <3>2. CASE i <= L
      <4>1. i \in 1 .. L /\ \A z \in 1 .. M : L + z \in i + 1 .. L + M
        BY <1>3, <3>2
      <4>2. b \notin S
        BY <2>3, <2>4, <4>1
      <4>3. \A z \in i + 1 .. L : z \in i + 1 .. L + M /\ z \in 1 .. L
        BY <1>3, <4>1
      <4>4. \A z \in i + 1 .. L : ~About(w[z], b)
        BY <1>3, <2>4, <4>3
      <4>5. Marked(w[i], b) = y
        BY <1>2, <2>1, <2>4, <4>1, <4>4 DEF MarkerFits, LastWord, L
      <4> QED BY <2>1, <4>1, <4>2, <4>5
    <3> QED BY <1>3, <3>1, <3>2
  <2>5. ASSUME k.state = "ready", \A i \in 1 .. L + M : ~About(w2[i], b)
        PROVE  \/ k.marker[b] = y2
               \/ Pending(u, b, k.marker[b]) /\ (b \in DOMAIN k.known \/ b \in O \/ b \in k.missed)
    <3>1. b \notin S
      BY <2>2, <2>3, <2>5
    <3>2. \A i \in 1 .. L : ~About(w[i], b)
      BY <2>1, <2>5
    <3> QED BY <1>2, <2>5, <3>1, <3>2 DEF MarkerFits, L
  <2> QED BY <1>3, <2>4, <2>5 DEF MarkerFits, LastWord
<1>12. N = {} => ~(x2 # 0 \/ y2 # 0)
  OBVIOUS
<1> QED BY <1>7, <1>9, <1>10, <1>11, <1>12 DEF Fits

\* The user moves the marker line of a buffer, c, that is known.
LEMMA FitsMoved ==
  ASSUME NEW k, Typed(k), NEW c \in Ids, c \in DOMAIN k.known, NEW v \in Nat, NEW k2,
         k2.state = k.state, k2.known = k.known, k2.seen = k.seen, k2.missed = k.missed,
         k2.marker = [k.marker EXCEPT ![c] = v], NEW u, NEW u2, NEW w, NEW b \in Ids, NEW N, NEW x, NEW y, NEW O, NEW P \in BOOLEAN,
         Fits(k, u, w, b, N, x, y, O, P),
         b # c => \A z : Pending(u, b, z) => Pending(u2, b, z), Pending(u2, c, v),
         \A op : Has(u, op) => Has(u2, op)
  PROVE  Fits(k2, u2, w, b, N, x, y, O, P)
<1>1. PICK n, p :
        /\ Paths(n, p, w, b) /\ NamesFit(k, n, w, b, N, O) /\ SeenFits(k, p, w, b, x)
        /\ MarkerFits(k, u, w, b, y, O)
        /\ b \notin k.missed /\ N = {} /\ b \notin O /\ (x # 0 \/ y # 0) /\ ~P
             => WillAsk(k, u, w, n, p, b)
  BY DEF Fits
<1>2. /\ k2.state = k.state /\ k2.known = k.known /\ k2.seen = k.seen /\ k2.missed = k.missed
      /\ k2.marker[b] = IF b = c THEN v ELSE k.marker[b]
  BY DEF Typed
<1>3. NamesFit(k2, n, w, b, N, O) /\ SeenFits(k2, p, w, b, x)
  BY <1>1, <1>2 DEF NamesFit, SeenFits
<1>4. MarkerFits(k2, u2, w, b, y, O)
  <2>1. CASE b = c
    BY <1>1, <1>2, <2>1 DEF MarkerFits
  <2>2. CASE b # c
    BY <1>1, <1>2, <2>2 DEF MarkerFits
  <2> QED BY <2>1, <2>2
<1>5. ASSUME b \notin k2.missed, WillAsk(k, u, w, n, p, b)
      PROVE  WillAsk(k2, u2, w, n, p, b)
  <2>1. ASSUME NEW i \in 1 .. Len(w), Asks(k, n, p, w, i, b)
        PROVE  Asks(k2, n, p, w, i, b)
    <3>1. CASE b = c
      <4>1. n[0] # {} /\ 0 \in 0 .. i - 1
        BY <1>1, <1>2, <1>5, <3>1, AtIs DEF NamesFit
      <4> QED BY <1>2, <2>1, <4>1 DEF Asks
    <3>2. CASE b # c
      BY <1>2, <2>1, <3>2 DEF Asks
    <3> QED BY <3>1, <3>2
  <2> QED BY <1>2, <1>5, <2>1 DEF WillAsk
<1> QED BY <1>1, <1>2, <1>3, <1>4, <1>5 DEF Fits

\* A client attaches, and knows what the core has.
LEMMA FitsAttached ==
  ASSUME NEW k, k.state = "networks", NEW b, NEW N, At(k.known, b) = N, NEW x, NEW y, NEW O, NEW P \in BOOLEAN
  PROVE  Fits(k, << >>, << >>, b, N, x, y, O, P)
<1> DEFINE n == [i \in {0} |-> N]
           p == [i \in {0} |-> x]
<1>1. n[0] = N /\ p[0] = x /\ Len(<< >>) = 0
  OBVIOUS
<1> HIDE DEF n, p
<1>2. Paths(n, p, << >>, b)
  BY <1>1 DEF Paths
<1>3. NamesFit(k, n, << >>, b, N, O)
  BY <1>1 DEF NamesFit
<1>4. SeenFits(k, p, << >>, b, x)
  BY <1>1 DEF SeenFits
<1>5. MarkerFits(k, << >>, << >>, b, y, O)
  BY <1>1 DEF MarkerFits, LastWord
<1>6. WillAsk(k, << >>, << >>, n, p, b)
  BY DEF WillAsk
<1> QED BY <1>2, <1>3, <1>4, <1>5, <1>6 DEF Fits

\* Its networks are synchronized: it asks for its positions.
LEMMA FitsSynced ==
  ASSUME NEW k, k.state = "networks", Typed(k), NEW k2, k2 = [k EXCEPT !.state = "synced"],
         NEW u, NEW u2, NEW w, NoInit(w), NEW b, NEW N, NEW x, NEW y, NEW O, NEW P \in BOOLEAN,
         Fits(k, u, w, b, N, x, y, O, P), Has(u2, "init")
  PROVE  Fits(k2, u2, w, b, N, x, y, O, P)
<1>1. PICK n, p :
        /\ Paths(n, p, w, b) /\ NamesFit(k, n, w, b, N, O) /\ SeenFits(k, p, w, b, x)
        /\ MarkerFits(k, u, w, b, y, O)
  BY DEF Fits
<1>2. k2.state = "synced" /\ k2.known = k.known /\ k2.missed = k.missed
  BY DEF Typed, ClientOK
<1>3. NamesFit(k2, n, w, b, N, O)
  BY <1>1, <1>2 DEF NamesFit
<1>4. SeenFits(k2, p, w, b, x)
  BY <1>2 DEF SeenFits, NoInit, Has
<1>5. MarkerFits(k2, u2, w, b, y, O)
  BY <1>1, <1>2 DEF MarkerFits
<1>6. WillAsk(k2, u2, w, n, p, b)
  BY DEF WillAsk
<1> QED BY <1>1, <1>3, <1>4, <1>5, <1>6 DEF Fits

\* A client has what the core has.
LEMMA FitsOld ==
  ASSUME NEW k, NEW b, NEW N, At(k.known, b) = N, NEW x, k.seen[b] = x, NEW y, k.marker[b] = y,
         N = {} => x = 0 /\ y = 0, NEW O, NEW P \in BOOLEAN
  PROVE  Fits(k, << >>, << >>, b, N, x, y, O, P)
<1> DEFINE n == [i \in {0} |-> N]
           p == [i \in {0} |-> x]
<1>1. n[0] = N /\ p[0] = x /\ Len(<< >>) = 0
  OBVIOUS
<1> HIDE DEF n, p
<1>2. Paths(n, p, << >>, b)
  BY <1>1 DEF Paths
<1>3. NamesFit(k, n, << >>, b, N, O)
  BY <1>1 DEF NamesFit
<1>4. SeenFits(k, p, << >>, b, x)
  BY <1>1 DEF SeenFits
<1>5. MarkerFits(k, << >>, << >>, b, y, O)
  BY <1>1 DEF MarkerFits, LastWord
<1> QED BY <1>2, <1>3, <1>4, <1>5 DEF Fits

-----------------------------------------------------------------------------
(* All clients *)

ClientFits(c) ==
  /\ Typed(client[c])
  /\ IF client[c].state = "away" THEN client[c] = Away /\ up[c] = << >> /\ down[c] = << >>
     ELSE /\ client[c].state \in {"networks", "synced", "ready"}
          /\ InitOnce(client[c].state, up[c], down[c])
          /\ \A b \in Ids : Fits(client[c], up[c], down[c], b, At(NamesOf, b), seen[b], marker[b],
                                 orphans, purging)

\* What was removed does not come back.
RemovedGone ==
  \A c \in Clients : \A i \in 1 .. Len(down[c]) :
    down[c][i].op = "removed" => down[c][i].b \in used \ DOMAIN rows

FitInv == IInv /\ purging \in BOOLEAN /\ (\A c \in Clients : ClientFits(c)) /\ RemovedGone

\* The core took request r of one client.
Took(r) ==
  \A d \in Clients :
    /\ up[d] = << >> => up'[d] = << >>
    /\ \A b, v : Pending(up[d], b, v) => Pending(up'[d], b, v) \/ (r.op = "marker" /\ r.b = b /\ r.msg = v)
    /\ \A op : Has(up[d], op) => Has(up'[d], op) \/ r.op = op
    /\ r.op # "init" => /\ NoInit(up[d]) => NoInit(up'[d])
                        /\ OneInit(up[d]) => OneInit(up'[d])

LEMMA InitShorter ==
  ASSUME NEW u, NEW u2, NEW r, Shorter(u, u2, r)
  PROVE  /\ NoInit(u) => NoInit(u2)
         /\ OneInit(u) => IF r.op = "init" THEN NoInit(u2) ELSE OneInit(u2)
<1> DEFINE L == Len(u2)
<1>1. L \in Nat /\ Len(u) = L + 1 /\ r = u[1] /\ \A i \in 1 .. L : u2[i] = u[i + 1]
  BY DEF Shorter
<1> HIDE DEF L
<1>2. ASSUME NEW i \in 1 .. L + 1, i # 1
      PROVE  i - 1 \in 1 .. L /\ u2[i - 1] = u[i]
  <2>1. i - 1 \in 1 .. L /\ (i - 1) + 1 = i
    BY <1>1, <1>2
  <2> QED BY <1>1, <2>1
<1>3. ASSUME NEW i \in 1 .. L
      PROVE  i + 1 \in 1 .. L + 1 /\ i + 1 # 1 /\ u2[i] = u[i + 1]
  BY <1>1, <1>3
<1>4. NoInit(u) => NoInit(u2)
  BY <1>1, <1>3 DEF NoInit, L
<1>5. ASSUME OneInit(u)
      PROVE  IF r.op = "init" THEN NoInit(u2) ELSE OneInit(u2)
  <2>1. PICK i \in 1 .. L + 1 : u[i].op = "init" /\ \A j \in 1 .. L + 1 : u[j].op = "init" => j = i
    BY <1>1, <1>5 DEF OneInit
  <2>2. CASE r.op = "init"
    <3>1. i = 1
      BY <1>1, <2>1, <2>2
    <3> QED BY <1>3, <2>1, <2>2, <3>1 DEF NoInit, L
  <2>3. CASE r.op # "init"
    <3>1. i - 1 \in 1 .. L /\ u2[i - 1].op = "init"
      BY <1>1, <1>2, <2>1, <2>3
    <3>2. ASSUME NEW j \in 1 .. L, u2[j].op = "init"
          PROVE  j = i - 1
      <4>1. j + 1 = i
        BY <1>3, <2>1, <3>2
      <4> QED BY <4>1
    <3> QED BY <2>3, <3>1, <3>2 DEF OneInit, L
  <2> QED BY <2>2, <2>3
<1> QED BY <1>4, <1>5

LEMMA TookHead ==
  ASSUME IInv, NEW c \in Clients, up[c] # << >>, up' = [up EXCEPT ![c] = Tail(@)]
  PROVE  Took(Head(up[c])) /\ (OneInit(up[c]) /\ Head(up[c]).op = "init" => NoInit(up'[c]))
<1> DEFINE u == up[c]
           u2 == Tail(u)
           r == Head(u)
           L == Len(u2)
<1>1. Shorter(u, u2, r)
  BY HeadTail DEF IInv, WiresOK
<1>2. L \in Nat /\ Len(u) = L + 1 /\ r = u[1] /\ \A i \in 1 .. L : u2[i] = u[i + 1]
  BY <1>1 DEF Shorter
<1>3. up'[c] = u2 /\ \A d \in Clients \ {c} : up'[d] = up[d]
  BY DEF IInv, WiresOK
<1> HIDE DEF u2, r, L
<1>4. ASSUME NEW i \in 1 .. L + 1, i # 1
      PROVE  i - 1 \in 1 .. L /\ u2[i - 1] = u[i]
  <2>1. i - 1 \in 1 .. L /\ (i - 1) + 1 = i
    BY <1>2, <1>4
  <2> QED BY <1>2, <2>1
<1>5. ASSUME NEW i \in 1 .. L
      PROVE  i + 1 \in 1 .. L + 1 /\ i + 1 # 1 /\ u2[i] = u[i + 1]
  BY <1>2, <1>5
<1>6. ASSUME NEW b, NEW v, Pending(u, b, v)
      PROVE  Pending(u2, b, v) \/ (r.op = "marker" /\ r.b = b /\ r.msg = v)
  <2>1. PICK j \in 1 .. L + 1 :
          /\ u[j].op = "marker" /\ u[j].b = b /\ u[j].msg = v
          /\ \A x \in j + 1 .. L + 1 : ~(u[x].op = "marker" /\ u[x].b = b)
    BY <1>2, <1>6 DEF Pending
  <2>2. CASE j = 1
    BY <1>2, <2>1, <2>2
  <2>3. CASE j # 1
    <3>1. j - 1 \in 1 .. L /\ u2[j - 1] = u[j]
      BY <1>4, <2>3
    <3>2. ASSUME NEW x \in (j - 1) + 1 .. L
          PROVE  ~(u2[x].op = "marker" /\ u2[x].b = b)
      <4>1. x \in 1 .. L /\ x + 1 \in j + 1 .. L + 1
        BY <1>2, <3>1
      <4> QED BY <1>5, <2>1, <4>1
    <3> QED BY <2>1, <3>1, <3>2 DEF Pending, L
  <2> QED BY <2>2, <2>3
<1>7. ASSUME NEW op, Has(u, op)
      PROVE  Has(u2, op) \/ r.op = op
  <2>1. PICK j \in 1 .. L + 1 : u[j].op = op
    BY <1>2, <1>7 DEF Has
  <2> QED BY <1>2, <1>4, <2>1 DEF Has, L
<1>8. /\ NoInit(u) => NoInit(u2)
      /\ OneInit(u) => IF r.op = "init" THEN NoInit(u2) ELSE OneInit(u2)
  BY <1>1, InitShorter DEF u2, r
<1> QED BY <1>3, <1>6, <1>7, <1>8 DEF Took, r

LEMMA TookNothing ==
  ASSUME up' = up
  PROVE  Took([op |-> "none"])
BY DEF Took

LEMMA LongerBy ==
  ASSUME NEW M, NEW w \in Seq(M), NEW m \in M
  PROVE  Longer(w, Append(w, m), m) /\ Longer(w, w \o <<m>>, m)
<1>1. Longer(w, Append(w, m), m)
  BY AppendProperties DEF Longer
<1>2. <<m>> \in Seq(M) /\ Len(<<m>>) = 1 /\ <<m>>[1] = m
  OBVIOUS
<1>3. Longer(w, w \o <<m>>, m)
  BY <1>2, ConcatProperties DEF Longer
<1> QED BY <1>1, <1>3

LEMMA InitLonger ==
  ASSUME NEW w, NEW w2, NEW m, Longer(w, w2, m)
  PROVE  /\ m.op # "init" => (NoInit(w) => NoInit(w2)) /\ (OneInit(w) => OneInit(w2))
         /\ m.op = "init" => (NoInit(w) => OneInit(w2))
         /\ \A op : Has(w, op) => Has(w2, op)
         /\ Has(w2, m.op)
<1> DEFINE L == Len(w)
<1>1. L \in Nat /\ Len(w2) = L + 1 /\ w2[L + 1] = m /\ \A i \in 1 .. L : w2[i] = w[i]
  BY DEF Longer
<1> HIDE DEF L
<1>2. /\ L + 1 \in 1 .. L + 1
      /\ \A i \in 1 .. L : i \in 1 .. L + 1
      /\ \A i \in 1 .. L + 1 : i # L + 1 => i \in 1 .. L
      /\ L + 1 \notin 1 .. L
  BY <1>1
<1>3. m.op # "init" /\ NoInit(w) => NoInit(w2)
  BY <1>1, <1>2 DEF NoInit, L
<1>4. ASSUME m.op # "init", OneInit(w)
      PROVE  OneInit(w2)
  <2>1. PICK i \in 1 .. L : w[i].op = "init" /\ \A j \in 1 .. L : w[j].op = "init" => j = i
    BY <1>4 DEF OneInit, L
  <2>2. i \in 1 .. L + 1 /\ w2[i].op = "init" /\ \A j \in 1 .. L + 1 : w2[j].op = "init" => j = i
    BY <1>1, <1>2, <1>4, <2>1
  <2> QED BY <1>1, <2>2 DEF OneInit
<1>5. m.op = "init" /\ NoInit(w) => OneInit(w2)
  BY <1>1, <1>2 DEF NoInit, OneInit, L
<1>6. \A op : Has(w, op) => Has(w2, op)
  BY <1>1, <1>2 DEF Has, L
<1>7. Has(w2, m.op)
  BY <1>1, <1>2 DEF Has
<1> QED BY <1>3, <1>4, <1>5, <1>6, <1>7

\* A request more.
LEMMA RequestLonger ==
  ASSUME NEW u, NEW u2, NEW r, Longer(u, u2, r)
  PROVE  /\ \A b, v : ~(r.op = "marker" /\ r.b = b) /\ Pending(u, b, v) => Pending(u2, b, v)
         /\ r.op = "marker" => Pending(u2, r.b, r.msg)
<1> DEFINE L == Len(u)
<1>1. L \in Nat /\ Len(u2) = L + 1 /\ u2[L + 1] = r /\ \A i \in 1 .. L : u2[i] = u[i]
  BY DEF Longer
<1> HIDE DEF L
<1>2. ASSUME NEW b, NEW v, ~(r.op = "marker" /\ r.b = b), Pending(u, b, v)
      PROVE  Pending(u2, b, v)
  <2>1. PICK j \in 1 .. L :
          /\ u[j].op = "marker" /\ u[j].b = b /\ u[j].msg = v
          /\ \A x \in j + 1 .. L : ~(u[x].op = "marker" /\ u[x].b = b)
    BY <1>2 DEF Pending, L
  <2>2. \A x \in j + 1 .. L + 1 : x = L + 1 \/ (x \in j + 1 .. L /\ x \in 1 .. L)
    BY <1>1
  <2>3. j \in 1 .. L + 1
    BY <1>1
  <2> QED BY <1>1, <1>2, <2>1, <2>2, <2>3 DEF Pending
<1>3. ASSUME r.op = "marker"
      PROVE  Pending(u2, r.b, r.msg)
  <2>1. L + 1 \in 1 .. L + 1 /\ (L + 1) + 1 .. L + 1 = {}
    BY <1>1
  <2> QED BY <1>1, <1>3, <2>1 DEF Pending
<1> QED BY <1>2, <1>3

\* The core tells everybody of a change, with m.
Tells(m) ==
  /\ m.op # "init" /\ client' = client /\ purging' = purging
  /\ \A d \in Clients : IF d \in Attached THEN Longer(down[d], down'[d], m) ELSE down'[d] = down[d]
  /\ \A b \in Ids :
       /\ At(NamesOf', b) = Named(At(NamesOf, b), m, b)
       /\ seen'[b] = SeenAt(seen[b], m, b)
       /\ marker'[b] = IF About(m, b) THEN Marked(m, b) ELSE marker[b]
       /\ m.op = "seen" /\ m.b = b => seen[b] < m.msg
       /\ m.op = "marker" /\ m.b = b => marker[b] # m.msg
       /\ b \in orphans => b \in orphans'
       /\ m.op = "dropped" /\ At(NamesOf, b) # {} => b \in orphans'
  /\ used \subseteq used' /\ \A b \in used : b \notin DOMAIN rows => b \notin DOMAIN rows'
  /\ m.op = "removed" => m.b \in used' \ DOMAIN rows'

LEMMA TellStep ==
  ASSUME FitInv, IInv', NEW r, Took(r), r.op \notin {"init", "purge"},
         NEW m, Tells(m), r.op = "marker" => About(m, r.b)
  PROVE  FitInv'
<1> USE DEF Tells
<1>1. ASSUME NEW d \in Clients
      PROVE  ClientFits(d)'
  <2>1. Typed(client[d])' /\ client'[d] = client[d]
    <3>1. Typed(client[d]) /\ ClientOK(client[d])'
      BY DEF FitInv, ClientFits, IInv, ClientsOK
    <3> QED BY <3>1 DEF Typed
  <2>2. CASE client[d].state = "away"
    BY <2>1, <2>2 DEF FitInv, ClientFits, Took, Attached
  <2>3. CASE client[d].state # "away"
    <3>1. /\ Longer(down[d], down'[d], m)
          /\ client[d].state \in {"networks", "synced", "ready"}
          /\ InitOnce(client[d].state, up[d], down[d])
          /\ \A b \in Ids : Fits(client[d], up[d], down[d], b, At(NamesOf, b), seen[b], marker[b], orphans, purging)
      BY <2>3 DEF FitInv, ClientFits, Attached
    <3>2. InitOnce(client[d].state, up'[d], down'[d])
      BY <3>1, InitLonger DEF InitOnce, Took
    <3>3. ASSUME NEW b \in Ids
          PROVE  Fits(client[d], up'[d], down'[d], b, At(NamesOf', b), seen'[b], marker'[b], orphans', purging)
      <4>1. ~About(m, b) => \A v : Pending(up[d], b, v) => Pending(up'[d], b, v)
        BY DEF Took
      <4>2. Has(up[d], "purge") => Has(up'[d], "purge")
        BY DEF Took
      <4>3. Has(up[d], "init") => Has(up'[d], "init")
        BY DEF Took
      <4>4. purging \in BOOLEAN
        BY DEF FitInv
      <4>5. Fits(client[d], up[d], down[d], b, At(NamesOf, b), seen[b], marker[b], orphans, purging)
        BY <3>1
      <4>6. /\ At(NamesOf', b) = Named(At(NamesOf, b), m, b)
            /\ seen'[b] = SeenAt(seen[b], m, b)
            /\ About(m, b) => marker'[b] = Marked(m, b)
            /\ ~About(m, b) => marker'[b] = marker[b]
            /\ m.op = "seen" /\ m.b = b => seen[b] < m.msg
            /\ m.op = "marker" /\ m.b = b => marker[b] # m.msg
            /\ b \in orphans => b \in orphans'
            /\ m.op = "dropped" /\ At(NamesOf, b) # {} => b \in orphans'
        OBVIOUS
      <4>7. Fits(client[d], up'[d], down'[d], b, Named(At(NamesOf, b), m, b), seen'[b], marker'[b], orphans', purging)
        <5>1. m.op = "init" => m.seen[b] = seen[b] /\ m.marker[b] = marker[b]
          OBVIOUS
        <5>2. Has(up[d], "init") => Has(up'[d], "init") \/ m.op = "init"
          BY <4>3
        <5>3. /\ Longer(down[d], down'[d], m) /\ InitOnce(client[d].state, up[d], down[d])
              /\ client[d].state \in {"networks", "synced", "ready"}
          BY <3>1
        <5> QED BY ONLY <4>1, <4>2, <4>4, <4>5, <4>6, <5>1, <5>2, <5>3, FitsTold
      <4> QED BY <4>6, <4>7
    <3> QED BY <2>1, <2>3, <3>1, <3>2, <3>3 DEF ClientFits
  <2> QED BY <2>2, <2>3
<1>2. RemovedGone'
  <2> SUFFICES ASSUME NEW d \in Clients, NEW i \in 1 .. Len(down'[d]), down'[d][i].op = "removed"
               PROVE  down'[d][i].b \in used' \ DOMAIN rows'
    BY DEF RemovedGone
  <2>1. CASE i \in 1 .. Len(down[d]) /\ down'[d][i] = down[d][i]
    <3>1. down[d][i].b \in used \ DOMAIN rows
      BY <2>1 DEF FitInv, RemovedGone
    <3> QED BY <2>1, <3>1
  <2>2. CASE d \in Attached
    <3>1. i = Len(down[d]) + 1 \/ i \in 1 .. Len(down[d])
      BY <2>2 DEF Longer
    <3> QED BY <2>1, <2>2, <3>1 DEF Longer
  <2>3. CASE d \notin Attached
    BY <2>1, <2>3
  <2> QED BY <2>2, <2>3
<1> QED BY <1>1, <1>2 DEF FitInv

\* The core does nothing that clients are told of.
LEMMA SilentStep ==
  ASSUME FitInv, IInv', client' = client, purging => purging', purging' \in BOOLEAN, NEW r, Took(r), r.op # "init",
         r.op = "purge" => purging', r.op = "marker" => r.msg = marker[r.b],
         UNCHANGED <<down, seen, marker, orphans, used>>, DOMAIN rows' = DOMAIN rows, NamesOf' = NamesOf
  PROVE  FitInv'
<1>1. ASSUME NEW d \in Clients
      PROVE  ClientFits(d)'
  <2>1. Typed(client[d])' /\ client'[d] = client[d]
    <3>1. Typed(client[d]) /\ ClientOK(client[d])'
      BY DEF FitInv, ClientFits, IInv, ClientsOK
    <3> QED BY <3>1 DEF Typed
  <2>2. CASE client[d].state = "away"
    BY <2>1, <2>2 DEF FitInv, ClientFits, Took
  <2>3. CASE client[d].state # "away"
    <3>1. /\ client[d].state \in {"networks", "synced", "ready"}
          /\ InitOnce(client[d].state, up[d], down[d])
          /\ \A b \in Ids : Fits(client[d], up[d], down[d], b, At(NamesOf, b), seen[b], marker[b], orphans, purging)
      BY <2>3 DEF FitInv, ClientFits
    <3>2. InitOnce(client[d].state, up'[d], down[d])
      BY <3>1 DEF InitOnce, Took
    <3>3. ASSUME NEW b \in Ids
          PROVE  Fits(client[d], up'[d], down[d], b, At(NamesOf, b), seen[b], marker[b], orphans, purging')
      <4>1. \A v : Pending(up[d], b, v) => Pending(up'[d], b, v) \/ v = marker[b]
        BY DEF Took
      <4>2. Has(up[d], "purge") => Has(up'[d], "purge") \/ purging'
        BY DEF Took
      <4>3. Has(up[d], "init") => Has(up'[d], "init")
        BY DEF Took
      <4>4. purging \in BOOLEAN
        BY DEF FitInv
      <4> QED BY <3>1, <4>1, <4>2, <4>3, <4>4, FitsKept
    <3> QED BY <2>1, <2>3, <3>1, <3>2, <3>3 DEF ClientFits
  <2> QED BY <2>2, <2>3
<1>2. RemovedGone'
  BY DEF FitInv, RemovedGone
<1> QED BY <1>1, <1>2 DEF FitInv

LEMMA ToldLonger ==
  ASSUME IInv, NEW c, NEW m \in Messages(used), down' = Told(down, c, m)
  PROVE  \A d \in Clients : IF d \in Attached THEN Longer(down[d], down'[d], m) ELSE down'[d] = down[d]
<1> SUFFICES ASSUME NEW d \in Clients
             PROVE  IF d \in Attached THEN Longer(down[d], down'[d], m) ELSE down'[d] = down[d]
  OBVIOUS
<1>1. down[d] \in Seq(Messages(used))
  BY DEF IInv, WiresOK
<1>2. Longer(down[d], Append(down[d], m), m)
  <2> HIDE DEF Messages
  <2> QED BY <1>1, LongerBy
<1> QED BY <1>2 DEF Told

LEMMA ToldAllLonger ==
  ASSUME IInv, NEW u, used \subseteq u, NEW m \in Messages(u), down' = ToldAll(<<m>>)
  PROVE  \A d \in Clients : IF d \in Attached THEN Longer(down[d], down'[d], m) ELSE down'[d] = down[d]
<1> SUFFICES ASSUME NEW d \in Clients
             PROVE  IF d \in Attached THEN Longer(down[d], down'[d], m) ELSE down'[d] = down[d]
  OBVIOUS
<1>1. down[d] \in Seq(Messages(u))
  <2>1. down[d] \in Seq(Messages(used)) /\ Messages(used) \subseteq Messages(u)
    BY WiresGrow DEF IInv, WiresOK
  <2> HIDE DEF Messages
  <2> QED BY <2>1, SeqMonotonic
<1>2. Longer(down[d], down[d] \o <<m>>, m)
  <2> HIDE DEF Messages
  <2> QED BY <1>1, LongerBy
<1> QED BY <1>2 DEF ToldAll

-----------------------------------------------------------------------------
(* Every step keeps what fits *)

LEMMA NamesAt ==
  ASSUME NEW t, NEW b, NEW f, f = [x \in DOMAIN t |-> t[x].name]
  PROVE  /\ b \in DOMAIN t => At(f, b) = {t[b].name} /\ At(f, b) # {}
         /\ b \notin DOMAIN t => At(f, b) = {}
<1>1. /\ b \in DOMAIN f => At(f, b) = {f[b]} /\ At(f, b) # {}
      /\ b \notin DOMAIN f => At(f, b) = {}
  BY AtIs
<1> QED BY <1>1

LEMMA NamesNow ==
  \A b : /\ b \in DOMAIN rows => At(NamesOf, b) = {rows[b].name} /\ At(NamesOf, b) # {}
         /\ b \notin DOMAIN rows => At(NamesOf, b) = {}
         /\ b \in DOMAIN rows' => At(NamesOf', b) = {rows'[b].name} /\ At(NamesOf', b) # {}
         /\ b \notin DOMAIN rows' => At(NamesOf', b) = {}
<1>1. NamesOf = [x \in DOMAIN rows |-> rows[x].name] /\ NamesOf' = [x \in DOMAIN rows' |-> rows'[x].name]
  BY DEF NamesOf
<1> QED BY <1>1, NamesAt

LEMMA FitSeen ==
  ASSUME FitInv, IInv', UNCHANGED client, NEW c, NEW r, Took(r), r.op = "seen",
         r.b \in used, r.msg \in Nat \ {0}, RequestSetLastSeenMsg(c, r.b, r.msg)
  PROVE  FitInv'
<1> DEFINE m == [op |-> "seen", b |-> r.b, msg |-> r.msg]
<1>1. UNCHANGED <<rows, used, marker, purging, orphans>> /\ NamesOf' = NamesOf
  BY DEF RequestSetLastSeenMsg, NamesOf
<1>2. IInv /\ purging \in BOOLEAN /\ seen \in [Ids -> Nat] /\ used \subseteq Ids
  BY DEF FitInv, IInv, PositionsOK, TableOK
<1>3. CASE Newer(r.b, r.msg) /\ seen' = [seen EXCEPT ![r.b] = r.msg] /\ down' = Told(down, c, m)
  <2>1. m \in Messages(used)
    BY <1>2 DEF Messages
  <2>2. \A d \in Clients : IF d \in Attached THEN Longer(down[d], down'[d], m) ELSE down'[d] = down[d]
    BY <1>2, <1>3, <2>1, ToldLonger
  <2>3. ASSUME NEW b \in Ids
        PROVE  /\ Named(At(NamesOf, b), m, b) = At(NamesOf, b)
               /\ SeenAt(seen[b], m, b) = seen'[b] /\ ~About(m, b)
    BY <1>2, <1>3 DEF Named, SeenAt, About, Removes, Newer
  <2>4. Tells(m)
    BY <1>1, <1>2, <1>3, <2>2, <2>3 DEF Tells, Newer
  <2> QED BY <2>4, TellStep
<1>4. CASE UNCHANGED <<seen, down>>
  BY <1>1, <1>2, <1>4, SilentStep
<1> QED BY <1>3, <1>4 DEF RequestSetLastSeenMsg

LEMMA FitMarker ==
  ASSUME FitInv, IInv', UNCHANGED client, NEW c, NEW r, Took(r), r.op = "marker",
         r.b \in used, r.msg \in Nat \ {0}, RequestSetMarkerLine(c, r.b, r.msg)
  PROVE  FitInv'
<1> DEFINE m == [op |-> "marker", b |-> r.b, msg |-> r.msg]
<1>1. UNCHANGED <<rows, used, seen, purging, orphans>> /\ NamesOf' = NamesOf
  BY DEF RequestSetMarkerLine, NamesOf
<1>2. IInv /\ purging \in BOOLEAN /\ marker \in [Ids -> Nat] /\ used \subseteq Ids
  BY DEF FitInv, IInv, PositionsOK, TableOK
<1>3. CASE marker[r.b] # r.msg /\ marker' = [marker EXCEPT ![r.b] = r.msg] /\ down' = Told(down, c, m)
  <2>1. m \in Messages(used)
    BY <1>2 DEF Messages
  <2>2. \A d \in Clients : IF d \in Attached THEN Longer(down[d], down'[d], m) ELSE down'[d] = down[d]
    BY <1>2, <1>3, <2>1, ToldLonger
  <2>3. ASSUME NEW b \in Ids
        PROVE  /\ Named(At(NamesOf, b), m, b) = At(NamesOf, b)
               /\ SeenAt(seen[b], m, b) = seen[b]
               /\ marker'[b] = IF About(m, b) THEN Marked(m, b) ELSE marker[b]
    BY <1>2, <1>3 DEF Named, SeenAt, About, Marked, Removes
  <2>4. Tells(m) /\ About(m, r.b)
    BY <1>1, <1>2, <1>3, <2>2, <2>3 DEF Tells, About
  <2> QED BY <2>4, TellStep
<1>4. CASE marker[r.b] = r.msg /\ UNCHANGED <<marker, down>>
  BY <1>1, <1>2, <1>4, SilentStep
<1> QED BY <1>3, <1>4 DEF RequestSetMarkerLine

\* Buffer b is removed, by itself or merged into another.
LEMMA TellsRemoved ==
  ASSUME IInv, UNCHANGED <<client, used, purging, orphans>>, NEW c, NEW b \in DOMAIN rows,
         rows' = Without(rows, {b}), seen' = Cleared(seen, {b}), marker' = Cleared(marker, {b}),
         down' = Told(down, c, [op |-> "removed", b |-> b])
  PROVE  Tells([op |-> "removed", b |-> b])
<1> DEFINE m == [op |-> "removed", b |-> b]
<1>1. b \in used /\ b \in Ids /\ seen \in [Ids -> Nat] /\ marker \in [Ids -> Nat]
  BY DEF IInv, TableOK, PositionsOK
<1>2. m \in Messages(used)
  BY <1>1 DEF Messages
<1>3. \A d \in Clients : IF d \in Attached THEN Longer(down[d], down'[d], m) ELSE down'[d] = down[d]
  BY <1>2, ToldLonger
<1>4. DOMAIN rows' = DOMAIN rows \ {b} /\ \A a \in DOMAIN rows' : rows'[a] = rows[a]
  BY DEF Without
<1>5. ASSUME NEW a \in Ids
      PROVE  /\ At(NamesOf', a) = Named(At(NamesOf, a), m, a)
             /\ seen'[a] = SeenAt(seen[a], m, a)
             /\ marker'[a] = IF About(m, a) THEN Marked(m, a) ELSE marker[a]
  <2>1. At(NamesOf', a) = Named(At(NamesOf, a), m, a)
    <3>1. CASE a = b
      <4>1. At(NamesOf', a) = {}
        BY <1>4, <3>1, NamesNow
      <4> QED BY <3>1, <4>1 DEF Named, Removes
    <3>2. CASE a # b
      <4>1. At(NamesOf', a) = At(NamesOf, a)
        BY <1>4, <3>2, NamesNow
      <4> QED BY <3>2, <4>1 DEF Named, Removes
    <3> QED BY <3>1, <3>2
  <2>2. /\ seen'[a] = SeenAt(seen[a], m, a)
        /\ marker'[a] = IF About(m, a) THEN Marked(m, a) ELSE marker[a]
    BY <1>1 DEF Cleared, SeenAt, About, Marked, Removes
  <2> QED BY <2>1, <2>2
<1> QED BY <1>1, <1>3, <1>4, <1>5 DEF Tells

LEMMA FitRemove ==
  ASSUME FitInv, IInv', UNCHANGED client, NEW c, NEW r, Took(r), r.op = "remove", RemoveBuffer(c, r.b)
  PROVE  FitInv'
<1>1. UNCHANGED <<used, purging, orphans>> /\ IInv /\ purging \in BOOLEAN
  BY DEF RemoveBuffer, FitInv
<1>2. CASE Removable(r.b) /\ ~UNCHANGED <<rows, seen, marker, down>>
  <2>1. Tells([op |-> "removed", b |-> r.b])
    BY <1>1, <1>2, TellsRemoved DEF RemoveBuffer, Removable
  <2> QED BY <2>1, TellStep
<1>3. CASE UNCHANGED <<rows, seen, marker, down>>
  BY <1>1, <1>3, SilentStep DEF NamesOf
<1> QED BY <1>2, <1>3 DEF RemoveBuffer

LEMMA FitMerge ==
  ASSUME FitInv, IInv', UNCHANGED client, NEW c, NEW r, Took(r), r.op = "merge",
         MergeBuffersPermanently(c, r.b, r.b2)
  PROVE  FitInv'
<1>1. UNCHANGED <<used, purging, orphans>> /\ IInv /\ purging \in BOOLEAN
  BY DEF MergeBuffersPermanently, FitInv
<1>2. CASE Mergeable(r.b, r.b2) /\ ~UNCHANGED <<rows, seen, marker, down>>
  <2>1. Tells([op |-> "removed", b |-> r.b2])
    BY <1>1, <1>2, TellsRemoved DEF MergeBuffersPermanently, Mergeable
  <2> QED BY <2>1, TellStep
<1>3. CASE UNCHANGED <<rows, seen, marker, down>>
  BY <1>1, <1>3, SilentStep DEF NamesOf
<1> QED BY <1>2, <1>3 DEF MergeBuffersPermanently

\* by a client, or since the nick changed
LEMMA FitRename ==
  ASSUME FitInv, IInv', UNCHANGED client, NEW c, NEW r, Took(r), r.op \in {"rename", "none"},
         NEW b \in Ids, NEW name \in Names, RenameBuffer(c, b, name)
  PROVE  FitInv'
<1> DEFINE m == [op |-> "renamed", b |-> b, name |-> name]
<1>1. UNCHANGED <<used, seen, marker, purging, orphans>>
  BY DEF RenameBuffer
<1>2. IInv /\ purging \in BOOLEAN
  BY DEF FitInv
<1>3. CASE Renamable(b, name) /\ rows' = [rows EXCEPT ![b].name = name] /\ down' = Told(down, c, m)
  <2>1. m \in Messages(used)
    BY DEF Messages
  <2>2. \A d \in Clients : IF d \in Attached THEN Longer(down[d], down'[d], m) ELSE down'[d] = down[d]
    BY <1>2, <1>3, <2>1, ToldLonger
  <2>3. /\ DOMAIN rows' = DOMAIN rows /\ b \in DOMAIN rows
        /\ \A a \in DOMAIN rows :
             rows'[a] = IF a = b THEN [rows[a] EXCEPT !.name = name] ELSE rows[a]
    BY <1>3 DEF Renamable
  <2>4. DOMAIN rows[b] = {"name", "seen", "marker"}
    BY <1>2, <2>3 DEF IInv, TableOK, Row
  <2>5. \A a \in DOMAIN rows : rows'[a].name = IF a = b THEN name ELSE rows[a].name
    BY <2>3, <2>4
  <2>6. ASSUME NEW a \in Ids
        PROVE  At(NamesOf', a) = Named(At(NamesOf, a), m, a)
    <3>1. CASE a = b
      <4>1. At(NamesOf', a) = {name} /\ At(NamesOf, a) # {}
        BY <2>3, <2>5, <3>1, NamesNow
      <4> QED BY <3>1, <4>1 DEF Named, Removes
    <3>2. CASE a # b
      <4>1. At(NamesOf', a) = At(NamesOf, a)
        BY <2>3, <2>5, <3>2, NamesNow
      <4> QED BY <3>2, <4>1 DEF Named, Removes
    <3> QED BY <3>1, <3>2
  <2>7. \A a \in Ids : SeenAt(seen[a], m, a) = seen[a] /\ ~About(m, a)
    BY DEF SeenAt, About, Removes
  <2>8. Tells(m)
    BY <1>1, <2>2, <2>3, <2>6, <2>7 DEF Tells
  <2> QED BY <2>8, TellStep
<1>4. CASE UNCHANGED <<rows, down>>
  BY <1>1, <1>2, <1>4, SilentStep DEF NamesOf
<1> QED BY <1>3, <1>4 DEF RenameBuffer

LEMMA FitCreate ==
  ASSUME FitInv, IInv', NEW b \in Ids, NEW name \in Names \cup {Channel}, CreateBuffer(b, name)
  PROVE  FitInv'
<1> DEFINE m == [op |-> "buffer", b |-> b, name |-> name]
<1>1. /\ b \notin used /\ used' = used \union {b}
      /\ UNCHANGED <<seen, marker, client, up, purging, orphans>> /\ down' = ToldAll(<<m>>)
  BY DEF CreateBuffer
<1>2. IInv /\ DOMAIN rows \subseteq used
  BY DEF FitInv, IInv, TableOK
<1>3. /\ DOMAIN rows' = DOMAIN rows \union {b} /\ rows'[b].name = name
      /\ \A a \in DOMAIN rows : rows'[a] = rows[a]
  BY <1>1, <1>2 DEF CreateBuffer
<1>4. m \in Messages(used') /\ used \subseteq used'
  BY <1>1 DEF Messages
<1>5. \A d \in Clients : IF d \in Attached THEN Longer(down[d], down'[d], m) ELSE down'[d] = down[d]
  BY <1>1, <1>2, <1>4, ToldAllLonger
<1>6. ASSUME NEW a \in Ids
      PROVE  At(NamesOf', a) = Named(At(NamesOf, a), m, a)
  <2>1. CASE a = b
    <3>1. At(NamesOf', a) = {name} /\ At(NamesOf, a) = {}
      BY <1>1, <1>2, <1>3, <2>1, NamesNow
    <3> QED BY <2>1, <3>1 DEF Named, Removes
  <2>2. CASE a # b
    <3>1. At(NamesOf', a) = At(NamesOf, a)
      BY <1>3, <2>2, NamesNow
    <3> QED BY <2>2, <3>1 DEF Named, Removes
  <2> QED BY <2>1, <2>2
<1>7. \A a \in Ids : SeenAt(seen[a], m, a) = seen[a] /\ ~About(m, a)
  BY DEF SeenAt, About, Removes
<1>8. Tells(m)
  BY <1>1, <1>3, <1>5, <1>6, <1>7 DEF Tells
<1>9. Took([op |-> "none"])
  BY <1>1, TookNothing
<1> QED BY <1>8, <1>9, TellStep

LEMMA FitNick ==
  ASSUME FitInv, IInv', NEW b \in Ids, NEW name \in Names, NickChange(b, name)
  PROVE  FitInv'
<1>1. PICK c : RenameBuffer(c, b, name)
  BY DEF NickChange
<1>2. UNCHANGED <<client, up>>
  BY DEF NickChange
<1>3. Took([op |-> "none"])
  BY <1>2, TookNothing
<1> QED BY <1>1, <1>2, <1>3, FitRename

LEMMA FitDestroy ==
  ASSUME FitInv, IInv', DestroyNetwork
  PROVE  FitInv'
<1> DEFINE m == [op |-> "dropped"]
<1>1. /\ UNCHANGED <<used, seen, marker, client, up, purging>> /\ down' = ToldAll(<<m>>)
      /\ orphans' = orphans \union DOMAIN rows /\ rows' = << >>
  BY DEF DestroyNetwork
<1>2. IInv /\ used \subseteq used
  BY DEF FitInv
<1>3. DOMAIN rows' = {}
  BY <1>1
<1>4. m \in Messages(used)
  BY DEF Messages
<1>5. \A d \in Clients : IF d \in Attached THEN Longer(down[d], down'[d], m) ELSE down'[d] = down[d]
  BY <1>1, <1>2, <1>4, ToldAllLonger
<1>6. \A a : At(NamesOf', a) = {} /\ (At(NamesOf, a) # {} => a \in orphans')
  BY <1>1, <1>3, NamesNow
<1>7. \A a \in Ids : SeenAt(seen[a], m, a) = seen[a] /\ ~About(m, a) /\ Named(At(NamesOf, a), m, a) = {}
  BY DEF SeenAt, About, Removes, Named
<1>8. Tells(m)
  BY <1>1, <1>3, <1>5, <1>6, <1>7 DEF Tells
<1>9. Took([op |-> "none"])
  BY <1>1, TookNothing
<1> QED BY <1>8, <1>9, TellStep

\* The database is written, the user joins or parts, or nothing happens.
LEMMA FitSilent ==
  ASSUME FitInv, IInv', StoreDirtyIds \/ JoinOrPart \/ UNCHANGED bufferVars
  PROVE  FitInv'
<1>1. UNCHANGED <<client, up, down, seen, marker, orphans, used, purging>>
  BY DEF StoreDirtyIds, JoinOrPart, bufferVars, coreVars
<1>2. DOMAIN rows' = DOMAIN rows /\ NamesOf' = NamesOf
  <2>1. CASE rows' = rows
    BY <2>1 DEF NamesOf
  <2>2. CASE rows' = Stored
    <3>1. DOMAIN Stored = DOMAIN rows /\ \A b \in DOMAIN rows : Stored[b].name = rows[b].name
      BY DEF Stored
    <3> QED BY <2>2, <3>1 DEF NamesOf
  <2> QED BY <2>1, <2>2 DEF StoreDirtyIds, JoinOrPart, bufferVars, coreVars
<1>3. Took([op |-> "none"])
  BY <1>1, TookNothing
<1>4. purging \in BOOLEAN
  BY DEF FitInv
<1> QED BY <1>1, <1>2, <1>3, <1>4, SilentStep

\* The core starts without clients.
LEMMA FitStart ==
  ASSUME FitInv, IInv', Crash \/ Shutdown
  PROVE  FitInv'
<1>1. /\ client' = [c \in Clients |-> Away] /\ purging' = FALSE
      /\ up' = [c \in Clients |-> << >>] /\ down' = [c \in Clients |-> << >>]
  BY DEF Crash, Shutdown, StartWith
<1>2. ASSUME NEW c \in Clients
      PROVE  ClientFits(c)'
  <2>1. ClientOK(client[c])' /\ client'[c] = Away
    BY <1>1 DEF IInv, ClientsOK
  <2>2. Typed(client[c])'
    BY <2>1 DEF Typed, Away, NoPositions
  <2> QED BY <1>1, <2>1, <2>2 DEF ClientFits, Away
<1>3. RemovedGone'
  BY <1>1 DEF RemovedGone
<1> QED BY <1>1, <1>2, <1>3 DEF FitInv

\* What a step of client c has to show.
LEMMA ClientStep ==
  ASSUME FitInv, IInv', NEW c \in Clients, UNCHANGED coreVars,
         \A d \in Clients \ {c} : client'[d] = client[d] /\ up'[d] = up[d] /\ down'[d] = down[d],
         ClientFits(c)',
         \A i \in 1 .. Len(down'[c]) : down'[c][i].op = "removed" => down'[c][i].b \in used \ DOMAIN rows
  PROVE  FitInv'
<1>1. UNCHANGED <<rows, used, seen, marker, purging, orphans>> /\ NamesOf' = NamesOf
  BY DEF coreVars, NamesOf
<1>2. ASSUME NEW d \in Clients, d # c
      PROVE  ClientFits(d)'
  <2>1. client'[d] = client[d] /\ up'[d] = up[d] /\ down'[d] = down[d]
    BY <1>2
  <2>2. ClientOK(client[d])'
    BY DEF IInv, ClientsOK
  <2>3. ClientFits(d)
    BY DEF FitInv
  <2> QED BY <1>1, <2>1, <2>2, <2>3 DEF ClientFits, Typed
<1>3. RemovedGone'
  BY <1>1 DEF FitInv, RemovedGone
<1> QED BY <1>1, <1>2, <1>3 DEF FitInv

LEMMA FitDetach ==
  ASSUME FitInv, IInv', NEW c \in Clients, Detach(c)
  PROVE  FitInv'
<1>1. IInv
  BY DEF FitInv
<1>2. /\ UNCHANGED coreVars /\ client' = [client EXCEPT ![c] = Away]
      /\ up' = [up EXCEPT ![c] = << >>] /\ down' = [down EXCEPT ![c] = << >>]
  BY DEF Detach
<1>3. client'[c] = Away /\ up'[c] = << >> /\ down'[c] = << >>
  BY <1>1, <1>2 DEF IInv, ClientsOK, WiresOK
<1>4. \A d \in Clients \ {c} : client'[d] = client[d] /\ up'[d] = up[d] /\ down'[d] = down[d]
  BY <1>1, <1>2 DEF IInv, ClientsOK, WiresOK
<1>5. Typed(client[c])'
  <2>1. ClientOK(client[c])'
    BY DEF IInv, ClientsOK
  <2> QED BY <1>3, <2>1 DEF Typed, Away, NoPositions
<1>6. ClientFits(c)'
  BY <1>3, <1>5 DEF ClientFits, Away
<1>7. \A i \in 1 .. Len(down'[c]) : FALSE
  BY <1>3
<1> QED BY <1>2, <1>4, <1>6, <1>7, ClientStep

LEMMA FitAttach ==
  ASSUME FitInv, IInv', NEW c \in Clients, Attach(c)
  PROVE  FitInv'
<1>1. IInv /\ ClientFits(c) /\ purging \in BOOLEAN
  BY DEF FitInv
<1>2. client[c] = Away /\ up[c] = << >> /\ down[c] = << >>
  BY <1>1 DEF Attach, ClientFits
<1>3. UNCHANGED <<coreVars, up, down>> /\ client' = [client EXCEPT ![c].state = "networks", ![c].known = NamesOf]
  BY DEF Attach
<1>4. \A d \in Clients \ {c} : client'[d] = client[d] /\ up'[d] = up[d] /\ down'[d] = down[d]
  BY <1>1, <1>3 DEF IInv, ClientsOK
<1>5. /\ client'[c].state = "networks" /\ client'[c].known = NamesOf
      /\ client'[c].seen = NoPositions /\ client'[c].marker = NoPositions
  <2>1. client'[c] = [Away EXCEPT !.state = "networks", !.known = NamesOf]
    BY <1>1, <1>2, <1>3 DEF IInv, ClientsOK
  <2>2. /\ DOMAIN Away = {"state", "known", "seen", "marker", "missed"}
        /\ Away.seen = NoPositions /\ Away.marker = NoPositions
    BY DEF Away
  <2> QED BY <2>1, <2>2
<1>6. Typed(client[c])'
  <2>1. ClientOK(client[c])'
    BY DEF IInv, ClientsOK
  <2> QED BY <1>5, <2>1 DEF Typed, NoPositions
<1>7. InitOnce("networks", << >>, << >>)
  BY DEF InitOnce, NoInit
<1>8. \A b \in Ids : Fits(client'[c], << >>, << >>, b, At(NamesOf, b), seen[b], marker[b], orphans, purging)
  BY <1>1, <1>5, FitsAttached
<1>9. UNCHANGED <<rows, seen, marker, purging, orphans>> /\ NamesOf' = NamesOf
  BY <1>3 DEF coreVars, NamesOf
<1>10. ClientFits(c)'
  BY <1>2, <1>3, <1>5, <1>6, <1>7, <1>8, <1>9 DEF ClientFits
<1>11. \A i \in 1 .. Len(down'[c]) : FALSE
  BY <1>2, <1>3
<1> QED BY <1>3, <1>4, <1>10, <1>11, ClientStep

LEMMA RequestUp ==
  ASSUME IInv, NEW c \in Clients, NEW r, up' = [up EXCEPT ![c] = Append(@, r)]
  PROVE  Longer(up[c], up'[c], r)
<1> DEFINE M == Requests(used) \cup {r}
<1>1. up[c] \in Seq(Requests(used)) /\ Requests(used) \subseteq M /\ r \in M
  BY DEF IInv, WiresOK
<1> HIDE DEF M
<1>2. up[c] \in Seq(M)
  <2> HIDE DEF Requests
  <2> QED BY <1>1, SeqMonotonic
<1>3. up'[c] = Append(up[c], r)
  BY DEF IInv, WiresOK
<1> QED BY <1>1, <1>2, <1>3, LongerBy

LEMMA FitSynchronized ==
  ASSUME FitInv, IInv', NEW c \in Clients, Synchronized(c)
  PROVE  FitInv'
<1> DEFINE r == [op |-> "init"]
<1>1. IInv /\ ClientFits(c) /\ purging \in BOOLEAN /\ RemovedGone
  BY DEF FitInv
<1>2. /\ UNCHANGED <<coreVars, down>> /\ client' = [client EXCEPT ![c].state = "synced"]
      /\ up' = [up EXCEPT ![c] = Append(@, r)] /\ client[c].state = "networks"
  BY DEF Synchronized
<1>3. \A d \in Clients \ {c} : client'[d] = client[d] /\ up'[d] = up[d] /\ down'[d] = down[d]
  BY <1>1, <1>2 DEF IInv, ClientsOK, WiresOK
<1>4. client'[c] = [client[c] EXCEPT !.state = "synced"] /\ Typed(client[c])
  BY <1>1, <1>2 DEF IInv, ClientsOK, ClientFits
<1>5. client'[c].state = "synced" /\ client'[c].seen = client[c].seen /\ client'[c].marker = client[c].marker
  BY <1>4 DEF Typed, ClientOK
<1>6. Typed(client[c])'
  <2>1. ClientOK(client[c])'
    BY DEF IInv, ClientsOK
  <2> QED BY <1>4, <1>5, <2>1 DEF Typed
<1>7. /\ NoInit(up[c]) /\ NoInit(down[c])
      /\ \A b \in Ids : Fits(client[c], up[c], down[c], b, At(NamesOf, b), seen[b], marker[b], orphans, purging)
  BY <1>1, <1>2 DEF ClientFits, InitOnce
<1>8. Longer(up[c], up'[c], r)
  BY <1>1, <1>2, RequestUp
<1>9. OneInit(up'[c]) /\ Has(up'[c], "init")
  <2>1. r.op = "init"
    OBVIOUS
  <2> QED BY <1>7, <1>8, <2>1, InitLonger
<1>10. InitOnce("synced", up'[c], down[c])
  BY <1>7, <1>9 DEF InitOnce
<1>11. \A b \in Ids : Fits(client'[c], up'[c], down[c], b, At(NamesOf, b), seen[b], marker[b], orphans, purging)
  BY <1>1, <1>2, <1>4, <1>7, <1>9, FitsSynced
<1>12. UNCHANGED <<rows, seen, marker, purging, orphans>> /\ NamesOf' = NamesOf
  BY <1>2 DEF coreVars, NamesOf
<1>13. ClientFits(c)'
  BY <1>2, <1>5, <1>6, <1>10, <1>11, <1>12 DEF ClientFits
<1>14. \A i \in 1 .. Len(down'[c]) : down'[c][i].op = "removed" => down'[c][i].b \in used \ DOMAIN rows
  BY <1>1, <1>2 DEF RemovedGone
<1> QED BY <1>2, <1>3, <1>13, <1>14, ClientStep

\* The user asks for something that is no move of a marker line.
LEMMA FitRequest ==
  ASSUME FitInv, IInv', NEW c \in Clients, NEW b, NEW r, Request(c, b, r), r.op \notin {"marker", "init"},
         UNCHANGED client
  PROVE  FitInv'
<1>1. IInv /\ ClientFits(c) /\ purging \in BOOLEAN /\ RemovedGone
  BY DEF FitInv
<1>2. UNCHANGED <<coreVars, down>> /\ up' = [up EXCEPT ![c] = Append(@, r)] /\ client[c].state \in {"synced", "ready"}
  BY DEF Request
<1>3. \A d \in Clients \ {c} : client'[d] = client[d] /\ up'[d] = up[d] /\ down'[d] = down[d]
  BY <1>1, <1>2 DEF IInv, WiresOK
<1>4. Longer(up[c], up'[c], r)
  BY <1>1, <1>2, RequestUp
<1>5. UNCHANGED <<rows, used, seen, marker, purging, orphans>> /\ NamesOf' = NamesOf
  BY <1>2 DEF coreVars, NamesOf
<1>6. Typed(client[c])'
  <2>1. ClientOK(client[c])' /\ Typed(client[c])
    BY <1>1 DEF IInv, ClientsOK, ClientFits
  <2> QED BY <2>1 DEF Typed
<1>7. /\ InitOnce(client[c].state, up[c], down[c])
      /\ \A a \in Ids : Fits(client[c], up[c], down[c], a, At(NamesOf, a), seen[a], marker[a], orphans, purging)
  BY <1>1, <1>2 DEF ClientFits
<1>8. InitOnce(client[c].state, up'[c], down[c])
  BY <1>4, <1>7, InitLonger DEF InitOnce
<1>9. ASSUME NEW a \in Ids
      PROVE  Fits(client[c], up'[c], down[c], a, At(NamesOf, a), seen[a], marker[a], orphans, purging)
  <2>1. \A v : Pending(up[c], a, v) => Pending(up'[c], a, v)
    BY <1>4, RequestLonger
  <2>2. \A op : Has(up[c], op) => Has(up'[c], op)
    BY <1>4, InitLonger
  <2> QED BY <1>1, <1>7, <2>1, <2>2, FitsKept
<1>10. ClientFits(c)'
  BY <1>2, <1>5, <1>6, <1>8, <1>9 DEF ClientFits
<1>11. \A i \in 1 .. Len(down'[c]) : down'[c][i].op = "removed" => down'[c][i].b \in used \ DOMAIN rows
  BY <1>1, <1>2 DEF RemovedGone
<1> QED BY <1>2, <1>3, <1>10, <1>11, ClientStep

LEMMA FitMove ==
  ASSUME FitInv, IInv', NEW c \in Clients, NEW b \in Ids, NEW msg \in Nat, MoveMarker(c, b, msg)
  PROVE  FitInv'
<1> DEFINE r == [op |-> "marker", b |-> b, msg |-> msg]
<1>1. IInv /\ ClientFits(c) /\ purging \in BOOLEAN /\ RemovedGone
  BY DEF FitInv
<1>2. /\ UNCHANGED <<coreVars, down>> /\ up' = [up EXCEPT ![c] = Append(@, r)]
      /\ client[c].state \in {"synced", "ready"} /\ b \in DOMAIN client[c].known
      /\ client' = [client EXCEPT ![c].marker[b] = msg]
  BY DEF MoveMarker, Request
<1>3. \A d \in Clients \ {c} : client'[d] = client[d] /\ up'[d] = up[d] /\ down'[d] = down[d]
  BY <1>1, <1>2 DEF IInv, ClientsOK, WiresOK
<1>4. Longer(up[c], up'[c], r)
  BY <1>1, <1>2, RequestUp
<1>5. UNCHANGED <<rows, used, seen, marker, purging, orphans>> /\ NamesOf' = NamesOf
  BY <1>2 DEF coreVars, NamesOf
<1>6. client'[c] = [client[c] EXCEPT !.marker[b] = msg] /\ Typed(client[c])
  BY <1>1, <1>2 DEF IInv, ClientsOK, ClientFits
<1>7. /\ client'[c].state = client[c].state /\ client'[c].seen = client[c].seen
      /\ client'[c].marker = [client[c].marker EXCEPT ![b] = msg]
      /\ client'[c].known = client[c].known /\ client'[c].missed = client[c].missed
  BY <1>6 DEF Typed, ClientOK
<1>8. Typed(client[c])'
  <2>1. ClientOK(client[c])'
    BY DEF IInv, ClientsOK
  <2> QED BY <1>6, <1>7, <2>1 DEF Typed
<1>9. /\ InitOnce(client[c].state, up[c], down[c])
      /\ \A a \in Ids : Fits(client[c], up[c], down[c], a, At(NamesOf, a), seen[a], marker[a], orphans, purging)
  BY <1>1, <1>2 DEF ClientFits
<1>10. InitOnce(client[c].state, up'[c], down[c])
  <2>1. r.op # "init"
    OBVIOUS
  <2> QED BY <1>4, <1>9, <2>1, InitLonger DEF InitOnce
<1>11. ASSUME NEW a \in Ids
       PROVE  Fits(client'[c], up'[c], down[c], a, At(NamesOf, a), seen[a], marker[a], orphans, purging)
  <2>1. /\ a # b => \A v : Pending(up[c], a, v) => Pending(up'[c], a, v)
        /\ Pending(up'[c], b, msg)
    <3>1. r.op = "marker" /\ r.b = b /\ r.msg = msg
      OBVIOUS
    <3> HIDE DEF r
    <3> QED BY <1>4, <3>1, RequestLonger
  <2>2. \A op : Has(up[c], op) => Has(up'[c], op)
    BY <1>4, InitLonger
  <2>3. Fits(client[c], up[c], down[c], a, At(NamesOf, a), seen[a], marker[a], orphans, purging)
    BY <1>9
  <2>4. Typed(client[c]) /\ b \in DOMAIN client[c].known /\ purging \in BOOLEAN /\ msg \in Nat /\ b \in Ids /\ a \in Ids
    BY <1>1, <1>2, <1>6
  <2> QED BY ONLY <1>7, <2>1, <2>2, <2>3, <2>4, FitsMoved
<1>12. ClientFits(c)'
  BY <1>2, <1>5, <1>7, <1>8, <1>10, <1>11 DEF ClientFits
<1>13. \A i \in 1 .. Len(down'[c]) : down'[c][i].op = "removed" => down'[c][i].b \in used \ DOMAIN rows
  BY <1>1, <1>2 DEF RemovedGone
<1> QED BY <1>2, <1>3, <1>12, <1>13, ClientStep

LEMMA FitUser ==
  ASSUME FitInv, IInv', NEW c \in Clients, UserStep(c)
  PROVE  FitInv'
<1>1. PICK b \in Ids :
        \/ \E msg \in 1 .. MaxMsg :
             \/ MoveMarker(c, b, msg)
             \/ Request(c, b, [op |-> "seen", b |-> b, msg |-> msg]) /\ UNCHANGED client
        \/ Request(c, b, [op |-> "remove", b |-> b]) /\ UNCHANGED client
        \/ \E n \in Names :
             Request(c, b, [op |-> "rename", b |-> b, name |-> n]) /\ UNCHANGED client
        \/ \E b2 \in Ids :
             Request(c, b, [op |-> "merge", b |-> b, b2 |-> b2]) /\ UNCHANGED client
  BY DEF UserStep
<1>2. CASE \E msg \in 1 .. MaxMsg : MoveMarker(c, b, msg)
  <2>1. PICK msg \in 1 .. MaxMsg : MoveMarker(c, b, msg)
    BY <1>2
  <2>2. msg \in Nat
    BY BufferAssumption
  <2> QED BY <2>1, <2>2, FitMove
<1>3. ASSUME NEW r, Request(c, b, r), UNCHANGED client, r.op \in {"seen", "remove", "rename", "merge"}
      PROVE  FitInv'
  BY <1>3, FitRequest
<1>4. ASSUME NEW msg, Request(c, b, [op |-> "seen", b |-> b, msg |-> msg]) /\ UNCHANGED client
      PROVE  FitInv'
  BY <1>3, <1>4
<1>5. CASE Request(c, b, [op |-> "remove", b |-> b]) /\ UNCHANGED client
  BY <1>3, <1>5
<1>6. ASSUME NEW n, Request(c, b, [op |-> "rename", b |-> b, name |-> n]) /\ UNCHANGED client
      PROVE  FitInv'
  BY <1>3, <1>6
<1>7. ASSUME NEW b2, Request(c, b, [op |-> "merge", b |-> b, b2 |-> b2]) /\ UNCHANGED client
      PROVE  FitInv'
  BY <1>3, <1>7
<1> QED BY <1>1, <1>2, <1>4, <1>5, <1>6, <1>7

\* The core sends its positions.
LEMMA FitInitData ==
  ASSUME FitInv, IInv', UNCHANGED client, NEW c \in Clients, up[c] # << >>, up' = [up EXCEPT ![c] = Tail(@)],
         Head(up[c]).op = "init", SendInitData(c)
  PROVE  FitInv'
<1> DEFINE r == Head(up[c])
           m == [op |-> "init", seen |-> seen, marker |-> marker]
<1>1. IInv /\ ClientFits(c) /\ purging \in BOOLEAN /\ RemovedGone
  BY DEF FitInv
<1>2. UNCHANGED <<coreVars, client>> /\ down' = [down EXCEPT ![c] = Append(@, m)]
  BY DEF SendInitData, coreVars
<1>3. \A d \in Clients \ {c} : client'[d] = client[d] /\ up'[d] = up[d] /\ down'[d] = down[d]
  BY <1>1, <1>2 DEF IInv, WiresOK
<1>4. Longer(down[c], down'[c], m)
  <2>1. m \in Messages(used)
    BY <1>1 DEF IInv, PositionsOK, Messages
  <2>2. down[c] \in Seq(Messages(used)) /\ down'[c] = Append(down[c], m)
    BY <1>1, <1>2 DEF IInv, WiresOK
  <2> HIDE DEF m, Messages
  <2> QED BY <2>1, <2>2, LongerBy
<1>5. Took(r) /\ (OneInit(up[c]) => NoInit(up'[c]))
  BY <1>1, TookHead
<1>6. ~NoInit(up[c])
  <2>1. 1 \in 1 .. Len(up[c]) /\ up[c][1].op = "init"
    <3>1. Shorter(up[c], Tail(up[c]), Head(up[c]))
      BY <1>1, HeadTail DEF IInv, WiresOK
    <3> QED BY <3>1 DEF Shorter
  <2> QED BY <2>1 DEF NoInit
<1>7. client[c].state # "away"
  BY <1>1 DEF ClientFits
<1>8. /\ Typed(client[c]) /\ client[c].state \in {"networks", "synced", "ready"}
      /\ InitOnce(client[c].state, up[c], down[c])
      /\ \A b \in Ids : Fits(client[c], up[c], down[c], b, At(NamesOf, b), seen[b], marker[b], orphans, purging)
  BY <1>1, <1>7 DEF ClientFits
<1>9. client[c].state = "synced" /\ OneInit(up[c]) /\ NoInit(down[c])
  BY <1>6, <1>8 DEF InitOnce
<1>10. InitOnce(client[c].state, up'[c], down'[c])
  <2>1. m.op = "init"
    OBVIOUS
  <2>2. OneInit(down'[c])
    BY <1>4, <1>9, <2>1, InitLonger
  <2> QED BY <1>5, <1>9, <2>2 DEF InitOnce
<1>11. ASSUME NEW b \in Ids
       PROVE  Fits(client[c], up'[c], down'[c], b, At(NamesOf, b), seen[b], marker[b], orphans, purging)
  <2>1. /\ seen[b] = SeenAt(seen[b], m, b) /\ About(m, b) /\ marker[b] = Marked(m, b)
        /\ Named(At(NamesOf, b), m, b) = At(NamesOf, b)
        /\ m.seen[b] = seen[b] /\ m.marker[b] = marker[b]
        /\ m.op = "init"
    BY DEF SeenAt, About, Marked, Named, Removes
  <2>2. Has(up[c], "purge") => Has(up'[c], "purge")
    BY <1>5 DEF Took
  <2>3. Fits(client[c], up[c], down[c], b, At(NamesOf, b), seen[b], marker[b], orphans, purging)
    BY <1>8
  <2>4. purging \in BOOLEAN
    BY <1>1
  <2> HIDE DEF m
  <2>5. Fits(client[c], up'[c], down'[c], b, Named(At(NamesOf, b), m, b), seen[b], marker[b], orphans, purging)
    BY ONLY <1>4, <1>8, <2>1, <2>2, <2>3, <2>4, FitsTold
  <2> QED BY <2>1, <2>5
<1>12. UNCHANGED <<rows, seen, marker, purging, orphans>> /\ NamesOf' = NamesOf
  BY <1>2 DEF coreVars, NamesOf
<1>13. Typed(client[c])'
  <2>1. ClientOK(client[c])'
    BY DEF IInv, ClientsOK
  <2> QED BY <1>2, <1>8, <2>1 DEF Typed
<1>14. ClientFits(c)'
  BY <1>2, <1>8, <1>9, <1>10, <1>11, <1>12, <1>13 DEF ClientFits
<1>15. ASSUME NEW i \in 1 .. Len(down'[c]), down'[c][i].op = "removed"
       PROVE  down'[c][i].b \in used \ DOMAIN rows
  <2>1. m.op # "removed"
    OBVIOUS
  <2>2. i \in 1 .. Len(down[c]) /\ down'[c][i] = down[c][i]
    BY <1>4, <1>15, <2>1 DEF Longer
  <2> QED BY <1>1, <1>15, <2>2 DEF RemovedGone
<1> QED BY <1>2, <1>3, <1>14, <1>15, ClientStep

LEMMA FitCoreReceives ==
  ASSUME FitInv, IInv', NEW c \in Clients, CoreReceives(c)
  PROVE  FitInv'
<1> DEFINE r == Head(up[c])
<1>1. IInv /\ used \subseteq Ids
  BY DEF FitInv, IInv, TableOK
<1>2. r \in Requests(used)
  BY <1>1, HeadTailProperties DEF IInv, WiresOK, CoreReceives
<1>3. /\ up[c] # << >> /\ up' = [up EXCEPT ![c] = Tail(@)] /\ UNCHANGED client
      /\ \/ r.op = "seen" /\ RequestSetLastSeenMsg(c, r.b, r.msg)
         \/ r.op = "marker" /\ RequestSetMarkerLine(c, r.b, r.msg)
         \/ r.op = "remove" /\ RemoveBuffer(c, r.b)
         \/ r.op = "rename" /\ RenameBuffer(c, r.b, r.name)
         \/ r.op = "merge" /\ MergeBuffersPermanently(c, r.b, r.b2)
         \/ r.op = "purge" /\ RequestPurgeBufferIds
         \/ r.op = "init" /\ SendInitData(c)
  BY DEF CoreReceives
<1>4. Took(r)
  BY <1>1, <1>3, TookHead
<1>5. CASE r.op = "seen" /\ RequestSetLastSeenMsg(c, r.b, r.msg)
  <2>1. r.b \in used /\ r.msg \in Nat \ {0}
    BY <1>2, <1>5 DEF Requests
  <2> QED BY <1>3, <1>4, <1>5, <2>1, FitSeen
<1>6. CASE r.op = "marker" /\ RequestSetMarkerLine(c, r.b, r.msg)
  <2>1. r.b \in used /\ r.msg \in Nat \ {0}
    BY <1>2, <1>6 DEF Requests
  <2> QED BY <1>3, <1>4, <1>6, <2>1, FitMarker
<1>7. CASE r.op = "remove" /\ RemoveBuffer(c, r.b)
  BY <1>3, <1>4, <1>7, FitRemove
<1>8. CASE r.op = "rename" /\ RenameBuffer(c, r.b, r.name)
  <2>1. r.b \in Ids /\ r.name \in Names
    BY <1>2, <1>8 DEF Requests
  <2> QED BY <1>3, <1>4, <1>8, <2>1, FitRename
<1>9. CASE r.op = "merge" /\ MergeBuffersPermanently(c, r.b, r.b2)
  BY <1>3, <1>4, <1>9, FitMerge
<1>10. CASE r.op = "purge" /\ RequestPurgeBufferIds
  <2>1. purging' = TRUE /\ UNCHANGED <<rows, used, seen, marker, orphans, down>> /\ NamesOf' = NamesOf
    BY <1>10 DEF RequestPurgeBufferIds, NamesOf
  <2> QED BY <1>3, <1>4, <1>10, <2>1, SilentStep
<1>11. CASE r.op = "init" /\ SendInitData(c)
  BY <1>3, <1>11, FitInitData
<1> QED BY <1>3, <1>5, <1>6, <1>7, <1>8, <1>9, <1>10, <1>11

LEMMA FitReceives ==
  ASSUME FitInv, IInv', NEW c \in Clients, ClientReceives(c)
  PROVE  FitInv'
<1> DEFINE k == client[c]
           w == down[c]
           m == Head(w)
           g == [op |-> "purge"]
<1>1. IInv /\ ClientFits(c) /\ purging \in BOOLEAN /\ RemovedGone /\ used \subseteq Ids
  BY DEF FitInv, IInv, TableOK
<1>2. /\ UNCHANGED coreVars /\ w # << >> /\ client'[c] = Applied(k, m) /\ down'[c] = Tail(w)
      /\ up'[c] = up[c] \o PurgeAsked(k, m)
      /\ \A d \in Clients \ {c} : client'[d] = client[d] /\ up'[d] = up[d] /\ down'[d] = down[d]
  BY <1>1 DEF ClientReceives, IInv, ClientsOK, WiresOK
<1>3. /\ Typed(k) /\ k.state \in {"networks", "synced", "ready"}
      /\ InitOnce(k.state, up[c], w)
      /\ \A b \in Ids : Fits(k, up[c], w, b, At(NamesOf, b), seen[b], marker[b], orphans, purging)
  BY <1>1, <1>2 DEF ClientFits
<1>4. w \in Seq(Messages(used)) /\ up[c] \in Seq(Requests(used))
  BY <1>1 DEF IInv, WiresOK
<1>5. Shorter(w, Tail(w), m) /\ m \in Messages(used)
  <2> HIDE DEF Messages, w
  <2> QED BY <1>2, <1>4, HeadTail
<1>6. /\ \A b, v : Pending(up[c], b, v) => Pending(up'[c], b, v)
      /\ \A op : Has(up[c], op) => Has(up'[c], op)
      /\ NoInit(up[c]) => NoInit(up'[c])
      /\ OneInit(up[c]) => OneInit(up'[c])
      /\ PurgeAsked(k, m) = <<g>> => Has(up'[c], "purge")
  <2>1. CASE PurgeAsked(k, m) = << >>
    <3>1. up'[c] = up[c]
      BY <1>2, <1>4, <2>1, ConcatEmptySeq
    <3>2. << >> # <<g>>
      <4>1. Len(<< >>) = 0 /\ Len(<<g>>) = 1
        OBVIOUS
      <4> QED BY <4>1
    <3> QED BY <2>1, <3>1, <3>2
  <2>2. CASE PurgeAsked(k, m) = <<g>>
    <3>1. g \in Requests(used)
      BY DEF Requests
    <3>2. up'[c] = up[c] \o <<g>>
      BY <1>2, <2>2
    <3>3. Longer(up[c], up'[c], g)
      <4> HIDE DEF Requests, g
      <4> QED BY <1>4, <3>1, <3>2, LongerBy
    <3>4. g.op = "purge"
      OBVIOUS
    <3> HIDE DEF g
    <3> QED BY <3>3, <3>4, RequestLonger, InitLonger
  <2> QED BY <2>1, <2>2 DEF PurgeAsked
<1>7. k.state = "networks" => m.op # "init"
  BY <1>3, <1>5 DEF InitOnce, NoInit, Shorter
<1>8. Typed(client[c])'
  <2>1. ClientOK(client[c])'
    BY DEF IInv, ClientsOK
  <2>2. client'[c].seen \in [Ids -> Nat] /\ client'[c].marker \in [Ids -> Nat]
    <3>1. CASE Ids # {}
      <4>1. PICK b : b \in Ids
        BY <3>1
      <4>2. Typed(client'[c])
        BY <1>1, <1>2, <1>3, <1>5, <1>7, <4>1, AppliedTo
      <4> QED BY <4>2 DEF Typed
    <3>2. CASE Ids = {}
      <4>1. m.op \in {"dropped", "init"}
        BY <1>1, <1>5, <3>2 DEF Messages
      <4>2. Applied(k, m).seen \in [Ids -> Nat] /\ Applied(k, m).marker \in [Ids -> Nat]
        BY <1>3, <1>5, <1>7, <4>1 DEF Applied, Typed, ClientOK, Messages
      <4> QED BY <1>2, <4>2
    <3> QED BY <3>1, <3>2
  <2> QED BY <2>1, <2>2 DEF Typed
<1>9. client'[c].state = IF m.op = "init" THEN "ready" ELSE k.state
  BY <1>2, <1>3, <1>5, <1>7 DEF Applied, Typed, ClientOK, Messages, Shown, Missed, Forgotten, Renamed
<1>10. InitOnce(client'[c].state, up'[c], down'[c])
  <2>1. /\ NoInit(w) => m.op # "init" /\ NoInit(Tail(w))
        /\ OneInit(w) => IF m.op = "init" THEN NoInit(Tail(w)) ELSE OneInit(Tail(w))
    <3>1. NoInit(w) => m.op # "init"
      BY <1>5 DEF NoInit, Shorter
    <3> QED BY <1>5, <3>1, InitShorter
  <2> QED BY <1>2, <1>3, <1>6, <1>9, <2>1 DEF InitOnce
<1>11. ASSUME NEW b \in Ids
       PROVE  Fits(client'[c], up'[c], down'[c], b, At(NamesOf, b), seen[b], marker[b], orphans, purging)
  <2>1. Fits(k, up[c], w, b, At(NamesOf, b), seen[b], marker[b], orphans, purging)
    BY <1>3
  <2>2. Fits(Applied(k, Head(w)), up'[c], Tail(w), b, At(NamesOf, b), seen[b], marker[b], orphans, purging)
    <3> HIDE DEF Messages, k, w
    <3> QED BY <1>1, <1>2, <1>3, <1>4, <1>6, <2>1, FitsReceived
  <2> QED BY <1>2, <2>2
<1>12. UNCHANGED <<rows, used, seen, marker, purging, orphans>> /\ NamesOf' = NamesOf
  BY <1>2 DEF coreVars, NamesOf
<1>13. ClientFits(c)'
  <2>1. client'[c].state \in {"networks", "synced", "ready"}
    BY <1>3, <1>9
  <2> QED BY <1>8, <1>10, <1>11, <1>12, <2>1 DEF ClientFits
<1>14. ASSUME NEW i \in 1 .. Len(down'[c]), down'[c][i].op = "removed"
       PROVE  down'[c][i].b \in used \ DOMAIN rows
  <2>1. i + 1 \in 1 .. Len(w) /\ down'[c][i] = w[i + 1]
    BY <1>2, <1>5, <1>14 DEF Shorter
  <2> QED BY <1>1, <1>14, <2>1 DEF RemovedGone
<1> QED BY <1>2, <1>13, <1>14, ClientStep

LEMMA InitSame ==
  ASSUME NEW w, NEW w2, NEW S, Purged(w, w2, S)
  PROVE  /\ NoInit(w) => NoInit(w2)
         /\ OneInit(w) => OneInit(w2)
<1>1. PICK said :
        /\ Len(said) \in Nat /\ Len(w2) = Len(w) + Len(said)
        /\ \A i \in 1 .. Len(w) : w2[i] = w[i]
        /\ \A i \in 1 .. Len(said) : w2[Len(w) + i] = said[i] /\ said[i].op = "removed"
  BY DEF Purged
<1> DEFINE L == Len(w)
           M == Len(said)
<1>2. /\ L \in Nat /\ M \in Nat /\ Len(w2) = L + M /\ \A i \in 1 .. L : i \in 1 .. L + M /\ w2[i] = w[i]
  <2>1. L \in Nat
    BY DEF Purged
  <2> QED BY <1>1, <2>1
<1>3. ASSUME NEW i \in 1 .. L + M, w2[i].op = "init"
      PROVE  i \in 1 .. L
  <2> SUFFICES ASSUME i > L PROVE w2[i].op = "removed"
    BY <1>2, <1>3
  <2>1. i - L \in 1 .. M /\ L + (i - L) = i
    BY <1>2
  <2> QED BY <1>1, <2>1
<1> HIDE DEF L, M
<1>4. NoInit(w) => NoInit(w2)
  BY <1>2, <1>3 DEF NoInit, L
<1>5. ASSUME OneInit(w)
      PROVE  OneInit(w2)
  <2>1. PICK i \in 1 .. L : w[i].op = "init" /\ \A j \in 1 .. L : w[j].op = "init" => j = i
    BY <1>5 DEF OneInit, L
  <2>2. i \in 1 .. L + M /\ w2[i].op = "init" /\ \A j \in 1 .. L + M : w2[j].op = "init" => j = i
    BY <1>2, <1>3, <2>1
  <2> QED BY <1>2, <2>2 DEF OneInit
<1> QED BY <1>4, <1>5

LEMMA FitPurge ==
  ASSUME FitInv, IInv', PurgeBufferIds
  PROVE  FitInv'
<1> DEFINE gone == SetToSeq(Ghosts)
           said == [i \in DOMAIN gone |-> [op |-> "removed", b |-> gone[i]]]
<1>1. IInv /\ purging \in BOOLEAN /\ RemovedGone
  BY DEF FitInv
<1>2. /\ UNCHANGED <<rows, used, orphans, client, up>> /\ NamesOf' = NamesOf /\ purging' = FALSE
      /\ seen' = Cleared(seen, Ghosts) /\ marker' = Cleared(marker, Ghosts) /\ down' = ToldAll(said)
  BY DEF PurgeBufferIds, NamesOf
<1>3. seen \in [Ids -> Nat] /\ marker \in [Ids -> Nat]
  BY <1>1 DEF IInv, PositionsOK
<1>4. gone \in Seq(Ids) /\ Ghosts = {gone[i] : i \in 1 .. Len(gone)}
  BY <1>3, GhostsSequence
<1>5. /\ Len(gone) \in Nat /\ DOMAIN gone = 1 .. Len(gone)
      /\ \A i \in 1 .. Len(gone) : gone[i] \in Ids
  BY <1>4, LenProperties, ElementOfSeq
<1> HIDE DEF gone
<1>6. said \in [1 .. Len(gone) -> Messages(used)]
  BY <1>5 DEF Messages
<1>7. said \in Seq(Messages(used)) /\ Len(said) = Len(gone)
  BY <1>5, <1>6, SeqDef
<1>8. \A i \in 1 .. Len(said) : said[i].op = "removed" /\ said[i].b = gone[i]
  BY <1>5, <1>7
<1>9. Ghosts = {said[i].b : i \in 1 .. Len(said)}
  BY <1>4, <1>7, <1>8
<1> HIDE DEF said
<1>10. Ghosts \subseteq used \ DOMAIN rows
  BY <1>1 DEF Ghosts, Positions, IInv, PositionsOK
<1>11. ASSUME NEW d \in Attached
       PROVE  /\ d \in Clients /\ Len(down[d]) \in Nat /\ Len(down'[d]) = Len(down[d]) + Len(said)
              /\ \A i \in 1 .. Len(down[d]) : down'[d][i] = down[d][i]
              /\ \A i \in 1 .. Len(said) : down'[d][Len(down[d]) + i] = said[i]
  <2>1. d \in Clients /\ down[d] \in Seq(Messages(used)) /\ down'[d] = down[d] \o said
    BY <1>1, <1>2 DEF Attached, ToldAll, IInv, WiresOK
  <2> DEFINE w == down[d]
             w2 == down'[d]
  <2>2. Len(w) \in Nat /\ Len(said) \in Nat
    BY <1>5, <1>7, <2>1, LenProperties
  <2>3. Len(w2) = Len(w) + Len(said)
    <3> HIDE DEF Messages
    <3> QED BY <1>7, <2>1, ConcatProperties
  <2>4. \A i \in 1 .. Len(w) + Len(said) : w2[i] = IF i <= Len(w) THEN w[i] ELSE said[i - Len(w)]
    <3> HIDE DEF Messages
    <3> QED BY <1>7, <2>1, ConcatProperties
  <2> HIDE DEF w, w2
  <2>5. ASSUME NEW i \in 1 .. Len(w)
        PROVE  w2[i] = w[i]
    BY <2>2, <2>4
  <2>6. ASSUME NEW i \in 1 .. Len(said)
        PROVE  w2[Len(w) + i] = said[i]
    <3>1. Len(w) + i \in 1 .. Len(w) + Len(said) /\ ~(Len(w) + i <= Len(w)) /\ (Len(w) + i) - Len(w) = i
      BY <2>2
    <3> QED BY <2>4, <3>1
  <2> QED BY <2>1, <2>2, <2>3, <2>5, <2>6 DEF w, w2
<1>12. \A d \in Clients \ Attached : down'[d] = down[d]
  BY <1>2 DEF ToldAll
<1>13. ASSUME NEW d \in Clients
       PROVE  ClientFits(d)'
  <2>1. Typed(client[d])'
    <3>1. ClientOK(client[d])' /\ ClientFits(d)
      BY DEF IInv, ClientsOK, FitInv
    <3> QED BY <1>2, <3>1 DEF Typed, ClientFits
  <2>2. CASE client[d].state = "away"
    BY <1>2, <1>12, <2>1, <2>2 DEF FitInv, ClientFits, Attached
  <2>3. CASE client[d].state # "away"
    <3>1. /\ client[d].state \in {"networks", "synced", "ready"}
          /\ InitOnce(client[d].state, up[d], down[d])
          /\ \A b \in Ids : Fits(client[d], up[d], down[d], b, At(NamesOf, b), seen[b], marker[b], orphans, purging)
      BY <2>3 DEF FitInv, ClientFits
    <3>2. Purged(down[d], down'[d], Ghosts)
      <4>1. /\ Len(down[d]) \in Nat /\ Len(said) \in Nat /\ Len(down'[d]) = Len(down[d]) + Len(said)
            /\ \A i \in 1 .. Len(down[d]) : down'[d][i] = down[d][i]
            /\ \A i \in 1 .. Len(said) : down'[d][Len(down[d]) + i] = said[i] /\ said[i].op = "removed"
        BY <1>5, <1>7, <1>8, <1>11, <2>3 DEF Attached
      <4> QED BY <1>9, <4>1 DEF Purged
    <3>3. InitOnce(client[d].state, up[d], down'[d])
      <4>1. /\ NoInit(down[d]) => NoInit(down'[d])
            /\ OneInit(down[d]) => OneInit(down'[d])
        BY <3>2, InitSame
      <4> QED BY <3>1, <4>1 DEF InitOnce
    <3>4. ASSUME NEW b \in Ids
          PROVE  Fits(client[d], up[d], down'[d], b, At(NamesOf, b), seen'[b], marker'[b], orphans, FALSE)
      <4>1. /\ b \in Ghosts => seen'[b] = 0 /\ marker'[b] = 0
            /\ b \notin Ghosts => seen'[b] = seen[b] /\ marker'[b] = marker[b]
        BY <1>2 DEF Cleared
      <4>2. b \in Ghosts => At(NamesOf, b) = {}
        BY <1>10, NamesNow
      <4>3. At(NamesOf, b) = {} => seen'[b] = 0 /\ marker'[b] = 0
        <5>1. At(NamesOf, b) = {} => b \notin DOMAIN rows
          BY NamesNow
        <5> QED BY <4>1, <5>1 DEF Ghosts, Positions
      <4>4. Fits(client[d], up[d], down[d], b, At(NamesOf, b), seen[b], marker[b], orphans, purging)
        BY <3>1
      <4> QED BY ONLY <3>2, <4>1, <4>2, <4>3, <4>4, FitsPurged, ZenonT(60)
    <3> QED BY <1>2, <2>1, <2>3, <3>1, <3>3, <3>4 DEF ClientFits
  <2> QED BY <2>2, <2>3
<1>14. RemovedGone'
  <2> SUFFICES ASSUME NEW d \in Clients, NEW i \in 1 .. Len(down'[d]), down'[d][i].op = "removed"
               PROVE  down'[d][i].b \in used \ DOMAIN rows
    BY <1>2 DEF RemovedGone
  <2>1. CASE i \in 1 .. Len(down[d]) /\ down'[d][i] = down[d][i]
    BY <1>1, <2>1 DEF RemovedGone
  <2>2. CASE d \in Attached /\ i \notin 1 .. Len(down[d])
    <3>1. /\ Len(down[d]) \in Nat /\ Len(said) \in Nat /\ Len(down'[d]) = Len(down[d]) + Len(said)
          /\ \A j \in 1 .. Len(said) : down'[d][Len(down[d]) + j] = said[j]
      BY <1>5, <1>7, <1>11, <2>2
    <3>2. i - Len(down[d]) \in 1 .. Len(said) /\ Len(down[d]) + (i - Len(down[d])) = i
      BY <2>2, <3>1
    <3>3. down'[d][i] = said[i - Len(down[d])]
      BY <3>1, <3>2
    <3>4. down'[d][i].b \in Ghosts
      BY <1>9, <3>2, <3>3
    <3> QED BY <1>10, <3>4
  <2> QED BY <1>11, <1>12, <2>1, <2>2
<1> QED BY <1>2, <1>13, <1>14 DEF FitInv

LEMMA FitInvInit == BufferInit => FitInv
<1> SUFFICES ASSUME BufferInit PROVE FitInv
  OBVIOUS
<1>1. IInv /\ purging = FALSE
  BY InvInit DEF BufferInit
<1>2. RemovedGone
  BY DEF BufferInit, RemovedGone
<1>3. ASSUME NEW c \in Clients
      PROVE  ClientFits(c)
  <2>1. up[c] = << >> /\ down[c] = << >> /\ ClientOK(client[c]) /\ client[c] \in {Away, Old}
    BY <1>1 DEF BufferInit, IInv, ClientsOK
  <2>2. CASE client[c] = Away
    <3>1. Typed(client[c])
      BY <2>1, <2>2 DEF Typed, Away, NoPositions
    <3> QED BY <2>1, <2>2, <3>1 DEF ClientFits, Away
  <2>3. CASE client[c] = Old
    <3>1. /\ client[c].state = "ready" /\ client[c].seen = seen /\ client[c].marker = marker
          /\ client[c].known = NamesOf
      BY <2>3 DEF Old, BufferInit, NamesOf
    <3>2. Typed(client[c])
      BY <1>1, <2>1, <3>1 DEF Typed, IInv, PositionsOK
    <3>3. InitOnce("ready", << >>, << >>)
      BY DEF InitOnce, NoInit
    <3>4. ASSUME NEW b \in Ids
          PROVE  Fits(client[c], << >>, << >>, b, At(NamesOf, b), seen[b], marker[b], orphans, purging)
      <4>1. At(NamesOf, b) = {} => b \notin DOMAIN rows
        BY NamesNow
      <4>2. b \notin DOMAIN rows => seen[b] = 0 /\ marker[b] = 0
        BY DEF BufferInit, SeenIn, MarkerIn
      <4> QED BY <1>1, <3>1, <4>1, <4>2, FitsOld
    <3> QED BY <2>1, <3>1, <3>2, <3>3, <3>4 DEF ClientFits
  <2> QED BY <2>1, <2>2, <2>3
<1> QED BY <1>1, <1>2, <1>3 DEF FitInv

LEMMA FitInvStep == FitInv /\ [BufferNext]_bufferVars => FitInv'
<1> SUFFICES ASSUME FitInv, [BufferNext]_bufferVars PROVE FitInv'
  OBVIOUS
<1>1. IInv'
  BY InvStep DEF FitInv
<1>2. ASSUME NEW c \in Clients,
             CoreReceives(c) \/ ClientReceives(c) \/ Attach(c) \/ Detach(c) \/ Synchronized(c) \/ UserStep(c)
      PROVE  FitInv'
  BY <1>1, <1>2, FitCoreReceives, FitReceives, FitAttach, FitDetach, FitSynchronized, FitUser
<1>3. ASSUME NEW b \in Queries, NEW n \in Names, CreateBuffer(b, n) \/ NickChange(b, n)
      PROVE  FitInv'
  <2>1. b \in Ids /\ n \in Names \cup {Channel}
    BY DEF Ids
  <2> QED BY <1>1, <1>3, <2>1, FitCreate, FitNick
<1>4. ASSUME NEW b \in Chans, CreateBuffer(b, Channel)
      PROVE  FitInv'
  <2>1. b \in Ids /\ Channel \in Names \cup {Channel}
    BY DEF Ids
  <2> QED BY <1>1, <1>4, <2>1, FitCreate
<1>5. CASE PurgeBufferIds
  BY <1>1, <1>5, FitPurge
<1>6. CASE StoreDirtyIds \/ JoinOrPart \/ UNCHANGED bufferVars
  BY <1>1, <1>6, FitSilent
<1>7. CASE DestroyNetwork
  BY <1>1, <1>7, FitDestroy
<1>8. CASE Crash \/ Shutdown
  BY <1>1, <1>8, FitStart
<1> QED BY <1>2, <1>3, <1>4, <1>5, <1>6, <1>7, <1>8 DEF BufferNext

-----------------------------------------------------------------------------
(* What follows *)

\* Once nothing is under way what fits is equal.
LEMMA QuietFits ==
  ASSUME FitInv, Quiet, NEW c \in Attached, NEW b \in Ids
  PROVE  /\ client[c].seen[b] = seen[b] /\ client[c].marker[b] = marker[b]
         /\ b \notin client[c].missed => At(client[c].known, b) = At(NamesOf, b)
         /\ b \notin client[c].missed /\ At(NamesOf, b) = {} /\ b \notin orphans
              => seen[b] = 0 /\ marker[b] = 0
<1> DEFINE k == client[c]
<1>1. c \in Clients /\ k.state = "ready" /\ up[c] = << >> /\ down[c] = << >> /\ ~purging
  BY DEF Attached, Quiet
<1>2. Fits(k, << >>, << >>, b, At(NamesOf, b), seen[b], marker[b], orphans, purging)
  BY <1>1 DEF FitInv, ClientFits
<1>3. PICK n, p :
        /\ NamesFit(k, n, << >>, b, At(NamesOf, b), orphans) /\ SeenFits(k, p, << >>, b, seen[b])
        /\ MarkerFits(k, << >>, << >>, b, marker[b], orphans)
        /\ b \notin k.missed /\ At(NamesOf, b) = {} /\ b \notin orphans /\ (seen[b] # 0 \/ marker[b] # 0) /\ ~purging
             => WillAsk(k, << >>, << >>, n, p, b)
  BY <1>2 DEF Fits
<1>4. Len(<< >>) = 0 /\ 1 .. 0 = {}
  OBVIOUS
<1>5. k.seen[b] = seen[b]
  BY <1>1, <1>3, <1>4 DEF SeenFits
<1>6. k.marker[b] = marker[b]
  BY <1>1, <1>3, <1>4 DEF MarkerFits, Pending
<1>7. b \notin k.missed => At(k.known, b) = At(NamesOf, b)
  BY <1>3, <1>4 DEF NamesFit
<1>8. ~WillAsk(k, << >>, << >>, n, p, b)
  BY <1>1, <1>4 DEF WillAsk, Has
<1> QED BY <1>1, <1>3, <1>5, <1>6, <1>7, <1>8

\* Without the same buffers, the names are the same.
LEMMA SameNames ==
  ASSUME NEW f, NEW g, NEW S, DOMAIN f \subseteq Ids, DOMAIN g \subseteq Ids,
         \A b \in Ids : b \notin S => At(f, b) = At(g, b)
  PROVE  Without(f, S) = Without(g, S)
<1>1. ASSUME NEW b, b \notin S
      PROVE  (b \in DOMAIN f <=> b \in DOMAIN g) /\ (b \in DOMAIN f => f[b] = g[b])
  <2>1. /\ b \in DOMAIN f => At(f, b) = {f[b]} /\ At(f, b) # {}
        /\ b \notin DOMAIN f => At(f, b) = {}
        /\ b \in DOMAIN g => At(g, b) = {g[b]} /\ At(g, b) # {}
        /\ b \notin DOMAIN g => At(g, b) = {}
    BY AtIs
  <2>2. b \in Ids => At(f, b) = At(g, b)
    BY <1>1
  <2> QED BY <2>1, <2>2
<1>2. DOMAIN f \ S = DOMAIN g \ S
  BY <1>1
<1>3. \A b \in DOMAIN f \ S : f[b] = g[b]
  BY <1>1
<1> QED BY <1>2, <1>3 DEF Without

\* Whoever renames, removes, merges, reads and marks what, and in whatever order it reaches
\* whom: the clients and the core end with the same names and positions.
THEOREM AgreedHolds == BufferSpec => []Agreed
<1>1. FitInv => Agreed
  <2> SUFFICES ASSUME FitInv, Quiet, NEW c \in Attached
               PROVE  /\ client[c].seen = seen /\ client[c].marker = marker
                      /\ Without(client[c].known, client[c].missed) = Without(NamesOf, client[c].missed)
    BY DEF Agreed
  <2>1. c \in Clients
    BY DEF Attached
  <2>2. IInv /\ Typed(client[c])
    BY <2>1 DEF FitInv, ClientFits
  <2>3. client[c].seen \in [Ids -> Nat] /\ client[c].marker \in [Ids -> Nat] /\ DOMAIN client[c].known \subseteq used
    BY <2>2 DEF Typed, ClientOK
  <2>4. seen \in [Ids -> Nat] /\ marker \in [Ids -> Nat] /\ used \subseteq Ids /\ DOMAIN rows \subseteq used
    BY <2>2 DEF IInv, PositionsOK, TableOK
  <2>5. \A b \in Ids : client[c].seen[b] = seen[b] /\ client[c].marker[b] = marker[b]
    BY QuietFits
  <2>6. \A b \in Ids : b \notin client[c].missed => At(client[c].known, b) = At(NamesOf, b)
    BY QuietFits
  <2>7. DOMAIN NamesOf = DOMAIN rows
    BY DEF NamesOf
  <2>8. Without(client[c].known, client[c].missed) = Without(NamesOf, client[c].missed)
    BY <2>3, <2>4, <2>6, <2>7, SameNames
  <2>9. client[c].seen = seen /\ client[c].marker = marker
    BY <2>3, <2>4, <2>5
  <2> QED BY <2>8, <2>9
<1> QED BY <1>1, FitInvInit, FitInvStep, PTL DEF BufferSpec

\* requestSetLastSeenMsg and requestSetMarkerLine set positions of buffers that are gone;
\* each is told to a client that does not know the buffer when it hears of it, and asks
\* for a purge.
THEOREM GhostsPurgedHolds == BufferSpec => []GhostsPurged
<1>1. FitInv => GhostsPurged
  <2> SUFFICES ASSUME FitInv, Quiet, NEW b \in Ids \ DOMAIN rows, b \notin orphans,
                      NEW c \in Attached, b \notin client[c].missed
               PROVE  seen[b] = 0 /\ marker[b] = 0
    BY DEF GhostsPurged
  <2>1. At(NamesOf, b) = {}
    BY NamesNow
  <2> QED BY <2>1, QuietFits
<1> QED BY <1>1, FitInvInit, FitInvStep, PTL DEF BufferSpec

-----------------------------------------------------------------------------
(* What was read stays read *)

\* in the core
LEMMA CoreNotBack ==
  ASSUME FitInv, [BufferNext]_bufferVars, ~Crash, NEW b \in DOMAIN rows, b \in DOMAIN rows'
  PROVE  seen[b] <= seen'[b]
<1>1. IInv /\ seen \in [Ids -> Nat] /\ b \in Ids /\ used \subseteq Ids
  BY DEF FitInv, IInv, PositionsOK, TableOK
<1>2. seen[b] \in Nat /\ seen[b] <= seen[b]
  BY <1>1
<1>3. ASSUME NEW S \in SUBSET Ids, seen' = Cleared(seen, S), b \notin S
      PROVE  seen[b] <= seen'[b]
  BY <1>1, <1>2, <1>3 DEF Cleared
<1>4. ASSUME NEW c \in Clients, CoreReceives(c)
      PROVE  seen[b] <= seen'[b]
  <2> DEFINE r == Head(up[c])
  <2>1. r \in Requests(used)
    BY <1>1, <1>4, HeadTailProperties DEF IInv, WiresOK, CoreReceives
  <2>2. CASE r.op = "seen" /\ RequestSetLastSeenMsg(c, r.b, r.msg)
    <3>1. r.msg \in Nat
      BY <2>1, <2>2 DEF Requests
    <3>2. \/ seen[r.b] < r.msg /\ seen' = [seen EXCEPT ![r.b] = r.msg]
          \/ seen' = seen
      BY <2>2 DEF RequestSetLastSeenMsg, Newer
    <3> HIDE DEF r
    <3> QED BY <1>1, <1>2, <3>1, <3>2
  <2>3. CASE r.op = "remove" /\ RemoveBuffer(c, r.b)
    <3>1. r.b \in Ids
      BY <2>1, <2>3 DEF Requests
    <3>2. (rows' = Without(rows, {r.b}) /\ seen' = Cleared(seen, {r.b})) \/ seen' = seen
      BY <2>3 DEF RemoveBuffer
    <3>3. rows' = Without(rows, {r.b}) => b \notin {r.b}
      BY DEF Without
    <3> QED BY <1>2, <1>3, <3>1, <3>2, <3>3
  <2>4. CASE r.op = "merge" /\ MergeBuffersPermanently(c, r.b, r.b2)
    <3>1. r.b2 \in Ids
      BY <2>1, <2>4 DEF Requests
    <3>2. (rows' = Without(rows, {r.b2}) /\ seen' = Cleared(seen, {r.b2})) \/ seen' = seen
      BY <2>4 DEF MergeBuffersPermanently
    <3>3. rows' = Without(rows, {r.b2}) => b \notin {r.b2}
      BY DEF Without
    <3> QED BY <1>2, <1>3, <3>1, <3>2, <3>3
  <2>5. CASE UNCHANGED seen
    BY <1>2, <2>5
  <2> QED BY <1>4, <2>2, <2>3, <2>4, <2>5 DEF CoreReceives, RequestSetMarkerLine, RenameBuffer,
            RequestPurgeBufferIds, SendInitData
<1>5. CASE PurgeBufferIds
  <2>1. seen' = Cleared(seen, Ghosts) /\ Ghosts \in SUBSET Ids /\ b \notin Ghosts
    BY <1>5 DEF PurgeBufferIds, Ghosts, Positions
  <2> QED BY <1>3, <2>1
<1>6. CASE Shutdown
  <2>1. /\ rows' = Stored /\ seen' = SeenIn(Stored)
        /\ DOMAIN Stored = DOMAIN rows /\ Stored[b].seen = seen[b]
    BY <1>1, <1>6, StoredRows DEF Shutdown, StartWith, IInv
  <2> QED BY <1>1, <1>2, <2>1 DEF SeenIn
<1>7. CASE UNCHANGED seen
  BY <1>2, <1>7
<1>8. ASSUME NEW c \in Clients, ClientReceives(c) \/ Attach(c) \/ Detach(c) \/ Synchronized(c) \/ UserStep(c)
      PROVE  UNCHANGED seen
  BY <1>8 DEF ClientReceives, Attach, Detach, Synchronized, UserStep, MoveMarker, Request, coreVars
<1>9. CASE StoreDirtyIds \/ JoinOrPart \/ DestroyNetwork \/ UNCHANGED bufferVars
  BY <1>7, <1>9 DEF StoreDirtyIds, JoinOrPart, DestroyNetwork, bufferVars, coreVars
<1>10. ASSUME NEW a, NEW name, CreateBuffer(a, name) \/ NickChange(a, name)
       PROVE  UNCHANGED seen
  BY <1>10 DEF CreateBuffer, NickChange, RenameBuffer
<1> QED BY <1>4, <1>5, <1>6, <1>7, <1>8, <1>9, <1>10 DEF BufferNext

\* at a client that has its initial data already
LEMMA ClientNotBack ==
  ASSUME FitInv, [BufferNext]_bufferVars, NEW b \in DOMAIN rows,
         NEW c \in Clients, client[c].state = "ready", client'[c].state = "ready"
  PROVE  client[c].seen[b] <= client'[c].seen[b]
<1> DEFINE k == client[c]
<1>1. IInv /\ b \in Ids /\ b \in used /\ used \subseteq Ids
  BY DEF FitInv, IInv, TableOK
<1>2. Typed(k) /\ NoInit(down[c]) /\ \A i \in 1 .. Len(down[c]) : down[c][i].op = "removed" => down[c][i].b \notin DOMAIN rows
  BY DEF FitInv, ClientFits, InitOnce, RemovedGone
<1>3. k.seen[b] \in Nat /\ k.seen[b] <= k.seen[b]
  BY <1>1, <1>2 DEF Typed
<1>4. CASE client'[c].seen = k.seen
  BY <1>3, <1>4
<1>5. CASE ClientReceives(c)
  <2> DEFINE m == Head(down[c])
  <2>1. down[c] \in Seq(Messages(used)) /\ down[c] # << >> /\ client'[c] = Applied(k, m)
    BY <1>1, <1>5 DEF IInv, WiresOK, ClientsOK, ClientReceives
  <2>2. m \in Messages(used) /\ Shorter(down[c], Tail(down[c]), m)
    <3> HIDE DEF Messages
    <3> QED BY <2>1, HeadTail
  <2>3. 1 \in 1 .. Len(down[c]) /\ m = down[c][1]
    BY <2>2 DEF Shorter
  <2>4. m.op # "init" /\ (m.op = "removed" => m.b # b)
    BY <1>2, <2>3 DEF NoInit
  <2>5. client'[c].seen[b] = SeenAt(k.seen[b], m, b)
    <3> HIDE DEF m, Messages
    <3> QED BY <1>1, <1>2, <2>1, <2>2, AppliedTo
  <2>6. m.op = "seen" => m.msg \in Nat
    BY <2>2 DEF Messages
  <2> HIDE DEF m
  <2> QED BY <1>3, <2>4, <2>5, <2>6 DEF SeenAt, Removes
<1>6. CASE UserStep(c)
  <2>1. client' = client \/ \E a \in Ids, msg \in 1 .. MaxMsg : client' = [client EXCEPT ![c].marker[a] = msg]
    BY <1>6 DEF UserStep, MoveMarker
  <2>2. client'[c].seen = k.seen
    BY <1>1, <1>2, <2>1 DEF IInv, ClientsOK, Typed, ClientOK
  <2> QED BY <1>4, <2>2
<1>7. CASE Attach(c) \/ Detach(c) \/ Synchronized(c)
  <2>1. Detach(c) => client'[c] = Away
    BY <1>1 DEF Detach, IInv, ClientsOK
  <2>2. Away.state = "away"
    BY DEF Away
  <2> QED BY <1>7, <2>1, <2>2 DEF Attach, Synchronized
<1>8. ASSUME NEW d \in Clients, d # c,
             CoreReceives(d) \/ ClientReceives(d) \/ Attach(d) \/ Detach(d) \/ Synchronized(d) \/ UserStep(d)
      PROVE  client'[c] = k
  BY <1>1, <1>8 DEF CoreReceives, ClientReceives, Attach, Detach, Synchronized, UserStep, MoveMarker, IInv, ClientsOK
<1>9. CASE CoreReceives(c)
  BY <1>4, <1>9 DEF CoreReceives
<1>10. CASE Crash \/ Shutdown
  <2>1. client'[c] = Away
    BY <1>10 DEF Crash, Shutdown, StartWith
  <2> QED BY <2>1 DEF Away
<1>11. CASE PurgeBufferIds \/ StoreDirtyIds \/ JoinOrPart \/ DestroyNetwork \/ UNCHANGED bufferVars
  BY <1>4, <1>11 DEF PurgeBufferIds, StoreDirtyIds, JoinOrPart, DestroyNetwork, bufferVars
<1>12. ASSUME NEW a, NEW name, CreateBuffer(a, name) \/ NickChange(a, name)
       PROVE  client' = client
  BY <1>12 DEF CreateBuffer, NickChange
<1> QED BY <1>4, <1>5, <1>6, <1>7, <1>8, <1>9, <1>10, <1>11, <1>12 DEF BufferNext

\* An older position that arrives later, from another client or for a buffer that was
\* removed meanwhile, moves nothing back, in the core or at a client.
THEOREM SeenNeverBackHolds == BufferSpec => SeenNeverBack
<1> DEFINE NotBack ==
      \A b \in DOMAIN rows \intersect DOMAIN rows' :
        \/ Crash
        \/ /\ seen[b] <= seen'[b]
           /\ \A c \in Clients :
                client[c].state = "ready" /\ client'[c].state = "ready"
                  => client[c].seen[b] <= client'[c].seen[b]
<1>1. FitInv /\ [BufferNext]_bufferVars => NotBack
  BY CoreNotBack, ClientNotBack
<1>2. FitInv /\ [BufferNext]_bufferVars => [NotBack]_bufferVars
  BY <1>1
<1> QED BY <1>2, FitInvInit, FitInvStep, PTL DEF BufferSpec, SeenNeverBack
=============================================================================
