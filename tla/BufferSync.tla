------------------------------ MODULE BufferSync ------------------------------
(***************************************************************************)
(* What the clients of one user agree on about the buffers of a network:   *)
(* which there are, their names, how far each was read, and where its      *)
(* marker line is (common/buffersyncer.cpp, core/corebuffersyncer.cpp).    *)
(* The core keeps the positions in memory, writes the changed ones to the  *)
(* database now and then, and tells its clients of every change.  Both     *)
(* directions of a connection are FIFO.  A name with a suffix after an     *)
(* underscore is a faulty variant of the definition below it.              *)
(***************************************************************************)
EXTENDS Integers, SequencesExt

CONSTANTS
  Queries,    \* ids of query buffers
  Chans,      \* ids of the buffers of one channel, one at a time
  Names,      \* the nicks queries are named after
  Channel,    \* the channel's name
  Clients,
  MaxMsg,     \* message ids are 1 .. MaxMsg; 0 is the invalid MsgId
  Table0,     \* the table of buffers the core starts with
  MaxActs     \* bound on what comes from outside: requests, messages, restarts, ...

Ids == Queries \union Chans

ASSUME BufferAssumption ==
  /\ Queries \intersect Chans = {} /\ IsFiniteSet(Ids) /\ Channel \notin Names
  /\ DOMAIN Table0 \subseteq Ids
  /\ \A b \in DOMAIN Table0 :
       Table0[b] \in [name : Names \union {Channel}, seen : 0 .. MaxMsg, marker : 0 .. MaxMsg]
  /\ MaxMsg \in Nat /\ MaxActs \in Nat

VARIABLES
  rows,          \* the buffers in the database, from ids to [name, seen, marker]
  used,          \* ids the database has given out; it never reuses one
  seen,          \* _lastSeenMsg of the core
  marker,        \* _markerLines of the core
  dirtySeen,     \* dirtyLastSeenBuffers
  dirtyMarker,   \* dirtyMarkerLineBuffers
  purging,       \* _purgeBuffers: a PurgeEvent is posted
  joined,        \* network->ircChannel(Channel) # 0
  client,        \* the clients, see Away
  up, down,      \* what is under way to the core and to each client
  acts,          \* history: how much came from outside
  orphans        \* history: buffers whose network was deleted since the core was started

coreVars == <<rows, used, seen, marker, dirtySeen, dirtyMarker, purging, joined, orphans>>
bufferVars == <<coreVars, client, up, down, acts>>

NoPositions == [b \in Ids |-> 0]
SeenIn(table) == [b \in Ids |-> IF b \in DOMAIN table THEN table[b].seen ELSE 0]
MarkerIn(table) == [b \in Ids |-> IF b \in DOMAIN table THEN table[b].marker ELSE 0]

\* state: "away"; "networks" until all networks are synchronized; "synced" while the
\* BufferSyncer waits for its initial data; "ready".  known: the buffers of the
\* NetworkModel and their names.  missed: history, see Applied.
Away == [state |-> "away", known |-> << >>, seen |-> NoPositions, marker |-> NoPositions,
         missed |-> {}]

\* a client that has been attached since nothing changed
Old == [state |-> "ready", known |-> [b \in DOMAIN Table0 |-> Table0[b].name],
        seen |-> SeenIn(Table0), marker |-> MarkerIn(Table0), missed |-> {}]

BufferInit ==
  /\ rows = Table0 /\ used = DOMAIN Table0
  /\ seen = SeenIn(Table0) /\ marker = MarkerIn(Table0)
  /\ dirtySeen = {} /\ dirtyMarker = {}
  /\ purging = FALSE /\ joined = FALSE /\ orphans = {}
  /\ client \in [Clients -> {Away, Old}]
  /\ up = [c \in Clients |-> << >>] /\ down = [c \in Clients |-> << >>]
  /\ acts = 0

Act == acts < MaxActs /\ acts' = acts + 1   \* bound

NamesOf == [b \in DOMAIN rows |-> rows[b].name]
Free(name) == \A b \in DOMAIN rows : rows[b].name # name
Without(f, S) == [b \in DOMAIN f \ S |-> f[b]]
Cleared(positions, S) == [b \in Ids |-> IF b \in S THEN 0 ELSE positions[b]]

Attached == {c \in Clients : client[c].state # "away"}

\* SYNC and signals reach every client, the one that asked included
Told_NotSender(wires, c, msg) ==
  [d \in Clients |-> IF d \in Attached \ {c} THEN Append(wires[d], msg) ELSE wires[d]]
Told(wires, c, msg) ==
  [d \in Clients |-> IF d \in Attached THEN Append(wires[d], msg) ELSE wires[d]]
ToldAll(msgs) ==
  [d \in Clients |-> IF d \in Attached THEN down[d] \o msgs ELSE down[d]]

-----------------------------------------------------------------------------
(* requests the core handles; c is the client that sent it *)

Newer_Always(b, msg) == TRUE
Newer(b, msg) == seen[b] < msg

RequestSetLastSeenMsg(c, b, msg) ==
  /\ \/ /\ Newer(b, msg)
        /\ seen' = [seen EXCEPT ![b] = msg]
        /\ dirtySeen' = dirtySeen \union {b}
        /\ down' = Told(down, c, [op |-> "seen", b |-> b, msg |-> msg])
     \/ ~Newer(b, msg) /\ UNCHANGED <<seen, dirtySeen, down>>
  /\ UNCHANGED <<rows, used, marker, dirtyMarker, purging, joined, orphans>>

Dirty_IfSeen(b) == IF b \in dirtySeen THEN dirtyMarker \union {b} ELSE dirtyMarker
Dirty(b) == dirtyMarker \union {b}

RequestSetMarkerLine(c, b, msg) ==
  /\ \/ /\ marker[b] # msg
        /\ marker' = [marker EXCEPT ![b] = msg]
        /\ dirtyMarker' = Dirty(b)
        /\ down' = Told(down, c, [op |-> "marker", b |-> b, msg |-> msg])
     \/ marker[b] = msg /\ UNCHANGED <<marker, dirtyMarker, down>>
  /\ UNCHANGED <<rows, used, seen, dirtySeen, purging, joined, orphans>>

\* A channel one is on keeps its buffer.
Removable(b) == b \in DOMAIN rows /\ ~(b \in Chans /\ joined)

RemoveBuffer(c, b) ==
  /\ \/ /\ Removable(b)
        /\ rows' = Without(rows, {b})
        /\ seen' = Cleared(seen, {b}) /\ marker' = Cleared(marker, {b})
        /\ down' = Told(down, c, [op |-> "removed", b |-> b])
     \/ ~Removable(b) /\ UNCHANGED <<rows, seen, marker, down>>
  /\ UNCHANGED <<used, dirtySeen, dirtyMarker, purging, joined, orphans>>

Renamable(b, name) == b \in DOMAIN rows \intersect Queries /\ Free(name)

RenameBuffer(c, b, name) ==
  /\ \/ /\ Renamable(b, name)
        /\ rows' = [rows EXCEPT ![b].name = name]
        /\ down' = Told(down, c, [op |-> "renamed", b |-> b, name |-> name])
     \/ ~Renamable(b, name) /\ UNCHANGED <<rows, down>>
  /\ UNCHANGED <<used, seen, marker, dirtySeen, dirtyMarker, purging, joined, orphans>>

Mergeable(b1, b2) == b1 # b2 /\ {b1, b2} \subseteq DOMAIN rows \intersect Queries

MergeBuffersPermanently(c, b1, b2) ==
  /\ \/ /\ Mergeable(b1, b2)
        /\ rows' = Without(rows, {b2})
        /\ seen' = Cleared(seen, {b2}) /\ marker' = Cleared(marker, {b2})
        /\ down' = Told(down, c, [op |-> "removed", b |-> b2])
     \/ ~Mergeable(b1, b2) /\ UNCHANGED <<rows, seen, marker, down>>
  /\ UNCHANGED <<used, dirtySeen, dirtyMarker, purging, joined, orphans>>

RequestPurgeBufferIds ==
  /\ purging' = TRUE
  /\ UNCHANGED <<rows, used, seen, marker, dirtySeen, dirtyMarker, joined, orphans, down>>

\* the initial data of the BufferSyncer
SendInitData(c) ==
  /\ down' = [down EXCEPT ![c] = Append(@, [op |-> "init", seen |-> seen, marker |-> marker])]
  /\ UNCHANGED <<rows, used, seen, marker, dirtySeen, dirtyMarker, purging, joined, orphans>>

CoreReceives(c) ==
  /\ up[c] # << >>
  /\ up' = [up EXCEPT ![c] = Tail(@)]
  /\ LET r == Head(up[c])
     IN \/ r.op = "seen" /\ RequestSetLastSeenMsg(c, r.b, r.msg)
        \/ r.op = "marker" /\ RequestSetMarkerLine(c, r.b, r.msg)
        \/ r.op = "remove" /\ RemoveBuffer(c, r.b)
        \/ r.op = "rename" /\ RenameBuffer(c, r.b, r.name)
        \/ r.op = "merge" /\ MergeBuffersPermanently(c, r.b, r.b2)
        \/ r.op = "purge" /\ RequestPurgeBufferIds
        \/ r.op = "init" /\ SendInitData(c)
  /\ UNCHANGED <<client, acts>>

-----------------------------------------------------------------------------
(* the core by itself *)

\* ids that have a position but no buffer
Positions_SeenOnly == {b \in Ids : seen[b] # 0}
Positions == {b \in Ids : seen[b] # 0 \/ marker[b] # 0}
Ghosts == Positions \ DOMAIN rows

\* the posted PurgeEvent
PurgeBufferIds ==
  /\ purging
  /\ purging' = FALSE
  /\ seen' = Cleared(seen, Ghosts) /\ marker' = Cleared(marker, Ghosts)
  /\ LET gone == SetToSeq(Ghosts)
     IN down' = ToldAll([i \in DOMAIN gone |-> [op |-> "removed", b |-> gone[i]]])
  /\ UNCHANGED <<rows, used, dirtySeen, dirtyMarker, joined, orphans, client, up, acts>>

\* An update of a row that is gone changes nothing.
Stored ==
  [b \in DOMAIN rows |->
     [name   |-> rows[b].name,
      seen   |-> IF b \in dirtySeen /\ seen[b] # 0 THEN seen[b] ELSE rows[b].seen,
      marker |-> IF b \in dirtyMarker /\ marker[b] # 0 THEN marker[b] ELSE rows[b].marker]]

\* on the core's syncTimer
StoreDirtyIds ==
  /\ rows' = Stored
  /\ dirtySeen' = {} /\ dirtyMarker' = {}
  /\ UNCHANGED <<used, seen, marker, purging, joined, client, up, down, orphans, acts>>

\* a message creates its buffer, and shows it to the clients
CreateBuffer(b, name) ==
  /\ Act
  /\ b \notin used /\ Free(name)
  /\ used' = used \union {b}
  /\ rows' = [d \in DOMAIN rows \union {b} |->
                IF d = b THEN [name |-> name, seen |-> 0, marker |-> 0] ELSE rows[d]]
  /\ down' = ToldAll(<<[op |-> "buffer", b |-> b, name |-> name]>>)
  /\ UNCHANGED <<seen, marker, dirtySeen, dirtyMarker, purging, joined, client, up, orphans>>

JoinOrPart ==
  /\ Act
  /\ joined' = ~joined
  /\ UNCHANGED <<rows, used, seen, marker, dirtySeen, dirtyMarker, purging, orphans>>
  /\ UNCHANGED <<client, up, down>>

\* the nick of a query changes
NickChange(b, name) ==
  /\ Renamable(b, name)
  /\ Act
  /\ RenameBuffer(CHOOSE c \in Clients : TRUE, b, name)
  /\ UNCHANGED <<client, up>>

\* destroyNetwork asks to remove its buffers when the database has none of them any more,
\* so their positions stay; the network is made anew
DestroyNetwork ==
  /\ Act
  /\ rows # << >>
  /\ rows' = << >> /\ joined' = FALSE
  /\ orphans' = orphans \union DOMAIN rows
  /\ down' = ToldAll(<<[op |-> "dropped"]>>)
  /\ UNCHANGED <<used, seen, marker, dirtySeen, dirtyMarker, purging, client, up>>

\* The core starts again from the table r; its clients are gone.
StartWith(r) ==
  /\ Act
  /\ rows' = r
  /\ seen' = SeenIn(r) /\ marker' = MarkerIn(r)
  /\ dirtySeen' = {} /\ dirtyMarker' = {}
  /\ purging' = FALSE /\ joined' = FALSE /\ orphans' = {}
  /\ client' = [c \in Clients |-> Away]
  /\ up' = [c \in Clients |-> << >>] /\ down' = [c \in Clients |-> << >>]
  /\ UNCHANGED used

Crash == StartWith(rows)
Shutdown == StartWith(Stored)

-----------------------------------------------------------------------------
(* clients *)

\* SessionInit
Attach(c) ==
  /\ Act
  /\ client[c].state = "away"
  /\ client' = [client EXCEPT ![c].state = "networks", ![c].known = NamesOf]
  /\ UNCHANGED <<coreVars, up, down>>

Detach(c) ==
  /\ Act
  /\ client[c].state # "away"
  /\ client' = [client EXCEPT ![c] = Away]
  /\ up' = [up EXCEPT ![c] = << >>] /\ down' = [down EXCEPT ![c] = << >>]
  /\ UNCHANGED coreVars

\* setSyncedToCore: only now there is a BufferSyncer
Synchronized(c) ==
  /\ client[c].state = "networks"
  /\ client' = [client EXCEPT ![c].state = "synced"]
  /\ up' = [up EXCEPT ![c] = Append(@, [op |-> "init"])]
  /\ UNCHANGED <<coreVars, down, acts>>

\* What a message makes of client k.
Forgotten(k, b) ==
  [k EXCEPT !.known = Without(@, {b}), !.seen[b] = 0, !.marker[b] = 0]

Renamed(k, b, name) == IF b \in DOMAIN k.known THEN [k EXCEPT !.known[b] = name] ELSE k

\* No BufferSyncer yet: its calls are dropped.
Missed(k, m) ==
  IF m.op \in {"removed", "renamed"} THEN [k EXCEPT !.missed = @ \union {m.b}] ELSE k

Shown(k, b, name) ==
  IF b \in DOMAIN k.known THEN k
  ELSE [k EXCEPT !.known = [d \in DOMAIN @ \union {b} |-> IF d = b THEN name ELSE @[d]]]

Applied(k, m) ==
  CASE m.op = "buffer"  -> Shown(k, m.b, m.name)
    [] m.op = "dropped" -> [k EXCEPT !.known = << >>]
    [] m.op \notin {"buffer", "dropped"} /\ k.state = "networks" -> Missed(k, m)
    [] m.op = "seen" /\ k.state # "networks" ->
         IF k.seen[m.b] < m.msg THEN [k EXCEPT !.seen[m.b] = m.msg] ELSE k
    [] m.op = "marker" /\ k.state # "networks" -> [k EXCEPT !.marker[m.b] = m.msg]
    [] m.op = "removed" /\ k.state # "networks" -> Forgotten(k, m.b)
    [] m.op = "renamed" /\ k.state # "networks" -> Renamed(k, m.b, m.name)
    [] m.op = "init" -> [k EXCEPT !.state = "ready", !.seen = m.seen, !.marker = m.marker]

\* The buffers whose position m sets; the NetworkModel asks for a purge when it does not
\* know one of them.
Placed(k, m) ==
  {b \in Ids : \/ m.op = "init" /\ (m.seen[b] # 0 \/ m.marker[b] # 0)
               \/ m.op = "seen" /\ k.state # "networks" /\ b = m.b /\ k.seen[b] < m.msg
               \/ m.op = "marker" /\ k.state # "networks" /\ b = m.b /\ k.marker[b] # m.msg}

PurgeAsked(k, m) == IF Placed(k, m) \subseteq DOMAIN k.known THEN << >> ELSE <<[op |-> "purge"]>>

ClientReceives(c) ==
  /\ down[c] # << >>
  /\ LET m == Head(down[c])
     IN /\ client' = [client EXCEPT ![c] = Applied(@, m)]
        /\ up' = [up EXCEPT ![c] = @ \o PurgeAsked(client[c], m)]
  /\ down' = [down EXCEPT ![c] = Tail(@)]
  /\ UNCHANGED <<coreVars, acts>>

\* The user asks for something about a buffer that is shown.
Request(c, b, r) ==
  /\ client[c].state \in {"synced", "ready"}
  /\ b \in DOMAIN client[c].known
  /\ Act
  /\ up' = [up EXCEPT ![c] = Append(@, r)]
  /\ UNCHANGED <<coreVars, down>>

\* a marker line is moved before the core answers
MoveMarker(c, b, msg) ==
  /\ Request(c, b, [op |-> "marker", b |-> b, msg |-> msg])
  /\ client' = [client EXCEPT ![c].marker[b] = msg]

UserStep(c) ==
  \E b \in Ids :
    \/ \E msg \in 1 .. MaxMsg :
         \/ MoveMarker(c, b, msg)
         \/ Request(c, b, [op |-> "seen", b |-> b, msg |-> msg]) /\ UNCHANGED client
    \/ Request(c, b, [op |-> "remove", b |-> b]) /\ UNCHANGED client
    \/ \E n \in Names :
         Request(c, b, [op |-> "rename", b |-> b, name |-> n]) /\ UNCHANGED client
    \/ \E b2 \in Ids :
         Request(c, b, [op |-> "merge", b |-> b, b2 |-> b2]) /\ UNCHANGED client

BufferNext ==
  \/ \E c \in Clients :
       \/ CoreReceives(c) \/ ClientReceives(c)
       \/ Attach(c) \/ Detach(c) \/ Synchronized(c) \/ UserStep(c)
  \/ \E b \in Queries, n \in Names : CreateBuffer(b, n) \/ NickChange(b, n)
  \/ \E b \in Chans : CreateBuffer(b, Channel)
  \/ PurgeBufferIds \/ StoreDirtyIds \/ JoinOrPart \/ DestroyNetwork
  \/ Crash \/ Shutdown

BufferSpec == BufferInit /\ [][BufferNext]_bufferVars

-----------------------------------------------------------------------------
\* A position that is not on disk is marked to be written, whatever was removed, merged,
\* purged or set for a buffer that is gone: only a crash can lose it.
UnsavedIsDirty ==
  \A b \in DOMAIN rows :
    /\ seen[b] # rows[b].seen => b \in dirtySeen
    /\ marker[b] # rows[b].marker => b \in dirtyMarker

\* What was read stays read: for a buffer that stays, neither the core nor any client that
\* stays moves the last seen message back, whichever client moves it and over an orderly
\* restart; only a crash may.
SeenNeverBack ==
  [][\A b \in DOMAIN rows \intersect DOMAIN rows' :
       \/ Crash
       \/ /\ seen[b] <= seen'[b]
          /\ \A c \in Clients :
               client[c].state = "ready" /\ client'[c].state = "ready"
                 => client[c].seen[b] <= client'[c].seen[b]]_bufferVars

Quiet ==
  /\ ~purging
  /\ \A c \in Clients :
       up[c] = << >> /\ down[c] = << >> /\ client[c].state \in {"away", "ready"}

\* Once all is delivered every client has the core's positions, although a marker line
\* moves at its client first; and the core's buffers under their names, except those
\* removed or renamed while it had no BufferSyncer to hear of it.
Agreed ==
  Quiet => \A c \in Attached :
    LET k == client[c]
    IN /\ k.seen = seen /\ k.marker = marker
       /\ Without(k.known, k.missed) = Without(NamesOf, k.missed)

\* A position set for a buffer that is already gone does not stay: a client that hears of
\* it does not know the buffer and has it purged.  Nobody hears of those a network leaves
\* behind.
GhostsPurged ==
  Quiet /\ Attached # {} =>
    \A b \in Ids \ DOMAIN rows :
      \/ seen[b] = 0 /\ marker[b] = 0
      \/ b \in orphans \/ \A c \in Attached : b \in client[c].missed
=============================================================================
