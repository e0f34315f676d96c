# A TLA+ verification of Quassel's core

Quassel is an IRC client in two processes: a *core* that stays connected to the IRC
networks, and *clients* (GUI) that attach to it and detach again.  This directory
models the core's own logic and the protocol between core and client, checks the
models with TLC and proves their central properties with TLAPS.  Every definition is a
translation of the C++ source; `PROJECT.json` maps each one to its lines.  Source paths
below are relative to `src/src/`.

Contents: 1 the system, 2 conventions, 3 the modules, 4 the runs, 5 the theorems,
6 what was found, 7 what is not modelled.

## 1. The system

### 1.1 Parts

| Part | State | Operations | Modelled in |
|---|---|---|---|
| Connection lifecycle, `core/corenetwork` | public connection state, socket state, retry counter, reconnect, close and ping timers, server index, "quit requested", the restore flag in the database | connect, disconnect, socket signals, 001, timers, edits of the settings, restart | `CoreNetwork` |
| Send queue, `core/corenetwork` | token bucket, message queue, token timer | `putRawLine`, timer tick, reset at connect, disconnect and QUIT | `SendQueue`, against `LineFifo` |
| AutoWho, `core/corenetwork` | queue of channels, pending WHO answers by channel, two timers | cycle, send, end of WHO, join, part, kick | `AutoWho` |
| Event manager, `common/eventmanager` | event queue, registrations, posted wake-ups | register, `sendEvent`, `customEvent`, dispatch | `EventManager` |
| Message pipeline, `core/coresession` | message queue | `recvMessageFromServer`, `processMessages`, user input | `CoreSessionMessages` |
| Network state, `common/network`, `ircuser`, `ircchannel` | nick, users, channels, membership and member modes | join, part, kick, quit, nick, mode, names, disconnect | `IrcState`, `IrcView` |
| Session event processor, `core/coresessioneventprocessor` | netsplits per network | a handler per IRC command and numeric | `IrcState`, `Netsplit`, `AutoWho`, `DetachAway` |
| Netsplit, `core/netsplit` | held-back quits and joins, announced quits, three timers | quit, join, mode, early join, timeouts | `Netsplit` |
| Signal proxy, `common/signalproxy`, `syncableobject` | registry of objects by class and name, per client the initialisation state, heartbeats | sync call, init request and data, rename, create and remove, attach and detach | `SignalProxy`, `Attach` |
| Handshake and session, `core/core`, `sessionthread`, `coresession` | sockets not yet logged in, clients queued for a session that starts, peers, networks | ClientInit, set-up, login, hand-over, session start, networks made and removed, away | `Attach`, `DetachAway` |
| The client's connection, `client/coreconnection` | state, socket, reconnect timer, networks waited for | dial, handshake, synchronise, reconnect, disconnect | `Attach` |
| Buffer syncer, `common/buffersyncer`, `core/corebuffersyncer` | last-seen and marker lines, dirty sets, a posted purge | set, merge, remove, rename, purge, store, restart | `BufferSync` |
| Backlog, `core/corebacklogmanager`, `client/clientbacklogmanager`, `backlogrequester`, `messagemodel` | buffers waited for, messages kept back, rows, messages still to be inserted, fetches | request, answer, insert, fetch, clear | `Backlog` |
| Channel list helper, `core/coreirclisthelper` | pending queries, their timers, collected lists | LIST, reply, end, timeout | no |
| Buffer views, `common/bufferviewconfig`, `bufferviewmanager` | buffers shown, removed, temporarily removed | add, move, remove | as objects of `SignalProxy` |
| User input handler, `core/coreuserinputhandler` | none of its own | a command per typed line, of which /AWAY changes state | `DetachAway` |
| CTCP parser, IRC parser, event stringifier | none worth naming | one event or text per line | no |
| Storage | tables | the results of its queries | in `BufferSync`, `Backlog`, `CoreNetwork` |
| Ciphers, settings, UI, build | - | - | no, see section 7 |

### 1.2 How they interact

Everything in the core that belongs to one user runs in one thread, the *session thread*,
on one Qt event loop.  So there are no data races between the parts above; what
interleaves are the *turns* of the loop: socket data, socket signals, timers, calls posted
with a queued connection, and calls from clients.  The handshake runs in the core's main
thread, and hands a socket over by a posted event and a queued signal.  A line takes this
way:

    IRC server -> socket -> CoreNetwork --NetworkDataEvent--> EventManager
      -> IrcParser --IrcEvent--> EventManager
      -> CoreSessionEventProcessor   (state: Network, IrcUser, IrcChannel, Netsplit)
      -> EventStringifier, CtcpParser --MessageEvent--> EventManager
      -> CoreSession (message queue) -> Storage, and by SignalProxy to the clients

and a state change takes this one: a setter of a `SyncableObject` calls `SYNC`, the
proxy sends the call with the object's class and *name* to every client, and the
client's proxy finds its copy under that name.  In the other direction clients ask for
the initial state of an object (`InitRequest`) and for changes (`requestConnect`,
`requestSetLastSeenMsg`, user input); what is typed becomes raw lines for `putRawLine`.

Within a turn the objects call each other synchronously, and often back: closing a
socket calls `socketDisconnected`, which may call `doAutoReconnect`, which dials the
socket again; removing a user from a channel removes the channel from the user, which
may remove both from the network; removing a peer signals `disconnected`, which resets the
connection that is just being reset.

### 1.3 What is hard here

* *Turns in an order nobody tested.*  A click on "disconnect" between the arrival of 001
  and its processing; two `requestConnect` before the first has run; a netsplit timer
  between two joins of one user; a network removed between a login and its `SessionInit`.
* *Timers against answers*: QUIT's ten seconds, the ping count, the reconnect timers of core
  and client, the three netsplit timers, the two of AutoWho, heartbeats.
* *Names that are reused*: nicks and buffer-view ids name objects in the sync protocol,
  and are handed on while calls under the old meaning are still on their way; channel names
  are all that tells the core's own WHO from the user's.
* *State kept twice*: membership in channel and user, connection state in the network
  and the socket, objects, buffers and positions in core and client, positions in memory and
  on disk.
* *Crash and restart*: which networks the core reconnects, and which positions survive,
  depends on what was written and when.
* *The same message by several ways*: live, in the backlog, in a fetch.
* *Recursion through callbacks*, as above.

`PROJECT.json` lists each hazard at its line with the properties that watch over it, or
the reason why none does.

### 1.4 What makes each part correct

* Lifecycle: the public state agrees with the socket; a disconnect completes, is final,
  and is remembered; an outage is followed by bounded retries that really happen and go
  round the servers; a silent server is noticed.
* Send queue: bounded rate, no overtaking, no loss, no starvation, registration first.
* AutoWho: every channel is asked about again and again; the user's own answers are shown.
* Event manager: each event once, in order, none stranded; state before text.
* Message pipeline: each message stored once, in the right buffer, none left behind.
* Network state: both sides of the membership agree, and with the lines read the picture
  is the server's.
* Netsplit: holding quits and joins back loses and invents nobody.
* Signal proxy: no call reaches the wrong object, and a client that has read everything
  has the core's objects with the core's values.
* Buffer syncer: an unsaved position is marked dirty, what was read stays read, all clients
  agree with the core, nothing stays of a buffer that is gone.
* Backlog: the rows are in order, without duplicates and without gaps; nothing received
  stays hidden; a fetch that blocks further ones had nothing left to fetch.
* Attaching: the user's last word counts; a wanted client gets its session, with the
  right networks; the core forgets clients that are gone.
* Being away: the server comes to show what was asked for last, by the user's command, the
  last client that left or the first that came, also after a disconnect.

## 2. Conventions

* Names are the source's.  A definition with a suffix after an underscore
  (`NextServer_Stays`) is a *faulty variant* of the definition below it.  It is used by no
  action; put in place of the real one it makes some property fail, which shows that the
  property depends on that piece of code (`PROJECT.json`, "mutants").
* Handlers that call each other synchronously are operators on records, so that an action
  applies one composed operator: one turn of the event loop, with everything it calls.
* Variables marked *history* record the past for a property.  The program's actions do not
  read them, except to stop at a bound, and `Netsplit`'s `calm` (see 3.6).
* Some histories are *escapes*: the code has a defect, TLC finds it, and the history marks the
  behaviours in which it has happened, so that the property can be stated for all others:
  `edits` (`CoreNetwork`), `calm` (`Netsplit`), `orphans` and `missed` (`BufferSync`), `torn`
  (`Backlog`), `link = "dead"` (`Attach`), `intent = Unsure` (`DetachAway`).  Each is as narrow as the
  defect; section 6 lists them.
* Constants named `Max...` are bounds of the instance, except `MaxPing` and `MaxBeats`,
  which are the program's own `maxPingCount` and `maxHeartBeatCount`, and `MaxRetries`,
  which bounds a setting.
* `MC...` modules hold the values of the constants, and configurations the bounds.

## 3. The modules

| Module | EXTENDS, uses | Proofs |
|---|---|---|
| `CoreNetwork` | | `CoreNetworkProofs` |
| `LineFifo`, `SendQueue`, `SendQueueFifo` | `SendQueueFifo` maps `SendQueue` to `LineFifo` | `NetworkQueueProofs` |
| `AutoWho` | | `NetworkQueueProofs` |
| `EventManager`, `CoreSessionMessages` | the second EXTENDS the first | `EventManagerProofs` |
| `IrcState`, `IrcView`, `Netsplit` | both detailed ones EXTEND `IrcState` | `IrcStateProofs` |
| `SignalProxy` | | `SignalProxyProofs` |
| `BufferSync` | | `BufferSyncProofs` |
| `Backlog` | | `BacklogProofs` |
| `Attach` | | `AttachProofs` |
| `DetachAway` | | `AttachProofs` |

### 3.1 `CoreNetwork` - the connection of one network

One record `net` stands for the `CoreNetwork`, its socket, and the network's restore flag
in the database: `connState`, `connected`, `quitRequested`, `count`
(`_autoReconnectCount`, with -1 "for ever, next one at once" and -2 "for ever, next one by
timer"), `reconnectTimer`, `closeTimer`, `pingTimer`, `pingCount`, `attemptFailed`
(`_previousConnectionAttemptFailed`), `server` (`_lastUsedServerIndex`), `sock`, and
`restore`.  The socket is Qt 4's as far as the code relies on it: `connectToHost` does
nothing unless the socket is unconnected, a close during a dial is carried out after it,
`stateChanged` comes before `connected`/`disconnected`, and `error` comes before the
socket closes.

| Action | Code |
|---|---|
| `RequestConnect`, `RunConnect` | `requestConnect` checks the state and posts `connectToIrc`, which does not |
| `RequestDisconnect`, `HandleQuit` | `requestDisconnect`, `/quit`, `disconnectFromIrc` |
| `SetNetworkInfo`, `PingTimeoutEnabledSet`, `RemoveIdentity` | clients edit settings and identities |
| `TcpConnected`, `TcpFails`, `ConnectionLost`, `SocketClosed` | the socket's signals |
| `ReceiveWelcome`, `ProcessWelcome` | 001 is queued as an event, and processed in a later turn |
| `ResetPingTimeout`, `GoSilent` | a line arrives; the server stops answering |
| `AutoReconnectTimeout`, `SocketCloseTimeout`, `PingTimeout` | the timers |
| `RestartCore` | shutdown or crash, then `restoreSessionState` |

`LoopIdle` says that calls posted to the object run before the loop turns to sockets and
timers again.  `flushed` in a closing action is the choice whether the socket has bytes
left to write; `r` is `qrand()` for `useRandomServer`; `onTime` says whether the ping came
no later than its interval, which `sendPing` checks to spare a core that was blocked.

History: `quit` (a disconnect the user asked for, and whether it has been overruled by a
late 001 or a restart), `tries`, `dialed`, `edits`.

### 3.2 `SendQueue` - from `putRawLine` to the wire

A line is the number of its `putRawLine` call, `wire` what the current connection has
carried.  `tokens` starts with any of a few values because the constructor leaves
`_tokenBucket` uninitialised.  Faithful details: a write to a closed socket is dropped but
costs a token; a connection does not clear `_msgQueue`, a disconnection does;
`socketInitialized` sends the registration through the same bucket, directly as long as
tokens last, behind whatever waits otherwise; QUIT clears the queue and goes in its
place.  `Burst` and `Registration` are parameters; `MaxLines` and `MaxTicks` bound the
instance.

`LineFifo` is what a user of the connection may rely on: a line that is written once and in
order, of which a quit may drop what still waits.  It has neither bucket nor timer, nor a
queue that outlives connections.  `SendQueueFifo` gives the refinement mapping: the lines
of the current connection, without those left over when it was made.  `ImplementsFifo` is
`LineFifo`'s specification under that mapping, and says in one formula that direct
writes, ticks, leftovers and quits neither lose, double nor reorder a line.  One tick may
send several lines; the fill of the bucket makes it one in every reachable state of an open
connection with lines waiting, and the run shows that too.

### 3.3 `EventManager` - queue and dispatch

A handler is its place in the list of registrations; an event has a number and a kind;
`Keys[k]` are the event types under which a kind is looked up (`IrcEventNumeric` 301, then
the generic numeric).  `HandlersOf` is the code's `insertHandlers` loop, including that
the place a priority gives a handler is computed and not used.  What handlers send while
an event is dispatched comes from `Sends`, so any behaviour of any handlers is covered;
`Stoppers` may stop an event.  An event that finds the queue empty is dispatched at once,
inside `sendEvent`; every other waits for a posted wake-up.

### 3.4 `CoreSessionMessages` - from message event to storage

EXTENDS `EventManager`: a dispatch that reaches the session's handler may append a message,
and the dispatch that leaves the event queue empty flushes `messageQueue`.  Messages the
core displays itself (`displayMsg`) arrive at any time, and a user's input flushes at once.
`ProcessMessages` has the code's two ways (one message, many), the cache of buffers
per batch, the redirected messages put off, and the loop that looks them up again.
Storage is the set of buffers that exist.  `MCCoreSessionMessages` has the registrations
of `CoreSession` (`core/coresession.cpp:100-107`) for a line of every sort: handled under
its own type, under a group type, under both, by the stringifier only, by several objects,
stopped by one, answered by further events.

### 3.5 `IrcState` and `IrcView` - users and channels

`IrcState` is the abstract one: the methods of `Network`, `IrcUser` and `IrcChannel` as
operators on one record, and one operator per IRC line as
`CoreSessionEventProcessor` handles it.  Any line may come at any time, with one
restriction (`LinesOf`): nobody is given the nick of a user the core has on a channel.
`net.roster` is the channel's side of the membership, `net.on` the user's.

`IrcView` is the detailed one: an IRC server with its own truth (`server`), which sends a
line for what the core's user can see, up to `MaxWire` lines ahead of the core.  It
EXTENDS `IrcState` and uses the same `Handle`.  That it *implements* `IrcState` - that no
line falls outside `LinesOf` - is `LinesAllowed`, and theorem `ViewImplements`.  The server
is not code of the repository; its definitions are marked external.

### 3.6 `Netsplit` - quits and joins held back

EXTENDS `IrcState`.  One split (one quit message), with `HandleNetsplitQuit`,
`HandleNetsplitJoin` and `EarlyJoin` as in the session event processor and `UserQuit`,
`UserJoined`, `AddMode`, `UserAlreadyJoined` and the timers as in `netsplit.cpp`.  Lines
are handled as they are sent, because what races here are lines and timers.

The code is right only while lines and timers keep a certain order.  `calm` says that they
have; it turns FALSE at exactly the following steps, after which the behaviour stops and
nothing is claimed.  Dropping any of the conditions makes `HeldBackOnly` or `ModesKept`
fail, so each of them names a real race in which the core's list of members goes wrong:

1. The quit timer fires while somebody who is about to be let go has come back on one of
   several channels (`Returning`).  The quit removes the user from every channel, and the
   held-back join is then dropped as that of someone who "already quit".
2. The join timer ends the split while the quits of a second wave still wait for the quit
   timer; those users stay listed.
3. The hour is over (`Discard`) while joins are held back or quits wait.
4. A user quits with the split's message again while held back, or after having been let
   go once: `_quitsWithMessageSent` is never cleaned, so the second quit is ignored.
5. A user whose join is held back parts or quits; the join comes through afterwards.
6. The core itself leaves a channel while joins are held back.

`Share` is the third of the lost users whose return makes the core list joins early; 3 in
the code, 1 in the instance so that two users suffice.

### 3.7 `SignalProxy` - core and client

The core's registry `core` (name to object) and the objects' values; the client's registry
`slave`, its copies' own names `own`, their values, and which are initialised (`ready`);
`down` and `up` are the two directions of the connection, in order, lossless, as TCP is.
Names are nicks, which change (`IrcUser`), and ids, which do not (`BufferViewConfig`); the
two containers that create the copies are one here, the *manager*.  Calls carry, as
history, the object they are meant for.

| Action | Code |
|---|---|
| `Create`, `RemoveObject` | `synchronize` and the container's sync call; `quit`, `deleteBufferViewConfig` |
| `Update` | any setter with `SYNC` |
| `Rename` | `IrcUser::setNick`: the rename is announced, then the setter's call |
| `HandleInitRequest` | `handleInitRequest`; a name nobody has gets no answer |
| `ClientHandles` | `handleSync`, `handleInitData`, `objectRenamed`, and the container's slots |
| `Connect`, `Disconnect` | the client attaches, detaches or is lost at any moment |

An object renamed by a call that crosses the client's first request for it is left without
its state (section 6); `Synchronized` therefore speaks of the values of copies that have
been initialised, and of the registry, names and existence of all.

### 3.8 `AutoWho` - the core's own WHO queries

`who` holds `_autoWhoQueue`, `_autoWhoPending` and the two timers; `asked` is what the
server has not answered yet, in order, the core's queries and the user's alike.  The end of
an answer (`EndOfWho`, numeric 315) is hidden if `setAutoWhoDone` takes it for an answer to
the core's own query, which it does by channel name.  `owed` counts, by channel, the user's
answers that were hidden less the core's own that were shown instead.  A channel that has
been parted, is unknown or has `autoWhoNickLimit` users or more is passed over and dropped
from the queue, as in `sendAutoWho`'s loop.

### 3.9 `BufferSync` - what clients agree on about buffers

The database's table `rows`, the core's positions `seen` and `marker` with their dirty sets,
the posted purge, and for each client its state, its `NetworkModel`'s buffers (`known`) and
its copy of the positions; `up` and `down` are its connection.

| Action | Code |
|---|---|
| `CoreReceives` | `requestSetLastSeenMsg`, `requestSetMarkerLine`, `removeBuffer`, `renameBuffer`, `mergeBuffersPermanently`, `requestPurgeBufferIds`, the initial data |
| `PurgeBufferIds`, `StoreDirtyIds` | the posted `PurgeEvent`; the core's sync timer |
| `CreateBuffer`, `NickChange`, `JoinOrPart`, `DestroyNetwork` | a message makes a buffer; a query follows its nick; a channel one is on cannot be removed; `destroyNetwork` |
| `Crash`, `Shutdown` | the process ends without and with `storeDirtyIds`; the constructor reads the database |
| `Attach`, `Synchronized`, `Detach` | `SessionInit`; the BufferSyncer is made; the client goes |
| `ClientReceives`, `UserStep` | the client's slots; what its user asks for |

Two details decide most of the properties: a client moves its marker line before the core
answers, and a client has no `BufferSyncer`, and so hears nothing about removals and new
names, between its `SessionInit` and the end of its network synchronisation.

### 3.10 `Backlog` - how the rows of a client fill

A message is its id, `log` the database.  The requester (`fixed`, `unread` or `global`), the
buffers it waits for and what it keeps back; the rows `shown`, `_messageBuffer`
(`pending`) with the posted `ProcessBufferEvent`s; the fetches of the user who scrolls.
`InsertMessages` is `insertMessages` with `insertMessagesGracefully`: a list is worked off
from its newest message down to the next row that is there already, in one group, and what
does not fit waits for the event loop.  `RequestBacklog` and `RequestBacklogAll` are the
core's answers, with `LIMIT`, order and the additional read messages.

### 3.11 `Attach` - from a socket to a session

Both ends of each socket: `sock[s].phase` is where the core's end is in its way from
`incomingConnection` through login, the posted `AddClientEvent`, the queue of a session that
is starting and the queued `addRemoteClient` signal to a peer of the `SignalProxy`; `link`
is what became of the connection.  `client[c]` is the `CoreConnection`.

| Action | Code |
|---|---|
| `IncomingConnection`, `ProcessClientMessage` | the servers' signal; ClientInit, CoreSetupData, ClientLogin |
| `AddClientEvent`, `SetSessionInitialized`, `AddClient` | the hand-over to the session and its thread |
| `ReceivePeerSignal`, `SendHeartBeat`, `ReceiveHeartBeatReply`, `SocketDisconnected` | the peers |
| `CreateNetwork`, `DestroyNetwork` | the session's networks |
| `Restart` | the core ends and starts again, with or without restoring sessions |
| `ConnectToCore`, `Disconnects`, `UserDisconnects`, `ReconnectTimeout`, `CoreSocketDisconnected`, `ClientPingTimeout`, `ClientReceives` | the client's side |
| `LinkBreaks`, `LinkFallsSilent` | the world |

`Reset`, `Lost` and `DisconnectFromCore` follow the order of the calls in
`disconnectFromCore` and `resetConnection`, including the re-entry by way of
`removeAllPeers`.  `wish` is the user's last word.  The client has the
settings of a build without a network detector of the desktop (`client/clientsettings.cpp:206`,
`:221`): `UsePingTimeout`, and `autoReconnect`, which is on unless it is switched off.

### 3.12 `DetachAway` - away when all have left

One network, `up` from 001 to the end of its connection.  `me` is what the core knows of its own
user: `isAway()`, which follows the server's answers, and `awayMessage()`, which is set when AWAY
is sent.  `stored` is the message in the database, `lines` the AWAY and QUIT commands that are
queued, sent or not answered yet, in order, and `server` what the server shows.  `attached` counts
the peers of the session, whose coming and going is `Attach`'s.

| Action | Code |
|---|---|
| `HandleAway`, `GlobalAway` | `/away` with or without a message, with `-all` |
| `PeerAdded`, `PeerRemoved` | a peer comes or goes, with `clientsConnected` for the first and `clientsDisconnected` for the last |
| `SetDetachAwayEnabled` | "Away On Detach" is switched |
| `NetworkInitialized` | 001; the stored message is sent again |
| `AwayAnswered` | 305 and 306 |
| `DisconnectFromIrc` | asked for, or after a ping timeout: the message is stored, QUIT sent |
| `ConnectionEnds` | `socketDisconnected`, after QUIT or by a loss |
| `CoreRestarts` | the core ends, with or without `~CoreNetwork`, and starts again |

`AwayFollows` compares the server with `intent`, a history: a message, `None` to be back, `Some` for
"away, with a message that is not known", or `Unsure`.  It is set by the user's command, and, with
"Away On Detach", by the last client that leaves (away, or as before if the user was already) and
the first that comes (back); nothing else sets it, so a disconnect, a later connection and an
orderly restart must keep what it says.  It becomes `Unsure` where the program does not keep it or
nobody can know:

* a first client comes or a last one leaves while a command is not answered (the decision is made
  by `isAway()`), or while the network is not connected: `clientsConnected` and
  `clientsDisconnected` pass over such networks, and nothing makes up for it at 001;
* the connection is lost and what is stored is not what was asked for: only `disconnectFromIrc`
  stores;
* `disconnectFromIrc` while an AWAY is under way, or with a message the core has not seen;
* a command while there is no connection or after QUIT;
* the core stops with clients attached, which its session no longer hears of.

## 4. The runs

Twelve runs; ten pass, two show a disagreement of the code with its own comments.

| Run | Bounds | What it shows |
|---|---|---|
| `lifecycle` | 2 servers, settings off / 1 try / 2 tries / endless, 2 waiting connects, 2 edits, restarts, silence | `SocketAgrees`, `CloseTimerOwned`, `QuitIsFinal`, `RestoreMatches`, `DialsRight`; live: `QuitCompletes`, `ReconnectProgress`, `DeadServerDropped` |
| `late_welcome` | 1 server | violation, section 6 |
| `send_queue` | burst 3, 2 registration lines, 12 lines, 5 ticks, four initial values of the bucket | `FloodBound`, `RegistersFirst`, `EventuallySent`; `ImplementsFifo` (refinement) |
| `queries` | 3 channels, one large, 4 acts on a connection | `NoneSwallowed`, `AskedAgain` (live) |
| `messages` | 16 registrations, 3 events from outside and all they cause, 2 messages | `InOrder`, `StateBeforeText`, `PlainInPlace`, `FlushedWhenIdle`, `EventuallyDispatched` (live) |
| `redirected_message` | 1 event, 2 messages | violation, section 6 |
| `irc_view` | 3 nicks, 2 channels, 1 mode, 2 lines under way | `TwoWay`, `Converged`, `LinesAllowed`, `LeaversForgotten` |
| `netsplit` | 3 nicks, 2 channels, 2 quits | `HeldBackOnly`, `ModesKept` |
| `sync` | 2 nicks, 1 id, 3 objects, 2 changes, 3 calls under way | `RightObject`, `Synchronized` |
| `buffers` | 2 queries, 1 channel, 2 names, 2 clients, 2 messages, 3 acts | `UnsavedIsDirty`, `Agreed`, `GhostsPurged`, `SeenNeverBack` |
| `backlog` | 2 buffers, 4 messages at the start and 1 more, limit 2, 1 additional, 1 fetch per session, 2 sessions | `RowsInOrder`, `NoGap`, `NothingStuck`, `FetchEnds` |
| `attach` | `Attach`: 2 clients, 3 sockets, 2 networks, 1 heartbeat, 3 acts; `DetachAway`: 2 peers, 2 messages, 3 commands without an answer | `StaysDetached`, `NetworksAgree`, `AwayFollows`; live: `Reattaches`, `PeersGo` |

### 4.1 Why the bounds are enough to mean something

* `lifecycle`: two servers tell "the next one" from "the same one"; with one or two retries
  the counter passes from "equal to the setting" (dial at once) through "less" (timer) to 0
  (give up); "endless" visits both -1 and -2.  Two waiting connects are needed for a dial on
  top of a dial, two edits for switching something off and on again.
* `send_queue`: with burst 3 and 2 registration lines a bucket has been full, partly used and
  empty; twelve lines cover a connection with lines left over from the one before and a queue
  longer than the burst.  `EventuallySent` speaks only of lines which the bound on ticks still
  lets out, so that the bound does not make it fail.
* `queries`: two channels give cycles of a length and orders that matter, the large one is
  passed over; four acts are a join of each, a query of the user's and one more.
* `messages`: three events from outside, each of which may cause up to two IRC events, and
  those messages, fill the queue behind an event that still sends.  Two messages are the least
  batch in which a redirected one stands behind a plain one.
* `irc_view`: three nicks (the core's, another, and one to change to) and two channels (one
  shared, one not) give every way in which somebody can become known or be forgotten.  Two
  lines under way let the server be ahead of the core by a leave and a rejoin.
* `netsplit`: two lost users and two channels show a user back on one of two channels, and a
  second wave.
* `sync`: three objects for three names let a nick be handed on to a new object while calls to
  the old one are under way; three calls are a creation and a rename.
* `buffers`: two clients are the least that can disagree; two queries the least to merge; three
  acts from outside let a client detach, the other change a buffer, and the core restart.
  Messages under way are not bounded except by the acts.
* `backlog`: four messages of which three are in one buffer, with a limit of two, leave
  something to fetch, cut an answer off above the additional message, and enclose a message of
  another buffer, so that an answer needs more than one group.  Two sessions let something be
  left over from the first.
* `attach`: two clients are the least for "the last one left"; a client that reconnects twice
  while its earlier sockets are still known to the core uses three sockets
  (`AttachAssumption`); three acts of user and world are a login, a loss and one more.
  `DetachAway` has no variable in common with `Attach`; the run explores each of them while the
  other stays at its start (`MCNext`), where no action with fairness is enabled.  Two peers tell
  the last one from another, two messages a new one from an old one, and three commands are one
  that was sent, one that crosses it, and QUIT.  Nothing else in it is bounded.

Symmetry under permutation of nicks, channels, objects or clients is used in `irc_view`,
`netsplit`, `sync` and `buffers`, none of which has a liveness property.  The folds over
channels and users in `Netsplit`, and the sequences made of sets in `SignalProxy` and
`BufferSync`, choose an order; the `netsplit` and `sync` instances were also explored without
symmetry (6.8 and 12.8 million states), with the same result.

Deadlock is checked wherever the system cannot stop.  `CHECK_DEADLOCK FALSE` stands where a
bound ends behaviours (`send_queue`, `messages`, `buffers`, `backlog`, `attach`), or `calm`
does (`netsplit`).

### 4.2 Fairness

* `CoreNetwork`: a posted call, an expired timer, the closure of a flushed socket and the
  processing of a queued event happen in the end, because the loop runs.  A dial ends,
  because the operating system's timeout ends it if nothing else does.  A ping goes out on
  time again and again: a thread may be blocked, but not always.  *Nothing* is assumed of the
  user or the server: it need never answer, close or send 001.
* `SendQueue`: the token timer repeats as long as it is active.
* `AutoWho`: timers expire, and the server answers WHO; without its answer the code waits for
  ever, since one unanswered query holds all others back.  A connection may be lost instead.
* `EventManager`: Qt delivers a posted event.
* `Attach`: event loops run, timers fire, a link that works carries what is sent, and users
  answer the dialogs of the handshake.  Nothing obliges users to connect, a link to stay up,
  or a broken one to be noticed: a silent link is discovered by the heartbeats of either side.
  `Reattaches` rests on the two settings named in 3.11; without `autoReconnect` a client that
  lost its core waits for its user, and a detector of the desktop's decides otherwise when to
  dial.

Only the runs with liveness properties use a specification with fairness.

## 5. The theorems

All theorems hold for every value of the constants that the module's assumption allows:
at least one server, a burst of at least one, handlers that send sequences of known
kinds and are registered in the session's order, event types that name one kind each, a
"no nick" that is not a nick, finitely many nicks and channels during a split (`Netsplit`, whose
timers go through them one by one), finitely many ids of buffers and objects, none of them one of
the model's marks for a global backlog and a live message (`Backlog`), limits of at least one, away
messages that are none of the marks for no message, QUIT and what is not known (`DetachAway`).  The
bounds are constants too, so the theorems speak of behaviours of any length.

| Theorem | States |
|---|---|
| `CoreNetworkProofs!TypeCorrect` | `[]TypeOK`; the retry counter stays within -2 and the setting's bound |
| `CoreNetworkProofs!SocketAgreesHolds` | the public state agrees with the socket |
| `CoreNetworkProofs!CloseTimerOwnedHolds` | QUIT's time limit ends with its connection |
| `CoreNetworkProofs!QuitIsFinalHolds` | after a disconnect nothing brings the network back by itself |
| `CoreNetworkProofs!RestoreMatchesHolds` | what was up is restored, what the user has closed is not |
| `CoreNetworkProofs!AttemptsBoundedHolds` | left alone, the core dials no more often than the user allows |
| `CoreNetworkProofs!DialsRightHolds` | every dial is counted, leaves a failed server, and sends the password of the server it dialed |
| `NetworkQueueProofs!FloodBoundHolds` | burst plus ticks bounds what a connection has carried |
| `NetworkQueueProofs!RegistersFirstHolds` | no line left over from earlier precedes the registration |
| `NetworkQueueProofs!ImplementsFifoHolds` | bucket, queue and timer implement `LineFifo` |
| `NetworkQueueProofs!NoneSwallowedHolds` | no more of the user's answers are hidden than will be made up for |
| `EventManagerProofs!InOrderHolds` | each event once, in the order sent |
| `EventManagerProofs!OneWakeupHolds` | a wake-up is posted exactly when an event waits |
| `EventManagerProofs!StateBeforeTextHolds` | whoever keeps the state sees an event before whoever writes its text |
| `EventManagerProofs!PlainInPlaceHolds` | a message that is not redirected is stored in its buffer, in its order |
| `EventManagerProofs!FlushedWhenIdleHolds` | no message waits when no event does |
| `IrcStateProofs!TypeCorrect` | what a channel lists is known to the network |
| `IrcStateProofs!TwoWayHolds` | both sides of the membership agree |
| `IrcStateProofs!LinesAllowedHolds` | the next line of the server is one `IrcState` allows |
| `IrcStateProofs!ViewImplements` | the core fed by a server implements `IrcState` |
| `IrcStateProofs!ConvergedHolds` | with no line under way the core's picture is the server's truth |
| `IrcStateProofs!LeaversForgottenHolds` | who leaves the last common channel is forgotten at once |
| `IrcStateProofs!HeldBackOnlyHolds` | lists and truth differ by what a split holds back, and a timer runs for it |
| `IrcStateProofs!ModesKeptHolds` | no mode given during a split is lost by it |
| `SignalProxyProofs!TypeCorrect` | registries, values and calls keep their types |
| `SignalProxyProofs!RightObjectHolds` | a call reaches the object it was meant for or none |
| `SignalProxyProofs!SynchronizedHolds` | with nothing under way the client has the core's objects, names and values |
| `BufferSyncProofs!UnsavedIsDirtyHolds` | a position that is not on disk is marked to be written |
| `BufferSyncProofs!ShutdownKeeps` | an orderly restart keeps every position of a buffer that exists |
| `BufferSyncProofs!AgreedHolds` | with nothing under way all clients agree with the core |
| `BufferSyncProofs!GhostsPurgedHolds` | a position of a buffer that is gone is purged again |
| `BufferSyncProofs!SeenNeverBackHolds` | what was read stays read, in the core and in every client |
| `BacklogProofs!RowsInOrderHolds` | the rows of a client rise strictly, whatever brings a message first |
| `BacklogProofs!NoGapHolds` | between two rows of a buffer none of its messages is missing |
| `BacklogProofs!NothingStuckHolds` | what is kept back waits for an answer or an event that is still to come |
| `BacklogProofs!FetchEndsHolds` | a fetch that nothing under way will end has left nothing to fetch |
| `AttachProofs!StaysDetachedHolds` | a client the user detached has no connection and makes none |
| `AttachProofs!NetworksAgreeHolds` | an attached client that has read everything has the session's networks |
| `AttachProofs!AwayFollowsHolds` | the server comes to show the away message that was asked for last |

Two theorems have a hypothesis of their own.  `DialsRightHolds` assumes two servers or more,
taken in turn: with `useRandomServer` the second of two waiting connects moves the server
index under the dial of the first, and chance may pick the failed server again; with one
server there is no other.  `ConvergedHolds` assumes one member mode, because NAMES shows the
highest of several only: a core that joins later does not see the others.  Both hypotheses are
those of the run.  `AttemptsBounded` is checked by no run.

### 5.1 The arguments

* `CoreNetwork`.  `SocketAgrees` is not inductive alone: a handler that leaves the timers
  running, or a `quit` that leaves a dial, breaks it later.  The invariant is
  `TypeOK`, `Sound(net)` (the state agrees with the socket, `connected` implies an open socket,
  and so does the close timer) and "a requested quit is `Quiet`" (no budget, no reconnect
  timer, and a dial will be closed).  Since handlers call each other, there is a lemma per
  *handler* that says what it makes of a sound record, and the step lemma has one short
  step per action.  `quit = "requested"` must give way to `"overruled"` in
  `ProcessWelcome`; without this `QuitIsFinal` is false (section 6).
  `RestoreMatches` needs in addition that while a requested disconnect is under way with the
  flag still set, the socket is open, `_quitRequested` is set and no ping timer runs
  (`Leaving`): a ping timeout in that time would take the request back.  Again one lemma
  per handler.  `AttemptsBounded` and `DialsRight` need the account of dials (`Budgeted`: dials
  made and tries left are together at most the setting, unless the user or a 001 began anew) and
  that the server in use is the one dialed (`Aimed`).
* `SendQueue`.  `FloodBound` needs the bucket: while the connection is open,
  `Len(wire) + tokens <= Burst + ticks` with `tokens` in `0 .. Burst`.  Each write moves
  one from `tokens` to `wire`, each tick adds one to both sides.  `RegistersFirst` needs that the
  wire begins with the directly written part of the registration (`Headed`), which appending
  cannot change.  `ImplementsFifo` needs that the lines waiting are numbered upwards and all
  those left over stand in front, so that the selection of a connection's own lines is a suffix
  of the queue; and that the bucket, while lines wait, is so empty that a tick sends one.
* `AutoWho`.  The invariant (`Balance`) is an account by channel: the ends owed to the user and
  those the core still expects are together at most the core's queries under way.  Each
  query adds one to both sides, each answer takes one from one of the left-hand terms or
  from the right and one of them; a part or a kick only lowers the left side.
* `EventManager`.  The queue holds exactly the events `done + 1 .. sent` (`Holds`), and there is
  one wake-up if it is not empty.  This is an argument about sequences only: it does not look
  at which handlers run, so it holds for any registrations and any handlers.
  `StateBeforeText` is about one dispatch: the lists that `HandlersOf` gives keep the order of
  registration type by type, the pass over two or three types appends them, and a handler that
  is registered for two types is run for the first only.  That the session registers its objects
  in the right order is an assumption on the constant (`RegisteredInOrder`), which TLC
  evaluates for the table of `CoreSession`.
* `CoreSessionMessages`.  `FlushedWhenIdle`: a message waits only while an event is under way, and
  the dispatch that empties the queue flushes.  `PlainInPlace`: the messages received are those
  filed and those that wait (`FileInv`); a batch files each plain message once, at its place, and
  what the recheck adds is a redirected one or a copy of an earlier message.
* `IrcState`.  `Good(n)`: the record has its type, every listed user and channel is known, both
  sides agree.  One lemma per method and per line shows that it keeps `Good`.  `SetNick`
  needs that the new nick is on no channel, which is `LinesOf`'s restriction.
* `IrcView`.  The core's picture with the lines under way worked off is the server's truth
  (`ViewInv`): the pictures in between form a path (see 5.2), each one is `Good`, each line is
  allowed where it is, and the last picture mirrors the server.  A line the server adds leads from
  its old truth to its new one, so it extends the path; a line the core works off is its first step.
  `LinesAllowed`, `Converged` and `LeaversForgotten` are read off that path, and with the first of
  them a step of the core is a step of `IrcState` (`ViewImplements`; `Break` is its
  `SocketDisconnected`).
* `Netsplit`.  `HeldBackOnly` says that lists and truth differ by held-back users only; it does not
  say that a timer, when it fires, puts them right.  The invariant (`SplitInv`, parts of
  `SplitGood`) says while `calm` holds: the core knows the channels it is on and itself there
  (`Placed`); who is missing from a list is held back, and who is too many waits in the quits that
  were *not yet* announced (`ListsDiffer` - the quits announced before are in the list too, and
  `HeldBackOnly` does not tell them apart); a held-back user is a member the core still knows, is held
  back once per channel, and is not the core (`JoinsRight`), so that `HandleNetsplitJoin` drops
  nobody and takes no modes from a wrong place; at most one mode waits with a join, and whoever was
  given one has it, or has it waiting (`ModesRight`); a timer runs while anything waits; with no
  object there is nothing that waits (`Alive`).  There is one lemma per line, and for the three
  timers and the early join one about the fold that each of them is: `AllLetGo`, `AllShown` and
  their like say what is true of a record all of whose users, channels, or entries were gone
  through, in whatever order (5.2).  TLC checked `SplitInv` on the instance of the run
  before it was proved.  What `calm` excepts is not in the theorem: there the program is wrong
  (section 6).
* `SignalProxy`.  The calls under way lead from the objects and values the client knows to those of
  the core (`Follows`), again a path.  Before the manager's init data arrives the client knows
  *part* of its world, afterwards all of it (`Sees`); a call whose object is not in the client's part
  is ignored and loses nothing, because the init data comes later and is taken from the core's
  world at that place of the path.  Between the two calls of a rename a copy has its old name, so
  the invariant says that these calls are never parted (`Paired`) and lets the copy at the head of
  the wire be stale.  That names are not confused follows since no object has two names in any world
  of the path (`Cores`).  The init data was asked for, is coming, or has come (`ManagerComes`).
* `BufferSync`.  A dirty position is written only if it is valid (not 0), so the invariant has
  to say that no buffer in the database has lost its position in memory (`PositionsOK`), and
  therefore that a position is only ever set for an id the database has given out - which
  depends on what the clients know, and on every message under way (`ClientOK`, `WiresOK`).
  `ShutdownKeeps` follows from the same invariant.  For `Agreed`, `GhostsPurged` and `SeenNeverBack`
  there is, for each client and each buffer, a path of names, of last seen messages and of marker
  lines from what the client has to what the core has (`Fits`).  The marker line needs a weaker
  end, since clients move it before the core answers: the last word under way is the core's, or
  the client's own move is still on its way up.  A position without a buffer makes a message on
  which a client will ask for a purge, or a purge is already asked for or posted.  The initial data
  is asked for and sent once (`InitOnce`), and ids that were removed never come back
  (`RemovedGone`).
* `Backlog`.  All that a client knows are the rows, what waits to be inserted and what the requester
  keeps back (`Known`).  `RowsInOrder` needs that `_messageBuffer` is sorted, and
  that `insertMessagesGracefully` takes a group whose messages all belong at one place:
  between the row before the place of its newest message and that place (`GracefulIs`, from
  which everything else about insertions follows).  `NoGap` needs more than it says, since a part of a
  list may be inserted while the rest waits: with each message of the rows, of `_messageBuffer`,
  of the requester's and of every answer under way there are *all newer ones* of its buffer
  in the same place, or in the rows, or live and under way (`Gapless`).  For an answer this holds
  because `LIMIT` cuts off the oldest and because `Continues` lets the additional ones follow only
  without a hole.  Live messages are newer than all that was known or under way before
  them (`FreshInv`), which keeps them out of the gaps.  `NothingStuck` is nearly inductive; beside it,
  nothing waits in a requester that does not buffer.  `FetchEnds`: while a fetch is not over, its
  request is under way, or an answer that ends it or contains all there is, or the buffer's
  messages are all known or to come (`FetchInv`).  `torn` excepts what section 6 describes.
* `Attach`.  A client nobody wants attached has neither socket nor peer, and does not want to
  reconnect (`Gone`).  The reconnect timer *may* be running; it finds `_wantReconnect` unset.
  The proof has to follow `DisconnectFromCore` through its re-entry.  `NetworksAgree`: what is under
  way on the socket of a client makes of its networks those of the session (`Fed`), from the
  moment the core made it a peer.  It needs that no two clients have one socket, which is why
  `ConnectToCore` takes the *least* unused one; the choice of the number of a new socket means
  nothing to the program.
* `DetachAway`.  What was asked for last is always in one place (`KnownInv`): without a connection in
  the database, after QUIT there too, while commands are under way in the last of them, and else
  in the server.  In the last two cases the core's own copy, which a disconnect would store, agrees.
  Beside it `isAway()` is what the server has answered (`MirrorInv`).  001 is the step that needs
  all of it: the message goes from the database to the end of the line, behind whatever the
  queue has kept.

### 5.2 Paths instead of induction

What a sequence of messages makes of its receiver is a fold over that sequence.  The proofs do not
compute it.  They say that *there is* a function from `0 .. Len(d)` to states whose successive
values are one message apart, which begins with the receiver's state and ends with the sender's.
A message that is sent extends the function at the end, one that is received shortens it at
the front, and with an empty wire both ends are one state.  None of these steps needs induction.

Where a recursive function or a fold of the community modules is part of the model (`Since`, the
lists of handlers, `processMessages`, the sorting and grouping of messages), its table is taken apart with
the well-foundedness of the numbers: the least number at which a statement fails does not exist
(`WellFoundedInduction`, `NatLessThanWellFounded`), a set being given in place of the predicate.
A fold over a finite *set* (the users and channels of a split) is treated the same way by the size of
the set: the least set for which a fold does not do all its steps does not exist, whichever element
is taken first.

### 5.3 Only model-checked

The liveness properties, and nothing else: fairness and ENABLED are out of the prover's reach.  Every
invariant and every action property of the passing runs is also a theorem.

## 6. What was found

Two disagreements of the code with what the repository says of it, each shown by a run:

* `late_welcome` - a 001 that is processed after the user's disconnect clears the request and
  fills the retry budget again, so the close that answers QUIT is treated as a loss and the
  core reconnects (`core/corenetwork.cpp:318`, against the comment at line 186).
* `redirected_message` - the loop that looks up postponed messages indexes the wrong list: the
  first messages of the batch are stored twice, the redirected ones never
  (`core/coresession.cpp:313`, against lines 234 and 311).  TLC's shortest trace redirects a message
  of the user's own input, since `Receive` gives both kinds the same attributes; in the code the
  redirected messages of a batch come from events, and the same batch arises that way.

Defects that no comment or test speaks about, met while modelling.  Where a model marks them
as an escape, its name is given; without that escape TLC finds them.

* Event manager: `insertHandlers` finds the place a priority gives and then inserts at the end
  (`common/eventmanager.cpp:272`, against line 192).  The order of registration hides it, which
  `StateBeforeText` confirms for the present table.
* Lifecycle (`edits`): switching automatic reconnection off during an outage leaves the network
  in "Reconnecting", with no timer, until the user disconnects (`core/corenetwork.cpp:633`);
  `setNetworkInfo` applies the number of retries while it still sees the old "unlimited"
  (`common/network.cpp:119`); a ping timeout that is switched on while a quit closes the
  socket makes `socketDisconnected` forget the quit.  A restart of the core within the ten
  seconds in which QUIT waits for its answer still restores the network.
* Network state: `setConnected(false)` does nothing unless connected, so that users made before a
  001 that never comes survive the connection (`common/network.cpp:501`).
* Netsplit (`calm`): the six races of section 3.6.
* Signal proxy: an object renamed before the core has handled the client's first request for it
  is asked for by its old name twice and stays uninitialised (`common/signalproxy.cpp:435`).
* Buffers (`orphans`, `missed`): `destroyNetwork` asks the syncer to remove its buffers after the
  database has forgotten them, so their positions stay (`core/coresession.cpp:489`); a client
  misses removals and new names that come before it has a `BufferSyncer`
  (`client/client.cpp:317`).
* Backlog (`torn`): `MessageModel::clear` leaves `_messageBuffer`, so messages of one session
  appear in the next (`client/messagemodel.cpp:309`); `requestBacklogAll` adds read
  messages below a list its limit has cut off, without the test `requestBacklog` makes
  (`core/corebacklogmanager.cpp:89`).
* Attaching: a client that leaves between login and its addition to the session becomes a peer
  that nothing removes (`link = "dead"`, `core/core.cpp:703`); a link that falls silent during
  the handshake is noticed by neither side, since heartbeats start with the session -
  `LinkFallsSilent` is restricted to sessions.
* Being away (`intent = Unsure`): one who comes back before the server has answered AWAY stays
  away, since `isAway()` is still false, or the reverse (`core/coresession.cpp:521`, `:547`); a
  network that is not connected when the last client leaves is not set away once it is, and one
  that is not connected when the first comes is set away at 001 with the message stored before
  (`core/coresession.cpp:512`, `:537`, `core/corenetwork.cpp:452`); a connection that is lost without
  `disconnectFromIrc` brings back the message stored at an earlier disconnect, or none.
* Read in code that is not modelled: a timer per LIST query that nothing stops
  (`core/coreirclisthelper.cpp:81`); several replies to one CTCP query are packed by a reference
  to the string that is being built (`core/ctcpparser.cpp:252`).

## 7. What is not modelled

* Within modelled parts.  `CoreNetwork`: the TLS phase, the channels joined and modes set after
  001, an edited server list, removal of the network.  `EventManager`: event filters (the core
  registers none) and registrations that change.  `CoreSessionMessages`: several networks in one
  batch, matching of ignore rules (a rule may drop any message).  `IrcState`: topics, channel
  modes, away data, ISUPPORT, nicks that differ in case only, nick collisions at registration.
  `Netsplit`: the test whether a quit message is a split's, several splits, nick changes
  and `-o` during one.  `SignalProxy`: several peers at once (they are in `Attach` and
  `BufferSync`), the wire format, the delay with which a removed object is destroyed.
  `Attach`: TLS, rejected versions, the client inside a monolithic build, identities and
  certificates, other settings of an account than those in 3.11.  `DetachAway`: AWAY typed as a raw
  line or listed among the commands of 001, which the core does not recognise; 352, which repeats what
  305 and 306 have said, and 301 about oneself, which repeats the message as well and may put
  an older one back while a new AWAY is under way; several networks, which are independent but for the
  detach reason of one that serves for the next without its own (`core/coresession.cpp:549`);
  whether 306 is shown to the user; an identity that is removed.  `BufferSync`: temporarily hidden buffers.  `Backlog`: buffers merged or removed
  while their backlog is under way, rows that mark a new day.
* Pure translations: IRC parsing, texts of events, quoting of CTCP, user commands, ciphers.
  They keep no state; what they can get wrong is in their strings.
* The channel list helper: a protocol of its own with the server on which nothing depends.
* What happens in the database: SQL, its transactions and the migration of the schema, of which
  the models use the results.
* Records with setters only: identities, aliases, ignore lists, network configuration.
* User interfaces, item models of views, start-up code, settings files, build, and the
  libraries that come with the source.

By lines most of the repository is of the last kinds: two user interfaces, SQL, parsers and
formatting make up far more than half of it, and hold no protocol or shared state.  The share
of lines the models cover is small for that reason, and would not become larger by anything
worth checking with a model.
