------------------------------ MODULE CoreNetwork ------------------------------
(***************************************************************************)
(* The connection lifecycle of one IRC network in the Quassel core:        *)
(* CoreNetwork (core/corenetwork.cpp) together with the Qt 4 TCP socket it *)
(* owns.  It decides when the core connects, reconnects, gives up, pings   *)
(* and quits, and whether the network is connected again after a restart   *)
(* of the core.                                                            *)
(*                                                                         *)
(* The object and its socket are one record `net`: its handlers call each  *)
(* other synchronously (a closing socket calls socketDisconnected, which   *)
(* may call doAutoReconnect, which dials the socket again), so a handler   *)
(* is an operator from records to records and an action applies one.  The  *)
(* lines sent through the connection are the subject of SendQueue.         *)
(***************************************************************************)
EXTENDS Integers

CONSTANTS
  NServers,     \* serverList().size()
  MaxRetries,   \* bound on the autoReconnectRetries a client sets
  MaxPing,      \* networkConfig()->maxPingCount()
  MaxQueued,    \* bound on connectToIrc calls waiting in the event loop
  Random,       \* useRandomServer()
  Configs,      \* the reconnect settings clients may choose
  MaxEdits,     \* bound on edits by clients: of settings, the ping timeout, identities
  EnvEvents     \* which events of the surroundings may happen, see AllEnvEvents

Unlimited == -1   \* _autoReconnectCount: retry for ever, the next one at once
Delayed   == -2   \* _autoReconnectCount: retry for ever, the next one on the timer

ConnStates == {"Disconnected", "Connecting", "Initializing", "Initialized",
               "Reconnecting", "Disconnecting"}
SockStates == {"Unconnected", "Connecting", "Connected", "Closing"}
ServerIndex == 0 .. NServers - 1

\* useAutoReconnect, autoReconnectRetries, unlimitedReconnectRetries
ReconnectConfig == [use: BOOLEAN, retries: 0 .. MaxRetries, unlimited: BOOLEAN]

\* clients edit the reconnect settings, toggle the ping timeout, or remove
\* the identity; the core restarts; the server goes silent
AllEnvEvents == {"settings", "pingtoggle", "identity", "restart", "silence"}

ASSUME ConstantsAssumption ==
  /\ NServers \in Nat \ {0}
  /\ MaxRetries \in Nat
  /\ MaxPing \in Nat
  /\ MaxQueued \in Nat \ {0}
  /\ MaxEdits \in Nat
  /\ Random \in BOOLEAN
  /\ Configs \subseteq ReconnectConfig
  /\ EnvEvents \subseteq AllEnvEvents

VARIABLES
  net,        \* the CoreNetwork, its socket and its restore flag in the database
  cfg,        \* the reconnect settings of the network
  identity,   \* identityPtr() # 0
  pingOn,     \* networkConfig()->pingTimeoutEnabled()
  queued,     \* connectToIrc calls posted by requestConnect
  welcome,    \* a received 001 waits in the event manager's queue
  edits,      \* history: how many edits there were
  silent,     \* the server stopped answering without closing the connection
  quit        \* history: "requested" from a user's disconnect to the next
              \* connectToIrc(false); "overruled" once a late 001 or a restart
              \* of the core has cancelled that disconnect; otherwise "none"

vars == <<net, cfg, identity, pingOn, queued, welcome, silent, quit, edits>>

NetType ==
  [connState: ConnStates, connected: BOOLEAN, quitRequested: BOOLEAN,
   count: {Delayed, Unlimited} \cup 0 .. MaxRetries,
   reconnectTimer: BOOLEAN, closeTimer: BOOLEAN,
   pingTimer: BOOLEAN, pingCount: 0 .. MaxPing,
   attemptFailed: BOOLEAN, server: ServerIndex,
   sock: SockStates, pendingClose: BOOLEAN,
   dialed: ServerIndex,          \* the server the socket was last told to dial
   restore: BOOLEAN,             \* Core::setNetworkConnected, on disk
   tries: 0 .. MaxRetries + 1]   \* history: automatic dials since the last success

\* Every variable keeps its type; in particular the retry counter stays above
\* -2 and below the configured number of retries.
TypeOK ==
  /\ net \in NetType
  /\ cfg \in ReconnectConfig
  /\ identity \in BOOLEAN /\ pingOn \in BOOLEAN
  /\ queued \in 0 .. MaxQueued
  /\ welcome \in BOOLEAN /\ silent \in BOOLEAN
  /\ quit \in {"none", "requested", "overruled"}
  /\ edits \in 0 .. MaxEdits

-----------------------------------------------------------------------------
(* The Qt 4 socket, as far as CoreNetwork uses it. *)

\* stateChanged(s) reaches socketStateChanged before any other signal
SocketStateChanged(n, s) ==
  [n EXCEPT !.sock = s,
            !.connState = CASE s = "Unconnected" -> "Disconnected"
                            [] s = "Connecting"  -> "Connecting"
                            [] s = "Connected"   -> "Initializing"
                            [] s = "Closing"     -> "Disconnecting"]

\* connectToHost only warns unless the socket is unconnected
ConnectToHost(n) ==
  IF n.sock = "Unconnected"
  THEN SocketStateChanged([n EXCEPT !.pendingClose = FALSE, !.dialed = n.server],
                          "Connecting")
  ELSE n

-----------------------------------------------------------------------------
(* The handlers of CoreNetwork.  r is the result of qrand().                *)
(* An operator whose name has a suffix after an underscore is a faulty     *)
(* variant of the operator below it, which shows what a property catches.  *)

Retries == IF cfg.unlimited THEN Unlimited ELSE cfg.retries

\* the retry budget of a network that has just been initialized
Rearmed(n) == IF cfg.use THEN Retries ELSE n.count

NextServer_Stays(n, r) == IF Random THEN r ELSE n.server
NextServer_Cycles(n, r) == IF Random THEN r ELSE (n.server + 1) % NServers
NextServer(n, r) ==
  CASE Random -> r
    [] ~Random /\ n.attemptFailed -> (n.server + 1) % NServers
    [] OTHER -> n.server

\* history: dials made by the core itself
CountTry(n, reconnecting) ==
  CASE ~reconnecting -> 0
    [] reconnecting /\ n.sock = "Unconnected" /\ n.tries <= MaxRetries -> n.tries + 1
    [] OTHER -> n.tries

ConnectToIrc(n, reconnecting, r) ==
  LET armed == IF ~reconnecting /\ cfg.use /\ n.count = 0
               THEN [n EXCEPT !.count = Retries] ELSE n
  IN IF identity
     THEN ConnectToHost([armed EXCEPT !.server = NextServer(n, r), !.attemptFailed = FALSE,
                                      !.tries = CountTry(n, reconnecting)])
     ELSE armed

SpendRetry_Free(n) == [n EXCEPT !.count = IF @ = Unlimited THEN Delayed ELSE @]
SpendRetry(n) == [n EXCEPT !.count = IF @ > 0 \/ @ = Unlimited THEN @ - 1 ELSE @]

DoAutoReconnect_IfDisconnected(n, r) ==
  IF n.connState = "Disconnected" THEN ConnectToIrc(SpendRetry(n), TRUE, r) ELSE n
DoAutoReconnect(n, r) ==
  IF n.connState \in {"Disconnected", "Reconnecting"}
  THEN ConnectToIrc(SpendRetry(n), TRUE, r)
  ELSE n

StopTimers_AllButClose(n) == [n EXCEPT !.pingTimer = FALSE, !.pingCount = 0]
StopTimers(n) ==
  [n EXCEPT !.pingTimer = FALSE, !.pingCount = 0, !.closeTimer = FALSE]

StartReconnectTimer(n) == [n EXCEPT !.reconnectTimer = TRUE]

SocketDisconnected(n, r) ==
  LET m == [StopTimers(n) EXCEPT !.connected = FALSE]
      w == [m EXCEPT !.connState = "Reconnecting"]
  IN CASE n.quitRequested
            -> [m EXCEPT !.quitRequested = FALSE, !.connState = "Disconnected",
                         !.restore = FALSE]
       [] ~n.quitRequested /\ n.count # 0 /\ n.count \in {Unlimited, cfg.retries}
            -> DoAutoReconnect(w, r)
       [] ~n.quitRequested /\ n.count # 0 /\ n.count \notin {Unlimited, cfg.retries}
            -> StartReconnectTimer(w)
       [] OTHER -> m

\* The socket is gone: disconnected() follows stateChanged().
Disconnected(n, r) == SocketDisconnected(SocketStateChanged(n, "Unconnected"), r)

\* close() and disconnectFromHost(): a socket that is still dialing remembers
\* it; an open one closes at once if it has nothing left to write (flushed).
CloseSocket(n, flushed, r) ==
  CASE n.sock = "Unconnected" -> n
    [] n.sock = "Connecting"  -> [n EXCEPT !.pendingClose = TRUE]
    [] OTHER -> IF flushed THEN Disconnected(n, r) ELSE SocketStateChanged(n, "Closing")

\* the first lines of disconnectFromIrc
BeginQuit_KeepBudget(n, requested, withReconnect) ==
  [StopTimers(n) EXCEPT !.closeTimer = n.closeTimer, !.quitRequested = requested,
                        !.reconnectTimer = @ /\ withReconnect]
BeginQuit_NeverRequested(n, requested, withReconnect) ==
  [n EXCEPT !.reconnectTimer = @ /\ withReconnect,
            !.count = IF withReconnect THEN @ ELSE 0, !.pingTimer = FALSE]
BeginQuit(n, requested, withReconnect) ==
  [n EXCEPT !.quitRequested = requested,
            !.reconnectTimer = @ /\ withReconnect,
            !.count = IF withReconnect THEN @ ELSE 0,
            !.pingTimer = FALSE, !.pingCount = 0]

\* QUIT is sent, the server has 10 s to close the socket
AwaitServerClose_ForEver(n) == n
AwaitServerClose(n) == [n EXCEPT !.closeTimer = TRUE]

DisconnectFromIrc(n, requested, withReconnect, flushed, r) ==
  LET m == BeginQuit(n, requested, withReconnect)
  IN IF n.sock = "Connected" /\ (requested \/ withReconnect)
     THEN AwaitServerClose(m)
     ELSE SocketDisconnected(CloseSocket(m, flushed, r), r)

SocketError(n, remoteHostClosed, r) ==
  LET m == [n EXCEPT !.attemptFailed = TRUE]
  IN CASE n.quitRequested /\ remoteHostClosed -> n
       [] ~(n.quitRequested /\ remoteHostClosed) /\ n.sock \in {"Unconnected", "Connecting"}
            -> SocketDisconnected(m, r)
       [] OTHER -> m

\* without an identity to register with, the connection is given up
SocketInitialized(n, r) ==
  IF identity THEN n ELSE DisconnectFromIrc(n, TRUE, FALSE, FALSE, r)

NetworkInitialized(n) ==
  [n EXCEPT !.connState = "Initialized", !.connected = TRUE,
            !.quitRequested = FALSE, !.count = Rearmed(n),
            !.pingTimer = @ \/ pingOn, !.pingCount = 0,
            !.restore = TRUE, !.tries = 0]

SetMyNick_Unguarded(n) == NetworkInitialized(n)
SetMyNick(n) == IF n.connState = "Initializing" THEN NetworkInitialized(n) ELSE n

SendPing_NeverDrops(n, onTime, flushed, r) ==
  [n EXCEPT !.pingCount = IF @ < MaxPing THEN @ + 1 ELSE @]
SendPing(n, onTime, flushed, r) ==
  IF n.pingCount >= MaxPing /\ onTime
  THEN DisconnectFromIrc(n, FALSE, TRUE, flushed, r)
  ELSE [n EXCEPT !.pingCount = IF @ < MaxPing THEN @ + 1 ELSE @]  \* capped at MaxPing

EnablePingTimeout(n, enable) ==
  [n EXCEPT !.pingTimer = enable, !.pingCount = 0]

-----------------------------------------------------------------------------
(* What users and clients do. *)

\* Posted calls run before the event loop turns to sockets and timers again;
\* several of them wait only when their requests came in one read.
LoopIdle == queued = 0

\* history: a client edits the network, the configuration or the identities
Edit == edits < MaxEdits /\ edits' = edits + 1

RequestConnect ==
  /\ net.connState = "Disconnected"
  /\ queued < MaxQueued
  /\ queued' = queued + 1
  /\ UNCHANGED <<net, cfg, identity, pingOn, welcome, silent, quit, edits>>

\* the posted connectToIrc runs; it does not look at the state again
RunConnect(r) ==
  /\ queued > 0
  /\ queued' = queued - 1
  /\ net' = ConnectToIrc(net, FALSE, r)
  /\ quit' = "none"
  /\ UNCHANGED <<cfg, identity, pingOn, welcome, silent, edits>>

\* /quit, in any state
HandleQuit(flushed, r) ==
  /\ LoopIdle
  /\ net' = DisconnectFromIrc(net, TRUE, FALSE, flushed, r)
  /\ quit' = "requested"
  /\ UNCHANGED <<cfg, identity, pingOn, queued, welcome, silent, edits>>

\* the disconnect request of a client is a /quit, unless already disconnected
RequestDisconnect(flushed, r) ==
  /\ net.connState # "Disconnected"
  /\ HandleQuit(flushed, r)

\* setUseAutoReconnect, then setAutoReconnectRetries (which still sees the old
\* unlimitedReconnectRetries), then setUnlimitedReconnectRetries
SetNetworkInfo(info) ==
  /\ LoopIdle
  /\ "settings" \in EnvEvents /\ Edit
  /\ cfg' = info
  /\ net' = [net EXCEPT
               !.reconnectTimer = @ /\ (info.use \/ ~cfg.use),
               !.count = CASE info.retries = cfg.retries \/ @ = 0 -> @
                           [] info.retries # cfg.retries /\ @ # 0 /\ cfg.unlimited -> Unlimited
                           [] OTHER -> info.retries,
               !.tries = 0]
  /\ UNCHANGED <<identity, pingOn, queued, welcome, silent, quit>>

PingTimeoutEnabledSet(on) ==
  /\ LoopIdle
  /\ "pingtoggle" \in EnvEvents /\ Edit
  /\ pingOn' = on
  /\ net' = EnablePingTimeout(net, on)
  /\ UNCHANGED <<cfg, identity, queued, welcome, silent, quit>>

RemoveIdentity ==
  /\ LoopIdle
  /\ "identity" \in EnvEvents /\ Edit
  /\ identity' = ~identity
  /\ UNCHANGED <<net, cfg, pingOn, queued, welcome, silent, quit>>

-----------------------------------------------------------------------------
(* What the network and the server do. *)

\* stateChanged, connected(), then a close that was waiting for the connection
TcpConnected(r) ==
  /\ LoopIdle
  /\ net.sock = "Connecting"
  /\ LET up == SocketInitialized(SocketStateChanged(net, "Connected"), r)
     IN net' = IF net.pendingClose
               THEN CloseSocket([up EXCEPT !.pendingClose = FALSE], TRUE, r) ELSE up
  /\ silent' = FALSE
  /\ UNCHANGED <<cfg, identity, pingOn, queued, welcome, quit, edits>>

TcpFails(r) ==
  /\ LoopIdle
  /\ net.sock = "Connecting"
  /\ net' = SocketError(SocketStateChanged(net, "Unconnected"), FALSE, r)
  /\ UNCHANGED <<cfg, identity, pingOn, queued, welcome, silent, quit, edits>>

\* the connection is lost: error() comes while the socket is still open
ConnectionLost(remoteHostClosed, r) ==
  /\ LoopIdle
  /\ net.sock \in {"Connected", "Closing"}
  /\ ~(silent /\ remoteHostClosed)
  /\ net' = Disconnected(SocketError(net, remoteHostClosed, r), r)
  /\ UNCHANGED <<cfg, identity, pingOn, queued, welcome, silent, quit, edits>>

\* a closing socket has written its last bytes
SocketClosed(r) ==
  /\ LoopIdle
  /\ net.sock = "Closing"
  /\ net' = Disconnected(net, r)
  /\ UNCHANGED <<cfg, identity, pingOn, queued, welcome, silent, quit, edits>>

\* socketHasData: the line is queued as an event
ReceiveWelcome ==
  /\ LoopIdle
  /\ net.connState = "Initializing" /\ ~silent /\ ~welcome
  /\ welcome' = TRUE
  /\ UNCHANGED <<net, cfg, identity, pingOn, queued, silent, quit, edits>>

\* the 001 event is processed, whatever became of the connection it came from
ProcessWelcome ==
  /\ LoopIdle
  /\ welcome
  /\ welcome' = FALSE
  /\ net' = SetMyNick(net)
  /\ quit' = IF quit = "requested" /\ net.connState = "Initializing"
             THEN "overruled" ELSE quit
  /\ UNCHANGED <<cfg, identity, pingOn, queued, silent, edits>>

\* every parsed line shows that the server is alive
ResetPingTimeout ==
  /\ LoopIdle
  /\ net.sock = "Connected" /\ ~silent /\ net.pingCount > 0
  /\ net' = [net EXCEPT !.pingCount = 0]
  /\ UNCHANGED <<cfg, identity, pingOn, queued, welcome, silent, quit, edits>>

GoSilent ==
  /\ LoopIdle
  /\ "silence" \in EnvEvents
  /\ net.sock = "Connected"
  /\ silent' = TRUE
  /\ UNCHANGED <<net, cfg, identity, pingOn, queued, welcome, quit, edits>>

-----------------------------------------------------------------------------
(* Timers, and the restart of the core. *)

AutoReconnectTimeout(r) ==
  /\ LoopIdle
  /\ net.reconnectTimer
  /\ net' = DoAutoReconnect([net EXCEPT !.reconnectTimer = FALSE], r)
  /\ UNCHANGED <<cfg, identity, pingOn, queued, welcome, silent, quit, edits>>

SocketCloseTimeout(flushed, r) ==
  /\ LoopIdle
  /\ net.closeTimer
  /\ net' = CloseSocket([net EXCEPT !.closeTimer = FALSE], flushed, r)
  /\ UNCHANGED <<cfg, identity, pingOn, queued, welcome, silent, quit, edits>>

\* onTime: no more than one ping interval has passed since the last ping
PingTimeout(onTime, flushed, r) ==
  /\ LoopIdle
  /\ net.pingTimer
  /\ net' = SendPing(net, onTime, flushed, r)
  /\ UNCHANGED <<cfg, identity, pingOn, queued, welcome, silent, quit, edits>>

\* a CoreNetwork as constructed
Fresh(restore) ==
  [connState |-> "Disconnected", connected |-> FALSE, quitRequested |-> FALSE,
   count |-> 0, reconnectTimer |-> FALSE, closeTimer |-> FALSE,
   pingTimer |-> FALSE, pingCount |-> 0, attemptFailed |-> FALSE, server |-> 0,
   sock |-> "Unconnected", pendingClose |-> FALSE, dialed |-> 0,
   restore |-> restore, tries |-> 0]

\* shutdown or crash (a shutdown is no requested disconnect and leaves the
\* flag alone), then restoreSessionState
RestartCore(r) ==
  /\ LoopIdle
  /\ "restart" \in EnvEvents
  /\ net' = IF net.restore THEN ConnectToIrc(Fresh(TRUE), FALSE, r) ELSE Fresh(FALSE)
  /\ quit' = IF quit = "requested" /\ net.restore THEN "overruled" ELSE quit
  /\ queued' = 0 /\ welcome' = FALSE
  /\ UNCHANGED <<cfg, identity, pingOn, silent, edits>>

-----------------------------------------------------------------------------
Init ==
  /\ net = Fresh(FALSE)
  /\ cfg \in Configs
  /\ identity = TRUE
  /\ pingOn \in BOOLEAN
  /\ queued = 0
  /\ welcome = FALSE /\ silent = FALSE
  /\ quit = "none"
  /\ edits = 0

UserStep ==
  \/ RequestConnect
  \/ \E r \in ServerIndex, flushed \in BOOLEAN :
       RequestDisconnect(flushed, r) \/ HandleQuit(flushed, r)
  \/ \E info \in Configs : SetNetworkInfo(info)
  \/ \E on \in BOOLEAN : PingTimeoutEnabledSet(on)
  \/ RemoveIdentity
  \/ \E r \in ServerIndex : RestartCore(r)

ServerStep ==
  \/ \E r \in ServerIndex : TcpConnected(r) \/ TcpFails(r)
  \/ \E r \in ServerIndex, remote \in BOOLEAN : ConnectionLost(remote, r)
  \/ ReceiveWelcome
  \/ ResetPingTimeout
  \/ GoSilent

CoreStep ==
  \/ \E r \in ServerIndex : RunConnect(r) \/ AutoReconnectTimeout(r) \/ SocketClosed(r)
  \/ ProcessWelcome
  \/ \E r \in ServerIndex, flushed \in BOOLEAN : SocketCloseTimeout(flushed, r)
  \/ \E r \in ServerIndex, flushed, onTime \in BOOLEAN : PingTimeout(onTime, flushed, r)

Next == UserStep \/ ServerStep \/ CoreStep

Spec == Init /\ [][Next]_vars

(***************************************************************************)
(* The event loop runs posted calls, expired timers and socket closures;   *)
(* a dial ends, by a connection or by the operating system's timeout; a    *)
(* thread that is blocked now and then still gets pings out on time again  *)
(* and again.  Nothing is assumed of users or of the server.               *)
(***************************************************************************)
Fairness ==
  /\ WF_vars(\E r \in ServerIndex : RunConnect(r))
  /\ WF_vars(ProcessWelcome)
  /\ WF_vars(\E r \in ServerIndex : AutoReconnectTimeout(r))
  /\ WF_vars(\E r \in ServerIndex : SocketClosed(r))
  /\ WF_vars(\E r \in ServerIndex : TcpConnected(r) \/ TcpFails(r))
  /\ WF_vars(\E r \in ServerIndex, flushed \in BOOLEAN : SocketCloseTimeout(flushed, r))
  /\ WF_vars(\E r \in ServerIndex, flushed \in BOOLEAN : PingTimeout(TRUE, flushed, r))

FairSpec == Spec /\ Fairness

-----------------------------------------------------------------------------
(* Safety. *)

\* The public connection state never drifts from the socket: the network is
\* being initialized, or initialized, exactly while the socket is open, although
\* socketStateChanged, socketDisconnected and networkInitialized all write it
\* and socketDisconnected also runs by hand on sockets that are not closed yet.
SocketAgrees ==
  /\ net.connState \in {"Initializing", "Initialized"} <=> net.sock = "Connected"
  /\ net.connState = "Initialized" => net.connected
  /\ net.connected => net.sock \in {"Connected", "Closing"}

\* The ten second limit for an answer to QUIT dies with its connection: it can
\* never cut off a later connection of the same network.
CloseTimerOwned == net.closeTimer => net.sock \in {"Connected", "Closing"}

\* Once the user has disconnected, nothing is left that could bring the network
\* back by itself: no retry budget, no running timer, no dial that will be kept.
QuitIsFinal ==
  quit = "requested" =>
    /\ net.count = 0
    /\ ~net.reconnectTimer
    /\ net.sock = "Connecting" => net.pendingClose

\* The comment at corenetwork.cpp:186 says that a disconnect without reconnect
\* is "prohibiting auto reconnect": the budget stays 0 until the user connects.
DisconnectProhibitsReconnect == quit # "none" => net.count = 0

\* What is restored after a restart is what was up: an initialized network is flagged on
\* disk, and one the user has closed is not.  (A ping timeout that is switched on while a
\* quit closes the socket makes socketDisconnected forget the quit: hence edits = 0.)
RestoreMatches ==
  /\ net.connState = "Initialized" => net.restore
  /\ quit = "requested" /\ net.sock = "Unconnected" /\ edits = 0 => ~net.restore

\* After a loss the core dials at most autoReconnectRetries times on its own.
AttemptsBounded == edits = 0 /\ ~cfg.unlimited => net.tries <= cfg.retries

\* The password of usedServer() goes to the server that was dialed, although it is looked
\* up again only when the connection stands.
PasswordForDialedServer ==
  net.sock = "Connected" => net.server = net.dialed

\* The dial after a failed one goes to another server, unless the core was restarted in
\* between.
FailedServerSkipped ==
  [][net.attemptFailed /\ ~net'.attemptFailed /\ net'.sock = "Connecting"
       => net'.dialed # net.dialed \/ \E r \in ServerIndex : RestartCore(r)]_vars

\* Every dial of the core is the right one: no more of them than the user allows, never
\* the server that has just failed, and that server's own password.
DialsRight ==
  [](AttemptsBounded /\ PasswordForDialedServer) /\ FailedServerSkipped

-----------------------------------------------------------------------------
(* Liveness, under FairSpec, as long as clients leave the settings alone.  *)

\* A requested disconnect ends, whatever the server does, with a closed socket and the
\* network off the restore list.
QuitCompletes ==
  quit = "requested" ~>
    quit # "requested" \/ (net.sock = "Unconnected" /\ ~net.restore) \/ edits > 0

\* A network that waits to reconnect goes on to dial, or the user ends it.
ReconnectProgress ==
  net.connState = "Reconnecting" ~> net.connState # "Reconnecting" \/ edits > 0

\* A server that goes silent is dropped by the ping timeout.
DeadServerDropped ==
  (net.connState = "Initialized" /\ silent /\ pingOn)
    ~> (net.sock # "Connected" \/ edits > 0)
=============================================================================
