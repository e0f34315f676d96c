--------------------------- MODULE CoreNetworkProofs ---------------------------
(* Theorems about CoreNetwork, for every value of its constants. *)
EXTENDS CoreNetwork, TLAPS

\* What the handlers read besides the record they change.
Settings ==
  /\ cfg \in ReconnectConfig
  /\ identity \in BOOLEAN
  /\ pingOn \in BOOLEAN

-----------------------------------------------------------------------------
(* Every handler returns a record of NetType. *)

\* A reset counter is in its range, whatever the bounds.
LEMMA Zeros ==
  /\ 0 \in 0 .. MaxPing
  /\ 0 \in {Delayed, Unlimited} \cup 0 .. MaxRetries
  /\ 0 \in 0 .. MaxRetries + 1
BY ConstantsAssumption

\* socketStateChanged writes the socket's state and its image, nothing else.
LEMMA SocketStateChangedType ==
  ASSUME NEW n \in NetType, NEW s \in SockStates
  PROVE  SocketStateChanged(n, s) \in NetType
BY DEF SocketStateChanged, NetType, SockStates, ConnStates

\* connectToHost dials the server the network has chosen.
LEMMA ConnectToHostType ==
  ASSUME NEW n \in NetType
  PROVE  ConnectToHost(n) \in NetType
<1>1. [n EXCEPT !.pendingClose = FALSE, !.dialed = n.server] \in NetType
  BY DEF NetType
<1>2. QED
  BY <1>1, SocketStateChangedType DEF ConnectToHost, SockStates

\* The budget a client may configure fits the counter.
LEMMA RetriesType ==
  ASSUME Settings
  PROVE  Retries \in {Delayed, Unlimited} \cup 0 .. MaxRetries
BY DEF Settings, Retries, ReconnectConfig

\* connectToIrc keeps the type, with or without an identity.
LEMMA ConnectToIrcType ==
  ASSUME Settings, NEW n \in NetType, NEW reconnecting \in BOOLEAN, NEW r \in ServerIndex
  PROVE  ConnectToIrc(n, reconnecting, r) \in NetType
<1> DEFINE armed == IF ~reconnecting /\ cfg.use /\ n.count = 0
                    THEN [n EXCEPT !.count = Retries] ELSE n
<1>1. armed \in NetType
  BY RetriesType DEF NetType
<1>2. NextServer(n, r) \in ServerIndex
  BY ConstantsAssumption DEF NextServer, ServerIndex, NetType
<1>3. CountTry(n, reconnecting) \in 0 .. MaxRetries + 1
  BY ConstantsAssumption DEF CountTry, NetType
<1>4. [armed EXCEPT !.server = NextServer(n, r), !.attemptFailed = FALSE,
                    !.tries = CountTry(n, reconnecting)] \in NetType
  BY <1>1, <1>2, <1>3 DEF NetType
<1>5. QED
  BY <1>1, <1>4, ConnectToHostType DEF ConnectToIrc

\* doAutoReconnect spends one retry, and turns "at once" into "on the timer".
LEMMA DoAutoReconnectType ==
  ASSUME Settings, NEW n \in NetType, NEW r \in ServerIndex
  PROVE  DoAutoReconnect(n, r) \in NetType
<1>1. SpendRetry(n) \in NetType
  <2>1. (IF n.count > 0 \/ n.count = Unlimited THEN n.count - 1 ELSE n.count)
           \in {Delayed, Unlimited} \cup 0 .. MaxRetries
    BY ConstantsAssumption DEF NetType, Unlimited, Delayed
  <2>2. QED
    BY <2>1 DEF SpendRetry, NetType
<1>2. QED
  BY <1>1, ConnectToIrcType DEF DoAutoReconnect

\* socketDisconnected, through each of its four ends.
LEMMA SocketDisconnectedType ==
  ASSUME Settings, NEW n \in NetType, NEW r \in ServerIndex
  PROVE  SocketDisconnected(n, r) \in NetType
<1> DEFINE m == [StopTimers(n) EXCEPT !.connected = FALSE]
           w == [m EXCEPT !.connState = "Reconnecting"]
<1>1. StopTimers(n) \in NetType
  BY Zeros DEF StopTimers, NetType
<1>2. m \in NetType
  BY <1>1 DEF NetType
<1>3. w \in NetType
  BY <1>2 DEF NetType, ConnStates
<1>4. [m EXCEPT !.quitRequested = FALSE, !.connState = "Disconnected", !.restore = FALSE]
        \in NetType
  BY <1>2 DEF NetType, ConnStates
<1>5. StartReconnectTimer(w) \in NetType
  BY <1>3 DEF StartReconnectTimer, NetType
<1>6. DoAutoReconnect(w, r) \in NetType
  BY <1>3, DoAutoReconnectType
<1>7. QED
  BY <1>2, <1>4, <1>5, <1>6 DEF SocketDisconnected

\* The socket's own close, in every state of the socket.
LEMMA CloseSocketType ==
  ASSUME Settings, NEW n \in NetType, NEW flushed \in BOOLEAN, NEW r \in ServerIndex
  PROVE  /\ Disconnected(n, r) \in NetType
         /\ CloseSocket(n, flushed, r) \in NetType
<1>1. Disconnected(n, r) \in NetType
  BY SocketStateChangedType, SocketDisconnectedType DEF Disconnected, SockStates
<1>2. [n EXCEPT !.pendingClose = TRUE] \in NetType
  BY DEF NetType
<1>3. SocketStateChanged(n, "Closing") \in NetType
  BY SocketStateChangedType DEF SockStates
<1>4. QED
  BY <1>1, <1>2, <1>3 DEF CloseSocket

\* disconnectFromIrc, for every reason to disconnect.
LEMMA BeginQuitType ==
  ASSUME NEW n \in NetType, NEW requested \in BOOLEAN, NEW withReconnect \in BOOLEAN
  PROVE  BeginQuit(n, requested, withReconnect) \in NetType
<1> DEFINE timer == n.reconnectTimer /\ withReconnect
           count == IF withReconnect THEN n.count ELSE 0
<1>1. timer \in BOOLEAN
  BY DEF NetType
<1>2. count \in {Delayed, Unlimited} \cup 0 .. MaxRetries
  BY Zeros DEF NetType
<1>3. BeginQuit(n, requested, withReconnect) =
        [n EXCEPT !.quitRequested = requested, !.reconnectTimer = timer, !.count = count,
                  !.pingTimer = FALSE, !.pingCount = 0]
  BY DEF BeginQuit
<1> HIDE DEF timer, count
<1>4. QED
  BY <1>1, <1>2, <1>3, Zeros DEF NetType

LEMMA DisconnectFromIrcType ==
  ASSUME Settings, NEW n \in NetType, NEW requested \in BOOLEAN,
         NEW withReconnect \in BOOLEAN, NEW flushed \in BOOLEAN, NEW r \in ServerIndex
  PROVE  DisconnectFromIrc(n, requested, withReconnect, flushed, r) \in NetType
<1> DEFINE m == BeginQuit(n, requested, withReconnect)
<1>1. m \in NetType
  BY BeginQuitType
<1>2. AwaitServerClose(m) \in NetType
  BY <1>1 DEF AwaitServerClose, NetType
<1>3. SocketDisconnected(CloseSocket(m, flushed, r), r) \in NetType
  BY <1>1, CloseSocketType, SocketDisconnectedType
<1>4. QED
  BY <1>2, <1>3 DEF DisconnectFromIrc

\* socketError and socketInitialized.
LEMMA SocketErrorType ==
  ASSUME Settings, NEW n \in NetType, NEW remote \in BOOLEAN, NEW r \in ServerIndex
  PROVE  /\ SocketError(n, remote, r) \in NetType
         /\ SocketInitialized(n, r) \in NetType
<1>1. [n EXCEPT !.attemptFailed = TRUE] \in NetType
  BY DEF NetType
<1>2. SocketError(n, remote, r) \in NetType
  BY <1>1, SocketDisconnectedType DEF SocketError
<1>3. QED
  BY <1>2, DisconnectFromIrcType DEF SocketInitialized

\* networkInitialized and the ping handlers.
LEMMA SetMyNickType ==
  ASSUME Settings, NEW n \in NetType
  PROVE  SetMyNick(n) \in NetType
<1>1. Rearmed(n) \in {Delayed, Unlimited} \cup 0 .. MaxRetries
  BY RetriesType DEF Rearmed, NetType
<1>2. NetworkInitialized(n) \in NetType
  BY <1>1, Zeros DEF NetworkInitialized, NetType, ConnStates, Settings
<1>3. QED
  BY <1>2 DEF SetMyNick

LEMMA SendPingType ==
  ASSUME Settings, NEW n \in NetType, NEW onTime \in BOOLEAN,
         NEW flushed \in BOOLEAN, NEW r \in ServerIndex
  PROVE  SendPing(n, onTime, flushed, r) \in NetType
<1>1. [n EXCEPT !.pingCount = IF @ < MaxPing THEN @ + 1 ELSE @] \in NetType
  BY ConstantsAssumption DEF NetType
<1>2. QED
  BY <1>1, DisconnectFromIrcType DEF SendPing

\* The record SetNetworkInfo and PingTimeoutEnabledSet leave behind, and the
\* record of a restarted core.
LEMMA SetNetworkInfoType ==
  ASSUME Settings, net \in NetType, NEW info \in Configs, SetNetworkInfo(info)
  PROVE  net' \in NetType
<1> DEFINE timer == net.reconnectTimer /\ (info.use \/ ~cfg.use)
           count == CASE info.retries = cfg.retries \/ net.count = 0 -> net.count
                      [] info.retries # cfg.retries /\ net.count # 0 /\ cfg.unlimited
                           -> Unlimited
                      [] OTHER -> info.retries
<1>1. info \in ReconnectConfig
  BY ConstantsAssumption
<1>2. timer \in BOOLEAN
  BY <1>1 DEF NetType, Settings, ReconnectConfig
<1>3. count \in {Delayed, Unlimited} \cup 0 .. MaxRetries
  BY <1>1 DEF NetType, ReconnectConfig
<1>4. net' = [net EXCEPT !.reconnectTimer = timer, !.count = count, !.tries = 0]
  BY DEF SetNetworkInfo
<1> HIDE DEF timer, count
<1>5. QED
  BY <1>2, <1>3, <1>4, Zeros DEF NetType

LEMMA FreshType ==
  ASSUME NEW restore \in BOOLEAN
  PROVE  Fresh(restore) \in NetType
<1>1. 0 \in ServerIndex
  BY ConstantsAssumption DEF ServerIndex
<1>2. QED
  BY <1>1, Zeros DEF Fresh, NetType, ConnStates, SockStates

-----------------------------------------------------------------------------
(* Type correctness. *)

\* An edit is counted within its bound.
LEMMA EditType == edits \in 0 .. MaxEdits /\ Edit => edits' \in 0 .. MaxEdits
BY ConstantsAssumption DEF Edit

\* Every step keeps every variable in its type.
LEMMA TypeStep == TypeOK /\ [Next]_vars => TypeOK'
<1> SUFFICES ASSUME TypeOK, [Next]_vars
             PROVE  TypeOK'
  OBVIOUS
<1>0. Settings /\ net \in NetType
  BY DEF TypeOK, Settings
<1>1. CASE RequestConnect
  BY <1>1, ConstantsAssumption DEF RequestConnect, TypeOK
<1>2. ASSUME NEW r \in ServerIndex, RunConnect(r)
      PROVE  TypeOK'
  <2>1. net' \in NetType
    BY <1>0, <1>2, ConnectToIrcType DEF RunConnect
  <2>2. queued' \in 0 .. MaxQueued
    BY <1>2, ConstantsAssumption DEF RunConnect, TypeOK
  <2>3. QED
    BY <1>2, <2>1, <2>2 DEF RunConnect, TypeOK
<1>3. ASSUME NEW r \in ServerIndex, NEW flushed \in BOOLEAN, HandleQuit(flushed, r)
      PROVE  TypeOK'
  <2>1. net' \in NetType
    BY <1>0, <1>3, DisconnectFromIrcType DEF HandleQuit
  <2>2. QED
    BY <1>3, <2>1 DEF HandleQuit, TypeOK
<1>4. ASSUME NEW info \in Configs, SetNetworkInfo(info)
      PROVE  TypeOK'
  <2>1. net' \in NetType
    BY <1>0, <1>4, SetNetworkInfoType
  <2>2. cfg' \in ReconnectConfig
    BY <1>4, ConstantsAssumption DEF SetNetworkInfo
  <2>3. edits' \in 0 .. MaxEdits
    BY <1>4, EditType DEF SetNetworkInfo, TypeOK
  <2>4. QED
    BY <1>4, <2>1, <2>2, <2>3 DEF SetNetworkInfo, TypeOK
<1>5. ASSUME NEW on \in BOOLEAN, PingTimeoutEnabledSet(on)
      PROVE  TypeOK'
  <2>1. net' \in NetType
    BY <1>0, <1>5, Zeros DEF PingTimeoutEnabledSet, EnablePingTimeout, NetType
  <2>2. edits' \in 0 .. MaxEdits
    BY <1>5, EditType DEF PingTimeoutEnabledSet, TypeOK
  <2>3. QED
    BY <1>5, <2>1, <2>2 DEF PingTimeoutEnabledSet, TypeOK
<1>6. CASE RemoveIdentity
  <2>1. edits' \in 0 .. MaxEdits
    BY <1>6, EditType DEF RemoveIdentity, TypeOK
  <2>2. QED
    BY <1>6, <2>1 DEF RemoveIdentity, TypeOK
<1>7. ASSUME NEW r \in ServerIndex, RestartCore(r)
      PROVE  TypeOK'
  <2>1. net' \in NetType
    BY <1>0, <1>7, FreshType, ConnectToIrcType DEF RestartCore
  <2>2. queued' \in 0 .. MaxQueued
    BY <1>7, ConstantsAssumption DEF RestartCore
  <2>3. QED
    BY <1>7, <2>1, <2>2 DEF RestartCore, TypeOK
<1>8. ASSUME NEW r \in ServerIndex, TcpConnected(r)
      PROVE  TypeOK'
  <2> DEFINE up == SocketInitialized(SocketStateChanged(net, "Connected"), r)
  <2>1. SocketStateChanged(net, "Connected") \in NetType
    BY <1>0, SocketStateChangedType DEF SockStates
  <2>2. up \in NetType
    BY <1>0, <2>1, SocketErrorType
  <2>3. [up EXCEPT !.pendingClose = FALSE] \in NetType
    BY <2>2 DEF NetType
  <2>4. net' \in NetType
    BY <1>0, <1>8, <2>2, <2>3, CloseSocketType DEF TcpConnected
  <2>5. QED
    BY <1>8, <2>4 DEF TcpConnected, TypeOK
<1>9. ASSUME NEW r \in ServerIndex, TcpFails(r)
      PROVE  TypeOK'
  <2>1. SocketStateChanged(net, "Unconnected") \in NetType
    BY <1>0, SocketStateChangedType DEF SockStates
  <2>2. net' \in NetType
    BY <1>0, <1>9, <2>1, SocketErrorType DEF TcpFails
  <2>3. QED
    BY <1>9, <2>2 DEF TcpFails, TypeOK
<1>10. ASSUME NEW r \in ServerIndex, NEW remote \in BOOLEAN, ConnectionLost(remote, r)
       PROVE  TypeOK'
  <2>1. net' \in NetType
    BY <1>0, <1>10, SocketErrorType, CloseSocketType DEF ConnectionLost
  <2>2. QED
    BY <1>10, <2>1 DEF ConnectionLost, TypeOK
<1>11. ASSUME NEW r \in ServerIndex, SocketClosed(r)
       PROVE  TypeOK'
  <2>1. net' \in NetType
    BY <1>0, <1>11, CloseSocketType DEF SocketClosed
  <2>2. QED
    BY <1>11, <2>1 DEF SocketClosed, TypeOK
<1>12. CASE ReceiveWelcome
  BY <1>12 DEF ReceiveWelcome, TypeOK
<1>13. CASE ProcessWelcome
  <2>1. net' \in NetType
    BY <1>0, <1>13, SetMyNickType DEF ProcessWelcome
  <2>2. QED
    BY <1>13, <2>1 DEF ProcessWelcome, TypeOK
<1>14. CASE ResetPingTimeout
  <2>1. net' \in NetType
    BY <1>0, <1>14, Zeros DEF ResetPingTimeout, NetType
  <2>2. QED
    BY <1>14, <2>1 DEF ResetPingTimeout, TypeOK
<1>15. CASE GoSilent
  BY <1>15 DEF GoSilent, TypeOK
<1>16. ASSUME NEW r \in ServerIndex, AutoReconnectTimeout(r)
       PROVE  TypeOK'
  <2>1. [net EXCEPT !.reconnectTimer = FALSE] \in NetType
    BY <1>0 DEF NetType
  <2>2. net' \in NetType
    BY <1>0, <1>16, <2>1, DoAutoReconnectType DEF AutoReconnectTimeout
  <2>3. QED
    BY <1>16, <2>2 DEF AutoReconnectTimeout, TypeOK
<1>17. ASSUME NEW r \in ServerIndex, NEW flushed \in BOOLEAN, SocketCloseTimeout(flushed, r)
       PROVE  TypeOK'
  <2>1. [net EXCEPT !.closeTimer = FALSE] \in NetType
    BY <1>0 DEF NetType
  <2>2. net' \in NetType
    BY <1>0, <1>17, <2>1, CloseSocketType DEF SocketCloseTimeout
  <2>3. QED
    BY <1>17, <2>2 DEF SocketCloseTimeout, TypeOK
<1>18. ASSUME NEW r \in ServerIndex, NEW flushed \in BOOLEAN, NEW onTime \in BOOLEAN,
              PingTimeout(onTime, flushed, r)
       PROVE  TypeOK'
  <2>1. net' \in NetType
    BY <1>0, <1>18, SendPingType DEF PingTimeout
  <2>2. QED
    BY <1>18, <2>1 DEF PingTimeout, TypeOK
<1>19. CASE UNCHANGED vars
  BY <1>19 DEF vars, TypeOK
<1>20. QED
  BY <1>1, <1>2, <1>3, <1>4, <1>5, <1>6, <1>7, <1>8, <1>9, <1>10, <1>11, <1>12, <1>13,
     <1>14, <1>15, <1>16, <1>17, <1>18, <1>19
     DEF Next, UserStep, ServerStep, CoreStep, RequestDisconnect

LEMMA InitType == Init => TypeOK
<1>1. Fresh(FALSE) \in NetType
  BY FreshType
<1>2. 0 \in 0 .. MaxQueued /\ 0 \in 0 .. MaxEdits
  BY ConstantsAssumption
<1>3. QED
  BY <1>1, <1>2, ConstantsAssumption DEF Init, TypeOK

\* The connection state, the socket, the timers and the retry counter keep
\* their types in every behaviour of the network.
THEOREM TypeCorrect == Spec => []TypeOK
BY InitType, TypeStep, PTL DEF Spec
-----------------------------------------------------------------------------
(* Safety.  The invariant is about one record at a time, so the handlers are *)
(* shown to keep it as they are shown to keep the type.                      *)

\* SocketAgrees and CloseTimerOwned, of a record between two handlers.
Sound(n) ==
  /\ n.connState \in {"Initializing", "Initialized"} <=> n.sock = "Connected"
  /\ n.connState = "Initialized" => n.connected
  /\ n.connected => n.sock \in {"Connected", "Closing"}
  /\ n.closeTimer => n.sock \in {"Connected", "Closing"}

\* The conclusion of QuitIsFinal: nothing brings the network back by itself.
Idle(n) == n.count = 0 /\ ~n.reconnectTimer
Quiet(n) == Idle(n) /\ (n.sock = "Connecting" => n.pendingClose)

\* A dial starts from a closed socket, which carries no close timer.
LEMMA ConnectToIrcSound ==
  ASSUME Settings, NEW n \in NetType, NEW reconnecting \in BOOLEAN, NEW r \in ServerIndex,
         Sound(n)
  PROVE  /\ Sound(ConnectToIrc(n, reconnecting, r))
         /\ n.sock # "Connected" => ConnectToIrc(n, reconnecting, r).sock # "Connected"
<1> DEFINE armed == IF ~reconnecting /\ cfg.use /\ n.count = 0
                    THEN [n EXCEPT !.count = Retries] ELSE n
           ready == [armed EXCEPT !.server = NextServer(n, r), !.attemptFailed = FALSE,
                                  !.tries = CountTry(n, reconnecting)]
<1>1. /\ armed.connState = n.connState /\ armed.sock = n.sock
      /\ armed.connected = n.connected /\ armed.closeTimer = n.closeTimer
  BY DEF NetType
<1>2. /\ ready.connState = n.connState /\ ready.sock = n.sock
      /\ ready.connected = n.connected /\ ready.closeTimer = n.closeTimer
  BY <1>1 DEF NetType
<1>3. armed \in NetType
  BY RetriesType DEF NetType
<1>4. /\ Sound(ConnectToHost(ready))
      /\ n.sock # "Connected" => ConnectToHost(ready).sock # "Connected"
  BY <1>2, <1>3 DEF ConnectToHost, SocketStateChanged, Sound, NetType
<1>5. Sound(armed)
  BY <1>1 DEF Sound
<1>6. QED
  BY <1>1, <1>4, <1>5 DEF ConnectToIrc
\* A dial of the core itself spends the budget; there is none to spend when it
\* is 0, so it does not happen.
LEMMA DoAutoReconnectSound ==
  ASSUME Settings, NEW n \in NetType, NEW r \in ServerIndex, Sound(n)
  PROVE  /\ Sound(DoAutoReconnect(n, r))
         /\ n.sock # "Connected" => DoAutoReconnect(n, r).sock # "Connected"
<1>1. SpendRetry(n) \in NetType
  <2>1. (IF n.count > 0 \/ n.count = Unlimited THEN n.count - 1 ELSE n.count)
           \in {Delayed, Unlimited} \cup 0 .. MaxRetries
    BY ConstantsAssumption DEF NetType, Unlimited, Delayed
  <2>2. QED
    BY <2>1 DEF SpendRetry, NetType
<1>2. Sound(SpendRetry(n)) /\ SpendRetry(n).sock = n.sock
  BY DEF SpendRetry, Sound, NetType
<1>3. QED
  BY <1>1, <1>2, ConnectToIrcSound DEF DoAutoReconnect

\* socketDisconnected runs only when the socket is not open; it takes the
\* timers down and leaves a network without a budget alone.
LEMMA SocketDisconnectedSound ==
  ASSUME Settings, NEW n \in NetType, NEW r \in ServerIndex,
         n.sock # "Connected", n.connState \notin {"Initializing", "Initialized"}
  PROVE  /\ Sound(SocketDisconnected(n, r))
         /\ SocketDisconnected(n, r).sock # "Connected"
         /\ Quiet(n) => Quiet(SocketDisconnected(n, r))
<1> DEFINE m == [StopTimers(n) EXCEPT !.connected = FALSE]
           w == [m EXCEPT !.connState = "Reconnecting"]
           q == [m EXCEPT !.quitRequested = FALSE, !.connState = "Disconnected",
                          !.restore = FALSE]
<1>1. m = [n EXCEPT !.pingTimer = FALSE, !.pingCount = 0, !.closeTimer = FALSE,
                    !.connected = FALSE]
  BY DEF StopTimers
<1>2. /\ m.sock = n.sock /\ m.connState = n.connState /\ ~m.connected /\ ~m.closeTimer
      /\ m.count = n.count /\ m.reconnectTimer = n.reconnectTimer
      /\ m.pendingClose = n.pendingClose
  BY <1>1 DEF NetType
<1>3. m \in NetType
  BY <1>1, Zeros DEF NetType
<1>4. w \in NetType
  BY <1>3 DEF NetType, ConnStates
<1>5. /\ Sound(m) /\ Sound(w) /\ Sound(q) /\ Sound(StartReconnectTimer(w))
      /\ m.sock = n.sock /\ w.sock = n.sock /\ q.sock = n.sock
      /\ StartReconnectTimer(w).sock = n.sock
  BY <1>2, <1>3 DEF Sound, NetType, StartReconnectTimer
<1>6. Sound(DoAutoReconnect(w, r)) /\ DoAutoReconnect(w, r).sock # "Connected"
  BY <1>4, <1>5, DoAutoReconnectSound
<1>7. Quiet(n) => Quiet(m) /\ Quiet(q)
  BY <1>2, <1>3 DEF Quiet, Idle, NetType
<1>8. Quiet(n) => n.count = 0
  BY DEF Quiet, Idle
<1>9. QED
  BY <1>5, <1>6, <1>7, <1>8 DEF SocketDisconnected

\* Closing leaves no open socket behind, and no dial that is kept once the
\* budget and the timer are gone.
LEMMA CloseSocketSound ==
  ASSUME Settings, NEW n \in NetType, NEW flushed \in BOOLEAN, NEW r \in ServerIndex,
         Sound(n)
  PROVE  /\ Sound(Disconnected(n, r))
         /\ Idle(n) => Quiet(Disconnected(n, r))
         /\ Sound(CloseSocket(n, flushed, r))
         /\ Idle(n) => Quiet(CloseSocket(n, flushed, r))
         /\ CloseSocket(n, flushed, r).sock # "Connected"
<1> DEFINE gone    == SocketStateChanged(n, "Unconnected")
           pending == [n EXCEPT !.pendingClose = TRUE]
           closing == SocketStateChanged(n, "Closing")
<1>1. gone \in NetType
  BY SocketStateChangedType DEF SockStates
<1>2. gone.sock = "Unconnected" /\ gone.connState = "Disconnected"
  BY DEF SocketStateChanged, NetType
<1>3. Idle(n) => Quiet(gone)
  BY DEF SocketStateChanged, Quiet, Idle, NetType
<1>4. /\ Sound(Disconnected(n, r))
      /\ Idle(n) => Quiet(Disconnected(n, r))
      /\ Disconnected(n, r).sock # "Connected"
  BY <1>1, <1>2, <1>3, SocketDisconnectedSound DEF Disconnected
<1>5. Sound(pending) /\ (Idle(n) => Quiet(pending)) /\ pending.sock = n.sock
  BY DEF Sound, Quiet, Idle, NetType
<1>6. n.sock \in {"Connected", "Closing"} =>
        Sound(closing) /\ (Idle(n) => Quiet(closing)) /\ closing.sock # "Connected"
  BY DEF SocketStateChanged, Sound, Quiet, Idle, NetType
<1>7. n.sock \in SockStates
  BY DEF NetType
<1>8. n.sock = "Unconnected" /\ Idle(n) => Quiet(n)
  BY DEF Quiet
<1>9. QED
  BY <1>4, <1>5, <1>6, <1>7, <1>8 DEF CloseSocket, SockStates

\* disconnectFromIrc without reconnect always ends all plans to come back; with
\* reconnect it makes none on a network that has none.
LEMMA DisconnectFromIrcSound ==
  ASSUME Settings, NEW n \in NetType, NEW requested \in BOOLEAN,
         NEW withReconnect \in BOOLEAN, NEW flushed \in BOOLEAN, NEW r \in ServerIndex,
         Sound(n)
  PROVE  /\ Sound(DisconnectFromIrc(n, requested, withReconnect, flushed, r))
         /\ ~withReconnect \/ Idle(n) =>
              Quiet(DisconnectFromIrc(n, requested, withReconnect, flushed, r))
<1> DEFINE m == BeginQuit(n, requested, withReconnect)
           c == CloseSocket(m, flushed, r)
<1>1. m \in NetType
  BY BeginQuitType
<1>2. Sound(m) /\ m.sock = n.sock /\ (~withReconnect \/ Idle(n) => Idle(m))
  BY DEF BeginQuit, Sound, Idle, NetType
<1>3. n.sock = "Connected" =>
        Sound(AwaitServerClose(m)) /\ (Idle(m) => Quiet(AwaitServerClose(m)))
  BY <1>1, <1>2 DEF AwaitServerClose, Sound, Quiet, Idle, NetType
<1>4. c \in NetType /\ Sound(c) /\ (Idle(m) => Quiet(c)) /\ c.sock # "Connected"
  BY <1>1, <1>2, CloseSocketType, CloseSocketSound
<1>5. c.connState \notin {"Initializing", "Initialized"}
  BY <1>4 DEF Sound
<1>6. Sound(SocketDisconnected(c, r)) /\ (Idle(m) => Quiet(SocketDisconnected(c, r)))
  BY <1>4, <1>5, SocketDisconnectedSound
<1>7. QED
  BY <1>2, <1>3, <1>6 DEF DisconnectFromIrc

\* socketError and socketInitialized make no plans to come back either.
LEMMA SocketErrorSound ==
  ASSUME Settings, NEW n \in NetType, NEW remote \in BOOLEAN, NEW r \in ServerIndex,
         Sound(n)
  PROVE  /\ Sound(SocketError(n, remote, r))
         /\ Quiet(n) => Quiet(SocketError(n, remote, r))
         /\ Sound(SocketInitialized(n, r))
         /\ Quiet(n) => Quiet(SocketInitialized(n, r))
<1> DEFINE m == [n EXCEPT !.attemptFailed = TRUE]
<1>1. m \in NetType /\ Sound(m) /\ (Quiet(n) => Quiet(m))
  BY DEF NetType, Sound, Quiet, Idle
<1>2. m.sock = n.sock /\ m.connState = n.connState
  BY DEF NetType
<1>3. n.sock \in {"Unconnected", "Connecting"} =>
        /\ Sound(SocketDisconnected(m, r))
        /\ Quiet(n) => Quiet(SocketDisconnected(m, r))
  BY <1>1, <1>2, SocketDisconnectedSound DEF Sound
<1>4. Sound(SocketError(n, remote, r)) /\ (Quiet(n) => Quiet(SocketError(n, remote, r)))
  BY <1>1, <1>3 DEF SocketError
<1>5. /\ Sound(DisconnectFromIrc(n, TRUE, FALSE, FALSE, r))
      /\ Quiet(DisconnectFromIrc(n, TRUE, FALSE, FALSE, r))
  BY DisconnectFromIrcSound
<1>6. QED
  BY <1>4, <1>5 DEF SocketInitialized
\* The rest of the handlers: a 001 or a ping changes no socket state.
LEMMA SetMyNickSound ==
  ASSUME NEW n \in NetType, Sound(n)
  PROVE  Sound(SetMyNick(n))
BY DEF SetMyNick, NetworkInitialized, Sound, NetType

LEMMA SendPingSound ==
  ASSUME Settings, NEW n \in NetType, NEW onTime \in BOOLEAN,
         NEW flushed \in BOOLEAN, NEW r \in ServerIndex, Sound(n)
  PROVE  /\ Sound(SendPing(n, onTime, flushed, r))
         /\ Quiet(n) => Quiet(SendPing(n, onTime, flushed, r))
<1> DEFINE m == [n EXCEPT !.pingCount = IF @ < MaxPing THEN @ + 1 ELSE @]
           d == DisconnectFromIrc(n, FALSE, TRUE, flushed, r)
<1>1. Sound(m) /\ (Quiet(n) => Quiet(m))
  BY DEF Sound, Quiet, Idle, NetType
<1>2. Sound(d) /\ (Quiet(n) => Quiet(d))
  BY DisconnectFromIrcSound DEF Quiet
<1>3. QED
  BY <1>1, <1>2 DEF SendPing

-----------------------------------------------------------------------------
(* The inductive invariant: types, the record's soundness, and quiet after a *)
(* requested disconnect.  Quiet alone is not inductive: that a closed socket *)
(* stays closed needs the agreement of connection state and socket.          *)

IInv == TypeOK /\ Sound(net) /\ (quit = "requested" => Quiet(net))

\* Every step keeps the invariant.
LEMMA InvStep == IInv /\ [Next]_vars => IInv'
<1> SUFFICES ASSUME IInv, [Next]_vars
             PROVE  Sound(net') /\ (quit' = "requested" => Quiet(net'))
  BY TypeStep DEF IInv, Sound, Quiet, Idle
<1>0. Settings /\ net \in NetType /\ Sound(net) /\ (quit = "requested" => Quiet(net))
  BY DEF IInv, TypeOK, Settings
<1>1. CASE UNCHANGED net /\ UNCHANGED quit
  BY <1>0, <1>1
<1>2. ASSUME NEW r \in ServerIndex, RunConnect(r)
      PROVE  Sound(net') /\ (quit' = "requested" => Quiet(net'))
  BY <1>0, <1>2, ConnectToIrcSound DEF RunConnect
<1>3. ASSUME NEW r \in ServerIndex, NEW flushed \in BOOLEAN, HandleQuit(flushed, r)
      PROVE  Sound(net') /\ (quit' = "requested" => Quiet(net'))
  BY <1>0, <1>3, DisconnectFromIrcSound DEF HandleQuit
<1>4. ASSUME NEW info \in Configs, SetNetworkInfo(info)
      PROVE  Sound(net') /\ (quit' = "requested" => Quiet(net'))
  <2>1. /\ net'.sock = net.sock /\ net'.connState = net.connState
        /\ net'.connected = net.connected /\ net'.closeTimer = net.closeTimer
        /\ net'.pendingClose = net.pendingClose
    BY <1>0, <1>4 DEF SetNetworkInfo, NetType
  <2>2. net.count = 0 => net'.count = 0
    BY <1>0, <1>4 DEF SetNetworkInfo, NetType
  <2>3. ~net.reconnectTimer => ~net'.reconnectTimer
    BY <1>0, <1>4 DEF SetNetworkInfo, NetType
  <2>4. quit' = quit
    BY <1>4 DEF SetNetworkInfo
  <2>5. QED
    BY <1>0, <2>1, <2>2, <2>3, <2>4 DEF Sound, Quiet, Idle
<1>5. ASSUME NEW on \in BOOLEAN, PingTimeoutEnabledSet(on)
      PROVE  Sound(net') /\ (quit' = "requested" => Quiet(net'))
  BY <1>0, <1>5 DEF PingTimeoutEnabledSet, EnablePingTimeout, Sound, Quiet, Idle, NetType
<1>6. ASSUME NEW r \in ServerIndex, RestartCore(r)
      PROVE  Sound(net') /\ (quit' = "requested" => Quiet(net'))
  <2>1. Fresh(TRUE) \in NetType /\ Sound(Fresh(TRUE))
    BY FreshType DEF Fresh, Sound
  <2>2. Sound(ConnectToIrc(Fresh(TRUE), FALSE, r))
    BY <1>0, <2>1, ConnectToIrcSound
  <2>3. Sound(Fresh(FALSE)) /\ Quiet(Fresh(FALSE))
    BY DEF Fresh, Sound, Quiet, Idle
  <2>4. CASE net.restore
    BY <1>6, <2>2, <2>4 DEF RestartCore
  <2>5. CASE ~net.restore
    BY <1>6, <2>3, <2>5 DEF RestartCore
  <2>6. QED
    BY <2>4, <2>5
<1>7. ASSUME NEW r \in ServerIndex, TcpConnected(r)
      PROVE  Sound(net') /\ (quit' = "requested" => Quiet(net'))
  <2> DEFINE open == SocketStateChanged(net, "Connected")
             up   == SocketInitialized(open, r)
             kept == [up EXCEPT !.pendingClose = FALSE]
  <2>1. open \in NetType
    BY <1>0, SocketStateChangedType DEF SockStates
  <2>2. Sound(open) /\ (Quiet(net) => Quiet(open))
    BY <1>0, <1>7 DEF TcpConnected, SocketStateChanged, Sound, Quiet, Idle, NetType
  <2>3. up \in NetType /\ Sound(up) /\ (Quiet(net) => Quiet(up))
    BY <1>0, <2>1, <2>2, SocketErrorType, SocketErrorSound
  <2>4. kept \in NetType /\ Sound(kept) /\ (Quiet(up) => Idle(kept))
    BY <2>3 DEF Sound, Quiet, Idle, NetType
  <2>5. Sound(CloseSocket(kept, TRUE, r)) /\ (Quiet(net) => Quiet(CloseSocket(kept, TRUE, r)))
    BY <1>0, <2>3, <2>4, CloseSocketSound
  <2>6. QED
    BY <1>0, <1>7, <2>3, <2>5 DEF TcpConnected
<1>8. ASSUME NEW r \in ServerIndex, TcpFails(r)
      PROVE  Sound(net') /\ (quit' = "requested" => Quiet(net'))
  <2> DEFINE gone == SocketStateChanged(net, "Unconnected")
  <2>1. gone \in NetType
    BY <1>0, SocketStateChangedType DEF SockStates
  <2>2. Sound(gone) /\ (Quiet(net) => Quiet(gone))
    BY <1>0, <1>8 DEF TcpFails, SocketStateChanged, Sound, Quiet, Idle, NetType
  <2>3. QED
    BY <1>0, <1>8, <2>1, <2>2, SocketErrorSound DEF TcpFails
<1>9. ASSUME NEW r \in ServerIndex, NEW remote \in BOOLEAN, ConnectionLost(remote, r)
      PROVE  Sound(net') /\ (quit' = "requested" => Quiet(net'))
  <2> DEFINE e == SocketError(net, remote, r)
  <2>1. e \in NetType /\ Sound(e) /\ (Quiet(net) => Idle(e))
    BY <1>0, SocketErrorType, SocketErrorSound DEF Quiet
  <2>2. QED
    BY <1>0, <1>9, <2>1, CloseSocketSound DEF ConnectionLost
<1>10. ASSUME NEW r \in ServerIndex, SocketClosed(r)
       PROVE  Sound(net') /\ (quit' = "requested" => Quiet(net'))
  BY <1>0, <1>10, CloseSocketSound DEF SocketClosed, Quiet
<1>11. CASE ProcessWelcome
  <2>1. Sound(net')
    BY <1>0, <1>11, SetMyNickSound DEF ProcessWelcome
  <2>2. quit' = "requested" => quit = "requested" /\ net' = net
    BY <1>11 DEF ProcessWelcome, SetMyNick
  <2>3. QED
    BY <1>0, <2>1, <2>2
<1>12. CASE ResetPingTimeout
  BY <1>0, <1>12 DEF ResetPingTimeout, Sound, Quiet, Idle, NetType
<1>13. ASSUME NEW r \in ServerIndex, AutoReconnectTimeout(r)
       PROVE  Sound(net') /\ (quit' = "requested" => Quiet(net'))
  <2> DEFINE n == [net EXCEPT !.reconnectTimer = FALSE]
  <2>1. n \in NetType /\ Sound(n)
    BY <1>0 DEF Sound, NetType
  <2>2. Sound(net')
    BY <1>0, <1>13, <2>1, DoAutoReconnectSound DEF AutoReconnectTimeout
  <2>3. quit' # "requested"
    BY <1>0, <1>13 DEF AutoReconnectTimeout, Quiet, Idle
  <2>4. QED
    BY <2>2, <2>3
<1>14. ASSUME NEW r \in ServerIndex, NEW flushed \in BOOLEAN, SocketCloseTimeout(flushed, r)
       PROVE  Sound(net') /\ (quit' = "requested" => Quiet(net'))
  <2> DEFINE n == [net EXCEPT !.closeTimer = FALSE]
  <2>1. n \in NetType /\ Sound(n) /\ (Quiet(net) => Idle(n))
    BY <1>0 DEF Sound, Quiet, Idle, NetType
  <2>2. QED
    BY <1>0, <1>14, <2>1, CloseSocketSound DEF SocketCloseTimeout
<1>15. ASSUME NEW r \in ServerIndex, NEW flushed \in BOOLEAN, NEW onTime \in BOOLEAN,
              PingTimeout(onTime, flushed, r)
       PROVE  Sound(net') /\ (quit' = "requested" => Quiet(net'))
  BY <1>0, <1>15, SendPingSound DEF PingTimeout
<1>16. CASE RequestConnect \/ RemoveIdentity \/ ReceiveWelcome \/ GoSilent \/ UNCHANGED vars
  BY <1>1, <1>16 DEF RequestConnect, RemoveIdentity, ReceiveWelcome, GoSilent, vars
<1>17. QED
  BY <1>2, <1>3, <1>4, <1>5, <1>6, <1>7, <1>8, <1>9, <1>10, <1>11, <1>12, <1>13, <1>14,
     <1>15, <1>16
     DEF Next, UserStep, ServerStep, CoreStep, RequestDisconnect

LEMMA Invariance == Spec => []IInv
<1>1. Init => IInv
  <2>1. Init => TypeOK
    BY InitType
  <2>2. QED
    BY <2>1 DEF Init, IInv, Fresh, Sound
<1>2. QED
  BY <1>1, InvStep, PTL DEF Spec

\* The connection state agrees with the socket in every reachable state, with
\* any number of servers, retries and pings.
THEOREM SocketAgreesHolds == Spec => []SocketAgrees
<1>1. IInv => SocketAgrees
  BY DEF IInv, Sound, SocketAgrees
<1>2. QED
  BY <1>1, Invariance, PTL

\* The ten second limit never outlives the connection it was set for.
THEOREM CloseTimerOwnedHolds == Spec => []CloseTimerOwned
<1>1. IInv => CloseTimerOwned
  BY DEF IInv, Sound, CloseTimerOwned
<1>2. QED
  BY <1>1, Invariance, PTL

\* A user's disconnect that no late 001 and no restart overrules is final.
THEOREM QuitIsFinalHolds == Spec => []QuitIsFinal
<1>1. IInv => QuitIsFinal
  BY DEF IInv, Quiet, Idle, QuitIsFinal
<1>2. QED
  BY <1>1, Invariance, PTL

-----------------------------------------------------------------------------
(* The restore flag.  It is set with the state "Initialized" and cleared when *)
(* a socket closes whose quit was requested; while the user's disconnect is   *)
(* under way it is the request, kept until that close, that will clear it.    *)

Flagged(n) == n.connState = "Initialized" => n.restore

Leaving(n) ==
  n.restore => n.quitRequested /\ ~n.pingTimer /\ n.sock \in {"Connected", "Closing"}

\* Dialling leaves the flag alone.
LEMMA DialKeepsFlag ==
  ASSUME Settings, NEW n \in NetType, NEW reconnecting \in BOOLEAN, NEW r \in ServerIndex
  PROVE  LET c == ConnectToIrc(n, reconnecting, r)
         IN c.restore = n.restore /\ (c.connState # n.connState => c.connState = "Connecting")
<1> DEFINE armed == IF ~reconnecting /\ cfg.use /\ n.count = 0
                    THEN [n EXCEPT !.count = Retries] ELSE n
           ready == [armed EXCEPT !.server = NextServer(n, r), !.attemptFailed = FALSE,
                                  !.tries = CountTry(n, reconnecting)]
<1>1. armed.restore = n.restore /\ armed.connState = n.connState /\ armed \in NetType
  BY RetriesType DEF NetType
<1>2. ready.restore = n.restore /\ ready.connState = n.connState
      /\ DOMAIN ready = DOMAIN n
  BY <1>1 DEF NetType
<1>3. ConnectToIrc(n, reconnecting, r) = IF identity THEN ConnectToHost(ready) ELSE armed
  BY DEF ConnectToIrc
<1>4. /\ ConnectToHost(ready).restore = ready.restore
      /\ ConnectToHost(ready).connState \in {ready.connState, "Connecting"}
  <2> HIDE DEF ready
  <2>1. /\ "restore" \in DOMAIN ready /\ "connState" \in DOMAIN ready
    BY <1>2 DEF NetType
  <2>2. QED
    BY <1>2, <2>1 DEF ConnectToHost, SocketStateChanged, NetType
<1>5. QED
  BY <1>1, <1>2, <1>3, <1>4

\* Spending a retry touches the budget only.
LEMMA SpendRetryKeeps ==
  ASSUME NEW n \in NetType
  PROVE  /\ SpendRetry(n) \in NetType
         /\ SpendRetry(n).restore = n.restore /\ SpendRetry(n).connState = n.connState
<1>1. (IF n.count > 0 \/ n.count = Unlimited THEN n.count - 1 ELSE n.count)
         \in {Delayed, Unlimited} \cup 0 .. MaxRetries
  BY ConstantsAssumption DEF NetType, Unlimited, Delayed
<1>2. QED
  BY <1>1 DEF SpendRetry, NetType

\* socketDisconnected never sets the flag, and clears it after a requested quit.
LEMMA DisconnectedKeepsFlag ==
  ASSUME Settings, NEW n \in NetType, NEW r \in ServerIndex
  PROVE  LET d == SocketDisconnected(n, r)
         IN /\ d.restore => n.restore /\ ~n.quitRequested
            /\ Flagged(n) => Flagged(d)
<1> DEFINE m == [StopTimers(n) EXCEPT !.connected = FALSE]
           w == [m EXCEPT !.connState = "Reconnecting"]
           s == SpendRetry(w)
<1>1. m \in NetType /\ m.restore = n.restore /\ m.connState = n.connState
  BY Zeros DEF StopTimers, NetType
<1>2. w \in NetType /\ w.restore = n.restore /\ w.connState = "Reconnecting"
  BY <1>1 DEF NetType, ConnStates
<1>3. /\ DoAutoReconnect(w, r).restore = n.restore
      /\ DoAutoReconnect(w, r).connState # "Initialized"
  <2> HIDE DEF w
  <2>2. s \in NetType /\ s.restore = w.restore /\ s.connState = w.connState
    BY <1>2, SpendRetryKeeps
  <2>3. DoAutoReconnect(w, r) = ConnectToIrc(s, TRUE, r)
    BY <1>2 DEF DoAutoReconnect
  <2> HIDE DEF s
  <2>4. QED
    BY <1>2, <2>2, <2>3, DialKeepsFlag
<1>4. /\ StartReconnectTimer(w).restore = n.restore
      /\ StartReconnectTimer(w).connState = "Reconnecting"
  BY <1>2 DEF StartReconnectTimer, NetType
<1>5. CASE n.quitRequested
  <2>1. SocketDisconnected(n, r) =
          [m EXCEPT !.quitRequested = FALSE, !.connState = "Disconnected", !.restore = FALSE]
    BY <1>5 DEF SocketDisconnected
  <2>2. SocketDisconnected(n, r).restore = FALSE
        /\ SocketDisconnected(n, r).connState = "Disconnected"
    BY <1>1, <2>1 DEF NetType
  <2>3. QED
    BY <2>2 DEF Flagged
<1>6. CASE ~n.quitRequested
  <2>1. SocketDisconnected(n, r) \in {DoAutoReconnect(w, r), StartReconnectTimer(w), m}
    BY <1>6 DEF SocketDisconnected
  <2> HIDE DEF m, w
  <2>2. QED
    BY <1>1, <1>3, <1>4, <1>6, <2>1 DEF Flagged
<1>7. QED
  BY <1>5, <1>6 DEF NetType

\* Closing the socket: an open one with a quit under way is left with the flag cleared, or
\* still closing with the request in place.
LEMMA CloseKeepsFlag ==
  ASSUME Settings, NEW n \in NetType, NEW flushed \in BOOLEAN, NEW r \in ServerIndex
  PROVE  LET d == Disconnected(n, r)
             c == CloseSocket(n, flushed, r)
         IN /\ d.restore => n.restore /\ ~n.quitRequested
            /\ Flagged(d)
            /\ c.restore => n.restore /\ (n.quitRequested => c.quitRequested)
            /\ Flagged(n) => Flagged(c)
            /\ Leaving(n) => Leaving(c)
<1> DEFINE u == SocketStateChanged(n, "Unconnected")
<1>1. u \in NetType /\ u.restore = n.restore /\ u.quitRequested = n.quitRequested
      /\ u.connState = "Disconnected"
  <2>1. "Unconnected" \in SockStates
    BY DEF SockStates
  <2>2. u \in NetType
    BY <2>1, SocketStateChangedType
  <2>3. /\ u.restore = n.restore /\ u.quitRequested = n.quitRequested
        /\ u.connState = "Disconnected"
    BY DEF SocketStateChanged, NetType
  <2>4. QED
    BY <2>2, <2>3
<1>2. /\ Disconnected(n, r).restore => n.restore /\ ~n.quitRequested
      /\ Flagged(Disconnected(n, r))
  <2>1. Flagged(u)
    BY <1>1 DEF Flagged
  <2>2. Disconnected(n, r) = SocketDisconnected(u, r)
    BY DEF Disconnected
  <2> HIDE DEF u
  <2>3. QED
    BY <1>1, <2>1, <2>2, DisconnectedKeepsFlag
<1>3. LET p == [n EXCEPT !.pendingClose = TRUE]
      IN /\ p.restore = n.restore /\ p.quitRequested = n.quitRequested
         /\ Flagged(n) => Flagged(p)
         /\ Leaving(n) => Leaving(p)
  BY DEF NetType, Flagged, Leaving
<1>4. LET p == SocketStateChanged(n, "Closing")
      IN /\ p.restore = n.restore /\ p.quitRequested = n.quitRequested
         /\ Flagged(p)
         /\ n.sock = "Connected" \/ n.sock = "Closing" => (Leaving(n) => Leaving(p))
  BY DEF SocketStateChanged, NetType, Flagged, Leaving
<1>5. n.sock \in SockStates
  BY DEF NetType
<1>6. CASE n.sock = "Unconnected"
  <2>1. CloseSocket(n, flushed, r) = n
    BY <1>6 DEF CloseSocket
  <2>2. QED
    BY <1>2, <2>1
<1>7. CASE n.sock = "Connecting"
  <2>1. CloseSocket(n, flushed, r) = [n EXCEPT !.pendingClose = TRUE]
    BY <1>7 DEF CloseSocket
  <2>2. QED
    BY <1>2, <1>3, <2>1
<1>8. CASE n.sock \in {"Connected", "Closing"} /\ flushed
  <2>1. CloseSocket(n, flushed, r) = Disconnected(n, r)
    BY <1>8 DEF CloseSocket
  <2>2. Leaving(n) => ~Disconnected(n, r).restore
    BY <1>2 DEF Leaving
  <2>3. QED
    BY <1>2, <2>1, <2>2 DEF Leaving
<1>9. CASE n.sock \in {"Connected", "Closing"} /\ ~flushed
  <2>1. CloseSocket(n, flushed, r) = SocketStateChanged(n, "Closing")
    BY <1>9 DEF CloseSocket
  <2>2. QED
    BY <1>2, <1>4, <1>9, <2>1
<1>10. QED
  BY <1>5, <1>6, <1>7, <1>8, <1>9 DEF SockStates

\* disconnectFromIrc: a request keeps the flag only with a quit that will clear it; no
\* reason to disconnect sets it.
LEMMA DisconnectFromIrcKeepsFlag ==
  ASSUME Settings, NEW n \in NetType, NEW requested \in BOOLEAN,
         NEW withReconnect \in BOOLEAN, NEW flushed \in BOOLEAN, NEW r \in ServerIndex
  PROVE  LET d == DisconnectFromIrc(n, requested, withReconnect, flushed, r)
         IN /\ d.restore => n.restore
            /\ Flagged(n) => Flagged(d)
            /\ requested => Leaving(d)
<1> DEFINE m == BeginQuit(n, requested, withReconnect)
           c == CloseSocket(m, flushed, r)
           a == AwaitServerClose(m)
           d == DisconnectFromIrc(n, requested, withReconnect, flushed, r)
<1>1. m \in NetType
  BY BeginQuitType
<1>2. /\ m.restore = n.restore /\ m.connState = n.connState /\ m.sock = n.sock
      /\ m.quitRequested = requested /\ m.pingTimer = FALSE
  BY DEF BeginQuit, NetType
<1> HIDE DEF m
<1>3. Flagged(n) => Flagged(m)
  BY <1>2 DEF Flagged
<1>4. CASE n.sock = "Connected" /\ (requested \/ withReconnect)
  <2>1. d = a
    BY <1>4 DEF DisconnectFromIrc, m
  <2>2. /\ a.restore = m.restore /\ a.connState = m.connState /\ a.sock = m.sock
        /\ a.quitRequested = m.quitRequested /\ a.pingTimer = m.pingTimer
    BY <1>1 DEF AwaitServerClose, NetType
  <2> HIDE DEF a, d
  <2>3. QED
    BY <1>2, <1>3, <1>4, <2>1, <2>2 DEF Flagged, Leaving, d
<1>5. CASE ~(n.sock = "Connected" /\ (requested \/ withReconnect))
  <2>1. d = SocketDisconnected(c, r)
    BY <1>5 DEF DisconnectFromIrc, m
  <2>2. /\ c \in NetType
        /\ c.restore => m.restore /\ (m.quitRequested => c.quitRequested)
        /\ Flagged(m) => Flagged(c)
    BY <1>1, CloseSocketType, CloseKeepsFlag
  <2> HIDE DEF c
  <2>3. /\ SocketDisconnected(c, r).restore => c.restore /\ ~c.quitRequested
        /\ Flagged(c) => Flagged(SocketDisconnected(c, r))
    BY <2>2, DisconnectedKeepsFlag
  <2> HIDE DEF d
  <2>4. QED
    BY <1>2, <1>3, <2>1, <2>2, <2>3 DEF Leaving, d
<1>6. QED
  BY <1>4, <1>5

\* socketError and socketInitialized.
LEMMA ErrorKeepsFlag ==
  ASSUME Settings, NEW n \in NetType, NEW remote \in BOOLEAN, NEW r \in ServerIndex
  PROVE  LET e == SocketError(n, remote, r)
             i == SocketInitialized(n, r)
         IN /\ e.restore => n.restore
            /\ Flagged(n) => Flagged(e)
            /\ n.sock \in {"Connected", "Closing"} => e.quitRequested = n.quitRequested
            /\ i.restore => n.restore
            /\ Flagged(n) => Flagged(i)
<1> DEFINE m == [n EXCEPT !.attemptFailed = TRUE]
<1>1. m \in NetType /\ m.restore = n.restore /\ m.connState = n.connState
      /\ m.quitRequested = n.quitRequested
  BY DEF NetType
<1>2. SocketError(n, remote, r) \in {n, m, SocketDisconnected(m, r)}
  BY DEF SocketError
<1>3. n.sock \in {"Connected", "Closing"} => SocketError(n, remote, r) \in {n, m}
  BY DEF SocketError
<1>4. SocketInitialized(n, r) \in {n, DisconnectFromIrc(n, TRUE, FALSE, FALSE, r)}
  BY DEF SocketInitialized
<1> HIDE DEF m
<1>5. /\ SocketDisconnected(m, r).restore => m.restore
      /\ Flagged(m) => Flagged(SocketDisconnected(m, r))
  BY <1>1, DisconnectedKeepsFlag
<1>6. LET d == DisconnectFromIrc(n, TRUE, FALSE, FALSE, r)
      IN (d.restore => n.restore) /\ (Flagged(n) => Flagged(d))
  BY DisconnectFromIrcKeepsFlag
<1>7. Flagged(n) => Flagged(m)
  BY <1>1 DEF Flagged
<1>8. QED
  BY <1>1, <1>2, <1>3, <1>4, <1>5, <1>6, <1>7

FlagInv == Flagged(net) /\ (quit = "requested" /\ edits = 0 => Leaving(net))

\* Every step keeps the flag in step with the connection.
LEMMA FlagStep == IInv /\ FlagInv /\ [Next]_vars => FlagInv'
<1> SUFFICES ASSUME IInv, FlagInv, [Next]_vars
             PROVE  Flagged(net') /\ (quit' = "requested" /\ edits' = 0 => Leaving(net'))
  BY DEF FlagInv, Flagged, Leaving
<1> DEFINE Goal == Flagged(net') /\ (quit' = "requested" /\ edits' = 0 => Leaving(net'))
<1>0. /\ Settings /\ net \in NetType /\ edits \in Nat
      /\ Flagged(net) /\ (quit = "requested" /\ edits = 0 => Leaving(net))
  BY ConstantsAssumption DEF IInv, TypeOK, Settings, FlagInv
<1>e. Edit => edits' # 0
  BY <1>0 DEF Edit
<1>1. CASE UNCHANGED net /\ UNCHANGED quit /\ (UNCHANGED edits \/ Edit)
  BY <1>0, <1>1, <1>e
<1>2. ASSUME NEW r \in ServerIndex, RunConnect(r) PROVE Goal
  BY <1>0, <1>2, DialKeepsFlag DEF RunConnect, Flagged
<1>3. ASSUME NEW r \in ServerIndex, NEW flushed \in BOOLEAN, HandleQuit(flushed, r)
      PROVE  Goal
  BY <1>0, <1>3, DisconnectFromIrcKeepsFlag DEF HandleQuit
<1>4. ASSUME NEW info \in Configs, SetNetworkInfo(info) PROVE Goal
  <2>1. net'.restore = net.restore /\ net'.connState = net.connState
    BY <1>0, <1>4 DEF SetNetworkInfo, NetType
  <2>2. QED
    BY <1>0, <1>4, <1>e, <2>1 DEF SetNetworkInfo, Flagged
<1>5. ASSUME NEW on \in BOOLEAN, PingTimeoutEnabledSet(on) PROVE Goal
  <2>1. net'.restore = net.restore /\ net'.connState = net.connState
    BY <1>0, <1>5 DEF PingTimeoutEnabledSet, EnablePingTimeout, NetType
  <2>2. QED
    BY <1>0, <1>5, <1>e, <2>1 DEF PingTimeoutEnabledSet, Flagged
<1>6. ASSUME NEW r \in ServerIndex, RestartCore(r) PROVE Goal
  <2>1. CASE net.restore
    <3>1. Fresh(TRUE) \in NetType /\ Fresh(TRUE).connState = "Disconnected"
          /\ net' = ConnectToIrc(Fresh(TRUE), FALSE, r)
      BY <1>6, <2>1, FreshType DEF RestartCore, Fresh
    <3>2. net'.connState # "Initialized"
      <4> DEFINE f == Fresh(TRUE)
      <4> HIDE DEF f
      <4>1. f \in NetType /\ f.connState = "Disconnected" /\ net' = ConnectToIrc(f, FALSE, r)
        BY <3>1 DEF f
      <4>2. QED
        BY <1>0, <4>1, DialKeepsFlag
    <3>3. quit' # "requested"
      BY <1>0, <1>6, <2>1 DEF RestartCore
    <3>4. QED
      BY <3>2, <3>3 DEF Flagged
  <2>2. CASE ~net.restore
    BY <1>6, <2>2 DEF RestartCore, Fresh, Flagged, Leaving
  <2>3. QED
    BY <2>1, <2>2
<1>7. ASSUME NEW r \in ServerIndex, TcpConnected(r) PROVE Goal
  <2> DEFINE open == SocketStateChanged(net, "Connected")
             up   == SocketInitialized(open, r)
             kept == [up EXCEPT !.pendingClose = FALSE]
  <2>1. open \in NetType /\ open.restore = net.restore /\ Flagged(open)
    <3>1. open \in NetType
      BY <1>0, SocketStateChangedType DEF SockStates
    <3>2. open.restore = net.restore /\ open.connState = "Initializing"
      BY <1>0 DEF SocketStateChanged, NetType
    <3>3. QED
      BY <3>1, <3>2 DEF Flagged
  <2>2. up \in NetType /\ (up.restore => net.restore) /\ Flagged(up)
    <3> HIDE DEF open
    <3>1. QED
      BY <1>0, <2>1, SocketErrorType, ErrorKeepsFlag
  <2>3. kept \in NetType /\ kept.restore = up.restore /\ Flagged(kept)
    <3> HIDE DEF up
    <3>1. QED
      BY <2>2 DEF NetType, Flagged
  <2>4. net' \in {up, CloseSocket(kept, TRUE, r)} /\ quit' = quit /\ edits' = edits
        /\ net.sock = "Connecting"
    BY <1>7 DEF TcpConnected
  <2> HIDE DEF up, kept
  <2>5. /\ CloseSocket(kept, TRUE, r).restore => kept.restore
        /\ Flagged(CloseSocket(kept, TRUE, r))
    BY <1>0, <2>3, CloseKeepsFlag
  <2>6. Flagged(net') /\ (net'.restore => net.restore)
    BY <2>2, <2>3, <2>4, <2>5
  <2>7. QED
    BY <1>0, <2>4, <2>6 DEF Leaving
<1>8. ASSUME NEW r \in ServerIndex, TcpFails(r) PROVE Goal
  <2> DEFINE gone == SocketStateChanged(net, "Unconnected")
  <2>1. gone \in NetType /\ gone.restore = net.restore /\ Flagged(gone)
    <3>1. gone \in NetType
      BY <1>0, SocketStateChangedType DEF SockStates
    <3>2. gone.restore = net.restore /\ gone.connState = "Disconnected"
      BY <1>0 DEF SocketStateChanged, NetType
    <3>3. QED
      BY <3>1, <3>2 DEF Flagged
  <2>2. net' = SocketError(gone, FALSE, r) /\ quit' = quit /\ edits' = edits
        /\ net.sock = "Connecting"
    BY <1>8 DEF TcpFails
  <2> HIDE DEF gone
  <2>3. Flagged(net') /\ (net'.restore => net.restore)
    BY <1>0, <2>1, <2>2, ErrorKeepsFlag
  <2>4. QED
    BY <1>0, <2>2, <2>3 DEF Leaving
<1>9. ASSUME NEW r \in ServerIndex, NEW remote \in BOOLEAN, ConnectionLost(remote, r)
      PROVE  Goal
  <2> DEFINE e == SocketError(net, remote, r)
  <2>1. e \in NetType /\ (e.restore => net.restore) /\ e.quitRequested = net.quitRequested
    BY <1>0, <1>9, SocketErrorType, ErrorKeepsFlag DEF ConnectionLost
  <2>2. net' = Disconnected(e, r) /\ quit' = quit /\ edits' = edits
    BY <1>9 DEF ConnectionLost
  <2> HIDE DEF e
  <2>3. Flagged(net') /\ (net'.restore => e.restore /\ ~e.quitRequested)
    BY <1>0, <2>1, <2>2, CloseKeepsFlag
  <2>4. QED
    BY <1>0, <2>1, <2>2, <2>3 DEF Leaving
<1>10. ASSUME NEW r \in ServerIndex, SocketClosed(r) PROVE Goal
  <2>1. net' = Disconnected(net, r) /\ quit' = quit /\ edits' = edits
    BY <1>10 DEF SocketClosed
  <2>2. Flagged(net') /\ (net'.restore => net.restore /\ ~net.quitRequested)
    BY <1>0, <2>1, CloseKeepsFlag
  <2>3. QED
    BY <1>0, <2>1, <2>2 DEF Leaving
<1>11. CASE ProcessWelcome
  <2>1. CASE net.connState = "Initializing"
    <3>1. net'.restore = TRUE /\ quit' # "requested"
      BY <1>0, <1>11, <2>1 DEF ProcessWelcome, SetMyNick, NetworkInitialized, NetType
    <3>2. QED
      BY <3>1 DEF Flagged
  <2>2. CASE net.connState # "Initializing"
    BY <1>0, <1>11, <2>2 DEF ProcessWelcome, SetMyNick
  <2>3. QED
    BY <2>1, <2>2
<1>12. CASE ResetPingTimeout
  BY <1>0, <1>12 DEF ResetPingTimeout, Flagged, Leaving, NetType
<1>13. ASSUME NEW r \in ServerIndex, AutoReconnectTimeout(r) PROVE Goal
  <2> DEFINE n == [net EXCEPT !.reconnectTimer = FALSE]
             s == SpendRetry(n)
  <2>1. n \in NetType /\ n.connState = net.connState /\ n.restore = net.restore
    BY <1>0 DEF NetType
  <2>2. s \in NetType /\ s.connState = net.connState /\ s.restore = net.restore
    <3> HIDE DEF n
    <3>1. QED
      BY <2>1, SpendRetryKeeps
  <2>3. net' \in {n, ConnectToIrc(s, TRUE, r)} /\ net.reconnectTimer
        /\ quit' = quit
    BY <1>13 DEF AutoReconnectTimeout, DoAutoReconnect
  <2> HIDE DEF n, s
  <2>4. Flagged(net')
    <3>1. Flagged(n) /\ Flagged(s)
      BY <1>0, <2>1, <2>2 DEF Flagged
    <3>2. Flagged(ConnectToIrc(s, TRUE, r))
      BY <1>0, <2>2, <3>1, DialKeepsFlag DEF Flagged
    <3>3. QED
      BY <2>3, <3>1, <3>2
  <2>5. quit' # "requested"
    BY <2>3 DEF IInv, Quiet, Idle
  <2>6. QED
    BY <2>4, <2>5
<1>14. ASSUME NEW r \in ServerIndex, NEW flushed \in BOOLEAN, SocketCloseTimeout(flushed, r)
       PROVE  Goal
  <2> DEFINE n == [net EXCEPT !.closeTimer = FALSE]
  <2>1. n \in NetType /\ (Flagged(net) => Flagged(n)) /\ (Leaving(net) => Leaving(n))
    BY <1>0 DEF NetType, Flagged, Leaving
  <2>2. net' = CloseSocket(n, flushed, r) /\ quit' = quit /\ edits' = edits
    BY <1>14 DEF SocketCloseTimeout
  <2> HIDE DEF n
  <2>3. QED
    BY <1>0, <2>1, <2>2, CloseKeepsFlag
<1>15. ASSUME NEW r \in ServerIndex, NEW flushed \in BOOLEAN, NEW onTime \in BOOLEAN,
              PingTimeout(onTime, flushed, r)
       PROVE  Goal
  <2> DEFINE p == [net EXCEPT !.pingCount = IF @ < MaxPing THEN @ + 1 ELSE @]
             d == DisconnectFromIrc(net, FALSE, TRUE, flushed, r)
  <2>1. net' \in {p, d} /\ quit' = quit /\ edits' = edits /\ net.pingTimer
    BY <1>15 DEF PingTimeout, SendPing
  <2>2. p.restore = net.restore /\ p.connState = net.connState
    BY <1>0 DEF NetType
  <2>3. (d.restore => net.restore) /\ (Flagged(net) => Flagged(d))
    BY <1>0, DisconnectFromIrcKeepsFlag
  <2> HIDE DEF p, d
  <2>4. Flagged(net') /\ (net'.restore => net.restore)
    BY <1>0, <2>1, <2>2, <2>3 DEF Flagged
  <2>5. QED
    BY <1>0, <2>1, <2>4 DEF Leaving
<1>16. CASE RequestConnect \/ RemoveIdentity \/ ReceiveWelcome \/ GoSilent \/ UNCHANGED vars
  BY <1>1, <1>16 DEF RequestConnect, RemoveIdentity, ReceiveWelcome, GoSilent, vars
<1>17. QED
  BY <1>2, <1>3, <1>4, <1>5, <1>6, <1>7, <1>8, <1>9, <1>10, <1>11, <1>12, <1>13, <1>14,
     <1>15, <1>16
     DEF Next, UserStep, ServerStep, CoreStep, RequestDisconnect

\* The database restores what was up and nothing the user has closed, for any number of
\* servers and retries and with restarts between any two steps.
THEOREM RestoreMatchesHolds == Spec => []RestoreMatches
<1>1. Init => IInv /\ FlagInv
  <2>1. Init => TypeOK
    BY InitType
  <2>2. QED
    BY <2>1 DEF Init, IInv, FlagInv, Flagged, Leaving, Fresh, Sound
<1>2. FlagInv => RestoreMatches
  BY DEF FlagInv, Flagged, Leaving, RestoreMatches
<1>3. QED
  BY <1>1, <1>2, InvStep, FlagStep, PTL DEF Spec

-----------------------------------------------------------------------------
(* The dials of the core.                                                    *)

\* While no client edits the settings, the retries left and the dials made since the last
\* success add up to no more than the configured number; a running reconnect timer still
\* has a retry to spend.  (With a single retry, the loss of a connection spends it at
\* once, so the timer never runs.)
Budgeted(n) ==
  /\ n.count >= 0 /\ n.count + n.tries <= cfg.retries
  /\ n.reconnectTimer => n.count >= 1 /\ cfg.retries >= 2

\* the network keeps its identity, and its retries are numbered
Steady == identity /\ ~cfg.unlimited

\* a retry is taken from the budget, its dial is not counted yet
Spent(n) ==
  /\ n.count >= 0 /\ n.count + n.tries + 1 <= cfg.retries
  /\ n.reconnectTimer => n.count >= 1 /\ cfg.retries >= 2

\* In a round of servers taken in their order, the one in use is the one that was dialed
\* last, and a socket in use has not failed: no second connectToIrc moves on under it.
Aimed(n) ==
  /\ n.server = n.dialed
  /\ n.sock # "Unconnected" => ~n.attemptFailed

Skips(n, m) ==
  NServers > 1 /\ n.attemptFailed /\ ~m.attemptFailed => m.dialed # n.dialed

\* What a handler that turns n into m does for the dials.
KeepsDials(n, m) ==
  /\ Steady /\ Budgeted(n) => Budgeted(m)
  /\ ~Random /\ Aimed(n) => Aimed(m) /\ Skips(n, m)

LEMMA NextDiffers ==
  ASSUME NEW s \in ServerIndex, NServers > 1
  PROVE  (s + 1) % NServers # s
BY ConstantsAssumption DEF ServerIndex

\* connectToIrc, called by a user, or by the core with a retry taken from the budget.
LEMMA ConnectToIrcDials ==
  ASSUME Settings, NEW n \in NetType, NEW reconnecting \in BOOLEAN, NEW r \in ServerIndex
  PROVE  LET d == ConnectToIrc(n, reconnecting, r)
         IN /\ ~reconnecting => KeepsDials(n, d)
            /\ Steady /\ reconnecting /\ Spent(n) => Budgeted(d)
            /\ ~Random /\ Aimed(n) => Aimed(d) /\ Skips(n, d)
<1> DEFINE armed == IF ~reconnecting /\ cfg.use /\ n.count = 0
                    THEN [n EXCEPT !.count = Retries] ELSE n
           ready == [armed EXCEPT !.server = NextServer(n, r), !.attemptFailed = FALSE,
                                  !.tries = CountTry(n, reconnecting)]
           pushed == [ready EXCEPT !.pendingClose = FALSE, !.dialed = ready.server]
           d == ConnectToIrc(n, reconnecting, r)
<1>1. /\ armed.sock = n.sock /\ armed.tries = n.tries /\ armed.server = n.server
      /\ armed.dialed = n.dialed /\ armed.attemptFailed = n.attemptFailed
      /\ armed.reconnectTimer = n.reconnectTimer
      /\ armed.count = IF ~reconnecting /\ cfg.use /\ n.count = 0 THEN Retries ELSE n.count
  BY DEF NetType
<1>2. armed \in NetType
  BY RetriesType DEF NetType
<1> HIDE DEF armed
<1>3. /\ ready.sock = n.sock /\ ready.tries = CountTry(n, reconnecting)
      /\ ready.server = NextServer(n, r) /\ ready.dialed = n.dialed
      /\ ready.attemptFailed = FALSE /\ ready.count = armed.count
      /\ ready.reconnectTimer = n.reconnectTimer
  BY <1>1, <1>2 DEF NetType
<1>4. ready \in NetType
  <2>1. NextServer(n, r) \in ServerIndex
    BY ConstantsAssumption DEF NextServer, ServerIndex, NetType
  <2>2. CountTry(n, reconnecting) \in 0 .. MaxRetries + 1
    BY ConstantsAssumption DEF CountTry, NetType
  <2>3. QED
    BY <1>2, <2>1, <2>2 DEF NetType
<1> HIDE DEF ready
<1>5. CountTry(n, reconnecting) \in {0, n.tries, n.tries + 1}
      /\ (~reconnecting => CountTry(n, reconnecting) = 0)
  BY DEF CountTry
<1>6. ~Random /\ Aimed(n) /\ n.sock # "Unconnected" => NextServer(n, r) = n.server
  BY DEF NextServer, Aimed, NetType
<1>7. ~Random /\ Aimed(n) /\ n.attemptFailed /\ NServers > 1 => NextServer(n, r) # n.dialed
  BY NextDiffers DEF NextServer, Aimed, NetType
<1>8. /\ d.count = armed.count /\ d.reconnectTimer = n.reconnectTimer
      /\ \/ /\ ~identity /\ d.tries = n.tries /\ d.server = n.server /\ d.dialed = n.dialed
            /\ d.attemptFailed = n.attemptFailed /\ d.sock = n.sock
         \/ /\ d.tries = CountTry(n, reconnecting) /\ ~d.attemptFailed
            /\ \/ d.server = NextServer(n, r) /\ d.dialed = n.dialed /\ d.sock = n.sock
                  /\ n.sock # "Unconnected"
               \/ d.server = NextServer(n, r) /\ d.dialed = d.server
  <2>1. CASE ~identity
    <3>1. d = armed
      BY <2>1 DEF ConnectToIrc, armed
    <3>2. QED
      BY <1>1, <2>1, <3>1
  <2>2. CASE identity /\ n.sock # "Unconnected"
    <3>1. d = ready
      BY <1>3, <2>2 DEF ConnectToIrc, ConnectToHost, armed, ready
    <3>2. QED
      BY <1>3, <2>2, <3>1
  <2>3. CASE identity /\ n.sock = "Unconnected"
    <3>1. d = SocketStateChanged(pushed, "Connecting")
      BY <1>3, <2>3 DEF ConnectToIrc, ConnectToHost, armed, ready
    <3>2. /\ d.count = ready.count /\ d.reconnectTimer = ready.reconnectTimer
          /\ d.tries = ready.tries /\ d.attemptFailed = ready.attemptFailed
          /\ d.server = ready.server /\ d.dialed = ready.server
      <4> HIDE DEF d
      <4>1. QED
        BY <1>4, <3>1 DEF SocketStateChanged, NetType
    <3>3. QED
      BY <1>3, <3>2
  <2>4. QED
    BY <2>1, <2>2, <2>3 DEF Settings
<1>9. /\ n.count \in Int /\ n.tries \in Nat /\ cfg.retries \in Nat
      /\ armed.count = n.count \/ (~reconnecting /\ n.count = 0 /\ armed.count = Retries)
  BY <1>1, ConstantsAssumption DEF NetType, Settings, ReconnectConfig, Delayed, Unlimited
<1> HIDE DEF d
<1>10. Steady /\ ~reconnecting /\ Budgeted(n) => Budgeted(d)
  <2>1. ~cfg.unlimited => Retries = cfg.retries
    BY DEF Retries
  <2> SUFFICES ASSUME Steady, ~reconnecting, Budgeted(n) PROVE Budgeted(d)
    OBVIOUS
  <2>2. d.tries \in {0, n.tries} /\ d.reconnectTimer = n.reconnectTimer
    BY <1>5, <1>8
  <2>3. d.count = n.count \/ (n.count = 0 /\ d.count = cfg.retries)
    BY <1>8, <1>9, <2>1 DEF Steady
  <2>4. n.count >= 0 /\ n.count + n.tries <= cfg.retries
        /\ (n.reconnectTimer => n.count >= 1 /\ cfg.retries >= 2)
    BY DEF Budgeted
  <2>5. CASE d.count = n.count
    BY <1>9, <2>2, <2>4, <2>5 DEF Budgeted
  <2>6. CASE n.count = 0 /\ d.count = cfg.retries
    <3>1. d.tries = 0
      BY <1>5, <1>8 DEF Steady
    <3>2. QED
      BY <1>9, <2>2, <2>4, <2>6, <3>1 DEF Budgeted
  <2>7. QED
    BY <2>3, <2>5, <2>6
<1>11. Steady /\ reconnecting /\ Spent(n) => Budgeted(d)
  <2> SUFFICES ASSUME reconnecting, Spent(n) PROVE Budgeted(d)
    OBVIOUS
  <2>1. d.tries \in {0, n.tries, n.tries + 1} /\ d.reconnectTimer = n.reconnectTimer
        /\ d.count = n.count
    BY <1>5, <1>8, <1>9
  <2>2. n.count >= 0 /\ n.count + n.tries + 1 <= cfg.retries
        /\ (n.reconnectTimer => n.count >= 1 /\ cfg.retries >= 2)
    BY DEF Spent
  <2>3. d.count + d.tries <= n.count + n.tries + 1
    BY <1>9, <2>1
  <2>4. d.tries \in Nat
    BY <1>9, <2>1
  <2>5. QED
    BY <1>9, <2>1, <2>2, <2>3, <2>4 DEF Budgeted
<1>12. ~Random /\ Aimed(n) => Aimed(d) /\ Skips(n, d)
  BY <1>6, <1>7, <1>8 DEF Aimed, Skips
<1>13. QED
  BY <1>10, <1>11, <1>12 DEF KeepsDials, d

\* doAutoReconnect takes a retry from a budget that has one, and dials.
LEMMA DoAutoReconnectDials ==
  ASSUME Settings, NEW n \in NetType, NEW r \in ServerIndex
  PROVE  LET d == DoAutoReconnect(n, r)
         IN /\ /\ Steady /\ Budgeted(n) /\ n.count >= 1
               /\ n.reconnectTimer => n.count >= 2
               => Budgeted(d)
            /\ ~Random /\ Aimed(n) => Aimed(d) /\ Skips(n, d)
<1> DEFINE s == SpendRetry(n)
           c == ConnectToIrc(s, TRUE, r)
<1>1. s \in NetType /\ s.server = n.server /\ s.dialed = n.dialed /\ s.sock = n.sock
      /\ s.attemptFailed = n.attemptFailed /\ s.tries = n.tries
      /\ s.reconnectTimer = n.reconnectTimer
      /\ (n.count >= 1 => s.count = n.count - 1)
  <2>1. (IF n.count > 0 \/ n.count = Unlimited THEN n.count - 1 ELSE n.count)
           \in {Delayed, Unlimited} \cup 0 .. MaxRetries
    BY ConstantsAssumption DEF NetType, Unlimited, Delayed
  <2>2. n.count >= 1 => n.count > 0
    BY ConstantsAssumption DEF NetType, Unlimited, Delayed
  <2>3. QED
    BY <2>1, <2>2 DEF SpendRetry, NetType
<1>2. DoAutoReconnect(n, r) \in {n, c}
  BY DEF DoAutoReconnect
<1>3. /\ n.count \in Int /\ n.tries \in Nat /\ cfg.retries \in Nat
  BY ConstantsAssumption DEF NetType, Settings, ReconnectConfig, Delayed, Unlimited
<1> HIDE DEF s
<1>4. /\ Steady /\ Spent(s) => Budgeted(c)
      /\ ~Random /\ Aimed(s) => Aimed(c) /\ Skips(s, c)
  BY <1>1, ConnectToIrcDials
<1> HIDE DEF c
<1>5. /\ Budgeted(n) /\ n.count >= 1 /\ (n.reconnectTimer => n.count >= 2) => Spent(s)
      /\ Aimed(n) => Aimed(s)
      /\ Skips(s, c) => Skips(n, c)
  BY <1>1, <1>3 DEF Budgeted, Spent, Aimed, Skips
<1>6. Skips(n, n)
  BY DEF Skips
<1>7. QED
  BY <1>2, <1>4, <1>5, <1>6

\* the fields the dials depend on
Same(n, m) ==
  /\ m.count = n.count /\ m.tries = n.tries /\ m.reconnectTimer = n.reconnectTimer
  /\ m.server = n.server /\ m.dialed = n.dialed /\ m.attemptFailed = n.attemptFailed
  /\ m.sock # "Unconnected" => n.sock # "Unconnected"

LEMMA SameThen ==
  ASSUME NEW n, NEW m, NEW o, Same(n, m), KeepsDials(m, o)
  PROVE  KeepsDials(n, o)
BY DEF Same, KeepsDials, Budgeted, Aimed, Skips

LEMMA SameKeeps ==
  ASSUME NEW n, NEW m, Same(n, m)
  PROVE  KeepsDials(n, m)
BY DEF Same, KeepsDials, Budgeted, Aimed, Skips

\* socketDisconnected: a loss with the full budget dials at once, one with less of it waits
\* for the timer, and both leave a retry for every timer that runs.
LEMMA SocketDisconnectedDials ==
  ASSUME Settings, NEW n \in NetType, NEW r \in ServerIndex
  PROVE  KeepsDials(n, SocketDisconnected(n, r))
<1> DEFINE m == [StopTimers(n) EXCEPT !.connected = FALSE]
           w == [m EXCEPT !.connState = "Reconnecting"]
           q == [m EXCEPT !.quitRequested = FALSE, !.connState = "Disconnected",
                          !.restore = FALSE]
           t == StartReconnectTimer(w)
           d == DoAutoReconnect(w, r)
           s == SocketDisconnected(n, r)
<1>1. StopTimers(n) \in NetType
  BY Zeros DEF StopTimers, NetType
<1>2. m \in NetType /\ Same(n, m)
  BY <1>1 DEF NetType, Same, StopTimers
<1> HIDE DEF m
<1>3. w \in NetType /\ Same(m, w) /\ Same(m, q) /\ w.count = m.count
  BY <1>2 DEF NetType, ConnStates, Same
<1>4. m.count = n.count
  BY <1>2 DEF Same
<1> HIDE DEF w, q
<1>5. Same(n, w) /\ Same(n, q)
  BY <1>2, <1>3 DEF Same
<1>6. /\ t.count = w.count /\ t.tries = w.tries /\ t.reconnectTimer = TRUE
      /\ t.server = w.server /\ t.dialed = w.dialed /\ t.attemptFailed = w.attemptFailed
      /\ t.sock = w.sock
  BY <1>3 DEF StartReconnectTimer, NetType
<1>7. s \in {m, q} \/ (n.count # 0 /\ n.count \in {Unlimited, cfg.retries} /\ s = d)
      \/ (n.count # 0 /\ n.count \notin {Unlimited, cfg.retries} /\ s = t)
  BY DEF SocketDisconnected, m, w, q
<1>8. /\ n.count \in Int /\ n.tries \in Nat /\ cfg.retries \in Nat /\ Unlimited < 0
  BY ConstantsAssumption DEF NetType, Settings, ReconnectConfig, Delayed, Unlimited
<1> HIDE DEF s, t, d
<1>9. CASE s \in {m, q}
  BY <1>2, <1>5, <1>9, SameKeeps DEF s
<1>10. CASE n.count # 0 /\ n.count \in {Unlimited, cfg.retries} /\ s = d
  <2>1. /\ Steady /\ Budgeted(w) /\ w.count >= 1 /\ (w.reconnectTimer => w.count >= 2)
             => Budgeted(d)
        /\ ~Random /\ Aimed(w) => Aimed(d) /\ Skips(w, d)
    BY <1>3, DoAutoReconnectDials DEF d
  <2>2. Budgeted(n) => n.count = cfg.retries /\ n.count >= 1
                       /\ (n.reconnectTimer => n.count >= 2)
    BY <1>8, <1>10 DEF Budgeted
  <2>3. (Budgeted(n) => Budgeted(w)) /\ (Aimed(n) => Aimed(w)) /\ w.count = n.count
        /\ w.reconnectTimer = n.reconnectTimer /\ (Skips(w, d) => Skips(n, d))
    BY <1>5 DEF Same, Budgeted, Aimed, Skips
  <2>4. QED
    BY <1>10, <2>1, <2>2, <2>3 DEF KeepsDials, s
<1>11. CASE n.count # 0 /\ n.count \notin {Unlimited, cfg.retries} /\ s = t
  <2>1. Budgeted(n) => n.count >= 1 /\ cfg.retries >= 2
    BY <1>8, <1>11 DEF Budgeted
  <2>2. Budgeted(n) => Budgeted(t)
    BY <1>5, <1>6, <2>1 DEF Budgeted, Same
  <2>3. Aimed(n) => Aimed(t) /\ Skips(n, t)
    BY <1>5, <1>6 DEF Aimed, Skips, Same
  <2>4. QED
    BY <1>11, <2>2, <2>3 DEF KeepsDials, s
<1>12. QED
  BY <1>7, <1>9, <1>10, <1>11 DEF s

\* A socket that closes, whether or not an error was reported before.
LEMMA DisconnectedDials ==
  ASSUME Settings, NEW n \in NetType, NEW r \in ServerIndex
  PROVE  /\ KeepsDials(n, Disconnected(n, r))
         /\ ~Random /\ n.server = n.dialed => Aimed(Disconnected(n, r))
<1> DEFINE u == SocketStateChanged(n, "Unconnected")
<1>1. u \in NetType /\ Same(n, u) /\ u.sock = "Unconnected"
  <2>1. u \in NetType
    BY SocketStateChangedType DEF SockStates
  <2>2. QED
    BY <2>1 DEF SocketStateChanged, NetType, Same
<1>2. Disconnected(n, r) = SocketDisconnected(u, r)
  BY DEF Disconnected
<1> HIDE DEF u
<1>3. KeepsDials(u, Disconnected(n, r))
  BY <1>1, <1>2, SocketDisconnectedDials
<1>4. n.server = n.dialed => Aimed(u)
  BY <1>1 DEF Aimed, Same
<1>5. QED
  BY <1>1, <1>3, <1>4, SameThen DEF KeepsDials

LEMMA CloseSocketDials ==
  ASSUME Settings, NEW n \in NetType, NEW flushed \in BOOLEAN, NEW r \in ServerIndex
  PROVE  /\ KeepsDials(n, CloseSocket(n, flushed, r))
         /\ n.sock = "Unconnected" => CloseSocket(n, flushed, r) = n
<1> DEFINE p == [n EXCEPT !.pendingClose = TRUE]
           s == SocketStateChanged(n, "Closing")
<1>1. Same(n, n) /\ Same(n, p)
  BY DEF Same, NetType
<1>2. CASE n.sock \in {"Unconnected", "Connecting"}
  BY <1>1, <1>2, SameKeeps DEF CloseSocket
<1>3. CASE n.sock \notin {"Unconnected", "Connecting"}
  <2>1. CloseSocket(n, flushed, r) \in {Disconnected(n, r), s}
    BY <1>3 DEF CloseSocket
  <2>2. Same(n, s)
    BY <1>3 DEF Same, SocketStateChanged, NetType
  <2> HIDE DEF s
  <2>3. QED
    BY <1>3, <2>1, <2>2, SameKeeps, DisconnectedDials
<1>4. QED
  BY <1>2, <1>3

\* disconnectFromIrc either gives the budget up, with the timer, or keeps both.
LEMMA DisconnectFromIrcDials ==
  ASSUME Settings, NEW n \in NetType, NEW requested \in BOOLEAN,
         NEW withReconnect \in BOOLEAN, NEW flushed \in BOOLEAN, NEW r \in ServerIndex
  PROVE  KeepsDials(n, DisconnectFromIrc(n, requested, withReconnect, flushed, r))
<1> DEFINE m == BeginQuit(n, requested, withReconnect)
           c == CloseSocket(m, flushed, r)
           s == SocketDisconnected(c, r)
           a == AwaitServerClose(m)
           d == DisconnectFromIrc(n, requested, withReconnect, flushed, r)
<1>1. m \in NetType
  BY BeginQuitType
<1>2. /\ m.tries = n.tries /\ m.server = n.server /\ m.dialed = n.dialed
      /\ m.attemptFailed = n.attemptFailed /\ m.sock = n.sock
      /\ m.count = (IF withReconnect THEN n.count ELSE 0)
      /\ m.reconnectTimer = (n.reconnectTimer /\ withReconnect)
  BY DEF BeginQuit, NetType
<1>3. d = a \/ d = s
  BY DEF DisconnectFromIrc
<1> HIDE DEF m
<1>4. Same(m, a)
  BY <1>1 DEF AwaitServerClose, NetType, Same
<1>5. c \in NetType /\ KeepsDials(m, c) /\ (m.sock = "Unconnected" => c = m)
  BY <1>1, CloseSocketType, CloseSocketDials
<1> HIDE DEF c
<1>6. KeepsDials(c, s)
  BY <1>5, SocketDisconnectedDials
<1>7. KeepsDials(m, a)
  BY <1>4, SameKeeps
<1> HIDE DEF a, s, d
<1>8. Budgeted(n) => Budgeted(m)
  <2>1. n.tries \in Nat /\ n.count \in Int /\ cfg.retries \in Int
    BY ConstantsAssumption DEF NetType, Settings, ReconnectConfig, Delayed, Unlimited
  <2>2. CASE withReconnect
    BY <1>2, <2>2 DEF Budgeted
  <2>3. CASE ~withReconnect
    <3>1. m.count = 0 /\ ~m.reconnectTimer /\ m.tries = n.tries
      BY <1>2, <2>3
    <3>2. QED
      BY <2>1, <3>1 DEF Budgeted
  <2>4. QED
    BY <2>2, <2>3
<1>9. Aimed(n) => Aimed(m)
  BY <1>2 DEF Aimed
<1>10. Skips(m, d) => Skips(n, d)
  BY <1>2 DEF Skips
<1>11. KeepsDials(m, s)
  <2>1. ~Random /\ Aimed(m) => Skips(m, s)
    <3>1. CASE m.attemptFailed
      BY <1>5, <1>6, <3>1 DEF Aimed, KeepsDials
    <3>2. CASE ~m.attemptFailed
      BY <3>2 DEF Skips
    <3>3. QED
      BY <3>1, <3>2
  <2>2. QED
    BY <1>5, <1>6, <2>1 DEF KeepsDials
<1>12. KeepsDials(m, d)
  BY <1>3, <1>7, <1>11
<1>13. QED
  BY <1>8, <1>9, <1>10, <1>12 DEF KeepsDials, d

\* socketError: a dial that failed is remembered until the next one.
LEMMA SocketErrorDials ==
  ASSUME Settings, NEW n \in NetType, NEW remote \in BOOLEAN, NEW r \in ServerIndex
  PROVE  LET e == SocketError(n, remote, r)
         IN /\ Steady /\ Budgeted(n) => Budgeted(e)
            /\ n.sock = "Unconnected" /\ ~Random /\ Aimed(n) => Aimed(e)
            /\ n.sock \in {"Connected", "Closing"} => e.server = n.server /\ e.dialed = n.dialed
            /\ KeepsDials(n, SocketInitialized(n, r))
<1> DEFINE m == [n EXCEPT !.attemptFailed = TRUE]
           e == SocketError(n, remote, r)
           s == SocketDisconnected(m, r)
<1>1. /\ m \in NetType /\ m.count = n.count /\ m.tries = n.tries
      /\ m.reconnectTimer = n.reconnectTimer /\ m.server = n.server
      /\ m.dialed = n.dialed /\ m.sock = n.sock
  BY DEF NetType
<1>2. e \in {n, m, s} /\ (n.sock \in {"Connected", "Closing"} => e \in {n, m})
  BY DEF SocketError
<1> HIDE DEF m
<1>3. KeepsDials(m, s)
  BY <1>1, SocketDisconnectedDials
<1> HIDE DEF e, s
<1>4. (Budgeted(n) => Budgeted(m)) /\ (n.sock = "Unconnected" /\ Aimed(n) => Aimed(m))
  BY <1>1 DEF Budgeted, Aimed
<1>5. KeepsDials(n, SocketInitialized(n, r))
  <2>1. Same(n, n)
    BY DEF Same
  <2>2. SocketInitialized(n, r) \in {n, DisconnectFromIrc(n, TRUE, FALSE, FALSE, r)}
    BY DEF SocketInitialized
  <2>3. QED
    BY <2>1, <2>2, SameKeeps, DisconnectFromIrcDials
<1>6. QED
  BY <1>1, <1>2, <1>3, <1>4, <1>5 DEF KeepsDials, e

\* The budget of retries covers every dial while no client edits anything, and the server
\* in use is the one that was dialed.
DialInv ==
  /\ edits = 0 => identity
  /\ edits = 0 /\ ~cfg.unlimited => Budgeted(net)
  /\ ~Random => Aimed(net)

\* no restart, and a failed server is not dialed again
Moves == Skips(net, net') \/ \E r \in ServerIndex : RestartCore(r)

LEMMA DialStep ==
  ASSUME IInv, DialInv, [Next]_vars
  PROVE  DialInv' /\ (~Random => Moves)
<1> DEFINE Goal == DialInv' /\ (~Random => Moves)
<1>0. Settings /\ net \in NetType /\ edits \in Nat
  BY ConstantsAssumption DEF IInv, TypeOK, Settings
<1>e. Edit => edits' # 0
  BY <1>0 DEF Edit
<1>k. ASSUME KeepsDials(net, net'), UNCHANGED <<cfg, identity, edits>> PROVE Goal
  <2>1. (edits' = 0 => identity') /\ (~Random => Aimed(net)' /\ Moves)
    BY <1>k DEF DialInv, KeepsDials, Aimed, Moves
  <2>2. edits' = 0 /\ ~cfg'.unlimited => Budgeted(net)'
    BY <1>k DEF DialInv, KeepsDials, Steady, Budgeted
  <2>3. QED
    BY <2>1, <2>2 DEF DialInv
<1>s. ASSUME Same(net, net') , Edit PROVE Goal
  BY <1>e, <1>s DEF DialInv, Same, Aimed, Moves, Skips
<1>1. CASE UNCHANGED <<net, cfg, identity, edits>>
  <2>1. Same(net, net')
    BY <1>1 DEF Same
  <2>2. QED
    BY <1>1, <1>k, <2>1, SameKeeps
<1>2. ASSUME NEW r \in ServerIndex, RunConnect(r) PROVE Goal
  BY <1>0, <1>2, <1>k, ConnectToIrcDials DEF RunConnect
<1>3. ASSUME NEW r \in ServerIndex, NEW flushed \in BOOLEAN, HandleQuit(flushed, r)
      PROVE  Goal
  BY <1>0, <1>3, <1>k, DisconnectFromIrcDials DEF HandleQuit
<1>4. ASSUME NEW info \in Configs, SetNetworkInfo(info) PROVE Goal
  <2>1. /\ net'.server = net.server /\ net'.dialed = net.dialed /\ net'.sock = net.sock
        /\ net'.attemptFailed = net.attemptFailed
    BY <1>0, <1>4 DEF SetNetworkInfo, NetType
  <2>2. QED
    BY <1>4, <1>e, <2>1 DEF SetNetworkInfo, DialInv, Aimed, Moves, Skips
<1>5. ASSUME NEW on \in BOOLEAN, PingTimeoutEnabledSet(on) PROVE Goal
  <2>1. Same(net, net')
    BY <1>0, <1>5 DEF PingTimeoutEnabledSet, EnablePingTimeout, NetType, Same
  <2>2. QED
    BY <1>5, <1>s, <2>1 DEF PingTimeoutEnabledSet
<1>6. ASSUME NEW r \in ServerIndex, RestartCore(r) PROVE Goal
  <2>1. Moves
    BY <1>6 DEF Moves
  <2>2. UNCHANGED <<cfg, identity, edits>>
    BY <1>6 DEF RestartCore
  <2>3. Budgeted(Fresh(net.restore)) /\ Aimed(Fresh(net.restore))
    BY <1>0, ConstantsAssumption
       DEF Budgeted, Aimed, Fresh, Settings, ReconnectConfig
  <2>4. Fresh(net.restore) \in NetType
    BY <1>0, FreshType DEF NetType
  <2>5. CASE ~net.restore
    <3>1. net' = Fresh(net.restore)
      BY <1>0, <1>6, <2>5 DEF RestartCore, NetType
    <3>2. QED
      BY <2>1, <2>2, <2>3, <3>1 DEF DialInv, Budgeted, Aimed
  <2>6. CASE net.restore
    <3> DEFINE f == Fresh(net.restore)
    <3>1. net' = ConnectToIrc(f, FALSE, r)
      BY <1>0, <1>6, <2>6 DEF RestartCore, NetType
    <3> HIDE DEF f
    <3>2. f \in NetType /\ Budgeted(f) /\ Aimed(f)
      BY <2>3, <2>4 DEF f
    <3>3. KeepsDials(f, net')
      BY <1>0, <3>1, <3>2, ConnectToIrcDials
    <3>4. edits' = 0 /\ ~cfg'.unlimited => Budgeted(net)'
      BY <2>2, <3>2, <3>3 DEF KeepsDials, Steady, Budgeted, DialInv
    <3>5. (edits' = 0 => identity') /\ (~Random => Aimed(net)')
      BY <2>2, <3>2, <3>3 DEF KeepsDials, Aimed, DialInv
    <3>6. QED
      BY <2>1, <3>4, <3>5 DEF DialInv
  <2>7. QED
    BY <2>5, <2>6
<1>7. ASSUME NEW r \in ServerIndex, TcpConnected(r) PROVE Goal
  <2> DEFINE open == SocketStateChanged(net, "Connected")
             up   == SocketInitialized(open, r)
             kept == [up EXCEPT !.pendingClose = FALSE]
             shut == CloseSocket(kept, TRUE, r)
  <2>1. open \in NetType /\ Same(net, open)
    <3>1. open \in NetType
      BY <1>0, SocketStateChangedType DEF SockStates
    <3>2. QED
      BY <1>0, <1>7, <3>1 DEF TcpConnected, SocketStateChanged, NetType, Same
  <2>2. up \in NetType /\ KeepsDials(open, up)
    <3> HIDE DEF open
    <3>1. QED
      BY <1>0, <2>1, SocketErrorType, SocketErrorDials
  <2>3. kept \in NetType /\ Same(up, kept)
    <3> HIDE DEF up
    <3>1. QED
      BY <2>2 DEF NetType, Same
  <2>4. net' \in {up, shut} /\ UNCHANGED <<cfg, identity, edits>> /\ net.sock = "Connecting"
    BY <1>7 DEF TcpConnected
  <2> HIDE DEF open, up, kept
  <2>5. KeepsDials(kept, shut)
    BY <1>0, <2>3, CloseSocketDials
  <2> HIDE DEF shut
  <2>6. KeepsDials(net, up) /\ KeepsDials(up, shut)
    BY <2>1, <2>2, <2>3, <2>5, SameThen
  <2>7. KeepsDials(net, shut)
    BY <2>4, <2>6 DEF KeepsDials, Aimed, Skips
  <2>8. QED
    BY <1>k, <2>4, <2>6, <2>7
<1>8. ASSUME NEW r \in ServerIndex, TcpFails(r) PROVE Goal
  <2> DEFINE gone == SocketStateChanged(net, "Unconnected")
  <2>1. gone \in NetType /\ Same(net, gone) /\ gone.sock = "Unconnected"
    <3>1. gone \in NetType
      BY <1>0, SocketStateChangedType DEF SockStates
    <3>2. QED
      BY <1>0, <3>1 DEF SocketStateChanged, NetType, Same
  <2>2. net' = SocketError(gone, FALSE, r) /\ UNCHANGED <<cfg, identity, edits>>
        /\ net.sock = "Connecting"
    BY <1>8 DEF TcpFails
  <2> HIDE DEF gone
  <2>3. /\ Steady /\ Budgeted(gone) => Budgeted(net')
        /\ ~Random /\ Aimed(gone) => Aimed(net')
    BY <1>0, <2>1, <2>2, SocketErrorDials
  <2>4. KeepsDials(net, net')
    BY <2>1, <2>2, <2>3 DEF Same, KeepsDials, Budgeted, Aimed, Skips
  <2>5. QED
    BY <1>k, <2>2, <2>4
<1>9. ASSUME NEW r \in ServerIndex, NEW remote \in BOOLEAN, ConnectionLost(remote, r)
      PROVE  Goal
  <2> DEFINE e == SocketError(net, remote, r)
  <2>1. net' = Disconnected(e, r) /\ UNCHANGED <<cfg, identity, edits>>
        /\ net.sock \in {"Connected", "Closing"}
    BY <1>9 DEF ConnectionLost
  <2>2. e \in NetType
    BY <1>0, SocketErrorType
  <2>3. /\ Steady /\ Budgeted(net) => Budgeted(e)
        /\ e.server = net.server /\ e.dialed = net.dialed
    BY <1>0, <2>1, SocketErrorDials
  <2> HIDE DEF e
  <2>4. /\ KeepsDials(e, net')
        /\ ~Random /\ e.server = e.dialed => Aimed(net')
    BY <1>0, <2>1, <2>2, DisconnectedDials
  <2>5. KeepsDials(net, net')
    BY <2>1, <2>3, <2>4 DEF KeepsDials, Aimed, Skips
  <2>6. QED
    BY <1>k, <2>1, <2>5
<1>10. ASSUME NEW r \in ServerIndex, SocketClosed(r) PROVE Goal
  BY <1>0, <1>10, <1>k, DisconnectedDials DEF SocketClosed
<1>11. CASE ProcessWelcome
  <2>1. CASE net.connState = "Initializing"
    <3>1. /\ net'.tries = 0 /\ net'.server = net.server /\ net'.dialed = net.dialed
          /\ net'.attemptFailed = net.attemptFailed /\ net'.sock = net.sock
          /\ net'.reconnectTimer = net.reconnectTimer
          /\ net'.count = IF cfg.use THEN Retries ELSE net.count
      BY <1>0, <1>11, <2>1
         DEF ProcessWelcome, SetMyNick, NetworkInitialized, Rearmed, NetType
    <3>2. ~cfg.unlimited => Retries = cfg.retries
      BY DEF Retries
    <3>3. /\ net.count \in Int /\ net.tries \in Nat /\ cfg.retries \in Nat
      BY <1>0, ConstantsAssumption
         DEF NetType, Settings, ReconnectConfig, Delayed, Unlimited
    <3>4. Steady /\ Budgeted(net) => Budgeted(net')
      <4> SUFFICES ASSUME Steady, Budgeted(net) PROVE Budgeted(net')
        OBVIOUS
      <4>1. CASE cfg.use
        BY <3>1, <3>2, <3>3, <4>1 DEF Budgeted, Steady
      <4>2. CASE ~cfg.use
        BY <3>1, <3>3, <4>2 DEF Budgeted
      <4>3. QED
        BY <4>1, <4>2
    <3>5. Aimed(net) => Aimed(net') /\ Skips(net, net')
      BY <3>1 DEF Aimed, Skips
    <3>6. QED
      BY <1>11, <1>k, <3>4, <3>5 DEF ProcessWelcome, KeepsDials
  <2>2. CASE net.connState # "Initializing"
    BY <1>1, <1>11, <2>2 DEF ProcessWelcome, SetMyNick
  <2>3. QED
    BY <2>1, <2>2
<1>12. CASE ResetPingTimeout
  <2>1. Same(net, net') /\ UNCHANGED <<cfg, identity, edits>>
    BY <1>0, <1>12 DEF ResetPingTimeout, NetType, Same
  <2>2. QED
    BY <1>k, <2>1, SameKeeps
<1>13. ASSUME NEW r \in ServerIndex, AutoReconnectTimeout(r) PROVE Goal
  <2> DEFINE n == [net EXCEPT !.reconnectTimer = FALSE]
  <2>1. /\ n \in NetType /\ n.count = net.count /\ n.tries = net.tries
        /\ n.reconnectTimer = FALSE /\ n.server = net.server /\ n.dialed = net.dialed
        /\ n.attemptFailed = net.attemptFailed /\ n.sock = net.sock
    BY <1>0 DEF NetType
  <2>2. net' = DoAutoReconnect(n, r) /\ net.reconnectTimer
        /\ UNCHANGED <<cfg, identity, edits>>
    BY <1>13 DEF AutoReconnectTimeout
  <2> HIDE DEF n
  <2>3. /\ Steady /\ Budgeted(n) /\ n.count >= 1 => Budgeted(net')
        /\ ~Random /\ Aimed(n) => Aimed(net') /\ Skips(n, net')
    BY <1>0, <2>1, <2>2, DoAutoReconnectDials
  <2>4. /\ Budgeted(net) => Budgeted(n) /\ n.count >= 1
        /\ Aimed(net) => Aimed(n)
        /\ Skips(n, net') => Skips(net, net')
    BY <2>1, <2>2 DEF Budgeted, Aimed, Skips
  <2>5. QED
    BY <1>k, <2>2, <2>3, <2>4 DEF KeepsDials
<1>14. ASSUME NEW r \in ServerIndex, NEW flushed \in BOOLEAN, SocketCloseTimeout(flushed, r)
       PROVE  Goal
  <2> DEFINE n == [net EXCEPT !.closeTimer = FALSE]
  <2>1. n \in NetType /\ Same(net, n)
    BY <1>0 DEF NetType, Same
  <2>2. net' = CloseSocket(n, flushed, r) /\ UNCHANGED <<cfg, identity, edits>>
    BY <1>14 DEF SocketCloseTimeout
  <2> HIDE DEF n
  <2>3. KeepsDials(n, net')
    BY <1>0, <2>1, <2>2, CloseSocketDials
  <2>4. QED
    BY <1>k, <2>1, <2>2, <2>3, SameThen
<1>15. ASSUME NEW r \in ServerIndex, NEW flushed \in BOOLEAN, NEW onTime \in BOOLEAN,
              PingTimeout(onTime, flushed, r)
       PROVE  Goal
  <2> DEFINE p == [net EXCEPT !.pingCount = IF @ < MaxPing THEN @ + 1 ELSE @]
             d == DisconnectFromIrc(net, FALSE, TRUE, flushed, r)
  <2>1. net' \in {p, d} /\ UNCHANGED <<cfg, identity, edits>>
    BY <1>15 DEF PingTimeout, SendPing
  <2>2. Same(net, p)
    BY <1>0 DEF NetType, Same
  <2>3. KeepsDials(net, d)
    BY <1>0, DisconnectFromIrcDials
  <2> HIDE DEF p, d
  <2>4. KeepsDials(net, net')
    BY <2>1, <2>2, <2>3, SameKeeps
  <2>5. QED
    BY <1>k, <2>1, <2>4
<1>16. CASE RemoveIdentity
  <2>1. Same(net, net')
    BY <1>16 DEF RemoveIdentity, Same
  <2>2. QED
    BY <1>16, <1>s, <2>1 DEF RemoveIdentity
<1>17. CASE RequestConnect \/ ReceiveWelcome \/ GoSilent \/ UNCHANGED vars
  BY <1>1, <1>17 DEF RequestConnect, ReceiveWelcome, GoSilent, vars
<1>18. QED
  BY <1>2, <1>3, <1>4, <1>5, <1>6, <1>7, <1>8, <1>9, <1>10, <1>11, <1>12, <1>13, <1>14,
     <1>15, <1>16, <1>17
     DEF Next, UserStep, ServerStep, CoreStep, RequestDisconnect

LEMMA DialInvariance == Spec => [](IInv /\ DialInv)
<1>1. Init => IInv /\ DialInv
  <2>1. Init => TypeOK
    BY InitType
  <2>2. Init => Budgeted(net) /\ Aimed(net)
    BY ConstantsAssumption DEF Init, Budgeted, Aimed, Fresh, ReconnectConfig
  <2>3. QED
    BY <2>1, <2>2 DEF Init, IInv, DialInv, Fresh, Sound
<1>2. IInv /\ DialInv /\ [Next]_vars => DialInv'
  BY DialStep
<1>3. QED
  BY <1>1, <1>2, InvStep, PTL DEF Spec

\* Left alone, the core never makes more dials on its own than the user allows, for every
\* number of retries and of servers, whether they are taken in turn or at random, and with
\* losses, timeouts, quits and restarts between any two of them.
THEOREM AttemptsBoundedHolds == Spec => []AttemptsBounded
<1>1. IInv /\ DialInv => AttemptsBounded
  <2>1. IInv => net.count \in Int /\ net.tries \in Nat /\ cfg.retries \in Nat
    BY ConstantsAssumption
       DEF IInv, TypeOK, NetType, ReconnectConfig, Delayed, Unlimited
  <2>2. QED
    BY <2>1 DEF DialInv, AttemptsBounded, Budgeted
<1>2. QED
  BY <1>1, DialInvariance, PTL

\* Where servers are taken in turn and there is a second one, every dial is the right one:
\* its number, its server and its password.  (A random choice may move on while a dial is
\* under way, and may hit the failed server again.)
THEOREM DialsRightHolds ==
  ASSUME ~Random, NServers > 1
  PROVE  Spec => DialsRight
<1>1. DialInv => PasswordForDialedServer
  BY DEF DialInv, Aimed, PasswordForDialedServer
<1> DEFINE Step == net.attemptFailed /\ ~net'.attemptFailed /\ net'.sock = "Connecting"
                     => net'.dialed # net.dialed \/ \E r \in ServerIndex : RestartCore(r)
<1>2. IInv /\ DialInv /\ [Next]_vars => [Step]_vars
  BY DialStep DEF Moves, Skips
<1>3. Spec => [][Step]_vars
  <2> HIDE DEF Step
  <2>1. QED
    BY <1>2, DialInvariance, PTL DEF Spec
<1>4. FailedServerSkipped <=> [][Step]_vars
  BY DEF FailedServerSkipped
<1>5. QED
  BY <1>1, <1>3, <1>4, DialInvariance, AttemptsBoundedHolds, PTL DEF DialsRight
=============================================================================
