-------------------------------- MODULE Attach --------------------------------
(***************************************************************************)
(* How clients get to the session of their user and leave it: the          *)
(* handshake with the core (core/core.cpp, sessionthread.cpp,              *)
(* coresession.cpp), the peers of the session's SignalProxy, and the       *)
(* client's side (client/coreconnection.cpp) with its automatic            *)
(* reconnects.  One user.  Both directions of a socket are FIFO.  A name   *)
(* with a suffix after an underscore is a faulty variant of the definition *)
(* below it.                                                               *)
(***************************************************************************)
EXTENDS Integers, SequencesExt

CONSTANTS
  Clients,
  Sockets,     \* numbers; as many as can be in use at a time, see Unused
  Networks,    \* ids of networks; one is never reused
  Nets0,       \* those the core has at the start
  MaxBeats,    \* maxHeartBeatCount() of the core
  MaxActs      \* bound on what users and the outside world do

ASSUME AttachAssumption ==
  /\ Nets0 \subseteq Networks /\ MaxBeats \in Nat /\ MaxActs \in Nat
  /\ Sockets \subseteq Nat \ {0} /\ Cardinality(Sockets) >= MaxActs

VARIABLES
  configured,   \* _configured
  listening,    \* the servers listen
  session,      \* the SessionThread: "none", "starting" or "ready"
  nets, made,   \* the session's _networks; ids given out
  sock,         \* the sockets, see Closed
  client,       \* the clients, see Detached
  wish,         \* history: the user wants the client to be attached
  acts          \* history: how much users and the outside world did

coreVars == <<configured, listening, session>>
netVars == <<nets, made>>
attachVars == <<coreVars, netVars, sock, client, wish, acts>>

\* phase, of the core's end: "off"; "dialing" before it is accepted; "fresh" and, after
\* ClientInit, "init"; "posted" in an AddClientEvent, "queued" in clientQueue and "moved"
\* in an addRemoteClient signal; "peer" of the SignalProxy; "orphan" if it did not become
\* one.  link: "up"; "broken", which both ends hear of; "silent", of which neither does;
\* "dead" if the closing was signalled while nobody listened.
Closed == [phase |-> "off", link |-> "up", beats |-> 0, up |-> << >>, down |-> << >>]

Sock0 == 0   \* no socket

\* peer: _socket is a peer of the client's SignalProxy.
Detached == [state |-> "disconnected", sock |-> Sock0, peer |-> FALSE, want |-> FALSE,
             timer |-> FALSE, nets |-> {}, toSync |-> {}]

AttachInit ==
  /\ configured \in BOOLEAN /\ listening = TRUE
  /\ session = "none"
  /\ nets = (IF configured THEN Nets0 ELSE {}) /\ made = Nets0
  /\ sock = [s \in Sockets |-> Closed] /\ client = [c \in Clients |-> Detached]
  /\ wish = [c \in Clients |-> FALSE] /\ acts = 0

Act == acts < MaxActs /\ acts' = acts + 1   \* bound

Waiting == {"posted", "queued", "moved"}
\* the client that has socket s
Holder(s) == {c \in Clients : client[c].sock = s}

\* a socket that neither end has any more
Tidy(s, t) == IF t.phase = "off" /\ Holder(s) = {} THEN Closed ELSE t
Freed(s) == [sock EXCEPT ![s] = IF @.phase \in {"off", "dialing"} THEN Closed
                                 ELSE [@ EXCEPT !.down = << >>]]

Peers(socks) == {s \in Sockets : socks[s].phase = "peer"}

\* what is written to a socket that does not work any more is lost
Works(s) == Holder(s) # {} /\ sock[s].link = "up"
Send(socks, s, m) == IF Works(s) THEN [socks EXCEPT ![s].down = Append(@, m)] ELSE socks
Tell(m) ==
  [s \in Sockets |-> IF s \in Peers(sock) /\ Works(s)
                       THEN [sock[s] EXCEPT !.down = Append(@, m)] ELSE sock[s]]

-----------------------------------------------------------------------------
(* the core before the session *)

\* and coreSocketConnected; a core that is not set up takes one client at a time
IncomingConnection(s) ==
  /\ sock[s].phase = "dialing" /\ Holder(s) # {} /\ listening
  /\ sock' = [sock EXCEPT ![s].phase = "fresh", ![s].up = <<[op |-> "ClientInit"]>>]
  /\ listening' = configured
  /\ UNCHANGED <<configured, session, netVars, client, wish, acts>>

ClientInit(s) ==
  /\ sock' = Send([sock EXCEPT ![s].phase = "init", ![s].up = Tail(@)], s,
                  [op |-> "ClientInitAck", configured |-> configured])
  /\ UNCHANGED <<coreVars, acts>>

\* setupCore
CoreSetupData(s) ==
  \E ok \in BOOLEAN :
    /\ (configured => ~ok)
    /\ IF ok \/ configured THEN UNCHANGED acts ELSE Act
    /\ configured' = (configured \/ ok) /\ listening' = (listening \/ ok)
    /\ sock' = Send([sock EXCEPT ![s].up = Tail(@)], s,
                    [op |-> IF ok THEN "CoreSetupAck" ELSE "CoreSetupReject"])
    /\ UNCHANGED session

\* setupClientSession: nobody listens to the socket until it is a peer.
ClientLogin(s) ==
  \/ /\ sock' = Send([sock EXCEPT ![s].phase = "posted", ![s].up = Tail(@)], s,
                     [op |-> "ClientLoginAck"])
     /\ session' = IF session = "none" THEN "starting" ELSE session
     /\ UNCHANGED <<configured, listening, acts>>
  \/ /\ Act   \* a wrong password
     /\ sock' = Send([sock EXCEPT ![s].up = Tail(@)], s, [op |-> "ClientLoginReject"])
     /\ UNCHANGED coreVars

ProcessClientMessage(s) ==
  /\ sock[s].phase \in {"fresh", "init"} /\ sock[s].up # << >>
  /\ LET op == Head(sock[s].up).op
     IN \/ op = "ClientInit" /\ ClientInit(s)
        \/ op = "CoreSetupData" /\ CoreSetupData(s)
        \/ op = "ClientLogin" /\ ClientLogin(s)
  /\ UNCHANGED <<netVars, client, wish>>

AddClientEvent(s) ==
  /\ sock[s].phase = "posted"
  /\ sock' = [sock EXCEPT ![s].phase = IF session = "ready" THEN "moved" ELSE "queued"]
  /\ UNCHANGED <<coreVars, netVars, client, wish, acts>>

Queue_Kept == sock
Queue == [s \in Sockets |-> IF sock[s].phase = "queued" THEN [sock[s] EXCEPT !.phase = "moved"]
                            ELSE sock[s]]

SetSessionInitialized ==
  /\ session = "starting"
  /\ session' = "ready"
  /\ sock' = Queue
  /\ UNCHANGED <<configured, listening, netVars, client, wish, acts>>

-----------------------------------------------------------------------------
(* the session: peers *)

\* whether a socket that was closed still counts as open is up to Qt
SessionInit_Early == Nets0
SessionInit == nets
AddClient(s) ==
  /\ sock[s].phase = "moved" /\ session = "ready"
  /\ \/ sock' = Send([sock EXCEPT ![s].phase = "peer", ![s].beats = 0], s,
                     [op |-> "SessionInit", nets |-> SessionInit])
     \/ sock[s].link = "dead" /\ sock' = [sock EXCEPT ![s].phase = "orphan"]
  /\ UNCHANGED <<coreVars, netVars, client, wish, acts>>

\* an InitRequest; one for a network that is gone is not answered
ReceivePeerSignal(s) ==
  /\ sock[s].phase = "peer" /\ sock[s].up # << >>
  /\ LET n == Head(sock[s].up).net
         t == [sock EXCEPT ![s].up = Tail(@), ![s].beats = 0]
     IN sock' = IF n \in nets THEN Send(t, s, [op |-> "InitData", net |-> n]) ELSE t
  /\ UNCHANGED <<coreVars, netVars, client, wish, acts>>

\* A heartbeat and its answer.
ReceiveHeartBeatReply(s) ==
  /\ sock[s].phase = "peer" /\ sock[s].link = "up"
  /\ \E c \in Holder(s) : client[c].peer
  /\ sock[s].beats > 0
  /\ sock' = [sock EXCEPT ![s].beats = 0]
  /\ UNCHANGED <<coreVars, netVars, client, wish, acts>>

\* A peer that does not answer is closed; a dead one cannot be closed again.
Beaten_Reset(t) ==
  IF t.beats < MaxBeats THEN [t EXCEPT !.beats = 0] ELSE [t EXCEPT !.phase = "off"]
Beaten(t) ==
  IF t.beats < MaxBeats THEN [t EXCEPT !.beats = @ + 1]
  ELSE IF t.link = "dead" THEN t
  ELSE [t EXCEPT !.phase = "off"]

\* A link that works brings an answer within MaxBeats heartbeats.
InTime == \A s \in Peers(sock) : sock[s].beats = MaxBeats => ~Works(s)

SendHeartBeat ==
  /\ InTime
  /\ sock' = [s \in Sockets |-> IF sock[s].phase = "peer" THEN Tidy(s, Beaten(sock[s])) ELSE sock[s]]
  /\ UNCHANGED <<coreVars, netVars, client, wish, acts>>

\* the core's end hears that the client closed, or that the link broke
SocketDisconnected(s) ==
  /\ sock[s].phase \notin {"off", "dialing", "orphan"}
  /\ \/ sock[s].link = "broken"
     \/ sock[s].link = "up" /\ Holder(s) = {} /\ sock[s].up = << >>
  /\ IF sock[s].phase \in Waiting
       THEN sock' = [sock EXCEPT ![s].link = "dead"] /\ UNCHANGED listening
       ELSE /\ sock' = [sock EXCEPT ![s] = Tidy(s, [@ EXCEPT !.phase = "off"])]
            /\ listening' = (listening \/ (~configured /\ sock[s].phase # "peer"))
  /\ UNCHANGED <<configured, session, netVars, client, wish, acts>>

CreateNetwork(n) ==
  /\ Act
  /\ session = "ready" /\ n \notin made
  /\ nets' = nets \union {n} /\ made' = made \union {n}
  /\ sock' = Tell([op |-> "networkCreated", net |-> n])
  /\ UNCHANGED <<coreVars, client, wish>>

DestroyNetwork(n) ==
  /\ Act
  /\ session = "ready" /\ n \in nets
  /\ nets' = nets \ {n}
  /\ sock' = Tell([op |-> "networkRemoved", net |-> n])
  /\ UNCHANGED <<coreVars, made, client, wish>>

\* The core ends and starts again; a session may be restored.
Restart ==
  /\ Act
  /\ listening' = TRUE
  /\ session' \in IF configured THEN {"none", "starting"} ELSE {"none"}
  /\ sock' = [s \in Sockets |->
                IF sock[s].phase = "dialing" THEN sock[s]
                ELSE Tidy(s, [Closed EXCEPT !.link = IF sock[s].link = "silent" THEN "silent" ELSE "broken"])]
  /\ UNCHANGED <<configured, netVars, client, wish>>

-----------------------------------------------------------------------------
(* the client *)

\* resetConnection; setState(Disconnected) empties the client's models
Reset(k, want) ==
  [Detached EXCEPT !.want = want, !.timer = k.timer \/ want]

\* disconnectFromCore.  Removing the peer signals its disconnection, which resets the
\* connection as one that was lost.
Lost(k) == IF k.peer THEN Reset(k, TRUE) ELSE k
DisconnectFromCore_ResetFirst(k, want) == Lost([k EXCEPT !.timer = FALSE])
DisconnectFromCore(k, want) == Reset(Lost([k EXCEPT !.timer = @ /\ want]), want)

Unused == {s \in Sockets : sock[s] = Closed /\ Holder(s) = {}}

LetGo(c) == IF client[c].sock = Sock0 THEN sock ELSE Freed(client[c].sock)

\* connectToCurrentAccount; a socket the client still has is closed
Dial(c, k) ==
  \E s \in Unused :
    /\ \A t \in Unused : s <= t   \* which one makes no difference
    /\ client' = [client EXCEPT ![c] = [Reset(k, FALSE) EXCEPT !.sock = s,
                                                              !.state = "connecting"]]
    /\ sock' = [LetGo(c) EXCEPT ![s].phase = "dialing"]

ConnectToCore(c) ==
  /\ Act
  /\ client[c].state \in {"disconnected", "connecting"}
  /\ Dial(c, client[c])
  /\ wish' = [wish EXCEPT ![c] = TRUE]
  /\ UNCHANGED <<coreVars, netVars>>

ReconnectTimeout(c) ==
  /\ client[c].timer
  /\ LET k == [client[c] EXCEPT !.timer = FALSE]
     IN IF k.sock = Sock0 /\ k.want
          THEN Dial(c, k)
          ELSE client' = [client EXCEPT ![c] = k] /\ UNCHANGED sock
  /\ UNCHANGED <<coreVars, netVars, wish, acts>>

\* what the client does with its connection alone
Disconnects(c) ==
  /\ client' = [client EXCEPT ![c] = DisconnectFromCore(@, FALSE)]
  /\ sock' = LetGo(c)
  /\ wish' = [wish EXCEPT ![c] = FALSE]
  /\ UNCHANGED <<coreVars, netVars>>

\* the user, who can do so only when there is a connection
UserDisconnects(c) ==
  /\ Act
  /\ client[c].state \notin {"disconnected", "connecting"}
  /\ Disconnects(c)

\* the client hears that the core closed, that the link broke, or that there is nobody
CoreSocketDisconnected(c) ==
  LET s == client[c].sock
      t == sock[s]
  IN /\ s # Sock0
     /\ \/ t.link \in {"broken", "dead"}
        \/ t.phase = "dialing" /\ ~listening
        \/ t.phase = "off" /\ t.link = "up" /\ t.down = << >>
     /\ client' = [client EXCEPT ![c] = DisconnectFromCore(@, TRUE)]
     /\ sock' = LetGo(c)
     /\ UNCHANGED <<coreVars, netVars, wish, acts>>

\* the client's own heartbeats are not answered
ClientPingTimeout(c) ==
  /\ client[c].peer /\ sock[client[c].sock].link = "silent"
  /\ client' = [client EXCEPT ![c] = DisconnectFromCore(@, TRUE)]
  /\ sock' = LetGo(c)
  /\ UNCHANGED <<coreVars, netVars, wish, acts>>

\* checkSyncState
Checked(k) ==
  IF k.toSync = {} /\ k.state \in {"synchronizing", "synchronized"}
    THEN [k EXCEPT !.state = "synchronized"] ELSE k

Requests(S) == LET s == SetToSeq(S) IN [i \in DOMAIN s |-> [op |-> "InitRequest", net |-> s[i]]]

\* networkInitDone: a network is initialized or destroyed
InitDone(k, n) == Checked([k EXCEPT !.toSync = @ \ {n}])

\* A network that was removed is destroyed, which ends the wait for it as well.
Removed_StillAwaited(k, n) == [k EXCEPT !.nets = @ \ {n}]
Removed(k, n) == InitDone([k EXCEPT !.nets = @ \ {n}], n)

\* What message m of the core makes of client k, and what k asks for.
Told(k, m) ==
  CASE m.op = "ClientLoginAck" -> [k EXCEPT !.timer = FALSE, !.state = "synchronizing"]
    [] m.op = "SessionInit" ->
         Checked([k EXCEPT !.peer = TRUE, !.nets = m.nets, !.toSync = m.nets])
    [] m.op = "networkCreated" -> [k EXCEPT !.nets = @ \union {m.net}]
    [] m.op = "networkRemoved" -> Removed(k, m.net)
    [] m.op = "InitData" -> InitDone(k, m.net)
    [] m.op \in {"ClientInitAck", "CoreSetupAck", "CoreSetupReject", "ClientLoginReject"} ->
         [k EXCEPT !.state = "connected"]

Asked(k, m) ==
  CASE m.op = "SessionInit" -> Requests(m.nets \ k.nets)
    [] m.op = "networkCreated" -> Requests({m.net} \ k.nets)
    [] OTHER -> << >>

\* Messages the user answers: with the name and password, or the wizard's data.
Answer(m) ==
  CASE m.op = "ClientInitAck" -> IF m.configured THEN {"ClientLogin"} ELSE {"CoreSetupData"}
    [] m.op = "CoreSetupAck" -> {"ClientLogin"}
    [] m.op = "CoreSetupReject" -> {"CoreSetupData"}
    [] m.op = "ClientLoginReject" -> {"ClientLogin"}
    [] OTHER -> {}

ClientReceives(c) ==
  LET s == client[c].sock
      m == Head(sock[s].down)
  IN /\ s # Sock0 /\ sock[s].link = "up" /\ sock[s].down # << >>
     /\ \/ /\ client' = [client EXCEPT ![c] = Told(@, m)]
           /\ sock' = [sock EXCEPT ![s].down = Tail(@),
                                   ![s].up = @ \o Asked(client[c], m)
                                               \o SetToSeq({[op |-> a] : a \in Answer(m)})]
           /\ UNCHANGED <<coreVars, netVars, wish, acts>>
        \/ /\ Answer(m) # {}   \* the user cancels
           /\ Act
           /\ Disconnects(c)

-----------------------------------------------------------------------------
(* the network between them *)

LinkBreaks(s) ==
  /\ Act
  /\ sock[s].phase # "off" /\ sock[s].link = "up" /\ Holder(s) # {}
  /\ sock' = [sock EXCEPT ![s].link = "broken", ![s].up = << >>, ![s].down = << >>]
  /\ UNCHANGED <<coreVars, netVars, client, wish>>

\* between two SignalProxies only: nothing would end a handshake on a silent link
LinkFallsSilent(s) ==
  /\ Act
  /\ sock[s].phase = "peer" /\ sock[s].link = "up" /\ \E c \in Holder(s) : client[c].peer
  /\ sock' = [sock EXCEPT ![s].link = "silent", ![s].up = << >>, ![s].down = << >>]
  /\ UNCHANGED <<coreVars, netVars, client, wish>>

CoreStep ==
  \/ \E s \in Sockets : IncomingConnection(s) \/ ProcessClientMessage(s) \/ AddClientEvent(s)
                        \/ AddClient(s) \/ ReceivePeerSignal(s) \/ ReceiveHeartBeatReply(s)
                        \/ SocketDisconnected(s)
  \/ SetSessionInitialized \/ SendHeartBeat

ClientStep(c) ==
  ReconnectTimeout(c) \/ CoreSocketDisconnected(c) \/ ClientPingTimeout(c) \/ ClientReceives(c)

AttachNext ==
  \/ CoreStep \/ Restart
  \/ \E n \in Networks : CreateNetwork(n) \/ DestroyNetwork(n)
  \/ \E c \in Clients : ClientStep(c) \/ ConnectToCore(c) \/ UserDisconnects(c)
  \/ \E s \in Sockets : LinkBreaks(s) \/ LinkFallsSilent(s)

AttachSpec == AttachInit /\ [][AttachNext]_attachVars

\* The event loops run, timers fire, links carry what is sent, and users answer what they
\* are asked.
AttachFairness ==
  /\ WF_attachVars(\E s \in Sockets : IncomingConnection(s))
  /\ WF_attachVars(\E s \in Sockets : ProcessClientMessage(s))
  /\ WF_attachVars(\E s \in Sockets : AddClientEvent(s))
  /\ WF_attachVars(\E s \in Sockets : AddClient(s))
  /\ WF_attachVars(\E s \in Sockets : ReceivePeerSignal(s))
  /\ WF_attachVars(\E s \in Sockets : ReceiveHeartBeatReply(s))
  /\ WF_attachVars(\E s \in Sockets : SocketDisconnected(s))
  /\ WF_attachVars(SetSessionInitialized) /\ WF_attachVars(SendHeartBeat)
  /\ \A c \in Clients :
       /\ WF_attachVars(ReconnectTimeout(c)) /\ WF_attachVars(CoreSocketDisconnected(c))
       /\ WF_attachVars(ClientPingTimeout(c)) /\ WF_attachVars(ClientReceives(c))

FairAttachSpec == AttachSpec /\ AttachFairness

-----------------------------------------------------------------------------
\* The user's last word counts: a client that was told to disconnect, or whose dialog was
\* cancelled, has no connection and makes none, although losing its peer makes it start the
\* reconnect timer first.
StaysDetached == \A c \in Clients : ~wish[c] => client[c].sock = Sock0

\* A client the user wants to be attached gets its session's state in the end, whatever
\* broke: its link at any moment, the core, the networks it waits for.
Reattaches == \A c \in Clients : wish[c] ~> (client[c].state = "synchronized" \/ ~wish[c])

\* Once all is delivered an attached client has the session's networks, including those
\* made or removed at any moment between its login and its SessionInit.
NetworksAgree ==
  \A c \in Clients :
    LET s == client[c].sock
    IN client[c].peer /\ sock[s].link = "up" /\ sock[s].phase = "peer"
         /\ sock[s].down = << >> => client[c].nets = nets

\* The core does not keep a peer whose client is gone, even if nothing tells it so; except
\* one whose closing was signalled while nobody listened.
PeersGo ==
  \A s \in Sockets :
    (sock[s].phase = "peer" /\ Holder(s) = {})
      ~> (sock[s].phase # "peer" \/ sock[s].link = "dead" \/ Holder(s) # {})

=============================================================================
