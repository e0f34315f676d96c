----------------------------- MODULE AttachProofs -----------------------------
(* Theorems about Attach and DetachAway, for any clients, sockets, networks, messages   *)
(* and bounds.                                                                         *)
EXTENDS Attach, DetachAway, SequenceTheorems, TLAPS

\* A client that nothing will bring back: without a socket and a peer nothing it hears of
\* makes it want to reconnect, and its timer, which may be running, finds it does not.
Gone(k) ==
  /\ DOMAIN k = {"state", "sock", "peer", "want", "timer", "nets", "toSync"}
  /\ k.sock = Sock0 /\ k.want = FALSE /\ k.peer = FALSE

IInv ==
  /\ DOMAIN client = Clients /\ DOMAIN wish = Clients
  /\ \A c \in Clients : ~wish[c] => Gone(client[c])

\* However the connection was lost on the way, a reset without a wish leaves nothing.
LEMMA DisconnectedIsGone ==
  ASSUME NEW k
  PROVE  Gone(DisconnectFromCore(k, FALSE))
BY DEF DisconnectFromCore, Reset, Detached, Gone

\* What changes one client, and how, with the user's wish.
LEMMA OneClient ==
  ASSUME IInv, NEW c \in Clients, NEW k, client' = [client EXCEPT ![c] = k],
         \/ wish' = wish /\ (~wish[c] => Gone(k))
         \/ wish' = [wish EXCEPT ![c] = TRUE]
         \/ wish' = [wish EXCEPT ![c] = FALSE] /\ Gone(k)
  PROVE  IInv'
BY DEF IInv

LEMMA Unchanged ==
  ASSUME IInv, UNCHANGED <<client, wish>>
  PROVE  IInv'
BY DEF IInv

LEMMA DisconnectsStep ==
  ASSUME IInv, NEW c \in Clients, Disconnects(c)
  PROVE  IInv'
<1>1. client' = [client EXCEPT ![c] = DisconnectFromCore(client[c], FALSE)]
  BY DEF Disconnects, IInv
<1>2. wish' = [wish EXCEPT ![c] = FALSE]
  BY DEF Disconnects
<1>3. QED
  BY <1>1, <1>2, DisconnectedIsGone, OneClient

\* The timer dials only where a reconnect is wanted.
LEMMA ReconnectStep ==
  ASSUME IInv, NEW c \in Clients, ReconnectTimeout(c)
  PROVE  IInv'
<1> DEFINE k == [client[c] EXCEPT !.timer = FALSE]
<1>1. wish' = wish
  BY DEF ReconnectTimeout
<1>2. ~wish[c] => Gone(k)
  BY DEF IInv, Gone
<1>3. CASE k.sock = Sock0 /\ k.want
  <2>1. wish[c]
    BY <1>2, <1>3 DEF Gone
  <2>2. \E d : client' = [client EXCEPT ![c] = d]
    BY <1>3 DEF ReconnectTimeout, Dial
  <2>3. QED
    BY <1>1, <2>1, <2>2, OneClient
<1>4. CASE ~(k.sock = Sock0 /\ k.want)
  <2>1. client' = [client EXCEPT ![c] = k]
    BY <1>4 DEF ReconnectTimeout
  <2>2. QED
    BY <1>1, <1>2, <2>1, OneClient
<1>5. QED
  BY <1>3, <1>4

\* A connection is lost, or heard of, only by a client the user wants.
LEMMA ClientStepStep ==
  ASSUME IInv, NEW c \in Clients, ClientStep(c)
  PROVE  IInv'
<1>1. CASE ReconnectTimeout(c)
  BY <1>1, ReconnectStep
<1>2. CASE CoreSocketDisconnected(c)
  <2>1. wish[c] /\ wish' = wish
    BY <1>2 DEF CoreSocketDisconnected, IInv, Gone
  <2>2. client' = [client EXCEPT ![c] = DisconnectFromCore(client[c], TRUE)]
    BY <1>2 DEF CoreSocketDisconnected
  <2>3. QED
    BY <2>1, <2>2, OneClient
<1>3. CASE ClientPingTimeout(c)
  <2>1. wish[c] /\ wish' = wish
    BY <1>3 DEF ClientPingTimeout, IInv, Gone
  <2>2. client' = [client EXCEPT ![c] = DisconnectFromCore(client[c], TRUE)]
    BY <1>3 DEF ClientPingTimeout
  <2>3. QED
    BY <2>1, <2>2, OneClient
<1>4. CASE ClientReceives(c)
  <2> DEFINE m == Head(sock[client[c].sock].down)
  <2>1. CASE client' = [client EXCEPT ![c] = Told(client[c], m)] /\ wish' = wish
    <3>1. wish[c]
      BY <1>4 DEF ClientReceives, IInv, Gone
    <3>2. QED
      BY <2>1, <3>1, OneClient
  <2>2. CASE Disconnects(c)
    BY <2>2, DisconnectsStep
  <2>3. QED
    BY <1>4, <2>1, <2>2 DEF ClientReceives
<1>5. QED
  BY <1>1, <1>2, <1>3, <1>4 DEF ClientStep

LEMMA InvInit == AttachInit => IInv
<1> SUFFICES ASSUME AttachInit PROVE IInv
  OBVIOUS
<1>1. Gone(Detached)
  BY DEF Gone, Detached
<1>2. QED
  BY <1>1 DEF AttachInit, IInv

LEMMA InvStep == IInv /\ [AttachNext]_attachVars => IInv'
<1> SUFFICES ASSUME IInv, [AttachNext]_attachVars PROVE IInv'
  OBVIOUS
<1>1. CASE CoreStep
  <2>1. UNCHANGED <<client, wish>>
    BY <1>1 DEF CoreStep, IncomingConnection, ProcessClientMessage, AddClientEvent, AddClient,
                ReceivePeerSignal, ReceiveHeartBeatReply, SocketDisconnected,
                SetSessionInitialized, SendHeartBeat
  <2>2. QED
    BY <2>1, Unchanged
<1>2. CASE Restart
  BY <1>2, Unchanged DEF Restart
<1>3. ASSUME NEW n \in Networks, CreateNetwork(n) \/ DestroyNetwork(n) PROVE IInv'
  BY <1>3, Unchanged DEF CreateNetwork, DestroyNetwork
<1>4. ASSUME NEW c \in Clients, ClientStep(c) PROVE IInv'
  BY <1>4, ClientStepStep
<1>5. ASSUME NEW c \in Clients, ConnectToCore(c) PROVE IInv'
  <2>1. wish' = [wish EXCEPT ![c] = TRUE]
    BY <1>5 DEF ConnectToCore
  <2>2. \E d : client' = [client EXCEPT ![c] = d]
    BY <1>5 DEF ConnectToCore, Dial
  <2>3. QED
    BY <2>1, <2>2, OneClient
<1>6. ASSUME NEW c \in Clients, UserDisconnects(c) PROVE IInv'
  BY <1>6, DisconnectsStep DEF UserDisconnects
<1>7. ASSUME NEW s \in Sockets, LinkBreaks(s) \/ LinkFallsSilent(s) PROVE IInv'
  BY <1>7, Unchanged DEF LinkBreaks, LinkFallsSilent
<1>8. CASE UNCHANGED attachVars
  BY <1>8, Unchanged DEF attachVars
<1>9. QED
  BY <1>1, <1>2, <1>3, <1>4, <1>5, <1>6, <1>7, <1>8 DEF AttachNext

\* A client that was told to disconnect stays without a connection until the user wants it
\* again, whatever resets, timers and lost peers come in between, with any number of
\* clients, networks and restarts of the core.
THEOREM StaysDetachedHolds == AttachSpec => []StaysDetached
<1>1. IInv => StaysDetached
  BY DEF IInv, Gone, StaysDetached
<1>2. QED
  BY <1>1, InvInit, InvStep, PTL DEF AttachSpec

-----------------------------------------------------------------------------
(* Sockets and what they carry *)

CoreMessages ==
  [op : {"ClientLoginAck", "ClientLoginReject", "CoreSetupAck", "CoreSetupReject"}]
  \union [op : {"ClientInitAck"}, configured : BOOLEAN]
  \union [op : {"SessionInit"}, nets : SUBSET Networks]
  \union [op : {"networkCreated", "networkRemoved", "InitData"}, net : Networks]

SocketOK(t) ==
  /\ DOMAIN t = {"phase", "link", "beats", "up", "down"}
  /\ t.down \in Seq(CoreMessages)

ClientOK(k) ==
  /\ DOMAIN k = {"state", "sock", "peer", "want", "timer", "nets", "toSync"}
  /\ k.sock \in Sockets \union {Sock0}
  /\ k.peer => k.sock # Sock0

\* No two clients have the same socket.
TypesOK ==
  /\ sock = [s \in Sockets |-> sock[s]] /\ \A s \in Sockets : SocketOK(sock[s])
  /\ client = [c \in Clients |-> client[c]] /\ \A c \in Clients : ClientOK(client[c])
  /\ \A c, d \in Clients : client[c].sock = client[d].sock /\ c # d => client[c].sock = Sock0
  /\ nets \subseteq Networks /\ made \subseteq Networks

\* The networks of a client that had a before message m, and, with h, those it has after
\* each of the messages w.
After(a, m) ==
  CASE m.op = "SessionInit" -> m.nets
    [] m.op = "networkCreated" -> a \union {m.net}
    [] m.op = "networkRemoved" -> a \ {m.net}
    [] OTHER -> a
Follows(h, a, w, b) ==
  /\ h[0] = a /\ h[Len(w)] = b
  /\ \A i \in 1..Len(w) : h[i] = After(h[i - 1], w[i])

\* What is under way on socket t makes of the networks a those of the session, N.
Fed(a, t, N) ==
  t.link = "up" => \E b, h : Follows(h, a, t.down, b) /\ (t.phase = "peer" => b = N)

NetInv ==
  /\ TypesOK
  /\ \A c \in Clients : client[c].sock \in Sockets => Fed(client[c].nets, sock[client[c].sock], nets)

LEMMA FedEmpty ==
  ASSUME NEW a, NEW N, NEW t, t.down = << >>, t.phase # "peer" \/ a = N
  PROVE  Fed(a, t, N)
<1>1. Follows([i \in {0} |-> a], a, << >>, a)
  BY DEF Follows
<1> QED BY <1>1 DEF Fed

LEMMA FedSame ==
  ASSUME NEW a, NEW N, NEW t, NEW u, Fed(a, t, N), u.down = t.down,
         u.link = "up" => t.link = "up", u.phase = "peer" => t.phase = "peer"
  PROVE  Fed(a, u, N)
  BY DEF Fed

LEMMA FedMore ==
  ASSUME NEW a, NEW N, NEW M, NEW t, NEW u, Fed(a, t, N), t.down \in Seq(CoreMessages),
         NEW m \in CoreMessages, u.link = t.link, u.down = Append(t.down, m),
         u.phase = "peer" => \/ t.phase = "peer" /\ After(N, m) = M
                             \/ m.op = "SessionInit" /\ m.nets = M
  PROVE  Fed(a, u, M)
<1> SUFFICES ASSUME u.link = "up"
             PROVE  \E b, h : Follows(h, a, u.down, b) /\ (u.phase = "peer" => b = M)
  BY DEF Fed
<1>1. PICK b, h : Follows(h, a, t.down, b) /\ (t.phase = "peer" => b = N)
  BY DEF Fed
<1> DEFINE n == Len(t.down)
           g == [i \in 0..n + 1 |-> IF i = n + 1 THEN After(b, m) ELSE h[i]]
<1>2. n \in Nat /\ Len(u.down) = n + 1 /\ u.down[n + 1] = m /\ \A i \in 1..n : u.down[i] = t.down[i]
  BY AppendProperties
<1>3. g[n + 1] = After(b, m) /\ \A i \in 0..n : g[i] = h[i]
  BY <1>2
<1>4. h[0] = a /\ h[n] = b /\ \A i \in 1..n : h[i] = After(h[i - 1], t.down[i])
  BY <1>1 DEF Follows
<1> HIDE DEF g, n
<1>5. ASSUME NEW i \in 1..n + 1
      PROVE  g[i] = After(g[i - 1], u.down[i])
  <2>1. CASE i = n + 1
    <3>1. g[i - 1] = b
      BY <1>2, <1>3, <1>4, <2>1
    <3> QED BY <1>2, <1>3, <2>1, <3>1
  <2>2. CASE i # n + 1
    <3>1. i \in 1..n /\ i - 1 \in 0..n /\ i \in 0..n
      BY <1>2, <2>2
    <3> QED BY <1>2, <1>3, <1>4, <3>1
  <2> QED BY <2>1, <2>2
<1>6. Follows(g, a, u.down, After(b, m))
  BY <1>2, <1>3, <1>4, <1>5 DEF Follows
<1>7. u.phase = "peer" => After(b, m) = M
  BY <1>1 DEF After
<1> QED BY <1>6, <1>7

LEMMA FedLess ==
  ASSUME NEW a, NEW N, NEW t, NEW u, Fed(a, t, N), t.down \in Seq(CoreMessages), t.down # << >>,
         u.link = t.link, u.phase = t.phase, u.down = Tail(t.down)
  PROVE  Fed(After(a, Head(t.down)), u, N)
<1> SUFFICES ASSUME u.link = "up"
             PROVE  \E b, h : Follows(h, After(a, Head(t.down)), u.down, b) /\ (u.phase = "peer" => b = N)
  BY DEF Fed
<1>1. PICK b, h : Follows(h, a, t.down, b) /\ (t.phase = "peer" => b = N)
  BY DEF Fed
<1> DEFINE n == Len(u.down)
           g == [i \in 0..n |-> h[i + 1]]
<1>2. n \in Nat /\ Len(t.down) = n + 1 /\ Head(t.down) = t.down[1] /\ \A i \in 1..n : u.down[i] = t.down[i + 1]
  BY HeadTailProperties
<1>3. \A i \in 0..n : g[i] = h[i + 1]
  OBVIOUS
<1>4. h[0] = a /\ h[n + 1] = b /\ \A i \in 1..n + 1 : h[i] = After(h[i - 1], t.down[i])
  BY <1>1, <1>2 DEF Follows
<1> HIDE DEF g, n
<1>5. g[0] = After(a, Head(t.down)) /\ g[n] = b
  <2>1. h[1] = After(h[1 - 1], t.down[1])
    BY <1>2, <1>4
  <2> QED BY <1>2, <1>3, <1>4, <2>1
<1>6. ASSUME NEW i \in 1..n
      PROVE  g[i] = After(g[i - 1], u.down[i])
  <2>1. i + 1 \in 1..n + 1 /\ i \in 0..n /\ i - 1 \in 0..n /\ (i + 1) - 1 = i /\ (i - 1) + 1 = i
    BY <1>2
  <2> QED BY <1>2, <1>3, <1>4, <2>1
<1>7. Follows(g, After(a, Head(t.down)), u.down, b)
  BY <1>2, <1>5, <1>6 DEF Follows, n
<1> QED BY <1>1, <1>7

-----------------------------------------------------------------------------
(* Steps *)

\* One socket changes.
LEMMA OneSocket ==
  ASSUME NetInv, NEW s \in Sockets, NEW t, SocketOK(t), sock' = [sock EXCEPT ![s] = t],
         UNCHANGED <<client, netVars>>,
         \A c \in Clients : client[c].sock = s => Fed(client[c].nets, t, nets)
  PROVE  NetInv'
<1>1. /\ sock' = [x \in Sockets |-> sock'[x]] /\ sock'[s] = t
      /\ \A x \in Sockets \ {s} : sock'[x] = sock[x]
  BY DEF NetInv, TypesOK
<1>2. TypesOK'
  BY <1>1 DEF NetInv, TypesOK, netVars
<1>3. ASSUME NEW c \in Clients, client[c].sock \in Sockets
      PROVE  Fed(client[c].nets, sock'[client[c].sock], nets)
  BY <1>1, <1>3 DEF NetInv
<1> QED BY <1>1, <1>2, <1>3 DEF NetInv, netVars

\* The core writes to one socket.
LEMMA SendOne ==
  ASSUME NetInv, NEW s \in Sockets, NEW u, SocketOK(u), u.down = sock[s].down, u.link = sock[s].link,
         NEW m \in CoreMessages,
         u.phase = "peer" => \/ sock[s].phase = "peer" /\ After(nets, m) = nets
                             \/ m.op = "SessionInit" /\ m.nets = nets,
         sock' = Send([sock EXCEPT ![s] = u], s, m),
         UNCHANGED <<client, netVars>>
  PROVE  NetInv'
<1> DEFINE t == IF Works(s) THEN [u EXCEPT !.down = Append(@, m)] ELSE u
<1>1. sock' = [sock EXCEPT ![s] = t]
  BY DEF Send, NetInv, TypesOK
<1>2. /\ t.phase = u.phase /\ t.link = sock[s].link
      /\ t.down = IF Works(s) THEN Append(sock[s].down, m) ELSE sock[s].down
      /\ SocketOK(t)
  <2>1. sock[s].down \in Seq(CoreMessages)
    BY DEF NetInv, TypesOK, SocketOK
  <2>2. Append(sock[s].down, m) \in Seq(CoreMessages)
    BY <2>1, AppendProperties
  <2> QED BY <2>2 DEF SocketOK
<1> HIDE DEF t
<1>3. ASSUME NEW c \in Clients, client[c].sock = s
      PROVE  Fed(client[c].nets, t, nets)
  <2>1. Fed(client[c].nets, sock[s], nets) /\ sock[s].down \in Seq(CoreMessages)
    BY <1>3 DEF NetInv, TypesOK, SocketOK
  <2>2. CASE Works(s)
    <3>1. t.link = sock[s].link /\ t.down = Append(sock[s].down, m) /\ t.phase = u.phase
      BY <1>2, <2>2
    <3>2. t.phase = "peer" => \/ sock[s].phase = "peer" /\ After(nets, m) = nets
                              \/ m.op = "SessionInit" /\ m.nets = nets
      BY <3>1
    <3> HIDE DEF CoreMessages, Fed
    <3> QED BY <2>1, <3>1, <3>2, FedMore
  <2>3. CASE ~Works(s)
    <3>1. t.link # "up"
      BY <1>2, <1>3, <2>3 DEF Works, Holder
    <3> QED BY <3>1 DEF Fed
  <2> QED BY <2>2, <2>3
<1> QED BY <1>1, <1>2, <1>3, OneSocket

LEMMA IncomingStep ==
  ASSUME NetInv, NEW s \in Sockets, IncomingConnection(s)
  PROVE  NetInv'
<1> DEFINE t == [sock[s] EXCEPT !.phase = "fresh", !.up = <<[op |-> "ClientInit"]>>]
<1>1. sock' = [sock EXCEPT ![s] = t]
  BY DEF IncomingConnection, NetInv, TypesOK
<1>2. SocketOK(t) /\ t.phase = "fresh" /\ t.link = sock[s].link /\ t.down = sock[s].down
  BY DEF NetInv, TypesOK, SocketOK
<1> HIDE DEF t
<1>3. \A c \in Clients : client[c].sock = s => Fed(client[c].nets, t, nets)
  BY <1>2, FedSame DEF NetInv
<1>4. sock[s].phase = "dialing" /\ UNCHANGED <<client, netVars>>
  BY DEF IncomingConnection
<1> QED BY <1>1, <1>2, <1>3, <1>4, OneSocket

\* What the core tells a client of its set-up is a Boolean: only a client's set-up sets it.
ConfiguredType == configured \in BOOLEAN

LEMMA ProcessStep ==
  ASSUME NetInv, ConfiguredType, NEW s \in Sockets, ProcessClientMessage(s)
  PROVE  NetInv'
<1>1. sock[s].phase \in {"fresh", "init"} /\ UNCHANGED <<client, netVars>>
  BY DEF ProcessClientMessage
<1>2. ASSUME NEW u, SocketOK(u), u.down = sock[s].down, u.link = sock[s].link, u.phase # "peer",
             NEW m \in CoreMessages, sock' = Send([sock EXCEPT ![s] = u], s, m)
      PROVE  NetInv'
  BY <1>1, <1>2, SendOne
<1>3. CASE ClientInit(s)
  <2> DEFINE u == [sock[s] EXCEPT !.phase = "init", !.up = Tail(@)]
             m == [op |-> "ClientInitAck", configured |-> configured]
  <2>1. sock' = Send([sock EXCEPT ![s] = u], s, [op |-> "ClientInitAck", configured |-> configured])
    BY <1>3 DEF ClientInit, NetInv, TypesOK
  <2>2. SocketOK(u) /\ u.down = sock[s].down /\ u.link = sock[s].link /\ u.phase # "peer"
    BY DEF NetInv, TypesOK, SocketOK
  <2>3. m \in CoreMessages
    BY DEF CoreMessages, ConfiguredType
  <2> QED BY <1>2, <2>1, <2>2, <2>3
<1>4. CASE CoreSetupData(s)
  <2> DEFINE u == [sock[s] EXCEPT !.up = Tail(@)]
  <2>1. \E m \in CoreMessages : sock' = Send([sock EXCEPT ![s] = u], s, m)
    BY <1>4 DEF CoreSetupData, NetInv, TypesOK, CoreMessages
  <2>2. SocketOK(u) /\ u.down = sock[s].down /\ u.link = sock[s].link /\ u.phase # "peer"
    BY <1>1 DEF NetInv, TypesOK, SocketOK
  <2> QED BY <1>2, <2>1, <2>2
<1>5. CASE ClientLogin(s)
  <2> DEFINE u == [sock[s] EXCEPT !.up = Tail(@)]
             v == [sock[s] EXCEPT !.phase = "posted", !.up = Tail(@)]
  <2>1. \/ \E m \in CoreMessages : sock' = Send([sock EXCEPT ![s] = u], s, m)
        \/ \E m \in CoreMessages : sock' = Send([sock EXCEPT ![s] = v], s, m)
    BY <1>5 DEF ClientLogin, NetInv, TypesOK, CoreMessages
  <2>2. SocketOK(u) /\ u.down = sock[s].down /\ u.link = sock[s].link /\ u.phase # "peer"
    BY <1>1 DEF NetInv, TypesOK, SocketOK
  <2>3. SocketOK(v) /\ v.down = sock[s].down /\ v.link = sock[s].link /\ v.phase # "peer"
    BY <1>1 DEF NetInv, TypesOK, SocketOK
  <2> QED BY <1>2, <2>1, <2>2, <2>3
<1> QED BY <1>3, <1>4, <1>5 DEF ProcessClientMessage

LEMMA AddClientEventStep ==
  ASSUME NetInv, NEW s \in Sockets, AddClientEvent(s)
  PROVE  NetInv'
<1> DEFINE t == [sock[s] EXCEPT !.phase = IF session = "ready" THEN "moved" ELSE "queued"]
<1>1. sock' = [sock EXCEPT ![s] = t]
  BY DEF AddClientEvent, NetInv, TypesOK
<1>2. SocketOK(t) /\ t.phase # "peer" /\ t.link = sock[s].link /\ t.down = sock[s].down
  BY DEF NetInv, TypesOK, SocketOK
<1> HIDE DEF t
<1>3. \A c \in Clients : client[c].sock = s => Fed(client[c].nets, t, nets)
  BY <1>2, FedSame DEF NetInv
<1>4. sock[s].phase = "posted" /\ UNCHANGED <<client, netVars>>
  BY DEF AddClientEvent
<1> QED BY <1>1, <1>2, <1>3, <1>4, OneSocket

LEMMA AddClientStep ==
  ASSUME NetInv, NEW s \in Sockets, AddClient(s)
  PROVE  NetInv'
<1>1. UNCHANGED <<client, netVars>>
  BY DEF AddClient
<1>2. CASE sock' = Send([sock EXCEPT ![s].phase = "peer", ![s].beats = 0], s,
                        [op |-> "SessionInit", nets |-> SessionInit])
  <2> DEFINE u == [sock[s] EXCEPT !.phase = "peer", !.beats = 0]
             m == [op |-> "SessionInit", nets |-> nets]
  <2>1. sock' = Send([sock EXCEPT ![s] = u], s, [op |-> "SessionInit", nets |-> nets])
    BY <1>2 DEF SessionInit, NetInv, TypesOK
  <2>2. SocketOK(u) /\ u.down = sock[s].down /\ u.link = sock[s].link
    BY DEF NetInv, TypesOK, SocketOK
  <2>3. m \in CoreMessages /\ m.op = "SessionInit" /\ m.nets = nets
    BY DEF CoreMessages, NetInv, TypesOK
  <2> HIDE DEF u
  <2> QED BY <1>1, <2>1, <2>2, <2>3, SendOne
<1>3. CASE sock[s].link = "dead" /\ sock' = [sock EXCEPT ![s].phase = "orphan"]
  <2> DEFINE t == [sock[s] EXCEPT !.phase = "orphan"]
  <2>1. sock' = [sock EXCEPT ![s] = t]
    BY <1>3 DEF NetInv, TypesOK
  <2>2. SocketOK(t) /\ t.link = "dead"
    BY <1>3 DEF NetInv, TypesOK, SocketOK
  <2> HIDE DEF t
  <2>3. \A c \in Clients : Fed(client[c].nets, t, nets)
    BY <2>2 DEF Fed
  <2> QED BY <1>1, <2>1, <2>2, <2>3, OneSocket
<1> QED BY <1>2, <1>3 DEF AddClient

LEMMA PeerSignalStep ==
  ASSUME NetInv, NEW s \in Sockets, ReceivePeerSignal(s)
  PROVE  NetInv'
<1> DEFINE n == Head(sock[s].up).net
           u == [sock[s] EXCEPT !.up = Tail(@), !.beats = 0]
           m == [op |-> "InitData", net |-> n]
<1>1. sock' = IF n \in nets THEN Send([sock EXCEPT ![s] = u], s, [op |-> "InitData", net |-> n])
              ELSE [sock EXCEPT ![s] = u]
  BY DEF ReceivePeerSignal, NetInv, TypesOK
<1>2. SocketOK(u) /\ u.down = sock[s].down /\ u.link = sock[s].link /\ u.phase = sock[s].phase
  BY DEF NetInv, TypesOK, SocketOK
<1>3. sock[s].phase = "peer" /\ UNCHANGED <<client, netVars>>
  BY DEF ReceivePeerSignal
<1> HIDE DEF u, n
<1>4. CASE n \in nets
  <2>1. m \in CoreMessages /\ After(nets, m) = nets
    BY <1>4 DEF CoreMessages, NetInv, TypesOK, After
  <2> QED BY <1>1, <1>2, <1>3, <1>4, <2>1, SendOne
<1>5. CASE n \notin nets
  <2>1. \A c \in Clients : client[c].sock = s => Fed(client[c].nets, u, nets)
    BY <1>2, FedSame DEF NetInv
  <2> QED BY <1>1, <1>2, <1>3, <1>5, <2>1, OneSocket
<1> QED BY <1>4, <1>5

LEMMA HeartBeatReplyStep ==
  ASSUME NetInv, NEW s \in Sockets, ReceiveHeartBeatReply(s)
  PROVE  NetInv'
<1> DEFINE u == [sock[s] EXCEPT !.beats = 0]
<1>1. sock' = [sock EXCEPT ![s] = u] /\ UNCHANGED <<client, netVars>>
  BY DEF ReceiveHeartBeatReply, NetInv, TypesOK
<1>2. SocketOK(u) /\ u.down = sock[s].down /\ u.link = sock[s].link /\ u.phase = sock[s].phase
  BY DEF NetInv, TypesOK, SocketOK
<1> HIDE DEF u
<1>3. \A c \in Clients : client[c].sock = s => Fed(client[c].nets, u, nets)
  BY <1>2, FedSame DEF NetInv
<1> QED BY <1>1, <1>2, <1>3, OneSocket

\* Every socket may change.
LEMMA AllSockets ==
  ASSUME NetInv, sock' = [s \in Sockets |-> sock'[s]], \A s \in Sockets : SocketOK(sock'[s]),
         UNCHANGED client, nets' \subseteq Networks, made' \subseteq Networks,
         \A c \in Clients : client[c].sock \in Sockets
           => Fed(client[c].nets, sock'[client[c].sock], nets')
  PROVE  NetInv'
  BY DEF NetInv, TypesOK

LEMMA InitializedStep ==
  ASSUME NetInv, SetSessionInitialized
  PROVE  NetInv'
<1>1. sock' = [s \in Sockets |-> IF sock[s].phase = "queued" THEN [sock[s] EXCEPT !.phase = "moved"] ELSE sock[s]]
  BY DEF SetSessionInitialized, Queue
<1>2. UNCHANGED <<client, netVars>>
  BY DEF SetSessionInitialized
<1>3. ASSUME NEW s \in Sockets
      PROVE  /\ SocketOK(sock'[s]) /\ sock'[s].link = sock[s].link /\ sock'[s].down = sock[s].down
             /\ sock'[s].phase = "peer" <=> sock[s].phase = "peer"
  <2>1. SocketOK(sock[s]) /\ sock'[s] = IF sock[s].phase = "queued" THEN [sock[s] EXCEPT !.phase = "moved"] ELSE sock[s]
    BY <1>1 DEF NetInv, TypesOK
  <2> QED BY <2>1 DEF SocketOK
<1>4. \A c \in Clients : client[c].sock \in Sockets => Fed(client[c].nets, sock'[client[c].sock], nets)
  BY <1>3, FedSame DEF NetInv
<1>5. sock' = [s \in Sockets |-> sock'[s]]
  BY <1>1
<1>6. nets' \subseteq Networks /\ made' \subseteq Networks /\ nets' = nets
  BY <1>2 DEF NetInv, TypesOK, netVars
<1> QED BY <1>2, <1>3, <1>4, <1>5, <1>6, AllSockets

\* A socket somebody holds is not tidied away.
LEMMA Tidied ==
  ASSUME NEW s \in Sockets, NEW t, SocketOK(t)
  PROVE  /\ SocketOK(Tidy(s, t))
         /\ Holder(s) # {} => Tidy(s, t) = t
<1>1. SocketOK(Closed)
  BY DEF Closed, SocketOK
<1> QED BY <1>1 DEF Tidy, Closed

LEMMA HeartBeatStep ==
  ASSUME NetInv, SendHeartBeat
  PROVE  NetInv'
<1>1. sock' = [s \in Sockets |-> IF sock[s].phase = "peer" THEN Tidy(s, Beaten(sock[s])) ELSE sock[s]]
  BY DEF SendHeartBeat
<1>2. UNCHANGED <<client, netVars>>
  BY DEF SendHeartBeat
<1>3. ASSUME NEW s \in Sockets
      PROVE  /\ SocketOK(Beaten(sock[s])) /\ Beaten(sock[s]).link = sock[s].link
             /\ Beaten(sock[s]).down = sock[s].down /\ Beaten(sock[s]).phase \in {sock[s].phase, "off"}
  <2>1. SocketOK(sock[s])
    BY DEF NetInv, TypesOK
  <2> QED BY <2>1 DEF SocketOK, Beaten
<1>4. ASSUME NEW s \in Sockets
      PROVE  SocketOK(sock'[s]) /\ (Holder(s) # {} => sock'[s] \in {Beaten(sock[s]), sock[s]})
  BY <1>1, <1>3, Tidied DEF NetInv, TypesOK
<1>5. ASSUME NEW c \in Clients, client[c].sock \in Sockets
      PROVE  Fed(client[c].nets, sock'[client[c].sock], nets)
  <2> DEFINE s == client[c].sock
  <2>1. Fed(client[c].nets, sock[s], nets) /\ Holder(s) # {}
    BY <1>5 DEF NetInv, Holder
  <2>2. sock'[s] = sock[s] \/ sock'[s] = Beaten(sock[s])
    BY <1>4, <1>5, <2>1
  <2>3. /\ Beaten(sock[s]).link = sock[s].link /\ Beaten(sock[s]).down = sock[s].down
        /\ Beaten(sock[s]).phase = "peer" => sock[s].phase = "peer"
    BY <1>3, <1>5
  <2> HIDE DEF s
  <2>4. Fed(client[c].nets, Beaten(sock[s]), nets)
    BY <2>1, <2>3, FedSame
  <2> QED BY <2>1, <2>2, <2>4 DEF s
<1>6. sock' = [s \in Sockets |-> sock'[s]]
  BY <1>1
<1>7. nets' \subseteq Networks /\ made' \subseteq Networks /\ nets' = nets
  BY <1>2 DEF NetInv, TypesOK, netVars
<1> QED BY <1>2, <1>4, <1>5, <1>6, <1>7, AllSockets

LEMMA SocketDisconnectedStep ==
  ASSUME NetInv, NEW s \in Sockets, SocketDisconnected(s)
  PROVE  NetInv'
<1>1. UNCHANGED <<client, netVars>>
  BY DEF SocketDisconnected
<1>2. SocketOK(sock[s])
  BY DEF NetInv, TypesOK
<1>3. CASE sock' = [sock EXCEPT ![s].link = "dead"]
  <2> DEFINE t == [sock[s] EXCEPT !.link = "dead"]
  <2>1. sock' = [sock EXCEPT ![s] = t]
    BY <1>3 DEF NetInv, TypesOK
  <2>2. SocketOK(t) /\ t.link = "dead"
    BY <1>2 DEF SocketOK
  <2> HIDE DEF t
  <2>3. \A c \in Clients : Fed(client[c].nets, t, nets)
    BY <2>2 DEF Fed
  <2> QED BY <1>1, <2>1, <2>2, <2>3, OneSocket
<1>4. CASE sock' = [sock EXCEPT ![s] = Tidy(s, [@ EXCEPT !.phase = "off"])]
  <2> DEFINE u == [sock[s] EXCEPT !.phase = "off"]
             t == Tidy(s, u)
  <2>1. sock' = [sock EXCEPT ![s] = t]
    BY <1>4 DEF NetInv, TypesOK
  <2>2. SocketOK(u) /\ u.link = sock[s].link /\ u.down = sock[s].down /\ u.phase = "off"
    BY <1>2 DEF SocketOK
  <2> HIDE DEF u
  <2>3. SocketOK(t) /\ (Holder(s) # {} => t = u)
    BY <2>2, Tidied
  <2>4. \A c \in Clients : client[c].sock = s => Fed(client[c].nets, u, nets) /\ t = u
    BY <2>2, <2>3, FedSame DEF NetInv, Holder
  <2> HIDE DEF t
  <2>5. \A c \in Clients : client[c].sock = s => Fed(client[c].nets, t, nets)
    BY <2>4
  <2> QED BY <1>1, <2>1, <2>3, <2>5, OneSocket
<1> QED BY <1>3, <1>4 DEF SocketDisconnected

\* A network comes or goes, and all peers are told.
LEMMA NetworkStep ==
  ASSUME NetInv, NEW n \in Networks, CreateNetwork(n) \/ DestroyNetwork(n)
  PROVE  NetInv'
<1>1. PICK m \in CoreMessages : sock' = Tell(m) /\ After(nets, m) = nets'
  <2>1. CASE CreateNetwork(n)
    <3> DEFINE m == [op |-> "networkCreated", net |-> n]
    <3>1. m \in CoreMessages
      BY DEF CoreMessages
    <3>2. sock' = Tell(m) /\ After(nets, m) = nets'
      BY <2>1 DEF CreateNetwork, After
    <3> QED BY <3>1, <3>2
  <2>2. CASE DestroyNetwork(n)
    <3> DEFINE m == [op |-> "networkRemoved", net |-> n]
    <3>1. m \in CoreMessages
      BY DEF CoreMessages
    <3>2. sock' = Tell(m) /\ After(nets, m) = nets'
      BY <2>2 DEF DestroyNetwork, After
    <3> QED BY <3>1, <3>2
  <2> QED BY <2>1, <2>2
<1>2. UNCHANGED <<client>> /\ nets' \subseteq Networks /\ made' \subseteq Networks
  BY DEF CreateNetwork, DestroyNetwork, NetInv, TypesOK
<1>3. ASSUME NEW s \in Sockets
      PROVE  /\ SocketOK(sock'[s]) /\ sock'[s].phase = sock[s].phase /\ sock'[s].link = sock[s].link
             /\ \/ sock'[s].down = Append(sock[s].down, m)
                \/ sock'[s].down = sock[s].down /\ ~(sock[s].phase = "peer" /\ Works(s))
  <2>1. SocketOK(sock[s]) /\ Append(sock[s].down, m) \in Seq(CoreMessages)
    BY AppendProperties DEF NetInv, TypesOK, SocketOK
  <2>2. sock'[s] = IF sock[s].phase = "peer" /\ Works(s)
                     THEN [sock[s] EXCEPT !.down = Append(@, m)] ELSE sock[s]
    BY <1>1 DEF Tell, Peers
  <2> QED BY <2>1, <2>2 DEF SocketOK
<1>4. ASSUME NEW c \in Clients, client[c].sock \in Sockets
      PROVE  Fed(client[c].nets, sock'[client[c].sock], nets')
  <2> DEFINE s == client[c].sock
             t == sock'[s]
  <2>1. Fed(client[c].nets, sock[s], nets) /\ sock[s].down \in Seq(CoreMessages) /\ Holder(s) # {}
    BY <1>4 DEF NetInv, Holder, TypesOK, SocketOK
  <2>2. s \in Sockets
    BY <1>4
  <2> HIDE DEF s
  <2>3. t.phase = sock[s].phase /\ t.link = sock[s].link
    BY <1>3, <2>2
  <2>4. CASE t.down = Append(sock[s].down, m)
    <3> HIDE DEF t, CoreMessages, Fed
    <3>1. t.phase = "peer" => \/ sock[s].phase = "peer" /\ After(nets, m) = nets'
                              \/ m.op = "SessionInit" /\ m.nets = nets'
      BY <1>1, <2>3
    <3>2. Fed(client[c].nets, t, nets')
      BY <2>1, <2>3, <2>4, <3>1, FedMore
    <3> QED BY <3>2 DEF s, t
  <2>5. CASE t.down = sock[s].down /\ ~(sock[s].phase = "peer" /\ Works(s))
    <3>1. t.link = "up" => t.phase # "peer"
      BY <2>1, <2>3, <2>5 DEF Works
    <3> QED BY <2>1, <2>3, <2>5, <3>1 DEF Fed, s
  <2> QED BY <1>3, <2>2, <2>4, <2>5
<1>5. sock' = [s \in Sockets |-> sock'[s]]
  BY <1>1 DEF Tell
<1> QED BY <1>2, <1>3, <1>4, <1>5, AllSockets

\* The core is gone with its ends of all connections.
LEMMA RestartStep ==
  ASSUME NetInv, Restart
  PROVE  NetInv'
<1>1. /\ UNCHANGED <<client, netVars>>
      /\ sock' = [s \in Sockets |->
                    IF sock[s].phase = "dialing" THEN sock[s]
                    ELSE Tidy(s, [Closed EXCEPT !.link = IF sock[s].link = "silent" THEN "silent" ELSE "broken"])]
  BY DEF Restart
<1>2. ASSUME NEW s \in Sockets
      PROVE  /\ SocketOK(sock'[s])
             /\ Holder(s) # {} => sock'[s] = sock[s] \/ sock'[s].link # "up"
  <2> DEFINE t == [Closed EXCEPT !.link = IF sock[s].link = "silent" THEN "silent" ELSE "broken"]
  <2>1. SocketOK(t) /\ t.link # "up"
    BY EmptySeq DEF SocketOK, Closed
  <2>2. SocketOK(sock[s]) /\ sock'[s] = IF sock[s].phase = "dialing" THEN sock[s] ELSE Tidy(s, t)
    BY <1>1 DEF NetInv, TypesOK
  <2> HIDE DEF t
  <2>3. SocketOK(Tidy(s, t)) /\ (Holder(s) # {} => Tidy(s, t) = t)
    BY <2>1, Tidied
  <2> QED BY <2>1, <2>2, <2>3
<1>3. ASSUME NEW c \in Clients, client[c].sock \in Sockets
      PROVE  Fed(client[c].nets, sock'[client[c].sock], nets)
  <2>1. Holder(client[c].sock) # {} /\ Fed(client[c].nets, sock[client[c].sock], nets)
    BY <1>3 DEF Holder, NetInv
  <2>2. CASE sock'[client[c].sock] = sock[client[c].sock]
    BY <2>1, <2>2
  <2>3. CASE sock'[client[c].sock].link # "up"
    BY <2>3 DEF Fed
  <2> QED BY <1>2, <1>3, <2>1, <2>2, <2>3
<1>4. nets' \subseteq Networks /\ made' \subseteq Networks /\ nets' = nets
  BY <1>1 DEF NetInv, TypesOK, netVars
<1>5. sock' = [s \in Sockets |-> sock'[s]]
  BY <1>1
<1> QED BY <1>1, <1>2, <1>3, <1>4, <1>5, AllSockets

\* A link that fails loses all that is under way.
LEMMA LinkStep ==
  ASSUME NetInv, NEW s \in Sockets, LinkBreaks(s) \/ LinkFallsSilent(s)
  PROVE  NetInv'
<1>1. UNCHANGED <<client, netVars>>
  BY DEF LinkBreaks, LinkFallsSilent
<1>2. PICK l \in {"broken", "silent"} :
        sock' = [sock EXCEPT ![s].link = l, ![s].up = << >>, ![s].down = << >>]
  BY DEF LinkBreaks, LinkFallsSilent
<1> DEFINE t == [sock[s] EXCEPT !.link = l, !.up = << >>, !.down = << >>]
<1>3. sock' = [sock EXCEPT ![s] = t]
  BY <1>2 DEF NetInv, TypesOK
<1>4. SocketOK(t) /\ t.link # "up" /\ t.phase = sock[s].phase
  BY EmptySeq DEF NetInv, TypesOK, SocketOK
<1> HIDE DEF t
<1>5. \A c \in Clients : Fed(client[c].nets, t, nets)
  BY <1>4 DEF Fed
<1> QED BY <1>1, <1>3, <1>4, <1>5, OneSocket

\* One client changes, with its socket, the one it takes, or both.
LEMMA ClientAndSockets ==
  ASSUME NetInv, NEW c \in Clients, NEW k, ClientOK(k), client' = [client EXCEPT ![c] = k],
         k.sock \in {Sock0, client[c].sock} \union Unused,
         sock' = [s \in Sockets |-> sock'[s]], \A s \in Sockets : SocketOK(sock'[s]),
         \A s \in Sockets : s \notin {client[c].sock, k.sock} => sock'[s] = sock[s],
         k.sock \in Sockets => Fed(k.nets, sock'[k.sock], nets),
         UNCHANGED netVars
  PROVE  NetInv'
<1>1. /\ client' = [d \in Clients |-> client'[d]] /\ client'[c] = k
      /\ \A d \in Clients \ {c} : client'[d] = client[d]
  BY DEF NetInv, TypesOK
<1>2. Sock0 \notin Sockets
  BY AttachAssumption DEF Sock0
<1>3. ASSUME NEW d \in Clients \ {c}, client[d].sock # Sock0
      PROVE  client[d].sock \notin {client[c].sock, k.sock} /\ client[d].sock \in Sockets
  BY <1>3 DEF NetInv, TypesOK, ClientOK, Unused, Holder
<1>4. \A d \in Clients : ClientOK(client'[d])
  BY <1>1 DEF NetInv, TypesOK
<1>5. ASSUME NEW d \in Clients, NEW e \in Clients, client'[d].sock = client'[e].sock, d # e
      PROVE  client'[d].sock = Sock0
  <2>1. CASE d = c
    BY <1>1, <1>3, <1>5, <2>1
  <2>2. CASE e = c
    BY <1>1, <1>3, <1>5, <2>2
  <2>3. CASE d # c /\ e # c
    BY <1>1, <1>5, <2>3 DEF NetInv, TypesOK
  <2> QED BY <2>1, <2>2, <2>3
<1>6. TypesOK'
  BY <1>1, <1>4, <1>5 DEF NetInv, TypesOK, netVars
<1>7. ASSUME NEW d \in Clients, client'[d].sock \in Sockets
      PROVE  Fed(client'[d].nets, sock'[client'[d].sock], nets)
  <2>1. CASE d = c
    BY <1>1, <1>7, <2>1
  <2>2. CASE d # c
    <3>1. client'[d] = client[d] /\ client[d].sock # Sock0 /\ client[d].sock \in Sockets
      BY <1>1, <1>2, <1>7, <2>2
    <3>2. sock'[client[d].sock] = sock[client[d].sock]
      BY <1>3, <2>2, <3>1
    <3>3. Fed(client[d].nets, sock[client[d].sock], nets)
      BY <3>1 DEF NetInv
    <3> QED BY <3>1, <3>2, <3>3
  <2> QED BY <2>1, <2>2
<1> QED BY <1>6, <1>7 DEF NetInv, netVars

\* A client that lets its socket go.
LEMMA LetsGo ==
  ASSUME NetInv, NEW c \in Clients
  PROVE  /\ LetGo(c) = [s \in Sockets |-> LetGo(c)[s]]
         /\ \A s \in Sockets : /\ SocketOK(LetGo(c)[s])
                               /\ s # client[c].sock => LetGo(c)[s] = sock[s]
<1>1. \A s \in Sockets : SocketOK(sock[s])
  BY DEF NetInv, TypesOK
<1>2. CASE client[c].sock = Sock0
  BY <1>1, <1>2 DEF LetGo, NetInv, TypesOK
<1>3. CASE client[c].sock # Sock0
  <2> DEFINE s == client[c].sock
             t == IF sock[s].phase \in {"off", "dialing"} THEN Closed
                  ELSE [sock[s] EXCEPT !.down = << >>]
  <2>1. s \in Sockets
    BY <1>3 DEF NetInv, TypesOK, ClientOK
  <2>2. LetGo(c) = [sock EXCEPT ![s] = t]
    BY <1>3 DEF LetGo, Freed, NetInv, TypesOK
  <2>3. SocketOK(t)
    BY <1>1, <2>1, EmptySeq DEF SocketOK, Closed
  <2> HIDE DEF s, t
  <2>4. LetGo(c)[s] = t /\ \A x \in Sockets \ {s} : LetGo(c)[x] = sock[x]
    BY <2>1, <2>2 DEF NetInv, TypesOK
  <2>5. LetGo(c) = [x \in Sockets |-> LetGo(c)[x]]
    BY <2>2 DEF NetInv, TypesOK
  <2> QED BY <1>1, <2>3, <2>4, <2>5 DEF s
<1> QED BY <1>2, <1>3

LEMMA DropStep ==
  ASSUME NetInv, NEW c \in Clients, NEW w, client' = [client EXCEPT ![c] = DisconnectFromCore(@, w)],
         sock' = LetGo(c), UNCHANGED netVars
  PROVE  NetInv'
<1> DEFINE k == DisconnectFromCore(client[c], w)
<1>1. ClientOK(k) /\ k.sock = Sock0
  BY DEF DisconnectFromCore, Reset, Detached, ClientOK
<1>2. client' = [client EXCEPT ![c] = k]
  OBVIOUS
<1> HIDE DEF k
<1>3. k.sock \notin Sockets
  BY <1>1, AttachAssumption DEF Sock0
<1>4. /\ sock' = [s \in Sockets |-> sock'[s]]
      /\ \A s \in Sockets : /\ SocketOK(sock'[s])
                            /\ s # client[c].sock => sock'[s] = sock[s]
  BY LetsGo
<1>5. k.sock \in {Sock0, client[c].sock} \union Unused /\ (k.sock \in Sockets => Fed(k.nets, sock'[k.sock], nets))
  BY <1>1, <1>3
<1> QED BY <1>1, <1>2, <1>4, <1>5, ClientAndSockets

LEMMA DialStep ==
  ASSUME NetInv, NEW c \in Clients, NEW d, Dial(c, d), UNCHANGED netVars
  PROVE  NetInv'
<1>1. PICK s \in Unused :
        /\ client' = [client EXCEPT ![c] = [Reset(d, FALSE) EXCEPT !.sock = s, !.state = "connecting"]]
        /\ sock' = [LetGo(c) EXCEPT ![s].phase = "dialing"]
  BY DEF Dial
<1> DEFINE k == [Reset(d, FALSE) EXCEPT !.sock = s, !.state = "connecting"]
           t == [sock[s] EXCEPT !.phase = "dialing"]
<1>2. s \in Sockets /\ sock[s] = Closed /\ s # client[c].sock
  BY DEF Unused, Holder
<1>3. ClientOK(k) /\ k.sock = s /\ client' = [client EXCEPT ![c] = k]
  BY <1>1, <1>2, AttachAssumption DEF Reset, Detached, ClientOK, Sock0
<1>4. SocketOK(t) /\ t.down = << >> /\ t.phase = "dialing"
  BY <1>2, EmptySeq DEF SocketOK, Closed
<1> HIDE DEF k
<1>5. /\ LetGo(c) = [x \in Sockets |-> LetGo(c)[x]]
      /\ \A x \in Sockets : /\ SocketOK(LetGo(c)[x])
                            /\ x # client[c].sock => LetGo(c)[x] = sock[x]
  BY LetsGo
<1>6. /\ sock' = [x \in Sockets |-> sock'[x]] /\ sock'[s] = t
      /\ \A x \in Sockets \ {s} : sock'[x] = LetGo(c)[x]
  BY <1>1, <1>2, <1>5
<1> HIDE DEF t
<1>7. ASSUME NEW x \in Sockets
      PROVE  /\ SocketOK(sock'[x])
             /\ x \notin {client[c].sock, k.sock} => sock'[x] = sock[x]
  BY <1>3, <1>4, <1>5, <1>6
<1>8. Fed(k.nets, sock'[k.sock], nets)
  BY <1>3, <1>4, <1>6, FedEmpty
<1>9. k.sock \in {Sock0, client[c].sock} \union Unused
  BY <1>3
<1> QED BY <1>3, <1>6, <1>7, <1>8, <1>9, ClientAndSockets

\* What a message makes of a client.
LEMMA ToldIs ==
  ASSUME NEW k, ClientOK(k), k.sock # Sock0, NEW m \in CoreMessages
  PROVE  ClientOK(Told(k, m)) /\ Told(k, m).sock = k.sock /\ Told(k, m).nets = After(k.nets, m)
<1> DEFINE Good(r, x) == ClientOK(r) /\ r.sock = k.sock /\ r.nets = x
<1>1. ASSUME NEW r, NEW x, Good(r, x)
      PROVE  Good(Checked(r), x)
  BY <1>1 DEF Checked, ClientOK
<1>2. ASSUME NEW r, NEW x, NEW n, Good(r, x)
      PROVE  Good(InitDone(r, n), x)
  <2>1. Good([r EXCEPT !.toSync = @ \ {n}], x)
    BY <1>2 DEF ClientOK
  <2> HIDE DEF Good
  <2> QED BY <1>1, <2>1 DEF InitDone
<1>3. Good(k, k.nets)
  OBVIOUS
<1>4. CASE m.op = "SessionInit"
  <2>1. Good([k EXCEPT !.peer = TRUE, !.nets = m.nets, !.toSync = m.nets], m.nets)
    BY DEF ClientOK
  <2>2. Good(Checked([k EXCEPT !.peer = TRUE, !.nets = m.nets, !.toSync = m.nets]), m.nets)
    <3> HIDE DEF Good
    <3> QED BY <1>1, <2>1
  <2> QED BY <1>4, <2>2 DEF Told, After
<1>5. CASE m.op = "networkRemoved"
  <2>1. Good([k EXCEPT !.nets = @ \ {m.net}], k.nets \ {m.net})
    BY DEF ClientOK
  <2>2. Good(InitDone([k EXCEPT !.nets = @ \ {m.net}], m.net), k.nets \ {m.net})
    <3> HIDE DEF Good
    <3> QED BY <1>2, <2>1
  <2> QED BY <1>5, <2>2 DEF Told, Removed, After
<1>6. CASE m.op = "InitData"
  <2>1. Good(InitDone(k, m.net), k.nets)
    BY <1>2, <1>3
  <2> QED BY <1>6, <2>1 DEF Told, After
<1>7. CASE m.op \notin {"SessionInit", "networkRemoved", "InitData"}
  BY <1>7 DEF Told, After, ClientOK, CoreMessages
<1> QED BY <1>4, <1>5, <1>6, <1>7

LEMMA ReceiveStep ==
  ASSUME NetInv, NEW c \in Clients, ClientReceives(c)
  PROVE  NetInv'
<1> DEFINE s == client[c].sock
           m == Head(sock[s].down)
           k == Told(client[c], m)
           rest == sock[s].up \o Asked(client[c], m) \o SetToSeq({[op |-> a] : a \in Answer(m)})
           t == [sock[s] EXCEPT !.down = Tail(@), !.up = rest]
<1>1. s # Sock0 /\ sock[s].down # << >> /\ s \in Sockets /\ ClientOK(client[c]) /\ SocketOK(sock[s])
  BY DEF ClientReceives, NetInv, TypesOK, ClientOK
<1>2. CASE client' = [client EXCEPT ![c] = Told(@, m)]
           /\ sock' = [sock EXCEPT ![s].down = Tail(@),
                                   ![s].up = @ \o Asked(client[c], m)
                                               \o SetToSeq({[op |-> a] : a \in Answer(m)})]
           /\ UNCHANGED <<coreVars, netVars, wish, acts>>
  <2>1. sock' = [sock EXCEPT ![s] = t] /\ client' = [client EXCEPT ![c] = k]
    BY <1>1, <1>2 DEF SocketOK, NetInv, TypesOK
  <2>2. /\ SocketOK(t) /\ t.phase = sock[s].phase /\ t.link = sock[s].link
        /\ t.down = Tail(sock[s].down) /\ m \in CoreMessages /\ sock[s].down \in Seq(CoreMessages)
    <3> HIDE DEF rest
    <3> QED BY <1>1, HeadTailProperties DEF SocketOK
  <2> HIDE DEF t
  <2>3. ClientOK(k) /\ k.sock = s /\ k.nets = After(client[c].nets, m)
    <3> HIDE DEF m
    <3> QED BY <1>1, <2>2, ToldIs DEF k
  <2>4. Fed(client[c].nets, sock[s], nets)
    BY <1>1 DEF NetInv
  <2>5. Fed(After(client[c].nets, Head(sock[s].down)), t, nets)
    BY <1>1, <2>2, <2>4, FedLess
  <2>6. Fed(k.nets, t, nets)
    BY <2>3, <2>5
  <2>7. /\ sock' = [x \in Sockets |-> sock'[x]] /\ sock'[s] = t
        /\ \A x \in Sockets \ {s} : sock'[x] = sock[x]
    BY <1>1, <2>1 DEF NetInv, TypesOK
  <2>8. /\ \A x \in Sockets : SocketOK(sock'[x])
        /\ \A x \in Sockets : x \notin {client[c].sock, k.sock} => sock'[x] = sock[x]
    BY <2>2, <2>7 DEF NetInv, TypesOK
  <2>9. k.sock \in {Sock0, client[c].sock} \union Unused /\ Fed(k.nets, sock'[k.sock], nets)
    BY <2>3, <2>6, <2>7
  <2> HIDE DEF k
  <2>10. UNCHANGED netVars
    BY <1>2
  <2> QED BY <2>1, <2>3, <2>7, <2>8, <2>9, <2>10, ClientAndSockets
<1>3. CASE Disconnects(c)
  BY <1>3, DropStep DEF Disconnects
<1> QED BY <1>2, <1>3 DEF ClientReceives

LEMMA NetClientStep ==
  ASSUME NetInv, NEW c \in Clients, ClientStep(c) \/ ConnectToCore(c) \/ UserDisconnects(c)
  PROVE  NetInv'
<1>1. CASE ReconnectTimeout(c)
  <2> DEFINE k == [client[c] EXCEPT !.timer = FALSE]
  <2>1. UNCHANGED netVars
    BY <1>1 DEF ReconnectTimeout
  <2>2. CASE Dial(c, k)
    BY <2>1, <2>2, DialStep
  <2>3. CASE client' = [client EXCEPT ![c] = k] /\ UNCHANGED sock
    <3>1. ClientOK(client[c]) /\ sock' = [s \in Sockets |-> sock'[s]] /\ \A s \in Sockets : SocketOK(sock'[s])
      BY <2>3 DEF NetInv, TypesOK
    <3>2. ClientOK(k) /\ k.sock = client[c].sock /\ k.nets = client[c].nets
      BY <3>1 DEF ClientOK
    <3>3. k.sock \in Sockets => Fed(k.nets, sock'[k.sock], nets)
      BY <2>3, <3>2 DEF NetInv
    <3> HIDE DEF k
    <3>4. NetInv'
      BY <2>1, <2>3, <3>1, <3>2, <3>3, ClientAndSockets
    <3> QED BY <2>1, <2>3, <3>4
  <2> QED BY <1>1, <2>2, <2>3 DEF ReconnectTimeout
<1>2. CASE CoreSocketDisconnected(c)
  BY <1>2, DropStep DEF CoreSocketDisconnected
<1>3. CASE ClientPingTimeout(c)
  BY <1>3, DropStep DEF ClientPingTimeout
<1>4. CASE ClientReceives(c)
  BY <1>4, ReceiveStep
<1>5. CASE ConnectToCore(c)
  BY <1>5, DialStep DEF ConnectToCore
<1>6. CASE UserDisconnects(c)
  BY <1>6, DropStep DEF UserDisconnects, Disconnects
<1> QED BY <1>1, <1>2, <1>3, <1>4, <1>5, <1>6 DEF ClientStep

LEMMA NetInvInit == AttachInit => NetInv
<1> SUFFICES ASSUME AttachInit PROVE NetInv
  OBVIOUS
<1>1. SocketOK(Closed) /\ ClientOK(Detached) /\ Detached.sock = Sock0
  BY EmptySeq DEF Closed, SocketOK, Detached, ClientOK, Sock0
<1>2. Sock0 \notin Sockets /\ Nets0 \subseteq Networks
  BY AttachAssumption DEF Sock0
<1>3. sock = [s \in Sockets |-> Closed] /\ client = [c \in Clients |-> Detached]
      /\ nets \subseteq Networks /\ made \subseteq Networks
  BY <1>2 DEF AttachInit
<1>4. \A s \in Sockets : sock[s] = Closed
  BY <1>3
<1>5. \A c \in Clients : client[c] = Detached
  BY <1>3
<1> QED BY <1>1, <1>2, <1>3, <1>4, <1>5 DEF NetInv, TypesOK

LEMMA ConfiguredStep ==
  ASSUME ConfiguredType, [AttachNext]_attachVars
  PROVE  ConfiguredType'
<1> USE DEF ConfiguredType
<1>1. CASE CoreStep
  <2>1. ASSUME NEW s \in Sockets, ProcessClientMessage(s)
        PROVE  ConfiguredType'
    BY <2>1 DEF ProcessClientMessage, ClientInit, CoreSetupData, ClientLogin, coreVars
  <2>2. ASSUME NEW s \in Sockets,
               \/ IncomingConnection(s) \/ AddClientEvent(s) \/ AddClient(s)
               \/ ReceivePeerSignal(s) \/ ReceiveHeartBeatReply(s) \/ SocketDisconnected(s)
        PROVE  UNCHANGED configured
    BY <2>2 DEF IncomingConnection, AddClientEvent, AddClient, ReceivePeerSignal,
                ReceiveHeartBeatReply, SocketDisconnected, coreVars
  <2>3. ASSUME SetSessionInitialized \/ SendHeartBeat
        PROVE  UNCHANGED configured
    BY <2>3 DEF SetSessionInitialized, SendHeartBeat, coreVars
  <2> QED BY <1>1, <2>1, <2>2, <2>3 DEF CoreStep
<1>2. CASE Restart
  BY <1>2 DEF Restart
<1>3. ASSUME NEW n \in Networks, CreateNetwork(n) \/ DestroyNetwork(n)
      PROVE  UNCHANGED configured
  BY <1>3 DEF CreateNetwork, DestroyNetwork, coreVars
<1>4. ASSUME NEW c \in Clients, ClientStep(c) \/ ConnectToCore(c) \/ UserDisconnects(c)
      PROVE  UNCHANGED configured
  BY <1>4 DEF ClientStep, ConnectToCore, UserDisconnects, ReconnectTimeout, CoreSocketDisconnected,
              ClientPingTimeout, ClientReceives, Disconnects, Dial, coreVars
<1>5. ASSUME NEW s \in Sockets, LinkBreaks(s) \/ LinkFallsSilent(s)
      PROVE  UNCHANGED configured
  BY <1>5 DEF LinkBreaks, LinkFallsSilent, coreVars
<1>6. CASE UNCHANGED attachVars
  BY <1>6 DEF attachVars, coreVars
<1> QED BY <1>1, <1>2, <1>3, <1>4, <1>5, <1>6 DEF AttachNext

LEMMA NetInvStep ==
  ASSUME NetInv, ConfiguredType, [AttachNext]_attachVars
  PROVE  NetInv'
<1>1. CASE CoreStep
  <2>1. ASSUME NEW s \in Sockets,
               \/ IncomingConnection(s) \/ ProcessClientMessage(s) \/ AddClientEvent(s)
               \/ AddClient(s) \/ ReceivePeerSignal(s) \/ ReceiveHeartBeatReply(s)
               \/ SocketDisconnected(s)
        PROVE  NetInv'
    BY <2>1, IncomingStep, ProcessStep, AddClientEventStep, AddClientStep, PeerSignalStep,
       HeartBeatReplyStep, SocketDisconnectedStep
  <2> QED BY <1>1, <2>1, InitializedStep, HeartBeatStep DEF CoreStep
<1>2. CASE Restart
  BY <1>2, RestartStep
<1>3. ASSUME NEW n \in Networks, CreateNetwork(n) \/ DestroyNetwork(n)
      PROVE  NetInv'
  BY <1>3, NetworkStep
<1>4. ASSUME NEW c \in Clients, ClientStep(c) \/ ConnectToCore(c) \/ UserDisconnects(c)
      PROVE  NetInv'
  BY <1>4, NetClientStep
<1>5. ASSUME NEW s \in Sockets, LinkBreaks(s) \/ LinkFallsSilent(s)
      PROVE  NetInv'
  BY <1>5, LinkStep
<1>6. CASE UNCHANGED attachVars
  <2>1. UNCHANGED <<client, nets, made, sock>>
    BY <1>6 DEF attachVars, netVars
  <2> QED BY <2>1 DEF NetInv, TypesOK
<1> QED BY <1>1, <1>2, <1>3, <1>4, <1>5, <1>6 DEF AttachNext

\* Once all is delivered an attached client has the networks of its session, however many
\* clients come and go and whatever breaks meanwhile.
THEOREM NetworksAgreeHolds == AttachSpec => []NetworksAgree
<1>1. ASSUME NetInv
      PROVE  NetworksAgree
  <2> SUFFICES ASSUME NEW c \in Clients, client[c].peer, sock[client[c].sock].link = "up",
                      sock[client[c].sock].phase = "peer", sock[client[c].sock].down = << >>
               PROVE  client[c].nets = nets
    BY DEF NetworksAgree
  <2>1. client[c].sock \in Sockets
    BY <1>1 DEF NetInv, TypesOK, ClientOK
  <2>2. Fed(client[c].nets, sock[client[c].sock], nets)
    BY <1>1, <2>1 DEF NetInv
  <2>3. PICK h : Follows(h, client[c].nets, << >>, nets)
    BY <2>2 DEF Fed
  <2> QED BY <2>3 DEF Follows
<1>2. AttachInit => ConfiguredType
  BY DEF AttachInit, ConfiguredType
<1> QED BY <1>1, <1>2, NetInvInit, NetInvStep, ConfiguredStep, PTL DEF AttachSpec

-----------------------------------------------------------------------------
(* Being away *)

AwayMessages == Messages \union {None}

AwayType ==
  /\ attached \in Nat /\ detachAway \in BOOLEAN /\ up \in BOOLEAN
  /\ me \in [away : BOOLEAN, msg : AwayMessages]
  /\ stored \in AwayMessages /\ server \in AwayMessages
  /\ lines \in Seq(AwayMessages \union {Quit})
  /\ intent \in AwayMessages \union {Some, Unsure}

\* What the core thinks of the server is what the server has answered.
MirrorInv ==
  /\ ~up => me = NewIrcUser /\ server = None
  /\ up => (me.away <=> server # None)

\* Where what the server should come to show is to be found: in the database while there is
\* no connection or it is given up, in the last AWAY under way, or in the server itself.
\* In the last two cases the core has the message as well, to save it.
KnownInv ==
  /\ intent = Some => up /\ lines = << >> /\ server # None
  /\ intent \in AwayMessages =>
       /\ ~up => stored = intent /\ AllAnswered
       /\ up /\ Quitting => stored = intent /\ Head(lines) = Quit
       /\ up /\ AllAnswered => server = intent /\ (intent # None => me.msg = intent)
       /\ up /\ ~Quitting /\ lines # << >> =>
            lines[Len(lines)] = intent /\ (intent # None => me.msg = intent)

AwayInv == AwayType /\ MirrorInv /\ KnownInv

LEMMA Marks ==
  /\ None \notin Messages /\ Quit \notin AwayMessages
  /\ Some \notin AwayMessages /\ Unsure \notin AwayMessages
  /\ Some # Unsure
  /\ AwayReason \in AwayMessages /\ AwayReason # None /\ DetachReason \in AwayMessages
<1>1. Some # Unsure
  BY DEF Some, Unsure
<1> QED BY <1>1, DetachAwayAssumption DEF AwayMessages

LEMMA EmptyLines ==
  ASSUME lines = << >>
  PROVE  AllAnswered /\ ~Quitting
BY DEF AllAnswered, Quitting, Has

\* An AWAY that is sent on a connection that stays is the last one, and its message is
\* what was asked for, unless nobody knows.
LEMMA Asks ==
  ASSUME AwayInv, up, NEW m \in AwayMessages,
         lines' = Append(lines, m), me' = SetAwayMessage(me, m),
         intent' = Unsure \/ (intent' = m /\ ~Quitting),
         attached' \in Nat, UNCHANGED <<detachAway, up, stored, server>>
  PROVE  AwayInv'
<1> DEFINE S == AwayMessages \union {Quit}
           n == Len(lines)
<1>1. /\ lines' \in Seq(S) /\ Len(lines') = n + 1 /\ lines'[n + 1] = m /\ n \in Nat
      /\ \A i \in 1..n : lines'[i] = lines[i]
  BY AppendProperties DEF AwayInv, AwayType
<1>2. me' \in [away : BOOLEAN, msg : AwayMessages] /\ me'.away = me.away /\ (m # None => me'.msg = m)
  BY DEF SetAwayMessage, AwayInv, AwayType
<1>3. DOMAIN lines = 1..n /\ DOMAIN lines' = 1..n + 1 /\ n + 1 \in 1..n + 1
  BY <1>1 DEF AwayInv, AwayType
<1>4. AwayType'
  BY <1>1, <1>2 DEF AwayInv, AwayType
<1>5. MirrorInv'
  BY <1>2 DEF AwayInv, MirrorInv
<1>6. ~AllAnswered'
  BY <1>1, <1>3, Marks DEF AllAnswered
<1>7. CASE intent' = Unsure
  BY <1>4, <1>5, <1>7, Marks DEF AwayInv, KnownInv
<1>8. CASE intent' = m /\ ~Quitting
  <2>1. ~Quitting'
    BY <1>1, <1>3, <1>8, Marks DEF Quitting, Has
  <2>2. lines'[Len(lines')] = m
    BY <1>1
  <2> QED BY <1>2, <1>4, <1>5, <1>6, <1>8, <2>1, <2>2, Marks DEF AwayInv, KnownInv
<1> QED BY <1>7, <1>8

\* A step that changes neither the connection nor what is under way.
LEMMA Stays ==
  ASSUME AwayInv, UNCHANGED <<up, me, stored, lines, server>>, attached' \in Nat, detachAway' \in BOOLEAN,
         \/ intent' = intent \/ intent' = Unsure
         \/ intent' = Some /\ up /\ lines = << >> /\ server # None
         \/ intent' = None /\ up /\ lines = << >> /\ server = None
  PROVE  AwayInv'
<1>1. MirrorInv' /\ (AllAnswered' <=> AllAnswered) /\ (Quitting' <=> Quitting)
  BY DEF AwayInv, MirrorInv, AllAnswered, Quitting, Has
<1>2. AwayType'
  BY Marks DEF AwayInv, AwayType, AwayMessages
<1>3. KnownInv'
  <2>1. CASE intent' = intent
    BY <1>1, <2>1 DEF AwayInv, KnownInv
  <2>2. CASE intent' = Unsure
    BY <2>2, Marks DEF KnownInv
  <2>3. CASE intent' = Some /\ up /\ lines = << >> /\ server # None
    BY <2>3, Marks DEF KnownInv
  <2>4. CASE intent' = None /\ up /\ lines = << >> /\ server = None
    BY <1>1, <2>4, EmptyLines, Marks DEF KnownInv, AwayMessages
  <2> QED BY <2>1, <2>2, <2>3, <2>4
<1> QED BY <1>1, <1>2, <1>3 DEF AwayInv

\* A command without a connection: nothing is known from then on.
LEMMA LostCommand ==
  ASSUME AwayInv, ~up, NEW m \in AwayMessages, lines' = Append(lines, m) \/ lines' = lines,
         intent' = Unsure, UNCHANGED <<attached, detachAway, up, me, stored, server>>
  PROVE  AwayInv'
<1>1. lines' \in Seq(AwayMessages \union {Quit})
  BY AppendProperties DEF AwayInv, AwayType
<1> QED BY <1>1, Marks DEF AwayInv, AwayType, MirrorInv, KnownInv

LEMMA CommandStep ==
  ASSUME AwayInv, NEW m \in AwayMessages, HandleAway(m) \/ GlobalAway(m)
  PROVE  AwayInv'
<1>1. UNCHANGED <<attached, detachAway, up, stored, server>> /\ attached' \in Nat
  BY DEF HandleAway, GlobalAway, AwayInv, AwayType
<1>2. CASE ~up
  <2>1. HandleAway(m) /\ intent' = Unsure
    BY <1>2 DEF HandleAway, GlobalAway, ToldByUser
  <2>2. /\ AwayMsg(m, TRUE) = m /\ me' = me
        /\ lines' = Append(lines, m) \/ lines' = lines
    BY <1>2, <2>1 DEF HandleAway, IssueAway, AwayMsg
  <2> QED BY <1>1, <1>2, <2>1, <2>2, LostCommand
<1>3. CASE up
  <2>1. CASE HandleAway(m)
    <3>1. AwayMsg(m, TRUE) = IF m = None /\ server = None THEN AwayReason ELSE m
      BY <1>3 DEF AwayMsg, AwayInv, MirrorInv
    <3> DEFINE b == IF m = None /\ server = None THEN AwayReason ELSE m
    <3>2. lines' = Append(lines, b) /\ me' = SetAwayMessage(me, b)
      BY <1>3, <2>1, <3>1 DEF HandleAway, IssueAway
    <3>3. intent' = Unsure \/ (intent' = b /\ ~Quitting)
      BY <1>3, <2>1 DEF HandleAway, ToldByUser
    <3>4. b \in AwayMessages
      BY Marks
    <3> HIDE DEF b
    <3> QED BY <1>1, <1>3, <3>2, <3>3, <3>4, Asks
  <2>2. CASE GlobalAway(m)
    <3>1. lines' = Append(lines, m) /\ me' = SetAwayMessage(me, m)
      BY <1>3, <2>2 DEF GlobalAway, IssueAway, AwayMsg
    <3>2. intent' = Unsure \/ (intent' = m /\ ~Quitting)
      BY <1>3, <2>2 DEF GlobalAway, ToldByUser
    <3> QED BY <1>1, <1>3, <3>1, <3>2, Asks
  <2> QED BY <2>1, <2>2
<1> QED BY <1>2, <1>3

LEMMA AnsweredStep ==
  ASSUME AwayInv, AwayAnswered
  PROVE  AwayInv'
<1> DEFINE n == Len(lines)
<1>1. /\ up /\ lines # << >> /\ Head(lines) # Quit /\ lines' = Tail(lines)
      /\ server' = Head(lines) /\ me' = [me EXCEPT !.away = Head(lines) # None]
      /\ UNCHANGED <<attached, detachAway, up, stored, intent>>
  BY DEF AwayAnswered
<1>2. /\ n \in Nat \ {0} /\ DOMAIN lines = 1..n /\ Head(lines) = lines[1]
      /\ lines' \in Seq(AwayMessages \union {Quit}) /\ Len(lines') = n - 1 /\ DOMAIN lines' = 1..n - 1
      /\ \A i \in 1..n - 1 : lines'[i] = lines[i + 1]
      /\ Head(lines) \in AwayMessages
  BY <1>1, HeadTailProperties DEF AwayInv, AwayType
<1> HIDE DEF n
<1>3. AwayType' /\ MirrorInv'
  BY <1>1, <1>2 DEF AwayInv, AwayType, MirrorInv
<1>4. ASSUME intent \in AwayMessages
      PROVE  /\ ~Quitting /\ ~Quitting' /\ me'.msg = me.msg
             /\ lines[n] = intent /\ (intent # None => me.msg = intent)
  <2>1. ~Quitting
    BY <1>1, <1>4 DEF AwayInv, KnownInv
  <2>2. \A i \in 1..n : lines[i] # Quit
    BY <1>2, <2>1 DEF Quitting, Has
  <2>3. ASSUME NEW i \in 1..n - 1 PROVE lines'[i] # Quit
    <3>1. i + 1 \in 1..n
      BY <1>2
    <3> QED BY <1>2, <2>2, <3>1
  <2>4. ~Quitting'
    BY <1>2, <2>3 DEF Quitting, Has
  <2> QED BY <1>1, <1>3, <1>4, <2>1, <2>4 DEF AwayInv, AwayType, KnownInv, n
<1>5. KnownInv'
  <2>1. intent # Some
    BY <1>1 DEF AwayInv, KnownInv
  <2>2. ASSUME intent \in AwayMessages
        PROVE  /\ AllAnswered' => server' = intent
               /\ lines' # << >> => lines'[Len(lines')] = intent
    <3>1. CASE n = 1
      BY <1>1, <1>2, <1>4, <2>2, <3>1
    <3>2. CASE n # 1
      <4>1. n - 1 \in 1..n - 1 /\ (n - 1) + 1 = n
        BY <1>2, <3>2
      <4>2. lines'[n - 1] = intent
        BY <1>2, <1>4, <2>2, <4>1
      <4> QED BY <1>2, <2>2, <4>1, <4>2, Marks DEF AllAnswered
    <3> QED BY <3>1, <3>2
  <2> QED BY <1>1, <1>4, <2>1, <2>2 DEF KnownInv
<1> QED BY <1>3, <1>5 DEF AwayInv

LEMMA PeerStep ==
  ASSUME AwayInv, PeerAdded \/ PeerRemoved
  PROVE  AwayInv'
<1>1. /\ UNCHANGED <<up, stored, server, detachAway>> /\ attached' \in Nat /\ attached \in Nat
      /\ attached' = attached + 1 \/ attached' = attached - 1
  <2>1. UNCHANGED <<up, stored, server, detachAway>>
    BY DEF PeerAdded, PeerRemoved
  <2>2. attached' = attached + 1 \/ (attached > 0 /\ attached' = attached - 1)
    BY DEF PeerAdded, PeerRemoved
  <2> QED BY <2>1, <2>2 DEF AwayInv, AwayType
<1>2. up => (me.away <=> server # None)
  BY DEF AwayInv, MirrorInv
<1>3. CASE PeerAdded
  <2>1. CASE Connected(attached') /\ up /\ detachAway /\ me.away
    <3>1. lines' = Append(lines, None) /\ me' = SetAwayMessage(me, None)
      BY <1>3, <2>1 DEF PeerAdded, IssueAway, AwayMsg
    <3>2. intent' = Unsure \/ (intent' = None /\ ~Quitting)
      BY <1>1, <1>3, <2>1, EmptyLines DEF PeerAdded, Connected, Decided
    <3> QED BY <1>1, <2>1, <3>1, <3>2, Asks DEF AwayMessages
  <2>2. CASE ~(Connected(attached') /\ up /\ detachAway /\ me.away)
    <3>1. UNCHANGED <<me, lines>>
      BY <1>3, <2>2 DEF PeerAdded
    <3>2. \/ intent' = intent \/ intent' = Unsure
          \/ intent' = None /\ up /\ lines = << >> /\ server = None
      BY <1>1, <1>2, <1>3, <2>2 DEF PeerAdded, Connected, Decided
    <3> QED BY <1>1, <3>1, <3>2, Stays DEF AwayInv, AwayType
  <2> QED BY <2>1, <2>2
<1>4. CASE PeerRemoved
  <2> DEFINE b == IF DetachReason = None THEN AwayReason ELSE DetachReason
             keep == IF intent \in Messages THEN intent ELSE Some
  <2>1. intent' = intent \/ (Disconnected(attached') /\ Decided(IF server # None THEN keep ELSE b))
    BY <1>1, <1>4 DEF PeerRemoved, Disconnected
  <2>2. CASE Disconnected(attached') /\ up /\ detachAway /\ ~me.away
    <3>1. lines' = Append(lines, b) /\ me' = SetAwayMessage(me, b) /\ b \in AwayMessages
      BY <1>4, <2>2, Marks DEF PeerRemoved, IssueAway, AwayMsg
    <3>2. attached = 1
      BY <1>1, <1>4, <2>2 DEF Disconnected, PeerRemoved
    <3>3. Decided(IF server # None THEN keep ELSE b)
      BY <1>4, <3>2 DEF PeerRemoved
    <3>4. intent' = Unsure \/ (intent' = b /\ ~Quitting)
      BY <1>2, <2>2, <3>3, EmptyLines DEF Decided
    <3> HIDE DEF b
    <3> QED BY <1>1, <2>2, <3>1, <3>4, Asks
  <2>3. CASE ~(Disconnected(attached') /\ up /\ detachAway /\ ~me.away)
    <3>1. UNCHANGED <<me, lines>>
      BY <1>4, <2>3 DEF PeerRemoved
    <3>2. \/ intent' = intent \/ intent' = Unsure
          \/ intent' = Some /\ up /\ lines = << >> /\ server # None
      BY <1>2, <2>1, <2>3 DEF Decided
    <3> QED BY <1>1, <3>1, <3>2, Stays DEF AwayInv, AwayType
  <2> QED BY <2>2, <2>3
<1> QED BY <1>3, <1>4

\* What is saved is what is known, if all is answered.
LEMMA Saved ==
  ASSUME AwayInv, up, AllAnswered, intent \in AwayMessages
  PROVE  AwayToSave = intent
BY Marks DEF AwayToSave, AwayInv, MirrorInv, KnownInv, AwayType, AwayMessages

LEMMA InitializedNetworkStep ==
  ASSUME AwayInv, NetworkInitialized
  PROVE  AwayInv'
<1> DEFINE S == AwayMessages \union {Quit}
           n == Len(lines)
<1>1. /\ ~up /\ up' = TRUE /\ me' = SetAwayMessage(NewIrcUser, stored)
      /\ UNCHANGED <<attached, detachAway, stored, server, intent>>
      /\ server = None /\ stored \in AwayMessages
  BY DEF NetworkInitialized, AwayInv, AwayType, MirrorInv
<1>2. PICK i \in 0..n :
        /\ \A j \in 1..i : lines[j] # Quit
        /\ lines' = IF stored = None THEN SubSeq(lines, i + 1, n)
                    ELSE Append(SubSeq(lines, i + 1, n), stored)
  BY DEF NetworkInitialized
<1>3. lines \in Seq(S) /\ n \in Nat /\ DOMAIN lines = 1..n
  BY DEF AwayInv, AwayType
<1> HIDE DEF n
<1>4. SubSeq(lines, i + 1, n) \in Seq(S)
  <2>1. \A j \in i + 1..n : lines[j] \in S
    BY <1>3, ElementOfSeq DEF n
  <2> QED BY <1>3, <2>1, SubSeqProperties
<1>5. lines' \in Seq(S)
  BY <1>1, <1>2, <1>4, AppendProperties
<1>6. me' \in [away : BOOLEAN, msg : AwayMessages] /\ me'.away = FALSE /\ (stored # None => me'.msg = stored)
  BY <1>1 DEF SetAwayMessage, NewIrcUser, AwayMessages
<1>7. AwayType' /\ MirrorInv'
  BY <1>1, <1>5, <1>6 DEF AwayInv, AwayType, MirrorInv
<1>8. intent # Some
  BY <1>1 DEF AwayInv, KnownInv
<1>9. ASSUME intent \in AwayMessages
      PROVE  KnownInv'
  <2>1. stored = intent /\ \A j \in 1..n : lines[j] = Quit
    BY <1>1, <1>3, <1>9 DEF AwayInv, KnownInv, AllAnswered
  <2>2. i = 0 \/ n = 0
    BY <1>2, <1>3, <2>1
  <2>3. SubSeq(lines, i + 1, n) = lines
    BY <1>3, <2>2, SubSeqProperties DEF n
  <2>4. CASE stored = None
    <3>1. lines' = lines
      BY <1>2, <2>3, <2>4
    <3>2. AllAnswered' /\ (Quitting' => Head(lines') = Quit) /\ (lines' # << >> => Quitting')
      BY <1>3, <2>1, <3>1 DEF AllAnswered, Quitting, Has, n
    <3> QED BY <1>1, <1>8, <2>1, <2>4, <3>2 DEF KnownInv
  <2>5. CASE stored # None
    <3>1. /\ lines' = Append(lines, stored) /\ Len(lines') = n + 1 /\ lines'[n + 1] = stored
          /\ \A j \in 1..n : lines'[j] = Quit
          /\ DOMAIN lines' = 1..n + 1 /\ n + 1 \in 1..n + 1 /\ Head(lines') = lines'[1]
      BY <1>1, <1>2, <1>3, <2>1, <2>3, <2>5, AppendProperties DEF n
    <3>2. ~AllAnswered'
      BY <1>1, <3>1, Marks DEF AllAnswered
    <3>3. Quitting' => Head(lines') = Quit
      <4> SUFFICES ASSUME NEW j \in 1..n + 1, lines'[j] = Quit
                   PROVE  lines'[1] = Quit
        BY <3>1 DEF Quitting, Has
      <4> QED BY <1>1, <1>3, <3>1, Marks
    <3> QED BY <1>1, <1>6, <1>8, <2>1, <3>1, <3>2, <3>3 DEF KnownInv
  <2> QED BY <2>4, <2>5
<1>10. ASSUME intent \notin AwayMessages
       PROVE  KnownInv'
  BY <1>1, <1>8, <1>10 DEF KnownInv, AwayMessages
<1> QED BY <1>7, <1>9, <1>10 DEF AwayInv

LEMMA DisconnectStep ==
  ASSUME AwayInv, DisconnectFromIrc
  PROVE  AwayInv'
<1> DEFINE S == AwayMessages \union {Quit}
<1>1. /\ stored' = (IF up THEN AwayToSave ELSE stored)
      /\ intent' = IF up /\ (~AllAnswered \/ intent = Some) THEN Unsure ELSE intent
      /\ UNCHANGED <<attached, detachAway, up, me, server>>
  BY DEF DisconnectFromIrc
<1>2. lines \in Seq(S) /\ Len(lines) \in Nat
  BY DEF AwayInv, AwayType
<1>3. \/ lines' = << >> /\ ~up
      \/ \E i \in 0..Len(lines) : lines' = Append(SubSeq(lines, 1, i), Quit)
  BY DEF DisconnectFromIrc
<1>4. /\ lines' \in Seq(S)
      /\ AllAnswered => AllAnswered' /\ (lines' # << >> => Head(lines') = Quit)
  <2>1. CASE lines' = << >>
    BY <2>1, EmptySeq DEF AllAnswered
  <2>2. ASSUME NEW i \in 0..Len(lines), lines' = Append(SubSeq(lines, 1, i), Quit)
        PROVE  /\ lines' \in Seq(S)
               /\ AllAnswered => AllAnswered' /\ (lines' # << >> => Head(lines') = Quit)
    <3> DEFINE ls == SubSeq(lines, 1, i)
    <3>1. \A j \in 1..i : lines[j] \in S
      BY <1>2, ElementOfSeq
    <3>2. ls \in Seq(S) /\ Len(ls) = i /\ \A j \in 1..i : ls[j] = lines[j]
      BY <1>2, <3>1, SubSeqProperties
    <3> HIDE DEF ls
    <3>3. /\ lines' = Append(ls, Quit) /\ Append(ls, Quit) \in Seq(S) /\ Len(lines') = i + 1
          /\ lines'[i + 1] = Quit /\ \A j \in 1..i : lines'[j] = lines[j]
      BY <2>2, <3>2, AppendProperties DEF ls
    <3>4. DOMAIN lines' = 1..i + 1 /\ DOMAIN lines = 1..Len(lines) /\ Head(lines') = lines'[1]
      BY <1>2, <3>3
    <3>5. ASSUME AllAnswered, NEW j \in 1..i + 1 PROVE lines'[j] = Quit
      BY <1>2, <3>3, <3>4, <3>5 DEF AllAnswered
    <3>6. AllAnswered => AllAnswered' /\ Head(lines') = Quit
      BY <1>2, <3>4, <3>5 DEF AllAnswered
    <3> QED BY <3>3, <3>6
  <2> QED BY <1>3, <2>1, <2>2
<1>5. AwayType' /\ MirrorInv'
  <2>1. stored' \in AwayMessages
    BY <1>1 DEF AwayInv, AwayType, AwayToSave, AwayMessages
  <2>2. intent' \in AwayMessages \union {Some, Unsure}
    BY <1>1 DEF AwayInv, AwayType
  <2>3. AwayType'
    BY <1>1, <1>4, <2>1, <2>2 DEF AwayInv, AwayType
  <2>4. MirrorInv'
    BY <1>1 DEF AwayInv, MirrorInv
  <2> QED BY <2>3, <2>4
<1>6. intent' # Some
  BY <1>1, Marks DEF AwayInv, KnownInv
<1>7. ASSUME intent' \in AwayMessages
      PROVE  KnownInv'
  <2>1. intent' = intent /\ AllAnswered
    BY <1>1, <1>7, Marks DEF AwayInv, KnownInv
  <2>2. stored' = intent'
    BY <1>1, <1>7, <2>1, Saved DEF AwayInv, KnownInv
  <2>3. AllAnswered' /\ (lines' # << >> => Head(lines') = Quit)
    BY <1>4, <2>1
  <2>4. (Quitting' => lines' # << >>) /\ (lines' # << >> => Quitting')
    BY <1>4, <2>3 DEF Quitting, Has, AllAnswered
  <2>5. up => server = intent /\ (intent # None => me.msg = intent)
    BY <1>7, <2>1 DEF AwayInv, KnownInv
  <2> QED BY <1>1, <1>6, <2>1, <2>2, <2>3, <2>4, <2>5 DEF KnownInv
<1>8. KnownInv'
  BY <1>6, <1>7 DEF KnownInv
<1> QED BY <1>5, <1>8 DEF AwayInv

\* Without a connection and anything under way, what is stored decides.
LEMMA Offline ==
  ASSUME AwayInv, NoConnection, attached' \in Nat, detachAway' \in BOOLEAN, stored' \in AwayMessages,
         intent' \in AwayMessages \union {Unsure}, intent' \in AwayMessages => stored' = intent'
  PROVE  AwayInv'
<1>1. up' = FALSE /\ me' = NewIrcUser /\ lines' = << >> /\ server' = None
  BY DEF NoConnection
<1>2. AwayType' /\ MirrorInv'
  <2>1. me' \in [away : BOOLEAN, msg : AwayMessages] /\ None \in AwayMessages
    BY <1>1 DEF NewIrcUser, AwayMessages
  <2>2. lines' \in Seq(AwayMessages \union {Quit})
    BY <1>1, EmptySeq
  <2>3. AwayType'
    BY <1>1, <2>1, <2>2 DEF AwayType
  <2> QED BY <1>1, <2>3 DEF MirrorInv
<1>3. KnownInv'
  BY <1>1, EmptyLines, Marks DEF KnownInv, AllAnswered
<1> QED BY <1>2, <1>3 DEF AwayInv

LEMMA ConnectionEndsStep ==
  ASSUME AwayInv, ConnectionEnds
  PROVE  AwayInv'
<1>1. /\ NoConnection /\ UNCHANGED <<attached, detachAway, stored>>
      /\ intent' = IF up /\ ~Quitting /\ stored # intent THEN Unsure ELSE intent
  BY DEF ConnectionEnds
<1>2. stored \in AwayMessages
  BY DEF AwayInv, AwayType
<1>3. intent = Some => up /\ ~Quitting
  BY EmptyLines DEF AwayInv, KnownInv
<1>4. intent' \in AwayMessages \union {Unsure}
  BY <1>1, <1>2, <1>3, Marks DEF AwayInv, AwayType
<1>5. intent' \in AwayMessages => stored = intent'
  BY <1>1, Marks DEF AwayInv, KnownInv
<1> QED BY <1>1, <1>2, <1>4, <1>5, Offline DEF AwayInv, AwayType

LEMMA CoreRestartsStep ==
  ASSUME AwayInv, NEW orderly \in BOOLEAN, CoreRestarts(orderly)
  PROVE  AwayInv'
<1>1. /\ NoConnection /\ attached' = 0 /\ detachAway' = detachAway
      /\ stored' = (IF orderly /\ up THEN AwayToSave ELSE stored)
      /\ \/ intent' = Unsure
         \/ /\ intent' = intent
            /\ ~(up /\ orderly /\ (~AllAnswered \/ intent = Some))
            /\ ~(up /\ ~orderly /\ ~Quitting /\ stored # intent)
  BY DEF CoreRestarts
<1>2. stored' \in AwayMessages /\ stored \in AwayMessages
  BY <1>1 DEF AwayToSave, AwayInv, AwayType, AwayMessages
<1>3. intent = Some => up /\ ~Quitting
  BY EmptyLines DEF AwayInv, KnownInv
<1>4. intent' \in AwayMessages \union {Unsure}
  BY <1>1, <1>2, <1>3, Marks DEF AwayInv, AwayType
<1>5. ASSUME intent' \in AwayMessages PROVE stored' = intent'
  <2>1. intent' = intent
    BY <1>1, <1>5, Marks
  <2>2. CASE orderly /\ up
    BY <1>1, <1>5, <2>1, <2>2, Saved, Marks
  <2>3. CASE ~(orderly /\ up)
    BY <1>1, <1>5, <2>1, <2>3, Marks DEF AwayInv, KnownInv
  <2> QED BY <2>2, <2>3
<1> QED BY <1>1, <1>2, <1>4, <1>5, Offline DEF AwayInv, AwayType

LEMMA AwayInvStep == AwayInv /\ [AwayNext]_awayVars => AwayInv'
<1> SUFFICES ASSUME AwayInv, [AwayNext]_awayVars PROVE AwayInv'
  OBVIOUS
<1>1. ASSUME NEW m \in Messages \union {None}, HandleAway(m) \/ GlobalAway(m) PROVE AwayInv'
  BY <1>1, CommandStep DEF AwayMessages
<1>2. CASE AwayAnswered
  BY <1>2, AnsweredStep
<1>3. CASE PeerAdded \/ PeerRemoved
  BY <1>3, PeerStep
<1>4. CASE SetDetachAwayEnabled
  BY <1>4, Stays DEF SetDetachAwayEnabled, AwayInv, AwayType
<1>5. CASE NetworkInitialized
  BY <1>5, InitializedNetworkStep
<1>6. CASE DisconnectFromIrc
  BY <1>6, DisconnectStep
<1>7. CASE ConnectionEnds
  BY <1>7, ConnectionEndsStep
<1>8. ASSUME NEW orderly \in BOOLEAN, CoreRestarts(orderly) PROVE AwayInv'
  BY <1>8, CoreRestartsStep
<1>9. CASE UNCHANGED awayVars
  BY <1>9, Stays DEF awayVars, AwayInv, AwayType
<1> QED BY <1>1, <1>2, <1>3, <1>4, <1>5, <1>6, <1>7, <1>8, <1>9 DEF AwayNext

\* Once all is answered the server shows what was asked for last, by the user or by a client
\* that came or went, and the core knows it, over disconnects and later connections, for any
\* messages and any number of clients and commands; unless the program has lost track
\* (`intent' is Unsure).
THEOREM AwayFollowsHolds == AwaySpec => []AwayFollows
<1>1. AwayInit => AwayInv
  <2> SUFFICES ASSUME AwayInit PROVE AwayInv
    OBVIOUS
  <2> QED BY EmptySeq, EmptyLines, Marks
          DEF AwayInit, AwayInv, AwayType, MirrorInv, KnownInv, NewIrcUser, AwayMessages
<1>2. AwayInv => AwayFollows
  <2> SUFFICES ASSUME AwayInv, up, lines = << >> PROVE AwayFollows
    BY DEF AwayFollows
  <2> QED BY EmptyLines DEF AwayInv, MirrorInv, KnownInv, AwayFollows, AwayMessages
<1> QED BY <1>1, <1>2, AwayInvStep, PTL DEF AwaySpec
=============================================================================
