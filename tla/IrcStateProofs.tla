----------------------------- MODULE IrcStateProofs -----------------------------
(***************************************************************************)
(* IrcState, and its two users IrcView and Netsplit.                       *)
(*                                                                         *)
(* For every number of nicks and channels and every order of lines: the    *)
(* two sides of the membership agree, whoever leaves is forgotten, and the *)
(* core's picture follows the server's truth.  The agreement is inductive  *)
(* as a whole: forgetting a user is only safe because "on no channel" in   *)
(* the user's own set means "on no roster", the other half of the same     *)
(* invariant.  The picture lags behind by the lines under way, so what is  *)
(* invariant is that working them off makes it the truth.                  *)
(*                                                                         *)
(* For a split of any finite number of nicks on any finite number of       *)
(* channels: holding quits and joins back loses nobody, and no mode.  What *)
(* the timers do is a fold over users, channels or list entries; each is   *)
(* shown to do all of its steps, in whatever order.  The lists and the     *)
(* truth differ by exactly what is held back, which is inductive together  *)
(* with where a mode is: with the member, or with the held back join.      *)
(***************************************************************************)
EXTENDS IrcView, Netsplit, FiniteSetTheorems, SequenceTheorems, WellFoundedInduction, TLAPS


-----------------------------------------------------------------------------
(* The state the lines change *)

Known(n) ==
  /\ \A c \in Chans : n.roster[c] # {} => c \in n.chans
  /\ \A c \in Chans : n.roster[c] \subseteq n.users
Agree(n) ==
  /\ \A c \in Chans, u \in Nicks : u \in n.roster[c] <=> c \in n.on[u]
  /\ \A c \in Chans, u \in Nicks : n.modes[c][u] # {} => u \in n.roster[c]
Good(n) == n \in NetType /\ Known(n) /\ Agree(n)

\* A new user or a channel without members disturbs nothing.
LEMMA NewUserKeepsGood ==
  ASSUME NEW n, Good(n), NEW u \in Nicks
  PROVE  Good(NewIrcUser(n, u))
  BY DEF Good, NetType, Known, Agree, NewIrcUser

LEMMA NewChannelKeepsGood ==
  ASSUME NEW n, Good(n), NEW c \in Chans
  PROVE  Good(NewIrcChannel(n, c))
  BY DEF Good, NetType, Known, Agree, NewIrcChannel

\* Modes of a member may change to anything.
LEMMA ModeChangeKeepsGood ==
  ASSUME NEW n, Good(n), NEW c \in Chans, NEW u \in n.roster[c], NEW m \in SUBSET Modes
  PROVE  Good([n EXCEPT !.modes[c][u] = m])
<1> DEFINE k == [n EXCEPT !.modes[c][u] = m]
<1>0. u \in Nicks
  BY DEF Good, NetType
<1>1. /\ k.users = n.users /\ k.chans = n.chans /\ k.roster = n.roster /\ k.on = n.on
      /\ \A d \in Chans, v \in Nicks :
           k.modes[d][v] = IF d = c /\ v = u THEN m ELSE n.modes[d][v]
  BY <1>0 DEF Good, NetType
<1>2. k \in NetType
  <2> DEFINE M == [n.modes EXCEPT ![c][u] = m]
  <2>1. M \in [Chans -> [Nicks -> SUBSET Modes]]
    BY <1>0 DEF Good, NetType
  <2>2. k = [n EXCEPT !.modes = M]
    BY DEF Good, NetType
  <2> HIDE DEF M, k
  <2> QED BY <2>1, <2>2 DEF Good, NetType
<1> HIDE DEF k
<1>3. Known(k) /\ Agree(k)
  BY <1>1 DEF Good, Known, Agree
<1> QED BY <1>2, <1>3 DEF Good, k

LEMMA ModesKeepGood ==
  ASSUME NEW n, Good(n), NEW u \in Nicks, NEW c \in Chans, NEW m \in SUBSET Modes
  PROVE  Good(AddUserMode(n, u, c, m)) /\ Good(RemoveUserMode(n, u, c, m))
<1>1. n.modes[c][u] \union m \in SUBSET Modes /\ n.modes[c][u] \ m \in SUBSET Modes
  BY DEF Good, NetType
<1>2. [n EXCEPT !.modes[c][u] = @ \union m] = [n EXCEPT !.modes[c][u] = n.modes[c][u] \union m]
      /\ [n EXCEPT !.modes[c][u] = @ \ m] = [n EXCEPT !.modes[c][u] = n.modes[c][u] \ m]
  BY DEF Good, NetType
<1>3. u \in n.roster[c] =>
        /\ Good([n EXCEPT !.modes[c][u] = n.modes[c][u] \union m])
        /\ Good([n EXCEPT !.modes[c][u] = n.modes[c][u] \ m])
  BY <1>1, ModeChangeKeepsGood
<1> QED BY <1>2, <1>3 DEF AddUserMode, RemoveUserMode

\* Known users who join a known channel are listed on both sides.
LEMMA JoinKeepsGood ==
  ASSUME NEW n, Good(n), NEW c \in n.chans, NEW us \in SUBSET n.users,
         NEW m \in [Nicks -> SUBSET Modes]
  PROVE  Good(JoinIrcUsers(n, c, us, m))
<1> DEFINE k == JoinIrcUsers(n, c, us, m)
<1>1. k \in NetType
  <2> DEFINE R == n.roster[c] \union us
             M == [u \in Nicks |-> IF u \in us THEN n.modes[c][u] \union m[u] ELSE n.modes[c][u]]
             O == [u \in Nicks |-> IF u \in us THEN n.on[u] \union {c} ELSE n.on[u]]
  <2>1. R \in SUBSET Nicks /\ M \in [Nicks -> SUBSET Modes] /\ O \in [Nicks -> SUBSET Chans]
    BY DEF Good, NetType
  <2>2. k = [n EXCEPT !.roster[c] = R, !.modes[c] = M, !.on = O]
    BY DEF Good, NetType, JoinIrcUsers
  <2> HIDE DEF R, M, O, k
  <2> QED BY <2>1, <2>2 DEF Good, NetType
<1>2. Known(k)
  BY DEF Good, NetType, Known, JoinIrcUsers
<1>3. Agree(k)
  BY DEF Good, NetType, Agree, JoinIrcUsers
<1> QED BY <1>1, <1>2, <1>3 DEF Good

\* Whoever leaves channels of theirs, and whoever that leaves without a channel.
LEMMA LeaveKeepsGood ==
  ASSUME NEW n, Good(n), NEW u \in Nicks, NEW cs \in SUBSET Chans
  PROVE  Good(LeaveChannels(n, u, cs))
<1> DEFINE gone == GivenUp(n, u, cs)
           k == LeaveChannels(n, u, cs)
<1>0. gone \subseteq cs
  BY DEF GivenUp
<1>1. /\ k.me = n.me /\ k.connected = n.connected
      /\ k.roster = [c \in Chans |-> IF c \in gone THEN {} ELSE IF c \in cs THEN n.roster[c] \ {u} ELSE n.roster[c]]
      /\ k.modes = [c \in Chans |-> [v \in Nicks |->
                      IF c \in gone \/ (c \in cs /\ v = u) THEN {} ELSE n.modes[c][v]]]
      /\ k.on = [v \in Nicks |-> IF v = u THEN n.on[v] \ cs ELSE n.on[v] \ gone]
      /\ k.chans = n.chans \ gone
      /\ k.users = n.users \ Strangers(n, u, gone)
  BY DEF Good, NetType, LeaveChannels
<1>2. k \in NetType
  <2> DEFINE R == [c \in Chans |-> IF c \in gone THEN {} ELSE IF c \in cs THEN n.roster[c] \ {u} ELSE n.roster[c]]
             M == [c \in Chans |-> [v \in Nicks |->
                     IF c \in gone \/ (c \in cs /\ v = u) THEN {} ELSE n.modes[c][v]]]
             O == [v \in Nicks |-> IF v = u THEN n.on[v] \ cs ELSE n.on[v] \ gone]
             S == n.users \ Strangers(n, u, gone)
  <2>1. k = [n EXCEPT !.roster = R, !.modes = M, !.on = O, !.chans = n.chans \ gone, !.users = S]
    BY DEF Good, NetType, LeaveChannels
  <2> HIDE DEF k, gone
  <2>2. R \in [Chans -> SUBSET Nicks] /\ M \in [Chans -> [Nicks -> SUBSET Modes]]
        /\ O \in [Nicks -> SUBSET Chans] /\ S \in SUBSET Nicks
    BY DEF Good, NetType
  <2> HIDE DEF R, M, O, S
  <2> QED BY <2>1, <2>2 DEF Good, NetType
<1>3. Known(k)
  <2>1. ASSUME NEW c \in Chans, k.roster[c] # {}
        PROVE  c \in k.chans
    BY <1>1, <2>1 DEF Good, Known
  <2>2. ASSUME NEW c \in Chans, NEW v \in k.roster[c]
        PROVE  v \in k.users
    <3> HIDE DEF k, gone
    <3>1. c \notin gone /\ v \in n.roster[c] /\ v \in Nicks
      BY <1>1, <2>2 DEF Good, NetType
    <3>2. c \in n.on[v] /\ v \in n.users
      BY <3>1 DEF Good, Known, Agree
    <3>3. v \notin Strangers(n, u, gone)
      BY <3>1, <3>2 DEF Strangers
    <3> QED BY <1>1, <3>2, <3>3
  <2> QED BY <2>1, <2>2 DEF Known
<1>4. Agree(k)
  <2> HIDE DEF k, gone
  <2>1. ASSUME NEW c \in Chans, NEW v \in Nicks
        PROVE  v \in k.roster[c] <=> c \in k.on[v]
    BY <1>0, <1>1 DEF Good, NetType, Agree
  <2>2. ASSUME NEW c \in Chans, NEW v \in Nicks, k.modes[c][v] # {}
        PROVE  v \in k.roster[c]
    BY <1>0, <1>1, <2>2 DEF Good, NetType, Agree
  <2> QED BY <2>1, <2>2 DEF Agree
<1> QED BY <1>2, <1>3, <1>4 DEF Good

\* A user on no channel can be forgotten.
LEMMA RemoveKeepsGood ==
  ASSUME NEW n, Good(n), NEW u \in Nicks, n.on[u] = {}
  PROVE  Good(RemoveIrcUser(n, u))
  BY DEF Good, NetType, Known, Agree, RemoveIrcUser

LEMMA PartKeepsGood ==
  ASSUME NEW n, Good(n), NEW u \in Nicks, NEW c \in Chans
  PROVE  Good(PartChannel(n, u, c))
<1>1. Good(LeaveChannels(n, u, {c}))
  BY LeaveKeepsGood
<1> QED BY <1>1, RemoveKeepsGood DEF PartChannel, Forgotten

LEMMA QuitKeepsGood ==
  ASSUME NEW n, Good(n), NEW u \in Nicks
  PROVE  Good(Quit(n, u))
<1>1. n.on[u] \in SUBSET Chans
  BY DEF Good, NetType
<1>2. Good(LeaveChannels(n, u, n.on[u]))
  BY <1>1, LeaveKeepsGood
<1>3. LeaveChannels(n, u, n.on[u]).on[u] = {}
  BY DEF Good, NetType, LeaveChannels
<1> QED BY <1>2, <1>3, RemoveKeepsGood DEF Quit

\* A nick nobody we see holds takes the place of the old one everywhere.
LEMMA NickKeepsGood ==
  ASSUME NEW n, Good(n), NEW u \in n.users, NEW w \in Nicks, u # w, n.on[w] = {}
  PROVE  Good(SetNick(n, u, w))
<1> DEFINE k == SetNick(n, u, w)
<1>0. u \in Nicks
  BY DEF Good, NetType
<1>1. /\ k.users = Swap(n.users, u, w) /\ k.chans = n.chans
      /\ k.roster = [c \in Chans |-> Swap(n.roster[c], u, w)]
      /\ k.modes = [c \in Chans |-> [v \in Nicks |->
                      IF v = u THEN {}
                      ELSE IF v = w /\ u \in n.roster[c] THEN n.modes[c][u] ELSE n.modes[c][v]]]
      /\ k.on = [v \in Nicks |-> IF v = u THEN {} ELSE IF v = w THEN n.on[u] ELSE n.on[v]]
      /\ k.me = Me(n, u, w) /\ k.connected = n.connected
  BY DEF Good, NetType, SetNick
<1>3. k \in NetType
  <2> DEFINE R == [c \in Chans |-> Swap(n.roster[c], u, w)]
             M == [c \in Chans |-> [v \in Nicks |->
                     IF v = u THEN {}
                     ELSE IF v = w /\ u \in n.roster[c] THEN n.modes[c][u] ELSE n.modes[c][v]]]
             O == [v \in Nicks |-> IF v = u THEN {} ELSE IF v = w THEN n.on[u] ELSE n.on[v]]
             S == Swap(n.users, u, w)
             m == Me(n, u, w)
  <2>1. k = [n EXCEPT !.me = m, !.users = S, !.roster = R, !.modes = M, !.on = O]
    BY DEF Good, NetType, SetNick
  <2>2. /\ R \in [Chans -> SUBSET Nicks] /\ M \in [Chans -> [Nicks -> SUBSET Modes]]
        /\ O \in [Nicks -> SUBSET Chans] /\ S \in SUBSET Nicks /\ m \in Nicks \union {Nobody}
    BY <1>0 DEF Good, NetType, Me, Swap
  <2> HIDE DEF k, R, M, O, S, m
  <2> QED BY <2>1, <2>2 DEF Good, NetType
<1> HIDE DEF k
<1>4. \A c \in Chans : w \notin n.roster[c]
  BY DEF Good, Agree
<1>5. Known(k)
  BY <1>0, <1>1 DEF Good, Known, Swap
<1>6. Agree(k)
  <2>1. ASSUME NEW c \in Chans, NEW v \in Nicks
        PROVE  v \in k.roster[c] <=> c \in k.on[v]
    BY <1>0, <1>1, <1>4 DEF Good, NetType, Agree, Swap
  <2>2. ASSUME NEW c \in Chans, NEW v \in Nicks, k.modes[c][v] # {}
        PROVE  v \in k.roster[c]
    BY <1>0, <1>1, <1>4, <2>2 DEF Good, NetType, Agree, Swap
  <2> QED BY <2>1, <2>2 DEF Agree
<1> QED BY <1>3, <1>5, <1>6 DEF Good, k

-----------------------------------------------------------------------------
\* Every line keeps the two sides in agreement.
LEMMA JoinLineKeepsGood ==
  ASSUME NEW n, Good(n), NEW u \in Nicks, NEW c \in Chans
  PROVE  Good(Join(n, u, c))
<1> DEFINE k == NewIrcChannel(NewIrcUser(n, u), c)
<1>1. Good(NewIrcUser(n, u))
  BY NewUserKeepsGood
<1>2. Good(k)
  BY <1>1, NewChannelKeepsGood
<1>3. c \in k.chans /\ {u} \in SUBSET k.users /\ [v \in Nicks |-> {}] \in [Nicks -> SUBSET Modes]
  BY DEF Good, NetType, NewIrcUser, NewIrcChannel
<1>4. Good(JoinIrcUsers(k, c, {u}, [v \in Nicks |-> {}]))
  BY <1>2, <1>3, JoinKeepsGood
<1> QED BY <1>2, <1>4 DEF Join, JoinChannel

LEMMA NamesKeepGood ==
  ASSUME NEW n, Good(n), NEW c \in Chans, NEW us \in SUBSET Nicks, NEW m \in [Nicks -> SUBSET Modes]
  PROVE  Good(Names(n, c, us, m))
<1> DEFINE k == [n EXCEPT !.users = @ \union us]
<1>1. Good(k)
  BY DEF Good, NetType, Known, Agree
<1>2. us \in SUBSET k.users /\ k.chans = n.chans
  BY DEF Good, NetType
<1> QED BY <1>1, <1>2, JoinKeepsGood DEF Names

LEMMA WelcomeKeepsGood ==
  ASSUME NEW n, Good(n), NEW u \in Nicks
  PROVE  Good(Welcome(n, u))
BY DEF Good, NetType, Known, Agree, Welcome, SetMyNick, NewIrcUser

LEMMA HandleKeepsGood ==
  ASSUME NEW n, Good(n), NEW l \in LinesOf(n)
  PROVE  Good(Handle(n, l))
<1>1. ASSUME NEW u \in Nicks, NEW c \in Chans
      PROVE  Good(Join(n, u, c))
  BY JoinLineKeepsGood
<1>2. ASSUME NEW u \in Nicks, NEW c \in Chans
      PROVE  Good(Part(n, u, c))
  BY NewUserKeepsGood, PartKeepsGood DEF Part
<1>3. ASSUME NEW by \in Nicks, NEW u \in Nicks, NEW c \in Chans
      PROVE  Good(Kick(n, by, u, c))
  BY NewUserKeepsGood, PartKeepsGood DEF Kick
<1>4. ASSUME NEW u \in Nicks
      PROVE  Good(QuitLine(n, u))
  BY NewUserKeepsGood, QuitKeepsGood DEF QuitLine
<1>5. ASSUME NEW u \in Nicks, NEW w \in Nicks, u = w \/ n.on[w] = {}
      PROVE  Good(Nick(n, u, w))
  <2>1. Good(NewIrcUser(n, u)) /\ u \in NewIrcUser(n, u).users /\ NewIrcUser(n, u).on[w] = n.on[w]
    <3>1. Good(NewIrcUser(n, u))
      BY NewUserKeepsGood
    <3> QED BY <3>1 DEF Good, NetType, NewIrcUser
  <2> QED BY <1>5, <2>1, NickKeepsGood DEF Nick
<1>6. ASSUME NEW by \in Nicks
      PROVE  Good(Topic(n, by))
  BY NewUserKeepsGood DEF Topic
<1>7. ASSUME NEW u \in Nicks, NEW c \in Chans, NEW a \in BOOLEAN, NEW m \in Modes
      PROVE  Good(ModeLine(n, u, c, a, m))
  <2>1. {m} \in SUBSET Modes
    OBVIOUS
  <2> QED BY <2>1, ModesKeepGood DEF ModeLine
<1>8. ASSUME NEW c \in Chans, NEW us \in SUBSET Nicks, NEW m \in [Nicks -> SUBSET Modes]
      PROVE  Good(Names(n, c, us, m))
  BY NamesKeepGood
<1>9. ASSUME NEW u \in Nicks
      PROVE  Good(Welcome(n, u))
  BY WelcomeKeepsGood
<1>a. CASE l \in [cmd : {"JOIN", "PART"}, who : Nicks, chan : Chans]
  BY <1>1, <1>2, <1>a DEF Handle
<1>b. CASE l \in [cmd : {"KICK"}, by : Nicks, who : Nicks, chan : Chans]
  BY <1>3, <1>b DEF Handle
<1>c. CASE l \in [cmd : {"QUIT", "001"}, who : Nicks]
  BY <1>4, <1>9, <1>c DEF Handle
<1>d. CASE l \in {x \in [cmd : {"NICK"}, who : Nicks, new : Nicks] : x.who = x.new \/ n.on[x.new] = {}}
  BY <1>5, <1>d DEF Handle
<1>e. CASE l \in [cmd : {"TOPIC"}, by : Nicks]
  BY <1>6, <1>e DEF Handle
<1>f. CASE l \in [cmd : {"MODE"}, who : Nicks, chan : Chans, add : BOOLEAN, mode : Modes]
  BY <1>7, <1>f DEF Handle
<1>g. CASE l \in [cmd : {"353"}, chan : Chans, names : SUBSET Nicks, modes : [Nicks -> SUBSET Modes]]
  BY <1>8, <1>g DEF Handle
<1> QED BY <1>a, <1>b, <1>c, <1>d, <1>e, <1>f, <1>g DEF LinesOf

LEMMA EmptyIsGood == Good(Empty)
  BY DEF Good, NetType, Known, Agree, Empty

LEMMA GoodAlways == Spec => []Good(net)
<1>1. Init => Good(net)
  BY EmptyIsGood DEF Init
<1>2. Good(net) /\ [Next]_net => Good(net)'
  <2> SUFFICES ASSUME Good(net), [Next]_net PROVE Good(net')
    BY DEF Good, NetType, Known, Agree
  <2>1. CASE ReceiveLine
    BY <2>1, HandleKeepsGood DEF ReceiveLine
  <2>2. CASE SocketDisconnected
    BY <2>2, EmptyIsGood DEF SocketDisconnected, Disconnect
  <2>3. CASE UNCHANGED net
    BY <2>3
  <2> QED BY <2>1, <2>2, <2>3 DEF Next
<1> QED BY <1>1, <1>2, PTL DEF Spec

\* What a channel lists is known to the network: no line makes a roster name a user or a
\* channel the network does not keep.
THEOREM TypeCorrect == Spec => []TypeOK
<1>1. Good(net) => TypeOK
  BY DEF Good, Known, TypeOK
<1> QED BY <1>1, GoodAlways, PTL

\* The two sides of the membership, kept by code that calls itself back and forth
\* between IrcUser and IrcChannel, agree after every line.
THEOREM TwoWayHolds == Spec => []TwoWay
<1>1. Good(net) => TwoWay
  BY DEF Good, Agree, TwoWay
<1> QED BY <1>1, GoodAlways, PTL

-----------------------------------------------------------------------------
(* Leavers *)

\* Whom a change from n to k leaves without a channel, k does not know any more.
Forgets(n, k) ==
  \A u \in n.users \ {n.me, k.me} : n.on[u] # {} /\ k.on[u] = {} => u \notin k.users

LEMMA LeaveForgets ==
  ASSUME NEW n, Good(n), NEW u \in Nicks, NEW cs \in SUBSET Chans
  PROVE  /\ \A v \in n.users \ {u, n.me} : n.on[v] # {} /\ LeaveChannels(n, u, cs).on[v] = {}
                                         => v \notin LeaveChannels(n, u, cs).users
         /\ LeaveChannels(n, u, cs).me = n.me
  BY DEF Good, NetType, LeaveChannels, Strangers

LEMMA PartForgets ==
  ASSUME NEW n, Good(n), NEW u \in Nicks, NEW c \in Chans
  PROVE  Forgets(n, PartChannel(n, u, c))
<1> DEFINE k == LeaveChannels(n, u, {c})
<1>1. /\ \A v \in n.users \ {u, n.me} : n.on[v] # {} /\ k.on[v] = {} => v \notin k.users
      /\ k.me = n.me
  BY LeaveForgets
<1>2. Good(k)
  BY LeaveKeepsGood
<1> HIDE DEF k
<1>3. /\ RemoveIrcUser(k, u).on = k.on /\ RemoveIrcUser(k, u).me = k.me
      /\ RemoveIrcUser(k, u).users = k.users \ {u}
  BY <1>2 DEF Good, NetType, RemoveIrcUser
<1>4. PartChannel(n, u, c) = IF c \notin n.on[u] THEN n ELSE IF k.on[u] = {} /\ u # k.me THEN RemoveIrcUser(k, u) ELSE k
  BY DEF PartChannel, Forgotten, k
<1> QED BY <1>1, <1>3, <1>4 DEF Forgets

LEMMA QuitForgets ==
  ASSUME NEW n, Good(n), NEW u \in Nicks
  PROVE  Forgets(n, Quit(n, u))
<1> DEFINE k == LeaveChannels(n, u, n.on[u])
<1>0. n.on[u] \in SUBSET Chans
  BY DEF Good, NetType
<1>1. /\ \A v \in n.users \ {u, n.me} : n.on[v] # {} /\ k.on[v] = {} => v \notin k.users
      /\ k.me = n.me
  BY <1>0, LeaveForgets
<1>2. Good(k)
  BY <1>0, LeaveKeepsGood
<1> HIDE DEF k
<1>3. /\ RemoveIrcUser(k, u).on = k.on /\ RemoveIrcUser(k, u).me = k.me
      /\ RemoveIrcUser(k, u).users = k.users \ {u}
  BY <1>2 DEF Good, NetType, RemoveIrcUser
<1>4. Quit(n, u) = RemoveIrcUser(k, u)
  BY DEF Quit, k
<1> QED BY <1>1, <1>3, <1>4 DEF Forgets

LEMMA NickForgets ==
  ASSUME NEW n, Good(n), NEW u \in n.users, NEW w \in Nicks, u # w, n.on[w] = {}
  PROVE  Forgets(n, SetNick(n, u, w))
  BY DEF Good, NetType, Forgets, SetNick, Swap

\* Where nobody loses a channel there is nobody to forget.
LEMMA GrowthForgets ==
  ASSUME NEW n, NEW k, Good(n), \A u \in Nicks : n.on[u] \subseteq k.on[u]
  PROVE  Forgets(n, k)
  BY DEF Forgets, Good, NetType

LEMMA HandleForgets ==
  ASSUME NEW n, Good(n), NEW l \in LinesOf(n)
  PROVE  Forgets(n, Handle(n, l))
<1> DEFINE On(k) == \A u \in Nicks : n.on[u] \subseteq k.on[u]
<1>0. ASSUME NEW u \in Nicks
      PROVE  LET k == NewIrcUser(n, u)
             IN Good(k) /\ k.on = n.on /\ k.me = n.me /\ k.users = n.users \union {u}
  <2>1. Good(NewIrcUser(n, u))
    BY NewUserKeepsGood
  <2> QED BY <2>1 DEF Good, NetType, NewIrcUser
<1>00. ASSUME NEW u \in Nicks, NEW k, Forgets(NewIrcUser(n, u), k)
       PROVE  Forgets(n, k)
  BY <1>0, <1>00 DEF Forgets
<1>1. ASSUME NEW u \in Nicks, NEW c \in Chans
      PROVE  On(Join(n, u, c))
  BY DEF Good, NetType, Join, JoinChannel, JoinIrcUsers, NewIrcUser, NewIrcChannel
<1>2. ASSUME NEW u \in Nicks, NEW c \in Chans
      PROVE  Forgets(n, Part(n, u, c))
  BY <1>0, <1>00, PartForgets DEF Part
<1>3. ASSUME NEW by \in Nicks, NEW u \in Nicks, NEW c \in Chans
      PROVE  Forgets(n, Kick(n, by, u, c))
  <2>1. Forgets(NewIrcUser(n, by), NewIrcUser(n, by))
    BY <1>0 DEF Forgets
  <2> QED BY <1>0, <1>00, <2>1, PartForgets DEF Kick
<1>4. ASSUME NEW u \in Nicks
      PROVE  Forgets(n, QuitLine(n, u))
  BY <1>0, <1>00, QuitForgets DEF QuitLine
<1>5. ASSUME NEW u \in Nicks, NEW w \in Nicks, u = w \/ n.on[w] = {}
      PROVE  Forgets(n, Nick(n, u, w))
  <2>1. Forgets(NewIrcUser(n, u), NewIrcUser(n, u))
    BY <1>0 DEF Forgets
  <2> QED BY <1>0, <1>00, <1>5, <2>1, NickForgets DEF Nick
<1>6. ASSUME NEW by \in Nicks
      PROVE  On(Topic(n, by))
  BY <1>0 DEF Topic
<1>7. ASSUME NEW u \in Nicks, NEW c \in Chans, NEW a \in BOOLEAN, NEW m \in Modes
      PROVE  On(ModeLine(n, u, c, a, m))
  BY DEF Good, NetType, ModeLine, AddUserMode, RemoveUserMode
<1>8. ASSUME NEW c \in Chans, NEW us \in SUBSET Nicks, NEW m \in [Nicks -> SUBSET Modes]
      PROVE  On(Names(n, c, us, m))
  BY DEF Good, NetType, Names, JoinIrcUsers
<1>9. ASSUME NEW u \in Nicks
      PROVE  On(Welcome(n, u))
  BY DEF Good, NetType, Welcome, SetMyNick, NewIrcUser
<1>10. \A k : On(k) => Forgets(n, k)
  BY GrowthForgets
<1> HIDE DEF On
<1>a. CASE l \in [cmd : {"JOIN", "PART"}, who : Nicks, chan : Chans]
  BY <1>1, <1>2, <1>10, <1>a DEF Handle
<1>b. CASE l \in [cmd : {"KICK"}, by : Nicks, who : Nicks, chan : Chans]
  BY <1>3, <1>b DEF Handle
<1>c. CASE l \in [cmd : {"QUIT", "001"}, who : Nicks]
  BY <1>4, <1>9, <1>10, <1>c DEF Handle
<1>d. CASE l \in {x \in [cmd : {"NICK"}, who : Nicks, new : Nicks] : x.who = x.new \/ n.on[x.new] = {}}
  BY <1>5, <1>d DEF Handle
<1>e. CASE l \in [cmd : {"TOPIC"}, by : Nicks]
  BY <1>6, <1>10, <1>e DEF Handle
<1>f. CASE l \in [cmd : {"MODE"}, who : Nicks, chan : Chans, add : BOOLEAN, mode : Modes]
  BY <1>7, <1>10, <1>f DEF Handle
<1>g. CASE l \in [cmd : {"353"}, chan : Chans, names : SUBSET Nicks, modes : [Nicks -> SUBSET Modes]]
  BY <1>8, <1>10, <1>g DEF Handle
<1> QED BY <1>a, <1>b, <1>c, <1>d, <1>e, <1>f, <1>g DEF LinesOf

-----------------------------------------------------------------------------
(* The mirror *)

\* What the server knows is coherent.
ServerType ==
  [me : Nicks \union {Nobody}, online : SUBSET Nicks,
   members : [Chans -> SUBSET Nicks], ops : [Chans -> SUBSET Nicks]]
Sound(s) ==
  /\ s \in ServerType
  /\ s.me \in s.online \union {Nobody}
  /\ \A c \in Chans : s.members[c] \subseteq s.online
  /\ \A c \in Chans : s.ops[c] \subseteq s.members[c]

\* The core's picture n is the server's truth s, as far as the core can see it.
OneMode == \E m : Modes = {m}
Mirrors(n, s) ==
  /\ n.me = s.me
  /\ n.chans = {c \in Chans : s.me \in s.members[c]}
  /\ \A c \in Chans : n.roster[c] = IF s.me \in s.members[c] THEN s.members[c] ELSE {}
  /\ OneMode => \A c \in Chans, v \in Nicks :
                  n.modes[c][v] = IF s.me \in s.members[c] /\ v \in s.ops[c] THEN Modes ELSE {}

\* The lines a step of the server puts on the wire make of a picture of the old truth
\* a picture of the new one.
AnyLine == UNION {LinesOf(n) : n \in NetType}
Tells(n) ==
  \/ wire' = wire /\ Mirrors(n, server')
  \/ \E l \in LinesOf(n) : wire' = Append(wire, l) /\ Mirrors(Handle(n, l), server')
  \/ \E l \in LinesOf(n) : \E k \in LinesOf(Handle(n, l)) :
       /\ wire' = Append(Append(wire, l), k)
       /\ Mirrors(Handle(Handle(n, l), k), server')

\* The server's picture stays coherent.
LEMMA SoundKept ==
  ASSUME Sound(server), NEW u \in Nicks, NEW w \in Nicks, NEW c \in Chans,
         \/ SignOn(u) \/ CoreSignsOn(u) \/ UserJoins(u, c) \/ NamesAsked(c) \/ UserParts(u, c)
         \/ UserKicked(w, u, c) \/ UserQuits(u) \/ UserRenames(u, w) \/ TopicSet(u, c)
         \/ OpChanged(u, c, TRUE) \/ OpChanged(u, c, FALSE)
  PROVE  Sound(server')
<1>1. CASE SignOn(u) \/ CoreSignsOn(u)
  <2>1. CASE SignOn(u)
    <3>1. server' = [server EXCEPT !.online = @ \union {u}]
      BY <2>1 DEF SignOn, Do
    <3> QED BY <3>1 DEF Sound, ServerType
  <2>2. CASE CoreSignsOn(u)
    <3>1. server' = [server EXCEPT !.online = @ \union {u}, !.me = u]
      BY <2>2 DEF CoreSignsOn, Do
    <3> QED BY <3>1 DEF Sound, ServerType
  <2> QED BY <1>1, <2>1, <2>2
<1>2. CASE UserJoins(u, c)
  <2> DEFINE M == [server.members EXCEPT ![c] = @ \union {u}]
             O == [server.ops EXCEPT ![c] = IF server.members[c] = {} THEN {u} ELSE @]
  <2>1. server' = [server EXCEPT !.members = M, !.ops = O] /\ u \in server.online
    BY <1>2 DEF UserJoins, Do, Sound, ServerType
  <2>2. M \in [Chans -> SUBSET Nicks] /\ O \in [Chans -> SUBSET Nicks]
    BY DEF Sound, ServerType
  <2>3. \A d \in Chans : M[d] \subseteq server.online /\ O[d] \subseteq M[d]
    BY <2>1 DEF Sound, ServerType
  <2> HIDE DEF M, O
  <2> QED BY <2>1, <2>2, <2>3 DEF Sound, ServerType
<1>3. CASE NamesAsked(c) \/ TopicSet(u, c)
  BY <1>3 DEF NamesAsked, TopicSet, Do
<1>0. ASSUME NEW cs \in SUBSET Chans
      PROVE  LET s == Without(u, cs)
             IN /\ Sound(s) /\ s.me = server.me /\ s.online = server.online
                /\ \A d \in cs : u \notin s.members[d]
  <2> DEFINE M == [d \in Chans |-> IF d \in cs THEN server.members[d] \ {u} ELSE server.members[d]]
             O == [d \in Chans |-> IF d \in cs THEN server.ops[d] \ {u} ELSE server.ops[d]]
  <2>1. Without(u, cs) = [server EXCEPT !.members = M, !.ops = O]
    BY DEF Without, Sound, ServerType
  <2>2. M \in [Chans -> SUBSET Nicks] /\ O \in [Chans -> SUBSET Nicks]
    BY DEF Sound, ServerType
  <2>3. \A d \in Chans : M[d] \subseteq server.online /\ O[d] \subseteq M[d] /\ (d \in cs => u \notin M[d])
    BY DEF Sound, ServerType
  <2> HIDE DEF M, O
  <2> QED BY <2>1, <2>2, <2>3 DEF Sound, ServerType
<1>4. CASE UserParts(u, c) \/ UserKicked(w, u, c)
  BY <1>0, <1>4 DEF UserParts, UserKicked, Do
<1>5. CASE UserQuits(u)
  <2>1. server' = [Without(u, Chans) EXCEPT !.online = @ \ {u}] /\ u # server.me
    BY <1>5 DEF UserQuits, Do
  <2>2. Chans \in SUBSET Chans
    OBVIOUS
  <2> QED BY <1>0, <2>1, <2>2 DEF Sound, ServerType
<1>6. CASE UserRenames(u, w)
  <2>1. server' = [me |-> IF u = server.me THEN w ELSE server.me,
                   online |-> Swap(server.online, u, w),
                   members |-> [d \in Chans |-> Swap(server.members[d], u, w)],
                   ops |-> [d \in Chans |-> Swap(server.ops[d], u, w)]]
    BY <1>6 DEF UserRenames, Do
  <2>2. \A S \in SUBSET Nicks : Swap(S, u, w) \in SUBSET Nicks
    BY DEF Swap
  <2>3. server' \in ServerType
    BY <2>1, <2>2 DEF Sound, ServerType
  <2>4. u \in server.online
    BY <1>6 DEF UserRenames
  <2>5. \A S, T \in SUBSET Nicks : S \subseteq T => Swap(S, u, w) \subseteq Swap(T, u, w)
    BY DEF Swap
  <2>6. server'.me \in server'.online \union {Nobody}
    BY <2>1, <2>4 DEF Sound, ServerType, Swap
  <2> QED BY <2>1, <2>3, <2>5, <2>6 DEF Sound, ServerType
<1>7. CASE OpChanged(u, c, TRUE) \/ OpChanged(u, c, FALSE)
  <2>1. /\ u \in server.members[c]
        /\ \/ server' = [server EXCEPT !.ops[c] = @ \union {u}]
           \/ server' = [server EXCEPT !.ops[c] = @ \ {u}]
    BY <1>7 DEF OpChanged, Do
  <2> QED BY <2>1 DEF Sound, ServerType
<1> QED BY <1>1, <1>2, <1>3, <1>4, <1>5, <1>6, <1>7

\* What the core knows of somebody, in terms of what the server knows.
LEMMA Seen ==
  ASSUME NEW n, Good(n), NEW s, Sound(s), Mirrors(n, s)
  PROVE  /\ \A c \in Chans, v \in Nicks : c \in n.on[v] <=> {s.me, v} \subseteq s.members[c]
         /\ \A c \in Chans, v \in Nicks : {s.me, v} \subseteq s.members[c] => v \in n.users
         /\ \A c \in Chans, v \in Nicks : v \notin n.roster[c] => n.modes[c][v] = {}
         /\ \A c \in Chans : s.me \in s.members[c] => s.me \in Nicks
  BY DEF Good, Known, Agree, Mirrors, Sound, ServerType

\* A new user on no channel is not part of the picture.
LEMMA NewUserMirrors ==
  ASSUME NEW n, Good(n), NEW s, Mirrors(n, s), NEW u \in Nicks
  PROVE  /\ Good(NewIrcUser(n, u)) /\ Mirrors(NewIrcUser(n, u), s)
         /\ u \in NewIrcUser(n, u).users /\ NewIrcUser(n, u).on = n.on
<1>1. Good(NewIrcUser(n, u))
  BY NewUserKeepsGood
<1> QED BY <1>1 DEF Good, NetType, NewIrcUser, Mirrors

LEMMA SignOnTold ==
  ASSUME NEW n, Good(n), Sound(server), Mirrors(n, server), NEW u \in Nicks,
         wire \in Seq(AnyLine), SignOn(u) \/ CoreSignsOn(u)
  PROVE  Tells(n)
<1>1. CASE SignOn(u)
  BY <1>1 DEF SignOn, Do, Sound, ServerType, Mirrors, Tells
<1>2. CASE CoreSignsOn(u)
  <2> DEFINE l == [cmd |-> "001", who |-> u]
  <2>1. wire' = Append(wire, l) /\ server' = [server EXCEPT !.online = @ \union {u}, !.me = u]
    BY <1>2 DEF CoreSignsOn, Do
  <2>2. l \in LinesOf(n) /\ Handle(n, l) = Welcome(n, u)
    BY DEF LinesOf, Handle
  <2>3. \A c \in Chans : server.me \notin server.members[c] /\ u \notin server.members[c]
    BY <1>2, IrcStateAssumption DEF CoreSignsOn, Sound, ServerType
  <2>4. Mirrors(Welcome(n, u), server')
    BY <2>1, <2>3 DEF Welcome, SetMyNick, NewIrcUser, Mirrors, Good, NetType, Sound, ServerType
  <2> QED BY <2>1, <2>2, <2>4 DEF Tells
<1> QED BY <1>1, <1>2

\* The names of a channel the core is on.
LEMMA NamesMirrors ==
  ASSUME NEW n, Good(n), NEW s, Sound(s), NEW c \in Chans, n.me = s.me,
         n.chans = {d \in Chans : s.me \in s.members[d]},
         \A d \in Chans \ {c} : n.roster[d] = IF s.me \in s.members[d] THEN s.members[d] ELSE {},
         n.roster[c] \subseteq s.members[c],
         OneMode => \A d \in Chans \ {c}, v \in Nicks :
                      n.modes[d][v] = IF s.me \in s.members[d] /\ v \in s.ops[d] THEN Modes ELSE {},
         OneMode => \A v \in Nicks \ s.ops[c] : n.modes[c][v] = {}
  PROVE  NamesOf(s, c) \in LinesOf(n) /\ Mirrors(Handle(n, NamesOf(s, c)), s)
<1> DEFINE m == [v \in Nicks |-> IF v \in s.ops[c] THEN Modes ELSE {}]
           k == Names(n, c, s.members[c], m)
<1>1. NamesOf(s, c) = [cmd |-> "353", chan |-> c, names |-> s.members[c], modes |-> m]
  BY DEF NamesOf
<1>2. s.members[c] \in SUBSET Nicks /\ m \in [Nicks -> SUBSET Modes]
  BY DEF Sound, ServerType
<1>3. NamesOf(s, c) \in LinesOf(n) /\ Handle(n, NamesOf(s, c)) = k
  <2> HIDE DEF m
  <2> QED BY <1>1, <1>2 DEF LinesOf, Handle
<1>4. CASE c \in n.chans
  <2>1. /\ k.me = n.me /\ k.chans = n.chans
        /\ k.roster[c] = n.roster[c] \union s.members[c]
        /\ \A d \in Chans \ {c} : k.roster[d] = n.roster[d]
        /\ \A d \in Chans \ {c} : k.modes[d] = n.modes[d]
        /\ \A v \in Nicks : k.modes[c][v] = IF v \in s.members[c] THEN n.modes[c][v] \union m[v] ELSE n.modes[c][v]
    BY <1>4 DEF Names, JoinIrcUsers, Good, NetType
  <2>2. \A v \in Nicks : m[v] = IF v \in s.ops[c] THEN Modes ELSE {}
    OBVIOUS
  <2> HIDE DEF k, m
  <2>0. s.me \in s.members[c]
    BY <1>4
  <2>3. \A d \in Chans : k.roster[d] = IF s.me \in s.members[d] THEN s.members[d] ELSE {}
    <3>1. k.roster[c] = s.members[c]
      BY <2>1
    <3> QED BY <2>0, <2>1, <3>1
  <2>4. ASSUME OneMode, NEW d \in Chans, NEW v \in Nicks
        PROVE  k.modes[d][v] = IF s.me \in s.members[d] /\ v \in s.ops[d] THEN Modes ELSE {}
    <3>1. s.ops[c] \subseteq s.members[c]
      BY DEF Sound
    <3>2. CASE d = c
      <4>1. v \notin s.ops[c] => n.modes[c][v] = {}
        BY <2>4
      <4>2. n.modes[c][v] \subseteq Modes
        BY DEF Good, NetType
      <4>3. CASE v \in s.ops[c]
        BY <2>0, <2>1, <2>2, <3>1, <3>2, <4>2, <4>3
      <4>4. CASE v \notin s.ops[c]
        BY <2>1, <2>2, <3>2, <4>1, <4>4
      <4> QED BY <4>3, <4>4
    <3>3. CASE d # c
      BY <2>1, <2>4, <3>3
    <3> QED BY <3>2, <3>3
  <2>5. Mirrors(k, s)
    BY <2>1, <2>3, <2>4 DEF Mirrors
  <2> QED BY <1>3, <2>5
<1>5. CASE c \notin n.chans
  <2>1. k = n
    BY <1>5 DEF Names
  <2>2. s.me \notin s.members[c] /\ n.roster[c] = {}
    BY <1>5 DEF Good, Known
  <2>3. \A v \in Nicks : n.modes[c][v] = {}
    BY <2>2 DEF Good, Agree
  <2>4. \A d \in Chans : n.roster[d] = IF s.me \in s.members[d] THEN s.members[d] ELSE {}
    BY <2>2
  <2>5. ASSUME OneMode, NEW d \in Chans, NEW v \in Nicks
        PROVE  n.modes[d][v] = IF s.me \in s.members[d] /\ v \in s.ops[d] THEN Modes ELSE {}
    <3>1. CASE d = c
      BY <2>2, <2>3, <3>1
    <3>2. CASE d # c
      BY <2>5, <3>2
    <3> QED BY <3>1, <3>2
  <2>6. Mirrors(n, s)
    BY <2>4, <2>5 DEF Mirrors
  <2> QED BY <1>3, <2>1, <2>6
<1> QED BY <1>4, <1>5

LEMMA NamesTold ==
  ASSUME NEW n, Good(n), Sound(server), Mirrors(n, server), NEW c \in Chans,
         wire \in Seq(AnyLine), NamesAsked(c)
  PROVE  Tells(n)
<1>1. wire' = Append(wire, NamesOf(server, c)) /\ server' = server
  BY DEF NamesAsked, Do
<1>2. NamesOf(server, c) \in LinesOf(n) /\ Mirrors(Handle(n, NamesOf(server, c)), server)
  BY NamesMirrors DEF Mirrors
<1> QED BY <1>1, <1>2 DEF Tells

LEMMA JoinTold ==
  ASSUME NEW n, Good(n), Sound(server), Mirrors(n, server), NEW u \in Nicks, NEW c \in Chans,
         wire \in Seq(AnyLine), UserJoins(u, c)
  PROVE  Tells(n)
<1> DEFINE l == [cmd |-> "JOIN", who |-> u, chan |-> c]
           i == NewIrcUser(n, u)
           k == Handle(n, l)
<1>1. /\ server'.me = server.me
      /\ server'.members[c] = server.members[c] \union {u}
      /\ server'.ops[c] = IF server.members[c] = {} THEN {u} ELSE server.ops[c]
      /\ \A d \in Chans \ {c} : server'.members[d] = server.members[d] /\ server'.ops[d] = server.ops[d]
      /\ u \notin server.members[c]
  BY DEF UserJoins, Do, Sound, ServerType
<1>2. wire' = IF u = server.me \/ Visible(c)
              THEN wire \o (<<l>> \o (IF u = server.me THEN <<NamesOf(server', c)>> ELSE << >>)) ELSE wire
  <2> DEFINE s == [server EXCEPT !.members[c] = @ \union {u},
                                 !.ops[c] = IF server.members[c] = {} THEN {u} ELSE @]
  <2>1. Do(s, u = server.me \/ Visible(c), <<l>> \o (IF u = server.me THEN <<NamesOf(s, c)>> ELSE << >>))
    BY DEF UserJoins
  <2> HIDE DEF s, l
  <2> QED BY <2>1 DEF Do
<1>3. l \in LinesOf(n) /\ k = JoinChannel(i, u, c)
  BY DEF LinesOf, Handle, Join
<1>4. Good(i) /\ Mirrors(i, server) /\ i.on = n.on
  BY NewUserMirrors
<1>5. Good(k)
  BY <1>3, HandleKeepsGood
<1>6. c \notin i.on[u]
  BY <1>1, <1>4, Seen
<1>7. /\ k.me = i.me /\ k.chans = i.chans \union {c}
      /\ k.roster[c] = i.roster[c] \union {u}
      /\ \A d \in Chans \ {c} : k.roster[d] = i.roster[d]
      /\ \A d \in Chans, v \in Nicks : k.modes[d][v] = i.modes[d][v]
  <2> DEFINE j == NewIrcChannel(i, c)
             m == [v \in Nicks |-> {}]
  <2>1. k = JoinIrcUsers(j, c, {u}, m)
    BY <1>3, <1>6 DEF JoinChannel
  <2>2. Good(j) /\ j.me = i.me /\ j.chans = i.chans \union {c} /\ j.roster = i.roster /\ j.modes = i.modes
    <3>1. Good(j)
      BY <1>4, NewChannelKeepsGood
    <3> QED BY <1>4, <3>1 DEF NewIrcChannel, Good, NetType
  <2> HIDE DEF j, k, i
  <2>3. /\ k.me = j.me /\ k.chans = j.chans
        /\ k.roster[c] = j.roster[c] \union {u}
        /\ \A d \in Chans \ {c} : k.roster[d] = j.roster[d]
    BY <2>1, <2>2 DEF JoinIrcUsers, Good, NetType
  <2>4. \A d \in Chans, v \in Nicks : k.modes[d][v] = j.modes[d][v]
    BY <2>1, <2>2 DEF JoinIrcUsers, Good, NetType
  <2> QED BY <2>2, <2>3, <2>4
<1> HIDE DEF i, k
<1>8. CASE u = server.me
  <2>1. wire' = Append(Append(wire, l), NamesOf(server', c))
    <3>1. wire' = wire \o <<l, NamesOf(server', c)>>
      BY <1>2, <1>8
    <3> QED BY <3>1
  <2>2. /\ server'.me \in server'.members[c]
        /\ server.me \notin server.members[c]
    BY <1>1, <1>8
  <2>3. k.chans = {d \in Chans : server'.me \in server'.members[d]}
    BY <1>1, <1>4, <1>7, <2>2 DEF Mirrors
  <2>4. \A d \in Chans \ {c} : k.roster[d] = IF server'.me \in server'.members[d] THEN server'.members[d] ELSE {}
    BY <1>1, <1>4, <1>7 DEF Mirrors
  <2>5. k.roster[c] \subseteq server'.members[c]
    BY <1>1, <1>4, <1>7 DEF Mirrors
  <2>6. OneMode => \A d \in Chans \ {c}, v \in Nicks :
                     k.modes[d][v] = IF server'.me \in server'.members[d] /\ v \in server'.ops[d] THEN Modes ELSE {}
    BY <1>1, <1>4, <1>7 DEF Mirrors
  <2>7. OneMode => \A v \in Nicks \ server'.ops[c] : k.modes[c][v] = {}
    BY <1>4, <1>7, <2>2 DEF Mirrors
  <2>8. Sound(server') /\ k.me = server'.me
    BY <1>1, <1>4, <1>7, SoundKept DEF Mirrors
  <2>9. NamesOf(server', c) \in LinesOf(k) /\ Mirrors(Handle(k, NamesOf(server', c)), server')
    BY <1>5, <2>3, <2>4, <2>5, <2>6, <2>7, <2>8, NamesMirrors
  <2> QED BY <1>3, <2>1, <2>9 DEF Tells, k
<1>9. CASE u # server.me /\ Visible(c)
  <2>1. wire' = Append(wire, l)
    BY <1>2, <1>9
  <2>2. server.me \in server.members[c]
    BY <1>9 DEF Visible
  <2>3. k.chans = {d \in Chans : server'.me \in server'.members[d]}
    BY <1>1, <1>4, <1>7, <2>2 DEF Mirrors
  <2>4. \A d \in Chans : k.roster[d] = IF server'.me \in server'.members[d] THEN server'.members[d] ELSE {}
    <3>1. k.roster[c] = server'.members[c] /\ server'.me \in server'.members[c]
      BY <1>1, <1>4, <1>7, <2>2 DEF Mirrors
    <3>2. \A d \in Chans \ {c} : k.roster[d] = IF server'.me \in server'.members[d] THEN server'.members[d] ELSE {}
      BY <1>1, <1>4, <1>7 DEF Mirrors
    <3> QED BY <3>1, <3>2
  <2>5. OneMode => \A d \in Chans, v \in Nicks :
                     k.modes[d][v] = IF server'.me \in server'.members[d] /\ v \in server'.ops[d] THEN Modes ELSE {}
    BY <1>1, <1>4, <1>7, <2>2 DEF Mirrors
  <2>6. Mirrors(k, server')
    BY <1>1, <1>4, <1>7, <2>3, <2>4, <2>5 DEF Mirrors
  <2> QED BY <1>3, <2>1, <2>6 DEF Tells, k
<1>10. CASE u # server.me /\ ~Visible(c)
  <2>1. wire' = wire /\ server.me \notin server.members[c] /\ server'.me \notin server'.members[c]
    BY <1>1, <1>2, <1>10 DEF Visible
  <2>2. Mirrors(n, server')
    BY <1>1, <2>1 DEF Mirrors
  <2> QED BY <2>1, <2>2 DEF Tells
<1> QED BY <1>8, <1>9, <1>10

\* A user leaves some channels, and the core the ones of them it can see.
Goes(s, t, u, cs, ds) ==
  /\ cs \in SUBSET Chans /\ ds \in SUBSET cs
  /\ \A c \in cs : c \in ds <=> {s.me, u} \subseteq s.members[c]
  /\ t.me = s.me
  /\ \A c \in Chans : /\ t.members[c] = IF c \in cs THEN s.members[c] \ {u} ELSE s.members[c]
                      /\ t.ops[c] = IF c \in cs THEN s.ops[c] \ {u} ELSE s.ops[c]

LEMMA LeaveMirrors ==
  ASSUME NEW n, Good(n), NEW s, Sound(s), Mirrors(n, s), NEW u \in Nicks,
         NEW t, NEW cs, NEW ds, Goes(s, t, u, cs, ds)
  PROVE  Mirrors(LeaveChannels(n, u, ds), t)
<1> USE DEF Goes
<1> DEFINE k == LeaveChannels(n, u, ds)
           gone == GivenUp(n, u, ds)
<1>1. gone = IF u = s.me THEN ds ELSE {}
  BY DEF GivenUp, Mirrors
<1> HIDE DEF gone
<1>2. /\ k.me = n.me /\ k.chans = n.chans \ gone
      /\ \A c \in Chans : k.roster[c] = IF c \in gone THEN {} ELSE IF c \in ds THEN n.roster[c] \ {u} ELSE n.roster[c]
      /\ \A c \in Chans, v \in Nicks :
           k.modes[c][v] = IF c \in gone \/ (c \in ds /\ v = u) THEN {} ELSE n.modes[c][v]
  BY DEF Good, NetType, LeaveChannels, gone
<1> HIDE DEF k
<1>3. \A c \in Chans : t.me \in t.members[c] <=> s.me \in s.members[c] /\ c \notin gone
  <2> SUFFICES ASSUME NEW c \in Chans
               PROVE  t.me \in t.members[c] <=> s.me \in s.members[c] /\ c \notin gone
    OBVIOUS
  <2>1. /\ t.me = s.me /\ (c \in cs /\ s.me \in s.members[c] /\ u = s.me => c \in ds)
        /\ t.members[c] = IF c \in cs THEN s.members[c] \ {u} ELSE s.members[c]
    OBVIOUS
  <2>2. c \in gone <=> u = s.me /\ c \in ds
    BY <1>1
  <2> QED BY <2>1, <2>2
<1>4. k.chans = {c \in Chans : t.me \in t.members[c]}
  BY <1>2, <1>3 DEF Mirrors
<1>5. ASSUME NEW c \in Chans
      PROVE  k.roster[c] = IF t.me \in t.members[c] THEN t.members[c] ELSE {}
  <2>0. /\ t.me \in t.members[c] <=> s.me \in s.members[c] /\ c \notin gone
        /\ k.roster[c] = IF c \in gone THEN {} ELSE IF c \in ds THEN n.roster[c] \ {u} ELSE n.roster[c]
        /\ t.members[c] = IF c \in cs THEN s.members[c] \ {u} ELSE s.members[c]
        /\ n.roster[c] = IF s.me \in s.members[c] THEN s.members[c] ELSE {}
        /\ c \in cs => (c \in ds <=> {s.me, u} \subseteq s.members[c])
    <3>1. t.me \in t.members[c] <=> s.me \in s.members[c] /\ c \notin gone
      BY <1>3
    <3>2. k.roster[c] = IF c \in gone THEN {} ELSE IF c \in ds THEN n.roster[c] \ {u} ELSE n.roster[c]
      BY <1>2
    <3>3. n.roster[c] = IF s.me \in s.members[c] THEN s.members[c] ELSE {}
      BY DEF Mirrors
    <3>4. /\ t.members[c] = IF c \in cs THEN s.members[c] \ {u} ELSE s.members[c]
          /\ c \in cs => (c \in ds <=> {s.me, u} \subseteq s.members[c])
      OBVIOUS
    <3> QED BY <3>1, <3>2, <3>3, <3>4
  <2>1. CASE c \in gone
    BY <2>0, <2>1
  <2>2. CASE c \notin gone /\ s.me \in s.members[c]
    <3>1. CASE c \in ds
      BY <2>0, <2>2, <3>1
    <3>2. CASE c \notin ds
      <4>1. c \in cs => s.members[c] \ {u} = s.members[c]
        BY <2>0, <2>2, <3>2
      <4> QED BY <2>0, <2>2, <3>2, <4>1
    <3> QED BY <3>1, <3>2
  <2>3. CASE s.me \notin s.members[c]
    <3>1. c \notin ds
      BY <2>3
    <3> QED BY <2>0, <2>3, <3>1
  <2> QED BY <2>1, <2>2, <2>3
<1>6. ASSUME OneMode, NEW c \in Chans, NEW v \in Nicks
      PROVE  k.modes[c][v] = IF t.me \in t.members[c] /\ v \in t.ops[c] THEN Modes ELSE {}
  <2>0. /\ t.me \in t.members[c] <=> s.me \in s.members[c] /\ c \notin gone
        /\ k.modes[c][v] = IF c \in gone \/ (c \in ds /\ v = u) THEN {} ELSE n.modes[c][v]
        /\ t.ops[c] = IF c \in cs THEN s.ops[c] \ {u} ELSE s.ops[c]
        /\ c \in cs => (c \in ds <=> {s.me, u} \subseteq s.members[c])
        /\ s.ops[c] \subseteq s.members[c]
    <3>1. t.me \in t.members[c] <=> s.me \in s.members[c] /\ c \notin gone
      BY <1>3
    <3>2. k.modes[c][v] = IF c \in gone \/ (c \in ds /\ v = u) THEN {} ELSE n.modes[c][v]
      BY <1>2
    <3>3. s.ops[c] \subseteq s.members[c]
      BY DEF Sound
    <3>4. /\ t.ops[c] = IF c \in cs THEN s.ops[c] \ {u} ELSE s.ops[c]
          /\ c \in cs => (c \in ds <=> {s.me, u} \subseteq s.members[c])
      OBVIOUS
    <3> QED BY <3>1, <3>2, <3>3, <3>4
  <2>00. n.modes[c][v] = IF s.me \in s.members[c] /\ v \in s.ops[c] THEN Modes ELSE {}
    BY <1>6 DEF Mirrors
  <2>1. CASE c \in gone
    BY <2>0, <2>1
  <2>2. CASE c \notin gone /\ s.me \in s.members[c]
    <3>1. v \in t.ops[c] <=> v \in s.ops[c] /\ ~(c \in ds /\ v = u)
      BY <2>0, <2>2
    <3> QED BY <2>0, <2>00, <2>2, <3>1
  <2>3. CASE s.me \notin s.members[c]
    BY <2>0, <2>00, <2>3
  <2> QED BY <2>1, <2>2, <2>3
<1>7. k.me = t.me
  BY <1>2 DEF Mirrors
<1> QED BY <1>4, <1>5, <1>6, <1>7 DEF Mirrors, k

\* The line of somebody who leaves one channel.
LEMMA GoTold ==
  ASSUME NEW n, Good(n), Sound(server), Mirrors(n, server), NEW by \in Nicks, NEW u \in Nicks,
         NEW c \in Chans, NEW l \in LinesOf(n), wire \in Seq(AnyLine),
         u \in server.members[c], Do(Without(u, {c}), Visible(c), <<l>>),
         Handle(n, l) \in {Part(n, u, c), Kick(n, by, u, c)}
  PROVE  Tells(n)
<1>1. /\ server'.me = server.me
      /\ \A d \in Chans :
           /\ server'.members[d] = IF d \in {c} THEN server.members[d] \ {u} ELSE server.members[d]
           /\ server'.ops[d] = IF d \in {c} THEN server.ops[d] \ {u} ELSE server.ops[d]
  BY DEF Do, Without, Sound, ServerType
<1>2. CASE Visible(c)
  <2>1. wire' = Append(wire, l) /\ server.me \in server.members[c]
    BY <1>2 DEF Do, Visible
  <2>2. ASSUME NEW i, Good(i), Mirrors(i, server)
        PROVE  /\ Mirrors(PartChannel(i, u, c), server')
               /\ u \in i.users
    <3>1. c \in i.on[u] /\ u \in i.users
      BY <2>1, <2>2, Seen
    <3>2. \A d \in {c} : d \in {c} <=> {server.me, u} \subseteq server.members[d]
      BY <2>1
    <3>3. {c} \in SUBSET Chans /\ {c} \in SUBSET {c}
      OBVIOUS
    <3>4. Mirrors(LeaveChannels(i, u, {c}), server')
      <4>1. Goes(server, server', u, {c}, {c})
        BY <1>1, <3>2, <3>3 DEF Goes
      <4> QED BY <2>2, <4>1, LeaveMirrors
    <3>5. Good(LeaveChannels(i, u, {c}))
      BY <2>2, LeaveKeepsGood
    <3>6. \A k : Good(k) /\ Mirrors(k, server') => Mirrors(RemoveIrcUser(k, u), server')
      BY DEF Good, NetType, RemoveIrcUser, Mirrors
    <3> QED BY <3>1, <3>4, <3>5, <3>6 DEF PartChannel
  <2>3. \A v \in Nicks : Good(NewIrcUser(n, v)) /\ Mirrors(NewIrcUser(n, v), server)
    BY NewUserMirrors
  <2>4. Mirrors(Handle(n, l), server')
    BY <2>2, <2>3 DEF Part, Kick
  <2> QED BY <2>1, <2>4 DEF Tells
<1>3. CASE ~Visible(c)
  <2>1. wire' = wire /\ server.me \notin server.members[c]
    BY <1>3 DEF Do, Visible
  <2>2. /\ server'.me \notin server'.members[c]
        /\ \A d \in Chans \ {c} : server'.members[d] = server.members[d] /\ server'.ops[d] = server.ops[d]
    BY <1>1, <2>1
  <2>3. Mirrors(n, server')
    BY <1>1, <2>1, <2>2 DEF Mirrors
  <2> QED BY <2>1, <2>3 DEF Tells
<1> QED BY <1>2, <1>3

LEMMA PartTold ==
  ASSUME NEW n, Good(n), Sound(server), Mirrors(n, server), NEW w \in Nicks, NEW u \in Nicks,
         NEW c \in Chans, wire \in Seq(AnyLine), UserParts(u, c) \/ UserKicked(w, u, c)
  PROVE  Tells(n)
<1>1. CASE UserParts(u, c)
  <2> DEFINE l == [cmd |-> "PART", who |-> u, chan |-> c]
  <2>1. u \in server.members[c] /\ Do(Without(u, {c}), Visible(c), <<l>>)
    BY <1>1 DEF UserParts
  <2>2. l \in LinesOf(n) /\ Handle(n, l) = Part(n, u, c)
    BY DEF LinesOf, Handle
  <2> HIDE DEF l
  <2> QED BY <2>1, <2>2, GoTold
<1>2. CASE UserKicked(w, u, c)
  <2> DEFINE l == [cmd |-> "KICK", by |-> w, who |-> u, chan |-> c]
  <2>1. u \in server.members[c] /\ Do(Without(u, {c}), Visible(c), <<l>>)
    BY <1>2 DEF UserKicked
  <2>2. l \in LinesOf(n) /\ Handle(n, l) = Kick(n, w, u, c)
    BY DEF LinesOf, Handle
  <2> HIDE DEF l
  <2> QED BY <2>1, <2>2, GoTold
<1> QED BY <1>1, <1>2

LEMMA QuitTold ==
  ASSUME NEW n, Good(n), Sound(server), Mirrors(n, server), NEW u \in Nicks,
         wire \in Seq(AnyLine), UserQuits(u)
  PROVE  Tells(n)
<1> DEFINE l == [cmd |-> "QUIT", who |-> u]
           i == NewIrcUser(n, u)
<1>1. /\ server'.me = server.me
      /\ \A d \in Chans :
           /\ server'.members[d] = IF d \in Chans THEN server.members[d] \ {u} ELSE server.members[d]
           /\ server'.ops[d] = IF d \in Chans THEN server.ops[d] \ {u} ELSE server.ops[d]
  BY DEF UserQuits, Do, Without, Sound, ServerType
<1>2. CASE SharesChannel(u)
  <2>1. wire' = Append(wire, l)
    BY <1>2 DEF UserQuits, Do
  <2>2. l \in LinesOf(n) /\ Handle(n, l) = Quit(i, u)
    BY DEF LinesOf, Handle, QuitLine
  <2>3. Good(i) /\ Mirrors(i, server)
    BY NewUserMirrors
  <2> HIDE DEF i
  <2>4. Goes(server, server', u, Chans, i.on[u])
    <3>1. \A c \in Chans : c \in i.on[u] <=> {server.me, u} \subseteq server.members[c]
      BY <2>3, Seen
    <3>2. i.on[u] \in SUBSET Chans
      BY <2>3 DEF Good, NetType
    <3> QED BY <1>1, <3>1, <3>2 DEF Goes
  <2>5. Mirrors(LeaveChannels(i, u, i.on[u]), server')
    BY <2>3, <2>4, LeaveMirrors
  <2>6. i.on[u] \in SUBSET Chans
    BY <2>3 DEF Good, NetType
  <2>7. Good(LeaveChannels(i, u, i.on[u]))
    BY <2>3, <2>6, LeaveKeepsGood
  <2>8. Mirrors(Quit(i, u), server')
    BY <2>5, <2>7 DEF Quit, Good, NetType, RemoveIrcUser, Mirrors
  <2> QED BY <2>1, <2>2, <2>8 DEF Tells
<1>3. CASE ~SharesChannel(u)
  <2>1. wire' = wire /\ \A c \in Chans : server.me \in server.members[c] => u \notin server.members[c]
    BY <1>3 DEF UserQuits, Do, SharesChannel
  <2>2. \A c \in Chans : server'.me \in server'.members[c] <=> server.me \in server.members[c]
    BY <1>1, <1>3 DEF SharesChannel
  <2>3. \A c \in Chans : server.me \in server.members[c]
          => server'.members[c] = server.members[c] /\ server'.ops[c] = server.ops[c]
    BY <1>1, <2>1 DEF Sound
  <2>4. Mirrors(n, server')
    BY <1>1, <2>2, <2>3 DEF Mirrors
  <2> QED BY <2>1, <2>4 DEF Tells
<1> QED BY <1>2, <1>3

LEMMA RenameTold ==
  ASSUME NEW n, Good(n), Sound(server), Mirrors(n, server), NEW u \in Nicks, NEW w \in Nicks,
         wire \in Seq(AnyLine), UserRenames(u, w)
  PROVE  Tells(n)
<1> DEFINE l == [cmd |-> "NICK", who |-> u, new |-> w]
           i == NewIrcUser(n, u)
           k == SetNick(i, u, w)
<1>1. /\ server'.me = IF u = server.me THEN w ELSE server.me
      /\ \A d \in Chans : /\ server'.members[d] = Swap(server.members[d], u, w)
                          /\ server'.ops[d] = Swap(server.ops[d], u, w)
      /\ u # w /\ w # server.me
      /\ \A d \in Chans : w \notin server.members[d] /\ w \notin server.ops[d]
  BY IrcStateAssumption DEF UserRenames, Do, Sound, ServerType
<1>2. \A c \in Chans : server'.me \in server'.members[c] <=> server.me \in server.members[c]
  BY <1>1 DEF Swap
<1>3. CASE SharesChannel(u)
  <2>1. wire' = Append(wire, l)
    BY <1>3 DEF UserRenames, Do
  <2>2. n.on[w] = {}
    BY <1>1, Seen DEF Good, NetType
  <2>3. l \in LinesOf(n) /\ Handle(n, l) = k
    BY <1>1, <2>2 DEF LinesOf, Handle, Nick
  <2>4. Good(i) /\ Mirrors(i, server)
    BY NewUserMirrors
  <2>5. /\ k.me = Me(i, u, w) /\ k.chans = i.chans
        /\ \A c \in Chans : k.roster[c] = Swap(i.roster[c], u, w)
        /\ \A c \in Chans, v \in Nicks :
             k.modes[c][v] = IF v = u THEN {}
                             ELSE IF v = w /\ u \in i.roster[c] THEN i.modes[c][u] ELSE i.modes[c][v]
    BY <2>4 DEF Good, NetType, SetNick
  <2> HIDE DEF i, k
  <2>6. k.me = server'.me
    BY <1>1, <2>4, <2>5 DEF Me, Mirrors
  <2>7. k.chans = {c \in Chans : server'.me \in server'.members[c]}
    BY <1>2, <2>4, <2>5 DEF Mirrors
  <2>8. \A c \in Chans : k.roster[c] = IF server'.me \in server'.members[c] THEN server'.members[c] ELSE {}
    <3>1. Swap({}, u, w) = {}
      BY DEF Swap
    <3>2. ASSUME NEW c \in Chans
          PROVE  k.roster[c] = IF server'.me \in server'.members[c] THEN server'.members[c] ELSE {}
      <4>1. i.roster[c] = IF server.me \in server.members[c] THEN server.members[c] ELSE {}
        BY <2>4 DEF Mirrors
      <4>2. k.roster[c] = Swap(i.roster[c], u, w) /\ server'.members[c] = Swap(server.members[c], u, w)
        BY <1>1, <2>5
      <4>3. server'.me \in server'.members[c] <=> server.me \in server.members[c]
        BY <1>2
      <4> HIDE DEF Swap
      <4> QED BY <3>1, <4>1, <4>2, <4>3
    <3> QED BY <3>2
  <2>9. ASSUME OneMode, NEW c \in Chans, NEW v \in Nicks
        PROVE  k.modes[c][v] = IF server'.me \in server'.members[c] /\ v \in server'.ops[c] THEN Modes ELSE {}
    <3>1. \A x \in Nicks : i.modes[c][x] = IF server.me \in server.members[c] /\ x \in server.ops[c] THEN Modes ELSE {}
      BY <2>4, <2>9 DEF Mirrors
    <3>2. v \in server'.ops[c] <=> (v = w /\ u \in server.ops[c]) \/ (v # u /\ v \in server.ops[c])
      BY <1>1 DEF Swap
    <3>3. /\ i.roster[c] = IF server.me \in server.members[c] THEN server.members[c] ELSE {}
          /\ server.ops[c] \subseteq server.members[c]
      BY <2>4 DEF Mirrors, Sound
    <3> QED BY <1>1, <1>2, <2>5, <3>1, <3>2, <3>3
  <2>10. Mirrors(k, server')
    BY <2>6, <2>7, <2>8, <2>9 DEF Mirrors
  <2> QED BY <2>1, <2>3, <2>10 DEF Tells
<1>4. CASE ~SharesChannel(u)
  <2>1. wire' = wire /\ u # server.me
        /\ \A c \in Chans : server.me \in server.members[c] => u \notin server.members[c]
    BY <1>4 DEF UserRenames, Do, SharesChannel
  <2>2. \A c \in Chans : server.me \in server.members[c]
          => server'.members[c] = server.members[c] /\ server'.ops[c] = server.ops[c]
    BY <1>1, <2>1 DEF Sound, Swap
  <2>3. Mirrors(n, server')
    BY <1>1, <1>2, <2>1, <2>2 DEF Mirrors
  <2> QED BY <2>1, <2>3 DEF Tells
<1> QED BY <1>3, <1>4

LEMMA TopicTold ==
  ASSUME NEW n, Good(n), Sound(server), Mirrors(n, server), NEW u \in Nicks, NEW c \in Chans,
         wire \in Seq(AnyLine), TopicSet(u, c)
  PROVE  Tells(n)
<1> DEFINE l == [cmd |-> "TOPIC", by |-> u]
<1>1. server' = server /\ (wire' = wire \/ wire' = Append(wire, l))
  BY DEF TopicSet, Do
<1>2. l \in LinesOf(n) /\ Handle(n, l) = NewIrcUser(n, u)
  BY DEF LinesOf, Handle, Topic
<1> QED BY <1>1, <1>2, NewUserMirrors DEF Tells

LEMMA OpTold ==
  ASSUME NEW n, Good(n), Sound(server), Mirrors(n, server), NEW u \in Nicks, NEW c \in Chans,
         wire \in Seq(AnyLine), NEW add \in BOOLEAN, OpChanged(u, c, add)
  PROVE  Tells(n)
<1>1. PICK m \in Modes : Do([server EXCEPT !.ops[c] = IF add THEN @ \union {u} ELSE @ \ {u}], Visible(c),
                            <<[cmd |-> "MODE", who |-> u, chan |-> c, add |-> add, mode |-> m]>>)
  BY DEF OpChanged
<1> DEFINE l == [cmd |-> "MODE", who |-> u, chan |-> c, add |-> add, mode |-> m]
           k == Handle(n, l)
<1>2. /\ server'.me = server.me /\ server'.members = server.members
      /\ \A d \in Chans : server'.ops[d] = IF d # c THEN server.ops[d]
                                           ELSE IF add THEN server.ops[c] \union {u} ELSE server.ops[c] \ {u}
      /\ u \in server.members[c]
  BY <1>1 DEF OpChanged, Do, Sound, ServerType
<1>3. CASE Visible(c)
  <2>1. wire' = Append(wire, l) /\ server.me \in server.members[c]
    BY <1>1, <1>3 DEF Do, Visible
  <2>2. l \in LinesOf(n) /\ k = ModeLine(n, u, c, add, m)
    BY DEF LinesOf, Handle
  <2>3. c \in n.chans /\ u \in n.users /\ u \in n.roster[c]
    BY <1>2, <2>1, Seen DEF Mirrors
  <2>4. k = IF add THEN [n EXCEPT !.modes[c][u] = @ \union {m}] ELSE [n EXCEPT !.modes[c][u] = @ \ {m}]
    BY <2>2, <2>3 DEF ModeLine, AddUserMode, RemoveUserMode
  <2> DEFINE x == IF add THEN n.modes[c][u] \union {m} ELSE n.modes[c][u] \ {m}
  <2> HIDE DEF k
  <2>0. k = [n EXCEPT !.modes[c][u] = x]
    BY <2>4 DEF Good, NetType
  <2> HIDE DEF x
  <2>00. /\ k.me = n.me /\ k.chans = n.chans /\ k.roster = n.roster
         /\ \A d \in Chans, v \in Nicks : k.modes[d][v] = IF d = c /\ v = u THEN x ELSE n.modes[d][v]
    BY <2>0 DEF Good, NetType
  <2>5. /\ k.me = n.me /\ k.chans = n.chans /\ k.roster = n.roster
        /\ \A d \in Chans, v \in Nicks :
             k.modes[d][v] = IF d # c \/ v # u THEN n.modes[d][v]
                             ELSE IF add THEN n.modes[c][u] \union {m} ELSE n.modes[c][u] \ {m}
    BY <2>00 DEF x
  <2>6. ASSUME OneMode, NEW d \in Chans, NEW v \in Nicks
        PROVE  k.modes[d][v] = IF server'.me \in server'.members[d] /\ v \in server'.ops[d] THEN Modes ELSE {}
    <3>1. n.modes[d][v] = IF server.me \in server.members[d] /\ v \in server.ops[d] THEN Modes ELSE {}
      BY <2>6 DEF Mirrors
    <3>2. CASE d # c \/ v # u
      <4>1. v \in server'.ops[d] <=> v \in server.ops[d]
        BY <1>2, <3>2
      <4> QED BY <1>2, <2>5, <3>1, <3>2, <4>1
    <3>3. CASE d = c /\ v = u
      <4>1. Modes = {m}
        BY <2>6 DEF OneMode
      <4>2. v \in server'.ops[d] <=> add
        BY <1>2, <3>3
      <4>3. k.modes[d][v] = IF add THEN n.modes[d][v] \union {m} ELSE n.modes[d][v] \ {m}
        BY <2>5, <3>3
      <4>4. n.modes[d][v] = {} \/ n.modes[d][v] = {m}
        BY <3>1, <4>1
      <4>5. server'.me \in server'.members[d]
        BY <1>2, <2>1, <3>3
      <4> QED BY <4>1, <4>2, <4>3, <4>4, <4>5
    <3> QED BY <3>2, <3>3
  <2>7. Mirrors(k, server')
    BY <1>2, <2>5, <2>6 DEF Mirrors
  <2> QED BY <2>1, <2>2, <2>7 DEF Tells, k
<1>4. CASE ~Visible(c)
  <2>1. wire' = wire /\ server.me \notin server.members[c]
    BY <1>1, <1>4 DEF Do, Visible
  <2>2. Mirrors(n, server')
    BY <1>2, <2>1 DEF Mirrors
  <2> QED BY <2>1, <2>2 DEF Tells
<1> QED BY <1>3, <1>4

-----------------------------------------------------------------------------
(* The lines under way *)

\* Working off the lines w takes n to m, each line being one that is allowed then; h
\* is what the core looks like in between.
Path(h, n, w, m) ==
  /\ h[0] = n /\ h[Len(w)] = m
  /\ \A i \in 0..Len(w) : Good(h[i])
  /\ \A i \in 1..Len(w) : w[i] \in LinesOf(h[i - 1]) /\ h[i] = Handle(h[i - 1], w[i])
WorkedOff(n, w, m) == \E h : Path(h, n, w, m)

LEMMA NothingWorkedOff ==
  ASSUME NEW n, Good(n)
  PROVE  WorkedOff(n, << >>, n)
<1>1. Path([i \in {0} |-> n], n, << >>, n)
  BY DEF Path
<1> QED BY <1>1 DEF WorkedOff

LEMMA NothingLeft ==
  ASSUME NEW n, NEW m, WorkedOff(n, << >>, m)
  PROVE  m = n
  BY DEF WorkedOff, Path

LEMMA EndsGood ==
  ASSUME NEW n, NEW w \in Seq(AnyLine), NEW m, WorkedOff(n, w, m)
  PROVE  Good(n) /\ Good(m)
  BY DEF WorkedOff, Path

\* One line more.
LEMMA LastLine ==
  ASSUME NEW n, NEW w \in Seq(AnyLine), NEW m, WorkedOff(n, w, m), NEW l \in LinesOf(m)
  PROVE  Append(w, l) \in Seq(AnyLine) /\ WorkedOff(n, Append(w, l), Handle(m, l))
<1>1. PICK h : Path(h, n, w, m)
  BY DEF WorkedOff
<1> DEFINE g == [i \in 0..Len(w) + 1 |-> IF i = Len(w) + 1 THEN Handle(m, l) ELSE h[i]]
           v == Append(w, l)
<1>2. Good(m) /\ Good(Handle(m, l))
  BY EndsGood, HandleKeepsGood
<1>3. l \in AnyLine
  BY <1>2 DEF AnyLine, Good
<1>4. /\ v \in Seq(AnyLine) /\ Len(v) = Len(w) + 1 /\ Len(w) \in Nat
      /\ v[Len(w) + 1] = l /\ \A i \in 1..Len(w) : v[i] = w[i]
  BY <1>3
<1>5. g[Len(w) + 1] = Handle(m, l) /\ \A i \in 0..Len(w) : g[i] = h[i]
  BY <1>4
<1> HIDE DEF g, v
<1>6. g[0] = n /\ g[Len(v)] = Handle(m, l)
  BY <1>1, <1>4, <1>5 DEF Path
<1>7. \A i \in 0..Len(v) : Good(g[i])
  BY <1>1, <1>2, <1>4, <1>5 DEF Path
<1>8. ASSUME NEW i \in 1..Len(v)
      PROVE  v[i] \in LinesOf(g[i - 1]) /\ g[i] = Handle(g[i - 1], v[i])
  <2>1. CASE i = Len(w) + 1
    <3>1. g[i - 1] = m
      BY <1>1, <1>4, <1>5, <2>1 DEF Path
    <3> QED BY <1>4, <1>5, <2>1, <3>1
  <2>2. CASE i # Len(w) + 1
    <3>1. i \in 1..Len(w) /\ i - 1 \in 0..Len(w) /\ i \in 0..Len(w)
      BY <1>4, <2>2
    <3> QED BY <1>1, <1>4, <1>5, <3>1 DEF Path
  <2> QED BY <2>1, <2>2
<1>9. Path(g, n, v, Handle(m, l))
  BY <1>6, <1>7, <1>8 DEF Path
<1> QED BY <1>4, <1>9 DEF WorkedOff, v

\* The first of some lines.
LEMMA FirstLine ==
  ASSUME NEW n, NEW w \in Seq(AnyLine), NEW m, w # << >>, WorkedOff(n, w, m)
  PROVE  /\ Head(w) \in LinesOf(n) /\ Tail(w) \in Seq(AnyLine)
         /\ WorkedOff(Handle(n, Head(w)), Tail(w), m)
<1>1. PICK h : Path(h, n, w, m)
  BY DEF WorkedOff
<1> DEFINE v == Tail(w)
           g == [i \in 0..Len(v) |-> h[i + 1]]
<1>2. /\ v \in Seq(AnyLine) /\ Len(w) = Len(v) + 1 /\ Len(v) \in Nat
      /\ Head(w) = w[1] /\ \A i \in 1..Len(v) : v[i] = w[i + 1]
  OBVIOUS
<1>3. \A i \in 0..Len(v) : g[i] = h[i + 1]
  OBVIOUS
<1> HIDE DEF g, v
<1>4. Head(w) \in LinesOf(n) /\ h[1] = Handle(n, Head(w))
  <2>1. 1 \in 1..Len(w) /\ 1 - 1 = 0
    BY <1>2
  <2> QED BY <1>1, <1>2, <2>1 DEF Path
<1>5. g[0] = Handle(n, Head(w)) /\ g[Len(v)] = m
  BY <1>1, <1>2, <1>3, <1>4 DEF Path
<1>6. \A i \in 0..Len(v) : Good(g[i])
  BY <1>1, <1>2, <1>3 DEF Path
<1>7. ASSUME NEW i \in 1..Len(v)
      PROVE  v[i] \in LinesOf(g[i - 1]) /\ g[i] = Handle(g[i - 1], v[i])
  <2>1. i + 1 \in 1..Len(w) /\ i - 1 \in 0..Len(v) /\ i \in 0..Len(v) /\ (i + 1) - 1 = i /\ (i - 1) + 1 = i
    BY <1>2
  <2>2. w[i + 1] \in LinesOf(h[i]) /\ h[i + 1] = Handle(h[i], w[i + 1])
    BY <1>1, <2>1 DEF Path
  <2> QED BY <1>2, <1>3, <2>1, <2>2
<1>8. Path(g, Handle(n, Head(w)), v, m)
  BY <1>5, <1>6, <1>7 DEF Path
<1> QED BY <1>2, <1>4, <1>8 DEF WorkedOff, v

\* Once the lines under way are worked off, the core's picture is the server's truth.
ViewInv ==
  /\ Sound(server)
  /\ wire \in Seq(AnyLine)
  /\ \E n : WorkedOff(net, wire, n) /\ Mirrors(n, server)

LEMMA ViewInvInit == ViewInit => ViewInv
<1> SUFFICES ASSUME ViewInit PROVE ViewInv
  OBVIOUS
<1>1. Sound(server)
  BY DEF ViewInit, Sound, ServerType
<1>2. WorkedOff(net, << >>, net)
  BY EmptyIsGood, NothingWorkedOff DEF ViewInit, Init
<1>3. Mirrors(net, server)
  BY DEF ViewInit, Init, Empty, Mirrors
<1>4. wire = << >> /\ << >> \in Seq(AnyLine)
  BY DEF ViewInit
<1> QED BY <1>1, <1>2, <1>3, <1>4 DEF ViewInv

LEMMA ServerKeepsView ==
  ASSUME ViewInv, NEW u \in Nicks, NEW w \in Nicks, NEW c \in Chans,
         \/ SignOn(u) \/ CoreSignsOn(u) \/ UserJoins(u, c) \/ NamesAsked(c) \/ UserParts(u, c)
         \/ UserKicked(w, u, c) \/ UserQuits(u) \/ UserRenames(u, w) \/ TopicSet(u, c)
         \/ OpChanged(u, c, TRUE) \/ OpChanged(u, c, FALSE)
  PROVE  ViewInv'
<1>1. PICK n : WorkedOff(net, wire, n) /\ Mirrors(n, server)
  BY DEF ViewInv
<1>2. Good(n) /\ Sound(server) /\ wire \in Seq(AnyLine)
  BY <1>1, EndsGood DEF ViewInv
<1>3. Sound(server')
  BY <1>2, SoundKept
<1>4. Tells(n)
  BY <1>1, <1>2, SignOnTold, JoinTold, NamesTold, PartTold, QuitTold, RenameTold, TopicTold, OpTold
<1>5. net' = net
  BY DEF SignOn, CoreSignsOn, UserJoins, NamesAsked, UserParts, UserKicked, UserQuits,
         UserRenames, TopicSet, OpChanged, Do
<1> DEFINE Told == wire' \in Seq(AnyLine) /\ \E k : WorkedOff(net, wire', k) /\ Mirrors(k, server')
<1>6. Told
  <2>1. CASE wire' = wire /\ Mirrors(n, server')
    BY <1>1, <1>2, <2>1
  <2>2. ASSUME NEW l \in LinesOf(n), wire' = Append(wire, l), Mirrors(Handle(n, l), server')
        PROVE  Told
    BY <1>1, <1>2, <2>2, LastLine
  <2>3. ASSUME NEW l \in LinesOf(n), NEW k \in LinesOf(Handle(n, l)),
               wire' = Append(Append(wire, l), k), Mirrors(Handle(Handle(n, l), k), server')
        PROVE  Told
    <3>1. Append(wire, l) \in Seq(AnyLine) /\ WorkedOff(net, Append(wire, l), Handle(n, l))
      BY <1>1, <1>2, LastLine
    <3> QED BY <2>3, <3>1, LastLine
  <2> QED BY <1>4, <2>1, <2>2, <2>3 DEF Tells
<1> QED BY <1>3, <1>5, <1>6 DEF ViewInv, Sound, ServerType

LEMMA ReceiveKeepsView ==
  ASSUME ViewInv, ReceiveNext
  PROVE  ViewInv'
<1>1. PICK n : WorkedOff(net, wire, n) /\ Mirrors(n, server)
  BY DEF ViewInv
<1>2. Tail(wire) \in Seq(AnyLine) /\ WorkedOff(Handle(net, Head(wire)), Tail(wire), n)
  BY <1>1, FirstLine DEF ViewInv, ReceiveNext
<1> QED BY <1>1, <1>2 DEF ViewInv, ReceiveNext, Sound, ServerType

LEMMA BreakKeepsView ==
  ASSUME ViewInv, Break
  PROVE  ViewInv'
<1> DEFINE M == [c \in Chans |-> server.members[c] \ {server.me}]
           O == [c \in Chans |-> server.ops[c] \ {server.me}]
<1>0. server \in ServerType /\ Sound(server)
  BY DEF ViewInv, Sound
<1>1. Without(server.me, Chans) = [server EXCEPT !.members = M, !.ops = O]
  BY DEF Without
<1>2. server' = [me |-> Nobody, online |-> server.online \ {server.me}, members |-> M, ops |-> O]
  <2> HIDE DEF M, O
  <2> QED BY <1>0, <1>1 DEF Break, ServerType
<1>3. M \in [Chans -> SUBSET Nicks] /\ O \in [Chans -> SUBSET Nicks]
  BY <1>0 DEF ServerType
<1>4. \A c \in Chans : M[c] \subseteq server.online \ {server.me} /\ O[c] \subseteq M[c]
  BY <1>0 DEF Sound
<1> HIDE DEF M, O
<1>5. Sound(server')
  BY <1>0, <1>2, <1>3, <1>4 DEF Sound, ServerType
<1>6. net' = Empty /\ wire' = << >> /\ << >> \in Seq(AnyLine)
  BY DEF Break, Disconnect
<1>7. \A c \in Chans : server'.me \notin server'.members[c]
  BY <1>2, <1>3, IrcStateAssumption
<1>8. Mirrors(Empty, server')
  BY <1>2, <1>7 DEF Mirrors, Empty
<1>9. WorkedOff(Empty, << >>, Empty)
  BY EmptyIsGood, NothingWorkedOff
<1> QED BY <1>5, <1>6, <1>8, <1>9 DEF ViewInv, Sound, ServerType

LEMMA ViewInvAlways == ViewSpec => []ViewInv
<1>1. ViewInv /\ [ViewNext]_viewVars => ViewInv'
  <2> SUFFICES ASSUME ViewInv, [ViewNext]_viewVars PROVE ViewInv'
    OBVIOUS
  <2>1. CASE ReceiveNext
    BY <2>1, ReceiveKeepsView
  <2>2. CASE Break
    BY <2>2, BreakKeepsView
  <2>3. CASE ViewNext /\ ~ReceiveNext /\ ~Break
    BY <2>3, ServerKeepsView DEF ViewNext
  <2>4. CASE UNCHANGED viewVars
    BY <2>4 DEF viewVars, ViewInv
  <2> QED BY <2>1, <2>2, <2>3, <2>4 DEF ViewNext
<1> QED BY <1>1, ViewInvInit, PTL DEF ViewSpec

-----------------------------------------------------------------------------
\* What the server does leaves the core alone.
LEMMA ServerLeavesCore ==
  ASSUME NEW u \in Nicks, NEW w \in Nicks, NEW c \in Chans,
         \/ SignOn(u) \/ CoreSignsOn(u) \/ UserJoins(u, c) \/ NamesAsked(c) \/ UserParts(u, c)
         \/ UserKicked(w, u, c) \/ UserQuits(u) \/ UserRenames(u, w) \/ TopicSet(u, c)
         \/ OpChanged(u, c, TRUE) \/ OpChanged(u, c, FALSE)
  PROVE  UNCHANGED net
  BY DEF SignOn, CoreSignsOn, UserJoins, NamesAsked, UserParts, UserKicked, UserQuits,
         UserRenames, TopicSet, OpChanged, Do

LEMMA StepImplements == LinesAllowed /\ [ViewNext]_viewVars => [Next]_net
<1> SUFFICES ASSUME LinesAllowed, [ViewNext]_viewVars PROVE [Next]_net
  OBVIOUS
<1>1. CASE ReceiveNext
  BY <1>1 DEF LinesAllowed, ReceiveNext, Next, ReceiveLine
<1>2. CASE Break
  BY <1>2 DEF Break, Next, SocketDisconnected
<1>3. CASE ViewNext /\ ~ReceiveNext /\ ~Break
  BY <1>3, ServerLeavesCore DEF ViewNext
<1>4. CASE UNCHANGED viewVars
  BY <1>4 DEF viewVars
<1> QED BY <1>1, <1>2, <1>3, <1>4 DEF ViewNext

\* The core works off only lines that a server can send to a core in its state: above
\* all nobody takes a nick that the core still has on a channel.
LEMMA LinesAllowedInv == ViewInv => LinesAllowed
  BY FirstLine DEF ViewInv, LinesAllowed

\* Whatever users did and however far the core lags behind, the next line fits the core's
\* picture; so IrcState, which takes such lines for granted, may.
THEOREM LinesAllowedHolds == ViewSpec => []LinesAllowed
  BY ViewInvAlways, LinesAllowedInv, PTL

\* Fed by an IRC server, the core behaves as IrcState says, for any nicks, channels and
\* lines under way; so what is proved of IrcState holds there.
THEOREM ViewImplements == ViewSpec => Spec
<1>1. ViewInit => Init
  BY DEF ViewInit
<1> QED BY <1>1, StepImplements, ViewInvAlways, LinesAllowedInv, PTL DEF ViewSpec, Spec

\* With no line under way, the core is on the channels the server has it on, lists the
\* same members, and knows its own nick; and the same operators, where members have but
\* one mode: the names of a channel show only the highest of several.
THEOREM ConvergedHolds ==
  ASSUME OneMode
  PROVE  ViewSpec => []Converged
<1>1. ASSUME ViewInv, wire = << >>, net.connected
      PROVE  /\ net.me = server.me
             /\ net.chans = {c \in Chans : Visible(c)}
             /\ \A c \in net.chans :
                  /\ net.roster[c] = server.members[c]
                  /\ {u \in Nicks : net.modes[c][u] # {}} = server.ops[c]
  <2>1. Mirrors(net, server) /\ Sound(server)
    BY <1>1, NothingLeft DEF ViewInv
  <2>2. Modes # {}
    BY DEF OneMode
  <2> QED BY <2>1, <2>2 DEF Mirrors, Visible, Sound, ServerType
<1>2. ViewInv => Converged
  BY <1>1 DEF Converged
<1> QED BY <1>2, ViewInvAlways, PTL

\* Whoever leaves the last channel the core shares with them is forgotten by the same
\* line, be it theirs, a kick or the core's own leaving.
THEOREM LeaversForgottenHolds == ViewSpec => LeaversForgotten
<1> DEFINE Step == \A u \in net.users \ {net.me, net'.me} :
                     net.on[u] # {} /\ net'.on[u] = {} => u \notin net'.users
<1>1. ViewInv => Good(net)
  BY EndsGood DEF ViewInv
<1>2. ViewInv /\ LinesAllowed /\ [ViewNext]_viewVars => [Step]_viewVars
  <2> SUFFICES ASSUME ViewInv, LinesAllowed, [ViewNext]_viewVars PROVE Step
    OBVIOUS
  <2>1. CASE ReceiveNext
    <3>1. net' = Handle(net, Head(wire)) /\ Head(wire) \in LinesOf(net)
      BY <2>1 DEF ReceiveNext, LinesAllowed
    <3>2. Forgets(net, net')
      BY <1>1, <3>1, HandleForgets
    <3> QED BY <3>2 DEF Forgets
  <2>2. CASE Break
    BY <2>2 DEF Break, Disconnect, Empty
  <2>3. CASE ViewNext /\ ~ReceiveNext /\ ~Break
    BY <2>3, ServerLeavesCore DEF ViewNext
  <2>4. CASE UNCHANGED viewVars
    BY <2>4 DEF viewVars
  <2> QED BY <2>1, <2>2, <2>3, <2>4 DEF ViewNext
<1> QED BY <1>2, ViewInvAlways, LinesAllowedInv, PTL DEF ViewSpec, LeaversForgotten

-----------------------------------------------------------------------------
(* Folds over finite sets and sequences *)

\* Induction on the naturals, for the members of a set.
LEMMA CountingUp ==
  ASSUME NEW G, 0 \in G, \A n \in Nat : n \in G => n + 1 \in G
  PROVE  \A n \in Nat : n \in G
<1> DEFINE Missed == Nat \ G
<1> SUFFICES ASSUME Missed # {} PROVE FALSE
  OBVIOUS
<1>1. PICK n \in Missed : \A m \in Missed : ~(<<m, n>> \in OpToRel(<, Nat))
  <2>1. Missed \subseteq Nat
    OBVIOUS
  <2>2. QED
    BY <2>1, NatLessThanWellFounded, WFMin
<1>2. n \in Nat /\ n \notin G
  OBVIOUS
<1>3. n # 0
  BY <1>2
<1>4. n - 1 \in Nat
  BY <1>2, <1>3
<1>5. n - 1 \notin G
  BY <1>2, <1>4
<1>6. <<n - 1, n>> \in OpToRel(<, Nat)
  BY <1>2, <1>4 DEF OpToRel
<1>7. QED
  BY <1>1, <1>4, <1>5, <1>6

\* pick takes an element of every part of S that has one.
Picks(pick, S) == \A s \in SUBSET S : s # {} => pick[s] \in s

\* h is the table that a fold over S fills.
Fills(h, S, base, pick, step) ==
  \A s \in SUBSET S : h[s] = IF s = {} THEN base ELSE step[pick[s]][h[s \ {pick[s]}]]

\* iter is such a table as far as its values are in D.
FillsWithin(iter, S, D, pick, step) ==
  \A s \in SUBSET S : s # {} /\ iter[s \ {pick[s]}] \in D
                        => iter[s] = step[pick[s]][iter[s \ {pick[s]}]]

\* A step leads from what I relates to the elements before to what it relates to those with it.
Carries(I, S, pick, step) ==
  \A s \in SUBSET S : \A d : s # {} /\ <<s \ {pick[s]}, d>> \in I => <<s, step[pick[s]][d]>> \in I

LEMMA PartsOf ==
  ASSUME NEW S, IsFiniteSet(S)
  PROVE  /\ Cardinality(S) \in Nat
         /\ \A s \in SUBSET S : /\ Cardinality(s) \in Nat /\ Cardinality(s) <= Cardinality(S)
                                /\ Cardinality(s) = 0 <=> s = {}
         /\ \A s \in SUBSET S : \A x \in s : /\ s \ {x} \in SUBSET S
                                             /\ Cardinality(s \ {x}) = Cardinality(s) - 1
<1>1. Cardinality(S) \in Nat
  BY FS_CardinalityType
<1>2. ASSUME NEW s \in SUBSET S
      PROVE  /\ IsFiniteSet(s) /\ Cardinality(s) \in Nat /\ Cardinality(s) <= Cardinality(S)
             /\ Cardinality(s) = 0 <=> s = {}
  <2>1. IsFiniteSet(s) /\ Cardinality(s) <= Cardinality(S)
    BY FS_Subset
  <2> QED BY <2>1, FS_CardinalityType, FS_EmptySet
<1>3. ASSUME NEW s \in SUBSET S, NEW x \in s
      PROVE  s \ {x} \in SUBSET S /\ Cardinality(s \ {x}) = Cardinality(s) - 1
  BY <1>2, FS_RemoveElement
<1> QED BY <1>1, <1>2, <1>3

\* A fold has a table.
LEMMA FoldFills ==
  ASSUME NEW S, IsFiniteSet(S), NEW D, NEW base \in D, NEW step \in [S -> [D -> D]],
         NEW pick, Picks(pick, S)
  PROVE  \E h \in [SUBSET S -> D] : Fills(h, S, base, pick, step)
<1> DEFINE Small(n) == {s \in SUBSET S : Cardinality(s) <= n}
           Row(h, s) == IF s = {} THEN base ELSE step[pick[s]][h[s \ {pick[s]}]]
           P(n) == \E h \in [Small(n) -> D] : \A s \in Small(n) : h[s] = Row(h, s)
           G == {n \in Nat : P(n)}
<1>1. P(0)
  <2> DEFINE h == [s \in Small(0) |-> base]
  <2>1. \A s \in Small(0) : s = {}
    BY PartsOf
  <2>2. h \in [Small(0) -> D] /\ \A s \in Small(0) : h[s] = base
    OBVIOUS
  <2> HIDE DEF h
  <2>3. \A s \in Small(0) : h[s] = Row(h, s)
    BY <2>1, <2>2
  <2> QED BY <2>2, <2>3
<1>2. ASSUME NEW n \in Nat, P(n) PROVE P(n + 1)
  <2>1. PICK h \in [Small(n) -> D] : \A s \in Small(n) : h[s] = Row(h, s)
    BY <1>2
  <2> DEFINE g == [s \in Small(n + 1) |-> Row(h, s)]
  <2>2. ASSUME NEW s \in Small(n + 1), s # {}
        PROVE  pick[s] \in S /\ s \ {pick[s]} \in Small(n) /\ s \ {pick[s]} \in Small(n + 1)
    <3>1. pick[s] \in s /\ s \in SUBSET S
      BY <2>2 DEF Picks
    <3>2. Cardinality(s \ {pick[s]}) = Cardinality(s) - 1 /\ Cardinality(s) \in Nat
      BY <3>1, PartsOf
    <3> QED BY <3>1, <3>2
  <2>3. ASSUME NEW s \in Small(n + 1) PROVE Row(h, s) \in D
    <3>1. CASE s = {}
      BY <3>1
    <3>2. CASE s # {}
      <4>1. pick[s] \in S /\ h[s \ {pick[s]}] \in D
        <5> HIDE DEF Small, Row
        <5> QED BY <2>2, <3>2
      <4>2. step[pick[s]] \in [D -> D]
        BY <4>1
      <4>3. step[pick[s]][h[s \ {pick[s]}]] \in D
        BY <4>1, <4>2
      <4> QED BY <3>2, <4>3
    <3> QED BY <3>1, <3>2
  <2>4. g \in [Small(n + 1) -> D]
    <3> HIDE DEF Row
    <3> QED BY <2>3
  <2>5. \A s \in Small(n) : s \in Small(n + 1)
    <3>1. \A s \in Small(n) : Cardinality(s) \in Nat
      BY PartsOf
    <3> QED BY <3>1
  <2>6. \A s \in Small(n) : g[s] = h[s]
    <3> HIDE DEF Row, Small
    <3> QED BY <2>1, <2>5
  <2>7. ASSUME NEW s \in Small(n + 1) PROVE g[s] = Row(g, s)
    <3>1. g[s] = Row(h, s)
      <4> HIDE DEF Row, Small
      <4> QED OBVIOUS
    <3> HIDE DEF g, Small
    <3> QED BY <2>2, <2>6, <3>1
  <2> HIDE DEF g, Row, Small
  <2> QED BY <2>4, <2>7
<1>3. \A n \in Nat : n \in G
  <2> HIDE DEF P
  <2>1. 0 \in G /\ \A n \in Nat : n \in G => n + 1 \in G
    BY <1>1, <1>2
  <2> HIDE DEF G
  <2> QED BY <2>1, CountingUp
<1>4. P(Cardinality(S))
  <2> HIDE DEF P
  <2> QED BY <1>3, PartsOf
<1>5. Small(Cardinality(S)) = SUBSET S
  BY PartsOf
<1> HIDE DEF Small
<1> QED BY <1>4, <1>5 DEF Fills

\* What a fold keeps true of the elements taken so far and the value they led to.
LEMMA FoldKeeps ==
  ASSUME NEW S, IsFiniteSet(S), NEW base, NEW step, NEW pick, Picks(pick, S),
         NEW h, Fills(h, S, base, pick, step),
         NEW I, <<{}, base>> \in I, Carries(I, S, pick, step)
  PROVE  <<S, h[S]>> \in I
<1> DEFINE G == {n \in Nat : \A s \in SUBSET S : Cardinality(s) = n => <<s, h[s]>> \in I}
<1>1. 0 \in G
  <2>1. \A s \in SUBSET S : Cardinality(s) = 0 => s = {}
    BY PartsOf
  <2>2. h[{}] = base
    BY DEF Fills
  <2> QED BY <2>1, <2>2
<1>2. ASSUME NEW n \in Nat, n \in G PROVE n + 1 \in G
  <2> SUFFICES ASSUME NEW s \in SUBSET S, Cardinality(s) = n + 1 PROVE <<s, h[s]>> \in I
    OBVIOUS
  <2>1. s # {} /\ pick[s] \in s
    <3>1. Cardinality(s) # 0
      OBVIOUS
    <3>2. s # {}
      BY <3>1, FS_EmptySet
    <3> QED BY <3>2 DEF Picks
  <2>2. s \ {pick[s]} \in SUBSET S /\ Cardinality(s \ {pick[s]}) = n
    <3>1. Cardinality(s \ {pick[s]}) = Cardinality(s) - 1
      BY <2>1, PartsOf
    <3> QED BY <3>1
  <2>3. <<s \ {pick[s]}, h[s \ {pick[s]}]>> \in I
    BY <1>2, <2>2
  <2>4. h[s] = step[pick[s]][h[s \ {pick[s]}]]
    BY <2>1 DEF Fills
  <2> QED BY <2>1, <2>3, <2>4 DEF Carries
<1>3. \A n \in Nat : n \in G
  <2> HIDE DEF G
  <2> QED BY <1>1, <1>2, CountingUp
<1> QED BY <1>3, PartsOf

\* What fills the table on values of D has its values there.
LEMMA FoldIs ==
  ASSUME NEW S, IsFiniteSet(S), NEW D, NEW base \in D, NEW step \in [S -> [D -> D]],
         NEW pick, Picks(pick, S),
         NEW iter, iter[{}] = base, FillsWithin(iter, S, D, pick, step)
  PROVE  Fills(iter, S, base, pick, step) /\ \A s \in SUBSET S : iter[s] \in D
<1> DEFINE G == {n \in Nat : \A s \in SUBSET S : Cardinality(s) = n => iter[s] \in D}
<1>1. 0 \in G
  <2>1. \A s \in SUBSET S : Cardinality(s) = 0 => s = {}
    BY PartsOf
  <2> QED BY <2>1
<1>2. ASSUME NEW n \in Nat, n \in G PROVE n + 1 \in G
  <2> SUFFICES ASSUME NEW s \in SUBSET S, Cardinality(s) = n + 1 PROVE iter[s] \in D
    OBVIOUS
  <2>1. s # {} /\ pick[s] \in s
    <3>1. Cardinality(s) # 0
      OBVIOUS
    <3>2. s # {}
      BY <3>1, FS_EmptySet
    <3> QED BY <3>2 DEF Picks
  <2>2. s \ {pick[s]} \in SUBSET S /\ Cardinality(s \ {pick[s]}) = n
    <3>1. Cardinality(s \ {pick[s]}) = Cardinality(s) - 1
      BY <2>1, PartsOf
    <3> QED BY <3>1
  <2>3. iter[s \ {pick[s]}] \in D /\ pick[s] \in S
    BY <1>2, <2>1, <2>2
  <2>4. step[pick[s]] \in [D -> D]
    BY <2>3
  <2> QED BY <2>1, <2>3, <2>4 DEF FillsWithin
<1>3. \A n \in Nat : n \in G
  <2> HIDE DEF G
  <2> QED BY <1>1, <1>2, CountingUp
<1>4. \A s \in SUBSET S : iter[s] \in D
  BY <1>3, PartsOf
<1>5. \A s \in SUBSET S : s # {} => s \ {pick[s]} \in SUBSET S
  OBVIOUS
<1> QED BY <1>4, <1>5 DEF Fills, FillsWithin

\* What FoldSet takes from a set.
Chosen(S) == [s \in SUBSET S |-> CHOOSE x \in s : TRUE]

LEMMA ChosenPicks == \A S : Picks(Chosen(S), S)
BY DEF Picks, Chosen

-----------------------------------------------------------------------------
(* Letting the users of a split go *)

\* A good picture in which the core is on every channel it knows of.
Present(n) == Good(n) /\ \A c \in n.chans : n.me \in n.roster[c]

\* k is what becomes of n when the users gone are let go.
LetGo(n, gone, k) ==
  /\ k.me = n.me /\ k.connected = n.connected /\ k.chans = n.chans
  /\ n.users \ gone \subseteq k.users
  /\ \A c \in Chans : k.roster[c] = n.roster[c] \ gone
  /\ \A c \in Chans, v \in Nicks : v \notin gone => k.modes[c][v] = n.modes[c][v]

LEMMA OneLetGo ==
  ASSUME NEW n, Present(n), NEW u \in Nicks, u # n.me
  PROVE  Present(Quit(n, u)) /\ LetGo(n, {u}, Quit(n, u))
<1> DEFINE k == Quit(n, u)
           cs == n.on[u]
<1>1. n \in NetType /\ cs \in SUBSET Chans /\ \A c \in cs : c \in n.chans /\ u \in n.roster[c]
  BY DEF Present, Good, NetType, Known, Agree
<1>2. GivenUp(n, u, cs) = {}
  <2>1. \A c \in cs : n.me \in n.roster[c]
    BY <1>1 DEF Present
  <2> QED BY <2>1 DEF GivenUp
<1>3. Strangers(n, u, {}) = {}
  BY DEF Strangers
<1>4. /\ k.me = n.me /\ k.connected = n.connected /\ k.chans = n.chans
      /\ k.users = n.users \ {u}
      /\ k.roster = [c \in Chans |-> IF c \in cs THEN n.roster[c] \ {u} ELSE n.roster[c]]
      /\ k.modes = [c \in Chans |-> [v \in Nicks |-> IF c \in cs /\ v = u THEN {} ELSE n.modes[c][v]]]
  BY <1>1, <1>2, <1>3 DEF Quit, RemoveIrcUser, LeaveChannels, NetType
<1>5. Good(k)
  BY QuitKeepsGood DEF Present
<1> HIDE DEF k, cs
<1>6. \A c \in Chans : k.roster[c] = n.roster[c] \ {u}
  BY <1>4 DEF Present, Good, Agree, cs
<1>7. LetGo(n, {u}, k)
  BY <1>4, <1>6 DEF LetGo
<1>8. Present(k)
  BY <1>4, <1>5, <1>6 DEF Present, Good, NetType
<1> QED BY <1>7, <1>8 DEF k

LetGoAll(gone) == UNION {gone[c] : c \in Chans}

PresentAs(u) == {d \in NetType : Present(d) /\ d.me = u}
QuitSteps(S, D) == [u \in S |-> [d \in D |-> Quit(d, u)]]

LEMMA OneStep ==
  ASSUME NEW n, NEW u \in Nicks, u # n.me, NEW d \in PresentAs(n.me)
  PROVE  Quit(d, u) \in PresentAs(n.me) /\ LetGo(d, {u}, Quit(d, u))
<1>1. Present(d) /\ d.me = n.me
  BY DEF PresentAs
<1>2. Present(Quit(d, u)) /\ LetGo(d, {u}, Quit(d, u))
  BY <1>1, OneLetGo
<1> QED BY <1>1, <1>2 DEF LetGo, PresentAs, Present, Good

LEMMA QuitStepsType ==
  ASSUME NEW n, NEW S \in SUBSET Nicks, n.me \notin S
  PROVE  LET D == PresentAs(n.me)
         IN  /\ QuitSteps(S, D) \in [S -> [D -> D]]
             /\ \A u \in S, d \in D : QuitSteps(S, D)[u][d] = Quit(d, u)
BY OneStep DEF QuitSteps

LEMMA QuitTable ==
  ASSUME NEW n, Present(n), NEW S \in SUBSET Nicks, n.me \notin S, NEW gone,
         LetGoAll(gone) = S
  PROVE  \E h : /\ Fills(h, S, n, Chosen(S), QuitSteps(S, PresentAs(n.me)))
                /\ HandleNetsplitQuit(n, gone) = h[S]
<1> DEFINE P(s) == CHOOSE x \in s : TRUE
           Sol(h) == h = [s \in SUBSET S |-> IF s = {} THEN n ELSE Quit(h[s \ {P(s)}], P(s))]
           iter == CHOOSE h : Sol(h)
           D == PresentAs(n.me)
           step == QuitSteps(S, D)
<1>t. step \in [S -> [D -> D]] /\ \A u \in S, d \in D : step[u][d] = Quit(d, u)
  BY QuitStepsType
<1>d. n \in D
  BY DEF PresentAs, Present, Good
<1> HIDE DEF D, step
<1>0. IsFiniteSet(S)
  BY NetsplitAssumption, FS_Subset
<1>1. HandleNetsplitQuit(n, gone) = iter[S]
  BY DEF HandleNetsplitQuit, FoldSet, MapThenFoldSet, LetGoAll
<1>2. \A s \in SUBSET S : Chosen(S)[s] = P(s) /\ (s # {} => P(s) \in s)
  BY DEF Chosen
<1> HIDE DEF P
<1>3. PICK h \in [SUBSET S -> D] : Fills(h, S, n, Chosen(S), step)
  <2> QED BY <1>0, <1>d, <1>t, ChosenPicks, FoldFills
<1>4. Sol(h)
  <2>1. ASSUME NEW s \in SUBSET S, s # {}
        PROVE  h[s] = Quit(h[s \ {P(s)}], P(s))
    <3>1. P(s) \in S /\ h[s \ {P(s)}] \in D
      BY <1>2, <2>1
    <3>2. h[s] = step[P(s)][h[s \ {P(s)}]]
      BY <1>2, <1>3, <2>1 DEF Fills
    <3> QED BY <1>t, <3>1, <3>2
  <2>2. h[{}] = n
    BY <1>3 DEF Fills
  <2> QED BY <2>1, <2>2
<1>5. Sol(iter)
  <2> HIDE DEF Sol
  <2> QED BY <1>4
<1> HIDE DEF iter
<1>6. Fills(iter, S, n, Chosen(S), step)
  <2>1. iter[{}] = n
    BY <1>5
  <2>2. ASSUME NEW s \in SUBSET S, s # {}, iter[s \ {Chosen(S)[s]}] \in D
        PROVE  iter[s] = step[Chosen(S)[s]][iter[s \ {Chosen(S)[s]}]]
    <3>1. P(s) \in S /\ iter[s \ {P(s)}] \in D /\ Chosen(S)[s] = P(s)
      BY <1>2, <2>2
    <3>2. iter[s] = Quit(iter[s \ {P(s)}], P(s))
      BY <1>5, <2>2
    <3> QED BY <1>t, <3>1, <3>2
  <2>3. FillsWithin(iter, S, D, Chosen(S), step)
    BY <2>2 DEF FillsWithin
  <2> QED BY <1>0, <1>d, <1>t, <2>1, <2>3, ChosenPicks, FoldIs
<1> QED BY <1>1, <1>6 DEF step, D

LEMMA AllLetGo ==
  ASSUME NEW n, Present(n), NEW gone \in [Chans -> SUBSET Nicks], n.me \notin LetGoAll(gone)
  PROVE  LET k == HandleNetsplitQuit(n, gone) IN Present(k) /\ LetGo(n, LetGoAll(gone), k)
<1> DEFINE S == LetGoAll(gone)
           D == PresentAs(n.me)
           step == QuitSteps(S, D)
           I == {x \in (SUBSET S) \X D : LetGo(n, x[1], x[2])}
<1>1. S \in SUBSET Nicks /\ n.me \notin S
  BY DEF LetGoAll
<1>2. n \in D
  BY DEF PresentAs, Present, Good
<1> HIDE DEF S
<1>4. \A u \in S, d \in D : step[u][d] = Quit(d, u)
  BY <1>1, QuitStepsType
<1>5. PICK h : Fills(h, S, n, Chosen(S), step) /\ HandleNetsplitQuit(n, gone) = h[S]
  BY <1>1, QuitTable DEF S
<1> HIDE DEF step, D
<1>6. <<{}, n>> \in I
  BY <1>2 DEF LetGo
<1>7. ASSUME NEW s \in SUBSET S, NEW d, s # {}, <<s \ {Chosen(S)[s]}, d>> \in I
      PROVE  <<s, step[Chosen(S)[s]][d]>> \in I
  <2> DEFINE u == Chosen(S)[s]
  <2>1. u \in s
    BY <1>7, ChosenPicks DEF Picks
  <2>2. d \in D /\ LetGo(n, s \ {u}, d)
    BY <1>7
  <2> HIDE DEF u
  <2>3. Quit(d, u) \in D /\ LetGo(d, {u}, Quit(d, u)) /\ step[u][d] = Quit(d, u)
    <3>1. u \in Nicks /\ u # n.me /\ u \in S
      BY <1>1, <2>1
    <3> QED BY <1>4, <2>2, <3>1, OneStep DEF D
  <2>4. LetGo(n, s, Quit(d, u))
    BY <2>1, <2>2, <2>3 DEF LetGo
  <2> QED BY <2>3, <2>4 DEF u
<1>8. <<S, h[S]>> \in I
  <2>1. IsFiniteSet(S)
    BY <1>1, NetsplitAssumption, FS_Subset
  <2> HIDE DEF I
  <2>2. Carries(I, S, Chosen(S), step)
    BY <1>7 DEF Carries
  <2> QED BY <1>5, <1>6, <2>1, <2>2, ChosenPicks, FoldKeeps
<1>9. h[S] \in D /\ LetGo(n, S, h[S])
  BY <1>8
<1> QED BY <1>5, <1>9 DEF S, D, PresentAs

-----------------------------------------------------------------------------
(* What FoldLeft takes from a sequence *)

LEMMA MaxOf ==
  ASSUME NEW n \in Nat, NEW s \in SUBSET (1 .. n), s # {}
  PROVE  Max(s) \in s /\ \A y \in s : Max(s) >= y
<1> DEFINE G == {m \in Nat : \A t \in SUBSET (1 .. m) :
                                t # {} => \E x \in t : \A y \in t : x >= y}
<1>1. 0 \in G
  <2>1. \A t \in SUBSET (1 .. 0) : t = {}
    OBVIOUS
  <2> QED BY <2>1
<1>2. ASSUME NEW m \in Nat, m \in G PROVE m + 1 \in G
  <2> SUFFICES ASSUME NEW t \in SUBSET (1 .. m + 1), t # {}
               PROVE  \E x \in t : \A y \in t : x >= y
    OBVIOUS
  <2>1. CASE m + 1 \in t
    BY <2>1
  <2>2. CASE m + 1 \notin t
    <3>1. t \in SUBSET (1 .. m)
      BY <2>2
    <3> QED BY <1>2, <3>1
  <2> QED BY <2>1, <2>2
<1>3. n \in G
  <2> HIDE DEF G
  <2> QED BY <1>1, <1>2, CountingUp
<1> QED BY <1>3 DEF Max

Highest(n) == [s \in SUBSET (1 .. n) |-> Max(s)]

LEMMA HighestPicks ==
  ASSUME NEW n \in Nat
  PROVE  IsFiniteSet(1 .. n) /\ Picks(Highest(n), 1 .. n)
<1>1. IsFiniteSet(1 .. n)
  BY FS_Interval
<1>2. \A s \in SUBSET (1 .. n) : s # {} => Max(s) \in s
  BY MaxOf
<1> QED BY <1>1, <1>2 DEF Picks, Highest

LEMMA HighestUpTo ==
  ASSUME NEW n \in Nat, NEW i \in 1 .. n
  PROVE  Highest(n)[1 .. i] = i /\ (1 .. i) \ {i} = 1 .. i - 1
<1>1. 1 .. i \in SUBSET (1 .. n) /\ i \in 1 .. i
  OBVIOUS
<1>2. Max(1 .. i) \in 1 .. i /\ Max(1 .. i) >= i
  BY <1>1, MaxOf
<1> QED BY <1>1, <1>2 DEF Highest

-----------------------------------------------------------------------------
(* The joins a split holds back *)

JoinType == [who : Nicks, modes : Seq(Modes)]
Whos(list) == {list[i].who : i \in 1 .. Len(list)}

LEMMA ListFacts ==
  ASSUME NEW T, NEW list \in Seq(T)
  PROVE  /\ Len(list) \in Nat /\ DOMAIN list = 1 .. Len(list)
         /\ \A i \in 1 .. Len(list) : list[i] \in T
BY LenProperties, ElementOfSeq

\* Nobody has quit since: the list is kept as it is.
LEMMA AllKept ==
  ASSUME NEW n, NEW list \in Seq(JoinType), Whos(list) \subseteq n.users
  PROVE  Staying(n, list) = list
<1> DEFINE N == Len(list)
           S == 1 .. N
           D == Seq(JoinType)
           step == [i \in S |-> [d \in D |-> Append(d, list[i])]]
           Sol(h) == h = [s \in SUBSET S |-> IF s = {} THEN << >>
                            ELSE IF list[Max(s)].who \in n.users
                                 THEN Append(h[s \ {Max(s)}], list[Max(s)]) ELSE h[s \ {Max(s)}]]
           iter == CHOOSE h : Sol(h)
           I == {x \in (SUBSET S) \X D : \A i \in 0 .. N : x[1] = 1 .. i =>
                   Len(x[2]) = i /\ \A k \in 1 .. i : x[2][k] = list[k]}
<1>1. N \in Nat /\ DOMAIN list = S /\ \A i \in S : list[i] \in JoinType /\ list[i].who \in n.users
  BY ListFacts DEF Whos
<1>2. Staying(n, list) = iter[S]
  BY <1>1 DEF Staying, FoldLeft, MapThenFoldSet
<1>3. /\ step \in [S -> [D -> D]]
      /\ \A i \in S, d \in D : step[i][d] = Append(d, list[i])
  BY <1>1
<1>4. IsFiniteSet(S) /\ Picks(Highest(N), S) /\ \A s \in SUBSET S : Highest(N)[s] = Max(s)
  BY <1>1, HighestPicks DEF Highest
<1>5. << >> \in D
  OBVIOUS
<1> HIDE DEF step, N, S, D
<1>6. PICK h \in [SUBSET S -> D] : Fills(h, S, << >>, Highest(N), step)
  BY <1>3, <1>4, <1>5, FoldFills
<1>7. Sol(h)
  <2>1. ASSUME NEW s \in SUBSET S, s # {}
        PROVE  list[Max(s)].who \in n.users /\ h[s] = Append(h[s \ {Max(s)}], list[Max(s)])
    <3>1. Max(s) \in S /\ h[s \ {Max(s)}] \in D
      BY <1>4, <2>1 DEF Picks
    <3>2. h[s] = step[Max(s)][h[s \ {Max(s)}]]
      BY <1>4, <1>6, <2>1 DEF Fills
    <3> QED BY <1>1, <1>3, <3>1, <3>2
  <2>2. h[{}] = << >>
    BY <1>6 DEF Fills
  <2> QED BY <2>1, <2>2
<1>8. Sol(iter)
  <2> HIDE DEF Sol
  <2> QED BY <1>7
<1> HIDE DEF iter
<1>9. Fills(iter, S, << >>, Highest(N), step)
  <2>1. iter[{}] = << >>
    BY <1>8
  <2>2. ASSUME NEW s \in SUBSET S, s # {}, iter[s \ {Highest(N)[s]}] \in D
        PROVE  iter[s] = step[Highest(N)[s]][iter[s \ {Highest(N)[s]}]]
    <3>1. Max(s) \in S /\ iter[s \ {Max(s)}] \in D /\ Highest(N)[s] = Max(s)
      BY <1>4, <2>2 DEF Picks
    <3>2. iter[s] = Append(iter[s \ {Max(s)}], list[Max(s)])
      BY <1>1, <1>8, <2>2, <3>1
    <3> QED BY <1>3, <3>1, <3>2
  <2>3. FillsWithin(iter, S, D, Highest(N), step)
    BY <2>2 DEF FillsWithin
  <2> QED BY <1>3, <1>4, <1>5, <2>1, <2>3, FoldIs
<1>10. <<{}, << >> >> \in I
  <2>1. \A i \in 0 .. N : {} = 1 .. i => i = 0
    <3>1. \A i \in 0 .. N : i # 0 => i \in 1 .. i
      BY <1>1
    <3> QED BY <3>1
  <2> QED BY <1>5, <2>1
<1>11. Carries(I, S, Highest(N), step)
  <2> SUFFICES ASSUME NEW s \in SUBSET S, NEW d, s # {}, <<s \ {Highest(N)[s]}, d>> \in I
               PROVE  <<s, step[Highest(N)[s]][d]>> \in I
    BY DEF Carries
  <2> DEFINE m == Highest(N)[s]
  <2>1. m \in S /\ d \in D /\ step[m][d] = Append(d, list[m])
    BY <1>3, <1>4 DEF Picks
  <2>2. Append(d, list[m]) \in D
    BY <1>1, <2>1 DEF D
  <2>3. ASSUME NEW i \in 0 .. N, s = 1 .. i
        PROVE  Len(Append(d, list[m])) = i /\ \A k \in 1 .. i : Append(d, list[m])[k] = list[k]
    <3>1. i \in 1 .. N /\ i - 1 \in 0 .. N
      BY <1>1, <2>3
    <3>2. m = i /\ s \ {m} = 1 .. i - 1
      BY <1>1, <2>3, <3>1, HighestUpTo
    <3>3. Len(d) = i - 1 /\ \A k \in 1 .. i - 1 : d[k] = list[k]
      BY <3>1, <3>2
    <3>4. Len(Append(d, list[m])) = Len(d) + 1
          /\ \A k \in 1 .. Len(d) + 1 : Append(d, list[m])[k] = IF k <= Len(d) THEN d[k] ELSE list[m]
      BY <1>1, <2>1, AppendProperties DEF D
    <3> HIDE DEF m
    <3> QED BY <1>1, <3>1, <3>2, <3>3, <3>4
  <2> HIDE DEF m
  <2> QED BY <2>1, <2>2, <2>3 DEF m
<1>12. <<S, iter[S]>> \in I
  <2> HIDE DEF I
  <2> QED BY <1>4, <1>9, <1>10, <1>11, FoldKeeps
<1>13. iter[S] \in Seq(JoinType) /\ Len(iter[S]) = N /\ \A k \in 1 .. N : iter[S][k] = list[k]
  <2>1. N \in 0 .. N
    BY <1>1
  <2> QED BY <1>12, <2>1 DEF S, D
<1>14. iter[S] = list
  BY <1>13, SeqEqual DEF N
<1> QED BY <1>2, <1>14

LEMMA AllModesLeft ==
  ASSUME NEW n, NEW list \in Seq(JoinType), Whos(list) \subseteq n.users
  PROVE  ModesLeft(n, list) = [i \in DOMAIN list |-> list[i].modes]
<1> DEFINE N == Len(list)
           ms0 == [i \in DOMAIN list |-> list[i].modes]
           S == 1 .. N
           D == {ms0}
           step == [i \in S |-> [d \in D |-> d]]
           Cut(i, ms) == IF list[i].who \in n.users \/ IndexOf(list, list[i].who) > Len(ms) THEN ms
                         ELSE RemoveAt(ms, IndexOf(list, list[i].who))
           Sol(h) == h = [s \in SUBSET S |-> IF s = {} THEN ms0 ELSE Cut(Max(s), h[s \ {Max(s)}])]
           iter == CHOOSE h : Sol(h)
<1>1. N \in Nat /\ DOMAIN list = S /\ \A i \in S : list[i].who \in n.users
  BY ListFacts DEF Whos
<1>2. ModesLeft(n, list) = iter[S]
  BY <1>1 DEF ModesLeft, FoldLeft, MapThenFoldSet
<1> HIDE DEF ms0
<1>c. \A i \in S : \A ms : Cut(i, ms) = ms
  BY <1>1
<1> HIDE DEF Cut
<1>3. step \in [S -> [D -> D]] /\ \A i \in S, d \in D : step[i][d] = d
  OBVIOUS
<1>4. IsFiniteSet(S) /\ Picks(Highest(N), S) /\ \A s \in SUBSET S : Highest(N)[s] = Max(s)
  BY <1>1, HighestPicks DEF Highest
<1>5. ms0 \in D
  OBVIOUS
<1> HIDE DEF step, N, S, D
<1>6. PICK h \in [SUBSET S -> D] : Fills(h, S, ms0, Highest(N), step)
  BY <1>3, <1>4, <1>5, FoldFills
<1>7. Sol(h)
  <2>1. ASSUME NEW s \in SUBSET S, s # {}
        PROVE  h[s] = Cut(Max(s), h[s \ {Max(s)}])
    <3>1. Max(s) \in S /\ h[s \ {Max(s)}] \in D
      BY <1>4, <2>1 DEF Picks
    <3>2. h[s] = step[Max(s)][h[s \ {Max(s)}]]
      BY <1>4, <1>6, <2>1 DEF Fills
    <3> QED BY <1>3, <1>c, <3>1, <3>2
  <2>2. h[{}] = ms0
    BY <1>6 DEF Fills
  <2> QED BY <2>1, <2>2
<1>8. Sol(iter)
  <2> HIDE DEF Sol
  <2> QED BY <1>7
<1> HIDE DEF iter
<1>9. \A s \in SUBSET S : iter[s] \in D
  <2>1. iter[{}] = ms0
    BY <1>8
  <2>2. ASSUME NEW s \in SUBSET S, s # {}, iter[s \ {Highest(N)[s]}] \in D
        PROVE  iter[s] = step[Highest(N)[s]][iter[s \ {Highest(N)[s]}]]
    <3>1. Max(s) \in S /\ iter[s \ {Max(s)}] \in D /\ Highest(N)[s] = Max(s)
      BY <1>4, <2>2 DEF Picks
    <3>2. iter[s] = Cut(Max(s), iter[s \ {Max(s)}])
      BY <1>8, <2>2
    <3> QED BY <1>3, <1>c, <3>1, <3>2
  <2>3. FillsWithin(iter, S, D, Highest(N), step)
    BY <2>2 DEF FillsWithin
  <2> QED BY <1>3, <1>4, <1>5, <2>1, <2>3, FoldIs
<1> QED BY <1>2, <1>9 DEF D, ms0

-----------------------------------------------------------------------------
(* What becomes of the joins *)

\* k is n after the entries joined[c] were added to each channel c.
Grown(n, joined, k) ==
  /\ k.me = n.me /\ k.connected = n.connected /\ k.chans = n.chans /\ n.users \subseteq k.users
  /\ \A c \in Chans : k.roster[c] = n.roster[c] \union {j.who : j \in joined[c]}
  /\ \A c \in Chans, u \in Nicks : n.modes[c][u] \subseteq k.modes[c][u]
  /\ \A c \in Chans : \A j \in joined[c] : ToSet(j.modes) \subseteq k.modes[c][j.who]

\* The good pictures that n may grow to.
GrownGood(n) ==
  {d \in NetType : /\ Good(d) /\ d.me = n.me /\ d.connected = n.connected
                   /\ d.chans = n.chans /\ n.users \subseteq d.users}

AddOne(n, c, j) == JoinIrcUsers(n, c, {j.who}, [v \in Nicks |-> TakesModes(n, c, j)])
AddAll(n, c, list) == FoldLeft(LAMBDA acc, j : AddOne(acc, c, j), n, list)
Only(c, js) == [d \in Chans |-> IF d = c THEN js ELSE {}]

LEMMA ModesSet ==
  ASSUME NEW j \in JoinType
  PROVE  ToSet(j.modes) \in SUBSET Modes
BY ListFacts DEF JoinType, ToSet

LEMMA OneAdded ==
  ASSUME NEW n, Good(n), NEW c \in n.chans, NEW j \in JoinType, j.who \in n.users, Len(j.modes) <= 1
  PROVE  Good(AddOne(n, c, j)) /\ Grown(n, Only(c, {j}), AddOne(n, c, j))
<1> DEFINE m == [v \in Nicks |-> TakesModes(n, c, j)]
           k == JoinIrcUsers(n, c, {j.who}, m)
           u == j.who
<1>1. TakesModes(n, c, j) = ToSet(j.modes) /\ ToSet(j.modes) \in SUBSET Modes
  <2>1. j.modes \in Seq(Modes)
    BY DEF JoinType
  <2>2. Len(j.modes) \in Nat
    BY <2>1, ListFacts
  <2> QED BY <2>2, ModesSet DEF TakesModes
<1>2. m \in [Nicks -> SUBSET Modes] /\ m[u] = ToSet(j.modes) /\ u \in Nicks /\ c \in Chans
  BY <1>1 DEF JoinType, Good, NetType
<1> HIDE DEF m
<1>3. Good(k)
  BY <1>2, JoinKeepsGood
<1>4. /\ k.me = n.me /\ k.connected = n.connected /\ k.chans = n.chans /\ k.users = n.users
      /\ \A d \in Chans : k.roster[d] = IF d = c THEN n.roster[d] \union {u} ELSE n.roster[d]
      /\ \A d \in Chans, v \in Nicks :
           k.modes[d][v] = IF d = c /\ v = u THEN n.modes[d][v] \union m[v] ELSE n.modes[d][v]
  BY <1>2 DEF Good, NetType, JoinIrcUsers
<1> HIDE DEF k
<1>5. Grown(n, Only(c, {j}), k)
  <2>1. \A d \in Chans : Only(c, {j})[d] = IF d = c THEN {j} ELSE {}
    BY DEF Only
  <2>2. ASSUME NEW d \in Chans
        PROVE  k.roster[d] = n.roster[d] \union {i.who : i \in Only(c, {j})[d]}
    <3>1. CASE d = c
      <4>1. {i.who : i \in {j}} = {u}
        OBVIOUS
      <4> QED BY <1>4, <2>1, <3>1, <4>1
    <3>2. CASE d # c
      BY <1>4, <2>1, <3>2
    <3> QED BY <3>1, <3>2
  <2>3. ASSUME NEW d \in Chans, NEW i \in Only(c, {j})[d]
        PROVE  ToSet(i.modes) \subseteq k.modes[d][i.who]
    <3>1. CASE d = c
      <4>1. i = j
        <5>1. Only(c, {j})[d] = {j}
          BY <2>1, <3>1
        <5> QED BY <5>1
      <4>2. k.modes[c][u] = n.modes[c][u] \union m[u]
        BY <1>2, <1>4
      <4> QED BY <1>2, <3>1, <4>1, <4>2
    <3>2. CASE d # c
      <4>1. Only(c, {j})[d] = {}
        BY <2>1, <3>2
      <4> QED BY <4>1
    <3> QED BY <3>1, <3>2
  <2>4. \A d \in Chans, v \in Nicks : n.modes[d][v] \subseteq k.modes[d][v]
    BY <1>4
  <2> QED BY <1>4, <2>2, <2>3, <2>4 DEF Grown
<1> QED BY <1>3, <1>5 DEF AddOne, m, k

Both(a, b) == [c \in Chans |-> a[c] \union b[c]]

LEMMA GrownTwice ==
  ASSUME NEW n, NEW k, NEW l, NEW a \in [Chans -> SUBSET JoinType], NEW b \in [Chans -> SUBSET JoinType],
         Grown(n, a, k), Grown(k, b, l)
  PROVE  Grown(n, Both(a, b), l)
<1>1. \A c \in Chans : Both(a, b)[c] = a[c] \union b[c]
  BY DEF Both
<1>2. ASSUME NEW c \in Chans
      PROVE  l.roster[c] = n.roster[c] \union {j.who : j \in Both(a, b)[c]}
  <2>1. l.roster[c] = k.roster[c] \union {j.who : j \in b[c]}
        /\ k.roster[c] = n.roster[c] \union {j.who : j \in a[c]}
    BY DEF Grown
  <2> QED BY <1>1, <2>1
<1>3. ASSUME NEW c \in Chans, NEW u \in Nicks
      PROVE  n.modes[c][u] \subseteq k.modes[c][u] /\ k.modes[c][u] \subseteq l.modes[c][u]
  BY DEF Grown
<1>4. ASSUME NEW c \in Chans, NEW j \in Both(a, b)[c]
      PROVE  ToSet(j.modes) \subseteq l.modes[c][j.who]
  <2>1. CASE j \in b[c]
    BY <2>1 DEF Grown
  <2>2. CASE j \in a[c]
    <3>1. ToSet(j.modes) \subseteq k.modes[c][j.who]
      BY <2>2 DEF Grown
    <3>2. j.who \in Nicks
      BY <2>2 DEF JoinType
    <3> QED BY <1>3, <3>1, <3>2
  <2> QED BY <1>1, <2>1, <2>2
<1>5. /\ l.me = n.me /\ l.connected = n.connected /\ l.chans = n.chans /\ n.users \subseteq l.users
      /\ \A c \in Chans, u \in Nicks : n.modes[c][u] \subseteq l.modes[c][u]
  BY <1>3 DEF Grown
<1> QED BY <1>2, <1>4, <1>5 DEF Grown

\* The joins of a list can be shown: nobody among them has quit, nobody has several modes.
Joinable(n, c, list) ==
  /\ list \in Seq(JoinType) /\ Whos(list) \subseteq n.users
  /\ \A i \in 1 .. Len(list) : Len(list[i].modes) <= 1
  /\ list # << >> => c \in n.chans

AddSteps(n, c, list) == [i \in 1 .. Len(list) |-> [d \in GrownGood(n) |-> AddOne(d, c, list[i])]]

LEMMA AddStep ==
  ASSUME NEW n, NEW c \in n.chans, NEW list, Joinable(n, c, list),
         NEW i \in 1 .. Len(list), NEW d \in GrownGood(n)
  PROVE  LET k == AddOne(d, c, list[i])
         IN  k \in GrownGood(n) /\ Grown(d, Only(c, {list[i]}), k)
<1> DEFINE j == list[i]
           k == AddOne(d, c, j)
<1>1. j \in JoinType /\ j.who \in n.users /\ Len(j.modes) <= 1
  BY ListFacts DEF Joinable, Whos
<1> HIDE DEF j
<1>2. Good(d) /\ c \in d.chans /\ j.who \in d.users
  BY <1>1 DEF GrownGood
<1>3. Good(k) /\ Grown(d, Only(c, {j}), k)
  BY <1>1, <1>2, OneAdded
<1>4. k \in GrownGood(n)
  <2> HIDE DEF k
  <2> QED BY <1>3 DEF GrownGood, Grown, Good
<1> QED BY <1>3, <1>4 DEF j, k

LEMMA AddTable ==
  ASSUME NEW n, Good(n), NEW c \in n.chans, NEW list, Joinable(n, c, list)
  PROVE  \E h : /\ Fills(h, 1 .. Len(list), n, Highest(Len(list)), AddSteps(n, c, list))
                /\ AddAll(n, c, list) = h[1 .. Len(list)]
<1> DEFINE N == Len(list)
           S == 1 .. N
           D == GrownGood(n)
           step == AddSteps(n, c, list)
           Sol(h) == h = [s \in SUBSET S |-> IF s = {} THEN n ELSE AddOne(h[s \ {Max(s)}], c, list[Max(s)])]
           iter == CHOOSE h : Sol(h)
<1>1. N \in Nat /\ DOMAIN list = S
  BY ListFacts DEF Joinable
<1>2. AddAll(n, c, list) = iter[S]
  BY <1>1 DEF AddAll, FoldLeft, MapThenFoldSet
<1>3. step \in [S -> [D -> D]] /\ \A i \in S, d \in D : step[i][d] = AddOne(d, c, list[i])
  BY AddStep DEF AddSteps
<1>4. IsFiniteSet(S) /\ Picks(Highest(N), S) /\ \A s \in SUBSET S : Highest(N)[s] = Max(s)
  BY <1>1, HighestPicks DEF Highest
<1>5. n \in D
  BY DEF GrownGood, Good
<1> HIDE DEF step, N, S, D
<1>6. PICK h \in [SUBSET S -> D] : Fills(h, S, n, Highest(N), step)
  BY <1>3, <1>4, <1>5, FoldFills
<1>7. Sol(h)
  <2>1. ASSUME NEW s \in SUBSET S, s # {}
        PROVE  h[s] = AddOne(h[s \ {Max(s)}], c, list[Max(s)])
    <3>1. Max(s) \in S /\ h[s \ {Max(s)}] \in D
      BY <1>4, <2>1 DEF Picks
    <3>2. h[s] = step[Max(s)][h[s \ {Max(s)}]]
      BY <1>4, <1>6, <2>1 DEF Fills
    <3> QED BY <1>3, <3>1, <3>2
  <2>2. h[{}] = n
    BY <1>6 DEF Fills
  <2> QED BY <2>1, <2>2
<1>8. Sol(iter)
  <2> HIDE DEF Sol
  <2> QED BY <1>7
<1> HIDE DEF iter
<1>9. Fills(iter, S, n, Highest(N), step)
  <2>1. iter[{}] = n
    BY <1>8
  <2>2. ASSUME NEW s \in SUBSET S, s # {}, iter[s \ {Highest(N)[s]}] \in D
        PROVE  iter[s] = step[Highest(N)[s]][iter[s \ {Highest(N)[s]}]]
    <3>1. Max(s) \in S /\ iter[s \ {Max(s)}] \in D /\ Highest(N)[s] = Max(s)
      BY <1>4, <2>2 DEF Picks
    <3>2. iter[s] = AddOne(iter[s \ {Max(s)}], c, list[Max(s)])
      BY <1>8, <2>2
    <3> QED BY <1>3, <3>1, <3>2
  <2>3. FillsWithin(iter, S, D, Highest(N), step)
    BY <2>2 DEF FillsWithin
  <2> QED BY <1>3, <1>4, <1>5, <2>1, <2>3, FoldIs
<1> QED BY <1>2, <1>9 DEF S, N, step

LEMMA AllAdded ==
  ASSUME NEW n, Good(n), NEW c \in n.chans, NEW list, Joinable(n, c, list)
  PROVE  LET k == AddAll(n, c, list) IN k \in GrownGood(n) /\ Grown(n, Only(c, ToSet(list)), k)
<1> DEFINE N == Len(list)
           S == 1 .. N
           D == GrownGood(n)
           step == AddSteps(n, c, list)
           Taken(s) == {list[i] : i \in s}
           I == {x \in (SUBSET S) \X D : Grown(n, Only(c, Taken(x[1])), x[2])}
<1>1. N \in Nat /\ DOMAIN list = S /\ \A i \in S : list[i] \in JoinType
  BY ListFacts DEF Joinable
<1>2. PICK h : Fills(h, S, n, Highest(N), step) /\ AddAll(n, c, list) = h[S]
  BY AddTable
<1>3. \A i \in S, d \in D : step[i][d] = AddOne(d, c, list[i])
  BY DEF AddSteps
<1>4. <<{}, n>> \in I
  <2>1. \A d \in Chans : Only(c, Taken({}))[d] = {}
    BY DEF Only
  <2>2. n \in D
    BY DEF GrownGood, Good
  <2>3. Grown(n, Only(c, Taken({})), n)
    BY <2>1 DEF Grown
  <2> HIDE DEF Taken, D
  <2> QED BY <2>2, <2>3
<1>5. ASSUME NEW s \in SUBSET S, NEW d, s # {}, <<s \ {Highest(N)[s]}, d>> \in I
      PROVE  <<s, step[Highest(N)[s]][d]>> \in I
  <2> DEFINE i == Highest(N)[s]
             k == AddOne(d, c, list[i])
             a == Only(c, Taken(s \ {i}))
             b == Only(c, {list[i]})
  <2>1. i \in s /\ i \in S
    BY <1>1, <1>5, HighestPicks DEF Picks
  <2>2. d \in D /\ Grown(n, a, d)
    <3> HIDE DEF D
    <3> QED BY <1>5
  <2> HIDE DEF i
  <2>3. k \in D /\ Grown(d, b, k) /\ step[i][d] = k
    BY <1>3, <2>1, <2>2, AddStep
  <2>4. a \in [Chans -> SUBSET JoinType] /\ b \in [Chans -> SUBSET JoinType]
    BY <1>1, <2>1 DEF Only
  <2>5. Both(a, b) = Only(c, Taken(s))
    <3>1. Taken(s) = Taken(s \ {i}) \union {list[i]}
      BY <2>1
    <3> HIDE DEF Taken
    <3> QED BY <3>1 DEF Both, Only
  <2> HIDE DEF a, b, k
  <2>6. Grown(n, Only(c, Taken(s)), k)
    <3> HIDE DEF Taken, D
    <3>1. Grown(n, Both(a, b), k)
      BY <2>2, <2>3, <2>4, GrownTwice
    <3> QED BY <2>5, <3>1
  <2>7. <<s, k>> \in I
    <3> HIDE DEF Taken, D
    <3> QED BY <2>3, <2>6
  <2> HIDE DEF I, D, S
  <2> QED BY <2>3, <2>7 DEF i
<1>6. <<S, h[S]>> \in I
  <2>1. Carries(I, S, Highest(N), step)
    <3> HIDE DEF I, step
    <3> QED BY <1>5 DEF Carries
  <2>2. IsFiniteSet(S) /\ Picks(Highest(N), S)
    BY <1>1, HighestPicks
  <2> HIDE DEF I, step, S
  <2> QED BY <1>2, <1>4, <2>1, <2>2, FoldKeeps
<1>7. h[S] \in D /\ Grown(n, Only(c, Taken(S)), h[S])
  <2> HIDE DEF Taken, D
  <2> QED BY <1>6
<1>8. Taken(S) = ToSet(list)
  BY <1>1 DEF ToSet
<1> HIDE DEF Taken, D, S
<1> QED BY <1>2, <1>7, <1>8 DEF D

JoinedTo(n, c, list) == IF c \in n.chans THEN AddAll(n, c, list) ELSE n

LEMMA EntriesAsTheyAre ==
  ASSUME NEW list \in Seq(JoinType)
  PROVE  /\ Len([i \in DOMAIN list |-> list[i].modes]) = Len(list)
         /\ [i \in DOMAIN list |-> [who |-> list[i].who, modes |-> [j \in DOMAIN list |-> list[j].modes][i]]]
              = list
<1>1. Len(list) \in Nat /\ DOMAIN list = 1 .. Len(list) /\ \A i \in 1 .. Len(list) : list[i] \in JoinType
  BY ListFacts
<1> DEFINE ms == [i \in DOMAIN list |-> list[i].modes]
           js == [i \in DOMAIN list |-> [who |-> list[i].who, modes |-> ms[i]]]
<1>2. Len(ms) = Len(list)
  BY <1>1
<1>3. \A i \in 1 .. Len(list) : [who |-> list[i].who, modes |-> list[i].modes] = list[i]
  BY <1>1 DEF JoinType
<1>4. \A i \in 1 .. Len(list) : js[i] = list[i]
  BY <1>1, <1>3
<1>5. js = list
  <2>1. js = [i \in 1 .. Len(list) |-> js[i]] /\ list = [i \in 1 .. Len(list) |-> list[i]]
    BY <1>1
  <2> HIDE DEF js
  <2> QED BY <1>4, <2>1
<1> QED BY <1>2, <1>5

LEMMA JoinAllAdds ==
  ASSUME NEW n, NEW c, NEW list \in Seq(JoinType)
  PROVE  JoinAll(n, c, list, [i \in DOMAIN list |-> list[i].modes]) = JoinedTo(n, c, list)
BY EntriesAsTheyAre DEF JoinAll, JoinedTo, AddAll, AddOne

LEMMA BothJoinsAdd ==
  ASSUME NEW n, Good(n), NEW c \in Chans, NEW list, Joinable(n, c, list)
  PROVE  /\ HandleNetsplitJoin(n, c, list) = JoinedTo(n, c, list)
         /\ HandleEarlyNetsplitJoin(n, c, list) = JoinedTo(n, c, list)
<1>1. list \in Seq(JoinType) /\ Whos(list) \subseteq n.users
  BY DEF Joinable
<1>2. HandleNetsplitJoin(n, c, list) = JoinAll(n, c, list, [i \in DOMAIN list |-> list[i].modes])
  BY <1>1, AllKept, AllModesLeft DEF HandleNetsplitJoin
<1>3. {list[i].who : i \in DOMAIN list} = Whos(list)
  BY <1>1, ListFacts DEF Whos
<1>4. [n EXCEPT !.users = @ \union {list[i].who : i \in DOMAIN list}] = n
  <2>1. n.users \union {list[i].who : i \in DOMAIN list} = n.users
    BY <1>1, <1>3
  <2> QED BY <2>1 DEF Good, NetType
<1>5. HandleEarlyNetsplitJoin(n, c, list) = JoinAll(n, c, list, [i \in DOMAIN list |-> list[i].modes])
  BY <1>4 DEF HandleEarlyNetsplitJoin
<1> QED BY <1>1, <1>2, <1>5, JoinAllAdds

LEMMA ShownOn ==
  ASSUME NEW n, Good(n), NEW c \in Chans, NEW list, Joinable(n, c, list)
  PROVE  LET k == JoinedTo(n, c, list) IN k \in GrownGood(n) /\ Grown(n, Only(c, ToSet(list)), k)
<1>1. CASE c \in n.chans
  BY <1>1, AllAdded DEF JoinedTo
<1>2. CASE c \notin n.chans
  <2>1. list = << >>
    BY <1>2 DEF Joinable
  <2>2. ToSet(list) = {}
    BY <2>1 DEF ToSet
  <2>3. \A d \in Chans : Only(c, ToSet(list))[d] = {}
    BY <2>2 DEF Only
  <2>4. Grown(n, Only(c, ToSet(list)), n)
    BY <2>3 DEF Grown
  <2> QED BY <1>2, <2>4 DEF JoinedTo, GrownGood, Good
<1> QED BY <1>1, <1>2

ShowSteps(n, s) == [c \in Chans |-> [d \in GrownGood(n) |-> JoinedTo(d, c, s.joins[c])]]

LEMMA ShowStep ==
  ASSUME NEW n, NEW s, \A c \in Chans : Joinable(n, c, s.joins[c]),
         NEW c \in Chans, NEW d \in GrownGood(n)
  PROVE  LET k == JoinedTo(d, c, s.joins[c])
         IN  /\ k \in GrownGood(n) /\ Grown(d, Only(c, ToSet(s.joins[c])), k)
             /\ HandleNetsplitJoin(d, c, s.joins[c]) = k
             /\ HandleEarlyNetsplitJoin(d, c, s.joins[c]) = k
<1> DEFINE list == s.joins[c]
           k == JoinedTo(d, c, list)
<1>1. Joinable(n, c, list)
  OBVIOUS
<1> HIDE DEF list
<1>2. Good(d) /\ Joinable(d, c, list)
  BY <1>1 DEF Joinable, GrownGood
<1>3. k \in GrownGood(d) /\ Grown(d, Only(c, ToSet(list)), k)
  BY <1>2, ShownOn
<1>4. k \in GrownGood(n)
  <2> HIDE DEF k
  <2> QED BY <1>3 DEF GrownGood
<1> QED BY <1>2, <1>3, <1>4, BothJoinsAdd DEF list, k

LEMMA HandleNetsplitJoinTable ==
  ASSUME NEW n, Good(n), NEW s, \A c \in Chans : Joinable(n, c, s.joins[c])
  PROVE  \E h : /\ Fills(h, Chans, n, Chosen(Chans), ShowSteps(n, s))
                /\ JoinEverywhere(n, s, HandleNetsplitJoin) = h[Chans]
<1> DEFINE P(cs) == CHOOSE x \in cs : TRUE
           D == GrownGood(n)
           step == ShowSteps(n, s)
           Sol(h) == h = [cs \in SUBSET Chans |->
                            IF cs = {} THEN n ELSE HandleNetsplitJoin(h[cs \ {P(cs)}], P(cs), s.joins[P(cs)])]
           iter == CHOOSE h : Sol(h)
<1>1. JoinEverywhere(n, s, HandleNetsplitJoin) = iter[Chans]
  BY DEF JoinEverywhere, FoldSet, MapThenFoldSet
<1>2. \A cs \in SUBSET Chans : Chosen(Chans)[cs] = P(cs) /\ (cs # {} => P(cs) \in cs)
  BY DEF Chosen
<1> HIDE DEF P
<1>3. /\ step \in [Chans -> [D -> D]]
      /\ \A c \in Chans, d \in D : step[c][d] = HandleNetsplitJoin(d, c, s.joins[c])
  BY ShowStep DEF ShowSteps
<1>4. n \in D /\ IsFiniteSet(Chans)
  BY NetsplitAssumption DEF GrownGood, Good
<1> HIDE DEF D, step
<1>5. PICK h \in [SUBSET Chans -> D] : Fills(h, Chans, n, Chosen(Chans), step)
  BY <1>3, <1>4, ChosenPicks, FoldFills
<1>6. Sol(h)
  <2>1. ASSUME NEW cs \in SUBSET Chans, cs # {}
        PROVE  h[cs] = HandleNetsplitJoin(h[cs \ {P(cs)}], P(cs), s.joins[P(cs)])
    <3>1. P(cs) \in Chans /\ h[cs \ {P(cs)}] \in D
      BY <1>2, <2>1
    <3>2. h[cs] = step[P(cs)][h[cs \ {P(cs)}]]
      BY <1>2, <1>5, <2>1 DEF Fills
    <3> QED BY <1>3, <3>1, <3>2
  <2>2. h[{}] = n
    BY <1>5 DEF Fills
  <2> QED BY <2>1, <2>2
<1>7. Sol(iter)
  <2> HIDE DEF Sol
  <2> QED BY <1>6
<1> HIDE DEF iter
<1>8. Fills(iter, Chans, n, Chosen(Chans), step)
  <2>1. iter[{}] = n
    BY <1>7
  <2>2. ASSUME NEW cs \in SUBSET Chans, cs # {}, iter[cs \ {Chosen(Chans)[cs]}] \in D
        PROVE  iter[cs] = step[Chosen(Chans)[cs]][iter[cs \ {Chosen(Chans)[cs]}]]
    <3>1. P(cs) \in Chans /\ iter[cs \ {P(cs)}] \in D /\ Chosen(Chans)[cs] = P(cs)
      BY <1>2, <2>2
    <3>2. iter[cs] = HandleNetsplitJoin(iter[cs \ {P(cs)}], P(cs), s.joins[P(cs)])
      BY <1>7, <2>2
    <3> QED BY <1>3, <3>1, <3>2
  <2>3. FillsWithin(iter, Chans, D, Chosen(Chans), step)
    BY <2>2 DEF FillsWithin
  <2> QED BY <1>3, <1>4, <2>1, <2>3, ChosenPicks, FoldIs
<1> QED BY <1>1, <1>8 DEF step

LEMMA HandleEarlyNetsplitJoinTable ==
  ASSUME NEW n, Good(n), NEW s, \A c \in Chans : Joinable(n, c, s.joins[c])
  PROVE  \E h : /\ Fills(h, Chans, n, Chosen(Chans), ShowSteps(n, s))
                /\ JoinEverywhere(n, s, HandleEarlyNetsplitJoin) = h[Chans]
<1> DEFINE P(cs) == CHOOSE x \in cs : TRUE
           D == GrownGood(n)
           step == ShowSteps(n, s)
           Sol(h) == h = [cs \in SUBSET Chans |->
                            IF cs = {} THEN n ELSE HandleEarlyNetsplitJoin(h[cs \ {P(cs)}], P(cs), s.joins[P(cs)])]
           iter == CHOOSE h : Sol(h)
<1>1. JoinEverywhere(n, s, HandleEarlyNetsplitJoin) = iter[Chans]
  BY DEF JoinEverywhere, FoldSet, MapThenFoldSet
<1>2. \A cs \in SUBSET Chans : Chosen(Chans)[cs] = P(cs) /\ (cs # {} => P(cs) \in cs)
  BY DEF Chosen
<1> HIDE DEF P
<1>3. /\ step \in [Chans -> [D -> D]]
      /\ \A c \in Chans, d \in D : step[c][d] = HandleEarlyNetsplitJoin(d, c, s.joins[c])
  BY ShowStep DEF ShowSteps
<1>4. n \in D /\ IsFiniteSet(Chans)
  BY NetsplitAssumption DEF GrownGood, Good
<1> HIDE DEF D, step
<1>5. PICK h \in [SUBSET Chans -> D] : Fills(h, Chans, n, Chosen(Chans), step)
  BY <1>3, <1>4, ChosenPicks, FoldFills
<1>6. Sol(h)
  <2>1. ASSUME NEW cs \in SUBSET Chans, cs # {}
        PROVE  h[cs] = HandleEarlyNetsplitJoin(h[cs \ {P(cs)}], P(cs), s.joins[P(cs)])
    <3>1. P(cs) \in Chans /\ h[cs \ {P(cs)}] \in D
      BY <1>2, <2>1
    <3>2. h[cs] = step[P(cs)][h[cs \ {P(cs)}]]
      BY <1>2, <1>5, <2>1 DEF Fills
    <3> QED BY <1>3, <3>1, <3>2
  <2>2. h[{}] = n
    BY <1>5 DEF Fills
  <2> QED BY <2>1, <2>2
<1>7. Sol(iter)
  <2> HIDE DEF Sol
  <2> QED BY <1>6
<1> HIDE DEF iter
<1>8. Fills(iter, Chans, n, Chosen(Chans), step)
  <2>1. iter[{}] = n
    BY <1>7
  <2>2. ASSUME NEW cs \in SUBSET Chans, cs # {}, iter[cs \ {Chosen(Chans)[cs]}] \in D
        PROVE  iter[cs] = step[Chosen(Chans)[cs]][iter[cs \ {Chosen(Chans)[cs]}]]
    <3>1. P(cs) \in Chans /\ iter[cs \ {P(cs)}] \in D /\ Chosen(Chans)[cs] = P(cs)
      BY <1>2, <2>2
    <3>2. iter[cs] = HandleEarlyNetsplitJoin(iter[cs \ {P(cs)}], P(cs), s.joins[P(cs)])
      BY <1>7, <2>2
    <3> QED BY <1>3, <3>1, <3>2
  <2>3. FillsWithin(iter, Chans, D, Chosen(Chans), step)
    BY <2>2 DEF FillsWithin
  <2> QED BY <1>3, <1>4, <2>1, <2>3, ChosenPicks, FoldIs
<1> QED BY <1>1, <1>8 DEF step

Entries(s) == [c \in Chans |-> ToSet(s.joins[c])]

LEMMA AllShown ==
  ASSUME NEW n, Good(n), NEW s, \A c \in Chans : Joinable(n, c, s.joins[c]),
         NEW k, k = JoinEverywhere(n, s, HandleNetsplitJoin)
                \/ k = JoinEverywhere(n, s, HandleEarlyNetsplitJoin)
  PROVE  k \in GrownGood(n) /\ Grown(n, Entries(s), k)
<1> DEFINE D == GrownGood(n)
           step == ShowSteps(n, s)
           pick == Chosen(Chans)
           For(cs) == [c \in Chans |-> IF c \in cs THEN ToSet(s.joins[c]) ELSE {}]
           I == {x \in (SUBSET Chans) \X D : Grown(n, For(x[1]), x[2])}
<1>1. PICK h : Fills(h, Chans, n, pick, step) /\ k = h[Chans]
  BY HandleNetsplitJoinTable, HandleEarlyNetsplitJoinTable
<1>2. \A c \in Chans, d \in D : step[c][d] = JoinedTo(d, c, s.joins[c])
  BY DEF ShowSteps
<1>3. \A c \in Chans : ToSet(s.joins[c]) \in SUBSET JoinType
  BY ListFacts DEF Joinable, ToSet
<1>4. <<{}, n>> \in I
  <2>1. \A c \in Chans : For({})[c] = {}
    OBVIOUS
  <2>2. n \in D
    BY DEF GrownGood, Good
  <2> HIDE DEF For, D
  <2>3. Grown(n, For({}), n)
    BY <2>1 DEF Grown
  <2> QED BY <2>2, <2>3
<1>5. ASSUME NEW cs \in SUBSET Chans, NEW d, cs # {}, <<cs \ {pick[cs]}, d>> \in I
      PROVE  <<cs, step[pick[cs]][d]>> \in I
  <2> DEFINE c == pick[cs]
             l == JoinedTo(d, c, s.joins[c])
             a == For(cs \ {c})
             b == Only(c, ToSet(s.joins[c]))
  <2>1. c \in cs
    BY <1>5, ChosenPicks DEF Picks
  <2>2. d \in D /\ Grown(n, a, d)
    <3> HIDE DEF D, For
    <3> QED BY <1>5
  <2> HIDE DEF c
  <2>3. l \in D /\ Grown(d, b, l) /\ step[c][d] = l
    BY <1>2, <2>1, <2>2, ShowStep
  <2>4. a \in [Chans -> SUBSET JoinType] /\ b \in [Chans -> SUBSET JoinType]
    BY <1>3, <2>1 DEF Only
  <2>5. Both(a, b) = For(cs)
    BY <2>1 DEF Both, Only
  <2> HIDE DEF a, b, l, For, D
  <2>6. Grown(n, For(cs), l)
    <3>1. Grown(n, Both(a, b), l)
      BY <2>2, <2>3, <2>4, GrownTwice
    <3> QED BY <2>5, <3>1
  <2>7. <<cs, l>> \in I
    BY <2>3, <2>6
  <2> HIDE DEF I
  <2> QED BY <2>3, <2>7 DEF c
<1>6. <<Chans, h[Chans]>> \in I
  <2>1. Carries(I, Chans, pick, step)
    <3> HIDE DEF I, step, pick
    <3> QED BY <1>5 DEF Carries
  <2>2. IsFiniteSet(Chans) /\ Picks(pick, Chans)
    BY NetsplitAssumption, ChosenPicks
  <2> HIDE DEF I, step, pick
  <2> QED BY <1>1, <1>4, <2>1, <2>2, FoldKeeps
<1>7. For(Chans) = Entries(s)
  BY DEF Entries
<1> HIDE DEF For
<1>8. h[Chans] \in D /\ Grown(n, For(Chans), h[Chans])
  <2> HIDE DEF D
  <2> QED BY <1>6
<1> QED BY <1>1, <1>7, <1>8

-----------------------------------------------------------------------------
(* Lists *)

LEMMA MinOf ==
  ASSUME NEW s \in SUBSET Nat, s # {}
  PROVE  Min(s) \in s /\ \A y \in s : Min(s) <= y
<1>1. PICK n \in s : \A m \in s : ~(<<m, n>> \in OpToRel(<, Nat))
  BY NatLessThanWellFounded, WFMin
<1>2. ASSUME NEW m \in s PROVE n <= m
  <2>1. n \in Nat /\ m \in Nat
    OBVIOUS
  <2>2. ~(<<m, n>> \in OpToRel(<, Nat))
    BY <1>1
  <2>3. m < n => <<m, n>> \in OpToRel(<, Nat)
    BY <2>1 DEF OpToRel
  <2>4. ~(m < n)
    BY <2>2, <2>3
  <2> QED BY <2>1, <2>4
<1> QED BY <1>2 DEF Min

LEMMA IndexOfIs ==
  ASSUME NEW list \in Seq(JoinType), NEW u
  PROVE  /\ IndexOf(list, u) # 0 <=> u \in Whos(list)
         /\ u \in Whos(list) => /\ IndexOf(list, u) \in 1 .. Len(list)
                                /\ list[IndexOf(list, u)].who = u
<1> DEFINE I == {i \in 1 .. Len(list) : list[i].who = u}
<1>1. IndexOf(list, u) = IF I # {} THEN Min(I) ELSE 0
  BY DEF IndexOf, SelectInSeq
<1>2. I # {} => Min(I) \in I
  <2>1. I \in SUBSET Nat
    BY ListFacts
  <2> HIDE DEF I
  <2> QED BY <2>1, MinOf
<1>3. I # {} <=> u \in Whos(list)
  BY DEF Whos
<1>4. 0 \notin 1 .. Len(list)
  BY ListFacts
<1> QED BY <1>1, <1>2, <1>3, <1>4

LEMMA Appended ==
  ASSUME NEW T, NEW list \in Seq(T), NEW x \in T
  PROVE  LET l == Append(list, x)
         IN  /\ l \in Seq(T) /\ Len(l) = Len(list) + 1
             /\ \A i \in 1 .. Len(list) : l[i] = list[i]
             /\ l[Len(list) + 1] = x
             /\ ToSet(l) = ToSet(list) \union {x}
<1> DEFINE l == Append(list, x)
           N == Len(list)
<1>1. /\ l \in Seq(T) /\ Len(l) = N + 1 /\ N \in Nat
      /\ (\A i \in 1 .. N : l[i] = list[i]) /\ l[N + 1] = x
  BY AppendProperties, ListFacts
<1>2. DOMAIN l = 1 .. N + 1 /\ DOMAIN list = 1 .. N
  BY <1>1, ListFacts
<1>3. 1 .. N + 1 = (1 .. N) \union {N + 1}
  BY <1>1
<1> HIDE DEF l, N
<1>4. ToSet(l) = ToSet(list) \union {x}
  <2>1. ToSet(l) = {l[i] : i \in (1 .. N) \union {N + 1}} /\ ToSet(list) = {list[i] : i \in 1 .. N}
    BY <1>2, <1>3 DEF ToSet
  <2> QED BY <1>1, <2>1
<1> QED BY <1>1, <1>4 DEF l, N

LEMMA WithoutFirst ==
  ASSUME NEW T, NEW list \in Seq(T), NEW x
  PROVE  LET l == RemoveFirst(list, x)
         IN  l \in Seq(T) /\ ToSet(l) \subseteq ToSet(list) /\ ToSet(list) \ {x} \subseteq ToSet(l)
<1> DEFINE N == Len(list)
           I == {i \in 1 .. N : list[i] = x}
           l == RemoveFirst(list, x)
<1>1. N \in Nat /\ DOMAIN list = 1 .. N /\ \A i \in 1 .. N : list[i] \in T
  BY ListFacts
<1>2. CASE I = {}
  <2>1. l = list
    BY <1>2 DEF RemoveFirst
  <2> QED BY <2>1
<1>3. CASE I # {}
  <2> DEFINE k == Min(I)
             a == SubSeq(list, 1, k - 1)
             b == SubSeq(list, k + 1, N)
  <2>1. l = a \o b
    BY <1>3 DEF RemoveFirst, RemoveAt, SelectInSeq
  <2>2. k \in 1 .. N /\ list[k] = x
    <3>1. I \in SUBSET Nat
      OBVIOUS
    <3>2. k \in I
      <4> HIDE DEF I
      <4> QED BY <1>3, <3>1, MinOf
    <3> QED BY <3>2
  <2> HIDE DEF k, I
  <2>3. a \in Seq(T) /\ Len(a) = k - 1 /\ \A i \in 1 .. k - 1 : a[i] = list[i]
    BY <1>1, <2>2
  <2>4. b \in Seq(T) /\ Len(b) = N - k /\ \A i \in 1 .. N - k : b[i] = list[k + i]
    <3>1. k + 1 \in Int /\ N \in Int /\ \A i \in k + 1 .. N : list[i] \in T
      BY <1>1, <2>2
    <3>2. /\ b \in Seq(T) /\ Len(b) = IF k + 1 <= N THEN N - (k + 1) + 1 ELSE 0
          /\ \A i \in 1 .. N - (k + 1) + 1 : b[i] = list[(k + 1) + i - 1]
      <4> HIDE DEF N
      <4> QED BY <3>1, SubSeqProperties
    <3>3. Len(b) = N - k /\ 1 .. N - (k + 1) + 1 = 1 .. N - k
      <4>1. N - (k + 1) + 1 = N - k /\ (~(k + 1 <= N) => N - k = 0)
        <5>1. N \in Nat /\ k \in 1 .. N
          BY <1>1, <2>2
        <5> HIDE DEF N
        <5>2. k \in Int /\ N \in Int /\ k <= N
          BY <5>1
        <5> QED BY <5>2
      <4> HIDE DEF b, N
      <4> QED BY <3>2, <4>1
    <3>4. \A i \in 1 .. N - k : (k + 1) + i - 1 = k + i
      BY <1>1, <2>2
    <3> HIDE DEF b, N
    <3> QED BY <3>2, <3>3, <3>4
  <2> HIDE DEF a, b, N
  <2>5. /\ a \o b \in Seq(T) /\ Len(a \o b) = N - 1
        /\ \A i \in 1 .. N - 1 : (a \o b)[i] = IF i <= k - 1 THEN a[i] ELSE b[i - (k - 1)]
    <3>1. /\ a \o b \in Seq(T) /\ Len(a \o b) = (k - 1) + (N - k)
          /\ \A i \in 1 .. (k - 1) + (N - k) : (a \o b)[i] = IF i <= k - 1 THEN a[i] ELSE b[i - (k - 1)]
      <4>1. /\ a \o b \in Seq(T) /\ Len(a \o b) = Len(a) + Len(b)
            /\ \A i \in 1 .. Len(a) + Len(b) : (a \o b)[i] = IF i <= Len(a) THEN a[i] ELSE b[i - Len(a)]
        BY <2>3, <2>4, ConcatProperties
      <4> QED BY <2>3, <2>4, <4>1
    <3>2. (k - 1) + (N - k) = N - 1
      BY <1>1, <2>2
    <3> QED BY <3>1, <3>2
  <2>6. DOMAIN (a \o b) = 1 .. N - 1
    BY <2>5, ListFacts
  <2>7. ASSUME NEW i \in 1 .. N - 1 PROVE (a \o b)[i] \in ToSet(list)
    <3>1. CASE i <= k - 1
      <4>1. (a \o b)[i] = list[i] /\ i \in 1 .. N
        BY <1>1, <2>2, <2>3, <2>5, <3>1
      <4> QED BY <1>1, <4>1 DEF ToSet
    <3>2. CASE ~(i <= k - 1)
      <4>1. (a \o b)[i] = b[i - (k - 1)]
        BY <2>5, <3>2
      <4>2. i - (k - 1) \in 1 .. N - k /\ i + 1 \in 1 .. N /\ k + (i - (k - 1)) = i + 1
        BY <1>1, <2>2, <3>2
      <4>3. b[i - (k - 1)] = list[i + 1]
        BY <2>4, <4>2
      <4> QED BY <1>1, <4>1, <4>2, <4>3 DEF ToSet
    <3> QED BY <3>1, <3>2
  <2>8. ASSUME NEW i \in 1 .. N, list[i] # x PROVE list[i] \in ToSet(a \o b)
    <3>1. CASE i <= k - 1
      <4>1. (a \o b)[i] = list[i] /\ i \in 1 .. N - 1
        BY <1>1, <2>2, <2>3, <2>5, <3>1
      <4> QED BY <2>6, <4>1 DEF ToSet
    <3>2. CASE ~(i <= k - 1)
      <4>0. i # k
        BY <2>2, <2>8
      <4>1. i - k \in 1 .. N - k /\ i - 1 \in 1 .. N - 1 /\ ~(i - 1 <= k - 1)
            /\ (i - 1) - (k - 1) = i - k /\ k + (i - k) = i
        BY <1>1, <2>2, <3>2, <4>0
      <4>2. (a \o b)[i - 1] = b[i - k]
        BY <2>5, <4>1
      <4>3. b[i - k] = list[i]
        BY <2>4, <4>1
      <4> QED BY <2>6, <4>1, <4>2, <4>3 DEF ToSet
    <3> QED BY <3>1, <3>2
  <2>9. ToSet(a \o b) = {(a \o b)[i] : i \in 1 .. N - 1} /\ ToSet(list) = {list[i] : i \in 1 .. N}
    BY <1>1, <2>6 DEF ToSet
  <2>10. ToSet(a \o b) \subseteq ToSet(list) /\ ToSet(list) \ {x} \subseteq ToSet(a \o b)
    BY <2>7, <2>8, <2>9
  <2> HIDE DEF l
  <2> QED BY <2>1, <2>5, <2>10 DEF l
<1> QED BY <1>2, <1>3

-----------------------------------------------------------------------------
(* The invariant of the split *)

SplitType ==
  [alive : BOOLEAN, quits : [Chans -> Seq(Nicks)], joins : [Chans -> Seq(JoinType)],
   told : [Chans -> SUBSET Nicks], sentQuit : BOOLEAN, joinCounter : Nat, quitCounter : Nat,
   quitTimer : BOOLEAN, joinTimer : BOOLEAN]

\* The truth: only members have modes, and only where there are any.
Truth(M, O) ==
  /\ M \in [Chans -> SUBSET Nicks] /\ O \in [Chans -> SUBSET Nicks]
  /\ \A c \in Chans : O[c] \subseteq M[c] /\ (O[c] # {} => Modes # {})

\* An object only while there was a quit, a picture and a split only while connected.
Alive(n, s, M) ==
  /\ ~s.alive => s = NoSplit
  /\ n.connected => n.me \in Nicks
  /\ ~n.connected => n = Empty /\ s = NoSplit /\ \A c \in Chans : M[c] = {}

\* The core knows the channels it is on, and itself there.
Placed(n, M) ==
  \A c \in Chans : (c \in n.chans <=> n.me \in M[c]) /\ (n.me \in M[c] => n.me \in n.roster[c])

\* Who is missing is held back, and who is too many waits to be let go.
ListsDiffer(n, s, M) ==
  \A c \in n.chans : /\ M[c] \ n.roster[c] \subseteq Whos(s.joins[c])
                     /\ n.roster[c] \ M[c] \subseteq QuitsToSend(s)[c]

QuitsRight(n, s) ==
  \A c \in Chans : n.me \notin ToSet(s.quits[c]) /\ (QuitsToSend(s)[c] # {} => s.quitTimer)

\* A join is held back once, for a member the core knows.
JoinsRight(n, s, M) ==
  \A c \in Chans :
    /\ s.joins[c] # << >> => c \in n.chans /\ s.joinTimer
    /\ Whos(s.joins[c]) \subseteq (M[c] \intersect n.users) \ {n.me}
    /\ \A i, j \in 1 .. Len(s.joins[c]) : s.joins[c][i].who = s.joins[c][j].who => i = j

\* At most one mode waits with a join, and whoever was given one has it or has it waiting.
ModesRight(n, s, O) ==
  \A c \in Chans :
    /\ \A i \in 1 .. Len(s.joins[c]) :
         /\ Len(s.joins[c][i].modes) <= 1
         /\ s.joins[c][i].modes # << >> => s.joins[c][i].who \in O[c]
    /\ c \in n.chans => \A u \in O[c] :
         n.modes[c][u] # {} \/ \E i \in 1 .. Len(s.joins[c]) : s.joins[c][i].who = u /\ s.joins[c][i].modes # << >>

SplitGood(n, s, M, O) ==
  /\ Good(n) /\ s \in SplitType /\ Truth(M, O) /\ Alive(n, s, M) /\ Placed(n, M)
  /\ ListsDiffer(n, s, M) /\ QuitsRight(n, s) /\ JoinsRight(n, s, M) /\ ModesRight(n, s, O)

SplitInv == calm => SplitGood(net, split, members, ops)

LEMMA QuitsToSendIs ==
  \A s : \A c \in Chans : QuitsToSend(s)[c] = ToSet(s.quits[c]) \ s.told[c]
BY DEF QuitsToSend

LEMMA NoSplitIs ==
  /\ NoSplit \in SplitType
  /\ \A c \in Chans : /\ NoSplit.quits[c] = << >> /\ NoSplit.joins[c] = << >> /\ NoSplit.told[c] = {}
                      /\ QuitsToSend(NoSplit)[c] = {} /\ Whos(NoSplit.joins[c]) = {}
                      /\ Len(NoSplit.joins[c]) = 0 /\ ToSet(NoSplit.quits[c]) = {}
BY QuitsToSendIs DEF NoSplit, SplitType, ToSet, Whos

LEMMA EmptyOffline ==
  /\ Good(Empty) /\ Empty.chans = {} /\ Empty.connected = FALSE
  /\ \A c \in Chans : Empty.roster[c] = {}
BY EmptyIsGood DEF Empty

\* No split at all, and the lists are right.
LEMMA CleanSlate ==
  ASSUME NEW n, NEW M, NEW O, Good(n), Truth(M, O), Placed(n, M),
         n.connected => n.me \in Nicks, ~n.connected => n = Empty /\ \A c \in Chans : M[c] = {},
         \A c \in n.chans : M[c] = n.roster[c] /\ \A u \in O[c] : n.modes[c][u] # {}
  PROVE  SplitGood(n, NoSplit, M, O)
<1>1. n.chans \subseteq Chans
  BY DEF Good, NetType
<1>2. ListsDiffer(n, NoSplit, M)
  BY <1>1 DEF ListsDiffer
<1>3. QuitsRight(n, NoSplit)
  BY NoSplitIs DEF QuitsRight
<1>4. JoinsRight(n, NoSplit, M)
  BY NoSplitIs DEF JoinsRight
<1>5. ModesRight(n, NoSplit, O)
  BY NoSplitIs DEF ModesRight
<1>6. Alive(n, NoSplit, M)
  BY DEF Alive
<1> QED BY <1>2, <1>3, <1>4, <1>5, <1>6, NoSplitIs DEF SplitGood

LEMMA PresentAlways ==
  ASSUME NEW n, NEW s, NEW M, NEW O, SplitGood(n, s, M, O)
  PROVE  Present(n)
<1>1. \A c \in n.chans : c \in Chans
  BY DEF SplitGood, Good, NetType
<1> QED BY <1>1 DEF SplitGood, Placed, Present

\* A member whose join is not held back is listed.
LEMMA MemberListed ==
  ASSUME NEW n, NEW s, NEW M, NEW O, SplitGood(n, s, M, O), NEW c \in Chans, n.me \in M[c],
         NEW u \in M[c], u \notin Whos(s.joins[c])
  PROVE  u \in Nicks /\ c \in n.chans /\ u \in n.roster[c] /\ c \in n.on[u] /\ u \in n.users
<1>1. u \in Nicks
  BY DEF SplitGood, Truth
<1>2. c \in n.chans
  BY DEF SplitGood, Placed
<1>3. u \in n.roster[c]
  BY <1>2 DEF SplitGood, ListsDiffer
<1> QED BY <1>1, <1>2, <1>3 DEF SplitGood, Good, Agree, Known

Pends(s, u) == \E c \in Chans : u \in Whos(s.joins[c])

LEMMA PendingIs ==
  ASSUME NEW s \in SplitType
  PROVE  \A u : \A c \in Chans : UserAlreadyJoined(s, u, c) <=> u \in Whos(s.joins[c])
<1>1. \A c \in Chans : s.joins[c] \in Seq(JoinType)
  BY DEF SplitType
<1> QED BY <1>1, IndexOfIs DEF UserAlreadyJoined

Minus(M, u, cs) == [c \in Chans |-> IF c \in cs THEN M[c] \ {u} ELSE M[c]]

LEMMA TruthMinus ==
  ASSUME NEW M, NEW O, Truth(M, O), NEW u, NEW cs
  PROVE  Truth(Minus(M, u, cs), Minus(O, u, cs))
BY DEF Truth, Minus

-----------------------------------------------------------------------------
(* The server's lines keep the invariant *)

LEMMA RegisteredKeeps ==
  ASSUME NEW n, NEW s, NEW M, NEW O, SplitGood(n, s, M, O), NEW u \in Nicks, ~n.connected
  PROVE  SplitGood(Welcome(n, u), s, M, O)
<1> DEFINE k == Welcome(n, u)
<1>1. n = Empty /\ s = NoSplit /\ \A c \in Chans : M[c] = {}
  BY DEF SplitGood, Alive
<1>2. Good(k) /\ k.me = u /\ k.connected = TRUE /\ k.chans = {}
  <2>1. Good(k)
    BY WelcomeKeepsGood DEF SplitGood
  <2>2. n \in NetType /\ n.chans = {}
    BY <1>1, EmptyOffline DEF SplitGood, Good
  <2> QED BY <2>1, <2>2 DEF Welcome, SetMyNick, NewIrcUser, NetType
<1> HIDE DEF k
<1>3. Placed(k, M)
  BY <1>1, <1>2 DEF Placed
<1>4. SplitGood(k, NoSplit, M, O)
  BY <1>2, <1>3, CleanSlate DEF SplitGood
<1> QED BY <1>1, <1>4 DEF k

LEMMA SplitQuitKeeps ==
  ASSUME NEW n, NEW s, NEW M, NEW O, SplitGood(n, s, M, O), n.connected,
         NEW u \in Nicks, u # n.me, ~Pends(s, u), \A c \in Chans : u \notin s.told[c]
  PROVE  SplitGood(NewIrcUser(n, u), UserQuit(s, u, n.on[u]), Minus(M, u, Chans), Minus(O, u, Chans))
<1> DEFINE k == NewIrcUser(n, u)
           r == UserQuit(s, u, n.on[u])
           M2 == Minus(M, u, Chans)
           O2 == Minus(O, u, Chans)
<1>1. Good(k) /\ k = [n EXCEPT !.users = n.users \union {u}] /\ n \in NetType
  BY NewUserKeepsGood DEF SplitGood, Good, NewIrcUser
<1>2. /\ k.me = n.me /\ k.connected = n.connected /\ k.chans = n.chans /\ k.roster = n.roster
      /\ k.modes = n.modes /\ k.users = n.users \union {u}
  BY <1>1 DEF NetType
<1>3. s \in SplitType /\ \A c \in Chans : s.quits[c] \in Seq(Nicks) /\ s.joins[c] \in Seq(JoinType)
  BY DEF SplitGood, SplitType
<1>4. /\ r.alive = TRUE /\ r.joins = s.joins /\ r.told = s.told /\ r.quitTimer = TRUE
      /\ r.joinTimer = s.joinTimer
      /\ \A c \in Chans : r.quits[c] = IF c \in n.on[u] THEN Append(s.quits[c], u) ELSE s.quits[c]
  BY <1>3 DEF UserQuit, SplitType
<1>5. r \in SplitType
  <2> DEFINE q == [c \in Chans |-> IF c \in n.on[u] THEN Append(s.quits[c], u) ELSE s.quits[c]]
  <2>1. q \in [Chans -> Seq(Nicks)]
    BY <1>3
  <2>2. r = [s EXCEPT !.alive = TRUE, !.quits = q, !.quitCounter = s.quitCounter + 1, !.quitTimer = TRUE]
    BY <1>3 DEF UserQuit, SplitType
  <2>3. s.quitCounter + 1 \in Nat
    BY <1>3 DEF SplitType
  <2> HIDE DEF q, r
  <2> QED BY <1>3, <2>1, <2>2, <2>3 DEF SplitType
<1>6. \A c \in Chans : M2[c] = M[c] \ {u} /\ O2[c] = O[c] \ {u}
  BY DEF Minus
<1>7. Truth(M2, O2)
  BY TruthMinus DEF SplitGood
<1>8. ASSUME NEW c \in Chans
      PROVE  /\ ToSet(r.quits[c]) = IF c \in n.on[u] THEN ToSet(s.quits[c]) \union {u} ELSE ToSet(s.quits[c])
             /\ QuitsToSend(r)[c] = IF c \in n.on[u] THEN QuitsToSend(s)[c] \union {u} ELSE QuitsToSend(s)[c]
  <2> DEFINE q == s.quits[c]
  <2>1. q \in Seq(Nicks) /\ u \notin s.told[c] /\ r.told[c] = s.told[c]
        /\ r.quits[c] = IF c \in n.on[u] THEN Append(q, u) ELSE q
    <3> HIDE DEF r
    <3> QED BY <1>3, <1>4
  <2> HIDE DEF q, r
  <2>2. ToSet(Append(q, u)) = ToSet(q) \union {u}
    BY <2>1, Appended
  <2>3. ToSet(r.quits[c]) = IF c \in n.on[u] THEN ToSet(q) \union {u} ELSE ToSet(q)
    BY <2>1, <2>2
  <2>4. QuitsToSend(r)[c] = ToSet(r.quits[c]) \ r.told[c] /\ QuitsToSend(s)[c] = ToSet(q) \ s.told[c]
    BY QuitsToSendIs DEF q
  <2> QED BY <2>1, <2>3, <2>4 DEF q
<1>10. n.me \in Nicks
  BY DEF SplitGood, Alive
<1> HIDE DEF k, r, M2, O2
<1>11. Alive(k, r, M2)
  BY <1>2, <1>4, <1>10 DEF Alive
<1>12. Placed(k, M2)
  BY <1>2, <1>6 DEF Placed, SplitGood
<1>13. ListsDiffer(k, r, M2)
  <2> SUFFICES ASSUME NEW c \in n.chans
               PROVE  /\ M2[c] \ n.roster[c] \subseteq Whos(s.joins[c])
                      /\ n.roster[c] \ M2[c] \subseteq QuitsToSend(r)[c]
    BY <1>2, <1>4 DEF ListsDiffer
  <2>1. c \in Chans
    BY <1>1 DEF NetType
  <2>2. M[c] \ n.roster[c] \subseteq Whos(s.joins[c]) /\ n.roster[c] \ M[c] \subseteq QuitsToSend(s)[c]
    BY DEF SplitGood, ListsDiffer
  <2>3. u \in n.roster[c] <=> c \in n.on[u]
    BY <2>1 DEF SplitGood, Good, Agree
  <2> QED BY <1>6, <1>8, <2>1, <2>2, <2>3
<1>14. QuitsRight(k, r)
  <2> SUFFICES ASSUME NEW c \in Chans
               PROVE  n.me \notin ToSet(r.quits[c]) /\ (QuitsToSend(r)[c] # {} => r.quitTimer)
    BY <1>2 DEF QuitsRight
  <2>1. n.me \notin ToSet(s.quits[c])
    BY DEF QuitsRight, SplitGood
  <2> QED BY <1>4, <1>8, <2>1
<1>15. JoinsRight(k, r, M2)
  <2>1. \A c \in Chans : u \notin Whos(s.joins[c])
    BY DEF Pends
  <2> QED BY <1>2, <1>4, <1>6, <2>1 DEF JoinsRight, SplitGood
<1>16. ModesRight(k, r, O2)
  <2> SUFFICES ASSUME NEW c \in Chans
               PROVE  /\ \A i \in 1 .. Len(s.joins[c]) :
                           /\ Len(s.joins[c][i].modes) <= 1
                           /\ s.joins[c][i].modes # << >> => s.joins[c][i].who \in O2[c]
                      /\ c \in n.chans => \A v \in O2[c] :
                           \/ n.modes[c][v] # {}
                           \/ \E i \in 1 .. Len(s.joins[c]) : s.joins[c][i].who = v /\ s.joins[c][i].modes # << >>
    BY <1>2, <1>4 DEF ModesRight
  <2>1. \A i \in 1 .. Len(s.joins[c]) : s.joins[c][i].who # u
    BY DEF Pends, Whos
  <2> QED BY <1>6, <2>1 DEF SplitGood, ModesRight
<1> QED BY <1>1, <1>5, <1>7, <1>11, <1>12, <1>13, <1>14, <1>15, <1>16 DEF SplitGood, k, r, M2, O2

LEMMA OrdinaryQuitKeeps ==
  ASSUME NEW n, NEW s, NEW M, NEW O, SplitGood(n, s, M, O), n.connected,
         NEW u \in Nicks, u # n.me, ~Pends(s, u)
  PROVE  SplitGood(QuitLine(n, u), s, Minus(M, u, Chans), Minus(O, u, Chans))
<1> DEFINE k == QuitLine(n, u)
           l == NewIrcUser(n, u)
           M2 == Minus(M, u, Chans)
           O2 == Minus(O, u, Chans)
<1>1. Good(l) /\ l = [n EXCEPT !.users = n.users \union {u}] /\ n \in NetType
  BY NewUserKeepsGood DEF SplitGood, Good, NewIrcUser
<1>2. /\ l.me = n.me /\ l.connected = n.connected /\ l.chans = n.chans /\ l.roster = n.roster
      /\ l.modes = n.modes /\ l.users = n.users \union {u}
  BY <1>1 DEF NetType
<1>3. Present(l)
  BY <1>1, <1>2, PresentAlways DEF Present
<1>4. Good(k) /\ LetGo(l, {u}, k)
  BY <1>2, <1>3, OneLetGo DEF QuitLine, Present
<1>5. /\ k.me = n.me /\ k.connected = n.connected /\ k.chans = n.chans
      /\ n.users \ {u} \subseteq k.users
      /\ \A c \in Chans : k.roster[c] = n.roster[c] \ {u}
      /\ \A c \in Chans, v \in Nicks : v # u => k.modes[c][v] = n.modes[c][v]
  BY <1>2, <1>4 DEF LetGo
<1>6. \A c \in Chans : M2[c] = M[c] \ {u} /\ O2[c] = O[c] \ {u}
  BY DEF Minus
<1>7. Truth(M2, O2)
  BY TruthMinus DEF SplitGood
<1>8. n.me \in Nicks
  BY DEF SplitGood, Alive
<1>9. \A c \in Chans : u \notin Whos(s.joins[c])
  BY DEF Pends
<1> HIDE DEF k, l, M2, O2
<1>10. Alive(k, s, M2)
  BY <1>5, <1>8 DEF Alive, SplitGood
<1>11. Placed(k, M2)
  BY <1>5, <1>6 DEF Placed, SplitGood
<1>12. ListsDiffer(k, s, M2)
  <2>1. \A c \in n.chans : c \in Chans
    BY <1>1 DEF NetType
  <2> QED BY <1>5, <1>6, <2>1 DEF ListsDiffer, SplitGood
<1>13. QuitsRight(k, s)
  BY <1>5 DEF QuitsRight, SplitGood
<1>14. JoinsRight(k, s, M2)
  BY <1>5, <1>6, <1>9 DEF JoinsRight, SplitGood
<1>15. ModesRight(k, s, O2)
  <2>1. ASSUME NEW c \in Chans
        PROVE  \A i \in 1 .. Len(s.joins[c]) :
                 /\ Len(s.joins[c][i].modes) <= 1
                 /\ s.joins[c][i].modes # << >> => s.joins[c][i].who \in O2[c]
    <3>1. \A i \in 1 .. Len(s.joins[c]) : s.joins[c][i].who # u
      BY <1>9 DEF Whos
    <3> QED BY <1>6, <3>1 DEF SplitGood, ModesRight
  <2>2. ASSUME NEW c \in Chans, c \in n.chans, NEW v \in O2[c]
        PROVE  \/ k.modes[c][v] # {}
               \/ \E i \in 1 .. Len(s.joins[c]) : s.joins[c][i].who = v /\ s.joins[c][i].modes # << >>
    <3>1. v \in Nicks /\ v # u /\ v \in O[c]
      BY <1>6, <2>2 DEF SplitGood, Truth
    <3>2. k.modes[c][v] = n.modes[c][v]
      BY <1>5, <3>1
    <3> QED BY <2>2, <3>1, <3>2 DEF SplitGood, ModesRight
  <2> QED BY <1>5, <2>1, <2>2 DEF ModesRight
<1> QED BY <1>4, <1>7, <1>10, <1>11, <1>12, <1>13, <1>14, <1>15 DEF SplitGood, k, M2, O2

With(M, u, c) == [M EXCEPT ![c] = @ \union {u}]

LEMMA TruthWith ==
  ASSUME NEW M, NEW O, Truth(M, O), NEW u \in Nicks, NEW c \in Chans
  PROVE  Truth(With(M, u, c), O)
<1>1. \A d \in Chans : With(M, u, c)[d] = IF d = c THEN M[d] \union {u} ELSE M[d]
  BY DEF Truth, With
<1>2. With(M, u, c) \in [Chans -> SUBSET Nicks]
  BY DEF Truth, With
<1> QED BY <1>1, <1>2 DEF Truth

LEMMA UnseenJoinKeeps ==
  ASSUME NEW n, NEW s, NEW M, NEW O, SplitGood(n, s, M, O), n.connected,
         NEW u \in Nicks, NEW c \in Chans, u # n.me, n.me \notin M[c]
  PROVE  SplitGood(n, s, With(M, u, c), O)
<1> DEFINE M2 == With(M, u, c)
<1>0. Truth(M, O)
  BY DEF SplitGood
<1>1. Truth(M2, O) /\ \A d \in Chans : M2[d] = IF d = c THEN M[d] \union {u} ELSE M[d]
  <2>1. Truth(M2, O)
    BY <1>0, TruthWith
  <2>2. \A d \in Chans : M2[d] = IF d = c THEN M[d] \union {u} ELSE M[d]
    BY <1>0 DEF Truth, With
  <2> QED BY <2>1, <2>2
<1> HIDE DEF M2
<1>2. Placed(n, M2)
  BY <1>1 DEF Placed, SplitGood
<1>3. ListsDiffer(n, s, M2)
  <2>1. \A d \in n.chans : d \in Chans /\ d # c
    BY DEF SplitGood, Placed, Good, NetType
  <2> QED BY <1>1, <2>1 DEF ListsDiffer, SplitGood
<1>4. JoinsRight(n, s, M2)
  BY <1>1 DEF JoinsRight, SplitGood
<1>5. Alive(n, s, M2)
  BY DEF Alive, SplitGood
<1> QED BY <1>1, <1>2, <1>3, <1>4, <1>5 DEF SplitGood, M2

\* k is n with the users us on c, with their modes m there.
Joined(n, c, us, m, k) ==
  /\ k.me = n.me /\ k.connected = n.connected /\ k.chans = n.chans /\ k.users = n.users
  /\ \A d \in Chans : k.roster[d] = IF d = c THEN n.roster[d] \union us ELSE n.roster[d]
  /\ \A d \in Chans, v \in Nicks :
       k.modes[d][v] = IF d = c /\ v \in us THEN n.modes[d][v] \union m[v] ELSE n.modes[d][v]

LEMMA JoinIrcUsersIs ==
  ASSUME NEW n \in NetType, NEW c \in Chans, NEW us, NEW m, NEW k, k = JoinIrcUsers(n, c, us, m)
  PROVE  Joined(n, c, us, m, k)
<1> DEFINE R == [n.roster EXCEPT ![c] = n.roster[c] \union us]
           L == [n.modes EXCEPT ![c] = [u \in Nicks |-> IF u \in us THEN n.modes[c][u] \union m[u] ELSE n.modes[c][u]]]
           I == [u \in Nicks |-> IF u \in us THEN n.on[u] \union {c} ELSE n.on[u]]
<1>1. k = [n EXCEPT !.roster = R, !.modes = L, !.on = I]
  BY DEF JoinIrcUsers
<1>2. \A d \in Chans : R[d] = IF d = c THEN n.roster[d] \union us ELSE n.roster[d]
  BY DEF NetType
<1>3. \A d \in Chans, v \in Nicks :
        L[d][v] = IF d = c /\ v \in us THEN n.modes[d][v] \union m[v] ELSE n.modes[d][v]
  BY DEF NetType
<1> HIDE DEF R, L, I
<1>4. /\ k.me = n.me /\ k.connected = n.connected /\ k.chans = n.chans /\ k.users = n.users
      /\ k.roster = R /\ k.modes = L
  BY <1>1 DEF NetType
<1> QED BY <1>2, <1>3, <1>4 DEF Joined

LEMMA SeenJoinKeeps ==
  ASSUME NEW n, NEW s, NEW M, NEW O, SplitGood(n, s, M, O), n.connected,
         NEW u \in Nicks, NEW c \in Chans, u # n.me, n.me \in M[c], u \notin M[c],
         u \notin ToSet(s.quits[c])
  PROVE  SplitGood(Join(n, u, c), s, With(M, u, c), O)
<1> DEFINE k == Join(n, u, c)
           M2 == With(M, u, c)
<1>0. Truth(M, O)
  BY DEF SplitGood
<1>1. Truth(M2, O) /\ \A d \in Chans : M2[d] = IF d = c THEN M[d] \union {u} ELSE M[d]
  <2>1. Truth(M2, O)
    BY <1>0, TruthWith
  <2>2. \A d \in Chans : M2[d] = IF d = c THEN M[d] \union {u} ELSE M[d]
    BY <1>0 DEF Truth, With
  <2> QED BY <2>1, <2>2
<1>2. c \in n.chans /\ n \in NetType /\ n.chans \subseteq Chans
  BY DEF SplitGood, Placed, Good, NetType
<1>3. c \notin n.on[u]
  <2>1. n.roster[c] \ M[c] \subseteq ToSet(s.quits[c])
    BY <1>2, QuitsToSendIs DEF SplitGood, ListsDiffer
  <2> QED BY <2>1 DEF SplitGood, Good, Agree
<1>4. Good(k)
  BY JoinLineKeepsGood DEF SplitGood
<1>5. /\ k.me = n.me /\ k.connected = n.connected /\ k.chans = n.chans
      /\ k.users = n.users \union {u}
      /\ \A d \in Chans : k.roster[d] = IF d = c THEN n.roster[d] \union {u} ELSE n.roster[d]
      /\ \A d \in Chans, v \in Nicks : k.modes[d][v] = n.modes[d][v]
  <2> DEFINE l == NewIrcChannel(NewIrcUser(n, u), c)
             m == [v \in Nicks |-> {}]
  <2>1. /\ l \in NetType
        /\ l.me = n.me /\ l.connected = n.connected /\ l.chans = n.chans /\ l.users = n.users \union {u}
        /\ l.roster = n.roster /\ l.modes = n.modes /\ l.on = n.on
    <3>1. l = [[n EXCEPT !.users = n.users \union {u}] EXCEPT !.chans = n.chans]
      <4>1. n.chans \union {c} = n.chans
        BY <1>2
      <4> QED BY <1>2, <4>1 DEF NewIrcChannel, NewIrcUser, NetType
    <3>2. n.users \union {u} \in SUBSET Nicks
      BY <1>2 DEF NetType
    <3> HIDE DEF l
    <3> QED BY <1>2, <3>1, <3>2 DEF NetType
  <2>2. NewIrcUser(n, u).on = n.on
    BY <1>2 DEF NewIrcUser, NetType
  <2>3. k = JoinIrcUsers(l, c, {u}, m)
    BY <1>3, <2>2 DEF Join, JoinChannel
  <2> HIDE DEF l, k
  <2>4. /\ k.me = l.me /\ k.connected = l.connected /\ k.chans = l.chans /\ k.users = l.users
        /\ \A d \in Chans : k.roster[d] = IF d = c THEN l.roster[d] \union {u} ELSE l.roster[d]
        /\ \A d \in Chans, v \in Nicks : k.modes[d][v] = l.modes[d][v]
    <3>1. Joined(l, c, {u}, m, k)
      BY <2>1, <2>3, JoinIrcUsersIs
    <3>2. \A v \in Nicks : m[v] = {}
      OBVIOUS
    <3> HIDE DEF m
    <3>3. ASSUME NEW d \in Chans, NEW v \in Nicks
          PROVE  k.modes[d][v] = l.modes[d][v]
      <4>1. k.modes[d][v] = IF d = c /\ v \in {u} THEN l.modes[d][v] \union m[v] ELSE l.modes[d][v]
        BY <3>1 DEF Joined
      <4> QED BY <3>2, <4>1
    <3> QED BY <3>1, <3>3 DEF Joined
  <2>5. \A d \in Chans : k.roster[d] = IF d = c THEN n.roster[d] \union {u} ELSE n.roster[d]
    BY <2>1, <2>4
  <2>6. \A d \in Chans, v \in Nicks : k.modes[d][v] = n.modes[d][v]
    BY <2>1, <2>4
  <2> QED BY <2>1, <2>4, <2>5, <2>6
<1> HIDE DEF k, M2
<1>6. Placed(k, M2)
  <2> SUFFICES ASSUME NEW d \in Chans
               PROVE  (d \in n.chans <=> n.me \in M2[d]) /\ (n.me \in M2[d] => n.me \in k.roster[d])
    BY <1>5 DEF Placed
  <2>1. n.me \in M2[d] <=> n.me \in M[d]
    BY <1>1
  <2>2. n.roster[d] \subseteq k.roster[d]
    BY <1>5
  <2> QED BY <2>1, <2>2 DEF SplitGood, Placed
<1>7. ListsDiffer(k, s, M2)
  <2> SUFFICES ASSUME NEW d \in n.chans
               PROVE  M2[d] \ k.roster[d] \subseteq Whos(s.joins[d]) /\ k.roster[d] \ M2[d] \subseteq QuitsToSend(s)[d]
    BY <1>5 DEF ListsDiffer
  <2>1. M[d] \ n.roster[d] \subseteq Whos(s.joins[d]) /\ n.roster[d] \ M[d] \subseteq QuitsToSend(s)[d]
    BY DEF SplitGood, ListsDiffer
  <2>2. \/ M2[d] = M[d] \union {u} /\ k.roster[d] = n.roster[d] \union {u}
        \/ M2[d] = M[d] /\ k.roster[d] = n.roster[d]
    BY <1>1, <1>2, <1>5
  <2> QED BY <2>1, <2>2
<1>8. QuitsRight(k, s)
  BY <1>5 DEF QuitsRight, SplitGood
<1>9. JoinsRight(k, s, M2)
  <2> SUFFICES ASSUME NEW d \in Chans
               PROVE  /\ s.joins[d] # << >> => d \in n.chans /\ s.joinTimer
                      /\ Whos(s.joins[d]) \subseteq (M2[d] \intersect k.users) \ {n.me}
                      /\ \A i, j \in 1 .. Len(s.joins[d]) : s.joins[d][i].who = s.joins[d][j].who => i = j
    BY <1>5 DEF JoinsRight
  <2>1. M[d] \subseteq M2[d] /\ n.users \subseteq k.users
    BY <1>1, <1>5
  <2>2. Whos(s.joins[d]) \subseteq (M[d] \intersect n.users) \ {n.me}
    BY DEF SplitGood, JoinsRight
  <2>3. Whos(s.joins[d]) \subseteq (M2[d] \intersect k.users) \ {n.me}
    BY <2>1, <2>2
  <2> QED BY <2>3 DEF SplitGood, JoinsRight
<1>10. ModesRight(k, s, O)
  <2>1. ASSUME NEW d \in Chans, d \in n.chans, NEW v \in O[d]
        PROVE  \/ k.modes[d][v] # {}
               \/ \E i \in 1 .. Len(s.joins[d]) : s.joins[d][i].who = v /\ s.joins[d][i].modes # << >>
    <3>1. v \in Nicks
      BY DEF SplitGood, Truth
    <3> QED BY <1>5, <2>1, <3>1 DEF SplitGood, ModesRight
  <2> QED BY <1>5, <2>1 DEF SplitGood, ModesRight
<1>11. Alive(k, s, M2)
  BY <1>5 DEF Alive, SplitGood
<1> QED BY <1>1, <1>4, <1>6, <1>7, <1>8, <1>9, <1>10, <1>11 DEF SplitGood, k, M2

LEMMA HeldJoinKeeps ==
  ASSUME NEW n, NEW s, NEW M, NEW O, SplitGood(n, s, M, O), n.connected,
         NEW u \in Nicks, NEW c \in Chans, u # n.me, n.me \in M[c], u \notin M[c],
         u \in ToSet(s.quits[c])
  PROVE  SplitGood(NewIrcUser(n, u), UserJoined(s, u, c), With(M, u, c), O)
<1> DEFINE k == NewIrcUser(n, u)
           r == UserJoined(s, u, c)
           M2 == With(M, u, c)
           e == [who |-> u, modes |-> << >>]
           list == s.joins[c]
           q == s.quits[c]
           N == Len(list)
<1>0. Truth(M, O)
  BY DEF SplitGood
<1>1. Truth(M2, O) /\ \A d \in Chans : M2[d] = IF d = c THEN M[d] \union {u} ELSE M[d]
  <2>1. Truth(M2, O)
    BY <1>0, TruthWith
  <2>2. \A d \in Chans : M2[d] = IF d = c THEN M[d] \union {u} ELSE M[d]
    BY <1>0 DEF Truth, With
  <2> QED BY <2>1, <2>2
<1>2. /\ Good(k) /\ c \in n.chans /\ n \in NetType /\ n.chans \subseteq Chans
      /\ k.me = n.me /\ k.connected = n.connected /\ k.chans = n.chans /\ k.roster = n.roster
      /\ k.modes = n.modes /\ k.users = n.users \union {u}
  BY NewUserKeepsGood DEF SplitGood, Placed, Good, NewIrcUser, NetType
<1>3. s \in SplitType /\ list \in Seq(JoinType) /\ q \in Seq(Nicks) /\ e \in JoinType
  <2>1. e \in JoinType
    <3>1. << >> \in Seq(Modes)
      BY EmptySeq
    <3> QED BY <3>1 DEF JoinType
  <2> QED BY <2>1 DEF SplitGood, SplitType
<1>4. /\ r.alive = s.alive /\ r.told = s.told /\ r.quitTimer = s.quitTimer /\ r.joinTimer = TRUE
      /\ \A d \in Chans : r.quits[d] = IF d = c THEN RemoveFirst(q, u) ELSE s.quits[d]
      /\ \A d \in Chans : r.joins[d] = IF d = c THEN Append(list, e) ELSE s.joins[d]
  BY <1>3 DEF UserJoined, SplitType
<1> HIDE DEF e
<1>5. /\ RemoveFirst(q, u) \in Seq(Nicks)
      /\ ToSet(RemoveFirst(q, u)) \subseteq ToSet(q) /\ ToSet(q) \ {u} \subseteq ToSet(RemoveFirst(q, u))
  <2> HIDE DEF q
  <2> QED BY <1>3, WithoutFirst
<1>6. /\ Append(list, e) \in Seq(JoinType) /\ Len(Append(list, e)) = N + 1 /\ N \in Nat
      /\ (\A i \in 1 .. N : Append(list, e)[i] = list[i]) /\ Append(list, e)[N + 1] = e
  <2> HIDE DEF list
  <2> QED BY <1>3, Appended, ListFacts
<1>7. r \in SplitType
  <2> DEFINE qs == [s.quits EXCEPT ![c] = RemoveFirst(q, u)]
             js == [s.joins EXCEPT ![c] = Append(list, e)]
  <2>1. qs \in [Chans -> Seq(Nicks)] /\ js \in [Chans -> Seq(JoinType)] /\ s.joinCounter + 1 \in Nat
    <3> HIDE DEF q, list
    <3> QED BY <1>3, <1>5, <1>6 DEF SplitType
  <2>2. r = [s EXCEPT !.quits = qs, !.joins = js, !.joinCounter = s.joinCounter + 1, !.joinTimer = TRUE]
    BY <1>3 DEF UserJoined, SplitType, e
  <2> HIDE DEF qs, js, r
  <2> QED BY <1>3, <2>1, <2>2 DEF SplitType
<1> HIDE DEF k, r, M2, q, list
<1>8. Whos(Append(list, e)) = Whos(list) \union {u}
  <2> DEFINE l == Append(list, e)
  <2>1. Whos(l) = {l[i].who : i \in 1 .. N + 1} /\ 1 .. N + 1 = (1 .. N) \union {N + 1} /\ e.who = u
    BY <1>6 DEF Whos, e
  <2> HIDE DEF l, N
  <2>2. {l[i].who : i \in (1 .. N) \union {N + 1}} = {l[i].who : i \in 1 .. N} \union {l[N + 1].who}
    OBVIOUS
  <2>3. {l[i].who : i \in 1 .. N} = {list[i].who : i \in 1 .. N} /\ l[N + 1].who = u
    BY <1>6, <2>1 DEF l
  <2> QED BY <2>1, <2>2, <2>3 DEF Whos, N
<1>9. ASSUME NEW d \in Chans
      PROVE  /\ Whos(r.joins[d]) = IF d = c THEN Whos(s.joins[d]) \union {u} ELSE Whos(s.joins[d])
             /\ ToSet(r.quits[d]) \subseteq ToSet(s.quits[d])
             /\ QuitsToSend(r)[d] \subseteq QuitsToSend(s)[d]
             /\ QuitsToSend(s)[d] \ {u} \subseteq QuitsToSend(r)[d]
             /\ d # c => QuitsToSend(r)[d] = QuitsToSend(s)[d]
  <2>1. Whos(r.joins[d]) = IF d = c THEN Whos(s.joins[d]) \union {u} ELSE Whos(s.joins[d])
    BY <1>4, <1>8 DEF list
  <2>2. ToSet(r.quits[d]) \subseteq ToSet(s.quits[d]) /\ ToSet(s.quits[d]) \ {u} \subseteq ToSet(r.quits[d])
        /\ (d # c => ToSet(r.quits[d]) = ToSet(s.quits[d]))
    BY <1>4, <1>5 DEF q
  <2>3. QuitsToSend(r)[d] = ToSet(r.quits[d]) \ s.told[d] /\ QuitsToSend(s)[d] = ToSet(s.quits[d]) \ s.told[d]
    BY <1>4, QuitsToSendIs
  <2> QED BY <2>1, <2>2, <2>3
<1>10. Placed(k, M2)
  BY <1>1, <1>2 DEF Placed, SplitGood
<1>11. ListsDiffer(k, r, M2)
  <2> SUFFICES ASSUME NEW d \in n.chans
               PROVE  M2[d] \ n.roster[d] \subseteq Whos(r.joins[d]) /\ n.roster[d] \ M2[d] \subseteq QuitsToSend(r)[d]
    BY <1>2 DEF ListsDiffer
  <2>1. d \in Chans /\ M[d] \ n.roster[d] \subseteq Whos(s.joins[d]) /\ n.roster[d] \ M[d] \subseteq QuitsToSend(s)[d]
    BY <1>2 DEF SplitGood, ListsDiffer
  <2> QED BY <1>1, <1>9, <2>1
<1>12. QuitsRight(k, r)
  <2> SUFFICES ASSUME NEW d \in Chans
               PROVE  n.me \notin ToSet(r.quits[d]) /\ (QuitsToSend(r)[d] # {} => s.quitTimer)
    BY <1>2, <1>4 DEF QuitsRight
  <2>1. n.me \notin ToSet(s.quits[d]) /\ (QuitsToSend(s)[d] # {} => s.quitTimer)
    BY DEF QuitsRight, SplitGood
  <2> QED BY <1>9, <2>1
<1>13. u \notin Whos(list)
  BY DEF SplitGood, JoinsRight, list
<1>14. JoinsRight(k, r, M2)
  <2> SUFFICES ASSUME NEW d \in Chans
               PROVE  /\ r.joins[d] # << >> => d \in n.chans
                      /\ Whos(r.joins[d]) \subseteq (M2[d] \intersect k.users) \ {n.me}
                      /\ \A i, j \in 1 .. Len(r.joins[d]) : r.joins[d][i].who = r.joins[d][j].who => i = j
    BY <1>2, <1>4 DEF JoinsRight
  <2>1. /\ s.joins[d] # << >> => d \in n.chans
        /\ Whos(s.joins[d]) \subseteq (M[d] \intersect n.users) \ {n.me}
        /\ \A i, j \in 1 .. Len(s.joins[d]) : s.joins[d][i].who = s.joins[d][j].who => i = j
    BY DEF SplitGood, JoinsRight
  <2>2. Whos(r.joins[d]) \subseteq (M2[d] \intersect k.users) \ {n.me}
    <3>1. Whos(r.joins[d]) = IF d = c THEN Whos(s.joins[d]) \union {u} ELSE Whos(s.joins[d])
      BY <1>9
    <3>2. M[d] \subseteq M2[d] /\ (d = c => u \in M2[d]) /\ k.users = n.users \union {u}
      BY <1>1, <1>2
    <3> QED BY <2>1, <3>1, <3>2
  <2>3. CASE d # c
    BY <1>4, <2>1, <2>2, <2>3
  <2>4. CASE d = c
    <3>1. r.joins[d] = Append(list, e) /\ \A i, j \in 1 .. N : list[i].who = list[j].who => i = j
      BY <1>4, <2>1, <2>4 DEF list
    <3>2. \A i \in 1 .. N : list[i].who # u
      BY <1>13 DEF Whos
    <3>3. e.who = u /\ 1 .. N + 1 = (1 .. N) \union {N + 1}
      BY <1>6 DEF e
    <3> DEFINE l == Append(list, e)
    <3> HIDE DEF N, l
    <3>4. ASSUME NEW i \in 1 .. N + 1, NEW j \in 1 .. N + 1, l[i].who = l[j].who
          PROVE  i = j
      BY <1>6, <3>1, <3>2, <3>3, <3>4 DEF l
    <3> QED BY <1>2, <1>6, <2>2, <2>4, <3>1, <3>4 DEF l
  <2> QED BY <2>3, <2>4
<1>15. ModesRight(k, r, O)
  <2> SUFFICES ASSUME NEW d \in Chans
               PROVE  /\ \A i \in 1 .. Len(r.joins[d]) :
                           /\ Len(r.joins[d][i].modes) <= 1
                           /\ r.joins[d][i].modes # << >> => r.joins[d][i].who \in O[d]
                      /\ d \in n.chans => \A v \in O[d] :
                           \/ n.modes[d][v] # {}
                           \/ \E i \in 1 .. Len(r.joins[d]) : r.joins[d][i].who = v /\ r.joins[d][i].modes # << >>
    <3>1. k.chans = n.chans /\ k.modes = n.modes
      BY <1>2
    <3> QED BY <3>1 DEF ModesRight
  <2>1. /\ \A i \in 1 .. Len(s.joins[d]) :
             /\ Len(s.joins[d][i].modes) <= 1
             /\ s.joins[d][i].modes # << >> => s.joins[d][i].who \in O[d]
        /\ d \in n.chans => \A v \in O[d] :
             \/ n.modes[d][v] # {}
             \/ \E i \in 1 .. Len(s.joins[d]) : s.joins[d][i].who = v /\ s.joins[d][i].modes # << >>
    BY DEF SplitGood, ModesRight
  <2>2. CASE d # c
    <3>1. r.joins[d] = s.joins[d]
      BY <1>4, <2>2
    <3> QED BY <2>1, <3>1
  <2>3. CASE d = c
    <3> DEFINE l == Append(list, e)
    <3>1. r.joins[d] = l /\ Len(l) = N + 1 /\ N \in Nat /\ (\A i \in 1 .. N : l[i] = list[i]) /\ l[N + 1] = e
      BY <1>4, <1>6, <2>3
    <3>2. e.modes = << >> /\ Len(e.modes) <= 1
      BY DEF e
    <3>3. s.joins[d] = list /\ Len(s.joins[d]) = N
      BY <2>3 DEF list
    <3> HIDE DEF l, N
    <3>4. \A i \in 1 .. N + 1 : i \in 1 .. N \/ i = N + 1
      BY <3>1
    <3>5. \A i \in 1 .. N : i \in 1 .. N + 1
      BY <3>1
    <3>6. \A i \in 1 .. Len(r.joins[d]) :
            /\ Len(r.joins[d][i].modes) <= 1
            /\ r.joins[d][i].modes # << >> => r.joins[d][i].who \in O[d]
      BY <2>1, <3>1, <3>2, <3>3, <3>4
    <3>7. ASSUME d \in n.chans, NEW v \in O[d]
          PROVE  \/ n.modes[d][v] # {}
                 \/ \E i \in 1 .. Len(r.joins[d]) : r.joins[d][i].who = v /\ r.joins[d][i].modes # << >>
      BY <2>1, <3>1, <3>3, <3>5, <3>7
    <3> QED BY <3>6, <3>7
  <2> QED BY <2>2, <2>3
<1>16. Alive(k, r, M2)
  <2>1. s.alive
    <3>1. ToSet(NoSplit.quits[c]) = {}
      BY NoSplitIs
    <3>2. s # NoSplit
      BY <3>1
    <3> QED BY <3>2 DEF SplitGood, Alive
  <2>2. n.me \in Nicks
    BY DEF SplitGood, Alive
  <2> QED BY <1>2, <1>4, <2>1, <2>2 DEF Alive
<1> QED BY <1>1, <1>2, <1>7, <1>10, <1>11, <1>12, <1>14, <1>15, <1>16 DEF SplitGood, k, r, M2

LEMMA CoreJoinKeeps ==
  ASSUME NEW n, NEW s, NEW M, NEW O, SplitGood(n, s, M, O), n.connected,
         NEW c \in Chans, n.me \notin M[c]
  PROVE  SplitGood(Names(Join(n, n.me, c), c, M[c], [v \in Nicks |-> IF v \in O[c] THEN Modes ELSE {}]),
                   s, With(M, n.me, c), O)
<1> DEFINE u == n.me
           m == [v \in Nicks |-> IF v \in O[c] THEN Modes ELSE {}]
           j == Join(n, u, c)
           k == Names(j, c, M[c], m)
           M2 == With(M, u, c)
<1>0. Truth(M, O) /\ u \in Nicks /\ n \in NetType /\ Good(n) /\ n.chans \subseteq Chans
  BY DEF SplitGood, Alive, Good, NetType
<1>1. Truth(M2, O) /\ \A d \in Chans : M2[d] = IF d = c THEN M[d] \union {u} ELSE M[d]
  <2>1. Truth(M2, O)
    BY <1>0, TruthWith
  <2>2. \A d \in Chans : M2[d] = IF d = c THEN M[d] \union {u} ELSE M[d]
    BY <1>0 DEF Truth, With
  <2> QED BY <2>1, <2>2
<1>2. c \notin n.chans /\ n.roster[c] = {} /\ c \notin n.on[u]
  <2>1. c \notin n.chans
    BY DEF SplitGood, Placed
  <2>2. n.roster[c] = {}
    BY <1>0, <2>1 DEF Good, Known
  <2> QED BY <1>0, <2>1, <2>2 DEF Good, Agree
<1>3. /\ j \in NetType /\ Good(j)
      /\ j.me = u /\ j.connected = n.connected /\ j.chans = n.chans \union {c}
      /\ j.users = n.users \union {u}
      /\ \A d \in Chans : j.roster[d] = IF d = c THEN {u} ELSE n.roster[d]
      /\ \A d \in Chans, v \in Nicks : j.modes[d][v] = n.modes[d][v]
  <2> DEFINE l == NewIrcChannel(NewIrcUser(n, u), c)
             none == [v \in Nicks |-> {}]
  <2>1. Good(j)
    BY <1>0, JoinLineKeepsGood
  <2>2. /\ l \in NetType
        /\ l.me = n.me /\ l.connected = n.connected /\ l.chans = n.chans \union {c}
        /\ l.users = n.users \union {u} /\ l.roster = n.roster /\ l.modes = n.modes
    <3>1. n.users \union {u} \in SUBSET Nicks /\ n.chans \union {c} \in SUBSET Chans
      BY <1>0 DEF NetType
    <3>2. l = [[n EXCEPT !.users = n.users \union {u}] EXCEPT !.chans = n.chans \union {c}]
      BY <1>0 DEF NewIrcChannel, NewIrcUser, NetType
    <3> HIDE DEF l
    <3> QED BY <1>0, <3>1, <3>2 DEF NetType
  <2>3. NewIrcUser(n, u).on = n.on
    BY <1>0 DEF NewIrcUser, NetType
  <2>4. j = JoinIrcUsers(l, c, {u}, none)
    BY <1>2, <2>3 DEF Join, JoinChannel
  <2> HIDE DEF l, j
  <2>5. /\ j.me = l.me /\ j.connected = l.connected /\ j.chans = l.chans /\ j.users = l.users
        /\ \A d \in Chans : j.roster[d] = IF d = c THEN l.roster[d] \union {u} ELSE l.roster[d]
        /\ \A d \in Chans, v \in Nicks : j.modes[d][v] = l.modes[d][v]
    <3>1. Joined(l, c, {u}, none, j)
      BY <2>2, <2>4, JoinIrcUsersIs
    <3>2. \A v \in Nicks : none[v] = {}
      OBVIOUS
    <3> HIDE DEF none
    <3>3. ASSUME NEW d \in Chans, NEW v \in Nicks
          PROVE  j.modes[d][v] = l.modes[d][v]
      <4>1. j.modes[d][v] = IF d = c /\ v \in {u} THEN l.modes[d][v] \union none[v] ELSE l.modes[d][v]
        BY <3>1 DEF Joined
      <4> QED BY <3>2, <4>1
    <3> QED BY <3>1, <3>3 DEF Joined
  <2>6. \A d \in Chans : j.roster[d] = IF d = c THEN {u} ELSE n.roster[d]
    BY <1>2, <2>2, <2>5
  <2> QED BY <2>1, <2>2, <2>5, <2>6 DEF Good
<1>4. m \in [Nicks -> SUBSET Modes] /\ M[c] \in SUBSET Nicks /\ O[c] \subseteq M[c]
      /\ (\A v \in Nicks : m[v] = IF v \in O[c] THEN Modes ELSE {})
  BY <1>0 DEF Truth
<1> HIDE DEF m, j, M2
<1>5. Good(k)
  BY <1>3, <1>4, NamesKeepGood
<1>6. /\ k.me = u /\ k.connected = n.connected /\ k.chans = n.chans \union {c}
      /\ k.users = n.users \union {u} \union M[c]
      /\ \A d \in Chans : k.roster[d] = IF d = c THEN {u} \union M[c] ELSE n.roster[d]
      /\ \A d \in Chans, v \in Nicks : d # c => k.modes[d][v] = n.modes[d][v]
      /\ \A v \in M[c] : m[v] \subseteq k.modes[c][v]
  <2> DEFINE l == [j EXCEPT !.users = @ \union M[c]]
  <2>1. /\ l \in NetType /\ l.me = j.me /\ l.connected = j.connected /\ l.chans = j.chans
        /\ l.users = j.users \union M[c] /\ l.roster = j.roster /\ l.modes = j.modes
    BY <1>3, <1>4 DEF NetType
  <2>2. k = JoinIrcUsers(l, c, M[c], m)
    BY <1>3 DEF Names
  <2> HIDE DEF l, k
  <2>3. /\ k.me = l.me /\ k.connected = l.connected /\ k.chans = l.chans /\ k.users = l.users
        /\ \A d \in Chans : k.roster[d] = IF d = c THEN l.roster[d] \union M[c] ELSE l.roster[d]
        /\ \A d \in Chans, v \in Nicks : d # c => k.modes[d][v] = l.modes[d][v]
        /\ \A v \in Nicks : k.modes[c][v] = IF v \in M[c] THEN l.modes[c][v] \union m[v] ELSE l.modes[c][v]
    <3>1. Joined(l, c, M[c], m, k)
      BY <2>1, <2>2, JoinIrcUsersIs
    <3> QED BY <3>1 DEF Joined
  <2>4. ASSUME NEW v \in M[c]
        PROVE  m[v] \subseteq k.modes[c][v]
    <3>1. v \in Nicks
      BY <1>4
    <3>2. k.modes[c][v] = l.modes[c][v] \union m[v]
      BY <2>3, <3>1
    <3> QED BY <3>2
  <2>5. ASSUME NEW d \in Chans
        PROVE  k.roster[d] = IF d = c THEN {u} \union M[c] ELSE n.roster[d]
    <3>1. k.roster[d] = IF d = c THEN l.roster[d] \union M[c] ELSE l.roster[d]
      BY <2>3
    <3>2. l.roster[d] = IF d = c THEN {u} ELSE n.roster[d]
      BY <1>3, <2>1
    <3> QED BY <3>1, <3>2
  <2>6. \A d \in Chans, v \in Nicks : d # c => k.modes[d][v] = n.modes[d][v]
    BY <1>3, <2>1, <2>3
  <2>7. /\ k.me = u /\ k.connected = n.connected /\ k.chans = n.chans \union {c}
        /\ k.users = n.users \union {u} \union M[c]
    BY <1>3, <2>1, <2>3
  <2> QED BY <2>4, <2>5, <2>6, <2>7
<1> HIDE DEF k
<1>7. s.joins[c] = << >> /\ Whos(s.joins[c]) = {} /\ Len(s.joins[c]) = 0
  <2>1. s.joins[c] = << >>
    BY <1>2 DEF SplitGood, JoinsRight
  <2> QED BY <2>1 DEF Whos
<1>8. Placed(k, M2)
  <2> SUFFICES ASSUME NEW d \in Chans
               PROVE  (d \in k.chans <=> u \in M2[d]) /\ (u \in M2[d] => u \in k.roster[d])
    BY <1>6 DEF Placed
  <2>1. CASE d = c
    BY <1>1, <1>6, <2>1
  <2>2. CASE d # c
    <3>1. M2[d] = M[d] /\ k.roster[d] = n.roster[d] /\ (d \in k.chans <=> d \in n.chans)
      BY <1>1, <1>6, <2>2
    <3> QED BY <3>1 DEF SplitGood, Placed
  <2> QED BY <2>1, <2>2
<1>9. ListsDiffer(k, s, M2)
  <2> SUFFICES ASSUME NEW d \in n.chans \union {c}
               PROVE  M2[d] \ k.roster[d] \subseteq Whos(s.joins[d]) /\ k.roster[d] \ M2[d] \subseteq QuitsToSend(s)[d]
    BY <1>6 DEF ListsDiffer
  <2>1. CASE d = c
    BY <1>1, <1>6, <2>1
  <2>2. CASE d # c
    <3>1. d \in Chans /\ d \in n.chans
      BY <1>0, <2>2
    <3>2. M2[d] = M[d] /\ k.roster[d] = n.roster[d]
      BY <1>1, <1>6, <2>2, <3>1
    <3> QED BY <3>1, <3>2 DEF SplitGood, ListsDiffer
  <2> QED BY <2>1, <2>2
<1>10. QuitsRight(k, s)
  BY <1>6 DEF QuitsRight, SplitGood
<1>11. JoinsRight(k, s, M2)
  <2> SUFFICES ASSUME NEW d \in Chans
               PROVE  /\ s.joins[d] # << >> => d \in k.chans /\ s.joinTimer
                      /\ Whos(s.joins[d]) \subseteq (M2[d] \intersect k.users) \ {u}
                      /\ \A a, b \in 1 .. Len(s.joins[d]) : s.joins[d][a].who = s.joins[d][b].who => a = b
    BY <1>6 DEF JoinsRight
  <2>1. /\ s.joins[d] # << >> => d \in n.chans /\ s.joinTimer
        /\ Whos(s.joins[d]) \subseteq (M[d] \intersect n.users) \ {u}
        /\ \A a, b \in 1 .. Len(s.joins[d]) : s.joins[d][a].who = s.joins[d][b].who => a = b
    BY DEF SplitGood, JoinsRight
  <2>2. M[d] \subseteq M2[d] /\ n.users \subseteq k.users /\ n.chans \subseteq k.chans
    BY <1>1, <1>6
  <2> QED BY <2>1, <2>2
<1>12. ModesRight(k, s, O)
  <2>1. ASSUME NEW d \in Chans, d \in k.chans, NEW v \in O[d]
        PROVE  \/ k.modes[d][v] # {}
               \/ \E i \in 1 .. Len(s.joins[d]) : s.joins[d][i].who = v /\ s.joins[d][i].modes # << >>
    <3>1. v \in Nicks /\ Modes # {}
      BY <1>0 DEF Truth
    <3>2. CASE d = c
      <4>1. v \in M[c] /\ m[v] = Modes
        BY <1>4, <3>1, <3>2
      <4> QED BY <1>6, <3>1, <3>2, <4>1
    <3>3. CASE d # c
      BY <1>6, <2>1, <3>1, <3>3 DEF SplitGood, ModesRight
    <3> QED BY <3>2, <3>3
  <2> QED BY <2>1 DEF SplitGood, ModesRight
<1>13. Alive(k, s, M2)
  BY <1>0, <1>6 DEF Alive, SplitGood
<1> QED BY <1>1, <1>5, <1>8, <1>9, <1>10, <1>11, <1>12, <1>13 DEF SplitGood, k, M2, m, j

LEMMA ConnectionLostKeeps ==
  ASSUME NEW n, NEW s, NEW M, NEW O, SplitGood(n, s, M, O), n.connected
  PROVE  SplitGood(Disconnect(n), NoSplit, [c \in Chans |-> {}], [c \in Chans |-> {}])
<1> DEFINE k == Disconnect(n)
           M2 == [c \in Chans |-> {}]
<1>1. k = Empty
  BY DEF Disconnect
<1>2. Truth(M2, M2) /\ \A c \in Chans : M2[c] = {}
  BY DEF Truth
<1> HIDE DEF M2
<1>3. Placed(Empty, M2)
  BY <1>2, EmptyOffline DEF Placed
<1>4. SplitGood(Empty, NoSplit, M2, M2)
  BY <1>2, <1>3, EmptyOffline, CleanSlate
<1> QED BY <1>1, <1>4 DEF M2

LEMMA HeldModeKeeps ==
  ASSUME NEW n, NEW s, NEW M, NEW O, SplitGood(n, s, M, O), n.connected,
         NEW u \in Nicks, NEW c \in Chans, NEW m \in Modes, u \in M[c], u \notin O[c],
         UserAlreadyJoined(s, u, c)
  PROVE  SplitGood(n, AddMode(s, u, c, m), M, With(O, u, c))
<1> DEFINE r == AddMode(s, u, c, m)
           list == s.joins[c]
           i0 == IndexOf(list, u)
           N == Len(list)
           e == [list[i0] EXCEPT !.modes = Append(@, m)]
           l == [list EXCEPT ![i0] = e]
           O2 == With(O, u, c)
<1>0. Truth(M, O) /\ s \in SplitType
  BY DEF SplitGood
<1>1. \A d \in Chans : O2[d] = IF d = c THEN O[d] \union {u} ELSE O[d]
  BY <1>0 DEF Truth, With
<1>2. Truth(M, O2)
  <2>1. O2 \in [Chans -> SUBSET Nicks]
    BY <1>0 DEF Truth, With
  <2> HIDE DEF O2
  <2> QED BY <1>0, <1>1, <2>1 DEF Truth
<1>3. list \in Seq(JoinType) /\ N \in Nat /\ DOMAIN list = 1 .. N /\ \A i \in 1 .. N : list[i] \in JoinType
  <2>1. list \in Seq(JoinType)
    BY <1>0 DEF SplitType
  <2> HIDE DEF list
  <2> QED BY <2>1, ListFacts
<1>4. i0 \in 1 .. N /\ list[i0].who = u
  <2>1. i0 # 0
    BY DEF UserAlreadyJoined
  <2> HIDE DEF list
  <2> QED BY <1>3, <2>1, IndexOfIs
<1>5. list[i0].modes = << >>
  <2>1. list[i0].modes # << >> => list[i0].who \in O[c]
    BY <1>4 DEF SplitGood, ModesRight
  <2> QED BY <1>4, <2>1
<1>6. r = [s EXCEPT !.joins = [s.joins EXCEPT ![c] = l]]
  BY DEF AddMode
<1> HIDE DEF i0
<1>7. e \in JoinType /\ e.who = u /\ e.modes # << >> /\ Len(e.modes) = 1
  <2>1. list[i0] \in JoinType
    BY <1>3, <1>4
  <2>2. Append(<< >>, m) = <<m>> /\ <<m>> \in Seq(Modes) /\ <<m>> # << >> /\ Len(<<m>>) = 1
    OBVIOUS
  <2> HIDE DEF list
  <2> QED BY <1>4, <1>5, <2>1, <2>2 DEF JoinType
<1> HIDE DEF e
<1>8. l \in Seq(JoinType) /\ Len(l) = N /\ \A i \in 1 .. N : l[i] = IF i = i0 THEN e ELSE list[i]
  <2> HIDE DEF list
  <2> QED BY <1>3, <1>4, <1>7
<1> HIDE DEF l
<1>9. \A i \in 1 .. N : l[i].who = list[i].who
  BY <1>4, <1>7, <1>8
<1>10. /\ r \in SplitType /\ r.alive = s.alive /\ r.quits = s.quits /\ r.told = s.told
       /\ r.quitTimer = s.quitTimer /\ r.joinTimer = s.joinTimer
       /\ \A d \in Chans : r.joins[d] = IF d = c THEN l ELSE s.joins[d]
  <2> DEFINE js == [s.joins EXCEPT ![c] = l]
  <2>1. js \in [Chans -> Seq(JoinType)] /\ \A d \in Chans : js[d] = IF d = c THEN l ELSE s.joins[d]
    BY <1>0, <1>8 DEF SplitType
  <2>2. r = [s EXCEPT !.joins = js]
    BY <1>0, <1>6 DEF SplitType
  <2> HIDE DEF js, r, list, N
  <2> QED BY <1>0, <2>1, <2>2 DEF SplitType
<1> HIDE DEF r, list, O2
<1>11. \A d \in Chans : /\ Len(r.joins[d]) = Len(s.joins[d])
                        /\ \A i \in 1 .. Len(s.joins[d]) : r.joins[d][i].who = s.joins[d][i].who
  BY <1>8, <1>9, <1>10 DEF list
<1>12. ASSUME NEW d \in Chans
       PROVE  Whos(r.joins[d]) = Whos(s.joins[d]) /\ QuitsToSend(r)[d] = QuitsToSend(s)[d]
  <2> DEFINE a == r.joins[d]
             b == s.joins[d]
  <2>1. Len(a) = Len(b) /\ \A i \in 1 .. Len(b) : a[i].who = b[i].who
    BY <1>11
  <2> HIDE DEF a, b
  <2>2. {a[i].who : i \in 1 .. Len(b)} = {b[i].who : i \in 1 .. Len(b)}
    BY <2>1
  <2>3. Whos(a) = Whos(b)
    BY <2>1, <2>2 DEF Whos
  <2>4. QuitsToSend(r)[d] = ToSet(r.quits[d]) \ r.told[d]
    BY QuitsToSendIs
  <2>5. QuitsToSend(s)[d] = ToSet(s.quits[d]) \ s.told[d]
    BY QuitsToSendIs
  <2> QED BY <1>10, <2>3, <2>4, <2>5 DEF a, b
<1>13. ListsDiffer(n, r, M)
  <2>1. \A d \in n.chans : d \in Chans
    BY DEF SplitGood, Good, NetType
  <2> QED BY <1>12, <2>1 DEF SplitGood, ListsDiffer
<1>14. QuitsRight(n, r)
  BY <1>10, <1>12 DEF SplitGood, QuitsRight
<1>15. JoinsRight(n, r, M)
  <2> SUFFICES ASSUME NEW d \in Chans
               PROVE  /\ r.joins[d] # << >> => d \in n.chans /\ s.joinTimer
                      /\ Whos(r.joins[d]) \subseteq (M[d] \intersect n.users) \ {n.me}
                      /\ \A i, j \in 1 .. Len(r.joins[d]) : r.joins[d][i].who = r.joins[d][j].who => i = j
    BY <1>10 DEF JoinsRight
  <2>1. /\ s.joins[d] # << >> => d \in n.chans /\ s.joinTimer
        /\ Whos(s.joins[d]) \subseteq (M[d] \intersect n.users) \ {n.me}
        /\ \A i, j \in 1 .. Len(s.joins[d]) : s.joins[d][i].who = s.joins[d][j].who => i = j
    BY DEF SplitGood, JoinsRight
  <2>2. \A i, j \in 1 .. Len(r.joins[d]) : r.joins[d][i].who = r.joins[d][j].who => i = j
    BY <1>11, <2>1
  <2>3. r.joins[d] # << >> => s.joins[d] # << >>
    <3>1. CASE d = c
      <4>1. N \in Nat /\ i0 \in 1 .. N /\ s.joins[d] = list
        BY <1>3, <1>4, <3>1 DEF list
      <4>2. list # << >>
        BY <4>1
      <4> QED BY <4>1, <4>2
    <3>2. CASE d # c
      BY <1>10, <3>2
    <3> QED BY <3>1, <3>2
  <2> QED BY <1>12, <2>1, <2>2, <2>3
<1>16. ModesRight(n, r, O2)
  <2>1. ASSUME NEW d \in Chans, NEW i \in 1 .. Len(r.joins[d])
        PROVE  /\ Len(r.joins[d][i].modes) <= 1
               /\ r.joins[d][i].modes # << >> => r.joins[d][i].who \in O2[d]
    <3>1. i \in 1 .. Len(s.joins[d]) /\ r.joins[d][i].who = s.joins[d][i].who
      BY <1>11
    <3>2. /\ Len(s.joins[d][i].modes) <= 1
          /\ s.joins[d][i].modes # << >> => s.joins[d][i].who \in O[d]
      BY <3>1 DEF SplitGood, ModesRight
    <3>3. CASE d = c /\ i = i0
      <4>1. r.joins[d][i] = e
        BY <1>4, <1>8, <1>10, <3>3
      <4>2. u \in O2[d]
        BY <1>1, <3>3
      <4>3. Len(e.modes) <= 1 /\ e.who \in O2[d]
        BY <1>7, <4>2
      <4> QED BY <4>1, <4>3
    <3>4. CASE ~(d = c /\ i = i0)
      <4>1. r.joins[d][i] = s.joins[d][i]
        <5>1. CASE d # c
          BY <1>10, <5>1
        <5>2. CASE d = c
          <6>1. i \in 1 .. N /\ i # i0 /\ s.joins[d] = list /\ r.joins[d] = l
            BY <1>10, <3>1, <3>4, <5>2 DEF list
          <6> QED BY <1>8, <6>1
        <5> QED BY <5>1, <5>2
      <4>2. O[d] \subseteq O2[d]
        BY <1>1
      <4> QED BY <3>2, <4>1, <4>2
    <3> QED BY <3>3, <3>4
  <2>2. ASSUME NEW d \in Chans, d \in n.chans, NEW v \in O2[d]
        PROVE  \/ n.modes[d][v] # {}
               \/ \E i \in 1 .. Len(r.joins[d]) : r.joins[d][i].who = v /\ r.joins[d][i].modes # << >>
    <3>1. CASE d = c /\ v = u
      <4>1. r.joins[d][i0] = e /\ i0 \in 1 .. Len(r.joins[d])
        BY <1>4, <1>8, <1>10, <3>1
      <4>2. e.who = v /\ e.modes # << >>
        BY <1>7, <3>1
      <4> QED BY <4>1, <4>2
    <3>2. CASE ~(d = c /\ v = u)
      <4>1. v \in O[d]
        BY <1>1, <3>2
      <4>2. n.modes[d][v] # {}
            \/ \E i \in 1 .. Len(s.joins[d]) : s.joins[d][i].who = v /\ s.joins[d][i].modes # << >>
        BY <2>2, <4>1 DEF SplitGood, ModesRight
      <4>3. ASSUME NEW i \in 1 .. Len(s.joins[d]), s.joins[d][i].who = v, s.joins[d][i].modes # << >>
            PROVE  \E x \in 1 .. Len(r.joins[d]) : r.joins[d][x].who = v /\ r.joins[d][x].modes # << >>
        <5>1. i \in 1 .. Len(r.joins[d]) /\ r.joins[d][i].who = v
          BY <1>11, <4>3
        <5>2. CASE d = c /\ i = i0
          <6>1. r.joins[d][i] = e
            BY <1>4, <1>8, <1>10, <5>2
          <6> QED BY <1>7, <5>1, <6>1
        <5>3. CASE ~(d = c /\ i = i0)
          <6>1. r.joins[d][i] = s.joins[d][i]
            <7>1. CASE d # c
              BY <1>10, <7>1
            <7>2. CASE d = c
              <8>1. i \in 1 .. N /\ i # i0 /\ s.joins[d] = list /\ r.joins[d] = l
                BY <1>10, <4>3, <5>3, <7>2 DEF list
              <8> QED BY <1>8, <8>1
            <7> QED BY <7>1, <7>2
          <6> QED BY <4>3, <5>1, <6>1
        <5> QED BY <5>2, <5>3
      <4> QED BY <4>2, <4>3
    <3> QED BY <3>1, <3>2
  <2> QED BY <2>1, <2>2 DEF ModesRight
<1>17. Alive(n, r, M)
  <2>1. s.alive
    <3>1. Len(NoSplit.joins[c]) = 0
      BY NoSplitIs
    <3>2. N # 0
      BY <1>3, <1>4
    <3>3. s # NoSplit
      BY <3>1, <3>2 DEF list
    <3> QED BY <3>3 DEF SplitGood, Alive
  <2> QED BY <1>10, <2>1 DEF SplitGood, Alive
<1> QED BY <1>2, <1>10, <1>13, <1>14, <1>15, <1>16, <1>17 DEF SplitGood, r, O2
LEMMA ShownModeKeeps ==
  ASSUME NEW n, NEW s, NEW M, NEW O, SplitGood(n, s, M, O), n.connected,
         NEW u \in Nicks, NEW c \in Chans, NEW m \in Modes, n.me \in M[c], u \in M[c], u \notin O[c],
         ~(u \in n.users /\ UserAlreadyJoined(s, u, c))
  PROVE  SplitGood(ModeLine(n, u, c, TRUE, m), s, M, With(O, u, c))
<1> DEFINE k == ModeLine(n, u, c, TRUE, m)
           O2 == With(O, u, c)
<1>0. Truth(M, O) /\ s \in SplitType /\ n \in NetType /\ Good(n)
  BY DEF SplitGood, Good
<1>1. \A d \in Chans : O2[d] = IF d = c THEN O[d] \union {u} ELSE O[d]
  BY <1>0 DEF Truth, With
<1>2. Truth(M, O2)
  <2>1. O2 \in [Chans -> SUBSET Nicks]
    BY <1>0 DEF Truth, With
  <2> HIDE DEF O2
  <2> QED BY <1>0, <1>1, <2>1 DEF Truth
<1>3. u \notin Whos(s.joins[c])
  <2>1. Whos(s.joins[c]) \subseteq n.users
    BY DEF SplitGood, JoinsRight
  <2> QED BY <1>0, <2>1, PendingIs
<1>4. c \in n.chans /\ u \in n.roster[c] /\ u \in n.users
  BY <1>3, MemberListed
<1>5. {m} \in SUBSET Modes
  OBVIOUS
<1>6. k = AddUserMode(n, u, c, {m})
  BY <1>4 DEF ModeLine
<1>7. Good(k)
  BY <1>0, <1>5, <1>6, ModesKeepGood
<1>8. /\ k.me = n.me /\ k.connected = n.connected /\ k.chans = n.chans /\ k.users = n.users
      /\ k.roster = n.roster
      /\ \A d \in Chans, v \in Nicks :
           k.modes[d][v] = IF d = c /\ v = u THEN n.modes[d][v] \union {m} ELSE n.modes[d][v]
  <2> DEFINE y == n.modes[c][u] \union {m}
             ms == [n.modes EXCEPT ![c][u] = y]
  <2>1. \A d \in Chans, v \in Nicks : ms[d][v] = IF d = c /\ v = u THEN y ELSE n.modes[d][v]
    BY <1>0 DEF NetType
  <2>2. k = [n EXCEPT !.modes = ms]
    BY <1>4, <1>6 DEF AddUserMode
  <2> HIDE DEF ms, y, k
  <2>3. /\ k.me = n.me /\ k.connected = n.connected /\ k.chans = n.chans /\ k.users = n.users
        /\ k.roster = n.roster /\ k.modes = ms
    BY <1>0, <2>2 DEF NetType
  <2> QED BY <2>1, <2>3 DEF y
<1> HIDE DEF k, O2
<1>9. Placed(k, M)
  BY <1>8 DEF Placed, SplitGood
<1>10. ListsDiffer(k, s, M)
  BY <1>8 DEF ListsDiffer, SplitGood
<1>11. QuitsRight(k, s)
  BY <1>8 DEF QuitsRight, SplitGood
<1>12. JoinsRight(k, s, M)
  BY <1>8 DEF JoinsRight, SplitGood
<1>13. ModesRight(k, s, O2)
  <2>1. ASSUME NEW d \in Chans
        PROVE  \A i \in 1 .. Len(s.joins[d]) :
                 /\ Len(s.joins[d][i].modes) <= 1
                 /\ s.joins[d][i].modes # << >> => s.joins[d][i].who \in O2[d]
    <3>1. O[d] \subseteq O2[d]
      BY <1>1
    <3> QED BY <3>1 DEF SplitGood, ModesRight
  <2>2. ASSUME NEW d \in Chans, d \in n.chans, NEW v \in O2[d]
        PROVE  \/ k.modes[d][v] # {}
               \/ \E i \in 1 .. Len(s.joins[d]) : s.joins[d][i].who = v /\ s.joins[d][i].modes # << >>
    <3>1. v \in Nicks
      BY <1>2 DEF Truth
    <3>2. k.modes[d][v] = IF d = c /\ v = u THEN n.modes[d][v] \union {m} ELSE n.modes[d][v]
      BY <1>8, <3>1
    <3>3. CASE d = c /\ v = u
      BY <3>2, <3>3
    <3>4. CASE ~(d = c /\ v = u)
      <4>1. v \in O[d]
        BY <1>1, <3>4
      <4> QED BY <2>2, <3>2, <3>4, <4>1 DEF SplitGood, ModesRight
    <3> QED BY <3>3, <3>4
  <2> QED BY <1>8, <2>1, <2>2 DEF ModesRight
<1>14. Alive(k, s, M)
  BY <1>8 DEF Alive, SplitGood
<1> QED BY <1>0, <1>2, <1>7, <1>9, <1>10, <1>11, <1>12, <1>13, <1>14 DEF SplitGood, k, O2

\* k is what becomes of n when u, who is listed, parts: the core itself leaves the
\* channel.
Parted(n, u, c, k) ==
  /\ k.me = n.me /\ k.connected = n.connected
  /\ k.chans = IF u = n.me THEN n.chans \ {c} ELSE n.chans
  /\ u # n.me => n.users \ {u} \subseteq k.users
  /\ \A d \in Chans : d # c => k.roster[d] = n.roster[d]
  /\ u # n.me => k.roster[c] = n.roster[c] \ {u}
  /\ \A d \in Chans, v \in Nicks : d # c \/ (u # n.me /\ v # u) => k.modes[d][v] = n.modes[d][v]

LEMMA OneParts ==
  ASSUME NEW n, Good(n), NEW c \in Chans, NEW u \in Nicks, u \in n.roster[c],
         n.me \in n.roster[c], NEW k, k = Part(n, u, c)
  PROVE  Good(k) /\ Parted(n, u, c, k)
<1> DEFINE j == NewIrcUser(n, u)
           l == LeaveChannels(j, u, {c})
           gone == GivenUp(j, u, {c})
<1>1. /\ Good(j) /\ Good(k) /\ j \in NetType
      /\ j.me = n.me /\ j.connected = n.connected /\ j.chans = n.chans /\ j.roster = n.roster
      /\ j.modes = n.modes /\ j.on = n.on /\ j.users = n.users \union {u}
  <2>1. Good(j)
    BY NewUserKeepsGood
  <2>2. Good(k)
    BY <2>1, PartKeepsGood DEF Part
  <2> QED BY <2>1, <2>2 DEF NewIrcUser, Good, NetType
<1>2. gone = IF u = n.me THEN {c} ELSE {}
  BY <1>1 DEF GivenUp
<1> HIDE DEF j, gone
<1>3. /\ l.me = j.me /\ l.connected = j.connected /\ l.chans = j.chans \ gone
      /\ l.users = j.users \ Strangers(j, u, gone)
      /\ \A d \in Chans : l.roster[d] = IF d \in gone THEN {} ELSE IF d \in {c} THEN j.roster[d] \ {u} ELSE j.roster[d]
      /\ \A d \in Chans, v \in Nicks :
           l.modes[d][v] = IF d \in gone \/ (d \in {c} /\ v = u) THEN {} ELSE j.modes[d][v]
  BY <1>1 DEF LeaveChannels, NetType, gone
<1>4. Good(l)
  BY <1>1, LeaveKeepsGood
<1> HIDE DEF l
<1>5. gone = {} => Strangers(j, u, gone) = {}
  BY DEF Strangers
<1>6. c \in j.on[u]
  BY <1>1 DEF Good, Agree
<1>7. k = IF Forgotten(l, u) THEN RemoveIrcUser(l, u) ELSE l
  BY <1>6 DEF Part, PartChannel, j, l
<1>8. /\ k.me = l.me /\ k.connected = l.connected /\ k.chans = l.chans /\ k.roster = l.roster
      /\ k.modes = l.modes /\ l.users \ {u} \subseteq k.users
  BY <1>4, <1>7 DEF RemoveIrcUser, Good, NetType
<1>9. k.chans = IF u = n.me THEN n.chans \ {c} ELSE n.chans
  BY <1>1, <1>2, <1>3, <1>8
<1>10. u # n.me => n.users \ {u} \subseteq k.users
  BY <1>1, <1>2, <1>3, <1>5, <1>8
<1>11. \A d \in Chans : d # c => k.roster[d] = n.roster[d]
  BY <1>1, <1>2, <1>3, <1>8
<1>12. u # n.me => k.roster[c] = n.roster[c] \ {u}
  BY <1>1, <1>2, <1>3, <1>8
<1>13. \A d \in Chans, v \in Nicks : d # c \/ (u # n.me /\ v # u) => k.modes[d][v] = n.modes[d][v]
  BY <1>1, <1>2, <1>3, <1>8
<1> QED BY <1>1, <1>3, <1>8, <1>9, <1>10, <1>11, <1>12, <1>13 DEF Parted

LEMMA PartKeeps ==
  ASSUME NEW n, NEW s, NEW M, NEW O, SplitGood(n, s, M, O), n.connected,
         NEW u \in Nicks, NEW c \in Chans, n.me \in M[c], u \in M[c], ~Pends(s, u),
         u = n.me => s.joins = NoSplit.joins
  PROVE  SplitGood(Part(n, u, c), s, Minus(M, u, {c}), Minus(O, u, {c}))
<1> DEFINE k == Part(n, u, c)
           M2 == Minus(M, u, {c})
           O2 == Minus(O, u, {c})
<1>0. Truth(M, O) /\ Good(n) /\ n.me \in Nicks /\ n.chans \subseteq Chans
  BY DEF SplitGood, Alive, Good, NetType
<1>1. \A d \in Chans : u \notin Whos(s.joins[d])
  BY DEF Pends
<1>2. c \in n.chans /\ u \in n.roster[c] /\ n.me \in n.roster[c]
  <2>1. c \in n.chans /\ u \in n.roster[c]
    BY <1>1, MemberListed
  <2> QED BY <2>1 DEF SplitGood, Placed
<1>3. \A d \in Chans : /\ M2[d] = IF d = c THEN M[d] \ {u} ELSE M[d]
                       /\ O2[d] = IF d = c THEN O[d] \ {u} ELSE O[d]
  BY DEF Minus
<1>4. Truth(M2, O2)
  BY <1>0, TruthMinus
<1>5. /\ Good(k) /\ k.me = n.me /\ k.connected = n.connected
      /\ k.chans = IF u = n.me THEN n.chans \ {c} ELSE n.chans
      /\ u # n.me => n.users \ {u} \subseteq k.users
      /\ \A d \in Chans : d # c => k.roster[d] = n.roster[d]
      /\ u # n.me => k.roster[c] = n.roster[c] \ {u}
      /\ \A d \in Chans, v \in Nicks : d # c \/ (u # n.me /\ v # u) => k.modes[d][v] = n.modes[d][v]
  <2>1. Good(k) /\ Parted(n, u, c, k)
    BY <1>0, <1>2, OneParts
  <2> HIDE DEF k
  <2> QED BY <2>1 DEF Parted
<1> HIDE DEF k, M2, O2
<1>6. Placed(k, M2)
  <2> SUFFICES ASSUME NEW d \in Chans
               PROVE  (d \in k.chans <=> n.me \in M2[d]) /\ (n.me \in M2[d] => n.me \in k.roster[d])
    BY <1>5 DEF Placed
  <2>1. (d \in n.chans <=> n.me \in M[d]) /\ (n.me \in M[d] => n.me \in n.roster[d])
    BY DEF SplitGood, Placed
  <2>2. CASE d = c
    <3>1. M2[c] = M[c] \ {u} /\ c \in n.chans /\ n.me \in M[c] /\ n.me \in n.roster[c]
      BY <1>2, <1>3
    <3>2. CASE u = n.me
      <4>1. c \notin k.chans /\ n.me \notin M2[c]
        BY <1>5, <3>1, <3>2
      <4> QED BY <2>2, <4>1
    <3>3. CASE u # n.me
      <4>1. c \in k.chans /\ n.me \in M2[c] /\ n.me \in k.roster[c]
        BY <1>5, <3>1, <3>3
      <4> QED BY <2>2, <4>1
    <3> QED BY <3>2, <3>3
  <2>3. CASE d # c
    <3>1. M2[d] = M[d] /\ k.roster[d] = n.roster[d] /\ (d \in k.chans <=> d \in n.chans)
      BY <1>3, <1>5, <2>3
    <3> QED BY <2>1, <3>1
  <2> QED BY <2>2, <2>3
<1>7. ListsDiffer(k, s, M2)
  <2> SUFFICES ASSUME NEW d \in k.chans
               PROVE  M2[d] \ k.roster[d] \subseteq Whos(s.joins[d]) /\ k.roster[d] \ M2[d] \subseteq QuitsToSend(s)[d]
    BY DEF ListsDiffer
  <2>1. d \in n.chans /\ d \in Chans /\ (d = c => u # n.me)
    BY <1>0, <1>5
  <2>2. M[d] \ n.roster[d] \subseteq Whos(s.joins[d]) /\ n.roster[d] \ M[d] \subseteq QuitsToSend(s)[d]
    BY <2>1 DEF SplitGood, ListsDiffer
  <2>3. CASE d = c
    <3>1. M2[d] = M[d] \ {u} /\ k.roster[d] = n.roster[d] \ {u}
      BY <1>3, <1>5, <2>1, <2>3
    <3> QED BY <2>2, <3>1
  <2>4. CASE d # c
    <3>1. M2[d] = M[d] /\ k.roster[d] = n.roster[d]
      BY <1>3, <1>5, <2>1, <2>4
    <3> QED BY <2>2, <3>1
  <2> QED BY <2>3, <2>4
<1>8. QuitsRight(k, s)
  BY <1>5 DEF QuitsRight, SplitGood
<1>9. JoinsRight(k, s, M2)
  <2> SUFFICES ASSUME NEW d \in Chans
               PROVE  /\ s.joins[d] # << >> => d \in k.chans /\ s.joinTimer
                      /\ Whos(s.joins[d]) \subseteq (M2[d] \intersect k.users) \ {n.me}
                      /\ \A a, b \in 1 .. Len(s.joins[d]) : s.joins[d][a].who = s.joins[d][b].who => a = b
    BY <1>5 DEF JoinsRight
  <2>1. /\ s.joins[d] # << >> => d \in n.chans /\ s.joinTimer
        /\ Whos(s.joins[d]) \subseteq (M[d] \intersect n.users) \ {n.me}
        /\ \A a, b \in 1 .. Len(s.joins[d]) : s.joins[d][a].who = s.joins[d][b].who => a = b
    BY DEF SplitGood, JoinsRight
  <2>2. CASE u = n.me
    <3>1. s.joins[d] = << >> /\ Whos(s.joins[d]) = {}
      BY <2>2, NoSplitIs
    <3> QED BY <2>1, <3>1
  <2>3. CASE u # n.me
    <3>1. Whos(s.joins[d]) \subseteq (M2[d] \intersect k.users) \ {n.me}
      BY <1>1, <1>3, <1>5, <2>1, <2>3
    <3> QED BY <1>5, <2>1, <2>3, <3>1
  <2> QED BY <2>2, <2>3
<1>10. ModesRight(k, s, O2)
  <2>1. ASSUME NEW d \in Chans
        PROVE  \A i \in 1 .. Len(s.joins[d]) :
                 /\ Len(s.joins[d][i].modes) <= 1
                 /\ s.joins[d][i].modes # << >> => s.joins[d][i].who \in O2[d]
    <3>1. \A i \in 1 .. Len(s.joins[d]) : s.joins[d][i].who # u
      BY <1>1 DEF Whos
    <3>2. O[d] \ {u} \subseteq O2[d]
      BY <1>3
    <3>3. \A i \in 1 .. Len(s.joins[d]) :
            /\ Len(s.joins[d][i].modes) <= 1
            /\ s.joins[d][i].modes # << >> => s.joins[d][i].who \in O[d]
      BY DEF SplitGood, ModesRight
    <3> QED BY <3>1, <3>2, <3>3
  <2>2. ASSUME NEW d \in Chans, d \in k.chans, NEW v \in O2[d]
        PROVE  \/ k.modes[d][v] # {}
               \/ \E i \in 1 .. Len(s.joins[d]) : s.joins[d][i].who = v /\ s.joins[d][i].modes # << >>
    <3>1. v \in Nicks
      BY <1>4 DEF Truth
    <3>2. d \in n.chans /\ v \in O[d] /\ (d # c \/ (u # n.me /\ v # u))
      <4>1. d \in n.chans /\ (d = c => u # n.me)
        BY <1>5, <2>2
      <4>2. O2[d] = IF d = c THEN O[d] \ {u} ELSE O[d]
        BY <1>3, <2>2
      <4> QED BY <2>2, <4>1, <4>2
    <3>3. k.modes[d][v] = n.modes[d][v]
      BY <1>5, <3>1, <3>2
    <3> QED BY <3>2, <3>3 DEF SplitGood, ModesRight
  <2> QED BY <2>1, <2>2 DEF ModesRight
<1>11. Alive(k, s, M2)
  BY <1>0, <1>5 DEF Alive, SplitGood
<1> QED BY <1>0, <1>4, <1>5, <1>6, <1>7, <1>8, <1>9, <1>10, <1>11 DEF SplitGood, k, M2, O2
-----------------------------------------------------------------------------
(* The timers keep it while nothing comes at a moment they cannot bear *)

LEMMA QuitsSentKeeps ==
  ASSUME NEW n, NEW s, NEW M, NEW O, SplitGood(n, s, M, O), s.alive,
         \A c \in Chans, d \in Chans : QuitsToSend(s)[c] \intersect M[d] = {}
  PROVE  /\ SplitGood(HandleNetsplitQuit(n, QuitsToSend(s)), QuitsSent(s), M, O)
         /\ QuitsSent(s).alive /\ \A c \in Chans : QuitsToSend(QuitsSent(s))[c] = {}
<1> DEFINE gone == QuitsToSend(s)
           S == LetGoAll(gone)
           k == HandleNetsplitQuit(n, gone)
           r == QuitsSent(s)
<1>0. Truth(M, O) /\ s \in SplitType /\ n.connected /\ n.me \in Nicks
  <2>1. NoSplit.alive = FALSE
    BY DEF NoSplit
  <2> QED BY <2>1 DEF SplitGood, Alive
<1>1. \A c \in Chans : s.quits[c] \in Seq(Nicks) /\ s.told[c] \in SUBSET Nicks
  BY <1>0 DEF SplitType
<1>2. gone \in [Chans -> SUBSET Nicks]
  <2>1. \A c \in Chans : ToSet(s.quits[c]) \in SUBSET Nicks
    BY <1>1, ListFacts DEF ToSet
  <2> QED BY <2>1 DEF QuitsToSend
<1>3. \A c \in Chans : gone[c] = ToSet(s.quits[c]) \ s.told[c]
  BY QuitsToSendIs
<1> HIDE DEF gone
<1>4. n.me \notin S
  <2>1. \A c \in Chans : n.me \notin ToSet(s.quits[c])
    BY DEF SplitGood, QuitsRight
  <2> QED BY <1>3, <2>1 DEF LetGoAll
<1>5. \A c \in Chans : M[c] \intersect S = {} /\ gone[c] \subseteq S
  <2>1. \A c \in Chans, d \in Chans : gone[c] \intersect M[d] = {}
    BY DEF gone
  <2> QED BY <2>1 DEF LetGoAll
<1>6. Good(k) /\ LetGo(n, S, k)
  <2>1. Present(n)
    BY PresentAlways
  <2>2. Present(k) /\ LetGo(n, S, k)
    BY <1>2, <1>4, <2>1, AllLetGo
  <2> QED BY <2>2 DEF Present
<1> HIDE DEF k, S
<1>7. /\ k.me = n.me /\ k.connected = n.connected /\ k.chans = n.chans
      /\ n.users \ S \subseteq k.users
      /\ \A c \in Chans : k.roster[c] = n.roster[c] \ S
      /\ \A c \in Chans, v \in Nicks : v \notin S => k.modes[c][v] = n.modes[c][v]
  BY <1>6 DEF LetGo
<1>8. /\ r \in SplitType /\ r.alive = s.alive /\ r.quits = s.quits /\ r.joins = s.joins
      /\ r.joinTimer = s.joinTimer /\ \A c \in Chans : r.told[c] = s.told[c] \union gone[c]
  <2> DEFINE t == [c \in Chans |-> s.told[c] \union gone[c]]
  <2>1. t \in [Chans -> SUBSET Nicks]
    BY <1>1, <1>2
  <2>2. r = [s EXCEPT !.told = t, !.sentQuit = TRUE, !.quitTimer = FALSE]
    BY <1>0 DEF QuitsSent, SplitType, gone
  <2>3. \A c \in Chans : t[c] = s.told[c] \union gone[c]
    OBVIOUS
  <2> HIDE DEF r, t
  <2> QED BY <1>0, <2>1, <2>2, <2>3 DEF SplitType
<1> HIDE DEF r
<1>9. ASSUME NEW c \in Chans
      PROVE  QuitsToSend(r)[c] = {}
  <2>1. QuitsToSend(r)[c] = ToSet(r.quits[c]) \ r.told[c]
    BY QuitsToSendIs
  <2> QED BY <1>3, <1>8, <2>1
<1>10. Placed(k, M)
  BY <1>4, <1>7 DEF Placed, SplitGood
<1>11. ListsDiffer(k, r, M)
  <2> SUFFICES ASSUME NEW c \in n.chans
               PROVE  M[c] \ k.roster[c] \subseteq Whos(s.joins[c]) /\ k.roster[c] \ M[c] \subseteq QuitsToSend(r)[c]
    BY <1>7, <1>8 DEF ListsDiffer
  <2>1. c \in Chans
    BY DEF SplitGood, Good, NetType
  <2>2. M[c] \ n.roster[c] \subseteq Whos(s.joins[c]) /\ n.roster[c] \ M[c] \subseteq gone[c]
    BY DEF SplitGood, ListsDiffer, gone
  <2>3. k.roster[c] = n.roster[c] \ S /\ M[c] \intersect S = {} /\ gone[c] \subseteq S
    BY <1>5, <1>7, <2>1
  <2> QED BY <2>2, <2>3
<1>12. QuitsRight(k, r)
  BY <1>7, <1>8, <1>9 DEF QuitsRight, SplitGood
<1>13. JoinsRight(k, r, M)
  <2> SUFFICES ASSUME NEW c \in Chans
               PROVE  /\ s.joins[c] # << >> => c \in n.chans /\ s.joinTimer
                      /\ Whos(s.joins[c]) \subseteq (M[c] \intersect k.users) \ {n.me}
                      /\ \A i, j \in 1 .. Len(s.joins[c]) : s.joins[c][i].who = s.joins[c][j].who => i = j
    BY <1>7, <1>8 DEF JoinsRight
  <2>1. /\ s.joins[c] # << >> => c \in n.chans /\ s.joinTimer
        /\ Whos(s.joins[c]) \subseteq (M[c] \intersect n.users) \ {n.me}
        /\ \A i, j \in 1 .. Len(s.joins[c]) : s.joins[c][i].who = s.joins[c][j].who => i = j
    BY DEF SplitGood, JoinsRight
  <2>2. M[c] \intersect S = {} /\ n.users \ S \subseteq k.users
    BY <1>5, <1>7
  <2> QED BY <2>1, <2>2
<1>14. ModesRight(k, r, O)
  <2>1. ASSUME NEW c \in Chans, c \in n.chans, NEW v \in O[c]
        PROVE  \/ k.modes[c][v] # {}
               \/ \E i \in 1 .. Len(s.joins[c]) : s.joins[c][i].who = v /\ s.joins[c][i].modes # << >>
    <3>1. v \in Nicks /\ v \in M[c]
      BY <1>0 DEF Truth
    <3>2. k.modes[c][v] = n.modes[c][v]
      BY <1>5, <1>7, <3>1
    <3> QED BY <2>1, <3>2 DEF SplitGood, ModesRight
  <2>2. ASSUME NEW c \in Chans
        PROVE  \A i \in 1 .. Len(s.joins[c]) :
                 /\ Len(s.joins[c][i].modes) <= 1
                 /\ s.joins[c][i].modes # << >> => s.joins[c][i].who \in O[c]
    BY DEF SplitGood, ModesRight
  <2> QED BY <1>7, <1>8, <2>1, <2>2 DEF ModesRight
<1>15. Alive(k, r, M)
  BY <1>0, <1>7, <1>8 DEF Alive
<1>16. SplitGood(k, r, M, O)
  BY <1>0, <1>6, <1>8, <1>10, <1>11, <1>12, <1>13, <1>14, <1>15 DEF SplitGood
<1> QED BY <1>8, <1>9, <1>16 DEF k, r, gone

\* Nothing is held back any more, and the lists are right: the split may go on or be over.
LEMMA NothingHeld ==
  ASSUME NEW n, NEW s, NEW M, NEW O, SplitGood(n, s, M, O), s.alive,
         NEW k, Good(k), k.me = n.me, k.connected = n.connected, k.chans = n.chans,
         \A c \in n.chans : k.roster[c] = M[c] /\ \A u \in O[c] : k.modes[c][u] # {}
  PROVE  SplitGood(k, NoSplit, M, O) /\ SplitGood(k, [s EXCEPT !.joins = NoSplit.joins], M, O)
<1> DEFINE r == [s EXCEPT !.joins = NoSplit.joins]
<1>1. Truth(M, O) /\ s \in SplitType /\ n.connected /\ n.me \in Nicks /\ n.chans \subseteq Chans
  <2>1. NoSplit.alive = FALSE
    BY DEF NoSplit
  <2> QED BY <2>1 DEF SplitGood, Alive, Good, NetType
<1>2. Placed(k, M)
  BY DEF SplitGood, Placed
<1>3. SplitGood(k, NoSplit, M, O)
  BY <1>1, <1>2, CleanSlate
<1>4. /\ r \in SplitType /\ r.alive = s.alive /\ r.quits = s.quits /\ r.told = s.told
      /\ r.quitTimer = s.quitTimer /\ r.joins = NoSplit.joins
  <2>1. NoSplit.joins \in [Chans -> Seq(JoinType)]
    BY NoSplitIs DEF SplitType
  <2> QED BY <1>1, <2>1 DEF SplitType
<1> HIDE DEF r
<1>5. ASSUME NEW c \in Chans
      PROVE  QuitsToSend(r)[c] = QuitsToSend(s)[c] /\ r.joins[c] = << >> /\ Whos(r.joins[c]) = {}
  <2>1. r.joins[c] = << >> /\ Whos(r.joins[c]) = {}
    BY <1>4, NoSplitIs
  <2>2. QuitsToSend(r)[c] = ToSet(r.quits[c]) \ r.told[c]
    BY QuitsToSendIs
  <2>3. QuitsToSend(s)[c] = ToSet(s.quits[c]) \ s.told[c]
    BY QuitsToSendIs
  <2> QED BY <1>4, <2>1, <2>2, <2>3
<1>6. ListsDiffer(k, r, M)
  BY DEF ListsDiffer
<1>7. QuitsRight(k, r)
  BY <1>4, <1>5 DEF QuitsRight, SplitGood
<1>8. JoinsRight(k, r, M)
  BY <1>5 DEF JoinsRight
<1>9. ModesRight(k, r, O)
  BY <1>5 DEF ModesRight
<1>10. Alive(k, r, M)
  BY <1>1, <1>4 DEF Alive
<1>11. SplitGood(k, r, M, O)
  BY <1>1, <1>2, <1>4, <1>6, <1>7, <1>8, <1>9, <1>10 DEF SplitGood
<1> QED BY <1>3, <1>11 DEF r

LEMMA JoinsShownKeep ==
  ASSUME NEW n, NEW s, NEW M, NEW O, SplitGood(n, s, M, O), s.alive,
         \A c \in Chans : QuitsToSend(s)[c] = {},
         NEW k, k = JoinEverywhere(n, s, HandleNetsplitJoin)
                \/ k = JoinEverywhere(n, s, HandleEarlyNetsplitJoin)
  PROVE  SplitGood(k, NoSplit, M, O) /\ SplitGood(k, [s EXCEPT !.joins = NoSplit.joins], M, O)
<1>1. Good(n) /\ n.chans \subseteq Chans /\ Truth(M, O) /\ \A c \in Chans : s.joins[c] \in Seq(JoinType)
  BY DEF SplitGood, Good, NetType, SplitType
<1>2. \A c \in Chans : Joinable(n, c, s.joins[c])
  <2>1. ASSUME NEW c \in Chans
        PROVE  Joinable(n, c, s.joins[c])
    <3>1. Whos(s.joins[c]) \subseteq n.users /\ (s.joins[c] # << >> => c \in n.chans)
      BY DEF SplitGood, JoinsRight
    <3>2. \A i \in 1 .. Len(s.joins[c]) : Len(s.joins[c][i].modes) <= 1
      BY DEF SplitGood, ModesRight
    <3> QED BY <1>1, <3>1, <3>2 DEF Joinable
  <2> QED BY <2>1
<1>3. k \in GrownGood(n) /\ Grown(n, Entries(s), k)
  BY <1>1, <1>2, AllShown
<1>4. Good(k) /\ k.me = n.me /\ k.connected = n.connected /\ k.chans = n.chans
  BY <1>3 DEF GrownGood
<1>5. ASSUME NEW c \in n.chans
      PROVE  k.roster[c] = M[c]
  <2> DEFINE l == s.joins[c]
  <2>1. c \in Chans /\ l \in Seq(JoinType)
    BY <1>1
  <2>2. Entries(s)[c] = ToSet(l)
    BY <2>1 DEF Entries
  <2>3. k.roster[c] = n.roster[c] \union {j.who : j \in Entries(s)[c]}
    BY <1>3, <2>1 DEF Grown
  <2>4. M[c] \ n.roster[c] \subseteq Whos(l) /\ n.roster[c] \ M[c] \subseteq {} /\ Whos(l) \subseteq M[c]
    BY <2>1 DEF SplitGood, ListsDiffer, JoinsRight
  <2> HIDE DEF l
  <2>5. {j.who : j \in ToSet(l)} = Whos(l)
    BY <2>1, ListFacts DEF Whos, ToSet
  <2> QED BY <2>2, <2>3, <2>4, <2>5
<1>6. ASSUME NEW c \in n.chans, NEW u \in O[c]
      PROVE  k.modes[c][u] # {}
  <2> DEFINE l == s.joins[c]
  <2>1. c \in Chans /\ l \in Seq(JoinType) /\ u \in Nicks /\ Entries(s)[c] = ToSet(l)
    BY <1>1 DEF Entries, Truth
  <2>2. n.modes[c][u] # {} \/ \E i \in 1 .. Len(l) : l[i].who = u /\ l[i].modes # << >>
    BY <2>1 DEF SplitGood, ModesRight
  <2> HIDE DEF l
  <2>3. CASE n.modes[c][u] # {}
    BY <1>3, <2>1, <2>3 DEF Grown
  <2>4. ASSUME NEW i \in 1 .. Len(l), l[i].who = u, l[i].modes # << >>
        PROVE  k.modes[c][u] # {}
    <3> DEFINE ms == l[i].modes
    <3>1. l[i] \in ToSet(l) /\ l[i] \in JoinType
      BY <2>1, ListFacts DEF ToSet
    <3>2. ToSet(ms) \subseteq k.modes[c][u]
      <4>1. \A j \in Entries(s)[c] : ToSet(j.modes) \subseteq k.modes[c][j.who]
        BY <1>3, <2>1 DEF Grown
      <4>2. l[i] \in Entries(s)[c]
        BY <2>1, <3>1
      <4> QED BY <2>4, <4>1, <4>2
    <3>3. ms \in Seq(Modes) /\ ms # << >>
      BY <2>4, <3>1 DEF JoinType
    <3> HIDE DEF ms
    <3>4. 1 \in DOMAIN ms
      BY <3>3
    <3>5. ms[1] \in ToSet(ms)
      BY <3>4 DEF ToSet
    <3> QED BY <3>2, <3>5
  <2> QED BY <2>2, <2>3, <2>4
<1>7. \A c \in n.chans : k.roster[c] = M[c] /\ \A u \in O[c] : k.modes[c][u] # {}
  BY <1>5, <1>6
<1> QED BY <1>4, <1>7, NothingHeld

\* Nothing held back when the hour is over.
LEMMA DiscardKeeps ==
  ASSUME NEW n, NEW s, NEW M, NEW O, SplitGood(n, s, M, O), s.alive,
         s.joins = NoSplit.joins, ~s.quitTimer
  PROVE  SplitGood(n, NoSplit, M, O)
<1>1. ASSUME NEW c \in n.chans
      PROVE  n.roster[c] = M[c] /\ \A u \in O[c] : n.modes[c][u] # {}
  <2>1. c \in Chans /\ Truth(M, O)
    BY DEF SplitGood, Good, NetType
  <2>2. s.joins[c] = << >> /\ Whos(s.joins[c]) = {} /\ Len(s.joins[c]) = 0
    BY <2>1, NoSplitIs
  <2>3. QuitsToSend(s)[c] = {}
    BY <2>1 DEF SplitGood, QuitsRight
  <2>4. n.roster[c] = M[c]
    <3>1. n.roster[c] \subseteq Nicks /\ M[c] \subseteq Nicks
      BY <2>1 DEF SplitGood, Good, NetType, Truth
    <3> QED BY <2>2, <2>3, <3>1 DEF SplitGood, ListsDiffer
  <2>5. \A u \in O[c] : n.modes[c][u] # {}
    BY <2>1, <2>2 DEF SplitGood, ModesRight
  <2> QED BY <2>4, <2>5
<1>2. Good(n)
  BY DEF SplitGood
<1> QED BY <1>1, <1>2, NothingHeld
-----------------------------------------------------------------------------
(* The invariant is inductive *)

LEMMA SplitInvInit == SplitInit => SplitInv
<1> SUFFICES ASSUME SplitInit
             PROVE  SplitGood(net, split, members, ops)
  BY DEF SplitInv
<1>1. net = Empty /\ split = NoSplit /\ Truth(members, ops) /\ \A c \in Chans : members[c] = {}
  BY DEF SplitInit, Init, Truth
<1>2. Placed(Empty, members)
  BY <1>1, EmptyOffline DEF Placed
<1>3. SplitGood(Empty, NoSplit, members, ops)
  BY <1>1, <1>2, EmptyOffline, CleanSlate
<1> QED BY <1>1, <1>3

LEMMA RunningIsAlive ==
  ASSUME SplitGood(net, split, members, ops), split.quitTimer \/ split.joinTimer
  PROVE  split.alive
<1>1. split # NoSplit
  BY DEF NoSplit
<1> QED BY <1>1 DEF SplitGood, Alive

LEMMA QuitTimeoutKeeps ==
  ASSUME SplitInv, QuitTimeout
  PROVE  SplitInv'
<1> SUFFICES ASSUME calm'
             PROVE  SplitGood(net', split', members', ops')
  BY DEF SplitInv
<1>1. /\ SplitGood(net, split, members, ops) /\ split.quitTimer
      /\ net' = HandleNetsplitQuit(net, QuitsToSend(split)) /\ split' = QuitsSent(split)
      /\ ~Returning(split) /\ members' = members /\ ops' = ops
  BY DEF QuitTimeout, SplitInv
<1>2. \A c \in Chans, d \in Chans : QuitsToSend(split)[c] \intersect members[d] = {}
  BY <1>1 DEF Returning
<1>3. split.alive
  BY <1>1, RunningIsAlive
<1>4. SplitGood(HandleNetsplitQuit(net, QuitsToSend(split)), QuitsSent(split), members, ops)
  BY <1>1, <1>2, <1>3, QuitsSentKeeps
<1> QED BY <1>1, <1>4

LEMMA JoinTimeoutKeeps ==
  ASSUME SplitInv, JoinTimeout
  PROVE  SplitInv'
<1> DEFINE s == IF split.sentQuit THEN split ELSE QuitsSent(split)
           n == IF split.sentQuit THEN net ELSE HandleNetsplitQuit(net, QuitsToSend(split))
<1> SUFFICES ASSUME calm'
             PROVE  SplitGood(net', split', members', ops')
  BY DEF SplitInv
<1>1. /\ SplitGood(net, split, members, ops) /\ split.joinTimer
      /\ split.sentQuit => ~split.quitTimer
      /\ split.sentQuit \/ ~Returning(split)
      /\ members' = members /\ ops' = ops
  BY DEF JoinTimeout, SplitInv
<1>2. \/ net' = JoinEverywhere(n, s, HandleEarlyNetsplitJoin) /\ split' = [s EXCEPT !.joins = NoSplit.joins]
      \/ net' = JoinEverywhere(n, s, HandleNetsplitJoin) /\ split' = NoSplit
  BY DEF JoinTimeout
<1>3. split.alive
  BY <1>1, RunningIsAlive
<1>4. SplitGood(n, s, members, ops) /\ s.alive /\ \A c \in Chans : QuitsToSend(s)[c] = {}
  <2>1. CASE split.sentQuit
    <3>1. \A c \in Chans : QuitsToSend(split)[c] = {}
      BY <1>1, <2>1 DEF SplitGood, QuitsRight
    <3> QED BY <1>1, <1>3, <2>1, <3>1
  <2>2. CASE ~split.sentQuit
    <3>1. \A c \in Chans, d \in Chans : QuitsToSend(split)[c] \intersect members[d] = {}
      BY <1>1, <2>2 DEF Returning
    <3>2. /\ SplitGood(HandleNetsplitQuit(net, QuitsToSend(split)), QuitsSent(split), members, ops)
          /\ QuitsSent(split).alive /\ \A c \in Chans : QuitsToSend(QuitsSent(split))[c] = {}
      BY <1>1, <1>3, <3>1, QuitsSentKeeps
    <3> QED BY <2>2, <3>2
  <2> QED BY <2>1, <2>2
<1> HIDE DEF s, n
<1>5. SplitGood(net', NoSplit, members, ops) /\ SplitGood(net', [s EXCEPT !.joins = NoSplit.joins], members, ops)
  BY <1>2, <1>4, JoinsShownKeep
<1> QED BY <1>1, <1>2, <1>5

LEMMA DiscardedKeeps ==
  ASSUME SplitInv, Discard
  PROVE  SplitInv'
<1> SUFFICES ASSUME calm'
             PROVE  SplitGood(net', split', members', ops')
  BY DEF SplitInv
<1>1. /\ SplitGood(net, split, members, ops) /\ split.alive
      /\ net' = net /\ split' = NoSplit /\ members' = members /\ ops' = ops
      /\ split.joins = NoSplit.joins /\ ~split.quitTimer
  BY DEF Discard, SplitInv
<1>2. SplitGood(net, NoSplit, members, ops)
  BY <1>1, DiscardKeeps
<1> QED BY <1>1, <1>2

LEMMA LeavesIs ==
  ASSUME NEW u, NEW cs, Leaves(u, cs)
  PROVE  members' = Minus(members, u, cs) /\ ops' = Minus(ops, u, cs)
BY DEF Leaves, Minus

LEMMA PendsIs ==
  ASSUME SplitGood(net, split, members, ops), NEW u
  PROVE  Pending(u) <=> Pends(split, u)
<1>1. split \in SplitType
  BY DEF SplitGood
<1> QED BY <1>1, PendingIs DEF Pending, Pends

LEMMA QuitsComeKeeps ==
  ASSUME SplitInv, NEW u \in Nicks, Registered(u) \/ SplitQuit(u) \/ OrdinaryQuit(u)
  PROVE  SplitInv'
<1> SUFFICES ASSUME calm'
             PROVE  SplitGood(net', split', members', ops')
  BY DEF SplitInv
<1>1. SplitGood(net, split, members, ops)
  BY DEF SplitInv, Registered, SplitQuit, OrdinaryQuit
<1>2. CASE Registered(u)
  BY <1>1, <1>2, RegisteredKeeps DEF Registered
<1>3. CASE SplitQuit(u)
  <2>1. /\ net.connected /\ u # net.me /\ net' = NewIrcUser(net, u) /\ split' = UserQuit(split, u, net.on[u])
        /\ ~Pending(u) /\ \A c \in Chans : u \notin split.told[c]
    BY <1>3 DEF SplitQuit
  <2>2. members' = Minus(members, u, Chans) /\ ops' = Minus(ops, u, Chans)
    BY <1>3, LeavesIs DEF SplitQuit
  <2>3. ~Pends(split, u)
    BY <1>1, <2>1, PendsIs
  <2> QED BY <1>1, <2>1, <2>2, <2>3, SplitQuitKeeps
<1>4. CASE OrdinaryQuit(u)
  <2>1. net.connected /\ u # net.me /\ net' = QuitLine(net, u) /\ split' = split /\ ~Pending(u)
    BY <1>4 DEF OrdinaryQuit
  <2>2. members' = Minus(members, u, Chans) /\ ops' = Minus(ops, u, Chans)
    BY <1>4, LeavesIs DEF OrdinaryQuit
  <2>3. ~Pends(split, u)
    BY <1>1, <2>1, PendsIs
  <2> QED BY <1>1, <2>1, <2>2, <2>3, OrdinaryQuitKeeps
<1> QED BY <1>2, <1>3, <1>4

LEMMA JoinComesKeeps ==
  ASSUME SplitInv, NEW u \in Nicks, NEW c \in Chans, JoinComes(u, c)
  PROVE  SplitInv'
<1> SUFFICES ASSUME calm'
             PROVE  SplitGood(net', split', members', ops')
  BY DEF SplitInv
<1>1. /\ SplitGood(net, split, members, ops) /\ net.connected /\ u # net.me /\ u \notin members[c]
      /\ members' = With(members, u, c) /\ ops' = ops
  BY DEF SplitInv, JoinComes, With
<1>2. CASE ~OnChannel(c)
  <2>1. net' = net /\ split' = split /\ net.me \notin members[c]
    BY <1>2 DEF JoinComes, OnChannel
  <2> QED BY <1>1, <2>1, UnseenJoinKeeps
<1>3. CASE OnChannel(c) /\ HeldBack(u, c)
  <2>1. net' = NewIrcUser(net, u) /\ split' = UserJoined(split, u, c) /\ net.me \in members[c]
    BY <1>3 DEF JoinComes, JoinLine, OnChannel
  <2>2. u \in ToSet(split.quits[c])
    BY <1>3 DEF HeldBack, Awaited
  <2> QED BY <1>1, <2>1, <2>2, HeldJoinKeeps
<1>4. CASE OnChannel(c) /\ ~HeldBack(u, c)
  <2>1. net' = Join(net, u, c) /\ split' = split /\ net.me \in members[c]
    BY <1>4 DEF JoinComes, JoinLine, OnChannel
  <2>2. u \notin ToSet(split.quits[c])
    BY <1>4 DEF HeldBack, Awaited
  <2> QED BY <1>1, <2>1, <2>2, SeenJoinKeeps
<1> QED BY <1>2, <1>3, <1>4

LEMMA CoreJoinsKeeps ==
  ASSUME SplitInv, NEW c \in Chans, CoreJoins(c)
  PROVE  SplitInv'
<1> SUFFICES ASSUME calm'
             PROVE  SplitGood(net', split', members', ops')
  BY DEF SplitInv
<1>1. /\ SplitGood(net, split, members, ops) /\ net.connected /\ net.me \notin members[c]
      /\ members' = With(members, net.me, c) /\ ops' = ops /\ split' = split
      /\ net' = Names(Join(net, net.me, c), c, members[c], [v \in Nicks |-> IF v \in ops[c] THEN Modes ELSE {}])
  BY DEF SplitInv, CoreJoins, OnChannel, With
<1> QED BY <1>1, CoreJoinKeeps

LEMMA PartComesKeeps ==
  ASSUME SplitInv, NEW u \in Nicks, NEW c \in Chans, PartComes(u, c)
  PROVE  SplitInv'
<1> SUFFICES ASSUME calm'
             PROVE  SplitGood(net', split', members', ops')
  BY DEF SplitInv
<1>1. /\ SplitGood(net, split, members, ops) /\ net.connected /\ net.me \in members[c] /\ u \in members[c]
      /\ net' = Part(net, u, c) /\ split' = split
      /\ ~Pending(u) /\ (u = net.me => split.joins = NoSplit.joins)
  BY DEF SplitInv, PartComes, OnChannel
<1>2. members' = Minus(members, u, {c}) /\ ops' = Minus(ops, u, {c})
  BY LeavesIs DEF PartComes
<1>3. ~Pends(split, u)
  BY <1>1, PendsIs
<1> QED BY <1>1, <1>2, <1>3, PartKeeps

LEMMA ModeGivenKeeps ==
  ASSUME SplitInv, NEW u \in Nicks, NEW c \in Chans, NEW m \in Modes, ModeGiven(u, c, m)
  PROVE  SplitInv'
<1> SUFFICES ASSUME calm'
             PROVE  SplitGood(net', split', members', ops')
  BY DEF SplitInv
<1>1. /\ SplitGood(net, split, members, ops) /\ net.connected /\ net.me \in members[c] /\ u \in members[c]
      /\ u \notin ops[c] /\ ops' = With(ops, u, c) /\ members' = members
  BY DEF SplitInv, ModeGiven, OnChannel, With
<1>2. CASE u \in net.users /\ UserAlreadyJoined(split, u, c)
  <2>1. split' = AddMode(split, u, c, m) /\ net' = net
    BY <1>2 DEF ModeGiven
  <2> QED BY <1>1, <1>2, <2>1, HeldModeKeeps
<1>3. CASE ~(u \in net.users /\ UserAlreadyJoined(split, u, c))
  <2>1. net' = ModeLine(net, u, c, TRUE, m) /\ split' = split
    BY <1>3 DEF ModeGiven
  <2> QED BY <1>1, <1>3, <2>1, ShownModeKeeps
<1> QED BY <1>2, <1>3

LEMMA ConnectionLostKeepsInv ==
  ASSUME SplitInv, ConnectionLost
  PROVE  SplitInv'
<1>1. /\ SplitGood(net, split, members, ops) /\ net.connected
      /\ net' = Disconnect(net) /\ split' = NoSplit
      /\ members' = [c \in Chans |-> {}] /\ ops' = [c \in Chans |-> {}]
  BY DEF SplitInv, ConnectionLost
<1>2. SplitGood(net', split', members', ops')
  BY <1>1, ConnectionLostKeeps
<1> QED BY <1>2 DEF SplitInv

LEMMA SplitInvAlways == SplitSpec => []SplitInv
<1>1. SplitInv /\ [SplitNext]_splitVars => SplitInv'
  <2> SUFFICES ASSUME SplitInv, [SplitNext]_splitVars
               PROVE  SplitInv'
    OBVIOUS
  <2>1. CASE Timers
    BY <2>1, QuitTimeoutKeeps, JoinTimeoutKeeps, DiscardedKeeps DEF Timers
  <2>2. CASE Lines
    <3>1. ASSUME NEW u \in Nicks, Registered(u) \/ SplitQuit(u) \/ OrdinaryQuit(u)
          PROVE  SplitInv'
      BY <3>1, QuitsComeKeeps
    <3>2. ASSUME NEW u \in Nicks, NEW c \in Chans, JoinComes(u, c) \/ PartComes(u, c)
          PROVE  SplitInv'
      BY <3>2, JoinComesKeeps, PartComesKeeps
    <3>3. ASSUME NEW u \in Nicks, NEW c \in Chans, NEW m \in Modes, ModeGiven(u, c, m)
          PROVE  SplitInv'
      BY <3>3, ModeGivenKeeps
    <3>4. ASSUME NEW c \in Chans, CoreJoins(c)
          PROVE  SplitInv'
      BY <3>4, CoreJoinsKeeps
    <3>5. ConnectionLost => SplitInv'
      BY ConnectionLostKeepsInv
    <3> QED BY <2>2, <3>1, <3>2, <3>3, <3>4, <3>5 DEF Lines
  <2>3. CASE UNCHANGED splitVars
    BY <2>3 DEF splitVars, SplitInv
  <2> QED BY <2>1, <2>2, <2>3 DEF SplitNext
<1> QED BY <1>1, SplitInvInit, PTL DEF SplitSpec

\* While no line or timer comes at a moment the split cannot bear, holding quits and
\* joins back loses and invents nobody: whoever the core's list of a channel lacks is
\* held back by the split, whoever it has in excess waits to be let go, and a timer runs
\* that will see to it.
THEOREM HeldBackOnlyHolds == SplitSpec => []HeldBackOnly
<1>1. SplitInv => HeldBackOnly
  <2> SUFFICES ASSUME SplitInv, calm, NEW c \in Chans, OnChannel(c)
               PROVE  /\ members[c] \ net.roster[c] \subseteq {u \in Nicks : UserAlreadyJoined(split, u, c)}
                      /\ net.roster[c] \ members[c] \subseteq ToSet(split.quits[c])
                      /\ members[c] # net.roster[c] => split.joinTimer \/ split.quitTimer
    BY DEF HeldBackOnly
  <2>1. SplitGood(net, split, members, ops) /\ split \in SplitType
    BY DEF SplitInv, SplitGood
  <2>2. c \in net.chans /\ members[c] \subseteq Nicks /\ net.roster[c] \subseteq Nicks
    BY <2>1 DEF OnChannel, SplitGood, Placed, Truth, Good, NetType
  <2>3. members[c] \ net.roster[c] \subseteq Whos(split.joins[c])
        /\ net.roster[c] \ members[c] \subseteq QuitsToSend(split)[c]
    BY <2>1, <2>2 DEF SplitGood, ListsDiffer
  <2>4. Whos(split.joins[c]) # {} => split.joinTimer
    <3>1. split.joins[c] = << >> => Whos(split.joins[c]) = {}
      BY DEF Whos
    <3> QED BY <2>1, <3>1 DEF SplitGood, JoinsRight
  <2>5. QuitsToSend(split)[c] # {} => split.quitTimer
    BY <2>1 DEF SplitGood, QuitsRight
  <2>6. QuitsToSend(split)[c] \subseteq ToSet(split.quits[c])
    BY QuitsToSendIs
  <2>7. \A u : u \in Whos(split.joins[c]) => UserAlreadyJoined(split, u, c)
    BY <2>1, PendingIs
  <2>8. members[c] # net.roster[c] => split.joinTimer \/ split.quitTimer
    BY <2>2, <2>3, <2>4, <2>5
  <2> QED BY <2>2, <2>3, <2>6, <2>7, <2>8
<1> QED BY <1>1, SplitInvAlways, PTL

\* Nobody who was given a mode on a channel of the core lacks one there once the split
\* is over: not those whose join was held back, whether it was shown in one go or early.
THEOREM ModesKeptHolds == SplitSpec => []ModesKept
<1>1. SplitInv => ModesKept
  <2> SUFFICES ASSUME SplitInv, ~split.alive, calm, NEW c \in Chans, NEW u \in Nicks,
                      OnChannel(c), u \in ops[c]
               PROVE  net.modes[c][u] # {}
    BY DEF ModesKept
  <2>1. SplitGood(net, split, members, ops) /\ c \in net.chans
    BY DEF SplitInv, OnChannel, SplitGood, Placed
  <2>2. split = NoSplit
    BY <2>1 DEF SplitGood, Alive
  <2>3. Len(split.joins[c]) = 0
    BY <2>2, NoSplitIs
  <2> QED BY <2>1, <2>3 DEF SplitGood, ModesRight
<1> QED BY <1>1, SplitInvAlways, PTL
=============================================================================
