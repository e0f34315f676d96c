-------------------------------- MODULE IrcState --------------------------------
(***************************************************************************)
(* What the core knows of one IRC network: common/network.cpp, ircuser.cpp *)
(* and ircchannel.cpp, as CoreSessionEventProcessor drives them line by    *)
(* line.  Membership is kept twice, by the channel (_userModes) and by the *)
(* user (_channels), and each side's removal calls the other's.  Nicks and *)
(* channels stand for themselves in lower case.  A name with a suffix      *)
(* after an underscore is a faulty variant of the definition below it.     *)
(***************************************************************************)
EXTENDS Naturals, FiniteSets

CONSTANTS
  Nicks,      \* the nicks in use on the network
  Chans,      \* its channels
  Modes,      \* a member's modes: op, voice
  Nobody      \* no nick yet: myNick() is empty

ASSUME IrcStateAssumption == Nobody \notin Nicks

VARIABLE net
\* [me        |-> _myNick,
\*  connected |-> _connected,
\*  users     |-> keys of _ircUsers,
\*  chans     |-> keys of _ircChannels,
\*  roster    |-> of each channel, the keys of _userModes,
\*  modes     |-> of each channel and member, the value of _userModes,
\*  on        |-> of each user, _channels]

NetType ==
  [me : Nicks \union {Nobody}, connected : BOOLEAN,
   users : SUBSET Nicks, chans : SUBSET Chans,
   roster : [Chans -> SUBSET Nicks], modes : [Chans -> [Nicks -> SUBSET Modes]],
   on : [Nicks -> SUBSET Chans]]

Empty ==
  [me |-> Nobody, connected |-> FALSE, users |-> {}, chans |-> {},
   roster |-> [c \in Chans |-> {}], modes |-> [c \in Chans |-> [u \in Nicks |-> {}]],
   on |-> [u \in Nicks |-> {}]]

-----------------------------------------------------------------------------
(* Network, IrcUser, IrcChannel *)

NewIrcUser(n, u) == [n EXCEPT !.users = @ \union {u}]
NewIrcChannel(n, c) == [n EXCEPT !.chans = @ \union {c}]

AddUserMode(n, u, c, m) ==
  IF u \in n.roster[c] THEN [n EXCEPT !.modes[c][u] = @ \union m] ELSE n
RemoveUserMode(n, u, c, m) ==
  IF u \in n.roster[c] THEN [n EXCEPT !.modes[c][u] = @ \ m] ELSE n

\* IrcChannel::joinIrcUsers for some known users, who may be on the channel already,
\* with the modes m[u] each
JoinIrcUsers_OneSided(n, c, us, m) == [n EXCEPT !.roster[c] = @ \union us]
JoinIrcUsers(n, c, us, m) ==
  [n EXCEPT !.roster[c] = @ \union us,
            !.modes[c] = [u \in Nicks |-> IF u \in us THEN @[u] \union m[u] ELSE @[u]],
            !.on = [u \in Nicks |-> IF u \in us THEN @[u] \union {c} ELSE @[u]]]

\* IrcUser::joinChannel: nothing to do if the user believes to be there
JoinChannel(n, u, c) ==
  LET known == NewIrcChannel(n, c)
  IN IF c \in n.on[u] THEN known ELSE JoinIrcUsers(known, c, {u}, [v \in Nicks |-> {}])

\* IrcChannel::part on each of cs: without me, or without anybody, a channel is
\* given up, and those who were only there are forgotten.
GivenUp_OnlyEmpty(n, u, cs) == {c \in cs : n.roster[c] \ {u} = {}}
GivenUp(n, u, cs) == {c \in cs : u = n.me \/ n.roster[c] \ {u} = {}}

Strangers_Kept(n, u, gone) == {}
Strangers(n, u, gone) == {v \in n.users \ {u, n.me} : n.on[v] # {} /\ n.on[v] \subseteq gone}

LeaveChannels(n, u, cs) ==
  LET gone == GivenUp(n, u, cs)
  IN [n EXCEPT
        !.roster = [c \in Chans |-> IF c \in gone THEN {} ELSE IF c \in cs THEN @[c] \ {u} ELSE @[c]],
        !.modes = [c \in Chans |-> [v \in Nicks |->
                    IF c \in gone \/ (c \in cs /\ v = u) THEN {} ELSE @[c][v]]],
        !.on = [v \in Nicks |-> IF v = u THEN @[v] \ cs ELSE @[v] \ gone],
        !.chans = @ \ gone,
        !.users = @ \ Strangers(n, u, gone)]

\* IrcUser::partChannel: whoever is on no channel of ours any more is forgotten
Forgotten(n, u) == n.on[u] = {} /\ u # n.me

RemoveIrcUser(n, u) == [n EXCEPT !.users = @ \ {u}]

PartChannel(n, u, c) ==
  IF c \notin n.on[u] THEN n
  ELSE LET left == LeaveChannels(n, u, {c})
       IN IF Forgotten(left, u) THEN RemoveIrcUser(left, u) ELSE left

Quit(n, u) == RemoveIrcUser(LeaveChannels(n, u, n.on[u]), u)

SetMyNick(n, u) == NewIrcUser([n EXCEPT !.me = u], u)

\* IrcUser::setNick and ircUserNickChanged.  The two sides of the membership keep
\* the object; whoever had the new nick is overwritten.
Swap(S, u, w) == IF u \in S THEN (S \ {u}) \union {w} ELSE S
Me_Stays(n, u, w) == n.me
Me(n, u, w) == IF n.me = u THEN w ELSE n.me

SetNick(n, u, w) ==
  [n EXCEPT !.me = Me(n, u, w),
            !.users = Swap(@, u, w),
            !.roster = [c \in Chans |-> Swap(@[c], u, w)],
            !.modes = [c \in Chans |-> [v \in Nicks |->
                        IF v = u THEN {}
                        ELSE IF v = w /\ u \in n.roster[c] THEN @[c][u] ELSE @[c][v]]],
            !.on = [v \in Nicks |-> IF v = u THEN {} ELSE IF v = w THEN @[u] ELSE @[v]]]

-----------------------------------------------------------------------------
(* CoreSessionEventProcessor: one operator per line *)

\* updateNickFromMask of the prefix comes first
Join(n, u, c) == JoinChannel(NewIrcUser(n, u), u, c)
Part(n, u, c) == PartChannel(NewIrcUser(n, u), u, c)
Kick(n, by, u, c) ==
  LET k == NewIrcUser(n, by)
  IN IF u \in k.users THEN PartChannel(k, u, c) ELSE k
QuitLine(n, u) == Quit(NewIrcUser(n, u), u)
Nick(n, u, w) == IF u = w THEN NewIrcUser(n, u) ELSE SetNick(NewIrcUser(n, u), u, w)
Topic(n, by) == NewIrcUser(n, by)
ModeLine(n, u, c, add, m) ==
  IF c \notin n.chans \/ u \notin n.users THEN n
  ELSE IF add THEN AddUserMode(n, u, c, {m}) ELSE RemoveUserMode(n, u, c, {m})
Names(n, c, us, m) ==
  IF c \notin n.chans THEN n
  ELSE JoinIrcUsers([n EXCEPT !.users = @ \union us], c, us, m)

\* 001 and the end of a connection (setConnected(false) forgets everything)
Welcome(n, u) == [SetMyNick(n, u) EXCEPT !.connected = TRUE]
Disconnect(n) == IF n.connected THEN Empty ELSE n

\* A line as the server sends it.
Handle(n, l) ==
  CASE l.cmd = "JOIN"  -> Join(n, l.who, l.chan)
    [] l.cmd = "PART"  -> Part(n, l.who, l.chan)
    [] l.cmd = "KICK"  -> Kick(n, l.by, l.who, l.chan)
    [] l.cmd = "QUIT"  -> QuitLine(n, l.who)
    [] l.cmd = "NICK"  -> Nick(n, l.who, l.new)
    [] l.cmd = "TOPIC" -> Topic(n, l.by)
    [] l.cmd = "MODE"  -> ModeLine(n, l.who, l.chan, l.add, l.mode)
    [] l.cmd = "353"   -> Names(n, l.chan, l.names, l.modes)
    [] l.cmd = "001"   -> Welcome(n, l.who)

-----------------------------------------------------------------------------
(* Any line at any time; but a server lets nobody take the nick of a user we see. *)

LinesOf(n) ==
       [cmd : {"JOIN", "PART"}, who : Nicks, chan : Chans]
  \union [cmd : {"KICK"}, by : Nicks, who : Nicks, chan : Chans]
  \union [cmd : {"QUIT", "001"}, who : Nicks]
  \union {l \in [cmd : {"NICK"}, who : Nicks, new : Nicks] : l.who = l.new \/ n.on[l.new] = {}}
  \union [cmd : {"TOPIC"}, by : Nicks]
  \union [cmd : {"MODE"}, who : Nicks, chan : Chans, add : BOOLEAN, mode : Modes]
  \union [cmd : {"353"}, chan : Chans, names : SUBSET Nicks, modes : [Nicks -> SUBSET Modes]]

Init == net = Empty
ReceiveLine == \E l \in LinesOf(net) : net' = Handle(net, l)
SocketDisconnected == net' = Disconnect(net)
Next == ReceiveLine \/ SocketDisconnected
Spec == Init /\ [][Next]_net

-----------------------------------------------------------------------------
\* What a channel lists is known to the network.
TypeOK ==
  /\ net \in NetType
  /\ \A c \in Chans : net.roster[c] # {} => c \in net.chans
  /\ \A c \in Chans : net.roster[c] \subseteq net.users

\* The two sides agree: a channel lists a user exactly when the user lists the
\* channel, and only members have modes there.
TwoWay ==
  /\ \A c \in Chans, u \in Nicks : u \in net.roster[c] <=> c \in net.on[u]
  /\ \A c \in Chans, u \in Nicks : net.modes[c][u] # {} => u \in net.roster[c]
=============================================================================
