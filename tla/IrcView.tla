-------------------------------- MODULE IrcView --------------------------------
(***************************************************************************)
(* IrcState fed by an IRC server: the server knows who is on which channel *)
(* and sends the core a line for what it can see, the core works the lines *)
(* off in order.  Once the line is read empty, the core's picture of its   *)
(* own channels must be the server's.  No netsplits here.                  *)
(***************************************************************************)
EXTENDS IrcState, SequencesExt

CONSTANT MaxWire   \* bound on the lines under way

VARIABLES
  server,   \* [me, online, members, ops]: the truth
  wire      \* lines under way to the core

viewVars == <<net, server, wire>>

ViewInit ==
  /\ Init
  /\ server = [me |-> Nobody, online |-> {}, members |-> [c \in Chans |-> {}],
               ops |-> [c \in Chans |-> {}]]
  /\ wire = << >>

-----------------------------------------------------------------------------
(* the server *)

Visible(c) == server.me \in server.members[c]
SharesChannel(u) == u = server.me \/ \E c \in Chans : {u, server.me} \subseteq server.members[c]

\* The server does something, and tells us if we can see it.
Do(truth, visible, lines) ==
  /\ Len(wire) < MaxWire
  /\ server' = truth
  /\ wire' = IF visible THEN wire \o lines ELSE wire
  /\ UNCHANGED net

SignOn(u) ==
  /\ u \notin server.online
  /\ Do([server EXCEPT !.online = @ \union {u}], FALSE, << >>)

\* the core itself: its registration is answered with 001
CoreSignsOn(u) ==
  /\ u \notin server.online /\ server.me = Nobody
  /\ Do([server EXCEPT !.online = @ \union {u}, !.me = u], TRUE, <<[cmd |-> "001", who |-> u]>>)

NamesOf(s, c) ==
  [cmd |-> "353", chan |-> c, names |-> s.members[c],
   modes |-> [v \in Nicks |-> IF v \in s.ops[c] THEN Modes ELSE {}]]

\* whoever makes a channel is its operator; who joins is told who is there
UserJoins(u, c) ==
  /\ u \in server.online \ server.members[c]
  /\ LET s == [server EXCEPT !.members[c] = @ \union {u},
                             !.ops[c] = IF server.members[c] = {} THEN {u} ELSE @]
     IN Do(s, u = server.me \/ Visible(c),
           <<[cmd |-> "JOIN", who |-> u, chan |-> c]>> \o (IF u = server.me THEN <<NamesOf(s, c)>> ELSE << >>))

\* the user asks for the names of any channel
NamesAsked(c) == server.me # Nobody /\ Do(server, TRUE, <<NamesOf(server, c)>>)

Without(u, cs) ==
  [server EXCEPT !.members = [c \in Chans |-> IF c \in cs THEN @[c] \ {u} ELSE @[c]],
                 !.ops = [c \in Chans |-> IF c \in cs THEN @[c] \ {u} ELSE @[c]]]

UserParts(u, c) ==
  /\ u \in server.members[c]
  /\ Do(Without(u, {c}), Visible(c), <<[cmd |-> "PART", who |-> u, chan |-> c]>>)

\* by anybody: services kick from outside
UserKicked(by, u, c) ==
  /\ u \in server.members[c] /\ by \in server.online
  /\ Do(Without(u, {c}), Visible(c), <<[cmd |-> "KICK", by |-> by, who |-> u, chan |-> c]>>)

UserQuits(u) ==
  /\ u \in server.online \ {server.me}
  /\ Do([Without(u, Chans) EXCEPT !.online = @ \ {u}], SharesChannel(u), <<[cmd |-> "QUIT", who |-> u]>>)

UserRenames(u, w) ==
  /\ u \in server.online /\ w \notin server.online
  /\ Do([me |-> IF u = server.me THEN w ELSE server.me,
         online |-> Swap(server.online, u, w),
         members |-> [c \in Chans |-> Swap(server.members[c], u, w)],
         ops |-> [c \in Chans |-> Swap(server.ops[c], u, w)]],
        SharesChannel(u), <<[cmd |-> "NICK", who |-> u, new |-> w]>>)

TopicSet(by, c) ==
  /\ by \in server.online
  /\ Do(server, Visible(c), <<[cmd |-> "TOPIC", by |-> by]>>)

OpChanged(u, c, add) ==
  /\ u \in server.members[c]
  /\ \E m \in Modes :
       Do([server EXCEPT !.ops[c] = IF add THEN @ \union {u} ELSE @ \ {u}], Visible(c),
          <<[cmd |-> "MODE", who |-> u, chan |-> c, add |-> add, mode |-> m]>>)

\* the connection breaks: what is under way is lost, the server signs us off
Break ==
  /\ server.me # Nobody /\ net.connected
  /\ server' = [Without(server.me, Chans) EXCEPT !.online = @ \ {server.me}, !.me = Nobody]
  /\ wire' = << >>
  /\ net' = Disconnect(net)

-----------------------------------------------------------------------------
\* The core works off the next line.
ReceiveNext ==
  /\ wire # << >>
  /\ net' = Handle(net, Head(wire))
  /\ wire' = Tail(wire)
  /\ UNCHANGED server

ViewNext ==
  \/ ReceiveNext
  \/ Break
  \/ \E u, w \in Nicks, c \in Chans :
       \/ SignOn(u) \/ CoreSignsOn(u) \/ UserJoins(u, c) \/ NamesAsked(c) \/ UserParts(u, c) \/ UserKicked(w, u, c)
       \/ UserQuits(u) \/ UserRenames(u, w) \/ TopicSet(u, c)
       \/ OpChanged(u, c, TRUE) \/ OpChanged(u, c, FALSE)

ViewSpec == ViewInit /\ [][ViewNext]_viewVars

-----------------------------------------------------------------------------
\* Whatever happened and however it was worked off: with no line under way, the core
\* is on the channels the server has it on, lists the same members with the same
\* operators, and knows its own nick.
Converged ==
  wire = << >> /\ net.connected =>
    /\ net.me = server.me
    /\ net.chans = {c \in Chans : Visible(c)}
    /\ \A c \in net.chans :
         /\ net.roster[c] = server.members[c]
         /\ {u \in Nicks : net.modes[c][u] # {}} = server.ops[c]

\* Whoever leaves the last channel we share is forgotten at once, whichever line took
\* the channel away: only then may the nick later stand for somebody else.
LeaversForgotten ==
  [][\A u \in net.users \ {net.me, net'.me} :
       net.on[u] # {} /\ net'.on[u] = {} => u \notin net'.users]_viewVars

\* The core works off only lines that IrcState allows: none ever gives a user the nick
\* of somebody the core still has on a channel.  So every step is a step of IrcState.
LinesAllowed == wire # << >> => Head(wire) \in LinesOf(net)
=============================================================================
