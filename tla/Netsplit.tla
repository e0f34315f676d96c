-------------------------------- MODULE Netsplit --------------------------------
(***************************************************************************)
(* core/netsplit.cpp and its use in CoreSessionEventProcessor.  When two   *)
(* IRC servers lose each other, every user beyond the gap "quits", and     *)
(* joins again when the servers meet.  The core holds both back: it keeps  *)
(* the users listed until no more quits came for 10 seconds, then lets     *)
(* them all go, and lists those who return only 30 seconds after the last  *)
(* one.  Here IrcState runs with one such split (one quit message), and    *)
(* every line is worked off as it is sent, so that what is left is the     *)
(* race of the lines with the timers.  `calm' says whether they stayed     *)
(* within the order the code was written for.                              *)
(* A name with a suffix after an underscore is a faulty variant of the     *)
(* definition below it.                                                    *)
(***************************************************************************)
EXTENDS IrcState, SequencesExt

CONSTANTS
  Share,     \* a split is over once a Share-th of the quits came back: 3 in the code
  MaxQuits   \* bound on the quits of one split

ASSUME NetsplitAssumption ==
  /\ IsFiniteSet(Nicks) /\ IsFiniteSet(Chans)
  /\ Share \in Nat \ {0} /\ MaxQuits \in Nat

VARIABLES
  split,     \* the Netsplit of this network
  members,   \* the truth: of each channel, who is on it
  ops,       \* and who was given a mode there since joining
  calm       \* history: nothing has come at a moment the timers cannot bear

splitVars == <<net, split, members, ops, calm>>

\* _quits, _joins and _quitsWithMessageSent, by channel; _sentQuit; the counters; the
\* timers (the one hour of _discardTimer runs as long as the object lives)
NoSplit ==
  [alive |-> FALSE, quits |-> [c \in Chans |-> << >>], joins |-> [c \in Chans |-> << >>],
   told |-> [c \in Chans |-> {}], sentQuit |-> FALSE, joinCounter |-> 0, quitCounter |-> 0,
   quitTimer |-> FALSE, joinTimer |-> FALSE]

SplitInit ==
  /\ Init
  /\ split = NoSplit
  /\ members = [c \in Chans |-> {}]
  /\ ops = [c \in Chans |-> {}]
  /\ calm = TRUE

-----------------------------------------------------------------------------
(* Netsplit *)

UserQuit(s, u, cs) ==
  [s EXCEPT !.alive = TRUE,
            !.quits = [c \in Chans |-> IF c \in cs THEN Append(@[c], u) ELSE @[c]],
            !.quitCounter = @ + 1,
            !.quitTimer = TRUE]

Awaited(s, u, c) == u \in ToSet(s.quits[c])

UserJoined(s, u, c) ==
  [s EXCEPT !.quits[c] = RemoveFirst(@, u),
            !.joins[c] = Append(@, [who |-> u, modes |-> << >>]),
            !.joinCounter = @ + 1,
            !.joinTimer = TRUE]

IndexOf(list, u) == SelectInSeq(list, LAMBDA j : j.who = u)
UserAlreadyJoined_Never(s, u, c) == FALSE
UserAlreadyJoined(s, u, c) == IndexOf(s.joins[c], u) # 0
AddMode(s, u, c, m) ==
  [s EXCEPT !.joins[c][IndexOf(s.joins[c], u)].modes = Append(@, m)]

\* quitTimeout: who is announced as gone now, and the object afterwards
QuitsToSend(s) == [c \in Chans |-> ToSet(s.quits[c]) \ s.told[c]]
QuitsSent(s) ==
  [s EXCEPT !.told = [c \in Chans |-> @[c] \union QuitsToSend(s)[c]],
            !.sentQuit = TRUE, !.quitTimer = FALSE]

-----------------------------------------------------------------------------
(* CoreSessionEventProcessor: what becomes of the object's signals *)

HandleNetsplitQuit_AnnouncedOnly(n, gone) == n
HandleNetsplitQuit(n, gone) ==
  FoldSet(LAMBDA u, acc : Quit(acc, u), n, UNION {gone[c] : c \in Chans})

\* joinIrcUsers: a user who is listed takes a single mode only
TakesModes(n, c, j) == IF j.who \in n.roster[c] /\ Len(j.modes) > 1 THEN {} ELSE ToSet(j.modes)
JoinAll(n, c, us, ms) ==
  IF c \notin n.chans \/ Len(us) # Len(ms) THEN n
  ELSE FoldLeft(LAMBDA acc, j : JoinIrcUsers(acc, c, {j.who}, [v \in Nicks |-> TakesModes(acc, c, j)]),
                n, [i \in DOMAIN us |-> [who |-> us[i].who, modes |-> ms[i]]])

\* users who quit since are left out; their modes are taken away by their place in
\* the whole list
Staying(n, list) ==
  FoldLeft(LAMBDA us, j : IF j.who \in n.users THEN Append(us, j) ELSE us, << >>, list)
ModesLeft(n, list) ==
  FoldLeft(LAMBDA ms, j : IF j.who \in n.users \/ IndexOf(list, j.who) > Len(ms) THEN ms
                          ELSE RemoveAt(ms, IndexOf(list, j.who)),
           [i \in DOMAIN list |-> list[i].modes], list)
HandleNetsplitJoin(n, c, list) == JoinAll(n, c, Staying(n, list), ModesLeft(n, list))

HandleEarlyNetsplitJoin(n, c, list) ==
  JoinAll(IF c \in n.chans THEN [n EXCEPT !.users = @ \union {list[i].who : i \in DOMAIN list}] ELSE n,
          c, list, [i \in DOMAIN list |-> list[i].modes])

JoinEverywhere(n, s, Join1(_, _, _)) ==
  FoldSet(LAMBDA c, acc : Join1(acc, c, s.joins[c]), n, Chans)

-----------------------------------------------------------------------------
(* the timers *)

\* A user who came back is still among those to be let go.
Returning(s) == \E c \in Chans, d \in Chans : QuitsToSend(s)[c] \intersect members[d] # {}

QuitTimeout ==
  /\ calm /\ split.quitTimer
  /\ net' = HandleNetsplitQuit(net, QuitsToSend(split))
  /\ split' = QuitsSent(split)
  /\ calm' = ~Returning(split)
  /\ UNCHANGED <<members, ops>>

TooFewJoins(s) == s.joinCounter < s.quitCounter \div Share

JoinTimeout ==
  /\ calm /\ split.joinTimer
  /\ LET s == IF split.sentQuit THEN split ELSE QuitsSent(split)
         n == IF split.sentQuit THEN net ELSE HandleNetsplitQuit(net, QuitsToSend(split))
     IN IF TooFewJoins(s)
        THEN /\ net' = JoinEverywhere(n, s, HandleEarlyNetsplitJoin)
             /\ split' = [s EXCEPT !.joins = NoSplit.joins]
        ELSE /\ net' = JoinEverywhere(n, s, HandleNetsplitJoin)
             /\ split' = NoSplit
  /\ calm' = ((split.sentQuit => ~split.quitTimer) /\ (split.sentQuit \/ ~Returning(split)))
  /\ UNCHANGED <<members, ops>>

\* one hour after the first quit
Discard ==
  /\ calm /\ split.alive
  /\ split' = NoSplit
  /\ calm' = (split.joins = NoSplit.joins /\ ~split.quitTimer)
  /\ UNCHANGED <<net, members, ops>>

-----------------------------------------------------------------------------
(* the server's lines *)

OnChannel(c) == net.me \in members[c]
Shares(u) == \E c \in Chans : {u, net.me} \subseteq members[c]
Pending(u) == \E c \in Chans : UserAlreadyJoined(split, u, c)
Leaves(u, cs) ==
  /\ members' = [c \in Chans |-> IF c \in cs THEN members[c] \ {u} ELSE members[c]]
  /\ ops' = [c \in Chans |-> IF c \in cs THEN ops[c] \ {u} ELSE ops[c]]

Registered(u) ==
  /\ calm /\ ~net.connected
  /\ net' = Welcome(net, u)
  /\ UNCHANGED <<split, members, ops, calm>>

\* QUIT with the split's message
SplitQuit(u) ==
  /\ calm /\ net.connected /\ u # net.me /\ Shares(u)
  /\ split.quitCounter < MaxQuits
  /\ Leaves(u, Chans)
  /\ split' = UserQuit(split, u, net.on[u])
  /\ net' = NewIrcUser(net, u)
  /\ calm' = (~Pending(u) /\ \A c \in Chans : u \notin split.told[c])

\* QUIT with any other
OrdinaryQuit(u) ==
  /\ calm /\ net.connected /\ u # net.me /\ Shares(u)
  /\ Leaves(u, Chans)
  /\ net' = QuitLine(net, u)
  /\ calm' = ~Pending(u)
  /\ UNCHANGED split

\* JOIN; somebody the split awaits is held back
HeldBack(u, c) == Awaited(split, u, c)

JoinLine(u, c) ==
  IF HeldBack(u, c)
  THEN net' = NewIrcUser(net, u) /\ split' = UserJoined(split, u, c)
  ELSE net' = Join(net, u, c) /\ split' = split

JoinComes(u, c) ==
  /\ calm /\ net.connected /\ u # net.me /\ u \notin members[c]
  /\ members' = [members EXCEPT ![c] = @ \union {u}]
  /\ IF OnChannel(c) THEN JoinLine(u, c) ELSE UNCHANGED <<net, split>>
  /\ UNCHANGED <<ops, calm>>

\* the core's own join comes with the names
CoreJoins(c) ==
  /\ calm /\ net.connected /\ ~OnChannel(c)
  /\ members' = [members EXCEPT ![c] = @ \union {net.me}]
  /\ net' = Names(Join(net, net.me, c), c, members[c], [v \in Nicks |-> IF v \in ops[c] THEN Modes ELSE {}])
  /\ UNCHANGED <<split, ops, calm>>

PartComes(u, c) ==
  /\ calm /\ net.connected /\ OnChannel(c) /\ u \in members[c]
  /\ Leaves(u, {c})
  /\ net' = Part(net, u, c)
  /\ calm' = (~Pending(u) /\ (u = net.me => split.joins = NoSplit.joins))
  /\ UNCHANGED split

\* +m: kept with the join while that is held back
ModeGiven(u, c, m) ==
  /\ calm /\ net.connected /\ OnChannel(c) /\ u \in members[c]
  /\ u \notin ops[c]
  /\ ops' = [ops EXCEPT ![c] = @ \union {u}]
  /\ IF u \in net.users /\ UserAlreadyJoined(split, u, c)
     THEN split' = AddMode(split, u, c, m) /\ net' = net
     ELSE net' = ModeLine(net, u, c, TRUE, m) /\ split' = split
  /\ UNCHANGED <<members, calm>>

\* destroyNetsplits, and the network forgets everything
ConnectionLost ==
  /\ calm /\ net.connected
  /\ net' = Disconnect(net) /\ split' = NoSplit
  /\ members' = [c \in Chans |-> {}] /\ ops' = [c \in Chans |-> {}]
  /\ UNCHANGED calm

Timers == QuitTimeout \/ JoinTimeout \/ Discard
Lines ==
  \/ \E u \in Nicks : Registered(u) \/ SplitQuit(u) \/ OrdinaryQuit(u)
  \/ \E u \in Nicks, c \in Chans : JoinComes(u, c) \/ PartComes(u, c) \/ \E m \in Modes : ModeGiven(u, c, m)
  \/ \E c \in Chans : CoreJoins(c)
  \/ ConnectionLost

SplitNext == Timers \/ Lines
SplitSpec == SplitInit /\ [][SplitNext]_splitVars

-----------------------------------------------------------------------------
\* Holding quits and joins back loses and invents nobody: a member the core does not
\* list is held back by the split, somebody listed in error waits to be let go, and a
\* timer runs that will see to it.  So with no split left the lists are right.
HeldBackOnly ==
  calm => \A c \in Chans : OnChannel(c) =>
    /\ members[c] \ net.roster[c] \subseteq {u \in Nicks : UserAlreadyJoined(split, u, c)}
    /\ net.roster[c] \ members[c] \subseteq ToSet(split.quits[c])
    /\ members[c] # net.roster[c] => split.joinTimer \/ split.quitTimer

\* Nobody who was given a mode while held back has lost it once the split is over.
ModesKept ==
  ~split.alive /\ calm => \A c \in Chans, u \in Nicks :
    OnChannel(c) /\ u \in ops[c] => net.modes[c][u] # {}
=============================================================================
