------------------------------- MODULE AutoWho -------------------------------
(***************************************************************************)
(* The core's own WHO queries (core/corenetwork.cpp, sendAutoWho and its   *)
(* callers): one channel at a time, in cycles, on the connection on which  *)
(* the user's own queries travel too.  The server answers in order; the    *)
(* core shows the end of an answer unless it takes it for one to itself,   *)
(* for which it has the channel's name alone.  A name with a suffix after  *)
(* an underscore is a faulty variant of the definition below it.           *)
(***************************************************************************)
EXTENDS Integers, SequencesExt

CONSTANTS
  Chans,      \* channels
  Large,      \* those with autoWhoNickLimit or more users
  MaxActs     \* bound on the user's queries and joins on one connection

ASSUME AutoWhoAssumption ==
  /\ Large \subseteq Chans
  /\ MaxActs \in Nat

VARIABLES
  on,        \* isConnected()
  enabled,   \* networkConfig()->autoWhoEnabled()
  joined,    \* channels()
  who,       \* the state of AutoWho, see WhoType
  asked,     \* WHOs under way to the server and not answered: [chan, by]
  acts,      \* history: the user's queries and joins on this connection
  owed       \* history: of each channel, the user's answers kept from the user, less
             \* the core's own that were shown

whoVars == <<on, enabled, joined, who, asked, acts, owed>>

WhoType ==
  [queue   : Seq(Chans),         \* _autoWhoQueue
   pending : [Chans -> Nat],     \* _autoWhoPending
   timer   : BOOLEAN,            \* _autoWhoTimer.isActive()
   cycle   : BOOLEAN]            \* _autoWhoCycleTimer.isActive()

Idle == [queue |-> << >>, pending |-> [c \in Chans |-> 0], timer |-> FALSE, cycle |-> FALSE]
Settled == [c \in Chans |-> 0]

WhoInit ==
  /\ on = FALSE /\ enabled \in BOOLEAN /\ joined = {}
  /\ who = Idle /\ asked = << >> /\ acts = 0 /\ owed = Settled

-----------------------------------------------------------------------------
(* cycles *)

\* channels() is in no particular order
Orders(S) == {s \in [1 .. Cardinality(S) -> S] : \A i, j \in DOMAIN s : i # j => s[i] # s[j]}

\* startAutoWhoCycle; all is channels()
StartCycle(w, all) ==
  IF w.queue # << >> THEN [w EXCEPT !.cycle = FALSE] ELSE [w EXCEPT !.queue = all]

\* the first channel of the queue that is asked about; 0 if there is none
Askable(c) == c \in joined \ Large
FirstAskable(q) == SelectInSeq(q, Askable)

\* what is left of the queue; channels passed over are gone
QueueAfter(q, n) == IF n = 0 THEN << >> ELSE SubSeq(q, n + 1, Len(q))

\* the queue is empty: a cycle that is overdue starts at once
IfDue_Never(w, all) == w
IfDue(w, all) ==
  IF w.queue = << >> /\ enabled /\ ~w.cycle
    THEN StartCycle([w EXCEPT !.cycle = TRUE], all) ELSE w

NonePending(w) == \A c \in Chans : w.pending[c] = 0

SendAutoWho ==
  /\ who.timer
  /\ NonePending(who)
  /\ LET n == FirstAskable(who.queue)
         c == who.queue[n]
         w == [who EXCEPT !.queue = QueueAfter(@, n)]
     IN \E all \in Orders(joined) :
          \/ /\ n = 0
             /\ who' = IfDue(w, all) /\ UNCHANGED asked
          \/ /\ n # 0
             /\ who' = IfDue([w EXCEPT !.pending[c] = @ + 1], all)
             /\ asked' = Append(asked, [chan |-> c, by |-> "core"])
  /\ UNCHANGED <<on, enabled, joined, acts, owed>>

CycleTimeout ==
  /\ who.cycle
  /\ \E all \in Orders(joined) : who' = StartCycle(who, all)
  /\ UNCHANGED <<on, enabled, joined, asked, acts, owed>>

\* a client changes the setting
SetAutoWhoEnabled(enable) ==
  /\ enabled # enable
  /\ enabled' = enable
  /\ who' = IF enable THEN [who EXCEPT !.timer = @ \/ on]
                      ELSE [who EXCEPT !.timer = FALSE, !.cycle = FALSE]
  /\ UNCHANGED <<on, joined, asked, acts, owed>>

-----------------------------------------------------------------------------
(* answers *)

\* setAutoWhoDone, for the end of an answer: [silent, w]
Done_Stays(w, c) == [silent |-> w.pending[c] > 0, who |-> w]
Done(w, c) ==
  IF w.pending[c] = 0 THEN [silent |-> FALSE, who |-> w]
  ELSE [silent |-> TRUE, who |-> [w EXCEPT !.pending[c] = @ - 1]]

\* history: an answer of the user's that is not shown, one of the core's that is
Kept(by, silent) ==
  CASE by = "user" /\ silent -> 1
    [] by = "core" /\ ~silent -> -1
    [] OTHER -> 0

\* 315
EndOfWho ==
  /\ asked # << >>
  /\ LET q == Head(asked)
         d == Done(who, q.chan)
     IN /\ who' = d.who
        /\ owed' = [owed EXCEPT ![q.chan] = @ + Kept(q.by, d.silent)]
  /\ asked' = Tail(asked)
  /\ UNCHANGED <<on, enabled, joined, acts>>

\* /who
UserWho(c) ==
  /\ on
  /\ acts < MaxActs /\ acts' = acts + 1   \* bound
  /\ asked' = Append(asked, [chan |-> c, by |-> "user"])
  /\ UNCHANGED <<on, enabled, joined, who, owed>>

-----------------------------------------------------------------------------
(* channels and connections *)

SetChannelJoined(c) ==
  /\ on /\ c \notin joined
  /\ acts < MaxActs /\ acts' = acts + 1   \* bound
  /\ joined' = joined \union {c}
  /\ who' = [who EXCEPT !.queue = <<c>> \o @]
  /\ UNCHANGED <<on, enabled, asked, owed>>

WithoutChan(q, c) == SelectSeq(q, LAMBDA d : d # c)

\* A part clears what is queued and pending, a kick does not.
SetChannelParted(c) ==
  /\ c \in joined
  /\ joined' = joined \ {c}
  /\ who' = [who EXCEPT !.queue = WithoutChan(@, c), !.pending[c] = 0]
  /\ UNCHANGED <<on, enabled, asked, acts, owed>>

Kicked(c) ==
  /\ c \in joined
  /\ joined' = joined \ {c}
  /\ UNCHANGED <<on, enabled, who, asked, acts, owed>>

NetworkInitialized ==
  /\ ~on
  /\ on' = TRUE
  /\ who' = IF enabled THEN [who EXCEPT !.timer = TRUE, !.cycle = TRUE] ELSE who
  /\ UNCHANGED <<enabled, joined, asked, acts, owed>>

Cleared_KeepsPending(w) == [Idle EXCEPT !.pending = w.pending]
Cleared(w) == Idle

WhoSocketDisconnected ==
  /\ on
  /\ on' = FALSE
  /\ who' = Cleared(who)
  /\ joined' = {} /\ asked' = << >> /\ acts' = 0 /\ owed' = Settled
  /\ UNCHANGED enabled

WhoNext ==
  \/ SendAutoWho \/ CycleTimeout \/ EndOfWho
  \/ \E e \in BOOLEAN : SetAutoWhoEnabled(e)
  \/ \E c \in Chans : UserWho(c) \/ SetChannelJoined(c) \/ SetChannelParted(c) \/ Kicked(c)
  \/ NetworkInitialized \/ WhoSocketDisconnected

WhoSpec == WhoInit /\ [][WhoNext]_whoVars

\* Active timers expire, and the server answers.
WhoFairness == WF_whoVars(SendAutoWho) /\ WF_whoVars(CycleTimeout) /\ WF_whoVars(EndOfWho)
FairWhoSpec == WhoSpec /\ WhoFairness

-----------------------------------------------------------------------------
WhoTypeOK ==
  /\ on \in BOOLEAN /\ enabled \in BOOLEAN /\ joined \subseteq Chans
  /\ who \in WhoType
  /\ asked \in Seq([chan : Chans, by : {"core", "user"}])
  /\ acts \in Nat /\ owed \in [Chans -> Int]

\* Nothing is kept from the user for good: the core may hide the end of an answer the user
\* asked for in place of its own, but never more of them than it has queries of its own to
\* that channel under way, whose ends it will then show.
OwnAsked(c) == Cardinality({i \in DOMAIN asked : asked[i].chan = c /\ asked[i].by = "core"})
NoneSwallowed == \A c \in Chans : owed[c] <= OwnAsked(c)

\* Every channel the core is on and that is not too large is asked about again and again,
\* through restarts of cycles, switching AutoWho off and on, parts, kicks and other
\* people's queries.
AskedAgain ==
  \A c \in Chans \ Large :
    (on /\ enabled /\ c \in joined) ~> (who.pending[c] > 0 \/ ~(on /\ enabled /\ c \in joined))
=============================================================================
