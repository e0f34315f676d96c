------------------------------ MODULE DetachAway ------------------------------
(***************************************************************************)
(* How the core keeps its user away on one network: "Away On Detach" when  *)
(* the last client leaves and the first one comes (core/coresession.cpp),  *)
(* the user's /away (core/coreuserinputhandler.cpp), and what is saved     *)
(* when the core disconnects and restored at 001 (core/corenetwork.cpp).   *)
(* The server answers AWAY in order, with 305 or 306.  Clients are only    *)
(* counted; how they come and go is the subject of Attach.  A name with a  *)
(* suffix after an underscore is a faulty variant of the definition below  *)
(* it.                                                                     *)
(***************************************************************************)
EXTENDS Integers, SequencesExt

CONSTANTS
  Messages,      \* away messages
  None,          \* no message; an AWAY without one takes the user back
  Quit,          \* the QUIT command
  DetachReason,  \* identity->detachAwayReason()
  AwayReason,    \* identity->awayReason(), or else "away"
  MaxPeers,      \* bound on the clients
  MaxLines       \* bound on the commands that are not answered

\* what `intent' is apart from a message or None
Some == "away with some message"
Unsure == "unsure"

ASSUME DetachAwayAssumption ==
  /\ None \notin Messages /\ Quit \notin Messages \union {None}
  /\ {Some, Unsure} \intersect (Messages \union {None}) = {}
  /\ AwayReason \in Messages /\ DetachReason \in Messages \union {None}
  /\ MaxPeers \in Nat /\ MaxLines \in Nat

VARIABLES
  attached,     \* number of peers of the session's SignalProxy
  detachAway,   \* identity->detachAwayEnabled()
  up,           \* isConnected(): from 001 to the end of the connection
  me,           \* isAway() and awayMessage() of me()
  stored,       \* Core::awayMessage, in the database
  lines,        \* AWAY and QUIT commands without an answer, in the queue or sent
  server,       \* the away message the server shows, or None
  intent        \* history: what the server should come to show, see Decided

awayVars == <<attached, detachAway, up, me, stored, lines, server, intent>>

NewIrcUser == [away |-> FALSE, msg |-> None]

AwayInit ==
  /\ attached = 0 /\ detachAway \in BOOLEAN
  /\ up = FALSE /\ me = NewIrcUser /\ stored = None /\ lines = << >>
  /\ server = None /\ intent = None

Has(ls, m) == \E i \in DOMAIN ls : ls[i] = m
Quitting == Has(lines, Quit)
\* no AWAY is under way
AllAnswered == \A i \in DOMAIN lines : lines[i] = Quit

-----------------------------------------------------------------------------
(* the command *)

\* issueAway.  Without a connection me() is null, and the line is either lost or, if the
\* bucket is empty, kept in the queue.
AwayMsg(m, autoCheck) == IF autoCheck /\ m = None /\ up /\ ~me.away THEN AwayReason ELSE m
SetAwayMessage(k, m) == IF m = None THEN k ELSE [k EXCEPT !.msg = m]
IssueAway(m, autoCheck) ==
  LET awayMsg == AwayMsg(m, autoCheck)
  IN /\ Len(lines) < MaxLines
     /\ me' = IF up THEN SetAwayMessage(me, awayMsg) ELSE me
     /\ lines' = Append(lines, awayMsg) \/ (~up /\ lines' = lines)

\* what a command of the user's asks for
ToldByUser(m) == intent' = IF ~up \/ Quitting THEN Unsure ELSE m

\* /away, which without a message toggles what the server has answered so far
HandleAway(m) ==
  /\ attached > 0
  /\ IssueAway(m, TRUE)
  /\ ToldByUser(IF m = None /\ server = None THEN AwayReason ELSE m)
  /\ UNCHANGED <<attached, detachAway, up, stored, server>>

\* /away -all, for a network that is connected
GlobalAway(m) ==
  /\ attached > 0 /\ up
  /\ IssueAway(m, FALSE)
  /\ ToldByUser(m)
  /\ UNCHANGED <<attached, detachAway, up, stored, server>>

\* 305 and 306
AwayAnswered ==
  /\ up /\ lines # << >> /\ Head(lines) # Quit
  /\ server' = Head(lines) /\ lines' = Tail(lines)
  /\ me' = [me EXCEPT !.away = Head(lines) # None]
  /\ UNCHANGED <<attached, detachAway, up, stored, intent>>

-----------------------------------------------------------------------------
(* clients *)

\* connected() and disconnected() of the SignalProxy; n is how many there are now
Connected(n) == n = 1
Disconnected_Any(n) == TRUE
Disconnected(n) == n = 0

\* With Away On Detach, when clients come or all are gone, the server should come to show m:
\* if the network is connected, and it can be known what the server shows.
Decided(m) ==
  intent' = CASE ~detachAway -> intent
              [] detachAway /\ up /\ lines = << >> -> m
              [] OTHER -> Unsure

\* addPeer, and clientsConnected for the first
PeerAdded ==
  /\ attached < MaxPeers /\ attached' = attached + 1
  /\ IF Connected(attached') /\ up /\ detachAway /\ me.away
       THEN IssueAway(None, TRUE) ELSE UNCHANGED <<me, lines>>
  /\ IF attached = 0 THEN Decided(None) ELSE UNCHANGED intent
  /\ UNCHANGED <<detachAway, up, stored, server>>

\* removePeer, and clientsDisconnected for the last.  Who is away already keeps the message.
PeerRemoved ==
  /\ attached > 0 /\ attached' = attached - 1
  /\ IF Disconnected(attached') /\ up /\ detachAway /\ ~me.away
       THEN IssueAway(DetachReason, TRUE) ELSE UNCHANGED <<me, lines>>
  /\ IF attached # 1 THEN UNCHANGED intent
     ELSE Decided(CASE server # None -> IF intent \in Messages THEN intent ELSE Some
                    [] server = None /\ DetachReason # None -> DetachReason
                    [] server = None /\ DetachReason = None -> AwayReason)
  /\ UNCHANGED <<detachAway, up, stored, server>>

\* a client edits the identity
SetDetachAwayEnabled ==
  /\ attached > 0
  /\ detachAway' = ~detachAway
  /\ UNCHANGED <<attached, up, me, stored, lines, server, intent>>

-----------------------------------------------------------------------------
(* the connection *)

\* networkInitialized at 001, which restores what was saved.  Of the lines that were kept
\* the server may have refused the first ones, before it had sent 001.
NetworkInitialized ==
  /\ ~up /\ up' = TRUE
  /\ \E i \in 0 .. Len(lines) :
       LET kept == SubSeq(lines, i + 1, Len(lines))
       IN /\ \A j \in 1 .. i : lines[j] # Quit
          /\ lines' = IF stored = None THEN kept ELSE Append(kept, stored)
  /\ Len(lines') <= MaxLines
  /\ me' = SetAwayMessage(NewIrcUser, stored)
  /\ UNCHANGED <<attached, detachAway, stored, server, intent>>

AwayToSave_Always == me.msg
AwayToSave == IF me.away THEN me.msg ELSE None

\* disconnectFromIrc, asked for or after a ping timeout: the queue is dropped, but not what
\* was sent; QUIT goes out if the socket is connected.
DisconnectFromIrc ==
  /\ stored' = IF up THEN AwayToSave ELSE stored
  /\ \/ \E i \in 0 .. Len(lines) : i < MaxLines /\ lines' = Append(SubSeq(lines, 1, i), Quit)
     \/ ~up /\ lines' = << >>
  /\ intent' = IF up /\ (~AllAnswered \/ intent = Some) THEN Unsure ELSE intent
  /\ UNCHANGED <<attached, detachAway, up, me, server>>

NoConnection == up' = FALSE /\ me' = NewIrcUser /\ lines' = << >> /\ server' = None

\* the end of the connection, after QUIT or without
ConnectionEnds ==
  /\ up \/ lines # << >>
  /\ NoConnection
  /\ intent' = IF up /\ ~Quitting /\ stored # intent THEN Unsure ELSE intent
  /\ UNCHANGED <<attached, detachAway, stored>>

\* The core ends, in order or not, and starts again.  ~CoreNetwork disconnects, and the
\* session is no longer there to hear that its clients are gone.
CoreRestarts(orderly) ==
  /\ attached' = 0
  /\ NoConnection
  /\ stored' = IF orderly /\ up THEN AwayToSave ELSE stored
  /\ intent' = IF \/ attached > 0 /\ detachAway
                  \/ up /\ orderly /\ (~AllAnswered \/ intent = Some)
                  \/ up /\ ~orderly /\ ~Quitting /\ stored # intent
                 THEN Unsure ELSE intent
  /\ UNCHANGED detachAway

AwayNext ==
  \/ \E m \in Messages \union {None} : HandleAway(m) \/ GlobalAway(m)
  \/ AwayAnswered
  \/ PeerAdded \/ PeerRemoved \/ SetDetachAwayEnabled
  \/ NetworkInitialized \/ DisconnectFromIrc \/ ConnectionEnds
  \/ \E orderly \in BOOLEAN : CoreRestarts(orderly)

AwaySpec == AwayInit /\ [][AwayNext]_awayVars

-----------------------------------------------------------------------------
\* identityeditwidget.ui:280 "Set away when all clients have detached from the core", and
\* corenetwork.cpp:451 "restore away state".  Once all is answered the server shows, and
\* the core thinks it shows, what the last of these asked for: the user's /away, the
\* last client to leave (away, unless the user was already), the first to come (back); over
\* a disconnect and a later connection as well.  `intent' is Unsure where the program fails
\* to do so: a client comes or goes before an AWAY is answered or while the network is not
\* connected, the connection is lost or the core stops with a client attached.
AwayFollows ==
  up /\ lines = << >> =>
    /\ intent \in Messages \union {None} =>
         server = intent /\ (me.away <=> intent # None) /\ (me.away => me.msg = intent)
    /\ intent = Some => server # None /\ me.away
=============================================================================
