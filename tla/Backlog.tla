-------------------------------- MODULE Backlog --------------------------------
(***************************************************************************)
(* How a client fills its MessageModel: live messages, the backlog it asks *)
(* for after attaching, and older messages it fetches when the user        *)
(* scrolls (client/clientbacklogmanager.cpp, backlogrequester.cpp and      *)
(* messagemodel.cpp, core/corebacklogmanager.cpp).  A message is its id;   *)
(* the rows that mark a new day and client-side error rows are left out.   *)
(* A name with a suffix after an underscore is a faulty variant of the     *)
(* definition below it.                                                    *)
(***************************************************************************)
EXTENDS Integers, SequencesExt

CONSTANTS
  Buffers,
  Log0,         \* the messages stored before: Log0[id] is the buffer of message id
  MaxLog,       \* bound on the messages stored
  Limit,        \* the limit of a request, of whatever type
  Additional,   \* how many read messages come with the unread ones
  MaxFetches,   \* bound on the user's fetches in one session
  MaxSessions   \* bound on the sessions

ASSUME BacklogAssumption ==
  /\ IsFiniteSet(Buffers) /\ Buffers \intersect {"all", "live"} = {}
  /\ Log0 \in Seq(Buffers) /\ MaxLog \in Nat /\ MaxFetches \in Nat /\ MaxSessions \in Nat
  /\ Limit \in Nat \ {0} /\ Additional \in Nat \ {0}

VARIABLES
  log,         \* the backlog in the database: the buffer of each message
  sessions,    \* history: number of sessions so far
  attached,    \* the client is attached
  requester,   \* _requester, see NoRequester
  requested,   \* _buffersRequested
  shown,       \* the rows of the MessageModel
  pending,     \* _messageBuffer: sorted messages still to be inserted
  posted,      \* ProcessBufferEvents posted
  fetching,    \* _messagesWaiting
  fetches,     \* history: fetches in this session
  up, down,    \* requests to the core; live messages and answers to the client
  torn         \* history: messages of the last session were left, or this one was given a
               \* global backlog with a hole in it

sessionVars == <<attached, requester, requested, fetching, fetches, torn>>
modelVars == <<shown, pending, posted>>
backlogVars == <<log, sessions, sessionVars, modelVars, up, down>>

Ids == 1 .. Len(log)
In(b) == {id \in Ids : log[id] = b}

NoRequester == [type |-> "none", waiting |-> {}, buffered |-> << >>]

BacklogInit ==
  /\ log = Log0 /\ sessions = 0
  /\ attached = FALSE /\ requester = NoRequester /\ requested = {}
  /\ shown = << >> /\ pending = << >> /\ posted = 0
  /\ fetching = [b \in Buffers |-> 0] /\ fetches = 0 /\ torn = FALSE
  /\ up = << >> /\ down = << >>

-----------------------------------------------------------------------------
(* MessageModel *)

\* the row of the first message from id on, counted from 0
IndexForId(rows, id) == Min({i \in 1 .. Len(rows) : rows[i] >= id} \union {Len(rows) + 1}) - 1

InsertMessageGroup(rows, group) ==
  LET start == IndexForId(rows, Head(group))
  IN SubSeq(rows, 1, start) \o group \o SubSeq(rows, start + 1, Len(rows))

Inserted(rows, id) == InsertMessageGroup(rows, <<id>>)

\* qSort
Ascending(s) == FoldLeft(Inserted, << >>, s)
Descending(S) == Reverse(Ascending(SetToSeq(S)))

InOrder(list) == list[1] < Last(list)

\* A list is worked off from its highest id down to the row before the place of that one.
FromTop(list) == IF InOrder(list) THEN Reverse(list) ELSE list
Above(rows, list) ==
  LET idx == IndexForId(rows, list[1])
  IN {n \in 1 .. Len(list) : n = 1 \/ idx = 0 \/ list[n] > rows[idx]}
Processed(rows, list) ==
  CHOOSE n \in 1 .. Len(list) :
    1 .. n \subseteq Above(rows, list) /\ (n < Len(list) => n + 1 \notin Above(rows, list))

\* Duplicates are skipped: of a row as long as the group is empty, then of the message
\* before.
Grouped_RowsOnly(rows, group, id) ==
  IF group = << >> /\ id \in ToSet(rows) THEN group ELSE <<id>> \o group
Grouped(rows, group, id) ==
  CASE group = << >> -> IF id \in ToSet(rows) THEN group ELSE <<id>>
    [] group # << >> -> IF id = Head(group) THEN group ELSE <<id>> \o group

InsertGracefully(rows, list) ==
  LET top == FromTop(list)
      group == FoldLeft(LAMBDA g, id : Grouped(rows, g, id), << >>,
                        SubSeq(top, 1, Processed(rows, top)))
  IN IF group = << >> THEN rows ELSE InsertMessageGroup(rows, group)

Remaining(rows, list) ==
  LET top == FromTop(list)
  IN Ascending(SubSeq(top, Processed(rows, top) + 1, Len(top)))

\* what does not fit in one group waits for the event loop
InsertMessages(list) ==
  CASE list = << >> -> UNCHANGED modelVars
    [] list # << >> /\ pending = << >> ->
         /\ shown' = InsertGracefully(shown, list)
         /\ pending' = Remaining(shown, list)
         /\ posted' = IF pending' = << >> THEN posted ELSE posted + 1
    [] list # << >> /\ pending # << >> ->
         pending' = Ascending(pending \o list) /\ UNCHANGED <<shown, posted>>

\* a live message
InsertMessage(id) ==
  /\ shown' = IF id \in ToSet(shown) THEN shown ELSE Inserted(shown, id)
  /\ UNCHANGED <<pending, posted>>

Repost_Never(rest) == 0
Repost(rest) == IF rest = << >> THEN 0 ELSE 1

ProcessBufferEvent ==
  /\ posted > 0
  /\ \/ /\ pending # << >>
        /\ shown' = InsertGracefully(shown, pending)
        /\ pending' = Remaining(shown, pending)
        /\ posted' = posted - 1 + Repost(pending')
     \/ pending = << >> /\ posted' = posted - 1 /\ UNCHANGED <<shown, pending>>
  /\ UNCHANGED <<log, sessions, sessionVars, up, down>>

-----------------------------------------------------------------------------
(* the core *)

\* the newest of the messages S, newest first
Newest(S, limit) ==
  LET all == Descending(S)
  IN IF Len(all) <= limit THEN all ELSE SubSeq(all, 1, limit)

\* Core::requestMsgs; -1 stands for no bound
RequestMsgs(S, first, last, limit) ==
  Newest({id \in S : id >= first /\ (last = -1 \/ id < last)}, limit)

\* Additional messages, those before last, follow only if they continue the list.
Continues_Always(last, oldest) == TRUE
Continues(last, oldest) == last = oldest

RequestBacklog(r) ==
  LET msgs == RequestMsgs(In(r.b), r.first, r.last, r.limit)
      oldest == IF msgs = << >> THEN r.first ELSE Last(msgs)
      last == IF r.first # -1 THEN r.first ELSE oldest
  IN IF r.additional > 0 /\ Continues(last, oldest)
       THEN msgs \o RequestMsgs(In(r.b), -1, last, r.additional)
       ELSE msgs

\* Here nobody looks whether they do.
RequestBacklogAll(r) ==
  LET msgs == RequestMsgs(Ids, r.first, -1, r.limit)
  IN msgs \o RequestMsgs(Ids, -1, r.first, r.additional)

CoreAnswers ==
  /\ up # << >>
  /\ up' = Tail(up)
  /\ LET r == Head(up)
     IN down' = Append(down,
          [b |-> r.b, msgs |-> IF r.b = "all" THEN RequestBacklogAll(r) ELSE RequestBacklog(r)])
  /\ UNCHANGED <<log, sessions, sessionVars, modelVars>>

\* a message is stored and shown to the client
CoreStores(b) ==
  /\ Len(log) < MaxLog   \* bound
  /\ log' = Append(log, b)
  /\ down' = IF attached THEN Append(down, [b |-> "live", msgs |-> <<Len(log')>>]) ELSE down
  /\ UNCHANGED <<sessions, sessionVars, modelVars, up>>

-----------------------------------------------------------------------------
(* requests of the client *)

Ask(b, first, last, additional) ==
  [b |-> b, first |-> first, last |-> last, limit |-> Limit, additional |-> additional]

\* one request for each of the buffers S, whose last seen messages are read
Asks(S, type, read) ==
  LET s == SetToSeq(S)
  IN [i \in DOMAIN s |->
        IF type = "fixed" THEN Ask(s[i], -1, -1, 0) ELSE Ask(s[i], read[s[i]], -1, Additional)]

RequestInitialBacklog(type, view, read) ==
  /\ attached /\ requester.type = "none"
  /\ IF type = "global"
       THEN /\ requester' = [NoRequester EXCEPT !.type = type]
            /\ \E b \in Buffers : up' = Append(up, Ask("all", read[b], -1, Additional))
            /\ UNCHANGED requested
       ELSE /\ requester' = [NoRequester EXCEPT !.type = type, !.waiting = view]
            /\ up' = up \o Asks(view, type, read)
            /\ requested' = requested \union view
  /\ UNCHANGED <<log, sessions, attached, fetching, fetches, torn, modelVars, down>>

\* Buffers come to a view.  The set of those waited for is overwritten.
WaitFor_Both(S) == requester.waiting \union S \union requested
WaitFor(S) == S

CheckForBacklog(view, read) ==
  LET new == view \ requested
  IN /\ attached /\ requester.type \in {"fixed", "unread"} /\ new # {}
     /\ requester' = [requester EXCEPT !.waiting = WaitFor(new)]
     /\ up' = up \o Asks(new, requester.type, read)
     /\ requested' = requested \union new
     /\ UNCHANGED <<log, sessions, attached, fetching, fetches, torn, modelVars, down>>

\* the oldest message shown of a buffer; -1 if there is none
Oldest(b) ==
  LET row == SelectInSeq(shown, LAMBDA id : log[id] = b)
  IN IF row = 0 THEN -1 ELSE shown[row]

\* MessageModel::requestBacklog: the user scrolls up
Fetch(b) ==
  /\ attached /\ fetching[b] = 0
  /\ fetches < MaxFetches /\ fetches' = fetches + 1   \* bound
  /\ fetching' = [fetching EXCEPT ![b] = Limit]
  /\ up' = Append(up, Ask(b, -1, Oldest(b), 0))
  /\ requested' = requested \union {b}
  /\ UNCHANGED <<log, sessions, attached, requester, torn, modelVars, down>>

-----------------------------------------------------------------------------
(* answers *)

Buffering == requester.type \in {"fixed", "unread"}

\* a hole in a global backlog: the limit cut off unread messages
Hole(msgs) == \E i \in 1 .. Len(msgs) - 1 : msgs[i] - msgs[i + 1] > 1

Fetched_BelowZero(b, count) ==
  IF fetching[b] = 0 THEN fetching
  ELSE [fetching EXCEPT ![b] = CASE @ > count -> @ - count
                                 [] @ = count -> 1
                                 [] @ < count -> 0]
Fetched(b, count) ==
  IF fetching[b] = 0 THEN fetching
  ELSE [fetching EXCEPT ![b] = IF @ > count THEN @ - count ELSE 0]

ReceiveBacklog(b, msgs) ==
  /\ fetching' = Fetched(b, Len(msgs))
  /\ LET waiting == requester.waiting \ {b}
         buffered == requester.buffered \o msgs
     IN \/ ~Buffering /\ InsertMessages(msgs) /\ UNCHANGED requester
        \/ /\ Buffering /\ waiting = {}
           /\ InsertMessages(Ascending(buffered))
           /\ requester' = [requester EXCEPT !.waiting = {}, !.buffered = << >>]
        \/ /\ Buffering /\ waiting # {}
           /\ requester' = [requester EXCEPT !.waiting = waiting, !.buffered = buffered]
           /\ UNCHANGED modelVars
  /\ UNCHANGED torn

ReceiveBacklogAll(msgs) ==
  /\ InsertMessages(msgs)
  /\ torn' = (torn \/ Hole(msgs))
  /\ UNCHANGED <<requester, fetching>>

ClientReceives ==
  /\ down # << >>
  /\ down' = Tail(down)
  /\ LET m == Head(down)
     IN \/ m.b = "live" /\ InsertMessage(m.msgs[1]) /\ UNCHANGED <<requester, fetching, torn>>
        \/ m.b = "all" /\ ReceiveBacklogAll(m.msgs)
        \/ m.b \in Buffers /\ ReceiveBacklog(m.b, m.msgs)
  /\ UNCHANGED <<log, sessions, attached, requested, fetches, up>>

-----------------------------------------------------------------------------
(* sessions *)

Attach ==
  /\ ~attached
  /\ sessions < MaxSessions /\ sessions' = sessions + 1   \* bound
  /\ attached' = TRUE
  /\ UNCHANGED <<log, requester, requested, fetching, fetches, torn, modelVars, up, down>>

\* setDisconnectedFromCore; MessageModel::clear leaves _messageBuffer as it is
Detach ==
  /\ attached
  /\ attached' = FALSE
  /\ requester' = NoRequester /\ requested' = {}
  /\ shown' = << >> /\ fetching' = [b \in Buffers |-> 0]
  /\ up' = << >> /\ down' = << >> /\ fetches' = 0
  /\ torn' = (pending # << >>)
  /\ UNCHANGED <<log, sessions, pending, posted>>

Reads == [Buffers -> {0} \union Ids]

BacklogNext ==
  \/ \E type \in {"fixed", "unread", "global"}, view \in SUBSET Buffers, read \in Reads :
       RequestInitialBacklog(type, view, read)
  \/ \E view \in SUBSET Buffers, read \in Reads : CheckForBacklog(view, read)
  \/ \E b \in Buffers : Fetch(b) \/ CoreStores(b)
  \/ CoreAnswers \/ ClientReceives \/ ProcessBufferEvent
  \/ Attach \/ Detach

BacklogSpec == BacklogInit /\ [][BacklogNext]_backlogVars

-----------------------------------------------------------------------------
\* The rows stay in the order of their ids and none is there twice, whichever of the live
\* message, the backlog and the fetched messages brings it first, and in however many
\* groups (the assertions of insertMessageGroup).
RowsInOrder == \A i \in 1 .. Len(shown) - 1 : shown[i] < shown[i + 1]

\* A buffer's rows have no gap at any moment: between two of its messages that are shown,
\* every one that is stored is shown as well.
NoGap ==
  ~torn => \A b \in Buffers, id \in Ids :
    log[id] = b /\ (\E i, j \in DOMAIN shown : shown[i] < id /\ id < shown[j]
                                              /\ log[shown[i]] = b /\ log[shown[j]] = b)
      => id \in ToSet(shown)

\* Nothing received is kept from the user for good: what is buffered waits for an answer
\* that is under way, and what is to be inserted for an event that is posted.
Outstanding == {up[i].b : i \in DOMAIN up} \union {down[i].b : i \in DOMAIN down}
NothingStuck ==
  /\ requester.buffered # << >> => requester.waiting # {}
  /\ requester.waiting \subseteq Outstanding
  /\ pending # << >> => posted > 0

\* A fetch that never gets all the messages it asked for, and so keeps its buffer from
\* fetching again, has left nothing to fetch: all of the buffer is there or under way.
OnTheWay == UNION {ToSet(down[i].msgs) : i \in DOMAIN down}
FetchEnds ==
  \A b \in Buffers :
    fetching[b] > 0 /\ b \notin Outstanding /\ ~torn =>
      In(b) \subseteq ToSet(shown \o pending \o requester.buffered) \union OnTheWay
=============================================================================
