------------------------------ MODULE EventManager ------------------------------
(***************************************************************************)
(* The core's event pipeline (common/eventmanager.cpp): events wait in a   *)
(* queue, one is dispatched at a time, and Qt's own event loop runs in     *)
(* between.  What handlers send while an event is dispatched joins the     *)
(* queue.  A handler is its index in Registered; an event is its number    *)
(* and its kind.  No object of the core registers a filter.  A name with a *)
(* suffix after an underscore is a faulty variant of the definition below. *)
(***************************************************************************)
EXTENDS Integers, SequencesExt

CONSTANTS
  Registered,   \* what registerObject appended, in order: [object, event, priority, late]
  Keys,         \* Keys[k]: the types an event of kind k is looked up under, most special first
  Sends,        \* Sends[h]: the sequences of kinds handler h may send while it runs
  Stoppers,     \* handlers that may stop the event (checkParamCount, IrcListHelper)
  External,     \* kinds sent from outside a dispatch: socket data, netsplit timers
  MaxEvents     \* no event is sent from outside after so many

Kinds == DOMAIN Keys
Handlers == DOMAIN Registered

Registrations == [object : STRING, event : STRING, priority : Nat, late : BOOLEAN]

\* No type is looked up twice for an event (eventmanager.cpp:220).
ASSUME EventManagerAssumption ==
  /\ MaxEvents \in Nat
  /\ External \subseteq Kinds
  /\ \A h \in Handlers : Sends[h] \subseteq Seq(Kinds)
  /\ Registered \in Seq(Registrations)
  /\ \A k \in Kinds : Keys[k] \in Seq(STRING) /\ IsInjective(Keys[k])

\* d and e are handlers of one event, and d should not see it before e.
Misplaced(d, e) ==
  /\ d.event = e.event
  /\ \/ d.late /\ ~e.late
     \/ d.object = "stringifier" /\ e.object = "sessionproc" /\ ~e.late

\* The session registers its objects in the order in which they should see an event
\* (coresession.cpp:100-107).
ASSUME RegisteredInOrder ==
  \A g, h \in Handlers : g < h => ~Misplaced(Registered[g], Registered[h])

VARIABLES
  queue,    \* _eventQueue
  posted,   \* wake-ups (QEvent::User) posted to the manager and not delivered
  sent,     \* history: number of events sent
  done,     \* history: number of the event dispatched last
  log       \* history: its deliveries, as [handler, halted]

vars == <<queue, posted, sent, done, log>>

Init == queue = << >> /\ posted = 0 /\ sent = 0 /\ done = 0 /\ log = << >>

-----------------------------------------------------------------------------
(* dispatchEvent *)

\* The place that its priority gives a handler is looked up, but not used.
InsertOne_Prepend(list, h) == <<h>> \o list
InsertOne(list, h) == Append(list, h)

Known(list, h) == \E i \in DOMAIN list : Registered[list[i]].object = Registered[h].object

InsertHandlers(list, key, checkDupes) ==
  FoldLeftDomain(LAMBDA acc, h : IF Registered[h].event # key \/ (checkDupes /\ Known(acc, h))
                                 THEN acc ELSE InsertOne(acc, h),
                 list, Registered)

\* The most special type counts as it is; a more generic one adds the objects that
\* have no handler yet.
HandlersOf == [k \in Kinds |->
  FoldLeftDomain(LAMBDA acc, i : InsertHandlers(acc, Keys[k][i], i > 1), << >>, Keys[k])]

\* What may run: the whole list, or the list up to a handler that stops the event.
Runs(list) ==
  {[ran |-> list, halt |-> 0]} \union
  {[ran |-> SubSeq(list, 1, i), halt |-> i] : i \in {j \in DOMAIN list : list[j] \in Stoppers}}

\* What handlers send together; the one that stops the event sends nothing.
SentTogether(run) ==
  FoldLeftDomain(LAMBDA acc, i : IF i = run.halt THEN acc
                                 ELSE {s \o t : s \in acc, t \in Sends[run.ran[i]]},
                 {<< >>}, run.ran)
Outputs(run) == SentTogether(run) \intersect Seq(Kinds)

Deliveries(run) == [i \in DOMAIN run.ran |-> [handler |-> run.ran[i], halted |-> i = run.halt]]

-----------------------------------------------------------------------------
(* sendEvent, customEvent, processEvents *)

Numbered(kinds, from) == [i \in DOMAIN kinds |-> [number |-> from + i, kind |-> kinds[i]]]

\* takeFirst comes after the dispatch: what handlers send queues behind the rest
Remaining_Jump(q, new) == new \o Tail(q)
Remaining(q, new) == Tail(q) \o new

\* one wake-up for the rest of the queue
Wakeups(q) == IF q = << >> THEN 0 ELSE 1

\* Dispatch the first event of q, with count events sent so far.
ProcessEvents(q, count, wakeups) ==
  \E run \in Runs(HandlersOf[Head(q).kind]) :
    \E out \in Outputs(run) :
      /\ sent' = count + Len(out)
      /\ queue' = Remaining(q, Numbered(out, count))
      /\ posted' = wakeups + Wakeups(queue')
      /\ done' = Head(q).number
      /\ log' = Deliveries(run)

\* Only the event that finds the queue empty is processed at once.
Idle_Never(q) == FALSE
Idle(q) == Len(q) = 1

SendEvent(k) ==
  /\ sent < MaxEvents
  /\ LET q == Append(queue, [number |-> sent + 1, kind |-> k])
     IN \/ Idle(q) /\ ProcessEvents(q, sent + 1, posted)
        \/ ~Idle(q) /\ queue' = q /\ sent' = sent + 1 /\ UNCHANGED <<posted, done, log>>

Awake == posted > 0

CustomEvent ==
  /\ Awake
  /\ \/ queue # << >> /\ ProcessEvents(queue, sent, posted - 1)
     \/ queue = << >> /\ posted' = posted - 1 /\ UNCHANGED <<queue, sent, done, log>>

Next == (\E k \in External : SendEvent(k)) \/ CustomEvent

Spec == Init /\ [][Next]_vars

-----------------------------------------------------------------------------
\* A waiting event has exactly one wake-up on its way: with none the queue would
\* stall, with two an event could be processed before its predecessor's wake-up.
OneWakeup == posted = IF queue = << >> THEN 0 ELSE 1

\* First come, first served, each event once: whatever handlers send while others
\* wait, the queue holds exactly the events after the last one dispatched, in the
\* order in which they were sent.
InOrder ==
  /\ Len(queue) = sent - done
  /\ \A i \in DOMAIN queue : queue[i].number = done + i

\* The session's state changes before the text about an event is made, and what a
\* handler does "late" (forgetting the user who parts or quits) comes after it.
StateBeforeText ==
  \A i, j \in DOMAIN log :
    i < j => ~Misplaced(Registered[log[i].handler], Registered[log[j].handler])

\* Every event is dispatched in the end.
EventuallyDispatched == \A n \in 1 .. MaxEvents : (sent >= n) ~> (done >= n)
=============================================================================
