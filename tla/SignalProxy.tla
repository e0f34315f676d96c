------------------------------ MODULE SignalProxy ------------------------------
(***************************************************************************)
(* How a client gets and keeps its copy of the core's objects              *)
(* (common/signalproxy.cpp, syncableobject.cpp), shown on two sorts of     *)
(* objects that come and go: the IrcUsers of a Network, whose names are    *)
(* nicks that change, and the BufferViewConfigs of the BufferViewManager,  *)
(* whose ids do not.  Objects are addressed by name; their state is asked  *)
(* for (InitRequest, InitData), every later change is a Sync call, and a   *)
(* new name is announced ahead of the call that sets it.  The two          *)
(* containers are one here, the manager.  One client: the core sends every *)
(* peer the same calls and answers each for itself.  A name with a suffix  *)
(* after an underscore is a faulty variant of the definition below it.     *)
(***************************************************************************)
EXTENDS Naturals, SequencesExt

CONSTANTS
  Names,      \* object names
  Ids,        \* those that are ids of BufferViewConfigs; the others are nicks
  Objs,       \* the objects themselves, forgotten ones are created anew
  None,       \* no object, no name
  MaxValue,   \* bound on the changes of an object
  MaxWire     \* bound on the calls under way in one direction

ASSUME SignalProxyAssumption ==
  /\ Ids \subseteq Names /\ IsFiniteSet(Ids)
  /\ None \notin Names \union Objs
  /\ MaxValue \in Nat \ {0} /\ MaxWire \in Nat \ {0}

VARIABLES
  core,     \* the core's _syncSlave: the object of a name, or None
  value,    \* of each object, its state in the core
  client,   \* the client, see ClientType
  down,     \* calls under way to the client, in order
  up        \* InitRequests under way to the core, names or Manager

vars == <<core, value, client, down, up>>

Manager == "manager"   \* the container's own, never changing name

ClientType ==
  [on    : BOOLEAN,                          \* connected, the manager is attached
   init  : BOOLEAN,                          \* the manager has its init data
   slave : [Names -> Objs \union {None}],    \* _syncSlave
   own   : [Objs -> Names \union {None}],    \* objectName() of the copies; None: no copy
   value : [Objs -> 0 .. MaxValue],
   ready : SUBSET Objs]                      \* isInitialized()

NoClient ==
  [on |-> FALSE, init |-> FALSE, slave |-> [n \in Names |-> None], own |-> [o \in Objs |-> None],
   value |-> [o \in Objs |-> 0], ready |-> {}]

Init ==
  /\ core = [n \in Names |-> None] /\ value = [o \in Objs |-> 0]
  /\ client = NoClient /\ down = << >> /\ up = << >>

-----------------------------------------------------------------------------
(* The core.  Calls carry the object they are meant for as history.         *)

Living == {core[n] : n \in Names} \ {None}
Mentions(l, o) ==
  IF l.call = "initManager" THEN \E n \in Names : l.objects[n] = o ELSE l.obj = o
\* an object is new if neither side nor a call under way has it
IsNew(o) ==
  /\ o \notin Living /\ client.own[o] = None
  /\ \A i \in 1 .. Len(down) : ~Mentions(down[i], o)

\* dispatchSignal: to the client if it is there
Dispatch(calls) ==
  /\ Len(down) < MaxWire   \* bound
  /\ down' = IF client.on THEN down \o calls ELSE down

\* newIrcUser, or addBufferViewConfig of a config that has a state already: synchronize,
\* then the Sync call on the manager
Create(n, o) ==
  /\ core[n] = None /\ IsNew(o)
  /\ core' = [core EXCEPT ![n] = o]
  /\ value' = [value EXCEPT ![o] = IF n \in Ids THEN 1 ELSE 0]
  /\ Dispatch(<<[call |-> "add", name |-> n, obj |-> o]>>)
  /\ UNCHANGED <<client, up>>

Update(n) ==
  /\ core[n] # None /\ value[core[n]] < MaxValue
  /\ value' = [value EXCEPT ![core[n]] = @ + 1]
  /\ Dispatch(<<[call |-> "set", name |-> n, obj |-> core[n], value |-> value[core[n]] + 1]>>)
  /\ UNCHANGED <<core, client, up>>

\* IrcUser::setNick: renameObject comes before the Sync call, which has the new name
Rename(n, m) ==
  /\ {n, m} \intersect Ids = {}
  /\ core[n] # None /\ core[m] = None
  /\ core' = [core EXCEPT ![m] = core[n], ![n] = None]
  /\ Dispatch(<<[call |-> "renamed", name |-> n, new |-> m, obj |-> core[n]],
                [call |-> "setNick", name |-> m, new |-> m, obj |-> core[n]]>>)
  /\ UNCHANGED <<value, client, up>>

\* IrcUser::quit, deleteBufferViewConfig
RemoveObject(n) ==
  /\ core[n] # None
  /\ core' = [core EXCEPT ![n] = None]
  /\ value' = [value EXCEPT ![core[n]] = 0]
  /\ Dispatch(<<[call |-> "quit", name |-> n, obj |-> core[n]]>>)
  /\ UNCHANGED <<client, up>>

\* toVariantMap of the object; that of the manager has the ids, and the users with their state
InitData(n) ==
  IF n = Manager THEN [call |-> "initManager", objects |-> core, values |-> value]
  ELSE [call |-> "init", name |-> n, obj |-> core[n], value |-> value[core[n]]]

Registered(n) == n = Manager \/ core[n] # None

\* a request for a name nobody has is not answered
HandleInitRequest ==
  /\ up # << >>
  /\ up' = Tail(up)
  /\ down' = IF Registered(Head(up)) THEN Append(down, InitData(Head(up))) ELSE down
  /\ UNCHANGED <<core, value, client>>

-----------------------------------------------------------------------------
(* The client: one operator per call, from the client's state to its next   *)
(* and to the InitRequests it sends.                                         *)

RequestInit(c, o) == IF o \in c.ready THEN << >> ELSE <<c.own[o]>>

\* newIrcUser, addBufferViewConfig: the registration of an empty copy
Known(c, n) == \E o \in Objs : c.own[o] = n
NewIrcUser(c, n, o) == [c EXCEPT !.slave[n] = o, !.own[o] = n, !.value[o] = 0]

Moved_Copied(c, n, m) == [c EXCEPT !.slave[m] = c.slave[n]]
Moved(c, n, m) == [c EXCEPT !.slave[m] = c.slave[n], !.slave[n] = None]

Forget(c, o) ==
  [c EXCEPT !.slave = [n \in Names |-> IF @[n] = o THEN None ELSE @[n]],
            !.own[o] = None, !.value[o] = 0, !.ready = @ \ {o}]

\* fromVariantMap of the manager: what it knows already stays, users come with their
\* state, configs are created empty and asked for
Missing(c, objects) == {n \in Names : objects[n] # None /\ ~Known(c, n)}
Filled(c, objects, values) ==
  LET new  == Missing(c, objects)
      objs == {objects[n] : n \in new}
      full == {objects[n] : n \in new \ Ids}
  IN [c EXCEPT !.init = TRUE,
               !.slave = [n \in Names |-> IF n \in new THEN objects[n] ELSE @[n]],
               !.own = [o \in Objs |-> IF o \in objs THEN CHOOSE n \in new : objects[n] = o ELSE @[o]],
               !.value = [o \in Objs |-> IF o \in full THEN values[o] ELSE @[o]],
               !.ready = @ \union full]

SetInitData_Empty(c, o, v) == [c EXCEPT !.ready = @ \union {o}]
SetInitData(c, o, v) ==
  IF o \in c.ready THEN c ELSE [c EXCEPT !.value[o] = v, !.ready = @ \union {o}]

\* The client after a call, and the requests it sends.
Result(c, reqs) == [client |-> c, requests |-> reqs]

HandleAdd(c, l) ==
  IF Known(c, l.name) THEN Result(c, << >>)
  ELSE LET k == NewIrcUser(c, l.name, l.obj) IN Result(k, RequestInit(k, l.obj))

HandleInitManager(c, l) ==
  IF c.init THEN Result(c, << >>)
  ELSE Result(Filled(c, l.objects, l.values), SetToSeq(Missing(c, l.objects) \intersect Ids))

Addressee(c, l) == c.slave[l.name]

HandleRenamed_Ignored(c, l) == Result(c, << >>)
HandleRenamed(c, l) ==
  IF Addressee(c, l) = None \/ l.name = l.new THEN Result(c, << >>)
  ELSE Result(Moved(c, l.name, l.new), RequestInit(c, Addressee(c, l)))

Handle(c, l) ==
  CASE l.call = "add"         -> HandleAdd(c, l)
    [] l.call = "renamed"     -> HandleRenamed(c, l)
    [] l.call = "initManager" -> HandleInitManager(c, l)
    [] l.call \in {"set", "setNick", "quit", "init"} /\ Addressee(c, l) = None -> Result(c, << >>)
    [] l.call = "set" /\ Addressee(c, l) # None ->
         Result([c EXCEPT !.value[Addressee(c, l)] = l.value], << >>)
    [] l.call = "setNick" /\ Addressee(c, l) # None ->
         Result([c EXCEPT !.own[Addressee(c, l)] = l.new], << >>)
    [] l.call = "quit" /\ Addressee(c, l) # None -> Result(Forget(c, Addressee(c, l)), << >>)
    [] l.call = "init" /\ Addressee(c, l) # None ->
         Result(SetInitData(c, Addressee(c, l), l.value), << >>)

ClientHandles ==
  /\ down # << >>
  /\ Len(up) < MaxWire   \* bound
  /\ LET r == Handle(client, Head(down))
     IN client' = r.client /\ up' = up \o r.requests
  /\ down' = Tail(down)
  /\ UNCHANGED <<core, value>>

-----------------------------------------------------------------------------
(* connections *)

Connect ==
  /\ ~client.on
  /\ client' = [NoClient EXCEPT !.on = TRUE]
  /\ up' = <<Manager>>
  /\ UNCHANGED <<core, value, down>>

Disconnect ==
  /\ client.on
  /\ client' = NoClient /\ down' = << >> /\ up' = << >>
  /\ UNCHANGED <<core, value>>

Next ==
  \/ \E n \in Names, o \in Objs : Create(n, o)
  \/ \E n \in Names : Update(n) \/ RemoveObject(n)
  \/ \E n, m \in Names : Rename(n, m)
  \/ HandleInitRequest \/ ClientHandles
  \/ Connect \/ Disconnect

Spec == Init /\ [][Next]_vars

-----------------------------------------------------------------------------
Quiet == client.on /\ down = << >> /\ up = << >>

\* A call reaches the object it was meant for or none: however names are handed on while
\* calls are under way, no change or init data lands on another object of that name.
RightObject ==
  down # << >> /\ "name" \in DOMAIN Head(down) =>
    client.slave[Head(down).name] \in {None, Head(down).obj}

\* With nothing under way the client has exactly the core's objects, under the same names
\* in its registry and in the objects, whenever it connected, and every copy that got its
\* init data has the core's state.
Synchronized ==
  Quiet =>
    /\ client.init /\ client.slave = core
    /\ \A n \in Names : core[n] # None => client.own[core[n]] = n
    /\ \A o \in client.ready : client.value[o] = value[o]
=============================================================================
