---------------------------- MODULE SignalProxyProofs ----------------------------
(***************************************************************************)
(* The calls under way to a client lead from what the client has to what   *)
(* the core has: each is one step of a path of worlds that begins with the *)
(* one the client knows (all or, before the manager's init data came, part *)
(* of) and ends with the core's.                                           *)
(***************************************************************************)
EXTENDS SignalProxy, FiniteSetTheorems, SequenceTheorems, TLAPS

\* no object has two names
Cores ==
  {c \in [Names -> Objs \union {None}] :
     \A m, n \in Names : c[m] = c[n] /\ c[m] # None => m = n}
Values == [Objs -> 0 .. MaxValue]
Worlds == [core : Cores, value : Values]
World == [core |-> core, value |-> value]

Calls ==
  [call : {"add", "quit"}, name : Names, obj : Objs]
  \union [call : {"set", "init"}, name : Names, obj : Objs, value : 0 .. MaxValue]
  \union [call : {"renamed", "setNick"}, name : Names, new : Names, obj : Objs]
  \union [call : {"initManager"}, objects : Cores, values : Values]

Kinds == {"add", "quit", "set", "init", "renamed", "setNick", "initManager"}

\* What a call leads from and to.
Adds(l, w, x) ==
  /\ w.core[l.name] = None /\ x.core[l.name] = l.obj
  /\ \A n \in Names : w.core[n] # l.obj
  /\ \A n \in Names : n # l.name => x.core[n] = w.core[n]
  /\ \A o \in Objs : o # l.obj => x.value[o] = w.value[o]

Sets(l, w, x) ==
  /\ w.core[l.name] = l.obj /\ x.core = w.core
  /\ x.value[l.obj] = l.value
  /\ \A o \in Objs : o # l.obj => x.value[o] = w.value[o]

Renames(l, w, x) ==
  /\ w.core[l.name] = l.obj /\ w.core[l.new] = None
  /\ x.core[l.new] = l.obj /\ x.core[l.name] = None
  /\ \A n \in Names : n # l.name /\ n # l.new => x.core[n] = w.core[n]
  /\ x.value = w.value

Quits(l, w, x) ==
  /\ w.core[l.name] = l.obj /\ x.core[l.name] = None
  /\ \A n \in Names : n # l.name => x.core[n] = w.core[n]
  /\ \A o \in Objs : o # l.obj => x.value[o] = w.value[o]

Tells(l, w, x) ==
  /\ l.call = "add" => Adds(l, w, x)
  /\ l.call = "set" => Sets(l, w, x)
  /\ l.call = "renamed" => Renames(l, w, x)
  /\ l.call = "quit" => Quits(l, w, x)
  /\ l.call = "setNick" => l.name = l.new /\ w.core[l.name] = l.obj /\ x = w
  /\ l.call = "init" => w.core[l.name] = l.obj /\ l.value = w.value[l.obj] /\ x = w
  /\ l.call = "initManager" => l.objects = w.core /\ l.values = w.value /\ x = w

\* The new name of an object is set right after it was announced.
Announced(l, m) ==
  m.call = "setNick" /\ m.obj = l.obj
Paired(d) ==
  \A i \in 1 .. Len(d) : d[i].call = "renamed" => i < Len(d) /\ Announced(d[i], d[i + 1])

\* The calls d lead from w to x.
Leads(W, d, w, x) ==
  /\ W \in [0 .. Len(d) -> Worlds]
  /\ W[0] = w /\ W[Len(d)] = x
  /\ \A i \in 1 .. Len(d) : Tells(d[i], W[i - 1], W[i])
Path(d, w, x) == \E W : Leads(W, d, w, x)

\* the objects whose copy does not have its new name yet
Stale(d) == {o \in Objs : d # << >> /\ d[1].call = "setNick" /\ d[1].obj = o}

\* The client's copy of the world w; the copies of the objects S have another name.
OwnFits(c, S) ==
  \A o \in Objs :
    /\ o \in S => (c.own[o] = None <=> \A n \in Names : c.slave[n] # o)
    /\ o \notin S => \A n \in Names : c.own[o] = n <=> c.slave[n] = o
Sees(c, w, S) ==
  /\ \A n \in Names : c.slave[n] \in {None, w.core[n]}
  /\ c.init => \A n \in Names : c.slave[n] = w.core[n]
  /\ \A o \in c.ready : c.value[o] = w.value[o] /\ \E n \in Names : c.slave[n] = o
  /\ OwnFits(c, S)

-----------------------------------------------------------------------------
(* what a call does to the client *)

LEMMA CallKinds ==
  ASSUME NEW l \in Calls
  PROVE  /\ l.call \in Kinds
         /\ l.call # "initManager" => l.name \in Names /\ l.obj \in Objs
         /\ l.call \in {"set", "init"} => l.value \in 0 .. MaxValue
         /\ l.call \in {"renamed", "setNick"} => l.new \in Names
         /\ l.call = "initManager" => l.objects \in Cores /\ l.values \in Values
BY DEF Calls, Kinds

\* the state and the requests after a call
After(r, x, S) ==
  /\ r.client \in ClientType /\ r.requests \in Seq(Names)
  /\ Sees(r.client, x, S)
Before(c, l, w, x) ==
  /\ c \in ClientType /\ w \in Worlds /\ x \in Worlds
  /\ l \in Calls /\ Tells(l, w, x)

LEMMA Handled ==
  ASSUME NEW c, NEW l, l.call \in Kinds
  PROVE  /\ l.call = "add" => Handle(c, l) = HandleAdd(c, l)
         /\ l.call = "renamed" => Handle(c, l) = HandleRenamed(c, l)
         /\ l.call = "initManager" => Handle(c, l) = HandleInitManager(c, l)
         /\ l.call \in {"set", "setNick", "quit", "init"} /\ Addressee(c, l) = None
              => Handle(c, l) = Result(c, << >>)
         /\ l.call = "set" /\ Addressee(c, l) # None
              => Handle(c, l) = Result([c EXCEPT !.value[Addressee(c, l)] = l.value], << >>)
         /\ l.call = "setNick" /\ Addressee(c, l) # None
              => Handle(c, l) = Result([c EXCEPT !.own[Addressee(c, l)] = l.new], << >>)
         /\ l.call = "quit" /\ Addressee(c, l) # None
              => Handle(c, l) = Result(Forget(c, Addressee(c, l)), << >>)
         /\ l.call = "init" /\ Addressee(c, l) # None
              => Handle(c, l) = Result(SetInitData(c, Addressee(c, l), l.value), << >>)
BY DEF Handle, Kinds

LEMMA Nothing ==
  ASSUME NEW c \in ClientType, NEW x, NEW S, Sees(c, x, S)
  PROVE  After(Result(c, << >>), x, S)
BY DEF After, Result

LEMMA ManagerClear ==
  /\ None \notin Names /\ None \notin Objs
BY SignalProxyAssumption

LEMMA NewCopy ==
  ASSUME NEW c \in ClientType, NEW n \in Names, NEW o \in Objs
  PROVE  \A k : k = NewIrcUser(c, n, o) =>
            /\ k \in ClientType
            /\ k.on = c.on /\ k.init = c.init /\ k.ready = c.ready
            /\ k.slave = [c.slave EXCEPT ![n] = o]
            /\ k.own = [c.own EXCEPT ![o] = n]
            /\ k.value = [c.value EXCEPT ![o] = 0]
<1> DEFINE k == NewIrcUser(c, n, o)
<1>0. 0 \in 0 .. MaxValue
  BY SignalProxyAssumption
<1>1. k.on = c.on /\ k.init = c.init /\ k.ready = c.ready
  BY DEF ClientType, NewIrcUser
<1>2. k.slave = [c.slave EXCEPT ![n] = o]
  BY DEF ClientType, NewIrcUser
<1>3. k.own = [c.own EXCEPT ![o] = n]
  BY DEF ClientType, NewIrcUser
<1>4. k.value = [c.value EXCEPT ![o] = 0]
  BY DEF ClientType, NewIrcUser
<1>5. k \in ClientType
  BY <1>0 DEF ClientType, NewIrcUser
<1>6. QED
  BY <1>1, <1>2, <1>3, <1>4, <1>5

LEMMA AddFits ==
  ASSUME NEW c, NEW l, NEW w, NEW x, Before(c, l, w, x), Sees(c, w, {}), l.call = "add"
  PROVE  After(HandleAdd(c, l), x, {}) /\ HandleAdd(c, l).client.init = c.init
                                       /\ HandleAdd(c, l).client.on = c.on
<1> USE ManagerClear
<1>1. /\ c \in ClientType /\ w \in Worlds /\ x \in Worlds
      /\ l.name \in Names /\ l.obj \in Objs
      /\ Adds(l, w, x)
  BY CallKinds DEF Before, Tells
<1>2. w.core \in [Names -> Objs \union {None}] /\ x.core \in [Names -> Objs \union {None}]
  BY <1>1 DEF Worlds, Cores
<1>3. c.slave[l.name] = None
  BY <1>1 DEF Adds, Sees
<1>4. ~Known(c, l.name)
  BY <1>1, <1>3 DEF Sees, OwnFits, Known, ClientType
<1> DEFINE k == NewIrcUser(c, l.name, l.obj)
<1>5. HandleAdd(c, l) = Result(k, RequestInit(k, l.obj))
  BY <1>4 DEF HandleAdd
<1>6. \A n \in Names : c.slave[n] # l.obj
  BY <1>1 DEF Sees, Adds
<1>7. l.obj \notin c.ready
  BY <1>6 DEF Sees
<1>8. /\ k \in ClientType
      /\ k.on = c.on /\ k.init = c.init /\ k.ready = c.ready
      /\ k.slave[l.name] = l.obj /\ \A n \in Names : n # l.name => k.slave[n] = c.slave[n]
      /\ k.own[l.obj] = l.name /\ \A o \in Objs : o # l.obj => k.own[o] = c.own[o]
      /\ \A o \in Objs : o # l.obj => k.value[o] = c.value[o]
  <2>1. /\ c.slave \in [Names -> Objs \union {None}]
        /\ c.own \in [Objs -> Names \union {None}]
        /\ c.value \in [Objs -> 0 .. MaxValue]
    BY <1>1 DEF ClientType
  <2>a. k = NewIrcUser(c, l.name, l.obj)
    OBVIOUS
  <2> HIDE DEF k
  <2>2. /\ k \in ClientType
        /\ k.on = c.on /\ k.init = c.init /\ k.ready = c.ready
        /\ k.slave = [c.slave EXCEPT ![l.name] = l.obj]
        /\ k.own = [c.own EXCEPT ![l.obj] = l.name]
        /\ k.value = [c.value EXCEPT ![l.obj] = 0]
    BY <1>1, <2>a, NewCopy
  <2>3. QED
    BY <1>1, <2>1, <2>2
<1>9. k.ready \subseteq Objs /\ c.ready \subseteq Objs
  BY <1>1, <1>8 DEF ClientType
<1> HIDE DEF k
<1>10. RequestInit(k, l.obj) = <<l.name>>
  BY <1>7, <1>8 DEF RequestInit
<1>11. Sees(k, x, {})
  <2>1. \A n \in Names : k.slave[n] \in {None, x.core[n]}
    BY <1>1, <1>8 DEF Sees, Adds
  <2>2. k.init => \A n \in Names : k.slave[n] = x.core[n]
    BY <1>1, <1>8 DEF Sees, Adds
  <2>3. \A o \in k.ready : k.value[o] = x.value[o] /\ \E n \in Names : k.slave[n] = o
    BY <1>1, <1>3, <1>7, <1>8, <1>9 DEF Sees, Adds
  <2>4. OwnFits(k, {})
    BY <1>1, <1>3, <1>6, <1>8 DEF Sees, OwnFits
  <2>5. QED
    BY <2>1, <2>2, <2>3, <2>4 DEF Sees
<1>12. QED
  BY <1>1, <1>5, <1>8, <1>10, <1>11 DEF After, Result

LEMMA SetFits ==
  ASSUME NEW c, NEW l, NEW w, NEW x, Before(c, l, w, x), Sees(c, w, {}), l.call = "set"
  PROVE  After(Handle(c, l), x, {}) /\ Handle(c, l).client.init = c.init
                                    /\ Handle(c, l).client.on = c.on
<1> USE ManagerClear
<1>1. /\ c \in ClientType /\ w \in Worlds /\ x \in Worlds
      /\ l.call \in Kinds /\ l.name \in Names /\ l.obj \in Objs /\ l.value \in 0 .. MaxValue
      /\ Sets(l, w, x)
  BY CallKinds DEF Before, Tells
<1>2. w.core \in [Names -> Objs \union {None}] /\ x.core = w.core
  BY <1>1 DEF Worlds, Cores, Sets
<1>3. c.ready \subseteq Objs
  BY <1>1 DEF ClientType
<1>4. CASE c.slave[l.name] = None
  <2>1. \A n \in Names : c.slave[n] # l.obj
    BY <1>1, <1>2, <1>4 DEF Sees, Sets, Worlds, Cores
  <2>2. \A o \in c.ready : c.value[o] = x.value[o]
    BY <1>1, <1>3, <2>1 DEF Sees, Sets
  <2>3. Sees(c, x, {})
    BY <1>2, <2>2 DEF Sees
  <2>4. Handle(c, l) = Result(c, << >>)
    BY <1>1, <1>4, Handled DEF Addressee
  <2>5. QED
    BY <1>1, <2>3, <2>4, Nothing DEF Result
<1>5. CASE c.slave[l.name] # None
  <2>1. c.slave[l.name] = l.obj
    BY <1>1, <1>5 DEF Sees, Sets
  <2> DEFINE k == [c EXCEPT !.value[l.obj] = l.value]
  <2>2. Handle(c, l) = Result(k, << >>)
    BY <1>1, <1>5, <2>1, Handled, ZenonT(60) DEF Addressee
  <2>3. /\ k \in ClientType
        /\ k.on = c.on /\ k.init = c.init /\ k.ready = c.ready
        /\ k.slave = c.slave /\ k.own = c.own
        /\ k.value[l.obj] = l.value /\ \A o \in Objs : o # l.obj => k.value[o] = c.value[o]
    BY <1>1 DEF ClientType
  <2> HIDE DEF k
  <2>4. \A o \in k.ready : k.value[o] = x.value[o] /\ \E n \in Names : k.slave[n] = o
    BY <1>1, <1>3, <2>3 DEF Sees, Sets
  <2>5. Sees(k, x, {})
    BY <1>2, <2>3, <2>4 DEF Sees, OwnFits
  <2>6. QED
    BY <2>2, <2>3, <2>5, Nothing DEF Result
<1>6. QED
  BY <1>4, <1>5

LEMMA NickFits ==
  ASSUME NEW c, NEW l, NEW w, NEW x, Before(c, l, w, x), Sees(c, w, {l.obj}), l.call = "setNick"
  PROVE  After(Handle(c, l), x, {}) /\ Handle(c, l).client.init = c.init
                                    /\ Handle(c, l).client.on = c.on
<1> USE ManagerClear
<1>1. /\ c \in ClientType /\ w \in Worlds /\ x = w
      /\ l.call \in Kinds /\ l.name \in Names /\ l.obj \in Objs
      /\ l.new = l.name /\ w.core[l.name] = l.obj
  BY CallKinds DEF Before, Tells
<1>2. \A n \in Names : w.core[n] = l.obj => n = l.name
  BY <1>1 DEF Worlds, Cores
<1>3. CASE c.slave[l.name] = None
  <2>1. \A n \in Names : c.slave[n] # l.obj
    BY <1>1, <1>2, <1>3 DEF Sees
  <2>2. c.own[l.obj] = None
    BY <1>1, <2>1 DEF Sees, OwnFits
  <2>3. OwnFits(c, {})
    BY <1>1, <2>1, <2>2 DEF Sees, OwnFits
  <2>4. Sees(c, x, {})
    BY <1>1, <2>3 DEF Sees
  <2>5. Handle(c, l) = Result(c, << >>)
    BY <1>1, <1>3, Handled DEF Addressee
  <2>6. QED
    BY <1>1, <2>4, <2>5, Nothing DEF Result
<1>4. CASE c.slave[l.name] # None
  <2>1. c.slave[l.name] = l.obj
    BY <1>1, <1>4 DEF Sees
  <2>2. \A n \in Names : c.slave[n] = l.obj => n = l.name
    BY <1>1, <1>2 DEF Sees
  <2> DEFINE k == [c EXCEPT !.own[l.obj] = l.name]
  <2>a. Addressee(c, l) = l.obj /\ l.obj # None
    BY <1>1, <2>1 DEF Addressee
  <2>b. Handle(c, l) = Result([c EXCEPT !.own[Addressee(c, l)] = l.new], << >>)
    BY <1>1, <2>a, Handled
  <2>3. Handle(c, l) = Result(k, << >>)
    BY <1>1, <2>a, <2>b
  <2>4. /\ k \in ClientType
        /\ k.on = c.on /\ k.init = c.init /\ k.ready = c.ready
        /\ k.slave = c.slave /\ k.value = c.value
        /\ k.own[l.obj] = l.name /\ \A o \in Objs : o # l.obj => k.own[o] = c.own[o]
    BY <1>1 DEF ClientType
  <2> HIDE DEF k
  <2>5. OwnFits(k, {})
    BY <1>1, <2>1, <2>2, <2>4 DEF Sees, OwnFits
  <2>6. Sees(k, x, {})
    BY <1>1, <2>4, <2>5 DEF Sees
  <2>7. QED
    BY <2>3, <2>4, <2>6, Nothing DEF Result
<1>5. QED
  BY <1>3, <1>4

LEMMA Forgotten ==
  ASSUME NEW c \in ClientType, NEW o \in Objs
  PROVE  \A k : k = Forget(c, o) =>
            /\ k \in ClientType
            /\ k.on = c.on /\ k.init = c.init /\ k.ready = c.ready \ {o}
            /\ \A n \in Names : /\ c.slave[n] = o => k.slave[n] = None
                                /\ c.slave[n] # o => k.slave[n] = c.slave[n]
            /\ k.own[o] = None /\ \A p \in Objs : p # o => k.own[p] = c.own[p]
            /\ \A p \in Objs : p # o => k.value[p] = c.value[p]
<1> DEFINE k == Forget(c, o)
<1>0. 0 \in 0 .. MaxValue
  BY SignalProxyAssumption
<1>1. k.on = c.on /\ k.init = c.init /\ k.ready = c.ready \ {o}
  BY DEF ClientType, Forget
<1>2. k.slave = [n \in Names |-> IF c.slave[n] = o THEN None ELSE c.slave[n]]
  BY DEF ClientType, Forget
<1>3. k.own = [c.own EXCEPT ![o] = None]
  BY DEF ClientType, Forget
<1>4. k.value = [c.value EXCEPT ![o] = 0]
  BY DEF ClientType, Forget
<1>5. k \in ClientType
  BY <1>0 DEF ClientType, Forget
<1>6. /\ c.own \in [Objs -> Names \union {None}]
      /\ c.value \in [Objs -> 0 .. MaxValue]
  BY DEF ClientType
<1> HIDE DEF k
<1>7. QED
  BY <1>1, <1>2, <1>3, <1>4, <1>5, <1>6 DEF k

LEMMA QuitFits ==
  ASSUME NEW c, NEW l, NEW w, NEW x, Before(c, l, w, x), Sees(c, w, {}), l.call = "quit"
  PROVE  After(Handle(c, l), x, {}) /\ Handle(c, l).client.init = c.init
                                    /\ Handle(c, l).client.on = c.on
<1> USE ManagerClear
<1>1. /\ c \in ClientType /\ w \in Worlds /\ x \in Worlds
      /\ l.call \in Kinds /\ l.name \in Names /\ l.obj \in Objs
      /\ Quits(l, w, x)
  BY CallKinds DEF Before, Tells
<1>2. \A n \in Names : w.core[n] = l.obj => n = l.name
  BY <1>1 DEF Worlds, Cores, Quits
<1>3. c.ready \subseteq Objs
  BY <1>1 DEF ClientType
<1>4. CASE c.slave[l.name] = None
  <2>1. \A n \in Names : c.slave[n] # l.obj
    BY <1>1, <1>2, <1>4 DEF Sees
  <2>2. l.obj \notin c.ready
    BY <2>1 DEF Sees
  <2>3. \A o \in c.ready : c.value[o] = x.value[o]
    BY <1>1, <1>3, <2>2 DEF Sees, Quits
  <2>4. \A n \in Names : c.slave[n] \in {None, x.core[n]}
    BY <1>1, <1>4 DEF Sees, Quits
  <2>5. c.init => \A n \in Names : c.slave[n] = x.core[n]
    BY <1>1, <1>4 DEF Sees, Quits
  <2>6. Sees(c, x, {})
    BY <2>3, <2>4, <2>5 DEF Sees
  <2>7. Handle(c, l) = Result(c, << >>)
    BY <1>1, <1>4, Handled DEF Addressee
  <2>8. QED
    BY <1>1, <2>6, <2>7, Nothing DEF Result
<1>5. CASE c.slave[l.name] # None
  <2>1. c.slave[l.name] = l.obj
    BY <1>1, <1>5 DEF Sees, Quits
  <2>2. \A n \in Names : c.slave[n] = l.obj => n = l.name
    BY <1>1, <1>2 DEF Sees
  <2>a. Addressee(c, l) = l.obj /\ l.obj # None
    BY <1>1, <2>1 DEF Addressee
  <2>b. Handle(c, l) = Result(Forget(c, Addressee(c, l)), << >>)
    BY <1>1, <2>a, Handled, ZenonT(60)
  <2> DEFINE k == Forget(c, l.obj)
  <2>3. Handle(c, l) = Result(k, << >>)
    BY <2>a, <2>b
  <2> HIDE DEF k
  <2>4. /\ k \in ClientType
        /\ k.on = c.on /\ k.init = c.init /\ k.ready = c.ready \ {l.obj}
        /\ k.slave[l.name] = None /\ \A n \in Names : n # l.name => k.slave[n] = c.slave[n]
        /\ k.own[l.obj] = None /\ \A o \in Objs : o # l.obj => k.own[o] = c.own[o]
        /\ \A o \in Objs : o # l.obj => k.value[o] = c.value[o]
    <3>1. /\ k \in ClientType
          /\ k.on = c.on /\ k.init = c.init /\ k.ready = c.ready \ {l.obj}
          /\ \A n \in Names : /\ c.slave[n] = l.obj => k.slave[n] = None
                              /\ c.slave[n] # l.obj => k.slave[n] = c.slave[n]
          /\ k.own[l.obj] = None /\ \A o \in Objs : o # l.obj => k.own[o] = c.own[o]
          /\ \A o \in Objs : o # l.obj => k.value[o] = c.value[o]
      BY <1>1, Forgotten DEF k
    <3>2. k.slave[l.name] = None
      BY <1>1, <2>1, <3>1
    <3>3. \A n \in Names : n # l.name => k.slave[n] = c.slave[n]
      BY <2>2, <3>1
    <3>4. QED
      BY <3>1, <3>2, <3>3
  <2>c. /\ \A n \in Names : c.slave[n] \in {None, w.core[n]}
        /\ c.init => \A n \in Names : c.slave[n] = w.core[n]
        /\ OwnFits(c, {})
    BY DEF Sees
  <2>d. /\ x.core[l.name] = None
        /\ \A n \in Names : n # l.name => x.core[n] = w.core[n]
    BY <1>1 DEF Quits
  <2>5. \A n \in Names : k.slave[n] \in {None, x.core[n]}
    BY <1>1, <2>4, <2>c, <2>d
  <2>6. k.init => \A n \in Names : k.slave[n] = x.core[n]
    BY <1>1, <2>4, <2>c, <2>d
  <2>7. \A o \in k.ready : k.value[o] = x.value[o] /\ \E n \in Names : k.slave[n] = o
    BY <1>1, <1>3, <2>1, <2>4 DEF Sees, Quits
  <2>8. OwnFits(k, {})
    <3> SUFFICES ASSUME NEW o \in Objs, NEW n \in Names
                 PROVE  k.own[o] = n <=> k.slave[n] = o
      BY DEF OwnFits
    <3>1. c.own[o] = n <=> c.slave[n] = o
      BY <2>c DEF OwnFits
    <3>2. CASE o = l.obj
      <4>1. k.own[o] = None /\ k.slave[n] # o
        BY <1>1, <2>1, <2>2, <2>4, <3>2
      <4>2. QED
        BY <4>1
    <3>3. CASE o # l.obj
      <4>1. k.own[o] = c.own[o]
        BY <2>4, <3>3
      <4>2. k.slave[n] = o <=> c.slave[n] = o
        BY <1>1, <2>1, <2>4, <3>3
      <4>3. QED
        BY <3>1, <4>1, <4>2
    <3>4. QED
      BY <3>2, <3>3
  <2>9. Sees(k, x, {})
    BY <2>5, <2>6, <2>7, <2>8 DEF Sees
  <2>10. QED
    BY <2>3, <2>4, <2>9, Nothing DEF Result
<1>6. QED
  BY <1>4, <1>5

LEMMA InitFits ==
  ASSUME NEW c, NEW l, NEW w, NEW x, Before(c, l, w, x), Sees(c, w, {}), l.call = "init"
  PROVE  After(Handle(c, l), x, {}) /\ Handle(c, l).client.init = c.init
                                    /\ Handle(c, l).client.on = c.on
<1> USE ManagerClear
<1>1. /\ c \in ClientType /\ w \in Worlds /\ x = w
      /\ l.call \in Kinds /\ l.name \in Names /\ l.obj \in Objs /\ l.value \in 0 .. MaxValue
      /\ w.core[l.name] = l.obj /\ l.value = w.value[l.obj]
  BY CallKinds DEF Before, Tells
<1>2. CASE c.slave[l.name] = None
  <2>1. Handle(c, l) = Result(c, << >>)
    BY <1>1, <1>2, Handled DEF Addressee
  <2>2. QED
    BY <1>1, <2>1, Nothing DEF Result
<1>3. CASE c.slave[l.name] # None
  <2>1. c.slave[l.name] = l.obj
    BY <1>1, <1>3 DEF Sees
  <2>a. Addressee(c, l) = l.obj /\ l.obj # None
    BY <1>1, <2>1 DEF Addressee
  <2>b. Handle(c, l) = Result(SetInitData(c, Addressee(c, l), l.value), << >>)
    BY <1>1, <2>a, Handled, ZenonT(60)
  <2>2. Handle(c, l) = Result(SetInitData(c, l.obj, l.value), << >>)
    BY <2>a, <2>b
  <2>3. CASE l.obj \in c.ready
    <3>1. SetInitData(c, l.obj, l.value) = c
      BY <2>3 DEF SetInitData
    <3>2. QED
      BY <1>1, <2>2, <3>1, Nothing DEF Result
  <2>4. CASE l.obj \notin c.ready
    <3> DEFINE k == SetInitData(c, l.obj, l.value)
    <3>1. /\ k \in ClientType
          /\ k.on = c.on /\ k.init = c.init /\ k.ready = c.ready \union {l.obj}
          /\ k.slave = c.slave /\ k.own = c.own
          /\ k.value[l.obj] = l.value /\ \A o \in Objs : o # l.obj => k.value[o] = c.value[o]
      BY <1>1, <2>4 DEF ClientType, SetInitData
    <3> HIDE DEF k
    <3>2. \A o \in k.ready : k.value[o] = x.value[o] /\ \E n \in Names : k.slave[n] = o
      <4>1. c.ready \subseteq Objs
        BY <1>1 DEF ClientType
      <4>2. QED
        BY <1>1, <2>1, <3>1, <4>1, <2>4 DEF Sees
    <3>3. Sees(k, x, {})
      BY <1>1, <3>1, <3>2 DEF Sees, OwnFits
    <3>4. QED
      BY <2>2, <3>1, <3>3, Nothing DEF Result, k
  <2>5. QED
    BY <2>3, <2>4
<1>4. QED
  BY <1>2, <1>3

LEMMA RenameFits ==
  ASSUME NEW c, NEW l, NEW w, NEW x, Before(c, l, w, x), Sees(c, w, {}), l.call = "renamed"
  PROVE  After(Handle(c, l), x, {l.obj}) /\ Handle(c, l).client.init = c.init
                                         /\ Handle(c, l).client.on = c.on
<1> USE ManagerClear
<1>1. /\ c \in ClientType /\ w \in Worlds /\ x \in Worlds
      /\ l.call \in Kinds /\ l.name \in Names /\ l.new \in Names /\ l.obj \in Objs
      /\ Renames(l, w, x)
  BY CallKinds DEF Before, Tells
<1>2. \A n \in Names : w.core[n] = l.obj => n = l.name
  BY <1>1 DEF Worlds, Cores, Renames
<1>3. l.name # l.new
  BY <1>1 DEF Renames
<1>4. c.slave[l.new] = None
  BY <1>1 DEF Sees, Renames
<1>5. Handle(c, l) = HandleRenamed(c, l)
  BY <1>1, Handled
<1>a. /\ \A n \in Names : c.slave[n] \in {None, w.core[n]}
      /\ c.init => \A n \in Names : c.slave[n] = w.core[n]
      /\ OwnFits(c, {})
  BY DEF Sees
<1>b. /\ w.core[l.name] = l.obj /\ x.core[l.new] = l.obj /\ x.core[l.name] = None
      /\ \A n \in Names : n # l.name /\ n # l.new => x.core[n] = w.core[n]
      /\ x.value = w.value
  BY <1>1 DEF Renames
<1>6. CASE c.slave[l.name] = None
  <2>1. Handle(c, l) = Result(c, << >>)
    BY <1>5, <1>6 DEF HandleRenamed, Addressee
  <2>2. \A n \in Names : c.slave[n] \in {None, x.core[n]}
    BY <1>1, <1>4, <1>6, <1>a, <1>b
  <2>3. ~c.init
    BY <1>1, <1>6, <1>a, <1>b
  <2>4. OwnFits(c, {l.obj})
    BY <1>1, <1>a DEF OwnFits, ClientType
  <2>5. Sees(c, x, {l.obj})
    BY <1>b, <2>2, <2>3, <2>4 DEF Sees
  <2>6. QED
    BY <1>1, <2>1, <2>5, Nothing DEF Result
<1>7. CASE c.slave[l.name] # None
  <2>1. c.slave[l.name] = l.obj
    BY <1>1, <1>7, <1>a, <1>b
  <2>2. \A n \in Names : c.slave[n] = l.obj => n = l.name
    BY <1>1, <1>2, <1>a
  <2> DEFINE k == Moved(c, l.name, l.new)
  <2>3. Handle(c, l) = Result(k, RequestInit(c, l.obj))
    BY <1>1, <1>3, <1>5, <1>7, <2>1 DEF HandleRenamed, Addressee
  <2>4. /\ k \in ClientType
        /\ k.on = c.on /\ k.init = c.init /\ k.ready = c.ready
        /\ k.own = c.own /\ k.value = c.value
        /\ k.slave = [c.slave EXCEPT ![l.new] = c.slave[l.name], ![l.name] = None]
    BY <1>1, <1>3 DEF ClientType, Moved
  <2> HIDE DEF k
  <2>5. c.slave \in [Names -> Objs \union {None}] /\ c.own \in [Objs -> Names \union {None}]
    BY <1>1 DEF ClientType
  <2>6. /\ k.slave[l.new] = l.obj /\ k.slave[l.name] = None
        /\ \A n \in Names : n # l.name /\ n # l.new => k.slave[n] = c.slave[n]
    BY <1>1, <1>3, <2>1, <2>4, <2>5
  <2>7. \A n \in Names : k.slave[n] \in {None, x.core[n]}
    BY <1>1, <1>a, <1>b, <2>6
  <2>8. k.init => \A n \in Names : k.slave[n] = x.core[n]
    BY <1>1, <1>a, <1>b, <2>4, <2>6
  <2>9. \A o \in Objs : (\E n \in Names : c.slave[n] = o) => \E n \in Names : k.slave[n] = o
    <3> SUFFICES ASSUME NEW o \in Objs, NEW n \in Names, c.slave[n] = o
                 PROVE  \E m \in Names : k.slave[m] = o
      OBVIOUS
    <3>1. CASE n = l.name
      BY <1>1, <2>1, <2>6, <3>1
    <3>2. CASE n = l.new
      BY <1>4, <3>2
    <3>3. CASE n # l.name /\ n # l.new
      BY <2>6, <3>3
    <3>4. QED
      BY <3>1, <3>2, <3>3
  <2>10. \A o \in k.ready : k.value[o] = x.value[o] /\ \E n \in Names : k.slave[n] = o
    <3>1. c.ready \subseteq Objs
      BY <1>1 DEF ClientType
    <3>2. \A o \in c.ready : c.value[o] = w.value[o] /\ \E n \in Names : c.slave[n] = o
      BY DEF Sees
    <3>3. QED
      BY <1>b, <2>4, <2>9, <3>1, <3>2
  <2>11. c.own[l.obj] = l.name
    BY <1>1, <1>a, <2>1 DEF OwnFits
  <2>12. OwnFits(k, {l.obj})
    <3>1. ASSUME NEW o \in Objs, o # l.obj, NEW n \in Names
          PROVE  k.own[o] = n <=> k.slave[n] = o
      <4>1. c.own[o] = n <=> c.slave[n] = o
        BY <1>a DEF OwnFits
      <4>2. k.own[o] = c.own[o]
        BY <2>4
      <4>3. CASE n = l.name \/ n = l.new
        <5>1. k.slave[n] # o /\ c.slave[n] # o
          BY <1>1, <1>4, <2>1, <2>6, <3>1, <4>3
        <5>2. QED
          BY <4>1, <4>2, <5>1
      <4>4. CASE n # l.name /\ n # l.new
        BY <2>6, <4>1, <4>2, <4>4
      <4>5. QED
        BY <4>3, <4>4
    <3>2. k.own[l.obj] # None
      BY <1>1, <2>4, <2>11
    <3>3. QED
      BY <1>1, <2>6, <3>1, <3>2 DEF OwnFits
  <2>13. Sees(k, x, {l.obj})
    BY <2>7, <2>8, <2>10, <2>12 DEF Sees
  <2>14. RequestInit(c, l.obj) \in Seq(Names)
    BY <1>1, <2>11 DEF RequestInit
  <2>15. QED
    BY <2>3, <2>4, <2>13, <2>14 DEF After, Result
<1>8. QED
  BY <1>6, <1>7

LEMMA Requested ==
  ASSUME NEW S, S \subseteq Ids
  PROVE  SetToSeq(S) \in Seq(Names)
<1>1. IsFiniteSet(S)
  BY SignalProxyAssumption, FS_Subset
<1>2. Cardinality(S) \in Nat /\ ExistsBijection(1 .. Cardinality(S), S)
  BY <1>1, FS_CardinalityType
<1>3. \E f \in [1 .. Cardinality(S) -> S] : IsInjective(f)
  BY <1>2 DEF ExistsBijection, Bijection, Injection
<1>4. SetToSeq(S) \in [1 .. Cardinality(S) -> S]
  BY <1>3 DEF SetToSeq
<1>5. SetToSeq(S) \in [1 .. Cardinality(S) -> Names]
  BY <1>4, SignalProxyAssumption
<1>6. QED
  BY <1>2, <1>5, SeqDef

\* the client k after the manager's init data, which brought the names new
IsFilled(k, new, c, objects, values) ==
  /\ k \in ClientType
  /\ k.on = c.on /\ k.init = TRUE
  /\ k.ready = c.ready \union {objects[n] : n \in new \ Ids}
  /\ \A n \in Names : /\ n \in new => k.slave[n] = objects[n]
                      /\ n \notin new => k.slave[n] = c.slave[n]
  /\ \A n \in new : k.own[objects[n]] = n
  /\ \A o \in Objs : (\A n \in new : objects[n] # o) => k.own[o] = c.own[o]
  /\ \A o \in Objs : /\ (\E n \in new \ Ids : objects[n] = o) => k.value[o] = values[o]
                     /\ ~(\E n \in new \ Ids : objects[n] = o) => k.value[o] = c.value[o]

LEMMA FilledIs ==
  ASSUME NEW c \in ClientType, NEW objects \in Cores, NEW values \in Values
  PROVE  IsFilled(Filled(c, objects, values), Missing(c, objects), c, objects, values)
<1> DEFINE k == Filled(c, objects, values)
           new == Missing(c, objects)
           named(o) == CHOOSE n \in new : objects[n] = o
           objs == {objects[n] : n \in new}
           full == {objects[n] : n \in new \ Ids}
<1>1. /\ objects \in [Names -> Objs \union {None}]
      /\ \A m, n \in Names : objects[m] = objects[n] /\ objects[m] # None => m = n
      /\ values \in [Objs -> 0 .. MaxValue]
  BY DEF Cores, Values
<1>2. new \subseteq Names /\ \A n \in new : objects[n] \in Objs
  BY <1>1 DEF Missing
<1>3. \A n \in new : named(objects[n]) = n
  BY <1>1, <1>2, ManagerClear
<1>4. \A o \in objs : named(o) \in Names
  BY <1>2, <1>3
<1>5. /\ c = [on |-> c.on, init |-> c.init, slave |-> c.slave, own |-> c.own,
              value |-> c.value, ready |-> c.ready]
      /\ c.on \in BOOLEAN /\ c.ready \subseteq Objs
      /\ c.slave \in [Names -> Objs \union {None}] /\ c.own \in [Objs -> Names \union {None}]
      /\ c.value \in [Objs -> 0 .. MaxValue]
  BY DEF ClientType
<1> HIDE DEF new
<1> DEFINE slave == [n \in Names |-> IF n \in new THEN objects[n] ELSE c.slave[n]]
           own == [o \in Objs |-> IF o \in objs THEN named(o) ELSE c.own[o]]
           vals == [o \in Objs |-> IF o \in full THEN values[o] ELSE c.value[o]]
<1>6. k = [c EXCEPT !.init = TRUE, !.slave = slave, !.own = own, !.value = vals,
                    !.ready = c.ready \union full]
  BY DEF Filled, new
<1> HIDE DEF named
<1>7. /\ slave \in [Names -> Objs \union {None}]
      /\ vals \in [Objs -> 0 .. MaxValue]
      /\ full \subseteq Objs
  BY <1>1, <1>2, <1>5
<1>8. own \in [Objs -> Names \union {None}]
  BY <1>4, <1>5
<1>9. /\ \A n \in Names : /\ n \in new => slave[n] = objects[n]
                          /\ n \notin new => slave[n] = c.slave[n]
      /\ \A o \in Objs : /\ o \in objs => own[o] = named(o)
                         /\ o \notin objs => own[o] = c.own[o]
      /\ \A o \in Objs : /\ o \in full => vals[o] = values[o]
                         /\ o \notin full => vals[o] = c.value[o]
  OBVIOUS
<1> HIDE DEF k, slave, own, vals, full
<1>10. /\ k.on = c.on /\ k.init = TRUE /\ k.slave = slave /\ k.own = own /\ k.value = vals
       /\ k.ready = c.ready \union full
  BY <1>6 DEF ClientType
<1>13. k \in ClientType
  BY <1>6, <1>7, <1>8 DEF ClientType
<1>14. \A n \in new : k.own[objects[n]] = n
  BY <1>2, <1>3, <1>9, <1>10
<1>15. \A o \in Objs : (\A n \in new : objects[n] # o) => k.own[o] = c.own[o]
  BY <1>9, <1>10
<1>16. \A o \in Objs : /\ (\E n \in new \ Ids : objects[n] = o) => k.value[o] = values[o]
                       /\ ~(\E n \in new \ Ids : objects[n] = o) => k.value[o] = c.value[o]
  BY <1>9, <1>10 DEF full
<1>17. \A n \in Names : /\ n \in new => k.slave[n] = objects[n]
                        /\ n \notin new => k.slave[n] = c.slave[n]
  BY <1>9, <1>10
<1>18. k.ready = c.ready \union {objects[n] : n \in new \ Ids}
  BY <1>10 DEF full
<1>a. k.on = c.on /\ k.init = TRUE
  BY <1>10
<1>19. IsFilled(k, new, c, objects, values)
  BY ONLY <1>a, <1>13, <1>14, <1>15, <1>16, <1>17, <1>18, Zenon DEF IsFilled
<1>20. QED
  BY <1>19 DEF k, new

LEMMA ManagerFits ==
  ASSUME NEW c, NEW l, NEW w, NEW x, Before(c, l, w, x), Sees(c, w, {}), l.call = "initManager"
  PROVE  After(Handle(c, l), x, {}) /\ Handle(c, l).client.init
                                    /\ Handle(c, l).client.on = c.on
<1> USE ManagerClear
<1>1. /\ c \in ClientType /\ w \in Worlds /\ x = w
      /\ l.call \in Kinds /\ l.objects = w.core /\ l.values = w.value
  BY CallKinds DEF Before, Tells
<1>2. Handle(c, l) = HandleInitManager(c, l)
  BY <1>1, Handled
<1>3. CASE c.init
  <2>1. Handle(c, l) = Result(c, << >>)
    BY <1>2, <1>3 DEF HandleInitManager
  <2>2. QED
    BY <1>1, <1>3, <2>1, Nothing DEF Result
<1>4. CASE ~c.init
  <2> DEFINE k == Filled(c, l.objects, l.values)
             new == Missing(c, l.objects)
             asked == SetToSeq(new \intersect Ids)
  <2>1. Handle(c, l) = Result(k, asked)
    BY <1>2, <1>4 DEF HandleInitManager
  <2>2. asked \in Seq(Names)
    BY Requested
  <2>3. w.core \in Cores /\ w.value \in Values
    BY <1>1 DEF Worlds
  <2>4. /\ w.core \in [Names -> Objs \union {None}]
        /\ \A m, n \in Names : w.core[m] = w.core[n] /\ w.core[m] # None => m = n
    BY <2>3 DEF Cores
  <2>5. \A n \in Names : Known(c, n) <=> c.slave[n] # None
    BY <1>1 DEF Known, Sees, OwnFits, ClientType
  <2>6. \A n \in Names : n \in new <=> w.core[n] # None /\ c.slave[n] = None
    BY <1>1, <2>5 DEF Missing
  <2>7. new \subseteq Names /\ \A n \in new : w.core[n] \in Objs
    BY <1>1, <2>4 DEF Missing
  <2>8. k = Filled(c, w.core, w.value) /\ new = Missing(c, w.core)
    BY <1>1
  <2> HIDE DEF k, new, asked
  <2>9. /\ k \in ClientType
        /\ k.on = c.on /\ k.init = TRUE
        /\ k.ready = c.ready \union {w.core[n] : n \in new \ Ids}
        /\ \A n \in Names : /\ n \in new => k.slave[n] = w.core[n]
                            /\ n \notin new => k.slave[n] = c.slave[n]
        /\ \A n \in new : k.own[w.core[n]] = n
        /\ \A o \in Objs : (\A n \in new : w.core[n] # o) => k.own[o] = c.own[o]
        /\ \A o \in Objs : /\ (\E n \in new \ Ids : w.core[n] = o) => k.value[o] = w.value[o]
                           /\ ~(\E n \in new \ Ids : w.core[n] = o) => k.value[o] = c.value[o]
    <3>1. IsFilled(k, new, c, w.core, w.value)
      BY <1>1, <2>3, <2>8, FilledIs
    <3>2. QED
      BY <3>1 DEF IsFilled
  <2>10. \A n \in Names : k.slave[n] = w.core[n]
    BY <2>6, <2>9 DEF Sees
  <2>11. \A o \in k.ready : k.value[o] = w.value[o] /\ \E n \in Names : k.slave[n] = o
    <3> SUFFICES ASSUME NEW o \in k.ready
                 PROVE  k.value[o] = w.value[o] /\ \E n \in Names : k.slave[n] = o
      OBVIOUS
    <3>1. CASE \E n \in new \ Ids : w.core[n] = o
      <4>1. PICK n \in new \ Ids : w.core[n] = o
        BY <3>1
      <4>2. o \in Objs /\ n \in Names
        BY <2>7, <4>1
      <4>3. k.value[o] = w.value[o]
        BY <2>9, <3>1, <4>2
      <4>4. k.slave[n] = o
        BY <2>10, <4>1, <4>2
      <4>5. QED
        BY <4>2, <4>3, <4>4
    <3>2. CASE ~\E n \in new \ Ids : w.core[n] = o
      <4>1. o \in c.ready /\ o \in Objs
        BY <1>1, <2>9, <3>2 DEF ClientType
      <4>2. k.value[o] = c.value[o]
        BY <2>9, <3>2, <4>1
      <4>3. PICK n \in Names : c.slave[n] = o
        BY <4>1 DEF Sees
      <4>4. c.value[o] = w.value[o] /\ c.slave[n] \in {None, w.core[n]}
        BY <4>1 DEF Sees
      <4>5. k.slave[n] = o
        BY <2>10, <4>1, <4>3, <4>4
      <4>6. QED
        BY <4>2, <4>4, <4>5
    <3>3. QED
      BY <3>1, <3>2
  <2>12. ASSUME NEW o \in Objs, NEW n \in Names
         PROVE  k.own[o] = n <=> k.slave[n] = o
    <3>1. (c.own[o] = n <=> c.slave[n] = o) /\ c.slave[n] \in {None, w.core[n]}
      BY DEF Sees, OwnFits
    <3>2. CASE \E m \in new : w.core[m] = o
      <4>1. PICK m \in new : w.core[m] = o
        BY <3>2
      <4>2. k.own[o] = m /\ m \in Names
        BY <2>7, <2>9, <4>1
      <4>3. k.slave[n] = o <=> n = m
        BY <2>4, <2>10, <4>1, <4>2
      <4>4. QED
        BY <4>2, <4>3
    <3>3. CASE ~\E m \in new : w.core[m] = o
      <4>1. k.own[o] = c.own[o]
        BY <2>9, <3>3
      <4>2. w.core[n] = o => c.slave[n] = o
        BY <2>6, <3>1, <3>3
      <4>3. QED
        BY <2>10, <3>1, <4>1, <4>2
    <3>4. QED
      BY <3>2, <3>3
  <2>13. Sees(k, x, {})
    BY <1>1, <2>10, <2>11, <2>12 DEF Sees, OwnFits
  <2>14. QED
    BY <2>1, <2>2, <2>9, <2>13 DEF After, Result
<1>5. QED
  BY <1>3, <1>4

\* A call is handled: the client sees the next world, and knows the manager no less.
LEMMA HandleFits ==
  ASSUME NEW c, NEW l, NEW w, NEW x, Before(c, l, w, x),
         NEW S, l.call = "setNick" => S = {l.obj}, l.call # "setNick" => S = {}, Sees(c, w, S)
  PROVE  /\ Handle(c, l).client \in ClientType /\ Handle(c, l).requests \in Seq(Names)
         /\ l.call = "renamed" => Sees(Handle(c, l).client, x, {l.obj})
         /\ l.call # "renamed" => Sees(Handle(c, l).client, x, {})
         /\ Handle(c, l).client.on = c.on
         /\ c.init \/ l.call = "initManager" => Handle(c, l).client.init
<1>1. l.call \in Kinds
  BY CallKinds DEF Before
<1>2. Handle(c, l) = HandleAdd(c, l) \/ l.call # "add"
  BY <1>1, Handled
<1>3. CASE l.call = "add"
  <2>1. Sees(c, w, {}) /\ l.call # "initManager" /\ l.call # "renamed"
    BY <1>3
  <2>2. After(HandleAdd(c, l), x, {}) /\ HandleAdd(c, l).client.init = c.init
                                      /\ HandleAdd(c, l).client.on = c.on
    BY <1>3, <2>1, AddFits
  <2>3. c.init => HandleAdd(c, l).client.init
    BY <2>2
  <2>4. Handle(c, l) = HandleAdd(c, l)
    BY <1>2, <1>3
  <2>5. QED
    BY <2>1, <2>2, <2>3, <2>4 DEF After
<1>4. CASE l.call = "set"
  <2>1. Sees(c, w, {}) /\ l.call # "initManager" /\ l.call # "renamed"
    BY <1>4
  <2>2. After(Handle(c, l), x, {}) /\ Handle(c, l).client.init = c.init
                                   /\ Handle(c, l).client.on = c.on
    BY <1>4, <2>1, SetFits
  <2>3. c.init => Handle(c, l).client.init
    BY <2>2
  <2>4. QED
    BY <2>1, <2>2, <2>3, Zenon DEF After
<1>5. CASE l.call = "renamed"
  <2>1. Sees(c, w, {}) /\ l.call # "initManager"
    BY <1>5
  <2>2. After(Handle(c, l), x, {l.obj}) /\ Handle(c, l).client.init = c.init
                                        /\ Handle(c, l).client.on = c.on
    BY <1>5, <2>1, RenameFits
  <2>3. c.init => Handle(c, l).client.init
    BY <2>2
  <2>4. QED
    BY <1>5, <2>1, <2>2, <2>3, Zenon DEF After
<1>6. CASE l.call = "setNick"
  <2>1. Sees(c, w, {l.obj})
    BY <1>6
  <2>2. After(Handle(c, l), x, {}) /\ Handle(c, l).client.init = c.init
                                   /\ Handle(c, l).client.on = c.on
    BY <1>6, <2>1, NickFits
  <2>3. l.call # "renamed" /\ l.call # "initManager"
    BY <1>6
  <2>4. c.init => Handle(c, l).client.init
    BY <2>2
  <2>5. QED
    BY <2>2, <2>3, <2>4, Zenon DEF After
<1>7. CASE l.call = "quit"
  <2>1. Sees(c, w, {}) /\ l.call # "initManager" /\ l.call # "renamed"
    BY <1>7
  <2>2. After(Handle(c, l), x, {}) /\ Handle(c, l).client.init = c.init
                                   /\ Handle(c, l).client.on = c.on
    BY <1>7, <2>1, QuitFits
  <2>3. c.init => Handle(c, l).client.init
    BY <2>2
  <2>4. QED
    BY <2>1, <2>2, <2>3, Zenon DEF After
<1>8. CASE l.call = "init"
  <2>1. Sees(c, w, {}) /\ l.call # "initManager" /\ l.call # "renamed"
    BY <1>8
  <2>2. After(Handle(c, l), x, {}) /\ Handle(c, l).client.init = c.init
                                   /\ Handle(c, l).client.on = c.on
    BY <1>8, <2>1, InitFits
  <2>3. c.init => Handle(c, l).client.init
    BY <2>2
  <2>4. QED
    BY <2>1, <2>2, <2>3, Zenon DEF After
<1>9. CASE l.call = "initManager"
  <2>1. Sees(c, w, {})
    BY <1>9
  <2>2. After(Handle(c, l), x, {}) /\ Handle(c, l).client.init
                                   /\ Handle(c, l).client.on = c.on
    BY <1>9, <2>1, ManagerFits
  <2>3. l.call # "renamed"
    BY <1>9
  <2>4. QED
    BY <2>2, <2>3, Zenon DEF After
<1>10. \/ l.call = "add" \/ l.call = "set" \/ l.call = "renamed" \/ l.call = "setNick"
       \/ l.call = "quit" \/ l.call = "init" \/ l.call = "initManager"
  BY <1>1 DEF Kinds
<1>11. QED
  BY ONLY <1>3, <1>4, <1>5, <1>6, <1>7, <1>8, <1>9, <1>10, Zenon

-----------------------------------------------------------------------------
(* the calls under way *)

LEMMA HeadTail ==
  ASSUME NEW d \in Seq(Calls), d # << >>
  PROVE  /\ Head(d) = d[1] /\ Head(d) \in Calls
         /\ Tail(d) \in Seq(Calls) /\ Len(d) \in Nat \ {0} /\ Len(Tail(d)) = Len(d) - 1
         /\ \A i \in 1 .. Len(Tail(d)) : Tail(d)[i] = d[i + 1]
BY HeadTailProperties, EmptySeq

LEMMA NotEmpty ==
  ASSUME NEW d \in Seq(Calls), Len(d) > 0
  PROVE  d # << >>
OBVIOUS

LEMMA PathHere ==
  ASSUME NEW w \in Worlds, NEW x
  PROVE  /\ Path(<< >>, w, w)
         /\ Path(<< >>, w, x) => x = w
<1>1. Len(<< >>) = 0
  OBVIOUS
<1>2. Leads([i \in 0 .. 0 |-> w], << >>, w, w)
  BY <1>1 DEF Leads
<1>3. QED
  BY <1>1, <1>2 DEF Path, Leads

LEMMA PathGrows ==
  ASSUME NEW d \in Seq(Calls), NEW l \in Calls, NEW w, NEW x, NEW y \in Worlds,
         Path(d, w, x), Tells(l, x, y)
  PROVE  Path(Append(d, l), w, y)
<1>1. PICK W : Leads(W, d, w, x)
  BY DEF Path
<1> DEFINE e == Append(d, l)
           n == Len(d)
           V == [i \in 0 .. n + 1 |-> IF i = n + 1 THEN y ELSE W[i]]
<1>2. /\ n \in Nat /\ Len(e) = n + 1
      /\ \A i \in 1 .. n : e[i] = d[i]
      /\ e[n + 1] = l
  BY AppendProperties, LenProperties
<1> HIDE DEF e, n
<1>3. /\ W \in [0 .. n -> Worlds] /\ W[0] = w /\ W[n] = x
      /\ \A i \in 1 .. n : Tells(d[i], W[i - 1], W[i])
  BY <1>1 DEF Leads, n
<1>4. /\ V \in [0 .. n + 1 -> Worlds] /\ V[n + 1] = y
      /\ \A i \in 0 .. n : V[i] = W[i]
  BY <1>2, <1>3
<1> HIDE DEF V
<1>5. V[0] = w
  BY <1>2, <1>3, <1>4
<1>6. ASSUME NEW i \in 1 .. n + 1 PROVE Tells(e[i], V[i - 1], V[i])
  <2>1. CASE i = n + 1
    <3>1. V[i - 1] = x
      BY <1>2, <1>3, <1>4, <2>1
    <3>2. QED
      BY <1>2, <1>4, <2>1, <3>1
  <2>2. CASE i # n + 1
    <3>1. i \in 1 .. n /\ i - 1 \in 0 .. n /\ i \in 0 .. n
      BY <1>2, <2>2
    <3>2. e[i] = d[i] /\ V[i - 1] = W[i - 1] /\ V[i] = W[i]
      BY <1>2, <1>4, <3>1
    <3>3. QED
      BY <1>3, <3>1, <3>2
  <2>3. QED
    BY <2>1, <2>2
<1>7. Leads(V, e, w, y)
  BY <1>2, <1>4, <1>5, <1>6 DEF Leads
<1>8. QED
  BY <1>7 DEF Path, e

LEMMA PathShrinks ==
  ASSUME NEW d \in Seq(Calls), d # << >>, NEW w, NEW x, Path(d, w, x)
  PROVE  \E v \in Worlds : w \in Worlds /\ Tells(Head(d), w, v) /\ Path(Tail(d), v, x)
<1>1. PICK W : Leads(W, d, w, x)
  BY DEF Path
<1> DEFINE n == Len(Tail(d))
           V == [i \in 0 .. n |-> W[i + 1]]
<1>2. /\ Head(d) = d[1] /\ n \in Nat /\ Len(d) = n + 1
      /\ \A i \in 1 .. n : Tail(d)[i] = d[i + 1]
  BY HeadTail
<1> HIDE DEF n
<1>3. /\ W \in [0 .. n + 1 -> Worlds] /\ W[0] = w /\ W[n + 1] = x
      /\ \A i \in 1 .. n + 1 : Tells(d[i], W[i - 1], W[i])
  BY <1>1, <1>2 DEF Leads
<1>4. /\ V \in [0 .. n -> Worlds]
      /\ \A i \in 0 .. n : V[i] = W[i + 1]
  BY <1>2, <1>3
<1> HIDE DEF V
<1>5. Tells(Head(d), w, V[0])
  <2>1. Tells(d[1], W[1 - 1], W[1])
    BY <1>2, <1>3
  <2>2. V[0] = W[1]
    <3>1. V[0] = W[0 + 1]
      BY <1>2, <1>4
    <3>2. QED
      BY <3>1
  <2>3. W[1 - 1] = w
    BY <1>3
  <2>4. QED
    BY <1>2, <2>1, <2>2, <2>3
<1>6. ASSUME NEW i \in 1 .. n PROVE Tells(Tail(d)[i], V[i - 1], V[i])
  <2>1. i + 1 \in 1 .. n + 1 /\ i \in 0 .. n /\ i - 1 \in 0 .. n /\ (i + 1) - 1 = i /\ (i - 1) + 1 = i
    BY <1>2
  <2>2. Tells(d[i + 1], W[(i + 1) - 1], W[i + 1])
    BY <1>3, <2>1
  <2>3. V[i] = W[i + 1] /\ V[i - 1] = W[(i - 1) + 1]
    BY <1>4, <2>1
  <2>4. Tail(d)[i] = d[i + 1]
    BY <1>2
  <2>5. QED
    BY <2>1, <2>2, <2>3, <2>4
<1>7. V[n] = x
  BY <1>2, <1>3, <1>4
<1>8. Leads(V, Tail(d), V[0], x)
  BY <1>4, <1>6, <1>7 DEF Leads, n
<1>9. V[0] \in Worlds /\ w \in Worlds
  BY <1>2, <1>3, <1>4
<1>10. QED
  BY <1>5, <1>8, <1>9 DEF Path

\* An announced new name stays in front of the call that sets it.
LEMMA PairedGrows ==
  ASSUME NEW d \in Seq(Calls), NEW l \in Calls, Paired(d), l.call # "renamed"
  PROVE  Paired(Append(d, l))
<1>1. /\ Len(Append(d, l)) = Len(d) + 1 /\ Len(d) \in Nat
      /\ \A i \in 1 .. Len(d) : Append(d, l)[i] = d[i]
      /\ Append(d, l)[Len(d) + 1] = l
  BY AppendProperties, LenProperties
<1> DEFINE e == Append(d, l)
           n == Len(d)
<1> HIDE DEF e
<1> SUFFICES ASSUME NEW i \in 1 .. n + 1, e[i].call = "renamed"
             PROVE  i < n + 1 /\ Announced(e[i], e[i + 1])
  BY <1>1 DEF Paired, e
<1>2. i \in 1 .. n
  BY <1>1 DEF e
<1>3. e[i] = d[i]
  BY <1>1, <1>2 DEF e
<1>4. i < n /\ Announced(d[i], d[i + 1])
  BY <1>2, <1>3 DEF Paired
<1>5. i + 1 \in 1 .. n
  BY <1>1, <1>2, <1>4
<1>6. QED
  BY <1>1, <1>2, <1>3, <1>4, <1>5 DEF e

LEMMA PairedRenames ==
  ASSUME NEW d \in Seq(Calls), NEW l \in Calls, NEW m \in Calls, Paired(d),
         Announced(l, m)
  PROVE  Paired(Append(Append(d, l), m))
<1> DEFINE a == Append(d, l)
           e == Append(a, m)
           n == Len(d)
<1>1. /\ a \in Seq(Calls) /\ Len(a) = n + 1 /\ n \in Nat
      /\ \A i \in 1 .. n : a[i] = d[i]
      /\ a[n + 1] = l
  BY AppendProperties, LenProperties
<1> HIDE DEF a
<1>2. /\ Len(e) = n + 2
      /\ \A i \in 1 .. n + 1 : e[i] = a[i]
      /\ e[n + 2] = m
  BY <1>1, AppendProperties
<1> HIDE DEF e, n
<1>3. \A i \in 1 .. n : e[i] = d[i]
  BY <1>1, <1>2
<1>4. e[n + 1] = l
  BY <1>1, <1>2
<1> SUFFICES ASSUME NEW i \in 1 .. n + 2, e[i].call = "renamed"
             PROVE  i < n + 2 /\ Announced(e[i], e[i + 1])
  BY <1>2 DEF Paired, e, a
<1>5. i # n + 2
  BY <1>2 DEF Announced
<1>6. CASE i = n + 1
  <2>1. e[i] = l /\ e[i + 1] = m
    BY <1>1, <1>2, <1>4, <1>6
  <2>2. QED
    BY <1>1, <1>6, <2>1
<1>7. CASE i # n + 1
  <2>1. i \in 1 .. n
    BY <1>1, <1>5, <1>7
  <2>2. i < n /\ Announced(d[i], d[i + 1])
    BY <1>3, <2>1 DEF Paired, n
  <2>3. i + 1 \in 1 .. n
    BY <1>1, <2>1, <2>2
  <2>4. QED
    BY <1>1, <1>3, <2>1, <2>2, <2>3
<1>8. QED
  BY <1>6, <1>7

LEMMA PairedShrinks ==
  ASSUME NEW d \in Seq(Calls), d # << >>, Paired(d)
  PROVE  /\ Paired(Tail(d))
         /\ Head(d).call = "renamed" => Stale(Tail(d)) = {Head(d).obj}
<1>1. /\ Head(d) = d[1] /\ Head(d) \in Calls /\ Tail(d) \in Seq(Calls)
      /\ Len(d) \in Nat \ {0} /\ Len(Tail(d)) = Len(d) - 1
      /\ \A i \in 1 .. Len(Tail(d)) : Tail(d)[i] = d[i + 1]
  BY HeadTail
<1>2. ASSUME NEW i \in 1 .. Len(Tail(d)), Tail(d)[i].call = "renamed"
      PROVE  i < Len(Tail(d)) /\ Announced(Tail(d)[i], Tail(d)[i + 1])
  <2>1. Tail(d)[i] = d[i + 1] /\ i + 1 \in 1 .. Len(d)
    BY <1>1
  <2>2. i + 1 < Len(d) /\ Announced(d[i + 1], d[(i + 1) + 1])
    BY <1>2, <2>1 DEF Paired
  <2>3. i + 1 \in 1 .. Len(Tail(d))
    BY <1>1, <2>1, <2>2
  <2>4. QED
    BY <1>1, <2>1, <2>2, <2>3
<1>3. ASSUME Head(d).call = "renamed"
      PROVE  Stale(Tail(d)) = {Head(d).obj}
  <2>1. 1 < Len(d) /\ Announced(d[1], d[1 + 1])
    BY <1>1, <1>3 DEF Paired
  <2>2. 1 \in 1 .. Len(Tail(d))
    BY <1>1, <2>1
  <2>3. Tail(d)[1] = d[1 + 1]
    BY <1>1, <2>2
  <2>4. Tail(d) # << >>
    <3>1. Len(Tail(d)) > 0
      BY <1>1, <2>1
    <3>2. QED
      BY <1>1, <3>1, NotEmpty
  <2>5. Head(d).obj \in Objs
    BY <1>1, <1>3, CallKinds
  <2>6. QED
    BY <1>1, <2>1, <2>3, <2>4, <2>5 DEF Stale, Announced
<1>4. QED
  BY <1>2, <1>3 DEF Paired

-----------------------------------------------------------------------------
(* the invariant *)

TypeOK ==
  /\ core \in Cores /\ value \in Values /\ client \in ClientType
  /\ down \in Seq(Calls) /\ up \in Seq(Names \union {Manager})

\* The manager's init data is asked for, or comes, or has come.
ManagerComes(c, u, d) ==
  \/ c.init
  \/ \E i \in 1 .. Len(u) : u[i] = Manager
  \/ \E i \in 1 .. Len(d) : d[i].call = "initManager"

Gone(c, d, u) == c = NoClient /\ d = << >> /\ u = << >>

Follows(c, d, x) == \E w \in Worlds : Path(d, w, x) /\ Sees(c, w, Stale(d))

IInv ==
  /\ TypeOK
  /\ client.on \/ Gone(client, down, up)
  /\ Paired(down)
  /\ Follows(client, down, World)
  /\ client.on => ManagerComes(client, up, down)

LEMMA NobodySees ==
  ASSUME NEW x \in Worlds, NEW b \in BOOLEAN
  PROVE  /\ [NoClient EXCEPT !.on = b] \in ClientType
         /\ [NoClient EXCEPT !.on = b].on = b
         /\ NoClient \in ClientType /\ NoClient.on = FALSE
         /\ Follows([NoClient EXCEPT !.on = b], << >>, x)
         /\ Follows(NoClient, << >>, x)
<1>1. 0 \in 0 .. MaxValue
  BY SignalProxyAssumption
<1>2. NoClient \in ClientType /\ NoClient.on = FALSE
  BY <1>1 DEF NoClient, ClientType
<1>3. /\ [NoClient EXCEPT !.on = b] \in ClientType
      /\ [NoClient EXCEPT !.on = b].on = b
  BY <1>2 DEF NoClient, ClientType
<1>4. Path(<< >>, x, x)
  BY PathHere
<1>5. Stale(<< >>) = {}
  BY DEF Stale
<1>6. Sees(NoClient, x, {})
  BY ManagerClear DEF Sees, OwnFits, NoClient
<1>7. Sees([NoClient EXCEPT !.on = b], x, {})
  BY ManagerClear DEF Sees, OwnFits, NoClient
<1>8. QED
  BY <1>2, <1>3, <1>4, <1>5, <1>6, <1>7 DEF Follows

LEMMA InvInit == Init => IInv
<1> SUFFICES ASSUME Init PROVE IInv
  OBVIOUS
<1>1. core \in Cores /\ value \in Values
  BY SignalProxyAssumption DEF Init, Cores, Values
<1>2. World \in Worlds
  BY <1>1 DEF World, Worlds
<1>3. /\ client \in ClientType /\ client.on = FALSE
      /\ Follows(client, << >>, World)
  BY <1>2, NobodySees DEF Init
<1>4. /\ down = << >> /\ up = << >> /\ down \in Seq(Calls) /\ up \in Seq(Names \union {Manager})
      /\ Gone(client, down, up)
  BY DEF Init, Gone
<1>5. Paired(down)
  BY <1>4 DEF Paired
<1>6. QED
  BY <1>1, <1>3, <1>4, <1>5 DEF IInv, TypeOK

\* The core changes, and the calls say how.
LEMMA Dispatched ==
  ASSUME IInv, core' \in Cores, value' \in Values, UNCHANGED <<client, up>>,
         NEW d \in Seq(Calls), Paired(d),
         client.on => down' = d, ~client.on => down' = down,
         Stale(d) = Stale(down),
         \A w : Path(down, w, World) => Path(d, w, World'),
         Len(d) >= Len(down), \A i \in 1 .. Len(down) : d[i] = down[i]
  PROVE  IInv'
<1>1. World' \in Worlds
  BY DEF World, Worlds
<1>2. CASE client.on
  <2>1. down' = d
    BY <1>2
  <2>2. Follows(client', down', World')
    BY <2>1 DEF IInv, Follows
  <2>3. ManagerComes(client', up', down')
    <3>1. Len(down) \in Nat /\ Len(d) \in Nat
      BY LenProperties DEF IInv, TypeOK
    <3>2. ManagerComes(client, up, down)
      BY <1>2 DEF IInv
    <3>3. QED
      BY <2>1, <3>1, <3>2 DEF ManagerComes
  <2>4. QED
    BY <1>2, <2>1, <2>2, <2>3 DEF IInv, TypeOK
<1>3. CASE ~client.on
  <2>1. Gone(client, down, up) /\ down' = down
    BY <1>3 DEF IInv
  <2>2. Follows(client', down', World')
    BY <1>1, <2>1, NobodySees DEF Gone
  <2>3. QED
    BY <1>3, <2>1, <2>2 DEF IInv, TypeOK, Gone
<1>4. QED
  BY <1>2, <1>3

LEMMA StaleGrows ==
  ASSUME NEW d \in Seq(Calls), NEW l \in Calls, l.call # "setNick"
  PROVE  Stale(Append(d, l)) = Stale(d)
<1>1. /\ Append(d, l) # << >> /\ Len(d) \in Nat
      /\ \A i \in 1 .. Len(d) : Append(d, l)[i] = d[i]
      /\ Append(d, l)[Len(d) + 1] = l
  BY AppendProperties, LenProperties
<1>2. CASE d = << >>
  <2>1. Len(d) = 0
    BY <1>2
  <2>2. Append(d, l)[1] = l
    BY <1>1, <2>1
  <2>3. QED
    BY <1>2, <2>2 DEF Stale
<1>3. CASE d # << >>
  <2>1. 1 \in 1 .. Len(d)
    BY <1>3, HeadTail
  <2>2. Append(d, l)[1] = d[1]
    BY <1>1, <2>1
  <2>3. QED
    BY <1>1, <1>3, <2>2 DEF Stale
<1>4. QED
  BY <1>2, <1>3

\* One call.
LEMMA DispatchedOne ==
  ASSUME IInv, core' \in Cores, value' \in Values, UNCHANGED <<client, up>>,
         NEW l \in Calls, l.call \notin {"renamed", "setNick"},
         Dispatch(<<l>>), Tells(l, World, World')
  PROVE  IInv'
<1> DEFINE d == Append(down, l)
<1>1. down \in Seq(Calls) /\ Paired(down) /\ World' \in Worlds
  BY DEF IInv, TypeOK, World, Worlds
<1>2. down \o <<l>> = d
  BY <1>1, AppendIsConcat
<1>3. (client.on => down' = d) /\ (~client.on => down' = down)
  BY <1>2 DEF Dispatch
<1>4. /\ d \in Seq(Calls) /\ Len(d) >= Len(down)
      /\ \A i \in 1 .. Len(down) : d[i] = down[i]
  BY <1>1, AppendProperties, LenProperties
<1>5. Paired(d) /\ Stale(d) = Stale(down)
  BY <1>1, PairedGrows, StaleGrows
<1>6. \A w : Path(down, w, World) => Path(d, w, World')
  BY <1>1, PathGrows
<1> HIDE DEF d
<1>7. QED
  BY <1>3, <1>4, <1>5, <1>6, Dispatched

-----------------------------------------------------------------------------
(* the core's steps *)

LEMMA WorldIs ==
  ASSUME IInv
  PROVE  /\ World.core = core /\ World.value = value
         /\ World'.core = core' /\ World'.value = value'
         /\ core \in [Names -> Objs \union {None}]
         /\ \A m, n \in Names : core[m] = core[n] /\ core[m] # None => m = n
         /\ value \in [Objs -> 0 .. MaxValue]
BY DEF IInv, TypeOK, World, Cores, Values

LEMMA CreateStep ==
  ASSUME IInv, NEW n \in Names, NEW o \in Objs, Create(n, o)
  PROVE  IInv'
<1> USE ManagerClear
<1> DEFINE l == [call |-> "add", name |-> n, obj |-> o]
<1>1. /\ core[n] = None /\ o \notin Living
      /\ core' = [core EXCEPT ![n] = o]
      /\ Dispatch(<<l>>) /\ UNCHANGED <<client, up>>
  BY DEF Create, IsNew
<1>2. \A m \in Names : core[m] # o
  BY <1>1 DEF Living
<1> DEFINE v == IF n \in Ids THEN 1 ELSE 0
<1>2a. v \in 0 .. MaxValue
  BY SignalProxyAssumption
<1>2b. value' = [value EXCEPT ![o] = v]
  BY DEF Create
<1> HIDE DEF v
<1>3. \E u \in 0 .. MaxValue : value' = [value EXCEPT ![o] = u]
  BY <1>2a, <1>2b
<1>4. core' \in Cores
  BY <1>1, <1>2, WorldIs DEF Cores
<1>5. value' \in Values /\ \A p \in Objs : p # o => value'[p] = value[p]
  BY <1>3, WorldIs DEF Values
<1>6. l \in Calls
  BY DEF Calls
<1>7. Adds(l, World, World')
  BY <1>1, <1>2, <1>5, WorldIs DEF Adds
<1>8. l.call = "add"
  OBVIOUS
<1> HIDE DEF l
<1>9. Tells(l, World, World')
  BY <1>7, <1>8 DEF Tells
<1>10. QED
  BY <1>1, <1>4, <1>5, <1>6, <1>8, <1>9, DispatchedOne

LEMMA UpdateStep ==
  ASSUME IInv, NEW n \in Names, Update(n)
  PROVE  IInv'
<1> USE ManagerClear
<1> DEFINE o == core[n]
           v == value[o] + 1
           l == [call |-> "set", name |-> n, obj |-> core[n], value |-> value[core[n]] + 1]
<1>1. /\ o # None /\ value[o] < MaxValue
      /\ value' = [value EXCEPT ![o] = value[o] + 1]
      /\ Dispatch(<<l>>) /\ UNCHANGED <<core, client, up>>
  BY DEF Update
<1>2. o \in Objs
  BY <1>1, WorldIs
<1>3. v \in 0 .. MaxValue
  BY <1>1, <1>2, WorldIs, SignalProxyAssumption
<1>4. core' \in Cores
  BY <1>1 DEF IInv, TypeOK
<1>5. /\ value' \in Values /\ value'[o] = v
      /\ \A p \in Objs : p # o => value'[p] = value[p]
  BY <1>1, <1>2, <1>3, WorldIs DEF Values
<1>6. l \in Calls
  BY <1>2, <1>3 DEF Calls
<1>7. Sets(l, World, World')
  BY <1>1, <1>2, <1>5, WorldIs DEF Sets
<1>8. l.call = "set"
  OBVIOUS
<1> HIDE DEF l
<1>9. Tells(l, World, World')
  BY <1>7, <1>8 DEF Tells
<1>10. QED
  BY <1>1, <1>4, <1>5, <1>6, <1>8, <1>9, DispatchedOne

LEMMA RemoveStep ==
  ASSUME IInv, NEW n \in Names, RemoveObject(n)
  PROVE  IInv'
<1> USE ManagerClear
<1> DEFINE o == core[n]
           l == [call |-> "quit", name |-> n, obj |-> core[n]]
<1>1. /\ o # None
      /\ core' = [core EXCEPT ![n] = None]
      /\ value' = [value EXCEPT ![o] = 0]
      /\ Dispatch(<<l>>) /\ UNCHANGED <<client, up>>
  BY DEF RemoveObject
<1>2. o \in Objs
  BY <1>1, WorldIs
<1>3. 0 \in 0 .. MaxValue
  BY SignalProxyAssumption
<1>4. core' \in Cores
  BY <1>1, WorldIs DEF Cores
<1>5. /\ value' \in Values
      /\ \A p \in Objs : p # o => value'[p] = value[p]
  BY <1>1, <1>2, <1>3, WorldIs DEF Values
<1>6. l \in Calls
  BY <1>2 DEF Calls
<1>7. Quits(l, World, World')
  BY <1>1, <1>2, <1>5, WorldIs DEF Quits
<1>8. l.call = "quit"
  OBVIOUS
<1> HIDE DEF l
<1>9. Tells(l, World, World')
  BY <1>7, <1>8 DEF Tells
<1>10. QED
  BY <1>1, <1>4, <1>5, <1>6, <1>8, <1>9, DispatchedOne

LEMMA RenameStep ==
  ASSUME IInv, NEW n \in Names, NEW m \in Names, Rename(n, m)
  PROVE  IInv'
<1> USE ManagerClear
<1> DEFINE o == core[n]
           l == [call |-> "renamed", name |-> n, new |-> m, obj |-> core[n]]
           k == [call |-> "setNick", name |-> m, new |-> m, obj |-> core[n]]
           d == Append(Append(down, l), k)
<1>1. /\ o # None /\ core[m] = None
      /\ core' = [core EXCEPT ![m] = core[n], ![n] = None]
      /\ Dispatch(<<l, k>>) /\ UNCHANGED <<value, client, up>>
  BY DEF Rename
<1>2. o \in Objs /\ m # n
  BY <1>1, WorldIs
<1>3. /\ core'[m] = o /\ core'[n] = None
      /\ \A p \in Names : p # n /\ p # m => core'[p] = core[p]
      /\ core' \in [Names -> Objs \union {None}]
  BY <1>1, <1>2, WorldIs
<1>4. core' \in Cores
  <2>1. ASSUME NEW p \in Names, NEW q \in Names, core'[p] = core'[q], core'[p] # None
        PROVE  p = q
    <3>1. ASSUME NEW r \in Names, r # m, core'[r] # None PROVE core'[r] = core[r] /\ core[r] # o
      BY <1>1, <1>3, <3>1, WorldIs
    <3>2. QED
      BY <1>3, <2>1, <3>1, WorldIs
  <2>2. QED
    BY <1>3, <2>1 DEF Cores
<1>5. value' \in Values
  BY <1>1 DEF IInv, TypeOK
<1>6. l \in Calls /\ k \in Calls
  BY <1>2 DEF Calls
<1>7. Renames(l, World, World')
  BY <1>1, <1>2, <1>3, WorldIs DEF Renames
<1>8. l.call = "renamed" /\ k.call = "setNick" /\ k.obj = l.obj /\ k.name = k.new /\ k.obj = o /\ k.name = m
  OBVIOUS
<1>9. down \in Seq(Calls) /\ Paired(down) /\ World' \in Worlds
  BY <1>4, <1>5 DEF IInv, TypeOK, World, Worlds
<1>10. down \o <<l, k>> = d
  <2> HIDE DEF l, k
  <2>2. <<l>> \in Seq(Calls) /\ <<k>> \in Seq(Calls) /\ <<l, k>> \in Seq(Calls)
    BY <1>6
  <2>1. <<l, k>> = <<l>> \o <<k>>
    <3>1. /\ <<l>> \o <<k>> \in Seq(Calls) /\ Len(<<l>> \o <<k>>) = 2
          /\ (<<l>> \o <<k>>)[1] = l /\ (<<l>> \o <<k>>)[2] = k
      BY <2>2, ConcatProperties
    <3>2. Len(<<l, k>>) = 2 /\ <<l, k>>[1] = l /\ <<l, k>>[2] = k
      OBVIOUS
    <3>3. \A i \in 1 .. Len(<<l, k>>) : <<l, k>>[i] = (<<l>> \o <<k>>)[i]
      BY <3>1, <3>2
    <3>4. QED
      BY <2>2, <3>1, <3>2, <3>3, SeqEqual
  <2>3. (down \o <<l>>) \o <<k>> = down \o (<<l>> \o <<k>>)
    BY <1>9, <2>2, ConcatAssociative
  <2>4. Append(down, l) = down \o <<l>> /\ Append(down, l) \in Seq(Calls)
    BY <1>6, <1>9, AppendIsConcat, AppendProperties
  <2>5. d = Append(down, l) \o <<k>>
    BY <1>6, <2>4, AppendIsConcat
  <2>6. QED
    BY <2>1, <2>3, <2>4, <2>5
<1> HIDE DEF l, k
<1>11. (client.on => down' = d) /\ (~client.on => down' = down)
  BY <1>1, <1>10 DEF Dispatch
<1>12. Tells(l, World, World')
  BY <1>7, <1>8 DEF Tells
<1>13. Tells(k, World', World')
  BY <1>3, <1>8, WorldIs DEF Tells
<1>14. /\ Append(down, l) \in Seq(Calls) /\ d \in Seq(Calls) /\ Len(d) >= Len(down)
       /\ \A i \in 1 .. Len(down) : d[i] = down[i]
  <2>1. /\ Append(down, l) \in Seq(Calls) /\ Len(down) \in Nat
        /\ Len(Append(down, l)) = Len(down) + 1
        /\ \A i \in 1 .. Len(down) : Append(down, l)[i] = down[i]
    BY <1>6, <1>9, AppendProperties, LenProperties
  <2>2. /\ d \in Seq(Calls) /\ Len(d) = Len(down) + 2
        /\ \A i \in 1 .. Len(down) + 1 : d[i] = Append(down, l)[i]
    BY <1>6, <2>1, AppendProperties
  <2>3. QED
    BY <2>1, <2>2
<1>15. Paired(d)
  BY <1>6, <1>8, <1>9, PairedRenames DEF Announced
<1>16. Stale(d) = Stale(down)
  <2>1. Stale(Append(down, l)) = Stale(down)
    BY <1>6, <1>8, <1>9, StaleGrows
  <2>2. CASE down = << >>
    <3>1. Append(down, l)[1] = l /\ 1 \in 1 .. Len(Append(down, l))
      BY <1>6, <1>9, <2>2, AppendProperties
    <3>2. d[1] = l
      BY <1>6, <1>14, <3>1, AppendProperties
    <3>3. QED
      BY <1>8, <2>2, <3>2 DEF Stale
  <2>3. CASE down # << >>
    <3>1. 1 \in 1 .. Len(down)
      BY <1>9, <2>3, HeadTail
    <3>2. d[1] = down[1] /\ d # << >>
      BY <1>6, <1>14, <3>1, AppendProperties
    <3>3. QED
      BY <2>3, <3>2 DEF Stale
  <2>4. QED
    BY <2>2, <2>3
<1>17. \A w : Path(down, w, World) => Path(d, w, World')
  <2> SUFFICES ASSUME NEW w, Path(down, w, World) PROVE Path(d, w, World')
    OBVIOUS
  <2>1. Path(Append(down, l), w, World')
    BY <1>6, <1>9, <1>12, PathGrows
  <2>2. QED
    BY <1>6, <1>9, <1>13, <1>14, <2>1, PathGrows
<1> HIDE DEF d
<1>18. QED
  BY <1>1, <1>4, <1>5, <1>11, <1>14, <1>15, <1>16, <1>17, Dispatched

LEMMA AnswerStep ==
  ASSUME IInv, HandleInitRequest
  PROVE  IInv'
<1> USE ManagerClear
<1> DEFINE r == Head(up)
           l == InitData(r)
<1>1. /\ up # << >> /\ up' = Tail(up) /\ UNCHANGED <<core, value, client>>
      /\ Registered(r) => down' = Append(down, l)
      /\ ~Registered(r) => down' = down
  BY DEF HandleInitRequest
<1>2. /\ up \in Seq(Names \union {Manager}) /\ r \in Names \union {Manager}
      /\ r = up[1] /\ up' \in Seq(Names \union {Manager})
      /\ Len(up) \in Nat \ {0} /\ Len(up') = Len(up) - 1
      /\ \A i \in 1 .. Len(up') : up'[i] = up[i + 1]
  BY <1>1, HeadTailProperties, EmptySeq DEF IInv, TypeOK
<1>3. client.on
  BY <1>1 DEF IInv, Gone
<1>4. down \in Seq(Calls) /\ Paired(down) /\ World' = World /\ World \in Worlds
  BY <1>1 DEF IInv, TypeOK, World, Worlds
<1>5. \A i \in 1 .. Len(up) : up[i] = Manager => r = Manager \/ \E j \in 1 .. Len(up') : up'[j] = Manager
  <2> SUFFICES ASSUME NEW i \in 1 .. Len(up), up[i] = Manager, r # Manager
               PROVE  \E j \in 1 .. Len(up') : up'[j] = Manager
    OBVIOUS
  <2>1. i # 1
    BY <1>2
  <2>2. i - 1 \in 1 .. Len(up') /\ (i - 1) + 1 = i
    BY <1>2, <2>1
  <2>3. up'[i - 1] = Manager
    BY <1>2, <2>2
  <2>4. QED
    BY <2>2, <2>3
<1>6. CASE ~Registered(r)
  <2>1. r # Manager
    BY <1>6 DEF Registered
  <2>2. ManagerComes(client, up, down)
    BY <1>3 DEF IInv
  <2>3. down' = down
    BY <1>1, <1>6
  <2>4. ManagerComes(client', up', down')
    BY <1>1, <1>5, <2>1, <2>2, <2>3 DEF ManagerComes
  <2>5. QED
    BY <1>1, <1>2, <1>3, <1>4, <2>3, <2>4 DEF IInv, TypeOK
<1>7. CASE Registered(r)
  <2>1. l \in Calls /\ l.call # "renamed" /\ l.call # "setNick" /\ Tells(l, World, World)
    <3>1. CASE r = Manager
      <4>1. l = [call |-> "initManager", objects |-> core, values |-> value]
        BY <3>1 DEF InitData
      <4>2. l \in Calls
        BY <4>1 DEF Calls, IInv, TypeOK
      <4>3. QED
        BY <4>1, <4>2, WorldIs DEF Tells
    <3>2. CASE r # Manager
      <4>1. l = [call |-> "init", name |-> r, obj |-> core[r], value |-> value[core[r]]]
        BY <3>2 DEF InitData
      <4>2. r \in Names /\ core[r] \in Objs
        BY <1>2, <1>7, <3>2, WorldIs DEF Registered
      <4>3. value[core[r]] \in 0 .. MaxValue
        BY <4>2, WorldIs
      <4>4. l \in Calls
        BY <4>1, <4>2, <4>3 DEF Calls
      <4>5. QED
        BY <4>1, <4>4, WorldIs DEF Tells
    <3>3. QED
      BY <3>1, <3>2
  <2>2. r = Manager => l.call = "initManager"
    BY DEF InitData
  <2> HIDE DEF l
  <2>3. down' = Append(down, l)
    BY <1>1, <1>7
  <2>4. /\ down' \in Seq(Calls) /\ Len(down') = Len(down) + 1 /\ Len(down) \in Nat
        /\ \A i \in 1 .. Len(down) : down'[i] = down[i]
        /\ down'[Len(down) + 1] = l
    BY <1>4, <2>1, <2>3, AppendProperties, LenProperties
  <2>5. Paired(down') /\ Stale(down') = Stale(down)
    BY <1>4, <2>1, <2>3, PairedGrows, StaleGrows
  <2>6. \A w : Path(down, w, World) => Path(down', w, World')
    BY <1>4, <2>1, <2>3, PathGrows
  <2>7. Follows(client', down', World')
    BY <1>1, <2>5, <2>6 DEF IInv, Follows
  <2>8. ManagerComes(client', up', down')
    <3>1. ManagerComes(client, up, down)
      BY <1>3 DEF IInv
    <3>2. CASE client.init
      BY <1>1, <3>2 DEF ManagerComes
    <3>3. CASE \E i \in 1 .. Len(down) : down[i].call = "initManager"
      BY <2>4, <3>3 DEF ManagerComes
    <3>4. CASE \E i \in 1 .. Len(up) : up[i] = Manager
      <4>1. CASE r = Manager
        <5>1. Len(down) + 1 \in 1 .. Len(down')
          BY <2>4
        <5>2. QED
          BY <2>2, <2>4, <4>1, <5>1 DEF ManagerComes
      <4>2. CASE r # Manager
        BY <1>5, <3>4, <4>2 DEF ManagerComes
      <4>3. QED
        BY <4>1, <4>2
    <3>5. QED
      BY <3>1, <3>2, <3>3, <3>4 DEF ManagerComes
  <2>9. QED
    BY <1>1, <1>2, <1>3, <2>4, <2>5, <2>7, <2>8 DEF IInv, TypeOK
<1>8. QED
  BY <1>6, <1>7

-----------------------------------------------------------------------------
(* the client's steps *)

LEMMA StaleIs ==
  ASSUME NEW d \in Seq(Calls), d # << >>
  PROVE  /\ Head(d).call = "setNick" => Stale(d) = {Head(d).obj}
         /\ Head(d).call # "setNick" => Stale(d) = {}
<1>1. Head(d) = d[1] /\ Head(d) \in Calls
  BY HeadTail
<1>2. Head(d).call = "setNick" => Head(d).obj \in Objs
  BY <1>1, CallKinds
<1>3. QED
  BY <1>1, <1>2 DEF Stale

\* Fewer stale copies than may be.
LEMMA SeesLess ==
  ASSUME NEW c \in ClientType, NEW w, NEW S, Sees(c, w, {})
  PROVE  Sees(c, w, S)
<1> USE ManagerClear
<1>1. ASSUME NEW o \in Objs
      PROVE  c.own[o] = None <=> \A n \in Names : c.slave[n] # o
  <2>1. \A n \in Names : c.own[o] = n <=> c.slave[n] = o
    BY DEF Sees, OwnFits
  <2>2. c.own[o] \in Names \union {None}
    BY DEF ClientType
  <2>3. QED
    BY <2>1, <2>2
<1>2. QED
  BY <1>1 DEF Sees, OwnFits

LEMMA ReceiveStep ==
  ASSUME IInv, ClientHandles
  PROVE  IInv'
<1> DEFINE l == Head(down)
           r == Handle(client, l)
<1>1. /\ down # << >> /\ down' = Tail(down) /\ UNCHANGED <<core, value>>
      /\ client' = r.client /\ up' = up \o r.requests
  BY DEF ClientHandles
<1>2. /\ down \in Seq(Calls) /\ l = down[1] /\ l \in Calls /\ down' \in Seq(Calls)
      /\ Len(down) \in Nat \ {0} /\ Len(down') = Len(down) - 1
      /\ \A i \in 1 .. Len(down') : down'[i] = down[i + 1]
  BY <1>1, HeadTail DEF IInv, TypeOK
<1>3. client \in ClientType /\ client.on
  BY <1>1 DEF IInv, TypeOK, Gone
<1>4. PICK w \in Worlds : Path(down, w, World) /\ Sees(client, w, Stale(down))
  BY DEF IInv, Follows
<1>5. PICK x \in Worlds : Tells(l, w, x) /\ Path(down', x, World)
  BY <1>1, <1>2, <1>4, PathShrinks
<1>6. Before(client, l, w, x)
  BY <1>2, <1>3, <1>5 DEF Before
<1>7. /\ l.call = "setNick" => Stale(down) = {l.obj}
      /\ l.call # "setNick" => Stale(down) = {}
  BY <1>1, <1>2, StaleIs
<1> HIDE DEF l, r
<1>8. /\ r.client \in ClientType /\ r.requests \in Seq(Names)
      /\ l.call = "renamed" => Sees(r.client, x, {l.obj})
      /\ l.call # "renamed" => Sees(r.client, x, {})
      /\ r.client.on = client.on
      /\ client.init \/ l.call = "initManager" => r.client.init
  BY <1>4, <1>6, <1>7, HandleFits DEF r
<1>9. Paired(down') /\ (l.call = "renamed" => Stale(down') = {l.obj})
  BY <1>1, <1>2, PairedShrinks DEF IInv, l
<1>10. Sees(client', x, Stale(down'))
  BY <1>1, <1>8, <1>9, SeesLess
<1>11. World' = World
  BY <1>1 DEF World
<1>12. Follows(client', down', World')
  BY <1>5, <1>10, <1>11 DEF Follows
<1>13. /\ up' \in Seq(Names \union {Manager}) /\ Len(up') >= Len(up) /\ Len(up) \in Nat
       /\ \A i \in 1 .. Len(up) : up'[i] = up[i]
  <2>1. r.requests \in Seq(Names \union {Manager})
    BY <1>8, SeqMonotonic
  <2>2. up \in Seq(Names \union {Manager})
    BY DEF IInv, TypeOK
  <2>3. Len(up) \in Nat /\ Len(r.requests) \in Nat
    BY <2>1, <2>2, LenProperties
  <2>4. QED
    BY <1>1, <2>1, <2>2, <2>3, ConcatProperties
<1>14. ManagerComes(client', up', down')
  <2>1. ManagerComes(client, up, down)
    BY <1>3 DEF IInv
  <2>2. CASE client.init
    BY <1>1, <1>8, <2>2 DEF ManagerComes
  <2>3. CASE \E i \in 1 .. Len(up) : up[i] = Manager
    <3>1. Len(up') \in Nat
      BY <1>13, LenProperties
    <3>2. QED
      BY <1>13, <2>3, <3>1 DEF ManagerComes
  <2>4. CASE \E i \in 1 .. Len(down) : down[i].call = "initManager"
    <3>1. PICK i \in 1 .. Len(down) : down[i].call = "initManager"
      BY <2>4
    <3>2. CASE i = 1
      BY <1>1, <1>2, <1>8, <3>1, <3>2 DEF ManagerComes
    <3>3. CASE i # 1
      <4>1. i - 1 \in 1 .. Len(down') /\ (i - 1) + 1 = i
        BY <1>2, <3>3
      <4>2. down'[i - 1].call = "initManager"
        BY <1>2, <3>1, <4>1
      <4>3. QED
        BY <4>1, <4>2 DEF ManagerComes
    <3>4. QED
      BY <3>2, <3>3
  <2>5. QED
    BY <2>1, <2>2, <2>3, <2>4 DEF ManagerComes
<1>15. QED
  BY <1>1, <1>2, <1>3, <1>8, <1>9, <1>12, <1>13, <1>14 DEF IInv, TypeOK

LEMMA ConnectStep ==
  ASSUME IInv, Connect \/ Disconnect
  PROVE  IInv'
<1>1. World' = World /\ World \in Worlds
  BY DEF Connect, Disconnect, World, Worlds, IInv, TypeOK
<1>2. CASE Connect
  <2>1. /\ down = << >> /\ down' = << >> /\ up' = <<Manager>> /\ UNCHANGED <<core, value>>
        /\ client' = [NoClient EXCEPT !.on = TRUE]
    BY <1>2 DEF IInv, Gone, Connect
  <2>2. client' \in ClientType /\ client'.on /\ Follows(client', << >>, World)
    BY <1>1, <2>1, NobodySees
  <2>3. up' \in Seq(Names \union {Manager}) /\ Len(up') = 1 /\ up'[1] = Manager
    BY <2>1
  <2>4. ManagerComes(client', up', down')
    BY <2>3 DEF ManagerComes
  <2>5. QED
    BY <1>1, <2>1, <2>2, <2>3, <2>4 DEF IInv, TypeOK
<1>3. CASE Disconnect
  <2>1. /\ down' = << >> /\ up' = << >> /\ UNCHANGED <<core, value>> /\ client' = NoClient
    BY <1>3 DEF Disconnect
  <2>2. client' \in ClientType /\ ~client'.on /\ Follows(client', << >>, World)
    BY <1>1, <2>1, NobodySees
  <2>3. /\ down' \in Seq(Calls) /\ up' \in Seq(Names \union {Manager}) /\ Paired(down')
        /\ Gone(client', down', up')
    BY <2>1 DEF Gone, Paired
  <2>4. QED
    BY <1>1, <2>1, <2>2, <2>3 DEF IInv, TypeOK
<1>4. QED
  BY <1>2, <1>3

LEMMA InvStep == IInv /\ [Next]_vars => IInv'
<1> SUFFICES ASSUME IInv, [Next]_vars PROVE IInv'
  OBVIOUS
<1>1. CASE \E n \in Names, o \in Objs : Create(n, o)
  BY <1>1, CreateStep
<1>2. CASE \E n \in Names : Update(n)
  BY <1>2, UpdateStep
<1>3. CASE \E n \in Names : RemoveObject(n)
  BY <1>3, RemoveStep
<1>4. CASE \E n, m \in Names : Rename(n, m)
  BY <1>4, RenameStep
<1>5. CASE HandleInitRequest
  BY <1>5, AnswerStep
<1>6. CASE ClientHandles
  BY <1>6, ReceiveStep
<1>7. CASE Connect \/ Disconnect
  BY <1>7, ConnectStep
<1>8. CASE UNCHANGED vars
  BY <1>8 DEF vars, IInv, TypeOK, Gone, Paired, Follows, Stale, World, ManagerComes
<1>9. QED
  BY <1>1, <1>2, <1>3, <1>4, <1>5, <1>6, <1>7, <1>8 DEF Next

-----------------------------------------------------------------------------
LEMMA TellsRight ==
  ASSUME NEW l \in Calls, NEW w \in Worlds, NEW x, Tells(l, w, x), l.call # "initManager"
  PROVE  w.core[l.name] \in {None, l.obj}
<1>1. l.call \in Kinds
  BY CallKinds
<1>2. QED
  BY <1>1 DEF Kinds, Tells, Adds, Sets, Renames, Quits

LEMMA InvRight == IInv => RightObject
<1> SUFFICES ASSUME IInv, down # << >>, "name" \in DOMAIN Head(down)
             PROVE  client.slave[Head(down).name] \in {None, Head(down).obj}
  BY DEF RightObject
<1> DEFINE l == Head(down)
<1>1. l \in Calls /\ down \in Seq(Calls)
  BY HeadTail DEF IInv, TypeOK
<1>2. l.call # "initManager"
  BY <1>1 DEF Calls
<1>3. l.name \in Names
  BY <1>1, <1>2, CallKinds
<1>4. PICK w \in Worlds : Path(down, w, World) /\ Sees(client, w, Stale(down))
  BY DEF IInv, Follows
<1>5. PICK x \in Worlds : Tells(l, w, x)
  BY <1>1, <1>4, PathShrinks
<1>6. w.core[l.name] \in {None, l.obj}
  BY <1>1, <1>2, <1>5, TellsRight
<1>7. client.slave[l.name] \in {None, w.core[l.name]}
  BY <1>3, <1>4 DEF Sees
<1>8. QED
  BY <1>6, <1>7

LEMMA InvSynchronized == IInv => Synchronized
<1> SUFFICES ASSUME IInv, Quiet
             PROVE  /\ client.init /\ client.slave = core
                    /\ \A n \in Names : core[n] # None => client.own[core[n]] = n
                    /\ \A o \in client.ready : client.value[o] = value[o]
  BY DEF Synchronized
<1>1. client.on /\ down = << >> /\ up = << >>
  BY DEF Quiet
<1>2. PICK w \in Worlds : Path(down, w, World) /\ Sees(client, w, Stale(down))
  BY DEF IInv, Follows
<1>3. w.core = core /\ w.value = value
  BY <1>1, <1>2, PathHere, WorldIs
<1>4. Stale(down) = {}
  BY <1>1 DEF Stale
<1>5. client.init
  <2>1. Len(up) = 0 /\ Len(down) = 0
    BY <1>1
  <2>2. QED
    BY <1>1, <2>1 DEF IInv, ManagerComes
<1>6. client.slave = core
  <2>1. client.slave \in [Names -> Objs \union {None}]
    BY DEF IInv, TypeOK, ClientType
  <2>2. \A n \in Names : client.slave[n] = core[n]
    BY <1>2, <1>3, <1>5 DEF Sees
  <2>3. QED
    BY <2>1, <2>2, WorldIs
<1>7. ASSUME NEW n \in Names, core[n] # None PROVE client.own[core[n]] = n
  <2>1. core[n] \in Objs
    BY <1>7, WorldIs
  <2>2. QED
    BY <1>2, <1>4, <1>6, <2>1 DEF Sees, OwnFits
<1>8. \A o \in client.ready : client.value[o] = value[o]
  BY <1>2, <1>3 DEF Sees
<1>9. QED
  BY <1>5, <1>6, <1>7, <1>8

\* Types.
THEOREM TypeCorrect == Spec => []TypeOK
<1>1. IInv => TypeOK
  BY DEF IInv
<1>2. QED
  BY <1>1, InvInit, InvStep, PTL DEF Spec

\* However names are handed on while calls are under way, a call reaches the object it was
\* meant for or none: the calls lead from the names the client knows to the core's.
THEOREM RightObjectHolds == Spec => []RightObject
BY InvInit, InvStep, InvRight, PTL DEF Spec

\* With nothing under way the client has the core's objects under the core's names, and of
\* those it got the init data of, the core's state.
THEOREM SynchronizedHolds == Spec => []Synchronized
BY InvInit, InvStep, InvSynchronized, PTL DEF Spec
=============================================================================
