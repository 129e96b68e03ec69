--------------------------- MODULE MessageBusProofs ---------------------------
(***************************************************************************)
(* Theorems about the message bus, for any plugins, clients and parts.     *)
(***************************************************************************)
EXTENDS MessageBus, SequenceTheorems, TLAPS

Queues == [Threads -> Seq(Event)]

(* Every connection lives in a thread, and so does what registers it. *)
LEMMA HomeIsAThread ==
  \A c \in Conns : Home(c) \in Threads /\ Registrar(c) \in Threads
BY ConnsAssumption DEF Home, Registrar, Threads, Conns

(* The events of the bus are events. *)
LEMMA PlainlyIsAnEvent ==
  ASSUME NEW t \in Plain, NEW c \in Conns
  PROVE  Plainly(t, c) \in Event
BY DEF Plainly, Event

LEMMA PostType ==
  ASSUME NEW q \in Queues, NEW t \in Threads, NEW e \in Event
  PROVE  Post(q, t, e) \in Queues
BY DEF Post, Queues

LEMMA TakeType ==
  ASSUME NEW q \in Queues, NEW t \in Threads, q[t] # <<>>
  PROVE  /\ Head(q[t]) \in Event
         /\ [q EXCEPT ![t] = Tail(@)] \in Queues
<1>1. q[t] \in Seq(Event)
  BY DEF Queues
<1>2. Tail(q[t]) \in Seq(Event) /\ Head(q[t]) \in Event
  BY <1>1
<1> QED
  BY <1>2 DEF Queues

LEMMA AnnounceType ==
  ASSUME queue \in Queues, NEW c \in Conns
  PROVE  Announce(c) \in Queues
<1>1. Main \in Threads /\ (c \in Clients => c \in Threads)
  BY DEF Threads
<1>2. Plainly("setup", c) \in Event /\ Plainly("register", c) \in Event
  BY PlainlyIsAnEvent DEF Plain
<1>3. CASE c \in Clients
  BY <1>1, <1>2, <1>3, PostType DEF Announce
<1>4. CASE c \notin Clients
  BY <1>1, <1>2, <1>4, PostType DEF Announce
<1> QED
  BY <1>3, <1>4

(* Each action of the bus keeps the types. *)
LEMMA InitType == Init => TypeOK
<1> SUFFICES ASSUME Init PROVE TypeOK
  OBVIOUS
<1>1. queue \in [Threads -> Seq(Event)]
  BY DEF Init
<1> QED
  BY <1>1 DEF Init, TypeOK

LEMMA CrashType ==
  ASSUME TypeOK, NEW what \in {"dangling", "badSocket"}, Crash(what)
  PROVE  TypeOK'
BY DEF Crash, TypeOK

LEMMA WireType ==
  ASSUME TypeOK, NEW c \in Conns, NEW q \in Queues, Wire(c, q)
  PROVE  TypeOK'
<1>1. CASE \E d \in connections \cup {c} : life[d] # "alive"
  BY <1>1, CrashType DEF Wire
<1>2. CASE ~ \E d \in connections \cup {c} : life[d] # "alive"
  <2>1. /\ wired' = Join(c)
        /\ heard' = [b \in Conns |-> [a \in Conns |->
                       IF (b = c /\ a \in connections) \/ (a = c /\ b \in connections)
                       THEN sent[a] ELSE heard[b][a]]]
        /\ seen' = [seen EXCEPT ![c] = connections]
        /\ phase' = [phase EXCEPT ![c] = "wired"]
        /\ raced' = (raced \/ InManager # {})
        /\ queue' = q
        /\ UNCHANGED <<life, connections, isReady, socket, fault, msgVars, subVars>>
    BY <1>2 DEF Wire
  <2> USE DEF TypeOK
  <2>2. wired' \in [Conns -> SUBSET Conns]
    BY <2>1 DEF Join
  <2>3. heard' \in [Conns -> [Conns -> Nat]]
    BY <2>1
  <2>4. queue' \in [Threads -> Seq(Event)]
    BY <2>1 DEF Queues
  <2>5. /\ seen' \in [Conns -> SUBSET Conns]
        /\ phase' \in [Conns -> {"no", "queued", "wired", "done"}]
        /\ raced' \in BOOLEAN
    BY <2>1
  <2> QED
    BY <2>1, <2>2, <2>3, <2>4, <2>5 DEF msgVars, subVars
<1> QED
  BY <1>1, <1>2

LEMMA DestroyType ==
  ASSUME TypeOK, NEW c \in Conns, NEW q \in Queues, Destroy(c, q)
  PROVE  TypeOK'
<1>1. Post(q, Main, Plainly("gone", c)) \in Queues
  BY PostType, PlainlyIsAnEvent DEF Plain, Threads
<1>2. queue' \in [Threads -> Seq(Event)]
  BY <1>1 DEF Destroy, Queues
<1> QED
  BY <1>2 DEF Destroy, TypeOK, msgVars, subVars

LEMMA ReceiptType ==
  ASSUME TypeOK, NEW e \in Receipt, Receive(e)
  PROVE  /\ heard' \in [Conns -> [Conns -> Nat]]
         /\ fault' \in {"none", "dangling", "badSocket"}
<1>1. e.conn \in Conns /\ e.msg.from \in Conns /\ e.msg.n \in Nat
  BY DEF Receipt, Message
<1>2. heard' \in [Conns -> [Conns -> Nat]]
  BY <1>1 DEF Receive, TypeOK
<1>3. fault' \in {"none", "dangling", "badSocket"}
  BY DEF Receive, TypeOK
<1> QED
  BY <1>2, <1>3

LEMMA RegistrationType ==
  ASSUME TypeOK, NEW c \in Conns,
         (c \in Plugins /\ StartPlugin(c)) \/ MainStep(c) \/ AppendConnection(c)
  PROVE  TypeOK'
<1>0. queue \in Queues /\ Main \in Threads
  BY DEF TypeOK, Queues, Threads
<1>1. CASE StartPlugin(c)
  BY <1>0, <1>1, WireType DEF StartPlugin
<1>2. CASE RegisterQueued(c)
  BY <1>0, <1>2, WireType, TakeType DEF RegisterQueued
<1>3. CASE ConnectionDestroyed(c)
  <2>1. queue' \in Queues
    BY <1>0, <1>3, TakeType DEF ConnectionDestroyed
  <2> QED
    BY <1>3, <2>1 DEF ConnectionDestroyed, TypeOK, msgVars, subVars, Queues
<1>4. CASE AppendConnection(c)
  <2>1. CASE life[c] # "alive"
    BY <1>4, <2>1, CrashType DEF AppendConnection
  <2>2. CASE life[c] = "alive"
    <3>1. queue' \in Queues
      BY <1>0, <1>4, <2>2, PostType, PlainlyIsAnEvent, HomeIsAThread
         DEF AppendConnection, Plain
    <3>2. connections' \in SUBSET Conns
      BY <1>4, <2>2 DEF AppendConnection, TypeOK
    <3> QED
      BY <1>4, <2>2, <3>1, <3>2
         DEF AppendConnection, TypeOK, msgVars, subVars, Queues
  <2> QED
    BY <2>1, <2>2
<1> QED
  BY <1>1, <1>2, <1>3, <1>4 DEF MainStep

LEMMA MessageType ==
  ASSUME TypeOK, NEW c \in Conns,
         \/ \E ch \in Channels : Broadcast(c, ch) \/ Subscribe(c, ch)
         \/ \E v \in BOOLEAN : SetMonitor(c, v)
         \/ \E e \in emitting[c] : Deliver(c, e)
  PROVE  TypeOK'
<1>1. ASSUME NEW ch \in Channels, Broadcast(c, ch)
      PROVE  TypeOK'
  <2>1. sent[c] + 1 \in Nat
    BY DEF TypeOK
  <2>2. sent' \in [Conns -> Nat]
    BY <1>1, <2>1 DEF Broadcast, TypeOK
  <2> DEFINE msg == [from |-> c, channel |-> ch, n |-> sent[c] + 1]
             owed == {[type |-> "receive", conn |-> d, msg |-> msg] : d \in wired[c]}
  <2>3. msg \in Message
    BY <2>1 DEF Message
  <2>4. owed \in SUBSET Receipt
    BY <2>3 DEF Receipt, TypeOK
  <2>5. emitting' = [emitting EXCEPT ![c] = owed]
    BY <1>1 DEF Broadcast
  <2> HIDE DEF owed
  <2>6. emitting' \in [Conns -> SUBSET Receipt]
    BY <2>4, <2>5 DEF TypeOK
  <2> QED
    BY <1>1, <2>2, <2>6 DEF Broadcast, TypeOK, busVars, subVars
<1>2. ASSUME NEW ch \in Channels, Subscribe(c, ch)
      PROVE  TypeOK'
  <2>1. channels' \in [Conns -> SUBSET Channels]
    <3>1. /\ channels \in [Conns -> SUBSET Channels]
          /\ \/ channels' = [channels EXCEPT ![c] = @ \cup {ch}]
             \/ channels' = [channels EXCEPT ![c] = @ \ {ch}]
      BY <1>2 DEF Subscribe, TypeOK
    <3> QED
      BY <3>1
  <2> QED
    BY <1>2, <2>1 DEF Subscribe, TypeOK, busVars, msgVars
<1>3. ASSUME NEW v \in BOOLEAN, SetMonitor(c, v)
      PROVE  TypeOK'
  <2>1. monitor' = [monitor EXCEPT ![c] = v]
    BY <1>3 DEF SetMonitor
  <2>2. monitor \in [Conns -> BOOLEAN]
    BY DEF TypeOK
  <2>3. monitor' \in [Conns -> BOOLEAN]
    BY <2>1, <2>2, Zenon
  <2> QED
    BY <1>3, <2>3 DEF SetMonitor, TypeOK, busVars, msgVars
<1>4. ASSUME NEW e \in emitting[c], Deliver(c, e)
      PROVE  TypeOK'
  <2>1. e \in Receipt /\ e.conn \in Conns
    BY DEF TypeOK, Receipt
  <2>2. emitting' \in [Conns -> SUBSET Receipt]
    BY <1>4 DEF Deliver, PostMessage, TypeOK
  <2>3. queue' \in Queues
    <3>1. queue \in Queues /\ e \in Event /\ Home(e.conn) \in Threads
      BY <2>1, HomeIsAThread DEF TypeOK, Queues, Event
    <3>2. Post(queue, Home(e.conn), e) \in Queues
      BY <3>1, PostType
    <3> QED
      BY <1>4, <3>1, <3>2 DEF Deliver, PostMessage
  <2>4. /\ heard' \in [Conns -> [Conns -> Nat]]
        /\ fault' \in {"none", "dangling", "badSocket"}
    BY <1>4, <2>1, ReceiptType DEF Deliver, PostMessage, TypeOK
  <2> QED
    BY <1>4, <2>2, <2>3, <2>4 DEF Deliver, PostMessage, TypeOK, busVars, subVars, Queues
<1> QED
  BY <1>1, <1>2, <1>3, <1>4

LEMMA LifeType ==
  ASSUME TypeOK, NEW c \in Conns,
         \/ Create(c)
         \/ c \in Clients /\ Disconnect(c)
         \/ c \in Parts /\ (DeletePart(c) \/ DeletePartLater(c))
  PROVE  TypeOK'
<1>0. queue \in Queues
  BY DEF TypeOK, Queues
<1>1. CASE Create(c)
  <2>1. queue' \in Queues
    BY <1>0, <1>1, AnnounceType DEF Create
  <2> QED
    BY <1>1, <2>1 DEF Create, TypeOK, msgVars, subVars, Queues
<1>2. CASE c \in Clients /\ Disconnect(c)
  <2>1. queue' \in Queues
    BY <1>0, <1>2, PostType, PlainlyIsAnEvent DEF Disconnect, Plain, Threads
  <2> QED
    BY <1>2, <2>1 DEF Disconnect, TypeOK, busVars, msgVars, subVars, Queues
<1>3. CASE DeletePart(c)
  BY <1>0, <1>3, DestroyType DEF DeletePart
<1>4. CASE DeletePartLater(c)
  <2>1. queue' \in Queues
    BY <1>0, <1>4, PostType, PlainlyIsAnEvent, HomeIsAThread
       DEF DeletePartLater, Plain
  <2> QED
    BY <1>4, <2>1 DEF DeletePartLater, TypeOK, busVars, msgVars, subVars, Queues
<1> QED
  BY <1>1, <1>2, <1>3, <1>4

LEMMA HandleType ==
  ASSUME TypeOK, NEW t \in Threads, Handle(t)
  PROVE  TypeOK'
<1> DEFINE e == Head(queue[t])
           rest == [queue EXCEPT ![t] = Tail(@)]
<1>1. e \in Event /\ rest \in Queues
  BY TakeType DEF Handle, TypeOK, Queues
<1>2. \/ /\ queue' = rest
         /\ UNCHANGED <<life, isReady, socket, fault, busVars, msgVars, subVars, heard>>
      \/ HandleLive(e, rest)
  BY DEF Handle
<1> HIDE DEF e, rest
<1>3. e.conn \in Conns
  BY <1>1 DEF Event, Receipt
<1>4. CASE /\ queue' = rest
           /\ UNCHANGED <<life, isReady, socket, fault, busVars, msgVars, subVars, heard>>
  BY <1>1, <1>4 DEF TypeOK, busVars, msgVars, subVars, Queues
<1>5. CASE Setup(e, rest)
  <2>1. socket' \in [Clients -> {"unset", "open", "null"}]
    BY <1>5 DEF Setup, TypeOK
  <2> QED
    BY <1>1, <1>5, <2>1 DEF Setup, TypeOK, busVars, msgVars, subVars, Queues
<1>6. CASE Ready(e, rest)
  <2>1. isReady' \in [Conns -> BOOLEAN]
    BY <1>6 DEF Ready, TypeOK
  <2> QED
    BY <1>1, <1>6, <2>1 DEF Ready, TypeOK, busVars, msgVars, subVars, Queues
<1>7. CASE ReceivePosted(e, rest)
  <2>1. e \in Receipt
    BY <1>1, <1>7 DEF ReceivePosted, Event, Plain
  <2>2. /\ heard' \in [Conns -> [Conns -> Nat]]
        /\ fault' \in {"none", "dangling", "badSocket"}
    BY <1>7, <2>1, ReceiptType DEF ReceivePosted
  <2> QED
    BY <1>1, <1>7, <2>2 DEF ReceivePosted, TypeOK, busVars, msgVars, subVars, Queues
<1>8. CASE ReadyFails(e, rest) \/ Delete(e, rest)
  BY <1>1, <1>3, <1>8, DestroyType DEF ReadyFails, Delete
<1> QED
  BY <1>2, <1>4, <1>5, <1>6, <1>7, <1>8 DEF HandleLive

(* The bus keeps its types: in particular every queue holds well-formed    *)
(* events of existing connections only.                                    *)
THEOREM TypeCorrect == Spec => []TypeOK
<1>1. TypeOK /\ [Next]_vars => TypeOK'
  <2>1. ASSUME TypeOK, Next
        PROVE  TypeOK'
    BY <2>1, RegistrationType, MessageType, LifeType, HandleType,
       BoundsAssumption DEF Next, Conns, Threads
  <2>2. ASSUME TypeOK, UNCHANGED vars
        PROVE  TypeOK'
    BY <2>2 DEF TypeOK, vars
  <2> QED
    BY <2>1, <2>2
<1> QED
  BY <1>1, InitType, PTL DEF Spec

-------------------------------------------------------------------------------
(* What a queue holds after an event is posted or taken. *)
LEMMA AppendElems ==
  ASSUME NEW S, NEW s \in Seq(S), NEW x \in S
  PROVE  Elems(Append(s, x)) = Elems(s) \cup {x}
<1>1. /\ Append(s, x) \in Seq(S)
      /\ DOMAIN Append(s, x) = 1..(Len(s) + 1)
      /\ \A i \in 1..Len(s) : Append(s, x)[i] = s[i]
      /\ Append(s, x)[Len(s) + 1] = x
  OBVIOUS
<1>2. DOMAIN s = 1..Len(s) /\ Len(s) \in Nat
  OBVIOUS
<1> QED
  BY <1>1, <1>2 DEF Elems

LEMMA TailElems ==
  ASSUME NEW S, NEW s \in Seq(S), s # <<>>
  PROVE  Elems(s) = {Head(s)} \cup Elems(Tail(s))
<1>1. /\ DOMAIN Tail(s) = 1..(Len(s) - 1)
      /\ \A i \in 1..(Len(s) - 1) : Tail(s)[i] = s[i + 1]
      /\ Head(s) = s[1]
  OBVIOUS
<1>2. DOMAIN s = 1..Len(s) /\ Len(s) \in Nat /\ Len(s) > 0
  OBVIOUS
<1>3. ASSUME NEW i \in DOMAIN s
      PROVE  s[i] \in {Head(s)} \cup Elems(Tail(s))
  <2>1. CASE i = 1
    BY <1>1, <2>1
  <2>2. CASE i # 1
    <3>1. i - 1 \in 1..(Len(s) - 1) /\ Tail(s)[i - 1] = s[i]
      BY <1>1, <1>2, <2>2
    <3> QED
      BY <1>1, <3>1 DEF Elems
  <2> QED
    BY <2>1, <2>2
<1>4. ASSUME NEW i \in DOMAIN Tail(s)
      PROVE  Tail(s)[i] \in Elems(s)
  BY <1>1, <1>2 DEF Elems
<1>5. Head(s) \in Elems(s)
  BY <1>1, <1>2 DEF Elems
<1>6. Elems(s) \subseteq {Head(s)} \cup Elems(Tail(s))
  <2> SUFFICES ASSUME NEW y \in Elems(s)
               PROVE  y \in {Head(s)} \cup Elems(Tail(s))
    OBVIOUS
  <2>1. PICK i \in DOMAIN s : y = s[i]
    BY DEF Elems
  <2> QED
    BY <1>3, <2>1
<1>7. Elems(Tail(s)) \subseteq Elems(s)
  <2> SUFFICES ASSUME NEW y \in Elems(Tail(s))
               PROVE  y \in Elems(s)
    OBVIOUS
  <2>1. PICK i \in DOMAIN Tail(s) : y = Tail(s)[i]
    BY DEF Elems
  <2> QED
    BY <1>4, <2>1
<1> QED
  BY <1>5, <1>6, <1>7

LEMMA PostElems ==
  ASSUME NEW q \in Queues, NEW t \in Threads, NEW e \in Event, NEW u \in Threads
  PROVE  /\ u = t => Elems(Post(q, t, e)[u]) = Elems(q[u]) \cup {e}
         /\ u # t => Elems(Post(q, t, e)[u]) = Elems(q[u])
<1>1. q[t] \in Seq(Event)
  BY DEF Queues
<1>2. Elems(Append(q[t], e)) = Elems(q[t]) \cup {e}
  BY <1>1, AppendElems
<1>3. Post(q, t, e)[u] = IF u = t THEN Append(q[t], e) ELSE q[u]
  BY DEF Post, Queues
<1> QED
  BY <1>2, <1>3

LEMMA TakeElems ==
  ASSUME NEW q \in Queues, NEW t \in Threads, q[t] # <<>>, NEW u \in Threads
  PROVE  /\ Elems([q EXCEPT ![t] = Tail(@)][u]) \subseteq Elems(q[u])
         /\ Elems(q[u]) \subseteq {Head(q[t])} \cup Elems([q EXCEPT ![t] = Tail(@)][u])
<1>1. q[t] \in Seq(Event)
  BY DEF Queues
<1>2. Elems(q[t]) = {Head(q[t])} \cup Elems(Tail(q[t]))
  BY <1>1, TailElems
<1> QED
  BY <1>2 DEF Queues

-------------------------------------------------------------------------------
(* The list of connections.  Most steps leave the manager alone and post   *)
(* or take events that are no destroyed notices.                           *)
Manager == <<life, busVars>>
NoNewNotice ==
  \A e \in Waiting(Main)' : e.type = "gone" => e \in Waiting(Main)

LEMMA QuietStep ==
  ASSUME ManagerInv, UNCHANGED Manager, NoNewNotice
  PROVE  ManagerInv'
BY DEF ManagerInv, Manager, busVars, NoNewNotice, NoticesAreTrue, OneInManager,
       InManager, ListIsJoined, Joined, ListIsComplete, Registered,
       ListIsWatched, Watched

LEMMA PostNoNotice ==
  ASSUME TypeOK, NEW t \in Threads, NEW e \in Event, e.type # "gone",
         queue' = Post(queue, t, e)
  PROVE  NoNewNotice
<1>1. queue \in Queues /\ Main \in Threads
  BY DEF TypeOK, Queues, Threads
<1>2. /\ Main = t => Elems(Post(queue, t, e)[Main]) = Elems(queue[Main]) \cup {e}
      /\ Main # t => Elems(Post(queue, t, e)[Main]) = Elems(queue[Main])
  BY <1>1, PostElems
<1>3. Waiting(Main)' \subseteq Waiting(Main) \cup {e}
  BY <1>2 DEF Waiting
<1> QED
  BY <1>3 DEF NoNewNotice

LEMMA TakeNoNotice ==
  ASSUME TypeOK, NEW t \in Threads, queue[t] # <<>>,
         queue' = [queue EXCEPT ![t] = Tail(@)]
  PROVE  NoNewNotice
<1>1. queue \in Queues /\ Main \in Threads
  BY DEF TypeOK, Queues, Threads
<1>2. Waiting(Main)' \subseteq Waiting(Main)
  BY <1>1, TakeElems DEF Waiting
<1> QED
  BY <1>2 DEF NoNewNotice

LEMMA CrashQuiet ==
  ASSUME NEW what, Crash(what)
  PROVE  UNCHANGED Manager /\ NoNewNotice
BY DEF Crash, Manager, busVars, NoNewNotice, Waiting

LEMMA WireManager ==
  ASSUME TypeOK, ManagerInv, NEW c \in Conns, NEW q \in Queues, Wire(c, q),
         \A e \in Elems(q[Main]) : e \in Waiting(Main)
  PROVE  ManagerInv'
<1>1. CASE \E d \in connections \cup {c} : life[d] # "alive"
  BY <1>1, CrashQuiet, QuietStep DEF Wire
<1>2. CASE ~ \E d \in connections \cup {c} : life[d] # "alive"
  <2>1. /\ wired' = Join(c)
        /\ phase' = [phase EXCEPT ![c] = "wired"]
        /\ raced' = (raced \/ InManager # {})
        /\ queue' = q
        /\ UNCHANGED <<life, connections>>
    BY <1>2 DEF Wire
  <2>2. NoticesAreTrue'
    BY <2>1 DEF ManagerInv, NoticesAreTrue, Waiting
  <2>3. SUFFICES ASSUME ~raced'
                 PROVE  OneInManager' /\ ListIsJoined' /\ ListIsComplete' /\ ListIsWatched'
    BY <2>2 DEF ManagerInv
  <2>4. ~raced /\ InManager = {}
    BY <2>1, <2>3
  <2>5. InManager' = {c}
    BY <2>1, <2>4 DEF InManager, TypeOK
  <2>6. OneInManager'
    BY <2>5 DEF OneInManager
  <2>7. ListIsJoined'
    <3> SUFFICES ASSUME NEW a \in connections \cup {c}, NEW b \in connections \cup {c},
                        a # b
                 PROVE  Joined(a, b)'
      BY <2>1, <2>5 DEF ListIsJoined
    <3>1. wired'[c] = connections
      BY <2>1 DEF Join
    <3>2. \A d \in connections \ {c} : wired'[d] = wired[d] \cup {c}
      BY <2>1 DEF Join, TypeOK
    <3>3. CASE a # c /\ b # c
      <4>1. Joined(a, b)
        BY <1>2, <2>4, <3>3 DEF ManagerInv, ListIsJoined
      <4> QED
        BY <3>2, <3>3, <4>1 DEF Joined
    <3>4. CASE a = c \/ b = c
      BY <3>1, <3>2, <3>4 DEF Joined
    <3> QED
      BY <3>3, <3>4
  <2>8. ListIsComplete'
    BY <2>1, <2>4 DEF ManagerInv, ListIsComplete, Registered, TypeOK
  <2>9. ListIsWatched'
    BY <2>1, <2>4 DEF ManagerInv, ListIsWatched, Watched, TypeOK
  <2> QED
    BY <2>6, <2>7, <2>8, <2>9
<1> QED
  BY <1>1, <1>2

LEMMA AppendManager ==
  ASSUME TypeOK, ManagerInv, NEW c \in Conns, AppendConnection(c)
  PROVE  ManagerInv'
<1>1. CASE life[c] # "alive"
  BY <1>1, CrashQuiet, QuietStep DEF AppendConnection
<1>2. CASE life[c] = "alive"
  <2>1. /\ phase[c] = "wired"
        /\ phase' = [phase EXCEPT ![c] = "done"]
        /\ ~raced => connections' = connections \cup {c}
        /\ queue' = Post(queue, Home(c), Plainly("ready", c))
        /\ UNCHANGED <<life, raced, wired>>
    BY <1>2 DEF AppendConnection
  <2>2. NoNewNotice
    BY <2>1, PostNoNotice, PlainlyIsAnEvent, HomeIsAThread DEF Plain, Plainly
  <2>3. NoticesAreTrue'
    BY <2>1, <2>2 DEF ManagerInv, NoticesAreTrue, NoNewNotice
  <2>4. SUFFICES ASSUME ~raced
                 PROVE  OneInManager' /\ ListIsJoined' /\ ListIsComplete' /\ ListIsWatched'
    BY <2>1, <2>3 DEF ManagerInv
  <2>5. InManager = {c} /\ InManager' = {}
    BY <2>1, <2>4 DEF ManagerInv, OneInManager, InManager, TypeOK
  <2>6. OneInManager'
    BY <2>5 DEF OneInManager
  <2>7. ListIsJoined'
    BY <2>1, <2>4, <2>5 DEF ManagerInv, ListIsJoined, Joined
  <2>8. ListIsComplete'
    BY <2>1, <2>4 DEF ManagerInv, ListIsComplete, Registered, TypeOK
  <2>9. ListIsWatched'
    BY <1>2, <2>1, <2>4 DEF ManagerInv, ListIsWatched, Watched, TypeOK
  <2> QED
    BY <2>6, <2>7, <2>8, <2>9
<1> QED
  BY <1>1, <1>2

LEMMA ConnectionDestroyedManager ==
  ASSUME TypeOK, ManagerInv, NEW c \in Conns, ConnectionDestroyed(c)
  PROVE  ManagerInv'
<1>1. /\ queue[Main] # <<>>
      /\ Head(queue[Main]) = Plainly("gone", c)
      /\ connections' = connections \ {c}
      /\ raced' = (raced \/ InManager # {})
      /\ queue' = [queue EXCEPT ![Main] = Tail(@)]
      /\ UNCHANGED <<life, phase, wired>>
  BY DEF ConnectionDestroyed
<1>2. queue \in Queues /\ Main \in Threads
  BY DEF TypeOK, Queues, Threads
<1>3. Plainly("gone", c) \in Waiting(Main)
  BY <1>1, <1>2, TailElems DEF Queues, Waiting
<1>4. life[c] = "dead"
  BY <1>3 DEF ManagerInv, NoticesAreTrue, Plainly
<1>5. NoticesAreTrue'
  BY <1>1, <1>2, TakeNoNotice DEF ManagerInv, NoticesAreTrue, NoNewNotice
<1>6. SUFFICES ASSUME ~raced'
               PROVE  OneInManager' /\ ListIsJoined' /\ ListIsComplete' /\ ListIsWatched'
  BY <1>5 DEF ManagerInv
<1>7. ~raced /\ InManager' = InManager
  BY <1>1, <1>6 DEF InManager
<1>8. OneInManager' /\ ListIsWatched'
  BY <1>1, <1>7 DEF ManagerInv, OneInManager, ListIsWatched, Watched
<1>9. ListIsJoined'
  BY <1>1, <1>7 DEF ManagerInv, ListIsJoined, Joined
<1>10. ListIsComplete'
  BY <1>1, <1>4, <1>7 DEF ManagerInv, ListIsComplete, Registered
<1> QED
  BY <1>8, <1>9, <1>10

LEMMA DestroyManager ==
  ASSUME TypeOK, ManagerInv, NEW c \in Conns, NEW q \in Queues, Destroy(c, q),
         \A e \in Elems(q[Main]) : e.type = "gone" => e \in Waiting(Main)
  PROVE  ManagerInv'
<1>1. /\ life' = [life EXCEPT ![c] = "dead"]
      /\ wired' = [a \in Conns |-> wired[a] \ {c}]
      /\ queue' = q \/ queue' = Post(q, Main, Plainly("gone", c))
      /\ UNCHANGED <<connections, raced, phase>>
  BY DEF Destroy
<1>2. \A e \in Waiting(Main)' : e.type = "gone" => e \in Waiting(Main) \/ e.conn = c
  <2>1. CASE queue' = q
    BY <2>1 DEF Waiting
  <2>2. CASE queue' = Post(q, Main, Plainly("gone", c))
    <3>1. Main \in Threads /\ Plainly("gone", c) \in Event
      BY PlainlyIsAnEvent DEF Threads, Plain
    <3>2. Elems(Post(q, Main, Plainly("gone", c))[Main])
            = Elems(q[Main]) \cup {Plainly("gone", c)}
      BY <3>1, PostElems
    <3> QED
      BY <2>2, <3>2 DEF Waiting, Plainly
  <2> QED
    BY <1>1, <2>1, <2>2
<1>3. NoticesAreTrue'
  <2> SUFFICES ASSUME NEW e \in Waiting(Main)', e.type = "gone"
               PROVE  life'[e.conn] = "dead"
    BY DEF NoticesAreTrue
  <2>1. CASE e \in Waiting(Main)
    <3>1. life[e.conn] = "dead"
      BY <2>1 DEF ManagerInv, NoticesAreTrue
    <3>2. e.conn \in Conns
      <4>1. queue[Main] \in Seq(Event)
        BY DEF TypeOK, Threads
      <4>2. PICK i \in DOMAIN queue[Main] : e = queue[Main][i]
        BY <2>1 DEF Waiting, Elems
      <4>3. e \in Event
        BY <4>1, <4>2
      <4> QED
        BY <4>3 DEF Event, Receipt
    <3> QED
      BY <1>1, <3>1, <3>2 DEF TypeOK
  <2>2. CASE e.conn = c
    BY <1>1, <2>2 DEF TypeOK
  <2> QED
    BY <1>2, <2>1, <2>2
<1>4. SUFFICES ASSUME ~raced
               PROVE  OneInManager' /\ ListIsJoined' /\ ListIsComplete' /\ ListIsWatched'
  BY <1>1, <1>3 DEF ManagerInv
<1>5. InManager' = InManager
  BY <1>1 DEF InManager
<1>6. OneInManager'
  BY <1>4, <1>5 DEF ManagerInv, OneInManager
<1>7. ListIsJoined'
  <2> SUFFICES ASSUME NEW a \in connections \cup InManager, NEW b \in connections \cup InManager,
                      a # b, life'[a] = "alive", life'[b] = "alive"
               PROVE  Joined(a, b)'
    BY <1>1, <1>5 DEF ListIsJoined
  <2>1. a \in Conns /\ b \in Conns
    BY DEF InManager, TypeOK
  <2>2. a # c /\ b # c /\ life[a] = "alive" /\ life[b] = "alive"
    BY <1>1, <2>1 DEF TypeOK
  <2>3. Joined(a, b)
    BY <1>4, <2>2 DEF ManagerInv, ListIsJoined
  <2> QED
    BY <1>1, <2>1, <2>2, <2>3 DEF Joined
<1>8. ListIsComplete'
  BY <1>1, <1>4 DEF ManagerInv, ListIsComplete, Registered, TypeOK
<1>9. ListIsWatched'
  BY <1>1, <1>4 DEF ManagerInv, ListIsWatched, Watched, TypeOK
<1> QED
  BY <1>6, <1>7, <1>8, <1>9

LEMMA CreateManager ==
  ASSUME TypeOK, ManagerInv, NEW c \in Conns, Create(c)
  PROVE  ManagerInv'
<1>1. /\ life[c] = "none"
      /\ life' = [life EXCEPT ![c] = "alive"]
      /\ phase' = [phase EXCEPT ![c] = "queued"]
      /\ queue' = Announce(c)
      /\ UNCHANGED <<connections, raced, wired>>
  BY DEF Create
<1>2. \A e \in Waiting(Main)' : e.type = "gone" => e \in Waiting(Main)
  <2>1. /\ queue \in Queues
        /\ Main \in Threads /\ (c \in Clients => c \in Threads)
        /\ Plainly("setup", c) \in Event /\ Plainly("register", c) \in Event
    BY PlainlyIsAnEvent DEF TypeOK, Queues, Threads, Plain
  <2> DEFINE q == IF c \in Clients THEN Post(queue, c, Plainly("setup", c)) ELSE queue
  <2>2. q \in Queues /\ Elems(q[Main]) = Elems(queue[Main])
    <3>1. CASE c \in Clients
      <4>1. c # Main
        BY <3>1, ConnsAssumption DEF Conns
      <4> QED
        BY <2>1, <3>1, <4>1, PostType, PostElems
    <3> QED
      BY <2>1, <3>1
  <2>3. queue' = Post(q, Main, Plainly("register", c))
    BY <1>1 DEF Announce
  <2> HIDE DEF q
  <2>4. Elems(Post(q, Main, Plainly("register", c))[Main])
          = Elems(q[Main]) \cup {Plainly("register", c)}
    BY <2>1, <2>2, PostElems
  <2> QED
    BY <2>2, <2>3, <2>4 DEF Waiting, Plainly
<1>3. NoticesAreTrue'
  BY <1>1, <1>2 DEF ManagerInv, NoticesAreTrue, TypeOK
<1>4. SUFFICES ASSUME ~raced
               PROVE  OneInManager' /\ ListIsJoined' /\ ListIsComplete' /\ ListIsWatched'
  BY <1>1, <1>3 DEF ManagerInv
<1>5. InManager' \subseteq InManager \ {c}
  BY <1>1 DEF InManager, TypeOK
<1>6. c \notin connections
  BY <1>1, <1>4 DEF ManagerInv, ListIsWatched
<1>7. OneInManager'
  BY <1>4, <1>5 DEF ManagerInv, OneInManager
<1>8. ListIsJoined'
  BY <1>1, <1>4, <1>5, <1>6 DEF ManagerInv, ListIsJoined, Joined, TypeOK
<1>9. ListIsComplete'
  BY <1>1, <1>4 DEF ManagerInv, ListIsComplete, Registered, TypeOK
<1>10. ListIsWatched'
  BY <1>1, <1>4, <1>6 DEF ManagerInv, ListIsWatched, Watched, TypeOK
<1> QED
  BY <1>7, <1>8, <1>9, <1>10

LEMMA HandleManager ==
  ASSUME TypeOK, ManagerInv, NEW t \in Threads \ {Main}, Handle(t)
  PROVE  ManagerInv'
<1> DEFINE e == Head(queue[t])
           rest == [queue EXCEPT ![t] = Tail(@)]
<1>1. e \in Event /\ rest \in Queues
  BY TakeType DEF Handle, TypeOK, Queues
<1>2. \/ queue' = rest /\ UNCHANGED Manager
      \/ Destroy(e.conn, rest)
  BY DEF Handle, HandleLive, Setup, Ready, ReadyFails, ReceivePosted, Delete,
         Manager, busVars
<1>3. CASE queue' = rest /\ UNCHANGED Manager
  BY <1>3, TakeNoNotice, QuietStep DEF Handle
<1>4. CASE Destroy(e.conn, rest)
  <2>1. rest[Main] = queue[Main]
    BY DEF TypeOK, Threads
  <2>2. e.conn \in Conns
    BY <1>1 DEF Event, Receipt
  <2> HIDE DEF e, rest
  <2> QED
    BY <1>1, <1>4, <2>1, <2>2, DestroyManager DEF Waiting
<1> QED
  BY <1>2, <1>3, <1>4

LEMMA RegistrationManager ==
  ASSUME TypeOK, ManagerInv, NEW c \in Conns,
         (c \in Plugins /\ StartPlugin(c)) \/ RegisterQueued(c)
  PROVE  ManagerInv'
<1>1. queue \in Queues /\ Main \in Threads
  BY DEF TypeOK, Queues, Threads
<1>2. CASE StartPlugin(c)
  BY <1>1, <1>2, WireManager DEF StartPlugin, Waiting
<1>3. CASE RegisterQueued(c)
  <2> DEFINE rest == [queue EXCEPT ![Main] = Tail(@)]
  <2>1. queue[Main] # <<>> /\ Wire(c, rest)
    BY <1>3 DEF RegisterQueued
  <2>2. rest \in Queues /\ Elems(rest[Main]) \subseteq Elems(queue[Main])
    BY <1>1, <2>1, TakeType, TakeElems
  <2> HIDE DEF rest
  <2> QED
    BY <2>1, <2>2, WireManager DEF Waiting
<1> QED
  BY <1>2, <1>3

(* Emissions, subscriptions and the postponed deletions leave the manager. *)
LEMMA OtherManager ==
  ASSUME TypeOK, ManagerInv, NEW c \in Conns,
         \/ \E ch \in Channels : Broadcast(c, ch) \/ Subscribe(c, ch)
         \/ \E v \in BOOLEAN : SetMonitor(c, v)
         \/ \E e \in emitting[c] : Deliver(c, e)
         \/ c \in Clients /\ Disconnect(c)
         \/ c \in Parts /\ DeletePartLater(c)
  PROVE  ManagerInv'
<1>1. CASE UNCHANGED <<Manager, queue>>
  BY <1>1, QuietStep DEF NoNewNotice, Waiting, Manager
<1>2. ASSUME NEW e \in emitting[c], Deliver(c, e)
      PROVE  ManagerInv'
  <2>1. UNCHANGED Manager
    BY <1>2 DEF Deliver, PostMessage, Manager
  <2>2. e \in Event /\ e.type # "gone" /\ e.conn \in Conns
    BY DEF TypeOK, Event, Receipt
  <2>3. UNCHANGED queue \/ queue' = Post(queue, Home(e.conn), e)
    BY <1>2 DEF Deliver, PostMessage
  <2> QED
    BY <1>1, <2>1, <2>2, <2>3, PostNoNotice, QuietStep, HomeIsAThread
<1>3. CASE Disconnect(c) /\ c \in Clients
  BY <1>3, PostNoNotice, QuietStep, PlainlyIsAnEvent
     DEF Disconnect, Plainly, Plain, Manager, Threads
<1>4. CASE DeletePartLater(c)
  BY <1>4, PostNoNotice, QuietStep, PlainlyIsAnEvent, HomeIsAThread
     DEF DeletePartLater, Plainly, Plain, Manager
<1> QED
  BY <1>1, <1>2, <1>3, <1>4 DEF Broadcast, Subscribe, SetMonitor, Manager

LEMMA InitManager == Init => ManagerInv
BY DEF Init, ManagerInv, NoticesAreTrue, Waiting, Elems, OneInManager, InManager,
       ListIsJoined, ListIsComplete, Registered, ListIsWatched, Threads

(* The manager's list: see ManagerInv. *)
THEOREM ManagerCorrect == Spec => []ManagerInv
<1>1. TypeOK /\ ManagerInv /\ [Next]_vars => ManagerInv'
  <2> SUFFICES ASSUME TypeOK, ManagerInv, [Next]_vars
               PROVE  ManagerInv'
    OBVIOUS
  <2>1. ASSUME NEW p \in Plugins, StartPlugin(p)
        PROVE  ManagerInv'
    BY <2>1, RegistrationManager DEF Conns
  <2>2. ASSUME NEW c \in Conns, MainStep(c) \/ AppendConnection(c)
        PROVE  ManagerInv'
    BY <2>2, RegistrationManager, ConnectionDestroyedManager, AppendManager DEF MainStep
  <2>3. ASSUME NEW t \in Threads \ {Main}, Handle(t)
        PROVE  ManagerInv'
    BY <2>3, HandleManager
  <2>4. ASSUME NEW c \in Clients \cup Parts, Create(c)
        PROVE  ManagerInv'
    BY <2>4, CreateManager DEF Conns
  <2>5. ASSUME NEW c \in Parts, DeletePart(c)
        PROVE  ManagerInv'
    BY <2>5, DestroyManager DEF DeletePart, Conns, TypeOK, Queues, Waiting
  <2>6. CASE UNCHANGED vars
    BY <2>6, QuietStep DEF vars, Manager, busVars, NoNewNotice, Waiting
  <2> QED
    BY <2>1, <2>2, <2>3, <2>4, <2>5, <2>6, OtherManager, BoundsAssumption
       DEF Next, Conns
<1> QED
  BY <1>1, InitManager, TypeCorrect, PTL DEF Spec

(* Two live registered connections hear each other unless threads raced    *)
(* inside the manager, for any number of plugins, clients and parts.       *)
THEOREM RegisteredHearEachOther == Spec => []JoinedUnlessRaced
<1>1. ManagerInv => JoinedUnlessRaced
  BY DEF ManagerInv, JoinedUnlessRaced, ListIsJoined, ListIsComplete, Registered
<1> QED
  BY <1>1, ManagerCorrect, PTL

-------------------------------------------------------------------------------
(* The destroyed notices. *)
KeepsNotices ==
  \A c \in Conns : Plainly("gone", c) \in Waiting(Main) => Plainly("gone", c) \in Waiting(Main)'

LEMMA PostKeepsNotices ==
  ASSUME TypeOK, NEW t \in Threads, NEW e \in Event, queue' = Post(queue, t, e)
  PROVE  KeepsNotices
<1>1. queue \in Queues /\ Main \in Threads
  BY DEF TypeOK, Queues, Threads
<1>2. /\ Main = t => Elems(Post(queue, t, e)[Main]) = Elems(queue[Main]) \cup {e}
      /\ Main # t => Elems(Post(queue, t, e)[Main]) = Elems(queue[Main])
  BY <1>1, PostElems
<1>3. Waiting(Main) \subseteq Waiting(Main)'
  BY <1>2 DEF Waiting
<1> QED
  BY <1>3 DEF KeepsNotices

LEMMA TakeKeepsNotices ==
  ASSUME TypeOK, NEW t \in Threads, queue[t] # <<>>,
         t = Main => Head(queue[Main]).type # "gone"
  PROVE  \A c \in Conns : Plainly("gone", c) \in Waiting(Main) =>
           Plainly("gone", c) \in Elems([queue EXCEPT ![t] = Tail(@)][Main])
<1>1. queue \in Queues /\ Main \in Threads
  BY DEF TypeOK, Queues, Threads
<1>2. CASE t = Main
  <2>1. Elems(queue[Main]) \subseteq
          {Head(queue[Main])} \cup Elems([queue EXCEPT ![t] = Tail(@)][Main])
    BY <1>1, <1>2, TakeElems
  <2> QED
    BY <1>2, <2>1 DEF Waiting, Plainly
<1>3. CASE t # Main
  BY <1>1, <1>3 DEF Waiting, Queues
<1> QED
  BY <1>2, <1>3

LEMMA QuietNotices ==
  ASSUME TypeOK, DeadAreNoticed, fault = "none",
         UNCHANGED <<life, connections>>, raced => raced', KeepsNotices
  PROVE  DeadAreNoticed'
BY DEF DeadAreNoticed, KeepsNotices, TypeOK

LEMMA DestroyNotices ==
  ASSUME TypeOK, ManagerInv, DeadAreNoticed, fault = "none",
         NEW c \in Conns, NEW q \in Queues, Destroy(c, q),
         \A d \in Conns : Plainly("gone", d) \in Waiting(Main) =>
           Plainly("gone", d) \in Elems(q[Main])
  PROVE  DeadAreNoticed'
<1>1. /\ life' = [life EXCEPT ![c] = "dead"]
      /\ queue' = IF Watched(c) THEN Post(q, Main, Plainly("gone", c)) ELSE q
      /\ UNCHANGED <<connections, raced>>
  BY DEF Destroy
<1>2. Main \in Threads /\ Plainly("gone", c) \in Event
  BY PlainlyIsAnEvent DEF Threads, Plain
<1>3. Elems(Post(q, Main, Plainly("gone", c))[Main]) = Elems(q[Main]) \cup {Plainly("gone", c)}
  BY <1>2, PostElems
<1>4. Elems(q[Main]) \subseteq Waiting(Main)'
  BY <1>1, <1>3 DEF Waiting
<1>5. Watched(c) => Plainly("gone", c) \in Waiting(Main)'
  BY <1>1, <1>3 DEF Waiting
<1> SUFFICES ASSUME ~raced, NEW d \in connections, life'[d] = "dead"
             PROVE  Plainly("gone", d) \in Waiting(Main)'
  BY <1>1 DEF DeadAreNoticed
<1>6. d \in Conns
  BY DEF TypeOK
<1>7. CASE d = c
  BY <1>5, <1>7 DEF ManagerInv, ListIsWatched
<1>8. CASE d # c
  BY <1>1, <1>4, <1>6, <1>8 DEF DeadAreNoticed, TypeOK
<1> QED
  BY <1>7, <1>8

LEMMA RegistrationNotices ==
  ASSUME TypeOK, ManagerInv, DeadAreNoticed, NEW c \in Conns,
         (c \in Plugins /\ StartPlugin(c)) \/ MainStep(c) \/ AppendConnection(c)
  PROVE  DeadAreNoticed'
<1>1. fault = "none"
  BY DEF StartPlugin, Running, MainStep, RegisterQueued, ConnectionDestroyed,
         AppendConnection, Free
<1>2. ASSUME NEW what \in {"dangling", "badSocket"}, Crash(what)
      PROVE  DeadAreNoticed'
  BY <1>2 DEF Crash, DeadAreNoticed
<1>3. CASE StartPlugin(c)
  BY <1>1, <1>2, <1>3, QuietNotices DEF StartPlugin, Wire, KeepsNotices, Waiting
<1>4. CASE RegisterQueued(c)
  <2> DEFINE rest == [queue EXCEPT ![Main] = Tail(@)]
  <2>1. /\ queue[Main] # <<>>
        /\ Head(queue[Main]).type = "register"
        /\ Wire(c, rest)
    BY <1>4 DEF RegisterQueued, Plainly
  <2>2. \A d \in Conns : Plainly("gone", d) \in Waiting(Main) =>
          Plainly("gone", d) \in Elems(rest[Main])
    BY <2>1, TakeKeepsNotices DEF Threads
  <2> HIDE DEF rest
  <2> QED
    BY <1>1, <1>2, <2>1, <2>2, QuietNotices DEF Wire, KeepsNotices, Waiting
<1>5. CASE ConnectionDestroyed(c)
  <2>1. /\ queue[Main] # <<>>
        /\ Head(queue[Main]) = Plainly("gone", c)
        /\ connections' = connections \ {c}
        /\ raced' = (raced \/ InManager # {})
        /\ queue' = [queue EXCEPT ![Main] = Tail(@)]
        /\ UNCHANGED <<life, fault>>
    BY <1>5 DEF ConnectionDestroyed
  <2>2. queue \in Queues /\ Main \in Threads
    BY DEF TypeOK, Queues, Threads
  <2>3. Elems(queue[Main]) \subseteq
          {Plainly("gone", c)} \cup Elems([queue EXCEPT ![Main] = Tail(@)][Main])
    BY <2>1, <2>2, TakeElems
  <2>4. Waiting(Main) \subseteq {Plainly("gone", c)} \cup Waiting(Main)'
    BY <2>1, <2>3 DEF Waiting
  <2> QED
    BY <1>1, <2>1, <2>4 DEF DeadAreNoticed, Plainly
<1>6. CASE AppendConnection(c) /\ life[c] = "alive"
  <2>1. /\ ~raced => connections' = connections \cup {c}
        /\ queue' = Post(queue, Home(c), Plainly("ready", c))
        /\ UNCHANGED <<life, raced, fault>>
    BY <1>6 DEF AppendConnection
  <2>2. KeepsNotices
    BY <2>1, PostKeepsNotices, PlainlyIsAnEvent, HomeIsAThread DEF Plain
  <2> QED
    BY <1>1, <1>6, <2>1, <2>2 DEF DeadAreNoticed, KeepsNotices, TypeOK
<1> QED
  BY <1>2, <1>3, <1>4, <1>5, <1>6 DEF MainStep, AppendConnection

LEMMA LifeNotices ==
  ASSUME TypeOK, ManagerInv, DeadAreNoticed, NEW c \in Conns,
         \/ Create(c)
         \/ c \in Clients /\ Disconnect(c)
         \/ c \in Parts /\ (DeletePart(c) \/ DeletePartLater(c))
  PROVE  DeadAreNoticed'
<1>1. fault = "none"
  BY DEF Create, MayCreate, Disconnect, DeletePart, DeletePartLater, Running, Free
<1>2. CASE Create(c)
  <2>1. /\ life[c] = "none"
        /\ life' = [life EXCEPT ![c] = "alive"]
        /\ queue' = Announce(c)
        /\ UNCHANGED <<connections, raced, fault>>
    BY <1>2 DEF Create
  <2>2. /\ queue \in Queues
        /\ Main \in Threads /\ (c \in Clients => c \in Threads)
        /\ Plainly("setup", c) \in Event /\ Plainly("register", c) \in Event
    BY PlainlyIsAnEvent DEF TypeOK, Queues, Threads, Plain
  <2> DEFINE q == IF c \in Clients THEN Post(queue, c, Plainly("setup", c)) ELSE queue
  <2>3. q \in Queues /\ Elems(queue[Main]) \subseteq Elems(q[Main])
    <3>1. CASE c \in Clients
      <4>1. c # Main
        BY <3>1, ConnsAssumption DEF Conns
      <4> QED
        BY <2>2, <3>1, <4>1, PostType, PostElems
    <3> QED
      BY <2>2, <3>1
  <2>4. queue' = Post(q, Main, Plainly("register", c))
    BY <2>1 DEF Announce
  <2> HIDE DEF q
  <2>5. Elems(Post(q, Main, Plainly("register", c))[Main])
          = Elems(q[Main]) \cup {Plainly("register", c)}
    BY <2>2, <2>3, PostElems
  <2>6. KeepsNotices
    BY <2>3, <2>4, <2>5 DEF KeepsNotices, Waiting
  <2> QED
    BY <1>1, <2>1, <2>6 DEF DeadAreNoticed, KeepsNotices, TypeOK
<1>3. CASE c \in Clients /\ Disconnect(c)
  BY <1>1, <1>3, PostKeepsNotices, QuietNotices, PlainlyIsAnEvent
     DEF Disconnect, Plain, busVars, Threads
<1>4. CASE DeletePart(c)
  <2>1. queue \in Queues
    BY DEF TypeOK, Queues
  <2> QED
    BY <1>1, <1>4, <2>1, DestroyNotices DEF DeletePart, Waiting
<1>5. CASE DeletePartLater(c)
  BY <1>1, <1>5, PostKeepsNotices, QuietNotices, PlainlyIsAnEvent, HomeIsAThread
     DEF DeletePartLater, Plain, busVars
<1> QED
  BY <1>2, <1>3, <1>4, <1>5

LEMMA MessageNotices ==
  ASSUME TypeOK, DeadAreNoticed, NEW c \in Conns,
         \/ \E ch \in Channels : Broadcast(c, ch) \/ Subscribe(c, ch)
         \/ \E v \in BOOLEAN : SetMonitor(c, v)
         \/ \E e \in emitting[c] : Deliver(c, e)
  PROVE  DeadAreNoticed'
<1>1. fault = "none" /\ UNCHANGED <<life, connections, raced>>
  BY DEF Broadcast, Subscribe, SetMonitor, Deliver, PostMessage, Running, Free, busVars
<1>2. CASE UNCHANGED queue
  BY <1>1, <1>2, QuietNotices DEF KeepsNotices, Waiting
<1>3. ASSUME NEW e \in emitting[c], queue' = Post(queue, Home(e.conn), e)
      PROVE  DeadAreNoticed'
  <2>1. e \in Event /\ e.conn \in Conns
    BY DEF TypeOK, Event, Receipt
  <2> QED
    BY <1>1, <1>3, <2>1, PostKeepsNotices, QuietNotices, HomeIsAThread
<1> QED
  BY <1>2, <1>3 DEF Broadcast, Subscribe, SetMonitor, Deliver, PostMessage

LEMMA HandleNotices ==
  ASSUME TypeOK, ManagerInv, DeadAreNoticed, NEW t \in Threads \ {Main}, Handle(t)
  PROVE  DeadAreNoticed'
<1> DEFINE e == Head(queue[t])
           rest == [queue EXCEPT ![t] = Tail(@)]
<1>1. /\ e \in Event
      /\ rest \in Queues
      /\ fault = "none"
  BY TakeType DEF Handle, Free, TypeOK, Queues
<1>2. \A d \in Conns : Plainly("gone", d) \in Waiting(Main) =>
        Plainly("gone", d) \in Elems(rest[Main])
  BY TakeKeepsNotices DEF Handle
<1>3. \/ queue' = rest /\ UNCHANGED Manager
      \/ Destroy(e.conn, rest)
  BY DEF Handle, HandleLive, Setup, Ready, ReadyFails, ReceivePosted, Delete,
         Manager, busVars
<1>4. e.conn \in Conns
  BY <1>1 DEF Event, Receipt
<1> HIDE DEF e, rest
<1>5. CASE queue' = rest /\ UNCHANGED Manager
  BY <1>1, <1>2, <1>5, QuietNotices DEF Manager, busVars, KeepsNotices, Waiting
<1>6. CASE Destroy(e.conn, rest)
  BY <1>1, <1>2, <1>4, <1>6, DestroyNotices
<1> QED
  BY <1>3, <1>5, <1>6

(* m_connections holds no deleted connection that the main thread has not  *)
(* been told of.                                                           *)
THEOREM DeadAreForgottenOnNotice == Spec => []DeadAreNoticed
<1>1. Init => DeadAreNoticed
  BY DEF Init, DeadAreNoticed
<1>2. TypeOK /\ ManagerInv /\ DeadAreNoticed /\ [Next]_vars => DeadAreNoticed'
  <2> SUFFICES ASSUME TypeOK, ManagerInv, DeadAreNoticed, [Next]_vars
               PROVE  DeadAreNoticed'
    OBVIOUS
  <2>1. ASSUME NEW p \in Plugins, StartPlugin(p)
        PROVE  DeadAreNoticed'
    BY <2>1, RegistrationNotices DEF Conns
  <2>2. CASE UNCHANGED vars
    BY <2>2 DEF vars, DeadAreNoticed, Waiting
  <2> QED
    BY <2>1, <2>2, RegistrationNotices, LifeNotices, MessageNotices, HandleNotices,
       BoundsAssumption DEF Next, Conns
<1> QED
  BY <1>1, <1>2, TypeCorrect, ManagerCorrect, PTL DEF Spec

-------------------------------------------------------------------------------
(* Threads and their events.  What a step may add to a queue, and how it   *)
(* may move the life of connections, for ThreadInv to survive it.          *)
NewEventOK(u, e) ==
  /\ u # Main => Home(e.conn) = u
  /\ e.type = "ready" => phase'[e.conn] = "done"
  /\ e.type = "register" => e.conn \notin Plugins /\ life'[e.conn] # "none"

QueuesOK ==
  /\ \A u \in Threads : \A e \in Waiting(u)' : e \in Waiting(u) \/ NewEventOK(u, e)
  /\ \A c \in Clients : life'[c] = "none" => queue'[c] = <<>>

LifeOK ==
  /\ \A p \in Plugins :
       /\ phase[p] = "done" => phase'[p] = "done"
       /\ isReady'[p] => isReady[p] \/ phase'[p] = "done"
       /\ life'[p] = "dead" => phase'[p] # "wired"
  /\ \A c \in Conns : life[c] # "none" => life'[c] # "none"
  /\ \A c \in Clients \cup Parts :
       /\ life'[c] # "none" => phase'[Owner[c]] = "done"
       /\ phase'[c] = "wired" => life'[c] # "none"

LEMMA ThreadStep ==
  ASSUME TypeOK, ThreadInv, QueuesOK, LifeOK
  PROVE  ThreadInv'
<1>1. Plugins \subseteq Threads /\ Main \in Threads
  BY DEF Threads
<1>2. EventsAreAtHome'
  BY DEF ThreadInv, EventsAreAtHome, QueuesOK, NewEventOK
<1>3. ReadyAfterRegistration'
  <2> SUFFICES ASSUME NEW p \in Plugins
               PROVE  /\ isReady'[p] => phase'[p] = "done"
                      /\ Plainly("ready", p) \in Waiting(p)' => phase'[p] = "done"
                      /\ life'[p] = "dead" => phase'[p] # "wired"
    BY Zenon DEF ReadyAfterRegistration
  <2>1. /\ phase[p] = "done" => phase'[p] = "done"
        /\ isReady'[p] => isReady[p] \/ phase'[p] = "done"
        /\ life'[p] = "dead" => phase'[p] # "wired"
    BY Zenon DEF LifeOK
  <2>2. /\ isReady[p] => phase[p] = "done"
        /\ Plainly("ready", p) \in Waiting(p) => phase[p] = "done"
    BY Zenon DEF ThreadInv, ReadyAfterRegistration
  <2>3. \A e \in Waiting(p)' : e \in Waiting(p) \/ NewEventOK(p, e)
    BY <1>1 DEF QueuesOK
  <2>4. Plainly("ready", p).type = "ready" /\ Plainly("ready", p).conn = p
    BY DEF Plainly
  <2>5. ASSUME Plainly("ready", p) \in Waiting(p)'
        PROVE  phase'[p] = "done"
    <3>1. CASE Plainly("ready", p) \in Waiting(p)
      BY <2>1, <2>2, <3>1
    <3>2. CASE NewEventOK(p, Plainly("ready", p))
      BY <2>4, <3>2 DEF NewEventOK
    <3> QED
      BY <2>3, <2>5, <3>1, <3>2
  <2> QED
    BY <2>1, <2>2, <2>5
<1>4. OnlyCreatedAreAnnounced'
  <2> SUFFICES ASSUME NEW e \in Waiting(Main)', e.type = "register"
               PROVE  e.conn \notin Plugins /\ life'[e.conn] # "none"
    BY DEF OnlyCreatedAreAnnounced
  <2>1. CASE e \in Waiting(Main)
    <3>1. queue[Main] \in Seq(Event)
      BY <1>1 DEF TypeOK
    <3>2. PICK i \in DOMAIN queue[Main] : e = queue[Main][i]
      BY <2>1 DEF Waiting, Elems
    <3>3. e.conn \in Conns
      BY <3>1, <3>2 DEF Event, Receipt
    <3> QED
      BY <2>1, <3>3 DEF ThreadInv, OnlyCreatedAreAnnounced, LifeOK
  <2>2. CASE NewEventOK(Main, e)
    BY <2>2 DEF NewEventOK
  <2> QED
    BY <1>1, <2>1, <2>2 DEF QueuesOK
<1>5. CreatedByReadyPlugins'
  <2> SUFFICES ASSUME NEW c \in Clients \cup Parts
               PROVE  /\ life'[c] # "none" => phase'[Owner[c]] = "done"
                      /\ phase'[c] = "wired" => life'[c] # "none"
                      /\ c \in Clients /\ life'[c] = "none" => queue'[c] = <<>>
    BY Zenon DEF CreatedByReadyPlugins
  <2>1. life'[c] # "none" => phase'[Owner[c]] = "done"
    BY Zenon DEF LifeOK
  <2>2. phase'[c] = "wired" => life'[c] # "none"
    BY Zenon DEF LifeOK
  <2>3. c \in Clients /\ life'[c] = "none" => queue'[c] = <<>>
    BY Zenon DEF QueuesOK
  <2> QED
    BY <2>1, <2>2, <2>3
<1> QED
  BY <1>2, <1>3, <1>4, <1>5 DEF ThreadInv

(* Posting an event that is in order, to a thread that may have events. *)
LEMMA PostOK ==
  ASSUME TypeOK, ThreadInv, NEW t \in Threads, NEW e \in Event, NewEventOK(t, e),
         queue' = Post(queue, t, e),
         \A c \in Clients : life'[c] = "none" => life[c] = "none" /\ t # c
  PROVE  QueuesOK
<1>1. queue \in Queues
  BY DEF TypeOK, Queues
<1>2. ASSUME NEW u \in Threads, NEW x \in Waiting(u)'
      PROVE  x \in Waiting(u) \/ NewEventOK(u, x)
  <2>1. /\ u = t => Elems(Post(queue, t, e)[u]) = Elems(queue[u]) \cup {e}
        /\ u # t => Elems(Post(queue, t, e)[u]) = Elems(queue[u])
    BY <1>1, PostElems
  <2> QED
    BY <2>1 DEF Waiting
<1>3. ASSUME NEW c \in Clients, life'[c] = "none"
      PROVE  queue'[c] = <<>>
  <2>1. queue[c] = <<>>
    BY <1>3 DEF ThreadInv, CreatedByReadyPlugins
  <2> QED
    BY <1>1, <1>3, <2>1 DEF Post, Queues, Threads
<1> QED
  BY <1>2, <1>3 DEF QueuesOK

LEMMA TakeOK ==
  ASSUME TypeOK, ThreadInv, NEW t \in Threads, queue[t] # <<>>,
         queue' = [queue EXCEPT ![t] = Tail(@)],
         \A c \in Clients : life'[c] = "none" => life[c] = "none"
  PROVE  QueuesOK
<1>1. queue \in Queues
  BY DEF TypeOK, Queues
<1>2. \A u \in Threads : Waiting(u)' \subseteq Waiting(u)
  BY <1>1, TakeElems DEF Waiting
<1>3. ASSUME NEW c \in Clients, life'[c] = "none"
      PROVE  queue'[c] = <<>>
  <2>1. queue[c] = <<>>
    BY <1>3 DEF ThreadInv, CreatedByReadyPlugins
  <2> QED
    BY <1>1, <2>1 DEF Queues, Threads
<1> QED
  BY <1>2, <1>3 DEF QueuesOK

LEMMA SameOK ==
  ASSUME ThreadInv, UNCHANGED <<queue, life>>
  PROVE  QueuesOK
BY DEF QueuesOK, Waiting, ThreadInv, CreatedByReadyPlugins

LEMMA QuietLife ==
  ASSUME ThreadInv, UNCHANGED <<life, phase, isReady>>
  PROVE  LifeOK
BY DEF LifeOK, ThreadInv, ReadyAfterRegistration, CreatedByReadyPlugins

LEMMA CrashOK ==
  ASSUME ThreadInv, NEW what, Crash(what)
  PROVE  QueuesOK /\ LifeOK
BY SameOK, QuietLife DEF Crash

LEMMA RegistrationThreads ==
  ASSUME TypeOK, ThreadInv, NEW c \in Conns,
         (c \in Plugins /\ StartPlugin(c)) \/ MainStep(c) \/ AppendConnection(c)
  PROVE  QueuesOK /\ LifeOK
<1>1. CASE \E what \in {"dangling"} : Crash(what)
  BY <1>1, CrashOK
<1>2. ASSUME c \in Plugins => phase[c] # "done",
             life[c] = "alive",
             phase' = [phase EXCEPT ![c] = "wired"],
             UNCHANGED <<life, isReady>>
      PROVE  LifeOK
  <2>1. \A p \in Plugins : /\ phase[p] = "done" => phase'[p] = "done"
                           /\ life'[p] = "dead" => phase'[p] # "wired"
    BY <1>2 DEF TypeOK, ThreadInv, ReadyAfterRegistration, Conns
  <2>2. ASSUME NEW d \in Clients \cup Parts
        PROVE  /\ life'[d] # "none" => phase'[Owner[d]] = "done"
               /\ phase'[d] = "wired" => life'[d] # "none"
    <3>1. d \in Conns /\ Owner[d] \in Plugins
      BY ConnsAssumption DEF Conns
    <3>2. /\ life[d] # "none" => phase[Owner[d]] = "done"
          /\ phase[d] = "wired" => life[d] # "none"
      BY Zenon DEF ThreadInv, CreatedByReadyPlugins
    <3> QED
      BY <1>2, <2>1, <3>1, <3>2 DEF TypeOK
  <2> QED
    BY <1>2, <2>1, <2>2 DEF LifeOK
<1>3. CASE StartPlugin(c) /\ c \in Plugins
  <2>1. CASE Crash("dangling")
    BY <1>1, <2>1
  <2>2. CASE ~ \E d \in connections \cup {c} : life[d] # "alive"
    <3>1. /\ phase[c] = "no" /\ life[c] = "alive"
          /\ phase' = [phase EXCEPT ![c] = "wired"]
          /\ UNCHANGED <<life, isReady, queue>>
      BY <1>3, <2>2 DEF StartPlugin, Running, Wire
    <3> QED
      BY <1>2, <3>1, SameOK
  <2> QED
    BY <1>3, <2>1, <2>2 DEF StartPlugin, Wire
<1>4. CASE RegisterQueued(c)
  <2>1. CASE Crash("dangling")
    BY <1>1, <2>1
  <2>2. CASE ~ \E d \in connections \cup {c} : life[d] # "alive"
    <3>1. /\ queue[Main] # <<>> /\ Head(queue[Main]) = Plainly("register", c)
          /\ life[c] = "alive"
          /\ phase' = [phase EXCEPT ![c] = "wired"]
          /\ queue' = [queue EXCEPT ![Main] = Tail(@)]
          /\ UNCHANGED <<life, isReady>>
      BY <1>4, <2>2 DEF RegisterQueued, Wire
    <3>2. queue[Main] \in Seq(Event) /\ Main \in Threads
      BY DEF TypeOK, Threads
    <3>3. Plainly("register", c) \in Waiting(Main)
      BY <3>1, <3>2, TailElems DEF Waiting
    <3>4. c \notin Plugins
      BY <3>3 DEF ThreadInv, OnlyCreatedAreAnnounced, Plainly
    <3> QED
      BY <1>2, <3>1, <3>2, <3>4, TakeOK
  <2> QED
    BY <1>4, <2>1, <2>2 DEF RegisterQueued, Wire
<1>5. CASE ConnectionDestroyed(c)
  <2>1. /\ queue[Main] # <<>>
        /\ queue' = [queue EXCEPT ![Main] = Tail(@)]
        /\ UNCHANGED <<life, phase, isReady>>
    BY <1>5 DEF ConnectionDestroyed
  <2> QED
    BY <2>1, TakeOK, QuietLife DEF Threads
<1>6. CASE AppendConnection(c) /\ life[c] = "alive"
  <2>1. /\ phase[c] = "wired"
        /\ phase' = [phase EXCEPT ![c] = "done"]
        /\ queue' = Post(queue, Home(c), Plainly("ready", c))
        /\ UNCHANGED <<life, isReady>>
    BY <1>6 DEF AppendConnection
  <2>2. Plainly("ready", c) \in Event /\ Home(c) \in Threads
    BY PlainlyIsAnEvent, HomeIsAThread DEF Plain
  <2>3. NewEventOK(Home(c), Plainly("ready", c))
    BY <2>1 DEF NewEventOK, Plainly, TypeOK
  <2>4. \A d \in Clients : life'[d] = "none" => life[d] = "none" /\ Home(c) # d
    BY <1>6, <2>1, ConnsAssumption DEF Home
  <2>5. QueuesOK
    BY <2>1, <2>2, <2>3, <2>4, PostOK
  <2>6. LifeOK
    <3>1. ASSUME NEW d \in Clients \cup Parts
          PROVE  /\ life'[d] # "none" => phase'[Owner[d]] = "done"
                 /\ phase'[d] = "wired" => life'[d] # "none"
      <4>1. d \in Conns /\ Owner[d] \in Conns
        BY ConnsAssumption DEF Conns
      <4>2. /\ life[d] # "none" => phase[Owner[d]] = "done"
            /\ phase[d] = "wired" => life[d] # "none"
        BY Zenon DEF ThreadInv, CreatedByReadyPlugins
      <4> QED
        BY <2>1, <4>1, <4>2 DEF TypeOK
    <3> QED
      BY <2>1, <3>1 DEF LifeOK, TypeOK, Conns, ThreadInv, ReadyAfterRegistration
  <2> QED
    BY <2>5, <2>6
<1> QED
  BY <1>1, <1>3, <1>4, <1>5, <1>6 DEF MainStep, AppendConnection

LEMMA DestroyThreads ==
  ASSUME TypeOK, ThreadInv, NEW c \in Conns, NEW q \in Queues, Destroy(c, q),
         life[c] # "none", phase[c] # "wired" \/ c \notin Plugins,
         \A u \in Threads : Elems(q[u]) \subseteq Waiting(u),
         \A d \in Clients : queue[d] = <<>> => q[d] = <<>>
  PROVE  QueuesOK /\ LifeOK
<1>1. /\ life' = [life EXCEPT ![c] = "dead"]
      /\ queue' = q \/ queue' = Post(q, Main, Plainly("gone", c))
      /\ UNCHANGED <<phase, isReady>>
  BY DEF Destroy
<1>2. LifeOK
  <2>1. ASSUME NEW d \in Clients \cup Parts
        PROVE  /\ life'[d] # "none" => phase'[Owner[d]] = "done"
               /\ phase'[d] = "wired" => life'[d] # "none"
    <3>1. d \in Conns
      BY DEF Conns
    <3>2. /\ life[d] # "none" => phase[Owner[d]] = "done"
          /\ phase[d] = "wired" => life[d] # "none"
      BY Zenon DEF ThreadInv, CreatedByReadyPlugins
    <3> QED
      BY <1>1, <3>1, <3>2 DEF TypeOK
  <2>2. \A p \in Plugins : life'[p] = "dead" => phase'[p] # "wired"
    BY <1>1 DEF ThreadInv, ReadyAfterRegistration, TypeOK, Conns
  <2>3. \A d \in Conns : life[d] # "none" => life'[d] # "none"
    BY <1>1 DEF TypeOK
  <2> QED
    BY <1>1, <2>1, <2>2, <2>3 DEF LifeOK
<1>3. Main \in Threads /\ Plainly("gone", c) \in Event
  BY PlainlyIsAnEvent DEF Threads, Plain
<1>4. ASSUME NEW u \in Threads, NEW e \in Waiting(u)'
      PROVE  e \in Waiting(u) \/ NewEventOK(u, e)
  <2>1. /\ u = Main => Elems(Post(q, Main, Plainly("gone", c))[u])
                         = Elems(q[u]) \cup {Plainly("gone", c)}
        /\ u # Main => Elems(Post(q, Main, Plainly("gone", c))[u]) = Elems(q[u])
    BY <1>3, PostElems
  <2>2. NewEventOK(Main, Plainly("gone", c))
    BY DEF NewEventOK, Plainly
  <2> QED
    BY <1>1, <2>1, <2>2 DEF Waiting
<1>5. ASSUME NEW d \in Clients, life'[d] = "none"
      PROVE  queue'[d] = <<>>
  <2>1. d # Main /\ d \in Threads /\ d \in Conns
    BY ConnsAssumption DEF Conns, Threads
  <2>2. queue[d] = <<>>
    BY <1>1, <1>5, <2>1 DEF ThreadInv, CreatedByReadyPlugins, TypeOK
  <2> QED
    BY <1>1, <2>1, <2>2 DEF Post, Queues
<1>6. QueuesOK
  BY <1>4, <1>5 DEF QueuesOK
<1> QED
  BY <1>2, <1>6

LEMMA CreateThreads ==
  ASSUME TypeOK, ThreadInv, NEW c \in Clients \cup Parts, Create(c)
  PROVE  QueuesOK /\ LifeOK
<1>1. /\ life[c] = "none"
      /\ isReady[Owner[c]]
      /\ life' = [life EXCEPT ![c] = "alive"]
      /\ phase' = [phase EXCEPT ![c] = "queued"]
      /\ queue' = Announce(c)
      /\ UNCHANGED isReady
  BY DEF Create, MayCreate
<1>2. /\ c \in Conns /\ c \notin Plugins /\ Main \notin Conns
      /\ \A d \in Clients \cup Parts : d \in Conns /\ Owner[d] \in Plugins /\ Owner[d] # c
      /\ Plugins \subseteq Conns
  BY ConnsAssumption DEF Conns
<1>3. phase[Owner[c]] = "done"
  BY <1>1, <1>2 DEF ThreadInv, ReadyAfterRegistration
<1>4. LifeOK
  <2>1. ASSUME NEW d \in Clients \cup Parts
        PROVE  /\ life'[d] # "none" => phase'[Owner[d]] = "done"
               /\ phase'[d] = "wired" => life'[d] # "none"
    <3>1. /\ life[d] # "none" => phase[Owner[d]] = "done"
          /\ phase[d] = "wired" => life[d] # "none"
      BY Zenon DEF ThreadInv, CreatedByReadyPlugins
    <3> QED
      BY <1>1, <1>2, <1>3, <3>1 DEF TypeOK
  <2>2. \A p \in Plugins : /\ phase[p] = "done" => phase'[p] = "done"
                           /\ life'[p] = "dead" => phase'[p] # "wired"
    BY <1>1, <1>2 DEF ThreadInv, ReadyAfterRegistration, TypeOK
  <2>3. \A d \in Conns : life[d] # "none" => life'[d] # "none"
    BY <1>1 DEF TypeOK
  <2>4. \A p \in Plugins : isReady'[p] => isReady[p]
    BY <1>1
  <2> QED
    BY <2>1, <2>2, <2>3, <2>4 DEF LifeOK
<1>5. /\ queue \in Queues
      /\ Main \in Threads /\ (c \in Clients => c \in Threads)
      /\ Plainly("setup", c) \in Event /\ Plainly("register", c) \in Event
  BY <1>2, PlainlyIsAnEvent DEF TypeOK, Queues, Threads, Plain
<1> DEFINE q == IF c \in Clients THEN Post(queue, c, Plainly("setup", c)) ELSE queue
<1>6. q \in Queues
  BY <1>5, PostType
<1>7. queue' = Post(q, Main, Plainly("register", c))
  BY <1>1 DEF Announce
<1>8. ASSUME NEW u \in Threads, NEW e \in Waiting(u)'
      PROVE  e \in Waiting(u) \/ NewEventOK(u, e)
  <2>1. e \in Elems(q[u]) \/ (u = Main /\ e = Plainly("register", c))
    <3>1. /\ u = Main => Elems(Post(q, Main, Plainly("register", c))[u])
                           = Elems(q[u]) \cup {Plainly("register", c)}
          /\ u # Main => Elems(Post(q, Main, Plainly("register", c))[u]) = Elems(q[u])
      BY <1>5, <1>6, PostElems
    <3> QED
      BY <1>7, <3>1 DEF Waiting
  <2>2. e \in Elems(q[u]) => e \in Waiting(u)
                             \/ (c \in Clients /\ u = c /\ e = Plainly("setup", c))
    <3>1. CASE c \in Clients
      <4>1. /\ u = c => Elems(Post(queue, c, Plainly("setup", c))[u])
                          = Elems(queue[u]) \cup {Plainly("setup", c)}
            /\ u # c => Elems(Post(queue, c, Plainly("setup", c))[u]) = Elems(queue[u])
        BY <1>5, <3>1, PostElems
      <4> QED
        BY <3>1, <4>1 DEF Waiting
    <3> QED
      BY <3>1 DEF Waiting
  <2>3. NewEventOK(Main, Plainly("register", c))
    BY <1>1, <1>2 DEF NewEventOK, Plainly, TypeOK
  <2>4. c \in Clients => NewEventOK(c, Plainly("setup", c))
    BY <1>2, ConnsAssumption DEF NewEventOK, Plainly, Home
  <2> HIDE DEF q
  <2> QED
    BY <2>1, <2>2, <2>3, <2>4
<1>9. ASSUME NEW d \in Clients, life'[d] = "none"
      PROVE  queue'[d] = <<>>
  <2>1. d # Main /\ d \in Threads /\ d \in Conns /\ d # c
    BY <1>1, <1>2, <1>9 DEF Conns, Threads, TypeOK
  <2>2. queue[d] = <<>>
    BY <1>1, <1>9, <2>1 DEF ThreadInv, CreatedByReadyPlugins, TypeOK
  <2>3. q[d] = <<>>
    BY <2>1, <2>2, <1>5 DEF Post, Queues
  <2> HIDE DEF q
  <2> QED
    BY <1>6, <1>7, <2>1, <2>3, <1>5 DEF Post, Queues
<1> QED
  BY <1>4, <1>8, <1>9 DEF QueuesOK

LEMMA LifeThreads ==
  ASSUME TypeOK, ThreadInv, NEW c \in Conns,
         \/ c \in Clients /\ Disconnect(c)
         \/ c \in Parts /\ (DeletePart(c) \/ DeletePartLater(c))
  PROVE  QueuesOK /\ LifeOK
<1>1. Home(c) \in Threads /\ Plainly("delete", c) \in Event
  BY HomeIsAThread, PlainlyIsAnEvent DEF Plain
<1>2. NewEventOK(Home(c), Plainly("delete", c))
  BY DEF NewEventOK, Plainly
<1>3. CASE c \in Clients /\ Disconnect(c)
  <2>1. /\ life[c] = "alive"
        /\ Home(c) = c
        /\ queue' = Post(queue, c, Plainly("delete", c))
        /\ UNCHANGED <<life, phase, isReady>>
    BY <1>3, ConnsAssumption DEF Disconnect, Running, busVars, Home
  <2>2. QueuesOK
    BY <1>1, <1>2, <2>1, PostOK
  <2> QED
    BY <2>1, <2>2, QuietLife
<1>4. CASE c \in Parts /\ DeletePartLater(c)
  <2>1. /\ Home(c) \notin Clients
        /\ queue' = Post(queue, Home(c), Plainly("delete", c))
        /\ UNCHANGED <<life, phase, isReady>>
    BY <1>4, ConnsAssumption DEF DeletePartLater, busVars, Home
  <2>2. QueuesOK
    BY <1>1, <1>2, <2>1, PostOK
  <2> QED
    BY <2>1, <2>2, QuietLife
<1>5. CASE c \in Parts /\ DeletePart(c)
  <2>1. queue \in Queues /\ c \notin Plugins /\ life[c] = "alive" /\ Destroy(c, queue)
    BY <1>5, ConnsAssumption DEF TypeOK, Queues, DeletePart, Running
  <2> QED
    BY <2>1, DestroyThreads DEF Waiting
<1> QED
  BY <1>3, <1>4, <1>5

LEMMA MessageThreads ==
  ASSUME TypeOK, ThreadInv, NEW c \in Conns,
         \/ \E ch \in Channels : Broadcast(c, ch) \/ Subscribe(c, ch)
         \/ \E v \in BOOLEAN : SetMonitor(c, v)
         \/ \E e \in emitting[c] : Deliver(c, e)
  PROVE  QueuesOK /\ LifeOK
<1>1. UNCHANGED <<life, phase, isReady>>
  BY DEF Broadcast, Subscribe, SetMonitor, Deliver, PostMessage, busVars
<1>2. CASE UNCHANGED queue
  BY <1>1, <1>2, SameOK, QuietLife
<1>3. ASSUME NEW e \in emitting[c], life[e.conn] = "alive", queue' = Post(queue, Home(e.conn), e)
      PROVE  QueuesOK /\ LifeOK
  <2>1. e \in Event /\ e.conn \in Conns /\ e.type = "receive"
    <3>1. e \in Receipt
      BY DEF TypeOK
    <3> QED
      BY <3>1 DEF Event, Receipt
  <2>2. Home(e.conn) \in Threads /\ NewEventOK(Home(e.conn), e)
    BY <2>1, HomeIsAThread DEF NewEventOK
  <2>3. \A d \in Clients : life'[d] = "none" => life[d] = "none" /\ Home(e.conn) # d
    BY <1>1, <1>3, <2>1, ConnsAssumption DEF Home
  <2>4. QueuesOK
    BY <1>3, <2>1, <2>2, <2>3, PostOK
  <2> QED
    BY <1>1, <2>4, QuietLife
<1> QED
  BY <1>2, <1>3 DEF Broadcast, Subscribe, SetMonitor, Deliver, PostMessage

LEMMA HandleThreads ==
  ASSUME TypeOK, ThreadInv, NEW t \in Threads \ {Main}, Handle(t)
  PROVE  QueuesOK /\ LifeOK
<1> DEFINE e == Head(queue[t])
           rest == [queue EXCEPT ![t] = Tail(@)]
<1>1. /\ e \in Event
      /\ rest \in Queues
      /\ queue \in Queues
      /\ queue[t] # <<>>
      /\ Free(t)
  BY TakeType DEF Handle, TypeOK, Queues
<1>2. \/ queue' = rest /\ UNCHANGED <<life, phase, isReady>>
      \/ /\ queue' = rest /\ UNCHANGED <<life, phase>>
         /\ e.type = "ready"
         /\ isReady' = [isReady EXCEPT ![e.conn] = TRUE]
      \/ Destroy(e.conn, rest) /\ life[e.conn] = "alive"
  BY DEF Handle, HandleLive, Setup, Ready, ReadyFails, ReceivePosted, Delete, busVars
<1>3. e.conn \in Conns
  BY <1>1 DEF Event, Receipt
<1>4. e \in Waiting(t)
  BY <1>1, TailElems DEF Queues, Waiting
<1>5. Home(e.conn) = t
  BY <1>4 DEF ThreadInv, EventsAreAtHome
<1>6. queue' = rest /\ UNCHANGED life => QueuesOK
  BY <1>1, TakeOK
<1>7. \A u \in Threads : Elems(rest[u]) \subseteq Waiting(u)
  BY <1>1, TakeElems DEF Waiting
<1>8. \A d \in Clients : queue[d] = <<>> => rest[d] = <<>>
  BY <1>1 DEF Queues, Threads
<1>9. e.type = "ready" => e = Plainly("ready", e.conn)
  BY <1>1 DEF Event, Receipt, Plainly
<1> HIDE DEF e, rest
<1>10. CASE queue' = rest /\ UNCHANGED <<life, phase, isReady>>
  BY <1>6, <1>10, QuietLife
<1>11. CASE /\ queue' = rest /\ UNCHANGED <<life, phase>>
            /\ e.type = "ready"
            /\ isReady' = [isReady EXCEPT ![e.conn] = TRUE]
  <2>1. e.conn \in Plugins => phase[e.conn] = "done"
    <3>1. CASE e.conn \in Plugins
      <4>1. Plainly("ready", e.conn) \in Waiting(e.conn)
        BY <1>4, <1>5, <1>9, <1>11, <3>1, ConnsAssumption DEF Home
      <4> QED
        BY <3>1, <4>1 DEF ThreadInv, ReadyAfterRegistration
    <3> QED
      BY <3>1
  <2>2. \A p \in Plugins : isReady'[p] => isReady[p] \/ phase'[p] = "done"
    BY <1>11, <2>1 DEF TypeOK, Conns
  <2>3. LifeOK
    BY <1>11, <2>2 DEF LifeOK, ThreadInv, ReadyAfterRegistration, CreatedByReadyPlugins
  <2> QED
    BY <1>6, <1>11, <2>3
<1>12. CASE Destroy(e.conn, rest) /\ life[e.conn] = "alive"
  <2>1. phase[e.conn] # "wired" \/ e.conn \notin Plugins
    BY <1>1, <1>3, <1>5, ConnsAssumption DEF Free, Home, Registrar
  <2> QED
    BY <1>1, <1>3, <1>7, <1>8, <1>12, <2>1, DestroyThreads
<1> QED
  BY <1>2, <1>10, <1>11, <1>12

LEMMA InitThreads == Init => ThreadInv
<1> SUFFICES ASSUME Init PROVE ThreadInv
  OBVIOUS
<1>1. \A t \in Threads : Waiting(t) = {}
  BY DEF Init, Waiting, Elems
<1> QED
  BY <1>1, ConnsAssumption
     DEF Init, ThreadInv, EventsAreAtHome, ReadyAfterRegistration,
         OnlyCreatedAreAnnounced, CreatedByReadyPlugins, Threads, Conns

(* Threads and lives: see ThreadInv. *)
THEOREM ThreadsCorrect == Spec => []ThreadInv
<1>1. TypeOK /\ ThreadInv /\ [Next]_vars => ThreadInv'
  <2> SUFFICES ASSUME TypeOK, ThreadInv, [Next]_vars
               PROVE  QueuesOK /\ LifeOK
    BY ThreadStep
  <2>1. ASSUME NEW p \in Plugins, StartPlugin(p)
        PROVE  QueuesOK /\ LifeOK
    BY <2>1, RegistrationThreads DEF Conns
  <2>2. CASE UNCHANGED vars
    BY <2>2, SameOK, QuietLife DEF vars
  <2> QED
    BY <2>1, <2>2, RegistrationThreads, LifeThreads, CreateThreads, MessageThreads,
       HandleThreads, BoundsAssumption DEF Next, Conns
<1> QED
  BY <1>1, InitThreads, TypeCorrect, PTL DEF Spec

-------------------------------------------------------------------------------
(* With one plugin, nothing enters the manager while somebody is inside. *)
OnePlugin == \A p, q \in Plugins : p = q

LEMMA InsidersAreOwned ==
  ASSUME ThreadInv, NEW d \in InManager
  PROVE  \/ d \in Plugins
         \/ /\ d \in Clients \cup Parts
            /\ Owner[d] \in Plugins
            /\ phase[Owner[d]] = "done"
<1>1. d \in Conns /\ phase[d] = "wired"
  BY DEF InManager
<1>2. CASE d \in Clients \cup Parts
  BY <1>1, <1>2, ConnsAssumption DEF ThreadInv, CreatedByReadyPlugins
<1> QED
  BY <1>1, <1>2 DEF Conns

LEMMA EntersAlone ==
  ASSUME TypeOK, ThreadInv, ManagerInv, OnePlugin, NEW c \in Conns,
         (c \in Plugins /\ StartPlugin(c)) \/ MainStep(c)
  PROVE  InManager = {}
<1>1. CASE c \in Plugins /\ StartPlugin(c)
  <2>1. phase[c] = "no"
    BY <1>1 DEF StartPlugin
  <2>2. ASSUME NEW d \in InManager PROVE FALSE
    BY <1>1, <2>1, <2>2, InsidersAreOwned DEF OnePlugin, InManager
  <2> QED
    BY <2>2
<1>2. CASE MainStep(c)
  <2>1. /\ queue[Main] # <<>>
        /\ Free(Main)
        /\ \/ Head(queue[Main]) = Plainly("register", c)
           \/ Head(queue[Main]) = Plainly("gone", c)
    BY <1>2 DEF MainStep, RegisterQueued, ConnectionDestroyed
  <2>2. queue[Main] \in Seq(Event)
    BY DEF TypeOK, Threads
  <2>3. Head(queue[Main]) \in Waiting(Main)
    BY <2>1, <2>2, TailElems DEF Waiting
  <2>4. \/ c \notin Plugins /\ life[c] # "none"
        \/ life[c] = "dead"
    BY <2>1, <2>3
       DEF ThreadInv, OnlyCreatedAreAnnounced, ManagerInv, NoticesAreTrue, Plainly
  <2>5. ASSUME NEW d \in InManager PROVE FALSE
    <3>1. d \in Plugins /\ phase[d] = "wired" /\ d \in Conns
      BY <2>1, <2>5 DEF Free, InManager, Registrar
    <3>2. CASE c \in Plugins
      BY <2>4, <3>1, <3>2 DEF OnePlugin, ThreadInv, ReadyAfterRegistration
    <3>3. CASE c \notin Plugins
      <4>1. c \in Clients \cup Parts /\ Owner[c] \in Plugins /\ life[c] # "none"
        BY <2>4, <3>3, ConnsAssumption DEF Conns
      <4>2. phase[Owner[c]] = "done"
        BY <4>1 DEF ThreadInv, CreatedByReadyPlugins
      <4> QED
        BY <3>1, <4>1, <4>2 DEF OnePlugin
    <3> QED
      BY <3>2, <3>3
  <2> QED
    BY <2>5
<1> QED
  BY <1>1, <1>2

LEMMA OthersDoNotEnter ==
  ASSUME NEW c \in Conns,
         \/ AppendConnection(c)
         \/ \E ch \in Channels : Broadcast(c, ch) \/ Subscribe(c, ch)
         \/ \E v \in BOOLEAN : SetMonitor(c, v)
         \/ \E e \in emitting[c] : Deliver(c, e)
         \/ Create(c) \/ Disconnect(c) \/ DeletePart(c) \/ DeletePartLater(c)
  PROVE  UNCHANGED raced
BY DEF AppendConnection, Crash, Broadcast, Subscribe, SetMonitor, Deliver, PostMessage, Create,
       Disconnect, DeletePart, DeletePartLater, Destroy, busVars

LEMMA HandlingDoesNotEnter ==
  ASSUME NEW t \in Threads, Handle(t)
  PROVE  UNCHANGED raced
BY DEF Handle, HandleLive, Setup, Ready, ReadyFails, ReceivePosted, Delete, Destroy,
       busVars

(* A core with one plugin never has two threads inside ConnectionManager. *)
THEOREM OnePluginIsSafe == Spec => []SinglePluginNeverRaces
<1>1. Init => SinglePluginNeverRaces
  BY DEF Init, SinglePluginNeverRaces
<1>2. TypeOK /\ ThreadInv /\ ManagerInv /\ SinglePluginNeverRaces /\ [Next]_vars
        => SinglePluginNeverRaces'
  <2> SUFFICES ASSUME TypeOK, ThreadInv, ManagerInv, ~raced, [Next]_vars, OnePlugin
               PROVE  ~raced'
    BY DEF SinglePluginNeverRaces, OnePlugin
  <2>1. ASSUME NEW c \in Conns, (c \in Plugins /\ StartPlugin(c)) \/ MainStep(c)
        PROVE  ~raced'
    <3>1. InManager = {}
      BY <2>1, EntersAlone
    <3> QED
      BY <2>1, <3>1 DEF StartPlugin, MainStep, RegisterQueued, ConnectionDestroyed,
                        Wire, Crash
  <2>2. ASSUME NEW p \in Plugins, StartPlugin(p)
        PROVE  ~raced'
    BY <2>1, <2>2 DEF Conns
  <2>3. CASE UNCHANGED vars
    BY <2>3 DEF vars
  <2> QED
    BY <2>1, <2>2, <2>3, OthersDoNotEnter, HandlingDoesNotEnter, BoundsAssumption
       DEF Next, Conns
<1> QED
  BY <1>1, <1>2, TypeCorrect, ThreadsCorrect, ManagerCorrect, PTL DEF Spec

-------------------------------------------------------------------------------
(* The first event of a thread stays first until it is taken. *)
LEMMA PostKeepsHead ==
  ASSUME NEW q \in Queues, NEW t \in Threads, NEW e \in Event,
         NEW u \in Threads, q[u] # <<>>
  PROVE  Post(q, t, e)[u] # <<>> /\ Head(Post(q, t, e)[u]) = Head(q[u])
<1>1. q[u] \in Seq(Event)
  BY DEF Queues
<1>2. Append(q[u], e) # <<>> /\ Head(Append(q[u], e)) = Head(q[u])
  <2>1. Len(q[u]) \in Nat /\ Len(q[u]) # 0 /\ Head(q[u]) = q[u][1]
    BY <1>1, LenProperties, EmptySeq, HeadTailProperties
  <2>2. /\ Append(q[u], e) \in Seq(Event) /\ Append(q[u], e) # <<>>
        /\ \A i \in 1..Len(q[u]) : Append(q[u], e)[i] = q[u][i]
    BY <1>1, AppendProperties
  <2>3. 1 \in 1..Len(q[u])
    BY <2>1
  <2>4. Head(Append(q[u], e)) = Append(q[u], e)[1]
    BY <2>2, HeadTailProperties
  <2> QED
    BY <2>1, <2>2, <2>3, <2>4
<1>3. Post(q, t, e)[u] = IF u = t THEN Append(q[u], e) ELSE q[u]
  BY DEF Post, Queues
<1> QED
  BY <1>2, <1>3

KeepsHeads ==
  \A c \in Clients : life[c] = "alive" /\ queue[c] # <<>> /\ socket'[c] = "unset" =>
    queue'[c] # <<>> /\ Head(queue'[c]) = Head(queue[c])

LEMMA QuietSetup ==
  ASSUME SetupComesFirst, KeepsHeads,
         \A c \in Clients : socket'[c] = "unset" => socket[c] = "unset",
         \A c \in Clients : life'[c] = "alive" => life[c] = "alive"
  PROVE  SetupComesFirst'
BY DEF SetupComesFirst, KeepsHeads

LEMMA PostKeepsHeads ==
  ASSUME TypeOK, NEW t \in Threads, NEW e \in Event, queue' = Post(queue, t, e)
  PROVE  KeepsHeads
BY PostKeepsHead DEF KeepsHeads, TypeOK, Queues, Threads

LEMMA TakeElsewhere ==
  ASSUME TypeOK, NEW t \in Threads,
         queue' = [queue EXCEPT ![t] = Tail(@)],
         \A c \in Clients : c = t => life[c] = "dead" \/ socket'[c] # "unset"
  PROVE  KeepsHeads
BY DEF KeepsHeads, TypeOK, Threads

LEMMA DestroySetup ==
  ASSUME TypeOK, SetupComesFirst, NEW c \in Conns, NEW q \in Queues, Destroy(c, q),
         \A d \in Clients : d # c => q[d] = queue[d]
  PROVE  SetupComesFirst'
<1>1. /\ life' = [life EXCEPT ![c] = "dead"]
      /\ queue' = q \/ queue' = Post(q, Main, Plainly("gone", c))
      /\ UNCHANGED socket
  BY DEF Destroy
<1>2. Main \in Threads /\ Clients \subseteq Threads /\ Plainly("gone", c) \in Event
  BY PlainlyIsAnEvent DEF Threads, Plain
<1>3. ASSUME NEW d \in Clients, life'[d] = "alive", socket'[d] = "unset"
      PROVE  queue'[d] # <<>> /\ Head(queue'[d]) = Plainly("setup", d)
  <2>1. d # c /\ life[d] = "alive" /\ socket[d] = "unset"
    BY <1>1, <1>3 DEF TypeOK, Conns
  <2>2. q[d] # <<>> /\ Head(q[d]) = Plainly("setup", d)
    BY <2>1 DEF SetupComesFirst
  <2> QED
    BY <1>1, <1>2, <2>2, PostKeepsHead
<1> QED
  BY <1>3 DEF SetupComesFirst

LEMMA RegistrationSetup ==
  ASSUME TypeOK, SetupComesFirst, NEW c \in Conns,
         StartPlugin(c) \/ MainStep(c) \/ AppendConnection(c)
  PROVE  SetupComesFirst'
<1>1. UNCHANGED <<life, socket>>
  BY DEF StartPlugin, MainStep, RegisterQueued, ConnectionDestroyed, AppendConnection,
         Wire, Crash
<1>2. KeepsHeads
  <2>1. CASE UNCHANGED queue
    BY <2>1 DEF KeepsHeads
  <2>2. CASE queue' = [queue EXCEPT ![Main] = Tail(@)]
    <3>1. Main \in Threads /\ \A d \in Clients : d # Main
      BY ConnsAssumption DEF Threads, Conns
    <3> QED
      BY <2>2, <3>1, TakeElsewhere
  <2>3. CASE queue' = Post(queue, Home(c), Plainly("ready", c))
    BY <2>3, PostKeepsHeads, HomeIsAThread, PlainlyIsAnEvent DEF Plain
  <2> QED
    BY <2>1, <2>2, <2>3 DEF StartPlugin, MainStep, RegisterQueued, ConnectionDestroyed,
                            AppendConnection, Wire, Crash
<1> QED
  BY <1>1, <1>2, QuietSetup

LEMMA MessageSetup ==
  ASSUME TypeOK, SetupComesFirst, NEW c \in Conns,
         \/ \E ch \in Channels : Broadcast(c, ch) \/ Subscribe(c, ch)
         \/ \E v \in BOOLEAN : SetMonitor(c, v)
         \/ \E e \in emitting[c] : Deliver(c, e)
  PROVE  SetupComesFirst'
<1>1. UNCHANGED <<life, socket>>
  BY DEF Broadcast, Subscribe, SetMonitor, Deliver, PostMessage
<1>2. KeepsHeads
  <2>1. CASE UNCHANGED queue
    BY <2>1 DEF KeepsHeads
  <2>2. ASSUME NEW e \in emitting[c], queue' = Post(queue, Home(e.conn), e)
        PROVE  KeepsHeads
    <3>1. e \in Event /\ e.conn \in Conns
      BY DEF TypeOK, Event, Receipt
    <3> QED
      BY <2>2, <3>1, PostKeepsHeads, HomeIsAThread
  <2> QED
    BY <2>1, <2>2 DEF Broadcast, Subscribe, SetMonitor, Deliver, PostMessage
<1> QED
  BY <1>1, <1>2, QuietSetup

LEMMA CreateSetup ==
  ASSUME TypeOK, ThreadInv, SetupComesFirst, NEW c \in Clients \cup Parts, Create(c)
  PROVE  SetupComesFirst'
<1>1. /\ life[c] = "none"
      /\ life' = [life EXCEPT ![c] = "alive"]
      /\ queue' = Announce(c)
      /\ UNCHANGED socket
  BY DEF Create
<1>2. /\ queue \in Queues
      /\ Main \in Threads /\ Clients \subseteq Threads /\ Clients \subseteq Conns
      /\ Plainly("setup", c) \in Event /\ Plainly("register", c) \in Event
  BY PlainlyIsAnEvent DEF TypeOK, Queues, Threads, Plain, Conns
<1> DEFINE q == IF c \in Clients THEN Post(queue, c, Plainly("setup", c)) ELSE queue
<1>3. q \in Queues
  BY <1>2, PostType
<1>4. queue' = Post(q, Main, Plainly("register", c))
  BY <1>1 DEF Announce
<1>5. ASSUME NEW d \in Clients, life'[d] = "alive", socket'[d] = "unset"
      PROVE  queue'[d] # <<>> /\ Head(queue'[d]) = Plainly("setup", d)
  <2>1. q[d] # <<>> /\ Head(q[d]) = Plainly("setup", d)
    <3>1. CASE d = c
      <4>1. queue[c] = <<>>
        BY <1>1, <3>1 DEF ThreadInv, CreatedByReadyPlugins
      <4>2. q[c] = <<Plainly("setup", c)>>
        BY <1>2, <3>1, <4>1 DEF Post, Queues
      <4> QED
        BY <3>1, <4>2
    <3>2. CASE d # c
      <4>1. life[d] = "alive" /\ socket[d] = "unset"
        BY <1>1, <1>2, <1>5, <3>2 DEF TypeOK
      <4>2. queue[d] # <<>> /\ Head(queue[d]) = Plainly("setup", d)
        BY <4>1 DEF SetupComesFirst
      <4> QED
        BY <1>2, <4>2, PostKeepsHead
    <3> QED
      BY <3>1, <3>2
  <2> HIDE DEF q
  <2> QED
    BY <1>2, <1>3, <1>4, <2>1, PostKeepsHead
<1> QED
  BY <1>5 DEF SetupComesFirst

LEMMA LifeSetup ==
  ASSUME TypeOK, SetupComesFirst, NEW c \in Conns,
         \/ c \in Clients /\ Disconnect(c)
         \/ c \in Parts /\ (DeletePart(c) \/ DeletePartLater(c))
  PROVE  SetupComesFirst'
<1>1. Home(c) \in Threads /\ Plainly("delete", c) \in Event /\ queue \in Queues
  BY HomeIsAThread, PlainlyIsAnEvent DEF Plain, TypeOK, Queues
<1>2. CASE c \in Clients /\ Disconnect(c)
  <2>1. /\ queue' = Post(queue, c, Plainly("delete", c))
        /\ socket' = [socket EXCEPT ![c] = "null"]
        /\ UNCHANGED life
    BY <1>2 DEF Disconnect
  <2>2. KeepsHeads
    BY <1>1, <1>2, <2>1, PostKeepsHeads DEF Threads
  <2>3. \A d \in Clients : socket'[d] = "unset" => socket[d] = "unset"
    BY <2>1 DEF TypeOK
  <2> QED
    BY <2>1, <2>2, <2>3, QuietSetup
<1>3. CASE DeletePart(c)
  BY <1>1, <1>3, DestroySetup DEF DeletePart
<1>4. CASE DeletePartLater(c)
  BY <1>1, <1>4, PostKeepsHeads, QuietSetup DEF DeletePartLater
<1> QED
  BY <1>2, <1>3, <1>4

LEMMA HandleSetup ==
  ASSUME TypeOK, ThreadInv, SetupComesFirst, NEW t \in Threads \ {Main}, Handle(t)
  PROVE  SetupComesFirst'
<1> DEFINE e == Head(queue[t])
           rest == [queue EXCEPT ![t] = Tail(@)]
<1>1. /\ e \in Event
      /\ rest \in Queues
      /\ queue \in Queues
      /\ queue[t] # <<>>
      /\ \A d \in Clients : d # t => rest[d] = queue[d]
  BY TakeType DEF Handle, TypeOK, Queues, Threads
<1>2. e \in Waiting(t) /\ e.conn \in Conns
  BY <1>1, TailElems DEF Queues, Waiting, Event, Receipt
<1>3. Home(e.conn) = t
  BY <1>2 DEF ThreadInv, EventsAreAtHome
<1>4. t \in Clients => e.conn = t
  BY <1>2, <1>3, ConnsAssumption DEF Home, Conns
<1>5. t \in Clients /\ life[t] = "alive" /\ socket[t] = "unset" => e.type = "setup"
  <2>1. t \in Clients /\ life[t] = "alive" /\ socket[t] = "unset" => e = Plainly("setup", t)
    BY DEF SetupComesFirst
  <2>2. Plainly("setup", t).type = "setup"
    BY DEF Plainly
  <2> HIDE DEF e
  <2> QED
    BY <2>1, <2>2
<1>6. \/ life[e.conn] = "dead" /\ queue' = rest /\ UNCHANGED <<life, socket>>
      \/ /\ queue' = rest /\ UNCHANGED life
         /\ socket' = [socket EXCEPT ![e.conn] = "open"]
      \/ e.type # "setup" /\ queue' = rest /\ UNCHANGED <<life, socket>>
      \/ Destroy(e.conn, rest)
  BY DEF Handle, HandleLive, Setup, Ready, ReadyFails, ReceivePosted, Delete
<1>7. t \in Clients => t \in Conns /\ socket[t] \in {"unset", "open", "null"}
  BY DEF TypeOK, Conns
<1> HIDE DEF e
<1>8. ASSUME queue' = rest,
             t \in Clients => life[t] = "dead" \/ life[t] = "none" \/ socket'[t] # "unset",
             UNCHANGED life,
             \A c \in Clients : socket'[c] = "unset" => socket[c] = "unset"
      PROVE  SetupComesFirst'
  <2> HIDE DEF rest
  <2> QED
    BY <1>1, <1>8 DEF SetupComesFirst
<1>9. CASE life[e.conn] = "dead" /\ queue' = rest /\ UNCHANGED <<life, socket>>
  BY <1>4, <1>8, <1>9
<1>10. CASE /\ queue' = rest /\ UNCHANGED life
            /\ socket' = [socket EXCEPT ![e.conn] = "open"]
  <2>1. \A c \in Clients : socket'[c] = IF c = e.conn THEN "open" ELSE socket[c]
    BY <1>10 DEF TypeOK
  <2> QED
    BY <1>4, <1>8, <1>10, <2>1
<1>11. CASE e.type # "setup" /\ queue' = rest /\ UNCHANGED <<life, socket>>
  <2>1. t \in Clients => life[t] # "alive" \/ socket[t] # "unset"
    BY <1>5, <1>11
  <2>2. t \in Clients => life[t] \in {"none", "alive", "dead"}
    BY <1>7 DEF TypeOK
  <2> QED
    BY <1>8, <1>11, <2>1, <2>2
<1>12. CASE Destroy(e.conn, rest)
  <2> HIDE DEF rest
  <2> QED
    BY <1>1, <1>2, <1>4, <1>12, DestroySetup
<1> QED
  BY <1>6, <1>9, <1>10, <1>11, <1>12

(* A TCP client's socket is set up before anything else happens to it. *)
THEOREM SetupIsFirst == Spec => []SetupComesFirst
<1>1. Init => SetupComesFirst
  BY ConnsAssumption DEF Init, SetupComesFirst, Conns
<1>2. TypeOK /\ ThreadInv /\ SetupComesFirst /\ [Next]_vars => SetupComesFirst'
  <2> SUFFICES ASSUME TypeOK, ThreadInv, SetupComesFirst, [Next]_vars
               PROVE  SetupComesFirst'
    OBVIOUS
  <2>1. ASSUME NEW p \in Plugins, StartPlugin(p)
        PROVE  SetupComesFirst'
    BY <2>1, RegistrationSetup DEF Conns
  <2>2. CASE UNCHANGED vars
    BY <2>2 DEF vars, SetupComesFirst
  <2> QED
    BY <2>1, <2>2, RegistrationSetup, LifeSetup, CreateSetup, MessageSetup, HandleSetup,
       BoundsAssumption DEF Next, Conns
<1> QED
  BY <1>1, <1>2, TypeCorrect, ThreadsCorrect, PTL DEF Spec

-------------------------------------------------------------------------------
(* The sockets of the clients.  A deletion waits until it is handled, and  *)
(* most steps leave sockets alone.                                         *)
DeletesStay ==
  \A c \in Clients :
    life'[c] = "alive" /\ Plainly("delete", c) \in Waiting(c) =>
      Plainly("delete", c) \in Waiting(c)'

LEMMA SameKeepsDeletes ==
  ASSUME UNCHANGED queue
  PROVE  DeletesStay
BY DEF DeletesStay, Waiting

LEMMA PostKeepsDeletes ==
  ASSUME TypeOK, NEW t \in Threads, NEW e \in Event, queue' = Post(queue, t, e)
  PROVE  DeletesStay
<1>1. queue \in Queues /\ Clients \subseteq Threads
  BY DEF TypeOK, Queues, Threads
<1>2. \A c \in Clients : Elems(queue[c]) \subseteq Elems(Post(queue, t, e)[c])
  BY <1>1, PostElems
<1> QED
  BY <1>2 DEF DeletesStay, Waiting

LEMMA TakeKeepsDeletes ==
  ASSUME TypeOK, NEW t \in Threads, queue[t] # <<>>,
         queue' = [queue EXCEPT ![t] = Tail(@)],
         \A c \in Clients : life'[c] = "alive" => Head(queue[t]) # Plainly("delete", c)
  PROVE  DeletesStay
<1>1. queue \in Queues /\ Clients \subseteq Threads
  BY DEF TypeOK, Queues, Threads
<1>2. \A c \in Clients : Elems(queue[c]) \subseteq {Head(queue[t])} \cup Elems(queue'[c])
  BY <1>1, TakeElems
<1> QED
  BY <1>2 DEF DeletesStay, Waiting

LEMMA QuietSockets ==
  ASSUME SocketInv, DeletesStay, UNCHANGED socket,
         \A c \in Clients : life'[c] = "alive" => life[c] \in {"alive", "none"},
         \A c \in Clients : life'[c] = "none" => life[c] = "none",
         \A c \in Clients : emitting'[c] # {} => emitting[c] # {} \/ socket[c] = "open"
  PROVE  SocketInv'
<1>1. NullIsClosing'
  <2> SUFFICES ASSUME NEW c \in Clients, life'[c] = "alive", socket'[c] = "null"
               PROVE  Plainly("delete", c) \in Waiting(c)'
    BY DEF NullIsClosing
  <2>1. socket[c] = "null" /\ life[c] # "none"
    BY DEF SocketInv, UnbornAreUnset
  <2> QED
    BY <2>1 DEF SocketInv, NullIsClosing, DeletesStay
<1>2. EmittersAreSetUp'
  BY DEF SocketInv, EmittersAreSetUp
<1>3. UnbornAreUnset'
  BY DEF SocketInv, UnbornAreUnset
<1> QED
  BY <1>1, <1>2, <1>3 DEF SocketInv

LEMMA DestroySockets ==
  ASSUME TypeOK, SocketInv, NEW c \in Conns, NEW q \in Queues, Destroy(c, q),
         \A d \in Clients : d # c /\ Plainly("delete", d) \in Elems(queue[d]) =>
                               Plainly("delete", d) \in Elems(q[d])
  PROVE  SocketInv'
<1>1. /\ life' = [life EXCEPT ![c] = "dead"]
      /\ queue' = q \/ queue' = Post(q, Main, Plainly("gone", c))
      /\ UNCHANGED <<socket, emitting>>
  BY DEF Destroy, msgVars
<1>2. Main \in Threads /\ Clients \subseteq Threads /\ Clients \subseteq Conns
      /\ Plainly("gone", c) \in Event
  BY PlainlyIsAnEvent DEF Threads, Plain, Conns
<1>3. \A d \in Conns : life'[d] = IF d = c THEN "dead" ELSE life[d]
  BY <1>1 DEF TypeOK
<1>4. \A d \in Clients : Elems(q[d]) \subseteq Elems(queue'[d])
  BY <1>1, <1>2, PostElems
<1>5. DeletesStay
  BY <1>2, <1>3, <1>4 DEF DeletesStay, Waiting
<1> QED
  BY <1>1, <1>2, <1>3, <1>5, QuietSockets

LEMMA RegistrationSockets ==
  ASSUME TypeOK, SocketInv, NEW c \in Conns,
         StartPlugin(c) \/ MainStep(c) \/ AppendConnection(c)
  PROVE  SocketInv'
<1>1. UNCHANGED <<life, socket, emitting>>
  BY DEF StartPlugin, MainStep, RegisterQueued, ConnectionDestroyed, AppendConnection,
         Wire, Crash, msgVars
<1>2. DeletesStay
  <2>1. CASE UNCHANGED queue
    BY <2>1, SameKeepsDeletes
  <2>2. CASE /\ queue[Main] # <<>>
             /\ Head(queue[Main]) \in {Plainly("register", c), Plainly("gone", c)}
             /\ queue' = [queue EXCEPT ![Main] = Tail(@)]
    <3>1. Main \in Threads
      BY DEF Threads
    <3>2. \A d \in Clients : Head(queue[Main]) # Plainly("delete", d)
      BY <2>2 DEF Plainly
    <3> QED
      BY <2>2, <3>1, <3>2, TakeKeepsDeletes
  <2>3. CASE queue' = Post(queue, Home(c), Plainly("ready", c))
    BY <2>3, PostKeepsDeletes, HomeIsAThread, PlainlyIsAnEvent DEF Plain
  <2> QED
    BY <2>1, <2>2, <2>3 DEF StartPlugin, MainStep, RegisterQueued, ConnectionDestroyed,
                            AppendConnection, Wire, Crash
<1>3. \A d \in Clients : life[d] \in {"none", "alive", "dead"}
  BY DEF TypeOK, Conns
<1> QED
  BY <1>1, <1>2, <1>3, QuietSockets

LEMMA MessageSockets ==
  ASSUME TypeOK, SocketInv, NEW c \in Conns,
         \/ \E ch \in Channels : Broadcast(c, ch) \/ Subscribe(c, ch)
         \/ \E v \in BOOLEAN : SetMonitor(c, v)
         \/ \E e \in emitting[c] : Deliver(c, e)
  PROVE  SocketInv'
<1>1. UNCHANGED <<life, socket>>
  BY DEF Broadcast, Subscribe, SetMonitor, Deliver, PostMessage
<1>2. DeletesStay
  <2>1. CASE UNCHANGED queue
    BY <2>1, SameKeepsDeletes
  <2>2. ASSUME NEW e \in emitting[c], queue' = Post(queue, Home(e.conn), e)
        PROVE  DeletesStay
    <3>1. e \in Event /\ e.conn \in Conns
      BY DEF TypeOK, Event, Receipt
    <3> QED
      BY <2>2, <3>1, PostKeepsDeletes, HomeIsAThread
  <2> QED
    BY <2>1, <2>2 DEF Broadcast, Subscribe, SetMonitor, Deliver, PostMessage
<1>3. \A d \in Clients : emitting'[d] # {} => emitting[d] # {} \/ socket[d] = "open"
  <2>1. CASE UNCHANGED emitting
    BY <2>1
  <2>2. ASSUME NEW ch \in Channels, Broadcast(c, ch)
        PROVE  \A d \in Clients : emitting'[d] # {} => emitting[d] # {} \/ socket[d] = "open"
    <3>1. /\ \A d \in Conns : d # c => emitting'[d] = emitting[d]
          /\ c \in Clients => socket[c] = "open"
      BY <2>2 DEF Broadcast, TypeOK
    <3> QED
      BY <3>1 DEF Conns
  <2>3. ASSUME NEW e \in emitting[c], Deliver(c, e)
        PROVE  \A d \in Clients : emitting'[d] # {} => emitting[d] # {} \/ socket[d] = "open"
    <3>1. \A d \in Conns : d # c => emitting'[d] = emitting[d]
      BY <2>3 DEF Deliver, TypeOK
    <3> QED
      BY <3>1 DEF Conns
  <2> QED
    BY <2>1, <2>2, <2>3 DEF Subscribe, SetMonitor, msgVars
<1>4. \A d \in Clients : life[d] \in {"none", "alive", "dead"}
  BY DEF TypeOK, Conns
<1> QED
  BY <1>1, <1>2, <1>3, <1>4, QuietSockets

LEMMA LifeSockets ==
  ASSUME TypeOK, SocketInv, NEW c \in Conns,
         \/ c \in Clients \cup Parts /\ Create(c)
         \/ c \in Clients /\ Disconnect(c)
         \/ c \in Parts /\ (DeletePart(c) \/ DeletePartLater(c))
  PROVE  SocketInv'
<1>1. /\ Home(c) \in Threads /\ Main \in Threads /\ Clients \subseteq Threads
      /\ Clients \subseteq Conns /\ queue \in Queues
      /\ \A type \in Plain : Plainly(type, c) \in Event
      /\ \A d \in Clients : life[d] \in {"none", "alive", "dead"}
  BY HomeIsAThread, PlainlyIsAnEvent DEF TypeOK, Queues, Threads, Conns
<1>2. CASE Create(c)
  <2> DEFINE q == IF c \in Clients THEN Post(queue, c, Plainly("setup", c)) ELSE queue
  <2>1. q \in Queues /\ queue' = Post(q, Main, Plainly("register", c))
    BY <1>1, <1>2, PostType DEF Create, Announce, Plain
  <2>2. \A d \in Clients : Elems(queue[d]) \subseteq Elems(q[d])
    <3> DEFINE s == Plainly("setup", c)
    <3>1. s \in Event
      BY <1>1 DEF Plain
    <3> HIDE DEF s
    <3>2. c \in Clients =>
            \A d \in Clients : Elems(queue[d]) \subseteq Elems(Post(queue, c, s)[d])
      BY <1>1, <3>1, PostElems
    <3> QED
      BY <3>2 DEF s
  <2>3. \A d \in Clients : Elems(q[d]) \subseteq Elems(queue'[d])
    <3> HIDE DEF q
    <3> QED
      BY <1>1, <2>1, PostElems DEF Plain
  <2>4. DeletesStay
    BY <2>2, <2>3 DEF DeletesStay, Waiting
  <2>5. /\ \A d \in Clients : life'[d] = IF d = c THEN "alive" ELSE life[d]
        /\ life[c] = "none"
        /\ UNCHANGED <<socket, emitting>>
    BY <1>1, <1>2 DEF Create, TypeOK, msgVars
  <2> QED
    BY <1>1, <2>4, <2>5, QuietSockets
<1>3. CASE c \in Clients /\ Disconnect(c)
  <2>1. /\ queue' = Post(queue, c, Plainly("delete", c))
        /\ UNCHANGED <<life, emitting>>
        /\ \A d \in Clients : socket'[d] = IF d = c THEN "null" ELSE socket[d]
        /\ life[c] = "alive"
    BY <1>3 DEF Disconnect, Running, TypeOK, msgVars
  <2>2. DeletesStay
    BY <1>1, <1>3, <2>1, PostKeepsDeletes DEF Plain
  <2>3. Plainly("delete", c) \in Waiting(c)'
    <3> DEFINE x == Plainly("delete", c)
    <3>1. x \in Event /\ c \in Threads
      BY <1>1, <1>3 DEF Plain
    <3> HIDE DEF x
    <3>2. x \in Elems(Post(queue, c, x)[c])
      BY <1>1, <3>1, PostElems
    <3> QED
      BY <2>1, <3>2 DEF Waiting, x
  <2> QED
    BY <2>1, <2>2, <2>3 DEF SocketInv, NullIsClosing, EmittersAreSetUp, UnbornAreUnset,
                            DeletesStay
<1>4. CASE DeletePart(c)
  BY <1>1, <1>4, DestroySockets DEF DeletePart
<1>5. CASE DeletePartLater(c)
  <2>1. DeletesStay
    BY <1>1, <1>5, PostKeepsDeletes DEF DeletePartLater, Plain
  <2> QED
    BY <1>1, <1>5, <2>1, QuietSockets DEF DeletePartLater, msgVars
<1> QED
  BY <1>2, <1>3, <1>4, <1>5

LEMMA HandleSockets ==
  ASSUME TypeOK, SocketInv, NEW t \in Threads \ {Main}, Handle(t)
  PROVE  SocketInv'
<1> DEFINE e == Head(queue[t])
           rest == [queue EXCEPT ![t] = Tail(@)]
<1>1. /\ e \in Event
      /\ rest \in Queues
      /\ queue \in Queues
      /\ queue[t] # <<>>
      /\ t \in Threads
      /\ Clients \subseteq Threads
      /\ Clients \subseteq Conns
  BY TakeType DEF Handle, TypeOK, Queues, Threads, Conns
<1>2. e.conn \in Conns
  BY <1>1 DEF Event, Receipt
<1>3. \A d \in Clients : life[d] \in {"none", "alive", "dead"}
  BY <1>1 DEF TypeOK
<1>4. \A d \in Clients : LET deletion == Plainly("delete", d)
                         IN  deletion.type = "delete" /\ deletion.conn = d
  BY DEF Plainly
<1>5. \/ life[e.conn] = "dead" /\ queue' = rest /\ UNCHANGED <<life, socket, emitting>>
      \/ /\ e.type = "setup" /\ queue' = rest /\ UNCHANGED <<life, emitting>>
         /\ socket' = [socket EXCEPT ![e.conn] = "open"]
         /\ life[e.conn] = "alive"
      \/ /\ e.type \in {"ready", "receive"} /\ queue' = rest
         /\ UNCHANGED <<life, socket, emitting>>
      \/ Destroy(e.conn, rest)
  BY DEF Handle, HandleLive, Setup, Ready, ReadyFails, ReceivePosted, Delete, msgVars
<1>6. \A d \in Clients : Elems(queue[d]) \subseteq {e} \cup Elems(rest[d])
  BY <1>1, TakeElems
<1> HIDE DEF e
<1>7. ASSUME queue' = rest, \A d \in Clients : life'[d] = "alive" => e # Plainly("delete", d)
      PROVE  DeletesStay
  BY <1>6, <1>7 DEF DeletesStay, Waiting
<1> HIDE DEF rest
<1>8. CASE life[e.conn] = "dead" /\ queue' = rest /\ UNCHANGED <<life, socket, emitting>>
  <2>1. DeletesStay
    BY <1>4, <1>7, <1>8
  <2> QED
    BY <1>3, <1>8, <2>1, QuietSockets
<1>9. CASE /\ e.type = "setup" /\ queue' = rest /\ UNCHANGED <<life, emitting>>
           /\ socket' = [socket EXCEPT ![e.conn] = "open"]
           /\ life[e.conn] = "alive"
  <2>1. DeletesStay
    BY <1>4, <1>7, <1>9
  <2>2. \A c \in Clients : socket'[c] = IF c = e.conn THEN "open" ELSE socket[c]
    BY <1>9 DEF TypeOK
  <2> QED
    BY <1>9, <2>1, <2>2 DEF SocketInv, NullIsClosing, EmittersAreSetUp, UnbornAreUnset,
                            DeletesStay
<1>10. CASE /\ e.type \in {"ready", "receive"} /\ queue' = rest
            /\ UNCHANGED <<life, socket, emitting>>
  <2>1. DeletesStay
    BY <1>4, <1>7, <1>10
  <2> QED
    BY <1>3, <1>10, <2>1, QuietSockets
<1>11. CASE Destroy(e.conn, rest)
  <2>1. \A d \in Clients : d # e.conn => Plainly("delete", d) # e
    BY <1>4
  <2>2. \A d \in Clients : d # e.conn /\ Plainly("delete", d) \in Elems(queue[d]) =>
                               Plainly("delete", d) \in Elems(rest[d])
    BY <1>6, <2>1
  <2> QED
    BY <1>1, <1>2, <1>11, <2>2, DestroySockets
<1> QED
  BY <1>5, <1>8, <1>9, <1>10, <1>11

(* A client without a socket is about to be deleted. *)
THEOREM SocketsCorrect == Spec => []SocketInv
<1>1. Init => SocketInv
  BY ConnsAssumption DEF Init, SocketInv, NullIsClosing, EmittersAreSetUp, UnbornAreUnset, Conns
<1>2. TypeOK /\ SocketInv /\ [Next]_vars => SocketInv'
  <2> SUFFICES ASSUME TypeOK, SocketInv, [Next]_vars
               PROVE  SocketInv'
    OBVIOUS
  <2>1. ASSUME NEW p \in Plugins, StartPlugin(p)
        PROVE  SocketInv'
    BY <2>1, RegistrationSockets DEF Conns
  <2>2. CASE UNCHANGED vars
    BY <2>2 DEF vars, SocketInv, NullIsClosing, EmittersAreSetUp, UnbornAreUnset, Waiting
  <2> QED
    BY <2>1, <2>2, RegistrationSockets, LifeSockets, MessageSockets, HandleSockets,
       BoundsAssumption DEF Next, Conns
<1> QED
  BY <1>1, <1>2, TypeCorrect, PTL DEF Spec

-------------------------------------------------------------------------------
(* Only a receive() meets a bad socket. *)
LEMMA ReceiveMeetsNull ==
  ASSUME TypeOK, SocketInv', NEW e \in Receipt, Receive(e),
         life[e.conn] = "alive", fault = "none", UNCHANGED <<life, socket>>,
         e.conn \in Clients => socket[e.conn] # "unset"
  PROVE  BadSocketsAreClosing'
<1> SUFFICES ASSUME fault' = "badSocket"
             PROVE  BadSocketsAreClosing'
  BY DEF BadSocketsAreClosing
<1>1. e.conn \in Clients /\ socket[e.conn] # "open"
  BY DEF Receive
<1>2. socket[e.conn] = "null"
  BY <1>1 DEF TypeOK
<1> QED
  BY <1>1, <1>2 DEF SocketInv, NullIsClosing, BadSocketsAreClosing

LEMMA DeliverMeetsNull ==
  ASSUME TypeOK, SocketInv, SocketInv', NEW c \in Conns, NEW e \in emitting[c], Deliver(c, e)
  PROVE  BadSocketsAreClosing'
<1>1. e \in Receipt /\ e.conn \in Conns
  BY DEF TypeOK, Receipt
<1>2. CASE UNCHANGED fault
  BY <1>2 DEF Deliver, BadSocketsAreClosing
<1>3. CASE life[e.conn] = "alive" /\ Home(e.conn) = Home(c) /\ Receive(e)
  <2>1. e.conn \in Clients => c = e.conn
    BY <1>1, <1>3, ConnsAssumption DEF Home, Conns
  <2>2. e.conn \in Clients => socket[e.conn] # "unset"
    BY <2>1 DEF SocketInv, EmittersAreSetUp
  <2>3. fault = "none" /\ UNCHANGED <<life, socket>>
    BY DEF Deliver
  <2> QED
    BY <1>1, <1>3, <2>2, <2>3, ReceiveMeetsNull
<1> QED
  BY <1>2, <1>3 DEF Deliver

LEMMA HandleMeetsNull ==
  ASSUME TypeOK, ThreadInv, SetupComesFirst, SocketInv', NEW t \in Threads \ {Main}, Handle(t)
  PROVE  BadSocketsAreClosing'
<1> DEFINE e == Head(queue[t])
<1>1. e \in Event /\ queue \in Queues /\ queue[t] # <<>> /\ t \in Threads
  BY TakeType DEF Handle, TypeOK, Queues
<1>2. e \in Waiting(t) /\ e.conn \in Conns
  BY <1>1, TailElems DEF Queues, Waiting, Event, Receipt
<1>3. Home(e.conn) = t
  BY <1>2 DEF ThreadInv, EventsAreAtHome
<1>4. e.conn \in Clients => e.conn = t
  BY <1>3, ConnsAssumption DEF Home
<1>5. \/ UNCHANGED fault
      \/ /\ e.type = "receive" /\ Receive(e)
         /\ life[e.conn] = "alive" /\ UNCHANGED <<life, socket>>
  BY DEF Handle, HandleLive, Setup, Ready, ReadyFails, ReceivePosted, Delete, Destroy
<1>6. fault = "none"
  BY DEF Handle, Free
<1>7. t \in Clients /\ life[t] = "alive" /\ socket[t] = "unset" => e = Plainly("setup", t)
  BY DEF SetupComesFirst
<1> HIDE DEF e
<1>8. e.conn \in Clients /\ life[e.conn] = "alive" /\ e.type = "receive" =>
        socket[e.conn] # "unset"
  BY <1>4, <1>7 DEF Plainly
<1>9. e.type = "receive" => e \in Receipt
  BY <1>1 DEF Event, Plain
<1>10. CASE UNCHANGED fault
  BY <1>6, <1>10 DEF BadSocketsAreClosing
<1>11. CASE /\ e.type = "receive" /\ Receive(e)
            /\ life[e.conn] = "alive" /\ UNCHANGED <<life, socket>>
  BY <1>6, <1>8, <1>9, <1>11, ReceiveMeetsNull
<1> QED
  BY <1>5, <1>10, <1>11

(* A message meets a null socket only while the client's deletion waits.   *)
THEOREM BadSocketsAreOnTheirWay == Spec => []BadSocketsAreClosing
<1>1. Init => BadSocketsAreClosing
  BY DEF Init, BadSocketsAreClosing
<1>2. TypeOK /\ ThreadInv /\ SetupComesFirst /\ SocketInv /\ SocketInv' /\ BadSocketsAreClosing
      /\ [Next]_vars => BadSocketsAreClosing'
  <2> SUFFICES ASSUME TypeOK, ThreadInv, SetupComesFirst, SocketInv, SocketInv',
                      BadSocketsAreClosing, [Next]_vars
               PROVE  BadSocketsAreClosing'
    OBVIOUS
  <2>1. ASSUME fault' = "badSocket" => fault = "badSocket", fault = "none"
        PROVE  BadSocketsAreClosing'
    BY <2>1 DEF BadSocketsAreClosing
  <2>2. ASSUME NEW c \in Conns, StartPlugin(c) \/ MainStep(c) \/ AppendConnection(c)
        PROVE  BadSocketsAreClosing'
    BY <2>1, <2>2 DEF StartPlugin, Running, MainStep, RegisterQueued, ConnectionDestroyed,
                      AppendConnection, Free, Wire, Crash
  <2>3. ASSUME NEW c \in Conns,
               \/ \E ch \in Channels : Broadcast(c, ch) \/ Subscribe(c, ch)
               \/ \E v \in BOOLEAN : SetMonitor(c, v)
        PROVE  BadSocketsAreClosing'
    BY <2>1, <2>3 DEF Broadcast, Subscribe, SetMonitor, Running, Free
  <2>4. ASSUME NEW c \in Conns,
               Create(c) \/ Disconnect(c) \/ DeletePart(c) \/ DeletePartLater(c)
        PROVE  BadSocketsAreClosing'
    <3>1. MayCreate(c) => fault = "none"
      BY DEF MayCreate, Running, Free
    <3> QED
      BY <2>1, <2>4, <3>1 DEF Create, Disconnect, DeletePart, DeletePartLater, Destroy,
                              Running, Free
  <2>5. CASE UNCHANGED vars
    BY <2>5 DEF vars, BadSocketsAreClosing, Waiting
  <2> QED
    BY <2>2, <2>3, <2>4, <2>5, DeliverMeetsNull, HandleMeetsNull, BoundsAssumption
       DEF Next, Conns
<1> QED
  BY <1>1, <1>2, TypeCorrect, ThreadsCorrect, SetupIsFirst, SocketsCorrect, PTL DEF Spec

-------------------------------------------------------------------------------
(* The events of a thread are in order, and a connection that the manager  *)
(* has not come to yet is joined to nobody.                                *)

(* Events in order stay so when the first is taken, and when one is posted *)
(* that comes after all of them.                                           *)
LEMMA AppendInOrder ==
  ASSUME NEW S, NEW s \in Seq(S), NEW x \in S, InOrder(s),
         \A e \in Elems(s) : Follows(e, x)
  PROVE  InOrder(Append(s, x))
<1>1. /\ DOMAIN Append(s, x) = 1..(Len(s) + 1)
      /\ \A i \in 1..Len(s) : Append(s, x)[i] = s[i]
      /\ Append(s, x)[Len(s) + 1] = x
      /\ DOMAIN s = 1..Len(s) /\ Len(s) \in Nat
  OBVIOUS
<1> SUFFICES ASSUME NEW i \in 1..(Len(s) + 1), NEW j \in 1..(Len(s) + 1), i < j
             PROVE  Follows(Append(s, x)[i], Append(s, x)[j])
  BY <1>1 DEF InOrder
<1>2. i \in 1..Len(s) /\ Append(s, x)[i] = s[i] /\ s[i] \in Elems(s)
  BY <1>1 DEF Elems
<1>3. CASE j = Len(s) + 1
  BY <1>1, <1>2, <1>3
<1>4. CASE j # Len(s) + 1
  <2>1. j \in 1..Len(s) /\ Append(s, x)[j] = s[j]
    BY <1>1, <1>4
  <2> QED
    BY <1>1, <1>2, <2>1 DEF InOrder
<1> QED
  BY <1>3, <1>4

LEMMA TailInOrder ==
  ASSUME NEW S, NEW s \in Seq(S), s # <<>>, InOrder(s)
  PROVE  InOrder(Tail(s)) /\ \A e \in Elems(Tail(s)) : Follows(Head(s), e)
<1>1. /\ DOMAIN Tail(s) = 1..(Len(s) - 1)
      /\ \A i \in 1..(Len(s) - 1) : Tail(s)[i] = s[i + 1]
      /\ Head(s) = s[1]
      /\ DOMAIN s = 1..Len(s) /\ Len(s) \in Nat /\ Len(s) > 0
  OBVIOUS
<1>2. ASSUME NEW i \in 1..(Len(s) - 1), NEW j \in 1..(Len(s) - 1), i < j
      PROVE  Follows(Tail(s)[i], Tail(s)[j])
  <2>1. i + 1 \in 1..Len(s) /\ j + 1 \in 1..Len(s) /\ i + 1 < j + 1
    BY <1>1, <1>2
  <2>2. Follows(s[i + 1], s[j + 1])
    BY <1>1, <2>1 DEF InOrder
  <2> QED
    BY <1>1, <2>2
<1>3. ASSUME NEW i \in 1..(Len(s) - 1)
      PROVE  Follows(Head(s), Tail(s)[i])
  <2>1. 1 \in 1..Len(s) /\ i + 1 \in 1..Len(s) /\ 1 < i + 1
    BY <1>1
  <2>2. Follows(s[1], s[i + 1])
    BY <1>1, <2>1 DEF InOrder
  <2> QED
    BY <1>1, <2>2
<1> QED
  BY <1>1, <1>2, <1>3 DEF InOrder, Elems

(* The same of the queues of the threads. *)
Orderly(q) == \A t \in Threads : InOrder(q[t])

LEMMA PostInOrder ==
  ASSUME NEW q \in Queues, NEW t \in Threads, NEW e \in Event, Orderly(q),
         \A x \in Elems(q[t]) : Follows(x, e)
  PROVE  Orderly(Post(q, t, e))
<1>1. q[t] \in Seq(Event) /\ InOrder(q[t])
  BY DEF Queues, Orderly
<1>2. InOrder(Append(q[t], e))
  BY <1>1, AppendInOrder
<1>3. \A u \in Threads : Post(q, t, e)[u] = IF u = t THEN Append(q[t], e) ELSE q[u]
  BY DEF Post, Queues
<1> QED
  BY <1>2, <1>3 DEF Orderly

LEMMA TakeInOrder ==
  ASSUME NEW q \in Queues, NEW t \in Threads, q[t] # <<>>, Orderly(q)
  PROVE  /\ Orderly([q EXCEPT ![t] = Tail(@)])
         /\ \A x \in Elems(Tail(q[t])) : Follows(Head(q[t]), x)
<1>1. q[t] \in Seq(Event) /\ InOrder(q[t])
  BY DEF Queues, Orderly
<1>2. InOrder(Tail(q[t])) /\ \A x \in Elems(Tail(q[t])) : Follows(Head(q[t]), x)
  BY <1>1, TailInOrder
<1> QED
  BY <1>2 DEF Orderly, Queues

(* An event that is neither a call of receive() nor an announcement comes  *)
(* after anything.                                                         *)
LEMMA PlainFollows ==
  ASSUME NEW t \in Plain \ {"register"}, NEW c, NEW x
  PROVE  Follows(x, Plainly(t, c))
BY DEF Follows, Plainly, Plain, IsFor

(* A queue that announces nobody new. *)
Calm(q) ==
  /\ q \in Queues
  /\ Orderly(q)
  /\ \A e \in Elems(q[Main]) : e.type = "register" => e \in Waiting(Main)

LEMMA QueueIsCalm ==
  ASSUME TypeOK, RosterInv
  PROVE  Calm(queue)
BY DEF TypeOK, RosterInv, QueuesAreInOrder, Calm, Queues, Orderly, Waiting

LEMMA PostCalm ==
  ASSUME NEW q, Calm(q), NEW t \in Threads, NEW e \in Event, e.type # "register",
         \A x \in Elems(q[t]) : Follows(x, e)
  PROVE  Calm(Post(q, t, e))
<1>1. q \in Queues /\ Main \in Threads
  BY DEF Calm, Threads
<1>2. Post(q, t, e) \in Queues
  BY <1>1, PostType
<1>3. Orderly(Post(q, t, e))
  BY <1>1, PostInOrder DEF Calm
<1>4. Elems(Post(q, t, e)[Main]) \subseteq Elems(q[Main]) \cup {e}
  BY <1>1, PostElems
<1> QED
  BY <1>2, <1>3, <1>4 DEF Calm

LEMMA PostPlainCalm ==
  ASSUME NEW q, Calm(q), NEW t \in Threads, NEW y \in Plain \ {"register"},
         NEW c \in Conns
  PROVE  Calm(Post(q, t, Plainly(y, c)))
<1>1. Plainly(y, c) \in Event /\ Plainly(y, c).type # "register"
  BY PlainlyIsAnEvent DEF Plainly
<1> QED
  BY <1>1, PostCalm, PlainFollows

LEMMA TakeCalm ==
  ASSUME NEW q, Calm(q), NEW t \in Threads, q[t] # <<>>
  PROVE  Calm([q EXCEPT ![t] = Tail(@)])
<1>1. q \in Queues /\ Main \in Threads
  BY DEF Calm, Threads
<1>2. [q EXCEPT ![t] = Tail(@)] \in Queues
  BY <1>1, TakeType
<1>3. Orderly([q EXCEPT ![t] = Tail(@)])
  BY <1>1, TakeInOrder DEF Calm
<1>4. Elems([q EXCEPT ![t] = Tail(@)][Main]) \subseteq Elems(q[Main])
  BY <1>1, TakeElems
<1> QED
  BY <1>2, <1>3, <1>4 DEF Calm

(* Most steps join nobody. *)
LEMMA QuietRoster ==
  ASSUME TypeOK, RosterInv, Calm(queue'), UNCHANGED <<phase, seen>>,
         connections' \subseteq connections,
         \A a \in Conns : wired'[a] \subseteq wired[a],
         \A a \in Conns : \A b \in wired'[a] : life'[b] = "alive",
         \A a \in Conns : life'[a] = "none" => life[a] = "none"
  PROVE  RosterInv'
<1>1. NewAreApart'
  BY DEF RosterInv, NewAreApart, New
<1>2. AnnouncedAreQueued'
  BY DEF RosterInv, AnnouncedAreQueued, Calm, Waiting
<1>3. WiredAreAlive'
  BY DEF WiredAreAlive
<1>4. QueuesAreInOrder'
  BY DEF Calm, Orderly, QueuesAreInOrder
<1> QED
  BY <1>1, <1>2, <1>3, <1>4 DEF RosterInv

LEMMA SameRoster ==
  ASSUME TypeOK, RosterInv, Calm(queue'), UNCHANGED <<busVars, life>>
  PROVE  RosterInv'
<1>1. \A a \in Conns : \A b \in wired[a] : life[b] = "alive"
  BY DEF RosterInv, WiredAreAlive
<1> QED
  BY <1>1, QuietRoster DEF busVars

LEMMA CrashRoster ==
  ASSUME TypeOK, RosterInv, NEW what, Crash(what)
  PROVE  RosterInv'
BY QueueIsCalm, SameRoster DEF Crash, Calm, Queues, Orderly, Waiting, busVars

LEMMA WireRoster ==
  ASSUME TypeOK, RosterInv, NEW c \in Conns, NEW q, Wire(c, q), Calm(q), New(c),
         \A e \in Elems(q[Main]) : e.type = "register" => e.conn # c
  PROVE  RosterInv'
<1>1. CASE \E d \in connections \cup {c} : life[d] # "alive"
  BY <1>1, CrashRoster DEF Wire
<1>2. CASE ~ \E d \in connections \cup {c} : life[d] # "alive"
  <2>1. /\ wired' = Join(c)
        /\ seen' = [seen EXCEPT ![c] = connections]
        /\ phase' = [phase EXCEPT ![c] = "wired"]
        /\ queue' = q
        /\ UNCHANGED <<life, connections>>
    BY <1>2 DEF Wire
  <2>2. /\ wired'[c] = connections
        /\ \A a \in Conns \ {c} : wired'[a] = IF a \in connections
                                            THEN wired[a] \cup {c} ELSE wired[a]
    BY <2>1 DEF Join
  <2>3. ASSUME NEW d \in Conns, New(d)'
        PROVE  d # c /\ New(d)
    BY <2>1, <2>3 DEF New, TypeOK
  <2>4. ASSUME NEW d \in Conns, New(d)'
        PROVE  /\ wired'[d] = {}
               /\ d \notin connections'
               /\ \A a \in Conns : d \notin wired'[a] /\ d \notin seen'[a]
    <3>1. /\ wired[d] = {}
          /\ d \notin connections
          /\ \A a \in Conns : d \notin wired[a] /\ d \notin seen[a]
      BY <2>3, <2>4 DEF RosterInv, NewAreApart
    <3>2. d # c
      BY <2>3, <2>4
    <3>3. \A a \in Conns : d \notin seen'[a]
      BY <2>1, <3>1 DEF TypeOK
    <3>4. \A a \in Conns : d \notin wired'[a]
      BY <2>2, <3>1, <3>2
    <3> QED
      BY <2>1, <2>2, <3>1, <3>2, <3>3, <3>4
  <2>5. NewAreApart'
    <3>1. ASSUME NEW d \in Conns, life'[d] = "none"
          PROVE  New(d)'
      BY <1>2, <2>1, <3>1 DEF RosterInv, NewAreApart, New, TypeOK
    <3> QED
      BY <2>4, <3>1 DEF NewAreApart
  <2>6. AnnouncedAreQueued'
    <3> SUFFICES ASSUME NEW e \in Elems(q[Main]), e.type = "register"
                 PROVE  phase'[e.conn] = "queued"
      BY <2>1 DEF AnnouncedAreQueued, Waiting
    <3>1. phase[e.conn] = "queued" /\ e.conn # c
      BY DEF Calm, RosterInv, AnnouncedAreQueued
    <3> QED
      BY <2>1, <3>1 DEF TypeOK
  <2>7. WiredAreAlive'
    <3> SUFFICES ASSUME NEW a \in Conns, NEW b \in wired'[a]
                 PROVE  life[b] = "alive"
      BY <2>1 DEF WiredAreAlive
    <3>1. b \in connections \cup {c} \/ b \in wired[a]
      BY <2>2
    <3> QED
      BY <1>2, <3>1 DEF RosterInv, WiredAreAlive
  <2>8. QueuesAreInOrder'
    BY <2>1 DEF Calm, Orderly, QueuesAreInOrder
  <2> QED
    BY <2>5, <2>6, <2>7, <2>8 DEF RosterInv
<1> QED
  BY <1>1, <1>2
LEMMA RegistrationRoster ==
  ASSUME TypeOK, ThreadInv, RosterInv, NEW c \in Conns,
         (c \in Plugins /\ StartPlugin(c)) \/ MainStep(c) \/ AppendConnection(c)
  PROVE  RosterInv'
<1>0. Main \in Threads /\ Calm(queue)
  BY QueueIsCalm DEF Threads
<1>1. CASE c \in Plugins /\ StartPlugin(c)
  <2>1. New(c) /\ Wire(c, queue)
    BY <1>1 DEF StartPlugin, New
  <2>2. \A e \in Waiting(Main) : e.type = "register" => e.conn # c
    BY <1>1 DEF ThreadInv, OnlyCreatedAreAnnounced
  <2> QED
    BY <1>0, <2>1, <2>2, WireRoster DEF Waiting
<1>2. CASE RegisterQueued(c)
  <2> DEFINE rest == [queue EXCEPT ![Main] = Tail(@)]
  <2>1. queue[Main] # <<>> /\ Head(queue[Main]) = Plainly("register", c) /\ Wire(c, rest)
    BY <1>2 DEF RegisterQueued
  <2>2. Calm(rest) /\ rest[Main] = Tail(queue[Main])
    BY <1>0, <2>1, TakeCalm DEF Calm, Queues
  <2>3. \A e \in Elems(Tail(queue[Main])) : Follows(Plainly("register", c), e)
    BY <1>0, <2>1, TakeInOrder DEF Calm
  <2>4. \A e \in Elems(rest[Main]) : e.type = "register" => e.conn # c
    BY <2>2, <2>3 DEF Follows, Plainly
  <2>5. Plainly("register", c) \in Waiting(Main)
    BY <1>0, <2>1, TailElems DEF Queues, Waiting, Calm
  <2>6. New(c)
    BY <2>5 DEF RosterInv, AnnouncedAreQueued, New, Plainly
  <2> QED
    BY <2>1, <2>2, <2>4, <2>6, WireRoster
<1>3. CASE ConnectionDestroyed(c)
  <2>1. Calm(queue')
    BY <1>0, <1>3, TakeCalm DEF ConnectionDestroyed
  <2>2. \A a \in Conns : \A b \in wired[a] : life[b] = "alive"
    BY DEF RosterInv, WiredAreAlive
  <2> QED
    BY <1>3, <2>1, <2>2, QuietRoster DEF ConnectionDestroyed
<1>4. CASE AppendConnection(c) /\ life[c] # "alive"
  BY <1>4, CrashRoster DEF AppendConnection
<1>5. CASE AppendConnection(c) /\ life[c] = "alive"
  <2>1. /\ phase[c] = "wired"
        /\ connections' \in {connections \cup {c}, seen[c] \cup {c}, connections}
        /\ phase' = [phase EXCEPT ![c] = "done"]
        /\ queue' = Post(queue, Home(c), Plainly("ready", c))
        /\ UNCHANGED <<life, seen, wired>>
    BY <1>5 DEF AppendConnection
  <2>2. Calm(queue')
    BY <1>0, <2>1, PostPlainCalm, HomeIsAThread DEF Plain
  <2>3. ASSUME NEW d \in Conns, New(d)'
        PROVE  d # c /\ New(d)
    BY <2>1, <2>3 DEF New, TypeOK
  <2>4. ASSUME NEW d \in Conns, New(d)'
        PROVE  d \notin connections'
    <3>1. d # c /\ d \notin connections /\ d \notin seen[c]
      BY <2>3, <2>4 DEF RosterInv, NewAreApart
    <3> QED
      BY <2>1, <3>1
  <2>5. NewAreApart'
    <3>1. ASSUME NEW d \in Conns, life'[d] = "none"
          PROVE  New(d)'
      BY <1>5, <2>1, <3>1 DEF RosterInv, NewAreApart, New, TypeOK
    <3>2. ASSUME NEW d \in Conns, New(d)'
          PROVE  /\ wired'[d] = {}
                 /\ \A a \in Conns : d \notin wired'[a] /\ d \notin seen'[a]
      BY <2>1, <2>3, <3>2 DEF RosterInv, NewAreApart
    <3> QED
      BY <2>4, <3>1, <3>2 DEF NewAreApart
  <2>6. AnnouncedAreQueued'
    <3> SUFFICES ASSUME NEW e \in Elems(queue'[Main]), e.type = "register"
                 PROVE  phase'[e.conn] = "queued"
      BY DEF AnnouncedAreQueued, Waiting
    <3>1. phase[e.conn] = "queued"
      BY <2>2 DEF Calm, RosterInv, AnnouncedAreQueued
    <3> QED
      BY <2>1, <3>1 DEF TypeOK
  <2>7. WiredAreAlive' /\ QueuesAreInOrder'
    BY <2>1, <2>2 DEF RosterInv, WiredAreAlive, Calm, Orderly, QueuesAreInOrder
  <2> QED
    BY <2>5, <2>6, <2>7 DEF RosterInv
<1> QED
  BY <1>1, <1>2, <1>3, <1>4, <1>5 DEF MainStep

LEMMA DestroyRoster ==
  ASSUME TypeOK, RosterInv, NEW c \in Conns, NEW q, Calm(q), Destroy(c, q)
  PROVE  RosterInv'
<1>1. /\ life' = [life EXCEPT ![c] = "dead"]
      /\ wired' = [a \in Conns |-> wired[a] \ {c}]
      /\ queue' = Post(q, Main, Plainly("gone", c)) \/ queue' = q
      /\ UNCHANGED <<connections, seen, phase>>
  BY DEF Destroy
<1>2. Calm(Post(q, Main, Plainly("gone", c)))
  BY PostPlainCalm DEF Plain, Threads
<1>3. Calm(queue')
  BY <1>1, <1>2
<1>4. ASSUME NEW a \in Conns
      PROVE  /\ wired'[a] \subseteq wired[a]
             /\ \A b \in wired'[a] : life'[b] = "alive"
             /\ life'[a] = "none" => life[a] = "none"
  BY <1>1 DEF RosterInv, WiredAreAlive, TypeOK
<1> QED
  BY <1>1, <1>3, <1>4, QuietRoster

LEMMA CreateRoster ==
  ASSUME TypeOK, ThreadInv, RosterInv, NEW c \in Conns, Create(c)
  PROVE  RosterInv'
<1>1. /\ life[c] = "none"
      /\ life' = [life EXCEPT ![c] = "alive"]
      /\ phase' = [phase EXCEPT ![c] = "queued"]
      /\ queue' = Announce(c)
      /\ UNCHANGED <<connections, seen, wired>>
  BY DEF Create
<1> DEFINE q == IF c \in Clients THEN Post(queue, c, Plainly("setup", c)) ELSE queue
           e == Plainly("register", c)
<1>2. queue' = Post(q, Main, e)
  BY <1>1 DEF Announce
<1>3. Calm(q)
  BY QueueIsCalm, PostPlainCalm DEF Plain, Threads
<1>4. e \in Event /\ Main \in Threads /\ e.type = "register" /\ e.conn = c
  BY PlainlyIsAnEvent DEF Plain, Threads, Plainly
<1> HIDE DEF q, e
<1>5. \A x \in Waiting(Main) : x.type = "register" => x.conn # c
  BY <1>1 DEF ThreadInv, OnlyCreatedAreAnnounced
<1>6. \A x \in Elems(q[Main]) : Follows(x, e)
  BY <1>3, <1>4, <1>5 DEF Calm, Follows, IsFor
<1>7. Orderly(queue')
  BY <1>2, <1>3, <1>4, <1>6, PostInOrder DEF Calm
<1>8. Elems(queue'[Main]) = Elems(q[Main]) \cup {e}
  BY <1>2, <1>3, <1>4, PostElems DEF Calm
<1>9. New(c) /\ New(c)'
  BY <1>1 DEF RosterInv, NewAreApart, New, TypeOK
<1>10. NewAreApart'
  <2>1. ASSUME NEW d \in Conns, New(d)'
        PROVE  New(d)
    BY <1>1, <1>9, <2>1 DEF New, TypeOK
  <2>2. ASSUME NEW d \in Conns, life'[d] = "none"
        PROVE  New(d)'
    BY <1>1, <2>2 DEF RosterInv, NewAreApart, New, TypeOK
  <2> QED
    BY <1>1, <2>1, <2>2 DEF RosterInv, NewAreApart
<1>11. AnnouncedAreQueued'
  <2> SUFFICES ASSUME NEW x \in Elems(queue'[Main]), x.type = "register"
               PROVE  phase'[x.conn] = "queued"
    BY DEF AnnouncedAreQueued, Waiting
  <2>1. CASE x = e
    BY <1>1, <1>4, <2>1 DEF TypeOK
  <2>2. CASE x # e
    <3>1. x \in Waiting(Main)
      BY <1>3, <1>8, <2>2 DEF Calm
    <3>2. phase[x.conn] = "queued"
      BY <3>1 DEF RosterInv, AnnouncedAreQueued
    <3> QED
      BY <1>1, <3>2 DEF TypeOK
  <2> QED
    BY <2>1, <2>2
<1>12. WiredAreAlive'
  BY <1>1 DEF RosterInv, WiredAreAlive, TypeOK
<1> QED
  BY <1>7, <1>10, <1>11, <1>12 DEF RosterInv, Orderly, QueuesAreInOrder

LEMMA LifeRoster ==
  ASSUME TypeOK, ThreadInv, RosterInv, NEW c \in Conns,
         \/ Create(c)
         \/ c \in Clients /\ Disconnect(c)
         \/ c \in Parts /\ (DeletePart(c) \/ DeletePartLater(c))
  PROVE  RosterInv'
<1>0. Calm(queue) /\ Home(c) \in Threads /\ Clients \subseteq Threads
  BY QueueIsCalm, HomeIsAThread DEF Threads
<1>1. CASE Create(c)
  BY <1>1, CreateRoster
<1>2. CASE c \in Clients /\ Disconnect(c)
  <2>1. Calm(queue')
    BY <1>0, <1>2, PostPlainCalm DEF Disconnect, Plain
  <2> QED
    BY <1>2, <2>1, SameRoster DEF Disconnect
<1>3. CASE DeletePart(c)
  BY <1>0, <1>3, DestroyRoster DEF DeletePart
<1>4. CASE DeletePartLater(c)
  <2>1. Calm(queue')
    BY <1>0, <1>4, PostPlainCalm DEF DeletePartLater, Plain
  <2> QED
    BY <1>4, <2>1, SameRoster DEF DeletePartLater
<1> QED
  BY <1>1, <1>2, <1>3, <1>4
LEMMA MessageRoster ==
  ASSUME TypeOK, RosterInv, EmissionsAreLast, NEW c \in Conns,
         \/ \E ch \in Channels : Broadcast(c, ch) \/ Subscribe(c, ch)
         \/ \E v \in BOOLEAN : SetMonitor(c, v)
         \/ \E e \in emitting[c] : Deliver(c, e)
  PROVE  RosterInv'
<1>0. Calm(queue)
  BY QueueIsCalm
<1>1. CASE UNCHANGED <<queue, busVars, life>>
  BY <1>0, <1>1, SameRoster
<1>2. ASSUME NEW e \in emitting[c], Deliver(c, e),
             queue' = PostMessage(queue, Home(e.conn), e)
      PROVE  RosterInv'
  <2>0. e \in Receipt
    BY DEF TypeOK
  <2>1. e \in Event /\ e.conn \in Conns /\ e.type = "receive"
    BY <2>0 DEF Receipt, Event
  <2>2. \A x \in Waiting(Home(e.conn)) : Follows(x, e)
    BY <2>1 DEF EmissionsAreLast, Follows, IsFor
  <2>3. Calm(queue')
    BY <1>0, <1>2, <2>1, <2>2, PostCalm, HomeIsAThread DEF PostMessage, Waiting
  <2> QED
    BY <1>2, <2>3, SameRoster DEF Deliver
<1> QED
  BY <1>1, <1>2 DEF Broadcast, Subscribe, SetMonitor, Deliver, busVars

LEMMA HandleRoster ==
  ASSUME TypeOK, RosterInv, NEW t \in Threads, Handle(t)
  PROVE  RosterInv'
<1> DEFINE e == Head(queue[t])
           rest == [queue EXCEPT ![t] = Tail(@)]
<1>1. e \in Event /\ Calm(rest)
  BY QueueIsCalm, TakeCalm, TakeType DEF Handle, Calm
<1>2. \/ queue' = rest /\ UNCHANGED <<life, busVars>>
      \/ HandleLive(e, rest)
  BY DEF Handle
<1> HIDE DEF e, rest
<1>3. CASE queue' = rest /\ UNCHANGED <<life, busVars>>
  BY <1>1, <1>3, SameRoster
<1>4. CASE ReadyFails(e, rest) \/ Delete(e, rest)
  <2>1. e.conn \in Conns
    BY <1>1 DEF Event, Receipt
  <2> QED
    BY <1>1, <1>4, <2>1, DestroyRoster DEF ReadyFails, Delete
<1> QED
  BY <1>2, <1>3, <1>4 DEF HandleLive, Setup, Ready, ReceivePosted

LEMMA InitRoster == Init => RosterInv
<1> SUFFICES ASSUME Init PROVE RosterInv
  OBVIOUS
<1>1. \A t \in Threads : Waiting(t) = {} /\ InOrder(queue[t])
  BY DEF Init, Waiting, Elems, InOrder
<1>2. NewAreApart /\ WiredAreAlive
  BY DEF Init, NewAreApart, WiredAreAlive, New
<1> QED
  BY <1>1, <1>2 DEF RosterInv, AnnouncedAreQueued, QueuesAreInOrder, Threads

-------------------------------------------------------------------------------
(* What is under way.  A queue that owes the living what theirs did. *)
Same(q) ==
  /\ q \in Queues
  /\ \A t \in Threads :
       /\ \A e \in Elems(q[t]) : e.type = "receive" => e \in Waiting(t)
       /\ \A e \in Waiting(t) :
            e.type = "receive" => e \in Elems(q[t]) \/ life[e.conn] = "dead"

LEMMA QueueIsSame ==
  ASSUME TypeOK
  PROVE  Same(queue)
BY DEF TypeOK, Same, Queues, Waiting

LEMMA PostSame ==
  ASSUME NEW q, Same(q), NEW t \in Threads, NEW e \in Event, e.type # "receive"
  PROVE  Same(Post(q, t, e))
<1>1. q \in Queues /\ Post(q, t, e) \in Queues
  BY PostType DEF Same
<1>2. \A u \in Threads : \/ Elems(Post(q, t, e)[u]) = Elems(q[u])
                         \/ Elems(Post(q, t, e)[u]) = Elems(q[u]) \cup {e}
  BY <1>1, PostElems
<1> QED
  BY <1>1, <1>2 DEF Same

LEMMA PostPlainSame ==
  ASSUME NEW q, Same(q), NEW t \in Threads, NEW y \in Plain, NEW c \in Conns
  PROVE  Same(Post(q, t, Plainly(y, c)))
<1>1. Plainly(y, c) \in Event /\ Plainly(y, c).type # "receive"
  BY PlainlyIsAnEvent DEF Plainly, Plain
<1> QED
  BY <1>1, PostSame

LEMMA TakeSame ==
  ASSUME TypeOK, NEW t \in Threads, queue[t] # <<>>,
         Head(queue[t]).type = "receive" => life[Head(queue[t]).conn] = "dead"
  PROVE  Same([queue EXCEPT ![t] = Tail(@)])
<1> DEFINE rest == [queue EXCEPT ![t] = Tail(@)]
<1>1. queue \in Queues
  BY DEF TypeOK, Queues
<1>2. rest \in Queues
  BY <1>1, TakeType
<1>3. \A u \in Threads : /\ Elems(rest[u]) \subseteq Elems(queue[u])
                         /\ Elems(queue[u]) \subseteq {Head(queue[t])} \cup Elems(rest[u])
  BY <1>1, TakeElems
<1> HIDE DEF rest
<1>4. Same(rest)
  BY <1>2, <1>3 DEF Same, Waiting
<1> QED
  BY <1>4 DEF rest

(* A step that ends connections, takes no event but plain ones and those   *)
(* of the dead, and posts plain ones, changes nothing for the living.      *)
LEMMA QuietDelivery ==
  ASSUME TypeOK, DeliveryInv, Same(queue'), UNCHANGED <<msgVars, heard>>,
         \A b \in Conns : life[b] = "dead" => life'[b] = "dead",
         \A a, b \in Conns : b \in wired'[a] => b \in wired[a] /\ life'[b] # "dead",
         \A a, b \in Conns : b \in wired[a] => b \in wired'[a] \/ life'[b] = "dead"
  PROVE  DeliveryInv'
<1>1. /\ \A t \in Threads : \A e \in Waiting(t) :
           e.type = "receive" => e.conn \in Conns /\ e.msg.from \in Conns
      /\ \A a \in Conns : \A e \in emitting[a] : e.conn \in Conns /\ e.msg.from \in Conns
  <2>1. ASSUME NEW t \in Threads, NEW e \in Waiting(t), e.type = "receive"
        PROVE  e.conn \in Conns /\ e.msg.from \in Conns
    <3>1. queue[t] \in Seq(Event)
      BY DEF TypeOK
    <3>2. e \in Event
      BY <3>1 DEF Waiting, Elems
    <3>3. e \in Receipt
      BY <2>1, <3>2 DEF Event, Plain
    <3> QED
      BY <3>3 DEF Receipt, Message
  <2>2. ASSUME NEW a \in Conns, NEW e \in emitting[a]
        PROVE  e.conn \in Conns /\ e.msg.from \in Conns
    BY DEF TypeOK, Receipt, Message
  <2> QED
    BY <2>1, <2>2
<1>2. ASSUME NEW e, e.conn \in Conns, e.msg.from \in Conns, Owed(e)
      PROVE  Owed(e)'
  BY <1>2 DEF Owed, msgVars
<1>3. PostedAreOwed'
  BY <1>1, <1>2 DEF DeliveryInv, PostedAreOwed, Same, Waiting
<1>4. EmissionsAreLast'
  <2> SUFFICES ASSUME NEW a \in Conns, NEW e \in emitting[a]
               PROVE  /\ Owed(e)'
                      /\ e.msg.from = a
                      /\ e.msg.n = sent[a]
                      /\ \A f \in emitting[a] : f.conn = e.conn => f = e
                      /\ \A f \in Waiting(Home(e.conn))' :
                           IsFor(f, a, e.conn) => f.msg.n < e.msg.n
    BY DEF EmissionsAreLast, msgVars
  <2>1. Home(e.conn) \in Threads
    BY <1>1, HomeIsAThread
  <2>2. /\ Owed(e)
        /\ e.msg.from = a
        /\ e.msg.n = sent[a]
        /\ \A f \in emitting[a] : f.conn = e.conn => f = e
        /\ \A f \in Waiting(Home(e.conn)) : IsFor(f, a, e.conn) => f.msg.n < e.msg.n
    BY DEF DeliveryInv, EmissionsAreLast
  <2>3. Owed(e)'
    BY <1>1, <1>2, <2>2
  <2>4. \A f \in Waiting(Home(e.conn))' : IsFor(f, a, e.conn) => f.msg.n < e.msg.n
    BY <2>1, <2>2 DEF Same, Waiting, IsFor
  <2> QED
    BY <2>2, <2>3, <2>4
<1>5. MissingAreOnTheirWay'
  <2> SUFFICES ASSUME NEW a \in Conns, NEW b \in Conns, b \in wired'[a],
                      NEW n \in (heard[b][a] + 1)..sent[a]
               PROVE  \E e \in emitting[a] \cup Waiting(Home(b))' :
                        IsFor(e, a, b) /\ e.msg.n = n
    BY DEF MissingAreOnTheirWay, msgVars
  <2>1. b \in wired[a] /\ life'[b] # "dead" /\ Home(b) \in Threads
    BY HomeIsAThread
  <2>2. PICK e \in emitting[a] \cup Waiting(Home(b)) : IsFor(e, a, b) /\ e.msg.n = n
    BY <2>1 DEF DeliveryInv, MissingAreOnTheirWay
  <2>3. CASE e \in Waiting(Home(b))
    <3>1. e \in Waiting(Home(b))'
      BY <2>1, <2>2, <2>3 DEF Same, Waiting, IsFor
    <3> QED
      BY <2>2, <3>1
  <2> QED
    BY <2>2, <2>3
<1>6. HeardWereSent'
  BY DEF DeliveryInv, HeardWereSent, msgVars
<1> QED
  BY <1>3, <1>4, <1>5, <1>6 DEF DeliveryInv
(* What is under way names connections. *)
LEMMA UnderWayType ==
  ASSUME TypeOK
  PROVE  /\ \A t \in Threads : \A e \in Waiting(t) :
              e.type = "receive" => e \in Receipt /\ e.conn \in Conns /\ e.msg.from \in Conns
         /\ \A a \in Conns : \A e \in emitting[a] :
              /\ e.type = "receive" /\ e \in Receipt
              /\ e.conn \in Conns /\ e.msg.from \in Conns /\ e.msg.n \in Nat
<1>1. ASSUME NEW t \in Threads, NEW e \in Waiting(t), e.type = "receive"
      PROVE  e \in Receipt
  <2>1. queue[t] \in Seq(Event)
    BY DEF TypeOK
  <2>2. e \in Event
    BY <2>1 DEF Waiting, Elems
  <2> QED
    BY <1>1, <2>2 DEF Event, Plain
<1>2. \A a \in Conns : \A e \in emitting[a] : e \in Receipt
  BY DEF TypeOK
<1>3. \A e \in Receipt : /\ e.type = "receive" /\ e.conn \in Conns
                         /\ e.msg.from \in Conns /\ e.msg.n \in Nat
  BY DEF Receipt, Message
<1> QED
  BY <1>1, <1>2, <1>3

LEMMA WireDelivery ==
  ASSUME TypeOK, RosterInv, DeliveryInv, NEW c \in Conns, NEW q, Wire(c, q), Same(q),
         New(c)
  PROVE  DeliveryInv'
<1>1. CASE \E d \in connections \cup {c} : life[d] # "alive"
  <2>1. Same(queue') /\ \A a, b \in Conns : b \in wired[a] => life[b] # "dead"
    BY <1>1, QueueIsSame DEF Wire, Crash, Same, Waiting, RosterInv, WiredAreAlive
  <2> QED
    BY <1>1, <2>1, QuietDelivery DEF Wire, Crash, msgVars
<1>2. CASE ~ \E d \in connections \cup {c} : life[d] # "alive"
  <2>1. /\ wired' = Join(c)
        /\ heard' = [b \in Conns |-> [a \in Conns |->
                       IF (b = c /\ a \in connections) \/ (a = c /\ b \in connections)
                       THEN sent[a] ELSE heard[b][a]]]
        /\ queue' = q
        /\ UNCHANGED <<life, connections, emitting, sent>>
    BY <1>2 DEF Wire, msgVars
  <2>2. /\ wired[c] = {}
        /\ c \notin connections
        /\ \A a \in Conns : c \notin wired[a]
    BY DEF RosterInv, NewAreApart
  <2>3. ASSUME NEW a \in Conns, NEW b \in wired[a]
        PROVE  b \in Conns /\ b \in wired'[a] /\ heard'[b][a] = heard[b][a]
    <3>1. a # c /\ b # c /\ b \in Conns
      BY <2>2, <2>3 DEF TypeOK
    <3> QED
      BY <2>1, <3>1 DEF Join
  <2>4. ASSUME NEW a \in Conns, NEW b \in Conns, b \in wired'[a]
        PROVE  b \in wired[a] \/ heard'[b][a] = sent[a]
    BY <2>1, <2>4 DEF Join
  <2>5. ASSUME NEW e, e.conn \in Conns, e.msg.from \in Conns, Owed(e)
        PROVE  Owed(e)'
    BY <2>1, <2>3, <2>5 DEF Owed
  <2>6. PostedAreOwed'
    BY <2>1, <2>5, UnderWayType DEF DeliveryInv, PostedAreOwed, Same, Waiting
  <2>7. EmissionsAreLast'
    <3> SUFFICES ASSUME NEW a \in Conns, NEW e \in emitting[a]
                 PROVE  /\ Owed(e)'
                        /\ e.msg.from = a
                        /\ e.msg.n = sent[a]
                        /\ \A f \in emitting[a] : f.conn = e.conn => f = e
                        /\ \A f \in Elems(q[Home(e.conn)]) :
                             IsFor(f, a, e.conn) => f.msg.n < e.msg.n
      BY <2>1 DEF EmissionsAreLast, Waiting
    <3>1. Home(e.conn) \in Threads /\ e.conn \in Conns /\ e.msg.from \in Conns
      BY HomeIsAThread, UnderWayType
    <3>2. /\ Owed(e)
          /\ e.msg.from = a
          /\ e.msg.n = sent[a]
          /\ \A f \in emitting[a] : f.conn = e.conn => f = e
          /\ \A f \in Waiting(Home(e.conn)) : IsFor(f, a, e.conn) => f.msg.n < e.msg.n
      BY DEF DeliveryInv, EmissionsAreLast
    <3>3. Owed(e)'
      BY <2>5, <3>1, <3>2
    <3>4. \A f \in Elems(q[Home(e.conn)]) : IsFor(f, a, e.conn) => f.msg.n < e.msg.n
      BY <3>1, <3>2 DEF Same, IsFor
    <3> QED
      BY <3>2, <3>3, <3>4
  <2>8. MissingAreOnTheirWay'
    <3> SUFFICES ASSUME NEW a \in Conns, NEW b \in Conns, b \in wired'[a],
                        NEW n \in (heard'[b][a] + 1)..sent[a]
                 PROVE  \E e \in emitting[a] \cup Elems(q[Home(b)]) :
                          IsFor(e, a, b) /\ e.msg.n = n
      BY <2>1 DEF MissingAreOnTheirWay, Waiting
    <3>1. b \in wired[a] /\ heard'[b][a] = heard[b][a]
      <4>1. heard'[b][a] # sent[a]
        BY DEF TypeOK
      <4> QED
        BY <2>3, <2>4, <4>1
    <3>2. life[b] = "alive" /\ Home(b) \in Threads
      BY <3>1, HomeIsAThread DEF RosterInv, WiredAreAlive
    <3>3. PICK e \in emitting[a] \cup Waiting(Home(b)) : IsFor(e, a, b) /\ e.msg.n = n
      BY <3>1 DEF DeliveryInv, MissingAreOnTheirWay
    <3> QED
      BY <3>2, <3>3 DEF Same, IsFor
  <2>9. HeardWereSent'
    BY <2>1 DEF DeliveryInv, HeardWereSent, TypeOK
  <2> QED
    BY <2>6, <2>7, <2>8, <2>9 DEF DeliveryInv
<1> QED
  BY <1>1, <1>2

(* A broadcast owes one call to every connection that it is joined to. *)
LEMMA BroadcastDelivery ==
  ASSUME TypeOK, RosterInv, DeliveryInv, NEW c \in Conns, NEW ch \in Channels,
         Broadcast(c, ch)
  PROVE  DeliveryInv'
<1> DEFINE m == [from |-> c, channel |-> ch, n |-> sent[c] + 1]
           owed == {[type |-> "receive", conn |-> d, msg |-> m] : d \in wired[c]}
<1>1. /\ emitting[c] = {}
      /\ sent' = [sent EXCEPT ![c] = sent[c] + 1]
      /\ emitting' = [emitting EXCEPT ![c] = owed]
      /\ UNCHANGED <<life, queue, heard, wired>>
  BY DEF Broadcast, Running, Free, busVars
<1>2. \A e \in owed : /\ e.type = "receive" /\ e.conn \in wired[c]
                      /\ e.msg.from = c /\ e.msg.n = sent[c] + 1
  OBVIOUS
<1>3. ASSUME NEW d \in wired[c]
      PROVE  \E e \in owed : e.type = "receive" /\ e.conn = d /\ e.msg = m
  <2> DEFINE e == [type |-> "receive", conn |-> d, msg |-> m]
  <2>1. e \in owed
    OBVIOUS
  <2>2. e.type = "receive" /\ e.conn = d /\ e.msg = m
    OBVIOUS
  <2> QED
    BY <2>1, <2>2
<1>4. \A e, f \in owed : f.conn = e.conn => f = e
  OBVIOUS
<1>5. m.from = c /\ m.n = sent[c] + 1
  OBVIOUS
<1> HIDE DEF owed, m
<1>6. /\ emitting'[c] = owed /\ sent'[c] = sent[c] + 1
      /\ \A a \in Conns \ {c} : emitting'[a] = emitting[a] /\ sent'[a] = sent[a]
      /\ \A a \in Conns : sent[a] \in Nat /\ sent[a] <= sent'[a]
  BY <1>1 DEF TypeOK
<1>7. ASSUME NEW e, e.conn \in Conns, e.msg.from \in Conns, e.msg.n \in Nat, Owed(e)
      PROVE  Owed(e)'
  BY <1>1, <1>6, <1>7 DEF Owed
<1>8. PostedAreOwed'
  <2> SUFFICES ASSUME NEW t \in Threads, NEW e \in Waiting(t), e.type = "receive"
               PROVE  Owed(e)' /\ Home(e.conn) = t /\ Home(e.msg.from) # t
    BY <1>1 DEF PostedAreOwed, Waiting
  <2>1. e.conn \in Conns /\ e.msg.from \in Conns /\ e.msg.n \in Nat
    BY UnderWayType DEF Receipt, Message
  <2> QED
    BY <1>7, <2>1 DEF DeliveryInv, PostedAreOwed
<1>9. EmissionsAreLast'
  <2> SUFFICES ASSUME NEW a \in Conns, NEW e \in emitting'[a]
               PROVE  /\ Owed(e)'
                      /\ e.msg.from = a
                      /\ e.msg.n = sent'[a]
                      /\ \A f \in emitting'[a] : f.conn = e.conn => f = e
                      /\ \A f \in Waiting(Home(e.conn)) :
                           IsFor(f, a, e.conn) => f.msg.n < e.msg.n
    BY <1>1 DEF EmissionsAreLast, Waiting
  <2>1. CASE a # c
    <3>1. e \in emitting[a]
      BY <1>6, <2>1
    <3>2. e.conn \in Conns /\ e.msg.from \in Conns /\ e.msg.n \in Nat
      BY <3>1, UnderWayType
    <3>3. /\ Owed(e)
          /\ e.msg.from = a
          /\ e.msg.n = sent[a]
          /\ \A f \in emitting[a] : f.conn = e.conn => f = e
          /\ \A f \in Waiting(Home(e.conn)) : IsFor(f, a, e.conn) => f.msg.n < e.msg.n
      BY <3>1 DEF DeliveryInv, EmissionsAreLast
    <3> QED
      BY <1>6, <1>7, <2>1, <3>2, <3>3
  <2>2. CASE a = c
    <3>1. e \in owed /\ e.conn \in wired[c] /\ e.msg.from = c /\ e.msg.n = sent[c] + 1
      BY <1>2, <1>6, <2>2
    <3>2. e.conn \in Conns /\ Home(e.conn) \in Threads
      BY <3>1, HomeIsAThread DEF TypeOK
    <3>3. heard[e.conn][c] <= sent[c] /\ heard[e.conn][c] \in Nat
      BY <3>2 DEF DeliveryInv, HeardWereSent, TypeOK
    <3>4. Owed(e)'
      BY <1>1, <1>6, <3>1, <3>3 DEF Owed
    <3>5. ASSUME NEW f \in Waiting(Home(e.conn)), IsFor(f, a, e.conn)
          PROVE  f.msg.n < e.msg.n
      <4>1. f.type = "receive" /\ f.conn = e.conn /\ f.msg.from = c /\ f.msg.n \in Nat
        BY <2>2, <3>2, <3>5, UnderWayType DEF IsFor, Receipt, Message
      <4>2. Owed(f)
        BY <3>2, <4>1 DEF DeliveryInv, PostedAreOwed
      <4>3. life[e.conn] = "alive"
        BY <3>1 DEF RosterInv, WiredAreAlive
      <4>4. f.msg.n <= sent[c]
        BY <4>1, <4>2, <4>3 DEF Owed
      <4> QED
        BY <1>6, <3>1, <4>1, <4>4
    <3> QED
      BY <1>4, <1>6, <2>2, <3>1, <3>4, <3>5
  <2> QED
    BY <2>1, <2>2
<1>10. MissingAreOnTheirWay'
  <2> SUFFICES ASSUME NEW a \in Conns, NEW b \in Conns, b \in wired[a],
                      NEW n \in (heard[b][a] + 1)..sent'[a]
               PROVE  \E e \in emitting'[a] \cup Waiting(Home(b)) :
                        IsFor(e, a, b) /\ e.msg.n = n
    BY <1>1 DEF MissingAreOnTheirWay, Waiting
  <2>1. CASE a = c /\ n = sent[c] + 1
    BY <1>3, <1>5, <1>6, <2>1 DEF IsFor
  <2>2. CASE ~(a = c /\ n = sent[c] + 1)
    <3>1. n \in (heard[b][a] + 1)..sent[a]
      BY <1>6, <2>2 DEF TypeOK
    <3>2. PICK e \in emitting[a] \cup Waiting(Home(b)) : IsFor(e, a, b) /\ e.msg.n = n
      BY <3>1 DEF DeliveryInv, MissingAreOnTheirWay
    <3> QED
      BY <1>1, <1>6, <3>2
  <2> QED
    BY <2>1, <2>2
<1>11. HeardWereSent'
  <2> SUFFICES ASSUME NEW a \in Conns, NEW b \in Conns
               PROVE  heard[b][a] <= sent'[a]
    BY <1>1 DEF HeardWereSent
  <2>1. heard[b][a] <= sent[a]
    BY DEF DeliveryInv, HeardWereSent
  <2>2. heard[b][a] \in Nat /\ sent[a] \in Nat /\ sent'[a] \in Nat /\ sent[a] <= sent'[a]
    BY <1>1, <1>6 DEF TypeOK
  <2> QED
    BY <2>1, <2>2
<1> QED
  BY <1>8, <1>9, <1>10, <1>11 DEF DeliveryInv
(* receive() is called directly, posted, or skipped for a dead receiver. *)
LEMMA EmissionFacts ==
  ASSUME TypeOK, RosterInv, DeliveryInv, NEW c \in Conns, NEW e \in emitting[c]
  PROVE  /\ e \in Receipt /\ e \in Event /\ e.type = "receive"
         /\ e.conn \in Conns /\ Home(e.conn) \in Threads
         /\ e.msg.from = c /\ e.msg.n = sent[c] /\ e.msg.n \in Nat
         /\ Owed(e)
         /\ life[e.conn] # "alive" => life[e.conn] = "dead"
<1>1. /\ e \in Receipt /\ e.type = "receive" /\ e.conn \in Conns /\ e.msg.n \in Nat
  BY UnderWayType
<1>2. e \in Event
  BY <1>1 DEF Event
<1>3. e.msg.from = c /\ e.msg.n = sent[c] /\ Owed(e)
  BY DEF DeliveryInv, EmissionsAreLast
<1>4. life[e.conn] # "alive" => life[e.conn] = "dead"
  BY <1>1, <1>3 DEF Owed, RosterInv, WiredAreAlive
<1> QED
  BY <1>1, <1>2, <1>3, <1>4, HomeIsAThread

LEMMA DeliverDelivery ==
  ASSUME TypeOK, RosterInv, DeliveryInv, NEW c \in Conns, NEW e \in emitting[c],
         Deliver(c, e)
  PROVE  DeliveryInv'
<1>0. /\ e \in Receipt /\ e \in Event /\ e.type = "receive"
      /\ e.conn \in Conns /\ Home(e.conn) \in Threads
      /\ e.msg.from = c /\ e.msg.n = sent[c] /\ e.msg.n \in Nat
      /\ Owed(e)
      /\ life[e.conn] # "alive" => life[e.conn] = "dead"
  BY EmissionFacts
<1>1. /\ emitting'[c] = emitting[c] \ {e}
      /\ \A a \in Conns \ {c} : emitting'[a] = emitting[a]
      /\ \A a \in Conns : emitting'[a] \subseteq emitting[a]
      /\ UNCHANGED <<life, sent, wired>>
  BY DEF Deliver, TypeOK, busVars
<1>2. \A a \in Conns : \A x \in emitting[a] :
        /\ x.type = "receive" /\ x.conn \in Conns /\ x.msg.from = a
        /\ Home(x.conn) \in Threads /\ Owed(x) /\ x.msg.n = sent[a]
        /\ \A f \in emitting[a] : f.conn = x.conn => f = x
        /\ \A f \in Waiting(Home(x.conn)) : IsFor(f, a, x.conn) => f.msg.n < x.msg.n
  BY UnderWayType, HomeIsAThread DEF DeliveryInv, EmissionsAreLast
<1>3. ASSUME NEW a \in Conns, NEW x \in emitting'[a]
      PROVE  x \in emitting[a] /\ ~(a = c /\ x.conn = e.conn)
  BY <1>1, <1>2, <1>3
<1>4. ASSUME NEW a \in Conns, NEW b \in Conns, b \in wired[a],
             NEW n \in (heard[b][a] + 1)..sent[a]
      PROVE  \E x \in emitting[a] \cup Waiting(Home(b)) : IsFor(x, a, b) /\ x.msg.n = n
  BY <1>4 DEF DeliveryInv, MissingAreOnTheirWay
<1>5. \A t \in Threads : \A x \in Waiting(t) : x.type = "receive" =>
        /\ x.conn \in Conns /\ x.msg.from \in Conns
        /\ Owed(x) /\ Home(x.conn) = t /\ Home(x.msg.from) # t
  BY UnderWayType DEF DeliveryInv, PostedAreOwed
<1>6. CASE life[e.conn] # "alive" /\ UNCHANGED <<queue, heard>>
  <2>1. PostedAreOwed'
    BY <1>1, <1>6 DEF DeliveryInv, PostedAreOwed, Owed, Waiting
  <2>2. EmissionsAreLast'
    BY <1>1, <1>6 DEF DeliveryInv, EmissionsAreLast, Owed, Waiting
  <2>3. MissingAreOnTheirWay'
    <3> SUFFICES ASSUME NEW a \in Conns, NEW b \in Conns, b \in wired[a],
                        NEW n \in (heard[b][a] + 1)..sent[a]
                 PROVE  \E x \in emitting'[a] \cup Waiting(Home(b)) :
                          IsFor(x, a, b) /\ x.msg.n = n
      BY <1>1, <1>6 DEF MissingAreOnTheirWay, Waiting
    <3>1. PICK x \in emitting[a] \cup Waiting(Home(b)) : IsFor(x, a, b) /\ x.msg.n = n
      BY <1>4
    <3>2. life[b] = "alive"
      BY DEF RosterInv, WiredAreAlive
    <3>3. x \in emitting[a] => x \in emitting'[a]
      BY <1>1, <1>6, <3>1, <3>2 DEF IsFor
    <3> QED
      BY <3>1, <3>3
  <2> QED
    BY <1>1, <1>6, <2>1, <2>2, <2>3 DEF DeliveryInv, HeardWereSent
<1>7. CASE life[e.conn] = "alive" /\ Home(e.conn) = Home(c) /\ Receive(e) /\ UNCHANGED queue
  <2>1. heard'[e.conn][c] = sent[c]
    BY <1>0, <1>7 DEF Receive, TypeOK
  <2>2. \A a, b \in Conns : a # c \/ b # e.conn => heard'[b][a] = heard[b][a]
    BY <1>0, <1>7 DEF Receive, TypeOK
  <2>3. ASSUME NEW x, x.conn \in Conns, x.msg.from \in Conns, Owed(x),
               x.conn # e.conn \/ x.msg.from # c
        PROVE  Owed(x)'
    BY <1>1, <2>2, <2>3 DEF Owed
  <2>4. PostedAreOwed'
    <3> SUFFICES ASSUME NEW t \in Threads, NEW x \in Waiting(t), x.type = "receive"
                 PROVE  Owed(x)' /\ Home(x.conn) = t /\ Home(x.msg.from) # t
      BY <1>7 DEF PostedAreOwed, Waiting
    <3> QED
      BY <1>5, <1>7, <2>3
  <2>5. EmissionsAreLast'
    <3> SUFFICES ASSUME NEW a \in Conns, NEW x \in emitting'[a]
                 PROVE  /\ Owed(x)'
                        /\ x.msg.from = a
                        /\ x.msg.n = sent[a]
                        /\ \A f \in emitting'[a] : f.conn = x.conn => f = x
                        /\ \A f \in Waiting(Home(x.conn)) :
                             IsFor(f, a, x.conn) => f.msg.n < x.msg.n
      BY <1>1, <1>7 DEF EmissionsAreLast, Waiting
    <3> QED
      BY <1>1, <1>2, <1>3, <2>3
  <2>6. MissingAreOnTheirWay'
    <3> SUFFICES ASSUME NEW a \in Conns, NEW b \in Conns, b \in wired[a],
                        NEW n \in (heard'[b][a] + 1)..sent[a]
                 PROVE  \E x \in emitting'[a] \cup Waiting(Home(b)) :
                          IsFor(x, a, b) /\ x.msg.n = n
      BY <1>1, <1>7 DEF MissingAreOnTheirWay, Waiting
    <3>1. a # c \/ b # e.conn
      BY <2>1 DEF TypeOK
    <3>2. PICK x \in emitting[a] \cup Waiting(Home(b)) : IsFor(x, a, b) /\ x.msg.n = n
      BY <1>4, <2>2, <3>1
    <3>3. x \in emitting[a] => x \in emitting'[a]
      BY <1>1, <3>1, <3>2 DEF IsFor
    <3> QED
      BY <3>2, <3>3
  <2>7. HeardWereSent'
    <3> SUFFICES ASSUME NEW a \in Conns, NEW b \in Conns
                 PROVE  heard'[b][a] <= sent[a]
      BY <1>1 DEF HeardWereSent
    <3>1. heard[b][a] <= sent[a] /\ sent[a] \in Nat
      BY DEF DeliveryInv, HeardWereSent, TypeOK
    <3> QED
      BY <2>1, <2>2, <3>1
  <2> QED
    BY <2>4, <2>5, <2>6, <2>7 DEF DeliveryInv
<1>8. CASE /\ life[e.conn] = "alive" /\ Home(e.conn) # Home(c)
           /\ queue' = Post(queue, Home(e.conn), e) /\ UNCHANGED heard
  <2>1. /\ \A t \in Threads : Waiting(t)' \subseteq Waiting(t) \cup {e}
        /\ \A t \in Threads : Waiting(t) \subseteq Waiting(t)'
        /\ \A t \in Threads : t # Home(e.conn) => Waiting(t)' = Waiting(t)
        /\ e \in Waiting(Home(e.conn))'
    <3>1. queue \in Queues
      BY DEF TypeOK, Queues
    <3>2. \A t \in Threads :
            /\ t = Home(e.conn) => Waiting(t)' = Waiting(t) \cup {e}
            /\ t # Home(e.conn) => Waiting(t)' = Waiting(t)
      BY <1>0, <1>8, <3>1, PostElems DEF Waiting
    <3> QED
      BY <1>0, <3>2
  <2>2. ASSUME NEW x, Owed(x)
        PROVE  Owed(x)'
    BY <1>1, <1>8, <2>2 DEF Owed
  <2>3. PostedAreOwed'
    <3> SUFFICES ASSUME NEW t \in Threads, NEW x \in Waiting(t)', x.type = "receive"
                 PROVE  Owed(x)' /\ Home(x.conn) = t /\ Home(x.msg.from) # t
      BY DEF PostedAreOwed
    <3>1. CASE x \in Waiting(t)
      BY <1>5, <2>2, <3>1
    <3>2. CASE x = e /\ t = Home(e.conn)
      BY <1>0, <1>8, <2>2, <3>2
    <3> QED
      BY <2>1, <3>1, <3>2
  <2>4. EmissionsAreLast'
    <3> SUFFICES ASSUME NEW a \in Conns, NEW x \in emitting'[a]
                 PROVE  /\ Owed(x)'
                        /\ x.msg.from = a
                        /\ x.msg.n = sent[a]
                        /\ \A f \in emitting'[a] : f.conn = x.conn => f = x
                        /\ \A f \in Waiting(Home(x.conn))' :
                             IsFor(f, a, x.conn) => f.msg.n < x.msg.n
      BY <1>1 DEF EmissionsAreLast
    <3>1. x \in emitting[a] /\ ~(a = c /\ x.conn = e.conn)
      BY <1>3
    <3>2. ~IsFor(e, a, x.conn)
      BY <1>0, <3>1 DEF IsFor
    <3>3. Home(x.conn) \in Threads
      BY <1>2, <3>1
    <3>4. \A f \in Waiting(Home(x.conn))' : IsFor(f, a, x.conn) => f.msg.n < x.msg.n
      BY <1>2, <2>1, <3>1, <3>2, <3>3
    <3> QED
      BY <1>1, <1>2, <2>2, <3>1, <3>4
  <2>5. MissingAreOnTheirWay'
    <3> SUFFICES ASSUME NEW a \in Conns, NEW b \in Conns, b \in wired[a],
                        NEW n \in (heard[b][a] + 1)..sent[a]
                 PROVE  \E x \in emitting'[a] \cup Waiting(Home(b))' :
                          IsFor(x, a, b) /\ x.msg.n = n
      BY <1>1, <1>8 DEF MissingAreOnTheirWay
    <3>1. PICK x \in emitting[a] \cup Waiting(Home(b)) : IsFor(x, a, b) /\ x.msg.n = n
      BY <1>4
    <3>2. CASE x = e
      BY <2>1, <3>1, <3>2 DEF IsFor
    <3>3. CASE x # e
      BY <1>1, <2>1, <3>1, <3>3, HomeIsAThread
    <3> QED
      BY <3>2, <3>3
  <2> QED
    BY <1>1, <1>8, <2>3, <2>4, <2>5 DEF DeliveryInv, HeardWereSent
<1> QED
  BY <1>6, <1>7, <1>8 DEF Deliver, PostMessage
(* A posted receive() runs: it is the first event of its thread. *)
LEMMA ReceiptFacts ==
  ASSUME TypeOK, ThreadInv, RosterInv, DeliveryInv, NEW t \in Threads \ {Main},
         queue[t] # <<>>, NEW e, e = Head(queue[t]), e.type = "receive",
         life[e.conn] = "alive"
  PROVE  /\ e \in Waiting(t) /\ e.conn \in Conns /\ e.msg.from \in Conns
         /\ e.msg.n \in Nat
         /\ Home(e.conn) = t
         /\ e.conn \in wired[e.msg.from]
         /\ heard[e.conn][e.msg.from] < e.msg.n
         /\ e.msg.n <= sent[e.msg.from]
         /\ \A x \in Elems(Tail(queue[t])) : Follows(e, x)
         /\ Waiting(t) = {e} \cup Elems(Tail(queue[t]))
<1>1. queue[t] \in Seq(Event) /\ queue \in Queues
  BY DEF TypeOK, Queues
<1>2. Waiting(t) = {e} \cup Elems(Tail(queue[t]))
  BY <1>1, TailElems DEF Waiting
<1>3. \A x \in Elems(Tail(queue[t])) : Follows(e, x)
  BY <1>1, TakeInOrder DEF RosterInv, QueuesAreInOrder, Orderly
<1>4. e \in Waiting(t)
  BY <1>2
<1>5. e \in Receipt /\ e.conn \in Conns /\ e.msg.from \in Conns
  BY <1>4, UnderWayType
<1>6. e.msg.n \in Nat
  BY <1>5 DEF Receipt, Message
<1>7. Home(e.conn) = t
  BY <1>4 DEF ThreadInv, EventsAreAtHome
<1>8. Owed(e)
  BY <1>4 DEF DeliveryInv, PostedAreOwed
<1>9. /\ e.conn \in wired[e.msg.from]
      /\ heard[e.conn][e.msg.from] < e.msg.n
      /\ e.msg.n <= sent[e.msg.from]
  BY <1>8 DEF Owed
<1> QED
  BY <1>2, <1>3, <1>4, <1>5, <1>6, <1>7, <1>9

LEMMA ReceiveDelivery ==
  ASSUME TypeOK, ThreadInv, RosterInv, DeliveryInv, NEW t \in Threads \ {Main},
         queue[t] # <<>>, NEW e, e = Head(queue[t]), life[e.conn] = "alive",
         ReceivePosted(e, [queue EXCEPT ![t] = Tail(@)])
  PROVE  DeliveryInv'
<1> DEFINE b == e.conn
           a == e.msg.from
<1>0. e.type = "receive"
  BY DEF ReceivePosted
<1>1. /\ e \in Waiting(t) /\ b \in Conns /\ a \in Conns
      /\ e.msg.n \in Nat
      /\ Home(b) = t
      /\ b \in wired[a]
      /\ heard[b][a] < e.msg.n
      /\ e.msg.n <= sent[a]
      /\ \A x \in Elems(Tail(queue[t])) : Follows(e, x)
      /\ Waiting(t) = {e} \cup Elems(Tail(queue[t]))
  BY <1>0, ReceiptFacts
<1>2. /\ heard' = [heard EXCEPT ![b][a] = e.msg.n]
      /\ queue' = [queue EXCEPT ![t] = Tail(@)]
      /\ UNCHANGED <<life, emitting, sent, wired>>
  BY DEF ReceivePosted, Receive, busVars, msgVars
<1> HIDE DEF b, a
<1>3. /\ heard'[b][a] = e.msg.n
      /\ \A x, y \in Conns : x # a \/ y # b => heard'[y][x] = heard[y][x]
  BY <1>1, <1>2 DEF TypeOK
<1>4. /\ Waiting(t)' = Elems(Tail(queue[t]))
      /\ \A u \in Threads : Waiting(u)' \subseteq Waiting(u)
      /\ \A u \in Threads \ {t} : Waiting(u)' = Waiting(u)
  BY <1>1, <1>2 DEF Waiting, TypeOK
<1>5. ASSUME NEW x, x.type = "receive", x.conn \in Conns, x.msg.from \in Conns, Owed(x),
             IsFor(x, a, b) => e.msg.n < x.msg.n
      PROVE  Owed(x)'
  <2>1. CASE IsFor(x, a, b)
    BY <1>2, <1>3, <1>5, <2>1 DEF Owed, IsFor
  <2>2. CASE ~IsFor(x, a, b)
    BY <1>2, <1>3, <1>5, <2>2 DEF Owed, IsFor
  <2> QED
    BY <2>1, <2>2
<1>6. PostedAreOwed'
  <2> SUFFICES ASSUME NEW u \in Threads, NEW x \in Waiting(u)', x.type = "receive"
               PROVE  Owed(x)' /\ Home(x.conn) = u /\ Home(x.msg.from) # u
    BY DEF PostedAreOwed
  <2>1. x \in Waiting(u)
    BY <1>4
  <2>2. /\ x.conn \in Conns /\ x.msg.from \in Conns
        /\ Owed(x) /\ Home(x.conn) = u /\ Home(x.msg.from) # u
    <3>1. x.conn \in Conns /\ x.msg.from \in Conns
      BY <2>1, UnderWayType
    <3>2. Owed(x) /\ Home(x.conn) = u /\ Home(x.msg.from) # u
      BY <2>1 DEF DeliveryInv, PostedAreOwed
    <3> QED
      BY <3>1, <3>2
  <2>3. ASSUME IsFor(x, a, b)
        PROVE  e.msg.n < x.msg.n
    <3>1. u = t
      BY <1>1, <2>2, <2>3 DEF IsFor
    <3> QED
      BY <1>0, <1>1, <1>4, <2>3, <3>1 DEF Follows, a, b
  <2> QED
    BY <1>5, <2>2, <2>3
<1>7. EmissionsAreLast'
  <2> SUFFICES ASSUME NEW c \in Conns, NEW x \in emitting[c]
               PROVE  /\ Owed(x)'
                      /\ x.msg.from = c
                      /\ x.msg.n = sent[c]
                      /\ \A f \in emitting[c] : f.conn = x.conn => f = x
                      /\ \A f \in Waiting(Home(x.conn))' :
                           IsFor(f, c, x.conn) => f.msg.n < x.msg.n
    BY <1>2 DEF EmissionsAreLast
  <2>1. x.type = "receive" /\ x.conn \in Conns /\ Home(x.conn) \in Threads
    BY UnderWayType, HomeIsAThread
  <2>2. /\ Owed(x)
        /\ x.msg.from = c
        /\ x.msg.n = sent[c]
        /\ \A f \in emitting[c] : f.conn = x.conn => f = x
        /\ \A f \in Waiting(Home(x.conn)) : IsFor(f, c, x.conn) => f.msg.n < x.msg.n
    BY DEF DeliveryInv, EmissionsAreLast
  <2>3. ASSUME IsFor(x, a, b)
        PROVE  e.msg.n < x.msg.n
    <3>1. c = a /\ x.conn = b /\ IsFor(e, c, x.conn)
      BY <1>0, <2>2, <2>3 DEF IsFor, a, b
    <3> QED
      BY <1>1, <2>2, <3>1
  <2>4. Owed(x)'
    BY <1>5, <2>1, <2>2, <2>3
  <2> QED
    BY <1>4, <2>1, <2>2, <2>4
<1>8. MissingAreOnTheirWay'
  <2> SUFFICES ASSUME NEW c \in Conns, NEW d \in Conns, d \in wired[c],
                      NEW n \in (heard'[d][c] + 1)..sent[c]
               PROVE  \E x \in emitting[c] \cup Waiting(Home(d))' :
                        IsFor(x, c, d) /\ x.msg.n = n
    BY <1>2 DEF MissingAreOnTheirWay
  <2>0. heard[d][c] \in Nat /\ heard[b][a] \in Nat /\ sent[c] \in Nat
    BY <1>1 DEF TypeOK
  <2>1. n \in (heard[d][c] + 1)..sent[c] /\ (c = a /\ d = b => n # e.msg.n)
    <3>1. CASE c = a /\ d = b
      BY <1>1, <1>3, <2>0, <3>1
    <3>2. CASE ~(c = a /\ d = b)
      BY <1>3, <2>0, <3>2
    <3> QED
      BY <3>1, <3>2
  <2>2. PICK x \in emitting[c] \cup Waiting(Home(d)) : IsFor(x, c, d) /\ x.msg.n = n
    BY <2>1 DEF DeliveryInv, MissingAreOnTheirWay
  <2>3. x # e
    BY <2>1, <2>2 DEF IsFor, a, b
  <2>4. CASE x \in emitting[c]
    BY <2>2, <2>4
  <2>5. CASE x \in Waiting(Home(d))
    <3>1. Home(d) \in Threads
      BY HomeIsAThread
    <3>2. x \in Waiting(Home(d))'
      BY <1>1, <1>4, <2>3, <2>5, <3>1
    <3> QED
      BY <2>2, <3>2
  <2> QED
    BY <2>2, <2>4, <2>5
<1>9. HeardWereSent'
  <2> SUFFICES ASSUME NEW x \in Conns, NEW y \in Conns
               PROVE  heard'[y][x] <= sent[x]
    BY <1>2 DEF HeardWereSent
  <2> QED
    BY <1>1, <1>3 DEF DeliveryInv, HeardWereSent
<1> QED
  BY <1>6, <1>7, <1>8, <1>9 DEF DeliveryInv
(* The rest of the bus does not touch what is under way to the living. *)
LEMMA NobodyWired ==
  ASSUME TypeOK, RosterInv, DeliveryInv, Same(queue'), UNCHANGED <<msgVars, heard, wired>>,
         \A b \in Conns : life[b] # "none" => life'[b] = life[b]
  PROVE  DeliveryInv'
<1>1. \A a, b \in Conns : b \in wired[a] => life[b] = "alive"
  BY DEF RosterInv, WiredAreAlive
<1> QED
  BY <1>1, QuietDelivery

LEMMA DestroyDelivery ==
  ASSUME TypeOK, RosterInv, DeliveryInv, NEW c \in Conns, NEW q, Same(q), Destroy(c, q)
  PROVE  DeliveryInv'
<1>1. /\ life' = [life EXCEPT ![c] = "dead"]
      /\ wired' = [a \in Conns |-> wired[a] \ {c}]
      /\ queue' = Post(q, Main, Plainly("gone", c)) \/ queue' = q
      /\ UNCHANGED <<msgVars, heard>>
  BY DEF Destroy
<1>2. Same(Post(q, Main, Plainly("gone", c)))
  BY PostPlainSame DEF Plain, Threads
<1>3. Same(queue')
  BY <1>1, <1>2
<1>4. ASSUME NEW a \in Conns, NEW b \in Conns
      PROVE  /\ life[b] = "dead" => life'[b] = "dead"
             /\ b \in wired'[a] => b \in wired[a] /\ life'[b] # "dead"
             /\ b \in wired[a] => b \in wired'[a] \/ life'[b] = "dead"
  BY <1>1 DEF RosterInv, WiredAreAlive, TypeOK
<1> QED
  BY <1>1, <1>3, <1>4, QuietDelivery

LEMMA RegistrationDelivery ==
  ASSUME TypeOK, RosterInv, DeliveryInv, NEW c \in Conns,
         (c \in Plugins /\ StartPlugin(c)) \/ MainStep(c) \/ AppendConnection(c)
  PROVE  DeliveryInv'
<1>0. Main \in Threads /\ Same(queue) /\ queue \in Queues
  BY QueueIsSame DEF Threads, Same
<1>1. CASE StartPlugin(c)
  BY <1>0, <1>1, WireDelivery DEF StartPlugin, New
<1>2. CASE RegisterQueued(c)
  <2> DEFINE rest == [queue EXCEPT ![Main] = Tail(@)]
  <2>1. queue[Main] # <<>> /\ Head(queue[Main]) = Plainly("register", c) /\ Wire(c, rest)
    BY <1>2 DEF RegisterQueued
  <2>2. Plainly("register", c) \in Waiting(Main)
    BY <1>0, <2>1, TailElems DEF Queues, Waiting
  <2>3. New(c)
    BY <2>2 DEF RosterInv, AnnouncedAreQueued, New, Plainly
  <2>4. Head(queue[Main]).type # "receive"
    BY <2>1 DEF Plainly
  <2>5. Same(rest)
    BY <1>0, <2>1, <2>4, TakeSame
  <2> HIDE DEF rest
  <2> QED
    BY <2>1, <2>3, <2>5, WireDelivery
<1>3. CASE ConnectionDestroyed(c)
  <2>1. queue[Main] # <<>> /\ Head(queue[Main]) = Plainly("gone", c)
    BY <1>3 DEF ConnectionDestroyed
  <2>2. Head(queue[Main]).type # "receive"
    BY <2>1 DEF Plainly
  <2>3. Same(queue')
    BY <1>0, <1>3, <2>1, <2>2, TakeSame DEF ConnectionDestroyed
  <2> QED
    BY <1>3, <2>3, NobodyWired DEF ConnectionDestroyed
<1>4. CASE AppendConnection(c) /\ life[c] # "alive"
  <2>1. Same(queue')
    BY <1>0, <1>4 DEF AppendConnection, Crash, Same, Waiting
  <2> QED
    BY <1>4, <2>1, NobodyWired DEF AppendConnection, Crash, msgVars
<1>5. CASE AppendConnection(c) /\ life[c] = "alive"
  <2>1. Same(queue')
    BY <1>0, <1>5, PostPlainSame, HomeIsAThread DEF AppendConnection, Plain
  <2> QED
    BY <1>5, <2>1, NobodyWired DEF AppendConnection
<1> QED
  BY <1>1, <1>2, <1>3, <1>4, <1>5 DEF MainStep

LEMMA MessageDelivery ==
  ASSUME TypeOK, RosterInv, DeliveryInv, NEW c \in Conns,
         \/ \E ch \in Channels : Broadcast(c, ch) \/ Subscribe(c, ch)
         \/ \E v \in BOOLEAN : SetMonitor(c, v)
         \/ \E e \in emitting[c] : Deliver(c, e)
  PROVE  DeliveryInv'
<1>1. CASE UNCHANGED <<life, queue, busVars, msgVars, heard>>
  <2>1. Same(queue')
    BY <1>1, QueueIsSame DEF Same, Waiting
  <2> QED
    BY <1>1, <2>1, NobodyWired DEF busVars
<1> QED
  BY <1>1, BroadcastDelivery, DeliverDelivery DEF Subscribe, SetMonitor

LEMMA LifeDelivery ==
  ASSUME TypeOK, RosterInv, DeliveryInv, NEW c \in Conns,
         \/ Create(c)
         \/ c \in Clients /\ Disconnect(c)
         \/ c \in Parts /\ (DeletePart(c) \/ DeletePartLater(c))
  PROVE  DeliveryInv'
<1>0. Same(queue) /\ Home(c) \in Threads /\ Clients \subseteq Threads /\ Main \in Threads
  BY QueueIsSame, HomeIsAThread DEF Threads
<1>1. CASE Create(c)
  <2>1. Same(Announce(c))
    <3> DEFINE q == IF c \in Clients THEN Post(queue, c, Plainly("setup", c)) ELSE queue
    <3>1. Same(q)
      BY <1>0, PostPlainSame DEF Plain
    <3> HIDE DEF q
    <3>2. Same(Post(q, Main, Plainly("register", c)))
      BY <1>0, <3>1, PostPlainSame DEF Plain
    <3> QED
      BY <3>2 DEF Announce, q
  <2>2. \A b \in Conns : life[b] # "none" => life'[b] = life[b]
    BY <1>1 DEF Create, TypeOK
  <2>3. Same(queue') /\ UNCHANGED <<msgVars, heard, wired>>
    BY <1>1, <2>1 DEF Create
  <2> QED
    BY <2>2, <2>3, NobodyWired
<1>2. CASE c \in Clients /\ Disconnect(c)
  <2>1. Same(queue')
    BY <1>0, <1>2, PostPlainSame DEF Disconnect, Plain
  <2> QED
    BY <1>2, <2>1, NobodyWired DEF Disconnect, busVars
<1>3. CASE DeletePart(c)
  BY <1>0, <1>3, DestroyDelivery DEF DeletePart
<1>4. CASE DeletePartLater(c)
  <2>1. Same(queue')
    BY <1>0, <1>4, PostPlainSame DEF DeletePartLater, Plain
  <2> QED
    BY <1>4, <2>1, NobodyWired DEF DeletePartLater, busVars
<1> QED
  BY <1>1, <1>2, <1>3, <1>4

LEMMA HandleDelivery ==
  ASSUME TypeOK, ThreadInv, RosterInv, DeliveryInv, NEW t \in Threads \ {Main}, Handle(t)
  PROVE  DeliveryInv'
<1> DEFINE e == Head(queue[t])
           rest == [queue EXCEPT ![t] = Tail(@)]
<1>1. queue[t] # <<>> /\ e \in Event
  BY TakeType DEF Handle, TypeOK, Queues
<1>2. e.type = "receive" /\ life[e.conn] = "dead" => Same(rest)
  BY <1>1, TakeSame
<1>3. e.type # "receive" => Same(rest)
  BY <1>1, TakeSame
<1>4. \/ /\ life[e.conn] = "dead" /\ queue' = rest
         /\ UNCHANGED <<life, busVars, msgVars, heard>>
      \/ life[e.conn] = "alive" /\ HandleLive(e, rest)
  BY DEF Handle
<1>5. ASSUME life[e.conn] = "alive", ReceivePosted(e, rest)
      PROVE  DeliveryInv'
  BY <1>1, <1>5, ReceiveDelivery
<1> HIDE DEF e, rest
<1>6. CASE /\ life[e.conn] = "dead" /\ queue' = rest
           /\ UNCHANGED <<life, busVars, msgVars, heard>>
  BY <1>2, <1>3, <1>6, NobodyWired DEF busVars
<1>7. CASE Setup(e, rest) \/ Ready(e, rest)
  BY <1>3, <1>7, NobodyWired DEF Setup, Ready, busVars
<1>8. CASE ReadyFails(e, rest) \/ Delete(e, rest)
  <2>1. e.conn \in Conns
    BY <1>1 DEF Event, Receipt
  <2>2. e.type # "receive"
    BY <1>8 DEF ReadyFails, Delete
  <2> QED
    BY <1>3, <1>8, <2>1, <2>2, DestroyDelivery DEF ReadyFails, Delete
<1> QED
  BY <1>4, <1>5, <1>6, <1>7, <1>8 DEF HandleLive
LEMMA InitDelivery == Init => DeliveryInv
<1> SUFFICES ASSUME Init PROVE DeliveryInv
  OBVIOUS
<1>1. \A t \in Threads : Waiting(t) = {}
  BY DEF Init, Waiting, Elems
<1>2. EmissionsAreLast /\ MissingAreOnTheirWay /\ HeardWereSent
  BY DEF Init, EmissionsAreLast, MissingAreOnTheirWay, HeardWereSent
<1> QED
  BY <1>1, <1>2 DEF DeliveryInv, PostedAreOwed

(* What is under way on the bus is in order, is owed, and is complete.     *)
THEOREM DeliveryCorrect == Spec => [](RosterInv /\ DeliveryInv)
<1>1. TypeOK /\ ThreadInv /\ RosterInv /\ DeliveryInv /\ [Next]_vars
        => RosterInv' /\ DeliveryInv'
  <2> SUFFICES ASSUME TypeOK, ThreadInv, RosterInv, DeliveryInv, [Next]_vars
               PROVE  RosterInv' /\ DeliveryInv'
    OBVIOUS
  <2>0. EmissionsAreLast
    BY DEF DeliveryInv
  <2>1. CASE Next
    <3>1. RosterInv'
      BY <2>0, <2>1, RegistrationRoster, MessageRoster, LifeRoster, HandleRoster,
         BoundsAssumption DEF Next, Conns
    <3>2. DeliveryInv'
      BY <2>1, RegistrationDelivery, MessageDelivery, LifeDelivery, HandleDelivery,
         BoundsAssumption DEF Next, Conns
    <3> QED
      BY <3>1, <3>2
  <2>2. CASE UNCHANGED vars
    <3>1. RosterInv'
      BY <2>2, QueueIsCalm, SameRoster
         DEF vars, busVars, Calm, Queues, Orderly, Waiting
    <3>2. DeliveryInv'
      BY <2>2, QueueIsSame, NobodyWired DEF vars, msgVars, Same, Waiting
    <3> QED
      BY <3>1, <3>2
  <2> QED
    BY <2>1, <2>2
<1> QED
  BY <1>1, InitRoster, InitDelivery, TypeCorrect, ThreadsCorrect, PTL DEF Spec

-------------------------------------------------------------------------------
(* The bus implements atomic broadcast: newConnection joins, an emission   *)
(* is a broadcast, a receive() is the hearing of the next one, and a       *)
(* destructor leaves.                                                      *)
LEMMA WireJoins ==
  ASSUME TypeOK, RosterInv, NEW c \in Conns, NEW q, Wire(c, q), New(c)
  PROVE  Links!Join(c) \/ UNCHANGED Links!vars
<1>1. CASE \E d \in connections \cup {c} : life[d] # "alive"
  BY <1>1 DEF Wire, Crash, Links!vars
<1>2. CASE ~ \E d \in connections \cup {c} : life[d] # "alive"
  <2>1. /\ wired' = Join(c)
        /\ heard' = [b \in Conns |-> [a \in Conns |->
                       IF (b = c /\ a \in connections) \/ (a = c /\ b \in connections)
                       THEN sent[a] ELSE heard[b][a]]]
        /\ sent' = sent
    BY <1>2 DEF Wire, msgVars
  <2>2. connections \in SUBSET (Conns \ {c}) /\ wired[c] = {}
    BY DEF TypeOK, RosterInv, NewAreApart
  <2> DEFINE new == ({c} \X connections) \cup (connections \X {c})
  <2>3. {p \in Conns \X Conns : p[2] \in wired'[p[1]]}
          = {p \in Conns \X Conns : p[2] \in wired[p[1]]} \cup new
    <3>1. new \subseteq Conns \X Conns
      BY <2>2
    <3>2. ASSUME NEW a \in Conns, NEW b \in Conns
          PROVE  b \in wired'[a] <=> b \in wired[a] \/ <<a, b>> \in new
      BY <2>1, <2>2 DEF Join
    <3> QED
      BY <3>1, <3>2
  <2>4. heard' = [b \in Conns |-> [a \in Conns |->
                    IF <<a, b>> \in new THEN sent[a] ELSE heard[b][a]]]
    <3>1. ASSUME NEW a \in Conns, NEW b \in Conns
          PROVE  <<a, b>> \in new <=> (b = c /\ a \in connections) \/ (a = c /\ b \in connections)
      OBVIOUS
    <3> HIDE DEF new
    <3> QED
      BY <2>1, <3>1
  <2> QED
    BY <2>1, <2>2, <2>3, <2>4 DEF Links!Join
<1> QED
  BY <1>1, <1>2

LEMMA RegistrationLinks ==
  ASSUME TypeOK, RosterInv, NEW c \in Conns,
         (c \in Plugins /\ StartPlugin(c)) \/ MainStep(c) \/ AppendConnection(c)
  PROVE  Links!Join(c) \/ UNCHANGED Links!vars
<1>1. CASE StartPlugin(c)
  BY <1>1, WireJoins DEF StartPlugin, New
<1>2. CASE RegisterQueued(c)
  <2>1. queue[Main] # <<>> /\ Head(queue[Main]) = Plainly("register", c)
    BY <1>2 DEF RegisterQueued
  <2>2. Plainly("register", c) \in Waiting(Main)
    BY <2>1, TailElems DEF TypeOK, Waiting, Threads
  <2>3. New(c)
    BY <2>2 DEF RosterInv, AnnouncedAreQueued, New, Plainly
  <2> QED
    BY <1>2, <2>3, WireJoins DEF RegisterQueued
<1>3. CASE ConnectionDestroyed(c) \/ AppendConnection(c)
  BY <1>3 DEF ConnectionDestroyed, AppendConnection, Crash, msgVars, Links!vars
<1> QED
  BY <1>1, <1>2, <1>3 DEF MainStep

LEMMA DestroyLinks ==
  ASSUME NEW c \in Conns, NEW q, Destroy(c, q)
  PROVE  Links!Leave(c)
<1>1. wired' = [a \in Conns |-> wired[a] \ {c}] /\ UNCHANGED <<sent, heard>>
  BY DEF Destroy, msgVars
<1>2. {p \in Conns \X Conns : p[2] \in wired'[p[1]]}
        = {p \in {x \in Conns \X Conns : x[2] \in wired[x[1]]} : p[2] # c}
  BY <1>1
<1> QED
  BY <1>1, <1>2 DEF Links!Leave

(* What is heard is the next broadcast. *)
LEMMA HearNext ==
  ASSUME TypeOK, NEW a \in Conns, NEW b \in Conns, b \in wired[a],
         heard[b][a] < sent[a],
         heard' = [heard EXCEPT ![b][a] = heard[b][a] + 1],
         UNCHANGED <<sent, wired>>
  PROVE  Links!Hear(a, b)
BY DEF Links!Hear

LEMMA DeliverLinks ==
  ASSUME TypeOK, RosterInv, DeliveryInv, NEW c \in Conns, NEW e \in emitting[c],
         Deliver(c, e)
  PROVE  Links!Hear(c, e.conn) \/ UNCHANGED Links!vars
<1>1. /\ e.type = "receive" /\ e.conn \in Conns
      /\ e.msg.from = c /\ e.msg.n = sent[c] /\ Owed(e)
  BY EmissionFacts
<1>2. UNCHANGED <<sent, wired>>
  BY DEF Deliver, busVars
<1>3. CASE UNCHANGED heard
  BY <1>2, <1>3 DEF Links!vars
<1>4. CASE life[e.conn] = "alive" /\ Home(e.conn) = Home(c) /\ Receive(e)
  <2>1. e.conn \in wired[c] /\ heard[e.conn][c] < sent[c]
    BY <1>1, <1>4 DEF Owed
  <2>2. heard[e.conn][c] + 1 \in (heard[e.conn][c] + 1)..sent[c]
    BY <1>1, <2>1 DEF TypeOK
  <2>3. PICK x \in emitting[c] \cup Waiting(Home(e.conn)) :
               IsFor(x, c, e.conn) /\ x.msg.n = heard[e.conn][c] + 1
    BY <1>1, <2>1, <2>2 DEF DeliveryInv, MissingAreOnTheirWay
  <2>4. x \notin Waiting(Home(e.conn))
    BY <1>1, <1>4, <2>3, HomeIsAThread DEF DeliveryInv, PostedAreOwed, IsFor
  <2>5. x.msg.n = sent[c]
    BY <2>3, <2>4 DEF DeliveryInv, EmissionsAreLast
  <2>6. heard' = [heard EXCEPT ![e.conn][c] = heard[e.conn][c] + 1]
    BY <1>1, <1>4, <2>3, <2>5 DEF Receive
  <2> QED
    BY <1>1, <1>2, <2>1, <2>6, HearNext
<1> QED
  BY <1>3, <1>4 DEF Deliver

LEMMA ReceiveLinks ==
  ASSUME TypeOK, ThreadInv, RosterInv, DeliveryInv, NEW t \in Threads \ {Main},
         queue[t] # <<>>, NEW e, e = Head(queue[t]), life[e.conn] = "alive",
         ReceivePosted(e, [queue EXCEPT ![t] = Tail(@)])
  PROVE  \E a, b \in Conns : Links!Hear(a, b)
<1> DEFINE b == e.conn
           a == e.msg.from
<1>0. e.type = "receive"
  BY DEF ReceivePosted
<1>1. /\ e \in Waiting(t) /\ b \in Conns /\ a \in Conns
      /\ e.msg.n \in Nat
      /\ Home(b) = t
      /\ b \in wired[a]
      /\ heard[b][a] < e.msg.n
      /\ e.msg.n <= sent[a]
      /\ \A x \in Elems(Tail(queue[t])) : Follows(e, x)
      /\ Waiting(t) = {e} \cup Elems(Tail(queue[t]))
  BY <1>0, ReceiptFacts
<1>2. IsFor(e, a, b)
  BY <1>0 DEF IsFor
<1>3. heard' = [heard EXCEPT ![b][a] = e.msg.n] /\ UNCHANGED <<sent, wired>>
  BY DEF ReceivePosted, Receive, busVars, msgVars
<1> HIDE DEF b, a
<1>4. heard[b][a] \in Nat /\ sent[a] \in Nat
  BY <1>1 DEF TypeOK
<1>5. heard[b][a] + 1 \in (heard[b][a] + 1)..sent[a] /\ heard[b][a] + 1 <= e.msg.n
  BY <1>1, <1>4
<1>6. PICK x \in emitting[a] \cup Waiting(Home(b)) :
             IsFor(x, a, b) /\ x.msg.n = heard[b][a] + 1
  BY <1>1, <1>5 DEF DeliveryInv, MissingAreOnTheirWay
<1>7. x \notin emitting[a]
  <2> SUFFICES ASSUME x \in emitting[a] PROVE FALSE
    OBVIOUS
  <2>1. x.conn = b
    BY <1>6 DEF IsFor
  <2>2. e.msg.n < x.msg.n
    BY <1>1, <1>2, <2>1 DEF DeliveryInv, EmissionsAreLast
  <2> QED
    BY <1>1, <1>4, <1>5, <1>6, <2>2
<1>8. x \notin Elems(Tail(queue[t]))
  <2> SUFFICES ASSUME x \in Elems(Tail(queue[t])) PROVE FALSE
    OBVIOUS
  <2>1. Follows(e, x)
    BY <1>1
  <2>2. e.msg.n < x.msg.n
    BY <1>0, <1>2, <1>6, <2>1 DEF Follows, IsFor
  <2> QED
    BY <1>1, <1>4, <1>5, <1>6, <2>2
<1>9. x = e
  BY <1>1, <1>6, <1>7, <1>8
<1>10. heard' = [heard EXCEPT ![b][a] = heard[b][a] + 1]
  BY <1>3, <1>6, <1>9
<1>11. heard[b][a] < sent[a]
  BY <1>1, <1>4
<1>12. Links!Hear(a, b)
  BY <1>1, <1>3, <1>10, <1>11, HearNext
<1> QED
  BY <1>1, <1>12

LEMMA HandleLinks ==
  ASSUME TypeOK, ThreadInv, RosterInv, DeliveryInv, NEW t \in Threads \ {Main}, Handle(t)
  PROVE  Links!Next \/ UNCHANGED Links!vars
<1> DEFINE e == Head(queue[t])
           rest == [queue EXCEPT ![t] = Tail(@)]
<1>1. queue[t] # <<>> /\ e \in Event
  BY TakeType DEF Handle, TypeOK, Queues
<1>2. \/ UNCHANGED <<busVars, msgVars, heard>>
      \/ life[e.conn] = "alive" /\ HandleLive(e, rest)
  BY DEF Handle
<1>3. ASSUME life[e.conn] = "alive", ReceivePosted(e, rest)
      PROVE  Links!Next
  BY <1>1, <1>3, ReceiveLinks DEF Links!Next
<1> HIDE DEF e, rest
<1>4. CASE UNCHANGED <<busVars, msgVars, heard>>
  BY <1>4 DEF busVars, msgVars, Links!vars
<1>5. CASE Setup(e, rest) \/ Ready(e, rest)
  BY <1>5 DEF Setup, Ready, busVars, msgVars, Links!vars
<1>6. CASE ReadyFails(e, rest) \/ Delete(e, rest)
  <2>1. e.conn \in Conns
    BY <1>1 DEF Event, Receipt
  <2> QED
    BY <1>6, <2>1, DestroyLinks DEF ReadyFails, Delete, Links!Next
<1> QED
  BY <1>2, <1>3, <1>4, <1>5, <1>6 DEF HandleLive

LEMMA OtherLinks ==
  ASSUME TypeOK, RosterInv, DeliveryInv, NEW c \in Conns,
         \/ \E ch \in Channels : Broadcast(c, ch) \/ Subscribe(c, ch)
         \/ \E v \in BOOLEAN : SetMonitor(c, v)
         \/ \E e \in emitting[c] : Deliver(c, e)
         \/ Create(c)
         \/ c \in Clients /\ Disconnect(c)
         \/ c \in Parts /\ (DeletePart(c) \/ DeletePartLater(c))
  PROVE  Links!Next \/ UNCHANGED Links!vars
<1>1. ASSUME NEW ch \in Channels, Broadcast(c, ch)
      PROVE  Links!Broadcast(c)
  BY <1>1 DEF Broadcast, busVars, Links!Broadcast
<1>2. ASSUME NEW e \in emitting[c], Deliver(c, e)
      PROVE  Links!Next \/ UNCHANGED Links!vars
  BY <1>2, DeliverLinks, EmissionFacts DEF Links!Next
<1>3. CASE DeletePart(c)
  BY <1>3, DestroyLinks DEF DeletePart, Links!Next
<1>4. CASE \/ \E ch \in Channels : Subscribe(c, ch)
           \/ \E v \in BOOLEAN : SetMonitor(c, v)
           \/ Create(c)
           \/ Disconnect(c)
           \/ DeletePartLater(c)
  BY <1>4 DEF Subscribe, SetMonitor, Create, Disconnect, DeletePartLater,
              busVars, msgVars, Links!vars
<1> QED
  BY <1>1, <1>2, <1>3, <1>4 DEF Links!Next

(* The bus is, for each pair of connections, an atomic broadcast. *)
THEOREM BusIsAtomicBroadcast == Spec => ImplementsBroadcasting
<1>1. Init => Links!Init
  <2> SUFFICES ASSUME Init PROVE Links!Init
    OBVIOUS
  <2>1. {p \in Conns \X Conns : p[2] \in wired[p[1]]} = {}
    BY DEF Init
  <2> QED
    BY <2>1 DEF Init, Links!Init
<1>2. TypeOK /\ ThreadInv /\ RosterInv /\ DeliveryInv /\ [Next]_vars
        => [Links!Next]_Links!vars
  <2> SUFFICES ASSUME TypeOK, ThreadInv, RosterInv, DeliveryInv, [Next]_vars
               PROVE  Links!Next \/ UNCHANGED Links!vars
    OBVIOUS
  <2>1. CASE Next
    BY <2>1, RegistrationLinks, HandleLinks, OtherLinks, BoundsAssumption
       DEF Next, Conns, Links!Next
  <2>2. CASE UNCHANGED vars
    BY <2>2 DEF vars, Links!vars
  <2> QED
    BY <2>1, <2>2
<1> QED
  BY <1>1, <1>2, TypeCorrect, ThreadsCorrect, DeliveryCorrect, PTL
     DEF Spec, ImplementsBroadcasting, Links!Spec
===============================================================================
