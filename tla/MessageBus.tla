------------------------------ MODULE MessageBus ------------------------------
(***************************************************************************)
(* The message bus of the TalkTalk core: ConnectionManager wires the       *)
(* broadcast signal of every connection to the receive slot of every other *)
(* one, and AbstractClientConnection filters what it receives.             *)
(*                                                                         *)
(* A connection lives in a thread.  A signal that crosses threads is an    *)
(* event in the first-in first-out queue of the receiver's thread; within  *)
(* a thread it is a plain call.  Plugins register themselves from their    *)
(* own threads; everything a plugin creates later is registered by the     *)
(* main thread, where ConnectionManager lives.                             *)
(***************************************************************************)
EXTENDS Naturals, Sequences, FiniteSets

CONSTANTS
  Plugins,   \* connections made by main(): the TCP server, IRC, the backlog...
  Clients,   \* TcpClientConnections, each in a thread of its own
  Parts,     \* connections made by a plugin in its own thread (a web socket
             \* client, an IRC server, a synced list)
  Owner,     \* the plugin that creates a client or a part
  Channels,  \* channel names
  Main,      \* the main thread
  Listeners, \* bound: connections whose subscriptions vary
  MaxSent    \* bound: how often each connection broadcasts

Conns == Plugins \cup Clients \cup Parts

ASSUME ConnsAssumption ==
  /\ Plugins \cap Clients = {}
  /\ Plugins \cap Parts = {}
  /\ Clients \cap Parts = {}
  /\ Main \notin Conns
  /\ Owner \in [Clients \cup Parts -> Plugins]
ASSUME BoundsAssumption ==
  /\ Listeners \in SUBSET Conns
  /\ MaxSent \in [Conns -> Nat]

(* A thread is named by the plugin or the client that it was made for. *)
Threads == Plugins \cup Clients \cup {Main}
Home(c) == IF c \in Parts THEN Owner[c] ELSE c
Registrar(c) == IF c \in Plugins THEN c ELSE Main

VARIABLES
  life,          \* "none", "alive" or "dead": the object behind a connection
  phase,         \* where newConnection is for a connection: "no", "queued",
                 \* "wired" (inside it, before the append) or "done"
  connections,   \* ConnectionManager::m_connections
  seen,          \* what the thread inside newConnection read of m_connections
  raced,         \* two threads have been inside ConnectionManager at once
  wired,         \* wired[a]: connections whose receive() a's broadcast calls
  emitting,      \* emitting[a]: receive() calls that a's broadcast still owes
  queue,         \* queue[t]: the event queue of thread t
  isReady,       \* ready() has run
  socket,        \* m_socket of a client: "unset", "open" or "null"
  channels,      \* m_channels
  monitor,       \* m_monitor
  sent,          \* number of broadcasts a connection has emitted
  heard,         \* heard[b][a]: the last broadcast of a for which b ran
                 \* receive(), or the last one before they were joined
  fault          \* "none", or the undefined behaviour that ended the process

vars == <<life, phase, connections, seen, raced, wired, emitting, queue,
          isReady, socket, channels, monitor, sent, heard, fault>>
busVars == <<connections, seen, raced, wired, phase>>
msgVars == <<emitting, sent>>
subVars == <<channels, monitor>>

Message == [from : Conns, channel : Channels, n : Nat]
Plain == {"register", "gone", "ready", "setup", "delete"}
Receipt == [type : {"receive"}, conn : Conns, msg : Message]
Event == [type : Plain, conn : Conns] \cup Receipt

Plainly(t, c) == [type |-> t, conn |-> c]

Post(q, t, e) == [q EXCEPT ![t] = Append(@, e)]

Init ==
  /\ life = [c \in Conns |-> IF c \in Plugins THEN "alive" ELSE "none"]
  /\ phase = [c \in Conns |-> "no"]
  /\ connections = {}
  /\ seen = [c \in Conns |-> {}]
  /\ raced = FALSE
  /\ wired = [c \in Conns |-> {}]
  /\ emitting = [c \in Conns |-> {}]
  /\ queue = [t \in Threads |-> <<>>]
  /\ isReady = [c \in Conns |-> FALSE]
  /\ socket = [c \in Clients |-> "unset"]
  /\ channels = [c \in Conns |-> {}]
  /\ monitor = [c \in Conns |-> FALSE]
  /\ sent = [c \in Conns |-> 0]
  /\ heard = [b \in Conns |-> [a \in Conns |-> 0]]
  /\ fault = "none"

(* A thread is free when it is neither inside newConnection nor in the     *)
(* middle of an emission.                                                  *)
Free(t) ==
  /\ fault = "none"
  /\ \A c \in Conns : Registrar(c) = t => phase[c] # "wired"
  /\ \A c \in Conns : Home(c) = t => emitting[c] = {}

Running(c) == life[c] = "alive" /\ Free(Home(c))
InManager == {c \in Conns : phase[c] = "wired"}

Crash(what) ==
  /\ fault' = what
  /\ UNCHANGED <<life, phase, connections, seen, raced, wired, emitting, queue,
                 isReady, socket, channels, monitor, sent, heard>>

-------------------------------------------------------------------------------
(* ConnectionManager *)

(* Mutant: only the registered connections hear the new one. *)
JoinOneWay(c) == [wired EXCEPT ![c] = connections]

Join(c) ==
  [a \in Conns |-> IF a = c THEN connections
                   ELSE IF a \in connections THEN wired[a] \cup {c}
                   ELSE wired[a]]

(* The loop of newConnection: signals of the new connection and of every   *)
(* registered one are joined, so that each hears the other's broadcasts    *)
(* from the next one on.  A pointer to a deleted connection, the new one   *)
(* or a registered one, is used here.                                      *)
Wire(c, q) ==
  IF \E d \in connections \cup {c} : life[d] # "alive"
  THEN Crash("dangling")
  ELSE /\ wired' = Join(c)
       /\ heard' = [b \in Conns |-> [a \in Conns |->
                      IF (b = c /\ a \in connections) \/ (a = c /\ b \in connections)
                      THEN sent[a] ELSE heard[b][a]]]
       /\ seen' = [seen EXCEPT ![c] = connections]
       /\ phase' = [phase EXCEPT ![c] = "wired"]
       /\ raced' = (raced \/ InManager # {})
       /\ queue' = q
       /\ UNCHANGED <<life, connections, isReady, socket, fault, msgVars, subVars>>

(* QThread::started of a plugin's thread: newConnection runs in it. *)
StartPlugin(p) ==
  /\ phase[p] = "no"
  /\ Running(p)
  /\ Wire(p, queue)

(* A queued newConnection(c), taken by the main thread. *)
RegisterQueued(c) ==
  /\ Free(Main)
  /\ queue[Main] # <<>>
  /\ Head(queue[Main]) = Plainly("register", c)
  /\ Wire(c, [queue EXCEPT ![Main] = Tail(@)])

(* m_connections.append and the posting of ready().  When two threads were *)
(* inside the manager, an unsynchronised append may be lost or may undo    *)
(* what the other thread wrote.                                            *)
AppendConnection(c) ==
  /\ phase[c] = "wired"
  /\ fault = "none"
  /\ IF life[c] # "alive"
     THEN Crash("dangling")
     ELSE /\ connections' \in IF raced
                              THEN {connections \cup {c}, seen[c] \cup {c}, connections}
                              ELSE {connections \cup {c}}
          /\ phase' = [phase EXCEPT ![c] = "done"]
          /\ queue' = Post(queue, Home(c), Plainly("ready", c))
          /\ UNCHANGED <<life, seen, raced, wired, isReady, socket, fault,
                         msgVars, subVars, heard>>

(* Mutant: the pointer in the list is set to null, and stays in it. *)
ConnectionNulled(c) ==
  /\ Free(Main)
  /\ queue[Main] # <<>>
  /\ Head(queue[Main]) = Plainly("gone", c)
  /\ connections' = (connections \ {c}) \cup {"null"}
  /\ raced' = (raced \/ InManager # {})
  /\ queue' = [queue EXCEPT ![Main] = Tail(@)]
  /\ UNCHANGED <<life, phase, seen, wired, isReady, socket, fault, msgVars, subVars, heard>>

(* connectionDestroyed, taken by the main thread. *)
ConnectionDestroyed(c) ==
  /\ Free(Main)
  /\ queue[Main] # <<>>
  /\ Head(queue[Main]) = Plainly("gone", c)
  /\ connections' = connections \ {c}
  /\ raced' = (raced \/ InManager # {})
  /\ queue' = [queue EXCEPT ![Main] = Tail(@)]
  /\ UNCHANGED <<life, phase, seen, wired, isReady, socket, fault, msgVars, subVars, heard>>

-------------------------------------------------------------------------------
(* AbstractClientConnection *)

(* emit broadcast: one receive() per joined connection is now owed.  The    *)
(* number of a message is not in the code, it tells messages apart.         *)
Broadcast(c, ch) ==
  /\ Running(c)
  /\ c \in Clients => socket[c] = "open"
  /\ sent[c] < MaxSent[c]
  /\ sent' = [sent EXCEPT ![c] = @ + 1]
  /\ LET msg == [from |-> c, channel |-> ch, n |-> sent[c] + 1]
     IN  emitting' = [emitting EXCEPT ![c] =
           {[type |-> "receive", conn |-> d, msg |-> msg] : d \in wired[c]}]
  /\ UNCHANGED <<life, queue, isReady, socket, heard, fault, busVars, subVars>>

(* receive() and the toClient() it calls: TcpClientConnection writes to    *)
(* m_socket without looking at it, every other toClient() copes.           *)
Receive(e) ==
  /\ heard' = [heard EXCEPT ![e.conn][e.msg.from] = e.msg.n]
  /\ fault' = IF /\ e.msg.channel \in channels[e.conn] \/ monitor[e.conn]
                 /\ e.conn \in Clients
                 /\ socket[e.conn] # "open"
              THEN "badSocket" ELSE fault

(* Mutant: messages for other threads are dropped. *)
PostNothing(q, t, e) == q

(* newConnection has joined broadcast to receive with an AutoConnection.   *)
PostMessage(q, t, e) == Post(q, t, e)

(* One receive() of an emission: a call in the same thread, an event in    *)
(* another, nothing if the receiver has been destroyed meanwhile.          *)
Deliver(c, e) ==
  /\ e \in emitting[c]
  /\ fault = "none"
  /\ emitting' = [emitting EXCEPT ![c] = @ \ {e}]
  /\ \/ /\ life[e.conn] # "alive"
        /\ UNCHANGED <<queue, heard, fault>>
     \/ /\ life[e.conn] = "alive"
        /\ Home(e.conn) = Home(c)
        /\ Receive(e)
        /\ UNCHANGED queue
     \/ /\ life[e.conn] = "alive"
        /\ Home(e.conn) # Home(c)
        /\ queue' = PostMessage(queue, Home(e.conn), e)
        /\ UNCHANGED <<heard, fault>>
  /\ UNCHANGED <<life, isReady, socket, sent, busVars, subVars>>

(* fromClient: subscribe, unsubscribe and monitor change the connection.   *)
(* Plugins and parts call the same setters themselves.                     *)
Subscribe(c, ch) ==
  /\ Running(c)
  /\ c \in Clients => socket[c] = "open"
  /\ channels' \in {[channels EXCEPT ![c] = @ \cup {ch}],
                    [channels EXCEPT ![c] = @ \ {ch}]}
  /\ UNCHANGED <<life, queue, isReady, socket, monitor, fault, busVars, msgVars, heard>>

SetMonitor(c, value) ==
  /\ Running(c)
  /\ c \in Clients => socket[c] = "open"
  /\ monitor' = [monitor EXCEPT ![c] = value]
  /\ UNCHANGED <<life, queue, isReady, socket, channels, fault, busVars, msgVars, heard>>

-------------------------------------------------------------------------------
(* Life of a connection *)

(* Mutants: a client is announced without posting its setup(), or set up   *)
(* without being announced.                                                *)
AnnounceOnly(c) == Post(queue, Main, Plainly("register", c))
SetupOnly(c) == IF c \in Clients THEN Post(queue, c, Plainly("setup", c)) ELSE queue

(* setup() of a client, which has a thread of its own, is posted first. *)
Announce(c) ==
  LET q == IF c \in Clients THEN Post(queue, c, Plainly("setup", c)) ELSE queue
  IN  Post(q, Main, Plainly("register", c))

(* Mutant: a plugin creates connections without waiting for ready(). *)
MayCreateEarly(c) == Running(Owner[c])

(* Servers listen, and IRC loads its servers, in ready(). *)
MayCreate(c) == Running(Owner[c]) /\ isReady[Owner[c]]

(* A plugin that is ready makes a connection and announces it. *)
Create(c) ==
  /\ life[c] = "none"
  /\ c \notin Plugins
  /\ MayCreate(c)
  /\ life' = [life EXCEPT ![c] = "alive"]
  /\ phase' = [phase EXCEPT ![c] = "queued"]
  /\ queue' = Announce(c)
  /\ UNCHANGED <<connections, seen, raced, wired, isReady, socket, fault,
                 msgVars, subVars, heard>>

(* Mutant: destroyed() is joined to the manager in ready(). *)
WatchedLate(c) == isReady[c]

(* newConnection has joined destroyed() to the manager. *)
Watched(c) == phase[c] \in {"wired", "done"}

(* QObject's destructor: nothing is delivered to the connection any more,  *)
(* and the manager, if it was joined to destroyed(), gets a notice.        *)
Destroy(c, q) ==
  /\ life' = [life EXCEPT ![c] = "dead"]
  /\ wired' = [a \in Conns |-> wired[a] \ {c}]
  /\ queue' = IF Watched(c) THEN Post(q, Main, Plainly("gone", c)) ELSE q
  /\ UNCHANGED <<connections, seen, raced, phase, isReady, socket, fault,
                 msgVars, subVars, heard>>

(* Mutant: the deletion is forgotten. *)
DisconnectOnly(c) ==
  /\ Running(c)
  /\ socket[c] = "open"
  /\ socket' = [socket EXCEPT ![c] = "null"]
  /\ UNCHANGED <<queue, life, isReady, fault, busVars, msgVars, subVars, heard>>

(* TcpClientConnection::disconnected: the deletion is queued behind what   *)
(* other threads have already posted.                                      *)
Disconnect(c) ==
  /\ Running(c)
  /\ socket[c] = "open"
  /\ socket' = [socket EXCEPT ![c] = "null"]
  /\ queue' = Post(queue, c, Plainly("delete", c))
  /\ UNCHANGED <<life, isReady, fault, busVars, msgVars, subVars, heard>>

(* A plugin deletes one of its parts, in its own thread: at once, as the   *)
(* list of IRC servers does, or with deleteLater, as a web socket does.    *)
DeletePart(c) ==
  /\ Running(c)
  /\ Destroy(c, queue)

DeletePartLater(c) ==
  /\ Running(c)
  /\ \A i \in DOMAIN queue[Home(c)] : queue[Home(c)][i] # Plainly("delete", c)
  /\ queue' = Post(queue, Home(c), Plainly("delete", c))
  /\ UNCHANGED <<life, isReady, socket, fault, busVars, msgVars, subVars, heard>>

(* An event of a live connection is handled in its thread. *)
Setup(e, rest) ==
  /\ e.type = "setup"
  /\ socket' = [socket EXCEPT ![e.conn] = "open"]
  /\ queue' = rest
  /\ UNCHANGED <<life, isReady, fault, busVars, msgVars, subVars, heard>>

Ready(e, rest) ==
  /\ e.type = "ready"
  /\ isReady' = [isReady EXCEPT ![e.conn] = TRUE]
  /\ queue' = rest
  /\ UNCHANGED <<life, socket, fault, busVars, msgVars, subVars, heard>>

(* A server that cannot listen ends its thread in ready(). *)
ReadyFails(e, rest) ==
  /\ e.type = "ready"
  /\ e.conn \in Plugins
  /\ Destroy(e.conn, rest)

ReceivePosted(e, rest) ==
  /\ e.type = "receive"
  /\ Receive(e)
  /\ queue' = rest
  /\ UNCHANGED <<life, isReady, socket, busVars, msgVars, subVars>>

Delete(e, rest) ==
  /\ e.type = "delete"
  /\ Destroy(e.conn, rest)

HandleLive(e, rest) ==
  \/ Setup(e, rest)
  \/ Ready(e, rest)
  \/ ReadyFails(e, rest)
  \/ ReceivePosted(e, rest)
  \/ Delete(e, rest)

(* The next event of a connection's thread.  Qt has removed the events of  *)
(* a destroyed connection; here they are passed over.                      *)
Handle(t) ==
  /\ Free(t)
  /\ queue[t] # <<>>
  /\ LET e == Head(queue[t])
         rest == [queue EXCEPT ![t] = Tail(@)]
     IN \/ /\ life[e.conn] = "dead"
           /\ queue' = rest
           /\ UNCHANGED <<life, isReady, socket, fault, busVars, msgVars, subVars, heard>>
        \/ /\ life[e.conn] = "alive"
           /\ HandleLive(e, rest)

-------------------------------------------------------------------------------
MainStep(c) == RegisterQueued(c) \/ ConnectionDestroyed(c)

Next ==
  \/ \E p \in Plugins : StartPlugin(p)
  \/ \E c \in Conns : MainStep(c) \/ AppendConnection(c)
  \/ \E c \in Conns : \E e \in emitting[c] : Deliver(c, e)
  \/ \E t \in Threads \ {Main} : Handle(t)
  \/ \E c \in Conns, ch \in Channels : Broadcast(c, ch)
  \/ \E c \in Listeners, ch \in Channels : Subscribe(c, ch)
  \/ \E c \in Listeners, v \in BOOLEAN : SetMonitor(c, v)
  \/ \E c \in Clients \cup Parts : Create(c)
  \/ \E c \in Clients : Disconnect(c)
  \/ \E c \in Parts : DeletePart(c) \/ DeletePartLater(c)

Spec == Init /\ [][Next]_vars

(* Every thread that has something to do does it. *)
Fairness ==
  /\ \A p \in Plugins : WF_vars(StartPlugin(p))
  /\ \A c \in Conns : WF_vars(AppendConnection(c))
  /\ \A c \in Conns : WF_vars(\E e \in emitting[c] : Deliver(c, e))
  /\ \A t \in Threads \ {Main} : WF_vars(Handle(t))
  /\ WF_vars(\E c \in Conns : MainStep(c))

FairSpec == Spec /\ Fairness
-------------------------------------------------------------------------------
TypeOK ==
  /\ life \in [Conns -> {"none", "alive", "dead"}]
  /\ phase \in [Conns -> {"no", "queued", "wired", "done"}]
  /\ connections \in SUBSET Conns
  /\ seen \in [Conns -> SUBSET Conns]
  /\ raced \in BOOLEAN
  /\ wired \in [Conns -> SUBSET Conns]
  /\ emitting \in [Conns -> SUBSET Receipt]
  /\ queue \in [Threads -> Seq(Event)]
  /\ isReady \in [Conns -> BOOLEAN]
  /\ socket \in [Clients -> {"unset", "open", "null"}]
  /\ channels \in [Conns -> SUBSET Channels]
  /\ monitor \in [Conns -> BOOLEAN]
  /\ sent \in [Conns -> Nat]
  /\ heard \in [Conns -> [Conns -> Nat]]
  /\ fault \in {"none", "dangling", "badSocket"}

Registered(c) == phase[c] = "done" /\ life[c] = "alive"
Joined(a, b) == a \in wired[b] /\ b \in wired[a]
Elems(s) == {s[i] : i \in DOMAIN s}
Waiting(t) == Elems(queue[t])

(* As long as no two threads have been inside the unlocked ConnectionManager *)
(* at once, any two live registered connections hear each other, whatever    *)
(* order they were announced in and whoever died in between: the wiring loop *)
(* and the append of newConnection leave no pair out.                        *)
JoinedUnlessRaced ==
  ~raced => \A a, b \in Conns :
              a # b /\ Registered(a) /\ Registered(b) => Joined(a, b)

(* The race needs two plugins: a core that is built with one plugin only     *)
(* keeps the manager to one thread at a time, because nothing is created     *)
(* before the plugin's ready(), which follows its own registration.          *)
SinglePluginNeverRaces == (\A p, q \in Plugins : p = q) => ~raced

(* A deleted connection that is still in m_connections has its destroyed     *)
(* notice waiting in the main thread: the list never keeps a dangling        *)
(* pointer for good, again unless threads raced inside the manager.          *)
DeadAreNoticed ==
  ~raced /\ fault = "none" =>
    \A c \in connections :
      life[c] = "dead" => Plainly("gone", c) \in Waiting(Main)

(* What makes the last two inductive: while nothing raced, one thread at a   *)
(* time is inside the manager, what it has joined so far covers the list,    *)
(* and a destroyed notice is only ever waiting for a connection that is gone.*)
OneInManager == \A a, b \in InManager : a = b
ListIsJoined ==
  \A a, b \in connections \cup InManager :
    a # b /\ life[a] = "alive" /\ life[b] = "alive" => Joined(a, b)
ListIsComplete == \A c \in Conns : Registered(c) => c \in connections
ListIsWatched == \A c \in connections : Watched(c) /\ life[c] # "none"
NoticesAreTrue ==
  \A e \in Waiting(Main) : e.type = "gone" => life[e.conn] = "dead"

ManagerInv ==
  /\ NoticesAreTrue
  /\ ~raced => OneInManager /\ ListIsJoined /\ ListIsComplete /\ ListIsWatched

(* A TCP client's setup(), posted before the client is announced, is ahead   *)
(* of every message and of ready() in its thread: m_socket, which the        *)
(* constructor leaves uninitialised, is never used before it is set.         *)
SetupComesFirst ==
  \A c \in Clients : life[c] = "alive" /\ socket[c] = "unset" =>
    queue[c] # <<>> /\ Head(queue[c]) = Plainly("setup", c)

(* A message meets a client's null socket only between disconnected() and    *)
(* the deletion that it has posted, which is still to come in the client's   *)
(* thread: not before setup(), and not once the thread has caught up.        *)
BadSocketsAreClosing ==
  fault = "badSocket" =>
    \E c \in Clients : /\ life[c] = "alive" /\ socket[c] = "null"
                      /\ Plainly("delete", c) \in Waiting(c)

(* What makes the last one inductive: a client's socket is null only with    *)
(* its deletion waiting, a client that is in the middle of an emission has   *)
(* been set up, and nothing is done to the socket of one that is not there.  *)
NullIsClosing ==
  \A c \in Clients : life[c] = "alive" /\ socket[c] = "null" =>
    Plainly("delete", c) \in Waiting(c)
EmittersAreSetUp ==
  \A c \in Clients : emitting[c] # {} => socket[c] # "unset"
UnbornAreUnset ==
  \A c \in Clients : life[c] = "none" => socket[c] = "unset"

SocketInv ==
  /\ NullIsClosing
  /\ EmittersAreSetUp
  /\ UnbornAreUnset

(* What makes SinglePluginNeverRaces and SetupComesFirst inductive: every    *)
(* event of a thread is for a connection that lives in it, ready() and       *)
(* whatever a plugin creates come after its registration, and only what has  *)
(* been created is announced or registered.                                  *)
EventsAreAtHome ==
  \A t \in Threads \ {Main} : \A e \in Waiting(t) : Home(e.conn) = t
ReadyAfterRegistration ==
  \A p \in Plugins :
    /\ isReady[p] => phase[p] = "done"
    /\ Plainly("ready", p) \in Waiting(p) => phase[p] = "done"
    /\ life[p] = "dead" => phase[p] # "wired"
OnlyCreatedAreAnnounced ==
  \A e \in Waiting(Main) : e.type = "register" =>
    e.conn \notin Plugins /\ life[e.conn] # "none"
CreatedByReadyPlugins ==
  \A c \in Clients \cup Parts :
    /\ life[c] # "none" => phase[Owner[c]] = "done"
    /\ phase[c] = "wired" => life[c] # "none"
    /\ c \in Clients /\ life[c] = "none" => queue[c] = <<>>

ThreadInv ==
  /\ EventsAreAtHome
  /\ ReadyAfterRegistration
  /\ OnlyCreatedAreAnnounced
  /\ CreatedByReadyPlugins

(* What makes the refinement below hold.  A connection that the manager has  *)
(* not come to yet is in nobody's list and joined to nobody; only the living *)
(* are listened with; the events of a thread are in order: a broadcast after *)
(* the earlier ones of its sender, and no connection announced twice.        *)
New(c) == phase[c] \in {"no", "queued"}
NewAreApart ==
  \A c \in Conns :
    /\ life[c] = "none" => New(c)
    /\ New(c) =>
         /\ wired[c] = {}
         /\ c \notin connections
         /\ \A d \in Conns : c \notin wired[d] /\ c \notin seen[d]
AnnouncedAreQueued ==
  \A e \in Waiting(Main) : e.type = "register" => phase[e.conn] = "queued"
WiredAreAlive == \A a \in Conns : \A b \in wired[a] : life[b] = "alive"

IsFor(e, a, b) == e.type = "receive" /\ e.conn = b /\ e.msg.from = a
Follows(e, f) ==
  /\ e.type = "receive" /\ IsFor(f, e.msg.from, e.conn) => e.msg.n < f.msg.n
  /\ e.type = "register" /\ f.type = "register" => e.conn # f.conn
InOrder(s) == \A i, j \in DOMAIN s : i < j => Follows(s[i], s[j])
QueuesAreInOrder == \A t \in Threads : InOrder(queue[t])

RosterInv ==
  /\ NewAreApart
  /\ AnnouncedAreQueued
  /\ WiredAreAlive
  /\ QueuesAreInOrder

(* Every call or event that is under way to a live receiver is for a         *)
(* broadcast that it has not heard yet; what a sender is emitting is its     *)
(* last broadcast, and comes after what is already posted; and what a        *)
(* receiver has still to hear is under way.                                  *)
Owed(e) ==
  \/ life[e.conn] = "dead"
  \/ /\ e.conn \in wired[e.msg.from]
     /\ heard[e.conn][e.msg.from] < e.msg.n
     /\ e.msg.n <= sent[e.msg.from]
PostedAreOwed ==
  \A t \in Threads : \A e \in Waiting(t) :
    e.type = "receive" => Owed(e) /\ Home(e.conn) = t /\ Home(e.msg.from) # t
EmissionsAreLast ==
  \A a \in Conns : \A e \in emitting[a] :
    /\ Owed(e)
    /\ e.msg.from = a
    /\ e.msg.n = sent[a]
    /\ \A f \in emitting[a] : f.conn = e.conn => f = e
    /\ \A f \in Waiting(Home(e.conn)) : IsFor(f, a, e.conn) => f.msg.n < e.msg.n
MissingAreOnTheirWay ==
  \A a, b \in Conns : b \in wired[a] =>
    \A n \in (heard[b][a] + 1)..sent[a] :
      \E e \in emitting[a] \cup Waiting(Home(b)) : IsFor(e, a, b) /\ e.msg.n = n
HeardWereSent == \A a, b \in Conns : heard[b][a] <= sent[a]

DeliveryInv ==
  /\ PostedAreOwed
  /\ EmissionsAreLast
  /\ MissingAreOnTheirWay
  /\ HeardWereSent

(* The bus is, for each pair, an atomic broadcast: no message is lost,       *)
(* repeated or overtaken between a sender and a live receiver, although      *)
(* newConnection, emissions and event queues interleave freely.              *)
Links == INSTANCE Broadcasting WITH
  link <- {p \in Conns \X Conns : p[2] \in wired[p[1]]}
ImplementsBroadcasting == Links!Spec

(* Every message that is owed to a live receiver gets there, provided the    *)
(* process is not ended by undefined behaviour.                              *)
EveryMessageArrives ==
  \A a, b \in Conns :
    b \in wired[a] /\ heard[b][a] < sent[a] ~>
      heard[b][a] = sent[a] \/ b \notin wired[a] \/ fault # "none"

(* A connection that is announced gets registered unless it dies first.      *)
EventuallyRegistered ==
  \A c \in Conns : life[c] = "alive" ~>
    phase[c] = "done" \/ life[c] = "dead" \/ fault # "none"

(* m_connections forgets every deleted connection.                           *)
EventuallyForgotten ==
  \A c \in Conns : c \in connections /\ life[c] = "dead" ~>
    c \notin connections \/ raced \/ fault # "none"

-------------------------------------------------------------------------------
(* What a comment promises and the code does not keep.                       *)

(* AbstractClientConnection.h:22: a broadcast "is routed to other's          *)
(* AbstractClientConnection::receive through ConnectionManager": any two     *)
(* connections that are registered are joined (newConnection).               *)
RegisteredAreJoined ==
  \A a, b \in Conns : a # b /\ Registered(a) /\ Registered(b) => Joined(a, b)
===============================================================================
