------------------------------ MODULE MainWindow ------------------------------
(***************************************************************************)
(* The main window of the client: it makes a ServerConnection and models   *)
(* for it, models for the channels that the user looks at, and takes them  *)
(* down when the connection is lost.                                       *)
(***************************************************************************)
EXTENDS ServerConnection

CONSTANTS MaxActs  \* bound: settings that the user opens, messages he sends

NoServer == "none"

ASSUME ServersAssumption == Servers \cap {NoServer, "closed"} = {}
ASSUME MaxActsAssumption == MaxActs \in Nat

VARIABLES
  server,          \* m_server
  chats,           \* m_channels: the connection of the ChannelModel of an id
  users,           \* m_users: the connection of the UsersModel of an id
  currentChannel,  \* m_currentChannel, by its id
  currentUsers,    \* m_currentUsers, by its id
  enabled,         \* the docks and the disconnect action are
  dialog,          \* the connection that the settings were opened with
  acts             \* how much the user has done

windowVars == <<server, chats, users, currentChannel, currentUsers, enabled, dialog, acts>>
vars == <<connVars, windowVars>>

Nothing == [id \in {} |-> NoServer]

Init ==
  /\ ConnInit
  /\ server = NoServer
  /\ chats = Nothing
  /\ users = Nothing
  /\ currentChannel = NoId
  /\ currentUsers = NoId
  /\ enabled = FALSE
  /\ dialog = "closed"
  /\ acts = 0

(* The settings are modal. *)
Reachable == fault = "none" /\ dialog = "closed"

Acts == acts < MaxActs /\ acts' = acts + 1

(* At the start, and when the user wants to; a second time does nothing. *)
ConnectToServer(s) ==
  /\ Reachable
  /\ ~enabled
  /\ server = NoServer
  /\ life[s] = "none"
  /\ life' = [life EXCEPT ![s] = "alive"]
  /\ server' = s
  /\ LET watched == NewMirror(NewPlain(conn[s], Object("monitor", NoId)), Object("channels", NoId))
     IN  conn' = [conn EXCEPT ![s] = [watched EXCEPT !.socket = "connecting"]]
  /\ UNCHANGED <<core, broadcasts, heardEarly, fault, chats, users, currentChannel,
                 currentUsers, enabled, dialog, acts>>

(* stateChanged(ConnectedState) *)
Established(s) ==
  /\ Usable(s)
  /\ conn[s].socket = "connecting"
  /\ enabled' = TRUE
  /\ conn' = Connected(s)
  /\ UNCHANGED <<core, life, broadcasts, heardEarly, fault, server, chats, users,
                 currentChannel, currentUsers, dialog, acts>>

ChatModels == {Object("chat", id) : id \in DOMAIN chats}

(* Mutant: the models of the chats are deleted and not forgotten. *)
ChatsRemembered == chats

ChatsKept == Nothing

(* stateChanged(UnconnectedState): refused, lost, or closed as asked. *)
Lost(s) ==
  /\ Usable(s)
  /\ conn[s].socket \in {"connecting", "connected", "closing"}
  /\ enabled' = FALSE
  /\ conn' = [conn EXCEPT ![s] =
       UnregisterConsumers([@ EXCEPT !.socket = "unconnected", !.out = <<>>, !.in = <<>>],
                           ChatModels)]
  /\ chats' = ChatsKept
  /\ life' = [life EXCEPT ![server] = "doomed"]
  /\ server' = NoServer
  /\ currentChannel' = NoId
  /\ core' = [core EXCEPT ![s] = NewClient]
  /\ UNCHANGED <<broadcasts, heardEarly, fault, users, currentUsers, dialog, acts>>

DisconnectFromServer ==
  /\ Reachable
  /\ enabled
  /\ server # NoServer
  /\ conn[server].socket = "connected"
  /\ conn' = DisconnectFromHost(server)
  /\ UNCHANGED <<core, life, broadcasts, heardEarly, fault, windowVars>>

Opened(id) ==
  LET chat == IF id \in DOMAIN chats THEN conn[server]
              ELSE NewPlain(conn[server], Object("chat", id))
  IN  IF id \in DOMAIN users THEN chat ELSE NewMirror(chat, Object("users", id))

With(models, id) ==
  [i \in DOMAIN models \cup {id} |-> IF i \in DOMAIN models THEN models[i] ELSE server]

ChannelClicked(id) ==
  /\ Reachable
  /\ enabled
  /\ conn' = [conn EXCEPT ![server] = Opened(id)]
  /\ chats' = With(chats, id)
  /\ users' = With(users, id)
  /\ currentChannel' = id
  /\ currentUsers' = id
  /\ UNCHANGED <<core, life, broadcasts, heardEarly, fault, server, enabled, dialog, acts>>

MessageEntered ==
  /\ Reachable
  /\ enabled
  /\ currentChannel # NoId
  /\ Acts
  /\ LET s == chats[currentChannel]
     IN  conn' = [conn EXCEPT ![s] = SendFromConsumer(@, Packet("send", currentChannel))]
  /\ UNCHANGED <<core, life, broadcasts, heardEarly, fault, server, chats, users,
                 currentChannel, currentUsers, enabled, dialog>>

(* The settings can be opened at any time. *)
ShowSettings ==
  /\ Reachable
  /\ Acts
  /\ dialog' = server
  /\ IF server = NoServer
     THEN fault' = "noServer" /\ UNCHANGED conn
     ELSE conn' = [conn EXCEPT ![server] = NewSettings(@)] /\ UNCHANGED fault
  /\ UNCHANGED <<core, life, broadcasts, heardEarly, server, chats, users,
                 currentChannel, currentUsers, enabled>>

(* The page deletes its model, unless the connection has done so. *)
CloseSettings ==
  /\ fault = "none"
  /\ dialog # "closed"
  /\ dialog' = "closed"
  /\ conn' = IF Contains(conn[dialog].consumers, Settings)
             THEN [conn EXCEPT ![dialog] = UnregisterConsumers(@, Parts(Settings))]
             ELSE conn
  /\ UNCHANGED <<core, life, broadcasts, heardEarly, fault, server, chats, users,
                 currentChannel, currentUsers, enabled, acts>>

SocketStep(s) == Established(s) \/ Lost(s)
UserStep ==
  \/ \E s \in Servers : ConnectToServer(s)
  \/ DisconnectFromServer
  \/ \E id \in ChatIds : ChannelClicked(id)
  \/ MessageEntered
  \/ ShowSettings
  \/ CloseSettings

Next ==
  \/ ConnNext /\ UNCHANGED windowVars
  \/ \E s \in Servers : SocketStep(s)
  \/ UserStep

Spec == Init /\ [][Next]_vars

-------------------------------------------------------------------------------
TypeOK ==
  /\ ConnTypeOK
  /\ server \in Servers \cup {NoServer}
  /\ \A opened \in {chats, users} :
       DOMAIN opened \subseteq ChatIds /\ Range(opened) \subseteq Servers
  /\ currentChannel \in ChatIds \cup {NoId}
  /\ currentUsers \in ChatIds \cup {NoId}
  /\ enabled \in BOOLEAN
  /\ dialog \in Servers \cup {NoServer, "closed"}
  /\ acts \in 0 .. MaxActs

(* What is on its way to the core, in the order in which it arrives. *)
Coming(c) ==
  CASE c.socket \in {"idle", "connecting"} -> c.queue
    [] c.socket \in {"connected", "closing"} -> c.out
    [] OTHER -> <<>>
Pending(s) == Coming(conn[s])

(* The first n packets that are coming say that something is on, or take   *)
(* back what was on before.                                                *)
Says(coming, n, on, off) ==
  \E i \in 1..n : coming[i] = on /\ \A j \in (i + 1)..n : coming[j] # off
TakesBack(coming, n, off) == \E j \in 1..n : coming[j] = off

(* What the core knows when it has read these.                             *)
Known(s, n, ch) ==
  \/ Says(Pending(s), n, Hello(ch), Goodbye(ch))
  \/ ch \in core[s].channels /\ ~TakesBack(Pending(s), n, Goodbye(ch))
WillPass(s, n, ch) ==
  \/ Known(s, n, ch)
  \/ Says(Pending(s), n, Hello("*"), Goodbye("*"))
  \/ core[s].monitor /\ ~TakesBack(Pending(s), n, Goodbye("*"))

Working == {s \in Servers : life[s] = "alive" /\ conn[s].socket \in {"connecting", "connected"}}

(* The answer to a "list" finds the way back: whatever consumers came and  *)
(* went before, the core passes the channel on when it reads the request,  *)
(* and does so for every consumer when it has read everything.             *)
AnswersComeBack ==
  fault = "none" => \A s \in Working :
    /\ \A n \in DOMAIN Pending(s) :
         Pending(s)[n].cmd = "list" => WillPass(s, n, Pending(s)[n].channel)
    /\ \A o \in Range(conn[s].consumers) \ {Settings} : ChannelOf(o) \in CoreChannels =>
         WillPass(s, Len(Pending(s)), ChannelOf(o))

(* A ServerConnection holds pointers to consumers that exist, each once,   *)
(* and every consumer with a channel is found under its channel only.      *)
Finds(c) ==
  /\ IsInjective(c.consumers)
  /\ \A ch \in DOMAIN c.subscriptions :
       c.subscriptions[ch] = {o \in Range(c.consumers) \ {Settings} : ChannelOf(o) = ch}
  /\ \A o \in Range(c.consumers) \ {Settings} : ChannelOf(o) \in DOMAIN c.subscriptions
ConsumersAreFound == fault = "none" => \A s \in Servers : Finds(conn[s])

(* The subscriptions of the client are those of its consumers, and those   *)
(* that the core will know are the same, except for a channel on which a   *)
(* packet came while nobody was subscribed: m_subscriptions[channel] in    *)
(* socketDataReady makes an entry, and the next subscriber's request is    *)
(* not sent.                                                               *)
SubscriptionsAgree ==
  /\ ConsumersAreFound
  /\ fault = "none" => \A s \in Working : \A ch \in CoreChannels :
       LET has == Entry(conn[s], ch) # {}
           known == Known(s, Len(Pending(s)), ch)
       IN  (known => has) /\ (has => known \/ ch \in heardEarly[s])

(* The window never uses a connection or a model that is gone: its chats   *)
(* are consumers of its present connection, the current chat is one of     *)
(* them, and whatever is enabled has a connection to act on.  Only the     *)
(* settings can bring the client down, when there is no connection or when *)
(* it is lost while they are open.                                         *)
WindowIsSound ==
  /\ fault # "none" => dialog # "closed"
  /\ enabled => server # NoServer /\ conn[server].socket \in {"connected", "closing"}
  /\ server # NoServer => life[server] = "alive"
  /\ \A s \in Servers : life[s] = "alive" => s = server
  /\ \A id \in DOMAIN chats :
       chats[id] = server /\ Contains(conn[server].consumers, Object("chat", id))
  /\ currentChannel # NoId => currentChannel \in DOMAIN chats

(* Packets reach the core once and in order, those that were queued while  *)
(* the connection was being made before those that came after.             *)
Link == INSTANCE PacketLink WITH
  Links <- Servers,
  open <- [s \in Servers |-> conn[s].socket \in {"idle", "connecting", "connected"}],
  pending <- [s \in Servers |-> Pending(s)]
ImplementsPacketLink == Link!Spec
===============================================================================
