--------------------------- MODULE ServerConnection ---------------------------
(***************************************************************************)
(* The client's connection to the core: consumers register with it and     *)
(* subscribe to channels, the core is told of the first subscription to a  *)
(* channel and of the end of the last, packets are queued until the socket *)
(* is connected, and a packet from the core goes to the consumers of its   *)
(* channel and to those of all channels.                                   *)
(*                                                                         *)
(* The methods of a ServerConnection are operators from a connection to    *)
(* the connection that they leave, since one event calls several of them.  *)
(***************************************************************************)
EXTENDS Naturals, Sequences, FiniteSets, SequencesExt, Queues

CONSTANTS
  Servers,        \* ServerConnection objects
  ChatIds,        \* ids of IRC channels
  MaxBroadcasts   \* bound: packets that the core has for the client

NoId == "none"

(* Ids are UUIDs. *)
ASSUME ChatIdsAssumption ==
  /\ IsFiniteSet(ChatIds)
  /\ ChatIds \cap {NoId, "*", "chat:channels", "irc:servers"} = {}
ASSUME MaxBroadcastsAssumption == MaxBroadcasts \in Nat

Object(kind, id) == [kind |-> kind, id |-> id]

(* Consumers: MonitorModel, the mirror of ChannelsModel, ChannelModels, the *)
(* mirrors of UsersModels, IrcServersModel and its mirror.                  *)
Singles == {"monitor", "channels", "settings", "servers"}
Objects == [kind : Singles, id : {NoId}] \cup [kind : {"chat", "users"}, id : ChatIds]
Settings == Object("settings", NoId)
ServersList == Object("servers", NoId)

CoreChannels == ChatIds \cup {"chat:channels", "irc:servers"}
Channels == CoreChannels \cup {"*"}

ChannelOf(o) ==
  CASE o.kind = "monitor" -> "*"
    [] o.kind = "channels" -> "chat:channels"
    [] o.kind = "servers" -> "irc:servers"
    [] o.kind \in {"chat", "users"} -> o.id

VARIABLES
  conn,        \* the members of each ServerConnection, its socket and what
               \* is on its way
  core,        \* m_channels and m_monitor of the TcpClientConnection of each
  life,        \* "none", "alive", "doomed" by deleteLater(), or "dead"
  broadcasts,  \* how much the core has sent
  heardEarly,  \* channels that a packet came on before anybody subscribed
  fault        \* "none", or the undefined behaviour that ended the process

connVars == <<conn, core, life, broadcasts, heardEarly, fault>>

Nobody == [ch \in {} |-> {}]
NewClient == [channels |-> {}, monitor |-> FALSE]

NewConnection ==
  [socket |-> "idle", queue |-> <<>>, out |-> <<>>, in |-> <<>>,
   subscriptions |-> Nobody, consumers |-> <<>>]

ConnInit ==
  /\ conn = [s \in Servers |-> NewConnection]
  /\ core = [s \in Servers |-> NewClient]
  /\ life = [s \in Servers |-> "none"]
  /\ broadcasts = 0
  /\ heardEarly = [s \in Servers |-> {}]
  /\ fault = "none"

Packet(cmd, ch) == [cmd |-> cmd, channel |-> ch]
ToCore == [cmd : {"subscribe", "unsubscribe", "list", "send", "error"}, channel : CoreChannels]
          \cup [cmd : {"monitor", "unmonitor"}, channel : {"*"}]
(* A message is not sound when a ChannelModel cannot read it: the notice   *)
(* of an unknown command has a number where it expects a string.           *)
FromCore == {p \in [channel : CoreChannels, sound : BOOLEAN] : p.sound \/ p.channel \in ChatIds}

-------------------------------------------------------------------------------
(* Methods *)

(* Mutant: what is said while the socket is not connected is dropped. *)
SendAllOrDrop(c, ms) ==
  IF c.socket = "connected" THEN [c EXCEPT !.out = @ \o ms] ELSE c

SendAll(c, ms) ==
  IF c.socket = "connected" THEN [c EXCEPT !.out = @ \o ms]
                            ELSE [c EXCEPT !.queue = @ \o ms]
SendFromConsumer(c, m) == SendAll(c, <<m>>)

Entry(c, ch) == IF ch \in DOMAIN c.subscriptions THEN c.subscriptions[ch] ELSE {}
WithEntry(c, ch, os) ==
  [c EXCEPT !.subscriptions = [k \in DOMAIN @ \cup {ch} |-> IF k = ch THEN os ELSE @[k]]]

(* Mutant: all channels is a channel like the others. *)
HelloPlainly(ch) == Packet("subscribe", ch)

Hello(ch) == Packet(IF ch = "*" THEN "monitor" ELSE "subscribe", ch)
Goodbye(ch) == Packet(IF ch = "*" THEN "unmonitor" ELSE "unsubscribe", ch)

(* Mutant: the core is not told. *)
SubscribeSilently(c, o, ch) == WithEntry(c, ch, Entry(c, ch) \cup {o})

(* An entry is enough for a channel to count as subscribed, even an empty. *)
SubscribeConsumerTo(c, o, ch) ==
  LET told == IF ch \in DOMAIN c.subscriptions THEN c
              ELSE SendFromConsumer(c, Hello(ch))
  IN  WithEntry(told, ch, Entry(c, ch) \cup {o})

(* A new consumer has no channels yet. *)
RegisterConsumer(c, o) == [c EXCEPT !.consumers = Append(@, o)]

Emptied(c, os) == {ch \in DOMAIN c.subscriptions : c.subscriptions[ch] \subseteq os}

(* Mutant: pointers to what is deleted stay with the subscriptions. *)
UnregisterHalf(c, os) == [c EXCEPT !.consumers = RemoveAll(@, os)]

(* unregisterConsumer, for each of some consumers: it looks through all    *)
(* channels, and ends those that nobody is left on.  The keys of a QHash   *)
(* come in any order; nothing depends on it.                               *)
UnregisterConsumers(c, os) ==
  LET emptied == Emptied(c, os)
      kept == DOMAIN c.subscriptions \ emptied
      names == SetToSeq(emptied)
  IN  SendAll([c EXCEPT !.consumers = RemoveAll(@, os),
                        !.subscriptions = [ch \in kept |-> @[ch] \ os]],
              [i \in DOMAIN names |-> Goodbye(names[i])])

-------------------------------------------------------------------------------
(* Consumers *)

NewPlain(c, o) == SubscribeConsumerTo(RegisterConsumer(c, o), o, ChannelOf(o))

NewMirror(c, o) == SendFromConsumer(NewPlain(c, o), Packet("list", ChannelOf(o)))

(* The model is a consumer, of no channel, and so is the mirror it owns. *)
NewSettings(c) == NewMirror(RegisterConsumer(c, Settings), ServersList)

(* What goes when a consumer is deleted. *)
Parts(o) == IF o = Settings THEN {Settings, ServersList} ELSE {o}

(* The destructor deletes what was registered when it began, in turn. *)
Teardown(c) == UnregisterConsumers(c, UNION {Parts(o) : o \in Range(c.consumers)})
DeletesOnce(c) ==
  \A i, j \in DOMAIN c.consumers : i < j => c.consumers[j] \notin Parts(c.consumers[i])

-------------------------------------------------------------------------------
(* Events *)

Usable(s) == fault = "none" /\ life[s] = "alive"

(* Mutant: what was queued is forgotten. *)
FlushNothing(c) == c

Flush(c) == [c EXCEPT !.out = @ \o c.queue]

Connected(s) == [conn EXCEPT ![s] = Flush([@ EXCEPT !.socket = "connected"])]

DisconnectFromHost(s) == [conn EXCEPT ![s].socket = "closing"]

Carries(s) == Usable(s) /\ conn[s].socket \in {"connected", "closing"}

Told(k, m) ==
  CASE m.cmd = "subscribe" -> [k EXCEPT !.channels = @ \cup {m.channel}]
    [] m.cmd = "unsubscribe" -> [k EXCEPT !.channels = @ \ {m.channel}]
    [] m.cmd \in {"monitor", "unmonitor"} -> [k EXCEPT !.monitor = (m.cmd = "monitor")]
    [] OTHER -> k

(* The core reads a packet. *)
FromClient(s) ==
  /\ Carries(s)
  /\ conn[s].out # <<>>
  /\ core' = [core EXCEPT ![s] = Told(@, Head(conn[s].out))]
  /\ conn' = [conn EXCEPT ![s].out = Tail(@)]
  /\ UNCHANGED <<life, broadcasts, heardEarly, fault>>

(* Something is broadcast in the core, an answer to "list" or a change or  *)
(* a message, and the connection passes it on.                             *)
Passes(k, ch) == ch \in k.channels \/ k.monitor

Receive(s, p) ==
  /\ Carries(s)
  /\ broadcasts < MaxBroadcasts
  /\ broadcasts' = broadcasts + 1
  /\ Passes(core[s], p.channel)
  /\ conn' = [conn EXCEPT ![s].in = Append(@, p)]
  /\ UNCHANGED <<core, life, heardEarly, fault>>

(* m_subscriptions[...] makes an entry where there is none.  A consumer    *)
(* that cannot read the packet ends the round, and the core gets an error. *)
Consumed(c, p) ==
  LET looked == WithEntry(c, p.channel, Entry(c, p.channel))
      throws == ~p.sound /\ Object("chat", p.channel) \in Entry(c, p.channel)
  IN  IF throws THEN SendFromConsumer(looked, Packet("error", p.channel))
                ELSE WithEntry(looked, "*", Entry(c, "*"))

SocketDataReady(s) ==
  /\ Carries(s)
  /\ conn[s].in # <<>>
  /\ LET p == Head(conn[s].in)
     IN  /\ conn' = [conn EXCEPT ![s] = Consumed([conn[s] EXCEPT !.in = Tail(@)], p)]
         /\ heardEarly' = IF Entry(conn[s], p.channel) # {} THEN heardEarly
                          ELSE [heardEarly EXCEPT ![s] = @ \cup {p.channel}]
  /\ UNCHANGED <<core, life, broadcasts, fault>>

(* deleteLater() is served. *)
DeleteServer(s) ==
  /\ fault = "none"
  /\ life[s] = "doomed"
  /\ life' = [life EXCEPT ![s] = "dead"]
  /\ conn' = [conn EXCEPT ![s] = [Teardown(@) EXCEPT !.queue = <<>>]]
  /\ heardEarly' = [heardEarly EXCEPT ![s] = {}]
  /\ fault' = IF DeletesOnce(conn[s]) THEN fault ELSE "deletedTwice"
  /\ UNCHANGED <<core, broadcasts>>

ConnNext ==
  \E s \in Servers :
    \/ FromClient(s)
    \/ \E p \in FromCore : Receive(s, p)
    \/ SocketDataReady(s)
    \/ DeleteServer(s)

-------------------------------------------------------------------------------
Fields == {"socket", "queue", "out", "in", "subscriptions", "consumers"}

IsConnection(c) ==
  /\ DOMAIN c = Fields
  /\ c.socket \in {"idle", "connecting", "connected", "closing", "unconnected"}
  /\ c.queue \in Seq(ToCore) /\ c.out \in Seq(ToCore)
  /\ c.in \in Seq(FromCore)
  /\ DOMAIN c.subscriptions \subseteq Channels
  /\ \A ch \in DOMAIN c.subscriptions : c.subscriptions[ch] \subseteq Objects
  /\ c.consumers \in Seq(Objects)

ConnTypeOK ==
  /\ DOMAIN conn = Servers
  /\ \A s \in Servers : IsConnection(conn[s])
  /\ core \in [Servers -> [channels : SUBSET CoreChannels, monitor : BOOLEAN]]
  /\ life \in [Servers -> {"none", "alive", "doomed", "dead"}]
  /\ broadcasts \in 0 .. MaxBroadcasts
  /\ heardEarly \in [Servers -> SUBSET Channels]
  /\ fault \in {"none", "deletedTwice", "noServer"}
===============================================================================
