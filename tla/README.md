# TalkTalk in TLA+

TalkTalk is a chat program in C++ and Qt 5. A *core* keeps connections to IRC
servers; *clients* connect to the core and show what it knows. The core is a
message bus between connections; nearly everything a client shows is a list of
the core that the client mirrors. These modules model that, check it with TLC,
and prove with TLAPS, among others, the main invariants of the bus and that it is an
atomic broadcast, that a mirror catches up with its list, that a client is heard on
the channels it wants and uses nothing that is gone, that packets are read as they were
written however TCP cuts them, that the lists of the IRC plugin are those of its buffers
and only a file that cannot be written leaves a change of the configuration unsaved,
that a client's tree of channels is sound and catches up with the lists, that the
statements of the SQL helpers are about the rows that their callers ask for, that the
backlog records the ordinary text that it has been told of, in order and under one row
of a channel, that a page acts on what it shows, and that a chat misses no line and leaves its reader where
he is.

The repository has no tests and no documentation but comments and assertions,
so the reference for every definition is the code. Paths below are relative to
`src/`. `PROJECT.json` maps every definition to the lines it models.

## 1. Inventory

### 1.1 The core

| part | state | operations | talks to |
|---|---|---|---|
| message bus: `core/ConnectionManager`, `core/AbstractClientConnection`, `core/main.cpp` | `m_connections`; of each connection `m_channels`, `m_monitor`; a thread and its event queue per plugin and per TCP client | `newConnection`, `connectionDestroyed`, `broadcast`, `receive`, `subscribeTo`, `unsubscribeFrom`, `setMonitor` | every connection, by signals that are calls within a thread and events between threads |
| TCP plugin: `core/tcp` | `m_socket` of a client | listen, accept, `setup`, `readyRead`, `toClient`, `disconnected` | bus, clients |
| web socket plugin: `core/websockets` | `m_socket` | as TCP, in the plugin's thread | bus |
| synchronised list: `core/SyncableList` | `m_objects`, `m_mapping`, the objects' properties | `add`, `remove`, `set`, `get`, `list`, commands for an object, `propertyChanged`, `ready` | its plugin (calls), bus |
| IRC plugin: `core/irc` | servers, their buffers, ids of buffers | add, remove, connect, disconnect, buffers that come and go, messages | bus, two kinds of lists, IRC library, configuration |
| configuration: `common/BaseConfigObject` | save timer, file | `scheduleSave`, `saveNow`, `loadNow` | IRC plugin |
| messages: `core/irc/IrcServer`, `IrcMessageFormatter` | none | make lines of a message of the network, answer commands | bus |
| backlog: `core/backlog` | database, `m_channelMapping` | follows `chat:channels`, records messages, migrates | bus |
| SQL helpers: `core/backlog/SqlHelpers` | of a builder: conditions, values | `WHERE`, `AND`, `SET`, `COLUMN` and their statements | backlog |

What makes them correct:

* bus: every two live registered connections hear each other; a message is
  heard once and in order by those who were joined when it was sent; a deleted
  connection is not used; a socket is set up before it is used.
* lists: a mirror that has been answered ends up equal to the list; a command
  for something that is gone does no harm.
* configuration: what has been changed is in the file in the end, unless the file
  cannot be written, and the file can be read at every start.
* backlog: every message of a known channel is recorded under one channel row, unless
  its text begins with a colon.
* SQL helpers: each value is bound to the placeholder of its own condition.

### 1.2 The client

| part | state | operations | talks to |
|---|---|---|---|
| `client/core/ServerConnection`, `AbstractConsumer` | socket, `m_messageQueue`, `m_subscriptions`, `m_consumers` | subscribe, unsubscribe, send, deliver a packet, teardown | core (TCP), models |
| `SyncedList`, `SyncedListModel` | `m_rows`; `m_indices` | `consume`, `addOrUpdate`, slots `added`, `removed`, `changed` | `ServerConnection`, views |
| `ChannelsModel`, `UsersModel`, `ChannelModel`, `MonitorModel` | a tree, groups, messages | slots of the mirror; `consume` | mirrors, views |
| `widgetsgui/ChatView` | the model it shows, `m_columnSizes`, scroll bar | `setModel`, `rowsInserted`, `updateGeometries`, `paintEvent` | `ChannelModel`, `MonitorModel` |
| `widgetsgui/MainWindow` | current connection and models | connect, disconnect, click a channel | all of the above |
| `widgetsgui/pages/IRCServersPage`, `IrcServersModel` | current row, form and what is typed there, buttons, an open question | select, type, apply, new, remove, connect, disconnect; rows that come and go | mirror of `irc:servers`, core |
| packets: `common/TcpUtils` | a socket's buffer | `writePacket`, `readPacket` | both ends of a connection |

What makes them correct: a consumer gets what it has subscribed to; a model
shows what its mirror holds; the tree's pointers agree; teardown deletes
everything once; a page acts on what it shows; a view of a chat has all its rows
within reach, and its reader stays where he is; a packet is read as it was
written, and without waiting for the next.

### 1.3 What is hard

* *Threads.* Plugins register themselves from their own threads in a manager
  without a lock; clients are registered by the main thread, are set up and
  receive in their own.
* *Questions.* A dialog is an event loop of its own: what it has asked about may
  be gone when it is answered.
* *Order.* A mirror subscribes, asks, and gets announcements and answers to
  other users in any order, while the list itself is being registered.
* *Lifetime.* Connections, list objects and models are raw pointers; deletions
  are events of other threads.
* *Geometry.* The range of a scroll bar, its value, the rows and the size of a view
  change one by one, by signals, events and a timer.
* *Failure.* A disconnection between two packets or within one; a crash while
  the configuration is being written.

`PROJECT.json` lists each of these under `hazards`, at its line, with the
properties that look at it.

## 2. Modules

| module | models | role |
|---|---|---|
| `Broadcasting` | | abstract: atomic broadcast between linked connections |
| `MessageBus` | `ConnectionManager`, `AbstractClientConnection`, threads of `main.cpp`, life of TCP and web socket clients | implements `Broadcasting` |
| `MessageBusProofs` | | theorems about `MessageBus`, its refinement among them |
| `SequenceLemmas` | | lemmas about queues and lists, used by the proofs |
| `ListMessages` | commands and announcements of a list | used by the next two |
| `SyncableList` | `SyncableQObjectList`, `IrcClientConnection::toClient` | the core's end |
| `SyncedList` | `SyncedList`, `SyncedListModel` | the client's end |
| `MirroredList` | | abstract: users go through the states of a list in order |
| `ListSync` | both ends and the client connections between them | implements `MirroredList` |
| `ListSyncProofs` | | theorems about `ListSync` |
| `Queues` | what stays of a list or queue when elements are removed | used by `ServerConnection` and `Backlog` |
| `PacketLink` | | abstract: packets arrive once and in order until the link closes |
| `ServerConnection` | `ServerConnection`, `AbstractConsumer`, constructors and destructors of the models, the core's end of one connection | used by the next |
| `MainWindow` | `MainWindow`, the settings page | implements `PacketLink` |
| `TcpFraming` | `TcpUtils`, `readyRead`, the socket's buffer | implements `PacketLink` |
| `ConnectionProofs` | | theorems about `MainWindow` with `ServerConnection`, and about `TcpFraming` |
| `Configuration` | `BaseConfigObject`, the end and the start of the process | used by the next |
| `IrcServers` | `IrcClientConnection`, `IrcServer`, their lists | used by the next three |
| `IrcServersProofs` | | theorems about `IrcServers` |
| `ChannelsTree` | `ChannelsModel` on its mirror | used by the next |
| `ChannelsView` | the plugin, one client's connection to it, its tree | composes the two |
| `ChannelsViewProofs` | | theorems about `ChannelsView` and `ChannelsTree` |
| `SqlHelpers` | builders of SQL statements | used by the next |
| `Backlog` | `BacklogClientConnection`, its database, the plugin it follows | composes the two |
| `BacklogProofs` | | theorems about `SqlHelpers` and `Backlog` |
| `Chat` | messages from `IrcServer` and `IrcMessageFormatter` through `ChannelModel` and `MonitorModel` to `ChatView` | |
| `ServersPage` | `IRCServersPage`, `IrcServersModel`, the list they show | |
| `WidgetsProofs` | | theorems about `Chat` and `ServersPage` |
| `MCMessageBus`, `MCListSync`, `MCMainWindow`, `MCTcpFraming`, `MCChannelsView`, `MCBacklog`, `MCServersPage`, `MCChat` | | instances for TLC |

Operators named after a definition with a further word (`JoinOneWay` beside
`Join`), under a comment that begins "Mutant", are what a bug would make of it.
No specification uses them; `PROJECT.json` says which property notices each.

### 2.1 MessageBus

`life` and `phase` follow a connection from its construction through
`newConnection`, which is split where another thread can come in between: the
wiring loop (`Wire`) and the append with the posting of `ready()`
(`AppendConnection`). `wired` holds the Qt connections from `broadcast` to
`receive`; `emitting` what an emission still owes, because another thread may
destroy a receiver in the middle of it; `queue` the events of each thread.
Receivers of one emission are served in any order, which covers the order of
connection that Qt uses. `heard` and `sent` number the messages: they are not
in the code, and no guard but the bound `MaxSent` reads them.

Undefined behaviour is explicit. Two threads inside the unlocked manager set
`raced`, and an append may then lose its own entry or the other's. A pointer
to a deleted connection or a null socket sets `fault`, which ends the run of
the process: nothing is claimed of what follows. How a null socket comes about is:
`BadSocketsAreClosing` says that it is only between a client's disconnection and its
deletion that a broadcast can find one (`core/tcp/TcpClientConnection.cpp:25`).

What a live connection broadcasts or subscribes to is any of `Channels`, at
any time its thread is free; the commands themselves belong to `ListSync`.
The deletion of a part may happen at any time, at once or with `deleteLater`,
which covers what the web socket and IRC plugins do and more.

### 2.2 ListSync

One list, all its users. `SyncableList` has one action per operation of the
core's end: `Add`, `RemoveObject`, `PropertyChanged`, `Set`, `GetAll`,
`ListItems`, `Invoke` (a command for one object), `ListReady`. `up` is the
queue of the plugin's thread, `down` that of each client connection. `SyncedList`
has one operator per announcement that `SyncedList::consume` knows and the slots
of the model that shows the list. `ListSync` adds the client connections:
`FromClient` keeps subscriptions to itself and passes commands on to what is
joined with the client, `Receive` passes announcements on if the client is
subscribed at that moment.

The instance is the list of IRC servers (`OnlyIndex`, one announced property, the
status, and one that users edit, the name). That of channels differs in that whole
rows are announced and properties never; `ChannelsView` and `Backlog` have it, with
the plugin at its end. Properties forwarded to a wrapped
object, all of those of a channel and all but the status of a server, are never
announced: `wrappedPropertyChanged` (`core/SyncableList.cpp:408`) looks the signal
up in the class of the wrapper. `Announced` holds the properties that are
announced, `Editable` those that users set, which are none of them: a "set" is
`WrappedPropertyChanged`, and reaches mirrors with the next row that is sent. So
`MirrorCatchesUp` and `ImplementsMirroredList` speak of announced properties only.
An object that is added has the properties `NewRow`.

Abstracted: an emission reaches the queues of all client threads at once,
which no property can tell apart, since each client's queue has one sender
and `MessageBus` shows that it is in order; the echo of a client's command to
other clients and `remove:error`, which mirrors ignore; the disconnection of a
user, which ends his mirror. Ids are fresh UUIDs (`core/ObjectWithId.h:8`).
The null message id of `ready()` is taken to survive its conversion to JSON
and back, as it does in Qt up to 5.10.

`crashed` and `failed` stand for the undefined behaviour after an index of -1
or a dangling pointer in the core, and a failed assertion in a client.

### 2.3 ServerConnection and MainWindow

A client has connections one after the other, each with its consumers. One
event calls several methods of a connection (a click builds two models, each of
which registers, subscribes and asks), so the methods are operators from a
connection to the connection they leave, and the events of `MainWindow` and of
the socket are actions that apply them. `conn[s]` holds the members of a
connection and what is on its way in both directions; `core[s]` what the
connection's other end keeps of its subscriptions, changed by the packets as
`fromClient` does. A consumer is named by its class and its channel; it exists
as long as it is in `consumers`, since its constructor registers it and its
destructor takes it out.

`FromCore` distinguishes only what `consume` does: a message that a
`ChannelModel` can read and one that it cannot, after which the round of
delivery ends with an error to the core. The models' contents belong to
`ListSync`. `heardEarly` is not in the code: it remembers where an entry of
`m_subscriptions` was made by a packet instead of a subscriber.

`fault` is `"noServer"` when the settings are opened without a connection, and
`"deletedTwice"` when the destructor of a connection meets `IrcServersModel` and
the mirror that it owns. Both need the settings, as `WindowIsSound` says. What
the model also shows, and no property denies because nothing in the repository
does: `m_users` keeps models of a lost connection (`users` in `Lost`), and after
the first packet of a channel a later subscription to it is silent, which only
the monitor makes up for (`AnswersComeBack` holds, and would not without it).

Closing the window and quitting are left out.

### 2.4 TcpFraming

One direction of one connection, byte by byte. `writePacket` puts the size before the
packet (`Header`); the network delivers any number of bytes at a time (`Arrive`);
`ReadHeader` and `ReadPayload` are the two halves of `readPacket`, each enabled when
enough bytes are in the buffer. The loop of `readyRead` is the `reader` that goes on to
the next header as long as there are bytes. A peer that leaves (`Leave`) lets what it
has written arrive, or a first part of it. A reader that is told of it while it waits in
`readPacket` goes on waiting, as the code does, which asks the socket nothing
(`looping`, `common/TcpUtils.cpp:24`).

`FramingAssumption` says that a byte has more than one value, that a header has a
byte, and that no packet is too long for its header: `writePacket` does not look, but a
`QByteArray` is shorter than 2 GB.

The refinement `StreamIsPacketLink` maps what the reader has still to read (`Unread`)
to the packets that it will find there (`Packed`), so that `PacketLink`, which
`MainWindow` relies on, is what framing delivers, up to a last packet that is cut. The
size that has been read already counts as part of it, also for a reader that waits in
vain: without it, the rest of a packet whose writer has gone would be taken for packets
of its own when a part of it looks like one.

### 2.5 Configuration and IrcServers

`Configuration` has the file, the save timer, and the process. A save is two steps,
`SaveNow`, which truncates, and `Write`; the process may end before, after and
between them. An empty file cannot be parsed: no later start succeeds. Both steps may
fail. A file that cannot be opened gives a warning after the timer has stopped, and
keeps its content (`common/BaseConfigObject.cpp:51`); nobody looks whether `write()` has
succeeded. Neither is tried again: the change is unsaved until the next one starts the
timer, or the program quits. `missed` remembers that such a save has failed; it is not
in the code and guards nothing. `UnsavedIsScheduled` says that there is no other way
for a change to be left behind.

`servers` are the plugin's servers, each with its buffers by title, the rows of
its list, its host, whether it is online, and the ids that the file has given to
titles (`known`, `m_predefinedBufferIds`). One action per handler: `AddServer`,
`RemoveServer`, `SetHost`, `StatusChanged`, `AddBuffer`, `RemoveBuffer`, `RenameBuffer`,
`RegisterList`, `ListReady`, and those of the file. Three oddities of the code are
kept. The parent of a channel is looked up by the host (`m_bufferIds[host]`,
`core/irc/IrcServer.cpp:248`), so that channels that come after the host has been
set anew have none. A query that is renamed keeps the id that the file had for its
old title, so that two rows may share an id; `dangling` and `RemoveWrongRow` are
what `m_mapping` makes of that. And the removal of a server announces nothing of
its channels.

### 2.6 ChannelsTree and ChannelsView

`ChannelsTree` is the mirror and the tree of one client: `Added`, `Removed` and the
announcements that call them. A channel is in `nodes` with its parent and its
children, in `roots`, and in `parked` under a parent that is not there yet.
`ChildrenOf`, `RowCount`, `Index`, `Parent` and `RowOf` are the methods by which views
walk the tree. `treeFault` holds what an assertion denies, or what a pointer to a
deleted channel would do.

`TreeIsSound` says that these methods agree, that the tree has a node of every row of
the mirror and no other, and that whoever waits in `parked` for a channel that is not
there is a root. It says nothing of entries under a channel that has come:
`m_channelsWithoutParents` is never cleared, a channel that came back or got another
parent meanwhile stays in it, and nothing reads them again, since a channel that can be
a parent, a host's, is never taken from a list.

`ChannelsView` composes the tree with `IrcServers`: a client that begins to listen
at any time, and whose announcements arrive in order (what `MessageBus` and `ListSync`
show). Its request may reach the lists or be lost: its packets are read as soon as its
thread runs, while its registration waits in the main thread's queue
(`core/tcp/TcpServer.cpp:18`), and a request that is read before is broadcast to nobody,
or to those lists that have been joined by then (`Follow`, `request = "early"`). It is
not repeated: such a client knows of the lists that become ready later, of what is
added afterwards, and of no more. `TreeCatchesUp` says what every client shows, those
included: all of the lists that have told it what they have (`answered`, not in the
code), and these are all that are ready unless the request was early. A client's row
order within "items" is that of the list. The names that nodes show are left out.

A removed server leaves its channels in the trees of clients, since nothing is
announced: `orphans`, not in the code, are the channels that were listed when their
server went. `TreeCatchesUp` lets them remain, and nothing else. That departs from what
the page asks its user before it removes a server, that "all related data will be
removed" (`client/widgetsgui/pages/IRCServersPage.cpp:73`).

### 2.7 SqlHelpers and Backlog

A builder is a record of what its calls have collected: conditions, values, columns
that are set. `StringifyWhere` numbers the placeholders of the text on from the
values that are there by then, `Collected` is what preparing the statement leaves in
it, and `BindValue` what each number is bound to; `Selected` and `Updated` are the
rows that the statement is then about. `Insertions` has the one thing that callers would
not expect: text that begins with a colon is not bound but put into an INSERT as it is
(`core/backlog/SqlHelpers.cpp:194`). It may be no SQL, and the error is logged and passed
over; it may be an expression such as a placeholder that is compared with `NULL`, whose
value is then recorded; and it may close the row and bring others with it. The model
lets it add any rows, up to `MaxSpliced`, and says nothing of what they hold
(`SplicedRow`). All other values are bound to placeholders of their own: the INSERT adds
one row of them (`RowOf`).

`Backlog` is the thread of the backlog (`feed` is its queue) and the plugin's, with the
statements of `SqlHelpers`. `Checked` is `check()`: whether a channel is known, its row,
its subscription; it is an operator on a sequence of ids, because "items" calls it for
each of its items. A query that has not been advanced is never valid, so each look
inserts a row again, and finds the first; the rows that the other items insert come
after that one or are of other channels, so that all can be looked up at the end. The
database outlives the process: it may be new, half made by a crash, of this or of
another version, or not open. The last two, and a half made one, leave `ready()` in a
loop (`looping`). A message may be text, text that begins with a colon, or a notice
whose time is a number: the first is recorded, the second leaves any rows or none, under
any channel's row (`AnyRow`), and the third throws where nothing catches it and ends the
process. `Unusual` holds the numbers of the messages that may be of the latter two
kinds. `OneRowPerChannel` does not speak of the rows of the second kind,
`RecordedInOrder` says that they come where that message's one row would, and
`ToldIsRecorded` does not ask for them. `told` and `due` are not in the code.

### 2.8 ServersPage

One user's page, and what the core tells it. `current` is the view's current index,
which Qt moves to a neighbour while its row is removed (`RowGoes`, external);
`form` the row that the mapper submits; `buttons` and `boxOn` what
`updateConnectButtons` enables. A question (`dialog`) is an event loop of its own:
packets go on, clicks do not. `removeClicked` reads the current index before and
after it. A change of `connected` or of a name reaches the page only with a row that
somebody asks for, so form and buttons follow the mirror and not the core.

Of the form's fields the model has the name. The mapper fills it (`Populate`) when it
goes to a row, and again when the model tells that the name of its row has changed
(`Changed`), whatever is being typed there; `submit()` goes on when the model refuses
the status, which cannot be edited, so that all fields are given to `setData`. `typed`
is not in the code: it says that the user has changed what the form shows, which is
what `OnlyTypedIsApplied` needs. `SyncedList::set` compares with the mirror, which
does not hear of what it has set itself: a name that is put back to what it was is
never sent. `SetProperty` has it; nothing in the repository says otherwise.

A row that a change of status has made before its row came is never shown
(`SyncedList`) and is left out, as is a connection that is lost (`MainWindow`).

### 2.9 Chat

One client, its monitor and its chats. `MessageReceived` is the handler of the
network's messages: `MessageType` and `MessageContent` are what the formatter makes
of each type, a message of the day being as many lines as it has, and a type that is
not handled none. `ErrorNotice` answers an unknown command with the notice that
`ChannelModel` refuses; the round of delivery ends there (`SocketDataReady`), so that
the monitor, which is told after the chat's model, misses it. Lines are numbered, and
the notice has number 0.

The view has one action per call that Qt or the window makes of it: `SetModel` in
`ChannelClicked`, `RowsInserted` in `Consume`, `DoItemsLayout` for the timer that Qt
starts for a new model, `ResizeEvent`, and `UserScrolls`. Each row is one line high,
since the hint formats a column that the models do not have
(`client/widgetsgui/ChatView.cpp:213`). `setRange` of the scroll bar takes its value
along (external). A click on the channel that is shown disconnects the view from its
model for good (`attached`): nothing in the repository says otherwise, so
`RowsAreInReach` and `KeepsItsPlace` speak of attached views, and a model that is
deleted under a view that is not ends the program (`Crash`).

Words, fonts and colours are left out, and so are `visualRect` and `indexAt`, whose
results nothing uses.

## 3. Runs

| run | question | bounds | states |
|---|---|---|---|
| `MCBusOne` | does a core with one plugin stay consistent? when is a closed socket used? does everything arrive? | TCP plugin, 2 clients, one sends twice, the other changes what it listens to, fair threads | 41k |
| `MCBusTwo` | do two plugins, up to a race? is the bus atomic even then? | 2 plugins, client, list, 1 broadcast | 196k |
| `MCBusRaceBug` | do registered connections always hear each other? **No** | 2 plugins | |
| `MCListServers` | do mirrors of the server list catch up? | 2 users, 1 id, status and name, 2 values, every command, 2 changes | 1.7M |
| `MCListOrder` | do users see the list's states in order? does everybody get the list? | 1 user, 2 ids, status and name, 2 values, every command, 2 changes, fair queues | 80k |
| `MCClient` | does a client hear what it asked for, and take down what is lost? | 2 connections in turn, 1 chat, 2 of settings and messages, 1 packet from the core | 236k |
| `MCTree` | what leaves a change unsaved? do lists agree with buffers, and a client's tree with the lists? | 2 servers, 2 hosts, 2 chats, 3 ids, 3 changes in each run of the process, saves that fail, a request that may be lost | 0.9M |
| `MCTreeRootBug` | does a channel that goes always hang from a parent? **No** | as `MCTree` | |
| `MCBacklog` | is every message recorded, once, in order, under one row? | 1 server, 1 host, 1 chat, 3 ids, 2 changes in each run of the process, 2 messages of which the first may be no ordinary text and then leave up to 2 rows, 4 rows, over restarts | 4.0M |
| `MCChat` | does a chat miss nothing on its way to the screen, and show all of it? | 2 chats with 2 lines each, 1 notice, 3 of the types, lines 2 high, 2 widths, views 1 and 3 high | 2.4M |
| `MCFraming` | is each packet read, as it was written, and without waiting for the next? when does a reader hang? | bytes of one bit, 2 in a header, 3 packets of 0 to 3 bytes, fair network and reader | 18k |
| `MCPage` | does the page show what is current? does a removal take what was named, and apply what was typed? | 3 servers, any there at first, 2 names, 4 acts of the user and 3 of others | 3.6M |

Deadlock is not checked: with every counter at its bound the models stop, as
the program does when nothing happens.

The bounds are enough because the behaviours of interest need few actors: a race needs
two threads, a missed pair two connections, an overtaken message two messages of one
sender, a stale row one object, one change and one mirror, and a request of somebody
else one more user. A channel without a parent needs a host that is changed, and two
rows with one id a query that is renamed, saved, loaded and joined by another: three
changes, and a restart, which makes room for more. A channel that is recorded under two
rows needs two messages, and four rows let it be looked at twice in one process and again
in the next; two rows of a spliced text are enough for one that is recorded twice. One
bit in a byte and two bytes in a header have a size that needs both, three packets one
that is in the middle, and four sizes one that is empty; one packet begins like the
header of an empty one, so that the middle of a packet can be taken for a packet. Views
lower than a line, and not a multiple of one, are the boundaries of a range; two chats
let the view change its model, and the three types are one per kind of what the
formatter does. A question that is overtaken needs two servers, a neighbour on both
sides three; a form that is overtaken needs a selection, a keystroke and a click, and a
row that is renamed and asked for.

The bounds are `MaxSent`, `Listeners`, `MaxChanges`, `MaxActs`, `MaxEvents`,
`MaxBroadcasts`, `MaxId`, `MaxMessages`, `MaxRows`, `MaxSpliced`, `MaxSaid`, `MaxNotices`,
`MaxPackets` and the number of ids and connections (which bounds additions). In
`MCClient` one packet from the core is enough for an entry made too early, a message
that cannot be read, and an answer that comes while a connection closes; two acts for
settings that are opened again.

Symmetry is used for users and ids in `MCListServers`, for servers, hosts and chats
in `MCTree`, for ids and names in `MCPage` and for chats in `MCChat`, which check
invariants and, the last two, action properties.

What the passing runs do not deny is in section 2 and under `hazards`: among others that a removed server leaves its channels
in the trees of clients, although the page says that "all related data will be
removed", and that the page may remove another server than its question names
("This will remove %1", `client/widgetsgui/pages/IRCServersPage.cpp:73`) when the named
one has gone meanwhile. `OthersGoOnlyAfterIt` says that this is the only case.

The violated properties are under `findings` with the lines that they
contradict.

## 4. Fairness

`MessageBus` assumes that every thread which has something to do does it:
weak fairness of each plugin's start, of each emission and append that has
begun, and of each event loop. Nothing is assumed of clients, which may stay
silent, or of deletion. `ListSync` assumes the same of the core's threads, the
connections and the clients' event loops; users and plugins need not act.
`TcpFraming` assumes that bytes on the way arrive, and that the reader's thread,
which its slot does not leave, reads what it can; writers need not write.

## 5. Proofs

The theorems hold for every value of the constants, from the assumptions of the
modules alone.

### The bus

`MessageBusProofs`, for every set of plugins, clients, parts, channels and every bound:

* `TypeCorrect`: `[]TypeOK`;
* `ManagerCorrect`: `[]ManagerInv`, the inductive invariant of the manager, and from
  it `RegisteredHearEachOther`
  (`[]JoinedUnlessRaced`) and `DeadAreForgottenOnNotice` (`[]DeadAreNoticed`,
  which no run repeats);
* `ThreadsCorrect`: `[]ThreadInv`, that of the threads, and from it `OnePluginIsSafe`
  (`[]SinglePluginNeverRaces`) and `SetupIsFirst` (`[]SetupComesFirst`);
* `SocketsCorrect`: `[]SocketInv`, that of the sockets, and with the former two
  `BadSocketsAreOnTheirWay` (`[]BadSocketsAreClosing`);
* `DeliveryCorrect`: `[](RosterInv /\ DeliveryInv)`, and from it
  `BusIsAtomicBroadcast`: the specification implements `Broadcasting`.

*Why the strengthening.* That two registered connections are joined is not
inductive: a connection inside `newConnection` is joined already and not in the
list. `ListIsJoined` therefore speaks of the list together with whoever is
inside; `OneInManager` says that this is one connection; `ListIsComplete` that
registered connections are in the list, so that the loop meets them;
`ListIsWatched` that every one in the list has its `destroyed` joined;
`NoticesAreTrue` that only a dead connection is taken out. That one plugin does
not race needs the order of its life: `ReadyAfterRegistration` and
`CreatedByReadyPlugins` say that the main thread has nothing to register before
the plugin itself is registered, and `EventsAreAtHome` that nobody else's events
are handled in its thread. A message that meets a bad socket is either an event, whose
socket `SetupComesFirst` has set up, or a call within the thread of its sender, which
is then the client itself, and `EmittersAreSetUp`; that its deletion is waiting is
`NullIsClosing`, which `UnbornAreUnset` carries over a creation.

That a step which delivers a message is a step of `Broadcasting` needs to know that it
is the next one the receiver has to hear. `PostedAreOwed` and `EmissionsAreLast` say
that whatever is under way has not been heard; `MissingAreOnTheirWay` that whatever has
not been heard is under way; and `QueuesAreInOrder` that the queues are in the order of
sending: so the first in a queue is the next. That a pair which is being joined owes
each other nothing is `NewAreApart`: the manager has not come to it before.

### Lists and their mirrors

`ListSyncProofs`, for every set of users, ids, properties and values, whether the list
sends whole rows or ids, and whatever commands users send and plugins change:

* `TypeCorrect`: `[]TypeOK`;
* `ShownCorrect`: `[]ShownAreKnown`;
* `MirrorCorrect`: `[]MirrorInv`, and from it `CatchesUp`: `[]MirrorCatchesUp`;
* `ListIsMirrored`: `ImplementsMirroredList`, of a list that sends whole rows.

*Why the strengthening.* The property speaks of users who have been answered and are
not being answered again; the argument is about all of them. It is one about last
words: `Way(u)` is everything on its way to a mirror, and of each id and each property
the last that is said there is true (`WordsAreTrue`), because a change appends a later
word. A removal is the last word of all (`RemovalIsLast`), because ids are
never used again, and nothing that is gone has not its removal on the way
(`WhatIsGoneLeaves`). What an answer to "list" does not have is said after it
(`ItemsAreWhole`), so that nothing is missing once it is consumed (`LoadedIsWhole`).
`Strangers` says why nobody is told a part: what a user is not subscribed to leaves no
trace with him.

*The refinement.* What a user is going to see is what the mirror will hold after each
announcement on its way. `Mirrors` is a recursive function of the place on the way, so
that what it does step by step follows from its existence (`MirroredExists`): the last
announcement adds a view (`ViewsMore`), the first one takes one (`ViewsTail`). A step
of the list is one to the users (`Announce`) if the view it adds is that of the list as
it is then, which is `NowIsLatest`. It is kept because at the end of the way the mirror
is the list (`MirrorsEnd`), which follows from the last words of the invariant, index by
index (`Follows`), and from one thing more that the invariant of indices does not say:
that rows are whole in the end (`RowsAreWhole`). An early "changed" makes a row of one
property, and has to be followed by the answer or "added", which bring the others.
A list that sends ids has such rows in between, so that its users do see states that
the list has not been in; for it only `MirrorCatchesUp` holds.

### The IRC plugin and its file

`IrcServersProofs`, for every set of servers, hosts and chats and every bound:

* `TypesHold`: `[]IrcTypeOK`;
* `ChangesAreSaved`: `[]UnsavedIsScheduled`;
* `RowsAreThoseOfBuffers`: `[]RowsAreBuffers`;
* `ParentsAreListed`: `[]ParentsComeFirst`.

*Why the strengthening.* That the file is up to date unless the timer runs or a
save has failed is not inductive, for two reasons. A start that loads servers schedules a save, but one
that loads none does not, and must then have read a file that holds none:
`FileIsSound` says what a file may be. And `RegisterList` and `ListReady` change a
server without scheduling a save; that this is no matter of the file follows only
if a server is a record with the fields that the code gives it, of which `Saved`
reads three: `ServersAreRecords`. `SaveInv` is the two and the invariant itself.

Rows and buffers survive a restart, so their invariant, `BuffersInv`, is about the file
as well: what is stored is sound (`StoredSound`), the ids of a server, used,
stored or remembered, are below the next, and those of two servers apart, whichever of
them is running and which in the file (`Apart`). `IsListOf` is `RowsAreBuffers` of one
server, in the form that a removal, a new row and a new title each keep; `Rooted` is
`ParentsComeFirst`, with the addition that a parent is the row of a host: the rows of
channels and queries, which are removed and renamed, are nobody's parent.

### The client's connections

`ConnectionProofs`, about `MainWindow`, for every set of connections and chats and every
bound. It is
assumed that there are finitely many ids, none of which is the name of another channel
(they are UUIDs), and that the names for "no connection" are no connections.

* `TypesHold`: `[]TypeOK`;
* `ChannelsAgree`: `[]SubscriptionsAgree`;
* `ListsComeBack`: `[]AnswersComeBack`;
* `NothingGoneIsUsed`: `[]WindowIsSound`;
* `ConnectionIsPacketLink`: every connection implements `PacketLink`.

*Why the strengthening.* What the core will know is what it knows now and what is on its
way, in the queue before the socket is connected and on the wire after. `Agrees` says
that this is what the consumers want, of a connection by itself; that a packet appended
to the way changes only its own channel is the lemma about each method, and the methods
of one event follow each other by it. That a list comes back is not about this
at all: a subscription that is skipped because of an entry made too early is made up for
by the monitor only, so `Monitored` says that the monitor is the first thing a core is
told and that nothing on the way takes it back. `Attended` joins both to the monitor's
being a consumer as long as the connection lives: only the destructor ends it.

That the window uses nothing that is gone relates two objects, the window and the
present connection: `ModelsBelong` says that the consumers with a chat are the window's
chats, and `WindowBelongs` what the rest of the window refers to. `SettingsBelong` says
that the settings and their mirror are consumers only while the dialog names their
connection, with one of each: so that nothing but open settings makes a destructor
delete twice. `QuietBefore` says that a socket that has not connected has
carried nothing, so that flushing the queue leaves the order of what was said. Steps of
the refinement are then of three kinds (`Emits`, `Moves`): something is said, the first
is read, or the connection closes.

`RemoveAll` is a recursive function. That its result has the elements that stay, each
once if it was (`RemoveAllProperties`), is proved from the least length at which it would
not (`LeastNumber`), since the library's induction theorems cannot be used.

### The bytes of a connection

`ConnectionProofs`, about `TcpFraming`, for bytes of any number of values, headers of any
size, and any packets that fit their headers:

* `FramedStreamIsPacketLink`: the framed stream implements `PacketLink`;
* `ReadAsWritten`: what has been read is a beginning of what has been written (no run
  repeats it: the refinement says so of each step);
* `OnlyCutPacketsHang`: `[]HangsOnlyWhenCut`.

*Why the strengthening.* What the reader finds depends on bytes and not on packets:
nothing in the state says where one ends. `StreamInv` says that there are packets which
do: what is unread is the frames of some packets `ps`, whole, and then at most a cut one,
and what was written is what was read, `ps`, and the packets that were lost
(`Comes`). As long as the writer is there, nothing is cut and nothing lost. Each step
then keeps these packets but `WritePacket`, which adds one, `ReadPayload`, which takes
the first, and `Leave`, which cuts the bytes on the wire anywhere: that what is left are
again whole frames and a cut one is `FramedCut`. That the reader waits for ever
only with a cut packet is that the rest of a whole one cannot be shorter than its size
(`NoneIsWhole`).

What leads from the invariant to `Packed` is arithmetic and uniqueness. `Headers` says
that the number read from the header of n is n, for every base and number of digits,
from `RemainderByProduct`; `HeaderOfFrame` that bytes which begin with the header of a
size and with a frame are those of a packet of that size; and `PackedFramed` that the
packets found in frames `ps` and a cut one are `ps`. `Packed` is a recursive function on
the places of a sequence; that such functions exist and are unique is proved where it is
needed from the least counterexample.

### The tree of channels

`ChannelsViewProofs`, about the plugin, a client and the tree together, for every set of
servers, hosts and chats and every bound; it builds on `IrcServersProofs`:

* `BothSidesTyped`: `[]TypeOK`;
* `TheTreeIsSound`: `[]TreeIsSound`;
* `TheTreeCatchesUp`: `[]TreeCatchesUp`.

*Why the strengthening.* That no pointer leads to a deleted channel is not a matter of
the tree alone: a list that removed a channel with children would leave them with a
parent that is gone, and one that removed a channel that others wait for would have it
adopt what has been deleted. The core does neither, because only the channels of hosts
are parents and lists never remove those. This has to be known of ids, not of rows,
since ids live on in the file, in other servers' files and in announcements on their
way. So the invariant `TreeInv` says that there is a set F of ids, those of hosts'
channels of all servers there have ever been, such that the ids of F are those of hosts
in every list and file (`KindInv`), what is on its way names parents of F and
removes none (`FeedSound`), and in the tree only channels of F have children or are
waited for (`TreeSound`: `Listing`, `Waiting`). A new host widens F by an id that nobody
has (`Widens`).

That the tree catches up is about the history of a channel: what the mirror knows of it
and what is still on its way are one sequence of words (`Says`, `Ends`). `HistoryInv`
says that a channel that is listed is told of again wherever it ends (`Resumed`), that
in the end no other parent is told of than that of its row (`Only`), and that it has
been told of if its list has told what it has (`Complete`, `Told`), by an answer or when
it became ready; and that one that no list has, has ended
after all that was told of it (`Silent`). It speaks of channels whose id no two rows
share, or have shared (`Clean`): a removal of one of the two would end the other, which
is what the code does. Taking an announcement from the queue only moves a part of the
history into the mirror (`TakingKeeps`). When nothing is on its way, the mirror is all
of it, and the tree follows the mirror (`Mirrored`).

### Statements and the backlog

`BacklogProofs` is first about `SqlHelpers`, for every sequence of calls and every
table, from no assumption but that a builder has been made by its calls:

* `SelectsWhatIsAsked` and `UpdatesWhatIsAsked`: the rows that a statement finds or
  changes are those that meet all conditions, each with its own value, whatever the
  builder has collected before, so that preparing it again changes nothing;
* `BoundIsInserted`: an INSERT whose values are bound, and that gives every `NOT NULL`
  column but the key, adds one row, with the value that was given for each column.

The lemma both of the first rest on is `PlaceholderIsBound`: since numbering goes on
from what has been collected, the number of a condition is the place of its value.

Then about `Backlog`, for every set of servers, hosts and chats and every bound. It is
assumed that there are finitely many servers (the ones that are asked for a channel are
put into some order) and that neither a number nor the words "nick" and "normal", which
are put into the table with the text, begin with a colon.

* `BacklogTypesHold`: `[]TypeOK`;
* `ChannelsHaveOneRow`: `[]OneRowPerChannel`;
* `LogIsInOrder`: `[]RecordedInOrder`;
* `NothingToldIsLost`: `[]ToldIsRecorded`.

*Why the strengthening.* `LogIsFiled` says which row a message is under: the first of
its channel (`IsFirst`). That is kept because the table only grows (`FirstStays`), and it
is what the next look finds because a SELECT finds the rows of the channel and no others
(`RowsOfChannel`, from `SelectsWhatIsAsked`). `NumbersAscend` takes the order of what is
recorded on through the queue. That nothing is lost says of states with an empty queue
what must have been so on the way there: `DueIsComing` says of each message that is due
that it is in the queue, behind the announcement of its channel unless there is a
subscription already, with no removal between (`Hears`), and behind `ready()` unless the
database is open (`IsOpenAt`). When its turn comes, its row is that of a channel and its
values are bound, so that the INSERT of `createTables()`'s columns adds one row of them
(`TextIsRecorded`, from `BoundIsInserted`). A text that is spliced adds rows that are
under any row and have its number (`SplicedIsRecorded`): the invariants say of those
that they stand together, and of all others what they would without them. That announcements are of ids is the
matter of `IrcServersProofs`, whose `BuffersInv` is carried along.

### Chats

`WidgetsProofs`, about `Chat`, for every set of chats, every size of the view and every
height of a line:

* `TypeCorrect`: `[]TypeOK`;
* `NothingIsMissing`: `[]NoLineIsMissing`;
* `AllIsInReach`: `[]RowsAreInReach`;
* `PlaceIsKept`: `KeepsItsPlace`, the action property, which needs of the past only
  that the value is within the range.

*Why the strengthening.* That no line is missing is kept by every step but that of a new
connection, which starts with no lines at all: `LinesInv` adds that without a connection
there are neither lines nor chats (`NothingWithout`). That a row can be scrolled to says
nothing of the next range. `ViewIsLaidOut` says what the range is: that of the rows that
the model has now, unless the view is detached or its layout is put off. That each row
is then painted somewhere is arithmetic (`RowIsReached`).

### The settings page

`WidgetsProofs`, about `ServersPage`, for every set of ids and names and every bound:

* `PageCorrect`: `[](PageTypeOK /\ PageInv)`, and from it `PageTyped` (`[]PageTypeOK`) and
  `ShowsCurrent` (`[]PageShowsCurrent`);
* `AppliesTyped`: `OnlyTypedIsApplied`, an action property;
* `QuestionCorrect`: `[]QuestionInv`, and from it `RemovesWhatItAsked`:
  `OthersGoOnlyAfterIt`, an action property.

*Why the strengthening.* What the form shows is applied by a later click, so that
`FormHasName` and `CommandsAreMeant` say what a form and a command can hold at all. That
a removal takes what was named unless it is gone says nothing of a name that comes
back: `RemovalsAreLast` says that the core speaks of no server after its removal, and
`QuestionHolds` that the named one, once it is not current, has gone for good.

### Form, and what is left to TLC

For each invariant there are a lemma for `Init`, one lemma per group of
actions that it depends on, and a theorem that combines them with `PTL`.
Each strengthening has been checked by TLC on the module's run before it was proved.
Lemmas about queues and lists are in `SequenceLemmas`, stated once.

*Model-checked only.* Liveness, under fairness, and what it needs of
`ENABLED`: `EveryMessageArrives`, `EventuallyRegistered`, `EventuallyForgotten`,
`EverybodyLoads`, `EverythingIsRead`. Every invariant, action property and refinement
that a passing run checks is a theorem. Each of them needs its bounds only as guards of
the model, so that nothing hangs on their size.

## 6. Not modelled

What remains is the end of a plugin whose server cannot listen (`thread()->exit`), with
the rest of the core going on, and error replies to packets that cannot be read.

Left out for good:

* `common/Json.h` and `common/Json.cpp`, `common/Exception.h`, the plugin factories:
  they keep no state. Where a conversion throws and something depends on it, the
  module of its caller has it (`SocketDataReady`, `TakeMessage`, `Start`).
* `common/FileSystem`: the configuration writes its file itself; of these functions
  the program calls only `exists` and `read`, which change nothing.
* The types of columns, the wording of statements and of IRC messages, and the layout
  of widgets but for the chat view's: no property depends on them.
* Other database drivers than SQLite: the code only chooses and loads them.
* The lists of a channel's users: the code makes them and never registers them on the
  bus, so that clients hear nothing of them and `UsersModel` shows nothing.
  `SyncableList`, lists of rows without objects, which nothing uses.
