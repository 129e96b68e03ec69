------------------------------- MODULE Backlog --------------------------------
(***************************************************************************)
(* The backlog plugin, in its own thread, and the IRC plugin that it       *)
(* listens to: it follows chat:channels, subscribes to every channel that  *)
(* it hears of, and records their messages in a database that outlives the *)
(* process.  feed is the event queue of its thread.                        *)
(*                                                                         *)
(* A table is a sequence of rows, in the order in which the default driver *)
(* (SQLite) finds them.  A channel's row is its UUID: the name is never    *)
(* written, since the UPDATE that would do it is built and not executed.   *)
(* Its queries are those of SqlHelpers.                                    *)
(***************************************************************************)
EXTENDS IrcServers, SqlHelpers, Queues

CONSTANTS
  MaxMessages, \* bound on messages
  Unusual,     \* numbers of those that may be other than text to be recorded
  MaxRows      \* bound on the rows that there are when one is added

ASSUME MaxAssumption == MaxMessages \in Nat /\ MaxRows \in Nat
ASSUME FiniteAssumption == IsFiniteSet(Servers)  \* ids are UUIDs

(* A nick, a number and the name of a type do not begin with a colon. *)
ASSUME ColonsAssumption ==
  \A text \in ColonTexts : text \notin {"nick", "normal"} /\ text \notin Nat

VARIABLES
  backlog,    \* "off", "joined" (inside newConnection), "registered" (ready()
              \* is queued), "ready", or "looping" in migrateDatabase
  subscribed, \* channels, besides chat:channels
  mapping,    \* m_channelMapping: row of a channel
  schema,     \* of the database: "none" (no tables), "unversioned" (tables and
              \* no version yet), "latest", "other" (another version)
  channels,   \* table chat_channels
  log,        \* table chat_messages: [row, id, number]; the id of the channel
              \* and the number are not in the code, they tell messages apart
  asked,      \* servers whose list has "list" in its thread's queue
  gets,       \* "get" events of the IRC thread: a server and a channel's id
  sent,       \* the last message's number
  told,       \* not in the code: channels that the backlog has been told of
  due         \* not in the code: messages sent on these once ready() is queued,
              \* until they are recorded, but for text that is spliced

backlogVars ==
  <<backlog, subscribed, mapping, schema, channels, log, asked, gets, sent, told, due>>
vars == <<allVars, backlogVars>>

Init ==
  /\ IrcInit
  /\ backlog = "off"
  /\ subscribed = {} /\ mapping = None
  /\ schema \in {"none", "other"}
  /\ channels = <<>> /\ log = <<>>
  /\ asked = {} /\ gets = <<>>
  /\ sent = 0
  /\ told = {} /\ due = {}

OnBus == {s \in DOMAIN servers : servers[s].phase # "made"}

-----------------------------------------------------------------------------
(* The backlog's thread.  What check() does is an operator from the fields *)
(* it changes to these fields and the ids that it is called for: "items"   *)
(* calls it for every item in turn.                                        *)

Here == [channels |-> channels, mapping |-> mapping, subscribed |-> subscribed]

(* SELECT id FROM chat_channels WHERE uuid = id. *)
RowsOf(table, id) ==
  Selected([i \in DOMAIN table |-> [uuid |-> table[i]]], WHERE(Builder, "uuid", id))

(* The first one, if any; the number of none is 0. *)
FirstRow(table, id) == IF RowsOf(table, id) = {} THEN 0 ELSE Min(RowsOf(table, id))

LastRow(table, id) == CHOOSE i \in DOMAIN table :
  table[i] = id /\ \A j \in DOMAIN table : table[j] = id => j <= i

(* The table of messages, by createTables(), and what is put into it. *)
ChatMessages ==
  LET id == NOT_NULL(PRIMARY_KEY(COLUMN(<<>>, "id")))
      channel == NOT_NULL(COLUMN(id, "channel"))
      source == NOT_NULL(COLUMN(channel, "source"))
      type == NOT_NULL(COLUMN(source, "type"))
      content == NOT_NULL(COLUMN(type, "content"))
  IN  NOT_NULL(COLUMN(content, "timestamp"))

(* The INSERT of a message.  Nicks, types and times are always bound. *)
Recorded(row, content, number) ==
  Insertions(ChatMessages, <<"channel", "source", "type", "content", "timestamp">>,
             <<row, "nick", "normal", content, number>>)

IsOpen == backlog = "ready"

(* Mutant: a channel is mapped to the row that has just been inserted. *)
CheckedLast(d, ids) ==
  LET table == IF IsOpen THEN d.channels \o ids ELSE d.channels
      looked == [id \in Range(ids) |-> IF IsOpen THEN LastRow(table, id) ELSE 0]
  IN  [channels |-> table,
       mapping |-> looked @@ d.mapping,
       subscribed |-> d.subscribed \cup Range(ids)]

(* Mutant: a channel that is in the database is taken for subscribed. *)
CheckedOnce(d, ids) ==
  LET table == IF IsOpen THEN d.channels \o ids ELSE d.channels
      new == Range(ids) \ Range(d.channels)
  IN  [channels |-> table,
       mapping |-> [id \in new |-> IF IsOpen THEN FirstRow(table, id) ELSE 0] @@ d.mapping,
       subscribed |-> d.subscribed \cup new]

(* Mutant: the channel is looked up in vain. *)
CheckedInVain(d, ids) ==
  [channels |-> IF IsOpen THEN d.channels \o ids ELSE d.channels,
   mapping |-> [id \in Range(ids) |-> 0] @@ d.mapping,
   subscribed |-> d.subscribed \cup Range(ids)]

(* query.isValid() is false before the first next(): the channel is        *)
(* inserted every time, and then looked up; what has been inserted for     *)
(* others meanwhile does not change the row that is found.  While the      *)
(* database is closed every query fails, and the row is 0.                 *)
Checked(d, ids) ==
  LET table == IF IsOpen THEN d.channels \o ids ELSE d.channels
      row(id) == IF IsOpen THEN FirstRow(table, id) ELSE 0
  IN  [channels |-> table,
       mapping |-> [id \in DOMAIN d.mapping \cup Range(ids) |->
                      IF id \in Range(ids) THEN row(id) ELSE d.mapping[id]],
       subscribed |-> d.subscribed \cup Range(ids)]

Become(d) ==
  /\ channels' = d.channels
  /\ mapping' = d.mapping
  /\ subscribed' = d.subscribed

(* A text that is spliced in may say what row its own are under. *)
AnyRow == -1

Entry(row, id, number) ==
  [row |-> IF row = SplicedRow THEN AnyRow ELSE row["channel"], id |-> id, number |-> number]

(* Mutant: the statement is executed, and then executed once more. *)
RecordTwice(id, m) ==
  IF IsOpen
  THEN \E rows \in Recorded(Checked(Here, <<id>>).mapping[id], m.content, m.number) :
         log' = log \o [i \in DOMAIN (rows \o rows) |-> Entry((rows \o rows)[i], id, m.number)]
  ELSE log' = log

Record(id, m) ==
  IF IsOpen
  THEN \E rows \in Recorded(Checked(Here, <<id>>).mapping[id], m.content, m.number) :
         log' = log \o [i \in DOMAIN rows |-> Entry(rows[i], id, m.number)]
  ELSE log' = log

(* The constructor subscribes to chat:channels, and newConnection joins    *)
(* the connection with those that are there.                               *)
Join ==
  /\ NoSave
  /\ backlog = "off"
  /\ backlog' = "joined"
  /\ following' = TRUE
  /\ UNCHANGED <<servers, nextId, acts, feed, subscribed, mapping, schema, channels, log,
                 asked, gets, sent, told, due>>

(* Then it posts ready().  What has come in between is handled before it.  *)
PostReady ==
  /\ NoSave
  /\ backlog = "joined"
  /\ backlog' = "registered"
  /\ feed' = Append(feed, [cmd |-> "ready"])
  /\ UNCHANGED <<servers, nextId, acts, following, subscribed, mapping, schema, channels,
                 log, asked, gets, sent, told, due>>

Take(cmds) ==
  /\ Running
  /\ backlog \in {"registered", "ready"}
  /\ feed # <<>>
  /\ Head(feed).cmd \in cmds
  /\ feed' = Tail(feed)

(* ready(): createTables() gives a database without tables these and a     *)
(* version, migrateDatabase() has nothing to do, the channels of the       *)
(* database are loaded, later rows over earlier ones; the lists are asked. *)
Ready ==
  /\ Take({"ready"})
  /\ schema \in {"none", "latest"}
  /\ schema' = "latest"
  /\ backlog' = "ready"
  /\ mapping' = [id \in Range(channels) \cup DOMAIN mapping |->
                   IF id \in Range(channels) THEN LastRow(channels, id) ELSE mapping[id]]
  /\ asked' = OnBus
  /\ UNCHANGED <<configVars, servers, nextId, acts, following, subscribed, channels, log,
                 gets, sent, told, due>>

(* A database that cannot be opened, one without a version, or one of      *)
(* another version: migrateDatabase() never changes the one that it tests. *)
(* Its queue is never looked at again, and forgotten here.                 *)
ReadyLoops(opens) ==
  /\ NoSave
  /\ backlog = "registered"
  /\ feed # <<>> /\ Head(feed).cmd = "ready"
  /\ opens => schema \in {"unversioned", "other"}
  /\ backlog' = "looping"
  /\ following' = FALSE /\ feed' = <<>>
  /\ told' = {} /\ due' = {}
  /\ UNCHANGED <<servers, nextId, acts, subscribed, mapping, schema, channels, log, asked,
                 gets, sent>>

(* The ids that an announcement lists. *)
Listed(m) ==
  IF m.cmd = "items" THEN [i \in DOMAIN m.rows |-> m.rows[i].id] ELSE <<m.row.id>>

(* receive() and toClient() of the backlog, for each announcement. *)
TakeListed ==
  /\ Take({"added", "item", "items"})
  /\ Len(channels) < MaxRows
  /\ Become(Checked(Here, Listed(Head(feed))))
  /\ UNCHANGED <<configVars, servers, nextId, acts, following, backlog, schema, log,
                 asked, gets, sent, told, due>>

TakeRemoved ==
  /\ Take({"removed"})
  /\ subscribed' = subscribed \ {Head(feed).id}
  /\ UNCHANGED <<configVars, servers, nextId, acts, following, backlog, mapping, schema,
                 channels, log, asked, gets, sent, told, due>>

(* A message has no name: the channel's item is asked of every list, for   *)
(* each of which this is an event of its own.  ensureString() of a time    *)
(* that is a number throws, and nothing in the thread catches it.          *)
TakeMessage ==
  LET m == Head(feed)
  IN  /\ Take({"message"})
      /\ Len(channels) < MaxRows
      /\ m.id \in subscribed
      /\ Become(Checked(Here, <<m.id>>))
      /\ gets' = gets \o SetToSeq({[server |-> s, id |-> m.id] : s \in OnBus})
      /\ IF m.content # "unreadable" THEN Record(m.id, m) /\ NoSave ELSE Crash /\ UNCHANGED log
      /\ due' = due \ {log'[i].number : i \in DOMAIN log'}
      /\ UNCHANGED <<servers, nextId, acts, following, backlog, schema, asked, sent, told>>

(* receive() drops what is on a channel that is not subscribed to. *)
TakeOther ==
  /\ Take({"message"})
  /\ Head(feed).id \notin subscribed
  /\ UNCHANGED <<configVars, servers, nextId, acts, following, backlog, subscribed, mapping,
                 schema, channels, log, asked, gets, sent, told, due>>

-----------------------------------------------------------------------------
(* The IRC plugin's thread. *)

(* Ids that a message tells of, or takes back. *)
ToldBy(m) == IF m.cmd \in {"added", "item", "items"} THEN Range(Listed(m)) ELSE {}
TakenBackBy(m) == IF m.cmd = "removed" THEN {m.id} ELSE {}

(* What this step adds to the queue is one announcement at most. *)
Tell ==
  told' = IF feed' = feed THEN told
          ELSE (told \ TakenBackBy(Last(feed'))) \cup ToldBy(Last(feed'))

(* messageReceived: a message of the network, or one that a client sends   *)
(* ("send" in IrcServer::toClient), on the channel of its buffer.  A       *)
(* command that is not known is answered by a notice instead, whose time   *)
(* is a number and no string: unreadable.                                  *)
Contents == {"text", "unreadable"} \cup ColonTexts

MessageReceived(s, t, content) ==
  LET id == servers[s].buffers[t]
  IN  /\ NoSave
      /\ t \in DOMAIN servers[s].buffers
      /\ servers[s].phase # "made"
      /\ sent < MaxMessages
      /\ content = "text" \/ sent + 1 \in Unusual
      /\ sent' = sent + 1
      /\ Say(<<[cmd |-> "message", id |-> id, number |-> sent + 1, content |-> content]>>)
      /\ due' = IF id \in told /\ backlog # "joined" /\ content \notin ColonTexts
                THEN due \cup {sent + 1} ELSE due
      /\ UNCHANGED <<servers, nextId, acts, following, backlog, subscribed, mapping, schema,
                     channels, log, asked, gets, told>>

(* BaseSyncableList::toClient, "list". *)
AnswerList(s) ==
  /\ NoSave
  /\ asked' = asked \ {s}
  /\ Say(<<Items(servers[s])>>)
  /\ Tell
  /\ UNCHANGED <<servers, nextId, acts, following, backlog, subscribed, mapping, schema,
                 channels, log, gets, sent, due>>

(* "get": a list that has no such channel evaluates m_objects.at(-1). *)
AnswerGet ==
  LET g == Head(gets)
  IN  /\ gets # <<>>
      /\ gets' = Tail(gets)
      /\ \/ /\ NoSave
            /\ \E i \in FindIndex(servers[g.server], g.id) :
                 Say(<<[cmd |-> "item", row |-> servers[g.server].rows[i]]>>)
         \/ /\ FindIndex(servers[g.server], g.id) = {}
            /\ Crash
            /\ UNCHANGED feed
      /\ Tell
      /\ UNCHANGED <<servers, nextId, acts, following, backlog, subscribed, mapping, schema,
                     channels, log, asked, sent, due>>

(* A server that is deleted takes the events of its list with it.  The     *)
(* status of a connection is no matter of the backlog's, and left out; nor *)
(* are saves that fail, which leave what a save leaves that never comes.   *)
PluginStep ==
  /\ ListStep \/ SaveIrc \/ WriteIrc
  /\ ~missed'
  /\ Tell
  /\ asked' = asked \cap DOMAIN servers'
  /\ gets' = RemoveAll(gets, {g \in Range(gets) : g.server \notin DOMAIN servers'})
  /\ UNCHANGED <<backlog, subscribed, mapping, schema, channels, log, sent, due>>

StartCore ==
  /\ StartIrc
  /\ UNCHANGED backlogVars

(* The database stays as it is; messages on the way are gone.  The process *)
(* may end in the middle of createTables().                                *)
EndCore ==
  /\ EndIrc
  /\ \/ UNCHANGED schema
     \/ /\ backlog = "registered" /\ schema = "none"
        /\ schema' = "unversioned"
  /\ backlog' = "off"
  /\ subscribed' = {} /\ mapping' = None
  /\ asked' = {} /\ gets' = <<>>
  /\ told' = {} /\ due' = {}
  /\ UNCHANGED <<channels, log, sent>>

Next ==
  \/ StartCore \/ EndCore \/ PluginStep
  \/ Join \/ PostReady \/ Ready \/ \E opens \in BOOLEAN : ReadyLoops(opens)
  \/ TakeListed \/ TakeRemoved \/ TakeMessage \/ TakeOther
  \/ \E s \in DOMAIN servers, t \in Titles, content \in Contents :
       MessageReceived(s, t, content)
  \/ \E s \in asked : AnswerList(s)
  \/ AnswerGet

Spec == Init /\ [][Next]_vars

-----------------------------------------------------------------------------
(* Type correctness of the backlog and its database. *)
TypeOK ==
  /\ backlog \in {"off", "joined", "registered", "ready", "looping"}
  /\ subscribed \subseteq Ids /\ told \subseteq Ids
  /\ DOMAIN mapping \subseteq Ids /\ \A id \in DOMAIN mapping : mapping[id] \in 0..Len(channels)
  /\ schema \in {"none", "unversioned", "latest", "other"}
  /\ channels \in Seq(Ids)
  /\ \A i \in DOMAIN log :
       /\ log[i].row \in DOMAIN channels \cup {AnyRow}
       /\ log[i].id \in Ids /\ log[i].number \in 1..MaxMessages
  /\ asked \subseteq DOMAIN servers
  /\ \A i \in DOMAIN gets : gets[i].server \in DOMAIN servers
  /\ sent \in 0..MaxMessages /\ due \subseteq 1..sent

(* All messages of a channel are recorded under one row of chat_channels,  *)
(* in spite of the rows that are inserted for it again and again, and of   *)
(* restarts, and those of different channels under different rows          *)
(* (BacklogClientConnection::toClient); except that text which begins with *)
(* a colon may be recorded under any row (InsertQueryBuilder::stringify).  *)
OneRowPerChannel ==
  \A i, j \in DOMAIN log :
    AnyRow \notin {log[i].row, log[j].row} =>
      (log[i].id = log[j].id <=> log[i].row = log[j].row)

(* Messages are recorded in the order in which they were sent, once        *)
(* (BacklogClientConnection::toClient): one may leave several rows only if *)
(* its text begins with a colon, and then they come one after another.     *)
RecordedInOrder ==
  \A i, j \in DOMAIN log : i < j =>
    \/ log[i].number < log[j].number
    \/ log[i].number = log[j].number /\ log[i].row = AnyRow /\ log[j].row = AnyRow

(* A message on a channel that has been announced to the backlog, and not  *)
(* been taken back since, is recorded when the backlog has come to it,     *)
(* although it subscribes only when it handles the announcement; except    *)
(* for what is sent while it is being registered, which it may handle      *)
(* before the database is open, and for text that begins with a colon,     *)
(* which SqlHelpers takes for SQL.                                         *)
ToldIsRecorded ==
  Running /\ backlog = "ready" /\ feed = <<>> => due = {}
===============================================================================
