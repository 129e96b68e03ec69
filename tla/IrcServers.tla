------------------------------ MODULE IrcServers ------------------------------
(***************************************************************************)
(* The IRC plugin: IrcClientConnection with its servers, and of each       *)
(* IrcServer its buffers (channels and queries), their ids, and the list   *)
(* through which clients see them.  All lists share one bus channel,       *)
(* "chat:channels".  Servers and channels are saved by Configuration and   *)
(* loaded when the core starts.                                            *)
(*                                                                         *)
(* Buffers come, go and are renamed as the IRC library's IrcBufferModel    *)
(* says: with what users do and what the network sends.                    *)
(***************************************************************************)
EXTENDS Configuration, SequencesExt

CONSTANTS
  Servers, \* ids of servers
  Hosts,   \* titles that are host names
  Chats,   \* titles of channels and queries
  MaxId,   \* bound on the ids of channels, fresh UUIDs in the code
  MaxActs  \* bound on changes in one run of the process

ASSUME BoundsAssumption == MaxId \in Nat /\ MaxActs \in Nat
ASSUME TitlesAssumption == Hosts \cap Chats = {}

VARIABLES
  servers,   \* the servers there are, with their members
  nextId,    \* ids below it have been given
  acts,
  following, \* a client listens to chat:channels
  feed       \* announcements on their way to it

ircVars == <<servers, nextId, acts, following, feed>>
allVars == <<configVars, ircVars>>

Titles == Hosts \cup Chats
Ids == 1..MaxId
NoId == 0  \* the empty parent of a server's own buffer

None == [x \in {} |-> x]

(* insert() of a QHash. *)
Inserted(map, key, value) ==
  [x \in DOMAIN map \cup {key} |-> IF x = key THEN value ELSE map[x]]

Row(id, title, parent) == [id |-> id, title |-> title, parent |-> parent]
RowIds(srv) == {srv.rows[i].id : i \in DOMAIN srv.rows}

-----------------------------------------------------------------------------
(* A server.  buffers is m_bufferIds by title; rows is m_objects of        *)
(* m_channelsList; dangling holds ids of rows for which its m_mapping has  *)
(* an object that is deleted; known is m_predefinedBufferIds; phase tells  *)
(* whether the list is registered on the bus and has run its ready().      *)

NewServer(host, id) ==
  [host |-> host, online |-> FALSE, phase |-> "made",
   buffers |-> [t \in {host} |-> id], rows |-> <<Row(id, host, NoId)>>,
   dangling |-> {}, known |-> None]

Saved(srv) ==
  [host |-> srv.host, online |-> srv.online,
   channels |-> [i \in DOMAIN srv.rows |->
                  [id |-> srv.rows[i].id, title |-> srv.rows[i].title]]]

Content == [s \in DOMAIN servers |-> Saved(servers[s])]

Stored == IF file.kind = "saved" THEN file.content ELSE None

IdsBy(chs) == [t \in {chs[i].title : i \in DOMAIN chs} |->
                (CHOOSE c \in Range(chs) : c.title = t).id]

(* All but the channel, of which there is one at most, that is the host.   *)
Others(saved) ==
  LET own == {i \in DOMAIN saved.channels : saved.channels[i].title = saved.host}
  IN  IF own = {} THEN saved.channels ELSE RemoveAt(saved.channels, CHOOSE i \in own : TRUE)

(* addChannel for each saved channel: its id is kept in                    *)
(* m_predefinedBufferIds, and a buffer is added.  The server itself has a  *)
(* buffer already, made by the constructor with a new id.                  *)
Loaded(saved, root) ==
  LET others == Others(saved)
      own == NewServer(saved.host, root)
  IN  [own EXCEPT
        !.buffers = Inserted(IdsBy(others), saved.host, root),
        !.rows = @ \o [i \in DOMAIN others |->
                        Row(others[i].id, others[i].title, root)],
        !.known = IdsBy(saved.channels)]

(* The buffer of the host that the connection has now: it may have changed *)
(* since the server's own buffer was made.                                 *)
ParentId(srv, t) ==
  IF t # srv.host /\ srv.host \in DOMAIN srv.buffers THEN srv.buffers[srv.host]
  ELSE NoId

(* Mutant: the row is listed before those that are there. *)
AddedBufferFirst(srv, t, id) ==
  [srv EXCEPT
    !.buffers = Inserted(@, t, id),
    !.rows = <<Row(id, t, ParentId(srv, t))>> \o @,
    !.dangling = @ \ {id}]

(* add() asks m_mapping for the index of the object before it is listed,   *)
(* when it has none yet: it always adds, and m_mapping then has the newest *)
(* object of an id.                                                        *)
AddedBuffer(srv, t, id) ==
  [srv EXCEPT
    !.buffers = Inserted(@, t, id),
    !.rows = Append(@, Row(id, t, ParentId(srv, t))),
    !.dangling = @ \ {id}]

(* The row of the object that m_mapping has, the newest of the id.  When   *)
(* that has been deleted there is none (findIndex() is -1).                *)
FindIndex(srv, id) ==
  LET found == {i \in DOMAIN srv.rows : srv.rows[i].id = id}
  IN  IF id \in srv.dangling THEN {}
      ELSE {i \in found : \A j \in found : j <= i}

(* Mutant: m_bufferIds keeps the buffer. *)
RemovedKeepsId(srv, t, i) == [srv EXCEPT !.rows = RemoveAt(@, i)]

(* Here row i is that of the buffer. *)
RemovedBuffer(srv, t, i) ==
  LET id == srv.buffers[t]
      left == RemoveAt(srv.rows, i)
  IN  [srv EXCEPT
        !.buffers = Restrict(@, DOMAIN @ \ {t}),
        !.rows = left,
        !.dangling = IF \E j \in DOMAIN left : left[j].id = id THEN @ \cup {id} ELSE @]

RenamedBuffer(srv, t, u) ==
  [srv EXCEPT
    !.buffers = [x \in (DOMAIN @ \ {t}) \cup {u} |-> IF x = u THEN @[t] ELSE @[x]],
    !.rows = [i \in DOMAIN @ |-> IF @[i].title = t THEN [@[i] EXCEPT !.title = u] ELSE @[i]]]

-----------------------------------------------------------------------------
(* Announcements reach a client that listens when its list is registered.  *)

Say(ms) == feed' = IF following THEN feed \o ms ELSE feed

SayFrom(srv, ms) == Say(IF srv.phase = "made" THEN <<>> ELSE ms)

Items(srv) == [cmd |-> "items", rows |-> srv.rows]

Act ==
  /\ acts < MaxActs
  /\ acts' = acts + 1

Quiet == UNCHANGED <<following, feed>>

IrcInit ==
  /\ ConfigInit
  /\ servers = None
  /\ nextId = 1
  /\ acts = 0
  /\ following = FALSE
  /\ feed = <<>>

(* ready(): the servers of the file, each with a new id for its own buffer. *)
(* Adding them has scheduled a save.                                        *)
StartIrc ==
  /\ Start(Stored # None)
  /\ nextId' \in nextId..(MaxId + 1)
  /\ \E root \in Bijection(DOMAIN Stored, nextId..(nextId' - 1)) :
       servers' = [s \in DOMAIN Stored |-> Loaded(Stored[s], root[s])]
  /\ acts' = 0
  /\ UNCHANGED <<following, feed>>

(* saveNow() of the timer or of aboutToQuit(). *)
SaveIrc == SaveNow /\ UNCHANGED ircVars

WriteIrc == Write(Content) /\ UNCHANGED ircVars

(* The process ends, and with it everything that is not in the file. *)
EndIrc ==
  /\ End
  /\ servers' = None
  /\ following' = FALSE
  /\ feed' = <<>>
  /\ UNCHANGED <<nextId, acts>>

(* A client's "add".  The server's own buffer is listed before anybody can *)
(* hear of it.                                                             *)
AddServer(s, h) ==
  /\ Act
  /\ s \notin DOMAIN servers \cup DOMAIN Stored
  /\ nextId <= MaxId
  /\ servers' = Inserted(servers, s, NewServer(h, nextId))
  /\ nextId' = nextId + 1
  /\ ScheduleSave
  /\ Quiet

(* newConnection(m_channelsList) in the main thread, which ready() of the  *)
(* server has asked for.                                                   *)
RegisterList(s) ==
  /\ NoSave
  /\ servers[s].phase = "made"
  /\ servers' = [servers EXCEPT ![s].phase = "registered"]
  /\ UNCHANGED <<nextId, acts>>
  /\ Quiet

(* ready() of the list, queued by its registration: it tells all it has. *)
ListReady(s) ==
  /\ NoSave
  /\ servers[s].phase = "registered"
  /\ servers' = [servers EXCEPT ![s].phase = "ready"]
  /\ Say(<<Items(servers[s])>>)
  /\ UNCHANGED <<nextId, acts, following>>

(* A client's "remove": the connection is closed and the IrcServer deleted, *)
(* and with it its list, which announces nothing.  A registration that is   *)
(* still on its way finds a deleted list.                                   *)
RemoveServer(s) ==
  /\ Act
  /\ servers' = Restrict(servers, DOMAIN servers \ {s})
  /\ IF servers[s].phase = "made" THEN Crash ELSE ScheduleSave
  /\ UNCHANGED nextId
  /\ Quiet

(* A client's "set" of the host. *)
SetHost(s, h) ==
  /\ Act
  /\ servers[s].host # h
  /\ servers' = [servers EXCEPT ![s].host = h]
  /\ ScheduleSave
  /\ UNCHANGED nextId
  /\ Quiet

(* statusChanged of the connection. *)
StatusChanged(s) ==
  /\ Act
  /\ servers' = [servers EXCEPT ![s].online = ~@]
  /\ ScheduleSave
  /\ UNCHANGED nextId
  /\ Quiet

(* addedBuffer: a channel is joined or somebody writes.  Its id is that of *)
(* the file if the title was there when the core started.                  *)
AddBuffer(s, t) ==
  LET srv == servers[s]
      known == t \in DOMAIN srv.known
      id == IF known THEN srv.known[t] ELSE nextId
      new == AddedBuffer(srv, t, id)
  IN  /\ Act
      /\ t \notin DOMAIN srv.buffers
      /\ known \/ nextId <= MaxId
      /\ nextId' = IF known THEN nextId ELSE nextId + 1
      /\ servers' = [servers EXCEPT ![s] = new]
      /\ SayFrom(srv, <<[cmd |-> "added", row |-> Row(id, t, ParentId(srv, t))]>>)
      /\ ScheduleSave
      /\ UNCHANGED following

(* Mutant: a channel that has gone is not saved. *)
RemoveBufferOnly(s, t) ==
  LET srv == servers[s]
      id == srv.buffers[t]
  IN  /\ Act
      /\ t \in DOMAIN srv.buffers
      /\ \E i \in FindIndex(srv, id) : servers' = [servers EXCEPT ![s] = RemovedBuffer(srv, t, i)]
      /\ SayFrom(srv, <<[cmd |-> "removed", id |-> id]>>)
      /\ NoSave
      /\ UNCHANGED <<nextId, following>>

(* removedBuffer: a channel is left or a query closed, and its row taken   *)
(* from the list by its id.                                                *)
RemoveBuffer(s, t) ==
  LET srv == servers[s]
      id == srv.buffers[t]
  IN  /\ Act
      /\ t \in DOMAIN srv.buffers
      /\ \E i \in FindIndex(srv, id) :
           /\ srv.rows[i].title = t
           /\ servers' = [servers EXCEPT ![s] = RemovedBuffer(srv, t, i)]
      /\ SayFrom(srv, <<[cmd |-> "removed", id |-> id]>>)
      /\ ScheduleSave
      /\ UNCHANGED <<nextId, following>>

(* No row, and takeAt(-1) is undefined; or that of another buffer with the *)
(* id, and the list keeps an object that goes with its buffer.  What there *)
(* is after that counts for nothing any more.                              *)
RemoveWrongRow(s, t) ==
  LET srv == servers[s]
  IN  /\ Act
      /\ t \in DOMAIN srv.buffers
      /\ \A i \in FindIndex(srv, srv.buffers[t]) : srv.rows[i].title # t
      /\ Crash
      /\ UNCHANGED <<servers, nextId, following, feed>>

(* titleChanged: the other side of a query has a new nick.  Nothing is     *)
(* announced, and m_predefinedBufferIds keeps the old title.               *)
RenameBuffer(s, t, u) ==
  /\ Act
  /\ t \in DOMAIN servers[s].buffers
  /\ u \notin DOMAIN servers[s].buffers
  /\ servers' = [servers EXCEPT ![s] = RenamedBuffer(@, t, u)]
  /\ ScheduleSave
  /\ UNCHANGED nextId
  /\ Quiet

ConfigStep == StartIrc \/ SaveIrc \/ WriteIrc \/ EndIrc

ListStep ==
  \/ \E s \in Servers, h \in Hosts : AddServer(s, h)
  \/ \E s \in DOMAIN servers :
       \/ RegisterList(s) \/ ListReady(s) \/ RemoveServer(s)
       \/ \E h \in Hosts : SetHost(s, h)
       \/ \E t \in Chats :
            \/ AddBuffer(s, t) \/ RemoveBuffer(s, t) \/ RemoveWrongRow(s, t)
            \/ \E u \in Chats : RenameBuffer(s, t, u)

ServerStep == ListStep \/ \E s \in DOMAIN servers : StatusChanged(s)

IrcNext == ConfigStep \/ ServerStep

IrcSpec == IrcInit /\ [][IrcNext]_allVars

-----------------------------------------------------------------------------
(* Type correctness of the plugin and its file. *)
TitledIds == UNION {[T -> Ids] : T \in SUBSET Titles}
RowType == [id : Ids, title : Titles, parent : Ids \cup {NoId}]

ServerType(srv) ==
  /\ srv.host \in Hosts /\ srv.online \in BOOLEAN
  /\ srv.phase \in {"made", "registered", "ready"}
  /\ srv.buffers \in TitledIds /\ srv.known \in TitledIds
  /\ srv.rows \in Seq(RowType)
  /\ srv.dangling \subseteq RowIds(srv)

IrcTypeOK ==
  /\ process \in {"down", "up", "saving", "crashed"}
  /\ timer \in BOOLEAN /\ missed \in BOOLEAN /\ following \in BOOLEAN
  /\ file.kind \in {"absent", "empty", "saved"}
  /\ DOMAIN servers \subseteq Servers
  /\ \A s \in DOMAIN servers : ServerType(servers[s])
  /\ nextId \in 1..(MaxId + 1) /\ acts \in 0..MaxActs

(* What the plugin has and what the file holds differ only while a save is *)
(* scheduled (BaseConfigObject::scheduleSave), being made, after one that  *)
(* has failed (saveNow() warns and returns), or when the process has       *)
(* ended: a change is left unsaved by a file that cannot be opened or      *)
(* written, and by nothing else, and until the next change at the latest.  *)
UnsavedIsScheduled ==
  Running => timer \/ missed \/ file = SavedAs(Content) \/ (file = Absent /\ servers = None)

(* A buffer and its row (IrcServer::addedBuffer, removedBuffer): a list    *)
(* has one row of each buffer of its server, with its id, and no others;   *)
(* two rows with the same id, which renamed queries bring about, have it   *)
(* from the file, and are never those of two servers.                      *)
RowsAreBuffers ==
  \A s \in DOMAIN servers :
    LET srv == servers[s]
        titles == [i \in DOMAIN srv.rows |-> srv.rows[i].title]
    IN  /\ IsInjective(titles) /\ Range(titles) = DOMAIN srv.buffers
        /\ \A i \in DOMAIN srv.rows : srv.rows[i].id = srv.buffers[titles[i]]
        /\ \A t, u \in DOMAIN srv.buffers :
             t # u /\ srv.buffers[t] = srv.buffers[u] => srv.buffers[t] \in Range(srv.known)
        /\ \A r \in DOMAIN servers \ {s} : RowIds(srv) \cap RowIds(servers[r]) = {}

(* A row's parent comes before it in its list, so that the tree of a       *)
(* client that is sent the list can be built in one pass, whatever hosts   *)
(* have been set (IrcServer::addedBuffer, ChannelsModel::added).           *)
ParentsComeFirst ==
  \A s \in DOMAIN servers : \A i \in DOMAIN servers[s].rows :
    LET parent == servers[s].rows[i].parent
    IN  parent # NoId => \E j \in 1..(i - 1) : servers[s].rows[j].id = parent
===============================================================================
