---------------------------- MODULE IrcServersProofs ---------------------------
(***************************************************************************)
(* The IRC plugin, for any sets of servers, hosts and chats and any bounds *)
(* (ChangesAreSaved, TypesHold, RowsAreThoseOfBuffers, ParentsAreListed).  *)
(*                                                                         *)
(* That a change is saved unless a save fails is inductive as SaveInv:     *)
(* registering a list and letting it be ready change a server without      *)
(* scheduling a save, and that they leave alone what is saved of it needs  *)
(* to know what members a server has.                                      *)
(*                                                                         *)
(* That rows are those of buffers is inductive as BuffersInv.  A core that *)
(* starts has the servers of the file: so what the file holds must be      *)
(* sound as well, and its ids must be apart from those of the other        *)
(* servers and below nextId, and so must the ids that a server keeps in    *)
(* m_predefinedBufferIds for buffers that it does not have now.  A parent  *)
(* stays in front of its rows because it is the row of a host, and those   *)
(* that are taken out are rows of channels and queries (Rooted).           *)
(***************************************************************************)
EXTENDS IrcServers, SequenceLemmas

Members == {"host", "online", "phase", "buffers", "rows", "dangling", "known"}

IsRecord(srv) == DOMAIN srv = Members

ServersAreRecords == \A s \in DOMAIN servers : IsRecord(servers[s])

(* A file that has been written holds what has been saved; one that is     *)
(* being written is empty.                                                 *)
FileIsSound ==
  /\ file = Absent \/ file = Empty \/ file = SavedAs(file.content)
  /\ process \in {"down", "up", "saving", "crashed"}

SaveInv == ServersAreRecords /\ FileIsSound /\ UnsavedIsScheduled

-----------------------------------------------------------------------------
(* What the operators make of servers. *)

(* A new server has the members of a server. *)
LEMMA NewServerIsRecord ==
  ASSUME NEW h, NEW id
  PROVE  IsRecord(NewServer(h, id))
BY DEF IsRecord, NewServer, Members

(* A server that is loaded has the members of a server. *)
LEMMA LoadedIsRecord ==
  ASSUME NEW saved, NEW root
  PROVE  IsRecord(Loaded(saved, root))
<1> DEFINE others == Others(saved)
           own == NewServer(saved.host, root)
           buffers == Inserted(IdsBy(others), saved.host, root)
           rows == own.rows \o [i \in DOMAIN others |->
                                  Row(others[i].id, others[i].title, root)]
           ids == IdsBy(saved.channels)
<1>1. Loaded(saved, root)
        = [own EXCEPT !.buffers = buffers, !.rows = rows, !.known = ids]
  BY Zenon DEF Loaded
<1>2. DOMAIN own = Members
  BY NewServerIsRecord DEF IsRecord
<1> HIDE DEF own, buffers, rows, ids
<1> QED
  BY <1>1, <1>2 DEF IsRecord

(* The functions that a handler applies to a server keep its members. *)
LEMMA HandledAreRecords ==
  ASSUME NEW srv, IsRecord(srv), NEW t, NEW u, NEW id, NEW n
  PROVE  /\ IsRecord(AddedBuffer(srv, t, id))
         /\ IsRecord(RemovedBuffer(srv, t, n))
         /\ IsRecord(RenamedBuffer(srv, t, u))
<1>1. IsRecord(AddedBuffer(srv, t, id))
  <2> DEFINE buffers == Inserted(srv.buffers, t, id)
             rows == Append(srv.rows, Row(id, t, ParentId(srv, t)))
             dangling == srv.dangling \ {id}
  <2>1. AddedBuffer(srv, t, id)
          = [srv EXCEPT !.buffers = buffers, !.rows = rows, !.dangling = dangling]
    BY Zenon DEF AddedBuffer
  <2> HIDE DEF buffers, rows, dangling
  <2> QED
    BY <2>1 DEF IsRecord
<1>2. IsRecord(RemovedBuffer(srv, t, n))
  <2> DEFINE buffers == Restrict(srv.buffers, DOMAIN srv.buffers \ {t})
             rows == RemoveAt(srv.rows, n)
             id0 == srv.buffers[t]
             dangling == IF \E j \in DOMAIN rows : rows[j].id = id0
                         THEN srv.dangling \cup {id0} ELSE srv.dangling
  <2>1. RemovedBuffer(srv, t, n)
          = [srv EXCEPT !.buffers = buffers, !.rows = rows, !.dangling = dangling]
    BY Zenon DEF RemovedBuffer
  <2> HIDE DEF buffers, rows, dangling
  <2> QED
    BY <2>1 DEF IsRecord
<1>3. IsRecord(RenamedBuffer(srv, t, u))
  <2> DEFINE buffers == [x \in (DOMAIN srv.buffers \ {t}) \cup {u} |->
                          IF x = u THEN srv.buffers[t] ELSE srv.buffers[x]]
             rows == [i \in DOMAIN srv.rows |->
                       IF srv.rows[i].title = t THEN [srv.rows[i] EXCEPT !.title = u]
                       ELSE srv.rows[i]]
  <2>1. RenamedBuffer(srv, t, u) = [srv EXCEPT !.buffers = buffers, !.rows = rows]
    BY Zenon DEF RenamedBuffer
  <2> HIDE DEF buffers, rows
  <2> QED
    BY <2>1 DEF IsRecord
<1> QED
  BY <1>1, <1>2, <1>3

(* One server is replaced by another with the same members. *)
LEMMA ReplacedAreRecords ==
  ASSUME ServersAreRecords, NEW s, NEW new, IsRecord(new),
         servers' = [servers EXCEPT ![s] = new]
  PROVE  ServersAreRecords'
BY DEF ServersAreRecords

-----------------------------------------------------------------------------
(* The three ways in which a handler leaves the file and its timer. *)

(* The timer runs: whatever has changed will be saved. *)
LEMMA ScheduledIsSound ==
  ASSUME FileIsSound, ScheduleSave
  PROVE  FileIsSound' /\ UnsavedIsScheduled'
BY DEF FileIsSound, ScheduleSave, UnsavedIsScheduled

(* The process is not running any more, and the file is as it was. *)
LEMMA EndedIsSound ==
  ASSUME FileIsSound, Crash \/ End
  PROVE  FileIsSound' /\ UnsavedIsScheduled'
BY DEF FileIsSound, UnsavedIsScheduled, Running, Crash, End, Empty, SavedAs, Absent

(* The file is emptied, or cannot be opened: then a save that was          *)
(* scheduled is missed.                                                    *)
LEMMA OpenedIsSound ==
  ASSUME FileIsSound, UnsavedIsScheduled, SaveNow, servers' = servers, Content' = Content
  PROVE  FileIsSound' /\ UnsavedIsScheduled'
<1>1. CASE process' = "saving" /\ file' = Empty
  BY <1>1 DEF FileIsSound, UnsavedIsScheduled, Running
<1>2. CASE missed' = (missed \/ timer) /\ UNCHANGED <<process, file>>
  <2>1. FileIsSound'
    BY <1>2 DEF FileIsSound
  <2>2. SavedAs(Content)' = SavedAs(Content)
    BY Zenon DEF SavedAs
  <2>3. UnsavedIsScheduled'
    BY <1>2, <2>2, Zenon DEF UnsavedIsScheduled, SaveNow
  <2> QED
    BY <2>1, <2>3
<1> QED
  BY <1>1, <1>2 DEF SaveNow

(* Nothing is scheduled, and what is saved of the servers has not changed. *)
LEMMA UnchangedIsSound ==
  ASSUME FileIsSound, UnsavedIsScheduled, UNCHANGED configVars, Content' = Content,
         servers = None => servers' = None
  PROVE  FileIsSound' /\ UnsavedIsScheduled'
BY DEF FileIsSound, UnsavedIsScheduled, Running, configVars

(* A list that is registered or ready is no matter of the file. *)
LEMMA PhaseIsNotSaved ==
  ASSUME ServersAreRecords, NEW s \in DOMAIN servers, NEW phase,
         servers' = [servers EXCEPT ![s].phase = phase]
  PROVE  ServersAreRecords' /\ Content' = Content
<1>1. DOMAIN servers' = DOMAIN servers
  OBVIOUS
<1>2. ASSUME NEW r \in DOMAIN servers
      PROVE  /\ IsRecord(servers'[r])
             /\ servers'[r].host = servers[r].host
             /\ servers'[r].online = servers[r].online
             /\ servers'[r].rows = servers[r].rows
  BY DEF ServersAreRecords, IsRecord, Members
<1>3. ASSUME NEW r \in DOMAIN servers
      PROVE  Saved(servers'[r]) = Saved(servers[r])
  BY <1>2, Zenon DEF Saved
<1>4. ServersAreRecords'
  BY <1>1, <1>2 DEF ServersAreRecords
<1>5. Content' = Content
  BY <1>1, <1>3, Zenon DEF Content
<1> QED
  BY <1>4, <1>5

-----------------------------------------------------------------------------
(* Each operation. *)

(* There are no servers and no file. *)
LEMMA SaveInvInit == IrcInit => SaveInv
BY DEF IrcInit, ConfigInit, SaveInv, ServersAreRecords, FileIsSound, UnsavedIsScheduled,
       Running, None, Absent

(* The core starts with what is in the file, and schedules a save if that  *)
(* is anything.                                                            *)
LEMMA StartIsSound ==
  ASSUME SaveInv, StartIrc
  PROVE  SaveInv'
<1> USE DEF SaveInv
<1>1. PICK root :
        servers' = [s \in DOMAIN Stored |-> Loaded(Stored[s], root[s])]
  BY DEF StartIrc
<1>2. /\ file # Empty
      /\ process' = "up"
      /\ timer' = (Stored # None)
      /\ file' = file
  BY DEF StartIrc, Start
<1>3. ServersAreRecords'
  BY <1>1, LoadedIsRecord DEF ServersAreRecords
<1>4. FileIsSound'
  BY <1>2 DEF FileIsSound
<1>5. UnsavedIsScheduled'
  <2>1. CASE Stored # None
    BY <1>2, <2>1, Zenon DEF UnsavedIsScheduled
  <2>2. CASE Stored = None
    <3>1. servers' = None
      BY <1>1, <2>2 DEF None
    <3>2. Content' = None
      BY <3>1 DEF Content, None
    <3>3. CASE file = Absent
      BY <1>2, <3>1, <3>3 DEF UnsavedIsScheduled
    <3>4. CASE file = SavedAs(file.content)
      <4>1. file.kind = "saved"
        BY <3>4 DEF SavedAs
      <4>2. file.content = None
        BY <2>2, <4>1 DEF Stored
      <4>3. file' = SavedAs(Content')
        BY <1>2, <3>2, <3>4, <4>2
      <4> QED
        BY <4>3 DEF UnsavedIsScheduled, SavedAs
    <3> QED
      BY <1>2, <3>3, <3>4 DEF FileIsSound
  <2> QED
    BY <2>1, <2>2
<1> QED
  BY <1>3, <1>4, <1>5

(* saveNow() leaves an empty file and then what there is, or fails. *)
LEMMA SavingIsSound ==
  ASSUME SaveInv, SaveIrc \/ WriteIrc
  PROVE  SaveInv'
<1> USE DEF SaveInv
<1>1. servers' = servers
  BY DEF SaveIrc, WriteIrc, ircVars
<1>2. ServersAreRecords'
  BY <1>1 DEF ServersAreRecords
<1>3. CASE SaveIrc
  <2>1. Content' = Content
    BY <1>1 DEF Content
  <2> QED
    BY <1>1, <1>2, <1>3, <2>1, OpenedIsSound DEF SaveIrc
<1>4. CASE WriteIrc
  <2>1. process' = "up" /\ (file' = SavedAs(Content) \/ (missed' = TRUE /\ file' = file))
    BY <1>4 DEF WriteIrc, Write
  <2>2. Content' = Content
    BY <1>1 DEF Content
  <2>3. UnsavedIsScheduled'
    BY <2>1, <2>2 DEF UnsavedIsScheduled, SavedAs
  <2>4. FileIsSound'
    BY <2>1 DEF FileIsSound, SavedAs
  <2> QED
    BY <1>2, <2>3, <2>4
<1> QED
  BY <1>3, <1>4

(* The process ends, and the servers with it. *)
LEMMA EndIsSound ==
  ASSUME SaveInv, EndIrc
  PROVE  SaveInv'
<1>1. FileIsSound' /\ UnsavedIsScheduled'
  BY EndedIsSound DEF SaveInv, EndIrc
<1>2. ServersAreRecords'
  BY DEF EndIrc, ServersAreRecords, None
<1> QED
  BY <1>1, <1>2 DEF SaveInv

(* What a client does to servers. *)
LEMMA ClientIsSound ==
  ASSUME SaveInv,
         \/ \E s \in Servers, h \in Hosts : AddServer(s, h)
         \/ \E s \in DOMAIN servers : RemoveServer(s)
         \/ \E s \in DOMAIN servers, h \in Hosts : SetHost(s, h)
  PROVE  SaveInv'
<1> USE DEF SaveInv
<1>1. ASSUME NEW s \in Servers, NEW h \in Hosts, AddServer(s, h)
      PROVE  SaveInv'
  <2>1. IsRecord(NewServer(h, nextId))
    BY NewServerIsRecord
  <2>2. servers' = [x \in DOMAIN servers \cup {s} |->
                    IF x = s THEN NewServer(h, nextId) ELSE servers[x]]
    BY <1>1, Zenon DEF AddServer, Inserted
  <2>3. ServersAreRecords'
    BY <2>1, <2>2 DEF ServersAreRecords
  <2> QED
    BY <1>1, <2>3, ScheduledIsSound DEF AddServer
<1>2. ASSUME NEW s \in DOMAIN servers, RemoveServer(s)
      PROVE  SaveInv'
  <2>1. servers' = Restrict(servers, DOMAIN servers \ {s})
    BY <1>2 DEF RemoveServer
  <2>2. ServersAreRecords'
    BY <2>1 DEF ServersAreRecords, Restrict
  <2>3. Crash \/ ScheduleSave
    BY <1>2 DEF RemoveServer
  <2> QED
    BY <2>2, <2>3, ScheduledIsSound, EndedIsSound
<1>3. ASSUME NEW s \in DOMAIN servers, NEW h \in Hosts, SetHost(s, h)
      PROVE  SaveInv'
  <2>1. servers' = [servers EXCEPT ![s] = [servers[s] EXCEPT !.host = h]]
    BY <1>3 DEF SetHost
  <2>2. IsRecord([servers[s] EXCEPT !.host = h])
    BY DEF ServersAreRecords, IsRecord
  <2>3. ServersAreRecords'
    BY <2>1, <2>2, ReplacedAreRecords
  <2> QED
    BY <1>3, <2>3, ScheduledIsSound DEF SetHost
<1> QED
  BY <1>1, <1>2, <1>3

(* What the network does to a server, and a client to its buffers. *)
LEMMA BuffersAreSound ==
  ASSUME SaveInv, NEW s \in DOMAIN servers,
         \/ StatusChanged(s)
         \/ \E t \in Chats : AddBuffer(s, t) \/ RemoveBuffer(s, t) \/ RemoveWrongRow(s, t)
         \/ \E t, u \in Chats : RenameBuffer(s, t, u)
  PROVE  SaveInv'
<1> USE DEF SaveInv
<1>1. IsRecord(servers[s])
  BY DEF ServersAreRecords
<1>2. CASE StatusChanged(s)
  <2>1. servers' = [servers EXCEPT ![s] = [servers[s] EXCEPT !.online = ~servers[s].online]]
    BY <1>2, Zenon DEF StatusChanged
  <2>2. IsRecord([servers[s] EXCEPT !.online = ~servers[s].online])
    BY <1>1 DEF IsRecord
  <2>3. ServersAreRecords'
    BY <2>1, <2>2, ReplacedAreRecords
  <2> QED
    BY <1>2, <2>3, ScheduledIsSound DEF StatusChanged
<1>3. ASSUME NEW t \in Chats, AddBuffer(s, t)
      PROVE  SaveInv'
  <2>1. PICK id : servers' = [servers EXCEPT ![s] = AddedBuffer(servers[s], t, id)]
    BY <1>3, Zenon DEF AddBuffer
  <2>2. ServersAreRecords'
    BY <1>1, <2>1, HandledAreRecords, ReplacedAreRecords
  <2> QED
    BY <1>3, <2>2, ScheduledIsSound DEF AddBuffer
<1>4. ASSUME NEW t \in Chats, RemoveBuffer(s, t)
      PROVE  SaveInv'
  <2>1. PICK i : servers' = [servers EXCEPT ![s] = RemovedBuffer(servers[s], t, i)]
    BY <1>4, Zenon DEF RemoveBuffer
  <2>2. ServersAreRecords'
    BY <1>1, <2>1, HandledAreRecords, ReplacedAreRecords
  <2> QED
    BY <1>4, <2>2, ScheduledIsSound DEF RemoveBuffer
<1>5. ASSUME NEW t \in Chats, RemoveWrongRow(s, t)
      PROVE  SaveInv'
  <2>1. Crash /\ servers' = servers
    BY <1>5 DEF RemoveWrongRow
  <2> QED
    BY <2>1, EndedIsSound DEF ServersAreRecords
<1>6. ASSUME NEW t \in Chats, NEW u \in Chats, RenameBuffer(s, t, u)
      PROVE  SaveInv'
  <2>1. servers' = [servers EXCEPT ![s] = RenamedBuffer(servers[s], t, u)]
    BY <1>6, Zenon DEF RenameBuffer
  <2>2. ServersAreRecords'
    BY <1>1, <2>1, HandledAreRecords, ReplacedAreRecords
  <2> QED
    BY <1>6, <2>2, ScheduledIsSound DEF RenameBuffer
<1> QED
  BY <1>2, <1>3, <1>4, <1>5, <1>6

(* What happens to the list of a server. *)
LEMMA ListsAreSound ==
  ASSUME SaveInv, NEW s \in DOMAIN servers, RegisterList(s) \/ ListReady(s)
  PROVE  SaveInv'
<1>1. PICK phase : servers' = [servers EXCEPT ![s].phase = phase]
  BY DEF RegisterList, ListReady
<1>2. ServersAreRecords' /\ Content' = Content
  BY <1>1, PhaseIsNotSaved DEF SaveInv
<1>3. UNCHANGED configVars
  BY DEF RegisterList, ListReady, NoSave
<1>4. servers # None
  BY DEF None
<1> QED
  BY <1>2, <1>3, <1>4, UnchangedIsSound DEF SaveInv

(* Nothing happens. *)
LEMMA StutterIsSound ==
  ASSUME SaveInv, UNCHANGED allVars
  PROVE  SaveInv'
<1>1. servers' = servers /\ UNCHANGED configVars
  BY DEF allVars, ircVars
<1>2. ServersAreRecords' /\ Content' = Content
  BY <1>1 DEF SaveInv, ServersAreRecords, Content
<1> QED
  BY <1>1, <1>2, UnchangedIsSound DEF SaveInv

(* Every step of the plugin and of its file. *)
LEMMA SaveInvNext == SaveInv /\ [IrcNext]_allVars => SaveInv'
<1> SUFFICES ASSUME SaveInv, [IrcNext]_allVars
             PROVE  SaveInv'
  OBVIOUS
<1>1. CASE ConfigStep
  BY <1>1, StartIsSound, SavingIsSound, EndIsSound DEF ConfigStep
<1>2. CASE ListStep
  BY <1>2, ClientIsSound, BuffersAreSound, ListsAreSound DEF ListStep
<1>3. CASE \E s \in DOMAIN servers : StatusChanged(s)
  BY <1>3, BuffersAreSound
<1>4. CASE UNCHANGED allVars
  BY <1>4, StutterIsSound
<1> QED
  BY <1>1, <1>2, <1>3, <1>4 DEF IrcNext, ServerStep

(* Every change of the servers, their hosts, their status and their        *)
(* channels is in the file, or a save is scheduled for it                  *)
(* (BaseConfigObject::scheduleSave in every handler that changes one), or  *)
(* the file could not be opened or written when its turn came              *)
(* (BaseConfigObject::saveNow) and nothing has changed since.              *)
THEOREM ChangesAreSaved == IrcSpec => []UnsavedIsScheduled
<1>1. SaveInv => UnsavedIsScheduled
  BY DEF SaveInv
<1> QED
  BY <1>1, SaveInvInit, SaveInvNext, PTL DEF IrcSpec

-----------------------------------------------------------------------------
(* Lists of rows, buffers and the titles that are known.                   *)

Titled == [id : Ids, title : Titles]

Distinct(chs) == \A i, j \in DOMAIN chs : chs[i].title = chs[j].title => i = j

(* The rows r are those of the buffers b. *)
IsListOf(r, b, k) ==
  /\ Distinct(r)
  /\ \A i \in DOMAIN r : r[i].title \in DOMAIN b /\ r[i].id = b[r[i].title]
  /\ \A t \in DOMAIN b : \E i \in DOMAIN r : r[i].title = t
  /\ \A t, u \in DOMAIN b : t # u /\ b[t] = b[u] => b[t] \in Range(k)

(* A parent is a row before, of a host: those of chats come and go. *)
Rooted(r) ==
  \A i \in DOMAIN r : r[i].parent # NoId =>
    \E j \in 1..(i - 1) : r[j].id = r[i].parent /\ r[j].title \in Hosts

LEMMA TitledMaps ==
  ASSUME NEW b, DOMAIN b \subseteq Titles, b \in [DOMAIN b -> Ids]
  PROVE  b \in TitledIds
BY DEF TitledIds

LEMMA MapsAreTitled ==
  ASSUME NEW b \in TitledIds
  PROVE  DOMAIN b \subseteq Titles /\ b \in [DOMAIN b -> Ids]
BY DEF TitledIds

LEMMA InsertedIsTitled ==
  ASSUME NEW b \in TitledIds, NEW t \in Titles, NEW id \in Ids
  PROVE  Inserted(b, t, id) \in TitledIds
<1>1. DOMAIN b \subseteq Titles /\ b \in [DOMAIN b -> Ids]
  BY MapsAreTitled
<1> DEFINE c == Inserted(b, t, id)
<1>2. DOMAIN c \subseteq Titles /\ c \in [DOMAIN c -> Ids]
  BY <1>1 DEF Inserted
<1> QED
  BY <1>2, TitledMaps

(* A buffer is added, and its row at the end. *)
LEMMA RowAppended ==
  ASSUME NEW r \in Seq(RowType), NEW b \in TitledIds, NEW k, IsListOf(r, b, k), Rooted(r),
         NEW x \in RowType, x.title \notin DOMAIN b,
         \/ x.id \in Range(k)
         \/ \A i \in DOMAIN r : r[i].id # x.id,
         x.parent # NoId => \E j \in DOMAIN r : r[j].id = x.parent /\ r[j].title \in Hosts
  PROVE  /\ Append(r, x) \in Seq(RowType)
         /\ IsListOf(Append(r, x), Inserted(b, x.title, x.id), k)
         /\ Rooted(Append(r, x))
         /\ {Append(r, x)[i].id : i \in DOMAIN Append(r, x)} = {r[i].id : i \in DOMAIN r} \cup {x.id}
<1> DEFINE q == Append(r, x)
           c == Inserted(b, x.title, x.id)
           n == Len(r)
<1>1. /\ q \in Seq(RowType) /\ n \in Nat /\ DOMAIN r = 1..n /\ DOMAIN q = 1..(n + 1)
      /\ \A i \in 1..n : q[i] = r[i]
      /\ q[n + 1] = x
  BY AppendProperties, LenProperties
<1>2. /\ DOMAIN c = DOMAIN b \cup {x.title}
      /\ c[x.title] = x.id
      /\ \A u \in DOMAIN b : c[u] = b[u]
  BY DEF Inserted
<1>3. /\ \A i, j \in DOMAIN r : r[i].title = r[j].title => i = j
      /\ \A i \in DOMAIN r : r[i].title \in DOMAIN b /\ r[i].id = b[r[i].title]
      /\ \A u \in DOMAIN b : \E i \in DOMAIN r : r[i].title = u
      /\ \A u, v \in DOMAIN b : u # v /\ b[u] = b[v] => b[u] \in Range(k)
  BY DEF IsListOf, Distinct
<1> HIDE DEF q, c, n
<1>4. ASSUME NEW i \in DOMAIN q
      PROVE  (i \in DOMAIN r /\ q[i] = r[i]) \/ (i = n + 1 /\ q[i] = x)
  <2>1. i \in 1..n \/ i = n + 1
    BY <1>1
  <2> QED
    BY <1>1, <2>1
<1>5. IsListOf(q, c, k)
  <2>1. Distinct(q)
    BY <1>1, <1>3, <1>4 DEF Distinct
  <2>2. \A i \in DOMAIN q : q[i].title \in DOMAIN c /\ q[i].id = c[q[i].title]
    BY <1>2, <1>3, <1>4
  <2>3. \A u \in DOMAIN c : \E i \in DOMAIN q : q[i].title = u
    <3>1. n + 1 \in DOMAIN q /\ \A i \in DOMAIN r : i \in DOMAIN q
      BY <1>1
    <3> QED
      BY <1>1, <1>2, <1>3, <3>1
  <2>4. ASSUME NEW u \in DOMAIN c, NEW v \in DOMAIN c, u # v, c[u] = c[v]
        PROVE  c[u] \in Range(k)
    <3>1. CASE u \in DOMAIN b /\ v \in DOMAIN b
      BY <1>2, <1>3, <2>4, <3>1
    <3>2. ASSUME NEW w \in DOMAIN b, b[w] = x.id
          PROVE  x.id \in Range(k)
      <4>1. PICK i \in DOMAIN r : r[i].title = w
        BY <1>3
      <4>2. r[i].id = x.id
        BY <1>3, <3>2, <4>1
      <4> QED
        BY <4>2
    <3>3. CASE u = x.title
      BY <1>2, <2>4, <3>2, <3>3
    <3>4. CASE v = x.title
      BY <1>2, <2>4, <3>2, <3>4
    <3> QED
      BY <1>2, <3>1, <3>3, <3>4
  <2> QED
    BY <2>1, <2>2, <2>3, <2>4 DEF IsListOf
<1>6. Rooted(q)
  <2> SUFFICES ASSUME NEW i \in DOMAIN q, q[i].parent # NoId
               PROVE  \E j \in 1..(i - 1) : q[j].id = q[i].parent /\ q[j].title \in Hosts
    BY DEF Rooted
  <2>1. CASE i \in DOMAIN r /\ q[i] = r[i]
    <3>1. PICK j \in 1..(i - 1) : r[j].id = r[i].parent /\ r[j].title \in Hosts
      BY <2>1 DEF Rooted
    <3>2. j \in 1..n
      BY <1>1, <2>1
    <3> QED
      BY <1>1, <2>1, <3>1, <3>2
  <2>2. CASE i = n + 1 /\ q[i] = x
    <3>1. PICK j \in DOMAIN r : r[j].id = x.parent /\ r[j].title \in Hosts
      BY <2>2
    <3>2. j \in 1..(i - 1) /\ q[j] = r[j]
      BY <1>1, <2>2
    <3> QED
      BY <2>2, <3>1, <3>2
  <2> QED
    BY <1>4, <2>1, <2>2
<1>7. {q[i].id : i \in DOMAIN q} = {r[i].id : i \in DOMAIN r} \cup {x.id}
  <2>1. n + 1 \in DOMAIN q /\ \A i \in DOMAIN r : i \in DOMAIN q /\ q[i] = r[i]
    BY <1>1
  <2> QED
    BY <1>1, <1>4, <2>1
<1> QED
  BY <1>1, <1>5, <1>6, <1>7 DEF q, c
(* Where row n is taken out, the others keep their order. *)
LEMMA OrderIsKept ==
  ASSUME NEW n \in Nat, NEW i \in Nat, NEW j, j = IF i < n THEN i ELSE i + 1
  PROVE  /\ \A h \in Nat : (j = IF h < n THEN h ELSE h + 1) => h = i
         /\ \A m \in 1..(j - 1) :
              n # 0 /\ m # n => (IF m < n THEN m ELSE m - 1) \in 1..(i - 1)
OBVIOUS

(* A buffer is removed, and its row wherever it is. *)
LEMMA RowRemoved ==
  ASSUME NEW r \in Seq(RowType), NEW b \in TitledIds, NEW k, IsListOf(r, b, k), Rooted(r),
         NEW n \in DOMAIN r, r[n].title \in Chats
  PROVE  /\ RemoveAt(r, n) \in Seq(RowType)
         /\ Restrict(b, DOMAIN b \ {r[n].title}) \in TitledIds
         /\ IsListOf(RemoveAt(r, n), Restrict(b, DOMAIN b \ {r[n].title}), k)
         /\ Rooted(RemoveAt(r, n))
         /\ \A i \in DOMAIN RemoveAt(r, n) : \E j \in DOMAIN r : RemoveAt(r, n)[i] = r[j]
         /\ \A j \in DOMAIN r : j # n =>
              \E i \in DOMAIN RemoveAt(r, n) : RemoveAt(r, n)[i] = r[j]
<1> DEFINE q == RemoveAt(r, n)
           t == r[n].title
           c == Restrict(b, DOMAIN b \ {t})
<1>1. /\ q \in Seq(RowType) /\ DOMAIN q \subseteq Nat
      /\ \A i \in DOMAIN q :
           \E j \in DOMAIN r : j # n /\ q[i] = r[j] /\ j = IF i < n THEN i ELSE i + 1
      /\ \A j \in DOMAIN r : j # n =>
           \E i \in DOMAIN q : q[i] = r[j] /\ i = IF j < n THEN j ELSE j - 1
  BY RemoveMoves
<1>2. DOMAIN r = 1..Len(r) /\ Len(r) \in Nat
  BY LenProperties
<1>3. /\ \A i, j \in DOMAIN r : r[i].title = r[j].title => i = j
      /\ \A i \in DOMAIN r : r[i].title \in DOMAIN b /\ r[i].id = b[r[i].title]
      /\ \A u \in DOMAIN b : \E i \in DOMAIN r : r[i].title = u
      /\ \A u, v \in DOMAIN b : u # v /\ b[u] = b[v] => b[u] \in Range(k)
  BY DEF IsListOf, Distinct
<1>4. DOMAIN c = DOMAIN b \ {t} /\ \A u \in DOMAIN c : c[u] = b[u]
  BY DEF Restrict
<1>5. t \in Chats /\ t = r[n].title
  OBVIOUS
<1> HIDE DEF q, c, t
<1>6. c \in TitledIds
  <2>1. DOMAIN b \subseteq Titles /\ b \in [DOMAIN b -> Ids]
    BY MapsAreTitled
  <2>2. c = [u \in DOMAIN b \ {t} |-> b[u]]
    BY DEF c, Restrict
  <2>3. DOMAIN c \subseteq Titles /\ c \in [DOMAIN c -> Ids]
    BY <2>1, <2>2
  <2> QED
    BY <2>3, TitledMaps
<1>7. IsListOf(q, c, k)
  <2>1. Distinct(q)
    <3> SUFFICES ASSUME NEW i1 \in DOMAIN q, NEW i2 \in DOMAIN q, q[i1].title = q[i2].title
                 PROVE  i1 = i2
      BY DEF Distinct
    <3>1. PICK j1 \in DOMAIN r : j1 # n /\ q[i1] = r[j1] /\ j1 = IF i1 < n THEN i1 ELSE i1 + 1
      BY <1>1
    <3>2. PICK j2 \in DOMAIN r : j2 # n /\ q[i2] = r[j2] /\ j2 = IF i2 < n THEN i2 ELSE i2 + 1
      BY <1>1
    <3>3. j1 = j2
      BY <1>3, <3>1, <3>2
    <3>4. i1 \in Nat /\ i2 \in Nat /\ n \in Nat
      BY <1>1, <1>2
    <3> QED
      BY <3>1, <3>2, <3>3, <3>4, OrderIsKept
  <2>2. ASSUME NEW i \in DOMAIN q
        PROVE  q[i].title \in DOMAIN c /\ q[i].id = c[q[i].title]
    <3>1. PICK j \in DOMAIN r : j # n /\ q[i] = r[j]
      BY <1>1
    <3>2. r[j].title # t
      BY <1>3, <1>5, <3>1
    <3> QED
      BY <1>3, <1>4, <3>1, <3>2
  <2>3. ASSUME NEW u \in DOMAIN c
        PROVE  \E i \in DOMAIN q : q[i].title = u
    <3>1. PICK j \in DOMAIN r : r[j].title = u
      BY <1>3, <1>4
    <3>2. j # n
      BY <1>4, <1>5, <3>1
    <3> QED
      BY <1>1, <3>1, <3>2
  <2>4. \A u, v \in DOMAIN c : u # v /\ c[u] = c[v] => c[u] \in Range(k)
    BY <1>3, <1>4
  <2> QED
    BY <2>1, <2>2, <2>3, <2>4 DEF IsListOf
<1>8. Rooted(q)
  <2> SUFFICES ASSUME NEW i \in DOMAIN q, q[i].parent # NoId
               PROVE  \E l \in 1..(i - 1) : q[l].id = q[i].parent /\ q[l].title \in Hosts
    BY DEF Rooted
  <2>1. PICK j \in DOMAIN r : j # n /\ q[i] = r[j] /\ j = IF i < n THEN i ELSE i + 1
    BY <1>1
  <2>2. PICK m \in 1..(j - 1) : r[m].id = r[j].parent /\ r[m].title \in Hosts
    BY <2>1 DEF Rooted
  <2>3. m # n /\ m \in DOMAIN r /\ m \in Nat
    BY <1>2, <1>5, <2>1, <2>2, TitlesAssumption
  <2>4. PICK l \in DOMAIN q : q[l] = r[m] /\ l = IF m < n THEN m ELSE m - 1
    BY <1>1, <2>3
  <2>5. i \in Nat /\ n \in Nat \ {0} /\ m \in 1..(j - 1)
    <3>1. n \in 1..Len(r) /\ Len(r) \in Nat
      BY <1>2
    <3>2. DOMAIN q \subseteq Nat
      BY <1>1
    <3>3. i \in Nat
      BY <3>2
    <3>4. n \in Nat \ {0}
      BY <3>1
    <3> QED
      BY <2>2, <3>3, <3>4
  <2>6. l \in 1..(i - 1)
    <3>1. n \in Nat /\ n # 0
      BY <2>5
    <3>2. (IF m < n THEN m ELSE m - 1) \in 1..(i - 1)
      BY <2>1, <2>3, <2>5, <3>1, OrderIsKept, Zenon
    <3> QED
      BY <2>4, <3>2, Zenon
  <2> QED
    BY <2>1, <2>2, <2>4, <2>6
<1>9. /\ \A i \in DOMAIN q : \E j \in DOMAIN r : q[i] = r[j]
      /\ \A j \in DOMAIN r : j # n => \E i \in DOMAIN q : q[i] = r[j]
  BY <1>1
<1> QED
  BY <1>1, <1>6, <1>7, <1>8, <1>9 DEF q, c, t

(* A buffer has another title, and its row as well. *)
RenamedRows(r, t, u) ==
  [i \in DOMAIN r |-> IF r[i].title = t THEN [r[i] EXCEPT !.title = u] ELSE r[i]]

RenamedIds(b, t, u) ==
  [x \in (DOMAIN b \ {t}) \cup {u} |-> IF x = u THEN b[t] ELSE b[x]]

LEMMA RowRenamed ==
  ASSUME NEW r \in Seq(RowType), NEW b \in TitledIds, NEW k, IsListOf(r, b, k), Rooted(r),
         NEW t \in Chats, NEW u \in Chats, t \in DOMAIN b, u \notin DOMAIN b
  PROVE  /\ RenamedRows(r, t, u) \in Seq(RowType) /\ RenamedIds(b, t, u) \in TitledIds
         /\ IsListOf(RenamedRows(r, t, u), RenamedIds(b, t, u), k)
         /\ Rooted(RenamedRows(r, t, u))
         /\ DOMAIN RenamedRows(r, t, u) = DOMAIN r
         /\ \A i \in DOMAIN r : RenamedRows(r, t, u)[i].id = r[i].id
<1> DEFINE q == RenamedRows(r, t, u)
           c == RenamedIds(b, t, u)
<1>0. /\ q = [i \in DOMAIN r |-> IF r[i].title = t THEN [r[i] EXCEPT !.title = u] ELSE r[i]]
      /\ c = [x \in (DOMAIN b \ {t}) \cup {u} |-> IF x = u THEN b[t] ELSE b[x]]
  BY DEF RenamedRows, RenamedIds
<1> HIDE DEF q, c
<1>1. DOMAIN r = 1..Len(r) /\ Len(r) \in Nat /\ \A i \in DOMAIN r : r[i] \in RowType
  BY LenProperties, ElementOfSeq
<1>2. DOMAIN q = DOMAIN r
  BY <1>0
<1>3. \A i \in DOMAIN r : /\ q[i] \in RowType
                          /\ q[i].title = IF r[i].title = t THEN u ELSE r[i].title
                          /\ q[i].id = r[i].id
                          /\ q[i].parent = r[i].parent
  <2> SUFFICES ASSUME NEW i \in DOMAIN r
               PROVE  /\ q[i] \in RowType
                      /\ q[i].title = IF r[i].title = t THEN u ELSE r[i].title
                      /\ q[i].id = r[i].id
                      /\ q[i].parent = r[i].parent
    OBVIOUS
  <2>1. CASE r[i].title = t
    <3> DEFINE x == r[i]
    <3>1. x \in RowType /\ q[i] = [x EXCEPT !.title = u] /\ u \in Titles
      BY <1>0, <1>1, <2>1 DEF Titles
    <3> HIDE DEF x
    <3>2. /\ [x EXCEPT !.title = u] \in RowType
          /\ [x EXCEPT !.title = u].title = u
          /\ [x EXCEPT !.title = u].id = x.id
          /\ [x EXCEPT !.title = u].parent = x.parent
      BY <3>1 DEF RowType
    <3> QED
      BY <2>1, <3>1, <3>2 DEF x
  <2>2. CASE r[i].title # t
    BY <1>0, <1>1, <2>2
  <2> QED
    BY <2>1, <2>2
<1>4. /\ DOMAIN c = (DOMAIN b \ {t}) \cup {u}
      /\ c[u] = b[t]
      /\ \A x \in DOMAIN b : x # t => c[x] = b[x]
  BY <1>0
<1>5. q \in Seq(RowType)
  <2>1. q = [i \in 1..Len(r) |-> q[i]]
    BY <1>0, <1>1
  <2>2. \A i \in 1..Len(r) : q[i] \in RowType
    BY <1>1, <1>3
  <2> DEFINE n == Len(r)
             f == [i \in 1..n |-> q[i]]
  <2>3. n \in Nat /\ q = f
    BY <1>1, <2>1
  <2> HIDE DEF n
  <2>4. f \in Seq(RowType)
    BY <2>2, <2>3, IsASeq DEF n
  <2> QED
    BY <2>3, <2>4
<1>6. c \in TitledIds
  <2>1. DOMAIN b \subseteq Titles /\ b \in [DOMAIN b -> Ids] /\ u \in Titles
    BY MapsAreTitled DEF Titles
  <2>2. DOMAIN c \subseteq Titles /\ c \in [DOMAIN c -> Ids]
    BY <1>0, <2>1
  <2> QED
    BY <2>2, TitledMaps
<1>7. /\ \A i, j \in DOMAIN r : r[i].title = r[j].title => i = j
      /\ \A i \in DOMAIN r : r[i].title \in DOMAIN b /\ r[i].id = b[r[i].title]
      /\ \A x \in DOMAIN b : \E i \in DOMAIN r : r[i].title = x
      /\ \A x, y \in DOMAIN b : x # y /\ b[x] = b[y] => b[x] \in Range(k)
  BY DEF IsListOf, Distinct
<1>8. IsListOf(q, c, k)
  <2>1. ASSUME NEW i \in DOMAIN r, NEW j \in DOMAIN r, q[i].title = q[j].title
        PROVE  i = j
    BY <1>3, <1>7, <2>1
  <2>2. ASSUME NEW i \in DOMAIN r
        PROVE  q[i].title \in DOMAIN c /\ q[i].id = c[q[i].title]
    BY <1>3, <1>4, <1>7
  <2>3. ASSUME NEW x \in DOMAIN c
        PROVE  \E i \in DOMAIN r : q[i].title = x
    <3>1. CASE x = u
      <4>1. PICK i \in DOMAIN r : r[i].title = t
        BY <1>7
      <4> QED
        BY <1>3, <3>1, <4>1
    <3>2. CASE x # u
      <4>1. PICK i \in DOMAIN r : r[i].title = x
        BY <1>4, <1>7, <3>2
      <4> QED
        BY <1>3, <1>4, <3>2, <4>1
    <3> QED
      BY <3>1, <3>2
  <2>4. ASSUME NEW x \in DOMAIN c, NEW y \in DOMAIN c, x # y, c[x] = c[y]
        PROVE  c[x] \in Range(k)
    <3>1. CASE x # u /\ y # u
      BY <1>4, <1>7, <2>4, <3>1
    <3>2. CASE x = u
      BY <1>4, <1>7, <2>4, <3>2
    <3>3. CASE y = u
      BY <1>4, <1>7, <2>4, <3>3
    <3> QED
      BY <3>1, <3>2, <3>3
  <2> QED
    BY <1>2, <2>1, <2>2, <2>3, <2>4, Zenon DEF IsListOf, Distinct
<1>9. Rooted(q)
  <2> SUFFICES ASSUME NEW i \in DOMAIN r, q[i].parent # NoId
               PROVE  \E j \in 1..(i - 1) : q[j].id = q[i].parent /\ q[j].title \in Hosts
    BY <1>2, Zenon DEF Rooted
  <2>1. r[i].parent # NoId /\ q[i].parent = r[i].parent
    BY <1>3
  <2>2. PICK j \in 1..(i - 1) : r[j].id = r[i].parent /\ r[j].title \in Hosts
    BY <2>1 DEF Rooted
  <2>3. j \in DOMAIN r
    BY <1>1, <2>2
  <2>4. q[j].id = r[j].id /\ q[j].title = r[j].title
    BY <1>3, <2>2, <2>3, TitlesAssumption
  <2> QED
    BY <2>1, <2>2, <2>4
<1> QED
  BY <1>2, <1>3, <1>5, <1>6, <1>8, <1>9 DEF q, c

-----------------------------------------------------------------------------
(* What is loaded from the file. *)

LEMMA IdsByTitle ==
  ASSUME NEW chs \in Seq(Titled), Distinct(chs)
  PROVE  /\ IdsBy(chs) \in TitledIds
         /\ DOMAIN IdsBy(chs) = {chs[i].title : i \in DOMAIN chs}
         /\ \A i \in DOMAIN chs : IdsBy(chs)[chs[i].title] = chs[i].id
         /\ Range(IdsBy(chs)) = {chs[i].id : i \in DOMAIN chs}
<1> DEFINE b == IdsBy(chs)
           Named(t) == CHOOSE c \in Range(chs) : c.title = t
<1>1. \A i \in DOMAIN chs : chs[i] \in Titled
  BY LenProperties, ElementOfSeq
<1>2. b = [t \in {chs[i].title : i \in DOMAIN chs} |-> Named(t).id]
  BY DEF IdsBy
<1>3. ASSUME NEW i \in DOMAIN chs
      PROVE  Named(chs[i].title) = chs[i]
  <2> DEFINE t == chs[i].title
  <2>1. chs[i] \in Range(chs) /\ chs[i].title = t
    BY DEF Range
  <2>2. Named(t) \in Range(chs) /\ Named(t).title = t
    BY <2>1
  <2> HIDE DEF Named
  <2>3. PICK j \in DOMAIN chs : Named(t) = chs[j]
    BY <2>2 DEF Range
  <2>4. chs[j].title = chs[i].title
    BY <2>2, <2>3
  <2> QED
    BY <2>3, <2>4 DEF Distinct
<1> HIDE DEF b, Named
<1>4. DOMAIN b = {chs[i].title : i \in DOMAIN chs}
  BY <1>2
<1>5. \A i \in DOMAIN chs : b[chs[i].title] = chs[i].id
  BY <1>2, <1>3
<1>6. Range(b) = {chs[i].id : i \in DOMAIN chs}
  BY <1>4, <1>5 DEF Range
<1>7. b \in TitledIds
  <2>1. DOMAIN b \subseteq Titles
    BY <1>1, <1>4 DEF Titled
  <2>2. \A t \in DOMAIN b : b[t] \in Ids
    BY <1>1, <1>4, <1>5 DEF Titled
  <2>3. b = [t \in DOMAIN b |-> b[t]]
    BY <1>2
  <2>4. b \in [DOMAIN b -> Ids]
    BY <2>2, <2>3
  <2> QED
    BY <2>1, <2>4, TitledMaps
<1> QED
  BY <1>4, <1>5, <1>6, <1>7 DEF b

SavedSound(saved) ==
  /\ saved.host \in Hosts /\ saved.online \in BOOLEAN
  /\ saved.channels \in Seq(Titled) /\ Distinct(saved.channels)

SavedIds(saved) == {saved.channels[i].id : i \in DOMAIN saved.channels}

LEMMA OthersAreTitled ==
  ASSUME NEW saved, SavedSound(saved)
  PROVE  /\ Others(saved) \in Seq(Titled) /\ Distinct(Others(saved))
         /\ \A i \in DOMAIN Others(saved) :
              /\ Others(saved)[i].title # saved.host
              /\ \E j \in DOMAIN saved.channels : Others(saved)[i] = saved.channels[j]
<1> DEFINE chs == saved.channels
           own == {i \in DOMAIN chs : chs[i].title = saved.host}
           n == CHOOSE i \in own : TRUE
           q == RemoveAt(chs, n)
<1>1. chs \in Seq(Titled) /\ Distinct(chs)
  BY DEF SavedSound
<1>2. Others(saved) = IF own = {} THEN chs ELSE q
  BY DEF Others
<1>3. CASE own = {}
  <2>1. Others(saved) = chs
    BY <1>2, <1>3
  <2>2. \A i \in DOMAIN chs : chs[i].title # saved.host
    BY <1>3
  <2> HIDE DEF chs
  <2>3. \A i \in DOMAIN chs : \E j \in DOMAIN chs : chs[i] = chs[j]
    OBVIOUS
  <2> QED
    BY <1>1, <2>1, <2>2, <2>3 DEF chs
<1>4. CASE own # {}
  <2>1. n \in own
    BY <1>4
  <2>2. Others(saved) = q
    BY <1>2, <1>4
  <2>3. n \in DOMAIN chs /\ chs[n].title = saved.host
    BY <2>1
  <2> HIDE DEF chs, own, n
  <2>4. /\ q \in Seq(Titled) /\ DOMAIN q \subseteq Nat
        /\ \A i \in DOMAIN q :
             \E j \in DOMAIN chs : j # n /\ q[i] = chs[j] /\ j = IF i < n THEN i ELSE i + 1
    BY <1>1, <2>3, RemoveMoves
  <2>5. DOMAIN chs = 1..Len(chs) /\ Len(chs) \in Nat /\ n \in Nat
    BY <1>1, <2>3, LenProperties
  <2> HIDE DEF q
  <2>6. \A i, j \in DOMAIN chs : chs[i].title = chs[j].title => i = j
    BY <1>1 DEF Distinct
  <2>7. Distinct(q)
    <3> SUFFICES ASSUME NEW i1 \in DOMAIN q, NEW i2 \in DOMAIN q, q[i1].title = q[i2].title
                 PROVE  i1 = i2
      BY DEF Distinct
    <3>1. PICK j1 \in DOMAIN chs : j1 # n /\ q[i1] = chs[j1] /\ j1 = IF i1 < n THEN i1 ELSE i1 + 1
      BY <2>4
    <3>2. PICK j2 \in DOMAIN chs : j2 # n /\ q[i2] = chs[j2] /\ j2 = IF i2 < n THEN i2 ELSE i2 + 1
      BY <2>4
    <3>3. j1 = j2
      BY <2>6, <3>1, <3>2
    <3>4. i1 \in Nat /\ i2 \in Nat
      BY <2>4
    <3> QED
      BY <2>5, <3>1, <3>2, <3>3, <3>4, OrderIsKept
  <2>8. ASSUME NEW i \in DOMAIN q
        PROVE  q[i].title # saved.host /\ \E j \in DOMAIN chs : q[i] = chs[j]
    <3>1. PICK j \in DOMAIN chs : j # n /\ q[i] = chs[j]
      BY <2>4
    <3> QED
      BY <2>3, <2>6, <3>1
  <2> QED
    BY <2>2, <2>4, <2>7, <2>8 DEF chs
<1> QED
  BY <1>3, <1>4

(* The rows of a server that is loaded: its own, and the others under it. *)
LoadedRows(chs, h, root) ==
  <<Row(root, h, NoId)>> \o [i \in DOMAIN chs |-> Row(chs[i].id, chs[i].title, root)]

AreLoaded(r, chs, h, root) ==
  /\ DOMAIN r = 1..(Len(chs) + 1)
  /\ r[1].id = root /\ r[1].title = h /\ r[1].parent = NoId
  /\ \A i \in 1..Len(chs) : /\ r[i + 1].id = chs[i].id
                            /\ r[i + 1].title = chs[i].title
                            /\ r[i + 1].parent = root

LEMMA RowsLoaded ==
  ASSUME NEW chs \in Seq(Titled), NEW h \in Hosts, NEW root \in Ids
  PROVE  /\ LoadedRows(chs, h, root) \in Seq(RowType)
         /\ AreLoaded(LoadedRows(chs, h, root), chs, h, root)
<1> DEFINE first == <<Row(root, h, NoId)>>
           rest == [i \in DOMAIN chs |-> Row(chs[i].id, chs[i].title, root)]
           n == Len(chs)
           r == first \o rest
<1>1. DOMAIN chs = 1..n /\ n \in Nat /\ \A i \in DOMAIN chs : chs[i] \in Titled
  BY LenProperties, ElementOfSeq
<1>2. \A i \in DOMAIN chs : chs[i].id \in Ids /\ chs[i].title \in Titles
  BY <1>1 DEF Titled
<1>3. Row(root, h, NoId) \in RowType
      /\ \A i \in DOMAIN chs : Row(chs[i].id, chs[i].title, root) \in RowType
  BY <1>2 DEF Row, RowType, Titles
<1>4. first \in Seq(RowType) /\ Len(first) = 1 /\ first[1] = Row(root, h, NoId)
  BY <1>3
<1>5. /\ rest \in Seq(RowType) /\ Len(rest) = n
      /\ \A i \in 1..n : rest[i] = Row(chs[i].id, chs[i].title, root)
  <2> HIDE DEF n
  <2>1. rest = [i \in 1..n |-> Row(chs[i].id, chs[i].title, root)]
    BY <1>1
  <2> DEFINE f == [i \in 1..n |-> Row(chs[i].id, chs[i].title, root)]
  <2>2. f \in Seq(RowType)
    BY <1>1, <1>3, IsASeq
  <2>3. DOMAIN f = 1..n /\ \A i \in 1..n : f[i] = Row(chs[i].id, chs[i].title, root)
    OBVIOUS
  <2>4. ASSUME NEW g \in Seq(RowType), DOMAIN g = 1..n
        PROVE  Len(g) = n
    BY <1>1, <2>4, LenProperties
  <2> HIDE DEF f, rest
  <2>5. Len(f) = n
    BY <2>2, <2>3, <2>4
  <2> QED
    BY <2>1, <2>2, <2>3, <2>5 DEF f
<1> HIDE DEF first, rest, n
<1>6. /\ r \in Seq(RowType) /\ Len(r) = 1 + n
      /\ \A i \in 1..(1 + n) : r[i] = IF i <= 1 THEN first[i] ELSE rest[i - 1]
  <2>1. /\ r \in Seq(RowType) /\ Len(r) = Len(first) + Len(rest)
        /\ \A i \in 1..(Len(first) + Len(rest)) :
             r[i] = IF i <= Len(first) THEN first[i] ELSE rest[i - Len(first)]
    BY <1>4, <1>5, ConcatProperties, Zenon
  <2> HIDE DEF r
  <2> QED
    BY <1>4, <1>5, <2>1
<1> HIDE DEF r
<1>7. DOMAIN r = 1..(n + 1)
  BY <1>1, <1>6, LenProperties
<1>8. r[1] = Row(root, h, NoId)
  BY <1>1, <1>4, <1>6
<1>9. ASSUME NEW i \in 1..n
      PROVE  r[i + 1] = Row(chs[i].id, chs[i].title, root)
  <2>1. i + 1 \in 1..(1 + n) /\ ~(i + 1 <= 1) /\ (i + 1) - 1 = i
    BY <1>1
  <2>2. r[i + 1] = rest[i]
    BY <1>6, <2>1
  <2> QED
    BY <1>5, <2>2
<1>10. ASSUME NEW w, NEW x, NEW y, NEW z, w = Row(x, y, z)
       PROVE  w.id = x /\ w.title = y /\ w.parent = z
  BY <1>10 DEF Row
<1> QED
  <2>1. /\ r \in Seq(RowType) /\ DOMAIN r = 1..(n + 1)
        /\ r[1].id = root /\ r[1].title = h /\ r[1].parent = NoId
    BY <1>6, <1>7, <1>8, <1>10
  <2>2. \A i \in 1..n : /\ r[i + 1].id = chs[i].id
                         /\ r[i + 1].title = chs[i].title
                         /\ r[i + 1].parent = root
    <3> SUFFICES ASSUME NEW i \in 1..n
                 PROVE  /\ r[i + 1].id = chs[i].id
                        /\ r[i + 1].title = chs[i].title
                        /\ r[i + 1].parent = root
      OBVIOUS
    <3> QED
      BY <1>9, <1>10
  <2> QED
    BY <2>1, <2>2, Zenon DEF AreLoaded, LoadedRows, r, first, rest, n

(* They are listed, and the own one is the parent of all others. *)
LEMMA LoadedAreListed ==
  ASSUME NEW chs \in Seq(Titled), Distinct(chs), NEW h \in Hosts, NEW root \in Ids,
         \A i \in DOMAIN chs : chs[i].title # h /\ chs[i].id # root,
         NEW k, \A i \in DOMAIN chs : chs[i].id \in Range(k),
         NEW r \in Seq(RowType), AreLoaded(r, chs, h, root)
  PROVE  /\ Inserted(IdsBy(chs), h, root) \in TitledIds
         /\ IsListOf(r, Inserted(IdsBy(chs), h, root), k)
         /\ Rooted(r)
         /\ \A i \in DOMAIN r : r[i].id = root \/ \E j \in DOMAIN chs : r[i].id = chs[j].id
<1> DEFINE n == Len(chs)
           ids == IdsBy(chs)
           b == Inserted(ids, h, root)
<1>1. DOMAIN chs = 1..n /\ n \in Nat
  BY LenProperties
<1>2. /\ ids \in TitledIds /\ DOMAIN ids = {chs[i].title : i \in DOMAIN chs}
      /\ \A i \in DOMAIN chs : ids[chs[i].title] = chs[i].id
  BY IdsByTitle
<1> HIDE DEF ids
<1>3. b \in TitledIds
  BY <1>2, InsertedIsTitled DEF Titles
<1>4. DOMAIN b = DOMAIN ids \cup {h} /\ b[h] = root /\ \A t \in DOMAIN ids : t # h => b[t] = ids[t]
  BY DEF Inserted
<1> HIDE DEF b
<1>5. /\ r[1].id = root /\ r[1].title = h /\ r[1].parent = NoId
      /\ DOMAIN r = 1..(n + 1)
      /\ \A i \in 1..n : /\ r[i + 1].id = chs[i].id /\ r[i + 1].title = chs[i].title
                         /\ r[i + 1].parent = root
  BY DEF AreLoaded
<1> HIDE DEF n
<1>6. ASSUME NEW i \in DOMAIN r
       PROVE  i = 1 \/ \E j \in DOMAIN chs : i = j + 1
  <2>1. i \in 1..(n + 1)
    BY <1>5
  <2>2. CASE i # 1
    <3>1. i - 1 \in DOMAIN chs /\ i = (i - 1) + 1
      BY <1>1, <2>1, <2>2
    <3> QED
      BY <3>1
  <2> QED
    BY <2>2
<1>7. /\ \A j \in DOMAIN chs : j + 1 \in DOMAIN r /\ r[j + 1].id = chs[j].id
                               /\ r[j + 1].title = chs[j].title
      /\ 1 \in DOMAIN r
  BY <1>1, <1>5
<1>8. \A j \in DOMAIN chs : chs[j].title # h /\ chs[j].id # root /\ chs[j].id \in Range(k)
  OBVIOUS
<1>9. IsListOf(r, b, k)
  <2>1. Distinct(r)
    <3> SUFFICES ASSUME NEW i1 \in DOMAIN r, NEW i2 \in DOMAIN r, r[i1].title = r[i2].title
                 PROVE  i1 = i2
      BY DEF Distinct
    <3>1. ASSUME NEW i \in DOMAIN r, r[i].title = h
          PROVE  i = 1
      <4>1. ASSUME NEW j \in DOMAIN chs, i = j + 1
            PROVE  FALSE
        <5>1. r[j + 1].title = chs[j].title /\ chs[j].title # h
          BY <1>7, <1>8, Zenon
        <5>2. r[j + 1].title = h
          BY <3>1, <4>1
        <5> QED
          BY <5>1, <5>2
      <4> QED
        BY <1>6, <4>1
    <3>3. CASE i1 = 1 \/ i2 = 1
      BY <1>5, <3>1, <3>3
    <3>2. ASSUME NEW j1 \in DOMAIN chs, NEW j2 \in DOMAIN chs, i1 = j1 + 1, i2 = j2 + 1
          PROVE  i1 = i2
      <4>1. chs[j1].title = chs[j2].title
        BY <1>7, <3>2
      <4> QED
        BY <3>2, <4>1 DEF Distinct
    <3> QED
      BY <1>6, <3>2, <3>3
  <2>2. ASSUME NEW i \in DOMAIN r
        PROVE  r[i].title \in DOMAIN b /\ r[i].id = b[r[i].title]
    <3>1. CASE i = 1
      BY <1>4, <1>5, <3>1
    <3>2. ASSUME NEW j \in DOMAIN chs, i = j + 1
          PROVE  r[i].title \in DOMAIN b /\ r[i].id = b[r[i].title]
      <4>1. r[i].id = chs[j].id /\ r[i].title = chs[j].title /\ chs[j].title # h
        BY <1>7, <1>8, <3>2
      <4> QED
        BY <1>2, <1>4, <4>1
    <3> QED
      BY <1>6, <3>1, <3>2
  <2>3. ASSUME NEW t \in DOMAIN b
        PROVE  \E i \in DOMAIN r : r[i].title = t
    <3>1. CASE t = h
      <4>1. 1 \in DOMAIN r /\ r[1].title = h
        BY <1>5, <1>7
      <4> QED
        BY <3>1, <4>1
    <3>2. CASE t # h
      <4>1. PICK j \in DOMAIN chs : t = chs[j].title
        BY <1>2, <1>4, <3>2
      <4> QED
        BY <1>7, <4>1
    <3> QED
      BY <3>1, <3>2
  <2>4. ASSUME NEW t \in DOMAIN b, NEW u \in DOMAIN b, t # u, b[t] = b[u]
        PROVE  b[t] \in Range(k)
    <3>1. t # h
      BY <1>2, <1>4, <1>8, <2>4
    <3> QED
      BY <1>2, <1>4, <1>8, <3>1
  <2> QED
    BY <2>1, <2>2, <2>3, <2>4 DEF IsListOf
<1>10. Rooted(r)
  <2> SUFFICES ASSUME NEW i \in DOMAIN r, r[i].parent # NoId
               PROVE  \E j \in 1..(i - 1) : r[j].id = r[i].parent /\ r[j].title \in Hosts
    BY DEF Rooted
  <2>1. i # 1
    BY <1>5
  <2>2. PICK j \in DOMAIN chs : i = j + 1
    BY <1>6, <2>1
  <2>3. r[i].parent = root
    BY <1>1, <1>5, <2>2
  <2>4. 1 \in 1..(i - 1)
    BY <1>1, <2>2
  <2> QED
    BY <1>5, <2>3, <2>4
<1>11. \A i \in DOMAIN r : r[i].id = root \/ \E j \in DOMAIN chs : r[i].id = chs[j].id
  BY <1>5, <1>6, <1>7
<1> QED
  BY <1>3, <1>9, <1>10, <1>11 DEF b, ids

-----------------------------------------------------------------------------
(* What the plugin keeps: its servers, and what is saved of them.          *)

ServerSound(srv) ==
  /\ IsRecord(srv)
  /\ ServerType(srv)
  /\ IsListOf(srv.rows, srv.buffers, srv.known)
  /\ Rooted(srv.rows)

(* The ids that a server has given or may give again, and those that it    *)
(* may have again after the core has started.                              *)
HeldIds(srv) == RowIds(srv) \cup Range(srv.known)

OwnedIds(svs, saved, s) ==
  (IF s \in DOMAIN svs THEN HeldIds(svs[s]) ELSE {})
    \cup (IF s \in DOMAIN saved THEN SavedIds(saved[s]) ELSE {})

FileTyped ==
  /\ file = Absent \/ file = Empty \/ file = SavedAs(file.content)
  /\ process \in {"down", "up", "saving", "crashed"}
  /\ timer \in BOOLEAN /\ missed \in BOOLEAN

ServersSound ==
  /\ DOMAIN servers \subseteq Servers
  /\ \A s \in DOMAIN servers : ServerSound(servers[s])

StoredSound ==
  /\ DOMAIN Stored \subseteq Servers
  /\ \A s \in DOMAIN Stored : SavedSound(Stored[s])

(* An id belongs to one server, and has been given. *)
Apart(svs, saved, n) ==
  /\ \A s \in Servers : OwnedIds(svs, saved, s) \subseteq 1..(n - 1)
  /\ \A s, r \in Servers :
       s # r => OwnedIds(svs, saved, s) \cap OwnedIds(svs, saved, r) = {}

BuffersInv ==
  /\ FileTyped /\ following \in BOOLEAN
  /\ nextId \in 1..(MaxId + 1) /\ acts \in 0..MaxActs
  /\ ServersSound /\ StoredSound
  /\ Apart(servers, Stored, nextId)

-----------------------------------------------------------------------------
(* What the operators make of a server that is sound.                      *)

LEMMA SoundParts ==
  ASSUME NEW srv
  PROVE  ServerSound(srv) <=>
           /\ IsRecord(srv)
           /\ srv.host \in Hosts /\ srv.online \in BOOLEAN
           /\ srv.phase \in {"made", "registered", "ready"}
           /\ srv.buffers \in TitledIds /\ srv.known \in TitledIds
           /\ srv.rows \in Seq(RowType)
           /\ srv.dangling \subseteq RowIds(srv)
           /\ IsListOf(srv.rows, srv.buffers, srv.known) /\ Rooted(srv.rows)
BY Zenon DEF ServerSound, ServerType

(* The host, the status or the phase is another. *)
LEMMA StateIsSound ==
  ASSUME NEW srv, ServerSound(srv), NEW h \in Hosts, NEW on \in BOOLEAN,
         NEW p \in {"made", "registered", "ready"}, NEW new,
         \/ new = [srv EXCEPT !.host = h] /\ on = srv.online /\ p = srv.phase
         \/ new = [srv EXCEPT !.online = on] /\ h = srv.host /\ p = srv.phase
         \/ new = [srv EXCEPT !.phase = p] /\ h = srv.host /\ on = srv.online
  PROVE  ServerSound(new) /\ HeldIds(new) = HeldIds(srv)
<1>1. /\ IsRecord(new) /\ new.host = h /\ new.online = on /\ new.phase = p
      /\ new.buffers = srv.buffers /\ new.rows = srv.rows
      /\ new.dangling = srv.dangling /\ new.known = srv.known
  <2>1. IsRecord(srv)
    BY SoundParts
  <2> QED
    BY <2>1 DEF IsRecord, Members
<1>2. RowIds(new) = RowIds(srv)
  BY <1>1 DEF RowIds
<1> QED
  BY <1>1, <1>2, SoundParts, Zenon DEF HeldIds

(* A new server has its own buffer, and its row. *)
LEMMA NewIsSound ==
  ASSUME NEW h \in Hosts, NEW id \in Ids
  PROVE  ServerSound(NewServer(h, id)) /\ HeldIds(NewServer(h, id)) = {id}
<1> DEFINE new == NewServer(h, id)
           r == <<Row(id, h, NoId)>>
           b == [t \in {h} |-> id]
<1>1. /\ new.host = h /\ new.online = FALSE /\ new.phase = "made"
      /\ new.buffers = b /\ new.rows = r
      /\ new.dangling = {} /\ new.known = None
  BY DEF NewServer
<1>2. IsRecord(new)
  BY NewServerIsRecord
<1>3. b \in TitledIds
  <2>1. DOMAIN b \subseteq Titles /\ b \in [DOMAIN b -> Ids]
    BY DEF Titles
  <2> QED
    BY <2>1, TitledMaps
<1>4. None \in TitledIds /\ Range(None) = {}
  <2>1. DOMAIN None = {} /\ None \in [DOMAIN None -> Ids]
    BY DEF None
  <2>2. None \in TitledIds
    BY <2>1, TitledMaps
  <2> QED
    BY <2>1, <2>2 DEF Range
<1>5. Row(id, h, NoId) \in RowType
  BY DEF Row, RowType, Titles
<1>6. /\ r \in Seq(RowType) /\ DOMAIN r = {1}
      /\ r[1].id = id /\ r[1].title = h /\ r[1].parent = NoId
  BY <1>5 DEF Row
<1>7. DOMAIN b = {h} /\ b[h] = id
  OBVIOUS
<1> HIDE DEF new, r, b
<1>8. IsListOf(r, b, None) /\ Rooted(r)
  BY <1>6, <1>7 DEF IsListOf, Distinct, Rooted
<1>9. RowIds(new) = {id}
  BY <1>1, <1>6 DEF RowIds
<1>10. ServerSound(new)
  BY <1>1, <1>2, <1>3, <1>4, <1>6, <1>8, SoundParts
<1>11. HeldIds(new) = {id}
  BY <1>1, <1>4, <1>9 DEF HeldIds
<1> QED
  BY <1>10, <1>11 DEF new

(* A buffer is added: with an id that the file knows, or a new one. *)
LEMMA AddedIsSound ==
  ASSUME NEW srv, ServerSound(srv), NEW t \in Chats, t \notin DOMAIN srv.buffers,
         NEW id \in Ids, id \in Range(srv.known) \/ id \notin RowIds(srv)
  PROVE  /\ ServerSound(AddedBuffer(srv, t, id))
         /\ HeldIds(AddedBuffer(srv, t, id)) = HeldIds(srv) \cup {id}
<1> DEFINE new == AddedBuffer(srv, t, id)
           parent == ParentId(srv, t)
           x == Row(id, t, parent)
           r == srv.rows
           b == srv.buffers
           d == srv.dangling \ {id}
<1>1. new = [srv EXCEPT !.buffers = Inserted(b, t, id), !.rows = Append(r, x), !.dangling = d]
  BY Zenon DEF AddedBuffer
<1>2. /\ IsRecord(srv) /\ srv.host \in Hosts /\ srv.online \in BOOLEAN
      /\ srv.phase \in {"made", "registered", "ready"}
      /\ b \in TitledIds /\ srv.known \in TitledIds
      /\ r \in Seq(RowType)
      /\ srv.dangling \subseteq RowIds(srv)
      /\ IsListOf(r, b, srv.known) /\ Rooted(r)
  BY SoundParts
<1>3. parent \in Ids \cup {NoId}
      /\ (parent # NoId => \E j \in DOMAIN r : r[j].id = parent /\ r[j].title \in Hosts)
  <2>1. CASE t # srv.host /\ srv.host \in DOMAIN b
    <3>1. parent = b[srv.host]
      BY <2>1 DEF ParentId
    <3>2. PICK j \in DOMAIN r : r[j].title = srv.host
      BY <1>2, <2>1 DEF IsListOf
    <3>3. r[j].id = parent
      BY <1>2, <3>1, <3>2 DEF IsListOf
    <3>4. b[srv.host] \in Ids
      BY <1>2, <2>1, MapsAreTitled
    <3> QED
      BY <1>2, <3>1, <3>2, <3>3, <3>4
  <2>2. CASE ~(t # srv.host /\ srv.host \in DOMAIN b)
    BY <2>2 DEF ParentId
  <2> QED
    BY <2>1, <2>2
<1>4. x \in RowType /\ x.id = id /\ x.title = t /\ x.parent = parent
  <2> HIDE DEF parent
  <2> QED
    BY <1>3 DEF Row, RowType, Titles
<1>5. id \in Range(srv.known) \/ \A i \in DOMAIN r : r[i].id # id
  BY DEF RowIds
<1> HIDE DEF parent, x
<1>6. /\ Append(r, x) \in Seq(RowType)
      /\ IsListOf(Append(r, x), Inserted(b, t, id), srv.known)
      /\ Rooted(Append(r, x))
      /\ {Append(r, x)[i].id : i \in DOMAIN Append(r, x)} = {r[i].id : i \in DOMAIN r} \cup {id}
  <2> HIDE DEF r, b
  <2>1. x.title \notin DOMAIN b
    BY <1>4 DEF b
  <2>2. x.parent # NoId => \E j \in DOMAIN r : r[j].id = x.parent /\ r[j].title \in Hosts
    BY <1>3, <1>4
  <2>3. /\ Append(r, x) \in Seq(RowType)
        /\ IsListOf(Append(r, x), Inserted(b, x.title, x.id), srv.known)
        /\ Rooted(Append(r, x))
        /\ {Append(r, x)[i].id : i \in DOMAIN Append(r, x)} = {r[i].id : i \in DOMAIN r} \cup {x.id}
    BY <1>2, <1>4, <1>5, <2>1, <2>2, RowAppended
  <2> QED
    BY <1>4, <2>3
<1>7. Inserted(b, t, id) \in TitledIds
  BY <1>2, InsertedIsTitled DEF Titles
<1> DEFINE c == Inserted(b, t, id)
           q == Append(r, x)
<1> HIDE DEF new, d, c, q
<1>8. /\ IsRecord(new) /\ new.buffers = c /\ new.rows = q
      /\ new.dangling = d
      /\ new.host = srv.host /\ new.online = srv.online
      /\ new.phase = srv.phase /\ new.known = srv.known
  <2>1. new = [srv EXCEPT !.buffers = c, !.rows = q, !.dangling = d]
    BY <1>1 DEF c, q
  <2> QED
    BY <1>2, <2>1 DEF IsRecord, Members
<1>9. RowIds(new) = RowIds(srv) \cup {id}
  BY <1>6, <1>8 DEF RowIds, q
<1>10. new.dangling \subseteq RowIds(new)
  BY <1>2, <1>8, <1>9 DEF d
<1>11. ServerSound(new)
  <2>1. q \in Seq(RowType) /\ c \in TitledIds /\ IsListOf(q, c, srv.known) /\ Rooted(q)
    BY <1>6, <1>7 DEF c, q
  <2> QED
    BY <1>2, <1>8, <1>10, <2>1, SoundParts
<1>12. HeldIds(new) = HeldIds(srv) \cup {id}
  BY <1>8, <1>9 DEF HeldIds
<1> QED
  BY <1>11, <1>12 DEF new
(* A buffer is removed, with the row that m_mapping has for its id. *)
LEMMA RemovedIsSound ==
  ASSUME NEW srv, ServerSound(srv), NEW t \in Chats, t \in DOMAIN srv.buffers,
         NEW i \in FindIndex(srv, srv.buffers[t]), srv.rows[i].title = t
  PROVE  /\ ServerSound(RemovedBuffer(srv, t, i))
         /\ HeldIds(RemovedBuffer(srv, t, i)) \subseteq HeldIds(srv)
<1> DEFINE new == RemovedBuffer(srv, t, i)
           r == srv.rows
           b == srv.buffers
           id == b[t]
           q == RemoveAt(r, i)
           c == Restrict(b, DOMAIN b \ {t})
           d == IF \E j \in DOMAIN q : q[j].id = id THEN srv.dangling \cup {id} ELSE srv.dangling
<1>1. new = [srv EXCEPT !.buffers = c, !.rows = q, !.dangling = d]
  BY Zenon DEF RemovedBuffer
<1>2. /\ IsRecord(srv) /\ srv.host \in Hosts /\ srv.online \in BOOLEAN
      /\ srv.phase \in {"made", "registered", "ready"}
      /\ b \in TitledIds /\ srv.known \in TitledIds
      /\ r \in Seq(RowType)
      /\ srv.dangling \subseteq RowIds(srv)
      /\ IsListOf(r, b, srv.known) /\ Rooted(r)
  BY SoundParts
<1>3. i \in DOMAIN r /\ r[i].id = id /\ r[i].title = t /\ id \notin srv.dangling
  BY DEF FindIndex
<1>4. t \in Chats
  OBVIOUS
<1>5. /\ q \in Seq(RowType) /\ c \in TitledIds
      /\ IsListOf(q, c, srv.known) /\ Rooted(q)
      /\ \A j \in DOMAIN q : \E k \in DOMAIN r : q[j] = r[k]
      /\ \A k \in DOMAIN r : k # i => \E j \in DOMAIN q : q[j] = r[k]
  <2> HIDE DEF r, b
  <2>1. r[i].title \in Chats
    BY <1>3, <1>4
  <2>2. /\ RemoveAt(r, i) \in Seq(RowType)
        /\ Restrict(b, DOMAIN b \ {r[i].title}) \in TitledIds
        /\ IsListOf(RemoveAt(r, i), Restrict(b, DOMAIN b \ {r[i].title}), srv.known)
        /\ Rooted(RemoveAt(r, i))
        /\ \A j \in DOMAIN RemoveAt(r, i) : \E k \in DOMAIN r : RemoveAt(r, i)[j] = r[k]
        /\ \A k \in DOMAIN r : k # i =>
             \E j \in DOMAIN RemoveAt(r, i) : RemoveAt(r, i)[j] = r[k]
    BY <1>2, <1>3, <2>1, RowRemoved, Zenon
  <2>3. r[i].title = t
    BY <1>3
  <2> QED
    BY <2>2, <2>3, Zenon
<1> HIDE DEF new, q, c, d
<1>6. /\ IsRecord(new) /\ new.buffers = c /\ new.rows = q /\ new.dangling = d
      /\ new.host = srv.host /\ new.online = srv.online
      /\ new.phase = srv.phase /\ new.known = srv.known
  BY <1>1, <1>2 DEF IsRecord, Members
<1>7. RowIds(new) = {q[j].id : j \in DOMAIN q} /\ RowIds(srv) = {r[k].id : k \in DOMAIN r}
  BY <1>6 DEF RowIds
<1>8. RowIds(new) \subseteq RowIds(srv)
  BY <1>5, <1>7
<1>9. new.dangling \subseteq RowIds(new)
  <2>1. ASSUME NEW x \in srv.dangling
        PROVE  x \in RowIds(new)
    <3>1. PICK k \in DOMAIN r : r[k].id = x
      BY <1>2, <1>7
    <3>2. k # i
      BY <1>3, <3>1
    <3>3. PICK j \in DOMAIN q : q[j] = r[k]
      BY <1>5, <3>2
    <3> QED
      BY <1>7, <3>1, <3>3
  <2>2. ASSUME \E j \in DOMAIN q : q[j].id = id
        PROVE  id \in RowIds(new)
    BY <1>7, <2>2
  <2> QED
    BY <1>6, <2>1, <2>2 DEF d
<1>10. ServerSound(new)
  BY <1>2, <1>5, <1>6, <1>9, SoundParts
<1>11. HeldIds(new) \subseteq HeldIds(srv)
  BY <1>6, <1>8 DEF HeldIds
<1> QED
  BY <1>10, <1>11 DEF new

(* A query has another title. *)
LEMMA RenamedIsSound ==
  ASSUME NEW srv, ServerSound(srv), NEW t \in Chats, NEW u \in Chats,
         t \in DOMAIN srv.buffers, u \notin DOMAIN srv.buffers
  PROVE  /\ ServerSound(RenamedBuffer(srv, t, u))
         /\ HeldIds(RenamedBuffer(srv, t, u)) = HeldIds(srv)
<1> DEFINE new == RenamedBuffer(srv, t, u)
           r == srv.rows
           b == srv.buffers
           q == [i \in DOMAIN r |-> IF r[i].title = t THEN [r[i] EXCEPT !.title = u] ELSE r[i]]
           c == [x \in (DOMAIN b \ {t}) \cup {u} |-> IF x = u THEN b[t] ELSE b[x]]
<1>1. new = [srv EXCEPT !.buffers = c, !.rows = q]
  BY Zenon DEF RenamedBuffer
<1>2. /\ IsRecord(srv) /\ srv.host \in Hosts /\ srv.online \in BOOLEAN
      /\ srv.phase \in {"made", "registered", "ready"}
      /\ b \in TitledIds /\ srv.known \in TitledIds
      /\ r \in Seq(RowType)
      /\ srv.dangling \subseteq RowIds(srv)
      /\ IsListOf(r, b, srv.known) /\ Rooted(r)
  BY SoundParts
<1>3. t \in DOMAIN b /\ u \notin DOMAIN b
  OBVIOUS
<1>4. /\ q \in Seq(RowType) /\ c \in TitledIds
      /\ IsListOf(q, c, srv.known) /\ Rooted(q)
      /\ DOMAIN q = DOMAIN r /\ \A i \in DOMAIN r : q[i].id = r[i].id
  <2>1. q = RenamedRows(r, t, u) /\ c = RenamedIds(b, t, u)
    BY DEF RenamedRows, RenamedIds
  <2> HIDE DEF r, b, q, c
  <2>2. /\ RenamedRows(r, t, u) \in Seq(RowType) /\ RenamedIds(b, t, u) \in TitledIds
        /\ IsListOf(RenamedRows(r, t, u), RenamedIds(b, t, u), srv.known)
        /\ Rooted(RenamedRows(r, t, u))
        /\ DOMAIN RenamedRows(r, t, u) = DOMAIN r
        /\ \A i \in DOMAIN r : RenamedRows(r, t, u)[i].id = r[i].id
    BY <1>2, <1>3, RowRenamed, SMTT(30)
  <2> QED
    BY <2>1, <2>2
<1> HIDE DEF new, q, c
<1>5. /\ IsRecord(new) /\ new.buffers = c /\ new.rows = q
      /\ new.dangling = srv.dangling
      /\ new.host = srv.host /\ new.online = srv.online
      /\ new.phase = srv.phase /\ new.known = srv.known
  BY <1>1, <1>2 DEF IsRecord, Members
<1>6. RowIds(new) = RowIds(srv)
  BY <1>4, <1>5 DEF RowIds
<1>7. ServerSound(new)
  BY <1>2, <1>4, <1>5, <1>6, SoundParts
<1>8. HeldIds(new) = HeldIds(srv)
  BY <1>5, <1>6 DEF HeldIds
<1> QED
  BY <1>7, <1>8 DEF new

(* A server that is loaded has the ids of the file and a new one. *)
LEMMA LoadedIsSound ==
  ASSUME NEW saved, SavedSound(saved), NEW root \in Ids, root \notin SavedIds(saved)
  PROVE  /\ ServerSound(Loaded(saved, root))
         /\ HeldIds(Loaded(saved, root)) \subseteq SavedIds(saved) \cup {root}
<1> DEFINE new == Loaded(saved, root)
           h == saved.host
           chs == Others(saved)
           own == NewServer(h, root)
           r == LoadedRows(chs, h, root)
           b == Inserted(IdsBy(chs), h, root)
           k == IdsBy(saved.channels)
<1>1. own.rows = <<Row(root, h, NoId)>> /\ own.host = h /\ own.online = FALSE
      /\ own.phase = "made" /\ own.dangling = {} /\ IsRecord(own)
  BY NewServerIsRecord DEF NewServer
<1>2. new = [own EXCEPT !.buffers = b, !.rows = r, !.known = k]
  <2>1. new = [own EXCEPT !.buffers = b, !.rows = own.rows \o
                  [i \in DOMAIN chs |-> Row(chs[i].id, chs[i].title, root)], !.known = k]
    BY Zenon DEF Loaded
  <2> HIDE DEF own, b, k
  <2> QED
    BY <1>1, <2>1, Zenon DEF LoadedRows
<1>3. /\ h \in Hosts /\ saved.channels \in Seq(Titled) /\ Distinct(saved.channels)
      /\ chs \in Seq(Titled) /\ Distinct(chs)
      /\ \A i \in DOMAIN chs :
           chs[i].title # h /\ \E j \in DOMAIN saved.channels : chs[i] = saved.channels[j]
  BY OthersAreTitled DEF SavedSound
<1>4. k \in TitledIds /\ Range(k) = SavedIds(saved)
  BY <1>3, IdsByTitle, Zenon DEF SavedIds
<1>5. \A i \in DOMAIN chs : chs[i].title # h /\ chs[i].id # root /\ chs[i].id \in Range(k)
  BY <1>3, <1>4 DEF SavedIds
<1> HIDE DEF new, h, chs, own, k
<1>6. r \in Seq(RowType) /\ AreLoaded(r, chs, h, root)
  BY <1>3, RowsLoaded, Zenon
<1> HIDE DEF r
<1>7. /\ b \in TitledIds /\ IsListOf(r, b, k) /\ Rooted(r)
      /\ \A i \in DOMAIN r : r[i].id = root \/ \E j \in DOMAIN chs : r[i].id = chs[j].id
  <2>1. h \in Hosts /\ chs \in Seq(Titled) /\ Distinct(chs)
        /\ r \in Seq(RowType) /\ AreLoaded(r, chs, h, root)
    BY <1>3, <1>6, Zenon
  <2>2. \A i \in DOMAIN chs : chs[i].title # h /\ chs[i].id # root
    BY <1>5, Zenon
  <2>3. \A i \in DOMAIN chs : chs[i].id \in Range(k)
    BY <1>5, Zenon
  <2> QED
    BY <2>1, <2>2, <2>3, LoadedAreListed, Zenon
<1> HIDE DEF b
<1>8. /\ IsRecord(new) /\ new.buffers = b /\ new.rows = r /\ new.known = k
      /\ new.host = h /\ new.online = FALSE /\ new.phase = "made" /\ new.dangling = {}
  BY <1>1, <1>2 DEF IsRecord, Members
<1>9. ServerSound(new)
  BY <1>3, <1>4, <1>6, <1>7, <1>8, SoundParts
<1>10. HeldIds(new) \subseteq SavedIds(saved) \cup {root}
  BY <1>4, <1>5, <1>7, <1>8 DEF HeldIds, RowIds
<1> QED
  BY <1>9, <1>10 DEF new

(* What is saved of a server can be loaded. *)
LEMMA SavedIsSound ==
  ASSUME NEW srv, ServerSound(srv)
  PROVE  SavedSound(Saved(srv)) /\ SavedIds(Saved(srv)) = RowIds(srv)
<1> DEFINE r == srv.rows
           chs == [i \in DOMAIN r |-> [id |-> r[i].id, title |-> r[i].title]]
           n == Len(r)
<1>1. /\ srv.host \in Hosts /\ srv.online \in BOOLEAN /\ r \in Seq(RowType)
      /\ IsListOf(r, srv.buffers, srv.known)
  BY SoundParts
<1>2. Saved(srv).host = srv.host /\ Saved(srv).online = srv.online /\ Saved(srv).channels = chs
  BY DEF Saved
<1> HIDE DEF r
<1>3. DOMAIN r = 1..n /\ n \in Nat /\ \A i \in DOMAIN r : r[i].id \in Ids /\ r[i].title \in Titles
  <2>1. DOMAIN r = 1..n /\ n \in Nat /\ \A i \in DOMAIN r : r[i] \in RowType
    BY <1>1, LenProperties, ElementOfSeq
  <2> QED
    BY <2>1 DEF RowType
<1>4. DOMAIN chs = 1..n /\ \A i \in 1..n : chs[i].id = r[i].id /\ chs[i].title = r[i].title
  <2> HIDE DEF n
  <2> QED
    BY <1>3
<1>5. chs \in Seq(Titled)
  <2> HIDE DEF n
  <2> DEFINE f == [i \in 1..n |-> [id |-> r[i].id, title |-> r[i].title]]
  <2>1. \A i \in 1..n : [id |-> r[i].id, title |-> r[i].title] \in Titled
    BY <1>3 DEF Titled
  <2>2. f \in Seq(Titled)
    BY <1>3, <2>1, IsASeq
  <2>3. chs = f
    BY <1>3
  <2> QED
    BY <2>2, <2>3
<1> HIDE DEF chs, n
<1>6. Distinct(chs)
  BY <1>1, <1>3, <1>4 DEF Distinct, IsListOf
<1>7. {chs[i].id : i \in DOMAIN chs} = {r[i].id : i \in DOMAIN r}
  BY <1>3, <1>4
<1>8. SavedSound(Saved(srv))
  BY <1>1, <1>2, <1>5, <1>6, Zenon DEF SavedSound
<1>9. SavedIds(Saved(srv)) = RowIds(srv)
  BY <1>2, <1>7, Zenon DEF SavedIds, RowIds, r
<1> QED
  BY <1>8, <1>9

-----------------------------------------------------------------------------
(* Ids stay with their servers.                                            *)

(* Servers get ids that have not been given, each its own. *)
LEMMA StaysApart ==
  ASSUME NEW svs, NEW saved, NEW n \in Nat \ {0}, Apart(svs, saved, n),
         NEW svs2, NEW saved2, NEW m \in Nat, n <= m,
         NEW fresh, \A s \in Servers : fresh[s] \subseteq n..(m - 1),
         \A s, r \in Servers : s # r => fresh[s] \cap fresh[r] = {},
         \A s \in Servers : OwnedIds(svs2, saved2, s) \subseteq OwnedIds(svs, saved, s) \cup fresh[s]
  PROVE  Apart(svs2, saved2, m)
<1> DEFINE old(s) == OwnedIds(svs, saved, s)
           new(s) == OwnedIds(svs2, saved2, s)
<1>1. /\ \A s \in Servers : old(s) \subseteq 1..(n - 1)
      /\ \A s, r \in Servers : s # r => old(s) \cap old(r) = {}
      /\ \A s \in Servers : new(s) \subseteq old(s) \cup fresh[s]
  BY DEF Apart
<1> HIDE DEF old, new
<1>2. ASSUME NEW s \in Servers
      PROVE  new(s) \subseteq 1..(m - 1)
  BY <1>1
<1>3. ASSUME NEW s \in Servers, NEW r \in Servers, s # r, NEW id \in new(s), id \in new(r)
      PROVE  FALSE
  <2>1. /\ id \in old(s) \/ id \in fresh[s]
        /\ id \in old(r) \/ id \in fresh[r]
    BY <1>1, <1>3
  <2>2. ASSUME NEW x \in Servers, id \in old(x)
        PROVE  id \in 1..(n - 1)
    BY <1>1, <2>2
  <2>3. ASSUME NEW x \in Servers, id \in fresh[x]
        PROVE  id \in n..(m - 1)
    BY <2>3
  <2>4. ~(id \in 1..(n - 1) /\ id \in n..(m - 1))
    OBVIOUS
  <2>5. ~(id \in old(s) /\ id \in old(r)) /\ ~(id \in fresh[s] /\ id \in fresh[r])
    BY <1>1, <1>3
  <2> QED
    BY <2>1, <2>2, <2>3, <2>4, <2>5
<1> QED
  BY <1>2, <1>3 DEF Apart, new

(* No server has more ids than it had. *)
LEMMA NotMoreIds ==
  ASSUME NEW svs, NEW saved, NEW n \in Nat \ {0}, Apart(svs, saved, n), NEW svs2, NEW saved2,
         \A s \in Servers : OwnedIds(svs2, saved2, s) \subseteq OwnedIds(svs, saved, s)
  PROVE  Apart(svs2, saved2, n)
<1> DEFINE fresh == [s \in Servers |-> {}]
<1>1. /\ \A s \in Servers : fresh[s] \subseteq n..(n - 1)
      /\ \A s, r \in Servers : s # r => fresh[s] \cap fresh[r] = {}
      /\ \A s \in Servers : OwnedIds(svs2, saved2, s) \subseteq OwnedIds(svs, saved, s) \cup fresh[s]
  OBVIOUS
<1> HIDE DEF fresh
<1> QED
  BY <1>1, StaysApart

(* One server has the next id as well. *)
LEMMA OneMoreId ==
  ASSUME NEW svs, NEW saved, NEW n \in Nat \ {0}, Apart(svs, saved, n), NEW svs2, NEW saved2,
         NEW o \in Servers,
         OwnedIds(svs2, saved2, o) \subseteq OwnedIds(svs, saved, o) \cup {n},
         \A s \in Servers \ {o} : OwnedIds(svs2, saved2, s) \subseteq OwnedIds(svs, saved, s)
  PROVE  Apart(svs2, saved2, n + 1)
<1> DEFINE fresh == [s \in Servers |-> IF s = o THEN {n} ELSE {}]
<1>1. /\ \A s \in Servers : fresh[s] \subseteq n..((n + 1) - 1)
      /\ \A s, r \in Servers : s # r => fresh[s] \cap fresh[r] = {}
      /\ \A s \in Servers : OwnedIds(svs2, saved2, s) \subseteq OwnedIds(svs, saved, s) \cup fresh[s]
  OBVIOUS
<1>2. n + 1 \in Nat /\ n <= n + 1
  OBVIOUS
<1> HIDE DEF fresh
<1> QED
  BY <1>1, <1>2, StaysApart

(* What a server holds has been given. *)
LEMMA HeldAreGiven ==
  ASSUME NEW svs, NEW saved, NEW n, Apart(svs, saved, n), DOMAIN svs \subseteq Servers,
         NEW s \in DOMAIN svs
  PROVE  HeldIds(svs[s]) \subseteq 1..(n - 1)
BY Zenon DEF Apart, OwnedIds

-----------------------------------------------------------------------------
(* Each operation keeps BuffersInv.                                        *)

LEMMA SameFile ==
  ASSUME file' = file
  PROVE  Stored' = Stored /\ (StoredSound => StoredSound')
BY DEF Stored, StoredSound

(* A server is replaced, and may have the next id. *)
LEMMA ReplacedIsSound ==
  ASSUME BuffersInv, NEW s \in DOMAIN servers, NEW new, ServerSound(new),
         servers' = [servers EXCEPT ![s] = new], file' = file,
         \/ HeldIds(new) \subseteq HeldIds(servers[s]) /\ nextId' = nextId
         \/ /\ HeldIds(new) \subseteq HeldIds(servers[s]) \cup {nextId}
            /\ nextId <= MaxId /\ nextId' = nextId + 1
  PROVE  /\ ServersSound' /\ StoredSound'
         /\ nextId' \in 1..(MaxId + 1) /\ Apart(servers', Stored', nextId')
<1>1. /\ nextId \in Nat \ {0} /\ nextId \in 1..(MaxId + 1) /\ MaxId \in Nat
      /\ Apart(servers, Stored, nextId) /\ ServersSound /\ StoredSound
  BY BoundsAssumption DEF BuffersInv
<1>2. DOMAIN servers' = DOMAIN servers /\ servers'[s] = new
      /\ \A r \in DOMAIN servers : r # s => servers'[r] = servers[r]
  OBVIOUS
<1>3. ServersSound'
  BY <1>1, <1>2 DEF ServersSound
<1>4. StoredSound' /\ Stored' = Stored
  BY <1>1, SameFile
<1>5. nextId' \in 1..(MaxId + 1)
  BY <1>1
<1>6. s \in Servers
  BY <1>1 DEF ServersSound
<1>7. \A r \in Servers \ {s} : OwnedIds(servers', Stored', r) \subseteq OwnedIds(servers, Stored, r)
  BY <1>2, <1>4 DEF OwnedIds
<1>8. CASE HeldIds(new) \subseteq HeldIds(servers[s]) /\ nextId' = nextId
  <2>1. OwnedIds(servers', Stored', s) \subseteq OwnedIds(servers, Stored, s)
    BY <1>2, <1>4, <1>8 DEF OwnedIds
  <2>2. \A r \in Servers : OwnedIds(servers', Stored', r) \subseteq OwnedIds(servers, Stored, r)
    BY <1>7, <2>1
  <2>3. Apart(servers', Stored', nextId)
    BY <1>1, <2>2, NotMoreIds
  <2> QED
    BY <1>3, <1>4, <1>5, <1>8, <2>3
<1>9. CASE /\ HeldIds(new) \subseteq HeldIds(servers[s]) \cup {nextId}
           /\ nextId <= MaxId /\ nextId' = nextId + 1
  <2>1. OwnedIds(servers', Stored', s) \subseteq OwnedIds(servers, Stored, s) \cup {nextId}
    BY <1>2, <1>4, <1>9 DEF OwnedIds
  <2>2. Apart(servers', Stored', nextId + 1)
    BY <1>1, <1>6, <1>7, <2>1, OneMoreId
  <2> QED
    BY <1>3, <1>4, <1>5, <1>9, <2>2
<1> QED
  BY <1>8, <1>9

LEMMA BuffersInvInit == IrcInit => BuffersInv
<1> SUFFICES ASSUME IrcInit
             PROVE  BuffersInv
  OBVIOUS
<1>1. /\ process = "down" /\ timer = FALSE /\ file = Absent /\ missed = FALSE
      /\ servers = None /\ nextId = 1 /\ acts = 0 /\ following = FALSE
  BY DEF IrcInit, ConfigInit
<1>2. FileTyped
  BY <1>1, Zenon DEF FileTyped
<1>3. Stored = None
  BY <1>1 DEF Stored, Absent
<1>4. DOMAIN None = {}
  BY DEF None
<1>5. ServersSound /\ StoredSound
  BY <1>1, <1>3, <1>4 DEF ServersSound, StoredSound
<1>6. \A s \in Servers : OwnedIds(servers, Stored, s) = {}
  BY <1>1, <1>3, <1>4 DEF OwnedIds
<1>7. Apart(servers, Stored, nextId)
  <2> DEFINE own(s) == OwnedIds(servers, Stored, s)
  <2>1. \A s \in Servers : own(s) = {}
    BY <1>6
  <2> HIDE DEF own
  <2>2. /\ \A s \in Servers : own(s) \subseteq 1..(nextId - 1)
        /\ \A s, r \in Servers : s # r => own(s) \cap own(r) = {}
    BY <2>1
  <2> QED
    BY <2>2, Zenon DEF Apart, own
<1>8. nextId \in 1..(MaxId + 1) /\ acts \in 0..MaxActs
  <2>1. nextId = 1 /\ acts = 0 /\ MaxId \in Nat /\ MaxActs \in Nat
    BY <1>1, BoundsAssumption
  <2> QED
    BY <2>1
<1>9. following \in BOOLEAN
  BY <1>1
<1> QED
  BY <1>2, <1>5, <1>7, <1>8, <1>9 DEF BuffersInv

(* The core starts: the servers have the ids of the file, and one more. *)
LEMMA StartKeeps ==
  ASSUME BuffersInv, StartIrc
  PROVE  BuffersInv'
<1>1. /\ nextId \in Nat \ {0} /\ MaxId \in Nat /\ MaxActs \in Nat
      /\ Apart(servers, Stored, nextId) /\ StoredSound /\ FileTyped /\ following \in BOOLEAN
  BY BoundsAssumption DEF BuffersInv
<1>2. /\ process' = "up" /\ timer' = (Stored # None) /\ file' = file
      /\ nextId' \in nextId..(MaxId + 1)
      /\ acts' = 0 /\ following' = following /\ missed' = missed
  BY DEF StartIrc, Start
<1>3. PICK root \in Bijection(DOMAIN Stored, nextId..(nextId' - 1)) :
        servers' = [s \in DOMAIN Stored |-> Loaded(Stored[s], root[s])]
  BY DEF StartIrc
<1>4. /\ \A s \in DOMAIN Stored : root[s] \in nextId..(nextId' - 1)
      /\ \A s, r \in DOMAIN Stored : root[s] = root[r] => s = r
  BY <1>3 DEF Bijection, Injection, Surjection, IsInjective
<1>5. StoredSound' /\ Stored' = Stored
  BY <1>1, <1>2, SameFile
<1>6. FileTyped'
  <2>1. timer' \in BOOLEAN
    BY <1>2
  <2> QED
    BY <1>1, <1>2, <2>1, Zenon DEF FileTyped
<1>7. nextId' \in 1..(MaxId + 1) /\ acts' \in 0..MaxActs /\ nextId' \in Nat /\ nextId <= nextId'
  BY <1>1, <1>2
<1>8. ASSUME NEW s \in DOMAIN Stored
      PROVE  /\ ServerSound(servers'[s])
             /\ HeldIds(servers'[s]) \subseteq SavedIds(Stored[s]) \cup {root[s]}
  <2>1. SavedSound(Stored[s]) /\ s \in Servers
    BY <1>1 DEF StoredSound
  <2>2. SavedIds(Stored[s]) \subseteq 1..(nextId - 1)
    BY <1>1, <2>1 DEF Apart, OwnedIds
  <2>3. root[s] \in nextId..(nextId' - 1)
    BY <1>4
  <2>4. root[s] \in Ids /\ root[s] \notin SavedIds(Stored[s])
    BY <1>1, <1>7, <2>2, <2>3 DEF Ids
  <2>5. servers'[s] = Loaded(Stored[s], root[s])
    BY <1>3
  <2> QED
    BY <2>1, <2>4, <2>5, LoadedIsSound
<1>9. DOMAIN servers' = DOMAIN Stored
  BY <1>3
<1>10. ServersSound'
  BY <1>1, <1>8, <1>9 DEF ServersSound, StoredSound
<1>11. Apart(servers', Stored', nextId')
  <2> DEFINE fresh == [s \in Servers |-> IF s \in DOMAIN Stored THEN {root[s]} ELSE {}]
  <2>1. \A s \in Servers : fresh[s] \subseteq nextId..(nextId' - 1)
    BY <1>4
  <2>2. \A s, r \in Servers : s # r => fresh[s] \cap fresh[r] = {}
    BY <1>4
  <2>3. ASSUME NEW s \in Servers
        PROVE  OwnedIds(servers', Stored', s) \subseteq OwnedIds(servers, Stored, s) \cup fresh[s]
    <3>1. CASE s \in DOMAIN Stored
      BY <1>5, <1>8, <1>9, <3>1 DEF OwnedIds
    <3>2. CASE s \notin DOMAIN Stored
      BY <1>5, <1>9, <3>2 DEF OwnedIds
    <3> QED
      BY <3>1, <3>2
  <2> HIDE DEF fresh
  <2> QED
    BY <1>1, <1>7, <2>1, <2>2, <2>3, StaysApart
<1> QED
  BY <1>1, <1>2, <1>5, <1>6, <1>7, <1>10, <1>11 DEF BuffersInv
(* The file is emptied and then written, or left as it is. *)
LEMMA SavingKeeps ==
  ASSUME BuffersInv, SaveIrc \/ WriteIrc
  PROVE  BuffersInv'
<1>1. /\ nextId \in Nat \ {0} /\ nextId \in 1..(MaxId + 1) /\ acts \in 0..MaxActs
      /\ Apart(servers, Stored, nextId)
      /\ ServersSound /\ StoredSound /\ FileTyped /\ following \in BOOLEAN
  BY DEF BuffersInv
<1>2. servers' = servers /\ nextId' = nextId /\ acts' = acts /\ following' = following
  BY DEF SaveIrc, WriteIrc, ircVars
<1>3. ServersSound'
  BY <1>1, <1>2 DEF ServersSound
<1>4. CASE SaveIrc /\ process' = "saving" /\ file' = Empty
  <2>1. /\ process' = "saving" /\ timer' = FALSE /\ file' = Empty
        /\ missed' = FALSE \/ missed' = (missed \/ timer)
    BY <1>4, Zenon DEF SaveIrc, SaveNow
  <2>2. FileTyped'
    BY <1>1, <2>1, Zenon DEF FileTyped
  <2>3. Stored' = None
    BY <2>1 DEF Stored, Empty
  <2>4. DOMAIN None = {}
    BY DEF None
  <2>5. StoredSound'
    BY <2>3, <2>4 DEF StoredSound
  <2>6. \A s \in Servers : OwnedIds(servers', Stored', s) \subseteq OwnedIds(servers, Stored, s)
    BY <1>2, <2>3, <2>4 DEF OwnedIds
  <2>7. Apart(servers', Stored', nextId')
    BY <1>1, <1>2, <2>6, NotMoreIds
  <2> QED
    BY <1>1, <1>2, <1>3, <2>2, <2>5, <2>7 DEF BuffersInv
<1>5. CASE WriteIrc /\ file' = SavedAs(Content)
  <2>1. /\ process' = "up" /\ timer' = timer /\ file' = SavedAs(Content)
        /\ missed' = TRUE \/ missed' = missed
    BY <1>5 DEF WriteIrc, Write
  <2>2. FileTyped'
    <3>1. file' = SavedAs(file'.content)
      BY <2>1 DEF SavedAs
    <3> QED
      BY <1>1, <2>1, <3>1, Zenon DEF FileTyped
  <2>3. Stored' = Content
    BY <2>1 DEF Stored, SavedAs
  <2>4. DOMAIN Content = DOMAIN servers
        /\ \A s \in DOMAIN servers : Content[s] = Saved(servers[s])
    BY DEF Content
  <2>5. \A s \in DOMAIN servers :
          SavedSound(Saved(servers[s])) /\ SavedIds(Saved(servers[s])) = RowIds(servers[s])
    BY <1>1, SavedIsSound DEF ServersSound
  <2>6. StoredSound'
    BY <1>1, <2>3, <2>4, <2>5 DEF StoredSound, ServersSound
  <2>7. ASSUME NEW s \in Servers
        PROVE  OwnedIds(servers', Stored', s) \subseteq OwnedIds(servers, Stored, s)
    <3>1. CASE s \in DOMAIN servers
      BY <1>2, <2>3, <2>4, <2>5, <3>1 DEF OwnedIds, HeldIds
    <3>2. CASE s \notin DOMAIN servers
      BY <1>2, <2>3, <2>4, <3>2 DEF OwnedIds
    <3> QED
      BY <3>1, <3>2
  <2>8. Apart(servers', Stored', nextId')
    BY <1>1, <1>2, <2>7, NotMoreIds
  <2> QED
    BY <1>1, <1>2, <1>3, <2>2, <2>6, <2>8 DEF BuffersInv
<1>6. CASE file' = file /\ process' \in {process, "up"}
  <2>1. /\ timer' = timer \/ timer' = FALSE
        /\ missed' \in {missed, TRUE, FALSE} \/ missed' = (missed \/ timer)
    BY <1>6, Zenon DEF SaveIrc, WriteIrc, SaveNow, Write
  <2>2. FileTyped'
    BY <1>1, <1>6, <2>1, Zenon DEF FileTyped
  <2>3. Stored' = Stored
    BY <1>6 DEF Stored
  <2>4. StoredSound'
    BY <1>1, <2>3 DEF StoredSound
  <2>5. Apart(servers', Stored', nextId')
    BY <1>1, <1>2, <2>3
  <2> QED
    BY <1>1, <1>2, <1>3, <2>2, <2>4, <2>5 DEF BuffersInv
<1>7. \/ SaveIrc /\ process' = "saving" /\ file' = Empty
      \/ WriteIrc /\ file' = SavedAs(Content)
      \/ file' = file /\ process' \in {process, "up"}
  BY Zenon DEF SaveIrc, WriteIrc, SaveNow, Write
<1> QED
  BY <1>4, <1>5, <1>6, <1>7

(* The process ends, and the servers with it. *)
LEMMA EndKeeps ==
  ASSUME BuffersInv, EndIrc
  PROVE  BuffersInv'
<1>1. /\ nextId \in Nat \ {0} /\ nextId \in 1..(MaxId + 1) /\ acts \in 0..MaxActs
      /\ Apart(servers, Stored, nextId) /\ StoredSound /\ FileTyped
  BY DEF BuffersInv
<1>2. /\ process' = "down" /\ timer' = FALSE /\ file' = file /\ servers' = None
      /\ nextId' = nextId /\ acts' = acts /\ following' = FALSE /\ missed' = FALSE
  BY DEF EndIrc, End
<1>3. FileTyped'
  BY <1>1, <1>2, Zenon DEF FileTyped
<1>4. StoredSound' /\ Stored' = Stored
  BY <1>1, <1>2, SameFile
<1>5. DOMAIN None = {}
  BY DEF None
<1>6. ServersSound'
  BY <1>2, <1>5 DEF ServersSound
<1>7. \A s \in Servers : OwnedIds(servers', Stored', s) \subseteq OwnedIds(servers, Stored, s)
  BY <1>2, <1>4, <1>5 DEF OwnedIds
<1>8. Apart(servers', Stored', nextId')
  BY <1>1, <1>2, <1>7, NotMoreIds
<1>9. following' \in BOOLEAN
  BY <1>2
<1> QED
  BY <1>1, <1>2, <1>3, <1>4, <1>6, <1>8, <1>9 DEF BuffersInv

(* What every handler leaves of the rest. *)
LEMMA HandledKeeps ==
  ASSUME BuffersInv, ScheduleSave \/ NoSave \/ Crash, acts' = acts \/ Act,
         following' = following
  PROVE  /\ FileTyped' /\ file' = file
         /\ acts' \in 0..MaxActs /\ following' \in BOOLEAN
<1>1. FileTyped /\ acts \in 0..MaxActs /\ following \in BOOLEAN /\ MaxActs \in Nat
  BY BoundsAssumption DEF BuffersInv
<1>2. file' = file
  BY DEF ScheduleSave, NoSave, Crash, configVars
<1>3. /\ process' \in {"down", "up", "saving", "crashed"}
      /\ timer' \in BOOLEAN /\ missed' \in BOOLEAN
  BY <1>1 DEF ScheduleSave, NoSave, Crash, configVars, FileTyped
<1>4. FileTyped'
  BY <1>1, <1>2, <1>3, Zenon DEF FileTyped
<1>5. acts' \in 0..MaxActs
  BY <1>1 DEF Act
<1> QED
  BY <1>1, <1>2, <1>4, <1>5

(* What a client does to the list of servers. *)
LEMMA ClientKeeps ==
  ASSUME BuffersInv,
         \/ \E s \in Servers, h \in Hosts : AddServer(s, h)
         \/ \E s \in DOMAIN servers : RemoveServer(s)
  PROVE  BuffersInv'
<1>1. /\ nextId \in Nat \ {0} /\ nextId \in 1..(MaxId + 1) /\ MaxId \in Nat
      /\ Apart(servers, Stored, nextId) /\ ServersSound /\ StoredSound
  BY BoundsAssumption DEF BuffersInv
<1>2. ASSUME NEW s \in Servers, NEW h \in Hosts, AddServer(s, h)
      PROVE  BuffersInv'
  <2>1. FileTyped' /\ file' = file /\ acts' \in 0..MaxActs /\ following' \in BOOLEAN
    BY <1>2, HandledKeeps DEF AddServer, Quiet
  <2>2. StoredSound' /\ Stored' = Stored
    BY <1>1, <2>1, SameFile
  <2>3. /\ s \notin DOMAIN servers /\ s \notin DOMAIN Stored
        /\ nextId <= MaxId /\ nextId' = nextId + 1
        /\ servers' = Inserted(servers, s, NewServer(h, nextId))
    BY <1>2 DEF AddServer
  <2>4. /\ DOMAIN servers' = DOMAIN servers \cup {s}
        /\ servers'[s] = NewServer(h, nextId)
        /\ \A r \in DOMAIN servers : servers'[r] = servers[r]
    BY <2>3 DEF Inserted
  <2>5. nextId \in Ids /\ nextId' \in 1..(MaxId + 1)
    BY <1>1, <2>3 DEF Ids
  <2>6. ServerSound(servers'[s]) /\ HeldIds(servers'[s]) = {nextId}
    BY <2>4, <2>5, NewIsSound
  <2>7. ServersSound'
    BY <1>1, <2>4, <2>6 DEF ServersSound
  <2>8. OwnedIds(servers', Stored', s) \subseteq OwnedIds(servers, Stored, s) \cup {nextId}
    BY <2>2, <2>3, <2>4, <2>6 DEF OwnedIds
  <2>9. \A r \in Servers \ {s} : OwnedIds(servers', Stored', r) \subseteq OwnedIds(servers, Stored, r)
    BY <2>2, <2>4 DEF OwnedIds
  <2>10. Apart(servers', Stored', nextId + 1)
    BY <1>1, <2>8, <2>9, OneMoreId
  <2> QED
    BY <2>1, <2>2, <2>3, <2>5, <2>7, <2>10 DEF BuffersInv
<1>3. ASSUME NEW s \in DOMAIN servers, RemoveServer(s)
      PROVE  BuffersInv'
  <2>1. FileTyped' /\ file' = file /\ acts' \in 0..MaxActs /\ following' \in BOOLEAN
    <3>1. Crash \/ ScheduleSave
      BY <1>3 DEF RemoveServer
    <3> QED
      BY <1>3, <3>1, HandledKeeps DEF RemoveServer, Quiet
  <2>2. StoredSound' /\ Stored' = Stored
    BY <1>1, <2>1, SameFile
  <2>3. nextId' = nextId /\ servers' = Restrict(servers, DOMAIN servers \ {s})
    BY <1>3 DEF RemoveServer
  <2>4. /\ DOMAIN servers' = DOMAIN servers \ {s}
        /\ \A r \in DOMAIN servers' : servers'[r] = servers[r]
    BY <2>3 DEF Restrict
  <2>5. ServersSound'
    BY <1>1, <2>4 DEF ServersSound
  <2>6. \A r \in Servers : OwnedIds(servers', Stored', r) \subseteq OwnedIds(servers, Stored, r)
    BY <2>2, <2>4 DEF OwnedIds
  <2>7. Apart(servers', Stored', nextId')
    BY <1>1, <2>3, <2>6, NotMoreIds
  <2> QED
    BY <1>1, <2>1, <2>2, <2>3, <2>5, <2>7 DEF BuffersInv
<1> QED
  BY <1>2, <1>3

(* A server has another host, status or phase. *)
LEMMA StateKeeps ==
  ASSUME BuffersInv, NEW s \in DOMAIN servers,
         \/ \E h \in Hosts : SetHost(s, h)
         \/ StatusChanged(s) \/ RegisterList(s) \/ ListReady(s)
  PROVE  BuffersInv'
<1> DEFINE srv == servers[s]
<1>1. ServerSound(srv)
  BY DEF BuffersInv, ServersSound
<1>2. srv.host \in Hosts /\ srv.online \in BOOLEAN /\ srv.phase \in {"made", "registered", "ready"}
  BY <1>1, SoundParts
<1>3. FileTyped' /\ file' = file /\ acts' \in 0..MaxActs /\ following' \in BOOLEAN
  <2>1. CASE (\E h \in Hosts : SetHost(s, h)) \/ StatusChanged(s)
    BY <2>1, HandledKeeps DEF SetHost, StatusChanged, Quiet
  <2>2. CASE RegisterList(s) \/ ListReady(s)
    BY <2>2, HandledKeeps DEF RegisterList, ListReady, Quiet
  <2> QED
    BY <2>1, <2>2
<1>4. PICK new : /\ servers' = [servers EXCEPT ![s] = new]
                 /\ ServerSound(new) /\ HeldIds(new) = HeldIds(srv)
  <2> DEFINE Done == \E new : /\ servers' = [servers EXCEPT ![s] = new]
                              /\ ServerSound(new) /\ HeldIds(new) = HeldIds(srv)
  <2> HIDE DEF srv
  <2>1. ASSUME NEW h \in Hosts, SetHost(s, h)
        PROVE  Done
    <3> DEFINE new == [srv EXCEPT !.host = h]
    <3>1. servers' = [servers EXCEPT ![s] = new]
      BY <2>1, Zenon DEF SetHost, srv
    <3>2. ServerSound(new) /\ HeldIds(new) = HeldIds(srv)
      BY <1>1, <1>2, StateIsSound
    <3> HIDE DEF new
    <3> QED
      BY <3>1, <3>2
  <2>2. ASSUME StatusChanged(s)
        PROVE  Done
    <3> DEFINE on == ~srv.online
               new == [srv EXCEPT !.online = on]
    <3>1. servers' = [servers EXCEPT ![s] = new]
      BY <2>2, Zenon DEF StatusChanged, srv
    <3>2. on \in BOOLEAN
      <4>1. ASSUME NEW x \in BOOLEAN
            PROVE  (~x) = TRUE \/ (~x) = FALSE
        OBVIOUS
      <4>2. on = TRUE \/ on = FALSE
        BY <1>2, <4>1, Zenon
      <4> HIDE DEF on
      <4> QED
        BY <4>2
    <3> HIDE DEF on
    <3>3. ServerSound(new) /\ HeldIds(new) = HeldIds(srv)
      BY <1>1, <1>2, <3>2, StateIsSound
    <3> HIDE DEF new
    <3> QED
      BY <3>1, <3>3
  <2>3. ASSUME NEW p \in {"made", "registered", "ready"},
               servers' = [servers EXCEPT ![s] = [srv EXCEPT !.phase = p]]
        PROVE  Done
    <3> DEFINE new == [srv EXCEPT !.phase = p]
    <3>1. ServerSound(new) /\ HeldIds(new) = HeldIds(srv)
      BY <1>1, <1>2, StateIsSound
    <3> HIDE DEF new
    <3> QED
      BY <2>3, <3>1 DEF new
  <2>4. ASSUME RegisterList(s) \/ ListReady(s)
        PROVE  \E p \in {"made", "registered", "ready"} :
                 servers' = [servers EXCEPT ![s] = [srv EXCEPT !.phase = p]]
    BY <2>4, Zenon DEF RegisterList, ListReady, srv
  <2> HIDE DEF Done
  <2>5. Done
    BY <2>1, <2>2, <2>3, <2>4
  <2> QED
    BY <2>5 DEF Done
<1>5. nextId' = nextId
  BY DEF SetHost, StatusChanged, RegisterList, ListReady
<1>6. /\ ServersSound' /\ StoredSound'
      /\ nextId' \in 1..(MaxId + 1) /\ Apart(servers', Stored', nextId')
  BY <1>3, <1>4, <1>5, ReplacedIsSound
<1> QED
  BY <1>3, <1>6 DEF BuffersInv

(* A buffer comes, goes or is renamed. *)
LEMMA BuffersKeep ==
  ASSUME BuffersInv, NEW s \in DOMAIN servers, NEW t \in Chats,
         \/ AddBuffer(s, t) \/ RemoveBuffer(s, t)
         \/ \E u \in Chats : RenameBuffer(s, t, u)
  PROVE  BuffersInv'
<1> DEFINE srv == servers[s]
<1>1. /\ ServerSound(srv) /\ nextId \in Nat \ {0} /\ MaxId \in Nat
      /\ HeldIds(srv) \subseteq 1..(nextId - 1)
  BY HeldAreGiven, BoundsAssumption DEF BuffersInv, ServersSound
<1>2. FileTyped' /\ file' = file /\ acts' \in 0..MaxActs /\ following' \in BOOLEAN
  BY HandledKeeps DEF AddBuffer, RemoveBuffer, RenameBuffer, Quiet
<1>3. CASE AddBuffer(s, t)
  <2> DEFINE known == t \in DOMAIN srv.known
             id == IF known THEN srv.known[t] ELSE nextId
             new == AddedBuffer(srv, t, id)
  <2>1. /\ t \notin DOMAIN srv.buffers
        /\ known \/ nextId <= MaxId
        /\ nextId' = IF known THEN nextId ELSE nextId + 1
        /\ servers' = [servers EXCEPT ![s] = new]
    BY <1>3, Zenon DEF AddBuffer
  <2>2. srv.known \in TitledIds
    BY <1>1, SoundParts
  <2> HIDE DEF srv, new
  <2>3. CASE known
    <3>1. id \in Range(srv.known) /\ id \in Ids /\ nextId' = nextId
      BY <2>1, <2>2, <2>3, MapsAreTitled DEF Range
    <3> HIDE DEF id
    <3>2. ServerSound(new) /\ HeldIds(new) = HeldIds(srv) \cup {id}
      BY <1>1, <2>1, <3>1, AddedIsSound DEF new
    <3>3. HeldIds(new) \subseteq HeldIds(srv)
      BY <3>1, <3>2 DEF HeldIds
    <3>4. /\ ServersSound' /\ StoredSound'
          /\ nextId' \in 1..(MaxId + 1) /\ Apart(servers', Stored', nextId')
      BY <1>2, <2>1, <3>1, <3>2, <3>3, ReplacedIsSound DEF srv
    <3> QED
      BY <1>2, <3>4 DEF BuffersInv
  <2>4. CASE ~known
    <3>1. id = nextId /\ nextId' = nextId + 1 /\ nextId <= MaxId /\ id \in Ids
      BY <1>1, <2>1, <2>4 DEF Ids
    <3>2. id \notin RowIds(srv)
      BY <1>1, <3>1 DEF HeldIds
    <3> HIDE DEF id
    <3>3. ServerSound(new) /\ HeldIds(new) = HeldIds(srv) \cup {id}
      BY <1>1, <2>1, <3>1, <3>2, AddedIsSound DEF new
    <3>4. /\ ServersSound' /\ StoredSound'
          /\ nextId' \in 1..(MaxId + 1) /\ Apart(servers', Stored', nextId')
      BY <1>2, <2>1, <3>1, <3>3, ReplacedIsSound DEF srv
    <3> QED
      BY <1>2, <3>4 DEF BuffersInv
  <2> QED
    BY <2>3, <2>4
<1>4. CASE RemoveBuffer(s, t)
  <2>1. PICK i \in FindIndex(srv, srv.buffers[t]) :
          srv.rows[i].title = t /\ servers' = [servers EXCEPT ![s] = RemovedBuffer(srv, t, i)]
    BY <1>4, Zenon DEF RemoveBuffer
  <2>2. t \in DOMAIN srv.buffers /\ nextId' = nextId
    BY <1>4 DEF RemoveBuffer
  <2> DEFINE new == RemovedBuffer(srv, t, i)
  <2>3. ServerSound(new) /\ HeldIds(new) \subseteq HeldIds(srv)
    BY <1>1, <2>1, <2>2, RemovedIsSound
  <2> HIDE DEF new
  <2>4. servers' = [servers EXCEPT ![s] = new]
    BY <2>1 DEF new
  <2>5. /\ ServersSound' /\ StoredSound'
        /\ nextId' \in 1..(MaxId + 1) /\ Apart(servers', Stored', nextId')
    BY <1>2, <2>2, <2>3, <2>4, ReplacedIsSound
  <2> QED
    BY <1>2, <2>5 DEF BuffersInv
<1>5. ASSUME NEW u \in Chats, RenameBuffer(s, t, u)
      PROVE  BuffersInv'
  <2> DEFINE new == RenamedBuffer(srv, t, u)
  <2>1. /\ t \in DOMAIN srv.buffers /\ u \notin DOMAIN srv.buffers
        /\ servers' = [servers EXCEPT ![s] = new] /\ nextId' = nextId
    BY <1>5, Zenon DEF RenameBuffer
  <2>2. ServerSound(new) /\ HeldIds(new) = HeldIds(srv)
    BY <1>1, <2>1, RenamedIsSound
  <2> HIDE DEF new
  <2>3. /\ ServersSound' /\ StoredSound'
        /\ nextId' \in 1..(MaxId + 1) /\ Apart(servers', Stored', nextId')
    BY <1>2, <2>1, <2>2, ReplacedIsSound
  <2> QED
    BY <1>2, <2>3 DEF BuffersInv
<1> QED
  BY <1>3, <1>4, <1>5

(* A row that is not there is removed, or nothing happens. *)
LEMMA NothingKeeps ==
  ASSUME BuffersInv,
         \/ \E s \in DOMAIN servers, t \in Chats : RemoveWrongRow(s, t)
         \/ UNCHANGED allVars
  PROVE  BuffersInv'
<1>1. servers' = servers /\ nextId' = nextId /\ file' = file /\ following' = following
  BY DEF RemoveWrongRow, Crash, allVars, ircVars, configVars
<1>2. FileTyped' /\ acts' \in 0..MaxActs /\ following' \in BOOLEAN
  <2>1. CASE UNCHANGED allVars
    BY <2>1, Zenon DEF BuffersInv, FileTyped, allVars, ircVars, configVars
  <2>2. CASE \E s \in DOMAIN servers, t \in Chats : RemoveWrongRow(s, t)
    BY <1>1, <2>2, HandledKeeps DEF RemoveWrongRow
  <2> QED
    BY <2>1, <2>2
<1>3. StoredSound' /\ Stored' = Stored
  BY <1>1, SameFile DEF BuffersInv
<1>4. ServersSound' /\ Apart(servers', Stored', nextId') /\ nextId' \in 1..(MaxId + 1)
  BY <1>1, <1>3 DEF BuffersInv, ServersSound
<1> QED
  BY <1>2, <1>3, <1>4 DEF BuffersInv

(* Every step of the plugin and of its file. *)
LEMMA BuffersInvNext == BuffersInv /\ [IrcNext]_allVars => BuffersInv'
<1> SUFFICES ASSUME BuffersInv, [IrcNext]_allVars
             PROVE  BuffersInv'
  OBVIOUS
<1>1. CASE ConfigStep
  BY <1>1, StartKeeps, SavingKeeps, EndKeeps DEF ConfigStep
<1>2. CASE ListStep
  BY <1>2, ClientKeeps, StateKeeps, BuffersKeep, NothingKeeps DEF ListStep
<1>3. CASE \E s \in DOMAIN servers : StatusChanged(s)
  BY <1>3, StateKeeps
<1>4. CASE UNCHANGED allVars
  BY <1>4, NothingKeeps
<1> QED
  BY <1>1, <1>2, <1>3, <1>4 DEF IrcNext, ServerStep

LEMMA BuffersInvHolds == IrcSpec => []BuffersInv
  BY BuffersInvInit, BuffersInvNext, PTL DEF IrcSpec

-----------------------------------------------------------------------------
LEMMA BuffersAreTyped == BuffersInv => IrcTypeOK
<1> SUFFICES ASSUME BuffersInv
             PROVE  IrcTypeOK
  OBVIOUS
<1>1. /\ FileTyped /\ following \in BOOLEAN
      /\ nextId \in 1..(MaxId + 1) /\ acts \in 0..MaxActs /\ ServersSound
  BY DEF BuffersInv
<1>2. file.kind \in {"absent", "empty", "saved"}
  BY <1>1 DEF FileTyped, Absent, Empty, SavedAs
<1>3. /\ process \in {"down", "up", "saving", "crashed"}
      /\ timer \in BOOLEAN /\ missed \in BOOLEAN
  BY <1>1, Zenon DEF FileTyped
<1>4. DOMAIN servers \subseteq Servers /\ \A s \in DOMAIN servers : ServerType(servers[s])
  BY <1>1, Zenon DEF ServersSound, ServerSound
<1> QED
  BY <1>1, <1>2, <1>3, <1>4 DEF IrcTypeOK

(* Servers, rows, buffers and ids are what they are taken for: in          *)
(* particular m_mapping has deleted objects of ids only that still have a  *)
(* row (SyncableQObjectList::removed).                                     *)
THEOREM TypesHold == IrcSpec => []IrcTypeOK
  BY BuffersAreTyped, BuffersInvHolds, PTL

(* The list of a server has one row of each of its buffers, with its id;   *)
(* two rows have the same id only if it is one of the file, and rows of    *)
(* two servers never have (IrcServer::addedBuffer, removedBuffer and the   *)
(* ids that m_predefinedBufferIds gives again).                            *)
THEOREM RowsAreThoseOfBuffers == IrcSpec => []RowsAreBuffers
<1>1. ASSUME BuffersInv, NEW s \in DOMAIN servers
      PROVE  LET srv == servers[s]
                 titles == [i \in DOMAIN srv.rows |-> srv.rows[i].title]
             IN  /\ IsInjective(titles) /\ Range(titles) = DOMAIN srv.buffers
                 /\ \A i \in DOMAIN srv.rows : srv.rows[i].id = srv.buffers[titles[i]]
                 /\ \A t, u \in DOMAIN srv.buffers :
                      t # u /\ srv.buffers[t] = srv.buffers[u] => srv.buffers[t] \in Range(srv.known)
                 /\ \A r \in DOMAIN servers \ {s} : RowIds(srv) \cap RowIds(servers[r]) = {}
  <2> DEFINE srv == servers[s]
             rows == srv.rows
             buffers == srv.buffers
             titles == [i \in DOMAIN rows |-> rows[i].title]
  <2>1. /\ DOMAIN servers \subseteq Servers /\ IsListOf(rows, buffers, srv.known)
        /\ Apart(servers, Stored, nextId)
    BY <1>1, SoundParts DEF BuffersInv, ServersSound
  <2> HIDE DEF rows, buffers
  <2>2. /\ \A i, j \in DOMAIN rows : rows[i].title = rows[j].title => i = j
        /\ \A i \in DOMAIN rows : rows[i].title \in DOMAIN buffers /\ rows[i].id = buffers[rows[i].title]
        /\ \A t \in DOMAIN buffers : \E i \in DOMAIN rows : rows[i].title = t
        /\ \A t, u \in DOMAIN buffers : t # u /\ buffers[t] = buffers[u] => buffers[t] \in Range(srv.known)
    BY <2>1, Zenon DEF IsListOf, Distinct
  <2>3. DOMAIN titles = DOMAIN rows /\ \A i \in DOMAIN rows : titles[i] = rows[i].title
    OBVIOUS
  <2> HIDE DEF titles
  <2>4. IsInjective(titles) /\ Range(titles) = DOMAIN buffers
    <3>1. IsInjective(titles)
      BY <2>2, <2>3 DEF IsInjective
    <3>2. ASSUME NEW i \in DOMAIN titles
          PROVE  titles[i] \in DOMAIN buffers
      BY <2>2, <2>3
    <3>3. ASSUME NEW t \in DOMAIN buffers
          PROVE  \E i \in DOMAIN titles : titles[i] = t
      BY <2>2, <2>3
    <3> QED
      BY <3>1, <3>2, <3>3 DEF Range
  <2>5. \A i \in DOMAIN rows : rows[i].id = buffers[titles[i]]
    BY <2>2, <2>3
  <2>6. ASSUME NEW r \in DOMAIN servers \ {s}
        PROVE  RowIds(srv) \cap RowIds(servers[r]) = {}
    <3>1. OwnedIds(servers, Stored, s) \cap OwnedIds(servers, Stored, r) = {}
      BY <1>1, <2>1 DEF Apart
    <3> QED
      BY <3>1 DEF OwnedIds, HeldIds
  <2> QED
    BY <2>2, <2>4, <2>5, <2>6, Zenon DEF rows, buffers, titles
<1>2. BuffersInv => RowsAreBuffers
  BY <1>1, Zenon DEF RowsAreBuffers
<1> QED
  BY <1>2, BuffersInvHolds, PTL

(* A row's parent comes before it, so that a client that is sent the list  *)
(* can build its tree in one pass.  Those in front are never taken out:    *)
(* they are rows of hosts, and only channels and queries come and go.      *)
THEOREM ParentsAreListed == IrcSpec => []ParentsComeFirst
<1>1. ASSUME BuffersInv, NEW s \in DOMAIN servers, NEW i \in DOMAIN servers[s].rows,
             servers[s].rows[i].parent # NoId
      PROVE  \E j \in 1..(i - 1) : servers[s].rows[j].id = servers[s].rows[i].parent
  <2>1. Rooted(servers[s].rows)
    BY <1>1, SoundParts DEF BuffersInv, ServersSound
  <2> QED
    BY <1>1, <2>1, Zenon DEF Rooted
<1>2. BuffersInv => ParentsComeFirst
  BY <1>1, Zenon DEF ParentsComeFirst
<1> QED
  BY <1>2, BuffersInvHolds, PTL
===============================================================================
