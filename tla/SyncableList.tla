----------------------------- MODULE SyncableList -----------------------------
(***************************************************************************)
(* The core's end of a synchronised list: a SyncableQObjectList in the     *)
(* thread of its plugin.  For the list of IRC servers the plugin itself,   *)
(* IrcClientConnection, handles "add" and "remove" in the same thread.     *)
(*                                                                         *)
(* A broadcast is queued in the thread of each client connection that is   *)
(* joined with the list when it is emitted (see MessageBus).               *)
(***************************************************************************)
EXTENDS ListMessages

VARIABLES
  objects,    \* m_objects, as indices
  mapping,    \* indices in m_mapping, whose pointers outlive the objects
  row,        \* the external properties of an object
  registered, \* "no", "wired" (in the manager) or "ready" (ready() has run)
  joined,     \* the client connections that are registered
  up,         \* events of the plugin's thread
  down,       \* events of the thread of each client connection
  crashed     \* the core has used a dangling pointer or an index of -1

listVars == <<objects, mapping, row, registered, joined, up, down, crashed>>

ListInit ==
  /\ objects = <<>>
  /\ mapping = {}
  /\ row = [id \in Ids |-> NewRow]
  /\ registered = "no"
  /\ joined = {}
  /\ up = <<>>
  /\ down = [u \in Users |-> <<>>]
  /\ crashed = FALSE

Listed == ToSet(objects)
FindIndex(id) == CHOOSE n \in DOMAIN objects : objects[n] = id

(* Mutant: the newest broadcast overtakes the older ones. *)
BroadcastFirst(m) ==
  down' = [u \in Users |->
            IF u \in joined /\ registered # "no" THEN <<m>> \o down[u] ELSE down[u]]

Broadcast(m) ==
  down' = [u \in Users |->
            IF u \in joined /\ registered # "no" THEN Append(down[u], m) ELSE down[u]]

Crash ==
  /\ crashed' = TRUE
  /\ UNCHANGED <<objects, mapping, row, registered, joined, down>>

(* The plugin lists an object that has a fresh UUID: add() always lists. *)
Add(id) ==
  /\ id \notin mapping
  /\ objects' = Append(objects, id)
  /\ mapping' = mapping \cup {id}
  /\ Broadcast([cmd |-> "added", id |-> id, row |-> row[id]])
  /\ UNCHANGED <<row, registered, joined, crashed>>

(* Mutant: the object goes without a "removed". *)
RemoveSilently(id) ==
  /\ id \in Listed
  /\ objects' = RemoveAt(objects, FindIndex(id))
  /\ UNCHANGED <<mapping, row, registered, joined, crashed, down>>

(* remove(int): m_mapping keeps the index. *)
RemoveObject(id) ==
  /\ id \in Listed
  /\ objects' = RemoveAt(objects, FindIndex(id))
  /\ Broadcast([cmd |-> "removed", id |-> id])
  /\ UNCHANGED <<mapping, row, registered, joined, crashed>>

(* propertyChanged: an object announces one of its own properties. *)
PropertyChanged(id, p, v) ==
  /\ id \in Listed
  /\ row[id][p] # v
  /\ row' = [row EXCEPT ![id][p] = v]
  /\ Broadcast([cmd |-> "changed", id |-> id, prop |-> p, value |-> v])
  /\ UNCHANGED <<objects, mapping, registered, joined, crashed>>

(* Mutant: ListOnlyIndex is read the wrong way round. *)
ItemsFlipped ==
  [cmd |-> "items",
   items |-> [i \in DOMAIN objects |->
               IF ~OnlyIndex THEN [id |-> objects[i]]
               ELSE [id |-> objects[i], row |-> row[objects[i]]]]]

Items ==
  [cmd |-> "items",
   items |-> [i \in DOMAIN objects |->
               IF OnlyIndex THEN [id |-> objects[i]]
               ELSE [id |-> objects[i], row |-> row[objects[i]]]]]

ListItems ==
  /\ Broadcast(Items)
  /\ UNCHANGED <<objects, mapping, row, registered, joined, crashed>>

(* "get": findIndex of an index that is gone is -1, and is not checked. *)
GetAll(id) ==
  \/ /\ id \in Listed
     /\ Broadcast([cmd |-> "item", id |-> id, row |-> row[id]])
     /\ UNCHANGED <<objects, mapping, row, registered, joined, crashed>>
  \/ id \notin Listed /\ Crash

(* wrappedPropertyChanged: the signal is looked up in the wrong class, so  *)
(* that nothing is broadcast.                                              *)
WrappedPropertyChanged(id, p, v) ==
  /\ id \in Listed
  /\ row' = [row EXCEPT ![id][p] = v]
  /\ UNCHANGED <<objects, mapping, registered, joined, down, crashed>>

(* "set": the wrapped object is changed. *)
Set(id, p, v) ==
  \/ WrappedPropertyChanged(id, p, v)
  \/ id \notin Listed /\ Crash

(* A command for one object: m_mapping may have its dangling pointer. *)
Invoke(id) ==
  \/ /\ id \in Listed
     /\ UNCHANGED <<objects, mapping, row, registered, joined, down, crashed>>
  \/ id \notin Listed /\ Crash

(* "remove" of an index that is gone is answered with an error, which no   *)
(* mirror looks at.                                                        *)
RemoveExternally(id) ==
  \/ RemoveObject(id)
  \/ /\ id \notin Listed
     /\ UNCHANGED <<objects, mapping, row, registered, joined, down, crashed>>

(* toClient() of the list and of its plugin. *)
ToClient(m) ==
  \/ m.cmd = "list" /\ ListItems
  \/ m.cmd = "get" /\ GetAll(m.id)
  \/ m.cmd = "set" /\ Set(m.id, m.prop, m.value)
  \/ m.cmd = "connect" /\ Invoke(m.id)
  \/ m.cmd = "add" /\ \E id \in Ids : Add(id)
  \/ m.cmd = "remove" /\ RemoveExternally(m.id)

ReceiveCommand ==
  /\ ~crashed
  /\ up # <<>>
  /\ ToClient(Head(up))
  /\ up' = Tail(up)

(* The list and the client connections are registered with the manager at  *)
(* any time; the list's ready() tells everybody what it holds.             *)
RegisterList ==
  /\ ~crashed
  /\ registered = "no"
  /\ registered' = "wired"
  /\ UNCHANGED <<objects, mapping, row, joined, up, down, crashed>>

(* Mutant: ready() does not list. *)
ReadySilently ==
  /\ ~crashed
  /\ registered = "wired"
  /\ registered' = "ready"
  /\ UNCHANGED <<objects, mapping, row, joined, up, down, crashed>>

ListReady ==
  /\ ~crashed
  /\ registered = "wired"
  /\ registered' = "ready"
  /\ Broadcast(Items)
  /\ UNCHANGED <<objects, mapping, row, joined, up, crashed>>

Join(u) ==
  /\ ~crashed
  /\ u \notin joined
  /\ joined' = joined \cup {u}
  /\ UNCHANGED <<objects, mapping, row, registered, up, down, crashed>>

ListTypeOK ==
  /\ objects \in Seq(Ids)
  /\ mapping \in SUBSET Ids
  /\ row \in [Ids -> FullRow]
  /\ registered \in {"no", "wired", "ready"}
  /\ joined \in SUBSET Users
  /\ up \in Seq(Command)
  /\ down \in [Users -> Seq(Announcement)]
  /\ crashed \in BOOLEAN
===============================================================================
