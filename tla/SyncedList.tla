------------------------------ MODULE SyncedList ------------------------------
(***************************************************************************)
(* The client's end of a synchronised list: the SyncedList of each user,   *)
(* which mirrors the rows, and the SyncedListModel that shows them.        *)
(***************************************************************************)
EXTENDS ListMessages

VARIABLES
  rows,      \* m_rows of the SyncedList of each user
  indices,   \* m_indices of its SyncedListModel
  failed,    \* "no", or the slot of the model whose assertion failed
  loaded,    \* the mirror has consumed an "items"
  out,       \* packets to the core
  in         \* packets from the core

mirrorVars == <<rows, indices, failed, loaded, out, in>>

(* The constructor subscribes, then asks for the list. *)
MirrorInit ==
  /\ rows = [u \in Users |-> Nothing]
  /\ indices = [u \in Users |-> {}]
  /\ failed = [u \in Users |-> "no"]
  /\ loaded = {}
  /\ out = [u \in Users |-> <<Subscribe, List>>]
  /\ in = [u \in Users |-> <<>>]

Put(f, i, x) == [j \in DOMAIN f \cup {i} |-> IF j = i THEN x ELSE f[j]]
Drop(f, i) == [j \in DOMAIN f \ {i} |-> f[j]]

Has(u, id) == id \in DOMAIN rows[u]

(* The slots of the model, which the signals of the list call. *)
Fails(u, slot) ==
  /\ failed' = [failed EXCEPT ![u] = slot]
  /\ UNCHANGED indices

ModelAdded(u, ids) ==
  \/ /\ ids \cap indices[u] = {}
     /\ indices' = [indices EXCEPT ![u] = @ \cup ids]
     /\ UNCHANGED failed
  \/ ids \cap indices[u] # {} /\ Fails(u, "added")

ModelRemoved(u, id) ==
  \/ /\ id \in indices[u]
     /\ indices' = [indices EXCEPT ![u] = @ \ {id}]
     /\ UNCHANGED failed
  \/ id \notin indices[u] /\ Fails(u, "removed")

(* A row that is there is taken out of the model and put back. *)
ConsumeAdded(u, m) ==
  /\ rows' = [rows EXCEPT ![u] = Put(@, m.id, m.row)]
  /\ \/ ~Has(u, m.id) /\ ModelAdded(u, {m.id})
     \/ Has(u, m.id) /\ m.id \in indices[u] /\ UNCHANGED <<indices, failed>>
     \/ Has(u, m.id) /\ m.id \notin indices[u] /\ Fails(u, "removed")
  /\ UNCHANGED <<loaded, out>>

ConsumeRemoved(u, m) ==
  /\ \/ Has(u, m.id) /\ ModelRemoved(u, m.id)
     \/ ~Has(u, m.id) /\ UNCHANGED <<indices, failed>>
  /\ rows' = [rows EXCEPT ![u] = Drop(@, m.id)]
  /\ UNCHANGED <<loaded, out>>

(* m_rows[index] makes a row when there is none; the model shows only what *)
(* it has been told of with added().                                       *)
ConsumeChanged(u, m) ==
  /\ rows' = [rows EXCEPT ![u] =
       Put(@, m.id, Put(IF Has(u, m.id) THEN @[m.id] ELSE Nothing, m.prop, m.value))]
  /\ UNCHANGED <<indices, failed, loaded, out>>

(* Mutant: a row that is there already is added again. *)
AddOrUpdateAgain(u, entries) ==
  LET ids == {e.id : e \in entries}
      rowOf(i) == (CHOOSE e \in entries : e.id = i).row
  IN  /\ rows' = [rows EXCEPT ![u] =
           [i \in DOMAIN @ \cup ids |-> IF i \in ids THEN rowOf(i) ELSE @[i]]]
      /\ ModelAdded(u, ids)

(* addOrUpdate(map), for a set of entries: what was not there is added,    *)
(* what was is replaced.                                                   *)
AddOrUpdate(u, entries) ==
  LET ids == {e.id : e \in entries}
      rowOf(i) == (CHOOSE e \in entries : e.id = i).row
  IN  /\ rows' = [rows EXCEPT ![u] =
           [i \in DOMAIN @ \cup ids |-> IF i \in ids THEN rowOf(i) ELSE @[i]]]
      /\ ModelAdded(u, ids \ DOMAIN rows[u])

ConsumeItem(u, m) == AddOrUpdate(u, {m}) /\ UNCHANGED <<loaded, out>>

(* A bare index is fetched. *)
ConsumeItems(u, m) ==
  /\ loaded' = loaded \cup {u}
  /\ \/ /\ OnlyIndex
        /\ out' = [out EXCEPT ![u] = @ \o [i \in DOMAIN m.items |-> Get(m.items[i].id)]]
        /\ UNCHANGED <<rows, indices, failed>>
     \/ /\ ~OnlyIndex
        /\ AddOrUpdate(u, ToSet(m.items))
        /\ UNCHANGED out

Consume(u, m) ==
  \/ m.cmd = "added" /\ ConsumeAdded(u, m)
  \/ m.cmd = "removed" /\ ConsumeRemoved(u, m)
  \/ m.cmd = "changed" /\ ConsumeChanged(u, m)
  \/ m.cmd = "item" /\ ConsumeItem(u, m)
  \/ m.cmd = "items" /\ ConsumeItems(u, m)

SocketDataReady(u) ==
  /\ failed[u] = "no"
  /\ in[u] # <<>>
  /\ Consume(u, Head(in[u]))
  /\ in' = [in EXCEPT ![u] = Tail(@)]

(* add, remove, set and connect from the views: what is shown is acted on, *)
(* and a value that is already there is not set.                           *)
EmitMsg(u, m) ==
  /\ failed[u] = "no"
  /\ out' = [out EXCEPT ![u] = Append(@, m)]
  /\ UNCHANGED <<rows, indices, failed, loaded, in>>

(* data() of an index that is shown: its value, if the row has one. *)
Data(u, id, p) == {rows[u][id][q] : q \in DOMAIN rows[u][id] \cap {p}}

SetsData(u, m) == m.id \in indices[u] /\ m.value \notin Data(u, m.id, m.prop)

Allowed(u, m) ==
  \/ m.cmd = "add"
  \/ m.cmd \in {"remove", "connect"} /\ m.id \in indices[u]
  \/ m.cmd = "set" /\ SetsData(u, m)

MirrorTypeOK ==
  /\ rows \in [Users -> Mirror]
  /\ indices \in [Users -> SUBSET Ids]
  /\ failed \in [Users -> {"no", "added", "removed"}]
  /\ loaded \in SUBSET Users
  /\ out \in [Users -> Seq(Command)]
  /\ in \in [Users -> Seq(Announcement)]
===============================================================================
