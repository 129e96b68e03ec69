---------------------------- MODULE ListSyncProofs ----------------------------
(***************************************************************************)
(* That the mirrors of a synchronised list catch up with it, for any       *)
(* users, indices, properties and values, and for lists of both kinds; and *)
(* that those of a list that is sent as whole rows implement MirroredList. *)
(***************************************************************************)
EXTENDS ListSync, SequenceLemmas

(* Rows and mirrors, by their domains. *)
LEMMA IsRow ==
  ASSUME NEW r
  PROVE  r \in Row <=> r \in [DOMAIN r -> Values] /\ DOMAIN r \subseteq Props
<1>1. r \in Row <=> \E P \in SUBSET Props : r \in [P -> Values]
  BY DEF Row
<1> QED
  BY <1>1

LEMMA IsMirror ==
  ASSUME NEW f
  PROVE  f \in Mirror <=> f \in [DOMAIN f -> Row] /\ DOMAIN f \subseteq Ids
<1>1. f \in Mirror <=> \E I \in SUBSET Ids : f \in [I -> Row]
  BY DEF Mirror
<1> QED
  BY <1>1

LEMMA NothingTyped == Nothing \in Row /\ Nothing \in Mirror /\ DOMAIN Nothing = {}
<1>1. Nothing \in [{} -> Values] /\ Nothing \in [{} -> Row] /\ DOMAIN Nothing = {}
  BY DEF Nothing
<1> QED
  BY <1>1, IsRow, IsMirror

LEMMA FullRowIsRow == ASSUME NEW r \in FullRow PROVE r \in Row
BY IsRow DEF FullRow

LEMMA PutInMirror ==
  ASSUME NEW f \in Mirror, NEW i \in Ids, NEW r \in Row
  PROVE  Put(f, i, r) \in Mirror
<1>1. f \in [DOMAIN f -> Row] /\ DOMAIN f \subseteq Ids
  BY IsMirror
<1>2. Put(f, i, r) \in [DOMAIN f \cup {i} -> Row]
  BY <1>1 DEF Put
<1> QED
  BY <1>1, <1>2, IsMirror

LEMMA PutInRow ==
  ASSUME NEW f \in Row, NEW p \in Props, NEW v \in Values
  PROVE  Put(f, p, v) \in Row
<1>1. f \in [DOMAIN f -> Values] /\ DOMAIN f \subseteq Props
  BY IsRow
<1>2. Put(f, p, v) \in [DOMAIN f \cup {p} -> Values]
  BY <1>1 DEF Put
<1> QED
  BY <1>1, <1>2, IsRow

LEMMA DropFromMirror ==
  ASSUME NEW f \in Mirror, NEW i
  PROVE  Drop(f, i) \in Mirror
<1>1. f \in [DOMAIN f -> Row] /\ DOMAIN f \subseteq Ids
  BY IsMirror
<1>2. Drop(f, i) \in [DOMAIN f \ {i} -> Row]
  BY <1>1 DEF Drop
<1> QED
  BY <1>1, <1>2, IsMirror

(* What an announcement has. *)
LEMMA Announcements ==
  ASSUME NEW m \in Announcement
  PROVE  /\ m.cmd \in {"added", "item", "removed", "changed", "items"}
         /\ m.cmd \in {"added", "item"} => m.id \in Ids /\ m.row \in FullRow
         /\ m.cmd = "removed" => m.id \in Ids
         /\ m.cmd = "changed" => m.id \in Ids /\ m.prop \in Props /\ m.value \in Values
         /\ m.cmd = "items" => m.items \in Seq(Entry)
BY DEF Announcement

LEMMA Commands ==
  ASSUME NEW m \in Command
  PROVE  /\ m.cmd \in {"subscribe", "list", "add", "get", "remove", "connect", "set"}
         /\ m.cmd \in {"get", "remove", "connect", "set"} => m.id \in Ids
         /\ m.cmd = "set" => m.prop \in Editable /\ m.value \in Values
BY DEF Command

LEMMA Announced1 ==
  /\ \A i \in Ids, r \in FullRow : [cmd |-> "added", id |-> i, row |-> r] \in Announcement
  /\ \A i \in Ids, r \in FullRow : [cmd |-> "item", id |-> i, row |-> r] \in Announcement
  /\ \A i \in Ids : [cmd |-> "removed", id |-> i] \in Announcement
  /\ \A i \in Ids, p \in Props, v \in Values :
       [cmd |-> "changed", id |-> i, prop |-> p, value |-> v] \in Announcement
  /\ \A s \in Seq(Entry) : [cmd |-> "items", items |-> s] \in Announcement
BY DEF Announcement

(* What the list holds after a removal. *)
LEMMA Removed ==
  ASSUME objects \in Seq(Ids), IsInjective(objects), NEW id \in Listed
  PROVE  /\ RemoveAt(objects, FindIndex(id)) \in Seq(Ids)
         /\ IsInjective(RemoveAt(objects, FindIndex(id)))
         /\ ToSet(RemoveAt(objects, FindIndex(id))) = Listed \ {id}
<1>1. FindIndex(id) \in DOMAIN objects /\ objects[FindIndex(id)] = id
  BY DEF FindIndex, Listed, ToSet
<1> QED
  BY <1>1, RemoveOne DEF Listed
-----------------------------------------------------------------------------
(* Type correctness. *)

LEMMA BroadcastTyped ==
  ASSUME down \in [Users -> Seq(Announcement)], NEW m \in Announcement, Broadcast(m)
  PROVE  down' \in [Users -> Seq(Announcement)]
<1>1. \A u \in Users : Append(down[u], m) \in Seq(Announcement)
  BY AppendProperties
<1> QED
  BY <1>1 DEF Broadcast

LEMMA ItemsTyped ==
  ASSUME ListTypeOK
  PROVE  /\ Items \in Announcement /\ Items.cmd = "items"
         /\ Entries(Items) = Listed
         /\ ~OnlyIndex => \A e \in ToSet(Items.items) : e.row = row[e.id]
<1> DEFINE s == [i \in DOMAIN objects |->
                  IF OnlyIndex THEN [id |-> objects[i]]
                  ELSE [id |-> objects[i], row |-> row[objects[i]]]]
<1>1. Items = [cmd |-> "items", items |-> s]
  BY DEF Items
<1>2. objects \in Seq(Ids) /\ DOMAIN objects = 1..Len(objects) /\ Len(objects) \in Nat
      /\ row \in [Ids -> FullRow]
      /\ \A i \in DOMAIN objects : objects[i] \in Ids
  BY LenProperties, ElementOfSeq DEF ListTypeOK
<1>3. \A i \in DOMAIN objects : s[i] \in Entry /\ s[i].id = objects[i]
  BY <1>2 DEF Entry
<1>4. DOMAIN s = DOMAIN objects
  OBVIOUS
<1>5. ASSUME ~OnlyIndex, NEW i \in DOMAIN objects
      PROVE  s[i].row = row[s[i].id]
  BY <1>5
<1> HIDE DEF s
<1>6. s \in [1..Len(objects) -> Entry]
  <2>1. s = [i \in 1..Len(objects) |-> s[i]]
    BY <1>2, <1>4 DEF s
  <2> QED
    BY <1>2, <1>3, <1>4, <2>1
<1>7. s \in Seq(Entry)
  BY <1>2, <1>6, IsASeq
<1>8. Items \in Announcement /\ Items.cmd = "items" /\ Items.items = s
  BY <1>1, <1>7, Announced1
<1>9. Entries(Items) = Listed
  <2>1. Entries(Items) = {s[i].id : i \in DOMAIN s}
    BY <1>8 DEF Entries, ToSet
  <2> QED
    BY <1>3, <1>4, <2>1 DEF Listed, ToSet
<1> QED
  BY <1>4, <1>5, <1>8, <1>9 DEF ToSet

LEMMA ToClientTyped ==
  ASSUME ListTypeOK, NEW m \in Command, ToClient(m), up' \in Seq(Command)
  PROVE  ListTypeOK'
<1>0. /\ objects \in Seq(Ids) /\ mapping \in SUBSET Ids /\ row \in [Ids -> FullRow]
      /\ registered \in {"no", "wired", "ready"} /\ joined \in SUBSET Users
      /\ down \in [Users -> Seq(Announcement)] /\ crashed \in BOOLEAN
  BY DEF ListTypeOK
<1>1. CASE ListItems
  BY <1>0, <1>1, ItemsTyped, BroadcastTyped DEF ListItems, ListTypeOK
<1>2. ASSUME NEW id \in Ids, GetAll(id)
      PROVE  ListTypeOK'
  <2>1. [cmd |-> "item", id |-> id, row |-> row[id]] \in Announcement
    BY <1>0, Announced1
  <2> QED
    BY <1>0, <1>2, <2>1, BroadcastTyped DEF GetAll, Crash, ListTypeOK
<1>3. ASSUME NEW id \in Ids, NEW p \in Props, NEW v \in Values, Set(id, p, v)
      PROVE  ListTypeOK'
  <2>1. CASE WrappedPropertyChanged(id, p, v)
    <3>1. row' \in [Ids -> FullRow]
      BY <1>0, <2>1 DEF WrappedPropertyChanged, FullRow
    <3> QED
      BY <1>0, <2>1, <3>1 DEF WrappedPropertyChanged, ListTypeOK
  <2> QED
    BY <1>0, <1>3, <2>1 DEF Set, Crash, ListTypeOK
<1>4. ASSUME NEW id \in Ids, Invoke(id)
      PROVE  ListTypeOK'
  BY <1>0, <1>4 DEF Invoke, Crash, ListTypeOK
<1>5. ASSUME NEW id \in Ids, RemoveObject(id)
      PROVE  ListTypeOK'
  <2>1. [cmd |-> "removed", id |-> id] \in Announcement
    BY Announced1
  <2>2. objects' \in Seq(Ids)
    <3>1. FindIndex(id) \in DOMAIN objects
      BY <1>5 DEF RemoveObject, FindIndex, Listed, ToSet
    <3> QED
      BY <1>0, <1>5, <3>1, RemoveAny DEF RemoveObject
  <2> QED
    BY <1>0, <1>5, <2>1, <2>2, BroadcastTyped DEF RemoveObject, ListTypeOK
<1>6. ASSUME NEW id \in Ids, Add(id)
      PROVE  ListTypeOK'
  <2>1. [cmd |-> "added", id |-> id, row |-> row[id]] \in Announcement
    BY <1>0, Announced1
  <2>2. objects' \in Seq(Ids)
    BY <1>0, <1>6, AppendProperties DEF Add
  <2> QED
    BY <1>0, <1>6, <2>1, <2>2, BroadcastTyped DEF Add, ListTypeOK
<1>7. \/ ListItems
      \/ \E id \in Ids : GetAll(id) \/ Invoke(id) \/ Add(id) \/ RemoveObject(id)
      \/ \E id \in Ids, p \in Props, v \in Values : Set(id, p, v)
      \/ UNCHANGED <<objects, mapping, row, registered, joined, down, crashed>>
  BY Commands, EditableAssumption DEF ToClient, RemoveExternally
<1> QED
  BY <1>0, <1>1, <1>2, <1>3, <1>4, <1>5, <1>6, <1>7 DEF ListTypeOK

(* The value that an announcement tells of a property. *)
Told(m, id, p, v) ==
  \/ m.cmd \in {"added", "item"} /\ v = m.row[p]
  \/ m.cmd = "changed" /\ v = m.value
  \/ m.cmd = "items" /\ \E e \in ToSet(m.items) : e.id = id /\ v = e.row[p]

(* An announcement that brings a row as a whole. *)
Brings(m, id) == Speaks(m, id) /\ m.cmd \notin {"removed", "changed"}
IsWhole(r, id) == id \in DOMAIN r /\ DOMAIN r[id] = Props

(* What a mirror q has of the mirror r that it was and of m, which it has  *)
(* consumed.                                                               *)
Takes(q, r, m) ==
  /\ q \in Mirror
  /\ DOMAIN q = {id \in Ids : (id \in DOMAIN r \/ Speaks(m, id)) /\ ~Removes(m, id)}
  /\ \A id \in DOMAIN q : \A p \in DOMAIN q[id] :
       \/ Tells(m, id, p) /\ Told(m, id, p, q[id][p])
       \/ /\ ~Tells(m, id, p)
          /\ id \in DOMAIN r /\ p \in DOMAIN r[id]
          /\ q[id][p] = r[id][p]
  /\ \A id \in DOMAIN q : Brings(m, id) \/ IsWhole(r, id) => IsWhole(q, id)

LEMMA AddedTakes ==
  ASSUME NEW r \in Mirror, NEW m \in Announcement, m.cmd \in {"added", "item"}
  PROVE  Takes(Put(r, m.id, m.row), r, m)
<1> DEFINE q == Put(r, m.id, m.row)
<1>1. r \in [DOMAIN r -> Row] /\ DOMAIN r \subseteq Ids
  BY IsMirror
<1>2. m.id \in Ids /\ m.row \in FullRow /\ m.row \in Row /\ DOMAIN m.row = Props
  BY Announcements, FullRowIsRow DEF FullRow
<1>3. q \in Mirror
  BY <1>2, PutInMirror
<1>4. /\ DOMAIN q = DOMAIN r \cup {m.id} /\ q[m.id] = m.row
      /\ \A id \in DOMAIN r : id # m.id => q[id] = r[id]
  BY DEF Put
<1> HIDE DEF q
<1>5. \A id : (Speaks(m, id) <=> id = m.id) /\ ~Removes(m, id)
  BY DEF Speaks, Removes
<1>6. /\ \A id, p : Tells(m, id, p) <=> id = m.id
      /\ \A id, p, v : Told(m, id, p, v) <=> v = m.row[p]
      /\ \A id : Brings(m, id) <=> id = m.id
  BY <1>5 DEF Tells, Told, Brings
<1>7. DOMAIN q = {id \in Ids : (id \in DOMAIN r \/ Speaks(m, id)) /\ ~Removes(m, id)}
  BY <1>1, <1>2, <1>4, <1>5
<1>8. ASSUME NEW id \in DOMAIN q, NEW p \in DOMAIN q[id]
      PROVE  \/ Tells(m, id, p) /\ Told(m, id, p, q[id][p])
             \/ /\ ~Tells(m, id, p)
                /\ id \in DOMAIN r /\ p \in DOMAIN r[id]
                /\ q[id][p] = r[id][p]
  BY <1>4, <1>6
<1>9. \A id \in DOMAIN q : Brings(m, id) \/ IsWhole(r, id) => IsWhole(q, id)
  BY <1>2, <1>4, <1>6 DEF IsWhole
<1> QED
  BY <1>3, <1>7, <1>8, <1>9 DEF Takes, q

LEMMA RemovedTakes ==
  ASSUME NEW r \in Mirror, NEW m \in Announcement, m.cmd = "removed"
  PROVE  Takes(Drop(r, m.id), r, m)
<1> DEFINE q == Drop(r, m.id)
<1>1. DOMAIN r \subseteq Ids /\ q \in Mirror
  BY IsMirror, DropFromMirror
<1>2. DOMAIN q = DOMAIN r \ {m.id} /\ \A id \in DOMAIN q : q[id] = r[id]
  BY DEF Drop
<1> HIDE DEF q
<1>3. \A id : (Speaks(m, id) <=> id = m.id) /\ (Removes(m, id) <=> id = m.id)
  BY DEF Speaks, Removes
<1>4. /\ \A id, p : ~Tells(m, id, p)
      /\ \A id : ~Brings(m, id)
  BY DEF Tells, Brings
<1>5. DOMAIN q = {id \in Ids : (id \in DOMAIN r \/ Speaks(m, id)) /\ ~Removes(m, id)}
  BY <1>1, <1>2, <1>3
<1> QED
  BY <1>1, <1>2, <1>4, <1>5 DEF Takes, IsWhole, q

LEMMA ChangedTakes ==
  ASSUME NEW r \in Mirror, NEW m \in Announcement, m.cmd = "changed"
  PROVE  Takes(Put(r, m.id, Put(IF m.id \in DOMAIN r THEN r[m.id] ELSE Nothing, m.prop, m.value)), r, m)
<1> DEFINE old == IF m.id \in DOMAIN r THEN r[m.id] ELSE Nothing
           new == Put(old, m.prop, m.value)
           q == Put(r, m.id, new)
<1>1. r \in [DOMAIN r -> Row] /\ DOMAIN r \subseteq Ids
  BY IsMirror
<1>2. m.id \in Ids /\ m.prop \in Props /\ m.value \in Values
  BY Announcements
<1>3. old \in Row
  BY <1>1, NothingTyped
<1>4. new \in Row
  BY <1>2, <1>3, PutInRow
<1>5. q \in Mirror
  BY <1>2, <1>4, PutInMirror
<1>6. /\ DOMAIN new = DOMAIN old \cup {m.prop} /\ new[m.prop] = m.value
      /\ \A p \in DOMAIN old : p # m.prop => new[p] = old[p]
  BY DEF Put
<1>7. /\ \A p \in DOMAIN old : m.id \in DOMAIN r
      /\ m.id \in DOMAIN r => old = r[m.id]
  BY NothingTyped
<1> HIDE DEF new, old
<1>8. /\ DOMAIN q = DOMAIN r \cup {m.id} /\ q[m.id] = new
      /\ \A id \in DOMAIN r : id # m.id => q[id] = r[id]
  BY DEF Put
<1> HIDE DEF q
<1>9. \A id : (Speaks(m, id) <=> id = m.id) /\ ~Removes(m, id)
  BY DEF Speaks, Removes
<1>10. /\ \A id, p : Tells(m, id, p) <=> id = m.id /\ p = m.prop
       /\ \A id, p, v : Told(m, id, p, v) <=> v = m.value
       /\ \A id : ~Brings(m, id)
  BY <1>9 DEF Tells, Told, Brings
<1>11. DOMAIN q = {id \in Ids : (id \in DOMAIN r \/ Speaks(m, id)) /\ ~Removes(m, id)}
  BY <1>1, <1>2, <1>8, <1>9
<1>12. ASSUME NEW id \in DOMAIN q, NEW p \in DOMAIN q[id]
       PROVE  \/ Tells(m, id, p) /\ Told(m, id, p, q[id][p])
              \/ /\ ~Tells(m, id, p)
                 /\ id \in DOMAIN r /\ p \in DOMAIN r[id]
                 /\ q[id][p] = r[id][p]
  <2>1. CASE id # m.id
    BY <1>8, <1>10, <2>1
  <2>2. CASE id = m.id /\ p = m.prop
    BY <1>6, <1>8, <1>10, <2>2
  <2>3. CASE id = m.id /\ p # m.prop
    BY <1>6, <1>7, <1>8, <1>10, <2>3
  <2> QED
    BY <2>1, <2>2, <2>3
<1>13. ASSUME NEW id \in DOMAIN q, IsWhole(r, id)
       PROVE  IsWhole(q, id)
  <2>1. CASE id # m.id
    BY <1>8, <1>13, <2>1 DEF IsWhole
  <2>2. CASE id = m.id
    BY <1>2, <1>6, <1>7, <1>8, <1>13, <2>2 DEF IsWhole
  <2> QED
    BY <2>1, <2>2
<1> QED
  BY <1>5, <1>10, <1>11, <1>12, <1>13 DEF Takes, q, new, old

(* A set of entries: each index gets the row of one of those that have it. *)
Updated(r, entries) ==
  LET ids == {e.id : e \in entries}
      rowOf(i) == (CHOOSE e \in entries : e.id = i).row
  IN  [i \in DOMAIN r \cup ids |-> IF i \in ids THEN rowOf(i) ELSE r[i]]

LEMMA UpdatedTakes ==
  ASSUME NEW r \in Mirror, NEW m \in Announcement, m.cmd = "items", ~OnlyIndex
  PROVE  Takes(Updated(r, ToSet(m.items)), r, m)
<1> DEFINE entries == ToSet(m.items)
           ids == {e.id : e \in entries}
           rowOf(i) == (CHOOSE e \in entries : e.id = i).row
           q == Updated(r, entries)
<1>1. r \in [DOMAIN r -> Row] /\ DOMAIN r \subseteq Ids
  BY IsMirror
<1>2. \A e \in entries : e.id \in Ids /\ e.row \in FullRow
  <2>1. entries \subseteq Entry
    BY Announcements, Elements
  <2> QED
    BY <2>1 DEF Entry
<1>3. ASSUME NEW i \in ids
      PROVE  \E e \in entries : e.id = i /\ rowOf(i) = e.row
  <2>1. \E e \in entries : e.id = i
    BY <1>3
  <2> QED
    BY <2>1
<1>4. /\ \A id : (Speaks(m, id) <=> id \in ids) /\ ~Removes(m, id)
      /\ \A id, p : Tells(m, id, p) <=> id \in ids
      /\ \A id, p : \A e \in entries : e.id = id => Told(m, id, p, e.row[p])
      /\ \A id : Brings(m, id) <=> id \in ids
  BY DEF Speaks, Removes, Tells, Told, Brings, Entries
<1>5. ids \subseteq Ids
  BY <1>2
<1>6. q = [i \in DOMAIN r \cup ids |-> IF i \in ids THEN rowOf(i) ELSE r[i]]
  BY DEF Updated
<1> HIDE DEF entries, ids, rowOf, q
<1>7. \A i \in ids : rowOf(i) \in Row /\ DOMAIN rowOf(i) = Props
  BY <1>2, <1>3, FullRowIsRow DEF FullRow
<1>8. /\ DOMAIN q = DOMAIN r \cup ids
      /\ \A i \in ids : q[i] = rowOf(i)
      /\ \A i \in DOMAIN r : i \notin ids => q[i] = r[i]
  BY <1>6
<1>9. q \in Mirror
  <2>1. q \in [DOMAIN r \cup ids -> Row]
    BY <1>1, <1>6, <1>7
  <2> QED
    BY <1>1, <1>5, <2>1, IsMirror
<1>10. DOMAIN q = {id \in Ids : (id \in DOMAIN r \/ Speaks(m, id)) /\ ~Removes(m, id)}
  BY <1>1, <1>4, <1>5, <1>8
<1>11. ASSUME NEW id \in DOMAIN q, NEW p \in DOMAIN q[id]
       PROVE  \/ Tells(m, id, p) /\ Told(m, id, p, q[id][p])
              \/ /\ ~Tells(m, id, p)
                 /\ id \in DOMAIN r /\ p \in DOMAIN r[id]
                 /\ q[id][p] = r[id][p]
  <2>1. CASE id \in ids
    <3>1. PICK e \in entries : e.id = id /\ q[id] = e.row
      BY <1>3, <1>8, <2>1
    <3> QED
      BY <1>4, <2>1, <3>1
  <2>2. CASE id \notin ids
    BY <1>4, <1>8, <2>2
  <2> QED
    BY <2>1, <2>2
<1>12. \A id \in DOMAIN q : Brings(m, id) \/ IsWhole(r, id) => IsWhole(q, id)
  BY <1>4, <1>7, <1>8 DEF IsWhole
<1> QED
  BY <1>9, <1>10, <1>11, <1>12 DEF Takes, q, entries

LEMMA ConsumedTakes ==
  ASSUME NEW r \in Mirror, NEW m \in Announcement
  PROVE  Takes(Consumed(r, m), r, m)
<1>1. CASE m.cmd \in {"added", "item"}
  <2>1. Consumed(r, m) = Put(r, m.id, m.row)
    BY <1>1 DEF Consumed
  <2> QED
    BY <1>1, <2>1, AddedTakes
<1>2. CASE m.cmd = "removed"
  <2>1. Consumed(r, m) = Drop(r, m.id)
    BY <1>2 DEF Consumed
  <2> QED
    BY <1>2, <2>1, RemovedTakes
<1>3. CASE m.cmd = "changed"
  <2>1. Consumed(r, m) =
          Put(r, m.id, Put(IF m.id \in DOMAIN r THEN r[m.id] ELSE Nothing, m.prop, m.value))
    BY <1>3 DEF Consumed
  <2> QED
    BY <1>3, <2>1, ChangedTakes
<1>4. CASE m.cmd = "items" /\ ~OnlyIndex
  <2>1. Consumed(r, m) = Updated(r, ToSet(m.items))
    BY <1>4 DEF Consumed, Updated
  <2> QED
    BY <1>4, <2>1, UpdatedTakes
<1>5. CASE m.cmd = "items" /\ OnlyIndex
  <2>1. Consumed(r, m) = r /\ DOMAIN r \subseteq Ids
    BY <1>5, IsMirror DEF Consumed
  <2>2. \A id, p : ~Speaks(m, id) /\ ~Removes(m, id) /\ ~Tells(m, id, p) /\ ~Brings(m, id)
    BY <1>5 DEF Speaks, Removes, Tells, Brings
  <2> QED
    BY <2>1, <2>2 DEF Takes
<1> QED
  BY <1>1, <1>2, <1>3, <1>4, <1>5, Announcements

(* A mirror that consumes an announcement becomes what Consumed says. *)
LEMMA BecomesConsumed ==
  ASSUME MirrorTypeOK, NEW u \in Users, NEW m \in Announcement, Consume(u, m)
  PROVE  rows' = [rows EXCEPT ![u] = Consumed(rows[u], m)]
<1>0. rows \in [Users -> Mirror]
  BY DEF MirrorTypeOK
<1>1. CASE m.cmd = "added"
  BY <1>1 DEF Consume, ConsumeAdded, Consumed
<1>2. CASE m.cmd = "removed"
  BY <1>2 DEF Consume, ConsumeRemoved, Consumed
<1>3. CASE m.cmd = "changed"
  BY <1>3 DEF Consume, ConsumeChanged, Consumed, Has
<1>4. CASE m.cmd = "item"
  <2>1. rows' = [rows EXCEPT ![u] = Updated(rows[u], {m})]
    BY <1>4 DEF Consume, ConsumeItem, AddOrUpdate, Updated
  <2>2. {e.id : e \in {m}} = {m.id} /\ \A i \in {m.id} : (CHOOSE e \in {m} : e.id = i) = m
    OBVIOUS
  <2>3. Updated(rows[u], {m}) = Put(rows[u], m.id, m.row)
    BY <2>2 DEF Updated, Put
  <2> QED
    BY <1>4, <2>1, <2>3 DEF Consumed
<1>5. CASE m.cmd = "items" /\ ~OnlyIndex
  BY <1>5 DEF Consume, ConsumeItems, AddOrUpdate, Consumed
<1>6. CASE m.cmd = "items" /\ OnlyIndex
  BY <1>0, <1>6 DEF Consume, ConsumeItems, Consumed
<1> QED
  BY <1>1, <1>2, <1>3, <1>4, <1>5, <1>6, Announcements

LEMMA Consumes ==
  ASSUME MirrorTypeOK, NEW u \in Users, NEW m \in Announcement, Consume(u, m)
  PROVE  /\ rows' \in [Users -> Mirror]
         /\ rows'[u] = Consumed(rows[u], m) /\ Takes(rows'[u], rows[u], m)
         /\ \A v \in Users : v # u => rows'[v] = rows[v]
<1>1. rows \in [Users -> Mirror] /\ rows[u] \in Mirror
  BY DEF MirrorTypeOK
<1>2. Takes(Consumed(rows[u], m), rows[u], m)
  BY <1>1, ConsumedTakes
<1>3. Consumed(rows[u], m) \in Mirror
  BY <1>2 DEF Takes
<1> QED
  BY <1>1, <1>2, <1>3, BecomesConsumed

(* What the model makes of it: it is told of new rows only, and of the     *)
(* removal of rows that the mirror has.                                    *)
LEMMA ModelOfMirror ==
  ASSUME MirrorTypeOK, ShownAreKnown, NEW u \in Users, NEW m \in Announcement,
         failed[u] = "no", Consume(u, m)
  PROVE  /\ indices' \in [Users -> SUBSET Ids]
         /\ failed' \in [Users -> {"no", "added", "removed"}]
         /\ ShownAreKnown'
<1>0. /\ indices \in [Users -> SUBSET Ids] /\ indices[u] \subseteq DOMAIN rows[u]
      /\ failed \in [Users -> {"no", "added", "removed"}]
      /\ rows \in [Users -> Mirror] /\ DOMAIN rows[u] \subseteq Ids
  BY IsMirror DEF MirrorTypeOK, ShownAreKnown
<1>1. /\ DOMAIN rows'[u] = {id \in Ids : /\ id \in DOMAIN rows[u] \/ Speaks(m, id)
                                         /\ ~Removes(m, id)}
      /\ \A v \in Users : v # u => rows'[v] = rows[v]
  BY Consumes DEF Takes
<1>2. \/ UNCHANGED <<indices, failed>> /\ m.cmd # "removed"
      \/ UNCHANGED <<indices, failed>> /\ m.id \notin DOMAIN rows[u] /\ m.cmd = "removed"
      \/ Fails(u, "removed")
      \/ \E ids \in SUBSET Ids : /\ ids \cap DOMAIN rows[u] = {} /\ ModelAdded(u, ids)
                                 /\ \A id \in ids : Speaks(m, id)
                                 /\ m.cmd # "removed"
      \/ m.cmd = "removed" /\ m.id \in Ids /\ ModelRemoved(u, m.id)
  <2>1. CASE m.cmd = "added"
    <3>1. m.id \in Ids /\ Speaks(m, m.id)
      BY <2>1, Announcements DEF Speaks
    <3>2. CASE ~Has(u, m.id) /\ ModelAdded(u, {m.id})
      <4>1. {m.id} \in SUBSET Ids /\ {m.id} \cap DOMAIN rows[u] = {}
        BY <3>1, <3>2 DEF Has
      <4> QED
        BY <2>1, <3>1, <3>2, <4>1
    <3> QED
      BY <2>1, <3>2 DEF Consume, ConsumeAdded
  <2>2. CASE m.cmd = "removed"
    BY <2>2, Announcements DEF Consume, ConsumeRemoved, Has
  <2>3. CASE m.cmd = "changed"
    BY <2>3 DEF Consume, ConsumeChanged
  <2>4. CASE m.cmd = "item"
    <3>1. m.id \in Ids /\ \A id \in {m.id} : Speaks(m, id)
      BY <2>4, Announcements DEF Speaks
    <3>2. ModelAdded(u, {e.id : e \in {m}} \ DOMAIN rows[u])
      BY <2>4 DEF Consume, ConsumeItem, AddOrUpdate
    <3>3. {e.id : e \in {m}} = {m.id}
      OBVIOUS
    <3>4. ModelAdded(u, {m.id} \ DOMAIN rows[u])
      BY <3>2, <3>3
    <3> QED
      BY <2>4, <3>1, <3>4
  <2>5. CASE m.cmd = "items" /\ ~OnlyIndex
    <3> DEFINE ids == {e.id : e \in ToSet(m.items)}
    <3>1. ModelAdded(u, ids \ DOMAIN rows[u])
      BY <2>5 DEF Consume, ConsumeItems, AddOrUpdate
    <3>2. ToSet(m.items) \subseteq Entry
      BY <2>5, Announcements, Elements
    <3>3. ids \subseteq Ids
      BY <2>5, <3>2 DEF Entry
    <3>4. \A id \in ids : Speaks(m, id)
      BY <2>5 DEF Speaks, Entries
    <3> HIDE DEF ids
    <3> QED
      BY <2>5, <3>1, <3>3, <3>4
  <2>6. CASE m.cmd = "items" /\ OnlyIndex
    BY <2>6 DEF Consume, ConsumeItems
  <2> QED
    BY <2>1, <2>2, <2>3, <2>4, <2>5, <2>6, Announcements
<1>3. CASE UNCHANGED <<indices, failed>>
           /\ (m.cmd # "removed" \/ (m.cmd = "removed" /\ m.id \notin DOMAIN rows[u]))
  <2>1. DOMAIN rows[u] \subseteq DOMAIN rows'[u]
    BY <1>0, <1>1, <1>3 DEF Removes
  <2> QED
    BY <1>0, <1>1, <1>3, <2>1 DEF ShownAreKnown
<1>4. CASE Fails(u, "removed")
  <2>1. failed' = [failed EXCEPT ![u] = "removed"] /\ UNCHANGED indices
    BY <1>4 DEF Fails
  <2> QED
    BY <1>0, <1>1, <2>1 DEF ShownAreKnown
<1>5. ASSUME NEW ids \in SUBSET Ids, ids \cap DOMAIN rows[u] = {}, ModelAdded(u, ids),
             \A id \in ids : Speaks(m, id), m.cmd # "removed"
      PROVE  /\ indices' \in [Users -> SUBSET Ids]
             /\ failed' \in [Users -> {"no", "added", "removed"}]
             /\ ShownAreKnown'
  <2>1. ids \cap indices[u] = {}
    BY <1>0, <1>5
  <2>2. indices' = [indices EXCEPT ![u] = indices[u] \cup ids] /\ UNCHANGED failed
    BY <1>5, <2>1 DEF ModelAdded
  <2>3. indices' \in [Users -> SUBSET Ids]
    BY <1>0, <2>2
  <2>4. indices[u] \cup ids \subseteq DOMAIN rows'[u]
    BY <1>0, <1>1, <1>5 DEF Removes
  <2> QED
    BY <1>0, <1>1, <2>2, <2>3, <2>4 DEF ShownAreKnown
<1>6. CASE m.cmd = "removed" /\ m.id \in Ids /\ ModelRemoved(u, m.id)
  <2>1. CASE Fails(u, "removed")
    BY <1>4, <2>1
  <2>2. CASE indices' = [indices EXCEPT ![u] = indices[u] \ {m.id}] /\ UNCHANGED failed
    <3>1. indices' \in [Users -> SUBSET Ids]
      BY <1>0, <2>2
    <3>2. indices[u] \ {m.id} \subseteq DOMAIN rows'[u]
      BY <1>0, <1>1, <1>6 DEF Removes
    <3> QED
      BY <1>0, <1>1, <2>2, <3>1, <3>2 DEF ShownAreKnown
  <2> QED
    BY <1>6, <2>1, <2>2 DEF ModelRemoved
<1>7. ASSUME \E ids \in SUBSET Ids :
               /\ ids \cap DOMAIN rows[u] = {} /\ ModelAdded(u, ids)
               /\ \A id \in ids : Speaks(m, id)
               /\ m.cmd # "removed"
      PROVE  /\ indices' \in [Users -> SUBSET Ids]
             /\ failed' \in [Users -> {"no", "added", "removed"}]
             /\ ShownAreKnown'
  <2>1. PICK ids \in SUBSET Ids :
               /\ ids \cap DOMAIN rows[u] = {} /\ ModelAdded(u, ids)
               /\ \A id \in ids : Speaks(m, id)
               /\ m.cmd # "removed"
    BY <1>7
  <2> QED
    BY <1>5, <2>1
<1> QED
  BY <1>2, <1>3, <1>4, <1>6, <1>7

LEMMA FetchesTyped ==
  ASSUME MirrorTypeOK, NEW u \in Users, NEW m \in Announcement, Consume(u, m)
  PROVE  /\ loaded' \in SUBSET Users
         /\ out' \in [Users -> Seq(Command)]
         /\ loaded \subseteq loaded'
         /\ \A v \in Users : v # u => out'[v] = out[v] /\ (v \in loaded' <=> v \in loaded)
         /\ \A id : Get(id) \in ToSet(out[u]) => Get(id) \in ToSet(out'[u])
         /\ u \in loaded' /\ u \notin loaded => m.cmd = "items"
         /\ m.cmd = "items" /\ OnlyIndex => \A id \in Entries(m) : Get(id) \in ToSet(out'[u])
<1>0. loaded \in SUBSET Users /\ out \in [Users -> Seq(Command)]
  BY DEF MirrorTypeOK
<1>1. CASE m.cmd = "items" /\ OnlyIndex
  <2> DEFINE gets == [i \in DOMAIN m.items |-> Get(m.items[i].id)]
  <2>1. loaded' = loaded \cup {u} /\ out' = [out EXCEPT ![u] = out[u] \o gets]
    BY <1>1 DEF Consume, ConsumeItems
  <2>2. /\ m.items \in Seq(Entry) /\ DOMAIN m.items = 1..Len(m.items) /\ Len(m.items) \in Nat
        /\ \A i \in DOMAIN m.items : m.items[i] \in Entry
    BY <1>1, Announcements, LenProperties, ElementOfSeq
  <2>3. \A i \in DOMAIN m.items : Get(m.items[i].id) \in Command
    BY <1>1, <2>2 DEF Entry, Get, Command
  <2>4. gets \in [1..Len(m.items) -> Command] /\ DOMAIN gets = 1..Len(m.items)
        /\ \A i \in DOMAIN m.items : gets[i] = Get(m.items[i].id)
    BY <2>2, <2>3
  <2> HIDE DEF gets
  <2>5. gets \in Seq(Command) /\ Len(gets) = Len(m.items)
    BY <2>2, <2>4, IsASeq, LenProperties
  <2>6. /\ out[u] \o gets \in Seq(Command)
        /\ ToSet(out[u] \o gets) = ToSet(out[u]) \cup ToSet(gets)
    BY <1>0, <2>5, Concatenated
  <2>7. \A id \in Entries(m) : Get(id) \in ToSet(gets)
    BY <2>2, <2>4 DEF Entries, ToSet
  <2>8. /\ out'[u] = out[u] \o gets /\ out' \in [Users -> Seq(Command)]
        /\ \A v \in Users : v # u => out'[v] = out[v]
    BY <1>0, <2>1, <2>6
  <2>9. /\ loaded' \in SUBSET Users /\ loaded \subseteq loaded'
        /\ \A v \in Users : v # u => (v \in loaded' <=> v \in loaded)
    BY <1>0, <2>1
  <2> QED
    BY <1>1, <2>6, <2>7, <2>8, <2>9
<1>2. CASE ~(m.cmd = "items" /\ OnlyIndex)
  <2>1. out' = out
    BY <1>2 DEF Consume, ConsumeAdded, ConsumeRemoved, ConsumeChanged, ConsumeItem, ConsumeItems
  <2>2. loaded' = loaded \/ (m.cmd = "items" /\ loaded' = loaded \cup {u})
    BY <1>2 DEF Consume, ConsumeAdded, ConsumeRemoved, ConsumeChanged, ConsumeItem, ConsumeItems
  <2> QED
    BY <1>0, <1>2, <2>1, <2>2
<1> QED
  BY <1>1, <1>2

LEMMA InitTyped == Init => TypeOK /\ ShownAreKnown
<1> SUFFICES ASSUME Init PROVE TypeOK /\ ShownAreKnown
  OBVIOUS
<1>1. ListTypeOK
  <2>1. <<>> \in Seq(Ids) /\ <<>> \in Seq(Command) /\ <<>> \in Seq(Announcement)
    BY EmptySeq
  <2> QED
    BY <2>1, NewRowAssumption DEF Init, ListInit, ListTypeOK
<1>2. MirrorTypeOK
  <2>1. <<Subscribe, List>> \in Seq(Command)
    BY DEF Subscribe, List, Command
  <2>2. <<>> \in Seq(Announcement)
    BY EmptySeq
  <2> QED
    BY <2>1, <2>2, NothingTyped DEF Init, MirrorInit, MirrorTypeOK
<1>3. ShownAreKnown
  BY DEF Init, MirrorInit, ShownAreKnown
<1> QED
  BY <1>1, <1>2, <1>3 DEF Init, TypeOK

LEMMA CoreStepTyped ==
  ASSUME TypeOK, CoreStep
  PROVE  ListTypeOK'
<1>0. ListTypeOK
  BY DEF TypeOK
<1>1. CASE ReceiveCommand
  <2>1. up \in Seq(Command) /\ up # <<>> /\ up' = Tail(up) /\ ToClient(Head(up))
    BY <1>0, <1>1 DEF ReceiveCommand, ListTypeOK
  <2>2. Head(up) \in Command /\ up' \in Seq(Command)
    BY <2>1, Elements
  <2> QED
    BY <1>0, <2>1, <2>2, ToClientTyped
<1>2. CASE RegisterList
  BY <1>0, <1>2 DEF RegisterList, ListTypeOK
<1>3. CASE ListReady
  <2>1. down' \in [Users -> Seq(Announcement)]
    BY <1>0, <1>3, ItemsTyped, BroadcastTyped DEF ListReady, ListTypeOK
  <2> QED
    BY <1>0, <1>3, <2>1 DEF ListReady, ListTypeOK
<1>4. ASSUME NEW u \in Users, Join(u)
      PROVE  ListTypeOK'
  BY <1>0, <1>4 DEF Join, ListTypeOK
<1> QED
  BY <1>1, <1>2, <1>3, <1>4 DEF CoreStep

LEMMA PluginActsTyped ==
  ASSUME TypeOK, PluginActs
  PROVE  ListTypeOK'
<1>0. /\ ListTypeOK
      /\ objects \in Seq(Ids) /\ mapping \in SUBSET Ids /\ row \in [Ids -> FullRow]
      /\ registered \in {"no", "wired", "ready"} /\ joined \in SUBSET Users
      /\ down \in [Users -> Seq(Announcement)] /\ crashed \in BOOLEAN /\ up \in Seq(Command)
  BY DEF TypeOK, ListTypeOK
<1>1. UNCHANGED up
  BY DEF PluginActs
<1>2. ASSUME NEW id \in Ids, Add(id)
      PROVE  ListTypeOK'
  <2> DEFINE m == [cmd |-> "add"]
  <2>1. m \in Command /\ ToClient(m)
    BY <1>2 DEF ToClient, Command
  <2> QED
    BY <1>0, <1>1, <2>1, ToClientTyped
<1>3. ASSUME NEW id \in Ids, RemoveObject(id)
      PROVE  ListTypeOK'
  <2> DEFINE m == [cmd |-> "remove", id |-> id]
  <2>1. m \in Command /\ ToClient(m)
    BY <1>3 DEF ToClient, Command, RemoveExternally
  <2> QED
    BY <1>0, <1>1, <2>1, ToClientTyped
<1>4. ASSUME NEW id \in Ids, NEW p \in Announced, NEW v \in Values, PropertyChanged(id, p, v)
      PROVE  ListTypeOK'
  <2>1. p \in Props
    BY AnnouncedAssumption
  <2>2. [cmd |-> "changed", id |-> id, prop |-> p, value |-> v] \in Announcement
    BY <2>1, Announced1
  <2>3. down' \in [Users -> Seq(Announcement)]
    BY <1>0, <1>4, <2>2, BroadcastTyped DEF PropertyChanged
  <2>4. row' \in [Ids -> FullRow]
    BY <1>0, <1>4, <2>1 DEF PropertyChanged, FullRow
  <2> QED
    BY <1>0, <1>1, <1>4, <2>3, <2>4 DEF PropertyChanged, ListTypeOK
<1> QED
  BY <1>2, <1>3, <1>4 DEF PluginActs

LEMMA UserActsTyped ==
  ASSUME TypeOK, NEW u \in Users, UserActs(u)
  PROVE  /\ MirrorTypeOK'
         /\ \A v \in Users, id \in Ids : Get(id) \in ToSet(out[v]) => Get(id) \in ToSet(out'[v])
<1>1. PICK m \in Command : EmitMsg(u, m)
  BY DEF UserActs
<1>2. out' = [out EXCEPT ![u] = Append(out[u], m)]
  BY <1>1 DEF EmitMsg
<1>3. out \in [Users -> Seq(Command)]
  BY DEF TypeOK, MirrorTypeOK
<1>4. /\ Append(out[u], m) \in Seq(Command)
      /\ ToSet(Append(out[u], m)) = ToSet(out[u]) \cup {m}
  BY <1>3, Appended
<1>5. out' \in [Users -> Seq(Command)]
  BY <1>2, <1>3, <1>4
<1>6. MirrorTypeOK'
  BY <1>1, <1>5 DEF EmitMsg, TypeOK, MirrorTypeOK
<1> QED
  BY <1>2, <1>3, <1>4, <1>6

LEMMA FromClientTyped ==
  ASSUME TypeOK, NEW u \in Users, FromClient(u)
  PROVE  /\ out' \in [Users -> Seq(Command)] /\ up' \in Seq(Command)
         /\ subscribed' \in SUBSET Users
         /\ subscribed \subseteq subscribed'
         /\ u \in joined /\ registered # "no" =>
              \A v \in Users, id \in Ids :
                Get(id) \in ToSet(out[v]) \cup ToSet(up) =>
                  Get(id) \in ToSet(out'[v]) \cup ToSet(up')
         /\ \A v \in Users : v # u => out'[v] = out[v]
         /\ ToSet(up) \subseteq ToSet(up')
<1>1. out \in [Users -> Seq(Command)] /\ up \in Seq(Command) /\ subscribed \in SUBSET Users
  BY DEF TypeOK, MirrorTypeOK, ListTypeOK
<1>2. out[u] # <<>> /\ out' = [out EXCEPT ![u] = Tail(out[u])]
  BY DEF FromClient
<1>3. /\ Head(out[u]) \in Command /\ Tail(out[u]) \in Seq(Command)
      /\ ToSet(out[u]) = ToSet(Tail(out[u])) \cup {Head(out[u])}
  BY <1>1, <1>2, Elements
<1> DEFINE m == Head(out[u])
<1>4. \/ m = Subscribe /\ subscribed' = subscribed \cup {u} /\ up' = up
      \/ /\ m # Subscribe /\ subscribed' = subscribed
         /\ up' = IF Forwarded(u, m) THEN Append(up, m) ELSE up
  BY DEF FromClient
<1>5. m \in Command
  BY <1>3
<1> HIDE DEF m
<1>6. Append(up, m) \in Seq(Command) /\ ToSet(Append(up, m)) = ToSet(up) \cup {m}
  BY <1>1, <1>5, Appended
<1>7. /\ out' \in [Users -> Seq(Command)]
      /\ out'[u] = Tail(out[u]) /\ \A v \in Users : v # u => out'[v] = out[v]
  BY <1>1, <1>2, <1>3
<1>8. up' \in Seq(Command) /\ subscribed' \in SUBSET Users /\ subscribed \subseteq subscribed'
      /\ ToSet(up) \subseteq ToSet(up')
  BY <1>1, <1>4, <1>6
<1>9. ASSUME u \in joined, registered # "no", NEW id \in Ids, m = Get(id)
      PROVE  Get(id) \in ToSet(up')
  <2>1. m # Subscribe /\ Forwarded(u, m)
    BY <1>9 DEF Get, Subscribe, Forwarded
  <2> QED
    BY <1>4, <1>6, <1>9, <2>1
<1>10. ToSet(out[u]) = ToSet(out'[u]) \cup {m}
  BY <1>3, <1>7 DEF m
<1> QED
  BY <1>7, <1>8, <1>9, <1>10

(* An announcement that is passed on, and one that is dropped because the  *)
(* subscription has not been read yet.                                     *)
LEMMA ReceiveTyped ==
  ASSUME TypeOK, NEW u \in Users, Receive(u)
  PROVE  /\ down' \in [Users -> Seq(Announcement)] /\ in' \in [Users -> Seq(Announcement)]
         /\ \A v \in Users : v # u => Way(v)' = Way(v) /\ in'[v] = in[v]
         /\ u \in subscribed => Way(u)' = Way(u)
         /\ u \notin subscribed => in' = in /\ down'[u] = Tail(down[u])
         /\ down[u] # <<>>
<1>1. /\ down \in [Users -> Seq(Announcement)] /\ in \in [Users -> Seq(Announcement)]
      /\ down[u] \in Seq(Announcement) /\ in[u] \in Seq(Announcement)
  BY DEF TypeOK, MirrorTypeOK, ListTypeOK
<1>2. /\ down[u] # <<>> /\ down' = [down EXCEPT ![u] = Tail(down[u])]
      /\ in' = IF u \in subscribed THEN [in EXCEPT ![u] = Append(in[u], Head(down[u]))] ELSE in
  BY DEF Receive, Passes
<1>3. Head(down[u]) \in Announcement /\ Tail(down[u]) \in Seq(Announcement)
  BY <1>1, <1>2, Elements
<1>4. Append(in[u], Head(down[u])) \in Seq(Announcement)
  BY <1>1, <1>3, Appended
<1>5. /\ down' \in [Users -> Seq(Announcement)] /\ down'[u] = Tail(down[u])
      /\ \A v \in Users : v # u => down'[v] = down[v]
  BY <1>1, <1>2, <1>3
<1>6. /\ in' \in [Users -> Seq(Announcement)]
      /\ \A v \in Users : v # u => in'[v] = in[v]
      /\ u \in subscribed => in'[u] = Append(in[u], Head(down[u]))
  BY <1>1, <1>2, <1>4
<1>7. \A v \in Users : v # u => Way(v)' = Way(v)
  BY <1>5, <1>6 DEF Way
<1>8. Append(in[u], Head(down[u])) \o Tail(down[u]) = in[u] \o down[u]
  BY <1>1, <1>2, HeadToLast
<1>9. u \in subscribed => Way(u)' = Way(u)
  BY <1>5, <1>6, <1>8 DEF Way
<1> QED
  BY <1>2, <1>5, <1>6, <1>7, <1>9

LEMMA MirrorStepTyped ==
  ASSUME TypeOK, ShownAreKnown, NEW u \in Users, MirrorStep(u)
  PROVE  MirrorTypeOK' /\ ShownAreKnown'
<1>1. /\ MirrorTypeOK /\ in[u] \in Seq(Announcement) /\ in \in [Users -> Seq(Announcement)]
      /\ failed[u] = "no" /\ in[u] # <<>> /\ Consume(u, Head(in[u]))
      /\ in' = [in EXCEPT ![u] = Tail(in[u])]
  BY DEF TypeOK, MirrorTypeOK, MirrorStep, SocketDataReady
<1>2. Head(in[u]) \in Announcement /\ Tail(in[u]) \in Seq(Announcement)
  BY <1>1, Elements
<1>3. rows' \in [Users -> Mirror]
  BY <1>1, <1>2, Consumes DEF Takes
<1>4. /\ indices' \in [Users -> SUBSET Ids]
      /\ failed' \in [Users -> {"no", "added", "removed"}]
      /\ ShownAreKnown'
  BY <1>1, <1>2, ModelOfMirror
<1>5. loaded' \in SUBSET Users /\ out' \in [Users -> Seq(Command)]
  BY <1>1, <1>2, FetchesTyped
<1>6. in' \in [Users -> Seq(Announcement)]
  BY <1>1, <1>2
<1> QED
  BY <1>3, <1>4, <1>5, <1>6 DEF MirrorTypeOK

LEMMA CountsTyped ==
  ASSUME TypeOK, NEW cmd, Counted(cmd)
  PROVE  adds' \in Nat /\ changes' \in Nat
BY DEF TypeOK, Counted

LEMMA StepTyped ==
  ASSUME TypeOK, ShownAreKnown, [Next]_vars
  PROVE  TypeOK' /\ ShownAreKnown'
<1>0. /\ ListTypeOK /\ MirrorTypeOK /\ subscribed \in SUBSET Users
      /\ adds \in Nat /\ changes \in Nat
  BY DEF TypeOK
<1>1. CASE CoreStep
  <2>1. /\ ListTypeOK' /\ UNCHANGED <<subscribed, adds, changes>>
        /\ UNCHANGED <<rows, indices, failed, loaded, out, in>>
    BY <1>1, CoreStepTyped DEF CoreStep, mirrorVars
  <2>2. MirrorTypeOK' /\ ShownAreKnown'
    BY <1>0, <2>1 DEF MirrorTypeOK, ShownAreKnown
  <2> QED
    BY <1>0, <2>1, <2>2 DEF TypeOK
<1>2. CASE PluginActs
  <2>1. /\ ListTypeOK' /\ UNCHANGED subscribed
        /\ UNCHANGED <<rows, indices, failed, loaded, out, in>>
    BY <1>2, PluginActsTyped DEF PluginActs, mirrorVars
  <2>2. MirrorTypeOK' /\ ShownAreKnown'
    BY <1>0, <2>1 DEF MirrorTypeOK, ShownAreKnown
  <2>3. adds' \in Nat /\ changes' \in Nat
    BY <1>2, CountsTyped DEF PluginActs
  <2> QED
    BY <1>0, <2>1, <2>2, <2>3 DEF TypeOK
<1>3. ASSUME NEW u \in Users, UserActs(u)
      PROVE  TypeOK' /\ ShownAreKnown'
  <2>1. /\ MirrorTypeOK' /\ UNCHANGED subscribed
        /\ UNCHANGED <<objects, mapping, row, registered, joined, up, down, crashed>>
        /\ UNCHANGED <<rows, indices, failed>>
    BY <1>3, UserActsTyped DEF UserActs, listVars, EmitMsg
  <2>2. ListTypeOK' /\ ShownAreKnown'
    BY <1>0, <2>1 DEF ListTypeOK, ShownAreKnown
  <2>3. adds' \in Nat /\ changes' \in Nat
    BY <1>3, CountsTyped DEF UserActs
  <2> QED
    BY <1>0, <2>1, <2>2, <2>3 DEF TypeOK
<1>4. ASSUME NEW u \in Users, FromClient(u)
      PROVE  TypeOK' /\ ShownAreKnown'
  <2>1. /\ out' \in [Users -> Seq(Command)] /\ up' \in Seq(Command)
        /\ subscribed' \in SUBSET Users
        /\ UNCHANGED <<objects, mapping, row, registered, joined, down, crashed,
                       rows, indices, failed, loaded, in, adds, changes>>
    BY <1>4, FromClientTyped DEF FromClient
  <2>2. ListTypeOK' /\ MirrorTypeOK' /\ ShownAreKnown'
    BY <1>0, <2>1 DEF ListTypeOK, MirrorTypeOK, ShownAreKnown
  <2> QED
    BY <1>0, <2>1, <2>2 DEF TypeOK
<1>5. ASSUME NEW u \in Users, Receive(u)
      PROVE  TypeOK' /\ ShownAreKnown'
  <2>1. /\ down' \in [Users -> Seq(Announcement)] /\ in' \in [Users -> Seq(Announcement)]
        /\ UNCHANGED <<objects, mapping, row, registered, joined, up, crashed,
                       rows, indices, failed, loaded, out, subscribed, adds, changes>>
    BY <1>5, ReceiveTyped DEF Receive
  <2>2. ListTypeOK' /\ MirrorTypeOK' /\ ShownAreKnown'
    BY <1>0, <2>1 DEF ListTypeOK, MirrorTypeOK, ShownAreKnown
  <2> QED
    BY <1>0, <2>1, <2>2 DEF TypeOK
<1>6. ASSUME NEW u \in Users, MirrorStep(u)
      PROVE  TypeOK' /\ ShownAreKnown'
  <2>1. /\ MirrorTypeOK' /\ ShownAreKnown' /\ UNCHANGED <<subscribed, adds, changes>>
        /\ UNCHANGED <<objects, mapping, row, registered, joined, up, down, crashed>>
    BY <1>6, MirrorStepTyped DEF MirrorStep, listVars
  <2>2. ListTypeOK'
    BY <1>0, <2>1 DEF ListTypeOK
  <2> QED
    BY <1>0, <2>1, <2>2 DEF TypeOK
<1>7. CASE UNCHANGED vars
  <2>1. /\ UNCHANGED <<objects, mapping, row, registered, joined, up, down, crashed>>
        /\ UNCHANGED <<rows, indices, failed, loaded, out, in>>
        /\ UNCHANGED <<subscribed, adds, changes>>
    BY <1>7 DEF vars, listVars, mirrorVars
  <2>2. ListTypeOK' /\ MirrorTypeOK' /\ ShownAreKnown'
    BY <1>0, <2>1 DEF ListTypeOK, MirrorTypeOK, ShownAreKnown
  <2> QED
    BY <1>0, <2>1, <2>2 DEF TypeOK
<1> QED
  BY <1>1, <1>2, <1>3, <1>4, <1>5, <1>6, <1>7 DEF Next

(* Both ends of the list, the queues between them and the subscriptions    *)
(* keep their types.                                                       *)
THEOREM TypeCorrect == Spec => []TypeOK
<1>1. TypeOK /\ ShownAreKnown /\ [Next]_vars => TypeOK' /\ ShownAreKnown'
  BY StepTyped
<1> QED
  BY <1>1, InitTyped, PTL DEF Spec

(* Whatever announcements come in whatever order, the model is never told  *)
(* of a row that it has, and shows none that the mirror has not            *)
(* (SyncedListModel::added and its assertion).                             *)
THEOREM ShownCorrect == Spec => []ShownAreKnown
<1>1. TypeOK /\ ShownAreKnown /\ [Next]_vars => TypeOK' /\ ShownAreKnown'
  BY StepTyped
<1> QED
  BY <1>1, InitTyped, PTL DEF Spec
-----------------------------------------------------------------------------
(* The mirrors catch up.  What MirrorInv says of one index id and one user *)
(* depends on the way w to his mirror, the mirror r, and the list: whether *)
(* it has the index now (here) and has had it (known), and its row x.      *)

AgreesWith(m, id, p, x) ==
  /\ m.cmd \in {"added", "item"} => m.row[p] = x[p]
  /\ m.cmd = "changed" => m.value = x[p]
  /\ m.cmd = "items" => \A e \in ToSet(m.items) : e.id = id => e.row[p] = x[p]

OnlyOfKnown(w, r, id, known) ==
  /\ id \in DOMAIN r => known
  /\ \A k \in DOMAIN w : Speaks(w[k], id) => known
RemovalLast(w, id, here) ==
  \A k \in DOMAIN w : Removes(w[k], id) =>
    ~here /\ \A l \in DOMAIN w : l > k => ~Speaks(w[l], id)
GoneLeaves(w, r, id, here) ==
  ~here /\ (id \in DOMAIN r \/ \E k \in DOMAIN w : Speaks(w[k], id)) =>
    \E k \in DOMAIN w : Removes(w[k], id)
WordTrue(w, r, id, here, x) ==
  here => \A p \in Announced :
    /\ \A k \in DOMAIN w :
         Tells(w[k], id, p) /\ (\A l \in DOMAIN w : l > k => ~Tells(w[l], id, p)) =>
           AgreesWith(w[k], id, p, x)
    /\ (\A k \in DOMAIN w : ~Tells(w[k], id, p)) =>
         (id \in DOMAIN r => (p \in DOMAIN r[id] => r[id][p] = x[p]))
WholeItems(w, id, here) ==
  here => \A k \in DOMAIN w : w[k].cmd = "items" =>
    id \in Entries(w[k]) \/ \E l \in DOMAIN w : l > k /\ Speaks(w[l], id)

Follows(w, r, id, here, known, x) ==
  /\ OnlyOfKnown(w, r, id, known) /\ RemovalLast(w, id, here) /\ GoneLeaves(w, r, id, here)
  /\ WordTrue(w, r, id, here, x) /\ WholeItems(w, id, here)

(* The parts of MirrorInv, index by index. *)
ByIndex ==
  /\ ObjectsAreOnce /\ Strangers /\ LoadedIsWhole
  /\ \A u \in Users, id \in Ids :
       Follows(Way(u), rows[u], id, id \in Listed, id \in mapping, row[id])

LEMMA MirrorFollows == TypeOK => (MirrorInv <=> ByIndex)
<1>0. TypeOK /\ ObjectsAreOnce => Listed \subseteq Ids
  BY DEF TypeOK, ListTypeOK, ObjectsAreOnce
<1>1. RemovalIsLast <=> \A u \in Users, id \in Ids :
        OnlyOfKnown(Way(u), rows[u], id, id \in mapping) /\ RemovalLast(Way(u), id, id \in Listed)
  BY DEF RemovalIsLast, OnlyOfKnown, RemovalLast, Spoken
<1>2. WhatIsGoneLeaves <=> \A u \in Users, id \in Ids :
        GoneLeaves(Way(u), rows[u], id, id \in Listed)
  BY DEF WhatIsGoneLeaves, GoneLeaves, Spoken
<1>3. WordsAreTrue <=> \A u \in Users, id \in Ids :
        WordTrue(Way(u), rows[u], id, id \in Listed, row[id])
  <2>1. \A m, id, p : Agrees(m, id, p) <=> AgreesWith(m, id, p, row[id])
    BY DEF Agrees, AgreesWith
  <2> QED
    BY <2>1 DEF WordsAreTrue, WordTrue, LastWordIsTrue
<1>5. Listed \subseteq Ids => (ItemsAreWhole <=> \A u \in Users, id \in Ids :
        WholeItems(Way(u), id, id \in Listed))
  BY DEF ItemsAreWhole, WholeItems
<1> QED
  BY <1>0, <1>1, <1>2, <1>3, <1>5 DEF MirrorInv, ByIndex, Follows

LEMMA MirrorFollowsNext == TypeOK' => (MirrorInv' <=> ByIndex')
BY MirrorFollows, PTL

(* What is said to a mirror at the end of its way. *)
LEMMA FollowsAppend ==
  ASSUME NEW w \in Seq(Announcement), NEW m \in Announcement, NEW r, NEW id,
         NEW L, NEW K, NEW x, NEW L2, NEW K2, NEW x2,
         L \in BOOLEAN, K \in BOOLEAN, L2 \in BOOLEAN, K2 \in BOOLEAN,
         Follows(w, r, id, L, K, x),
         L => K, K => K2, Speaks(m, id) => K2,
         Removes(m, id) => L /\ ~L2,
         L /\ ~L2 => Removes(m, id),
         ~L /\ L2 => ~K /\ Speaks(m, id),
         Speaks(m, id) /\ ~Removes(m, id) => L2,
         m.cmd = "items" /\ L2 => id \in Entries(m),
         \A p \in Announced : L2 =>
           IF Tells(m, id, p) THEN AgreesWith(m, id, p, x2) ELSE x2[p] = x[p]
  PROVE  Follows(Append(w, m), r, id, L2, K2, x2)
<1> DEFINE v == Append(w, m)
           n == Len(w) + 1
<1>1. /\ DOMAIN w = 1..Len(w) /\ Len(w) \in Nat /\ DOMAIN v = 1..n
      /\ \A k \in DOMAIN w : v[k] = w[k]
      /\ v[n] = m
  BY AppendProperties, LenProperties
<1>2. /\ n \in DOMAIN v /\ \A k \in DOMAIN v : k \in DOMAIN w \/ k = n
      /\ \A k \in DOMAIN w : k \in DOMAIN v /\ n > k
      /\ \A k \in DOMAIN v : ~(k > n)
  BY <1>1
<1> HIDE DEF v, n
<1>3. /\ OnlyOfKnown(w, r, id, K) /\ RemovalLast(w, id, L) /\ GoneLeaves(w, r, id, L)
      /\ WordTrue(w, r, id, L, x) /\ WholeItems(w, id, L)
  BY DEF Follows
<1>4. \A i : Removes(m, i) => Speaks(m, i)
  BY DEF Removes, Speaks
<1>5. \A i, p : Tells(m, i, p) => Speaks(m, i) /\ ~Removes(m, i)
  BY DEF Removes, Tells
<1>6. \A k \in DOMAIN w : /\ Removes(w[k], id) => Speaks(w[k], id)
                          /\ \A p : Tells(w[k], id, p) => Speaks(w[k], id)
  BY DEF Removes, Speaks, Tells
<1>7. OnlyOfKnown(v, r, id, K2)
  BY <1>1, <1>2, <1>3 DEF OnlyOfKnown
<1>8. ASSUME NEW k \in DOMAIN v, Removes(v[k], id)
      PROVE  ~L2 /\ \A l \in DOMAIN v : l > k => ~Speaks(v[l], id)
  <2>1. CASE k \in DOMAIN w
    <3>1. Removes(w[k], id)
      BY <1>1, <1>8, <2>1
    <3>2. ~L /\ K /\ \A l \in DOMAIN w : l > k => ~Speaks(w[l], id)
      BY <1>3, <1>6, <2>1, <3>1 DEF RemovalLast, OnlyOfKnown
    <3>3. ~L2 /\ ~Speaks(m, id)
      BY <3>2
    <3> QED
      BY <1>1, <1>2, <3>2, <3>3
  <2>2. CASE k = n
    BY <1>1, <1>2, <1>8, <2>2
  <2> QED
    BY <1>2, <2>1, <2>2
<1>9. RemovalLast(v, id, L2)
  BY <1>8 DEF RemovalLast
<1>10. ASSUME ~L2, id \in DOMAIN r \/ \E k \in DOMAIN v : Speaks(v[k], id)
       PROVE  \E k \in DOMAIN v : Removes(v[k], id)
  <2>1. CASE L
    BY <1>1, <1>2, <1>10, <2>1
  <2>2. CASE ~L
    <3>1. ~Speaks(m, id)
      BY <1>10, <2>2
    <3>2. id \in DOMAIN r \/ \E k \in DOMAIN w : Speaks(w[k], id)
      BY <1>1, <1>2, <1>10, <3>1
    <3>3. PICK k \in DOMAIN w : Removes(w[k], id)
      BY <1>3, <2>2, <3>2 DEF GoneLeaves
    <3> QED
      BY <1>1, <1>2, <3>3
  <2> QED
    BY <2>1, <2>2
<1>11. GoneLeaves(v, r, id, L2)
  BY <1>10 DEF GoneLeaves
<1>12. ~L /\ L2 => id \notin DOMAIN r /\ \A k \in DOMAIN w : ~Speaks(w[k], id)
  BY <1>3 DEF OnlyOfKnown
<1>13. ASSUME L2, NEW p \in Announced
       PROVE  /\ \A k \in DOMAIN v :
                   Tells(v[k], id, p) /\ (\A l \in DOMAIN v : l > k => ~Tells(v[l], id, p)) =>
                     AgreesWith(v[k], id, p, x2)
              /\ (\A k \in DOMAIN v : ~Tells(v[k], id, p)) =>
                   (id \in DOMAIN r => (p \in DOMAIN r[id] => r[id][p] = x2[p]))
  <2>1. CASE Tells(m, id, p)
    <3>1. AgreesWith(m, id, p, x2)
      BY <1>13, <2>1
    <3> QED
      BY <1>1, <1>2, <2>1, <3>1
  <2>2. CASE ~Tells(m, id, p) /\ L
    <3>1. x2[p] = x[p]
      BY <1>13, <2>2
    <3>2. ASSUME NEW k \in DOMAIN v, Tells(v[k], id, p),
                 \A l \in DOMAIN v : l > k => ~Tells(v[l], id, p)
          PROVE  AgreesWith(v[k], id, p, x2)
      <4>1. k \in DOMAIN w /\ v[k] = w[k]
        BY <1>1, <1>2, <2>2, <3>2
      <4>2. \A l \in DOMAIN w : l > k => ~Tells(w[l], id, p)
        BY <1>1, <1>2, <3>2
      <4>3. AgreesWith(w[k], id, p, x)
        BY <1>3, <2>2, <3>2, <4>1, <4>2 DEF WordTrue
      <4> QED
        BY <3>1, <4>1, <4>3 DEF AgreesWith
    <3>3. (\A k \in DOMAIN v : ~Tells(v[k], id, p)) => (\A k \in DOMAIN w : ~Tells(w[k], id, p))
      BY <1>1, <1>2
    <3>4. (\A k \in DOMAIN w : ~Tells(w[k], id, p)) =>
            (id \in DOMAIN r => (p \in DOMAIN r[id] => r[id][p] = x[p]))
      BY <1>3, <2>2 DEF WordTrue
    <3> QED
      BY <3>1, <3>2, <3>3, <3>4
  <2>3. CASE ~Tells(m, id, p) /\ ~L
    BY <1>1, <1>2, <1>6, <1>12, <1>13, <2>3
  <2> QED
    BY <2>1, <2>2, <2>3
<1>14. WordTrue(v, r, id, L2, x2)
  BY <1>13 DEF WordTrue
<1>15. ASSUME L2, NEW k \in DOMAIN v, v[k].cmd = "items"
       PROVE  id \in Entries(v[k]) \/ \E l \in DOMAIN v : l > k /\ Speaks(v[l], id)
  <2>1. CASE k = n
    BY <1>1, <1>15, <2>1
  <2>2. CASE k \in DOMAIN w /\ L
    <3>1. id \in Entries(w[k]) \/ \E l \in DOMAIN w : l > k /\ Speaks(w[l], id)
      BY <1>1, <1>3, <1>15, <2>2 DEF WholeItems
    <3> QED
      BY <1>1, <1>2, <2>2, <3>1
  <2>3. CASE k \in DOMAIN w /\ ~L
    BY <1>1, <1>2, <1>15, <2>3
  <2> QED
    BY <1>2, <2>1, <2>2, <2>3
<1>16. WholeItems(v, id, L2)
  BY <1>15 DEF WholeItems
<1> QED
  BY <1>7, <1>9, <1>11, <1>14, <1>16 DEF Follows, v

(* No mirror, and nothing on the way. *)
LEMMA FollowsNothing ==
  ASSUME NEW r, NEW id, NEW L, NEW K, NEW x, DOMAIN r = {}
  PROVE  Follows(<<>>, r, id, L, K, x)
<1>1. DOMAIN <<>> = {}
  OBVIOUS
<1> QED
  BY <1>1 DEF Follows, OnlyOfKnown, RemovalLast, GoneLeaves, WordTrue, WholeItems

(* A row that changes in what is not announced. *)
LEMMA FollowsQuiet ==
  ASSUME NEW w, NEW r, NEW id, NEW L, NEW K, NEW x, NEW x2,
         Follows(w, r, id, L, K, x), \A p \in Announced : x2[p] = x[p]
  PROVE  Follows(w, r, id, L, K, x2)
<1>1. \A p \in Announced : \A m : AgreesWith(m, id, p, x) <=> AgreesWith(m, id, p, x2)
  BY DEF AgreesWith
<1>2. WordTrue(w, r, id, L, x) => WordTrue(w, r, id, L, x2)
  BY <1>1 DEF WordTrue
<1> QED
  BY <1>2 DEF Follows

(* The mirror consumes what comes first, or that is dropped before there   *)
(* is a mirror.                                                            *)
LEMMA FollowsTail ==
  ASSUME NEW w \in Seq(Announcement), w # <<>>, NEW r, NEW r2, NEW id, NEW L, NEW K, NEW x,
         Follows(w, r, id, L, K, x),
         id \in DOMAIN r2 =>
           (id \in DOMAIN r \/ Speaks(Head(w), id)) /\ ~Removes(Head(w), id),
         id \in DOMAIN r2 => \A p \in DOMAIN r2[id] :
           \/ Tells(Head(w), id, p) /\ Told(Head(w), id, p, r2[id][p])
           \/ /\ ~Tells(Head(w), id, p)
              /\ id \in DOMAIN r /\ p \in DOMAIN r[id]
              /\ r2[id][p] = r[id][p]
  PROVE  Follows(Tail(w), r2, id, L, K, x)
<1> DEFINE m == Head(w)
           v == Tail(w)
<1>1. /\ DOMAIN w = 1..Len(w) /\ Len(w) \in Nat \ {0} /\ DOMAIN v = 1..(Len(w) - 1)
      /\ \A k \in 1..(Len(w) - 1) : v[k] = w[k + 1]
      /\ m = w[1]
  BY HeadTailProperties, LenProperties, EmptySeq
<1>2. m \in Announcement
  BY Elements
<1> HIDE DEF m, v
<1>3. /\ 1 \in DOMAIN w
      /\ \A k \in DOMAIN v : k + 1 \in DOMAIN w /\ v[k] = w[k + 1] /\ k + 1 > 1 /\ k + 1 # 1
      /\ \A k \in DOMAIN w : k = 1 \/ (k - 1 \in DOMAIN v /\ v[k - 1] = w[k])
      /\ \A k \in DOMAIN v, l \in DOMAIN w : l > k + 1 => l - 1 \in DOMAIN v /\ l - 1 > k /\ v[l - 1] = w[l]
      /\ \A k, l \in DOMAIN v : l > k => l + 1 > k + 1
      /\ \A l \in DOMAIN w : l > 1 => l - 1 \in DOMAIN v /\ v[l - 1] = w[l]
  BY <1>1
<1>4. /\ OnlyOfKnown(w, r, id, K) /\ RemovalLast(w, id, L) /\ GoneLeaves(w, r, id, L)
      /\ WordTrue(w, r, id, L, x) /\ WholeItems(w, id, L)
  BY DEF Follows
<1>5. OnlyOfKnown(v, r2, id, K)
  BY <1>1, <1>3, <1>4 DEF OnlyOfKnown, m
<1>6. RemovalLast(v, id, L)
  BY <1>3, <1>4 DEF RemovalLast
<1>7. ASSUME ~L, id \in DOMAIN r2 \/ \E k \in DOMAIN v : Speaks(v[k], id)
      PROVE  \E k \in DOMAIN v : Removes(v[k], id)
  <2>1. id \in DOMAIN r \/ \E k \in DOMAIN w : Speaks(w[k], id)
    BY <1>1, <1>3, <1>7 DEF m
  <2>2. PICK k \in DOMAIN w : Removes(w[k], id)
    BY <1>4, <1>7, <2>1 DEF GoneLeaves
  <2>3. CASE k # 1
    BY <1>3, <2>2, <2>3
  <2>4. CASE k = 1
    <3>1. \A l \in DOMAIN w : l > 1 => ~Speaks(w[l], id)
      BY <1>4, <2>2, <2>4 DEF RemovalLast
    <3>2. id \notin DOMAIN r2 /\ \A l \in DOMAIN v : ~Speaks(v[l], id)
      BY <1>1, <1>3, <2>2, <2>4, <3>1 DEF m
    <3> QED
      BY <1>7, <3>2
  <2> QED
    BY <2>3, <2>4
<1>8. GoneLeaves(v, r2, id, L)
  BY <1>7 DEF GoneLeaves
<1>9. ASSUME L, NEW p \in Announced
      PROVE  /\ \A k \in DOMAIN v :
                  Tells(v[k], id, p) /\ (\A l \in DOMAIN v : l > k => ~Tells(v[l], id, p)) =>
                    AgreesWith(v[k], id, p, x)
             /\ (\A k \in DOMAIN v : ~Tells(v[k], id, p)) =>
                  (id \in DOMAIN r2 => (p \in DOMAIN r2[id] => r2[id][p] = x[p]))
  <2>1. /\ \A k \in DOMAIN w :
             Tells(w[k], id, p) /\ (\A l \in DOMAIN w : l > k => ~Tells(w[l], id, p)) =>
               AgreesWith(w[k], id, p, x)
        /\ (\A k \in DOMAIN w : ~Tells(w[k], id, p)) =>
             (id \in DOMAIN r => (p \in DOMAIN r[id] => r[id][p] = x[p]))
    BY <1>4, <1>9 DEF WordTrue
  <2>2. ASSUME NEW k \in DOMAIN v, Tells(v[k], id, p),
               \A l \in DOMAIN v : l > k => ~Tells(v[l], id, p)
        PROVE  AgreesWith(v[k], id, p, x)
    <3>1. k + 1 \in DOMAIN w /\ v[k] = w[k + 1]
      BY <1>3
    <3>2. \A l \in DOMAIN w : l > k + 1 => ~Tells(w[l], id, p)
      BY <1>3, <2>2
    <3> QED
      BY <2>1, <2>2, <3>1, <3>2
  <2>3. ASSUME \A k \in DOMAIN v : ~Tells(v[k], id, p),
               id \in DOMAIN r2, p \in DOMAIN r2[id]
        PROVE  r2[id][p] = x[p]
    <3>1. CASE Tells(m, id, p)
      <4>1. \A l \in DOMAIN w : l > 1 => ~Tells(w[l], id, p)
        BY <1>3, <2>3
      <4>2. AgreesWith(m, id, p, x)
        BY <1>1, <1>3, <2>1, <3>1, <4>1
      <4>3. Told(m, id, p, r2[id][p])
        BY <2>3, <3>1 DEF m
      <4> QED
        BY <4>2, <4>3 DEF AgreesWith, Told
    <3>2. CASE ~Tells(m, id, p)
      <4>1. \A k \in DOMAIN w : ~Tells(w[k], id, p)
        BY <1>1, <1>3, <2>3, <3>2
      <4> QED
        BY <2>1, <2>3, <3>2, <4>1 DEF m
    <3> QED
      BY <3>1, <3>2
  <2> QED
    BY <2>2, <2>3
<1>10. WordTrue(v, r2, id, L, x)
  BY <1>9 DEF WordTrue
<1>11. WholeItems(v, id, L)
  <2> SUFFICES ASSUME L, NEW k \in DOMAIN v, v[k].cmd = "items"
               PROVE  id \in Entries(v[k]) \/ \E l \in DOMAIN v : l > k /\ Speaks(v[l], id)
    BY DEF WholeItems
  <2>1. k + 1 \in DOMAIN w /\ v[k] = w[k + 1]
    BY <1>3
  <2>2. id \in Entries(w[k + 1]) \/ \E l \in DOMAIN w : l > k + 1 /\ Speaks(w[l], id)
    BY <1>4, <2>1 DEF WholeItems
  <2> QED
    BY <1>3, <2>1, <2>2
<1> QED
  BY <1>5, <1>6, <1>8, <1>10, <1>11 DEF Follows, v

LEMMA WayTyped ==
  ASSUME TypeOK, NEW u \in Users
  PROVE  Way(u) \in Seq(Announcement) /\ down[u] \in Seq(Announcement) /\ in[u] \in Seq(Announcement)
<1>1. down[u] \in Seq(Announcement) /\ in[u] \in Seq(Announcement)
  BY DEF TypeOK, ListTypeOK, MirrorTypeOK
<1> QED
  BY <1>1, ConcatProperties DEF Way

(* The list announces m: what of MirrorInv depends on the announcement. *)
LEMMA BroadcastFollows ==
  ASSUME TypeOK, TypeOK', ByIndex, NEW m \in Announcement, Broadcast(m),
         UNCHANGED <<in, rows, loaded, subscribed, joined>>,
         registered' = "no" <=> registered = "no",
         ObjectsAreOnce', mapping \subseteq mapping',
         \A id \in Ids : Speaks(m, id) => id \in mapping',
         \A id \in Ids : Removes(m, id) => id \in Listed /\ id \notin Listed',
         \A id \in Ids : id \in Listed /\ id \notin Listed' => Removes(m, id),
         \A id \in Ids : id \notin Listed /\ id \in Listed' => id \notin mapping /\ Speaks(m, id),
         \A id \in Ids : Speaks(m, id) /\ ~Removes(m, id) => id \in Listed',
         m.cmd = "items" => Listed' \subseteq Entries(m),
         \A id \in Listed', p \in Announced :
           IF Tells(m, id, p) THEN AgreesWith(m, id, p, row'[id]) ELSE row'[id][p] = row[id][p],
         \A u \in Users : \A id \in Listed' :
           Fetching(u, id) => Fetching(u, id)' \/ Speaks(m, id)
  PROVE  ByIndex'
<1>1. /\ ObjectsAreOnce /\ Strangers /\ LoadedIsWhole
      /\ \A u \in Users, id \in Ids :
           Follows(Way(u), rows[u], id, id \in Listed, id \in mapping, row[id])
  BY DEF ByIndex
<1>2. \A u \in Users : down'[u] = IF u \in joined /\ registered # "no" THEN Append(down[u], m) ELSE down[u]
  BY DEF Broadcast
<1>3. ASSUME NEW u \in Users, u \in joined, registered # "no"
      PROVE  Way(u)' = Append(Way(u), m)
  <2>1. Way(u)' = in[u] \o Append(down[u], m)
    BY <1>2, <1>3 DEF Way
  <2>2. in[u] \o Append(down[u], m) = Append(in[u] \o down[u], m)
    <3> DEFINE s == in[u]
               t == down[u]
    <3>1. s \in Seq(Announcement) /\ t \in Seq(Announcement) /\ m \in Announcement
      BY WayTyped
    <3> HIDE DEF s, t
    <3>2. s \o Append(t, m) = Append(s \o t, m)
      BY <3>1, AppendedBeyond
    <3> QED
      BY <3>2 DEF s, t
  <2> QED
    BY <2>1, <2>2 DEF Way
<1>4. ASSUME NEW u \in Users, ~(u \in joined /\ registered # "no")
      PROVE  Way(u) = <<>> /\ Way(u)' = <<>> /\ DOMAIN rows[u] = {} /\ u \notin loaded
  <2>1. Way(u)' = Way(u)
    BY <1>2, <1>4 DEF Way
  <2> QED
    BY <1>1, <1>4, <2>1 DEF Strangers
<1>5. Listed \subseteq mapping
  BY <1>1 DEF ObjectsAreOnce
<1>6. ASSUME NEW u \in Users, NEW id \in Ids
      PROVE  Follows(Way(u), rows[u], id, id \in Listed, id \in mapping, row[id])'
  <2>1. CASE u \in joined /\ registered # "no"
    <3> DEFINE L == id \in Listed
               K == id \in mapping
               L2 == id \in Listed'
               K2 == id \in mapping'
    <3>1. /\ L \in BOOLEAN /\ K \in BOOLEAN /\ L2 \in BOOLEAN /\ K2 \in BOOLEAN
          /\ Follows(Way(u), rows[u], id, L, K, row[id])
          /\ L => K
          /\ K => K2
          /\ Speaks(m, id) => K2
          /\ Removes(m, id) => L /\ ~L2
          /\ L /\ ~L2 => Removes(m, id)
          /\ ~L /\ L2 => ~K /\ Speaks(m, id)
          /\ Speaks(m, id) /\ ~Removes(m, id) => L2
          /\ m.cmd = "items" /\ L2 => id \in Entries(m)
          /\ \A p \in Announced : L2 =>
               IF Tells(m, id, p) THEN AgreesWith(m, id, p, row'[id]) ELSE row'[id][p] = row[id][p]
      BY <1>1, <1>5
    <3> HIDE DEF L, K, L2, K2
    <3>2. Follows(Append(Way(u), m), rows[u], id, L2, K2, row'[id])
      BY <3>1, WayTyped, FollowsAppend
    <3>3. Follows(Way(u)', rows'[u], id, id \in Listed', id \in mapping', row'[id])
      BY <1>3, <2>1, <3>2 DEF L2, K2
    <3> QED
      BY <3>3
  <2>2. CASE ~(u \in joined /\ registered # "no")
    <3> DEFINE L2 == id \in Listed'
               K2 == id \in mapping'
    <3>1. DOMAIN rows'[u] = {} /\ Way(u)' = <<>>
      BY <1>4, <2>2
    <3> HIDE DEF L2, K2
    <3>2. Follows(<<>>, rows'[u], id, L2, K2, row'[id])
      BY <3>1, FollowsNothing
    <3>3. Follows(Way(u)', rows'[u], id, id \in Listed', id \in mapping', row'[id])
      BY <3>1, <3>2 DEF L2, K2
    <3> QED
      BY <3>3
  <2> QED
    BY <2>1, <2>2
<1>7. Strangers'
  BY <1>1, <1>4 DEF Strangers
<1>8. ASSUME NEW u \in loaded, NEW id \in Listed'
      PROVE  id \in DOMAIN rows[u] \/ Spoken(u, id)' \/ Fetching(u, id)'
  <2>1. u \in Users /\ id \in Ids
    BY <1>8 DEF TypeOK, ListTypeOK, MirrorTypeOK, ObjectsAreOnce
  <2>2. u \in joined /\ registered # "no"
    BY <1>4, <1>8, <2>1
  <2>3. Way(u)' = Append(Way(u), m) /\ Way(u) \in Seq(Announcement)
    BY <1>3, <2>1, <2>2, WayTyped
  <2>4. /\ \A k \in DOMAIN Way(u) : k \in DOMAIN Way(u)' /\ Way(u)'[k] = Way(u)[k]
        /\ \E k \in DOMAIN Way(u)' : Way(u)'[k] = m
    <3> DEFINE w == Way(u)
    <3>1. /\ DOMAIN w = 1..Len(w) /\ Len(w) \in Nat /\ DOMAIN Append(w, m) = 1..(Len(w) + 1)
          /\ \A k \in 1..Len(w) : Append(w, m)[k] = w[k]
          /\ Append(w, m)[Len(w) + 1] = m
      BY <2>3, AppendProperties, LenProperties
    <3> HIDE DEF w
    <3>2. /\ \A k \in DOMAIN w : k \in DOMAIN Append(w, m) /\ Append(w, m)[k] = w[k]
          /\ \E k \in DOMAIN Append(w, m) : Append(w, m)[k] = m
      BY <3>1
    <3> QED
      BY <2>3, <3>2 DEF w
  <2>5. Spoken(u, id) \/ Speaks(m, id) => Spoken(u, id)'
    BY <2>4 DEF Spoken
  <2>6. CASE id \in Listed
    <3>1. id \in DOMAIN rows[u] \/ Spoken(u, id) \/ Fetching(u, id)
      BY <1>1, <1>8, <2>6 DEF LoadedIsWhole
    <3> QED
      BY <1>8, <2>1, <2>5, <3>1
  <2>7. CASE id \notin Listed
    BY <1>8, <2>1, <2>5, <2>7
  <2> QED
    BY <2>6, <2>7
<1>9. LoadedIsWhole'
  BY <1>8 DEF LoadedIsWhole
<1> QED
  BY <1>6, <1>7, <1>9 DEF ByIndex

(* A step that announces nothing to the mirrors and changes nothing that   *)
(* the list announces.                                                     *)
LEMMA QuietFollows ==
  ASSUME TypeOK, TypeOK', ByIndex, UNCHANGED <<objects, mapping, down, in, rows, loaded>>,
         subscribed \subseteq subscribed', joined \subseteq joined',
         registered # "no" => registered' # "no",
         \A id \in Listed, p \in Announced : row'[id][p] = row[id][p],
         \A u \in loaded, id \in Listed :
           u \in Users /\ u \in joined /\ registered # "no" /\ Fetching(u, id) => Fetching(u, id)'
  PROVE  ByIndex'
<1>1. /\ ObjectsAreOnce /\ Strangers /\ LoadedIsWhole
      /\ \A u \in Users, id \in Ids :
           Follows(Way(u), rows[u], id, id \in Listed, id \in mapping, row[id])
  BY DEF ByIndex
<1>2. Listed' = Listed /\ mapping' = mapping /\ loaded' = loaded
      /\ \A u \in Users : Way(u)' = Way(u) /\ rows'[u] = rows[u] /\ in'[u] = in[u]
  BY DEF Listed, Way
<1>3. ObjectsAreOnce' /\ Strangers'
  BY <1>1, <1>2 DEF ObjectsAreOnce, Strangers
<1>4. ASSUME NEW u \in loaded, NEW id \in Listed
      PROVE  id \in DOMAIN rows'[u] \/ Spoken(u, id)' \/ Fetching(u, id)'
  <2>1. u \in Users /\ u \in joined /\ registered # "no"
    BY <1>1 DEF TypeOK, MirrorTypeOK, Strangers
  <2>2. Spoken(u, id)' <=> Spoken(u, id)
    BY <1>2, <2>1 DEF Spoken
  <2>3. id \in DOMAIN rows[u] \/ Spoken(u, id) \/ Fetching(u, id)
    BY <1>1 DEF LoadedIsWhole
  <2> QED
    BY <1>2, <2>1, <2>2, <2>3
<1>5. LoadedIsWhole'
  BY <1>2, <1>4 DEF LoadedIsWhole
<1>6. ASSUME NEW u \in Users, NEW id \in Ids
      PROVE  Follows(Way(u)', rows'[u], id, id \in Listed', id \in mapping', row'[id])
  <2> DEFINE w == Way(u)
             r == rows[u]
             L == id \in Listed
             K == id \in mapping
  <2>1. Follows(w, r, id, L, K, row[id])
    BY <1>1
  <2>2. CASE id \in Listed
    <3>1. \A p \in Announced : row'[id][p] = row[id][p]
      BY <2>2
    <3> HIDE DEF w, r, L, K
    <3>2. Follows(w, r, id, L, K, row'[id])
      BY <2>1, <3>1, FollowsQuiet
    <3> QED
      BY <1>2, <3>2 DEF w, r, L, K
  <2>3. CASE id \notin Listed
    <3>1. ~L
      BY <2>3
    <3> HIDE DEF w, r, L, K
    <3>2. Follows(w, r, id, L, K, row'[id])
      BY <2>1, <3>1 DEF Follows, WordTrue
    <3> QED
      BY <1>2, <3>2 DEF w, r, L, K
  <2> QED
    BY <2>2, <2>3
<1> QED
  BY <1>3, <1>5, <1>6 DEF ByIndex

(* An announcement is passed on, or dropped because the subscription has   *)
(* not been read yet.                                                      *)
LEMMA ReceiveFollows ==
  ASSUME TypeOK, TypeOK', ByIndex, NEW u \in Users, Receive(u)
  PROVE  ByIndex'
<1>1. /\ ObjectsAreOnce /\ Strangers /\ LoadedIsWhole
      /\ \A v \in Users, id \in Ids :
           Follows(Way(v), rows[v], id, id \in Listed, id \in mapping, row[id])
  BY DEF ByIndex
<1>2. UNCHANGED <<objects, mapping, row, registered, joined, up, rows, loaded, out, subscribed>>
  BY DEF Receive
<1>3. /\ \A v \in Users : v # u => Way(v)' = Way(v) /\ in'[v] = in[v]
      /\ u \in subscribed => Way(u)' = Way(u)
      /\ u \notin subscribed => in' = in /\ down'[u] = Tail(down[u])
      /\ down[u] # <<>>
      /\ in[u] \in Seq(Announcement) /\ down[u] \in Seq(Announcement)
  BY ReceiveTyped, WayTyped
<1>4. ASSUME u \notin subscribed
      PROVE  /\ in[u] = <<>> /\ DOMAIN rows[u] = {} /\ u \notin loaded
             /\ Way(u) = down[u] /\ Way(u) # <<>> /\ Way(u)' = Tail(Way(u))
  <2>1. in[u] = <<>> /\ DOMAIN rows[u] = {} /\ u \notin loaded
    BY <1>1, <1>4 DEF Strangers
  <2>2. Tail(down[u]) \in Seq(Announcement)
    BY <1>3, Elements
  <2>3. \A s \in Seq(Announcement) : <<>> \o s = s
    BY ConcatProperties
  <2>4. Way(u) = down[u] /\ Way(u)' = Tail(down[u])
    BY <1>3, <1>4, <2>1, <2>2, <2>3 DEF Way
  <2> QED
    BY <1>3, <2>1, <2>4
<1>5. \A v \in Users : /\ Way(v)' # <<>> => Way(v) # <<>>
                       /\ v \notin subscribed => in'[v] = in[v]
                       /\ v \in loaded => Way(v)' = Way(v)
  BY <1>3, <1>4
<1>6. Strangers'
  BY <1>1, <1>2, <1>5 DEF Strangers
<1>7. Listed' = Listed /\ ObjectsAreOnce' /\ \A v, id : Fetching(v, id)' <=> Fetching(v, id)
  BY <1>1, <1>2 DEF Listed, ObjectsAreOnce, Fetching
<1>8. LoadedIsWhole'
  <2>1. loaded \subseteq Users
    BY DEF TypeOK, MirrorTypeOK
  <2>2. \A v \in loaded : \A id : Spoken(v, id)' <=> Spoken(v, id)
    BY <1>5, <2>1 DEF Spoken
  <2> QED
    BY <1>1, <1>2, <1>7, <2>2 DEF LoadedIsWhole
<1>9. ASSUME NEW v \in Users, NEW id \in Ids
      PROVE  Follows(Way(v)', rows'[v], id, id \in Listed', id \in mapping', row'[id])
  <2> DEFINE w == Way(v)
             r == rows[v]
             L == id \in Listed
             K == id \in mapping
  <2>1. Follows(w, r, id, L, K, row[id])
    BY <1>1
  <2>2. CASE Way(v)' = Way(v)
    BY <1>2, <1>7, <2>1, <2>2
  <2>3. CASE v = u /\ u \notin subscribed
    <3>1. w \in Seq(Announcement) /\ w # <<>> /\ DOMAIN r = {} /\ Way(v)' = Tail(w)
      BY <1>4, <2>3, WayTyped
    <3> HIDE DEF w, r, L, K
    <3>2. Follows(Tail(w), r, id, L, K, row[id])
      BY <2>1, <3>1, FollowsTail
    <3>3. rows'[v] = r /\ row'[id] = row[id]
      BY <1>2 DEF r
    <3> QED
      BY <1>2, <1>7, <3>1, <3>2, <3>3 DEF L, K
  <2> QED
    BY <1>3, <2>2, <2>3
<1> QED
  BY <1>6, <1>7, <1>8, <1>9 DEF ByIndex

(* A mirror consumes what has come first. *)
LEMMA MirrorStepFollows ==
  ASSUME TypeOK, TypeOK', ByIndex, NEW u \in Users, MirrorStep(u)
  PROVE  ByIndex'
<1> DEFINE m == Head(in[u])
<1>1. /\ ObjectsAreOnce /\ Strangers /\ LoadedIsWhole
      /\ \A v \in Users, id \in Ids :
           Follows(Way(v), rows[v], id, id \in Listed, id \in mapping, row[id])
  BY DEF ByIndex
<1>2. /\ UNCHANGED <<objects, mapping, row, registered, joined, up, down, subscribed>>
      /\ in[u] # <<>> /\ Consume(u, m) /\ in' = [in EXCEPT ![u] = Tail(in[u])]
      /\ MirrorTypeOK /\ in \in [Users -> Seq(Announcement)]
  BY DEF MirrorStep, SocketDataReady, listVars, TypeOK, MirrorTypeOK
<1>3. /\ Way(u) \in Seq(Announcement)
      /\ in[u] \in Seq(Announcement) /\ down[u] \in Seq(Announcement)
      /\ m \in Announcement
  BY <1>2, WayTyped, Elements
<1>4. in'[u] = Tail(in[u]) /\ \A v \in Users : v # u => in'[v] = in[v] /\ Way(v)' = Way(v)
  BY <1>2 DEF Way
<1>5. Way(u) # <<>> /\ Head(Way(u)) = m /\ Way(u)' = Tail(Way(u))
  <2> DEFINE s == in[u]
             t == down[u]
  <2>1. s \in Seq(Announcement) /\ t \in Seq(Announcement) /\ s # <<>>
    BY <1>2, <1>3
  <2>2. Way(u) = s \o t /\ Way(u)' = Tail(s) \o t
    BY <1>2, <1>4 DEF Way
  <2> HIDE DEF s, t
  <2>3. s \o t # <<>> /\ Head(s \o t) = Head(s) /\ Tail(s \o t) = Tail(s) \o t
    BY <2>1, HeadOfBoth
  <2> QED
    BY <2>2, <2>3 DEF s
<1>6. /\ DOMAIN rows'[u] = {id \in Ids : /\ id \in DOMAIN rows[u] \/ Speaks(m, id)
                                         /\ ~Removes(m, id)}
      /\ \A id \in DOMAIN rows'[u] : \A p \in DOMAIN rows'[u][id] :
           \/ Tells(m, id, p) /\ Told(m, id, p, rows'[u][id][p])
           \/ /\ ~Tells(m, id, p)
              /\ id \in DOMAIN rows[u] /\ p \in DOMAIN rows[u][id]
              /\ rows'[u][id][p] = rows[u][id][p]
      /\ \A v \in Users : v # u => rows'[v] = rows[v]
  BY <1>2, <1>3, Consumes DEF Takes
<1>7. /\ loaded' \in SUBSET Users /\ loaded \subseteq loaded'
      /\ \A v \in Users : v # u => out'[v] = out[v] /\ (v \in loaded' <=> v \in loaded)
      /\ \A id : Get(id) \in ToSet(out[u]) => Get(id) \in ToSet(out'[u])
      /\ u \in loaded' /\ u \notin loaded => m.cmd = "items"
      /\ m.cmd = "items" /\ OnlyIndex => \A id \in Entries(m) : Get(id) \in ToSet(out'[u])
  BY <1>2, <1>3, FetchesTyped
<1> HIDE DEF m
<1>8. Listed' = Listed /\ mapping' = mapping /\ row' = row /\ ObjectsAreOnce'
  BY <1>1, <1>2 DEF Listed, ObjectsAreOnce
<1>9. u \in subscribed /\ u \in joined /\ registered # "no"
  BY <1>1, <1>2, <1>5 DEF Strangers
<1>10. Strangers'
  BY <1>1, <1>2, <1>4, <1>6, <1>7, <1>9 DEF Strangers
<1>11. ASSUME NEW v \in Users, NEW id \in Ids
       PROVE  Follows(Way(v)', rows'[v], id, id \in Listed', id \in mapping', row'[id])
  <2>1. CASE v # u
    <3>1. Way(v)' = Way(v) /\ rows'[v] = rows[v]
      BY <1>4, <1>6, <2>1
    <3> QED
      BY <1>1, <1>8, <3>1
  <2>2. CASE v = u
    <3> DEFINE w == Way(u)
               r == rows[u]
               r2 == rows'[u]
               L == id \in Listed
               K == id \in mapping
               x == row[id]
    <3>1. Follows(w, r, id, L, K, x) /\ w \in Seq(Announcement) /\ w # <<>>
      BY <1>1, <1>3, <1>5
    <3>2. id \in DOMAIN r2 => (id \in DOMAIN r \/ Speaks(Head(w), id)) /\ ~Removes(Head(w), id)
      BY <1>5, <1>6
    <3>3. id \in DOMAIN r2 => \A p \in DOMAIN r2[id] :
           \/ Tells(Head(w), id, p) /\ Told(Head(w), id, p, r2[id][p])
           \/ /\ ~Tells(Head(w), id, p)
              /\ id \in DOMAIN r /\ p \in DOMAIN r[id]
              /\ r2[id][p] = r[id][p]
      BY <1>5, <1>6
    <3> HIDE DEF w, r, r2, L, K, x
    <3>4. Follows(Tail(w), r2, id, L, K, x)
      BY <3>1, <3>2, <3>3, FollowsTail
    <3> QED
      BY <1>5, <1>8, <2>2, <3>4 DEF w, r2, L, K, x
  <2> QED
    BY <2>1, <2>2
<1>12. ASSUME NEW v \in loaded', NEW id \in Listed'
       PROVE  id \in DOMAIN rows'[v] \/ Spoken(v, id)' \/ Fetching(v, id)'
  <2>1. v \in Users /\ id \in Ids /\ id \in Listed
    BY <1>7, <1>8, <1>12 DEF TypeOK, ListTypeOK, ObjectsAreOnce
  <2>2. CASE v # u
    <3>1. Way(v)' = Way(v) /\ rows'[v] = rows[v] /\ out'[v] = out[v] /\ v \in loaded
      BY <1>4, <1>6, <1>7, <1>12, <2>1, <2>2
    <3>2. id \in DOMAIN rows[v] \/ Spoken(v, id) \/ Fetching(v, id)
      BY <1>1, <2>1, <3>1 DEF LoadedIsWhole
    <3>3. Spoken(v, id)' <=> Spoken(v, id)
      BY <3>1 DEF Spoken
    <3>4. Fetching(v, id)' <=> Fetching(v, id)
      BY <1>2, <3>1 DEF Fetching
    <3> QED
      BY <3>1, <3>2, <3>3, <3>4
  <2>3. CASE v = u
    <3> DEFINE w == Way(u)
    <3>1. /\ DOMAIN w = 1..Len(w) /\ Len(w) \in Nat \ {0} /\ w[1] = m
          /\ DOMAIN Tail(w) = 1..(Len(w) - 1)
          /\ \A k \in 1..(Len(w) - 1) : Tail(w)[k] = w[k + 1]
      BY <1>3, <1>5, HeadTailProperties, LenProperties, EmptySeq
    <3>2. /\ RemovalLast(w, id, TRUE) /\ WholeItems(w, id, TRUE)
      <4>1. Follows(w, rows[u], id, id \in Listed, id \in mapping, row[id])
        BY <1>1, <2>1
      <4> QED
        BY <2>1, <4>1 DEF Follows, RemovalLast, WholeItems
    <3> HIDE DEF w
    <3>3. 1 \in DOMAIN w /\ \A l \in DOMAIN w : l > 1 => l - 1 \in DOMAIN Tail(w) /\ Tail(w)[l - 1] = w[l]
      BY <3>1
    <3>4. ~Removes(m, id)
      BY <3>1, <3>2, <3>3 DEF RemovalLast
    <3>5. \A l \in DOMAIN w : l > 1 /\ Speaks(w[l], id) => Spoken(u, id)'
      BY <1>5, <3>3 DEF Spoken, w
    <3>6. (id \in DOMAIN rows[u] \/ Speaks(m, id)) => id \in DOMAIN rows'[u]
      BY <1>6, <2>1, <3>4
    <3>7. CASE u \in loaded
      <4>1. id \in DOMAIN rows[u] \/ Spoken(u, id) \/ Fetching(u, id)
        BY <1>1, <2>1, <3>7 DEF LoadedIsWhole
      <4>2. Spoken(u, id) => Speaks(m, id) \/ Spoken(u, id)'
        <5>1. Spoken(u, id) <=> \E k \in DOMAIN w : Speaks(w[k], id)
          BY DEF Spoken, w
        <5>2. \A k \in DOMAIN w : k = 1 \/ k > 1
          BY <3>1
        <5> QED
          BY <3>1, <3>5, <5>1, <5>2
      <4>3. Fetching(u, id) => Fetching(u, id)'
        BY <1>2, <1>7 DEF Fetching
      <4> QED
        BY <2>3, <3>6, <4>1, <4>2, <4>3
    <3>8. CASE u \notin loaded
      <4>1. m.cmd = "items"
        BY <1>7, <1>12, <2>3, <3>8
      <4>2. id \in Entries(m) \/ \E l \in DOMAIN w : l > 1 /\ Speaks(w[l], id)
        BY <3>1, <3>2, <3>3, <4>1 DEF WholeItems
      <4>3. id \in Entries(m) /\ ~OnlyIndex => Speaks(m, id)
        BY <4>1 DEF Speaks
      <4>4. id \in Entries(m) /\ OnlyIndex => Fetching(u, id)'
        BY <1>7, <4>1 DEF Fetching
      <4> QED
        BY <2>3, <3>5, <3>6, <4>2, <4>3, <4>4, OnlyIndexAssumption
    <3> QED
      BY <3>7, <3>8
  <2> QED
    BY <2>2, <2>3
<1>13. LoadedIsWhole'
  BY <1>12 DEF LoadedIsWhole
<1> QED
  BY <1>8, <1>10, <1>11, <1>13 DEF ByIndex

(* The announcements of the list, one by one. *)
Still == \A u \in Users, id \in Ids : Fetching(u, id) => Fetching(u, id)'
Listening == UNCHANGED <<in, rows, loaded, subscribed, joined>>

LEMMA ItemsFollows ==
  ASSUME TypeOK, TypeOK', ByIndex, Listening, Still, Broadcast(Items),
         UNCHANGED <<objects, mapping, row>>, registered' = "no" <=> registered = "no"
  PROVE  ByIndex'
<1>1. /\ Items \in Announcement /\ Items.cmd = "items" /\ Entries(Items) = Listed
      /\ ~OnlyIndex => \A e \in ToSet(Items.items) : e.row = row[e.id]
  BY ItemsTyped DEF TypeOK
<1> DEFINE m == Items
<1>2. /\ \A id : Speaks(m, id) => id \in Listed /\ ~OnlyIndex
      /\ \A id : ~Removes(m, id)
  BY <1>1 DEF Speaks, Removes
<1>3. Listed' = Listed /\ mapping' = mapping /\ row' = row /\ ObjectsAreOnce' /\ Listed \subseteq mapping
      /\ Listed \subseteq Ids
  BY DEF Listed, ByIndex, ObjectsAreOnce, TypeOK, ListTypeOK
<1>4. ASSUME NEW id \in Listed, NEW p \in Announced
      PROVE  IF Tells(m, id, p) THEN AgreesWith(m, id, p, row'[id]) ELSE row'[id][p] = row[id][p]
  <2>1. Tells(m, id, p) => ~OnlyIndex
    BY <1>2 DEF Tells
  <2>2. ~OnlyIndex => AgreesWith(m, id, p, row[id])
    BY <1>1 DEF AgreesWith
  <2> QED
    BY <1>3, <2>1, <2>2
<1>5. m \in Announcement /\ m.cmd = "items" /\ Entries(m) = Listed /\ Broadcast(m)
  BY <1>1
<1> HIDE DEF m
<1> QED
  BY <1>2, <1>3, <1>4, <1>5, BroadcastFollows DEF Listening, Still

LEMMA AddFollows ==
  ASSUME TypeOK, TypeOK', ByIndex, Listening, Still, NEW i \in Ids, Add(i)
  PROVE  ByIndex'
<1> DEFINE m == [cmd |-> "added", id |-> i, row |-> row[i]]
<1>1. /\ m.cmd = "added" /\ m.id = i /\ m.row = row[i]
      /\ Broadcast(m) /\ i \notin mapping /\ mapping' = mapping \cup {i}
      /\ UNCHANGED <<row, registered, joined>>
  BY DEF Add
<1>2. m \in Announcement
  <2>1. row[i] \in FullRow
    BY DEF TypeOK, ListTypeOK
  <2> QED
    BY <2>1, Announced1
<1> HIDE DEF m
<1>3. /\ \A id : Speaks(m, id) <=> id = i
      /\ \A id : ~Removes(m, id)
      /\ \A id, p : Tells(m, id, p) <=> id = i
  BY <1>1 DEF Speaks, Removes, Tells
<1>4. /\ Listed \subseteq mapping /\ IsInjective(objects) /\ objects \in Seq(Ids)
      /\ i \notin ToSet(objects) /\ objects' = Append(objects, i)
  BY <1>1 DEF ByIndex, ObjectsAreOnce, Listed, TypeOK, ListTypeOK, Add
<1>5. Listed' = Listed \cup {i} /\ IsInjective(objects')
  BY <1>4, AppendNew DEF Listed
<1>6. ObjectsAreOnce' /\ Listed \subseteq Ids /\ mapping \subseteq Ids
  BY <1>1, <1>4, <1>5 DEF ObjectsAreOnce, TypeOK, ListTypeOK
<1>7. \A p : AgreesWith(m, i, p, row[i])
  BY <1>1 DEF AgreesWith
<1> QED
  BY <1>1, <1>2, <1>3, <1>4, <1>5, <1>6, <1>7, BroadcastFollows DEF Listening, Still

LEMMA RemoveFollows ==
  ASSUME TypeOK, TypeOK', ByIndex, Listening, Still, NEW i \in Ids, RemoveObject(i)
  PROVE  ByIndex'
<1> DEFINE m == [cmd |-> "removed", id |-> i]
<1>1. /\ m.cmd = "removed" /\ m.id = i /\ m \in Announcement
      /\ Broadcast(m) /\ i \in Listed
      /\ UNCHANGED <<mapping, row, registered, joined>>
  BY Announced1 DEF RemoveObject
<1> HIDE DEF m
<1>2. /\ \A id : Speaks(m, id) <=> id = i
      /\ \A id : Removes(m, id) <=> id = i
      /\ \A id, p : ~Tells(m, id, p)
  BY <1>1 DEF Speaks, Removes, Tells
<1>3. /\ Listed \subseteq mapping /\ IsInjective(objects) /\ objects \in Seq(Ids)
      /\ objects' = RemoveAt(objects, FindIndex(i))
  BY <1>1 DEF ByIndex, ObjectsAreOnce, TypeOK, ListTypeOK, RemoveObject
<1>4. Listed' = Listed \ {i} /\ IsInjective(objects')
  BY <1>1, <1>3, Removed DEF Listed
<1>5. ObjectsAreOnce' /\ Listed \subseteq Ids
  BY <1>1, <1>3, <1>4 DEF ObjectsAreOnce, TypeOK, ListTypeOK
<1> QED
  BY <1>1, <1>2, <1>3, <1>4, <1>5, BroadcastFollows DEF Listening, Still

LEMMA ChangeFollows ==
  ASSUME TypeOK, TypeOK', ByIndex, Listening, Still,
         NEW i \in Ids, NEW q \in Announced, NEW v \in Values, PropertyChanged(i, q, v)
  PROVE  ByIndex'
<1> DEFINE m == [cmd |-> "changed", id |-> i, prop |-> q, value |-> v]
<1>1. m.cmd = "changed" /\ m.id = i /\ m.prop = q /\ m.value = v
  OBVIOUS
<1>2. /\ Broadcast(m) /\ i \in Listed /\ row' = [row EXCEPT ![i][q] = v]
      /\ UNCHANGED <<objects, mapping, registered, joined>>
  BY DEF PropertyChanged
<1>3. m \in Announcement /\ q \in Props
  BY Announced1, AnnouncedAssumption
<1> HIDE DEF m
<1>4. /\ \A id : Speaks(m, id) <=> id = i
      /\ \A id : ~Removes(m, id)
      /\ \A id, p : Tells(m, id, p) <=> id = i /\ p = q
  BY <1>1 DEF Speaks, Removes, Tells
<1>5. /\ Listed' = Listed /\ mapping' = mapping /\ ObjectsAreOnce'
      /\ Listed \subseteq mapping /\ Listed \subseteq Ids
  BY <1>2 DEF Listed, ByIndex, ObjectsAreOnce, TypeOK, ListTypeOK
<1>6. row \in [Ids -> FullRow] /\ row[i] \in [Props -> Values]
  BY DEF TypeOK, ListTypeOK, FullRow
<1>7. /\ \A id \in Ids : id # i => row'[id] = row[id]
      /\ row'[i][q] = v /\ \A p \in Props : p # q => row'[i][p] = row[i][p]
  BY <1>2, <1>3, <1>6
<1>8. AgreesWith(m, i, q, row'[i])
  BY <1>1, <1>7 DEF AgreesWith
<1>9. \A id \in Listed, p \in Announced :
        IF Tells(m, id, p) THEN AgreesWith(m, id, p, row'[id]) ELSE row'[id][p] = row[id][p]
  BY <1>4, <1>5, <1>7, <1>8, AnnouncedAssumption
<1> QED
  BY <1>1, <1>2, <1>3, <1>4, <1>5, <1>9, BroadcastFollows DEF Listening, Still

LEMMA ItemFollows ==
  ASSUME TypeOK, TypeOK', ByIndex, Listening, NEW i \in Listed,
         Broadcast([cmd |-> "item", id |-> i, row |-> row[i]]),
         \A u \in Users, id \in Ids : Fetching(u, id) => Fetching(u, id)' \/ id = i,
         UNCHANGED <<objects, mapping, row, registered>>
  PROVE  ByIndex'
<1> DEFINE m == [cmd |-> "item", id |-> i, row |-> row[i]]
<1>1. /\ Listed' = Listed /\ mapping' = mapping /\ row' = row /\ ObjectsAreOnce'
      /\ Listed \subseteq mapping /\ Listed \subseteq Ids
  BY DEF Listed, ByIndex, ObjectsAreOnce, TypeOK, ListTypeOK
<1>2. m.cmd = "item" /\ m.id = i /\ m.row = row[i] /\ Broadcast(m)
  OBVIOUS
<1>3. m \in Announcement
  <2>1. row[i] \in FullRow /\ i \in Ids
    BY <1>1 DEF TypeOK, ListTypeOK
  <2> QED
    BY <2>1, Announced1
<1> HIDE DEF m
<1>4. /\ \A id : Speaks(m, id) <=> id = i
      /\ \A id : ~Removes(m, id)
      /\ \A id, p : Tells(m, id, p) <=> id = i
  BY <1>2 DEF Speaks, Removes, Tells
<1>5. \A p : AgreesWith(m, i, p, row[i])
  BY <1>2 DEF AgreesWith
<1> QED
  BY <1>1, <1>2, <1>3, <1>4, <1>5, BroadcastFollows DEF Listening

LEMMA CoreStepFollows ==
  ASSUME TypeOK, TypeOK', ByIndex, CoreStep
  PROVE  ByIndex'
<1>1. UNCHANGED <<rows, indices, failed, loaded, out, in, subscribed>>
  BY DEF CoreStep, mirrorVars
<1>2. /\ Listed \subseteq Ids /\ row \in [Ids -> FullRow] /\ up \in Seq(Command)
  BY DEF ByIndex, ObjectsAreOnce, TypeOK, ListTypeOK
<1>3. CASE ReceiveCommand
  <2> DEFINE m == Head(up)
  <2>1. up # <<>> /\ up' = Tail(up) /\ ToClient(m)
    BY <1>3 DEF ReceiveCommand
  <2>2. m \in Command /\ ToSet(up) = ToSet(up') \cup {m}
    BY <1>2, <2>1, Elements
  <2>3. UNCHANGED joined
    BY <2>1 DEF ToClient, ListItems, GetAll, Set, WrappedPropertyChanged, Invoke, Add,
                RemoveExternally, RemoveObject, Crash
  <2> HIDE DEF m
  <2>4. Listening
    BY <1>1, <2>3 DEF Listening
  <2>5. \A u \in Users, id \in Ids : Fetching(u, id) => Fetching(u, id)' \/ m = Get(id)
    BY <1>1, <2>2 DEF Fetching
  <2>6. m.cmd # "get" => Still
    BY <2>5 DEF Still, Get
  <2>7. CASE m.cmd = "list" /\ ListItems
    BY <2>4, <2>6, <2>7, ItemsFollows DEF ListItems
  <2>8. CASE m.cmd = "get" /\ GetAll(m.id)
    <3>1. \A u \in Users, id \in Ids : Fetching(u, id) => Fetching(u, id)' \/ id = m.id
      BY <2>5 DEF Get
    <3>2. CASE m.id \in Listed
      BY <2>4, <2>8, <3>1, <3>2, ItemFollows DEF GetAll
    <3>3. CASE m.id \notin Listed
      <4>1. UNCHANGED <<objects, mapping, row, registered, joined, down>>
        BY <2>8, <3>3 DEF GetAll, Crash
      <4> QED
        BY <1>1, <1>2, <3>1, <3>3, <4>1, QuietFollows
    <3> QED
      BY <3>2, <3>3
  <2>9. CASE m.cmd = "set" /\ Set(m.id, m.prop, m.value)
    <3>1. m.prop \notin Announced /\ m.id \in Ids /\ m.prop \in Props
      BY <2>2, <2>9, Commands, EditableAssumption
    <3>2. UNCHANGED <<objects, mapping, registered, joined, down>>
      BY <2>9 DEF Set, WrappedPropertyChanged, Crash
    <3>3. row' = row \/ row' = [row EXCEPT ![m.id][m.prop] = m.value]
      BY <2>9 DEF Set, WrappedPropertyChanged, Crash
    <3>4. \A id \in Ids : row[id] \in [Props -> Values]
      BY <1>2 DEF FullRow
    <3>5. \A id \in Listed, p \in Announced : row'[id][p] = row[id][p]
      BY <1>2, <3>1, <3>3, <3>4, AnnouncedAssumption
    <3> QED
      BY <1>1, <1>2, <2>6, <2>9, <3>2, <3>5, QuietFollows DEF Still
  <2>10. CASE m.cmd = "connect" /\ Invoke(m.id)
    <3>1. UNCHANGED <<objects, mapping, row, registered, joined, down>>
      BY <2>10 DEF Invoke, Crash
    <3> QED
      BY <1>1, <1>2, <2>6, <2>10, <3>1, QuietFollows DEF Still
  <2>11. CASE m.cmd = "add" /\ \E id \in Ids : Add(id)
    BY <2>4, <2>6, <2>11, AddFollows
  <2>12. CASE m.cmd = "remove" /\ RemoveExternally(m.id)
    <3>1. m.id \in Ids
      BY <2>2, <2>12, Commands
    <3>2. CASE RemoveObject(m.id)
      BY <2>4, <2>6, <2>12, <3>1, <3>2, RemoveFollows
    <3>3. CASE UNCHANGED <<objects, mapping, row, registered, joined, down, crashed>>
      BY <1>1, <1>2, <2>6, <2>12, <3>3, QuietFollows DEF Still
    <3> QED
      BY <2>12, <3>2, <3>3 DEF RemoveExternally
  <2> QED
    BY <2>1, <2>7, <2>8, <2>9, <2>10, <2>11, <2>12 DEF ToClient, m
<1>4. CASE RegisterList
  BY <1>1, <1>2, <1>4, QuietFollows DEF RegisterList, Fetching
<1>5. CASE ListReady
  <2>1. Still /\ Listening
    BY <1>1, <1>5 DEF ListReady, Still, Listening, Fetching
  <2> QED
    BY <1>5, <2>1, ItemsFollows DEF ListReady
<1>6. ASSUME NEW u \in Users, Join(u)
      PROVE  ByIndex'
  BY <1>1, <1>2, <1>6, QuietFollows DEF Join, Fetching
<1> QED
  BY <1>3, <1>4, <1>5, <1>6 DEF CoreStep

LEMMA StepFollows ==
  ASSUME TypeOK, TypeOK', ByIndex, [Next]_vars
  PROVE  ByIndex'
<1>0. Listed \subseteq Ids /\ loaded \in SUBSET Users
  BY DEF ByIndex, ObjectsAreOnce, TypeOK, ListTypeOK, MirrorTypeOK
<1>1. CASE CoreStep
  BY <1>1, CoreStepFollows
<1>2. CASE PluginActs
  <2>1. /\ UNCHANGED <<rows, loaded, out, in, up, subscribed>>
        /\ \E id \in Ids :
             \/ Add(id)
             \/ RemoveObject(id)
             \/ \E p \in Announced, v \in Values : PropertyChanged(id, p, v)
    BY <1>2 DEF PluginActs, mirrorVars
  <2>2. UNCHANGED joined
    BY <2>1 DEF Add, RemoveObject, PropertyChanged
  <2>3. Listening /\ Still
    BY <2>1, <2>2 DEF Listening, Still, Fetching
  <2> QED
    BY <2>1, <2>3, AddFollows, RemoveFollows, ChangeFollows
<1>3. ASSUME NEW u \in Users, UserActs(u)
      PROVE  ByIndex'
  <2>1. UNCHANGED <<objects, mapping, row, registered, joined, up, down, in, rows, loaded, subscribed>>
    BY <1>3 DEF UserActs, listVars, EmitMsg
  <2>2. \A v \in Users, id \in Ids : Get(id) \in ToSet(out[v]) => Get(id) \in ToSet(out'[v])
    BY <1>3, UserActsTyped
  <2>3. Still
    BY <2>1, <2>2 DEF Still, Fetching
  <2> QED
    BY <1>0, <2>1, <2>3, QuietFollows DEF Still
<1>4. ASSUME NEW u \in Users, FromClient(u)
      PROVE  ByIndex'
  <2>1. UNCHANGED <<objects, mapping, row, registered, joined, down, in, rows, loaded>>
    BY <1>4 DEF FromClient
  <2>2. /\ subscribed \subseteq subscribed'
        /\ u \in joined /\ registered # "no" =>
             \A v \in Users, id \in Ids :
               Get(id) \in ToSet(out[v]) \cup ToSet(up) =>
                 Get(id) \in ToSet(out'[v]) \cup ToSet(up')
        /\ \A v \in Users : v # u => out'[v] = out[v]
        /\ ToSet(up) \subseteq ToSet(up')
    BY <1>4, FromClientTyped
  <2>3. ASSUME NEW v \in loaded, NEW id \in Listed,
               v \in Users, v \in joined, registered # "no", Fetching(v, id)
        PROVE  Fetching(v, id)'
    <3>1. id \in Ids
      BY <1>0
    <3>2. CASE v = u
      BY <2>2, <2>3, <3>1, <3>2 DEF Fetching
    <3>3. CASE v # u
      BY <2>2, <2>3, <3>3 DEF Fetching
    <3> QED
      BY <3>2, <3>3
  <2> QED
    BY <2>1, <2>2, <2>3, QuietFollows
<1>5. ASSUME NEW u \in Users, Receive(u)
      PROVE  ByIndex'
  BY <1>5, ReceiveFollows
<1>6. ASSUME NEW u \in Users, MirrorStep(u)
      PROVE  ByIndex'
  BY <1>6, MirrorStepFollows
<1>7. CASE UNCHANGED vars
  <2>1. UNCHANGED <<objects, mapping, row, registered, joined, up, down,
                    in, out, rows, loaded, subscribed>>
    BY <1>7 DEF vars, listVars, mirrorVars
  <2> QED
    BY <1>0, <2>1, QuietFollows DEF Fetching
<1> QED
  BY <1>1, <1>2, <1>3, <1>4, <1>5, <1>6, <1>7 DEF Next

LEMMA InitFollows == Init => ByIndex
<1> SUFFICES ASSUME Init PROVE ByIndex
  OBVIOUS
<1>1. /\ objects = <<>> /\ mapping = {} /\ loaded = {}
      /\ \A u \in Users : in[u] = <<>> /\ down[u] = <<>> /\ DOMAIN rows[u] = {}
  BY NothingTyped DEF Init, ListInit, MirrorInit
<1>2. Listed = {} /\ IsInjective(objects)
  BY <1>1 DEF Listed, ToSet, IsInjective
<1>3. \A u \in Users : Way(u) = <<>>
  BY <1>1, EmptySeq, ConcatProperties DEF Way
<1>4. \A u \in Users, id \in Ids :
        Follows(Way(u), rows[u], id, id \in Listed, id \in mapping, row[id])
  <2> SUFFICES ASSUME NEW u \in Users, NEW id \in Ids
               PROVE  Follows(Way(u), rows[u], id, id \in Listed, id \in mapping, row[id])
    OBVIOUS
  <2> DEFINE L == id \in Listed
             K == id \in mapping
  <2> HIDE DEF L, K
  <2>1. Follows(<<>>, rows[u], id, L, K, row[id])
    BY <1>1, FollowsNothing
  <2> QED
    BY <1>3, <2>1 DEF L, K
<1> QED
  BY <1>1, <1>2, <1>3, <1>4 DEF ByIndex, ObjectsAreOnce, Strangers, LoadedIsWhole

(* The inductive invariant of the list and its mirrors.                    *)
THEOREM MirrorCorrect == Spec => []MirrorInv
<1>1. TypeOK /\ ShownAreKnown /\ [Next]_vars => TypeOK' /\ ShownAreKnown'
  BY StepTyped
<1>2. TypeOK /\ ShownAreKnown /\ ByIndex /\ [Next]_vars => ByIndex'
  BY <1>1, StepFollows
<1> QED
  BY <1>1, <1>2, InitTyped, InitFollows, MirrorFollows, PTL DEF Spec

(* The mirror of a user who has been answered, together with what is on    *)
(* its way to it, is the list, in every order of subscription,             *)
(* registration, answers, announcements and other users' requests          *)
(* (SyncedList::toClient, SyncableQObjectList::toClient).                  *)
THEOREM CatchesUp == Spec => []MirrorCatchesUp
<1>1. ASSUME TypeOK, MirrorInv
      PROVE  MirrorCatchesUp
  <2>1. ByIndex
    BY <1>1, MirrorFollows
  <2> SUFFICES ASSUME NEW u \in Users, Undisturbed(u), NEW id \in Ids
               PROVE  /\ id \notin Listed => Leaves(u, id)
                      /\ id \in Listed => Stays(u, id) \/ Fetching(u, id)
                      /\ id \in Listed => \A p \in Announced : LastWordIsTrue(u, id, p)
    BY DEF MirrorCatchesUp
  <2>2. id \notin Listed => Leaves(u, id)
    BY <1>1 DEF MirrorInv, RemovalIsLast, WhatIsGoneLeaves, Leaves
  <2>3. id \in Listed => Stays(u, id) \/ Fetching(u, id)
    BY <1>1 DEF MirrorInv, RemovalIsLast, LoadedIsWhole, Stays, Undisturbed
  <2>4. id \in Listed => \A p \in Announced : LastWordIsTrue(u, id, p)
    BY <1>1 DEF MirrorInv, WordsAreTrue
  <2> QED
    BY <2>2, <2>3, <2>4
<1> QED
  BY <1>1, TypeCorrect, MirrorCorrect, PTL
-----------------------------------------------------------------------------
(* What users see.  Mirrors is what its recursive function says, for every *)
(* length.                                                                 *)
IsMirrored(r, w, n, f) ==
  f = [i \in 0..n |-> IF i = 0 THEN r ELSE Consumed(f[i - 1], w[i])]

LEMMA MirroredExists ==
  ASSUME NEW r, NEW w, NEW n \in Nat
  PROVE  \E f : IsMirrored(r, w, n, f)
<1> DEFINE T == {m \in Nat : ~ \E f : IsMirrored(r, w, m, f)}
<1>1. SUFFICES ASSUME T # {} PROVE FALSE
  OBVIOUS
<1>2. PICK m \in T : \A y \in T : m <= y
  BY <1>1, LeastNumber
<1>3. CASE m = 0
  <2> DEFINE f == [i \in 0..0 |-> r]
  <2>1. IsMirrored(r, w, 0, f)
    BY DEF IsMirrored
  <2> QED
    BY <1>2, <1>3, <2>1
<1>4. CASE m # 0
  <2>1. m - 1 \in Nat /\ m - 1 \notin T
    BY <1>2, <1>4
  <2>2. PICK f : IsMirrored(r, w, m - 1, f)
    BY <2>1
  <2> DEFINE step(h, i) == IF i = 0 THEN r ELSE Consumed(h[i - 1], w[i])
             g == [i \in 0..m |-> IF i = m THEN Consumed(f[m - 1], w[m]) ELSE f[i]]
  <2>3. \A i \in 0..(m - 1) : f[i] = step(f, i)
    BY <2>2, Zenon DEF IsMirrored
  <2>4. ASSUME NEW i \in 0..m
        PROVE  g[i] = step(g, i)
    <3>1. CASE i = m
      BY <3>1, <1>4, <1>2
    <3>2. CASE i # m
      <4>1. i \in 0..(m - 1) /\ (i # 0 => i - 1 \in 0..m /\ i - 1 # m)
        BY <3>2, <1>2
      <4> QED
        BY <4>1, <2>3, <3>2
    <3> QED
      BY <3>1, <3>2
  <2>5. g = [i \in 0..m |-> step(g, i)]
    <3> DEFINE h == [i \in 0..m |-> step(g, i)]
    <3>1. \A i \in 0..m : g[i] = h[i]
      BY <2>4
    <3>2. DOMAIN g = 0..m /\ DOMAIN h = 0..m
      OBVIOUS
    <3> HIDE DEF step
    <3> QED
      BY <3>1, <3>2, Zenon
  <2>6. IsMirrored(r, w, m, g)
    BY <2>5, Zenon DEF IsMirrored
  <2> QED
    BY <2>6, <1>2
<1> QED
  BY <1>3, <1>4

Steps(f, r, w) == f[0] = r /\ \A i \in 1..Len(w) : f[i] = Consumed(f[i - 1], w[i])

LEMMA MirrorsSteps ==
  ASSUME NEW r, NEW w, Len(w) \in Nat
  PROVE  Steps(Mirrors(r, w), r, w)
<1> DEFINE f == CHOOSE g : g = [i \in 0..Len(w) |-> IF i = 0 THEN r ELSE Consumed(g[i - 1], w[i])]
<1>1. Mirrors(r, w) = f
  BY Zenon DEF Mirrors
<1>2. \E g : IsMirrored(r, w, Len(w), g)
  BY MirroredExists
<1>3. IsMirrored(r, w, Len(w), f)
  BY <1>2, Zenon DEF IsMirrored
<1> HIDE DEF f
<1>4. 0 \in 0..Len(w) /\ \A i \in 1..Len(w) : i \in 0..Len(w) /\ i # 0
  OBVIOUS
<1>5. \A i \in 0..Len(w) : f[i] = IF i = 0 THEN r ELSE Consumed(f[i - 1], w[i])
  BY <1>3, Zenon DEF IsMirrored
<1> QED
  BY <1>1, <1>4, <1>5, Zenon DEF Steps

(* Two mirrors that agree once, and consume the same, agree ever after. *)
Continues(v, w, d, n) == \A i \in 1..n : v[i] = w[i + d]
Meet(f, g, d, n) == \A i \in 0..n : f[i] = g[i + d]

LEMMA MirrorsMeet ==
  ASSUME NEW r, NEW v, NEW f, NEW q, NEW w, NEW g, NEW d \in Nat, NEW n \in Nat,
         Steps(f, r, v), Len(v) \in Nat, n <= Len(v),
         Steps(g, q, w), Len(w) \in Nat, n + d <= Len(w),
         Continues(v, w, d, n), f[0] = g[d]
  PROVE  Meet(f, g, d, n)
<1> DEFINE T == {i \in 0..n : f[i] # g[i + d]}
<1>1. SUFFICES ASSUME T # {} PROVE FALSE
  BY DEF Meet
<1>2. T \in SUBSET Nat
  OBVIOUS
<1>3. PICK i \in T : \A y \in T : i <= y
  BY <1>1, <1>2, LeastNumber
<1>4. i # 0
  OBVIOUS
<1>5. /\ i \in 1..n /\ i - 1 \in 0..n /\ (i + d) - 1 = (i - 1) + d /\ i - 1 \notin T
      /\ i \in 1..Len(v) /\ i + d \in 1..Len(w)
  BY <1>3, <1>4
<1>6. f[i - 1] = g[(i + d) - 1]
  BY <1>5
<1>7. f[i] = Consumed(f[i - 1], v[i]) /\ g[i + d] = Consumed(g[(i + d) - 1], w[i + d])
  BY <1>5 DEF Steps
<1>8. v[i] = w[i + d]
  BY <1>5 DEF Continues
<1> QED
  BY <1>3, <1>6, <1>7, <1>8

LEMMA MirrorsMore ==
  ASSUME NEW S, NEW w \in Seq(S), NEW m \in S, NEW r
  PROVE  Meet(Mirrors(r, w), Mirrors(r, Append(w, m)), 0, Len(w))
<1> DEFINE v == Append(w, m)
           f == Mirrors(r, w)
           g == Mirrors(r, v)
<1>1. /\ Len(w) \in Nat /\ Len(v) = Len(w) + 1 /\ Len(v) \in Nat
      /\ \A i \in 1..Len(w) : v[i] = w[i]
  BY AppendProperties, LenProperties
<1> HIDE DEF v
<1>2. Steps(f, r, w) /\ Steps(g, r, v)
  BY <1>1, MirrorsSteps
<1> HIDE DEF f, g
<1>3. f[0] = g[0]
  BY <1>2 DEF Steps
<1>4. Continues(w, v, 0, Len(w))
  BY <1>1 DEF Continues
<1>5. Len(w) <= Len(w) /\ Len(w) + 0 <= Len(v) /\ 0 \in Nat
  BY <1>1
<1>6. Meet(f, g, 0, Len(w))
  BY <1>1, <1>2, <1>3, <1>4, <1>5, MirrorsMeet
<1> QED
  BY <1>6 DEF v, f, g

LEMMA MirrorsTail ==
  ASSUME NEW S, NEW w \in Seq(S), w # <<>>, NEW r
  PROVE  /\ Meet(Mirrors(Consumed(r, Head(w)), Tail(w)), Mirrors(r, w), 1, Len(w) - 1)
         /\ Mirrors(r, w)[1] = Consumed(r, Head(w))
<1> DEFINE v == Tail(w)
           c == Consumed(r, Head(w))
           f == Mirrors(c, v)
           g == Mirrors(r, w)
           n == Len(w) - 1
<1>1. /\ n \in Nat /\ Len(v) = n /\ Len(w) = n + 1 /\ Len(w) \in Nat
      /\ \A i \in 1..n : v[i] = w[i + 1]
      /\ Head(w) = w[1]
  BY HeadTailProperties, LenProperties, EmptySeq
<1>2. c = Consumed(r, w[1])
  BY <1>1
<1> HIDE DEF v, c, n
<1>3. Steps(f, c, v) /\ Steps(g, r, w)
  BY <1>1, MirrorsSteps
<1> HIDE DEF f, g
<1>4. g[1] = c
  <2>1. 1 \in 1..Len(w) /\ 1 - 1 = 0
    BY <1>1
  <2> QED
    BY <1>2, <1>3, <2>1 DEF Steps
<1>5. f[0] = g[1]
  BY <1>3, <1>4 DEF Steps
<1>6. Continues(v, w, 1, n)
  BY <1>1 DEF Continues
<1>7. n <= Len(v) /\ n + 1 <= Len(w) /\ 1 \in Nat
  BY <1>1
<1>8. Meet(f, g, 1, n)
  BY <1>1, <1>3, <1>5, <1>6, <1>7, MirrorsMeet
<1> QED
  BY <1>4, <1>8 DEF v, c, f, g, n

(* What mirrors show is a sequence. *)
Sights(f) == {Visible(f[i]) : i \in Nat}
Shows(p, f, n) == Len(p) = n /\ \A i \in 1..n : p[i] = Visible(f[i])

LEMMA ViewsAre ==
  ASSUME NEW S, NEW w \in Seq(S), NEW r
  PROVE  Views(r, w) \in Seq(Sights(Mirrors(r, w))) /\ Shows(Views(r, w), Mirrors(r, w), Len(w))
<1> DEFINE f == Mirrors(r, w)
           V == Sights(f)
           p == [i \in DOMAIN w |-> Visible(f[i])]
<1>1. DOMAIN w = 1..Len(w) /\ Len(w) \in Nat
  BY LenProperties
<1>2. p \in [1..Len(w) -> V]
  <2> HIDE DEF f
  <2> QED
    BY <1>1 DEF Sights
<1>3. p \in Seq(V) /\ Len(p) = Len(w)
  <2>1. p \in Seq(V)
    <3> HIDE DEF V, p
    <3> QED
      BY <1>1, <1>2, IsASeq
  <2>2. DOMAIN p = 1..Len(p) /\ Len(p) \in Nat /\ DOMAIN p = 1..Len(w)
    <3>1. DOMAIN p = 1..Len(w)
      BY <1>1
    <3> HIDE DEF V, p
    <3> QED
      BY <2>1, <3>1, LenProperties
  <2>3. \A a, b \in Nat : 1..a = 1..b => a = b
    OBVIOUS
  <2> HIDE DEF p
  <2>4. Len(p) = Len(w)
    BY <1>1, <2>2, <2>3, Zenon
  <2> QED
    BY <2>1, <2>4
<1>4. \A i \in 1..Len(w) : p[i] = Visible(f[i])
  BY <1>1
<1>5. Views(r, w) = p
  BY DEF Views
<1> HIDE DEF p, V
<1>6. Shows(p, f, Len(w))
  BY <1>3, <1>4 DEF Shows
<1> QED
  BY <1>3, <1>5, <1>6 DEF V

LEMMA ViewsMore ==
  ASSUME NEW S, NEW w \in Seq(S), NEW m \in S, NEW r
  PROVE  Views(r, Append(w, m)) = Append(Views(r, w), Visible(Mirrors(r, Append(w, m))[Len(w) + 1]))
<1> DEFINE a == Append(w, m)
           n == Len(w)
           p == Views(r, w)
           q == Views(r, a)
           z == Visible(Mirrors(r, a)[n + 1])
           V == Sights(Mirrors(r, a))
<1>1. n \in Nat /\ a \in Seq(S) /\ Len(a) = n + 1
  BY AppendProperties, LenProperties
<1>2. /\ q \in Seq(V) /\ Len(q) = n + 1
      /\ \A i \in 1..(n + 1) : q[i] = Visible(Mirrors(r, a)[i])
  <2> HIDE DEF a, n
  <2> QED
    BY <1>1, ViewsAre DEF Shows
<1>3. /\ \E W : p \in Seq(W)
      /\ Len(p) = n /\ \A i \in 1..n : p[i] = Visible(Mirrors(r, w)[i])
  BY ViewsAre DEF Shows
<1>4. \A i \in 1..n : p[i] = q[i]
  <2>1. Meet(Mirrors(r, w), Mirrors(r, a), 0, n)
    BY MirrorsMore
  <2> HIDE DEF a, p, q, n
  <2>2. \A i \in 1..n : i \in 0..n /\ i + 0 = i /\ i \in 1..(n + 1)
    BY <1>1
  <2>3. \A i \in 1..n : Mirrors(r, w)[i] = Mirrors(r, a)[i]
    BY <2>1, <2>2 DEF Meet
  <2> QED
    BY <1>2, <1>3, <2>2, <2>3
<1>5. z \in V
  BY <1>1 DEF Sights
<1>7. q[n + 1] = z
  <2> HIDE DEF a, q, n
  <2> QED
    BY <1>1, <1>2
<1> HIDE DEF a, n, p, q, z, V
<1>8. p \in Seq(V)
  <2>1. DOMAIN p = 1..n /\ \A i \in 1..n : p[i] \in V
    <3>1. \A i \in 1..(n + 1) : q[i] \in V
      BY <1>1, <1>2, ElementOfSeq
    <3> QED
      BY <1>1, <1>3, <1>4, <3>1, LenProperties
  <2>2. p \in [1..n -> V]
    <3>1. PICK W : p \in Seq(W)
      BY <1>3
    <3>2. p \in [1..n -> W]
      BY <1>3, <3>1, LenProperties
    <3> QED
      BY <2>1, <3>2
  <2> QED
    BY <1>1, <2>2, IsASeq
<1>9. /\ Append(p, z) \in Seq(V) /\ Len(Append(p, z)) = n + 1
      /\ \A i \in 1..n : Append(p, z)[i] = p[i]
      /\ Append(p, z)[n + 1] = z
  BY <1>3, <1>5, <1>8, AppendProperties
<1>10. \A i \in 1..Len(q) : q[i] = Append(p, z)[i]
  BY <1>1, <1>2, <1>4, <1>7, <1>9
<1>11. q = Append(p, z)
  BY <1>2, <1>9, <1>10, SeqEqual
<1> QED
  BY <1>11 DEF a, n, p, q, z

LEMMA ViewsTail ==
  ASSUME NEW S, NEW w \in Seq(S), w # <<>>, NEW r
  PROVE  /\ Views(r, w) # <<>>
         /\ Head(Views(r, w)) = Visible(Consumed(r, Head(w)))
         /\ Tail(Views(r, w)) = Views(Consumed(r, Head(w)), Tail(w))
<1> DEFINE c == Consumed(r, Head(w))
           t == Tail(w)
           p == Views(r, w)
           q == Views(c, t)
           n == Len(w) - 1
           V == Sights(Mirrors(r, w))
           W == Sights(Mirrors(c, t))
<1>1. n \in Nat /\ Len(w) = n + 1 /\ t \in Seq(S) /\ Len(t) = n /\ Head(w) = w[1] /\ Len(w) \in Nat
  BY HeadTailProperties, LenProperties, EmptySeq
<1>2. p \in Seq(V) /\ Shows(p, Mirrors(r, w), Len(w))
  BY ViewsAre
<1>3. q \in Seq(W) /\ Shows(q, Mirrors(c, t), Len(t))
  <2> HIDE DEF c, t
  <2> QED
    BY <1>1, ViewsAre
<1>4. Meet(Mirrors(c, t), Mirrors(r, w), 1, n)
  BY MirrorsTail
<1>5. Mirrors(r, w)[1] = c
  BY MirrorsTail
<1> HIDE DEF c, t, p, q, n, V, W
<1>6. p # <<>>
  <2>1. Len(p) # 0
    BY <1>1, <1>2 DEF Shows
  <2> QED
    BY <2>1, EmptySeq
<1>7. /\ Head(p) = p[1] /\ Tail(p) \in Seq(V) /\ Len(Tail(p)) = n
      /\ \A i \in 1..n : Tail(p)[i] = p[i + 1]
  <2>1. Len(p) - 1 = n
    BY <1>1, <1>2 DEF Shows
  <2> QED
    BY <1>2, <1>6, <2>1, HeadTailProperties
<1>8. p[1] = Visible(c)
  BY <1>1, <1>2, <1>5 DEF Shows
<1>9. ASSUME NEW i \in 1..n
      PROVE  Tail(p)[i] = q[i]
  <2>1. i \in 0..n /\ i + 1 \in 1..(n + 1)
    BY <1>1
  <2>2. p[i + 1] = Visible(Mirrors(r, w)[i + 1]) /\ q[i] = Visible(Mirrors(c, t)[i])
    BY <1>1, <1>2, <1>3, <2>1 DEF Shows
  <2>3. Mirrors(c, t)[i] = Mirrors(r, w)[i + 1]
    BY <1>4, <2>1 DEF Meet
  <2> QED
    BY <1>7, <2>2, <2>3
<1>10. Tail(p) = q
  <2>1. Len(q) = n
    BY <1>1, <1>3 DEF Shows
  <2> QED
    BY <1>3, <1>7, <1>9, <2>1, SeqEqual
<1> QED
  BY <1>6, <1>7, <1>8, <1>10 DEF c, t, p, q

LEMMA LatestIs ==
  ASSUME NEW S, NEW w \in Seq(S), NEW r
  PROVE  Seen!Latest(Visible(r), Views(r, w)) = Visible(Mirrors(r, w)[Len(w)])
<1> DEFINE p == Views(r, w)
           V == Sights(Mirrors(r, w))
<1>1. p \in Seq(V) /\ Shows(p, Mirrors(r, w), Len(w)) /\ Len(w) \in Nat
  BY ViewsAre, LenProperties
<1>2. Mirrors(r, w)[0] = r
  BY <1>1, MirrorsSteps DEF Steps
<1> HIDE DEF p, V
<1>3. CASE p = <<>>
  <2>1. Len(w) = 0
    BY <1>1, <1>3, EmptySeq DEF Shows
  <2> QED
    BY <1>2, <1>3, <2>1 DEF Seen!Latest, p
<1>4. CASE p # <<>>
  <2>1. Len(p) # 0
    BY <1>1, <1>4, EmptySeq
  <2>2. Len(p) = Len(w) /\ Len(w) \in 1..Len(w)
    BY <1>1, <2>1 DEF Shows
  <2> QED
    BY <1>1, <1>4, <2>2 DEF Seen!Latest, Shows, p
<1> QED
  BY <1>3, <1>4

-----------------------------------------------------------------------------
(* Nor does a user of a list of whole rows lack a part of one: a row that  *)
(* was made by an early "changed" is replaced by what comes later.         *)
WholeRow(w, r, has, id, here) ==
  here =>
    /\ has => IsWhole(r, id) \/ \E k \in DOMAIN w : Brings(w[k], id)
    /\ \A k \in DOMAIN w : w[k].cmd = "items" => \E l \in DOMAIN w : l >= k /\ Brings(w[l], id)
RowsAreWhole ==
  \A u \in Users, id \in Ids : WholeRow(Way(u), rows[u], u \in loaded, id, id \in Listed)

LEMMA WholeAppend ==
  ASSUME NEW w \in Seq(Announcement), NEW m \in Announcement, NEW r, NEW has, NEW id, NEW L, NEW L2,
         WholeRow(w, r, has, id, L),
         L2 => L \/ Brings(m, id),
         m.cmd = "items" /\ L2 => Brings(m, id)
  PROVE  WholeRow(Append(w, m), r, has, id, L2)
<1> DEFINE v == Append(w, m)
           n == Len(w) + 1
<1>1. /\ DOMAIN w = 1..Len(w) /\ Len(w) \in Nat /\ DOMAIN v = 1..n
      /\ \A k \in DOMAIN w : v[k] = w[k]
      /\ v[n] = m
  BY AppendProperties, LenProperties
<1>2. /\ n \in DOMAIN v /\ \A k \in DOMAIN v : n >= k /\ (k \in DOMAIN w \/ k = n)
      /\ \A k \in DOMAIN w : k \in DOMAIN v
  BY <1>1
<1> HIDE DEF v, n
<1>3. SUFFICES ASSUME L2
               PROVE  /\ has => IsWhole(r, id) \/ \E k \in DOMAIN v : Brings(v[k], id)
                      /\ \A k \in DOMAIN v : v[k].cmd = "items" =>
                           \E l \in DOMAIN v : l >= k /\ Brings(v[l], id)
  BY DEF WholeRow, v
<1>4. CASE Brings(m, id)
  BY <1>1, <1>2, <1>4
<1>5. CASE ~Brings(m, id)
  <2>1. L /\ m.cmd # "items"
    BY <1>3, <1>5
  <2> QED
    BY <1>1, <1>2, <2>1 DEF WholeRow
<1> QED
  BY <1>4, <1>5

LEMMA WholeTail ==
  ASSUME NEW w \in Seq(Announcement), w # <<>>, NEW r, NEW r2, NEW has, NEW has2, NEW id, NEW L,
         WholeRow(w, r, has, id, L),
         L /\ has2 => has \/ Head(w).cmd = "items",
         L /\ has2 => (Brings(Head(w), id) \/ IsWhole(r, id) => IsWhole(r2, id))
  PROVE  WholeRow(Tail(w), r2, has2, id, L)
<1> DEFINE m == Head(w)
           v == Tail(w)
<1>1. /\ DOMAIN w = 1..Len(w) /\ Len(w) \in Nat \ {0} /\ DOMAIN v = 1..(Len(w) - 1)
      /\ \A k \in 1..(Len(w) - 1) : v[k] = w[k + 1]
      /\ m = w[1]
  BY HeadTailProperties, LenProperties, EmptySeq
<1> HIDE DEF m, v
<1>2. /\ 1 \in DOMAIN w
      /\ \A k \in DOMAIN v : k + 1 \in DOMAIN w /\ v[k] = w[k + 1]
      /\ \A k \in DOMAIN v, l \in DOMAIN w : l >= k + 1 => l - 1 \in DOMAIN v /\ l - 1 >= k /\ v[l - 1] = w[l]
      /\ \A l \in DOMAIN w : l = 1 \/ (l - 1 \in DOMAIN v /\ v[l - 1] = w[l])
  BY <1>1
<1>3. SUFFICES ASSUME L
               PROVE  /\ has2 => IsWhole(r2, id) \/ \E k \in DOMAIN v : Brings(v[k], id)
                      /\ \A k \in DOMAIN v : v[k].cmd = "items" =>
                           \E l \in DOMAIN v : l >= k /\ Brings(v[l], id)
  BY DEF WholeRow, v
<1>4. /\ has => IsWhole(r, id) \/ \E k \in DOMAIN w : Brings(w[k], id)
      /\ \A k \in DOMAIN w : w[k].cmd = "items" => \E l \in DOMAIN w : l >= k /\ Brings(w[l], id)
  BY <1>3 DEF WholeRow
<1>5. ASSUME NEW k \in DOMAIN v, v[k].cmd = "items"
      PROVE  \E l \in DOMAIN v : l >= k /\ Brings(v[l], id)
  <2>1. PICK l \in DOMAIN w : l >= k + 1 /\ Brings(w[l], id)
    BY <1>2, <1>4, <1>5
  <2> QED
    BY <1>2, <2>1
<1>6. ASSUME has2
      PROVE  IsWhole(r2, id) \/ \E k \in DOMAIN v : Brings(v[k], id)
  <2>1. IsWhole(r, id) \/ \E k \in DOMAIN w : Brings(w[k], id)
    BY <1>1, <1>2, <1>3, <1>4, <1>6 DEF m
  <2>2. Brings(m, id) \/ IsWhole(r, id) => IsWhole(r2, id)
    BY <1>3, <1>6 DEF m
  <2> QED
    BY <1>1, <1>2, <2>1, <2>2
<1> QED
  BY <1>5, <1>6

(* What a mirror holds in the end: of every index what the list has. *)
Tracks(w, r, id, L, K, x) ==
  /\ Follows(w, r, id, id \in L, id \in K, x[id])
  /\ WholeRow(w, r, TRUE, id, id \in L)

LEMMA TracksTail ==
  ASSUME NEW w \in Seq(Announcement), w # <<>>, NEW r \in Mirror, NEW id \in Ids,
         NEW L, NEW K, NEW x, Tracks(w, r, id, L, K, x)
  PROVE  Tracks(Tail(w), Consumed(r, Head(w)), id, L, K, x)
<1> DEFINE m == Head(w)
           q == Consumed(r, m)
           here == id \in L
           known == id \in K
           y == x[id]
<1>1. m \in Announcement
  BY Elements
<1> HIDE DEF m
<1>2. Takes(q, r, m)
  BY <1>1, ConsumedTakes
<1> HIDE DEF q, here, known, y
<1>3. Follows(w, r, id, here, known, y) /\ WholeRow(w, r, TRUE, id, here)
  BY DEF Tracks, here, known, y
<1>4. /\ id \in DOMAIN q => (id \in DOMAIN r \/ Speaks(m, id)) /\ ~Removes(m, id)
      /\ id \in DOMAIN q => \A p \in DOMAIN q[id] :
           \/ Tells(m, id, p) /\ Told(m, id, p, q[id][p])
           \/ /\ ~Tells(m, id, p)
              /\ id \in DOMAIN r /\ p \in DOMAIN r[id]
              /\ q[id][p] = r[id][p]
  BY <1>2 DEF Takes
<1>5. Follows(Tail(w), q, id, here, known, y)
  BY <1>3, <1>4, FollowsTail DEF m
<1>6. here => ~Removes(m, id)
  <2>1. 1 \in DOMAIN w /\ w[1] = m
    BY HeadTailProperties, LenProperties, EmptySeq DEF m
  <2> QED
    BY <1>3, <2>1 DEF Follows, RemovalLast
<1>7. here => (Brings(m, id) \/ IsWhole(r, id) => IsWhole(q, id))
  <2>1. Brings(m, id) => Speaks(m, id)
    BY DEF Brings
  <2>2. here /\ (Brings(m, id) \/ IsWhole(r, id)) => id \in DOMAIN q
    BY <1>2, <1>6, <2>1 DEF Takes, IsWhole
  <2> QED
    BY <1>2, <2>2 DEF Takes
<1>8. WholeRow(Tail(w), q, TRUE, id, here)
  BY <1>3, <1>7, WholeTail DEF m
<1> QED
  BY <1>5, <1>8 DEF Tracks, q, here, known, y, m

LEMMA TracksEnd ==
  ASSUME NEW r, NEW id, NEW L, NEW K, NEW x, Tracks(<<>>, r, id, L, K, x)
  PROVE  /\ id \in DOMAIN r <=> id \in L
         /\ id \in L => DOMAIN r[id] = Props /\ \A p \in Announced : r[id][p] = x[id][p]
<1>1. DOMAIN <<>> = {}
  OBVIOUS
<1>2. /\ id \notin L => id \notin DOMAIN r
      /\ id \in L => IsWhole(r, id)
  BY <1>1 DEF Tracks, Follows, GoneLeaves, WholeRow
<1>3. id \in L => \A p \in Announced : p \in DOMAIN r[id] => r[id][p] = x[id][p]
  BY <1>1, <1>2 DEF Tracks, Follows, WordTrue, IsWhole
<1> QED
  BY <1>2, <1>3, AnnouncedAssumption DEF IsWhole

LEMMA SameToUsers ==
  ASSUME NEW r, NEW L, NEW x,
         DOMAIN r = L,
         \A id \in L : DOMAIN r[id] = Props /\ DOMAIN x[id] = Props,
         \A id \in L, p \in Announced : r[id][p] = x[id][p]
  PROVE  Visible(r) = Visible([id \in L |-> x[id]])
<1> DEFINE y == [id \in L |-> x[id]]
           a(id) == [p \in DOMAIN r[id] \cap Announced |-> r[id][p]]
           b(id) == [p \in DOMAIN y[id] \cap Announced |-> y[id][p]]
<1>1. ASSUME NEW id \in L
      PROVE  a(id) = b(id)
  <2>1. y[id] = x[id] /\ DOMAIN r[id] = Props /\ DOMAIN y[id] = Props
    OBVIOUS
  <2>2. \A p \in Props \cap Announced : r[id][p] = y[id][p]
    BY <2>1
  <2> HIDE DEF y
  <2> QED
    BY <2>1, <2>2
<1>2. Visible(r) = [id \in L |-> a(id)] /\ Visible(y) = [id \in L |-> b(id)]
  BY DEF Visible
<1> HIDE DEF a, b, y
<1>3. Visible(r) = Visible(y)
  BY <1>1, <1>2
<1> QED
  BY <1>3 DEF y

LEMMA MirrorsEnd ==
  ASSUME NEW w \in Seq(Announcement), NEW r \in Mirror,
         NEW L \in SUBSET Ids, NEW K, NEW x \in [Ids -> FullRow],
         \A id \in Ids : Tracks(w, r, id, L, K, x)
  PROVE  Visible(Mirrors(r, w)[Len(w)]) = Visible([id \in L |-> x[id]])
<1> DEFINE z == Visible([id \in L |-> x[id]])
           Differs(v, q) == /\ \A id \in Ids : Tracks(v, q, id, L, K, x)
                           /\ Visible(Mirrors(q, v)[Len(v)]) # z
           T == {n \in Nat : \E v \in Seq(Announcement), q \in Mirror : Len(v) = n /\ Differs(v, q)}
<1>1. SUFFICES ASSUME T # {} PROVE FALSE
  <2>1. Len(w) \in Nat
    BY LenProperties
  <2> QED
    BY <2>1
<1>2. PICK n \in T : \A y \in T : n <= y
  BY <1>1, LeastNumber
<1>3. PICK v \in Seq(Announcement), q \in Mirror : Len(v) = n /\ Differs(v, q)
  BY <1>2
<1>4. DOMAIN q \subseteq Ids
  BY IsMirror
<1>5. CASE v = <<>>
  <2>1. Len(v) = 0
    BY <1>5
  <2>2. Mirrors(q, v)[0] = q
    BY <2>1, MirrorsSteps DEF Steps
  <2>3. \A id \in Ids : Tracks(<<>>, q, id, L, K, x)
    BY <1>3, <1>5
  <2>4. \A id \in Ids : /\ id \in DOMAIN q <=> id \in L
                        /\ id \in L => DOMAIN q[id] = Props /\ \A p \in Announced : q[id][p] = x[id][p]
    BY <2>3, TracksEnd
  <2>5. DOMAIN q = L /\ \A id \in L : DOMAIN x[id] = Props
    BY <1>4, <2>4 DEF FullRow
  <2>6. Visible(q) = z
    BY <2>4, <2>5, SameToUsers
  <2> QED
    BY <1>3, <2>1, <2>2, <2>6
<1>6. CASE v # <<>>
  <2> DEFINE t == Tail(v)
             c == Consumed(q, Head(v))
  <2>1. /\ Len(v) \in Nat \ {0} /\ t \in Seq(Announcement) /\ Len(t) = n - 1 /\ n - 1 \in Nat
        /\ Head(v) \in Announcement
    BY <1>3, <1>6, HeadTailProperties, LenProperties, EmptySeq
  <2>2. c \in Mirror
    BY <2>1, ConsumedTakes DEF Takes
  <2>3. \A id \in Ids : Tracks(t, c, id, L, K, x)
    BY <1>3, <1>6, TracksTail
  <2>4. Mirrors(c, t)[n - 1] = Mirrors(q, v)[n]
    <3>1. Meet(Mirrors(c, t), Mirrors(q, v), 1, Len(v) - 1)
      BY <1>6, MirrorsTail
    <3> HIDE DEF c, t
    <3>2. n - 1 \in 0..(Len(v) - 1) /\ (n - 1) + 1 = n
      BY <1>3, <2>1
    <3> QED
      BY <3>1, <3>2 DEF Meet
  <2>5. n - 1 \notin T
    BY <1>2, <2>1
  <2> HIDE DEF c, t, z
  <2>6. Visible(Mirrors(c, t)[n - 1]) = z
    BY <2>1, <2>2, <2>3, <2>5
  <2> QED
    BY <1>3, <2>4, <2>6
<1> QED
  BY <1>5, <1>6

-----------------------------------------------------------------------------
(* The steps, by what they are to users: the list says something, nothing  *)
(* changes that is announced, or an announcement moves.                    *)
Says(m) ==
  /\ Broadcast(m)
  /\ Listening
  /\ registered' = "no" <=> registered = "no"
  /\ \A id \in Listed' : id \in Listed \/ Brings(m, id)
  /\ m.cmd = "items" => \A id \in Listed' : Brings(m, id)
Rests ==
  /\ UNCHANGED <<objects, down, in, rows, loaded>>
  /\ \A id \in Listed, p \in Announced : row'[id][p] = row[id][p]

LEMMA ItemsSay ==
  ASSUME ~OnlyIndex, TypeOK, Listening, Broadcast(Items),
         UNCHANGED <<objects, row>>, registered' = "no" <=> registered = "no"
  PROVE  \E m \in Announcement : Says(m)
<1>1. Items \in Announcement /\ Items.cmd = "items" /\ Entries(Items) = Listed
  BY ItemsTyped DEF TypeOK
<1>2. Listed' = Listed
  BY DEF Listed
<1>3. \A id \in Listed' : Brings(Items, id)
  BY <1>1, <1>2 DEF Brings, Speaks
<1>4. Says(Items)
  BY <1>2, <1>3 DEF Says
<1> QED
  BY <1>1, <1>4

LEMMA AddSays ==
  ASSUME TypeOK, Listening, NEW i \in Ids, Add(i)
  PROVE  \E m \in Announcement : Says(m)
<1> DEFINE m == [cmd |-> "added", id |-> i, row |-> row[i]]
<1>1. m \in Announcement
  <2>1. row[i] \in FullRow
    BY DEF TypeOK, ListTypeOK
  <2> QED
    BY <2>1, Announced1
<1>2. m.cmd = "added" /\ m.id = i /\ Broadcast(m) /\ UNCHANGED registered
  BY DEF Add
<1> HIDE DEF m
<1>3. Listed' = Listed \cup {i}
  <2>1. objects \in Seq(Ids) /\ objects' = Append(objects, i)
    BY DEF TypeOK, ListTypeOK, Add
  <2> QED
    BY <2>1, Appended DEF Listed
<1>4. Brings(m, i)
  BY <1>2 DEF Brings, Speaks
<1>5. Says(m)
  BY <1>2, <1>3, <1>4 DEF Says
<1> QED
  BY <1>1, <1>5

LEMMA RemoveSays ==
  ASSUME TypeOK, ObjectsAreOnce, Listening, NEW i \in Ids, RemoveObject(i)
  PROVE  \E m \in Announcement : Says(m)
<1> DEFINE m == [cmd |-> "removed", id |-> i]
<1>1. m \in Announcement
  BY Announced1
<1>2. m.cmd = "removed" /\ Broadcast(m) /\ UNCHANGED registered
  BY DEF RemoveObject
<1> HIDE DEF m
<1>3. Listed' = Listed \ {i}
  <2>1. /\ objects \in Seq(Ids) /\ IsInjective(objects) /\ i \in Listed
        /\ objects' = RemoveAt(objects, FindIndex(i))
    BY DEF TypeOK, ListTypeOK, ObjectsAreOnce, RemoveObject
  <2> QED
    BY <2>1, Removed DEF Listed
<1>4. Says(m)
  BY <1>2, <1>3 DEF Says
<1> QED
  BY <1>1, <1>4

LEMMA ChangeSays ==
  ASSUME Listening, NEW i \in Ids, NEW p \in Announced, NEW v \in Values, PropertyChanged(i, p, v)
  PROVE  \E m \in Announcement : Says(m)
<1> DEFINE m == [cmd |-> "changed", id |-> i, prop |-> p, value |-> v]
<1>1. m \in Announcement
  BY Announced1, AnnouncedAssumption
<1>2. m.cmd = "changed" /\ Broadcast(m) /\ UNCHANGED <<objects, registered>>
  BY DEF PropertyChanged
<1> HIDE DEF m
<1>3. Listed' = Listed
  BY <1>2 DEF Listed
<1>4. Says(m)
  BY <1>2, <1>3 DEF Says
<1> QED
  BY <1>1, <1>4

LEMMA ItemSays ==
  ASSUME TypeOK, Listening, NEW i \in Listed,
         Broadcast([cmd |-> "item", id |-> i, row |-> row[i]]),
         UNCHANGED <<objects, registered>>
  PROVE  \E m \in Announcement : Says(m)
<1> DEFINE m == [cmd |-> "item", id |-> i, row |-> row[i]]
<1>1. m \in Announcement
  <2>1. objects \in Seq(Ids) /\ row \in [Ids -> FullRow]
    BY DEF TypeOK, ListTypeOK
  <2>2. i \in Ids
    BY <2>1, Elements DEF Listed
  <2> QED
    BY <2>1, <2>2, Announced1
<1>2. m.cmd = "item" /\ Broadcast(m)
  OBVIOUS
<1> HIDE DEF m
<1>3. Listed' = Listed
  BY DEF Listed
<1>4. Says(m)
  BY <1>2, <1>3 DEF Says
<1> QED
  BY <1>1, <1>4

LEMMA CoreStepKinds ==
  ASSUME ~OnlyIndex, TypeOK, ObjectsAreOnce, CoreStep
  PROVE  Rests \/ \E m \in Announcement : Says(m)
<1>1. UNCHANGED <<rows, loaded, in, subscribed>>
  BY DEF CoreStep, mirrorVars
<1>2. Listed \subseteq Ids /\ row \in [Ids -> FullRow] /\ up \in Seq(Command)
  <2>1. objects \in Seq(Ids) /\ row \in [Ids -> FullRow] /\ up \in Seq(Command)
    BY DEF TypeOK, ListTypeOK
  <2> QED
    BY <2>1, Elements DEF Listed
<1>3. CASE ReceiveCommand
  <2> DEFINE m == Head(up)
  <2>1. up # <<>> /\ ToClient(m)
    BY <1>3 DEF ReceiveCommand
  <2>2. m \in Command
    BY <1>2, <2>1, Elements
  <2>3. UNCHANGED joined
    BY <2>1 DEF ToClient, ListItems, GetAll, Set, WrappedPropertyChanged, Invoke, Add,
                RemoveExternally, RemoveObject, Crash
  <2> HIDE DEF m
  <2>4. Listening
    BY <1>1, <2>3 DEF Listening
  <2>5. CASE m.cmd = "list" /\ ListItems
    BY <2>4, <2>5, ItemsSay DEF ListItems
  <2>6. CASE m.cmd = "get" /\ GetAll(m.id)
    <3>1. CASE m.id \in Listed
      BY <2>4, <2>6, <3>1, ItemSays DEF GetAll
    <3>2. CASE m.id \notin Listed
      BY <1>1, <2>6, <3>2 DEF GetAll, Crash, Rests
    <3> QED
      BY <3>1, <3>2
  <2>7. CASE m.cmd = "set" /\ Set(m.id, m.prop, m.value)
    <3>1. m.prop \notin Announced /\ m.id \in Ids /\ m.prop \in Props
      BY <2>2, <2>7, Commands, EditableAssumption
    <3>2. UNCHANGED <<objects, down>>
      BY <2>7 DEF Set, WrappedPropertyChanged, Crash
    <3>3. row' = row \/ row' = [row EXCEPT ![m.id][m.prop] = m.value]
      BY <2>7 DEF Set, WrappedPropertyChanged, Crash
    <3>4. \A id \in Ids : row[id] \in [Props -> Values]
      BY <1>2 DEF FullRow
    <3>5. \A id \in Listed, p \in Announced : row'[id][p] = row[id][p]
      BY <1>2, <3>1, <3>3, <3>4, AnnouncedAssumption
    <3> QED
      BY <1>1, <3>2, <3>5 DEF Rests
  <2>8. CASE m.cmd = "connect" /\ Invoke(m.id)
    BY <1>1, <2>8 DEF Invoke, Crash, Rests
  <2>9. CASE m.cmd = "add" /\ \E id \in Ids : Add(id)
    BY <2>4, <2>9, AddSays
  <2>10. CASE m.cmd = "remove" /\ RemoveExternally(m.id)
    <3>1. CASE RemoveObject(m.id)
      <4>1. m.id \in Ids
        BY <2>2, <2>10, Commands
      <4> QED
        BY <2>4, <3>1, <4>1, RemoveSays
    <3>2. CASE UNCHANGED <<objects, mapping, row, registered, joined, down, crashed>>
      BY <1>1, <3>2 DEF Rests
    <3> QED
      BY <2>10, <3>1, <3>2 DEF RemoveExternally
  <2> QED
    BY <2>1, <2>5, <2>6, <2>7, <2>8, <2>9, <2>10 DEF ToClient, m
<1>4. CASE RegisterList
  BY <1>1, <1>4 DEF RegisterList, Rests
<1>5. CASE ListReady
  <2>1. Listening
    BY <1>1, <1>5 DEF ListReady, Listening
  <2> QED
    BY <1>5, <2>1, ItemsSay DEF ListReady
<1>6. ASSUME NEW u \in Users, Join(u)
      PROVE  Rests
  BY <1>1, <1>6 DEF Join, Rests
<1> QED
  BY <1>3, <1>4, <1>5, <1>6 DEF CoreStep

LEMMA StepKinds ==
  ASSUME ~OnlyIndex, TypeOK, ObjectsAreOnce, [Next]_vars
  PROVE  \/ Rests
         \/ \E m \in Announcement : Says(m)
         \/ \E u \in Users : Receive(u) \/ MirrorStep(u)
<1>1. CASE CoreStep
  BY <1>1, CoreStepKinds
<1>2. CASE PluginActs
  <2>1. /\ UNCHANGED <<rows, loaded, in, subscribed>>
        /\ \E id \in Ids :
             \/ Add(id)
             \/ RemoveObject(id)
             \/ \E p \in Announced, v \in Values : PropertyChanged(id, p, v)
    BY <1>2 DEF PluginActs, mirrorVars
  <2>2. UNCHANGED joined
    BY <2>1 DEF Add, RemoveObject, PropertyChanged
  <2>3. Listening
    BY <2>1, <2>2 DEF Listening
  <2> QED
    BY <2>1, <2>3, AddSays, RemoveSays, ChangeSays
<1>3. ASSUME NEW u \in Users, UserActs(u)
      PROVE  Rests
  BY <1>3 DEF UserActs, listVars, EmitMsg, Rests
<1>4. ASSUME NEW u \in Users, FromClient(u)
      PROVE  Rests
  BY <1>4 DEF FromClient, Rests
<1>5. CASE UNCHANGED vars
  BY <1>5 DEF vars, listVars, mirrorVars, Rests
<1> QED
  BY <1>1, <1>2, <1>3, <1>4, <1>5 DEF Next

(* What the list says reaches everybody who has got it. *)
LEMMA SaidToAll ==
  ASSUME TypeOK, Strangers, NEW m \in Announcement, Says(m), NEW u \in Users
  PROVE  \/ Way(u)' = Append(Way(u), m)
         \/ Way(u) = <<>> /\ Way(u)' = <<>> /\ DOMAIN rows[u] = {} /\ u \notin loaded
<1>1. UNCHANGED <<in, rows, loaded, subscribed, joined>>
  BY DEF Says, Listening
<1>2. down'[u] = IF u \in joined /\ registered # "no" THEN Append(down[u], m) ELSE down[u]
  BY DEF Says, Broadcast
<1>3. CASE u \in joined /\ registered # "no"
  <2> DEFINE s == in[u]
             t == down[u]
  <2>1. s \in Seq(Announcement) /\ t \in Seq(Announcement)
    BY WayTyped
  <2>2. in'[u] = s /\ down'[u] = Append(t, m)
    BY <1>1, <1>2, <1>3
  <2> HIDE DEF s, t
  <2>3. s \o Append(t, m) = Append(s \o t, m)
    BY <2>1, AppendedBeyond
  <2> QED
    BY <2>2, <2>3 DEF Way, s, t
<1>4. CASE ~(u \in joined /\ registered # "no")
  <2>1. Way(u)' = Way(u)
    BY <1>1, <1>2, <1>4 DEF Way
  <2> QED
    BY <1>4, <2>1 DEF Strangers
<1> QED
  BY <1>3, <1>4

(* An announcement that is passed on is still on its way; one that is      *)
(* dropped would have been for a user who has not got the list.            *)
LEMMA ReceiveMoves ==
  ASSUME TypeOK, Strangers, NEW u \in Users, Receive(u)
  PROVE  \A v \in Users :
           \/ Way(v)' = Way(v)
           \/ Way(v) # <<>> /\ Way(v)' = Tail(Way(v)) /\ v \notin loaded
<1>1. /\ \A v \in Users : v # u => Way(v)' = Way(v)
      /\ u \in subscribed => Way(u)' = Way(u)
      /\ u \notin subscribed => in' = in /\ down'[u] = Tail(down[u])
      /\ down[u] # <<>> /\ down[u] \in Seq(Announcement)
  BY ReceiveTyped, WayTyped DEF Receive
<1>2. CASE u \in subscribed
  BY <1>1, <1>2
<1>3. CASE u \notin subscribed
  <2>1. in[u] = <<>> /\ u \notin loaded
    BY <1>3 DEF Strangers
  <2>2. \A s \in Seq(Announcement) : <<>> \o s = s
    BY ConcatProperties
  <2>3. Way(u) = down[u] /\ Way(u)' = Tail(down[u])
    BY <1>1, <1>3, <2>1, <2>2, Elements DEF Way
  <2> QED
    BY <1>1, <2>1, <2>3
<1> QED
  BY <1>2, <1>3

LEMMA MirrorStepMoves ==
  ASSUME TypeOK, NEW u \in Users, MirrorStep(u)
  PROVE  /\ Way(u) # <<>> /\ Way(u)' = Tail(Way(u))
         /\ rows'[u] = Consumed(rows[u], Head(Way(u)))
         /\ Takes(rows'[u], rows[u], Head(Way(u)))
         /\ loaded' = IF Head(Way(u)).cmd = "items" THEN loaded \cup {u} ELSE loaded
         /\ \A v \in Users : v # u => Way(v)' = Way(v) /\ rows'[v] = rows[v]
         /\ UNCHANGED <<objects, row>>
<1> DEFINE m == Head(in[u])
<1>1. /\ UNCHANGED <<objects, row, down>>
      /\ in[u] # <<>> /\ Consume(u, m) /\ in' = [in EXCEPT ![u] = Tail(in[u])]
      /\ MirrorTypeOK /\ in \in [Users -> Seq(Announcement)]
  BY DEF MirrorStep, SocketDataReady, listVars, TypeOK, MirrorTypeOK
<1>2. in[u] \in Seq(Announcement) /\ down[u] \in Seq(Announcement) /\ m \in Announcement
  BY <1>1, WayTyped, Elements
<1>3. in'[u] = Tail(in[u]) /\ \A v \in Users : v # u => Way(v)' = Way(v)
  BY <1>1 DEF Way
<1>4. Way(u) # <<>> /\ Head(Way(u)) = m /\ Way(u)' = Tail(Way(u))
  <2> DEFINE s == in[u]
             t == down[u]
  <2>1. s \in Seq(Announcement) /\ t \in Seq(Announcement) /\ s # <<>>
    BY <1>1, <1>2
  <2>2. Way(u) = s \o t /\ Way(u)' = Tail(s) \o t
    BY <1>1, <1>3 DEF Way
  <2> HIDE DEF s, t
  <2>3. s \o t # <<>> /\ Head(s \o t) = Head(s) /\ Tail(s \o t) = Tail(s) \o t
    BY <2>1, HeadOfBoth
  <2> QED
    BY <2>2, <2>3 DEF s
<1>5. /\ rows'[u] = Consumed(rows[u], m) /\ Takes(rows'[u], rows[u], m)
      /\ \A v \in Users : v # u => rows'[v] = rows[v]
  BY <1>1, <1>2, Consumes, Zenon
<1>6. loaded' = IF m.cmd = "items" THEN loaded \cup {u} ELSE loaded
  BY <1>1 DEF Consume, ConsumeAdded, ConsumeRemoved, ConsumeChanged, ConsumeItem, ConsumeItems
<1> HIDE DEF m
<1> QED
  BY <1>1, <1>3, <1>4, <1>5, <1>6

LEMMA StepStaysWhole ==
  ASSUME ~OnlyIndex, TypeOK, TypeOK', ByIndex, RowsAreWhole, [Next]_vars
  PROVE  RowsAreWhole'
<1>1. ObjectsAreOnce /\ Strangers
  BY DEF ByIndex
<1> SUFFICES ASSUME NEW u \in Users, NEW id \in Ids
             PROVE  WholeRow(Way(u)', rows'[u], u \in loaded', id, id \in Listed')
  BY DEF RowsAreWhole
<1> DEFINE w == Way(u)
           r == rows[u]
           has == u \in loaded
           here == id \in Listed
<1>2. WholeRow(w, r, has, id, here)
  BY DEF RowsAreWhole
<1>3. CASE Rests
  <2>1. Way(u)' = Way(u) /\ rows'[u] = rows[u] /\ loaded' = loaded /\ Listed' = Listed
    BY <1>3 DEF Rests, Way, Listed
  <2> QED
    BY <1>2, <2>1
<1>4. ASSUME NEW m \in Announcement, Says(m)
      PROVE  WholeRow(Way(u)', rows'[u], u \in loaded', id, id \in Listed')
  <2> DEFINE here2 == id \in Listed'
  <2>1. rows' = rows /\ loaded' = loaded
    BY <1>4 DEF Says, Listening
  <2>2. CASE Way(u)' = Append(Way(u), m)
    <3>1. /\ here2 => here \/ Brings(m, id)
          /\ m.cmd = "items" /\ here2 => Brings(m, id)
      BY <1>4 DEF Says
    <3>2. w \in Seq(Announcement)
      BY WayTyped
    <3> HIDE DEF w, r, has, here, here2
    <3>3. WholeRow(Append(w, m), r, has, id, here2)
      BY <1>2, <3>1, <3>2, WholeAppend
    <3> QED
      BY <2>1, <2>2, <3>3 DEF w, r, has, here2
  <2>3. CASE Way(u)' = <<>> /\ u \notin loaded
    <3>1. DOMAIN <<>> = {}
      OBVIOUS
    <3> QED
      BY <2>1, <2>3, <3>1 DEF WholeRow
  <2> QED
    BY <1>1, <1>4, <2>2, <2>3, SaidToAll
<1>5. ASSUME NEW v \in Users, Receive(v)
      PROVE  WholeRow(Way(u)', rows'[u], u \in loaded', id, id \in Listed')
  <2>1. UNCHANGED <<objects, rows, loaded>>
    BY <1>5 DEF Receive
  <2>2. Listed' = Listed
    BY <2>1 DEF Listed
  <2>3. CASE Way(u)' = Way(u)
    BY <1>2, <2>1, <2>2, <2>3
  <2>4. CASE Way(u) # <<>> /\ Way(u)' = Tail(Way(u)) /\ u \notin loaded
    <3>1. w \in Seq(Announcement) /\ w # <<>> /\ ~has
      BY <2>4, WayTyped
    <3> HIDE DEF w, r, has, here
    <3>2. WholeRow(Tail(w), r, has, id, here)
      BY <1>2, <3>1, WholeTail
    <3> QED
      BY <2>1, <2>2, <2>4, <3>2 DEF w, r, has, here
  <2>5. \/ Way(u)' = Way(u)
        \/ Way(u) # <<>> /\ Way(u)' = Tail(Way(u)) /\ u \notin loaded
    BY <1>1, <1>5, ReceiveMoves
  <2> QED
    BY <2>3, <2>4, <2>5
<1>6. ASSUME NEW v \in Users, MirrorStep(v)
      PROVE  WholeRow(Way(u)', rows'[u], u \in loaded', id, id \in Listed')
  <2>1. Listed' = Listed
    BY <1>6 DEF MirrorStep, listVars, Listed
  <2>2. CASE v # u
    BY <1>2, <1>6, <2>1, <2>2, MirrorStepMoves
  <2>3. CASE v = u
    <3> DEFINE m == Head(w)
               q == rows'[u]
               has2 == u \in loaded'
    <3>1. /\ w \in Seq(Announcement) /\ w # <<>> /\ Way(u)' = Tail(w)
          /\ q = Consumed(r, m) /\ Takes(q, r, m)
          /\ has2 <=> has \/ m.cmd = "items"
      BY <1>6, <2>3, MirrorStepMoves, WayTyped
    <3>2. here => ~Removes(m, id)
      <4>1. Follows(w, r, id, here, id \in mapping, row[id])
        BY DEF ByIndex
      <4>2. 1 \in DOMAIN w /\ w[1] = m
        <5> HIDE DEF w
        <5> QED
          BY <3>1, HeadTailProperties, LenProperties, EmptySeq
      <4> HIDE DEF w, m, here
      <4> QED
        BY <4>1, <4>2 DEF Follows, RemovalLast
    <3> HIDE DEF w, r, m, q, has, has2, here
    <3>3. here => (Brings(m, id) \/ IsWhole(r, id) => IsWhole(q, id))
      <4>1. Brings(m, id) => Speaks(m, id)
        BY DEF Brings
      <4>2. here /\ (Brings(m, id) \/ IsWhole(r, id)) => id \in DOMAIN q
        BY <3>1, <3>2, <4>1 DEF Takes, IsWhole
      <4> QED
        BY <3>1, <4>2 DEF Takes
    <3>4. WholeRow(Tail(w), q, has2, id, here)
      BY <1>2, <3>1, <3>3, WholeTail DEF m
    <3> QED
      BY <2>1, <3>1, <3>4 DEF q, has2, here
  <2> QED
    BY <2>2, <2>3
<1> QED
  BY <1>1, <1>3, <1>4, <1>5, <1>6, StepKinds

LEMMA InitWhole == Init => RowsAreWhole
<1> SUFFICES ASSUME Init PROVE RowsAreWhole
  OBVIOUS
<1>1. objects = <<>> /\ DOMAIN <<>> = {}
  BY DEF Init, ListInit
<1>2. Listed = {}
  BY <1>1 DEF Listed, ToSet
<1> QED
  BY <1>2 DEF RowsAreWhole, WholeRow

(* What users see of the list, and are going to see. *)
ListNow == Visible([id \in Listed |-> row[id]])
ViewOf(u) == IF u \in loaded THEN Visible(rows[u]) ELSE Nothing
PendingOf(u) == IF u \in loaded THEN Views(rows[u], Way(u)) ELSE <<>>

(* The last of it is how the list is now. *)
LEMMA LatestIsNow ==
  ASSUME TypeOK, ByIndex, RowsAreWhole, NEW u \in Users, u \in loaded
  PROVE  Visible(Mirrors(rows[u], Way(u))[Len(Way(u))]) = ListNow
<1> DEFINE w == Way(u)
           r == rows[u]
           L == Listed
           K == mapping
           x == row
<1>1. w \in Seq(Announcement) /\ r \in Mirror /\ x \in [Ids -> FullRow]
  BY WayTyped DEF TypeOK, ListTypeOK, MirrorTypeOK
<1>2. L \in SUBSET Ids
  <2>1. objects \in Seq(Ids)
    BY DEF TypeOK, ListTypeOK
  <2> QED
    BY <2>1, Elements DEF Listed
<1>3. ASSUME NEW id \in Ids
      PROVE  Tracks(w, r, id, L, K, x)
  <2>1. Follows(w, r, id, id \in L, id \in K, x[id])
    BY DEF ByIndex
  <2>2. WholeRow(w, r, u \in loaded, id, id \in L)
    BY DEF RowsAreWhole
  <2> HIDE DEF w, r, L, K, x
  <2>3. WholeRow(w, r, TRUE, id, id \in L)
    BY <2>2 DEF WholeRow
  <2> QED
    BY <2>1, <2>3 DEF Tracks
<1> HIDE DEF w, r, L, K, x
<1>4. Visible(Mirrors(r, w)[Len(w)]) = Visible([id \in L |-> x[id]])
  BY <1>1, <1>2, <1>3, MirrorsEnd
<1> QED
  BY <1>4 DEF ListNow, w, r, L, x

NowIsLatest ==
  \A u \in Users : u \in loaded => Visible(Mirrors(rows[u], Way(u))[Len(Way(u))]) = ListNow

LEMMA LatestNext == TypeOK' /\ ByIndex' /\ RowsAreWhole' => NowIsLatest'
<1>1. TypeOK /\ ByIndex /\ RowsAreWhole => NowIsLatest
  BY LatestIsNow DEF NowIsLatest
<1> QED
  BY <1>1, PTL

LEMMA ListNowStays ==
  ASSUME TypeOK, TypeOK', UNCHANGED objects,
         \A id \in Listed, p \in Announced : row'[id][p] = row[id][p]
  PROVE  ListNow' = ListNow
<1>1. Listed' = Listed
  BY DEF Listed
<1>2. row \in [Ids -> FullRow] /\ row' \in [Ids -> FullRow] /\ Listed \subseteq Ids
  <2>1. objects \in Seq(Ids) /\ row \in [Ids -> FullRow] /\ row' \in [Ids -> FullRow]
    BY DEF TypeOK, ListTypeOK
  <2> QED
    BY <2>1, Elements DEF Listed
<1> DEFINE L == Listed
           x == row
           y == row'
           r == [id \in L |-> y[id]]
<1>3. /\ DOMAIN r = L
      /\ \A id \in L : r[id] = y[id]
      /\ \A id \in L : DOMAIN y[id] = Props /\ DOMAIN x[id] = Props
      /\ \A id \in L, p \in Announced : y[id][p] = x[id][p]
  BY <1>2 DEF FullRow
<1>4. ListNow = Visible([id \in L |-> x[id]]) /\ ListNow' = Visible(r)
  BY <1>1 DEF ListNow
<1> HIDE DEF L, x, y, r
<1>5. Visible(r) = Visible([id \in L |-> x[id]])
  BY <1>3, SameToUsers
<1> QED
  BY <1>4, <1>5

(* What each kind of step is to users. *)
LEMMA SaysAnnounces ==
  ASSUME TypeOK, Strangers, NowIsLatest', NEW m \in Announcement, Says(m)
  PROVE  Seen!Announce
<1>1. rows' = rows /\ loaded' = loaded
  BY DEF Says, Listening
<1>2. ASSUME NEW u \in Users
      PROVE  PendingOf(u)' = IF u \in loaded THEN Append(PendingOf(u), ListNow') ELSE PendingOf(u)
  <2>1. CASE u \notin loaded
    BY <1>1, <2>1 DEF PendingOf
  <2>2. CASE u \in loaded
    <3> DEFINE w == Way(u)
               r == rows[u]
    <3>1. Way(u)' = Append(w, m) /\ rows'[u] = r /\ w \in Seq(Announcement)
      BY <1>1, <2>2, SaidToAll, WayTyped
    <3>2. Visible(Mirrors(rows'[u], Way(u)')[Len(Way(u)')]) = ListNow'
      BY <1>1, <2>2 DEF NowIsLatest
    <3>3. PendingOf(u) = Views(r, w) /\ PendingOf(u)' = Views(rows'[u], Way(u)')
      BY <1>1, <2>2 DEF PendingOf
    <3> HIDE DEF w, r
    <3>4. Len(Append(w, m)) = Len(w) + 1
      BY <3>1, AppendProperties
    <3>5. Views(r, Append(w, m)) = Append(Views(r, w), Visible(Mirrors(r, Append(w, m))[Len(w) + 1]))
      BY <3>1, ViewsMore
    <3> QED
      BY <2>2, <3>1, <3>2, <3>3, <3>4, <3>5, Zenon
  <2> QED
    BY <2>1, <2>2
<1> QED
  BY <1>1, <1>2 DEF Seen!Announce, PendingOf, ListNow

LEMMA RestsShow ==
  ASSUME TypeOK, TypeOK', Rests
  PROVE  UNCHANGED Seen!vars
<1>1. rows' = rows /\ loaded' = loaded /\ \A u \in Users : Way(u)' = Way(u)
  BY DEF Rests, Way
<1>2. ListNow' = ListNow
  BY ListNowStays DEF Rests
<1>3. \A u \in Users : ViewOf(u)' = ViewOf(u) /\ PendingOf(u)' = PendingOf(u)
  BY <1>1 DEF ViewOf, PendingOf
<1> QED
  BY <1>1, <1>2, <1>3 DEF Seen!vars, ViewOf, PendingOf, ListNow

LEMMA ReceiveShows ==
  ASSUME TypeOK, TypeOK', Strangers, NEW u \in Users, Receive(u)
  PROVE  UNCHANGED Seen!vars
<1>1. UNCHANGED <<objects, row, rows, loaded>>
  BY DEF Receive
<1>2. ListNow' = ListNow
  BY <1>1, ListNowStays
<1>3. ASSUME NEW v \in Users
      PROVE  ViewOf(v)' = ViewOf(v) /\ PendingOf(v)' = PendingOf(v)
  <2>1. Way(v)' = Way(v) \/ v \notin loaded
    BY ReceiveMoves
  <2> QED
    BY <1>1, <2>1 DEF ViewOf, PendingOf
<1> QED
  BY <1>1, <1>2, <1>3 DEF Seen!vars, ViewOf, PendingOf, ListNow

LEMMA MirrorStepShows ==
  ASSUME TypeOK, TypeOK', NowIsLatest', NEW u \in Users, MirrorStep(u)
  PROVE  Seen!Know(u) \/ Seen!See(u) \/ UNCHANGED Seen!vars
<1> DEFINE w == Way(u)
           r == rows[u]
           q == rows'[u]
           m == Head(w)
<1>1. /\ w \in Seq(Announcement) /\ w # <<>> /\ Way(u)' = Tail(w)
      /\ q = Consumed(r, m)
      /\ loaded' = IF m.cmd = "items" THEN loaded \cup {u} ELSE loaded
      /\ \A v \in Users : v # u => Way(v)' = Way(v) /\ rows'[v] = rows[v]
      /\ UNCHANGED <<objects, row>>
  BY MirrorStepMoves, WayTyped
<1>2. ListNow' = ListNow
  BY <1>1, ListNowStays
<1>3. \A v \in Users : v # u => ViewOf(v)' = ViewOf(v) /\ PendingOf(v)' = PendingOf(v)
  BY <1>1 DEF ViewOf, PendingOf
<1>4. CASE u \in loaded
  <2>1. loaded' = loaded
    BY <1>1, <1>4
  <2>2. /\ PendingOf(u) = Views(r, w) /\ ViewOf(u)' = Visible(q)
        /\ PendingOf(u)' = Views(q, Tail(w))
    BY <1>1, <1>4, <2>1 DEF PendingOf, ViewOf
  <2> HIDE DEF w, r, q
  <2>3. Views(r, w) # <<>> /\ Head(Views(r, w)) = Visible(q) /\ Tail(Views(r, w)) = Views(q, Tail(w))
    BY <1>1, ViewsTail
  <2>4. PendingOf(u) # <<>> /\ ViewOf(u)' = Head(PendingOf(u)) /\ PendingOf(u)' = Tail(PendingOf(u))
    BY <2>2, <2>3
  <2>5. Seen!See(u)
    BY <1>2, <1>3, <1>4, <2>1, <2>4 DEF Seen!See, ViewOf, PendingOf, ListNow
  <2> QED
    BY <2>5
<1>5. CASE u \notin loaded /\ m.cmd = "items"
  <2>1. loaded' = loaded \cup {u} /\ u \in loaded'
    BY <1>1, <1>5
  <2>2. ViewOf(u)' = Visible(q) /\ PendingOf(u)' = Views(q, Tail(w))
    BY <1>1, <2>1 DEF PendingOf, ViewOf
  <2>3. Visible(Mirrors(q, Tail(w))[Len(Tail(w))]) = ListNow'
    BY <1>1, <2>1 DEF NowIsLatest
  <2> HIDE DEF w, q
  <2>4. Tail(w) \in Seq(Announcement)
    BY <1>1, HeadTailProperties
  <2>5. Seen!Latest(Visible(q), Views(q, Tail(w))) = Visible(Mirrors(q, Tail(w))[Len(Tail(w))])
    BY <2>4, LatestIs
  <2>6. Seen!Latest(ViewOf(u)', PendingOf(u)') = ListNow
    BY <1>2, <2>2, <2>3, <2>5
  <2>7. Seen!Know(u)
    BY <1>2, <1>3, <1>5, <2>1, <2>6 DEF Seen!Know, ViewOf, PendingOf, ListNow
  <2> QED
    BY <2>7
<1>6. CASE u \notin loaded /\ m.cmd # "items"
  <2>1. loaded' = loaded
    BY <1>1, <1>6
  <2>2. ViewOf(u)' = ViewOf(u) /\ PendingOf(u)' = PendingOf(u)
    BY <1>6, <2>1 DEF PendingOf, ViewOf
  <2> QED
    BY <1>2, <1>3, <2>1, <2>2 DEF Seen!vars, ViewOf, PendingOf, ListNow
<1> QED
  BY <1>4, <1>5, <1>6

LEMMA InitShows == Init => Seen!Init
<1>1. Init => loaded = {}
  BY DEF Init, MirrorInit
<1> QED
  BY <1>1 DEF Seen!Init

(* A step of the list and its mirrors is a step of what users see, or none *)
(* to them.                                                                *)
LEMMA StepShows ==
  ASSUME ~OnlyIndex, TypeOK, TypeOK', ByIndex, ByIndex', RowsAreWhole, RowsAreWhole',
         [Next]_vars
  PROVE  [Seen!Next]_(Seen!vars)
<1>1. ObjectsAreOnce /\ Strangers /\ NowIsLatest'
  BY LatestNext DEF ByIndex
<1>2. CASE Rests
  BY <1>2, RestsShow
<1>3. ASSUME NEW m \in Announcement, Says(m)
      PROVE  Seen!Next
  BY <1>1, <1>3, SaysAnnounces DEF Seen!Next
<1>4. ASSUME NEW u \in Users, Receive(u)
      PROVE  UNCHANGED Seen!vars
  BY <1>1, <1>4, ReceiveShows
<1>5. ASSUME NEW u \in Users, MirrorStep(u)
      PROVE  Seen!Next \/ UNCHANGED Seen!vars
  BY <1>1, <1>5, MirrorStepShows DEF Seen!Next
<1> QED
  BY <1>1, <1>2, <1>3, <1>4, <1>5, StepKinds

(* A list that is sent as whole rows implements MirroredList: what a user  *)
(* sees of it, once SyncedList has read an answer to "list", goes through  *)
(* the states that SyncableQObjectList announces one after the other, none *)
(* skipped, repeated or out of order, for any number of users, objects and *)
(* properties, and whatever is on its way up and down meanwhile.           *)
THEOREM ListIsMirrored == ASSUME ~OnlyIndex PROVE Spec => ImplementsMirroredList
<1>1. Init => TypeOK /\ ShownAreKnown /\ ByIndex /\ RowsAreWhole /\ Seen!Init
  BY InitTyped, InitFollows, InitWhole, InitShows
<1>2. TypeOK /\ ShownAreKnown /\ [Next]_vars => TypeOK' /\ ShownAreKnown'
  BY StepTyped
<1>3. TypeOK /\ ShownAreKnown /\ ByIndex /\ RowsAreWhole /\ [Next]_vars
        => ByIndex' /\ RowsAreWhole' /\ [Seen!Next]_(Seen!vars)
  <2> SUFFICES ASSUME TypeOK, ShownAreKnown, ByIndex, RowsAreWhole, [Next]_vars
               PROVE  ByIndex' /\ RowsAreWhole' /\ [Seen!Next]_(Seen!vars)
    OBVIOUS
  <2>1. TypeOK' /\ ByIndex'
    BY <1>2, StepFollows
  <2>2. RowsAreWhole'
    BY <2>1, StepStaysWhole
  <2> QED
    BY <2>1, <2>2, StepShows
<1> QED
  BY <1>1, <1>2, <1>3, PTL DEF Spec, ImplementsMirroredList, Seen!Spec
===============================================================================
