----------------------------- MODULE ListMessages -----------------------------
(***************************************************************************)
(* What the two ends of a synchronised list say to each other: commands    *)
(* from a client's SyncedList to the core's SyncableQObjectList, and       *)
(* announcements back.  Both travel over one bus channel.                  *)
(***************************************************************************)
EXTENDS Naturals, SequencesExt

CONSTANTS
  Users,     \* clients, each with a SyncedListModel of the list
  Ids,       \* indices: the UUIDs of the listed objects
  Props,     \* external properties of the objects, other than the index
  Values,    \* values of a property
  Announced, \* properties whose notify signal leads to a "changed"
  NewRow,    \* the properties of an object that has just been made
  Editable,  \* properties that views let users edit
  OnlyIndex  \* the ListOnlyIndex flag: "items" carries indices, not rows

ASSUME AnnouncedAssumption == Announced \in SUBSET Props
(* What users edit of an IRC server belongs to the IrcConnection that it   *)
(* wraps, whose changes are not announced.                                 *)
ASSUME EditableAssumption == Editable \in SUBSET (Props \ Announced)
ASSUME OnlyIndexAssumption == OnlyIndex \in BOOLEAN

FullRow == [Props -> Values]
Row == UNION {[P -> Values] : P \in SUBSET Props}
ASSUME NewRowAssumption == NewRow \in FullRow

Mirror == UNION {[I -> Row] : I \in SUBSET Ids}

Command ==
  [cmd : {"subscribe", "list", "add"}]
    \cup [cmd : {"get", "remove", "connect"}, id : Ids]
    \cup [cmd : {"set"}, id : Ids, prop : Editable, value : Values]

(* An entry of "items" is an index, with the row unless OnlyIndex. *)
Entry == IF OnlyIndex THEN [id : Ids] ELSE [id : Ids, row : FullRow]

Announcement ==
  [cmd : {"added", "item"}, id : Ids, row : FullRow]
    \cup [cmd : {"removed"}, id : Ids]
    \cup [cmd : {"changed"}, id : Ids, prop : Props, value : Values]
    \cup [cmd : {"items"}, items : Seq(Entry)]

Subscribe == [cmd |-> "subscribe"]
List == [cmd |-> "list"]
Get(id) == [cmd |-> "get", id |-> id]

(* The function with no arguments: no rows, a row with no properties. *)
Nothing == [x \in {} |-> x]
===============================================================================
