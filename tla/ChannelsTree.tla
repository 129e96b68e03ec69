----------------------------- MODULE ChannelsTree -----------------------------
(***************************************************************************)
(* A client's tree of channels: the SyncedList on "chat:channels" and the  *)
(* ChannelsModel that its signals keep.  A channel whose parent is not     *)
(* there yet becomes a root and is parked until the parent comes.          *)
(*                                                                         *)
(* The names that nodes show are left out: changed() tells views that a    *)
(* name is new, but a node keeps the one it was added with.                *)
(***************************************************************************)
EXTENDS Naturals, Sequences, SequencesExt, Queues

VARIABLES
  known,    \* m_rows of the mirror: parent of each channel it has a row of
  nodes,    \* m_channels: [parent, children] of each Channel
  roots,    \* m_rootChannels
  parked,   \* m_channelsWithoutParents, never cleared
  treeFault \* "" or what an assertion denies or a null pointer does

treeVars == <<known, nodes, roots, parked, treeFault>>

Nothing == [x \in {} |-> x]
NoParent == 0 \* the empty parent

TreeInit ==
  /\ known = Nothing
  /\ nodes = Nothing
  /\ roots = <<>>
  /\ parked = Nothing
  /\ treeFault = ""

(* The tree as one value, for operators that handle one row after another. *)
Tree == [known |-> known, nodes |-> nodes, roots |-> roots, parked |-> parked,
         fault |-> treeFault]

Becomes(t) ==
  /\ known' = t.known
  /\ nodes' = t.nodes
  /\ roots' = t.roots
  /\ parked' = t.parked
  /\ treeFault' = t.fault

Put(f, x, v) == [y \in DOMAIN f \cup {x} |-> IF y = x THEN v ELSE f[y]]
Drop(f, x) == [y \in DOMAIN f \ {x} |-> f[y]]
At(f, x) == IF x \in DOMAIN f THEN f[x] ELSE <<>>

Faulty(t, what) == [t EXCEPT !.fault = what]

-----------------------------------------------------------------------------
(* The slots of ChannelsModel. *)

Node(p) == [parent |-> p, children |-> <<>>]

(* Mutant: nobody waits for a parent that is not there yet. *)
PlacedForGood(t, id) ==
  LET parent == t.known[id]
  IN  IF parent \in DOMAIN t.nodes
      THEN [t EXCEPT !.nodes = Put([t.nodes EXCEPT ![parent].children = Append(@, id)],
                                   id, Node(parent))]
      ELSE [t EXCEPT !.nodes = Put(@, id, Node(NoParent)), !.roots = Append(@, id)]

(* Mutant: a channel that has no parent waits for one. *)
PlacedParked(t, id) ==
  LET parent == t.known[id]
  IN  IF parent \in DOMAIN t.nodes
      THEN [t EXCEPT !.nodes = Put([t.nodes EXCEPT ![parent].children = Append(@, id)],
                                   id, Node(parent))]
      ELSE [t EXCEPT !.nodes = Put(@, id, Node(NoParent)),
                     !.roots = Append(@, id),
                     !.parked = Put(@, parent, Append(At(@, parent), id))]

(* A new node below its parent, or a root that waits for one. *)
Placed(t, id) ==
  LET parent == t.known[id]
  IN  IF parent \in DOMAIN t.nodes
      THEN [t EXCEPT !.nodes = Put([t.nodes EXCEPT ![parent].children = Append(@, id)],
                                   id, Node(parent))]
      ELSE [t EXCEPT !.nodes = Put(@, id, Node(NoParent)),
                     !.roots = Append(@, id),
                     !.parked = IF parent = NoParent THEN @
                                ELSE Put(@, parent, Append(At(@, parent), id))]

(* Mutant: the adopted stay among the roots. *)
AdoptedTwice(t, id) ==
  LET orphans == At(t.parked, id)
  IN  [t EXCEPT !.nodes = [n \in DOMAIN t.nodes |->
                            IF n = id THEN [t.nodes[n] EXCEPT !.children = @ \o orphans]
                            ELSE IF Contains(orphans, n) THEN [t.nodes[n] EXCEPT !.parent = id]
                            ELSE t.nodes[n]]]

(* The channels that were parked for it move below it, in the order in     *)
(* which they came.                                                        *)
Adopted(t, id) ==
  LET orphans == At(t.parked, id)
  IN  IF \E i \in DOMAIN orphans : orphans[i] \notin DOMAIN t.nodes
      THEN Faulty(t, "deleted channel")
      ELSE [t EXCEPT !.nodes = [n \in DOMAIN t.nodes |->
                                 IF n = id THEN [t.nodes[n] EXCEPT !.children = @ \o orphans]
                                 ELSE IF Contains(orphans, n) THEN [t.nodes[n] EXCEPT !.parent = id]
                                 ELSE t.nodes[n]],
                     !.roots = RemoveAll(@, Range(orphans))]

Added(t, id) == Adopted(Placed(t, id), id)

(* A failed assertion or a null pointer ends the client. *)
Removed(t, id) ==
  LET parent == t.nodes[id].parent
  IN  IF id \notin DOMAIN t.nodes THEN Faulty(t, "unknown channel")
      ELSE IF parent = NoParent THEN Faulty(t, "root removed")
      ELSE IF parent \notin DOMAIN t.nodes THEN Faulty(t, "deleted parent")
      ELSE [t EXCEPT !.nodes = Drop([t.nodes EXCEPT ![parent].children = RemoveAll(@, {id})], id)]

-----------------------------------------------------------------------------
(* SyncedList::consume, of the announcements that a list of channels makes. *)

OnRemoved(t, id) ==
  IF id \notin DOMAIN t.known THEN t
  ELSE [Removed(t, id) EXCEPT !.known = Drop(@, id)]

OnItem(t, row) ==
  IF row.id \in DOMAIN t.known
  THEN [t EXCEPT !.known = Put(@, row.id, row.parent)]
  ELSE Added([t EXCEPT !.known = Put(@, row.id, row.parent)], row.id)

OnAdded(t, row) ==
  LET clean == IF row.id \in DOMAIN t.known THEN Removed(t, row.id) ELSE t
  IN  Added([clean EXCEPT !.known = Put(@, row.id, row.parent)], row.id)

(* addOrUpdate for each row in turn. *)
OnItems(t, rows) ==
  LET after[n \in 0..Len(rows)] == IF n = 0 THEN t ELSE OnItem(after[n - 1], rows[n])
  IN  after[Len(rows)]

Consumed(t, m) ==
  CASE m.cmd = "added" -> OnAdded(t, m.row)
    [] m.cmd = "removed" -> OnRemoved(t, m.id)
    [] m.cmd = "items" -> OnItems(t, m.rows)

-----------------------------------------------------------------------------
(* What views ask of the model.  Rows count from 1 here, and 0 is an       *)
(* invalid row; NoParent stands for the invalid index.                     *)

ChildrenOf(p) == IF p = NoParent THEN roots ELSE nodes[p].children

RowCount(p) == Len(ChildrenOf(p))

Index(row, p) == IF row \in 1..RowCount(p) THEN ChildrenOf(p)[row] ELSE NoParent

Parent(n) == nodes[n].parent

(* index() of a Channel. *)
RowOf(n) == SelectInSeq(ChildrenOf(Parent(n)), LAMBDA c : c = n)

(* The model's answers agree, as views need it: index(), parent() and      *)
(* rowCount() walk the pointers, and a node is at one place in the tree,   *)
(* the one that its parent() and its row name.  The mirror has a row of    *)
(* every node.  m_channelsWithoutParents is never cleared, yet nothing in  *)
(* it that may still be adopted has been deleted: whoever waits for an     *)
(* absent parent is a root.  Nor is a deleted channel anybody's parent: no *)
(* removal meets a fault but that of a root (ChannelsModel::added,         *)
(* removed).                                                               *)
TreeIsSound ==
  /\ treeFault \in {"", "root removed"}
  /\ treeFault = "" =>
       /\ DOMAIN nodes = DOMAIN known
       /\ \A n \in DOMAIN nodes : Index(RowOf(n), Parent(n)) = n
       /\ \A p \in DOMAIN nodes \cup {NoParent} : \A row \in 1..RowCount(p) :
            LET n == Index(row, p)
            IN  n \in DOMAIN nodes /\ Parent(n) = p /\ RowOf(n) = row
       /\ \A p \in DOMAIN parked \ DOMAIN nodes : \A i \in DOMAIN parked[p] :
            parked[p][i] \in DOMAIN nodes /\ nodes[parked[p][i]].parent = NoParent
===============================================================================
