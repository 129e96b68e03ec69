------------------------------- MODULE ListSync -------------------------------
(***************************************************************************)
(* A synchronised list from end to end: one SyncableQObjectList of the     *)
(* core, mirrored by the SyncedList of every user over his TCP connection. *)
(* A user's packets are read by his TcpClientConnection, which keeps the   *)
(* subscription to itself and broadcasts the rest to the list; it passes   *)
(* on what the list broadcasts if it is subscribed at that moment.         *)
(***************************************************************************)
EXTENDS SyncableList, SyncedList

CONSTANTS
  UserCommands,   \* commands that the views send for this list
  PluginChanges,  \* what the plugin itself does to it: "add", "remove", "change"
  MaxChanges      \* bound on commands and changes other than adding

ASSUME ChangesAssumption ==
  /\ UserCommands \in SUBSET {"add", "remove", "set", "connect"}
  /\ PluginChanges \in SUBSET {"add", "remove", "change"}
  /\ MaxChanges \in Nat

VARIABLES
  subscribed,  \* the client connections whose m_channels has the list's
  adds,        \* how many objects have been asked for; bounded by Ids
  changes      \* how many other commands and changes there have been

vars == <<listVars, mirrorVars, subscribed, adds, changes>>

Init ==
  /\ ListInit
  /\ MirrorInit
  /\ subscribed = {}
  /\ adds = 0
  /\ changes = 0

Counted(cmd) ==
  \/ cmd = "add" /\ adds < Cardinality(Ids) /\ adds' = adds + 1 /\ UNCHANGED changes
  \/ cmd # "add" /\ changes < MaxChanges /\ changes' = changes + 1 /\ UNCHANGED adds

(* A user does something in a view. *)
UserActs(u) ==
  \E m \in Command :
    /\ m.cmd \in UserCommands
    /\ Allowed(u, m)
    /\ EmitMsg(u, m)
    /\ Counted(m.cmd)
    /\ UNCHANGED <<listVars, subscribed>>

(* The plugin changes its list, or an object changes. *)
PluginActs ==
  /\ ~crashed
  /\ \E id \in Ids :
       \/ "add" \in PluginChanges /\ Add(id) /\ Counted("add")
       \/ "remove" \in PluginChanges /\ RemoveObject(id) /\ Counted("remove")
       \/ /\ "change" \in PluginChanges
          /\ \E p \in Announced, v \in Values : PropertyChanged(id, p, v)
          /\ Counted("change")
  /\ UNCHANGED <<up, mirrorVars, subscribed>>

(* A packet of a user is read by his connection.  The plugin, which takes  *)
(* "add" and "remove", is registered before its list is.                   *)
Forwarded(u, m) ==
  u \in joined /\ (registered # "no" \/ m.cmd \in {"add", "remove"})

FromClient(u) ==
  /\ ~crashed
  /\ out[u] # <<>>
  /\ out' = [out EXCEPT ![u] = Tail(@)]
  /\ LET m == Head(out[u])
     IN \/ /\ m = Subscribe
           /\ subscribed' = subscribed \cup {u}
           /\ UNCHANGED up
        \/ /\ m # Subscribe
           /\ up' = IF Forwarded(u, m) THEN Append(up, m) ELSE up
           /\ UNCHANGED subscribed
  /\ UNCHANGED <<objects, mapping, row, registered, joined, down, crashed,
                 rows, indices, failed, loaded, in, adds, changes>>

(* A broadcast of the list is taken by the connection of a user. *)
Passes(u) == u \in subscribed

Receive(u) ==
  /\ ~crashed
  /\ down[u] # <<>>
  /\ down' = [down EXCEPT ![u] = Tail(@)]
  /\ in' = IF Passes(u) THEN [in EXCEPT ![u] = Append(@, Head(down[u]))] ELSE in
  /\ UNCHANGED <<objects, mapping, row, registered, joined, up, crashed,
                 rows, indices, failed, loaded, out, subscribed, adds, changes>>

CoreStep ==
  /\ ReceiveCommand \/ RegisterList \/ ListReady \/ \E u \in Users : Join(u)
  /\ UNCHANGED <<mirrorVars, subscribed, adds, changes>>

MirrorStep(u) ==
  /\ SocketDataReady(u)
  /\ UNCHANGED <<listVars, subscribed, adds, changes>>

Next ==
  \/ CoreStep
  \/ PluginActs
  \/ \E u \in Users : UserActs(u) \/ FromClient(u) \/ Receive(u) \/ MirrorStep(u)

Spec == Init /\ [][Next]_vars

(* Every queue is served, and registration is not put off for ever. *)
Fairness ==
  /\ WF_vars(CoreStep)
  /\ \A u \in Users : WF_vars(FromClient(u)) /\ WF_vars(Receive(u)) /\ WF_vars(MirrorStep(u))

FairSpec == Spec /\ Fairness

-------------------------------------------------------------------------------
TypeOK ==
  /\ ListTypeOK
  /\ MirrorTypeOK
  /\ subscribed \in SUBSET Users
  /\ adds \in Nat
  /\ changes \in Nat

Undisturbed(u) == u \in loaded /\ ~crashed /\ failed[u] = "no"
Fetching(u, id) == Get(id) \in ToSet(out[u]) \cup ToSet(up)

(* What is on its way to a mirror: an announcement that speaks of a row    *)
(* makes it, or removes it; one that tells a property of it sets that.     *)
Way(u) == in[u] \o down[u]
Entries(m) == {e.id : e \in ToSet(m.items)}
Speaks(m, id) ==
  \/ m.cmd = "items" /\ ~OnlyIndex /\ id \in Entries(m)
  \/ m.cmd # "items" /\ m.id = id
Removes(m, id) == m.cmd = "removed" /\ m.id = id
Tells(m, id, p) ==
  Speaks(m, id) /\ m.cmd # "removed" /\ (m.cmd = "changed" => m.prop = p)
Agrees(m, id, p) ==
  /\ m.cmd \in {"added", "item"} => m.row[p] = row[id][p]
  /\ m.cmd = "changed" => m.value = row[id][p]
  /\ m.cmd = "items" => \A e \in ToSet(m.items) : e.id = id => e.row[p] = row[id][p]

Spoken(u, id) == \E k \in DOMAIN Way(u) : Speaks(Way(u)[k], id)

(* A mirror knows nothing of what is gone, but for its removal, after      *)
(* which nothing more is said of it.                                       *)
Leaves(u, id) ==
  \/ id \notin DOMAIN rows[u] /\ ~Spoken(u, id)
  \/ \E k \in DOMAIN Way(u) :
       /\ Removes(Way(u)[k], id)
       /\ \A l \in DOMAIN Way(u) : l > k => ~Speaks(Way(u)[l], id)

Stays(u, id) ==
  /\ id \in DOMAIN rows[u] \/ Spoken(u, id)
  /\ \A k \in DOMAIN Way(u) : ~Removes(Way(u)[k], id)

(* The last that it hears of a property, if it has not heard it yet, is    *)
(* how that is now.                                                        *)
LastWordIsTrue(u, id, p) ==
  /\ \A k \in DOMAIN Way(u) :
       /\ Tells(Way(u)[k], id, p)
       /\ \A l \in DOMAIN Way(u) : l > k => ~Tells(Way(u)[l], id, p)
       => Agrees(Way(u)[k], id, p)
  /\ (\A k \in DOMAIN Way(u) : ~Tells(Way(u)[k], id, p)) =>
       (id \in DOMAIN rows[u] => (p \in DOMAIN rows[u][id] => rows[u][id][p] = row[id][p]))

(* The mirror of a user who has been answered, together with what is on    *)
(* its way, is the list: nothing that is gone stays, nothing stale is left *)
(* of what the list announces, and what is missing is being fetched.       *)
(* Subscription, registration, the answer to "list", announcements made    *)
(* meanwhile and other users' requests may come in any order.              *)
MirrorCatchesUp ==
  \A u \in Users : Undisturbed(u) => \A id \in Ids :
    /\ id \notin Listed => Leaves(u, id)
    /\ id \in Listed => Stays(u, id) \/ Fetching(u, id)
    /\ id \in Listed => \A p \in Announced : LastWordIsTrue(u, id, p)

(* What makes it inductive: a connection that is not subscribed has no     *)
(* mirror, and nothing is said to one that has not joined (Strangers);     *)
(* an object is listed once (ObjectsAreOnce); nothing is ever said of an    *)
(* index that the list has not had, and a removal is the last word about   *)
(* one that it has no more (RemovalIsLast, WhatIsGoneLeaves); what comes   *)
(* after the answer to "list" makes up for what that does not have         *)
(* (ItemsAreWhole).                                                        *)
ObjectsAreOnce == Listed \subseteq mapping /\ IsInjective(objects)
Strangers ==
  \A u \in Users :
    /\ u \notin subscribed => in[u] = <<>> /\ DOMAIN rows[u] = {} /\ u \notin loaded
    /\ Way(u) # <<>> \/ DOMAIN rows[u] # {} \/ u \in loaded => u \in joined /\ registered # "no"
RemovalIsLast ==
  \A u \in Users, id \in Ids :
    /\ id \in DOMAIN rows[u] \/ Spoken(u, id) => id \in mapping
    /\ \A k \in DOMAIN Way(u) : Removes(Way(u)[k], id) =>
         id \notin Listed /\ \A l \in DOMAIN Way(u) : l > k => ~Speaks(Way(u)[l], id)
WhatIsGoneLeaves ==
  \A u \in Users, id \in Ids : id \notin Listed /\ (id \in DOMAIN rows[u] \/ Spoken(u, id)) =>
    \E k \in DOMAIN Way(u) : Removes(Way(u)[k], id)
WordsAreTrue ==
  \A u \in Users, id \in Ids, p \in Announced : id \in Listed => LastWordIsTrue(u, id, p)
ItemsAreWhole ==
  \A u \in Users : \A k \in DOMAIN Way(u) : Way(u)[k].cmd = "items" =>
    \A id \in Listed :
      \/ id \in Entries(Way(u)[k])
      \/ \E l \in DOMAIN Way(u) : l > k /\ Speaks(Way(u)[l], id)
LoadedIsWhole ==
  \A u \in loaded, id \in Listed :
    id \in DOMAIN rows[u] \/ Spoken(u, id) \/ Fetching(u, id)
MirrorInv ==
  /\ ObjectsAreOnce /\ Strangers /\ RemovalIsLast /\ WhatIsGoneLeaves
  /\ WordsAreTrue /\ ItemsAreWhole /\ LoadedIsWhole

(* The model shows rows that the mirror has, although it is told of them   *)
(* by signals: data() of a shown index always finds its row, and no row is *)
(* added twice (SyncedList.cpp:242, Q_ASSERT(!m_indices.contains(id))).    *)
ShownAreKnown ==
  \A u \in Users :
    /\ failed[u] = "no" => indices[u] \subseteq DOMAIN rows[u]
    /\ failed[u] # "added"

(* What the mirror of a user will hold when it has consumed what is on the *)
(* way to it.                                                              *)
Consumed(r, m) ==
  LET ids == {e.id : e \in ToSet(m.items)}
      rowOf(i) == (CHOOSE e \in ToSet(m.items) : e.id = i).row
  IN CASE m.cmd \in {"added", "item"} -> Put(r, m.id, m.row)
       [] m.cmd = "removed" -> Drop(r, m.id)
       [] m.cmd = "changed" ->
            Put(r, m.id, Put(IF m.id \in DOMAIN r THEN r[m.id] ELSE Nothing, m.prop, m.value))
       [] m.cmd = "items" ->
            IF OnlyIndex THEN r
            ELSE [i \in DOMAIN r \cup ids |-> IF i \in ids THEN rowOf(i) ELSE r[i]]

(* A user of a list that is sent as whole rows sees nothing but states     *)
(* that the list has been in, in their order, once he has been answered;   *)
(* that is, of the properties whose changes are announced.                 *)
Visible(r) == [id \in DOMAIN r |-> [p \in DOMAIN r[id] \cap Announced |-> r[id][p]]]

(* What a mirror that holds r will hold after each of the announcements w. *)
Mirrors(r, w) ==
  LET after[i \in 0..Len(w)] == IF i = 0 THEN r ELSE Consumed(after[i - 1], w[i])
  IN  after
Views(r, w) ==
  LET after == Mirrors(r, w)
  IN  [i \in DOMAIN w |-> Visible(after[i])]

Seen == INSTANCE MirroredList WITH
  list <- Visible([id \in Listed |-> row[id]]),
  known <- loaded,
  view <- [u \in Users |-> IF u \in loaded THEN Visible(rows[u]) ELSE Nothing],
  pending <- [u \in Users |-> IF u \in loaded THEN Views(rows[u], Way(u)) ELSE <<>>]
ImplementsMirroredList == Seen!Spec

(* Everybody who is registered by the time the list is gets the whole list *)
(* in the end, without asking again.                                       *)
EverybodyLoads ==
  \A u \in Users : (u \in joined /\ u \in subscribed /\ registered = "no") ~>
    (u \in loaded /\ Listed \subseteq DOMAIN rows[u]) \/ crashed \/ failed[u] # "no"
===============================================================================
