--------------------------- MODULE ChannelsViewProofs ---------------------------
(***************************************************************************)
(* The tree of channels of a client, whatever the lists announce.          *)
(*                                                                         *)
(* That no pointer of the tree leads to a deleted channel is not inductive *)
(* by itself: a parent must not be removed while it has children.  It is   *)
(* not, because only hosts' channels are parents, because lists never      *)
(* remove those, and because an id that has been a host's channel is never *)
(* another's, on any server, in the file, or in an announcement that is    *)
(* still on its way.  F below is the set of these ids.                     *)
(*                                                                         *)
(* That a client catches up needs what is still to be heard of a channel:  *)
(* the mirror and the announcements that the client has not taken yet are  *)
(* one history, in which each channel's last word agrees with its list.    *)
(***************************************************************************)
EXTENDS ChannelsView, IrcServersProofs

NodeType == [parent : Ids \cup {NoParent}, children : Seq(Ids)]

Parts == {"known", "nodes", "roots", "parked", "fault"}

NoFault == ""
RootRemoved == "root removed"

TreeTyped(t) ==
  /\ DOMAIN t = Parts
  /\ DOMAIN t.known \subseteq Ids /\ t.known \in [DOMAIN t.known -> Ids \cup {NoParent}]
  /\ DOMAIN t.nodes \subseteq Ids /\ t.nodes \in [DOMAIN t.nodes -> NodeType]
  /\ t.roots \in Seq(Ids)
  /\ DOMAIN t.parked \subseteq Ids /\ t.parked \in [DOMAIN t.parked -> Seq(Ids)]
  /\ t.fault \in {NoFault, RootRemoved}

KidsOf(t, p) == IF p = NoParent THEN t.roots ELSE t.nodes[p].children

(* Each node is once in the list of its parent, and in no other. *)
Listing(t) ==
  \A p \in DOMAIN t.nodes \cup {NoParent} :
    /\ IsInjective(KidsOf(t, p))
    /\ \A n : n \in Range(KidsOf(t, p)) <=> n \in DOMAIN t.nodes /\ t.nodes[n].parent = p

(* Only channels of hosts, which stay, are parents or waited for; who      *)
(* waits is a root, and waits once.                                        *)
Waiting(t, F) ==
  /\ \A n \in DOMAIN t.nodes : t.nodes[n].parent \in (DOMAIN t.nodes \cap F) \cup {NoParent}
  /\ DOMAIN t.parked \subseteq F
  /\ \A p \in DOMAIN t.parked \ DOMAIN t.nodes :
       /\ IsInjective(t.parked[p])
       /\ \A n \in Range(t.parked[p]) : n \in DOMAIN t.nodes /\ t.nodes[n].parent = NoParent
  /\ \A p, q \in DOMAIN t.parked \ DOMAIN t.nodes :
       p # q => Range(t.parked[p]) \cap Range(t.parked[q]) = {}

LEMMA Faults == NoFault # RootRemoved
BY DEF NoFault, RootRemoved

-----------------------------------------------------------------------------
(* Maps and the members of a tree.                                         *)

LEMMA PutTyped ==
  ASSUME NEW S, NEW T, NEW f, DOMAIN f \subseteq S, f \in [DOMAIN f -> T], NEW x \in S, NEW v \in T
  PROVE  DOMAIN Put(f, x, v) \subseteq S /\ Put(f, x, v) \in [DOMAIN Put(f, x, v) -> T]
BY DEF Put

(* The tree u is t with id placed below q. *)
WithPlaced(t, id, q, u) ==
  /\ DOMAIN u = Parts /\ u.known = t.known /\ u.fault = t.fault
  /\ q \in DOMAIN t.nodes =>
       /\ u.nodes = Put([t.nodes EXCEPT ![q].children = Append(t.nodes[q].children, id)], id, Node(q))
       /\ u.roots = t.roots /\ u.parked = t.parked
  /\ q \notin DOMAIN t.nodes =>
       /\ u.nodes = Put(t.nodes, id, Node(NoParent))
       /\ u.roots = Append(t.roots, id)
       /\ u.parked = IF q = NoParent THEN t.parked
                     ELSE Put(t.parked, q, Append(At(t.parked, q), id))

LEMMA PlacedParts ==
  ASSUME NEW t, DOMAIN t = Parts, NEW id
  PROVE  WithPlaced(t, id, t.known[id], Placed(t, id))
<1> DEFINE u == Placed(t, id)
           q == t.known[id]
           n1 == Put([t.nodes EXCEPT ![q].children = Append(t.nodes[q].children, id)], id, Node(q))
           n2 == Put(t.nodes, id, Node(NoParent))
           r == Append(t.roots, id)
           w == IF q = NoParent THEN t.parked ELSE Put(t.parked, q, Append(At(t.parked, q), id))
<1>1. /\ q \in DOMAIN t.nodes => u = [t EXCEPT !.nodes = n1]
      /\ q \notin DOMAIN t.nodes => u = [t EXCEPT !.nodes = n2, !.roots = r, !.parked = w]
  BY Zenon DEF Placed, Node
<1> HIDE DEF u, q, n1, n2, r, w
<1>2. /\ DOMAIN u = Parts /\ u.known = t.known /\ u.fault = t.fault
      /\ q \in DOMAIN t.nodes => u.nodes = n1 /\ u.roots = t.roots /\ u.parked = t.parked
      /\ q \notin DOMAIN t.nodes => u.nodes = n2 /\ u.roots = r /\ u.parked = w
  BY <1>1 DEF Parts
<1> QED
  BY <1>2, Zenon DEF WithPlaced, u, q, n1, n2, r, w

LEMMA AdoptedParts ==
  ASSUME NEW t, DOMAIN t = Parts, NEW id,
         \A i \in DOMAIN At(t.parked, id) : At(t.parked, id)[i] \in DOMAIN t.nodes
  PROVE  LET u == Adopted(t, id)
             o == At(t.parked, id)
         IN  /\ DOMAIN u = Parts /\ u.known = t.known /\ u.fault = t.fault /\ u.parked = t.parked
             /\ u.nodes = [n \in DOMAIN t.nodes |->
                            IF n = id THEN [t.nodes[n] EXCEPT !.children = t.nodes[n].children \o o]
                            ELSE IF Contains(o, n) THEN [t.nodes[n] EXCEPT !.parent = id]
                            ELSE t.nodes[n]]
             /\ u.roots = RemoveAll(t.roots, Range(o))
<1> DEFINE u == Adopted(t, id)
           o == At(t.parked, id)
           n1 == [n \in DOMAIN t.nodes |->
                   IF n = id THEN [t.nodes[n] EXCEPT !.children = t.nodes[n].children \o o]
                   ELSE IF Contains(o, n) THEN [t.nodes[n] EXCEPT !.parent = id]
                   ELSE t.nodes[n]]
           r == RemoveAll(t.roots, Range(o))
<1>1. u = [t EXCEPT !.nodes = n1, !.roots = r]
  BY Zenon DEF Adopted
<1> HIDE DEF u, o, n1, r
<1>2. /\ DOMAIN u = Parts /\ u.known = t.known /\ u.fault = t.fault /\ u.parked = t.parked
      /\ u.nodes = n1 /\ u.roots = r
  BY <1>1 DEF Parts
<1> QED
  BY <1>2, Zenon DEF u, o, n1, r

LEMMA RemovedParts ==
  ASSUME NEW t, DOMAIN t = Parts, NEW id \in DOMAIN t.nodes,
         t.nodes[id].parent # NoParent => t.nodes[id].parent \in DOMAIN t.nodes
  PROVE  LET u == Removed(t, id)
             p == t.nodes[id].parent
         IN  /\ DOMAIN u = Parts /\ u.known = t.known /\ u.roots = t.roots /\ u.parked = t.parked
             /\ p = NoParent => u.nodes = t.nodes /\ u.fault = RootRemoved
             /\ p # NoParent =>
                  /\ u.fault = t.fault
                  /\ u.nodes = Drop([t.nodes EXCEPT ![p].children = RemoveAll(t.nodes[p].children, {id})], id)
<1> DEFINE u == Removed(t, id)
           p == t.nodes[id].parent
           n1 == Drop([t.nodes EXCEPT ![p].children = RemoveAll(t.nodes[p].children, {id})], id)
<1>1. /\ p = NoParent => u = [t EXCEPT !.fault = RootRemoved]
      /\ p # NoParent => u = [t EXCEPT !.nodes = n1]
  BY Zenon DEF Removed, Faulty, RootRemoved
<1> HIDE DEF u, p, n1
<1>2. /\ DOMAIN u = Parts /\ u.known = t.known /\ u.roots = t.roots /\ u.parked = t.parked
      /\ p = NoParent => u.nodes = t.nodes /\ u.fault = RootRemoved
      /\ p # NoParent => u.fault = t.fault /\ u.nodes = n1
  BY <1>1 DEF Parts
<1> QED
  BY <1>2, Zenon DEF u, p, n1

LEMMA NodesAreNodes ==
  ASSUME NEW n, n \in NodeType
  PROVE  /\ DOMAIN n = {"parent", "children"}
         /\ n.parent \in Ids \cup {NoParent} /\ n.children \in Seq(Ids)
BY DEF NodeType

LEMMA NoParentIsNoId == NoParent \notin Ids
BY BoundsAssumption DEF NoParent, Ids

LEMMA AtTyped ==
  ASSUME NEW S, NEW T, NEW f, DOMAIN f \subseteq S, f \in [DOMAIN f -> Seq(T)], NEW x
  PROVE  At(f, x) \in Seq(T)
BY DEF At

(* What a channel that is placed changes. *)
LEMMA PlacedNodes ==
  ASSUME NEW t, TreeTyped(t), NEW id \in Ids, id \in DOMAIN t.known, t.known[id] # id
  PROVE  LET u == Placed(t, id)
             q == IF t.known[id] \in DOMAIN t.nodes THEN t.known[id] ELSE NoParent
         IN  /\ TreeTyped(u) /\ u.known = t.known /\ u.fault = t.fault
             /\ DOMAIN u.nodes = DOMAIN t.nodes \cup {id}
             /\ u.nodes[id].parent = q /\ u.nodes[id].children = <<>>
             /\ \A x \in DOMAIN t.nodes : x # id => u.nodes[x].parent = t.nodes[x].parent
             /\ \A x \in (DOMAIN t.nodes \ {id}) \cup {NoParent} :
                  KidsOf(u, x) = IF x = q THEN Append(KidsOf(t, x), id) ELSE KidsOf(t, x)
             /\ u.parked = IF t.known[id] \in DOMAIN t.nodes \cup {NoParent} THEN t.parked
                           ELSE Put(t.parked, t.known[id], Append(At(t.parked, t.known[id]), id))
<1> DEFINE u == Placed(t, id)
           k == t.known[id]
           ns == t.nodes
           c == Append(ns[k].children, id)
           q == IF k \in DOMAIN ns THEN k ELSE NoParent
<1>1. /\ DOMAIN t = Parts
      /\ DOMAIN t.known \subseteq Ids /\ t.known \in [DOMAIN t.known -> Ids \cup {NoParent}]
      /\ DOMAIN ns \subseteq Ids /\ ns \in [DOMAIN ns -> NodeType]
      /\ t.roots \in Seq(Ids)
      /\ DOMAIN t.parked \subseteq Ids /\ t.parked \in [DOMAIN t.parked -> Seq(Ids)]
      /\ t.fault \in {NoFault, RootRemoved}
  BY Zenon DEF TreeTyped
<1>2. /\ DOMAIN u = Parts /\ u.known = t.known /\ u.fault = t.fault
      /\ k \in DOMAIN ns => /\ u.nodes = Put([ns EXCEPT ![k].children = c], id, Node(k))
                            /\ u.roots = t.roots /\ u.parked = t.parked
      /\ k \notin DOMAIN ns => /\ u.nodes = Put(ns, id, Node(NoParent))
                               /\ u.roots = Append(t.roots, id)
                               /\ u.parked = IF k = NoParent THEN t.parked
                                             ELSE Put(t.parked, k, Append(At(t.parked, k), id))
  <2>1. DOMAIN t = Parts
    BY <1>1
  <2>2. WithPlaced(t, id, k, u)
    BY <2>1, PlacedParts
  <2> HIDE DEF u, k, ns
  <2> QED
    BY <2>2, Zenon DEF WithPlaced, ns
<1>3. k \in Ids \cup {NoParent} /\ NoParent \notin Ids
  BY <1>1, NoParentIsNoId
<1>4. ASSUME NEW p \in Ids \cup {NoParent}
      PROVE  Node(p) \in NodeType /\ Node(p).parent = p /\ Node(p).children = <<>>
  BY DEF Node, NodeType
<1> HIDE DEF u, ns
<1>5. CASE k \in DOMAIN ns
  <2> DEFINE m == [ns EXCEPT ![k].children = c]
  <2>1. /\ DOMAIN ns[k] = {"parent", "children"}
        /\ ns[k].parent \in Ids \cup {NoParent} /\ ns[k].children \in Seq(Ids)
    BY <1>1, <1>5, NodesAreNodes
  <2>2. c \in Seq(Ids)
    BY <2>1, AppendProperties
  <2> HIDE DEF c
  <2>3. /\ DOMAIN m = DOMAIN ns
        /\ m[k].parent = ns[k].parent /\ m[k].children = c
        /\ \A x \in DOMAIN ns : x # k => m[x] = ns[x]
    BY <1>5, <2>1
  <2>4. m[k] \in NodeType
    BY <1>5, <2>1, <2>2 DEF NodeType
  <2>5. m \in [DOMAIN m -> NodeType]
    BY <1>1, <2>3, <2>4
  <2> HIDE DEF m
  <2>6. /\ DOMAIN u.nodes = DOMAIN ns \cup {id}
        /\ u.nodes[id] = Node(k)
        /\ \A y \in DOMAIN m : y # id => u.nodes[y] = m[y]
        /\ DOMAIN u.nodes \subseteq Ids /\ u.nodes \in [DOMAIN u.nodes -> NodeType]
    <3>1. u.nodes = Put(m, id, Node(k))
      BY <1>2, <1>5 DEF m, c
    <3>2. Node(k) \in NodeType
      BY <1>3, <1>4
    <3>3. /\ DOMAIN Put(m, id, Node(k)) = DOMAIN m \cup {id}
          /\ Put(m, id, Node(k))[id] = Node(k)
          /\ \A y \in DOMAIN m : y # id => Put(m, id, Node(k))[y] = m[y]
      BY DEF Put
    <3>4. DOMAIN Put(m, id, Node(k)) \subseteq Ids
          /\ Put(m, id, Node(k)) \in [DOMAIN Put(m, id, Node(k)) -> NodeType]
      BY <1>1, <2>3, <2>5, <3>2, PutTyped
    <3> QED
      BY <2>3, <3>1, <3>3, <3>4
  <2>7. TreeTyped(u)
    BY <1>1, <1>2, <1>5, <2>6, Zenon DEF TreeTyped
  <2>8. u.nodes[id].parent = k /\ u.nodes[id].children = <<>>
    BY <1>3, <1>4, <2>6
  <2>9. \A x \in DOMAIN ns : x # id => u.nodes[x].parent = ns[x].parent
    BY <2>3, <2>6
  <2>10. k # NoParent /\ k # id
    BY <1>1, <1>3, <1>5
  <2>11. ASSUME NEW x \in (DOMAIN ns \ {id}) \cup {NoParent}
         PROVE  KidsOf(u, x) = IF x = k THEN Append(KidsOf(t, x), id) ELSE KidsOf(t, x)
    <3>1. x = NoParent => KidsOf(u, x) = u.roots /\ KidsOf(t, x) = t.roots /\ x # k
      BY <2>10 DEF KidsOf
    <3>2. x # NoParent => /\ KidsOf(u, x) = u.nodes[x].children
                          /\ KidsOf(t, x) = ns[x].children
                          /\ x \in DOMAIN ns /\ x # id
      BY DEF KidsOf, ns
    <3>3. x # NoParent => u.nodes[x] = m[x]
      BY <2>3, <2>6, <3>2
    <3> QED
      BY <1>2, <1>5, <2>3, <3>1, <3>2, <3>3 DEF c
  <2> QED
    BY <1>2, <1>5, <2>6, <2>7, <2>8, <2>9, <2>11 DEF u, ns
<1>6. CASE k \notin DOMAIN ns
  <2>1. /\ DOMAIN u.nodes = DOMAIN ns \cup {id}
        /\ u.nodes[id] = Node(NoParent)
        /\ \A y \in DOMAIN ns : y # id => u.nodes[y] = ns[y]
        /\ DOMAIN u.nodes \subseteq Ids /\ u.nodes \in [DOMAIN u.nodes -> NodeType]
    <3> DEFINE v == Node(NoParent)
    <3>1. u.nodes = Put(ns, id, v)
      BY <1>2, <1>6
    <3>2. v \in NodeType
      BY <1>4
    <3> HIDE DEF v
    <3>3. /\ DOMAIN Put(ns, id, v) = DOMAIN ns \cup {id}
          /\ Put(ns, id, v)[id] = v
          /\ \A y \in DOMAIN ns : y # id => Put(ns, id, v)[y] = ns[y]
      BY DEF Put
    <3>4. DOMAIN Put(ns, id, v) \subseteq Ids /\ Put(ns, id, v) \in [DOMAIN Put(ns, id, v) -> NodeType]
      BY <1>1, <3>2, PutTyped
    <3> QED
      BY <3>1, <3>3, <3>4 DEF v
  <2>2. u.roots = Append(t.roots, id) /\ u.roots \in Seq(Ids)
    <3>1. Append(t.roots, id) \in Seq(Ids)
      BY <1>1, AppendProperties
    <3> QED
      BY <1>2, <1>6, <3>1, Zenon
  <2>3. DOMAIN u.parked \subseteq Ids /\ u.parked \in [DOMAIN u.parked -> Seq(Ids)]
    <3> DEFINE v == Append(At(t.parked, k), id)
    <3>1. CASE k = NoParent
      BY <1>1, <1>2, <1>6, <3>1
    <3>2. CASE k # NoParent
      <4>1. k \in Ids
        BY <1>3, <3>2
      <4>2. At(t.parked, k) \in Seq(Ids)
        BY <1>1, AtTyped
      <4>3. v \in Seq(Ids)
        BY <4>2, AppendProperties
      <4>4. u.parked = Put(t.parked, k, v)
        BY <1>2, <1>6, <3>2
      <4> HIDE DEF v, k
      <4>5. DOMAIN Put(t.parked, k, v) \subseteq Ids
            /\ Put(t.parked, k, v) \in [DOMAIN Put(t.parked, k, v) -> Seq(Ids)]
        BY <1>1, <4>1, <4>3, PutTyped
      <4> QED
        BY <4>4, <4>5
    <3> QED
      BY <3>1, <3>2
  <2>4. TreeTyped(u)
    BY <1>1, <1>2, <2>1, <2>2, <2>3, Zenon DEF TreeTyped
  <2>5. u.nodes[id].parent = NoParent /\ u.nodes[id].children = <<>>
    BY <1>4, <2>1
  <2>6. ASSUME NEW x \in (DOMAIN ns \ {id}) \cup {NoParent}
        PROVE  KidsOf(u, x) = IF x = NoParent THEN Append(KidsOf(t, x), id) ELSE KidsOf(t, x)
    <3>1. x = NoParent => KidsOf(u, x) = u.roots /\ KidsOf(t, x) = t.roots
      BY DEF KidsOf
    <3>2. x # NoParent => /\ KidsOf(u, x) = u.nodes[x].children
                          /\ KidsOf(t, x) = ns[x].children
                          /\ x \in DOMAIN ns /\ x # id
      BY DEF KidsOf, ns
    <3> QED
      BY <2>1, <2>2, <3>1, <3>2
  <2>7. k \in DOMAIN ns \cup {NoParent} <=> k = NoParent
    BY <1>6
  <2> QED
    BY <1>2, <1>6, <2>1, <2>4, <2>5, <2>6, <2>7 DEF u, ns
<1> QED
  BY <1>5, <1>6

LEMMA WaitersAreNodes ==
  ASSUME NEW t, TreeTyped(t), NEW id, \A n \in Range(At(t.parked, id)) : n \in DOMAIN t.nodes
  PROVE  /\ At(t.parked, id) \in Seq(Ids)
         /\ \A i \in DOMAIN At(t.parked, id) : At(t.parked, id)[i] \in DOMAIN t.nodes
         /\ \A n : Contains(At(t.parked, id), n) <=> n \in Range(At(t.parked, id))
<1> DEFINE o == At(t.parked, id)
<1>1. o \in Seq(Ids)
  BY AtTyped, Zenon DEF TreeTyped
<1>2. DOMAIN o = 1..Len(o)
  BY <1>1, LenProperties
<1> HIDE DEF o
<1>3. \A n : Contains(o, n) <=> n \in Range(o)
  BY <1>2 DEF Contains, Range
<1>4. \A i \in DOMAIN o : o[i] \in DOMAIN t.nodes
  BY DEF Range, o
<1> QED
  BY <1>1, <1>3, <1>4 DEF o

(* What a channel that adopts changes. *)
LEMMA AdoptedNodes ==
  ASSUME NEW t, TreeTyped(t), NEW id \in Ids,
         \A n \in Range(At(t.parked, id)) : n \in DOMAIN t.nodes
  PROVE  LET u == Adopted(t, id)
             o == At(t.parked, id)
         IN  /\ TreeTyped(u) /\ u.known = t.known /\ u.fault = t.fault /\ u.parked = t.parked
             /\ DOMAIN u.nodes = DOMAIN t.nodes
             /\ \A x \in DOMAIN t.nodes :
                  u.nodes[x].parent = IF x # id /\ x \in Range(o) THEN id ELSE t.nodes[x].parent
             /\ id \in DOMAIN t.nodes => KidsOf(u, id) = KidsOf(t, id) \o o
             /\ KidsOf(u, NoParent) = RemoveAll(KidsOf(t, NoParent), Range(o))
             /\ \A x \in DOMAIN t.nodes : x # id => KidsOf(u, x) = KidsOf(t, x)
<1> DEFINE u == Adopted(t, id)
           o == At(t.parked, id)
           ns == t.nodes
           r == RemoveAll(t.roots, Range(o))
           m == [n \in DOMAIN ns |->
                   IF n = id THEN [ns[n] EXCEPT !.children = ns[n].children \o o]
                   ELSE IF Contains(o, n) THEN [ns[n] EXCEPT !.parent = id]
                   ELSE ns[n]]
<1>1. /\ DOMAIN t = Parts
      /\ DOMAIN t.known \subseteq Ids /\ t.known \in [DOMAIN t.known -> Ids \cup {NoParent}]
      /\ DOMAIN ns \subseteq Ids /\ ns \in [DOMAIN ns -> NodeType]
      /\ t.roots \in Seq(Ids)
      /\ DOMAIN t.parked \subseteq Ids /\ t.parked \in [DOMAIN t.parked -> Seq(Ids)]
      /\ t.fault \in {NoFault, RootRemoved}
  BY Zenon DEF TreeTyped
<1>2. /\ o \in Seq(Ids)
      /\ \A i \in DOMAIN o : o[i] \in DOMAIN ns
      /\ \A n : Contains(o, n) <=> n \in Range(o)
  BY WaitersAreNodes, Zenon
<1>3. /\ DOMAIN u = Parts /\ u.known = t.known /\ u.fault = t.fault /\ u.parked = t.parked
      /\ u.nodes = m /\ u.roots = r
  BY <1>1, <1>2, AdoptedParts, Zenon
<1>4. r \in Seq(Ids)
  BY <1>1, RemoveAllProperties
<1> HIDE DEF u, o, ns, r
<1>5. ASSUME NEW n \in DOMAIN ns
      PROVE  /\ DOMAIN ns[n] = {"parent", "children"}
             /\ ns[n].parent \in Ids \cup {NoParent} /\ ns[n].children \in Seq(Ids)
  BY <1>1, NodesAreNodes
<1>6. ASSUME NEW n \in DOMAIN ns
      PROVE  /\ m[n] \in NodeType
             /\ m[n].parent = IF n # id /\ n \in Range(o) THEN id ELSE ns[n].parent
             /\ m[n].children = IF n = id THEN ns[n].children \o o ELSE ns[n].children
  <2>1. ns[n].children \o o \in Seq(Ids)
    BY <1>2, <1>5, Concatenated
  <2>2. CASE n = id
    <3> DEFINE c == ns[n].children \o o
    <3>1. m[n] = [ns[n] EXCEPT !.children = c]
      BY <2>2, Zenon
    <3> HIDE DEF m, c
    <3>2. DOMAIN m[n] = {"parent", "children"} /\ m[n].parent = ns[n].parent /\ m[n].children = c
      BY <1>5, <3>1
    <3>3. m[n] \in NodeType
      BY <1>5, <2>1, <3>1 DEF NodeType, c
    <3> QED
      BY <2>2, <3>2, <3>3 DEF c
  <2>3. CASE n # id /\ n \in Range(o)
    <3>1. m[n] = [ns[n] EXCEPT !.parent = id]
      BY <1>2, <2>3, Zenon
    <3> HIDE DEF m
    <3>2. DOMAIN m[n] = {"parent", "children"} /\ m[n].parent = id /\ m[n].children = ns[n].children
      BY <1>5, <3>1
    <3>3. m[n] \in NodeType
      BY <1>5, <3>1 DEF NodeType
    <3> QED
      BY <2>3, <3>2, <3>3
  <2>4. CASE n # id /\ n \notin Range(o)
    <3>1. m[n] = ns[n]
      BY <1>2, <2>4, Zenon
    <3> HIDE DEF m
    <3> QED
      BY <1>1, <2>4, <3>1
  <2> QED
    BY <2>2, <2>3, <2>4
<1>7. DOMAIN m = DOMAIN ns
  OBVIOUS
<1> HIDE DEF m
<1>8. TreeTyped(u)
  <2>1. u.nodes \in [DOMAIN u.nodes -> NodeType] /\ DOMAIN u.nodes \subseteq Ids
    <3>1. m \in [DOMAIN ns -> NodeType]
      <4>1. m = [n \in DOMAIN ns |-> m[n]]
        BY <1>7 DEF m
      <4> QED
        BY <1>6, <4>1
    <3> QED
      BY <1>1, <1>3, <1>7, <3>1
  <2> QED
    BY <1>1, <1>3, <1>4, <2>1, Zenon DEF TreeTyped
<1>9. KidsOf(u, NoParent) = r /\ KidsOf(t, NoParent) = t.roots
  BY <1>3 DEF KidsOf
<1>10. ASSUME NEW x \in DOMAIN ns
       PROVE  KidsOf(u, x) = m[x].children /\ KidsOf(t, x) = ns[x].children
  BY <1>1, <1>3, NoParentIsNoId DEF KidsOf, ns
<1>11. \A x \in DOMAIN ns : x # id => KidsOf(u, x) = KidsOf(t, x)
  BY <1>6, <1>10
<1>12. id \in DOMAIN ns => KidsOf(u, id) = KidsOf(t, id) \o o
  BY <1>6, <1>10
<1>13. \A x \in DOMAIN ns :
         u.nodes[x].parent = IF x # id /\ x \in Range(o) THEN id ELSE ns[x].parent
  BY <1>3, <1>6
<1> QED
  BY <1>3, <1>7, <1>8, <1>9, <1>11, <1>12, <1>13, Zenon DEF u, o, ns, r

(* What the removal of a channel changes. *)
LEMMA RemovedNodes ==
  ASSUME NEW t, TreeTyped(t), NEW id \in DOMAIN t.nodes,
         t.nodes[id].parent # NoParent => t.nodes[id].parent \in DOMAIN t.nodes
  PROVE  LET u == Removed(t, id)
             p == t.nodes[id].parent
         IN  /\ TreeTyped(u) /\ u.known = t.known /\ u.parked = t.parked
             /\ p = NoParent => u.nodes = t.nodes /\ u.fault = RootRemoved
             /\ p # NoParent =>
                  /\ u.fault = t.fault
                  /\ DOMAIN u.nodes = DOMAIN t.nodes \ {id}
                  /\ \A x \in DOMAIN u.nodes : u.nodes[x].parent = t.nodes[x].parent
                  /\ \A x \in DOMAIN u.nodes \cup {NoParent} :
                       KidsOf(u, x) = IF x = p THEN RemoveAll(KidsOf(t, x), {id}) ELSE KidsOf(t, x)
<1> DEFINE u == Removed(t, id)
           ns == t.nodes
           p == ns[id].parent
           c == RemoveAll(ns[p].children, {id})
           m == [ns EXCEPT ![p].children = c]
<1>1. /\ DOMAIN t = Parts
      /\ DOMAIN t.known \subseteq Ids /\ t.known \in [DOMAIN t.known -> Ids \cup {NoParent}]
      /\ DOMAIN ns \subseteq Ids /\ ns \in [DOMAIN ns -> NodeType]
      /\ t.roots \in Seq(Ids)
      /\ DOMAIN t.parked \subseteq Ids /\ t.parked \in [DOMAIN t.parked -> Seq(Ids)]
      /\ t.fault \in {NoFault, RootRemoved}
  BY Zenon DEF TreeTyped
<1>2. /\ DOMAIN u = Parts /\ u.known = t.known /\ u.roots = t.roots /\ u.parked = t.parked
      /\ p = NoParent => u.nodes = ns /\ u.fault = RootRemoved
      /\ p # NoParent => u.fault = t.fault /\ u.nodes = Drop(m, id)
  BY <1>1, RemovedParts, Zenon
<1> HIDE DEF u, ns, p
<1>3. CASE p = NoParent
  <2>1. TreeTyped(u)
    BY <1>1, <1>2, <1>3, Zenon DEF TreeTyped
  <2> QED
    BY <1>2, <1>3, <2>1 DEF u, p, ns
<1>4. CASE p # NoParent
  <2>1. p \in DOMAIN ns
    BY <1>4 DEF p, ns
  <2>2. /\ DOMAIN ns[p] = {"parent", "children"}
        /\ ns[p].parent \in Ids \cup {NoParent} /\ ns[p].children \in Seq(Ids)
    BY <1>1, <2>1, NodesAreNodes
  <2>3. c \in Seq(Ids)
    BY <2>2, RemoveAllProperties
  <2> HIDE DEF c
  <2>4. /\ DOMAIN m = DOMAIN ns
        /\ m[p].parent = ns[p].parent /\ m[p].children = c
        /\ \A x \in DOMAIN ns : x # p => m[x] = ns[x]
    BY <2>1, <2>2
  <2>5. m[p] \in NodeType
    BY <2>1, <2>2, <2>3 DEF NodeType
  <2>6. \A x \in DOMAIN ns : m[x] \in NodeType
    BY <1>1, <2>4, <2>5
  <2> HIDE DEF m
  <2>7. /\ DOMAIN u.nodes = DOMAIN ns \ {id}
        /\ \A x \in DOMAIN u.nodes : u.nodes[x] = m[x]
        /\ u.nodes \in [DOMAIN u.nodes -> NodeType]
    BY <1>2, <1>4, <2>4, <2>6 DEF Drop
  <2>8. TreeTyped(u)
    <3>1. DOMAIN u.nodes \subseteq Ids
      BY <1>1, <2>7
    <3> QED
      BY <1>1, <1>2, <1>4, <2>7, <3>1, Zenon DEF TreeTyped
  <2>9. ASSUME NEW x \in DOMAIN u.nodes
        PROVE  /\ u.nodes[x].parent = ns[x].parent
               /\ u.nodes[x].children = IF x = p THEN c ELSE ns[x].children
    BY <2>4, <2>7
  <2>10. ASSUME NEW x \in DOMAIN u.nodes \cup {NoParent}
         PROVE  KidsOf(u, x) = IF x = p THEN RemoveAll(KidsOf(t, x), {id}) ELSE KidsOf(t, x)
    <3>1. x = NoParent => KidsOf(u, x) = t.roots /\ KidsOf(t, x) = t.roots
      BY <1>2 DEF KidsOf
    <3>2. x # NoParent => /\ KidsOf(u, x) = u.nodes[x].children
                          /\ KidsOf(t, x) = ns[x].children
                          /\ x \in DOMAIN u.nodes
      BY DEF KidsOf, ns
    <3> QED
      BY <1>4, <2>9, <3>1, <3>2 DEF c
  <2> QED
    BY <1>2, <1>4, <2>7, <2>8, <2>9, <2>10 DEF u, p, ns
<1> QED
  BY <1>3, <1>4

-----------------------------------------------------------------------------
(* Lists of children and those who wait.                                   *)

LEMMA KidsTyped ==
  ASSUME NEW t, TreeTyped(t), NEW p \in DOMAIN t.nodes \cup {NoParent}
  PROVE  KidsOf(t, p) \in Seq(Ids)
<1>1. t.nodes \in [DOMAIN t.nodes -> NodeType] /\ t.roots \in Seq(Ids)
  BY Zenon DEF TreeTyped
<1> QED
  BY <1>1, NodesAreNodes DEF KidsOf

LEMMA AppendedOnce ==
  ASSUME NEW S, NEW s \in Seq(S), NEW x \in S, IsInjective(s), x \notin Range(s)
  PROVE  /\ IsInjective(Append(s, x))
         /\ \A n : n \in Range(Append(s, x)) <=> n \in Range(s) \/ n = x
<1>1. Range(s) = ToSet(s) /\ Range(Append(s, x)) = ToSet(Append(s, x))
  BY DEF Range, ToSet
<1>2. IsInjective(Append(s, x)) /\ ToSet(Append(s, x)) = ToSet(s) \cup {x}
  BY <1>1, AppendNew
<1> QED
  BY <1>1, <1>2

(* A channel that has been placed is where its node says. *)
LEMMA PlacedIsListed ==
  ASSUME NEW t, TreeTyped(t), Listing(t), NEW F, Waiting(t, F),
         NEW id \in Ids, id \notin DOMAIN t.nodes, id \in DOMAIN t.known, t.known[id] # id
  PROVE  Listing(Placed(t, id))
<1> DEFINE u == Placed(t, id)
           ns == t.nodes
           q == IF t.known[id] \in DOMAIN ns THEN t.known[id] ELSE NoParent
<1>1. /\ TreeTyped(u)
      /\ DOMAIN u.nodes = DOMAIN ns \cup {id}
      /\ u.nodes[id].parent = q /\ u.nodes[id].children = <<>>
      /\ \A x \in DOMAIN ns : x # id => u.nodes[x].parent = ns[x].parent
      /\ \A x \in (DOMAIN ns \ {id}) \cup {NoParent} :
           KidsOf(u, x) = IF x = q THEN Append(KidsOf(t, x), id) ELSE KidsOf(t, x)
  <2>1. LET v == Placed(t, id)
            p == IF t.known[id] \in DOMAIN t.nodes THEN t.known[id] ELSE NoParent
        IN  /\ TreeTyped(v)
            /\ DOMAIN v.nodes = DOMAIN t.nodes \cup {id}
            /\ v.nodes[id].parent = p /\ v.nodes[id].children = <<>>
            /\ \A x \in DOMAIN t.nodes : x # id => v.nodes[x].parent = t.nodes[x].parent
            /\ \A x \in (DOMAIN t.nodes \ {id}) \cup {NoParent} :
                 KidsOf(v, x) = IF x = p THEN Append(KidsOf(t, x), id) ELSE KidsOf(t, x)
    BY ONLY TreeTyped(t), id \in Ids, id \in DOMAIN t.known, t.known[id] # id, PlacedNodes
  <2> QED
    BY ONLY <2>1, Zenon
<1>2. \A n \in DOMAIN ns : ns[n].parent # id
  BY NoParentIsNoId DEF Waiting
<1>3. q # id /\ q \in DOMAIN ns \cup {NoParent} /\ id # NoParent
  BY NoParentIsNoId
<1> HIDE DEF u, q
<1>4. ASSUME NEW p \in DOMAIN ns \cup {NoParent}
      PROVE  /\ IsInjective(KidsOf(u, p))
             /\ \A n : n \in Range(KidsOf(u, p)) <=> n \in DOMAIN u.nodes /\ u.nodes[n].parent = p
  <2>1. /\ IsInjective(KidsOf(t, p))
        /\ \A n : n \in Range(KidsOf(t, p)) <=> n \in DOMAIN ns /\ ns[n].parent = p
    BY DEF Listing
  <2>2. KidsOf(t, p) \in Seq(Ids)
    BY KidsTyped
  <2>3. KidsOf(u, p) = IF p = q THEN Append(KidsOf(t, p), id) ELSE KidsOf(t, p)
    BY <1>1
  <2>4. /\ IsInjective(Append(KidsOf(t, p), id))
        /\ \A n : n \in Range(Append(KidsOf(t, p), id)) <=> n \in Range(KidsOf(t, p)) \/ n = id
    BY <2>1, <2>2, AppendedOnce
  <2>5. \A n : n \in DOMAIN u.nodes /\ u.nodes[n].parent = p
                 <=> (n \in DOMAIN ns /\ ns[n].parent = p) \/ (n = id /\ p = q)
    BY <1>1
  <2> QED
    BY <2>1, <2>3, <2>4, <2>5
<1>5. KidsOf(u, id) = <<>>
  BY <1>1, <1>3 DEF KidsOf
<1>6. /\ IsInjective(KidsOf(u, id))
      /\ \A n : n \in Range(KidsOf(u, id)) <=> n \in DOMAIN u.nodes /\ u.nodes[n].parent = id
  <2>1. \A n \in DOMAIN u.nodes : u.nodes[n].parent # id
    BY <1>1, <1>2, <1>3
  <2>2. DOMAIN <<>> = {}
    OBVIOUS
  <2> QED
    BY <1>5, <2>1, <2>2 DEF IsInjective, Range
<1>7. \A p \in DOMAIN u.nodes \cup {NoParent} : p = id \/ p \in DOMAIN ns \cup {NoParent}
  BY <1>1
<1> QED
  BY <1>4, <1>6, <1>7, Zenon DEF Listing, u

(* A channel that has adopted has those who waited for it below it. *)
LEMMA AdoptedIsListed ==
  ASSUME NEW t, TreeTyped(t), Listing(t), NEW id \in DOMAIN t.nodes,
         IsInjective(At(t.parked, id)),
         \A n \in Range(At(t.parked, id)) :
           n \in DOMAIN t.nodes /\ n # id /\ t.nodes[n].parent = NoParent
  PROVE  Listing(Adopted(t, id))
<1> DEFINE u == Adopted(t, id)
           o == At(t.parked, id)
           ns == t.nodes
<1>1. id \in Ids /\ id # NoParent /\ \A x \in DOMAIN ns : x # NoParent
  BY NoParentIsNoId DEF TreeTyped
<1>2. /\ DOMAIN u.nodes = DOMAIN ns
      /\ \A x \in DOMAIN ns :
           u.nodes[x].parent = IF x # id /\ x \in Range(o) THEN id ELSE ns[x].parent
      /\ KidsOf(u, id) = KidsOf(t, id) \o o
      /\ KidsOf(u, NoParent) = RemoveAll(KidsOf(t, NoParent), Range(o))
      /\ \A x \in DOMAIN ns : x # id => KidsOf(u, x) = KidsOf(t, x)
  BY <1>1, AdoptedNodes, Zenon
<1>3. o \in Seq(Ids)
  BY AtTyped, Zenon DEF TreeTyped
<1>4. \A n \in Range(o) : n \in DOMAIN ns /\ n # id /\ ns[n].parent = NoParent
  OBVIOUS
<1>5. IsInjective(o)
  OBVIOUS
<1>6. \A p \in DOMAIN ns \cup {NoParent} :
        /\ IsInjective(KidsOf(t, p)) /\ KidsOf(t, p) \in Seq(Ids)
        /\ \A n : n \in Range(KidsOf(t, p)) <=> n \in DOMAIN ns /\ ns[n].parent = p
  BY KidsTyped DEF Listing
<1> HIDE DEF u, o, ns
<1>7. id \in DOMAIN ns
  BY DEF ns
<1> DEFINE Right(p) == /\ IsInjective(KidsOf(u, p))
                       /\ \A n : n \in Range(KidsOf(u, p)) <=> n \in DOMAIN u.nodes /\ u.nodes[n].parent = p
<1>8. Right(id)
  <2> DEFINE s == KidsOf(t, id)
  <2>1. /\ IsInjective(s) /\ s \in Seq(Ids)
        /\ \A n : n \in Range(s) <=> n \in DOMAIN ns /\ ns[n].parent = id
    BY <1>6, <1>7
  <2> HIDE DEF s
  <2>2. /\ DOMAIN s = 1..Len(s) /\ Len(s) \in Nat /\ DOMAIN o = 1..Len(o) /\ Len(o) \in Nat
        /\ DOMAIN (s \o o) = 1..(Len(s) + Len(o))
        /\ \A i \in 1..(Len(s) + Len(o)) : (s \o o)[i] = IF i <= Len(s) THEN s[i] ELSE o[i - Len(s)]
    BY <1>3, <2>1, ConcatProperties, LenProperties
  <2>3. \A i \in 1..Len(s) : s[i] \in Range(s)
    BY <2>2 DEF Range
  <2>4. \A i \in 1..Len(o) : o[i] \in Range(o)
    BY <2>2 DEF Range
  <2>5. Range(s) \cap Range(o) = {}
    BY <1>1, <1>4, <2>1
  <2>6. IsInjective(s \o o)
    <3> SUFFICES ASSUME NEW i \in 1..(Len(s) + Len(o)), NEW j \in 1..(Len(s) + Len(o)),
                        (s \o o)[i] = (s \o o)[j]
                 PROVE  i = j
      BY <2>2 DEF IsInjective
    <3>1. \A k \in 1..(Len(s) + Len(o)) : k > Len(s) => k - Len(s) \in 1..Len(o)
      BY <2>2
    <3>2. CASE i <= Len(s) /\ j <= Len(s)
      BY <2>1, <2>2, <3>2 DEF IsInjective
    <3>3. CASE i > Len(s) /\ j > Len(s)
      <4>1. o[i - Len(s)] = o[j - Len(s)] /\ i - Len(s) \in DOMAIN o /\ j - Len(s) \in DOMAIN o
        BY <2>2, <3>1, <3>3
      <4>2. i - Len(s) = j - Len(s)
        BY <1>5, <4>1 DEF IsInjective
      <4> QED
        BY <2>2, <4>2
    <3>4. ASSUME NEW a \in 1..(Len(s) + Len(o)), NEW b \in 1..(Len(s) + Len(o)),
                 a <= Len(s), b > Len(s)
          PROVE  (s \o o)[a] # (s \o o)[b]
      <4>1. (s \o o)[a] \in Range(s)
        BY <2>2, <2>3, <3>4
      <4>2. (s \o o)[b] \in Range(o)
        BY <2>2, <2>4, <3>1, <3>4
      <4> QED
        BY <2>5, <4>1, <4>2
    <3> QED
      BY <2>2, <3>2, <3>3, <3>4
  <2>7. ToSet(s \o o) = ToSet(s) \cup ToSet(o)
    BY <1>3, <2>1, Concatenated
  <2>8. Range(s \o o) = Range(s) \cup Range(o)
    BY <2>7, Zenon DEF Range, ToSet
  <2>9. \A n : n \in DOMAIN u.nodes /\ u.nodes[n].parent = id
                <=> (n \in DOMAIN ns /\ ns[n].parent = id) \/ n \in Range(o)
    BY <1>2, <1>4, <1>1
  <2>10. KidsOf(u, id) = s \o o
    BY <1>2 DEF s
  <2> QED
    BY <2>1, <2>6, <2>8, <2>9, <2>10
<1>9. Right(NoParent)
  <2> DEFINE s == KidsOf(t, NoParent)
  <2>1. /\ IsInjective(s) /\ s \in Seq(Ids)
        /\ \A n : n \in Range(s) <=> n \in DOMAIN ns /\ ns[n].parent = NoParent
    BY <1>6
  <2> HIDE DEF s
  <2>2. Range(RemoveAll(s, Range(o))) = Range(s) \ Range(o) /\ IsInjective(RemoveAll(s, Range(o)))
    BY <2>1, RemoveAllProperties
  <2>3. \A n : n \in DOMAIN u.nodes /\ u.nodes[n].parent = NoParent
                <=> n \in DOMAIN ns /\ ns[n].parent = NoParent /\ n \notin Range(o)
    BY <1>1, <1>2, <1>4
  <2>4. KidsOf(u, NoParent) = RemoveAll(s, Range(o))
    BY <1>2 DEF s
  <2> QED
    BY <2>1, <2>2, <2>3, <2>4
<1>10. ASSUME NEW p \in DOMAIN ns, p # id
       PROVE  Right(p)
  <2>1. /\ IsInjective(KidsOf(t, p)) /\ KidsOf(u, p) = KidsOf(t, p)
        /\ \A n : n \in Range(KidsOf(t, p)) <=> n \in DOMAIN ns /\ ns[n].parent = p
    BY <1>2, <1>6, <1>10
  <2>2. \A n : n \in DOMAIN u.nodes /\ u.nodes[n].parent = p <=> n \in DOMAIN ns /\ ns[n].parent = p
    BY <1>1, <1>2, <1>4, <1>10
  <2> QED
    BY <2>1, <2>2
<1> HIDE DEF Right
<1>11. \A p \in DOMAIN u.nodes \cup {NoParent} : Right(p)
  BY <1>2, <1>8, <1>9, <1>10
<1> QED
  BY <1>11, Zenon DEF Listing, Right, u

(* What the mirror says of the channels in C is where their nodes are, or  *)
(* for what they wait.                                                     *)
Mirrored(t, C) ==
  \A x \in DOMAIN t.nodes \cap C :
    /\ t.nodes[x].parent = IF t.known[x] \in DOMAIN t.nodes THEN t.known[x] ELSE NoParent
    /\ \A p \in Ids \ DOMAIN t.nodes : x \in Range(At(t.parked, p)) <=> t.known[x] = p

(* Who waits for a channel that is not there. *)
LEMMA Waiters ==
  ASSUME NEW t, TreeTyped(t), NEW F, Waiting(t, F), NEW p, p \notin DOMAIN t.nodes
  PROVE  /\ At(t.parked, p) \in Seq(Ids) /\ IsInjective(At(t.parked, p))
         /\ \A n \in Range(At(t.parked, p)) : n \in DOMAIN t.nodes /\ t.nodes[n].parent = NoParent
         /\ At(t.parked, p) # <<>> => p \in F
<1>1. At(t.parked, p) \in Seq(Ids)
  BY AtTyped, Zenon DEF TreeTyped
<1>2. CASE p \in DOMAIN t.parked
  BY <1>1, <1>2 DEF At, Waiting
<1>3. CASE p \notin DOMAIN t.parked
  <2>1. At(t.parked, p) = <<>> /\ DOMAIN <<>> = {}
    BY <1>3 DEF At
  <2> QED
    BY <1>1, <2>1 DEF IsInjective, Range
<1> QED
  BY <1>2, <1>3

LEMMA WaitingAt ==
  ASSUME NEW t, TreeTyped(t), NEW F
  PROVE  Waiting(t, F) <=>
           /\ \A n \in DOMAIN t.nodes : t.nodes[n].parent \in (DOMAIN t.nodes \cap F) \cup {NoParent}
           /\ DOMAIN t.parked \subseteq F
           /\ \A p \in Ids \ DOMAIN t.nodes :
                /\ IsInjective(At(t.parked, p))
                /\ \A n \in Range(At(t.parked, p)) : n \in DOMAIN t.nodes /\ t.nodes[n].parent = NoParent
           /\ \A p, q \in Ids \ DOMAIN t.nodes :
                p # q => Range(At(t.parked, p)) \cap Range(At(t.parked, q)) = {}
<1>1. DOMAIN t.parked \subseteq Ids
  BY Zenon DEF TreeTyped
<1>2. \A p \in DOMAIN t.parked : At(t.parked, p) = t.parked[p]
  BY DEF At
<1>3. \A p : p \notin DOMAIN t.parked => IsInjective(At(t.parked, p)) /\ Range(At(t.parked, p)) = {}
  <2>1. DOMAIN <<>> = {}
    OBVIOUS
  <2>2. IsInjective(<<>>) /\ Range(<<>>) = {}
    BY <2>1 DEF IsInjective, Range
  <2> QED
    BY <2>2, Zenon DEF At
<1> DEFINE w(p) == At(t.parked, p)
<1>4. Waiting(t, F) <=>
           /\ \A n \in DOMAIN t.nodes : t.nodes[n].parent \in (DOMAIN t.nodes \cap F) \cup {NoParent}
           /\ DOMAIN t.parked \subseteq F
           /\ \A p \in DOMAIN t.parked \ DOMAIN t.nodes :
                /\ IsInjective(w(p))
                /\ \A n \in Range(w(p)) : n \in DOMAIN t.nodes /\ t.nodes[n].parent = NoParent
           /\ \A p, q \in DOMAIN t.parked \ DOMAIN t.nodes :
                p # q => Range(w(p)) \cap Range(w(q)) = {}
  BY <1>2 DEF Waiting
<1>5. \A p : p \notin DOMAIN t.parked => IsInjective(w(p)) /\ Range(w(p)) = {}
  BY <1>3
<1> HIDE DEF w
<1>6. Waiting(t, F) <=>
           /\ \A n \in DOMAIN t.nodes : t.nodes[n].parent \in (DOMAIN t.nodes \cap F) \cup {NoParent}
           /\ DOMAIN t.parked \subseteq F
           /\ \A p \in Ids \ DOMAIN t.nodes :
                /\ IsInjective(w(p))
                /\ \A n \in Range(w(p)) : n \in DOMAIN t.nodes /\ t.nodes[n].parent = NoParent
           /\ \A p, q \in Ids \ DOMAIN t.nodes :
                p # q => Range(w(p)) \cap Range(w(q)) = {}
  BY <1>1, <1>4, <1>5
<1> QED
  BY <1>6 DEF w

(* A channel that is added is placed, and adopts who waited for it. *)
LEMMA TreeGrows ==
  ASSUME NEW t, TreeTyped(t), Listing(t), NEW F, Waiting(t, F),
         NEW id \in Ids, id \notin DOMAIN t.nodes, id \in DOMAIN t.known,
         t.known[id] \in F \cup {NoParent}, t.known[id] # id
  PROVE  LET u == Added(t, id)
         IN  /\ TreeTyped(u) /\ u.known = t.known /\ u.fault = t.fault
             /\ DOMAIN u.nodes = DOMAIN t.nodes \cup {id}
             /\ Listing(u) /\ Waiting(u, F)
             /\ \A C : Mirrored(t, C) => Mirrored(u, C)
<1> DEFINE v == Placed(t, id)
           u == Adopted(v, id)
           k == t.known[id]
           ns == t.nodes
           q == IF k \in DOMAIN ns THEN k ELSE NoParent
           w(p) == At(t.parked, p)
<1>1. Added(t, id) = u
  BY Zenon DEF Added
<1>2. /\ TreeTyped(v) /\ v.known = t.known /\ v.fault = t.fault
      /\ DOMAIN v.nodes = DOMAIN ns \cup {id}
      /\ v.nodes[id].parent = q
      /\ \A x \in DOMAIN ns : x # id => v.nodes[x].parent = ns[x].parent
      /\ v.parked = IF k \in DOMAIN ns \cup {NoParent} THEN t.parked
                    ELSE Put(t.parked, k, Append(At(t.parked, k), id))
  BY PlacedNodes, Zenon
<1>3. Listing(v)
  BY PlacedIsListed
<1>4. k \in Ids \cup {NoParent} /\ id # NoParent /\ DOMAIN ns \subseteq Ids /\ NoParent \notin Ids
  <2>1. t.known \in [DOMAIN t.known -> Ids \cup {NoParent}] /\ DOMAIN ns \subseteq Ids
    BY Zenon DEF TreeTyped
  <2> QED
    BY <2>1, NoParentIsNoId
<1>5. \A p \in Ids \ DOMAIN ns :
        /\ w(p) \in Seq(Ids) /\ IsInjective(w(p))
        /\ \A n \in Range(w(p)) : n \in DOMAIN ns /\ ns[n].parent = NoParent
        /\ w(p) # <<>> => p \in F
  BY Waiters, Zenon
<1>6. /\ \A n \in DOMAIN ns : ns[n].parent \in (DOMAIN ns \cap F) \cup {NoParent}
      /\ DOMAIN t.parked \subseteq F
      /\ \A p, r \in Ids \ DOMAIN ns : p # r => Range(w(p)) \cap Range(w(r)) = {}
  BY WaitingAt
<1>7. \A p : At(v.parked, p) = IF p = k /\ k \notin DOMAIN ns \cup {NoParent}
                               THEN Append(w(k), id) ELSE w(p)
  <2>1. CASE k \in DOMAIN ns \cup {NoParent}
    BY <1>2, <2>1
  <2>2. CASE k \notin DOMAIN ns \cup {NoParent}
    <3> DEFINE x == Append(At(t.parked, k), id)
    <3>1. v.parked = Put(t.parked, k, x)
      BY <1>2, <2>2
    <3> HIDE DEF v, k, x
    <3>2. \A p : At(Put(t.parked, k, x), p) = IF p = k THEN x ELSE At(t.parked, p)
      BY DEF At, Put
    <3> QED
      BY <2>2, <3>1, <3>2, Zenon DEF x
  <2> QED
    BY <2>1, <2>2
<1>8. At(v.parked, id) = w(id)
  BY <1>7
<1> HIDE DEF w, u, v, q, k, ns
<1>9. w(id) \in Seq(Ids) /\ IsInjective(w(id)) /\ id \in Ids \ DOMAIN ns
      /\ \A n \in Range(w(id)) : n \in DOMAIN ns /\ ns[n].parent = NoParent /\ n # id
  BY <1>5 DEF ns
<1>10. \A n \in Range(At(v.parked, id)) :
         n \in DOMAIN v.nodes /\ n # id /\ v.nodes[n].parent = NoParent
  BY <1>2, <1>8, <1>9
<1>11. id \in DOMAIN v.nodes /\ IsInjective(At(v.parked, id))
  BY <1>2, <1>8, <1>9
<1>12. Listing(u)
  <2>1. Listing(Adopted(v, id))
    BY <1>2, <1>3, <1>10, <1>11, AdoptedIsListed
  <2> QED
    BY <2>1 DEF u
<1>13. /\ TreeTyped(u) /\ u.known = v.known /\ u.fault = v.fault /\ u.parked = v.parked
       /\ DOMAIN u.nodes = DOMAIN v.nodes
       /\ \A x \in DOMAIN v.nodes :
            u.nodes[x].parent = IF x # id /\ x \in Range(w(id)) THEN id ELSE v.nodes[x].parent
  <2>1. \A n \in Range(At(v.parked, id)) : n \in DOMAIN v.nodes
    BY <1>10
  <2>2. LET y == Adopted(v, id)
            o == At(v.parked, id)
        IN  /\ TreeTyped(y) /\ y.known = v.known /\ y.fault = v.fault /\ y.parked = v.parked
            /\ DOMAIN y.nodes = DOMAIN v.nodes
            /\ \A x \in DOMAIN v.nodes :
                 y.nodes[x].parent = IF x # id /\ x \in Range(o) THEN id ELSE v.nodes[x].parent
    BY <1>2, <2>1, AdoptedNodes, Zenon
  <2> QED
    BY <1>8, <2>2, Zenon DEF u
<1>14. /\ DOMAIN u.nodes = DOMAIN ns \cup {id}
       /\ u.nodes[id].parent = q
       /\ \A x \in DOMAIN ns : u.nodes[x].parent = IF x \in Range(w(id)) THEN id ELSE ns[x].parent
  <2>1. id \notin DOMAIN ns
    BY <1>9
  <2> QED
    BY <1>2, <1>13, <2>1
<1>15. q \in (DOMAIN ns \cap F) \cup {NoParent}
  BY DEF q, k
<1>16. w(id) # <<>> => id \in F
  BY <1>5, <1>9
<1>17. \A n \in Range(w(id)) : id \in F
  <2>1. Range(<<>>) = {}
    <3>1. DOMAIN <<>> = {}
      OBVIOUS
    <3> QED
      BY <3>1 DEF Range
  <2> QED
    BY <1>16, <2>1
<1>18. \A p \in Ids \ DOMAIN u.nodes :
         /\ p \in Ids \ DOMAIN ns
         /\ At(u.parked, p) = IF p = k THEN Append(w(p), id) ELSE w(p)
         /\ IsInjective(Append(w(p), id))
         /\ \A n : n \in Range(Append(w(p), id)) <=> n \in Range(w(p)) \/ n = id
  <2> TAKE p \in Ids \ DOMAIN u.nodes
  <2>1. p \in Ids \ DOMAIN ns /\ p # NoParent
    BY <1>4, <1>14
  <2>2. At(u.parked, p) = IF p = k THEN Append(w(p), id) ELSE w(p)
    BY <1>7, <1>13, <2>1
  <2>3. w(p) \in Seq(Ids) /\ IsInjective(w(p)) /\ id \notin Range(w(p))
    BY <1>5, <1>9, <2>1
  <2>4. /\ IsInjective(Append(w(p), id))
        /\ \A n : n \in Range(Append(w(p), id)) <=> n \in Range(w(p)) \/ n = id
    BY <2>3, AppendedOnce
  <2> QED
    BY <2>1, <2>2, <2>4
<1>19. \A p \in Ids \ DOMAIN u.nodes :
         \A n : n \in Range(At(u.parked, p)) <=> n \in Range(w(p)) \/ (p = k /\ n = id)
  BY <1>18
<1>20. \A n \in DOMAIN u.nodes : u.nodes[n].parent \in (DOMAIN u.nodes \cap F) \cup {NoParent}
  BY <1>6, <1>14, <1>15, <1>17
<1>21. \A p \in Ids \ DOMAIN u.nodes :
         /\ IsInjective(At(u.parked, p))
         /\ \A n \in Range(At(u.parked, p)) : n \in DOMAIN u.nodes /\ u.nodes[n].parent = NoParent
  <2> TAKE p \in Ids \ DOMAIN u.nodes
  <2>1. p \in Ids \ DOMAIN ns /\ p # id
    BY <1>14, <1>18
  <2>2. IsInjective(At(u.parked, p))
    BY <1>5, <1>18, <2>1
  <2>3. ASSUME NEW n \in Range(w(p))
        PROVE  n \in DOMAIN u.nodes /\ u.nodes[n].parent = NoParent
    <3>1. n \in DOMAIN ns /\ ns[n].parent = NoParent
      BY <1>5, <2>1
    <3>2. n \notin Range(w(id))
      BY <1>6, <1>9, <2>1
    <3> QED
      BY <1>14, <3>1, <3>2
  <2>4. p = k => q = NoParent
    BY <2>1 DEF q
  <2> QED
    BY <1>14, <1>19, <2>2, <2>3, <2>4
<1>22. \A p, r \in Ids \ DOMAIN u.nodes :
         p # r => Range(At(u.parked, p)) \cap Range(At(u.parked, r)) = {}
  <2>1. \A p \in Ids \ DOMAIN u.nodes : id \notin Range(w(p)) /\ p \in Ids \ DOMAIN ns
    BY <1>5, <1>9, <1>18
  <2> QED
    BY <1>6, <1>19, <2>1
<1>23. DOMAIN u.parked \subseteq F
  <2>1. k \in F \cup {NoParent}
    BY DEF k
  <2>2. \A x : DOMAIN Put(t.parked, k, x) = DOMAIN t.parked \cup {k}
    BY DEF Put
  <2> QED
    BY <1>2, <1>6, <1>13, <2>1, <2>2
<1>24. Waiting(u, F)
  BY <1>13, <1>20, <1>21, <1>22, <1>23, WaitingAt
<1>25. ASSUME NEW C, Mirrored(t, C)
       PROVE  Mirrored(u, C)
  <2>1. \A x \in DOMAIN ns \cap C :
          /\ ns[x].parent = IF t.known[x] \in DOMAIN ns THEN t.known[x] ELSE NoParent
          /\ \A p \in Ids \ DOMAIN ns : x \in Range(w(p)) <=> t.known[x] = p
    BY <1>25 DEF Mirrored, ns, w
  <2>2. u.known = t.known
    BY <1>2, <1>13
  <2>3. ASSUME NEW x \in DOMAIN ns \cap C
        PROVE  /\ u.nodes[x].parent = IF t.known[x] \in DOMAIN u.nodes THEN t.known[x] ELSE NoParent
               /\ \A p \in Ids \ DOMAIN u.nodes : x \in Range(At(u.parked, p)) <=> t.known[x] = p
    <3>1. x \in Range(w(id)) <=> t.known[x] = id
      BY <1>9, <2>1
    <3>2. u.nodes[x].parent = IF t.known[x] \in DOMAIN u.nodes THEN t.known[x] ELSE NoParent
      BY <1>14, <2>1, <3>1
    <3>3. x # id
      BY <1>9
    <3> QED
      BY <1>18, <1>19, <2>1, <3>2, <3>3
  <2>4. ASSUME id \in C
        PROVE  /\ u.nodes[id].parent = IF k \in DOMAIN u.nodes THEN k ELSE NoParent
               /\ \A p \in Ids \ DOMAIN u.nodes : id \in Range(At(u.parked, p)) <=> k = p
    <3>1. k # id
      BY DEF k
    <3>2. \A p \in Ids \ DOMAIN u.nodes : id \notin Range(w(p))
      BY <1>5, <1>9, <1>18
    <3> QED
      BY <1>14, <1>19, <3>1, <3>2 DEF q
  <2>5. ASSUME NEW x \in DOMAIN u.nodes \cap C
        PROVE  /\ u.nodes[x].parent = IF u.known[x] \in DOMAIN u.nodes THEN u.known[x] ELSE NoParent
               /\ \A p \in Ids \ DOMAIN u.nodes : x \in Range(At(u.parked, p)) <=> u.known[x] = p
    <3>1. CASE x = id
      BY <2>2, <2>4, <2>5, <3>1 DEF k
    <3>2. CASE x # id
      BY <1>14, <2>2, <2>3, <3>2
    <3> QED
      BY <3>1, <3>2
  <2> QED
    BY <2>5, Zenon DEF Mirrored
<1> QED
  BY <1>1, <1>2, <1>12, <1>13, <1>14, <1>24, <1>25 DEF ns

(* A channel is removed that is no root and nobody's parent. *)
LEMMA TreeShrinks ==
  ASSUME NEW t, TreeTyped(t), Listing(t), NEW F, Waiting(t, F),
         NEW id \in DOMAIN t.nodes, id \notin F, t.nodes[id].parent # NoParent
  PROVE  LET u == Removed(t, id)
         IN  /\ TreeTyped(u) /\ u.known = t.known /\ u.fault = t.fault
             /\ DOMAIN u.nodes = DOMAIN t.nodes \ {id}
             /\ Listing(u) /\ Waiting(u, F)
             /\ \A C : Mirrored(t, C) /\ (\A x \in DOMAIN t.nodes : t.known[x] # id) => Mirrored(u, C)
<1> DEFINE u == Removed(t, id)
           ns == t.nodes
           q == ns[id].parent
           w(p) == At(t.parked, p)
<1>1. /\ \A n \in DOMAIN ns : ns[n].parent \in (DOMAIN ns \cap F) \cup {NoParent}
      /\ DOMAIN t.parked \subseteq F
      /\ \A p \in Ids \ DOMAIN ns :
           /\ IsInjective(w(p))
           /\ \A n \in Range(w(p)) : n \in DOMAIN ns /\ ns[n].parent = NoParent
      /\ \A p, r \in Ids \ DOMAIN ns : p # r => Range(w(p)) \cap Range(w(r)) = {}
  BY WaitingAt
<1>2. q \in DOMAIN ns /\ q # id /\ q # NoParent /\ \A n \in DOMAIN ns : ns[n].parent # id
  <2>1. id # NoParent
    BY NoParentIsNoId DEF TreeTyped
  <2> QED
    BY <1>1, <2>1
<1>3. id \in Ids /\ DOMAIN ns \subseteq Ids
  BY Zenon DEF TreeTyped
<1>4. /\ TreeTyped(u) /\ u.known = t.known /\ u.parked = t.parked /\ u.fault = t.fault
      /\ DOMAIN u.nodes = DOMAIN ns \ {id}
      /\ \A x \in DOMAIN u.nodes : u.nodes[x].parent = ns[x].parent
      /\ \A x \in DOMAIN u.nodes \cup {NoParent} :
           KidsOf(u, x) = IF x = q THEN RemoveAll(KidsOf(t, x), {id}) ELSE KidsOf(t, x)
  BY <1>2, RemovedNodes, Zenon
<1>5. w(id) = <<>>
  BY <1>1 DEF At
<1>6. IsInjective(w(id)) /\ Range(w(id)) = {}
  <2>1. DOMAIN <<>> = {}
    OBVIOUS
  <2> QED
    BY <1>5, <2>1 DEF IsInjective, Range
<1>7. \A p : At(u.parked, p) = w(p)
  BY <1>4
<1>8. \A p \in DOMAIN ns \cup {NoParent} :
        /\ KidsOf(t, p) \in Seq(Ids) /\ IsInjective(KidsOf(t, p))
        /\ \A n : n \in Range(KidsOf(t, p)) <=> n \in DOMAIN ns /\ ns[n].parent = p
  BY KidsTyped DEF Listing
<1> HIDE DEF u, w, q, ns
<1>9. ASSUME NEW p \in DOMAIN u.nodes \cup {NoParent}
      PROVE  /\ IsInjective(KidsOf(u, p))
             /\ \A n : n \in Range(KidsOf(u, p)) <=> n \in DOMAIN u.nodes /\ u.nodes[n].parent = p
  <2> DEFINE s == KidsOf(t, p)
  <2>1. /\ s \in Seq(Ids) /\ IsInjective(s)
        /\ \A n : n \in Range(s) <=> n \in DOMAIN ns /\ ns[n].parent = p
    BY <1>4, <1>8
  <2>2. KidsOf(u, p) = IF p = q THEN RemoveAll(s, {id}) ELSE s
    BY <1>4
  <2> HIDE DEF s
  <2>3. Range(RemoveAll(s, {id})) = Range(s) \ {id} /\ IsInjective(RemoveAll(s, {id}))
    BY <2>1, RemoveAllProperties
  <2>4. \A n : n \in DOMAIN u.nodes /\ u.nodes[n].parent = p
                 <=> n \in DOMAIN ns /\ ns[n].parent = p /\ n # id
    BY <1>4
  <2>5. p # q => id \notin Range(s)
    BY <2>1 DEF q
  <2> QED
    BY <2>1, <2>2, <2>3, <2>4, <2>5
<1>10. Listing(u)
  BY <1>9, Zenon DEF Listing
<1>11. Waiting(u, F)
  <2>1. \A n \in DOMAIN u.nodes : u.nodes[n].parent \in (DOMAIN u.nodes \cap F) \cup {NoParent}
    BY <1>1, <1>2, <1>4
  <2>2. \A p \in Ids \ DOMAIN u.nodes : p = id \/ p \in Ids \ DOMAIN ns
    BY <1>4
  <2>3. id \in DOMAIN ns /\ ns[id].parent # NoParent
    BY DEF ns
  <2>4. \A p \in Ids \ DOMAIN u.nodes :
          /\ IsInjective(w(p))
          /\ \A n \in Range(w(p)) : n \in DOMAIN u.nodes /\ u.nodes[n].parent = NoParent
    BY <1>1, <1>4, <1>6, <2>2, <2>3
  <2>5. \A p, r \in Ids \ DOMAIN u.nodes : p # r => Range(w(p)) \cap Range(w(r)) = {}
    BY <1>1, <1>6, <2>2
  <2> QED
    BY <1>1, <1>4, <1>7, <2>1, <2>4, <2>5, WaitingAt
<1>12. ASSUME NEW C, Mirrored(t, C), \A x \in DOMAIN t.nodes : t.known[x] # id
       PROVE  Mirrored(u, C)
  <2>1. \A x \in DOMAIN ns \cap C :
          /\ ns[x].parent = IF t.known[x] \in DOMAIN ns THEN t.known[x] ELSE NoParent
          /\ \A p \in Ids \ DOMAIN ns : x \in Range(w(p)) <=> t.known[x] = p
          /\ t.known[x] # id
    BY <1>12 DEF Mirrored, ns, w
  <2>2. ASSUME NEW x \in DOMAIN u.nodes \cap C
        PROVE  /\ u.nodes[x].parent = IF u.known[x] \in DOMAIN u.nodes THEN u.known[x] ELSE NoParent
               /\ \A p \in Ids \ DOMAIN u.nodes : x \in Range(At(u.parked, p)) <=> u.known[x] = p
    BY <1>4, <1>6, <1>7, <2>1
  <2> QED
    BY <2>2, Zenon DEF Mirrored
<1> QED
  BY <1>4, <1>10, <1>11, <1>12 DEF u, ns

(* The mirror has another map of rows. *)
LEMMA KnownChanges ==
  ASSUME NEW t, TreeTyped(t), NEW k,
         DOMAIN k \subseteq Ids, k \in [DOMAIN k -> Ids \cup {NoParent}]
  PROVE  LET u == [t EXCEPT !.known = k]
         IN  /\ TreeTyped(u) /\ u.known = k /\ u.fault = t.fault
             /\ u.nodes = t.nodes /\ u.roots = t.roots /\ u.parked = t.parked
             /\ Listing(t) => Listing(u)
             /\ \A F : Waiting(t, F) => Waiting(u, F)
             /\ \A C : Mirrored(t, C) /\ (\A x \in DOMAIN t.nodes \cap C : k[x] = t.known[x])
                         => Mirrored(u, C)
<1> DEFINE u == [t EXCEPT !.known = k]
<1>1. DOMAIN t = Parts
  BY Zenon DEF TreeTyped
<1>2. /\ DOMAIN u = Parts /\ u.known = k /\ u.fault = t.fault
      /\ u.nodes = t.nodes /\ u.roots = t.roots /\ u.parked = t.parked
  BY <1>1 DEF Parts
<1> HIDE DEF u
<1>3. TreeTyped(u)
  BY <1>2, Zenon DEF TreeTyped
<1>4. \A p : KidsOf(u, p) = KidsOf(t, p)
  BY <1>2 DEF KidsOf
<1>5. Listing(t) => Listing(u)
  BY <1>2, <1>4 DEF Listing
<1>6. \A F : Waiting(t, F) => Waiting(u, F)
  BY <1>2 DEF Waiting
<1>7. \A C : Mirrored(t, C) /\ (\A x \in DOMAIN t.nodes \cap C : k[x] = t.known[x])
               => Mirrored(u, C)
  BY <1>2 DEF Mirrored
<1> QED
  BY <1>2, <1>3, <1>5, <1>6, <1>7 DEF u

-----------------------------------------------------------------------------
(* What the mirror takes.                                                  *)

TreeSound(t, F) ==
  /\ TreeTyped(t)
  /\ t.fault = NoFault =>
       /\ DOMAIN t.nodes = DOMAIN t.known
       /\ Listing(t) /\ Waiting(t, F)
       /\ \A x \in DOMAIN t.known : t.known[x] \in F \cup {NoParent}

RowSound(row, F) ==
  /\ row.id \in Ids /\ row.parent \in F \cup {NoParent} /\ row.parent # row.id

LEMMA PutKnown ==
  ASSUME NEW k, DOMAIN k \subseteq Ids, k \in [DOMAIN k -> Ids \cup {NoParent}],
         NEW row, NEW F \in SUBSET Ids, RowSound(row, F)
  PROVE  LET l == Put(k, row.id, row.parent)
         IN  /\ DOMAIN l \subseteq Ids /\ l \in [DOMAIN l -> Ids \cup {NoParent}]
             /\ DOMAIN l = DOMAIN k \cup {row.id}
             /\ l[row.id] = row.parent
             /\ \A x \in DOMAIN k : x # row.id => l[x] = k[x]
BY DEF Put, RowSound

(* addOrUpdate: a channel that is known keeps its node. *)
LEMMA OnItemKeeps ==
  ASSUME NEW t, NEW F \in SUBSET Ids, TreeSound(t, F), t.fault = NoFault, NEW row, RowSound(row, F)
  PROVE  LET u == OnItem(t, row)
         IN  /\ TreeSound(u, F) /\ u.fault = NoFault
             /\ u.known = Put(t.known, row.id, row.parent)
             /\ \A C : /\ Mirrored(t, C)
                       /\ row.id \in C \cap DOMAIN t.known => t.known[row.id] = row.parent
                       => Mirrored(u, C)
<1> DEFINE k == Put(t.known, row.id, row.parent)
           v == [t EXCEPT !.known = k]
           u == OnItem(t, row)
           id == row.id
           q == row.parent
<1>1. /\ TreeTyped(t) /\ DOMAIN t.nodes = DOMAIN t.known
      /\ Listing(t) /\ Waiting(t, F)
      /\ \A x \in DOMAIN t.known : t.known[x] \in F \cup {NoParent}
  BY Zenon DEF TreeSound
<1>2. DOMAIN t.known \subseteq Ids /\ t.known \in [DOMAIN t.known -> Ids \cup {NoParent}]
  BY <1>1, Zenon DEF TreeTyped
<1>3. /\ DOMAIN k \subseteq Ids /\ k \in [DOMAIN k -> Ids \cup {NoParent}]
      /\ DOMAIN k = DOMAIN t.known \cup {id} /\ k[id] = q
      /\ \A x \in DOMAIN t.known : x # id => k[x] = t.known[x]
  BY <1>2, PutKnown
<1>4. id \in Ids /\ q \in F \cup {NoParent} /\ q # id
  BY DEF RowSound
<1>5. u = IF id \in DOMAIN t.known THEN v ELSE Added(v, id)
  BY Zenon DEF OnItem
<1> HIDE DEF k
<1>6. /\ TreeTyped(v) /\ v.known = k /\ v.fault = t.fault /\ v.nodes = t.nodes
      /\ Listing(v) /\ Waiting(v, F)
  BY <1>1, <1>3, KnownChanges
<1>7. ASSUME NEW C, Mirrored(t, C), \A x \in DOMAIN t.nodes \cap C : k[x] = t.known[x]
      PROVE  Mirrored(v, C)
  BY <1>1, <1>3, <1>7, KnownChanges
<1> HIDE DEF v, u, id, q
<1>8. \A x \in DOMAIN k : k[x] \in F \cup {NoParent}
  BY <1>1, <1>3, <1>4
<1>9. CASE id \in DOMAIN t.known
  <2>1. u = v
    BY <1>5, <1>9
  <2>2. DOMAIN v.nodes = DOMAIN v.known
    BY <1>1, <1>3, <1>6, <1>9
  <2>3. TreeSound(u, F)
    BY <1>6, <1>8, <2>1, <2>2, Zenon DEF TreeSound
  <2>4. ASSUME NEW C, Mirrored(t, C), id \in C \cap DOMAIN t.known => t.known[id] = q
        PROVE  Mirrored(u, C)
    BY <1>1, <1>3, <1>7, <2>1, <2>4
  <2> QED
    BY <1>6, <2>1, <2>3, <2>4 DEF u, k, id, q
<1>10. CASE id \notin DOMAIN t.known
  <2>1. u = Added(v, id)
    BY <1>5, <1>10
  <2>2. /\ id \notin DOMAIN v.nodes /\ id \in DOMAIN v.known
        /\ v.known[id] \in F \cup {NoParent} /\ v.known[id] # id
    BY <1>1, <1>3, <1>4, <1>6, <1>10
  <2>3. /\ TreeTyped(u) /\ u.known = v.known /\ u.fault = v.fault
        /\ DOMAIN u.nodes = DOMAIN v.nodes \cup {id}
        /\ Listing(u) /\ Waiting(u, F)
        /\ \A C : Mirrored(v, C) => Mirrored(u, C)
    BY <1>4, <1>6, <2>1, <2>2, TreeGrows
  <2>4. DOMAIN u.nodes = DOMAIN u.known
    BY <1>1, <1>3, <1>6, <2>3
  <2>5. TreeSound(u, F)
    BY <1>6, <1>8, <2>3, <2>4, Zenon DEF TreeSound
  <2>6. ASSUME NEW C, Mirrored(t, C)
        PROVE  Mirrored(u, C)
    <3>1. \A x \in DOMAIN t.nodes \cap C : k[x] = t.known[x]
      BY <1>1, <1>3, <1>10
    <3> QED
      BY <1>7, <2>3, <2>6, <3>1
  <2> QED
    BY <1>6, <2>3, <2>5, <2>6 DEF u, k, id, q
<1> QED
  BY <1>9, <1>10

(* A channel that has gone: its node is no one's parent. *)
LEMMA OnRemovedKeeps ==
  ASSUME NEW t, NEW F \in SUBSET Ids, TreeSound(t, F), t.fault = NoFault, NEW id \in Ids \ F
  PROVE  LET u == OnRemoved(t, id)
         IN  /\ TreeSound(u, F)
             /\ u.known = Drop(t.known, id)
             /\ u.fault = NoFault => \A C : Mirrored(t, C) => Mirrored(u, C)
<1> DEFINE k == Drop(t.known, id)
           v == Removed(t, id)
           u == OnRemoved(t, id)
<1>1. /\ TreeTyped(t) /\ DOMAIN t.nodes = DOMAIN t.known
      /\ Listing(t) /\ Waiting(t, F)
      /\ \A x \in DOMAIN t.known : t.known[x] \in F \cup {NoParent}
  BY Zenon DEF TreeSound
<1>2. DOMAIN t.known \subseteq Ids /\ t.known \in [DOMAIN t.known -> Ids \cup {NoParent}]
  BY <1>1, Zenon DEF TreeTyped
<1>3. CASE id \notin DOMAIN t.known
  <2>1. u = t
    BY <1>3 DEF OnRemoved
  <2>2. k = t.known
    BY <1>2, <1>3 DEF Drop
  <2> QED
    BY <2>1, <2>2
<1>4. CASE id \in DOMAIN t.known
  <2>1. /\ DOMAIN k \subseteq Ids /\ k \in [DOMAIN k -> Ids \cup {NoParent}]
        /\ DOMAIN k = DOMAIN t.known \ {id}
        /\ \A x \in DOMAIN k : k[x] = t.known[x]
    BY <1>2 DEF Drop
  <2>2. /\ id \in DOMAIN t.nodes
        /\ t.nodes[id].parent # NoParent => t.nodes[id].parent \in DOMAIN t.nodes
    BY <1>1, <1>4 DEF Waiting
  <2>3. /\ TreeTyped(v) /\ v.known = t.known
        /\ t.nodes[id].parent = NoParent => v.fault = RootRemoved
    BY <1>1, <2>2, RemovedNodes, Zenon
  <2>4. u = [v EXCEPT !.known = k]
    <3>1. u = [v EXCEPT !.known = Drop(v.known, id)]
      BY <1>4, Zenon DEF OnRemoved
    <3> QED
      BY <2>3, <3>1
  <2> HIDE DEF v, k, u
  <2>5. /\ TreeTyped(u) /\ u.known = k /\ u.fault = v.fault /\ u.nodes = v.nodes
        /\ Listing(v) => Listing(u)
        /\ \A G : Waiting(v, G) => Waiting(u, G)
        /\ \A C : Mirrored(v, C) /\ (\A x \in DOMAIN v.nodes \cap C : k[x] = v.known[x])
                    => Mirrored(u, C)
    BY <2>1, <2>3, <2>4, KnownChanges
  <2>6. CASE t.nodes[id].parent = NoParent
    <3>1. u.fault # NoFault
      BY <2>3, <2>5, <2>6, Faults
    <3> QED
      BY <2>5, <3>1 DEF TreeSound, u, k
  <2>7. CASE t.nodes[id].parent # NoParent
    <3>1. /\ v.fault = t.fault
          /\ DOMAIN v.nodes = DOMAIN t.nodes \ {id}
          /\ Listing(v) /\ Waiting(v, F)
          /\ \A C : Mirrored(t, C) /\ (\A x \in DOMAIN t.nodes : t.known[x] # id) => Mirrored(v, C)
      BY <1>1, <2>2, <2>7, TreeShrinks DEF v
    <3>2. DOMAIN u.nodes = DOMAIN u.known
      BY <1>1, <2>1, <2>5, <3>1
    <3>3. \A x \in DOMAIN u.known : u.known[x] \in F \cup {NoParent}
      BY <1>1, <2>1, <2>5
    <3>4. TreeSound(u, F)
      BY <2>5, <3>1, <3>2, <3>3, Zenon DEF TreeSound
    <3>5. ASSUME NEW C, Mirrored(t, C)
          PROVE  Mirrored(u, C)
      <4>1. \A x \in DOMAIN t.nodes : t.known[x] # id
        BY <1>1, NoParentIsNoId
      <4>2. \A x \in DOMAIN v.nodes \cap C : k[x] = v.known[x]
        BY <1>1, <2>1, <2>3, <3>1
      <4> QED
        BY <2>5, <3>1, <3>5, <4>1, <4>2
    <3> QED
      BY <2>5, <3>4, <3>5 DEF u, k
  <2> QED
    BY <2>6, <2>7
<1> QED
  BY <1>3, <1>4

(* A new channel; one that is known is removed and comes back. *)
LEMMA OnAddedKeeps ==
  ASSUME NEW t, NEW F \in SUBSET Ids, TreeSound(t, F), t.fault = NoFault,
         NEW row, RowSound(row, F), row.id \notin F
  PROVE  LET u == OnAdded(t, row)
         IN  /\ TreeSound(u, F)
             /\ u.known = Put(t.known, row.id, row.parent)
             /\ u.fault = NoFault => \A C : Mirrored(t, C) => Mirrored(u, C)
<1> DEFINE k == Put(t.known, row.id, row.parent)
           id == row.id
           q == row.parent
           v == IF id \in DOMAIN t.known THEN Removed(t, id) ELSE t
           z == [v EXCEPT !.known = k]
           u == OnAdded(t, row)
<1>1. /\ TreeTyped(t) /\ DOMAIN t.nodes = DOMAIN t.known
      /\ Listing(t) /\ Waiting(t, F)
      /\ \A x \in DOMAIN t.known : t.known[x] \in F \cup {NoParent}
  BY Zenon DEF TreeSound
<1>2. DOMAIN t.known \subseteq Ids /\ t.known \in [DOMAIN t.known -> Ids \cup {NoParent}]
  BY <1>1, Zenon DEF TreeTyped
<1>3. /\ DOMAIN k \subseteq Ids /\ k \in [DOMAIN k -> Ids \cup {NoParent}]
      /\ DOMAIN k = DOMAIN t.known \cup {id} /\ k[id] = q
      /\ \A x \in DOMAIN t.known : x # id => k[x] = t.known[x]
  BY <1>2, PutKnown
<1>4. id \in Ids /\ id \notin F /\ q \in F \cup {NoParent} /\ q # id
  BY DEF RowSound
<1>5. id \in DOMAIN t.known =>
        /\ id \in DOMAIN t.nodes
        /\ t.nodes[id].parent # NoParent => t.nodes[id].parent \in DOMAIN t.nodes
  BY <1>1 DEF Waiting
<1> HIDE DEF id, q
<1>6. TreeTyped(v) /\ v.known = t.known /\ v.parked = t.parked
  BY <1>1, <1>5, RemovedNodes, Zenon
<1>7. u = Added(z, id)
  <2>1. u = Added([v EXCEPT !.known = Put(v.known, id, q)], id)
    BY Zenon DEF OnAdded, id, q
  <2> QED
    BY <1>6, <2>1 DEF id, q
<1> HIDE DEF v, k, u
<1>8. /\ TreeTyped(z) /\ z.known = k /\ z.fault = v.fault /\ z.nodes = v.nodes /\ z.parked = v.parked
      /\ Listing(v) => Listing(z)
      /\ \A G : Waiting(v, G) => Waiting(z, G)
      /\ \A C : Mirrored(v, C) /\ (\A x \in DOMAIN v.nodes \cap C : k[x] = v.known[x])
                  => Mirrored(z, C)
  BY <1>3, <1>6, KnownChanges
<1> HIDE DEF z
<1>9. /\ id \in DOMAIN z.known /\ z.known[id] \in F \cup {NoParent} /\ z.known[id] # id
  BY <1>3, <1>4, <1>8
<1>10. CASE id \in DOMAIN t.known /\ t.nodes[id].parent = NoParent
  <2>1. v.fault = RootRemoved
    BY <1>1, <1>5, <1>10, RemovedNodes, Zenon DEF v
  <2> DEFINE y == Placed(z, id)
  <2>2. /\ TreeTyped(y) /\ y.known = z.known /\ y.fault = z.fault
        /\ y.parked = IF z.known[id] \in DOMAIN z.nodes \cup {NoParent} THEN z.parked
                      ELSE Put(z.parked, z.known[id], Append(At(z.parked, z.known[id]), id))
    BY <1>4, <1>8, <1>9, PlacedNodes, Zenon
  <2>3. id \notin DOMAIN y.parked
    <3>1. id \notin DOMAIN z.parked
      BY <1>1, <1>4, <1>6, <1>8 DEF Waiting
    <3>2. \A x : DOMAIN Put(z.parked, z.known[id], x) = DOMAIN z.parked \cup {z.known[id]}
      BY DEF Put
    <3> QED
      BY <1>9, <2>2, <3>1, <3>2
  <2>4. \A n \in Range(At(y.parked, id)) : n \in DOMAIN y.nodes
    <3>1. At(y.parked, id) = <<>> /\ DOMAIN <<>> = {}
      BY <2>3 DEF At
    <3> QED
      BY <3>1 DEF Range
  <2>5. TreeTyped(Adopted(y, id)) /\ Adopted(y, id).known = y.known /\ Adopted(y, id).fault = y.fault
    BY <1>4, <2>2, <2>4, AdoptedNodes, Zenon
  <2>6. TreeTyped(u) /\ u.known = k /\ u.fault = RootRemoved
    BY <1>7, <1>8, <2>1, <2>2, <2>5, Zenon DEF Added
  <2> QED
    BY <2>6, Faults DEF TreeSound, u, k, id
<1>11. CASE ~(id \in DOMAIN t.known /\ t.nodes[id].parent = NoParent)
  <2>1. /\ v.fault = t.fault
        /\ DOMAIN v.nodes = DOMAIN t.nodes \ {id}
        /\ Listing(v) /\ Waiting(v, F)
        /\ \A C : Mirrored(t, C) /\ (\A x \in DOMAIN t.nodes : t.known[x] # id) => Mirrored(v, C)
    <3>1. CASE id \in DOMAIN t.known
      <4>1. v = Removed(t, id)
        BY <3>1 DEF v
      <4> QED
        BY <1>1, <1>4, <1>5, <1>11, <3>1, <4>1, TreeShrinks
    <3>2. CASE id \notin DOMAIN t.known
      <4>1. v = t
        BY <3>2 DEF v
      <4> QED
        BY <1>1, <3>2, <4>1
    <3> QED
      BY <3>1, <3>2
  <2>2. /\ Listing(z) /\ Waiting(z, F) /\ id \notin DOMAIN z.nodes
    BY <1>8, <2>1
  <2>3. /\ TreeTyped(u) /\ u.known = z.known /\ u.fault = z.fault
        /\ DOMAIN u.nodes = DOMAIN z.nodes \cup {id}
        /\ Listing(u) /\ Waiting(u, F)
        /\ \A C : Mirrored(z, C) => Mirrored(u, C)
    BY <1>4, <1>7, <1>8, <1>9, <2>2, TreeGrows
  <2>4. DOMAIN u.nodes = DOMAIN u.known
    BY <1>1, <1>3, <1>8, <2>1, <2>3
  <2>5. \A x \in DOMAIN u.known : u.known[x] \in F \cup {NoParent}
    BY <1>1, <1>3, <1>4, <1>8, <2>3
  <2>6. TreeSound(u, F)
    BY <2>3, <2>4, <2>5, Zenon DEF TreeSound
  <2>7. ASSUME NEW C, Mirrored(t, C)
        PROVE  Mirrored(u, C)
    <3>1. \A x \in DOMAIN t.nodes : t.known[x] # id
      BY <1>1, <1>4, NoParentIsNoId
    <3>2. Mirrored(v, C)
      BY <2>1, <2>7, <3>1
    <3>3. \A x \in DOMAIN v.nodes \cap C : k[x] = v.known[x]
      BY <1>1, <1>3, <1>6, <2>1
    <3> QED
      BY <1>8, <2>3, <3>2, <3>3
  <2> QED
    BY <1>8, <2>3, <2>6, <2>7 DEF u, k, id
<1> QED
  BY <1>10, <1>11

(* The trees that come of one row after another. *)
IsGrown(t, rows, n, f) ==
  f = [i \in 0..n |-> IF i = 0 THEN t ELSE OnItem(f[i - 1], rows[i])]

LEMMA GrownExists ==
  ASSUME NEW t, NEW rows, NEW n \in Nat
  PROVE  \E f : IsGrown(t, rows, n, f)
<1> DEFINE T == {m \in Nat : ~ \E f : IsGrown(t, rows, m, f)}
<1>1. SUFFICES T = {}
  OBVIOUS
<1>2. SUFFICES ASSUME T # {} PROVE FALSE
  OBVIOUS
<1>3. PICK m \in T : \A y \in T : m <= y
  BY <1>2, LeastNumber
<1>4. CASE m = 0
  <2> DEFINE f == [i \in 0..0 |-> t]
  <2>1. IsGrown(t, rows, 0, f)
    BY DEF IsGrown
  <2> QED
    BY <1>3, <1>4, <2>1
<1>5. CASE m # 0
  <2>1. m - 1 \in Nat /\ m - 1 \notin T
    BY <1>3, <1>5
  <2>2. PICK f : IsGrown(t, rows, m - 1, f)
    BY <2>1
  <2> DEFINE last == OnItem(f[m - 1], rows[m])
             g == [i \in 0..m |-> IF i = m THEN last ELSE f[i]]
             step(h, i) == IF i = 0 THEN t ELSE OnItem(h[i - 1], rows[i])
  <2>3. \A i \in 0..(m - 1) : f[i] = step(f, i)
    BY <2>2, Zenon DEF IsGrown
  <2>4. ASSUME NEW i \in 0..m
        PROVE  g[i] = step(g, i)
    <3>1. CASE i = m
      <4>1. m - 1 \in 0..m /\ m - 1 # m
        BY <1>3, <1>5
      <4>2. g[m - 1] = f[m - 1] /\ g[i] = last
        BY <3>1, <4>1
      <4> HIDE DEF g
      <4> QED
        BY <3>1, <1>5, <4>2
    <3>2. CASE i # m
      <4>1. i \in 0..(m - 1) /\ (i # 0 => i - 1 \in 0..m /\ i - 1 # m)
        BY <3>2, <1>3
      <4>2. g[i] = f[i] /\ (i # 0 => g[i - 1] = f[i - 1])
        BY <3>2, <4>1
      <4> HIDE DEF g
      <4> QED
        BY <4>1, <4>2, <2>3
    <3> QED
      BY <3>1, <3>2
  <2>5. g = [i \in 0..m |-> step(g, i)]
    <3> DEFINE h == [i \in 0..m |-> step(g, i)]
    <3>1. \A i \in 0..m : g[i] = h[i]
      BY <2>4
    <3>2. DOMAIN g = 0..m /\ DOMAIN h = 0..m
      OBVIOUS
    <3> HIDE DEF step
    <3> QED
      BY <3>1, <3>2, Zenon
  <2>6. IsGrown(t, rows, m, g)
    BY <2>5, Zenon DEF IsGrown
  <2> QED
    BY <2>6, <1>3
<1> QED
  BY <1>4, <1>5

LEMMA ItemsAreGrown ==
  ASSUME NEW t, NEW rows, Len(rows) \in Nat
  PROVE  \E f : IsGrown(t, rows, Len(rows), f) /\ OnItems(t, rows) = f[Len(rows)]
<1> DEFINE f0 == CHOOSE f :
             f = [n \in 0..Len(rows) |-> IF n = 0 THEN t ELSE OnItem(f[n - 1], rows[n])]
<1>1. OnItems(t, rows) = f0[Len(rows)]
  BY Zenon DEF OnItems
<1>2. \E f : IsGrown(t, rows, Len(rows), f)
  BY GrownExists
<1>3. IsGrown(t, rows, Len(rows), f0)
  BY <1>2, Zenon DEF IsGrown
<1> QED
  BY <1>1, <1>3

(* No row of a channel in C says other than what is known or the others. *)
Agree(t, rows, C) ==
  \A i \in DOMAIN rows : rows[i].id \in C =>
    /\ rows[i].id \in DOMAIN t.known => t.known[rows[i].id] = rows[i].parent
    /\ \A j \in DOMAIN rows : rows[j].id = rows[i].id => rows[j].parent = rows[i].parent

LEMMA OnItemsKeeps ==
  ASSUME NEW t, NEW F \in SUBSET Ids, TreeSound(t, F), t.fault = NoFault, NEW C,
         NEW rows, Len(rows) \in Nat, DOMAIN rows = 1..Len(rows),
         \A i \in DOMAIN rows : RowSound(rows[i], F)
  PROVE  LET u == OnItems(t, rows)
         IN  /\ TreeSound(u, F) /\ u.fault = NoFault
             /\ \A x : x \in DOMAIN u.known <=> x \in DOMAIN t.known \/ \E i \in DOMAIN rows : rows[i].id = x
             /\ \A x \in DOMAIN u.known :
                  \/ x \in DOMAIN t.known /\ u.known[x] = t.known[x]
                  \/ \E i \in DOMAIN rows : rows[i].id = x /\ rows[i].parent = u.known[x]
             /\ Mirrored(t, C) /\ Agree(t, rows, C) => Mirrored(u, C)
<1> DEFINE Grown(s, i) ==
             /\ TreeSound(s, F) /\ s.fault = NoFault
             /\ \A x : x \in DOMAIN s.known <=> x \in DOMAIN t.known \/ \E j \in 1..i : rows[j].id = x
             /\ \A x \in DOMAIN s.known :
                  \/ x \in DOMAIN t.known /\ s.known[x] = t.known[x]
                  \/ \E j \in 1..i : rows[j].id = x /\ rows[j].parent = s.known[x]
             /\ Mirrored(t, C) /\ Agree(t, rows, C) => Mirrored(s, C)
           n == Len(rows)
<1>1. PICK f : IsGrown(t, rows, n, f) /\ OnItems(t, rows) = f[n]
  BY ItemsAreGrown
<1>2. /\ f[0] = t
      /\ \A i \in 1..n : f[i] = OnItem(f[i - 1], rows[i])
  <2>1. \A i \in 0..n : f[i] = IF i = 0 THEN t ELSE OnItem(f[i - 1], rows[i])
    BY <1>1, Zenon DEF IsGrown
  <2>2. 0 \in 0..n /\ \A i \in 1..n : i \in 0..n /\ i # 0
    OBVIOUS
  <2> QED
    BY <2>1, <2>2, Zenon
<1>3. Grown(t, 0)
  OBVIOUS
<1>4. ASSUME NEW i \in 1..n, NEW s, Grown(s, i - 1)
      PROVE  Grown(OnItem(s, rows[i]), i)
  <2> DEFINE u == OnItem(s, rows[i])
             id == rows[i].id
             q == rows[i].parent
             k == Put(s.known, id, q)
  <2>1. RowSound(rows[i], F) /\ i \in DOMAIN rows
    OBVIOUS
  <2>2. /\ TreeSound(u, F) /\ u.fault = NoFault /\ u.known = k
        /\ /\ Mirrored(s, C)
           /\ id \in C \cap DOMAIN s.known => s.known[id] = q
           => Mirrored(u, C)
    <3>1. TreeSound(s, F) /\ s.fault = NoFault
      BY <1>4
    <3>2. LET v == OnItem(s, rows[i])
          IN  /\ TreeSound(v, F) /\ v.fault = NoFault
              /\ v.known = Put(s.known, rows[i].id, rows[i].parent)
              /\ \A D : /\ Mirrored(s, D)
                        /\ rows[i].id \in D \cap DOMAIN s.known => s.known[rows[i].id] = rows[i].parent
                        => Mirrored(v, D)
      BY ONLY <3>1, <2>1, OnItemKeeps, F \in SUBSET Ids
    <3> HIDE DEF u
    <3> QED
      BY ONLY <3>2, Zenon DEF u, k, id, q
  <2>3. /\ \A x : x \in DOMAIN s.known <=> x \in DOMAIN t.known \/ \E j \in 1..(i - 1) : rows[j].id = x
        /\ \A x \in DOMAIN s.known :
             \/ x \in DOMAIN t.known /\ s.known[x] = t.known[x]
             \/ \E j \in 1..(i - 1) : rows[j].id = x /\ rows[j].parent = s.known[x]
        /\ Mirrored(t, C) /\ Agree(t, rows, C) => Mirrored(s, C)
    BY <1>4, Zenon
  <2>4. /\ DOMAIN k = DOMAIN s.known \cup {id} /\ k[id] = q
        /\ \A x \in DOMAIN s.known : x # id => k[x] = s.known[x]
    BY DEF Put
  <2>5. \A j : j \in 1..i <=> j \in 1..(i - 1) \/ j = i
    OBVIOUS
  <2> HIDE DEF u, k
  <2>6. \A x : x \in DOMAIN u.known <=> x \in DOMAIN t.known \/ \E j \in 1..i : rows[j].id = x
    BY <2>2, <2>3, <2>4, <2>5
  <2>7. ASSUME NEW x \in DOMAIN u.known
        PROVE  \/ x \in DOMAIN t.known /\ u.known[x] = t.known[x]
               \/ \E j \in 1..i : rows[j].id = x /\ rows[j].parent = u.known[x]
    <3>1. CASE x = id
      BY <2>2, <2>4, <2>5, <3>1
    <3>2. CASE x # id
      <4>1. x \in DOMAIN s.known /\ u.known[x] = s.known[x]
        BY <2>2, <2>4, <2>7, <3>2
      <4> QED
        BY <2>3, <2>5, <4>1
    <3> QED
      BY <3>1, <3>2
  <2>8. ASSUME Mirrored(t, C), Agree(t, rows, C)
        PROVE  Mirrored(u, C)
    <3>1. ASSUME id \in C \cap DOMAIN s.known
          PROVE  s.known[id] = q
      <4>1. CASE id \in DOMAIN t.known /\ s.known[id] = t.known[id]
        BY <2>1, <2>8, <3>1, <4>1 DEF Agree
      <4>2. ASSUME NEW j \in 1..(i - 1), rows[j].id = id /\ rows[j].parent = s.known[id]
            PROVE  s.known[id] = q
        <5>1. j \in DOMAIN rows
          OBVIOUS
        <5> QED
          BY <2>1, <2>8, <3>1, <4>2, <5>1 DEF Agree
      <4> QED
        BY <2>3, <3>1, <4>1, <4>2
    <3> QED
      BY <2>2, <2>3, <2>8, <3>1
  <2>9. TreeSound(u, F) /\ u.fault = NoFault
    BY <2>2
  <2> QED
    BY <2>6, <2>7, <2>8, <2>9, Zenon DEF u
<1>5. \A i \in 0..n : Grown(f[i], i)
  <2> HIDE DEF Grown
  <2> DEFINE T == {i \in 0..n : ~Grown(f[i], i)}
  <2>1. SUFFICES ASSUME T # {} PROVE FALSE
    OBVIOUS
  <2>2. T \subseteq Nat
    OBVIOUS
  <2>3. PICK i \in T : \A y \in T : i <= y
    BY <2>1, <2>2, LeastNumber
  <2>4. i # 0
    BY <1>2, <1>3, <2>3
  <2>5. i \in 1..n /\ i - 1 \in 0..n /\ i - 1 \notin T
    BY <2>3, <2>4
  <2>6. Grown(f[i - 1], i - 1)
    BY <2>5
  <2>7. Grown(f[i], i)
    BY <1>2, <1>4, <2>5, <2>6
  <2> QED
    BY <2>3, <2>7
<1>6. Grown(f[n], n)
  <2> HIDE DEF Grown
  <2> QED
    BY <1>5
<1> QED
  BY ONLY <1>1, <1>6, DOMAIN rows = 1..Len(rows), Zenon

-----------------------------------------------------------------------------
(* Announcements.                                                          *)

Message ==
  [cmd : {"added"}, row : RowType] \cup [cmd : {"removed"}, id : Ids]
    \cup [cmd : {"items"}, rows : Seq(RowType)]

MessageSound(m, F, n) ==
  /\ m.cmd = "added" => RowSound(m.row, F) /\ m.row.id < n /\ m.row.id \notin F
  /\ m.cmd = "removed" => m.id < n /\ m.id \notin F
  /\ m.cmd = "items" => \A i \in DOMAIN m.rows : RowSound(m.rows[i], F) /\ m.rows[i].id < n

(* The announcement tells of a channel x with the parent q. *)
Tells(m, x, q) ==
  \/ m.cmd = "added" /\ m.row.id = x /\ m.row.parent = q
  \/ m.cmd = "items" /\ \E i \in DOMAIN m.rows : m.rows[i].id = x /\ m.rows[i].parent = q

Ends(m, x) == m.cmd = "removed" /\ m.id = x

(* The announcement does not say of a channel in C what the mirror and     *)
(* itself do not say.                                                      *)
Agrees(t, m, C) ==
  \A x \in C : \A q : Tells(m, x, q) =>
    /\ x \in DOMAIN t.known => t.known[x] = q
    /\ \A r : Tells(m, x, r) => r = q

LEMMA MessageShapes ==
  ASSUME NEW m \in Message
  PROVE  \/ m.cmd = "added" /\ m.row \in RowType
         \/ m.cmd = "removed" /\ m.id \in Ids
         \/ m.cmd = "items" /\ m.rows \in Seq(RowType)
BY DEF Message

LEMMA ConsumedKeeps ==
  ASSUME NEW t, NEW F \in SUBSET Ids, TreeSound(t, F), t.fault = NoFault, NEW C,
         NEW m \in Message, NEW n, MessageSound(m, F, n)
  PROVE  LET u == Consumed(t, m)
         IN  /\ TreeSound(u, F)
             /\ \A x \in DOMAIN u.known :
                  \/ Tells(m, x, u.known[x])
                  \/ x \in DOMAIN t.known /\ u.known[x] = t.known[x] /\ ~Ends(m, x)
             /\ \A x, q : Tells(m, x, q) => x \in DOMAIN u.known
             /\ \A x \in DOMAIN t.known : ~Ends(m, x) => x \in DOMAIN u.known
             /\ u.fault = NoFault /\ Mirrored(t, C) /\ Agrees(t, m, C) => Mirrored(u, C)
<1> DEFINE u == Consumed(t, m)
<1>1. CASE m.cmd = "added" /\ m.row \in RowType
  <2>1. u = OnAdded(t, m.row)
    BY <1>1, Zenon DEF Consumed
  <2>2. RowSound(m.row, F) /\ m.row.id \notin F
    BY <1>1 DEF MessageSound
  <2>3. /\ TreeSound(u, F)
        /\ u.known = Put(t.known, m.row.id, m.row.parent)
        /\ u.fault = NoFault => \A D : Mirrored(t, D) => Mirrored(u, D)
    <3>1. LET v == OnAdded(t, m.row)
          IN  /\ TreeSound(v, F)
              /\ v.known = Put(t.known, m.row.id, m.row.parent)
              /\ v.fault = NoFault => \A D : Mirrored(t, D) => Mirrored(v, D)
      BY ONLY <2>2, OnAddedKeeps, F \in SUBSET Ids, TreeSound(t, F), t.fault = NoFault
    <3> QED
      BY ONLY <2>1, <3>1, Zenon
  <2> HIDE DEF u
  <2>4. \A x, q : Tells(m, x, q) <=> m.row.id = x /\ m.row.parent = q
    BY <1>1 DEF Tells
  <2>5. \A x : ~Ends(m, x)
    BY <1>1 DEF Ends
  <2>6. /\ DOMAIN u.known = DOMAIN t.known \cup {m.row.id}
        /\ u.known[m.row.id] = m.row.parent
        /\ \A x \in DOMAIN t.known : x # m.row.id => u.known[x] = t.known[x]
    BY <2>3 DEF Put
  <2> QED
    BY <2>3, <2>4, <2>5, <2>6 DEF u
<1>2. CASE m.cmd = "removed" /\ m.id \in Ids
  <2>1. u = OnRemoved(t, m.id)
    BY <1>2, Zenon DEF Consumed
  <2>2. m.id \in Ids \ F
    BY <1>2 DEF MessageSound
  <2>3. /\ TreeSound(u, F)
        /\ u.known = Drop(t.known, m.id)
        /\ u.fault = NoFault => \A D : Mirrored(t, D) => Mirrored(u, D)
    <3>1. LET v == OnRemoved(t, m.id)
          IN  /\ TreeSound(v, F)
              /\ v.known = Drop(t.known, m.id)
              /\ v.fault = NoFault => \A D : Mirrored(t, D) => Mirrored(v, D)
      BY ONLY <2>2, OnRemovedKeeps, F \in SUBSET Ids, TreeSound(t, F), t.fault = NoFault
    <3> QED
      BY ONLY <2>1, <3>1, Zenon
  <2> HIDE DEF u
  <2>4. \A x, q : ~Tells(m, x, q)
    BY <1>2 DEF Tells
  <2>5. \A x : Ends(m, x) <=> x = m.id
    BY <1>2 DEF Ends
  <2>6. /\ DOMAIN u.known = DOMAIN t.known \ {m.id}
        /\ \A x \in DOMAIN u.known : u.known[x] = t.known[x]
    BY <2>3 DEF Drop
  <2> QED
    BY <2>3, <2>4, <2>5, <2>6 DEF u
<1>3. CASE m.cmd = "items" /\ m.rows \in Seq(RowType)
  <2>1. u = OnItems(t, m.rows)
    BY <1>3, Zenon DEF Consumed
  <2>2. /\ Len(m.rows) \in Nat /\ DOMAIN m.rows = 1..Len(m.rows)
        /\ \A i \in DOMAIN m.rows : RowSound(m.rows[i], F)
    BY <1>3, LenProperties DEF MessageSound
  <2>3. LET v == OnItems(t, m.rows)
        IN  /\ TreeSound(v, F) /\ v.fault = NoFault
            /\ \A x : x \in DOMAIN v.known <=> x \in DOMAIN t.known \/ \E i \in DOMAIN m.rows : m.rows[i].id = x
            /\ \A x \in DOMAIN v.known :
                 \/ x \in DOMAIN t.known /\ v.known[x] = t.known[x]
                 \/ \E i \in DOMAIN m.rows : m.rows[i].id = x /\ m.rows[i].parent = v.known[x]
            /\ Mirrored(t, C) /\ Agree(t, m.rows, C) => Mirrored(v, C)
    BY ONLY <2>2, OnItemsKeeps, F \in SUBSET Ids, TreeSound(t, F), t.fault = NoFault
  <2> HIDE DEF u
  <2>4. \A x, q : Tells(m, x, q) <=> \E i \in DOMAIN m.rows : m.rows[i].id = x /\ m.rows[i].parent = q
    BY <1>3 DEF Tells
  <2>5. \A x : ~Ends(m, x)
    BY <1>3 DEF Ends
  <2>6. ASSUME Agrees(t, m, C)
        PROVE  Agree(t, m.rows, C)
    <3> SUFFICES ASSUME NEW i \in DOMAIN m.rows, m.rows[i].id \in C
                 PROVE  /\ m.rows[i].id \in DOMAIN t.known => t.known[m.rows[i].id] = m.rows[i].parent
                        /\ \A j \in DOMAIN m.rows :
                             m.rows[j].id = m.rows[i].id => m.rows[j].parent = m.rows[i].parent
      BY Zenon DEF Agree
    <3>1. \A j \in DOMAIN m.rows : Tells(m, m.rows[j].id, m.rows[j].parent)
      BY <2>4
    <3> QED
      BY <2>6, <3>1 DEF Agrees
  <2>7. /\ TreeSound(u, F)
        /\ \A x : x \in DOMAIN u.known <=> x \in DOMAIN t.known \/ \E i \in DOMAIN m.rows : m.rows[i].id = x
        /\ \A x \in DOMAIN u.known :
             \/ x \in DOMAIN t.known /\ u.known[x] = t.known[x]
             \/ \E i \in DOMAIN m.rows : m.rows[i].id = x /\ m.rows[i].parent = u.known[x]
        /\ Mirrored(t, C) /\ Agree(t, m.rows, C) => Mirrored(u, C)
    BY <2>1, <2>3, Zenon
  <2> QED
    BY <2>4, <2>5, <2>6, <2>7 DEF u
<1> QED
  BY <1>1, <1>2, <1>3, MessageShapes

-----------------------------------------------------------------------------
(* What a client has heard and will hear of a channel: its mirror k is     *)
(* what was said at 0, and then come the announcements of the feed f.      *)

Says(k, f, i, x, q) == IF i = 0 THEN x \in DOMAIN k /\ k[x] = q ELSE Tells(f[i], x, q)

(* What was said at i is over at j. *)
Over(f, i, j, x) == \E l \in (i + 1)..j : Ends(f[l], x)

(* In the end there is no such channel. *)
Silent(k, f, x) ==
  \A i \in 0..Len(f) : \A q : Says(k, f, i, x, q) => Over(f, i, Len(f), x)

(* In the end its parent is q, if there is such a channel. *)
Only(k, f, x, q) ==
  \A i \in 0..Len(f) : \A r : Says(k, f, i, x, r) => r = q \/ Over(f, i, Len(f), x)

Told(k, f, x) == \E i \in 0..Len(f) : \E q : Says(k, f, i, x, q)

(* Where it ends it is told of again. *)
Resumed(k, f, x) ==
  \A i \in 1..Len(f) : Ends(f[i], x) => \E j \in (i + 1)..Len(f) : \E q : Says(k, f, j, x, q)

Unheard(k, f, x) ==
  /\ \A i \in 0..Len(f) : \A q : ~Says(k, f, i, x, q)
  /\ \A i \in 1..Len(f) : ~Ends(f[i], x)

(* Its parent is another only after it has ended. *)
Steady(k, f, x) ==
  \A i, j \in 0..Len(f) : \A q, r :
    i <= j /\ Says(k, f, i, x, q) /\ Says(k, f, j, x, r) => q = r \/ Over(f, i, j, x)

LEMMA UnheardFacts ==
  ASSUME NEW k, NEW f, NEW x, Unheard(k, f, x)
  PROVE  /\ Silent(k, f, x) /\ Resumed(k, f, x) /\ Steady(k, f, x)
         /\ \A q : Only(k, f, x, q)
BY DEF Unheard, Silent, Resumed, Steady, Only

LEMMA SilentIsOnly ==
  ASSUME NEW k, NEW f, NEW x, Silent(k, f, x)
  PROVE  \A q : Only(k, f, x, q)
BY Zenon DEF Silent, Only

LEMMA NothingHeard ==
  ASSUME NEW k, DOMAIN k = {}
  PROVE  \A x : Unheard(k, <<>>, x)
<1>1. Len(<<>>) = 0
  OBVIOUS
<1>2. \A i \in 0..0 : i = 0
  OBVIOUS
<1>3. \A i \in 1..0 : FALSE
  OBVIOUS
<1> QED
  BY <1>1, <1>2, <1>3 DEF Unheard, Says

LEMMA ToldOrEnded ==
  ASSUME NEW m, NEW x, Ends(m, x)
  PROVE  \A q : ~Tells(m, x, q)
<1>1. "removed" # "added" /\ "removed" # "items"
  OBVIOUS
<1> QED
  BY <1>1 DEF Ends, Tells

(* One more announcement. *)
LEMMA SaidMore ==
  ASSUME NEW k, NEW S, NEW f \in Seq(S), NEW m \in S, NEW x
  PROVE  LET g == Append(f, m)
         IN  /\ Len(g) = Len(f) + 1 /\ Len(f) \in Nat
             /\ \A i \in 1..Len(f) : g[i] = f[i]
             /\ g[Len(f) + 1] = m
             /\ \A i \in 0..Len(f) : \A q : Says(k, g, i, x, q) <=> Says(k, f, i, x, q)
             /\ \A q : Says(k, g, Len(f) + 1, x, q) <=> Tells(m, x, q)
             /\ \A i \in 0..Len(f), j \in 0..Len(f) : Over(g, i, j, x) <=> Over(f, i, j, x)
             /\ \A i \in 0..Len(f) : Over(g, i, Len(f) + 1, x) <=> Over(f, i, Len(f), x) \/ Ends(m, x)
<1> DEFINE g == Append(f, m)
           n == Len(f)
<1>1. /\ Len(g) = n + 1 /\ n \in Nat
      /\ \A i \in 1..n : g[i] = f[i]
      /\ g[n + 1] = m
  BY AppendProperties, LenProperties
<1> HIDE DEF g, n
<1>2. \A i \in 0..n : \A q : Says(k, g, i, x, q) <=> Says(k, f, i, x, q)
  <2>1. \A i \in 0..n : i = 0 \/ i \in 1..n
    BY <1>1
  <2> QED
    BY <1>1, <2>1 DEF Says
<1>3. \A q : Says(k, g, n + 1, x, q) <=> Tells(m, x, q)
  <2>1. n + 1 # 0
    BY <1>1
  <2> QED
    BY <1>1, <2>1 DEF Says
<1>4. ASSUME NEW i \in 0..n, NEW j \in 0..n
      PROVE  Over(g, i, j, x) <=> Over(f, i, j, x)
  <2>1. \A l \in (i + 1)..j : l \in 1..n
    BY <1>1
  <2> QED
    BY <1>1, <2>1 DEF Over
<1>5. ASSUME NEW i \in 0..n
      PROVE  Over(g, i, n + 1, x) <=> Over(f, i, n, x) \/ Ends(m, x)
  <2>1. /\ \A l \in (i + 1)..(n + 1) : l \in (i + 1)..n \/ l = n + 1
        /\ \A l \in (i + 1)..n : l \in (i + 1)..(n + 1) /\ l \in 1..n
        /\ n + 1 \in (i + 1)..(n + 1)
    BY <1>1
  <2> QED
    BY <1>1, <2>1 DEF Over
<1> QED
  BY <1>1, <1>2, <1>3, <1>4, <1>5 DEF g, n

(* An announcement that is not about a channel changes nothing of it. *)
LEMMA OthersAreSaid ==
  ASSUME NEW k, NEW S, NEW f \in Seq(S), NEW m \in S, NEW x,
         \A q : ~Tells(m, x, q), ~Ends(m, x)
  PROVE  LET g == Append(f, m)
         IN  /\ Silent(k, f, x) => Silent(k, g, x)
             /\ \A q : Only(k, f, x, q) => Only(k, g, x, q)
             /\ Told(k, f, x) => Told(k, g, x)
             /\ Resumed(k, f, x) => Resumed(k, g, x)
             /\ Unheard(k, f, x) => Unheard(k, g, x)
             /\ Steady(k, f, x) => Steady(k, g, x)
<1> DEFINE g == Append(f, m)
           n == Len(f)
<1>1. /\ Len(g) = n + 1 /\ n \in Nat
      /\ \A i \in 1..n : g[i] = f[i]
      /\ g[n + 1] = m
      /\ \A i \in 0..n : \A q : Says(k, g, i, x, q) <=> Says(k, f, i, x, q)
      /\ \A q : ~Says(k, g, n + 1, x, q)
      /\ \A i, j \in 0..n : Over(g, i, j, x) <=> Over(f, i, j, x)
      /\ \A i \in 0..n : Over(g, i, n + 1, x) <=> Over(f, i, n, x)
  <2>1. LET h == Append(f, m)
        IN  /\ Len(h) = Len(f) + 1 /\ Len(f) \in Nat
            /\ \A i \in 1..Len(f) : h[i] = f[i]
            /\ h[Len(f) + 1] = m
            /\ \A i \in 0..Len(f) : \A q : Says(k, h, i, x, q) <=> Says(k, f, i, x, q)
            /\ \A q : Says(k, h, Len(f) + 1, x, q) <=> Tells(m, x, q)
            /\ \A i \in 0..Len(f), j \in 0..Len(f) : Over(h, i, j, x) <=> Over(f, i, j, x)
            /\ \A i \in 0..Len(f) : Over(h, i, Len(f) + 1, x) <=> Over(f, i, Len(f), x) \/ Ends(m, x)
    BY ONLY SaidMore, f \in Seq(S), m \in S
  <2> QED
    BY <2>1, Zenon
<1>2. /\ \A i \in 0..(n + 1) : i \in 0..n \/ i = n + 1
      /\ \A i \in 0..n : i \in 0..(n + 1)
      /\ \A i \in 1..(n + 1) : i \in 1..n \/ i = n + 1
      /\ \A i, j \in 0..(n + 1) : i <= j /\ j \in 0..n => i \in 0..n
      /\ \A i \in 1..n : \A j \in (i + 1)..n : j \in (i + 1)..(n + 1) /\ j \in 0..n
  BY <1>1
<1> HIDE DEF g, n
<1>3. Silent(k, f, x) => Silent(k, g, x)
  BY <1>1, <1>2 DEF Silent, n
<1>4. \A q : Only(k, f, x, q) => Only(k, g, x, q)
  BY <1>1, <1>2 DEF Only, n
<1>5. Told(k, f, x) => Told(k, g, x)
  BY <1>1, <1>2 DEF Told, n
<1>6. Resumed(k, f, x) => Resumed(k, g, x)
  BY <1>1, <1>2 DEF Resumed, n
<1>7. Unheard(k, f, x) => Unheard(k, g, x)
  BY <1>1, <1>2 DEF Unheard, n
<1>8. Steady(k, f, x) => Steady(k, g, x)
  BY <1>1, <1>2 DEF Steady, n
<1> QED
  BY <1>3, <1>4, <1>5, <1>6, <1>7, <1>8 DEF g

(* A channel ends. *)
LEMMA EndIsSaid ==
  ASSUME NEW k, NEW S, NEW f \in Seq(S), NEW m \in S, NEW x, Ends(m, x)
  PROVE  LET g == Append(f, m)
         IN  Silent(k, g, x) /\ (Steady(k, f, x) => Steady(k, g, x))
<1> DEFINE g == Append(f, m)
           n == Len(f)
<1>1. /\ Len(g) = n + 1 /\ n \in Nat
      /\ \A i \in 0..n : \A q : Says(k, g, i, x, q) <=> Says(k, f, i, x, q)
      /\ \A q : ~Says(k, g, n + 1, x, q)
      /\ \A i, j \in 0..n : Over(g, i, j, x) <=> Over(f, i, j, x)
      /\ \A i \in 0..n : Over(g, i, n + 1, x)
  <2>1. LET h == Append(f, m)
        IN  /\ Len(h) = Len(f) + 1 /\ Len(f) \in Nat
            /\ \A i \in 1..Len(f) : h[i] = f[i]
            /\ h[Len(f) + 1] = m
            /\ \A i \in 0..Len(f) : \A q : Says(k, h, i, x, q) <=> Says(k, f, i, x, q)
            /\ \A q : Says(k, h, Len(f) + 1, x, q) <=> Tells(m, x, q)
            /\ \A i \in 0..Len(f), j \in 0..Len(f) : Over(h, i, j, x) <=> Over(f, i, j, x)
            /\ \A i \in 0..Len(f) : Over(h, i, Len(f) + 1, x) <=> Over(f, i, Len(f), x) \/ Ends(m, x)
    BY ONLY SaidMore, f \in Seq(S), m \in S
  <2>2. \A q : ~Tells(m, x, q)
    BY ToldOrEnded
  <2> QED
    BY <2>1, <2>2, Zenon
<1>2. /\ \A i \in 0..(n + 1) : i \in 0..n \/ i = n + 1
      /\ \A i, j \in 0..(n + 1) : i <= j /\ j \in 0..n => i \in 0..n
  BY <1>1
<1> HIDE DEF g, n
<1>3. Silent(k, g, x)
  BY <1>1, <1>2 DEF Silent
<1>4. Steady(k, f, x) => Steady(k, g, x)
  BY <1>1, <1>2 DEF Steady, n
<1> QED
  BY <1>3, <1>4 DEF g

(* A channel is told of, with the only parent that it may have. *)
LEMMA TellingIsSaid ==
  ASSUME NEW k, NEW S, NEW f \in Seq(S), NEW m \in S, NEW x, NEW q,
         Tells(m, x, q), \A r : Tells(m, x, r) => r = q, ~Ends(m, x), Only(k, f, x, q)
  PROVE  LET g == Append(f, m)
         IN  /\ Told(k, g, x) /\ Resumed(k, g, x) /\ Only(k, g, x, q)
             /\ Steady(k, f, x) => Steady(k, g, x)
<1> DEFINE g == Append(f, m)
           n == Len(f)
<1>1. /\ Len(g) = n + 1 /\ n \in Nat
      /\ \A i \in 1..n : g[i] = f[i]
      /\ g[n + 1] = m
      /\ \A i \in 0..n : \A r : Says(k, g, i, x, r) <=> Says(k, f, i, x, r)
      /\ \A r : Says(k, g, n + 1, x, r) <=> r = q
      /\ \A i, j \in 0..n : Over(g, i, j, x) <=> Over(f, i, j, x)
      /\ \A i \in 0..n : Over(g, i, n + 1, x) <=> Over(f, i, n, x)
  <2>1. LET h == Append(f, m)
        IN  /\ Len(h) = Len(f) + 1 /\ Len(f) \in Nat
            /\ \A i \in 1..Len(f) : h[i] = f[i]
            /\ h[Len(f) + 1] = m
            /\ \A i \in 0..Len(f) : \A r : Says(k, h, i, x, r) <=> Says(k, f, i, x, r)
            /\ \A r : Says(k, h, Len(f) + 1, x, r) <=> Tells(m, x, r)
            /\ \A i \in 0..Len(f), j \in 0..Len(f) : Over(h, i, j, x) <=> Over(f, i, j, x)
            /\ \A i \in 0..Len(f) : Over(h, i, Len(f) + 1, x) <=> Over(f, i, Len(f), x) \/ Ends(m, x)
    BY ONLY SaidMore, f \in Seq(S), m \in S
  <2> QED
    BY <2>1, Zenon
<1>2. /\ \A i \in 0..(n + 1) : i \in 0..n \/ i = n + 1
      /\ \A i \in 1..(n + 1) : i \in 1..n \/ i = n + 1
      /\ n + 1 \in 0..(n + 1)
      /\ \A i, j \in 0..(n + 1) : i <= j /\ j \in 0..n => i \in 0..n
      /\ \A i \in 1..n : n + 1 \in (i + 1)..(n + 1)
  BY <1>1
<1> HIDE DEF g, n
<1>3. Told(k, g, x)
  BY <1>1, <1>2 DEF Told
<1>4. Resumed(k, g, x)
  BY <1>1, <1>2 DEF Resumed
<1>5. Only(k, g, x, q)
  BY <1>1, <1>2 DEF Only, n
<1>6. ASSUME Steady(k, f, x)
      PROVE  Steady(k, g, x)
  <2> SUFFICES ASSUME NEW i \in 0..(n + 1), NEW j \in 0..(n + 1), NEW r, NEW p, i <= j,
                      Says(k, g, i, x, r), Says(k, g, j, x, p)
               PROVE  r = p \/ Over(g, i, j, x)
    BY <1>1 DEF Steady
  <2>1. CASE j \in 0..n
    BY <1>1, <1>2, <1>6, <2>1 DEF Steady, n
  <2>2. CASE j = n + 1 /\ i = n + 1
    BY <1>1, <2>2
  <2>3. CASE j = n + 1 /\ i \in 0..n
    <3>1. p = q /\ Says(k, f, i, x, r)
      BY <1>1, <2>3
    <3>2. r = q \/ Over(f, i, n, x)
      BY <2>3, <3>1 DEF Only, n
    <3> QED
      BY <1>1, <2>3, <3>1, <3>2
  <2> QED
    BY <1>2, <2>1, <2>2, <2>3
<1> QED
  BY <1>3, <1>4, <1>5, <1>6 DEF g

(* The mirror takes an announcement: what it says then is what it said     *)
(* before, or what the announcement says.                                  *)
Takes(k, m, l) ==
  /\ \A x \in DOMAIN l :
       \/ Tells(m, x, l[x])
       \/ x \in DOMAIN k /\ l[x] = k[x] /\ ~Ends(m, x)
  /\ \A x, q : Tells(m, x, q) => x \in DOMAIN l
  /\ \A x \in DOMAIN k : ~Ends(m, x) => x \in DOMAIN l

LEMMA SaidBefore ==
  ASSUME NEW k, NEW S, NEW f \in Seq(S), f # <<>>, NEW l, Takes(k, Head(f), l), NEW x
  PROVE  LET g == Tail(f)
         IN  /\ Len(f) = Len(g) + 1 /\ Len(g) \in Nat
             /\ \A i \in 1..Len(g) : g[i] = f[i + 1]
             /\ Head(f) = f[1]
             /\ \A i \in 1..Len(g) : \A q : Says(l, g, i, x, q) <=> Says(k, f, i + 1, x, q)
             /\ \A i, j \in 0..Len(g) : Over(g, i, j, x) <=> Over(f, i + 1, j + 1, x)
             /\ \A q : Says(l, g, 0, x, q) =>
                  \/ Says(k, f, 1, x, q)
                  \/ /\ Says(k, f, 0, x, q)
                     /\ \A j \in 0..Len(g) : Over(f, 0, j + 1, x) => Over(g, 0, j, x)
<1> DEFINE g == Tail(f)
           n == Len(g)
           m == Head(f)
<1>1. /\ Len(f) = n + 1 /\ n \in Nat /\ m = f[1]
      /\ \A i \in 1..n : g[i] = f[i + 1]
  <2>1. Len(f) \in Nat \ {0}
    BY LenProperties, EmptySeq
  <2> QED
    BY <2>1, HeadTailProperties
<1> HIDE DEF g, n, m
<1>2. \A i \in 1..n : \A q : Says(l, g, i, x, q) <=> Says(k, f, i + 1, x, q)
  <2>1. \A i \in 1..n : i # 0 /\ i + 1 # 0
    BY <1>1
  <2> QED
    BY <1>1, <2>1 DEF Says
<1>3. ASSUME NEW i \in 0..n, NEW j \in 0..n
      PROVE  Over(g, i, j, x) <=> Over(f, i + 1, j + 1, x)
  <2>1. /\ \A h \in (i + 1)..j : h \in 1..n /\ h + 1 \in ((i + 1) + 1)..(j + 1)
        /\ \A h \in ((i + 1) + 1)..(j + 1) : h - 1 \in (i + 1)..j /\ h - 1 \in 1..n /\ (h - 1) + 1 = h
    BY <1>1
  <2>2. ASSUME Over(g, i, j, x)
        PROVE  Over(f, i + 1, j + 1, x)
    <3>1. PICK h \in (i + 1)..j : Ends(g[h], x)
      BY <2>2 DEF Over
    <3>2. Ends(f[h + 1], x)
      BY <1>1, <2>1, <3>1
    <3> QED
      BY <2>1, <3>2 DEF Over
  <2>3. ASSUME Over(f, i + 1, j + 1, x)
        PROVE  Over(g, i, j, x)
    <3>1. PICK h \in ((i + 1) + 1)..(j + 1) : Ends(f[h], x)
      BY <2>3 DEF Over
    <3>2. h - 1 \in (i + 1)..j /\ h - 1 \in 1..n /\ (h - 1) + 1 = h
      BY <2>1
    <3>3. Ends(g[h - 1], x)
      BY <1>1, <3>1, <3>2
    <3> QED
      BY <3>2, <3>3 DEF Over
  <2> QED
    BY <2>2, <2>3
<1>4. ASSUME NEW q, Says(l, g, 0, x, q)
      PROVE  \/ Says(k, f, 1, x, q)
             \/ /\ Says(k, f, 0, x, q)
                /\ \A j \in 0..n : Over(f, 0, j + 1, x) => Over(g, 0, j, x)
  <2>1. x \in DOMAIN l /\ l[x] = q
    BY <1>4 DEF Says
  <2>2. \/ Tells(m, x, l[x])
        \/ x \in DOMAIN k /\ l[x] = k[x] /\ ~Ends(m, x)
    BY <2>1, Zenon DEF Takes, m
  <2>3. CASE Tells(m, x, l[x])
    <3>1. 1 # 0
      OBVIOUS
    <3> QED
      BY <1>1, <2>1, <2>3, <3>1 DEF Says
  <2>4. CASE x \in DOMAIN k /\ l[x] = k[x] /\ ~Ends(m, x)
    <3>1. Says(k, f, 0, x, q)
      BY <2>1, <2>4 DEF Says
    <3>2. ASSUME NEW j \in 0..n, Over(f, 0, j + 1, x)
          PROVE  Over(g, 0, j, x)
      <4>1. PICK h \in (0 + 1)..(j + 1) : Ends(f[h], x)
        BY <3>2 DEF Over
      <4>2. h # 1
        BY <1>1, <2>4, <4>1
      <4>3. h \in ((0 + 1) + 1)..(j + 1)
        BY <4>2
      <4>4. Over(f, 0 + 1, j + 1, x)
        BY <4>1, <4>3 DEF Over
      <4> QED
        BY <1>1, <1>3, <4>4
    <3> QED
      BY <3>1, <3>2
  <2> QED
    BY <2>2, <2>3, <2>4
<1> QED
  BY <1>1, <1>2, <1>3, <1>4 DEF g, n, m

LEMMA TakingKeeps ==
  ASSUME NEW k, NEW S, NEW f \in Seq(S), f # <<>>, NEW l, Takes(k, Head(f), l), NEW x
  PROVE  LET g == Tail(f)
         IN  /\ Silent(k, f, x) => Silent(l, g, x)
             /\ \A q : Only(k, f, x, q) => Only(l, g, x, q)
             /\ Resumed(k, f, x) => Resumed(l, g, x)
             /\ Told(k, f, x) /\ Resumed(k, f, x) => Told(l, g, x)
             /\ Unheard(k, f, x) => Unheard(l, g, x)
             /\ Steady(k, f, x) => Steady(l, g, x)
<1> DEFINE g == Tail(f)
           n == Len(g)
           m == Head(f)
<1>1. /\ Len(f) = n + 1 /\ n \in Nat /\ m = f[1]
      /\ \A i \in 1..n : g[i] = f[i + 1]
      /\ \A i \in 1..n : \A q : Says(l, g, i, x, q) <=> Says(k, f, i + 1, x, q)
      /\ \A i, j \in 0..n : Over(g, i, j, x) <=> Over(f, i + 1, j + 1, x)
      /\ \A q : Says(l, g, 0, x, q) =>
           \/ Says(k, f, 1, x, q)
           \/ /\ Says(k, f, 0, x, q)
              /\ \A j \in 0..n : Over(f, 0, j + 1, x) => Over(g, 0, j, x)
  <2>1. LET h == Tail(f)
        IN  /\ Len(f) = Len(h) + 1 /\ Len(h) \in Nat
            /\ \A i \in 1..Len(h) : h[i] = f[i + 1]
            /\ Head(f) = f[1]
            /\ \A i \in 1..Len(h) : \A q : Says(l, h, i, x, q) <=> Says(k, f, i + 1, x, q)
            /\ \A i, j \in 0..Len(h) : Over(h, i, j, x) <=> Over(f, i + 1, j + 1, x)
            /\ \A q : Says(l, h, 0, x, q) =>
                 \/ Says(k, f, 1, x, q)
                 \/ /\ Says(k, f, 0, x, q)
                    /\ \A j \in 0..Len(h) : Over(f, 0, j + 1, x) => Over(h, 0, j, x)
    BY ONLY SaidBefore, f \in Seq(S), f # <<>>, Takes(k, Head(f), l)
  <2> QED
    BY <2>1, Zenon
<1> HIDE DEF g, n, m
(* What is said then was said before, and is over when it was. *)
<1>2. ASSUME NEW i \in 0..n, NEW q, Says(l, g, i, x, q)
      PROVE  \E h \in 0..(i + 1) :
               /\ h = i + 1 \/ i = 0
               /\ Says(k, f, h, x, q)
               /\ \A j \in 0..n : Over(f, h, j + 1, x) => Over(g, i, j, x)
  <2>1. CASE i = 0
    BY <1>1, <1>2, <2>1
  <2>2. CASE i \in 1..n
    <3>1. i + 1 \in 0..(i + 1)
      BY <1>1, <2>2
    <3> QED
      BY <1>1, <1>2, <2>2, <3>1
  <2> QED
    BY <1>1, <2>1, <2>2
<1>3. ASSUME Silent(k, f, x)
      PROVE  Silent(l, g, x)
  <2> SUFFICES ASSUME NEW i \in 0..n, NEW q, Says(l, g, i, x, q)
               PROVE  Over(g, i, n, x)
    BY DEF Silent, n
  <2>1. PICK h \in 0..(i + 1) : /\ Says(k, f, h, x, q)
                                /\ \A j \in 0..n : Over(f, h, j + 1, x) => Over(g, i, j, x)
    BY <1>2
  <2>2. h \in 0..Len(f) /\ n \in 0..n
    BY <1>1
  <2>3. Over(f, h, Len(f), x)
    BY <1>3, <2>1, <2>2 DEF Silent
  <2> QED
    BY <1>1, <2>1, <2>2, <2>3
<1>4. ASSUME NEW p, Only(k, f, x, p)
      PROVE  Only(l, g, x, p)
  <2> SUFFICES ASSUME NEW i \in 0..n, NEW q, Says(l, g, i, x, q)
               PROVE  q = p \/ Over(g, i, n, x)
    BY DEF Only, n
  <2>1. PICK h \in 0..(i + 1) : /\ Says(k, f, h, x, q)
                                /\ \A j \in 0..n : Over(f, h, j + 1, x) => Over(g, i, j, x)
    BY <1>2
  <2>2. h \in 0..Len(f) /\ n \in 0..n
    BY <1>1
  <2>3. q = p \/ Over(f, h, Len(f), x)
    BY <1>4, <2>1, <2>2 DEF Only
  <2> QED
    BY <1>1, <2>1, <2>2, <2>3
(* What was said after the announcement is said then. *)
<1>5. ASSUME NEW j \in 1..(n + 1), j # 1, NEW q, Says(k, f, j, x, q)
      PROVE  j - 1 \in 1..n /\ Says(l, g, j - 1, x, q)
  <2>1. j - 1 \in 1..n /\ (j - 1) + 1 = j
    BY <1>1, <1>5
  <2> QED
    BY <1>1, <1>5, <2>1
<1>6. ASSUME Resumed(k, f, x)
      PROVE  Resumed(l, g, x)
  <2> SUFFICES ASSUME NEW i \in 1..n, Ends(g[i], x)
               PROVE  \E j \in (i + 1)..n : \E q : Says(l, g, j, x, q)
    BY DEF Resumed, n
  <2>1. Ends(f[i + 1], x) /\ i + 1 \in 1..Len(f)
    BY <1>1
  <2>2. PICK j \in ((i + 1) + 1)..Len(f) : \E q : Says(k, f, j, x, q)
    BY <1>6, <2>1 DEF Resumed
  <2>3. j \in 1..(n + 1) /\ j # 1 /\ j - 1 \in (i + 1)..n
    BY <1>1
  <2> QED
    BY <1>5, <2>2, <2>3
<1>7. ASSUME Told(k, f, x), Resumed(k, f, x)
      PROVE  Told(l, g, x)
  <2>1. \A j \in 1..n : j \in 0..n
    BY <1>1
  <2>2. ASSUME NEW j \in 1..(n + 1), j # 1, NEW q, Says(k, f, j, x, q)
        PROVE  Told(l, g, x)
    BY <1>5, <2>1, <2>2 DEF Told, n
  <2>3. ASSUME x \in DOMAIN l
        PROVE  Told(l, g, x)
    <3>1. Says(l, g, 0, x, l[x]) /\ 0 \in 0..n
      BY <1>1, <2>3 DEF Says
    <3> QED
      BY <3>1 DEF Told, n
  <2>4. PICK i \in 0..Len(f) : \E q : Says(k, f, i, x, q)
    BY <1>7 DEF Told
  <2>5. CASE i = 0
    <3>1. x \in DOMAIN k
      BY <2>4, <2>5 DEF Says
    <3>2. CASE Ends(m, x)
      <4>1. Ends(f[1], x) /\ 1 \in 1..Len(f)
        BY <1>1, <3>2
      <4>2. PICK j \in (1 + 1)..Len(f) : \E r : Says(k, f, j, x, r)
        BY <1>7, <4>1 DEF Resumed
      <4>3. j \in 1..(n + 1) /\ j # 1
        BY <1>1
      <4> QED
        BY <2>2, <4>2, <4>3
    <3>3. CASE ~Ends(m, x)
      BY <2>3, <3>1, <3>3 DEF Takes, m
    <3> QED
      BY <3>2, <3>3
  <2>6. CASE i = 1
    <3>1. \E q : Tells(m, x, q)
      BY <1>1, <2>4, <2>6 DEF Says
    <3> QED
      BY <2>3, <3>1, Zenon DEF Takes, m
  <2>7. CASE i # 0 /\ i # 1
    <3>1. i \in 1..(n + 1)
      BY <1>1, <2>7
    <3> QED
      BY <2>2, <2>4, <2>7, <3>1, Zenon
  <2> QED
    BY <2>5, <2>6, <2>7
<1>8. ASSUME Unheard(k, f, x)
      PROVE  Unheard(l, g, x)
  <2>1. ASSUME NEW i \in 0..n, NEW q, Says(l, g, i, x, q)
        PROVE  FALSE
    <3>1. PICK h \in 0..(i + 1) : Says(k, f, h, x, q)
      BY <1>2, <2>1
    <3>2. h \in 0..Len(f)
      BY <1>1
    <3> QED
      BY <1>8, <3>1, <3>2 DEF Unheard
  <2>2. ASSUME NEW i \in 1..n
        PROVE  ~Ends(g[i], x)
    <3>1. g[i] = f[i + 1] /\ i + 1 \in 1..Len(f)
      BY <1>1
    <3> QED
      BY <1>8, <3>1 DEF Unheard
  <2> QED
    BY <2>1, <2>2 DEF Unheard, n
<1>9. ASSUME Steady(k, f, x)
      PROVE  Steady(l, g, x)
  <2> SUFFICES ASSUME NEW i \in 0..n, NEW j \in 0..n, NEW q, NEW r, i <= j,
                      Says(l, g, i, x, q), Says(l, g, j, x, r)
               PROVE  q = r \/ Over(g, i, j, x)
    BY DEF Steady, n
  <2>1. CASE j = 0
    <3>1. i = 0
      BY <2>1
    <3> QED
      BY <2>1, <3>1 DEF Says
  <2>2. CASE j \in 1..n
    <3>1. PICK h \in 0..(i + 1) : /\ Says(k, f, h, x, q)
                                  /\ \A o \in 0..n : Over(f, h, o + 1, x) => Over(g, i, o, x)
      BY <1>2
    <3>2. Says(k, f, j + 1, x, r)
      BY <1>1, <2>2
    <3>3. h \in 0..Len(f) /\ j + 1 \in 0..Len(f) /\ h <= j + 1
      BY <1>1
    <3>4. q = r \/ Over(f, h, j + 1, x)
      BY <1>9, <3>1, <3>2, <3>3 DEF Steady
    <3> QED
      BY <3>1, <3>4
  <2> QED
    BY <2>1, <2>2
<1> QED
  BY <1>3, <1>4, <1>6, <1>7, <1>8, <1>9 DEF g

-----------------------------------------------------------------------------
(* The rows of a server, and what its handlers make of them.               *)

HasRow(srv, x, t, q) ==
  \E i \in DOMAIN srv.rows : srv.rows[i].id = x /\ srv.rows[i].title = t /\ srv.rows[i].parent = q

LEMMA RowIdsHaveRows ==
  ASSUME NEW srv, NEW x
  PROVE  x \in RowIds(srv) <=> \E t, q : HasRow(srv, x, t, q)
BY DEF RowIds, HasRow

LEMMA SharedIsTwice ==
  ASSUME NEW srv, srv.rows \in Seq(RowType), NEW x
  PROVE  Shared(srv, x) <=>
           \/ x \in srv.dangling
           \/ \E i, j \in DOMAIN srv.rows : i # j /\ srv.rows[i].id = x /\ srv.rows[j].id = x
<1> DEFINE r == srv.rows
           T == {i \in DOMAIN r : r[i].id = x}
<1>1. IsFiniteSet(T)
  <2>1. DOMAIN r = 1..Len(r) /\ Len(r) \in Nat
    BY LenProperties
  <2>2. IsFiniteSet(1..Len(r))
    BY <2>1, FS_Interval
  <2> QED
    BY <2>1, <2>2, FS_Subset
<1> HIDE DEF T
<1>2. T = {} => ~(Cardinality(T) > 1)
  BY FS_EmptySet
<1>3. ASSUME NEW i \in T
      PROVE  Cardinality(T) > 1 <=> \E j \in T : i # j
  <2>1. IsFiniteSet(T \ {i}) /\ Cardinality(T \ {i}) = Cardinality(T) - 1 /\ Cardinality(T) \in Nat
    BY <1>1, <1>3, FS_RemoveElement, FS_CardinalityType
  <2>2. Cardinality(T \ {i}) = 0 <=> T \ {i} = {}
    BY <2>1, FS_EmptySet
  <2>3. Cardinality(T \ {i}) \in Nat
    BY <2>1, FS_CardinalityType
  <2> QED
    BY <2>1, <2>2, <2>3
<1>4. Cardinality(T) > 1 <=> \E i, j \in T : i # j
  BY <1>2, <1>3
<1>5. Shared(srv, x) <=> x \in srv.dangling \/ Cardinality(T) > 1
  BY Zenon DEF Shared, T, r
<1>6. \A i : i \in T <=> i \in DOMAIN r /\ r[i].id = x
  BY DEF T
<1> QED
  BY <1>4, <1>5, <1>6 DEF r

(* addedBuffer: one row more, at the end. *)
LEMMA RowIsAdded ==
  ASSUME NEW srv, ServerSound(srv), NEW t, NEW id, Row(id, t, ParentId(srv, t)) \in RowType
  PROVE  LET new == AddedBuffer(srv, t, id)
         IN  /\ new.phase = srv.phase /\ new.known = srv.known
             /\ \A x, u, q : HasRow(new, x, u, q) <=>
                  HasRow(srv, x, u, q) \/ (x = id /\ u = t /\ q = ParentId(srv, t))
             /\ \A x : Shared(srv, x) => Shared(new, x)
             /\ id \in RowIds(srv) => Shared(new, id)
<1> DEFINE new == AddedBuffer(srv, t, id)
           row == Row(id, t, ParentId(srv, t))
           r == srv.rows
           b == Inserted(srv.buffers, t, id)
           d == srv.dangling \ {id}
           a == Append(r, row)
           n == Len(r)
<1>1. new = [srv EXCEPT !.buffers = b, !.rows = a, !.dangling = d]
  BY Zenon DEF AddedBuffer
<1>2. /\ IsRecord(srv) /\ r \in Seq(RowType) /\ srv.dangling \subseteq RowIds(srv)
  BY SoundParts
<1>3. /\ a \in Seq(RowType) /\ n \in Nat /\ DOMAIN r = 1..n /\ DOMAIN a = 1..(n + 1)
      /\ \A i \in 1..n : a[i] = r[i]
      /\ a[n + 1] = row
  BY <1>2, AppendProperties, LenProperties
<1>4. row.id = id /\ row.title = t /\ row.parent = ParentId(srv, t)
  BY DEF Row
<1> DEFINE p == ParentId(srv, t)
<1> HIDE DEF new, b, d, a, n, row, p
<1>5. /\ new.rows = a /\ new.dangling = d
      /\ new.phase = srv.phase /\ new.known = srv.known
  BY <1>1, <1>2 DEF IsRecord, Members
<1> HIDE DEF r
<1>6. ASSUME NEW x, NEW u, NEW q
      PROVE  HasRow(new, x, u, q) <=> HasRow(srv, x, u, q) \/ (x = id /\ u = t /\ q = p)
  <2>1. HasRow(new, x, u, q) <=> \E i \in 1..(n + 1) : a[i].id = x /\ a[i].title = u /\ a[i].parent = q
    BY <1>3, <1>5 DEF HasRow
  <2>2. HasRow(srv, x, u, q) <=> \E i \in 1..n : r[i].id = x /\ r[i].title = u /\ r[i].parent = q
    BY <1>3 DEF HasRow, r
  <2>3. \A i \in 1..(n + 1) : i \in 1..n \/ i = n + 1
    BY <1>3
  <2>4. n + 1 \in 1..(n + 1) /\ \A i \in 1..n : i \in 1..(n + 1)
    BY <1>3
  <2> QED
    BY <1>3, <1>4, <2>1, <2>2, <2>3, <2>4 DEF p
<1>7. \A x : Shared(srv, x) <=>
        x \in srv.dangling \/ \E i, j \in 1..n : i # j /\ r[i].id = x /\ r[j].id = x
  BY <1>2, <1>3, SharedIsTwice DEF r
<1>8. \A x : Shared(new, x) <=>
        x \in d \/ \E i, j \in 1..(n + 1) : i # j /\ a[i].id = x /\ a[j].id = x
  BY <1>3, <1>5, SharedIsTwice
<1>9. ASSUME id \in RowIds(srv)
      PROVE  Shared(new, id)
  <2>1. PICK i \in 1..n : r[i].id = id
    BY <1>3, <1>9 DEF RowIds, r
  <2>2. i \in 1..(n + 1) /\ n + 1 \in 1..(n + 1) /\ i # n + 1 /\ a[i].id = id /\ a[n + 1].id = id
    BY <1>3, <1>4, <2>1
  <2> QED
    BY <1>8, <2>2
<1>10. ASSUME NEW x, Shared(srv, x)
       PROVE  Shared(new, x)
  <2>1. CASE x \in srv.dangling /\ x # id
    BY <1>8, <2>1 DEF d
  <2>2. CASE x \in srv.dangling /\ x = id
    BY <1>2, <1>9, <2>2
  <2>3. CASE \E i, j \in 1..n : i # j /\ r[i].id = x /\ r[j].id = x
    <3>1. \A i \in 1..n : i \in 1..(n + 1) /\ a[i] = r[i]
      BY <1>3
    <3> QED
      BY <1>8, <2>3, <3>1
  <2> QED
    BY <1>7, <1>10, <2>1, <2>2, <2>3
<1> QED
  BY <1>5, <1>6, <1>9, <1>10 DEF new, p

(* removedBuffer: one row less; where another row has its id, that is      *)
(* dangling.                                                               *)
LEMMA RowIsRemoved ==
  ASSUME NEW srv, ServerSound(srv), NEW t, NEW i \in FindIndex(srv, srv.buffers[t])
  PROVE  LET new == RemovedBuffer(srv, t, i)
             id == srv.buffers[t]
         IN  /\ new.phase = srv.phase /\ new.known = srv.known
             /\ \A x, u, q : HasRow(new, x, u, q) => HasRow(srv, x, u, q)
             /\ \A x, u, q : HasRow(srv, x, u, q) => x = id \/ HasRow(new, x, u, q)
             /\ \A x : Shared(srv, x) => Shared(new, x)
             /\ id \in RowIds(new) => Shared(new, id)
<1> DEFINE new == RemovedBuffer(srv, t, i)
           id == srv.buffers[t]
           r == srv.rows
           b == Restrict(srv.buffers, DOMAIN srv.buffers \ {t})
           a == RemoveAt(r, i)
           d == IF \E j \in DOMAIN a : a[j].id = id THEN srv.dangling \cup {id} ELSE srv.dangling
<1>1. new = [srv EXCEPT !.buffers = b, !.rows = a, !.dangling = d]
  BY Zenon DEF RemovedBuffer
<1>2. /\ IsRecord(srv) /\ r \in Seq(RowType)
  BY SoundParts
<1>3. i \in DOMAIN r /\ r[i].id = id
  BY DEF FindIndex
<1>4. /\ a \in Seq(RowType) /\ DOMAIN a \subseteq Nat
      /\ \A j \in DOMAIN a : \E k \in DOMAIN r : k # i /\ a[j] = r[k]
      /\ \A k \in DOMAIN r : k # i =>
           \E j \in DOMAIN a : a[j] = r[k] /\ j = IF k < i THEN k ELSE k - 1
  BY <1>2, <1>3, RemoveMoves
<1>5. DOMAIN r = 1..Len(r) /\ Len(r) \in Nat
  BY <1>2, LenProperties
<1> HIDE DEF new, b, d, a, id
<1>6. /\ new.rows = a /\ new.dangling = d
      /\ new.phase = srv.phase /\ new.known = srv.known
  BY <1>1, <1>2 DEF IsRecord, Members
<1> HIDE DEF r
<1>7. \A x, u, q : HasRow(new, x, u, q) => HasRow(srv, x, u, q)
  BY <1>4, <1>6 DEF HasRow, r
<1>8. ASSUME NEW x, NEW u, NEW q, HasRow(srv, x, u, q)
      PROVE  x = id \/ HasRow(new, x, u, q)
  <2>1. PICK k \in DOMAIN r : r[k].id = x /\ r[k].title = u /\ r[k].parent = q
    BY <1>8 DEF HasRow, r
  <2>2. CASE k = i
    BY <1>3, <2>1, <2>2
  <2>3. CASE k # i
    BY <1>4, <1>6, <2>1, <2>3 DEF HasRow
  <2> QED
    BY <2>2, <2>3
<1>9. \A x : Shared(srv, x) <=>
        x \in srv.dangling \/ \E k, l \in DOMAIN r : k # l /\ r[k].id = x /\ r[l].id = x
  BY <1>2, SharedIsTwice DEF r
<1>10. \A x : Shared(new, x) <=>
         x \in d \/ \E k, l \in DOMAIN a : k # l /\ a[k].id = x /\ a[l].id = x
  BY <1>4, <1>6, SharedIsTwice
<1>11. ASSUME NEW j \in DOMAIN a, a[j].id = id
       PROVE  Shared(new, id)
  BY <1>10, <1>11 DEF d
<1>12. id \in RowIds(new) => Shared(new, id)
  BY <1>6, <1>11 DEF RowIds
<1>13. ASSUME NEW x, Shared(srv, x)
       PROVE  Shared(new, x)
  <2>1. CASE x \in srv.dangling
    BY <1>10, <2>1 DEF d
  <2>2. ASSUME NEW k \in DOMAIN r, NEW l \in DOMAIN r, k # l, r[k].id = x, r[l].id = x
        PROVE  Shared(new, x)
    <3>1. CASE k # i /\ l # i
      <4>1. PICK j \in DOMAIN a : a[j] = r[k] /\ j = IF k < i THEN k ELSE k - 1
        BY <1>4, <3>1
      <4>2. PICK h \in DOMAIN a : a[h] = r[l] /\ h = IF l < i THEN l ELSE l - 1
        BY <1>4, <3>1
      <4>3. j # h
        BY <1>3, <1>5, <2>2, <3>1, <4>1, <4>2
      <4> QED
        BY <1>10, <2>2, <4>1, <4>2, <4>3
    <3>2. CASE k = i \/ l = i
      <4>1. x = id
        BY <1>3, <2>2, <3>2
      <4>2. \E j \in DOMAIN a : a[j].id = id
        BY <1>4, <2>2, <3>2, <4>1
      <4> QED
        BY <1>11, <4>1, <4>2
    <3> QED
      BY <3>1, <3>2
  <2> QED
    BY <1>9, <1>13, <2>1, <2>2
<1> QED
  BY <1>6, <1>7, <1>8, <1>12, <1>13 DEF new, id

(* A query has another title. *)
LEMMA RowIsRenamed ==
  ASSUME NEW srv, ServerSound(srv), NEW t \in Chats, NEW u \in Chats,
         t \in DOMAIN srv.buffers, u \notin DOMAIN srv.buffers
  PROVE  LET new == RenamedBuffer(srv, t, u)
         IN  /\ new.phase = srv.phase /\ new.known = srv.known
             /\ \A x, w, q : HasRow(new, x, w, q) =>
                  \E v : HasRow(srv, x, v, q) /\ (w \in Hosts <=> v \in Hosts)
             /\ \A x, w, q : HasRow(srv, x, w, q) => \E v : HasRow(new, x, v, q)
             /\ \A x : Shared(srv, x) => Shared(new, x)
<1> DEFINE new == RenamedBuffer(srv, t, u)
           r == srv.rows
           b == srv.buffers
           a == [i \in DOMAIN r |-> IF r[i].title = t THEN [r[i] EXCEPT !.title = u] ELSE r[i]]
           c == [x \in (DOMAIN b \ {t}) \cup {u} |-> IF x = u THEN b[t] ELSE b[x]]
<1>1. new = [srv EXCEPT !.buffers = c, !.rows = a]
  BY Zenon DEF RenamedBuffer
<1>2. /\ IsRecord(srv) /\ r \in Seq(RowType)
  BY SoundParts
<1>3. new.rows \in Seq(RowType)
  <2>1. ServerSound(new)
    BY RenamedIsSound
  <2> QED
    BY <2>1, SoundParts
<1>4. DOMAIN a = DOMAIN r /\ \A i \in DOMAIN r : r[i] \in RowType
  BY <1>2, ElementOfSeq, LenProperties
<1> HIDE DEF new, c
<1>5. ASSUME NEW i \in DOMAIN r
      PROVE  /\ a[i].id = r[i].id /\ a[i].parent = r[i].parent
             /\ a[i].title = IF r[i].title = t THEN u ELSE r[i].title
  <2>1. a[i] = IF r[i].title = t THEN [r[i] EXCEPT !.title = u] ELSE r[i]
    BY <1>5
  <2>2. r[i] \in RowType
    BY <1>4
  <2> HIDE DEF r, a
  <2> QED
    BY <2>1, <2>2 DEF RowType
<1> HIDE DEF r, a
<1>6. /\ new.rows = a /\ new.dangling = srv.dangling
      /\ new.phase = srv.phase /\ new.known = srv.known
  BY <1>1, <1>2 DEF IsRecord, Members, r
<1>7. t \notin Hosts /\ u \notin Hosts
  BY TitlesAssumption
<1>8. ASSUME NEW x, NEW w, NEW q, HasRow(new, x, w, q)
      PROVE  \E v : HasRow(srv, x, v, q) /\ (w \in Hosts <=> v \in Hosts)
  <2>1. PICK i \in DOMAIN r : a[i].id = x /\ a[i].title = w /\ a[i].parent = q
    BY <1>4, <1>6, <1>8 DEF HasRow
  <2>2. HasRow(srv, x, r[i].title, q)
    BY <1>5, <2>1 DEF HasRow, r
  <2>3. w \in Hosts <=> r[i].title \in Hosts
    BY <1>5, <1>7, <2>1
  <2> QED
    BY <2>2, <2>3
<1>9. ASSUME NEW x, NEW w, NEW q, HasRow(srv, x, w, q)
      PROVE  \E v : HasRow(new, x, v, q)
  <2>1. PICK i \in DOMAIN r : r[i].id = x /\ r[i].parent = q
    BY <1>9 DEF HasRow, r
  <2>2. HasRow(new, x, a[i].title, q)
    BY <1>4, <1>5, <1>6, <2>1 DEF HasRow
  <2> QED
    BY <2>2
<1>10. \A x : Shared(srv, x) => Shared(new, x)
  <2>1. \A x : Shared(srv, x) <=>
          x \in srv.dangling \/ \E k, l \in DOMAIN r : k # l /\ r[k].id = x /\ r[l].id = x
    BY <1>2, SharedIsTwice DEF r
  <2>2. \A x : Shared(new, x) <=>
          x \in srv.dangling \/ \E k, l \in DOMAIN a : k # l /\ a[k].id = x /\ a[l].id = x
    BY <1>3, <1>6, SharedIsTwice
  <2> QED
    BY <1>4, <1>5, <2>1, <2>2
<1> QED
  BY <1>6, <1>8, <1>9, <1>10 DEF new

(* The host, the status or the phase is another. *)
LEMMA RowsStay ==
  ASSUME NEW srv, ServerSound(srv), NEW v, NEW new,
         \/ new = [srv EXCEPT !.host = v]
         \/ new = [srv EXCEPT !.online = v]
         \/ new = [srv EXCEPT !.phase = v]
  PROVE  /\ new.known = srv.known /\ (new.phase = srv.phase \/ new.phase = v)
         /\ \A x, t, q : HasRow(new, x, t, q) <=> HasRow(srv, x, t, q)
         /\ \A x : Shared(new, x) <=> Shared(srv, x)
<1>1. IsRecord(srv)
  BY SoundParts
<1>2. /\ new.known = srv.known /\ (new.phase = srv.phase \/ new.phase = v)
      /\ new.rows = srv.rows /\ new.dangling = srv.dangling
  BY <1>1 DEF IsRecord, Members
<1> QED
  BY <1>2, Zenon DEF HasRow, Shared

LEMMA NewHasOneRow ==
  ASSUME NEW h, NEW id
  PROVE  LET new == NewServer(h, id)
         IN  /\ new.phase = "made" /\ DOMAIN new.known = {}
             /\ \A x, t, q : HasRow(new, x, t, q) <=> x = id /\ t = h /\ q = NoId
<1> DEFINE new == NewServer(h, id)
           r == <<Row(id, h, NoId)>>
<1>1. new.phase = "made" /\ new.rows = r /\ new.known = None
  BY DEF NewServer
<1>2. DOMAIN None = {}
  BY DEF None
<1>3. DOMAIN r = {1} /\ r[1].id = id /\ r[1].title = h /\ r[1].parent = NoId
  BY DEF Row
<1> HIDE DEF new, r
<1> QED
  BY <1>1, <1>2, <1>3 DEF HasRow, new

LEMMA LoadedHasRows ==
  ASSUME NEW saved, SavedSound(saved), NEW root \in Ids, root \notin SavedIds(saved)
  PROVE  LET new == Loaded(saved, root)
         IN  /\ new.phase = "made"
             /\ \A x, t, q : HasRow(new, x, t, q) =>
                  \/ x = root /\ t = saved.host /\ q = NoId
                  \/ /\ q = root
                     /\ \E i \in DOMAIN saved.channels :
                          saved.channels[i].id = x /\ saved.channels[i].title = t
             /\ \A t \in DOMAIN new.known : \E i \in DOMAIN saved.channels :
                  saved.channels[i].id = new.known[t] /\ saved.channels[i].title = t
<1> DEFINE new == Loaded(saved, root)
           h == saved.host
           chs == Others(saved)
           own == NewServer(h, root)
           r == LoadedRows(chs, h, root)
           b == Inserted(IdsBy(chs), h, root)
           k == IdsBy(saved.channels)
<1>1. own.rows = <<Row(root, h, NoId)>> /\ own.phase = "made" /\ IsRecord(own)
  BY NewServerIsRecord DEF NewServer
<1>2. new = [own EXCEPT !.buffers = b, !.rows = r, !.known = k]
  <2>1. new = [own EXCEPT !.buffers = b, !.rows = own.rows \o
                  [i \in DOMAIN chs |-> Row(chs[i].id, chs[i].title, root)], !.known = k]
    BY Zenon DEF Loaded
  <2> HIDE DEF own, b, k
  <2> QED
    BY <1>1, <2>1, Zenon DEF LoadedRows
<1>3. /\ h \in Hosts /\ saved.channels \in Seq(Titled) /\ Distinct(saved.channels)
      /\ chs \in Seq(Titled)
      /\ \A i \in DOMAIN chs : \E j \in DOMAIN saved.channels : chs[i] = saved.channels[j]
  BY OthersAreTitled DEF SavedSound
<1>4. /\ DOMAIN k = {saved.channels[i].title : i \in DOMAIN saved.channels}
      /\ \A i \in DOMAIN saved.channels : k[saved.channels[i].title] = saved.channels[i].id
  BY <1>3, IdsByTitle, Zenon
<1>5. DOMAIN chs = 1..Len(chs) /\ Len(chs) \in Nat
  BY <1>3, LenProperties
<1> HIDE DEF new, h, chs, own, k
<1>6. AreLoaded(r, chs, h, root)
  BY <1>3, RowsLoaded, Zenon
<1> HIDE DEF r, b
<1>7. new.rows = r /\ new.known = k /\ new.phase = "made"
  BY <1>1, <1>2 DEF IsRecord, Members
<1>8. ASSUME NEW i \in DOMAIN r
      PROVE  \/ r[i].id = root /\ r[i].title = h /\ r[i].parent = NoId
             \/ /\ r[i].parent = root
                /\ \E j \in DOMAIN chs : r[i].id = chs[j].id /\ r[i].title = chs[j].title
  <2>1. i = 1 \/ (i - 1 \in 1..Len(chs) /\ (i - 1) + 1 = i)
    BY <1>5, <1>6 DEF AreLoaded
  <2> QED
    BY <1>5, <1>6, <2>1 DEF AreLoaded
<1>9. ASSUME NEW x, NEW t, NEW q, HasRow(new, x, t, q)
      PROVE  \/ x = root /\ t = h /\ q = NoId
             \/ /\ q = root
                /\ \E i \in DOMAIN saved.channels :
                     saved.channels[i].id = x /\ saved.channels[i].title = t
  <2>1. PICK i \in DOMAIN r : r[i].id = x /\ r[i].title = t /\ r[i].parent = q
    BY <1>7, <1>9 DEF HasRow
  <2>2. \A j \in DOMAIN chs : \E l \in DOMAIN saved.channels : chs[j] = saved.channels[l]
    BY <1>3
  <2> QED
    BY ONLY <1>8, <2>1, <2>2
<1> QED
  BY <1>4, <1>7, <1>9 DEF new, h

-----------------------------------------------------------------------------
(* What the handlers do to the servers and say of it.                      *)

LEMMA Saying ==
  ASSUME NEW S, feed \in Seq(S), NEW m \in S, Say(<<m>>)
  PROVE  feed' = IF following THEN Append(feed, m) ELSE feed
<1>1. feed \o <<m>> = Append(feed, m)
  BY AppendIsConcat
<1> QED
  BY <1>1 DEF Say

LEMMA SayingNothing ==
  ASSUME NEW S, feed \in Seq(S), Say(<<>>)
  PROVE  feed' = feed
BY DEF Say

(* One server is replaced. *)
Replaces(s, new) ==
  /\ DOMAIN servers' = DOMAIN servers
  /\ servers'[s] = new
  /\ \A r \in DOMAIN servers : r # s => servers'[r] = servers[r]

LEMMA ExceptReplaces ==
  ASSUME NEW s \in DOMAIN servers, NEW new, servers' = [servers EXCEPT ![s] = new]
  PROVE  Replaces(s, new)
BY DEF Replaces

(* The parent of a row is that of a host. *)
LEMMA ParentIsHost ==
  ASSUME NEW srv, ServerSound(srv), NEW t
  PROVE  /\ ParentId(srv, t) \in Ids \cup {NoId}
         /\ ParentId(srv, t) = NoId \/ \E h \in Hosts : \E q : HasRow(srv, ParentId(srv, t), h, q)
<1> DEFINE p == ParentId(srv, t)
           b == srv.buffers
           r == srv.rows
<1>1. /\ srv.host \in Hosts /\ b \in TitledIds /\ IsListOf(r, b, srv.known)
  BY SoundParts
<1>2. CASE t # srv.host /\ srv.host \in DOMAIN b
  <2>1. p = b[srv.host]
    BY <1>2 DEF ParentId
  <2>2. PICK j \in DOMAIN r : r[j].title = srv.host
    BY <1>1, <1>2 DEF IsListOf
  <2>3. r[j].id = p
    BY <1>1, <2>1, <2>2 DEF IsListOf
  <2>4. b[srv.host] \in Ids
    BY <1>1, <1>2, MapsAreTitled
  <2>5. HasRow(srv, p, srv.host, r[j].parent)
    BY <2>2, <2>3 DEF HasRow
  <2> QED
    BY <1>1, <2>1, <2>4, <2>5
<1>3. CASE ~(t # srv.host /\ srv.host \in DOMAIN b)
  BY <1>3 DEF ParentId
<1> QED
  BY <1>2, <1>3

(* A buffer is added, with an id that the server holds, or the next one. *)
AddsRow(s, t, id, p, new) ==
  /\ Replaces(s, new)
  /\ \/ t \in DOMAIN servers[s].known /\ id = servers[s].known[t] /\ nextId' = nextId
     \/ id = nextId /\ nextId' = nextId + 1
  /\ id \in Ids
  /\ p \in Ids \cup {NoId}
  /\ p = NoId \/ \E h \in Hosts : \E q : HasRow(servers[s], p, h, q)
  /\ new.phase = servers[s].phase /\ new.known = servers[s].known
  /\ \A x, u, q : HasRow(new, x, u, q) <=>
       HasRow(servers[s], x, u, q) \/ (x = id /\ u = t /\ q = p)
  /\ \A x : Shared(servers[s], x) => Shared(new, x)
  /\ id \in RowIds(servers[s]) => Shared(new, id)

LEMMA AddingSays ==
  ASSUME BuffersInv, feed \in Seq(Message), NEW s \in DOMAIN servers, NEW t \in Chats, AddBuffer(s, t)
  PROVE  \E id, p, new : \E m \in Message :
           /\ AddsRow(s, t, id, p, new)
           /\ m.cmd = "added" /\ m.row.id = id /\ m.row.parent = p
           /\ feed' = IF following /\ servers[s].phase # "made" THEN Append(feed, m) ELSE feed
<1> DEFINE srv == servers[s]
           given == t \in DOMAIN srv.known
           id == IF given THEN srv.known[t] ELSE nextId
           p == ParentId(srv, t)
           row == Row(id, t, p)
           m == [cmd |-> "added", row |-> row]
           new == AddedBuffer(srv, t, id)
<1>1. /\ ServerSound(srv) /\ nextId \in Nat \ {0} /\ MaxId \in Nat
  BY BoundsAssumption DEF BuffersInv, ServersSound
<1>2. /\ given \/ nextId <= MaxId
      /\ nextId' = IF given THEN nextId ELSE nextId + 1
      /\ servers' = [servers EXCEPT ![s] = new]
      /\ SayFrom(srv, <<m>>)
  BY Zenon DEF AddBuffer
<1>3. id \in Ids
  <2>1. CASE given
    <3>1. srv.known \in TitledIds
      BY <1>1, SoundParts
    <3> QED
      BY <2>1, <3>1, MapsAreTitled
  <2>2. CASE ~given
    BY <1>1, <1>2, <2>2 DEF Ids
  <2> QED
    BY <2>1, <2>2
<1>4. /\ p \in Ids \cup {NoId}
      /\ p = NoId \/ \E h \in Hosts : \E q : HasRow(srv, p, h, q)
  BY <1>1, ParentIsHost
<1>5. row \in RowType /\ row.id = id /\ row.title = t /\ row.parent = p
  <2> HIDE DEF id, p
  <2> QED
    BY <1>3, <1>4 DEF Row, RowType, Titles
<1>6. m \in Message /\ m.cmd = "added" /\ m.row = row
  <2> HIDE DEF row
  <2> QED
    BY <1>5 DEF Message
<1>7. /\ new.phase = srv.phase /\ new.known = srv.known
      /\ \A x, u, q : HasRow(new, x, u, q) <=>
           HasRow(srv, x, u, q) \/ (x = id /\ u = t /\ q = p)
      /\ \A x : Shared(srv, x) => Shared(new, x)
      /\ id \in RowIds(srv) => Shared(new, id)
  <2> HIDE DEF srv, id
  <2>1. LET v == AddedBuffer(srv, t, id)
         IN  /\ v.phase = srv.phase /\ v.known = srv.known
             /\ \A x, u, q : HasRow(v, x, u, q) <=>
                  HasRow(srv, x, u, q) \/ (x = id /\ u = t /\ q = ParentId(srv, t))
             /\ \A x : Shared(srv, x) => Shared(v, x)
             /\ id \in RowIds(srv) => Shared(v, id)
    BY ONLY <1>1, <1>5, RowIsAdded DEF row, p
  <2> QED
    BY ONLY <2>1, Zenon DEF new, p
<1> HIDE DEF new, m, p, row
<1>8. Replaces(s, new)
  BY <1>2, ExceptReplaces
<1>9. feed' = IF following /\ srv.phase # "made" THEN Append(feed, m) ELSE feed
  <2>1. CASE srv.phase = "made"
    BY <1>2, <2>1, SayingNothing DEF SayFrom
  <2>2. CASE srv.phase # "made"
    BY <1>2, <1>6, <2>2, Saying DEF SayFrom
  <2> QED
    BY <2>1, <2>2
<1>10. \/ t \in DOMAIN srv.known /\ id = srv.known[t] /\ nextId' = nextId
       \/ id = nextId /\ nextId' = nextId + 1
  BY <1>2
<1> HIDE DEF id
<1>11. AddsRow(s, t, id, p, new)
  BY <1>3, <1>4, <1>7, <1>8, <1>10 DEF AddsRow, srv
<1> QED
  BY <1>5, <1>6, <1>9, <1>11 DEF srv

(* A buffer is removed. *)
RemovesRow(s, t, id, new) ==
  /\ Replaces(s, new)
  /\ nextId' = nextId
  /\ id \in RowIds(servers[s]) /\ \E q : HasRow(servers[s], id, t, q)
  /\ new.phase = servers[s].phase /\ new.known = servers[s].known
  /\ \A x, u, q : HasRow(new, x, u, q) => HasRow(servers[s], x, u, q)
  /\ \A x, u, q : HasRow(servers[s], x, u, q) => x = id \/ HasRow(new, x, u, q)
  /\ \A x : Shared(servers[s], x) => Shared(new, x)
  /\ id \in RowIds(new) => Shared(new, id)

LEMMA RemovingSays ==
  ASSUME BuffersInv, feed \in Seq(Message), NEW s \in DOMAIN servers, NEW t \in Chats, RemoveBuffer(s, t)
  PROVE  \E id \in Ids : \E new : \E m \in Message :
           /\ RemovesRow(s, t, id, new)
           /\ m.cmd = "removed" /\ m.id = id
           /\ feed' = IF following /\ servers[s].phase # "made" THEN Append(feed, m) ELSE feed
<1> DEFINE srv == servers[s]
           id == srv.buffers[t]
           m == [cmd |-> "removed", id |-> id]
<1>1. ServerSound(srv)
  BY DEF BuffersInv, ServersSound
<1>2. PICK i \in FindIndex(srv, id) :
        srv.rows[i].title = t /\ servers' = [servers EXCEPT ![s] = RemovedBuffer(srv, t, i)]
  BY Zenon DEF RemoveBuffer
<1>3. /\ t \in DOMAIN srv.buffers /\ nextId' = nextId
      /\ SayFrom(srv, <<m>>)
  BY Zenon DEF RemoveBuffer
<1> DEFINE new == RemovedBuffer(srv, t, i)
<1>4. id \in Ids
  <2>1. srv.buffers \in TitledIds
    BY <1>1, SoundParts
  <2> QED
    BY <1>3, <2>1, MapsAreTitled
<1>5. m \in Message /\ m.cmd = "removed" /\ m.id = id
  <2> HIDE DEF id
  <2> QED
    BY <1>4 DEF Message
<1>6. i \in DOMAIN srv.rows /\ srv.rows[i].id = id
  BY DEF FindIndex
<1>7. /\ new.phase = srv.phase /\ new.known = srv.known
      /\ \A x, u, q : HasRow(new, x, u, q) => HasRow(srv, x, u, q)
      /\ \A x, u, q : HasRow(srv, x, u, q) => x = id \/ HasRow(new, x, u, q)
      /\ \A x : Shared(srv, x) => Shared(new, x)
      /\ id \in RowIds(new) => Shared(new, id)
  <2> HIDE DEF srv
  <2>1. LET v == RemovedBuffer(srv, t, i)
             o == srv.buffers[t]
         IN  /\ v.phase = srv.phase /\ v.known = srv.known
             /\ \A x, u, q : HasRow(v, x, u, q) => HasRow(srv, x, u, q)
             /\ \A x, u, q : HasRow(srv, x, u, q) => x = o \/ HasRow(v, x, u, q)
             /\ \A x : Shared(srv, x) => Shared(v, x)
             /\ o \in RowIds(v) => Shared(v, o)
    BY ONLY <1>1, <1>2, RowIsRemoved DEF id
  <2> QED
    BY ONLY <2>1, Zenon DEF new, id
<1> HIDE DEF new, m, id
<1>8. Replaces(s, new)
  BY <1>2, ExceptReplaces DEF new
<1>9. feed' = IF following /\ srv.phase # "made" THEN Append(feed, m) ELSE feed
  <2>1. CASE srv.phase = "made"
    BY <1>3, <2>1, SayingNothing DEF SayFrom
  <2>2. CASE srv.phase # "made"
    BY <1>3, <1>5, <2>2, Saying DEF SayFrom
  <2> QED
    BY <2>1, <2>2
<1>10. id \in RowIds(srv) /\ HasRow(srv, id, t, srv.rows[i].parent)
  BY <1>2, <1>6 DEF RowIds, HasRow
<1>11. RemovesRow(s, t, id, new)
  BY <1>3, <1>7, <1>8, <1>10 DEF RemovesRow, srv
<1> QED
  BY <1>4, <1>5, <1>9, <1>11 DEF srv

(* The rows stay, but for the titles of queries. *)
KeepsRows(s, new) ==
  /\ Replaces(s, new)
  /\ nextId' = nextId
  /\ new.known = servers[s].known
  /\ \A x, w, q : HasRow(new, x, w, q) =>
       \E v : HasRow(servers[s], x, v, q) /\ (w \in Hosts <=> v \in Hosts)
  /\ \A x, w, q : HasRow(servers[s], x, w, q) => \E v : HasRow(new, x, v, q)
  /\ \A x : Shared(servers[s], x) => Shared(new, x)

LEMMA RowsAreKept ==
  ASSUME BuffersInv, NEW s \in DOMAIN servers, NEW v, NEW new,
         \/ new = [servers[s] EXCEPT !.host = v]
         \/ new = [servers[s] EXCEPT !.online = v]
         \/ new = [servers[s] EXCEPT !.phase = v],
         servers' = [servers EXCEPT ![s] = new], nextId' = nextId
  PROVE  KeepsRows(s, new) /\ (new.phase = servers[s].phase \/ new.phase = v)
<1>1. ServerSound(servers[s])
  BY DEF BuffersInv, ServersSound
<1>2. Replaces(s, new)
  BY ExceptReplaces
<1> DEFINE srv == servers[s]
<1>3. /\ new = [srv EXCEPT !.host = v] \/ new = [srv EXCEPT !.online = v] \/ new = [srv EXCEPT !.phase = v]
      /\ ServerSound(srv)
  BY <1>1
<1> HIDE DEF srv
<1>4. /\ new.known = srv.known /\ (new.phase = srv.phase \/ new.phase = v)
      /\ \A x, t, q : HasRow(new, x, t, q) <=> HasRow(srv, x, t, q)
      /\ \A x : Shared(new, x) <=> Shared(srv, x)
  BY ONLY <1>3, RowsStay
<1> QED
  BY <1>2, <1>4, Zenon DEF KeepsRows, srv

LEMMA StayingSays ==
  ASSUME BuffersInv, NEW s \in DOMAIN servers,
         \/ \E h \in Hosts : SetHost(s, h)
         \/ StatusChanged(s) \/ RegisterList(s)
         \/ \E t \in Chats : \E u \in Chats : RenameBuffer(s, t, u)
  PROVE  \E new : /\ KeepsRows(s, new) /\ feed' = feed
                  /\ new.phase = "ready" => servers[s].phase = "ready"
                  /\ new.phase = "made" => servers[s].phase = "made"
<1> DEFINE Done(new) == /\ KeepsRows(s, new) /\ feed' = feed
                        /\ new.phase = "ready" => servers[s].phase = "ready"
                        /\ new.phase = "made" => servers[s].phase = "made"
<1>1. feed' = feed /\ nextId' = nextId
  BY DEF SetHost, StatusChanged, RegisterList, RenameBuffer, Quiet
<1>2. ASSUME NEW h \in Hosts, SetHost(s, h)
      PROVE  \E new : Done(new)
  <2> DEFINE new == [servers[s] EXCEPT !.host = h]
  <2>1. servers' = [servers EXCEPT ![s] = new]
    BY <1>2, Zenon DEF SetHost
  <2>2. ServerSound(servers[s])
    BY DEF BuffersInv, ServersSound
  <2>3. new.phase = servers[s].phase
    <3>1. IsRecord(servers[s])
      BY <2>2, SoundParts
    <3> QED
      BY <3>1 DEF IsRecord, Members
  <2>4. new = [servers[s] EXCEPT !.host = h]
    OBVIOUS
  <2> HIDE DEF new
  <2>5. KeepsRows(s, new)
    BY <1>1, <2>1, <2>4, RowsAreKept
  <2> QED
    BY <1>1, <2>3, <2>5
<1>3. ASSUME StatusChanged(s)
      PROVE  \E new : Done(new)
  <2> DEFINE on == ~servers[s].online
             new == [servers[s] EXCEPT !.online = on]
  <2>1. servers' = [servers EXCEPT ![s] = new]
    BY <1>3, Zenon DEF StatusChanged
  <2> HIDE DEF on
  <2>2. ServerSound(servers[s])
    BY DEF BuffersInv, ServersSound
  <2>3. new.phase = servers[s].phase
    <3>1. IsRecord(servers[s])
      BY <2>2, SoundParts
    <3> QED
      BY <3>1 DEF IsRecord, Members
  <2>4. new = [servers[s] EXCEPT !.online = on]
    OBVIOUS
  <2> HIDE DEF new
  <2>5. KeepsRows(s, new)
    BY <1>1, <2>1, <2>4, RowsAreKept
  <2> QED
    BY <1>1, <2>3, <2>5
<1>4. ASSUME RegisterList(s)
      PROVE  \E new : Done(new)
  <2> DEFINE new == [servers[s] EXCEPT !.phase = "registered"]
  <2>1. servers' = [servers EXCEPT ![s] = new] /\ servers[s].phase = "made"
    BY <1>4, Zenon DEF RegisterList
  <2>2. ServerSound(servers[s])
    BY DEF BuffersInv, ServersSound
  <2>3. new.phase = "registered"
    <3>1. IsRecord(servers[s])
      BY <2>2, SoundParts
    <3> QED
      BY <3>1 DEF IsRecord, Members
  <2>4. new = [servers[s] EXCEPT !.phase = "registered"]
    OBVIOUS
  <2> HIDE DEF new
  <2>5. KeepsRows(s, new)
    BY <1>1, <2>1, <2>4, RowsAreKept
  <2> QED
    BY <1>1, <2>1, <2>3, <2>5
<1>5. ASSUME NEW t \in Chats, NEW u \in Chats, RenameBuffer(s, t, u)
      PROVE  \E new : Done(new)
  <2> DEFINE srv == servers[s]
             new == RenamedBuffer(srv, t, u)
  <2>1. /\ t \in DOMAIN srv.buffers /\ u \notin DOMAIN srv.buffers
        /\ servers' = [servers EXCEPT ![s] = new]
    BY <1>5, Zenon DEF RenameBuffer
  <2>2. ServerSound(srv)
    BY DEF BuffersInv, ServersSound
  <2>3. Replaces(s, new)
    <3> HIDE DEF new
    <3> QED
      BY <2>1, ExceptReplaces
  <2> HIDE DEF srv
  <2>4. LET o == RenamedBuffer(srv, t, u)
        IN  /\ o.phase = srv.phase /\ o.known = srv.known
            /\ \A x, w, q : HasRow(o, x, w, q) =>
                 \E v : HasRow(srv, x, v, q) /\ (w \in Hosts <=> v \in Hosts)
            /\ \A x, w, q : HasRow(srv, x, w, q) => \E v : HasRow(o, x, v, q)
            /\ \A x : Shared(srv, x) => Shared(o, x)
    BY ONLY <2>1, <2>2, t \in Chats, u \in Chats, RowIsRenamed
  <2>5. new.phase = srv.phase /\ KeepsRows(s, new)
    BY <1>1, <2>3, <2>4, Zenon DEF KeepsRows, srv
  <2> HIDE DEF new
  <2> QED
    BY <1>1, <2>5, Zenon DEF srv
<1> HIDE DEF Done
<1>6. \E new : Done(new)
  BY <1>2, <1>3, <1>4, <1>5
<1> QED
  BY <1>6 DEF Done

LEMMA ItemsTell ==
  ASSUME NEW srv, ServerSound(srv)
  PROVE  /\ Items(srv) \in Message /\ Items(srv).cmd = "items" /\ Items(srv).rows = srv.rows
         /\ \A x, q : Tells(Items(srv), x, q) <=> \E t : HasRow(srv, x, t, q)
         /\ \A x : ~Ends(Items(srv), x)
<1> DEFINE m == Items(srv)
<1>1. srv.rows \in Seq(RowType)
  BY SoundParts
<1>2. m \in Message /\ m.cmd = "items" /\ m.rows = srv.rows
  BY <1>1 DEF Items, Message
<1> HIDE DEF m
<1>3. \A x, q : Tells(m, x, q) <=> \E i \in DOMAIN srv.rows : srv.rows[i].id = x /\ srv.rows[i].parent = q
  BY <1>2 DEF Tells
<1>4. \A x, q : (\E t : HasRow(srv, x, t, q)) <=>
        \E i \in DOMAIN srv.rows : srv.rows[i].id = x /\ srv.rows[i].parent = q
  BY DEF HasRow
<1>5. \A x : ~Ends(m, x)
  BY <1>2 DEF Ends
<1> QED
  BY <1>2, <1>3, <1>4, <1>5 DEF m

LEMMA ReadySays ==
  ASSUME BuffersInv, feed \in Seq(Message), NEW s \in DOMAIN servers, ListReady(s)
  PROVE  \E new : /\ KeepsRows(s, new) /\ new.phase = "ready" /\ servers[s].phase = "registered"
                  /\ feed' = IF following THEN Append(feed, Items(servers[s])) ELSE feed
<1> DEFINE new == [servers[s] EXCEPT !.phase = "ready"]
           m == Items(servers[s])
<1>1. /\ servers' = [servers EXCEPT ![s] = new] /\ servers[s].phase = "registered"
      /\ nextId' = nextId /\ Say(<<m>>)
  BY Zenon DEF ListReady
<1>2. ServerSound(servers[s])
  BY DEF BuffersInv, ServersSound
<1>3. new.phase = "ready"
  <2>1. IsRecord(servers[s])
    BY <1>2, SoundParts
  <2> QED
    BY <2>1 DEF IsRecord, Members
<1>4. new = [servers[s] EXCEPT !.phase = "ready"] /\ m \in Message
  BY <1>2, ItemsTell
<1> HIDE DEF new, m
<1>5. KeepsRows(s, new)
  BY <1>1, <1>4, RowsAreKept
<1>6. feed' = IF following THEN Append(feed, m) ELSE feed
  BY <1>1, <1>4, Saying
<1> QED
  BY <1>1, <1>3, <1>5, <1>6 DEF m

-----------------------------------------------------------------------------
(* The ids F are those of the channels of hosts, of all servers there have *)
(* been.  They are never taken from a list, and only they are parents.     *)

RowKind(F, x, t, q) == (x \in F <=> t \in Hosts) /\ q \in F \cup {NoId} /\ q # x

ServerKinds(srv, F) ==
  /\ \A x, t, q : HasRow(srv, x, t, q) => RowKind(F, x, t, q)
  /\ \A t \in DOMAIN srv.known : srv.known[t] \in F <=> t \in Hosts

SavedKinds(saved, F) ==
  \A i \in DOMAIN saved.channels : saved.channels[i].id \in F <=> saved.channels[i].title \in Hosts

KindInv(F) ==
  /\ F \subseteq Ids /\ \A x \in F : x < nextId
  /\ \A s \in DOMAIN servers : ServerKinds(servers[s], F)
  /\ \A s \in DOMAIN Stored : SavedKinds(Stored[s], F)

(* More ids of hosts, none of which has been given. *)
Widens(F, G) ==
  F \subseteq G /\ G \subseteq Ids /\ \A x \in G \ F : ~(x < nextId)

LEMMA KindsWiden ==
  ASSUME BuffersInv, NEW F, KindInv(F), NEW G, Widens(F, G)
  PROVE  /\ \A s \in DOMAIN servers : ServerKinds(servers[s], G)
         /\ \A s \in DOMAIN Stored : SavedKinds(Stored[s], G)
<1>1. /\ nextId \in Nat \ {0} /\ ServersSound /\ StoredSound
      /\ Apart(servers, Stored, nextId)
  BY DEF BuffersInv
<1>2. \A x \in 1..(nextId - 1) : x \in F <=> x \in G
  BY <1>1 DEF Widens
<1>3. ASSUME NEW s \in DOMAIN servers
      PROVE  ServerKinds(servers[s], G)
  <2>1. HeldIds(servers[s]) \subseteq 1..(nextId - 1)
    BY <1>1, HeldAreGiven DEF ServersSound
  <2>2. ServerKinds(servers[s], F)
    BY <1>3 DEF KindInv
  <2>3. ASSUME NEW x, NEW t, NEW q, HasRow(servers[s], x, t, q)
        PROVE  RowKind(G, x, t, q)
    <3>1. RowKind(F, x, t, q)
      BY <2>2, <2>3 DEF ServerKinds
    <3>2. x \in 1..(nextId - 1)
      BY <2>1, <2>3 DEF HeldIds, RowIds, HasRow
    <3> QED
      BY <1>2, <3>1, <3>2 DEF RowKind, Widens
  <2>4. \A t \in DOMAIN servers[s].known : servers[s].known[t] \in 1..(nextId - 1)
    BY <2>1 DEF HeldIds, Range
  <2> QED
    BY <1>2, <2>2, <2>3, <2>4 DEF ServerKinds
<1>4. ASSUME NEW s \in DOMAIN Stored
      PROVE  SavedKinds(Stored[s], G)
  <2>1. SavedIds(Stored[s]) \subseteq 1..(nextId - 1)
    BY <1>1, <1>4 DEF Apart, OwnedIds, StoredSound
  <2>2. SavedKinds(Stored[s], F)
    BY <1>4 DEF KindInv
  <2> QED
    BY <1>2, <2>1, <2>2 DEF SavedKinds, SavedIds
<1> QED
  BY <1>3, <1>4

LEMMA KindsOfSaved ==
  ASSUME NEW srv, NEW F, ServerKinds(srv, F)
  PROVE  SavedKinds(Saved(srv), F)
<1> DEFINE r == srv.rows
           chs == [i \in DOMAIN r |-> [id |-> r[i].id, title |-> r[i].title]]
<1>1. Saved(srv).channels = chs
  BY DEF Saved
<1>2. DOMAIN chs = DOMAIN r /\ \A i \in DOMAIN r : chs[i].id = r[i].id /\ chs[i].title = r[i].title
  <2> HIDE DEF r
  <2> QED
    OBVIOUS
<1>3. \A i \in DOMAIN r : HasRow(srv, r[i].id, r[i].title, r[i].parent)
  BY DEF HasRow
<1> HIDE DEF chs
<1> QED
  BY <1>1, <1>2, <1>3 DEF SavedKinds, ServerKinds, RowKind, r

LEMMA NoServersKinds ==
  ASSUME servers' = None, file' = file \/ file' = Empty, nextId' = nextId, NEW F, KindInv(F)
  PROVE  KindInv(F)'
<1>1. DOMAIN None = {}
  BY DEF None
<1>2. Stored' = Stored \/ Stored' = None
  BY DEF Stored, Empty
<1> QED
  BY <1>1, <1>2 DEF KindInv

(* The core starts: the new ids are those of hosts. *)
LEMMA StartKinds ==
  ASSUME BuffersInv, StartIrc, NEW F, KindInv(F)
  PROVE  \E G : Widens(F, G) /\ KindInv(G)'
<1>1. /\ nextId \in Nat \ {0} /\ MaxId \in Nat /\ StoredSound
      /\ Apart(servers, Stored, nextId)
  BY BoundsAssumption DEF BuffersInv
<1>2. file' = file /\ nextId' \in nextId..(MaxId + 1)
  BY DEF StartIrc, Start
<1>3. PICK root \in Bijection(DOMAIN Stored, nextId..(nextId' - 1)) :
        servers' = [s \in DOMAIN Stored |-> Loaded(Stored[s], root[s])]
  BY DEF StartIrc
<1>4. \A s \in DOMAIN Stored : root[s] \in nextId..(nextId' - 1)
  BY <1>3 DEF Bijection, Injection, Surjection, IsInjective
<1>5. PICK n \in Nat : n = nextId' /\ nextId <= n /\ n <= MaxId + 1
  BY <1>1, <1>2
<1>13. PICK G : G = F \cup nextId..(n - 1)
  OBVIOUS
<1>6. Widens(F, G)
  <2>1. F \subseteq Ids
    BY DEF KindInv
  <2>2. nextId \in Nat \ {0} /\ MaxId \in Nat /\ n \in Nat /\ n <= MaxId + 1
    BY <1>1, <1>5
  <2>3. \A x \in nextId..(n - 1) : x \in 1..MaxId /\ ~(x < nextId)
    BY ONLY <2>2
  <2> QED
    BY <1>13, <2>1, <2>3 DEF Widens, Ids
<1>7. Stored' = Stored
  BY <1>2 DEF Stored
<1>8. /\ \A s \in DOMAIN Stored : SavedKinds(Stored[s], G)
  BY <1>6, KindsWiden
<1>9. G \subseteq Ids /\ \A x \in G : x < n
  <2>1. \A x \in F : x < nextId /\ x \in Int
    BY DEF KindInv, Ids
  <2> QED
    BY <1>1, <1>5, <1>6, <1>13, <2>1 DEF Widens
<1>10. ASSUME NEW s \in DOMAIN Stored
       PROVE  ServerKinds(servers'[s], G)
  <2> DEFINE saved == Stored[s]
             r == root[s]
  <2>1. SavedSound(saved) /\ s \in Servers /\ servers'[s] = Loaded(saved, r)
    BY <1>1, <1>3 DEF StoredSound
  <2>2. SavedIds(saved) \subseteq 1..(nextId - 1)
    BY <1>1, <2>1 DEF Apart, OwnedIds
  <2>3. r \in Ids /\ r \notin SavedIds(saved) /\ r \in G
    BY <1>1, <1>4, <1>5, <1>13, <2>2 DEF Ids
  <2>4. SavedKinds(saved, G)
    BY <1>8
  <2> HIDE DEF saved, r
  <2>5. LET new == Loaded(saved, r)
        IN  /\ new.phase = "made"
            /\ \A x, t, q : HasRow(new, x, t, q) =>
                 \/ x = r /\ t = saved.host /\ q = NoId
                 \/ /\ q = r
                    /\ \E i \in DOMAIN saved.channels :
                         saved.channels[i].id = x /\ saved.channels[i].title = t
            /\ \A t \in DOMAIN new.known : \E i \in DOMAIN saved.channels :
                 saved.channels[i].id = new.known[t] /\ saved.channels[i].title = t
    BY ONLY <2>1, <2>3, LoadedHasRows
  <2> DEFINE new == Loaded(saved, r)
  <2>6. /\ \A x, t, q : HasRow(new, x, t, q) =>
             \/ x = r /\ t = saved.host /\ q = NoId
             \/ /\ q = r
                /\ \E i \in DOMAIN saved.channels :
                     saved.channels[i].id = x /\ saved.channels[i].title = t
        /\ \A t \in DOMAIN new.known : \E i \in DOMAIN saved.channels :
             saved.channels[i].id = new.known[t] /\ saved.channels[i].title = t
    BY <2>5, Zenon
  <2> HIDE DEF new
  <2>7. saved.host \in Hosts /\ NoId # r
    BY <2>1, <2>3 DEF SavedSound, NoId, Ids
  <2>8. ASSUME NEW x, NEW t, NEW q, HasRow(new, x, t, q)
        PROVE  RowKind(G, x, t, q)
    <3>1. CASE x = r /\ t = saved.host /\ q = NoId
      BY <2>3, <2>7, <3>1 DEF RowKind
    <3>2. ASSUME q = r, NEW i \in DOMAIN saved.channels,
                 saved.channels[i].id = x, saved.channels[i].title = t
          PROVE  RowKind(G, x, t, q)
      <4>1. x \in SavedIds(saved)
        BY <3>2 DEF SavedIds
      <4> QED
        BY <2>3, <2>4, <3>2, <4>1 DEF RowKind, SavedKinds
    <3> QED
      BY <2>6, <2>8, <3>1, <3>2
  <2>9. \A t \in DOMAIN new.known : new.known[t] \in G <=> t \in Hosts
    BY <2>4, <2>6 DEF SavedKinds
  <2>10. ServerKinds(new, G)
    BY <2>8, <2>9 DEF ServerKinds
  <2> QED
    BY <2>1, <2>10 DEF new
<1>11. DOMAIN servers' = DOMAIN Stored
  BY <1>3
<1>12. KindInv(G)'
  BY <1>5, <1>7, <1>8, <1>9, <1>10, <1>11 DEF KindInv
<1> QED
  BY <1>6, <1>12

FeedSound(F) ==
  /\ feed \in Seq(Message)
  /\ \A i \in DOMAIN feed : MessageSound(feed[i], F, nextId)

LEMMA WidensItself ==
  ASSUME NEW F, KindInv(F)
  PROVE  Widens(F, F)
BY DEF Widens, KindInv

LEMMA MessageWidens ==
  ASSUME NEW m \in Message, NEW F, NEW G, Widens(F, G), nextId \in Nat,
         MessageSound(m, F, nextId), NEW n \in Nat, nextId <= n
  PROVE  MessageSound(m, G, n)
<1>1. \A x \in Ids : x < nextId => x < n /\ (x \in G => x \in F)
  BY DEF Widens, Ids
<1>2. F \subseteq G
  BY DEF Widens
<1>3. \A row : RowSound(row, F) => RowSound(row, G) /\ row.id \in Ids
  BY <1>2, Zenon DEF RowSound
<1>4. CASE m.cmd = "added" /\ m.row \in RowType
  BY <1>1, <1>3, <1>4 DEF MessageSound
<1>5. CASE m.cmd = "removed" /\ m.id \in Ids
  BY <1>1, <1>5 DEF MessageSound
<1>6. CASE m.cmd = "items" /\ m.rows \in Seq(RowType)
  BY <1>1, <1>3, <1>6 DEF MessageSound
<1> QED
  BY <1>4, <1>5, <1>6, MessageShapes

LEMMA FeedWidens ==
  ASSUME NEW F, FeedSound(F), NEW G, Widens(F, G), nextId \in Nat, nextId' \in Nat, nextId <= nextId',
         \/ feed' = feed
         \/ \E m \in Message : feed' = Append(feed, m) /\ MessageSound(m, G, nextId')
  PROVE  FeedSound(G)'
<1>1. feed \in Seq(Message) /\ DOMAIN feed = 1..Len(feed) /\ Len(feed) \in Nat
      /\ \A i \in DOMAIN feed : feed[i] \in Message
  BY LenProperties, ElementOfSeq DEF FeedSound
<1>2. ASSUME NEW i \in DOMAIN feed
      PROVE  MessageSound(feed[i], G, nextId')
  <2>1. MessageSound(feed[i], F, nextId) /\ feed[i] \in Message
    BY <1>1, <1>2 DEF FeedSound
  <2> QED
    BY <2>1, MessageWidens
<1>3. CASE feed' = feed
  BY <1>1, <1>2, <1>3 DEF FeedSound
<1>4. ASSUME NEW m \in Message, feed' = Append(feed, m), MessageSound(m, G, nextId')
      PROVE  FeedSound(G)'
  <2> DEFINE n == Len(feed)
             g == Append(feed, m)
  <2>1. /\ g \in Seq(Message) /\ DOMAIN g = 1..(n + 1)
        /\ \A i \in 1..n : g[i] = feed[i]
        /\ g[n + 1] = m
    BY <1>1, AppendProperties, LenProperties
  <2>2. \A i \in 1..(n + 1) : i \in 1..n \/ i = n + 1
    BY <1>1
  <2> HIDE DEF g, n
  <2>3. \A i \in DOMAIN g : g[i] = m \/ \E j \in DOMAIN feed : g[i] = feed[j]
    BY <1>1, <2>1, <2>2 DEF n
  <2>4. \A i \in DOMAIN g : MessageSound(g[i], G, nextId')
    BY <1>2, <1>4, <2>3, Zenon
  <2>5. feed' = g
    BY <1>4 DEF g
  <2> QED
    BY <2>1, <2>4, <2>5, Zenon DEF FeedSound
<1> QED
  BY <1>3, <1>4

LEMMA ReplacedKinds ==
  ASSUME NEW F, KindInv(F), NEW s \in DOMAIN servers, NEW new, Replaces(s, new), file' = file,
         nextId \in Nat, nextId' = nextId \/ nextId' = nextId + 1, ServerKinds(new, F)
  PROVE  KindInv(F)'
<1>1. Stored' = Stored
  BY DEF Stored
<1>2. \A x \in F : x < nextId'
  BY DEF KindInv, Ids
<1> QED
  BY <1>1, <1>2 DEF KindInv, Replaces

(* The channel of an added row is not that of a host. *)
LEMMA AddingKinds ==
  ASSUME BuffersInv, NEW F, KindInv(F), NEW s \in DOMAIN servers, NEW t \in Chats,
         NEW id, NEW p, NEW new, AddsRow(s, t, id, p, new), file' = file
  PROVE  /\ KindInv(F)'
         /\ \A m \in Message : m.cmd = "added" /\ m.row.id = id /\ m.row.parent = p =>
              MessageSound(m, F, nextId')
<1>1. /\ nextId \in Nat \ {0} /\ ServersSound /\ Apart(servers, Stored, nextId)
  BY DEF BuffersInv
<1>2. ServerKinds(servers[s], F) /\ F \subseteq Ids
  BY DEF KindInv
<1>3. t \notin Hosts
  BY TitlesAssumption
<1>4. HeldIds(servers[s]) \subseteq 1..(nextId - 1)
  BY <1>1, HeldAreGiven DEF ServersSound
<1>5. id \notin F /\ id < nextId'
  <2>1. CASE t \in DOMAIN servers[s].known /\ id = servers[s].known[t] /\ nextId' = nextId
    <3>1. id \in HeldIds(servers[s])
      BY <2>1 DEF HeldIds, Range
    <3> QED
      BY <1>1, <1>2, <1>3, <1>4, <2>1, <3>1 DEF ServerKinds
  <2>2. CASE id = nextId /\ nextId' = nextId + 1
    <3>1. id < nextId' /\ ~(id < nextId)
      BY <1>1, <2>2
    <3> QED
      BY <3>1 DEF KindInv
  <2> QED
    BY <2>1, <2>2 DEF AddsRow
<1>6. p \in F \cup {NoId} /\ p # id
  <2>1. p = NoId \/ \E h \in Hosts : \E q : HasRow(servers[s], p, h, q)
    BY DEF AddsRow
  <2>2. p \in F \cup {NoId}
    BY <1>2, <2>1 DEF ServerKinds, RowKind
  <2>3. id \in Ids /\ NoId \notin Ids
    BY DEF AddsRow, NoId, Ids
  <2> QED
    BY <1>5, <2>2, <2>3
<1>7. ServerKinds(new, F)
  <2>1. /\ \A x, u, q : HasRow(new, x, u, q) <=>
             HasRow(servers[s], x, u, q) \/ (x = id /\ u = t /\ q = p)
        /\ new.known = servers[s].known
    BY DEF AddsRow
  <2>2. RowKind(F, id, t, p)
    BY <1>3, <1>5, <1>6 DEF RowKind
  <2>3. \A x, u, q : HasRow(new, x, u, q) => RowKind(F, x, u, q)
    BY <1>2, <2>1, <2>2, Zenon DEF ServerKinds
  <2> QED
    BY <1>2, <2>1, <2>3 DEF ServerKinds
<1>8. KindInv(F)'
  <2>1. Replaces(s, new) /\ (nextId' = nextId \/ nextId' = nextId + 1)
    BY DEF AddsRow
  <2> QED
    BY <1>1, <1>7, <2>1, ReplacedKinds
<1>9. ASSUME NEW m \in Message, m.cmd = "added", m.row.id = id, m.row.parent = p
      PROVE  MessageSound(m, F, nextId')
  <2>1. id \in Ids /\ NoId = NoParent
    BY DEF AddsRow, NoId, NoParent
  <2> QED
    BY <1>5, <1>6, <1>9, <2>1 DEF MessageSound, RowSound
<1> QED
  BY <1>8, <1>9

LEMMA RemovingKinds ==
  ASSUME BuffersInv, NEW F, KindInv(F), NEW s \in DOMAIN servers, NEW t \in Chats,
         NEW id \in Ids, NEW new, RemovesRow(s, t, id, new), file' = file
  PROVE  /\ KindInv(F)'
         /\ \A m \in Message : m.cmd = "removed" /\ m.id = id => MessageSound(m, F, nextId')
<1>1. /\ nextId \in Nat \ {0} /\ ServersSound /\ Apart(servers, Stored, nextId)
  BY DEF BuffersInv
<1>2. ServerKinds(servers[s], F)
  BY DEF KindInv
<1>3. t \notin Hosts
  BY TitlesAssumption
<1>4. HeldIds(servers[s]) \subseteq 1..(nextId - 1)
  BY <1>1, HeldAreGiven DEF ServersSound
<1>5. id \notin F /\ id < nextId' /\ nextId' = nextId
  <2>1. id \in HeldIds(servers[s]) /\ nextId' = nextId
    BY DEF HeldIds, RemovesRow
  <2>2. \E q : HasRow(servers[s], id, t, q)
    BY DEF RemovesRow
  <2> QED
    BY <1>1, <1>2, <1>3, <1>4, <2>1, <2>2 DEF ServerKinds, RowKind
<1>6. ServerKinds(new, F)
  BY <1>2, Zenon DEF ServerKinds, RemovesRow
<1>7. KindInv(F)'
  BY <1>1, <1>5, <1>6, ReplacedKinds DEF RemovesRow
<1>8. ASSUME NEW m \in Message, m.cmd = "removed", m.id = id
      PROVE  MessageSound(m, F, nextId')
  BY <1>5, <1>8 DEF MessageSound
<1> QED
  BY <1>7, <1>8

LEMMA KeepingKinds ==
  ASSUME BuffersInv, NEW F, KindInv(F), NEW s \in DOMAIN servers,
         NEW new, KeepsRows(s, new), file' = file
  PROVE  KindInv(F)'
<1>1. nextId \in Nat /\ nextId' = nextId /\ Replaces(s, new)
  BY DEF BuffersInv, KeepsRows
<1>2. ServerKinds(servers[s], F)
  BY DEF KindInv
<1>3. \A x, w, q : HasRow(new, x, w, q) => RowKind(F, x, w, q)
  <2> SUFFICES ASSUME NEW x, NEW w, NEW q, HasRow(new, x, w, q)
               PROVE  RowKind(F, x, w, q)
    OBVIOUS
  <2>1. PICK v : HasRow(servers[s], x, v, q) /\ (w \in Hosts <=> v \in Hosts)
    BY Zenon DEF KeepsRows
  <2>2. RowKind(F, x, v, q)
    BY <1>2, <2>1, Zenon DEF ServerKinds
  <2> QED
    BY <2>1, <2>2 DEF RowKind
<1>4. ServerKinds(new, F)
  BY <1>2, <1>3, Zenon DEF ServerKinds, KeepsRows
<1> QED
  BY <1>1, <1>4, ReplacedKinds

(* All that a server has may be told. *)
LEMMA ItemsSound ==
  ASSUME BuffersInv, NEW F, KindInv(F), NEW s \in DOMAIN servers
  PROVE  MessageSound(Items(servers[s]), F, nextId)
<1> DEFINE srv == servers[s]
           m == Items(srv)
<1>1. /\ ServerSound(srv) /\ nextId \in Nat \ {0}
      /\ HeldIds(srv) \subseteq 1..(nextId - 1)
  BY HeldAreGiven DEF BuffersInv, ServersSound
<1>2. ServerKinds(srv, F)
  BY DEF KindInv
<1>3. m.cmd = "items" /\ m.rows = srv.rows
  BY <1>1, ItemsTell
<1>4. srv.rows \in Seq(RowType)
  BY <1>1, SoundParts
<1> HIDE DEF m, srv
<1>5. ASSUME NEW i \in DOMAIN srv.rows
      PROVE  RowSound(srv.rows[i], F) /\ srv.rows[i].id < nextId
  <2>1. HasRow(srv, srv.rows[i].id, srv.rows[i].title, srv.rows[i].parent)
    BY DEF HasRow
  <2>2. RowKind(F, srv.rows[i].id, srv.rows[i].title, srv.rows[i].parent)
    BY <1>2, <2>1 DEF ServerKinds
  <2>3. srv.rows[i].id \in HeldIds(srv)
    BY DEF HeldIds, RowIds
  <2>4. srv.rows[i].id \in Ids
    <3>1. srv.rows[i] \in RowType
      BY <1>4, ElementOfSeq, LenProperties
    <3> QED
      BY <3>1 DEF RowType
  <2>5. NoId = NoParent
    BY DEF NoId, NoParent
  <2> QED
    BY <1>1, <2>2, <2>3, <2>4, <2>5 DEF RowKind, RowSound
<1>6. MessageSound(m, F, nextId)
  BY <1>3, <1>5 DEF MessageSound
<1> QED
  BY <1>6 DEF m, srv

Grown(F) == \E G : Widens(F, G) /\ KindInv(G)' /\ FeedSound(G)'

(* Nothing that kinds are about has changed. *)
LEMMA SameKinds ==
  ASSUME NEW F, KindInv(F), servers' = servers, nextId' = nextId, Stored' = Stored
  PROVE  KindInv(F)'
BY DEF KindInv

LEMMA GrownItself ==
  ASSUME BuffersInv, NEW F, KindInv(F), FeedSound(F), KindInv(F)',
         \/ feed' = feed
         \/ \E m \in Message : feed' = Append(feed, m) /\ MessageSound(m, F, nextId'),
         nextId' = nextId \/ nextId' = nextId + 1
  PROVE  Grown(F)
<1>1. nextId \in Nat /\ nextId' \in Nat /\ nextId <= nextId'
  BY DEF BuffersInv
<1>2. Widens(F, F)
  BY WidensItself
<1>3. FeedSound(F)'
  BY <1>1, <1>2, FeedWidens
<1> QED
  BY <1>2, <1>3, Zenon DEF Grown

LEMMA ConfigKinds ==
  ASSUME BuffersInv, NEW F, KindInv(F), FeedSound(F), ConfigStep
  PROVE  Grown(F)
<1>1. nextId \in Nat /\ MaxId \in Nat
  BY BoundsAssumption DEF BuffersInv
<1>2. CASE StartIrc
  <2>1. feed' = feed /\ nextId' \in nextId..(MaxId + 1)
    BY <1>2 DEF StartIrc
  <2>2. nextId' \in Nat /\ nextId <= nextId'
    BY <1>1, <2>1
  <2>3. PICK G : Widens(F, G) /\ KindInv(G)'
    BY <1>2, StartKinds
  <2>4. FeedSound(G)'
    BY <1>1, <2>1, <2>2, <2>3, FeedWidens
  <2> QED
    BY <2>3, <2>4, Zenon DEF Grown
<1>3. CASE SaveIrc
  <2>1. /\ feed' = feed /\ nextId' = nextId /\ servers' = servers
        /\ file' = Empty \/ file' = file
    BY <1>3 DEF SaveIrc, SaveNow, ircVars
  <2>2. (Stored' = None \/ Stored' = Stored) /\ DOMAIN None = {}
    BY <2>1 DEF Stored, Empty, None
  <2>3. KindInv(F)'
    BY <2>1, <2>2 DEF KindInv
  <2> QED
    BY <2>1, <2>3, GrownItself
<1>4. CASE WriteIrc
  <2>1. /\ feed' = feed /\ nextId' = nextId /\ servers' = servers
        /\ file' = SavedAs(Content) \/ file' = file
    BY <1>4 DEF WriteIrc, Write, ircVars
  <2>2. Stored' = Content \/ Stored' = Stored
    BY <2>1 DEF Stored, SavedAs
  <2>3. /\ DOMAIN Content = DOMAIN servers
        /\ \A s \in DOMAIN servers : Content[s] = Saved(servers[s])
    BY DEF Content
  <2>4. \A s \in DOMAIN servers : SavedKinds(Saved(servers[s]), F)
    BY KindsOfSaved DEF KindInv
  <2>5. KindInv(F)'
    BY <2>1, <2>2, <2>3, <2>4 DEF KindInv
  <2> QED
    BY <2>1, <2>5, GrownItself
<1>5. CASE EndIrc
  <2>1. servers' = None /\ file' = file /\ nextId' = nextId /\ feed' = <<>>
    BY <1>5 DEF EndIrc, End
  <2>2. KindInv(F)'
    BY <2>1, NoServersKinds
  <2>3. <<>> \in Seq(Message) /\ DOMAIN <<>> = {}
    OBVIOUS
  <2>4. FeedSound(F)'
    BY <2>1, <2>3 DEF FeedSound
  <2>5. Widens(F, F)
    BY WidensItself
  <2> QED
    BY <2>2, <2>4, <2>5, Zenon DEF Grown
<1> QED
  BY <1>2, <1>3, <1>4, <1>5 DEF ConfigStep

LEMMA ClientKinds ==
  ASSUME BuffersInv, NEW F, KindInv(F), FeedSound(F),
         \/ \E s \in Servers, h \in Hosts : AddServer(s, h)
         \/ \E s \in DOMAIN servers : RemoveServer(s)
  PROVE  Grown(F)
<1>1. nextId \in Nat \ {0} /\ MaxId \in Nat
  BY BoundsAssumption DEF BuffersInv
<1>2. ASSUME NEW s \in Servers, NEW h \in Hosts, AddServer(s, h)
      PROVE  Grown(F)
  <2>1. /\ nextId <= MaxId /\ nextId' = nextId + 1 /\ feed' = feed /\ file' = file
        /\ s \notin DOMAIN servers
        /\ servers' = Inserted(servers, s, NewServer(h, nextId))
    BY <1>2 DEF AddServer, Quiet, ScheduleSave
  <2>2. /\ DOMAIN servers' = DOMAIN servers \cup {s}
        /\ servers'[s] = NewServer(h, nextId)
        /\ \A r \in DOMAIN servers : servers'[r] = servers[r]
    BY <2>1 DEF Inserted
  <2>3. PICK G : G = F \cup {nextId}
    OBVIOUS
  <2>4. Widens(F, G) /\ \A x \in G : x < nextId'
    <3>1. F \subseteq Ids /\ \A x \in F : x < nextId
      BY DEF KindInv
    <3>2. nextId \in Ids /\ ~(nextId < nextId) /\ \A x \in Ids : x < nextId => x < nextId + 1
      BY <1>1, <2>1 DEF Ids
    <3>3. \A x \in G : x \in F \/ x = nextId
      BY <2>3
    <3>4. Widens(F, G)
      BY <2>3, <3>1, <3>2, <3>3 DEF Widens
    <3>5. nextId < nextId + 1
      BY <1>1
    <3> QED
      BY <2>1, <3>1, <3>2, <3>3, <3>4, <3>5
  <2>5. /\ \A r \in DOMAIN servers : ServerKinds(servers[r], G)
        /\ \A r \in DOMAIN Stored : SavedKinds(Stored[r], G)
    BY <2>4, KindsWiden
  <2>6. Stored' = Stored
    BY <2>1 DEF Stored
  <2>7. ServerKinds(servers'[s], G)
    <3> DEFINE new == NewServer(h, nextId)
    <3>1. LET v == NewServer(h, nextId)
          IN  /\ v.phase = "made" /\ DOMAIN v.known = {}
              /\ \A x, t, q : HasRow(v, x, t, q) <=> x = nextId /\ t = h /\ q = NoId
      BY ONLY NewHasOneRow
    <3>2. DOMAIN new.known = {} /\ \A x, t, q : HasRow(new, x, t, q) <=> x = nextId /\ t = h /\ q = NoId
      BY <3>1, Zenon
    <3> HIDE DEF new
    <3>3. nextId \in G /\ h \in Hosts /\ NoId # nextId
      BY <1>1, <2>3 DEF NoId
    <3>4. ServerKinds(new, G)
      BY <3>2, <3>3 DEF ServerKinds, RowKind
    <3> QED
      BY <2>2, <3>4 DEF new
  <2>8. KindInv(G)'
    BY <2>2, <2>4, <2>5, <2>6, <2>7 DEF KindInv, Widens
  <2>9. nextId' \in Nat /\ nextId <= nextId'
    BY <1>1, <2>1
  <2>10. FeedSound(G)'
    BY <1>1, <2>1, <2>4, <2>9, FeedWidens
  <2> QED
    BY <2>4, <2>8, <2>10, Zenon DEF Grown
<1>3. ASSUME NEW s \in DOMAIN servers, RemoveServer(s)
      PROVE  Grown(F)
  <2>1. nextId' = nextId /\ feed' = feed /\ servers' = Restrict(servers, DOMAIN servers \ {s})
    BY <1>3 DEF RemoveServer, Quiet
  <2>2. file' = file
    BY <1>3 DEF RemoveServer, Crash, ScheduleSave
  <2>3. /\ DOMAIN servers' = DOMAIN servers \ {s}
        /\ \A r \in DOMAIN servers' : servers'[r] = servers[r]
    BY <2>1 DEF Restrict
  <2>4. Stored' = Stored
    BY <2>2 DEF Stored
  <2>5. KindInv(F)'
    BY <2>1, <2>3, <2>4 DEF KindInv
  <2> QED
    BY <2>1, <2>5, GrownItself
<1> QED
  BY <1>2, <1>3

LEMMA HandledKinds ==
  ASSUME BuffersInv, NEW F, KindInv(F), FeedSound(F), NEW s \in DOMAIN servers,
         \/ \E h \in Hosts : SetHost(s, h)
         \/ StatusChanged(s) \/ RegisterList(s) \/ ListReady(s)
         \/ \E t \in Chats :
              \/ AddBuffer(s, t) \/ RemoveBuffer(s, t) \/ RemoveWrongRow(s, t)
              \/ \E u \in Chats : RenameBuffer(s, t, u)
  PROVE  Grown(F)
<1>1. feed \in Seq(Message) /\ nextId \in Nat
  BY DEF FeedSound, BuffersInv
<1>2. file' = file
  BY DEF SetHost, StatusChanged, RegisterList, ListReady, AddBuffer, RemoveBuffer, RemoveWrongRow,
         RenameBuffer, ScheduleSave, NoSave, Crash, configVars
<1>3. ASSUME \/ \E h \in Hosts : SetHost(s, h)
             \/ StatusChanged(s) \/ RegisterList(s)
             \/ \E t \in Chats : \E u \in Chats : RenameBuffer(s, t, u)
      PROVE  Grown(F)
  <2>1. PICK new : KeepsRows(s, new) /\ feed' = feed
    BY <1>3, StayingSays
  <2>2. KindInv(F)' /\ nextId' = nextId
    BY <1>2, <2>1, KeepingKinds DEF KeepsRows
  <2> QED
    BY <2>1, <2>2, GrownItself
<1>4. CASE ListReady(s)
  <2>1. PICK new : /\ KeepsRows(s, new)
                   /\ feed' = IF following THEN Append(feed, Items(servers[s])) ELSE feed
    BY <1>1, <1>4, ReadySays
  <2>2. KindInv(F)' /\ nextId' = nextId
    BY <1>2, <2>1, KeepingKinds DEF KeepsRows
  <2>3. Items(servers[s]) \in Message
    BY ItemsTell DEF BuffersInv, ServersSound
  <2>4. MessageSound(Items(servers[s]), F, nextId')
    BY <2>2, ItemsSound
  <2>5. feed' = feed \/ \E m \in Message : feed' = Append(feed, m) /\ MessageSound(m, F, nextId')
    BY <2>1, <2>3, <2>4
  <2> QED
    BY <2>2, <2>5, GrownItself
<1>5. ASSUME NEW t \in Chats, AddBuffer(s, t)
      PROVE  Grown(F)
  <2>1. PICK id, p, new : \E m \in Message :
           /\ AddsRow(s, t, id, p, new)
           /\ m.cmd = "added" /\ m.row.id = id /\ m.row.parent = p
           /\ feed' = IF following /\ servers[s].phase # "made" THEN Append(feed, m) ELSE feed
    BY <1>1, <1>5, AddingSays
  <2>2. /\ KindInv(F)'
        /\ \A m \in Message : m.cmd = "added" /\ m.row.id = id /\ m.row.parent = p =>
             MessageSound(m, F, nextId')
    BY <1>2, <2>1, AddingKinds
  <2>3. feed' = feed \/ \E m \in Message : feed' = Append(feed, m) /\ MessageSound(m, F, nextId')
    BY <2>1, <2>2
  <2>4. nextId' = nextId \/ nextId' = nextId + 1
    BY <2>1 DEF AddsRow
  <2> QED
    BY <2>2, <2>3, <2>4, GrownItself
<1>6. ASSUME NEW t \in Chats, RemoveBuffer(s, t)
      PROVE  Grown(F)
  <2>1. PICK id \in Ids : \E new : \E m \in Message :
           /\ RemovesRow(s, t, id, new)
           /\ m.cmd = "removed" /\ m.id = id
           /\ feed' = IF following /\ servers[s].phase # "made" THEN Append(feed, m) ELSE feed
    BY <1>1, <1>6, RemovingSays
  <2>2. /\ KindInv(F)' /\ nextId' = nextId
        /\ \A m \in Message : m.cmd = "removed" /\ m.id = id => MessageSound(m, F, nextId')
    BY <1>2, <2>1, RemovingKinds DEF RemovesRow
  <2>3. feed' = feed \/ \E m \in Message : feed' = Append(feed, m) /\ MessageSound(m, F, nextId')
    BY <2>1, <2>2
  <2> QED
    BY <2>2, <2>3, GrownItself
<1>7. ASSUME NEW t \in Chats, RemoveWrongRow(s, t)
      PROVE  Grown(F)
  <2>1. servers' = servers /\ nextId' = nextId /\ feed' = feed
    BY <1>7 DEF RemoveWrongRow
  <2>2. Stored' = Stored
    BY <1>2 DEF Stored
  <2>3. KindInv(F)'
    BY <2>1, <2>2, SameKinds
  <2> QED
    BY <2>1, <2>3, GrownItself
<1> QED
  BY <1>3, <1>4, <1>5, <1>6, <1>7

LEMMA CoreKinds ==
  ASSUME BuffersInv, NEW F, KindInv(F), FeedSound(F), IrcNext
  PROVE  Grown(F)
<1>1. CASE ConfigStep
  BY <1>1, ConfigKinds
<1>2. CASE ServerStep
  BY <1>2, ClientKinds, HandledKinds DEF ServerStep, ListStep
<1> QED
  BY <1>1, <1>2 DEF IrcNext

-----------------------------------------------------------------------------
(* What the client has asked for and what there is of servers that have    *)
(* gone.                                                                   *)

ViewInv ==
  /\ request \in {"no", "sent", "early"} /\ orphans \subseteq Ids
  /\ process = "down" => servers = None /\ ~following /\ orphans = {}
  /\ ~following => feed = <<>> /\ DOMAIN known = {} /\ request = "no" /\ answered = {}
  /\ request = "no" => asked = {}
  /\ asked \subseteq OnBus /\ answered \subseteq OnBus
  /\ request = "sent" =>
       \A s \in DOMAIN servers : servers[s].phase = "ready" => s \in asked \cup answered
  /\ \A x \in orphans : x < nextId
  /\ \A s \in DOMAIN servers : HeldIds(servers[s]) \cap orphans = {}

LEMMA HeldByRows ==
  ASSUME NEW srv, NEW x
  PROVE  x \in HeldIds(srv) <=>
           (\E t, q : HasRow(srv, x, t, q)) \/ \E t \in DOMAIN srv.known : srv.known[t] = x
BY RowIdsHaveRows DEF HeldIds, Range

(* An id that a server holds, it has held or it is new; a list that is     *)
(* registered stays so; a new one is not ready.                            *)
Proceeds ==
  /\ \A r \in DOMAIN servers' : \A x \in HeldIds(servers'[r]) :
       (r \in DOMAIN servers /\ x \in HeldIds(servers[r])) \/ ~(x < nextId)
  /\ \A r \in DOMAIN servers \cap DOMAIN servers' :
       servers'[r].phase = "made" => servers[r].phase = "made"
  /\ \A r \in DOMAIN servers' : r \notin DOMAIN servers => servers'[r].phase # "ready"
  /\ nextId' = nextId \/ nextId' = nextId + 1

(* Lists that answer, and those that become ready, have told the client.   *)
AnswersStay ==
  /\ answered' \subseteq OnBus'
  /\ ~following => answered' = {}
  /\ following => (asked \cup answered \cup Readied) \cap DOMAIN servers' \subseteq asked' \cup answered'

LEMMA ReplacingProceeds ==
  ASSUME BuffersInv, NEW s \in DOMAIN servers, NEW new,
         \/ KeepsRows(s, new) /\ (new.phase = "made" => servers[s].phase = "made")
         \/ \E t, id, p : AddsRow(s, t, id, p, new)
         \/ \E t, id : RemovesRow(s, t, id, new)
  PROVE  Proceeds /\ DOMAIN servers' = DOMAIN servers
<1> DEFINE srv == servers[s]
<1>1. nextId \in Nat /\ HeldIds(srv) \subseteq 1..(nextId - 1)
  BY HeldAreGiven DEF BuffersInv, ServersSound
<1>2. /\ Replaces(s, new) /\ (nextId' = nextId \/ nextId' = nextId + 1)
      /\ new.known = srv.known /\ (new.phase = "made" => srv.phase = "made")
  BY Zenon DEF KeepsRows, AddsRow, RemovesRow
<1>3. ASSUME NEW x \in HeldIds(new)
      PROVE  x \in HeldIds(srv) \/ ~(x < nextId)
  <2>1. CASE \E t \in DOMAIN new.known : new.known[t] = x
    BY <1>2, <2>1, HeldByRows
  <2>2. CASE \E t, q : HasRow(new, x, t, q)
    <3>1. CASE KeepsRows(s, new)
      <4>1. \E t, q : HasRow(srv, x, t, q)
        BY <2>2, <3>1, Zenon DEF KeepsRows
      <4> QED
        BY <4>1, HeldByRows, Zenon
    <3>2. ASSUME NEW u, NEW id, NEW p, AddsRow(s, u, id, p, new)
          PROVE  x \in HeldIds(srv) \/ ~(x < nextId)
      <4>1. (\E t, q : HasRow(srv, x, t, q)) \/ x = id
        BY <2>2, <3>2, Zenon DEF AddsRow
      <4>2. id = nextId \/ \E t \in DOMAIN srv.known : srv.known[t] = id
        BY <3>2, Zenon DEF AddsRow
      <4>3. ~(nextId < nextId)
        BY <1>1
      <4>4. /\ (\E t, q : HasRow(srv, x, t, q)) => x \in HeldIds(srv)
            /\ (\E t \in DOMAIN srv.known : srv.known[t] = x) => x \in HeldIds(srv)
        BY HeldByRows, Zenon
      <4>5. CASE x = id
        BY <4>2, <4>3, <4>4, <4>5, Zenon
      <4> QED
        BY <4>1, <4>4, <4>5, Zenon
    <3>3. ASSUME NEW u, NEW id, RemovesRow(s, u, id, new)
          PROVE  x \in HeldIds(srv)
      <4>1. \E t, q : HasRow(srv, x, t, q)
        BY <2>2, <3>3, Zenon DEF RemovesRow
      <4> QED
        BY <4>1, HeldByRows, Zenon
    <3> QED
      BY <3>1, <3>2, <3>3, Zenon
  <2> QED
    BY <1>3, <2>1, <2>2, HeldByRows, Zenon
<1> QED
  BY <1>2, <1>3 DEF Proceeds, Replaces

LEMMA HandlerProceeds ==
  ASSUME BuffersInv, feed \in Seq(Message), NEW s \in DOMAIN servers,
         \/ \E h \in Hosts : SetHost(s, h)
         \/ StatusChanged(s) \/ RegisterList(s) \/ ListReady(s)
         \/ \E t \in Chats :
              \/ AddBuffer(s, t) \/ RemoveBuffer(s, t) \/ RemoveWrongRow(s, t)
              \/ \E u \in Chats : RenameBuffer(s, t, u)
  PROVE  /\ Proceeds /\ DOMAIN servers' = DOMAIN servers
         /\ following' = following /\ (~following => feed' = feed) /\ process' # "down"
<1>1. following' = following /\ process' # "down"
  BY DEF SetHost, StatusChanged, RegisterList, ListReady, AddBuffer, RemoveBuffer, RemoveWrongRow,
         RenameBuffer, ScheduleSave, NoSave, Crash, configVars, Running, Quiet
<1>2. ASSUME \/ \E h \in Hosts : SetHost(s, h)
             \/ StatusChanged(s) \/ RegisterList(s)
             \/ \E t \in Chats : \E u \in Chats : RenameBuffer(s, t, u)
      PROVE  Proceeds /\ DOMAIN servers' = DOMAIN servers /\ feed' = feed
  <2>1. PICK new : /\ KeepsRows(s, new) /\ feed' = feed
                   /\ new.phase = "made" => servers[s].phase = "made"
    BY <1>2, StayingSays
  <2> QED
    BY <2>1, ReplacingProceeds
<1>3. CASE ListReady(s)
  <2>1. PICK new : /\ KeepsRows(s, new) /\ new.phase = "ready"
                   /\ feed' = IF following THEN Append(feed, Items(servers[s])) ELSE feed
    BY <1>3, ReadySays
  <2> QED
    BY <1>1, <2>1, ReplacingProceeds
<1>4. ASSUME NEW t \in Chats, AddBuffer(s, t)
      PROVE  Proceeds /\ DOMAIN servers' = DOMAIN servers /\ (~following => feed' = feed)
  <2>1. PICK id, p, new : \E m \in Message :
           /\ AddsRow(s, t, id, p, new)
           /\ m.cmd = "added" /\ m.row.id = id /\ m.row.parent = p
           /\ feed' = IF following /\ servers[s].phase # "made" THEN Append(feed, m) ELSE feed
    BY <1>4, AddingSays
  <2>2. AddsRow(s, t, id, p, new) /\ (~following => feed' = feed)
    BY <2>1
  <2> QED
    BY <2>2, ReplacingProceeds
<1>5. ASSUME NEW t \in Chats, RemoveBuffer(s, t)
      PROVE  Proceeds /\ DOMAIN servers' = DOMAIN servers /\ (~following => feed' = feed)
  <2>1. PICK id \in Ids : \E new : \E m \in Message :
           /\ RemovesRow(s, t, id, new)
           /\ m.cmd = "removed" /\ m.id = id
           /\ feed' = IF following /\ servers[s].phase # "made" THEN Append(feed, m) ELSE feed
    BY <1>5, RemovingSays
  <2>2. (\E new : RemovesRow(s, t, id, new)) /\ (~following => feed' = feed)
    BY <2>1
  <2> QED
    BY <2>2, ReplacingProceeds
<1>6. ASSUME NEW t \in Chats, RemoveWrongRow(s, t)
      PROVE  Proceeds /\ DOMAIN servers' = DOMAIN servers /\ feed' = feed
  BY <1>6 DEF RemoveWrongRow, Proceeds
<1> QED
  BY <1>1, <1>2, <1>3, <1>4, <1>5, <1>6

LEMMA CoreAnswers ==
  ASSUME ViewInv, Proceeds, asked' = asked \cap DOMAIN servers',
         answered' = (answered \cup Readied) \cap DOMAIN servers'
  PROVE  AnswersStay
<1>1. answered \subseteq OnBus /\ (~following => answered = {})
  BY Zenon DEF ViewInv
<1>2. ~following => Readied = {}
  BY DEF Readied
<1>3. ASSUME NEW r \in answered'
      PROVE  r \in OnBus'
  <2>1. CASE r \in Readied
    BY <2>1 DEF Readied, OnBus
  <2>2. CASE r \in answered /\ r \in DOMAIN servers'
    <3>1. r \in DOMAIN servers /\ servers[r].phase # "made"
      BY <1>1, <2>2 DEF OnBus
    <3> QED
      BY <2>2, <3>1 DEF Proceeds, OnBus
  <2> QED
    BY <1>3, <2>1, <2>2
<1> QED
  BY <1>1, <1>2, <1>3 DEF AnswersStay

LEMMA ViewStays ==
  ASSUME BuffersInv, ViewInv, Proceeds, AnswersStay, process' # "down",
         following' = following, ~following => feed' = feed /\ known' = known,
         request' = request, orphans' = orphans, asked' \subseteq asked \cap DOMAIN servers'
  PROVE  ViewInv'
<1>1. /\ nextId \in Nat /\ nextId' \in Nat /\ nextId <= nextId'
  BY DEF BuffersInv, Proceeds
<1>2. /\ request \in {"no", "sent", "early"} /\ orphans \subseteq Ids
      /\ ~following => feed = <<>> /\ DOMAIN known = {} /\ request = "no"
      /\ request = "no" => asked = {}
      /\ asked \subseteq OnBus /\ answered \subseteq OnBus
      /\ request = "sent" =>
           \A s \in DOMAIN servers : servers[s].phase = "ready" => s \in asked \cup answered
      /\ \A x \in orphans : x < nextId
      /\ \A s \in DOMAIN servers : HeldIds(servers[s]) \cap orphans = {}
  BY Zenon DEF ViewInv
<1>3. asked' \subseteq OnBus'
  <2>1. ASSUME NEW r \in asked'
        PROVE  r \in DOMAIN servers' /\ servers'[r].phase # "made"
    <3>1. r \in asked /\ r \in DOMAIN servers'
      BY <2>1
    <3>2. r \in DOMAIN servers /\ servers[r].phase # "made"
      BY <1>2, <3>1 DEF OnBus
    <3> QED
      BY <3>1, <3>2 DEF Proceeds
  <2> QED
    BY <2>1 DEF OnBus
<1>4. \A x \in orphans' : x < nextId'
  <2>1. \A x \in orphans' : x \in Nat /\ x < nextId
    BY <1>2 DEF Ids
  <2> QED
    BY <1>1, <2>1
<1>5. \A r \in DOMAIN servers' : HeldIds(servers'[r]) \cap orphans' = {}
  <2>1. ASSUME NEW r \in DOMAIN servers', NEW x \in HeldIds(servers'[r]), x \in orphans
        PROVE  FALSE
    <3>1. (r \in DOMAIN servers /\ x \in HeldIds(servers[r])) \/ ~(x < nextId)
      BY <2>1 DEF Proceeds
    <3>2. x < nextId
      BY <1>2, <2>1
    <3> QED
      BY <1>2, <2>1, <3>1, <3>2
  <2> QED
    BY <2>1
<1>6. /\ request' \in {"no", "sent", "early"} /\ orphans' \subseteq Ids
      /\ process' = "down" => servers' = None /\ ~following' /\ orphans' = {}
      /\ ~following' => feed' = <<>> /\ DOMAIN known' = {} /\ request' = "no" /\ answered' = {}
      /\ request' = "no" => asked' = {}
      /\ answered' \subseteq OnBus'
  BY <1>2 DEF AnswersStay
<1>7. ASSUME request' = "sent", NEW r \in DOMAIN servers', servers'[r].phase = "ready"
      PROVE  r \in asked' \cup answered'
  <2>1. following /\ r \in DOMAIN servers
    BY <1>2, <1>7 DEF Proceeds
  <2>2. CASE servers[r].phase = "ready"
    BY <1>2, <1>7, <2>1, <2>2 DEF AnswersStay
  <2>3. CASE servers[r].phase # "ready"
    <3>1. r \in Readied
      BY <1>7, <2>1, <2>3 DEF Readied
    <3> QED
      BY <1>7, <2>1, <3>1 DEF AnswersStay
  <2> QED
    BY <2>2, <2>3
<1> QED
  BY <1>3, <1>4, <1>5, <1>6, <1>7 DEF ViewInv, HeldIds, RowIds

LEMMA ViewInvInit == Init => ViewInv
<1> SUFFICES ASSUME Init
             PROVE  ViewInv
  OBVIOUS
<1>1. /\ process = "down" /\ servers = None /\ following = FALSE /\ feed = <<>>
      /\ known = Nothing /\ request = "no" /\ asked = {} /\ answered = {} /\ orphans = {}
  BY Zenon DEF Init, IrcInit, ConfigInit, TreeInit
<1>2. DOMAIN None = {} /\ DOMAIN Nothing = {}
  BY DEF None, Nothing
<1> QED
  BY <1>1, <1>2 DEF ViewInv

LEMMA ViewInvCore ==
  ASSUME BuffersInv, feed \in Seq(Message), ViewInv, CoreStep
  PROVE  ViewInv'
<1> DEFINE Keeping == /\ asked' = asked \cap DOMAIN servers'
                      /\ answered' = (answered \cup Readied) \cap DOMAIN servers'
                      /\ orphans' = orphans \cup Listed(DOMAIN servers \ DOMAIN servers')
                      /\ UNCHANGED <<treeVars, request>>
<1>1. ASSUME Keeping
      PROVE  /\ known' = known /\ request' = request /\ asked' = asked \cap DOMAIN servers'
             /\ DOMAIN servers \subseteq DOMAIN servers' => orphans' = orphans
             /\ Proceeds => AnswersStay
  <2>1. DOMAIN servers \subseteq DOMAIN servers' => DOMAIN servers \ DOMAIN servers' = {}
    OBVIOUS
  <2>2. Listed({}) = {}
    BY DEF Listed
  <2> QED
    BY <1>1, <2>1, <2>2, CoreAnswers DEF treeVars
<1>2. ASSUME Keeping, SaveIrc \/ WriteIrc
      PROVE  ViewInv'
  <2>1. /\ servers' = servers /\ nextId' = nextId /\ following' = following /\ feed' = feed
        /\ process' # "down"
    BY <1>2 DEF SaveIrc, WriteIrc, SaveNow, Write, Running, ircVars
  <2>2. Proceeds
    BY <2>1 DEF Proceeds
  <2> QED
    BY <1>1, <1>2, <2>1, <2>2, ViewStays
<1>3. ASSUME Keeping, NEW s \in DOMAIN servers,
             \/ \E h \in Hosts : SetHost(s, h)
             \/ StatusChanged(s) \/ RegisterList(s) \/ ListReady(s)
             \/ \E t \in Chats :
                  \/ AddBuffer(s, t) \/ RemoveBuffer(s, t) \/ RemoveWrongRow(s, t)
                  \/ \E u \in Chats : RenameBuffer(s, t, u)
      PROVE  ViewInv'
  <2>1. /\ Proceeds /\ DOMAIN servers' = DOMAIN servers
        /\ following' = following /\ (~following => feed' = feed) /\ process' # "down"
    BY <1>3, HandlerProceeds
  <2> QED
    BY <1>1, <1>3, <2>1, ViewStays
<1>4. ASSUME Keeping, NEW s \in Servers, NEW h \in Hosts, AddServer(s, h)
      PROVE  ViewInv'
  <2> DEFINE new == NewServer(h, nextId)
  <2>1. /\ servers' = Inserted(servers, s, new) /\ nextId' = nextId + 1 /\ s \notin DOMAIN servers
        /\ following' = following /\ feed' = feed /\ process' # "down"
    BY <1>4 DEF AddServer, ScheduleSave, Running, Quiet
  <2>2. HeldIds(new) = {nextId} /\ new.phase = "made"
    <3>1. /\ new.rows = <<Row(nextId, h, NoId)>> /\ new.known = None /\ new.phase = "made"
      BY DEF NewServer
    <3>2. Range(None) = {}
      BY DEF Range, None
    <3>3. RowIds(new) = {nextId}
      BY <3>1 DEF RowIds, Row
    <3> QED
      BY <3>1, <3>2, <3>3 DEF HeldIds
  <2>3. ~(nextId < nextId)
    BY DEF BuffersInv
  <2> HIDE DEF new
  <2>4. /\ DOMAIN servers' = DOMAIN servers \cup {s} /\ servers'[s] = new
        /\ \A r \in DOMAIN servers : servers'[r] = servers[r]
    BY <2>1 DEF Inserted
  <2>5. Proceeds
    <3>1. \A r \in DOMAIN servers' : \A x \in HeldIds(servers'[r]) :
            (r \in DOMAIN servers /\ x \in HeldIds(servers[r])) \/ ~(x < nextId)
      <4>1. ASSUME NEW r \in DOMAIN servers', NEW x \in HeldIds(servers'[r])
            PROVE  (r \in DOMAIN servers /\ x \in HeldIds(servers[r])) \/ ~(x < nextId)
        <5>1. CASE r = s
          BY <2>2, <2>3, <2>4, <4>1, <5>1, Zenon
        <5>2. CASE r \in DOMAIN servers
          BY <2>4, <4>1, <5>2, Zenon
        <5> QED
          BY <2>4, <4>1, <5>1, <5>2
      <4> QED
        BY <4>1, Zenon
    <3> QED
      BY <2>1, <2>2, <2>4, <3>1 DEF Proceeds
  <2> QED
    BY <1>1, <1>4, <2>1, <2>4, <2>5, ViewStays
<1>5. ASSUME Keeping, NEW s \in DOMAIN servers, RemoveServer(s)
      PROVE  ViewInv'
  <2>1. /\ servers' = Restrict(servers, DOMAIN servers \ {s}) /\ nextId' = nextId
        /\ following' = following /\ feed' = feed /\ process' # "down"
    BY <1>5 DEF RemoveServer, ScheduleSave, Crash, Running, Quiet
  <2>2. /\ DOMAIN servers' = DOMAIN servers \ {s}
        /\ \A r \in DOMAIN servers \ {s} : servers'[r] = servers[r]
    BY <2>1 DEF Restrict
  <2>3. orphans' = orphans \cup RowIds(servers[s])
    <3>1. DOMAIN servers \ DOMAIN servers' = {s}
      BY <2>2
    <3>2. Listed({s}) = RowIds(servers[s])
      BY DEF Listed
    <3> QED
      BY <1>5, <3>1, <3>2
  <2>4. /\ request \in {"no", "sent", "early"} /\ orphans \subseteq Ids
        /\ ~following => feed = <<>> /\ DOMAIN known = {} /\ request = "no" /\ answered = {}
        /\ request = "no" => asked = {}
        /\ asked \subseteq OnBus /\ answered \subseteq OnBus
        /\ request = "sent" =>
             \A r \in DOMAIN servers : servers[r].phase = "ready" => r \in asked \cup answered
        /\ \A x \in orphans : x < nextId
        /\ \A r \in DOMAIN servers : HeldIds(servers[r]) \cap orphans = {}
    BY Zenon DEF ViewInv
  <2>5. /\ nextId \in 1..(MaxId + 1) /\ MaxId \in Nat /\ Apart(servers, Stored, nextId)
        /\ DOMAIN servers \subseteq Servers
    BY BoundsAssumption DEF BuffersInv, ServersSound
  <2>6. RowIds(servers[s]) \subseteq Ids /\ \A x \in RowIds(servers[s]) : x < nextId
    <3>1. HeldIds(servers[s]) \subseteq 1..(nextId - 1)
      BY <2>5, HeldAreGiven
    <3> QED
      BY <2>5, <3>1 DEF HeldIds, Ids
  <2>7. \A r \in DOMAIN servers' : HeldIds(servers'[r]) \cap orphans' = {}
    <3>1. ASSUME NEW r \in DOMAIN servers \ {s}
          PROVE  HeldIds(servers[r]) \cap RowIds(servers[s]) = {}
      <4>1. OwnedIds(servers, Stored, r) \cap OwnedIds(servers, Stored, s) = {}
        BY <2>5, <3>1 DEF Apart
      <4>2. /\ HeldIds(servers[r]) \subseteq OwnedIds(servers, Stored, r)
            /\ HeldIds(servers[s]) \subseteq OwnedIds(servers, Stored, s)
        BY <3>1 DEF OwnedIds
      <4> QED
        BY <4>1, <4>2 DEF HeldIds
    <3> QED
      BY <2>2, <2>3, <2>4, <3>1
  <2>8. /\ asked' = asked \ {s} /\ answered' = answered \ {s}
        /\ asked' \subseteq OnBus' /\ answered' \subseteq OnBus'
    <3>1. Readied = {}
      BY <2>2 DEF Readied
    <3>2. asked' = asked \ {s} /\ answered' = answered \ {s}
      BY <1>5, <2>2, <2>4, <3>1 DEF OnBus
    <3> QED
      BY <2>2, <2>4, <3>2 DEF OnBus
  <2>9. /\ request' \in {"no", "sent", "early"} /\ orphans' \subseteq Ids
        /\ process' = "down" => servers' = None /\ ~following' /\ orphans' = {}
        /\ ~following' => feed' = <<>> /\ DOMAIN known' = {} /\ request' = "no" /\ answered' = {}
        /\ request' = "no" => asked' = {}
        /\ \A x \in orphans' : x < nextId'
    BY <1>1, <1>5, <2>1, <2>3, <2>4, <2>6, <2>8
  <2>10. request' = "sent" =>
           \A r \in DOMAIN servers' : servers'[r].phase = "ready" => r \in asked' \cup answered'
    BY <1>1, <1>5, <2>2, <2>4, <2>8
  <2> QED
    BY <2>7, <2>8, <2>9, <2>10 DEF ViewInv, HeldIds, RowIds
<1>6. ASSUME StartIrc, UNCHANGED <<treeVars, viewVars>>
      PROVE  ViewInv'
  <2>1. /\ process = "down" /\ process' = "up" /\ following' = following /\ feed' = feed
        /\ known' = known /\ request' = request /\ asked' = asked /\ orphans' = orphans
        /\ answered' = answered
    BY <1>6 DEF StartIrc, Start, treeVars, viewVars
  <2>2. /\ ~following /\ orphans = {} /\ feed = <<>> /\ DOMAIN known = {} /\ request = "no"
        /\ asked = {} /\ answered = {}
    BY <2>1 DEF ViewInv
  <2> QED
    BY <2>1, <2>2 DEF ViewInv
<1>7. ASSUME EndIrc, known' = Nothing, request' = "no", asked' = {}, answered' = {}, orphans' = {}
      PROVE  ViewInv'
  <2>1. servers' = None /\ following' = FALSE /\ feed' = <<>>
    BY <1>7 DEF EndIrc
  <2>2. DOMAIN None = {} /\ DOMAIN Nothing = {}
    BY DEF None, Nothing
  <2> QED
    BY <1>7, <2>1, <2>2 DEF ViewInv
<1> HIDE DEF Keeping
<1>8. ASSUME Keeping, ServerStep
      PROVE  ViewInv'
  BY <1>3, <1>4, <1>5, <1>8 DEF ServerStep, ListStep
<1>9. \/ Keeping /\ (ServerStep \/ SaveIrc \/ WriteIrc)
      \/ StartIrc /\ UNCHANGED <<treeVars, viewVars>>
      \/ EndIrc /\ known' = Nothing /\ request' = "no" /\ asked' = {} /\ answered' = {}
         /\ orphans' = {}
  BY Zenon DEF CoreStep, Keeping
<1> QED
  BY <1>2, <1>6, <1>7, <1>8, <1>9, Zenon

LEMMA ViewInvClient ==
  ASSUME BuffersInv, feed \in Seq(Message), ViewInv,
         Follow \/ Request \/ Consume \/ \E s \in asked : Answer(s)
  PROVE  ViewInv'
<1>1. /\ request \in {"no", "sent", "early"} /\ orphans \subseteq Ids
      /\ process = "down" => servers = None /\ ~following /\ orphans = {}
      /\ ~following => feed = <<>> /\ DOMAIN known = {} /\ request = "no" /\ answered = {}
      /\ request = "no" => asked = {}
      /\ asked \subseteq OnBus /\ answered \subseteq OnBus
      /\ request = "sent" =>
           \A s \in DOMAIN servers : servers[s].phase = "ready" => s \in asked \cup answered
      /\ \A x \in orphans : x < nextId
      /\ \A s \in DOMAIN servers : HeldIds(servers[s]) \cap orphans = {}
  BY Zenon DEF ViewInv
<1>2. ASSUME servers' = servers, nextId' = nextId
      PROVE  /\ Proceeds /\ OnBus' = OnBus /\ Readied = {}
             /\ \A s \in DOMAIN servers' : HeldIds(servers'[s]) = HeldIds(servers[s])
  BY <1>2 DEF Proceeds, OnBus, Readied
<1>3. CASE Follow
  <2>1. /\ servers' = servers /\ nextId' = nextId /\ process = "up" /\ process' = "up"
        /\ following' = TRUE /\ answered' = answered /\ orphans' = orphans
        /\ \/ request' = request /\ asked' = asked
           \/ request' = "early" /\ asked' \subseteq OnBus
    BY <1>3, Zenon DEF Follow, Running, configVars
  <2> QED
    BY <1>1, <1>2, <2>1 DEF ViewInv
<1>4. CASE Request
  <2>1. /\ servers' = servers /\ nextId' = nextId /\ process = "up" /\ process' = "up"
        /\ following /\ following' = following
        /\ request' = "sent" /\ asked' = OnBus /\ answered' = answered /\ orphans' = orphans
    BY <1>4 DEF Request, Running, allVars, ircVars, configVars
  <2>2. \A s \in DOMAIN servers : servers[s].phase = "ready" => s \in OnBus
    BY DEF OnBus
  <2> QED
    BY <1>1, <1>2, <2>1, <2>2 DEF ViewInv
<1>5. ASSUME NEW s \in asked, Answer(s)
      PROVE  ViewInv'
  <2>1. /\ servers' = servers /\ nextId' = nextId /\ process' # "down"
        /\ following' = following /\ request' = request /\ orphans' = orphans
        /\ asked' = asked \ {s} /\ answered' = answered \cup {s} /\ known' = known
        /\ Say(<<Items(servers[s])>>)
    BY <1>5 DEF Answer, NoSave, Running, configVars, treeVars
  <2>2. ~following => feed' = feed
    BY <2>1 DEF Say
  <2>3. asked \subseteq DOMAIN servers
    BY <1>1 DEF OnBus
  <2>4. AnswersStay
    <3>1. following
      BY <1>1, <1>5
    <3>2. answered' \subseteq OnBus'
      BY <1>1, <1>2, <2>1
    <3> QED
      BY <1>2, <2>1, <3>1, <3>2 DEF AnswersStay
  <2> QED
    BY <1>2, <2>1, <2>2, <2>3, <2>4, ViewStays
<1>6. CASE Consume
  <2>1. /\ servers' = servers /\ nextId' = nextId /\ process' = process
        /\ following' = following /\ request' = request /\ orphans' = orphans
        /\ asked' = asked /\ answered' = answered /\ feed # <<>>
    BY <1>6, Zenon DEF Consume, configVars, viewVars
  <2>2. following /\ process # "down"
    BY <1>1, <2>1
  <2>3. asked \subseteq DOMAIN servers
    BY <1>1 DEF OnBus
  <2>4. AnswersStay
    BY <1>1, <1>2, <2>1, <2>2 DEF AnswersStay
  <2> QED
    BY <1>2, <2>1, <2>2, <2>3, <2>4, ViewStays
<1> QED
  BY <1>3, <1>4, <1>5, <1>6

-----------------------------------------------------------------------------
(* The tree at every step.                                                 *)

LEMMA TreeMembers ==
  /\ DOMAIN Tree = Parts
  /\ Tree.known = known /\ Tree.nodes = nodes /\ Tree.roots = roots
  /\ Tree.parked = parked /\ Tree.fault = treeFault
BY DEF Tree, Parts

SameTree(t, u) ==
  /\ DOMAIN u = DOMAIN t
  /\ u.known = t.known /\ u.nodes = t.nodes /\ u.roots = t.roots
  /\ u.parked = t.parked /\ u.fault = t.fault

LEMMA SameTreeIsSound ==
  ASSUME NEW t, NEW u, SameTree(t, u)
  PROVE  /\ \A F : TreeSound(t, F) => TreeSound(u, F)
         /\ \A C : Mirrored(t, C) => Mirrored(u, C)
<1>1. TreeTyped(t) => TreeTyped(u)
  BY Zenon DEF SameTree, TreeTyped
<1>2. \A p : KidsOf(u, p) = KidsOf(t, p)
  BY Zenon DEF SameTree, KidsOf
<1>3. Listing(t) => Listing(u)
  <2>1. u.nodes = t.nodes
    BY DEF SameTree
  <2> QED
    BY ONLY <1>2, <2>1, Zenon DEF Listing
<1>4. \A F : Waiting(t, F) => Waiting(u, F)
  BY Zenon DEF SameTree, Waiting
<1>5. \A C : Mirrored(t, C) => Mirrored(u, C)
  BY Zenon DEF SameTree, Mirrored
<1> QED
  BY <1>1, <1>3, <1>4, <1>5, Zenon DEF SameTree, TreeSound

(* What is sound with some ids of hosts is so with more. *)
LEMMA SoundWithMore ==
  ASSUME NEW t, NEW F, TreeSound(t, F), NEW G, F \subseteq G
  PROVE  TreeSound(t, G)
BY DEF TreeSound, Waiting

LEMMA TreeStays ==
  ASSUME UNCHANGED treeVars
  PROVE  SameTree(Tree, Tree')
<1>1. /\ known' = known /\ nodes' = nodes /\ roots' = roots /\ parked' = parked
      /\ treeFault' = treeFault
  BY DEF treeVars
<1>2. /\ DOMAIN Tree' = Parts
      /\ Tree'.known = known' /\ Tree'.nodes = nodes' /\ Tree'.roots = roots'
      /\ Tree'.parked = parked' /\ Tree'.fault = treeFault'
  BY DEF Tree, Parts
<1> QED
  BY <1>1, <1>2, TreeMembers DEF SameTree

LEMMA TreeBecomes ==
  ASSUME NEW u, DOMAIN u = Parts, Becomes(u)
  PROVE  SameTree(u, Tree')
<1>1. /\ DOMAIN Tree' = Parts
      /\ Tree'.known = known' /\ Tree'.nodes = nodes' /\ Tree'.roots = roots'
      /\ Tree'.parked = parked' /\ Tree'.fault = treeFault'
  BY DEF Tree, Parts
<1> QED
  BY <1>1 DEF SameTree, Becomes

(* The tree before anything is known. *)
LEMMA EmptyTree ==
  ASSUME NEW t, DOMAIN t = Parts, t.known = Nothing, t.nodes = Nothing, t.roots = <<>>,
         t.parked = Nothing, t.fault = NoFault
  PROVE  (\A F : TreeSound(t, F)) /\ (\A C : Mirrored(t, C))
<1>1. /\ DOMAIN Nothing = {} /\ DOMAIN <<>> = {} /\ <<>> \in Seq(Ids)
      /\ \A S : Nothing \in [DOMAIN Nothing -> S]
  BY DEF Nothing
<1>2. TreeTyped(t)
  BY <1>1, Zenon DEF TreeTyped
<1>3. Listing(t)
  <2>1. IsInjective(<<>>) /\ Range(<<>>) = {}
    BY <1>1 DEF IsInjective, Range
  <2>2. KidsOf(t, NoParent) = <<>>
    BY DEF KidsOf
  <2> QED
    BY <1>1, <2>1, <2>2 DEF Listing
<1>4. \A F : Waiting(t, F)
  BY <1>1 DEF Waiting
<1>5. \A C : Mirrored(t, C)
  BY <1>1 DEF Mirrored
<1> QED
  BY <1>1, <1>2, <1>3, <1>4, <1>5 DEF TreeSound

(* What a client that listens makes of the announcements does not change   *)
(* the plugin.                                                             *)
LEMMA ClientSideKeeps ==
  ASSUME BuffersInv, UNCHANGED <<configVars, servers, nextId, acts>>, following' \in BOOLEAN
  PROVE  /\ BuffersInv'
         /\ \A F : KindInv(F) => KindInv(F)'
<1>1. servers' = servers /\ nextId' = nextId /\ file' = file /\ acts' = acts
      /\ process' = process /\ timer' = timer /\ missed' = missed
  BY DEF configVars
<1>2. FileTyped'
  BY <1>1, Zenon DEF BuffersInv, FileTyped
<1>3. StoredSound' /\ Stored' = Stored
  BY <1>1, SameFile DEF BuffersInv
<1>4. ServersSound' /\ Apart(servers', Stored', nextId') /\ nextId' \in 1..(MaxId + 1)
  BY <1>1, <1>3 DEF BuffersInv, ServersSound
<1>5. BuffersInv'
  BY <1>1, <1>2, <1>3, <1>4 DEF BuffersInv
<1> QED
  BY <1>1, <1>3, <1>5, SameKinds

TreeKinds(F) == KindInv(F) /\ FeedSound(F) /\ TreeSound(Tree, F)

TreeInv == BuffersInv /\ ViewInv /\ \E F : TreeKinds(F)

LEMMA TreeInvInit == Init => TreeInv
<1> SUFFICES ASSUME Init
             PROVE  TreeInv
  OBVIOUS
<1>1. BuffersInv /\ ViewInv
  BY BuffersInvInit, ViewInvInit DEF Init
<1>2. servers = None /\ file = Absent /\ feed = <<>>
  BY Zenon DEF Init, IrcInit, ConfigInit
<1>3. KindInv({})
  <2>1. Stored = None /\ DOMAIN None = {}
    BY <1>2 DEF Stored, Absent, None
  <2> QED
    BY <1>2, <2>1 DEF KindInv
<1>4. FeedSound({})
  BY <1>2 DEF FeedSound
<1>5. TreeSound(Tree, {})
  <2>1. known = Nothing /\ nodes = Nothing /\ roots = <<>> /\ parked = Nothing /\ treeFault = NoFault
    BY Zenon DEF Init, TreeInit, NoFault
  <2> QED
    BY <2>1, EmptyTree, TreeMembers, Zenon
<1> QED
  BY <1>1, <1>3, <1>4, <1>5, Zenon DEF TreeInv, TreeKinds

LEMMA CoreKeepsTree ==
  ASSUME TreeInv, CoreStep
  PROVE  TreeInv'
<1>1. PICK F : KindInv(F) /\ FeedSound(F) /\ TreeSound(Tree, F)
  BY DEF TreeInv, TreeKinds
<1>2. BuffersInv /\ ViewInv /\ IrcNext
  BY Zenon DEF TreeInv, CoreStep, IrcNext, ConfigStep
<1>3. BuffersInv' /\ ViewInv'
  BY <1>1, <1>2, BuffersInvNext, ViewInvCore DEF FeedSound
<1>4. PICK G : Widens(F, G) /\ KindInv(G)' /\ FeedSound(G)'
  BY <1>1, <1>2, CoreKinds DEF Grown
<1>5. TreeSound(Tree', G)
  <2>1. CASE UNCHANGED treeVars
    <3>1. TreeSound(Tree, G)
      BY <1>1, <1>4, SoundWithMore DEF Widens
    <3> QED
      BY <2>1, <3>1, TreeStays, SameTreeIsSound
  <2>2. CASE /\ known' = Nothing /\ nodes' = Nothing /\ roots' = <<>>
             /\ parked' = Nothing /\ treeFault' = NoFault
    <3>1. /\ DOMAIN Tree' = Parts
          /\ Tree'.known = known' /\ Tree'.nodes = nodes' /\ Tree'.roots = roots'
          /\ Tree'.parked = parked' /\ Tree'.fault = treeFault'
      BY DEF Tree, Parts
    <3> QED
      BY <2>2, <3>1, EmptyTree, Zenon
  <2> QED
    BY <2>1, <2>2, Zenon DEF CoreStep, NoFault
<1> QED
  BY <1>3, <1>4, <1>5, Zenon DEF TreeInv, TreeKinds

(* What Consumed makes of the tree. *)
LEMMA ConsumeTakes ==
  ASSUME NEW F, KindInv(F), FeedSound(F), TreeSound(Tree, F), Consume
  PROVE  LET m == Head(feed)
             u == Consumed(Tree, m)
         IN  /\ m \in Message /\ MessageSound(m, F, nextId)
             /\ TreeSound(u, F) /\ SameTree(u, Tree') /\ known' = u.known
             /\ treeFault = NoFault /\ Tree.fault = NoFault
<1> DEFINE m == Head(feed)
           u == Consumed(Tree, m)
<1>1. Becomes(u) /\ feed # <<>> /\ treeFault = NoFault
  BY Zenon DEF Consume, NoFault
<1>2. feed[1] = m /\ 1 \in DOMAIN feed /\ m \in Message
  BY <1>1 DEF FeedSound
<1>3. MessageSound(m, F, nextId)
  BY <1>2, Zenon DEF FeedSound
<1>4. Tree.fault = NoFault
  BY <1>1, TreeMembers
<1> HIDE DEF m
<1>5. F \in SUBSET Ids
  BY DEF KindInv
<1>6. TreeSound(u, F)
  BY <1>2, <1>3, <1>4, <1>5, ConsumedKeeps
<1> HIDE DEF u
<1>7. SameTree(u, Tree')
  BY <1>1, <1>6, TreeBecomes DEF TreeSound, TreeTyped
<1>8. known' = u.known
  BY <1>1 DEF Becomes
<1> QED
  BY <1>1, <1>2, <1>3, <1>4, <1>6, <1>7, <1>8 DEF m, u

LEMMA ClientKeepsTree ==
  ASSUME TreeInv, Follow \/ Request \/ Consume \/ \E s \in asked : Answer(s)
  PROVE  TreeInv'
<1>1. PICK F : KindInv(F) /\ FeedSound(F) /\ TreeSound(Tree, F)
  BY DEF TreeInv, TreeKinds
<1>2. BuffersInv /\ ViewInv
  BY DEF TreeInv
<1>3. ViewInv'
  BY <1>1, <1>2, ViewInvClient DEF FeedSound
<1>4. UNCHANGED <<configVars, servers, nextId, acts>> /\ following' \in BOOLEAN
  <2>1. following \in BOOLEAN
    BY <1>2 DEF BuffersInv
  <2>2. CASE Follow \/ Request
    BY <2>1, <2>2 DEF Follow, Request, allVars, ircVars
  <2>3. CASE Consume \/ \E s \in asked : Answer(s)
    BY <2>1, <2>3, Zenon DEF Consume, Answer, NoSave
  <2> QED
    BY <2>2, <2>3
<1>5. BuffersInv' /\ KindInv(F)'
  BY <1>1, <1>2, <1>4, ClientSideKeeps
<1>6. nextId' = nextId /\ nextId \in Nat
  BY <1>2, <1>4 DEF BuffersInv
<1>7. CASE Consume
  <2> DEFINE m == Head(feed)
             u == Consumed(Tree, m)
  <2>1. TreeSound(u, F) /\ SameTree(u, Tree')
    BY <1>1, <1>7, ConsumeTakes
  <2>2. TreeSound(Tree', F)
    BY <2>1, SameTreeIsSound, Zenon
  <2>3. feed # <<>> /\ feed' = Tail(feed)
    BY <1>7, Zenon DEF Consume
  <2>4. FeedSound(F)'
    <3>1. /\ feed' \in Seq(Message) /\ DOMAIN feed' = 1..(Len(feed) - 1) /\ DOMAIN feed = 1..Len(feed)
          /\ \A i \in 1..(Len(feed) - 1) : feed'[i] = feed[i + 1]
          /\ Len(feed) \in Nat
      BY <1>1, <2>3, HeadTailProperties, EmptySeq, LenProperties DEF FeedSound
    <3>2. \A i \in DOMAIN feed' : i + 1 \in DOMAIN feed /\ feed'[i] = feed[i + 1]
      BY <3>1
    <3> QED
      BY <1>1, <1>6, <3>1, <3>2 DEF FeedSound
  <2> QED
    BY <1>3, <1>5, <2>2, <2>4, Zenon DEF TreeInv, TreeKinds
<1>8. CASE Follow \/ Request \/ \E s \in asked : Answer(s)
  <2>1. UNCHANGED treeVars
    BY <1>8 DEF Follow, Request, Answer
  <2>2. TreeSound(Tree', F)
    BY <1>1, <2>1, TreeStays, SameTreeIsSound, Zenon
  <2>3. FeedSound(F)'
    <3>1. CASE Follow \/ Request
      <4>1. feed' = feed
        BY <3>1 DEF Follow, Request, allVars, ircVars
      <4> QED
        BY <1>1, <1>6, <4>1 DEF FeedSound
    <3>2. ASSUME NEW s \in asked, Answer(s)
          PROVE  FeedSound(F)'
      <4> DEFINE m == Items(servers[s])
      <4>1. s \in DOMAIN servers
        BY <1>2, <3>2 DEF ViewInv, OnBus
      <4>2. Say(<<m>>)
        BY <3>2 DEF Answer
      <4>3. m \in Message /\ MessageSound(m, F, nextId)
        BY <1>1, <1>2, <4>1, ItemsSound, ItemsTell DEF BuffersInv, ServersSound
      <4> HIDE DEF m
      <4>4. feed' = feed \/ feed' = Append(feed, m)
        BY <1>1, <4>2, <4>3, Saying DEF FeedSound
      <4>5. Widens(F, F)
        BY <1>1, WidensItself
      <4> QED
        BY <1>1, <1>6, <4>3, <4>4, <4>5, FeedWidens
    <3> QED
      BY <1>8, <3>1, <3>2
  <2> QED
    BY <1>3, <1>5, <2>2, <2>3, Zenon DEF TreeInv, TreeKinds
<1> QED
  BY <1>7, <1>8

LEMMA TreeInvNext == TreeInv /\ [Next]_vars => TreeInv'
<1> SUFFICES ASSUME TreeInv, [Next]_vars
             PROVE  TreeInv'
  OBVIOUS
<1>1. CASE CoreStep
  BY <1>1, CoreKeepsTree
<1>2. CASE Follow \/ Request \/ Consume \/ \E s \in asked : Answer(s)
  BY <1>2, ClientKeepsTree
<1>3. CASE UNCHANGED vars
  <2>1. PICK F : KindInv(F) /\ FeedSound(F) /\ TreeSound(Tree, F)
    BY DEF TreeInv, TreeKinds
  <2>2. BuffersInv /\ ViewInv
    BY DEF TreeInv
  <2>3. /\ UNCHANGED allVars /\ UNCHANGED treeVars /\ UNCHANGED viewVars
    BY <1>3 DEF vars
  <2>4. /\ process' = process /\ servers' = servers /\ nextId' = nextId /\ acts' = acts
        /\ following' = following /\ feed' = feed /\ UNCHANGED configVars
    BY <2>3 DEF allVars, ircVars, configVars
  <2>5. /\ known' = known /\ request' = request /\ asked' = asked /\ answered' = answered
        /\ orphans' = orphans
    BY <2>3 DEF treeVars, viewVars
  <2>6. BuffersInv' /\ KindInv(F)'
    BY <2>1, <2>2, <2>4, ClientSideKeeps DEF BuffersInv
  <2>7. ViewInv'
    BY <2>2, <2>4, <2>5 DEF ViewInv, OnBus
  <2>8. TreeSound(Tree', F)
    BY <2>1, <2>3, TreeStays, SameTreeIsSound, Zenon
  <2>9. FeedSound(F)'
    BY <2>1, <2>4 DEF FeedSound
  <2> QED
    BY <2>6, <2>7, <2>8, <2>9, Zenon DEF TreeInv, TreeKinds
<1> QED
  BY <1>1, <1>2, <1>3 DEF Next

LEMMA TreeInvHolds == Spec => []TreeInv
BY TreeInvInit, TreeInvNext, PTL DEF Spec

-----------------------------------------------------------------------------
(* What the views see.                                                     *)

LEMMA RowIsFound ==
  ASSUME NEW n, NEW q \in Seq(Ids), ChildrenOf(Parent(n)) = q, IsInjective(q),
         NEW i \in DOMAIN q, q[i] = n
  PROVE  RowOf(n) = i
<1>1. Len(q) \in Nat /\ DOMAIN q = 1..Len(q)
  BY LenProperties
<1>2. \A j \in 1..Len(q) : q[j] = n => j = i
  BY <1>1 DEF IsInjective
<1>3. {j \in 1..Len(q) : q[j] = n} = {i}
  BY <1>1, <1>2
<1>4. Min({i}) = i
  BY <1>1 DEF Min
<1>5. {i} # {}
  OBVIOUS
<1> QED
  BY <1>3, <1>4, <1>5, Zenon DEF RowOf, SelectInSeq

LEMMA ViewsAgree ==
  ASSUME TreeInv
  PROVE  TreeIsSound
<1>1. PICK F : F \subseteq Ids /\ TreeSound(Tree, F)
  BY DEF TreeInv, TreeKinds, KindInv
<1>2. treeFault \in {"", "root removed"}
  BY <1>1, TreeMembers, Zenon DEF TreeSound, TreeTyped, NoFault, RootRemoved
<1>3. ASSUME treeFault = NoFault
      PROVE  /\ DOMAIN nodes = DOMAIN known
             /\ \A n \in DOMAIN nodes : Index(RowOf(n), Parent(n)) = n
             /\ \A p \in DOMAIN nodes \cup {NoParent} : \A row \in 1..RowCount(p) :
                  LET n == Index(row, p)
                  IN  n \in DOMAIN nodes /\ Parent(n) = p /\ RowOf(n) = row
             /\ \A p \in DOMAIN parked \ DOMAIN nodes : \A i \in DOMAIN parked[p] :
                  parked[p][i] \in DOMAIN nodes /\ nodes[parked[p][i]].parent = NoParent
  <2>1. /\ DOMAIN nodes = DOMAIN known /\ TreeTyped(Tree) /\ Listing(Tree) /\ Waiting(Tree, F)
    BY <1>1, <1>3, TreeMembers DEF TreeSound
  <2>2. \A p : KidsOf(Tree, p) = ChildrenOf(p)
    BY TreeMembers DEF KidsOf, ChildrenOf
  <2>3. \A p \in DOMAIN nodes \cup {NoParent} :
          /\ ChildrenOf(p) \in Seq(Ids) /\ IsInjective(ChildrenOf(p))
          /\ \A n : n \in Range(ChildrenOf(p)) <=> n \in DOMAIN nodes /\ Parent(n) = p
    <3>1. \A p \in DOMAIN nodes \cup {NoParent} : ChildrenOf(p) \in Seq(Ids)
      BY <2>1, <2>2, KidsTyped, TreeMembers
    <3> QED
      BY <2>1, <2>2, <3>1, TreeMembers DEF Listing, Parent
  <2>4. ASSUME NEW n \in DOMAIN nodes
        PROVE  Index(RowOf(n), Parent(n)) = n
    <3> DEFINE q == ChildrenOf(Parent(n))
    <3>1. Parent(n) \in DOMAIN nodes \cup {NoParent}
      BY <2>1, <2>4, TreeMembers DEF Waiting, Parent
    <3>2. q \in Seq(Ids) /\ IsInjective(q) /\ n \in Range(q)
      BY <2>3, <2>4, <3>1
    <3> HIDE DEF q
    <3>3. PICK i \in DOMAIN q : q[i] = n
      BY <3>2 DEF Range
    <3>4. RowOf(n) = i
      BY <3>2, <3>3, RowIsFound DEF q
    <3>5. DOMAIN q = 1..Len(q)
      BY <3>2, LenProperties
    <3> QED
      BY <3>3, <3>4, <3>5 DEF Index, RowCount, q
  <2>5. ASSUME NEW p \in DOMAIN nodes \cup {NoParent}, NEW row \in 1..RowCount(p)
        PROVE  LET n == Index(row, p)
               IN  n \in DOMAIN nodes /\ Parent(n) = p /\ RowOf(n) = row
    <3> DEFINE q == ChildrenOf(p)
               n == Index(row, p)
    <3>1. q \in Seq(Ids) /\ IsInjective(q)
      BY <2>3, <2>5
    <3>2. row \in DOMAIN q /\ n = q[row]
      BY <2>5, <3>1, LenProperties DEF Index, RowCount
    <3> HIDE DEF n
    <3>3. n \in DOMAIN nodes /\ Parent(n) = p
      BY <2>3, <2>5, <3>2 DEF Range
    <3>4. RowOf(n) = row
      BY <3>1, <3>2, <3>3, RowIsFound
    <3> QED
      BY <3>3, <3>4 DEF n
  <2>6. ASSUME NEW p \in DOMAIN parked \ DOMAIN nodes, NEW i \in DOMAIN parked[p]
        PROVE  parked[p][i] \in DOMAIN nodes /\ nodes[parked[p][i]].parent = NoParent
    BY <2>1, <2>6, TreeMembers DEF Waiting, Range
  <2> QED
    BY <2>1, <2>4, <2>5, <2>6
<1>4. treeFault = "" <=> treeFault = NoFault
  BY Zenon DEF NoFault
<1> QED
  BY <1>2, <1>3, <1>4, Zenon DEF TreeIsSound

LEMMA TypesOfBothSides ==
  ASSUME TreeInv
  PROVE  TypeOK
<1>1. PICK F : F \subseteq Ids /\ FeedSound(F) /\ TreeSound(Tree, F)
  BY DEF TreeInv, TreeKinds, KindInv
<1>2. BuffersInv /\ ViewInv
  BY DEF TreeInv
<1>3. TreeTyped(Tree)
  BY <1>1 DEF TreeSound
<1>4. treeFault \in {"", "root removed", "unknown channel", "deleted channel", "deleted parent"}
  BY <1>3, TreeMembers, Zenon DEF TreeTyped, NoFault, RootRemoved
<1>5. /\ DOMAIN known \subseteq Ids /\ DOMAIN nodes \subseteq Ids /\ DOMAIN parked \subseteq Ids
      /\ roots \in Seq(Ids)
  BY <1>3, TreeMembers DEF TreeTyped
<1>6. \A n \in DOMAIN nodes :
        nodes[n].parent \in Ids \cup {NoParent} /\ nodes[n].children \in Seq(Ids)
  BY <1>3, TreeMembers DEF TreeTyped, NodeType
<1>7. /\ request \in {"no", "sent", "early"} /\ orphans \subseteq Ids
      /\ asked \subseteq DOMAIN servers /\ answered \subseteq DOMAIN servers
  BY <1>2 DEF ViewInv, OnBus
<1> QED
  BY <1>2, <1>4, <1>5, <1>6, <1>7, BuffersAreTyped, Zenon DEF TypeOK

(* The plugin, its file and the client's tree are what they are taken for. *)
THEOREM BothSidesTyped == Spec => []TypeOK
<1>1. TreeInv => TypeOK
  BY TypesOfBothSides
<1> QED
  BY <1>1, TreeInvHolds, PTL

(* Whatever the lists announce and in whatever order servers, channels and *)
(* their announcements come and go, index(), parent() and rowCount() of    *)
(* the tree agree, it has a node of every row of the mirror and of no      *)
(* other, and no pointer in it leads to a channel that has been deleted    *)
(* (ChannelsModel::added, removed, index).                                 *)
THEOREM TheTreeIsSound == Spec => []TreeIsSound
<1>1. TreeInv => TreeIsSound
  BY ViewsAgree
<1> QED
  BY <1>1, TreeInvHolds, PTL

-----------------------------------------------------------------------------
(* What has been said of a channel, and what the lists have of it.  Clean  *)
(* are the channels that TreeCatchesUp is about.                           *)

Clean(x) == x \notin orphans /\ \A s \in DOMAIN servers : ~Shared(servers[s], x)

(* The list of s has told all that it has. *)
Complete(s) == s \in answered

IsListed(x) == \E s \in DOMAIN servers : \E t, q : HasRow(servers[s], x, t, q)

HistoryOf(x) ==
  /\ ~(x < nextId) => Unheard(known, feed, x)
  /\ \A s \in DOMAIN servers :
       servers[s].phase = "made" /\ x \in HeldIds(servers[s]) => Unheard(known, feed, x)
  /\ ~IsListed(x) /\ x \notin orphans => Silent(known, feed, x)
  /\ \A s \in DOMAIN servers : \A t, q : HasRow(servers[s], x, t, q) /\ Clean(x) =>
       /\ Resumed(known, feed, x) /\ Only(known, feed, x, q)
       /\ Complete(s) => Told(known, feed, x)
  /\ Clean(x) => Steady(known, feed, x)

HistoryInv == \A x \in Ids : HistoryOf(x)

(* What has been said of a channel goes on to hold. *)
AsHeard(x) ==
  /\ Silent(known, feed, x) => Silent(known', feed', x)
  /\ \A q : Only(known, feed, x, q) => Only(known', feed', x, q)
  /\ Resumed(known, feed, x) => Resumed(known', feed', x)
  /\ Told(known, feed, x) /\ Resumed(known, feed, x) => Told(known', feed', x)
  /\ Unheard(known, feed, x) => Unheard(known', feed', x)
  /\ Steady(known, feed, x) => Steady(known', feed', x)

LEMMA SameIsHeard ==
  ASSUME known' = known, feed' = feed
  PROVE  \A x : AsHeard(x)
BY DEF AsHeard

LEMMA OtherIsHeard ==
  ASSUME known' = known, feed \in Seq(Message), NEW m \in Message, feed' = Append(feed, m), NEW x,
         \A q : ~Tells(m, x, q), ~Ends(m, x)
  PROVE  AsHeard(x)
<1>1. LET g == Append(feed, m)
      IN  /\ Silent(known, feed, x) => Silent(known, g, x)
          /\ \A q : Only(known, feed, x, q) => Only(known, g, x, q)
          /\ Told(known, feed, x) => Told(known, g, x)
          /\ Resumed(known, feed, x) => Resumed(known, g, x)
          /\ Unheard(known, feed, x) => Unheard(known, g, x)
          /\ Steady(known, feed, x) => Steady(known, g, x)
  BY OthersAreSaid
<1> QED
  BY <1>1, Zenon DEF AsHeard

LEMMA TakenIsHeard ==
  ASSUME feed \in Seq(Message), feed # <<>>, feed' = Tail(feed), Takes(known, Head(feed), known'),
         NEW x
  PROVE  AsHeard(x)
<1>1. LET g == Tail(feed)
      IN  /\ Silent(known, feed, x) => Silent(known', g, x)
          /\ \A q : Only(known, feed, x, q) => Only(known', g, x, q)
          /\ Resumed(known, feed, x) => Resumed(known', g, x)
          /\ Told(known, feed, x) /\ Resumed(known, feed, x) => Told(known', g, x)
          /\ Unheard(known, feed, x) => Unheard(known', g, x)
          /\ Steady(known, feed, x) => Steady(known', g, x)
  BY TakingKeeps
<1> QED
  BY <1>1, Zenon DEF AsHeard

(* The history of a channel whose rows stay. *)
LEMMA HistoryGoesOn ==
  ASSUME NEW x, HistoryOf(x), AsHeard(x), nextId \in Nat, x \in Nat, Proceeds, Clean(x)' => Clean(x),
         ~IsListed(x)' /\ x \notin orphans' => ~IsListed(x) /\ x \notin orphans,
         \A s \in DOMAIN servers' : \A t, q : HasRow(servers'[s], x, t, q) /\ Clean(x)' =>
           /\ s \in DOMAIN servers /\ \E u : HasRow(servers[s], x, u, q)
           /\ Complete(s)' => Complete(s)
  PROVE  HistoryOf(x)'
<1>1. /\ ~(x < nextId) => Unheard(known, feed, x)
      /\ \A s \in DOMAIN servers :
           servers[s].phase = "made" /\ x \in HeldIds(servers[s]) => Unheard(known, feed, x)
      /\ ~IsListed(x) /\ x \notin orphans => Silent(known, feed, x)
      /\ \A s \in DOMAIN servers : \A t, q : HasRow(servers[s], x, t, q) /\ Clean(x) =>
           /\ Resumed(known, feed, x) /\ Only(known, feed, x, q)
           /\ Complete(s) => Told(known, feed, x)
      /\ Clean(x) => Steady(known, feed, x)
  BY Zenon DEF HistoryOf
<1>2. ~(x < nextId') => Unheard(known', feed', x)
  <2>1. ~(x < nextId') => ~(x < nextId)
    BY DEF Proceeds
  <2> QED
    BY <1>1, <2>1, Zenon DEF AsHeard
<1>3. ASSUME NEW s \in DOMAIN servers', servers'[s].phase = "made", x \in HeldIds(servers'[s])
      PROVE  Unheard(known', feed', x)
  <2>1. (s \in DOMAIN servers /\ x \in HeldIds(servers[s])) \/ ~(x < nextId)
    BY <1>3, Zenon DEF Proceeds
  <2>2. s \in DOMAIN servers => servers[s].phase = "made"
    BY <1>3, Zenon DEF Proceeds
  <2>3. Unheard(known, feed, x)
    BY <1>1, <2>1, <2>2, Zenon
  <2> QED
    BY <2>3, Zenon DEF AsHeard
<1>4. ~IsListed(x)' /\ x \notin orphans' => Silent(known', feed', x)
  BY <1>1, Zenon DEF AsHeard
<1>5. ASSUME NEW s \in DOMAIN servers', NEW t, NEW q, HasRow(servers'[s], x, t, q), Clean(x)'
      PROVE  /\ Resumed(known', feed', x) /\ Only(known', feed', x, q)
             /\ Complete(s)' => Told(known', feed', x)
  <2>1. /\ s \in DOMAIN servers /\ \E u : HasRow(servers[s], x, u, q)
        /\ Complete(s)' => Complete(s)
    BY <1>5, Zenon
  <2>2. /\ Resumed(known, feed, x) /\ Only(known, feed, x, q)
        /\ Complete(s) => Told(known, feed, x)
    BY <1>1, <1>5, <2>1, Zenon
  <2> QED
    BY <2>1, <2>2, Zenon DEF AsHeard
<1>6. Clean(x)' => Steady(known', feed', x)
  BY <1>1, Zenon DEF AsHeard
<1> QED
  BY <1>2, <1>3, <1>4, <1>5, <1>6, Zenon DEF HistoryOf, HeldIds, RowIds

(* That of a channel of which nothing has been heard. *)
LEMMA HistoryBegins ==
  ASSUME NEW x, Unheard(known', feed', x),
         \A s \in DOMAIN servers' : \A t, q : HasRow(servers'[s], x, t, q) => ~Complete(s)'
  PROVE  HistoryOf(x)'
<1>1. /\ Silent(known', feed', x) /\ Resumed(known', feed', x) /\ Steady(known', feed', x)
      /\ \A q : Only(known', feed', x, q)
  BY UnheardFacts
<1> QED
  BY <1>1, Zenon DEF HistoryOf

LEMMA HeldOnce ==
  ASSUME BuffersInv, NEW s \in DOMAIN servers, NEW r \in DOMAIN servers,
         NEW x, x \in HeldIds(servers[s]), x \in HeldIds(servers[r])
  PROVE  r = s
<1>1. Apart(servers, Stored, nextId) /\ DOMAIN servers \subseteq Servers
  BY DEF BuffersInv, ServersSound
<1>2. x \in OwnedIds(servers, Stored, s) /\ x \in OwnedIds(servers, Stored, r)
  BY DEF OwnedIds
<1>3. s \in Servers /\ r \in Servers
  BY <1>1
<1>4. r # s => OwnedIds(servers, Stored, s) \cap OwnedIds(servers, Stored, r) = {}
  BY <1>1, <1>3, Zenon DEF Apart
<1> QED
  BY <1>2, <1>4

LEMMA HeldAreBelow ==
  ASSUME BuffersInv, NEW s \in DOMAIN servers, NEW x \in HeldIds(servers[s])
  PROVE  x < nextId /\ x \in Ids /\ nextId \in Nat
<1>1. nextId \in 1..(MaxId + 1) /\ MaxId \in Nat
  BY BoundsAssumption DEF BuffersInv
<1>2. HeldIds(servers[s]) \subseteq 1..(nextId - 1)
  BY HeldAreGiven DEF BuffersInv, ServersSound
<1> QED
  BY <1>1, <1>2 DEF Ids

LEMMA RowIsOnlyOne ==
  ASSUME NEW srv, ServerSound(srv), NEW x, ~Shared(srv, x), NEW t, NEW q, HasRow(srv, x, t, q),
         NEW u, NEW r, HasRow(srv, x, u, r)
  PROVE  q = r
<1>1. srv.rows \in Seq(RowType)
  BY SoundParts
<1>2. \A i, j \in DOMAIN srv.rows : srv.rows[i].id = x /\ srv.rows[j].id = x => i = j
  BY <1>1, SharedIsTwice
<1> QED
  BY <1>2 DEF HasRow

LEMMA StillClean ==
  ASSUME NEW s \in DOMAIN servers, NEW new, Replaces(s, new), orphans' = orphans,
         \A y : Shared(servers[s], y) => Shared(new, y)
  PROVE  \A x : Clean(x)' => Clean(x)
<1>1. ASSUME NEW x, Clean(x)'
      PROVE  Clean(x)
  <2>1. x \notin orphans' /\ \A r \in DOMAIN servers' : ~Shared(servers'[r], x)
    BY <1>1 DEF Clean, Shared
  <2>2. \A r \in DOMAIN servers : ~Shared(servers[r], x)
    BY <2>1, Zenon DEF Replaces
  <2> QED
    BY <2>1, <2>2 DEF Clean
<1> QED
  BY <1>1

(* The history of a channel of which a server that is replaced has the     *)
(* rows that it had.                                                       *)
LEMMA ReplacedGoesOn ==
  ASSUME NEW x, HistoryOf(x), AsHeard(x), nextId \in Nat, x \in Nat, Proceeds, orphans' = orphans,
         NEW s \in DOMAIN servers, NEW new, Replaces(s, new),
         \A y : Shared(servers[s], y) => Shared(new, y),
         \A w, q : HasRow(new, x, w, q) => \E v : HasRow(servers[s], x, v, q),
         \A w, q : HasRow(servers[s], x, w, q) => \E v : HasRow(new, x, v, q),
         \A r \in DOMAIN servers : Complete(r)' =>
           Complete(r) \/ (r = s /\ ~\E w, q : HasRow(servers[s], x, w, q))
  PROVE  HistoryOf(x)'
<1>1. Clean(x)' => Clean(x)
  BY StillClean
<1>2. ~IsListed(x)' => ~IsListed(x)
  <2>1. ASSUME NEW r \in DOMAIN servers, NEW t, NEW q, HasRow(servers[r], x, t, q)
        PROVE  r \in DOMAIN servers' /\ \E v : HasRow(servers'[r], x, v, q)
    <3>1. CASE r = s
      BY <2>1, <3>1, Zenon DEF Replaces
    <3>2. CASE r # s
      BY <2>1, <3>2, Zenon DEF Replaces
    <3> QED
      BY <3>1, <3>2
  <2>2. ASSUME IsListed(x)
        PROVE  IsListed(x)'
    <3>1. PICK r \in DOMAIN servers : \E t, q : HasRow(servers[r], x, t, q)
      BY <2>2 DEF IsListed
    <3>2. r \in DOMAIN servers' /\ \E v, q : HasRow(servers'[r], x, v, q)
      BY <2>1, <3>1, Zenon
    <3> QED
      BY ONLY <3>2, Zenon DEF IsListed, HasRow
  <2> QED
    BY <2>2
<1>3. ASSUME NEW r \in DOMAIN servers', NEW t, NEW q, HasRow(servers'[r], x, t, q)
      PROVE  /\ r \in DOMAIN servers /\ \E u : HasRow(servers[r], x, u, q)
             /\ Complete(r)' => Complete(r)
  <2>1. r \in DOMAIN servers
    BY DEF Replaces
  <2>2. \E u : HasRow(servers[r], x, u, q)
    <3>1. CASE r = s
      BY <1>3, <3>1, Zenon DEF Replaces
    <3>2. CASE r # s
      BY <1>3, <2>1, <3>2, Zenon DEF Replaces
    <3> QED
      BY <3>1, <3>2
  <2> QED
    BY <2>1, <2>2, Zenon
<1> QED
  BY <1>1, <1>2, <1>3, HistoryGoesOn, Zenon

(* Nothing is said. *)
LEMMA KeptKeepHistory ==
  ASSUME BuffersInv, HistoryInv, Proceeds, known' = known, feed' = feed, orphans' = orphans,
         NEW s \in DOMAIN servers, NEW new, KeepsRows(s, new),
         \A r \in DOMAIN servers : Complete(r)' => Complete(r)
  PROVE  HistoryInv'
<1>1. ASSUME NEW x \in Ids
      PROVE  HistoryOf(x)'
  <2>1. HistoryOf(x) /\ AsHeard(x)
    BY SameIsHeard DEF HistoryInv
  <2>2. nextId \in Nat /\ x \in Nat
    BY DEF BuffersInv, Ids
  <2>3. /\ Replaces(s, new)
        /\ \A y : Shared(servers[s], y) => Shared(new, y)
        /\ \A w, q : HasRow(new, x, w, q) => \E v : HasRow(servers[s], x, v, q)
        /\ \A w, q : HasRow(servers[s], x, w, q) => \E v : HasRow(new, x, v, q)
    BY Zenon DEF KeepsRows
  <2> QED
    BY <2>1, <2>2, <2>3, ReplacedGoesOn
<1> QED
  BY <1>1 DEF HistoryInv

(* A list tells all that it has. *)
LEMMA ItemsKeepHistory ==
  ASSUME BuffersInv, HistoryInv, feed \in Seq(Message), Proceeds, known' = known, orphans' = orphans,
         NEW s \in DOMAIN servers, servers[s].phase # "made", NEW new, KeepsRows(s, new),
         feed' = Append(feed, Items(servers[s])),
         \A r \in DOMAIN servers : Complete(r)' => Complete(r) \/ r = s
  PROVE  HistoryInv'
<1> DEFINE m == Items(servers[s])
<1>1. ServerSound(servers[s]) /\ nextId \in Nat /\ \A x \in Ids : x \in Nat
  BY DEF BuffersInv, ServersSound, Ids
<1>2. /\ m \in Message
      /\ \A x, q : Tells(m, x, q) <=> \E t : HasRow(servers[s], x, t, q)
      /\ \A x : ~Ends(m, x)
  BY <1>1, ItemsTell
<1>3. feed' = Append(feed, m)
  OBVIOUS
<1> HIDE DEF m
<1>4. /\ Replaces(s, new)
      /\ \A y : Shared(servers[s], y) => Shared(new, y)
      /\ \A x, w, q : HasRow(new, x, w, q) => \E v : HasRow(servers[s], x, v, q)
      /\ \A x, w, q : HasRow(servers[s], x, w, q) => \E v : HasRow(new, x, v, q)
  BY Zenon DEF KeepsRows
<1>5. ASSUME NEW x \in Ids, ~\E t, q : HasRow(servers[s], x, t, q)
      PROVE  HistoryOf(x)'
  <2>1. \A q : ~Tells(m, x, q)
    BY <1>2, <1>5, Zenon
  <2>2. AsHeard(x)
    BY <1>2, <1>3, <2>1, OtherIsHeard
  <2>3. HistoryOf(x)
    BY DEF HistoryInv
  <2>4. \A r \in DOMAIN servers : Complete(r)' =>
          Complete(r) \/ (r = s /\ ~\E w, q : HasRow(servers[s], x, w, q))
    BY <1>5, Zenon
  <2> QED
    BY <1>1, <1>4, <2>2, <2>3, <2>4, ReplacedGoesOn
<1>6. ASSUME NEW x \in Ids, NEW t, NEW q, HasRow(servers[s], x, t, q)
      PROVE  HistoryOf(x)'
  <2>1. x \in HeldIds(servers[s]) /\ x < nextId
    BY <1>6, HeldByRows, HeldAreBelow
  <2>2. x < nextId'
    BY <1>1, <2>1 DEF Proceeds
  <2>3. ASSUME NEW r \in DOMAIN servers', x \in HeldIds(servers'[r])
        PROVE  r = s /\ servers'[r].phase # "made"
    <3>1. r \in DOMAIN servers /\ x \in HeldIds(servers[r])
      BY <2>1, <2>3, Zenon DEF Proceeds
    <3>2. r = s
      BY <2>1, <3>1, HeldOnce
    <3> QED
      BY <3>1, <3>2, Zenon DEF Proceeds
  <2>4. IsListed(x)'
    <3>1. \E v : HasRow(new, x, v, q)
      BY <1>4, <1>6, Zenon
    <3>2. s \in DOMAIN servers' /\ servers'[s] = new
      BY <1>4 DEF Replaces
    <3> QED
      BY <3>1, <3>2, Zenon DEF IsListed, HasRow
  <2>5. ASSUME Clean(x)'
        PROVE  /\ Told(known', feed', x) /\ Resumed(known', feed', x) /\ Only(known', feed', x, q)
               /\ Steady(known', feed', x)
               /\ \A w, r : HasRow(new, x, w, r) => r = q
    <3>1. Clean(x)
      BY <1>4, <2>5, StillClean
    <3>2. ~Shared(servers[s], x)
      BY <3>1 DEF Clean
    <3>3. \A u, r : HasRow(servers[s], x, u, r) => r = q
      BY <1>1, <1>6, <3>2, RowIsOnlyOne
    <3>4. Tells(m, x, q) /\ (\A r : Tells(m, x, r) => r = q) /\ ~Ends(m, x)
      BY <1>2, <1>6, <3>3, Zenon
    <3>5. Only(known, feed, x, q) /\ Steady(known, feed, x)
      BY <1>6, <3>1, Zenon DEF HistoryInv, HistoryOf
    <3>6. LET g == Append(feed, m)
          IN  /\ Told(known, g, x) /\ Resumed(known, g, x) /\ Only(known, g, x, q)
              /\ Steady(known, feed, x) => Steady(known, g, x)
      BY <1>2, <3>4, <3>5, TellingIsSaid
    <3>7. \A w, r : HasRow(new, x, w, r) => r = q
      BY <1>4, <3>3, Zenon
    <3> QED
      BY <1>3, <3>5, <3>6, <3>7, Zenon
  <2>6. ASSUME NEW r \in DOMAIN servers', NEW w, NEW p, HasRow(servers'[r], x, w, p), Clean(x)'
        PROVE  p = q
    <3>1. r = s
      BY <2>3, <2>6, HeldByRows
    <3> QED
      BY <1>4, <2>5, <2>6, <3>1 DEF Replaces
  <2> QED
    BY <2>2, <2>3, <2>4, <2>5, <2>6, Zenon DEF HistoryOf, HeldIds, RowIds
<1> QED
  BY <1>5, <1>6, Zenon DEF HistoryInv

(* Nobody has heard of the channels of a list that is not registered, and  *)
(* of nothing who does not listen.                                         *)
LEMMA UnheardIfSilent ==
  ASSUME BuffersInv, ViewInv, HistoryInv, NEW s \in DOMAIN servers, NEW x \in Ids,
         x \in HeldIds(servers[s]) \/ ~(x < nextId), ~following \/ servers[s].phase = "made"
  PROVE  Unheard(known, feed, x)
<1>1. CASE ~following
  <2>1. feed = <<>> /\ DOMAIN known = {}
    BY <1>1 DEF ViewInv
  <2> QED
    BY <2>1, NothingHeard
<1>2. CASE servers[s].phase = "made"
  BY <1>2, Zenon DEF HistoryInv, HistoryOf
<1> QED
  BY <1>1, <1>2

(* A buffer comes. *)
LEMMA AddingKeepsHistory ==
  ASSUME BuffersInv, ViewInv, HistoryInv, feed \in Seq(Message), Proceeds, known' = known,
         orphans' = orphans, NEW s \in DOMAIN servers, NEW t, NEW id, NEW p, NEW new,
         AddsRow(s, t, id, p, new), NEW m \in Message, m.cmd = "added" /\ m.row.id = id /\ m.row.parent = p,
         feed' = IF following /\ servers[s].phase # "made" THEN Append(feed, m) ELSE feed,
         \A r \in DOMAIN servers : Complete(r)' => Complete(r)
  PROVE  HistoryInv'
<1>1. nextId \in Nat /\ (\A x \in Ids : x \in Nat) /\ nextId' \in Nat /\ nextId <= nextId'
  BY DEF BuffersInv, Ids, Proceeds
<1>2. (\A x, q : Tells(m, x, q) <=> x = id /\ q = p) /\ \A x : ~Ends(m, x)
  <2>1. "added" # "items" /\ "added" # "removed"
    OBVIOUS
  <2> QED
    BY <2>1 DEF Tells, Ends
<1>3. /\ Replaces(s, new) /\ new.phase = servers[s].phase /\ new.known = servers[s].known /\ id \in Ids
      /\ \A y : Shared(servers[s], y) => Shared(new, y)
      /\ \A x, u, q : HasRow(new, x, u, q) <=> HasRow(servers[s], x, u, q) \/ (x = id /\ u = t /\ q = p)
      /\ id \in RowIds(servers[s]) => Shared(new, id)
  BY Zenon DEF AddsRow
<1>4. (id \in HeldIds(servers[s]) /\ id < nextId) \/ (id = nextId /\ nextId' = nextId + 1)
  <2>1. CASE t \in DOMAIN servers[s].known /\ id = servers[s].known[t]
    <3>1. id \in HeldIds(servers[s])
      BY <2>1, HeldByRows
    <3> QED
      BY <3>1, HeldAreBelow
  <2> QED
    BY <2>1 DEF AddsRow
<1>5. id \in HeldIds(servers[s]) \/ ~(id < nextId)
  BY <1>1, <1>4
<1>6. ASSUME NEW x \in Ids, x # id
      PROVE  HistoryOf(x)'
  <2>1. AsHeard(x)
    <3>1. (\A q : ~Tells(m, x, q)) /\ ~Ends(m, x)
      BY <1>2, <1>6, Zenon
    <3>2. feed' = Append(feed, m) => AsHeard(x)
      BY <3>1, OtherIsHeard
    <3> QED
      BY <3>2, SameIsHeard
  <2>2. HistoryOf(x) /\ x \in Nat
    BY <1>1 DEF HistoryInv
  <2>3. \A w, q : HasRow(new, x, w, q) <=> HasRow(servers[s], x, w, q)
    BY <1>3, <1>6, Zenon
  <2> QED
    BY <1>1, <1>3, <2>1, <2>2, <2>3, ReplacedGoesOn
<1>7. id < nextId'
  <2>1. id \in Nat
    BY <1>1, <1>3
  <2> QED
    BY <1>1, <1>4, <2>1
<1>8. \A r \in DOMAIN servers' : id \in HeldIds(servers'[r]) => r = s \/ id = nextId
  <2>1. ASSUME NEW r \in DOMAIN servers', id \in HeldIds(servers'[r]), id # nextId
        PROVE  r = s
    <3>1. id \in HeldIds(servers[s]) /\ id < nextId
      BY <1>4, <2>1
    <3>2. r \in DOMAIN servers /\ id \in HeldIds(servers[r])
      BY <2>1, <3>1, Zenon DEF Proceeds
    <3> QED
      BY <3>1, <3>2, HeldOnce
  <2> QED
    BY <2>1
<1>9. ASSUME NEW r \in DOMAIN servers, r # s
      PROVE  id \notin HeldIds(servers[r])
  <2>1. CASE id \in HeldIds(servers[s])
    BY <1>9, <2>1, HeldOnce
  <2>2. CASE ~(id < nextId)
    BY <2>2, HeldAreBelow
  <2> QED
    BY <1>5, <2>1, <2>2
<1>10. IsListed(id)'
  <2>1. s \in DOMAIN servers' /\ \E v, q : HasRow(servers'[s], id, v, q)
    BY <1>3, Zenon DEF Replaces
  <2> QED
    BY ONLY <2>1, Zenon DEF IsListed, HasRow
<1>11. ASSUME ~(following /\ servers[s].phase # "made")
       PROVE  Unheard(known', feed', id)
  BY <1>3, <1>5, <1>11, UnheardIfSilent
<1>12. \A r \in DOMAIN servers' : servers'[r].phase = "made" /\ id \in HeldIds(servers'[r]) =>
         Unheard(known', feed', id)
  <2>1. ASSUME NEW r \in DOMAIN servers', servers'[r].phase = "made", id \in HeldIds(servers'[r]),
               following /\ servers[s].phase # "made"
        PROVE  FALSE
    <3>1. r # s
      BY <1>3, <2>1 DEF Replaces
    <3>2. r \in DOMAIN servers /\ servers'[r] = servers[r]
      BY <1>3, <3>1, Zenon DEF Replaces
    <3> QED
      BY <1>9, <2>1, <3>1, <3>2
  <2> QED
    BY <1>11, <2>1
<1>13. ASSUME Clean(id)'
       PROVE  /\ Resumed(known', feed', id) /\ Only(known', feed', id, p) /\ Steady(known', feed', id)
              /\ following /\ servers[s].phase # "made" => Told(known', feed', id)
              /\ \A r \in DOMAIN servers' : \A w, q : HasRow(servers'[r], id, w, q) => r = s /\ q = p
  <2>1. Clean(id)
    BY <1>3, <1>13, StillClean
  <2>2. id \notin RowIds(servers[s])
    <3>1. ~Shared(new, id)
      BY <1>3, <1>13, Zenon DEF Clean, Shared, Replaces
    <3> QED
      BY <1>3, <3>1
  <2>3. ~IsListed(id)
    <3>1. \A r \in DOMAIN servers : \A w, q : ~HasRow(servers[r], id, w, q)
      BY <1>9, <2>2, HeldByRows, RowIdsHaveRows
    <3> QED
      BY <3>1, Zenon DEF IsListed
  <2>4. Silent(known, feed, id) /\ Steady(known, feed, id)
    <3>1. HistoryOf(id) /\ id \notin orphans
      BY <1>3, <2>1 DEF HistoryInv, Clean
    <3> QED
      BY <2>1, <2>3, <3>1, Zenon DEF HistoryOf
  <2>5. ASSUME NEW r \in DOMAIN servers', NEW w, NEW q, HasRow(servers'[r], id, w, q)
        PROVE  r = s /\ q = p
    <3>1. r \in DOMAIN servers
      BY <1>3 DEF Replaces
    <3>2. CASE r # s
      <4>1. HasRow(servers[r], id, w, q)
        BY <1>3, <2>5, <3>1, <3>2, Zenon DEF Replaces
      <4> QED
        BY <1>9, <3>1, <3>2, <4>1, HeldByRows
    <3>3. CASE r = s
      <4>1. HasRow(new, id, w, q)
        BY <1>3, <2>5, <3>3, Zenon DEF Replaces
      <4>2. ~HasRow(servers[s], id, w, q)
        BY <2>2, RowIdsHaveRows
      <4> QED
        BY <1>3, <3>3, <4>1, <4>2, Zenon
    <3> QED
      BY <3>2, <3>3
  <2>6. CASE following /\ servers[s].phase # "made"
    <3>1. Only(known, feed, id, p)
      BY <2>4, SilentIsOnly
    <3>2. Tells(m, id, p) /\ (\A r : Tells(m, id, r) => r = p) /\ ~Ends(m, id)
      BY <1>2
    <3>3. LET g == Append(feed, m)
          IN  /\ Told(known, g, id) /\ Resumed(known, g, id) /\ Only(known, g, id, p)
              /\ Steady(known, feed, id) => Steady(known, g, id)
      BY <1>3, <3>1, <3>2, TellingIsSaid
    <3> QED
      BY <2>4, <2>5, <2>6, <3>3, Zenon
  <2>7. CASE ~(following /\ servers[s].phase # "made")
    <3>1. Unheard(known', feed', id)
      BY <1>11, <2>7
    <3> QED
      BY <2>5, <2>7, <3>1, UnheardFacts
  <2> QED
    BY <2>6, <2>7
<1>14. Complete(s)' => following /\ servers[s].phase # "made"
  <2>1. Complete(s)' => Complete(s)
    OBVIOUS
  <2>2. Complete(s) => s \in OnBus /\ following
    BY DEF Complete, ViewInv
  <2> QED
    BY <2>1, <2>2 DEF OnBus
<1>15. HistoryOf(id)'
  BY <1>7, <1>10, <1>12, <1>13, <1>14, Zenon DEF HistoryOf, HeldIds, RowIds
<1> QED
  BY <1>3, <1>6, <1>15, Zenon DEF HistoryInv

(* A buffer goes. *)
LEMMA RemovingKeepsHistory ==
  ASSUME BuffersInv, ViewInv, HistoryInv, feed \in Seq(Message), Proceeds, known' = known,
         orphans' = orphans, NEW s \in DOMAIN servers, NEW t, NEW id \in Ids, NEW new,
         RemovesRow(s, t, id, new), NEW m \in Message, m.cmd = "removed" /\ m.id = id,
         feed' = IF following /\ servers[s].phase # "made" THEN Append(feed, m) ELSE feed,
         \A r \in DOMAIN servers : Complete(r)' => Complete(r)
  PROVE  HistoryInv'
<1>1. nextId \in Nat /\ (\A x \in Ids : x \in Nat) /\ nextId' = nextId
  BY DEF BuffersInv, Ids, RemovesRow
<1>2. Ends(m, id) /\ (\A x, q : ~Tells(m, x, q)) /\ (\A x : x # id => ~Ends(m, x))
  <2>1. "removed" # "items" /\ "added" # "removed"
    OBVIOUS
  <2> QED
    BY <2>1 DEF Tells, Ends
<1>3. /\ Replaces(s, new) /\ new.phase = servers[s].phase /\ id \in RowIds(servers[s])
      /\ \A x, u, q : HasRow(new, x, u, q) => HasRow(servers[s], x, u, q)
      /\ \A x, u, q : HasRow(servers[s], x, u, q) => x = id \/ HasRow(new, x, u, q)
      /\ \A y : Shared(servers[s], y) => Shared(new, y)
      /\ id \in RowIds(new) => Shared(new, id)
  BY Zenon DEF RemovesRow
<1>4. id \in HeldIds(servers[s]) /\ id < nextId
  <2>1. id \in HeldIds(servers[s])
    BY <1>3 DEF HeldIds
  <2> QED
    BY <2>1, HeldAreBelow
<1>5. ASSUME NEW x \in Ids, x # id
      PROVE  HistoryOf(x)'
  <2>1. AsHeard(x)
    <3>1. (\A q : ~Tells(m, x, q)) /\ ~Ends(m, x)
      BY <1>2, <1>5, Zenon
    <3>2. feed' = Append(feed, m) => AsHeard(x)
      BY <3>1, OtherIsHeard
    <3> QED
      BY <3>2, SameIsHeard
  <2>2. HistoryOf(x) /\ x \in Nat
    BY <1>1 DEF HistoryInv
  <2>3. \A w, q : HasRow(new, x, w, q) <=> HasRow(servers[s], x, w, q)
    BY <1>3, <1>5, Zenon
  <2> QED
    BY <1>1, <1>3, <2>1, <2>2, <2>3, ReplacedGoesOn
<1>6. ASSUME NEW r \in DOMAIN servers', id \in HeldIds(servers'[r])
      PROVE  r = s
  <2>1. r \in DOMAIN servers /\ id \in HeldIds(servers[r])
    BY <1>4, <1>6, Zenon DEF Proceeds
  <2> QED
    BY <1>4, <2>1, HeldOnce
<1>7. Unheard(known', feed', id) \/ (following /\ servers[s].phase # "made")
  <2>1. ~(following /\ servers[s].phase # "made") => Unheard(known, feed, id)
    BY <1>4, UnheardIfSilent
  <2> QED
    BY <2>1
<1>8. Silent(known', feed', id) /\ (Steady(known, feed, id) => Steady(known', feed', id))
  <2>1. CASE following /\ servers[s].phase # "made"
    <3>1. LET g == Append(feed, m)
          IN  Silent(known, g, id) /\ (Steady(known, feed, id) => Steady(known, g, id))
      BY <1>2, EndIsSaid
    <3> QED
      BY <2>1, <3>1, Zenon
  <2>2. CASE Unheard(known', feed', id)
    BY <2>2, UnheardFacts
  <2> QED
    BY <1>7, <2>1, <2>2
<1>9. \A r \in DOMAIN servers' : servers'[r].phase = "made" /\ id \in HeldIds(servers'[r]) =>
        Unheard(known', feed', id)
  <2>1. servers'[s].phase = servers[s].phase
    BY <1>3 DEF Replaces
  <2> QED
    BY <1>6, <1>7, <2>1
<1>10. \A r \in DOMAIN servers' : \A w, q : ~(HasRow(servers'[r], id, w, q) /\ Clean(id)')
  <2>1. ASSUME NEW r \in DOMAIN servers', NEW w, NEW q, HasRow(servers'[r], id, w, q), Clean(id)'
        PROVE  FALSE
    <3>1. r = s
      BY <1>6, <2>1, HeldByRows
    <3>2. servers'[s] = new /\ s \in DOMAIN servers'
      BY <1>3 DEF Replaces
    <3>3. id \in RowIds(new)
      BY <2>1, <3>1, <3>2, RowIdsHaveRows
    <3>4. ~Shared(new, id)
      BY <2>1, <3>2, Zenon DEF Clean, Shared
    <3> QED
      BY <1>3, <3>3, <3>4
  <2> QED
    BY <2>1
<1>11. Clean(id)' => Steady(known', feed', id)
  <2>1. Clean(id)' => Clean(id)
    BY <1>3, StillClean
  <2>2. Clean(id) => Steady(known, feed, id)
    BY Zenon DEF HistoryInv, HistoryOf
  <2> QED
    BY <1>8, <2>1, <2>2
<1>12. id < nextId'
  BY <1>1, <1>4
<1>13. HistoryOf(id)'
  BY <1>8, <1>9, <1>10, <1>11, <1>12, Zenon DEF HistoryOf, HeldIds, RowIds
<1> QED
  BY <1>5, <1>13, Zenon DEF HistoryInv

(* A server comes, with a row of its own. *)
LEMMA NewKeepsHistory ==
  ASSUME BuffersInv, HistoryInv, Proceeds, known' = known, feed' = feed, orphans' = orphans,
         NEW s, s \notin DOMAIN servers, NEW new, servers' = Inserted(servers, s, new),
         s \notin answered', \A x, t, q : HasRow(new, x, t, q) => ~(x < nextId),
         \A r \in DOMAIN servers : Complete(r)' => Complete(r)
  PROVE  HistoryInv'
<1>1. nextId \in Nat /\ \A x \in Ids : x \in Nat
  BY DEF BuffersInv, Ids
<1>2. /\ DOMAIN servers' = DOMAIN servers \cup {s} /\ servers'[s] = new
      /\ \A r \in DOMAIN servers : servers'[r] = servers[r]
  BY DEF Inserted
<1>3. ~Complete(s)'
  BY DEF Complete
<1>4. ASSUME NEW x \in Ids, ~(x < nextId)
      PROVE  HistoryOf(x)'
  <2>1. Unheard(known, feed, x)
    BY <1>4, Zenon DEF HistoryInv, HistoryOf
  <2>2. \A r \in DOMAIN servers' : \A t, q : HasRow(servers'[r], x, t, q) => ~Complete(r)'
    <3>1. ASSUME NEW r \in DOMAIN servers, NEW t, NEW q
          PROVE  ~HasRow(servers[r], x, t, q)
      BY <1>4, HeldByRows, HeldAreBelow
    <3> QED
      BY <1>2, <1>3, <3>1, Zenon
  <2> QED
    BY <2>1, <2>2, HistoryBegins
<1>5. ASSUME NEW x \in Ids, x < nextId
      PROVE  HistoryOf(x)'
  <2>1. HistoryOf(x) /\ AsHeard(x) /\ x \in Nat
    BY <1>1, SameIsHeard DEF HistoryInv
  <2>2. Clean(x)' => Clean(x)
    <3>1. ASSUME Clean(x)'
          PROVE  Clean(x)
      <4>1. x \notin orphans' /\ \A r \in DOMAIN servers' : ~Shared(servers'[r], x)
        BY <3>1 DEF Clean, Shared
      <4>2. \A r \in DOMAIN servers : ~Shared(servers[r], x)
        BY <1>2, <4>1, Zenon
      <4> QED
        BY <4>1, <4>2 DEF Clean
    <3> QED
      BY <3>1
  <2>3. ASSUME NEW r \in DOMAIN servers', NEW t, NEW q, HasRow(servers'[r], x, t, q)
        PROVE  r \in DOMAIN servers /\ HasRow(servers[r], x, t, q)
    <3>1. r # s
      BY <1>2, <1>5, <2>3
    <3> QED
      BY <1>2, <2>3, <3>1
  <2>4. ~IsListed(x)' => ~IsListed(x)
    <3>1. ASSUME IsListed(x)
          PROVE  IsListed(x)'
      <4>1. PICK r \in DOMAIN servers : \E t, q : HasRow(servers[r], x, t, q)
        BY <3>1 DEF IsListed
      <4>2. r \in DOMAIN servers' /\ \E t, q : HasRow(servers'[r], x, t, q)
        BY <1>2, <4>1
      <4> QED
        BY ONLY <4>2, Zenon DEF IsListed, HasRow
    <3> QED
      BY <3>1
  <2>5. \A r \in DOMAIN servers' : \A t, q : HasRow(servers'[r], x, t, q) /\ Clean(x)' =>
          /\ r \in DOMAIN servers /\ \E u : HasRow(servers[r], x, u, q)
          /\ Complete(r)' => Complete(r)
    BY <2>3, Zenon
  <2> QED
    BY <1>1, <2>1, <2>2, <2>4, <2>5, HistoryGoesOn
<1> QED
  BY <1>4, <1>5, Zenon DEF HistoryInv

(* A server goes, and what it had listed remains where it was shown. *)
LEMMA GoneKeepsHistory ==
  ASSUME BuffersInv, HistoryInv, known' = known, feed' = feed, NEW s \in DOMAIN servers,
         servers' = Restrict(servers, DOMAIN servers \ {s}), nextId' = nextId,
         orphans' = orphans \cup RowIds(servers[s]),
         \A r \in DOMAIN servers' : Complete(r)' => Complete(r)
  PROVE  HistoryInv' /\ \A x : Clean(x)' => Clean(x)
<1>1. nextId \in Nat /\ \A x \in Ids : x \in Nat
  BY DEF BuffersInv, Ids
<1>2. /\ DOMAIN servers' = DOMAIN servers \ {s}
      /\ \A r \in DOMAIN servers' : servers'[r] = servers[r]
  BY DEF Restrict
<1>3. Proceeds
  BY <1>2 DEF Proceeds
<1>4. ASSUME NEW x, Clean(x)'
      PROVE  Clean(x)
  <2>1. x \notin orphans' /\ \A r \in DOMAIN servers' : ~Shared(servers'[r], x)
    BY <1>4 DEF Clean, Shared
  <2>2. ~Shared(servers[s], x)
    <3>1. ServerSound(servers[s])
      BY DEF BuffersInv, ServersSound
    <3>2. servers[s].dangling \subseteq RowIds(servers[s]) /\ servers[s].rows \in Seq(RowType)
      BY <3>1, SoundParts
    <3>3. Shared(servers[s], x) => x \in RowIds(servers[s])
      BY <3>2, SharedIsTwice DEF RowIds
    <3> QED
      BY <2>1, <3>3
  <2> QED
    BY <1>2, <2>1, <2>2 DEF Clean
<1>5. ASSUME NEW x \in Ids
      PROVE  HistoryOf(x)'
  <2>1. HistoryOf(x) /\ AsHeard(x)
    BY SameIsHeard DEF HistoryInv
  <2>2. ~IsListed(x)' /\ x \notin orphans' => ~IsListed(x) /\ x \notin orphans
    <3>1. ASSUME IsListed(x), x \notin orphans'
          PROVE  IsListed(x)'
      <4>1. PICK r \in DOMAIN servers : \E t, q : HasRow(servers[r], x, t, q)
        BY <3>1 DEF IsListed
      <4>2. r # s
        BY <3>1, <4>1, RowIdsHaveRows
      <4>3. r \in DOMAIN servers' /\ \E t, q : HasRow(servers'[r], x, t, q)
        BY <1>2, <4>1, <4>2
      <4> QED
        BY ONLY <4>3, Zenon DEF IsListed, HasRow
    <3> QED
      BY <3>1
  <2>3. \A r \in DOMAIN servers' : \A t, q : HasRow(servers'[r], x, t, q) /\ Clean(x)' =>
          /\ r \in DOMAIN servers /\ \E u : HasRow(servers[r], x, u, q)
          /\ Complete(r)' => Complete(r)
    <3>1. ASSUME NEW r \in DOMAIN servers', NEW t, NEW q, HasRow(servers'[r], x, t, q)
          PROVE  r \in DOMAIN servers /\ \E u : HasRow(servers[r], x, u, q)
      BY <1>2, <3>1, Zenon
    <3> QED
      BY <3>1, Zenon
  <2> QED
    BY <1>1, <1>3, <1>4, <2>1, <2>2, <2>3, HistoryGoesOn
<1> QED
  BY <1>4, <1>5, Zenon DEF HistoryInv

(* The lists are as they were. *)
LEMMA SameKeepHistory ==
  ASSUME BuffersInv, HistoryInv, servers' = servers, nextId' = nextId, orphans' = orphans,
         \A x \in Ids : AsHeard(x), \A r \in DOMAIN servers : Complete(r)' => Complete(r)
  PROVE  HistoryInv' /\ \A x : Clean(x)' <=> Clean(x)
<1>1. nextId \in Nat /\ \A x \in Ids : x \in Nat
  BY DEF BuffersInv, Ids
<1>2. Proceeds
  BY DEF Proceeds
<1>3. \A x : (Clean(x)' <=> Clean(x)) /\ (IsListed(x)' <=> IsListed(x))
  BY DEF Clean, IsListed
<1>4. ASSUME NEW x \in Ids
      PROVE  HistoryOf(x)'
  <2>1. HistoryOf(x) /\ AsHeard(x)
    BY DEF HistoryInv
  <2>2. ~IsListed(x)' /\ x \notin orphans' => ~IsListed(x) /\ x \notin orphans
    BY <1>3
  <2>3. \A r \in DOMAIN servers' : \A t, q : HasRow(servers'[r], x, t, q) /\ Clean(x)' =>
          /\ r \in DOMAIN servers /\ \E u : HasRow(servers[r], x, u, q)
          /\ Complete(r)' => Complete(r)
    BY Zenon
  <2> QED
    BY <1>1, <1>2, <1>3, <2>1, <2>2, <2>3, HistoryGoesOn
<1> QED
  BY <1>3, <1>4, Zenon DEF HistoryInv

(* The core starts or ends, and nobody listens. *)
LEMMA RestartKeepsHistory ==
  ASSUME feed' = <<>>, DOMAIN known' = {}, answered' = {}
  PROVE  HistoryInv'
<1>1. \A r : ~Complete(r)'
  BY DEF Complete
<1>2. \A x : Unheard(known', feed', x)
  BY NothingHeard
<1>3. ASSUME NEW x \in Ids
      PROVE  HistoryOf(x)'
  BY <1>1, <1>2, HistoryBegins
<1> QED
  BY <1>3, Zenon DEF HistoryInv

(* Lists tell as much as they did when none of them becomes ready. *)
LEMMA AsComplete ==
  ASSUME answered' \subseteq answered \cup Readied,
         \A r \in DOMAIN servers \cap DOMAIN servers' :
           servers'[r].phase = "ready" => servers[r].phase = "ready"
  PROVE  \A r : Complete(r)' => Complete(r)
<1>1. Readied = {}
  BY Zenon DEF Readied
<1> QED
  BY <1>1 DEF Complete

LEMMA ReplacedIsAsComplete ==
  ASSUME NEW s, NEW new, Replaces(s, new), new.phase = "ready" => servers[s].phase = "ready",
         answered' \subseteq answered \cup Readied
  PROVE  \A r : Complete(r)' => Complete(r)
<1>1. \A r \in DOMAIN servers \cap DOMAIN servers' :
        servers'[r].phase = "ready" => servers[r].phase = "ready"
  BY DEF Replaces
<1> QED
  BY <1>1, AsComplete

(* What the handlers of a server's buffers and of its state do. *)
LEMMA HandlersKeepHistory ==
  ASSUME BuffersInv, ViewInv, HistoryInv, feed \in Seq(Message), NEW s \in DOMAIN servers,
         \/ \E h \in Hosts : SetHost(s, h)
         \/ StatusChanged(s) \/ RegisterList(s) \/ ListReady(s)
         \/ \E t \in Chats :
              \/ AddBuffer(s, t) \/ RemoveBuffer(s, t) \/ RemoveWrongRow(s, t)
              \/ \E u \in Chats : RenameBuffer(s, t, u),
         known' = known, answered' \subseteq answered \cup Readied, orphans' = orphans
  PROVE  HistoryInv' /\ \A x : Clean(x)' => Clean(x)
<1>1. Proceeds
  BY HandlerProceeds
<1>2. ASSUME \/ \E h \in Hosts : SetHost(s, h)
             \/ StatusChanged(s) \/ RegisterList(s)
             \/ \E t \in Chats : \E u \in Chats : RenameBuffer(s, t, u)
      PROVE  HistoryInv' /\ \A x : Clean(x)' => Clean(x)
  <2>1. PICK new : /\ KeepsRows(s, new) /\ feed' = feed
                   /\ new.phase = "ready" => servers[s].phase = "ready"
    BY <1>2, StayingSays
  <2>2. /\ Replaces(s, new)
        /\ \A y : Shared(servers[s], y) => Shared(new, y)
    BY <2>1, Zenon DEF KeepsRows
  <2>3. \A r \in DOMAIN servers : Complete(r)' => Complete(r)
    BY <2>1, <2>2, ReplacedIsAsComplete
  <2> QED
    BY <1>1, <2>1, <2>2, <2>3, KeptKeepHistory, StillClean
<1>3. CASE ListReady(s)
  <2>1. PICK new : /\ KeepsRows(s, new) /\ new.phase = "ready" /\ servers[s].phase = "registered"
                   /\ feed' = IF following THEN Append(feed, Items(servers[s])) ELSE feed
    BY <1>3, ReadySays
  <2>2. /\ Replaces(s, new)
        /\ \A y : Shared(servers[s], y) => Shared(new, y)
    BY <2>1, Zenon DEF KeepsRows
  <2>3. servers[s].phase # "made"
    <3>1. "registered" # "made"
      OBVIOUS
    <3> QED
      BY <2>1, <3>1
  <2>4. \A r \in DOMAIN servers : Complete(r)' => Complete(r) \/ r = s
    <3>1. Readied \subseteq {s}
      BY <2>2 DEF Readied, Replaces
    <3> QED
      BY <3>1 DEF Complete
  <2>5. CASE following
    BY <1>1, <2>1, <2>2, <2>3, <2>4, <2>5, ItemsKeepHistory, StillClean
  <2>6. CASE ~following
    <3>1. \A r : ~Complete(r)'
      <4>1. answered = {} /\ Readied = {}
        BY <2>6 DEF ViewInv, Readied
      <4> QED
        BY <4>1 DEF Complete
    <3> QED
      BY <1>1, <2>1, <2>2, <2>6, <3>1, KeptKeepHistory, StillClean
  <2> QED
    BY <2>5, <2>6
<1>4. ASSUME NEW t \in Chats, AddBuffer(s, t)
      PROVE  HistoryInv' /\ \A x : Clean(x)' => Clean(x)
  <2>1. PICK id, p, new : \E m \in Message :
           /\ AddsRow(s, t, id, p, new)
           /\ m.cmd = "added" /\ m.row.id = id /\ m.row.parent = p
           /\ feed' = IF following /\ servers[s].phase # "made" THEN Append(feed, m) ELSE feed
    BY <1>4, AddingSays
  <2>2. /\ Replaces(s, new) /\ new.phase = servers[s].phase
        /\ \A y : Shared(servers[s], y) => Shared(new, y)
    BY <2>1, Zenon DEF AddsRow
  <2>3. \A r \in DOMAIN servers : Complete(r)' => Complete(r)
    BY <2>2, ReplacedIsAsComplete
  <2> QED
    BY <1>1, <2>1, <2>2, <2>3, AddingKeepsHistory, StillClean
<1>5. ASSUME NEW t \in Chats, RemoveBuffer(s, t)
      PROVE  HistoryInv' /\ \A x : Clean(x)' => Clean(x)
  <2>1. PICK id \in Ids : \E new : \E m \in Message :
           /\ RemovesRow(s, t, id, new)
           /\ m.cmd = "removed" /\ m.id = id
           /\ feed' = IF following /\ servers[s].phase # "made" THEN Append(feed, m) ELSE feed
    BY <1>5, RemovingSays
  <2>2. PICK new : \E m \in Message :
           /\ RemovesRow(s, t, id, new)
           /\ m.cmd = "removed" /\ m.id = id
           /\ feed' = IF following /\ servers[s].phase # "made" THEN Append(feed, m) ELSE feed
    BY <2>1
  <2>3. /\ Replaces(s, new) /\ new.phase = servers[s].phase
        /\ \A y : Shared(servers[s], y) => Shared(new, y)
    BY <2>2, Zenon DEF RemovesRow
  <2>4. \A r \in DOMAIN servers : Complete(r)' => Complete(r)
    BY <2>3, ReplacedIsAsComplete
  <2> QED
    BY <1>1, <2>2, <2>3, <2>4, RemovingKeepsHistory, StillClean
<1>6. ASSUME NEW t \in Chats, RemoveWrongRow(s, t)
      PROVE  HistoryInv' /\ \A x : Clean(x)' => Clean(x)
  <2>1. servers' = servers /\ nextId' = nextId /\ feed' = feed
    BY <1>6 DEF RemoveWrongRow
  <2>2. \A r \in DOMAIN servers : Complete(r)' => Complete(r)
    BY <2>1, AsComplete
  <2> QED
    BY <2>1, <2>2, SameIsHeard, SameKeepHistory
<1> QED
  BY <1>2, <1>3, <1>4, <1>5, <1>6

LEMMA CoreKeepsHistory ==
  ASSUME TreeInv, HistoryInv, CoreStep
  PROVE  /\ HistoryInv'
         /\ \/ UNCHANGED treeVars /\ \A x : Clean(x)' => Clean(x)
            \/ treeFault' = NoFault => DOMAIN nodes' = {}
<1>1. BuffersInv /\ ViewInv /\ feed \in Seq(Message) /\ (treeFault = NoFault => DOMAIN nodes = DOMAIN known)
  BY TreeMembers DEF TreeInv, TreeKinds, FeedSound, TreeSound
<1> DEFINE Keeping == /\ asked' = asked \cap DOMAIN servers'
                      /\ answered' = (answered \cup Readied) \cap DOMAIN servers'
                      /\ orphans' = orphans \cup Listed(DOMAIN servers \ DOMAIN servers')
                      /\ UNCHANGED <<treeVars, request>>
           Kept == HistoryInv' /\ \A x : Clean(x)' => Clean(x)
<1>2. answered \subseteq DOMAIN servers /\ Readied \subseteq DOMAIN servers
  BY <1>1 DEF ViewInv, OnBus, Readied
<1>3. ASSUME Keeping
      PROVE  /\ known' = known /\ answered' \subseteq answered \cup Readied /\ UNCHANGED treeVars
             /\ DOMAIN servers \subseteq DOMAIN servers' => orphans' = orphans
  <2>1. DOMAIN servers \subseteq DOMAIN servers' => DOMAIN servers \ DOMAIN servers' = {}
    OBVIOUS
  <2>2. Listed({}) = {}
    BY DEF Listed
  <2> QED
    BY <1>3, <2>1, <2>2 DEF treeVars
<1>4. ASSUME Keeping, SaveIrc \/ WriteIrc
      PROVE  Kept
  <2>1. servers' = servers /\ nextId' = nextId /\ feed' = feed
    BY <1>4 DEF SaveIrc, WriteIrc, ircVars
  <2>2. known' = known /\ orphans' = orphans /\ answered' \subseteq answered \cup Readied
    BY <1>3, <1>4, <2>1
  <2>3. \A r \in DOMAIN servers : Complete(r)' => Complete(r)
    BY <2>1, <2>2, AsComplete
  <2> QED
    BY <1>1, <2>1, <2>2, <2>3, SameIsHeard, SameKeepHistory
<1>5. ASSUME Keeping, NEW s \in DOMAIN servers,
             \/ \E h \in Hosts : SetHost(s, h)
             \/ StatusChanged(s) \/ RegisterList(s) \/ ListReady(s)
             \/ \E t \in Chats :
                  \/ AddBuffer(s, t) \/ RemoveBuffer(s, t) \/ RemoveWrongRow(s, t)
                  \/ \E u \in Chats : RenameBuffer(s, t, u)
      PROVE  Kept
  <2>1. DOMAIN servers' = DOMAIN servers
    BY <1>1, <1>5, HandlerProceeds
  <2>2. known' = known /\ orphans' = orphans /\ answered' \subseteq answered \cup Readied
    BY <1>3, <1>5, <2>1
  <2> QED
    BY <1>1, <1>5, <2>2, HandlersKeepHistory
<1>6. ASSUME Keeping, NEW s \in Servers, NEW h \in Hosts, AddServer(s, h)
      PROVE  Kept
  <2> DEFINE new == NewServer(h, nextId)
  <2>1. /\ servers' = Inserted(servers, s, new) /\ nextId' = nextId + 1 /\ s \notin DOMAIN servers
        /\ feed' = feed
    BY <1>6 DEF AddServer, Quiet
  <2>2. /\ new.phase # "ready" /\ DOMAIN new.known = {}
        /\ \A x, t, q : HasRow(new, x, t, q) <=> x = nextId /\ t = h /\ q = NoId
    BY NewHasOneRow
  <2>3. ~(nextId < nextId)
    BY <1>1 DEF BuffersInv
  <2> HIDE DEF new
  <2>4. /\ DOMAIN servers' = DOMAIN servers \cup {s} /\ servers'[s] = new
        /\ \A r \in DOMAIN servers : servers'[r] = servers[r]
    BY <2>1 DEF Inserted
  <2>5. known' = known /\ orphans' = orphans /\ answered' \subseteq answered \cup Readied
    BY <1>3, <1>6, <2>4
  <2>6. \A x, t, q : HasRow(new, x, t, q) => ~(x < nextId)
    BY <2>2, <2>3, Zenon
  <2>7. Proceeds
    <3>1. ASSUME NEW x \in HeldIds(new)
          PROVE  ~(x < nextId)
      BY <2>2, <2>6, <3>1, HeldByRows
    <3> QED
      BY <2>1, <2>2, <2>4, <3>1 DEF Proceeds
  <2>8. (\A r \in DOMAIN servers : Complete(r)' => Complete(r)) /\ s \notin answered'
    <3>1. \A r \in DOMAIN servers \cap DOMAIN servers' :
            servers'[r].phase = "ready" => servers[r].phase = "ready"
      BY <2>4
    <3> QED
      BY <1>2, <2>1, <2>5, <3>1, AsComplete
  <2>9. HistoryInv'
    BY <1>1, <2>1, <2>5, <2>6, <2>7, <2>8, NewKeepsHistory
  <2>10. ASSUME NEW x, Clean(x)'
         PROVE  Clean(x)
    <3>1. x \notin orphans' /\ \A r \in DOMAIN servers' : ~Shared(servers'[r], x)
      BY <2>10 DEF Clean, Shared
    <3>2. \A r \in DOMAIN servers : ~Shared(servers[r], x)
      BY <2>4, <3>1, Zenon
    <3> QED
      BY <2>5, <3>1, <3>2 DEF Clean
  <2> QED
    BY <2>9, <2>10
<1>7. ASSUME Keeping, NEW s \in DOMAIN servers, RemoveServer(s)
      PROVE  Kept
  <2>1. /\ servers' = Restrict(servers, DOMAIN servers \ {s}) /\ nextId' = nextId /\ feed' = feed
    BY <1>7 DEF RemoveServer, Quiet
  <2>2. /\ DOMAIN servers' = DOMAIN servers \ {s}
        /\ \A r \in DOMAIN servers \ {s} : servers'[r] = servers[r]
    BY <2>1 DEF Restrict
  <2>3. orphans' = orphans \cup RowIds(servers[s])
    <3>1. DOMAIN servers \ DOMAIN servers' = {s}
      BY <2>2
    <3>2. Listed({s}) = RowIds(servers[s])
      BY DEF Listed
    <3> QED
      BY <1>7, <3>1, <3>2
  <2>4. known' = known /\ answered' \subseteq answered \cup Readied
    BY <1>3, <1>7
  <2>5. \A r \in DOMAIN servers' : Complete(r)' => Complete(r)
    BY <2>2, <2>4, AsComplete
  <2> QED
    BY <1>1, <2>1, <2>3, <2>4, <2>5, GoneKeepsHistory
<1>8. ASSUME StartIrc, UNCHANGED <<treeVars, viewVars>>
      PROVE  HistoryInv' /\ (treeFault' = NoFault => DOMAIN nodes' = {})
  <2>1. /\ process = "down" /\ feed' = feed /\ known' = known /\ nodes' = nodes /\ treeFault' = treeFault
        /\ answered' = answered
    BY <1>8 DEF StartIrc, Start, treeVars, viewVars
  <2>2. feed = <<>> /\ DOMAIN known = {} /\ answered = {}
    BY <1>1, <2>1 DEF ViewInv
  <2> QED
    BY <1>1, <2>1, <2>2, RestartKeepsHistory
<1>9. ASSUME EndIrc, known' = Nothing, nodes' = Nothing, answered' = {}
      PROVE  HistoryInv' /\ DOMAIN nodes' = {}
  <2>1. feed' = <<>> /\ DOMAIN Nothing = {}
    BY <1>9 DEF EndIrc, Nothing
  <2> QED
    BY <1>9, <2>1, RestartKeepsHistory
<1>10. Keeping => UNCHANGED treeVars
  BY <1>3
<1> HIDE DEF Keeping, Kept
<1>11. ASSUME Keeping, ServerStep
       PROVE  Kept
  BY <1>5, <1>6, <1>7, <1>11 DEF ServerStep, ListStep
<1>12. \/ Keeping /\ (ServerStep \/ SaveIrc \/ WriteIrc)
       \/ StartIrc /\ UNCHANGED <<treeVars, viewVars>>
       \/ EndIrc /\ known' = Nothing /\ nodes' = Nothing /\ answered' = {}
  BY Zenon DEF CoreStep, Keeping
<1> QED
  BY <1>4, <1>8, <1>9, <1>10, <1>11, <1>12, Zenon DEF Kept

CleanIds == {x \in Ids : Clean(x)}

CatchInv == TreeInv /\ HistoryInv /\ (treeFault = NoFault => Mirrored(Tree, CleanIds))

LEMMA FewerAreMirrored ==
  ASSUME NEW t, NEW C, Mirrored(t, C), NEW D, D \subseteq C
  PROVE  Mirrored(t, D)
BY DEF Mirrored

LEMMA CatchInvInit == Init => CatchInv
<1> SUFFICES ASSUME Init
             PROVE  CatchInv
  OBVIOUS
<1>1. TreeInv
  BY TreeInvInit
<1>2. /\ servers = None /\ feed = <<>> /\ known = Nothing /\ nodes = Nothing /\ roots = <<>>
      /\ parked = Nothing /\ treeFault = NoFault
  BY Zenon DEF Init, IrcInit, TreeInit, NoFault
<1>3. DOMAIN servers = {} /\ DOMAIN known = {}
  BY <1>2 DEF None, Nothing
<1>4. HistoryInv
  <2>1. ASSUME NEW x \in Ids
        PROVE  HistoryOf(x)
    <3>1. Unheard(known, feed, x)
      BY <1>2, <1>3, NothingHeard
    <3> QED
      BY <1>3, <3>1, UnheardFacts DEF HistoryOf
  <2> QED
    BY <2>1 DEF HistoryInv
<1>5. Mirrored(Tree, CleanIds)
  BY <1>2, EmptyTree, TreeMembers, Zenon
<1> QED
  BY <1>1, <1>4, <1>5 DEF CatchInv

LEMMA ConsumingCatches ==
  ASSUME CatchInv, Consume
  PROVE  CatchInv'
<1>1. TreeInv /\ HistoryInv /\ BuffersInv /\ ViewInv
  BY DEF CatchInv, TreeInv
<1>2. PICK F : KindInv(F) /\ FeedSound(F) /\ TreeSound(Tree, F)
  BY <1>1 DEF TreeInv, TreeKinds
<1> DEFINE m == Head(feed)
           u == Consumed(Tree, m)
           C == CleanIds
<1>3. /\ m \in Message /\ MessageSound(m, F, nextId)
      /\ TreeSound(u, F) /\ SameTree(u, Tree') /\ known' = u.known
      /\ treeFault = NoFault /\ Tree.fault = NoFault
  BY <1>2, ConsumeTakes
<1>4. /\ servers' = servers /\ nextId' = nextId /\ answered' = answered /\ orphans' = orphans
      /\ feed # <<>> /\ feed' = Tail(feed)
  BY Zenon DEF Consume, viewVars
<1>5. feed \in Seq(Message) /\ F \in SUBSET Ids
  BY <1>2 DEF FeedSound, KindInv
<1>6. m = feed[1] /\ Len(feed) \in Nat /\ 1 \in 0..Len(feed) /\ 0 \in 0..Len(feed)
  BY <1>4, <1>5, EmptySeq, LenProperties
<1> HIDE DEF m
<1>7. /\ \A x \in DOMAIN u.known :
           \/ Tells(m, x, u.known[x])
           \/ x \in DOMAIN Tree.known /\ u.known[x] = Tree.known[x] /\ ~Ends(m, x)
      /\ \A x, q : Tells(m, x, q) => x \in DOMAIN u.known
      /\ \A x \in DOMAIN Tree.known : ~Ends(m, x) => x \in DOMAIN u.known
      /\ u.fault = NoFault /\ Mirrored(Tree, C) /\ Agrees(Tree, m, C) => Mirrored(u, C)
  BY <1>2, <1>3, <1>5, ConsumedKeeps
<1> HIDE DEF u
<1>8. Takes(known, m, known')
  BY <1>3, <1>7, TreeMembers, Zenon DEF Takes
<1>9. \A x \in Ids : AsHeard(x)
  BY <1>4, <1>5, <1>8, TakenIsHeard DEF m
<1>10. \A r \in DOMAIN servers : Complete(r)' => Complete(r)
  BY <1>4 DEF Complete
<1>11. HistoryInv' /\ CleanIds' = C
  <2>1. HistoryInv' /\ \A x : Clean(x)' <=> Clean(x)
    BY <1>1, <1>4, <1>9, <1>10, SameKeepHistory
  <2>2. CleanIds' = CleanIds
    BY <2>1 DEF CleanIds
  <2> QED
    BY <2>1, <2>2
<1>12. TreeInv'
  BY <1>1, ClientKeepsTree
<1>13. Agrees(Tree, m, C)
  <2>1. ASSUME NEW x \in C, NEW q, Tells(m, x, q)
        PROVE  /\ x \in DOMAIN Tree.known => Tree.known[x] = q
               /\ \A r : Tells(m, x, r) => r = q
    <3>1. Steady(known, feed, x)
      BY <1>1, <2>1, Zenon DEF CleanIds, HistoryInv, HistoryOf
    <3>2. ~Ends(m, x)
      BY <2>1, ToldOrEnded
    <3>3. \A r : Says(known, feed, 1, x, r) <=> Tells(m, x, r)
      BY <1>6 DEF Says
    <3>4. \A r : Says(known, feed, 0, x, r) <=> x \in DOMAIN known /\ known[x] = r
      BY DEF Says
    <3>5. ~Over(feed, 0, 1, x) /\ ~Over(feed, 1, 1, x)
      <4>1. (0 + 1)..1 = {1} /\ (1 + 1)..1 = {}
        OBVIOUS
      <4> QED
        BY <1>6, <3>2, <4>1, Zenon DEF Over
    <3>6. 0 <= 1 /\ 1 <= 1
      OBVIOUS
    <3>7. \A r : Tells(m, x, r) => r = q
      BY <1>6, <2>1, <3>1, <3>3, <3>5, <3>6, Zenon DEF Steady
    <3>8. x \in DOMAIN known => known[x] = q
      BY <1>6, <2>1, <3>1, <3>3, <3>4, <3>5, <3>6, Zenon DEF Steady
    <3> QED
      BY <3>7, <3>8, TreeMembers
  <2> QED
    BY <2>1, Zenon DEF Agrees
<1>14. ASSUME treeFault' = NoFault
       PROVE  Mirrored(Tree', C)
  <2>1. u.fault = treeFault'
    <3>1. Tree'.fault = treeFault'
      BY DEF Tree
    <3> QED
      BY <1>3, <3>1 DEF SameTree
  <2>2. Mirrored(Tree, C)
    BY <1>3 DEF CatchInv
  <2>3. Mirrored(u, C)
    BY <1>7, <1>13, <1>14, <2>1, <2>2
  <2> QED
    BY <1>3, <2>3, SameTreeIsSound, Zenon
<1> QED
  BY <1>11, <1>12, <1>14, Zenon DEF CatchInv

LEMMA RegisteredIsOnBus ==
  ASSUME NEW s \in OnBus
  PROVE  s \in DOMAIN servers /\ servers[s].phase # "made"
BY DEF OnBus

(* The client begins to listen, or asks. *)
LEMMA BeginningCatches ==
  ASSUME TreeInv, HistoryInv, Follow \/ Request
  PROVE  HistoryInv' /\ \A x : Clean(x)' => Clean(x)
<1>1. BuffersInv
  BY DEF TreeInv
<1>2. /\ servers' = servers /\ nextId' = nextId /\ feed' = feed /\ known' = known /\ orphans' = orphans
  BY DEF Follow, Request, allVars, ircVars, treeVars, viewVars
<1>3. \A r \in DOMAIN servers : Complete(r)' => Complete(r)
  BY DEF Follow, Request, Complete
<1>4. \A x \in Ids : AsHeard(x)
  BY <1>2, SameIsHeard
<1> QED
  BY <1>1, <1>2, <1>3, <1>4, SameKeepHistory

(* A list answers. *)
LEMMA AnsweringCatches ==
  ASSUME TreeInv, HistoryInv, NEW s \in asked, Answer(s)
  PROVE  HistoryInv' /\ \A x : Clean(x)' => Clean(x)
<1>1. BuffersInv /\ ViewInv /\ feed \in Seq(Message)
  BY DEF TreeInv, TreeKinds, FeedSound
<1>2. s \in DOMAIN servers /\ servers[s].phase # "made" /\ following
  <2>1. s \in OnBus /\ request # "no"
    BY <1>1 DEF ViewInv
  <2>2. request = "no" \/ following
    BY <1>1 DEF ViewInv
  <2> QED
    BY <2>1, <2>2, RegisteredIsOnBus
<1> DEFINE m == Items(servers[s])
<1>3. /\ servers' = servers /\ nextId' = nextId /\ known' = known /\ orphans' = orphans
      /\ answered' = answered \cup {s} /\ Say(<<m>>)
  BY DEF Answer, treeVars
<1>4. m \in Message
  BY <1>1, <1>2, ItemsTell DEF BuffersInv, ServersSound
<1> HIDE DEF m
<1>5. feed' = Append(feed, m)
  BY <1>1, <1>2, <1>3, <1>4, Saying
<1>6. Proceeds
  BY <1>3 DEF Proceeds
<1>7. KeepsRows(s, servers[s])
  BY <1>3 DEF KeepsRows, Replaces
<1>8. \A r \in DOMAIN servers : Complete(r)' => Complete(r) \/ r = s
  BY <1>3 DEF Complete
<1>9. HistoryInv'
  BY <1>1, <1>2, <1>3, <1>5, <1>6, <1>7, <1>8, ItemsKeepHistory DEF m
<1>10. \A x : Clean(x)' => Clean(x)
  BY <1>2, <1>3, <1>7, StillClean DEF KeepsRows
<1> QED
  BY <1>9, <1>10

LEMMA StillMirrored ==
  ASSUME treeFault = NoFault => Mirrored(Tree, CleanIds), UNCHANGED treeVars,
         \A x : Clean(x)' => Clean(x)
  PROVE  treeFault' = NoFault => Mirrored(Tree', CleanIds')
<1>1. CleanIds' \subseteq CleanIds
  BY DEF CleanIds
<1>2. treeFault' = treeFault
  BY DEF treeVars
<1>3. ASSUME treeFault = NoFault
      PROVE  Mirrored(Tree', CleanIds')
  <2>1. Mirrored(Tree, CleanIds')
    BY <1>1, <1>3, FewerAreMirrored
  <2> QED
    BY <2>1, TreeStays, SameTreeIsSound, Zenon
<1> QED
  BY <1>2, <1>3

LEMMA CatchInvNext == CatchInv /\ [Next]_vars => CatchInv'
<1> SUFFICES ASSUME CatchInv, [Next]_vars
             PROVE  CatchInv'
  OBVIOUS
<1>1. TreeInv /\ HistoryInv /\ (treeFault = NoFault => Mirrored(Tree, CleanIds))
  BY DEF CatchInv
<1>2. TreeInv'
  BY <1>1, TreeInvNext
<1>3. CASE CoreStep
  <2>1. /\ HistoryInv'
        /\ \/ UNCHANGED treeVars /\ \A x : Clean(x)' => Clean(x)
           \/ treeFault' = NoFault => DOMAIN nodes' = {}
    BY <1>1, <1>3, CoreKeepsHistory
  <2>2. ASSUME DOMAIN nodes' = {}
        PROVE  Mirrored(Tree', CleanIds')
    <3>1. Tree'.nodes = nodes'
      BY DEF Tree
    <3> QED
      BY <2>2, <3>1 DEF Mirrored
  <2>3. treeFault' = NoFault => Mirrored(Tree', CleanIds')
    BY <1>1, <2>1, <2>2, StillMirrored
  <2> QED
    BY <1>2, <2>1, <2>3 DEF CatchInv
<1>4. CASE Consume
  BY <1>4, ConsumingCatches
<1>5. CASE Follow \/ Request \/ \E s \in asked : Answer(s)
  <2>1. HistoryInv' /\ \A x : Clean(x)' => Clean(x)
    BY <1>1, <1>5, BeginningCatches, AnsweringCatches
  <2>2. UNCHANGED treeVars
    BY <1>5 DEF Follow, Request, Answer
  <2>3. treeFault' = NoFault => Mirrored(Tree', CleanIds')
    BY <1>1, <2>1, <2>2, StillMirrored
  <2> QED
    BY <1>2, <2>1, <2>3 DEF CatchInv
<1>6. CASE UNCHANGED vars
  <2>1. UNCHANGED allVars /\ UNCHANGED treeVars /\ UNCHANGED viewVars
    BY <1>6 DEF vars
  <2>2. /\ servers' = servers /\ nextId' = nextId /\ feed' = feed /\ known' = known
        /\ answered' = answered /\ orphans' = orphans
    BY <2>1 DEF allVars, ircVars, treeVars, viewVars
  <2>3. \A r \in DOMAIN servers : Complete(r)' => Complete(r)
    BY <2>2 DEF Complete
  <2>4. \A x \in Ids : AsHeard(x)
    BY <2>2, SameIsHeard
  <2>5. HistoryInv' /\ \A x : Clean(x)' => Clean(x)
    BY <1>1, <2>2, <2>3, <2>4, SameKeepHistory DEF TreeInv
  <2>6. treeFault' = NoFault => Mirrored(Tree', CleanIds')
    BY <1>1, <2>1, <2>5, StillMirrored
  <2> QED
    BY <1>2, <2>5, <2>6 DEF CatchInv
<1> QED
  BY <1>3, <1>4, <1>5, <1>6 DEF Next

LEMMA CatchInvHolds == Spec => []CatchInv
BY CatchInvInit, CatchInvNext, PTL DEF Spec

-----------------------------------------------------------------------------
(* Who has heard everything.                                               *)

(* The mirror of one who has nothing more to hear. *)
LEMMA AllIsHeard ==
  ASSUME CatchInv, Heard, NEW x \in Ids
  PROVE  /\ x \in DOMAIN known => IsListed(x) \/ x \in orphans
         /\ \A s \in answered : \A t, q :
              HasRow(servers[s], x, t, q) /\ Clean(x) => x \in DOMAIN known /\ known[x] = q
<1>1. HistoryOf(x)
  BY Zenon DEF CatchInv, HistoryInv
<1>2. feed = <<>> /\ Len(feed) = 0
  <2>1. feed = <<>>
    BY Zenon DEF Heard
  <2> QED
    BY <2>1
<1>3. ASSUME x \in DOMAIN known, Silent(known, feed, x)
      PROVE  FALSE
  <2>1. Says(known, feed, 0, x, known[x])
    BY <1>3 DEF Says
  <2>2. Over(feed, 0, Len(feed), x)
    BY <1>2, <1>3, <2>1 DEF Silent
  <2> QED
    BY <1>2, <2>2 DEF Over
<1>4. ASSUME NEW s \in answered, NEW t, NEW q, HasRow(servers[s], x, t, q), Clean(x)
      PROVE  x \in DOMAIN known /\ known[x] = q
  <2>1. Complete(s) /\ s \in DOMAIN servers
    BY DEF Complete, CatchInv, TreeInv, ViewInv, OnBus
  <2>2. Only(known, feed, x, q) /\ Told(known, feed, x)
    BY <1>1, <1>4, <2>1, Zenon DEF HistoryOf
  <2>3. PICK r : Says(known, feed, 0, x, r)
    BY <1>2, <2>2 DEF Told
  <2>4. x \in DOMAIN known /\ known[x] = r
    BY <2>3 DEF Says
  <2>5. r = q \/ Over(feed, 0, Len(feed), x)
    BY <1>2, <2>2, <2>3 DEF Only
  <2>6. ~Over(feed, 0, Len(feed), x)
    BY <1>2 DEF Over
  <2> QED
    BY <2>4, <2>5, <2>6
<1> QED
  BY <1>1, <1>3, <1>4, Zenon DEF HistoryOf

(* A row that shares its id with no other of its list, is clean. *)
LEMMA UnsharedIsClean ==
  ASSUME BuffersInv, ViewInv, NEW s \in DOMAIN servers, NEW x, NEW t, NEW q,
         HasRow(servers[s], x, t, q), ~Shared(servers[s], x)
  PROVE  Clean(x)
<1>1. x \in HeldIds(servers[s])
  BY HeldByRows
<1>2. x \notin orphans
  BY <1>1 DEF ViewInv
<1>3. ASSUME NEW r \in DOMAIN servers, Shared(servers[r], x)
      PROVE  FALSE
  <2>1. ServerSound(servers[r])
    BY DEF BuffersInv, ServersSound
  <2>2. servers[r].dangling \subseteq RowIds(servers[r]) /\ servers[r].rows \in Seq(RowType)
    BY <2>1, SoundParts
  <2>3. x \in RowIds(servers[r])
    BY <1>3, <2>2, SharedIsTwice DEF RowIds
  <2>4. r = s
    BY <1>1, <2>3, HeldOnce DEF HeldIds
  <2> QED
    BY <1>3, <2>4
<1> QED
  BY <1>2, <1>3 DEF Clean

LEMMA CaughtUp == CatchInv => TreeCatchesUp
<1> SUFFICES ASSUME CatchInv, Heard
             PROVE  /\ DOMAIN nodes \subseteq Listed(DOMAIN servers) \cup orphans
                    /\ request = "sent" /\ asked = {} =>
                         \A s \in DOMAIN servers : servers[s].phase = "ready" => s \in answered
                    /\ \A s \in answered : \A i \in DOMAIN servers[s].rows :
                         LET r == servers[s].rows[i]
                         IN  ~Shared(servers[s], r.id) =>
                               /\ r.id \in DOMAIN nodes
                               /\ nodes[r.id].parent = IF r.parent \in DOMAIN nodes THEN r.parent
                                                       ELSE NoParent
  BY Zenon DEF TreeCatchesUp
<1>1. BuffersInv /\ ViewInv /\ (treeFault = NoFault => Mirrored(Tree, CleanIds))
  BY DEF CatchInv, TreeInv
<1>2. treeFault = NoFault
  BY Zenon DEF Heard, NoFault
<1>3. DOMAIN nodes = DOMAIN known /\ DOMAIN known \subseteq Ids
  <2>1. PICK F : TreeSound(Tree, F)
    BY DEF CatchInv, TreeInv, TreeKinds
  <2> QED
    BY <1>2, <2>1, TreeMembers DEF TreeSound, TreeTyped
<1>4. ASSUME NEW x \in DOMAIN nodes
      PROVE  x \in Listed(DOMAIN servers) \cup orphans
  <2>1. IsListed(x) \/ x \in orphans
    BY <1>3, AllIsHeard
  <2>2. ASSUME NEW s \in DOMAIN servers, NEW t, NEW q, HasRow(servers[s], x, t, q)
        PROVE  x \in Listed(DOMAIN servers)
    <3>1. x \in RowIds(servers[s])
      BY <2>2, RowIdsHaveRows
    <3> QED
      BY <3>1 DEF Listed
  <2> QED
    BY <2>1, <2>2, Zenon DEF IsListed
<1>5. ASSUME NEW s \in answered, NEW i \in DOMAIN servers[s].rows,
             ~Shared(servers[s], servers[s].rows[i].id)
      PROVE  LET r == servers[s].rows[i]
             IN  /\ r.id \in DOMAIN nodes
                 /\ nodes[r.id].parent = IF r.parent \in DOMAIN nodes THEN r.parent ELSE NoParent
  <2> DEFINE r == servers[s].rows[i]
  <2>1. HasRow(servers[s], r.id, r.title, r.parent) /\ s \in DOMAIN servers
    BY <1>1 DEF HasRow, ViewInv, OnBus
  <2>2. Clean(r.id)
    BY <1>1, <1>5, <2>1, UnsharedIsClean
  <2>3. r.id \in Ids
    BY <1>1, <2>1, HeldByRows, HeldAreBelow
  <2>4. r.id \in DOMAIN known /\ known[r.id] = r.parent
    <3> DEFINE y == r.id
    <3>1. y \in Ids /\ Clean(y) /\ HasRow(servers[s], y, r.title, r.parent)
      BY <2>1, <2>2, <2>3
    <3> HIDE DEF y
    <3>2. \A t, q : HasRow(servers[s], y, t, q) => y \in DOMAIN known /\ known[y] = q
      BY <1>5, <3>1, AllIsHeard
    <3>3. y \in DOMAIN known /\ known[y] = r.parent
      BY <3>1, <3>2
    <3> QED
      BY <3>3 DEF y
  <2>5. r.id \in CleanIds
    BY <2>2, <2>3 DEF CleanIds
  <2> HIDE DEF r
  <2>6. nodes[r.id].parent = IF known[r.id] \in DOMAIN nodes THEN known[r.id] ELSE NoParent
    BY <1>1, <1>2, <1>3, <2>4, <2>5, TreeMembers DEF Mirrored
  <2> QED
    BY <1>3, <2>4, <2>6 DEF r
<1>6. request = "sent" /\ asked = {} =>
        \A s \in DOMAIN servers : servers[s].phase = "ready" => s \in answered
  BY <1>1 DEF ViewInv
<1> QED
  BY <1>4, <1>5, <1>6

(* Once a client has heard everything, its tree has every channel of every *)
(* list that has told it what it has, below the host that the channel's    *)
(* row names, and no channel that no list has, but for those of servers    *)
(* that have gone; and every list that is ready has told it, unless it had *)
(* asked before its connection was on the bus: in whatever order the       *)
(* client listened and asked, lists became ready and answered, and         *)
(* channels came and went while their announcements were on the way        *)
(* (TcpServerImpl::incomingConnection, SyncedList::consume,                *)
(* ChannelsModel::added, IrcServer).                                       *)
THEOREM TheTreeCatchesUp == Spec => []TreeCatchesUp
BY CaughtUp, CatchInvHolds, PTL
===============================================================================
