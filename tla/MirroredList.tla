----------------------------- MODULE MirroredList -----------------------------
(***************************************************************************)
(* What a synchronised list promises: every user goes through the states   *)
(* of the list one after the other.  He may lag behind, but sees no state  *)
(* that the list has not been in and skips or repeats none of them.        *)
(***************************************************************************)
EXTENDS Sequences

CONSTANTS Users, Nothing

VARIABLES
  list,     \* the state of the list
  known,    \* the users who have got it
  view,     \* what a user sees of it
  pending   \* what he is going to see, up to the present state

vars == <<list, known, view, pending>>

Latest(v, p) == IF p = <<>> THEN v ELSE p[Len(p)]

Init ==
  /\ known = {}
  /\ view = [u \in Users |-> Nothing]
  /\ pending = [u \in Users |-> <<>>]

(* The list changes, or says again what it is. *)
Announce ==
  /\ pending' = [u \in Users |-> IF u \in known THEN Append(pending[u], list') ELSE pending[u]]
  /\ UNCHANGED <<known, view>>

(* A user gets to know the list, as it was a while ago. *)
Know(u) ==
  /\ u \notin known
  /\ known' = known \cup {u}
  /\ Latest(view'[u], pending'[u]) = list
  /\ \A v \in Users \ {u} : view'[v] = view[v] /\ pending'[v] = pending[v]
  /\ UNCHANGED list

See(u) ==
  /\ u \in known
  /\ pending[u] # <<>>
  /\ view' = [view EXCEPT ![u] = Head(pending[u])]
  /\ pending' = [pending EXCEPT ![u] = Tail(@)]
  /\ UNCHANGED <<list, known>>

Next == Announce \/ \E u \in Users : Know(u) \/ See(u)

Spec == Init /\ [][Next]_vars
===============================================================================
