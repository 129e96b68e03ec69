------------------------------ MODULE PacketLink ------------------------------
(***************************************************************************)
(* What a client's connection promises of what it sends: packets reach the *)
(* core once each and in order, whether they were sent before or after the *)
(* connection was established, until it is closed or lost.                 *)
(***************************************************************************)
EXTENDS Sequences, SequencesExt

CONSTANT Links

VARIABLES
  open,    \* what is sent on the link counts
  pending  \* packets that the core has not read

vars == <<open, pending>>

Init ==
  /\ open = [l \in Links |-> TRUE]
  /\ pending = [l \in Links |-> <<>>]

Same(f, l) == \A k \in Links \ {l} : f'[k] = f[k]

(* One handler may send several packets. *)
Emit(l) ==
  /\ open[l]
  /\ IsPrefix(pending[l], pending'[l])
  /\ Same(pending, l)
  /\ UNCHANGED open

Arrive(l) ==
  /\ pending[l] # <<>>
  /\ pending' = [pending EXCEPT ![l] = Tail(@)]
  /\ UNCHANGED open

(* A closed link may still carry what was sent, a lost one some of it or   *)
(* nothing.                                                                *)
Close(l) ==
  /\ ~open'[l]
  /\ IsPrefix(pending'[l], pending[l])
  /\ Same(pending, l) /\ Same(open, l)

Next == \E l \in Links : Emit(l) \/ Arrive(l) \/ Close(l)

Spec == Init /\ [][Next]_vars
===============================================================================
