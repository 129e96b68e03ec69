----------------------------- MODULE Broadcasting -----------------------------
(***************************************************************************)
(* What the message bus of the core promises: a broadcast is atomic.  It   *)
(* is heard, in the order of emission, exactly once, by every connection   *)
(* that is linked to the sender when it is emitted, for as long as the     *)
(* hearer exists.                                                          *)
(***************************************************************************)
EXTENDS Naturals

CONSTANT Conns

VARIABLES
  link,    \* the pairs <<a, b>> such that b hears a
  sent,    \* sent[a]: broadcasts of a so far
  heard    \* heard[b][a]: the last of them that b has heard

vars == <<link, sent, heard>>

Init ==
  /\ link = {}
  /\ sent = [a \in Conns |-> 0]
  /\ heard = [b \in Conns |-> [a \in Conns |-> 0]]

(* A connection joins some of the others; past broadcasts are not heard. *)
Join(c) ==
  \E others \in SUBSET (Conns \ {c}) :
    LET new == ({c} \X others) \cup (others \X {c})
    IN  /\ link' = link \cup new
        /\ heard' = [b \in Conns |-> [a \in Conns |->
                      IF <<a, b>> \in new THEN sent[a] ELSE heard[b][a]]]
        /\ UNCHANGED sent

Broadcast(a) ==
  /\ sent' = [sent EXCEPT ![a] = @ + 1]
  /\ UNCHANGED <<link, heard>>

Hear(a, b) ==
  /\ <<a, b>> \in link
  /\ heard[b][a] < sent[a]
  /\ heard' = [heard EXCEPT ![b][a] = @ + 1]
  /\ UNCHANGED <<link, sent>>

Leave(b) ==
  /\ link' = {p \in link : p[2] # b}
  /\ UNCHANGED <<sent, heard>>

Next ==
  \/ \E c \in Conns : Join(c) \/ Broadcast(c) \/ Leave(c)
  \/ \E a, b \in Conns : Hear(a, b)

Spec == Init /\ [][Next]_vars
===============================================================================
