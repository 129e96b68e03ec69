-------------------------------- MODULE Queues --------------------------------
(***************************************************************************)
(* What is left of a list or a queue when some of its elements go: the     *)
(* consumers of a connection, the events of objects that are deleted.      *)
(***************************************************************************)
EXTENDS Naturals, Sequences

RemoveAll(seq, os) ==
  LET kept[i \in 0..Len(seq)] ==
        IF i = 0 THEN <<>>
        ELSE IF seq[i] \in os THEN kept[i - 1] ELSE Append(kept[i - 1], seq[i])
  IN  kept[Len(seq)]
===============================================================================
