----------------------------- MODULE MCServersPage -----------------------------
(***************************************************************************)
(* A small instance of ServersPage.                                        *)
(***************************************************************************)
EXTENDS ServersPage

CONSTANTS
  i1, i2, i3, \* ids
  n1, n2      \* names

ThreeIds == {i1, i2, i3}
TwoNames == {n1, n2}
Symmetric == Permutations(Ids) \cup Permutations(Names)
===============================================================================
