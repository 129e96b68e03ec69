---------------------------- MODULE MCChannelsView ----------------------------
(***************************************************************************)
(* A small instance of ChannelsView.                                       *)
(***************************************************************************)
EXTENDS ChannelsView

CONSTANTS s1, s2, h1, h2, a, b

TwoServers == {s1, s2}
OneServer == {s1}
TwoHosts == {h1, h2}
OneHost == {h1}
TwoChats == {a, b}
OneChat == {a}
Symmetry == Permutations(Servers) \cup Permutations(Hosts) \cup Permutations(Chats)
===============================================================================
