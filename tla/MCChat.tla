--------------------------------- MODULE MCChat --------------------------------
(***************************************************************************)
(* A small instance of Chat.                                               *)
(***************************************************************************)
EXTENDS Chat

CONSTANTS a, b \* chats

TwoChats == {a, b}
SomeTypes == {"Action", "Motd", "Numeric"}
TwoWidths == {11, 20}
TwoHeights == {1, 3}
Symmetric == Permutations(Chats)
===============================================================================
