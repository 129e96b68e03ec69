------------------------------ MODULE MCListSync ------------------------------
(***************************************************************************)
(* Small instances of ListSync.                                            *)
(***************************************************************************)
EXTENDS ListSync

CONSTANTS u1, u2,  \* users
          i1, i2   \* indices

OneUser == {u1}
TwoUsers == {u1, u2}
OneId == {i1}
TwoIds == {i1, i2}
Bits == {0, 1}
Status == {"status"}
Name == {"name"}
StatusAndName == {"status", "name"}
AddAndChange == {"add", "change"}
ChangeOnly == {"change"}
AllCommands == {"add", "remove", "set", "connect"}
New == [p \in Props |-> 0]

Symmetric == Permutations(Users) \cup Permutations(Ids)
===============================================================================
