------------------------------- MODULE MCBacklog ------------------------------
(***************************************************************************)
(* A small instance of Backlog.                                            *)
(***************************************************************************)
EXTENDS Backlog

CONSTANTS s1, \* a server
          h1, \* its host
          a,  \* a chat
          smile \* a text: ":)"

OneServer == {s1}
OneHost == {h1}
OneChat == {a}
OneColonText == {smile}
===============================================================================
