----------------------------- MODULE MCMainWindow -----------------------------
(***************************************************************************)
(* A small instance of MainWindow.                                         *)
(***************************************************************************)
EXTENDS MainWindow

CONSTANTS s1, s2,  \* connections, one after the other
          x        \* a chat channel

TwoServers == {s1, s2}
OneChat == {x}
===============================================================================
