----------------------------- MODULE MCMessageBus -----------------------------
(***************************************************************************)
(* Small instances of MessageBus.                                          *)
(***************************************************************************)
EXTENDS MessageBus, TLC

CONSTANTS tcp, irc,   \* plugins
          c1, c2,     \* TCP clients
          l1          \* a list of the IRC plugin

OnlyTcp == {tcp}
TcpAndIrc == {tcp, irc}
NoParts == {}
OneList == {l1}
OneClient == {c1}
TwoClients == {c1, c2}
OwnerOfClients == [c \in TwoClients |-> tcp]
OwnerOfBoth == (c1 :> tcp) @@ (l1 :> irc)
ClientsSend == [c \in Conns |-> IF c \in Clients THEN 1 ELSE 0]
FirstSendsTwice == [c \in Conns |-> IF c = c1 THEN 2 ELSE 0]
IrcSends == [c \in Conns |-> IF c = irc THEN 1 ELSE 0]
OneListener == {c2}
NoListeners == {}
===============================================================================
