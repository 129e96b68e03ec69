----------------------------- MODULE MCTcpFraming -----------------------------
(***************************************************************************)
(* A small instance of TcpFraming: two bits for the size, packets of every *)
(* size that these can tell.  The longest one begins like the header of an *)
(* empty one.                                                              *)
(***************************************************************************)
EXTENDS TcpFraming

SomePackets == {<<>>, <<1>>, <<0, 1>>, <<0, 0, 1>>}
===============================================================================
