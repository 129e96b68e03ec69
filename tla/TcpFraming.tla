------------------------------ MODULE TcpFraming ------------------------------
(***************************************************************************)
(* One direction of a TCP connection between a client and the core, which  *)
(* use the same functions: writePacket() puts the size of a packet before  *)
(* it, TCP cuts the bytes as it likes, and the slot for readyRead takes    *)
(* packets from the socket's buffer.  Inside readPacket() the reader waits *)
(* for what is missing, and does nothing else.                             *)
(***************************************************************************)
EXTENDS Naturals, Sequences, SequencesExt

CONSTANTS
  Base,        \* values of a byte, 256 in the code
  HeaderSize,  \* sizeof(quint32)
  Packets,     \* contents of packets, as sequences of bytes
  MaxPackets   \* bound on the packets that are written

Byte == 0..(Base - 1)

(* Base to the power of i. *)
Power[i \in 0..HeaderSize] == IF i = 0 THEN 1 ELSE Power[i - 1] * Base

(* No packet is too long for its header. *)
ASSUME FramingAssumption ==
  /\ Base \in Nat \ {0, 1}
  /\ HeaderSize \in Nat \ {0}
  /\ MaxPackets \in Nat
  /\ \A p \in Packets : p \in Seq(Byte) /\ Len(p) < Power[HeaderSize]

VARIABLES
  peer,     \* the writer: "there" or "gone"
  wire,     \* bytes on their way
  buffer,   \* bytes that the reader's socket has
  reader,   \* "idle" in the event loop, waiting for a "header" or a
            \* "payload", "closed", or "looping" in readPacket() for ever
  size,     \* of the packet that is read
  written,  \* all packets written
  read      \* all packets read

streamVars == <<peer, wire, buffer, reader, size, written, read>>

StreamInit ==
  /\ peer = "there"
  /\ wire = <<>> /\ buffer = <<>>
  /\ reader = "idle"
  /\ size = 0
  /\ written = <<>> /\ read = <<>>

(* Both ends set QDataStream to little endian. *)
Header(n) == [i \in 1..HeaderSize |-> (n \div Power[i - 1]) % Base]

Number(h) ==
  LET upTo[i \in 0..HeaderSize] == IF i = 0 THEN 0 ELSE h[i] * Power[i - 1] + upTo[i - 1]
  IN  upTo[HeaderSize]

First(s, n) == SubSeq(s, 1, n)
After(s, n) == SubSeq(s, n + 1, Len(s))

WritePacket(p) ==
  /\ peer = "there"
  /\ Len(written) < MaxPackets
  /\ wire' = wire \o Header(Len(p)) \o p
  /\ written' = Append(written, p)
  /\ UNCHANGED <<peer, buffer, reader, size, read>>

(* The writer closes, or its process or the network fails: what is on its  *)
(* way arrives, or some of it.                                             *)
Leave ==
  /\ peer = "there"
  /\ peer' = "gone"
  /\ \E n \in 0..Len(wire) : wire' = First(wire, n)
  /\ UNCHANGED <<buffer, reader, size, written, read>>

(* The reader looks at the network: in its event loop, and in              *)
(* waitForReadyRead() as long as something is missing.                     *)
Waits ==
  \/ reader = "idle"
  \/ reader = "header" /\ Len(buffer) < HeaderSize
  \/ reader = "payload" /\ Len(buffer) < size

(* The slot is called from the event loop, and not from within itself. *)
BytesArrive(n) ==
  /\ Waits
  /\ wire' = After(wire, n)
  /\ buffer' = buffer \o First(wire, n)
  /\ reader' = IF reader = "idle" THEN "header" ELSE reader
  /\ UNCHANGED <<peer, size, written, read>>

ReadHeader ==
  /\ reader = "header"
  /\ Len(buffer) >= HeaderSize
  /\ size' = Number(First(buffer, HeaderSize))
  /\ buffer' = After(buffer, HeaderSize)
  /\ reader' = "payload"
  /\ UNCHANGED <<peer, wire, written, read>>

(* Mutant: one packet is read when the slot is called. *)
ReadPayloadOnce ==
  /\ reader = "payload"
  /\ Len(buffer) >= size
  /\ read' = Append(read, First(buffer, size))
  /\ buffer' = After(buffer, size)
  /\ reader' = "idle"
  /\ size' = 0
  /\ UNCHANGED <<peer, wire, written>>

(* Mutant: all that the socket has is taken for the packet. *)
ReadPayloadAll ==
  /\ reader = "payload"
  /\ Len(buffer) >= size
  /\ read' = Append(read, buffer)
  /\ buffer' = <<>>
  /\ reader' = "idle"
  /\ size' = 0
  /\ UNCHANGED <<peer, wire, written>>

(* Mutant: the next packet is read whether there is more or not. *)
ReadPayloadOn ==
  /\ reader = "payload"
  /\ Len(buffer) >= size
  /\ read' = Append(read, First(buffer, size))
  /\ buffer' = After(buffer, size)
  /\ reader' = "header"
  /\ size' = 0
  /\ UNCHANGED <<peer, wire, written>>

(* The packet is handled, and the next one read if there is more. *)
ReadPayload ==
  /\ reader = "payload"
  /\ Len(buffer) >= size
  /\ read' = Append(read, First(buffer, size))
  /\ buffer' = After(buffer, size)
  /\ reader' = IF buffer' = <<>> THEN "idle" ELSE "header"
  /\ size' = 0
  /\ UNCHANGED <<peer, wire, written>>

(* disconnected.  readPacket() does not ask whether more can come. *)
Disconnected ==
  /\ peer = "gone"
  /\ wire = <<>>
  /\ Waits
  /\ reader' = IF reader = "idle" THEN "closed" ELSE "looping"
  /\ UNCHANGED <<peer, wire, buffer, size, written, read>>

Arrive == \E n \in 1..Len(wire) : BytesArrive(n)
Read == ReadHeader \/ ReadPayload

StreamNext == (\E p \in Packets : WritePacket(p)) \/ Leave \/ Arrive \/ Read \/ Disconnected

(* The network delivers while the connection lasts, and the reader's       *)
(* thread runs: its slots do not wait for anything else.                   *)
Fairness == WF_streamVars(Arrive) /\ WF_streamVars(Read)

StreamSpec == StreamInit /\ [][StreamNext]_streamVars /\ Fairness

-----------------------------------------------------------------------------
(* Each packet is read, without waiting for a later one, unless the writer *)
(* goes: readyRead() leaves nothing in the buffer of a reader that is      *)
(* called again only for new bytes.                                        *)
EverythingIsRead ==
  \A n \in 1..MaxPackets : Len(written) >= n ~> Len(read) >= n \/ peer = "gone"

(* The loop in readPacket() that a gone peer leaves for ever is entered    *)
(* only when a packet has been cut: a peer that goes after a whole packet, *)
(* in however many pieces it came, is noticed (TcpUtils::readPacket,       *)
(* readyRead, disconnected).                                               *)
HangsOnlyWhenCut == reader = "looping" => peer = "gone" /\ Len(read) < Len(written)

(* The packet whose header is at i, as far as s has it. *)
SizeAt(s, i) == Number(SubSeq(s, i, i + HeaderSize - 1))
EndAt(s, i) == i + HeaderSize + SizeAt(s, i) - 1
PacketAt(s, i) == SubSeq(s, i + HeaderSize, EndAt(s, i))
HasPacket(s, i) == i + HeaderSize - 1 <= Len(s) /\ EndAt(s, i) <= Len(s)

(* The packets that the reader will find in what it has and what comes. *)
Packed(s) ==
  LET from[i \in 1..(Len(s) + 1)] ==
        IF HasPacket(s, i) THEN <<PacketAt(s, i)>> \o from[EndAt(s, i) + 1] ELSE <<>>
  IN  from[1]

(* What the reader has still to read, with the size that it has read of    *)
(* the packet it waits for, or has waited for in vain.                     *)
Unread == (IF reader = "payload" \/ size # 0 THEN Header(size) ELSE <<>>) \o buffer \o wire

(* The packet stream that ServerConnection relies on: packets arrive once  *)
(* and in order, and of those on the way when the peer goes the first ones *)
(* (PacketLink).                                                           *)
Stream == INSTANCE PacketLink WITH
  Links <- {"link"},
  open <- [l \in {"link"} |-> peer = "there"],
  pending <- [l \in {"link"} |-> Packed(Unread)]
StreamIsPacketLink == Stream!Spec
===============================================================================
