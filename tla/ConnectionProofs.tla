--------------------------- MODULE ConnectionProofs ---------------------------
(***************************************************************************)
(* The two ends of a connection, for any constants: the client's window    *)
(* with the connections and lists it opens, for any connections, chats and *)
(* bounds; and below them the byte stream the packets cross, for headers   *)
(* and packets of any size.                                                *)
(***************************************************************************)
EXTENDS MainWindow, TcpFraming, SequenceLemmas

-------------------------------------------------------------------------------
(* Packets. *)

LEMMA ChannelsAreApart ==
  /\ "*" \notin CoreChannels /\ NoId \notin ChatIds
  /\ \A ch \in Channels : Hello(ch) \in ToCore /\ Goodbye(ch) \in ToCore
  /\ \A a, b \in Channels :
       Hello(a) # Goodbye(b) /\ (Hello(a) = Hello(b) => a = b) /\ (Goodbye(a) = Goodbye(b) => a = b)
  /\ \A ch \in CoreChannels, cmd \in {"list", "send", "error"} :
       /\ Packet(cmd, ch) \in ToCore
       /\ \A a \in Channels : Packet(cmd, ch) # Hello(a) /\ Packet(cmd, ch) # Goodbye(a)
<1>1. "*" \notin CoreChannels /\ NoId \notin ChatIds
  BY ChatIdsAssumption DEF CoreChannels
<1>2. ASSUME NEW ch \in Channels
      PROVE  Hello(ch) \in ToCore /\ Goodbye(ch) \in ToCore
  <2>1. CASE ch = "*"
    BY <2>1 DEF Hello, Goodbye, Packet, ToCore
  <2>2. CASE ch # "*"
    <3>1. ch \in CoreChannels
      BY <2>2 DEF Channels
    <3> QED
      BY <2>2, <3>1 DEF Hello, Goodbye, Packet, ToCore
  <2> QED
    BY <2>1, <2>2
<1>3. ASSUME NEW a \in Channels, NEW b \in Channels
      PROVE  /\ Hello(a) # Goodbye(b) /\ (Hello(a) = Hello(b) => a = b)
             /\ (Goodbye(a) = Goodbye(b) => a = b)
  BY DEF Hello, Goodbye, Packet
<1>4. ASSUME NEW ch \in CoreChannels, NEW cmd \in {"list", "send", "error"}
      PROVE  /\ Packet(cmd, ch) \in ToCore
             /\ \A a \in Channels : Packet(cmd, ch) # Hello(a) /\ Packet(cmd, ch) # Goodbye(a)
  BY DEF Hello, Goodbye, Packet, ToCore
<1> QED
  BY <1>1, <1>2, <1>3, <1>4

(* What is said after something else. *)
LEMMA SaidAfter ==
  ASSUME NEW M, NEW p \in Seq(M), NEW q \in Seq(M), NEW on, NEW off
  PROVE  /\ Says(p \o q, Len(p \o q), on, off) <=>
              \/ Says(q, Len(q), on, off)
              \/ Says(p, Len(p), on, off) /\ ~TakesBack(q, Len(q), off)
         /\ TakesBack(p \o q, Len(p \o q), off) <=>
              TakesBack(p, Len(p), off) \/ TakesBack(q, Len(q), off)
<1> DEFINE r == p \o q
<1>1. /\ Len(p) \in Nat /\ Len(q) \in Nat /\ Len(r) = Len(p) + Len(q)
      /\ \A i \in 1..Len(r) : r[i] = IF i <= Len(p) THEN p[i] ELSE q[i - Len(p)]
  BY ConcatProperties, LenProperties
<1> HIDE DEF r
<1>2. /\ \A i \in 1..Len(p) : i \in 1..Len(r) /\ r[i] = p[i]
      /\ \A i \in 1..Len(q) : Len(p) + i \in 1..Len(r) /\ r[Len(p) + i] = q[i]
  <2>1. ASSUME NEW i \in 1..Len(q)
        PROVE  Len(p) + i \in 1..Len(r) /\ r[Len(p) + i] = q[i]
    <3>1. /\ Len(p) + i \in 1..Len(r) /\ ~(Len(p) + i <= Len(p))
          /\ Len(p) + i - Len(p) = i
      BY <1>1
    <3> QED
      BY <1>1, <3>1
  <2> QED
    BY <1>1, <2>1
<1>3. TakesBack(r, Len(r), off) <=> TakesBack(p, Len(p), off) \/ TakesBack(q, Len(q), off)
  <2>1. ASSUME NEW j \in 1..Len(r), r[j] = off
        PROVE  TakesBack(p, Len(p), off) \/ TakesBack(q, Len(q), off)
    <3>1. CASE j <= Len(p)
      BY <1>1, <2>1, <3>1 DEF TakesBack
    <3>2. CASE j > Len(p)
      <4>1. j - Len(p) \in 1..Len(q) /\ q[j - Len(p)] = off
        BY <1>1, <2>1, <3>2
      <4> QED
        BY <4>1 DEF TakesBack
    <3> QED
      BY <1>1, <3>1, <3>2
  <2> QED
    BY <1>2, <2>1 DEF TakesBack
<1>4. ASSUME Says(r, Len(r), on, off)
      PROVE  \/ Says(q, Len(q), on, off)
             \/ Says(p, Len(p), on, off) /\ ~TakesBack(q, Len(q), off)
  <2>1. PICK i \in 1..Len(r) : r[i] = on /\ \A j \in (i + 1)..Len(r) : r[j] # off
    BY <1>4 DEF Says
  <2>2. CASE i <= Len(p)
    <3>1. i \in 1..Len(p) /\ p[i] = on
      BY <1>1, <2>1, <2>2
    <3>2. \A j \in (i + 1)..Len(p) : p[j] # off
      BY <1>1, <1>2, <2>1, <2>2
    <3>3. \A j \in 1..Len(q) : q[j] # off
      <4> TAKE j \in 1..Len(q)
      <4>1. Len(p) + j \in (i + 1)..Len(r)
        BY <1>1, <2>2
      <4> QED
        BY <1>2, <2>1, <4>1
    <3> QED
      BY <3>1, <3>2, <3>3 DEF Says, TakesBack
  <2>3. CASE i > Len(p)
    <3>1. i - Len(p) \in 1..Len(q) /\ q[i - Len(p)] = on
      BY <1>1, <2>1, <2>3
    <3>2. \A j \in (i - Len(p) + 1)..Len(q) : q[j] # off
      <4> TAKE j \in (i - Len(p) + 1)..Len(q)
      <4>1. Len(p) + j \in (i + 1)..Len(r) /\ j \in 1..Len(q)
        BY <1>1, <2>3
      <4> QED
        BY <1>2, <2>1, <4>1
    <3> QED
      BY <3>1, <3>2 DEF Says
  <2> QED
    BY <1>1, <2>2, <2>3
<1>5. ASSUME Says(q, Len(q), on, off)
      PROVE  Says(r, Len(r), on, off)
  <2>1. PICK i \in 1..Len(q) : q[i] = on /\ \A j \in (i + 1)..Len(q) : q[j] # off
    BY <1>5 DEF Says
  <2>2. Len(p) + i \in 1..Len(r) /\ r[Len(p) + i] = on
    BY <1>2, <2>1
  <2>3. \A j \in (Len(p) + i + 1)..Len(r) : r[j] # off
    <3> TAKE j \in (Len(p) + i + 1)..Len(r)
    <3>1. j - Len(p) \in (i + 1)..Len(q) /\ r[j] = q[j - Len(p)]
      BY <1>1, <2>1
    <3> QED
      BY <2>1, <3>1
  <2> QED
    BY <2>2, <2>3 DEF Says
<1>6. ASSUME Says(p, Len(p), on, off), ~TakesBack(q, Len(q), off)
      PROVE  Says(r, Len(r), on, off)
  <2>1. PICK i \in 1..Len(p) : p[i] = on /\ \A j \in (i + 1)..Len(p) : p[j] # off
    BY <1>6 DEF Says
  <2>2. \A j \in (i + 1)..Len(r) : r[j] # off
    <3> TAKE j \in (i + 1)..Len(r)
    <3>1. CASE j <= Len(p)
      BY <1>1, <2>1, <3>1
    <3>2. CASE j > Len(p)
      <4>1. j - Len(p) \in 1..Len(q) /\ r[j] = q[j - Len(p)]
        BY <1>1, <3>2
      <4> QED
        BY <1>6, <4>1 DEF TakesBack
    <3> QED
      BY <1>1, <3>1, <3>2
  <2> QED
    BY <1>2, <2>1, <2>2 DEF Says
<1> QED
  BY <1>3, <1>4, <1>5, <1>6 DEF r

LEMMA SaidAlone ==
  ASSUME NEW m, NEW on, NEW off
  PROVE  /\ Says(<<m>>, Len(<<m>>), on, off) <=> m = on
         /\ TakesBack(<<m>>, Len(<<m>>), off) <=> m = off
         /\ ~Says(<<>>, Len(<<>>), on, off) /\ ~TakesBack(<<>>, Len(<<>>), off)
BY DEF Says, TakesBack

(* What is left when the first packet has been read. *)
LEMMA SaidFirst ==
  ASSUME NEW M, NEW p \in Seq(M), p # <<>>, NEW on, NEW off
  PROVE  /\ Says(p, Len(p), on, off) <=>
              \/ Says(Tail(p), Len(Tail(p)), on, off)
              \/ Head(p) = on /\ ~TakesBack(Tail(p), Len(Tail(p)), off)
         /\ TakesBack(p, Len(p), off) <=>
              Head(p) = off \/ TakesBack(Tail(p), Len(Tail(p)), off)
<1>1. Tail(p) \in Seq(M) /\ Head(p) \in M
  BY HeadTailProperties
<1>2. <<Head(p)>> \in Seq(M) /\ p = <<Head(p)>> \o Tail(p)
  <2>1. <<Head(p)>> \in Seq(M)
    BY <1>1
  <2> QED
    BY <1>1, <2>1
<1>3. /\ Says(<<Head(p)>> \o Tail(p), Len(<<Head(p)>> \o Tail(p)), on, off) <=>
           \/ Says(Tail(p), Len(Tail(p)), on, off)
           \/ Says(<<Head(p)>>, Len(<<Head(p)>>), on, off) /\ ~TakesBack(Tail(p), Len(Tail(p)), off)
      /\ TakesBack(<<Head(p)>> \o Tail(p), Len(<<Head(p)>> \o Tail(p)), off) <=>
           TakesBack(<<Head(p)>>, Len(<<Head(p)>>), off) \/ TakesBack(Tail(p), Len(Tail(p)), off)
  BY <1>1, <1>2, SaidAfter
<1>4. /\ Says(<<Head(p)>>, Len(<<Head(p)>>), on, off) <=> Head(p) = on
      /\ TakesBack(<<Head(p)>>, Len(<<Head(p)>>), off) <=> Head(p) = off
  BY SaidAlone
<1> QED
  BY <1>2, <1>3, <1>4, Zenon

-------------------------------------------------------------------------------
(* What the methods of a connection make of it. *)

Talks(c) == c.socket \in {"idle", "connecting", "connected"}

(* What the core will know of a channel. *)
Knows(c, k, ch) ==
  \/ Says(Coming(c), Len(Coming(c)), Hello(ch), Goodbye(ch))
  \/ ch \in k.channels /\ ~TakesBack(Coming(c), Len(Coming(c)), Goodbye(ch))

(* That the core will know no other channels than the consumers have, and  *)
(* all of them but for those that were heard too early.                    *)
Agrees(c, k, h) ==
  \A ch \in CoreChannels :
    /\ Knows(c, k, ch) => Entry(c, ch) # {}
    /\ ch \in DOMAIN c.subscriptions => Knows(c, k, ch) \/ ch \in h

(* Everything is passed on to the monitor from the start. *)
Monitored(c, k) ==
  /\ k.monitor \/ (Coming(c) # <<>> /\ Coming(c)[1] = Hello("*"))
  /\ ~TakesBack(Coming(c), Len(Coming(c)), Goodbye("*"))

(* A socket that is not connected carries nothing yet; and what is so of a *)
(* connection by itself.                                                   *)
QuietBefore(c) == c.socket \in {"idle", "connecting"} => c.out = <<>>
Sound(c) == IsConnection(c) /\ Finds(c) /\ QuietBefore(c)

(* d is c when it has said ms, and may have other consumers. *)
Said(c, d, ms) ==
  /\ IsConnection(d)
  /\ d.socket = c.socket /\ d.in = c.in
  /\ QuietBefore(c) => QuietBefore(d)
  /\ Coming(d) = IF Talks(c) THEN Coming(c) \o ms ELSE Coming(c)

(* d has one more entry than c, or another one. *)
HasEntry(c, d, ch, os) ==
  /\ DOMAIN d.subscriptions = DOMAIN c.subscriptions \cup {ch}
  /\ d.subscriptions[ch] = os
  /\ \A k \in DOMAIN c.subscriptions \ {ch} : d.subscriptions[k] = c.subscriptions[k]

LEMMA ComingIsSequence ==
  ASSUME NEW c, IsConnection(c)
  PROVE  Coming(c) \in Seq(ToCore) /\ Coming(c) \o <<>> = Coming(c)
<1>1. c.socket \in {"idle", "connecting", "connected", "closing", "unconnected"}
      /\ c.queue \in Seq(ToCore) /\ c.out \in Seq(ToCore) /\ <<>> \in Seq(ToCore)
  BY DEF IsConnection
<1>2. Coming(c) \in Seq(ToCore)
  <2>1. Coming(c) \in {c.queue, c.out, <<>>}
    BY <1>1 DEF Coming
  <2> QED
    BY <1>1, <2>1
<1> QED
  BY <1>2, ConcatEmptySeq

LEMMA SendAllSays ==
  ASSUME NEW c, IsConnection(c), NEW ms \in Seq(ToCore)
  PROVE  /\ Said(c, SendAll(c, ms), ms)
         /\ SendAll(c, ms).subscriptions = c.subscriptions
         /\ SendAll(c, ms).consumers = c.consumers
<1> DEFINE out == c.out \o ms
           queue == c.queue \o ms
<1>1. out \in Seq(ToCore) /\ queue \in Seq(ToCore)
  BY ConcatProperties DEF IsConnection
<1>2. SendAll(c, ms) = IF c.socket = "connected" THEN [c EXCEPT !.out = out]
                                                ELSE [c EXCEPT !.queue = queue]
  BY Zenon DEF SendAll
<1>3. (c.socket = "connected" => Coming(c) \o ms = out)
      /\ (c.socket \in {"idle", "connecting"} => Coming(c) \o ms = queue)
  BY DEF Coming
<1> HIDE DEF out, queue
<1>4. CASE c.socket = "connected"
  BY <1>1, <1>2, <1>3, <1>4 DEF IsConnection, Fields, Said, QuietBefore, Talks, Coming
<1>5. CASE c.socket # "connected"
  BY <1>1, <1>2, <1>3, <1>5 DEF IsConnection, Fields, Said, QuietBefore, Talks, Coming
<1> QED
  BY <1>4, <1>5

LEMMA WithEntrySays ==
  ASSUME NEW c, IsConnection(c), NEW ch \in Channels, NEW os \in SUBSET Objects
  PROVE  /\ Said(c, WithEntry(c, ch, os), <<>>)
         /\ HasEntry(c, WithEntry(c, ch, os), ch, os)
         /\ WithEntry(c, ch, os).consumers = c.consumers
<1> DEFINE s == [k \in DOMAIN c.subscriptions \cup {ch} |->
                   IF k = ch THEN os ELSE c.subscriptions[k]]
<1>1. WithEntry(c, ch, os) = [c EXCEPT !.subscriptions = s]
  BY Zenon DEF WithEntry
<1>2. /\ DOMAIN s = DOMAIN c.subscriptions \cup {ch}
      /\ s[ch] = os
      /\ \A k \in DOMAIN c.subscriptions \ {ch} : s[k] = c.subscriptions[k]
  OBVIOUS
<1>3. DOMAIN s \subseteq Channels /\ \A k \in DOMAIN s : s[k] \subseteq Objects
  BY DEF IsConnection
<1>4. Coming(c) \o <<>> = Coming(c)
  BY ComingIsSequence
<1> HIDE DEF s
<1> QED
  BY <1>1, <1>2, <1>3, <1>4 DEF IsConnection, Fields, Said, HasEntry, QuietBefore, Coming

LEMMA RegisterSays ==
  ASSUME NEW c, IsConnection(c), NEW o \in Objects
  PROVE  /\ Said(c, RegisterConsumer(c, o), <<>>)
         /\ RegisterConsumer(c, o).subscriptions = c.subscriptions
         /\ Range(RegisterConsumer(c, o).consumers) = Range(c.consumers) \cup {o}
         /\ IsInjective(c.consumers) /\ o \notin Range(c.consumers) =>
              IsInjective(RegisterConsumer(c, o).consumers)
<1> DEFINE os == Append(c.consumers, o)
<1>1. RegisterConsumer(c, o) = [c EXCEPT !.consumers = os]
  BY Zenon DEF RegisterConsumer
<1>2. c.consumers \in Seq(Objects)
  BY DEF IsConnection
<1>3. /\ os \in Seq(Objects)
      /\ Len(c.consumers) \in Nat /\ DOMAIN c.consumers = 1..Len(c.consumers)
      /\ DOMAIN os = 1..(Len(c.consumers) + 1)
      /\ os[Len(c.consumers) + 1] = o
      /\ \A i \in 1..Len(c.consumers) : os[i] = c.consumers[i]
  BY <1>2, AppendProperties, LenProperties
<1>4. Coming(c) \o <<>> = Coming(c)
  BY ComingIsSequence
<1> HIDE DEF os
<1>5. Range(os) = Range(c.consumers) \cup {o}
  BY <1>3 DEF Range
<1>6. IsInjective(c.consumers) /\ o \notin Range(c.consumers) => IsInjective(os)
  BY <1>3 DEF Range, IsInjective
<1> QED
  BY <1>1, <1>3, <1>4, <1>5, <1>6 DEF IsConnection, Fields, Said, QuietBefore, Coming

LEMMA SaidTwice ==
  ASSUME NEW b, NEW c, NEW d, NEW p \in Seq(ToCore), NEW q \in Seq(ToCore),
         IsConnection(b), Said(b, c, p), Said(c, d, q)
  PROVE  Said(b, d, p \o q)
<1>1. Coming(b) \in Seq(ToCore)
  BY ComingIsSequence
<1>2. (Coming(b) \o p) \o q = Coming(b) \o (p \o q)
  BY <1>1, ConcatAssociative
<1>3. Talks(b) <=> Talks(c)
  BY DEF Said, Talks
<1>4. Coming(d) = IF Talks(b) THEN Coming(b) \o (p \o q) ELSE Coming(b)
  BY <1>2, <1>3 DEF Said
<1> QED
  BY <1>4, Zenon DEF Said

LEMMA KnowsAfter ==
  ASSUME NEW c, NEW d, NEW k, NEW ms \in Seq(ToCore), NEW ch,
         IsConnection(c), Talks(c), Said(c, d, ms)
  PROVE  Knows(d, k, ch) <=>
           \/ Says(ms, Len(ms), Hello(ch), Goodbye(ch))
           \/ Knows(c, k, ch) /\ ~TakesBack(ms, Len(ms), Goodbye(ch))
<1> DEFINE on == Hello(ch)
           off == Goodbye(ch)
           p == Coming(c)
           in == ch \in k.channels
<1>1. p \in Seq(ToCore) /\ Coming(d) = p \o ms
  BY ComingIsSequence DEF Said
<1>2. /\ Says(p \o ms, Len(p \o ms), on, off) <=>
           \/ Says(ms, Len(ms), on, off)
           \/ Says(p, Len(p), on, off) /\ ~TakesBack(ms, Len(ms), off)
      /\ TakesBack(p \o ms, Len(p \o ms), off) <=>
           TakesBack(p, Len(p), off) \/ TakesBack(ms, Len(ms), off)
  <2> HIDE DEF on, off, p
  <2> QED
    BY <1>1, SaidAfter
<1>3. /\ Knows(d, k, ch) <=> \/ Says(p \o ms, Len(p \o ms), on, off)
                             \/ in /\ ~TakesBack(p \o ms, Len(p \o ms), off)
      /\ Knows(c, k, ch) <=> \/ Says(p, Len(p), on, off)
                             \/ in /\ ~TakesBack(p, Len(p), off)
  BY <1>1, Zenon DEF Knows
<1> HIDE DEF on, off, p, in
<1>4. Knows(d, k, ch) <=> \/ Says(ms, Len(ms), on, off)
                          \/ Knows(c, k, ch) /\ ~TakesBack(ms, Len(ms), off)
  BY <1>2, <1>3, Zenon
<1> QED
  BY <1>4 DEF on, off

LEMMA MonitoredAfter ==
  ASSUME NEW c, NEW d, NEW k, NEW ms \in Seq(ToCore),
         IsConnection(c), Talks(c), Said(c, d, ms),
         Monitored(c, k), ~TakesBack(ms, Len(ms), Goodbye("*"))
  PROVE  Monitored(d, k)
<1> DEFINE p == Coming(c)
<1>1. p \in Seq(ToCore) /\ Coming(d) = p \o ms
  BY ComingIsSequence DEF Said
<1>2. ~TakesBack(p \o ms, Len(p \o ms), Goodbye("*"))
  <2>1. ~TakesBack(p, Len(p), Goodbye("*"))
    BY DEF Monitored
  <2> HIDE DEF p
  <2> QED
    BY <1>1, <2>1, SaidAfter
<1>3. ASSUME p # <<>> PROVE p \o ms # <<>> /\ (p \o ms)[1] = p[1]
  <2> HIDE DEF p
  <2>1. Len(p) \in Nat /\ Len(p) # 0 /\ Len(ms) \in Nat
    BY <1>1, <1>3, LenProperties, EmptySeq
  <2>2. Len(p \o ms) = Len(p) + Len(ms) /\ (p \o ms)[1] = p[1]
    BY <1>1, <2>1, ConcatProperties
  <2>3. p \o ms # <<>>
    BY <2>1, <2>2
  <2> QED
    BY <2>2, <2>3
<1> QED
  BY <1>1, <1>2, <1>3, Zenon DEF Monitored

(* A connection that has been closed says nothing more. *)
Emits(c, d) ==
  IF Talks(c) THEN \E ms \in Seq(ToCore) : Coming(d) = Coming(c) \o ms
  ELSE Coming(d) = Coming(c)

LEMMA SaidIsEmitted ==
  ASSUME NEW c, NEW d, NEW ms \in Seq(ToCore), Said(c, d, ms)
  PROVE  Emits(c, d)
BY DEF Said, Emits

(* d is what a method may make of c. *)
Keeps(c, d) ==
  /\ Sound(d)
  /\ d.socket = c.socket /\ d.in = c.in
  /\ Emits(c, d)
  /\ Talks(c) => /\ \A k, h : Agrees(c, k, h) => Agrees(d, k, h)
                 /\ \A k : Monitored(c, k) => Monitored(d, k)

LEMMA KeepsTwice ==
  ASSUME NEW b, NEW c, NEW d, IsConnection(b), Keeps(b, c), Keeps(c, d)
  PROVE  Keeps(b, d)
<1>1. Talks(b) <=> Talks(c)
  BY DEF Keeps, Talks
<1>2. Emits(b, d)
  <2>1. CASE Talks(b)
    <3>1. PICK p \in Seq(ToCore) : Coming(c) = Coming(b) \o p
      BY <2>1 DEF Keeps, Emits
    <3>2. PICK q \in Seq(ToCore) : Coming(d) = Coming(c) \o q
      BY <1>1, <2>1 DEF Keeps, Emits
    <3>3. p \o q \in Seq(ToCore) /\ (Coming(b) \o p) \o q = Coming(b) \o (p \o q)
      <4>1. Coming(b) \in Seq(ToCore)
        BY ComingIsSequence
      <4> QED
        BY <4>1, ConcatAssociative, ConcatProperties
    <3> QED
      BY <2>1, <3>1, <3>2, <3>3 DEF Emits
  <2>2. CASE ~Talks(b)
    BY <1>1, <2>2 DEF Keeps, Emits
  <2> QED
    BY <2>1, <2>2
<1> QED
  BY <1>1, <1>2, Zenon DEF Keeps

(* Something is said, and the entries are as before. *)
LEMMA SayingKeeps ==
  ASSUME NEW c, Sound(c), NEW ch \in CoreChannels, NEW cmd \in {"list", "send", "error"}
  PROVE  /\ Keeps(c, SendFromConsumer(c, Packet(cmd, ch)))
         /\ SendFromConsumer(c, Packet(cmd, ch)).consumers = c.consumers
         /\ SendFromConsumer(c, Packet(cmd, ch)).subscriptions = c.subscriptions
<1> DEFINE m == Packet(cmd, ch)
           d == SendAll(c, <<m>>)
<1>1. m \in ToCore /\ \A a \in Channels : m # Hello(a) /\ m # Goodbye(a)
  BY ChannelsAreApart
<1>2. <<m>> \in Seq(ToCore)
  BY <1>1
<1>3. /\ Said(c, d, <<m>>) /\ d.subscriptions = c.subscriptions /\ d.consumers = c.consumers
  BY <1>2, SendAllSays DEF Sound
<1>4. \A a \in Channels : /\ ~Says(<<m>>, Len(<<m>>), Hello(a), Goodbye(a))
                          /\ ~TakesBack(<<m>>, Len(<<m>>), Goodbye(a))
  BY <1>1, SaidAlone
<1> HIDE DEF d, m
<1>5. Sound(d) /\ d.socket = c.socket /\ d.in = c.in /\ Emits(c, d)
  BY <1>2, <1>3, SaidIsEmitted DEF Sound, Said, Finds
<1>6. ASSUME Talks(c), NEW k, NEW h, Agrees(c, k, h)
      PROVE  Agrees(d, k, h)
  <2> SUFFICES ASSUME NEW a \in CoreChannels
               PROVE  /\ Knows(d, k, a) => Entry(d, a) # {}
                      /\ a \in DOMAIN d.subscriptions => Knows(d, k, a) \/ a \in h
    BY DEF Agrees
  <2>1. Knows(d, k, a) <=> Knows(c, k, a)
    BY <1>2, <1>3, <1>4, <1>6, KnowsAfter DEF Channels, Sound
  <2> QED
    BY <1>3, <1>6, <2>1 DEF Agrees, Entry
<1>7. ASSUME Talks(c), NEW k, Monitored(c, k)
      PROVE  Monitored(d, k)
  BY <1>2, <1>3, <1>4, <1>7, MonitoredAfter DEF Channels, Sound
<1>8. Keeps(c, d)
  BY <1>5, <1>6, <1>7 DEF Keeps
<1> QED
  BY <1>3, <1>8 DEF SendFromConsumer, d, m

LEMMA ChannelsOfObjects ==
  ASSUME NEW o \in Objects, o # Settings
  PROVE  ChannelOf(o) \in Channels
BY DEF Objects, Settings, Object, Singles, ChannelOf, Channels, CoreChannels

LEMMA EntryIsFound ==
  ASSUME NEW c, Finds(c), NEW ch
  PROVE  Entry(c, ch) = {o \in Range(c.consumers) \ {Settings} : ChannelOf(o) = ch}
<1>1. CASE ch \in DOMAIN c.subscriptions
  BY <1>1 DEF Finds, Entry
<1>2. CASE ch \notin DOMAIN c.subscriptions
  BY <1>2 DEF Finds, Entry
<1> QED
  BY <1>1, <1>2

(* A consumer that subscribes as it is made. *)
LEMMA NewPlainKeeps ==
  ASSUME NEW c, Sound(c), NEW o \in Objects, o # Settings, o \notin Range(c.consumers)
  PROVE  /\ Keeps(c, NewPlain(c, o))
         /\ Range(NewPlain(c, o).consumers) = Range(c.consumers) \cup {o}
         /\ Talks(c) /\ ChannelOf(o) \notin DOMAIN c.subscriptions =>
              Coming(NewPlain(c, o)) = Coming(c) \o <<Hello(ChannelOf(o))>>
<1> DEFINE ch == ChannelOf(o)
           r == RegisterConsumer(c, o)
           new == ch \notin DOMAIN c.subscriptions
           ms == IF new THEN <<Hello(ch)>> ELSE <<>>
           told == IF ch \in DOMAIN r.subscriptions THEN r ELSE SendFromConsumer(r, Hello(ch))
           os == Entry(r, ch) \cup {o}
           d == WithEntry(told, ch, os)
<1>1. NewPlain(c, o) = d
  BY Zenon DEF NewPlain, SubscribeConsumerTo
<1>2. ch \in Channels /\ Hello(ch) \in ToCore
  BY ChannelsOfObjects, ChannelsAreApart
<1>3. IsConnection(c) /\ Finds(c) /\ QuietBefore(c)
  BY DEF Sound
<1>4. /\ Said(c, r, <<>>) /\ r.subscriptions = c.subscriptions
      /\ Range(r.consumers) = Range(c.consumers) \cup {o}
      /\ IsInjective(r.consumers)
  BY <1>3, RegisterSays DEF Finds
<1>5. os = Entry(c, ch) \cup {o} /\ os \in SUBSET Objects
  <2>1. os = Entry(c, ch) \cup {o}
    BY <1>4 DEF Entry
  <2>2. Entry(c, ch) \subseteq Objects
    BY <1>3 DEF Entry, IsConnection
  <2> QED
    BY <2>1, <2>2
<1>6. ms \in Seq(ToCore) /\ <<>> \in Seq(ToCore)
  BY <1>2
<1> HIDE DEF r, os
<1>7. /\ Said(r, told, ms) /\ told.subscriptions = c.subscriptions
      /\ told.consumers = r.consumers
  <2>1. CASE new
    <3>1. told = SendAll(r, ms) /\ IsConnection(r)
      <4>1. told = SendFromConsumer(r, Hello(ch)) /\ ms = <<Hello(ch)>>
        BY <1>4, <2>1
      <4> QED
        BY <1>4, <4>1, Zenon DEF SendFromConsumer, Said
    <3> HIDE DEF told, ms
    <3>2. /\ Said(r, SendAll(r, ms), ms)
          /\ SendAll(r, ms).subscriptions = r.subscriptions
          /\ SendAll(r, ms).consumers = r.consumers
      BY <1>6, <3>1, SendAllSays
    <3> QED
      BY <1>4, <3>1, <3>2
  <2>2. CASE ~new
    <3>1. told = r /\ ms = <<>> /\ IsConnection(r)
      BY <1>4, <2>2 DEF Said
    <3> QED
      BY <1>4, <3>1, ComingIsSequence DEF Said
  <2> QED
    BY <2>1, <2>2
<1> HIDE DEF told, ms
<1>8. Said(told, d, <<>>) /\ HasEntry(told, d, ch, os) /\ d.consumers = told.consumers
  BY <1>2, <1>5, <1>7, WithEntrySays DEF Said
<1> HIDE DEF d
<1>9. Said(c, d, ms)
  <2>1. Said(c, told, <<>> \o ms)
    BY <1>3, <1>4, <1>6, <1>7, SaidTwice
  <2>2. Said(c, d, (<<>> \o ms) \o <<>>)
    <3>1. <<>> \o ms \in Seq(ToCore)
      BY <1>6, ConcatProperties
    <3> QED
      BY <1>3, <1>6, <1>8, <2>1, <3>1, SaidTwice
  <2>3. (<<>> \o ms) \o <<>> = ms
    BY <1>6, ConcatEmptySeq
  <2> QED
    BY <2>2, <2>3
<1>10. Range(d.consumers) = Range(c.consumers) \cup {o} /\ IsInjective(d.consumers)
  BY <1>4, <1>7, <1>8
<1>11. /\ DOMAIN d.subscriptions = DOMAIN c.subscriptions \cup {ch}
       /\ d.subscriptions[ch] = Entry(c, ch) \cup {o}
       /\ \A k \in DOMAIN c.subscriptions \ {ch} : d.subscriptions[k] = c.subscriptions[k]
  BY <1>5, <1>7, <1>8 DEF HasEntry
<1>12. Finds(d)
  <2>1. Entry(c, ch) = {x \in Range(c.consumers) \ {Settings} : ChannelOf(x) = ch}
    BY <1>3, EntryIsFound
  <2>2. ASSUME NEW k \in DOMAIN d.subscriptions
        PROVE  d.subscriptions[k] =
                 {x \in Range(d.consumers) \ {Settings} : ChannelOf(x) = k}
    <3>1. CASE k = ch
      BY <1>10, <1>11, <2>1, <3>1
    <3>2. CASE k # ch
      <4>1. d.subscriptions[k] = {x \in Range(c.consumers) \ {Settings} : ChannelOf(x) = k}
        BY <1>3, <1>11, <3>2 DEF Finds
      <4> QED
        BY <1>10, <3>2, <4>1
    <3> QED
      BY <3>1, <3>2
  <2>3. ASSUME NEW x \in Range(d.consumers) \ {Settings}
        PROVE  ChannelOf(x) \in DOMAIN d.subscriptions
    BY <1>3, <1>10, <1>11 DEF Finds
  <2> QED
    BY <1>10, <2>2, <2>3 DEF Finds
<1>13. Sound(d) /\ d.socket = c.socket /\ d.in = c.in /\ Emits(c, d)
  BY <1>3, <1>6, <1>9, <1>12, SaidIsEmitted DEF Sound, Said
<1>14. \A a \in Channels :
         /\ Says(ms, Len(ms), Hello(a), Goodbye(a)) <=> (new /\ a = ch)
         /\ ~TakesBack(ms, Len(ms), Goodbye(a))
  <2>1. CASE new
    <3>1. ms = <<Hello(ch)>>
      BY <2>1 DEF ms
    <3> QED
      BY <1>2, <2>1, <3>1, SaidAlone, ChannelsAreApart
  <2>2. CASE ~new
    <3>1. ms = <<>>
      BY <2>2 DEF ms
    <3> QED
      BY <2>2, <3>1, SaidAlone
  <2> QED
    BY <2>1, <2>2
<1>15. ASSUME Talks(c), NEW k, NEW h, Agrees(c, k, h)
       PROVE  Agrees(d, k, h)
  <2> SUFFICES ASSUME NEW a \in CoreChannels
               PROVE  /\ Knows(d, k, a) => Entry(d, a) # {}
                      /\ a \in DOMAIN d.subscriptions => Knows(d, k, a) \/ a \in h
    BY DEF Agrees
  <2>1. Knows(d, k, a) <=> Knows(c, k, a) \/ (new /\ a = ch)
    BY <1>3, <1>6, <1>9, <1>14, <1>15, KnowsAfter DEF Channels
  <2>2. Knows(c, k, a) => Entry(c, a) # {}
    BY <1>15 DEF Agrees
  <2>3. a \in DOMAIN c.subscriptions => Knows(c, k, a) \/ a \in h
    BY <1>15 DEF Agrees
  <2>4. CASE a = ch
    <3>1. Entry(d, a) # {}
      BY <1>11, <2>4 DEF Entry
    <3> QED
      BY <2>1, <2>3, <2>4, <3>1 DEF new
  <2>5. CASE a # ch
    <3>1. Entry(d, a) = Entry(c, a) /\ (a \in DOMAIN d.subscriptions <=> a \in DOMAIN c.subscriptions)
      BY <1>11, <2>5 DEF Entry
    <3> QED
      BY <2>1, <2>2, <2>3, <2>5, <3>1
  <2> QED
    BY <2>4, <2>5
<1>16. ASSUME Talks(c), NEW k, Monitored(c, k)
       PROVE  Monitored(d, k)
  <2>1. "*" \in Channels
    BY DEF Channels
  <2> QED
    BY <1>3, <1>6, <1>9, <1>14, <1>16, <2>1, MonitoredAfter
<1>17. Keeps(c, d)
  BY <1>13, <1>15, <1>16 DEF Keeps
<1>18. Talks(c) /\ new => Coming(d) = Coming(c) \o <<Hello(ch)>>
  BY <1>9 DEF Said, ms
<1> QED
  BY <1>1, <1>10, <1>17, <1>18 DEF new

(* A mirror also asks for its list. *)
LEMMA NewMirrorKeeps ==
  ASSUME NEW c, Sound(c), NEW o \in Objects, o # Settings, o \notin Range(c.consumers),
         ChannelOf(o) \in CoreChannels
  PROVE  /\ Keeps(c, NewMirror(c, o))
         /\ Range(NewMirror(c, o).consumers) = Range(c.consumers) \cup {o}
<1> DEFINE d == NewPlain(c, o)
           e == SendFromConsumer(d, Packet("list", ChannelOf(o)))
<1>1. NewMirror(c, o) = e
  BY Zenon DEF NewMirror
<1>2. Keeps(c, d) /\ Range(d.consumers) = Range(c.consumers) \cup {o}
  BY NewPlainKeeps
<1>3. Sound(d)
  BY <1>2 DEF Keeps
<1> HIDE DEF d
<1>4. Keeps(d, e) /\ e.consumers = d.consumers
  BY <1>3, SayingKeeps
<1> HIDE DEF e
<1>5. Keeps(c, e)
  BY <1>2, <1>4, KeepsTwice DEF Sound
<1> QED
  BY <1>1, <1>2, <1>4, <1>5

(* The settings register a model that subscribes to nothing, and a mirror. *)
LEMMA NewSettingsKeeps ==
  ASSUME NEW c, Sound(c), Settings \notin Range(c.consumers), ServersList \notin Range(c.consumers)
  PROVE  /\ Keeps(c, NewSettings(c))
         /\ Range(NewSettings(c).consumers) = Range(c.consumers) \cup {Settings, ServersList}
<1> DEFINE r == RegisterConsumer(c, Settings)
<1>1. /\ Settings \in Objects /\ ServersList \in Objects /\ ServersList # Settings
      /\ ChannelOf(ServersList) = "irc:servers"
  BY DEF Settings, ServersList, Object, Objects, Singles, ChannelOf
<1>2. NewSettings(c) = NewMirror(r, ServersList)
  BY Zenon DEF NewSettings
<1>3. IsConnection(c) /\ Finds(c) /\ QuietBefore(c)
  BY DEF Sound
<1>4. /\ Said(c, r, <<>>) /\ r.subscriptions = c.subscriptions
      /\ Range(r.consumers) = Range(c.consumers) \cup {Settings}
      /\ IsInjective(r.consumers)
  BY <1>1, <1>3, RegisterSays DEF Finds
<1> HIDE DEF r
<1>5. Sound(r)
  <2>1. Range(r.consumers) \ {Settings} = Range(c.consumers) \ {Settings}
    BY <1>4
  <2> QED
    BY <1>3, <1>4, <2>1 DEF Sound, Said, Finds
<1>6. Coming(r) = Coming(c) /\ Emits(c, r)
  <2>1. <<>> \in Seq(ToCore) /\ Coming(c) \o <<>> = Coming(c)
    BY <1>3, ComingIsSequence
  <2>2. Coming(r) = Coming(c)
    BY <1>4, <2>1 DEF Said
  <2> QED
    BY <1>4, <2>1, <2>2, SaidIsEmitted
<1>7. Keeps(c, r)
  <2>1. ASSUME Talks(c), NEW k, NEW h, Agrees(c, k, h) PROVE Agrees(r, k, h)
    BY <1>4, <1>6, <2>1 DEF Agrees, Knows, Entry
  <2>2. ASSUME Talks(c), NEW k, Monitored(c, k) PROVE Monitored(r, k)
    BY <1>6, <2>2 DEF Monitored
  <2> QED
    BY <1>4, <1>5, <1>6, <2>1, <2>2 DEF Keeps, Said
<1>8. ServersList \notin Range(r.consumers)
  BY <1>1, <1>4
<1>9. /\ Keeps(r, NewMirror(r, ServersList))
      /\ Range(NewMirror(r, ServersList).consumers) = Range(r.consumers) \cup {ServersList}
  BY <1>1, <1>5, <1>8, NewMirrorKeeps DEF CoreChannels
<1>10. Keeps(c, NewMirror(r, ServersList))
  BY <1>3, <1>7, <1>9, KeepsTwice
<1> QED
  BY <1>2, <1>4, <1>9, <1>10

LEMMA ChannelsAreFinite == IsFiniteSet(Channels)
<1>1. IsFiniteSet({"chat:channels", "irc:servers"}) /\ IsFiniteSet({"*"})
  <2>1. {"chat:channels", "irc:servers"} = {"chat:channels"} \cup {"irc:servers"}
    OBVIOUS
  <2>2. IsFiniteSet({"chat:channels"}) /\ IsFiniteSet({"irc:servers"}) /\ IsFiniteSet({"*"})
    BY FS_Singleton
  <2> QED
    BY <2>1, <2>2, FS_Union
<1>2. IsFiniteSet(ChatIds \cup {"chat:channels", "irc:servers"})
  BY <1>1, ChatIdsAssumption, FS_Union
<1> QED
  BY <1>1, <1>2, FS_Union DEF Channels, CoreChannels

(* The core is told of each channel that nobody is left on. *)
LEMMA GoodbyesAreSaid ==
  ASSUME NEW S \in SUBSET Channels
  PROVE  LET names == SetToSeq(S)
             ms == [i \in DOMAIN names |-> Goodbye(names[i])]
         IN  /\ ms \in Seq(ToCore)
             /\ \A a \in Channels : /\ TakesBack(ms, Len(ms), Goodbye(a)) <=> a \in S
                                    /\ ~Says(ms, Len(ms), Hello(a), Goodbye(a))
<1> DEFINE names == SetToSeq(S)
           ms == [i \in DOMAIN names |-> Goodbye(names[i])]
<1>1. names \in Seq(S) /\ Range(names) = S
  BY ChannelsAreFinite, FS_Subset, SetInOrder
<1> HIDE DEF names
<1>2. Len(names) \in Nat /\ DOMAIN names = 1..Len(names) /\ \A i \in 1..Len(names) : names[i] \in S
  BY <1>1, LenProperties, ElementOfSeq
<1>3. /\ ms \in Seq(ToCore)
      /\ DOMAIN ms = 1..Len(names) /\ \A i \in 1..Len(names) : ms[i] = Goodbye(names[i])
  <2>1. DOMAIN ms = 1..Len(names) /\ \A i \in 1..Len(names) : ms[i] = Goodbye(names[i])
    BY <1>2
  <2>2. \A i \in 1..Len(names) : Goodbye(names[i]) \in ToCore
    BY <1>2, ChannelsAreApart
  <2>3. ms \in [1..Len(names) -> ToCore]
    BY <1>2, <2>2
  <2> QED
    BY <1>2, <2>1, <2>3, IsASeq
<1> HIDE DEF ms
<1>4. Len(ms) = Len(names)
  BY <1>2, <1>3, LenProperties
<1>5. ASSUME NEW a \in Channels
      PROVE  /\ TakesBack(ms, Len(ms), Goodbye(a)) <=> a \in S
             /\ ~Says(ms, Len(ms), Hello(a), Goodbye(a))
  <2>1. a \in S <=> \E i \in 1..Len(names) : names[i] = a
    BY <1>1, <1>2 DEF Range
  <2>2. \A i \in 1..Len(names) : names[i] \in Channels
    BY <1>2
  <2>3. \A i \in 1..Len(names) : (ms[i] = Goodbye(a) <=> names[i] = a) /\ ms[i] # Hello(a)
    BY <1>3, <2>2, ChannelsAreApart
  <2> QED
    BY <1>4, <2>1, <2>3 DEF TakesBack, Says
<1> QED
  BY <1>3, <1>5 DEF ms, names

Monitor == Object("monitor", NoId)

LEMMA UnregisterKeeps ==
  ASSUME NEW c, Sound(c), NEW os
  PROVE  /\ Sound(UnregisterConsumers(c, os))
         /\ UnregisterConsumers(c, os).socket = c.socket
         /\ UnregisterConsumers(c, os).in = c.in
         /\ Emits(c, UnregisterConsumers(c, os))
         /\ Range(UnregisterConsumers(c, os).consumers) = Range(c.consumers) \ os
         /\ Talks(c) /\ Monitor \in Range(c.consumers) \ os => Keeps(c, UnregisterConsumers(c, os))
<1> DEFINE emptied == Emptied(c, os)
           kept == DOMAIN c.subscriptions \ emptied
           names == SetToSeq(emptied)
           ms == [i \in DOMAIN names |-> Goodbye(names[i])]
           left == RemoveAll(c.consumers, os)
           subs == [ch \in kept |-> c.subscriptions[ch] \ os]
           b == [c EXCEPT !.consumers = left, !.subscriptions = subs]
           d == SendAll(b, ms)
<1>1. UnregisterConsumers(c, os) = d
  BY Zenon DEF UnregisterConsumers
<1>2. IsConnection(c) /\ Finds(c) /\ QuietBefore(c)
  BY DEF Sound
<1>3. /\ DOMAIN c.subscriptions \subseteq Channels
      /\ \A ch \in DOMAIN c.subscriptions : c.subscriptions[ch] \subseteq Objects
      /\ c.consumers \in Seq(Objects) /\ IsInjective(c.consumers)
  BY <1>2 DEF IsConnection, Finds
<1>4. emptied \subseteq Channels /\ emptied \subseteq DOMAIN c.subscriptions
  BY <1>3 DEF Emptied
<1>5. /\ ms \in Seq(ToCore)
      /\ \A a \in Channels : /\ TakesBack(ms, Len(ms), Goodbye(a)) <=> a \in emptied
                             /\ ~Says(ms, Len(ms), Hello(a), Goodbye(a))
  <2> HIDE DEF emptied
  <2> QED
    BY <1>4, GoodbyesAreSaid
<1>6. left \in Seq(Objects) /\ Range(left) = Range(c.consumers) \ os /\ IsInjective(left)
  BY <1>3, RemoveAllProperties
<1>7. /\ DOMAIN subs = kept
      /\ \A ch \in kept : subs[ch] = c.subscriptions[ch] \ os
      /\ \A ch \in DOMAIN subs : subs[ch] \subseteq Objects
      /\ DOMAIN subs \subseteq Channels
  BY <1>3
<1>8. \A ch \in DOMAIN c.subscriptions : ch \in kept <=> ~(c.subscriptions[ch] \subseteq os)
  BY DEF Emptied
<1> HIDE DEF emptied, names, ms, left, subs
<1>9. /\ IsConnection(b) /\ b.socket = c.socket /\ b.in = c.in
      /\ b.subscriptions = subs /\ b.consumers = left
      /\ QuietBefore(b) /\ Coming(b) = Coming(c)
  BY <1>2, <1>6, <1>7 DEF IsConnection, Fields, QuietBefore, Coming
<1> HIDE DEF b
<1>10. /\ Said(b, d, ms) /\ d.subscriptions = subs /\ d.consumers = left
  BY <1>5, <1>9, SendAllSays
<1> HIDE DEF d
<1>11. Finds(d)
  <2>1. ASSUME NEW ch \in DOMAIN d.subscriptions
        PROVE  d.subscriptions[ch] =
                 {o \in Range(d.consumers) \ {Settings} : ChannelOf(o) = ch}
    <3>1. d.subscriptions[ch] = c.subscriptions[ch] \ os /\ ch \in DOMAIN c.subscriptions
      BY <1>7, <1>10
    <3>2. c.subscriptions[ch] = {o \in Range(c.consumers) \ {Settings} : ChannelOf(o) = ch}
      BY <1>2, <3>1 DEF Finds
    <3> QED
      BY <1>6, <1>10, <3>1, <3>2
  <2>2. ASSUME NEW o \in Range(d.consumers) \ {Settings}
        PROVE  ChannelOf(o) \in DOMAIN d.subscriptions
    <3>1. o \in Range(c.consumers) \ {Settings} /\ o \notin os
      BY <1>6, <1>10
    <3>2. ChannelOf(o) \in DOMAIN c.subscriptions /\ o \in c.subscriptions[ChannelOf(o)]
      BY <1>2, <3>1 DEF Finds
    <3> QED
      BY <1>7, <1>8, <1>10, <3>1, <3>2
  <2> QED
    BY <1>6, <1>10, <2>1, <2>2 DEF Finds
<1>12. Sound(d) /\ d.socket = c.socket /\ d.in = c.in
  BY <1>9, <1>10, <1>11 DEF Sound, Said
<1>13. Said(c, d, ms) /\ Emits(c, d)
  <2>1. Said(c, d, ms)
    BY <1>2, <1>9, <1>10 DEF Said, Talks
  <2> QED
    BY <1>5, <2>1, SaidIsEmitted
<1>14. ASSUME Talks(c), NEW k, NEW h, Agrees(c, k, h)
       PROVE  Agrees(d, k, h)
  <2> SUFFICES ASSUME NEW a \in CoreChannels
               PROVE  /\ Knows(d, k, a) => Entry(d, a) # {}
                      /\ a \in DOMAIN d.subscriptions => Knows(d, k, a) \/ a \in h
    BY DEF Agrees
  <2>1. Knows(d, k, a) <=> Knows(c, k, a) /\ a \notin emptied
    BY <1>2, <1>5, <1>13, <1>14, KnowsAfter DEF Channels
  <2>2. Knows(c, k, a) => Entry(c, a) # {}
    BY <1>14 DEF Agrees
  <2>3. a \in DOMAIN c.subscriptions => Knows(c, k, a) \/ a \in h
    BY <1>14 DEF Agrees
  <2>4. ASSUME Knows(d, k, a) PROVE Entry(d, a) # {}
    <3>1. a \in DOMAIN c.subscriptions /\ a \notin emptied
      BY <2>1, <2>2, <2>4 DEF Entry
    <3>2. a \in kept /\ ~(c.subscriptions[a] \subseteq os)
      BY <1>8, <3>1
    <3> QED
      BY <1>7, <1>10, <3>2 DEF Entry
  <2>5. a \in DOMAIN d.subscriptions => a \in DOMAIN c.subscriptions /\ a \notin emptied
    BY <1>7, <1>10
  <2> QED
    BY <2>1, <2>3, <2>4, <2>5
<1>15. ASSUME Talks(c), Monitor \in Range(c.consumers) \ os, NEW k, Monitored(c, k)
       PROVE  Monitored(d, k)
  <2>1. Monitor # Settings /\ ChannelOf(Monitor) = "*" /\ "*" \in Channels
    BY DEF Monitor, Settings, Object, ChannelOf, Channels
  <2>2. "*" \in DOMAIN c.subscriptions /\ Monitor \in c.subscriptions["*"]
    BY <1>2, <1>15, <2>1 DEF Finds
  <2>3. "*" \notin emptied
    BY <1>8, <1>15, <2>2
  <2> QED
    BY <1>2, <1>5, <1>13, <1>15, <2>1, <2>3, MonitoredAfter
<1>16. Talks(c) /\ Monitor \in Range(c.consumers) \ os => Keeps(c, d)
  BY <1>12, <1>13, <1>14, <1>15 DEF Keeps
<1> QED
  BY <1>1, <1>6, <1>10, <1>12, <1>13, <1>16

(* The entry that looking for one makes. *)
LEMMA LookingKeeps ==
  ASSUME NEW c, Sound(c), NEW ch \in Channels
  PROVE  LET d == WithEntry(c, ch, Entry(c, ch))
         IN  /\ Sound(d) /\ d.socket = c.socket /\ d.in = c.in /\ d.consumers = c.consumers
             /\ Coming(d) = Coming(c)
             /\ \A a : Entry(d, a) = Entry(c, a)
             /\ Talks(c) =>
                  /\ \A k, h : /\ Agrees(c, k, h)
                               /\ Entry(c, ch) = {} /\ ch # "*" => ch \in h
                               => Agrees(d, k, h)
                  /\ \A k : Monitored(c, k) => Monitored(d, k)
<1> DEFINE os == Entry(c, ch)
           d == WithEntry(c, ch, os)
<1>1. IsConnection(c) /\ Finds(c) /\ QuietBefore(c)
  BY DEF Sound
<1>2. os \in SUBSET Objects
  BY <1>1 DEF Entry, IsConnection
<1>3. os = {o \in Range(c.consumers) \ {Settings} : ChannelOf(o) = ch}
  BY <1>1, EntryIsFound
<1>4. ch \in DOMAIN c.subscriptions => c.subscriptions[ch] = os
  BY DEF Entry
<1>5. ch \notin DOMAIN c.subscriptions => os = {}
  BY DEF Entry
<1> HIDE DEF os
<1>6. Said(c, d, <<>>) /\ HasEntry(c, d, ch, os) /\ d.consumers = c.consumers
  BY <1>1, <1>2, WithEntrySays
<1> HIDE DEF d
<1>7. Finds(d)
  BY <1>1, <1>3, <1>4, <1>6 DEF Finds, HasEntry
<1>8. Sound(d) /\ d.socket = c.socket /\ d.in = c.in
  BY <1>1, <1>6, <1>7 DEF Sound, Said
<1>9. ASSUME NEW a PROVE Entry(d, a) = Entry(c, a)
  <2>1. CASE a = ch
    BY <1>6, <2>1 DEF Entry, HasEntry, os
  <2>2. CASE a # ch
    BY <1>6, <2>2 DEF Entry, HasEntry
  <2> QED
    BY <2>1, <2>2
<1>10. Coming(d) = Coming(c)
  BY <1>1, <1>6, ComingIsSequence DEF Said
<1>11. ASSUME Talks(c), NEW k, NEW h, Agrees(c, k, h), os = {} /\ ch # "*" => ch \in h
       PROVE  Agrees(d, k, h)
  <2> SUFFICES ASSUME NEW a \in CoreChannels
               PROVE  /\ Knows(d, k, a) => Entry(d, a) # {}
                      /\ a \in DOMAIN d.subscriptions => Knows(d, k, a) \/ a \in h
    BY DEF Agrees
  <2>1. Knows(d, k, a) <=> Knows(c, k, a)
    BY <1>10, <1>11 DEF Knows
  <2>2. /\ Knows(c, k, a) => Entry(c, a) # {}
        /\ a \in DOMAIN c.subscriptions => Knows(c, k, a) \/ a \in h
    BY <1>11 DEF Agrees
  <2>3. Entry(d, a) = Entry(c, a)
    BY <1>9
  <2>4. a \in DOMAIN d.subscriptions => a \in DOMAIN c.subscriptions \/ (a = ch /\ os = {} /\ ch # "*")
    BY <1>5, <1>6, ChannelsAreApart DEF HasEntry
  <2> QED
    BY <1>11, <2>1, <2>2, <2>3, <2>4
<1>12. ASSUME Talks(c), NEW k, Monitored(c, k) PROVE Monitored(d, k)
  BY <1>10, <1>12 DEF Monitored
<1> QED
  BY <1>6, <1>8, <1>9, <1>10, <1>11, <1>12 DEF d, os

(* What happens to a connection when a packet has come to its consumers. *)
LEMMA ConsumedKeeps ==
  ASSUME NEW c, Sound(c), NEW p \in FromCore
  PROVE  LET d == Consumed(c, p)
         IN  /\ Sound(d) /\ d.socket = c.socket /\ d.in = c.in /\ d.consumers = c.consumers
             /\ Emits(c, d)
             /\ Talks(c) =>
                  /\ \A k, h : /\ Agrees(c, k, h)
                               /\ Entry(c, p.channel) = {} => p.channel \in h
                               => Agrees(d, k, h)
                  /\ \A k : Monitored(c, k) => Monitored(d, k)
<1> DEFINE ch == p.channel
           looked == WithEntry(c, ch, Entry(c, ch))
           throws == ~p.sound /\ Object("chat", ch) \in Entry(c, ch)
           d == IF throws THEN SendFromConsumer(looked, Packet("error", ch))
                ELSE WithEntry(looked, "*", Entry(c, "*"))
<1>1. ch \in CoreChannels /\ ch \in Channels /\ "*" \in Channels
  BY DEF FromCore, Channels
<1>2. Consumed(c, p) = d
  BY Zenon DEF Consumed
<1>3. /\ Sound(looked) /\ looked.socket = c.socket /\ looked.in = c.in
      /\ looked.consumers = c.consumers /\ Coming(looked) = Coming(c)
      /\ Entry(looked, "*") = Entry(c, "*")
      /\ Talks(c) =>
           /\ \A k, h : /\ Agrees(c, k, h)
                        /\ Entry(c, ch) = {} /\ ch # "*" => ch \in h
                        => Agrees(looked, k, h)
           /\ \A k : Monitored(c, k) => Monitored(looked, k)
  BY <1>1, LookingKeeps
<1> HIDE DEF looked, ch
<1>4. Talks(c) <=> Talks(looked)
  BY <1>3 DEF Talks
<1>5. /\ Sound(d) /\ d.socket = looked.socket /\ d.in = looked.in
      /\ d.consumers = looked.consumers /\ Emits(looked, d)
      /\ Talks(looked) => /\ \A k, h : Agrees(looked, k, h) => Agrees(d, k, h)
                          /\ \A k : Monitored(looked, k) => Monitored(d, k)
  <2>1. CASE throws
    <3>1. d = SendFromConsumer(looked, Packet("error", ch))
      BY <2>1
    <3> HIDE DEF d
    <3>2. Keeps(looked, SendFromConsumer(looked, Packet("error", ch)))
          /\ SendFromConsumer(looked, Packet("error", ch)).consumers = looked.consumers
      BY <1>1, <1>3, SayingKeeps
    <3> QED
      BY <3>1, <3>2, Zenon DEF Keeps
  <2>2. CASE ~throws
    <3>1. d = WithEntry(looked, "*", Entry(looked, "*"))
      BY <1>3, <2>2
    <3> HIDE DEF d
    <3>2. LET e == WithEntry(looked, "*", Entry(looked, "*"))
          IN  /\ Sound(e) /\ e.socket = looked.socket /\ e.in = looked.in
              /\ e.consumers = looked.consumers /\ Coming(e) = Coming(looked)
              /\ Talks(looked) =>
                   /\ \A k, h : /\ Agrees(looked, k, h)
                                /\ Entry(looked, "*") = {} /\ "*" # "*" => "*" \in h
                                => Agrees(e, k, h)
                   /\ \A k : Monitored(looked, k) => Monitored(e, k)
      BY <1>1, <1>3, LookingKeeps
    <3>3. Emits(looked, d)
      <4>1. IsConnection(looked) /\ Coming(d) = Coming(looked) /\ <<>> \in Seq(ToCore)
        BY <1>3, <3>1, <3>2 DEF Sound
      <4> QED
        BY <4>1, ComingIsSequence DEF Emits
    <3> QED
      BY <3>1, <3>2, <3>3
  <2> QED
    BY <2>1, <2>2
<1> HIDE DEF d
<1>6. ASSUME Talks(c), NEW k, NEW h, Agrees(c, k, h), Entry(c, ch) = {} => ch \in h
      PROVE  Agrees(d, k, h)
  BY <1>3, <1>4, <1>5, <1>6
<1>7. ASSUME Talks(c), NEW k, Monitored(c, k)
      PROVE  Monitored(d, k)
  BY <1>3, <1>4, <1>5, <1>7
<1>8. Emits(c, d)
  BY <1>3, <1>4, <1>5 DEF Emits
<1> QED
  BY <1>2, <1>3, <1>5, <1>6, <1>7, <1>8 DEF ch

(* What was queued is said when the socket is connected. *)
LEMMA FlushKeeps ==
  ASSUME NEW c, Sound(c), c.socket = "connecting"
  PROVE  LET d == Flush([c EXCEPT !.socket = "connected"])
         IN  /\ Sound(d) /\ d.socket = "connected" /\ d.in = c.in /\ d.consumers = c.consumers
             /\ Talks(c) /\ Talks(d) /\ Coming(d) = Coming(c)
             /\ \A k, h : Agrees(c, k, h) => Agrees(d, k, h)
             /\ \A k : Monitored(c, k) => Monitored(d, k)
<1> DEFINE d == Flush([c EXCEPT !.socket = "connected"])
<1>1. IsConnection(c) /\ Finds(c) /\ c.out = <<>> /\ c.queue \in Seq(ToCore)
  BY DEF Sound, QuietBefore, IsConnection
<1>2. <<>> \o c.queue = c.queue
  BY <1>1, ConcatEmptySeq
<1>3. d = [c EXCEPT !.socket = "connected", !.out = <<>> \o c.queue]
  BY <1>1 DEF Flush, IsConnection, Fields
<1>4. d = [c EXCEPT !.socket = "connected", !.out = c.queue]
  BY <1>2, <1>3
<1> HIDE DEF d
<1>5. /\ IsConnection(d) /\ d.socket = "connected" /\ d.in = c.in /\ d.consumers = c.consumers
      /\ d.subscriptions = c.subscriptions /\ Coming(d) = Coming(c)
  BY <1>1, <1>4 DEF IsConnection, Fields, Coming
<1>6. Sound(d) /\ Talks(d) /\ Talks(c)
  BY <1>1, <1>5 DEF Sound, Finds, QuietBefore, Talks
<1>7. \A k, h : Agrees(c, k, h) => Agrees(d, k, h)
  BY <1>5 DEF Agrees, Knows, Entry
<1>8. \A k : Monitored(c, k) => Monitored(d, k)
  BY <1>5 DEF Monitored
<1> QED
  BY <1>5, <1>6, <1>7, <1>8 DEF d

(* What the core knows when it has read a packet. *)
LEMMA ToldAgrees ==
  ASSUME NEW c, Sound(c), c.socket = "connected", c.out # <<>>,
         NEW k \in [channels : SUBSET CoreChannels, monitor : BOOLEAN]
  PROVE  LET d == [c EXCEPT !.out = Tail(@)]
             told == Told(k, Head(c.out))
         IN  /\ Coming(c) # <<>> /\ Coming(d) = Tail(Coming(c))
             /\ \A h : Agrees(c, k, h) => Agrees(d, told, h)
             /\ Monitored(c, k) => Monitored(d, told)
<1> DEFINE m == Head(c.out)
           rest == Tail(c.out)
           d == [c EXCEPT !.out = rest]
           told == Told(k, m)
<1>1. /\ IsConnection(c) /\ c.out \in Seq(ToCore) /\ m \in ToCore /\ rest \in Seq(ToCore)
      /\ Coming(c) = c.out
  BY HeadTailProperties DEF Sound, IsConnection, Coming
<1>2. /\ d.subscriptions = c.subscriptions /\ Coming(d) = rest
  BY <1>1 DEF IsConnection, Fields, Coming
<1>3. \A on, off :
        /\ Says(c.out, Len(c.out), on, off) <=>
             Says(rest, Len(rest), on, off) \/ (m = on /\ ~TakesBack(rest, Len(rest), off))
        /\ TakesBack(c.out, Len(c.out), off) <=> m = off \/ TakesBack(rest, Len(rest), off)
  BY <1>1, SaidFirst
<1>4. c.out[1] = m
  BY <1>1, HeadTailProperties
<1> HIDE DEF m, rest, d
<1>5. ASSUME NEW ch \in CoreChannels
      PROVE  ch \in told.channels <=> m = Hello(ch) \/ (ch \in k.channels /\ m # Goodbye(ch))
  <2>1. ch # "*"
    BY ChannelsAreApart
  <2>2. Hello(ch) = Packet("subscribe", ch) /\ Goodbye(ch) = Packet("unsubscribe", ch)
    BY <2>1 DEF Hello, Goodbye
  <2>3. CASE m.cmd = "subscribe"
    BY <1>1, <2>2, <2>3 DEF Told, Packet, ToCore
  <2>4. CASE m.cmd = "unsubscribe"
    BY <1>1, <2>2, <2>4 DEF Told, Packet, ToCore
  <2>5. CASE m.cmd \notin {"subscribe", "unsubscribe"}
    BY <1>1, <2>2, <2>5 DEF Told, Packet, ToCore
  <2> QED
    BY <2>3, <2>4, <2>5
<1>6. ASSUME NEW ch \in CoreChannels
      PROVE  Knows(d, told, ch) <=> Knows(c, k, ch)
  <2>1. Hello(ch) # Goodbye(ch)
    BY ChannelsAreApart DEF Channels
  <2> HIDE DEF told
  <2> QED
    BY <1>1, <1>2, <1>3, <1>5, <2>1 DEF Knows
<1>7. \A h : Agrees(c, k, h) => Agrees(d, told, h)
  <2> HIDE DEF told
  <2> QED
    BY <1>2, <1>6 DEF Agrees, Entry
<1>8. ASSUME Monitored(c, k) PROVE Monitored(d, told)
  <2>1. "*" \in Channels
    BY DEF Channels
  <2>2. ~TakesBack(rest, Len(rest), Goodbye("*")) /\ m # Goodbye("*")
    BY <1>1, <1>3, <1>8 DEF Monitored
  <2>3. k.monitor \/ m = Hello("*")
    BY <1>1, <1>4, <1>8 DEF Monitored
  <2>4. Hello("*") = Packet("monitor", "*") /\ Goodbye("*") = Packet("unmonitor", "*")
    BY DEF Hello, Goodbye
  <2>5. told.monitor
    <3>1. CASE m.cmd = "monitor"
      BY <3>1 DEF Told
    <3>2. CASE m.cmd = "unmonitor"
      BY <1>1, <2>2, <2>4, <3>2 DEF ToCore, Packet
    <3>3. CASE m.cmd \notin {"monitor", "unmonitor"}
      <4>1. k.monitor
        BY <2>3, <2>4, <3>3 DEF Packet
      <4> QED
        BY <3>3, <4>1 DEF Told
    <3> QED
      BY <3>1, <3>2, <3>3
  <2> HIDE DEF told
  <2> QED
    BY <1>2, <2>2, <2>5 DEF Monitored
<1>9. Coming(c) # <<>> /\ Coming(d) = Tail(Coming(c))
  BY <1>1, <1>2 DEF rest
<1> QED
  BY <1>7, <1>8, <1>9 DEF d, m, rest

-------------------------------------------------------------------------------
(* The invariants. *)

(* What a connection and the core know of each other, while it talks.      *)
Attended(c, k, h) ==
  /\ Monitor \in Range(c.consumers)
  /\ Talks(c) => Agrees(c, k, h) /\ Monitored(c, k)

(* Each connection, from the time before it is made until it is deleted.   *)
ConnIsSound(s) ==
  /\ Sound(conn[s])
  /\ life[s] = "none" => conn[s] = NewConnection /\ core[s] = NewClient
  /\ life[s] = "alive" => Attended(conn[s], core[s], heardEarly[s])
  /\ life[s] \in {"doomed", "dead"} => conn[s].socket = "unconnected"
ConnsAreSound == \A s \in Servers : ConnIsSound(s)

(* There is one connection, and the chats and what is enabled belong to it. *)
WindowBelongs ==
  /\ enabled => server # NoServer /\ conn[server].socket \in {"connected", "closing"}
  /\ server # NoServer => life[server] = "alive"
  /\ \A s \in Servers : life[s] = "alive" => s = server
  /\ \A id \in DOMAIN chats : chats[id] = server
  /\ currentChannel # NoId => currentChannel \in DOMAIN chats

(* The models of the window are the consumers of its connection.           *)
ModelsBelong ==
  server # NoServer =>
    \A id \in ChatIds :
      /\ id \in DOMAIN chats <=> Object("chat", id) \in Range(conn[server].consumers)
      /\ Object("users", id) \in Range(conn[server].consumers) => id \in DOMAIN users

(* A model of the settings is there only while they are open.              *)
SettingsBelong ==
  /\ dialog = NoServer => fault # "none"
  /\ fault # "none" => dialog # "closed"
  /\ \A s \in Servers :
       /\ ServersList \in Range(conn[s].consumers) => Settings \in Range(conn[s].consumers)
       /\ Settings \in Range(conn[s].consumers) => dialog = s

Inv == TypeOK /\ ConnsAreSound /\ WindowBelongs /\ ModelsBelong /\ SettingsBelong

(* What of a connection is not on its way.                                 *)
SameConsumers(c, d) == d.consumers = c.consumers /\ d.subscriptions = c.subscriptions
SameKnowledge(c, d) ==
  /\ \A k, h : Agrees(c, k, h) => Agrees(d, k, h)
  /\ \A k : Monitored(c, k) => Monitored(d, k)

(* More has come from the core, or less. *)
LEMMA HearingKeeps ==
  ASSUME NEW c, Sound(c), NEW q \in Seq(FromCore)
  PROVE  LET d == [c EXCEPT !.in = q]
         IN  /\ Sound(d) /\ d.socket = c.socket /\ d.in = q /\ SameConsumers(c, d)
             /\ Coming(d) = Coming(c) /\ SameKnowledge(c, d)
<1> DEFINE d == [c EXCEPT !.in = q]
<1>1. IsConnection(c) /\ Finds(c) /\ QuietBefore(c)
  BY DEF Sound
<1>2. /\ IsConnection(d) /\ d.socket = c.socket /\ d.in = q /\ d.out = c.out
      /\ d.queue = c.queue /\ SameConsumers(c, d)
  BY <1>1 DEF IsConnection, Fields, SameConsumers
<1> HIDE DEF d
<1>3. Coming(d) = Coming(c)
  BY <1>2 DEF Coming
<1>4. Sound(d)
  BY <1>1, <1>2 DEF Sound, Finds, QuietBefore, SameConsumers
<1>5. SameKnowledge(c, d)
  BY <1>2, <1>3 DEF SameKnowledge, SameConsumers, Agrees, Knows, Monitored, Entry
<1> QED
  BY <1>2, <1>3, <1>4, <1>5 DEF d

(* The socket begins to connect, or is asked to close. *)
LEMMA SocketKeeps ==
  ASSUME NEW c, Sound(c), NEW x,
         \/ c.socket = "idle" /\ x = "connecting"
         \/ c.socket = "connected" /\ x = "closing"
  PROVE  LET d == [c EXCEPT !.socket = x]
         IN  /\ Sound(d) /\ d.socket = x /\ SameConsumers(c, d)
             /\ Coming(d) = Coming(c) /\ SameKnowledge(c, d)
<1> DEFINE d == [c EXCEPT !.socket = x]
<1>1. IsConnection(c) /\ Finds(c) /\ QuietBefore(c)
  BY DEF Sound
<1>2. /\ IsConnection(d) /\ d.socket = x /\ d.out = c.out
      /\ d.queue = c.queue /\ SameConsumers(c, d)
  BY <1>1 DEF IsConnection, Fields, SameConsumers
<1> HIDE DEF d
<1>3. Coming(d) = Coming(c)
  BY <1>2 DEF Coming
<1>4. Sound(d)
  BY <1>1, <1>2 DEF Sound, Finds, QuietBefore, SameConsumers
<1>5. SameKnowledge(c, d)
  BY <1>2, <1>3 DEF SameKnowledge, SameConsumers, Agrees, Knows, Monitored, Entry
<1> QED
  BY <1>2, <1>3, <1>4, <1>5 DEF d

(* The core has read a packet. *)
LEMMA ReadingKeeps ==
  ASSUME NEW c, Sound(c), c.socket \in {"connected", "closing"}, c.out # <<>>
  PROVE  LET d == [c EXCEPT !.out = Tail(@)]
         IN  /\ Sound(d) /\ d.socket = c.socket /\ d.consumers = c.consumers
             /\ Coming(c) = c.out /\ Coming(d) = Tail(c.out)
<1> DEFINE rest == Tail(c.out)
           d == [c EXCEPT !.out = rest]
<1>1. IsConnection(c) /\ Finds(c) /\ QuietBefore(c)
  BY DEF Sound
<1>2. rest \in Seq(ToCore)
  BY <1>1, HeadTailProperties DEF IsConnection
<1> HIDE DEF rest
<1>3. /\ IsConnection(d) /\ d.socket = c.socket /\ d.out = rest
      /\ SameConsumers(c, d) /\ Coming(c) = c.out /\ Coming(d) = rest
  BY <1>1, <1>2 DEF IsConnection, Fields, SameConsumers, Coming
<1> HIDE DEF d
<1>4. Sound(d)
  BY <1>1, <1>3 DEF Sound, Finds, QuietBefore, SameConsumers
<1> QED
  BY <1>3, <1>4 DEF d, rest, SameConsumers

LEMMA ToldHasType ==
  ASSUME NEW k \in [channels : SUBSET CoreChannels, monitor : BOOLEAN], NEW m \in ToCore
  PROVE  Told(k, m) \in [channels : SUBSET CoreChannels, monitor : BOOLEAN]
<1>1. CASE m.cmd = "subscribe"
  BY <1>1 DEF Told, ToCore
<1>2. CASE m.cmd = "unsubscribe"
  BY <1>2 DEF Told, ToCore
<1>3. CASE m.cmd \in {"monitor", "unmonitor"}
  BY <1>3 DEF Told, ToCore
<1>4. CASE m.cmd \notin {"subscribe", "unsubscribe", "monitor", "unmonitor"}
  BY <1>4 DEF Told, ToCore
<1> QED
  BY <1>1, <1>2, <1>3, <1>4

(* What has been heard too early only grows while the connection lives. *)
LEMMA HeardMore ==
  ASSUME NEW c, NEW k, NEW h, NEW g, Agrees(c, k, h), h \subseteq g
  PROVE  Agrees(c, k, g)
BY DEF Agrees

-------------------------------------------------------------------------------
(* One connection at a time. *)

CoreType == [channels : SUBSET CoreChannels, monitor : BOOLEAN]
Lives == {"none", "alive", "doomed", "dead"}

(* TypeOK without the connections, which are sound.                        *)
ConnTyped ==
  /\ DOMAIN conn = Servers
  /\ core \in [Servers -> CoreType]
  /\ life \in [Servers -> Lives]
  /\ broadcasts \in 0..MaxBroadcasts
  /\ heardEarly \in [Servers -> SUBSET Channels]
  /\ fault \in {"none", "deletedTwice", "noServer"}
WindowTyped ==
  /\ server \in Servers \cup {NoServer}
  /\ DOMAIN chats \subseteq ChatIds /\ Range(chats) \subseteq Servers
  /\ DOMAIN users \subseteq ChatIds /\ Range(users) \subseteq Servers
  /\ currentChannel \in ChatIds \cup {NoId}
  /\ currentUsers \in ChatIds \cup {NoId}
  /\ enabled \in BOOLEAN
  /\ dialog \in Servers \cup {NoServer, "closed"}
  /\ acts \in 0..MaxActs

LEMMA TypesApart == TypeOK => ConnTyped /\ WindowTyped
BY DEF TypeOK, ConnTypeOK, ConnTyped, WindowTyped, CoreType, Lives

LEMMA TypesTogether == ConnsAreSound /\ ConnTyped /\ WindowTyped => TypeOK
<1> SUFFICES ASSUME ConnsAreSound, ConnTyped, WindowTyped PROVE TypeOK
  OBVIOUS
<1>1. \A s \in Servers : IsConnection(conn[s])
  BY DEF ConnsAreSound, ConnIsSound, Sound
<1>2. ConnTypeOK
  BY <1>1 DEF ConnTyped, ConnTypeOK, CoreType, Lives
<1> QED
  BY <1>2 DEF TypeOK, WindowTyped

LEMMA TypesTogetherNext == (ConnsAreSound /\ ConnTyped /\ WindowTyped => TypeOK)'
BY TypesTogether, PTL

(* All but one connection is as it was.                                    *)
Alone(s) ==
  /\ DOMAIN conn' = Servers
  /\ \A k \in Servers \ {s} :
       /\ conn'[k] = conn[k] /\ core'[k] = core[k]
       /\ life'[k] = life[k] /\ heardEarly'[k] = heardEarly[k]

(* What a step may mean for what is on the way to the core.                *)
Moves(c, d) ==
  \/ (Talks(d) <=> Talks(c)) /\ Emits(c, d)
  \/ (Talks(d) <=> Talks(c)) /\ Coming(c) # <<>> /\ Coming(d) = Tail(Coming(c))
  \/ ~Talks(d) /\ Coming(d) \in {Coming(c), <<>>}

OneMoves ==
  \/ UNCHANGED conn
  \/ \E s \in Servers : /\ Moves(conn[s], conn'[s])
                        /\ \A k \in Servers \ {s} : conn'[k] = conn[k]

LEMMA OneIsSound ==
  ASSUME ConnsAreSound, NEW s \in Servers, Alone(s), ConnIsSound(s)'
  PROVE  ConnsAreSound'
<1>1. ASSUME NEW k \in Servers \ {s}
      PROVE  ConnIsSound(k)'
  BY <1>1 DEF Alone, ConnsAreSound, ConnIsSound
<1> QED
  BY <1>1 DEF ConnsAreSound

(* A step that lets the consumers and the window be. *)
LEMMA QuietStep ==
  ASSUME Inv, NEW s \in Servers, Alone(s), ConnIsSound(s)',
         conn'[s].consumers = conn[s].consumers, life' = life,
         ConnTyped', acts' \in 0..MaxActs,
         UNCHANGED <<fault, server, chats, users, currentChannel, currentUsers, dialog>>,
         enabled' \in BOOLEAN,
         enabled' => server # NoServer /\ conn'[server].socket \in {"connected", "closing"}
  PROVE  Inv'
<1>1. ConnsAreSound'
  BY OneIsSound DEF Inv
<1>2. \A k \in Servers : conn'[k].consumers = conn[k].consumers
  BY DEF Alone
<1>3. TypeOK'
  <2>1. WindowTyped
    BY TypesApart DEF Inv
  <2>2. WindowTyped'
    BY <2>1 DEF WindowTyped
  <2> QED
    BY <1>1, <2>2, TypesTogetherNext
<1>4. WindowBelongs'
  BY DEF Inv, WindowBelongs
<1>5. ModelsBelong'
  <2>1. server # NoServer => server \in Servers
    BY TypesApart DEF Inv, WindowTyped
  <2> QED
    BY <1>2, <2>1 DEF Inv, ModelsBelong
<1>6. SettingsBelong'
  BY <1>2 DEF Inv, SettingsBelong
<1> QED
  BY <1>1, <1>3, <1>4, <1>5, <1>6 DEF Inv

(* The core reads a packet. *)
LEMMA FromClientStep ==
  ASSUME Inv, NEW s \in Servers, FromClient(s), UNCHANGED windowVars
  PROVE  Inv' /\ OneMoves
<1> DEFINE c == conn[s]
           d == [c EXCEPT !.out = Tail(@)]
           told == Told(core[s], Head(c.out))
<1> ConnTyped /\ WindowTyped
  BY TypesApart DEF Inv
<1>1. /\ Sound(c) /\ life[s] = "alive" /\ c.out # <<>>
      /\ c.socket \in {"connected", "closing"} /\ core[s] \in CoreType
      /\ Attended(c, core[s], heardEarly[s])
  BY DEF Inv, ConnTyped, ConnsAreSound, ConnIsSound, FromClient, Carries, Usable
<1>2. conn' = [conn EXCEPT ![s] = d] /\ core' = [core EXCEPT ![s] = told]
  BY DEF FromClient
<1>3. UNCHANGED <<life, broadcasts, heardEarly, fault>>
  BY DEF FromClient
<1>4. /\ Sound(d) /\ d.socket = c.socket /\ d.consumers = c.consumers
      /\ Coming(c) = c.out /\ Coming(d) = Tail(c.out)
  BY <1>1, ReadingKeeps
<1>5. c.socket = "connected" =>
        /\ \A h : Agrees(c, core[s], h) => Agrees(d, told, h)
        /\ Monitored(c, core[s]) => Monitored(d, told)
  BY <1>1, ToldAgrees DEF CoreType
<1>6. told \in CoreType
  <2>1. Head(c.out) \in ToCore
    BY <1>1, HeadTailProperties DEF Sound, IsConnection
  <2> QED
    BY <1>1, <2>1, ToldHasType DEF CoreType
<1> HIDE DEF d, told
<1>7. Alone(s) /\ conn'[s] = d /\ core'[s] = told
  BY <1>2, <1>3 DEF Alone, ConnTyped
<1>8. Attended(d, told, heardEarly[s])
  <2>1. Talks(d) => Talks(c) /\ c.socket = "connected"
    BY <1>1, <1>4 DEF Talks
  <2> QED
    BY <1>1, <1>4, <1>5, <2>1 DEF Attended
<1>9. ConnIsSound(s)'
  BY <1>1, <1>3, <1>4, <1>7, <1>8 DEF ConnIsSound
<1>10. Inv'
  <2>1. acts' \in 0..MaxActs /\ enabled' \in BOOLEAN
    BY DEF WindowTyped, windowVars
  <2>2. ConnTyped'
    BY <1>2, <1>3, <1>6 DEF ConnTyped
  <2>3. enabled' => server # NoServer /\ conn'[server].socket \in {"connected", "closing"}
    BY <1>1, <1>4, <1>7 DEF Inv, WindowBelongs, windowVars
  <2>4. UNCHANGED <<fault, server, chats, users, currentChannel, currentUsers, dialog>>
    BY <1>3 DEF windowVars
  <2> QED
    BY <1>3, <1>4, <1>7, <1>9, <2>1, <2>2, <2>3, <2>4, QuietStep
<1>11. OneMoves
  <2>1. Moves(c, d)
    BY <1>1, <1>4 DEF Moves, Talks
  <2> QED
    BY <1>7, <2>1 DEF OneMoves, Alone
<1> QED
  BY <1>10, <1>11

(* The core passes something on. *)
LEMMA ReceiveStep ==
  ASSUME Inv, NEW s \in Servers, NEW p \in FromCore, Receive(s, p), UNCHANGED windowVars
  PROVE  Inv' /\ OneMoves
<1> DEFINE c == conn[s]
           q == Append(c.in, p)
           d == [c EXCEPT !.in = q]
<1> ConnTyped /\ WindowTyped
  BY TypesApart DEF Inv
<1>1. /\ Sound(c) /\ life[s] = "alive" /\ c.in \in Seq(FromCore)
      /\ Attended(c, core[s], heardEarly[s])
  BY DEF Inv, ConnsAreSound, ConnIsSound, Receive, Carries, Usable, Sound, IsConnection
<1>2. conn' = [conn EXCEPT ![s] = d]
  BY DEF Receive
<1>3. UNCHANGED <<core, life, heardEarly, fault>> /\ broadcasts' \in 0..MaxBroadcasts
  BY MaxBroadcastsAssumption DEF Receive, ConnTyped
<1>4. q \in Seq(FromCore)
  BY <1>1, AppendProperties
<1> HIDE DEF q
<1>5. /\ Sound(d) /\ d.socket = c.socket /\ SameConsumers(c, d)
      /\ Coming(d) = Coming(c) /\ SameKnowledge(c, d)
  BY <1>1, <1>4, HearingKeeps
<1> HIDE DEF d
<1>6. Alone(s) /\ conn'[s] = d
  BY <1>2, <1>3 DEF Alone, ConnTyped
<1>7. Attended(d, core[s], heardEarly[s])
  BY <1>1, <1>5 DEF Attended, SameConsumers, SameKnowledge, Talks
<1>8. ConnIsSound(s)'
  BY <1>1, <1>3, <1>5, <1>6, <1>7 DEF ConnIsSound
<1>9. Inv'
  <2>1. /\ ConnTyped' /\ acts' \in 0..MaxActs /\ enabled' \in BOOLEAN
    BY <1>2, <1>3 DEF ConnTyped, WindowTyped, windowVars
  <2>2. enabled' => server # NoServer /\ conn'[server].socket \in {"connected", "closing"}
    BY <1>1, <1>5, <1>6 DEF Inv, WindowBelongs, windowVars
  <2>3. UNCHANGED <<fault, server, chats, users, currentChannel, currentUsers, dialog>>
    BY <1>3 DEF windowVars
  <2> QED
    BY <1>3, <1>5, <1>6, <1>8, <2>1, <2>2, <2>3, QuietStep DEF SameConsumers
<1>10. OneMoves
  <2>1. Moves(c, d)
    <3>1. <<>> \in Seq(ToCore) /\ Coming(c) \o <<>> = Coming(c)
      BY <1>1, ComingIsSequence DEF Sound
    <3> QED
      BY <1>5, <3>1 DEF Moves, Talks, Emits
  <2> QED
    BY <1>6, <2>1 DEF OneMoves, Alone
<1> QED
  BY <1>9, <1>10

(* A packet comes to the consumers of its channel. *)
LEMMA SocketDataReadyStep ==
  ASSUME Inv, NEW s \in Servers, SocketDataReady(s), UNCHANGED windowVars
  PROVE  Inv' /\ OneMoves
<1> DEFINE c == conn[s]
           p == Head(c.in)
           q == Tail(c.in)
           b == [c EXCEPT !.in = q]
           d == Consumed(b, p)
           h == heardEarly[s]
           g == IF Entry(c, p.channel) # {} THEN h ELSE h \cup {p.channel}
<1> ConnTyped /\ WindowTyped
  BY TypesApart DEF Inv
<1>1. /\ Sound(c) /\ life[s] = "alive" /\ c.in # <<>> /\ c.in \in Seq(FromCore)
      /\ Attended(c, core[s], h) /\ h \in SUBSET Channels
  BY DEF Inv, ConnsAreSound, ConnIsSound, SocketDataReady, Carries, Usable, Sound,
         IsConnection, ConnTyped
<1>2. conn' = [conn EXCEPT ![s] = d] /\ UNCHANGED <<core, life, broadcasts, fault>>
  BY DEF SocketDataReady
<1>3. heardEarly' = [heardEarly EXCEPT ![s] = g]
  <2>1. heardEarly' = IF Entry(c, p.channel) # {} THEN heardEarly
                      ELSE [heardEarly EXCEPT ![s] = @ \cup {p.channel}]
    BY DEF SocketDataReady
  <2> QED
    BY <2>1 DEF ConnTyped
<1>4. p \in FromCore /\ q \in Seq(FromCore) /\ p.channel \in Channels
  <2>1. p \in FromCore /\ q \in Seq(FromCore)
    BY <1>1, HeadTailProperties
  <2> QED
    BY <2>1 DEF FromCore, Channels
<1>5. h \subseteq g /\ g \in SUBSET Channels /\ (Entry(c, p.channel) = {} => p.channel \in g)
  BY <1>1, <1>4
<1> HIDE DEF g, p, q, h
<1>6. /\ Sound(b) /\ b.socket = c.socket /\ SameConsumers(c, b)
      /\ Coming(b) = Coming(c) /\ SameKnowledge(c, b)
  BY <1>1, <1>4, HearingKeeps
<1> HIDE DEF b
<1>7. /\ Sound(d) /\ d.socket = b.socket /\ d.consumers = b.consumers /\ Emits(b, d)
      /\ Talks(b) =>
           /\ \A k, f : /\ Agrees(b, k, f)
                        /\ Entry(b, p.channel) = {} => p.channel \in f
                        => Agrees(d, k, f)
           /\ \A k : Monitored(b, k) => Monitored(d, k)
  BY <1>4, <1>6, ConsumedKeeps
<1> HIDE DEF d
<1>8. /\ Alone(s) /\ conn'[s] = d /\ heardEarly'[s] = g
  BY <1>2, <1>3 DEF Alone, ConnTyped
<1>9. Attended(d, core[s], g)
  <2>1. Monitor \in Range(d.consumers)
    BY <1>1, <1>6, <1>7 DEF Attended, SameConsumers
  <2>2. ASSUME Talks(d)
        PROVE  Agrees(d, core[s], g) /\ Monitored(d, core[s])
    <3>1. Talks(b) /\ Talks(c)
      BY <1>6, <1>7, <2>2 DEF Talks
    <3>2. Agrees(b, core[s], h) /\ Monitored(b, core[s])
      BY <1>1, <1>6, <3>1 DEF Attended, SameKnowledge
    <3>3. Agrees(b, core[s], g)
      BY <1>5, <3>2, HeardMore
    <3>4. Entry(b, p.channel) = {} => p.channel \in g
      BY <1>5, <1>6 DEF Entry, SameConsumers
    <3> QED
      BY <1>7, <3>1, <3>2, <3>3, <3>4
  <2> QED
    BY <2>1, <2>2 DEF Attended
<1>10. ConnIsSound(s)'
  BY <1>1, <1>2, <1>7, <1>8, <1>9 DEF ConnIsSound
<1>11. Inv'
  <2>1. acts' \in 0..MaxActs /\ enabled' \in BOOLEAN
    BY DEF WindowTyped, windowVars
  <2>2. ConnTyped'
    BY <1>2, <1>3, <1>5 DEF ConnTyped
  <2>3. enabled' => server # NoServer /\ conn'[server].socket \in {"connected", "closing"}
    BY <1>6, <1>7, <1>8 DEF Alone, Inv, WindowBelongs, WindowTyped, windowVars
  <2>4. UNCHANGED <<fault, server, chats, users, currentChannel, currentUsers, dialog>>
    BY <1>2 DEF windowVars
  <2>5. conn'[s].consumers = conn[s].consumers
    BY <1>6, <1>7, <1>8 DEF SameConsumers
  <2> QED
    BY <1>2, <1>8, <1>10, <2>1, <2>2, <2>3, <2>4, <2>5, QuietStep
<1>12. OneMoves
  <2>1. Moves(c, d)
    BY <1>6, <1>7 DEF Moves, Talks, Emits
  <2> QED
    BY <1>8, <2>1 DEF OneMoves, Alone
<1> QED
  BY <1>11, <1>12

(* The connection has been made. *)
LEMMA EstablishedStep ==
  ASSUME Inv, NEW s \in Servers, Established(s)
  PROVE  Inv' /\ OneMoves
<1> DEFINE c == conn[s]
           d == Flush([c EXCEPT !.socket = "connected"])
<1> ConnTyped /\ WindowTyped
  BY TypesApart DEF Inv
<1>1. /\ Sound(c) /\ life[s] = "alive" /\ c.socket = "connecting" /\ s = server
      /\ Attended(c, core[s], heardEarly[s])
  BY DEF Inv, ConnsAreSound, ConnIsSound, Established, Usable, WindowBelongs
<1>2. conn' = [conn EXCEPT ![s] = d]
  BY DEF Established, Connected
<1>3. /\ UNCHANGED <<core, life, broadcasts, heardEarly>> /\ enabled' = TRUE /\ acts' = acts
      /\ UNCHANGED <<fault, server, chats, users, currentChannel, currentUsers, dialog>>
  BY DEF Established
<1>4. /\ Sound(d) /\ d.socket = "connected" /\ d.consumers = c.consumers
      /\ Talks(c) /\ Talks(d) /\ Coming(d) = Coming(c)
      /\ \A k, h : Agrees(c, k, h) => Agrees(d, k, h)
      /\ \A k : Monitored(c, k) => Monitored(d, k)
  BY <1>1, FlushKeeps
<1> HIDE DEF d
<1>5. Alone(s) /\ conn'[s] = d
  BY <1>2, <1>3 DEF Alone, ConnTyped
<1>6. ConnIsSound(s)'
  BY <1>1, <1>3, <1>4, <1>5 DEF ConnIsSound, Attended
<1>7. Inv'
  <2>1. ConnTyped' /\ acts' \in 0..MaxActs /\ enabled' \in BOOLEAN
    BY <1>2, <1>3 DEF ConnTyped, WindowTyped
  <2>2. enabled' => server # NoServer /\ conn'[server].socket \in {"connected", "closing"}
    BY <1>1, <1>4, <1>5, ServersAssumption
  <2> QED
    BY <1>3, <1>4, <1>5, <1>6, <2>1, <2>2, QuietStep
<1>8. OneMoves
  <2>1. <<>> \in Seq(ToCore) /\ Coming(c) \o <<>> = Coming(c)
    BY <1>1, ComingIsSequence DEF Sound
  <2>2. Moves(c, d)
    BY <1>4, <2>1 DEF Moves, Emits
  <2> QED
    BY <1>5, <2>2 DEF OneMoves, Alone
<1> QED
  BY <1>7, <1>8

(* The user disconnects. *)
LEMMA DisconnectFromServerStep ==
  ASSUME Inv, DisconnectFromServer
  PROVE  Inv' /\ OneMoves
<1> DEFINE s == server
           c == conn[s]
           d == [c EXCEPT !.socket = "closing"]
<1> ConnTyped /\ WindowTyped
  BY TypesApart DEF Inv
<1>1. s \in Servers /\ enabled
  BY DEF DisconnectFromServer, WindowTyped
<1>2. /\ Sound(c) /\ life[s] = "alive" /\ c.socket = "connected"
      /\ Attended(c, core[s], heardEarly[s])
  BY <1>1 DEF Inv, ConnsAreSound, ConnIsSound, DisconnectFromServer, WindowBelongs
<1>3. conn' = [conn EXCEPT ![s] = d]
  BY DEF DisconnectFromServer, DisconnectFromHost
<1>4. UNCHANGED <<core, life, broadcasts, heardEarly, fault, windowVars>>
  BY DEF DisconnectFromServer
<1>5. /\ Sound(d) /\ d.socket = "closing" /\ SameConsumers(c, d) /\ Coming(d) = Coming(c)
  BY <1>2, SocketKeeps
<1> HIDE DEF d
<1>6. Alone(s) /\ conn'[s] = d
  BY <1>1, <1>3, <1>4 DEF Alone, ConnTyped
<1>7. \A k \in {s} : ConnIsSound(k)'
  BY <1>2, <1>4, <1>5, <1>6 DEF ConnIsSound, Attended, SameConsumers, Talks
<1>8. Inv'
  <2>1. ConnTyped' /\ acts' \in 0..MaxActs /\ enabled' \in BOOLEAN
    BY <1>3, <1>4 DEF ConnTyped, WindowTyped, windowVars
  <2>2. conn'[s].consumers = conn[s].consumers /\ conn'[s].socket \in {"connected", "closing"}
    BY <1>5, <1>6 DEF SameConsumers
  <2>3. PICK k \in Servers : k = s
    BY <1>1
  <2>4. ConnIsSound(k)' /\ Alone(k) /\ conn'[k].consumers = conn[k].consumers
    BY <1>6, <1>7, <2>2, <2>3
  <2>5. /\ UNCHANGED <<fault, server, chats, users, currentChannel, currentUsers, dialog>>
        /\ life' = life
    BY <1>4 DEF windowVars
  <2>6. enabled' => server # NoServer /\ conn'[server].socket \in {"connected", "closing"}
    BY <1>1, <2>2, ServersAssumption
  <2> QED
    BY <2>1, <2>4, <2>5, <2>6, QuietStep
<1>9. OneMoves
  <2>1. Moves(c, d)
    BY <1>5 DEF Moves, Talks
  <2> QED
    BY <1>1, <1>6, <2>1 DEF OneMoves, Alone
<1> QED
  BY <1>8, <1>9
ChannelsList == Object("channels", NoId)

LEMMA NobodyYet ==
  /\ Sound(NewConnection) /\ NewConnection.consumers = <<>>
  /\ Talks(NewConnection) /\ NewConnection.socket = "idle"
  /\ DOMAIN NewConnection.subscriptions = {} /\ Coming(NewConnection) = <<>>
  /\ \A h : Agrees(NewConnection, NewClient, h)
<1> DEFINE c == NewConnection
<1>1. /\ DOMAIN c = Fields /\ c.socket = "idle" /\ c.queue = <<>> /\ c.out = <<>>
      /\ c.in = <<>> /\ c.consumers = <<>> /\ DOMAIN c.subscriptions = {}
  BY DEF NewConnection, Fields, Nobody
<1> HIDE DEF c
<1>2. IsConnection(c) /\ QuietBefore(c) /\ Talks(c) /\ Coming(c) = <<>>
  BY <1>1 DEF IsConnection, QuietBefore, Talks, Coming
<1>3. Finds(c)
  BY <1>1 DEF Finds, IsInjective, Range
<1>4. ASSUME NEW h PROVE Agrees(c, NewClient, h)
  <2>1. ASSUME NEW ch PROVE ~Knows(c, NewClient, ch)
    <3>1. ~Says(<<>>, Len(<<>>), Hello(ch), Goodbye(ch)) /\ ch \notin NewClient.channels
      BY SaidAlone DEF NewClient
    <3> QED
      BY <1>2, <3>1, Zenon DEF Knows
  <2> QED
    BY <1>1, <2>1 DEF Agrees
<1> QED
  BY <1>1, <1>2, <1>3, <1>4 DEF Sound, c

(* A connection as the window makes it. *)
LEMMA FirstConsumers ==
  LET w == NewMirror(NewPlain(NewConnection, Monitor), ChannelsList)
  IN  /\ Keeps(NewConnection, w)
      /\ Range(w.consumers) = {Monitor, ChannelsList}
      /\ \A h : Agrees(w, NewClient, h)
      /\ Monitored(w, NewClient)
<1> DEFINE c == NewConnection
           m == NewPlain(c, Monitor)
           w == NewMirror(m, ChannelsList)
<1>1. /\ Monitor \in Objects /\ ChannelsList \in Objects /\ Monitor # Settings
      /\ ChannelsList # Settings /\ ChannelsList # Monitor
      /\ ChannelOf(Monitor) = "*" /\ ChannelOf(ChannelsList) = "chat:channels"
      /\ "chat:channels" \in CoreChannels
  BY DEF Monitor, ChannelsList, Settings, Objects, Object, Singles, ChannelOf, CoreChannels
<1>2. /\ Sound(c) /\ Range(c.consumers) = {} /\ Talks(c) /\ Coming(c) = <<>>
      /\ DOMAIN c.subscriptions = {} /\ \A h : Agrees(c, NewClient, h)
  <2>1. Range(<<>>) = {}
    BY DEF Range
  <2> QED
    BY <2>1, NobodyYet
<1> HIDE DEF c
<1>3. /\ Keeps(c, m) /\ Range(m.consumers) = {Monitor}
      /\ Coming(m) = <<>> \o <<Hello("*")>>
  <2>1. Monitor \notin Range(c.consumers) /\ ChannelOf(Monitor) \notin DOMAIN c.subscriptions
    BY <1>2
  <2>2. /\ Keeps(c, m) /\ Range(m.consumers) = Range(c.consumers) \cup {Monitor}
        /\ Coming(m) = Coming(c) \o <<Hello(ChannelOf(Monitor))>>
    BY <1>1, <1>2, <2>1, NewPlainKeeps
  <2> HIDE DEF m
  <2> QED
    BY <1>1, <1>2, <2>2
<1> HIDE DEF m
<1>4. /\ Keeps(m, w) /\ Range(w.consumers) = {Monitor, ChannelsList}
  <2>1. Sound(m)
    BY <1>3 DEF Keeps
  <2> QED
    BY <1>1, <1>3, <2>1, NewMirrorKeeps
<1> HIDE DEF w
<1>5. Talks(m)
  BY <1>2, <1>3 DEF Keeps, Talks
<1>6. Monitored(m, NewClient)
  <2>1. Hello("*") \in ToCore /\ "*" \in Channels
    BY ChannelsAreApart DEF Channels
  <2>2. Coming(m) = <<Hello("*")>>
    BY <1>3, <2>1
  <2>3. Hello("*") # Goodbye("*")
    BY <2>1, ChannelsAreApart
  <2>4. ~TakesBack(<<Hello("*")>>, Len(<<Hello("*")>>), Goodbye("*"))
    BY <2>3, SaidAlone
  <2>5. <<Hello("*")>> # <<>> /\ <<Hello("*")>>[1] = Hello("*")
    OBVIOUS
  <2> QED
    BY <2>2, <2>4, <2>5, Zenon DEF Monitored
<1>7. Keeps(c, w)
  BY <1>2, <1>3, <1>4, KeepsTwice DEF Sound
<1>8. \A h : Agrees(w, NewClient, h)
  BY <1>2, <1>7 DEF Keeps
<1>9. Monitored(w, NewClient)
  BY <1>4, <1>5, <1>6 DEF Keeps
<1> QED
  BY <1>4, <1>7, <1>8, <1>9 DEF c, m, w

LEMMA KindsOfObjects ==
  /\ \A id : Object("chat", id) \notin {Monitor, ChannelsList, Settings, ServersList}
  /\ \A id : Object("users", id) \notin {Monitor, ChannelsList, Settings, ServersList}
  /\ \A i, j : /\ Object("chat", i) # Object("users", j)
               /\ Object("chat", i) = Object("chat", j) => i = j
               /\ Object("users", i) = Object("users", j) => i = j
  /\ Settings \notin {Monitor, ChannelsList, ServersList}
  /\ ServersList \notin {Monitor, ChannelsList}
BY DEF Object, Monitor, ChannelsList, Settings, ServersList

(* The window makes a connection. *)
LEMMA ConnectToServerStep ==
  ASSUME Inv, NEW s \in Servers, ConnectToServer(s)
  PROVE  Inv' /\ OneMoves
<1> DEFINE w == NewMirror(NewPlain(NewConnection, Monitor), ChannelsList)
           d == [w EXCEPT !.socket = "connecting"]
<1> ConnTyped /\ WindowTyped
  BY TypesApart DEF Inv
<1>1. /\ conn[s] = NewConnection /\ core[s] = NewClient
      /\ server = NoServer /\ ~enabled /\ life[s] = "none"
  BY DEF Inv, ConnsAreSound, ConnIsSound, ConnectToServer
<1>2. /\ conn' = [conn EXCEPT ![s] = d] /\ life' = [life EXCEPT ![s] = "alive"] /\ server' = s
      /\ UNCHANGED <<core, broadcasts, heardEarly, fault, chats, users, currentChannel,
                     currentUsers, enabled, dialog, acts>>
  BY <1>1 DEF ConnectToServer, Monitor, ChannelsList
<1>3. /\ Keeps(NewConnection, w) /\ Range(w.consumers) = {Monitor, ChannelsList}
      /\ \A h : Agrees(w, NewClient, h)
      /\ Monitored(w, NewClient)
  BY FirstConsumers
<1> HIDE DEF w
<1>4. /\ Sound(d) /\ d.socket = "connecting" /\ SameConsumers(w, d)
      /\ Coming(d) = Coming(w) /\ SameKnowledge(w, d)
  <2>1. Sound(w) /\ w.socket = "idle"
    BY <1>3, NobodyYet DEF Keeps
  <2> QED
    BY <2>1, SocketKeeps
<1> HIDE DEF d
<1>5. Alone(s) /\ conn'[s] = d /\ core'[s] = NewClient /\ life'[s] = "alive"
  BY <1>1, <1>2 DEF Alone, ConnTyped
<1>6. Range(d.consumers) = {Monitor, ChannelsList}
  BY <1>3, <1>4 DEF SameConsumers
<1>7. ConnIsSound(s)'
  BY <1>3, <1>4, <1>5, <1>6 DEF ConnIsSound, Attended, SameKnowledge
<1>8. ConnsAreSound'
  BY <1>5, <1>7, OneIsSound DEF Inv
<1>9. TypeOK'
  <2>1. ConnTyped'
    BY <1>2 DEF ConnTyped, Lives
  <2>2. WindowTyped'
    BY <1>2 DEF WindowTyped
  <2> QED
    BY <1>8, <2>1, <2>2, TypesTogetherNext
<1>10. DOMAIN chats = {}
  <2>1. ASSUME NEW id \in DOMAIN chats PROVE FALSE
    <3>1. chats[id] = NoServer /\ chats[id] \in Servers
      BY <1>1 DEF Inv, WindowBelongs, WindowTyped, Range
    <3> QED
      BY <3>1, ServersAssumption
  <2> QED
    BY <2>1
<1>11. WindowBelongs'
  <2>1. ASSUME NEW k \in Servers, life'[k] = "alive" PROVE k = s
    <3>1. CASE k # s
      <4>1. k = NoServer
        BY <1>1, <1>5, <2>1, <3>1 DEF Alone, Inv, WindowBelongs
      <4> QED
        BY <4>1, ServersAssumption
    <3> QED
      BY <3>1
  <2> QED
    BY <1>1, <1>2, <1>5, <1>10, <2>1 DEF Inv, WindowBelongs
<1>12. ModelsBelong'
  BY <1>2, <1>5, <1>6, <1>10, KindsOfObjects DEF ModelsBelong
<1>13. SettingsBelong'
  <2>1. \A k \in Servers \ {s} : conn'[k] = conn[k]
    BY <1>5 DEF Alone
  <2> QED
    BY <1>2, <1>5, <1>6, <2>1, KindsOfObjects DEF Inv, SettingsBelong
<1>14. Inv'
  BY <1>8, <1>9, <1>11, <1>12, <1>13 DEF Inv
<1>15. OneMoves
  <2>1. Moves(NewConnection, d)
    BY <1>3, <1>4, NobodyYet DEF Moves, Keeps, Talks, Emits
  <2> QED
    BY <1>1, <1>5, <2>1 DEF OneMoves, Alone
<1> QED
  BY <1>14, <1>15

(* The socket is unconnected, and what was on its way is gone. *)
Cut(c) == [c EXCEPT !.socket = "unconnected", !.out = <<>>, !.in = <<>>]

LEMMA LosingKeeps ==
  ASSUME NEW c, Sound(c)
  PROVE  Sound(Cut(c)) /\ Cut(c).socket = "unconnected" /\ Cut(c).consumers = c.consumers
<1> DEFINE d == Cut(c)
<1>1. IsConnection(c) /\ Finds(c) /\ <<>> \in Seq(ToCore) /\ <<>> \in Seq(FromCore)
  BY DEF Sound
<1>2. IsConnection(d) /\ d.socket = "unconnected" /\ SameConsumers(c, d)
  BY <1>1 DEF Cut, IsConnection, Fields, SameConsumers
<1> HIDE DEF d
<1>3. Sound(d)
  BY <1>1, <1>2 DEF Sound, Finds, QuietBefore, SameConsumers
<1> QED
  BY <1>2, <1>3 DEF d, SameConsumers

(* The connection is lost, and the window takes down what belonged to it. *)
LEMMA LostStep ==
  ASSUME Inv, NEW s \in Servers, Lost(s)
  PROVE  Inv' /\ OneMoves
<1> DEFINE c == conn[s]
           b == Cut(c)
           os == ChatModels
           d == UnregisterConsumers(b, os)
<1> ConnTyped /\ WindowTyped
  BY TypesApart DEF Inv
<1>1. Sound(c) /\ life[s] = "alive" /\ server = s
  BY DEF Inv, ConnsAreSound, ConnIsSound, Lost, Usable, WindowBelongs
<1>2. /\ conn' = [conn EXCEPT ![s] = d] /\ life' = [life EXCEPT ![s] = "doomed"]
      /\ core' = [core EXCEPT ![s] = NewClient]
      /\ enabled' = FALSE /\ chats' = Nothing /\ server' = NoServer /\ currentChannel' = NoId
      /\ UNCHANGED <<broadcasts, heardEarly, fault, users, currentUsers, dialog, acts>>
  BY <1>1 DEF Lost, ChatsKept, Cut
<1>3. Sound(b) /\ b.socket = "unconnected" /\ b.consumers = c.consumers
  BY <1>1, LosingKeeps
<1> HIDE DEF b, os
<1>4. /\ Sound(d) /\ d.socket = "unconnected"
      /\ Range(d.consumers) = Range(c.consumers) \ os
  <2>1. /\ Sound(d) /\ d.socket = b.socket /\ Range(d.consumers) = Range(b.consumers) \ os
    BY <1>3, UnregisterKeeps
  <2> HIDE DEF d
  <2> QED
    BY <1>3, <2>1
<1> HIDE DEF d
<1>5. Alone(s) /\ conn'[s] = d /\ life'[s] = "doomed"
  BY <1>2 DEF Alone, ConnTyped
<1>6. ConnIsSound(s)'
  BY <1>4, <1>5 DEF ConnIsSound
<1>7. ConnsAreSound'
  BY <1>5, <1>6, OneIsSound DEF Inv
<1>8. TypeOK'
  <2>1. NewClient \in CoreType
    BY DEF NewClient, CoreType
  <2>2. ConnTyped'
    <3> HIDE DEF NewClient
    <3> QED
      BY <1>2, <2>1 DEF ConnTyped, Lives
  <2>3. DOMAIN Nothing = {} /\ Range(Nothing) = {}
    BY DEF Nothing, Range
  <2>4. WindowTyped'
    BY <1>2, <2>3 DEF WindowTyped
  <2> QED
    BY <1>7, <2>2, <2>4, TypesTogetherNext
<1>9. WindowBelongs'
  <2>1. ASSUME NEW k \in Servers, life'[k] = "alive" PROVE FALSE
    <3>1. k # s /\ life[k] = "alive"
      BY <1>5, <2>1 DEF Alone
    <3> QED
      BY <1>1, <3>1 DEF Inv, WindowBelongs
  <2>2. DOMAIN Nothing = {}
    BY DEF Nothing
  <2> QED
    BY <1>2, <2>1, <2>2 DEF WindowBelongs
<1>10. ModelsBelong'
  BY <1>2 DEF ModelsBelong
<1>11. SettingsBelong'
  <2>1. Settings \notin os /\ ServersList \notin os
    BY KindsOfObjects DEF ChatModels, os
  <2>2. \A k \in Servers \ {s} : conn'[k] = conn[k]
    BY <1>5 DEF Alone
  <2> QED
    BY <1>2, <1>4, <1>5, <2>1, <2>2 DEF Inv, SettingsBelong
<1>12. Inv'
  BY <1>7, <1>8, <1>9, <1>10, <1>11 DEF Inv
<1>13. OneMoves
  <2>1. Moves(c, d)
    BY <1>4 DEF Moves, Talks, Coming
  <2> QED
    BY <1>5, <2>1 DEF OneMoves, Alone
<1> QED
  BY <1>12, <1>13

(* Nothing is left of a connection that is deleted.  It is deleted once    *)
(* unless the settings are open.                                           *)
LEMMA DeleteServerStep ==
  ASSUME Inv, NEW s \in Servers, DeleteServer(s), UNCHANGED windowVars
  PROVE  Inv' /\ OneMoves
<1> DEFINE c == conn[s]
           os == UNION {Parts(o) : o \in Range(c.consumers)}
           b == UnregisterConsumers(c, os)
           d == [b EXCEPT !.queue = <<>>]
<1> ConnTyped /\ WindowTyped
  BY TypesApart DEF Inv
<1>1. /\ Sound(c) /\ c.socket = "unconnected" /\ life[s] = "doomed" /\ fault = "none"
      /\ server # s
  BY ServersAssumption DEF Inv, ConnsAreSound, ConnIsSound, DeleteServer, WindowBelongs
<1>2. /\ conn' = [conn EXCEPT ![s] = d] /\ life' = [life EXCEPT ![s] = "dead"]
      /\ heardEarly' = [heardEarly EXCEPT ![s] = {}]
      /\ fault' = IF DeletesOnce(c) THEN fault ELSE "deletedTwice"
      /\ UNCHANGED <<core, broadcasts>>
  BY DEF DeleteServer, Teardown
<1>3. Range(c.consumers) \ os = {}
  BY DEF Parts
<1> HIDE DEF os
<1>4. Sound(b) /\ b.socket = "unconnected" /\ Range(b.consumers) = {}
  BY <1>1, <1>3, UnregisterKeeps
<1> HIDE DEF b
<1>5. Sound(d) /\ d.socket = "unconnected" /\ Range(d.consumers) = {}
  <2>1. IsConnection(b) /\ Finds(b) /\ <<>> \in Seq(ToCore)
    BY <1>4 DEF Sound
  <2>2. IsConnection(d) /\ d.socket = "unconnected" /\ SameConsumers(b, d)
    BY <1>4, <2>1 DEF IsConnection, Fields, SameConsumers
  <2> HIDE DEF d
  <2> QED
    BY <1>4, <2>1, <2>2 DEF Sound, Finds, QuietBefore, SameConsumers
<1> HIDE DEF d
<1>6. Alone(s) /\ conn'[s] = d /\ life'[s] = "dead"
  BY <1>2 DEF Alone, ConnTyped
<1>7. ConnIsSound(s)'
  BY <1>5, <1>6 DEF ConnIsSound
<1>8. ConnsAreSound'
  BY <1>6, <1>7, OneIsSound DEF Inv
<1>9. TypeOK'
  <2>1. ConnTyped'
    BY <1>2 DEF ConnTyped, Lives
  <2>2. WindowTyped'
    BY DEF WindowTyped, windowVars
  <2> QED
    BY <1>8, <2>1, <2>2, TypesTogetherNext
<1>10. server # NoServer => conn'[server] = conn[server] /\ life'[server] = life[server]
  BY <1>1, <1>6 DEF Alone, WindowTyped
<1>11. WindowBelongs'
  BY <1>6, <1>10 DEF Inv, Alone, WindowBelongs, windowVars
<1>12. ModelsBelong'
  BY <1>10 DEF Inv, ModelsBelong, windowVars
<1>13. SettingsBelong'
  <2>1. ASSUME ~DeletesOnce(c) PROVE dialog # "closed"
    <3>1. PICK i \in DOMAIN c.consumers, j \in DOMAIN c.consumers :
            i < j /\ c.consumers[j] \in Parts(c.consumers[i])
      BY <2>1 DEF DeletesOnce
    <3>2. c.consumers[j] # c.consumers[i]
      <4>1. c.consumers \in Seq(Objects) /\ IsInjective(c.consumers)
        BY <1>1 DEF Sound, IsConnection, Finds
      <4>2. i \in Nat /\ j \in Nat /\ i # j
        BY <3>1, <4>1, LenProperties
      <4> QED
        BY <4>1, <4>2 DEF IsInjective
    <3>3. c.consumers[i] = Settings
      BY <3>1, <3>2 DEF Parts
    <3>4. Settings \in Range(c.consumers)
      BY <3>3 DEF Range
    <3>5. dialog = s
      BY <3>4 DEF Inv, SettingsBelong
    <3> QED
      BY <3>5, ServersAssumption
  <2>2. \A k \in Servers \ {s} : conn'[k] = conn[k]
    BY <1>6 DEF Alone
  <2>3. dialog # NoServer
    BY <1>1 DEF Inv, SettingsBelong
  <2> QED
    BY <1>1, <1>2, <1>5, <1>6, <2>1, <2>2, <2>3 DEF Inv, SettingsBelong, windowVars
<1>14. Inv'
  BY <1>8, <1>9, <1>11, <1>12, <1>13 DEF Inv
<1>15. OneMoves
  <2>1. Moves(c, d)
    BY <1>5 DEF Moves, Talks, Coming
  <2> QED
    BY <1>6, <2>1 DEF OneMoves, Alone
<1> QED
  BY <1>14, <1>15

LEMMA KeepsItself ==
  ASSUME NEW c, Sound(c)
  PROVE  Keeps(c, c)
<1>1. <<>> \in Seq(ToCore) /\ Coming(c) \o <<>> = Coming(c)
  BY ComingIsSequence DEF Sound
<1> QED
  BY <1>1 DEF Keeps, Emits

(* Something is said or registered on the connection of the window. *)
LEMMA MethodStep ==
  ASSUME Inv, NEW s \in Servers, NEW d, life[s] = "alive",
         conn' = [conn EXCEPT ![s] = d], Keeps(conn[s], d),
         Range(conn[s].consumers) \subseteq Range(d.consumers),
         UNCHANGED <<core, life, heardEarly>>
  PROVE  /\ Alone(s) /\ conn'[s] = d /\ d.socket = conn[s].socket
         /\ ConnIsSound(s)' /\ ConnsAreSound' /\ OneMoves
<1> DEFINE c == conn[s]
<1> ConnTyped
  BY TypesApart DEF Inv
<1>1. Sound(c) /\ Attended(c, core[s], heardEarly[s])
  BY DEF Inv, ConnsAreSound, ConnIsSound
<1>2. Alone(s) /\ conn'[s] = d
  BY DEF Alone, ConnTyped
<1>3. Attended(d, core[s], heardEarly[s])
  BY <1>1 DEF Attended, Keeps, Talks
<1>4. ConnIsSound(s)'
  BY <1>2, <1>3 DEF ConnIsSound, Keeps
<1>5. ConnsAreSound'
  BY <1>2, <1>4, OneIsSound DEF Inv
<1>6. OneMoves
  <2>1. Moves(c, d)
    BY DEF Keeps, Moves, Talks
  <2> QED
    BY <1>2, <2>1 DEF OneMoves, Alone
<1> QED
  BY <1>2, <1>4, <1>5, <1>6 DEF Keeps

(* The user writes into the current chat. *)
LEMMA MessageEnteredStep ==
  ASSUME Inv, MessageEntered
  PROVE  Inv' /\ OneMoves
<1> DEFINE m == Packet("send", currentChannel)
<1> ConnTyped /\ WindowTyped
  BY TypesApart DEF Inv
<1>1. /\ currentChannel \in CoreChannels /\ chats[currentChannel] = server
      /\ server \in Servers /\ life[server] = "alive"
  <2>1. /\ currentChannel \in DOMAIN chats /\ chats[currentChannel] = server
    BY DEF Inv, WindowBelongs, MessageEntered
  <2>2. server \in Servers /\ currentChannel \in ChatIds
    BY <2>1 DEF WindowTyped, Range
  <2> QED
    BY <2>1, <2>2, ServersAssumption DEF CoreChannels, Inv, WindowBelongs
<1>2. PICK s \in Servers : s = server
  BY <1>1
<1> DEFINE d == SendFromConsumer(conn[s], m)
<1>3. conn' = [conn EXCEPT ![s] = d]
  BY <1>1, <1>2 DEF MessageEntered
<1>4. /\ UNCHANGED <<core, life, broadcasts, heardEarly, fault, server, chats, users,
                     currentChannel, currentUsers, enabled, dialog>>
      /\ acts' \in 0..MaxActs
  BY MaxActsAssumption DEF MessageEntered, Acts, WindowTyped
<1>5. Keeps(conn[s], d) /\ d.consumers = conn[s].consumers
  <2>1. Sound(conn[s])
    BY DEF Inv, ConnsAreSound, ConnIsSound
  <2> QED
    BY <1>1, <2>1, SayingKeeps
<1> HIDE DEF d
<1>6. /\ Alone(s) /\ conn'[s] = d /\ d.socket = conn[s].socket /\ ConnIsSound(s)' /\ OneMoves
  BY <1>1, <1>2, <1>3, <1>4, <1>5, MethodStep
<1>7. Inv'
  <2>1. ConnTyped' /\ enabled' \in BOOLEAN
    BY <1>3, <1>4 DEF ConnTyped, WindowTyped
  <2>2. enabled' => server # NoServer /\ conn'[server].socket \in {"connected", "closing"}
    BY <1>2, <1>4, <1>6 DEF Inv, WindowBelongs
  <2> QED
    BY <1>4, <1>5, <1>6, <2>1, <2>2, QuietStep
<1> QED
  BY <1>6, <1>7

(* The models of a channel are made when it is shown for the first time. *)
LEMMA ChannelClickedStep ==
  ASSUME Inv, NEW id \in ChatIds, ChannelClicked(id)
  PROVE  Inv' /\ OneMoves
<1> DEFINE chat == Object("chat", id)
           list == Object("users", id)
<1> ConnTyped /\ WindowTyped
  BY TypesApart DEF Inv
<1>1. PICK s \in Servers : s = server /\ life[s] = "alive" /\ enabled
  BY DEF Inv, WindowBelongs, WindowTyped, ChannelClicked
<1> DEFINE c == conn[s]
           b == IF id \in DOMAIN chats THEN c ELSE NewPlain(c, chat)
           d == IF id \in DOMAIN users THEN b ELSE NewMirror(b, list)
<1>2. /\ conn' = [conn EXCEPT ![s] = d]
      /\ chats' = With(chats, id) /\ users' = With(users, id)
      /\ currentChannel' = id /\ currentUsers' = id
      /\ UNCHANGED <<core, life, broadcasts, heardEarly, fault, server, enabled, dialog, acts>>
  BY <1>1 DEF ChannelClicked, Opened
<1>3. /\ chat \in Objects /\ chat # Settings /\ chat # ServersList
      /\ list \in Objects /\ list # Settings /\ list # ServersList
      /\ ChannelOf(list) \in CoreChannels
  BY DEF Objects, Object, Settings, ServersList, ChannelOf, CoreChannels
<1>4. /\ Sound(c)
      /\ id \in DOMAIN chats <=> chat \in Range(c.consumers)
      /\ list \in Range(c.consumers) => id \in DOMAIN users
  BY <1>1, ServersAssumption DEF Inv, ConnsAreSound, ConnIsSound, ModelsBelong
<1> HIDE DEF c
<1>5. Keeps(c, b) /\ Range(b.consumers) = Range(c.consumers) \cup {chat}
  <2>1. CASE id \in DOMAIN chats
    BY <1>4, <2>1, KeepsItself
  <2>2. CASE id \notin DOMAIN chats
    <3>1. b = NewPlain(c, chat) /\ chat \notin Range(c.consumers)
      BY <1>4, <2>2
    <3> HIDE DEF b, chat
    <3>2. /\ Keeps(c, NewPlain(c, chat))
          /\ Range(NewPlain(c, chat).consumers) = Range(c.consumers) \cup {chat}
      BY <1>3, <1>4, <3>1, NewPlainKeeps
    <3> QED
      BY <3>1, <3>2
  <2> QED
    BY <2>1, <2>2
<1> HIDE DEF b
<1>6. /\ Keeps(b, d)
      /\ Range(b.consumers) \subseteq Range(d.consumers)
      /\ Range(d.consumers) \subseteq Range(b.consumers) \cup {list}
  <2>1. Sound(b)
    BY <1>5 DEF Keeps
  <2>2. CASE id \in DOMAIN users
    BY <2>1, <2>2, KeepsItself
  <2>3. CASE id \notin DOMAIN users
    <3>1. d = NewMirror(b, list)
      BY <2>3
    <3>2. list \notin Range(b.consumers)
      BY <1>4, <1>5, <2>3, KindsOfObjects
    <3> HIDE DEF d, list
    <3>3. /\ Keeps(b, NewMirror(b, list))
          /\ Range(NewMirror(b, list).consumers) = Range(b.consumers) \cup {list}
      BY <1>3, <2>1, <3>2, NewMirrorKeeps
    <3> QED
      BY <3>1, <3>3
  <2> QED
    BY <2>2, <2>3
<1> HIDE DEF d
<1>7. Keeps(c, d)
  BY <1>4, <1>5, <1>6, KeepsTwice DEF Sound
<1>8. /\ Alone(s) /\ conn'[s] = d /\ d.socket = c.socket /\ ConnsAreSound' /\ OneMoves
  BY <1>1, <1>2, <1>5, <1>6, <1>7, MethodStep DEF c
<1>9. /\ DOMAIN chats' = DOMAIN chats \cup {id} /\ DOMAIN users' = DOMAIN users \cup {id}
      /\ \A i \in DOMAIN chats' : chats'[i] = s
      /\ \A i \in DOMAIN users' : users'[i] \in Servers
  BY <1>1, <1>2 DEF With, Inv, WindowBelongs, WindowTyped, Range
<1>10. TypeOK'
  <2>1. ConnTyped'
    BY <1>2 DEF ConnTyped
  <2>2. Range(chats') \subseteq Servers /\ Range(users') \subseteq Servers
    BY <1>9 DEF Range
  <2>3. WindowTyped'
    BY <1>2, <1>9, <2>2 DEF WindowTyped
  <2> QED
    BY <1>8, <2>1, <2>3, TypesTogetherNext
<1>11. WindowBelongs'
  BY <1>1, <1>2, <1>8, <1>9 DEF Inv, WindowBelongs, c
<1>12. ModelsBelong'
  <2>1. ASSUME NEW i \in ChatIds
        PROVE  /\ i \in DOMAIN chats' <=> Object("chat", i) \in Range(d.consumers)
               /\ Object("users", i) \in Range(d.consumers) => i \in DOMAIN users'
    <3>1. /\ i \in DOMAIN chats <=> Object("chat", i) \in Range(c.consumers)
          /\ Object("users", i) \in Range(c.consumers) => i \in DOMAIN users
      BY <1>1, ServersAssumption DEF Inv, ModelsBelong, c
    <3> QED
      BY <1>5, <1>6, <1>9, <3>1, KindsOfObjects
  <2> QED
    BY <1>1, <1>2, <1>8, <2>1 DEF ModelsBelong
<1>13. SettingsBelong'
  <2>1. \A k \in Servers \ {s} : conn'[k] = conn[k]
    BY <1>8 DEF Alone
  <2>2. /\ Settings \in Range(d.consumers) <=> Settings \in Range(c.consumers)
        /\ ServersList \in Range(d.consumers) <=> ServersList \in Range(c.consumers)
    BY <1>3, <1>5, <1>6
  <2> QED
    BY <1>2, <1>8, <2>1, <2>2 DEF Inv, SettingsBelong, c
<1> QED
  BY <1>8, <1>10, <1>11, <1>12, <1>13 DEF Inv

(* The settings are opened: without a connection they bring the client     *)
(* down.                                                                   *)
LEMMA ShowSettingsStep ==
  ASSUME Inv, ShowSettings
  PROVE  Inv' /\ OneMoves
<1> ConnTyped /\ WindowTyped
  BY TypesApart DEF Inv
<1>1. /\ fault = "none" /\ dialog = "closed" /\ dialog' = server /\ acts' \in 0..MaxActs
      /\ UNCHANGED <<core, life, broadcasts, heardEarly, server, chats, users,
                     currentChannel, currentUsers, enabled>>
  BY MaxActsAssumption DEF ShowSettings, Reachable, Acts, WindowTyped
<1>2. \A k \in Servers : /\ Settings \notin Range(conn[k].consumers)
                         /\ ServersList \notin Range(conn[k].consumers)
  BY <1>1, ServersAssumption DEF Inv, SettingsBelong
<1>3. CASE server = NoServer
  <2>1. UNCHANGED conn /\ fault' = "noServer"
    BY <1>3 DEF ShowSettings
  <2>2. ConnsAreSound' /\ WindowBelongs' /\ ModelsBelong'
    BY <1>1, <2>1 DEF Inv, ConnsAreSound, ConnIsSound, WindowBelongs, ModelsBelong
  <2>3. TypeOK'
    <3>1. ConnTyped' /\ WindowTyped'
      BY <1>1, <2>1 DEF ConnTyped, WindowTyped
    <3> QED
      BY <2>2, <3>1, TypesTogetherNext
  <2>4. SettingsBelong'
    BY <1>1, <1>2, <1>3, <2>1 DEF SettingsBelong, NoServer
  <2> QED
    BY <2>1, <2>2, <2>3, <2>4 DEF Inv, OneMoves
<1>4. CASE server # NoServer
  <2>1. PICK s \in Servers : s = server /\ life[s] = "alive"
    BY <1>4 DEF Inv, WindowBelongs, WindowTyped
  <2> DEFINE c == conn[s]
             d == NewSettings(c)
  <2>2. conn' = [conn EXCEPT ![s] = d] /\ fault' = fault
    BY <1>4, <2>1 DEF ShowSettings
  <2>3. Keeps(c, d) /\ Range(d.consumers) = Range(c.consumers) \cup {Settings, ServersList}
    <3>1. Sound(c)
      BY DEF Inv, ConnsAreSound, ConnIsSound
    <3> QED
      BY <1>2, <3>1, NewSettingsKeeps
  <2> HIDE DEF d
  <2>4. Alone(s) /\ conn'[s] = d /\ d.socket = c.socket /\ ConnsAreSound' /\ OneMoves
    BY <1>1, <2>1, <2>2, <2>3, MethodStep
  <2>5. TypeOK'
    <3>1. ConnTyped' /\ WindowTyped'
      BY <1>1, <2>2 DEF ConnTyped, WindowTyped
    <3> QED
      BY <2>4, <3>1, TypesTogetherNext
  <2>6. WindowBelongs'
    BY <1>1, <2>1, <2>4 DEF Inv, WindowBelongs
  <2>7. ModelsBelong'
    BY <1>1, <2>1, <2>3, <2>4, KindsOfObjects DEF Inv, ModelsBelong
  <2>8. SettingsBelong'
    BY <1>1, <1>2, <1>4, <2>1, <2>2, <2>3, <2>4 DEF SettingsBelong, Alone
  <2> QED
    BY <2>4, <2>5, <2>6, <2>7, <2>8 DEF Inv
<1> QED
  BY <1>3, <1>4

(* The settings are closed, and their models go, if they are still there. *)
LEMMA CloseSettingsStep ==
  ASSUME Inv, CloseSettings
  PROVE  Inv' /\ OneMoves
<1> ConnTyped /\ WindowTyped
  BY TypesApart DEF Inv
<1>1. /\ fault = "none" /\ dialog # "closed" /\ dialog' = "closed"
      /\ UNCHANGED <<core, life, broadcasts, heardEarly, fault, server, chats, users,
                     currentChannel, currentUsers, enabled, acts>>
  BY DEF CloseSettings
<1>2. PICK s \in Servers : s = dialog
  BY <1>1 DEF Inv, SettingsBelong, WindowTyped
<1> DEFINE c == conn[s]
           d == UnregisterConsumers(c, Parts(Settings))
<1>3. /\ Sound(c) /\ \A k \in Servers \ {s} : Settings \notin Range(conn[k].consumers)
      /\ Contains(c.consumers, Settings) <=> Settings \in Range(c.consumers)
  <2>1. Sound(c)
    BY DEF Inv, ConnsAreSound, ConnIsSound
  <2>2. DOMAIN c.consumers = 1..Len(c.consumers)
    BY <2>1, LenProperties DEF Sound, IsConnection
  <2>3. \A k \in Servers \ {s} : Settings \notin Range(conn[k].consumers)
    BY <1>2 DEF Inv, SettingsBelong
  <2> QED
    BY <2>1, <2>2, <2>3 DEF Contains, Range
<1>4. WindowTyped'
  BY <1>1 DEF WindowTyped
<1>5. CASE Settings \notin Range(c.consumers)
  <2>1. UNCHANGED conn
    BY <1>2, <1>3, <1>5 DEF CloseSettings
  <2>2. ConnsAreSound' /\ WindowBelongs' /\ ModelsBelong'
    BY <1>1, <2>1 DEF Inv, ConnsAreSound, ConnIsSound, WindowBelongs, ModelsBelong
  <2>3. TypeOK'
    <3>1. ConnTyped'
      BY <1>1, <2>1 DEF ConnTyped
    <3> QED
      BY <1>4, <2>2, <3>1, TypesTogetherNext
  <2>4. \A k \in Servers : Settings \notin Range(conn[k].consumers)
    BY <1>3, <1>5
  <2>5. SettingsBelong'
    BY <1>1, <2>1, <2>4 DEF Inv, SettingsBelong, NoServer
  <2> QED
    BY <2>1, <2>2, <2>3, <2>5 DEF Inv, OneMoves
<1>6. CASE Settings \in Range(c.consumers)
  <2>1. conn' = [conn EXCEPT ![s] = d]
    BY <1>2, <1>3, <1>6 DEF CloseSettings
  <2>2. /\ Sound(d) /\ d.socket = c.socket /\ Emits(c, d)
        /\ Range(d.consumers) = Range(c.consumers) \ {Settings, ServersList}
        /\ Talks(c) /\ Monitor \in Range(d.consumers) => Keeps(c, d)
    <3>1. Parts(Settings) = {Settings, ServersList}
      BY DEF Parts
    <3>2. /\ Sound(d) /\ d.socket = c.socket /\ Emits(c, d)
          /\ Range(d.consumers) = Range(c.consumers) \ Parts(Settings)
          /\ Talks(c) /\ Monitor \in Range(c.consumers) \ Parts(Settings) => Keeps(c, d)
      BY <1>3, UnregisterKeeps
    <3> HIDE DEF d
    <3> QED
      BY <3>1, <3>2
  <2> HIDE DEF d
  <2>3. Alone(s) /\ conn'[s] = d
    BY <1>1, <2>1 DEF Alone, ConnTyped
  <2>4. ASSUME life[s] = "alive" PROVE Attended(d, core[s], heardEarly[s])
    <3>1. Attended(c, core[s], heardEarly[s])
      BY <2>4 DEF Inv, ConnsAreSound, ConnIsSound
    <3>2. Monitor \in Range(d.consumers)
      BY <2>2, <3>1, KindsOfObjects DEF Attended
    <3> QED
      BY <2>2, <3>1, <3>2 DEF Attended, Keeps, Talks
  <2>5. ConnIsSound(s)'
    <3>1. life[s] # "none"
      <4>1. Range(<<>>) = {}
        BY DEF Range
      <4> QED
        BY <1>6, <4>1, NobodyYet DEF Inv, ConnsAreSound, ConnIsSound
    <3>2. life[s] \in {"doomed", "dead"} => c.socket = "unconnected"
      BY DEF Inv, ConnsAreSound, ConnIsSound
    <3> QED
      BY <1>1, <2>2, <2>3, <2>4, <3>1, <3>2 DEF ConnIsSound
  <2>6. ConnsAreSound'
    BY <2>3, <2>5, OneIsSound DEF Inv
  <2>7. TypeOK'
    <3>1. ConnTyped'
      BY <1>1, <2>1 DEF ConnTyped
    <3> QED
      BY <1>4, <2>6, <3>1, TypesTogetherNext
  <2>8. server # NoServer => server \in Servers
    BY DEF WindowTyped
  <2>9. WindowBelongs'
    BY <1>1, <2>2, <2>3, <2>8 DEF Inv, WindowBelongs, Alone
  <2>10. ModelsBelong'
    BY <1>1, <2>2, <2>3, <2>8, KindsOfObjects DEF Inv, ModelsBelong, Alone
  <2>11. SettingsBelong'
    <3>1. \A k \in Servers \ {s} : conn'[k] = conn[k] /\ ServersList \notin Range(conn[k].consumers)
      BY <1>3, <2>3 DEF Inv, SettingsBelong, Alone
    <3> QED
      BY <1>1, <1>3, <2>2, <2>3, <3>1 DEF SettingsBelong, NoServer
  <2>12. OneMoves
    <3>1. Moves(c, d)
      BY <2>2 DEF Moves, Talks
    <3> QED
      BY <2>3, <3>1 DEF OneMoves, Alone
  <2> QED
    BY <2>6, <2>7, <2>9, <2>10, <2>11, <2>12 DEF Inv
<1> QED
  BY <1>5, <1>6

-------------------------------------------------------------------------------
(* The theorems. *)

LEMMA InitSound == Init => Inv
<1> SUFFICES ASSUME Init PROVE Inv
  OBVIOUS
<1>1. /\ conn = [s \in Servers |-> NewConnection] /\ core = [s \in Servers |-> NewClient]
      /\ life = [s \in Servers |-> "none"] /\ heardEarly = [s \in Servers |-> {}]
      /\ broadcasts = 0 /\ fault = "none"
  BY DEF Init, ConnInit
<1>2. /\ server = NoServer /\ chats = Nothing /\ users = Nothing /\ currentChannel = NoId
      /\ currentUsers = NoId /\ enabled = FALSE /\ dialog = "closed" /\ acts = 0
  BY DEF Init
<1>3. ConnsAreSound
  BY <1>1, NobodyYet DEF ConnsAreSound, ConnIsSound
<1>4. NewClient \in CoreType
  BY DEF NewClient, CoreType
<1>5. DOMAIN Nothing = {} /\ Range(Nothing) = {}
  BY DEF Nothing, Range
<1>6. ConnTyped
  <2> HIDE DEF NewClient
  <2> QED
    BY <1>1, <1>4, MaxBroadcastsAssumption DEF ConnTyped, Lives
<1>7. WindowTyped
  <2>1. /\ DOMAIN chats = {} /\ Range(chats) = {} /\ DOMAIN users = {} /\ Range(users) = {}
        /\ 0 \in 0..MaxActs
    BY <1>2, <1>5, MaxActsAssumption
  <2> QED
    BY <1>2, <2>1 DEF WindowTyped
<1>8. WindowBelongs /\ ModelsBelong
  BY <1>1, <1>2, <1>5 DEF WindowBelongs, ModelsBelong
<1>9. SettingsBelong
  <2>1. Range(<<>>) = {}
    BY DEF Range
  <2> QED
    BY <1>1, <1>2, <2>1, NobodyYet DEF SettingsBelong, NoServer
<1> QED
  BY <1>3, <1>6, <1>7, <1>8, <1>9, TypesTogether DEF Inv

LEMMA NextSound == Inv /\ [Next]_vars => Inv' /\ OneMoves
<1> SUFFICES ASSUME Inv, [Next]_vars PROVE Inv' /\ OneMoves
  OBVIOUS
<1>1. CASE ConnNext /\ UNCHANGED windowVars
  BY <1>1, FromClientStep, ReceiveStep, SocketDataReadyStep, DeleteServerStep DEF ConnNext
<1>2. CASE \E s \in Servers : SocketStep(s)
  BY <1>2, EstablishedStep, LostStep DEF SocketStep
<1>3. CASE UserStep
  BY <1>3, ConnectToServerStep, DisconnectFromServerStep, ChannelClickedStep,
     MessageEnteredStep, ShowSettingsStep, CloseSettingsStep DEF UserStep
<1>4. CASE UNCHANGED vars
  <2>1. UNCHANGED <<connVars, windowVars>>
    BY <1>4 DEF vars
  <2>2. ConnsAreSound' /\ WindowBelongs' /\ ModelsBelong' /\ SettingsBelong'
    BY <2>1 DEF connVars, windowVars, Inv, ConnsAreSound, ConnIsSound, WindowBelongs,
                ModelsBelong, SettingsBelong
  <2>3. ConnTyped' /\ WindowTyped'
    BY <2>1, TypesApart DEF connVars, windowVars, Inv, ConnTyped, WindowTyped
  <2> QED
    BY <2>1, <2>2, <2>3, TypesTogetherNext DEF Inv, OneMoves, connVars
<1> QED
  BY <1>1, <1>2, <1>3, <1>4 DEF Next

LEMMA OpensAsLink == Init => Link!Init
<1> SUFFICES ASSUME Init PROVE Link!Init
  OBVIOUS
<1>1. \A s \in Servers : conn[s] = NewConnection
  BY DEF Init, ConnInit
<1>2. \A s \in Servers : /\ conn[s].socket \in {"idle", "connecting", "connected"}
                         /\ Pending(s) = <<>>
  BY <1>1, NobodyYet DEF Pending
<1> QED
  BY <1>2 DEF Link!Init

LEMMA PrefixOfMore ==
  ASSUME NEW S, NEW p \in Seq(S), NEW q \in Seq(S)
  PROVE  Link!IsPrefix(p, p \o q) /\ Link!IsPrefix(<<>>, p) /\ Link!IsPrefix(p, p)
<1>1. /\ Len(p) \in Nat /\ Len(q) \in Nat /\ Len(p \o q) = Len(p) + Len(q)
      /\ \A i \in 1..Len(p) : (p \o q)[i] = p[i]
      /\ p \o q \in Seq(S)
  BY LenProperties, ConcatProperties
<1> DEFINE r == p \o q
<1>2. \A i \in 1..Len(p) : r[i] = p[i]
  BY <1>1
<1>3. Len(r) >= Len(p) /\ r \in Seq(S)
  BY <1>1
<1> HIDE DEF r
<1>4. SubSeq(p, 1, Len(p)) = SubSeq(r, 1, Len(p))
  <2>1. SubSeq(p, 1, Len(p)) = [i \in 1..Len(p) |-> p[i]]
    BY <1>1
  <2>2. SubSeq(r, 1, Len(p)) = [i \in 1..Len(p) |-> r[i]]
    BY <1>1
  <2> QED
    BY <1>2, <2>1, <2>2
<1>5. SubSeq(<<>>, 1, 0) = SubSeq(p, 1, 0) /\ Len(<<>>) = 0
  OBVIOUS
<1> QED
  BY <1>1, <1>3, <1>4, <1>5 DEF Link!IsPrefix, r

(* What one connection does is what a link may do. *)
LEMMA MovesAsLink == Inv /\ Inv' /\ OneMoves => [Link!Next]_(Link!vars)
<1> SUFFICES ASSUME Inv, Inv', OneMoves PROVE [Link!Next]_(Link!vars)
  OBVIOUS
<1>1. CASE UNCHANGED conn
  BY <1>1 DEF Link!vars, Pending
<1>2. CASE \E s \in Servers : /\ Moves(conn[s], conn'[s])
                              /\ \A k \in Servers \ {s} : conn'[k] = conn[k]
  <2>1. PICK s \in Servers : /\ Moves(conn[s], conn'[s])
                             /\ \A k \in Servers \ {s} : conn'[k] = conn[k]
    BY <1>2
  <2> DEFINE open(f) == [k \in Servers |-> f[k].socket \in {"idle", "connecting", "connected"}]
             pending(f) == [k \in Servers |-> Coming(f[k])]
             c == conn[s]
             d == conn'[s]
  <2>2. Coming(c) \in Seq(ToCore) /\ Coming(d) \in Seq(ToCore)
    <3>1. IsConnection(c) /\ IsConnection(d)
      BY DEF Inv, ConnsAreSound, ConnIsSound, Sound
    <3> QED
      BY <3>1, ComingIsSequence
  <2>3. \A k \in Servers \ {s} : pending(conn')[k] = pending(conn)[k]
    BY <2>1
  <2>4. (Talks(d) <=> Talks(c)) => open(conn') = open(conn)
    BY <2>1 DEF Talks
  <2>5. CASE (Talks(d) <=> Talks(c)) /\ Emits(c, d) /\ Talks(c)
    <3>1. Link!IsPrefix(Coming(c), Coming(d))
      <4>1. PICK ms \in Seq(ToCore) : Coming(d) = Coming(c) \o ms
        BY <2>5 DEF Emits
      <4> QED
        BY <2>2, <4>1, PrefixOfMore
    <3>2. Link!Emit(s)
      BY <2>3, <2>4, <2>5, <3>1 DEF Link!Emit, Link!Same, Pending, Talks
    <3> QED
      BY <3>2 DEF Link!Next
  <2>6. CASE (Talks(d) <=> Talks(c)) /\ Emits(c, d) /\ ~Talks(c)
    <3>1. pending(conn') = pending(conn)
      <4>1. \A k \in Servers : pending(conn')[k] = pending(conn)[k]
        BY <2>3, <2>6 DEF Emits
      <4> QED
        BY <4>1
    <3> QED
      BY <2>4, <2>6, <3>1 DEF Link!vars, Pending
  <2>7. CASE (Talks(d) <=> Talks(c)) /\ Coming(c) # <<>> /\ Coming(d) = Tail(Coming(c))
    <3>1. pending(conn') = [pending(conn) EXCEPT ![s] = Tail(@)]
      BY <2>3, <2>7
    <3>2. Link!Arrive(s)
      BY <2>4, <2>7, <3>1 DEF Link!Arrive, Pending
    <3> QED
      BY <3>2 DEF Link!Next
  <2>8. CASE ~Talks(d) /\ Coming(d) \in {Coming(c), <<>>}
    <3>1. Link!IsPrefix(Coming(d), Coming(c))
      BY <2>2, <2>8, PrefixOfMore
    <3>2. ~open(conn')[s] /\ \A k \in Servers \ {s} : open(conn')[k] = open(conn)[k]
      BY <2>1, <2>8 DEF Talks
    <3>3. Link!Close(s)
      BY <2>3, <3>1, <3>2 DEF Link!Close, Link!Same, Pending
    <3> QED
      BY <3>3 DEF Link!Next
  <2> QED
    BY <2>1, <2>5, <2>6, <2>7, <2>8 DEF Moves
<1> QED
  BY <1>1, <1>2 DEF OneMoves

LEMMA InvHolds == Spec => []Inv
BY InitSound, NextSound, PTL DEF Spec

(* Whatever the user, the sockets and the core do, each part of the state  *)
(* of a connection and of the window keeps its type (Next).                *)
THEOREM TypesHold == Spec => []TypeOK
<1>1. Inv => TypeOK
  BY DEF Inv
<1> QED
  BY <1>1, InvHolds, PTL

(* The window acts on no connection and no chat that is gone: its handler  *)
(* of a lost connection forgets all that belonged to it (MainWindow).      *)
THEOREM NothingGoneIsUsed == Spec => []WindowIsSound
<1>1. Inv => WindowIsSound
  <2> SUFFICES ASSUME Inv PROVE WindowIsSound
    OBVIOUS
  <2>1. ASSUME NEW id \in DOMAIN chats
        PROVE  chats[id] = server /\ Contains(conn[server].consumers, Object("chat", id))
    <3>1. chats[id] = server /\ server \in Servers /\ id \in ChatIds
      BY TypesApart DEF Inv, WindowBelongs, WindowTyped, Range
    <3>2. Object("chat", id) \in Range(conn[server].consumers)
      BY <3>1, ServersAssumption DEF Inv, ModelsBelong
    <3>3. DOMAIN conn[server].consumers = 1..Len(conn[server].consumers)
      BY <3>1, LenProperties DEF Inv, ConnsAreSound, ConnIsSound, Sound, IsConnection
    <3> QED
      BY <3>1, <3>2, <3>3 DEF Contains, Range
  <2> QED
    BY <2>1 DEF Inv, WindowBelongs, SettingsBelong, WindowIsSound
<1> QED
  BY <1>1, InvHolds, PTL

(* The consumers of a connection are those of its channels, and the core   *)
(* will know the same channels, but for those that a packet came on before *)
(* anybody subscribed (subscribeConsumerTo, unregisterConsumer,            *)
(* socketDataReady).                                                       *)
THEOREM ChannelsAgree == Spec => []SubscriptionsAgree
<1>1. Inv => SubscriptionsAgree
  <2> SUFFICES ASSUME Inv PROVE SubscriptionsAgree
    OBVIOUS
  <2>1. \A s \in Servers : Finds(conn[s])
    BY DEF Inv, ConnsAreSound, ConnIsSound, Sound
  <2>2. ASSUME NEW s \in Working, NEW ch \in CoreChannels
        PROVE  /\ Known(s, Len(Pending(s)), ch) => Entry(conn[s], ch) # {}
               /\ Entry(conn[s], ch) # {} =>
                    Known(s, Len(Pending(s)), ch) \/ ch \in heardEarly[s]
    <3>1. Agrees(conn[s], core[s], heardEarly[s])
      BY DEF Inv, ConnsAreSound, ConnIsSound, Attended, Talks, Working
    <3>2. Entry(conn[s], ch) # {} => ch \in DOMAIN conn[s].subscriptions
      BY DEF Entry
    <3>3. Known(s, Len(Pending(s)), ch) <=> Knows(conn[s], core[s], ch)
      BY Zenon DEF Known, Knows, Pending
    <3> QED
      BY <3>1, <3>2, <3>3 DEF Agrees
  <2> QED
    BY <2>1, <2>2 DEF SubscriptionsAgree, ConsumersAreFound
<1> QED
  BY <1>1, InvHolds, PTL

(* Every list that a mirror asks for comes back to it, and every consumer  *)
(* will be heard: the monitor is told to the core before anything else and *)
(* taken back by nobody (ServerConnection, TcpClientConnection).           *)
THEOREM ListsComeBack == Spec => []AnswersComeBack
<1>1. Inv => AnswersComeBack
  <2> SUFFICES ASSUME Inv PROVE AnswersComeBack
    OBVIOUS
  <2> SUFFICES ASSUME NEW s \in Working, NEW n \in Nat, NEW ch,
                      n <= Len(Pending(s)), n # 0 \/ n = Len(Pending(s))
               PROVE  WillPass(s, n, ch)
    <3>1. \A s \in Working : Len(Pending(s)) \in Nat /\ DOMAIN Pending(s) = 1..Len(Pending(s))
      <4>1. ASSUME NEW s \in Working PROVE Pending(s) \in Seq(ToCore)
        BY ComingIsSequence
           DEF Inv, ConnsAreSound, ConnIsSound, Sound, Working, Pending
      <4> QED
        BY <4>1, LenProperties
    <3> QED
      BY <3>1 DEF AnswersComeBack
  <2>1. /\ Monitored(conn[s], core[s]) /\ Pending(s) \in Seq(ToCore)
        /\ Pending(s) = Coming(conn[s])
    BY ComingIsSequence
       DEF Inv, ConnsAreSound, ConnIsSound, Sound, Attended, Talks, Working, Pending
  <2>2. Len(Pending(s)) \in Nat
    BY <2>1, LenProperties
  <2>3. \A j \in 1..n : Pending(s)[j] # Goodbye("*")
    BY <2>1, <2>2 DEF Monitored, TakesBack
  <2>4. CASE core[s].monitor
    BY <2>3, <2>4 DEF WillPass, TakesBack
  <2>5. CASE ~core[s].monitor
    <3>1. Pending(s) # <<>> /\ Pending(s)[1] = Hello("*")
      BY <2>1, <2>5 DEF Monitored
    <3>2. 1 \in 1..n
      BY <2>1, <2>2, <3>1, EmptySeq
    <3> QED
      BY <2>3, <3>1, <3>2 DEF WillPass, Says
  <2> QED
    BY <2>4, <2>5
<1> QED
  BY <1>1, InvHolds, PTL

(* Packets reach the core once each and in the order in which they were    *)
(* said, before or after the connection was made (sendFromConsumer,        *)
(* connected).                                                             *)
THEOREM ConnectionIsPacketLink == Spec => ImplementsPacketLink
<1>1. Inv /\ Inv' /\ [Next]_vars => [Link!Next]_(Link!vars)
  BY NextSound, MovesAsLink
<1> QED
  BY <1>1, OpensAsLink, InvHolds, PTL DEF Spec, ImplementsPacketLink, Link!Spec

-------------------------------------------------------------------------------
(* The size in a header. *)

LEMMA Divided ==
  ASSUME NEW a \in Nat, NEW b \in Nat \ {0}
  PROVE  /\ a \div b \in Nat /\ a % b \in 0..(b - 1)
         /\ a = (a \div b) * b + (a % b)
<1>1. a \div b \in Int /\ a % b \in 0..(b - 1)
  OBVIOUS
<1>2. a = (a \div b) * b + (a % b)
  OBVIOUS
<1>3. a \div b >= 0
  <2>1. ASSUME NEW q \in Int, NEW r \in 0..(b - 1), a = q * b + r, q < 0
        PROVE  FALSE
    BY <2>1
  <2> QED
    BY <1>1, <1>2, <2>1
<1> QED
  BY <1>1, <1>2, <1>3

LEMMA RemainderIs ==
  ASSUME NEW a \in Nat, NEW b \in Nat \ {0}, NEW q \in Int, NEW r \in 0..(b - 1), a = q * b + r
  PROVE  a % b = r
OBVIOUS

LEMMA ProductIsPositive ==
  ASSUME NEW a \in Nat \ {0}, NEW b \in Nat \ {0}
  PROVE  a * b \in Nat \ {0}
OBVIOUS

(* The remainder by a product, from its digits. *)
LEMMA RemainderByProduct ==
  ASSUME NEW n \in Nat, NEW p \in Nat \ {0}, NEW b \in Nat \ {0}
  PROVE  ((n \div p) % b) * p + (n % p) = n % (p * b)
<1> DEFINE q == n \div p
           r == n % p
           c == q \div b
           d == q % b
<1>1. q \in Nat /\ r \in 0..(p - 1) /\ n = q * p + r
  BY Divided
<1>2. c \in Nat /\ d \in 0..(b - 1) /\ q = c * b + d
  BY <1>1, Divided
<1> HIDE DEF q, r, c, d
<1>3. n = c * (p * b) + (d * p + r)
  BY <1>1, <1>2
<1>4. d * p \in 0..((b - 1) * p)
  BY <1>2
<1>5. d * p + r \in 0..(p * b - 1)
  <2>1. (b - 1) * p = p * b - p
    OBVIOUS
  <2> QED
    BY <1>1, <1>4, <2>1
<1>6. n % (p * b) = d * p + r
  <2>1. p * b \in Nat \ {0}
    BY ProductIsPositive
  <2> DEFINE m == p * b
             v == d * p + r
  <2>2. m \in Nat \ {0} /\ v \in 0..(m - 1) /\ n = c * m + v
    BY <1>3, <1>5, <2>1
  <2> HIDE DEF m, v
  <2>3. n % m = v
    BY <1>2, <2>2, RemainderIs
  <2> QED
    BY <2>3 DEF m, v
<1> QED
  BY <1>6 DEF q, r, c, d

(* Numbers that come of one step after another. *)
ComesOf(f, n, a, step) ==
  /\ f \in [0..n -> Nat]
  /\ f[0] = a
  /\ \A i \in 1..n : f[i] = step[i][f[i - 1]]

LEMMA NumbersExist ==
  ASSUME NEW n \in Nat, NEW a \in Nat, NEW step \in [1..n -> [Nat -> Nat]]
  PROVE  \E f : ComesOf(f, n, a, step)
<1> DEFINE T == {m \in 0..n : ~\E f : ComesOf(f, m, a, step)}
<1>1. SUFFICES ASSUME T # {} PROVE FALSE
  <2>1. n \in 0..n
    OBVIOUS
  <2> QED
    BY <2>1
<1>2. PICK m \in T : \A y \in T : m <= y
  <2>1. T \in SUBSET Nat
    OBVIOUS
  <2> HIDE DEF T
  <2> QED
    BY <1>1, <2>1, LeastNumber
<1>3. m \in 0..n /\ ~\E f : ComesOf(f, m, a, step)
  BY <1>2
<1>6. m \in 0..n
  BY <1>3
<1>4. CASE m = 0
  <2> DEFINE f == [i \in 0..0 |-> a]
  <2>1. f \in [0..m -> Nat] /\ f[0] = a /\ 1..m = {}
    BY <1>4
  <2>2. ComesOf(f, m, a, step)
    BY <2>1 DEF ComesOf
  <2> QED
    BY <1>3, <2>2
<1>5. CASE m # 0
  <2>1. m - 1 \in 0..n /\ m - 1 \notin T
    <3>1. m - 1 \in 0..n /\ ~(m <= m - 1)
      BY ONLY <1>5, <1>6, n \in Nat
    <3> HIDE DEF T
    <3> QED
      BY <1>2, <3>1
  <2>2. PICK f : ComesOf(f, m - 1, a, step)
    BY <2>1
  <2> DEFINE last == step[m][f[m - 1]]
             g == [i \in 0..m |-> IF i = m THEN last ELSE f[i]]
  <2>3. m \in 1..n /\ m - 1 \in 0..(m - 1) /\ step[m] \in [Nat -> Nat]
    <3>1. m \in 1..n /\ m - 1 \in 0..(m - 1)
      BY ONLY <1>5, <1>6, n \in Nat
    <3> QED
      BY <3>1
  <2>4. /\ f \in [0..(m - 1) -> Nat] /\ f[0] = a
        /\ \A i \in 1..(m - 1) : f[i] = step[i][f[i - 1]]
    BY <2>2 DEF ComesOf
  <2>5. last \in Nat
    BY <2>3, <2>4
  <2> HIDE DEF last
  <2>6. g \in [0..m -> Nat]
    <3>1. \A i \in 0..m : i # m => i \in 0..(m - 1)
      BY ONLY <1>6, n \in Nat
    <3> QED
      BY <2>4, <2>5, <3>1
  <2>7. g[0] = a
    BY <1>3, <1>5, <2>4
  <2>8. ASSUME NEW i \in 1..m
        PROVE  g[i] = step[i][g[i - 1]]
    <3>1. i \in 0..m /\ i - 1 \in 0..m /\ i - 1 # m
      BY <1>3
    <3>2. g[i - 1] = f[i - 1]
      BY <3>1
    <3>3. CASE i = m
      BY <3>1, <3>2, <3>3 DEF last
    <3>4. CASE i # m
      <4>1. i \in 1..(m - 1) /\ g[i] = f[i]
        BY <1>3, <3>1, <3>4
      <4> QED
        BY <2>4, <3>2, <4>1
    <3> QED
      BY <3>3, <3>4
  <2> HIDE DEF g
  <2>9. ComesOf(g, m, a, step)
    BY <2>6, <2>7, <2>8 DEF ComesOf
  <2> QED
    BY <1>3, <2>9
<1> QED
  BY <1>4, <1>5

LEMMA Powers ==
  /\ Power \in [0..HeaderSize -> Nat \ {0}]
  /\ Power[0] = 1
  /\ \A i \in 1..HeaderSize : Power[i] = Power[i - 1] * Base
<1> DEFINE Is(f) == f = [i \in 0..HeaderSize |-> IF i = 0 THEN 1 ELSE f[i - 1] * Base]
<1>1. Base \in Nat \ {0} /\ HeaderSize \in Nat
  BY FramingAssumption
<1>2. \E f : Is(f)
  <2> DEFINE step == [i \in 1..HeaderSize |-> [v \in Nat |-> v * Base]]
  <2>1. step \in [1..HeaderSize -> [Nat -> Nat]]
    BY <1>1
  <2>2. \A i \in 1..HeaderSize, v \in Nat : step[i][v] = v * Base
    OBVIOUS
  <2> HIDE DEF step
  <2>3. PICK f \in [0..HeaderSize -> Nat] :
               f[0] = 1 /\ \A i \in 1..HeaderSize : f[i] = step[i][f[i - 1]]
    <3>1. \E f : ComesOf(f, HeaderSize, 1, step)
      BY <1>1, <2>1, NumbersExist
    <3> QED
      BY <3>1 DEF ComesOf
  <2> DEFINE g == [i \in 0..HeaderSize |-> IF i = 0 THEN 1 ELSE f[i - 1] * Base]
  <2>4. ASSUME NEW i \in 0..HeaderSize
        PROVE  f[i] = g[i]
    <3>1. CASE i = 0
      BY <2>3, <3>1
    <3>2. CASE i # 0
      <4>1. i \in 1..HeaderSize /\ i - 1 \in 0..HeaderSize
        BY <1>1, <3>2
      <4> QED
        BY <2>2, <2>3, <3>2, <4>1
    <3> QED
      BY <3>1, <3>2
  <2>5. f = g
    BY <2>3, <2>4
  <2> QED
    BY <2>5
<1>3. Is(Power)
  <2>1. Power = CHOOSE f : Is(f)
    BY Zenon DEF Power
  <2> HIDE DEF Is
  <2> QED
    BY <1>2, <2>1, Zenon
<1>4. /\ DOMAIN Power = 0..HeaderSize
      /\ \A i \in 0..HeaderSize : Power[i] = IF i = 0 THEN 1 ELSE Power[i - 1] * Base
  BY <1>3, Zenon
<1>5. Power[0] = 1
  BY <1>1, <1>4
<1>6. \A i \in 1..HeaderSize : Power[i] = Power[i - 1] * Base
  BY <1>1, <1>4
<1>7. \A i \in 0..HeaderSize : Power[i] \in Nat \ {0}
  <2> DEFINE T == {i \in 0..HeaderSize : Power[i] \notin Nat \ {0}}
  <2>1. SUFFICES ASSUME T # {} PROVE FALSE
    OBVIOUS
  <2>2. PICK i \in T : \A j \in T : i <= j
    <3>1. T \in SUBSET Nat
      OBVIOUS
    <3> HIDE DEF T
    <3> QED
      BY <2>1, <3>1, LeastNumber
  <2>3. i \in 1..HeaderSize /\ i - 1 \in 0..HeaderSize /\ i - 1 \notin T
    BY <1>1, <1>5, <2>2
  <2>4. Power[i - 1] \in Nat \ {0}
    BY <2>3
  <2>5. Power[i] \in Nat \ {0}
    <3>1. Power[i] = Power[i - 1] * Base
      BY <1>6, <2>3
    <3> QED
      BY <1>1, <2>4, <3>1, ProductIsPositive
  <2> QED
    BY <2>2, <2>5
<1>8. Power \in [0..HeaderSize -> Nat \ {0}]
  <2>1. Power = [i \in 0..HeaderSize |-> Power[i]]
    <3>1. Power = [i \in 0..HeaderSize |-> IF i = 0 THEN 1 ELSE Power[i - 1] * Base]
      BY <1>3
    <3> DEFINE h == [i \in 0..HeaderSize |-> IF i = 0 THEN 1 ELSE Power[i - 1] * Base]
    <3>2. h = [i \in 0..HeaderSize |-> h[i]]
      OBVIOUS
    <3> QED
      BY <3>1, <3>2
  <2> QED
    BY <1>7, <2>1
<1> QED
  BY <1>5, <1>6, <1>8

(* The digits that Number() adds up. *)
LEMMA NumberIsSum ==
  ASSUME NEW h \in [1..HeaderSize -> Nat]
  PROVE  \E f \in [0..HeaderSize -> Nat] :
           /\ f[0] = 0
           /\ \A i \in 1..HeaderSize : f[i] = h[i] * Power[i - 1] + f[i - 1]
           /\ Number(h) = f[HeaderSize]
<1> DEFINE Is(f) ==
             f = [i \in 0..HeaderSize |-> IF i = 0 THEN 0 ELSE h[i] * Power[i - 1] + f[i - 1]]
           f0 == CHOOSE f : Is(f)
<1>1. HeaderSize \in Nat /\ \A i \in 0..HeaderSize : Power[i] \in Nat
  BY FramingAssumption, Powers
<1>2. \E f \in [0..HeaderSize -> Nat] : Is(f)
  <2> DEFINE step == [i \in 1..HeaderSize |-> [v \in Nat |-> h[i] * Power[i - 1] + v]]
  <2>1. step \in [1..HeaderSize -> [Nat -> Nat]]
    <3>1. \A i \in 1..HeaderSize : h[i] \in Nat /\ Power[i - 1] \in Nat
      BY <1>1
    <3>2. \A i \in 1..HeaderSize : h[i] * Power[i - 1] \in Nat
      BY <3>1
    <3> QED
      BY <3>2
  <2>2. \A i \in 1..HeaderSize, v \in Nat : step[i][v] = h[i] * Power[i - 1] + v
    OBVIOUS
  <2> HIDE DEF step
  <2>3. PICK f \in [0..HeaderSize -> Nat] :
               f[0] = 0 /\ \A i \in 1..HeaderSize : f[i] = step[i][f[i - 1]]
    <3>1. \E f : ComesOf(f, HeaderSize, 0, step)
      BY <1>1, <2>1, NumbersExist
    <3> QED
      BY <3>1 DEF ComesOf
  <2> DEFINE g == [i \in 0..HeaderSize |-> IF i = 0 THEN 0 ELSE h[i] * Power[i - 1] + f[i - 1]]
  <2>4. ASSUME NEW i \in 0..HeaderSize
        PROVE  f[i] = g[i]
    <3>1. CASE i = 0
      BY <2>3, <3>1
    <3>2. CASE i # 0
      <4>1. i \in 1..HeaderSize /\ i - 1 \in 0..HeaderSize
        BY <1>1, <3>2
      <4> QED
        BY <2>2, <2>3, <3>2, <4>1
    <3> QED
      BY <3>1, <3>2
  <2>5. f = g
    BY <2>3, <2>4
  <2> QED
    BY <2>5
<1>3. Is(f0)
  <2> HIDE DEF Is
  <2> QED
    BY <1>2, Zenon
<1>4. Number(h) = f0[HeaderSize]
  BY Zenon DEF Number
<1> HIDE DEF f0
<1>5. \A i \in 0..HeaderSize : f0[i] = IF i = 0 THEN 0 ELSE h[i] * Power[i - 1] + f0[i - 1]
  BY <1>3, Zenon
<1>6. f0[0] = 0 /\ \A i \in 1..HeaderSize : f0[i] = h[i] * Power[i - 1] + f0[i - 1]
  BY <1>1, <1>5
<1>7. f0 \in [0..HeaderSize -> Nat]
  <2>1. \A i \in 0..HeaderSize : f0[i] \in Nat
    <3> DEFINE T == {i \in 0..HeaderSize : f0[i] \notin Nat}
    <3>1. SUFFICES ASSUME T # {} PROVE FALSE
      OBVIOUS
    <3>2. PICK i \in T : \A j \in T : i <= j
      <4>1. T \in SUBSET Nat
        OBVIOUS
      <4> HIDE DEF T
      <4> QED
        BY <3>1, <4>1, LeastNumber
    <3>3. i \in 1..HeaderSize /\ i - 1 \in 0..HeaderSize /\ i - 1 \notin T
      BY <1>1, <1>6, <3>2
    <3>4. f0[i - 1] \in Nat /\ h[i] \in Nat /\ Power[i - 1] \in Nat
      BY <1>1, <3>3
    <3>5. f0[i] = h[i] * Power[i - 1] + f0[i - 1]
      BY <1>6, <3>3
    <3>6. f0[i] \in Nat
      BY <3>4, <3>5
    <3> QED
      BY <3>2, <3>6
  <2>2. f0 = [i \in 0..HeaderSize |-> f0[i]]
    <3> DEFINE w == [i \in 0..HeaderSize |-> IF i = 0 THEN 0 ELSE h[i] * Power[i - 1] + f0[i - 1]]
    <3>1. w = [i \in 0..HeaderSize |-> w[i]]
      OBVIOUS
    <3> QED
      BY <1>3, <3>1
  <2> QED
    BY <2>1, <2>2
<1> QED
  BY <1>4, <1>6, <1>7

(* A size that a header has room for is read as it was written. *)
LEMMA Headers ==
  ASSUME NEW n \in Nat
  PROVE  /\ Header(n) \in Seq(Byte) /\ Len(Header(n)) = HeaderSize
         /\ n < Power[HeaderSize] => Number(Header(n)) = n
<1> DEFINE h == Header(n)
<1>1. HeaderSize \in Nat \ {0} /\ Base \in Nat \ {0}
  BY FramingAssumption
<1>2. ASSUME NEW i \in 1..HeaderSize
      PROVE  i - 1 \in 0..HeaderSize /\ (n \div Power[i - 1]) % Base \in Byte
  <2>1. i - 1 \in 0..HeaderSize /\ Power[i - 1] \in Nat \ {0}
    BY <1>1, Powers
  <2>2. n \div Power[i - 1] \in Nat
    BY <2>1, Divided
  <2> QED
    BY <1>1, <2>1, <2>2, Divided DEF Byte
<1>3. h \in [1..HeaderSize -> Byte] /\ \A i \in 1..HeaderSize : h[i] = (n \div Power[i - 1]) % Base
  BY <1>2 DEF Header
<1>4. h \in Seq(Byte) /\ Len(h) = HeaderSize
  BY <1>1, <1>3
<1>5. ASSUME n < Power[HeaderSize]
      PROVE  Number(h) = n
  <2>1. h \in [1..HeaderSize -> Nat]
    BY <1>1, <1>3 DEF Byte
  <2> HIDE DEF h
  <2>2. PICK f \in [0..HeaderSize -> Nat] :
               /\ f[0] = 0
               /\ \A i \in 1..HeaderSize : f[i] = h[i] * Power[i - 1] + f[i - 1]
               /\ Number(h) = f[HeaderSize]
    BY <2>1, NumberIsSum
  <2> DEFINE T == {i \in 0..HeaderSize : f[i] # n % Power[i]}
  <2>3. T = {}
    <3>1. SUFFICES ASSUME T # {} PROVE FALSE
      OBVIOUS
    <3>2. PICK i \in T : \A j \in T : i <= j
      <4>1. T \in SUBSET Nat
        OBVIOUS
      <4> HIDE DEF T
      <4> QED
        BY <3>1, <4>1, LeastNumber
    <3>3. 0 \notin T
      <4>1. n % 1 = 0
        OBVIOUS
      <4> QED
        BY <1>1, <2>2, <4>1, Powers
    <3>4. i \in 1..HeaderSize /\ i - 1 \in 0..HeaderSize /\ i - 1 \notin T
      BY <1>1, <3>2, <3>3
    <3> DEFINE p == Power[i - 1]
    <3>5. f[i - 1] = n % p /\ p \in Nat \ {0} /\ Power[i] = p * Base
      BY <3>4, Powers
    <3>6. f[i] = ((n \div p) % Base) * p + f[i - 1]
      BY <1>3, <2>2, <3>4
    <3> HIDE DEF p
    <3>7. ((n \div p) % Base) * p + (n % p) = n % (p * Base)
      BY <1>1, <3>5, RemainderByProduct
    <3>8. f[i] = n % Power[i]
      BY <3>5, <3>6, <3>7
    <3> QED
      BY <3>2, <3>8
  <2>4. HeaderSize \in 0..HeaderSize /\ Power[HeaderSize] \in Nat \ {0}
    BY <1>1, Powers
  <2>5. f[HeaderSize] = n % Power[HeaderSize]
    BY <2>3, <2>4
  <2> DEFINE p == Power[HeaderSize]
  <2> HIDE DEF p
  <2>6. n % p = n
    <3>1. n = 0 * p + n /\ n \in 0..(p - 1) /\ p \in Nat \ {0} /\ 0 \in Int
      BY <1>5, <2>4 DEF p
    <3> QED
      BY <3>1, RemainderIs
  <2> QED
    BY <2>2, <2>5, <2>6 DEF p
<1> QED
  BY <1>4, <1>5

-----------------------------------------------------------------------------
(* Pieces of sequences. *)

LEMMA PiecesOf ==
  ASSUME NEW S, NEW s \in Seq(S), NEW n \in 0..Len(s)
  PROVE  /\ First(s, n) \in Seq(S) /\ After(s, n) \in Seq(S)
         /\ Len(First(s, n)) = n /\ Len(After(s, n)) = Len(s) - n
         /\ First(s, n) \o After(s, n) = s
<1>1. Len(s) \in Nat /\ n \in Int /\ n + 1 \in Int /\ \A i \in 1..Len(s) : s[i] \in S
  BY LenProperties, ElementOfSeq
<1> DEFINE a == First(s, n)
           b == After(s, n)
<1>2. /\ a \in Seq(S) /\ Len(a) = n
      /\ \A i \in 1..n : a[i] = s[i]
  <2>1. \A i \in 1..n : s[i] \in S
    BY <1>1
  <2>2. /\ a \in Seq(S) /\ Len(a) = IF 1 <= n THEN n - 1 + 1 ELSE 0
        /\ \A i \in 1..(n - 1 + 1) : a[i] = s[1 + i - 1]
    BY <1>1, <2>1, SubSeqProperties DEF First
  <2> HIDE DEF a
  <2>3. \A i \in 1..n : i \in 1..(n - 1 + 1) /\ 1 + i - 1 = i
    OBVIOUS
  <2> QED
    BY <2>2, <2>3
<1>3. /\ b \in Seq(S) /\ Len(b) = Len(s) - n
      /\ \A i \in 1..(Len(s) - n) : b[i] = s[n + i]
  <2>1. \A i \in (n + 1)..Len(s) : s[i] \in S
    BY <1>1
  <2>2. /\ b \in Seq(S) /\ Len(b) = IF n + 1 <= Len(s) THEN Len(s) - (n + 1) + 1 ELSE 0
        /\ \A i \in 1..(Len(s) - (n + 1) + 1) : b[i] = s[(n + 1) + i - 1]
    BY <1>1, <2>1, SubSeqProperties DEF After
  <2> HIDE DEF b
  <2>3. \A i \in 1..(Len(s) - n) : i \in 1..(Len(s) - (n + 1) + 1) /\ (n + 1) + i - 1 = n + i
    BY <1>1
  <2>4. Len(b) = Len(s) - n
    BY <1>1, <2>2
  <2> QED
    BY <2>2, <2>3, <2>4
<1> HIDE DEF a, b
<1>4. a \o b = s
  <2>1. /\ a \o b \in Seq(S) /\ Len(a \o b) = Len(a) + Len(b)
        /\ \A i \in 1..(Len(a) + Len(b)) : (a \o b)[i] = IF i <= Len(a) THEN a[i] ELSE b[i - Len(a)]
    BY <1>2, <1>3, ConcatProperties
  <2>2. Len(a) + Len(b) = Len(s)
    BY <1>1, <1>2, <1>3
  <2>3. ASSUME NEW i \in 1..Len(s)
        PROVE  (a \o b)[i] = s[i]
    <3>1. CASE i <= n
      <4>1. i \in 1..n
        BY <3>1
      <4> QED
        BY <1>2, <2>1, <2>2, <3>1, <4>1
    <3>2. CASE ~(i <= n)
      <4>1. i - n \in 1..(Len(s) - n) /\ n + (i - n) = i
        BY <1>1, <3>2
      <4>2. (a \o b)[i] = b[i - n]
        BY <1>2, <2>1, <2>2, <3>2
      <4> QED
        BY <1>3, <4>1, <4>2
    <3> QED
      BY <3>1, <3>2
  <2> QED
    BY <2>1, <2>2, <2>3, SeqEqual
<1> QED
  BY <1>2, <1>3, <1>4 DEF a, b

(* The beginning of two sequences that are the same. *)
SameJoined(a, u, b, v) == a \o u = b \o v

LEMMA SameFronts ==
  ASSUME NEW S, NEW a \in Seq(S), NEW b \in Seq(S), NEW u \in Seq(S), NEW v \in Seq(S),
         Len(a) = Len(b), SameJoined(a, u, b, v)
  PROVE  a = b /\ u = v
<1>1. /\ Len(a \o u) = Len(a) + Len(u)
      /\ \A i \in 1..(Len(a) + Len(u)) : (a \o u)[i] = IF i <= Len(a) THEN a[i] ELSE u[i - Len(a)]
      /\ Len(b \o v) = Len(b) + Len(v)
      /\ \A i \in 1..(Len(b) + Len(v)) : (b \o v)[i] = IF i <= Len(b) THEN b[i] ELSE v[i - Len(b)]
      /\ Len(a) \in Nat /\ Len(b) \in Nat /\ Len(u) \in Nat /\ Len(v) \in Nat
  BY ConcatProperties, LenProperties
<1>2. ASSUME NEW i \in 1..Len(a)
      PROVE  a[i] = b[i]
  <2>1. i \in 1..(Len(a) + Len(u)) /\ i \in 1..(Len(b) + Len(v)) /\ i <= Len(a) /\ i <= Len(b)
    BY <1>1
  <2>2. (a \o u)[i] = a[i] /\ (b \o v)[i] = b[i]
    BY <1>1, <2>1
  <2> QED
    BY <2>2, Zenon DEF SameJoined
<1>3. a = b
  BY <1>2, SeqEqual
<1>4. a \o u = a \o v
  BY <1>3, Zenon DEF SameJoined
<1>5. \A s, t, w \in Seq(S) : s \o t = s \o w => t = w
  BY ONLY ConcatSimplifications, Zenon
<1> QED
  BY <1>3, <1>4, <1>5, Zenon

(* Three sequences are joined from the left or from the right alike. *)
Associates(a, b, c) == (a \o b) \o c = a \o (b \o c)

LEMMA BytesAssociate ==
  ASSUME NEW a \in Seq(Byte), NEW b \in Seq(Byte), NEW c \in Seq(Byte)
  PROVE  Associates(a, b, c)
<1>1. \A s, t, u \in Seq(Byte) : (s \o t) \o u = s \o (t \o u)
  BY ConcatAssociative
<1> QED
  BY <1>1, Zenon DEF Associates

LEMMA PacketsAssociate ==
  ASSUME NEW a \in Seq(Packets), NEW b \in Seq(Packets), NEW c \in Seq(Packets)
  PROVE  Associates(a, b, c)
<1>1. \A s, t, u \in Seq(Packets) : (s \o t) \o u = s \o (t \o u)
  BY ConcatAssociative
<1> QED
  BY <1>1, Zenon DEF Associates

(* The longer of two beginnings begins with the other one. *)
Extends(a, b, f, u) == \E c \in Seq(Byte) : a = f \o c /\ u = c \o b

LEMMA LongerFront ==
  ASSUME NEW a \in Seq(Byte), NEW b \in Seq(Byte), NEW f \in Seq(Byte), NEW u \in Seq(Byte),
         SameJoined(a, b, f, u), Len(f) <= Len(a)
  PROVE  Extends(a, b, f, u)
<1>1. Len(f) \in 0..Len(a)
  BY LenProperties
<1> DEFINE g == First(a, Len(f))
           c == After(a, Len(f))
<1>2. g \in Seq(Byte) /\ c \in Seq(Byte) /\ Len(g) = Len(f) /\ g \o c = a
  BY <1>1, PiecesOf
<1> HIDE DEF g, c
<1> DEFINE w == c \o b
<1>3. w \in Seq(Byte)
  BY <1>2, ConcatProperties
<1>4. (g \o c) \o b = g \o w
  <2>1. g \in Seq(Byte) /\ c \in Seq(Byte) /\ b \in Seq(Byte)
    BY <1>2
  <2>2. Associates(g, c, b)
    BY ONLY <2>1, BytesAssociate
  <2> QED
    BY <2>2, Zenon DEF Associates, w
<1> HIDE DEF w
<1>5. SameJoined(g, w, f, u)
  BY <1>2, <1>4, Zenon DEF SameJoined
<1>6. g = f /\ w = u
  BY ONLY <1>2, <1>3, <1>5, SameFronts, f \in Seq(Byte), u \in Seq(Byte)
<1> QED
  BY <1>2, <1>6, Zenon DEF w, Extends

LEMMA PrefixOfBoth ==
  ASSUME NEW S, NEW a \in Seq(S), NEW b \in Seq(S)
  PROVE  IsPrefix(a, a \o b) /\ Stream!IsPrefix(a, a \o b)
<1>1. /\ a \o b \in Seq(S) /\ Len(a \o b) = Len(a) + Len(b)
      /\ Len(a) \in Nat /\ Len(b) \in Nat
  BY ConcatProperties, LenProperties
<1> DEFINE c == a \o b
           n == Len(a)
           d == First(c, n)
           e == After(c, n)
<1>2. n \in 0..Len(c) /\ c \in Seq(S)
  BY <1>1
<1>3. d \in Seq(S) /\ e \in Seq(S) /\ Len(d) = n /\ d \o e = a \o b
  BY <1>2, PiecesOf
<1> HIDE DEF d, e
<1>4. d = a
  <2>1. SameJoined(d, e, a, b)
    BY <1>3, Zenon DEF SameJoined
  <2> QED
    BY <1>3, <2>1, SameFronts
<1>5. SubSeq(c, 1, n) = a
  BY <1>4 DEF d, First
<1>6. SubSeq(a, 1, n) = a
  BY SubSeqFull
<1> QED
  BY <1>1, <1>5, <1>6 DEF IsPrefix, Stream!IsPrefix

LEMMA FirstAndRest ==
  ASSUME NEW S, NEW s \in Seq(S), s # <<>>
  PROVE  /\ Head(s) \in S /\ Tail(s) \in Seq(S) /\ <<Head(s)>> \in Seq(S)
         /\ s = <<Head(s)>> \o Tail(s)
         /\ Len(Tail(s)) = Len(s) - 1 /\ Len(s) \in Nat \ {0}
<1>1. Head(s) \in S /\ Tail(s) \in Seq(S) /\ Len(Tail(s)) = Len(s) - 1 /\ Len(s) \in Nat \ {0}
  BY HeadTailProperties, EmptySeq
<1>2. Tail(s) = SubSeq(s, 2, Len(s)) /\ Head(s) = s[1]
  BY TailIsSubSeq
<1>3. SubSeq(s, 1, Len(s)) = <<s[1]>> \o SubSeq(s, 1 + 1, Len(s))
  <2>1. 1 \in 1..Len(s) /\ Len(s) \in 1..Len(s)
    BY <1>1
  <2> QED
    BY <2>1, SubSeqRecursiveFirst
<1>4. SubSeq(s, 1, Len(s)) = s
  BY SubSeqFull
<1>5. <<Head(s)>> \in Seq(S)
  BY <1>1
<1> QED
  BY <1>1, <1>2, <1>3, <1>4, <1>5

-----------------------------------------------------------------------------
(* Packets with their headers. *)

Frame(p) == Header(Len(p)) \o p

LEMMA Frames ==
  ASSUME NEW p \in Packets
  PROVE  /\ p \in Seq(Byte) /\ Len(p) \in Nat /\ Len(p) < Power[HeaderSize]
         /\ Header(Len(p)) \in Seq(Byte) /\ Len(Header(Len(p))) = HeaderSize
         /\ Number(Header(Len(p))) = Len(p)
         /\ Frame(p) \in Seq(Byte) /\ Len(Frame(p)) = HeaderSize + Len(p)
<1>1. p \in Seq(Byte) /\ Len(p) \in Nat /\ Len(p) < Power[HeaderSize]
  BY FramingAssumption, LenProperties
<1>2. /\ Header(Len(p)) \in Seq(Byte) /\ Len(Header(Len(p))) = HeaderSize
      /\ Number(Header(Len(p))) = Len(p)
  BY <1>1, Headers
<1>3. Frame(p) \in Seq(Byte) /\ Len(Frame(p)) = HeaderSize + Len(p)
  BY <1>1, <1>2, ConcatProperties DEF Frame
<1> QED
  BY <1>1, <1>2, <1>3

(* A header that a frame begins with is the frame's. *)
LEMMA HeaderOfFrame ==
  ASSUME NEW p \in Packets, NEW n \in Nat, n < Power[HeaderSize],
         NEW u \in Seq(Byte), NEW v \in Seq(Byte), SameJoined(Header(n), v, Frame(p), u)
  PROVE  n = Len(p) /\ v = p \o u
<1> DEFINE h == Header(Len(p))
<1>1. /\ Header(n) \in Seq(Byte) /\ Len(Header(n)) = HeaderSize /\ Number(Header(n)) = n
      /\ p \in Seq(Byte) /\ h \in Seq(Byte) /\ Len(h) = HeaderSize /\ Number(h) = Len(p)
  BY Headers, Frames
<1> DEFINE k == Header(n)
           w == p \o u
<1>2. w \in Seq(Byte)
  BY <1>1, ConcatProperties
<1>3. k \o v = (h \o p) \o u
  BY Zenon DEF Frame, SameJoined
<1>4. p \in Seq(Byte) /\ h \in Seq(Byte) /\ k \in Seq(Byte) /\ Len(h) = Len(k)
  BY <1>1
<1> HIDE DEF h, k
<1>5. (h \o p) \o u = h \o w
  <2>1. Associates(h, p, u)
    BY <1>4, BytesAssociate
  <2> QED
    BY <2>1, Zenon DEF Associates
<1> HIDE DEF w
<1>6. SameJoined(k, v, h, w)
  BY <1>3, <1>5, Zenon DEF SameJoined
<1>7. k = h /\ v = w
  BY ONLY <1>2, <1>4, <1>6, v \in Seq(Byte), SameFronts
<1> QED
  BY <1>1, <1>7 DEF h, k, w

(* The bytes s are those of the packets ps and t after them: g[k] is what  *)
(* is left from the k-th packet on.                                        *)
IsFramed(s, ps, t, g) ==
  /\ g \in [1..(Len(ps) + 1) -> Seq(Byte)]
  /\ g[1] = s /\ g[Len(ps) + 1] = t
  /\ \A k \in 1..Len(ps) : g[k] = Frame(ps[k]) \o g[k + 1]

Framed(s, ps, t) == \E g : IsFramed(s, ps, t, g)

LEMMA FramedNothing ==
  ASSUME NEW t \in Seq(Byte)
  PROVE  Framed(t, <<>>, t) /\ \A s : Framed(s, <<>>, t) => s = t
<1>1. Len(<<>>) + 1 = 1 /\ 1..Len(<<>>) = {}
  OBVIOUS
<1>2. Framed(t, <<>>, t)
  <2> DEFINE g == [k \in 1..1 |-> t]
  <2>1. IsFramed(t, <<>>, t, g)
    BY <1>1 DEF IsFramed
  <2> QED
    BY <2>1 DEF Framed
<1>3. ASSUME NEW s, Framed(s, <<>>, t)
      PROVE  s = t
  BY <1>1, <1>3 DEF Framed, IsFramed
<1> QED
  BY <1>2, <1>3

LEMMA FramedTyped ==
  ASSUME NEW ps \in Seq(Packets), NEW s, NEW t, Framed(s, ps, t)
  PROVE  s \in Seq(Byte) /\ t \in Seq(Byte)
<1>1. Len(ps) \in Nat
  BY LenProperties
<1>2. 1 \in 1..(Len(ps) + 1) /\ Len(ps) + 1 \in 1..(Len(ps) + 1)
  BY <1>1
<1> QED
  BY <1>2 DEF Framed, IsFramed

LEMMA FramedBefore ==
  ASSUME NEW p \in Packets, NEW ps \in Seq(Packets), NEW s, NEW t, Framed(s, ps, t)
  PROVE  Framed(Frame(p) \o s, <<p>> \o ps, t)
<1> DEFINE qs == <<p>> \o ps
           n == Len(ps)
<1>1. PICK g : IsFramed(s, ps, t, g)
  BY DEF Framed
<1>2. /\ g \in [1..(n + 1) -> Seq(Byte)] /\ g[1] = s /\ g[n + 1] = t
      /\ \A k \in 1..n : g[k] = Frame(ps[k]) \o g[k + 1]
  BY <1>1 DEF IsFramed
<1>3. n \in Nat /\ Frame(p) \in Seq(Byte)
  BY LenProperties, Frames
<1>4. /\ qs \in Seq(Packets) /\ Len(qs) = n + 1 /\ qs[1] = p
      /\ \A k \in 2..(n + 1) : qs[k] = ps[k - 1]
  <2>1. <<p>> \in Seq(Packets) /\ Len(<<p>>) = 1 /\ <<p>>[1] = p
    OBVIOUS
  <2> DEFINE one == <<p>>
  <2> HIDE DEF one
  <2>2. /\ one \o ps \in Seq(Packets) /\ Len(one \o ps) = 1 + n
        /\ \A k \in 1..(1 + n) : (one \o ps)[k] = IF k <= 1 THEN one[k] ELSE ps[k - 1]
    BY <2>1, ConcatProperties DEF one
  <2>3. 1 \in 1..(1 + n) /\ \A k \in 2..(n + 1) : k \in 1..(1 + n) /\ ~(k <= 1)
    BY <1>3
  <2>4. qs = one \o ps
    BY DEF one
  <2> HIDE DEF qs
  <2> QED
    BY <1>3, <2>1, <2>2, <2>3, <2>4 DEF one
<1> HIDE DEF qs, n
<1>5. Frame(p) \o s \in Seq(Byte)
  <2>1. s \in Seq(Byte)
    BY FramedTyped
  <2> QED
    BY <1>3, <2>1, ConcatProperties
<1> DEFINE f == Frame(p) \o s
<1> HIDE DEF f
<1> DEFINE e == [k \in 1..(n + 2) |-> IF k = 1 THEN f ELSE g[k - 1]]
<1>6. e \in [1..(n + 2) -> Seq(Byte)]
  <2>1. \A k \in 1..(n + 2) : k # 1 => k - 1 \in 1..(n + 1)
    BY <1>3
  <2> QED
    BY <1>2, <1>5, <2>1 DEF f
<1>7. \A k \in 2..(n + 2) : e[k] = g[k - 1]
  BY <1>3
<1>8. e[1] = f
  BY <1>3
<1> HIDE DEF e
<1>9. ASSUME NEW k \in 1..(n + 1)
      PROVE  e[k] = Frame(qs[k]) \o e[k + 1]
  <2>1. k + 1 \in 2..(n + 2) /\ k + 1 - 1 = k
    BY <1>3
  <2>2. e[k + 1] = g[k]
    BY <1>7, <2>1
  <2>3. CASE k = 1
    BY <1>2, <1>4, <1>8, <2>2, <2>3 DEF f
  <2>4. CASE k # 1
    <3>1. k \in 2..(n + 2) /\ k \in 2..(n + 1) /\ k - 1 \in 1..n /\ k - 1 + 1 = k
      BY <1>3, <2>4
    <3>2. e[k] = g[k - 1] /\ qs[k] = ps[k - 1] /\ g[k - 1] = Frame(ps[k - 1]) \o g[k]
      BY <1>2, <1>4, <1>7, <3>1
    <3> QED
      BY <2>2, <3>2
  <2> QED
    BY <2>3, <2>4
<1>10. e[n + 2] = t
  <2> DEFINE m == n + 2
  <2>1. m \in 2..(n + 2) /\ m - 1 = n + 1
    BY <1>3
  <2> HIDE DEF m
  <2>2. e[m] = g[m - 1]
    BY <1>7, <2>1
  <2> QED
    BY <1>2, <2>1, <2>2 DEF m
<1>11. IsFramed(f, qs, t, e)
  <2>1. Len(qs) + 1 = n + 2
    BY <1>3, <1>4
  <2> QED
    BY <1>4, <1>6, <1>8, <1>9, <1>10, <2>1 DEF IsFramed
<1> QED
  BY <1>11 DEF Framed, f, qs

LEMMA FramedFirst ==
  ASSUME NEW ps \in Seq(Packets), NEW s, NEW t, Framed(s, ps, t), ps # <<>>
  PROVE  \E u \in Seq(Byte) : s = Frame(Head(ps)) \o u /\ Framed(u, Tail(ps), t)
<1> DEFINE n == Len(ps)
           qs == Tail(ps)
<1>1. PICK g : IsFramed(s, ps, t, g)
  BY DEF Framed
<1>2. /\ g \in [1..(n + 1) -> Seq(Byte)] /\ g[1] = s /\ g[n + 1] = t
      /\ \A k \in 1..n : g[k] = Frame(ps[k]) \o g[k + 1]
  BY <1>1 DEF IsFramed
<1>3. /\ n \in Nat \ {0} /\ Head(ps) = ps[1] /\ qs \in Seq(Packets) /\ Len(qs) = n - 1
      /\ \A k \in 1..(n - 1) : qs[k] = ps[k + 1]
  BY HeadTailProperties, EmptySeq
<1> HIDE DEF n, qs
<1> DEFINE e == [k \in 1..n |-> g[k + 1]]
<1>4. e \in [1..n -> Seq(Byte)] /\ \A k \in 1..n : e[k] = g[k + 1]
  <2>1. \A k \in 1..n : k + 1 \in 1..(n + 1)
    BY <1>3
  <2> QED
    BY <1>2, <2>1
<1> HIDE DEF e
<1>5. g[1] = Frame(ps[1]) \o g[2]
  <2>1. 1 \in 1..n /\ 1 + 1 = 2
    BY <1>3
  <2> QED
    BY <1>2, <2>1
<1>6. ASSUME NEW k \in 1..(n - 1)
      PROVE  e[k] = Frame(qs[k]) \o e[k + 1]
  <2>1. k \in 1..n /\ k + 1 \in 1..n
    BY <1>3
  <2>2. e[k] = g[k + 1] /\ e[k + 1] = g[(k + 1) + 1]
    BY <1>4, <2>1
  <2>3. g[k + 1] = Frame(ps[k + 1]) \o g[(k + 1) + 1]
    BY <1>2, <2>1
  <2> QED
    BY <1>3, <2>2, <2>3
<1>7. e[1] = g[2] /\ e[n] = t
  <2>1. 1 \in 1..n /\ n \in 1..n /\ 1 + 1 = 2
    BY <1>3
  <2> QED
    BY <1>2, <1>4, <2>1
<1>8. IsFramed(g[2], qs, t, e)
  <2>1. Len(qs) + 1 = n
    BY <1>3
  <2> QED
    BY <1>3, <1>4, <1>6, <1>7, <2>1 DEF IsFramed
<1>9. g[2] \in Seq(Byte)
  <2>1. 2 \in 1..(n + 1)
    BY <1>3
  <2> QED
    BY <1>2, <2>1
<1> QED
  BY <1>2, <1>3, <1>5, <1>8, <1>9 DEF Framed, qs

LEMMA FramedMore ==
  ASSUME NEW p \in Packets, NEW ps \in Seq(Packets), NEW s, Framed(s, ps, <<>>)
  PROVE  Framed(s \o Frame(p), Append(ps, p), <<>>)
<1> DEFINE n == Len(ps)
           qs == Append(ps, p)
           f == Frame(p)
<1>1. PICK g : IsFramed(s, ps, <<>>, g)
  BY DEF Framed
<1>2. /\ g \in [1..(n + 1) -> Seq(Byte)] /\ g[1] = s /\ g[n + 1] = <<>>
      /\ \A k \in 1..n : g[k] = Frame(ps[k]) \o g[k + 1]
  BY <1>1 DEF IsFramed
<1>3. /\ n \in Nat /\ qs \in Seq(Packets) /\ Len(qs) = n + 1
      /\ \A k \in 1..n : qs[k] = ps[k]
      /\ qs[n + 1] = p
  BY AppendProperties, LenProperties
<1>4. f \in Seq(Byte) /\ \A k \in 1..n : Frame(ps[k]) \in Seq(Byte)
  BY Frames, ElementOfSeq
<1> HIDE DEF n, qs
<1>5. f = Frame(qs[n + 1])
  BY <1>3
<1> HIDE DEF f
<1> DEFINE e == [k \in 1..(n + 2) |-> IF k = n + 2 THEN <<>> ELSE g[k] \o f]
<1>6. /\ e \in [1..(n + 2) -> Seq(Byte)] /\ e[n + 2] = <<>>
      /\ \A k \in 1..(n + 1) : e[k] = g[k] \o f
  <2>1. \A k \in 1..(n + 1) : g[k] \o f \in Seq(Byte)
    <3>1. ASSUME NEW k \in 1..(n + 1)
          PROVE  g[k] \o f \in Seq(Byte)
      <4>1. g[k] \in Seq(Byte)
        BY <1>2
      <4> QED
        BY <1>4, <4>1, ConcatProperties
    <3> QED
      BY <3>1
  <2>2. \A k \in 1..(n + 2) : k # n + 2 => k \in 1..(n + 1)
    BY <1>3
  <2>3. n + 2 \in 1..(n + 2) /\ \A k \in 1..(n + 1) : k \in 1..(n + 2) /\ k # n + 2
    BY <1>3
  <2> QED
    BY <2>1, <2>2, <2>3
<1> HIDE DEF e
<1>7. ASSUME NEW k \in 1..(n + 1)
      PROVE  e[k] = Frame(qs[k]) \o e[k + 1]
  <2>1. CASE k = n + 1
    <3>1. e[k + 1] = <<>> /\ e[k] = <<>> \o f
      <4>1. k + 1 = n + 2
        BY <1>3, <2>1
      <4> QED
        BY <1>2, <1>6, <2>1, <4>1
    <3>2. <<>> \o f = f /\ f \o <<>> = f
      BY <1>4, ConcatEmptySeq
    <3> QED
      BY <1>5, <2>1, <3>1, <3>2
  <2>2. CASE k # n + 1
    <3>1. k \in 1..n /\ k + 1 \in 1..(n + 1)
      BY <1>3, <2>2
    <3>2. e[k] = g[k] \o f /\ e[k + 1] = g[k + 1] \o f /\ g[k] = Frame(ps[k]) \o g[k + 1]
      BY <1>2, <1>6, <3>1
    <3>3. (Frame(ps[k]) \o g[k + 1]) \o f = Frame(ps[k]) \o (g[k + 1] \o f)
      <4>1. Frame(ps[k]) \in Seq(Byte) /\ g[k + 1] \in Seq(Byte)
        BY <1>2, <1>4, <3>1
      <4> QED
        <5>1. Associates(Frame(ps[k]), g[k + 1], f)
          BY <1>4, <4>1, BytesAssociate
        <5> QED
          BY <1>4, <4>1, <5>1, Zenon DEF Associates
    <3> QED
      BY <1>3, <3>1, <3>2, <3>3
  <2> QED
    BY <2>1, <2>2
<1>8. e[1] = s \o f
  <2>1. 1 \in 1..(n + 1)
    BY <1>3
  <2> QED
    BY <1>2, <1>6, <2>1
<1>9. IsFramed(s \o f, qs, <<>>, e)
  <2>1. Len(qs) + 1 = n + 2
    BY <1>3
  <2> QED
    BY <1>3, <1>6, <1>7, <1>8, <2>1 DEF IsFramed
<1> QED
  BY <1>9 DEF Framed, qs, f

(* What a connection that is lost leaves of a packet. *)
IsCut(t) ==
  t = <<>> \/ \E q \in Packets : \E u \in Seq(Byte) : u # <<>> /\ t \o u = Frame(q)

(* The bytes a are the first ones of the packets ps. *)
CutTo(a, ps) ==
  \E qs, lost \in Seq(Packets) : \E t \in Seq(Byte) :
    /\ ps = qs \o lost
    /\ Framed(a, qs, t) /\ IsCut(t)
    /\ t # <<>> => lost # <<>>

LEMMA CutFirst ==
  ASSUME NEW ps \in Seq(Packets), ps # <<>>, NEW a \in Seq(Byte), NEW b \in Seq(Byte),
         Framed(a \o b, ps, <<>>),
         \A c \in Seq(Byte) : Framed(c \o b, Tail(ps), <<>>) => CutTo(c, Tail(ps))
  PROVE  CutTo(a, ps)
<1> DEFINE p == Head(ps)
           rest == Tail(ps)
           f == Frame(p)
<1>1. p \in Packets /\ rest \in Seq(Packets) /\ <<p>> \in Seq(Packets) /\ ps = <<p>> \o rest
  BY FirstAndRest
<1>2. PICK u \in Seq(Byte) : a \o b = f \o u /\ Framed(u, rest, <<>>)
  BY FramedFirst
<1>3. f \in Seq(Byte) /\ Len(f) \in Nat /\ Len(a) \in Nat
  BY <1>1, Frames, LenProperties
<1>4. CASE Len(a) < Len(f)
  <2> HIDE DEF f
  <2>1. PICK c \in Seq(Byte) : f = a \o c /\ b = c \o u
    <3>1. SameJoined(f, u, a, b)
      BY <1>2, Zenon DEF SameJoined
    <3>2. Len(a) <= Len(f)
      BY <1>3, <1>4
    <3>3. Extends(f, u, a, b)
      BY <1>3, <3>1, <3>2, LongerFront
    <3> QED
      BY <3>3 DEF Extends
  <2>2. c # <<>>
    <3>1. Len(f) = Len(a) + Len(c)
      BY <2>1, ConcatProperties
    <3>2. Len(<<>>) = 0
      BY EmptySeq
    <3> QED
      BY <1>3, <1>4, <3>1, <3>2
  <2>3. IsCut(a)
    BY <1>1, <2>1, <2>2, Zenon DEF IsCut, f
  <2>4. Framed(a, <<>>, a) /\ <<>> \in Seq(Packets) /\ <<>> \o ps = ps
    BY FramedNothing, ConcatEmptySeq, EmptySeq
  <2> QED
    BY <2>3, <2>4 DEF CutTo
<1>5. CASE ~(Len(a) < Len(f))
  <2> HIDE DEF f
  <2>1. PICK c \in Seq(Byte) : a = f \o c /\ u = c \o b
    <3>1. SameJoined(a, b, f, u)
      BY <1>2, Zenon DEF SameJoined
    <3>2. Len(f) <= Len(a)
      BY <1>3, <1>5
    <3>3. Extends(a, b, f, u)
      BY <1>3, <3>1, <3>2, LongerFront
    <3> QED
      BY <3>3 DEF Extends
  <2>2. CutTo(c, rest)
    BY <1>2, <2>1
  <2> HIDE DEF p, rest
  <2>3. PICK qs \in Seq(Packets), lost \in Seq(Packets) : \E t \in Seq(Byte) :
               /\ rest = qs \o lost
               /\ Framed(c, qs, t) /\ IsCut(t)
               /\ t # <<>> => lost # <<>>
    BY <2>2 DEF CutTo
  <2>4. PICK t \in Seq(Byte) :
               /\ rest = qs \o lost
               /\ Framed(c, qs, t) /\ IsCut(t)
               /\ t # <<>> => lost # <<>>
    BY <2>3
  <2> DEFINE one == <<p>>
             more == one \o qs
  <2> HIDE DEF one
  <2>5. Framed(a, more, t)
    <3>1. Framed(f \o c, <<p>> \o qs, t)
      BY <1>1, <2>4, FramedBefore DEF f
    <3> QED
      BY <2>1, <3>1 DEF one
  <2>6. more \in Seq(Packets)
    BY <1>1, ConcatProperties DEF one
  <2>7. ps = more \o lost
    <3>1. one \in Seq(Packets) /\ ps = one \o rest
      BY <1>1 DEF one
    <3>2. (one \o qs) \o lost = one \o (qs \o lost)
      <4>1. Associates(one, qs, lost)
        BY <3>1, PacketsAssociate
      <4> QED
        BY <4>1, Zenon DEF Associates
    <3> QED
      BY <2>4, <3>1, <3>2, Zenon
  <2> HIDE DEF more
  <2> QED
    BY <2>4, <2>5, <2>6, <2>7 DEF CutTo
<1> QED
  BY <1>4, <1>5

(* The first bytes of packets are the first packets, and of the next one   *)
(* not all.                                                                *)
LEMMA FramedCut ==
  ASSUME NEW ps \in Seq(Packets), NEW a \in Seq(Byte), NEW b \in Seq(Byte),
         Framed(a \o b, ps, <<>>)
  PROVE  CutTo(a, ps)
<1> DEFINE Wrong(n, qs) == Len(qs) = n /\ \E c \in Seq(Byte) : Framed(c \o b, qs, <<>>) /\ ~CutTo(c, qs)
           T == {n \in Nat : \E qs \in Seq(Packets) : Wrong(n, qs)}
<1>1. ASSUME T # {}
      PROVE  FALSE
  <2>1. PICK n \in T : \A m \in T : n <= m
    <3>1. T \in SUBSET Nat
      OBVIOUS
    <3> HIDE DEF T
    <3> QED
      BY <1>1, <3>1, LeastNumber
  <2>2. PICK qs \in Seq(Packets) : Wrong(n, qs)
    BY <2>1
  <2>3. PICK c \in Seq(Byte) : Framed(c \o b, qs, <<>>) /\ ~CutTo(c, qs)
    BY <2>2
  <2>4. n \in Nat /\ Len(qs) = n
    BY <2>1, <2>2
  <2>5. CASE qs = <<>>
    <3>1. c \o b = <<>> /\ <<>> \in Seq(Byte)
      BY <2>3, <2>5, FramedNothing, EmptySeq
    <3>2. c = <<>>
      BY <3>1, ConcatEqualIffEmpty
    <3>3. Framed(<<>>, <<>>, <<>>) /\ IsCut(<<>>) /\ <<>> \in Seq(Packets) /\ <<>> \o <<>> = <<>>
      BY <3>1, FramedNothing, EmptySeq, ConcatEmptySeq DEF IsCut
    <3>4. CutTo(<<>>, <<>>)
      BY <3>1, <3>3 DEF CutTo
    <3> QED
      BY <2>3, <2>5, <3>2, <3>4
  <2>6. CASE qs # <<>>
    <3>1. Tail(qs) \in Seq(Packets) /\ Len(Tail(qs)) = n - 1 /\ n - 1 \in Nat
      BY <2>4, <2>6, FirstAndRest
    <3>2. n - 1 \notin T
      BY <2>1, <2>4, <3>1
    <3>3. \A d \in Seq(Byte) : Framed(d \o b, Tail(qs), <<>>) => CutTo(d, Tail(qs))
      BY <3>1, <3>2
    <3> HIDE DEF T
    <3> QED
      BY <2>3, <2>6, <3>3, CutFirst
  <2> QED
    BY <2>5, <2>6
<1>2. Len(ps) \in Nat /\ Len(ps) \notin T
  <2> HIDE DEF T
  <2> QED
    BY <1>1, LenProperties
<1> QED
  BY <1>2

-----------------------------------------------------------------------------
(* What Packed() finds. *)

LEMMA MiddleOf ==
  ASSUME NEW S, NEW a \in Seq(S), NEW m \in Seq(S), NEW b \in Seq(S)
  PROVE  SubSeq(a \o (m \o b), Len(a) + 1, Len(a) + Len(m)) = m
<1> DEFINE w == m \o b
           s == a \o w
           i == Len(a) + 1
           j == Len(a) + Len(m)
<1>1. /\ Len(a) \in Nat /\ Len(m) \in Nat /\ Len(b) \in Nat
      /\ w \in Seq(S) /\ Len(w) = Len(m) + Len(b)
      /\ \A k \in 1..(Len(m) + Len(b)) : w[k] = IF k <= Len(m) THEN m[k] ELSE b[k - Len(m)]
  BY ConcatProperties, LenProperties
<1> HIDE DEF w
<1>2. /\ s \in Seq(S) /\ Len(s) = Len(a) + Len(w)
      /\ \A k \in 1..(Len(a) + Len(w)) : s[k] = IF k <= Len(a) THEN a[k] ELSE w[k - Len(a)]
  <2>1. w \in Seq(S)
    BY <1>1
  <2> QED
    BY ONLY <2>1, a \in Seq(S), ConcatProperties
<1> HIDE DEF s
<1>3. ASSUME NEW k \in 1..Len(m)
      PROVE  Len(a) + k \in i..j /\ s[Len(a) + k] = m[k]
  <2>1. /\ Len(a) + k \in 1..(Len(a) + Len(w)) /\ ~(Len(a) + k <= Len(a)) /\ (Len(a) + k) - Len(a) = k
        /\ k \in 1..(Len(m) + Len(b)) /\ k <= Len(m) /\ Len(a) + k \in i..j
    BY <1>1
  <2>2. s[Len(a) + k] = w[(Len(a) + k) - Len(a)]
    BY <1>2, <2>1
  <2>3. w[k] = m[k]
    BY <1>1, <2>1
  <2> QED
    BY <2>1, <2>2, <2>3
<1>4. i \in Int /\ j \in Int /\ j - i + 1 = Len(m) /\ (i <= j <=> Len(m) # 0)
  BY <1>1
<1>5. \A k \in i..j : s[k] \in S
  <2>1. Len(a) \in Nat /\ Len(m) \in Nat /\ Len(b) \in Nat /\ Len(s) = Len(a) + (Len(m) + Len(b))
    BY <1>1, <1>2
  <2>2. \A k \in i..j : k \in 1..Len(s)
    BY ONLY <2>1
  <2> QED
    BY <1>2, <2>2, ElementOfSeq
<1> DEFINE r == SubSeq(s, i, j)
<1>6. /\ r \in Seq(S) /\ Len(r) = IF i <= j THEN j - i + 1 ELSE 0
      /\ \A k \in 1..(j - i + 1) : r[k] = s[i + k - 1]
  BY <1>4, <1>5, SubSeqProperties
<1> HIDE DEF r
<1>7. Len(r) = Len(m)
  BY <1>1, <1>4, <1>6
<1>8. ASSUME NEW k \in 1..Len(r)
      PROVE  r[k] = m[k]
  <2>1. k \in 1..Len(m) /\ k \in 1..(j - i + 1) /\ i + k - 1 = Len(a) + k
    BY <1>1, <1>4, <1>7
  <2>2. r[k] = s[i + k - 1]
    BY <1>6, <2>1
  <2> QED
    BY <1>3, <2>1, <2>2
<1>9. r = m
  BY <1>6, <1>7, <1>8, SeqEqual
<1> QED
  BY <1>9 DEF r, s, w, i, j

(* A header in the middle. *)
InTwo(s, a, b) == s = a \o b
Amid(s, a, h, b) == s = a \o (h \o b)

LEMMA SizeIn ==
  ASSUME NEW a \in Seq(Byte), NEW p \in Packets, NEW b \in Seq(Byte), NEW s,
         Amid(s, a, Header(Len(p)), b)
  PROVE  SizeAt(s, Len(a) + 1) = Len(p)
<1> DEFINE h == Header(Len(p))
           i == Len(a) + 1
<1>1. h \in Seq(Byte) /\ Len(h) = HeaderSize /\ Number(h) = Len(p)
  BY Frames
<1>2. Len(a) \in Nat /\ HeaderSize \in Nat
  BY FramingAssumption, LenProperties
<1> HIDE DEF h
<1>3. SubSeq(s, i, Len(a) + Len(h)) = h
  <2>1. SubSeq(a \o (h \o b), i, Len(a) + Len(h)) = h
    BY <1>1, MiddleOf
  <2> QED
    BY <2>1, Zenon DEF h, Amid
<1>4. i + HeaderSize - 1 = Len(a) + Len(h)
  BY <1>1, <1>2
<1>5. SizeAt(s, i) = Number(h)
  BY <1>3, <1>4, Zenon DEF SizeAt
<1> QED
  BY <1>1, <1>5 DEF h

(* After the bytes a comes the packet p, and then the bytes u. *)
FindsPacket(s, a, p, u) ==
  /\ s \in Seq(Byte) /\ a \o Frame(p) \in Seq(Byte) /\ s = (a \o Frame(p)) \o u
  /\ Len(a) + 1 \in 1..(Len(s) + 1)
  /\ HasPacket(s, Len(a) + 1)
  /\ PacketAt(s, Len(a) + 1) = p
  /\ EndAt(s, Len(a) + 1) + 1 = Len(a \o Frame(p)) + 1

LEMMA PacketIn ==
  ASSUME NEW a \in Seq(Byte), NEW p \in Packets, NEW u \in Seq(Byte), NEW s,
         Amid(s, a, Frame(p), u)
  PROVE  FindsPacket(s, a, p, u)
<1> DEFINE h == Header(Len(p))
           i == Len(a) + 1
           f == Frame(p)
           b == a \o f
           ah == a \o h
           pu == p \o u
<1>1. /\ h \in Seq(Byte) /\ Len(h) = HeaderSize /\ p \in Seq(Byte)
      /\ f \in Seq(Byte) /\ Len(f) = HeaderSize + Len(p)
  BY Frames
<1>2. Len(a) \in Nat /\ HeaderSize \in Nat \ {0} /\ Len(p) \in Nat /\ Len(u) \in Nat
  BY Frames, FramingAssumption, LenProperties
<1>3. f = h \o p
  BY DEF Frame
<1> HIDE DEF h, f
<1>4. b \in Seq(Byte) /\ Len(b) = Len(a) + Len(f)
  BY <1>1, ConcatProperties
<1>5. ah \in Seq(Byte) /\ Len(ah) = Len(a) + Len(h)
  BY <1>1, ConcatProperties
<1>6. pu \in Seq(Byte)
  BY <1>1, ConcatProperties
<1>7. s = b \o u
  <2>1. s = a \o (f \o u)
    BY Zenon DEF f, Amid
  <2> QED
    <3>1. Associates(a, f, u)
      BY <1>1, <2>1, BytesAssociate
    <3> QED
      BY <1>1, <2>1, <3>1, Zenon DEF Associates
<1>8. f \o u = h \o pu
  <2>1. (h \o p) \o u = h \o (p \o u)
    <3>1. Associates(h, p, u)
      BY <1>1, BytesAssociate
    <3> QED
      BY <3>1, Zenon DEF Associates
  <2> QED
    BY <1>3, <2>1, Zenon
<1>9. s = a \o (h \o pu)
  <2>1. s = a \o (f \o u)
    BY Zenon DEF f, Amid
  <2> QED
    BY <1>8, <2>1, Zenon
<1>10. s = ah \o pu
  <2>1. Associates(a, h, pu)
    BY <1>1, <1>6, <1>9, BytesAssociate
  <2> QED
    BY <1>9, <2>1, Zenon DEF Associates
<1>11. SizeAt(s, i) = Len(p)
  <2>1. Amid(s, a, Header(Len(p)), pu)
    BY <1>9, Zenon DEF h, Amid
  <2> HIDE DEF pu
  <2> QED
    BY <1>6, <2>1, SizeIn
<1> HIDE DEF b, ah, pu
<1>12. s \in Seq(Byte) /\ Len(s) = Len(b) + Len(u)
  <2>1. b \o u \in Seq(Byte) /\ Len(b \o u) = Len(b) + Len(u)
    BY <1>4, ConcatProperties
  <2> QED
    BY <1>7, <2>1, Zenon
<1>13. Len(s) = Len(a) + HeaderSize + Len(p) + Len(u) /\ Len(b) = Len(a) + HeaderSize + Len(p)
  BY <1>1, <1>2, <1>4, <1>12
<1>14. EndAt(s, i) = Len(a) + HeaderSize + Len(p)
  <2>1. EndAt(s, i) = i + HeaderSize + Len(p) - 1
    BY <1>11, Zenon DEF EndAt
  <2> QED
    BY ONLY <1>2, <2>1
<1>15. /\ i + HeaderSize - 1 <= Len(s) /\ EndAt(s, i) <= Len(s)
       /\ i \in 1..(Len(s) + 1) /\ EndAt(s, i) + 1 = Len(b) + 1
  BY ONLY <1>2, <1>13, <1>14
<1>16. PacketAt(s, i) = p
  <2>1. SubSeq(ah \o pu, Len(ah) + 1, Len(ah) + Len(p)) = p
    BY <1>1, <1>5, MiddleOf DEF pu
  <2>2. i + HeaderSize = Len(ah) + 1 /\ EndAt(s, i) = Len(ah) + Len(p)
    BY <1>1, <1>2, <1>5, <1>14
  <2> QED
    BY <1>10, <2>1, <2>2, Zenon DEF PacketAt
<1>17. HasPacket(s, i)
  BY <1>15, Zenon DEF HasPacket
<1> QED
  BY <1>4, <1>7, <1>12, <1>15, <1>16, <1>17, Zenon DEF FindsPacket, b, f

LEMMA NoPacketIn ==
  ASSUME NEW a \in Seq(Byte), NEW t \in Seq(Byte), IsCut(t), NEW s, InTwo(s, a, t)
  PROVE  ~HasPacket(s, Len(a) + 1)
<1> DEFINE i == Len(a) + 1
<1>1. Len(s) = Len(a) + Len(t) /\ Len(a) \in Nat /\ Len(t) \in Nat /\ HeaderSize \in Nat \ {0}
  BY ConcatProperties, LenProperties, FramingAssumption DEF InTwo
<1>2. SUFFICES ASSUME HasPacket(s, i)
               PROVE  FALSE
  OBVIOUS
<1>3. HeaderSize <= Len(t)
  <2>1. i + HeaderSize - 1 <= Len(s)
    BY <1>2 DEF HasPacket
  <2> QED
    BY <1>1, <2>1
<1>4. t # <<>>
  BY <1>1, <1>3, EmptySeq
<1>5. PICK q \in Packets : \E u \in Seq(Byte) : u # <<>> /\ t \o u = Frame(q)
  BY <1>4 DEF IsCut
<1>6. PICK u \in Seq(Byte) : u # <<>> /\ t \o u = Frame(q)
  BY <1>5
<1> DEFINE h == Header(Len(q))
<1>7. /\ h \in Seq(Byte) /\ Len(h) = HeaderSize /\ q \in Seq(Byte) /\ Len(q) \in Nat
      /\ Len(Frame(q)) = HeaderSize + Len(q)
  BY Frames
<1> HIDE DEF h
<1>8. Len(t) < HeaderSize + Len(q)
  <2>1. Len(t \o u) = Len(t) + Len(u)
    BY ConcatProperties
  <2>2. Len(u) \in Nat \ {0}
    BY <1>6, EmptySeq
  <2>3. Len(t) + Len(u) = HeaderSize + Len(q)
    BY <1>6, <1>7, <2>1
  <2> QED
    BY <1>1, <1>7, <2>2, <2>3
<1>9. PICK c \in Seq(Byte) : t = h \o c
  <2>1. SameJoined(t, u, h, q)
    BY <1>6, Zenon DEF SameJoined, Frame, h
  <2>2. Len(h) <= Len(t)
    BY <1>3, <1>7
  <2>3. Extends(t, u, h, q)
    BY <1>7, <2>1, <2>2, LongerFront
  <2> QED
    BY <2>3 DEF Extends
<1>10. SizeAt(s, i) = Len(q)
  <2>1. Amid(s, a, Header(Len(q)), c)
    BY <1>9, Zenon DEF h, Amid, InTwo
  <2> QED
    BY <2>1, SizeIn
<1>11. EndAt(s, i) = i + HeaderSize + Len(q) - 1
  BY <1>10, Zenon DEF EndAt
<1>12. EndAt(s, i) <= Len(s)
  BY <1>2 DEF HasPacket
<1> QED
  BY <1>1, <1>7, <1>8, <1>11, <1>12

LEMMA EndIsLater ==
  ASSUME NEW s \in Seq(Byte), NEW i \in 1..(Len(s) + 1), HasPacket(s, i)
  PROVE  EndAt(s, i) + 1 \in (i + 1)..(Len(s) + 1)
<1> DEFINE j == i + HeaderSize - 1
           h == SubSeq(s, i, j)
<1>1. Len(s) \in Nat /\ HeaderSize \in Nat \ {0} /\ j <= Len(s) /\ EndAt(s, i) <= Len(s)
  BY LenProperties, FramingAssumption DEF HasPacket
<1>2. \A k \in i..j : s[k] \in Byte
  <2>1. \A k \in i..j : k \in 1..Len(s)
    BY <1>1
  <2> QED
    BY <2>1, ElementOfSeq
<1>3. h \in Seq(Byte) /\ Len(h) = HeaderSize
  <2>1. i \in Int /\ j \in Int /\ i <= j /\ j - i + 1 = HeaderSize
    BY <1>1
  <2>2. h \in Seq(Byte) /\ Len(h) = IF i <= j THEN j - i + 1 ELSE 0
    BY <1>2, <2>1, SubSeqProperties
  <2> HIDE DEF h, j
  <2> QED
    BY <2>1, <2>2
<1>4. SizeAt(s, i) \in Nat
  <2> HIDE DEF h
  <2>1. h \in [1..HeaderSize -> Byte] /\ Byte \subseteq Nat
    <3>1. h \in [1..Len(h) -> Byte]
      BY <1>3, LenProperties
    <3> QED
      BY <1>3, <3>1 DEF Byte
  <2>2. h \in [1..HeaderSize -> Nat]
    BY <2>1
  <2>3. Number(h) \in Nat
    <3>1. HeaderSize \in 0..HeaderSize
      BY <1>1
    <3> QED
      BY <2>2, <3>1, NumberIsSum
  <2> QED
    BY <2>3 DEF h, SizeAt
<1> DEFINE n == SizeAt(s, i)
<1>5. EndAt(s, i) = i + HeaderSize + n - 1
  BY DEF EndAt
<1> HIDE DEF n
<1> QED
  BY <1>1, <1>4, <1>5 DEF n

(* The packets from i on, of which Packed() takes those from 1 on. *)
FoundAt(s, f, i) == IF HasPacket(s, i) THEN <<PacketAt(s, i)>> \o f[EndAt(s, i) + 1] ELSE <<>>

(* The same for the last n bytes. *)
IsFound(s, n, f) == f = [i \in (Len(s) + 1 - n)..(Len(s) + 1) |-> FoundAt(s, f, i)]

LEMMA FoundExists ==
  ASSUME NEW s \in Seq(Byte), NEW n \in 0..Len(s)
  PROVE  \E f : IsFound(s, n, f)
<1> DEFINE T == {m \in 0..Len(s) : ~\E f : IsFound(s, m, f)}
<1>1. SUFFICES ASSUME T # {} PROVE FALSE
  OBVIOUS
<1>2. Len(s) \in Nat
  BY LenProperties
<1>3. PICK m \in T : \A y \in T : m <= y
  <2>1. T \in SUBSET Nat
    BY <1>2
  <2> HIDE DEF T
  <2> QED
    BY <1>1, <2>1, LeastNumber
<1>4. m \in 0..Len(s) /\ ~\E f : IsFound(s, m, f)
  BY <1>3
<1>5. m \in 0..Len(s)
  BY <1>4
<1> DEFINE k == Len(s) + 1 - m
<1>6. k \in 1..(Len(s) + 1)
  BY ONLY <1>2, <1>5
<1>7. PICK g : /\ \A i \in (k + 1)..(Len(s) + 1) : g[i] = FoundAt(s, g, i)
  <2>1. CASE m = 0
    <3>1. (k + 1)..(Len(s) + 1) = {}
      BY ONLY <1>2, <2>1
    <3> QED
      BY <3>1
  <2>2. CASE m # 0
    <3>1. m - 1 \in 0..Len(s) /\ ~(m <= m - 1)
      BY ONLY <1>2, <1>5, <2>2
    <3>2. m - 1 \notin T
      <4> HIDE DEF T
      <4> QED
        BY <1>3, <3>1
    <3>3. PICK g : IsFound(s, m - 1, g)
      BY <3>1, <3>2
    <3>4. Len(s) + 1 - (m - 1) = k + 1
      BY ONLY <1>2, <1>5
    <3> HIDE DEF k
    <3>5. g = [i \in (k + 1)..(Len(s) + 1) |-> FoundAt(s, g, i)]
      BY <3>3, <3>4, Zenon DEF IsFound
    <3> QED
      BY <3>5, Zenon
  <2> QED
    BY <2>1, <2>2
<1> HIDE DEF T, k
<1> DEFINE S == k..(Len(s) + 1)
           v == FoundAt(s, g, k)
           e == [i \in S |-> IF i = k THEN v ELSE g[i]]
<1>8. k \in S /\ \A i \in S : i # k => i \in (k + 1)..(Len(s) + 1)
  BY ONLY <1>2, <1>6
<1> HIDE DEF v
<1>9. \A i \in (k + 1)..(Len(s) + 1) : e[i] = g[i]
  <2>1. \A i \in (k + 1)..(Len(s) + 1) : i \in S /\ i # k
    BY ONLY <1>2, <1>6
  <2> QED
    BY <2>1
<1>10. e[k] = v
  BY <1>8
<1>11. ASSUME NEW i \in S
       PROVE  FoundAt(s, e, i) = FoundAt(s, g, i)
  <2>1. CASE HasPacket(s, i)
    <3>1. i \in 1..(Len(s) + 1)
      BY ONLY <1>2, <1>6, i \in S
    <3> DEFINE j == EndAt(s, i) + 1
    <3>2. j \in (i + 1)..(Len(s) + 1)
      BY <2>1, <3>1, EndIsLater
    <3> HIDE DEF j, e
    <3>3. j \in (k + 1)..(Len(s) + 1)
      BY ONLY <1>2, <1>6, <3>1, <3>2, i \in S
    <3>4. e[j] = g[j]
      BY <1>9, <3>3
    <3> QED
      BY <3>4, Zenon DEF FoundAt, j
  <2>2. CASE ~HasPacket(s, i)
    BY <2>2, Zenon DEF FoundAt
  <2> QED
    BY <2>1, <2>2
<1>12. ASSUME NEW i \in S
       PROVE  e[i] = FoundAt(s, e, i)
  <2> HIDE DEF e
  <2>1. CASE i = k
    BY <1>10, <1>11, <2>1, Zenon DEF v
  <2>2. CASE i # k
    BY <1>7, <1>8, <1>9, <1>11, <2>2, Zenon
  <2> QED
    BY <2>1, <2>2
<1>13. e = [i \in S |-> FoundAt(s, e, i)]
  <2> DEFINE h == [i \in S |-> FoundAt(s, e, i)]
  <2>1. e = [i \in S |-> e[i]] /\ \A i \in S : h[i] = e[i]
    BY <1>12
  <2>2. h = [i \in S |-> h[i]] /\ DOMAIN h = S
    OBVIOUS
  <2> HIDE DEF h, S
  <2>3. DOMAIN e = S
    OBVIOUS
  <2> HIDE DEF e
  <2>4. h = e
    BY <2>1, <2>2, <2>3
  <2> QED
    BY <2>4 DEF h
<1>14. IsFound(s, m, e)
  BY <1>13, Zenon DEF IsFound, k, S
<1> QED
  BY <1>4, <1>14

LEMMA PackedIsFound ==
  ASSUME NEW s \in Seq(Byte)
  PROVE  \E f : Packed(s) = f[1] /\ \A i \in 1..(Len(s) + 1) : f[i] = FoundAt(s, f, i)
<1> DEFINE Is(f) == f = [i \in 1..(Len(s) + 1) |->
                          IF HasPacket(s, i) THEN <<PacketAt(s, i)>> \o f[EndAt(s, i) + 1] ELSE <<>>]
           f0 == CHOOSE f : Is(f)
<1>1. Len(s) \in Nat
  BY LenProperties
<1>2. Len(s) \in 0..Len(s) /\ Len(s) + 1 - Len(s) = 1
  BY <1>1
<1>3. \E f : IsFound(s, Len(s), f)
  BY <1>2, FoundExists
<1>4. \E f : Is(f)
  BY <1>2, <1>3, Zenon DEF IsFound, FoundAt
<1>5. Is(f0)
  <2> HIDE DEF Is
  <2> QED
    BY <1>4, Zenon
<1>6. Packed(s) = f0[1]
  BY Zenon DEF Packed
<1> HIDE DEF f0
<1>7. \A i \in 1..(Len(s) + 1) : f0[i] = FoundAt(s, f0, i)
  BY <1>5, Zenon DEF FoundAt
<1> QED
  BY <1>6, <1>7

(* The packets that are framed are found, wherever they begin. *)
LEMMA FoundFramed ==
  ASSUME NEW s \in Seq(Byte), NEW f, \A i \in 1..(Len(s) + 1) : f[i] = FoundAt(s, f, i),
         NEW ps \in Seq(Packets), NEW a \in Seq(Byte), NEW u \in Seq(Byte), NEW t \in Seq(Byte),
         InTwo(s, a, u), Framed(u, ps, t), IsCut(t)
  PROVE  f[Len(a) + 1] = ps
<1> DEFINE Wrong(n, qs) ==
             /\ Len(qs) = n
             /\ \E b, v \in Seq(Byte) : InTwo(s, b, v) /\ Framed(v, qs, t) /\ f[Len(b) + 1] # qs
           T == {n \in Nat : \E qs \in Seq(Packets) : Wrong(n, qs)}
<1>1. ASSUME T # {}
      PROVE  FALSE
  <2>1. PICK n \in T : \A m \in T : n <= m
    <3>1. T \in SUBSET Nat
      OBVIOUS
    <3> HIDE DEF T
    <3> QED
      BY <1>1, <3>1, LeastNumber
  <2>2. PICK qs \in Seq(Packets) : Wrong(n, qs)
    BY <2>1
  <2>3. PICK b \in Seq(Byte), v \in Seq(Byte) : InTwo(s, b, v) /\ Framed(v, qs, t) /\ f[Len(b) + 1] # qs
    BY <2>2, Zenon
  <2>4. n \in Nat /\ Len(qs) = n
    BY <2>1, <2>2
  <2> DEFINE i == Len(b) + 1
  <2>5. CASE qs = <<>>
    <3>1. v = t
      BY <2>3, <2>5, FramedNothing
    <3>2. ~HasPacket(s, i)
      BY <2>3, <3>1, NoPacketIn
    <3>3. i \in 1..(Len(s) + 1)
      <4>1. Len(s) = Len(b) + Len(v) /\ Len(b) \in Nat /\ Len(v) \in Nat
        BY <2>3, ConcatProperties, LenProperties DEF InTwo
      <4> HIDE DEF T
      <4> QED
        BY ONLY <4>1
    <3>4. f[i] = <<>>
      BY <3>2, <3>3, Zenon DEF FoundAt
    <3> QED
      BY <2>3, <2>5, <3>4
  <2>6. CASE qs # <<>>
    <3> DEFINE p == Head(qs)
               rest == Tail(qs)
    <3>1. /\ p \in Packets /\ rest \in Seq(Packets) /\ qs = <<p>> \o rest
          /\ Len(rest) = n - 1 /\ n - 1 \in Nat
      BY <2>4, <2>6, FirstAndRest
    <3>2. PICK w \in Seq(Byte) : v = Frame(p) \o w /\ Framed(w, rest, t)
      BY <2>3, <2>6, FramedFirst
    <3> HIDE DEF p, rest
    <3> DEFINE c == b \o Frame(p)
    <3>3. FindsPacket(s, b, p, w)
      <4>1. Amid(s, b, Frame(p), w)
        BY <2>3, <3>2, Zenon DEF InTwo, Amid
      <4> QED
        BY <3>1, <4>1, PacketIn
    <3>4. /\ c \in Seq(Byte) /\ InTwo(s, c, w)
          /\ i \in 1..(Len(s) + 1) /\ HasPacket(s, i)
          /\ PacketAt(s, i) = p /\ EndAt(s, i) + 1 = Len(c) + 1
      BY <3>3, Zenon DEF FindsPacket, InTwo
    <3> HIDE DEF c
    <3>5. f[i] = <<p>> \o f[Len(c) + 1]
      BY <3>4, Zenon DEF FoundAt
    <3>6. f[Len(c) + 1] = rest
      <4>1. n - 1 \notin T
        BY <2>1, <2>4, <3>1
      <4>2. ~Wrong(n - 1, rest)
        BY <3>1, <4>1
      <4> QED
        BY <3>1, <3>2, <3>4, <4>2, Zenon
    <3> QED
      BY <2>3, <3>1, <3>5, <3>6, Zenon
  <2> QED
    BY <2>5, <2>6
<1>2. Len(ps) \in Nat /\ Len(ps) \notin T
  <2> HIDE DEF T
  <2> QED
    BY <1>1, LenProperties
<1>3. ~Wrong(Len(ps), ps)
  BY <1>2
<1> QED
  BY <1>3, Zenon

LEMMA PackedFramed ==
  ASSUME NEW ps \in Seq(Packets), NEW s, NEW t, Framed(s, ps, t), IsCut(t)
  PROVE  Packed(s) = ps
<1>1. s \in Seq(Byte) /\ t \in Seq(Byte) /\ <<>> \in Seq(Byte) /\ Len(<<>>) = 0
  BY FramedTyped, EmptySeq
<1>2. <<>> \o s = s
  BY <1>1, ConcatEmptySeq
<1>3. PICK f : Packed(s) = f[1] /\ \A i \in 1..(Len(s) + 1) : f[i] = FoundAt(s, f, i)
  BY <1>1, PackedIsFound
<1> DEFINE a == <<>>
<1>4. a \in Seq(Byte) /\ InTwo(s, a, s) /\ Len(a) + 1 = 1
  BY <1>1, <1>2 DEF InTwo
<1> HIDE DEF a
<1>5. f[Len(a) + 1] = ps
  BY <1>1, <1>3, <1>4, FoundFramed
<1> QED
  BY <1>3, <1>4, <1>5

(* The bytes of packets, when there are enough of them, begin with a       *)
(* header.                                                                 *)
LEMMA BeginsWithHeader ==
  ASSUME NEW ps \in Seq(Packets), NEW s, NEW t, Framed(s, ps, t), IsCut(t),
         HeaderSize <= Len(s)
  PROVE  \E q \in Packets : \E v \in Seq(Byte) :
           s = Header(Len(q)) \o v /\ (ps = <<>> => Len(v) < Len(q))
<1>1. s \in Seq(Byte) /\ t \in Seq(Byte) /\ HeaderSize \in Nat \ {0}
  BY FramedTyped, FramingAssumption
<1>2. CASE ps = <<>>
  <2>1. s = t
    BY <1>1, <1>2, FramedNothing
  <2>2. t # <<>>
    <3>1. Len(<<>>) = 0
      BY EmptySeq
    <3> QED
      BY <1>1, <2>1, <3>1
  <2>3. PICK q \in Packets : \E u \in Seq(Byte) : u # <<>> /\ t \o u = Frame(q)
    BY <2>2 DEF IsCut
  <2>4. PICK u \in Seq(Byte) : u # <<>> /\ t \o u = Frame(q)
    BY <2>3
  <2> DEFINE h == Header(Len(q))
  <2>5. /\ h \in Seq(Byte) /\ Len(h) = HeaderSize /\ q \in Seq(Byte) /\ Len(q) \in Nat
        /\ Len(Frame(q)) = HeaderSize + Len(q)
    BY Frames
  <2> HIDE DEF h
  <2>6. PICK c \in Seq(Byte) : t = h \o c
    <3>1. SameJoined(t, u, h, q)
      BY <2>4, Zenon DEF SameJoined, Frame, h
    <3>2. Len(h) <= Len(t)
      BY <2>1, <2>5
    <3>3. Extends(t, u, h, q)
      BY <1>1, <2>5, <3>1, <3>2, LongerFront
    <3> QED
      BY <3>3 DEF Extends
  <2>7. Len(c) < Len(q)
    <3>1. Len(t \o u) = Len(t) + Len(u)
      BY <1>1, ConcatProperties
    <3>2. Len(t) = Len(h) + Len(c)
      <4>1. h \in Seq(Byte) /\ c \in Seq(Byte)
        BY <2>5
      <4>2. Len(h \o c) = Len(h) + Len(c)
        BY ONLY <4>1, ConcatProperties
      <4> QED
        BY <2>6, <4>2, Zenon
    <3>3. Len(u) \in Nat \ {0} /\ Len(c) \in Nat
      BY <2>4, EmptySeq, LenProperties
    <3>4. HeaderSize + Len(q) = (HeaderSize + Len(c)) + Len(u)
      BY <2>4, <2>5, <3>1, <3>2
    <3> QED
      BY ONLY <1>1, <2>5, <3>3, <3>4
  <2> QED
    BY <2>1, <2>6, <2>7, Zenon DEF h
<1>3. CASE ps # <<>>
  <2> DEFINE p == Head(ps)
  <2>1. p \in Packets
    BY <1>3, FirstAndRest
  <2>2. PICK u \in Seq(Byte) : s = Frame(p) \o u
    BY <1>3, FramedFirst
  <2> HIDE DEF p
  <2>3. p \in Seq(Byte) /\ Header(Len(p)) \in Seq(Byte)
    BY <2>1, Frames
  <2>4. s = Header(Len(p)) \o (p \o u)
    <3>1. (Header(Len(p)) \o p) \o u = Header(Len(p)) \o (p \o u)
      <4>1. Associates(Header(Len(p)), p, u)
        BY <2>3, BytesAssociate
      <4> QED
        BY <4>1, Zenon DEF Associates
    <3> QED
      BY <2>2, <3>1, Zenon DEF Frame
  <2>5. p \o u \in Seq(Byte)
    BY <2>3, ConcatProperties
  <2> QED
    BY <1>3, <2>1, <2>4, <2>5, Zenon
<1> QED
  BY <1>2, <1>3

-----------------------------------------------------------------------------
(* The stream. *)

(* What is to be read, for the reader's state r and the size z. *)
Opening(r, z) == IF r = "payload" \/ z # 0 THEN Header(z) ELSE <<>>

(* The packets ps will be read, those of lost are not written any more.    *)
Comes(ps, lost, t) ==
  /\ Framed(Unread, ps, t) /\ IsCut(t)
  /\ written = (read \o ps) \o lost
  /\ t # <<>> => lost # <<>>
  /\ peer = "there" => t = <<>> /\ lost = <<>>

StreamTyped ==
  /\ peer \in {"there", "gone"}
  /\ wire \in Seq(Byte) /\ buffer \in Seq(Byte)
  /\ reader \in {"idle", "header", "payload", "closed", "looping"}
  /\ size \in Nat /\ size < Power[HeaderSize]
  /\ written \in Seq(Packets) /\ read \in Seq(Packets)

ReaderSound ==
  /\ reader \in {"idle", "header", "closed"} => size = 0
  /\ reader = "header" => buffer # <<>>

StreamInv ==
  /\ StreamTyped
  /\ ReaderSound
  /\ HangsOnlyWhenCut
  /\ \E ps, lost \in Seq(Packets) : \E t \in Seq(Byte) : Comes(ps, lost, t)

LEMMA UnreadIs ==
  ASSUME StreamTyped
  PROVE  /\ Opening(reader, size) \in Seq(Byte) /\ buffer \o wire \in Seq(Byte)
         /\ Unread = Opening(reader, size) \o (buffer \o wire)
         /\ Unread \in Seq(Byte)
<1> DEFINE o == Opening(reader, size)
<1>1. o \in Seq(Byte)
  BY Headers, EmptySeq DEF Opening, StreamTyped
<1>2. buffer \in Seq(Byte) /\ wire \in Seq(Byte)
  BY DEF StreamTyped
<1>3. Unread = (o \o buffer) \o wire
  BY Zenon DEF Unread, Opening
<1> HIDE DEF o
<1>4. buffer \o wire \in Seq(Byte)
  BY <1>2, ConcatProperties
<1>5. (o \o buffer) \o wire = o \o (buffer \o wire)
  <2>1. Associates(o, buffer, wire)
    BY <1>1, <1>2, BytesAssociate
  <2> QED
    BY <2>1, Zenon DEF Associates
<1> DEFINE w == buffer \o wire
<1> HIDE DEF w
<1>6. o \o w \in Seq(Byte)
  BY <1>1, <1>4, ConcatProperties DEF w
<1> QED
  BY <1>1, <1>3, <1>4, <1>5, <1>6, Zenon DEF o, w

(* The packets that will be read are those that Packed() finds. *)
LEMMA ComesPacked ==
  ASSUME NEW ps \in Seq(Packets), NEW lost, NEW t, Comes(ps, lost, t)
  PROVE  Packed(Unread) = ps
BY PackedFramed DEF Comes

LEMMA StreamBegins ==
  ASSUME StreamInit
  PROVE  StreamInv /\ Packed(Unread) = <<>> /\ peer = "there"
<1>1. <<>> \in Seq(Byte) /\ <<>> \in Seq(Packets) /\ <<>> \o <<>> = <<>>
  BY EmptySeq, ConcatEmptySeq
<1>2. Unread = <<>>
  BY <1>1 DEF StreamInit, Unread
<1>3. Comes(<<>>, <<>>, <<>>)
  BY <1>1, <1>2, FramedNothing DEF StreamInit, Comes, IsCut
<1>4. 0 < Power[HeaderSize]
  BY Powers, FramingAssumption
<1>5. StreamTyped /\ ReaderSound /\ HangsOnlyWhenCut
  BY <1>1, <1>4 DEF StreamInit, StreamTyped, ReaderSound, HangsOnlyWhenCut
<1>6. Packed(Unread) = <<>>
  BY <1>1, <1>3, ComesPacked
<1> QED
  BY <1>1, <1>3, <1>5, <1>6 DEF StreamInv, StreamInit

(* A packet is written after what is unread. *)
LEMMA WriteMore ==
  ASSUME StreamInv, NEW p \in Packets, WritePacket(p)
  PROVE  /\ StreamInv'
         /\ peer = "there" /\ peer' = peer
         /\ Packed(Unread') = Append(Packed(Unread), p) /\ Packed(Unread) \in Seq(Packets)
<1>1. PICK ps \in Seq(Packets), lost \in Seq(Packets) : \E t \in Seq(Byte) : Comes(ps, lost, t)
  BY DEF StreamInv
<1>2. Comes(ps, <<>>, <<>>)
  BY <1>1 DEF Comes, WritePacket
<1>3. StreamTyped /\ peer = "there"
  BY DEF StreamInv, WritePacket
<1> DEFINE o == Opening(reader, size)
           h == Header(Len(p))
<1>4. o \in Seq(Byte) /\ buffer \in Seq(Byte) /\ wire \in Seq(Byte) /\ Unread = o \o (buffer \o wire)
  BY <1>3, UnreadIs DEF StreamTyped
<1>5. h \in Seq(Byte) /\ p \in Seq(Byte) /\ Frame(p) \in Seq(Byte)
  BY Frames
<1>6. wire' = wire \o Frame(p)
  <2>1. wire' = (wire \o h) \o p
    BY DEF WritePacket
  <2> HIDE DEF h
  <2>2. (wire \o h) \o p = wire \o (h \o p)
    <3>1. Associates(wire, h, p)
      BY <1>4, <1>5, BytesAssociate
    <3> QED
      BY <3>1, Zenon DEF Associates
  <2> QED
    BY <2>1, <2>2, Zenon DEF Frame, h
<1>7. wire' \in Seq(Byte)
  BY <1>4, <1>5, <1>6, ConcatProperties
<1>8. Append(written, p) \in Seq(Packets)
  BY <1>3, AppendProperties DEF StreamTyped
<1>9. StreamTyped'
  BY <1>3, <1>7, <1>8 DEF StreamTyped, WritePacket
<1>10. Unread' = Unread \o Frame(p)
  <2>1. Unread' = (o \o buffer) \o wire'
    BY Zenon DEF Unread, Opening, WritePacket
  <2> DEFINE f == Frame(p)
             ob == o \o buffer
  <2> HIDE DEF f, o
  <2>2. ob \in Seq(Byte)
    BY <1>4, ConcatProperties
  <2>3. (o \o buffer) \o wire = o \o (buffer \o wire)
    <3>1. Associates(o, buffer, wire)
      BY <1>4, BytesAssociate
    <3> QED
      BY <3>1, Zenon DEF Associates
  <2> HIDE DEF ob
  <2>4. (ob \o wire) \o f = ob \o (wire \o f)
    <3>1. Associates(ob, wire, f)
      BY <1>4, <1>5, <2>2, BytesAssociate DEF f
    <3> QED
      BY <3>1, Zenon DEF Associates
  <2> QED
    BY <1>4, <1>6, <2>1, <2>3, <2>4, Zenon DEF f, ob
<1>11. Comes(Append(ps, p), <<>>, <<>>)'
  <2>1. Framed(Unread', Append(ps, p), <<>>)
    <3>1. Framed(Unread \o Frame(p), Append(ps, p), <<>>)
      BY <1>2, FramedMore DEF Comes
    <3> QED
      BY <1>10, <3>1, Zenon
  <2>2. written = read \o ps
    <3>1. read \o ps \in Seq(Packets)
      BY <1>3, ConcatProperties DEF StreamTyped
    <3>2. (read \o ps) \o <<>> = read \o ps
      BY <3>1, ConcatEmptySeq
    <3> QED
      BY <1>2, <3>2 DEF Comes
  <2>3. written' = read \o Append(ps, p)
    <3>1. read \o Append(ps, p) = Append(read \o ps, p)
      BY <1>3, AppendedBeyond DEF StreamTyped
    <3> QED
      BY <2>2, <3>1, Zenon DEF WritePacket
  <2>4. (read \o Append(ps, p)) \o <<>> = read \o Append(ps, p)
    <3> DEFINE q == Append(ps, p)
    <3>1. q \in Seq(Packets)
      BY AppendProperties
    <3> HIDE DEF q
    <3>2. read \o q \in Seq(Packets)
      BY <1>3, <3>1, ConcatProperties DEF StreamTyped
    <3>3. (read \o q) \o <<>> = read \o q
      BY <3>2, ConcatEmptySeq
    <3> QED
      BY <3>3 DEF q
  <2>5. read' = read /\ peer' = peer
    BY DEF WritePacket
  <2> QED
    BY <2>1, <2>3, <2>4, <2>5, Zenon DEF Comes, IsCut
<1>12. ReaderSound' /\ HangsOnlyWhenCut'
  <2>1. reader # "looping"
    BY <1>3 DEF StreamInv, HangsOnlyWhenCut
  <2> QED
    BY <2>1 DEF StreamInv, ReaderSound, HangsOnlyWhenCut, WritePacket
<1>13. Append(ps, p) \in Seq(Packets) /\ <<>> \in Seq(Packets) /\ <<>> \in Seq(Byte)
  BY AppendProperties, EmptySeq
<1>14. Packed(Unread) = ps
  BY <1>2, ComesPacked
<1>15. Packed(Unread') = Append(ps, p)
  <2>1. Framed(Unread', Append(ps, p), <<>>) /\ IsCut(<<>>)
    BY <1>11, Zenon DEF Comes
  <2> QED
    BY <1>13, <2>1, PackedFramed
<1>16. StreamInv'
  BY <1>9, <1>11, <1>12, <1>13, Zenon DEF StreamInv
<1> QED
  BY <1>3, <1>14, <1>15, <1>16 DEF WritePacket

(* The writer goes: the first ones of the unread packets are left. *)
LEMMA LeaveSome ==
  ASSUME StreamInv, Leave
  PROVE  /\ StreamInv'
         /\ peer' = "gone"
         /\ \E qs, lost \in Seq(Packets) : Packed(Unread') = qs /\ Packed(Unread) = qs \o lost
<1>1. PICK ps \in Seq(Packets), none \in Seq(Packets) : \E t \in Seq(Byte) : Comes(ps, none, t)
  BY DEF StreamInv
<1>2. Comes(ps, <<>>, <<>>)
  BY <1>1 DEF Comes, Leave
<1>3. StreamTyped /\ peer = "there" /\ peer' = "gone"
  BY DEF StreamInv, Leave
<1>4. PICK n \in 0..Len(wire) : wire' = First(wire, n)
  BY DEF Leave
<1> DEFINE o == Opening(reader, size)
           c == First(wire, n)
           d == After(wire, n)
           a == o \o buffer
<1>5. o \in Seq(Byte) /\ buffer \in Seq(Byte) /\ wire \in Seq(Byte)
  BY <1>3, UnreadIs DEF StreamTyped
<1>6. c \in Seq(Byte) /\ d \in Seq(Byte) /\ c \o d = wire
  BY <1>5, PiecesOf
<1>7. wire' = c
  BY <1>4
<1> HIDE DEF c, d
<1>8. StreamTyped'
  BY <1>3, <1>6, <1>7 DEF StreamTyped, Leave
<1>9. Unread = a \o wire /\ Unread' = a \o c
  BY <1>7, Zenon DEF Unread, Opening, Leave
<1> HIDE DEF o
<1>10. a \in Seq(Byte)
  BY <1>5, ConcatProperties
<1> HIDE DEF a
<1> DEFINE u == a \o c
<1>11. u \in Seq(Byte)
  BY <1>6, <1>10, ConcatProperties
<1>12. (a \o c) \o d = a \o (c \o d)
  <2>1. Associates(a, c, d)
    BY <1>6, <1>10, BytesAssociate
  <2> QED
    BY <2>1, Zenon DEF Associates
<1>13. Framed(u \o d, ps, <<>>)
  BY <1>2, <1>6, <1>9, <1>12, Zenon DEF Comes
<1> HIDE DEF u
<1>14. CutTo(u, ps)
  BY <1>6, <1>11, <1>13, FramedCut
<1>15. PICK qs \in Seq(Packets), lost \in Seq(Packets) : \E t \in Seq(Byte) :
               /\ ps = qs \o lost
               /\ Framed(u, qs, t) /\ IsCut(t)
               /\ t # <<>> => lost # <<>>
  BY <1>14 DEF CutTo
<1>16. PICK t \in Seq(Byte) :
               /\ ps = qs \o lost
               /\ Framed(u, qs, t) /\ IsCut(t)
               /\ t # <<>> => lost # <<>>
  BY <1>15
<1>17. Unread' = u
  BY <1>9 DEF u
<1>18. written' = (read' \o qs) \o lost
  <2>1. written = read \o ps
    <3>1. read \o ps \in Seq(Packets)
      BY <1>3, ConcatProperties DEF StreamTyped
    <3>2. (read \o ps) \o <<>> = read \o ps
      BY <3>1, ConcatEmptySeq
    <3> QED
      BY <1>2, <3>2 DEF Comes
  <2>2. (read \o qs) \o lost = read \o (qs \o lost)
    <3>1. read \in Seq(Packets) /\ qs \in Seq(Packets) /\ lost \in Seq(Packets)
      BY <1>3 DEF StreamTyped
    <3> QED
      <4>1. Associates(read, qs, lost)
        BY ONLY <3>1, PacketsAssociate
      <4> QED
        BY <3>1, <4>1, Zenon DEF Associates
  <2>3. written' = written /\ read' = read
    BY DEF Leave
  <2> QED
    BY <1>16, <2>1, <2>2, <2>3, Zenon
<1>19. Comes(qs, lost, t)'
  <2>1. ~(peer' = "there")
    BY <1>3
  <2> QED
    BY <1>16, <1>17, <1>18, <2>1, Zenon DEF Comes
<1>20. ReaderSound' /\ HangsOnlyWhenCut'
  <2>1. reader # "looping"
    BY <1>3 DEF StreamInv, HangsOnlyWhenCut
  <2> QED
    BY <2>1 DEF StreamInv, ReaderSound, HangsOnlyWhenCut, Leave
<1>21. Packed(Unread) = ps /\ Packed(Unread') = qs
  <2>1. Packed(u) = qs
    BY <1>16, PackedFramed
  <2>2. Packed(Unread) = ps
    BY <1>2, ComesPacked
  <2> QED
    BY <1>17, <2>1, <2>2, Zenon
<1>22. StreamInv'
  BY <1>8, <1>19, <1>20, Zenon DEF StreamInv
<1> QED
  BY <1>3, <1>16, <1>21, <1>22, Zenon

(* What is unread stays what it is: the network delivers, the header is    *)
(* read, or the reader hears that the writer is gone.                      *)
LEMMA ComesStill ==
  ASSUME StreamInv, Unread' = Unread, UNCHANGED <<peer, written, read>>,
         StreamTyped', ReaderSound', HangsOnlyWhenCut'
  PROVE  StreamInv'
<1>1. PICK ps \in Seq(Packets), lost \in Seq(Packets) : \E t \in Seq(Byte) : Comes(ps, lost, t)
  BY DEF StreamInv
<1>2. PICK t \in Seq(Byte) : Comes(ps, lost, t)
  BY <1>1
<1>3. peer' = peer /\ written' = written /\ read' = read
  OBVIOUS
<1>4. Comes(ps, lost, t)'
  BY <1>2, <1>3, Zenon DEF Comes
<1> QED
  BY <1>4, Zenon DEF StreamInv

LEMMA BytesStay ==
  ASSUME StreamInv, Arrive
  PROVE  StreamInv' /\ Unread' = Unread /\ peer' = peer
<1>1. PICK n \in 1..Len(wire) : BytesArrive(n)
  BY DEF Arrive
<1>2. StreamTyped /\ ReaderSound
  BY DEF StreamInv
<1> DEFINE o == Opening(reader, size)
           c == First(wire, n)
           d == After(wire, n)
           b == buffer \o c
<1>3. o \in Seq(Byte) /\ buffer \in Seq(Byte) /\ wire \in Seq(Byte) /\ Len(wire) \in Nat
  BY <1>2, UnreadIs, LenProperties DEF StreamTyped
<1>4. c \in Seq(Byte) /\ d \in Seq(Byte) /\ c \o d = wire /\ Len(c) = n
  <2>1. n \in 0..Len(wire)
    BY <1>3
  <2> QED
    BY <1>3, <2>1, PiecesOf
<1>5. wire' = d /\ buffer' = b /\ size' = size
  BY <1>1 DEF BytesArrive
<1>6. /\ reader \in {"idle", "header", "payload"}
      /\ reader' = IF reader = "idle" THEN "header" ELSE reader
  BY <1>1, <1>2 DEF BytesArrive, Waits
<1> HIDE DEF c, d
<1>7. b \in Seq(Byte) /\ Len(b) = Len(buffer) + Len(c)
  BY <1>3, <1>4, ConcatProperties
<1>8. b # <<>>
  <2>1. Len(buffer) \in Nat /\ Len(<<>>) = 0
    BY <1>3, LenProperties, EmptySeq
  <2> QED
    BY <1>4, <1>7, <2>1
<1>9. b \o d = buffer \o wire
  <2>1. (buffer \o c) \o d = buffer \o (c \o d)
    <3>1. Associates(buffer, c, d)
      BY <1>3, <1>4, BytesAssociate
    <3> QED
      BY <3>1, Zenon DEF Associates
  <2> QED
    BY <1>4, <2>1, Zenon
<1> HIDE DEF b
<1>10. Opening(reader', size') = o
  BY <1>5, <1>6, Zenon DEF Opening
<1> HIDE DEF o
<1>11. Unread' = Unread
  <2>1. Unread' = (o \o b) \o d
    BY <1>5, <1>10, Zenon DEF Unread, Opening
  <2>2. Unread = o \o (buffer \o wire)
    BY <1>2, UnreadIs DEF o
  <2>3. (o \o b) \o d = o \o (b \o d)
    <3>1. o \in Seq(Byte) /\ b \in Seq(Byte) /\ d \in Seq(Byte)
      BY <1>3, <1>4, <1>7
    <3> QED
      <4>1. Associates(o, b, d)
        BY ONLY <3>1, BytesAssociate
      <4> QED
        BY <3>1, <4>1, Zenon DEF Associates
  <2> QED
    BY <1>9, <2>1, <2>2, <2>3, Zenon
<1>12. StreamTyped'
  BY <1>1, <1>2, <1>4, <1>5, <1>6, <1>7 DEF StreamTyped, BytesArrive
<1>13. ReaderSound' /\ HangsOnlyWhenCut'
  BY <1>2, <1>5, <1>6, <1>8 DEF ReaderSound, HangsOnlyWhenCut
<1>14. UNCHANGED <<peer, written, read>>
  BY <1>1 DEF BytesArrive
<1> QED
  BY <1>11, <1>12, <1>13, <1>14, ComesStill

LEMMA HeaderStays ==
  ASSUME StreamInv, ReadHeader
  PROVE  StreamInv' /\ Unread' = Unread /\ peer' = peer
<1>1. StreamTyped /\ ReaderSound
  BY DEF StreamInv
<1> DEFINE c == First(buffer, HeaderSize)
           d == After(buffer, HeaderSize)
           r == d \o wire
<1>2. /\ buffer \in Seq(Byte) /\ wire \in Seq(Byte) /\ Len(buffer) \in Nat
      /\ HeaderSize \in Nat /\ HeaderSize <= Len(buffer) /\ reader = "header" /\ size = 0
  BY <1>1, FramingAssumption, LenProperties DEF ReadHeader, StreamTyped, ReaderSound
<1>3. c \in Seq(Byte) /\ d \in Seq(Byte) /\ c \o d = buffer /\ Len(c) = HeaderSize
  <2>1. HeaderSize \in 0..Len(buffer)
    BY <1>2
  <2> QED
    BY <1>2, <2>1, PiecesOf
<1>4. size' = Number(c) /\ buffer' = d /\ wire' = wire /\ reader' = "payload"
  BY DEF ReadHeader
<1> HIDE DEF c, d
<1>5. r \in Seq(Byte)
  BY <1>2, <1>3, ConcatProperties
<1>6. Unread = c \o r
  <2>1. Opening(reader, size) = <<>>
    BY <1>2, Zenon DEF Opening
  <2>2. Unread = <<>> \o (buffer \o wire) /\ buffer \o wire \in Seq(Byte)
    BY <1>1, <2>1, UnreadIs
  <2> DEFINE bw == buffer \o wire
  <2> HIDE DEF bw
  <2>3. <<>> \o bw = bw
    BY <2>2, ConcatEmptySeq DEF bw
  <2>4. (c \o d) \o wire = c \o (d \o wire)
    <3>1. Associates(c, d, wire)
      BY <1>2, <1>3, BytesAssociate
    <3> QED
      BY <3>1, Zenon DEF Associates
  <2> QED
    BY <1>3, <2>2, <2>3, <2>4, Zenon DEF bw
<1> HIDE DEF r
<1>7. PICK q \in Packets : \E v \in Seq(Byte) : Unread = Header(Len(q)) \o v
  <2>1. PICK ps \in Seq(Packets), lost \in Seq(Packets) : \E t \in Seq(Byte) : Comes(ps, lost, t)
    BY DEF StreamInv
  <2>2. PICK t \in Seq(Byte) : Framed(Unread, ps, t) /\ IsCut(t)
    BY <2>1 DEF Comes
  <2>3. HeaderSize <= Len(Unread)
    <3>1. Len(c \o r) = Len(c) + Len(r) /\ Len(r) \in Nat
      BY <1>3, <1>5, ConcatProperties, LenProperties
    <3>2. HeaderSize <= Len(c) + Len(r)
      BY <1>2, <1>3, <3>1
    <3> QED
      BY <1>6, <3>1, <3>2, Zenon
  <2> DEFINE s == Unread
  <2> HIDE DEF s
  <2>4. Framed(s, ps, t) /\ HeaderSize <= Len(s)
    BY <2>2, <2>3 DEF s
  <2>5. \E q \in Packets : \E v \in Seq(Byte) : s = Header(Len(q)) \o v /\ (ps = <<>> => Len(v) < Len(q))
    BY <2>2, <2>4, BeginsWithHeader
  <2> QED
    BY <2>5, Zenon DEF s
<1>8. PICK v \in Seq(Byte) : Unread = Header(Len(q)) \o v
  BY <1>7
<1> DEFINE h == Header(Len(q))
<1>9. h \in Seq(Byte) /\ Len(h) = HeaderSize /\ Number(h) = Len(q) /\ Len(q) \in Nat /\ Len(q) < Power[HeaderSize]
  BY Frames
<1> HIDE DEF h
<1>10. c = h
  <2>1. SameJoined(c, r, h, v)
    BY <1>6, <1>8, Zenon DEF h, SameJoined
  <2> QED
    BY <1>3, <1>5, <1>9, <2>1, SameFronts
<1>11. size' = Len(q)
  BY <1>4, <1>9, <1>10, Zenon
<1>12. Unread' = Unread
  <2>1. Opening(reader', size') = c
    BY <1>4, <1>10, <1>11, Zenon DEF Opening, h
  <2>2. Unread' = (c \o d) \o wire
    BY <1>4, <2>1, Zenon DEF Unread, Opening
  <2>3. (c \o d) \o wire = c \o (d \o wire)
    <3>1. c \in Seq(Byte) /\ d \in Seq(Byte) /\ wire \in Seq(Byte)
      BY <1>2, <1>3
    <3> QED
      <4>1. Associates(c, d, wire)
        BY ONLY <3>1, BytesAssociate
      <4> QED
        BY <3>1, <4>1, Zenon DEF Associates
  <2> QED
    BY <1>6, <2>2, <2>3, Zenon DEF r
<1>13. StreamTyped'
  BY <1>1, <1>2, <1>3, <1>4, <1>9, <1>11 DEF StreamTyped, ReadHeader
<1>14. ReaderSound' /\ HangsOnlyWhenCut'
  BY <1>4 DEF ReaderSound, HangsOnlyWhenCut
<1>15. UNCHANGED <<peer, written, read>>
  BY DEF ReadHeader
<1> QED
  BY <1>12, <1>13, <1>14, <1>15, ComesStill

(* When the reader waits for a header or for the rest of a packet, and     *)
(* nothing comes any more, there is no whole packet.                       *)
LEMMA NoneIsWhole ==
  ASSUME StreamTyped, ReaderSound, wire = <<>>, Waits, reader # "idle",
         NEW ps \in Seq(Packets), NEW t, Framed(Unread, ps, t)
  PROVE  ps = <<>> /\ Unread # <<>>
<1>1. /\ buffer \in Seq(Byte) /\ Len(buffer) \in Nat /\ HeaderSize \in Nat \ {0}
      /\ size \in Nat /\ size < Power[HeaderSize]
  BY FramingAssumption, LenProperties DEF StreamTyped
<1>2. buffer \o <<>> = buffer /\ <<>> \o buffer = buffer
  BY <1>1, ConcatEmptySeq
<1>3. Unread = Opening(reader, size) \o buffer
  <2>1. Unread = Opening(reader, size) \o (buffer \o wire)
    BY UnreadIs
  <2> QED
    BY <1>2, <2>1, Zenon
<1>4. ASSUME ps # <<>>
      PROVE  \E p \in Packets : \E u \in Seq(Byte) : Unread = Frame(p) \o u
  <2> DEFINE s == Unread
  <2> HIDE DEF s
  <2>1. \E u \in Seq(Byte) : s = Frame(Head(ps)) \o u
    BY <1>4, FramedFirst DEF s
  <2>2. Head(ps) \in Packets
    BY <1>4, FirstAndRest
  <2> QED
    BY <2>1, <2>2, Zenon DEF s
<1>5. CASE reader = "header"
  <2>1. buffer # <<>> /\ Len(buffer) < HeaderSize
    BY <1>5 DEF ReaderSound, Waits
  <2>2. Opening(reader, size) = <<>>
    <3>1. size = 0 /\ reader # "payload"
      BY <1>5 DEF ReaderSound
    <3> QED
      BY <3>1, Zenon DEF Opening
  <2>3. Unread = buffer
    BY <1>2, <1>3, <2>2, Zenon
  <2>4. ASSUME ps # <<>>
        PROVE  FALSE
    <3>1. PICK p \in Packets : \E u \in Seq(Byte) : Unread = Frame(p) \o u
      BY <1>4, <2>4
    <3>2. PICK u \in Seq(Byte) : Unread = Frame(p) \o u
      BY <3>1
    <3>3. Frame(p) \in Seq(Byte) /\ Len(Frame(p)) = HeaderSize + Len(p) /\ Len(p) \in Nat /\ Len(u) \in Nat
      BY Frames, LenProperties
    <3> DEFINE f == Frame(p)
    <3>4. Len(f \o u) = Len(f) + Len(u)
      BY <3>3, ConcatProperties
    <3> HIDE DEF f
    <3>5. Len(buffer) = Len(f) + Len(u)
      BY <2>3, <3>2, <3>4, Zenon DEF f
    <3>6. Len(f) = HeaderSize + Len(p)
      BY <3>3 DEF f
    <3> QED
      BY <1>1, <2>1, <3>3, <3>5, <3>6
  <2> QED
    BY <2>1, <2>3, <2>4
<1>6. CASE reader # "header"
  <2>1. reader = "payload" /\ Len(buffer) < size
    BY <1>6 DEF Waits
  <2> DEFINE h == Header(size)
  <2>2. h \in Seq(Byte) /\ Len(h) = HeaderSize
    BY <1>1, Headers
  <2> HIDE DEF h
  <2>3. Unread = h \o buffer
    BY <1>3, <2>1, Zenon DEF Opening, h
  <2>4. Unread # <<>>
    <3>1. Len(h \o buffer) = Len(h) + Len(buffer) /\ Len(<<>>) = 0
      BY <1>1, <2>2, ConcatProperties, EmptySeq
    <3>2. Len(h) + Len(buffer) # 0
      BY <1>1, <2>2
    <3> QED
      BY <2>3, <3>1, <3>2, Zenon
  <2>5. ASSUME ps # <<>>
        PROVE  FALSE
    <3>1. PICK p \in Packets : \E u \in Seq(Byte) : Unread = Frame(p) \o u
      BY <1>4, <2>5
    <3>2. PICK u \in Seq(Byte) : Unread = Frame(p) \o u
      BY <3>1
    <3>3. SameJoined(h, buffer, Frame(p), u)
      BY <2>3, <3>2, Zenon DEF SameJoined
    <3>4. size = Len(p) /\ buffer = p \o u
      BY <1>1, <3>3, HeaderOfFrame DEF h
    <3>5. p \in Seq(Byte) /\ Len(p) \in Nat /\ Len(u) \in Nat
      BY Frames, LenProperties
    <3>6. Len(p \o u) = Len(p) + Len(u)
      BY <3>5, ConcatProperties
    <3>7. Len(buffer) = Len(p) + Len(u)
      BY <3>4, <3>6, Zenon
    <3> QED
      BY <2>1, <3>4, <3>5, <3>7
  <2> QED
    BY <2>4, <2>5
<1> QED
  BY <1>5, <1>6

LEMMA GoneIsHeard ==
  ASSUME StreamInv, Disconnected
  PROVE  StreamInv' /\ Unread' = Unread /\ peer' = peer
<1>1. StreamTyped /\ ReaderSound /\ peer = "gone" /\ wire = <<>> /\ Waits
  BY DEF StreamInv, Disconnected
<1>2. UNCHANGED <<peer, wire, buffer, size, written, read>>
  BY DEF Disconnected
<1>3. reader' = IF reader = "idle" THEN "closed" ELSE "looping"
  BY DEF Disconnected
<1>4. reader = "payload" => size # 0
  <2>1. buffer \in Seq(Byte) /\ size \in Nat
    BY <1>1 DEF StreamTyped
  <2>2. Len(buffer) \in Nat
    BY <2>1, LenProperties
  <2> QED
    BY <1>1, <2>1, <2>2 DEF Waits
<1>5. Unread' = Unread
  <2>1. Opening(reader', size') = Opening(reader, size)
    BY <1>2, <1>3, <1>4, Zenon DEF Opening
  <2>2. Unread = (Opening(reader, size) \o buffer) \o wire
    BY Zenon DEF Unread, Opening
  <2>3. Unread' = (Opening(reader', size') \o buffer') \o wire'
    BY Zenon DEF Unread, Opening
  <2> QED
    BY <1>2, <2>1, <2>2, <2>3, Zenon
<1>6. StreamTyped' /\ ReaderSound'
  BY <1>1, <1>2, <1>3 DEF StreamTyped, ReaderSound
<1>7. HangsOnlyWhenCut'
  <2>1. CASE reader = "idle"
    BY <1>3, <2>1 DEF HangsOnlyWhenCut
  <2>2. CASE reader # "idle"
    <3>1. PICK ps \in Seq(Packets), lost \in Seq(Packets) : \E t \in Seq(Byte) : Comes(ps, lost, t)
      BY DEF StreamInv
    <3>2. PICK t \in Seq(Byte) : Comes(ps, lost, t)
      BY <3>1
    <3>3. ps = <<>> /\ Unread # <<>>
      BY <1>1, <2>2, <3>2, NoneIsWhole DEF Comes
    <3>4. lost # <<>>
      <4>1. Unread = t
        BY <3>2, <3>3, FramedNothing DEF Comes
      <4> QED
        BY <3>2, <3>3, <4>1 DEF Comes
    <3>5. read \in Seq(Packets) /\ read \o <<>> = read
      BY <1>1, ConcatEmptySeq DEF StreamTyped
    <3>6. written = read \o lost
      BY <3>2, <3>3, <3>5, Zenon DEF Comes
    <3>7. Len(read \o lost) = Len(read) + Len(lost) /\ Len(read) \in Nat /\ Len(lost) \in Nat \ {0}
      <4>1. Len(read) \in Nat /\ Len(lost) \in Nat \ {0}
        BY <3>4, <3>5, LenProperties, EmptySeq
      <4> QED
        BY <3>5, <4>1, ConcatProperties
    <3>8. Len(read) < Len(written)
      BY <3>6, <3>7
    <3> QED
      BY <1>1, <1>2, <3>8 DEF HangsOnlyWhenCut
  <2> QED
    BY <2>1, <2>2
<1> QED
  BY <1>2, <1>5, <1>6, <1>7, ComesStill

(* The first of the packets that will be read is read. *)
LEMMA ReadFirst ==
  ASSUME StreamInv, ReadPayload
  PROVE  /\ StreamInv' /\ peer' = peer
         /\ Packed(Unread) # <<>> /\ Packed(Unread') = Tail(Packed(Unread))
<1>1. StreamTyped /\ ReaderSound
  BY DEF StreamInv
<1> DEFINE h == Header(size)
           c == First(buffer, size)
           d == After(buffer, size)
           v == d \o wire
           bw == buffer \o wire
<1>2. /\ buffer \in Seq(Byte) /\ wire \in Seq(Byte) /\ Len(buffer) \in Nat /\ Len(wire) \in Nat
      /\ HeaderSize \in Nat /\ size \in Nat /\ size < Power[HeaderSize]
      /\ size <= Len(buffer) /\ reader = "payload"
  BY <1>1, FramingAssumption, LenProperties DEF ReadPayload, StreamTyped
<1>3. c \in Seq(Byte) /\ d \in Seq(Byte) /\ c \o d = buffer /\ Len(c) = size
  <2>1. size \in 0..Len(buffer)
    BY <1>2
  <2> QED
    BY <1>2, <2>1, PiecesOf
<1>4. /\ read' = Append(read, c) /\ buffer' = d /\ wire' = wire /\ size' = 0
      /\ reader' = IF d = <<>> THEN "idle" ELSE "header"
      /\ peer' = peer /\ written' = written
  BY DEF ReadPayload
<1> HIDE DEF c, d
<1>5. v \in Seq(Byte)
  BY <1>2, <1>3, ConcatProperties
<1>6. h \in Seq(Byte) /\ Len(h) = HeaderSize /\ Number(h) = size
  BY <1>2, Headers
<1> HIDE DEF h
<1>7. bw \in Seq(Byte) /\ Len(bw) = Len(buffer) + Len(wire)
  BY <1>2, ConcatProperties
<1>8. bw = c \o v
  <2>1. (c \o d) \o wire = c \o (d \o wire)
    <3>1. c \in Seq(Byte) /\ d \in Seq(Byte) /\ wire \in Seq(Byte)
      BY <1>2, <1>3
    <3> QED
      <4>1. Associates(c, d, wire)
        BY ONLY <3>1, BytesAssociate
      <4> QED
        BY <3>1, <4>1, Zenon DEF Associates
  <2> QED
    BY <1>3, <2>1, Zenon
<1>9. Unread = h \o bw
  <2>1. Unread = Opening(reader, size) \o bw
    BY <1>1, UnreadIs
  <2> HIDE DEF bw
  <2> QED
    BY <1>2, <2>1, Zenon DEF Opening, h
<1>10. Unread' = v
  <2>1. reader' # "payload" /\ size' = 0
    BY <1>4
  <2>2. Opening(reader', size') = <<>>
    BY <2>1, Zenon DEF Opening
  <2>3. Unread' = (<<>> \o d) \o wire
    BY <1>4, <2>2, Zenon DEF Unread, Opening
  <2>4. <<>> \o d = d
    BY <1>3, ConcatEmptySeq
  <2> QED
    BY <2>3, <2>4, Zenon
<1> HIDE DEF v, bw
<1>11. PICK ps \in Seq(Packets), lost \in Seq(Packets) : \E t \in Seq(Byte) : Comes(ps, lost, t)
  BY DEF StreamInv
<1>12. PICK t \in Seq(Byte) : Comes(ps, lost, t)
  BY <1>11
<1> DEFINE s == Unread
<1> HIDE DEF s
<1>13. Framed(s, ps, t) /\ IsCut(t) /\ s = h \o bw
  BY <1>9, <1>12 DEF s, Comes
<1>14. ps # <<>>
  <2>1. SUFFICES ASSUME ps = <<>>
                 PROVE  FALSE
    OBVIOUS
  <2>2. HeaderSize <= Len(s)
    <3>1. Len(h \o bw) = Len(h) + Len(bw) /\ Len(bw) \in Nat
      BY <1>6, <1>7, ConcatProperties, LenProperties
    <3>2. HeaderSize <= Len(h) + Len(bw)
      BY <1>2, <1>6, <3>1
    <3> QED
      BY <1>13, <3>1, <3>2, Zenon
  <2>3. PICK q \in Packets : \E w \in Seq(Byte) :
               s = Header(Len(q)) \o w /\ (ps = <<>> => Len(w) < Len(q))
    BY <1>13, <2>2, BeginsWithHeader
  <2>4. PICK w \in Seq(Byte) : s = Header(Len(q)) \o w /\ Len(w) < Len(q)
    BY <2>1, <2>3
  <2> DEFINE k == Header(Len(q))
  <2>5. k \in Seq(Byte) /\ Len(k) = HeaderSize /\ Number(k) = Len(q) /\ Len(q) \in Nat
    BY Frames
  <2> HIDE DEF k
  <2>6. h = k /\ bw = w
    <3>1. SameJoined(h, bw, k, w)
      BY <1>13, <2>4, Zenon DEF k, SameJoined
    <3>2. Len(h) = Len(k)
      BY <1>6, <2>5
    <3> QED
      BY <1>6, <1>7, <2>5, <3>1, <3>2, SameFronts
  <2>7. size = Len(q)
    BY <1>6, <2>5, <2>6
  <2> QED
    BY <1>2, <1>7, <2>4, <2>6, <2>7
<1> DEFINE p == Head(ps)
           rest == Tail(ps)
<1>15. p \in Packets /\ rest \in Seq(Packets)
  BY <1>14, FirstAndRest
<1>16. PICK u \in Seq(Byte) : s = Frame(p) \o u /\ Framed(u, rest, t)
  BY <1>13, <1>14, FramedFirst
<1> HIDE DEF p, rest
<1>17. size = Len(p) /\ bw = p \o u
  <2>1. SameJoined(h, bw, Frame(p), u)
    BY <1>13, <1>16, Zenon DEF SameJoined
  <2> QED
    BY <1>2, <1>7, <1>15, <2>1, HeaderOfFrame DEF h
<1>18. c = p /\ v = u
  <2>1. p \in Seq(Byte) /\ SameJoined(c, v, p, u) /\ Len(c) = Len(p)
    BY <1>3, <1>8, <1>15, <1>17, Frames, Zenon DEF SameJoined
  <2> QED
    BY <1>3, <1>5, <2>1, SameFronts
<1>19. written' = (read' \o rest) \o lost
  <2>1. Append(read, p) \o rest = read \o ps
    BY <1>1, <1>14, HeadToLast DEF StreamTyped, p, rest
  <2> QED
    BY <1>4, <1>12, <1>18, <2>1, Zenon DEF Comes
<1>20. Comes(rest, lost, t)'
  <2>1. Framed(Unread', rest, t)
    BY <1>10, <1>16, <1>18, Zenon
  <2> QED
    BY <1>4, <1>12, <1>19, <2>1, Zenon DEF Comes
<1>21. StreamTyped'
  <2>1. Append(read, p) \in Seq(Packets)
    BY <1>1, <1>15, AppendProperties DEF StreamTyped
  <2>2. 0 < Power[HeaderSize]
    BY <1>2, Powers
  <2> QED
    BY <1>1, <1>3, <1>4, <1>18, <2>1, <2>2 DEF StreamTyped
<1>22. ReaderSound' /\ HangsOnlyWhenCut'
  BY <1>4 DEF ReaderSound, HangsOnlyWhenCut
<1>23. Packed(Unread) = ps /\ Packed(Unread') = rest
  BY <1>12, <1>15, <1>20, ComesPacked, PackedFramed DEF Comes
<1>24. StreamInv'
  BY <1>15, <1>20, <1>21, <1>22, Zenon DEF StreamInv
<1> QED
  BY <1>4, <1>14, <1>23, <1>24, Zenon DEF rest

(* The packets on the way, and what may become of them. *)
Ready == Packed(Unread)

LEMMA LinkEmits ==
  ASSUME peer = "there", peer' = peer, Stream!IsPrefix(Ready, Ready')
  PROVE  Stream!Next
<1>1. Stream!Emit("link")
  BY Zenon DEF Stream!Emit, Stream!Same, Ready
<1> QED
  BY <1>1 DEF Stream!Next

LEMMA LinkArrives ==
  ASSUME peer' = peer, Ready # <<>>, Ready' = Tail(Ready)
  PROVE  Stream!Next
<1>1. Stream!Arrive("link")
  <2> DEFINE f == [l \in {"link"} |-> Ready]
             g == [l \in {"link"} |-> Ready']
  <2>1. [f EXCEPT !["link"] = Tail(@)] = g
    BY Zenon
  <2> QED
    BY <2>1 DEF Stream!Arrive, Ready
<1> QED
  BY <1>1 DEF Stream!Next

LEMMA LinkCloses ==
  ASSUME peer' = "gone", Stream!IsPrefix(Ready', Ready)
  PROVE  Stream!Next
<1>1. Stream!Close("link")
  BY Zenon DEF Stream!Close, Stream!Same, Ready
<1> QED
  BY <1>1 DEF Stream!Next

LEMMA StreamMoves ==
  ASSUME StreamInv, [StreamNext]_streamVars
  PROVE  StreamInv' /\ [Stream!Next]_(Stream!vars)
<1>1. ASSUME Unread' = Unread, peer' = peer
      PROVE  UNCHANGED Stream!vars
  BY <1>1, Zenon DEF Stream!vars
<1>2. ASSUME NEW p \in Packets, WritePacket(p)
      PROVE  StreamInv' /\ Stream!Next
  <2>1. /\ StreamInv' /\ peer = "there" /\ peer' = peer
        /\ Packed(Unread') = Append(Packed(Unread), p) /\ Packed(Unread) \in Seq(Packets)
    BY <1>2, WriteMore
  <2>2. Ready \in Seq(Packets) /\ Ready' = Append(Ready, p)
    BY <2>1, Zenon DEF Ready
  <2> DEFINE r == Ready
             one == <<p>>
  <2>3. one \in Seq(Packets) /\ r \in Seq(Packets)
    BY <2>2
  <2> HIDE DEF r
  <2>4. Append(r, p) = r \o one
    BY <2>3, AppendIsConcat
  <2> HIDE DEF one
  <2>5. Stream!IsPrefix(r, r \o one)
    BY <2>3, PrefixOfBoth
  <2>6. Stream!IsPrefix(Ready, Ready')
    BY <2>2, <2>4, <2>5, Zenon DEF r
  <2> QED
    BY <2>1, <2>6, LinkEmits
<1>3. ASSUME Leave
      PROVE  StreamInv' /\ Stream!Next
  <2>1. PICK qs \in Seq(Packets), lost \in Seq(Packets) :
               Packed(Unread') = qs /\ Packed(Unread) = qs \o lost
    BY <1>3, LeaveSome
  <2>2. Stream!IsPrefix(qs, qs \o lost)
    BY PrefixOfBoth
  <2>3. Stream!IsPrefix(Ready', Ready)
    BY <2>1, <2>2, Zenon DEF Ready
  <2> QED
    BY <1>3, <2>3, LeaveSome, LinkCloses
<1>4. ASSUME ReadPayload
      PROVE  StreamInv' /\ Stream!Next
  <2>1. StreamInv' /\ peer' = peer /\ Ready # <<>> /\ Ready' = Tail(Ready)
    BY <1>4, ReadFirst, Zenon DEF Ready
  <2> QED
    BY <2>1, LinkArrives
<1>5. ASSUME Arrive \/ ReadHeader \/ Disconnected
      PROVE  StreamInv' /\ UNCHANGED Stream!vars
  BY <1>1, <1>5, BytesStay, HeaderStays, GoneIsHeard
<1>6. ASSUME UNCHANGED streamVars
      PROVE  StreamInv' /\ UNCHANGED Stream!vars
  <2>1. /\ peer' = peer /\ wire' = wire /\ buffer' = buffer /\ reader' = reader
        /\ size' = size /\ written' = written /\ read' = read
    BY <1>6 DEF streamVars
  <2>2. Unread' = Unread
    BY <2>1, Zenon DEF Unread
  <2>3. StreamTyped' /\ ReaderSound' /\ HangsOnlyWhenCut'
    BY <2>1 DEF StreamInv, StreamTyped, ReaderSound, HangsOnlyWhenCut
  <2> QED
    BY <1>1, <2>1, <2>2, <2>3, ComesStill
<1> QED
  BY <1>2, <1>3, <1>4, <1>5, <1>6 DEF StreamNext, Read

LEMMA StreamInvHolds == StreamSpec => []StreamInv
<1>1. StreamInit => StreamInv
  BY StreamBegins
<1>2. StreamInv /\ [StreamNext]_streamVars => StreamInv'
  BY StreamMoves
<1> QED
  BY <1>1, <1>2, PTL DEF StreamSpec

(* A peer that goes after a whole packet, in however many pieces it came,  *)
(* is noticed: the loop in TcpUtils::readPacket() that waits for more is   *)
(* entered for ever only when a packet has been cut.                       *)
THEOREM OnlyCutPacketsHang == StreamSpec => []HangsOnlyWhenCut
<1>1. StreamInv => HangsOnlyWhenCut
  BY DEF StreamInv
<1> QED
  BY <1>1, StreamInvHolds, PTL

(* Whatever the bytes of the packets are and however TCP cuts them, what   *)
(* readPacket() returns is what writePacket() was given, each packet once, *)
(* whole and in order.                                                     *)
THEOREM ReadAsWritten == StreamSpec => []IsPrefix(read, written)
<1>1. StreamInv => IsPrefix(read, written)
  <2> SUFFICES ASSUME StreamInv PROVE IsPrefix(read, written)
    OBVIOUS
  <2>1. PICK ps \in Seq(Packets), lost \in Seq(Packets) : \E t \in Seq(Byte) : Comes(ps, lost, t)
    BY DEF StreamInv
  <2>2. written = (read \o ps) \o lost /\ read \in Seq(Packets)
    BY <2>1 DEF Comes, StreamInv, StreamTyped
  <2>3. (read \o ps) \o lost = read \o (ps \o lost)
    <3>1. Associates(read, ps, lost)
      BY ONLY <2>2, PacketsAssociate, ps \in Seq(Packets), lost \in Seq(Packets)
    <3> QED
      BY <3>1, Zenon DEF Associates
  <2> DEFINE r == ps \o lost
  <2>4. r \in Seq(Packets)
    BY ConcatProperties
  <2> HIDE DEF r
  <2>5. IsPrefix(read, read \o r)
    BY <2>2, <2>4, PrefixOfBoth
  <2> QED
    BY <2>2, <2>3, <2>5, Zenon DEF r
<1> QED
  BY <1>1, StreamInvHolds, PTL

(* One direction of a TCP connection is the packet stream that             *)
(* ServerConnection relies on, for any packets that fit their headers.     *)
THEOREM FramedStreamIsPacketLink == StreamSpec => StreamIsPacketLink
<1>1. StreamInit => Stream!Init
  <2> SUFFICES ASSUME StreamInit PROVE Stream!Init
    OBVIOUS
  <2>1. Packed(Unread) = <<>> /\ peer = "there"
    BY StreamBegins
  <2> QED
    BY <2>1 DEF Stream!Init
<1>2. StreamInv /\ [StreamNext]_streamVars => [Stream!Next]_(Stream!vars)
  BY StreamMoves
<1> QED
  BY <1>1, <1>2, StreamInvHolds, PTL DEF StreamSpec, StreamIsPacketLink, Stream!Spec
===============================================================================
