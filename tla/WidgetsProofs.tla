------------------------------ MODULE WidgetsProofs -----------------------------
(***************************************************************************)
(* That no chat misses a line, that the view of a chat has all its rows    *)
(* within reach and lets its reader stay where he is, for any set of       *)
(* chats, any bounds, any sizes of the view and any height of a line; and  *)
(* that the page of the servers is about the current one, for any servers  *)
(* and names: what it shows, what it applies and what it removes.          *)
(*                                                                         *)
(* RowsAreInReach is not inductive: that a row can be scrolled to follows  *)
(* from what the range is, and not from the range before it was set        *)
(* (ViewIsLaidOut).  NoLineIsMissing is not inductive either: that what    *)
(* the core says to nobody is not missed needs that there is nothing       *)
(* without a connection (LinesInv).                                        *)
(***************************************************************************)
EXTENDS Chat, ServersPage, SequenceLemmas

LEMMA MessageTypes ==
  ASSUME NEW t, MessageType(t) # NoType
  PROVE  MessageType(t) \in {"normal", "notice", "special", "action"}
BY DEF MessageType, NoType, Special, Notices

(* What the formatter makes of a type is a number of lines. *)
LEMMA ContentIsCounted ==
  ASSUME NEW t, NEW n \in MessageContent(t)
  PROVE  n \in Nat
BY ChatAssumption DEF MessageContent

(* The range and the value that updateTotalHeight() leaves. *)
LEMMA RangeIsCounted ==
  ASSUME NEW total \in Nat, NEW height \in Nat
  PROVE  RangeFor(total, height) \in Nat
BY DEF RangeFor

LEMMA HeightIsCounted ==
  ASSUME NEW ch, NEW r, r[ch] \in Seq(Line)
  PROVE  TotalHeight(ch, r) \in Nat
<1>1. Len(r[ch]) \in Nat
  OBVIOUS
<1> QED
  BY <1>1, ChatAssumption DEF TotalHeight

Scrolled == value \in 0..maximum /\ maximum \in Nat

LEMMA UpdateKeepsRange ==
  ASSUME Scrolled, NEW ch, NEW r, r[ch] \in Seq(Line), NEW height \in Nat,
         UpdateTotalHeight(ch, r, height)
  PROVE  /\ Scrolled'
         /\ maximum' = RangeFor(TotalHeight(ch, r), height)
         /\ IF value = maximum THEN value' = maximum'
            ELSE value' = IF value < maximum' THEN value ELSE maximum'
<1> DEFINE range == RangeFor(TotalHeight(ch, r), height)
<1>1. range \in Nat
  BY HeightIsCounted, RangeIsCounted
<1>2. /\ maximum' = range
      /\ value' = IF value = maximum \/ value > range THEN range ELSE value
  BY DEF UpdateTotalHeight
<1>3. range = RangeFor(TotalHeight(ch, r), height)
  OBVIOUS
<1> HIDE DEF range
<1> QED
  BY <1>1, <1>2, <1>3 DEF Scrolled

(* A line is appended to the rows of its chat. *)
LEMMA AppendedIsTyped ==
  ASSUME DOMAIN rows \subseteq Chats, \A ch \in DOMAIN rows : rows[ch] \in Seq(Line),
         NEW m \in Line, m.chat \in DOMAIN rows,
         rows' = [rows EXCEPT ![m.chat] = Append(@, m)]
  PROVE  DOMAIN rows' = DOMAIN rows /\ \A ch \in DOMAIN rows' : rows'[ch] \in Seq(Line)
<1>1. Append(rows[m.chat], m) \in Seq(Line)
  BY AppendProperties
<1> QED
  BY <1>1

-----------------------------------------------------------------------------
(* Type correctness. *)

LEMMA InitTyped == Init => TypeOK
<1> SUFFICES ASSUME Init PROVE TypeOK
  OBVIOUS
<1>1. said \in [Chats -> 0..MaxSaid] /\ notices \in 0..MaxNotices
  BY ChatAssumption DEF Init
<1>2. DOMAIN rows = {}
  BY DEF Init, Nobody
<1>3. wire \in Seq(Line) /\ monitor \in Seq(Line)
  BY EmptySeq DEF Init
<1>4. value \in 0..maximum /\ maximum \in Nat
  BY DEF Init
<1>5. DOMAIN rows \subseteq Chats /\ \A ch \in DOMAIN rows : rows[ch] \in Seq(Line)
  BY <1>2
<1>6. view \in DOMAIN rows \cup {"none", "deleted"} /\ attached = FALSE
  BY DEF Init
<1>7. /\ connected \in BOOLEAN /\ pending \in BOOLEAN /\ crashed \in BOOLEAN
      /\ size \in [width : Widths, height : Heights]
  BY DEF Init
<1> QED
  BY <1>1, <1>3, <1>4, <1>5, <1>6, <1>7 DEF TypeOK

(* Lines that are numbered on are lines. *)
LEMMA LinesAreTyped ==
  ASSUME NEW ch \in Chats, NEW type \in {"normal", "notice", "special", "action"},
         NEW n \in Nat, NEW last \in Nat, last + n <= MaxSaid
  PROVE  [i \in 1..n |-> [chat |-> ch, number |-> last + i, type |-> type]]
           \in Seq(Line)
<1>1. ASSUME NEW i \in 1..n
      PROVE  [chat |-> ch, number |-> last + i, type |-> type] \in Line
  <2>1. last + i \in 0..MaxSaid
    BY <1>1, ChatAssumption
  <2> QED
    BY <2>1 DEF Line
<1> QED
  BY <1>1, IsASeq

(* A type that is not handled has no lines. *)
LEMMA UnknownHasNone ==
  ASSUME NEW t, MessageType(t) = NoType, NEW n \in MessageContent(t)
  PROVE  n = 0
<1>1. t \notin Special \cup Notices \cup {"Private", "Action"}
  BY DEF MessageType, NoType, Special, Notices
<1>2. t # "Motd"
  BY <1>1 DEF Notices
<1>3. MessageContent(t) = {0}
  BY <1>1, <1>2, Zenon DEF MessageContent
<1> QED
  BY <1>3

(* The lines of a message come next after those of its chat. *)
LEMMA LinesAreNext ==
  ASSUME NEW ch \in Chats, NEW t, NEW n \in MessageContent(t), NEW last \in Nat,
         last + n <= MaxSaid,
         NEW u, u = [i \in 1..(IF MessageType(t) = NoType THEN 0 ELSE n) |->
                       [chat |-> ch, number |-> last + i, type |-> MessageType(t)]]
  PROVE  /\ u \in Seq(Line) /\ Len(u) = n
         /\ \A i \in 1..n : u[i].chat = ch /\ u[i].number = last + i
<1>1. n \in Nat
  BY ContentIsCounted
<1> DEFINE k == IF MessageType(t) = NoType THEN 0 ELSE n
           type == MessageType(t)
<1>2. k = n
  BY UnknownHasNone, Zenon
<1>3. u = [i \in 1..k |-> [chat |-> ch, number |-> last + i, type |-> type]]
  BY Zenon
<1>4. type \in {"normal", "notice", "special", "action"} \/ n = 0
  BY MessageTypes, UnknownHasNone, Zenon
<1> HIDE DEF k, type
<1>5. u = [i \in 1..n |-> [chat |-> ch, number |-> last + i, type |-> type]]
  BY <1>2, <1>3
<1>6. u \in Seq(Line)
  <2>1. CASE type \in {"normal", "notice", "special", "action"}
    <3> DEFINE line == [i \in 1..n |-> [chat |-> ch, number |-> last + i, type |-> type]]
    <3>1. line \in Seq(Line)
      BY <1>1, <2>1, LinesAreTyped
    <3> QED
      BY <1>5, <3>1
  <2>2. CASE n = 0
    <3>1. 1..n = {}
      BY <2>2
    <3> QED
      BY <1>1, <1>5, <3>1, IsASeq
  <2> QED
    BY <1>4, <2>1, <2>2
<1>7. DOMAIN u = 1..n
  BY <1>5
<1>8. \A i \in 1..n : u[i] = [chat |-> ch, number |-> last + i, type |-> type]
  BY <1>5
<1>9. ASSUME NEW i \in 1..n
      PROVE  u[i].chat = ch /\ u[i].number = last + i
  <2>1. ASSUME NEW x, x = [chat |-> ch, number |-> last + i, type |-> type]
        PROVE  x.chat = ch /\ x.number = last + i
    BY <2>1
  <2> QED
    BY <1>8, <2>1, Zenon
<1>10. ASSUME NEW v \in Seq(Line), DOMAIN v = 1..n
       PROVE  Len(v) = n
  BY <1>1, <1>10, LenProperties
<1> QED
  BY <1>6, <1>7, <1>9, <1>10, Zenon

(* What a message makes: so many lines more of a chat, which are sent. *)
LEMMA SaidIsSent ==
  ASSUME TypeOK, MessageReceived
  PROVE  \E ch \in Chats, n \in Nat, u \in Seq(Line) :
           /\ said[ch] + n <= MaxSaid
           /\ said' = [said EXCEPT ![ch] = said[ch] + n]
           /\ Broadcast(u)
           /\ Len(u) = n
           /\ \A i \in 1..n : u[i].chat = ch /\ u[i].number = said[ch] + i
<1> DEFINE Lines(ch, t, n) ==
             [i \in 1..(IF MessageType(t) = NoType THEN 0 ELSE n) |->
                [chat |-> ch, number |-> said[ch] + i, type |-> MessageType(t)]]
<1>1. PICK ch \in Chats, t \in IrcTypes : \E n \in MessageContent(t) :
        /\ said[ch] + n <= MaxSaid
        /\ said' = [said EXCEPT ![ch] = @ + n]
        /\ Broadcast(Lines(ch, t, n))
  BY Zenon DEF MessageReceived
<1>2. PICK n \in MessageContent(t) :
        /\ said[ch] + n <= MaxSaid
        /\ said' = [said EXCEPT ![ch] = @ + n]
        /\ Broadcast(Lines(ch, t, n))
  BY <1>1, Zenon
<1>3. n \in Nat
  BY ContentIsCounted
<1>4. said[ch] \in Nat
  BY ChatAssumption DEF TypeOK
<1> DEFINE u == Lines(ch, t, n)
<1>5. Broadcast(u)
  BY <1>2, Zenon
<1>6. u = [i \in 1..(IF MessageType(t) = NoType THEN 0 ELSE n) |->
             [chat |-> ch, number |-> said[ch] + i, type |-> MessageType(t)]]
  OBVIOUS
<1>7. said[ch] + n <= MaxSaid /\ said' = [said EXCEPT ![ch] = said[ch] + n]
  BY <1>2, Zenon
<1> HIDE DEF u, Lines
<1> DEFINE last == said[ch]
<1>8. /\ last \in Nat /\ last + n <= MaxSaid
      /\ u = [i \in 1..(IF MessageType(t) = NoType THEN 0 ELSE n) |->
               [chat |-> ch, number |-> last + i, type |-> MessageType(t)]]
  BY <1>4, <1>6, <1>7, Zenon
<1> HIDE DEF last
<1>9. /\ u \in Seq(Line) /\ Len(u) = n
      /\ \A i \in 1..n : u[i].chat = ch /\ u[i].number = last + i
  BY <1>8, LinesAreNext
<1> QED
  BY <1>3, <1>5, <1>7, <1>9 DEF last

LEMMA SaidKeepsType ==
  ASSUME TypeOK, MessageReceived, UNCHANGED crashed
  PROVE  TypeOK'
<1>1. PICK ch \in Chats, n \in Nat, u \in Seq(Line) :
        /\ said[ch] + n <= MaxSaid
        /\ said' = [said EXCEPT ![ch] = said[ch] + n]
        /\ Broadcast(u)
  BY SaidIsSent
<1>2. said \in [Chats -> 0..MaxSaid] /\ said[ch] \in Nat
  BY ChatAssumption DEF TypeOK
<1>3. wire' \in Seq(Line)
  BY <1>1, ConcatProperties DEF Broadcast, TypeOK
<1>4. said' \in [Chats -> 0..MaxSaid]
  <2>1. said[ch] + n \in 0..MaxSaid
    BY <1>1, <1>2, ChatAssumption
  <2> QED
    BY <1>1, <1>2, <2>1
<1>5. UNCHANGED <<notices, connected, monitor, rows, view, attached, pending, size,
                  value, maximum>>
  BY DEF MessageReceived, viewVars
<1> QED
  BY <1>3, <1>4, <1>5 DEF TypeOK, IsLive

LEMMA NoticeKeepsType ==
  ASSUME TypeOK, ErrorNotice, UNCHANGED crashed
  PROVE  TypeOK'
<1>1. PICK ch \in Chats : Broadcast(<<[chat |-> ch, number |-> 0, type |-> "notice"]>>)
  BY DEF ErrorNotice
<1>2. [chat |-> ch, number |-> 0, type |-> "notice"] \in Line
  BY ChatAssumption DEF Line
<1>3. wire' \in Seq(Line)
  BY <1>1, <1>2, ConcatProperties DEF Broadcast, TypeOK
<1>4. notices' \in 0..MaxNotices
  BY ChatAssumption DEF ErrorNotice, TypeOK
<1> QED
  BY <1>3, <1>4 DEF TypeOK, ErrorNotice, viewVars, IsLive

(* The view's own handlers leave the scroll bar within its range. *)
LEMMA GeometryKeepsRange ==
  ASSUME TypeOK, NEW s \in [width : Widths, height : Heights], UpdateGeometries(s)
  PROVE  Scrolled'
<1>1. s.height \in Nat
  BY ChatAssumption
<1>2. Scrolled
  BY DEF TypeOK, Scrolled
<1>3. CASE IsLive /\ UpdateTotalHeight(view, rows, s.height)
  BY <1>1, <1>2, <1>3, UpdateKeepsRange DEF TypeOK, IsLive
<1>4. CASE UNCHANGED <<value, maximum>>
  BY <1>2, <1>4 DEF Scrolled
<1> QED
  BY <1>3, <1>4 DEF UpdateGeometries

LEMMA ViewKeepsType ==
  ASSUME TypeOK, DoItemsLayout \/ ResizeEvent \/ UserScrolls, UNCHANGED crashed
  PROVE  TypeOK'
<1>1. CASE DoItemsLayout
  <2>1. Scrolled'
    BY <1>1, GeometryKeepsRange DEF DoItemsLayout, TypeOK
  <2> QED
    BY <1>1, <2>1 DEF DoItemsLayout, TypeOK, Scrolled, coreVars, modelVars, IsLive
<1>2. CASE ResizeEvent
  <2>1. size' \in [width : Widths, height : Heights]
    BY <1>2 DEF ResizeEvent
  <2>2. Scrolled'
    BY <1>2, <2>1, GeometryKeepsRange DEF ResizeEvent
  <2> QED
    BY <1>2, <2>1, <2>2 DEF ResizeEvent, TypeOK, Scrolled, coreVars, modelVars, IsLive
<1>3. CASE UserScrolls
  BY <1>3 DEF UserScrolls, TypeOK, coreVars, modelVars, IsLive
<1> QED
  BY <1>1, <1>2, <1>3

LEMMA WindowKeepsType ==
  ASSUME TypeOK, Connect \/ Lost \/ \E ch \in Chats : ChannelClicked(ch), UNCHANGED crashed
  PROVE  TypeOK'
<1>1. CASE Connect
  BY <1>1 DEF Connect, TypeOK, coreVars, viewVars, IsLive
<1>2. CASE Lost
  <2>1. DOMAIN rows' = {} /\ wire' = <<>> /\ monitor' = <<>> /\ connected' = FALSE
    BY <1>2 DEF Lost, Nobody
  <2>2. attached' = FALSE /\ pending' \in BOOLEAN /\ view' \in {"none", "deleted"}
    BY <1>2 DEF Lost, TypeOK, IsLive
  <2>3. UNCHANGED <<said, notices, size, value, maximum>>
    BY <1>2 DEF Lost, coreVars
  <2>4. wire' \in Seq(Line) /\ monitor' \in Seq(Line)
    BY <2>1, EmptySeq
  <2>5. DOMAIN rows' \subseteq Chats /\ \A ch \in DOMAIN rows' : rows'[ch] \in Seq(Line)
    BY <2>1
  <2> QED
    BY <2>1, <2>2, <2>3, <2>4, <2>5 DEF TypeOK
<1>3. ASSUME NEW ch \in Chats, ChannelClicked(ch)
      PROVE  TypeOK'
  <2>1. /\ DOMAIN rows' \subseteq Chats /\ ch \in DOMAIN rows'
        /\ \A c \in DOMAIN rows' : rows'[c] \in Seq(Line)
    BY <1>3, EmptySeq DEF ChannelClicked, TypeOK
  <2> QED
    BY <1>3, <2>1 DEF ChannelClicked, SetModel, TypeOK, coreVars, IsLive
<1> QED
  BY <1>1, <1>2, <1>3

(* The models and the scroll bar after a line has been delivered. *)
LEMMA DeliveryKeepsType ==
  ASSUME TypeOK, SocketDataReady, UNCHANGED crashed
  PROVE  TypeOK'
<1> DEFINE m == Head(wire)
<1>1. m \in Line /\ wire' \in Seq(Line)
  BY HeadTailProperties DEF SocketDataReady, TypeOK
<1>2. m.chat \in Chats
  BY <1>1 DEF Line
<1>3. Scrolled
  BY DEF Scrolled, TypeOK
<1>4. size.height \in Nat
  BY ChatAssumption DEF TypeOK
<1>5. CASE UNCHANGED <<monitor, rows, value, maximum>>
  BY <1>1, <1>5 DEF SocketDataReady, TypeOK, coreVars, IsLive
<1>6. CASE Consume(m)
  <2>1. monitor' \in Seq(Line)
    BY <1>1, <1>6, AppendProperties DEF Consume, TypeOK
  <2>2. DOMAIN rows' = DOMAIN rows /\ \A ch \in DOMAIN rows' : rows'[ch] \in Seq(Line)
    BY <1>1, <1>6, AppendedIsTyped DEF Consume, TypeOK
  <2>3. Scrolled'
    <3>1. CASE m.chat \in DOMAIN rows /\ UpdateTotalHeight(m.chat, rows', size.height)
      BY <1>3, <1>4, <2>2, <3>1, UpdateKeepsRange
    <3>2. CASE UNCHANGED <<value, maximum>>
      BY <1>3, <3>2 DEF Scrolled
    <3> QED
      BY <1>6, <3>1, <3>2 DEF Consume, RowsInserted
  <2> QED
    BY <1>1, <2>1, <2>2, <2>3 DEF SocketDataReady, TypeOK, Scrolled, coreVars, IsLive
<1> QED
  BY <1>5, <1>6 DEF SocketDataReady

(* Whatever happens to lines, chats and the window, each part of the state *)
(* keeps its type, and the scroll bar's value its range (Next).            *)
THEOREM TypeCorrect == Spec => []TypeOK
<1>1. TypeOK /\ [Next]_vars => TypeOK'
  <2> SUFFICES ASSUME TypeOK, [Next]_vars PROVE TypeOK'
    OBVIOUS
  <2>1. CASE Crash
    BY <2>1 DEF Crash, TypeOK, IsLive, coreVars, modelVars, viewVars
  <2>2. CASE MessageReceived /\ UNCHANGED crashed
    BY <2>2, SaidKeepsType
  <2>3. CASE ErrorNotice /\ UNCHANGED crashed
    BY <2>3, NoticeKeepsType
  <2>4. CASE (Connect \/ Lost \/ \E ch \in Chats : ChannelClicked(ch)) /\ UNCHANGED crashed
    BY <2>4, WindowKeepsType
  <2>5. CASE SocketDataReady /\ UNCHANGED crashed
    BY <2>5, DeliveryKeepsType
  <2>6. CASE (DoItemsLayout \/ ResizeEvent \/ UserScrolls) /\ UNCHANGED crashed
    BY <2>6, ViewKeepsType
  <2>7. CASE UNCHANGED vars
    BY <2>7 DEF vars, coreVars, modelVars, viewVars, TypeOK, IsLive
  <2> QED
    BY <2>1, <2>2, <2>3, <2>4, <2>5, <2>6, <2>7 DEF Next
<1> QED
  BY <1>1, InitTyped, PTL DEF Spec

-----------------------------------------------------------------------------
(* The geometry of the view. *)

(* A view that has been attached and laid out has the range of its rows. *)
ViewIsLaidOut ==
  IsLive =>
    /\ columns = ColumnSizes(size.width)
    /\ attached /\ ~pending => maximum = RangeFor(TotalHeight(view, rows), size.height)

(* Nothing that the view looks at has changed. *)
LEMMA UntouchedIsLaidOut ==
  ASSUME ViewIsLaidOut, UNCHANGED <<rows, view, attached, pending, columns, size, maximum>>
  PROVE  ViewIsLaidOut'
BY DEF ViewIsLaidOut, IsLive, TotalHeight

LEMMA NoChatIsNone ==
  ASSUME TypeOK, view = "none"
  PROVE  ~IsLive
BY ChatAssumption DEF TypeOK, IsLive

LEMMA LayoutLaysOut ==
  ASSUME TypeOK, DoItemsLayout \/ ResizeEvent
  PROVE  ViewIsLaidOut'
<1>1. UpdateGeometries(size') /\ UNCHANGED <<rows, view, attached>>
  BY DEF DoItemsLayout, ResizeEvent, modelVars
<1>2. size' \in [width : Widths, height : Heights]
  BY DEF DoItemsLayout, ResizeEvent, TypeOK
<1>3. CASE view = "none"
  BY <1>1, <1>3, NoChatIsNone DEF ViewIsLaidOut, IsLive
<1>4. CASE IsLive /\ columns' = ColumnSizes(size'.width) /\ UpdateTotalHeight(view, rows, size'.height)
  <2>1. maximum' = RangeFor(TotalHeight(view, rows), size'.height)
    BY <1>4 DEF UpdateTotalHeight
  <2> QED
    BY <1>1, <1>4, <2>1 DEF ViewIsLaidOut, IsLive, TotalHeight
<1> QED
  BY <1>1, <1>3, <1>4 DEF UpdateGeometries

LEMMA DeliveryLaysOut ==
  ASSUME TypeOK, ViewIsLaidOut, SocketDataReady
  PROVE  ViewIsLaidOut'
<1> DEFINE m == Head(wire)
<1>1. UNCHANGED <<view, attached, pending, columns, size>>
  BY DEF SocketDataReady
<1>2. CASE UNCHANGED <<monitor, rows, value, maximum>>
  BY <1>1, <1>2, UntouchedIsLaidOut
<1>3. CASE Consume(m)
  <2>1. CASE m.chat \notin DOMAIN rows
    BY <1>1, <1>3, <2>1, UntouchedIsLaidOut DEF Consume
  <2>2. CASE m.chat \in DOMAIN rows
    <3>1. /\ rows' = [rows EXCEPT ![m.chat] = Append(@, m)]
          /\ RowsInserted(m.chat, rows')
      BY <1>3, <2>2 DEF Consume
    <3>2. CASE view = m.chat /\ attached
      <4>1. maximum' = RangeFor(TotalHeight(view, rows'), size.height)
        BY <3>1, <3>2 DEF RowsInserted, UpdateTotalHeight
      <4> QED
        BY <1>1, <3>1, <3>2, <4>1, <2>2 DEF ViewIsLaidOut, IsLive, TotalHeight
    <3>3. CASE view # m.chat
      <4>1. maximum' = maximum /\ DOMAIN rows' = DOMAIN rows
        BY <3>1, <3>3 DEF RowsInserted
      <4>2. IsLive => rows'[view] = rows[view]
        BY <3>1, <3>3 DEF IsLive
      <4> QED
        BY <1>1, <4>1, <4>2 DEF ViewIsLaidOut, IsLive, TotalHeight
    <3>4. CASE view = m.chat /\ ~attached
      BY <1>1, <2>2, <3>1, <3>4 DEF ViewIsLaidOut, IsLive
    <3> QED
      BY <3>2, <3>3, <3>4
  <2> QED
    BY <2>1, <2>2
<1> QED
  BY <1>2, <1>3 DEF SocketDataReady

LEMMA NextLaysOut ==
  ASSUME TypeOK, ViewIsLaidOut, [Next]_vars
  PROVE  ViewIsLaidOut'
<1>1. CASE Crash
  BY <1>1, UntouchedIsLaidOut DEF Crash, modelVars, viewVars
<1>2. CASE MessageReceived \/ ErrorNotice
  BY <1>2, UntouchedIsLaidOut DEF MessageReceived, ErrorNotice, viewVars
<1>3. CASE Connect
  BY <1>3, UntouchedIsLaidOut DEF Connect, viewVars
<1>4. CASE Lost
  <2>1. DOMAIN rows' = {}
    BY <1>4 DEF Lost, Nobody
  <2> QED
    BY <2>1 DEF ViewIsLaidOut, IsLive
<1>5. ASSUME NEW ch \in Chats, ChannelClicked(ch)
      PROVE  ViewIsLaidOut'
  BY <1>5 DEF ChannelClicked, SetModel, ViewIsLaidOut, IsLive
<1>6. CASE UserScrolls
  BY <1>6, UntouchedIsLaidOut DEF UserScrolls, modelVars
<1>7. CASE UNCHANGED vars
  BY <1>7, UntouchedIsLaidOut DEF vars, modelVars, viewVars
<1> QED
  BY <1>1, <1>2, <1>3, <1>4, <1>5, <1>6, <1>7, LayoutLaysOut, DeliveryLaysOut DEF Next

(* Lines above a row take no more room than all of them. *)
LEMMA RowsFit ==
  ASSUME NEW n \in Nat, NEW k \in Nat, n \in 1..k
  PROVE  /\ n * LineHeight \in Nat /\ k * LineHeight \in Nat
         /\ n * LineHeight <= k * LineHeight
         /\ (n - 1) * LineHeight = n * LineHeight - LineHeight
<1>1. LineHeight \in Nat /\ n <= k
  BY ChatAssumption
<1>2. PICK d \in Nat : k = n + d
  <2>1. k - n \in Nat /\ k = n + (k - n)
    BY <1>1
  <2> QED
    BY <2>1
<1>3. /\ n * LineHeight \in Nat /\ d * LineHeight \in Nat
      /\ (n + d) * LineHeight = n * LineHeight + d * LineHeight
      /\ (n - 1) * LineHeight = n * LineHeight - LineHeight
  BY <1>1, <1>2
<1> QED
  BY <1>2, <1>3

(* Each row is painted at some value within the range. *)
LEMMA RowIsReached ==
  ASSUME NEW n \in Nat, NEW k \in Nat, n \in 1..k, size.height \in Nat,
         maximum = RangeFor(k * LineHeight, size.height)
  PROVE  \E v \in 0..maximum : IsPainted(n, v)
<1> DEFINE end == n * LineHeight
           total == k * LineHeight
<1>1. end \in Nat /\ total \in Nat /\ end <= total /\ LineHeight \in Nat \ {0}
  BY RowsFit, ChatAssumption
<1>2. (n - 1) * LineHeight = end - LineHeight
  BY RowsFit
<1>3. maximum = IF total < size.height THEN 0 ELSE total - size.height
  BY DEF RangeFor
<1>4. ASSUME NEW v \in 0..maximum, v <= end, v + size.height - 1 >= end - LineHeight
      PROVE  IsPainted(n, v)
  BY <1>2, <1>4 DEF IsPainted
<1> HIDE DEF end, total
<1>5. maximum \in Nat
  BY <1>1, <1>3
<1>6. CASE end <= maximum
  <2>1. end \in 0..maximum /\ end + size.height - 1 >= end - LineHeight
    BY <1>1, <1>5, <1>6
  <2> QED
    BY <1>1, <1>4, <2>1
<1>7. CASE maximum < end
  <2>1. maximum \in 0..maximum /\ maximum + size.height - 1 >= end - LineHeight
    BY <1>1, <1>3, <1>5, <1>7
  <2> QED
    BY <1>1, <1>4, <1>5, <1>7, <2>1
<1> QED
  BY <1>1, <1>5, <1>6, <1>7

LEMMA LaidOutIsInReach ==
  ASSUME TypeOK, ViewIsLaidOut
  PROVE  RowsAreInReach
<1> SUFFICES ASSUME IsLive
             PROVE  /\ Len(columns) = 3 /\ columns[1] + columns[2] + columns[3] = size.width
                    /\ attached /\ ~pending =>
                         /\ \A n \in DOMAIN rows[view] : \E v \in 0..maximum : IsPainted(n, v)
                         /\ maximum > 0 => Len(rows[view]) * LineHeight = maximum + size.height
  BY DEF RowsAreInReach
<1>1. size.width \in Nat /\ size.height \in Nat
  BY ChatAssumption DEF TypeOK
<1>2. Len(columns) = 3 /\ columns[1] + columns[2] + columns[3] = size.width
  <2> DEFINE col == size.width \div 5
  <2>1. col \in Nat
    BY <1>1
  <2>2. columns = <<col, col, size.width - 2 * col>>
    BY DEF ViewIsLaidOut, ColumnSizes
  <2> HIDE DEF col
  <2> QED
    BY <1>1, <2>1, <2>2
<1>3. ASSUME attached, ~pending
      PROVE  /\ \A n \in DOMAIN rows[view] : \E v \in 0..maximum : IsPainted(n, v)
             /\ maximum > 0 => Len(rows[view]) * LineHeight = maximum + size.height
  <2> DEFINE k == Len(rows[view])
  <2>1. rows[view] \in Seq(Line)
    BY DEF TypeOK, IsLive
  <2>2. k \in Nat /\ DOMAIN rows[view] = 1..k
    BY <2>1, LenProperties
  <2>3. maximum = RangeFor(k * LineHeight, size.height)
    BY <1>3 DEF ViewIsLaidOut, TotalHeight
  <2> HIDE DEF k
  <2>4. ASSUME NEW n \in DOMAIN rows[view]
        PROVE  \E v \in 0..maximum : IsPainted(n, v)
    <3>1. n \in Nat /\ n \in 1..k
      BY <2>2
    <3> QED
      BY <1>1, <2>2, <2>3, <3>1, RowIsReached
  <2>5. k * LineHeight \in Nat
    BY <2>2, ChatAssumption
  <2>6. maximum > 0 => k * LineHeight = maximum + size.height
    BY <1>1, <2>3, <2>5 DEF RangeFor
  <2> QED
    BY <2>4, <2>6 DEF k
<1> QED
  BY <1>2, <1>3

(* A view that is attached and has been laid out paints each of its rows   *)
(* at some position of its scroll bar, and its columns fill it             *)
(* (updateTotalHeight, updateColumnSizes).                                 *)
THEOREM AllIsInReach == Spec => []RowsAreInReach
<1>1. Init => ViewIsLaidOut
  BY DEF Init, ViewIsLaidOut, IsLive, Nobody
<1>2. TypeOK /\ ViewIsLaidOut /\ [Next]_vars => ViewIsLaidOut'
  BY NextLaysOut
<1>3. TypeOK /\ ViewIsLaidOut => RowsAreInReach
  BY LaidOutIsInReach
<1> QED
  BY <1>1, <1>2, <1>3, TypeCorrect, PTL DEF Spec

-----------------------------------------------------------------------------
(* The reader's place. *)

Kept == IF value = maximum THEN value' = maximum'
        ELSE value' = IF value < maximum' THEN value ELSE maximum'

LEMMA UntouchedIsKept ==
  ASSUME TypeOK, UNCHANGED <<value, maximum>>
  PROVE  Kept
BY DEF TypeOK, Kept

LEMMA GeometryKeepsPlace ==
  ASSUME TypeOK, NEW s \in [width : Widths, height : Heights], UpdateGeometries(s)
  PROVE  Kept
<1>1. s.height \in Nat
  BY ChatAssumption
<1>2. Scrolled
  BY DEF TypeOK, Scrolled
<1>3. CASE IsLive /\ UpdateTotalHeight(view, rows, s.height)
  <2>1. rows[view] \in Seq(Line)
    BY <1>3 DEF TypeOK, IsLive
  <2> QED
    BY <1>1, <1>2, <1>3, <2>1, UpdateKeepsRange DEF Kept
<1>4. CASE UNCHANGED <<value, maximum>>
  BY <1>4, UntouchedIsKept
<1> QED
  BY <1>3, <1>4 DEF UpdateGeometries

LEMMA DeliveryKeepsPlace ==
  ASSUME TypeOK, SocketDataReady
  PROVE  Kept
<1> DEFINE m == Head(wire)
<1>1. m \in Line
  BY HeadTailProperties DEF SocketDataReady, TypeOK
<1>2. CASE UNCHANGED <<value, maximum>>
  BY <1>2, UntouchedIsKept
<1>3. CASE m.chat \in DOMAIN rows /\ rows' = [rows EXCEPT ![m.chat] = Append(@, m)]
             /\ UpdateTotalHeight(m.chat, rows', size.height)
  <2>1. rows'[m.chat] \in Seq(Line)
    BY <1>1, <1>3, AppendedIsTyped DEF TypeOK
  <2>2. Scrolled /\ size.height \in Nat
    BY ChatAssumption DEF TypeOK, Scrolled
  <2> QED
    BY <1>3, <2>1, <2>2, UpdateKeepsRange DEF Kept
<1> QED
  BY <1>2, <1>3 DEF SocketDataReady, Consume, RowsInserted

LEMMA NextKeepsPlace ==
  ASSUME TypeOK, [Next]_vars, view' = view, attached, attached', ~UserScrolls
  PROVE  Kept
<1>1. CASE Crash \/ MessageReceived \/ ErrorNotice \/ Connect \/ Lost \/ UNCHANGED vars
  BY <1>1, UntouchedIsKept
     DEF Crash, MessageReceived, ErrorNotice, Connect, Lost, vars, viewVars
<1>2. ASSUME NEW ch \in Chats, ChannelClicked(ch)
      PROVE  Kept
  BY <1>2, UntouchedIsKept DEF ChannelClicked
<1>3. CASE DoItemsLayout \/ ResizeEvent
  BY <1>3, GeometryKeepsPlace DEF DoItemsLayout, ResizeEvent, TypeOK
<1> QED
  BY <1>1, <1>2, <1>3, DeliveryKeepsPlace DEF Next

(* No line that comes, no new size and no layout moves a reader who has    *)
(* scrolled back, or leaves one behind who is at the end                   *)
(* (updateTotalHeight).                                                    *)
THEOREM PlaceIsKept == Spec => KeepsItsPlace
<1>1. TypeOK /\ [Next]_vars =>
        [view' = view /\ attached /\ attached' /\ ~UserScrolls =>
           IF value = maximum THEN value' = maximum'
           ELSE value' = IF value < maximum' THEN value ELSE maximum']_vars
  BY NextKeepsPlace DEF Kept
<1> QED
  BY <1>1, TypeCorrect, PTL DEF Spec, KeepsItsPlace

-----------------------------------------------------------------------------
(* No line is missing. *)

(* The lines of a chat in a sequence of lines. *)
LEMMA LinesAreNumbered ==
  ASSUME NEW ch, NEW s \in Seq(Line)
  PROVE  \A i \in LinesOf(s, ch) :
           /\ i \in 1..Len(s) /\ i \in Nat
           /\ s[i].chat = ch /\ s[i].number # 0 /\ s[i].number \in Nat
<1> SUFFICES ASSUME NEW i \in LinesOf(s, ch)
             PROVE  /\ i \in 1..Len(s) /\ i \in Nat
                    /\ s[i].chat = ch /\ s[i].number # 0 /\ s[i].number \in Nat
  OBVIOUS
<1>1. i \in 1..Len(s) /\ s[i].chat = ch /\ s[i].number # 0
  BY LenProperties DEF LinesOf
<1>2. s[i] \in Line
  BY <1>1, ElementOfSeq
<1>3. s[i].number \in Nat
  BY <1>2, ChatAssumption DEF Line
<1> QED
  BY <1>1, <1>3, LenProperties

(* Where t has its lines of a chat in the order and from one on all the    *)
(* lines that s has of it, its lines are the last ones where those of s    *)
(* are; f tells where in s a line of t is.                                 *)
LEMMA EndsAlike ==
  ASSUME NEW ch, NEW n \in Nat, NEW s \in Seq(Line), NEW t \in Seq(Line), NEW f,
         AreTheLast(s, ch, n),
         \A i \in LinesOf(t, ch) : f[i] \in LinesOf(s, ch) /\ s[f[i]].number = t[i].number,
         \A i, j \in LinesOf(t, ch) : i < j => f[i] < f[j],
         \A i \in LinesOf(t, ch), j \in LinesOf(s, ch) :
           f[i] < j => \E k \in LinesOf(t, ch) : f[k] = j
  PROVE  AreTheLast(t, ch, n)
<1> DEFINE Ls == LinesOf(s, ch)
           Lt == LinesOf(t, ch)
<1>1. /\ \A i \in Ls : i \in Nat /\ s[i].number \in Nat
      /\ \A i \in Lt : i \in Nat /\ t[i].number \in Nat
  BY LinesAreNumbered
<1>2. \A i \in Ls : /\ s[i].number <= n
                    /\ \A j \in Ls : i < j => s[i].number < s[j].number
                    /\ \A k \in s[i].number..n : \E j \in Ls : s[j].number = k
  BY DEF AreTheLast
<1>3. /\ \A i \in Lt : f[i] \in Ls /\ s[f[i]].number = t[i].number
      /\ \A i, j \in Lt : i < j => f[i] < f[j]
      /\ \A i \in Lt, j \in Ls : f[i] < j => \E k \in Lt : f[k] = j
  OBVIOUS
<1> HIDE DEF Ls, Lt
<1>4. ASSUME NEW i \in Lt
      PROVE  /\ t[i].number <= n
             /\ \A j \in Lt : i < j => t[i].number < t[j].number
             /\ \A k \in t[i].number..n : \E j \in Lt : t[j].number = k
  <2>1. f[i] \in Ls /\ s[f[i]].number = t[i].number
    BY <1>3
  <2>2. t[i].number <= n
    BY <1>2, <2>1
  <2>3. ASSUME NEW j \in Lt, i < j
        PROVE  t[i].number < t[j].number
    <3>1. f[j] \in Ls /\ s[f[j]].number = t[j].number /\ f[i] < f[j]
      BY <1>3, <2>3
    <3>2. s[f[i]].number < s[f[j]].number
      BY <1>2, <2>1, <3>1
    <3> QED
      BY <2>1, <3>1, <3>2
  <2>4. ASSUME NEW k \in t[i].number..n
        PROVE  \E j \in Lt : t[j].number = k
    <3>1. PICK j \in Ls : s[j].number = k
      BY <1>2, <2>1
    <3>2. f[i] \in Nat /\ j \in Nat
      BY <1>1, <2>1
    <3>3. CASE j = f[i]
      BY <2>1, <3>1, <3>3
    <3>4. CASE f[i] < j
      <4>1. PICK l \in Lt : f[l] = j
        BY <1>3, <3>4
      <4>2. s[f[l]].number = t[l].number
        BY <1>3
      <4> QED
        BY <3>1, <4>1, <4>2
    <3>5. CASE j < f[i]
      <4>1. s[j].number < s[f[i]].number
        BY <1>2, <2>1, <3>5
      <4>2. s[j].number \in Nat /\ t[i].number \in Nat
        BY <1>1
      <4> QED
        BY <2>1, <3>1, <4>1, <4>2
    <3> QED
      BY <3>2, <3>3, <3>4, <3>5
  <2> QED
    BY <2>2, <2>3, <2>4
<1> QED
  BY <1>4 DEF Lt, AreTheLast

(* What becomes of the lines of a chat: others are appended, ... *)
LEMMA OthersAppended ==
  ASSUME NEW ch, NEW n \in Nat, NEW s \in Seq(Line), NEW u \in Seq(Line),
         AreTheLast(s, ch, n), LinesOf(u, ch) = {}
  PROVE  AreTheLast(s \o u, ch, n)
<1> DEFINE t == s \o u
           f == [i \in DOMAIN t |-> i]
<1>1. /\ t \in Seq(Line) /\ DOMAIN t = 1..(Len(s) + Len(u))
      /\ \A i \in 1..(Len(s) + Len(u)) : t[i] = IF i <= Len(s) THEN s[i] ELSE u[i - Len(s)]
  BY ConcatProperties, LenProperties
<1>2. /\ DOMAIN s = 1..Len(s) /\ Len(s) \in Nat /\ DOMAIN u = 1..Len(u) /\ Len(u) \in Nat
  BY LenProperties
<1>3. \A i \in DOMAIN t : f[i] = i
  OBVIOUS
<1> HIDE DEF t, f
<1>4. ASSUME NEW i \in LinesOf(t, ch)
      PROVE  i \in LinesOf(s, ch) /\ s[i] = t[i] /\ f[i] = i /\ i \in Nat
  <2>1. i \in DOMAIN t /\ t[i].chat = ch /\ t[i].number # 0
    BY DEF LinesOf
  <2>2. CASE i <= Len(s)
    BY <1>1, <1>2, <1>3, <2>1, <2>2 DEF LinesOf
  <2>3. CASE ~(i <= Len(s))
    <3>1. i - Len(s) \in DOMAIN u /\ t[i] = u[i - Len(s)]
      BY <1>1, <1>2, <2>1, <2>3
    <3>2. i - Len(s) \in LinesOf(u, ch)
      BY <2>1, <3>1 DEF LinesOf
    <3> QED
      BY <3>2
  <2> QED
    BY <2>2, <2>3
<1>5. ASSUME NEW j \in LinesOf(s, ch)
      PROVE  j \in LinesOf(t, ch)
  <2>1. j \in DOMAIN s /\ j \in DOMAIN t /\ t[j] = s[j]
    BY <1>1, <1>2 DEF LinesOf
  <2> QED
    BY <2>1 DEF LinesOf
<1>6. \A i \in LinesOf(t, ch) : f[i] \in LinesOf(s, ch) /\ s[f[i]].number = t[i].number
  BY <1>4
<1>7. \A i, j \in LinesOf(t, ch) : i < j => f[i] < f[j]
  BY <1>4
<1>8. \A i \in LinesOf(t, ch), j \in LinesOf(s, ch) :
        f[i] < j => \E k \in LinesOf(t, ch) : f[k] = j
  BY <1>4, <1>5
<1>9. AreTheLast(t, ch, n)
  <2>1. t \in Seq(Line)
    BY <1>1, Zenon
  <2> QED
    BY <1>6, <1>7, <1>8, <2>1, EndsAlike, Zenon
<1> QED
  BY <1>9 DEF t

(* ... those of the chat that are said next, ... *)
LEMMA NextAppended ==
  ASSUME NEW ch, NEW n \in Nat, NEW s \in Seq(Line), NEW u \in Seq(Line),
         AreTheLast(s, ch, n),
         \A i \in 1..Len(u) : u[i].chat = ch /\ u[i].number = n + i
  PROVE  AreTheLast(s \o u, ch, n + Len(u))
<1> DEFINE t == s \o u
           c == Len(u)
           d == Len(s)
           Ls == LinesOf(s, ch)
           Lt == LinesOf(t, ch)
<1>1. /\ t \in Seq(Line) /\ DOMAIN t = 1..(d + c)
      /\ \A i \in 1..(d + c) : t[i] = IF i <= d THEN s[i] ELSE u[i - d]
  BY ConcatProperties, LenProperties
<1>2. DOMAIN s = 1..d /\ d \in Nat /\ c \in Nat
  BY LenProperties
<1>3. \A i \in 1..c : u[i].chat = ch /\ u[i].number = n + i
  OBVIOUS
<1>4. \A i \in Ls : i \in 1..d /\ s[i].chat = ch /\ s[i].number # 0 /\ s[i].number \in Nat
  BY LinesAreNumbered
<1>5. \A i \in Ls : /\ s[i].number <= n
                    /\ \A j \in Ls : i < j => s[i].number < s[j].number
                    /\ \A k \in s[i].number..n : \E j \in Ls : s[j].number = k
  BY DEF AreTheLast
<1>6. /\ \A i \in Lt : i \in DOMAIN t /\ t[i].chat = ch /\ t[i].number # 0
      /\ \A i \in DOMAIN t : t[i].chat = ch /\ t[i].number # 0 => i \in Lt
      /\ \A i \in DOMAIN s : s[i].chat = ch /\ s[i].number # 0 => i \in Ls
  BY DEF LinesOf
<1> HIDE DEF t, c, d, Ls, Lt
<1>7. ASSUME NEW i \in Ls
      PROVE  i \in Lt /\ t[i] = s[i] /\ i <= d /\ i \in Nat
  <2>1. i \in 1..d /\ i \in DOMAIN t /\ t[i] = s[i]
    BY <1>1, <1>2, <1>4
  <2> QED
    BY <1>4, <1>6, <2>1
<1>8. ASSUME NEW k \in 1..c
      PROVE  d + k \in Lt /\ t[d + k].number = n + k
  <2>1. d + k \in 1..(d + c) /\ ~(d + k <= d) /\ (d + k) - d = k
    BY <1>2
  <2>2. t[d + k] = u[k]
    BY <1>1, <2>1
  <2>3. t[d + k].chat = ch /\ t[d + k].number = n + k /\ n + k # 0
    BY <1>3, <2>2
  <2> QED
    BY <1>1, <1>6, <2>1, <2>3
<1>9. ASSUME NEW i \in Lt
      PROVE  \/ i \in Ls /\ t[i] = s[i]
             \/ \E k \in 1..c : i = d + k
  <2>1. i \in 1..(d + c) /\ t[i].chat = ch /\ t[i].number # 0
    BY <1>1, <1>6
  <2>2. CASE i <= d
    <3>1. t[i] = s[i] /\ i \in DOMAIN s
      BY <1>1, <1>2, <2>1, <2>2
    <3> QED
      BY <1>6, <2>1, <3>1
  <2>3. CASE ~(i <= d)
    <3>1. i - d \in 1..c /\ i = d + (i - d)
      BY <1>2, <2>1, <2>3
    <3> QED
      BY <3>1
  <2> QED
    BY <2>2, <2>3
<1>10. ASSUME NEW i \in Lt
       PROVE  /\ t[i].number <= n + c
              /\ \A j \in Lt : i < j => t[i].number < t[j].number
              /\ \A k \in t[i].number..(n + c) : \E j \in Lt : t[j].number = k
  <2>1. CASE i \in Ls
    <3>1. t[i] = s[i] /\ i <= d /\ s[i].number \in Nat /\ s[i].number <= n /\ i \in Nat
      BY <1>4, <1>5, <1>7, <2>1
    <3>2. t[i].number <= n + c
      BY <1>2, <3>1
    <3>3. ASSUME NEW j \in Lt, i < j
          PROVE  t[i].number < t[j].number
      <4>1. CASE j \in Ls
        BY <1>5, <1>7, <2>1, <3>1, <3>3, <4>1
      <4>2. ASSUME NEW k \in 1..c, j = d + k
            PROVE  t[i].number < t[j].number
        BY <1>8, <3>1, <4>2
      <4> QED
        BY <1>9, <4>1, <4>2
    <3>4. ASSUME NEW k \in t[i].number..(n + c)
          PROVE  \E j \in Lt : t[j].number = k
      <4>1. CASE k <= n
        <5>1. PICK j \in Ls : s[j].number = k
          BY <1>5, <2>1, <3>1, <4>1
        <5> QED
          BY <1>7, <5>1
      <4>2. CASE ~(k <= n)
        <5>1. k - n \in 1..c /\ n + (k - n) = k
          BY <1>2, <3>1, <4>2
        <5> QED
          BY <1>8, <5>1
      <4> QED
        BY <4>1, <4>2
    <3> QED
      BY <3>2, <3>3, <3>4
  <2>2. ASSUME NEW l \in 1..c, i = d + l
        PROVE  /\ t[i].number <= n + c
               /\ \A j \in Lt : i < j => t[i].number < t[j].number
               /\ \A k \in t[i].number..(n + c) : \E j \in Lt : t[j].number = k
    <3>1. t[i].number = n + l /\ i \in Nat
      BY <1>2, <1>8, <2>2
    <3>2. t[i].number <= n + c
      BY <1>2, <3>1
    <3>3. ASSUME NEW j \in Lt, i < j
          PROVE  t[i].number < t[j].number
      <4>1. CASE j \in Ls
        BY <1>2, <1>7, <2>2, <3>3, <4>1
      <4>2. ASSUME NEW k \in 1..c, j = d + k
            PROVE  t[i].number < t[j].number
        <5>1. t[j].number = n + k
          BY <1>8, <4>2
        <5> QED
          BY <1>2, <2>2, <3>1, <3>3, <4>2, <5>1
      <4> QED
        BY <1>9, <4>1, <4>2
    <3>4. ASSUME NEW k \in t[i].number..(n + c)
          PROVE  \E j \in Lt : t[j].number = k
      <4>1. k - n \in 1..c /\ n + (k - n) = k
        BY <1>2, <3>1
      <4> QED
        BY <1>8, <4>1
    <3> QED
      BY <3>2, <3>3, <3>4
  <2> QED
    BY <1>9, <2>1, <2>2
<1>11. AreTheLast(t, ch, n + c)
  BY <1>10 DEF Lt, AreTheLast
<1> QED
  BY <1>11 DEF t, c
(* ... those that are ahead are left out, ... *)
LEMMA EndOfLines ==
  ASSUME NEW ch, NEW n \in Nat, NEW s \in Seq(Line), NEW u \in Seq(Line),
         AreTheLast(s \o u, ch, n)
  PROVE  AreTheLast(u, ch, n)
<1> DEFINE t == s \o u
           f == [i \in DOMAIN u |-> i + Len(s)]
<1>1. /\ t \in Seq(Line) /\ DOMAIN t = 1..(Len(s) + Len(u))
      /\ \A i \in 1..(Len(s) + Len(u)) : t[i] = IF i <= Len(s) THEN s[i] ELSE u[i - Len(s)]
  BY ConcatProperties, LenProperties
<1>2. Len(s) \in Nat /\ DOMAIN u = 1..Len(u) /\ Len(u) \in Nat
  BY LenProperties
<1>3. \A i \in DOMAIN u : f[i] = i + Len(s)
  OBVIOUS
<1>4. AreTheLast(t, ch, n)
  OBVIOUS
<1> HIDE DEF t, f
<1>5. ASSUME NEW i \in LinesOf(u, ch)
      PROVE  i \in Nat /\ f[i] = i + Len(s) /\ f[i] \in LinesOf(t, ch) /\ t[f[i]] = u[i]
  <2>1. i \in 1..Len(u) /\ u[i].chat = ch /\ u[i].number # 0
    BY LinesAreNumbered
  <2>2. /\ i + Len(s) \in 1..(Len(s) + Len(u)) /\ ~(i + Len(s) <= Len(s))
        /\ (i + Len(s)) - Len(s) = i
    BY <1>2, <2>1
  <2>3. t[i + Len(s)] = u[i] /\ i + Len(s) \in DOMAIN t
    BY <1>1, <2>2
  <2> QED
    BY <1>2, <1>3, <2>1, <2>3 DEF LinesOf
<1>6. ASSUME NEW j \in LinesOf(t, ch), Len(s) < j
      PROVE  j - Len(s) \in LinesOf(u, ch) /\ (j - Len(s)) + Len(s) = j
  <2>1. j \in 1..(Len(s) + Len(u)) /\ t[j].chat = ch /\ t[j].number # 0
    BY <1>1 DEF LinesOf
  <2>2. /\ j - Len(s) \in 1..Len(u) /\ ~(j <= Len(s)) /\ (j - Len(s)) + Len(s) = j
    BY <1>2, <1>6, <2>1
  <2>3. t[j] = u[j - Len(s)]
    BY <1>1, <2>1, <2>2
  <2> QED
    BY <1>2, <2>1, <2>2, <2>3 DEF LinesOf
<1>7. \A i \in LinesOf(u, ch) : f[i] \in LinesOf(t, ch) /\ t[f[i]].number = u[i].number
  BY <1>5
<1>8. \A i, j \in LinesOf(u, ch) : i < j => f[i] < f[j]
  BY <1>2, <1>5
<1>9. ASSUME NEW i \in LinesOf(u, ch), NEW j \in LinesOf(t, ch), f[i] < j
      PROVE  \E k \in LinesOf(u, ch) : f[k] = j
  <2>1. j \in Nat /\ Len(s) < j
    BY <1>1, <1>2, <1>5, <1>9, LinesAreNumbered
  <2> QED
    BY <1>5, <1>6, <2>1
<1>10. \A i \in LinesOf(u, ch), j \in LinesOf(t, ch) :
         f[i] < j => \E k \in LinesOf(u, ch) : f[k] = j
  BY <1>9
<1> QED
  BY <1>1, <1>4, <1>7, <1>8, <1>10, EndsAlike, Zenon

(* ... or the first of the second part is left out, which is none of them. *)
LEMMA OtherLeftOut ==
  ASSUME NEW ch, NEW n \in Nat, NEW s \in Seq(Line), NEW u \in Seq(Line), u # <<>>,
         AreTheLast(s \o u, ch, n), ~(Head(u).chat = ch /\ Head(u).number # 0)
  PROVE  AreTheLast(s \o Tail(u), ch, n)
<1> DEFINE t == s \o u
           r == s \o Tail(u)
           d == Len(s)
           e == Len(u)
           f == [i \in DOMAIN r |-> IF i <= d THEN i ELSE i + 1]
<1>1. /\ t \in Seq(Line) /\ DOMAIN t = 1..(d + e)
      /\ \A i \in 1..(d + e) : t[i] = IF i <= d THEN s[i] ELSE u[i - d]
  BY ConcatProperties, LenProperties
<1>2. /\ Tail(u) \in Seq(Line) /\ Head(u) = u[1] /\ e \in Nat \ {0} /\ d \in Nat
      /\ Len(Tail(u)) = e - 1 /\ \A k \in 1..(e - 1) : Tail(u)[k] = u[k + 1]
  BY HeadTailProperties, LenProperties, EmptySeq
<1>3. /\ r \in Seq(Line) /\ DOMAIN r = 1..(d + (e - 1))
      /\ \A i \in 1..(d + (e - 1)) : r[i] = IF i <= d THEN s[i] ELSE Tail(u)[i - d]
  <2>1. /\ r \in Seq(Line) /\ Len(r) = d + Len(Tail(u))
        /\ \A i \in 1..(d + Len(Tail(u))) : r[i] = IF i <= d THEN s[i] ELSE Tail(u)[i - d]
    BY <1>2, ConcatProperties
  <2>2. DOMAIN r = 1..Len(r)
    BY <2>1, LenProperties
  <2> QED
    BY <1>2, <2>1, <2>2
<1>4. \A i \in DOMAIN r : f[i] = IF i <= d THEN i ELSE i + 1
  OBVIOUS
<1>5. AreTheLast(t, ch, n)
  OBVIOUS
<1> HIDE DEF t, r, d, e, f
<1>6. \A i \in DOMAIN r : f[i] \in DOMAIN t /\ t[f[i]] = r[i] /\ f[i] \in Nat /\ i \in Nat
  <2> SUFFICES ASSUME NEW i \in DOMAIN r
               PROVE  f[i] \in DOMAIN t /\ t[f[i]] = r[i] /\ f[i] \in Nat /\ i \in Nat
    OBVIOUS
  <2>1. i \in Nat /\ i \in 1..(d + (e - 1))
    BY <1>2, <1>3
  <2>2. CASE i <= d
    <3>1. f[i] = i /\ r[i] = s[i]
      BY <1>3, <1>4, <2>1, <2>2
    <3>2. i \in 1..(d + e)
      BY <1>2, <2>1
    <3>3. t[i] = s[i]
      BY <1>1, <2>2, <3>2
    <3> QED
      BY <1>1, <2>1, <3>1, <3>2, <3>3
  <2>3. CASE ~(i <= d)
    <3>1. f[i] = i + 1 /\ r[i] = Tail(u)[i - d]
      BY <1>3, <1>4, <2>1, <2>3
    <3>2. i - d \in 1..(e - 1) /\ i + 1 \in 1..(d + e) /\ (i - d) + 1 = (i + 1) - d
          /\ ~(i + 1 <= d)
      BY <1>2, <2>1, <2>3
    <3>3. r[i] = u[(i + 1) - d] /\ t[i + 1] = u[(i + 1) - d]
      BY <1>1, <1>2, <3>1, <3>2
    <3>4. i + 1 \in DOMAIN t /\ i + 1 \in Nat
      BY <1>1, <2>1, <3>2
    <3> QED
      BY <2>1, <3>1, <3>3, <3>4, Zenon
  <2> QED
    BY <2>2, <2>3
<1>7. \A i \in LinesOf(r, ch) : f[i] \in LinesOf(t, ch) /\ t[f[i]].number = r[i].number
  BY <1>6 DEF LinesOf
<1>8. \A i, j \in LinesOf(r, ch) : i < j => f[i] < f[j]
  <2>1. \A i, j \in DOMAIN r : i < j => f[i] < f[j]
    BY <1>2, <1>3, <1>4, <1>6
  <2> QED
    BY <2>1 DEF LinesOf
<1>9. ASSUME NEW j \in LinesOf(t, ch)
      PROVE  \E k \in LinesOf(r, ch) : f[k] = j
  <2>1. j \in 1..(d + e) /\ j \in Nat /\ t[j].chat = ch /\ t[j].number # 0
    BY <1>1 DEF LinesOf
  <2>2. j # d + 1
    <3>1. ASSUME j = d + 1
          PROVE  FALSE
      <4>1. ~(j <= d) /\ j - d = 1
        BY <1>2, <3>1
      <4>2. t[j] = u[1]
        BY <1>1, <2>1, <4>1
      <4> QED
        BY <1>2, <2>1, <4>2
    <3> QED
      BY <3>1
  <2>3. PICK k \in DOMAIN r : f[k] = j
    <3>1. CASE j <= d
      <4>1. j \in 1..(d + (e - 1))
        <5>1. d + (e - 1) \in Nat /\ d <= d + (e - 1)
          BY <1>2
        <5> QED
          BY <1>2, <2>1, <3>1, <5>1
      <4>2. j \in DOMAIN r
        BY <1>3, <4>1, Zenon
      <4>3. f[j] = j
        BY <1>4, <3>1, <4>2
      <4> QED
        BY <4>2, <4>3
    <3>2. CASE ~(j <= d)
      <4>1. j - 1 \in 1..(d + (e - 1)) /\ ~(j - 1 <= d) /\ (j - 1) + 1 = j
        BY <1>2, <2>1, <2>2, <3>2
      <4>2. j - 1 \in DOMAIN r /\ f[j - 1] = j
        BY <1>3, <1>4, <4>1
      <4> QED
        BY <4>2
    <3> QED
      BY <3>1, <3>2
  <2>4. r[k] = t[j]
    BY <1>6, <2>3
  <2> QED
    BY <2>1, <2>3, <2>4 DEF LinesOf
<1>10. \A i \in LinesOf(r, ch), j \in LinesOf(t, ch) :
         f[i] < j => \E k \in LinesOf(r, ch) : f[k] = j
  BY <1>9
<1>11. AreTheLast(r, ch, n)
  <2>1. r \in Seq(Line) /\ t \in Seq(Line)
    BY <1>1, <1>3, Zenon
  <2> QED
    BY <1>5, <1>7, <1>8, <1>10, <2>1, EndsAlike, Zenon
<1> QED
  BY <1>11 DEF r
(* What the core sends comes at the end, after the lines on the way. *)
LEMMA AddedAtTheEnd ==
  ASSUME NEW c, NEW n \in Nat, NEW k \in Nat,
         NEW s \in Seq(Line), NEW w \in Seq(Line), NEW u \in Seq(Line),
         AreTheLast(s \o w, c, n),
         \/ LinesOf(u, c) = {} /\ k = n
         \/ (\A i \in 1..Len(u) : u[i].chat = c /\ u[i].number = n + i) /\ k = n + Len(u)
  PROVE  AreTheLast(s \o (w \o u), c, k)
<1>1. s \o w \in Seq(Line) /\ (s \o w) \o u = s \o (w \o u)
  BY ConcatProperties, ConcatAssociative
<1>2. AreTheLast((s \o w) \o u, c, k)
  <2> DEFINE a == s \o w
  <2>1. a \in Seq(Line) /\ AreTheLast(a, c, n)
    BY <1>1
  <2> HIDE DEF a
  <2>2. CASE LinesOf(u, c) = {} /\ k = n
    <3>1. AreTheLast(a \o u, c, n)
      BY <2>1, <2>2, OthersAppended
    <3> QED
      BY <2>2, <3>1 DEF a
  <2>3. CASE (\A i \in 1..Len(u) : u[i].chat = c /\ u[i].number = n + i) /\ k = n + Len(u)
    <3>1. AreTheLast(a \o u, c, n + Len(u))
      BY <2>1, <2>3, NextAppended
    <3> QED
      BY <2>3, <3>1 DEF a
  <2> QED
    BY <2>2, <2>3
<1> QED
  BY <1>1, <1>2

LEMMA NothingIsLast ==
  ASSUME NEW c, NEW n
  PROVE  AreTheLast(<<>> \o <<>>, c, n)
<1>1. <<>> \o <<>> = <<>>
  BY EmptySeq, ConcatEmptySeq
<1>2. DOMAIN <<>> = {}
  OBVIOUS
<1> QED
  BY <1>1, <1>2 DEF AreTheLast, LinesOf

(* Without a connection there are no lines and no chats. *)
NothingWithout == ~connected => wire = <<>> /\ monitor = <<>> /\ DOMAIN rows = {}

LinesInv == NoLineIsMissing /\ NothingWithout

(* The core's lines go to a client that is there, and to nobody else. *)
LEMMA BroadcastKeepsLines ==
  ASSUME TypeOK, LinesInv, NEW u \in Seq(Line), Broadcast(u),
         UNCHANGED <<connected, monitor, rows>>,
         \A c \in Chats :
           /\ said'[c] \in Nat
           /\ \/ LinesOf(u, c) = {} /\ said'[c] = said[c]
              \/ /\ \A i \in 1..Len(u) : u[i].chat = c /\ u[i].number = said[c] + i
                 /\ said'[c] = said[c] + Len(u)
  PROVE  LinesInv'
<1>1. CASE ~connected
  <2>1. wire' = <<>> /\ monitor' = <<>> /\ DOMAIN rows' = {} /\ ~connected'
    BY <1>1 DEF Broadcast, LinesInv, NothingWithout
  <2>2. \A c \in Chats : AreTheLast(monitor' \o wire', c, said'[c])
    BY <2>1, NothingIsLast
  <2> QED
    BY <2>1, <2>2 DEF LinesInv, NothingWithout, NoLineIsMissing
<1>2. CASE connected
  <2>1. wire' = wire \o u /\ monitor' = monitor /\ rows' = rows /\ connected'
    BY <1>2 DEF Broadcast
  <2>2. wire \in Seq(Line) /\ monitor \in Seq(Line)
    BY DEF TypeOK
  <2>3. ASSUME NEW c \in Chats
        PROVE  /\ AreTheLast(monitor' \o wire', c, said'[c])
               /\ c \in DOMAIN rows' => AreTheLast(rows'[c] \o wire', c, said'[c])
    <3>1. said[c] \in Nat /\ said'[c] \in Nat
      BY ChatAssumption DEF TypeOK
    <3>2. /\ AreTheLast(monitor \o wire, c, said[c])
          /\ c \in DOMAIN rows => AreTheLast(rows[c] \o wire, c, said[c])
      BY DEF LinesInv, NoLineIsMissing
    <3>3. \/ LinesOf(u, c) = {} /\ said'[c] = said[c]
          \/ /\ \A i \in 1..Len(u) : u[i].chat = c /\ u[i].number = said[c] + i
             /\ said'[c] = said[c] + Len(u)
      OBVIOUS
    <3> DEFINE n == said[c]
               k == said'[c]
    <3>4. /\ n \in Nat /\ k \in Nat
          /\ AreTheLast(monitor \o wire, c, n)
          /\ c \in DOMAIN rows => AreTheLast(rows[c] \o wire, c, n)
          /\ \/ LinesOf(u, c) = {} /\ k = n
             \/ (\A i \in 1..Len(u) : u[i].chat = c /\ u[i].number = n + i) /\ k = n + Len(u)
      BY <3>1, <3>2, <3>3
    <3> HIDE DEF n, k
    <3>5. AreTheLast(monitor \o (wire \o u), c, k)
      BY <2>2, <3>4, AddedAtTheEnd
    <3>6. ASSUME c \in DOMAIN rows
          PROVE  AreTheLast(rows[c] \o (wire \o u), c, k)
      <4>1. rows[c] \in Seq(Line)
        BY <3>6 DEF TypeOK
      <4> QED
        BY <2>2, <3>4, <3>6, <4>1, AddedAtTheEnd
    <3> QED
      BY <2>1, <3>5, <3>6 DEF k
  <2> QED
    BY <2>1, <2>3 DEF LinesInv, NothingWithout, NoLineIsMissing
<1> QED
  BY <1>1, <1>2

LEMMA SaidKeepsLines ==
  ASSUME TypeOK, LinesInv, MessageReceived
  PROVE  LinesInv'
<1>1. PICK ch \in Chats, n \in Nat, u \in Seq(Line) :
        /\ said' = [said EXCEPT ![ch] = said[ch] + n]
        /\ Broadcast(u)
        /\ Len(u) = n
        /\ \A i \in 1..n : u[i].chat = ch /\ u[i].number = said[ch] + i
  BY SaidIsSent
<1>2. said \in [Chats -> 0..MaxSaid] /\ \A c \in Chats : said[c] \in Nat
  BY ChatAssumption DEF TypeOK
<1>3. UNCHANGED <<connected, monitor, rows>>
  BY DEF MessageReceived
<1>4. ASSUME NEW c \in Chats
      PROVE  /\ said'[c] \in Nat
             /\ \/ LinesOf(u, c) = {} /\ said'[c] = said[c]
                \/ /\ \A i \in 1..Len(u) : u[i].chat = c /\ u[i].number = said[c] + i
                   /\ said'[c] = said[c] + Len(u)
  <2>1. CASE c = ch
    <3>1. said'[c] = said[ch] + n
      BY <1>1, <1>2, <2>1
    <3> QED
      BY <1>1, <1>2, <2>1, <3>1
  <2>2. CASE c # ch
    <3>1. said'[c] = said[c]
      BY <1>1, <1>2, <2>2
    <3>2. LinesOf(u, c) = {}
      BY <1>1, <2>2, LinesAreNumbered
    <3> QED
      BY <1>2, <3>1, <3>2
  <2> QED
    BY <2>1, <2>2
<1> QED
  BY <1>1, <1>3, <1>4, BroadcastKeepsLines

LEMMA NoticeKeepsLines ==
  ASSUME TypeOK, LinesInv, ErrorNotice
  PROVE  LinesInv'
<1> DEFINE Notice(ch) == [chat |-> ch, number |-> 0, type |-> "notice"]
<1>1. PICK ch \in Chats : Broadcast(<<Notice(ch)>>)
  BY DEF ErrorNotice
<1>2. Notice(ch) \in Line /\ Notice(ch).number = 0
  BY ChatAssumption DEF Line
<1> HIDE DEF Notice
<1> DEFINE u == <<Notice(ch)>>
<1>3. u \in Seq(Line) /\ Len(u) = 1 /\ u[1].number = 0
  BY <1>2
<1>4. UNCHANGED <<said, connected, monitor, rows>>
  BY DEF ErrorNotice
<1>5. Broadcast(u)
  BY <1>1
<1> HIDE DEF u
<1>6. \A c \in Chats : said'[c] \in Nat /\ LinesOf(u, c) = {} /\ said'[c] = said[c]
  <2>1. \A c \in Chats : LinesOf(u, c) = {}
    BY <1>3, LinesAreNumbered
  <2> QED
    BY <1>4, <2>1, ChatAssumption DEF TypeOK
<1> QED
  BY <1>3, <1>4, <1>5, <1>6, BroadcastKeepsLines

(* A chat that is opened has what is on the way, as the monitor has. *)
LEMMA ClickKeepsLines ==
  ASSUME TypeOK, LinesInv, NEW ch \in Chats, ChannelClicked(ch)
  PROVE  LinesInv'
<1>1. UNCHANGED <<said, connected, wire, monitor>> /\ connected
  BY DEF ChannelClicked, coreVars
<1>2. wire \in Seq(Line) /\ monitor \in Seq(Line) /\ \A c \in Chats : said[c] \in Nat
  BY ChatAssumption DEF TypeOK
<1>3. ASSUME NEW c \in DOMAIN rows'
      PROVE  \/ c \in DOMAIN rows /\ rows'[c] = rows[c]
             \/ rows'[c] = <<>>
  BY DEF ChannelClicked
<1>4. ASSUME NEW c \in Chats
      PROVE  AreTheLast(<<>> \o wire, c, said[c])
  <2>1. AreTheLast(monitor \o wire, c, said[c])
    BY DEF LinesInv, NoLineIsMissing
  <2>2. AreTheLast(wire, c, said[c])
    BY <1>2, <2>1, EndOfLines
  <2>3. <<>> \o wire = wire
    BY <1>2, ConcatEmptySeq
  <2> QED
    BY <2>2, <2>3
<1>5. NoLineIsMissing'
  BY <1>1, <1>3, <1>4 DEF LinesInv, NoLineIsMissing
<1> QED
  BY <1>1, <1>5 DEF LinesInv, NothingWithout

(* A line that is delivered leaves the way for the rows, or is none. *)
LEMMA DeliveryKeepsLines ==
  ASSUME TypeOK, LinesInv, SocketDataReady
  PROVE  LinesInv'
<1> DEFINE m == Head(wire)
<1>1. /\ wire \in Seq(Line) /\ wire # <<>> /\ monitor \in Seq(Line) /\ m \in Line
      /\ \A c \in DOMAIN rows : rows[c] \in Seq(Line)
      /\ \A c \in Chats : said[c] \in Nat
  BY ChatAssumption, HeadTailProperties DEF SocketDataReady, TypeOK
<1>2. wire' = Tail(wire) /\ UNCHANGED <<said, connected>>
  BY DEF SocketDataReady, coreVars
<1>3. \A c \in Chats : /\ AreTheLast(monitor \o wire, c, said[c])
                       /\ c \in DOMAIN rows => AreTheLast(rows[c] \o wire, c, said[c])
  BY DEF LinesInv, NoLineIsMissing
<1>4. connected /\ connected'
  BY <1>1, <1>2 DEF LinesInv, NothingWithout
<1>5. \/ m.number = 0 /\ UNCHANGED <<monitor, rows>>
      \/ Consume(m)
  BY DEF SocketDataReady
<1> HIDE DEF m
<1>6. ASSUME NEW c \in Chats, NEW s \in Seq(Line), AreTheLast(s \o wire, c, said[c]),
             ~(m.chat = c /\ m.number # 0)
      PROVE  AreTheLast(s \o wire', c, said'[c])
  BY <1>1, <1>2, <1>6, OtherLeftOut DEF m
<1>7. ASSUME NEW c \in Chats, NEW s \in Seq(Line), AreTheLast(s \o wire, c, said[c])
      PROVE  AreTheLast(Append(s, m) \o wire', c, said'[c])
  BY <1>1, <1>2, <1>7, HeadToLast DEF m
<1>8. CASE m.number = 0 /\ UNCHANGED <<monitor, rows>>
  <2>1. NoLineIsMissing'
    BY <1>1, <1>3, <1>6, <1>8 DEF NoLineIsMissing
  <2> QED
    BY <1>4, <2>1 DEF LinesInv, NothingWithout
<1>9. CASE Consume(m)
  <2>1. monitor' = Append(monitor, m)
    BY <1>9 DEF Consume
  <2>2. ASSUME NEW c \in Chats
        PROVE  AreTheLast(monitor' \o wire', c, said'[c])
    BY <1>1, <1>3, <1>7, <2>1
  <2>3. ASSUME NEW c \in Chats, c \in DOMAIN rows'
        PROVE  AreTheLast(rows'[c] \o wire', c, said'[c])
    <3>1. \/ c \in DOMAIN rows /\ rows'[c] = rows[c] /\ m.chat # c
          \/ c \in DOMAIN rows /\ rows'[c] = Append(rows[c], m)
      BY <1>9, <2>3 DEF Consume
    <3>2. rows[c] \in Seq(Line) /\ AreTheLast(rows[c] \o wire, c, said[c])
      BY <1>1, <1>3, <3>1
    <3> QED
      BY <1>6, <1>7, <3>1, <3>2
  <2>4. NoLineIsMissing'
    BY <2>2, <2>3 DEF NoLineIsMissing
  <2> QED
    BY <1>4, <2>4 DEF LinesInv, NothingWithout
<1> QED
  BY <1>5, <1>8, <1>9

LEMMA NextKeepsLines ==
  ASSUME TypeOK, LinesInv, [Next]_vars
  PROVE  LinesInv'
<1>1. CASE UNCHANGED <<said, wire, monitor, rows>> /\ (connected' = connected \/ connected')
  BY <1>1 DEF LinesInv, NoLineIsMissing, NothingWithout
<1>2. CASE Crash \/ Connect \/ DoItemsLayout \/ ResizeEvent \/ UserScrolls \/ UNCHANGED vars
  BY <1>1, <1>2 DEF Crash, Connect, DoItemsLayout, ResizeEvent, UserScrolls, vars,
                    coreVars, modelVars
<1>3. CASE Lost
  <2>1. wire' = <<>> /\ monitor' = <<>> /\ DOMAIN rows' = {}
    BY <1>3 DEF Lost, Nobody
  <2>2. \A c \in Chats : AreTheLast(monitor' \o wire', c, said'[c])
    BY <2>1, NothingIsLast
  <2> QED
    BY <2>1, <2>2 DEF LinesInv, NothingWithout, NoLineIsMissing
<1> QED
  BY <1>2, <1>3, SaidKeepsLines, NoticeKeepsLines, ClickKeepsLines, DeliveryKeepsLines
     DEF Next

(* Neither a chat nor the monitor misses a line, shows one twice or out of *)
(* turn: what it has and what is on the way are the last lines that have   *)
(* been said (messageReceived, socketDataReady, ChannelModel::consume).    *)
THEOREM NothingIsMissing == Spec => []NoLineIsMissing
<1>1. Init => LinesInv
  <2> SUFFICES ASSUME Init PROVE LinesInv
    OBVIOUS
  <2>1. wire = <<>> /\ monitor = <<>> /\ DOMAIN rows = {} /\ ~connected
    BY DEF Init, Nobody
  <2>2. \A c \in Chats : AreTheLast(monitor \o wire, c, said[c])
    BY <2>1, NothingIsLast
  <2> QED
    BY <2>1, <2>2 DEF LinesInv, NothingWithout, NoLineIsMissing
<1>2. TypeOK /\ LinesInv /\ [Next]_vars => LinesInv'
  BY NextKeepsLines
<1>3. LinesInv => NoLineIsMissing
  BY DEF LinesInv
<1> QED
  BY <1>1, <1>2, <1>3, TypeCorrect, PTL DEF Spec

-----------------------------------------------------------------------------
(* The page of the servers.                                                *)

(* The row of a server that is shown. *)
LEMMA RowOfShown ==
  ASSUME PageTypeOK, NEW i \in Shown
  PROVE  Row(i) \in DOMAIN indices /\ indices[Row(i)] = i
BY DEF Row, Shown, ToSet

LEMMA Renamed ==
  ASSUME NEW r \in Server, NEW n \in Names
  PROVE  [r EXCEPT !.name = n] \in Server
BY DEF Server

LEMMA Toggled ==
  ASSUME NEW r \in Server
  PROVE  [r EXCEPT !.connected = ~@] \in Server
BY DEF Server

-----------------------------------------------------------------------------
(* Type correctness. *)

(* What the core does to its list. *)
LEMMA CoreTyped ==
  ASSUME PageTypeOK,
         \/ \E name \in Names : AddServer(name)
         \/ \E i \in DOMAIN servers : RemoveServer(i)
         \/ \E i \in DOMAIN servers, name \in Names : SetName(i, name)
         \/ ConnectedChanges
         \/ AnswerGet
  PROVE  /\ used' \subseteq Ids /\ DOMAIN servers' \subseteq used'
         /\ servers' \in [DOMAIN servers' -> Server]
         /\ in' \in Seq(Announcement)
<1>0. /\ used \subseteq Ids /\ DOMAIN servers \subseteq used
      /\ servers \in [DOMAIN servers -> Server] /\ in \in Seq(Announcement)
  BY DEF PageTypeOK
<1>1. ASSUME NEW name \in Names, AddServer(name)
      PROVE  /\ used' \subseteq Ids /\ DOMAIN servers' \subseteq used'
             /\ servers' \in [DOMAIN servers' -> Server]
             /\ in' \in Seq(Announcement)
  <2> DEFINE new == [name |-> name, connected |-> FALSE]
  <2>1. PICK i \in Ids \ used :
          /\ servers' = [j \in DOMAIN servers \cup {i} |-> IF j = i THEN new ELSE servers[j]]
          /\ used' = used \cup {i}
          /\ in' = Append(in, [cmd |-> "added", id |-> i, row |-> new])
    BY <1>1 DEF AddServer, Tell
  <2>2. new \in Server
    BY DEF Server
  <2> HIDE DEF new
  <2>3. [cmd |-> "added", id |-> i, row |-> new] \in Announcement
    BY <2>2 DEF Announcement
  <2>4. in' \in Seq(Announcement)
    BY <1>0, <2>1, <2>3, AppendProperties
  <2> QED
    BY <1>0, <2>1, <2>2, <2>4
<1>2. ASSUME NEW i \in DOMAIN servers, RemoveServer(i)
      PROVE  /\ used' \subseteq Ids /\ DOMAIN servers' \subseteq used'
             /\ servers' \in [DOMAIN servers' -> Server]
             /\ in' \in Seq(Announcement)
  <2>1. [cmd |-> "removed", id |-> i, row |-> servers[i]] \in Announcement
    BY <1>0 DEF Announcement
  <2>2. in' \in Seq(Announcement)
    BY <1>0, <1>2, <2>1, AppendProperties DEF RemoveServer, Tell
  <2> QED
    BY <1>0, <1>2, <2>2 DEF RemoveServer
<1>3. ASSUME NEW i \in DOMAIN servers, NEW name \in Names, SetName(i, name)
      PROVE  /\ used' \subseteq Ids /\ DOMAIN servers' \subseteq used'
             /\ servers' \in [DOMAIN servers' -> Server]
             /\ in' \in Seq(Announcement)
  <2>1. [servers[i] EXCEPT !.name = name] \in Server
    BY <1>0, Renamed
  <2> QED
    BY <1>0, <1>3, <2>1 DEF SetName
<1>4. CASE ConnectedChanges
  <2>1. PICK i \in DOMAIN servers : /\ servers' = [servers EXCEPT ![i].connected = ~@]
                                    /\ UNCHANGED <<used, in>>
    BY <1>4 DEF ConnectedChanges
  <2>2. [servers[i] EXCEPT !.connected = ~@] \in Server
    BY <1>0, Toggled
  <2> QED
    BY <1>0, <2>1, <2>2
<1>5. CASE AnswerGet
  <2>1. PICK i \in DOMAIN servers :
          in' = Append(in, [cmd |-> "item", id |-> i, row |-> servers[i]])
    BY <1>5 DEF AnswerGet, Tell
  <2>2. [cmd |-> "item", id |-> i, row |-> servers[i]] \in Announcement
    BY <1>0 DEF Announcement
  <2>3. in' \in Seq(Announcement)
    BY <1>0, <2>1, <2>2, AppendProperties
  <2> QED
    BY <1>0, <1>5, <2>3 DEF AnswerGet
<1> QED
  BY <1>1, <1>2, <1>3, <1>4, <1>5

(* What a client sees of a list that has no row any more. *)
PageOK ==
  /\ form' \in Ids \cup {"none"}
  /\ text' \in Names \cup {NoName} /\ typed' \in BOOLEAN /\ boxOn' \in BOOLEAN
  /\ buttons' \in SUBSET {"connect", "disconnect"}

LEMMA SamePage ==
  ASSUME PageTypeOK, UNCHANGED pageVars
  PROVE  PageOK
BY DEF PageTypeOK, PageOK, pageVars, formVars

LEMMA ButtonsTyped ==
  ASSUME NEW r, NEW i, UpdateConnectButtons(r, i)
  PROVE  /\ boxOn' \in BOOLEAN /\ (boxOn' <=> i # "none")
         /\ buttons' = IF IsConnected(r, i) THEN {"disconnect"} ELSE {"connect"}
         /\ buttons' \in SUBSET {"connect", "disconnect"}
<1>1. boxOn' = (i # "none") /\ buttons' = IF IsConnected(r, i) THEN {"disconnect"} ELSE {"connect"}
  BY DEF UpdateConnectButtons
<1>2. boxOn' \in BOOLEAN /\ (boxOn' <=> i # "none")
  BY <1>1, Zenon
<1> QED
  BY <1>1, <1>2

LEMMA ShownHaveNames ==
  ASSUME PageTypeOK, NEW i \in Shown
  PROVE  /\ i \in Ids /\ i # "none" /\ i \in DOMAIN mirror
         /\ mirror[i] \in Server /\ mirror[i].name \in Names
<1>1. i \in DOMAIN mirror /\ mirror[i] \in Server
  BY DEF PageTypeOK
<1>2. i \in Ids
  BY DEF PageTypeOK, Shown, ToSet
<1> QED
  BY <1>1, <1>2, IdsAssumption DEF Server

LEMMA CurrentChangedOK ==
  ASSUME PageTypeOK, NEW i \in Shown \cup {"none"}, CurrentChanged(i)
  PROVE  PageOK /\ current' = i
<1>1. /\ current' = i
      /\ boxOn' \in BOOLEAN
      /\ buttons' \in SUBSET {"connect", "disconnect"}
  BY ButtonsTyped DEF CurrentChanged
<1>2. CASE i = "none"
  BY <1>1, <1>2 DEF CurrentChanged, PageTypeOK, PageOK, formVars
<1>3. CASE i # "none"
  <2>1. form' = i /\ text' = mirror[i].name /\ typed' = FALSE
    BY <1>3 DEF CurrentChanged, Populate
  <2>2. i \in Ids /\ mirror[i].name \in Names
    BY <1>3, ShownHaveNames
  <2> QED
    BY <1>1, <2>1, <2>2 DEF PageOK
<1> QED
  BY <1>2, <1>3

(* When a row goes, the view is somewhere else, or nowhere. *)
LEMMA RowGoesSomewhere ==
  ASSUME PageTypeOK, NEW n \in DOMAIN indices, RowGoes(n)
  PROVE  \/ current # indices[n] /\ UNCHANGED pageVars
         \/ \E i \in (Shown \ {indices[n]}) \cup {"none"} : CurrentChanged(i)
<1>1. CASE \E k \in {n - 1, n + 1} \cap DOMAIN indices : CurrentChanged(indices[k])
  <2>1. PICK k \in {n - 1, n + 1} \cap DOMAIN indices : CurrentChanged(indices[k])
    BY <1>1
  <2>2. n \in Int /\ k # n
    BY LenProperties DEF PageTypeOK
  <2>3. indices[k] \in Shown /\ indices[k] # indices[n]
    BY <2>2 DEF PageTypeOK, IsInjective, Shown, ToSet
  <2> QED
    BY <2>1, <2>3
<1>2. CASE CurrentChanged("none")
  BY <1>2
<1> QED
  BY <1>1, <1>2 DEF RowGoes

(* The page after a change of the current index, and after none. *)
LEMMA ChangedShows ==
  ASSUME PageTypeOK, FormHasName, NEW i \in Shown \cup {"none"}, CurrentChanged(i),
         i # "none" => i \in DOMAIN mirror' /\ mirror'[i] = mirror[i]
  PROVE  PageOK /\ current' = i /\ FormHasName' /\ PageShowsCurrent'
<1>1. PageOK /\ current' = i
  BY CurrentChangedOK
<1>2. /\ boxOn' <=> i # "none"
      /\ buttons' = IF IsConnected(mirror, i) THEN {"disconnect"} ELSE {"connect"}
  BY ButtonsTyped DEF CurrentChanged
<1>3. CASE i = "none"
  BY <1>1, <1>2, <1>3 DEF CurrentChanged, FormHasName, PageShowsCurrent, formVars
<1>4. CASE i # "none"
  <2>1. form' = i /\ text' = mirror[i].name
    BY <1>4 DEF CurrentChanged, Populate
  <2>2. i \in DOMAIN mirror /\ mirror[i].name \in Names
    BY <1>4, ShownHaveNames
  <2>3. IsConnected(mirror', i) <=> IsConnected(mirror, i)
    BY <1>4, <2>2 DEF IsConnected
  <2>4. FormHasName'
    BY <2>1, <2>2 DEF FormHasName
  <2>5. PageShowsCurrent'
    BY <1>1, <1>2, <1>4, <2>1, <2>3 DEF PageShowsCurrent
  <2> QED
    BY <1>1, <2>4, <2>5
<1> QED
  BY <1>3, <1>4

LEMMA SameShows ==
  ASSUME PageTypeOK, FormHasName, PageShowsCurrent, UNCHANGED pageVars,
         current # "none" => current \in DOMAIN mirror' /\ mirror'[current] = mirror[current]
  PROVE  PageOK /\ FormHasName' /\ PageShowsCurrent'
<1>1. PageOK
  BY SamePage
<1>2. FormHasName'
  BY DEF FormHasName, pageVars, formVars
<1>3. current # "none" => (IsConnected(mirror', current) <=> IsConnected(mirror, current))
  BY DEF IsConnected, PageTypeOK
<1>4. PageShowsCurrent'
  BY <1>3 DEF PageShowsCurrent, pageVars, formVars
<1> QED
  BY <1>1, <1>2, <1>4

(* The mirror and its model after a packet. *)
ModelOK ==
  /\ mirror' \in [DOMAIN mirror' -> Server]
  /\ indices' \in Seq(Ids) /\ Shown' = DOMAIN mirror' /\ IsInjective(indices')
  /\ current' \in Shown' \cup {"none"}

LEMMA PutTyped ==
  ASSUME PageTypeOK, NEW m \in Announcement
  PROVE  /\ Put(m) \in [DOMAIN mirror \cup {m.id} -> Server]
         /\ Put(m)[m.id] = m.row
         /\ \A j \in DOMAIN mirror \ {m.id} : Put(m)[j] = mirror[j]
         /\ m.row \in Server /\ m.id \in Ids
<1>1. m.row \in Server /\ m.id \in Ids
  BY DEF Announcement
<1>2. mirror \in [DOMAIN mirror -> Server]
  BY DEF PageTypeOK
<1> QED
  BY <1>1, <1>2 DEF Put

LEMMA AddedShows ==
  ASSUME PageTypeOK, FormHasName, PageShowsCurrent, NEW m \in Announcement, ConsumeAdded(m)
  PROVE  ModelOK /\ PageOK /\ FormHasName' /\ PageShowsCurrent'
<1>1. /\ m.id \notin DOMAIN mirror
      /\ mirror' = Put(m)
      /\ indices' = Append(indices, m.id)
      /\ UNCHANGED pageVars
  BY DEF ConsumeAdded, ModelAdded
<1>2. indices \in Seq(Ids) /\ Shown = DOMAIN mirror /\ IsInjective(indices)
      /\ current \in Shown \cup {"none"}
  BY DEF PageTypeOK
<1>3. /\ Put(m) \in [DOMAIN mirror \cup {m.id} -> Server]
      /\ \A j \in DOMAIN mirror \ {m.id} : Put(m)[j] = mirror[j]
      /\ m.id \in Ids
  BY PutTyped
<1>4. /\ indices' \in Seq(Ids) /\ IsInjective(indices')
      /\ Shown' = Shown \cup {m.id}
  BY <1>1, <1>2, <1>3, AppendNew DEF Shown
<1>5. mirror' \in [DOMAIN mirror' -> Server] /\ DOMAIN mirror' = DOMAIN mirror \cup {m.id}
  BY <1>1, <1>3
<1>6. ModelOK
  BY <1>1, <1>2, <1>4, <1>5 DEF ModelOK, pageVars
<1>7. current # "none" => current \in DOMAIN mirror' /\ mirror'[current] = mirror[current]
  BY <1>1, <1>2, <1>3, <1>5
<1> QED
  BY <1>1, <1>6, <1>7, SameShows

LEMMA RemovedShows ==
  ASSUME PageTypeOK, FormHasName, PageShowsCurrent, NEW m \in Announcement, ConsumeRemoved(m)
  PROVE  ModelOK /\ PageOK /\ FormHasName' /\ PageShowsCurrent'
<1> DEFINE n == Row(m.id)
<1>1. /\ m.id \in DOMAIN mirror
      /\ RowGoes(n)
      /\ indices' = RemoveAt(indices, n)
      /\ mirror' = [j \in DOMAIN mirror \ {m.id} |-> mirror[j]]
  BY DEF ConsumeRemoved, ModelRemoved
<1>2. /\ indices \in Seq(Ids) /\ Shown = DOMAIN mirror /\ IsInjective(indices)
      /\ current \in Shown \cup {"none"} /\ mirror \in [DOMAIN mirror -> Server]
  BY DEF PageTypeOK
<1>3. n \in DOMAIN indices /\ indices[n] = m.id
  BY <1>1, <1>2, RowOfShown
<1> HIDE DEF n
<1>4. /\ indices' \in Seq(Ids) /\ IsInjective(indices')
      /\ Shown' = Shown \ {m.id}
  BY <1>1, <1>2, <1>3, RemoveOne DEF Shown
<1>5. mirror' \in [DOMAIN mirror' -> Server] /\ DOMAIN mirror' = DOMAIN mirror \ {m.id}
      /\ \A j \in DOMAIN mirror' : mirror'[j] = mirror[j]
  BY <1>1, <1>2
<1>6. \/ current # m.id /\ UNCHANGED pageVars
      \/ \E i \in (Shown \ {m.id}) \cup {"none"} : CurrentChanged(i)
  BY <1>1, <1>3, RowGoesSomewhere
<1>7. CASE current # m.id /\ UNCHANGED pageVars
  <2>1. ModelOK
    BY <1>2, <1>4, <1>5, <1>7 DEF ModelOK, pageVars
  <2>2. current # "none" => current \in DOMAIN mirror' /\ mirror'[current] = mirror[current]
    BY <1>2, <1>5, <1>7
  <2> QED
    BY <1>7, <2>1, <2>2, SameShows
<1>8. ASSUME NEW i \in (Shown \ {m.id}) \cup {"none"}, CurrentChanged(i)
      PROVE  ModelOK /\ PageOK /\ FormHasName' /\ PageShowsCurrent'
  <2>1. i # "none" => i \in DOMAIN mirror' /\ mirror'[i] = mirror[i]
    BY <1>2, <1>5
  <2>2. PageOK /\ current' = i /\ FormHasName' /\ PageShowsCurrent'
    BY <1>8, <2>1, ChangedShows
  <2>3. ModelOK
    BY <1>2, <1>4, <1>5, <2>2 DEF ModelOK
  <2> QED
    BY <2>2, <2>3
<1> QED
  BY <1>6, <1>7, <1>8

LEMMA ItemShows ==
  ASSUME PageTypeOK, FormHasName, PageShowsCurrent, NEW m \in Announcement, ConsumeItem(m)
  PROVE  ModelOK /\ PageOK /\ FormHasName' /\ PageShowsCurrent'
<1>1. /\ m.id \in DOMAIN mirror
      /\ mirror' = Put(m)
      /\ UNCHANGED <<indices, current, form>>
  BY DEF ConsumeItem, PropertyChanged
<1>2. \/ /\ mirror[m.id].connected # m.row.connected
         /\ UpdateConnectButtons(mirror', current)
      \/ /\ mirror[m.id].connected = m.row.connected
         /\ UNCHANGED <<boxOn, buttons>>
  BY DEF ConsumeItem, PropertyChanged
<1>3. \/ /\ form = m.id /\ mirror'[m.id].name # mirror[m.id].name
         /\ text' = mirror'[m.id].name /\ typed' = FALSE
      \/ /\ ~(form = m.id /\ mirror'[m.id].name # mirror[m.id].name)
         /\ UNCHANGED <<text, typed>>
  BY DEF ConsumeItem, Changed, Populate, formVars
<1>4. /\ mirror' \in [DOMAIN mirror -> Server]
      /\ mirror'[m.id] = m.row
      /\ \A j \in DOMAIN mirror \ {m.id} : mirror'[j] = mirror[j]
      /\ m.row \in Server
  BY <1>1, PutTyped
<1>5. m.row.name \in Names
  BY <1>4 DEF Server
<1>6. ModelOK
  BY <1>1, <1>4 DEF ModelOK, PageTypeOK, Shown
<1>7. boxOn' \in BOOLEAN /\ buttons' \in SUBSET {"connect", "disconnect"}
  BY <1>2, ButtonsTyped DEF PageTypeOK
<1>8. PageOK
  BY <1>1, <1>3, <1>4, <1>5, <1>7 DEF PageOK, PageTypeOK
<1>9. FormHasName'
  BY <1>1, <1>3, <1>4, <1>5 DEF FormHasName
<1>10. boxOn' <=> current # "none"
  BY <1>2, ButtonsTyped DEF PageShowsCurrent
<1>11. ASSUME current # "none"
       PROVE  /\ form = current
              /\ ~typed' => text' = mirror'[current].name
              /\ buttons' = IF IsConnected(mirror', current) THEN {"disconnect"} ELSE {"connect"}
  <2>1. /\ form = current /\ current \in DOMAIN mirror
        /\ ~typed => text = mirror[current].name
        /\ buttons = IF IsConnected(mirror, current) THEN {"disconnect"} ELSE {"connect"}
    BY <1>11 DEF PageShowsCurrent, PageTypeOK
  <2>2. ~typed' => text' = mirror'[current].name
    BY <1>3, <1>4, <2>1
  <2>3. CASE mirror[m.id].connected # m.row.connected
    BY <1>2, <2>1, <2>2, <2>3, ButtonsTyped
  <2>4. CASE mirror[m.id].connected = m.row.connected
    <3>1. mirror'[current].connected = mirror[current].connected
      BY <1>4, <2>1, <2>4
    <3>2. IsConnected(mirror', current) <=> IsConnected(mirror, current)
      BY <1>4, <2>1, <3>1 DEF IsConnected
    <3> QED
      BY <1>2, <2>1, <2>2, <2>4, <3>2
  <2> QED
    BY <2>3, <2>4
<1>12. PageShowsCurrent'
  BY <1>1, <1>10, <1>11 DEF PageShowsCurrent
<1> QED
  BY <1>6, <1>8, <1>9, <1>12

-----------------------------------------------------------------------------
(* The commands on their way, when one is taken and when one is sent. *)
LEMMA SentShrinks ==
  ASSUME PageTypeOK, CommandsAreMeant, sent # <<>>, sent' = Tail(sent)
  PROVE  /\ sent' \in Seq(Command) /\ CommandsAreMeant'
         /\ Head(sent).cmd \in {"add", "set"} => Head(sent).name \in Names
<1>1. sent \in Seq(Command) /\ sent # <<>>
  BY DEF PageTypeOK
<1>2. /\ Tail(sent) \in Seq(Command) /\ Head(sent) = sent[1]
      /\ DOMAIN sent = 1..Len(sent) /\ Len(sent) \in Nat \ {0}
      /\ DOMAIN Tail(sent) = 1..(Len(sent) - 1)
      /\ \A k \in 1..(Len(sent) - 1) : Tail(sent)[k] = sent[k + 1]
  BY <1>1, HeadTailProperties, LenProperties, EmptySeq
<1>3. ASSUME NEW k \in DOMAIN sent'
      PROVE  k + 1 \in DOMAIN sent /\ sent'[k] = sent[k + 1]
  BY <1>2
<1>4. CommandsAreMeant'
  BY <1>3 DEF CommandsAreMeant
<1>5. 1 \in DOMAIN sent
  BY <1>2
<1> QED
  BY <1>2, <1>4, <1>5 DEF CommandsAreMeant

LEMMA SentGrows ==
  ASSUME PageTypeOK, CommandsAreMeant, NEW c \in Command, sent' = Append(sent, c),
         c.cmd \in {"add", "set"} => c.name \in Names,
         c.cmd \in {"set", "remove"} => c.id \in Ids
  PROVE  sent' \in Seq(Command) /\ CommandsAreMeant'
<1>1. sent \in Seq(Command)
  BY DEF PageTypeOK
<1>2. /\ Append(sent, c) \in Seq(Command)
      /\ DOMAIN sent = 1..Len(sent) /\ Len(sent) \in Nat
      /\ DOMAIN Append(sent, c) = 1..(Len(sent) + 1)
      /\ \A k \in 1..Len(sent) : Append(sent, c)[k] = sent[k]
      /\ Append(sent, c)[Len(sent) + 1] = c
  BY <1>1, AppendProperties, LenProperties
<1>3. ASSUME NEW k \in DOMAIN sent'
      PROVE  (k \in DOMAIN sent /\ sent'[k] = sent[k]) \/ sent'[k] = c
  BY <1>2
<1>4. CommandsAreMeant'
  BY <1>3 DEF CommandsAreMeant
<1> QED
  BY <1>2, <1>4

(* What a state has to be, part by part. *)
LEMMA TypeFrom ==
  ASSUME /\ used' \subseteq Ids /\ DOMAIN servers' \subseteq used'
         /\ servers' \in [DOMAIN servers' -> Server],
         in' \in Seq(Announcement),
         ModelOK, PageOK,
         dialog' \in Ids \cup {"none", "new"},
         sent' \in Seq(Command),
         acts' \in 0..MaxActs, events' \in 0..MaxEvents
  PROVE  PageTypeOK'
BY DEF PageTypeOK, ModelOK, PageOK

LEMMA SameModel ==
  ASSUME PageTypeOK, UNCHANGED mirrorVars, current' \in Shown \cup {"none"}
  PROVE  ModelOK
BY DEF PageTypeOK, ModelOK, mirrorVars, Shown

(* A step that leaves mirror and page alone keeps what the page shows. *)
LEMMA Untouched ==
  ASSUME PageTypeOK, FormHasName, PageShowsCurrent, UNCHANGED <<mirrorVars, pageVars>>
  PROVE  ModelOK /\ PageOK /\ FormHasName' /\ PageShowsCurrent'
<1>1. UNCHANGED mirrorVars /\ UNCHANGED pageVars /\ UNCHANGED current /\ UNCHANGED mirror
  BY DEF mirrorVars, pageVars
<1>2. current \in Shown \cup {"none"} /\ Shown = DOMAIN mirror
  BY DEF PageTypeOK
<1>3. ModelOK
  BY <1>1, <1>2, SameModel
<1> QED
  BY <1>1, <1>2, <1>3, SameShows

LEMMA ToClientOK ==
  ASSUME PageTypeOK, PageInv, ToClient
  PROVE  PageTypeOK' /\ PageInv'
<1>1. /\ sent # <<>> /\ sent' = Tail(sent)
      /\ UNCHANGED events /\ UNCHANGED mirrorVars /\ UNCHANGED pageVars
      /\ UNCHANGED dialog /\ UNCHANGED acts
  BY DEF ToClient
<1>2. FormHasName /\ CommandsAreMeant /\ PageShowsCurrent
  BY DEF PageInv
<1>3. /\ sent' \in Seq(Command) /\ CommandsAreMeant'
      /\ Head(sent).cmd \in {"add", "set"} => Head(sent).name \in Names
  BY <1>1, <1>2, SentShrinks
<1>4. /\ used' \subseteq Ids /\ DOMAIN servers' \subseteq used'
      /\ servers' \in [DOMAIN servers' -> Server]
      /\ in' \in Seq(Announcement)
  <2> DEFINE m == Head(sent)
  <2>1. \/ m.cmd = "add" /\ AddServer(m.name)
        \/ m.cmd = "remove" /\ m.id \in DOMAIN servers /\ RemoveServer(m.id)
        \/ m.cmd = "set" /\ m.id \in DOMAIN servers /\ SetName(m.id, m.name)
        \/ UNCHANGED <<servers, used, in>>
    BY DEF ToClient
  <2>2. m.cmd \in {"add", "set"} => m.name \in Names
    BY <1>3
  <2> HIDE DEF m
  <2>3. CASE UNCHANGED <<servers, used, in>>
    BY <2>3 DEF PageTypeOK
  <2>4. CASE \/ \E name \in Names : AddServer(name)
             \/ \E i \in DOMAIN servers : RemoveServer(i)
             \/ \E i \in DOMAIN servers, name \in Names : SetName(i, name)
    BY <2>4, CoreTyped
  <2> QED
    BY <2>1, <2>2, <2>3, <2>4
<1>5. ModelOK /\ PageOK /\ FormHasName' /\ PageShowsCurrent'
  BY <1>1, <1>2, Untouched
<1>6. /\ dialog' \in Ids \cup {"none", "new"}
      /\ acts' \in 0..MaxActs /\ events' \in 0..MaxEvents
  BY <1>1 DEF PageTypeOK
<1> QED
  BY <1>3, <1>4, <1>5, <1>6, TypeFrom DEF PageInv

LEMMA CoreStepOK ==
  ASSUME PageTypeOK, PageInv, CoreStep
  PROVE  PageTypeOK' /\ PageInv'
<1>1. /\ events < MaxEvents /\ events' = events + 1
      /\ UNCHANGED mirrorVars /\ UNCHANGED pageVars
      /\ UNCHANGED dialog /\ UNCHANGED sent /\ UNCHANGED acts
  BY DEF CoreStep
<1>2. FormHasName /\ CommandsAreMeant /\ PageShowsCurrent
  BY DEF PageInv
<1>3. \/ \E name \in Names : AddServer(name)
      \/ \E i \in DOMAIN servers : RemoveServer(i)
      \/ \E i \in DOMAIN servers, name \in Names : SetName(i, name)
      \/ ConnectedChanges
      \/ AnswerGet
  BY DEF CoreStep
<1>4. /\ used' \subseteq Ids /\ DOMAIN servers' \subseteq used'
      /\ servers' \in [DOMAIN servers' -> Server]
      /\ in' \in Seq(Announcement)
  BY <1>3, CoreTyped
<1>5. ModelOK /\ PageOK /\ FormHasName' /\ PageShowsCurrent'
  BY <1>1, <1>2, Untouched
<1>6. dialog' \in Ids \cup {"none", "new"} /\ sent' \in Seq(Command) /\ acts' \in 0..MaxActs
  BY <1>1 DEF PageTypeOK
<1>7. events' \in 0..MaxEvents
  BY <1>1, BoundsAssumption DEF PageTypeOK
<1>8. CommandsAreMeant'
  BY <1>1, <1>2 DEF CommandsAreMeant
<1> QED
  BY <1>4, <1>5, <1>6, <1>7, <1>8, TypeFrom DEF PageInv

LEMMA ConsumeOK ==
  ASSUME PageTypeOK, PageInv, PageConsume
  PROVE  PageTypeOK' /\ PageInv'
<1> DEFINE m == Head(in)
<1>1. /\ in # <<>> /\ in' = Tail(in)
      /\ ConsumeAdded(m) \/ ConsumeItem(m) \/ ConsumeRemoved(m) \/ ConsumeUnknown(m)
      /\ UNCHANGED listVars /\ UNCHANGED dialog /\ UNCHANGED sent /\ UNCHANGED acts
  BY DEF PageConsume
<1>2. FormHasName /\ CommandsAreMeant /\ PageShowsCurrent
  BY DEF PageInv
<1>3. in' \in Seq(Announcement) /\ m \in Announcement
  <2>1. in \in Seq(Announcement)
    BY DEF PageTypeOK
  <2> QED
    BY <1>1, <2>1, HeadTailProperties
<1> HIDE DEF m
<1>4. ModelOK /\ PageOK /\ FormHasName' /\ PageShowsCurrent'
  <2>1. CASE ConsumeUnknown(m)
    BY <1>2, <2>1, Untouched DEF ConsumeUnknown
  <2> QED
    BY <1>1, <1>2, <1>3, <2>1, AddedShows, ItemShows, RemovedShows
<1>5. /\ used' \subseteq Ids /\ DOMAIN servers' \subseteq used'
      /\ servers' \in [DOMAIN servers' -> Server]
      /\ events' \in 0..MaxEvents
  BY <1>1 DEF PageTypeOK, listVars
<1>6. /\ dialog' \in Ids \cup {"none", "new"} /\ sent' \in Seq(Command)
      /\ acts' \in 0..MaxActs
  BY <1>1 DEF PageTypeOK
<1>7. CommandsAreMeant'
  BY <1>1, <1>2 DEF CommandsAreMeant
<1> QED
  BY <1>3, <1>4, <1>5, <1>6, <1>7, TypeFrom DEF PageInv

(* What the user does leaves the core and the mirror alone. *)
LEMMA UserOK ==
  ASSUME PageTypeOK, UNCHANGED <<listVars, in, mirrorVars>>,
         dialog' \in Ids \cup {"none", "new"}, acts' \in 0..MaxActs,
         current' \in Shown \cup {"none"}, PageOK,
         sent' \in Seq(Command)
  PROVE  PageTypeOK'
<1>1. /\ UNCHANGED servers /\ UNCHANGED used /\ UNCHANGED events
      /\ UNCHANGED in /\ UNCHANGED mirrorVars
  BY DEF listVars
<1>2. ModelOK
  BY <1>1, SameModel
<1>3. /\ used' \subseteq Ids /\ DOMAIN servers' \subseteq used'
      /\ servers' \in [DOMAIN servers' -> Server]
      /\ in' \in Seq(Announcement) /\ events' \in 0..MaxEvents
  BY <1>1 DEF PageTypeOK
<1> QED
  BY <1>2, <1>3, TypeFrom

LEMMA ActTyped ==
  ASSUME PageTypeOK, Act
  PROVE  acts' \in 0..MaxActs /\ UNCHANGED <<listVars, in, mirrorVars>> /\ dialog = "none"
<1>1. acts' \in 0..MaxActs
  BY BoundsAssumption DEF Act, PageTypeOK
<1> QED
  BY <1>1 DEF Act

LEMMA SelectOK ==
  ASSUME PageTypeOK, PageInv, Select
  PROVE  PageTypeOK' /\ PageInv'
<1>1. /\ acts' \in 0..MaxActs /\ UNCHANGED <<listVars, in, mirrorVars>>
      /\ UNCHANGED dialog /\ UNCHANGED sent
  BY ActTyped DEF Select
<1>2. PICK i \in Shown \ {current} : CurrentChanged(i)
  BY DEF Select
<1>3. i \in DOMAIN mirror' /\ mirror'[i] = mirror[i]
  BY <1>1, ShownHaveNames DEF mirrorVars
<1>4. PageOK /\ current' = i /\ FormHasName' /\ PageShowsCurrent'
  BY <1>2, <1>3, ChangedShows DEF PageInv
<1>5. dialog' \in Ids \cup {"none", "new"} /\ sent' \in Seq(Command) /\ CommandsAreMeant'
  BY <1>1 DEF PageTypeOK, PageInv, CommandsAreMeant
<1>6. current' \in Shown \cup {"none"}
  BY <1>4
<1> QED
  BY <1>1, <1>4, <1>5, <1>6, UserOK DEF PageInv

LEMMA UserTypesOK ==
  ASSUME PageTypeOK, PageInv, UserTypes
  PROVE  PageTypeOK' /\ PageInv'
<1>1. /\ acts' \in 0..MaxActs /\ UNCHANGED <<listVars, in, mirrorVars>>
      /\ UNCHANGED dialog /\ UNCHANGED sent
      /\ text' \in Names /\ typed' = TRUE
      /\ UNCHANGED <<current, form, boxOn, buttons>>
  BY ActTyped DEF UserTypes
<1>2. PageOK /\ current' \in Shown \cup {"none"}
  BY <1>1 DEF PageOK, PageTypeOK
<1>3. dialog' \in Ids \cup {"none", "new"} /\ sent' \in Seq(Command) /\ CommandsAreMeant'
  BY <1>1 DEF PageTypeOK, PageInv, CommandsAreMeant
<1>4. FormHasName'
  BY <1>1 DEF FormHasName
<1>5. PageShowsCurrent'
  BY <1>1 DEF PageInv, PageShowsCurrent, mirrorVars, IsConnected
<1> QED
  BY <1>1, <1>2, <1>3, <1>4, <1>5, UserOK DEF PageInv

(* What the user does that sends at most a command and asks at most a      *)
(* question.                                                               *)
LEMMA ClickOK ==
  ASSUME PageTypeOK, PageInv, UNCHANGED <<listVars, in, mirrorVars>>,
         UNCHANGED pageVars,
         dialog' \in Ids \cup {"none", "new"}, acts' \in 0..MaxActs,
         sent' \in Seq(Command), CommandsAreMeant'
  PROVE  PageTypeOK' /\ PageInv'
<1>1. ModelOK /\ PageOK /\ FormHasName' /\ PageShowsCurrent'
  BY Untouched DEF PageInv
<1>2. current' \in Shown \cup {"none"}
  BY DEF pageVars, PageTypeOK
<1> QED
  BY <1>1, <1>2, UserOK DEF PageInv

(* The commands that the page sends. *)
LEMMA EmitMsgOK ==
  ASSUME PageTypeOK, CommandsAreMeant,
         NEW cmd \in {"remove", "connect", "disconnect"}, NEW i \in Ids,
         EmitMsg(cmd, i)
  PROVE  sent' \in Seq(Command) /\ CommandsAreMeant'
<1> DEFINE c == [cmd |-> cmd, id |-> i, name |-> NoName]
<1>1. sent' = Append(sent, c)
  BY DEF EmitMsg
<1>2. c \in Command /\ c.cmd \notin {"add", "set"} /\ c.id \in Ids
  BY DEF Command
<1> HIDE DEF c
<1> QED
  BY <1>1, <1>2, SentGrows

LEMMA EmitNameOK ==
  ASSUME PageTypeOK, CommandsAreMeant, NEW cmd, NEW i, NEW name \in Names,
         \/ cmd = "set" /\ i \in Ids
         \/ cmd = "add" /\ i = "none",
         EmitName(cmd, i, name)
  PROVE  sent' \in Seq(Command) /\ CommandsAreMeant'
<1> DEFINE c == [cmd |-> cmd, id |-> i, name |-> name]
<1>1. sent' = Append(sent, c)
  BY DEF EmitName
<1>2. /\ c \in Command /\ c.name \in Names
      /\ c.cmd \in {"set", "remove"} => c.id \in Ids
  BY DEF Command
<1> HIDE DEF c
<1> QED
  BY <1>1, <1>2, SentGrows

LEMMA ApplyClickedOK ==
  ASSUME PageTypeOK, PageInv, ApplyClicked
  PROVE  PageTypeOK' /\ PageInv'
<1>1. /\ acts' \in 0..MaxActs /\ UNCHANGED <<listVars, in, mirrorVars>>
      /\ boxOn /\ UNCHANGED pageVars /\ UNCHANGED dialog
  BY ActTyped DEF ApplyClicked
<1>2. dialog' \in Ids \cup {"none", "new"}
  BY <1>1 DEF PageTypeOK
<1>3. form \in Ids /\ form # "none" /\ text \in Names
  <2>1. form # "none"
    BY <1>1 DEF PageInv, PageShowsCurrent
  <2> QED
    BY <2>1 DEF PageTypeOK, PageInv, FormHasName
<1>4. \/ EmitName("set", form, text)
      \/ UNCHANGED sent
  BY DEF ApplyClicked, SetProperty
<1>5. sent' \in Seq(Command) /\ CommandsAreMeant'
  <2>1. CASE EmitName("set", form, text)
    BY <1>3, <2>1, EmitNameOK DEF PageInv
  <2>2. CASE UNCHANGED sent
    BY <2>2 DEF PageTypeOK, PageInv, CommandsAreMeant
  <2> QED
    BY <1>4, <2>1, <2>2
<1> QED
  BY <1>1, <1>2, <1>5, ClickOK

(* Connect and disconnect, which send a command about the current row. *)
LEMMA ConnectsOK ==
  ASSUME PageTypeOK, PageInv, ConnectClicked \/ DisconnectClicked
  PROVE  PageTypeOK' /\ PageInv'
<1>1. /\ acts' \in 0..MaxActs /\ UNCHANGED <<listVars, in, mirrorVars>>
      /\ current # "none" /\ UNCHANGED pageVars /\ UNCHANGED dialog
  BY ActTyped DEF ConnectClicked, DisconnectClicked
<1>2. current \in Ids /\ dialog' \in Ids \cup {"none", "new"}
  BY <1>1, ShownHaveNames DEF PageTypeOK
<1>3. EmitMsg("connect", current) \/ EmitMsg("disconnect", current)
  BY DEF ConnectClicked, DisconnectClicked
<1>4. sent' \in Seq(Command) /\ CommandsAreMeant'
  BY <1>2, <1>3, EmitMsgOK DEF PageInv
<1> QED
  BY <1>1, <1>2, <1>4, ClickOK

LEMMA AsksOK ==
  ASSUME PageTypeOK, PageInv, RemoveClicked \/ NewClicked
  PROVE  PageTypeOK' /\ PageInv'
<1>1. /\ acts' \in 0..MaxActs /\ UNCHANGED <<listVars, in, mirrorVars>>
      /\ dialog' \in {current, "new"} /\ UNCHANGED pageVars /\ UNCHANGED sent
  BY ActTyped DEF RemoveClicked, NewClicked
<1>2. dialog' \in Ids \cup {"none", "new"}
  BY <1>1, ShownHaveNames DEF PageTypeOK
<1>3. sent' \in Seq(Command) /\ CommandsAreMeant'
  BY <1>1 DEF PageTypeOK, PageInv, CommandsAreMeant
<1> QED
  BY <1>1, <1>2, <1>3, ClickOK

LEMMA AnswersOK ==
  ASSUME PageTypeOK, PageInv, AnswerYes \/ AnswerNo
  PROVE  PageTypeOK' /\ PageInv'
<1>1. /\ UNCHANGED <<listVars, in, mirrorVars>> /\ UNCHANGED acts
      /\ dialog' = "none" /\ UNCHANGED pageVars
  BY DEF AnswerYes, AnswerNo
<1>2. dialog' \in Ids \cup {"none", "new"} /\ acts' \in 0..MaxActs
  BY <1>1 DEF PageTypeOK
<1>3. \/ \E name \in Names : EmitName("add", "none", name)
      \/ current # "none" /\ EmitMsg("remove", current)
      \/ UNCHANGED sent
  BY DEF AnswerYes, AnswerNo
<1>4. sent' \in Seq(Command) /\ CommandsAreMeant'
  <2>1. ASSUME NEW name \in Names, EmitName("add", "none", name)
        PROVE  sent' \in Seq(Command) /\ CommandsAreMeant'
    BY <2>1, EmitNameOK DEF PageInv
  <2>2. CASE current # "none" /\ EmitMsg("remove", current)
    <3>1. current \in Ids
      BY <2>2, ShownHaveNames DEF PageTypeOK
    <3> QED
      BY <2>2, <3>1, EmitMsgOK DEF PageInv
  <2>3. CASE UNCHANGED sent
    BY <2>3 DEF PageTypeOK, PageInv, CommandsAreMeant
  <2> QED
    BY <1>3, <2>1, <2>2, <2>3
<1> QED
  BY <1>1, <1>2, <1>4, ClickOK

LEMMA InitOK ==
  ASSUME PageInit
  PROVE  PageTypeOK /\ PageInv
<1>1. indices = <<>> /\ DOMAIN mirror = {} /\ in = <<>> /\ sent = <<>>
  BY DEF PageInit
<1>2. /\ indices \in Seq(Ids) /\ DOMAIN indices = {}
      /\ in \in Seq(Announcement)
      /\ sent \in Seq(Command) /\ DOMAIN sent = {}
  BY <1>1, EmptySeq
<1>3. Shown = DOMAIN mirror /\ IsInjective(indices)
  BY <1>1, <1>2 DEF Shown, ToSet, IsInjective
<1>4. mirror \in [DOMAIN mirror -> Server]
  BY DEF PageInit
<1>5. /\ used \subseteq Ids /\ DOMAIN servers \subseteq used
      /\ servers \in [DOMAIN servers -> Server]
  BY DEF PageInit
<1>6. acts \in 0..MaxActs /\ events \in 0..MaxEvents
  BY BoundsAssumption DEF PageInit
<1>7. PageTypeOK
  BY <1>2, <1>3, <1>4, <1>5, <1>6 DEF PageInit, PageTypeOK
<1>8. FormHasName /\ PageShowsCurrent
  BY DEF PageInit, FormHasName, PageShowsCurrent
<1>9. CommandsAreMeant
  BY <1>2 DEF CommandsAreMeant
<1> QED
  BY <1>7, <1>8, <1>9 DEF PageInv

(* Whatever other users and this one do, and in whatever order the mirror  *)
(* hears of it, the page shows and edits its current server: currentChanged *)
(* and dataChanged of the model and the slots of the page together         *)
(* (IRCServersPage.cpp, SyncedList.cpp).                                   *)
THEOREM PageCorrect == PageSpec => [](PageTypeOK /\ PageInv)
<1>1. PageInit => PageTypeOK /\ PageInv
  BY InitOK
<1>2. PageTypeOK /\ PageInv /\ [PageNext]_settingsVars => PageTypeOK' /\ PageInv'
  <2> SUFFICES ASSUME PageTypeOK, PageInv, [PageNext]_settingsVars
               PROVE  PageTypeOK' /\ PageInv'
    OBVIOUS
  <2>1. CASE CoreStep
    BY <2>1, CoreStepOK
  <2>2. CASE ToClient
    BY <2>2, ToClientOK
  <2>3. CASE PageConsume
    BY <2>3, ConsumeOK
  <2>4. CASE Select
    BY <2>4, SelectOK
  <2>5. CASE UserTypes
    BY <2>5, UserTypesOK
  <2>6. CASE ApplyClicked
    BY <2>6, ApplyClickedOK
  <2>7. CASE ConnectClicked \/ DisconnectClicked
    BY <2>7, ConnectsOK
  <2>8. CASE RemoveClicked \/ NewClicked
    BY <2>8, AsksOK
  <2>9. CASE AnswerYes \/ AnswerNo
    BY <2>9, AnswersOK
  <2>10. CASE UNCHANGED settingsVars
    <3>1. /\ UNCHANGED <<listVars, in, mirrorVars>> /\ UNCHANGED pageVars
          /\ UNCHANGED dialog /\ UNCHANGED sent /\ UNCHANGED acts
      BY <2>10 DEF settingsVars
    <3>2. /\ dialog' \in Ids \cup {"none", "new"} /\ acts' \in 0..MaxActs
          /\ sent' \in Seq(Command) /\ CommandsAreMeant'
      BY <3>1 DEF PageTypeOK, PageInv, CommandsAreMeant
    <3> QED
      BY <3>1, <3>2, ClickOK
  <2> QED
    BY <2>1, <2>2, <2>3, <2>4, <2>5, <2>6, <2>7, <2>8, <2>9, <2>10 DEF PageNext
<1> QED
  BY <1>1, <1>2, PTL DEF PageSpec

(* Every variable of the page keeps its type. *)
THEOREM PageTyped == PageSpec => []PageTypeOK
BY PageCorrect, PTL

(* What can be edited, and what buttons and form show, is the current      *)
(* server (IRCServersPage::updateConnectButtons, QDataWidgetMapper).       *)
THEOREM ShowsCurrent == PageSpec => []PageShowsCurrent
<1>1. PageInv => PageShowsCurrent
  BY DEF PageInv
<1> QED
  BY <1>1, PageCorrect, PTL

(* What a submitted form sends, if it sends anything. *)
LEMMA EmitNameSets ==
  ASSUME PageTypeOK, NEW cmd, NEW i, NEW name, EmitName(cmd, i, name)
  PROVE  Len(sent') > Len(sent) /\ Last(sent') = [cmd |-> cmd, id |-> i, name |-> name]
<1>1. sent \in Seq(Command)
  BY DEF PageTypeOK
<1> DEFINE c == [cmd |-> cmd, id |-> i, name |-> name]
<1>2. sent' = Append(sent, c)
  BY DEF EmitName
<1> HIDE DEF c
<1>3. sent \in Seq(Command \cup {c})
  BY <1>1
<1>4. Len(sent') = Len(sent) + 1 /\ sent'[Len(sent) + 1] = c /\ Len(sent) \in Nat
  BY <1>2, <1>3, AppendProperties, LenProperties
<1> QED
  BY <1>4 DEF Last, c

LEMMA EmitMsgSends ==
  ASSUME PageTypeOK, NEW cmd, NEW i, EmitMsg(cmd, i)
  PROVE  Last(sent') = [cmd |-> cmd, id |-> i, name |-> NoName]
<1>1. EmitName(cmd, i, NoName)
  BY DEF EmitMsg, EmitName
<1> QED
  BY <1>1, EmitNameSets

(* Nothing is sent by a step that leaves the commands, or takes one. *)
LEMMA NothingSent ==
  ASSUME PageTypeOK, UNCHANGED sent \/ (sent # <<>> /\ sent' = Tail(sent))
  PROVE  ~(Len(sent') > Len(sent))
<1>1. sent \in Seq(Command)
  BY DEF PageTypeOK
<1>2. Len(sent) \in Nat
  BY <1>1, LenProperties
<1>3. sent # <<>> => Len(Tail(sent)) = Len(sent) - 1
  BY <1>1, HeadTailProperties
<1> QED
  BY <1>2, <1>3

(* A submitted form has only what the user typed for its server, or sends  *)
(* nothing: what another user changes meanwhile is not undone              *)
(* (applyClicked, SyncedList::set, SyncedListModel::changed).              *)
THEOREM AppliesTyped == PageSpec => OnlyTypedIsApplied
<1>1. PageTypeOK /\ PageInv /\ [PageNext]_settingsVars
        => [Sets => typed /\ Last(sent').id = current /\ Last(sent').name = text]_settingsVars
  <2> SUFFICES ASSUME PageTypeOK, PageInv, PageNext, Sets
               PROVE  typed /\ Last(sent').id = current /\ Last(sent').name = text
    OBVIOUS
  <2>1. Len(sent') > Len(sent) /\ Last(sent').cmd = "set"
    BY DEF Sets
  <2>2. CASE ApplyClicked
    <3>1. /\ boxOn
          /\ \/ mirror[form].name # text /\ EmitName("set", form, text)
             \/ UNCHANGED sent
      BY <2>2 DEF ApplyClicked, SetProperty
    <3>2. mirror[form].name # text /\ EmitName("set", form, text)
      BY <2>1, <3>1, NothingSent
    <3>3. current # "none" /\ form = current /\ (~typed => text = mirror[current].name)
      BY <3>1 DEF PageInv, PageShowsCurrent
    <3>4. Last(sent') = [cmd |-> "set", id |-> form, name |-> text]
      BY <3>2, EmitNameSets
    <3> QED
      BY <3>2, <3>3, <3>4
  <2>3. CASE CoreStep \/ PageConsume \/ Select \/ UserTypes \/ RemoveClicked \/ NewClicked \/ AnswerNo
    BY <2>1, <2>3, NothingSent
       DEF CoreStep, PageConsume, Select, UserTypes, RemoveClicked, NewClicked, AnswerNo
  <2>4. CASE ToClient
    BY <2>1, <2>4, NothingSent DEF ToClient
  <2>5. CASE ConnectClicked \/ DisconnectClicked
    <3>1. EmitMsg("connect", current) \/ EmitMsg("disconnect", current)
      BY <2>5 DEF ConnectClicked, DisconnectClicked
    <3> QED
      BY <2>1, <3>1, EmitMsgSends
  <2>6. CASE AnswerYes
    <3>1. \/ \E name \in Names : EmitName("add", "none", name)
          \/ EmitMsg("remove", current)
          \/ UNCHANGED sent
      BY <2>6 DEF AnswerYes
    <3> QED
      BY <2>1, <3>1, EmitNameSets, EmitMsgSends, NothingSent
  <2> QED
    BY <2>2, <2>3, <2>4, <2>5, <2>6 DEF PageNext
<1> QED
  BY <1>1, PageCorrect, PTL DEF PageSpec, OnlyTypedIsApplied

-----------------------------------------------------------------------------
(* The question before a removal. *)

(* What the core tells about is not gone yet. *)
LEMMA CoreTells ==
  ASSUME PageTypeOK,
         \/ \E name \in Names : AddServer(name)
         \/ \E i \in DOMAIN servers : RemoveServer(i)
         \/ \E i \in DOMAIN servers, name \in Names : SetName(i, name)
         \/ ConnectedChanges
         \/ AnswerGet
         \/ UNCHANGED <<servers, used, in>>
  PROVE  /\ \A j : Gone(j) => Gone(j)'
         /\ \/ UNCHANGED in
            \/ \E m \in Announcement :
                 /\ in' = Append(in, m)
                 /\ ~Gone(m.id)
                 /\ m.cmd = "removed" => Gone(m.id)'
<1>1. /\ used \subseteq Ids /\ DOMAIN servers \subseteq used
      /\ servers \in [DOMAIN servers -> Server]
  BY DEF PageTypeOK
<1>2. ASSUME NEW name \in Names, AddServer(name)
      PROVE  /\ \A j : Gone(j) => Gone(j)'
             /\ \E m \in Announcement :
                  /\ in' = Append(in, m)
                  /\ ~Gone(m.id)
                  /\ m.cmd = "removed" => Gone(m.id)'
  <2> DEFINE new == [name |-> name, connected |-> FALSE]
  <2>1. PICK i \in Ids \ used :
          /\ servers' = [j \in DOMAIN servers \cup {i} |-> IF j = i THEN new ELSE servers[j]]
          /\ used' = used \cup {i}
          /\ in' = Append(in, [cmd |-> "added", id |-> i, row |-> new])
    BY <1>2 DEF AddServer, Tell
  <2>2. [cmd |-> "added", id |-> i, row |-> new] \in Announcement
    BY DEF Announcement, Server
  <2>3. ~Gone(i) /\ \A j : Gone(j) => Gone(j)'
    BY <2>1 DEF Gone
  <2> QED
    BY <2>1, <2>2, <2>3
<1>3. ASSUME NEW i \in DOMAIN servers, RemoveServer(i)
      PROVE  /\ \A j : Gone(j) => Gone(j)'
             /\ \E m \in Announcement :
                  /\ in' = Append(in, m)
                  /\ ~Gone(m.id)
                  /\ m.cmd = "removed" => Gone(m.id)'
  <2>1. /\ servers' = [j \in DOMAIN servers \ {i} |-> servers[j]] /\ UNCHANGED used
        /\ in' = Append(in, [cmd |-> "removed", id |-> i, row |-> servers[i]])
    BY <1>3 DEF RemoveServer, Tell
  <2>2. [cmd |-> "removed", id |-> i, row |-> servers[i]] \in Announcement
    BY <1>1 DEF Announcement
  <2>3. ~Gone(i) /\ Gone(i)' /\ \A j : Gone(j) => Gone(j)'
    BY <1>1, <2>1 DEF Gone
  <2> QED
    BY <2>1, <2>2, <2>3
<1>4. CASE AnswerGet
  <2>1. PICK i \in DOMAIN servers :
          in' = Append(in, [cmd |-> "item", id |-> i, row |-> servers[i]])
    BY <1>4 DEF AnswerGet, Tell
  <2>2. [cmd |-> "item", id |-> i, row |-> servers[i]] \in Announcement
    BY <1>1 DEF Announcement
  <2>3. ~Gone(i) /\ \A j : Gone(j) => Gone(j)'
    BY <1>4 DEF Gone, AnswerGet
  <2> QED
    BY <2>1, <2>2, <2>3
<1>5. ASSUME NEW i \in DOMAIN servers, NEW name \in Names, SetName(i, name)
      PROVE  (\A j : Gone(j) => Gone(j)') /\ UNCHANGED in
  BY <1>1, <1>5 DEF SetName, Gone
<1>6. CASE ConnectedChanges
  BY <1>1, <1>6 DEF ConnectedChanges, Gone
<1>7. CASE UNCHANGED <<servers, used, in>>
  BY <1>7 DEF Gone
<1> QED
  BY <1>2, <1>3, <1>4, <1>5, <1>6, <1>7

LEMMA CoreQuestion ==
  ASSUME PageTypeOK, QuestionInv,
         UNCHANGED <<dialog, current, indices>>,
         \A j : Gone(j) => Gone(j)',
         \/ UNCHANGED in
         \/ \E m \in Announcement :
              /\ in' = Append(in, m)
              /\ ~Gone(m.id)
              /\ m.cmd = "removed" => Gone(m.id)'
  PROVE  QuestionInv'
<1>1. RemovalsAreLast /\ QuestionHolds
  BY DEF QuestionInv
<1>2. CASE UNCHANGED in
  <2>1. RemovalsAreLast'
    BY <1>1, <1>2 DEF RemovalsAreLast
  <2>2. QuestionHolds'
    BY <1>1, <1>2 DEF QuestionHolds, Shown
  <2> QED
    BY <2>1, <2>2 DEF QuestionInv
<1>3. ASSUME NEW m \in Announcement, in' = Append(in, m), ~Gone(m.id),
             m.cmd = "removed" => Gone(m.id)'
      PROVE  QuestionInv'
  <2>1. in \in Seq(Announcement)
    BY DEF PageTypeOK
  <2>2. /\ DOMAIN in = 1..Len(in) /\ Len(in) \in Nat
        /\ DOMAIN in' = 1..(Len(in) + 1)
        /\ \A k \in 1..Len(in) : in'[k] = in[k]
        /\ in'[Len(in) + 1] = m
    BY <1>3, <2>1, AppendProperties, LenProperties
  <2>3. ASSUME NEW k \in DOMAIN in', in'[k].cmd = "removed"
        PROVE  Gone(in[k].id)' /\ \A l \in DOMAIN in' : l > k => in'[l].id # in'[k].id
    <3>1. CASE k \in DOMAIN in
      <4>1. /\ in'[k] = in[k] /\ Gone(in[k].id)
            /\ \A l \in DOMAIN in : l > k => in[l].id # in[k].id
        BY <1>1, <2>2, <2>3, <3>1 DEF RemovalsAreLast
      <4>2. in[k].id # m.id
        BY <1>3, <4>1
      <4>3. ASSUME NEW l \in DOMAIN in', l > k
            PROVE  in'[l].id # in'[k].id
        BY <2>2, <4>1, <4>2, <4>3
      <4> QED
        BY <4>1, <4>3
    <3>2. CASE k \notin DOMAIN in
      <4>1. k = Len(in) + 1 /\ in'[k] = m
        BY <2>2, <3>2
      <4>2. \A l \in DOMAIN in' : ~(l > k)
        BY <2>2, <4>1
      <4> QED
        BY <1>3, <2>3, <4>1, <4>2
    <3> QED
      BY <3>1, <3>2
  <2>4. RemovalsAreLast'
    BY <2>3 DEF RemovalsAreLast
  <2>5. ASSUME dialog \in Ids, dialog # current
        PROVE  /\ dialog \notin Shown' /\ Gone(dialog)'
               /\ \A k \in DOMAIN in' : in'[k].id # dialog
    <3>1. /\ dialog \notin Shown /\ Gone(dialog)
          /\ \A k \in DOMAIN in : in[k].id # dialog
      BY <1>1, <2>5 DEF QuestionHolds
    <3>2. m.id # dialog
      BY <1>3, <3>1
    <3>3. \A k \in DOMAIN in' : in'[k].id # dialog
      BY <2>2, <3>1, <3>2
    <3> QED
      BY <3>1, <3>3 DEF Shown
  <2>6. QuestionHolds'
    BY <2>5 DEF QuestionHolds
  <2> QED
    BY <2>4, <2>6 DEF QuestionInv
<1> QED
  BY <1>2, <1>3

(* A packet brings at most its server, and moves the current index only    *)
(* from the row that it removes.                                           *)
LEMMA ConsumeMoves ==
  ASSUME PageTypeOK, NEW m \in Announcement,
         ConsumeAdded(m) \/ ConsumeItem(m) \/ ConsumeRemoved(m) \/ ConsumeUnknown(m)
  PROVE  /\ Shown' \subseteq Shown \cup {m.id}
         /\ \/ UNCHANGED current
            \/ m.cmd = "removed" /\ current = m.id /\ m.id \notin Shown'
<1>1. /\ indices \in Seq(Ids) /\ Shown = DOMAIN mirror /\ IsInjective(indices)
  BY DEF PageTypeOK
<1>2. CASE ConsumeAdded(m)
  <2>1. /\ m.id \notin Shown /\ indices' = Append(indices, m.id) /\ UNCHANGED current
        /\ m.id \in Ids
    BY <1>1, <1>2 DEF ConsumeAdded, ModelAdded, pageVars, Announcement
  <2>2. Shown' = Shown \cup {m.id}
    BY <1>1, <2>1, AppendNew DEF Shown
  <2> QED
    BY <2>1, <2>2
<1>3. CASE ConsumeItem(m)
  BY <1>3 DEF ConsumeItem, PropertyChanged, Shown
<1>4. CASE ConsumeRemoved(m)
  <2>1. /\ m.cmd = "removed" /\ m.id \in Shown
        /\ RowGoes(Row(m.id)) /\ indices' = RemoveAt(indices, Row(m.id))
    BY <1>1, <1>4 DEF ConsumeRemoved, ModelRemoved
  <2>2. Row(m.id) \in DOMAIN indices /\ indices[Row(m.id)] = m.id
    BY <2>1, RowOfShown
  <2>3. Shown' = Shown \ {m.id}
    BY <1>1, <2>1, <2>2, RemoveOne DEF Shown
  <2>4. current = m.id \/ UNCHANGED current
    BY <2>1, <2>2 DEF RowGoes, pageVars
  <2> QED
    BY <2>1, <2>3, <2>4
<1>5. CASE ConsumeUnknown(m)
  BY <1>5 DEF ConsumeUnknown, mirrorVars, pageVars, Shown
<1> QED
  BY <1>2, <1>3, <1>4, <1>5

LEMMA ConsumeQuestion ==
  ASSUME PageTypeOK, QuestionInv, PageConsume
  PROVE  QuestionInv'
<1> DEFINE m == Head(in)
<1>1. /\ in # <<>> /\ in' = Tail(in)
      /\ ConsumeAdded(m) \/ ConsumeItem(m) \/ ConsumeRemoved(m) \/ ConsumeUnknown(m)
      /\ UNCHANGED <<servers, used, dialog>>
  BY DEF PageConsume, listVars
<1>2. /\ m \in Announcement /\ m = in[1]
      /\ DOMAIN in = 1..Len(in) /\ Len(in) \in Nat \ {0}
      /\ DOMAIN in' = 1..(Len(in) - 1)
      /\ \A k \in 1..(Len(in) - 1) : in'[k] = in[k + 1]
  <2>1. in \in Seq(Announcement)
    BY DEF PageTypeOK
  <2> QED
    BY <1>1, <2>1, HeadTailProperties, LenProperties, EmptySeq
<1> HIDE DEF m
<1>3. RemovalsAreLast /\ QuestionHolds
  BY DEF QuestionInv
<1>4. ASSUME NEW k \in DOMAIN in'
      PROVE  k + 1 \in DOMAIN in /\ in'[k] = in[k + 1] /\ k + 1 > 1
             /\ k \in Nat
  BY <1>2
<1>5. 1 \in DOMAIN in
  BY <1>2
<1>6. ASSUME NEW k \in DOMAIN in', in'[k].cmd = "removed"
      PROVE  Gone(in[k].id)' /\ \A l \in DOMAIN in' : l > k => in'[l].id # in'[k].id
  <2>1. /\ Gone(in[k + 1].id)
        /\ \A l \in DOMAIN in : l > k + 1 => in[l].id # in[k + 1].id
    BY <1>3, <1>4, <1>6 DEF RemovalsAreLast
  <2>2. ASSUME NEW l \in DOMAIN in', l > k
        PROVE  in'[l].id # in'[k].id
    <3>1. l + 1 > k + 1
      BY <1>4, <2>2
    <3> QED
      BY <1>4, <2>1, <3>1
  <2> QED
    BY <1>1, <1>4, <2>1, <2>2 DEF Gone
<1>7. RemovalsAreLast'
  BY <1>6 DEF RemovalsAreLast
<1>8. /\ Shown' \subseteq Shown \cup {m.id}
      /\ \/ UNCHANGED current
         \/ m.cmd = "removed" /\ current = m.id /\ m.id \notin Shown'
  BY <1>1, <1>2, ConsumeMoves
<1>9. ASSUME dialog \in Ids, dialog # current'
      PROVE  /\ dialog \notin Shown' /\ Gone(dialog)'
             /\ \A k \in DOMAIN in' : in'[k].id # dialog
  <2>1. CASE dialog # current
    <3>1. /\ dialog \notin Shown /\ Gone(dialog)
          /\ \A k \in DOMAIN in : in[k].id # dialog
      BY <1>3, <1>9, <2>1 DEF QuestionHolds
    <3> QED
      BY <1>1, <1>2, <1>4, <1>5, <1>8, <3>1 DEF Gone
  <2>2. CASE dialog = current
    <3>1. m.cmd = "removed" /\ dialog = m.id /\ m.id \notin Shown'
      BY <1>8, <1>9, <2>2
    <3>2. Gone(m.id) /\ \A l \in DOMAIN in : l > 1 => in[l].id # m.id
      BY <1>2, <1>3, <1>5, <3>1 DEF RemovalsAreLast
    <3> QED
      BY <1>1, <1>4, <3>1, <3>2 DEF Gone
  <2> QED
    BY <2>1, <2>2
<1>10. QuestionHolds'
  BY <1>1, <1>9 DEF QuestionHolds
<1> QED
  BY <1>7, <1>10 DEF QuestionInv

(* Steps of the user: a question begins about the current server. *)
LEMMA UserQuestion ==
  ASSUME PageTypeOK, QuestionInv, UNCHANGED <<listVars, in>>,
         dialog' \in {"none", "new"} \/ dialog' = current'
  PROVE  QuestionInv'
<1>1. RemovalsAreLast'
  BY DEF QuestionInv, RemovalsAreLast, listVars, Gone
<1>2. QuestionHolds'
  BY IdsAssumption DEF QuestionHolds
<1> QED
  BY <1>1, <1>2 DEF QuestionInv

LEMMA QuestionStep ==
  ASSUME PageTypeOK, PageInv, QuestionInv, [PageNext]_settingsVars
  PROVE  QuestionInv'
<1>1. CASE CoreStep
  <2>1. UNCHANGED <<dialog, current, indices>>
    BY <1>1 DEF CoreStep, mirrorVars, pageVars
  <2>2. \/ \E name \in Names : AddServer(name)
        \/ \E i \in DOMAIN servers : RemoveServer(i)
        \/ \E i \in DOMAIN servers, name \in Names : SetName(i, name)
        \/ ConnectedChanges
        \/ AnswerGet
    BY <1>1 DEF CoreStep
  <2> QED
    BY <2>1, <2>2, CoreTells, CoreQuestion
<1>2. CASE PageConsume
  BY <1>2, ConsumeQuestion
<1>3. CASE Select \/ UserTypes \/ ApplyClicked \/ ConnectClicked \/ DisconnectClicked
  <2>1. dialog' = "none" /\ UNCHANGED <<listVars, in>>
    BY <1>3 DEF Select, UserTypes, ApplyClicked, ConnectClicked, DisconnectClicked, Act
  <2> QED
    BY <2>1, UserQuestion
<1>4. CASE RemoveClicked \/ NewClicked
  <2>1. (dialog' = "new" \/ dialog' = current') /\ UNCHANGED <<listVars, in>>
    BY <1>4 DEF RemoveClicked, NewClicked, Act, pageVars
  <2> QED
    BY <2>1, UserQuestion
<1>5. CASE AnswerYes \/ AnswerNo
  <2>1. dialog' = "none" /\ UNCHANGED <<listVars, in>>
    BY <1>5 DEF AnswerYes, AnswerNo
  <2> QED
    BY <2>1, UserQuestion
<1>6. CASE UNCHANGED settingsVars
  <2>1. UNCHANGED <<dialog, current, indices, servers, used, in>>
    BY <1>6 DEF settingsVars, listVars, mirrorVars, pageVars
  <2> QED
    BY <2>1, CoreTells, CoreQuestion
<1>7. CASE ToClient
  <2> DEFINE m == Head(sent)
  <2>1. UNCHANGED <<dialog, current, indices>>
    BY <1>7 DEF ToClient, mirrorVars, pageVars
  <2>2. \/ m.cmd = "add" /\ AddServer(m.name)
        \/ m.cmd = "remove" /\ m.id \in DOMAIN servers /\ RemoveServer(m.id)
        \/ m.cmd = "set" /\ m.id \in DOMAIN servers /\ SetName(m.id, m.name)
        \/ UNCHANGED <<servers, used, in>>
    BY <1>7 DEF ToClient
  <2>3. m.cmd \in {"add", "set"} => m.name \in Names
    BY <1>7, SentShrinks DEF ToClient, PageInv
  <2> HIDE DEF m
  <2>4. \/ \E name \in Names : AddServer(name)
        \/ \E i \in DOMAIN servers : RemoveServer(i)
        \/ \E i \in DOMAIN servers, name \in Names : SetName(i, name)
        \/ UNCHANGED <<servers, used, in>>
    BY <2>2, <2>3
  <2> QED
    BY <2>1, <2>4, CoreTells, CoreQuestion
<1> QED
  BY <1>1, <1>2, <1>3, <1>4, <1>5, <1>6, <1>7 DEF PageNext

(* While the user thinks about a question, the server that it names is     *)
(* current or has gone for good: nothing that may still come brings it     *)
(* back (SyncableQObjectList::remove, SyncedList::consume).                *)
THEOREM QuestionCorrect == PageSpec => []QuestionInv
<1>1. PageInit => QuestionInv
  <2>1. ASSUME PageInit PROVE QuestionInv
    <3>1. in = <<>> /\ dialog = "none"
      BY <2>1 DEF PageInit
    <3>2. DOMAIN in = {}
      BY <3>1, EmptySeq
    <3> QED
      BY <3>1, <3>2, IdsAssumption DEF QuestionInv, RemovalsAreLast, QuestionHolds
  <2> QED
    BY <2>1
<1>2. PageTypeOK /\ PageInv /\ QuestionInv /\ [PageNext]_settingsVars => QuestionInv'
  BY QuestionStep
<1> QED
  BY <1>1, <1>2, PageCorrect, PTL DEF PageSpec

(* A server that a user removes is the one that his question has named, or *)
(* that one had gone before he answered, although removeClicked reads the  *)
(* current index again after the question (IRCServersPage::removeClicked). *)
THEOREM RemovesWhatItAsked == PageSpec => OthersGoOnlyAfterIt
<1>1. PageTypeOK /\ PageInv /\ QuestionInv /\ [PageNext]_settingsVars
        => [Removes => Last(sent').id = dialog \/ dialog \notin Shown]_settingsVars
  <2> SUFFICES ASSUME PageTypeOK, PageInv, QuestionInv, PageNext, Removes
               PROVE  Last(sent').id = dialog \/ dialog \notin Shown
    OBVIOUS
  <2>1. Len(sent') > Len(sent) /\ Last(sent').cmd = "remove"
    BY DEF Removes
  <2>2. CASE AnswerYes
    <3>1. dialog \in Ids \cup {"new"}
      BY <2>2 DEF AnswerYes, PageTypeOK
    <3>2. \/ dialog = "new" /\ \E name \in Names : EmitName("add", "none", name)
          \/ dialog # "new" /\ EmitMsg("remove", current)
          \/ UNCHANGED sent
      BY <2>2 DEF AnswerYes
    <3>3. dialog # "new" /\ EmitMsg("remove", current)
      BY <2>1, <3>2, EmitNameSets, NothingSent
    <3>4. Last(sent').id = current
      BY <3>3, EmitMsgSends
    <3>5. dialog = current \/ dialog \notin Shown
      BY <3>1, <3>3 DEF QuestionInv, QuestionHolds
    <3> QED
      BY <3>4, <3>5
  <2>3. CASE CoreStep \/ PageConsume \/ Select \/ UserTypes \/ RemoveClicked \/ NewClicked \/ AnswerNo
    BY <2>1, <2>3, NothingSent
       DEF CoreStep, PageConsume, Select, UserTypes, RemoveClicked, NewClicked, AnswerNo
  <2>4. CASE ToClient
    BY <2>1, <2>4, NothingSent DEF ToClient
  <2>5. CASE ConnectClicked \/ DisconnectClicked
    <3>1. EmitMsg("connect", current) \/ EmitMsg("disconnect", current)
      BY <2>5 DEF ConnectClicked, DisconnectClicked
    <3> QED
      BY <2>1, <3>1, EmitMsgSends
  <2>6. CASE ApplyClicked
    <3>1. EmitName("set", form, text) \/ UNCHANGED sent
      BY <2>6 DEF ApplyClicked, SetProperty
    <3> QED
      BY <2>1, <3>1, EmitNameSets, NothingSent
  <2> QED
    BY <2>2, <2>3, <2>4, <2>5, <2>6 DEF PageNext
<1> QED
  BY <1>1, PageCorrect, QuestionCorrect, PTL DEF PageSpec, OthersGoOnlyAfterIt
===============================================================================
