---------------------------------- MODULE Chat ----------------------------------
(***************************************************************************)
(* What is said on IRC, up to the screen: IrcServer makes lines of the     *)
(* messages of its buffers, the core sends them to a client whose monitor  *)
(* hears every channel, the ChannelModels of the chats that the user has   *)
(* opened append them to their rows, and the ChatView, which shows one of  *)
(* these models at a time, keeps its scroll bar in step with it.           *)
(*                                                                         *)
(* The view learns of rows by signals of its model, and of a new model or  *)
(* a new size by updateGeometries(), which Qt calls at once for a size and *)
(* from a timer for a model.  Lines are numbered here to tell them apart.  *)
(***************************************************************************)
EXTENDS SequencesExt

CONSTANTS
  Chats,       \* channels and queries that there are
  IrcTypes,    \* types of IRC messages; "Action" is a Private that isAction()
  MaxSaid,     \* bound on the lines of a chat, and of one message
  MaxNotices,  \* bound on the notices of unknown commands
  Widths, Heights,  \* sizes of the viewport
  LineHeight   \* height of one line of the font

ASSUME ChatAssumption ==
  /\ MaxSaid \in Nat /\ MaxNotices \in Nat
  /\ Widths \subseteq Nat /\ Heights \subseteq Nat
  /\ LineHeight \in Nat \ {0}
  /\ Chats \cap {"none", "deleted"} = {}

VARIABLES
  said,      \* of each chat: the lines that have been said so far
  notices,   \* the notices that have been sent
  connected, \* the client has its connection, and the core its subscription
  wire,      \* lines on their way to the client
  monitor,   \* rows of the MonitorModel
  rows,      \* m_messages of the ChannelModels that there are
  view,      \* the chat whose model the view has, "none", or "deleted"
  attached,  \* the view is connected to the signals of its model
  pending,   \* a layout of the view has been put off
  columns,   \* m_columnSizes
  size,      \* width and height of the viewport
  value, maximum, \* of the scroll bar
  crashed    \* the view has used a model that is gone

coreVars == <<said, notices>>
modelVars == <<connected, wire, monitor, rows>>
viewVars == <<view, attached, pending, columns, size, value, maximum>>
vars == <<coreVars, modelVars, viewVars, crashed>>

Nobody == [ch \in {} |-> <<>>]

Init ==
  /\ said = [ch \in Chats |-> 0]
  /\ notices = 0
  /\ connected = FALSE
  /\ wire = <<>> /\ monitor = <<>>
  /\ rows = Nobody
  /\ view = "none" /\ attached = FALSE /\ pending = FALSE
  /\ columns = <<>>
  /\ size \in [width : Widths, height : Heights]
  /\ value = 0 /\ maximum = 0
  /\ crashed = FALSE

-----------------------------------------------------------------------------
(* IrcMessageFormatter. *)

Special == {"Capability", "Join", "Kick", "Mode", "Nick", "Part", "Quit", "Topic"}
Notices == {"Invite", "Motd", "Notice", "Whois", "Whowas", "WhoReply", "Monitor"}

NoType == "null" \* QString()

(* Mutant: a type that ChannelModel does not know. *)
MessageTypeActions(t) ==
  CASE t \in Special -> "special"
    [] t \in Notices -> "notice"
    [] t = "Private" -> "normal"
    [] t = "Action" -> "actions"
    [] OTHER -> NoType

(* Mutant: a case label is missing. *)
MessageTypeNoMotd(t) ==
  CASE t \in Special -> "special"
    [] t \in Notices \ {"Motd"} -> "notice"
    [] t = "Private" -> "normal"
    [] t = "Action" -> "action"
    [] OTHER -> NoType

MessageType(t) ==
  CASE t \in Special -> "special"
    [] t \in Notices -> "notice"
    [] t = "Private" -> "normal"
    [] t = "Action" -> "action"
    [] OTHER -> NoType

(* The lines that a message may have: a message of the day as many as it   *)
(* has, a type that is not handled none.                                   *)
MessageContent(t) ==
  CASE t = "Motd" -> 0..MaxSaid
    [] t \in (Special \cup Notices \cup {"Private", "Action"}) \ {"Motd"} -> {1}
    [] OTHER -> {0}

-----------------------------------------------------------------------------
(* The core. *)

Broadcast(lines) == wire' = IF connected THEN wire \o lines ELSE wire

(* IrcServer::messageReceived, for the messages of the network, and for    *)
(* those that "send" has put there.                                        *)
MessageReceived ==
  \E ch \in Chats, t \in IrcTypes : \E n \in MessageContent(t) :
    /\ said[ch] + n <= MaxSaid
    /\ said' = [said EXCEPT ![ch] = @ + n]
    /\ Broadcast([i \in 1..(IF MessageType(t) = NoType THEN 0 ELSE n) |->
         [chat |-> ch, number |-> said[ch] + i, type |-> MessageType(t)]])
    /\ UNCHANGED <<notices, connected, monitor, rows, viewVars>>

(* A command that is not known is answered on its chat with a notice whose *)
(* time is a number: it cannot be read, and has number 0 here.             *)
ErrorNotice ==
  /\ notices < MaxNotices
  /\ notices' = notices + 1
  /\ \E ch \in Chats : Broadcast(<<[chat |-> ch, number |-> 0, type |-> "notice"]>>)
  /\ UNCHANGED <<said, connected, monitor, rows, viewVars>>

-----------------------------------------------------------------------------
(* The view. *)

IsLive == view \in DOMAIN rows

(* Using the model that is gone has no defined outcome; here it ends the   *)
(* program.                                                                *)
Crash ==
  /\ view = "deleted"
  /\ crashed' = TRUE
  /\ UNCHANGED <<coreVars, modelVars, viewVars>>

(* The first columns share a fifth each, the last takes what is left. *)
ColumnSizes(width) ==
  LET col == width \div 5
  IN  <<col, col, width - 2 * col>>

TotalHeight(ch, r) == Len(r[ch]) * LineHeight

RangeFor(total, height) == IF total < height THEN 0 ELSE total - height

(* Mutant: it looks at the bottom after it has moved it. *)
UpdateTotalHeightLate(ch, r, height) ==
  LET range == RangeFor(TotalHeight(ch, r), height)
      kept == IF value < range THEN value ELSE range
  IN  /\ maximum' = range
      /\ value' = IF kept = range THEN range ELSE kept

(* Every row is one line high: its hint formats a column that is not there.*)
(* setRange() takes the value along where it would be out of range.        *)
UpdateTotalHeight(ch, r, height) ==
  LET range == RangeFor(TotalHeight(ch, r), height)
  IN  /\ maximum' = range
      /\ value' = IF value = maximum \/ value > range THEN range ELSE value

(* paintEvent() draws the rows that touch the area at value v. *)
IsPainted(n, v) == v <= n * LineHeight /\ v + size.height - 1 >= (n - 1) * LineHeight

UpdateGeometries(s) ==
  \/ IsLive /\ columns' = ColumnSizes(s.width) /\ UpdateTotalHeight(view, rows, s.height)
  \/ view = "none" /\ UNCHANGED <<columns, value, maximum>>

(* Qt's timer: doItemsLayout(). *)
DoItemsLayout ==
  /\ pending
  /\ pending' = FALSE
  /\ UpdateGeometries(size)
  /\ UNCHANGED <<coreVars, modelVars, view, attached, size>>

ResizeEvent ==
  /\ \E s \in [width : Widths, height : Heights] \ {size} : size' = s
  /\ UpdateGeometries(size')
  /\ UNCHANGED <<coreVars, modelVars, view, attached, pending>>

UserScrolls ==
  /\ value' \in 0..maximum \ {value}
  /\ UNCHANGED <<coreVars, modelVars, view, attached, pending, columns, size, maximum>>

(* rowsInserted(). *)
RowsInserted(ch, r) ==
  IF view = ch /\ attached THEN UpdateTotalHeight(ch, r, size.height)
                           ELSE UNCHANGED <<value, maximum>>

(* Mutant: the columns wait for the layout. *)
SetModelOnly(ch) ==
  /\ view' = ch
  /\ attached' = (view # ch)
  /\ pending' = (pending \/ view # ch)
  /\ columns' = columns

(* ChatView::setModel.  QAbstractItemView connects the signals and asks    *)
(* for a layout, except for the model that it has already: then nothing    *)
(* undoes the disconnect() before it.                                      *)
SetModel(ch) ==
  /\ view' = ch
  /\ attached' = (view # ch)
  /\ pending' = (pending \/ view # ch)
  /\ columns' = ColumnSizes(size.width)

-----------------------------------------------------------------------------
(* The main window, its models and their connection. *)

Connect ==
  /\ ~connected
  /\ connected' = TRUE
  /\ UNCHANGED <<coreVars, wire, monitor, rows, viewVars>>

(* The models are deleted, and what is on the way is lost.  The view hears *)
(* of it by a signal of its model.                                         *)
Lost ==
  /\ connected
  /\ connected' = FALSE
  /\ wire' = <<>> /\ monitor' = <<>>
  /\ rows' = Nobody
  /\ \/ attached /\ view' = "none" /\ attached' = FALSE /\ pending' = TRUE
     \/ ~attached /\ IsLive /\ view' = "deleted" /\ UNCHANGED <<attached, pending>>
     \/ ~attached /\ ~IsLive /\ UNCHANGED <<view, attached, pending>>
  /\ UNCHANGED <<coreVars, columns, size, value, maximum>>

ChannelClicked(ch) ==
  /\ connected
  /\ view # "deleted"
  /\ rows' = IF ch \in DOMAIN rows THEN rows
             ELSE [c \in DOMAIN rows \cup {ch} |-> IF c = ch THEN <<>> ELSE rows[c]]
  /\ SetModel(ch)
  /\ UNCHANGED <<coreVars, connected, wire, monitor, size, value, maximum>>

(* Mutant: the monitor hears what no chat has taken. *)
ConsumeOnce(m) ==
  IF m.chat \in DOMAIN rows
  THEN /\ rows' = [rows EXCEPT ![m.chat] = Append(@, m)]
       /\ RowsInserted(m.chat, rows')
       /\ UNCHANGED monitor
  ELSE /\ monitor' = Append(monitor, m)
       /\ UNCHANGED <<rows, value, maximum>>

(* The chat's model comes first, the monitor next. *)
Consume(m) ==
  /\ IF m.chat \in DOMAIN rows
     THEN /\ rows' = [rows EXCEPT ![m.chat] = Append(@, m)]
          /\ RowsInserted(m.chat, rows')
     ELSE UNCHANGED <<rows, value, maximum>>
  /\ monitor' = Append(monitor, m)

(* A model that throws ends the delivery of that packet. *)
SocketDataReady ==
  /\ wire # <<>>
  /\ wire' = Tail(wire)
  /\ LET m == Head(wire)
     IN  IF m.number = 0 /\ m.chat \in DOMAIN rows
         THEN UNCHANGED <<monitor, rows, value, maximum>>
         ELSE Consume(m)
  /\ UNCHANGED <<coreVars, connected, view, attached, pending, columns, size>>

Next ==
  \/ Crash
  \/ /\ ~crashed
     /\ \/ MessageReceived \/ ErrorNotice
        \/ Connect \/ Lost \/ SocketDataReady
        \/ \E ch \in Chats : ChannelClicked(ch)
        \/ DoItemsLayout \/ ResizeEvent \/ UserScrolls
     /\ UNCHANGED crashed

Spec == Init /\ [][Next]_vars

-----------------------------------------------------------------------------
Line == [chat : Chats, number : 0..MaxSaid, type : {"normal", "notice", "special", "action"}]

TypeOK ==
  /\ said \in [Chats -> 0..MaxSaid] /\ notices \in 0..MaxNotices
  /\ connected \in BOOLEAN
  /\ wire \in Seq(Line) /\ monitor \in Seq(Line)
  /\ DOMAIN rows \subseteq Chats /\ \A ch \in DOMAIN rows : rows[ch] \in Seq(Line)
  /\ view \in DOMAIN rows \cup {"none", "deleted"}
  /\ attached \in BOOLEAN /\ (attached => IsLive)
  /\ pending \in BOOLEAN /\ crashed \in BOOLEAN
  /\ size \in [width : Widths, height : Heights]
  /\ maximum \in Nat /\ value \in 0..maximum

(* Neither a chat nor the monitor misses a line from the moment on that it *)
(* is there, or shows one twice or out of turn, although a model may throw *)
(* in the middle of a delivery: what it has and what is on the way are the *)
(* last lines that have been said (messageReceived, socketDataReady,       *)
(* ChannelModel::consume).                                                 *)
LinesOf(s, ch) == {i \in DOMAIN s : s[i].chat = ch /\ s[i].number # 0}

AreTheLast(s, ch, n) ==
  \A i \in LinesOf(s, ch) :
    /\ s[i].number <= n
    /\ \A j \in LinesOf(s, ch) : i < j => s[i].number < s[j].number
    /\ \A k \in s[i].number..n : \E j \in LinesOf(s, ch) : s[j].number = k

NoLineIsMissing ==
  \A ch \in Chats :
    /\ AreTheLast(monitor \o wire, ch, said[ch])
    /\ ch \in DOMAIN rows => AreTheLast(rows[ch] \o wire, ch, said[ch])

(* Whatever comes in between, a view that is attached to its model and has *)
(* no layout to do paints each row at some position of the scroll bar, its *)
(* last row ends where the view ends when it is scrolled to the end, and   *)
(* its columns fill its width (updateTotalHeight, updateColumnSizes,       *)
(* paintEvent).                                                            *)
RowsAreInReach ==
  IsLive =>
    /\ Len(columns) = 3 /\ columns[1] + columns[2] + columns[3] = size.width
    /\ attached /\ ~pending =>
         /\ \A n \in DOMAIN rows[view] : \E v \in 0..maximum : IsPainted(n, v)
         /\ maximum > 0 => Len(rows[view]) * LineHeight = maximum + size.height

(* A reader who is at the end of a chat stays there when lines come, when  *)
(* the window changes and when the layout is done, and one who has         *)
(* scrolled back is not moved, unless the range ends before him            *)
(* (updateTotalHeight).                                                    *)
KeepsItsPlace ==
  [][view' = view /\ attached /\ attached' /\ ~UserScrolls =>
       IF value = maximum THEN value' = maximum'
       ELSE value' = IF value < maximum' THEN value ELSE maximum']_vars
===============================================================================
