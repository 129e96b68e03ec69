----------------------------- MODULE BacklogProofs ----------------------------
(***************************************************************************)
(* The statements of SqlHelpers, for every sequence of calls; and the      *)
(* backlog that makes them, for any servers, hosts, chats and bounds.      *)
(***************************************************************************)
EXTENDS Backlog, IrcServersProofs

(* The builders that there are, over some columns and values. *)
Where(Columns, Values) == [left : Columns, right : Values]
Builders(Columns, Values, Sets) ==
  [wheres : Seq(Where(Columns, Values)), valuesToBind : Seq(Values), sets : Sets]

LEMMA BuilderFields ==
  ASSUME NEW Columns, NEW Values, NEW Sets, NEW q \in Builders(Columns, Values, Sets)
  PROVE  /\ q.wheres \in Seq(Where(Columns, Values))
         /\ q.valuesToBind \in Seq(Values)
         /\ q.sets \in Sets
BY DEF Builders

LEMMA RightsType ==
  ASSUME NEW Columns, NEW Values, NEW Sets, NEW q \in Builders(Columns, Values, Sets)
  PROVE  /\ Rights(q) \in Seq(Values)
         /\ Len(Rights(q)) = Len(q.wheres)
         /\ DOMAIN q.wheres = 1..Len(q.wheres)
         /\ \A i \in DOMAIN q.wheres : Rights(q)[i] = q.wheres[i].right
<1> DEFINE w == q.wheres
<1>1. w \in Seq(Where(Columns, Values))
  BY BuilderFields
<1>2. /\ Len(w) \in Nat
      /\ DOMAIN w = 1..Len(w)
      /\ \A i \in 1..Len(w) : w[i] \in Where(Columns, Values)
  BY <1>1, LenProperties, ElementOfSeq
<1>3. Rights(q) = [i \in 1..Len(w) |-> w[i].right]
  BY <1>2 DEF Rights
<1>4. \A i \in 1..Len(w) : w[i].right \in Values
  BY <1>2 DEF Where
<1> HIDE DEF w
<1>5. Rights(q) \in [1..Len(w) -> Values]
  BY <1>3, <1>4
<1>6. Rights(q) \in Seq(Values)
  BY <1>2, <1>5, SeqDef
<1>7. Len(Rights(q)) = Len(w)
  BY <1>2, <1>5, <1>6, LenProperties
<1> QED
  BY <1>2, <1>3, <1>6, <1>7 DEF w

(* What the calls make of a builder is a builder. *)
LEMMA WhereType ==
  ASSUME NEW Columns, NEW Values, NEW Sets, NEW q \in Builders(Columns, Values, Sets),
         NEW left \in Columns, NEW right \in Values
  PROVE  WHERE(q, left, right) \in Builders(Columns, Values, Sets)
<1> DEFINE w == Append(q.wheres, [left |-> left, right |-> right])
<1>1. [left |-> left, right |-> right] \in Where(Columns, Values)
  BY DEF Where
<1>2. w \in Seq(Where(Columns, Values))
  BY <1>1, BuilderFields
<1> HIDE DEF w
<1> QED
  BY <1>2, BuilderFields DEF WHERE, Builders, w

LEMMA CollectedType ==
  ASSUME NEW Columns, NEW Values, NEW Sets, NEW q \in Builders(Columns, Values, Sets)
  PROVE  /\ Collected(q) \in Builders(Columns, Values, Sets)
         /\ Collected(q).wheres = q.wheres
         /\ Collected(q).valuesToBind = q.valuesToBind \o Rights(q)
<1>1. q.valuesToBind \o Rights(q) \in Seq(Values)
  BY BuilderFields, RightsType
<1> QED
  BY <1>1, BuilderFields DEF Builders, Collected

(* The placeholder of a condition is bound to that condition's value,      *)
(* although prepare() never clears what it has collected: the numbers go   *)
(* on from there (ConditionalQueryBuilder::prepare, stringifyWhere).       *)
LEMMA PlaceholderIsBound ==
  ASSUME NEW Columns, NEW Values, NEW Sets, NEW q \in Builders(Columns, Values, Sets),
         NEW i \in DOMAIN q.wheres
  PROVE  LET where == StringifyWhere(q)[i]
         IN  /\ where.left = q.wheres[i].left
             /\ where.holder \in DOMAIN BindValue(q)
             /\ BindValue(q)[where.holder] = q.wheres[i].right
<1> DEFINE rights == Rights(q)
           earlier == q.valuesToBind
           values == earlier \o rights
           n == Len(earlier) + i - 1
<1>1. /\ rights \in Seq(Values) /\ earlier \in Seq(Values)
      /\ i \in 1..Len(rights) /\ rights[i] = q.wheres[i].right
  BY BuilderFields, RightsType
<1>2. StringifyWhere(q)[i] = [left |-> q.wheres[i].left, holder |-> n]
  BY DEF StringifyWhere
<1>3. BindValue(q) = [m \in 0..(Len(values) - 1) |-> values[m + 1]]
  BY CollectedType DEF BindValue
<1> HIDE DEF rights, earlier
<1>4. n \in 0..(Len(values) - 1) /\ values[n + 1] = rights[i]
  <2>1. /\ Len(values) = Len(earlier) + Len(rights)
        /\ Len(earlier) \in Nat /\ Len(rights) \in Nat
    BY <1>1, ConcatProperties, LenProperties
  <2>2. \A k \in 1..Len(rights) : values[Len(earlier) + k] = rights[k]
    <3>1. \A k \in 1..(Len(earlier) + Len(rights)) :
            values[k] = IF k <= Len(earlier) THEN earlier[k] ELSE rights[k - Len(earlier)]
      BY <1>1, ConcatProperties
    <3> HIDE DEF values
    <3> QED
      BY <2>1, <3>1
  <2> HIDE DEF values
  <2>3. n + 1 = Len(earlier) + i
    BY <1>1, <2>1
  <2>4. n \in 0..(Len(values) - 1)
    BY <1>1, <2>1
  <2> HIDE DEF n
  <2>5. values[n + 1] = rights[i]
    BY <1>1, <2>2, <2>3
  <2> QED
    BY <2>4, <2>5
<1> HIDE DEF values, n
<1>5. BindValue(q)[n] = values[n + 1]
  BY <1>3, <1>4
<1> QED
  BY <1>1, <1>2, <1>3, <1>4, <1>5

(* A SELECT finds the rows that meet all conditions that have been given,  *)
(* and the same rows when it is prepared once more.                        *)
THEOREM SelectsWhatIsAsked ==
  ASSUME NEW Columns, NEW Values, NEW Sets, NEW q \in Builders(Columns, Values, Sets),
         NEW table
  PROVE  /\ Selected(table, q) =
              {r \in DOMAIN table :
                 \A i \in DOMAIN q.wheres : table[r][q.wheres[i].left] = q.wheres[i].right}
         /\ Selected(table, Collected(q)) = Selected(table, q)
<1>1. ASSUME NEW p \in Builders(Columns, Values, Sets)
      PROVE  Selected(table, p) =
               {r \in DOMAIN table :
                  \A i \in DOMAIN p.wheres : table[r][p.wheres[i].left] = p.wheres[i].right}
  <2>1. ASSUME NEW row
        PROVE  Meets(row, p) <=>
                 \A i \in DOMAIN p.wheres : row[p.wheres[i].left] = p.wheres[i].right
    BY PlaceholderIsBound DEF Meets
  <2> QED
    BY <2>1 DEF Selected
<1>2. Collected(q) \in Builders(Columns, Values, Sets) /\ Collected(q).wheres = q.wheres
  BY CollectedType
<1>3. Selected(table, Collected(q)) =
        {r \in DOMAIN table :
           \A i \in DOMAIN Collected(q).wheres :
             table[r][Collected(q).wheres[i].left] = Collected(q).wheres[i].right}
  BY <1>1, <1>2
<1> QED
  BY <1>1, <1>2, <1>3

(* An UPDATE changes the rows that meet all of its conditions, in the       *)
(* columns that have been SET, and nothing else (UpdateQueryBuilder).       *)
THEOREM UpdatesWhatIsAsked ==
  ASSUME NEW Columns, NEW Values, NEW Sets, NEW q \in Builders(Columns, Values, Sets),
         NEW table, NEW r \in DOMAIN table
  PROVE  Updated(table, q)[r] =
           IF \A i \in DOMAIN q.wheres : table[r][q.wheres[i].left] = q.wheres[i].right
           THEN [column \in DOMAIN table[r] |->
                   IF column \in DOMAIN q.sets THEN q.sets[column] ELSE table[r][column]]
           ELSE table[r]
<1>1. Meets(table[r], q) <=>
        \A i \in DOMAIN q.wheres : table[r][q.wheres[i].left] = q.wheres[i].right
  BY PlaceholderIsBound DEF Meets
<1> QED
  BY <1>1 DEF Updated

(* An INSERT names no column twice, and each that must not be NULL but a   *)
(* key.                                                                    *)
IsWhole(table, columns) ==
  /\ \A i, j \in DOMAIN columns : columns[i] = columns[j] => i = j
  /\ \A c \in DOMAIN table : table[c].notNull =>
       table[c].key \/ \E i \in DOMAIN columns : columns[i] = table[c].name

IsGiven(row, columns, values) == \A i \in DOMAIN columns : row[columns[i]] = values[i]

(* An INSERT that gives each NOT NULL column but the key puts the row of    *)
(* its call into the table, every value in its own column, and no other     *)
(* row, if no value begins with a colon (InsertQueryBuilder::exec).         *)
THEOREM BoundIsInserted ==
  ASSUME NEW table, NEW columns, NEW values, DOMAIN values = DOMAIN columns,
         IsWhole(table, columns), IsBound(values)
  PROVE  /\ Insertions(table, columns, values) = {<<RowOf(columns, values)>>}
         /\ DOMAIN RowOf(columns, values) = Range(columns)
         /\ IsGiven(RowOf(columns, values), columns, values)
<1>1. \A name : name \in Range(columns) <=> \E i \in DOMAIN columns : columns[i] = name
  BY Zenon DEF Range
<1>2. Accepts(table, columns)
  <2> SUFFICES ASSUME NEW c \in DOMAIN table, table[c].notNull
               PROVE  table[c].key \/ table[c].name \in Range(columns)
    BY DEF Accepts
  <2>1. table[c].name \in Range(columns) <=> \E i \in DOMAIN columns : columns[i] = table[c].name
    BY <1>1
  <2> QED
    BY <2>1 DEF IsWhole
<1>3. Insertions(table, columns, values) = {<<RowOf(columns, values)>>}
  BY <1>2 DEF Insertions
<1>4. RowOf(columns, values) =
        [column \in Range(columns) |-> values[CHOOSE k \in DOMAIN columns : columns[k] = column]]
  BY DEF RowOf
<1>5. ASSUME NEW i \in DOMAIN columns
      PROVE  RowOf(columns, values)[columns[i]] = values[i]
  <2>1. columns[i] \in Range(columns)
    BY <1>1
  <2>2. (CHOOSE k \in DOMAIN columns : columns[k] = columns[i]) = i
    BY DEF IsWhole
  <2>3. RowOf(columns, values)[columns[i]] =
          values[CHOOSE k \in DOMAIN columns : columns[k] = columns[i]]
    BY <1>4, <2>1
  <2> QED
    BY <2>2, <2>3
<1> QED
  BY <1>3, <1>4, <1>5 DEF IsGiven
-----------------------------------------------------------------------------
(* What the backlog's queue holds, and its database. *)

Announcements ==
  [cmd : {"added", "item"}, row : RowType]
    \cup [cmd : {"items"}, rows : Seq(RowType)]
    \cup [cmd : {"removed"}, id : Ids]
Messages == [cmd : {"message"}, id : Ids, number : 1..MaxMessages, content : Contents]
Events == Announcements \cup Messages \cup [cmd : {"ready"}]

Records == [row : Nat \cup {AnyRow}, id : Ids, number : 1..MaxMessages]
Requests == [server : Servers, id : Ids]

BacklogTyped ==
  /\ backlog \in {"off", "joined", "registered", "ready", "looping"}
  /\ subscribed \subseteq Ids /\ told \subseteq Ids
  /\ DOMAIN mapping \subseteq Ids /\ \A id \in DOMAIN mapping : mapping[id] \in 0..Len(channels)
  /\ schema \in {"none", "unversioned", "latest", "other"}
  /\ channels \in Seq(Ids) /\ log \in Seq(Records) /\ feed \in Seq(Events)
  /\ asked \subseteq DOMAIN servers
  /\ gets \in Seq(Requests) /\ \A g \in Range(gets) : g.server \in DOMAIN servers
  /\ sent \in 0..MaxMessages /\ due \subseteq 1..sent

(* Who listens, and who does not.  ready() comes through the queue.        *)
Listening ==
  /\ process = "down" => backlog = "off" /\ asked = {} /\ gets = <<>>
  /\ following <=> backlog \in {"joined", "registered", "ready"}
  /\ ~following => told = {}
  /\ backlog \notin {"registered", "ready"} => due = {}
  /\ backlog = "registered" => \E i \in DOMAIN feed : feed[i].cmd = "ready"

(* The first row of a channel, which never changes. *)
IsFirst(table, id, row) ==
  /\ row \in DOMAIN table /\ table[row] = id
  /\ \A i \in DOMAIN table : table[i] = id => row <= i

LogIsFiled ==
  \A i \in DOMAIN log : log[i].row # AnyRow => IsFirst(channels, log[i].id, log[i].row)

IsMessage(m) == m.cmd = "message"

(* Numbers go up, in the log and then in the queue. *)
NumbersAscend ==
  /\ \A i \in DOMAIN log : log[i].number <= sent
  /\ RecordedInOrder
  /\ \A i \in DOMAIN feed : IsMessage(feed[i]) =>
       /\ feed[i].number <= sent
       /\ \A j \in DOMAIN log : log[j].number < feed[i].number
       /\ \A j \in DOMAIN feed : IsMessage(feed[j]) /\ i < j => feed[i].number < feed[j].number

(* What a message leaves in the log: one row, or those of a spliced text.  *)
Adds(m, more) ==
  /\ more \in Seq(Records)
  /\ \A k \in DOMAIN more : more[k].number = m.number
  /\ \A k, l \in DOMAIN more : k < l => more[k].row = AnyRow /\ more[l].row = AnyRow

(* When the first n of a queue have been handled, a channel is subscribed  *)
(* to: it is now, or one of them lists it, and none takes it back later.   *)
Hears(queue, now, id, n) ==
  \/ id \in now /\ \A i \in 1..n : id \notin TakenBackBy(queue[i])
  \/ \E i \in 1..n : /\ id \in ToldBy(queue[i])
                     /\ \A j \in (i + 1)..n : id \notin TakenBackBy(queue[j])

IsOpenAt(n) == backlog = "ready" \/ \E i \in 1..n : feed[i].cmd = "ready"

(* A message that is due is in the queue, and will be recorded. *)
IsComing(number) ==
  \E i \in DOMAIN feed :
    /\ IsMessage(feed[i]) /\ feed[i].number = number /\ feed[i].content \notin ColonTexts
    /\ Hears(feed, subscribed, feed[i].id, i - 1) /\ IsOpenAt(i - 1)

DueIsComing ==
  process # "crashed" =>
    /\ \A id \in told : Hears(feed, subscribed, id, Len(feed))
    /\ \A number \in due : IsComing(number)

BacklogInv ==
  BuffersInv /\ BacklogTyped /\ Listening /\ LogIsFiled /\ NumbersAscend /\ DueIsComing
-----------------------------------------------------------------------------
(* Events. *)

LEMMA EventsAreTyped ==
  ASSUME NEW m \in Events
  PROVE  /\ m.cmd \in {"ready", "added", "item", "items", "removed", "message"}
         /\ m.cmd \in {"added", "item", "items"} => Listed(m) \in Seq(Ids)
         /\ m.cmd = "removed" => m.id \in Ids
         /\ IsMessage(m) => m \in Messages
<1>1. CASE m \in [cmd : {"added", "item"}, row : RowType]
  <2>1. m.cmd \in {"added", "item"} /\ m.row.id \in Ids
    BY <1>1 DEF RowType
  <2>2. Listed(m) = <<m.row.id>>
    BY <2>1 DEF Listed
  <2> QED
    BY <2>1, <2>2 DEF IsMessage
<1>2. CASE m \in [cmd : {"items"}, rows : Seq(RowType)]
  <2>1. m.cmd = "items" /\ m.rows \in Seq(RowType)
    BY <1>2
  <2>2. DOMAIN m.rows = 1..Len(m.rows) /\ Len(m.rows) \in Nat
        /\ \A i \in 1..Len(m.rows) : m.rows[i] \in RowType
    BY <2>1, LenProperties, ElementOfSeq
  <2>3. Listed(m) = [i \in 1..Len(m.rows) |-> m.rows[i].id]
    BY <2>1, <2>2 DEF Listed
  <2>4. \A i \in 1..Len(m.rows) : m.rows[i].id \in Ids
    BY <2>2 DEF RowType
  <2>5. Listed(m) \in Seq(Ids)
    BY <2>2, <2>3, <2>4, IsASeq
  <2> QED
    BY <2>1, <2>5 DEF IsMessage
<1>3. CASE m \in [cmd : {"removed"}, id : Ids]
  BY <1>3 DEF IsMessage
<1>4. CASE m \in Messages
  <2>1. m.cmd = "message"
    BY <1>4 DEF Messages
  <2> QED
    BY <1>4, <2>1
<1>5. CASE m \in [cmd : {"ready"}]
  BY <1>5 DEF IsMessage
<1> QED
  BY <1>1, <1>2, <1>3, <1>4, <1>5 DEF Events, Announcements

LEMMA MessageFields ==
  ASSUME NEW m \in Messages
  PROVE  /\ m \in Events /\ IsMessage(m) /\ m.cmd = "message"
         /\ m.id \in Ids /\ m.number \in 1..MaxMessages /\ m.content \in Contents
         /\ ToldBy(m) = {} /\ TakenBackBy(m) = {}
BY DEF Messages, Events, IsMessage, ToldBy, TakenBackBy

LEMMA AnnouncementFields ==
  ASSUME NEW m \in Announcements
  PROVE  /\ m \in Events /\ ~IsMessage(m) /\ m.cmd # "ready"
         /\ ToldBy(m) \subseteq Ids
<1>1. m \in Events
  BY DEF Events
<1>2. m.cmd \in {"added", "item", "items", "removed"}
  BY DEF Announcements
<1>3. m.cmd \in {"added", "item", "items"} => Listed(m) \in Seq(Ids)
  BY <1>1, EventsAreTyped
<1>4. ToldBy(m) \subseteq Ids
  <2>1. CASE m.cmd = "removed"
    BY <2>1 DEF ToldBy
  <2>2. CASE m.cmd \in {"added", "item", "items"}
    <3>1. Listed(m) \in Seq(Ids)
      BY <1>3, <2>2
    <3>2. \A i \in DOMAIN Listed(m) : Listed(m)[i] \in Ids
      BY <3>1, LenProperties, ElementOfSeq
    <3> QED
      BY <2>2, <3>2 DEF ToldBy, Range
  <2> QED
    BY <1>2, <2>1, <2>2
<1> QED
  BY <1>1, <1>2, <1>4 DEF IsMessage

LEMMA ReadyFields ==
  LET m == [cmd |-> "ready"]
  IN  m \in Events /\ ~IsMessage(m) /\ ToldBy(m) = {} /\ TakenBackBy(m) = {}
BY DEF Events, IsMessage, ToldBy, TakenBackBy

(* What is heard of a channel goes on being heard, when the first event is *)
(* taken, and when another comes.                                          *)
LEMMA HeardAfterFirst ==
  ASSUME NEW S, NEW queue \in Seq(S), queue # <<>>, NEW now, NEW then, NEW id,
         NEW n \in 1..Len(queue), Hears(queue, now, id, n),
         id \in ToldBy(Head(queue)) => id \in then,
         id \in now /\ id \notin TakenBackBy(Head(queue)) => id \in then
  PROVE  Hears(Tail(queue), then, id, n - 1)
<1>1. /\ Len(queue) \in Nat \ {0} /\ Head(queue) = queue[1]
      /\ \A i \in 1..(Len(queue) - 1) : Tail(queue)[i] = queue[i + 1]
  BY HeadTailProperties, LenProperties, EmptySeq
<1>2. \A i \in 1..(n - 1) : Tail(queue)[i] = queue[i + 1] /\ i + 1 \in 1..n
  BY <1>1
<1>3. CASE id \in now /\ \A i \in 1..n : id \notin TakenBackBy(queue[i])
  <2>1. id \in then
    BY <1>1, <1>3
  <2> QED
    BY <1>2, <1>3, <2>1 DEF Hears
<1>4. ASSUME NEW i \in 1..n, id \in ToldBy(queue[i]),
             \A j \in (i + 1)..n : id \notin TakenBackBy(queue[j])
      PROVE  Hears(Tail(queue), then, id, n - 1)
  <2>1. CASE i = 1
    <3>1. id \in then
      BY <1>1, <1>4, <2>1
    <3>2. \A j \in 1..(n - 1) : id \notin TakenBackBy(Tail(queue)[j])
      BY <1>2, <1>4, <2>1
    <3> QED
      BY <3>1, <3>2 DEF Hears
  <2>2. CASE i # 1
    <3>1. i - 1 \in 1..(n - 1) /\ Tail(queue)[i - 1] = queue[i]
      BY <1>2, <2>2
    <3>2. \A j \in ((i - 1) + 1)..(n - 1) : id \notin TakenBackBy(Tail(queue)[j])
      <4> SUFFICES ASSUME NEW j \in ((i - 1) + 1)..(n - 1)
                   PROVE  id \notin TakenBackBy(Tail(queue)[j])
        OBVIOUS
      <4>1. j \in 1..(n - 1) /\ j + 1 \in (i + 1)..n
        BY <3>1
      <4> QED
        BY <1>2, <1>4, <4>1
    <3> QED
      BY <1>4, <3>1, <3>2 DEF Hears
  <2> QED
    BY <2>1, <2>2
<1> QED
  BY <1>3, <1>4 DEF Hears

LEMMA HeardAnyway ==
  ASSUME NEW S, NEW queue \in Seq(S), NEW m \in S, NEW now, NEW id,
         NEW n \in 0..Len(queue), Hears(queue, now, id, n)
  PROVE  Hears(Append(queue, m), now, id, n)
<1>1. \A i \in 1..n : Append(queue, m)[i] = queue[i]
  BY AppendProperties, LenProperties
<1>2. \A i \in 1..n : \A j \in (i + 1)..n : j \in 1..n
  OBVIOUS
<1> QED
  BY <1>1, <1>2 DEF Hears

LEMMA HeardWithLast ==
  ASSUME NEW S, NEW queue \in Seq(S), NEW m \in S, NEW now, NEW id,
         \/ id \in ToldBy(m)
         \/ id \notin TakenBackBy(m) /\ Hears(queue, now, id, Len(queue))
  PROVE  Hears(Append(queue, m), now, id, Len(Append(queue, m)))
<1> DEFINE n == Len(queue)
           more == Append(queue, m)
<1>1. /\ n \in Nat /\ Len(more) = n + 1 /\ more[n + 1] = m
      /\ \A i \in 1..n : more[i] = queue[i]
  BY AppendProperties, LenProperties
<1> HIDE DEF n, more
<1>2. CASE id \in ToldBy(m)
  <2>1. n + 1 \in 1..(n + 1) /\ ((n + 1) + 1)..(n + 1) = {}
    BY <1>1
  <2> QED
    BY <1>1, <1>2, <2>1 DEF Hears, more
<1>3. CASE id \notin TakenBackBy(m) /\ Hears(queue, now, id, n)
  <2>1. CASE id \in now /\ \A i \in 1..n : id \notin TakenBackBy(queue[i])
    <3>1. \A i \in 1..(n + 1) : id \notin TakenBackBy(more[i])
      BY <1>1, <1>3, <2>1
    <3> QED
      BY <1>1, <2>1, <3>1 DEF Hears, more
  <2>2. ASSUME NEW i \in 1..n, id \in ToldBy(queue[i]),
               \A j \in (i + 1)..n : id \notin TakenBackBy(queue[j])
        PROVE  Hears(more, now, id, n + 1)
    <3>1. i \in 1..(n + 1) /\ more[i] = queue[i]
      BY <1>1
    <3>2. \A j \in (i + 1)..(n + 1) : id \notin TakenBackBy(more[j])
      BY <1>1, <1>3, <2>2
    <3> QED
      BY <2>2, <3>1, <3>2 DEF Hears
  <2> QED
    BY <1>1, <1>3, <2>1, <2>2 DEF Hears, more
<1> QED
  BY <1>2, <1>3 DEF n
-----------------------------------------------------------------------------
(* The rows of a channel. *)

LEMMA RowsOfChannel ==
  ASSUME NEW table, NEW id
  PROVE  RowsOf(table, id) = {i \in DOMAIN table : table[i] = id}
<1> DEFINE condition == [left |-> "uuid", right |-> id]
           q == WHERE(Builder, "uuid", id)
           Types == Builders({"uuid"}, {id}, {Builder.sets})
           asTable == [i \in DOMAIN table |-> [uuid |-> table[i]]]
<1>1. Builder \in Types
  BY DEF Builder, Builders
<1>2. q \in Types
  BY <1>1, WhereType
<1>3. q.wheres = <<condition>>
  BY DEF WHERE, Builder
<1>4. DOMAIN q.wheres = {1} /\ q.wheres[1].left = "uuid" /\ q.wheres[1].right = id
  BY <1>3
<1> HIDE DEF q
<1>5. DOMAIN asTable = DOMAIN table /\ \A r \in DOMAIN table : asTable[r]["uuid"] = table[r]
  OBVIOUS
<1>6. RowsOf(table, id) = Selected(asTable, q)
  BY DEF RowsOf, q
<1> HIDE DEF asTable
<1>7. Selected(asTable, q) =
        {r \in DOMAIN asTable :
           \A i \in DOMAIN q.wheres : asTable[r][q.wheres[i].left] = q.wheres[i].right}
  BY <1>2, SelectsWhatIsAsked
<1> QED
  BY <1>4, <1>5, <1>6, <1>7

LEMMA FirstRowIsFirst ==
  ASSUME NEW S, NEW table \in Seq(S), NEW id
  PROVE  /\ FirstRow(table, id) \in 0..Len(table)
         /\ id \in Range(table) => IsFirst(table, id, FirstRow(table, id))
<1> DEFINE rows == {i \in DOMAIN table : table[i] = id}
<1>1. DOMAIN table = 1..Len(table) /\ Len(table) \in Nat
  BY LenProperties
<1>2. FirstRow(table, id) = IF rows = {} THEN 0 ELSE Min(rows)
  BY RowsOfChannel, Zenon DEF FirstRow
<1>3. rows \subseteq Nat
  BY <1>1
<1>4. ASSUME rows # {}
      PROVE  Min(rows) \in rows /\ \A i \in rows : Min(rows) <= i
  <2>1. \E x \in rows : \A y \in rows : x <= y
    BY <1>3, <1>4, LeastNumber
  <2> HIDE DEF rows
  <2>2. Min(rows) = CHOOSE x \in rows : \A y \in rows : x <= y
    BY Zenon DEF Min
  <2> QED
    BY <2>1, <2>2, Zenon
<1>5. CASE rows = {}
  BY <1>1, <1>2, <1>5 DEF Range
<1>6. CASE rows # {}
  BY <1>1, <1>2, <1>4, <1>6 DEF IsFirst
<1> QED
  BY <1>5, <1>6

LEMMA LastRowIsLast ==
  ASSUME NEW S, NEW table \in Seq(S), NEW id \in Range(table)
  PROVE  LastRow(table, id) \in DOMAIN table
<1> DEFINE n == Len(table)
           away == {n - i : i \in {k \in DOMAIN table : table[k] = id}}
<1>1. DOMAIN table = 1..n /\ n \in Nat
  BY LenProperties
<1>2. away \in SUBSET Nat /\ away # {}
  BY <1>1 DEF Range
<1>3. PICK x \in away : \A y \in away : x <= y
  BY <1>2, LeastNumber
<1>4. PICK i \in DOMAIN table : table[i] = id /\ x = n - i
  BY <1>3
<1>5. \A j \in DOMAIN table : table[j] = id => j <= i
  <2> SUFFICES ASSUME NEW j \in DOMAIN table, table[j] = id
               PROVE  j <= i
    OBVIOUS
  <2>1. n - j \in away
    OBVIOUS
  <2>2. n - i <= n - j
    BY <1>3, <1>4, <2>1
  <2> QED
    BY <1>1, <2>2
<1> QED
  BY <1>4, <1>5, Zenon DEF LastRow

LEMMA FirstStays ==
  ASSUME NEW S, NEW table \in Seq(S), NEW more \in Seq(S), NEW id, NEW row,
         IsFirst(table, id, row)
  PROVE  IsFirst(table \o more, id, row)
<1>1. /\ Len(table) \in Nat /\ Len(more) \in Nat /\ DOMAIN table = 1..Len(table)
      /\ DOMAIN (table \o more) = 1..(Len(table) + Len(more))
      /\ \A i \in 1..Len(table) : (table \o more)[i] = table[i]
  BY ConcatProperties, LenProperties
<1> QED
  BY <1>1 DEF IsFirst

(* What looking a list of channels up makes of the backlog.                *)
LEMMA CheckedIsSound ==
  ASSUME BacklogTyped, LogIsFiled, NEW ids \in Seq(Ids)
  PROVE  LET d == Checked(Here, ids)
         IN  /\ d.channels \in Seq(Ids)
             /\ d.subscribed = subscribed \cup Range(ids) /\ d.subscribed \subseteq Ids
             /\ DOMAIN d.mapping \subseteq Ids
             /\ \A id \in DOMAIN d.mapping : d.mapping[id] \in 0..Len(d.channels)
             /\ \A i \in DOMAIN log :
                  log[i].row # AnyRow => IsFirst(d.channels, log[i].id, log[i].row)
             /\ IsOpen => \A id \in Range(ids) : IsFirst(d.channels, id, d.mapping[id])
<1> DEFINE d == Checked(Here, ids)
           table == IF IsOpen THEN channels \o ids ELSE channels
           row(id) == IF IsOpen THEN FirstRow(table, id) ELSE 0
<1>1. /\ d.channels = table
      /\ d.mapping = [id \in DOMAIN mapping \cup Range(ids) |->
                        IF id \in Range(ids) THEN row(id) ELSE mapping[id]]
      /\ d.subscribed = subscribed \cup Range(ids)
  BY DEF Checked, Here
<1>2. channels \in Seq(Ids) /\ subscribed \subseteq Ids /\ DOMAIN mapping \subseteq Ids
      /\ \A id \in DOMAIN mapping : mapping[id] \in 0..Len(channels)
  BY DEF BacklogTyped
<1>3. Range(ids) \subseteq Ids
  BY LenProperties, ElementOfSeq DEF Range
<1>4. table \in Seq(Ids) /\ Len(table) \in Nat /\ Len(channels) \in Nat
      /\ Len(channels) <= Len(table)
  <2>1. CASE IsOpen
    <3>1. channels \o ids \in Seq(Ids) /\ Len(channels \o ids) = Len(channels) + Len(ids)
      BY <1>2, ConcatProperties
    <3>2. Len(channels) \in Nat /\ Len(ids) \in Nat
      BY <1>2, LenProperties
    <3> QED
      BY <2>1, <3>1, <3>2
  <2>2. CASE ~IsOpen
    BY <1>2, <2>2, LenProperties
  <2> QED
    BY <2>1, <2>2
<1>5. IsOpen => Range(ids) \subseteq Range(table)
  <2> SUFFICES ASSUME IsOpen
               PROVE  Range(ids) \subseteq Range(channels \o ids)
    OBVIOUS
  <2>1. ToSet(channels \o ids) = ToSet(channels) \cup ToSet(ids)
    BY <1>2, Concatenated
  <2>2. \A s \in Seq(Ids) : Range(s) = ToSet(s)
    BY Zenon DEF Range, ToSet
  <2> QED
    BY <1>2, <2>1, <2>2, ConcatProperties
<1>6. \A i \in DOMAIN log : log[i].row # AnyRow => IsFirst(table, log[i].id, log[i].row)
  BY <1>2, FirstStays DEF LogIsFiled
<1>7. ASSUME NEW id \in Range(ids)
      PROVE  row(id) \in 0..Len(table) /\ (IsOpen => IsFirst(table, id, row(id)))
  <2> HIDE DEF table
  <2>1. FirstRow(table, id) \in 0..Len(table)
        /\ (id \in Range(table) => IsFirst(table, id, FirstRow(table, id)))
    BY <1>4, FirstRowIsFirst
  <2> QED
    BY <1>4, <1>5, <2>1
<1> HIDE DEF d, table, row
<1>8. DOMAIN d.mapping = DOMAIN mapping \cup Range(ids)
      /\ \A id \in DOMAIN d.mapping :
           d.mapping[id] = IF id \in Range(ids) THEN row(id) ELSE mapping[id]
  BY <1>1
<1>9. \A id \in DOMAIN d.mapping : d.mapping[id] \in 0..Len(table)
  BY <1>2, <1>4, <1>7, <1>8
<1>10. IsOpen => \A id \in Range(ids) : IsFirst(table, id, d.mapping[id])
  BY <1>7, <1>8
<1> QED
  BY <1>1, <1>2, <1>3, <1>4, <1>6, <1>8, <1>9, <1>10 DEF d
-----------------------------------------------------------------------------
(* Steps of the plugin, which the backlog listens to. *)

(* A step of the backlog is none of the plugin's. *)
LEMMA OtherKeeps ==
  ASSUME BuffersInv, UNCHANGED <<servers, nextId, acts>>,
         UNCHANGED configVars \/ Crash, following' \in BOOLEAN
  PROVE  BuffersInv'
<1>1. servers' = servers /\ nextId' = nextId /\ file' = file /\ acts' = acts
  BY DEF Crash, configVars
<1>2. FileTyped
  BY DEF BuffersInv
<1>3. process' \in {"down", "up", "saving", "crashed"} /\ timer' \in BOOLEAN
      /\ missed' \in BOOLEAN
  BY <1>2 DEF Crash, configVars, FileTyped
<1>4. FileTyped'
  BY <1>1, <1>2, <1>3, Zenon DEF FileTyped
<1>5. StoredSound' /\ Stored' = Stored
  BY <1>1, SameFile DEF BuffersInv
<1>6. ServersSound' /\ Apart(servers', Stored', nextId') /\ nextId' \in 1..(MaxId + 1)
  BY <1>1, <1>5 DEF BuffersInv, ServersSound
<1> QED
  BY <1>1, <1>4, <1>5, <1>6 DEF BuffersInv

(* A message that is coming goes on coming when another event comes.       *)
LEMMA ComingStays ==
  ASSUME feed \in Seq(Events), NEW m \in Events, feed' = Append(feed, m),
         backlog' = backlog, subscribed' = subscribed,
         NEW number, IsComing(number)
  PROVE  IsComing(number)'
<1>1. /\ Len(feed) \in Nat /\ DOMAIN feed = 1..Len(feed) /\ DOMAIN feed' = 1..(Len(feed) + 1)
      /\ \A i \in 1..Len(feed) : feed'[i] = feed[i]
  BY AppendProperties, LenProperties
<1>2. PICK i \in DOMAIN feed :
        /\ IsMessage(feed[i]) /\ feed[i].number = number /\ feed[i].content \notin ColonTexts
        /\ Hears(feed, subscribed, feed[i].id, i - 1) /\ IsOpenAt(i - 1)
  BY DEF IsComing
<1>3. i \in DOMAIN feed' /\ feed'[i] = feed[i] /\ i - 1 \in 0..Len(feed)
  BY <1>1
<1>4. Hears(feed', subscribed', feed'[i].id, i - 1)
  BY <1>2, <1>3, HeardAnyway
<1>5. IsOpenAt(i - 1)'
  <2>1. \A j \in 1..(i - 1) : feed'[j] = feed[j]
    BY <1>1
  <2> QED
    BY <1>2, <2>1 DEF IsOpenAt
<1> QED
  BY <1>2, <1>3, <1>4, <1>5 DEF IsComing

(* Something that is no message is put into the queue. *)
LEMMA AppendedKeeps ==
  ASSUME BacklogTyped, Listening, LogIsFiled, NumbersAscend, DueIsComing,
         NEW m \in Events, ~IsMessage(m), ToldBy(m) \subseteq Ids,
         feed' = Append(feed, m), told' = (told \ TakenBackBy(m)) \cup ToldBy(m),
         backlog' = backlog \/ backlog = "joined", process # "crashed",
         UNCHANGED <<subscribed, channels, log, sent, due>>
  PROVE  /\ feed' \in Seq(Events) /\ told' \subseteq Ids
         /\ LogIsFiled' /\ NumbersAscend' /\ DueIsComing'
         /\ m.cmd = "ready" \/ (\E i \in DOMAIN feed : feed[i].cmd = "ready") =>
              \E i \in DOMAIN feed' : feed'[i].cmd = "ready"
<1> DEFINE n == Len(feed)
<1>1. feed \in Seq(Events) /\ told \subseteq Ids
  BY DEF BacklogTyped
<1>2. /\ feed' \in Seq(Events) /\ n \in Nat
      /\ DOMAIN feed = 1..n /\ DOMAIN feed' = 1..(n + 1) /\ Len(feed') = n + 1
      /\ feed'[n + 1] = m /\ \A i \in 1..n : feed'[i] = feed[i]
  BY <1>1, AppendProperties, LenProperties
<1> HIDE DEF n
<1>3. LogIsFiled'
  BY DEF LogIsFiled
<1>4. NumbersAscend'
  <2>1. \A i \in DOMAIN feed' : IsMessage(feed'[i]) => i \in DOMAIN feed /\ feed'[i] = feed[i]
    BY <1>2
  <2> QED
    BY <2>1 DEF NumbersAscend, RecordedInOrder
<1>5. DueIsComing'
  <2>1. ASSUME NEW id \in told'
        PROVE  Hears(feed', subscribed', id, Len(feed'))
    <3>1. id \in ToldBy(m) \/ (id \notin TakenBackBy(m) /\ Hears(feed, subscribed, id, Len(feed)))
      BY DEF DueIsComing
    <3> QED
      BY <1>1, <3>1, HeardWithLast
  <2>2. ASSUME NEW number \in due'
        PROVE  IsComing(number)'
    <3>1. number \in due /\ IsComing(number)
      BY DEF DueIsComing
    <3>2. backlog' = backlog
      BY <3>1 DEF Listening
    <3> QED
      BY <1>1, <3>1, <3>2, ComingStays
  <2> QED
    BY <2>1, <2>2 DEF DueIsComing
<1> QED
  BY <1>1, <1>2, <1>3, <1>4, <1>5

LEMMA TellKeeps ==
  ASSUME BacklogInv, BuffersInv', Tell, process # "crashed", process # "down", process' # "down",
         following' = following,
         feed' = feed \/ (following /\ \E m \in Announcements : feed' = Append(feed, m)),
         UNCHANGED <<backlog, subscribed, mapping, schema, channels, log, sent, due>>,
         asked' \subseteq DOMAIN servers',
         gets' \in Seq(Requests), \A g \in Range(gets') : g.server \in DOMAIN servers'
  PROVE  BacklogInv'
<1>1. BacklogTyped /\ Listening /\ LogIsFiled /\ NumbersAscend /\ DueIsComing
  BY DEF BacklogInv
<1>2. CASE feed' = feed
  <2>1. told' = told
    BY <1>2 DEF Tell
  <2>2. BacklogTyped'
    BY <1>1, <1>2, <2>1 DEF BacklogTyped
  <2>3. Listening'
    BY <1>1, <1>2, <2>1 DEF Listening
  <2>4. LogIsFiled' /\ NumbersAscend'
    BY <1>1, <1>2 DEF LogIsFiled, NumbersAscend, RecordedInOrder
  <2>5. DueIsComing'
    BY <1>1, <1>2, <2>1 DEF DueIsComing, IsComing, IsOpenAt
  <2> QED
    BY <2>2, <2>3, <2>4, <2>5 DEF BacklogInv
<1>3. ASSUME following, NEW m \in Announcements, feed' = Append(feed, m)
      PROVE  BacklogInv'
  <2>1. feed \in Seq(Events)
    BY <1>1 DEF BacklogTyped
  <2>2. m \in Events /\ ~IsMessage(m) /\ ToldBy(m) \subseteq Ids
    BY AnnouncementFields
  <2>3. feed' # feed /\ Last(feed') = m
    BY <1>3, <2>1, <2>2, AppendProperties, LenProperties DEF Last
  <2>4. told' = (told \ TakenBackBy(m)) \cup ToldBy(m)
    BY <2>3 DEF Tell
  <2>5. /\ feed' \in Seq(Events) /\ told' \subseteq Ids
        /\ LogIsFiled' /\ NumbersAscend' /\ DueIsComing'
        /\ (\E i \in DOMAIN feed : feed[i].cmd = "ready") =>
             \E i \in DOMAIN feed' : feed'[i].cmd = "ready"
    BY <1>1, <1>3, <2>2, <2>4, AppendedKeeps
  <2>6. BacklogTyped'
    BY <1>1, <2>5 DEF BacklogTyped
  <2>7. Listening'
    BY <1>1, <1>3, <2>5 DEF Listening
  <2> QED
    BY <2>5, <2>6, <2>7 DEF BacklogInv
<1> QED
  BY <1>2, <1>3

(* What a list announces is an announcement. *)
LEMMA SaidIsAppended ==
  ASSUME BacklogTyped, following \in BOOLEAN, NEW m \in Announcements, Say(<<m>>)
  PROVE  feed' = feed \/ (following /\ feed' = Append(feed, m))
<1>1. feed \in Seq(Events) /\ m \in Events
  BY AnnouncementFields DEF BacklogTyped
<1>2. Append(feed, m) = feed \o <<m>>
  BY <1>1, AppendIsConcat
<1> QED
  BY <1>2 DEF Say

LEMMA ItemsAreAnnounced ==
  ASSUME BuffersInv, NEW s \in DOMAIN servers
  PROVE  Items(servers[s]) \in Announcements
<1>1. servers[s].rows \in Seq(RowType)
  BY SoundParts DEF BuffersInv, ServersSound
<1> QED
  BY <1>1 DEF Items, Announcements

LEMMA ListStepTells ==
  ASSUME BuffersInv, BuffersInv', BacklogTyped, ListStep
  PROVE  /\ process = "up" /\ process' \in {"up", "crashed"} /\ following' = following
         /\ feed' = feed \/ (following /\ \E m \in Announcements : feed' = Append(feed, m))
<1> DEFINE Tells == feed' = feed \/ (following /\ \E m \in Announcements : feed' = Append(feed, m))
<1>1. following \in BOOLEAN /\ feed \in Seq(Events)
  BY DEF BuffersInv, BacklogTyped
<1>2. ASSUME NEW s \in Servers, NEW h \in Hosts, AddServer(s, h)
      PROVE  Running /\ (ScheduleSave \/ NoSave \/ Crash) /\ following' = following /\ Tells
  BY <1>2 DEF AddServer, ScheduleSave, Quiet
<1>3. ASSUME NEW s \in DOMAIN servers,
             \/ RegisterList(s) \/ RemoveServer(s) \/ \E h \in Hosts : SetHost(s, h)
             \/ \E t \in Chats : RemoveWrongRow(s, t) \/ \E u \in Chats : RenameBuffer(s, t, u)
      PROVE  Running /\ (ScheduleSave \/ NoSave \/ Crash) /\ following' = following /\ Tells
  <2>1. CASE RegisterList(s) \/ \E h \in Hosts : SetHost(s, h)
    BY <2>1 DEF RegisterList, SetHost, ScheduleSave, NoSave, Quiet
  <2>2. CASE RemoveServer(s)
    <3>1. Crash \/ ScheduleSave
      BY <2>2 DEF RemoveServer
    <3> QED
      BY <2>2, <3>1 DEF RemoveServer, ScheduleSave, Crash, Quiet
  <2>3. CASE \E t \in Chats : RemoveWrongRow(s, t) \/ \E u \in Chats : RenameBuffer(s, t, u)
    BY <2>3 DEF RemoveWrongRow, RenameBuffer, ScheduleSave, Crash, Quiet
  <2> QED
    BY <1>3, <2>1, <2>2, <2>3
<1>4. ASSUME NEW s \in DOMAIN servers, ListReady(s)
      PROVE  Running /\ (ScheduleSave \/ NoSave \/ Crash) /\ following' = following /\ Tells
  <2>1. Say(<<Items(servers[s])>>)
    BY <1>4 DEF ListReady
  <2>2. Tells
    BY <1>1, <2>1, ItemsAreAnnounced, SaidIsAppended
  <2> QED
    BY <1>4, <2>2 DEF ListReady, NoSave
<1>5. ASSUME NEW s \in DOMAIN servers, NEW t \in Chats, AddBuffer(s, t)
      PROVE  Running /\ (ScheduleSave \/ NoSave \/ Crash) /\ following' = following /\ Tells
  <2> DEFINE srv == servers[s]
             known == t \in DOMAIN srv.known
             id == IF known THEN srv.known[t] ELSE nextId
             row == Row(id, t, ParentId(srv, t))
             new == AddedBuffer(srv, t, id)
             m == [cmd |-> "added", row |-> row]
  <2>1. servers' = [servers EXCEPT ![s] = new] /\ SayFrom(srv, <<m>>) /\ ScheduleSave
        /\ following' = following
    BY <1>5, Zenon DEF AddBuffer
  <2>2. IsRecord(srv) /\ srv.rows \in Seq(RowType)
    BY SoundParts DEF BuffersInv, ServersSound
  <2>3. new.rows = Append(srv.rows, row)
    BY <2>2 DEF AddedBuffer, IsRecord, Members
  <2>4. s \in DOMAIN servers' /\ servers'[s] = new
    BY <2>1
  <2>5. \A r \in DOMAIN servers' : ServerSound(servers'[r])
    BY Zenon DEF BuffersInv, ServersSound
  <2> HIDE DEF new
  <2>6. ServerSound(new)
    BY <2>4, <2>5
  <2> HIDE DEF row, srv
  <2>7. row \in RowType
    <3>1. Append(srv.rows, row) \in Seq(RowType)
      BY <2>3, <2>6, SoundParts
    <3>2. Len(srv.rows) \in Nat /\ Len(Append(srv.rows, row)) = Len(srv.rows) + 1
          /\ Append(srv.rows, row)[Len(srv.rows) + 1] = row
      BY <2>2, AppendProperties, LenProperties
    <3>3. Len(srv.rows) + 1 \in 1..Len(Append(srv.rows, row))
      BY <3>2
    <3> QED
      BY <3>1, <3>2, <3>3, ElementOfSeq
  <2>8. m \in Announcements
    BY <2>7 DEF Announcements
  <2> HIDE DEF m
  <2>9. Tells
    <3>1. CASE srv.phase = "made"
      <4>1. Say(<<>>)
        BY <2>1, <3>1 DEF SayFrom
      <4> QED
        BY <1>1, <4>1, ConcatEmptySeq DEF Say
    <3>2. CASE srv.phase # "made"
      <4>1. Say(<<m>>)
        BY <2>1, <3>2 DEF SayFrom
      <4> QED
        BY <1>1, <2>8, <4>1, SaidIsAppended
    <3> QED
      BY <3>1, <3>2
  <2> QED
    BY <2>1, <2>9 DEF ScheduleSave
<1>6. ASSUME NEW s \in DOMAIN servers, NEW t \in Chats, RemoveBuffer(s, t)
      PROVE  Running /\ (ScheduleSave \/ NoSave \/ Crash) /\ following' = following /\ Tells
  <2> DEFINE srv == servers[s]
             m == [cmd |-> "removed", id |-> srv.buffers[t]]
  <2>1. SayFrom(srv, <<m>>) /\ ScheduleSave /\ following' = following /\ t \in DOMAIN srv.buffers
    BY <1>6, Zenon DEF RemoveBuffer
  <2>2. srv.buffers \in TitledIds
    BY SoundParts DEF BuffersInv, ServersSound
  <2>3. srv.buffers[t] \in Ids
    BY <2>1, <2>2, MapsAreTitled
  <2>4. m \in Announcements
    BY <2>3 DEF Announcements
  <2> HIDE DEF m, srv
  <2>5. Tells
    <3>1. CASE srv.phase = "made"
      <4>1. Say(<<>>)
        BY <2>1, <3>1 DEF SayFrom
      <4> QED
        BY <1>1, <4>1, ConcatEmptySeq DEF Say
    <3>2. CASE srv.phase # "made"
      <4>1. Say(<<m>>)
        BY <2>1, <3>2 DEF SayFrom
      <4> QED
        BY <1>1, <2>4, <4>1, SaidIsAppended
    <3> QED
      BY <3>1, <3>2
  <2> QED
    BY <2>1, <2>5 DEF ScheduleSave
<1> HIDE DEF Tells
<1>7. Running /\ (ScheduleSave \/ NoSave \/ Crash) /\ following' = following /\ Tells
  BY <1>2, <1>3, <1>4, <1>5, <1>6 DEF ListStep
<1> QED
  BY <1>7 DEF Tells, Running, ScheduleSave, NoSave, Crash, configVars
LEMMA PluginStepKeeps == BacklogInv /\ PluginStep => BacklogInv'
<1> SUFFICES ASSUME BacklogInv, PluginStep PROVE BacklogInv'
  OBVIOUS
<1>1. BuffersInv /\ BacklogTyped /\ Listening
  BY DEF BacklogInv
<1>2. BuffersInv'
  BY <1>1, BuffersInvNext DEF PluginStep, IrcNext, ConfigStep, ServerStep
<1>3. /\ process \notin {"down", "crashed"} /\ process' # "down" /\ following' = following
      /\ feed' = feed \/ (following /\ \E m \in Announcements : feed' = Append(feed, m))
  <2>1. CASE ListStep
    BY <1>1, <1>2, <2>1, ListStepTells
  <2>2. CASE SaveIrc \/ WriteIrc
    BY <2>2 DEF SaveIrc, WriteIrc, SaveNow, Write, Running, ircVars
  <2> QED
    BY <2>1, <2>2 DEF PluginStep
<1>4. asked' \subseteq DOMAIN servers'
  BY DEF PluginStep
<1>5. gets' \in Seq(Requests) /\ \A g \in Range(gets') : g.server \in DOMAIN servers'
  <2> DEFINE gone == {g \in Range(gets) : g.server \notin DOMAIN servers'}
  <2>1. gets' = RemoveAll(gets, gone) /\ gets \in Seq(Requests)
    BY <1>1 DEF PluginStep, BacklogTyped
  <2>2. gets' \in Seq(Requests) /\ Range(gets') = Range(gets) \ gone
    BY <2>1, RemoveAllProperties
  <2> QED
    BY <2>2
<1> QED
  BY <1>2, <1>3, <1>4, <1>5, TellKeeps DEF PluginStep

LEMMA AnswersKeep ==
  BacklogInv /\ ((\E s \in asked : AnswerList(s)) \/ AnswerGet) => BacklogInv'
<1> SUFFICES ASSUME BacklogInv, (\E s \in asked : AnswerList(s)) \/ AnswerGet
             PROVE  BacklogInv'
  OBVIOUS
<1>1. BuffersInv /\ BacklogTyped /\ Listening /\ following \in BOOLEAN
  BY DEF BacklogInv, BuffersInv
<1>2. gets \in Seq(Requests) /\ (\A g \in Range(gets) : g.server \in DOMAIN servers)
      /\ asked \subseteq DOMAIN servers
  BY <1>1 DEF BacklogTyped
<1>3. ASSUME NEW s \in asked, AnswerList(s)
      PROVE  BacklogInv'
  <2>1. /\ NoSave /\ Say(<<Items(servers[s])>>) /\ servers' = servers /\ following' = following
        /\ asked' = asked \ {s} /\ gets' = gets /\ nextId' = nextId /\ acts' = acts
    BY <1>3 DEF AnswerList
  <2>2. BuffersInv'
    BY <1>1, <2>1, OtherKeeps DEF NoSave
  <2>3. feed' = feed \/ (following /\ \E m \in Announcements : feed' = Append(feed, m))
    BY <1>1, <1>2, <2>1, ItemsAreAnnounced, SaidIsAppended
  <2>4. process = "up" /\ process' = "up"
    BY <2>1 DEF NoSave, Running, configVars
  <2> QED
    BY <1>2, <1>3, <2>1, <2>2, <2>3, <2>4, TellKeeps DEF AnswerList
<1>4. ASSUME AnswerGet
      PROVE  BacklogInv'
  <2> DEFINE g == Head(gets)
  <2>1. /\ NoSave \/ (Crash /\ feed' = feed)
        /\ NoSave => \E i \in FindIndex(servers[g.server], g.id) :
             Say(<<[cmd |-> "item", row |-> servers[g.server].rows[i]]>>)
        /\ gets # <<>> /\ gets' = Tail(gets) /\ asked' = asked
        /\ servers' = servers /\ following' = following /\ nextId' = nextId /\ acts' = acts
    BY <1>4 DEF AnswerGet, Crash, NoSave, Running, configVars
  <2>2. BuffersInv'
    BY <1>1, <2>1, OtherKeeps DEF NoSave
  <2>3. /\ g \in Range(gets) /\ gets' \in Seq(Requests) /\ Range(gets') \subseteq Range(gets)
    <3>1. /\ Len(gets) \in Nat \ {0} /\ g = gets[1] /\ gets' \in Seq(Requests)
          /\ DOMAIN gets = 1..Len(gets) /\ DOMAIN gets' = 1..(Len(gets) - 1)
          /\ \A i \in 1..(Len(gets) - 1) : gets'[i] = gets[i + 1]
      BY <1>2, <2>1, HeadTailProperties, LenProperties, EmptySeq
    <3> HIDE DEF g
    <3>2. g \in Range(gets)
      <4>1. 1 \in DOMAIN gets
        BY <3>1
      <4> QED
        BY <3>1, <4>1, Zenon DEF Range
    <3>3. \A i \in DOMAIN gets' : i + 1 \in DOMAIN gets /\ gets'[i] = gets[i + 1]
      BY <3>1
    <3>4. \A i \in DOMAIN gets' : \E j \in DOMAIN gets : gets'[i] = gets[j]
      BY <3>3, Zenon
    <3>5. Range(gets') \subseteq Range(gets)
      BY <3>4, Zenon DEF Range
    <3> QED
      BY <3>1, <3>2, <3>5
  <2>4. feed' = feed \/ (following /\ \E m \in Announcements : feed' = Append(feed, m))
    <3>1. CASE Crash /\ feed' = feed
      BY <3>1
    <3>2. CASE NoSave
      <4>1. PICK i \in FindIndex(servers[g.server], g.id) :
              Say(<<[cmd |-> "item", row |-> servers[g.server].rows[i]]>>)
        BY <2>1, <3>2
      <4> DEFINE m == [cmd |-> "item", row |-> servers[g.server].rows[i]]
      <4>2. i \in DOMAIN servers[g.server].rows
        BY <4>1 DEF FindIndex
      <4>3. servers[g.server].rows \in Seq(RowType)
        BY <1>1, <1>2, <2>3, SoundParts DEF BuffersInv, ServersSound
      <4> HIDE DEF g
      <4>4. servers[g.server].rows[i] \in RowType
        BY <4>2, <4>3, LenProperties, ElementOfSeq
      <4>5. m \in Announcements
        BY <4>4 DEF Announcements
      <4> HIDE DEF m
      <4> QED
        BY <1>1, <4>1, <4>5, SaidIsAppended DEF m
    <3> QED
      BY <2>1, <3>1, <3>2
  <2>5. process = "up" /\ process' # "down"
    BY <2>1 DEF NoSave, Crash, Running, configVars
  <2> QED
    BY <1>2, <1>4, <2>1, <2>2, <2>3, <2>4, <2>5, TellKeeps DEF AnswerGet
<1> QED
  BY <1>3, <1>4

-----------------------------------------------------------------------------
(* Starts and ends. *)

LEMMA BacklogInvInit == Init => BacklogInv
<1> SUFFICES ASSUME Init PROVE BacklogInv
  OBVIOUS
<1>1. BuffersInv
  BY BuffersInvInit DEF Init
<1>2. DOMAIN None = {} /\ Range(<<>>) = {} /\ MaxMessages \in Nat
  BY MaxAssumption DEF None, Range
<1>3. BacklogTyped
  BY <1>2 DEF BacklogTyped, Init, IrcInit
<1>4. Listening /\ LogIsFiled /\ NumbersAscend
  BY DEF Listening, LogIsFiled, NumbersAscend, RecordedInOrder, Init, IrcInit
<1>5. DueIsComing
  BY DEF DueIsComing, Init
<1> QED
  BY <1>1, <1>3, <1>4, <1>5 DEF BacklogInv

LEMMA ProcessesKeep == BacklogInv /\ (StartCore \/ EndCore) => BacklogInv'
<1> SUFFICES ASSUME BacklogInv, StartCore \/ EndCore PROVE BacklogInv'
  OBVIOUS
<1>1. BuffersInv /\ BacklogTyped /\ Listening /\ LogIsFiled /\ NumbersAscend
  BY DEF BacklogInv
<1>2. BuffersInv'
  BY <1>1, BuffersInvNext DEF StartCore, EndCore, IrcNext, ConfigStep
<1>3. CASE StartCore
  <2>1. /\ process = "down" /\ process' = "up"
        /\ UNCHANGED <<following, feed, backlog, subscribed, mapping, schema, channels, log,
                       asked, gets, sent, told, due>>
    BY <1>3 DEF StartCore, StartIrc, Start, backlogVars
  <2>2. backlog = "off" /\ asked = {} /\ gets = <<>> /\ told = {} /\ due = {}
    BY <1>1, <2>1 DEF Listening
  <2>3. BacklogTyped'
    BY <1>1, <2>1, <2>2 DEF BacklogTyped, Range
  <2>4. Listening' /\ LogIsFiled' /\ NumbersAscend'
    BY <1>1, <2>1, <2>2 DEF Listening, LogIsFiled, NumbersAscend, RecordedInOrder
  <2>5. DueIsComing'
    BY <2>1, <2>2 DEF DueIsComing
  <2> QED
    BY <1>2, <2>3, <2>4, <2>5 DEF BacklogInv
<1>4. CASE EndCore
  <2>1. /\ following' = FALSE /\ feed' = <<>> /\ backlog' = "off" /\ subscribed' = {}
        /\ mapping' = None /\ asked' = {} /\ gets' = <<>> /\ told' = {} /\ due' = {}
        /\ schema' \in {schema, "unversioned"} /\ UNCHANGED <<channels, log, sent>>
    BY <1>4 DEF EndCore, EndIrc
  <2>2. DOMAIN None = {} /\ Range(<<>>) = {}
    BY DEF None, Range
  <2>3. BacklogTyped'
    BY <1>1, <2>1, <2>2 DEF BacklogTyped
  <2>4. Listening' /\ LogIsFiled' /\ NumbersAscend'
    BY <1>1, <2>1 DEF Listening, LogIsFiled, NumbersAscend, RecordedInOrder
  <2>5. DueIsComing'
    BY <2>1 DEF DueIsComing
  <2> QED
    BY <1>2, <2>3, <2>4, <2>5 DEF BacklogInv
<1> QED
  BY <1>3, <1>4
-----------------------------------------------------------------------------
(* Steps of the backlog. *)

(* It joins the bus, is registered, or stops for good.                     *)
LEMMA JoiningKeeps ==
  BacklogInv /\ (Join \/ PostReady \/ \E opens \in BOOLEAN : ReadyLoops(opens)) => BacklogInv'
<1> SUFFICES ASSUME BacklogInv, Join \/ PostReady \/ \E opens \in BOOLEAN : ReadyLoops(opens)
             PROVE  BacklogInv'
  OBVIOUS
<1>1. BuffersInv /\ BacklogTyped /\ Listening /\ LogIsFiled /\ NumbersAscend /\ DueIsComing
      /\ following \in BOOLEAN
  BY DEF BacklogInv, BuffersInv
<1>2. /\ NoSave /\ process = "up" /\ process' = "up" /\ following' \in BOOLEAN
      /\ UNCHANGED <<servers, nextId, acts, subscribed, mapping, schema, channels, log, asked,
                     gets, sent>>
  BY <1>1 DEF Join, PostReady, ReadyLoops, NoSave, Running, configVars
<1>3. BuffersInv'
  BY <1>1, <1>2, OtherKeeps DEF NoSave
<1>4. LogIsFiled'
  BY <1>1, <1>2 DEF LogIsFiled
<1>5. CASE Join
  <2>1. backlog = "off" /\ backlog' = "joined" /\ following' = TRUE
        /\ UNCHANGED <<feed, told, due>>
    BY <1>5 DEF Join
  <2>2. told = {} /\ due = {}
    BY <1>1, <2>1 DEF Listening
  <2>3. BacklogTyped'
    BY <1>1, <1>2, <2>1 DEF BacklogTyped
  <2>4. Listening' /\ NumbersAscend'
    BY <1>1, <1>2, <2>1, <2>2 DEF Listening, NumbersAscend, RecordedInOrder
  <2>5. DueIsComing'
    BY <2>1, <2>2 DEF DueIsComing
  <2> QED
    BY <1>3, <1>4, <2>3, <2>4, <2>5 DEF BacklogInv
<1>6. CASE PostReady
  <2> DEFINE m == [cmd |-> "ready"]
  <2>1. backlog = "joined" /\ backlog' = "registered" /\ following' = following
        /\ feed' = Append(feed, m) /\ UNCHANGED <<told, due>>
    BY <1>6 DEF PostReady
  <2>2. m \in Events /\ ~IsMessage(m) /\ ToldBy(m) = {} /\ TakenBackBy(m) = {} /\ m.cmd = "ready"
    BY ReadyFields
  <2> HIDE DEF m
  <2>3. told' = (told \ TakenBackBy(m)) \cup ToldBy(m) /\ ToldBy(m) \subseteq Ids
    BY <2>1, <2>2
  <2>4. /\ feed' \in Seq(Events) /\ told' \subseteq Ids
        /\ LogIsFiled' /\ NumbersAscend' /\ DueIsComing'
        /\ \E i \in DOMAIN feed' : feed'[i].cmd = "ready"
    BY <1>1, <1>2, <2>1, <2>2, <2>3, AppendedKeeps
  <2>5. BacklogTyped'
    BY <1>1, <1>2, <2>1, <2>4 DEF BacklogTyped
  <2>6. Listening'
    BY <1>1, <1>2, <2>1, <2>4 DEF Listening
  <2> QED
    BY <1>3, <2>4, <2>5, <2>6 DEF BacklogInv
<1>7. CASE \E opens \in BOOLEAN : ReadyLoops(opens)
  <2>1. backlog' = "looping" /\ following' = FALSE /\ feed' = <<>> /\ told' = {} /\ due' = {}
    BY <1>7 DEF ReadyLoops
  <2>2. BacklogTyped'
    BY <1>1, <1>2, <2>1 DEF BacklogTyped
  <2>3. Listening' /\ NumbersAscend'
    BY <1>1, <1>2, <2>1 DEF Listening, NumbersAscend, RecordedInOrder
  <2>4. DueIsComing'
    BY <2>1 DEF DueIsComing
  <2> QED
    BY <1>3, <1>4, <2>2, <2>3, <2>4 DEF BacklogInv
<1> QED
  BY <1>5, <1>6, <1>7

(* A message that is due is recorded when its turn comes: it is on a       *)
(* channel that is subscribed to, and the database is open.                *)
LEMMA HeadIsDue ==
  ASSUME BacklogTyped, NumbersAscend, DueIsComing, process # "crashed",
         feed # <<>>, IsMessage(Head(feed)), Head(feed).number \in due
  PROVE  /\ Head(feed).content \notin ColonTexts /\ Head(feed).id \in subscribed
         /\ backlog = "ready"
<1>1. /\ feed \in Seq(Events) /\ DOMAIN feed = 1..Len(feed) /\ Len(feed) \in Nat \ {0}
      /\ Head(feed) = feed[1]
  BY HeadTailProperties, LenProperties, EmptySeq DEF BacklogTyped
<1>2. PICK i \in DOMAIN feed :
        /\ IsMessage(feed[i]) /\ feed[i].number = Head(feed).number
        /\ feed[i].content \notin ColonTexts
        /\ Hears(feed, subscribed, feed[i].id, i - 1) /\ IsOpenAt(i - 1)
  BY DEF DueIsComing, IsComing
<1>3. i = 1
  <2>1. feed[1] \in Messages
    BY <1>1, EventsAreTyped, ElementOfSeq
  <2>2. feed[1].number \in Nat
    BY <2>1, MessageFields, MaxAssumption
  <2>3. 1 < i => feed[1].number < feed[i].number
    BY <1>1, <1>2 DEF NumbersAscend
  <2> QED
    BY <1>1, <1>2, <2>2, <2>3
<1>4. 1..(i - 1) = {}
  BY <1>3
<1> QED
  BY <1>1, <1>2, <1>3, <1>4 DEF Hears, IsOpenAt

(* The first of the queue is taken. *)
LEMMA TakenKeeps ==
  ASSUME BacklogTyped, Listening, NumbersAscend, DueIsComing,
         feed # <<>>, feed' = Tail(feed), process # "crashed",
         \A id : id \in ToldBy(Head(feed)) => id \in subscribed',
         \A id \in subscribed : id \notin TakenBackBy(Head(feed)) => id \in subscribed',
         told' = told, due' \subseteq due, sent' = sent,
         process' # "crashed" /\ IsMessage(Head(feed)) => Head(feed).number \notin due',
         backlog = "ready" \/ Head(feed).cmd = "ready" => backlog' = "ready",
         \/ log' = log
         \/ /\ IsMessage(Head(feed))
            /\ \E more : Adds(Head(feed), more) /\ log' = log \o more
  PROVE  /\ feed' \in Seq(Events) /\ NumbersAscend' /\ DueIsComing'
         /\ Head(feed).cmd # "ready" /\ (\E i \in DOMAIN feed : feed[i].cmd = "ready") =>
              \E i \in DOMAIN feed' : feed'[i].cmd = "ready"
<1> DEFINE n == Len(feed)
<1>1. feed \in Seq(Events) /\ log \in Seq(Records) /\ sent \in 0..MaxMessages /\ MaxMessages \in Nat
  BY MaxAssumption DEF BacklogTyped
<1>2. /\ n \in Nat \ {0} /\ DOMAIN feed = 1..n
      /\ feed' \in Seq(Events) /\ DOMAIN feed' = 1..(n - 1) /\ Len(feed') = n - 1
      /\ Head(feed) = feed[1] /\ \A i \in 1..(n - 1) : feed'[i] = feed[i + 1]
  BY <1>1, HeadTailProperties, LenProperties, EmptySeq
<1>3. \A i \in DOMAIN feed' : i + 1 \in DOMAIN feed /\ feed'[i] = feed[i + 1] /\ 1 < i + 1
  BY <1>2
<1>4. \A i \in DOMAIN feed : i # 1 => i - 1 \in DOMAIN feed' /\ feed'[i - 1] = feed[i]
  BY <1>2
<1>5. \A i \in DOMAIN feed : IsMessage(feed[i]) => feed[i].number \in Nat
  BY <1>1, EventsAreTyped, MessageFields, LenProperties, ElementOfSeq
<1> HIDE DEF n
<1>6. NumbersAscend'
  <2>1. \A i, j \in DOMAIN feed' : i < j => i + 1 < j + 1
    BY <1>2
  <2>2. CASE log' = log
    BY <1>3, <2>1, <2>2 DEF NumbersAscend, RecordedInOrder
  <2>3. ASSUME IsMessage(Head(feed)), NEW more, Adds(Head(feed), more), log' = log \o more
        PROVE  NumbersAscend'
    <3>1. /\ Len(log) \in Nat /\ DOMAIN log = 1..Len(log)
          /\ Len(more) \in Nat /\ DOMAIN more = 1..Len(more)
          /\ DOMAIN log' = 1..(Len(log) + Len(more))
          /\ \A i \in 1..(Len(log) + Len(more)) :
               log'[i] = IF i <= Len(log) THEN log[i] ELSE more[i - Len(log)]
      BY <1>1, <2>3, ConcatProperties, LenProperties DEF Adds
    <3>2. IsMessage(feed[1]) /\ 1 \in DOMAIN feed
      BY <1>2, <2>3
    <3>3. \A i \in DOMAIN log' :
            IF i <= Len(log) THEN i \in DOMAIN log /\ log'[i] = log[i]
            ELSE i - Len(log) \in DOMAIN more /\ log'[i] = more[i - Len(log)]
      BY <3>1
    <3>4. \A k \in DOMAIN more : more[k].number = feed[1].number
      BY <1>2, <2>3 DEF Adds
    <3>5. \A i \in DOMAIN log' : log'[i].number <= sent'
      BY <3>2, <3>3, <3>4 DEF NumbersAscend
    <3>6. RecordedInOrder'
      <4> SUFFICES ASSUME NEW i \in DOMAIN log', NEW j \in DOMAIN log', i < j
                   PROVE  \/ log'[i].number < log'[j].number
                          \/ log'[i].number = log'[j].number /\ log'[i].row = AnyRow
                             /\ log'[j].row = AnyRow
        BY DEF RecordedInOrder
      <4>1. CASE j <= Len(log)
        BY <3>1, <3>3, <4>1 DEF NumbersAscend, RecordedInOrder
      <4>2. CASE i <= Len(log) /\ ~(j <= Len(log))
        BY <3>2, <3>3, <3>4, <4>2 DEF NumbersAscend
      <4>3. CASE ~(i <= Len(log)) /\ ~(j <= Len(log))
        <5>1. i - Len(log) < j - Len(log)
          BY <3>1
        <5>2. more[i - Len(log)].row = AnyRow /\ more[j - Len(log)].row = AnyRow
          BY <2>3, <3>3, <4>3, <5>1 DEF Adds
        <5> QED
          BY <3>3, <3>4, <4>3, <5>2
      <4> QED
        BY <3>1, <4>1, <4>2, <4>3
    <3>7. ASSUME NEW i \in DOMAIN feed', IsMessage(feed'[i])
          PROVE  /\ feed'[i].number <= sent'
                 /\ \A j \in DOMAIN log' : log'[j].number < feed'[i].number
                 /\ \A j \in DOMAIN feed' :
                      IsMessage(feed'[j]) /\ i < j => feed'[i].number < feed'[j].number
      BY <1>3, <2>1, <3>2, <3>3, <3>4, <3>7 DEF NumbersAscend
    <3> QED
      BY <3>5, <3>6, <3>7 DEF NumbersAscend
  <2> QED
    BY <2>2, <2>3
<1>7. DueIsComing'
  <2> SUFFICES ASSUME process' # "crashed"
               PROVE  /\ \A id \in told' : Hears(feed', subscribed', id, Len(feed'))
                      /\ \A number \in due' : IsComing(number)'
    BY DEF DueIsComing
  <2>1. ASSUME NEW id, NEW i \in 1..n, Hears(feed, subscribed, id, i)
        PROVE  Hears(feed', subscribed', id, i - 1)
    BY <1>1, <2>1, HeardAfterFirst DEF n
  <2>2. ASSUME NEW id \in told'
        PROVE  Hears(feed', subscribed', id, Len(feed'))
    <3>1. Hears(feed, subscribed, id, n) /\ n \in 1..n
      BY <1>2 DEF DueIsComing, n
    <3> QED
      BY <1>2, <2>1, <3>1
  <2>3. ASSUME NEW number \in due'
        PROVE  IsComing(number)'
    <3>1. PICK i \in DOMAIN feed :
            /\ IsMessage(feed[i]) /\ feed[i].number = number /\ feed[i].content \notin ColonTexts
            /\ Hears(feed, subscribed, feed[i].id, i - 1) /\ IsOpenAt(i - 1)
      BY <2>3 DEF DueIsComing, IsComing
    <3>2. i # 1
      BY <1>2, <2>3, <3>1
    <3>3. i - 1 \in DOMAIN feed' /\ feed'[i - 1] = feed[i] /\ i - 1 \in 1..n
      BY <1>2, <1>4, <3>2
    <3>4. Hears(feed', subscribed', feed'[i - 1].id, (i - 1) - 1)
      BY <2>1, <3>1, <3>3
    <3>5. IsOpenAt((i - 1) - 1)'
      <4>1. CASE backlog = "ready"
        BY <4>1 DEF IsOpenAt
      <4>2. ASSUME NEW j \in 1..(i - 1), feed[j].cmd = "ready"
            PROVE  IsOpenAt((i - 1) - 1)'
        <5>1. CASE j = 1
          BY <1>2, <4>2, <5>1 DEF IsOpenAt
        <5>2. CASE j # 1
          <6>1. j \in DOMAIN feed /\ j - 1 \in 1..((i - 1) - 1)
            BY <1>2, <3>3, <5>2
          <6>2. feed'[j - 1].cmd = "ready"
            BY <1>4, <4>2, <5>2, <6>1
          <6> QED
            BY <6>1, <6>2 DEF IsOpenAt
        <5> QED
          BY <5>1, <5>2
      <4> QED
        BY <3>1, <4>1, <4>2 DEF IsOpenAt
    <3> QED
      BY <3>1, <3>3, <3>4, <3>5 DEF IsComing
  <2> QED
    BY <2>2, <2>3
<1>8. ASSUME Head(feed).cmd # "ready", NEW i \in DOMAIN feed, feed[i].cmd = "ready"
      PROVE  \E j \in DOMAIN feed' : feed'[j].cmd = "ready"
  <2>1. i # 1
    BY <1>2, <1>8
  <2> QED
    BY <1>4, <1>8, <2>1
<1> QED
  BY <1>2, <1>6, <1>7, <1>8
(* The table of messages has a key and five columns that must be given. *)
Names == {"id", "channel", "source", "type", "content", "timestamp"}
Columns == [name : Names, key : BOOLEAN, notNull : BOOLEAN]

LEMMA LastIsMarked ==
  ASSUME NEW table \in Seq(Columns), NEW n \in Nat \ {0}, Len(table) = n
  PROVE  /\ PRIMARY_KEY(table) \in Seq(Columns) /\ Len(PRIMARY_KEY(table)) = n
         /\ PRIMARY_KEY(table)[n].name = table[n].name /\ PRIMARY_KEY(table)[n].key
         /\ NOT_NULL(table) \in Seq(Columns) /\ Len(NOT_NULL(table)) = n
         /\ NOT_NULL(table)[n].name = table[n].name /\ NOT_NULL(table)[n].notNull
         /\ table[n].key => NOT_NULL(table)[n].key
         /\ \A i \in 1..(n - 1) : NOT_NULL(table)[i] = table[i]
<1> DEFINE c == table[n]
           d == [c EXCEPT !.key = TRUE]
           e == [c EXCEPT !.notNull = TRUE]
           keyed == PRIMARY_KEY(table)
           needed == NOT_NULL(table)
<1>1. n \in 1..Len(table) /\ c \in Columns
  BY ElementOfSeq
<1> HIDE DEF c
<1>2. /\ d \in Columns /\ d.name = c.name /\ d.key
      /\ e \in Columns /\ e.name = c.name /\ e.notNull /\ (c.key => e.key)
  BY <1>1 DEF Columns
<1>3. keyed = [table EXCEPT ![n] = d] /\ needed = [table EXCEPT ![n] = e]
  BY DEF PRIMARY_KEY, NOT_NULL, c
<1> HIDE DEF d, e, keyed, needed
<1>4. /\ keyed \in Seq(Columns) /\ Len(keyed) = n
      /\ \A j \in 1..n : keyed[j] = IF j = n THEN d ELSE table[j]
  BY <1>1, <1>2, <1>3, ExceptSeq
<1>5. /\ needed \in Seq(Columns) /\ Len(needed) = n
      /\ \A j \in 1..n : needed[j] = IF j = n THEN e ELSE table[j]
  BY <1>1, <1>2, <1>3, ExceptSeq
<1>6. keyed[n] = d /\ needed[n] = e /\ \A i \in 1..(n - 1) : needed[i] = table[i]
  BY <1>4, <1>5
<1> QED
  BY <1>2, <1>4, <1>5, <1>6 DEF keyed, needed, c

LEMMA ColumnIsAdded ==
  ASSUME NEW table \in Seq(Columns), NEW name \in Names
  PROVE  /\ COLUMN(table, name) \in Seq(Columns) /\ Len(COLUMN(table, name)) = Len(table) + 1
         /\ COLUMN(table, name)[Len(table) + 1].name = name
         /\ \A i \in 1..Len(table) : COLUMN(table, name)[i] = table[i]
<1> DEFINE c == [name |-> name, key |-> FALSE, notNull |-> FALSE]
<1>1. c \in Columns /\ c.name = name
  BY DEF Columns
<1>2. COLUMN(table, name) = Append(table, c)
  BY DEF COLUMN
<1> HIDE DEF c
<1> QED
  BY <1>1, <1>2, AppendProperties

(* A column that must be given, after others that are as they should be. *)
Needed(table) ==
  table \in Seq(Columns) /\ \A i \in 1..Len(table) : table[i].notNull

HasMore(more, table, name) ==
  /\ Needed(more) /\ Len(more) = Len(table) + 1 /\ more[Len(table) + 1].name = name
  /\ \A i \in 1..Len(table) : more[i] = table[i]

LEMMA NeededIsAdded ==
  ASSUME NEW table, Needed(table), NEW name \in Names
  PROVE  HasMore(NOT_NULL(COLUMN(table, name)), table, name)
<1> DEFINE n == Len(table)
           m == n + 1
           a == COLUMN(table, name)
           more == NOT_NULL(a)
<1>1. /\ a \in Seq(Columns) /\ Len(a) = m /\ a[m].name = name
      /\ \A i \in 1..n : a[i] = table[i]
  BY ColumnIsAdded DEF Needed
<1>2. n \in Nat /\ m \in Nat \ {0} /\ m - 1 = n
  BY LenProperties DEF Needed
<1>3. \A i \in 1..m : i \in 1..n \/ i = m
  BY <1>2
<1> HIDE DEF a, m
<1>4. /\ more \in Seq(Columns) /\ Len(more) = m
      /\ more[m].name = a[m].name /\ more[m].notNull
      /\ \A i \in 1..n : more[i] = a[i]
  <2>1. /\ more \in Seq(Columns) /\ Len(more) = m
        /\ more[m].name = a[m].name /\ more[m].notNull
        /\ \A i \in 1..(m - 1) : more[i] = a[i]
    BY <1>1, <1>2, LastIsMarked
  <2> QED
    BY <1>2, <2>1
<1> HIDE DEF more
<1>5. \A i \in 1..n : table[i].notNull
  BY DEF Needed
<1>6. \A i \in 1..m : more[i].notNull
  BY <1>1, <1>3, <1>4, <1>5
<1> QED
  BY <1>1, <1>4, <1>6 DEF Needed, HasMore, m, a, more

LEMMA TableOfMessages ==
  /\ DOMAIN ChatMessages = 1..6
  /\ \A c \in 1..6 : ChatMessages[c].notNull
  /\ ChatMessages[1].name = "id" /\ ChatMessages[1].key
  /\ ChatMessages[2].name = "channel" /\ ChatMessages[3].name = "source"
  /\ ChatMessages[4].name = "type" /\ ChatMessages[5].name = "content"
  /\ ChatMessages[6].name = "timestamp"
<1> DEFINE none == <<>>
           id == "id"
           channel == "channel"
           source == "source"
           type == "type"
           content == "content"
           timestamp == "timestamp"
           t0 == COLUMN(none, id)
           t == PRIMARY_KEY(t0)
           t1 == NOT_NULL(t)
           t2 == NOT_NULL(COLUMN(t1, channel))
           t3 == NOT_NULL(COLUMN(t2, source))
           t4 == NOT_NULL(COLUMN(t3, type))
           t5 == NOT_NULL(COLUMN(t4, content))
           t6 == NOT_NULL(COLUMN(t5, timestamp))
<1>1. /\ id \in Names /\ channel \in Names /\ source \in Names
      /\ type \in Names /\ content \in Names /\ timestamp \in Names
  BY DEF Names
<1>2. none \in Seq(Columns) /\ Len(none) = 0
  OBVIOUS
<1> HIDE DEF none, id, channel, source, type, content, timestamp
<1>3. t0 \in Seq(Columns) /\ Len(t0) = 1 /\ t0[1].name = id
  <2>1. /\ t0 \in Seq(Columns) /\ Len(t0) = Len(none) + 1 /\ t0[Len(none) + 1].name = id
    BY <1>1, <1>2, ColumnIsAdded, Zenon DEF t0
  <2> HIDE DEF t0
  <2> QED
    BY <1>2, <2>1
<1> HIDE DEF t0
<1>4. t \in Seq(Columns) /\ Len(t) = 1 /\ t[1].name = id /\ t[1].key
  BY <1>3, LastIsMarked
<1> HIDE DEF t
<1>5. t1 \in Seq(Columns) /\ Len(t1) = 1 /\ t1[1].name = t[1].name /\ t1[1].notNull
      /\ t1[1].key
  <2>1. 1 \in Nat \ {0}
    OBVIOUS
  <2> HIDE DEF t1
  <2>2. t1 = NOT_NULL(t)
    BY DEF t1
  <2>3. /\ NOT_NULL(t) \in Seq(Columns) /\ Len(NOT_NULL(t)) = 1
        /\ NOT_NULL(t)[1].name = t[1].name /\ NOT_NULL(t)[1].notNull
        /\ t[1].key => NOT_NULL(t)[1].key
    BY <1>4, <2>1, LastIsMarked
  <2> QED
    BY <1>4, <2>2, <2>3
<1>7. ChatMessages = t6
  BY DEF ChatMessages, t, t0, none, id, channel, source, type, content, timestamp
<1> HIDE DEF t1, t2, t3, t4, t5, t6
<1>8. Needed(t1) /\ Len(t1) = 1
  BY <1>5 DEF Needed
<1>9. Needed(t2) /\ Len(t2) = 2 /\ t2[2].name = channel /\ \A i \in 1..1 : t2[i] = t1[i]
  <2>1. HasMore(t2, t1, channel)
    BY <1>1, <1>8, NeededIsAdded, Zenon DEF t2
  <2> QED
    BY <1>8, <2>1 DEF HasMore
<1>10. Needed(t3) /\ Len(t3) = 3 /\ t3[3].name = source /\ \A i \in 1..2 : t3[i] = t2[i]
  <2>1. HasMore(t3, t2, source)
    BY <1>1, <1>9, NeededIsAdded, Zenon DEF t3
  <2> QED
    BY <1>9, <2>1 DEF HasMore
<1>11. Needed(t4) /\ Len(t4) = 4 /\ t4[4].name = type /\ \A i \in 1..3 : t4[i] = t3[i]
  <2>1. HasMore(t4, t3, type)
    BY <1>1, <1>10, NeededIsAdded, Zenon DEF t4
  <2> QED
    BY <1>10, <2>1 DEF HasMore
<1>12. Needed(t5) /\ Len(t5) = 5 /\ t5[5].name = content /\ \A i \in 1..4 : t5[i] = t4[i]
  <2>1. HasMore(t5, t4, content)
    BY <1>1, <1>11, NeededIsAdded, Zenon DEF t5
  <2> QED
    BY <1>11, <2>1 DEF HasMore
<1>13. Needed(t6) /\ Len(t6) = 6 /\ t6[6].name = timestamp /\ \A i \in 1..5 : t6[i] = t5[i]
  <2>1. HasMore(t6, t5, timestamp)
    BY <1>1, <1>12, NeededIsAdded, Zenon DEF t6
  <2> QED
    BY <1>12, <2>1 DEF HasMore
<1>14. DOMAIN t6 = 1..6 /\ \A c \in 1..6 : t6[c].notNull
  BY <1>13, LenProperties DEF Needed
<1>15. t6[1] = t1[1] /\ t6[2] = t2[2] /\ t6[3] = t3[3] /\ t6[4] = t4[4] /\ t6[5] = t5[5]
  <2>1. t5[1] = t1[1]
    <3>1. t2[1] = t1[1]
      BY <1>9
    <3>2. t3[1] = t2[1] /\ t4[1] = t3[1] /\ t5[1] = t4[1]
      BY <1>10, <1>11, <1>12
    <3> QED
      BY <3>1, <3>2
  <2>2. t5[2] = t2[2]
    BY <1>10, <1>11, <1>12
  <2>3. t5[3] = t3[3] /\ t5[4] = t4[4]
    BY <1>11, <1>12
  <2> QED
    BY <1>13, <2>1, <2>2, <2>3
<1> QED
  BY <1>4, <1>5, <1>7, <1>9, <1>10, <1>11, <1>12, <1>13, <1>14, <1>15
     DEF id, channel, source, type, content, timestamp

(* A message is put into it under the row of its channel; text that begins *)
(* with a colon is put into it in any way.                                 *)
LEMMA TextIsRecorded ==
  ASSUME NEW row \in Nat, NEW content, NEW number \in Nat, content \notin ColonTexts,
         NEW rows \in Recorded(row, content, number), NEW id
  PROVE  /\ rows = <<rows[1]>>
         /\ Entry(rows[1], id, number) = [row |-> row, id |-> id, number |-> number]
<1> DEFINE columns == <<"channel", "source", "type", "content", "timestamp">>
           values == <<row, "nick", "normal", content, number>>
<1>1. DOMAIN columns = 1..5
      /\ columns[1] = "channel" /\ columns[2] = "source" /\ columns[3] = "type"
      /\ columns[4] = "content" /\ columns[5] = "timestamp"
  OBVIOUS
<1>2. /\ DOMAIN values = 1..5
      /\ values[1] = row /\ values[2] = "nick" /\ values[3] = "normal"
      /\ values[4] = content /\ values[5] = number
  OBVIOUS
<1>3. Recorded(row, content, number) = Insertions(ChatMessages, columns, values)
  BY DEF Recorded
<1> HIDE DEF columns, values
<1>4. row \notin ColonTexts /\ "nick" \notin ColonTexts /\ "normal" \notin ColonTexts
      /\ number \notin ColonTexts
  BY ColonsAssumption
<1>5. \A i \in 1..5 : i = 1 \/ i = 2 \/ i = 3 \/ i = 4 \/ i = 5
  OBVIOUS
<1>6. IsBound(values)
  BY <1>2, <1>4, <1>5 DEF IsBound
<1>7. \A c \in 1..6 : c = 1 \/ c = 2 \/ c = 3 \/ c = 4 \/ c = 5 \/ c = 6
  OBVIOUS
<1>8. IsWhole(ChatMessages, columns)
  <2>1. \A i, j \in DOMAIN columns : columns[i] = columns[j] => i = j
    BY <1>1, <1>5
  <2>2. \A c \in DOMAIN ChatMessages : ChatMessages[c].notNull =>
          ChatMessages[c].key \/ \E i \in DOMAIN columns : columns[i] = ChatMessages[c].name
    BY <1>1, <1>7, TableOfMessages
  <2> QED
    BY <2>1, <2>2 DEF IsWhole
<1>9. DOMAIN values = DOMAIN columns
  BY <1>1, <1>2
<1>10. /\ Insertions(ChatMessages, columns, values) = {<<RowOf(columns, values)>>}
       /\ DOMAIN RowOf(columns, values) = Range(columns)
       /\ \A i \in DOMAIN columns : RowOf(columns, values)[columns[i]] = values[i]
  <2>1. Insertions(ChatMessages, columns, values) = {<<RowOf(columns, values)>>}
    BY <1>6, <1>8, <1>9, BoundIsInserted
  <2>2. DOMAIN RowOf(columns, values) = Range(columns)
    BY <1>6, <1>8, <1>9, BoundIsInserted, Zenon
  <2>3. IsGiven(RowOf(columns, values), columns, values)
    BY <1>6, <1>8, <1>9, BoundIsInserted
  <2> QED
    BY <2>1, <2>2, <2>3 DEF IsGiven
<1> DEFINE r == RowOf(columns, values)
<1>11. rows = <<r>> /\ DOMAIN r = Range(columns) /\ r["channel"] = row
  BY <1>1, <1>2, <1>3, <1>10
<1> HIDE DEF r
<1>12. r # SplicedRow
  <2>1. "channel" \in DOMAIN r
    BY <1>1, <1>11 DEF Range
  <2>2. DOMAIN SplicedRow = {}
    BY DEF SplicedRow
  <2> QED
    BY <2>1, <2>2
<1> QED
  BY <1>11, <1>12 DEF Entry

LEMMA SplicedIsRecorded ==
  ASSUME NEW row, NEW content \in ColonTexts, NEW number,
         NEW rows \in Recorded(row, content, number)
  PROVE  \E n \in Nat : rows = [i \in 1..n |-> SplicedRow]
<1> DEFINE values == <<row, "nick", "normal", content, number>>
<1>1. 4 \in DOMAIN values /\ values[4] = content
  OBVIOUS
<1> HIDE DEF values
<1>2. ~IsBound(values)
  BY <1>1 DEF IsBound
<1>3. rows \in {[i \in 1..n |-> SplicedRow] : n \in 0..MaxSpliced}
  BY <1>2 DEF Recorded, Insertions, values
<1>4. \A n \in 0..MaxSpliced : n \in Nat
  BY SplicedAssumption
<1> QED
  BY <1>3, <1>4

LEMMA RowsAreAdded ==
  ASSUME NEW m \in Messages, NEW row \in Nat, NEW rows \in Recorded(row, m.content, m.number)
  PROVE  LET more == [i \in DOMAIN rows |-> Entry(rows[i], m.id, m.number)]
         IN  /\ Adds(m, more)
             /\ \A i \in DOMAIN more : more[i].row \in {AnyRow, row} /\ more[i].id = m.id
             /\ m.content \notin ColonTexts => 1 \in DOMAIN more
<1> DEFINE added == [i \in DOMAIN rows |-> Entry(rows[i], m.id, m.number)]
           entry == [row |-> row, id |-> m.id, number |-> m.number]
           any == [row |-> AnyRow, id |-> m.id, number |-> m.number]
           Fine(more) ==
             /\ Adds(m, more)
             /\ \A i \in DOMAIN more : more[i].row \in {AnyRow, row} /\ more[i].id = m.id
             /\ m.content \notin ColonTexts => 1 \in DOMAIN more
<1>1. m.id \in Ids /\ m.number \in 1..MaxMessages /\ m.number \in Nat
  BY MessageFields, MaxAssumption
<1>2. entry \in Records /\ any \in Records
  BY <1>1 DEF Records
<1>3. CASE m.content \notin ColonTexts
  <2>1. rows = <<rows[1]>> /\ Entry(rows[1], m.id, m.number) = entry
    BY <1>1, <1>3, TextIsRecorded
  <2>2. added = <<entry>>
    BY <2>1
  <2>3. Fine(<<entry>>)
    BY <1>2 DEF Adds
  <2> HIDE DEF added, Fine, entry
  <2>4. Fine(added)
    BY <2>2, <2>3
  <2> QED
    BY <2>4 DEF Fine, added
<1>4. CASE m.content \in ColonTexts
  <2>1. PICK n \in Nat : rows = [i \in 1..n |-> SplicedRow]
    BY <1>4, SplicedIsRecorded
  <2>2. Entry(SplicedRow, m.id, m.number) = any
    BY DEF Entry
  <2>3. added = [i \in 1..n |-> any]
    BY <2>1, <2>2
  <2>4. any.row = AnyRow /\ any.id = m.id /\ any.number = m.number
    OBVIOUS
  <2> HIDE DEF added, any
  <2>5. added \in Seq(Records)
    BY <1>2, <2>3, IsASeq
  <2>6. \A i \in DOMAIN added : added[i] = any
    BY <2>3
  <2>7. Fine(added)
    BY <1>4, <2>4, <2>5, <2>6 DEF Adds
  <2> HIDE DEF Fine
  <2> QED
    BY <2>7 DEF Fine, added
<1> QED
  BY <1>3, <1>4
(* What the events that are taken have in common.                          *)
LEMMA TakenIsSound ==
  ASSUME BacklogInv, NEW cmds, Take(cmds), UNCHANGED configVars \/ Crash,
         UNCHANGED <<servers, nextId, acts, following, sent, told>>,
         backlog' = (IF Head(feed).cmd = "ready" THEN "ready" ELSE backlog),
         due' \subseteq due,
         process' # "crashed" /\ IsMessage(Head(feed)) => Head(feed).number \notin due',
         \A id : id \in ToldBy(Head(feed)) => id \in subscribed',
         \A id \in subscribed : id \notin TakenBackBy(Head(feed)) => id \in subscribed',
         \/ log' = log
         \/ /\ IsMessage(Head(feed))
            /\ \E more : Adds(Head(feed), more) /\ log' = log \o more,
         subscribed' \subseteq Ids, DOMAIN mapping' \subseteq Ids,
         \A id \in DOMAIN mapping' : mapping'[id] \in 0..Len(channels'),
         schema' \in {schema, "latest"}, channels' \in Seq(Ids), asked' \subseteq DOMAIN servers',
         gets' \in Seq(Requests), \A g \in Range(gets') : g.server \in DOMAIN servers',
         LogIsFiled'
  PROVE  BacklogInv'
<1>1. BuffersInv /\ BacklogTyped /\ Listening /\ LogIsFiled /\ NumbersAscend /\ DueIsComing
      /\ following \in BOOLEAN
  BY DEF BacklogInv, BuffersInv
<1>2. /\ process = "up" /\ process' \in {"up", "crashed"} /\ feed # <<>> /\ feed' = Tail(feed)
      /\ backlog \in {"registered", "ready"}
  BY DEF Take, Running, Crash, configVars
<1>3. BuffersInv'
  BY <1>1, OtherKeeps
<1>4. /\ feed' \in Seq(Events) /\ NumbersAscend' /\ DueIsComing'
      /\ Head(feed).cmd # "ready" /\ (\E i \in DOMAIN feed : feed[i].cmd = "ready") =>
           \E i \in DOMAIN feed' : feed'[i].cmd = "ready"
  BY <1>1, <1>2, TakenKeeps
<1>5. log' \in Seq(Records)
  <2>1. log \in Seq(Records)
    BY <1>1 DEF BacklogTyped
  <2>2. \A more \in Seq(Records) : log \o more \in Seq(Records)
    BY <2>1, ConcatProperties
  <2> QED
    BY <2>1, <2>2 DEF Adds
<1>6. BacklogTyped'
  <2>1. backlog' \in {"registered", "ready"}
    BY <1>2
  <2>2. schema' \in {"none", "unversioned", "latest", "other"} /\ told \subseteq Ids
        /\ sent \in 0..MaxMessages /\ due \subseteq 1..sent
    BY <1>1 DEF BacklogTyped
  <2> QED
    BY <1>4, <1>5, <2>1, <2>2 DEF BacklogTyped
<1>7. Listening'
  <2>1. backlog' \in {"registered", "ready"} /\ process' # "down" /\ following /\ following'
    BY <1>1, <1>2 DEF Listening
  <2>2. backlog' = "registered" => \E i \in DOMAIN feed' : feed'[i].cmd = "ready"
    BY <1>1, <1>2, <1>4 DEF Listening
  <2> QED
    BY <2>1, <2>2 DEF Listening
<1> QED
  BY <1>3, <1>4, <1>6, <1>7 DEF BacklogInv

LEMMA ReadyKeeps == BacklogInv /\ Ready => BacklogInv'
<1> SUFFICES ASSUME BacklogInv, Ready PROVE BacklogInv'
  OBVIOUS
<1>1. BacklogTyped /\ LogIsFiled
  BY DEF BacklogInv
<1>2. /\ Take({"ready"}) /\ Head(feed).cmd = "ready" /\ backlog' = "ready" /\ schema' = "latest"
      /\ mapping' = [id \in Range(channels) \cup DOMAIN mapping |->
                       IF id \in Range(channels) THEN LastRow(channels, id) ELSE mapping[id]]
      /\ asked' = OnBus
      /\ UNCHANGED <<configVars, servers, nextId, acts, following, subscribed, channels, log,
                     gets, sent, told, due>>
  BY DEF Ready, Take
<1>3. ~IsMessage(Head(feed)) /\ ToldBy(Head(feed)) = {}
  BY <1>2 DEF IsMessage, ToldBy
<1>4. channels \in Seq(Ids) /\ DOMAIN mapping \subseteq Ids /\ subscribed \subseteq Ids
      /\ gets \in Seq(Requests) /\ (\A g \in Range(gets) : g.server \in DOMAIN servers)
      /\ \A id \in DOMAIN mapping : mapping[id] \in 0..Len(channels)
  BY <1>1 DEF BacklogTyped
<1>5. Range(channels) \subseteq Ids /\ DOMAIN channels = 1..Len(channels) /\ Len(channels) \in Nat
  BY <1>4, LenProperties, ElementOfSeq DEF Range
<1>6. \A id \in Range(channels) : LastRow(channels, id) \in 0..Len(channels)
  BY <1>4, <1>5, LastRowIsLast
<1>7. DOMAIN mapping' \subseteq Ids /\ \A id \in DOMAIN mapping' : mapping'[id] \in 0..Len(channels)
  BY <1>2, <1>4, <1>5, <1>6
<1>8. asked' \subseteq DOMAIN servers
  BY <1>2 DEF OnBus
<1>9. LogIsFiled'
  BY <1>1, <1>2 DEF LogIsFiled
<1> QED
  BY <1>2, <1>3, <1>4, <1>7, <1>8, <1>9, TakenIsSound

LEMMA OthersKeep == BacklogInv /\ (TakeListed \/ TakeRemoved \/ TakeOther) => BacklogInv'
<1> SUFFICES ASSUME BacklogInv, TakeListed \/ TakeRemoved \/ TakeOther PROVE BacklogInv'
  OBVIOUS
<1> DEFINE m == Head(feed)
<1>1. BacklogTyped /\ LogIsFiled /\ NumbersAscend /\ DueIsComing
  BY DEF BacklogInv
<1>2. /\ channels \in Seq(Ids) /\ DOMAIN mapping \subseteq Ids /\ subscribed \subseteq Ids
      /\ gets \in Seq(Requests) /\ (\A g \in Range(gets) : g.server \in DOMAIN servers)
      /\ \A id \in DOMAIN mapping : mapping[id] \in 0..Len(channels)
      /\ asked \subseteq DOMAIN servers /\ feed \in Seq(Events)
  BY <1>1 DEF BacklogTyped
<1>3. /\ feed # <<>> /\ process = "up"
      /\ UNCHANGED <<configVars, servers, nextId, acts, following, backlog, schema, log, asked,
                     gets, sent, told, due>>
  BY DEF TakeListed, TakeRemoved, TakeOther, Take, Running
<1>4. m \in Events
  BY <1>2, <1>3, HeadTailProperties
<1> HIDE DEF m
<1>5. CASE TakeListed
  <2>1. Take({"added", "item", "items"}) /\ m.cmd \in {"added", "item", "items"}
        /\ Become(Checked(Here, Listed(m)))
    BY <1>5 DEF TakeListed, Take, m
  <2>2. Listed(m) \in Seq(Ids) /\ ~IsMessage(m) /\ m.cmd # "ready"
        /\ ToldBy(m) = Range(Listed(m))
    BY <1>4, <2>1, EventsAreTyped DEF IsMessage, ToldBy
  <2> DEFINE d == Checked(Here, Listed(m))
  <2>3. /\ d.channels \in Seq(Ids)
        /\ d.subscribed = subscribed \cup Range(Listed(m)) /\ d.subscribed \subseteq Ids
        /\ DOMAIN d.mapping \subseteq Ids
        /\ \A id \in DOMAIN d.mapping : d.mapping[id] \in 0..Len(d.channels)
        /\ \A i \in DOMAIN log :
             log[i].row # AnyRow => IsFirst(d.channels, log[i].id, log[i].row)
    BY <1>1, <2>2, CheckedIsSound
  <2>4. channels' = d.channels /\ mapping' = d.mapping /\ subscribed' = d.subscribed
    BY <2>1 DEF Become
  <2> HIDE DEF d
  <2>5. LogIsFiled'
    BY <1>3, <2>3, <2>4 DEF LogIsFiled
  <2> QED
    BY <1>2, <1>3, <2>1, <2>2, <2>3, <2>4, <2>5, TakenIsSound DEF m
<1>6. CASE TakeRemoved
  <2>1. Take({"removed"}) /\ m.cmd = "removed" /\ subscribed' = subscribed \ {m.id}
        /\ UNCHANGED <<mapping, channels>>
    BY <1>6 DEF TakeRemoved, Take, m
  <2>2. ~IsMessage(m) /\ m.cmd # "ready" /\ ToldBy(m) = {} /\ TakenBackBy(m) = {m.id}
    BY <2>1 DEF IsMessage, ToldBy, TakenBackBy
  <2>3. LogIsFiled'
    BY <1>1, <1>3, <2>1 DEF LogIsFiled
  <2> QED
    BY <1>2, <1>3, <2>1, <2>2, <2>3, TakenIsSound DEF m
<1>7. CASE TakeOther
  <2>1. Take({"message"}) /\ m.cmd = "message" /\ m.id \notin subscribed
        /\ UNCHANGED <<mapping, channels, subscribed>>
    BY <1>7 DEF TakeOther, Take, m
  <2>2. IsMessage(m) /\ m.cmd # "ready" /\ ToldBy(m) = {}
    BY <2>1 DEF IsMessage, ToldBy
  <2>3. m.number \notin due
    BY <1>1, <1>3, <2>1, <2>2, HeadIsDue DEF m
  <2>4. LogIsFiled'
    BY <1>1, <1>3, <2>1 DEF LogIsFiled
  <2> QED
    BY <1>2, <1>3, <2>1, <2>2, <2>3, <2>4, TakenIsSound DEF m
<1> QED
  BY <1>5, <1>6, <1>7
(* A request of every list that is on the bus is typed like those before.  *)
LEMMA RequestsAreTyped ==
  ASSUME BacklogTyped, NEW asking \in SUBSET DOMAIN servers, DOMAIN servers \subseteq Servers,
         NEW id \in Ids
  PROVE  LET more == gets \o SetToSeq({[server |-> s, id |-> id] : s \in asking})
         IN  more \in Seq(Requests) /\ \A g \in Range(more) : g.server \in DOMAIN servers
<1> DEFINE new == {[server |-> s, id |-> id] : s \in asking}
           f == [s \in asking |-> [server |-> s, id |-> id]]
           order == SetToSeq(new)
<1>1. IsFiniteSet(asking)
  BY FiniteAssumption, FS_Subset
<1>2. f \in Surjection(asking, new)
  BY DEF Surjection
<1>3. new \subseteq Requests /\ \A g \in new : g.server \in DOMAIN servers
  BY DEF Requests
<1> HIDE DEF f, new
<1>4. IsFiniteSet(new)
  BY <1>1, <1>2, FS_Surjection
<1>5. order \in Seq(new) /\ Range(order) = new
  BY <1>4, SetInOrder
<1> HIDE DEF order
<1>6. order \in Seq(Requests)
  BY <1>3, <1>5, LenProperties
<1>7. gets \in Seq(Requests) /\ \A g \in Range(gets) : g.server \in DOMAIN servers
  BY DEF BacklogTyped
<1>8. gets \o order \in Seq(Requests) /\ ToSet(gets \o order) = ToSet(gets) \cup ToSet(order)
  BY <1>6, <1>7, Concatenated
<1>9. \A s : ToSet(s) = Range(s)
  BY DEF ToSet, Range
<1>10. Range(gets \o order) = Range(gets) \cup new
  BY <1>5, <1>8, <1>9
<1> QED
  BY <1>3, <1>7, <1>8, <1>10 DEF order, new

LEMMA TakeMessageKeeps == BacklogInv /\ TakeMessage => BacklogInv'
<1> SUFFICES ASSUME BacklogInv, TakeMessage PROVE BacklogInv'
  OBVIOUS
<1> DEFINE m == Head(feed)
           d == Checked(Here, <<m.id>>)
           row == d.mapping[m.id]
<1>1. BacklogTyped /\ LogIsFiled /\ NumbersAscend /\ DueIsComing /\ BuffersInv
  BY DEF BacklogInv
<1>2. /\ subscribed \subseteq Ids /\ feed \in Seq(Events) /\ asked \subseteq DOMAIN servers
      /\ log \in Seq(Records)
  BY <1>1 DEF BacklogTyped
<1>3. /\ Take({"message"}) /\ feed # <<>> /\ process = "up" /\ m.cmd = "message"
      /\ Become(d)
      /\ gets' = gets \o SetToSeq({[server |-> s, id |-> m.id] : s \in OnBus})
      /\ due' = due \ {log'[i].number : i \in DOMAIN log'}
      /\ UNCHANGED <<servers, nextId, acts, following, backlog, schema, asked, sent, told>>
  BY DEF TakeMessage, Take, Running
<1>4. \/ /\ m.content # "unreadable" /\ NoSave
         /\ IF IsOpen
            THEN \E rows \in Recorded(row, m.content, m.number) :
                   log' = log \o [i \in DOMAIN rows |-> Entry(rows[i], m.id, m.number)]
            ELSE log' = log
      \/ m.content = "unreadable" /\ Crash /\ log' = log
  BY DEF TakeMessage, Record
<1>5. m \in Messages /\ IsMessage(m) /\ m.cmd # "ready" /\ ToldBy(m) = {} /\ TakenBackBy(m) = {}
      /\ m.id \in Ids /\ m.number \in 1..MaxMessages /\ m.content \in Contents
  <2>1. m \in Events
    BY <1>2, <1>3, HeadTailProperties
  <2> HIDE DEF m
  <2>2. m \in Messages
    BY <1>3, <2>1, EventsAreTyped DEF IsMessage
  <2> QED
    BY <2>2, MessageFields
<1>6. IsMessage(m) /\ m.number \in due => /\ m.content \notin ColonTexts
                                          /\ m.id \in subscribed /\ backlog = "ready"
  BY <1>1, <1>3, HeadIsDue
<1>7. gets' \in Seq(Requests) /\ \A g \in Range(gets') : g.server \in DOMAIN servers
  <2>1. OnBus \in SUBSET DOMAIN servers /\ DOMAIN servers \subseteq Servers
    BY <1>1 DEF OnBus, BuffersInv, ServersSound
  <2> HIDE DEF m
  <2> QED
    BY <1>1, <1>3, <1>5, <2>1, RequestsAreTyped
<1> HIDE DEF m
<1>8. <<m.id>> \in Seq(Ids) /\ Range(<<m.id>>) = {m.id}
  BY <1>5 DEF Range
<1>9. /\ d.channels \in Seq(Ids)
      /\ d.subscribed = subscribed \cup {m.id} /\ d.subscribed \subseteq Ids
      /\ DOMAIN d.mapping \subseteq Ids
      /\ \A id \in DOMAIN d.mapping : d.mapping[id] \in 0..Len(d.channels)
      /\ \A i \in DOMAIN log :
           log[i].row # AnyRow => IsFirst(d.channels, log[i].id, log[i].row)
      /\ IsOpen => IsFirst(d.channels, m.id, row)
  BY <1>1, <1>8, CheckedIsSound
<1>10. channels' = d.channels /\ mapping' = d.mapping /\ subscribed' = d.subscribed
  BY <1>3 DEF Become
<1> HIDE DEF d
<1>11. IsOpen => row \in Nat
  BY <1>9, LenProperties DEF IsFirst
<1> HIDE DEF row
<1>12. MaxMessages \in Nat /\ m.number \in Nat
  BY <1>5, MaxAssumption
<1>13. \/ log' = log
       \/ /\ IsOpen
          /\ \E more :
               /\ Adds(m, more) /\ log' = log \o more
               /\ \A i \in DOMAIN more : more[i].row \in {AnyRow, row} /\ more[i].id = m.id
               /\ m.content \notin ColonTexts => 1 \in DOMAIN more
  <2> SUFFICES ASSUME IsOpen, NEW rows \in Recorded(row, m.content, m.number),
                      log' = log \o [i \in DOMAIN rows |-> Entry(rows[i], m.id, m.number)]
               PROVE  \E more :
                        /\ Adds(m, more) /\ log' = log \o more
                        /\ \A i \in DOMAIN more : more[i].row \in {AnyRow, row} /\ more[i].id = m.id
                        /\ m.content \notin ColonTexts => 1 \in DOMAIN more
    BY <1>4
  <2> DEFINE added == [i \in DOMAIN rows |-> Entry(rows[i], m.id, m.number)]
  <2>1. /\ Adds(m, added)
        /\ \A i \in DOMAIN added : added[i].row \in {AnyRow, row} /\ added[i].id = m.id
        /\ m.content \notin ColonTexts => 1 \in DOMAIN added
    BY <1>5, <1>11, RowsAreAdded
  <2>2. log' = log \o added
    OBVIOUS
  <2> HIDE DEF added
  <2> QED
    BY <2>1, <2>2
<1>14. log' = log => (process' = "crashed" \/ ~IsOpen \/ m.content \in ColonTexts)
  <2> SUFFICES ASSUME log' = log, process' # "crashed", IsOpen, m.content \notin ColonTexts
               PROVE  FALSE
    OBVIOUS
  <2>1. PICK rows \in Recorded(row, m.content, m.number) :
          log' = log \o [i \in DOMAIN rows |-> Entry(rows[i], m.id, m.number)]
    BY <1>4 DEF Crash
  <2> DEFINE more == [i \in DOMAIN rows |-> Entry(rows[i], m.id, m.number)]
  <2>2. Adds(m, more) /\ 1 \in DOMAIN more
    BY <1>5, <1>11, RowsAreAdded
  <2> HIDE DEF more
  <2>3. Len(log \o more) = Len(log) + Len(more) /\ Len(log) \in Nat /\ Len(more) \in Nat
        /\ DOMAIN more = 1..Len(more)
    BY <1>2, <2>2, ConcatProperties, LenProperties DEF Adds
  <2> QED
    BY <2>1, <2>2, <2>3 DEF more
<1>15. ASSUME NEW more, Adds(m, more), log' = log \o more
       PROVE  /\ \A i \in DOMAIN log' : \/ i \in DOMAIN log /\ log'[i] = log[i]
                                        \/ \E k \in DOMAIN more : log'[i] = more[k]
              /\ \A k \in DOMAIN more : \E i \in DOMAIN log' : log'[i] = more[k]
  <2>1. /\ Len(log) \in Nat /\ DOMAIN log = 1..Len(log)
        /\ Len(more) \in Nat /\ DOMAIN more = 1..Len(more)
        /\ DOMAIN log' = 1..(Len(log) + Len(more))
        /\ \A i \in 1..(Len(log) + Len(more)) :
             log'[i] = IF i <= Len(log) THEN log[i] ELSE more[i - Len(log)]
    BY <1>2, <1>15, ConcatProperties, LenProperties DEF Adds
  <2>2. \A i \in DOMAIN log' : ~(i <= Len(log)) => i - Len(log) \in DOMAIN more
    BY <2>1
  <2>3. \A k \in DOMAIN more : /\ k + Len(log) \in DOMAIN log' /\ ~(k + Len(log) <= Len(log))
                              /\ (k + Len(log)) - Len(log) = k
    BY <2>1
  <2>4. \A k \in DOMAIN more : log'[k + Len(log)] = more[k]
    BY <2>1, <2>3
  <2> QED
    BY <2>1, <2>2, <2>3, <2>4
<1>16. LogIsFiled'
  <2>1. CASE log' = log
    BY <1>9, <1>10, <2>1 DEF LogIsFiled
  <2>2. ASSUME IsOpen, NEW more, Adds(m, more), log' = log \o more,
               \A i \in DOMAIN more : more[i].row \in {AnyRow, row} /\ more[i].id = m.id
        PROVE  LogIsFiled'
    <3>1. \A k \in DOMAIN more :
            more[k].row # AnyRow => IsFirst(d.channels, more[k].id, more[k].row)
      BY <1>9, <2>2
    <3> QED
      BY <1>9, <1>10, <1>15, <2>2, <3>1 DEF LogIsFiled
  <2> QED
    BY <1>13, <2>1, <2>2
<1>17. due' \subseteq due
  BY <1>3
<1>18. process' # "crashed" /\ IsMessage(m) => m.number \notin due'
  <2> SUFFICES ASSUME process' # "crashed", m.number \in due
               PROVE  m.number \notin due'
    BY <1>17
  <2>1. m.content \notin ColonTexts /\ IsOpen
    BY <1>5, <1>6 DEF IsOpen
  <2>2. PICK more : Adds(m, more) /\ log' = log \o more /\ 1 \in DOMAIN more
    BY <1>13, <1>14, <2>1
  <2>3. more[1].number = m.number
    BY <2>2 DEF Adds
  <2>4. \E i \in DOMAIN log' : log'[i] = more[1]
    BY <1>15, <2>2
  <2>5. \E i \in DOMAIN log' : log'[i].number = m.number
    BY <2>3, <2>4
  <2> QED
    BY <1>3, <2>5
<1>19. \/ log' = log
       \/ IsMessage(m) /\ \E more : Adds(m, more) /\ log' = log \o more
  BY <1>5, <1>13
<1>20. UNCHANGED configVars \/ Crash
  BY <1>4 DEF NoSave
<1>21. backlog' = (IF m.cmd = "ready" THEN "ready" ELSE backlog)
       /\ schema' \in {schema, "latest"} /\ asked' \subseteq DOMAIN servers'
       /\ (\A g \in Range(gets') : g.server \in DOMAIN servers')
  BY <1>2, <1>3, <1>5, <1>7
<1>22. /\ \A id : id \in ToldBy(m) => id \in subscribed'
       /\ \A id \in subscribed : id \notin TakenBackBy(m) => id \in subscribed'
       /\ subscribed' \subseteq Ids /\ DOMAIN mapping' \subseteq Ids /\ channels' \in Seq(Ids)
       /\ \A id \in DOMAIN mapping' : mapping'[id] \in 0..Len(channels')
  BY <1>5, <1>9, <1>10
<1> QED
  BY <1>3, <1>7, <1>16, <1>17, <1>18, <1>19, <1>20, <1>21, <1>22, TakenIsSound DEF m
-----------------------------------------------------------------------------
(* A message comes from the network, or from a client.                     *)

LEMMA MessageIsQueued ==
  ASSUME BacklogTyped, Listening, NumbersAscend, DueIsComing, process # "crashed", following,
         sent < MaxMessages, sent' = sent + 1,
         NEW m \in Messages, m.number = sent + 1, feed' = Append(feed, m),
         UNCHANGED <<told, subscribed, log, backlog>>,
         due' = IF m.id \in told /\ backlog # "joined" /\ m.content \notin ColonTexts
                THEN due \cup {sent + 1} ELSE due
  PROVE  /\ feed' \in Seq(Events) /\ due' \subseteq 1..sent' /\ NumbersAscend' /\ DueIsComing'
         /\ (\E i \in DOMAIN feed : feed[i].cmd = "ready") =>
              \E i \in DOMAIN feed' : feed'[i].cmd = "ready"
<1> DEFINE n == Len(feed)
<1>1. /\ feed \in Seq(Events) /\ log \in Seq(Records) /\ sent \in 0..MaxMessages
      /\ MaxMessages \in Nat /\ due \subseteq 1..sent
  BY MaxAssumption DEF BacklogTyped
<1>2. m \in Events /\ IsMessage(m) /\ ToldBy(m) = {} /\ TakenBackBy(m) = {}
  BY MessageFields
<1>3. /\ feed' \in Seq(Events) /\ n \in Nat /\ DOMAIN feed = 1..n
      /\ DOMAIN feed' = 1..(n + 1) /\ Len(feed') = n + 1
      /\ feed'[n + 1] = m /\ \A i \in 1..n : feed'[i] = feed[i]
  BY <1>1, <1>2, AppendProperties, LenProperties
<1>4. due' \subseteq 1..sent'
  BY <1>1
<1>5. \A i \in DOMAIN feed : IsMessage(feed[i]) => feed[i].number \in Nat
  BY <1>1, EventsAreTyped, MessageFields, LenProperties, ElementOfSeq
<1>6. \A i \in DOMAIN log : log[i].number \in Nat
  <2>1. \A r \in Records : r.number \in Nat
    BY <1>1 DEF Records
  <2> QED
    BY <1>1, <2>1, LenProperties, ElementOfSeq
<1>7. DOMAIN feed' = DOMAIN feed \cup {n + 1} /\ \A i \in DOMAIN feed : i < n + 1 /\ i # n + 1
  BY <1>3
<1>8. sent \in Nat /\ sent < sent' /\ sent <= sent' /\ \A k \in Nat : k <= sent => k < sent' /\ k <= sent'
  BY <1>1
<1>9. NumbersAscend'
  <2>1. \A i \in DOMAIN log : log[i].number <= sent /\ log[i].number < sent'
    BY <1>6, <1>8 DEF NumbersAscend
  <2>2. \A i \in DOMAIN feed : IsMessage(feed[i]) => feed[i].number <= sent /\ feed[i].number < sent'
    BY <1>5, <1>8 DEF NumbersAscend
  <2>3. RecordedInOrder
    BY DEF NumbersAscend
  <2>4. \A i \in DOMAIN log : log[i].number <= sent'
    BY <1>6, <1>8, <2>1
  <2>5. ASSUME NEW i \in DOMAIN feed', IsMessage(feed'[i])
        PROVE  /\ feed'[i].number <= sent'
               /\ \A j \in DOMAIN log : log[j].number < feed'[i].number
               /\ \A j \in DOMAIN feed' : IsMessage(feed'[j]) /\ i < j =>
                    feed'[i].number < feed'[j].number
    <3>1. CASE i = n + 1
      <4>1. feed'[i].number = sent'
        BY <1>3, <3>1
      <4>2. \A j \in DOMAIN feed' : ~(i < j)
        BY <1>3, <3>1
      <4> QED
        BY <1>8, <2>1, <4>1, <4>2
    <3>2. CASE i # n + 1
      <4>1. i \in DOMAIN feed /\ feed'[i] = feed[i]
        BY <1>3, <3>2
      <4>2. feed[i].number <= sent' /\ feed[i].number < sent'
        BY <1>5, <1>8, <2>2, <2>5, <4>1
      <4>3. \A j \in DOMAIN log : log[j].number < feed[i].number
        BY <2>5, <4>1 DEF NumbersAscend
      <4>4. ASSUME NEW j \in DOMAIN feed', IsMessage(feed'[j]), i < j
            PROVE  feed[i].number < feed'[j].number
        <5>1. CASE j = n + 1
          BY <1>3, <4>2, <5>1
        <5>2. CASE j # n + 1
          <6>1. j \in DOMAIN feed /\ feed'[j] = feed[j]
            BY <1>3, <5>2
          <6> QED
            BY <2>5, <4>1, <4>4, <6>1 DEF NumbersAscend
        <5> QED
          BY <5>1, <5>2
      <4> QED
        BY <4>1, <4>2, <4>3, <4>4
    <3> QED
      BY <3>1, <3>2
  <2> QED
    BY <2>3, <2>4, <2>5 DEF NumbersAscend, RecordedInOrder
<1>10. DueIsComing'
  <2>1. ASSUME NEW id \in told'
        PROVE  Hears(feed', subscribed', id, Len(feed'))
    BY <1>1, <1>2, HeardWithLast DEF DueIsComing
  <2>2. ASSUME NEW number \in due
        PROVE  IsComing(number)'
    BY <1>1, <1>2, ComingStays DEF DueIsComing
  <2>3. ASSUME m.id \in told, backlog # "joined", m.content \notin ColonTexts
        PROVE  IsComing(m.number)'
    <3>1. Hears(feed, subscribed, m.id, Len(feed))
      BY <2>3 DEF DueIsComing
    <3>2. Len(feed) \in 0..Len(feed)
      BY <1>3 DEF n
    <3>3. Hears(feed', subscribed', m.id, n)
      BY <1>1, <1>2, <3>1, <3>2, HeardAnyway DEF n
    <3>4. n + 1 \in DOMAIN feed' /\ (n + 1) - 1 = n
      BY <1>3
    <3>5. PICK k \in DOMAIN feed' : k = n + 1 /\ feed'[k] = m /\ k - 1 = n
      BY <1>3, <3>4
    <3> HIDE DEF n
    <3>6. /\ IsMessage(feed'[k]) /\ feed'[k].number = m.number
          /\ feed'[k].content \notin ColonTexts
          /\ Hears(feed', subscribed', feed'[k].id, k - 1)
      BY <1>2, <2>3, <3>3, <3>5
    <3>7. IsOpenAt(k - 1)'
      <4>1. backlog = "ready" \/ \E i \in 1..n : feed'[i].cmd = "ready"
        BY <1>3, <2>3 DEF Listening
      <4> QED
        BY <3>5, <4>1 DEF IsOpenAt
    <3> QED
      BY <3>6, <3>7, Zenon DEF IsComing
  <2>4. ASSUME NEW number \in due'
        PROVE  number \in due \/ ( /\ number = m.number /\ m.id \in told
                                 /\ backlog # "joined" /\ m.content \notin ColonTexts)
    OBVIOUS
  <2> QED
    BY <2>1, <2>2, <2>3, <2>4 DEF DueIsComing
<1>11. (\E i \in DOMAIN feed : feed[i].cmd = "ready") =>
         \E i \in DOMAIN feed' : feed'[i].cmd = "ready"
  BY <1>3, <1>7
<1> QED
  BY <1>3, <1>4, <1>9, <1>10, <1>11

LEMMA MessageKeeps ==
  ASSUME BacklogInv, NEW s \in DOMAIN servers, NEW t \in Titles, NEW content \in Contents,
         MessageReceived(s, t, content)
  PROVE  BacklogInv'
<1> DEFINE id == servers[s].buffers[t]
           m == [cmd |-> "message", id |-> id, number |-> sent + 1, content |-> content]
<1>1. BuffersInv /\ BacklogTyped /\ Listening /\ LogIsFiled /\ NumbersAscend /\ DueIsComing
      /\ following \in BOOLEAN
  BY DEF BacklogInv, BuffersInv
<1>2. /\ NoSave /\ t \in DOMAIN servers[s].buffers /\ sent < MaxMessages /\ sent' = sent + 1
      /\ Say(<<m>>)
      /\ due' = IF id \in told /\ backlog # "joined" /\ content \notin ColonTexts
                THEN due \cup {sent + 1} ELSE due
      /\ UNCHANGED <<servers, nextId, acts, following, backlog, subscribed, mapping, schema,
                     channels, log, asked, gets, told>>
  BY DEF MessageReceived
<1>3. process = "up" /\ process' = "up" /\ UNCHANGED configVars
  BY <1>2 DEF NoSave, Running, configVars
<1>4. BuffersInv'
  BY <1>1, <1>2, <1>3, OtherKeeps
<1>5. id \in Ids
  <2>1. servers[s].buffers \in TitledIds
    BY <1>1, SoundParts DEF BuffersInv, ServersSound
  <2> QED
    BY <1>2, <2>1, MapsAreTitled
<1> HIDE DEF id
<1>6. sent \in 0..MaxMessages /\ MaxMessages \in Nat /\ sent + 1 \in 1..MaxMessages
      /\ sent' \in 0..MaxMessages
  BY <1>1, <1>2, MaxAssumption DEF BacklogTyped
<1>7. m \in Messages /\ m.id = id /\ m.number = sent + 1 /\ m.content = content
  BY <1>5, <1>6 DEF Messages
<1> HIDE DEF m
<1>8. LogIsFiled'
  BY <1>1, <1>2 DEF LogIsFiled
<1>9. CASE following
  <2>1. feed' = Append(feed, m)
    <3>1. feed \in Seq(Events) /\ m \in Events
      BY <1>1, <1>7, MessageFields DEF BacklogTyped
    <3> QED
      BY <1>2, <1>9, <3>1, AppendIsConcat DEF Say
  <2>2. /\ feed' \in Seq(Events) /\ due' \subseteq 1..sent' /\ NumbersAscend' /\ DueIsComing'
        /\ (\E i \in DOMAIN feed : feed[i].cmd = "ready") =>
             \E i \in DOMAIN feed' : feed'[i].cmd = "ready"
    BY <1>1, <1>2, <1>3, <1>7, <1>9, <2>1, MessageIsQueued
  <2>3. BacklogTyped'
    BY <1>1, <1>2, <1>6, <2>2 DEF BacklogTyped
  <2>4. Listening'
    <3>1. backlog \in {"joined", "registered", "ready"}
      BY <1>1, <1>9 DEF Listening
    <3>2. backlog = "joined" => due' = due
      BY <1>2
    <3> QED
      BY <1>1, <1>2, <1>3, <1>9, <2>2, <3>1, <3>2 DEF Listening
  <2> QED
    BY <1>4, <1>8, <2>2, <2>3, <2>4 DEF BacklogInv
<1>10. CASE ~following
  <2>1. told = {} /\ feed' = feed
    BY <1>1, <1>2, <1>10 DEF Listening, Say
  <2>2. due' = due
    BY <1>2, <2>1
  <2>3. feed \in Seq(Events) /\ log \in Seq(Records) /\ due \subseteq 1..sent
    BY <1>1 DEF BacklogTyped
  <2>4. due' \subseteq 1..sent'
    BY <1>2, <1>6, <2>2, <2>3
  <2>5. BacklogTyped'
    BY <1>1, <1>2, <1>6, <2>1, <2>4 DEF BacklogTyped
  <2>6. Listening'
    BY <1>1, <1>2, <1>3, <2>1, <2>2 DEF Listening
  <2>7. NumbersAscend'
    <3>1. \A i \in DOMAIN feed : IsMessage(feed[i]) => feed[i].number \in Nat
      BY <1>6, <2>3, EventsAreTyped, MessageFields, LenProperties, ElementOfSeq
    <3>2. \A i \in DOMAIN log : log[i].number \in Nat
      <4>1. \A r \in Records : r.number \in Nat
        BY <1>6 DEF Records
      <4> QED
        BY <2>3, <4>1, LenProperties, ElementOfSeq
    <3>3. \A k \in Nat : k <= sent => k <= sent'
      BY <1>2, <1>6
    <3> QED
      BY <1>1, <1>2, <2>1, <3>1, <3>2, <3>3 DEF NumbersAscend, RecordedInOrder
  <2>8. DueIsComing'
    BY <1>1, <1>2, <1>3, <2>1, <2>2 DEF DueIsComing, IsComing, IsOpenAt
  <2> QED
    BY <1>4, <1>8, <2>5, <2>6, <2>7, <2>8 DEF BacklogInv
<1> QED
  BY <1>1, <1>9, <1>10
-----------------------------------------------------------------------------
(* The invariant, and what follows from it. *)

LEMMA BacklogInvNext == BacklogInv /\ [Next]_vars => BacklogInv'
<1> SUFFICES ASSUME BacklogInv, [Next]_vars PROVE BacklogInv'
  OBVIOUS
<1>1. CASE StartCore \/ EndCore
  BY <1>1, ProcessesKeep
<1>2. CASE PluginStep
  BY <1>2, PluginStepKeeps
<1>3. CASE Join \/ PostReady \/ \E opens \in BOOLEAN : ReadyLoops(opens)
  BY <1>3, JoiningKeeps
<1>4. CASE Ready
  BY <1>4, ReadyKeeps
<1>5. CASE TakeListed \/ TakeRemoved \/ TakeOther
  BY <1>5, OthersKeep
<1>6. CASE TakeMessage
  BY <1>6, TakeMessageKeeps
<1>7. CASE \E s \in DOMAIN servers, t \in Titles, content \in Contents :
             MessageReceived(s, t, content)
  BY <1>7, MessageKeeps
<1>8. CASE (\E s \in asked : AnswerList(s)) \/ AnswerGet
  BY <1>8, AnswersKeep
<1>9. CASE UNCHANGED vars
  <2>1. UNCHANGED <<configVars, servers, nextId, acts, following, feed, backlogVars>>
    BY <1>9 DEF vars, allVars, ircVars
  <2>2. BuffersInv'
    BY <2>1, OtherKeeps DEF BacklogInv, BuffersInv
  <2>3. BacklogTyped' /\ Listening'
    BY <2>1 DEF BacklogInv, BacklogTyped, Listening, configVars, backlogVars
  <2>4. LogIsFiled' /\ NumbersAscend'
    BY <2>1 DEF BacklogInv, LogIsFiled, NumbersAscend, RecordedInOrder, backlogVars
  <2>5. DueIsComing'
    BY <2>1 DEF BacklogInv, DueIsComing, IsComing, IsOpenAt, configVars, backlogVars
  <2> QED
    BY <2>2, <2>3, <2>4, <2>5 DEF BacklogInv
<1> QED
  BY <1>1, <1>2, <1>3, <1>4, <1>5, <1>6, <1>7, <1>8, <1>9 DEF Next

LEMMA BacklogInvHolds == Spec => []BacklogInv
<1> QED
  BY BacklogInvInit, BacklogInvNext, PTL DEF Spec

(* The tables, the mapping and what is on its way are of their types: a row *)
(* that is written into chat_messages is one of chat_channels, and a        *)
(* request is one of a server that there is (BacklogClientConnection).      *)
THEOREM BacklogTypesHold == Spec => []TypeOK
<1>1. BacklogInv => TypeOK
  <2> SUFFICES ASSUME BacklogInv PROVE TypeOK
    OBVIOUS
  <2>1. BacklogTyped /\ LogIsFiled
    BY DEF BacklogInv
  <2>2. log \in Seq(Records) /\ gets \in Seq(Requests)
        /\ \A g \in Range(gets) : g.server \in DOMAIN servers
    BY <2>1 DEF BacklogTyped
  <2>3. \A i \in DOMAIN log : log[i].id \in Ids /\ log[i].number \in 1..MaxMessages
    <3>1. \A r \in Records : r.id \in Ids /\ r.number \in 1..MaxMessages
      BY DEF Records
    <3> QED
      BY <2>2, <3>1, LenProperties, ElementOfSeq
  <2>4. \A i \in DOMAIN log : log[i].row \in DOMAIN channels \cup {AnyRow}
    BY <2>1 DEF LogIsFiled, IsFirst
  <2>5. \A i \in DOMAIN gets : gets[i].server \in DOMAIN servers
    BY <2>2 DEF Range
  <2> QED
    BY <2>1, <2>3, <2>4, <2>5 DEF BacklogTyped, TypeOK
<1> QED
  BY <1>1, BacklogInvHolds, PTL

(* The messages of a channel are all under one row of chat_channels and     *)
(* those of two channels never under the same, however often the row is     *)
(* inserted again (BacklogClientConnection::toClient and check); only what  *)
(* text that begins with a colon has made of its own INSERT is under a row  *)
(* that nothing is said of (InsertQueryBuilder::stringify).                 *)
THEOREM ChannelsHaveOneRow == Spec => []OneRowPerChannel
<1>1. BacklogInv => OneRowPerChannel
  <2> SUFFICES ASSUME BacklogInv, NEW i \in DOMAIN log, NEW j \in DOMAIN log,
                      log[i].row # AnyRow, log[j].row # AnyRow
               PROVE  log[i].id = log[j].id <=> log[i].row = log[j].row
    BY DEF OneRowPerChannel
  <2>1. IsFirst(channels, log[i].id, log[i].row) /\ IsFirst(channels, log[j].id, log[j].row)
        /\ channels \in Seq(Ids)
    BY DEF BacklogInv, LogIsFiled, BacklogTyped
  <2>2. DOMAIN channels = 1..Len(channels) /\ Len(channels) \in Nat
    BY <2>1, LenProperties
  <2> QED
    BY <2>1, <2>2 DEF IsFirst
<1> QED
  BY <1>1, BacklogInvHolds, PTL

(* What is recorded is in the order in which it was sent, and nothing is    *)
(* recorded twice (Connection's queue, BacklogClientConnection::toClient),  *)
(* but text that begins with a colon, which may add several rows to the     *)
(* log, yet never before what was sent earlier or after what came later.    *)
THEOREM LogIsInOrder == Spec => []RecordedInOrder
<1>1. BacklogInv => RecordedInOrder
  BY DEF BacklogInv, NumbersAscend
<1> QED
  BY <1>1, BacklogInvHolds, PTL

(* A message of a channel that the backlog has been told of when it is sent *)
(* is recorded, although it may not be subscribed to by then: when its turn *)
(* comes it is, since the announcement is before it in the same queue, and  *)
(* the database is open (BacklogClientConnection::receive and ready).       *)
THEOREM NothingToldIsLost == Spec => []ToldIsRecorded
<1>1. BacklogInv => ToldIsRecorded
  <2> SUFFICES ASSUME BacklogInv, Running, feed = <<>> PROVE due = {}
    BY DEF ToldIsRecorded
  <2>1. process # "crashed" /\ DOMAIN feed = {}
    BY DEF Running
  <2> QED
    BY <2>1 DEF BacklogInv, DueIsComing, IsComing
<1> QED
  BY <1>1, BacklogInvHolds, PTL
===============================================================================
