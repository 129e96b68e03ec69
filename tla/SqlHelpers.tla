------------------------------- MODULE SqlHelpers -------------------------------
(***************************************************************************)
(* The builders of SQL statements, as far as their statements do what the  *)
(* calls say: which value a placeholder of the text is bound to, which     *)
(* rows a SELECT or an UPDATE is about, and what an INSERT adds.           *)
(*                                                                         *)
(* A row of a table is a function of its columns.  A placeholder ":val_0"  *)
(* is its number, one of an UPDATE the name of its column.                 *)
(***************************************************************************)
EXTENDS Integers, Sequences, Functions

CONSTANTS
  ColonTexts, \* the strings that begin with a colon
  MaxSpliced  \* bound on the rows that an INSERT adds which has one spliced in

ASSUME SplicedAssumption == MaxSpliced \in Nat

(* A builder of a SELECT or an UPDATE: m_wheres, m_valuesToBind and the    *)
(* m_values that SET has collected.  The operator is always "=".           *)
Builder == [wheres |-> <<>>, valuesToBind |-> <<>>, sets |-> [column \in {} |-> 0]]

WHERE(q, left, right) ==
  [wheres |-> Append(q.wheres, [left |-> left, right |-> right]),
   valuesToBind |-> q.valuesToBind, sets |-> q.sets]

AND(q, left, right) == WHERE(q, left, right)

SET(q, name, new) ==
  [q EXCEPT !.sets =
     [column \in DOMAIN q.sets \cup {name} |-> IF column = name THEN new ELSE q.sets[column]]]

(* Mutant: placeholders are numbered from one. *)
StringifyWhereFromOne(q) ==
  [i \in DOMAIN q.wheres |->
     [left |-> q.wheres[i].left, holder |-> Len(q.valuesToBind) + i]]

(* The conditions of the text.  They are numbered on from what has been    *)
(* collected by then, and their values are collected.                      *)
StringifyWhere(q) ==
  [i \in DOMAIN q.wheres |->
     [left |-> q.wheres[i].left, holder |-> Len(q.valuesToBind) + i - 1]]

Rights(q) == [i \in DOMAIN q.wheres |-> q.wheres[i].right]

Collected(q) ==
  [wheres |-> q.wheres, valuesToBind |-> q.valuesToBind \o Rights(q), sets |-> q.sets]

(* prepare(): what is bound to ":val_n". *)
BindValue(q) ==
  LET values == Collected(q).valuesToBind
  IN  [n \in 0..(Len(values) - 1) |-> values[n + 1]]

(* exec(): the rows of a table that meet every condition.  A placeholder   *)
(* that nothing is bound to is NULL, which nothing equals.                 *)
Meets(row, q) ==
  \A i \in DOMAIN q.wheres :
    LET where == StringifyWhere(q)[i]
    IN  where.holder \in DOMAIN BindValue(q) /\ row[where.left] = BindValue(q)[where.holder]

Selected(table, q) == {i \in DOMAIN table : Meets(table[i], q)}

Updated(table, q) ==
  [i \in DOMAIN table |->
     IF Meets(table[i], q)
     THEN [column \in DOMAIN table[i] |->
             IF column \in DOMAIN q.sets THEN q.sets[column] ELSE table[i][column]]
     ELSE table[i]]

-----------------------------------------------------------------------------
(* CREATE TABLE: an option is one of the column that has been added last.  *)
COLUMN(table, name) == Append(table, [name |-> name, key |-> FALSE, notNull |-> FALSE])
PRIMARY_KEY(table) == [table EXCEPT ![Len(table)].key = TRUE]
NOT_NULL(table) == [table EXCEPT ![Len(table)].notNull = TRUE]

(* INSERT: a value is bound to a placeholder of its own; but text that     *)
(* begins with a colon is put into the statement as it is.                 *)
IsBound(values) == \A i \in DOMAIN values : values[i] \notin ColonTexts

(* The database chooses a key that is not given (and none ever is). *)
Accepts(table, columns) ==
  \A c \in DOMAIN table :
    table[c].notNull => table[c].key \/ table[c].name \in Range(columns)

(* The row of the call, when its values are bound. *)
RowOf(columns, values) ==
  [column \in Range(columns) |-> values[CHOOSE i \in DOMAIN columns : columns[i] = column]]

(* A row that is what a text has made of it: nothing is said of it. *)
SplicedRow == [column \in {} |-> 0]

(* exec(): what may be added to a table.  A text that is spliced in may be *)
(* no SQL, and then nothing is; or an expression, and then the row has its *)
(* value; or close the row and add others: any rows at all.                *)
Insertions(table, columns, values) ==
  IF IsBound(values)
  THEN {IF Accepts(table, columns) THEN <<RowOf(columns, values)>> ELSE <<>>}
  ELSE {[i \in 1..n |-> SplicedRow] : n \in 0..MaxSpliced}
===============================================================================
