---------------------------- MODULE ResultCursor ----------------------------
(***************************************************************************)
(* Result sets and rows (mysql/result_set, mysql/row): what a row reads,   *)
(* and who owns what it reads from.                                        *)
(*                                                                         *)
(* A text result set owns its MYSQL_RES.  A binary one owns the metadata   *)
(* of its columns, and one buffer for the column read last; its records    *)
(* are those of a MYSQL_STMT that belongs to the cache of the connection,  *)
(* which may run it again or close it.  Rows refer to the buffer, the      *)
(* bind record and the column map of their set.                            *)
(*                                                                         *)
(* Each of the two comes in a compile-time ("ct") and a run-time ("rt")    *)
(* variant.  Undefined behaviour ends a behaviour of the model.            *)
(***************************************************************************)
EXTENDS Integers, FiniteSets

CONSTANTS
  Kinds,             \* the kinds of sets the program uses
  SetIds, RowIds,    \* the objects of the program, each used once
  Records, Columns,  \* a result has the records 1..Records
  Nulls,             \* <<record, column>> that are NULL
  MaxRuns,           \* how often the statement is run
  Allocs,            \* what the client library can allocate
  Null, Wild         \* a null pointer, and one that was never set

AllKinds == {"text_ct", "text_rt", "binary_ct", "binary_rt"}
Text(kind) == kind \in {"text_ct", "text_rt"}
CompileTime(kind) == kind \in {"text_ct", "binary_ct"}

ASSUME CursorAssumption ==
  /\ Kinds \subseteq AllKinds
  /\ Records \in Nat \ {0} /\ MaxRuns \in Nat
  /\ Nulls \subseteq (1..Records) \X Columns
  /\ {Null, Wild} \cap (SetIds \cup RowIds \cup Allocs) = {} /\ Null # Wild
  /\ (Allocs \cup {Null}) \cap (0..MaxRuns) = {}

VARIABLES
  stmt,       \* the cached statement: whether it gives rows, which handle, whether
              \* open, its run, its cursor
  res,        \* [Allocs -> state and cursor]: results of text sets, metadata of binary ones
  sets, rows, \* the objects
  buffer,     \* [SetIds -> the value in buffer_]
  flags,      \* [SetIds -> bind_.is_null, the set it points into, and bind_.is_null_value]
  got,        \* what the last step has read of a current row, and what was asked for
  undefined,  \* "no", or the kind of set whose use is undefined
  \* History, read by properties only:
  fresh,      \* rows of the latest run of their result that are its current row
  reasons     \* what the user has done that may make a use undefined

vars == <<stmt, res, sets, rows, buffer, flags, got, undefined, fresh, reasons>>

-----------------------------------------------------------------------------
(***************************************************************************)
(* Values.  A value is known by its result, record and column.             *)
(***************************************************************************)
NoValue == [from |-> Null, rec |-> 0, col |-> Null]
Value(f, r, c) == [from |-> f, rec |-> r, col |-> c]

NoSet == [state |-> "unborn", kind |-> Null, stmt |-> 0, run |-> Null, own |-> Null,
          fields |-> Null, buf |-> Null, map |-> FALSE]
\* bind_ as the constructor leaves it, zeroed; nothing looks at it before.
NoFlag == [ptr |-> Null, value |-> FALSE]
NoRow == [set |-> Null, stmt |-> 0, own |-> Null, fields |-> Null, from |-> Null, rec |-> 0]

Live(s) == s \in SetIds /\ sets[s].state = "live"
Rows == {r \in RowIds : rows[r] # NoRow}
Valid(a) == a \in Allocs /\ res[a].state = "live"
StmtOpen(h) == stmt.open /\ stmt.handle = h

\* Something undefined happens in this step.
NoRead == [want |-> NoValue, data |-> NoValue, length |-> NoValue,
           text |-> FALSE, opt |-> FALSE, null |-> FALSE, flag |-> FALSE]
Defined == undefined = "no" /\ UNCHANGED undefined
Quiet   == Defined /\ got' = NoRead
Undefined(s) == /\ undefined = "no" /\ undefined' = sets[s].kind /\ got' = NoRead
                /\ UNCHANGED <<stmt, res, sets, rows, buffer, flags, fresh, reasons>>

Because(r) == reasons' = reasons \cup {r}
RowsOf(s) == {r \in Rows : rows[r].set = s}
RowsOfStatement == {r \in Rows : rows[r].stmt # 0}
\* The rows that share the cursor of a set.
SharedWith(s) == IF Text(sets[s].kind) THEN RowsOf(s) ELSE RowsOfStatement

-----------------------------------------------------------------------------
(***************************************************************************)
(* prepared() and execute(): a run of the statement or a stored result,    *)
(* and the constructor of the set over it.                                 *)
(***************************************************************************)
Construct(s, kind, a, h, run) ==
  sets' = [sets EXCEPT ![s] =
    [state |-> "live", kind |-> kind, stmt |-> h, run |-> run, own |-> a, fields |-> a,
     buf |-> s, map |-> ~CompileTime(kind) /\ a # Null]]

Allocate(a) ==
  /\ a # Null /\ res[a].state = "unused"
  /\ res' = [res EXCEPT ![a] = [state |-> "live", cursor |-> 0]]

\* A slip: the statement is never found in the cache.
AlwaysNew == stmt.handle + 1
\* The statement is the cached one, or a new one after that was closed.
HandleUsed == IF stmt.open THEN stmt.handle ELSE stmt.handle + 1

\* The metadata of a statement without rows is a null pointer.
Prepared(s, kind, a) ==
  /\ Quiet /\ sets[s] = NoSet /\ ~Text(kind) /\ stmt.run < MaxRuns
  /\ stmt' = [stmt EXCEPT !.handle = HandleUsed, !.open = TRUE, !.run = @ + 1, !.cursor = 0]
  /\ IF stmt.rows THEN Allocate(a) ELSE a = Null /\ UNCHANGED res
  /\ Construct(s, kind, a, stmt'.handle, stmt'.run)
  /\ fresh' = fresh \ RowsOfStatement
  /\ UNCHANGED <<rows, buffer, flags, reasons>>

Executed(s, kind, a) ==
  /\ Quiet /\ sets[s] = NoSet /\ Text(kind)
  /\ Allocate(a) /\ Construct(s, kind, a, 0, a)
  /\ UNCHANGED <<stmt, rows, buffer, flags, fresh, reasons>>

\* A query without records: the set has their number and no result.
Modified(s, kind) ==
  /\ Quiet /\ sets[s] = NoSet /\ Text(kind)
  /\ Construct(s, kind, Null, 0, Null)
  /\ UNCHANGED <<stmt, res, rows, buffer, flags, fresh, reasons>>

\* A call that gave up after its last reconnect: a set without a statement,
\* or without a result.
Unanswered(s, kind) ==
  /\ Quiet /\ sets[s] = NoSet
  /\ Construct(s, kind, Null, 0, Null) /\ Because("unanswered")
  /\ UNCHANGED <<stmt, res, rows, buffer, flags, fresh>>

\* close_statement, or the reconnect of another call.
CloseStatement ==
  /\ Quiet /\ stmt.open
  /\ stmt' = [stmt EXCEPT !.open = FALSE, !.cursor = 0] /\ fresh' = fresh \ RowsOfStatement
  /\ reasons' = reasons \cup IF \E s \in SetIds : Live(s) /\ StmtOpen(sets[s].stmt)
                             THEN {"closed"} ELSE {}
  /\ UNCHANGED <<res, sets, rows, buffer, flags>>

-----------------------------------------------------------------------------
(***************************************************************************)
(* next()                                                                  *)
(***************************************************************************)
\* The variable r of the program is given the row, or none.
Gives(s, r, row) ==
  /\ rows' = [rows EXCEPT ![r] = row]
  /\ fresh' = (fresh \ (SharedWith(s) \cup {r}))
                 \cup IF row # NoRow /\ row.from \in {stmt.run, row.own} THEN {r} ELSE {}

Row(s, rec) ==
  [set |-> s, stmt |-> sets[s].stmt, own |-> IF Text(sets[s].kind) THEN sets[s].own ELSE Null,
   fields |-> sets[s].fields, from |-> sets[s].run, rec |-> rec]

TextNext(s, r) ==
  LET a == sets[s].own IN
  /\ Quiet /\ Live(s) /\ Text(sets[s].kind)
  /\ IF Valid(a) /\ res[a].cursor < Records
     THEN /\ res' = [res EXCEPT ![a].cursor = @ + 1]
          /\ Gives(s, r, Row(s, res[a].cursor + 1))
     ELSE Gives(s, r, NoRow) /\ UNCHANGED res
  /\ UNCHANGED <<stmt, sets, buffer, flags, reasons>>

\* What the two tests at the head of next() let through.
HasResult(s) ==
  sets[s].stmt # 0 /\ (CompileTime(sets[s].kind) => sets[s].fields # Null)

\* A slip: only an error ends the rows.
OnlyErrorEnds(status) == status = "error"
\* The status of mysql_stmt_fetch for which there is no row.
EndsRows(status) == status \in {"error", "no_data"}

\* mysql_stmt_fetch; behind the last record the cursor is on none.
FetchStatus ==
  IF ~stmt.rows THEN "error" ELSE IF stmt.cursor < Records THEN "row" ELSE "no_data"
BinaryNext(s, r) ==
  /\ Quiet /\ Live(s) /\ ~Text(sets[s].kind)
  /\ HasResult(s) => StmtOpen(sets[s].stmt) /\ sets[s].fields # Wild
  /\ stmt' = IF HasResult(s) /\ stmt.rows /\ stmt.cursor <= Records
             THEN [stmt EXCEPT !.cursor = @ + 1] ELSE stmt
  /\ Gives(s, r, IF HasResult(s) /\ ~EndsRows(FetchStatus) THEN Row(s, stmt.cursor + 1) ELSE NoRow)
  /\ UNCHANGED <<res, sets, buffer, flags, reasons>>

\* A statement that was closed; a fields_ that no constructor has set.
NextUndefined(s) ==
  /\ Live(s) /\ ~Text(sets[s].kind)
  /\ HasResult(s) /\ (~StmtOpen(sets[s].stmt) \/ sets[s].fields = Wild)
  /\ Undefined(s)

\* get_row_count and get_affected_row_count of a binary set take its statement
\* for granted.
CountUndefined(s) ==
  Live(s) /\ ~Text(sets[s].kind) /\ ~StmtOpen(sets[s].stmt) /\ Undefined(s)

-----------------------------------------------------------------------------
(***************************************************************************)
(* get, get_opt, byte_length and copy_to of a row, by index or by a name   *)
(* that is looked up at run time.                                          *)
(***************************************************************************)
\* The column map of the set is used by name, and by run-time rows to bound
\* the index.
UsesMap(kind, named) == named \/ ~CompileTime(kind)

\* The map of a run-time set is empty if it has no result, or was moved from: no
\* column is found.
Empty(r) == LET s == rows[r].set IN ~CompileTime(sets[s].kind) /\ ~sets[s].map

HasRecord == stmt.cursor \in 1..Records

\* Whether reading is defined at all; a row keeps the fields of its set.
RowUsable(r, named) ==
  LET row == rows[r]  s == row.set  kind == sets[s].kind IN
  /\ UsesMap(kind, named) => /\ Live(s)
                            /\ (CompileTime(kind) /\ ~sets[s].map => Valid(row.fields))
  /\ \/ Empty(r)
     \/ IF Text(kind) THEN Valid(row.own)
        ELSE /\ Live(s) /\ Live(sets[s].buf) /\ Valid(row.fields) /\ StmtOpen(row.stmt)
             /\ HasRecord /\ flags[s].ptr # Null => Live(flags[s].ptr)

\* A slip: a column that is in the buffer is not fetched again.
FetchedOnce(old, new) == IF old.col = new.col THEN old ELSE new
\* mysql_stmt_fetch_column into the buffer, which a NULL leaves alone.
fetch_column(old, new) == new

IsNull(c) == <<stmt.cursor, c>> \in Nulls
\* What the buffer holds after column c is fetched into it; an error is ignored.
BufferAfter(b, c) ==
  IF HasRecord /\ ~IsNull(c)
  THEN fetch_column(buffer[b], Value(stmt.run, stmt.cursor, c)) ELSE buffer[b]

\* What it makes of the flags: the first value sets is_null, which the code leaves
\* a null pointer, to the is_null_value of the same bind record; what comes later
\* is noted where is_null points, in a moved set perhaps in that of another.
FlagsAfter(s, c) ==
  IF HasRecord /\ flags[s].ptr # Null
  THEN [flags EXCEPT ![flags[s].ptr].value = IsNull(c)]
  ELSE IF HasRecord /\ ~IsNull(c) THEN [flags EXCEPT ![s].ptr = s] ELSE flags

\* When get_opt can be asked for column c: not for a NULL before the first value
\* of the set; after a move, only of a set whose flag is its own.
KeepsFlag(s, c) ==
  IF "moved" \in reasons THEN flags[s].ptr = s ELSE IsNull(c) => buffer[s] # NoValue

\* What is read of a row that is no longer the current one is not kept.
Reads(r, c, opt, flag, data, length) ==
  got' = IF r \notin fresh THEN NoRead
         ELSE [want |-> Value(rows[r].from, rows[r].rec, c), data |-> data, length |-> length,
               text |-> Text(sets[rows[r].set].kind), opt |-> opt, flag |-> flag,
               null |-> <<rows[r].rec, c>> \in Nulls]

\* ensure_populated_column_map
MapAfter(r, named) ==
  IF named THEN [sets EXCEPT ![rows[r].set].map = @ \/ CompileTime(sets[rows[r].set].kind)]
           ELSE sets

\* A text row points at its record, and at the lengths of the record its set
\* has fetched last.
TextGet(r, c, named) ==
  LET row == rows[r]  a == row.own  length == res[a].cursor IN
  /\ Defined /\ r \in Rows /\ Text(sets[row.set].kind) /\ RowUsable(r, named)
  /\ IF Empty(r) THEN Reads(r, c, FALSE, FALSE, NoValue, NoValue)
     ELSE Reads(r, c, FALSE, FALSE,
                IF <<row.rec, c>> \in Nulls THEN NoValue ELSE Value(a, row.rec, c),
                IF <<length, c>> \in Nulls THEN NoValue ELSE Value(a, length, c))
  /\ sets' = MapAfter(r, named)
  /\ UNCHANGED <<stmt, res, rows, buffer, flags, fresh, reasons>>

\* A binary row has its set fetch the column of the record it is on; get_opt
\* asks whether that was NULL, the others do not.
BinaryGet(r, c, named, opt) ==
  LET s == rows[r].set
      b == sets[s].buf
      read == IF opt /\ flags'[s].value THEN NoValue ELSE BufferAfter(b, c) IN
  /\ Defined /\ r \in Rows /\ ~Text(sets[rows[r].set].kind) /\ RowUsable(r, named)
  /\ IF Empty(r) THEN Reads(r, c, opt, FALSE, NoValue, NoValue) /\ UNCHANGED <<buffer, flags>>
     ELSE /\ buffer' = [buffer EXCEPT ![b] = BufferAfter(b, c)]
          /\ flags' = FlagsAfter(s, c)
          /\ Reads(r, c, opt, KeepsFlag(s, c), read, read)
  /\ sets' = MapAfter(r, named)
  /\ UNCHANGED <<stmt, res, rows, fresh, reasons>>

GetUndefined(r, named) ==
  r \in Rows /\ ~RowUsable(r, named) /\ Undefined(rows[r].set)

-----------------------------------------------------------------------------
(***************************************************************************)
(* Moves and the destructor.                                               *)
(***************************************************************************)
\* What is left of the source of a move construction.
MovedFrom(set) ==
  LET left == [set EXCEPT !.stmt = 0, !.own = Null, !.run = Null] IN
  IF CompileTime(set.kind) THEN left ELSE [left EXCEPT !.fields = Null, !.map = FALSE]

\* The compile-time variants leave fields_ uninitialised and the map empty.
MovedTo(set) ==
  IF CompileTime(set.kind) THEN [set EXCEPT !.fields = Wild, !.map = FALSE] ELSE set

MoveConstruct(s, t) ==
  /\ Quiet /\ Live(s) /\ sets[t] = NoSet
  /\ sets' = [sets EXCEPT ![s] = MovedFrom(sets[s]), ![t] = MovedTo(sets[s])]
  /\ flags' = [flags EXCEPT ![t] = flags[s]]
  /\ fresh' = fresh \ RowsOf(s) /\ Because("moved")
  /\ UNCHANGED <<stmt, res, rows, buffer>>

\* What is left of the source of an assignment: a binary set keeps metadata_.
AssignedFrom(set) ==
  IF Text(set.kind) THEN MovedFrom(set)
  ELSE [set EXCEPT !.stmt = 0, !.run = Null, !.map = @ /\ CompileTime(set.kind)]

\* The compile-time variants keep the target's own fields_ and map.
AssignedTo(target, set) ==
  IF CompileTime(set.kind) THEN [set EXCEPT !.fields = target.fields, !.map = target.map]
  ELSE set

\* A slip: the result of the target is forgotten.
Forgets(set) == {}
\* What an assignment frees: the result of a text set, nothing of a binary one.
FreedByAssign(set) == IF Text(set.kind) THEN {set.own} ELSE {}

FreeAll(A) ==
  res' = [a \in Allocs |-> IF a \in A THEN [state |-> "freed", cursor |-> 0] ELSE res[a]]

MoveAssign(s, t) ==
  /\ Quiet /\ s # t /\ Live(s) /\ Live(t) /\ sets[s].kind = sets[t].kind
  /\ FreedByAssign(sets[t]) \subseteq {a \in Allocs : Valid(a)} \cup {Null}
  /\ FreeAll(FreedByAssign(sets[t]))
  /\ sets' = [sets EXCEPT ![s] = AssignedFrom(sets[s]), ![t] = AssignedTo(sets[t], sets[s])]
  /\ flags' = [flags EXCEPT ![t] = flags[s]]
  /\ fresh' = fresh \ (RowsOf(s) \cup RowsOf(t))
  /\ reasons' = reasons \cup {"moved"} \cup (IF RowsOf(t) = {} THEN {} ELSE {"outlived"})
                         \cup (IF Text(sets[s].kind) THEN {} ELSE {"assigned"})
  /\ UNCHANGED <<stmt, rows, buffer>>

Destroy(s) ==
  /\ Quiet /\ Live(s) /\ (sets[s].own # Null => Valid(sets[s].own))
  /\ FreeAll({sets[s].own})
  /\ sets' = [sets EXCEPT ![s] = [NoSet EXCEPT !.state = "dead", !.kind = sets[s].kind]]
  /\ buffer' = [buffer EXCEPT ![s] = NoValue] /\ flags' = [flags EXCEPT ![s] = NoFlag]
  /\ reasons' = reasons \cup IF RowsOf(s) = {} THEN {} ELSE {"outlived"}
  /\ UNCHANGED <<stmt, rows, fresh>>

\* What the destructor, or an assignment, frees was freed before.
FreedTwice(s) ==
  Live(s) /\ sets[s].own # Null /\ ~Valid(sets[s].own) /\ Undefined(s)

-----------------------------------------------------------------------------
Init ==
  /\ stmt \in [rows : BOOLEAN, handle : {0}, open : {FALSE}, run : {0}, cursor : {0}]
  /\ res = [a \in Allocs |-> [state |-> "unused", cursor |-> 0]]
  /\ sets = [s \in SetIds |-> NoSet] /\ rows = [r \in RowIds |-> NoRow]
  /\ buffer = [s \in SetIds |-> NoValue] /\ flags = [s \in SetIds |-> NoFlag]
  /\ got = NoRead
  /\ undefined = "no" /\ fresh = {} /\ reasons = {}

Next ==
  \/ \E s \in SetIds, kind \in Kinds :
       \/ \E a \in Allocs \cup {Null} : Prepared(s, kind, a) \/ Executed(s, kind, a)
       \/ Modified(s, kind) \/ Unanswered(s, kind)
  \/ CloseStatement
  \/ \E s \in SetIds : \/ \E r \in RowIds : TextNext(s, r) \/ BinaryNext(s, r)
                       \/ NextUndefined(s) \/ CountUndefined(s)
                       \/ Destroy(s) \/ FreedTwice(s)
                       \/ \E t \in SetIds : MoveConstruct(s, t) \/ MoveAssign(s, t)
  \/ \E r \in RowIds, named \in BOOLEAN :
       \/ \E c \in Columns : \/ TextGet(r, c, named)
                            \/ \E opt \in BOOLEAN : BinaryGet(r, c, named, opt)
       \/ GetUndefined(r, named)

Spec == Init /\ [][Next]_vars

-----------------------------------------------------------------------------
(***************************************************************************)
(* Properties.                                                             *)
(***************************************************************************)
Results == (1..MaxRuns) \cup Allocs \cup {Null}
Values == [from : Results, rec : 0..Records, col : Columns \cup {Null}]

\* Types; in particular no cursor runs past the one place behind its result.
TypeOK ==
  /\ stmt \in [rows : BOOLEAN, handle : 0..MaxRuns, open : BOOLEAN, run : 0..MaxRuns,
              cursor : 0..(Records + 1)]
  /\ res \in [Allocs -> [state : {"unused", "live", "freed"}, cursor : 0..Records]]
  /\ \A s \in SetIds :
       sets[s] \in [state : {"unborn", "live", "dead"}, kind : Kinds \cup {Null},
                   stmt : 0..MaxRuns, run : Results, own : Allocs \cup {Null},
                   fields : Allocs \cup {Null, Wild}, buf : SetIds \cup {Null},
                   map : BOOLEAN]
  /\ \A r \in RowIds :
       rows[r] \in [set : SetIds \cup {Null}, stmt : 0..MaxRuns, own : Allocs \cup {Null},
                   fields : Allocs \cup {Null, Wild}, from : Results, rec : 0..Records]
  /\ buffer \in [SetIds -> Values]
  /\ flags \in [SetIds -> [ptr : SetIds \cup {Null}, value : BOOLEAN]]
  /\ got \in [want : Values, data : Values, length : Values,
             text : BOOLEAN, opt : BOOLEAN, null : BOOLEAN, flag : BOOLEAN]
  /\ undefined \in Kinds \cup {"no"}
  /\ fresh \subseteq Rows
  /\ reasons \subseteq {"unanswered", "closed", "moved", "assigned", "outlived"}

\* A row reads the value and the length of its own record and column as long
\* as it is the current row of its result, whatever other sets and rows the
\* program holds and in whatever order their columns are read.  The exceptions
\* are of a binary row: a NULL that is not asked for with get_opt, which reads
\* what the buffer held before (binary_row_base.h:71), a get_opt of a NULL whose
\* set has fetched no value yet, and one whose set was moved to and has the flag
\* it tests written for another set, or not at all (binary_row_base.h:83).
ReadsItsRow ==
  (got.text \/ IF got.opt THEN got.flag ELSE ~got.null)
    => LET value == IF got.null THEN NoValue ELSE got.want
       IN got.data = value /\ got.length = value

\* What makes a use undefined: a row of a text set that outlives its result,
\* or, at compile time, a move; of a binary set also a statement that was
\* closed under it, and one that was never there.  Running the statement again
\* is not among them, nor is moving a run-time text set.
UndefinedNeedsAReason ==
  /\ undefined = "text_rt" => "outlived" \in reasons
  /\ undefined = "text_ct" => reasons \cap {"outlived", "moved"} # {}
  /\ undefined \in {"binary_ct", "binary_rt"} => reasons # {}

\* What the client library has allocated is owned by one set, which will free
\* it once: nothing is lost or shared by constructing, moving, assigning and
\* destroying, the assignment of binary sets excepted.
OwnedOnce ==
  "assigned" \notin reasons
    => /\ \A a \in Allocs : Valid(a) => \E s \in SetIds : Live(s) /\ sets[s].own = a
       /\ \A s, t \in SetIds :
            Live(s) /\ Live(t) /\ s # t /\ sets[s].own # Null => sets[s].own # sets[t].own
       /\ \A s \in SetIds : Live(s) /\ sets[s].own # Null => Valid(sets[s].own)

\* The records that a result still has; those of a run end with the statement or
\* its next run.
RecordsLeft(f) ==
  IF f \in Allocs THEN IF res[f].state = "freed" THEN 0 ELSE Records - res[f].cursor
  ELSE CASE f < stmt.run -> 0
         [] f > stmt.run -> Records
         [] OTHER -> IF stmt.open /\ stmt.rows /\ stmt.cursor < Records
                     THEN Records - stmt.cursor ELSE 0

NoRecord == [from |-> Null, rec |-> 0]
Abstract == INSTANCE RecordCursor WITH
  Sources <- (1..MaxRuns) \cup Allocs, Shared <- 1..MaxRuns, None <- NoRecord,
  left <- [f \in (1..MaxRuns) \cup Allocs |-> RecordsLeft(f)],
  current <- [r \in RowIds |->
                IF r \in fresh THEN [from |-> rows[r].from, rec |-> rows[r].rec] ELSE NoRecord]

\* next() hands out the records of every result in order, each once and none
\* after the last, through moves, assignments and whatever is run in between.  A
\* text result loses all that is left at once or nothing; a run of a statement can
\* also lose single records to a set of an earlier run.
HandsOutInOrder == Abstract!Spec
=============================================================================
