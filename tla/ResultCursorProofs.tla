------------------------- MODULE ResultCursorProofs -------------------------
(***************************************************************************)
(* Result sets and rows, for any number of sets, rows, records, columns    *)
(* and runs: types, and who owns what the client library has allocated.    *)
(***************************************************************************)
EXTENDS ResultCursor, TLAPS

Handles  == 0..MaxRuns
Pointers == Allocs \cup {Null}
Stmts    == [rows : BOOLEAN, handle : Handles, open : BOOLEAN, run : Handles,
             cursor : 0..(Records + 1)]
Reses    == [state : {"unused", "live", "freed"}, cursor : 0..Records]
SetRecs  == [state : {"unborn", "live", "dead"}, kind : Kinds \cup {Null}, stmt : Handles,
             run : Results, own : Pointers, fields : Pointers \cup {Wild},
             buf : SetIds \cup {Null}, map : BOOLEAN]
RowRecs  == [set : SetIds \cup {Null}, stmt : Handles, own : Pointers,
             fields : Pointers \cup {Wild}, from : Results, rec : 0..Records]
Readings == [want : Values, data : Values, length : Values,
             text : BOOLEAN, opt : BOOLEAN, null : BOOLEAN, flag : BOOLEAN]
Flags    == [SetIds -> [ptr : SetIds \cup {Null}, value : BOOLEAN]]

\* Types of the objects, and that a row belongs to a set that was made.
ObjectsOK ==
  /\ stmt \in Stmts /\ stmt.handle <= stmt.run
  /\ stmt.run = 0 => ~stmt.open /\ stmt.cursor = 0
  /\ res \in [Allocs -> Reses]
  /\ sets \in [SetIds -> SetRecs] /\ rows \in [RowIds -> RowRecs]
  /\ \A s \in SetIds : sets[s].state # "unborn" => sets[s].kind \in Kinds
  /\ \A r \in Rows : rows[r].set \in SetIds /\ sets[rows[r].set].state # "unborn"

ReadingOK == /\ buffer \in [SetIds -> Values] /\ flags \in Flags /\ got \in Readings
             /\ undefined \in Kinds \cup {"no"} /\ fresh \subseteq Rows
             /\ reasons \subseteq {"unanswered", "closed", "moved", "assigned", "outlived"}

TypeInv == ObjectsOK /\ ReadingOK

-----------------------------------------------------------------------------
(***************************************************************************)
(* Types of what the steps are made of.                                    *)
(***************************************************************************)
\* Nothing was made, read or given yet.
LEMMA NothingTyped ==
  /\ NoSet \in SetRecs /\ NoRow \in RowRecs /\ NoValue \in Values /\ NoRead \in Readings
  /\ NoSet.state = "unborn" /\ NoSet.own = Null
<1>1. 0 \in Handles /\ 0 \in 0..Records
  BY CursorAssumption DEF Handles
<1>2. NoValue \in Values
  BY <1>1 DEF NoValue, Values, Results
<1> QED
  BY <1>1, <1>2 DEF NoSet, NoRow, NoRead, SetRecs, RowRecs, Readings, Results, Pointers

\* A new set, whatever it is made over.
LEMMA ConstructTyped ==
  ASSUME ObjectsOK, NEW s \in SetIds, NEW kind \in Kinds, NEW a \in Pointers, NEW h \in Handles,
         NEW run \in Results, Construct(s, kind, a, h, run)
  PROVE  /\ sets' \in [SetIds -> SetRecs]
         /\ sets'[s].state = "live" /\ sets'[s].kind = kind /\ sets'[s].own = a
         /\ \A t \in SetIds \ {s} : sets'[t] = sets[t]
<1> DEFINE new == [state |-> "live", kind |-> kind, stmt |-> h, run |-> run, own |-> a,
                   fields |-> a, buf |-> s, map |-> ~CompileTime(kind) /\ a # Null]
<1>1. (~CompileTime(kind) /\ a # Null) \in BOOLEAN
  BY Zenon
<1>2. new \in SetRecs
  BY <1>1 DEF SetRecs
<1>3. sets' = [sets EXCEPT ![s] = new]
  BY DEF Construct
<1> QED
  BY <1>2, <1>3 DEF ObjectsOK

\* What moves leave, and what they make.
LEMMA MovedTyped ==
  ASSUME NEW set \in SetRecs
  PROVE  /\ MovedFrom(set) \in SetRecs /\ MovedTo(set) \in SetRecs /\ AssignedFrom(set) \in SetRecs
         /\ MovedFrom(set).state = set.state /\ MovedFrom(set).kind = set.kind
         /\ MovedTo(set).state = set.state /\ MovedTo(set).kind = set.kind
         /\ AssignedFrom(set).state = set.state /\ AssignedFrom(set).kind = set.kind
         /\ MovedFrom(set).own = Null /\ MovedTo(set).own = set.own
         /\ Text(set.kind) => AssignedFrom(set).own = Null
<1>1. 0 \in Handles /\ Null \in Results
  BY CursorAssumption DEF Handles, Results
<1>2. (set.map /\ CompileTime(set.kind)) \in BOOLEAN
  BY Zenon
<1>3. /\ MovedFrom(set) \in SetRecs /\ MovedFrom(set).state = set.state
      /\ MovedFrom(set).kind = set.kind /\ MovedFrom(set).own = Null
  BY <1>1 DEF MovedFrom, SetRecs, Pointers
<1>4. /\ MovedTo(set) \in SetRecs /\ MovedTo(set).state = set.state
      /\ MovedTo(set).kind = set.kind /\ MovedTo(set).own = set.own
  BY DEF MovedTo, SetRecs
<1>5. /\ AssignedFrom(set) \in SetRecs /\ AssignedFrom(set).state = set.state
      /\ AssignedFrom(set).kind = set.kind
  BY <1>1, <1>2, <1>3 DEF AssignedFrom, SetRecs
<1>6. Text(set.kind) => AssignedFrom(set).own = Null
  BY <1>3 DEF AssignedFrom
<1> QED
  BY <1>3, <1>4, <1>5, <1>6

LEMMA AssignedTyped ==
  ASSUME NEW target \in SetRecs, NEW set \in SetRecs
  PROVE  /\ AssignedTo(target, set) \in SetRecs
         /\ AssignedTo(target, set).state = set.state /\ AssignedTo(target, set).kind = set.kind
         /\ AssignedTo(target, set).own = set.own
  BY DEF AssignedTo, SetRecs

LEMMA FreeTyped ==
  ASSUME res \in [Allocs -> Reses], NEW A, FreeAll(A)
  PROVE  /\ res' \in [Allocs -> Reses]
         /\ \A a \in Allocs : res'[a].state = IF a \in A THEN "freed" ELSE res[a].state
<1>1. 0 \in 0..Records
  BY CursorAssumption
<1> QED
  BY <1>1 DEF FreeAll, Reses

-----------------------------------------------------------------------------
(***************************************************************************)
(* Types are an invariant.                                                 *)
(***************************************************************************)
\* A new set leaves the rows of the others where they are.
LEMMA ConstructObjects ==
  ASSUME ObjectsOK, NEW s \in SetIds, NEW kind \in Kinds, NEW a \in Pointers, NEW h \in Handles,
         NEW run \in Results, Construct(s, kind, a, h, run), rows' = rows,
         stmt' \in Stmts, stmt'.handle <= stmt'.run,
         stmt'.run = 0 => ~stmt'.open /\ stmt'.cursor = 0, res' \in [Allocs -> Reses]
  PROVE  ObjectsOK'
<1>1. /\ sets' \in [SetIds -> SetRecs] /\ sets'[s].state = "live" /\ sets'[s].kind = kind
      /\ \A t \in SetIds \ {s} : sets'[t] = sets[t]
  BY ConstructTyped
<1>2. \A t \in SetIds : sets'[t].state # "unborn" => sets'[t].kind \in Kinds
  BY <1>1 DEF ObjectsOK
<1>3. \A r \in Rows' : rows'[r].set \in SetIds /\ sets'[rows'[r].set].state # "unborn"
  BY <1>1 DEF ObjectsOK, Rows
<1> QED
  BY <1>1, <1>2, <1>3 DEF ObjectsOK

LEMMA AllocateTyped ==
  ASSUME ObjectsOK, NEW a \in Pointers, Allocate(a)
  PROVE  /\ a \in Allocs /\ res[a].state = "unused" /\ res' \in [Allocs -> Reses]
         /\ res'[a].state = "live" /\ \A b \in Allocs \ {a} : res'[b] = res[b]
<1>1. 0 \in 0..Records
  BY CursorAssumption
<1> QED
  BY <1>1 DEF Allocate, ObjectsOK, Pointers, Reses

LEMMA PreparedObjects ==
  ASSUME ObjectsOK, NEW s \in SetIds, NEW kind \in Kinds, NEW a \in Pointers, Prepared(s, kind, a)
  PROVE  ObjectsOK'
<1>1. /\ stmt \in Stmts /\ stmt.handle <= stmt.run /\ stmt.run < MaxRuns /\ rows' = rows
      /\ stmt' = [stmt EXCEPT !.handle = HandleUsed, !.open = TRUE, !.run = @ + 1, !.cursor = 0]
      /\ Construct(s, kind, a, stmt'.handle, stmt'.run)
      /\ IF stmt.rows THEN Allocate(a) ELSE a = Null /\ UNCHANGED res
  BY DEF Prepared, ObjectsOK
<1>2. MaxRuns \in Nat /\ Records \in Nat
  BY CursorAssumption
<1>3. HandleUsed \in {stmt.handle, stmt.handle + 1}
  BY DEF HandleUsed
<1>4. /\ stmt' \in Stmts /\ stmt'.handle <= stmt'.run /\ stmt'.handle \in Handles
      /\ stmt'.run \in 1..MaxRuns
  <2>1. /\ stmt.run \in Nat /\ stmt.handle \in Nat /\ HandleUsed <= stmt.run + 1
        /\ HandleUsed \in Handles /\ stmt.run + 1 \in 1..MaxRuns /\ 0 \in 0..(Records + 1)
    BY <1>1, <1>2, <1>3 DEF Stmts, Handles
  <2>2. stmt' = [rows |-> stmt.rows, handle |-> HandleUsed, open |-> TRUE,
                 run |-> stmt.run + 1, cursor |-> 0]
    BY <1>1 DEF Stmts
  <2>3. stmt.rows \in BOOLEAN
    BY <1>1 DEF Stmts
  <2>4. stmt'.handle = HandleUsed /\ stmt'.run = stmt.run + 1
    BY <2>2
  <2>5. stmt' \in Stmts
    BY <2>1, <2>2, <2>3 DEF Stmts, Handles
  <2> QED
    BY <2>1, <2>4, <2>5
<1>5. res' \in [Allocs -> Reses]
  BY <1>1, AllocateTyped DEF ObjectsOK
<1> QED
  BY <1>1, <1>4, <1>5, ConstructObjects DEF Results

LEMMA ExecutedObjects ==
  ASSUME ObjectsOK, NEW s \in SetIds, NEW kind \in Kinds,
         \/ \E a \in Pointers : Executed(s, kind, a)
         \/ Modified(s, kind) \/ Unanswered(s, kind)
  PROVE  ObjectsOK'
<1>1. 0 \in Handles /\ Null \in Results /\ Null \in Pointers
  BY CursorAssumption DEF Handles, Results, Pointers
<1>2. ASSUME NEW a \in Pointers, Executed(s, kind, a)
      PROVE  ObjectsOK'
  <2>1. a \in Results /\ res' \in [Allocs -> Reses]
    BY <1>2, AllocateTyped DEF Executed, Results, Pointers
  <2> QED
    BY <1>1, <1>2, <2>1, ConstructObjects DEF Executed, ObjectsOK
<1>3. CASE Modified(s, kind) \/ Unanswered(s, kind)
  BY <1>1, <1>3, ConstructObjects DEF Modified, Unanswered, ObjectsOK
<1> QED
  BY <1>2, <1>3

LEMMA CloseObjects ==
  ASSUME ObjectsOK, CloseStatement
  PROVE  ObjectsOK'
<1>1. 0 \in 0..(Records + 1)
  BY CursorAssumption
<1>2. stmt' \in Stmts /\ stmt'.handle = stmt.handle /\ stmt'.run = stmt.run
  BY <1>1 DEF CloseStatement, ObjectsOK, Stmts
<1> QED
  BY <1>2 DEF CloseStatement, ObjectsOK, Rows

\* next() gives a row of the set, or none.
LEMMA RowTyped ==
  ASSUME ObjectsOK, NEW s \in SetIds, NEW rec \in 0..Records
  PROVE  Row(s, rec) \in RowRecs /\ Row(s, rec).set = s
<1>1. (IF Text(sets[s].kind) THEN sets[s].own ELSE Null) \in Pointers
  BY DEF ObjectsOK, SetRecs, Pointers
<1> QED
  BY <1>1 DEF Row, RowRecs, ObjectsOK, SetRecs

LEMMA GivesObjects ==
  ASSUME ObjectsOK, NEW s \in SetIds, NEW r \in RowIds, sets[s].state = "live",
         NEW row \in RowRecs, row # NoRow => row.set = s, Gives(s, r, row),
         sets' = sets, stmt' \in Stmts, stmt'.handle <= stmt'.run,
         stmt'.run = 0 => ~stmt'.open /\ stmt'.cursor = 0, res' \in [Allocs -> Reses]
  PROVE  ObjectsOK'
<1>1. rows' = [rows EXCEPT ![r] = row] /\ rows' \in [RowIds -> RowRecs]
  BY DEF Gives, ObjectsOK
<1>2. \A q \in Rows' : rows'[q].set \in SetIds /\ sets'[rows'[q].set].state # "unborn"
  <2> SUFFICES ASSUME NEW q \in RowIds, rows'[q] # NoRow
               PROVE  rows'[q].set \in SetIds /\ sets'[rows'[q].set].state # "unborn"
    BY DEF Rows
  <2>1. CASE q = r
    BY <1>1, <2>1 DEF ObjectsOK
  <2>2. CASE q # r
    BY <1>1, <2>2 DEF ObjectsOK, Rows
  <2> QED
    BY <2>1, <2>2
<1> QED
  BY <1>1, <1>2 DEF ObjectsOK

LEMMA NextRowObjects ==
  ASSUME ObjectsOK, NEW s \in SetIds, NEW r \in RowIds, TextNext(s, r) \/ BinaryNext(s, r)
  PROVE  ObjectsOK'
<1>1. NoRow \in RowRecs /\ Records \in Nat /\ sets' = sets /\ sets[s].state = "live"
  BY NothingTyped, CursorAssumption DEF TextNext, BinaryNext, Live
<1>2. CASE TextNext(s, r)
  <2> DEFINE a == sets[s].own
  <2>1. CASE Valid(a) /\ res[a].cursor < Records
    <3>1. /\ res' = [res EXCEPT ![a].cursor = @ + 1] /\ Gives(s, r, Row(s, res[a].cursor + 1))
          /\ stmt' = stmt /\ a \in Allocs
      BY <1>2, <2>1 DEF TextNext, Valid
    <3>2. res[a] \in Reses /\ res[a].cursor + 1 \in 0..Records
      BY <1>1, <2>1, <3>1 DEF ObjectsOK, Reses
    <3>3. res' \in [Allocs -> Reses]
      BY <3>1, <3>2 DEF ObjectsOK, Reses
    <3> QED
      BY <1>1, <3>1, <3>2, <3>3, RowTyped, GivesObjects DEF ObjectsOK
  <2>2. CASE ~(Valid(a) /\ res[a].cursor < Records)
    <3>1. Gives(s, r, NoRow) /\ UNCHANGED <<res, stmt>>
      BY <1>2, <2>2 DEF TextNext
    <3> QED
      BY <1>1, <3>1, GivesObjects DEF ObjectsOK
  <2> QED
    BY <2>1, <2>2
<1>3. CASE BinaryNext(s, r)
  <2>1. /\ stmt \in Stmts /\ stmt.handle <= stmt.run /\ UNCHANGED res
        /\ stmt' = IF HasResult(s) /\ stmt.rows /\ stmt.cursor <= Records
                   THEN [stmt EXCEPT !.cursor = @ + 1] ELSE stmt
        /\ Gives(s, r, IF HasResult(s) /\ ~EndsRows(FetchStatus) THEN Row(s, stmt.cursor + 1)
                        ELSE NoRow)
    BY <1>3 DEF BinaryNext, ObjectsOK
  <2>6. HasResult(s) => stmt.run # 0
    BY <1>3 DEF BinaryNext, StmtOpen, ObjectsOK
  <2>2. /\ stmt' \in Stmts /\ stmt'.handle <= stmt'.run
        /\ stmt'.run = 0 => ~stmt'.open /\ stmt'.cursor = 0
    BY <1>1, <2>1, <2>6 DEF Stmts, ObjectsOK
  <2>3. ~EndsRows(FetchStatus) => stmt.cursor + 1 \in 0..Records
    BY <1>1, <2>1 DEF EndsRows, FetchStatus, Stmts
  <2>4. CASE HasResult(s) /\ ~EndsRows(FetchStatus)
    BY <1>1, <2>1, <2>2, <2>3, <2>4, RowTyped, GivesObjects DEF ObjectsOK
  <2>5. CASE ~(HasResult(s) /\ ~EndsRows(FetchStatus))
    BY <1>1, <2>1, <2>2, <2>5, GivesObjects DEF ObjectsOK
  <2> QED
    BY <2>4, <2>5
<1> QED
  BY <1>2, <1>3

\* A getter reads a row, and changes the buffer and the map of its set.
Got(r, named) ==
  r \in Rows /\ Defined /\ sets' = MapAfter(r, named) /\ UNCHANGED <<stmt, res, rows, fresh, reasons>>

LEMMA GettersGet ==
  ASSUME \E r \in RowIds, named \in BOOLEAN, c \in Columns :
           \/ TextGet(r, c, named)
           \/ \E opt \in BOOLEAN : BinaryGet(r, c, named, opt)
  PROVE  \E r \in Rows, named \in BOOLEAN : Got(r, named)
<1>1. PICK r \in RowIds, named \in BOOLEAN, c \in Columns :
        \/ TextGet(r, c, named)
        \/ \E opt \in BOOLEAN : BinaryGet(r, c, named, opt)
  OBVIOUS
<1>2. ASSUME TextGet(r, c, named) PROVE Got(r, named)
  BY <1>2, Zenon DEF TextGet, Got
<1>3. ASSUME \E opt \in BOOLEAN : BinaryGet(r, c, named, opt)
      PROVE  Got(r, named)
  <2>1. PICK opt \in BOOLEAN : BinaryGet(r, c, named, opt)
    BY <1>3
  <2> QED
    BY <2>1, Zenon DEF BinaryGet, Got
<1>4. Got(r, named)
  BY <1>1, <1>2, <1>3, Zenon
<1>5. r \in Rows
  BY <1>4 DEF Got
<1> QED
  BY <1>4, <1>5

\* A lookup by name fills the map of the set, and changes nothing else of it.
LEMMA GetObjects ==
  ASSUME ObjectsOK, NEW r \in Rows, NEW named \in BOOLEAN, sets' = MapAfter(r, named),
         UNCHANGED <<stmt, res, rows>>
  PROVE  /\ ObjectsOK'
         /\ \A s \in SetIds : /\ sets'[s].state = sets[s].state /\ sets'[s].kind = sets[s].kind
                              /\ sets'[s].own = sets[s].own
<1> DEFINE s == rows[r].set
           new == sets[s].map \/ CompileTime(sets[s].kind)
<1>1. s \in SetIds /\ new \in BOOLEAN
  <2>1. s \in SetIds
    BY DEF ObjectsOK
  <2>2. new \in BOOLEAN
    BY Zenon
  <2> QED
    BY <2>1, <2>2
<1>2. sets' = IF named THEN [sets EXCEPT ![s].map = new] ELSE sets
  BY DEF MapAfter
<1> HIDE DEF new
<1>3. /\ sets' \in [SetIds -> SetRecs]
      /\ \A t \in SetIds : /\ sets'[t].state = sets[t].state /\ sets'[t].kind = sets[t].kind
                           /\ sets'[t].own = sets[t].own
  BY <1>1, <1>2 DEF ObjectsOK, SetRecs
<1> QED
  BY <1>3 DEF ObjectsOK, Rows

LEMMA MoveObjects ==
  ASSUME ObjectsOK, NEW s \in SetIds, NEW t \in SetIds,
         MoveConstruct(s, t) \/ MoveAssign(s, t)
  PROVE  ObjectsOK'
<1>1. sets[s] \in SetRecs /\ sets[t] \in SetRecs /\ sets[s].state = "live"
  BY DEF ObjectsOK, MoveConstruct, MoveAssign, Live
<1>2. PICK left \in SetRecs, made \in SetRecs :
        /\ sets' = [sets EXCEPT ![s] = left, ![t] = made] /\ UNCHANGED <<stmt, rows>>
        /\ left.state = "live" /\ left.kind = sets[s].kind
        /\ made.state = "live" /\ made.kind = sets[s].kind
  BY <1>1, MovedTyped, AssignedTyped DEF MoveConstruct, MoveAssign
<1>3. res' \in [Allocs -> Reses]
  BY FreeTyped DEF ObjectsOK, MoveConstruct, MoveAssign
<1>4. /\ sets' \in [SetIds -> SetRecs]
      /\ \A u \in SetIds : u \in {s, t} => sets'[u].state = "live" /\ sets'[u].kind = sets[s].kind
      /\ \A u \in SetIds \ {s, t} : sets'[u] = sets[u]
  BY <1>1, <1>2 DEF ObjectsOK
<1> QED
  BY <1>1, <1>2, <1>3, <1>4 DEF ObjectsOK, Rows

LEMMA DestroyObjects ==
  ASSUME ObjectsOK, NEW s \in SetIds, Destroy(s)
  PROVE  ObjectsOK'
<1> DEFINE dead == [NoSet EXCEPT !.state = "dead", !.kind = sets[s].kind]
<1>1. sets[s] \in SetRecs /\ sets[s].state = "live" /\ sets' = [sets EXCEPT ![s] = dead]
      /\ UNCHANGED <<stmt, rows>>
  BY DEF ObjectsOK, Destroy, Live
<1>2. dead \in SetRecs /\ dead.state = "dead" /\ dead.kind = sets[s].kind
  BY <1>1, NothingTyped DEF NoSet, SetRecs
<1>3. res' \in [Allocs -> Reses]
  BY FreeTyped DEF ObjectsOK, Destroy
<1>4. /\ sets' \in [SetIds -> SetRecs] /\ sets'[s].state = "dead" /\ sets'[s].kind = sets[s].kind
      /\ \A t \in SetIds \ {s} : sets'[t] = sets[t]
  BY <1>1, <1>2 DEF ObjectsOK
<1> QED
  BY <1>1, <1>3, <1>4 DEF ObjectsOK, Rows

LEMMA NextObjects ==
  ASSUME ObjectsOK, [Next]_vars
  PROVE  ObjectsOK'
<1>1. CASE \E s \in SetIds, kind \in Kinds :
             \/ \E a \in Allocs \cup {Null} : Prepared(s, kind, a) \/ Executed(s, kind, a)
             \/ Modified(s, kind) \/ Unanswered(s, kind)
  BY <1>1, PreparedObjects, ExecutedObjects DEF Pointers
<1>2. CASE CloseStatement
  BY <1>2, CloseObjects
<1>3. CASE \E s \in SetIds, r \in RowIds : TextNext(s, r) \/ BinaryNext(s, r)
  BY <1>3, NextRowObjects
<1>4. CASE \E s \in SetIds, t \in SetIds : MoveConstruct(s, t) \/ MoveAssign(s, t)
  BY <1>4, MoveObjects
<1>5. CASE \E s \in SetIds : Destroy(s)
  BY <1>5, DestroyObjects
<1>6. CASE \E r \in RowIds, named \in BOOLEAN, c \in Columns :
             \/ TextGet(r, c, named)
             \/ \E opt \in BOOLEAN : BinaryGet(r, c, named, opt)
  <2>1. PICK r \in Rows, named \in BOOLEAN : Got(r, named)
    BY <1>6, GettersGet
  <2>2. sets' = MapAfter(r, named) /\ UNCHANGED <<stmt, res, rows, fresh, reasons>>
    BY <2>1 DEF Got
  <2> QED
    BY <2>2, GetObjects
<1>7. CASE \/ \E s \in SetIds : NextUndefined(s) \/ CountUndefined(s) \/ FreedTwice(s)
           \/ \E r \in RowIds, named \in BOOLEAN : GetUndefined(r, named)
           \/ UNCHANGED vars
  BY <1>7 DEF NextUndefined, CountUndefined, FreedTwice, GetUndefined, Undefined, vars,
              ObjectsOK, Rows
<1> QED
  BY <1>1, <1>2, <1>3, <1>4, <1>5, <1>6, <1>7 DEF Next

LEMMA Membership == \A x, S : (x \in S) \in BOOLEAN
  OBVIOUS

\* What a getter reads of a row is a value or none.
LEMMA ReadsTyped ==
  ASSUME ObjectsOK, NEW r \in Rows, NEW c \in Columns, NEW opt \in BOOLEAN, NEW flag \in BOOLEAN,
         NEW data \in Values, NEW length \in Values, Reads(r, c, opt, flag, data, length)
  PROVE  got' \in Readings
<1> DEFINE text == Text(sets[rows[r].set].kind)
           null == <<rows[r].rec, c>> \in Nulls
           want == Value(rows[r].from, rows[r].rec, c)
<1>1. text \in BOOLEAN /\ null \in BOOLEAN
  <2>1. text \in BOOLEAN
    BY Membership DEF Text
  <2>2. null \in BOOLEAN
    BY Membership
  <2> QED
    BY <2>1, <2>2
<1>2. want \in Values
  BY DEF Value, Values, ObjectsOK, RowRecs, Rows
<1>3. got' \in {NoRead, [want |-> want, data |-> data, length |-> length, text |-> text,
                        opt |-> opt, flag |-> flag, null |-> null]}
  BY DEF Reads
<1> HIDE DEF text, null, want
<1> QED
  BY <1>1, <1>2, <1>3, NothingTyped DEF Readings

LEMMA TextGetReads ==
  ASSUME ObjectsOK, NEW r \in RowIds, NEW c \in Columns, NEW named \in BOOLEAN,
         TextGet(r, c, named)
  PROVE  got' \in Readings
<1> DEFINE a == rows[r].own
<1>1. r \in Rows /\ rows[r] \in RowRecs /\ RowUsable(r, named) /\ Text(sets[rows[r].set].kind)
  BY DEF TextGet, ObjectsOK
<1>2. CASE Empty(r)
  <2>1. Reads(r, c, FALSE, FALSE, NoValue, NoValue)
    BY <1>2 DEF TextGet
  <2> QED
    BY <1>1, <2>1, NothingTyped, ReadsTyped
<1>3. CASE ~Empty(r)
  <2> DEFINE data   == IF <<rows[r].rec, c>> \in Nulls THEN NoValue ELSE Value(a, rows[r].rec, c)
             length == IF <<res[a].cursor, c>> \in Nulls THEN NoValue
                       ELSE Value(a, res[a].cursor, c)
  <2>1. a \in Allocs
    <3>1. sets[rows[r].set].kind \in AllKinds
      BY <1>1 DEF Text, AllKinds
    <3> QED
      BY <1>1, <1>3, <3>1 DEF RowUsable, Valid, RowRecs, Pointers, Text, AllKinds, ObjectsOK, SetRecs
  <2>2. data \in Values
    BY <1>1, <2>1, NothingTyped DEF Value, Values, Results, RowRecs
  <2>3. length \in Values
    BY <2>1, NothingTyped DEF Value, Values, Results, ObjectsOK, Reses
  <2>4. Reads(r, c, FALSE, FALSE, data, length)
    BY <1>3 DEF TextGet
  <2> HIDE DEF data, length
  <2> QED
    BY <1>1, <2>2, <2>3, <2>4, ReadsTyped
<1> QED
  BY <1>2, <1>3

\* A column that is fetched leaves the flags flags.
LEMMA FlagsAfterTyped ==
  ASSUME flags \in Flags, NEW s \in SetIds, NEW c
  PROVE  FlagsAfter(s, c) \in Flags
<1> DEFINE null == IsNull(c)
<1>1. null \in BOOLEAN
  BY Membership DEF IsNull
<1>2. FlagsAfter(s, c) \in {flags, [flags EXCEPT ![flags[s].ptr].value = null],
                           [flags EXCEPT ![s].ptr = s]}
  BY Zenon DEF FlagsAfter
<1> HIDE DEF null
<1> QED
  BY <1>1, <1>2 DEF Flags

LEMMA BinaryGetReads ==
  ASSUME ObjectsOK, buffer \in [SetIds -> Values], flags \in Flags, NEW r \in RowIds, NEW c \in Columns,
         NEW named \in BOOLEAN, NEW opt \in BOOLEAN, BinaryGet(r, c, named, opt)
  PROVE  got' \in Readings /\ buffer' \in [SetIds -> Values] /\ flags' \in Flags
<1> DEFINE s == rows[r].set
           b == sets[s].buf
<1>1. r \in Rows /\ RowUsable(r, named) /\ ~Text(sets[s].kind)
  BY DEF BinaryGet
<1>2. CASE Empty(r)
  <2>1. Reads(r, c, opt, FALSE, NoValue, NoValue) /\ UNCHANGED <<buffer, flags>>
    BY <1>2 DEF BinaryGet
  <2> QED
    BY <1>1, <2>1, NothingTyped, ReadsTyped
<1>3. CASE ~Empty(r)
  <2>1. b \in SetIds
    BY <1>1, <1>3 DEF RowUsable, Live
  <2>2. BufferAfter(b, c) \in Values
    <3>1. CASE HasRecord /\ ~IsNull(c)
      <4>1. BufferAfter(b, c) = Value(stmt.run, stmt.cursor, c)
        BY <3>1 DEF BufferAfter, fetch_column
      <4>2. stmt.run \in Results /\ stmt.cursor \in 0..Records
        <5>1. stmt.run \in 1..MaxRuns
          BY <3>1, CursorAssumption DEF HasRecord, ObjectsOK, Stmts, Handles
        <5> QED
          BY <3>1, <5>1 DEF HasRecord, Results
      <4> QED
        BY <4>1, <4>2 DEF Value, Values
    <3>2. CASE ~(HasRecord /\ ~IsNull(c))
      BY <2>1, <3>2 DEF BufferAfter
    <3> QED
      BY <3>1, <3>2
  <2>3. buffer' = [buffer EXCEPT ![b] = BufferAfter(b, c)]
    BY <1>3 DEF BinaryGet
  <2> DEFINE read == IF opt /\ flags'[s].value THEN NoValue ELSE BufferAfter(b, c)
  <2>4. Reads(r, c, opt, KeepsFlag(s, c), read, read) /\ flags' = FlagsAfter(s, c)
    BY <1>3, Zenon DEF BinaryGet
  <2>5. KeepsFlag(s, c) \in BOOLEAN
    BY Membership DEF KeepsFlag
  <2>6. read \in Values
    BY <2>2, NothingTyped
  <2>7. flags' \in Flags
    BY <1>1, <2>4, FlagsAfterTyped DEF ObjectsOK
  <2> HIDE DEF read
  <2> QED
    BY <1>1, <2>2, <2>3, <2>4, <2>5, <2>6, <2>7, ReadsTyped
<1> QED
  BY <1>2, <1>3

LEMMA NextReading ==
  ASSUME TypeInv, [Next]_vars
  PROVE  ReadingOK'
<1>1. /\ ObjectsOK /\ buffer \in [SetIds -> Values] /\ flags \in Flags /\ got \in Readings
      /\ undefined \in Kinds \cup {"no"} /\ fresh \subseteq Rows
      /\ reasons \subseteq {"unanswered", "closed", "moved", "assigned", "outlived"}
  BY DEF TypeInv, ReadingOK
<1> USE NothingTyped DEF ReadingOK
<1>2. CASE \E s \in SetIds, kind \in Kinds :
             \/ \E a \in Allocs \cup {Null} : Prepared(s, kind, a) \/ Executed(s, kind, a)
             \/ Modified(s, kind) \/ Unanswered(s, kind)
  BY <1>1, <1>2 DEF Prepared, Executed, Modified, Unanswered, Quiet, Defined, Because, Rows
<1>3. CASE CloseStatement
  BY <1>1, <1>3 DEF CloseStatement, Quiet, Defined, Rows
<1>4. ASSUME NEW s \in SetIds, NEW r \in RowIds, NEW row,
             Gives(s, r, row), Quiet, UNCHANGED <<buffer, flags, reasons>>
      PROVE  ReadingOK'
  <2>1. /\ rows' = [rows EXCEPT ![r] = row]
        /\ fresh' \subseteq fresh \cup {r} /\ (row = NoRow => r \notin fresh')
    BY <1>4 DEF Gives
  <2>2. fresh' \subseteq Rows'
    BY <1>1, <2>1 DEF Rows, ObjectsOK
  <2> QED
    BY <1>1, <1>4, <2>2 DEF Quiet, Defined
<1>5. CASE \E s \in SetIds, r \in RowIds : TextNext(s, r) \/ BinaryNext(s, r)
  BY <1>4, <1>5 DEF TextNext, BinaryNext
<1>6. CASE \E s \in SetIds, t \in SetIds : MoveConstruct(s, t) \/ MoveAssign(s, t)
  BY <1>1, <1>6 DEF MoveConstruct, MoveAssign, Quiet, Defined, Because, Rows, Flags
<1>7. CASE \E s \in SetIds : Destroy(s)
  BY <1>1, <1>7 DEF Destroy, Quiet, Defined, Rows, Flags, NoFlag
<1>8. CASE \E r \in RowIds, named \in BOOLEAN, c \in Columns :
             \/ TextGet(r, c, named)
             \/ \E opt \in BOOLEAN : BinaryGet(r, c, named, opt)
  <2>1. got' \in Readings /\ buffer' \in [SetIds -> Values] /\ flags' \in Flags
    <3>1. ASSUME NEW r \in RowIds, NEW c \in Columns, NEW named \in BOOLEAN, TextGet(r, c, named)
          PROVE  got' \in Readings /\ buffer' \in [SetIds -> Values] /\ flags' \in Flags
      <4>1. UNCHANGED <<buffer, flags>>
        BY <3>1 DEF TextGet
      <4> QED
        BY <1>1, <3>1, <4>1, TextGetReads
    <3>2. ASSUME NEW r \in RowIds, NEW c \in Columns, NEW named \in BOOLEAN, NEW opt \in BOOLEAN,
                 BinaryGet(r, c, named, opt)
          PROVE  got' \in Readings /\ buffer' \in [SetIds -> Values] /\ flags' \in Flags
      BY <1>1, <3>2, BinaryGetReads
    <3> QED
      BY <1>8, <3>1, <3>2
  <2>2. Defined /\ UNCHANGED <<rows, fresh, reasons>>
    BY <1>8, GettersGet DEF Got
  <2>3. undefined' \in Kinds \cup {"no"}
    BY <2>2 DEF Defined
  <2>4. fresh' \subseteq Rows'
    BY <1>1, <2>2 DEF Rows
  <2>5. reasons' \subseteq {"unanswered", "closed", "moved", "assigned", "outlived"}
    BY <1>1, <2>2
  <2> QED
    BY <2>1, <2>3, <2>4, <2>5
<1>9. ASSUME NEW s \in SetIds, sets[s].state # "unborn", Undefined(s)
      PROVE  ReadingOK'
  BY <1>1, <1>9 DEF Undefined, Rows, ObjectsOK
<1>10. CASE \/ \E s \in SetIds : NextUndefined(s) \/ CountUndefined(s) \/ FreedTwice(s)
            \/ \E r \in RowIds, named \in BOOLEAN : GetUndefined(r, named)
  BY <1>1, <1>9, <1>10 DEF NextUndefined, CountUndefined, FreedTwice, GetUndefined, Live, ObjectsOK
<1>11. CASE UNCHANGED vars
  BY <1>1, <1>11 DEF vars, Rows
<1> QED
  BY <1>2, <1>3, <1>5, <1>6, <1>7, <1>8, <1>10, <1>11 DEF Next

LEMMA InitTypes == Init => TypeInv
<1> SUFFICES ASSUME Init PROVE TypeInv
  OBVIOUS
<1>1. /\ MaxRuns \in Nat /\ Records \in Nat
      /\ stmt \in [rows : BOOLEAN, handle : {0}, open : {FALSE}, run : {0}, cursor : {0}]
  BY CursorAssumption DEF Init
<1>2. stmt \in Stmts /\ stmt.handle <= stmt.run /\ ~stmt.open /\ stmt.cursor = 0
  <2>1. /\ stmt.handle = 0 /\ stmt.run = 0 /\ stmt.open = FALSE /\ stmt.cursor = 0
        /\ stmt.rows \in BOOLEAN
    BY <1>1
  <2>2. stmt = [rows |-> stmt.rows, handle |-> 0, open |-> FALSE, run |-> 0, cursor |-> 0]
    BY <1>1
  <2>3. 0 \in Handles /\ 0 \in 0..(Records + 1)
    BY <1>1 DEF Handles
  <2>4. stmt \in Stmts
    BY <2>1, <2>2, <2>3 DEF Stmts
  <2> QED
    BY <2>1, <2>4, <1>1
<1>3. Rows = {}
  BY DEF Init, Rows
<1>4. [state |-> "unused", cursor |-> 0] \in Reses
  BY <1>1 DEF Reses
<1>5. ObjectsOK
  BY <1>2, <1>3, <1>4, NothingTyped DEF Init, ObjectsOK
<1>6. ReadingOK
  BY NothingTyped DEF Init, ReadingOK, Flags, NoFlag
<1> QED
  BY <1>5, <1>6 DEF TypeInv

LEMMA Types == Spec => []TypeInv
<1>1. TypeInv /\ [Next]_vars => TypeInv'
  BY NextObjects, NextReading DEF TypeInv
<1> QED
  BY <1>1, InitTypes, PTL DEF Spec

\* No cursor runs past the place behind its result, and every object is what
\* the code makes of it.
THEOREM CursorTyping == Spec => []TypeOK
<1>1. TypeInv => TypeOK
  BY DEF TypeInv, ObjectsOK, ReadingOK, TypeOK, Stmts, Reses, SetRecs, RowRecs, Readings, Flags,
         Handles, Pointers
<1> QED
  BY <1>1, Types, PTL

-----------------------------------------------------------------------------
(***************************************************************************)
(* Who owns what the client library has allocated.                         *)
(***************************************************************************)
Owns(s) == IF sets[s].state = "live" THEN sets[s].own ELSE Null
Open(a) == res[a].state = "live"

\* What is open is owned, by one set, which owns nothing else.
Owned ==
  /\ \A a \in Allocs : Open(a) => \E s \in SetIds : Owns(s) = a
  /\ \A s, t \in SetIds : s # t /\ Owns(s) # Null => Owns(s) # Owns(t)
  /\ \A s \in SetIds : Owns(s) # Null => Open(Owns(s))

OwnedInv == "assigned" \notin reasons => Owned

LEMMA OwnersTyped ==
  ASSUME ObjectsOK, NEW s \in SetIds
  PROVE  Owns(s) \in Pointers
  BY DEF ObjectsOK, SetRecs, Owns, Pointers

\* A step that makes no set, moves none and frees nothing.
LEMMA OwnersStay ==
  ASSUME ObjectsOK, Owned,
         \A s \in SetIds : Owns(s)' = Owns(s), \A a \in Allocs : Open(a)' = Open(a)
  PROVE  Owned'
<1>1. \A s \in SetIds : Owns(s) # Null => Owns(s) \in Allocs
  BY OwnersTyped DEF Pointers
<1> QED
  BY <1>1 DEF Owned

\* What is allocated belongs to the set that is made over it.
LEMMA OwnersMake ==
  ASSUME ObjectsOK, Owned, NEW s \in SetIds, Owns(s) = Null, NEW a \in Pointers, Owns(s)' = a,
         \A t \in SetIds \ {s} : Owns(t)' = Owns(t),
         a # Null => ~Open(a) /\ Open(a)',
         \A b \in Allocs \ {a} : Open(b)' = Open(b)
  PROVE  Owned'
<1>1. \A t \in SetIds : Owns(t) # Null => Owns(t) \in Allocs /\ Owns(t) # a
  BY OwnersTyped DEF Owned, Pointers
<1>2. \A b \in Allocs : Open(b)' => \E t \in SetIds : Owns(t)' = b
  BY CursorAssumption DEF Owned
<1> QED
  BY <1>1, <1>2 DEF Owned, Pointers

\* A move construction hands on what the source owns.
LEMMA OwnersMove ==
  ASSUME ObjectsOK, Owned, NEW s \in SetIds, NEW t \in SetIds, s # t, Owns(t) = Null,
         Owns(s)' = Null, Owns(t)' = Owns(s),
         \A u \in SetIds \ {s, t} : Owns(u)' = Owns(u),
         \A b \in Allocs : Open(b)' = Open(b)
  PROVE  Owned'
<1>1. \A u \in SetIds : Owns(u) # Null => Owns(u) \in Allocs
  BY OwnersTyped DEF Pointers
<1>2. \A b \in Allocs : Open(b)' => \E u \in SetIds : Owns(u)' = b
  BY CursorAssumption DEF Owned
<1> QED
  BY <1>1, <1>2 DEF Owned

\* An assignment of text sets frees what the target owned, and hands on what
\* the source owns.
LEMMA OwnersAssign ==
  ASSUME ObjectsOK, Owned, NEW s \in SetIds, NEW t \in SetIds, s # t,
         Owns(s)' = Null, Owns(t)' = Owns(s),
         \A u \in SetIds \ {s, t} : Owns(u)' = Owns(u),
         \A b \in Allocs : IF b = Owns(t) THEN ~Open(b)' ELSE Open(b)' = Open(b)
  PROVE  Owned'
<1>1. \A u \in SetIds : Owns(u) # Null => Owns(u) \in Allocs
  BY OwnersTyped DEF Pointers
<1>2. \A b \in Allocs : Open(b)' => \E u \in SetIds : Owns(u)' = b
  BY CursorAssumption DEF Owned
<1>3. \A u \in SetIds \ {t} : Owns(u) # Null => Owns(u) # Owns(t)
  BY DEF Owned
<1> QED
  BY <1>1, <1>2, <1>3 DEF Owned

\* The destructor frees what its set owns.
LEMMA OwnersFree ==
  ASSUME ObjectsOK, Owned, NEW s \in SetIds, Owns(s)' = Null,
         \A u \in SetIds \ {s} : Owns(u)' = Owns(u),
         \A b \in Allocs : IF b = Owns(s) THEN ~Open(b)' ELSE Open(b)' = Open(b)
  PROVE  Owned'
<1>1. \A u \in SetIds : Owns(u) # Null => Owns(u) \in Allocs
  BY OwnersTyped DEF Pointers
<1>2. \A b \in Allocs : Open(b)' => \E u \in SetIds : Owns(u)' = b
  BY DEF Owned
<1>3. \A u \in SetIds \ {s} : Owns(u) # Null => Owns(u) # Owns(s)
  BY DEF Owned
<1> QED
  BY <1>1, <1>2, <1>3 DEF Owned

\* What the user has done is not forgotten.
LEMMA ReasonsStay ==
  ASSUME [Next]_vars
  PROVE  reasons \subseteq reasons'
<1>1. ASSUME NEW s \in SetIds, NEW kind \in Kinds, NEW a,
             \/ Prepared(s, kind, a) \/ Executed(s, kind, a)
             \/ Modified(s, kind) \/ Unanswered(s, kind)
      PROVE  reasons \subseteq reasons'
  BY <1>1 DEF Prepared, Executed, Modified, Unanswered, Because
<1>2. CASE CloseStatement \/ UNCHANGED vars
  BY <1>2 DEF CloseStatement, vars
<1>3. ASSUME NEW s \in SetIds, NEW t,
             \/ TextNext(s, t) \/ BinaryNext(s, t) \/ NextUndefined(s) \/ CountUndefined(s)
             \/ Destroy(s) \/ FreedTwice(s) \/ MoveConstruct(s, t) \/ MoveAssign(s, t)
      PROVE  reasons \subseteq reasons'
  BY <1>3 DEF TextNext, BinaryNext, NextUndefined, CountUndefined, Destroy, FreedTwice,
              MoveConstruct, MoveAssign, Undefined, Because
<1>4. ASSUME NEW r \in RowIds, NEW c, NEW named, NEW opt,
             TextGet(r, c, named) \/ BinaryGet(r, c, named, opt) \/ GetUndefined(r, named)
      PROVE  reasons \subseteq reasons'
  BY <1>4 DEF TextGet, BinaryGet, GetUndefined, Undefined
<1> QED
  BY <1>1, <1>2, <1>3, <1>4 DEF Next

LEMMA NextOwned ==
  ASSUME TypeInv, OwnedInv, [Next]_vars
  PROVE  OwnedInv'
<1> SUFFICES ASSUME "assigned" \notin reasons' PROVE Owned'
  BY DEF OwnedInv
<1>1. ObjectsOK
  BY DEF TypeInv
<1>2. reasons \subseteq reasons'
  BY ReasonsStay
<1>3. Owned
  BY <1>2 DEF OwnedInv
<1>4. ASSUME NEW s \in SetIds, NEW kind \in Kinds, NEW a \in Pointers, NEW h, NEW run,
             h \in Handles, run \in Results,
             sets[s] = NoSet, Construct(s, kind, a, h, run),
             IF a # Null THEN Allocate(a) ELSE res' = res
      PROVE  Owned'
  <2>1. /\ sets'[s].state = "live" /\ sets'[s].own = a
        /\ \A t \in SetIds \ {s} : sets'[t] = sets[t]
    BY <1>1, <1>4, ConstructTyped
  <2>2. Owns(s) = Null /\ Owns(s)' = a /\ \A t \in SetIds \ {s} : Owns(t)' = Owns(t)
    BY <1>4, <2>1, NothingTyped DEF Owns
  <2>3. /\ a # Null => ~Open(a) /\ Open(a)'
        /\ \A b \in Allocs \ {a} : Open(b)' = Open(b)
    BY <1>1, <1>4, AllocateTyped DEF Open
  <2> QED
    BY <1>1, <1>3, <2>2, <2>3, OwnersMake
<1>5. CASE \E s \in SetIds, kind \in Kinds :
             \/ \E a \in Allocs \cup {Null} : Prepared(s, kind, a) \/ Executed(s, kind, a)
             \/ Modified(s, kind) \/ Unanswered(s, kind)
  <2>1. 0 \in Handles /\ Null \in Results /\ Null \in Pointers /\ Allocs \subseteq Results
    BY CursorAssumption DEF Handles, Results, Pointers
  <2>2. ASSUME NEW s \in SetIds, NEW kind \in Kinds, NEW a \in Pointers, Prepared(s, kind, a)
        PROVE  Owned'
    <3>1. stmt' \in Stmts /\ stmt'.run # 0
      <4>1. stmt' \in Stmts
        BY <1>1, <2>2, PreparedObjects DEF ObjectsOK
      <4>2. stmt'.run = stmt.run + 1 /\ stmt.run \in Nat
        BY <1>1, <2>2, CursorAssumption DEF Prepared, ObjectsOK, Stmts, Handles
      <4> QED
        BY <4>1, <4>2
    <3>2. stmt'.handle \in Handles /\ stmt'.run \in Results
      BY <3>1, CursorAssumption DEF Stmts, Handles, Results
    <3>3. IF a # Null THEN Allocate(a) ELSE res' = res
      BY <2>2 DEF Prepared, Allocate
    <3> QED
      BY <1>4, <2>2, <3>2, <3>3 DEF Prepared
  <2>3. ASSUME NEW s \in SetIds, NEW kind \in Kinds, NEW a \in Pointers, Executed(s, kind, a)
        PROVE  Owned'
    BY <1>4, <2>1, <2>3 DEF Executed, Allocate, Pointers
  <2>4. ASSUME NEW s \in SetIds, NEW kind \in Kinds, Modified(s, kind) \/ Unanswered(s, kind)
        PROVE  Owned'
    BY <1>4, <2>1, <2>4 DEF Modified, Unanswered
  <2> QED
    BY <1>5, <2>2, <2>3, <2>4 DEF Pointers
<1>6. CASE \E s \in SetIds, r \in RowIds : TextNext(s, r)
  <2>1. PICK s \in SetIds, r \in RowIds : TextNext(s, r)
    BY <1>6
  <2>2. \A a \in Allocs : Open(a)' = Open(a)
    BY <1>1, <2>1 DEF TextNext, Open, ObjectsOK, Reses
  <2>3. \A u \in SetIds : Owns(u)' = Owns(u)
    BY <2>1 DEF TextNext, Owns
  <2> QED
    BY <1>1, <1>3, <2>2, <2>3, OwnersStay
<1>7. ASSUME UNCHANGED <<res, sets>>
      PROVE  Owned'
  BY <1>1, <1>3, <1>7, OwnersStay DEF Owns, Open
<1>8. CASE \/ CloseStatement \/ UNCHANGED vars
           \/ \E s \in SetIds : \/ \E r \in RowIds : BinaryNext(s, r)
                               \/ NextUndefined(s) \/ CountUndefined(s) \/ FreedTwice(s)
           \/ \E r \in RowIds, named \in BOOLEAN : GetUndefined(r, named)
  BY <1>7, <1>8 DEF CloseStatement, vars, BinaryNext, NextUndefined, CountUndefined,
                    FreedTwice, GetUndefined, Undefined
<1>9. CASE \E r \in RowIds, named \in BOOLEAN, c \in Columns :
             \/ TextGet(r, c, named)
             \/ \E opt \in BOOLEAN : BinaryGet(r, c, named, opt)
  <2>4. PICK r \in Rows, named \in BOOLEAN : Got(r, named)
    BY <1>9, GettersGet
  <2>1. r \in Rows /\ sets' = MapAfter(r, named) /\ UNCHANGED <<stmt, res, rows>>
    BY <2>4 DEF Got
  <2>2. \A u \in SetIds : Owns(u)' = Owns(u)
    BY <1>1, <2>1, GetObjects DEF Owns
  <2> QED
    BY <1>1, <1>3, <2>1, <2>2, OwnersStay DEF Open
<1>10. CASE \E s \in SetIds, t \in SetIds : MoveConstruct(s, t)
  <2>1. PICK s \in SetIds, t \in SetIds : MoveConstruct(s, t)
    BY <1>10
  <2>2. /\ s # t /\ sets[s].state = "live" /\ sets[s] \in SetRecs /\ sets[t] = NoSet
        /\ sets' = [sets EXCEPT ![s] = MovedFrom(sets[s]), ![t] = MovedTo(sets[s])]
        /\ res' = res
    BY <1>1, <2>1, NothingTyped DEF MoveConstruct, Live, ObjectsOK
  <2>3. /\ Owns(t) = Null /\ Owns(s)' = Null /\ Owns(t)' = Owns(s)
        /\ \A u \in SetIds \ {s, t} : Owns(u)' = Owns(u)
    BY <1>1, <2>2, MovedTyped, NothingTyped DEF Owns, ObjectsOK
  <2> QED
    BY <1>1, <1>3, <2>2, <2>3, OwnersMove DEF Open
<1>11. CASE \E s \in SetIds, t \in SetIds : MoveAssign(s, t)
  <2>1. PICK s \in SetIds, t \in SetIds : MoveAssign(s, t)
    BY <1>11
  <2>2. /\ s # t /\ sets[s].state = "live" /\ sets[t].state = "live"
        /\ sets[s] \in SetRecs /\ sets[t] \in SetRecs
        /\ Text(sets[s].kind) /\ sets[t].kind = sets[s].kind
        /\ sets' = [sets EXCEPT ![s] = AssignedFrom(sets[s]), ![t] = AssignedTo(sets[t], sets[s])]
        /\ FreeAll({sets[t].own})
    BY <1>1, <2>1 DEF MoveAssign, Live, ObjectsOK, FreedByAssign
  <2>3. /\ Owns(s)' = Null /\ Owns(t)' = Owns(s)
        /\ \A u \in SetIds \ {s, t} : Owns(u)' = Owns(u)
    BY <1>1, <2>2, MovedTyped, AssignedTyped DEF Owns, ObjectsOK
  <2>4. \A b \in Allocs : IF b = Owns(t) THEN ~Open(b)' ELSE Open(b)' = Open(b)
    BY <1>1, <2>2, FreeTyped DEF Owns, Open, ObjectsOK
  <2> QED
    BY <1>1, <1>3, <2>2, <2>3, <2>4, OwnersAssign
<1>12. CASE \E s \in SetIds : Destroy(s)
  <2>1. PICK s \in SetIds : Destroy(s)
    BY <1>12
  <2>2. /\ sets[s].state = "live" /\ FreeAll({sets[s].own})
        /\ sets' = [sets EXCEPT ![s] = [NoSet EXCEPT !.state = "dead", !.kind = sets[s].kind]]
    BY <2>1 DEF Destroy, Live
  <2>3. sets'[s].state = "dead" /\ \A u \in SetIds \ {s} : sets'[u] = sets[u]
    BY <1>1, <2>2 DEF ObjectsOK, NoSet
  <2>4. \A b \in Allocs : IF b = Owns(s) THEN ~Open(b)' ELSE Open(b)' = Open(b)
    BY <1>1, <2>2, FreeTyped DEF Owns, Open, ObjectsOK
  <2> QED
    BY <1>1, <1>3, <2>3, <2>4, OwnersFree DEF Owns
<1> QED
  BY <1>5, <1>6, <1>8, <1>9, <1>10, <1>11, <1>12 DEF Next

\* Nothing the client library has allocated is lost, shared or freed twice by
\* constructing, moving, assigning and destroying, the assignment of binary sets
\* excepted.
THEOREM OwnedByOne == Spec => []OwnedOnce
<1>1. Init => OwnedInv
  BY NothingTyped DEF Init, OwnedInv, Owned, Owns, Open
<1>2. TypeInv /\ OwnedInv /\ [Next]_vars => OwnedInv'
  BY NextOwned
<1>3. TypeInv /\ OwnedInv => OwnedOnce
  <2> SUFFICES ASSUME TypeInv, OwnedInv, "assigned" \notin reasons
               PROVE  OwnedOnce
    BY DEF OwnedOnce
  <2>1. Owned /\ ObjectsOK /\ Null \notin Allocs
    BY CursorAssumption DEF OwnedInv, TypeInv
  <2>2. \A s \in SetIds : Owns(s) \in Pointers
    BY <2>1, OwnersTyped
  <2> QED
    BY <2>1, <2>2 DEF OwnedOnce, Owned, Owns, Open, Live, Valid, Pointers
<1> QED
  BY <1>1, <1>2, <1>3, Types, PTL DEF Spec

-----------------------------------------------------------------------------
(***************************************************************************)
(* Rows, for any number of sets, rows, records and runs: what a current    *)
(* row reads, in which order records are handed out, and what makes a use  *)
(* undefined.                                                              *)
(***************************************************************************)
\* What a set that is in use knows of the result it was made over.
SetOK(s) ==
  LET set == sets[s] IN
  IF Text(set.kind)
  THEN /\ set.stmt = 0
       /\ set.own # Null => set.run = set.own /\ (~CompileTime(set.kind) => set.map)
  ELSE set.stmt # 0 => /\ set.run \in 1..stmt.run
                       /\ ~CompileTime(set.kind) /\ stmt.rows => set.map

\* The result of a text set is its own, also after binary sets were assigned.
TextOwned ==
  /\ \A s, t \in SetIds :
       s # t /\ Text(sets[s].kind) /\ Owns(s) # Null => Owns(s) # Owns(t)
  /\ \A s \in SetIds : Owns(s) # Null =>
       /\ res[Owns(s)].state # "unused"
       /\ Text(sets[s].kind) => res[Owns(s)].state = "live"

\* A current row is the one its cursor is on.
TextFresh(r) ==
  LET row == rows[r]  set == sets[row.set] IN
  /\ row.stmt = 0 /\ row.own \in Allocs /\ row.from = row.own
  /\ IF set.state = "live" THEN set.own = row.own ELSE res[row.own].state = "freed"
  /\ res[row.own].state # "freed" => row.rec = res[row.own].cursor
BinaryFresh(r) ==
  rows[r].stmt # 0 /\ rows[r].from = stmt.run /\ rows[r].rec = stmt.cursor
FreshRow(r) ==
  LET set == sets[rows[r].set] IN
  /\ rows[r].rec \in 1..Records
  /\ IF Text(set.kind) THEN TextFresh(r) ELSE BinaryFresh(r)
  /\ set.state = "live" /\ ~CompileTime(set.kind) => set.map

CursorInv ==
  /\ \A s \in SetIds : Live(s) => SetOK(s)
  /\ TextOwned
  /\ \A r \in fresh : FreshRow(r)
-----------------------------------------------------------------------------
(***************************************************************************)
(* What the steps do to the objects.                                       *)
(***************************************************************************)
\* The constants are numbers and objects apart.
LEMMA Numbers == MaxRuns \in Nat /\ Records \in Nat \ {0} /\ Null \notin 0..MaxRuns
                 /\ Allocs \cap (0..MaxRuns) = {} /\ Null \notin Allocs /\ Wild \notin Pointers
  BY CursorAssumption DEF Pointers

\* What a constructor makes of a set.
LEMMA ConstructEffect ==
  ASSUME ObjectsOK, NEW s \in SetIds, NEW kind \in Kinds, NEW a \in Pointers, NEW h \in Handles,
         NEW run \in Results, Construct(s, kind, a, h, run)
  PROVE  /\ sets'[s].state = "live" /\ sets'[s].kind = kind /\ sets'[s].stmt = h
         /\ sets'[s].run = run /\ sets'[s].own = a /\ sets'[s].fields = a /\ sets'[s].buf = s
         /\ sets'[s].map <=> ~CompileTime(kind) /\ a # Null
         /\ \A t \in SetIds \ {s} : sets'[t] = sets[t]
  BY DEF ObjectsOK, Construct

\* What a move construction leaves of its source.
LEMMA MovedFromEffect ==
  ASSUME NEW set \in SetRecs
  PROVE  LET left == MovedFrom(set) IN
         /\ left.state = set.state /\ left.kind = set.kind /\ left.stmt = 0 /\ left.own = Null
         /\ left.run = Null /\ left.buf = set.buf
         /\ IF CompileTime(set.kind) THEN left.fields = set.fields /\ left.map = set.map
            ELSE left.fields = Null /\ ~left.map
  BY DEF MovedFrom, SetRecs

\* What it makes of its target.
LEMMA MovedToEffect ==
  ASSUME NEW set \in SetRecs
  PROVE  LET made == MovedTo(set) IN
         /\ made.state = set.state /\ made.kind = set.kind /\ made.stmt = set.stmt
         /\ made.own = set.own /\ made.run = set.run /\ made.buf = set.buf
         /\ ~CompileTime(set.kind) => made = set
  BY DEF MovedTo, SetRecs

\* What an assignment leaves of its source.
LEMMA AssignedFromEffect ==
  ASSUME NEW set \in SetRecs
  PROVE  LET left == AssignedFrom(set) IN
         /\ left.state = set.state /\ left.kind = set.kind /\ left.stmt = 0
         /\ left.run = Null /\ left.own = IF Text(set.kind) THEN Null ELSE set.own
         /\ ~CompileTime(set.kind) => ~left.map
<1>1. CASE Text(set.kind)
  BY <1>1, MovedFromEffect DEF AssignedFrom
<1>2. CASE ~Text(set.kind)
  BY <1>2 DEF AssignedFrom, SetRecs
<1> QED
  BY <1>1, <1>2

\* What it makes of its target.
LEMMA AssignedToEffect ==
  ASSUME NEW target \in SetRecs, NEW set \in SetRecs
  PROVE  LET made == AssignedTo(target, set) IN
         /\ made.state = set.state /\ made.kind = set.kind /\ made.stmt = set.stmt
         /\ made.own = set.own /\ made.run = set.run
         /\ ~CompileTime(set.kind) => made = set
  BY DEF AssignedTo, SetRecs

\* A getter changes the map of its set only.
LEMMA GetEffect ==
  ASSUME ObjectsOK, NEW r \in Rows, NEW named \in BOOLEAN, sets' = MapAfter(r, named)
  PROVE  \A s \in SetIds :
           /\ sets'[s].state = sets[s].state /\ sets'[s].kind = sets[s].kind
           /\ sets'[s].stmt = sets[s].stmt /\ sets'[s].run = sets[s].run
           /\ sets'[s].own = sets[s].own /\ sets'[s].fields = sets[s].fields
           /\ sets'[s].buf = sets[s].buf
           /\ ~CompileTime(sets[s].kind) => sets'[s].map = sets[s].map
<1> DEFINE s == rows[r].set
           new == sets[s].map \/ CompileTime(sets[s].kind)
<1>1. s \in SetIds /\ sets[s] \in SetRecs
  BY DEF ObjectsOK
<1>2. sets' = IF named THEN [sets EXCEPT ![s].map = new] ELSE sets
  BY DEF MapAfter
<1>3. ~CompileTime(sets[s].kind) => new = sets[s].map
  BY <1>1, Zenon DEF SetRecs
<1> HIDE DEF new
<1> QED
  BY <1>1, <1>2, <1>3 DEF ObjectsOK, SetRecs

\* A destructor ends its set and frees what that owns.
LEMMA DestroyEffect ==
  ASSUME ObjectsOK, NEW s \in SetIds, Destroy(s)
  PROVE  /\ sets[s].state = "live" /\ sets'[s].state = "dead" /\ sets'[s].kind = sets[s].kind
         /\ \A t \in SetIds \ {s} : sets'[t] = sets[t]
         /\ \A a \in Allocs : IF a = sets[s].own THEN res'[a].state = "freed"
                              ELSE res'[a] = res[a]
  BY DEF ObjectsOK, Destroy, Live, NoSet, FreeAll
-----------------------------------------------------------------------------
(***************************************************************************)
(* The results of text sets.                                               *)
(***************************************************************************)
\* The steps that only read: rows and maps.
LEMMA OwnersKept ==
  ASSUME ObjectsOK, TextOwned,
         \A s \in SetIds : /\ sets'[s].state = sets[s].state /\ sets'[s].kind = sets[s].kind
                           /\ sets'[s].own = sets[s].own,
         \A a \in Allocs : res'[a].state = res[a].state
  PROVE  TextOwned'
<1>1. \A s \in SetIds : Owns(s)' = Owns(s) /\ (Owns(s) # Null => Owns(s) \in Allocs)
  BY OwnersTyped DEF Owns, Pointers
<1> QED
  BY <1>1 DEF TextOwned

\* A set that is made over an allocation shares it with no other.
LEMMA OwnersConstructed ==
  ASSUME ObjectsOK, TextOwned, NEW s \in SetIds, NEW kind \in Kinds, NEW a \in Pointers,
         NEW h \in Handles, NEW run \in Results, sets[s] = NoSet,
         Construct(s, kind, a, h, run), IF a # Null THEN Allocate(a) ELSE res' = res
  PROVE  TextOwned'
<1>1. /\ sets'[s].state = "live" /\ sets'[s].kind = kind /\ sets'[s].own = a
      /\ \A t \in SetIds \ {s} : sets'[t] = sets[t]
  BY ConstructEffect
<1>2. Owns(s)' = a /\ \A t \in SetIds \ {s} : Owns(t)' = Owns(t)
  BY <1>1 DEF Owns
<1>3. a # Null => /\ res[a].state = "unused" /\ res'[a].state = "live"
                  /\ \A b \in Allocs \ {a} : res'[b] = res[b]
  BY AllocateTyped
<1>4. \A t \in SetIds : Owns(t) # Null => Owns(t) \in Allocs /\ Owns(t) # a
  BY <1>3, OwnersTyped DEF Pointers, TextOwned
<1>5. \A t \in SetIds : Owns(t)' # Null =>
        /\ res'[Owns(t)'].state # "unused"
        /\ Text(sets'[t].kind) => res'[Owns(t)'].state = "live"
  BY <1>1, <1>2, <1>3, <1>4 DEF TextOwned
<1>6. \A t, u \in SetIds :
        t # u /\ Text(sets'[t].kind) /\ Owns(t)' # Null => Owns(t)' # Owns(u)'
  BY <1>1, <1>2, <1>4 DEF TextOwned
<1> QED
  BY <1>5, <1>6 DEF TextOwned

\* A move construction hands the result over.
LEMMA OwnersMoved ==
  ASSUME ObjectsOK, TextOwned, NEW s \in SetIds, NEW t \in SetIds, MoveConstruct(s, t)
  PROVE  TextOwned'
<1>1. /\ s # t /\ sets[s] \in SetRecs /\ sets[t].state = "unborn" /\ sets[s].state = "live"
      /\ sets' = [sets EXCEPT ![s] = MovedFrom(sets[s]), ![t] = MovedTo(sets[s])]
      /\ sets \in [SetIds -> SetRecs] /\ res' = res
  BY NothingTyped DEF MoveConstruct, Live, ObjectsOK
<1>2. /\ sets'[s].own = Null /\ sets'[s].state = "live"
      /\ sets'[t].own = sets[s].own /\ sets'[t].state = "live" /\ sets'[t].kind = sets[s].kind
      /\ \A u \in SetIds \ {s, t} : sets'[u] = sets[u]
  BY <1>1, MovedFromEffect, MovedToEffect
<1>3. /\ Owns(s)' = Null /\ Owns(t)' = Owns(s) /\ \A u \in SetIds \ {s, t} : Owns(u)' = Owns(u)
  BY <1>1, <1>2 DEF Owns
<1>5. \A u \in SetIds : Owns(u)' # Null =>
        /\ res'[Owns(u)'].state # "unused"
        /\ Text(sets'[u].kind) => res'[Owns(u)'].state = "live"
  BY <1>1, <1>2, <1>3 DEF TextOwned
<1>6. ASSUME NEW u \in SetIds, NEW v \in SetIds, u # v, Text(sets'[u].kind), Owns(u)' # Null
      PROVE  Owns(u)' # Owns(v)'
  BY <1>2, <1>3, <1>6 DEF TextOwned
<1> QED
  BY <1>5, <1>6 DEF TextOwned

\* An assignment hands it over and frees the one of its target.
LEMMA OwnersAssigned ==
  ASSUME ObjectsOK, TextOwned, NEW s \in SetIds, NEW t \in SetIds, MoveAssign(s, t)
  PROVE  TextOwned'
<1>1. /\ s # t /\ sets[s] \in SetRecs /\ sets[t] \in SetRecs
      /\ sets[s].state = "live" /\ sets[t].state = "live" /\ sets[t].kind = sets[s].kind
      /\ sets' = [sets EXCEPT ![s] = AssignedFrom(sets[s]), ![t] = AssignedTo(sets[t], sets[s])]
      /\ sets \in [SetIds -> SetRecs] /\ FreeAll(FreedByAssign(sets[t]))
  BY DEF MoveAssign, Live, ObjectsOK
<1>2. /\ sets'[s].own = (IF Text(sets[s].kind) THEN Null ELSE sets[s].own)
      /\ sets'[s].state = "live" /\ sets'[s].kind = sets[s].kind
      /\ sets'[t].own = sets[s].own /\ sets'[t].state = "live" /\ sets'[t].kind = sets[s].kind
      /\ \A u \in SetIds \ {s, t} : sets'[u] = sets[u]
  BY <1>1, AssignedFromEffect, AssignedToEffect
<1>3. /\ Owns(s)' = IF Text(sets[s].kind) THEN Null ELSE Owns(s)
      /\ Owns(t)' = Owns(s) /\ \A u \in SetIds \ {s, t} : Owns(u)' = Owns(u)
      /\ \A u \in SetIds : sets'[u].kind = sets[u].kind
  BY <1>1, <1>2 DEF Owns
<1>4. \A b \in Allocs : IF Text(sets[s].kind) /\ b = Owns(t) THEN res'[b].state = "freed"
                        ELSE res'[b].state = res[b].state
  BY <1>1, FreeTyped DEF FreedByAssign, Owns, ObjectsOK
<1>5. \A u \in SetIds : Owns(u) # Null => Owns(u) \in Allocs
  BY OwnersTyped DEF Pointers
<1>6. \A u \in SetIds : Owns(u)' # Null =>
        /\ res'[Owns(u)'].state # "unused"
        /\ Text(sets'[u].kind) => res'[Owns(u)'].state = "live"
  <2> SUFFICES ASSUME NEW u \in SetIds, Owns(u)' # Null
               PROVE  /\ res'[Owns(u)'].state # "unused"
                      /\ Text(sets'[u].kind) => res'[Owns(u)'].state = "live"
    OBVIOUS
  <2> DEFINE w == IF u = t THEN s ELSE u
  <2>1. w \in SetIds /\ Owns(u)' = Owns(w) /\ sets'[u].kind = sets[w].kind /\ w # t
    BY <1>1, <1>3
  <2> HIDE DEF w
  <2>2. Text(sets[s].kind) /\ Owns(t) # Null => Owns(w) # Owns(t)
    BY <1>1, <2>1 DEF TextOwned
  <2> QED
    BY <1>4, <1>5, <2>1, <2>2 DEF TextOwned
<1>7. ASSUME NEW u \in SetIds, NEW v \in SetIds, u # v, Text(sets'[u].kind), Owns(u)' # Null
      PROVE  Owns(u)' # Owns(v)'
  BY <1>1, <1>3, <1>7 DEF TextOwned
<1> QED
  BY <1>6, <1>7 DEF TextOwned

\* A destructor frees what its set owns alone.
LEMMA OwnersDestroyed ==
  ASSUME ObjectsOK, TextOwned, NEW s \in SetIds, Destroy(s)
  PROVE  TextOwned'
<1>1. /\ sets[s].state = "live" /\ sets'[s].state = "dead"
      /\ \A t \in SetIds \ {s} : sets'[t] = sets[t]
      /\ \A a \in Allocs : IF a = Owns(s) THEN res'[a].state = "freed" ELSE res'[a] = res[a]
  BY DestroyEffect DEF Owns
<1>2. Owns(s)' = Null /\ \A t \in SetIds \ {s} : Owns(t)' = Owns(t) /\ sets'[t] = sets[t]
  BY <1>1 DEF Owns
<1>3. \A t \in SetIds : Owns(t) # Null => Owns(t) \in Allocs
  BY OwnersTyped DEF Pointers
<1>4. \A t \in SetIds : Owns(t)' # Null =>
        /\ res'[Owns(t)'].state # "unused"
        /\ Text(sets'[t].kind) => res'[Owns(t)'].state = "live"
  BY <1>1, <1>2, <1>3 DEF TextOwned
<1>5. ASSUME NEW u \in SetIds, NEW v \in SetIds, u # v, Text(sets'[u].kind), Owns(u)' # Null
      PROVE  Owns(u)' # Owns(v)'
  BY <1>2, <1>5 DEF TextOwned
<1> QED
  BY <1>4, <1>5 DEF TextOwned
-----------------------------------------------------------------------------
(***************************************************************************)
(* Current rows.                                                           *)
(***************************************************************************)
SetsOK   == \A s \in SetIds : Live(s) => SetOK(s)
FreshOK  == \A r \in fresh : FreshRow(r)

\* What a fresh row of a text set is of was allocated.
LEMMA FreshAllocated ==
  ASSUME TypeInv, TextOwned, NEW r \in fresh, FreshRow(r), Text(sets[rows[r].set].kind)
  PROVE  rows[r].own \in Allocs /\ res[rows[r].own].state # "unused"
<1>1. rows[r].set \in SetIds /\ TextFresh(r)
  BY DEF TypeInv, ReadingOK, ObjectsOK, FreshRow
<1>2. CASE sets[rows[r].set].state = "live"
  <2>1. Owns(rows[r].set) = rows[r].own /\ rows[r].own # Null
    BY <1>1, <1>2, Numbers DEF TextFresh, Owns
  <2> QED
    BY <1>1, <2>1 DEF TextOwned, TextFresh
<1> QED
  BY <1>1, <1>2 DEF TextFresh

\* A row stays the current one of its result while that stays where it is.
LEMMA FreshKept ==
  ASSUME TypeInv, NEW r \in fresh, FreshRow(r), rows'[r] = rows[r],
         sets'[rows[r].set].state = sets[rows[r].set].state,
         sets'[rows[r].set].kind = sets[rows[r].set].kind,
         sets'[rows[r].set].own = sets[rows[r].set].own,
         ~CompileTime(sets[rows[r].set].kind) => sets'[rows[r].set].map = sets[rows[r].set].map,
         IF Text(sets[rows[r].set].kind)
         THEN res'[rows[r].own] = res[rows[r].own] \/ res'[rows[r].own].state = "freed"
         ELSE stmt'.run = stmt.run /\ stmt'.cursor = stmt.cursor
  PROVE  FreshRow(r)'
<1>1. CASE Text(sets[rows[r].set].kind)
  <2>1. TextFresh(r)
    BY <1>1 DEF FreshRow
  <2>2. TextFresh(r)'
    BY <1>1, <2>1 DEF TextFresh
  <2> QED
    BY <1>1, <2>2 DEF FreshRow
<1>2. CASE ~Text(sets[rows[r].set].kind)
  BY <1>2 DEF FreshRow, BinaryFresh
<1> QED
  BY <1>1, <1>2

\* Rows of the statement, and rows of text sets.
LEMMA FreshKinds ==
  ASSUME TypeInv, NEW r \in fresh, FreshRow(r)
  PROVE  /\ r \in RowIds /\ r \in Rows /\ rows[r].set \in SetIds
         /\ sets[rows[r].set].state # "unborn"
         /\ Text(sets[rows[r].set].kind) <=> rows[r].stmt = 0
         /\ r \in RowsOfStatement <=> rows[r].stmt # 0
  BY DEF TypeInv, ReadingOK, ObjectsOK, FreshRow, TextFresh, BinaryFresh, Rows, RowsOfStatement

\* A set keeps what it knows while it is left alone.
LEMMA SetKept ==
  ASSUME NEW s \in SetIds, SetOK(s), stmt'.rows = stmt.rows,
         stmt \in Stmts, stmt' \in Stmts, stmt.run <= stmt'.run,
         sets'[s].kind = sets[s].kind, sets'[s].stmt = sets[s].stmt,
         sets'[s].own = sets[s].own, sets'[s].run = sets[s].run,
         ~CompileTime(sets[s].kind) => sets'[s].map = sets[s].map
  PROVE  SetOK(s)'
<1>1. stmt.run \in Int /\ stmt'.run \in Int
  BY DEF Stmts, Handles
<1>2. \A i : i \in 1..stmt.run => i \in 1..stmt'.run
  BY <1>1
<1>3. CASE Text(sets[s].kind)
  BY <1>3 DEF SetOK
<1>4. CASE ~Text(sets[s].kind)
  BY <1>2, <1>4 DEF SetOK
<1> QED
  BY <1>3, <1>4

\* A new run of the statement, after which none of its rows is current.
LEMMA PreparedCursor ==
  ASSUME TypeInv, CursorInv, NEW s \in SetIds, NEW kind \in Kinds, NEW a \in Pointers,
         Prepared(s, kind, a)
  PROVE  CursorInv'
<1>1. /\ sets[s] = NoSet /\ ~Text(kind) /\ rows' = rows /\ fresh' = fresh \ RowsOfStatement
      /\ stmt' = [stmt EXCEPT !.handle = HandleUsed, !.open = TRUE, !.run = @ + 1, !.cursor = 0]
      /\ stmt \in Stmts /\ Construct(s, kind, a, stmt'.handle, stmt'.run)
      /\ IF stmt.rows THEN Allocate(a) ELSE a = Null /\ res' = res
  BY DEF Prepared, TypeInv, ObjectsOK
<1>2. ObjectsOK' /\ ObjectsOK
  BY PreparedObjects DEF TypeInv
<1>3. /\ stmt'.run = stmt.run + 1 /\ stmt'.rows = stmt.rows /\ stmt.run \in Nat
      /\ stmt' \in Stmts /\ stmt'.run \in 1..MaxRuns
  <2>1. stmt' = [rows |-> stmt.rows, handle |-> HandleUsed, open |-> TRUE,
                 run |-> stmt.run + 1, cursor |-> 0]
    BY <1>1 DEF Stmts
  <2>2. stmt' \in Stmts /\ stmt.run \in Nat
    BY <1>1, <1>2 DEF ObjectsOK, Stmts, Handles
  <2>3. stmt'.run = stmt.run + 1 /\ stmt'.rows = stmt.rows
    BY <2>1
  <2>4. stmt'.run \in 0..MaxRuns
    BY <2>2 DEF Stmts, Handles
  <2> QED
    BY <2>2, <2>3, <2>4
<1>4. stmt'.handle \in Handles /\ stmt'.run \in Results
  BY <1>3 DEF Stmts, Results
<1>5. IF a # Null THEN Allocate(a) ELSE res' = res
  BY <1>1 DEF Allocate
<1>6. TextOwned'
  BY <1>1, <1>2, <1>4, <1>5, OwnersConstructed DEF CursorInv
<1>7. /\ sets'[s].state = "live" /\ sets'[s].kind = kind /\ sets'[s].run = stmt'.run
      /\ sets'[s].map <=> ~CompileTime(kind) /\ a # Null
      /\ \A t \in SetIds \ {s} : sets'[t] = sets[t]
  BY <1>1, <1>2, <1>4, ConstructEffect
<1>8. SetsOK'
  <2> SUFFICES ASSUME NEW t \in SetIds, Live(t)' PROVE SetOK(t)'
    BY DEF SetsOK
  <2>1. CASE t = s
    BY <1>1, <1>3, <1>7, <2>1 DEF SetOK, Allocate
  <2>2. CASE t # s
    BY <1>1, <1>3, <1>7, <2>2, SetKept DEF CursorInv, Live
  <2> QED
    BY <2>1, <2>2
<1>9. FreshOK'
  <2> SUFFICES ASSUME NEW r \in fresh, r \notin RowsOfStatement PROVE FreshRow(r)'
    BY <1>1 DEF FreshOK
  <2>1. FreshRow(r) /\ Text(sets[rows[r].set].kind) /\ rows[r].set \in SetIds \ {s}
    BY <1>1, FreshKinds, NothingTyped DEF CursorInv
  <2>2. res'[rows[r].own] = res[rows[r].own]
    BY <1>1, <1>2, <2>1, FreshAllocated, AllocateTyped DEF CursorInv
  <2> QED
    BY <1>1, <1>7, <2>1, <2>2, FreshKept
<1> QED
  BY <1>6, <1>8, <1>9 DEF CursorInv, SetsOK, FreshOK

\* A new set over a result, or over none.
LEMMA ExecutedCursor ==
  ASSUME TypeInv, CursorInv, NEW s \in SetIds, NEW kind \in Kinds, NEW a \in Pointers,
         Executed(s, kind, a) \/ (a = Null /\ (Modified(s, kind) \/ Unanswered(s, kind)))
  PROVE  CursorInv'
<1>1. /\ sets[s] = NoSet /\ rows' = rows /\ fresh' = fresh /\ stmt' = stmt
      /\ Construct(s, kind, a, 0, a) /\ ObjectsOK /\ stmt \in Stmts
      /\ Text(kind) \/ a = Null
  BY DEF Executed, Modified, Unanswered, TypeInv, ObjectsOK
<1>2. IF a # Null THEN Allocate(a) ELSE res' = res
  BY DEF Executed, Modified, Unanswered, Allocate
<1>3. 0 \in Handles /\ a \in Results
  BY Numbers DEF Handles, Results, Pointers
<1>4. TextOwned'
  BY <1>1, <1>2, <1>3, OwnersConstructed DEF CursorInv
<1>5. /\ sets'[s].state = "live" /\ sets'[s].kind = kind /\ sets'[s].run = a
      /\ sets'[s].own = a /\ sets'[s].stmt = 0
      /\ sets'[s].map <=> ~CompileTime(kind) /\ a # Null
      /\ \A t \in SetIds \ {s} : sets'[t] = sets[t]
  BY <1>1, <1>3, ConstructEffect
<1>6. SetsOK'
  <2> SUFFICES ASSUME NEW t \in SetIds, Live(t)' PROVE SetOK(t)'
    BY DEF SetsOK
  <2>1. CASE t = s
    BY <1>5, <2>1 DEF SetOK
  <2>2. CASE t # s
    <3>1. stmt.run <= stmt'.run
      BY <1>1 DEF Stmts, Handles
    <3> QED
      BY <1>1, <1>5, <2>2, <3>1, SetKept DEF CursorInv, Live
  <2> QED
    BY <2>1, <2>2
<1>7. FreshOK'
  <2> SUFFICES ASSUME NEW r \in fresh PROVE FreshRow(r)'
    BY <1>1 DEF FreshOK
  <2>1. FreshRow(r) /\ rows[r].set \in SetIds \ {s}
    BY <1>1, FreshKinds, NothingTyped DEF CursorInv
  <2>2. Text(sets[rows[r].set].kind) => res'[rows[r].own] = res[rows[r].own]
    BY <1>1, <1>2, <2>1, FreshAllocated, AllocateTyped DEF CursorInv
  <2> QED
    BY <1>1, <1>5, <2>1, <2>2, FreshKept
<1> QED
  BY <1>4, <1>6, <1>7 DEF CursorInv, SetsOK, FreshOK

\* A closed statement has no current row.
LEMMA CloseCursor ==
  ASSUME TypeInv, CursorInv, CloseStatement
  PROVE  CursorInv'
<1>1. /\ stmt' = [stmt EXCEPT !.open = FALSE, !.cursor = 0] /\ fresh' = fresh \ RowsOfStatement
      /\ UNCHANGED <<res, sets, rows>> /\ stmt \in Stmts /\ stmt' \in Stmts
  BY CloseObjects DEF CloseStatement, TypeInv, ObjectsOK
<1>2. stmt'.run = stmt.run /\ stmt'.rows = stmt.rows /\ stmt.run <= stmt'.run
  BY <1>1 DEF Stmts, Handles
<1>3. TextOwned'
  BY <1>1 DEF CursorInv, TextOwned, Owns
<1>4. SetsOK'
  BY <1>1, <1>2, SetKept DEF SetsOK, CursorInv, Live
<1>5. FreshOK'
  BY <1>1, FreshKinds, FreshKept DEF FreshOK, CursorInv
<1> QED
  BY <1>3, <1>4, <1>5 DEF CursorInv, SetsOK, FreshOK

\* The current rows of a text set are those of its result.
LEMMA RowsOfResult ==
  ASSUME TypeInv, CursorInv, NEW s \in SetIds, Live(s), Text(sets[s].kind),
         sets[s].own \in Allocs, res[sets[s].own].state = "live", NEW q \in fresh
  PROVE  rows[q].set = s <=> rows[q].from = sets[s].own
<1>1. FreshRow(q) /\ rows[q].set \in SetIds /\ sets[s].own # Null
  BY FreshKinds, Numbers DEF CursorInv
<1>2. CASE ~Text(sets[rows[q].set].kind)
  <2>1. rows[q].from \in 0..MaxRuns
    BY <1>1, <1>2 DEF FreshRow, BinaryFresh, TypeInv, ObjectsOK, Stmts, Handles
  <2> QED
    BY <1>2, <2>1, Numbers
<1>3. CASE Text(sets[rows[q].set].kind)
  <2>1. TextFresh(q)
    BY <1>1, <1>3 DEF FreshRow
  <2>2. rows[q].set = s => rows[q].from = sets[s].own
    BY <2>1 DEF TextFresh, Live
  <2>3. ASSUME rows[q].from = sets[s].own, rows[q].set # s
        PROVE  FALSE
    <3>1. sets[rows[q].set].state = "live" /\ sets[rows[q].set].own = sets[s].own
      BY <2>1, <2>3 DEF TextFresh
    <3>2. Owns(s) = Owns(rows[q].set) /\ Owns(s) # Null
      BY <1>1, <3>1 DEF Owns, Live
    <3> QED
      BY <1>1, <2>3, <3>2 DEF CursorInv, TextOwned
  <2> QED
    BY <2>2, <2>3
<1> QED
  BY <1>2, <1>3

\* next() of a text set that still has a record.
LEMMA TextNextEffect ==
  ASSUME TypeInv, CursorInv, NEW s \in SetIds, NEW r \in RowIds, TextNext(s, r)
  PROVE  LET a == sets[s].own IN
         /\ sets[s].state = "live" /\ Text(sets[s].kind) /\ UNCHANGED <<stmt, sets>>
         /\ \A q \in RowIds \ {r} : rows'[q] = rows[q]
         /\ \/ res' = res /\ fresh' = fresh \ (RowsOf(s) \cup {r}) /\ rows'[r] = NoRow
            \/ /\ a \in Allocs /\ res[a].state = "live" /\ res[a].cursor \in 0..(Records - 1)
               /\ res'[a].state = "live" /\ res'[a].cursor = res[a].cursor + 1
               /\ \A b \in Allocs \ {a} : res'[b] = res[b]
               /\ fresh' = (fresh \ (RowsOf(s) \cup {r})) \cup {r}
               /\ rows'[r].set = s /\ rows'[r].stmt = 0 /\ rows'[r].own = a
               /\ rows'[r].from = a /\ rows'[r].rec = res[a].cursor + 1
               /\ rows'[r].fields = sets[s].fields
<1> DEFINE a == sets[s].own
           row == Row(s, res[a].cursor + 1)
<1>1. /\ sets[s].state = "live" /\ Text(sets[s].kind) /\ UNCHANGED <<stmt, sets>>
      /\ SharedWith(s) = RowsOf(s) /\ rows \in [RowIds -> RowRecs] /\ res \in [Allocs -> Reses]
  BY DEF TextNext, Live, SharedWith, TypeInv, ObjectsOK
<1>2. CASE ~(Valid(a) /\ res[a].cursor < Records)
  BY <1>1, <1>2 DEF TextNext, Gives
<1>3. CASE Valid(a) /\ res[a].cursor < Records
  <2>1. /\ a \in Allocs /\ a # Null /\ res[a].state = "live" /\ res[a].cursor \in 0..(Records - 1)
        /\ res' = [res EXCEPT ![a].cursor = @ + 1] /\ Gives(s, r, row)
    BY <1>1, <1>3, Numbers DEF TextNext, Valid, Reses
  <2>2. SetOK(s)
    BY <1>1 DEF CursorInv, Live
  <2>3. /\ row.set = s /\ row.stmt = 0 /\ row.own = a /\ row.from = a
        /\ row.rec = res[a].cursor + 1 /\ row.fields = sets[s].fields
    BY <1>1, <2>1, <2>2 DEF Row, SetOK
  <2>4. row # NoRow
    BY <2>3, CursorAssumption DEF NoRow
  <2> HIDE DEF row
  <2>5. /\ rows' = [rows EXCEPT ![r] = row]
        /\ fresh' = (fresh \ (RowsOf(s) \cup {r})) \cup {r}
    BY <1>1, <2>1, <2>3, <2>4 DEF Gives
  <2>6. /\ res'[a].state = "live" /\ res'[a].cursor = res[a].cursor + 1
        /\ \A b \in Allocs \ {a} : res'[b] = res[b]
    BY <1>1, <2>1 DEF Reses
  <2> QED
    BY <1>1, <2>1, <2>3, <2>5, <2>6
<1> QED
  BY <1>2, <1>3

\* The row given by a text set is the one its result is on.
LEMMA TextNextCursor ==
  ASSUME TypeInv, CursorInv, NEW s \in SetIds, NEW r \in RowIds, TextNext(s, r)
  PROVE  CursorInv'
<1> DEFINE a == sets[s].own
<1>1. /\ sets[s].state = "live" /\ Text(sets[s].kind) /\ UNCHANGED <<stmt, sets>>
      /\ ObjectsOK /\ \A q \in RowIds \ {r} : rows'[q] = rows[q]
  BY TextNextEffect DEF TypeInv
<1>2. TextOwned'
  <2>1. \A b \in Allocs : res'[b].state = res[b].state
    BY TextNextEffect
  <2> QED
    BY <1>1, <2>1, OwnersKept DEF CursorInv
<1>3. SetsOK'
  BY <1>1 DEF SetsOK, CursorInv, Live, SetOK
<1>4. ASSUME NEW q \in fresh, q # r, q \notin RowsOf(s) PROVE FreshRow(q)'
  <2>1. FreshRow(q) /\ rows[q].set # s /\ q \in RowIds
    BY <1>4, FreshKinds DEF CursorInv, RowsOf
  <2>2. Text(sets[rows[q].set].kind) => res'[rows[q].own] = res[rows[q].own]
    <3>1. Text(sets[rows[q].set].kind) => TextFresh(q)
      BY <2>1 DEF FreshRow
    <3>2. a \in Allocs /\ res[a].state = "live" => rows[q].from # a
      BY <1>1, <2>1, RowsOfResult DEF Live
    <3>3. \A b \in Allocs : b # a \/ ~(a \in Allocs /\ res[a].state = "live") => res'[b] = res[b]
      BY TextNextEffect
    <3> QED
      BY <3>1, <3>2, <3>3 DEF TextFresh
  <2> QED
    BY <1>1, <1>4, <2>1, <2>2, FreshKept
<1>5. r \in fresh' => FreshRow(r)'
  <2> SUFFICES ASSUME r \in fresh' PROVE FreshRow(r)'
    OBVIOUS
  <2>1. /\ a \in Allocs /\ res[a].cursor \in 0..(Records - 1)
        /\ res'[a].state = "live" /\ res'[a].cursor = res[a].cursor + 1
        /\ rows'[r].set = s /\ rows'[r].stmt = 0 /\ rows'[r].own = a
        /\ rows'[r].from = a /\ rows'[r].rec = res[a].cursor + 1
    BY TextNextEffect
  <2>2. rows'[r].rec \in 1..Records
    BY <2>1, Numbers
  <2>3. SetOK(s) /\ a # Null
    BY <1>1, <2>1, Numbers DEF CursorInv, Live
  <2>4. TextFresh(r)'
    BY <1>1, <2>1 DEF TextFresh
  <2> QED
    BY <1>1, <2>1, <2>2, <2>3, <2>4 DEF FreshRow, SetOK
<1>6. FreshOK'
  <2>1. \A q \in fresh' : q = r \/ (q \in fresh /\ q # r /\ q \notin RowsOf(s))
    BY TextNextEffect
  <2> QED
    BY <1>4, <1>5, <2>1 DEF FreshOK
<1> QED
  BY <1>2, <1>3, <1>6 DEF CursorInv, SetsOK, FreshOK

\* next() of a binary set: a row of its own run, a record taken from a later
\* run, or none.
LEMMA BinaryNextEffect ==
  ASSUME TypeInv, CursorInv, NEW s \in SetIds, NEW r \in RowIds, BinaryNext(s, r)
  PROVE  /\ sets[s].state = "live" /\ ~Text(sets[s].kind) /\ UNCHANGED <<res, sets>>
         /\ stmt' \in Stmts /\ stmt'.run = stmt.run /\ stmt'.rows = stmt.rows
         /\ stmt'.open = stmt.open /\ stmt'.handle = stmt.handle
         /\ \A q \in RowIds \ {r} : rows'[q] = rows[q]
         /\ \/ rows'[r] = NoRow
            \/ /\ stmt.rows /\ rows'[r].set = s /\ rows'[r].stmt = sets[s].stmt
               /\ rows'[r].fields = sets[s].fields
         /\ \/ /\ fresh' = fresh \ (RowsOfStatement \cup {r})
               /\ \/ stmt'.cursor = stmt.cursor
                  \/ stmt.open /\ stmt.run \in 1..MaxRuns /\ stmt'.cursor = stmt.cursor + 1
            \/ /\ stmt.open /\ stmt.rows /\ stmt.run \in 1..MaxRuns
               /\ stmt.cursor \in 0..(Records - 1) /\ stmt'.cursor = stmt.cursor + 1
               /\ fresh' = (fresh \ (RowsOfStatement \cup {r})) \cup {r}
               /\ sets[s].stmt # 0 /\ rows'[r].set = s /\ rows'[r].stmt = sets[s].stmt
               /\ rows'[r].from = stmt.run /\ rows'[r].rec = stmt.cursor + 1
<1> DEFINE row == Row(s, stmt.cursor + 1)
<1>1. /\ sets[s].state = "live" /\ ~Text(sets[s].kind) /\ UNCHANGED <<res, sets>>
      /\ SharedWith(s) = RowsOfStatement /\ rows \in [RowIds -> RowRecs] /\ stmt \in Stmts
      /\ HasResult(s) => StmtOpen(sets[s].stmt)
      /\ stmt' = IF HasResult(s) /\ stmt.rows /\ stmt.cursor <= Records
                 THEN [stmt EXCEPT !.cursor = @ + 1] ELSE stmt
      /\ Gives(s, r, IF HasResult(s) /\ ~EndsRows(FetchStatus) THEN row ELSE NoRow)
  BY DEF BinaryNext, Live, SharedWith, TypeInv, ObjectsOK
<1>2. /\ stmt' \in Stmts /\ stmt'.run = stmt.run /\ stmt'.rows = stmt.rows
      /\ stmt'.open = stmt.open /\ stmt'.handle = stmt.handle
  <2>1. stmt' \in Stmts
    BY NextRowObjects DEF TypeInv, ObjectsOK
  <2> QED
    BY <1>1, <2>1 DEF Stmts
<1>3. HasResult(s) => stmt.open /\ stmt.run \in 1..MaxRuns /\ sets[s].stmt # 0
  BY <1>1, Numbers DEF HasResult, StmtOpen, TypeInv, ObjectsOK, Stmts, Handles
<1>4. stmt'.cursor = stmt.cursor \/ (HasResult(s) /\ stmt'.cursor = stmt.cursor + 1)
  BY <1>1 DEF Stmts
<1>5. CASE ~(HasResult(s) /\ ~EndsRows(FetchStatus))
  BY <1>1, <1>2, <1>3, <1>4, <1>5 DEF Gives
<1>6. CASE HasResult(s) /\ ~EndsRows(FetchStatus)
  <2>1. /\ stmt.rows /\ stmt.cursor \in 0..(Records - 1) /\ stmt'.cursor = stmt.cursor + 1
        /\ Gives(s, r, row)
    <3>1. stmt.rows /\ stmt.cursor < Records
      <4>1. FetchStatus \notin {"error", "no_data"}
        BY <1>6 DEF EndsRows
      <4>2. ~stmt.rows => FetchStatus = "error"
        BY DEF FetchStatus
      <4>3. stmt.rows /\ ~(stmt.cursor < Records) => FetchStatus = "no_data"
        BY DEF FetchStatus
      <4> QED
        BY <1>1, <4>1, <4>2, <4>3 DEF Stmts
    <3>2. stmt.cursor \in 0..(Records - 1)
      BY <1>1, <3>1, Numbers DEF Stmts
    <3>3. stmt' = [stmt EXCEPT !.cursor = @ + 1]
      BY <1>1, <1>6, <3>1, <3>2, Numbers
    <3> QED
      BY <1>1, <1>6, <3>1, <3>2, <3>3 DEF Stmts
  <2>2. /\ row.set = s /\ row.stmt = sets[s].stmt /\ row.own = Null /\ row.from = sets[s].run
        /\ row.fields = sets[s].fields
    BY <1>1 DEF Row
  <2>3. row # NoRow /\ row.rec = stmt.cursor + 1
    BY <2>2, CursorAssumption DEF NoRow, Row
  <2> HIDE DEF row
  <2>4. SetOK(s)
    BY <1>1 DEF CursorInv, Live
  <2>5. sets[s].run # Null
    BY <1>1, <1>3, <1>6, <2>4, Numbers DEF SetOK
  <2>6. /\ rows' = [rows EXCEPT ![r] = row]
        /\ fresh' = (fresh \ (RowsOfStatement \cup {r}))
                      \cup IF sets[s].run = stmt.run THEN {r} ELSE {}
    <3>1. stmt'.run = stmt.run /\ fresh' = (fresh \ (RowsOfStatement \cup {r}))
                      \cup IF row # NoRow /\ row.from \in {stmt.run, row.own} THEN {r} ELSE {}
      BY <1>1, <1>2, <2>1 DEF Gives
    <3> QED
      BY <2>1, <2>2, <2>3, <2>5, <3>1 DEF Gives
  <2> QED
    BY <1>1, <1>2, <1>3, <1>6, <2>1, <2>2, <2>3, <2>6
<1> QED
  BY <1>5, <1>6

\* The row given by a set of the latest run is the one the statement is on.
LEMMA BinaryNextCursor ==
  ASSUME TypeInv, CursorInv, NEW s \in SetIds, NEW r \in RowIds, BinaryNext(s, r)
  PROVE  CursorInv'
<1>1. /\ sets[s].state = "live" /\ ~Text(sets[s].kind) /\ UNCHANGED <<res, sets>>
      /\ stmt \in Stmts /\ stmt' \in Stmts /\ stmt'.run = stmt.run /\ stmt'.rows = stmt.rows
      /\ \A q \in RowIds \ {r} : rows'[q] = rows[q]
  BY BinaryNextEffect DEF TypeInv, ObjectsOK
<1>2. TextOwned'
  BY <1>1 DEF CursorInv, TextOwned, Owns
<1>3. SetsOK'
  BY <1>1 DEF SetsOK, CursorInv, Live, SetOK
<1>4. ASSUME NEW q \in fresh, q # r, q \notin RowsOfStatement PROVE FreshRow(q)'
  BY <1>1, <1>4, FreshKinds, FreshKept DEF CursorInv
<1>5. r \in fresh' => FreshRow(r)'
  <2> SUFFICES ASSUME r \in fresh' PROVE FreshRow(r)'
    OBVIOUS
  <2>1. /\ stmt.rows /\ stmt.cursor \in 0..(Records - 1) /\ stmt'.cursor = stmt.cursor + 1
        /\ sets[s].stmt # 0 /\ rows'[r].set = s /\ rows'[r].stmt = sets[s].stmt
        /\ rows'[r].from = stmt.run /\ rows'[r].rec = stmt.cursor + 1
    BY BinaryNextEffect
  <2>2. rows'[r].rec \in 1..Records
    BY <2>1, Numbers
  <2>3. SetOK(s)
    BY <1>1 DEF CursorInv, Live
  <2> QED
    BY <1>1, <2>1, <2>2, <2>3 DEF FreshRow, BinaryFresh, SetOK
<1>6. FreshOK'
  <2>1. \A q \in fresh' : q = r \/ (q \in fresh /\ q # r /\ q \notin RowsOfStatement)
    BY BinaryNextEffect
  <2> QED
    BY <1>4, <1>5, <2>1 DEF FreshOK
<1> QED
  BY <1>2, <1>3, <1>6 DEF CursorInv, SetsOK, FreshOK

\* Getters leave the cursors alone.
LEMMA GetCursor ==
  ASSUME TypeInv, CursorInv, NEW r \in Rows, NEW named \in BOOLEAN, sets' = MapAfter(r, named),
         UNCHANGED <<stmt, res, rows, fresh>>
  PROVE  CursorInv'
<1>1. ObjectsOK /\ stmt \in Stmts /\ stmt.run <= stmt.run
  BY DEF TypeInv, ObjectsOK, Stmts, Handles
<1>2. TextOwned'
  BY <1>1, GetEffect, OwnersKept DEF CursorInv
<1>3. SetsOK'
  BY <1>1, GetEffect, SetKept DEF SetsOK, CursorInv, Live
<1>4. FreshOK'
  <2> SUFFICES ASSUME NEW q \in fresh PROVE FreshRow(q)'
    BY DEF FreshOK
  <2>1. FreshRow(q) /\ rows[q].set \in SetIds
    BY FreshKinds DEF CursorInv
  <2> QED
    BY <1>1, <2>1, GetEffect, FreshKept
<1> QED
  BY <1>2, <1>3, <1>4 DEF CursorInv, SetsOK, FreshOK

\* After a move no row of its source is current.
LEMMA MoveCursor ==
  ASSUME TypeInv, CursorInv, NEW s \in SetIds, NEW t \in SetIds, MoveConstruct(s, t)
  PROVE  CursorInv'
<1>1. /\ s # t /\ sets[s] \in SetRecs /\ sets[t].state = "unborn" /\ sets[s].state = "live"
      /\ sets' = [sets EXCEPT ![s] = MovedFrom(sets[s]), ![t] = MovedTo(sets[s])]
      /\ sets \in [SetIds -> SetRecs] /\ UNCHANGED <<stmt, res, rows>>
      /\ fresh' = fresh \ RowsOf(s) /\ stmt \in Stmts /\ ObjectsOK
  BY NothingTyped DEF MoveConstruct, Live, TypeInv, ObjectsOK
<1>2. sets'[s] = MovedFrom(sets[s]) /\ sets'[t] = MovedTo(sets[s])
      /\ \A u \in SetIds \ {s, t} : sets'[u] = sets[u]
  BY <1>1
<1>3. TextOwned'
  BY <1>1, OwnersMoved DEF CursorInv
<1>4. SetsOK'
  <2> SUFFICES ASSUME NEW u \in SetIds, Live(u)' PROVE SetOK(u)'
    BY DEF SetsOK
  <2>1. SetOK(s)
    BY <1>1 DEF CursorInv, Live
  <2>2. CASE u = s
    BY <1>1, <1>2, <2>2, MovedFromEffect DEF SetOK
  <2>3. CASE u = t
    BY <1>1, <1>2, <2>1, <2>3, MovedToEffect DEF SetOK
  <2>4. CASE u \notin {s, t}
    BY <1>1, <1>2, <2>4 DEF CursorInv, Live, SetOK
  <2> QED
    BY <2>2, <2>3, <2>4
<1>5. FreshOK'
  <2> SUFFICES ASSUME NEW q \in fresh, q \notin RowsOf(s) PROVE FreshRow(q)'
    BY <1>1 DEF FreshOK
  <2>1. FreshRow(q) /\ rows[q].set \in SetIds \ {s, t}
    BY <1>1, FreshKinds DEF CursorInv, RowsOf
  <2> QED
    BY <1>1, <1>2, <2>1, FreshKept
<1> QED
  BY <1>3, <1>4, <1>5 DEF CursorInv, SetsOK, FreshOK

\* After an assignment none of source and target is.
LEMMA AssignCursor ==
  ASSUME TypeInv, CursorInv, NEW s \in SetIds, NEW t \in SetIds, MoveAssign(s, t)
  PROVE  CursorInv'
<1>1. /\ s # t /\ sets[s] \in SetRecs /\ sets[t] \in SetRecs
      /\ sets[s].state = "live" /\ sets[t].state = "live"
      /\ sets' = [sets EXCEPT ![s] = AssignedFrom(sets[s]), ![t] = AssignedTo(sets[t], sets[s])]
      /\ sets \in [SetIds -> SetRecs] /\ UNCHANGED <<stmt, rows>> /\ stmt \in Stmts
      /\ fresh' = fresh \ (RowsOf(s) \cup RowsOf(t)) /\ FreeAll(FreedByAssign(sets[t]))
      /\ res \in [Allocs -> Reses] /\ ObjectsOK
  BY DEF MoveAssign, Live, TypeInv, ObjectsOK
<1>2. sets'[s] = AssignedFrom(sets[s]) /\ sets'[t] = AssignedTo(sets[t], sets[s])
      /\ \A u \in SetIds \ {s, t} : sets'[u] = sets[u]
  BY <1>1
<1>3. \A a \in Allocs : res'[a] = res[a] \/ res'[a].state = "freed"
  BY <1>1 DEF FreeAll
<1>4. TextOwned'
  BY <1>1, OwnersAssigned DEF CursorInv
<1>5. SetsOK'
  <2> SUFFICES ASSUME NEW u \in SetIds, Live(u)' PROVE SetOK(u)'
    BY DEF SetsOK
  <2>1. SetOK(s)
    BY <1>1 DEF CursorInv, Live
  <2>2. CASE u = s
    BY <1>1, <1>2, <2>2, AssignedFromEffect DEF SetOK
  <2>3. CASE u = t
    BY <1>1, <1>2, <2>1, <2>3, AssignedToEffect DEF SetOK
  <2>4. CASE u \notin {s, t}
    BY <1>1, <1>2, <2>4 DEF CursorInv, Live, SetOK
  <2> QED
    BY <2>2, <2>3, <2>4
<1>6. FreshOK'
  <2> SUFFICES ASSUME NEW q \in fresh, q \notin RowsOf(s), q \notin RowsOf(t)
               PROVE  FreshRow(q)'
    BY <1>1 DEF FreshOK
  <2>1. FreshRow(q) /\ rows[q].set \in SetIds \ {s, t}
    BY <1>1, FreshKinds DEF CursorInv, RowsOf
  <2>2. Text(sets[rows[q].set].kind)
          => res'[rows[q].own] = res[rows[q].own] \/ res'[rows[q].own].state = "freed"
    BY <1>3, <2>1 DEF FreshRow, TextFresh
  <2> QED
    BY <1>1, <1>2, <2>1, <2>2, FreshKept
<1> QED
  BY <1>4, <1>5, <1>6 DEF CursorInv, SetsOK, FreshOK

\* A row can be current after its set is gone, but its result is freed then.
LEMMA DestroyCursor ==
  ASSUME TypeInv, CursorInv, NEW s \in SetIds, Destroy(s)
  PROVE  CursorInv'
<1>1. /\ sets[s].state = "live" /\ sets'[s].state = "dead" /\ sets'[s].kind = sets[s].kind
      /\ \A t \in SetIds \ {s} : sets'[t] = sets[t]
      /\ \A a \in Allocs : IF a = sets[s].own THEN res'[a].state = "freed"
                           ELSE res'[a] = res[a]
      /\ UNCHANGED <<stmt, rows, fresh>> /\ ObjectsOK
  BY DestroyEffect DEF TypeInv, Destroy
<1>2. TextOwned'
  BY <1>1, OwnersDestroyed DEF CursorInv
<1>3. SetsOK'
  <2> SUFFICES ASSUME NEW u \in SetIds, Live(u)' PROVE SetOK(u)'
    BY DEF SetsOK
  <2>1. u # s
    BY <1>1 DEF Live
  <2> QED
    BY <1>1, <2>1 DEF CursorInv, Live, SetOK
<1>4. FreshOK'
  <2> SUFFICES ASSUME NEW q \in fresh PROVE FreshRow(q)'
    BY <1>1 DEF FreshOK
  <2>1. FreshRow(q) /\ rows[q].set \in SetIds
    BY FreshKinds DEF CursorInv
  <2>2. CASE rows[q].set = s
    BY <1>1, <2>1, <2>2 DEF FreshRow, TextFresh, BinaryFresh
  <2>3. CASE rows[q].set # s
    <3>1. Text(sets[rows[q].set].kind)
            => res'[rows[q].own] = res[rows[q].own] \/ res'[rows[q].own].state = "freed"
      BY <1>1, <2>1 DEF FreshRow, TextFresh
    <3> QED
      BY <1>1, <2>1, <2>3, <3>1, FreshKept
  <2> QED
    BY <2>2, <2>3
<1> QED
  BY <1>2, <1>3, <1>4 DEF CursorInv, SetsOK, FreshOK

\* Every step keeps the rows on their cursors.
LEMMA NextCursor ==
  ASSUME TypeInv, CursorInv, [Next]_vars
  PROVE  CursorInv'
<1>1. CASE \E s \in SetIds, kind \in Kinds :
             \/ \E a \in Allocs \cup {Null} : Prepared(s, kind, a) \/ Executed(s, kind, a)
             \/ Modified(s, kind) \/ Unanswered(s, kind)
  BY <1>1, PreparedCursor, ExecutedCursor DEF Pointers
<1>2. CASE CloseStatement
  BY <1>2, CloseCursor
<1>3. CASE \E s \in SetIds, r \in RowIds : TextNext(s, r) \/ BinaryNext(s, r)
  BY <1>3, TextNextCursor, BinaryNextCursor
<1>4. CASE \E s \in SetIds, t \in SetIds : MoveConstruct(s, t) \/ MoveAssign(s, t)
  BY <1>4, MoveCursor, AssignCursor
<1>5. CASE \E s \in SetIds : Destroy(s)
  BY <1>5, DestroyCursor
<1>6. CASE \E r \in RowIds, named \in BOOLEAN, c \in Columns :
             \/ TextGet(r, c, named)
             \/ \E opt \in BOOLEAN : BinaryGet(r, c, named, opt)
  <2>1. PICK r \in Rows, named \in BOOLEAN : Got(r, named)
    BY <1>6, GettersGet
  <2>2. sets' = MapAfter(r, named) /\ UNCHANGED <<stmt, res, rows, fresh, reasons>>
    BY <2>1 DEF Got
  <2> QED
    BY <2>2, GetCursor
<1>7. CASE \/ \E s \in SetIds : NextUndefined(s) \/ CountUndefined(s) \/ FreedTwice(s)
           \/ \E r \in RowIds, named \in BOOLEAN : GetUndefined(r, named)
           \/ UNCHANGED vars
  <2>1. UNCHANGED <<stmt, res, sets, rows, fresh>>
    BY <1>7 DEF NextUndefined, CountUndefined, FreedTwice, GetUndefined, Undefined, vars
  <2> QED
    BY <2>1 DEF CursorInv, SetOK, TextOwned, Owns, Live, FreshRow, TextFresh, BinaryFresh
<1> QED
  BY <1>1, <1>2, <1>3, <1>4, <1>5, <1>6, <1>7 DEF Next

\* In every state sets know their results and current rows are on their cursors.
LEMMA Cursors == Spec => [](TypeInv /\ CursorInv)
<1>1. Init => CursorInv
  <2> SUFFICES ASSUME Init PROVE CursorInv
    OBVIOUS
  <2>1. \A s \in SetIds : sets[s].state = "unborn"
    BY NothingTyped DEF Init
  <2> QED
    BY <2>1 DEF Init, CursorInv, Live, TextOwned, Owns
<1>2. TypeInv /\ CursorInv /\ [Next]_vars => CursorInv'
  BY NextCursor
<1> QED
  BY <1>1, <1>2, Types, PTL DEF Spec
-----------------------------------------------------------------------------
(***************************************************************************)
(* What is read.                                                           *)
(***************************************************************************)
\* A row belongs to a set that was made.
LEMMA RowSet ==
  ASSUME TypeInv, NEW r \in Rows
  PROVE  r \in RowIds /\ rows[r].set \in SetIds /\ sets[rows[r].set].state # "unborn"
         /\ sets[rows[r].set].kind \in Kinds
  BY DEF TypeInv, ObjectsOK, Rows

\* Until a set is moved, each has a buffer and a flag of its own, and the flag is
\* in use once a value was fetched.
FlagOK(s) ==
  /\ sets[s].buf \in {Null, s} /\ flags[s].ptr \in {Null, s}
  /\ flags[s].ptr = Null <=> buffer[s] = NoValue
  /\ flags[s].ptr = Null => ~flags[s].value

FlagInv == "moved" \notin reasons => \A s \in SetIds : FlagOK(s)

LEMMA FlagsKept ==
  ASSUME FlagInv, reasons \subseteq reasons', UNCHANGED <<buffer, flags>>,
         \A s \in SetIds : sets'[s].buf = sets[s].buf
  PROVE  FlagInv'
<1> SUFFICES ASSUME "moved" \notin reasons', NEW s \in SetIds
             PROVE  FlagOK(s)'
  BY DEF FlagInv
<1>1. FlagOK(s)
  BY DEF FlagInv
<1> QED
  BY <1>1 DEF FlagOK

\* A set that is made has its own buffer.
LEMMA ConstructFlags ==
  ASSUME TypeInv, FlagInv, NEW s \in SetIds, NEW kind, NEW a, NEW h, NEW run,
         Construct(s, kind, a, h, run), reasons \subseteq reasons', UNCHANGED <<buffer, flags>>
  PROVE  FlagInv'
<1> SUFFICES ASSUME "moved" \notin reasons', NEW t \in SetIds
             PROVE  FlagOK(t)'
  BY DEF FlagInv
<1>1. FlagOK(t)
  BY DEF FlagInv
<1>2. sets \in [SetIds -> SetRecs]
  BY DEF TypeInv, ObjectsOK
<1>3. sets'[t].buf \in {sets[t].buf, t}
  BY <1>2 DEF Construct
<1> QED
  BY <1>1, <1>3 DEF FlagOK

\* What a getter leaves in the flags of an unmoved set: its own, in use once there
\* was a value.
LEMMA BinaryGetFlags ==
  ASSUME TypeInv, FlagInv, NEW r \in RowIds, NEW c \in Columns, NEW named \in BOOLEAN,
         NEW opt \in BOOLEAN, BinaryGet(r, c, named, opt)
  PROVE  FlagInv'
<1> DEFINE s == rows[r].set
           b == sets[s].buf
           null == IsNull(c)
<1>1. /\ r \in Rows /\ RowUsable(r, named) /\ ~Text(sets[s].kind)
      /\ sets' = MapAfter(r, named) /\ reasons' = reasons
  BY Zenon DEF BinaryGet
<1>2. s \in SetIds /\ sets \in [SetIds -> SetRecs] /\ ObjectsOK /\ flags \in Flags
      /\ buffer \in [SetIds -> Values] /\ Null \notin SetIds
  BY <1>1, RowSet, CursorAssumption DEF TypeInv, ObjectsOK, ReadingOK
<1>3. \A t \in SetIds : sets'[t].buf = sets[t].buf
  BY <1>1, <1>2 DEF MapAfter, SetRecs
<1>4. CASE Empty(r)
  <2>1. UNCHANGED <<buffer, flags>>
    BY <1>4, Zenon DEF BinaryGet
  <2> QED
    BY <1>1, <1>3, <2>1, FlagsKept
<1>5. CASE ~Empty(r)
  <2> SUFFICES ASSUME "moved" \notin reasons', NEW t \in SetIds
               PROVE  FlagOK(t)'
    BY DEF FlagInv
  <2>1. FlagOK(t) /\ FlagOK(s)
    BY <1>1, <1>2 DEF FlagInv
  <2>2. b = s
    BY <1>1, <1>2, <1>5, <2>1 DEF RowUsable, Live, FlagOK
  <2>3. buffer' = [buffer EXCEPT ![s] = BufferAfter(s, c)] /\ flags' = FlagsAfter(s, c)
    BY <1>5, <2>2 DEF BinaryGet
  <2>4. CASE HasRecord /\ ~null
    <3>1. BufferAfter(s, c) # NoValue
      BY <2>4, CursorAssumption
         DEF BufferAfter, fetch_column, Value, NoValue, HasRecord
    <3>2. \/ flags[s].ptr = s /\ flags' = [flags EXCEPT ![s].value = null]
          \/ flags[s].ptr = Null /\ flags' = [flags EXCEPT ![s].ptr = s]
      BY <1>2, <2>1, <2>3, <2>4, Zenon DEF FlagsAfter, FlagOK
    <3>3. buffer'[t] = buffer[t] \/ (t = s /\ buffer'[t] # NoValue)
      BY <1>2, <2>3, <3>1
    <3>4. CASE t # s
      <4>1. flags'[t] = flags[t] /\ buffer'[t] = buffer[t]
        BY <1>2, <3>2, <3>3, <3>4 DEF Flags
      <4> QED
        BY <1>3, <2>1, <4>1, Zenon DEF FlagOK
    <3>5. CASE t = s
      <4>1. flags'[s].ptr = s
        BY <1>2, <3>2 DEF Flags
      <4>2. buffer'[s] # NoValue
        BY <1>2, <2>3, <3>1
      <4> QED
        BY <1>2, <1>3, <2>1, <3>5, <4>1, <4>2, Zenon DEF FlagOK
    <3> QED
      BY <3>4, <3>5
  <2>5. CASE ~(HasRecord /\ ~null)
    <3>1. buffer' = buffer
      BY <1>2, <2>3, <2>5 DEF BufferAfter
    <3>2. \/ flags' = flags
          \/ flags[s].ptr = s /\ flags' = [flags EXCEPT ![s].value = null]
      BY <1>2, <2>1, <2>3, <2>5, Zenon DEF FlagsAfter, FlagOK
    <3> QED
      BY <1>2, <1>3, <2>1, <3>1, <3>2 DEF FlagOK, Flags
  <2> QED
    BY <2>4, <2>5
<1> QED
  BY <1>4, <1>5

LEMMA NextFlags ==
  ASSUME TypeInv, FlagInv, [Next]_vars
  PROVE  FlagInv'
<1>1. reasons \subseteq reasons'
  BY ReasonsStay
<1>2. CASE \E s \in SetIds, kind \in Kinds :
             \/ \E a \in Allocs \cup {Null} : Prepared(s, kind, a) \/ Executed(s, kind, a)
             \/ Modified(s, kind) \/ Unanswered(s, kind)
  <2>1. \E s \in SetIds : \E kind, a, h, run : Construct(s, kind, a, h, run)
    BY <1>2 DEF Prepared, Executed, Modified, Unanswered
  <2>2. UNCHANGED <<buffer, flags>>
    BY <1>2 DEF Prepared, Executed, Modified, Unanswered
  <2> QED
    BY <1>1, <2>1, <2>2, ConstructFlags
<1>3. CASE \/ CloseStatement
           \/ \E s \in SetIds : \/ \E r \in RowIds : TextNext(s, r) \/ BinaryNext(s, r)
                               \/ NextUndefined(s) \/ CountUndefined(s) \/ FreedTwice(s)
           \/ \E r \in RowIds, named \in BOOLEAN : GetUndefined(r, named)
           \/ UNCHANGED vars
  <2>1. UNCHANGED <<sets, buffer, flags>>
    BY <1>3 DEF CloseStatement, TextNext, BinaryNext, NextUndefined, CountUndefined,
                FreedTwice, GetUndefined, Undefined, vars
  <2> QED
    BY <1>1, <2>1, FlagsKept
<1>4. CASE \E s \in SetIds, t \in SetIds : MoveConstruct(s, t) \/ MoveAssign(s, t)
  <2>1. "moved" \in reasons'
    BY <1>4 DEF MoveConstruct, MoveAssign, Because
  <2> QED
    BY <2>1 DEF FlagInv
<1>5. CASE \E s \in SetIds : Destroy(s)
  <2>1. PICK s \in SetIds : Destroy(s)
    BY <1>5
  <2> SUFFICES ASSUME "moved" \notin reasons', NEW t \in SetIds
               PROVE  FlagOK(t)'
    BY DEF FlagInv
  <2>2. FlagOK(t)
    BY <1>1 DEF FlagInv
  <2>3. /\ sets \in [SetIds -> SetRecs] /\ buffer \in [SetIds -> Values] /\ flags \in Flags
        /\ NoSet.buf = Null
    BY DEF TypeInv, ObjectsOK, ReadingOK, NoSet
  <2>4. CASE t = s
    <3>1. sets'[t].buf = Null /\ buffer'[t] = NoValue /\ flags'[t] = NoFlag
      <4>1. sets'[s].buf = Null
        BY <2>3, DestroyEffect, <2>1 DEF Destroy, NoSet
      <4>2. buffer'[t] = NoValue /\ flags'[t] = NoFlag
        BY <2>1, <2>3, <2>4, Zenon DEF Destroy, Flags
      <4> QED
        BY <2>4, <4>1, <4>2
    <3>2. NoFlag.ptr = Null /\ ~NoFlag.value
      BY DEF NoFlag
    <3> QED
      BY <3>1, <3>2, Zenon DEF FlagOK
  <2>5. CASE t # s
    <3>1. sets'[t] = sets[t] /\ buffer'[t] = buffer[t] /\ flags'[t] = flags[t]
      BY <2>1, <2>3, <2>5 DEF Destroy
    <3> QED
      BY <2>2, <3>1, Zenon DEF FlagOK
  <2> QED
    BY <2>4, <2>5
<1>6. CASE \E r \in RowIds, named \in BOOLEAN, c \in Columns : TextGet(r, c, named)
  <2>1. PICK r \in RowIds, named \in BOOLEAN, c \in Columns : TextGet(r, c, named)
    BY <1>6
  <2>2. /\ r \in Rows /\ sets' = MapAfter(r, named) /\ UNCHANGED <<buffer, flags>>
    BY <2>1, Zenon DEF TextGet
  <2>3. \A t \in SetIds : sets'[t].buf = sets[t].buf
    BY <2>2, RowSet DEF MapAfter, SetRecs, TypeInv, ObjectsOK
  <2> QED
    BY <1>1, <2>2, <2>3, FlagsKept
<1>7. CASE \E r \in RowIds, named \in BOOLEAN, c \in Columns, opt \in BOOLEAN :
             BinaryGet(r, c, named, opt)
  BY <1>7, BinaryGetFlags
<1> QED
  BY <1>2, <1>3, <1>4, <1>5, <1>6, <1>7 DEF Next

LEMMA Flagged == Spec => []FlagInv
<1>1. Init => FlagInv
  <2> SUFFICES ASSUME Init, NEW s \in SetIds PROVE FlagOK(s)
    BY DEF FlagInv
  <2>1. sets[s].buf = Null /\ buffer[s] = NoValue /\ flags[s] = NoFlag
    BY DEF Init, NoSet
  <2>2. NoFlag.ptr = Null /\ ~NoFlag.value
    BY DEF NoFlag
  <2> QED
    BY <2>1, <2>2, Zenon DEF FlagOK
<1>2. TypeInv /\ FlagInv /\ [Next]_vars => FlagInv'
  BY NextFlags
<1> QED
  BY <1>1, <1>2, Types, PTL DEF Spec

\* A step that reads nothing reads nothing wrong.
LEMMA NothingRead ==
  ASSUME got' = NoRead
  PROVE  ReadsItsRow'
  BY DEF ReadsItsRow, NoRead

\* A set that can be looked up by a current row still has its map.
LEMMA FreshNotEmpty ==
  ASSUME TypeInv, CursorInv, NEW r \in fresh, NEW named, RowUsable(r, named)
  PROVE  ~Empty(r)
<1>1. FreshRow(r)
  BY DEF CursorInv
<1>2. ~CompileTime(sets[rows[r].set].kind) => sets[rows[r].set].state = "live"
  BY DEF RowUsable, UsesMap, Live
<1> QED
  BY <1>1, <1>2 DEF Empty, FreshRow

\* A getter of a text row reads its own record.
LEMMA TextReads ==
  ASSUME TypeInv, CursorInv, NEW r \in RowIds, NEW c \in Columns, NEW named \in BOOLEAN,
         TextGet(r, c, named)
  PROVE  ReadsItsRow'
<1> DEFINE a == rows[r].own
           null == <<rows[r].rec, c>> \in Nulls
           value == IF null THEN NoValue ELSE Value(a, rows[r].rec, c)
<1>1. CASE r \notin fresh
  BY <1>1, NothingRead DEF TextGet, Reads
<1>2. CASE r \in fresh
  <2>1. RowUsable(r, named) /\ Text(sets[rows[r].set].kind) /\ ~Empty(r)
    BY <1>2, FreshNotEmpty DEF TextGet
  <2>2. FreshRow(r)
    BY <1>2 DEF CursorInv
  <2>3. TextFresh(r) /\ Valid(a)
    BY <2>1, <2>2 DEF FreshRow, RowUsable
  <2>4. rows[r].from = a /\ res[a].cursor = rows[r].rec
    BY <2>3 DEF TextFresh, Valid
  <2>5. Reads(r, c, FALSE, FALSE, value, value)
    BY <2>1, <2>4 DEF TextGet
  <2>6. /\ got'.want = Value(a, rows[r].rec, c) /\ got'.data = value /\ got'.length = value
        /\ got'.null <=> null
    BY <1>2, <2>4, <2>5 DEF Reads
  <2> HIDE DEF null
  <2> QED
    BY <2>6 DEF ReadsItsRow
<1> QED
  BY <1>1, <1>2

\* Where the flag is the set's own, and in use, it tells whether the column was NULL.
LEMMA FlagTells ==
  ASSUME TypeInv, FlagInv, NEW s \in SetIds, NEW c, HasRecord, KeepsFlag(s, c),
         flags' = FlagsAfter(s, c)
  PROVE  flags'[s].value <=> IsNull(c)
<1> DEFINE null == IsNull(c)
<1>1. flags \in Flags /\ Null \notin SetIds
  BY CursorAssumption DEF TypeInv, ReadingOK
<1>2. CASE flags[s].ptr = s
  <2>1. flags' = [flags EXCEPT ![s].value = null]
    BY <1>1, <1>2, Zenon DEF FlagsAfter
  <2>2. flags'[s].value = null
    BY <1>1, <2>1 DEF Flags
  <2> QED
    BY <2>2, Zenon
<1>3. CASE flags[s].ptr # s
  <2>1. "moved" \notin reasons /\ (null => buffer[s] # NoValue)
    BY <1>3, Zenon DEF KeepsFlag
  <2>2. FlagOK(s)
    BY <2>1 DEF FlagInv
  <2>3. flags[s].ptr = Null /\ ~null /\ ~flags[s].value
    BY <1>3, <2>1, <2>2 DEF FlagOK
  <2>4. flags' = [flags EXCEPT ![s].ptr = s]
    BY <2>3, Zenon DEF FlagsAfter
  <2>5. flags'[s].value = flags[s].value
    BY <1>1, <2>4 DEF Flags
  <2> QED
    BY <2>3, <2>5, Zenon
<1> QED
  BY <1>2, <1>3

\* A getter of a binary row reads what it has just fetched.
LEMMA BinaryReads ==
  ASSUME TypeInv, CursorInv, FlagInv, NEW r \in RowIds, NEW c \in Columns, NEW named \in BOOLEAN,
         NEW opt \in BOOLEAN, BinaryGet(r, c, named, opt)
  PROVE  ReadsItsRow'
<1> DEFINE s == rows[r].set
           after == BufferAfter(sets[s].buf, c)
           null == <<rows[r].rec, c>> \in Nulls
           want == Value(rows[r].from, rows[r].rec, c)
           read == IF opt /\ flags'[s].value THEN NoValue ELSE after
<1>3. s \in SetIds
  BY RowSet DEF BinaryGet
<1>1. CASE r \notin fresh
  <2>1. got' = NoRead
    BY <1>1 DEF BinaryGet, Reads
  <2> QED
    BY <2>1, NothingRead
<1>2. CASE r \in fresh
  <2>1. RowUsable(r, named) /\ ~Text(sets[s].kind) /\ ~Empty(r)
    BY <1>2, FreshNotEmpty DEF BinaryGet
  <2>2. FreshRow(r)
    BY <1>2 DEF CursorInv
  <2>3. rows[r].from = stmt.run /\ rows[r].rec = stmt.cursor /\ stmt.cursor \in 1..Records
    BY <2>1, <2>2 DEF FreshRow, BinaryFresh
  <2>4. (IsNull(c) <=> null) /\ (~null => after = want)
    BY <2>3 DEF HasRecord, IsNull, BufferAfter, fetch_column
  <2>5. /\ Reads(r, c, opt, KeepsFlag(s, c), read, read)
        /\ read = (IF opt /\ flags'[s].value THEN NoValue ELSE after)
        /\ flags' = FlagsAfter(s, c)
    BY <2>1, Zenon DEF BinaryGet
  <2>6. ASSUME KeepsFlag(s, c)
        PROVE  flags'[s].value <=> null
    <3>1. HasRecord
      BY <2>3 DEF HasRecord
    <3>2. flags'[s].value <=> IsNull(c)
      BY <1>3, <2>5, <2>6, <3>1, FlagTells
    <3> QED
      BY <2>4, <3>2, Zenon
  <2>7. /\ got'.want = want /\ got'.data = read /\ got'.length = read
        /\ (got'.null <=> null) /\ (got'.opt <=> opt) /\ (got'.flag <=> KeepsFlag(s, c))
        /\ ~got'.text
    BY <1>2, <2>1, <2>5 DEF Reads
  <2> HIDE DEF null, want, after, read
  <2> QED
    BY <2>4, <2>5, <2>6, <2>7, Zenon DEF ReadsItsRow
<1> QED
  BY <1>1, <1>2

\* Every step that reads a current row reads its own value.
LEMMA NextReads ==
  ASSUME TypeInv, CursorInv, FlagInv, ReadsItsRow, [Next]_vars
  PROVE  ReadsItsRow'
<1>1. CASE \E s \in SetIds, kind \in Kinds :
             \/ \E a \in Allocs \cup {Null} : Prepared(s, kind, a) \/ Executed(s, kind, a)
             \/ Modified(s, kind) \/ Unanswered(s, kind)
  BY <1>1, NothingRead DEF Prepared, Executed, Modified, Unanswered, Quiet
<1>2. CASE \/ CloseStatement
           \/ \E s \in SetIds : \/ \E r \in RowIds : TextNext(s, r) \/ BinaryNext(s, r)
                               \/ NextUndefined(s) \/ CountUndefined(s)
                               \/ Destroy(s) \/ FreedTwice(s)
                               \/ \E t \in SetIds : MoveConstruct(s, t) \/ MoveAssign(s, t)
           \/ \E r \in RowIds, named \in BOOLEAN : GetUndefined(r, named)
  BY <1>2, NothingRead DEF CloseStatement, TextNext, BinaryNext, NextUndefined, CountUndefined,
       Destroy, FreedTwice, MoveConstruct, MoveAssign, GetUndefined, Undefined, Quiet
<1>3. CASE \E r \in RowIds, named \in BOOLEAN, c \in Columns :
             \/ TextGet(r, c, named)
             \/ \E opt \in BOOLEAN : BinaryGet(r, c, named, opt)
  BY <1>3, TextReads, BinaryReads
<1>4. CASE UNCHANGED vars
  BY <1>4 DEF vars, ReadsItsRow
<1> QED
  BY <1>1, <1>2, <1>3, <1>4 DEF Next

\* A row reads the value and the length of its own record and column as long as
\* it is the current one, whatever other sets and rows do (text_row_base.h:87,
\* binary_row_base.h:130); a NULL that a binary row reads without get_opt, or
\* before any value, excepted, and a get_opt of a set that was moved to and whose
\* flag is not its own (binary_row_base.h:83).
THEOREM ReadsOwnRow == Spec => []ReadsItsRow
<1>1. Init => ReadsItsRow
  BY DEF Init, ReadsItsRow, NoRead
<1>2. TypeInv /\ CursorInv /\ FlagInv /\ ReadsItsRow /\ [Next]_vars => ReadsItsRow'
  BY NextReads
<1> QED
  BY <1>1, <1>2, Cursors, Flagged, PTL DEF Spec
-----------------------------------------------------------------------------
(***************************************************************************)
(* What makes a use undefined.                                             *)
(***************************************************************************)
\* Until something happens to it, a set refers to what it owns and to itself,
\* and its statement is open; a moved compile-time set does not know its fields.
SetClean(s) ==
  LET set == sets[s] IN
  IF Text(set.kind) THEN "moved" \notin reasons => set.fields = set.own
  ELSE reasons = {} => /\ set.fields = set.own /\ set.buf = s
                       /\ StmtOpen(set.stmt) /\ (stmt.rows => set.own # Null)

\* Until it outlives something, a row refers to what its set owns, if it can be
\* looked up at all.
RowClean(r) ==
  LET row == rows[r]  set == sets[row.set] IN
  /\ "outlived" \notin reasons => set.state = "live"
  /\ IF Text(set.kind)
     THEN IF CompileTime(set.kind)
          THEN reasons \cap {"outlived", "moved"} = {} =>
                 row.own = set.own /\ row.own # Null /\ row.fields = row.own
          ELSE "outlived" \notin reasons /\ set.map => row.own = set.own /\ row.own # Null
     ELSE reasons = {} =>
            row.fields = set.own /\ row.fields # Null /\ row.stmt = set.stmt

CleanInv ==
  /\ \A s \in SetIds : Live(s) => SetClean(s)
  /\ \A r \in Rows : RowClean(r)

\* A set stays clean while nothing it refers to changes.
LEMMA SetCleanKept ==
  ASSUME NEW s \in SetIds, SetClean(s), reasons \subseteq reasons', stmt'.rows = stmt.rows,
         reasons' = {} /\ StmtOpen(sets[s].stmt) => StmtOpen(sets[s].stmt)',
         sets'[s].kind = sets[s].kind, sets'[s].stmt = sets[s].stmt,
         sets'[s].own = sets[s].own, sets'[s].fields = sets[s].fields,
         sets'[s].buf = sets[s].buf
  PROVE  SetClean(s)'
<1>1. reasons' = {} => reasons = {}
  OBVIOUS
<1>2. CASE Text(sets[s].kind)
  BY <1>2 DEF SetClean
<1>3. CASE ~Text(sets[s].kind)
  BY <1>1, <1>3 DEF SetClean, StmtOpen
<1> QED
  BY <1>2, <1>3

\* So does a row.
LEMMA RowCleanKept ==
  ASSUME NEW r \in Rows, RowClean(r), reasons \subseteq reasons', rows'[r] = rows[r],
         sets'[rows[r].set].state = sets[rows[r].set].state,
         sets'[rows[r].set].kind = sets[rows[r].set].kind,
         sets'[rows[r].set].own = sets[rows[r].set].own,
         sets'[rows[r].set].stmt = sets[rows[r].set].stmt,
         ~CompileTime(sets[rows[r].set].kind) => sets'[rows[r].set].map = sets[rows[r].set].map
  PROVE  RowClean(r)'
<1>1. reasons' = {} => reasons = {}
  OBVIOUS
<1>2. reasons' \cap {"outlived", "moved"} = {} => reasons \cap {"outlived", "moved"} = {}
  OBVIOUS
<1> QED
  BY <1>1, <1>2 DEF RowClean

\* A new set, over a statement or a result.
LEMMA ConstructClean ==
  ASSUME TypeInv, CleanInv, NEW s \in SetIds, sets[s] = NoSet, NEW kind \in Kinds,
         NEW a \in Pointers, NEW h \in Handles, NEW run \in Results,
         Construct(s, kind, a, h, run), rows' = rows, reasons \subseteq reasons',
         stmt'.rows = stmt.rows,
         reasons' # {} \/ Text(kind) \/ (stmt'.open /\ stmt'.handle = h /\ (stmt.rows => a # Null)),
         \A i : reasons' = {} /\ StmtOpen(i) => StmtOpen(i)'
  PROVE  CleanInv'
<1>1. /\ sets'[s].state = "live" /\ sets'[s].kind = kind /\ sets'[s].stmt = h
      /\ sets'[s].own = a /\ sets'[s].fields = a /\ sets'[s].buf = s
      /\ \A t \in SetIds \ {s} : sets'[t] = sets[t]
  BY ConstructEffect DEF TypeInv
<1>2. SetClean(s)'
  BY <1>1 DEF SetClean, StmtOpen
<1>3. \A t \in SetIds \ {s} : Live(t)' => SetClean(t)'
  BY <1>1, SetCleanKept DEF CleanInv, Live
<1>4. \A r \in Rows' : RowClean(r)'
  <2> SUFFICES ASSUME NEW r \in Rows PROVE RowClean(r)'
    BY DEF Rows
  <2>1. RowClean(r) /\ rows[r].set \in SetIds \ {s}
    BY RowSet, NothingTyped DEF CleanInv
  <2> QED
    BY <1>1, <2>1, RowCleanKept
<1> QED
  BY <1>2, <1>3, <1>4 DEF CleanInv

\* A set is made clean, or for a reason.
LEMMA MadeClean ==
  ASSUME TypeInv, CleanInv, NEW s \in SetIds, NEW kind \in Kinds, NEW a \in Pointers,
         \/ Prepared(s, kind, a) \/ Executed(s, kind, a)
         \/ Modified(s, kind) \/ Unanswered(s, kind)
  PROVE  CleanInv'
<1>1. 0 \in Handles /\ Null \in Results /\ a \in Results /\ Null \in Pointers
  BY Numbers DEF Handles, Results, Pointers
<1>2. CASE Executed(s, kind, a)
  BY <1>1, <1>2, ConstructClean DEF Executed, StmtOpen
<1>3. CASE Modified(s, kind)
  BY <1>1, <1>3, ConstructClean DEF Modified, StmtOpen
<1>4. CASE Unanswered(s, kind)
  BY <1>1, <1>4, ConstructClean DEF Unanswered, StmtOpen, Because
<1>5. CASE Prepared(s, kind, a)
  <2>1. /\ sets[s] = NoSet /\ ~Text(kind) /\ rows' = rows /\ reasons' = reasons
        /\ stmt' = [stmt EXCEPT !.handle = HandleUsed, !.open = TRUE, !.run = @ + 1, !.cursor = 0]
        /\ stmt \in Stmts /\ Construct(s, kind, a, stmt'.handle, stmt'.run)
        /\ stmt.rows => a # Null
    BY <1>5 DEF Prepared, TypeInv, ObjectsOK, Allocate
  <2>2. stmt' = [rows |-> stmt.rows, handle |-> HandleUsed, open |-> TRUE,
                 run |-> stmt.run + 1, cursor |-> 0]
    BY <2>1 DEF Stmts
  <2>3. stmt' \in Stmts
    BY <1>5, PreparedObjects DEF TypeInv, ObjectsOK
  <2>4. stmt'.handle \in Handles /\ stmt'.run \in Results
    <3>1. stmt'.run = stmt.run + 1 /\ stmt.run \in Nat /\ stmt'.run \in 0..MaxRuns
      BY <2>1, <2>2, <2>3 DEF Stmts, Handles
    <3>2. stmt'.run \in 1..MaxRuns
      BY <3>1, Numbers
    <3> QED
      BY <2>3, <3>2 DEF Stmts, Results
  <2>5. stmt'.open /\ \A i : StmtOpen(i) => StmtOpen(i)'
    BY <2>2 DEF StmtOpen, HandleUsed
  <2>6. stmt'.rows = stmt.rows
    BY <2>2
  <2> QED
    BY <1>1, <2>1, <2>4, <2>5, <2>6, ConstructClean
<1> QED
  BY <1>2, <1>3, <1>4, <1>5

\* A statement that is closed under a set is a reason.
LEMMA CloseClean ==
  ASSUME TypeInv, CleanInv, CloseStatement
  PROVE  CleanInv'
<1>1. /\ UNCHANGED <<res, sets, rows>> /\ reasons \subseteq reasons' /\ stmt'.rows = stmt.rows
      /\ \A s \in SetIds : Live(s) /\ StmtOpen(sets[s].stmt) => reasons' # {}
  BY DEF CloseStatement, TypeInv, ObjectsOK, Stmts
<1>2. \A s \in SetIds : Live(s) => SetClean(s)'
  BY <1>1, SetCleanKept DEF CleanInv
<1>3. \A r \in Rows : RowClean(r)'
  BY <1>1, RowCleanKept DEF CleanInv
<1> QED
  BY <1>1, <1>2, <1>3 DEF CleanInv, Live, Rows

\* A row is made of what its set refers to.
LEMMA NextRowClean ==
  ASSUME TypeInv, CursorInv, CleanInv, NEW s \in SetIds, NEW r \in RowIds,
         TextNext(s, r) \/ BinaryNext(s, r)
  PROVE  CleanInv'
<1>1. /\ sets[s].state = "live" /\ UNCHANGED <<sets, reasons>> /\ stmt'.rows = stmt.rows
      /\ stmt'.open = stmt.open /\ stmt'.handle = stmt.handle
      /\ \A q \in RowIds \ {r} : rows'[q] = rows[q]
  <2>1. CASE TextNext(s, r)
    BY <2>1, TextNextEffect DEF TextNext
  <2>2. CASE BinaryNext(s, r)
    BY <2>2, BinaryNextEffect DEF BinaryNext
  <2> QED
    BY <2>1, <2>2
<1>2. \A t \in SetIds : Live(t) => SetClean(t)'
  BY <1>1, SetCleanKept DEF CleanInv, StmtOpen
<1>3. \A q \in Rows \ {r} : RowClean(q)'
  <2> SUFFICES ASSUME NEW q \in Rows, q # r PROVE RowClean(q)'
    OBVIOUS
  <2>1. rows'[q] = rows[q] /\ RowClean(q)
    BY <1>1, RowSet DEF CleanInv
  <2> QED
    BY <1>1, <2>1, RowCleanKept
<1>4. SetClean(s)
  BY <1>1 DEF CleanInv, Live
<1>5. rows'[r] # NoRow => RowClean(r)'
  <2> SUFFICES ASSUME rows'[r] # NoRow PROVE RowClean(r)'
    OBVIOUS
  <2>1. CASE TextNext(s, r)
    <3>1. /\ sets[s].own \in Allocs /\ Text(sets[s].kind) /\ rows'[r].set = s
          /\ rows'[r].own = sets[s].own /\ rows'[r].fields = sets[s].fields
      BY <2>1, TextNextEffect
    <3>2. sets[s].own # Null
      BY <3>1, Numbers
    <3>3. reasons \cap {"outlived", "moved"} = {} => "moved" \notin reasons
      OBVIOUS
    <3> QED
      BY <1>1, <1>4, <3>1, <3>2, <3>3 DEF RowClean, SetClean
  <2>2. CASE BinaryNext(s, r)
    <3>1. /\ ~Text(sets[s].kind) /\ stmt.rows /\ rows'[r].set = s
          /\ rows'[r].stmt = sets[s].stmt /\ rows'[r].fields = sets[s].fields
      BY <2>2, BinaryNextEffect
    <3> QED
      BY <1>1, <1>4, <3>1 DEF RowClean, SetClean
  <2> QED
    BY <2>1, <2>2
<1>6. \A q \in Rows' : q = r \/ q \in Rows
  BY <1>1 DEF Rows
<1>7. \A q \in Rows' : RowClean(q)'
  BY <1>3, <1>5, <1>6 DEF Rows
<1> QED
  BY <1>1, <1>2, <1>7 DEF CleanInv, Live

\* Getters leave objects clean.
LEMMA GetClean ==
  ASSUME TypeInv, CleanInv, NEW r \in Rows, NEW named \in BOOLEAN, sets' = MapAfter(r, named),
         UNCHANGED <<stmt, res, rows, reasons>>
  PROVE  CleanInv'
<1>1. ObjectsOK
  BY DEF TypeInv
<1>2. \A s \in SetIds : Live(s)' => SetClean(s)'
  BY <1>1, GetEffect, SetCleanKept DEF CleanInv, Live, StmtOpen
<1>3. \A q \in Rows : RowClean(q)'
  BY <1>1, GetEffect, RowSet, RowCleanKept DEF CleanInv
<1> QED
  BY <1>2, <1>3 DEF CleanInv, Rows

\* A run-time set that was moved from finds no column.
LEMMA MoveClean ==
  ASSUME TypeInv, CleanInv, NEW s \in SetIds, NEW t \in SetIds,
         MoveConstruct(s, t) \/ MoveAssign(s, t)
  PROVE  CleanInv'
<1>1. PICK left \in SetRecs, made \in SetRecs :
        /\ sets' = [sets EXCEPT ![s] = left, ![t] = made] /\ s # t
        /\ sets[s].state = "live" /\ left.state = "live" /\ left.kind = sets[s].kind
        /\ made.state = "live" /\ made.kind = sets[s].kind
        /\ ~CompileTime(sets[s].kind) => ~left.map
  <2>1. sets[s] \in SetRecs /\ sets[t] \in SetRecs
    BY DEF TypeInv, ObjectsOK
  <2>2. CASE MoveConstruct(s, t)
    <3> DEFINE left == MovedFrom(sets[s])
               made == MovedTo(sets[s])
    <3>1. left \in SetRecs /\ made \in SetRecs
      BY <2>1, MovedTyped
    <3>2. s # t /\ sets[s].state = "live"
      BY <2>2, NothingTyped DEF MoveConstruct, Live
    <3>3. sets' = [sets EXCEPT ![s] = left, ![t] = made]
      BY <2>2 DEF MoveConstruct
    <3>4. /\ left.state = "live" /\ left.kind = sets[s].kind
          /\ made.state = "live" /\ made.kind = sets[s].kind
          /\ ~CompileTime(sets[s].kind) => ~left.map
      BY <2>1, <3>2, MovedFromEffect, MovedToEffect
    <3> HIDE DEF left, made
    <3> QED
      BY <3>1, <3>2, <3>3, <3>4
  <2>3. CASE MoveAssign(s, t)
    <3> DEFINE left == AssignedFrom(sets[s])
               made == AssignedTo(sets[t], sets[s])
    <3>1. left \in SetRecs /\ made \in SetRecs
      BY <2>1, MovedTyped, AssignedTyped
    <3>2. s # t /\ sets[s].state = "live"
      BY <2>3 DEF MoveAssign, Live
    <3>3. sets' = [sets EXCEPT ![s] = left, ![t] = made]
      BY <2>3 DEF MoveAssign
    <3>4. /\ left.state = "live" /\ left.kind = sets[s].kind
          /\ made.state = "live" /\ made.kind = sets[s].kind
          /\ ~CompileTime(sets[s].kind) => ~left.map
      BY <2>1, <3>2, AssignedFromEffect, AssignedToEffect
    <3> HIDE DEF left, made
    <3> QED
      BY <3>1, <3>2, <3>3, <3>4
  <2> QED
    BY <2>2, <2>3
<1>2. /\ UNCHANGED <<stmt, rows>> /\ "moved" \in reasons' /\ reasons \subseteq reasons'
      /\ sets[t].state = "unborn"
           \/ (sets[t].kind = sets[s].kind /\ (RowsOf(t) # {} => "outlived" \in reasons'))
  BY NothingTyped DEF MoveConstruct, MoveAssign, Because
<1>3. \A u \in SetIds : SetClean(u)'
  BY <1>2 DEF SetClean
<1>4. ASSUME NEW r \in Rows PROVE RowClean(r)'
  <2>1. RowClean(r) /\ rows[r].set \in SetIds /\ sets[rows[r].set].state # "unborn"
    BY RowSet DEF CleanInv
  <2>2. reasons' # {} /\ reasons' \cap {"outlived", "moved"} # {}
    BY <1>2
  <2>3. "outlived" \notin reasons' => rows[r].set # t
    BY <1>2, <2>1 DEF RowsOf
  <2>4. sets'[s] = left /\ \A u \in SetIds \ {s, t} : sets'[u] = sets[u]
    BY <1>1 DEF TypeInv, ObjectsOK
  <2>5. CASE "outlived" \in reasons'
    BY <1>2, <2>2, <2>5 DEF RowClean
  <2>6. CASE "outlived" \notin reasons'
    <3>1. CASE rows[r].set = s
      BY <1>1, <1>2, <2>1, <2>2, <2>4, <2>6, <3>1 DEF RowClean
    <3>2. CASE rows[r].set # s
      BY <1>2, <2>1, <2>3, <2>4, <2>6, <3>2, RowCleanKept
    <3> QED
      BY <3>1, <3>2
  <2> QED
    BY <2>5, <2>6
<1> QED
  BY <1>2, <1>3, <1>4 DEF CleanInv, Rows

\* A row that outlives its set is a reason.
LEMMA DestroyClean ==
  ASSUME TypeInv, CleanInv, NEW s \in SetIds, Destroy(s)
  PROVE  CleanInv'
<1>1. /\ sets[s].state = "live" /\ sets'[s].state = "dead" /\ sets'[s].kind = sets[s].kind
      /\ \A t \in SetIds \ {s} : sets'[t] = sets[t]
      /\ UNCHANGED <<stmt, rows>> /\ reasons \subseteq reasons'
      /\ RowsOf(s) # {} => "outlived" \in reasons'
  BY DestroyEffect DEF TypeInv, Destroy
<1>2. \A t \in SetIds : Live(t)' => SetClean(t)'
  BY <1>1, SetCleanKept DEF CleanInv, Live, StmtOpen
<1>3. ASSUME NEW r \in Rows PROVE RowClean(r)'
  <2>1. CASE rows[r].set = s
    <3>1. "outlived" \in reasons'
      BY <1>1, <2>1 DEF RowsOf
    <3> QED
      BY <1>1, <3>1 DEF RowClean
  <2>2. CASE rows[r].set # s
    BY <1>1, <2>2, RowSet, RowCleanKept DEF CleanInv
  <2> QED
    BY <2>1, <2>2
<1> QED
  BY <1>1, <1>2, <1>3 DEF CleanInv, Rows

\* Every step keeps the objects clean, or is a reason.
LEMMA NextClean ==
  ASSUME TypeInv, CursorInv, CleanInv, [Next]_vars
  PROVE  CleanInv'
<1>1. CASE \E s \in SetIds, kind \in Kinds :
             \/ \E a \in Allocs \cup {Null} : Prepared(s, kind, a) \/ Executed(s, kind, a)
             \/ Modified(s, kind) \/ Unanswered(s, kind)
  BY <1>1, MadeClean DEF Pointers
<1>2. CASE CloseStatement
  BY <1>2, CloseClean
<1>3. CASE \E s \in SetIds, r \in RowIds : TextNext(s, r) \/ BinaryNext(s, r)
  BY <1>3, NextRowClean
<1>4. CASE \E s \in SetIds, t \in SetIds : MoveConstruct(s, t) \/ MoveAssign(s, t)
  BY <1>4, MoveClean
<1>5. CASE \E s \in SetIds : Destroy(s)
  BY <1>5, DestroyClean
<1>6. CASE \E r \in RowIds, named \in BOOLEAN, c \in Columns :
             \/ TextGet(r, c, named)
             \/ \E opt \in BOOLEAN : BinaryGet(r, c, named, opt)
  <2>1. PICK r \in Rows, named \in BOOLEAN : Got(r, named)
    BY <1>6, GettersGet
  <2>2. sets' = MapAfter(r, named) /\ UNCHANGED <<stmt, res, rows, fresh, reasons>>
    BY <2>1 DEF Got
  <2> QED
    BY <2>2, GetClean
<1>7. CASE \/ \E s \in SetIds : NextUndefined(s) \/ CountUndefined(s) \/ FreedTwice(s)
           \/ \E r \in RowIds, named \in BOOLEAN : GetUndefined(r, named)
           \/ UNCHANGED vars
  <2>1. UNCHANGED <<stmt, sets, rows, reasons>>
    BY <1>7 DEF NextUndefined, CountUndefined, FreedTwice, GetUndefined, Undefined, vars
  <2> QED
    BY <2>1 DEF CleanInv, SetClean, RowClean, Live, StmtOpen, Rows
<1> QED
  BY <1>1, <1>2, <1>3, <1>4, <1>5, <1>6, <1>7 DEF Next

\* What a step that is undefined has been given a reason for.
Reasoned(kind) ==
  /\ kind = "text_rt" => "outlived" \in reasons
  /\ kind = "text_ct" => reasons \cap {"outlived", "moved"} # {}
  /\ kind \in {"binary_ct", "binary_rt"} => reasons # {}

\* The four kinds of sets.
LEMMA KindsOfSets ==
  ASSUME NEW kind \in Kinds
  PROVE  /\ Text(kind) /\ CompileTime(kind) <=> kind = "text_ct"
         /\ Text(kind) /\ ~CompileTime(kind) <=> kind = "text_rt"
         /\ ~Text(kind) <=> kind \in {"binary_ct", "binary_rt"}
  BY CursorAssumption DEF AllKinds, Text, CompileTime

\* A set whose statement is gone, or whose result was freed before, is binary
\* and has been through something.
LEMMA SetUndefined ==
  ASSUME TypeInv, CursorInv, CleanInv, OwnedInv, NEW s \in SetIds,
         NextUndefined(s) \/ CountUndefined(s) \/ FreedTwice(s)
  PROVE  Reasoned(sets[s].kind)
<1>1. /\ sets[s].state = "live" /\ sets[s].kind \in Kinds /\ sets[s].own \in Pointers
      /\ SetClean(s) /\ Owns(s) = sets[s].own /\ TextOwned
  BY DEF NextUndefined, CountUndefined, FreedTwice, Live, TypeInv, ObjectsOK, SetRecs,
         CleanInv, CursorInv, Owns
<1>2. CASE NextUndefined(s) \/ CountUndefined(s)
  <2>1. sets[s].own # Wild
    BY <1>1, Numbers
  <2>2. ~Text(sets[s].kind) /\ reasons # {}
    BY <1>1, <1>2, <2>1 DEF NextUndefined, CountUndefined, SetClean
  <2> QED
    BY <1>1, <2>2, KindsOfSets DEF Reasoned
<1>3. CASE FreedTwice(s)
  <2>1. sets[s].own \in Allocs /\ Owns(s) # Null /\ res[Owns(s)].state # "live"
    BY <1>1, <1>3 DEF FreedTwice, Valid, Pointers
  <2>2. ~Text(sets[s].kind)
    BY <1>1, <2>1 DEF TextOwned
  <2>3. reasons # {}
    BY <1>1, <2>1 DEF OwnedInv, Owned, Open
  <2> QED
    BY <1>1, <2>2, <2>3, KindsOfSets DEF Reasoned
<1> QED
  BY <1>2, <1>3

\* A row that cannot be read has outlived something, or lost what its set was
\* made of.
LEMMA RowUndefined ==
  ASSUME TypeInv, CursorInv, CleanInv, OwnedInv, FlagInv, NEW r \in Rows, NEW named \in BOOLEAN,
         ~RowUsable(r, named)
  PROVE  Reasoned(sets[rows[r].set].kind)
<1> DEFINE s == rows[r].set
           kind == sets[s].kind
<1>1. /\ s \in SetIds /\ kind \in Kinds /\ RowClean(r) /\ TextOwned
      /\ sets[s].own \in Pointers
  BY RowSet DEF TypeInv, ObjectsOK, SetRecs, CleanInv, CursorInv
<1>2. ASSUME "outlived" \notin reasons
      PROVE  sets[s].state = "live" /\ Live(s) /\ Owns(s) = sets[s].own /\ SetClean(s)
  BY <1>1, <1>2 DEF RowClean, Live, Owns, CleanInv
<1>3. ASSUME "outlived" \notin reasons, Text(kind), sets[s].own # Null
      PROVE  Valid(sets[s].own)
  BY <1>1, <1>2, <1>3 DEF TextOwned, Valid, Pointers
<1>4. ASSUME kind = "text_rt", "outlived" \notin reasons
      PROVE  FALSE
  <2>1. Text(kind) /\ ~CompileTime(kind)
    BY <1>1, <1>4, KindsOfSets
  <2>2. Empty(r) \/ Valid(rows[r].own)
    BY <1>1, <1>3, <1>4, <2>1 DEF RowClean, Empty
  <2> QED
    BY <1>2, <1>4, <2>1, <2>2 DEF RowUsable
<1>5. ASSUME kind = "text_ct", reasons \cap {"outlived", "moved"} = {}
      PROVE  FALSE
  <2>1. Text(kind) /\ CompileTime(kind) /\ "outlived" \notin reasons
    BY <1>1, <1>5, KindsOfSets
  <2>2. Valid(rows[r].own) /\ rows[r].fields = rows[r].own
    BY <1>1, <1>3, <1>5, <2>1 DEF RowClean
  <2> QED
    BY <1>2, <2>1, <2>2 DEF RowUsable
<1>6. ASSUME ~Text(kind), reasons = {}
      PROVE  FALSE
  <2>1. Live(s) /\ sets[s].buf = s /\ StmtOpen(sets[s].stmt) /\ Owns(s) = sets[s].own
    BY <1>2, <1>6 DEF SetClean
  <2>2. rows[r].fields = sets[s].own /\ sets[s].own # Null /\ rows[r].stmt = sets[s].stmt
    BY <1>1, <1>6 DEF RowClean
  <2>3. Valid(sets[s].own)
    BY <1>1, <1>6, <2>1, <2>2 DEF OwnedInv, Owned, Open, Valid, Pointers
  <2>4. flags[s].ptr # Null => Live(flags[s].ptr)
    BY <1>1, <1>6, <2>1 DEF FlagInv, FlagOK
  <2> QED
    BY <1>6, <2>1, <2>2, <2>3, <2>4 DEF RowUsable
<1> QED
  BY <1>1, <1>4, <1>5, <1>6, KindsOfSets DEF Reasoned

\* Every step that is undefined has a reason.
LEMMA NextReasoned ==
  ASSUME TypeInv, CursorInv, CleanInv, OwnedInv, FlagInv, Reasoned(undefined), [Next]_vars
  PROVE  Reasoned(undefined)'
<1>1. reasons \subseteq reasons'
  BY ReasonsStay
<1>2. ASSUME Reasoned(undefined')
      PROVE  Reasoned(undefined)'
  BY <1>1, <1>2 DEF Reasoned
<1>3. CASE undefined' = undefined
  BY <1>2, <1>3
<1>4. CASE \E s \in SetIds : NextUndefined(s) \/ CountUndefined(s) \/ FreedTwice(s)
  <2>1. PICK s \in SetIds : NextUndefined(s) \/ CountUndefined(s) \/ FreedTwice(s)
    BY <1>4
  <2>2. undefined' = sets[s].kind
    BY <2>1 DEF NextUndefined, CountUndefined, FreedTwice, Undefined
  <2> QED
    BY <1>2, <2>1, <2>2, SetUndefined
<1>5. CASE \E r \in RowIds, named \in BOOLEAN : GetUndefined(r, named)
  BY <1>2, <1>5, RowUndefined DEF GetUndefined, Undefined
<1>6. CASE UNCHANGED vars
  BY <1>3, <1>6 DEF vars
<1>7. CASE \E s \in SetIds, kind \in Kinds :
             \/ \E a \in Allocs \cup {Null} : Prepared(s, kind, a) \/ Executed(s, kind, a)
             \/ Modified(s, kind) \/ Unanswered(s, kind)
  BY <1>3, <1>7 DEF Prepared, Executed, Modified, Unanswered, Quiet, Defined
<1>8. CASE CloseStatement \/ \E s \in SetIds, r \in RowIds : TextNext(s, r) \/ BinaryNext(s, r)
  BY <1>3, <1>8 DEF CloseStatement, TextNext, BinaryNext, Quiet, Defined
<1>9. CASE \E s \in SetIds : \/ Destroy(s)
                           \/ \E t \in SetIds : MoveConstruct(s, t) \/ MoveAssign(s, t)
  BY <1>3, <1>9 DEF Destroy, MoveConstruct, MoveAssign, Quiet, Defined
<1>10. CASE \E r \in RowIds, named \in BOOLEAN, c \in Columns :
              \/ TextGet(r, c, named)
              \/ \E opt \in BOOLEAN : BinaryGet(r, c, named, opt)
  <2>1. undefined' = undefined
    <3>1. ASSUME NEW r, NEW named, NEW c, TextGet(r, c, named) PROVE undefined' = undefined
      BY <3>1 DEF TextGet, Defined
    <3>2. ASSUME NEW r, NEW named, NEW c, NEW opt, BinaryGet(r, c, named, opt)
          PROVE  undefined' = undefined
      BY <3>2 DEF BinaryGet, Defined
    <3> QED
      BY <1>10, <3>1, <3>2
  <2> QED
    BY <1>3, <2>1
<1> QED
  BY <1>4, <1>5, <1>6, <1>7, <1>8, <1>9, <1>10 DEF Next

\* A use of a set or a row is undefined only for a reason: of a run-time text
\* set when a row outlives its result, at compile time also after a move, of a
\* binary one only after something happened to a set or its statement; running
\* the statement again is no reason (text_result_set_runtime.h:51, connection.h:290).
THEOREM UndefinedHasReason == Spec => []UndefinedNeedsAReason
<1>1. Init => OwnedInv /\ CleanInv /\ Reasoned(undefined)
  <2> SUFFICES ASSUME Init PROVE OwnedInv /\ CleanInv /\ Reasoned(undefined)
    OBVIOUS
  <2>1. \A s \in SetIds : sets[s].state = "unborn"
    BY NothingTyped DEF Init
  <2>2. Rows = {} /\ undefined = "no" /\ \A a \in Allocs : ~Open(a)
    BY DEF Init, Rows, Open
  <2> QED
    BY <2>1, <2>2 DEF OwnedInv, Owned, Owns, CleanInv, Live, Reasoned
<1>2. TypeInv /\ CursorInv /\ FlagInv /\ OwnedInv /\ CleanInv /\ Reasoned(undefined)
  /\ [Next]_vars
        => OwnedInv' /\ CleanInv' /\ Reasoned(undefined)'
  BY NextOwned, NextClean, NextReasoned
<1>3. Reasoned(undefined) => UndefinedNeedsAReason
  BY DEF Reasoned, UndefinedNeedsAReason
<1> QED
  BY <1>1, <1>2, <1>3, Cursors, Flagged, PTL DEF Spec
-----------------------------------------------------------------------------
(***************************************************************************)
(* In which order records are handed out: every step is one of             *)
(* RecordCursor.                                                           *)
(***************************************************************************)
Sources == (1..MaxRuns) \cup Allocs

\* A result has all its records until it is made.
UnusedOK == \A a \in Allocs : res[a].state = "unused" => res[a].cursor = 0

\* The rows that are current after the step were so before it.
RowsReleased ==
  \A r \in RowIds : r \in fresh' => /\ r \in fresh
                                    /\ rows'[r].from = rows[r].from
                                    /\ rows'[r].rec = rows[r].rec

\* How a step is seen to be one of RecordCursor: nothing is handed out ...
LEMMA StepDrops ==
  ASSUME RowsReleased, \A f \in Sources : RecordsLeft(f)' \in {RecordsLeft(f), 0}
  PROVE  Abstract!Next
<1>1. Abstract!Drop
  BY DEF RowsReleased, Sources, Abstract!Drop, Abstract!Released
<1> QED
  BY <1>1 DEF Abstract!Next

\* ... a record is taken ...
LEMMA StepTakes ==
  ASSUME RowsReleased, NEW f \in 1..MaxRuns, RecordsLeft(f) > 0,
         RecordsLeft(f)' = RecordsLeft(f) - 1,
         \A g \in Sources \ {f} : RecordsLeft(g)' = RecordsLeft(g)
  PROVE  Abstract!Next
<1>1. Abstract!Take(f)
  BY DEF RowsReleased, Sources, Abstract!Take, Abstract!Released
<1> QED
  BY <1>1 DEF Abstract!Next

\* ... or one is given.
LEMMA StepGives ==
  ASSUME NEW f \in Sources, NEW r \in RowIds, RecordsLeft(f) > 0,
         RecordsLeft(f)' = RecordsLeft(f) - 1,
         \A g \in Sources \ {f} : RecordsLeft(g)' = RecordsLeft(g),
         r \in fresh', rows'[r].from = f, rows'[r].rec = Records - RecordsLeft(f) + 1,
         \A q \in fresh : rows[q].rec # 0,
         \A q \in RowIds \ {r} : /\ q \in fresh' <=> q \in fresh /\ rows[q].from # f
                                 /\ rows'[q] = rows[q]
  PROVE  Abstract!Next
<1>1. Abstract!Give(f, r)
  BY DEF Sources, Abstract!Give, Abstract!Handed, Abstract!Record, NoRecord
<1> QED
  BY <1>1 DEF Abstract!Next, Sources

\* The records that are left of a result of a text set ...
LEMMA LeftOfResult ==
  ASSUME ObjectsOK, NEW a \in Allocs
  PROVE  /\ RecordsLeft(a) = IF res[a].state = "freed" THEN 0 ELSE Records - res[a].cursor
         /\ RecordsLeft(a)' = IF res'[a].state = "freed" THEN 0 ELSE Records - res'[a].cursor
  BY DEF RecordsLeft

\* ... and of a run of the statement.
LEMMA LeftOfRun ==
  ASSUME NEW f \in 1..MaxRuns, stmt.run \in Nat, stmt'.run \in Nat
  PROVE  /\ f \notin Allocs
         /\ f < stmt.run => RecordsLeft(f) = 0
         /\ f > stmt.run => RecordsLeft(f) = Records
         /\ f = stmt.run => RecordsLeft(f) = IF stmt.open /\ stmt.rows /\ stmt.cursor < Records
                                             THEN Records - stmt.cursor ELSE 0
         /\ f < stmt'.run => RecordsLeft(f)' = 0
         /\ f > stmt'.run => RecordsLeft(f)' = Records
         /\ f = stmt'.run => RecordsLeft(f)' = IF stmt'.open /\ stmt'.rows /\ stmt'.cursor < Records
                                               THEN Records - stmt'.cursor ELSE 0
<1>1. f \notin Allocs /\ f \in Nat
  BY Numbers
<1> QED
  BY <1>1 DEF RecordsLeft

\* What a step leaves alone.
LEMMA LeftKept ==
  ASSUME TypeInv, TypeInv'
  PROVE  /\ \A a \in Allocs : res'[a].state = res[a].state /\ res'[a].cursor = res[a].cursor
                                => RecordsLeft(a)' = RecordsLeft(a)
         /\ \A f \in 1..MaxRuns :
              stmt'.run = stmt.run /\ stmt'.open = stmt.open /\ stmt'.rows = stmt.rows
                /\ stmt'.cursor = stmt.cursor => RecordsLeft(f)' = RecordsLeft(f)
<1>1. ObjectsOK /\ ObjectsOK' /\ stmt.run \in Nat /\ stmt'.run \in Nat
  BY DEF TypeInv, ObjectsOK, Stmts, Handles
<1>2. \A f \in 1..MaxRuns : f < stmt.run \/ f = stmt.run \/ f > stmt.run
  BY <1>1
<1> QED
  BY <1>1, <1>2, LeftOfResult, LeftOfRun

\* A run of the statement ends the one before and begins with all its records;
\* what is allocated begins so, too.
LEMMA MakingDrops ==
  ASSUME TypeInv, TypeInv', UnusedOK, NEW s \in SetIds, NEW kind \in Kinds, NEW a \in Pointers,
         \/ Prepared(s, kind, a) \/ Executed(s, kind, a)
         \/ Modified(s, kind) \/ Unanswered(s, kind)
  PROVE  Abstract!Next /\ UnusedOK'
<1>1. ObjectsOK /\ rows' = rows /\ fresh' \subseteq fresh /\ (Allocate(a) \/ res' = res)
      /\ stmt \in Stmts
  BY DEF Prepared, Executed, Modified, Unanswered, TypeInv, ObjectsOK
<1>2. RowsReleased
  BY <1>1 DEF RowsReleased
<1>3. \A b \in Allocs : /\ res'[b] = res[b] \/ (b = a /\ res[b].state = "unused"
                                               /\ res'[b].state = "live" /\ res'[b].cursor = 0)
  <2>1. Allocate(a) => res'[a].cursor = 0
    BY DEF Allocate, TypeInv, ObjectsOK
  <2> QED
    BY <1>1, <2>1, AllocateTyped
<1>4. \A b \in Allocs : RecordsLeft(b)' = RecordsLeft(b)
  BY <1>1, <1>3, LeftOfResult DEF UnusedOK
<1>5. UnusedOK'
  BY <1>3 DEF UnusedOK
<1>6. CASE stmt' = stmt
  BY <1>2, <1>4, <1>5, <1>6, LeftKept, StepDrops DEF Sources
<1>7. CASE Prepared(s, kind, a)
  <2>1. stmt' = [stmt EXCEPT !.handle = HandleUsed, !.open = TRUE, !.run = @ + 1, !.cursor = 0]
    BY <1>7 DEF Prepared
  <2>2. /\ stmt.run \in Nat /\ stmt'.run = stmt.run + 1 /\ stmt'.cursor = 0
        /\ stmt'.rows = stmt.rows
    BY <1>1, <2>1 DEF Stmts, Handles
  <2>3. ASSUME NEW f \in 1..MaxRuns
        PROVE  RecordsLeft(f)' \in {RecordsLeft(f), 0}
    <3>1. f <= stmt.run => RecordsLeft(f)' = 0
      BY <2>2, LeftOfRun
    <3>2. f > stmt.run => RecordsLeft(f) = Records /\ RecordsLeft(f)' \in {Records, 0}
      BY <2>2, Numbers, LeftOfRun
    <3> QED
      BY <2>2, <3>1, <3>2
  <2> QED
    BY <1>2, <1>4, <1>5, <2>3, StepDrops DEF Sources
<1> QED
  BY <1>6, <1>7 DEF Executed, Modified, Unanswered

\* A statement that is closed loses the records of its run.
LEMMA CloseDrops ==
  ASSUME TypeInv, TypeInv', UnusedOK, CloseStatement
  PROVE  Abstract!Next /\ UnusedOK'
<1>1. /\ stmt' = [stmt EXCEPT !.open = FALSE, !.cursor = 0] /\ stmt \in Stmts
      /\ res' = res /\ rows' = rows /\ fresh' \subseteq fresh
  BY DEF CloseStatement, TypeInv, ObjectsOK
<1>2. ~stmt'.open /\ stmt'.run = stmt.run /\ stmt.run \in Nat
  BY <1>1 DEF Stmts, Handles
<1>3. \A f \in 1..MaxRuns : RecordsLeft(f)' \in {RecordsLeft(f), 0}
  BY <1>2, LeftOfRun
<1>4. \A b \in Allocs : RecordsLeft(b)' = RecordsLeft(b)
  BY <1>1, LeftKept
<1> QED
  BY <1>1, <1>3, <1>4, StepDrops DEF RowsReleased, Sources, UnusedOK

\* next() of a text set gives the next record of its result, or ends its rows.
LEMMA TextNextGives ==
  ASSUME TypeInv, TypeInv', CursorInv, UnusedOK, NEW s \in SetIds, NEW r \in RowIds,
         TextNext(s, r)
  PROVE  Abstract!Next /\ UnusedOK'
<1>0. PICK a : a = sets[s].own
  OBVIOUS
<1>1. /\ sets[s].state = "live" /\ Text(sets[s].kind) /\ stmt' = stmt /\ ObjectsOK
      /\ \A q \in RowIds \ {r} : rows'[q] = rows[q]
  BY TextNextEffect DEF TypeInv
<1>2. \A f \in 1..MaxRuns : RecordsLeft(f)' = RecordsLeft(f)
  BY <1>1, LeftKept
<1>3. CASE res' = res /\ fresh' = fresh \ (RowsOf(s) \cup {r})
  <2>1. RowsReleased
    BY <1>1, <1>3 DEF RowsReleased
  <2>2. \A b \in Allocs : RecordsLeft(b)' = RecordsLeft(b)
    BY <1>3, LeftKept
  <2> QED
    BY <1>2, <1>3, <2>1, <2>2, StepDrops DEF Sources, UnusedOK
<1>4. CASE /\ a \in Allocs /\ res[a].state = "live" /\ res[a].cursor \in 0..(Records - 1)
           /\ res'[a].state = "live" /\ res'[a].cursor = res[a].cursor + 1
           /\ \A b \in Allocs \ {a} : res'[b] = res[b]
           /\ fresh' = (fresh \ (RowsOf(s) \cup {r})) \cup {r}
           /\ rows'[r].from = a /\ rows'[r].rec = res[a].cursor + 1
  <2>1. /\ RecordsLeft(a) = Records - res[a].cursor
        /\ RecordsLeft(a)' = Records - (res[a].cursor + 1)
    BY <1>1, <1>4, LeftOfResult
  <2>2. /\ RecordsLeft(a) > 0 /\ RecordsLeft(a)' = RecordsLeft(a) - 1
        /\ rows'[r].rec = Records - RecordsLeft(a) + 1
    BY <1>4, <2>1, Numbers
  <2>3. \A g \in Sources \ {a} : RecordsLeft(g)' = RecordsLeft(g)
    BY <1>2, <1>4, LeftKept DEF Sources
  <2>4. \A q \in fresh : rows[q].rec # 0 /\ q \in Rows
    BY FreshKinds DEF CursorInv, FreshRow
  <2>5. \A q \in fresh : q \in RowsOf(s) <=> rows[q].from = a
    BY <1>0, <1>1, <1>4, <2>4, RowsOfResult DEF RowsOf, Live
  <2>6. Abstract!Next
    BY <1>1, <1>4, <2>2, <2>3, <2>4, <2>5, StepGives DEF Sources
  <2> QED
    BY <1>4, <2>6 DEF UnusedOK
<1> QED
  BY <1>0, <1>3, <1>4, TextNextEffect

\* The current rows of the statement are those of its latest run.
LEMMA RowsOfRun ==
  ASSUME TypeInv, CursorInv, NEW q \in fresh, stmt.run \in 1..MaxRuns
  PROVE  q \in RowsOfStatement <=> rows[q].from = stmt.run
<1>1. FreshRow(q) /\ stmt.run \notin Allocs
  BY Numbers DEF CursorInv
<1>2. CASE Text(sets[rows[q].set].kind)
  BY <1>1, <1>2, FreshKinds DEF FreshRow, TextFresh
<1>3. CASE ~Text(sets[rows[q].set].kind)
  BY <1>1, <1>3, FreshKinds DEF FreshRow, BinaryFresh
<1> QED
  BY <1>2, <1>3

\* next() of a binary set gives the next record of the latest run; of a set of
\* an earlier run it takes it.
LEMMA BinaryNextGives ==
  ASSUME TypeInv, TypeInv', CursorInv, UnusedOK, NEW s \in SetIds, NEW r \in RowIds,
         BinaryNext(s, r)
  PROVE  Abstract!Next /\ UnusedOK'
<1>0. PICK f : f = stmt.run
  OBVIOUS
<1>1. /\ res' = res /\ f \in Nat /\ stmt'.run = f /\ stmt'.rows = stmt.rows
      /\ stmt'.open = stmt.open /\ stmt.rows \in BOOLEAN /\ stmt.cursor \in Nat
      /\ \A q \in RowIds \ {r} : rows'[q] = rows[q]
  BY <1>0, BinaryNextEffect DEF TypeInv, ObjectsOK, Stmts, Handles
<1>2. (\A a \in Allocs : RecordsLeft(a)' = RecordsLeft(a)) /\ UnusedOK'
  BY <1>1, LeftKept DEF UnusedOK
<1>3. \A g \in Sources \ {f} : RecordsLeft(g)' = RecordsLeft(g)
  <2> SUFFICES ASSUME NEW g \in 1..MaxRuns, g # f
               PROVE  RecordsLeft(g)' = RecordsLeft(g)
    BY <1>2 DEF Sources
  <2>1. g < f \/ g > f
    BY <1>1
  <2> QED
    BY <1>0, <1>1, <2>1, LeftOfRun
<1>4. CASE fresh' = fresh \ (RowsOfStatement \cup {r})
  <2>1. RowsReleased
    BY <1>1, <1>4 DEF RowsReleased
  <2>2. CASE stmt'.cursor = stmt.cursor
    <3>1. \A g \in Sources : RecordsLeft(g)' = RecordsLeft(g)
      BY <1>0, <1>1, <1>2, <2>2, LeftKept DEF Sources
    <3> QED
      BY <1>2, <2>1, <3>1, StepDrops
  <2>3. CASE stmt.open /\ f \in 1..MaxRuns /\ stmt'.cursor = stmt.cursor + 1
    <3>1. /\ RecordsLeft(f) = IF stmt.rows /\ stmt.cursor < Records
                              THEN Records - stmt.cursor ELSE 0
          /\ RecordsLeft(f)' = IF stmt.rows /\ stmt.cursor + 1 < Records
                               THEN Records - (stmt.cursor + 1) ELSE 0
      BY <1>0, <1>1, <2>3, LeftOfRun
    <3>2. CASE stmt.rows /\ stmt.cursor < Records
      <4>1. RecordsLeft(f) > 0 /\ RecordsLeft(f)' = RecordsLeft(f) - 1
        BY <1>1, <3>1, <3>2, Numbers
      <4> QED
        BY <1>2, <1>3, <2>1, <2>3, <4>1, StepTakes
    <3>3. CASE ~(stmt.rows /\ stmt.cursor < Records)
      <4>1. RecordsLeft(f)' = 0
        BY <1>1, <3>1, <3>3, Numbers
      <4> QED
        BY <1>2, <1>3, <2>1, <4>1, StepDrops
    <3> QED
      BY <3>2, <3>3
  <2> QED
    BY <1>0, <1>4, <2>2, <2>3, BinaryNextEffect
<1>5. CASE /\ stmt.open /\ stmt.rows /\ f \in 1..MaxRuns
           /\ stmt.cursor \in 0..(Records - 1) /\ stmt'.cursor = stmt.cursor + 1
           /\ fresh' = (fresh \ (RowsOfStatement \cup {r})) \cup {r}
           /\ rows'[r].from = f /\ rows'[r].rec = stmt.cursor + 1
  <2>1. /\ RecordsLeft(f) = Records - stmt.cursor
        /\ RecordsLeft(f)' = Records - (stmt.cursor + 1)
    <3>1. stmt.cursor < Records /\ Records \in Nat
      BY <1>5, Numbers
    <3>2. RecordsLeft(f)' = IF stmt.cursor + 1 < Records THEN Records - (stmt.cursor + 1) ELSE 0
      BY <1>0, <1>1, <1>5, LeftOfRun
    <3>3. stmt.cursor + 1 < Records \/ Records - (stmt.cursor + 1) = 0
      BY <1>1, <3>1
    <3> QED
      BY <1>0, <1>1, <1>5, <3>1, <3>2, <3>3, LeftOfRun
  <2>2. /\ RecordsLeft(f) > 0 /\ RecordsLeft(f)' = RecordsLeft(f) - 1
        /\ rows'[r].rec = Records - RecordsLeft(f) + 1
    BY <1>5, <2>1, Numbers
  <2>3. \A q \in fresh : rows[q].rec # 0
    BY DEF CursorInv, FreshRow
  <2>4. \A q \in fresh : q \in RowsOfStatement <=> rows[q].from = f
    BY <1>0, <1>5, RowsOfRun
  <2>5. Abstract!Next
    BY <1>1, <1>3, <1>5, <2>2, <2>3, <2>4, StepGives DEF Sources
  <2> QED
    BY <1>2, <2>5
<1> QED
  BY <1>0, <1>4, <1>5, BinaryNextEffect

\* Moves, assignments and destructors only take rows and records away.
LEMMA OwningDrops ==
  ASSUME TypeInv, TypeInv', UnusedOK, NEW s \in SetIds, NEW t \in SetIds,
         MoveConstruct(s, t) \/ MoveAssign(s, t) \/ Destroy(s)
  PROVE  Abstract!Next /\ UnusedOK'
<1>1. stmt' = stmt /\ rows' = rows /\ fresh' \subseteq fresh
  BY DEF MoveConstruct, MoveAssign, Destroy
<1>2. \A a \in Allocs : res'[a] = res[a] \/ res'[a].state = "freed"
  BY DEF MoveConstruct, MoveAssign, Destroy, FreeAll
<1>3. \A a \in Allocs : RecordsLeft(a)' \in {RecordsLeft(a), 0}
  BY <1>2, LeftOfResult DEF TypeInv
<1>4. \A f \in 1..MaxRuns : RecordsLeft(f)' = RecordsLeft(f)
  BY <1>1, LeftKept
<1>5. UnusedOK'
  BY <1>2 DEF UnusedOK
<1> QED
  BY <1>1, <1>3, <1>4, <1>5, StepDrops DEF RowsReleased, Sources

\* Every step is a step of RecordCursor.
LEMMA NextRefines ==
  ASSUME TypeInv, TypeInv', CursorInv, UnusedOK, [Next]_vars
  PROVE  Abstract!Next /\ UnusedOK'
<1>1. CASE \E s \in SetIds, kind \in Kinds :
             \/ \E a \in Allocs \cup {Null} : Prepared(s, kind, a) \/ Executed(s, kind, a)
             \/ Modified(s, kind) \/ Unanswered(s, kind)
  BY <1>1, MakingDrops DEF Pointers
<1>2. CASE CloseStatement
  BY <1>2, CloseDrops
<1>3. CASE \E s \in SetIds, r \in RowIds : TextNext(s, r) \/ BinaryNext(s, r)
  BY <1>3, TextNextGives, BinaryNextGives
<1>4. CASE \E s \in SetIds : \/ Destroy(s)
                           \/ \E t \in SetIds : MoveConstruct(s, t) \/ MoveAssign(s, t)
  BY <1>4, OwningDrops
<1>5. CASE UNCHANGED <<stmt, res, rows, fresh>>
  <2>1. \A f \in Sources : RecordsLeft(f)' = RecordsLeft(f)
    BY <1>5, LeftKept DEF Sources
  <2> QED
    BY <1>5, <2>1, StepDrops DEF RowsReleased, UnusedOK
<1>6. CASE \/ \E s \in SetIds : NextUndefined(s) \/ CountUndefined(s) \/ FreedTwice(s)
           \/ \E r \in RowIds, named \in BOOLEAN : GetUndefined(r, named)
           \/ UNCHANGED vars
  BY <1>5, <1>6 DEF NextUndefined, CountUndefined, FreedTwice, GetUndefined, Undefined, vars
<1>7. CASE \E r \in RowIds, named \in BOOLEAN, c \in Columns : TextGet(r, c, named)
  BY <1>5, <1>7 DEF TextGet
<1>8. CASE \E r \in RowIds, named \in BOOLEAN, c \in Columns, opt \in BOOLEAN :
             BinaryGet(r, c, named, opt)
  <2>1. ASSUME NEW r, NEW named, NEW c, NEW opt, BinaryGet(r, c, named, opt)
        PROVE  UNCHANGED <<stmt, res, rows, fresh>>
    BY <2>1 DEF BinaryGet
  <2> QED
    BY <1>5, <1>8, <2>1
<1> QED
  BY <1>1, <1>2, <1>3, <1>4, <1>6, <1>7, <1>8 DEF Next

\* next() hands out the records of every result in order, each once and none
\* after the last (text_result_set_runtime.h:92, binary_result_set.h:86),
\* through moves, assignments and whatever is run in between.
THEOREM CursorRefines == Spec => HandsOutInOrder
<1>1. Init => UnusedOK /\ Abstract!Init
  <2> SUFFICES ASSUME Init PROVE UnusedOK /\ Abstract!Init
    OBVIOUS
  <2>1. /\ \A a \in Allocs : res[a].state = "unused" /\ res[a].cursor = 0
        /\ stmt.run = 0 /\ fresh = {}
    BY DEF Init
  <2>2. Records - 0 = Records
    BY Numbers
  <2>3. \A a \in Allocs : RecordsLeft(a) = Records
    BY <2>1, <2>2 DEF RecordsLeft
  <2>4. \A f \in 1..MaxRuns : RecordsLeft(f) = Records
    <3> SUFFICES ASSUME NEW f \in 1..MaxRuns PROVE RecordsLeft(f) = Records
      OBVIOUS
    <3>1. f \notin Allocs /\ f > 0 /\ ~(f < 0)
      BY Numbers
    <3> QED
      BY <2>1, <3>1 DEF RecordsLeft
  <2> QED
    BY <2>1, <2>3, <2>4 DEF UnusedOK, Abstract!Init
<1>2. TypeInv /\ TypeInv' /\ CursorInv /\ UnusedOK /\ [Next]_vars
        => UnusedOK' /\ [Abstract!Next]_Abstract!vars
  BY NextRefines
<1> QED
  BY <1>1, <1>2, Cursors, PTL DEF Spec, HandsOutInOrder, Abstract!Spec
=============================================================================
