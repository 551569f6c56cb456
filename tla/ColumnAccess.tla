---------------------------- MODULE ColumnAccess ----------------------------
(***************************************************************************)
(* comptime_row_base.h, runtime_row_base.h and the constructors of the     *)
(* result sets: which column of the server's row an accessor reads, given  *)
(* a name or an index.                                                     *)
(*                                                                         *)
(* columns is the sequence of the names that were parsed, and fields that  *)
(* of the names that the server gives the columns.                         *)
(* A query whose parsed columns include a wildcard gets a run-time set;    *)
(* another one, given as a template argument, a compile-time set.          *)
(***************************************************************************)
EXTENDS QueryParsing, FiniteSets

\* A slip: only the first column is looked at.
FirstIsWildcard(columns) == Head(columns \o << <<>> >>) = <<"*">>
has_wildcard_column(columns) == Contains(columns, <<"*">>)

\* A slip: the names are those of parsing, not of the server.
NamesParsed(columns, fields) == columns
\* The names of the columns that go into the map: of a compile-time set, of as
\* many columns as were parsed; of a run-time set, of all.  More columns than
\* the server has, which a comma in an expression makes, are read from behind
\* its fields: whatever that does is left out.
NamesMapped(columns, fields) ==
  IF has_wildcard_column(columns) THEN fields
  ELSE SubSeq(fields, 1, Min({Len(columns), Len(fields)}))

\* column_map_: a name that is there already gets the later index.
column_map(columns, fields) ==
  LET names == NamesMapped(columns, fields)
  IN [name \in Range(names) |-> Max({i \in 1..Len(names) : names[i] = name}) - 1]

\* A slip: an index too many.
CountedFromOne(columns, fields) == Cardinality(DOMAIN column_map(columns, fields)) + 1
\* A run-time row has as many columns as its map has names.
MapSize(columns, fields) == Cardinality(DOMAIN column_map(columns, fields))
column_count(columns, fields) ==
  IF has_wildcard_column(columns) THEN MapSize(columns, fields)
  ELSE Len(columns)

\* A name given at run time is a view: its characters, and the rest of its buffer
\* up to the NUL, nothing where the view ends with the buffer.
View(chars, rest) == [chars |-> chars, rest |-> rest]
\* column.data() drops the length: what is looked up ends at the NUL.
data(view) == view.chars \o view.rest

\* Where get, get_opt, byte_length and copy_to read: by a name given at run
\* time, and by an index; NotFound is T(), nullopt, 0 or -1.
IndexOfName(columns, fields, view) ==
  LET map == column_map(columns, fields)  name == data(view)
  IN IF name \in DOMAIN map THEN map[name] ELSE NotFound
IndexChecked(columns, fields, index) ==
  IF index < column_count(columns, fields) THEN index ELSE NotFound

\* A slip: the index of the first column.
FirstColumn == 0
\* static_cast<size_t>(-1): the largest index, smaller here than in the code.
MaxIndex == 2^30
NoColumn == MaxIndex

\* get and get_opt without a type return a proxy that holds an index; it is
\* checked when the proxy is converted to a type.
ProxyIndex(columns, fields, view) ==
  LET index == IndexOfName(columns, fields, view)
  IN IF index = NotFound THEN NoColumn ELSE index
IndexThroughProxy(columns, fields, view) ==
  IndexChecked(columns, fields, ProxyIndex(columns, fields, view))

\* The name of a column by its index, of a compile-time set only.
column_name(columns, index) == columns[index + 1]

\* A slip: a mark at the end of the text is not counted.
BeforeTheEnd(query) == 0..(Len(query) - 2)
PositionsOf(query) == 0..Len(query)
\* The parameters that a prepared query is compiled for.
parse_bind_params(query) == Cardinality({pos \in PositionsOf(query) : CharAt(query, pos) = "?"})
=============================================================================
