---------------------------- MODULE QueryParsing ----------------------------
(***************************************************************************)
(* query_parsing.h: the column names that the compile-time variants of     *)
(* execute() and prepared() read from the text of a query, and the index   *)
(* under which the value of a column name is read.                         *)
(*                                                                         *)
(* A text is a sequence of characters; as in the code, positions count     *)
(* from 0.  The code lowers every letter it compares, so a letter stands   *)
(* for both its cases here.                                                *)
(***************************************************************************)
EXTENDS Integers, Sequences, FiniteSetsExt, SequencesExt

NotFound == -1

select == <<"s", "e", "l", "e", "c", "t">>
from   == <<"f", "r", "o", "m">>
as     == <<"a", "s">>

Comma == ","
Space == " "
Whitespace == {Space, "\t", "\n"}

\* safe_char_at: behind the end of the text there are no characters.
CharAt(query, pos) == IF pos < Len(query) THEN query[pos + 1] ELSE "\\0"
Blank(query, pos) == CharAt(query, pos) \in Whitespace

\* The characters at i are the keyword, and it ends there; that it begins
\* there is not asked.
MatchesAt(query, keyword, i) ==
  /\ SubSeq(query, i + 1, i + Len(keyword)) = keyword
  /\ i + Len(keyword) >= Len(query) \/ Blank(query, i + Len(keyword))

\* The position behind the first match.
find_keyword(query, keyword, start) ==
  LET hits == {i \in start..(Len(query) - Len(keyword)) : MatchesAt(query, keyword, i)}
  IN IF hits = {} THEN NotFound ELSE Min(hits) + Len(keyword)

skip_whitespace(query, pos) ==
  Min({p \in pos..Len(query) : p = Len(query) \/ ~Blank(query, p)})

trim_bounds(query, start, end) ==
  LET s == Min({p \in start..end : p = end \/ ~Blank(query, p)})
  IN <<s, Max({p \in s..end : p = s \/ ~Blank(query, p - 1)})>>

\* Where "as" stands in a column, with a blank or the end of the column behind
\* it: any two such letters behind the first, also the last two of a name.
AliasMarks(query, start, end) ==
  {i \in (start + 1)..(end - 2) :
     /\ SubSeq(query, i + 1, i + 2) = as
     /\ i + 2 >= end \/ Blank(query, i + 2)}

Dots(query, start, end) == {i \in start..(end - 2) : CharAt(query, i) = "."}

\* A slip: the first "as" of the column, not the last.
FirstMark(marks) == Min(marks)
LastMark(marks) == Max(marks)

\* Where the name begins: behind AS, else behind the last dot, else at the
\* start of the column.  A dot at the very end counts as none.
extract_column_name(query, start, end) ==
  LET marks == AliasMarks(query, start, end)
      dots  == Dots(query, start, end)
  IN CASE marks # {} -> skip_whitespace(query, LastMark(marks) + 2)
       [] marks = {} /\ CharAt(query, end - 1) # "." /\ dots # {} -> Max(dots) + 1
       [] OTHER -> start

\* The name of the column between two separators; empty if there is none.
ColumnBetween(query, start, end) ==
  LET bounds == trim_bounds(query, start, end)
  IN IF bounds[1] = bounds[2] THEN <<>>
     ELSE SubSeq(query, extract_column_name(query, bounds[1], bounds[2]) + 1, bounds[2])

\* A slip: FROM is not looked for.
ToTheEnd(query, start) == Len(query)
\* Where the list of columns ends: at FROM, or with the text.
EndOfColumns(query, start) ==
  LET f == find_keyword(query, from, start)
  IN IF f = NotFound THEN Len(query) ELSE f - Len(from)

\* A slip: no place for the column behind the last comma.
CountsCommas(query) == Cardinality({p \in 1..Len(query) : query[p] = Comma})
\* The places for columns: one more than there are commas in the whole text.
count_max_possible_columns(query) == 1 + Cardinality({p \in 1..Len(query) : query[p] = Comma})

\* A column without a name is not added, one without a place is dropped.
add_column(columns, name, places) ==
  IF name = <<>> \/ Len(columns) >= places THEN columns ELSE Append(columns, name)

\* Where the column begins that ends at pos: behind the comma before it.
StartOfColumn(query, first, pos) ==
  Max({first} \cup {p \in (first + 1)..pos : CharAt(query, p - 1) = Comma})

\* The loop over the positions first to last: a comma, or the end, ends a column.
ReadColumns(query, first, last) ==
  LET places == count_max_possible_columns(query)
      read[pos \in 0..last] ==
        IF pos < first THEN <<>>
        ELSE IF pos = last \/ CharAt(query, pos) = Comma
        THEN add_column(read[pos - 1],
                        ColumnBetween(query, StartOfColumn(query, first, pos), pos), places)
        ELSE read[pos - 1]
  IN read[last]

parse_select_columns(query) ==
  IF find_keyword(query, select, 0) = NotFound THEN <<>>
  ELSE LET first == skip_whitespace(query, find_keyword(query, select, 0))
       IN ReadColumns(query, first, EndOfColumns(query, first))

\* A slip: the last column of that name.
LastPlace(places) == Max(places)
FirstPlace(places) == Min(places)

\* The index at which the row is read for a name; no such name, no program.
column_index(columns, name) ==
  LET places == {i \in 1..Len(columns) : columns[i] = name}
  IN IF places = {} THEN NotFound ELSE FirstPlace(places) - 1
=============================================================================
