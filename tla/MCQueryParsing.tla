--------------------------- MODULE MCQueryParsing ---------------------------
(***************************************************************************)
(* Select queries as a programmer writes them, one per state, with the     *)
(* names the server gives their columns: the reference for QueryParsing.   *)
(*                                                                         *)
(* An item of the select list is a column, perhaps with a table in front   *)
(* of it, or an expression, perhaps with an alias and white space around.  *)
(***************************************************************************)
EXTENDS ColumnAccess

CONSTANTS Characters, Columns, Expressions, Tables, Aliases, Tails, MaxItems,
          TableColumns, \* what the server returns for a wildcard
          Rests         \* what may stand behind a name that is looked up

None == <<>>
star == <<"*">>
Text == Seq(Characters)

\* Names have no white space and no punctuation, and are no keyword; the name of
\* a table comes with its dot.  Expressions may have them, but do not begin with
\* AS, and a star in them is an operator or an argument, so that something
\* follows it.  A list is as long as an index can count.
Plain(word, marks) == \A i \in 1..Len(word) : word[i] \notin Whitespace \cup marks
BeginsWithAs(word) ==
  /\ Len(word) >= 2 /\ SubSeq(word, 1, 2) = as
  /\ Len(word) > 2 => word[3] \in Whitespace
StarEnds(word) ==
  \E i \in 1..Len(word) : \E k \in (i + 1)..(Len(word) + 1) :
    /\ word[i] = "*" /\ \A m \in (i + 1)..(k - 1) : word[m] \in Whitespace
    /\ k <= Len(word) => word[k] = Comma

\* The characters that parsing looks for.
Marks == {"s", "e", "l", "c", "t", "f", "r", "o", "m", "a", Comma, ".", "*"}

ASSUME QueryAssumption ==
  /\ Marks \cup Whitespace \subseteq Characters
  /\ \A word \in Columns \cup (Aliases \ {None}) :
       word \in Text \ {None, as} /\ Plain(word, {Comma, ".", "*"})
  /\ \A table \in Tables \ {None} :
       table \in Text \ {None} /\ Plain(table, {Comma, "*"}) /\ table[Len(table)] = "."
  /\ \A word \in Expressions :
       /\ word \in Text \ {None}
       /\ word[1] \notin Whitespace /\ word[Len(word)] \notin Whitespace
       /\ ~BeginsWithAs(word) /\ ~StarEnds(word)
  /\ \A word \in Tails \ {None} :
       /\ word \in Text /\ Len(word) >= 4 /\ SubSeq(word, 1, 4) = from
       /\ Len(word) > 4 => word[5] \in Whitespace
  /\ TableColumns \in Seq(Text) \ {<<>>} /\ Rests \subseteq Text
  /\ MaxItems \in Nat \ {0} /\ MaxItems * Len(TableColumns) =< MaxIndex
Spaces == {None, <<Space>>}
Items == [table : Tables, expr : Columns, alias : Aliases, space : Spaces]
           \cup [table : {None}, expr : Expressions, alias : Aliases, space : Spaces]
           \cup [table : Tables, expr : {star}, alias : {None}, space : Spaces]

VARIABLES items, tail,
          columns, \* what parsing finds in them
          fields   \* the names of the columns that the server returns

Written(i) ==
  LET item == items[i] IN
  item.space \o item.table \o item.expr
    \o (IF item.alias = None THEN None ELSE <<Space>> \o as \o <<Space>> \o item.alias)
    \o item.space

query == select \o <<Space>>
         \o FlattenSeq([i \in 1..Len(items) |->
                          Written(i) \o IF i < Len(items) THEN <<Comma>> ELSE None])
         \o <<"\n">> \o tail

\* The name of a column: its alias, else its expression as written.
Name(item) == IF item.alias = None THEN item.expr ELSE item.alias

\* The server returns the columns of the table for a wildcard.
Wildcard(item) == item.expr = star
Returned(item) == IF Wildcard(item) THEN TableColumns ELSE <<Name(item)>>

Init == /\ tail \in Tails /\ \E item \in Items : items = <<item>>
        /\ \E text \in {query} : columns = parse_select_columns(text)
        /\ fields = Returned(items[1])
Next == /\ Len(items) < MaxItems /\ UNCHANGED tail
        /\ \E item \in Items : items' = Append(items, item) /\ fields' = fields \o Returned(item)
        /\ \E text \in {query'} : columns' = parse_select_columns(text)
Spec == Init /\ [][Next]_<<items, tail, columns, fields>>

\* The parameters of a text as the server counts them: a mark in quotes is none.
Placeholders(text) ==
  Cardinality({p \in 1..Len(text) : text[p] = "?" /\ (p = 1 \/ text[p - 1] # "'")})

-----------------------------------------------------------------------------
\* A keyword in a word, with white space or the end of the word behind it.
Holds(word, keyword) ==
  \E i \in 1..(Len(word) - Len(keyword) + 1) :
     /\ SubSeq(word, i, i + Len(keyword) - 1) = keyword
     /\ i + Len(keyword) > Len(word) \/ word[i + Len(keyword)] \in Whitespace

\* What parsing takes for something else: a name that ends in "as" takes the
\* place of an AS, one that ends in "from" that of FROM; a comma in an
\* expression separates columns, a dot or an AS in it shortens its name.
TakenForAs(item) == Holds(Name(item), as)
TakenForFrom(item) == Holds(item.expr, from) \/ Holds(item.alias, from)
HoldsComma(item) == Contains(item.expr, Comma)
HoldsDot(item) == item.alias = None /\ \E i \in 1..(Len(item.expr) - 1) : item.expr[i] = "."

Regular(item) ==
  ~(TakenForAs(item) \/ TakenForFrom(item) \/ HoldsComma(item) \/ HoldsDot(item))
AllItems(P(_)) == \A i \in 1..Len(items) : P(items[i])

\* A name stands in a later expression that has an AS in front of it, perhaps.
Inside(word, text) ==
  \E i \in 0..(Len(text) - Len(word)) : SubSeq(text, i + 1, i + Len(word)) = word
ReadOfAnother(i) ==
  HoldsDot(items[i]) /\ \E j \in (i + 1)..Len(items) :
    Holds(items[j].expr, as) /\ Inside(Name(items[i]), Written(j))

-----------------------------------------------------------------------------
\* The columns found by parsing are the columns the server returns, in its
\* order and under its names, so an index found at compile time reads the
\* column of that name: for lists of regular items, with and without tables,
\* aliases, white space and a FROM (query_parsing.h:172).  None is dropped for
\* want of a place, although the places are counted before the columns are
\* known (query_parsing.h:157).
FindsTheColumns ==
  AllItems(LAMBDA item : Regular(item) /\ ~Wildcard(item)) => columns = fields

\* Whatever the items are called, no index is found at compile time that the
\* server's row does not have: misread names lose columns, they add none.
\* Only a comma inside an expression does that.
IndexesStayInRange ==
  AllItems(LAMBDA item : ~HoldsComma(item)) => Len(columns) <= Len(fields)

\* A column found under the name of an item is that item's or stands before
\* it: lost columns shift the indexes to the left, never to the right.  Only a
\* name with a dot, which is never read as it is written, may be what is left of
\* a later expression ("+ t.id" of "bias + t.id").
ShiftsLeftOnly ==
  AllItems(LAMBDA item : ~HoldsComma(item))
    => \A i \in 1..Len(items) :
         ReadOfAnother(i) \/ column_index(columns, Name(items[i])) <= i - 1

\* "If there's a wildcard column, we can't determine the amount of resulting
\* columns at compile-time" (connection.h:144): wherever a wildcard stands, and
\* with a table in front of it too, the set is a run-time set, unless a name in
\* front of it is taken for FROM.
WildcardsReadAtRunTime ==
  AllItems(LAMBDA item : ~TakenForFrom(item))
    => (has_wildcard_column(columns) <=> \E i \in 1..Len(items) : Wildcard(items[i]))

\* A name that is looked up at run time never reads a column of another name,
\* however the query was parsed, unless in more columns than there are.  The
\* exception is a view that ends before its buffer does: it reads the column of
\* the name that the buffer holds, if there is one (comptime_row_base.h:159).  Of
\* regular lists every name is found whose view ends with its buffer, and the
\* index found at compile time reads a column of that name as well: the first,
\* where the run-time lookup reads the last.
LookupsFindTheName ==
  /\ AllItems(LAMBDA item : ~HoldsComma(item)) =>
       \A f \in 1..Len(fields), rest \in Rests \cup {None} :
         LET i == IndexOfName(columns, fields, View(fields[f], rest)) IN
         i # NotFound => /\ i < Len(fields)
                         /\ fields[i + 1] = IF rest = None THEN fields[f] ELSE fields[f] \o rest
  /\ AllItems(Regular) =>
       \A f \in 1..Len(fields) :
         /\ IndexOfName(columns, fields, View(fields[f], None)) >= f - 1
         /\ ~has_wildcard_column(columns) =>
              column_index(columns, fields[f]) \in 0..(f - 1)
                /\ column_name(columns, column_index(columns, fields[f])) = fields[f]

\* An index that is checked against column_count is one of the server's row,
\* and every column of it has one, of regular lists and of wildcards; of a
\* run-time set two columns of one name have one entry in the map, and the
\* last columns cannot be reached (runtime_row_base.h:36).
EveryColumnHasAnIndex ==
  /\ AllItems(LAMBDA item : ~HoldsComma(item)) =>
       \A i \in 0..Len(fields) : IndexChecked(columns, fields, i) < Len(fields)
  /\ AllItems(Regular) /\ (has_wildcard_column(columns) => IsInjective(fields)) =>
       \A i \in 0..(Len(fields) - 1) : IndexChecked(columns, fields, i) = i

\* A name reads the same column, or none, with the type given at once and
\* through a proxy that is converted to it; of a run-time set whose columns
\* share a name the proxy's check may refuse the index (runtime_row_base.h:119).
ProxiesReadTheSame ==
  AllItems(LAMBDA item : ~HoldsComma(item)) =>
    \A name \in Range(fields) \cup Aliases, rest \in Rests \cup {None} :
      LET direct == IndexOfName(columns, fields, View(name, rest))
          proxy  == IndexThroughProxy(columns, fields, View(name, rest)) IN
      proxy = direct \/ (proxy = NotFound /\ has_wildcard_column(columns) /\ ~IsInjective(fields))

\* A query that compiles with its arguments binds at least the parameters that
\* the server counts (connection.h:129): all of them when no mark stands in
\* quotes, and otherwise more.
PlaceholdersAreBound ==
  /\ parse_bind_params(query) >= Placeholders(query)
  /\ ~Contains(query, "'") => parse_bind_params(query) = Placeholders(query)

\* "Handle aliases (find AS keyword from the back)" (query_parsing.h:135): a
\* name is no AS keyword, so it takes an AS to change what a column is called.
NamesAreNoAliases ==
  AllItems(LAMBDA item : item.alias = None /\ item.expr \in Columns /\ ~TakenForFrom(item))
    => columns = [i \in 1..Len(items) |-> Name(items[i])]

-----------------------------------------------------------------------------
(***************************************************************************)
(* Values of the constants.                                                *)
(***************************************************************************)
id      == <<"i", "d">>
alpha   == <<"a", "s", "a">>
ending  == <<"l", "a", "s", "t">>
bias    == <<"b", "a", "s">>
from_id == <<"f", "r", "o", "m", "_">>
valid   == <<"v", "_", "f", "r", "o", "m">>
product == <<"i", "d", " ", "*", " ", "2">>
scaled  == <<"t", ".", "i", "d", " ", "*", " ", "2">>
cast    == <<"c", "(", "i", "d", " ", "a", "s", " ", "d", ")">>
call2   == <<"f", "(", "i", ",", "a", ")">>
marked  == <<"i", "d", " ", "=", " ", "?">>
quoted  == <<"i", "d", " ", "=", " ", "'", "?", "'">>
part    == <<"e", "(", "i", " ", "f", "r", "o", "m", " ", "d", ")">>
signed  == <<"+", " ", "t", ".", "i", "d">>
shifted == bias \o <<" ">> \o signed

LettersUsed == Marks \cup Whitespace
                 \cup {"i", "d", "b", "_", "v", "u", "2", "(", ")", "=", "?", "'", "+"}

\* Names and expressions that parse as what they are, and others.
NamesUsed == {id, ending, from_id, bias, valid}
ExpressionsUsed == {product, scaled, cast, call2, marked, quoted, part, signed, shifted}
AliasesUsed == {None, alpha, from_id, bias, valid}

OwnTable == {None, <<"t", ".">>}
TailsUsed == {from \o <<" ", "t", ",", "u", " ", "l", "i", "m", "i", "t", " ", "?">>, None}
ColumnsOfTable == <<id, ending>>

\* A view of "id" in a buffer that holds the name of another item.
RestsUsed == {<<" ", "*", " ", "2">>}
=============================================================================
