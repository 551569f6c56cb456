---------------------------- MODULE RetrySafety ----------------------------
(***************************************************************************)
(* The test by which MySqlConnection decides that a query may be repeated  *)
(* after its connection was lost: is_safe_retry_query and the prefix       *)
(* comparison it rests on.  A query text is a sequence of byte values.     *)
(***************************************************************************)
EXTENDS Integers, Sequences

Byte == 0..255
QueryTexts == Seq(Byte)

LowerCase == 97..122     \* 'a'..'z'
UpperCase == 65..90      \* 'A'..'Z'

to_lower(c) == IF c \in UpperCase THEN c + 32 ELSE c

\* The keywords of the comparison, spelled in lower case as in the code.
select   == <<115, 101, 108, 101, 99, 116>>
show     == <<115, 104, 111, 119>>
describe == <<100, 101, 115, 99, 114, 105, 98, 101>>
explain  == <<101, 120, 112, 108, 97, 105, 110>>
check    == <<99, 104, 101, 99, 107>>
ReadKeywords == {select, show, describe, explain, check}

\* A slip: the range test on the letter dropped.
SameLetterNoRange(s, p) == s = p \/ s + 32 = p \/ p + 32 = s
\* One character of the comparison: equal, or equal once either is lowered.
SameLetter(s, p) ==
  \/ s = p
  \/ s + 32 = p /\ s \in UpperCase
  \/ p + 32 = s /\ p \in UpperCase

starts_with_any_case(str, prefix, offset) ==
  /\ Len(str) >= Len(prefix) + offset
  /\ \A i \in 1..Len(prefix) : SameLetter(str[i + offset], prefix[i])

\* A change of the code: only non-letters are skipped.
SkipsNonLetters(c) == c \notin LowerCase /\ c \notin UpperCase
\* The condition under which the loop at the head of is_safe_retry_query
\* skips a character: "not lower case, or not upper case".
Skips(c) == c \notin LowerCase \/ c \notin UpperCase

\* The index at which that loop stops: the first character it does not skip,
\* or the size of the query.
LoopStops(query, i) == i = Len(query) \/ ~Skips(query[i + 1])
SkipTo(query) ==
  CHOOSE i \in 0..Len(query) :
    LoopStops(query, i) /\ \A j \in 0..(i - 1) : ~LoopStops(query, j)

is_safe_retry_query(query) ==
  /\ query # <<>>
  /\ \E keyword \in ReadKeywords :
       starts_with_any_case(query, keyword, SkipTo(query))

-----------------------------------------------------------------------------
(***************************************************************************)
(* The reference the two functions are compared with.                      *)
(***************************************************************************)
\* Position of the first letter of the text, its length if it has none.
FirstLetter(query) ==
  CHOOSE i \in 0..Len(query) :
    /\ i = Len(query) \/ query[i + 1] \in LowerCase \cup UpperCase
    /\ \A j \in 1..i : query[j] \notin LowerCase \cup UpperCase

\* The text without its leading non-letters starts with a keyword of a query
\* that modifies nothing.
IsReadQuery(query) ==
  LET start == FirstLetter(query) IN
  \E k \in ReadKeywords :
    /\ start + Len(k) <= Len(query)
    /\ [i \in 1..Len(k) |-> to_lower(query[start + i])] = k

=============================================================================
