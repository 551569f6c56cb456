--------------------------- MODULE MCRetrySafety ---------------------------
(***************************************************************************)
(* Every text of at most MaxLen characters over Alphabet, built one        *)
(* character at a time so that TLC visits each of them once.               *)
(***************************************************************************)
EXTENDS RetrySafety

CONSTANTS Alphabet, MaxLen

ASSUME AlphabetAssumption == Alphabet \subseteq Byte /\ MaxLen \in Nat

VARIABLE query

Init == query = <<>>
Next == /\ Len(query) < MaxLen
        /\ \E c \in Alphabet : query' = Append(query, c)
Spec == Init /\ [][Next]_query

\* Letters of "show" in both cases, a space, and the two characters just
\* outside the upper-case range, where an off-by-one would bite: '@' and '['.
ShowAlphabet == {115, 104, 111, 119, 83, 72, 32, 64, 91}

\* The prefix comparison of query_parsing.h is exactly a comparison of the
\* lower-cased characters, whatever the case of either string and wherever in
\* the string it starts, and it never looks past the end of the string.
ComparesCaseInsensitively ==
  \A prefix \in {show, <<83, 72>>, <<91>>, <<64, 115>>}, offset \in 0..3 :
    starts_with_any_case(query, prefix, offset) <=>
      /\ offset + Len(prefix) <= Len(query)
      /\ [i \in 1..Len(prefix) |-> to_lower(query[offset + i])]
           = [i \in 1..Len(prefix) |-> to_lower(prefix[i])]

\* What is_safe_retry_query computes: its loop skips letters too, so it runs
\* to the end of the text and no text at all is judged safe to retry.
NothingIsSafeToRetry == ~is_safe_retry_query(query)

\* What the comments in connection.h promise of it ("Check if a query is safe
\* to retry (i.e. non-modifying)"): a text that starts with the keyword of a
\* non-modifying query, after any leading non-letters, is judged safe.
ReadQueriesAreSafe == IsReadQuery(query) => is_safe_retry_query(query)
=============================================================================
