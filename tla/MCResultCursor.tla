--------------------------- MODULE MCResultCursor ---------------------------
(***************************************************************************)
(* Instances of ResultCursor for TLC.                                      *)
(***************************************************************************)
EXTENDS ResultCursor, TLC

CONSTANTS c1, c2

\* The second record has a NULL in its second column.
MCNulls == {<<2, c2>>}

\* A bound: at most two kinds of mishaps in one behaviour, as a move there and back,
\* or a statement that is closed and a row that outlives its set.
FewReasons == Cardinality(reasons) <= 2

\* Objects and allocations are interchangeable.
Objects == Permutations(SetIds) \cup Permutations(RowIds) \cup Permutations(Allocs)
=============================================================================
