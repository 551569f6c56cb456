---------------------------- MODULE RecordCursor ----------------------------
(***************************************************************************)
(* What next() promises of the records of a result (result_set/*.h): it    *)
(* hands them out from the first to the last, in order, each to one row,   *)
(* and nothing after the last.  ResultCursor implements it.                *)
(***************************************************************************)
EXTENDS Integers

CONSTANTS
  Sources,  \* the results there can be
  Shared,   \* those whose records another set can take
  RowIds, Records, None

VARIABLES
  left,     \* [Sources -> how many records are still to be handed out]
  current   \* [RowIds -> what it was handed last and is current, or None]

vars == <<left, current>>

Record(f, rec) == [from |-> f, rec |-> rec]
Handed(f) == {r \in RowIds : current[r] # None /\ current[r].from = f}

\* The next record of f goes to r; the row that was current before is not any more.
Give(f, r) ==
  /\ left[f] > 0
  /\ left' = [left EXCEPT ![f] = @ - 1]
  /\ current' = [q \in RowIds |-> IF q = r THEN Record(f, Records - left[f] + 1)
                                 ELSE IF q \in Handed(f) THEN None ELSE current[q]]

\* Rows stop being the current ones.
Released == \A r \in RowIds : current'[r] \in {current[r], None}

\* Results are freed, closed or replaced by a new run.
Drop == Released /\ \A f \in Sources : left'[f] \in {left[f], 0}

\* A set of an earlier run of the statement takes the record.
Take(f) == Released /\ left[f] > 0 /\ left' = [left EXCEPT ![f] = @ - 1]

Init == left = [f \in Sources |-> Records] /\ current = [r \in RowIds |-> None]

Next == \/ Drop
        \/ \E f \in Sources, r \in RowIds : Give(f, r)
        \/ \E f \in Shared : Take(f)

Spec == Init /\ [][Next]_vars
=============================================================================
