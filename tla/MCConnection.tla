---------------------------- MODULE MCConnection ----------------------------
(***************************************************************************)
(* Instances of Connection for TLC.                                        *)
(***************************************************************************)
EXTENDS Connection, TLC

CONSTANTS select1, insert1,   \* a query with rows, and one that modifies data
          p1, p2, s1,         \* two pointers and a string
          h1, h2, h3          \* statement handles

NoKeys == {}

\* "Select" and "INSERT"
MCQueryText ==
  (select1 :> <<83, 101, 108, 101, 99, 116>>) @@ (insert1 :> <<73, 78, 83, 69, 82, 84>>)

\* p1 and the string hold the same characters: the same text under two keys.
MCInitialText == [k \in Keys |-> IF k = p2 THEN insert1 ELSE select1]

HandleSymmetry == Permutations(Stmts)
=============================================================================
