SPECIFICATION Spec
CONSTANTS
  c1 = c1
  c2 = c2
  Null = Null
  Wild = Wild
  SetIds = {s1, s2}
  RowIds = {r1, r2}
  Allocs = {a1, a2}
  Columns = {c1, c2}
  Records = 2
  Nulls <- MCNulls
  MaxRuns = 2
  Kinds = {"binary_ct", "binary_rt", "text_ct", "text_rt"}
SYMMETRY Objects
CONSTRAINT FewReasons
INVARIANTS
  TypeOK
  ReadsItsRow
  UndefinedNeedsAReason
  OwnedOnce
PROPERTIES
  HandsOutInOrder
CHECK_DEADLOCK FALSE
