SPECIFICATION Spec
CONSTANT MaxArgs = 4
INVARIANTS
  CopiesOutlive
CHECK_DEADLOCK FALSE
