SPECIFICATION Spec
CONSTANT MaxArgs = 4
INVARIANTS
  RecordsReadTheirArgument
  OneStringIsSafe
CHECK_DEADLOCK FALSE
