SPECIFICATION Spec
CONSTANTS
  Alphabet <- ShowAlphabet
  MaxLen = 4
INVARIANT ReadQueriesAreSafe
CHECK_DEADLOCK FALSE
