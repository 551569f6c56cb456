SPECIFICATION Spec
CONSTANTS
  Alphabet <- ShowAlphabet
  MaxLen = 4
INVARIANTS
  ComparesCaseInsensitively
  NothingIsSafeToRetry
CHECK_DEADLOCK FALSE
