SPECIFICATION Spec
CONSTANTS
  Characters <- LettersUsed
  Columns <- NamesUsed
  Expressions <- ExpressionsUsed
  Tables <- OwnTable
  Aliases <- AliasesUsed
  Tails <- TailsUsed
  MaxItems = 2
  TableColumns <- ColumnsOfTable
  Rests <- RestsUsed
INVARIANT NamesAreNoAliases
CHECK_DEADLOCK FALSE
