SPECIFICATION Spec
CONSTANTS
  Characters <- LettersUsed
  Columns <- NamesUsed
  Expressions <- ExpressionsUsed
  Tables <- OwnTable
  Aliases <- AliasesUsed
  Tails <- TailsUsed
  MaxItems = 2
  TableColumns <- ColumnsOfTable
  Rests <- RestsUsed
INVARIANTS
  FindsTheColumns
  IndexesStayInRange
  ShiftsLeftOnly
  WildcardsReadAtRunTime
  LookupsFindTheName
  EveryColumnHasAnIndex
  ProxiesReadTheSame
  PlaceholdersAreBound
CHECK_DEADLOCK FALSE
