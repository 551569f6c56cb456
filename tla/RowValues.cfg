SPECIFICATION Spec
CONSTANTS
  c1 = c1
  c2 = c2
  None = None
  Thrown = Thrown
  Garbage = Garbage
  Base = 4
  Capacity = 4
  Width <- Bytes4
  Platforms <- PlatformsUsed
  Records <- RecordsUsed
  Targets <- TargetsUsed
  Elements = {1, 2}
  Rooms = {1, 3, 6}
INVARIANTS
  NumbersArrive
  StringsArrive
  CopiesFit
  OptionalsKnowNull
CHECK_DEADLOCK FALSE
