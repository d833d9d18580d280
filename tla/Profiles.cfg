SPECIFICATION FairSpec
CONSTANTS
  Processes = {p1, p2}
  Names = {a}
  Default = Default
  NoName = NoName
  Attempts = 1
  Found = {1, 4}
  MaxCommands = 3
  MaxRows = 1
  MaxMishaps = 1
INVARIANTS
  ActsOnTheSelected
  StorageIsCurrent
PROPERTIES
  CreatedStays
  EveryCommandReturns
CHECK_DEADLOCK FALSE
