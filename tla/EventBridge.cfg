SPECIFICATION BridgeFairSpec
CONSTANTS
  Connections = {c1, c2}
  Reading = {c1}
  Turns = {t1, t2}
  NoTurn = NoTurn
  Window = 1
  OutCapacity = 1
  LeftOver = TRUE
  MaxSubmits = 1
  MaxDeltas = 1
INVARIANTS
  ResponseFirst
PROPERTIES
  EverySubmitIsAnswered
  HangUpDrains
  EndIsShown
CHECK_DEADLOCK FALSE
