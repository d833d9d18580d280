SPECIFICATION Spec
CONSTANTS
  InboundCapacity = 2
  PageLimit = 4
  EventLimit = 2
  MaxTurns = 2
  MaxDeltas = 1
  MaxRefusals = 1
  MaxDeaths = 1
  MaxInterrupts = 1
INVARIANTS
  ScreenIsTrue
  DialogueIsLive
PROPERTIES
  EndLeavesTheScreen
  WaiterIsWoken
CHECK_DEADLOCK FALSE
