SPECIFICATION WriterSpec
CONSTANTS
    Sessions = {s1, s2}
    Requests <- MCRequests
    UserLines <- MCUserLines
    MaxBytes = 2
    MaxEdits = 1
    Marker = 3
    Heading = 9
    MaxOutput = 10
    MaxLines = 2
    MaxLine = 5
INVARIANTS
    WritesAreAllOrNothing
    NothingVanishes
    NothingIsLeftBehind
PROPERTIES
    NeverClobbers
    EveryCallEnds
CHECK_DEADLOCK FALSE
