SPECIFICATION Spec
CONSTANTS
    Sessions = {s1}
    Requests <- MCRead
    UserLines <- MCUserLines
    MaxBytes = 2
    MaxEdits = 1
    Marker = 3
    Heading = 9
    MaxOutput = 10
    MaxLines = 2
    MaxLine = 5
INVARIANTS
    CutsAreMarked
CHECK_DEADLOCK FALSE
