SPECIFICATION HalvesSpec
CONSTANTS
  Sessions = {s1, s2}
  Turns = {t1, t2}
  Calls = {c1, c2}
  Approvals = {a1}
  Schemas = {h1}
  Keys = {}
  NoKey = NoKey
  NoTurn = NoTurn
  NoSession = NoSession
  NoCall = NoCall
  NoApproval = NoApproval
  NoSchema = NoSchema
  Batches <- MCBatches
  MaxLogged = 3
  MaxNotes = 1
  MaxMessages = 5
  MaxTickets = 2
SYMMETRY Symmetric
CONSTRAINT BoundedLogs
INVARIANTS
  TurnsDoNotInterleave
  LogMirrorsTranscript
  CountIsActive
PROPERTIES
  NewInputIsNeverMerged
  LosesOnlyItsTail
CHECK_DEADLOCK FALSE
