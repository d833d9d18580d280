SPECIFICATION ServicesSpec
CONSTANTS
  Sessions = {s1, s2}
  Turns = {t1, t2}
  Calls = {}
  Approvals = {a1, a2}
  Keys = {k1}
  NoSession = NoSession
  NoTurn = NoTurn
  NoCall = NoCall
  NoApproval = NoApproval
  NoKey = NoKey
  Bodies <- MCBodies
  FrameLimit = 10
  ArgLimit = 2
  Capacity = 1
INVARIANTS
  EveryRequestIsAccountedFor
  OnlyUsersGrant
  AnswerIsWhatWasSaid
PROPERTIES
  CancelEndsTheCall
CHECK_DEADLOCK FALSE
