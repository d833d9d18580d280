SPECIFICATION ActorFairSpec
CONSTANTS
  Sessions = {s1}
  Self = s1
  Turns = {t1, t2}
  ask1 = ask1
  ask2 = ask2
  safe = safe
  banned = banned
  Calls = {ask1, ask2, safe, banned}
  k1 = k1
  Keys = {k1}
  Approvals = {a1, a2}
  Schemas = {h1}
  NoKey = NoKey
  NoTurn = NoTurn
  NoSession = NoSession
  NoCall = NoCall
  NoApproval = NoApproval
  NoSchema = NoSchema
  NoPosition = NoPosition
  Batches <- MCBatches
  Risk <- MCRisk
  KeyOf <- MCKeyOf
  MaxRounds = 2
  Capacity = 2
  ReuseCallIds = FALSE
  ProviderConfigured = TRUE
  MaxFaults = 1
  MaxCrashes = 0
  MaxCommands = 3
  MaxDeltas = 0
INVARIANTS
  NoTaskOutlivesItsTurn
  CompletedTurnIsAnswered
PROPERTIES
  ToolsRunAuthorised
  InterruptEndsTheTurn
  TurnAwaitsOnlyItsProvider
CHECK_DEADLOCK FALSE
