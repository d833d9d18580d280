SPECIFICATION ActorSpec
CONSTANTS
  Sessions = {s1}
  Self = s1
  Turns = {t1, t2}
  ask1 = ask1
  ask2 = ask2
  safe = safe
  banned = banned
  Calls = {ask1, ask2, safe, banned}
  k1 = k1
  Keys = {k1}
  Approvals = {a1, a2}
  Schemas = {h1}
  NoKey = NoKey
  NoTurn = NoTurn
  NoSession = NoSession
  NoCall = NoCall
  NoApproval = NoApproval
  NoSchema = NoSchema
  NoPosition = NoPosition
  Batches <- One
  Risk <- MCRisk
  KeyOf <- MCKeyOf
  MaxRounds = 1
  Capacity = 2
  ReuseCallIds = TRUE
  ProviderConfigured = TRUE
  MaxFaults = 0
  MaxCrashes = 1
  MaxCommands = 3
  MaxDeltas = 0
SYMMETRY Symmetric
INVARIANTS
  RecoveryFreesTheSession
CHECK_DEADLOCK FALSE
