SPECIFICATION SupervisorFairSpec
CONSTANTS
  Sessions = {s1, s2}
  Actors = {a1, a2, a3}
  Callers = {c1, c2}
  NoSession = NoSession
  NoActor = NoActor
  NoCaller = NoCaller
  Capacity = 1
  CanRemove = TRUE
  MaxOps = 5
INVARIANTS
  ActorsAreAccountedFor
  LiveActorsAreReachable
PROPERTIES
  EveryCallReturns
CHECK_DEADLOCK FALSE
