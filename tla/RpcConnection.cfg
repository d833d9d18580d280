SPECIFICATION Spec
CONSTANTS
  Connections = {a}
  InCapacity = 2
  OutCapacity = 1
  Used = {"session.resume", "session.create", "prompt.submit", "session.events.since", "approval.respond",
          "session.interrupt", "unknown"}
  MaxFrames = 3
  MaxFaults = 1
  MaxCloses = 1
INVARIANTS
  RepliesFollowRequests
  GateFollowsTheStream
PROPERTIES
  ConnectionEnds
CHECK_DEADLOCK FALSE
