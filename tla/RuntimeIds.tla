----------------------------- MODULE RuntimeIds -----------------------------
(* The identifiers the runtime's components share.  Turn and approval ids   *)
(* are UUIDs drawn fresh; call ids come from the model and may repeat.      *)
EXTENDS Naturals, Sequences, FiniteSets

CONSTANTS
  Sessions,     \* session ids
  Turns,        \* turn ids
  Calls,        \* provider tool-call ids
  Approvals,    \* approval ids
  Keys,         \* policy keys of the calls that need an approval
  NoSession, NoTurn, NoCall, NoApproval, NoKey

ASSUME IdAssumption ==
  /\ NoSession \notin Sessions
  /\ NoTurn \notin Turns
  /\ NoCall \notin Calls
  /\ NoApproval \notin Approvals
  /\ NoKey \notin Keys
=============================================================================
