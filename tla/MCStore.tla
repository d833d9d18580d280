------------------------------ MODULE MCStore ------------------------------
(***************************************************************************)
(* TLC instance of the two halves of the store, TurnStore and              *)
(* SessionBranch: small id sets and bounds on the logs.  They are checked  *)
(* apart: a behaviour runs the transactions of one of them, and `half`     *)
(* says which.                                                             *)
(***************************************************************************)
EXTENDS TurnStore, SessionBranch, TLC, FiniteSetsExt, Functions

CONSTANTS
  MaxLogged,  \* messages of turns in all sessions together
  MaxNotes    \* events of append_event in all sessions together

VARIABLE half

\* Lists without repetition, which is what the dispatcher lets through.
MCBatches == UNION {{b \in [1 .. n -> Calls] : IsInjective(b)} : n \in 1 .. 2}

Symmetric == Permutations(Sessions) \union Permutations(Turns) \union Permutations(Calls)

IsNote(e) ==
  e.type \in {"tool.started", "approval.requested", "approval.resolved", "approval.timed_out"}

\* The tables only grow: a behaviour is followed until the bounds are reached.
BoundedLogs ==
  /\ MapThenSumSet(LAMBDA s : Len(messages[s]), Sessions) <= MaxLogged
  /\ MapThenSumSet(LAMBDA s : Len(SelectSeq(events[s], IsNote)), Sessions) <= MaxNotes

HalvesInit == half \in {"turns", "branch"} /\ StoreInit /\ BranchInit

Turning   == half = "turns" /\ StoreNext /\ UNCHANGED <<branchVars, half>>
Branching == half = "branch" /\ BranchNext /\ UNCHANGED <<storeVars, half>>

HalvesSpec == HalvesInit /\ [][Turning \/ Branching]_<<storeVars, branchVars, half>>
=============================================================================
