----------------------------- MODULE TurnContract -----------------------------
(***************************************************************************)
(* What a client of one session may rely on, whatever the actor, the       *)
(* worker tasks and the process do: turns run one at a time, each gets at  *)
(* most one outcome, and an announcement repeats the outcome on record.    *)
(* An outcome may go unannounced, because the process can end in between.  *)
(***************************************************************************)
CONSTANTS Turns

VARIABLES
  outcome,    \* what the session's record says of a turn
  announced   \* the terminal event subscribers saw, "-" before

contractVars == <<outcome, announced>>

Ends == {"completed", "interrupted", "failed"}

ContractInit ==
  /\ outcome = [t \in Turns |-> "none"]
  /\ announced = [t \in Turns |-> "-"]

Accept(t) ==
  /\ outcome[t] = "none" /\ \A u \in Turns : outcome[u] # "running"
  /\ outcome' = [outcome EXCEPT ![t] = "running"]
  /\ UNCHANGED announced

Settled(t, k) ==
  /\ outcome[t] = "running" /\ k \in Ends
  /\ outcome' = [outcome EXCEPT ![t] = k]

Tell(t, k) == announced[t] = "-" /\ announced' = [announced EXCEPT ![t] = k]

EndQuietly(t) == \E k \in Ends : Settled(t, k) /\ UNCHANGED announced
EndAloud(t)   == \E k \in Ends : Settled(t, k) /\ Tell(t, k)
Announce(t)   == outcome[t] \in Ends /\ Tell(t, outcome[t]) /\ UNCHANGED outcome

ContractNext == \E t \in Turns : Accept(t) \/ EndQuietly(t) \/ EndAloud(t) \/ Announce(t)

ContractSpec == ContractInit /\ [][ContractNext]_contractVars
===============================================================================
