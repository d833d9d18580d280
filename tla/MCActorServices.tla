--------------------------- MODULE MCActorServices ---------------------------
(***************************************************************************)
(* The two things a turn waits for, an approval and a call of the model:   *)
(* ApprovalManager and ProviderStream share no state and no step, so that  *)
(* interleaving them would show nothing that either does not do alone.     *)
(* `serving` says which one a behaviour runs.                              *)
(***************************************************************************)
EXTENDS ApprovalManager, MCProviderStream

VARIABLE serving

servicesVars == <<approvalVars, vars, serving>>

ServicesInit ==
  /\ serving \in {"approvals", "provider"} /\ ApprovalInit /\ Init
  /\ serving = "approvals" => body = Answer

ApprovalsServe == serving = "approvals" /\ ApprovalNext /\ UNCHANGED <<vars, serving>>
ProviderServes == serving = "provider" /\ Next /\ UNCHANGED <<approvalVars, serving>>

\* The fairness of ProviderStream, for the behaviours in which it runs.
ServicesFairness ==
  /\ WF_vars(serving = "provider" /\ Worker)
  /\ WF_vars(serving = "provider" /\ TakeEvent)

ServicesSpec == ServicesInit /\ [][ApprovalsServe \/ ProviderServes]_servicesVars /\ ServicesFairness
=============================================================================
