------------------------------ MODULE MCServices ------------------------------
(***************************************************************************)
(* Instance of four parts of the system that share no state with one       *)
(* another, for TLC: one of them runs, the others stand still, so that     *)
(* their states add up instead of multiplying.                             *)
(***************************************************************************)
EXTENDS MCPDiscovery, ActionProposals, EntityIdentity, Workbench, TLC

VARIABLE part  \* the part that runs

discoveryVars == vars
DiscoveryInit == Init
DiscoveryNext == Next

MCVars == <<part, discoveryVars, actionsVars, identityVars, workbenchVars>>

MCInit ==
  /\ part \in {"discovery", "actions", "identity", "workbench"}
  /\ DiscoveryInit /\ ActionsInit /\ IdentityInit /\ WorkbenchInit
  /\ part # "actions" => \A u \in Users : role[u] = "none"

MCNext ==
  \/ /\ part = "discovery"
     /\ DiscoveryNext
     /\ UNCHANGED <<part, actionsVars, identityVars, workbenchVars>>
  \/ /\ part = "actions"
     /\ ActionsNext
     /\ UNCHANGED <<part, discoveryVars, identityVars, workbenchVars>>
  \/ /\ part = "identity"
     /\ IdentityNext
     /\ UNCHANGED <<part, discoveryVars, actionsVars, workbenchVars>>
  \/ /\ part = "workbench"
     /\ WorkbenchNext
     /\ UNCHANGED <<part, discoveryVars, actionsVars, identityVars>>

MCSpec == MCInit /\ [][MCNext]_MCVars

\* The parts share the values of their symmetric sets.
MCSymmetry ==
  Permutations(Uris) \cup Permutations(Requests) \cup Permutations(Cursors)
=============================================================================
