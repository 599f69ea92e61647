--------------------------- MODULE MCMCPScheduler ---------------------------
(***************************************************************************)
(* Instances of MCPScheduler for TLC.                                      *)
(***************************************************************************)
EXTENDS MCPScheduler, TLC

\* All schedules on one connection.
MCShared == [s \in Schedules |-> CHOOSE c \in Connections : TRUE]

MCSymmetry == Permutations(Dispatchers)
=============================================================================
