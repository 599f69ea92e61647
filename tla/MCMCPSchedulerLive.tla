------------------------- MODULE MCMCPSchedulerLive -------------------------
(***************************************************************************)
(* Instance of MCPSchedulerLive for TLC.                                   *)
(***************************************************************************)
EXTENDS MCPSchedulerLive

\* All schedules on one connection.
MCShared == [s \in Schedules |-> CHOOSE c \in Connections : TRUE]
=============================================================================
