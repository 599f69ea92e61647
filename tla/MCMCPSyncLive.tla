---------------------------- MODULE MCMCPSyncLive ----------------------------
(***************************************************************************)
(* Instance of MCPSyncLive for TLC.                                        *)
(***************************************************************************)
EXTENDS MCPSyncLive

MCRequested == [r \in Runs |-> Uris]
MCTextAB    == [u \in Uris |-> [v \in Versions |-> IF v = 1 THEN "B" ELSE "A"]]
=============================================================================
