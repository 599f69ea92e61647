--------------------------- MODULE MCMCPDiscovery ---------------------------
(***************************************************************************)
(* Instance of MCPDiscovery for TLC.                                       *)
(***************************************************************************)
EXTENDS MCPDiscovery, TLC

MCSymmetry == Permutations(Uris) \cup Permutations(Requests) \cup Permutations(Cursors)
=============================================================================
