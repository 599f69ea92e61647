----------------------------- MODULE MCMCPSync -----------------------------
(***************************************************************************)
(* Instance of MCPSync for TLC.                                            *)
(***************************************************************************)
EXTENDS MCPSync, TLC

\* Every run asks for every resource.
MCRequested == [r \in Runs |-> Uris]

\* A text, one that the intake refuses, and another.
MCTextAt == [u \in Uris |-> [v \in Versions |->
               IF v = 1 THEN "bad" ELSE IF v = 2 THEN "B" ELSE "A"]]
MCBad    == {"bad"}

MCSymmetry == Permutations(Executions)
=============================================================================
