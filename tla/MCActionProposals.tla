-------------------------- MODULE MCActionProposals --------------------------
(***************************************************************************)
(* Instance of ActionProposals for TLC.                                    *)
(***************************************************************************)
EXTENDS ActionProposals, TLC

MCSymmetry == Permutations(Users) \cup Permutations(Callers)
=============================================================================
