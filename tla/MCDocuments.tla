----------------------------- MODULE MCDocuments -----------------------------
(***************************************************************************)
(* Instance of Documents for TLC.                                          *)
(***************************************************************************)
EXTENDS Documents, TLC

CONSTANTS A, B   \* two titles

\* A text that links to both titles, its own among them, one that links to the
\* other title, and one that has no links.
MCTexts ==
  {[title |-> A, links |-> {A, B}], [title |-> B, links |-> {A}],
   [title |-> B, links |-> {}]}

MCSymmetry == Permutations(Paths) \cup Permutations(Requests)
=============================================================================
