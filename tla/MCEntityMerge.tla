---------------------------- MODULE MCEntityMerge ----------------------------
(***************************************************************************)
(* Instance of EntityMerge for TLC: either every entity and every          *)
(* relationship but no record, or records, with an entity, a               *)
(* relationship and a type of relationships fewer.  Marks that clients     *)
(* write are none, or the one a tombstone has from its open merge: a split *)
(* treats every other mark of a tombstone as none, and nothing reads the   *)
(* mark of another entity but the journal that gives it back.              *)
(***************************************************************************)
EXTENDS EntityMerge, TLC

VARIABLE spare  \* what is left out, when there are records

MCVars == <<vars, spare>>

MCInit == Init /\ spare \in (Entities \X Edges \X Kinds) \cup {<<>>}

InUse(e) ==
  \/ \E r \in Records : owner[r] = e
  \/ \E i \in Edges : e \in Ends(i)
  \/ \E x \in Requests : e \in {tx[x].journal.source, tx[x].journal.target}

MarksBounded ==
  \A e \in Entities : mark[e] = Nothing \/
    \E m \in merges : m.source = e /\ m.target = mark[e]

MCNext ==
  /\ Next
  /\ UNCHANGED spare
  /\ MarksBounded'
  /\ spare = <<>> => UNCHANGED owner
  /\ spare # <<>> =>
       /\ ~InUse(spare[1])'
       /\ \A i \in Edges : Exists(i)' => i # spare[2] /\ edge'[i].kind # spare[3]

MCSpec == MCInit /\ [][MCNext]_MCVars

MCSymmetry ==
  Permutations(Entities) \cup Permutations(Records) \cup Permutations(Edges)
    \cup Permutations(Kinds) \cup Permutations(Requests)
=============================================================================
