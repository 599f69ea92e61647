----------------------------- MODULE EntityMerge -----------------------------
(***************************************************************************)
(* Merging entities and splitting them again (entity_resolution/merge.py), *)
(* beside the requests that change what a merge moves: relationships       *)
(* (api/relationships.py), evidence of entities (api/evidence.py), patches *)
(* of entities (api/entities.py) and mappings of Odoo records              *)
(* (integrations/odoo/persistence.py).                                     *)
(*                                                                         *)
(* A merge or a split is a transaction that locks its two entities, then   *)
(* the rows it will move, checks them, and moves them, for which the       *)
(* trigger require_active_entity_owner locks the entities at the far ends  *)
(* of relationships.  It is modelled as two steps, the first of which ends *)
(* when it has the locks on entities and rows: what it holds while it      *)
(* waits for the next one only delays others.  A mapping is two steps too: *)
(* it reads an entity without a lock, and writes it.  All other requests   *)
(* write one row and are one step.  A request that must wait has its next  *)
(* step disabled; one that is refused at once has no step.                 *)
(***************************************************************************)
EXTENDS Naturals, FiniteSets

CONSTANTS
  Entities,   \* entities of one type, all of them created
  Records,    \* external references, events, memories, links of evidence
  Edges,      \* ids of relationships
  Kinds,      \* types of relationships
  Requests,   \* merges, splits and mappings in progress together
  Nothing     \* no entity, no type, no request

ASSUME MergeAssumption == Nothing \notin Entities \cup Kinds \cup Requests

VARIABLES
  status,   \* lifecycle_status of the entities
  mark,     \* "merged_into" in the metadata of the entities
  owner,    \* the entity each record belongs to
  edge,     \* relationships
  merges,   \* entity_merges that are active (a split one is never used again)
  tx,       \* requests in progress
  home      \* observed: the entities a row was created with

vars == <<status, mark, owner, edge, merges, tx, home>>

---------------------------------------------------------------------------
Maybe   == Entities \cup {Nothing}
Status  == {"active", "inactive", "merged"}
EdgeRow == [from : Entities, to : Entities, kind : Kinds]
NoEdge  == [from |-> Nothing, to |-> Nothing, kind |-> Nothing]

\* A journal: what a merge moves, what it deletes, the source's old metadata.
Journal == [source : Entities, target : Entities, records : SUBSET Records,
            froms : SUBSET Edges, tos : SUBSET Edges,
            deleted : SUBSET [id : Edges, row : EdgeRow], mark : Maybe]
NoJournal == [source |-> Nothing, target |-> Nothing, records |-> {},
              froms |-> {}, tos |-> {}, deleted |-> {}, mark |-> Nothing]

Request == [pc : {"idle", "merging", "splitting", "mapping"},
            journal : Journal \cup {NoJournal},   \* of the merge or split
            rows : SUBSET Edges,     \* relationships locked FOR UPDATE
            entity : Maybe,          \* of the mapping: the entity it read
            status : Status,         \* the status it writes ...
            sets : BOOLEAN,          \* ... because it differs from the one read
            cleans : BOOLEAN]        \* the attributes differ from the metadata

Idle == [pc |-> "idle", journal |-> NoJournal, rows |-> {}, entity |-> Nothing,
         status |-> "active", sets |-> FALSE, cleans |-> FALSE]

Exists(i)  == edge[i] # NoEdge
Ends(i)    == {edge[i].from, edge[i].to}
Set(x, m)  == tx' = [tx EXCEPT ![x] = m]

\* FOR UPDATE on an entity, which an UPDATE of it waits for too.
EntityFree(e, x) ==
  \A y \in Requests \ {x} : e \notin {tx[y].journal.source, tx[y].journal.target}

\* Mutant of RowFree: relationships are read without a lock.
RowFreeAlways(i, x) == TRUE

\* FOR UPDATE on a relationship, which one that only writes it waits for too.
RowFree(i, x) == \A y \in Requests \ {x} : i \notin tx[y].rows

\* Mutant of OwnerAccepted: the trigger reads the owner without a lock.
OwnerAcceptedUnlocked(e, x) == status[e] = "active"

\* require_active_entity_owner locks the owner of a new or moved row.
OwnerAccepted(e, x) == EntityFree(e, x) /\ status[e] = "active"

\* ck_relationship_no_self_loop and uq_relationship_typed_edge
GraphIntegrity(edges) ==
  \A i \in Edges : edges[i] # NoEdge =>
    /\ edges[i].from # edges[i].to
    /\ \A j \in Edges \ {i} : edges[i] # edges[j]

---------------------------------------------------------------------------
Init ==
  /\ status = [e \in Entities |-> "active"]
  /\ mark = [e \in Entities |-> Nothing]
  /\ owner = [r \in Records |-> Nothing]
  /\ edge = [i \in Edges |-> NoEdge]
  /\ merges = {}
  /\ tx = [x \in Requests |-> Idle]
  /\ home = [record |-> [r \in Records |-> Nothing], edge |-> [i \in Edges |-> NoEdge]]

\* Evidence of an entity, or the reference of one that a mapping creates.
Attach(r, e) ==
  /\ owner[r] = Nothing
  /\ OwnerAccepted(e, Nothing)
  /\ owner' = [owner EXCEPT ![r] = e]
  /\ home' = [home EXCEPT !.record[r] = e]
  /\ UNCHANGED <<status, mark, edge, merges, tx>>

Deleted(m) == {d.id : d \in m.deleted}

\* An id is a fresh uuid: no journal mentions it.
Fresh(i) ==
  /\ ~Exists(i)
  /\ \A m \in merges : i \notin m.froms \cup m.tos \cup Deleted(m)

\* create_relationship
CreateRelationship(i, row) ==
  /\ Fresh(i)
  /\ OwnerAccepted(row.from, Nothing) /\ OwnerAccepted(row.to, Nothing)
  /\ GraphIntegrity([edge EXCEPT ![i] = row])
  /\ edge' = [edge EXCEPT ![i] = row]
  /\ home' = [home EXCEPT !.edge[i] = row]
  /\ UNCHANGED <<status, mark, owner, merges, tx>>

\* update_relationship
UpdateRelationship(i, k) ==
  /\ Exists(i) /\ edge[i].kind # k
  /\ RowFree(i, Nothing)
  /\ GraphIntegrity([edge EXCEPT ![i].kind = k])
  /\ edge' = [edge EXCEPT ![i].kind = k]
  /\ UNCHANGED <<status, mark, owner, merges, tx, home>>

\* delete_relationship
DeleteRelationship(i) ==
  /\ Exists(i)
  /\ RowFree(i, Nothing)
  /\ edge' = [edge EXCEPT ![i] = NoEdge]
  /\ home' = [home EXCEPT !.edge[i] = NoEdge]
  /\ UNCHANGED <<status, mark, owner, merges, tx>>

\* update_entity replaces the metadata with the client's, and the mark with them;
\* of a tombstone too.
UpdateEntity(e, v) ==
  /\ mark[e] # v
  /\ EntityFree(e, Nothing)
  /\ mark' = [mark EXCEPT ![e] = v]
  /\ UNCHANGED <<status, owner, edge, merges, tx, home>>

---------------------------------------------------------------------------
\* persist_odoo_mapping: the entity of a reference is read, ...  Reference and
\* entity are two statements; that a merge makes the entity a tombstone between
\* them has the outcomes of one that does so after an inactive entity was read
\* and activated.
FindMapping(x, r, s, cleans) ==
  LET e == owner[r] IN
  /\ tx[x].pc = "idle"
  /\ e # Nothing
  /\ mark[e] # Nothing => cleans
  /\ s # status[e] \/ cleans
  /\ Set(x, [Idle EXCEPT !.pc = "mapping", !.entity = e,
                         !.status = IF s # status[e] THEN s ELSE @,
                         !.sets = s # status[e], !.cleans = cleans])
  /\ UNCHANGED <<status, mark, owner, edge, merges, home>>

\* ... and the columns that differ from what was read are written.
PersistMapping(x) ==
  LET m == tx[x] IN
  /\ m.pc = "mapping"
  /\ EntityFree(m.entity, x)
  /\ status' = IF m.sets THEN [status EXCEPT ![m.entity] = m.status] ELSE status
  /\ mark' = IF m.cleans THEN [mark EXCEPT ![m.entity] = Nothing] ELSE mark
  /\ Set(x, Idle)
  /\ UNCHANGED <<owner, edge, merges, home>>

---------------------------------------------------------------------------
Participating(e) == \E m \in merges : e \in {m.source, m.target}

Moved(e, s, t) == IF e = s THEN t ELSE e

\* A relationship as the merge of s into t leaves it, and those it deletes.
Rewired(row, s, t) ==
  [row EXCEPT !.from = Moved(@, s, t), !.to = Moved(@, s, t)]

Touching(e) == {i \in Edges : Exists(i) /\ e \in Ends(i)}
Loops(s, t) == Touching(s) \cap Touching(t)

\* The keys of the moved relationships among each other and among the target's.
Duplicates(rows, s, t) ==
  \E i \in (rows \cap Touching(s)) \ Loops(s, t), j \in rows :
    i # j /\ Rewired(edge[i], s, t) = Rewired(edge[j], s, t)

\* The snapshot of a merge of s into t, with the deleted relationships as loops.
Snapshot(s, t, loops) ==
  [source |-> s, target |-> t, records |-> {r \in Records : owner[r] = s},
   froms |-> {i \in Touching(s) \ Loops(s, t) : edge[i].from = s},
   tos |-> {i \in Touching(s) \ Loops(s, t) : edge[i].to = s},
   deleted |-> loops, mark |-> mark[s]]

\* Mutant of JournalOf: what is deleted is read after its deletion.
JournalOfLate(s, t) == Snapshot(s, t, {[id |-> i, row |-> NoEdge] : i \in Loops(s, t)})

JournalOf(s, t) == Snapshot(s, t, {[id |-> i, row |-> edge[i]] : i \in Loops(s, t)})

\* merge_entities, up to the last of its checks.
CheckMerge(x, s, t) ==
  LET rows == Touching(s) \cup Touching(t) IN
  /\ tx[x].pc = "idle"
  /\ s # t
  /\ \A e \in {s, t} : /\ EntityFree(e, x)
                       /\ status[e] = "active"
                       /\ ~Participating(e)
  /\ \A i \in rows : RowFree(i, x)
  /\ ~Duplicates(rows, s, t)
  /\ Set(x, [Idle EXCEPT !.pc = "merging", !.journal = JournalOf(s, t), !.rows = rows])
  /\ UNCHANGED <<status, mark, owner, edge, merges, home>>

\* The relationships as the merge m leaves them.
MergedEdges(m) ==
  [i \in Edges |->
     IF i \in Deleted(m) THEN NoEdge
     ELSE [edge[i] EXCEPT !.from = IF i \in m.froms THEN m.target ELSE @,
                          !.to = IF i \in m.tos THEN m.target ELSE @]]

\* Mutant of FarEndsAccepted: the trigger runs for new rows, not for moved ones.
FarEndsAcceptedUnseen(x) == TRUE

\* The trigger locks the ends of what is moved; the request holds two of them.
FarEndsAccepted(x) ==
  LET m == tx[x].journal IN
  \A i \in m.froms \cup m.tos : \A e \in Ends(i) \ {m.source, m.target} :
    OwnerAccepted(e, x)

\* enforce_single_active_entity_merge, when the journal is inserted.
SingleActive(m) == \A n \in merges : {m.source, m.target} \cap {n.source, n.target} = {}

CommitMerge(x) ==
  LET m == tx[x].journal IN
  /\ tx[x].pc = "merging"
  /\ SingleActive(m)
  /\ FarEndsAccepted(x)
  /\ GraphIntegrity(MergedEdges(m))
  /\ edge' = MergedEdges(m)
  /\ owner' = [r \in Records |-> IF r \in m.records THEN m.target ELSE owner[r]]
  /\ merges' = merges \cup {m}
  /\ status' = [status EXCEPT ![m.source] = "merged"]
  /\ mark' = [mark EXCEPT ![m.source] = m.target]
  /\ Set(x, Idle)
  /\ UNCHANGED home

---------------------------------------------------------------------------
\* Mutant of Undrifted: relationships moved at their end are compared at their start.
UndriftedAtStart(m) ==
  /\ \A r \in m.records : owner[r] = m.target
  /\ \A i \in m.froms \cup m.tos : edge[i].from = m.target

\* Every row the merge moved is still where the merge moved it.
Undrifted(m) ==
  /\ \A r \in m.records : owner[r] = m.target
  /\ \A i \in m.froms : edge[i].from = m.target
  /\ \A i \in m.tos : edge[i].to = m.target

\* split_merge, up to the last of its checks.
CheckSplit(x, m) ==
  /\ tx[x].pc = "idle"
  /\ \A e \in {m.source, m.target} : EntityFree(e, x)
  /\ status[m.source] = "merged"
  /\ mark[m.source] = m.target
  /\ status[m.target] = "active"
  /\ \A i \in m.froms \cup m.tos : RowFree(i, x)
  /\ Undrifted(m)
  /\ \A d \in m.deleted : ~Exists(d.id)
  /\ Set(x, [Idle EXCEPT !.pc = "splitting", !.journal = m, !.rows = m.froms \cup m.tos])
  /\ UNCHANGED <<status, mark, owner, edge, merges, home>>

\* The relationships as the split of m leaves them: those it moves keep what was
\* changed on them since.
RestoredEdges(m) ==
  [i \in Edges |->
     IF i \in Deleted(m) THEN (CHOOSE d \in m.deleted : d.id = i).row
     ELSE [edge[i] EXCEPT !.from = IF i \in m.froms THEN m.source ELSE @,
                          !.to = IF i \in m.tos THEN m.source ELSE @]]

CommitSplit(x) ==
  LET m == tx[x].journal IN
  /\ tx[x].pc = "splitting"
  /\ FarEndsAccepted(x)
  /\ GraphIntegrity(RestoredEdges(m))
  /\ edge' = RestoredEdges(m)
  /\ owner' = [r \in Records |-> IF r \in m.records THEN m.source ELSE owner[r]]
  /\ merges' = merges \ {m}
  /\ status' = [status EXCEPT ![m.source] = "active"]
  /\ mark' = [mark EXCEPT ![m.source] = m.mark]
  /\ Set(x, Idle)
  /\ UNCHANGED home

\* A trigger or a constraint refuses the request, a deadlock is resolved at its
\* expense, or it dies.
RollBack(x) ==
  /\ tx[x].pc # "idle"
  /\ Set(x, Idle)
  /\ UNCHANGED <<status, mark, owner, edge, merges, home>>

Work(x) ==
  \/ \E s, t \in Entities : CheckMerge(x, s, t)
  \/ CommitMerge(x)
  \/ \E m \in merges : CheckSplit(x, m)
  \/ CommitSplit(x)
  \/ \E r \in Records, s \in {"active", "inactive"}, c \in BOOLEAN : FindMapping(x, r, s, c)
  \/ PersistMapping(x)
  \/ RollBack(x)

Edit ==
  \/ \E r \in Records, e \in Entities : Attach(r, e)
  \/ \E i \in Edges, f, t \in Entities, k \in Kinds :
       CreateRelationship(i, [from |-> f, to |-> t, kind |-> k])
  \/ \E i \in Edges, k \in Kinds : UpdateRelationship(i, k)
  \/ \E i \in Edges : DeleteRelationship(i)
  \/ \E e \in Entities, v \in Maybe : UpdateEntity(e, v)

Next == (\E x \in Requests : Work(x)) \/ Edit

Spec == Init /\ [][Next]_vars

---------------------------------------------------------------------------
\* Type correctness.
TypeOK ==
  /\ status \in [Entities -> Status]
  /\ mark \in [Entities -> Maybe]
  /\ owner \in [Records -> Maybe]
  /\ edge \in [Edges -> EdgeRow \cup {NoEdge}]
  /\ merges \subseteq Journal
  /\ tx \in [Requests -> Request]
  /\ home.record \in [Records -> Maybe]
  /\ home.edge \in [Edges -> EdgeRow \cup {NoEdge}]

\* Where the rows created with an entity belong now.  A mapping that read an
\* entity before its merge can make a tombstone an entity again
\* (_update_entity writes lifecycle_status without a lock); rows created with
\* one that was so revived may stay with it.
Places(e) ==
  LET targets == {m.target : m \in {n \in merges : n.source = e}} IN
  IF targets # {} /\ status[e] = "merged" THEN targets ELSE targets \cup {e}

\* The entity a row belongs to is the one it was created with, or the survivor
\* of its merge while that is not split: however merges and splits of the
\* entities at both ends of a relationship are combined, a split gives back what
\* the merge took, and nothing else (merge_entities, split_merge).  Relationships
\* between the two merged entities are the ones that are gone.
OwnersFollowMerges ==
  /\ \A r \in Records : owner[r] # Nothing => owner[r] \in Places(home.record[r])
  /\ \A i \in Edges :
       LET born == home.edge[i] IN
       IF Exists(i)
         THEN edge[i].from \in Places(born.from) /\ edge[i].to \in Places(born.to)
         ELSE born # NoEdge =>
                \E m \in merges : {m.target} = Places(born.from) \cap Places(born.to)

\* A merge or split whose own checks have passed never runs into the constraints
\* on relationships, nor a merge into the trigger that keeps an entity from being
\* in two open merges: the answers for those cases in merge_entity_records and
\* split_entity_records are never given.
ChecksSuffice ==
  \A x \in Requests :
    /\ tx[x].pc = "merging" => /\ SingleActive(tx[x].journal)
                              /\ GraphIntegrity(MergedEdges(tx[x].journal))
    /\ tx[x].pc = "splitting" => GraphIntegrity(RestoredEdges(tx[x].journal))

\* A split of a tombstone finds drift only if somebody deleted a relationship
\* that the merge had moved: later merges and splits of other entities, and edits
\* of relationships, do not stand in its way (require_complete and the
\* comparisons of owners in split_merge).
SplitsStayPossible ==
  \A m \in merges :
    status[m.source] = "merged" /\ (\A i \in m.froms \cup m.tos : Exists(i)) =>
      Undrifted(m) /\ GraphIntegrity(RestoredEdges(m))

\* "The database requires every entity-owned row to reference an active entity"
\* (split_merge; docs/database-erd.md says the same).
OwnersAreActive ==
  /\ \A r \in Records : owner[r] # Nothing => status[owner[r]] = "active"
  /\ \A i \in Edges : Exists(i) => \A e \in Ends(i) : status[e] = "active"

---------------------------------------------------------------------------
(* The promise of MergeContract *)

\* What a journal has of the rows; the rest of it is of the source's metadata.
Taken(m) ==
  [source |-> m.source, target |-> m.target, records |-> m.records,
   froms |-> m.froms, tos |-> m.tos, deleted |-> m.deleted]

opened == {Taken(m) : m \in merges}

Contract == INSTANCE MergeContract WITH open <- opened

\* However requests interleave, a merge and a split are each one step of
\* MergeContract: what a merge read under its locks is what it finds when it
\* commits, its journal is all that it moved and no more, and a split gives back
\* exactly that, to entities that are active (merge_entities, split_merge and
\* the trigger require_active_entity_owner).
ImplementsMergeContract == Contract!MSpec
=============================================================================
