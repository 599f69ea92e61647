---------------------------- MODULE EntityIdentity ----------------------------
(***************************************************************************)
(* How records of Odoo get their entity (map_record in                     *)
(* api/odoo_integrations.py, integrations/odoo), and how operators decide  *)
(* which entity a name means (resolve_entity and decide_resolution_case in *)
(* api/entity_resolution.py).                                              *)
(*                                                                         *)
(* A mapping is one transaction around a call to Odoo.  It looks for the   *)
(* source and for the reference of the record without locks, and creates   *)
(* what is missing inside savepoints: a unique index makes it wait for     *)
(* another mapping that creates the same, and undoes the savepoint if that *)
(* one commits.  Rows of an open transaction are in maps, rows of the      *)
(* database in source, reference and lifecycle.                            *)
(***************************************************************************)
EXTENDS Naturals, FiniteSets

CONSTANTS
  OdooRecords,  \* records of one Odoo instance
  Mappers,      \* mappings in progress together
  Ids,          \* entities that may be created
  Cases,        \* resolution cases
  Deciders,     \* decisions in progress together
  MaxDecisions, \* bound: audited decisions of one case
  NoId          \* no entity, no record, no case

ASSUME IdentityAssumption ==
  /\ NoId \notin Ids \cup OdooRecords \cup Cases
  /\ MaxDecisions \in Nat

VARIABLES
  source,     \* the Odoo instance has its row in sources
  reference,  \* external_references: the entity of each record
  lifecycle,  \* entities
  maps,         \* mappings in progress
  cases,      \* entity_resolution_cases
  decider,    \* decisions in progress: the case each has locked
  decisions   \* entity_resolution_audits: decisions of each case

identityVars ==
  <<source, reference, lifecycle, maps, cases, decider, decisions>>

---------------------------------------------------------------------------
State == {"active", "inactive"}

Mapping == [pc : {"idle", "fetched", "sourceless", "sourced", "new", "created",
                  "known", "written"},
            record : OdooRecords \cup {NoId}, state : State,
            source : BOOLEAN,           \* inserted the source
            entity : Ids \cup {NoId},   \* the entity it inserted or found
            seen : State \cup {"none"}, \* the lifecycle it found it with
            row : BOOLEAN,              \* wrote the row of the entity it found
            reference : BOOLEAN]        \* inserted the reference
NoMapping == [pc |-> "idle", record |-> NoId, state |-> "active", source |-> FALSE,
              entity |-> NoId, seen |-> "none", row |-> FALSE, reference |-> FALSE]

Case   == [status : {"none", "pending", "resolved", "dismissed"},
           candidates : SUBSET Ids, selected : Ids \cup {NoId}]
NoCase == [status |-> "none", candidates |-> {}, selected |-> NoId]

IdentityInit ==
  /\ source = FALSE
  /\ reference = [r \in OdooRecords |-> NoId]
  /\ lifecycle = [e \in Ids |-> "none"]
  /\ maps = [m \in Mappers |-> NoMapping]
  /\ cases = [c \in Cases |-> NoCase]
  /\ decider = [d \in Deciders |-> NoId]
  /\ decisions = [c \in Cases |-> 0]

---------------------------------------------------------------------------
(* Mappings *)

SetMapping(m, new) ==
  /\ maps' = [maps EXCEPT ![m] = new]
  /\ UNCHANGED <<source, reference, lifecycle, cases, decider, decisions>>

\* The record as Odoo has it now; an archived one is inactive.
FetchRecord(m, r, state) ==
  /\ maps[m].pc = "idle"
  /\ SetMapping(m, [NoMapping EXCEPT !.pc = "fetched", !.record = r, !.state = state])

FindSource(m) ==
  /\ maps[m].pc = "fetched"
  /\ SetMapping(m, [maps[m] EXCEPT !.pc = IF source THEN "sourced" ELSE "sourceless"])

\* Waits for another insert of the same row; if that was committed the
\* savepoint is undone and the row is found.
InsertSource(m) ==
  /\ maps[m].pc = "sourceless"
  /\ \A n \in Mappers \ {m} : ~maps[n].source
  /\ SetMapping(m, [maps[m] EXCEPT !.pc = "sourced", !.source = ~source])

\* The mapping with the entity of its record's reference.
Found(m) ==
  LET e == reference[maps[m].record]
  IN  [maps[m] EXCEPT !.pc = "known", !.entity = e, !.seen = lifecycle[e]]

FindReference(m) ==
  /\ maps[m].pc = "sourced"
  /\ SetMapping(m, IF reference[maps[m].record] = NoId
                   THEN [maps[m] EXCEPT !.pc = "new"] ELSE Found(m))

Unused(e) == lifecycle[e] = "none" /\ \A m \in Mappers : maps[m].entity # e

InsertEntity(m, e) ==
  /\ maps[m].pc = "new"
  /\ Unused(e)
  /\ SetMapping(m, [maps[m] EXCEPT !.pc = "created", !.entity = e])

\* require_active_entity_owner looks at the new entity before the index does.
\* When the index finds the reference of another, the savepoint is undone, the
\* new entity with it, and the other's is found.
InsertReference(m) ==
  /\ maps[m].pc = "created"
  /\ maps[m].state = "active"
  /\ \A n \in Mappers \ {m} : ~(maps[n].reference /\ maps[n].record = maps[m].record)
  /\ SetMapping(m,
       IF reference[maps[m].record] = NoId
       THEN [maps[m] EXCEPT !.pc = "written", !.reference = TRUE]
       ELSE Found(m))

\* Waits for the transaction that has written the row.  Only what differs from
\* what was read is written; of the columns the lifecycle is modelled.
UpdateMapped(m) ==
  /\ maps[m].pc = "known"
  /\ \A n \in Mappers \ {m} : ~(maps[n].row /\ maps[n].entity = maps[m].entity)
  /\ SetMapping(m, [maps[m] EXCEPT !.pc = "written", !.row = maps[m].state # maps[m].seen])

\* The client is closed, the succeeded audit is added, and all is committed.
CommitMapping(m) ==
  LET t == maps[m] IN
  /\ t.pc = "written"
  /\ source' = (source \/ t.source)
  /\ reference' = IF t.reference
       THEN [reference EXCEPT ![t.record] = t.entity] ELSE reference
  /\ lifecycle' = IF t.reference \/ t.row
       THEN [lifecycle EXCEPT ![t.entity] = t.state] ELSE lifecycle
  /\ maps' = [maps EXCEPT ![m] = NoMapping]
  /\ UNCHANGED <<cases, decider, decisions>>

\* Mutant of RolledBack: the failed audit is committed with what was flushed.
RolledBackNothing(m) ==
  IF maps[m].pc = "created" THEN [lifecycle EXCEPT ![maps[m].entity] = maps[m].state]
  ELSE lifecycle

RolledBack(m) == lifecycle

\* Odoo, the mapping of fields, a trigger or the closing of the client fails:
\* the session is rolled back, and a failed audit committed.
FailMapping(m) ==
  /\ maps[m].pc # "idle"
  /\ lifecycle' = RolledBack(m)
  /\ maps' = [maps EXCEPT ![m] = NoMapping]
  /\ UNCHANGED <<source, reference, cases, decider, decisions>>

---------------------------------------------------------------------------
(* Resolution cases *)

Active(e) == lifecycle[e] = "active"

\* A match by reference, or the only exact one, makes no case.
Resolve(c, candidates) ==
  /\ cases[c].status = "none"
  /\ \A e \in candidates : Active(e)
  /\ cases' = [cases EXCEPT ![c] =
       [status |-> "pending", candidates |-> candidates, selected |-> NoId]]
  /\ UNCHANGED <<source, reference, lifecycle, maps, decider, decisions>>

\* Mutant of CaseFree: the case is read without a lock.
CaseFreeAlways(c) == TRUE

CaseFree(c) == \A d \in Deciders : decider[d] # c

\* A case that is closed when the lock is granted is refused.
LockCase(d, c) ==
  /\ decider[d] = NoId
  /\ cases[c].status = "pending"
  /\ CaseFree(c)
  /\ decider' = [decider EXCEPT ![d] = c]
  /\ UNCHANGED <<source, reference, lifecycle, maps, cases, decisions>>

Decide(d, closed) ==
  LET c == decider[d] IN
  /\ decisions[c] < MaxDecisions
  /\ cases' = [cases EXCEPT ![c] = closed]
  /\ decisions' = [decisions EXCEPT ![c] = @ + 1]
  /\ decider' = [decider EXCEPT ![d] = NoId]
  /\ UNCHANGED <<source, reference, lifecycle, maps>>

\* The entity is one of the snapshot, still active, and locked.
MatchCase(d, e) ==
  /\ decider[d] # NoId
  /\ e \in cases[decider[d]].candidates
  /\ \A m \in Mappers : ~(maps[m].row /\ maps[m].entity = e)
  /\ Active(e)
  /\ Decide(d, [cases[decider[d]] EXCEPT !.status = "resolved", !.selected = e])

DismissCase(d) ==
  /\ decider[d] # NoId
  /\ Decide(d, [cases[decider[d]] EXCEPT !.status = "dismissed"])

\* The entity is no candidate or no longer eligible, or the request dies.
GiveUpCase(d) ==
  /\ decider[d] # NoId
  /\ decider' = [decider EXCEPT ![d] = NoId]
  /\ UNCHANGED <<source, reference, lifecycle, maps, cases, decisions>>

IdentityNext ==
  \/ \E m \in Mappers :
       \/ \E r \in OdooRecords, state \in State : FetchRecord(m, r, state)
       \/ FindSource(m)
       \/ InsertSource(m)
       \/ FindReference(m)
       \/ \E e \in Ids : InsertEntity(m, e)
       \/ InsertReference(m)
       \/ UpdateMapped(m)
       \/ CommitMapping(m)
       \/ FailMapping(m)
  \/ \E c \in Cases, candidates \in SUBSET Ids : Resolve(c, candidates)
  \/ \E d \in Deciders :
       \/ \E c \in Cases : LockCase(d, c)
       \/ \E e \in Ids : MatchCase(d, e)
       \/ DismissCase(d)
       \/ GiveUpCase(d)

IdentitySpec == IdentityInit /\ [][IdentityNext]_identityVars

---------------------------------------------------------------------------
(* Properties *)

\* Types.
IdentityTypeOK ==
  /\ source \in BOOLEAN
  /\ reference \in [OdooRecords -> Ids \cup {NoId}]
  /\ lifecycle \in [Ids -> State \cup {"none"}]
  /\ maps \in [Mappers -> Mapping]
  /\ cases \in [Cases -> Case]
  /\ decider \in [Deciders -> Cases \cup {NoId}]
  /\ decisions \in [Cases -> 0 .. MaxDecisions]

\* However first mappings of the same records overlap, fail or wait for one
\* another: every entity they leave behind belongs to exactly one record, and
\* every record to at most one entity (persist_odoo_mapping).
OneEntityPerRecord ==
  \A e \in Ids :
    lifecycle[e] # "none" =>
      Cardinality({r \in OdooRecords : reference[r] = e}) = 1

\* Operators decide a case together and once: one audited decision for a
\* closed case, none for an open one, and what was selected was a candidate.
CasesCloseOnce ==
  \A c \in Cases :
    /\ decisions[c] = IF cases[c].status \in {"resolved", "dismissed"} THEN 1 ELSE 0
    /\ cases[c].selected \in cases[c].candidates \cup {NoId}
=============================================================================
