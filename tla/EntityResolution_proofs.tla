----------------------- MODULE EntityResolution_proofs -----------------------
(***************************************************************************)
(* Proofs about the resolution of entities.  EntityIdentity: every mapped  *)
(* entity belongs to one record, and every case is decided once, for every *)
(* number of records, mappings, entities, cases and operators.             *)
(* EntityMerge: rows follow the merges of their entities, the checks of    *)
(* merges and splits suffice, splits stay possible, and merges and splits  *)
(* implement MergeContract, for every number of entities, rows, merges and *)
(* requests.                                                               *)
(***************************************************************************)
EXTENDS EntityIdentity, EntityMerge, FiniteSetTheorems, TLAPS

LEMMA Distinct == NoId \notin Ids /\ NoId \notin OdooRecords /\ NoId \notin Cases
BY IdentityAssumption

---------------------------------------------------------------------------
(* Type correctness *)

\* What a mapping has by the time it is where it is.
MappingsKnown ==
  \A m \in Mappers :
    /\ maps[m].pc # "idle" => maps[m].record \in OdooRecords
    /\ maps[m].pc \in {"created", "known", "written"} => maps[m].entity \in Ids

TypeInv == IdentityTypeOK /\ MappingsKnown

\* A step that changes one mapping only.
LEMMA SetMappingType ==
  ASSUME TypeInv, NEW m \in Mappers, NEW new \in Mapping, SetMapping(m, new),
         new.pc # "idle" => new.record \in OdooRecords,
         new.pc \in {"created", "known", "written"} => new.entity \in Ids
  PROVE  TypeInv'
<1>1. maps' \in [Mappers -> Mapping]
  BY DEF TypeInv, IdentityTypeOK, SetMapping
<1>2. MappingsKnown'
  BY DEF TypeInv, IdentityTypeOK, SetMapping, MappingsKnown
<1> QED
  BY <1>1, <1>2 DEF TypeInv, IdentityTypeOK, SetMapping

LEMMA FoundType ==
  ASSUME TypeInv, NEW m \in Mappers, maps[m].pc # "idle", reference[maps[m].record] # NoId
  PROVE  /\ Found(m) \in Mapping /\ Found(m).pc = "known"
         /\ Found(m).record = maps[m].record /\ Found(m).record \in OdooRecords
         /\ Found(m).entity = reference[maps[m].record] /\ Found(m).entity \in Ids
         /\ Found(m).source = maps[m].source
         /\ Found(m).row = maps[m].row /\ Found(m).reference = maps[m].reference
<1>1. maps[m] \in Mapping /\ maps[m].record \in OdooRecords
  BY DEF TypeInv, IdentityTypeOK, MappingsKnown
<1>2. reference[maps[m].record] \in Ids
  BY <1>1 DEF TypeInv, IdentityTypeOK
<1>3. lifecycle[reference[maps[m].record]] \in State \cup {"none"}
  BY <1>2 DEF TypeInv, IdentityTypeOK
<1> QED
  BY <1>1, <1>2, <1>3 DEF Found, Mapping

LEMMA TypeStep ==
  ASSUME TypeInv, [IdentityNext]_identityVars
  PROVE  TypeInv'
<1>0. IdentityTypeOK /\ MappingsKnown
  BY DEF TypeInv
<1>t. \A m \in Mappers : maps[m] \in Mapping
  BY <1>0 DEF IdentityTypeOK
<1>1. ASSUME NEW m \in Mappers, NEW r \in OdooRecords, NEW state \in State,
             FetchRecord(m, r, state)
      PROVE  TypeInv'
  <2>1. /\ [NoMapping EXCEPT !.pc = "fetched", !.record = r, !.state = state] \in Mapping
        /\ [NoMapping EXCEPT !.pc = "fetched", !.record = r, !.state = state].record = r
        /\ [NoMapping EXCEPT !.pc = "fetched", !.record = r, !.state = state].pc = "fetched"
    BY DEF Mapping, NoMapping, State
  <2> QED
    BY <1>1, <2>1, SetMappingType DEF FetchRecord
<1>2. ASSUME NEW m \in Mappers, FindSource(m) PROVE TypeInv'
  <2> PICK new \in Mapping : /\ SetMapping(m, new) /\ new.record = maps[m].record
                             /\ new.pc \in {"sourced", "sourceless"}
    BY <1>t, <1>2 DEF FindSource, Mapping
  <2> QED
    BY <1>0, <1>2, SetMappingType DEF FindSource, MappingsKnown
<1>3. ASSUME NEW m \in Mappers, InsertSource(m) PROVE TypeInv'
  <2> DEFINE new == [maps[m] EXCEPT !.pc = "sourced", !.source = ~source]
  <2>1. new \in Mapping /\ new.record = maps[m].record /\ new.pc = "sourced"
    BY <1>t DEF Mapping
  <2> QED
    BY <1>0, <1>3, <2>1, SetMappingType DEF InsertSource, MappingsKnown
<1>4. ASSUME NEW m \in Mappers, FindReference(m) PROVE TypeInv'
  <2>1. CASE reference[maps[m].record] = NoId
    <3> DEFINE new == [maps[m] EXCEPT !.pc = "new"]
    <3>1. new \in Mapping /\ new.record = maps[m].record /\ new.pc = "new"
      BY <1>t DEF Mapping
    <3> QED
      BY <1>0, <1>4, <2>1, <3>1, SetMappingType DEF FindReference, MappingsKnown
  <2>2. CASE reference[maps[m].record] # NoId
    BY <1>4, <2>2, FoundType, SetMappingType DEF FindReference
  <2> QED
    BY <2>1, <2>2
<1>5. ASSUME NEW m \in Mappers, NEW e \in Ids, InsertEntity(m, e) PROVE TypeInv'
  <2> DEFINE new == [maps[m] EXCEPT !.pc = "created", !.entity = e]
  <2>1. new \in Mapping /\ new.record = maps[m].record /\ new.pc = "created" /\ new.entity = e
    BY <1>t DEF Mapping
  <2> QED
    BY <1>0, <1>5, <2>1, SetMappingType DEF InsertEntity, MappingsKnown
<1>6. ASSUME NEW m \in Mappers, InsertReference(m) PROVE TypeInv'
  <2>1. CASE reference[maps[m].record] = NoId
    <3> DEFINE new == [maps[m] EXCEPT !.pc = "written", !.reference = TRUE]
    <3>1. /\ new \in Mapping /\ new.record = maps[m].record /\ new.pc = "written"
          /\ new.entity = maps[m].entity
      BY <1>t DEF Mapping
    <3> QED
      BY <1>0, <1>6, <2>1, <3>1, SetMappingType DEF InsertReference, MappingsKnown
  <2>2. CASE reference[maps[m].record] # NoId
    BY <1>6, <2>2, FoundType, SetMappingType DEF InsertReference
  <2> QED
    BY <2>1, <2>2
<1>7. ASSUME NEW m \in Mappers, UpdateMapped(m) PROVE TypeInv'
  <2> DEFINE new == [maps[m] EXCEPT !.pc = "written", !.row = maps[m].state # maps[m].seen]
  <2>1. /\ new \in Mapping /\ new.record = maps[m].record /\ new.pc = "written"
        /\ new.entity = maps[m].entity
    BY <1>t DEF Mapping
  <2> QED
    BY <1>0, <1>7, <2>1, SetMappingType DEF UpdateMapped, MappingsKnown
<1>8. ASSUME NEW m \in Mappers, CommitMapping(m) PROVE TypeInv'
  <2>1. maps[m] \in Mapping /\ maps[m].entity \in Ids /\ maps[m].state \in State
    BY <1>0, <1>t, <1>8 DEF CommitMapping, MappingsKnown, Mapping
  <2>2. maps' \in [Mappers -> Mapping]
    BY <1>0, <1>8, <2>1, Distinct DEF CommitMapping, IdentityTypeOK, Mapping, NoMapping, State
  <2>3. MappingsKnown'
    BY <1>0, <1>8 DEF CommitMapping, MappingsKnown, IdentityTypeOK, NoMapping
  <2>4. reference' \in [OdooRecords -> Ids \cup {NoId}]
    BY <1>0, <1>8, <2>1 DEF CommitMapping, IdentityTypeOK
  <2>5. lifecycle' \in [Ids -> State \cup {"none"}]
    BY <1>0, <1>8, <2>1 DEF CommitMapping, IdentityTypeOK
  <2>6. source' \in BOOLEAN
    BY <1>8 DEF CommitMapping
  <2> QED
    BY <1>0, <1>8, <2>2, <2>3, <2>4, <2>5, <2>6 DEF CommitMapping, TypeInv, IdentityTypeOK
<1>9. ASSUME NEW m \in Mappers, FailMapping(m) PROVE TypeInv'
  <2>1. maps' \in [Mappers -> Mapping]
    BY <1>0, <1>9 DEF FailMapping, IdentityTypeOK, Mapping, NoMapping, State
  <2>2. MappingsKnown'
    BY <1>0, <1>9 DEF FailMapping, MappingsKnown, IdentityTypeOK, NoMapping
  <2> QED
    BY <1>0, <1>9, <2>1, <2>2 DEF FailMapping, RolledBack, TypeInv, IdentityTypeOK
<1>10. ASSUME NEW c \in Cases, NEW candidates \in SUBSET Ids, Resolve(c, candidates)
       PROVE  TypeInv'
  <2>1. cases' \in [Cases -> Case]
    BY <1>0, <1>10 DEF Resolve, IdentityTypeOK, Case
  <2> QED
    BY <1>0, <1>10, <2>1 DEF Resolve, TypeInv, IdentityTypeOK, MappingsKnown
<1>11. ASSUME NEW d \in Deciders, NEW c \in Cases, LockCase(d, c) PROVE TypeInv'
  <2>1. decider' \in [Deciders -> Cases \cup {NoId}]
    BY <1>0, <1>11 DEF LockCase, IdentityTypeOK
  <2> QED
    BY <1>0, <1>11, <2>1 DEF LockCase, TypeInv, IdentityTypeOK, MappingsKnown
<1>12. ASSUME NEW d \in Deciders, decider[d] # NoId, NEW closed \in Case, Decide(d, closed)
       PROVE  TypeInv'
  <2>1. decider[d] \in Cases
    BY <1>0, <1>12 DEF IdentityTypeOK
  <2>2. cases' \in [Cases -> Case] /\ decider' \in [Deciders -> Cases \cup {NoId}]
    BY <1>0, <1>12, <2>1 DEF Decide, IdentityTypeOK
  <2>3. decisions[decider[d]] + 1 \in 0 .. MaxDecisions
    BY <1>0, <1>12, <2>1, IdentityAssumption DEF Decide, IdentityTypeOK
  <2>4. decisions' \in [Cases -> 0 .. MaxDecisions]
    BY <1>0, <1>12, <2>3 DEF Decide, IdentityTypeOK
  <2> QED
    BY <1>0, <1>12, <2>2, <2>4 DEF Decide, TypeInv, IdentityTypeOK, MappingsKnown
<1>13. ASSUME NEW d \in Deciders, NEW e \in Ids, MatchCase(d, e) PROVE TypeInv'
  <2>1. cases[decider[d]] \in Case
    BY <1>0, <1>13 DEF MatchCase, IdentityTypeOK
  <2>2. [cases[decider[d]] EXCEPT !.status = "resolved", !.selected = e] \in Case
    BY <2>1 DEF Case
  <2> QED
    BY <1>12, <1>13, <2>2 DEF MatchCase
<1>14. ASSUME NEW d \in Deciders, DismissCase(d) PROVE TypeInv'
  <2>1. cases[decider[d]] \in Case
    BY <1>0, <1>14 DEF DismissCase, IdentityTypeOK
  <2>2. [cases[decider[d]] EXCEPT !.status = "dismissed"] \in Case
    BY <2>1 DEF Case
  <2> QED
    BY <1>12, <1>14, <2>2 DEF DismissCase
<1>15. ASSUME NEW d \in Deciders, GiveUpCase(d) PROVE TypeInv'
  <2>1. decider' \in [Deciders -> Cases \cup {NoId}]
    BY <1>0, <1>15 DEF GiveUpCase, IdentityTypeOK
  <2> QED
    BY <1>0, <1>15, <2>1 DEF GiveUpCase, TypeInv, IdentityTypeOK, MappingsKnown
<1>16. CASE UNCHANGED identityVars
  BY <1>0, <1>16 DEF identityVars, TypeInv, IdentityTypeOK, MappingsKnown
<1> QED
  BY <1>1, <1>2, <1>3, <1>4, <1>5, <1>6, <1>7, <1>8, <1>9, <1>10, <1>11, <1>13, <1>14, <1>15,
     <1>16 DEF IdentityNext

LEMMA TypeInit == IdentityInit => TypeInv
<1> SUFFICES ASSUME IdentityInit PROVE TypeInv
  OBVIOUS
<1>1. NoMapping \in Mapping /\ NoMapping.pc = "idle"
  BY DEF Mapping, NoMapping, State
<1>2. NoCase \in Case
  BY DEF Case, NoCase
<1>3. maps \in [Mappers -> Mapping] /\ MappingsKnown
  BY <1>1 DEF IdentityInit, MappingsKnown
<1>4. /\ reference \in [OdooRecords -> Ids \cup {NoId}]
      /\ lifecycle \in [Ids -> State \cup {"none"}]
      /\ cases \in [Cases -> Case]
      /\ decider \in [Deciders -> Cases \cup {NoId}]
  BY <1>2 DEF IdentityInit
<1>5. source \in BOOLEAN
  BY DEF IdentityInit
<1>6. decisions \in [Cases -> 0 .. MaxDecisions]
  BY IdentityAssumption DEF IdentityInit
<1> QED
  BY <1>3, <1>4, <1>5, <1>6 DEF TypeInv, IdentityTypeOK

\* Types of mappings, references, entities and cases.
THEOREM IdentityTyped == IdentitySpec => []IdentityTypeOK
<1>1. TypeInv /\ [IdentityNext]_identityVars => TypeInv'
  BY TypeStep
<1>2. TypeInv => IdentityTypeOK
  BY DEF TypeInv
<1> QED
  BY <1>1, <1>2, TypeInit, PTL DEF IdentitySpec

---------------------------------------------------------------------------
(* Entities of records *)

\* The entity is one this mapping inserted.
Inserted(m) == maps[m].pc = "created" \/ maps[m].reference

\* Only a mapping that is done has inserted a reference or written a row.
MappingsInOrder ==
  \A m \in Mappers : maps[m].reference \/ maps[m].row => maps[m].pc = "written"

\* An inserted entity is nobody else's; its reference is the record's first.
InsertsAreNew ==
  \A m \in Mappers :
    /\ Inserted(m) =>
         /\ maps[m].entity \in Ids /\ lifecycle[maps[m].entity] = "none"
         /\ \A n \in Mappers \ {m} : Inserted(n) => maps[n].entity # maps[m].entity
    /\ maps[m].reference =>
         /\ maps[m].pc = "written"
         /\ reference[maps[m].record] = NoId
         /\ \A n \in Mappers \ {m} : maps[n].reference => maps[n].record # maps[m].record

\* A mapping that writes the row of an entity, or is about to, found one.
UpdatesAreOfFound ==
  \A m \in Mappers :
    /\ maps[m].pc = "known" => lifecycle[maps[m].entity] # "none"
    /\ maps[m].row => lifecycle[maps[m].entity] # "none" /\ maps[m].entity \in Ids

\* References are of entities that exist, one for each of them.
ReferencesAreOfEntities ==
  /\ \A r \in OdooRecords : reference[r] # NoId => lifecycle[reference[r]] # "none"
  /\ \A e \in Ids : lifecycle[e] # "none" =>
       \E r \in OdooRecords : \A s \in OdooRecords : reference[s] = e <=> s = r

IdentityInv ==
  TypeInv /\ MappingsInOrder /\ InsertsAreNew /\ UpdatesAreOfFound /\ ReferencesAreOfEntities

LEMMA OrderStep ==
  ASSUME TypeInv, MappingsInOrder, [IdentityNext]_identityVars
  PROVE  MappingsInOrder'
<1>t. maps \in [Mappers -> Mapping]
  BY DEF TypeInv, IdentityTypeOK
<1>1. ASSUME NEW m \in Mappers, NEW new \in Mapping, SetMapping(m, new),
             new.reference \/ new.row => new.pc = "written"
      PROVE  MappingsInOrder'
  BY <1>t, <1>1 DEF SetMapping, MappingsInOrder
<1>2. ASSUME NEW m \in Mappers, NEW r \in OdooRecords, NEW state \in State,
             FetchRecord(m, r, state)
      PROVE  MappingsInOrder'
  BY <1>t, <1>2 DEF FetchRecord, SetMapping, MappingsInOrder, NoMapping
<1>3. ASSUME NEW m \in Mappers,
             FindSource(m) \/ InsertSource(m) \/ (\E e \in Ids : InsertEntity(m, e))
      PROVE  MappingsInOrder'
  <2>1. ~maps[m].reference /\ ~maps[m].row /\ maps[m] \in Mapping
    BY <1>t, <1>3 DEF FindSource, InsertSource, InsertEntity, MappingsInOrder
  <2>2. maps'[m].reference = maps[m].reference /\ maps'[m].row = maps[m].row
    <3>1. CASE FindSource(m)
      BY <1>t, <2>1, <3>1 DEF FindSource, SetMapping, Mapping
    <3>2. CASE InsertSource(m)
      BY <1>t, <2>1, <3>2 DEF InsertSource, SetMapping, Mapping
    <3>3. CASE \E e \in Ids : InsertEntity(m, e)
      BY <1>t, <2>1, <3>3 DEF InsertEntity, SetMapping, Mapping
    <3> QED
      BY <1>3, <3>1, <3>2, <3>3
  <2>3. \A n \in Mappers \ {m} : maps'[n] = maps[n]
    BY <1>t, <1>3 DEF FindSource, InsertSource, InsertEntity, SetMapping
  <2> QED
    BY <2>1, <2>2, <2>3 DEF MappingsInOrder
<1>4. ASSUME NEW m \in Mappers, FindReference(m) \/ InsertReference(m)
      PROVE  MappingsInOrder'
  <2>1. ~maps[m].reference /\ ~maps[m].row /\ maps[m] \in Mapping /\ maps[m].pc # "idle"
    BY <1>t, <1>4 DEF FindReference, InsertReference, MappingsInOrder
  <2>2. reference[maps[m].record] # NoId => ~Found(m).reference /\ ~Found(m).row /\ Found(m) \in Mapping
    BY <2>1, FoundType
  <2>3. CASE maps' = [maps EXCEPT ![m] = Found(m)] /\ reference[maps[m].record] # NoId
    BY <1>t, <2>2, <2>3 DEF MappingsInOrder
  <2>4. CASE maps' = [maps EXCEPT ![m] = [maps[m] EXCEPT !.pc = "new"]]
    BY <1>t, <2>1, <2>4 DEF MappingsInOrder, Mapping
  <2>5. CASE maps' = [maps EXCEPT ![m] = [maps[m] EXCEPT !.pc = "written", !.reference = TRUE]]
    BY <1>t, <2>1, <2>5 DEF MappingsInOrder, Mapping
  <2> QED
    BY <1>4, <2>3, <2>4, <2>5 DEF FindReference, InsertReference, SetMapping
<1>5. ASSUME NEW m \in Mappers, UpdateMapped(m)
      PROVE  MappingsInOrder'
  BY <1>t, <1>5 DEF UpdateMapped, SetMapping, MappingsInOrder, Mapping
<1>6. ASSUME NEW m \in Mappers, CommitMapping(m) \/ FailMapping(m)
      PROVE  MappingsInOrder'
  BY <1>t, <1>6 DEF CommitMapping, FailMapping, MappingsInOrder, NoMapping
<1>7. ASSUME UNCHANGED maps PROVE MappingsInOrder'
  BY <1>7 DEF MappingsInOrder
<1> QED
  BY <1>2, <1>3, <1>4, <1>5, <1>6, <1>7
  DEF IdentityNext, identityVars, Resolve, LockCase, MatchCase, DismissCase, Decide, GiveUpCase

\* A mapping that holds nothing yet, or nothing any more.
LEMMA MappingAlone ==
  ASSUME IdentityInv, TypeInv', MappingsInOrder', UNCHANGED <<reference, lifecycle>>,
         NEW m \in Mappers, \A n \in Mappers \ {m} : maps'[n] = maps[n],
         ~Inserted(m)', maps'[m].pc # "known", ~maps'[m].row
  PROVE  IdentityInv'
<1>1. InsertsAreNew'
  BY DEF IdentityInv, InsertsAreNew, Inserted
<1>2. UpdatesAreOfFound'
  BY DEF IdentityInv, UpdatesAreOfFound
<1>3. ReferencesAreOfEntities'
  BY DEF IdentityInv, ReferencesAreOfEntities
<1> QED
  BY <1>1, <1>2, <1>3 DEF IdentityInv

\* A mapping that finds the reference, once the other's insert is committed.
LEMMA MappingFinds ==
  ASSUME IdentityInv, TypeInv', MappingsInOrder', NEW m \in Mappers,
         maps[m].pc \in {"sourced", "created"}, reference[maps[m].record] # NoId,
         SetMapping(m, Found(m))
  PROVE  IdentityInv'
<1>1. /\ maps'[m] = Found(m) /\ (\A n \in Mappers \ {m} : maps'[n] = maps[n])
      /\ UNCHANGED <<reference, lifecycle>>
  BY DEF SetMapping, IdentityInv, TypeInv, IdentityTypeOK
<1>2. ~maps[m].reference /\ ~maps[m].row /\ maps[m].record \in OdooRecords
  BY DEF IdentityInv, MappingsInOrder, TypeInv, MappingsKnown
<1>3. /\ ~Found(m).reference /\ ~Found(m).row /\ Found(m).pc = "known"
      /\ Found(m).entity = reference[maps[m].record]
  BY <1>2, FoundType DEF IdentityInv
<1>4. lifecycle[reference[maps[m].record]] # "none"
  BY <1>2 DEF IdentityInv, ReferencesAreOfEntities
<1>5. InsertsAreNew'
  BY <1>1, <1>3 DEF IdentityInv, InsertsAreNew, Inserted
<1>6. UpdatesAreOfFound'
  BY <1>1, <1>3, <1>4 DEF IdentityInv, UpdatesAreOfFound
<1>7. ReferencesAreOfEntities'
  BY <1>1 DEF IdentityInv, ReferencesAreOfEntities
<1> QED
  BY <1>5, <1>6, <1>7 DEF IdentityInv

\* A step that leaves mappings, references and entities alone.
LEMMA IdentityStands ==
  ASSUME IdentityInv, TypeInv', UNCHANGED <<maps, reference, lifecycle>>
  PROVE  IdentityInv'
BY DEF IdentityInv, MappingsInOrder, InsertsAreNew, Inserted, UpdatesAreOfFound,
   ReferencesAreOfEntities

LEMMA IdentityStep ==
  ASSUME IdentityInv, [IdentityNext]_identityVars
  PROVE  IdentityInv'
<1>0. TypeInv /\ TypeInv' /\ MappingsInOrder /\ MappingsInOrder'
  BY TypeStep, OrderStep DEF IdentityInv
<1>t. maps \in [Mappers -> Mapping] /\ \A m \in Mappers : maps[m] \in Mapping
  BY <1>0 DEF TypeInv, IdentityTypeOK
<1>1. ASSUME NEW m \in Mappers, NEW r \in OdooRecords, NEW state \in State,
             FetchRecord(m, r, state)
      PROVE  IdentityInv'
  <2>1. /\ UNCHANGED <<reference, lifecycle>> /\ \A n \in Mappers \ {m} : maps'[n] = maps[n]
        /\ maps'[m] = [NoMapping EXCEPT !.pc = "fetched", !.record = r, !.state = state]
    BY <1>t, <1>1 DEF FetchRecord, SetMapping
  <2>2. ~maps'[m].reference /\ ~maps'[m].row /\ maps'[m].pc = "fetched"
    BY <2>1 DEF NoMapping
  <2> QED
    BY <1>0, <2>1, <2>2, MappingAlone DEF Inserted
<1>2. ASSUME NEW m \in Mappers, FindSource(m) \/ InsertSource(m) PROVE IdentityInv'
  <2>1. maps[m].pc \in {"fetched", "sourceless"}
    BY <1>2 DEF FindSource, InsertSource
  <2>2. maps' \in {[maps EXCEPT ![m] = [maps[m] EXCEPT !.pc = "sourced"]],
                 [maps EXCEPT ![m] = [maps[m] EXCEPT !.pc = "sourceless"]],
                 [maps EXCEPT ![m] = [maps[m] EXCEPT !.pc = "sourced", !.source = ~source]]}
        /\ UNCHANGED <<reference, lifecycle>>
    BY <1>2 DEF FindSource, InsertSource, SetMapping
  <2>3. ~maps[m].reference /\ ~maps[m].row
    BY <1>0, <2>1 DEF MappingsInOrder
  <2>4. \A n \in Mappers \ {m} : maps'[n] = maps[n]
    BY <1>t, <2>2
  <2>5. maps'[m] \in {[maps[m] EXCEPT !.pc = "sourced"], [maps[m] EXCEPT !.pc = "sourceless"],
                    [maps[m] EXCEPT !.pc = "sourced", !.source = ~source]}
    BY <1>t, <2>2
  <2>6. ~maps'[m].reference /\ ~maps'[m].row /\ maps'[m].pc \in {"sourced", "sourceless"}
    BY <1>t, <2>3, <2>5 DEF Mapping
  <2> QED
    BY <1>0, <2>2, <2>4, <2>6, MappingAlone DEF Inserted
<1>3. ASSUME NEW m \in Mappers, FindReference(m) PROVE IdentityInv'
  <2>1. CASE reference[maps[m].record] = NoId
    <3>1. /\ maps' = [maps EXCEPT ![m] = [maps[m] EXCEPT !.pc = "new"]]
          /\ UNCHANGED <<reference, lifecycle>> /\ maps[m].pc = "sourced"
      BY <1>3, <2>1 DEF FindReference, SetMapping
    <3>2. ~maps[m].reference /\ ~maps[m].row
      BY <1>0, <3>1 DEF MappingsInOrder
    <3>3. ~maps'[m].reference /\ ~maps'[m].row /\ maps'[m].pc = "new"
      BY <1>t, <3>1, <3>2 DEF Mapping
    <3>4. \A n \in Mappers \ {m} : maps'[n] = maps[n]
      BY <1>t, <3>1
    <3> QED
      BY <1>0, <3>1, <3>3, <3>4, MappingAlone DEF Inserted
  <2>2. CASE reference[maps[m].record] # NoId
    BY <1>0, <1>3, <2>2, MappingFinds DEF FindReference
  <2> QED
    BY <2>1, <2>2
<1>4. ASSUME NEW m \in Mappers, NEW e \in Ids, InsertEntity(m, e) PROVE IdentityInv'
  <2>1. /\ maps' = [maps EXCEPT ![m] = [maps[m] EXCEPT !.pc = "created", !.entity = e]]
        /\ UNCHANGED <<reference, lifecycle>> /\ maps[m].pc = "new"
        /\ lifecycle[e] = "none" /\ \A n \in Mappers : maps[n].entity # e
    BY <1>4 DEF InsertEntity, SetMapping, Unused
  <2>2. ~maps[m].reference /\ ~maps[m].row
    BY <1>0, <2>1 DEF MappingsInOrder
  <2>3. /\ ~maps'[m].reference /\ ~maps'[m].row /\ maps'[m].pc = "created" /\ maps'[m].entity = e
        /\ \A n \in Mappers \ {m} : maps'[n] = maps[n]
    BY <1>t, <2>1, <2>2 DEF Mapping
  <2>4. InsertsAreNew'
    BY <2>1, <2>3 DEF IdentityInv, InsertsAreNew, Inserted
  <2>5. UpdatesAreOfFound'
    BY <2>1, <2>3 DEF IdentityInv, UpdatesAreOfFound
  <2>6. ReferencesAreOfEntities'
    BY <2>1 DEF IdentityInv, ReferencesAreOfEntities
  <2> QED
    BY <1>0, <2>4, <2>5, <2>6 DEF IdentityInv
<1>5. ASSUME NEW m \in Mappers, InsertReference(m) PROVE IdentityInv'
  <2>1. CASE reference[maps[m].record] = NoId
    <3>1. /\ maps' = [maps EXCEPT ![m] = [maps[m] EXCEPT !.pc = "written", !.reference = TRUE]]
          /\ UNCHANGED <<reference, lifecycle>> /\ maps[m].pc = "created"
          /\ \A n \in Mappers \ {m} : ~(maps[n].reference /\ maps[n].record = maps[m].record)
      BY <1>5, <2>1 DEF InsertReference, SetMapping
    <3>2. ~maps[m].reference /\ ~maps[m].row
      BY <1>0, <3>1 DEF MappingsInOrder
    <3>3. /\ maps'[m].reference /\ ~maps'[m].row /\ maps'[m].pc = "written"
          /\ maps'[m].entity = maps[m].entity /\ maps'[m].record = maps[m].record
      BY <1>t, <3>1, <3>2 DEF Mapping
    <3>4. \A n \in Mappers \ {m} : maps'[n] = maps[n]
      BY <1>t, <3>1
    <3>5. /\ maps[m].entity \in Ids /\ lifecycle[maps[m].entity] = "none"
          /\ \A n \in Mappers \ {m} : Inserted(n) => maps[n].entity # maps[m].entity
      BY <3>1 DEF IdentityInv, InsertsAreNew, Inserted
    <3>6. InsertsAreNew'
      BY <2>1, <3>1, <3>3, <3>4, <3>5 DEF IdentityInv, InsertsAreNew, Inserted
    <3>7. UpdatesAreOfFound'
      BY <3>1, <3>3, <3>4 DEF IdentityInv, UpdatesAreOfFound
    <3>8. ReferencesAreOfEntities'
      BY <3>1 DEF IdentityInv, ReferencesAreOfEntities
    <3> QED
      BY <1>0, <3>6, <3>7, <3>8 DEF IdentityInv
  <2>2. CASE reference[maps[m].record] # NoId
    BY <1>0, <1>5, <2>2, MappingFinds DEF InsertReference
  <2> QED
    BY <2>1, <2>2
<1>6. ASSUME NEW m \in Mappers, UpdateMapped(m) PROVE IdentityInv'
  <2>1. /\ maps' = [maps EXCEPT ![m] = [maps[m] EXCEPT !.pc = "written", !.row = maps[m].state # maps[m].seen]]
        /\ UNCHANGED <<reference, lifecycle>> /\ maps[m].pc = "known"
    BY <1>6 DEF UpdateMapped, SetMapping
  <2>2. /\ ~maps[m].reference /\ maps[m].entity \in Ids /\ lifecycle[maps[m].entity] # "none"
    BY <1>0, <2>1 DEF MappingsInOrder, TypeInv, MappingsKnown, IdentityInv, UpdatesAreOfFound
  <2>3. /\ ~maps'[m].reference /\ maps'[m].pc = "written" /\ maps'[m].entity = maps[m].entity
        /\ \A n \in Mappers \ {m} : maps'[n] = maps[n]
    BY <1>t, <2>1, <2>2 DEF Mapping
  <2>4. InsertsAreNew'
    BY <2>1, <2>3 DEF IdentityInv, InsertsAreNew, Inserted
  <2>5. UpdatesAreOfFound'
    BY <2>1, <2>2, <2>3 DEF IdentityInv, UpdatesAreOfFound
  <2>6. ReferencesAreOfEntities'
    BY <2>1 DEF IdentityInv, ReferencesAreOfEntities
  <2> QED
    BY <1>0, <2>4, <2>5, <2>6 DEF IdentityInv
<1>7. ASSUME NEW m \in Mappers, CommitMapping(m) PROVE IdentityInv'
  <2> PICK e \in Ids, r \in OdooRecords, state \in State :
        e = maps[m].entity /\ r = maps[m].record /\ state = maps[m].state
    BY <1>0, <1>t, <1>7 DEF CommitMapping, TypeInv, MappingsKnown, Mapping
  <2>1. /\ maps'[m] = NoMapping /\ \A n \in Mappers \ {m} : maps'[n] = maps[n]
    BY <1>t, <1>7 DEF CommitMapping
  <2>2. /\ ~maps'[m].reference /\ ~maps'[m].row /\ maps'[m].pc = "idle"
    BY <2>1 DEF NoMapping
  <2>3. CASE maps[m].reference
    <3>1. /\ reference' = [reference EXCEPT ![r] = e]
          /\ lifecycle' = [lifecycle EXCEPT ![e] = state]
      BY <1>7, <2>3 DEF CommitMapping
    <3>2. /\ reference'[r] = e /\ (\A s \in OdooRecords \ {r} : reference'[s] = reference[s])
          /\ lifecycle'[e] = state /\ (\A i \in Ids \ {e} : lifecycle'[i] = lifecycle[i])
          /\ state # "none"
      BY <1>0, <3>1 DEF TypeInv, IdentityTypeOK, State
    <3>3. /\ lifecycle[e] = "none" /\ reference[r] = NoId
          /\ \A n \in Mappers \ {m} : Inserted(n) => maps[n].entity # e
          /\ \A n \in Mappers \ {m} : maps[n].reference => maps[n].record # r
      BY <2>3 DEF IdentityInv, InsertsAreNew, Inserted
    <3>4. \A n \in Mappers : maps[n].pc # "idle" => maps[n].record \in OdooRecords
      BY <1>0 DEF TypeInv, MappingsKnown
    <3>5. InsertsAreNew'
      <4>1. ASSUME NEW n \in Mappers \ {m}, Inserted(n)
            PROVE  /\ maps[n].entity \in Ids \ {e} /\ lifecycle'[maps[n].entity] = "none"
        BY <3>2, <3>3, <4>1 DEF IdentityInv, InsertsAreNew
      <4>2. ASSUME NEW n \in Mappers \ {m}, maps[n].reference
            PROVE  maps[n].pc = "written" /\ reference'[maps[n].record] = NoId
        BY <3>2, <3>3, <3>4, <4>2 DEF IdentityInv, InsertsAreNew
      <4> QED
        BY <2>1, <2>2, <4>1, <4>2 DEF IdentityInv, InsertsAreNew, Inserted
    <3>6. \A i \in Ids : lifecycle[i] # "none" => lifecycle'[i] # "none"
      BY <3>2
    <3>7. UpdatesAreOfFound'
      <4>1. \A n \in Mappers : maps[n].pc = "known" => maps[n].entity \in Ids
        BY <1>0 DEF TypeInv, MappingsKnown
      <4> QED
        BY <2>1, <2>2, <3>6, <4>1 DEF IdentityInv, UpdatesAreOfFound
    <3>8. \A s \in OdooRecords : reference[s] # NoId => reference[s] \in Ids
      BY <1>0 DEF TypeInv, IdentityTypeOK
    <3>9. \A s \in OdooRecords : reference[s] # e
      BY <3>3, <3>8, Distinct DEF IdentityInv, ReferencesAreOfEntities
    <3>10. \A s \in OdooRecords : reference'[s] # NoId => lifecycle'[reference'[s]] # "none"
      BY <3>2, <3>6, <3>8 DEF IdentityInv, ReferencesAreOfEntities
    <3>11. ASSUME NEW i \in Ids, lifecycle'[i] # "none"
           PROVE  \E q \in OdooRecords : \A s \in OdooRecords : reference'[s] = i <=> s = q
      <4>1. CASE i = e
        BY <3>2, <3>9, <4>1
      <4>2. CASE i # e
        <5> PICK q \in OdooRecords : \A s \in OdooRecords : reference[s] = i <=> s = q
          BY <3>2, <3>11, <4>2 DEF IdentityInv, ReferencesAreOfEntities
        <5>1. q # r
          BY <3>3, Distinct
        <5> QED
          BY <3>2, <4>2, <5>1
      <4> QED
        BY <4>1, <4>2
    <3> QED
      BY <1>0, <3>5, <3>7, <3>10, <3>11 DEF IdentityInv, ReferencesAreOfEntities
  <2>4. CASE ~maps[m].reference
    <3>1. UNCHANGED reference
      BY <1>7, <2>4 DEF CommitMapping
    <3>2. \A i \in Ids : lifecycle[i] # "none" <=> lifecycle'[i] # "none"
      <4>1. CASE maps[m].row
        <5>1. lifecycle' = [lifecycle EXCEPT ![e] = state] /\ lifecycle[e] # "none"
          BY <1>7, <4>1 DEF CommitMapping, IdentityInv, UpdatesAreOfFound
        <5> QED
          BY <1>0, <5>1 DEF TypeInv, IdentityTypeOK, State
      <4>2. CASE ~maps[m].row
        BY <1>7, <2>4, <4>2 DEF CommitMapping
      <4> QED
        BY <4>1, <4>2
    <3>3. \A s \in OdooRecords : reference[s] # NoId => reference[s] \in Ids
      BY <1>0 DEF TypeInv, IdentityTypeOK
    <3>4. InsertsAreNew'
      BY <2>1, <2>2, <3>1, <3>2 DEF IdentityInv, InsertsAreNew, Inserted
    <3>5. UpdatesAreOfFound'
      <4>1. \A n \in Mappers : maps[n].pc = "known" => maps[n].entity \in Ids
        BY <1>0 DEF TypeInv, MappingsKnown
      <4> QED
        BY <2>1, <2>2, <3>2, <4>1 DEF IdentityInv, UpdatesAreOfFound
    <3>6. ReferencesAreOfEntities'
      BY <3>1, <3>2, <3>3 DEF IdentityInv, ReferencesAreOfEntities
    <3> QED
      BY <1>0, <3>4, <3>5, <3>6 DEF IdentityInv
  <2> QED
    BY <2>3, <2>4
<1>8. ASSUME NEW m \in Mappers, FailMapping(m) PROVE IdentityInv'
  <2>1. /\ maps' = [maps EXCEPT ![m] = NoMapping] /\ UNCHANGED <<reference, lifecycle>>
    BY <1>8 DEF FailMapping, RolledBack
  <2>2. ~maps'[m].reference /\ ~maps'[m].row /\ maps'[m].pc = "idle" /\ \A n \in Mappers \ {m} : maps'[n] = maps[n]
    BY <1>t, <2>1 DEF NoMapping
  <2> QED
    BY <1>0, <2>1, <2>2, MappingAlone DEF Inserted
<1>9. ASSUME UNCHANGED <<maps, reference, lifecycle>> PROVE IdentityInv'
  BY <1>0, <1>9, IdentityStands
<1> QED
  BY <1>1, <1>2, <1>3, <1>4, <1>5, <1>6, <1>7, <1>8, <1>9
  DEF IdentityNext, identityVars, Resolve, LockCase, MatchCase, DismissCase, Decide, GiveUpCase

LEMMA IdentityStart == IdentityInit => IdentityInv
BY TypeInit DEF IdentityInit, IdentityInv, MappingsInOrder, InsertsAreNew, Inserted,
   UpdatesAreOfFound, ReferencesAreOfEntities, NoMapping

\* Every entity that mappings leave behind belongs to exactly one record, however
\* first mappings of the same records overlap, fail or wait for one another.
THEOREM OneEntityForEveryRecord == IdentitySpec => []OneEntityPerRecord
<1>1. IdentityInv /\ [IdentityNext]_identityVars => IdentityInv'
  BY IdentityStep
<1>2. IdentityInv => OneEntityPerRecord
  <2> SUFFICES ASSUME IdentityInv, NEW e \in Ids, lifecycle[e] # "none"
               PROVE  Cardinality({r \in OdooRecords : reference[r] = e}) = 1
    BY DEF OneEntityPerRecord
  <2> PICK r \in OdooRecords : \A s \in OdooRecords : reference[s] = e <=> s = r
    BY DEF IdentityInv, ReferencesAreOfEntities
  <2>1. {s \in OdooRecords : reference[s] = e} = {r}
    OBVIOUS
  <2> QED
    BY <2>1, FS_Singleton
<1> QED
  BY <1>1, <1>2, IdentityStart, PTL DEF IdentitySpec

---------------------------------------------------------------------------
(* Cases *)

\* Who has locked a case holds it alone, and it is open.
LocksAreOfOpenCases ==
  \A d \in Deciders : decider[d] # NoId =>
    /\ cases[decider[d]].status = "pending"
    /\ \A other \in Deciders \ {d} : decider[other] # decider[d]

CaseInv == TypeInv /\ LocksAreOfOpenCases /\ CasesCloseOnce

\* A decision closes the case it has locked.
LEMMA DecisionCloses ==
  ASSUME CaseInv, TypeInv', NEW d \in Deciders, decider[d] # NoId, NEW closed \in Case,
         Decide(d, closed), closed.status \in {"resolved", "dismissed"},
         closed.selected \in closed.candidates \cup {NoId}
  PROVE  CaseInv'
<1> PICK c \in Cases : c = decider[d]
  BY DEF CaseInv, TypeInv, IdentityTypeOK
<1>1. /\ cases'[c] = closed /\ (\A b \in Cases \ {c} : cases'[b] = cases[b])
      /\ decisions'[c] = decisions[c] + 1
      /\ (\A b \in Cases \ {c} : decisions'[b] = decisions[b])
      /\ decider'[d] = NoId /\ (\A other \in Deciders \ {d} : decider'[other] = decider[other])
  BY DEF Decide, CaseInv, TypeInv, IdentityTypeOK
<1>2. cases[c].status = "pending" /\ \A other \in Deciders \ {d} : decider[other] # c
  BY DEF CaseInv, LocksAreOfOpenCases
<1>3. decisions[c] = 0
  BY <1>2 DEF CaseInv, CasesCloseOnce
<1>4. \A other \in Deciders : decider[other] # NoId => decider[other] \in Cases
  BY DEF CaseInv, TypeInv, IdentityTypeOK
<1>5. LocksAreOfOpenCases'
  BY <1>1, <1>2, <1>4 DEF CaseInv, LocksAreOfOpenCases
<1>6. CasesCloseOnce'
  BY <1>1, <1>3 DEF CaseInv, CasesCloseOnce
<1> QED
  BY <1>5, <1>6 DEF CaseInv

LEMMA CaseStep ==
  ASSUME CaseInv, [IdentityNext]_identityVars
  PROVE  CaseInv'
<1>0. TypeInv /\ TypeInv' /\ IdentityTypeOK
  BY TypeStep DEF CaseInv, TypeInv
<1>1. ASSUME NEW c \in Cases, NEW candidates \in SUBSET Ids, Resolve(c, candidates)
      PROVE  CaseInv'
  <2>1. /\ cases'[c].status = "pending" /\ cases'[c].selected = NoId
        /\ (\A b \in Cases \ {c} : cases'[b] = cases[b])
        /\ cases[c].status = "none" /\ UNCHANGED <<decider, decisions>>
    BY <1>0, <1>1 DEF Resolve, IdentityTypeOK
  <2>2. LocksAreOfOpenCases'
    BY <1>0, <2>1 DEF CaseInv, LocksAreOfOpenCases, IdentityTypeOK
  <2>3. CasesCloseOnce'
    BY <2>1 DEF CaseInv, CasesCloseOnce
  <2> QED
    BY <1>0, <2>2, <2>3 DEF CaseInv
<1>2. ASSUME NEW d \in Deciders, NEW c \in Cases, LockCase(d, c) PROVE CaseInv'
  <2>1. /\ decider'[d] = c /\ (\A other \in Deciders \ {d} : decider'[other] = decider[other])
        /\ UNCHANGED <<cases, decisions>> /\ cases[c].status = "pending"
        /\ \A other \in Deciders : decider[other] # c
    BY <1>0, <1>2 DEF LockCase, CaseFree, IdentityTypeOK
  <2>2. LocksAreOfOpenCases'
    BY <2>1 DEF CaseInv, LocksAreOfOpenCases
  <2>3. CasesCloseOnce'
    BY <2>1 DEF CaseInv, CasesCloseOnce
  <2> QED
    BY <1>0, <2>2, <2>3 DEF CaseInv
<1>3. ASSUME NEW d \in Deciders, NEW e \in Ids, MatchCase(d, e) PROVE CaseInv'
  <2>1. cases[decider[d]] \in Case /\ e \in cases[decider[d]].candidates
    BY <1>0, <1>3 DEF MatchCase, IdentityTypeOK
  <2> DEFINE closed == [cases[decider[d]] EXCEPT !.status = "resolved", !.selected = e]
  <2>2. /\ closed \in Case /\ closed.status = "resolved"
        /\ closed.selected \in closed.candidates \cup {NoId}
    BY <2>1 DEF Case
  <2> QED
    BY <1>0, <1>3, <2>2, DecisionCloses DEF MatchCase
<1>4. ASSUME NEW d \in Deciders, DismissCase(d) PROVE CaseInv'
  <2>1. /\ cases[decider[d]] \in Case
        /\ cases[decider[d]].selected \in cases[decider[d]].candidates \cup {NoId}
    BY <1>0, <1>4 DEF DismissCase, IdentityTypeOK, CaseInv, CasesCloseOnce
  <2> DEFINE closed == [cases[decider[d]] EXCEPT !.status = "dismissed"]
  <2>2. /\ closed \in Case /\ closed.status = "dismissed"
        /\ closed.selected \in closed.candidates \cup {NoId}
    BY <2>1 DEF Case
  <2> QED
    BY <1>0, <1>4, <2>2, DecisionCloses DEF DismissCase
<1>5. ASSUME NEW d \in Deciders, GiveUpCase(d) PROVE CaseInv'
  <2>1. /\ decider'[d] = NoId /\ (\A other \in Deciders \ {d} : decider'[other] = decider[other])
        /\ UNCHANGED <<cases, decisions>>
    BY <1>0, <1>5 DEF GiveUpCase, IdentityTypeOK
  <2> QED
    BY <1>0, <2>1 DEF CaseInv, LocksAreOfOpenCases, CasesCloseOnce
<1>6. ASSUME UNCHANGED <<cases, decider, decisions>> PROVE CaseInv'
  BY <1>0, <1>6 DEF CaseInv, LocksAreOfOpenCases, CasesCloseOnce
<1> QED
  BY <1>1, <1>2, <1>3, <1>4, <1>5, <1>6
  DEF IdentityNext, identityVars, FetchRecord, FindSource, InsertSource, FindReference,
      InsertEntity, InsertReference, UpdateMapped, SetMapping, CommitMapping, FailMapping

LEMMA CaseInit == IdentityInit => CaseInv
BY TypeInit DEF IdentityInit, CaseInv, LocksAreOfOpenCases, CasesCloseOnce, NoCase

\* A case has one audited decision once it is closed and none while it is open,
\* and what was selected was a candidate.
THEOREM CasesDecidedOnce == IdentitySpec => []CasesCloseOnce
<1>1. CaseInv /\ [IdentityNext]_identityVars => CaseInv'
  BY CaseStep
<1>2. CaseInv => CasesCloseOnce
  BY DEF CaseInv
<1> QED
  BY <1>1, <1>2, CaseInit, PTL DEF IdentitySpec

---------------------------------------------------------------------------
(* Merging: rows, journals and requests *)

EdgeRows == EdgeRow \cup {NoEdge}

LEMMA RowFields ==
  ASSUME NEW row \in EdgeRows
  PROVE  /\ row.from \in Maybe /\ row.to \in Maybe
         /\ (row = NoEdge) <=> (row.from = Nothing)
         /\ (row = NoEdge) <=> (row.to = Nothing)
         /\ row # NoEdge => /\ row \in EdgeRow /\ row.from \in Entities /\ row.to \in Entities
                            /\ row.kind \in Kinds
BY MergeAssumption DEF EdgeRows, EdgeRow, NoEdge, Maybe

LEMMA RowsEqual ==
  ASSUME NEW row \in EdgeRows, NEW other \in EdgeRows,
         row.from = other.from, row.to = other.to, row.kind = other.kind
  PROVE  row = other
BY DEF EdgeRows, EdgeRow, NoEdge

LEMMA RowMoved ==
  ASSUME NEW row \in EdgeRows, NEW f \in Maybe, NEW t \in Maybe,
         row = NoEdge => f = Nothing /\ t = Nothing,
         row # NoEdge => f \in Entities /\ t \in Entities
  PROVE  LET moved == [row EXCEPT !.from = f, !.to = t] IN
         /\ moved \in EdgeRows /\ moved.from = f /\ moved.to = t /\ moved.kind = row.kind
         /\ row = NoEdge => moved = NoEdge
         /\ row # NoEdge => moved # NoEdge /\ moved \in EdgeRow
<1>1. CASE row = NoEdge
  <2>1. f = Nothing /\ t = Nothing
    BY <1>1
  <2>2. row = [from |-> Nothing, to |-> Nothing, kind |-> Nothing]
    BY <1>1 DEF NoEdge
  <2> DEFINE moved == [row EXCEPT !.from = Nothing, !.to = Nothing]
  <2>3. moved = row
    <3>1. row = [x \in {"from", "to", "kind"} |-> Nothing]
      BY <2>2
    <3>2. moved = [x \in {"from", "to", "kind"} |-> Nothing]
      BY <3>1
    <3> QED
      BY <3>1, <3>2
  <2>4. [row EXCEPT !.from = f, !.to = t] = row
    BY <2>1, <2>3
  <2>5. row.from = Nothing /\ row.to = Nothing
    BY <2>2
  <2> QED
    BY <1>1, <2>1, <2>4, <2>5
<1>2. CASE row # NoEdge
  <2>1. row \in EdgeRow
    BY <1>2 DEF EdgeRows
  <2> DEFINE moved == [row EXCEPT !.from = f, !.to = t]
  <2>2. moved \in EdgeRow /\ moved.from = f /\ moved.to = t /\ moved.kind = row.kind
    BY <1>2, <2>1 DEF EdgeRow
  <2> HIDE DEF moved
  <2>3. moved # NoEdge
    BY <1>2, <2>2, MergeAssumption DEF NoEdge
  <2>4. moved \in EdgeRows
    BY <2>2 DEF EdgeRows
  <2> USE DEF moved
  <2> QED
    BY <1>2, <2>2, <2>3, <2>4
<1> QED
  BY <1>1, <1>2

LEMMA RowRetyped ==
  ASSUME NEW row \in EdgeRow, NEW k \in Kinds
  PROVE  LET typed == [row EXCEPT !.kind = k] IN
         typed \in EdgeRow /\ typed.from = row.from /\ typed.to = row.to /\ typed.kind = k
BY DEF EdgeRow

LEMMA JournalFields ==
  ASSUME NEW m \in Journal
  PROVE  /\ m.source \in Entities /\ m.target \in Entities /\ m.records \subseteq Records
         /\ m.froms \subseteq Edges /\ m.tos \subseteq Edges /\ m.mark \in Maybe
         /\ \A d \in m.deleted : d.id \in Edges /\ d.row \in EdgeRow
         /\ \A d, e \in m.deleted : d.id = e.id /\ d.row = e.row => d = e
         /\ m # NoJournal
<1>1. m.deleted \in SUBSET [id : Edges, row : EdgeRow]
  BY DEF Journal
<1>2. m.source # Nothing
  BY MergeAssumption DEF Journal
<1> QED
  BY <1>1, <1>2 DEF Journal, NoJournal

LEMMA IdleRequest ==
  /\ Idle \in Request /\ Idle.pc = "idle" /\ Idle.journal = NoJournal /\ Idle.rows = {}
  /\ Idle.status = "active"
BY DEF Idle, Request, Status, Maybe

---------------------------------------------------------------------------
(* Merging: the invariant *)

Pair(m) == {m.source, m.target}
Busy(x) == tx[x].pc \in {"merging", "splitting"}

Touches(row, m) == row.from \in Pair(m) \/ row.to \in Pair(m)
Between(row, m) ==
  \/ row.from = m.source /\ row.to = m.target
  \/ row.from = m.target /\ row.to = m.source

\* Types, and what the requests in progress hold.
RequestsTyped ==
  \A x \in Requests :
    /\ Busy(x) => tx[x].journal \in Journal
    /\ ~Busy(x) => tx[x].journal = NoJournal /\ tx[x].rows = {}
    /\ tx[x].pc = "mapping" => tx[x].entity \in Entities
    /\ tx[x].status # "merged"

Homes == [record : [Records -> Maybe], edge : [Edges -> EdgeRows]]

MergeTypes ==
  /\ TypeOK
  /\ home \in Homes
  /\ RequestsTyped

\* The keys of the relationships that a merge will have moved differ.
MovesApart(m, rows) ==
  \A i, j \in rows :
    i # j /\ i \notin Deleted(m) /\ (edge[i].from = m.source \/ edge[i].to = m.source)
      => Rewired(edge[i], m.source, m.target) # Rewired(edge[j], m.source, m.target)

\* The journal that a merge in progress has taken is the one it would take now.
JournalStands(m, rows) ==
  /\ m.source # m.target
  /\ \A e \in Pair(m) : status[e] = "active" /\ ~Participating(e)
  /\ \A r \in Records : r \in m.records <=> owner[r] = m.source
  /\ \A i \in Edges :
       /\ i \in m.froms <=> edge[i].from = m.source /\ edge[i].to # m.target
       /\ i \in m.tos <=> edge[i].to = m.source /\ edge[i].from # m.target
       /\ i \in Deleted(m) <=> Between(edge[i], m)
       /\ i \in rows <=> Touches(edge[i], m)
  /\ \A d \in m.deleted : d.row = edge[d.id]
  /\ MovesApart(m, rows)

\* What a split in progress has checked still holds.
SplitStands(m, rows) ==
  /\ m \in merges
  /\ status[m.source] = "merged" /\ status[m.target] = "active"
  /\ rows = m.froms \cup m.tos
  /\ \A i \in rows : Exists(i)

RequestStands(x) ==
  /\ tx[x].pc = "merging" => JournalStands(tx[x].journal, tx[x].rows)
  /\ tx[x].pc = "splitting" => SplitStands(tx[x].journal, tx[x].rows)

RequestsStand == \A x \in Requests : RequestStands(x)

LocksApart ==
  \A x, y \in Requests : x # y =>
    /\ tx[x].rows \cap tx[y].rows = {}
    /\ Busy(x) /\ Busy(y) => Pair(tx[x].journal) \cap Pair(tx[y].journal) = {}

MergesApart ==
  /\ \A m \in merges : m.source # m.target
  /\ \A m, n \in merges : m # n => Pair(m) \cap Pair(n) = {}

\* What was created with the entity `born` is where the merge m has put it.
At(now, born, m) == now = m.target /\ born = m.source

\* Every record is at home but for its open merge, whose journal has it.
RecordAtHome(r) ==
  /\ owner[r] = Nothing <=> home.record[r] = Nothing
  /\ owner[r] # Nothing => owner[r] \in Places(home.record[r])
  /\ \A m \in merges : r \in m.records <=> At(owner[r], home.record[r], m)

\* So is every relationship, with both its ends.
EdgeAtHome(i) ==
  /\ Exists(i) =>
       /\ home.edge[i] # NoEdge
       /\ edge[i].from \in Places(home.edge[i].from)
       /\ edge[i].to \in Places(home.edge[i].to)
       /\ \A m \in merges :
            /\ i \in m.froms <=> At(edge[i].from, home.edge[i].from, m)
            /\ i \in m.tos <=> At(edge[i].to, home.edge[i].to, m)
  /\ ~Exists(i) /\ home.edge[i] # NoEdge => \E m \in merges : i \in Deleted(m)

\* A relationship that an open merge has deleted is known to its journal alone,
\* between the merged entities, as it was created.
LoopKept(m, d) ==
  /\ ~Exists(d.id)
  /\ Between(d.row, m)
  /\ home.edge[d.id].from = d.row.from /\ home.edge[d.id].to = d.row.to
  /\ \A n \in merges : d.id \notin n.froms \cup n.tos
  /\ \A n \in merges : \A e \in n.deleted :
       n # m \/ e # d => d.id # e.id
  /\ \A e \in m.deleted : e # d => d.row # e.row

RowsAtHome ==
  /\ \A r \in Records : RecordAtHome(r)
  /\ \A i \in Edges : EdgeAtHome(i)
  /\ \A m \in merges : \A d \in m.deleted : LoopKept(m, d)

MergeInv ==
  /\ MergeTypes /\ RequestsStand /\ LocksApart /\ MergesApart
  /\ RowsAtHome /\ GraphIntegrity(edge)

---------------------------------------------------------------------------
(* What a merge and a split make of a relationship *)

LEMMA MergedRow ==
  ASSUME TypeOK, NEW m \in Journal, NEW rows, JournalStands(m, rows), NEW i \in Edges
  PROVE  LET row == MergedEdges(m)[i] IN
         /\ row \in EdgeRows
         /\ i \in Deleted(m) => row = NoEdge
         /\ i \notin Deleted(m) =>
              /\ row.from = Moved(edge[i].from, m.source, m.target)
              /\ row.to = Moved(edge[i].to, m.source, m.target)
              /\ row.kind = edge[i].kind
              /\ row = NoEdge <=> edge[i] = NoEdge
<1>1. edge[i] \in EdgeRows
  BY DEF TypeOK, EdgeRows
<1>2. CASE i \in Deleted(m)
  <2>1. MergedEdges(m)[i] = NoEdge
    BY <1>2 DEF MergedEdges
  <2> QED
    BY <1>2, <2>1 DEF EdgeRows
<1>3. CASE i \notin Deleted(m)
  <2> DEFINE f == IF i \in m.froms THEN m.target ELSE edge[i].from
             t == IF i \in m.tos THEN m.target ELSE edge[i].to
  <2>1. MergedEdges(m)[i] = [edge[i] EXCEPT !.from = f, !.to = t]
    BY <1>3 DEF MergedEdges
  <2>2. /\ i \in m.froms <=> edge[i].from = m.source /\ edge[i].to # m.target
        /\ i \in m.tos <=> edge[i].to = m.source /\ edge[i].from # m.target
        /\ ~(edge[i].from = m.source /\ edge[i].to = m.target)
        /\ ~(edge[i].from = m.target /\ edge[i].to = m.source)
    BY <1>3 DEF JournalStands, Between
  <2>3. f = Moved(edge[i].from, m.source, m.target) /\ t = Moved(edge[i].to, m.source, m.target)
    BY <2>2 DEF Moved
  <2>4. m.source \in Entities /\ m.target \in Entities /\ Nothing \notin Entities
    BY JournalFields, MergeAssumption
  <2>5. edge[i].from \in Maybe /\ edge[i].to \in Maybe
    BY <1>1, RowFields
  <2>6. edge[i] = NoEdge => edge[i].from = Nothing /\ edge[i].to = Nothing
    BY <1>1, RowFields
  <2>7. edge[i] # NoEdge => edge[i].from \in Entities /\ edge[i].to \in Entities
    BY <1>1, RowFields
  <2>8. /\ f \in Maybe /\ t \in Maybe
        /\ edge[i] = NoEdge => f = Nothing /\ t = Nothing
        /\ edge[i] # NoEdge => f \in Entities /\ t \in Entities
    BY <2>3, <2>4, <2>5, <2>6, <2>7 DEF Moved, Maybe
  <2> HIDE DEF f, t
  <2>9. LET moved == [edge[i] EXCEPT !.from = f, !.to = t] IN
        /\ moved \in EdgeRows /\ moved.from = f /\ moved.to = t /\ moved.kind = edge[i].kind
        /\ edge[i] = NoEdge => moved = NoEdge
        /\ edge[i] # NoEdge => moved # NoEdge /\ moved \in EdgeRow
    BY <1>1, <2>8, RowMoved
  <2> QED
    BY <1>3, <2>1, <2>3, <2>9
<1> QED
  BY <1>2, <1>3

\* A split finds every relationship it moves.
LEMMA RestoredRow ==
  ASSUME TypeOK, NEW m \in Journal, \A i \in m.froms \cup m.tos : Exists(i),
         \A d, e \in m.deleted : d # e => d.id # e.id, NEW i \in Edges
  PROVE  LET row == RestoredEdges(m)[i] IN
         /\ row \in EdgeRows
         /\ \A d \in m.deleted : d.id = i => row = d.row
         /\ i \notin Deleted(m) =>
              /\ row.from = (IF i \in m.froms THEN m.source ELSE edge[i].from)
              /\ row.to = (IF i \in m.tos THEN m.source ELSE edge[i].to)
              /\ row.kind = edge[i].kind
              /\ row = NoEdge <=> edge[i] = NoEdge
<1>1. edge[i] \in EdgeRows
  BY DEF TypeOK, EdgeRows
<1>2. CASE i \in Deleted(m)
  <2>1. PICK d \in m.deleted : d.id = i
    BY <1>2 DEF Deleted
  <2>2. \A e \in m.deleted : e.id = i => e = d
    BY <2>1
  <2>3. (CHOOSE e \in m.deleted : e.id = i) = d
    BY <2>1, <2>2
  <2>4. RestoredEdges(m)[i] = d.row
    BY <1>2, <2>3 DEF RestoredEdges
  <2>5. d.row \in EdgeRow
    BY <2>1, JournalFields
  <2> QED
    BY <1>2, <2>2, <2>4, <2>5 DEF EdgeRows
<1>3. CASE i \notin Deleted(m)
  <2> DEFINE f == IF i \in m.froms THEN m.source ELSE edge[i].from
             t == IF i \in m.tos THEN m.source ELSE edge[i].to
  <2>1. RestoredEdges(m)[i] = [edge[i] EXCEPT !.from = f, !.to = t]
    BY <1>3 DEF RestoredEdges
  <2>2. m.source \in Entities
    BY JournalFields
  <2>3. i \in m.froms \/ i \in m.tos => edge[i] # NoEdge
    BY DEF Exists
  <2>4. edge[i].from \in Maybe /\ edge[i].to \in Maybe
    BY <1>1, RowFields
  <2>5. edge[i] = NoEdge => edge[i].from = Nothing /\ edge[i].to = Nothing
    BY <1>1, RowFields
  <2>6. edge[i] # NoEdge => edge[i].from \in Entities /\ edge[i].to \in Entities
    BY <1>1, RowFields
  <2>7. /\ f \in Maybe /\ t \in Maybe
        /\ edge[i] = NoEdge => f = Nothing /\ t = Nothing
        /\ edge[i] # NoEdge => f \in Entities /\ t \in Entities
    BY <2>2, <2>3, <2>4, <2>5, <2>6 DEF Maybe
  <2>8. \A d \in m.deleted : d.id # i
    BY <1>3 DEF Deleted
  <2> HIDE DEF f, t
  <2>9. LET moved == [edge[i] EXCEPT !.from = f, !.to = t] IN
        /\ moved \in EdgeRows /\ moved.from = f /\ moved.to = t /\ moved.kind = edge[i].kind
        /\ edge[i] = NoEdge => moved = NoEdge
        /\ edge[i] # NoEdge => moved # NoEdge /\ moved \in EdgeRow
    BY <1>1, <2>7, RowMoved
  <2>10. /\ RestoredEdges(m)[i].from = f /\ RestoredEdges(m)[i].to = t
         /\ RestoredEdges(m)[i].kind = edge[i].kind /\ RestoredEdges(m)[i] \in EdgeRows
         /\ RestoredEdges(m)[i] = NoEdge <=> edge[i] = NoEdge
    BY <2>1, <2>9
  <2> QED
    BY <1>3, <2>8, <2>10 DEF f, t
<1> QED
  BY <1>2, <1>3

---------------------------------------------------------------------------
(* Where rows may be, and why the constraints on relationships hold *)

LEMMA PlacesAre ==
  ASSUME NEW v, NEW b
  PROVE  v \in Places(b) <=>
           \/ \E n \in merges : n.source = b /\ n.target = v
           \/ v = b /\ ~(status[b] = "merged" /\ \E n \in merges : n.source = b)
BY DEF Places

LEMMA PlacesNext ==
  ASSUME NEW v, NEW b
  PROVE  (v \in Places(b))' <=>
           \/ \E n \in merges' : n.source = b /\ n.target = v
           \/ v = b /\ ~(status'[b] = "merged" /\ \E n \in merges' : n.source = b)
BY DEF Places

LEMMA PairApart ==
  ASSUME MergesApart, NEW m \in merges, NEW n \in merges, m # n
  PROVE  /\ m.source # n.source /\ m.source # n.target
         /\ m.target # n.source /\ m.target # n.target
BY DEF MergesApart, Pair

\* Nothing belongs to a tombstone.
LEMMA TombstoneBare ==
  ASSUME MergesApart, NEW m \in merges, status[m.source] = "merged", NEW b
  PROVE  m.source \notin Places(b)
<1> SUFFICES ASSUME m.source \in Places(b)
             PROVE  FALSE
  OBVIOUS
<1>1. m.source # m.target
  BY DEF MergesApart
<1>2. CASE \E n \in merges : n.source = b /\ n.target = m.source
  <2>1. PICK n \in merges : n.source = b /\ n.target = m.source
    BY <1>2
  <2>2. CASE n = m
    BY <1>1, <2>1, <2>2
  <2>3. CASE n # m
    BY <2>1, <2>3, PairApart
  <2> QED
    BY <2>2, <2>3
<1>3. CASE m.source = b /\ ~(status[b] = "merged" /\ \E n \in merges : n.source = b)
  BY <1>3
<1> QED
  BY <1>2, <1>3, PlacesAre

\* What a merge has put somewhere leaves that place by a split alone, so a split
\* finds what it moves, and gives back relationships that differ from all others.
LEMMA SplitFindsAll ==
  ASSUME MergeTypes, RowsAtHome, MergesApart, GraphIntegrity(edge), NEW m \in merges,
         status[m.source] = "merged", \A i \in m.froms \cup m.tos : Exists(i)
  PROVE  Undrifted(m) /\ GraphIntegrity(RestoredEdges(m))
<1>1. m \in Journal /\ m.source # m.target
  BY DEF MergeTypes, TypeOK, MergesApart
<1>2. /\ m.source \in Entities /\ m.target \in Entities
      /\ m.records \subseteq Records /\ m.froms \subseteq Edges /\ m.tos \subseteq Edges
      /\ \A d \in m.deleted : d.id \in Edges /\ d.row \in EdgeRow
  BY <1>1, JournalFields
<1>3. \A r \in m.records : owner[r] = m.target
  BY <1>2 DEF RowsAtHome, RecordAtHome, At
<1>4. \A i \in m.froms : edge[i].from = m.target
  BY <1>2 DEF RowsAtHome, EdgeAtHome, At
<1>5. \A i \in m.tos : edge[i].to = m.target
  BY <1>2 DEF RowsAtHome, EdgeAtHome, At
<1>6. Undrifted(m)
  BY <1>3, <1>4, <1>5 DEF Undrifted
<1>7. \A d, e \in m.deleted : d # e => d.id # e.id
  BY DEF RowsAtHome, LoopKept
<1> DEFINE G == RestoredEdges(m)
<1>8. ASSUME NEW i \in Edges
      PROVE  /\ G[i] \in EdgeRows
             /\ \A d \in m.deleted : d.id = i => G[i] = d.row
             /\ i \notin Deleted(m) =>
                  /\ G[i].from = (IF i \in m.froms THEN m.source ELSE edge[i].from)
                  /\ G[i].to = (IF i \in m.tos THEN m.source ELSE edge[i].to)
                  /\ G[i].kind = edge[i].kind
                  /\ G[i] = NoEdge <=> edge[i] = NoEdge
  BY <1>1, <1>7, <1>8, RestoredRow DEF MergeTypes
<1> HIDE DEF G
\* No relationship ends at the tombstone before the split.
<1>9. ASSUME NEW i \in Edges
      PROVE  edge[i].from # m.source /\ edge[i].to # m.source
  <2>1. CASE Exists(i)
    <3>1. edge[i].from \in Places(home.edge[i].from) /\ edge[i].to \in Places(home.edge[i].to)
      BY <2>1, <1>9 DEF RowsAtHome, EdgeAtHome
    <3> QED
      BY <3>1, TombstoneBare
  <2>2. CASE ~Exists(i)
    BY <2>2, <1>2, MergeAssumption DEF Exists, NoEdge
  <2> QED
    BY <2>1, <2>2
\* A moved relationship is back between others than the two.
<1>10. ASSUME NEW i \in Edges, i \notin Deleted(m), edge[i] # NoEdge
       PROVE  /\ edge[i].from = (IF G[i].from = m.source THEN m.target ELSE G[i].from)
              /\ edge[i].to = (IF G[i].to = m.source THEN m.target ELSE G[i].to)
              /\ edge[i].from # edge[i].to
              /\ ~Between(G[i], m)
  <2>1. edge[i].from # edge[i].to
    BY <1>10 DEF GraphIntegrity
  <2>2. /\ edge[i].from = (IF G[i].from = m.source THEN m.target ELSE G[i].from)
        /\ edge[i].to = (IF G[i].to = m.source THEN m.target ELSE G[i].to)
    BY <1>4, <1>5, <1>8, <1>9, <1>10
  <2> QED
    BY <1>1, <2>1, <2>2 DEF Between
<1>11. ASSUME NEW i \in Edges, i \in Deleted(m)
       PROVE  \E d \in m.deleted : d.id = i /\ G[i] = d.row /\ Between(d.row, m)
  BY <1>8, <1>11 DEF Deleted, RowsAtHome, LoopKept
<1>12. ASSUME NEW i \in Edges, G[i] # NoEdge
       PROVE  G[i].from # G[i].to
  <2>1. CASE i \in Deleted(m)
    BY <1>1, <1>11, <2>1 DEF Between
  <2>2. CASE i \notin Deleted(m)
    <3>1. edge[i] # NoEdge
      BY <1>8, <1>12, <2>2
    <3> QED
      BY <1>10, <2>2, <3>1
  <2> QED
    BY <2>1, <2>2
<1>13. ASSUME NEW i \in Edges, NEW j \in Edges, i # j, G[i] # NoEdge, G[i] = G[j]
       PROVE  FALSE
  <2>1. CASE i \in Deleted(m) /\ j \in Deleted(m)
    <3>1. PICK d \in m.deleted : d.id = i /\ G[i] = d.row
      BY <1>11, <2>1
    <3>2. PICK e \in m.deleted : e.id = j /\ G[j] = e.row
      BY <1>11, <2>1
    <3>3. d # e /\ d.row = e.row
      BY <1>13, <3>1, <3>2
    <3> QED
      BY <3>3 DEF RowsAtHome, LoopKept
  <2>2. CASE i \notin Deleted(m) /\ j \notin Deleted(m)
    <3>1. edge[i] # NoEdge /\ edge[j] # NoEdge
      BY <1>8, <1>13, <2>2
    <3>2. edge[i].from = edge[j].from /\ edge[i].to = edge[j].to
      BY <1>10, <1>13, <2>2, <3>1
    <3>3. edge[i].kind = edge[j].kind
      BY <1>8, <1>13, <2>2
    <3>4. edge[i] \in EdgeRows /\ edge[j] \in EdgeRows
      BY DEF MergeTypes, TypeOK, EdgeRows
    <3>5. edge[i] = edge[j]
      BY <3>2, <3>3, <3>4, RowsEqual
    <3> QED
      BY <1>13, <3>1, <3>5 DEF GraphIntegrity
  <2>3. CASE i \in Deleted(m) /\ j \notin Deleted(m)
    <3>1. edge[j] # NoEdge
      BY <1>8, <1>13, <2>3
    <3> QED
      BY <1>10, <1>11, <1>13, <2>3, <3>1
  <2>4. CASE i \notin Deleted(m) /\ j \in Deleted(m)
    <3>1. edge[i] # NoEdge
      BY <1>8, <1>13, <2>4
    <3> QED
      BY <1>10, <1>11, <1>13, <2>4, <3>1
  <2> QED
    BY <2>1, <2>2, <2>3, <2>4
<1>14. GraphIntegrity(G)
  BY <1>12, <1>13 DEF GraphIntegrity
<1> QED
  BY <1>6, <1>14 DEF G

LEMMA RowRewired ==
  ASSUME NEW row \in EdgeRow, NEW s \in Entities, NEW t \in Entities
  PROVE  /\ Rewired(row, s, t) \in EdgeRow
         /\ Rewired(row, s, t).from = Moved(row.from, s, t)
         /\ Rewired(row, s, t).to = Moved(row.to, s, t)
         /\ Rewired(row, s, t).kind = row.kind
<1>1. Moved(row.from, s, t) \in Entities /\ Moved(row.to, s, t) \in Entities
  BY DEF EdgeRow, Moved
<1>2. Rewired(row, s, t) =
        [row EXCEPT !.from = Moved(row.from, s, t), !.to = Moved(row.to, s, t)]
  BY DEF Rewired
<1> HIDE DEF Moved
<1> QED
  BY <1>1, <1>2 DEF EdgeRow

\* What a merge has compared are all the keys that can collide.
LEMMA MergeKeepsGraph ==
  ASSUME TypeOK, GraphIntegrity(edge), NEW m \in Journal, NEW rows,
         JournalStands(m, rows)
  PROVE  GraphIntegrity(MergedEdges(m))
<1>1. m.source \in Entities /\ m.target \in Entities /\ m.source # m.target
  BY JournalFields DEF JournalStands
<1> DEFINE G == MergedEdges(m)
<1>2. ASSUME NEW i \in Edges
      PROVE  /\ i \in Deleted(m) => G[i] = NoEdge
             /\ i \notin Deleted(m) =>
                  /\ G[i].from = Moved(edge[i].from, m.source, m.target)
                  /\ G[i].to = Moved(edge[i].to, m.source, m.target)
                  /\ G[i].kind = edge[i].kind
                  /\ G[i] = NoEdge <=> edge[i] = NoEdge
  BY <1>2, MergedRow
<1> HIDE DEF G
<1>3. ASSUME NEW i \in Edges
      PROVE  /\ edge[i] \in EdgeRows
             /\ edge[i] # NoEdge => edge[i] \in EdgeRow
             /\ i \in Deleted(m) <=> Between(edge[i], m)
             /\ i \in rows <=> Touches(edge[i], m)
  BY <1>3 DEF TypeOK, EdgeRows, JournalStands
<1>4. ASSUME NEW i \in Edges, G[i] # NoEdge
      PROVE  G[i].from # G[i].to
  <2>1. i \notin Deleted(m) /\ edge[i] # NoEdge
    BY <1>2, <1>4
  <2>2. edge[i].from # edge[i].to
    BY <2>1 DEF GraphIntegrity
  <2> QED
    BY <1>1, <1>2, <1>3, <2>1, <2>2 DEF Moved, Between
\* Who touches the source collides with nobody.
<1>5. ASSUME NEW i \in Edges, NEW j \in Edges, i # j, G[i] # NoEdge, G[i] = G[j],
             edge[i].from = m.source \/ edge[i].to = m.source
      PROVE  FALSE
  <2>1. /\ i \notin Deleted(m) /\ j \notin Deleted(m)
        /\ edge[i] # NoEdge /\ edge[j] # NoEdge
    BY <1>2, <1>5
  <2>2. edge[i] \in EdgeRow /\ edge[j] \in EdgeRow
    BY <1>3, <2>1
  <2>3. /\ Moved(edge[i].from, m.source, m.target) = Moved(edge[j].from, m.source, m.target)
        /\ Moved(edge[i].to, m.source, m.target) = Moved(edge[j].to, m.source, m.target)
        /\ edge[i].kind = edge[j].kind
    BY <1>2, <1>5, <2>1
  <2>4. Touches(edge[i], m)
    BY <1>5 DEF Touches, Pair
  <2>5. Touches(edge[j], m)
    BY <1>5, <2>3 DEF Touches, Pair, Moved
  <2>6. i \in rows /\ j \in rows
    BY <1>3, <2>4, <2>5
  <2>7. Rewired(edge[i], m.source, m.target) # Rewired(edge[j], m.source, m.target)
    BY <1>5, <2>1, <2>6 DEF JournalStands, MovesApart
  <2>8. /\ Rewired(edge[i], m.source, m.target) \in EdgeRows
        /\ Rewired(edge[j], m.source, m.target) \in EdgeRows
    BY <1>1, <2>2, RowRewired DEF EdgeRows
  <2>9. Rewired(edge[i], m.source, m.target) = Rewired(edge[j], m.source, m.target)
    BY <1>1, <2>2, <2>3, <2>8, RowRewired, RowsEqual
  <2> QED
    BY <2>7, <2>9
<1>6. ASSUME NEW i \in Edges, NEW j \in Edges, i # j, G[i] # NoEdge, G[i] = G[j]
      PROVE  FALSE
  <2>1. CASE edge[i].from = m.source \/ edge[i].to = m.source
    BY <1>5, <1>6, <2>1
  <2>2. CASE edge[j].from = m.source \/ edge[j].to = m.source
    BY <1>5, <1>6, <2>2
  <2>3. CASE /\ edge[i].from # m.source /\ edge[i].to # m.source
             /\ edge[j].from # m.source /\ edge[j].to # m.source
    <3>1. /\ i \notin Deleted(m) /\ j \notin Deleted(m) /\ edge[i] # NoEdge
      BY <1>2, <1>6
    <3>2. edge[i].from = edge[j].from /\ edge[i].to = edge[j].to /\ edge[i].kind = edge[j].kind
      BY <1>2, <1>6, <2>3, <3>1 DEF Moved
    <3>3. edge[i] = edge[j]
      BY <1>3, <3>2, RowsEqual
    <3> QED
      BY <1>6, <3>1, <3>3 DEF GraphIntegrity
  <2> QED
    BY <2>1, <2>2, <2>3
<1>7. GraphIntegrity(G)
  BY <1>4, <1>6 DEF GraphIntegrity
<1> QED
  BY <1>7 DEF G

\* What the invariant says of the rows.
LEMMA MergePromises ==
  ASSUME MergeInv
  PROVE  OwnersFollowMerges /\ ChecksSuffice /\ SplitsStayPossible
<1>1. OwnersFollowMerges
  <2>1. ASSUME NEW r \in Records, owner[r] # Nothing
        PROVE  owner[r] \in Places(home.record[r])
    BY <2>1 DEF MergeInv, RowsAtHome, RecordAtHome
  <2>2. ASSUME NEW i \in Edges, Exists(i)
        PROVE  edge[i].from \in Places(home.edge[i].from) /\ edge[i].to \in Places(home.edge[i].to)
    BY <2>2 DEF MergeInv, RowsAtHome, EdgeAtHome
  <2>3. ASSUME NEW i \in Edges, ~Exists(i), home.edge[i] # NoEdge
        PROVE  \E m \in merges :
                 {m.target} = Places(home.edge[i].from) \cap Places(home.edge[i].to)
    <3>1. PICK m \in merges : i \in Deleted(m)
      BY <2>3 DEF MergeInv, RowsAtHome, EdgeAtHome
    <3>2. PICK d \in m.deleted : d.id = i
      BY <3>1 DEF Deleted
    <3>3. Between(d.row, m) /\ home.edge[i].from = d.row.from /\ home.edge[i].to = d.row.to
      BY <3>2 DEF MergeInv, RowsAtHome, LoopKept
    <3>4. m.source # m.target
      BY DEF MergeInv, MergesApart
    <3>5. \A n \in merges : n.source # m.target /\ (n.source = m.source => n = m)
      BY <3>4, PairApart DEF MergeInv
    <3>6. \A v : v \in Places(m.target) <=> v = m.target
      BY <3>5, PlacesAre
    <3>7. m.target \in Places(m.source)
      BY PlacesAre
    <3>8. Places(m.source) \cap Places(m.target) = {m.target}
      BY <3>6, <3>7
    <3> QED
      BY <3>3, <3>8 DEF Between
  <2> QED
    BY <2>1, <2>2, <2>3 DEF OwnersFollowMerges
<1>2. ChecksSuffice
  <2>1. ASSUME NEW x \in Requests, tx[x].pc = "merging"
        PROVE  SingleActive(tx[x].journal) /\ GraphIntegrity(MergedEdges(tx[x].journal))
    <3>1. tx[x].journal \in Journal
      BY <2>1 DEF MergeInv, MergeTypes, RequestsTyped, Busy
    <3>2. JournalStands(tx[x].journal, tx[x].rows)
      BY <2>1 DEF MergeInv, RequestsStand, RequestStands
    <3>3. SingleActive(tx[x].journal)
      BY <3>2 DEF JournalStands, Participating, Pair, SingleActive
    <3> QED
      BY <3>1, <3>2, <3>3, MergeKeepsGraph DEF MergeInv, MergeTypes
  <2>2. ASSUME NEW x \in Requests, tx[x].pc = "splitting"
        PROVE  GraphIntegrity(RestoredEdges(tx[x].journal))
    <3>1. SplitStands(tx[x].journal, tx[x].rows)
      BY <2>2 DEF MergeInv, RequestsStand, RequestStands
    <3> QED
      BY <3>1, SplitFindsAll DEF MergeInv, SplitStands
  <2> QED
    BY <2>1, <2>2 DEF ChecksSuffice
<1>3. SplitsStayPossible
  BY SplitFindsAll DEF MergeInv, SplitsStayPossible
<1> QED
  BY <1>1, <1>2, <1>3

---------------------------------------------------------------------------
(* One place under a merge and under a split *)

LEMMA MergePlaces ==
  ASSUME TypeOK, NEW m \in Journal, m.source # m.target,
         \A e \in Pair(m) : ~Participating(e),
         merges' = merges \cup {m}, status' = [status EXCEPT ![m.source] = "merged"],
         NEW v, NEW b, v \in Places(b)
  PROVE  LET w == Moved(v, m.source, m.target) IN
         /\ (w \in Places(b))'
         /\ v = m.source <=> b = m.source
         /\ At(w, b, m) <=> v = m.source
         /\ \A n \in merges : At(w, b, n) <=> At(v, b, n)
<1>1. \A n \in merges : /\ n.source # m.source /\ n.source # m.target
                        /\ n.target # m.source /\ n.target # m.target
  BY DEF Participating, Pair
<1>2. /\ m.source \in Entities
      /\ status'[m.source] = "merged"
      /\ \A e : e \in Entities /\ e # m.source => status'[e] = status[e]
  BY JournalFields DEF TypeOK
<1>3. CASE b = m.source
  <2>1. v = m.source
    BY <1>1, <1>3, PlacesAre
  <2>2. (m.target \in Places(m.source))'
    BY PlacesNext
  <2> QED
    BY <1>1, <1>3, <2>1, <2>2 DEF At, Moved
<1>4. CASE b # m.source
  <2>1. v # m.source
    BY <1>1, <1>4, PlacesAre
  <2>2. (v \in Places(b))'
    <3>1. CASE \E n \in merges : n.source = b /\ n.target = v
      BY <3>1, PlacesNext
    <3>2. CASE v = b /\ \A n \in merges : n.source # b
      <4>1. \A n \in merges' : n.source # b
        BY <1>4, <3>2
      <4> QED
        BY <3>2, <4>1, PlacesNext
    <3>3. CASE v = b /\ status[b] # "merged" /\ \E n \in merges : n.source = b
      <4>1. b \in Entities
        BY <3>3, JournalFields DEF TypeOK
      <4>2. status'[b] # "merged"
        BY <1>2, <1>4, <3>3, <4>1
      <4> QED
        BY <3>3, <4>2, PlacesNext
    <3> QED
      BY <3>1, <3>2, <3>3, PlacesAre
  <2> QED
    BY <1>4, <2>1, <2>2 DEF At, Moved
<1> QED
  BY <1>3, <1>4

LEMMA SplitPlaces ==
  ASSUME TypeOK, MergesApart, NEW m \in merges, status[m.source] = "merged",
         merges' = merges \ {m}, status' = [status EXCEPT ![m.source] = "active"],
         NEW v, NEW b, v \in Places(b)
  PROVE  LET w == IF At(v, b, m) THEN m.source ELSE v IN
         /\ (w \in Places(b))'
         /\ \A n \in merges' : At(w, b, n) <=> At(v, b, n)
<1>1. \A n \in merges : n # m =>
        /\ n.source # m.source /\ n.source # m.target
        /\ n.target # m.source /\ n.target # m.target
  BY PairApart
<1>2. /\ m \in Journal /\ m.source \in Entities
      /\ \A e : e \in Entities /\ e # m.source => status'[e] = status[e]
  BY JournalFields DEF TypeOK
<1>3. CASE b = m.source
  <2>1. v = m.target
    BY <1>1, <1>3, PlacesAre
  <2>2. (m.source \in Places(m.source))'
    BY <1>1, PlacesNext
  <2> QED
    BY <1>1, <1>3, <2>1, <2>2 DEF At
<1>4. CASE b # m.source
  <2>1. (v \in Places(b))'
    <3>1. CASE \E n \in merges : n.source = b /\ n.target = v
      BY <1>4, <3>1, PlacesNext
    <3>2. CASE v = b /\ \A n \in merges : n.source # b
      BY <3>2, PlacesNext
    <3>3. CASE v = b /\ status[b] # "merged" /\ \E n \in merges : n.source = b
      <4>1. b \in Entities
        BY <3>3, JournalFields DEF TypeOK
      <4>2. status'[b] # "merged"
        BY <1>2, <1>4, <3>3, <4>1
      <4> QED
        BY <3>3, <4>2, PlacesNext
    <3> QED
      BY <3>1, <3>2, <3>3, PlacesAre
  <2> QED
    BY <1>4, <2>1 DEF At
<1> QED
  BY <1>3, <1>4

\* An edit leaves every row in its place.
LEMMA SamePlaces ==
  ASSUME TypeOK, merges' = merges,
         \A e \in Entities : status'[e] = "merged" => status[e] = "merged",
         NEW v, NEW b, v \in Places(b)
  PROVE  (v \in Places(b))'
<1>1. CASE \E n \in merges : n.source = b /\ n.target = v
  BY <1>1, PlacesNext
<1>2. CASE v = b /\ \A n \in merges : n.source # b
  BY <1>2, PlacesNext
<1>3. CASE v = b /\ status[b] # "merged" /\ \E n \in merges : n.source = b
  <2>1. b \in Entities
    BY <1>3, JournalFields DEF TypeOK
  <2> QED
    BY <1>3, <2>1, PlacesNext
<1> QED
  BY <1>1, <1>2, <1>3, PlacesAre

---------------------------------------------------------------------------
(* Requests beside other requests and edits *)

\* A request stands when others change only entities that it has not locked
\* (those in E), and relationships that are not among its rows.
LEMMA Footprint ==
  ASSUME MergeInv, NEW x \in Requests, NEW E, tx'[x] = tx[x],
         Busy(x) => \A e \in Pair(tx[x].journal) : e \notin E,
         \A e \in Entities : e \notin E => status'[e] = status[e],
         \A r \in Records :
           owner'[r] = owner[r] \/ (owner[r] \in E \cup {Nothing} /\ owner'[r] \in E),
         \A i \in Edges :
           \/ edge'[i] = edge[i]
           \/ /\ i \notin tx[x].rows
              /\ edge'[i].from \in E \cup {edge[i].from, Nothing}
              /\ edge'[i].to \in E \cup {edge[i].to, Nothing},
         \A n \in merges' : n \in merges \/ Pair(n) \subseteq E,
         \A n \in merges : n \in merges' \/ Pair(n) \subseteq E
  PROVE  RequestStands(x)'
<1>1. PICK m, rows : m = tx[x].journal /\ rows = tx[x].rows
  OBVIOUS
<1>2. tx'[x].journal = m /\ tx'[x].rows = rows /\ tx'[x].pc = tx[x].pc
  BY <1>1
<1>3. ASSUME Busy(x)
      PROVE  /\ m \in Journal /\ m.source \in Entities /\ m.target \in Entities
             /\ m.source \notin E /\ m.target \notin E
             /\ m.source # Nothing /\ m.target # Nothing
  <2>1. m \in Journal
    BY <1>1, <1>3 DEF MergeInv, MergeTypes, RequestsTyped
  <2>2. m.source \in Entities /\ m.target \in Entities
    BY <2>1, JournalFields
  <2>3. m.source \notin E /\ m.target \notin E
    BY <1>1, <1>3 DEF Pair
  <2> QED
    BY <2>1, <2>2, <2>3, MergeAssumption
<1>4. ASSUME tx[x].pc = "merging"
      PROVE  JournalStands(m, rows)'
  <2>1. JournalStands(m, rows)
    BY <1>1, <1>4 DEF MergeInv, RequestsStand, RequestStands
  <2>2. /\ m \in Journal /\ m.source \in Entities /\ m.target \in Entities
        /\ m.source \notin E /\ m.target \notin E
        /\ m.source # Nothing /\ m.target # Nothing
    BY <1>3, <1>4 DEF Busy
  <2>3. \A e \in Pair(m) : status'[e] = "active" /\ ~(Participating(e)')
    <3>1. \A e \in Pair(m) : status'[e] = "active"
      BY <2>1, <2>2 DEF JournalStands, Pair
    <3>2. ASSUME NEW e \in Pair(m), NEW n \in merges', e \in Pair(n)
          PROVE  FALSE
      <4>1. n \in merges
        BY <2>2, <3>2 DEF Pair
      <4> QED
        BY <2>1, <3>2, <4>1 DEF JournalStands, Participating, Pair
    <3> QED
      BY <3>1, <3>2 DEF Participating, Pair
  <2>4. \A r \in Records : r \in m.records <=> owner'[r] = m.source
    <3>1. ASSUME NEW r \in Records
          PROVE  owner'[r] = m.source <=> owner[r] = m.source
      BY <2>2
    <3> QED
      BY <2>1, <3>1 DEF JournalStands
  <2>5. ASSUME NEW i \in Edges
        PROVE  /\ i \in m.froms <=> edge'[i].from = m.source /\ edge'[i].to # m.target
               /\ i \in m.tos <=> edge'[i].to = m.source /\ edge'[i].from # m.target
               /\ i \in Deleted(m) <=> Between(edge'[i], m)
               /\ i \in rows <=> Touches(edge'[i], m)
               /\ i \in rows => edge'[i] = edge[i]
    <3>1. /\ i \in m.froms <=> edge[i].from = m.source /\ edge[i].to # m.target
          /\ i \in m.tos <=> edge[i].to = m.source /\ edge[i].from # m.target
          /\ i \in Deleted(m) <=> Between(edge[i], m)
          /\ i \in rows <=> Touches(edge[i], m)
      BY <2>1 DEF JournalStands
    <3>2. CASE edge'[i] = edge[i]
      BY <3>1, <3>2
    <3>3. CASE /\ i \notin rows
               /\ edge'[i].from \in E \cup {edge[i].from, Nothing}
               /\ edge'[i].to \in E \cup {edge[i].to, Nothing}
      <4>1. ~Touches(edge[i], m) /\ ~Touches(edge'[i], m)
        BY <2>2, <3>1, <3>3 DEF Touches, Pair
      <4> QED
        BY <3>1, <3>3, <4>1 DEF Touches, Pair, Between
    <3> QED
      BY <1>1, <3>2, <3>3
  <2>6. ASSUME NEW d \in m.deleted
        PROVE  d.row = edge'[d.id]
    <3>1. d.id \in Edges /\ d.id \in Deleted(m)
      BY <2>2, JournalFields DEF Deleted
    <3>2. d.id \in rows
      <4>1. Between(edge[d.id], m)
        BY <2>1, <3>1 DEF JournalStands
      <4>2. Touches(edge[d.id], m)
        BY <4>1 DEF Between, Touches, Pair
      <4> QED
        BY <2>1, <3>1, <4>2 DEF JournalStands
    <3> QED
      BY <2>1, <2>5, <3>1, <3>2 DEF JournalStands
  <2>7. MovesApart(m, rows)'
    <3>1. rows \subseteq Edges
      BY <1>1 DEF MergeInv, MergeTypes, TypeOK, Request
    <3>2. \A i \in rows : edge'[i] = edge[i]
      BY <2>5, <3>1
    <3> QED
      BY <2>1, <3>2 DEF JournalStands, MovesApart, Deleted
  <2>8. \A i \in Edges : (i \in Deleted(m))' <=> i \in Deleted(m)
    BY DEF Deleted
  <2> QED
    BY <2>1, <2>3, <2>4, <2>5, <2>6, <2>7, <2>8 DEF JournalStands
<1>5. ASSUME tx[x].pc = "splitting"
      PROVE  SplitStands(m, rows)'
  <2>1. SplitStands(m, rows)
    BY <1>1, <1>5 DEF MergeInv, RequestsStand, RequestStands
  <2>2. /\ m.source \in Entities /\ m.source \notin E
        /\ m.target \in Entities /\ m.target \notin E
    BY <1>3, <1>5 DEF Busy
  <2>3. m \in merges' /\ status'[m.source] = "merged" /\ status'[m.target] = "active"
    BY <2>1, <2>2 DEF SplitStands, Pair
  <2>4. rows \subseteq Edges
    BY <1>1 DEF MergeInv, MergeTypes, TypeOK, Request
  <2>5. \A i \in rows : edge'[i] = edge[i]
    BY <1>1, <2>4
  <2> QED
    BY <2>1, <2>3, <2>5 DEF SplitStands, Exists
<1> QED
  BY <1>2, <1>4, <1>5 DEF RequestStands

LEMMA BecomesQuiet ==
  ASSUME MergeInv, NEW x \in Requests, NEW n \in Request, tx' = [tx EXCEPT ![x] = n],
         n.pc \notin {"merging", "splitting"}, n.journal = NoJournal, n.rows = {},
         n.status # "merged", n.pc = "mapping" => n.entity \in Entities
  PROVE  /\ tx' \in [Requests -> Request]
         /\ RequestsTyped' /\ LocksApart' /\ RequestStands(x)'
         /\ \A y \in Requests : y # x => tx'[y] = tx[y]
<1>1. tx \in [Requests -> Request] /\ RequestsTyped /\ LocksApart
  BY DEF MergeInv, MergeTypes, TypeOK
<1>2. /\ tx' \in [Requests -> Request] /\ tx'[x] = n
      /\ \A y \in Requests : y # x => tx'[y] = tx[y]
  BY <1>1
<1>3. RequestsTyped'
  <2>1. ASSUME NEW y \in Requests
        PROVE  /\ Busy(y)' => tx'[y].journal \in Journal
               /\ ~Busy(y)' => tx'[y].journal = NoJournal /\ tx'[y].rows = {}
               /\ tx'[y].pc = "mapping" => tx'[y].entity \in Entities
               /\ tx'[y].status # "merged"
    <3>1. CASE y = x
      BY <1>2, <3>1 DEF Busy
    <3>2. CASE y # x
      BY <1>1, <1>2, <3>2 DEF RequestsTyped, Busy
    <3> QED
      BY <3>1, <3>2
  <2> QED
    BY <2>1 DEF RequestsTyped
<1>4. LocksApart'
  <2>1. ASSUME NEW y \in Requests, NEW z \in Requests, y # z
        PROVE  /\ tx'[y].rows \cap tx'[z].rows = {}
               /\ Busy(y)' /\ Busy(z)' => Pair(tx'[y].journal) \cap Pair(tx'[z].journal) = {}
    <3>1. CASE y = x \/ z = x
      BY <1>2, <3>1 DEF Busy
    <3>2. CASE y # x /\ z # x
      BY <1>1, <1>2, <2>1, <3>2 DEF LocksApart, Busy
    <3> QED
      BY <3>1, <3>2
  <2> QED
    BY <2>1 DEF LocksApart, Pair
<1>5. RequestStands(x)'
  BY <1>2 DEF RequestStands
<1> QED
  BY <1>2, <1>3, <1>4, <1>5

LEMMA BecomesBusy ==
  ASSUME MergeInv, NEW x \in Requests, NEW p \in {"merging", "splitting"},
         NEW m \in Journal, NEW rows \in SUBSET Edges,
         Set(x, [Idle EXCEPT !.pc = p, !.journal = m, !.rows = rows]),
         EntityFree(m.source, x), EntityFree(m.target, x), \A i \in rows : RowFree(i, x)
  PROVE  /\ tx' \in [Requests -> Request]
         /\ RequestsTyped' /\ LocksApart'
         /\ tx'[x].pc = p /\ tx'[x].journal = m /\ tx'[x].rows = rows
         /\ \A y \in Requests : y # x => tx'[y] = tx[y]
<1>1. tx \in [Requests -> Request] /\ RequestsTyped /\ LocksApart
  BY DEF MergeInv, MergeTypes, TypeOK
<1>2. PICK n \in Request : /\ tx' = [tx EXCEPT ![x] = n]
                           /\ n.pc = p /\ n.journal = m /\ n.rows = rows /\ n.status = "active"
  <2>1. PICK n : n = [Idle EXCEPT !.pc = p, !.journal = m, !.rows = rows]
    OBVIOUS
  <2>2. /\ n \in Request /\ n.pc = p /\ n.journal = m /\ n.rows = rows
        /\ n.status = "active"
    BY <2>1 DEF Idle, Request, Status, Maybe
  <2>3. tx' = [tx EXCEPT ![x] = n]
    BY <2>1 DEF Set
  <2> QED
    BY <2>2, <2>3
<1>3. /\ tx' \in [Requests -> Request] /\ tx'[x] = n
      /\ \A y \in Requests : y # x => tx'[y] = tx[y]
  BY <1>1, <1>2
<1>4. RequestsTyped'
  <2>1. ASSUME NEW y \in Requests
        PROVE  /\ Busy(y)' => tx'[y].journal \in Journal
               /\ ~Busy(y)' => tx'[y].journal = NoJournal /\ tx'[y].rows = {}
               /\ tx'[y].pc = "mapping" => tx'[y].entity \in Entities
               /\ tx'[y].status # "merged"
    <3>1. CASE y = x
      BY <1>2, <1>3, <3>1 DEF Busy
    <3>2. CASE y # x
      BY <1>1, <1>3, <3>2 DEF RequestsTyped, Busy
    <3> QED
      BY <3>1, <3>2
  <2> QED
    BY <2>1 DEF RequestsTyped
<1>5. ASSUME NEW y \in Requests, y # x
      PROVE  rows \cap tx[y].rows = {} /\ Pair(m) \cap Pair(tx[y].journal) = {}
  BY <1>5 DEF EntityFree, RowFree, Pair
<1>6. LocksApart'
  <2>1. ASSUME NEW y \in Requests, NEW z \in Requests, y # z
        PROVE  /\ tx'[y].rows \cap tx'[z].rows = {}
               /\ Busy(y)' /\ Busy(z)' => Pair(tx'[y].journal) \cap Pair(tx'[z].journal) = {}
    <3>1. CASE y = x
      <4>1. tx'[y].rows = rows /\ tx'[y].journal = m /\ tx'[z] = tx[z] /\ z # x
        BY <1>2, <1>3, <2>1, <3>1
      <4> QED
        BY <1>5, <4>1
    <3>2. CASE z = x
      <4>1. tx'[z].rows = rows /\ tx'[z].journal = m /\ tx'[y] = tx[y] /\ y # x
        BY <1>2, <1>3, <2>1, <3>2
      <4> QED
        BY <1>5, <4>1
    <3>3. CASE y # x /\ z # x
      BY <1>1, <1>3, <2>1, <3>3 DEF LocksApart, Busy
    <3> QED
      BY <3>1, <3>2, <3>3
  <2> QED
    BY <2>1 DEF LocksApart, Pair
<1> QED
  BY <1>2, <1>3, <1>4, <1>6

\* A request that ends leaves its locks to nobody.
LEMMA BecomesIdle ==
  ASSUME MergeInv, NEW x \in Requests, Set(x, Idle)
  PROVE  /\ tx' \in [Requests -> Request]
         /\ RequestsTyped' /\ LocksApart' /\ RequestStands(x)'
         /\ \A y \in Requests : y # x => tx'[y] = tx[y]
<1>1. PICK n \in Request : /\ n = Idle /\ n.pc = "idle" /\ n.journal = NoJournal
                           /\ n.rows = {} /\ n.status = "active"
  BY IdleRequest
<1>2. tx' = [tx EXCEPT ![x] = n]
  BY <1>1 DEF Set
<1> QED
  BY <1>1, <1>2, BecomesQuiet

\* A request that ends or that only takes locks changes nothing for the others.
LEMMA OthersStand ==
  ASSUME MergeInv, NEW x \in Requests, \A y \in Requests : y # x => tx'[y] = tx[y],
         UNCHANGED <<status, owner, edge, merges>>, RequestStands(x)'
  PROVE  RequestsStand'
<1>1. ASSUME NEW y \in Requests, y # x
      PROVE  RequestStands(y)'
  <2> DEFINE E == {}
  <2>0. status' = status /\ owner' = owner /\ edge' = edge /\ merges' = merges
    OBVIOUS
  <2>1. /\ \A e \in Pair(tx[y].journal) : e \notin E
        /\ \A e \in Entities : e \notin E => status'[e] = status[e]
        /\ \A r \in Records :
             owner'[r] = owner[r] \/ (owner[r] \in E \cup {Nothing} /\ owner'[r] \in E)
        /\ \A i \in Edges :
             \/ edge'[i] = edge[i]
             \/ /\ i \notin tx[y].rows
                /\ edge'[i].from \in E \cup {edge[i].from, Nothing}
                /\ edge'[i].to \in E \cup {edge[i].to, Nothing}
        /\ \A n \in merges' : n \in merges \/ Pair(n) \subseteq E
        /\ \A n \in merges : n \in merges' \/ Pair(n) \subseteq E
    BY <2>0
  <2>2. tx'[y] = tx[y]
    BY <1>1
  <2> HIDE DEF E
  <2> QED
    BY <2>1, <2>2, Footprint
<1> QED
  BY <1>1 DEF RequestsStand

---------------------------------------------------------------------------
(* Rows beside edits *)

\* No edit makes an entity a tombstone.
NoTombstone == \A e \in Entities : status'[e] = "merged" => status[e] = "merged"

LEMMA SameRecord ==
  ASSUME MergeInv, merges' = merges, NoTombstone, NEW r \in Records,
         owner'[r] = owner[r], home'.record[r] = home.record[r]
  PROVE  RecordAtHome(r)'
<1>1. PICK v, b : v = owner[r] /\ b = home.record[r]
  OBVIOUS
<1>2. RecordAtHome(r)
  BY DEF MergeInv, RowsAtHome
<1>3. v # Nothing => v \in Places(b)
  BY <1>1, <1>2 DEF RecordAtHome
<1>4. v # Nothing => (v \in Places(b))'
  BY <1>3, SamePlaces DEF MergeInv, MergeTypes, NoTombstone
<1>5. v # Nothing => (owner[r] \in Places(home.record[r]))'
  BY <1>1, <1>4
<1> QED
  BY <1>1, <1>2, <1>5 DEF RecordAtHome, At

LEMMA SameEdge ==
  ASSUME MergeInv, merges' = merges, NoTombstone, NEW i \in Edges,
         edge'[i].from = edge[i].from, edge'[i].to = edge[i].to,
         Exists(i)' <=> Exists(i), home'.edge[i] = home.edge[i]
  PROVE  EdgeAtHome(i)'
<1>1. PICK f, t, b : f = edge[i].from /\ t = edge[i].to /\ b = home.edge[i]
  OBVIOUS
<1>2. EdgeAtHome(i)
  BY DEF MergeInv, RowsAtHome
<1>3. Exists(i) => f \in Places(b.from) /\ t \in Places(b.to)
  BY <1>1, <1>2 DEF EdgeAtHome
<1>4. Exists(i) => (f \in Places(b.from))' /\ (t \in Places(b.to))'
  BY <1>3, SamePlaces DEF MergeInv, MergeTypes, NoTombstone
<1>5. Exists(i) =>
        (edge[i].from \in Places(home.edge[i].from) /\ edge[i].to \in Places(home.edge[i].to))'
  BY <1>1, <1>4
<1> QED
  BY <1>1, <1>2, <1>5 DEF EdgeAtHome, At, Deleted

LEMMA SameLoops ==
  ASSUME MergeInv, merges' = merges,
         \A m \in merges : \A i \in Deleted(m) :
           edge'[i] = edge[i] /\ home'.edge[i] = home.edge[i]
  PROVE  \A m \in merges' : \A d \in m.deleted : LoopKept(m, d)'
<1> SUFFICES ASSUME NEW m \in merges, NEW d \in m.deleted
             PROVE  LoopKept(m, d)'
  OBVIOUS
<1>1. LoopKept(m, d)
  BY DEF MergeInv, RowsAtHome
<1>2. edge'[d.id] = edge[d.id] /\ home'.edge[d.id] = home.edge[d.id]
  BY DEF Deleted
<1> QED
  BY <1>1, <1>2 DEF LoopKept, Exists

LEMMA SameRows ==
  ASSUME MergeInv, UNCHANGED <<owner, edge, merges, home>>, NoTombstone
  PROVE  MergesApart' /\ RowsAtHome' /\ GraphIntegrity(edge)'
<1>1. MergesApart' /\ GraphIntegrity(edge)'
  BY DEF MergeInv, MergesApart, GraphIntegrity
<1>2. \A r \in Records : RecordAtHome(r)'
  BY SameRecord
<1>3. \A i \in Edges : EdgeAtHome(i)'
  BY SameEdge DEF Exists
<1>4. \A m \in merges' : \A d \in m.deleted : LoopKept(m, d)'
  BY SameLoops
<1> QED
  BY <1>1, <1>2, <1>3, <1>4 DEF RowsAtHome

---------------------------------------------------------------------------
(* Edits *)

LEMMA RecordHome ==
  ASSUME NEW h \in Homes, NEW f \in [Records -> Maybe]
  PROVE  LET new == [h EXCEPT !.record = f] IN
         new \in Homes /\ new.edge = h.edge /\ new.record = f
BY DEF Homes

LEMMA EdgeHome ==
  ASSUME NEW h \in Homes, NEW f \in [Edges -> EdgeRows]
  PROVE  LET new == [h EXCEPT !.edge = f] IN
         new \in Homes /\ new.record = h.record /\ new.edge = f
BY DEF Homes

LEMMA RowsExist ==
  ASSUME MergeInv, NEW x \in Requests, NEW i \in tx[x].rows
  PROVE  Exists(i) /\ i \in Edges
<1>1. i \in Edges
  BY DEF MergeInv, MergeTypes, TypeOK, Request
<1>2. CASE tx[x].pc = "merging"
  <2>1. JournalStands(tx[x].journal, tx[x].rows) /\ tx[x].journal \in Journal
    BY <1>2 DEF MergeInv, RequestsStand, RequestStands, MergeTypes, RequestsTyped, Busy
  <2>2. Touches(edge[i], tx[x].journal)
    BY <1>1, <2>1 DEF JournalStands
  <2>3. edge[i].from # Nothing \/ edge[i].to # Nothing
    BY <2>1, <2>2, JournalFields, MergeAssumption DEF Touches, Pair
  <2> QED
    BY <1>1, <2>3 DEF Exists, NoEdge
<1>3. CASE tx[x].pc = "splitting"
  BY <1>1, <1>3 DEF MergeInv, RequestsStand, RequestStands, SplitStands
<1>4. CASE ~Busy(x)
  BY <1>4 DEF MergeInv, MergeTypes, RequestsTyped
<1> QED
  BY <1>2, <1>3, <1>4 DEF Busy

\* An edit waits for who has locked its entities (those in E) or its row.
LEMMA EditStands ==
  ASSUME MergeInv, UNCHANGED <<tx, merges, status>>, NEW E,
         \A x \in Requests : \A e \in Pair(tx[x].journal) : e \notin E,
         \A r \in Records :
           owner'[r] = owner[r] \/ (owner[r] \in E \cup {Nothing} /\ owner'[r] \in E),
         \A i \in Edges :
           \/ edge'[i] = edge[i]
           \/ /\ \A x \in Requests : i \notin tx[x].rows
              /\ edge'[i].from \in E \cup {edge[i].from, Nothing}
              /\ edge'[i].to \in E \cup {edge[i].to, Nothing}
  PROVE  RequestsTyped' /\ LocksApart' /\ RequestsStand'
<1>1. tx' = tx /\ merges' = merges /\ status' = status
  OBVIOUS
<1>2. RequestsTyped' /\ LocksApart'
  BY <1>1 DEF MergeInv, MergeTypes, RequestsTyped, LocksApart, Busy, Pair
<1>3. ASSUME NEW x \in Requests
      PROVE  RequestStands(x)'
  <2>1. /\ tx'[x] = tx[x]
        /\ Busy(x) => \A e \in Pair(tx[x].journal) : e \notin E
        /\ \A e \in Entities : e \notin E => status'[e] = status[e]
        /\ \A i \in Edges :
           \/ edge'[i] = edge[i]
           \/ /\ i \notin tx[x].rows
              /\ edge'[i].from \in E \cup {edge[i].from, Nothing}
              /\ edge'[i].to \in E \cup {edge[i].to, Nothing}
        /\ \A n \in merges' : n \in merges \/ Pair(n) \subseteq E
        /\ \A n \in merges : n \in merges' \/ Pair(n) \subseteq E
    BY <1>1
  <2> QED
    BY <2>1, Footprint
<1> QED
  BY <1>2, <1>3 DEF RequestsStand

LEMMA FreeForEdits ==
  /\ \A e : EntityFree(e, Nothing) => \A x \in Requests : e \notin Pair(tx[x].journal)
  /\ \A i : RowFree(i, Nothing) => \A x \in Requests : i \notin tx[x].rows
BY MergeAssumption DEF EntityFree, RowFree, Pair

LEMMA AttachStep ==
  ASSUME MergeInv, NEW r \in Records, NEW e \in Entities, Attach(r, e)
  PROVE  MergeInv'
<1>1. /\ owner[r] = Nothing /\ status[e] = "active"
      /\ \A x \in Requests : e \notin Pair(tx[x].journal)
  BY FreeForEdits DEF Attach, OwnerAccepted
<1>2. /\ owner' = [owner EXCEPT ![r] = e] /\ home' = [home EXCEPT !.record[r] = e]
      /\ status' = status /\ mark' = mark /\ edge' = edge /\ merges' = merges /\ tx' = tx
  BY DEF Attach
<1>3. /\ owner \in [Records -> Maybe] /\ home \in Homes /\ e \in Maybe
  BY DEF MergeInv, MergeTypes, TypeOK, Maybe
<1>4. /\ owner' \in [Records -> Maybe] /\ owner'[r] = e
      /\ \A s \in Records : s # r => owner'[s] = owner[s]
  BY <1>2, <1>3
<1>5. /\ home' \in Homes /\ home'.edge = home.edge /\ home'.record[r] = e
      /\ \A s \in Records : s # r => home'.record[s] = home.record[s]
  <2>1. PICK f : f = [home.record EXCEPT ![r] = e]
    OBVIOUS
  <2>2. /\ f \in [Records -> Maybe] /\ f[r] = e
        /\ \A s \in Records : s # r => f[s] = home.record[s]
    BY <1>3, <2>1 DEF Homes
  <2>3. home' = [home EXCEPT !.record = f]
    BY <1>2, <2>1
  <2>4. home' \in Homes /\ home'.edge = home.edge /\ home'.record = f
    BY <1>3, <2>2, <2>3, RecordHome
  <2> QED
    BY <2>2, <2>4
<1>6. RequestsTyped' /\ LocksApart' /\ RequestsStand'
  <2> DEFINE E == {e}
  <2>1. /\ \A x \in Requests : \A f \in Pair(tx[x].journal) : f \notin E
        /\ \A s \in Records :
             owner'[s] = owner[s] \/ (owner[s] \in E \cup {Nothing} /\ owner'[s] \in E)
    BY <1>1, <1>4
  <2> HIDE DEF E
  <2> QED
    BY <1>2, <2>1, EditStands
<1>7. TypeOK'
  <2>1. home'.record \in [Records -> Maybe] /\ home'.edge \in [Edges -> EdgeRow \cup {NoEdge}]
    BY <1>5 DEF Homes, EdgeRows
  <2> QED
    BY <1>2, <1>4, <2>1 DEF MergeInv, MergeTypes, TypeOK
<1>8. MergeTypes'
  BY <1>5, <1>6, <1>7 DEF MergeTypes
<1>9. NoTombstone
  BY <1>2 DEF NoTombstone
<1>10. RecordAtHome(r)'
  <2>1. (e \in Places(e))'
    BY <1>1, <1>2, PlacesNext
  <2>2. (owner[r] \in Places(home.record[r]))'
    BY <1>4, <1>5, <2>1
  <2>3. \A m \in merges : r \notin m.records /\ m.source # m.target
    <3>1. ASSUME NEW m \in merges
          PROVE  m.target # Nothing /\ m.source # m.target
      BY <3>1, JournalFields, MergeAssumption
         DEF MergeInv, MergesApart, MergeTypes, TypeOK
    <3> QED
      BY <1>1, <3>1 DEF MergeInv, RowsAtHome, RecordAtHome, At
  <2>4. e # Nothing
    BY MergeAssumption
  <2> QED
    BY <1>2, <1>4, <1>5, <2>2, <2>3, <2>4 DEF RecordAtHome, At
<1>11. \A s \in Records : RecordAtHome(s)'
  <2>1. ASSUME NEW s \in Records, s # r
        PROVE  RecordAtHome(s)'
    BY <1>2, <1>4, <1>5, <1>9, <2>1, SameRecord
  <2> QED
    BY <1>10, <2>1
<1>12. \A i \in Edges : EdgeAtHome(i)'
  BY <1>2, <1>5, <1>9, SameEdge DEF Exists
<1>13. \A m \in merges' : \A d \in m.deleted : LoopKept(m, d)'
  BY <1>2, <1>5, SameLoops
<1>14. MergesApart' /\ GraphIntegrity(edge)'
  BY <1>2 DEF MergeInv, MergesApart, GraphIntegrity
<1> QED
  BY <1>6, <1>8, <1>11, <1>12, <1>13, <1>14 DEF MergeInv, RowsAtHome

LEMMA CreateStep ==
  ASSUME MergeInv, NEW i \in Edges, NEW row \in EdgeRow, CreateRelationship(i, row)
  PROVE  MergeInv'
<1>1. /\ ~Exists(i) /\ \A m \in merges : i \notin m.froms \cup m.tos \cup Deleted(m)
      /\ status[row.from] = "active" /\ status[row.to] = "active"
      /\ GraphIntegrity([edge EXCEPT ![i] = row])
  BY DEF CreateRelationship, Fresh, OwnerAccepted
<1>2. \A x \in Requests : \A e \in Pair(tx[x].journal) : e \notin {row.from, row.to}
  BY FreeForEdits DEF CreateRelationship, OwnerAccepted
<1>3. /\ edge' = [edge EXCEPT ![i] = row] /\ home' = [home EXCEPT !.edge[i] = row]
      /\ status' = status /\ mark' = mark /\ owner' = owner /\ merges' = merges /\ tx' = tx
  BY DEF CreateRelationship
<1>4. /\ edge \in [Edges -> EdgeRows] /\ home \in Homes /\ row \in EdgeRows
      /\ row.from \in Entities /\ row.to \in Entities /\ row # NoEdge
  <2>1. row.from \in Entities /\ row.to \in Entities
    BY DEF EdgeRow
  <2>2. row # NoEdge
    BY <2>1, MergeAssumption DEF NoEdge
  <2> QED
    BY <2>1, <2>2 DEF MergeInv, MergeTypes, TypeOK, EdgeRows
<1>5. /\ edge' \in [Edges -> EdgeRows] /\ edge'[i] = row
      /\ \A j \in Edges : j # i => edge'[j] = edge[j]
  BY <1>3, <1>4
<1>6. /\ home' \in Homes /\ home'.record = home.record /\ home'.edge[i] = row
      /\ \A j \in Edges : j # i => home'.edge[j] = home.edge[j]
  <2>1. PICK f : f = [home.edge EXCEPT ![i] = row]
    OBVIOUS
  <2>2. /\ f \in [Edges -> EdgeRows] /\ f[i] = row
        /\ \A j \in Edges : j # i => f[j] = home.edge[j]
    BY <1>4, <2>1 DEF Homes
  <2>3. home' = [home EXCEPT !.edge = f]
    BY <1>3, <2>1
  <2>4. home' \in Homes /\ home'.record = home.record /\ home'.edge = f
    BY <1>4, <2>2, <2>3, EdgeHome
  <2> QED
    BY <2>2, <2>4
<1>7. RequestsTyped' /\ LocksApart' /\ RequestsStand'
  <2> DEFINE E == {row.from, row.to}
  <2>1. \A x \in Requests : i \notin tx[x].rows
    BY <1>1, RowsExist
  <2>2. /\ \A x \in Requests : \A e \in Pair(tx[x].journal) : e \notin E
        /\ \A r \in Records :
             owner'[r] = owner[r] \/ (owner[r] \in E \cup {Nothing} /\ owner'[r] \in E)
        /\ \A j \in Edges :
             \/ edge'[j] = edge[j]
             \/ /\ \A x \in Requests : j \notin tx[x].rows
                /\ edge'[j].from \in E \cup {edge[j].from, Nothing}
                /\ edge'[j].to \in E \cup {edge[j].to, Nothing}
    BY <1>2, <1>3, <1>5, <2>1
  <2> HIDE DEF E
  <2> QED
    BY <1>3, <2>2, EditStands
<1>8. MergeTypes'
  <2>1. /\ home'.record \in [Records -> Maybe] /\ home'.edge \in [Edges -> EdgeRow \cup {NoEdge}]
        /\ edge' \in [Edges -> EdgeRow \cup {NoEdge}]
    BY <1>5, <1>6 DEF Homes, EdgeRows
  <2>2. TypeOK'
    BY <1>3, <2>1 DEF MergeInv, MergeTypes, TypeOK
  <2> QED
    BY <1>6, <1>7, <2>2 DEF MergeTypes
<1>9. NoTombstone
  BY <1>3 DEF NoTombstone
<1>10. EdgeAtHome(i)'
  <2>1. (row.from \in Places(row.from))' /\ (row.to \in Places(row.to))'
    BY <1>1, <1>3, PlacesNext
  <2>2. \A m \in merges : m.source # m.target
    BY DEF MergeInv, MergesApart
  <2>3. Exists(i)'
    BY <1>4, <1>5 DEF Exists
  <2>4. (/\ home.edge[i] # NoEdge
         /\ edge[i].from \in Places(home.edge[i].from)
         /\ edge[i].to \in Places(home.edge[i].to))'
    BY <1>4, <1>5, <1>6, <2>1
  <2>5. \A m \in merges' :
          /\ i \in m.froms <=> At(edge'[i].from, home'.edge[i].from, m)
          /\ i \in m.tos <=> At(edge'[i].to, home'.edge[i].to, m)
    BY <1>1, <1>3, <1>5, <1>6, <2>2 DEF At
  <2> QED
    BY <2>3, <2>4, <2>5 DEF EdgeAtHome, At
<1>11. \A j \in Edges : EdgeAtHome(j)'
  <2>1. ASSUME NEW j \in Edges, j # i
        PROVE  EdgeAtHome(j)'
    BY <1>3, <1>5, <1>6, <1>9, <2>1, SameEdge DEF Exists
  <2> QED
    BY <1>10, <2>1
<1>12. \A r \in Records : RecordAtHome(r)'
  BY <1>3, <1>6, <1>9, SameRecord
<1>13. \A m \in merges' : \A d \in m.deleted : LoopKept(m, d)'
  <2>1. ASSUME NEW m \in merges, NEW j \in Deleted(m)
        PROVE  edge'[j] = edge[j] /\ home'.edge[j] = home.edge[j]
    <3>1. m \in Journal
      BY DEF MergeInv, MergeTypes, TypeOK
    <3>2. j \in Edges /\ j # i
      BY <1>1, <3>1, JournalFields DEF Deleted
    <3> QED
      BY <1>5, <1>6, <3>2
  <2> QED
    BY <1>3, <2>1, SameLoops
<1>14. MergesApart' /\ GraphIntegrity(edge)'
  BY <1>1, <1>3 DEF MergeInv, MergesApart, GraphIntegrity
<1> QED
  BY <1>7, <1>8, <1>11, <1>12, <1>13, <1>14 DEF MergeInv, RowsAtHome

LEMMA RetypeStep ==
  ASSUME MergeInv, NEW i \in Edges, NEW k \in Kinds, UpdateRelationship(i, k)
  PROVE  MergeInv'
<1>1. /\ Exists(i) /\ \A x \in Requests : i \notin tx[x].rows
      /\ GraphIntegrity([edge EXCEPT ![i].kind = k])
  BY FreeForEdits DEF UpdateRelationship
<1>2. /\ edge' = [edge EXCEPT ![i].kind = k] /\ status' = status /\ mark' = mark
      /\ owner' = owner /\ merges' = merges /\ tx' = tx /\ home' = home
  BY DEF UpdateRelationship
<1>3. edge \in [Edges -> EdgeRows]
  BY DEF MergeInv, MergeTypes, TypeOK, EdgeRows
<1>4. /\ edge' \in [Edges -> EdgeRows]
      /\ edge'[i].from = edge[i].from /\ edge'[i].to = edge[i].to /\ edge'[i] # NoEdge
      /\ \A j \in Edges : j # i => edge'[j] = edge[j]
  <2>1. PICK row : row = edge[i]
    OBVIOUS
  <2>2. row \in EdgeRow
    BY <1>1, <1>3, <2>1 DEF Exists, EdgeRows
  <2>3. PICK new : new = [row EXCEPT !.kind = k]
    OBVIOUS
  <2>4. new \in EdgeRow /\ new.from = row.from /\ new.to = row.to
    BY <2>2, <2>3, RowRetyped
  <2>5. new # NoEdge
    <3>1. new.from \in Entities
      BY <2>4 DEF EdgeRow
    <3> QED
      BY <3>1, MergeAssumption DEF NoEdge
  <2>6. edge' = [edge EXCEPT ![i] = new]
    BY <1>2, <2>1, <2>3
  <2> QED
    BY <1>3, <2>1, <2>4, <2>5, <2>6 DEF EdgeRows
<1>5. RequestsTyped' /\ LocksApart' /\ RequestsStand'
  <2> DEFINE E == {}
  <2>1. /\ \A x \in Requests : \A e \in Pair(tx[x].journal) : e \notin E
        /\ \A r \in Records :
             owner'[r] = owner[r] \/ (owner[r] \in E \cup {Nothing} /\ owner'[r] \in E)
        /\ \A j \in Edges :
             \/ edge'[j] = edge[j]
             \/ /\ \A x \in Requests : j \notin tx[x].rows
                /\ edge'[j].from \in E \cup {edge[j].from, Nothing}
                /\ edge'[j].to \in E \cup {edge[j].to, Nothing}
    BY <1>1, <1>2, <1>4
  <2> HIDE DEF E
  <2> QED
    BY <1>2, <2>1, EditStands
<1>6. MergeTypes'
  <2>1. edge' \in [Edges -> EdgeRow \cup {NoEdge}]
    BY <1>4 DEF EdgeRows
  <2>2. TypeOK'
    BY <1>2, <2>1 DEF MergeInv, MergeTypes, TypeOK
  <2> QED
    BY <1>2, <1>5, <2>2 DEF MergeInv, MergeTypes
<1>7. NoTombstone
  BY <1>2 DEF NoTombstone
<1>8. \A j \in Edges : EdgeAtHome(j)'
  <2>1. ASSUME NEW j \in Edges
        PROVE  /\ edge'[j].from = edge[j].from /\ edge'[j].to = edge[j].to
               /\ Exists(j)' <=> Exists(j)
    BY <1>1, <1>4 DEF Exists
  <2> QED
    BY <1>2, <1>7, <2>1, SameEdge
<1>9. \A r \in Records : RecordAtHome(r)'
  BY <1>2, <1>7, SameRecord
<1>10. \A m \in merges' : \A d \in m.deleted : LoopKept(m, d)'
  <2>1. ASSUME NEW m \in merges, NEW j \in Deleted(m)
        PROVE  edge'[j] = edge[j] /\ home'.edge[j] = home.edge[j]
    <3>1. m \in Journal
      BY DEF MergeInv, MergeTypes, TypeOK
    <3>2. j \in Edges /\ j # i
      BY <1>1, <3>1, JournalFields DEF Deleted, MergeInv, RowsAtHome, LoopKept
    <3> QED
      BY <1>2, <1>4, <3>2
  <2> QED
    BY <1>2, <2>1, SameLoops
<1>11. MergesApart' /\ GraphIntegrity(edge)'
  BY <1>1, <1>2 DEF MergeInv, MergesApart, GraphIntegrity
<1> QED
  BY <1>5, <1>6, <1>8, <1>9, <1>10, <1>11 DEF MergeInv, RowsAtHome

LEMMA DeleteStep ==
  ASSUME MergeInv, NEW i \in Edges, DeleteRelationship(i)
  PROVE  MergeInv'
<1>1. Exists(i) /\ \A x \in Requests : i \notin tx[x].rows
  BY FreeForEdits DEF DeleteRelationship
<1>2. /\ edge' = [edge EXCEPT ![i] = NoEdge] /\ home' = [home EXCEPT !.edge[i] = NoEdge]
      /\ status' = status /\ mark' = mark /\ owner' = owner /\ merges' = merges /\ tx' = tx
  BY DEF DeleteRelationship
<1>3. edge \in [Edges -> EdgeRows] /\ home \in Homes /\ NoEdge \in EdgeRows
  BY DEF MergeInv, MergeTypes, TypeOK, EdgeRows
<1>4. /\ edge' \in [Edges -> EdgeRows] /\ edge'[i] = NoEdge
      /\ \A j \in Edges : j # i => edge'[j] = edge[j]
  BY <1>2, <1>3
<1>5. /\ home' \in Homes /\ home'.record = home.record /\ home'.edge[i] = NoEdge
      /\ \A j \in Edges : j # i => home'.edge[j] = home.edge[j]
  <2>1. PICK f : f = [home.edge EXCEPT ![i] = NoEdge]
    OBVIOUS
  <2>2. /\ f \in [Edges -> EdgeRows] /\ f[i] = NoEdge
        /\ \A j \in Edges : j # i => f[j] = home.edge[j]
    BY <1>3, <2>1 DEF Homes
  <2>3. home' = [home EXCEPT !.edge = f]
    BY <1>2, <2>1
  <2>4. home' \in Homes /\ home'.record = home.record /\ home'.edge = f
    BY <1>3, <2>2, <2>3, EdgeHome
  <2> QED
    BY <2>2, <2>4
<1>6. RequestsTyped' /\ LocksApart' /\ RequestsStand'
  <2> DEFINE E == {}
  <2>1. NoEdge.from = Nothing /\ NoEdge.to = Nothing
    BY DEF NoEdge
  <2>2. /\ \A x \in Requests : \A e \in Pair(tx[x].journal) : e \notin E
        /\ \A r \in Records :
             owner'[r] = owner[r] \/ (owner[r] \in E \cup {Nothing} /\ owner'[r] \in E)
        /\ \A j \in Edges :
             \/ edge'[j] = edge[j]
             \/ /\ \A x \in Requests : j \notin tx[x].rows
                /\ edge'[j].from \in E \cup {edge[j].from, Nothing}
                /\ edge'[j].to \in E \cup {edge[j].to, Nothing}
    BY <1>1, <1>2, <1>4, <2>1
  <2> HIDE DEF E
  <2> QED
    BY <1>2, <2>2, EditStands
<1>7. MergeTypes'
  <2>1. /\ home'.record \in [Records -> Maybe] /\ home'.edge \in [Edges -> EdgeRow \cup {NoEdge}]
        /\ edge' \in [Edges -> EdgeRow \cup {NoEdge}]
    BY <1>4, <1>5 DEF Homes, EdgeRows
  <2>2. TypeOK'
    BY <1>2, <2>1 DEF MergeInv, MergeTypes, TypeOK
  <2> QED
    BY <1>5, <1>6, <2>2 DEF MergeTypes
<1>8. NoTombstone
  BY <1>2 DEF NoTombstone
<1>9. \A j \in Edges : EdgeAtHome(j)'
  <2>1. ASSUME NEW j \in Edges, j # i
        PROVE  EdgeAtHome(j)'
    BY <1>2, <1>4, <1>5, <1>8, <2>1, SameEdge DEF Exists
  <2>2. EdgeAtHome(i)'
    BY <1>4, <1>5 DEF EdgeAtHome, Exists
  <2> QED
    BY <2>1, <2>2
<1>10. \A r \in Records : RecordAtHome(r)'
  BY <1>2, <1>5, <1>8, SameRecord
<1>11. \A m \in merges' : \A d \in m.deleted : LoopKept(m, d)'
  <2>1. ASSUME NEW m \in merges, NEW j \in Deleted(m)
        PROVE  edge'[j] = edge[j] /\ home'.edge[j] = home.edge[j]
    <3>1. m \in Journal
      BY DEF MergeInv, MergeTypes, TypeOK
    <3>2. j \in Edges /\ j # i
      BY <1>1, <3>1, JournalFields DEF Deleted, MergeInv, RowsAtHome, LoopKept
    <3> QED
      BY <1>4, <1>5, <3>2
  <2> QED
    BY <1>2, <2>1, SameLoops
<1>12. GraphIntegrity(edge)'
  <2>1. ASSUME NEW j \in Edges, edge'[j] # NoEdge
        PROVE  /\ edge'[j].from # edge'[j].to
               /\ \A l \in Edges \ {j} : edge'[j] # edge'[l]
    <3>1. j # i /\ edge'[j] = edge[j]
      BY <1>4, <2>1
    <3> QED
      BY <1>4, <2>1, <3>1 DEF MergeInv, GraphIntegrity
  <2> QED
    BY <2>1 DEF GraphIntegrity
<1>13. MergesApart'
  BY <1>2 DEF MergeInv, MergesApart
<1> QED
  BY <1>6, <1>7, <1>9, <1>10, <1>11, <1>12, <1>13 DEF MergeInv, RowsAtHome

LEMMA UpdateStep ==
  ASSUME MergeInv, NEW e \in Entities, NEW v \in Maybe, UpdateEntity(e, v)
  PROVE  MergeInv'
<1>1. /\ mark' = [mark EXCEPT ![e] = v] /\ status' = status /\ owner' = owner
      /\ edge' = edge /\ merges' = merges /\ tx' = tx /\ home' = home
  BY DEF UpdateEntity
<1>2. MergesApart' /\ RowsAtHome' /\ GraphIntegrity(edge)'
  BY <1>1, SameRows DEF NoTombstone
<1>3. mark' \in [Entities -> Maybe]
  BY <1>1 DEF MergeInv, MergeTypes, TypeOK, Maybe
<1>4. RequestsTyped' /\ LocksApart' /\ RequestsStand'
  <2> DEFINE E == {}
  <2>1. /\ \A x \in Requests : \A f \in Pair(tx[x].journal) : f \notin E
        /\ \A r \in Records :
             owner'[r] = owner[r] \/ (owner[r] \in E \cup {Nothing} /\ owner'[r] \in E)
        /\ \A j \in Edges :
             \/ edge'[j] = edge[j]
             \/ /\ \A x \in Requests : j \notin tx[x].rows
                /\ edge'[j].from \in E \cup {edge[j].from, Nothing}
                /\ edge'[j].to \in E \cup {edge[j].to, Nothing}
    BY <1>1
  <2> HIDE DEF E
  <2> QED
    BY <1>1, <2>1, EditStands
<1>5. TypeOK'
  BY <1>1, <1>3 DEF MergeInv, MergeTypes, TypeOK
<1>6. MergeTypes'
  BY <1>1, <1>4, <1>5 DEF MergeInv, MergeTypes
<1> QED
  BY <1>2, <1>4, <1>6 DEF MergeInv

---------------------------------------------------------------------------
(* Requests that start, map or end *)

LEMMA FindMappingStep ==
  ASSUME MergeInv, NEW x \in Requests, NEW r \in Records, NEW s \in {"active", "inactive"},
         NEW cleans \in BOOLEAN, FindMapping(x, r, s, cleans)
  PROVE  MergeInv'
<1>1. PICK e, old : e = owner[r] /\ old = status[e]
  OBVIOUS
<1>2. e \in Entities
  BY <1>1 DEF FindMapping, MergeInv, MergeTypes, TypeOK, Maybe
<1>3. /\ status' = status /\ mark' = mark /\ owner' = owner /\ edge' = edge
      /\ merges' = merges /\ home' = home
  BY DEF FindMapping
<1>5. PICK written \in {"active", "inactive"}, sets \in BOOLEAN :
        written = (IF s # old THEN s ELSE "active") /\ sets = (s # old)
  OBVIOUS
<1> DEFINE n == [Idle EXCEPT !.pc = "mapping", !.entity = e, !.status = written,
                             !.sets = sets, !.cleans = cleans]
<1>4. Set(x, n)
  BY <1>1, <1>5 DEF FindMapping, Idle
<1>6. /\ n \in Request /\ n.pc = "mapping" /\ n.journal = NoJournal /\ n.rows = {}
      /\ n.status = written /\ n.entity = e
  BY <1>2 DEF Idle, Request, Status, Maybe
<1>7. n.status # "merged"
  BY <1>6
<1> HIDE DEF n
<1>8. /\ tx' \in [Requests -> Request]
      /\ RequestsTyped' /\ LocksApart' /\ RequestStands(x)'
      /\ \A y \in Requests : y # x => tx'[y] = tx[y]
  <2>1. PICK c \in Request : /\ c = n /\ c.pc = "mapping" /\ c.journal = NoJournal
                             /\ c.rows = {} /\ c.status # "merged" /\ c.entity \in Entities
    BY <1>2, <1>6, <1>7
  <2>2. tx' = [tx EXCEPT ![x] = c]
    BY <1>4, <2>1 DEF Set
  <2> QED
    BY <2>1, <2>2, BecomesQuiet
<1>9. RequestsStand'
  BY <1>3, <1>8, OthersStand
<1>10. MergesApart' /\ RowsAtHome' /\ GraphIntegrity(edge)'
  BY <1>3, SameRows DEF NoTombstone
<1>11. MergeTypes'
  <2>1. TypeOK'
    BY <1>3, <1>8 DEF MergeInv, MergeTypes, TypeOK
  <2> QED
    BY <1>3, <1>8, <2>1 DEF MergeInv, MergeTypes
<1> QED
  BY <1>8, <1>9, <1>10, <1>11 DEF MergeInv

\* A mapping may revive a tombstone, but no merge is made or undone by it.
LEMMA PersistMappingStep ==
  ASSUME MergeInv, NEW x \in Requests, PersistMapping(x)
  PROVE  MergeInv'
<1>1. PICK e, new : e = tx[x].entity /\ new = tx[x].status
  OBVIOUS
<1>2. /\ tx[x].pc = "mapping" /\ EntityFree(e, x)
      /\ status' = (IF tx[x].sets THEN [status EXCEPT ![e] = new] ELSE status)
      /\ mark' = (IF tx[x].cleans THEN [mark EXCEPT ![e] = Nothing] ELSE mark)
      /\ Set(x, Idle)
      /\ owner' = owner /\ edge' = edge /\ merges' = merges /\ home' = home
  BY <1>1 DEF PersistMapping
<1>3. e \in Entities /\ new # "merged" /\ new \in Status
  BY <1>1, <1>2 DEF MergeInv, MergeTypes, RequestsTyped, TypeOK, Request
<1>4. /\ status \in [Entities -> Status] /\ mark \in [Entities -> Maybe]
  BY DEF MergeInv, MergeTypes, TypeOK
<1>5. /\ status' \in [Entities -> Status] /\ mark' \in [Entities -> Maybe]
      /\ \A f \in Entities : f # e => status'[f] = status[f]
      /\ status'[e] = "merged" => status[e] = "merged"
  <2>1. CASE tx[x].sets
    BY <1>2, <1>3, <1>4, <2>1 DEF Maybe
  <2>2. CASE ~tx[x].sets
    BY <1>2, <1>3, <1>4, <2>2 DEF Maybe
  <2> QED
    BY <2>1, <2>2
<1>6. /\ tx' \in [Requests -> Request]
      /\ RequestsTyped' /\ LocksApart' /\ RequestStands(x)'
      /\ \A y \in Requests : y # x => tx'[y] = tx[y]
  BY <1>2, BecomesIdle
<1>7. ASSUME NEW y \in Requests, y # x
      PROVE  RequestStands(y)'
  <2> DEFINE E == {e}
  <2>1. /\ \A f \in Pair(tx[y].journal) : f \notin E
        /\ \A f \in Entities : f \notin E => status'[f] = status[f]
        /\ \A r \in Records :
             owner'[r] = owner[r] \/ (owner[r] \in E \cup {Nothing} /\ owner'[r] \in E)
        /\ \A i \in Edges :
             \/ edge'[i] = edge[i]
             \/ /\ i \notin tx[y].rows
                /\ edge'[i].from \in E \cup {edge[i].from, Nothing}
                /\ edge'[i].to \in E \cup {edge[i].to, Nothing}
        /\ \A n \in merges' : n \in merges \/ Pair(n) \subseteq E
        /\ \A n \in merges : n \in merges' \/ Pair(n) \subseteq E
    BY <1>2, <1>5, <1>7 DEF EntityFree, Pair
  <2>2. tx'[y] = tx[y]
    BY <1>6, <1>7
  <2> HIDE DEF E
  <2> QED
    BY <2>1, <2>2, Footprint
<1>8. RequestsStand'
  BY <1>6, <1>7 DEF RequestsStand
<1>9. NoTombstone
  BY <1>5 DEF NoTombstone
<1>10. MergesApart' /\ RowsAtHome' /\ GraphIntegrity(edge)'
  BY <1>2, <1>9, SameRows
<1>11. MergeTypes'
  <2>1. TypeOK'
    BY <1>2, <1>5, <1>6 DEF MergeInv, MergeTypes, TypeOK
  <2> QED
    BY <1>2, <1>6, <2>1 DEF MergeInv, MergeTypes
<1> QED
  BY <1>6, <1>8, <1>10, <1>11 DEF MergeInv

LEMMA RollBackStep ==
  ASSUME MergeInv, NEW x \in Requests, RollBack(x)
  PROVE  MergeInv'
<1>1. /\ Set(x, Idle) /\ status' = status /\ mark' = mark /\ owner' = owner
      /\ edge' = edge /\ merges' = merges /\ home' = home
  BY DEF RollBack
<1>2. /\ tx' \in [Requests -> Request]
      /\ RequestsTyped' /\ LocksApart' /\ RequestStands(x)'
      /\ \A y \in Requests : y # x => tx'[y] = tx[y]
  BY <1>1, BecomesIdle
<1>3. RequestsStand'
  BY <1>1, <1>2, OthersStand
<1>4. MergesApart' /\ RowsAtHome' /\ GraphIntegrity(edge)'
  BY <1>1, SameRows DEF NoTombstone
<1>5. MergeTypes'
  <2>1. TypeOK'
    BY <1>1, <1>2 DEF MergeInv, MergeTypes, TypeOK
  <2> QED
    BY <1>1, <1>2, <2>1 DEF MergeInv, MergeTypes
<1> QED
  BY <1>2, <1>3, <1>4, <1>5 DEF MergeInv

LEMMA LoopIds ==
  ASSUME NEW loops, NEW rows, NEW D, D = {[id |-> i, row |-> rows[i]] : i \in loops}
  PROVE  {d.id : d \in D} = loops
<1>1. \A i \in loops : \E d \in D : d.id = i
  <2>1. ASSUME NEW i \in loops
        PROVE  [id |-> i, row |-> rows[i]] \in D /\ [id |-> i, row |-> rows[i]].id = i
    OBVIOUS
  <2> QED
    BY <2>1
<1>2. \A d \in D : d.id \in loops
  OBVIOUS
<1> QED
  BY <1>1, <1>2

LEMMA JournalOfFields ==
  ASSUME TypeOK, NEW s \in Entities, NEW t \in Entities, s # t, NEW m, m = JournalOf(s, t)
  PROVE  /\ m \in Journal /\ m.source = s /\ m.target = t
         /\ \A r \in Records : r \in m.records <=> owner[r] = s
         /\ \A i \in Edges :
              /\ i \in m.froms <=> edge[i].from = s /\ edge[i].to # t
              /\ i \in m.tos <=> edge[i].to = s /\ edge[i].from # t
              /\ i \in Deleted(m) <=> Between(edge[i], m)
         /\ \A d \in m.deleted : d.row = edge[d.id]
         /\ Deleted(m) = Loops(s, t)
<1>1. \A i \in Edges : edge[i] \in EdgeRows /\ (edge[i].from \in Entities <=> Exists(i))
                       /\ (edge[i].to \in Entities <=> Exists(i))
  <2>1. ASSUME NEW i \in Edges
        PROVE  edge[i] \in EdgeRows
    BY DEF TypeOK, EdgeRows
  <2> QED
    BY <2>1, RowFields, MergeAssumption DEF Exists
<1> DEFINE loops == {[id |-> i, row |-> edge[i]] : i \in Loops(s, t)}
<1>2. /\ m.source = s /\ m.target = t /\ m.records = {r \in Records : owner[r] = s}
      /\ m.froms = {i \in Touching(s) \ Loops(s, t) : edge[i].from = s}
      /\ m.tos = {i \in Touching(s) \ Loops(s, t) : edge[i].to = s}
      /\ m.deleted = loops /\ m.mark = mark[s]
  BY DEF JournalOf, Snapshot
<1>3. ASSUME NEW i \in Edges
      PROVE  /\ i \in Touching(s) <=> edge[i].from = s \/ edge[i].to = s
             /\ i \in Loops(s, t) <=> Between(edge[i], m)
  <2>1. /\ i \in Touching(s) <=> edge[i].from = s \/ edge[i].to = s
        /\ i \in Touching(t) <=> edge[i].from = t \/ edge[i].to = t
    BY <1>1 DEF Touching, Ends
  <2> QED
    BY <1>2, <2>1 DEF Loops, Between
<1>4. Loops(s, t) \subseteq Edges /\ Touching(s) \subseteq Edges
  BY DEF Loops, Touching
<1>5. \A i \in Loops(s, t) : edge[i] \in EdgeRow
  BY <1>4, <1>1 DEF Loops, Touching, EdgeRows, Exists
<1>6. m \in Journal
  <2>1. loops \subseteq [id : Edges, row : EdgeRow]
    BY <1>4, <1>5
  <2>2. mark[s] \in Maybe
    BY DEF TypeOK
  <2>3. m = [source |-> m.source, target |-> m.target, records |-> m.records,
             froms |-> m.froms, tos |-> m.tos, deleted |-> m.deleted, mark |-> m.mark]
    BY DEF JournalOf, Snapshot
  <2>4. m.froms \subseteq Edges /\ m.tos \subseteq Edges /\ m.records \subseteq Records
    BY <1>2, <1>4
  <2> HIDE DEF loops
  <2> QED
    BY <1>2, <2>1, <2>2, <2>3, <2>4 DEF Journal
<1>7. ASSUME NEW i \in Edges
      PROVE  /\ i \in m.froms <=> edge[i].from = s /\ edge[i].to # t
             /\ i \in m.tos <=> edge[i].to = s /\ edge[i].from # t
  BY <1>2, <1>3 DEF Between
<1>8. Deleted(m) = Loops(s, t)
  <2>1. PICK rows, D : rows = edge /\ D = m.deleted
    OBVIOUS
  <2>2. D = {[id |-> i, row |-> rows[i]] : i \in Loops(s, t)}
    BY <1>2, <2>1
  <2>3. {d.id : d \in D} = Loops(s, t)
    BY <2>2, LoopIds
  <2> QED
    BY <2>1, <2>3 DEF Deleted
<1> QED
  BY <1>2, <1>3, <1>6, <1>7, <1>8

LEMMA CheckMergeStep ==
  ASSUME MergeInv, NEW x \in Requests, NEW s \in Entities, NEW t \in Entities,
         CheckMerge(x, s, t)
  PROVE  MergeInv'
<1>1. PICK m, rows : m = JournalOf(s, t) /\ rows = Touching(s) \cup Touching(t)
  OBVIOUS
<1>2. /\ s # t
      /\ \A e \in {s, t} : EntityFree(e, x) /\ status[e] = "active" /\ ~Participating(e)
      /\ \A i \in rows : RowFree(i, x)
      /\ ~Duplicates(rows, s, t)
      /\ Set(x, [Idle EXCEPT !.pc = "merging", !.journal = m, !.rows = rows])
  BY <1>1 DEF CheckMerge
<1>3. /\ status' = status /\ mark' = mark /\ owner' = owner /\ edge' = edge
      /\ merges' = merges /\ home' = home
  BY DEF CheckMerge
<1>4. /\ m \in Journal /\ m.source = s /\ m.target = t
      /\ \A r \in Records : r \in m.records <=> owner[r] = s
      /\ \A i \in Edges :
           /\ i \in m.froms <=> edge[i].from = s /\ edge[i].to # t
           /\ i \in m.tos <=> edge[i].to = s /\ edge[i].from # t
           /\ i \in Deleted(m) <=> Between(edge[i], m)
      /\ \A d \in m.deleted : d.row = edge[d.id]
  BY <1>1, <1>2, JournalOfFields DEF MergeInv, MergeTypes
<1>5. rows \in SUBSET Edges
  BY <1>1 DEF Touching
<1>6. /\ tx' \in [Requests -> Request]
      /\ RequestsTyped' /\ LocksApart'
      /\ tx'[x].pc = "merging" /\ tx'[x].journal = m /\ tx'[x].rows = rows
      /\ \A y \in Requests : y # x => tx'[y] = tx[y]
  BY <1>2, <1>4, <1>5, BecomesBusy
<1>7. ASSUME NEW i \in Edges
      PROVE  /\ i \in rows <=> Touches(edge[i], m)
             /\ i \in Touching(s) <=> edge[i].from = s \/ edge[i].to = s
  <2>1. /\ edge[i].from \in Entities => Exists(i)
        /\ edge[i].to \in Entities => Exists(i)
    BY MergeAssumption DEF Exists, NoEdge
  <2>2. /\ i \in Touching(s) <=> edge[i].from = s \/ edge[i].to = s
        /\ i \in Touching(t) <=> edge[i].from = t \/ edge[i].to = t
    BY <2>1 DEF Touching, Ends
  <2> QED
    BY <1>1, <1>4, <2>2 DEF Touches, Pair
<1>8. MovesApart(m, rows)
  <2>1. ASSUME NEW i \in rows, NEW j \in rows, i # j, i \notin Deleted(m),
               edge[i].from = s \/ edge[i].to = s
        PROVE  Rewired(edge[i], s, t) # Rewired(edge[j], s, t)
    <3>1. i \in Touching(s) /\ i \in Edges
      BY <1>5, <1>7, <2>1
    <3>2. i \notin Loops(s, t)
      <4>1. Deleted(m) = Loops(s, t)
        BY <1>1, <1>2, JournalOfFields DEF MergeInv, MergeTypes
      <4> QED
        BY <2>1, <4>1
    <3> QED
      BY <1>2, <2>1, <3>1, <3>2 DEF Duplicates
  <2> QED
    BY <1>4, <2>1 DEF MovesApart
<1>9. JournalStands(m, rows)
  BY <1>2, <1>4, <1>7, <1>8 DEF JournalStands, Pair
<1>10. JournalStands(m, rows)'
  BY <1>3, <1>9 DEF JournalStands, MovesApart, Participating, Deleted
<1>11. RequestsStand'
  <2>1. RequestStands(x)'
    BY <1>6, <1>10 DEF RequestStands
  <2> QED
    BY <1>3, <1>6, <2>1, OthersStand
<1>12. MergesApart' /\ RowsAtHome' /\ GraphIntegrity(edge)'
  BY <1>3, SameRows DEF NoTombstone
<1>13. MergeTypes'
  <2>1. TypeOK'
    BY <1>3, <1>6 DEF MergeInv, MergeTypes, TypeOK
  <2> QED
    BY <1>3, <1>6, <2>1 DEF MergeInv, MergeTypes
<1> QED
  BY <1>6, <1>11, <1>12, <1>13 DEF MergeInv

LEMMA CheckSplitStep ==
  ASSUME MergeInv, NEW x \in Requests, NEW m \in merges, CheckSplit(x, m)
  PROVE  MergeInv'
<1>1. PICK rows : rows = m.froms \cup m.tos
  OBVIOUS
<1>2. /\ \A e \in {m.source, m.target} : EntityFree(e, x)
      /\ status[m.source] = "merged" /\ status[m.target] = "active"
      /\ \A i \in rows : RowFree(i, x)
      /\ Undrifted(m)
      /\ Set(x, [Idle EXCEPT !.pc = "splitting", !.journal = m, !.rows = rows])
  BY <1>1 DEF CheckSplit
<1>3. /\ status' = status /\ mark' = mark /\ owner' = owner /\ edge' = edge
      /\ merges' = merges /\ home' = home
  BY DEF CheckSplit
<1>4. m \in Journal /\ m.target \in Entities
  BY JournalFields DEF MergeInv, MergeTypes, TypeOK
<1>5. rows \in SUBSET Edges
  BY <1>1, <1>4, JournalFields
<1>6. /\ tx' \in [Requests -> Request]
      /\ RequestsTyped' /\ LocksApart'
      /\ tx'[x].pc = "splitting" /\ tx'[x].journal = m /\ tx'[x].rows = rows
      /\ \A y \in Requests : y # x => tx'[y] = tx[y]
  BY <1>2, <1>4, <1>5, BecomesBusy
<1>7. \A i \in rows : Exists(i)
  BY <1>1, <1>2, <1>4, MergeAssumption DEF Undrifted, Exists, NoEdge
<1>8. SplitStands(m, rows)'
  BY <1>1, <1>2, <1>3, <1>7 DEF SplitStands, Exists
<1>9. RequestsStand'
  <2>1. RequestStands(x)'
    BY <1>6, <1>8 DEF RequestStands
  <2> QED
    BY <1>3, <1>6, <2>1, OthersStand
<1>10. MergesApart' /\ RowsAtHome' /\ GraphIntegrity(edge)'
  BY <1>3, SameRows DEF NoTombstone
<1>11. MergeTypes'
  <2>1. TypeOK'
    BY <1>3, <1>6 DEF MergeInv, MergeTypes, TypeOK
  <2> QED
    BY <1>3, <1>6, <2>1 DEF MergeInv, MergeTypes
<1> QED
  BY <1>6, <1>9, <1>10, <1>11 DEF MergeInv

---------------------------------------------------------------------------
(* The merge *)

LEMMA CommitMergeStep ==
  ASSUME MergeInv, NEW x \in Requests, CommitMerge(x)
  PROVE  MergeInv'
<1>1. PICK m, rows : m = tx[x].journal /\ rows = tx[x].rows
  OBVIOUS
<1>2. /\ tx[x].pc = "merging" /\ GraphIntegrity(MergedEdges(m)) /\ edge' = MergedEdges(m)
      /\ owner' = [r \in Records |-> IF r \in m.records THEN m.target ELSE owner[r]]
      /\ merges' = merges \cup {m} /\ status' = [status EXCEPT ![m.source] = "merged"]
      /\ mark' = [mark EXCEPT ![m.source] = m.target] /\ Set(x, Idle) /\ home' = home
  BY <1>1 DEF CommitMerge
<1>3. m \in Journal /\ JournalStands(m, rows)
  BY <1>1, <1>2 DEF MergeInv, MergeTypes, RequestsTyped, RequestsStand, RequestStands, Busy
<1>4. /\ m.source \in Entities /\ m.target \in Entities /\ m.source # m.target
      /\ m.source # Nothing /\ m.target # Nothing
      /\ m.froms \subseteq Edges /\ m.tos \subseteq Edges
      /\ \A d \in m.deleted : d.id \in Edges /\ d.row \in EdgeRow
  <2>1. m.source \in Entities /\ m.target \in Entities
    BY <1>3, JournalFields
  <2> QED
    BY <1>3, <2>1, JournalFields, MergeAssumption DEF JournalStands
<1>5. /\ TypeOK /\ MergesApart /\ LocksApart
      /\ status \in [Entities -> Status] /\ mark \in [Entities -> Maybe]
      /\ owner \in [Records -> Maybe] /\ edge \in [Edges -> EdgeRows] /\ merges \subseteq Journal
  BY DEF MergeInv, MergeTypes, TypeOK, EdgeRows
\* The two entities were in no open merge.
<1>6. \A n \in merges : /\ n.source # m.source /\ n.source # m.target
                        /\ n.target # m.source /\ n.target # m.target /\ n # m
  BY <1>3 DEF JournalStands, Participating, Pair
<1>7. ASSUME NEW i \in Edges
      PROVE  /\ edge'[i] \in EdgeRows
             /\ i \in Deleted(m) => edge'[i] = NoEdge
             /\ i \notin Deleted(m) =>
                  /\ edge'[i].from = Moved(edge[i].from, m.source, m.target)
                  /\ edge'[i].to = Moved(edge[i].to, m.source, m.target)
                  /\ edge'[i].kind = edge[i].kind
                  /\ edge'[i] = NoEdge <=> edge[i] = NoEdge
  BY <1>2, <1>3, <1>5, <1>7, MergedRow
<1>8. ASSUME NEW i \in Edges
      PROVE  /\ edge[i] \in EdgeRows
             /\ i \in m.froms <=> edge[i].from = m.source /\ edge[i].to # m.target
             /\ i \in m.tos <=> edge[i].to = m.source /\ edge[i].from # m.target
             /\ i \in Deleted(m) <=> Between(edge[i], m)
             /\ i \in rows <=> Touches(edge[i], m)
  BY <1>3, <1>5, <1>8 DEF JournalStands
<1>9. ASSUME NEW r \in Records
      PROVE  owner'[r] = Moved(owner[r], m.source, m.target) /\ owner'[r] \in Maybe
  <2>1. r \in m.records <=> owner[r] = m.source
    BY <1>3 DEF JournalStands
  <2> QED
    BY <1>2, <1>4, <1>5, <2>1 DEF Moved, Maybe
<1>10. /\ status' \in [Entities -> Status] /\ mark' \in [Entities -> Maybe]
       /\ \A e \in Entities : e # m.source => status'[e] = status[e]
  BY <1>2, <1>4, <1>5 DEF Status, Maybe
<1>11. /\ tx' \in [Requests -> Request]
       /\ RequestsTyped' /\ LocksApart' /\ RequestStands(x)'
       /\ \A y \in Requests : y # x => tx'[y] = tx[y]
  BY <1>2, BecomesIdle
<1>12. ASSUME NEW y \in Requests, y # x
       PROVE  RequestStands(y)'
  <2> DEFINE E == Pair(m)
  <2>1. Busy(y) => \A e \in Pair(tx[y].journal) : e \notin E
    BY <1>1, <1>2, <1>5, <1>12 DEF LocksApart, Busy
  <2>2. \A e \in Entities : e \notin E => status'[e] = status[e]
    BY <1>10 DEF Pair
  <2>3. \A r \in Records :
          owner'[r] = owner[r] \/ (owner[r] \in E \cup {Nothing} /\ owner'[r] \in E)
    BY <1>9 DEF Pair, Moved
  <2>4. ASSUME NEW i \in Edges
        PROVE  \/ edge'[i] = edge[i]
               \/ /\ i \notin tx[y].rows
                  /\ edge'[i].from \in E \cup {edge[i].from, Nothing}
                  /\ edge'[i].to \in E \cup {edge[i].to, Nothing}
    <3>1. CASE ~Touches(edge[i], m)
      <4>1. i \notin Deleted(m)
        BY <1>8, <3>1 DEF Between, Touches, Pair
      <4>2. edge'[i].from = edge[i].from /\ edge'[i].to = edge[i].to /\ edge'[i].kind = edge[i].kind
        BY <1>7, <3>1, <4>1 DEF Moved, Touches, Pair
      <4> QED
        BY <1>7, <1>8, <4>2, RowsEqual
    <3>2. CASE Touches(edge[i], m)
      <4>1. i \notin tx[y].rows
        BY <1>1, <1>5, <1>8, <1>12, <3>2 DEF LocksApart
      <4>2. CASE i \in Deleted(m)
        BY <1>7, <4>1, <4>2 DEF NoEdge
      <4>3. CASE i \notin Deleted(m)
        BY <1>7, <4>1, <4>3 DEF Moved, Pair
      <4> QED
        BY <4>2, <4>3
    <3> QED
      BY <3>1, <3>2
  <2>5. /\ \A n \in merges' : n \in merges \/ Pair(n) \subseteq E
        /\ \A n \in merges : n \in merges' \/ Pair(n) \subseteq E
    BY <1>2
  <2>6. tx'[y] = tx[y]
    BY <1>11, <1>12
  <2> HIDE DEF E
  <2> QED
    BY <2>1, <2>2, <2>3, <2>4, <2>5, <2>6, Footprint
<1>13. RequestsStand'
  BY <1>11, <1>12 DEF RequestsStand
<1>14. MergesApart'
  <2>1. \A n \in merges' : n.source # n.target
    BY <1>2, <1>4, <1>5 DEF MergesApart
  <2>2. ASSUME NEW n \in merges', NEW o \in merges', n # o
        PROVE  Pair(n) \cap Pair(o) = {}
    <3>1. CASE n \in merges /\ o \in merges
      BY <1>5, <2>2, <3>1 DEF MergesApart
    <3>2. CASE n = m \/ o = m
      <4>1. \A p \in merges : Pair(p) \cap Pair(m) = {}
        BY <1>6 DEF Pair
      <4> QED
        BY <1>2, <2>2, <3>2, <4>1
    <3> QED
      BY <1>2, <3>1, <3>2
  <2> QED
    BY <2>1, <2>2 DEF MergesApart, Pair
\* One place, of a record or of an end of a relationship.
<1>15. ASSUME NEW v, NEW b, v \in Places(b)
       PROVE  LET w == Moved(v, m.source, m.target) IN
              /\ (w \in Places(b))'
              /\ v = m.source <=> b = m.source
              /\ At(w, b, m) <=> v = m.source
              /\ \A n \in merges : At(w, b, n) <=> At(v, b, n)
  <2>1. \A e \in Pair(m) : ~Participating(e)
    BY <1>3 DEF JournalStands
  <2> QED
    BY <1>2, <1>3, <1>4, <1>5, <1>15, <2>1, MergePlaces
<1>16. ASSUME NEW r \in Records
       PROVE  RecordAtHome(r)'
  <2>1. PICK v, b, w : /\ v = owner[r] /\ b = home.record[r]
                       /\ w = Moved(v, m.source, m.target)
    OBVIOUS
  <2>2. /\ v = Nothing <=> b = Nothing
        /\ v # Nothing => v \in Places(b)
        /\ \A n \in merges : r \in n.records <=> At(v, b, n)
    BY <2>1 DEF MergeInv, RowsAtHome, RecordAtHome
  <2>3. r \in m.records <=> v = m.source
    BY <1>3, <2>1 DEF JournalStands
  <2>4. owner'[r] = w /\ home'.record[r] = b
    BY <1>2, <1>9, <2>1
  <2>5. CASE v = Nothing
    <3>1. w = Nothing
      BY <1>4, <2>1, <2>5 DEF Moved
    <3>2. \A n \in merges' : r \in n.records <=> At(w, b, n)
      BY <1>2, <1>4, <2>2, <2>3, <2>5, <3>1 DEF At
    <3> QED
      BY <2>2, <2>4, <2>5, <3>1, <3>2 DEF RecordAtHome, At
  <2>6. CASE v # Nothing
    <3>1. /\ (w \in Places(b))'
          /\ At(w, b, m) <=> v = m.source
          /\ \A n \in merges : At(w, b, n) <=> At(v, b, n)
      BY <1>15, <2>1, <2>2, <2>6
    <3>2. w # Nothing /\ b # Nothing
      BY <1>4, <2>1, <2>2, <2>6 DEF Moved
    <3>3. \A n \in merges' : r \in n.records <=> At(w, b, n)
      BY <1>2, <2>2, <2>3, <3>1
    <3>4. (owner[r] \in Places(home.record[r]))'
      BY <2>4, <3>1
    <3> QED
      BY <2>4, <3>2, <3>3, <3>4 DEF RecordAtHome, At
  <2> QED
    BY <2>5, <2>6
<1>17. ASSUME NEW i \in Edges
       PROVE  EdgeAtHome(i)'
  <2>1. PICK f, t, b, g, u :
          /\ f = edge[i].from /\ t = edge[i].to /\ b = home.edge[i]
          /\ g = Moved(f, m.source, m.target) /\ u = Moved(t, m.source, m.target)
    OBVIOUS
  <2>2. EdgeAtHome(i)
    BY DEF MergeInv, RowsAtHome
  <2>3. Exists(i)' <=> Exists(i) /\ i \notin Deleted(m)
    BY <1>7 DEF Exists
  <2>4. ASSUME Exists(i)'
        PROVE  (/\ home.edge[i] # NoEdge
                /\ edge[i].from \in Places(home.edge[i].from)
                /\ edge[i].to \in Places(home.edge[i].to)
                /\ \A n \in merges :
                     /\ i \in n.froms <=> At(edge[i].from, home.edge[i].from, n)
                     /\ i \in n.tos <=> At(edge[i].to, home.edge[i].to, n))'
    <3>1. /\ b # NoEdge /\ f \in Places(b.from) /\ t \in Places(b.to)
          /\ \A n \in merges : /\ i \in n.froms <=> At(f, b.from, n)
                               /\ i \in n.tos <=> At(t, b.to, n)
      BY <2>1, <2>2, <2>3, <2>4 DEF EdgeAtHome
    <3>2. edge'[i].from = g /\ edge'[i].to = u /\ home'.edge[i] = b
      BY <1>2, <1>7, <2>1, <2>3, <2>4
    <3>3. i \in m.froms <=> f = m.source
      BY <1>8, <2>1, <2>3, <2>4 DEF Between
    <3>4. i \in m.tos <=> t = m.source
      BY <1>8, <2>1, <2>3, <2>4 DEF Between
    <3>5. /\ (g \in Places(b.from))'
          /\ At(g, b.from, m) <=> f = m.source
          /\ \A n \in merges : At(g, b.from, n) <=> At(f, b.from, n)
      BY <1>15, <2>1, <3>1
    <3>6. /\ (u \in Places(b.to))'
          /\ At(u, b.to, m) <=> t = m.source
          /\ \A n \in merges : At(u, b.to, n) <=> At(t, b.to, n)
      BY <1>15, <2>1, <3>1
    <3>7. \A n \in merges' : /\ i \in n.froms <=> At(g, b.from, n)
                             /\ i \in n.tos <=> At(u, b.to, n)
      BY <1>2, <3>1, <3>3, <3>4, <3>5, <3>6
    <3>8. (edge[i].from \in Places(home.edge[i].from) /\ edge[i].to \in Places(home.edge[i].to))'
      BY <3>2, <3>5, <3>6
    <3> QED
      BY <3>1, <3>2, <3>7, <3>8 DEF At
  <2>5. ASSUME ~Exists(i)', home'.edge[i] # NoEdge
        PROVE  \E n \in merges' : i \in Deleted(n)
    <3>1. CASE i \in Deleted(m)
      BY <1>2, <3>1
    <3>2. CASE i \notin Deleted(m)
      <4>1. ~Exists(i) /\ home.edge[i] # NoEdge
        BY <1>2, <2>3, <2>5, <3>2
      <4>2. PICK n \in merges : i \in Deleted(n)
        BY <2>2, <4>1 DEF EdgeAtHome
      <4> QED
        BY <1>2, <4>2
    <3> QED
      BY <3>1, <3>2
  <2> QED
    BY <2>4, <2>5 DEF EdgeAtHome, Deleted
\* What this merge deletes, and what others had deleted.
<1>18. ASSUME NEW d \in m.deleted
       PROVE  /\ Exists(d.id) /\ ~Exists(d.id)' /\ d.row = edge[d.id] /\ Between(d.row, m)
              /\ home.edge[d.id].from = d.row.from /\ home.edge[d.id].to = d.row.to
              /\ \A n \in merges' : d.id \notin n.froms \cup n.tos
  <2>1. PICK i, row, b : i = d.id /\ row = d.row /\ b = home.edge[i]
    OBVIOUS
  <2>2. i \in Edges /\ i \in Deleted(m) /\ row = edge[i]
    BY <1>3, <1>4, <2>1 DEF JournalStands, Deleted
  <2>3. Between(row, m)
    BY <1>8, <2>2
  <2>4. Exists(i)
    BY <1>4, <2>2, <2>3 DEF Between, Exists, NoEdge
  <2>5. ~Exists(i)'
    BY <1>7, <2>2 DEF Exists
  <2>6. /\ row.from \in Places(b.from) /\ row.to \in Places(b.to)
        /\ \A n \in merges : /\ i \in n.froms <=> At(row.from, b.from, n)
                             /\ i \in n.tos <=> At(row.to, b.to, n)
    BY <2>1, <2>2, <2>4 DEF MergeInv, RowsAtHome, EdgeAtHome
  <2>7. b.from = row.from /\ b.to = row.to
    BY <1>6, <2>3, <2>6, PlacesAre DEF Between
  <2>8. \A n \in merges : i \notin n.froms /\ i \notin n.tos
    BY <1>6, <2>3, <2>6 DEF At, Between
  <2>9. i \notin m.froms /\ i \notin m.tos
    BY <1>4, <1>8, <2>2, <2>3 DEF Between
  <2> QED
    BY <1>2, <2>1, <2>2, <2>3, <2>4, <2>5, <2>7, <2>8, <2>9
<1>19. ASSUME NEW n \in merges, NEW d \in n.deleted
       PROVE  /\ LoopKept(n, d) /\ d.id \in Edges /\ ~Exists(d.id) /\ ~Exists(d.id)'
              /\ d.id \notin m.froms \cup m.tos
  <2>1. LoopKept(n, d) /\ d.id \in Edges /\ ~Exists(d.id)
    BY <1>5, JournalFields DEF MergeInv, RowsAtHome, LoopKept
  <2>2. edge[d.id].from = Nothing /\ edge[d.id].to = Nothing
    BY <2>1 DEF Exists, NoEdge
  <2>3. ~Exists(d.id)'
    BY <1>7, <2>1 DEF Exists
  <2> QED
    BY <1>4, <1>8, <2>1, <2>2, <2>3
<1>20. \A n \in merges' : \A d \in n.deleted : LoopKept(n, d)'
  <2>1. ASSUME NEW d \in m.deleted
        PROVE  LoopKept(m, d)'
    <3>1. ASSUME NEW n \in merges', NEW e \in n.deleted, n # m \/ e # d
          PROVE  d.id # e.id
      <4>1. CASE n \in merges
        BY <1>18, <1>19, <4>1
      <4>2. CASE n = m
        BY <1>3, <1>18, <3>1, <4>2, JournalFields
      <4> QED
        BY <1>2, <4>1, <4>2
    <3>2. ASSUME NEW e \in m.deleted, e # d
          PROVE  d.row # e.row
      <4>1. d.id \in Edges /\ e.id \in Edges /\ d.id # e.id
        BY <1>2, <1>4, <3>1, <3>2
      <4>2. edge[d.id] # edge[e.id]
        BY <1>18, <4>1 DEF MergeInv, GraphIntegrity, Exists
      <4> QED
        BY <1>18, <4>2
    <3> QED
      BY <1>2, <1>18, <3>1, <3>2 DEF LoopKept
  <2>2. ASSUME NEW n \in merges, NEW d \in n.deleted
        PROVE  LoopKept(n, d)'
    <3>1. LoopKept(n, d) /\ ~Exists(d.id)' /\ d.id \notin m.froms \cup m.tos
      BY <1>19
    <3>2. \A o \in merges' : d.id \notin o.froms \cup o.tos
      BY <1>2, <3>1 DEF LoopKept
    <3>3. ASSUME NEW o \in merges', NEW e \in o.deleted, o # n \/ e # d
          PROVE  d.id # e.id
      <4>1. CASE o \in merges
        BY <3>1, <3>3, <4>1 DEF LoopKept
      <4>2. CASE o = m
        BY <1>18, <1>19, <4>2
      <4> QED
        BY <1>2, <4>1, <4>2
    <3> QED
      BY <1>2, <3>1, <3>2, <3>3 DEF LoopKept
  <2> QED
    BY <1>2, <2>1, <2>2
<1>21. RowsAtHome'
  BY <1>16, <1>17, <1>20 DEF RowsAtHome
<1>22. GraphIntegrity(edge)'
  BY <1>2 DEF GraphIntegrity
<1>23. MergeTypes'
  <2>1. edge' \in [Edges -> EdgeRow \cup {NoEdge}]
    BY <1>2, <1>7 DEF MergedEdges, EdgeRows
  <2>2. owner' \in [Records -> Maybe]
    BY <1>2, <1>9
  <2>3. TypeOK'
    BY <1>2, <1>3, <1>5, <1>10, <1>11, <2>1, <2>2 DEF MergeInv, MergeTypes, TypeOK
  <2> QED
    BY <1>2, <1>11, <2>3 DEF MergeInv, MergeTypes
<1> QED
  BY <1>11, <1>13, <1>14, <1>21, <1>22, <1>23 DEF MergeInv

---------------------------------------------------------------------------
(* The split *)

LEMMA CommitSplitStep ==
  ASSUME MergeInv, NEW x \in Requests, CommitSplit(x)
  PROVE  MergeInv'
<1>1. PICK m, rows : m = tx[x].journal /\ rows = tx[x].rows
  OBVIOUS
<1>2. /\ tx[x].pc = "splitting" /\ GraphIntegrity(RestoredEdges(m)) /\ edge' = RestoredEdges(m)
      /\ owner' = [r \in Records |-> IF r \in m.records THEN m.source ELSE owner[r]]
      /\ merges' = merges \ {m} /\ status' = [status EXCEPT ![m.source] = "active"]
      /\ mark' = [mark EXCEPT ![m.source] = m.mark] /\ Set(x, Idle) /\ home' = home
  BY <1>1 DEF CommitSplit
<1>3. m \in Journal /\ m \in merges /\ SplitStands(m, rows)
  BY <1>1, <1>2 DEF MergeInv, MergeTypes, RequestsTyped, RequestsStand, RequestStands,
                    SplitStands, Busy
<1>4. /\ status[m.source] = "merged" /\ rows = m.froms \cup m.tos
      /\ \A i \in m.froms \cup m.tos : Exists(i)
  BY <1>3 DEF SplitStands
<1>5. /\ TypeOK /\ MergesApart /\ LocksApart
      /\ status \in [Entities -> Status] /\ mark \in [Entities -> Maybe]
      /\ owner \in [Records -> Maybe] /\ edge \in [Edges -> EdgeRows] /\ merges \subseteq Journal
  BY DEF MergeInv, MergeTypes, TypeOK, EdgeRows
<1>6. /\ m.source \in Entities /\ m.target \in Entities /\ m.source # m.target
      /\ m.source # Nothing /\ m.target # Nothing /\ m.mark \in Maybe
      /\ m.froms \subseteq Edges /\ m.tos \subseteq Edges
      /\ \A d \in m.deleted : d.id \in Edges /\ d.row \in EdgeRow
  <2>1. m.source \in Entities /\ m.target \in Entities
    BY <1>3, JournalFields
  <2> QED
    BY <1>3, <1>5, <2>1, JournalFields, MergeAssumption DEF MergesApart
\* No other open merge has one of the two entities.
<1>7. \A n \in merges' : /\ n \in merges /\ n # m
                         /\ n.source # m.source /\ n.source # m.target
                         /\ n.target # m.source /\ n.target # m.target
  BY <1>2, <1>3, <1>5, PairApart
<1>8. ASSUME NEW d \in m.deleted
      PROVE  /\ LoopKept(m, d) /\ ~Exists(d.id) /\ Between(d.row, m)
             /\ \A e \in m.deleted : e # d => d.id # e.id
  BY <1>3 DEF MergeInv, RowsAtHome, LoopKept
<1>9. ASSUME NEW i \in Edges
      PROVE  /\ edge'[i] \in EdgeRows
             /\ \A d \in m.deleted : d.id = i => edge'[i] = d.row
             /\ i \notin Deleted(m) =>
                  /\ edge'[i].from = (IF i \in m.froms THEN m.source ELSE edge[i].from)
                  /\ edge'[i].to = (IF i \in m.tos THEN m.source ELSE edge[i].to)
                  /\ edge'[i].kind = edge[i].kind
                  /\ edge'[i] = NoEdge <=> edge[i] = NoEdge
  <2>1. \A d, e \in m.deleted : d # e => d.id # e.id
    BY <1>8
  <2> QED
    BY <1>2, <1>3, <1>4, <1>5, <1>9, <2>1, RestoredRow
\* A deleted relationship is back.
<1>10. ASSUME NEW i \in Edges, i \in Deleted(m)
       PROVE  /\ ~Exists(i) /\ Exists(i)' /\ Between(edge'[i], m)
              /\ home.edge[i].from = edge'[i].from /\ home.edge[i].to = edge'[i].to
              /\ \A n \in merges : i \notin n.froms \cup n.tos
  <2>1. PICK d \in m.deleted : d.id = i
    BY <1>10 DEF Deleted
  <2>2. edge'[i] = d.row /\ d.row \in EdgeRow
    BY <1>6, <1>9, <2>1
  <2>3. Exists(i)'
    <3>1. d.row.from \in Entities
      BY <2>2 DEF EdgeRow
    <3> QED
      BY <2>2, <3>1, MergeAssumption DEF Exists, NoEdge
  <2> QED
    BY <1>8, <2>1, <2>2, <2>3 DEF LoopKept
<1>11. ASSUME NEW r \in Records
       PROVE  /\ owner'[r] = (IF r \in m.records THEN m.source ELSE owner[r])
              /\ owner'[r] \in Maybe
  BY <1>2, <1>5, <1>6 DEF Maybe
<1>12. /\ status' \in [Entities -> Status] /\ mark' \in [Entities -> Maybe]
       /\ \A e \in Entities : e # m.source => status'[e] = status[e]
  BY <1>2, <1>5, <1>6 DEF Status
<1>13. /\ tx' \in [Requests -> Request]
       /\ RequestsTyped' /\ LocksApart' /\ RequestStands(x)'
       /\ \A y \in Requests : y # x => tx'[y] = tx[y]
  BY <1>2, BecomesIdle
\* Records that the merge moved are at the target.
<1>14. ASSUME NEW r \in m.records, r \in Records
       PROVE  owner[r] = m.target
  BY <1>3, <1>14 DEF MergeInv, RowsAtHome, RecordAtHome, At
<1>15. ASSUME NEW y \in Requests, y # x
       PROVE  RequestStands(y)'
  <2> DEFINE E == Pair(m)
  <2>1. Busy(y) => \A e \in Pair(tx[y].journal) : e \notin E
    BY <1>1, <1>2, <1>5, <1>15 DEF LocksApart, Busy
  <2>2. \A e \in Entities : e \notin E => status'[e] = status[e]
    BY <1>12 DEF Pair
  <2>3. \A r \in Records :
          owner'[r] = owner[r] \/ (owner[r] \in E \cup {Nothing} /\ owner'[r] \in E)
    BY <1>11, <1>14 DEF Pair
  <2>4. ASSUME NEW i \in Edges
        PROVE  \/ edge'[i] = edge[i]
               \/ /\ i \notin tx[y].rows
                  /\ edge'[i].from \in E \cup {edge[i].from, Nothing}
                  /\ edge'[i].to \in E \cup {edge[i].to, Nothing}
    <3>1. CASE i \in Deleted(m)
      <4>1. i \notin tx[y].rows
        BY <1>10, <3>1, RowsExist
      <4> QED
        BY <1>10, <3>1, <4>1 DEF Between, Pair
    <3>2. CASE i \notin Deleted(m) /\ i \in rows
      <4>1. i \notin tx[y].rows
        BY <1>1, <1>5, <1>15, <3>2 DEF LocksApart
      <4> QED
        BY <1>9, <3>2, <4>1 DEF Pair
    <3>3. CASE i \notin Deleted(m) /\ i \notin rows
      <4>1. edge'[i].from = edge[i].from /\ edge'[i].to = edge[i].to /\ edge'[i].kind = edge[i].kind
        BY <1>4, <1>9, <3>3
      <4>2. edge[i] \in EdgeRows /\ edge'[i] \in EdgeRows
        BY <1>5, <1>9
      <4> QED
        BY <4>1, <4>2, RowsEqual
    <3> QED
      BY <3>1, <3>2, <3>3
  <2>5. /\ \A n \in merges' : n \in merges \/ Pair(n) \subseteq E
        /\ \A n \in merges : n \in merges' \/ Pair(n) \subseteq E
    BY <1>2
  <2>6. tx'[y] = tx[y]
    BY <1>13, <1>15
  <2> HIDE DEF E
  <2> QED
    BY <2>1, <2>2, <2>3, <2>4, <2>5, <2>6, Footprint
<1>16. RequestsStand'
  BY <1>13, <1>15 DEF RequestsStand
<1>17. MergesApart'
  BY <1>2, <1>5 DEF MergesApart, Pair
\* One place, of a record or of an end of a relationship.
<1>18. ASSUME NEW v, NEW b, v \in Places(b)
       PROVE  LET w == IF At(v, b, m) THEN m.source ELSE v IN
              /\ (w \in Places(b))'
              /\ \A n \in merges' : At(w, b, n) <=> At(v, b, n)
  BY <1>2, <1>3, <1>4, <1>5, <1>18, SplitPlaces
<1>19. ASSUME NEW r \in Records
       PROVE  RecordAtHome(r)'
  <2>1. PICK v, b, w : /\ v = owner[r] /\ b = home.record[r]
                       /\ w = IF At(v, b, m) THEN m.source ELSE v
    OBVIOUS
  <2>2. /\ v = Nothing <=> b = Nothing
        /\ v # Nothing => v \in Places(b)
        /\ \A n \in merges : r \in n.records <=> At(v, b, n)
    BY <2>1 DEF MergeInv, RowsAtHome, RecordAtHome
  <2>3. owner'[r] = w /\ home'.record[r] = b
    BY <1>2, <1>3, <1>11, <2>1, <2>2
  <2>4. CASE v = Nothing
    <3>1. w = Nothing
      BY <1>6, <2>1, <2>4 DEF At
    <3>2. \A n \in merges' : r \in n.records <=> At(w, b, n)
      BY <1>7, <2>2, <2>4, <3>1
    <3> QED
      BY <2>2, <2>3, <2>4, <3>1, <3>2 DEF RecordAtHome, At
  <2>5. CASE v # Nothing
    <3>1. /\ (w \in Places(b))'
          /\ \A n \in merges' : At(w, b, n) <=> At(v, b, n)
      BY <1>18, <2>1, <2>2, <2>5
    <3>2. w # Nothing /\ b # Nothing
      BY <1>6, <2>1, <2>2, <2>5
    <3>3. \A n \in merges' : r \in n.records <=> At(w, b, n)
      BY <1>7, <2>2, <3>1
    <3>4. (owner[r] \in Places(home.record[r]))'
      BY <2>3, <3>1
    <3> QED
      BY <2>3, <3>2, <3>3, <3>4 DEF RecordAtHome, At
  <2> QED
    BY <2>4, <2>5
<1>20. ASSUME NEW i \in Edges, i \notin Deleted(m)
       PROVE  EdgeAtHome(i)'
  <2>1. PICK f, t, b, g, u :
          /\ f = edge[i].from /\ t = edge[i].to /\ b = home.edge[i]
          /\ g = (IF At(f, b.from, m) THEN m.source ELSE f)
          /\ u = (IF At(t, b.to, m) THEN m.source ELSE t)
    OBVIOUS
  <2>2. EdgeAtHome(i)
    BY DEF MergeInv, RowsAtHome
  <2>3. Exists(i)' <=> Exists(i)
    BY <1>9, <1>20 DEF Exists
  <2>4. ASSUME Exists(i)'
        PROVE  (/\ home.edge[i] # NoEdge
                /\ edge[i].from \in Places(home.edge[i].from)
                /\ edge[i].to \in Places(home.edge[i].to)
                /\ \A n \in merges :
                     /\ i \in n.froms <=> At(edge[i].from, home.edge[i].from, n)
                     /\ i \in n.tos <=> At(edge[i].to, home.edge[i].to, n))'
    <3>1. /\ b # NoEdge /\ f \in Places(b.from) /\ t \in Places(b.to)
          /\ \A n \in merges : /\ i \in n.froms <=> At(f, b.from, n)
                               /\ i \in n.tos <=> At(t, b.to, n)
      BY <2>1, <2>2, <2>3, <2>4 DEF EdgeAtHome
    <3>2. edge'[i].from = g /\ edge'[i].to = u /\ home'.edge[i] = b
      BY <1>2, <1>3, <1>9, <1>20, <2>1, <3>1
    <3>3. /\ (g \in Places(b.from))'
          /\ \A n \in merges' : At(g, b.from, n) <=> At(f, b.from, n)
      BY <1>18, <2>1, <3>1
    <3>4. /\ (u \in Places(b.to))'
          /\ \A n \in merges' : At(u, b.to, n) <=> At(t, b.to, n)
      BY <1>18, <2>1, <3>1
    <3>5. \A n \in merges' : /\ i \in n.froms <=> At(g, b.from, n)
                             /\ i \in n.tos <=> At(u, b.to, n)
      BY <1>7, <3>1, <3>3, <3>4
    <3>6. (edge[i].from \in Places(home.edge[i].from) /\ edge[i].to \in Places(home.edge[i].to))'
      BY <3>2, <3>3, <3>4
    <3> QED
      BY <3>1, <3>2, <3>5, <3>6 DEF At
  <2>5. ASSUME ~Exists(i)', home'.edge[i] # NoEdge
        PROVE  \E n \in merges' : i \in Deleted(n)
    <3>1. PICK n \in merges : i \in Deleted(n)
      BY <1>2, <2>2, <2>3, <2>5 DEF EdgeAtHome
    <3> QED
      BY <1>2, <1>20, <3>1
  <2> QED
    BY <2>4, <2>5 DEF EdgeAtHome, Deleted
<1>21. ASSUME NEW i \in Edges, i \in Deleted(m)
       PROVE  EdgeAtHome(i)'
  <2>1. PICK f, t, b : f = edge'[i].from /\ t = edge'[i].to /\ b = home.edge[i]
    OBVIOUS
  <2>2. /\ b.from = f /\ b.to = t /\ home'.edge[i] = b
        /\ f \in {m.source, m.target} /\ t \in {m.source, m.target}
        /\ \A n \in merges' : i \notin n.froms \cup n.tos
    BY <1>2, <1>7, <1>10, <1>21, <2>1 DEF Between
  <2>3. \A e \in {m.source, m.target} : \A n \in merges' : n.source # e /\ n.target # e
    BY <1>7
  <2>4. (f \in Places(f))' /\ (t \in Places(t))'
    BY <2>2, <2>3, PlacesNext
  <2>5. (edge[i].from \in Places(home.edge[i].from) /\ edge[i].to \in Places(home.edge[i].to))'
    BY <2>1, <2>2, <2>4
  <2>6. b # NoEdge
    BY <1>6, <2>2 DEF NoEdge
  <2>7. \A n \in merges' : /\ i \in n.froms <=> At(edge'[i].from, home'.edge[i].from, n)
                           /\ i \in n.tos <=> At(edge'[i].to, home'.edge[i].to, n)
    BY <2>1, <2>2, <2>3 DEF At
  <2> QED
    BY <1>10, <1>21, <2>2, <2>5, <2>6, <2>7 DEF EdgeAtHome, At
<1>22. ASSUME NEW n \in merges', NEW d \in n.deleted
       PROVE  LoopKept(n, d)'
  <2>1. LoopKept(n, d) /\ n # m /\ n \in merges /\ n \in Journal
    BY <1>5, <1>7 DEF MergeInv, RowsAtHome
  <2>2. d.id \in Edges /\ d.id \notin Deleted(m)
    <3>1. \A e \in m.deleted : d.id # e.id
      BY <1>3, <2>1 DEF LoopKept
    <3> QED
      BY <2>1, <3>1, JournalFields DEF Deleted
  <2>3. ~Exists(d.id)'
    BY <1>9, <2>1, <2>2 DEF Exists, LoopKept
  <2> QED
    BY <1>2, <2>1, <2>3 DEF LoopKept
<1>23. RowsAtHome'
  BY <1>19, <1>20, <1>21, <1>22 DEF RowsAtHome
<1>24. GraphIntegrity(edge)'
  BY <1>2 DEF GraphIntegrity
<1>25. MergeTypes'
  <2>1. edge' \in [Edges -> EdgeRow \cup {NoEdge}]
    BY <1>2, <1>9 DEF RestoredEdges, EdgeRows
  <2>2. owner' \in [Records -> Maybe]
    BY <1>2, <1>11
  <2>3. TypeOK'
    BY <1>2, <1>5, <1>12, <1>13, <2>1, <2>2 DEF MergeInv, MergeTypes, TypeOK
  <2> QED
    BY <1>2, <1>13, <2>3 DEF MergeInv, MergeTypes
<1> QED
  BY <1>13, <1>16, <1>17, <1>23, <1>24, <1>25 DEF MergeInv

---------------------------------------------------------------------------
LEMMA MergeStart == Init => MergeInv
<1> SUFFICES ASSUME Init
             PROVE  MergeInv
  OBVIOUS
<1>1. /\ \A x \in Requests : tx[x] = Idle
      /\ merges = {} /\ home \in Homes /\ TypeOK
  BY IdleRequest DEF Init, TypeOK, Homes, EdgeRows, Status, Maybe
<1>2. \A x \in Requests : ~Busy(x) /\ tx[x].pc = "idle" /\ tx[x].journal = NoJournal
                          /\ tx[x].rows = {} /\ tx[x].status = "active"
  BY <1>1, IdleRequest DEF Busy
<1>3. MergeTypes /\ LocksApart /\ RequestsStand
  BY <1>1, <1>2 DEF MergeTypes, RequestsTyped, LocksApart, RequestsStand, RequestStands
<1>4. MergesApart
  BY <1>1 DEF MergesApart
<1>5. RowsAtHome /\ GraphIntegrity(edge)
  BY <1>1 DEF Init, RowsAtHome, RecordAtHome, EdgeAtHome, Exists, GraphIntegrity
<1> QED
  BY <1>3, <1>4, <1>5 DEF MergeInv

LEMMA MergeStep == MergeInv /\ [Next]_vars => MergeInv'
<1> SUFFICES ASSUME MergeInv, [Next]_vars
             PROVE  MergeInv'
  OBVIOUS
<1>1. ASSUME NEW x \in Requests, Work(x)
      PROVE  MergeInv'
  BY <1>1, CheckMergeStep, CommitMergeStep, CheckSplitStep, CommitSplitStep,
     FindMappingStep, PersistMappingStep, RollBackStep DEF Work
<1>2. CASE Edit
  <2>1. ASSUME NEW i \in Edges, NEW f \in Entities, NEW t \in Entities, NEW k \in Kinds,
               CreateRelationship(i, [from |-> f, to |-> t, kind |-> k])
        PROVE  MergeInv'
    <3>1. [from |-> f, to |-> t, kind |-> k] \in EdgeRow
      BY DEF EdgeRow
    <3> QED
      BY <2>1, <3>1, CreateStep
  <2> QED
    BY <1>2, <2>1, AttachStep, RetypeStep, DeleteStep, UpdateStep DEF Edit
<1>3. CASE UNCHANGED vars
  <2>1. /\ status' = status /\ mark' = mark /\ owner' = owner /\ edge' = edge
        /\ merges' = merges /\ tx' = tx /\ home' = home
    BY <1>3 DEF vars
  <2>2. MergesApart' /\ RowsAtHome' /\ GraphIntegrity(edge)'
    BY <2>1, SameRows DEF NoTombstone
  <2>3. MergeTypes'
    BY <2>1 DEF MergeInv, MergeTypes, TypeOK, RequestsTyped, Busy
  <2>4. LocksApart'
    BY <2>1 DEF MergeInv, LocksApart, Busy, Pair
  <2>5. RequestsStand'
    BY <2>1 DEF MergeInv, RequestsStand, RequestStands, JournalStands, MovesApart, SplitStands,
                Participating, Exists, Deleted
  <2> QED
    BY <2>2, <2>3, <2>4, <2>5 DEF MergeInv
<1> QED
  BY <1>1, <1>2, <1>3 DEF Next

\* The invariant of merges, splits and edits holds.
LEMMA MergeInvariant == Spec => []MergeInv
BY MergeStart, MergeStep, PTL DEF Spec

\* Types of the rows, journals and requests of merges and splits.
THEOREM MergesTyped == Spec => []TypeOK
<1>1. MergeInv => TypeOK
  BY DEF MergeInv, MergeTypes
<1> QED
  BY <1>1, MergeInvariant, PTL

\* However merges, splits, edits and mappings overlap, and however many entities
\* and relationships there are: every row belongs to the entity it was created
\* with or to the survivor of its open merge, and a split gives back what its
\* merge took and nothing else (merge_entities, split_merge).
THEOREM RowsFollowMerges == Spec => []OwnersFollowMerges
<1>1. MergeInv => OwnersFollowMerges
  BY MergePromises
<1> QED
  BY <1>1, MergeInvariant, PTL

\* A merge or a split that has passed its own checks never meets the constraints
\* on relationships, nor the trigger against a second open merge of an entity
\* (merge_entity_records, split_entity_records).
THEOREM ChecksAreEnough == Spec => []ChecksSuffice
<1>1. MergeInv => ChecksSuffice
  BY MergePromises
<1> QED
  BY <1>1, MergeInvariant, PTL

\* A split of a tombstone is refused for drift only if somebody has deleted a
\* relationship that the merge had moved (require_complete, split_merge).
THEOREM MergesCanBeSplit == Spec => []SplitsStayPossible
<1>1. MergeInv => SplitsStayPossible
  BY MergePromises
<1> QED
  BY <1>1, MergeInvariant, PTL

---------------------------------------------------------------------------
(* EntityMerge implements MergeContract *)

LEMMA TakenFields ==
  ASSUME NEW m
  PROVE  /\ Taken(m).source = m.source /\ Taken(m).target = m.target
         /\ Taken(m).records = m.records /\ Taken(m).froms = m.froms
         /\ Taken(m).tos = m.tos /\ Taken(m).deleted = m.deleted
BY DEF Taken

LEMMA ContractVars == Contract!mvars = <<status, owner, edge, opened>>
BY DEF Contract!mvars

\* Without the old metadata of the source a journal is still one of its own.
LEMMA OpenedAre ==
  ASSUME MergesApart, NEW m \in merges
  PROVE  /\ Taken(m) \in opened
         /\ {Taken(n) : n \in merges \ {m}} = opened \ {Taken(m)}
<1>1. Taken(m) \in opened
  BY DEF opened
<1>2. ASSUME NEW n \in merges, n # m
      PROVE  Taken(n) # Taken(m)
  <2>1. n.source # m.source
    BY <1>2, PairApart
  <2> QED
    BY <2>1, TakenFields
<1>3. {Taken(n) : n \in merges \ {m}} = opened \ {Taken(m)}
  BY <1>2 DEF opened
<1> QED
  BY <1>1, <1>3

LEMMA ConsistentIsIntegrity ==
  ASSUME NEW edges
  PROVE  Contract!Consistent(edges) <=> GraphIntegrity(edges)
BY DEF Contract!Consistent, GraphIntegrity, Contract!NoRow, NoEdge

LEMMA ContractStutter ==
  ASSUME status' = status, owner' = owner, edge' = edge, merges' = merges
  PROVE  UNCHANGED Contract!mvars
BY ContractVars DEF opened, Contract!mvars

LEMMA ContractInit == Init => Contract!MInit
BY DEF Init, Contract!MInit, opened, Contract!NoRow, NoEdge

LEMMA BetweenEnds ==
  ASSUME NEW m, m.source # m.target, NEW row
  PROVE  Between(row, m) <=> {row.from, row.to} = {m.source, m.target}
BY DEF Between

\* The journal that a merge has taken is the one the contract takes when it commits.
LEMMA ContractMerge ==
  ASSUME MergeInv, NEW x \in Requests, CommitMerge(x)
  PROVE  Contract!MNext
<1>1. PICK m, rows, s, t : /\ m = tx[x].journal /\ rows = tx[x].rows
                           /\ s = m.source /\ t = m.target
  OBVIOUS
<1>2. /\ tx[x].pc = "merging" /\ SingleActive(m) /\ FarEndsAccepted(x)
      /\ GraphIntegrity(MergedEdges(m)) /\ edge' = MergedEdges(m)
      /\ owner' = [r \in Records |-> IF r \in m.records THEN m.target ELSE owner[r]]
      /\ merges' = merges \cup {m} /\ status' = [status EXCEPT ![m.source] = "merged"]
  BY <1>1 DEF CommitMerge
<1>3. m \in Journal /\ JournalStands(m, rows)
  BY <1>1, <1>2 DEF MergeInv, MergeTypes, RequestsTyped, RequestsStand, RequestStands, Busy
<1>4. /\ s \in Entities /\ t \in Entities /\ s # t /\ s # Nothing /\ t # Nothing
      /\ m.froms \subseteq Edges /\ m.tos \subseteq Edges /\ m.records \subseteq Records
      /\ \A d \in m.deleted : d.id \in Edges /\ d.row = edge[d.id]
      /\ m.deleted \subseteq [id : Edges, row : EdgeRow]
  <2>1. s \in Entities /\ t \in Entities
    BY <1>1, <1>3, JournalFields
  <2>2. m.deleted \subseteq [id : Edges, row : EdgeRow]
    BY <1>3 DEF Journal
  <2> QED
    BY <1>1, <1>3, <2>1, <2>2, JournalFields, MergeAssumption DEF JournalStands
<1>5. /\ status \in [Entities -> Status] /\ owner \in [Records -> Maybe]
      /\ edge \in [Edges -> EdgeRows]
  BY DEF MergeInv, MergeTypes, TypeOK, EdgeRows
<1>6. ASSUME NEW i \in Edges
      PROVE  /\ i \in m.froms <=> edge[i].from = s /\ edge[i].to # t
             /\ i \in m.tos <=> edge[i].to = s /\ edge[i].from # t
             /\ i \in Deleted(m) <=> {edge[i].from, edge[i].to} = {s, t}
             /\ edge[i] # NoEdge => edge[i].from # edge[i].to
             /\ edge[i] \in EdgeRows
  <2>1. Between(edge[i], m) <=> {edge[i].from, edge[i].to} = {s, t}
    BY <1>1, <1>4, BetweenEnds
  <2> QED
    BY <1>1, <1>3, <1>5, <1>6, <2>1 DEF JournalStands, MergeInv, GraphIntegrity
<1> DEFINE between == {i \in Edges : {edge[i].from, edge[i].to} = {s, t}}
           taken == [source |-> s, target |-> t, records |-> {r \in Records : owner[r] = s},
                     froms |-> {i \in Edges \ between : edge[i].from = s},
                     tos |-> {i \in Edges \ between : edge[i].to = s},
                     deleted |-> {[id |-> i, row |-> edge[i]] : i \in between}]
<1>7. taken = Taken(m)
  <2>1. m.records = {r \in Records : owner[r] = s}
    BY <1>1, <1>3, <1>4 DEF JournalStands
  <2>2. \A i \in Edges : edge[i].from = s /\ edge[i].to = s => FALSE
    <3>1. ASSUME NEW i \in Edges, edge[i].from = s, edge[i].to = s
          PROVE  FALSE
      <4>1. edge[i] # NoEdge
        BY <1>4, <3>1 DEF NoEdge
      <4> QED
        BY <1>6, <3>1, <4>1
    <3> QED
      BY <3>1
  <2>3. \A i \in Edges : edge[i].from = s => (i \in between <=> edge[i].to = t)
    BY <1>4
  <2>4. \A i \in Edges : edge[i].to = s => (i \in between <=> edge[i].from = t)
    BY <1>4
  <2>5. m.froms = {i \in Edges \ between : edge[i].from = s}
    BY <1>4, <1>6, <2>3
  <2>6. m.tos = {i \in Edges \ between : edge[i].to = s}
    BY <1>4, <1>6, <2>4
  <2>7. m.deleted = {[id |-> i, row |-> edge[i]] : i \in between}
    <3>1. ASSUME NEW d \in m.deleted
          PROVE  d \in {[id |-> i, row |-> edge[i]] : i \in between}
      <4>1. d.id \in Deleted(m)
        BY DEF Deleted
      <4>2. d.id \in between
        BY <1>4, <1>6, <4>1
      <4>3. d = [id |-> d.id, row |-> edge[d.id]]
        BY <1>4
      <4> QED
        BY <4>2, <4>3
    <3>2. ASSUME NEW i \in between
          PROVE  [id |-> i, row |-> edge[i]] \in m.deleted
      <4>1. i \in Deleted(m)
        BY <1>6, <3>2
      <4>2. PICK d \in m.deleted : d.id = i
        BY <4>1 DEF Deleted
      <4>3. d = [id |-> i, row |-> edge[i]]
        BY <1>4, <4>2
      <4> QED
        BY <4>2, <4>3
    <3> QED
      BY <3>1, <3>2
  <2> HIDE DEF between
  <2> QED
    BY <1>1, <2>1, <2>5, <2>6, <2>7 DEF Taken
<1>8. opened' = opened \cup {taken}
  BY <1>2, <1>7 DEF opened
<1>9. owner' = [r \in Records |-> Contract!Replaced(owner[r], s, t)]
  BY <1>1, <1>2, <1>3, <1>4 DEF JournalStands, Contract!Replaced
<1>10. edge' = [i \in Edges |-> Contract!Redirected(edge[i], s, t)]
  <2>1. ASSUME NEW i \in Edges
        PROVE  MergedEdges(m)[i] = Contract!Redirected(edge[i], s, t)
    <3>1. CASE i \in Deleted(m)
      BY <1>6, <3>1 DEF MergedEdges, Contract!Redirected, Contract!NoRow, NoEdge
    <3>2. CASE i \notin Deleted(m)
      <4>1. /\ (IF i \in m.froms THEN m.target ELSE edge[i].from)
                 = Contract!Replaced(edge[i].from, s, t)
            /\ (IF i \in m.tos THEN m.target ELSE edge[i].to)
                 = Contract!Replaced(edge[i].to, s, t)
        BY <1>1, <1>6, <3>2 DEF Contract!Replaced
      <4>2. MergedEdges(m)[i] =
              [edge[i] EXCEPT !.from = IF i \in m.froms THEN m.target ELSE edge[i].from,
                              !.to = IF i \in m.tos THEN m.target ELSE edge[i].to]
        BY <3>2 DEF MergedEdges
      <4>3. Contract!Redirected(edge[i], s, t) =
              [edge[i] EXCEPT !.from = Contract!Replaced(edge[i].from, s, t),
                              !.to = Contract!Replaced(edge[i].to, s, t)]
        BY <1>6, <3>2 DEF Contract!Redirected
      <4> QED
        BY <4>1, <4>2, <4>3
    <3> QED
      BY <3>1, <3>2
  <2> QED
    BY <1>2, <2>1 DEF MergedEdges
<1>11. Contract!HandedToActive(taken.froms \cup taken.tos)
  <2>1. ASSUME NEW i \in m.froms \cup m.tos
        PROVE  status'[edge'[i].from] = "active" /\ status'[edge'[i].to] = "active"
    <3>1. /\ i \in Edges /\ i \notin Deleted(m) /\ edge[i] # NoEdge
          /\ edge[i].from \in Entities /\ edge[i].to \in Entities
      BY <1>4, <1>6, RowFields DEF NoEdge
    <3>2. /\ edge'[i].from = Moved(edge[i].from, s, t)
          /\ edge'[i].to = Moved(edge[i].to, s, t)
      BY <1>1, <1>2, <1>3, <3>1, MergedRow DEF MergeInv, MergeTypes
    <3>3. status[t] = "active"
      BY <1>1, <1>3 DEF JournalStands, Pair
    <3>4. \A e \in {edge[i].from, edge[i].to} \ {s, t} : status[e] = "active"
      BY <1>1, <1>2 DEF FarEndsAccepted, OwnerAccepted, Ends
    <3> QED
      BY <1>1, <1>2, <1>4, <1>5, <3>1, <3>2, <3>3, <3>4 DEF Moved
  <2>2. m.froms = taken.froms /\ m.tos = taken.tos
    BY <1>7, TakenFields
  <2> HIDE DEF taken
  <2> QED
    BY <2>1, <2>2 DEF Contract!HandedToActive
<1>12. Contract!Consistent(edge')
  BY <1>2, ConsistentIsIntegrity
<1>13. \A k \in opened : {s, t} \cap {k.source, k.target} = {}
  BY <1>1, <1>2, TakenFields DEF opened, SingleActive
<1>14. Contract!Active(s) /\ Contract!Active(t)
  BY <1>1, <1>3 DEF JournalStands, Pair, Contract!Active
<1>15. Contract!Merge(s, t)
  BY <1>1, <1>2, <1>4, <1>8, <1>9, <1>10, <1>11, <1>12, <1>13, <1>14 DEF Contract!Merge
<1> QED
  BY <1>4, <1>15 DEF Contract!MNext

\* What a split gives back is what its journal took, found with the target.
LEMMA ContractSplit ==
  ASSUME MergeInv, NEW x \in Requests, CommitSplit(x)
  PROVE  Contract!MNext
<1>1. PICK m, rows, j : m = tx[x].journal /\ rows = tx[x].rows /\ j = Taken(m)
  OBVIOUS
<1>2. /\ tx[x].pc = "splitting" /\ FarEndsAccepted(x)
      /\ GraphIntegrity(RestoredEdges(m)) /\ edge' = RestoredEdges(m)
      /\ owner' = [r \in Records |-> IF r \in m.records THEN m.source ELSE owner[r]]
      /\ merges' = merges \ {m} /\ status' = [status EXCEPT ![m.source] = "active"]
  BY <1>1 DEF CommitSplit
<1>3. m \in merges /\ SplitStands(m, rows)
  BY <1>1, <1>2 DEF MergeInv, RequestsStand, RequestStands, SplitStands
<1>4. /\ status[m.source] = "merged" /\ status[m.target] = "active"
      /\ \A i \in m.froms \cup m.tos : Exists(i)
  BY <1>3 DEF SplitStands
<1>5. /\ m \in Journal /\ status \in [Entities -> Status] /\ owner \in [Records -> Maybe]
      /\ edge \in [Edges -> EdgeRows] /\ MergesApart /\ TypeOK
  BY <1>3 DEF MergeInv, MergeTypes, TypeOK, EdgeRows
<1>6. /\ m.source \in Entities /\ m.target \in Entities /\ m.source # m.target
      /\ m.froms \subseteq Edges /\ m.tos \subseteq Edges /\ m.records \subseteq Records
      /\ \A d \in m.deleted : d.id \in Edges /\ d.row \in EdgeRow
  BY <1>3, <1>5, JournalFields DEF MergesApart
<1>7. Undrifted(m)
  BY <1>3, <1>4, SplitFindsAll DEF MergeInv
<1>8. \A d \in m.deleted : ~Exists(d.id) /\ Between(d.row, m)
  BY <1>3 DEF MergeInv, RowsAtHome, LoopKept
<1>9. /\ j.source = m.source /\ j.target = m.target /\ j.records = m.records
      /\ j.froms = m.froms /\ j.tos = m.tos /\ j.deleted = m.deleted
      /\ {d.id : d \in j.deleted} = Deleted(m)
  BY <1>1, TakenFields DEF Deleted
<1>10. j \in opened /\ opened' = opened \ {j}
  <2>1. opened' = {Taken(n) : n \in merges \ {m}}
    BY <1>2 DEF opened
  <2> QED
    BY <1>1, <1>3, <1>5, <2>1, OpenedAre
<1>11. \A i \in Deleted(m) : edge[i] = Contract!NoRow
  BY <1>8 DEF Deleted, Exists, NoEdge, Contract!NoRow
<1>12. edge' = [i \in Edges |->
                  IF i \in Deleted(m) THEN (CHOOSE d \in j.deleted : d.id = i).row
                  ELSE [edge[i] EXCEPT !.from = IF i \in j.froms THEN j.source ELSE @,
                                       !.to = IF i \in j.tos THEN j.source ELSE @]]
  <2>1. PICK froms, tos, deleted, old :
          /\ froms = m.froms /\ tos = m.tos /\ deleted = m.deleted /\ old = m.source
    OBVIOUS
  <2>2. RestoredEdges(m) =
          [i \in Edges |->
             IF i \in Deleted(m) THEN (CHOOSE d \in deleted : d.id = i).row
             ELSE [edge[i] EXCEPT !.from = IF i \in froms THEN old ELSE @,
                                  !.to = IF i \in tos THEN old ELSE @]]
    BY <2>1 DEF RestoredEdges
  <2>3. j.froms = froms /\ j.tos = tos /\ j.deleted = deleted /\ j.source = old
    BY <1>9, <2>1
  <2> QED
    BY <1>2, <2>2, <2>3
<1>13. Contract!HandedToActive(j.froms \cup j.tos \cup Deleted(m))
  <2>1. /\ status'[m.source] = "active" /\ status'[m.target] = "active"
        /\ \A e \in Entities : status[e] = "active" => status'[e] = "active"
    BY <1>2, <1>4, <1>5, <1>6
  <2>2. ASSUME NEW i \in Edges
        PROVE  /\ \A d \in m.deleted : d.id = i => edge'[i] = d.row
               /\ i \notin Deleted(m) =>
                    /\ edge'[i].from = (IF i \in m.froms THEN m.source ELSE edge[i].from)
                    /\ edge'[i].to = (IF i \in m.tos THEN m.source ELSE edge[i].to)
    <3>1. \A d, e \in m.deleted : d # e => d.id # e.id
      BY <1>3 DEF MergeInv, RowsAtHome, LoopKept
    <3> QED
      BY <1>2, <1>4, <1>5, <2>2, <3>1, RestoredRow
  <2>3. ASSUME NEW i \in m.froms \cup m.tos
        PROVE  status'[edge'[i].from] = "active" /\ status'[edge'[i].to] = "active"
    <3>1. /\ i \in Edges /\ i \notin Deleted(m)
          /\ edge[i].from \in Entities /\ edge[i].to \in Entities
      <4>1. i \in Edges /\ edge[i] # NoEdge
        BY <1>4, <1>6 DEF Exists
      <4>2. i \notin Deleted(m)
        BY <1>4, <1>8 DEF Deleted
      <4> QED
        BY <1>5, <4>1, <4>2, RowFields
    <3>2. \A e \in {edge[i].from, edge[i].to} \ {m.source, m.target} : status[e] = "active"
      BY <1>1, <1>2 DEF FarEndsAccepted, OwnerAccepted, Ends
    <3> QED
      BY <2>1, <2>2, <3>1, <3>2
  <2>4. ASSUME NEW i \in Deleted(m)
        PROVE  status'[edge'[i].from] = "active" /\ status'[edge'[i].to] = "active"
    <3>1. PICK d \in m.deleted : d.id = i
      BY DEF Deleted
    <3>2. edge'[i] = d.row /\ Between(d.row, m)
      BY <1>6, <1>8, <2>2, <3>1
    <3> QED
      BY <2>1, <3>2 DEF Between
  <2> QED
    BY <1>9, <2>3, <2>4 DEF Contract!HandedToActive
<1>14. Contract!Consistent(edge')
  BY <1>2, ConsistentIsIntegrity
<1>15. Contract!Split(j)
  BY <1>2, <1>4, <1>7, <1>9, <1>10, <1>11, <1>12, <1>13, <1>14
     DEF Contract!Split, Contract!Active, Undrifted
<1> QED
  BY <1>10, <1>15 DEF Contract!MNext

\* An edit is one of the contract's, but for that of the metadata.
LEMMA ContractEdit ==
  ASSUME MergeInv, Edit
  PROVE  [Contract!MNext]_(Contract!mvars)
<1>1. ASSUME NEW r \in Records, NEW e \in Entities, Attach(r, e)
      PROVE  Contract!MNext
  <2>1. Contract!Attach(r, e)
    BY <1>1 DEF Attach, OwnerAccepted, Contract!Attach, Contract!Active, opened
  <2> QED
    BY <2>1 DEF Contract!MNext
<1>2. ASSUME NEW i \in Edges, NEW f \in Entities, NEW t \in Entities, NEW k \in Kinds,
             CreateRelationship(i, [from |-> f, to |-> t, kind |-> k])
      PROVE  Contract!MNext
  <2>1. /\ Fresh(i) /\ status[f] = "active" /\ status[t] = "active"
        /\ edge' = [edge EXCEPT ![i] = [from |-> f, to |-> t, kind |-> k]]
        /\ GraphIntegrity(edge')
        /\ status' = status /\ owner' = owner /\ merges' = merges
    BY <1>2 DEF CreateRelationship, OwnerAccepted
  <2>2. \A j \in opened : i \notin j.froms \cup j.tos \cup {d.id : d \in j.deleted}
    BY <2>1, TakenFields DEF opened, Fresh, Deleted
  <2>3. Contract!Consistent(edge')
    BY <2>1, ConsistentIsIntegrity
  <2>4. Contract!Relate(i, f, t, k)
    BY <2>1, <2>2, <2>3
       DEF Contract!Relate, Contract!Active, Contract!NoRow, Fresh, Exists, NoEdge, opened
  <2> QED
    BY <2>4 DEF Contract!MNext
<1>3. ASSUME NEW i \in Edges, NEW k \in Kinds, UpdateRelationship(i, k)
      PROVE  Contract!MNext
  <2>1. Contract!Consistent(edge')
    BY <1>3, ConsistentIsIntegrity DEF UpdateRelationship
  <2>2. Contract!Retype(i, k)
    BY <1>3, <2>1
       DEF UpdateRelationship, Contract!Retype, Contract!NoRow, Exists, NoEdge, opened
  <2> QED
    BY <2>2 DEF Contract!MNext
<1>4. ASSUME NEW i \in Edges, DeleteRelationship(i)
      PROVE  Contract!MNext
  <2>1. Contract!Unrelate(i)
    BY <1>4 DEF DeleteRelationship, Contract!Unrelate, Contract!NoRow, NoEdge, opened
  <2> QED
    BY <2>1 DEF Contract!MNext
<1>5. ASSUME NEW e \in Entities, NEW v \in Maybe, UpdateEntity(e, v)
      PROVE  UNCHANGED Contract!mvars
  BY <1>5, ContractStutter DEF UpdateEntity
<1> QED
  BY <1>1, <1>2, <1>3, <1>4, <1>5 DEF Edit

\* The first step of a request changes no row; a mapping declares a lifecycle.
LEMMA ContractWork ==
  ASSUME MergeInv, NEW x \in Requests, Work(x)
  PROVE  [Contract!MNext]_(Contract!mvars)
<1>1. ASSUME NEW s \in Entities, NEW t \in Entities, CheckMerge(x, s, t)
      PROVE  UNCHANGED Contract!mvars
  BY <1>1, ContractStutter DEF CheckMerge
<1>2. ASSUME NEW m \in merges, CheckSplit(x, m)
      PROVE  UNCHANGED Contract!mvars
  BY <1>2, ContractStutter DEF CheckSplit
<1>3. ASSUME NEW r \in Records, NEW s, NEW c, FindMapping(x, r, s, c)
      PROVE  UNCHANGED Contract!mvars
  BY <1>3, ContractStutter DEF FindMapping
<1>4. CASE RollBack(x)
  BY <1>4, ContractStutter DEF RollBack
<1>5. CASE PersistMapping(x)
  <2>1. PICK m : m = tx[x]
    OBVIOUS
  <2>2. /\ m.pc = "mapping"
        /\ status' = IF m.sets THEN [status EXCEPT ![m.entity] = m.status] ELSE status
        /\ owner' = owner /\ edge' = edge /\ merges' = merges
    BY <1>5, <2>1 DEF PersistMapping
  <2>3. m.entity \in Entities /\ m.status \in {"active", "inactive"}
    <3>1. m.entity \in Entities /\ m.status # "merged"
      BY <2>1, <2>2 DEF MergeInv, MergeTypes, RequestsTyped
    <3>2. m.status \in Status
      BY <2>1 DEF MergeInv, MergeTypes, TypeOK, Request
    <3> QED
      BY <3>1, <3>2 DEF Status
  <2>4. CASE m.sets
    <3>1. Contract!Declare(m.entity, m.status)
      BY <2>2, <2>4 DEF Contract!Declare, opened
    <3> QED
      BY <2>3, <3>1 DEF Contract!MNext
  <2>5. CASE ~m.sets
    BY <2>2, <2>5, ContractStutter
  <2> QED
    BY <2>4, <2>5
<1> QED
  BY <1>1, <1>2, <1>3, <1>4, <1>5, ContractMerge, ContractSplit DEF Work

LEMMA ContractStep ==
  MergeInv /\ [Next]_vars => [Contract!MNext]_(Contract!mvars)
<1> SUFFICES ASSUME MergeInv, [Next]_vars
             PROVE  [Contract!MNext]_(Contract!mvars)
  OBVIOUS
<1>1. CASE UNCHANGED vars
  BY <1>1, ContractStutter DEF vars
<1>2. ASSUME NEW x \in Requests, Work(x)
      PROVE  [Contract!MNext]_(Contract!mvars)
  BY <1>2, ContractWork
<1> QED
  BY <1>1, <1>2, ContractEdit DEF Next

\* However many entities, rows and requests there are, merges and splits that
\* overlap in two steps each, beside edits and mappings, are those of
\* MergeContract, where each is one step: serial, with a journal of exactly what
\* was moved at that moment (merge_entities, split_merge).
THEOREM MergesImplementContract == Spec => ImplementsMergeContract
<1>1. Init => Contract!MInit
  BY ContractInit
<1>2. MergeInv /\ [Next]_vars => [Contract!MNext]_(Contract!mvars)
  BY ContractStep
<1> QED
  BY <1>1, <1>2, MergeInvariant, PTL DEF Spec, ImplementsMergeContract, Contract!MSpec
=============================================================================
