------------------------ MODULE CustomerReports_proofs ------------------------
(***************************************************************************)
(* Proofs about CustomerReports: the history of an entity is stable and    *)
(* ends in its row, a report of a settled instant is of that instant, and  *)
(* a saved answer is grounded in what existed then, for every number of    *)
(* entities, requests, revisions and instants.                             *)
(*                                                                         *)
(* And about CustomerRisk: a score that falls on bad news leaves a data    *)
(* gap, for all amounts and any number of facts.                           *)
(***************************************************************************)
EXTENDS CustomerReports, CustomerRisk, TLAPS

---------------------------------------------------------------------------
(* Type correctness *)

\* A run that waits to be saved has been decided.
RunsDecided ==
  \A q \in Reporters : report[q].pc = "saving" => report[q].status # "none"

TypeInv == ReportsTypeOK /\ RunsDecided

\* The steps that change the history of entities or the locks on their rows.
HistorySteps(e) ==
  \/ CreateEntity(e)
  \/ \E state \in {"active", "inactive"} : UpdateEntity(e, state)
  \/ DeleteEntity(e)
  \/ CommitEntity(e)
  \/ RollbackEntity(e)

\* The steps of a request.
RequestSteps(q) ==
  \/ AskReport(q)
  \/ ReadCustomer(q)
  \/ ReadRelated(q)
  \/ ReadTargets(q)
  \/ ReadEvidence(q)
  \/ Respond(q)
  \/ AskProvider(q)
  \/ \E cites \in SUBSET Items : ValidateDraft(q, cites)
  \/ \E member \in BOOLEAN : SaveRun(q, member) \/ RefuseRun(q, member)

LEMMA Stamping ==
  /\ Instants \subseteq Stamps /\ Stamps \subseteq Int
  /\ Instants \subseteq Int /\ Never \in Int
  /\ \A t \in Stamps : t # Never /\ t <= LastInstant + Ahead
BY ReportsAssumption DEF Instants, Stamps, Never

\* The statements that take the lock of an entity's row.
LEMMA Opening ==
  ASSUME TypeInv, NEW e \in Entities,
         \/ CreateEntity(e)
         \/ \E state \in {"active", "inactive"} : UpdateEntity(e, state)
         \/ DeleteEntity(e)
  PROVE  /\ ~writer[e].open
         /\ UNCHANGED <<now, entity, revisions, related, evidence, report, runs>>
         /\ \E w \in Writer :
              /\ writer' = [writer EXCEPT ![e] = w]
              /\ w.open /\ w.began = now /\ w.at >= now - Ahead
              /\ \A r \in revisions : r.of = e => r.at # w.at
              /\ \/ entity[e].state # "absent" /\ w.at = now
                 \/ RevisionsUpTo(e, LastInstant + Ahead) = {}
<1>1. now \in Instants /\ now \in Stamps
  BY Stamping DEF TypeInv, ReportsTypeOK
<1>2. ASSUME NEW state \in Lifecycle, NEW at \in Stamps, OpenWriter(e, state, at),
             at >= now - Ahead,
             \/ entity[e].state # "absent" /\ at = now
             \/ RevisionsUpTo(e, LastInstant + Ahead) = {}
      PROVE  /\ ~writer[e].open
             /\ UNCHANGED <<now, entity, revisions, related, evidence, report, runs>>
             /\ \E w \in Writer :
                  /\ writer' = [writer EXCEPT ![e] = w]
                  /\ w.open /\ w.began = now /\ w.at >= now - Ahead
                  /\ \A r \in revisions : r.of = e => r.at # w.at
                  /\ \/ entity[e].state # "absent" /\ w.at = now
                     \/ RevisionsUpTo(e, LastInstant + Ahead) = {}
  <2> DEFINE w == [open |-> TRUE, state |-> state, at |-> at, began |-> now]
  <2>1. w \in Writer /\ w.open /\ w.began = now /\ w.at = at
    BY <1>1 DEF Writer
  <2>2. /\ ~writer[e].open
        /\ UNCHANGED <<now, entity, revisions, related, evidence, report, runs>>
        /\ writer' = [writer EXCEPT ![e] = w]
        /\ \A r \in revisions : r.of = e => r.at # at
    BY <1>2 DEF OpenWriter
  <2> HIDE DEF w
  <2> QED
    BY <1>2, <2>1, <2>2
<1>3. CASE CreateEntity(e)
  <2>1. PICK at \in AppClock : OpenWriter(e, "active", at)
    BY <1>3 DEF CreateEntity
  <2>2. RevisionsUpTo(e, LastInstant + Ahead) = {}
    BY <1>3 DEF CreateEntity
  <2>3. at \in Stamps /\ at >= now - Ahead
    BY DEF AppClock
  <2> QED
    BY <1>2, <2>1, <2>2, <2>3 DEF Lifecycle
<1>4. now >= now - Ahead
  BY <1>1, Stamping, ReportsAssumption
<1>5. CASE \E state \in {"active", "inactive"} : UpdateEntity(e, state)
  BY <1>1, <1>2, <1>4, <1>5 DEF UpdateEntity, Lifecycle
<1>6. CASE DeleteEntity(e)
  BY <1>1, <1>2, <1>4, <1>6 DEF DeleteEntity, Lifecycle
<1> QED
  BY <1>3, <1>5, <1>6

\* What the trigger adds with the commit.
LEMMA Committing ==
  ASSUME TypeInv, NEW e \in Entities, CommitEntity(e)
  PROVE  /\ writer[e].open
         /\ UNCHANGED <<now, related, evidence, report, runs>>
         /\ writer' = [writer EXCEPT ![e] = NoWriter] /\ NoWriter \in Writer
         /\ \E n \in Revision, row \in EntityRow :
              /\ n.of = e /\ n.state = writer[e].state /\ n.at = writer[e].at
              /\ revisions' = revisions \cup {n}
              /\ entity' = [entity EXCEPT ![e] = row]
              /\ row.state = n.state /\ row.written = n.at
              /\ row.created = IF entity[e].created = Never THEN n.at
                               ELSE entity[e].created
<1> DEFINE n   == [of |-> e, state |-> writer[e].state, at |-> writer[e].at]
           row == [state |-> writer[e].state,
                   created |-> IF entity[e].created = Never THEN writer[e].at
                               ELSE entity[e].created,
                   written |-> writer[e].at]
<1>1. PICK w \in Writer : w = writer[e]
  BY DEF TypeInv, ReportsTypeOK
<1>2. PICK old \in EntityRow : old = entity[e]
  BY DEF TypeInv, ReportsTypeOK
<1>3. n \in Revision /\ n.of = e /\ n.state = writer[e].state /\ n.at = writer[e].at
  BY <1>1 DEF Writer, Revision
<1>4. row \in EntityRow
  BY <1>1, <1>2 DEF Writer, EntityRow
<1>5. /\ row.state = n.state /\ row.written = n.at
      /\ row.created = IF entity[e].created = Never THEN n.at ELSE entity[e].created
  OBVIOUS
<1>6. /\ writer[e].open
      /\ UNCHANGED <<now, related, evidence, report, runs>>
      /\ writer' = [writer EXCEPT ![e] = NoWriter]
      /\ revisions' = revisions \cup {n}
      /\ entity' = [entity EXCEPT ![e] = row]
  BY DEF CommitEntity, Recorded, Captured
<1>7. NoWriter \in Writer
  BY Stamping, ReportsAssumption DEF NoWriter, Writer, Lifecycle, Instants, Stamps
<1> HIDE DEF n, row
<1> QED
  BY <1>3, <1>4, <1>5, <1>6, <1>7

\* How a request gets from one report to the next.
Continues(r, n) ==
  \/ n.pc = "idle" /\ ~n.settled
  \/ n.pc = "asked" /\ (n.settled => Settled(n.asOf))
  \/ /\ r.pc # "idle" /\ n.asOf = r.asOf
     /\ n.settled => r.settled
     /\ \/ n.pc = "customer" /\ StateAt(Customer, n.asOf) = "active"
        \/ r.pc = "customer" /\ n.pc = "related"
        \/ /\ r.pc = "related" /\ n.pc = "targets"
           /\ n.active = {e \in n.links : StateAt(e, n.asOf) = "active"}
        \/ /\ r.pc = "targets" /\ n.pc = "read"
           /\ n.active = r.active /\ n.links = r.links /\ n.items = ItemsAt(n.asOf)
        \/ /\ n.items = r.items
           /\ \/ r.pc = "read" /\ n.pc = "thinking"
              \/ r.pc = "read" /\ n.pc = "saving" /\ n.status = "failed"
              \/ r.pc = "thinking" /\ n.pc = "saving" /\ n.status = "failed"
              \/ /\ r.pc = "thinking" /\ n.pc = "saving" /\ n.status = "succeeded"
                 /\ Grounded(n.cites, n.items)
        \/ n.pc = "refused"

\* A request changes its own report only, and saves at most the run it has
\* decided.
LEMMA Requests ==
  ASSUME TypeInv, NEW q \in Reporters, RequestSteps(q)
  PROVE  /\ UNCHANGED <<now, entity, revisions, writer, related, evidence>>
         /\ \E n \in Report :
              report' = [report EXCEPT ![q] = n] /\ Continues(report[q], n)
         /\ \/ runs' = runs
            \/ \E member \in BOOLEAN : SaveRun(q, member)
<1>1. PICK r \in Report : r = report[q]
  BY DEF TypeInv, ReportsTypeOK
<1>2. 0 \in Instants
  BY ReportsAssumption DEF Instants
<1>3. NoReport \in Report /\ Continues(r, NoReport)
  BY <1>2 DEF NoReport, Report, Continues
<1> DEFINE Goes(n) == report' = [report EXCEPT ![q] = n]
           Kept    == UNCHANGED <<now, entity, revisions, writer, related, evidence>>
           Kinds   == runs' = runs \/ \E member \in BOOLEAN : SaveRun(q, member)
<1> SUFFICES Kept /\ Kinds /\ \E n \in Report : Goes(n) /\ Continues(r, n)
  BY <1>1
<1>5. CASE AskReport(q)
  <2>1. PICK t \in Instants :
          Goes([NoReport EXCEPT !.pc = "asked", !.asOf = t, !.settled = Settled(t)])
    BY <1>5 DEF AskReport
  <2>2. PICK settled \in BOOLEAN : settled = Settled(t)
    BY DEF Settled
  <2> DEFINE n == [NoReport EXCEPT !.pc = "asked", !.asOf = t, !.settled = settled]
  <2>3. n \in Report /\ n.pc = "asked" /\ n.asOf = t /\ n.settled = settled
    BY <1>3 DEF Report
  <2>4. Goes(n)
    BY <2>1, <2>2
  <2> HIDE DEF n
  <2>5. Continues(r, n)
    BY <2>2, <2>3 DEF Continues
  <2> QED
    BY <1>5, <2>3, <2>4, <2>5 DEF AskReport
<1>6. CASE ReadCustomer(q)
  <2>0. Kept /\ Kinds /\ r.pc = "asked"
    BY <1>1, <1>6 DEF ReadCustomer
  <2>1. CASE StateAt(Customer, r.asOf) = "active"
    <3> DEFINE n == [r EXCEPT !.pc = "customer"]
    <3>1. n \in Report /\ n.pc = "customer" /\ n.asOf = r.asOf /\ n.settled = r.settled
      BY DEF Report
    <3>2. Goes(n)
      BY <1>1, <1>6, <2>1 DEF ReadCustomer
    <3> HIDE DEF n
    <3>3. Continues(r, n)
      BY <2>0, <2>1, <3>1 DEF Continues
    <3> QED
      BY <2>0, <3>1, <3>2, <3>3
  <2>2. CASE StateAt(Customer, r.asOf) # "active"
    <3>1. Goes(NoReport)
      BY <1>1, <1>6, <2>2 DEF ReadCustomer
    <3> QED
      BY <1>3, <2>0, <3>1
  <2> QED
    BY <2>1, <2>2
<1>7. CASE ReadRelated(q)
  <2> DEFINE links == {e \in Records : related[e] \in 0 .. r.asOf}
             n     == [r EXCEPT !.pc = "related", !.links = links]
  <2>1. links \in SUBSET Records
    OBVIOUS
  <2>2. Goes(n) /\ r.pc = "customer"
    BY <1>1, <1>7 DEF ReadRelated
  <2> HIDE DEF links
  <2>3. n \in Report /\ n.pc = "related" /\ n.asOf = r.asOf /\ n.settled = r.settled
    BY <2>1 DEF Report
  <2> HIDE DEF n
  <2>4. Continues(r, n)
    BY <2>2, <2>3 DEF Continues
  <2> QED
    BY <1>7, <2>2, <2>3, <2>4 DEF ReadRelated
<1>8. CASE ReadTargets(q)
  <2> DEFINE active == {e \in r.links : StateAt(e, r.asOf) = "active"}
             n      == [r EXCEPT !.pc = "targets", !.active = active]
  <2>1. active \in SUBSET Records
    BY DEF Report
  <2>2. Goes(n) /\ r.pc = "related"
    BY <1>1, <1>8 DEF ReadTargets, TargetState
  <2>3. /\ n \in Report /\ n.pc = "targets" /\ n.asOf = r.asOf /\ n.settled = r.settled
        /\ n.links = r.links /\ n.active = active
    <3> HIDE DEF active
    <3> QED
      BY <2>1 DEF Report
  <2> HIDE DEF n
  <2>4. Continues(r, n)
    BY <2>2, <2>3 DEF Continues
  <2> QED
    BY <1>8, <2>2, <2>3, <2>4 DEF ReadTargets
<1>9. CASE ReadEvidence(q)
  <2> DEFINE items == ItemsAt(r.asOf)
             n     == [r EXCEPT !.pc = "read", !.items = items]
  <2>1. items \in SUBSET Items
    BY DEF ItemsAt
  <2>2. Goes(n) /\ r.pc = "targets"
    BY <1>1, <1>9 DEF ReadEvidence
  <2>3. /\ n \in Report /\ n.pc = "read" /\ n.asOf = r.asOf /\ n.settled = r.settled
        /\ n.active = r.active /\ n.links = r.links /\ n.items = items
    <3> HIDE DEF items
    <3> QED
      BY <2>1 DEF Report
  <2> HIDE DEF n
  <2>4. Continues(r, n)
    BY <2>2, <2>3 DEF Continues
  <2> QED
    BY <1>9, <2>2, <2>3, <2>4 DEF ReadEvidence
<1>10. CASE Respond(q)
  BY <1>3, <1>10 DEF Respond
<1>11. CASE AskProvider(q)
  <2> DEFINE question == [NoReport EXCEPT !.asOf = r.asOf, !.items = r.items]
             failed   == [question EXCEPT !.pc = "saving", !.status = "failed"]
             thinking == [question EXCEPT !.pc = "thinking"]
  <2>1. Goes(failed) \/ Goes(thinking)
    BY <1>1, <1>11 DEF AskProvider
  <2>2. /\ question \in Report /\ ~question.settled
        /\ question.asOf = r.asOf /\ question.items = r.items
    BY <1>3 DEF Report, NoReport
  <2> HIDE DEF question
  <2>3. /\ failed \in Report /\ failed.pc = "saving" /\ failed.status = "failed"
        /\ ~failed.settled /\ failed.asOf = r.asOf /\ failed.items = r.items
        /\ thinking \in Report /\ thinking.pc = "thinking"
        /\ ~thinking.settled /\ thinking.asOf = r.asOf /\ thinking.items = r.items
    BY <2>2 DEF Report
  <2> HIDE DEF failed, thinking
  <2>4. r.pc = "read" /\ Kept /\ Kinds
    BY <1>1, <1>11 DEF AskProvider
  <2>5. Continues(r, failed) /\ Continues(r, thinking)
    BY <2>3, <2>4 DEF Continues
  <2> QED
    BY <2>1, <2>3, <2>4, <2>5
<1>12. ASSUME NEW cites \in SUBSET Items, ValidateDraft(q, cites)
       PROVE  Kept /\ Kinds /\ \E n \in Report : Goes(n) /\ Continues(r, n)
  <2> DEFINE good == [r EXCEPT !.pc = "saving", !.status = "succeeded", !.cites = cites]
             bad  == [r EXCEPT !.pc = "saving", !.status = "failed"]
  <2>1. IF Grounded(cites, r.items) THEN Goes(good) ELSE Goes(bad)
    BY <1>1, <1>12 DEF ValidateDraft
  <2>2. /\ good \in Report /\ good.pc = "saving" /\ good.status = "succeeded"
        /\ good.settled = r.settled /\ good.asOf = r.asOf /\ good.items = r.items
        /\ good.cites = cites
        /\ bad \in Report /\ bad.pc = "saving" /\ bad.status = "failed"
        /\ bad.settled = r.settled /\ bad.asOf = r.asOf /\ bad.items = r.items
    BY DEF Report
  <2> HIDE DEF good, bad
  <2>3. r.pc = "thinking" /\ Kept /\ Kinds
    BY <1>1, <1>12 DEF ValidateDraft
  <2>4. Continues(r, bad) /\ (Grounded(cites, r.items) => Continues(r, good))
    BY <2>2, <2>3 DEF Continues
  <2> QED
    BY <2>1, <2>2, <2>3, <2>4
<1>13. ASSUME NEW member \in BOOLEAN, SaveRun(q, member)
       PROVE  Kept /\ Kinds /\ \E n \in Report : Goes(n) /\ Continues(r, n)
  <2>1. Kept /\ Goes(NoReport)
    BY <1>13 DEF SaveRun
  <2> QED
    BY <1>3, <1>13, <2>1
<1>14. ASSUME NEW member \in BOOLEAN, RefuseRun(q, member)
       PROVE  Kept /\ Kinds /\ \E n \in Report : Goes(n) /\ Continues(r, n)
  <2> DEFINE n == [r EXCEPT !.pc = "refused"]
  <2>1. Kept /\ Kinds /\ Goes(n) /\ r.pc = "saving"
    BY <1>1, <1>14 DEF RefuseRun
  <2>2. n \in Report /\ n.pc = "refused" /\ n.asOf = r.asOf /\ n.settled = r.settled
    BY DEF Report
  <2> HIDE DEF n
  <2>3. Continues(r, n)
    BY <2>1, <2>2 DEF Continues
  <2> QED
    BY <2>1, <2>2, <2>3
<1> QED
  BY <1>5, <1>6, <1>7, <1>8, <1>9, <1>10, <1>11, <1>12, <1>13, <1>14 DEF RequestSteps

\* The rows that have no history, and the clock.
OtherSteps ==
  \/ \E e \in Records : Relate(e) \/ Unrelate(e)
  \/ \E x \in Items : AddEvidence(x)
  \/ Advance

LEMMA Others ==
  ASSUME TypeInv, OtherSteps
  PROVE  /\ UNCHANGED <<entity, revisions, writer, report, runs>>
         /\ now' \in Instants /\ now <= now'
         /\ related' \in [Records -> Stamps \cup {Never}]
         /\ evidence' \in [Items -> Stamps \cup {Never}]
         /\ \A x \in Items : evidence[x] # Never => evidence'[x] = evidence[x]
<1>1. /\ now \in Instants
      /\ related \in [Records -> Stamps \cup {Never}]
      /\ evidence \in [Items -> Stamps \cup {Never}]
  BY DEF TypeInv, ReportsTypeOK
<1>2. now <= now
  BY <1>1, Stamping
<1>3. ASSUME NEW e \in Records, Relate(e)
      PROVE  related' \in [Records -> Stamps \cup {Never}] /\ UNCHANGED <<now, entity, revisions, writer, evidence, report, runs>>
  BY <1>1, <1>3 DEF Relate, Stamped
<1>4. ASSUME NEW e \in Records, Unrelate(e)
      PROVE  related' \in [Records -> Stamps \cup {Never}] /\ UNCHANGED <<now, entity, revisions, writer, evidence, report, runs>>
  BY <1>1, <1>4 DEF Unrelate
<1>5. ASSUME NEW x \in Items, AddEvidence(x)
      PROVE  /\ evidence' \in [Items -> Stamps \cup {Never}]
             /\ \A y \in Items : evidence[y] # Never => evidence'[y] = evidence[y]
             /\ UNCHANGED <<now, entity, revisions, writer, related, report, runs>>
  BY <1>1, <1>5 DEF AddEvidence, Stamped
<1>6. CASE Advance
  BY <1>1, <1>6, Stamping, ReportsAssumption DEF Advance, Instants
<1> QED
  BY <1>1, <1>2, <1>3, <1>4, <1>5, <1>6 DEF OtherSteps

LEMMA Steps ==
  ASSUME [ReportsNext]_reportsVars
  PROVE  \/ \E e \in Entities : HistorySteps(e)
         \/ OtherSteps
         \/ \E q \in Reporters : RequestSteps(q)
         \/ UNCHANGED reportsVars
BY Zenon DEF ReportsNext, HistorySteps, OtherSteps, RequestSteps

LEMMA HistoryStep ==
  ASSUME TypeInv, NEW e \in Entities, HistorySteps(e)
  PROVE  /\ UNCHANGED <<now, related, evidence, report, runs>>
         /\ entity' \in [Entities -> EntityRow]
         /\ revisions' \subseteq Revision
         /\ writer' \in [Entities -> Writer]
<1>1. /\ entity \in [Entities -> EntityRow]
      /\ revisions \subseteq Revision
      /\ writer \in [Entities -> Writer]
  BY DEF TypeInv, ReportsTypeOK
<1>2. NoWriter \in Writer
  BY Stamping, ReportsAssumption DEF NoWriter, Writer, Lifecycle, Instants, Stamps
<1>3. CASE RollbackEntity(e)
  BY <1>1, <1>2, <1>3 DEF RollbackEntity
<1>4. CASE CommitEntity(e)
  BY <1>1, <1>4, Committing
<1>5. CASE \/ CreateEntity(e)
           \/ \E state \in {"active", "inactive"} : UpdateEntity(e, state)
           \/ DeleteEntity(e)
  <2>1. /\ UNCHANGED <<now, entity, revisions, related, evidence, report, runs>>
        /\ \E w \in Writer : writer' = [writer EXCEPT ![e] = w]
    BY <1>5, Opening
  <2> QED
    BY <1>1, <2>1
<1> QED
  BY <1>3, <1>4, <1>5 DEF HistorySteps

LEMMA TypeStep ==
  ASSUME TypeInv, [ReportsNext]_reportsVars
  PROVE  TypeInv'
<1>1. ReportsTypeOK /\ RunsDecided
  BY DEF TypeInv
<1>2. ASSUME NEW e \in Entities, HistorySteps(e)
      PROVE  TypeInv'
  BY <1>1, <1>2, HistoryStep DEF TypeInv, ReportsTypeOK, RunsDecided
<1>3. CASE OtherSteps
  BY <1>1, <1>3, Others DEF TypeInv, ReportsTypeOK, RunsDecided
<1>4. ASSUME NEW q \in Reporters, RequestSteps(q)
      PROVE  TypeInv'
  <2>1. PICK n \in Report :
          report' = [report EXCEPT ![q] = n] /\ Continues(report[q], n)
    BY <1>4, Requests
  <2>2. n.pc = "saving" => n.status # "none"
    BY <2>1 DEF Continues
  <2>3. report' \in [Reporters -> Report] /\ RunsDecided'
    BY <1>1, <2>1, <2>2 DEF ReportsTypeOK, RunsDecided
  <2>4. runs' \subseteq Run
    <3>1. CASE runs' = runs
      BY <1>1, <3>1 DEF ReportsTypeOK
    <3>2. ASSUME NEW member \in BOOLEAN, SaveRun(q, member)
          PROVE  runs' \subseteq Run
      <4>1. PICK r \in Report : r = report[q]
        BY <1>1 DEF ReportsTypeOK
      <4>2. r.pc = "saving" /\ r.status # "none"
        BY <1>1, <3>2, <4>1 DEF SaveRun, RunsDecided
      <4>3. [asOf |-> r.asOf, status |-> r.status, cites |-> r.cites] \in Run
        BY <4>2 DEF Report, Run
      <4> QED
        BY <1>1, <3>2, <4>1, <4>3 DEF SaveRun, ReportsTypeOK
    <3> QED
      BY <1>4, <3>1, <3>2, Requests
  <2>5. UNCHANGED <<now, entity, revisions, writer, related, evidence>>
    BY <1>4, Requests
  <2> QED
    BY <1>1, <2>3, <2>4, <2>5 DEF TypeInv, ReportsTypeOK
<1>5. CASE UNCHANGED reportsVars
  BY <1>1, <1>5 DEF TypeInv, ReportsTypeOK, RunsDecided, reportsVars
<1> QED
  BY <1>2, <1>3, <1>4, <1>5, Steps

LEMMA TypeInitially == ReportsInit => TypeInv
<1> SUFFICES ASSUME ReportsInit PROVE TypeInv
  OBVIOUS
<1>1. 0 \in Instants /\ 0 \in Stamps
  BY ReportsAssumption DEF Instants, Stamps
<1>2. NoReport \in Report /\ NoReport.pc = "idle"
  BY <1>1 DEF NoReport, Report
<1>3. NoWriter \in Writer
  BY <1>1 DEF NoWriter, Writer, Lifecycle
<1>4. NoRow \in EntityRow
  BY DEF NoRow, EntityRow, Lifecycle
<1> QED
  BY <1>1, <1>2, <1>3, <1>4 DEF ReportsInit, TypeInv, ReportsTypeOK, RunsDecided

LEMMA TypeHolds == ReportsSpec => []TypeInv
<1>1. TypeInv /\ [ReportsNext]_reportsVars => TypeInv'
  BY TypeStep
<1> QED
  BY <1>1, TypeInitially, PTL DEF ReportsSpec

\* Entities, revisions, reports and runs keep their types.
THEOREM ReportsTyped == ReportsSpec => []ReportsTypeOK
<1>1. TypeInv => ReportsTypeOK
  BY DEF TypeInv
<1> QED
  BY <1>1, TypeHolds, PTL

---------------------------------------------------------------------------
(* Answers are grounded *)

\* What is read as evidence exists, and what is cited was read.
ContextExists ==
  \A q \in Reporters :
    /\ report[q].pc \in {"read", "thinking", "saving"} =>
         report[q].items \subseteq ItemsAt(report[q].asOf)
    /\ report[q].pc = "saving" /\ report[q].status = "succeeded" =>
         Grounded(report[q].cites, report[q].items)

GroundInv == ContextExists /\ RunsAreGrounded

LEMMA GroundStep ==
  ASSUME TypeInv, GroundInv, [ReportsNext]_reportsVars
  PROVE  GroundInv'
<1>1. \A x \in Items : evidence[x] \in Stamps \cup {Never}
  BY DEF TypeInv, ReportsTypeOK
<1>2. \A q \in Reporters : report[q] \in Report
  BY DEF TypeInv, ReportsTypeOK
<1>3. \A run \in runs : run.cites \subseteq Items
  BY DEF TypeInv, ReportsTypeOK, Run
\* Evidence that exists by an instant goes on existing.
<1>4. ASSUME \A x \in Items : evidence[x] # Never => evidence'[x] = evidence[x],
             report' = report, runs' = runs
      PROVE  GroundInv'
  <2>1. ASSUME NEW t \in Int PROVE ItemsAt(t) \subseteq ItemsAt(t)'
    BY <1>1, <1>4 DEF ItemsAt, Never
  <2>2. \A q \in Reporters : report[q].asOf \in Int
    BY <1>2, Stamping DEF Report
  <2>3. \A q \in Reporters : ItemsAt(report[q].asOf) \subseteq ItemsAt(report[q].asOf)'
    BY <1>4, <2>1, <2>2 DEF ItemsAt
  <2>4. ContextExists'
    BY <1>4, <2>3 DEF GroundInv, ContextExists, Grounded
  <2>5. \A run \in runs, x \in Items : evidence[x] \in 0 .. run.asOf => evidence'[x] \in 0 .. run.asOf
    BY <1>1, <1>4, Stamping DEF Never, TypeInv, ReportsTypeOK, Run
  <2>6. RunsAreGrounded'
    BY <1>3, <1>4, <2>5 DEF GroundInv, RunsAreGrounded
  <2> QED
    BY <2>4, <2>6 DEF GroundInv
<1>5. ASSUME NEW e \in Entities, HistorySteps(e)
      PROVE  GroundInv'
  BY <1>4, <1>5, HistoryStep
<1>6. CASE OtherSteps
  BY <1>4, <1>6, Others
<1>7. ASSUME NEW q \in Reporters, RequestSteps(q)
      PROVE  GroundInv'
  <2>1. PICK n \in Report :
          report' = [report EXCEPT ![q] = n] /\ Continues(report[q], n)
    BY <1>7, Requests
  <2>2. evidence' = evidence
    BY <1>7, Requests
  <2>3. /\ n.pc \in {"read", "thinking", "saving"} => n.items \subseteq ItemsAt(n.asOf)
        /\ n.pc = "saving" /\ n.status = "succeeded" => Grounded(n.cites, n.items)
    BY <2>1 DEF Continues, GroundInv, ContextExists
  <2>4. ContextExists'
    BY <1>2, <2>1, <2>2, <2>3 DEF GroundInv, ContextExists, Grounded, ItemsAt, TypeInv, ReportsTypeOK
  <2>5. CASE runs' = runs
    BY <2>2, <2>4, <2>5 DEF GroundInv, RunsAreGrounded
  <2>6. ASSUME NEW member \in BOOLEAN, SaveRun(q, member)
        PROVE  RunsAreGrounded'
    <3> DEFINE run == [asOf |-> report[q].asOf, status |-> report[q].status,
                       cites |-> report[q].cites]
    <3>1. runs' = runs \cup {run} /\ report[q].pc = "saving"
      BY <2>6 DEF SaveRun
    <3>2. run.status = "succeeded" =>
            run.cites # {} /\ \A x \in run.cites : evidence[x] \in 0 .. run.asOf
      BY <3>1 DEF GroundInv, ContextExists, Grounded, ItemsAt
    <3> HIDE DEF run
    <3> QED
      BY <2>2, <3>1, <3>2 DEF GroundInv, RunsAreGrounded
  <2> QED
    BY <1>7, <2>4, <2>5, <2>6, Requests DEF GroundInv
<1>8. CASE UNCHANGED reportsVars
  BY <1>4, <1>8 DEF reportsVars
<1> QED
  BY <1>5, <1>6, <1>7, <1>8, Steps

\* An answer that is saved cites something, and only evidence of the customer
\* that had been recorded by the instant it was asked for and still exists.
THEOREM AnswersAreGrounded == ReportsSpec => []RunsAreGrounded
<1>1. ReportsInit => GroundInv
  BY DEF ReportsInit, GroundInv, ContextExists, RunsAreGrounded, NoReport
<1>2. TypeInv /\ GroundInv /\ [ReportsNext]_reportsVars => GroundInv'
  BY GroundStep
<1>3. GroundInv => RunsAreGrounded
  BY DEF GroundInv
<1> QED
  BY <1>1, <1>2, <1>3, TypeHolds, PTL DEF ReportsSpec

---------------------------------------------------------------------------
(* History is stable *)

\* An open transaction stamps at most Ahead before it took the row's lock.
WritersStamp ==
  \A e \in Entities :
    writer[e].open => /\ writer[e].began <= now
                      /\ writer[e].at >= writer[e].began - Ahead

LEMMA WritersStep ==
  ASSUME TypeInv, WritersStamp, [ReportsNext]_reportsVars
  PROVE  WritersStamp'
<1>0. /\ now \in Int
      /\ writer \in [Entities -> Writer]
      /\ \A e \in Entities : writer[e].began \in Int
  BY Stamping DEF TypeInv, ReportsTypeOK, Writer
<1>1. ASSUME NEW e \in Entities, HistorySteps(e)
      PROVE  WritersStamp'
  <2>1. now' = now
    BY <1>1, HistoryStep
  <2>2. CASE CommitEntity(e) \/ RollbackEntity(e)
    <3>1. writer' = [writer EXCEPT ![e] = NoWriter]
      BY <2>2, Committing DEF RollbackEntity
    <3> QED
      BY <1>0, <2>1, <3>1 DEF WritersStamp, NoWriter
  <2>3. CASE \/ CreateEntity(e)
             \/ \E state \in {"active", "inactive"} : UpdateEntity(e, state)
             \/ DeleteEntity(e)
    <3>1. PICK w \in Writer :
            writer' = [writer EXCEPT ![e] = w] /\ w.began = now /\ w.at >= now - Ahead
      BY <2>3, Opening
    <3> QED
      BY <1>0, <2>1, <3>1 DEF WritersStamp
  <2> QED
    BY <1>1, <2>2, <2>3 DEF HistorySteps
<1>2. CASE OtherSteps
  <2>1. writer' = writer /\ now' \in Int /\ now <= now'
    BY <1>2, Others, Stamping
  <2> QED
    BY <1>0, <2>1 DEF WritersStamp
<1>3. ASSUME NEW q \in Reporters, RequestSteps(q)
      PROVE  WritersStamp'
  BY <1>3, Requests DEF WritersStamp
<1>4. CASE UNCHANGED reportsVars
  BY <1>4 DEF WritersStamp, reportsVars
<1> QED
  BY <1>1, <1>2, <1>3, <1>4, Steps

\* The instant stays settled, and no step adds a revision up to it.
LEMMA SettledStep ==
  ASSUME TypeInv, WritersStamp, [ReportsNext]_reportsVars,
         NEW t \in Int, Settled(t)
  PROVE  /\ Settled(t)'
         /\ \A e \in Entities : StateAt(e, t)' = StateAt(e, t)
<1>0. /\ now \in Int /\ Ahead \in Int
      /\ writer \in [Entities -> Writer]
      /\ \A e \in Entities : writer[e].began \in Int /\ writer[e].at \in Int
  <2>1. \A w \in Writer : w.began \in Int /\ w.at \in Int
    BY Stamping DEF Writer
  <2> QED
    BY <2>1, Stamping, ReportsAssumption DEF TypeInv, ReportsTypeOK
<1>1. ASSUME revisions' = revisions
      PROVE  \A e \in Entities : StateAt(e, t)' = StateAt(e, t)
  BY <1>1 DEF StateAt, RevisionsUpTo
<1>2. ASSUME NEW e \in Entities, HistorySteps(e)
      PROVE  /\ Settled(t)'
             /\ \A f \in Entities : StateAt(f, t)' = StateAt(f, t)
  <2>1. now' = now
    BY <1>2, HistoryStep
  <2>2. CASE CommitEntity(e)
    <3>1. PICK n \in Revision :
            revisions' = revisions \cup {n} /\ n.at = writer[e].at
      BY <2>2, Committing
    <3>2. writer[e].open /\ writer' = [writer EXCEPT ![e] = NoWriter]
      BY <2>2, Committing
    <3>3. ~(n.at <= t)
      <4>1. t < writer[e].began - Ahead /\ writer[e].at >= writer[e].began - Ahead
        BY <3>2 DEF Settled, WritersStamp
      <4> QED
        BY <1>0, <3>1, <4>1
    <3>4. \A f \in Entities : RevisionsUpTo(f, t)' = RevisionsUpTo(f, t)
      BY <3>1, <3>3 DEF RevisionsUpTo
    <3>5. ASSUME NEW f \in Entities PROVE StateAt(f, t)' = StateAt(f, t)
      <4>1. PICK known : known = RevisionsUpTo(f, t)
        OBVIOUS
      <4>2. RevisionsUpTo(f, t)' = known
        BY <3>4, <4>1
      <4> QED
        BY <4>1, <4>2 DEF StateAt
    <3>6. Settled(t)'
      BY <1>0, <2>1, <3>2 DEF Settled, NoWriter
    <3> QED
      BY <3>5, <3>6
  <2>3. CASE RollbackEntity(e)
    <3>1. Settled(t)' /\ revisions' = revisions
      BY <1>0, <2>1, <2>3 DEF Settled, NoWriter, RollbackEntity
    <3> QED
      BY <1>1, <3>1
  <2>4. CASE \/ CreateEntity(e)
             \/ \E state \in {"active", "inactive"} : UpdateEntity(e, state)
             \/ DeleteEntity(e)
    <3>1. revisions' = revisions
      BY <2>4, Opening
    <3>2. PICK w \in Writer : writer' = [writer EXCEPT ![e] = w] /\ w.began = now
      BY <2>4, Opening
    <3>3. Settled(t)'
      BY <1>0, <2>1, <3>2 DEF Settled
    <3> QED
      BY <1>1, <3>1, <3>3
  <2> QED
    BY <1>2, <2>2, <2>3, <2>4 DEF HistorySteps
<1>3. CASE OtherSteps
  <2>1. UNCHANGED <<writer, revisions>> /\ now' \in Int /\ now <= now'
    BY <1>3, Others, Stamping
  <2>2. t < now - Ahead
    BY DEF Settled
  <2>3. t < now' - Ahead
    <3>1. PICK m \in Int : m = now'
      BY <2>1
    <3>2. PICK k \in Int : k = now
      BY <1>0
    <3>3. k <= m /\ t < k - Ahead
      BY <2>1, <2>2, <3>1, <3>2
    <3>4. t < m - Ahead
      BY <1>0, <3>3
    <3> QED
      BY <3>1, <3>4
  <2>4. Settled(t)'
    BY <2>1, <2>3 DEF Settled
  <2> QED
    BY <1>1, <2>1, <2>4
<1>4. ASSUME NEW q \in Reporters, RequestSteps(q)
      PROVE  Settled(t)' /\ \A e \in Entities : StateAt(e, t)' = StateAt(e, t)
  <2>1. UNCHANGED <<now, writer, revisions>>
    BY <1>4, Requests
  <2>2. Settled(t)'
    BY <2>1 DEF Settled
  <2> QED
    BY <1>1, <2>1, <2>2
<1>5. CASE UNCHANGED reportsVars
  <2>1. UNCHANGED <<now, writer, revisions>>
    BY <1>5 DEF reportsVars
  <2>2. Settled(t)'
    BY <2>1 DEF Settled
  <2> QED
    BY <1>1, <2>1, <2>2
<1> QED
  BY <1>2, <1>3, <1>4, <1>5, Steps

LEMMA WritersHold == ReportsSpec => []WritersStamp
<1>1. ReportsInit => WritersStamp
  BY DEF ReportsInit, WritersStamp, NoWriter
<1>2. TypeInv /\ WritersStamp /\ [ReportsNext]_reportsVars => WritersStamp'
  BY WritersStep
<1> QED
  BY <1>1, <1>2, TypeHolds, PTL DEF ReportsSpec

\* Once no open transaction and no clock can reach back to an instant, the
\* state every entity had at it never changes.
THEOREM HistoryStaysAsItWas == ReportsSpec => HistoryIsStable
<1>1. TypeInv /\ WritersStamp /\ [ReportsNext]_reportsVars =>
        [\A t \in Instants, e \in Entities :
           Settled(t) => StateAt(e, t)' = StateAt(e, t)]_reportsVars
  BY SettledStep, Stamping
<1> QED
  BY <1>1, TypeHolds, WritersHold, PTL DEF ReportsSpec, HistoryIsStable

---------------------------------------------------------------------------
(* A report is of its instant *)

\* What a request has read about a settled instant is still true.
ReadingsStand ==
  \A q \in Reporters :
    LET r == report[q] IN
    r.settled =>
      /\ r.pc # "idle" => Settled(r.asOf)
      /\ r.pc \in {"customer", "related", "targets", "read"} =>
           StateAt(Customer, r.asOf) = "active"
      /\ r.pc \in {"targets", "read"} =>
           r.active = {e \in r.links : StateAt(e, r.asOf) = "active"}

LEMMA ReadingsStep ==
  ASSUME TypeInv, WritersStamp, ReadingsStand, [ReportsNext]_reportsVars
  PROVE  ReadingsStand'
<1>1. \A q \in Reporters :
        report[q] \in Report /\ report[q].asOf \in Int /\ report[q].links \subseteq Entities
  BY Stamping DEF TypeInv, ReportsTypeOK, Report, Entities
<1>2. Customer \in Entities
  BY DEF Entities
<1>3. ASSUME report' = report
      PROVE  ReadingsStand'
  <2>1. SUFFICES ASSUME NEW q \in Reporters, NEW r \in Report, r = report[q], r.settled,
                        r.pc # "idle"
        PROVE  /\ Settled(r.asOf)'
               /\ r.pc \in {"customer", "related", "targets", "read"} =>
                    StateAt(Customer, r.asOf)' = "active"
               /\ r.pc \in {"targets", "read"} =>
                    r.active = {e \in r.links : StateAt(e, r.asOf)' = "active"}
    BY <1>1, <1>3 DEF ReadingsStand
  <2>2. /\ Settled(r.asOf)
        /\ r.pc \in {"customer", "related", "targets", "read"} =>
             StateAt(Customer, r.asOf) = "active"
        /\ r.pc \in {"targets", "read"} =>
             r.active = {e \in r.links : StateAt(e, r.asOf) = "active"}
    BY <2>1 DEF ReadingsStand
  <2>3. Settled(r.asOf)' /\ \A e \in Entities : StateAt(e, r.asOf)' = StateAt(e, r.asOf)
    BY <1>1, <2>1, <2>2, SettledStep
  <2> QED
    BY <1>1, <1>2, <2>1, <2>2, <2>3
<1>4. ASSUME NEW q \in Reporters, RequestSteps(q)
      PROVE  ReadingsStand'
  <2>1. PICK n \in Report :
          report' = [report EXCEPT ![q] = n] /\ Continues(report[q], n)
    BY <1>4, Requests
  <2>2. UNCHANGED <<now, writer, revisions>>
    BY <1>4, Requests
  <2>3. \A t : Settled(t)' = Settled(t)
    BY <2>2 DEF Settled
  <2>4. \A e, t : StateAt(e, t)' = StateAt(e, t)
    BY <2>2 DEF StateAt, RevisionsUpTo
  <2>5. PICK r \in Report : r = report[q]
    BY <1>1
  <2>6. r.settled =>
          /\ r.pc # "idle" => Settled(r.asOf)
          /\ r.pc \in {"customer", "related", "targets", "read"} =>
               StateAt(Customer, r.asOf) = "active"
          /\ r.pc \in {"targets", "read"} =>
               r.active = {e \in r.links : StateAt(e, r.asOf) = "active"}
    BY <2>5 DEF ReadingsStand
  <2>7. n.settled =>
          /\ n.pc # "idle" => Settled(n.asOf)
          /\ n.pc \in {"customer", "related", "targets", "read"} =>
               StateAt(Customer, n.asOf) = "active"
          /\ n.pc \in {"targets", "read"} =>
               n.active = {e \in n.links : StateAt(e, n.asOf) = "active"}
    BY <2>1, <2>5, <2>6 DEF Continues
  <2> QED
    BY <1>1, <2>1, <2>3, <2>4, <2>7 DEF ReadingsStand, TypeInv, ReportsTypeOK
<1>5. ASSUME NEW e \in Entities, HistorySteps(e)
      PROVE  ReadingsStand'
  BY <1>3, <1>5, HistoryStep
<1>6. CASE OtherSteps
  BY <1>3, <1>6, Others
<1>7. CASE UNCHANGED reportsVars
  BY <1>3, <1>7 DEF reportsVars
<1> QED
  BY <1>4, <1>5, <1>6, <1>7, Steps

\* A report that is asked for a settled instant is what a single snapshot of
\* the entities would have given, however they are written while it is read.
THEOREM ReportsAreOfTheirInstant == ReportsSpec => []ReportIsOfItsInstant
<1>1. ReportsInit => ReadingsStand
  BY DEF ReportsInit, ReadingsStand, NoReport
<1>2. TypeInv /\ WritersStamp /\ ReadingsStand /\ [ReportsNext]_reportsVars => ReadingsStand'
  BY ReadingsStep
<1>3. ReadingsStand => ReportIsOfItsInstant
  BY DEF ReadingsStand, ReportIsOfItsInstant
<1> QED
  BY <1>1, <1>2, <1>3, TypeHolds, WritersHold, PTL DEF ReportsSpec

---------------------------------------------------------------------------
(* The history ends in the row *)

\* Revisions of an entity carry instants of their own, also the one that an
\* open transaction is about to add.
StampsAreDistinct ==
  \A e \in Entities :
    /\ \A r, s \in revisions : r.of = e /\ s.of = e /\ r.at = s.at => r = s
    /\ writer[e].open => \A r \in revisions : r.of = e => r.at # writer[e].at

\* A row was created once and is what its last revision says; every revision
\* but the one of its creation was stamped by the database's clock under the
\* lock of the row, so that they are in the order of the commits.
RowsFollowRevisions ==
  \A e \in Entities :
    LET row == entity[e] IN
    IF row.created = Never
    THEN /\ row.written = Never /\ row.state = "absent"
         /\ \A r \in revisions : r.of # e
    ELSE /\ \E r \in revisions :
              r.of = e /\ r.at = row.written /\ r.state = row.state
         /\ \A r \in revisions : r.of = e =>
              \/ r.at = row.created
              \/ /\ r.at <= row.written /\ r.at <= now
                 /\ writer[e].open => r.at <= writer[e].at
         /\ writer[e].open => writer[e].at = writer[e].began

RowInv == StampsAreDistinct /\ RowsFollowRevisions

LEMMA RowStep ==
  ASSUME TypeInv, WritersStamp, RowInv, [ReportsNext]_reportsVars
  PROVE  RowInv'
<1>0. /\ now \in Int
      /\ entity \in [Entities -> EntityRow]
      /\ writer \in [Entities -> Writer]
  BY Stamping DEF TypeInv, ReportsTypeOK
<1>1. /\ \A row \in EntityRow : row.created \in Int /\ row.written \in Int
      /\ \A w \in Writer : w.at \in Stamps /\ w.at \in Int
      /\ \A r \in revisions : r \in Revision /\ r.at \in Int /\ r.at <= LastInstant + Ahead
  BY Stamping DEF EntityRow, Writer, TypeInv, ReportsTypeOK, Revision
<1>2. StampsAreDistinct /\ RowsFollowRevisions
  BY DEF RowInv
<1>3. ASSUME UNCHANGED <<entity, revisions, writer>>, now' \in Int, now <= now'
      PROVE  RowInv'
  <2>1. StampsAreDistinct'
    BY <1>2, <1>3 DEF StampsAreDistinct
  <2>2. \A r \in revisions : r.at <= now => r.at <= now'
    <3>1. PICK m \in Int : m = now'
      BY <1>3
    <3>2. PICK k \in Int : k = now
      BY <1>0
    <3>3. \A i \in Int : i <= k => i <= m
      BY <1>3, <3>1, <3>2
    <3> QED
      BY <1>1, <3>1, <3>2, <3>3
  <2>3. RowsFollowRevisions'
    BY <1>2, <1>3, <2>2 DEF RowsFollowRevisions
  <2> QED
    BY <2>1, <2>3 DEF RowInv
<1>4. ASSUME NEW e \in Entities,
             \/ CreateEntity(e)
             \/ \E state \in {"active", "inactive"} : UpdateEntity(e, state)
             \/ DeleteEntity(e)
      PROVE  RowInv'
  <2>1. UNCHANGED <<now, entity, revisions>>
    BY <1>4, Opening
  <2>2. PICK w \in Writer :
          /\ writer' = [writer EXCEPT ![e] = w]
          /\ w.open /\ w.began = now
          /\ \A r \in revisions : r.of = e => r.at # w.at
          /\ \/ entity[e].state # "absent" /\ w.at = now
             \/ RevisionsUpTo(e, LastInstant + Ahead) = {}
    BY <1>4, Opening
  <2>3. StampsAreDistinct'
    BY <1>0, <1>2, <2>1, <2>2 DEF StampsAreDistinct
  <2>4. entity[e].created # Never => w.at = now
    <3>1. RevisionsUpTo(e, LastInstant + Ahead) = {r \in revisions : r.of = e}
      BY <1>1 DEF RevisionsUpTo
    <3>2. entity[e].created # Never => \E r \in revisions : r.of = e
      BY <1>2 DEF RowsFollowRevisions
    <3> QED
      BY <2>2, <3>1, <3>2
  <2>5. \A f \in Entities : writer'[f] = IF f = e THEN w ELSE writer[f]
    BY <1>0, <2>2
  <2>6. ASSUME NEW f \in Entities, entity[f].created # Never, writer'[f].open
        PROVE  /\ writer'[f].at = writer'[f].began
               /\ \A r \in revisions :
                    r.of = f => r.at = entity[f].created \/ r.at <= writer'[f].at
    <3>1. CASE f = e
      BY <1>2, <2>2, <2>4, <2>5, <2>6, <3>1 DEF RowsFollowRevisions
    <3>2. CASE f # e
      BY <1>2, <2>5, <2>6, <3>2 DEF RowsFollowRevisions
    <3> QED
      BY <3>1, <3>2
  <2>7. RowsFollowRevisions'
    BY <1>2, <2>1, <2>6 DEF RowsFollowRevisions
  <2> QED
    BY <2>3, <2>7 DEF RowInv
<1>5. ASSUME NEW e \in Entities, RollbackEntity(e)
      PROVE  RowInv'
  <2>1. /\ UNCHANGED <<now, entity, revisions>>
        /\ writer' = [writer EXCEPT ![e] = NoWriter]
    BY <1>5 DEF RollbackEntity
  <2>2. \A f \in Entities : writer'[f] = IF f = e THEN NoWriter ELSE writer[f]
    BY <1>0, <2>1
  <2>3. \A f \in Entities : writer'[f].open => writer'[f] = writer[f] /\ writer[f].open
    BY <2>2 DEF NoWriter
  <2>4. StampsAreDistinct'
    BY <1>2, <2>1, <2>3 DEF StampsAreDistinct
  <2>5. RowsFollowRevisions'
    BY <1>2, <2>1, <2>3 DEF RowsFollowRevisions
  <2> QED
    BY <2>4, <2>5 DEF RowInv
<1>6. ASSUME NEW e \in Entities, CommitEntity(e)
      PROVE  RowInv'
  <2>1. /\ writer[e].open /\ now' = now
        /\ writer' = [writer EXCEPT ![e] = NoWriter]
    BY <1>6, Committing
  <2>2. PICK n \in Revision, row \in EntityRow :
          /\ n.of = e /\ n.at = writer[e].at
          /\ revisions' = revisions \cup {n}
          /\ entity' = [entity EXCEPT ![e] = row]
          /\ row.state = n.state /\ row.written = n.at
          /\ row.created = IF entity[e].created = Never THEN n.at ELSE entity[e].created
    BY <1>6, Committing
  <2>3. \A f \in Entities : writer'[f] = IF f = e THEN NoWriter ELSE writer[f]
    BY <1>0, <2>1
  <2>4. \A f \in Entities : writer'[f].open => f # e /\ writer'[f] = writer[f] /\ writer[f].open
    BY <2>3 DEF NoWriter
  <2>5. \A r \in revisions : r.of = e => r.at # n.at
    BY <1>2, <2>1, <2>2 DEF StampsAreDistinct
  <2>6. StampsAreDistinct'
    BY <1>2, <2>2, <2>4, <2>5 DEF StampsAreDistinct
  <2>7. \A f \in Entities : entity'[f] = IF f = e THEN row ELSE entity[f]
    BY <1>0, <2>2
  <2>8. ASSUME NEW f \in Entities, f # e
        PROVE  IF entity'[f].created = Never
               THEN /\ entity'[f].written = Never /\ entity'[f].state = "absent"
                    /\ \A r \in revisions' : r.of # f
               ELSE /\ \E r \in revisions' :
                         r.of = f /\ r.at = entity'[f].written /\ r.state = entity'[f].state
                    /\ \A r \in revisions' : r.of = f =>
                         \/ r.at = entity'[f].created
                         \/ /\ r.at <= entity'[f].written /\ r.at <= now'
                            /\ writer'[f].open => r.at <= writer'[f].at
                    /\ writer'[f].open => writer'[f].at = writer'[f].began
    BY <1>2, <2>1, <2>2, <2>4, <2>7, <2>8 DEF RowsFollowRevisions
  <2>9. row.created # Never /\ row.created \in Int /\ row.written \in Int
    <3>1. n.at # Never
      BY Stamping DEF Revision
    <3> QED
      BY <1>1, <2>2, <3>1
  <2>10. \A r \in revisions' :
           r.of = e => r.at = row.created \/ (r.at <= row.written /\ r.at <= now)
    <3>1. CASE entity[e].created = Never
      BY <1>2, <2>2, <3>1 DEF RowsFollowRevisions
    <3>2. CASE entity[e].created # Never
      <4>1. ASSUME NEW r \in revisions, r.of = e
            PROVE  r.at = row.created \/ (r.at <= row.written /\ r.at <= now)
        BY <1>2, <2>1, <2>2, <3>2, <4>1 DEF RowsFollowRevisions
      <4>2. writer[e].at = writer[e].began /\ writer[e].began <= now
        BY <1>2, <2>1, <3>2 DEF RowsFollowRevisions, WritersStamp
      <4>3. n.at = row.written /\ n.at <= now /\ row.written <= row.written
        BY <2>2, <2>9, <4>2
      <4> QED
        BY <2>2, <4>1, <4>3
    <3> QED
      BY <3>1, <3>2
  <2>12. RowsFollowRevisions'
    BY <2>1, <2>2, <2>4, <2>7, <2>8, <2>9, <2>10 DEF RowsFollowRevisions
  <2> QED
    BY <2>6, <2>12 DEF RowInv
<1>7. ASSUME NEW e \in Entities, HistorySteps(e)
      PROVE  RowInv'
  BY <1>4, <1>5, <1>6, <1>7 DEF HistorySteps
<1>8. now <= now
  BY <1>0
<1>9. CASE OtherSteps
  BY <1>3, <1>9, Others, Stamping
<1>10. ASSUME NEW q \in Reporters, RequestSteps(q)
       PROVE  RowInv'
  BY <1>0, <1>3, <1>8, <1>10, Requests
<1>11. CASE UNCHANGED reportsVars
  BY <1>0, <1>3, <1>8, <1>11 DEF reportsVars
<1> QED
  BY <1>7, <1>9, <1>10, <1>11, Steps

\* The last revision of an entity is its row, deleted rows included, unless
\* the row was last written before the instant at which it was created.
THEOREM HistoriesEndInTheirRows == ReportsSpec => []HistoryEndsInTheRow
<1>1. ReportsInit => RowInv
  BY DEF ReportsInit, RowInv, StampsAreDistinct, RowsFollowRevisions, NoRow, NoWriter
<1>2. TypeInv /\ WritersStamp /\ RowInv /\ [ReportsNext]_reportsVars => RowInv'
  BY RowStep
<1>3. TypeInv /\ RowInv => HistoryEndsInTheRow
  <2> SUFFICES ASSUME TypeInv, RowInv, NEW e \in Entities,
                      entity[e].written >= entity[e].created
               PROVE  StateAt(e, LastInstant + Ahead) = entity[e].state
    BY DEF HistoryEndsInTheRow
  <2> DEFINE known == RevisionsUpTo(e, LastInstant + Ahead)
  <2>1. known = {r \in revisions : r.of = e} /\ \A r \in known : r.at \in Int
    <3>1. \A r \in revisions : r.at \in Int /\ r.at <= LastInstant + Ahead
      BY Stamping DEF TypeInv, ReportsTypeOK, Revision
    <3> QED
      BY <3>1 DEF RevisionsUpTo
  <2>2. CASE entity[e].created = Never
    <3>1. known = {} /\ entity[e].state = "absent"
      BY <2>1, <2>2 DEF RowInv, RowsFollowRevisions
    <3> QED
      BY <3>1 DEF StateAt
  <2>3. CASE entity[e].created # Never
    <3>1. PICK row \in EntityRow : row = entity[e]
      BY DEF TypeInv, ReportsTypeOK
    <3>2. row.created \in Int /\ row.written \in Int /\ row.written >= row.created
      BY <3>1, Stamping DEF EntityRow
    <3>3. PICK last \in known : last.at = row.written /\ last.state = row.state
      BY <2>1, <2>3, <3>1 DEF RowInv, RowsFollowRevisions
    <3>4. \A r \in known : r.at = row.created \/ r.at <= row.written
      BY <2>1, <2>3, <3>1 DEF RowInv, RowsFollowRevisions
    <3>5. \A r \in known : r.at <= last.at
      BY <2>1, <3>2, <3>3, <3>4
    <3>6. \A r \in known : (\A s \in known : s.at <= r.at) => r = last
      <4>1. \A r \in known : last.at <= r.at => r.at = last.at
        BY <2>1, <3>5
      <4>2. \A r \in known : r.at = last.at => r = last
        BY <2>1 DEF RowInv, StampsAreDistinct
      <4> QED
        BY <4>1, <4>2
    <3> HIDE DEF known
    <3>7. (CHOOSE r \in known : \A s \in known : s.at <= r.at) = last
      BY <3>5, <3>6
    <3>8. known # {}
      BY <3>3
    <3>9. StateAt(e, LastInstant + Ahead) = last.state
      BY <3>7, <3>8 DEF StateAt, known
    <3> QED
      BY <3>1, <3>3, <3>9
  <2> QED
    BY <2>2, <2>3
<1> QED
  BY <1>1, <1>2, <1>3, TypeHolds, WritersHold, PTL DEF ReportsSpec

---------------------------------------------------------------------------
(* The score of a customer *)

SignalTypes ==
  {"REVENUE_DECLINE", "PAYMENT_DELAY", "TICKET_INCREASE", "DELIVERY_COMPLAINTS"}

FactsOK ==
  /\ facts \in [recent : 0 .. MaxRevenue, prior : 0 .. MaxRevenue,
                overdue : 0 .. MaxFacts, tickets : 0 .. MaxTickets,
                earlier : 0 .. MaxEarlier, complaints : 0 .. MaxFacts]
  /\ bare \subseteq RiskKinds

LEMMA FactsInit == RiskInit => FactsOK
BY RiskAssumption DEF RiskInit, FactsOK, NoFacts

\* Facts are only added.
LEMMA FactsStep ==
  ASSUME FactsOK, [RiskNext]_riskVars
  PROVE  /\ FactsOK'
         /\ facts.prior <= facts'.prior /\ facts.overdue <= facts'.overdue
         /\ facts.tickets <= facts'.tickets /\ facts.complaints <= facts'.complaints
<1>0. PICK known \in Nat, prior \in Nat, overdue \in Nat, tickets \in Nat,
           earlier \in Nat, complaints \in Nat :
        /\ facts = [recent |-> known, prior |-> prior, overdue |-> overdue,
                    tickets |-> tickets, earlier |-> earlier, complaints |-> complaints]
        /\ known <= MaxRevenue /\ prior <= MaxRevenue /\ overdue <= MaxFacts
        /\ tickets <= MaxTickets /\ earlier <= MaxEarlier /\ complaints <= MaxFacts
  <2>1. /\ facts.recent \in 0 .. MaxRevenue /\ facts.prior \in 0 .. MaxRevenue
        /\ facts.overdue \in 0 .. MaxFacts /\ facts.tickets \in 0 .. MaxTickets
        /\ facts.earlier \in 0 .. MaxEarlier /\ facts.complaints \in 0 .. MaxFacts
        /\ facts = [recent |-> facts.recent, prior |-> facts.prior,
                    overdue |-> facts.overdue, tickets |-> facts.tickets,
                    earlier |-> facts.earlier, complaints |-> facts.complaints]
    BY DEF FactsOK
  <2>2. \A bound \in Nat : \A n \in 0 .. bound : n \in Nat /\ n <= bound
    OBVIOUS
  <2>3. /\ facts.recent \in Nat /\ facts.recent <= MaxRevenue
        /\ facts.prior \in Nat /\ facts.prior <= MaxRevenue
        /\ facts.overdue \in Nat /\ facts.overdue <= MaxFacts
        /\ facts.tickets \in Nat /\ facts.tickets <= MaxTickets
        /\ facts.earlier \in Nat /\ facts.earlier <= MaxEarlier
        /\ facts.complaints \in Nat /\ facts.complaints <= MaxFacts
    BY <2>1, <2>2, RiskAssumption
  <2> QED
    BY <2>1, <2>3
<1>1. ASSUME NEW evidenced \in BOOLEAN, NEW amount \in Amounts,
             AddRecentOrder(amount, evidenced) \/ AddPriorOrder(amount, evidenced)
      PROVE  /\ FactsOK'
             /\ facts.prior <= facts'.prior /\ facts.overdue <= facts'.overdue
             /\ facts.tickets <= facts'.tickets /\ facts.complaints <= facts'.complaints
  <2>1. amount \in Nat
    BY RiskAssumption
  <2> QED
    BY <1>0, <1>1, <2>1, RiskAssumption
    DEF AddRecentOrder, AddPriorOrder, Learn, FactsOK, RiskKinds
<1>2. ASSUME NEW evidenced \in BOOLEAN,
             AddOverdueInvoice(evidenced) \/ AddTicket(evidenced) \/ AddEarlierTicket(evidenced)
      PROVE  /\ FactsOK'
             /\ facts.prior <= facts'.prior /\ facts.overdue <= facts'.overdue
             /\ facts.tickets <= facts'.tickets /\ facts.complaints <= facts'.complaints
  BY <1>0, <1>2, RiskAssumption
  DEF AddOverdueInvoice, AddTicket, AddEarlierTicket, Learn, FactsOK, RiskKinds
<1>3. ASSUME NEW evidenced \in BOOLEAN, NEW window \in {"recent", "earlier", "older"},
             AddComplaint(window, evidenced)
      PROVE  /\ FactsOK'
             /\ facts.prior <= facts'.prior /\ facts.overdue <= facts'.overdue
             /\ facts.tickets <= facts'.tickets /\ facts.complaints <= facts'.complaints
  <2>1. CASE window = "recent"
    <3>1. /\ complaints < MaxFacts /\ tickets + 1 <= MaxTickets
          /\ earlier + 0 <= MaxEarlier
          /\ Learn([facts EXCEPT !.complaints = @ + 1, !.tickets = @ + 1,
                                 !.earlier = @ + 0], {"complaint", "ticket"}, evidenced)
      BY <1>0, <1>3, <2>1 DEF AddComplaint
    <3>2. facts' = [recent |-> known, prior |-> prior, overdue |-> overdue,
                    tickets |-> tickets + 1, earlier |-> earlier + 0,
                    complaints |-> complaints + 1]
      BY <1>0, <3>1 DEF Learn
    <3>3. bare' \subseteq bare \cup RiskKinds
      BY <3>1 DEF Learn, RiskKinds
    <3> QED
      BY <1>0, <3>1, <3>2, <3>3, RiskAssumption DEF FactsOK
  <2>2. CASE window = "earlier"
    <3>1. /\ complaints < MaxFacts /\ tickets + 0 <= MaxTickets
          /\ earlier + 1 <= MaxEarlier
          /\ Learn([facts EXCEPT !.complaints = @ + 1, !.tickets = @ + 0,
                                 !.earlier = @ + 1], {"complaint", "ticket"}, evidenced)
      BY <1>0, <1>3, <2>2 DEF AddComplaint
    <3>2. facts' = [recent |-> known, prior |-> prior, overdue |-> overdue,
                    tickets |-> tickets + 0, earlier |-> earlier + 1,
                    complaints |-> complaints + 1]
      BY <1>0, <3>1 DEF Learn
    <3>3. bare' \subseteq bare \cup RiskKinds
      BY <3>1 DEF Learn, RiskKinds
    <3> QED
      BY <1>0, <3>1, <3>2, <3>3, RiskAssumption DEF FactsOK
  <2>3. CASE window = "older"
    <3>1. /\ complaints < MaxFacts /\ tickets + 0 <= MaxTickets
          /\ earlier + 0 <= MaxEarlier
          /\ Learn([facts EXCEPT !.complaints = @ + 1, !.tickets = @ + 0,
                                 !.earlier = @ + 0], {"complaint"}, evidenced)
      BY <1>0, <1>3, <2>3 DEF AddComplaint
    <3>2. facts' = [recent |-> known, prior |-> prior, overdue |-> overdue,
                    tickets |-> tickets + 0, earlier |-> earlier + 0,
                    complaints |-> complaints + 1]
      BY <1>0, <3>1 DEF Learn
    <3>3. bare' \subseteq bare \cup RiskKinds
      BY <3>1 DEF Learn, RiskKinds
    <3> QED
      BY <1>0, <3>1, <3>2, <3>3, RiskAssumption DEF FactsOK
  <2> QED
    BY <1>3, <2>1, <2>2, <2>3
<1>4. ASSUME NEW kind \in RiskKinds, FindEvidence(kind)
      PROVE  FactsOK' /\ facts' = facts
  BY <1>4 DEF FindEvidence, FactsOK
<1>5. CASE UNCHANGED riskVars
  BY <1>0, <1>5 DEF riskVars, FactsOK
<1> QED
  BY <1>0, <1>1, <1>2, <1>3, <1>4, <1>5 DEF RiskNext

\* Severities and weights, by type.
LEMMA Weights ==
  ASSUME NEW type \in SignalTypes, NEW severity \in {"none", "medium", "high"}
  PROVE  /\ Weight[type][severity] \in 0 .. 35
         /\ Weight[type]["none"] = 0
         /\ Weight[type]["medium"] <= Weight[type]["high"]
         /\ severity # "none" => Weight[type][severity] > 0
BY DEF SignalTypes, Weight

LEMMA SeverityTyped ==
  ASSUME NEW type \in SignalTypes
  PROVE  /\ Signal[type] \in {"none", "medium", "high"}
         /\ Signal'[type] \in {"none", "medium", "high"}
<1>1. /\ RevenueDecline \in {"none", "medium", "high"}
      /\ RevenueDecline' \in {"none", "medium", "high"}
  BY DEF RevenueDecline, Quiet
<1>2. /\ PaymentDelay \in {"none", "medium", "high"}
      /\ PaymentDelay' \in {"none", "medium", "high"}
  BY DEF PaymentDelay, Quiet
<1>3. /\ TicketIncrease \in {"none", "medium", "high"}
      /\ TicketIncrease' \in {"none", "medium", "high"}
  BY DEF TicketIncrease, Quiet
<1>4. /\ DeliveryComplaints \in {"none", "medium", "high"}
      /\ DeliveryComplaints' \in {"none", "medium", "high"}
  BY DEF DeliveryComplaints, Quiet
<1> QED
  BY <1>1, <1>2, <1>3, <1>4 DEF SignalTypes, Signal

LEMMA Components ==
  ASSUME NEW type \in SignalTypes
  PROVE  /\ Component(type) \in 0 .. 35
         /\ Component(type)' \in 0 .. 35
         /\ Component(type) = IF Contributors[type] \cap bare = {}
                              THEN Weight[type][Signal[type]] ELSE 0
         /\ Component(type)' = IF Contributors[type] \cap bare' = {}
                               THEN Weight[type][Signal'[type]] ELSE 0
<1>1. /\ Component(type) = Weight[type][IF Contributors[type] \cap bare = {}
                                        THEN Signal[type] ELSE "none"]
      /\ Component(type)' = Weight[type][IF Contributors[type] \cap bare' = {}
                                         THEN Signal'[type] ELSE "none"]
  BY DEF Component, Evidenced, Quiet, Weight, Contributors
<1> QED
  BY <1>1, SeverityTyped, Weights

LEMMA CappedSums ==
  /\ \A a, b, c, d \in Nat :
       (IF a + b + c + d > 100 THEN 100 ELSE a + b + c + d) \in 0 .. 100
  /\ \A a, b, c, d, e, f, g, h \in Nat :
       (IF e + f + g + h > 100 THEN 100 ELSE e + f + g + h)
         < (IF a + b + c + d > 100 THEN 100 ELSE a + b + c + d)
       => e < a \/ f < b \/ g < c \/ h < d
OBVIOUS

LEMMA ComponentsAreNumbers ==
  /\ Component("REVENUE_DECLINE") \in Nat /\ Component("REVENUE_DECLINE")' \in Nat
  /\ Component("PAYMENT_DELAY") \in Nat /\ Component("PAYMENT_DELAY")' \in Nat
  /\ Component("TICKET_INCREASE") \in Nat /\ Component("TICKET_INCREASE")' \in Nat
  /\ Component("DELIVERY_COMPLAINTS") \in Nat /\ Component("DELIVERY_COMPLAINTS")' \in Nat
<1>1. \A type \in SignalTypes : Component(type) \in Nat /\ Component(type)' \in Nat
  BY Components
<1> QED
  BY <1>1 DEF SignalTypes

LEMMA ScoreTyped ==
  /\ Score \in 0 .. 100
  /\ Severity(Score) \in {"low", "moderate", "high", "critical"}
<1>1. PICK a \in Nat : a = Component("REVENUE_DECLINE")
  BY ComponentsAreNumbers
<1>2. PICK b \in Nat : b = Component("PAYMENT_DELAY")
  BY ComponentsAreNumbers
<1>3. PICK c \in Nat : c = Component("TICKET_INCREASE")
  BY ComponentsAreNumbers
<1>4. PICK d \in Nat : d = Component("DELIVERY_COMPLAINTS")
  BY ComponentsAreNumbers
<1>5. Score = IF a + b + c + d > 100 THEN 100 ELSE a + b + c + d
  BY <1>1, <1>2, <1>3, <1>4, Zenon DEF Score
<1>6. Score \in 0 .. 100
  BY <1>5, CappedSums
<1>7. ASSUME NEW n \in Nat PROVE Severity(n) \in {"low", "moderate", "high", "critical"}
  BY DEF Severity
<1>8. \A n \in 0 .. 100 : n \in Nat
  OBVIOUS
<1> QED
  BY <1>6, <1>7, <1>8, Zenon

\* Facts and score keep their types, and a score its bounds.
THEOREM RiskTyped == RiskSpec => []RiskTypeOK
<1>1. FactsOK /\ [RiskNext]_riskVars => FactsOK'
  BY FactsStep
<1>2. FactsOK => RiskTypeOK
  BY ScoreTyped DEF FactsOK, RiskTypeOK
<1> QED
  BY <1>1, <1>2, FactsInit, PTL DEF RiskSpec

\* With the revenue and the tickets they are compared with unchanged, more facts
\* make no signal milder.
LEMMA SignalsRise ==
  ASSUME FactsOK, [RiskNext]_riskVars, facts'.recent = facts.recent,
         facts'.earlier = facts.earlier, NEW type \in SignalTypes
  PROVE  /\ Signal[type] = "high" => Signal'[type] = "high"
         /\ Signal[type] = "medium" => Signal'[type] \in {"medium", "high"}
<1>1. PICK r \in Nat, p \in Nat, q \in Nat :
        /\ r = facts.recent /\ r = facts'.recent /\ p = facts.prior /\ q = facts'.prior
        /\ p <= q
  BY FactsStep, RiskAssumption DEF FactsOK
<1>2. PICK o \in Nat, v \in Nat : o = facts.overdue /\ v = facts'.overdue /\ o <= v
  BY FactsStep, RiskAssumption DEF FactsOK
<1>3. PICK e \in Nat, t \in Nat, u \in Nat :
        /\ e = facts.earlier /\ e = facts'.earlier /\ t = facts.tickets /\ u = facts'.tickets
        /\ t <= u
  BY FactsStep, RiskAssumption DEF FactsOK
<1>4. PICK c \in Nat, d \in Nat : c = facts.complaints /\ d = facts'.complaints /\ c <= d
  BY FactsStep, RiskAssumption DEF FactsOK
<1>5. /\ RevenueDecline = "high" => RevenueDecline' = "high"
      /\ RevenueDecline = "medium" => RevenueDecline' \in {"medium", "high"}
  BY <1>1 DEF RevenueDecline, Quiet
<1>6. /\ PaymentDelay = "high" => PaymentDelay' = "high"
      /\ PaymentDelay = "medium" => PaymentDelay' \in {"medium", "high"}
  BY <1>2 DEF PaymentDelay, Quiet
<1>7. /\ TicketIncrease = "high" => TicketIncrease' = "high"
      /\ TicketIncrease = "medium" => TicketIncrease' \in {"medium", "high"}
  BY <1>3 DEF TicketIncrease, Quiet
<1>8. /\ DeliveryComplaints = "high" => DeliveryComplaints' = "high"
      /\ DeliveryComplaints = "medium" => DeliveryComplaints' \in {"medium", "high"}
  BY <1>4 DEF DeliveryComplaints, Quiet
<1> QED
  BY <1>5, <1>6, <1>7, <1>8 DEF SignalTypes, Signal

\* A component of the score shrinks only when its signal is silenced.
LEMMA SilencedComponents ==
  ASSUME FactsOK, [RiskNext]_riskVars, facts'.recent = facts.recent,
         facts'.earlier = facts.earlier, NEW type \in SignalTypes,
         Component(type)' < Component(type)
  PROVE  type \in SilencedTypes' \ SilencedTypes
<1>1. Contributors[type] \cap bare = {} /\ Signal[type] # "none"
  BY Components, Weights DEF SignalTypes
<1>2. Signal'[type] # "none" /\ Weight[type][Signal[type]] <= Weight[type][Signal'[type]]
  <2>1. CASE Signal[type] = "high"
    BY <2>1, SignalsRise, Weights
  <2>2. CASE Signal[type] = "medium"
    BY <2>2, SignalsRise, Weights
  <2> QED
    BY <1>1, <2>1, <2>2, SeverityTyped
<1>3. Contributors[type] \cap bare' # {}
  BY <1>1, <1>2, Components, SeverityTyped, Weights
<1> QED
  BY <1>1, <1>2, <1>3 DEF SilencedTypes, Quiet, SignalTypes, Signal, Contributors

\* A score that falls on bad news leaves a data gap that says which signal has
\* lost its evidence (missing_risk_evidence).
THEOREM ScoresFallOpenly == RiskSpec => ScoreFallsOpenly
<1>1. FactsOK /\ [RiskNext]_riskVars => FactsOK'
  BY FactsStep
<1>2. ASSUME FactsOK, [RiskNext]_riskVars, facts'.recent = facts.recent,
             facts'.earlier = facts.earlier, Score' < Score
      PROVE  DataGaps' \ DataGaps # {}
  <2>1. PICK type \in SignalTypes : Component(type)' < Component(type)
    <3>1. \/ Component("REVENUE_DECLINE")' < Component("REVENUE_DECLINE")
          \/ Component("PAYMENT_DELAY")' < Component("PAYMENT_DELAY")
          \/ Component("TICKET_INCREASE")' < Component("TICKET_INCREASE")
          \/ Component("DELIVERY_COMPLAINTS")' < Component("DELIVERY_COMPLAINTS")
      BY <1>2, ComponentsAreNumbers, CappedSums, Zenon DEF Score
    <3> QED
      BY <3>1 DEF SignalTypes
  <2>2. type \in SilencedTypes' /\ type \notin SilencedTypes
    BY <1>2, <2>1, SilencedComponents
  <2>3. type \in DataGaps'
    BY <2>2 DEF DataGaps
  <2>4. type \notin DataGaps
    BY <2>2 DEF DataGaps, SignalTypes
  <2> QED
    BY <2>3, <2>4
<1>3. FactsOK /\ [RiskNext]_riskVars =>
        [/\ facts'.recent = facts.recent
         /\ facts'.earlier = facts.earlier
         /\ Score' < Score
         => DataGaps' \ DataGaps # {}]_riskVars
  BY <1>2
<1> QED
  BY <1>1, <1>3, FactsInit, PTL DEF RiskSpec, ScoreFallsOpenly
=============================================================================
