--------------------------- MODULE CustomerReports ---------------------------
(***************************************************************************)
(* Reports about a customer as of an instant, and the reasoning runs that  *)
(* cite them (customer_360, context_engine, ai and api/ai.py; the triggers *)
(* of migrations e21f4a7c9b30 and 9d4e7b8c1f20).                           *)
(*                                                                         *)
(* Entities have a history: a trigger copies every state to an append-only *)
(* table, stamped with the application's created_at for an insert and with *)
(* the database's clock for everything else.  Relationships and evidence   *)
(* links have none: a row is visible from its created_at on, and is simply *)
(* gone when it is deleted.  A report reads customer, relationships, their *)
(* targets and the evidence in four statements, each with a snapshot of    *)
(* its own; a run then waits for a provider without any lock before it is  *)
(* saved.                                                                  *)
(***************************************************************************)
EXTENDS Integers, FiniteSets

CONSTANTS
  Customer,     \* the entity that is reported on
  Records,      \* entities it may be related to
  Items,        \* pieces of evidence
  Reporters,    \* report and ask requests in progress at the same time
  Ahead,        \* ticks the application's clock may differ from the database's
  LastInstant,  \* bound: instants at which anything is written
  MaxRevisions, \* bound: revisions and open transactions
  MaxRuns       \* bound: reasoning runs

ASSUME ReportsAssumption ==
  /\ Customer \notin Records
  /\ Ahead \in Nat
  /\ LastInstant \in Nat
  /\ MaxRevisions \in Nat
  /\ MaxRuns \in Nat

VARIABLES
  now,        \* the database's clock
  entity,     \* entities: lifecycle, and when the row was created and written
  revisions,  \* entity_revisions
  writer,     \* the open transaction that holds the lock of an entity's row
  related,    \* relationships of the customer: created_at, or Never
  evidence,   \* evidence linked to the customer: created_at, or Never
  report,     \* requests in progress
  runs        \* reasoning_runs, with the instant asked for

reportsVars ==
  <<now, entity, revisions, writer, related, evidence, report, runs>>

---------------------------------------------------------------------------
Never    == -1
Instants == 0 .. LastInstant
Stamps   == 0 .. LastInstant + Ahead
Entities == Records \cup {Customer}
Lifecycle == {"absent", "active", "inactive"}

Revision == [of : Entities, state : Lifecycle, at : Stamps]

EntityRow == [state : Lifecycle, created : Stamps \cup {Never},
              written : Stamps \cup {Never}]
NoRow     == [state |-> "absent", created |-> Never, written |-> Never]

Writer   == [open : BOOLEAN, state : Lifecycle, at : Stamps, began : Instants]
NoWriter == [open |-> FALSE, state |-> "absent", at |-> 0, began |-> 0]

Run == [asOf : Instants, status : {"failed", "succeeded"}, cites : SUBSET Items]

Report == [pc : {"idle", "asked", "customer", "related", "targets", "read",
                 "thinking", "saving", "refused"},
           asOf : Instants, settled : BOOLEAN, links : SUBSET Records,
           active : SUBSET Records, items : SUBSET Items,
           status : {"none", "failed", "succeeded"}, cites : SUBSET Items]
NoReport == [pc |-> "idle", asOf |-> 0, settled |-> FALSE, links |-> {},
             active |-> {}, items |-> {}, status |-> "none", cites |-> {}]

ReportsInit ==
  /\ now = 0
  /\ entity = [e \in Entities |-> NoRow]
  /\ revisions = {}
  /\ writer = [e \in Entities |-> NoWriter]
  /\ related = [e \in Records |-> Never]
  /\ evidence = [x \in Items |-> Never]
  /\ report = [q \in Reporters |-> NoReport]
  /\ runs = {}

---------------------------------------------------------------------------
(* Entities and their history *)

\* What the application's clock may show.
AppClock == {t \in Stamps : t >= now - Ahead /\ t <= now + Ahead}

\* Revisions of one entity up to an instant; two of them never carry the
\* same microsecond.
RevisionsUpTo(e, t) == {r \in revisions : r.of = e /\ r.at <= t}

\* The state an entity had at an instant: its latest revision by then.
StateAt(e, t) ==
  LET known == RevisionsUpTo(e, t) IN
  IF known = {} THEN "absent"
  ELSE (CHOOSE r \in known : \A s \in known : s.at <= r.at).state

Referenced(e) ==
  IF e = Customer
  THEN \/ \E r \in Records : related[r] # Never
       \/ \E x \in Items : evidence[x] # Never
       \/ runs # {}
  ELSE related[e] # Never

\* The statement stamps its revision and keeps the row locked; what it wrote
\* becomes visible with the commit.
OpenWriter(e, state, at) ==
  /\ ~writer[e].open
  /\ Cardinality(revisions) + Cardinality({d \in Entities : writer[d].open})
       < MaxRevisions
  /\ \A r \in revisions : r.of = e => r.at # at
  /\ writer' = [writer EXCEPT
       ![e] = [open |-> TRUE, state |-> state, at |-> at, began |-> now]]
  /\ UNCHANGED <<now, entity, revisions, related, evidence, report, runs>>

\* A deleted entity never comes back: ids are drawn.
CreateEntity(e) ==
  /\ entity[e].state = "absent"
  /\ RevisionsUpTo(e, LastInstant + Ahead) = {}
  /\ \E at \in AppClock : OpenWriter(e, "active", at)

\* Updates and deletions are stamped with clock_timestamp().
UpdateEntity(e, state) ==
  /\ entity[e].state # "absent"
  /\ OpenWriter(e, state, now)

DeleteEntity(e) ==
  /\ entity[e].state # "absent"
  /\ ~Referenced(e)
  /\ OpenWriter(e, "absent", now)

\* Mutant of Captured: the trigger does not fire for deletions.
CapturedExceptDelete(e) ==
  IF writer[e].state = "absent" THEN {}
  ELSE {[of |-> e, state |-> writer[e].state, at |-> writer[e].at]}

\* The revision the trigger adds with the row.
Captured(e) == {[of |-> e, state |-> writer[e].state, at |-> writer[e].at]}

\* Mutant of Recorded: one revision is kept for each entity.
RecordedLatest(e) == {r \in revisions : r.of # e} \cup Captured(e)

\* entity_revisions is append-only.
Recorded(e) == revisions \cup Captured(e)

CommitEntity(e) ==
  /\ writer[e].open
  /\ revisions' = Recorded(e)
  /\ entity' = [entity EXCEPT ![e] =
       [state   |-> writer[e].state,
        created |-> IF @.created = Never THEN writer[e].at ELSE @.created,
        written |-> writer[e].at]]
  /\ writer' = [writer EXCEPT ![e] = NoWriter]
  /\ UNCHANGED <<now, related, evidence, report, runs>>

RollbackEntity(e) ==
  /\ writer[e].open
  /\ writer' = [writer EXCEPT ![e] = NoWriter]
  /\ UNCHANGED <<now, entity, revisions, related, evidence, report, runs>>

---------------------------------------------------------------------------
(* What has no history *)

\* created_at of a row that is new, or that a merge moves here as it is.
Stamped == {t \in Stamps : t <= now + Ahead}

\* A foreign key waits for the transaction that deletes what it refers to.
Deleting(e) == writer[e].open /\ writer[e].state = "absent"

Relate(e) ==
  /\ related[e] = Never
  /\ entity[e].state = "active"
  /\ entity[Customer].state = "active"
  /\ ~Deleting(e) /\ ~Deleting(Customer)
  /\ \E at \in Stamped : related' = [related EXCEPT ![e] = at]
  /\ UNCHANGED <<now, entity, revisions, writer, evidence, report, runs>>

\* Deleted by a writer, or moved away by a merge.
Unrelate(e) ==
  /\ related[e] # Never
  /\ related' = [related EXCEPT ![e] = Never]
  /\ UNCHANGED <<now, entity, revisions, writer, evidence, report, runs>>

AddEvidence(x) ==
  /\ evidence[x] = Never
  /\ entity[Customer].state = "active"
  /\ ~Deleting(Customer)
  /\ \E at \in Stamped : evidence' = [evidence EXCEPT ![x] = at]
  /\ UNCHANGED <<now, entity, revisions, writer, related, report, runs>>

Advance ==
  /\ now < LastInstant
  /\ now' = now + 1
  /\ UNCHANGED <<entity, revisions, writer, related, evidence, report, runs>>

---------------------------------------------------------------------------
(* Reports *)

\* Nothing that is still to be committed can be stamped at t or before.
Settled(t) ==
  /\ t < now - Ahead
  /\ \A e \in Entities : writer[e].open => t < writer[e].began - Ahead

\* as_of is not compared with the clock: it may lie in the future.
AskReport(q) ==
  /\ report[q].pc = "idle"
  /\ \E t \in Instants :
       report' = [report EXCEPT
         ![q] = [NoReport EXCEPT !.pc = "asked", !.asOf = t, !.settled = Settled(t)]]
  /\ UNCHANGED <<now, entity, revisions, writer, related, evidence, runs>>

\* An entity that was no active customer then: not found.
ReadCustomer(q) ==
  /\ report[q].pc = "asked"
  /\ report' =
       IF StateAt(Customer, report[q].asOf) = "active"
       THEN [report EXCEPT ![q].pc = "customer"]
       ELSE [report EXCEPT ![q] = NoReport]
  /\ UNCHANGED <<now, entity, revisions, writer, related, evidence, runs>>

ReadRelated(q) ==
  /\ report[q].pc = "customer"
  /\ report' = [report EXCEPT ![q].pc = "related",
       ![q].links = {e \in Records : related[e] \in 0 .. report[q].asOf}]
  /\ UNCHANGED <<now, entity, revisions, writer, related, evidence, runs>>

\* Mutant of TargetState: the targets are read from their current rows.
TargetStateNow(e, t) == entity[e].state

TargetState(e, t) == StateAt(e, t)

\* The targets that were not active then are reported as a data gap.
ReadTargets(q) ==
  /\ report[q].pc = "related"
  /\ report' = [report EXCEPT ![q].pc = "targets",
       ![q].active = {e \in report[q].links :
                        TargetState(e, report[q].asOf) = "active"}]
  /\ UNCHANGED <<now, entity, revisions, writer, related, evidence, runs>>

\* Mutant of ItemsAt: all the evidence there is.
ItemsAtAny(t) == {x \in Items : evidence[x] # Never}

ItemsAt(t) == {x \in Items : evidence[x] \in 0 .. t}

ReadEvidence(q) ==
  /\ report[q].pc = "targets"
  /\ report' = [report EXCEPT ![q].pc = "read",
                             ![q].items = ItemsAt(report[q].asOf)]
  /\ UNCHANGED <<now, entity, revisions, writer, related, evidence, runs>>

\* The 360, metrics, risk and context endpoints answer here.
Respond(q) ==
  /\ report[q].pc \in {"read", "refused"}
  /\ report' = [report EXCEPT ![q] = NoReport]
  /\ UNCHANGED <<now, entity, revisions, writer, related, evidence, runs>>

---------------------------------------------------------------------------
(* Questions *)

\* Without evidence the provider is not asked.
AskProvider(q) ==
  LET question == [NoReport EXCEPT !.asOf = report[q].asOf,
                                   !.items = report[q].items] IN
  /\ report[q].pc = "read"
  /\ report' = [report EXCEPT ![q] =
       IF question.items = {}
       THEN [question EXCEPT !.pc = "saving", !.status = "failed"]
       ELSE [question EXCEPT !.pc = "thinking"]]
  /\ UNCHANGED <<now, entity, revisions, writer, related, evidence, runs>>

\* At least one citation, and none from outside the context.
Grounded(cites, items) == cites # {} /\ cites \subseteq items

\* The provider cites what it likes; an empty set stands for its failures.
ValidateDraft(q, cites) ==
  /\ report[q].pc = "thinking"
  /\ report' =
       IF Grounded(cites, report[q].items)
       THEN [report EXCEPT ![q].pc = "saving", ![q].status = "succeeded",
                           ![q].cites = cites]
       ELSE [report EXCEPT ![q].pc = "saving", ![q].status = "failed"]
  /\ UNCHANGED <<now, entity, revisions, writer, related, evidence, runs>>

\* The trigger on reasoning_runs: membership, customer and citations are
\* those of now, not those of the instant that was asked for.  The caller was
\* a member when the request came in and need not be one any more.
RunAccepted(q, member) ==
  /\ member
  /\ entity[Customer].state = "active"
  /\ ~Deleting(Customer)
  /\ \A x \in report[q].cites : evidence[x] # Never

SaveRun(q, member) ==
  /\ report[q].pc = "saving"
  /\ Cardinality(runs) < MaxRuns
  /\ RunAccepted(q, member)
  /\ runs' = runs \cup {[asOf |-> report[q].asOf, status |-> report[q].status,
                         cites |-> report[q].cites]}
  /\ report' = [report EXCEPT ![q] = NoReport]
  /\ UNCHANGED <<now, entity, revisions, writer, related, evidence>>

\* The exception of the trigger is not handled: the answer is lost.
RefuseRun(q, member) ==
  /\ report[q].pc = "saving"
  /\ ~RunAccepted(q, member)
  /\ ~Deleting(Customer)
  /\ report' = [report EXCEPT ![q].pc = "refused"]
  /\ UNCHANGED <<now, entity, revisions, writer, related, evidence, runs>>

ReportsNext ==
  \/ \E e \in Entities :
       \/ CreateEntity(e)
       \/ \E state \in {"active", "inactive"} : UpdateEntity(e, state)
       \/ DeleteEntity(e)
       \/ CommitEntity(e)
       \/ RollbackEntity(e)
  \/ \E e \in Records : Relate(e) \/ Unrelate(e)
  \/ \E x \in Items : AddEvidence(x)
  \/ Advance
  \/ \E q \in Reporters :
       \/ AskReport(q)
       \/ ReadCustomer(q)
       \/ ReadRelated(q)
       \/ ReadTargets(q)
       \/ ReadEvidence(q)
       \/ Respond(q)
       \/ AskProvider(q)
       \/ \E cites \in SUBSET Items : ValidateDraft(q, cites)
       \/ \E member \in BOOLEAN : SaveRun(q, member) \/ RefuseRun(q, member)

ReportsSpec == ReportsInit /\ [][ReportsNext]_reportsVars

---------------------------------------------------------------------------
(* Properties *)

\* Types.
ReportsTypeOK ==
  /\ now \in Instants
  /\ entity \in [Entities -> EntityRow]
  /\ revisions \subseteq Revision
  /\ writer \in [Entities -> Writer]
  /\ related \in [Records -> Stamps \cup {Never}]
  /\ evidence \in [Items -> Stamps \cup {Never}]
  /\ report \in [Reporters -> Report]
  /\ runs \subseteq Run

\* "A later metadata or lifecycle update cannot rewrite a prior as_of
\* assessment" (docs/risk-insight-engine.md): once no open transaction and no
\* clock can reach back to an instant, what was true then never changes.
HistoryIsStable ==
  [][\A t \in Instants, e \in Entities :
       Settled(t) => StateAt(e, t)' = StateAt(e, t)]_reportsVars

\* The history ends in the present: the last revision of an entity is its
\* row, deleted rows included, unless a slow clock wrote the last update
\* before the instant at which a fast one had created the row.
HistoryEndsInTheRow ==
  \A e \in Entities :
    entity[e].written >= entity[e].created =>
      StateAt(e, LastInstant + Ahead) = entity[e].state

\* A report reads four snapshots.  Asked for a settled instant it is what a
\* single one would have given: the customer and exactly the related records
\* that were active then, however they are written while it is read.
ReportIsOfItsInstant ==
  \A q \in Reporters :
    LET r == report[q] IN
    r.settled /\ r.pc \in {"targets", "read"} =>
      /\ StateAt(Customer, r.asOf) = "active"
      /\ r.active = {e \in r.links : StateAt(e, r.asOf) = "active"}

\* A saved answer is grounded in what existed at the instant it was asked
\* for: it cites something, all of it created by then and still there.
RunsAreGrounded ==
  \A run \in runs :
    run.status = "succeeded" =>
      /\ run.cites # {}
      /\ \A x \in run.cites : evidence[x] \in 0 .. run.asOf

\* "Every provider attempt after successful context construction persists one
\* organization/workspace-scoped reasoning_runs row" (docs/ai-orchestrator.md).
EveryAttemptIsRecorded ==
  \A q \in Reporters : report[q].pc = "refused" => report[q].items = {}
=============================================================================
