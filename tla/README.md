# Company Second Brain: TLA+ specifications

This directory specifies the concurrent and crash-prone parts of Company Second
Brain (`src/`), model-checks them with TLC on small instances and proves their
safety properties with TLAPS. The API (`src/apps/api`) is a FastAPI
application over PostgreSQL; any number of API processes, request threads,
pool threads and scheduler workers share that database. Sessions run at READ
COMMITTED with `expire_on_commit=False` (`db/session.py`), so almost every hard
question is one of row locks, leases, cached rows and the gap between a remote
call and the transaction that records it. Below,
`generic_mcp_integrations.py` is written GMI.

## 1. Inventory

| component | state | operations | what is hard | what makes it correct |
|---|---|---|---|---|
| MCP sync runs (GMI 1564-2398) | `mcp_sync_runs`, `mcp_sync_items`, `mcp_resource_checkpoints`, pool threads | create, execute (coordinator, workers), intake of a saved resource | leases that expire under a living owner, retries, two transactions per item, cached rows, crashes | one holder per item, outcomes by the attempt that earned them, a text staged once, a run that agrees with its items, every run ends |
| MCP schedules, dispatch (GMI 1066-1561, 2401-2456; `scripts/run_mcp_scheduler.py`) | `mcp_sync_schedules`, `..._schedule_resources`, `mcp_schedule_ticks` | create, update, disable, run now, dispatch due, run cycle | a long transaction on an old clock, lock order, slot arithmetic, starvation | a slot is used once, decisions are current at commit, no overlapping interval runs, no starvation |
| MCP discovery (GMI 407-425, 808-1035) | cursor, cycle and lease in `mcp_connections`; `mcp_discovered_resources` | discover one page | a page read without a lock, lease expiry, partial cycles | pages are consecutive, nothing is withdrawn before its cycle is complete |
| Saved MCP connections (GMI 609-805) | `mcp_connections`, credential registry | create, list, authority check | authority revoked while work is in progress | rechecked before every commit of a worker |
| Generic MCP reads, adapter (`integrations/mcp`) | none | connect, list, read | failures | errors leave no state |
| Action proposals (`api/action_proposals.py`, migration 545c74fcdca1) | `action_proposals`, `action_audits` | create, approve, execute | an external effect before the commit, stale roles, concurrent executions | no call without a true approval, no overlap of calls, a truthful record |
| Ingestion and review (`api/ingestions.py`, `ingestion/`) | `ingestion_runs`, `extraction_candidates`, `source_assets` | upload, promote, reject | two reviewers at once, a promotion that fails half-way | one decision per candidate, a document exactly for promoted ones |
| Documents, links, search (`api/documents.py`, `search.py`, `knowledge/`) | `documents`, versions, chunks, links | create, new version, read, search | link resolution by title under concurrent creation, version numbers | dense version numbers, links to the only document of a title |
| Entity resolution (`api/entity_resolution.py`, `entity_resolution/`) | cases, merges, audits, entities and all that refers to them | detect, decide, merge, split | a split undoing a merge after other edits | a split restores what the merge moved |
| Entities, relationships, revisions, evidence (`api/entities.py`, migration e21f4a7c9b30) | `entities`, append-only `entity_revisions`, relationships, evidence links | create, update, delete, relate | two clocks stamp one history, and before its commit | settled history never changes and ends in the row |
| Timeline, canvases, graph | one table each | create, list | little: single-row writes, reads | - |
| Customer 360, context engine (`customer_360/`, `context_engine/`) | none | report of an instant | four statements, four snapshots | a report is of its instant |
| Risk engine (`risk_engine/`) | none | assess | one fact without evidence silences a signal | a score never falls without a data gap that says why |
| AI orchestrator (`ai/`, `api/ai.py`, migration 9d4e7b8c1f20) | append-only `reasoning_runs` | ask | a provider is asked between the reads and the insert | what is saved cites evidence that existed |
| Odoo integration (`integrations/odoo`, `api/odoo_integrations.py`) | sources, external references, entities | pull, map | first mappings that overlap, savepoints, an audit that commits the session | one entity per record |
| Integration audits | append-only log | list | - | - |
| Web workbench (`apps/web/src/App.tsx`) | lists and flags of a session | upload, import, review, refresh | answers that arrive late, or after the session was changed | one tenant's data on the screen, buttons that come back, a decided item stays away |
| Migrations, runtime scripts | triggers and constraints | - | what they refuse | the code never runs into them |

Interactions: `run_mcp_scheduler.py` calls dispatch and the run cycle, which
calls the execution of sync runs; executions start pool threads with sessions of
their own; these, the interactive intake, discovery and the dispatcher all lock
the connection's row. Dispatch reads the catalog that discovery writes.
Intakes create candidates for the review queue, reviewing creates documents.
Mappings create and update the entities that merges combine and reports read; a
reasoning run is made from a report.
Action proposals stand apart, but for the users and roles they share with
everything.

Every hazard found is listed with its line in `PROJECT.json`, with the
properties that cover it or the reason why none does.

## 2. Modules

| module | models | checked by |
|---|---|---|
| `MCPSync` | execution of sync runs, interactive intake | `MCMCPSync` |
| `SyncContract` | what a sync promises, abstractly | refinement by `MCPSync` |
| `MCPSyncLive` | `MCPSync` with a polling scheduler and finitely many faults | `MCMCPSyncLive` |
| `MCPScheduler` | schedules, dispatchers, ticks | `MCMCPScheduler` |
| `MCPSchedulerLive` | dispatchers that keep dispatching | `MCMCPSchedulerLive` |
| `MCPDiscovery` | discovery of the catalog, page by page | `MCMCPDiscovery` |
| `ActionProposals` | proposals of external writes | `MCActionProposals` |
| `Documents` | documents, versions, links, ingestion and its review | `MCDocuments` |
| `EntityMerge` | merge and split of entities, and what edits beside them | `MCEntityMerge` |
| `MergeContract` | what merge and split promise, abstractly: one step each | refinement by `EntityMerge` |
| `EntityIdentity` | mapping of Odoo records, cases of entity resolution | `MCServices` |
| `CustomerReports` | entities' history, reports of an instant, reasoning runs | `MCCustomer` |
| `CustomerRisk` | metrics and risk score | `MCCustomer` |
| `Workbench` | the operator's page, its calls and their answers | `MCServices` |
| `M_proofs` for `M` in `MCPSync`, `MCPScheduler`, `MCPDiscovery`, `ActionProposals`, `Documents`, `Workbench` | theorems about `M` | TLAPS |
| `EntityResolution_proofs` | theorems about `EntityIdentity` and `EntityMerge` | TLAPS |
| `CustomerReports_proofs` | theorems about `CustomerReports` and `CustomerRisk` | TLAPS |

`MCServices` checks `MCPDiscovery`, `ActionProposals`, `EntityIdentity` and
`Workbench` in one run, `MCCustomer` the report and the score of a customer:
parts without common state, of which the variable `part` lets one run while the
others stand still, so that their states add up. `MCMCPDiscovery` and
`MCActionProposals` remain for the findings about these two alone.

In all of them one action is one database transaction, one remote call, or a
wait for a lock that has been granted; a request that is refused and changes
only an audit of refusals has no action of its own. Audits are modelled where a
property speaks of them (`ActionProposals`, `EntityIdentity`).

Triggers that refuse a row are guards of the actions that write it
(`ApprovalStands`, `ExecutionStands`, `OwnerAccepted`, `RunAccepted`). Those the
code must never run into are definitions which a property uses: `RunTransition`,
`ItemTransition` and `AggregateMatches` (`MCPSync`), `TickSealed`
(`MCPScheduler`), `EventsOf` (`ActionProposals`), `ReviewSealed`,
`CandidatesSealed`, `ChunksSealed` and `EvidenceSealed` (`Documents`).
`SingleActive` (`EntityMerge`) is both: a guard of the merge, and one of the
checks `ChecksSuffice` says never refuse.

### MCPSync

A run has one item per requested resource (`_new_sync_run`). An execution
`ClaimCoordinator`s the run's lease, selects the open items (`SubmitItems`),
and waits for its threads; `FinalizeSyncRun` or `AbandonRun` ends it. A thread
claims the item's lease (`ClaimSyncItem`, or one of the other ends of
`_claim_sync_item`; its branch for items that are decided or leased already has
no action, because `ClaimsFindOpenItems` holds: it is never taken), reads the
connection unlocked (`CheckConnection`), takes the checkpoint's lock, reads the remote text, and commits the intake after
authorising it once more (`CommitIntake`, `RejectIntake`, `LoseAuthority`);
`CompleteSyncItem` is a later transaction. `Manual*` is the interactive intake,
which takes the same checkpoint lock and needs no lease.

- *Leases.* `left` is the time a lease has left; `Tick` ages all of them. A
  worker carries its own copy: `_complete_sync_item` selects the row FOR UPDATE
  but keeps what the session has cached, so after an intake that was not rolled
  back its comparison of owners is vacuous and `MayComplete` looks at the
  clock alone. After a rollback the row is read afresh. Whether this is enough
  is what `OutcomeIsOfItsAttempt` and `LeaseExclusion` ask; it is, because both
  copies of a lease expire at the same instant and nobody claims an item before.
- *Texts.* A resource has versions `0..LastVersion`; `TextAt` says which of them
  have equal texts (a text may come back), `Unparseable` which the intake stage
  refuses. Content hash, title and media type are compared together (`SameText`).
- *Owners.* The uuid of an item lease is the attempt it was drawn for, the uuid
  of a coordinator lease the execution.
- The retry of an item keeps its thread; `MaxConcurrency` bounds the threads.
- A refresh after the commit that fails is reported as a connector failure,
  although the intake is in the database (second branch of `CommitIntake`).
- An intake does not protect its item. `OwnIntakeFailsOnlyAtLimit` says that an
  attempt that took its text in closes the item as failed only when it was the last
  one; when it is repeated, the next attempt may fail the item at once, because
  the connection is disabled, the text is refused by now or the lease is lost.

`SyncContract` knows nothing of leases: resources are decided once, runs closed
once by their decisions, texts staged in order and never twice. `Contract` in
`MCPSync` is the refinement mapping; `ImplementsContract` is checked and proved.

### MCPScheduler

`dispatch_due_sync_schedules` is modelled as it runs: `ReadClock`, `LockDue`
(FOR UPDATE SKIP LOCKED, in order, limited), one `DecideSlot` per schedule that
waits for its connection, and `CommitDispatch`. What is decided stays in the
dispatcher's `plan` until the commit. `CreateSchedule`, `UpdateSchedule`,
`DisableSchedule` and `RunScheduleNow` are single transactions. `Advanced` is
`_advance_schedule_due` with its truncation to seconds; `Second` clock units
make a second, so due times have fractions. `DispatchCollides` is the unique
key of ticks raising, `AbortDispatch` a crash, an error or a deadlock victim.
A tick, once written, is never updated or removed (`TickSealed`, the triggers of
migration 073cc76cf70d): what becomes of its run is a field of the model's row but
not of the table's.
`EndRun` stands for `MCPSync`, `ChangeCatalog` for `MCPDiscovery`.

### MCPDiscovery

One request claims the lease, lists the page at the stored cursor with no lock,
and commits the merged page and the next cursor if it still owns the lease. The
server may answer any set of resources with any next cursor. `seen` and
`complete` record what the pages of the open and of the last complete cycle
listed; they are compared with the catalog and never guard an action.

### ActionProposals

A request authenticates (its role is read then), waits for the row lock, and
writes; the triggers look up the role again at the write. `CallConnector` lies
between lock and commit: it may apply the write and still answer with an
error, and the request may be lost afterwards (`LoseExecution`). `calls`,
`lost` and `grantedAs` are observations and guard nothing but the bound on
losses.

### Documents

Creating a document, a new version of one and the promotion of an ingestion run
the same statements, and each statement is an action, because at READ COMMITTED
each sees what was committed before it: the insert, the retirement of the old
version's links, one query and one insert per link (`MatchLink`, `WriteLink`),
and for each title to be resolved the query of its documents, the query of its
links and their update (`MatchTitle`, `SelectLinks`, `ResolveLinks`). `tx` holds
what a request has read and not yet committed. Locks are derived from it: a
document being updated is locked FOR UPDATE (`LockedForUpdate`), the target of
an uncommitted link FOR KEY SHARE by its foreign key (`LockedByKey`), a link
that was written by its writer (`RowLocked`), and a run under decision
(`RunFree`). The UPDATEs of several links are one step: they are flushed
together. `RollBack` is a path that is taken, a deadlock victim or a crash: two
documents that link to each other and are updated at once do deadlock.

Two overlapping requests about one title can leave its links wrong, each having
counted the documents without the other's. `contended` observes the titles this
may concern, and `LinksAgree` says that every other title is right, and so that
the next undisturbed request repairs what was left. Titles are taken as
normalised and as committed (a request that has loaded a document before keeps the
title it saw, which differs only for contended titles); texts are reduced to a title and links; tags and the embedding are
inserts nobody else writes, and are left out. Chunks are written with their
version and the evidence of a promotion is the document's `origin`, so that the
triggers which seal both can be stated (`ChunksSealed`, `EvidenceSealed`).

### EntityMerge

`merge_entities` and `split_merge` lock their two entities and the rows they will
move, check them (`CheckMerge`, `CheckSplit`), and move them (`CommitMerge`,
`CommitSplit`), for which the trigger `require_active_entity_owner` also needs
the entities at the far ends. The first step ends with the last of the first
locks: what is held while waiting for the next lock only delays others. Besides,
relationships are created, retyped and deleted, evidence is attached, metadata
is replaced by a client's (`UpdateEntity`, and the mark `merged_into` with it), and Odoo
records are mapped, a read without a lock (`FindMapping`) and a later write of
the columns that differ (`PersistMapping`). References, events, memories and
evidence links are all `Records`: merge and split treat them alike.

`home` observes which entities a row was created with. `OwnersFollowMerges` says
that every row is where the open merges put what was created there, however
merges and splits of the entities at both ends were combined; a split therefore
gives back exactly what was taken. A mapping that read an archived entity before
it was reactivated and merged makes the tombstone active again; `Places` says
what holds then. Creation and deletion of entities without rows, names, aliases
and entity types are left out, and so is evidence of relationships, which no
request creates; revisions are in `CustomerReports`.

`MergeContract` is the system without locks, checks and requests in progress:
`Merge` and `Split` are one step each, a merge moves all that the source owns at
that moment and writes down exactly that, a split finds all of it and gives it
back, nothing is handed to an entity that is not active, and no step leaves a
loop or a relationship twice. `Contract` in `EntityMerge` maps a state to it by
dropping from every open merge what it keeps of the source's metadata (`Taken`);
`ImplementsMergeContract` is checked and proved.

### EntityIdentity

A mapping is one transaction around a call to Odoo. `FindSource` and
`FindReference` read without locks; `InsertSource`, `InsertEntity` and
`InsertReference` create what is missing inside savepoints. A unique index lets
an insert wait for another one of the same key and, when that one commits,
undoes the savepoint, with the entity that was flushed in it: the mapping goes
on with the entity of the other. What a transaction has written is in `maps` and
moves to the tables with `CommitMapping`. `FailMapping` is every error: Odoo's, a
trigger's, or that of closing the client; the session is rolled back before the
failed audit is committed by it. `InsertReference` waits for ever for an archived
record, which `require_active_entity_owner` refuses.

Cases of resolution are opened with any set of active candidates (`Resolve`; how
names are compared is left out), locked by an operator (`LockCase`), and matched,
dismissed or given up.

### CustomerReports

A trigger copies each state of an entity to an append-only table, stamped with
the application's clock for an insert and with the database's otherwise
(`Captured`); `writer` holds the open transaction of each row, so what it wrote
becomes visible later than it is stamped. The two clocks differ by at most
`Ahead`. A report reads customer, relationships, their targets and evidence, one
action each (`ReadCustomer` .. `ReadEvidence`). `Settled(t)` says that neither a
clock nor an open transaction can reach back to `t`, and a report remembers
whether its instant was settled when it began. Then the provider is asked without
locks (`AskProvider`), its citations are validated (`ValidateDraft`), and the run
is accepted or refused by the trigger (`SaveRun`, `RefuseRun`). Relationships
and evidence links have no history: a report of the past lacks those that were deleted
since, and has those that a merge moved to the customer since with the `created_at`
they had (`Stamped`); evidence is never deleted.

### CustomerRisk

The score as `calculate_metrics` and `calculate_risk_assessment` compute it from
counts and amounts: four signals, the facts each rests on, weights, severity and
the gaps. Steps add a fact, with or without evidence, or the evidence that was
missing. Evidence is kept by kind of fact and not by record, because one record without
it silences the whole signal. A complaint is a ticket of its window as well.
`ScoreFallsOpenly` compares the scores before and after a step in which
the news is bad: a silenced signal lowers the score, and must leave a gap.

### Workbench

An `Edit` of session or connector starts a new generation and clears what is
shown, except the flag of the import in flight. A call carries the generation it
was sent in; the server answers any call in flight with an answer, an error, or
an error after its effect (a lost answer); each handler compares generations
(`Current`) and closes its flags. `DecideElsewhere` is another operator. `mine`
observes the decisions that were acknowledged here. Loads of other panels (search,
audits, resources, connection test) have the same shape and are one kind of call; unlike
uploads and refreshes they may be sent before a session is complete, and then get an
error for an answer.

## 3. Runs

Bounds are constants of the specifications or of the MC configurations.

| run | instance | states | shows |
|---|---|---|---|
| `item` | 1 run, 1 resource, 2 executions, 3 attempts, leases 3 and 2, texts A, bad, B, interactive intake | 1,051,048 | all safety properties of `MCPSync` and `ImplementsContract` |
| `live` | 1 resource, 2 executions, 2 attempts, `MaxFaults` 3 | 165,584 | `EveryRunEnds` |
| `scheduler` | 1 schedule, 2 dispatchers, intervals 1 and 2, `Second` 2, `MaxTime` 5, 1 manual run | 527,372 | slots and decisions |
| `scheduler_live` | 2 schedules on a connection, 2 dispatchers, batches of 1, `MaxTime` 1, `MaxFaults` 1 | 92,856 | `DueSlotsAreTaken` |
| `services`, discovery | 2 resources, 2 cursors, 2 requests, lease 2, 3 cycles | | cycles and pages |
| `services`, actions | 1 proposal, 2 users, 2 requests, `MaxLost` 1 | | authority, calls and records |
| `services`, identity | 2 records, 2 mappers, 3 entities, 1 case, 2 operators | | one entity per record, one decision per case |
| `services`, workbench | 2 sessions, 2 documents, 3 edits, 2 calls in flight | | late answers |
| `services` together | one part at a time | 1,035,906 | |
| `customer` | 1 related entity, 1 piece of evidence, 1 report, clocks 0..2 that differ by 1, 3 revisions, 1 run; risk: amounts 7, 8 and 10, 3 invoices and complaints, 5 and 2 tickets | 1,097,831 | history, reports and scores |
| `documents` | 2 paths, 2 titles, 3 texts, 1 ingestion, 2 requests, `MaxVersion` 2 | 866,186 | links, versions and reviews under concurrent requests |
| `merge` | either 4 entities, 3 relationships and 2 types, or one fewer of each with 1 record, its mappings and attachments; 2 requests | 136,503 | merges and splits at both ends of relationships, beside mappings; `ImplementsMergeContract` |
| `actions_calls` | as `services`, actions | - | a second connector call (finding) |
| `discovery_available` | as `services`, discovery | - | early availability (finding) |
| `merge_active` | as `merge` | - | rows of inactive entities (finding) |
| `ai_audit` | as `customer` | - | an attempt without a row (finding) |

Why the bounds suffice. `MCPSync`: resources of one run interact only through
the run's row and the pool, so one resource carries all races of attempts and
intakes; those of finalisation over several items are left to the proofs. Runs
share nothing but checkpoints, where the interactive intake plays the other
run. The item lease
is shorter than the coordinator's, as in the code (1 and 5 minutes), and long
enough for a claim, an intake and a completion to be interrupted by a tick at
every point; three attempts (the default of the code) make one that is followed by
one that is not the last, so that an item may fail between its first intake and
its last attempt; three versions are a text, one that is refused, and another. The proofs remove these
bounds. `MCPScheduler`: five half-seconds hold a slot, a missed one and the one
after; two dispatchers hold a stale and a current reading. `ActionProposals`:
proposals do not interact; the second user is needed for approval, and roles
change without limit. `MCPDiscovery`: three cycle ids let a stale page meet a
newer cycle. `Documents`: links relate one document to
another by one title, a third document would only be a second match; two
versions are an old and a new text, two titles a renaming. `EntityMerge`: four
entities allow a merge at each end of a relationship, three relationships a
duplicate beside a loop; mappings concern one entity, and need two requests to
overlap with each other and with a merge between them; marks that clients write are none or the one
the tombstone has from its merge (`MarksBounded`), as all others are alike to a split;
`spare` is what an instance with records leaves out, because both at once are too many states.
`EntityIdentity`: two mappers of the same or of two records of one instance are
all the conflicts an index can make, and a third entity is what a rolled back
savepoint has drawn. `CustomerReports`: three instants are before, at and after the
one asked for, three revisions a creation, a change and another; related entities do
not interact. `CustomerRisk`: the amounts put the fall of revenue below, at and above
its thresholds, as do the counts of tickets and complaints. `Workbench`: with three edits
a session is left and entered again while a call of the first visit is in flight,
and two calls are one and the one that overtakes it; the proofs have no such bounds.

Deadlock is checked in all runs but `merge`, `services` and `customer` (and their
findings): merging ends when all entities are merged and no split is possible,
and the others stop at their bounds of cycles, edits, records or facts.
Symmetry is used for executions, dispatchers, requests, users, resources,
cursors, paths, entities, relationships and types where they are
interchangeable, and in no liveness run. The parts of `services` share the model
values of their symmetric sets (`Requests`, `Callers`, `Mappers` and `Scopes` are
one set of two), so that a permutation of them is one of every part.

Every property has a mutant: an operator defined next to the one it replaces
(`LockFreeAlways`, `MayCompleteLate`, ...) that drops a lock, forgets a check or
is off by one; TLC finds the property violated by it.

### Fairness

`MCPSyncLive`: threads of a living process eventually act (weak fairness),
PostgreSQL grants a contended lock in turn (strong fairness of
`LockCheckpoint`), a user's interactive intake ends, the clock advances when
nothing else can, and the scheduler polls every run again and again
(`run_mcp_scheduler.py` polls for ever; `run_scheduler_cycle` takes queued
runs and running ones whose lease is over). Time that passes although a thread
could act is a *fault* like a crash, and faults are finite but otherwise
arbitrary: with unlimited delays every lease would expire before its worker
acts. Failures of the server and changes of authority are not faults and are
unlimited. That no fairness is asked of `ChangeAuthority` or of the server is
why a run may end as failed, but ends.

`MCPSchedulerLive`: every dispatcher's steps and the resolution of deadlocks
by the database are weakly fair; users, clock, discovery and executions owe
nothing. `Blocked` excepts the case in which a run by hand carries the very
instant of a slot; the unique key then rolls back every dispatch until the
schedule is edited.

### Findings

1. `actions_calls`: `docs/api-spec.md:368-371` promises that a repeated
   execution "returns `409` without a second connector call". The connector is
   called before the commit; an execution lost in between (a crash, or the
   trigger refusing an executor whose role was revoked meanwhile) leaves the
   proposal approved, and the next execution calls again with the same
   idempotency key. `CallsFollowLosses` is what does hold.
2. `discovery_available`: `docs/operator-guide.md:152-154` says availability
   reflects the last complete cycle "not an intermediate page"; intermediate
   pages do make resources available. `CatalogIsOfItsCycles` is what does hold.
3. `merge_active`: "The database requires every entity-owned row to reference an
   active entity" (`merge.py:448`, likewise `docs/database-erd.md:104`). The
   trigger guards the rows, not the entities: mapping an archived Odoo record
   makes an entity inactive that owns the very reference it was found by.
   `OwnersFollowMerges` is what does hold.
4. `ai_audit`: "Every provider attempt after successful context construction
   persists one ... `reasoning_runs` row" (`docs/ai-orchestrator.md:72-73`). The row
   is inserted after the answer, and the trigger refuses it when the customer is no
   longer active or the caller no longer a member: the attempt leaves no trace.
   `RunsAreGrounded` is what does hold of the rows that are saved.

## 4. Proofs

All theorems hold for every value of the constants that satisfies the assumption
of the module they are about; the provers need nothing else. No bound of a
configuration enters them. What is proved is listed with its module in
`PROJECT.json`.

### MCPSync

`MCPSync_proofs` proves, for all values of the constants that satisfy
`SyncAssumption` (finitely many resources; any number of runs, executions,
attempts, versions and lease lengths; in the last row, of faults):

| theorem | property |
|---|---|
| `TypeCorrect` | `TypeOK` |
| `LeasesExclude` | `LeaseExclusion` |
| `ClaimsAreOpen` | `ClaimsFindOpenItems` |
| `NothingStagedTwice` | `NoDuplicateIntake` |
| `RunsAgree` | `RunAgreesWithItems` |
| `TriggersAreSilent` | `TriggersNeverFire` |
| `OutcomesAreTrue` | `OutcomeIsOfItsAttempt` |
| `FailuresAreLate` | `OwnIntakeFailsOnlyAtLimit` |
| `SyncImplementsContract` | `ImplementsContract` |
| `LiveRunsAreRuns` | `LiveSpec => Spec`: all of this holds of the runs `live` shows to end |

None of these is inductive by itself. The argument has five layers:

- *LeaseInv* (theorem `LeaseInvariant`): threads exist only for requested items
  of a working execution; rows are well formed (a lease exactly while running);
  a thread's token is at most its item's attempt; and, the heart of it, a
  thread whose *cached* lease still lasts has a token equal to the item's
  owner, the same time left, and works for the run's owner. A newer claim needs
  the row's lease to be over, and then the cached one is over too
  (`CachedLeases`). The lemma `CompleterOwnsItem` follows: whoever passes
  `MayComplete` owns the item, which is what the code's vacuous comparison
  would have had to establish.
- *ClaimsInv*: from the claim of a run to the selection of its items, while the
  coordinator's lease lasts, none of them is leased: `ClaimCoordinator` asks for
  that, and afterwards only the coordinator's own threads write unleased items.
- *LockInv*: whoever is between `LockCheckpoint` and the commit holds the lock,
  and the base it read is still the checkpoint. Without the lock, two first
  intakes would both stage.
- *RunInv*: a terminal run has no open item and no thread that may still
  complete one, so its counters cannot be overtaken.
- *ReportInv*: a settled thread that will report changed or unchanged belongs
  to an attempt whose intake is committed, at a version not newer than the
  checkpoint.

The refinement theorem then maps each action to one step of the contract or to
a stutter.

### The other modules

Each proof begins with a type invariant that is strong enough to type the values
read through `Nobody` or `Nothing`, and ends with PTL.

| module | theorem: property | what makes it inductive |
|---|---|---|
| `MCPScheduler` | `SchedulerTyped`: `TypeOK` | intervals are chosen from `Intervals` |
| | `DecisionsStand`: `DispatchIsCurrent`; `NeverTwoIntervalRuns`: `OneIntervalRunAtATime` | `DispatchInv`: a schedule in a plan is locked with its connection by its dispatcher, on and due, and a planned run is free of open runs; users and other dispatchers need these locks. `SlotsOpen`: the slot of a planned run has no tick, which a run by hand could otherwise write first |
| | `SlotsLeadForward`: `SlotsOnlyForward` | `SlotInv`: a slot that was used lies before the due time and not after the clock |
| | `MissedPeriodsCoalesce`: `DispatchCoalesces` | lemma `NextSlot`: the arithmetic of `Advanced` with truncated seconds, for all intervals and fractions |
| | `LiveDispatchesAreDispatches` | none: the steps of `MCPSchedulerLive` are steps of `MCPScheduler` |
| `MCPDiscovery` | `DiscoveryTyped`, `CatalogOfCycles`: `CatalogIsOfItsCycles`, `ConsecutivePages`: `PagesAreConsecutive` | `CyclesDrawn`: ids of cycles come from the counter; `OwnerStandsAtTheCycle`: who owns the lease read its cursor where the cycle stands; `SeenIsOfTheCycle`: rows marked with the open cycle are those its pages listed |
| `ActionProposals` | `ActionsTyped`; `OnlyAuthorizedCalls`: `CallsAreAuthorized` | `LockInv`: who calls holds the row's lock, and the row is approved by a true approval |
| | `CallsOnlyAfterLosses`: `CallsFollowLosses` | `CountInv`, by counting calls, losses and answers |
| | `TrueRecords`: `RecordsAreTrue` | `RecordInv`: an answer that is carried to the commit is true |
| `EntityIdentity` (in `EntityResolution_proofs`) | `IdentityTyped`; `OneEntityForEveryRecord`: `OneEntityPerRecord` | `IdentityInv`: inserted entities are new and no two mappings inserted the same one or the same reference (the index), updates are of entities that exist, references are one to one with them |
| | `CasesDecidedOnce`: `CasesCloseOnce` | `LocksAreOfOpenCases`: a locked case is open and locked once |
| `EntityMerge` (in `EntityResolution_proofs`) | `MergesTyped`: `TypeOK`; `RowsFollowMerges`: `OwnersFollowMerges` | `MergesApart`: open merges share no entity; `RowsAtHome`: a journal has a row exactly while the row is where that merge put it, and what it deleted is in no other journal |
| | `ChecksAreEnough`: `ChecksSuffice`; `MergesCanBeSplit`: `SplitsStayPossible` | `JournalStands`: the journal a merge has taken under its locks is the one it would take now, and its keys differ; nothing belongs to a tombstone (`TombstoneBare`) |
| | `MergesImplementContract`: `ImplementsMergeContract` | all of these; see below |
| `Documents` | `DocumentsTyped`; `VersionsNumbered`: `VersionsNeverCollide` | `VersionInv`: one request updates a document at a time, and the version it read is still the last |
| | `OneDocumentEach`: `OneDocumentPerIngestion`; `DecisionsStayFinal`: `DecisionsAreFinal` | `PromotionInv`: a run under decision is pending, and decided by one request; with `VersionInv` and `OneDocumentPerIngestion`, a promoted run's document exists, so that a later version is not its first (lemma `DocumentsGrow`) |
| | `LinksStayRight`: `LinksAgree` | `LinkInv`: overlapping requests know each other's titles, so a title a request is about and met nobody at is its own: the document it matched stays the only one of the title, and every link to it is written, picked or already right |
| `CustomerReports` | `ReportsTyped`; `AnswersAreGrounded`: `RunsAreGrounded` | `GroundInv`: evidence in a context exists until the run is saved, because runs and reports only cite rows that nothing deletes |
| | `HistoryStaysAsItWas`: `HistoryIsStable` | `WritersStamp`: an open transaction stamps at most `Ahead` before it began |
| | `ReportsAreOfTheirInstant`: `ReportIsOfItsInstant` | `ReadingsStand`: what was read for a settled instant stays true, by the theorem before |
| | `HistoriesEndInTheirRows`: `HistoryEndsInTheRow` | `RowInv`: no two revisions of an entity have one stamp, and all but the creation's are not after the row's |
| `CustomerRisk` (in `CustomerReports_proofs`) | `RiskTyped`; `ScoresFallOpenly`: `ScoreFallsOpenly` | facts are only added, so no signal gets milder (`SignalsRise`), and a component of the score shrinks only when it is silenced (`SilencedComponents`) |
| `Workbench` | `WorkbenchTyped`; `NothingOfAnotherSession`: `ShownIsOfTheScope` | `ScopeInv`: a call of this generation is of this scope, and an answer of the scope of its call |
| | `ButtonsComeBack`: `ButtonsFollowCalls` | `ButtonInv`: one call of a kind and generation, and at most one import at all |
| | `DecidedDocumentsStayAway`: `DecidedStaysAway` | `DecidedInv`: what was decided here is decided at the server, no list in flight has it, and no refresh and decision wait together |

For `EntityMerge` two lemmas carry the argument. `Footprint` says that a request
stands while others change only entities it has not locked and relationships
that are not among its rows; each action is shown to have such a footprint.
`MergePlaces` and `SplitPlaces` follow one place through a merge and a split,
and are used for records and for both ends of a relationship alike.

The refinement of `MergeContract` maps the commits of a merge and of a split to its
steps `Merge` and `Split`, an edit to the step of its name, and everything else,
a request's checks included, to a stutter. That a commit is a step needs the
invariant: a merge commits a journal it took earlier, and `JournalStands` makes
it the one it would take now; a split commits on checks made earlier, and
`SplitStands` says that what they found is still with the target, which is still
active; `RowsAtHome` that nothing else has taken the ids of what was deleted;
`MergesApart` that two open merges do not become one when `Taken` drops a field.
The graph's consistency after a step is what the table's constraints refuse
otherwise; that they never refuse a merge or a split is `ChecksSuffice`.

The triggers of `MCPSync`, `MCPScheduler`, `EntityMerge` and `Documents` that must
never fire are proved not to (`TriggersAreSilent`, `RunsAgree`, `DecisionsStand`,
`ChecksAreEnough`, `DecisionsStayFinal`).

`LinksAgree` assumes that there are finitely many documents, which makes the
count of a title's documents meaningful; `DocumentsAssumption` says so.

Checked only by TLC: liveness (`EveryRunEnds`, `DueSlotsAreTaken`), which is outside
the prover's reach. Every other property of a passing run is a theorem. Of the
modules `services` and `customer` check together, the types are proved and not
checked (`DiscoveryTyped`, `ActionsTyped`, `IdentityTyped`, `WorkbenchTyped`,
`ReportsTyped`, `RiskTyped`).

## 5. Not modelled

- Pure input and output, parsing, wording, hashing, sizes, the mock servers and
  verifiers; search, graph and timeline, which only read; canvases, where a
  validated value replaces a single row; how names are compared for a case and
  which words make a question a customer status question.
- Single remote reads of Generic MCP and of Odoo: they keep no state, and their
  failures are those of the actions that use them. The HTTP client's retries and the
  translation of Odoo's fields are pure; the hazards list a mismatch of field names
  between that translation and the metrics.
- Tenancy: one organisation and workspace, every query being scoped to it.
- SQLite, on which the unit tests run (no row locks); the models are of
  PostgreSQL at READ COMMITTED.
- Creation of connections (one insert) and of single sync runs (`Init` of
  `MCPSync` is a created run); the pool of database connections.
- The order of runs in a scheduler cycle and the abort of a cycle by an error
  other than 409: each run's poll is a step of its own.

## 6. Plan

Everything of the plan with concurrency, failure or order in it is modelled. What
a next version of this directory would add is the composition of a scheduler
cycle with the executions it starts, for the order of runs within a cycle and
the pool of database connections. Of proofs it would add an abstract
specification of slots, which `MCPScheduler` implements, and one of the review of
an ingestion, as `SyncContract` and `MergeContract` are of syncs and merges.
