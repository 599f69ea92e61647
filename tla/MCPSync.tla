------------------------------ MODULE MCPSync ------------------------------
(***************************************************************************)
(* Execution of MCP sync runs against one saved connection                 *)
(* (apps/api/src/company_brain/api/generic_mcp_integrations.py).           *)
(*                                                                         *)
(* A run owns one item per requested resource.  An execution (an HTTP      *)
(* request or a scheduler cycle, in any API process) claims the run's      *)
(* coordinator lease and submits one worker per open item to a thread      *)
(* pool; a worker claims the item's lease, reads the remote resource under *)
(* the resource's checkpoint lock, commits the intake, and completes the   *)
(* item in a LATER transaction.  Leases are never renewed.                 *)
(*                                                                         *)
(* One action is one database transaction or one remote read; executions,  *)
(* workers, interactive intakes, the remote server and the database clock  *)
(* interleave freely.  A lease's expiry time is kept as the time it has    *)
(* left ("left", 0 = expired), so Tick ages every lease, the copies that   *)
(* the workers cached included.  An owner uuid of a coordinator lease is   *)
(* the execution that drew it (an execution ends before its slot is used   *)
(* again); an owner uuid of an item lease is the attempt it was drawn for. *)
(***************************************************************************)
EXTENDS Integers, FiniteSets

CONSTANTS
  Runs,              \* sync runs of the connection
  Uris,              \* resources of the connection
  Requested,         \* Requested[r]: the resources run r was created for
  Executions,        \* requests that may execute a run at the same time
  MaxAttempts,       \* attempts an item has
  MaxConcurrency,    \* threads of one execution's pool
  CoordinatorLease,  \* clock ticks a coordinator lease lasts
  ItemLease,         \* clock ticks an item lease lasts
  LastVersion,       \* bound: the remote texts have versions 0..LastVersion
  TextAt,            \* TextAt[u][v]: title, media type and text of version v
  Unparseable,       \* texts the intake stage refuses
  Interactive,       \* resources that users also take in interactively
  Manual, Nobody     \* holders of a checkpoint lock that are not executions

Versions == 0 .. LastVersion

ASSUME SyncAssumption ==
  /\ Requested \in [Runs -> (SUBSET Uris) \ {{}}]
  /\ IsFiniteSet(Uris)
  /\ Interactive \subseteq Uris
  /\ MaxAttempts \in Nat \ {0}
  /\ MaxConcurrency \in Nat \ {0}
  /\ CoordinatorLease \in Nat \ {0}
  /\ ItemLease \in Nat \ {0}
  /\ LastVersion \in Nat
  /\ Manual # Nobody
  /\ Manual \notin Executions
  /\ Nobody \notin Executions \cup Runs

VARIABLES
  run,         \* mcp_sync_runs
  item,        \* mcp_sync_items, by run and resource
  checkpoint,  \* mcp_resource_checkpoints: version last ingested, -1 if none
  created,     \* number of succeeded ingestion runs staged for a resource
  remote,      \* version of each resource the MCP server shows
  authorized,  \* connection enabled, credential present, endpoint allowed
  exec,        \* executions in progress
  worker,      \* their pool threads, by execution and resource
  lock,        \* holder of the advisory lock and row lock of a checkpoint
  manual,      \* interactive intake of a resource
  ingestedBy   \* observed: attempts of an item whose intake was committed

rows     == <<run, item>>
content  == <<checkpoint, created>>
threads  == <<exec, worker>>
vars     == <<run, item, checkpoint, created, remote, authorized,
              exec, worker, lock, manual, ingestedBy>>

---------------------------------------------------------------------------
RunTerminal  == {"succeeded", "failed"}
ItemTerminal == {"changed", "unchanged", "failed"}

RunRow  == [status : {"queued", "running"} \cup RunTerminal,
            owner : Executions \cup {Nobody}, left : 0 .. CoordinatorLease,
            changed : Nat, unchanged : Nat, failed : Nat]
ItemRow == [status : {"queued", "running"} \cup ItemTerminal,
            attempt : 0 .. MaxAttempts, owner : 0 .. MaxAttempts,
            left : 0 .. ItemLease, version : Versions \cup {-1}]

\* What a thread may still do to its item is decided by where it is.
Claimed == {"claimed", "waiting", "reading", "read", "settled"}
Locking == {"reading", "read"}
Ended   == {"absent", "done", "raised"}

\* Results of one intake as _process_sync_item sees them: response 201 or
\* 200, connection unusable, 422, 409 and 502.
Outcomes == {"changed", "unchanged", "refused", "rejected", "lost", "error"}

Thread == [pc : {"submitted", "claiming"} \cup Claimed \cup Ended,
           token : 0 .. MaxAttempts, left : 0 .. ItemLease,
           base : Versions \cup {-1}, read : Versions \cup {-1},
           outcome : Outcomes \cup {"none"}]
NoThread == [pc |-> "absent", token |-> 0, left |-> 0,
             base |-> -1, read |-> -1, outcome |-> "none"]
At(pc)   == [NoThread EXCEPT !.pc = pc]

Intake   == [pc : {"idle", "waiting", "reading", "read"},
             base : Versions \cup {-1}, read : Versions \cup {-1}]
NoIntake == [pc |-> "idle", base |-> -1, read |-> -1]

Init ==
  /\ run = [r \in Runs |-> [status |-> "queued", owner |-> Nobody, left |-> 0,
                            changed |-> 0, unchanged |-> 0, failed |-> 0]]
  /\ item = [r \in Runs |-> [u \in Uris |->
               [status |-> "queued", attempt |-> 0, owner |-> 0,
                left |-> 0, version |-> -1]]]
  /\ checkpoint = [u \in Uris |-> -1]
  /\ created = [u \in Uris |-> 0]
  /\ remote = [u \in Uris |-> 0]
  /\ authorized = TRUE
  /\ exec = [e \in Executions |-> [pc |-> "idle", run |-> Nobody]]
  /\ worker = [e \in Executions |-> [u \in Uris |-> NoThread]]
  /\ lock = [u \in Uris |-> Nobody]
  /\ manual = [u \in Uris |-> NoIntake]
  /\ ingestedBy = [r \in Runs |-> [u \in Uris |-> {}]]

---------------------------------------------------------------------------
(* Leases *)

RunOf(e)     == exec[e].run
ItemOf(e, u) == item[RunOf(e)][u]

HasCoordinatorLease(e) ==
  /\ run[RunOf(e)].status = "running"
  /\ run[RunOf(e)].owner = e
  /\ run[RunOf(e)].left > 0

HasItemLease(e, u) ==
  /\ ItemOf(e, u).status = "running"
  /\ ItemOf(e, u).owner = worker[e][u].token
  /\ ItemOf(e, u).left > 0

SetThread(e, u, t) == worker' = [worker EXCEPT ![e][u] = t]
SetItem(e, u, row) == item' = [item EXCEPT ![RunOf(e)][u] = row]
Settle(e, u, o) ==
  SetThread(e, u, [worker[e][u] EXCEPT !.pc = "settled", !.outcome = o,
                                       !.base = -1, !.read = -1])

---------------------------------------------------------------------------
(* The coordinator: execute_sync_run *)

\* Mutant of NoActiveItem: an expired coordinator is replaced at once.
NoActiveItemIgnored(r) == TRUE

\* An older execution's worker may hold an item lease that outlives the
\* coordinator lease it was claimed under.
NoActiveItem(r) ==
  \A u \in Requested[r] : ~(item[r][u].status = "running" /\ item[r][u].left > 0)

\* Mutant of CoordinatorFree: a lease that ran out is not noticed.
CoordinatorFreeForgotten(r) == run[r].status # "running"

CoordinatorFree(r) == ~(run[r].status = "running" /\ run[r].left > 0)

ClaimCoordinator(e, r) ==
  /\ exec[e].pc = "idle"
  /\ run[r].status \notin RunTerminal
  /\ CoordinatorFree(r)
  /\ NoActiveItem(r)
  /\ run' = [run EXCEPT ![r] = [@ EXCEPT !.status = "running", !.owner = e,
                                         !.left = CoordinatorLease]]
  /\ exec' = [exec EXCEPT ![e] = [pc |-> "claimed", run |-> r]]
  /\ UNCHANGED <<item, content, remote, authorized, worker, lock, manual,
                 ingestedBy>>

\* The open items are selected after the claim has been committed.
SubmitItems(e) ==
  /\ exec[e].pc = "claimed"
  /\ exec' = [exec EXCEPT ![e].pc = "working"]
  /\ worker' = [worker EXCEPT ![e] = [u \in Uris |->
       IF u \in Requested[RunOf(e)] /\ ItemOf(e, u).status \notin ItemTerminal
         THEN At("submitted") ELSE NoThread]]
  /\ UNCHANGED <<rows, content, remote, authorized, lock, manual, ingestedBy>>

Count(r, s) == Cardinality({u \in Requested[r] : item[r][u].status = s})

PoolDrained(e) ==
  /\ exec[e].pc = "working"
  /\ \A u \in Uris : worker[e][u].pc \in Ended

\* Mutant of Finalizable: a run is closed over items that are still open.
FinalizableEarly(e) ==
  (\A u \in Uris : worker[e][u].pc # "raised") /\ HasCoordinatorLease(e)

Finalizable(e) ==
  /\ \A u \in Uris : worker[e][u].pc # "raised"
  /\ HasCoordinatorLease(e)
  /\ \A u \in Requested[RunOf(e)] : ItemOf(e, u).status \in ItemTerminal

EndExecution(e) ==
  /\ exec' = [exec EXCEPT ![e] = [pc |-> "idle", run |-> Nobody]]
  /\ worker' = [worker EXCEPT ![e] = [u \in Uris |-> NoThread]]

FinalizeSyncRun(e) ==
  /\ PoolDrained(e)
  /\ Finalizable(e)
  /\ run' = [run EXCEPT ![RunOf(e)] =
       [status    |-> IF Count(RunOf(e), "failed") = 0
                        THEN "succeeded" ELSE "failed",
        owner     |-> Nobody,
        left      |-> 0,
        changed   |-> Count(RunOf(e), "changed"),
        unchanged |-> Count(RunOf(e), "unchanged"),
        failed    |-> Count(RunOf(e), "failed")]]
  /\ EndExecution(e)
  /\ UNCHANGED <<item, content, remote, authorized, lock, manual, ingestedBy>>

\* A thread raised, the lease ran out or an item is open: 502, nothing saved.
AbandonRun(e) ==
  /\ PoolDrained(e)
  /\ ~Finalizable(e)
  /\ EndExecution(e)
  /\ UNCHANGED <<rows, content, remote, authorized, lock, manual, ingestedBy>>

\* The process dies: its threads vanish and its transactions roll back.
Crash(e) ==
  /\ exec[e].pc # "idle"
  /\ EndExecution(e)
  /\ lock' = [u \in Uris |-> IF lock[u] = e THEN Nobody ELSE lock[u]]
  /\ UNCHANGED <<rows, content, remote, authorized, manual, ingestedBy>>

---------------------------------------------------------------------------
(* A worker: _process_sync_item *)

\* A submitted item waits for a thread of the pool; a retry keeps its thread.
MayClaim(e, u) ==
  \/ worker[e][u].pc = "claiming"
  \/ /\ worker[e][u].pc = "submitted"
     /\ Cardinality({v \in Uris : worker[e][v].pc \in {"claiming"} \cup Claimed})
          < MaxConcurrency

ClaimRaises(e, u) ==
  /\ MayClaim(e, u)
  /\ ~HasCoordinatorLease(e)
  /\ SetThread(e, u, At("raised"))
  /\ UNCHANGED <<rows, content, remote, authorized, exec, lock, manual,
                 ingestedBy>>

\* _claim_sync_item also looks for items that are decided or leased already
\* and leaves them alone; ClaimsFindOpenItems says that it never meets one.
Claimable(e, u) ==
  /\ MayClaim(e, u)
  /\ HasCoordinatorLease(e)
  /\ ItemOf(e, u).status \notin ItemTerminal
  /\ ~(ItemOf(e, u).status = "running" /\ ItemOf(e, u).left > 0)

\* Mutants of AttemptsLeft: one attempt too many, one too few.
AttemptsLeftMore(e, u) == ItemOf(e, u).attempt <= MaxAttempts
AttemptsLeftLess(e, u) == ItemOf(e, u).attempt < MaxAttempts - 1

AttemptsLeft(e, u) == ItemOf(e, u).attempt < MaxAttempts

FailExhaustedItem(e, u) ==
  /\ Claimable(e, u)
  /\ ~AttemptsLeft(e, u)
  /\ SetItem(e, u, [ItemOf(e, u) EXCEPT !.status = "failed",
                                        !.owner = 0, !.left = 0])
  /\ SetThread(e, u, At("done"))
  /\ UNCHANGED <<run, content, remote, authorized, exec, lock, manual,
                 ingestedBy>>

ClaimSyncItem(e, u) ==
  /\ Claimable(e, u)
  /\ AttemptsLeft(e, u)
  /\ LET k == ItemOf(e, u).attempt + 1 IN
       /\ SetItem(e, u, [ItemOf(e, u) EXCEPT !.status = "running",
                           !.attempt = k, !.owner = k, !.left = ItemLease])
       /\ SetThread(e, u, [At("claimed") EXCEPT !.token = k,
                                                !.left = ItemLease])
  /\ UNCHANGED <<run, content, remote, authorized, exec, lock, manual,
                 ingestedBy>>

\* The connection is read without a lock; an unusable one fails the item.
CheckConnection(e, u) ==
  /\ worker[e][u].pc = "claimed"
  /\ IF authorized
       THEN SetThread(e, u, [worker[e][u] EXCEPT !.pc = "waiting"])
       ELSE Settle(e, u, "refused")
  /\ UNCHANGED <<rows, content, remote, authorized, exec, lock, manual,
                 ingestedBy>>

\* Mutant of LockFree: no advisory lock, and no checkpoint row to lock yet.
LockFreeAlways(u) == TRUE

\* The advisory lock also covers a checkpoint row that does not exist yet.
LockFree(u) == lock[u] = Nobody

LockCheckpoint(e, u) ==
  /\ worker[e][u].pc = "waiting"
  /\ LockFree(u)
  /\ lock' = [lock EXCEPT ![u] = e]
  /\ SetThread(e, u, [worker[e][u] EXCEPT !.pc = "reading",
                                          !.base = checkpoint[u]])
  /\ UNCHANGED <<rows, content, remote, authorized, exec, manual, ingestedBy>>

ReadResource(e, u) ==
  /\ worker[e][u].pc = "reading"
  /\ SetThread(e, u, [worker[e][u] EXCEPT !.pc = "read", !.read = remote[u]])
  /\ UNCHANGED <<rows, content, remote, authorized, exec, lock, manual,
                 ingestedBy>>

\* Any failure of the connector or of the intake transaction is a 502.
ConnectorError(e, u) ==
  /\ worker[e][u].pc \in {"waiting"} \cup Locking
  /\ Settle(e, u, "error")
  /\ lock' = [lock EXCEPT ![u] = IF @ = e THEN Nobody ELSE @]
  /\ UNCHANGED <<rows, content, remote, authorized, exec, manual, ingestedBy>>

\* _authorize_sync_item_intake_commit: its row locks are kept until commit.
Authorized(e, u) ==
  /\ HasCoordinatorLease(e)
  /\ HasItemLease(e, u)
  /\ authorized

SameText(u, v, w) == v # -1 /\ TextAt[u][v] = TextAt[u][w]

\* Checkpoint and new ingestion run of an intake that read version v while
\* the checkpoint it had locked held version b.
Stage(u, b, v) ==
  IF SameText(u, b, v)
    THEN UNCHANGED content
    ELSE /\ checkpoint' = [checkpoint EXCEPT ![u] = v]
         /\ created' = [created EXCEPT ![u] = @ + 1]

\* After the commit the ingestion run is refreshed inside the same try: a
\* failure there is handled like a connector failure.
CommitIntake(e, u) ==
  LET w == worker[e][u] IN
  /\ w.pc = "read"
  /\ Authorized(e, u)
  /\ SameText(u, w.base, w.read) \/ TextAt[u][w.read] \notin Unparseable
  /\ Stage(u, w.base, w.read)
  /\ ingestedBy' = [ingestedBy EXCEPT ![RunOf(e)][u] = @ \cup {w.token}]
  /\ lock' = [lock EXCEPT ![u] = Nobody]
  /\ \/ SetThread(e, u, [w EXCEPT !.pc = "settled", !.base = -1,
             !.read = checkpoint'[u],
             !.outcome = IF SameText(u, w.base, w.read)
                           THEN "unchanged" ELSE "changed"])
     \/ Settle(e, u, "error")
  /\ UNCHANGED <<rows, remote, authorized, exec, manual>>

\* The intake stage refuses the text: a failed ingestion run is committed.
RejectIntake(e, u) ==
  LET w == worker[e][u] IN
  /\ w.pc = "read"
  /\ Authorized(e, u)
  /\ ~SameText(u, w.base, w.read) /\ TextAt[u][w.read] \in Unparseable
  /\ Settle(e, u, "rejected")
  /\ lock' = [lock EXCEPT ![u] = Nobody]
  /\ UNCHANGED <<rows, content, remote, authorized, exec, manual, ingestedBy>>

LoseAuthority(e, u) ==
  /\ worker[e][u].pc = "read"
  /\ ~Authorized(e, u)
  /\ Settle(e, u, "lost")
  /\ lock' = [lock EXCEPT ![u] = Nobody]
  /\ UNCHANGED <<rows, content, remote, authorized, exec, manual, ingestedBy>>

\* Mutant of MayComplete: no check of the clock, only of the cached owner.
MayCompleteLate(e, u) ==
  worker[e][u].outcome \in {"lost", "error"} => HasItemLease(e, u)

\* _complete_sync_item locks the row again but keeps the attributes of an
\* instance the session already holds (expire_on_commit=False): only after a
\* rollback (outcomes "lost" and "error") are status and owner read afresh.
\* Otherwise the clock alone decides.
MayComplete(e, u) ==
  IF worker[e][u].outcome \in {"lost", "error"}
    THEN HasItemLease(e, u)
    ELSE worker[e][u].left > 0

CloseItem(e, u, s, v) ==
  SetItem(e, u, [ItemOf(e, u) EXCEPT !.status = s, !.owner = 0, !.left = 0,
                                     !.version = v])

CompleteSyncItem(e, u) ==
  LET w == worker[e][u] IN
  /\ w.pc = "settled"
  /\ MayComplete(e, u)
  /\ \/ /\ w.outcome \in {"changed", "unchanged"}
        /\ CloseItem(e, u, w.outcome, w.read)
        /\ SetThread(e, u, At("done"))
     \/ /\ w.outcome = "error" /\ AttemptsLeft(e, u)
        /\ CloseItem(e, u, "queued", -1)
        /\ SetThread(e, u, At("claiming"))
     \/ /\ \/ w.outcome \in {"refused", "rejected", "lost"}
           \/ w.outcome = "error" /\ ~AttemptsLeft(e, u)
        /\ CloseItem(e, u, "failed", -1)
        /\ SetThread(e, u, At("done"))
  /\ UNCHANGED <<run, content, remote, authorized, exec, lock, manual,
                 ingestedBy>>

CompletionRefused(e, u) ==
  /\ worker[e][u].pc = "settled"
  /\ ~MayComplete(e, u)
  /\ SetThread(e, u, At("done"))
  /\ UNCHANGED <<rows, content, remote, authorized, exec, lock, manual,
                 ingestedBy>>

\* A database error outside the intake ends the thread, not the execution.
ThreadRaises(e, u) ==
  /\ worker[e][u].pc \in {"claiming", "claimed", "settled"}
  /\ SetThread(e, u, At("raised"))
  /\ UNCHANGED <<rows, content, remote, authorized, exec, lock, manual,
                 ingestedBy>>

---------------------------------------------------------------------------
(* Interactive intake of one resource: intake_saved_resource *)

ManualStart(u) ==
  /\ manual[u].pc = "idle"
  /\ authorized
  /\ manual' = [manual EXCEPT ![u].pc = "waiting"]
  /\ UNCHANGED <<rows, content, remote, authorized, threads, lock, ingestedBy>>

ManualLock(u) ==
  /\ manual[u].pc = "waiting"
  /\ LockFree(u)
  /\ lock' = [lock EXCEPT ![u] = Manual]
  /\ manual' = [manual EXCEPT ![u] = [pc |-> "reading", base |-> checkpoint[u],
                                      read |-> -1]]
  /\ UNCHANGED <<rows, content, remote, authorized, threads, ingestedBy>>

ManualRead(u) ==
  /\ manual[u].pc = "reading"
  /\ manual' = [manual EXCEPT ![u] = [@ EXCEPT !.pc = "read", !.read = remote[u]]]
  /\ UNCHANGED <<rows, content, remote, authorized, threads, lock, ingestedBy>>

ManualEnd(u) ==
  /\ manual' = [manual EXCEPT ![u] = NoIntake]
  /\ lock' = [lock EXCEPT ![u] = IF @ = Manual THEN Nobody ELSE @]
  /\ UNCHANGED <<rows, remote, authorized, threads, ingestedBy>>

\* No authority is checked again before this commit.
ManualCommit(u) ==
  LET m == manual[u] IN
  /\ m.pc = "read"
  /\ SameText(u, m.base, m.read) \/ TextAt[u][m.read] \notin Unparseable
  /\ Stage(u, m.base, m.read)
  /\ ManualEnd(u)

ManualFail(u) ==
  /\ manual[u].pc # "idle"
  /\ ManualEnd(u)
  /\ UNCHANGED content

---------------------------------------------------------------------------
(* The environment *)

RemoteChange(u) ==
  /\ remote[u] < LastVersion
  /\ remote' = [remote EXCEPT ![u] = @ + 1]
  /\ UNCHANGED <<rows, content, authorized, threads, lock, manual, ingestedBy>>

ChangeAuthority ==
  /\ authorized' = ~authorized
  /\ UNCHANGED <<rows, content, remote, threads, lock, manual, ingestedBy>>

Aged(l) == IF l > 0 THEN l - 1 ELSE 0

Tick ==
  /\ run' = [r \in Runs |-> [run[r] EXCEPT !.left = Aged(@)]]
  /\ item' = [r \in Runs |-> [u \in Uris |->
                [item[r][u] EXCEPT !.left = Aged(@)]]]
  /\ worker' = [e \in Executions |-> [u \in Uris |->
                  [worker[e][u] EXCEPT !.left = Aged(@)]]]
  /\ UNCHANGED <<content, remote, authorized, exec, lock, manual, ingestedBy>>

---------------------------------------------------------------------------
Claim(e, u) ==
  \/ ClaimRaises(e, u)
  \/ FailExhaustedItem(e, u)
  \/ ClaimSyncItem(e, u)

Work(e, u) ==
  \/ Claim(e, u)
  \/ CheckConnection(e, u)
  \/ LockCheckpoint(e, u)
  \/ ReadResource(e, u)
  \/ ConnectorError(e, u)
  \/ CommitIntake(e, u)
  \/ RejectIntake(e, u)
  \/ LoseAuthority(e, u)
  \/ CompleteSyncItem(e, u)
  \/ CompletionRefused(e, u)
  \/ ThreadRaises(e, u)

Coordinate(e) ==
  \/ \E r \in Runs : ClaimCoordinator(e, r)
  \/ SubmitItems(e)
  \/ FinalizeSyncRun(e)
  \/ AbandonRun(e)

IntakeManually(u) ==
  \/ ManualStart(u)
  \/ ManualLock(u)
  \/ ManualRead(u)
  \/ ManualCommit(u)
  \/ ManualFail(u)

Next ==
  \/ \E e \in Executions : Coordinate(e)
  \/ \E e \in Executions : Crash(e)
  \/ \E e \in Executions, u \in Uris : Work(e, u)
  \/ \E u \in Interactive : IntakeManually(u)
  \/ \E u \in Uris : RemoteChange(u)
  \/ ChangeAuthority
  \/ Tick

Spec == Init /\ [][Next]_vars

---------------------------------------------------------------------------
(* What the database enforces (migration 503d9aafba91) *)

\* enforce_mcp_sync_run_transition, enforce_mcp_sync_item_transition: what an
\* update of a row may do.
RunTransition(old, new) ==
  /\ old.status \in RunTerminal => new = old
  /\ old.status = "queued" => new.status \in {"queued", "running"}
  /\ old.status = "running" => new.status # "queued"

ItemTransition(old, new) ==
  /\ old.status \in ItemTerminal => new = old
  /\ old.status = "queued" => new.status \in {"queued", "running"}

\* validate_mcp_sync_run_aggregate, deferred to the commit: what a finished
\* run has to say about its items.
AggregateMatches(r) ==
  /\ \A u \in Requested[r] : item[r][u].status \in ItemTerminal
  /\ run[r].changed = Count(r, "changed")
  /\ run[r].unchanged = Count(r, "unchanged")
  /\ run[r].failed = Count(r, "failed")

---------------------------------------------------------------------------
(* Properties *)

\* Every table, thread and lock keeps its type: attempts stay within
\* max_attempts (ck_mcp_sync_item_attempts), leases within their length.
TypeOK ==
  /\ run \in [Runs -> RunRow]
  /\ item \in [Runs -> [Uris -> ItemRow]]
  /\ checkpoint \in [Uris -> Versions \cup {-1}]
  /\ created \in [Uris -> Nat]
  /\ remote \in [Uris -> Versions]
  /\ authorized \in BOOLEAN
  /\ exec \in [Executions -> [pc : {"idle"}, run : {Nobody}]
                              \cup [pc : {"claimed", "working"}, run : Runs]]
  /\ worker \in [Executions -> [Uris -> Thread]]
  /\ lock \in [Uris -> Executions \cup {Manual, Nobody}]
  /\ manual \in [Uris -> Intake]
  /\ ingestedBy \in [Runs -> [Uris -> SUBSET (1 .. MaxAttempts)]]

Holds(e, u) == worker[e][u].pc \in Claimed /\ worker[e][u].left > 0

\* Two executions never both act for the same item of a run under a lease
\* that, by their own copy of its expiry, still lasts; and whoever does acts
\* for the execution that owns the run.  A coordinator that crashed or
\* stalled is replaced only after its workers' leases are over.
LeaseExclusion ==
  \A e \in Executions, u \in Uris : Holds(e, u) =>
    /\ run[RunOf(e)].status = "running" /\ run[RunOf(e)].owner = e
    /\ \A f \in Executions \ {e} : RunOf(f) = RunOf(e) => ~Holds(f, u)

\* Whoever may claim an item under the run's coordinator lease finds it open
\* and unleased: between the selection of the open items and their claims no
\* thread of an older execution decides, retries or still holds one of them.
ClaimsFindOpenItems ==
  \A e \in Executions, u \in Uris :
    worker[e][u].pc \in {"submitted", "claiming"} /\ HasCoordinatorLease(e) =>
      /\ ItemOf(e, u).status \notin ItemTerminal
      /\ ~(ItemOf(e, u).status = "running" /\ ItemOf(e, u).left > 0)

\* An item reported changed or unchanged had its intake committed by the very
\* attempt that closed it: a worker that outlived its lease never reports
\* into a newer attempt, although its completion does not see the new owner.
OutcomeIsOfItsAttempt ==
  \A r \in Runs, u \in Uris :
    item[r][u].status \in {"changed", "unchanged"} =>
      /\ item[r][u].attempt \in ingestedBy[r][u]
      /\ item[r][u].version # -1
      /\ item[r][u].version <= checkpoint[u]

\* Intake and completion are two transactions, so an attempt that took its text
\* in may be one whose item fails after all: then it was the last the item has,
\* as any attempt before that one is repeated when it fails after its intake
\* (_complete_sync_item).  The intake of an EARLIER attempt protects nothing: its
\* item fails at any later attempt that is refused, rejected or loses its lease.
OwnIntakeFailsOnlyAtLimit ==
  \A r \in Runs, u \in Uris :
    /\ item[r][u].status = "failed"
    /\ item[r][u].attempt \in ingestedBy[r][u]
    => item[r][u].attempt = MaxAttempts

\* A finished run's counters and status still agree with its items, whatever
\* older executions' workers do after the end (the deferred trigger
\* validate_mcp_sync_run_aggregate).
RunAgreesWithItems ==
  \A r \in Runs : run[r].status \in RunTerminal =>
    /\ AggregateMatches(r)
    /\ run[r].status = "succeeded" <=> run[r].failed = 0

\* Concurrent and repeated intakes of a resource stage at most one review per
\* version the server has shown: two intakes of one text are never both new.
NoDuplicateIntake == \A u \in Uris : created[u] <= checkpoint[u] + 1

\* No statement of the workers ever runs into the transition triggers of
\* migration 503d9aafba91: nothing the code writes is refused by the database.
TriggersNeverFire ==
  [][\A r \in Runs :
       /\ RunTransition(run[r], run'[r])
       /\ \A u \in Uris : ItemTransition(item[r][u], item'[r][u])]_vars

---------------------------------------------------------------------------
(* The promise of SyncContract *)

Decision(row) == IF row.status \in ItemTerminal THEN row.status ELSE "open"
Outcome(row)  == IF row.status \in RunTerminal THEN row.status ELSE "open"

Contract == INSTANCE SyncContract WITH
  decision <- [r \in Runs |-> [u \in Uris |-> Decision(item[r][u])]],
  outcome  <- [r \in Runs |-> Outcome(run[r])],
  latest   <- checkpoint,
  staged   <- created

\* The leases, retries, crashes and interactive intakes implement the
\* contract: decisions and outcomes are final, nothing is staged twice.
ImplementsContract == Contract!CSpec
=============================================================================
