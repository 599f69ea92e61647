--------------------------- MODULE MCPSync_proofs ---------------------------
(***************************************************************************)
(* Proofs about MCPSync: type correctness, the inductive invariant behind  *)
(* the lease protocol, and the safety properties that follow from it, for  *)
(* every number of runs, resources, executions and attempts and every      *)
(* length of the leases.                                                   *)
(***************************************************************************)
EXTENDS MCPSyncLive, FiniteSetTheorems, TLAPS

LEMMA Bounds ==
  /\ MaxAttempts \in Nat /\ MaxAttempts > 0
  /\ CoordinatorLease \in Nat /\ CoordinatorLease > 0
  /\ ItemLease \in Nat /\ ItemLease > 0
  /\ LastVersion \in Nat
BY SyncAssumption

---------------------------------------------------------------------------
(* Type correctness *)

LEMMA ThreadTypes ==
  /\ NoThread \in Thread
  /\ \A pc \in {"submitted", "claiming"} \cup Claimed \cup Ended : At(pc) \in Thread
BY SyncAssumption DEF NoThread, Thread, At, Claimed, Ended, Versions

\* What an action may make of a thread, an item, a run or an intake.
LEMMA ThreadUpdates ==
  ASSUME NEW t \in Thread, NEW v \in Versions \cup {-1}, NEW o \in Outcomes
  PROVE  /\ [t EXCEPT !.pc = "waiting"] \in Thread
         /\ [t EXCEPT !.pc = "reading", !.base = v] \in Thread
         /\ [t EXCEPT !.pc = "read", !.read = v] \in Thread
         /\ [t EXCEPT !.pc = "settled", !.outcome = o, !.base = -1, !.read = -1] \in Thread
         /\ [t EXCEPT !.pc = "settled", !.base = -1, !.read = v, !.outcome = o] \in Thread
BY DEF Thread, Claimed

LEMMA ClaimUpdates ==
  ASSUME NEW t \in Thread, NEW i \in ItemRow, i.attempt < MaxAttempts
  PROVE  /\ [t EXCEPT !.token = i.attempt + 1, !.left = ItemLease] \in Thread
         /\ [i EXCEPT !.status = "running", !.attempt = i.attempt + 1,
                      !.owner = i.attempt + 1, !.left = ItemLease] \in ItemRow
<1>1. i.attempt \in 0 .. MaxAttempts
  BY DEF ItemRow
<1>2. i.attempt + 1 \in 0 .. MaxAttempts /\ ItemLease \in 0 .. ItemLease
  BY <1>1, Bounds
<1>3. [t EXCEPT !.token = i.attempt + 1, !.left = ItemLease] \in Thread
  BY <1>2 DEF Thread
<1>4. [i EXCEPT !.status = "running", !.attempt = i.attempt + 1,
               !.owner = i.attempt + 1, !.left = ItemLease] \in ItemRow
  BY <1>2 DEF ItemRow
<1> QED
  BY <1>3, <1>4

LEMMA ItemUpdates ==
  ASSUME NEW i \in ItemRow, NEW s \in {"queued"} \cup ItemTerminal,
         NEW v \in Versions \cup {-1}
  PROVE  /\ [i EXCEPT !.status = s, !.owner = 0, !.left = 0] \in ItemRow
         /\ [i EXCEPT !.status = s, !.owner = 0, !.left = 0, !.version = v] \in ItemRow
<1>1. 0 \in 0 .. MaxAttempts /\ 0 \in 0 .. ItemLease
  BY Bounds
<1>2. s \in {"queued", "running"} \cup ItemTerminal
  OBVIOUS
<1> QED
  BY <1>1, <1>2 DEF ItemRow

LEMMA RunUpdates ==
  ASSUME NEW row \in RunRow, NEW e \in Executions
  PROVE  [row EXCEPT !.status = "running", !.owner = e, !.left = CoordinatorLease]
           \in RunRow
<1>1. CoordinatorLease \in 0 .. CoordinatorLease
  BY Bounds
<1> QED
  BY <1>1 DEF RunRow

LEMMA IntakeUpdates ==
  ASSUME NEW m \in Intake, NEW v \in Versions \cup {-1}
  PROVE  /\ NoIntake \in Intake
         /\ [m EXCEPT !.pc = "waiting"] \in Intake
         /\ [pc |-> "reading", base |-> v, read |-> -1] \in Intake
         /\ [m EXCEPT !.pc = "read", !.read = v] \in Intake
BY DEF Intake, NoIntake

LEMMA StageType ==
  ASSUME checkpoint \in [Uris -> Versions \cup {-1}], created \in [Uris -> Nat],
         NEW u \in Uris, NEW v \in Versions \cup {-1}, NEW b, Stage(u, b, v)
  PROVE  /\ checkpoint' \in [Uris -> Versions \cup {-1}]
         /\ created' \in [Uris -> Nat]
<1>1. CASE SameText(u, b, v)
  BY <1>1 DEF Stage, content
<1>2. CASE ~SameText(u, b, v)
  <2>1. checkpoint' = [checkpoint EXCEPT ![u] = v]
    BY <1>2 DEF Stage
  <2>2. created' = [created EXCEPT ![u] = @ + 1] /\ created[u] + 1 \in Nat
    BY <1>2 DEF Stage
  <2> QED
    BY <2>1, <2>2
<1> QED
  BY <1>1, <1>2

LEMMA AgedType == ASSUME NEW n \in Nat, NEW l \in 0 .. n PROVE Aged(l) \in 0 .. n
BY DEF Aged

LEMMA AgedRows ==
  /\ \A row \in RunRow : [row EXCEPT !.left = Aged(@)] \in RunRow
  /\ \A i \in ItemRow : [i EXCEPT !.left = Aged(@)] \in ItemRow
  /\ \A t \in Thread : [t EXCEPT !.left = Aged(@)] \in Thread
<1>1. ASSUME NEW row \in RunRow PROVE [row EXCEPT !.left = Aged(@)] \in RunRow
  BY AgedType, SyncAssumption DEF RunRow
<1>2. ASSUME NEW i \in ItemRow PROVE [i EXCEPT !.left = Aged(@)] \in ItemRow
  BY AgedType, SyncAssumption DEF ItemRow
<1>3. ASSUME NEW t \in Thread PROVE [t EXCEPT !.left = Aged(@)] \in Thread
  BY AgedType, SyncAssumption DEF Thread
<1> QED
  BY <1>1, <1>2, <1>3

LEMMA SetThreadType ==
  ASSUME worker \in [Executions -> [Uris -> Thread]],
         NEW e \in Executions, NEW u \in Uris, NEW t \in Thread, SetThread(e, u, t)
  PROVE  worker' \in [Executions -> [Uris -> Thread]]
BY DEF SetThread

LEMMA SettleType ==
  ASSUME worker \in [Executions -> [Uris -> Thread]],
         NEW e \in Executions, NEW u \in Uris, NEW o \in Outcomes, Settle(e, u, o)
  PROVE  worker' \in [Executions -> [Uris -> Thread]]
<1>1. worker[e][u] \in Thread
  OBVIOUS
<1>2. [worker[e][u] EXCEPT !.pc = "settled", !.outcome = o, !.base = -1, !.read = -1] \in Thread
  BY <1>1, ThreadUpdates
<1> QED
  BY <1>2, SetThreadType DEF Settle

LEMMA SetItemType ==
  ASSUME item \in [Runs -> [Uris -> ItemRow]],
         NEW e \in Executions, NEW u \in Uris, RunOf(e) \in Runs,
         NEW t \in ItemRow, SetItem(e, u, t)
  PROVE  item' \in [Runs -> [Uris -> ItemRow]]
BY DEF SetItem

\* A thread exists only while its execution works on a run.
LEMMA TypeInit == Init => TypeOK
BY SyncAssumption, ThreadTypes
   DEF Init, TypeOK, RunRow, ItemRow, Intake, NoIntake, Versions

LEMMA CountType ==
  ASSUME NEW r \in Runs, NEW s
  PROVE  Count(r, s) \in Nat
<1>1. Requested[r] \in SUBSET Uris
  BY SyncAssumption
<1>2. IsFiniteSet({u \in Requested[r] : item[r][u].status = s})
  BY <1>1, FS_Subset, SyncAssumption
<1> QED
  BY <1>2, FS_CardinalityType DEF Count


\* A thread exists only while its execution works on a run that asked for
\* the thread's resource; a claim has a number.
ThreadsBelongToWork ==
  \A e \in Executions, u \in Uris :
    /\ worker[e][u].pc # "absent" =>
         exec[e].pc = "working" /\ u \in Requested[RunOf(e)]
    /\ worker[e][u].pc \in Claimed => worker[e][u].token > 0

LEMMA TypeStep ==
  ASSUME TypeOK, ThreadsBelongToWork, [Next]_vars
  PROVE  TypeOK'
<1> USE DEF TypeOK, rows, content, threads
<1>0. ASSUME NEW e \in Executions, NEW u \in Uris, worker[e][u].pc # "absent"
      PROVE  RunOf(e) \in Runs /\ ItemOf(e, u) \in ItemRow
  BY <1>0 DEF ThreadsBelongToWork, RunOf, ItemOf
<1>1. ASSUME NEW e \in Executions, NEW r \in Runs, ClaimCoordinator(e, r)
      PROVE  TypeOK'
  <2>1. run[r] \in RunRow
    OBVIOUS
  <2>2. [pc |-> "claimed", run |-> r] \in [pc : {"claimed", "working"}, run : Runs]
    OBVIOUS
  <2> QED
    BY <1>1, <2>1, <2>2, RunUpdates DEF ClaimCoordinator
<1>2. ASSUME NEW e \in Executions, SubmitItems(e)
      PROVE  TypeOK'
  BY <1>2, ThreadTypes DEF SubmitItems
<1>3. ASSUME NEW e \in Executions, FinalizeSyncRun(e)
      PROVE  TypeOK'
  <2>1. RunOf(e) \in Runs
    BY <1>3 DEF FinalizeSyncRun, PoolDrained, RunOf
  <2>2. \A s : Count(RunOf(e), s) \in Nat
    BY <2>1, CountType
  <2>3. run' \in [Runs -> RunRow]
    BY <1>3, <2>1, <2>2, SyncAssumption DEF FinalizeSyncRun, RunRow, RunTerminal
  <2> QED
    BY <1>3, <2>3, ThreadTypes DEF FinalizeSyncRun, EndExecution
<1>4. ASSUME NEW e \in Executions, AbandonRun(e) \/ Crash(e)
      PROVE  TypeOK'
  <2>1. EndExecution(e) /\ UNCHANGED <<rows, content, remote, authorized, manual, ingestedBy>>
    BY <1>4 DEF AbandonRun, Crash
  <2>2. lock' \in [Uris -> Executions \cup {Manual, Nobody}]
    BY <1>4 DEF AbandonRun, Crash
  <2>3. worker' \in [Executions -> [Uris -> Thread]]
    BY <2>1, ThreadTypes DEF EndExecution
  <2> QED
    BY <2>1, <2>2, <2>3 DEF EndExecution
<1>5. ASSUME NEW e \in Executions, NEW u \in Uris, Work(e, u)
      PROVE  TypeOK'
  <2> DEFINE w == worker[e][u]
  <2>0. w \in Thread
    OBVIOUS
  <2>1. CASE ClaimRaises(e, u) \/ CompletionRefused(e, u)
               \/ ThreadRaises(e, u)
    <3>1. At("done") \in Thread /\ At("raised") \in Thread
      BY ThreadTypes DEF Ended
    <3> QED
      BY <2>1, <3>1, SetThreadType
         DEF ClaimRaises, CompletionRefused, ThreadRaises
  <2>2. CASE FailExhaustedItem(e, u) \/ ClaimSyncItem(e, u) \/ CompleteSyncItem(e, u)
    <3>1. w.pc # "absent"
      BY <2>2 DEF FailExhaustedItem, ClaimSyncItem, CompleteSyncItem, Claimable,
                  MayClaim
    <3>2. RunOf(e) \in Runs /\ ItemOf(e, u) \in ItemRow
      BY <3>1, <1>0
    <3>3. At("done") \in Thread /\ At("claiming") \in Thread /\ At("claimed") \in Thread
      BY ThreadTypes DEF Ended, Claimed
    <3>4. CASE FailExhaustedItem(e, u)
      <4>1. [ItemOf(e, u) EXCEPT !.status = "failed", !.owner = 0, !.left = 0] \in ItemRow
        BY <3>2, ItemUpdates DEF ItemTerminal
      <4> QED
        BY <3>2, <3>3, <3>4, <4>1, SetThreadType, SetItemType DEF FailExhaustedItem
    <3>5. CASE ClaimSyncItem(e, u)
      <4>1. ItemOf(e, u).attempt < MaxAttempts
        BY <3>5 DEF ClaimSyncItem, AttemptsLeft
      <4>2. item' \in [Runs -> [Uris -> ItemRow]]
        BY <3>2, <3>3, <3>5, <4>1, ClaimUpdates, SetItemType DEF ClaimSyncItem
      <4>3. worker' \in [Executions -> [Uris -> Thread]]
        BY <3>2, <3>3, <3>5, <4>1, ClaimUpdates, SetThreadType DEF ClaimSyncItem
      <4> QED
        BY <3>5, <4>2, <4>3 DEF ClaimSyncItem
    <3>6. CASE CompleteSyncItem(e, u)
      <4>1. w.read \in Versions \cup {-1}
        BY <2>0 DEF Thread
      <4>2. item' \in [Runs -> [Uris -> ItemRow]]
        BY <3>2, <3>6, <4>1, ItemUpdates, SetItemType
           DEF CompleteSyncItem, CloseItem, ItemTerminal
      <4>3. worker' \in [Executions -> [Uris -> Thread]]
        BY <3>3, <3>6, SetThreadType DEF CompleteSyncItem
      <4> QED
        BY <3>6, <4>2, <4>3 DEF CompleteSyncItem
    <3> QED
      BY <2>2, <3>4, <3>5, <3>6
  <2>3. CASE CheckConnection(e, u)
    <3>1. CASE authorized
      BY <2>0, <2>3, <3>1, ThreadUpdates, SetThreadType DEF CheckConnection, Outcomes
    <3>2. CASE ~authorized
      BY <2>3, <3>2, SettleType DEF CheckConnection, Outcomes
    <3> QED
      BY <3>1, <3>2
  <2>4. CASE LockCheckpoint(e, u)
    <3>1. checkpoint[u] \in Versions \cup {-1}
      OBVIOUS
    <3>2. worker' \in [Executions -> [Uris -> Thread]]
      BY <2>0, <2>4, <3>1, ThreadUpdates, SetThreadType DEF LockCheckpoint, Outcomes
    <3> QED
      BY <2>4, <3>2 DEF LockCheckpoint
  <2>5. CASE ReadResource(e, u)
    <3>1. remote[u] \in Versions \cup {-1}
      OBVIOUS
    <3>2. worker' \in [Executions -> [Uris -> Thread]]
      BY <2>0, <2>5, <3>1, ThreadUpdates, SetThreadType DEF ReadResource, Outcomes
    <3> QED
      BY <2>5, <3>2 DEF ReadResource
  <2>6. CASE ConnectorError(e, u)
    BY <2>6, SettleType DEF ConnectorError, Outcomes
  <2>7. CASE CommitIntake(e, u)
    <3>1. w.pc # "absent" /\ w.read \in Versions \cup {-1} /\ w.token \in 0 .. MaxAttempts
      BY <2>0, <2>7 DEF CommitIntake, Thread
    <3>2. RunOf(e) \in Runs
      BY <3>1, <1>0
    <3>3. checkpoint' \in [Uris -> Versions \cup {-1}] /\ created' \in [Uris -> Nat]
      BY <2>7, <3>1, StageType DEF CommitIntake
    <3>4. checkpoint'[u] \in Versions \cup {-1}
      BY <3>3
    <3>5. worker' \in [Executions -> [Uris -> Thread]]
      BY <2>0, <2>7, <3>4, ThreadUpdates, SetThreadType, SettleType
         DEF CommitIntake, Outcomes
    <3>6. w.token \in 1 .. MaxAttempts
      BY <2>7, <3>1, SyncAssumption DEF CommitIntake, ThreadsBelongToWork, Claimed
    <3>7. ingestedBy' \in [Runs -> [Uris -> SUBSET (1 .. MaxAttempts)]]
      BY <2>7, <3>2, <3>6 DEF CommitIntake
    <3> QED
      BY <2>7, <3>3, <3>5, <3>7 DEF CommitIntake
  <2>8. CASE RejectIntake(e, u) \/ LoseAuthority(e, u)
    BY <2>8, SettleType DEF RejectIntake, LoseAuthority, Outcomes
  <2> QED
    BY <1>5, <2>1, <2>2, <2>3, <2>4, <2>5, <2>6, <2>7, <2>8 DEF Work, Claim
<1>6. ASSUME NEW u \in Interactive, IntakeManually(u)
      PROVE  TypeOK'
  <2>1. u \in Uris
    BY SyncAssumption
  <2>2. manual[u] \in Intake /\ checkpoint[u] \in Versions \cup {-1}
          /\ remote[u] \in Versions \cup {-1}
    BY <2>1
  <2>3. CASE ManualStart(u)
    BY <2>1, <2>2, <2>3, IntakeUpdates DEF ManualStart
  <2>4. CASE ManualLock(u)
    BY <2>1, <2>2, <2>4, IntakeUpdates DEF ManualLock
  <2>5. CASE ManualRead(u)
    BY <2>1, <2>2, <2>5, IntakeUpdates DEF ManualRead
  <2>6. CASE ManualCommit(u)
    <3>1. manual[u].read \in Versions \cup {-1}
      BY <2>2 DEF Intake
    <3>2. checkpoint' \in [Uris -> Versions \cup {-1}] /\ created' \in [Uris -> Nat]
      BY <2>1, <2>6, <3>1, StageType DEF ManualCommit
    <3> QED
      BY <2>1, <2>2, <2>6, <3>2, IntakeUpdates DEF ManualCommit, ManualEnd
  <2>7. CASE ManualFail(u)
    BY <2>1, <2>2, <2>7, IntakeUpdates DEF ManualFail, ManualEnd
  <2> QED
    BY <1>6, <2>3, <2>4, <2>5, <2>6, <2>7 DEF IntakeManually
<1>7. ASSUME NEW u \in Uris, RemoteChange(u)
      PROVE  TypeOK'
  BY <1>7, SyncAssumption DEF RemoteChange, Versions
<1>8. CASE ChangeAuthority
  BY <1>8 DEF ChangeAuthority
<1>9. CASE Tick
  BY <1>9, AgedRows DEF Tick
<1>10. CASE UNCHANGED vars
  BY <1>10 DEF vars
<1> QED
  BY <1>1, <1>2, <1>3, <1>4, <1>5, <1>6, <1>7, <1>8, <1>9, <1>10
     DEF Next, Coordinate

---------------------------------------------------------------------------
(* What the steps of a thread do to rows and leases *)

LEMMA ThreadSet ==
  ASSUME TypeOK, NEW e \in Executions, NEW u \in Uris, NEW t, SetThread(e, u, t)
  PROVE  /\ worker'[e][u] = t
         /\ \A f \in Executions, v \in Uris :
              f # e \/ v # u => worker'[f][v] = worker[f][v]
BY DEF TypeOK, SetThread

LEMMA ItemSet ==
  ASSUME TypeOK, NEW e \in Executions, NEW u \in Uris, RunOf(e) \in Runs,
         NEW t, SetItem(e, u, t)
  PROVE  /\ item'[RunOf(e)][u] = t
         /\ \A r \in Runs, v \in Uris :
              r # RunOf(e) \/ v # u => item'[r][v] = item[r][v]
BY DEF TypeOK, SetItem

\* Only the thread of u changes, nothing of the run, its items, executions.
OnlyThread(e, u) ==
  /\ \A f \in Executions, v \in Uris :
       f # e \/ v # u => worker'[f][v] = worker[f][v]
  /\ UNCHANGED <<run, item, exec>>

\* The thread gives its claim up, or goes on with the same claim.
Retire(e, u) ==
  /\ OnlyThread(e, u)
  /\ worker[e][u].pc # "absent"
  /\ worker'[e][u].pc \in {"done", "raised"}
  /\ UNCHANGED ingestedBy

Advance(e, u) ==
  /\ OnlyThread(e, u)
  /\ worker[e][u].pc \in Claimed
  /\ worker'[e][u].pc \in Claimed
  /\ worker'[e][u].token = worker[e][u].token
  /\ worker'[e][u].left = worker[e][u].left

LEMMA RetireStep ==
  ASSUME TypeOK, NEW e \in Executions, NEW u \in Uris,
         ClaimRaises(e, u) \/ CompletionRefused(e, u)
           \/ ThreadRaises(e, u)
  PROVE  Retire(e, u)
<1>1. worker[e][u].pc # "absent" /\ UNCHANGED <<run, item, exec, ingestedBy>>
  BY DEF ClaimRaises, CompletionRefused, ThreadRaises, MayClaim, rows
<1>2. PICK t \in {"done", "raised"} : SetThread(e, u, At(t))
  BY DEF ClaimRaises, CompletionRefused, ThreadRaises
<1>3. worker'[e][u].pc = t
  BY <1>2, ThreadSet DEF At, NoThread
<1> QED
  BY <1>1, <1>2, <1>3, ThreadSet DEF Retire, OnlyThread

SameClaim(t, n) == n.pc \in Claimed /\ n.token = t.token /\ n.left = t.left

LEMMA ClaimKept ==
  ASSUME NEW t \in Thread, NEW v, NEW o
  PROVE  /\ SameClaim(t, [t EXCEPT !.pc = "waiting"])
         /\ SameClaim(t, [t EXCEPT !.pc = "reading", !.base = v])
         /\ SameClaim(t, [t EXCEPT !.pc = "read", !.read = v])
         /\ SameClaim(t, [t EXCEPT !.pc = "settled", !.outcome = o, !.base = -1, !.read = -1])
         /\ SameClaim(t, [t EXCEPT !.pc = "settled", !.base = -1, !.read = v,
                                   !.outcome = o])
BY DEF SameClaim, Thread, Claimed

LEMMA AdvanceStep ==
  ASSUME TypeOK, NEW e \in Executions, NEW u \in Uris,
         \/ CheckConnection(e, u) \/ LockCheckpoint(e, u) \/ ReadResource(e, u)
         \/ ConnectorError(e, u) \/ CommitIntake(e, u) \/ RejectIntake(e, u)
         \/ LoseAuthority(e, u)
  PROVE  Advance(e, u)
<1> DEFINE w == worker[e][u]
<1>1. w.pc \in Claimed /\ UNCHANGED <<run, item, exec>>
  BY DEF CheckConnection, LockCheckpoint, ReadResource, ConnectorError, CommitIntake,
         RejectIntake, LoseAuthority, rows, Claimed, Locking
<1>2. w \in Thread
  BY DEF TypeOK
<1>3. ASSUME NEW t, SetThread(e, u, t), SameClaim(w, t)
      PROVE  Advance(e, u)
  BY <1>1, <1>3, ThreadSet DEF Advance, OnlyThread, SameClaim
<1>4. ASSUME NEW o, Settle(e, u, o) PROVE Advance(e, u)
  BY <1>2, <1>3, <1>4, ClaimKept DEF Settle
<1>5. CASE ConnectorError(e, u) \/ RejectIntake(e, u) \/ LoseAuthority(e, u)
  BY <1>4, <1>5 DEF ConnectorError, RejectIntake, LoseAuthority
<1>6. CASE CheckConnection(e, u)
  BY <1>2, <1>3, <1>4, <1>6, ClaimKept DEF CheckConnection
<1>7. CASE LockCheckpoint(e, u) \/ ReadResource(e, u)
  BY <1>2, <1>3, <1>7, ClaimKept DEF LockCheckpoint, ReadResource
<1>8. CASE CommitIntake(e, u)
  BY <1>2, <1>3, <1>4, <1>8, ClaimKept DEF CommitIntake
<1> QED
  BY <1>5, <1>6, <1>7, <1>8

\* The five kinds of steps a thread takes.
LEMMA WorkKinds ==
  ASSUME TypeOK, NEW e \in Executions, NEW u \in Uris, Work(e, u)
  PROVE  \/ Retire(e, u)
         \/ Advance(e, u)
         \/ ClaimSyncItem(e, u)
         \/ FailExhaustedItem(e, u)
         \/ CompleteSyncItem(e, u)
BY RetireStep, AdvanceStep DEF Work, Claim

LEMMA TickFacts ==
  ASSUME TypeOK, Tick
  PROVE  /\ UNCHANGED <<exec, ingestedBy, lock, manual, checkpoint, created, remote>>
         /\ \A r \in Runs : run'[r] = [run[r] EXCEPT !.left = Aged(@)]
         /\ \A r \in Runs, u \in Uris :
              item'[r][u] = [item[r][u] EXCEPT !.left = Aged(@)]
         /\ \A e \in Executions, u \in Uris :
              worker'[e][u] = [worker[e][u] EXCEPT !.left = Aged(@)]
BY DEF TypeOK, Tick, content

LEMMA TickFields ==
  ASSUME TypeOK, Tick
  PROVE  /\ \A r \in Runs : /\ run'[r].status = run[r].status
                            /\ run'[r].owner = run[r].owner
                            /\ run'[r].left = Aged(run[r].left)
                            /\ run'[r].changed = run[r].changed
                            /\ run'[r].unchanged = run[r].unchanged
                            /\ run'[r].failed = run[r].failed
         /\ \A r \in Runs, u \in Uris :
              /\ item'[r][u].status = item[r][u].status
              /\ item'[r][u].attempt = item[r][u].attempt
              /\ item'[r][u].owner = item[r][u].owner
              /\ item'[r][u].version = item[r][u].version
              /\ item'[r][u].left = Aged(item[r][u].left)
         /\ \A e \in Executions, u \in Uris :
              /\ worker'[e][u].pc = worker[e][u].pc
              /\ worker'[e][u].token = worker[e][u].token
              /\ worker'[e][u].outcome = worker[e][u].outcome
              /\ worker'[e][u].base = worker[e][u].base
              /\ worker'[e][u].read = worker[e][u].read
              /\ worker'[e][u].left = Aged(worker[e][u].left)
<1>1. /\ \A r \in Runs : run[r] \in RunRow
      /\ \A r \in Runs, u \in Uris : item[r][u] \in ItemRow
      /\ \A e \in Executions, u \in Uris : worker[e][u] \in Thread
  BY DEF TypeOK
<1>2. ASSUME NEW row \in RunRow
      PROVE  LET n == [row EXCEPT !.left = Aged(@)] IN
             /\ n.status = row.status /\ n.owner = row.owner /\ n.left = Aged(row.left)
             /\ n.changed = row.changed /\ n.unchanged = row.unchanged
             /\ n.failed = row.failed
  BY DEF RunRow
<1>3. ASSUME NEW i \in ItemRow
      PROVE  LET n == [i EXCEPT !.left = Aged(@)] IN
             /\ n.status = i.status /\ n.attempt = i.attempt /\ n.owner = i.owner
             /\ n.version = i.version /\ n.left = Aged(i.left)
  BY DEF ItemRow
<1>4. ASSUME NEW t \in Thread
      PROVE  LET n == [t EXCEPT !.left = Aged(@)] IN
             /\ n.pc = t.pc /\ n.token = t.token /\ n.outcome = t.outcome
             /\ n.base = t.base /\ n.read = t.read /\ n.left = Aged(t.left)
  BY DEF Thread
<1>5. ASSUME NEW r \in Runs
      PROVE  /\ run'[r].status = run[r].status /\ run'[r].owner = run[r].owner
             /\ run'[r].left = Aged(run[r].left)
             /\ run'[r].changed = run[r].changed
             /\ run'[r].unchanged = run[r].unchanged
             /\ run'[r].failed = run[r].failed
  BY <1>1, <1>2, TickFacts
<1>6. ASSUME NEW r \in Runs, NEW u \in Uris
      PROVE  /\ item'[r][u].status = item[r][u].status
             /\ item'[r][u].attempt = item[r][u].attempt
             /\ item'[r][u].owner = item[r][u].owner
             /\ item'[r][u].version = item[r][u].version
             /\ item'[r][u].left = Aged(item[r][u].left)
  BY <1>1, <1>3, TickFacts
<1>7. ASSUME NEW e \in Executions, NEW u \in Uris
      PROVE  /\ worker'[e][u].pc = worker[e][u].pc
             /\ worker'[e][u].token = worker[e][u].token
             /\ worker'[e][u].outcome = worker[e][u].outcome
             /\ worker'[e][u].base = worker[e][u].base
             /\ worker'[e][u].read = worker[e][u].read
             /\ worker'[e][u].left = Aged(worker[e][u].left)
  BY <1>1, <1>4, TickFacts
<1> QED
  BY <1>5, <1>6, <1>7

LEMMA ClaimFacts ==
  ASSUME TypeOK, NEW e \in Executions, NEW u \in Uris, RunOf(e) \in Runs,
         ClaimSyncItem(e, u)
  PROVE  /\ UNCHANGED <<run, exec, ingestedBy>>
         /\ HasCoordinatorLease(e)
         /\ worker[e][u].pc \in {"claiming", "submitted"}
         /\ item[RunOf(e)][u].status \notin ItemTerminal
         /\ ~(item[RunOf(e)][u].status = "running" /\ item[RunOf(e)][u].left > 0)
         /\ item[RunOf(e)][u].attempt \in 0 .. MaxAttempts - 1
         /\ item'[RunOf(e)][u].status = "running"
         /\ item'[RunOf(e)][u].attempt = item[RunOf(e)][u].attempt + 1
         /\ item'[RunOf(e)][u].owner = item[RunOf(e)][u].attempt + 1
         /\ item'[RunOf(e)][u].left = ItemLease
         /\ \A r \in Runs, v \in Uris :
              r # RunOf(e) \/ v # u => item'[r][v] = item[r][v]
         /\ worker'[e][u].pc = "claimed"
         /\ worker'[e][u].token = item[RunOf(e)][u].attempt + 1
         /\ worker'[e][u].left = ItemLease
         /\ \A f \in Executions, v \in Uris :
              f # e \/ v # u => worker'[f][v] = worker[f][v]
<1> DEFINE i == item[RunOf(e)][u]
           k == i.attempt + 1
           n == [i EXCEPT !.status = "running", !.attempt = k, !.owner = k,
                          !.left = ItemLease]
           t == [At("claimed") EXCEPT !.token = k, !.left = ItemLease]
<1>1. i \in ItemRow
  BY DEF TypeOK
<1>2. /\ SetItem(e, u, n) /\ SetThread(e, u, t)
      /\ UNCHANGED <<run, exec, ingestedBy>>
      /\ Claimable(e, u) /\ i.attempt < MaxAttempts
  BY DEF ClaimSyncItem, ItemOf, AttemptsLeft
<1>3. n.status = "running" /\ n.attempt = k /\ n.owner = k /\ n.left = ItemLease
  BY <1>1 DEF ItemRow
<1>4. t.pc = "claimed" /\ t.token = k /\ t.left = ItemLease
  BY DEF At, NoThread
<1>5. i.attempt \in 0 .. MaxAttempts - 1
  BY <1>1, <1>2, Bounds DEF ItemRow
<1>6. /\ item'[RunOf(e)][u] = n
      /\ \A r \in Runs, v \in Uris : r # RunOf(e) \/ v # u => item'[r][v] = item[r][v]
  BY <1>2, ItemSet
<1>7. /\ worker'[e][u] = t
      /\ \A f \in Executions, v \in Uris : f # e \/ v # u => worker'[f][v] = worker[f][v]
  BY <1>2, ThreadSet
<1>8. /\ HasCoordinatorLease(e) /\ worker[e][u].pc \in {"claiming", "submitted"}
      /\ i.status \notin ItemTerminal /\ ~(i.status = "running" /\ i.left > 0)
  BY <1>2 DEF Claimable, MayClaim, ItemOf
<1> QED
  BY <1>2, <1>3, <1>4, <1>5, <1>6, <1>7, <1>8

\* An item is closed, or reopened for a retry, by exhaustion or by a thread.
Closes(e, u) ==
  /\ UNCHANGED <<run, exec, ingestedBy>>
  /\ item'[RunOf(e)][u].status \in {"queued"} \cup ItemTerminal
  /\ item'[RunOf(e)][u].attempt = item[RunOf(e)][u].attempt
  /\ item'[RunOf(e)][u].left = 0
  /\ \A r \in Runs, v \in Uris :
       r # RunOf(e) \/ v # u => item'[r][v] = item[r][v]
  /\ worker[e][u].pc \in {"claiming", "submitted", "settled"}
  /\ worker'[e][u].pc \in {"done", "claiming"}
  /\ worker'[e][u].pc = "done" \/ item'[RunOf(e)][u].status = "queued"
  /\ \A f \in Executions, v \in Uris :
       f # e \/ v # u => worker'[f][v] = worker[f][v]

LEMMA ExhaustFacts ==
  ASSUME TypeOK, NEW e \in Executions, NEW u \in Uris, RunOf(e) \in Runs,
         FailExhaustedItem(e, u)
  PROVE  /\ Closes(e, u)
         /\ HasCoordinatorLease(e)
         /\ item'[RunOf(e)][u].status = "failed"
         /\ item[RunOf(e)][u].attempt = MaxAttempts
         /\ item[RunOf(e)][u].status \notin ItemTerminal
         /\ ~(item[RunOf(e)][u].status = "running" /\ item[RunOf(e)][u].left > 0)
<1> DEFINE i == item[RunOf(e)][u]
           n == [i EXCEPT !.status = "failed", !.owner = 0, !.left = 0]
<1>1. i \in ItemRow
  BY DEF TypeOK
<1>2. /\ SetItem(e, u, n) /\ SetThread(e, u, At("done"))
      /\ UNCHANGED <<run, exec, ingestedBy>>
      /\ Claimable(e, u) /\ ~(i.attempt < MaxAttempts)
  BY DEF FailExhaustedItem, ItemOf, AttemptsLeft
<1>3. n.status = "failed" /\ n.attempt = i.attempt /\ n.left = 0
  BY <1>1 DEF ItemRow
<1>4. At("done").pc = "done"
  BY DEF At, NoThread
<1>5. i.attempt = MaxAttempts
  BY <1>1, <1>2, Bounds DEF ItemRow
<1>6. /\ item'[RunOf(e)][u] = n
      /\ \A r \in Runs, v \in Uris : r # RunOf(e) \/ v # u => item'[r][v] = item[r][v]
  BY <1>2, ItemSet
<1>7. /\ worker'[e][u] = At("done")
      /\ \A f \in Executions, v \in Uris : f # e \/ v # u => worker'[f][v] = worker[f][v]
  BY <1>2, ThreadSet
<1>8. /\ HasCoordinatorLease(e) /\ worker[e][u].pc \in {"claiming", "submitted"}
      /\ i.status \notin ItemTerminal /\ ~(i.status = "running" /\ i.left > 0)
  BY <1>2 DEF Claimable, MayClaim, ItemOf
<1> QED
  BY <1>2, <1>3, <1>4, <1>5, <1>6, <1>7, <1>8 DEF Closes, ItemTerminal

LEMMA CompleteFacts ==
  ASSUME TypeOK, NEW e \in Executions, NEW u \in Uris, RunOf(e) \in Runs,
         CompleteSyncItem(e, u)
  PROVE  /\ Closes(e, u)
         /\ MayComplete(e, u)
         /\ worker[e][u].pc = "settled"
         /\ LET w == worker[e][u]
                i == item[RunOf(e)][u]
                n == item'[RunOf(e)][u] IN
            \/ /\ w.outcome \in {"changed", "unchanged"}
               /\ n.status = w.outcome /\ n.version = w.read
            \/ /\ w.outcome = "error" /\ i.attempt < MaxAttempts
               /\ n.status = "queued"
            \/ /\ \/ w.outcome \in {"refused", "rejected", "lost"}
                  \/ w.outcome = "error" /\ i.attempt >= MaxAttempts
               /\ n.status = "failed"
<1> DEFINE w == worker[e][u]
           i == item[RunOf(e)][u]
           n(s, v) == [i EXCEPT !.status = s, !.owner = 0, !.left = 0, !.version = v]
<1>1. i \in ItemRow
  BY DEF TypeOK
<1>2. ASSUME NEW s, NEW v
      PROVE  /\ n(s, v).status = s /\ n(s, v).attempt = i.attempt
             /\ n(s, v).left = 0 /\ n(s, v).version = v
  BY <1>1 DEF ItemRow
<1>3. \A pc : At(pc).pc = pc
  BY DEF At, NoThread
<1>4. ASSUME NEW s \in {"queued"} \cup ItemTerminal, NEW v, NEW pc \in {"done", "claiming"},
             pc = "done" \/ s = "queued",
             CloseItem(e, u, s, v), SetThread(e, u, At(pc))
      PROVE  Closes(e, u) /\ item'[RunOf(e)][u].status = s /\ item'[RunOf(e)][u].version = v
  <2>1. /\ item'[RunOf(e)][u] = n(s, v)
        /\ \A r \in Runs, x \in Uris : r # RunOf(e) \/ x # u => item'[r][x] = item[r][x]
    BY <1>4, ItemSet DEF CloseItem, ItemOf
  <2>2. /\ worker'[e][u] = At(pc)
        /\ \A f \in Executions, x \in Uris : f # e \/ x # u => worker'[f][x] = worker[f][x]
    BY <1>4, ThreadSet
  <2>3. UNCHANGED <<run, exec, ingestedBy>> /\ w.pc = "settled"
    BY DEF CompleteSyncItem
  <2>4. /\ item'[RunOf(e)][u].status = s /\ item'[RunOf(e)][u].version = v
        /\ item'[RunOf(e)][u].attempt = i.attempt /\ item'[RunOf(e)][u].left = 0
    BY <1>2, <2>1
  <2>5. worker'[e][u].pc = pc
    BY <1>3, <2>2
  <2> QED
    BY <1>4, <2>1, <2>2, <2>3, <2>4, <2>5 DEF Closes
<1>5. w.pc = "settled" /\ MayComplete(e, u)
  BY DEF CompleteSyncItem
<1>6. CASE w.outcome \in {"changed", "unchanged"} /\ CloseItem(e, u, w.outcome, w.read)
             /\ SetThread(e, u, At("done"))
  BY <1>4, <1>5, <1>6 DEF ItemTerminal
<1>7. CASE w.outcome = "error" /\ AttemptsLeft(e, u)
             /\ CloseItem(e, u, "queued", -1) /\ SetThread(e, u, At("claiming"))
  BY <1>4, <1>5, <1>7 DEF ItemOf, AttemptsLeft
<1>8. CASE /\ \/ w.outcome \in {"refused", "rejected", "lost"}
              \/ w.outcome = "error" /\ ~AttemptsLeft(e, u)
           /\ CloseItem(e, u, "failed", -1) /\ SetThread(e, u, At("done"))
  <2>1. ~(i.attempt < MaxAttempts) => i.attempt >= MaxAttempts
    BY <1>1, Bounds DEF ItemRow
  <2> QED
    BY <1>4, <1>5, <1>8, <2>1 DEF ItemOf, ItemTerminal, AttemptsLeft
<1> QED
  BY <1>5, <1>6, <1>7, <1>8 DEF CompleteSyncItem

---------------------------------------------------------------------------
(* What the steps of an execution do to rows and leases *)

\* The execution ends: its threads are gone, no other execution is touched.
Leave(e) ==
  /\ UNCHANGED <<item, ingestedBy>>
  /\ exec'[e].pc = "idle"
  /\ \A u \in Uris : worker'[e][u].pc = "absent"
  /\ \A f \in Executions : f # e => exec'[f] = exec[f] /\ worker'[f] = worker[f]

LEMMA LeaveStep ==
  ASSUME TypeOK, NEW e \in Executions,
         FinalizeSyncRun(e) \/ AbandonRun(e) \/ Crash(e)
  PROVE  Leave(e)
<1>1. EndExecution(e) /\ UNCHANGED <<item, ingestedBy>>
  BY DEF FinalizeSyncRun, AbandonRun, Crash, rows
<1> QED
  BY <1>1 DEF EndExecution, Leave, TypeOK, NoThread

LEMMA ClaimCoordinatorFacts ==
  ASSUME TypeOK, ThreadsBelongToWork, NEW e \in Executions, NEW r \in Runs,
         ClaimCoordinator(e, r)
  PROVE  /\ UNCHANGED <<item, worker, ingestedBy>>
         /\ \A u \in Uris : worker[e][u].pc = "absent"
         /\ run[r].status \notin RunTerminal /\ NoActiveItem(r)
         /\ run'[r].status = "running" /\ run'[r].owner = e
         /\ \A q \in Runs : q # r => run'[q] = run[q]
         /\ exec'[e].pc = "claimed" /\ exec'[e].run = r
         /\ \A f \in Executions : f # e => exec'[f] = exec[f]
<1>1. \A u \in Uris : worker[e][u].pc = "absent"
  BY DEF ClaimCoordinator, ThreadsBelongToWork
<1>2. run[r] \in RunRow
  BY DEF TypeOK
<1>3. run' = [run EXCEPT ![r] = [@ EXCEPT !.status = "running", !.owner = e,
                                          !.left = CoordinatorLease]]
  BY DEF ClaimCoordinator
<1>4. run'[r].status = "running" /\ run'[r].owner = e
  BY <1>2, <1>3 DEF RunRow, TypeOK
<1>5. \A q \in Runs : q # r => run'[q] = run[q]
  BY <1>3 DEF TypeOK
<1> QED
  BY <1>1, <1>4, <1>5 DEF ClaimCoordinator, TypeOK

LEMMA SubmitFacts ==
  ASSUME TypeOK, NEW e \in Executions, SubmitItems(e)
  PROVE  /\ UNCHANGED <<run, item, ingestedBy>>
         /\ exec[e].pc = "claimed" /\ exec'[e].pc = "working"
         /\ exec'[e].run = exec[e].run
         /\ \A f \in Executions : f # e => exec'[f] = exec[f] /\ worker'[f] = worker[f]
         /\ \A u \in Uris :
              \/ /\ worker'[e][u].pc = "submitted" /\ u \in Requested[RunOf(e)]
                 /\ item[RunOf(e)][u].status \notin ItemTerminal
              \/ worker'[e][u].pc = "absent"
<1>1. exec' = [exec EXCEPT ![e].pc = "working"] /\ exec[e].pc = "claimed"
        /\ UNCHANGED <<run, item, ingestedBy>>
  BY DEF SubmitItems, rows
<1>2. exec'[e].pc = "working" /\ exec'[e].run = exec[e].run
        /\ \A f \in Executions : f # e => exec'[f] = exec[f]
  BY <1>1 DEF TypeOK
<1>3. \A u \in Uris : worker'[e][u] =
        IF u \in Requested[RunOf(e)] /\ ItemOf(e, u).status \notin ItemTerminal
          THEN At("submitted") ELSE NoThread
  BY DEF SubmitItems, TypeOK
<1>4. At("submitted").pc = "submitted" /\ NoThread.pc = "absent"
  BY DEF At, NoThread
<1>5. \A f \in Executions : f # e => worker'[f] = worker[f]
  BY DEF SubmitItems, TypeOK
<1> QED
  BY <1>1, <1>2, <1>3, <1>4, <1>5 DEF ItemOf

\* Steps that concern neither runs nor their threads.
Aside == UNCHANGED <<run, item, exec, worker, ingestedBy>>

LEMMA StepKinds ==
  ASSUME [Next]_vars
  PROVE  \/ \E e \in Executions, r \in Runs : ClaimCoordinator(e, r)
         \/ \E e \in Executions : SubmitItems(e)
         \/ \E e \in Executions : FinalizeSyncRun(e) \/ AbandonRun(e) \/ Crash(e)
         \/ \E e \in Executions, u \in Uris : Work(e, u)
         \/ Tick
         \/ Aside
<1>1. ASSUME NEW u \in Interactive, IntakeManually(u) PROVE Aside
  BY <1>1 DEF IntakeManually, ManualStart, ManualLock, ManualRead, ManualCommit,
              ManualFail, ManualEnd, Aside, rows, threads
<1>2. ASSUME NEW u \in Uris, RemoteChange(u) PROVE Aside
  BY <1>2 DEF RemoteChange, Aside, rows, threads
<1>3. CASE ChangeAuthority \/ UNCHANGED vars
  BY <1>3 DEF ChangeAuthority, Aside, rows, threads, vars
<1> QED
  BY <1>1, <1>2, <1>3 DEF Next, Coordinate

LEMMA ThreadsBelongStep ==
  ASSUME TypeOK, ThreadsBelongToWork, [Next]_vars
  PROVE  ThreadsBelongToWork'
<1>1. ASSUME NEW e \in Executions, NEW r \in Runs, ClaimCoordinator(e, r)
      PROVE  ThreadsBelongToWork'
  <2>1. /\ worker' = worker /\ \A u \in Uris : worker[e][u].pc = "absent"
        /\ \A f \in Executions : f # e => exec'[f] = exec[f]
    BY <1>1, ClaimCoordinatorFacts
  <2> QED
    BY <2>1 DEF ThreadsBelongToWork, RunOf, Claimed
<1>2. ASSUME NEW e \in Executions, SubmitItems(e)
      PROVE  ThreadsBelongToWork'
  BY <1>2, SubmitFacts DEF ThreadsBelongToWork, RunOf, Claimed
<1>3. ASSUME NEW e \in Executions, Leave(e)
      PROVE  ThreadsBelongToWork'
  BY <1>3 DEF Leave, ThreadsBelongToWork, RunOf, Claimed
<1>4. ASSUME NEW e \in Executions, NEW u \in Uris, Work(e, u)
      PROVE  ThreadsBelongToWork'
  <2>1. CASE Retire(e, u)
    BY <2>1 DEF Retire, OnlyThread, ThreadsBelongToWork, RunOf, Claimed
  <2>2. CASE Advance(e, u)
    BY <2>2 DEF Advance, OnlyThread, ThreadsBelongToWork, RunOf, Claimed
  <2>3. CASE \/ ClaimSyncItem(e, u) \/ FailExhaustedItem(e, u) \/ CompleteSyncItem(e, u)
    <3>1. worker[e][u].pc # "absent"
      BY <2>3 DEF ClaimSyncItem, FailExhaustedItem, CompleteSyncItem, Claimable, MayClaim
    <3>2. RunOf(e) \in Runs
      BY <3>1 DEF ThreadsBelongToWork, TypeOK, RunOf
    <3>3. CASE ClaimSyncItem(e, u)
      BY <3>1, <3>2, <3>3, ClaimFacts DEF ThreadsBelongToWork, RunOf
    <3>4. CASE Closes(e, u)
      BY <3>1, <3>4 DEF Closes, ThreadsBelongToWork, RunOf, Claimed
    <3> QED
      BY <2>3, <3>2, <3>3, <3>4, ExhaustFacts, CompleteFacts
  <2> QED
    BY <1>4, <2>1, <2>2, <2>3, WorkKinds
<1>5. CASE Tick
  BY <1>5, TickFields, TickFacts DEF ThreadsBelongToWork, RunOf
<1>6. CASE Aside
  BY <1>6 DEF Aside, ThreadsBelongToWork, RunOf
<1> QED
  BY <1>1, <1>2, <1>3, <1>4, <1>5, <1>6, StepKinds, LeaveStep

---------------------------------------------------------------------------
(* The lease invariant *)

\* A running item is owned by its newest attempt; no other item has a lease.
RowsWellFormed ==
  \A r \in Runs, u \in Uris :
    /\ item[r][u].status = "running" =>
         item[r][u].attempt > 0 /\ item[r][u].owner = item[r][u].attempt
    /\ item[r][u].status # "running" => item[r][u].left = 0
    /\ item[r][u].status = "queued" => item[r][u].attempt < MaxAttempts

\* No two threads work for the same attempt, and none for a future one.
TokensOfThreads ==
  \A e \in Executions, u \in Uris : worker[e][u].pc \in Claimed =>
    /\ worker[e][u].token <= ItemOf(e, u).attempt
    /\ \A f \in Executions \ {e} :
         RunOf(f) = RunOf(e) /\ worker[f][u].pc \in Claimed =>
           worker[f][u].token # worker[e][u].token

\* A thread whose cached lease still lasts works for the newest attempt, and
\* its execution still owns the run: the copy never outlives the row.
CachedLeases ==
  \A e \in Executions, u \in Uris : Holds(e, u) =>
    /\ worker[e][u].token = ItemOf(e, u).attempt
    /\ ItemOf(e, u).status = "running"
    /\ ItemOf(e, u).left = worker[e][u].left
    /\ run[RunOf(e)].status = "running"
    /\ run[RunOf(e)].owner = e

LeaseInv ==
  /\ TypeOK
  /\ ThreadsBelongToWork
  /\ RowsWellFormed
  /\ TokensOfThreads
  /\ CachedLeases

LEMMA WorkerOfRun ==
  ASSUME TypeOK, ThreadsBelongToWork, NEW e \in Executions, NEW u \in Uris,
         worker[e][u].pc # "absent"
  PROVE  /\ RunOf(e) \in Runs
         /\ u \in Requested[RunOf(e)]
         /\ ItemOf(e, u) \in ItemRow
BY DEF ThreadsBelongToWork, TypeOK, RunOf, ItemOf

\* A running lease, as the completing thread sees it, is its own.
LEMMA CompleterOwnsItem ==
  ASSUME LeaseInv, NEW e \in Executions, NEW u \in Uris,
         worker[e][u].pc = "settled", MayComplete(e, u)
  PROVE  /\ item[RunOf(e)][u].status = "running"
         /\ item[RunOf(e)][u].attempt = worker[e][u].token
<1>1. RunOf(e) \in Runs
  BY WorkerOfRun DEF LeaseInv
<1>2. CASE HasItemLease(e, u)
  BY <1>1, <1>2 DEF HasItemLease, ItemOf, LeaseInv, RowsWellFormed
<1>3. CASE worker[e][u].left > 0
  BY <1>3 DEF LeaseInv, CachedLeases, Holds, Claimed, ItemOf
<1> QED
  BY <1>2, <1>3 DEF MayComplete

\* The lease of an item counts whenever a thread counts on it.
LEMMA NobodyHolds ==
  ASSUME LeaseInv, NEW r \in Runs, NEW u \in Uris,
         ~(item[r][u].status = "running" /\ item[r][u].left > 0)
  PROVE  \A f \in Executions : RunOf(f) = r => ~Holds(f, u)
<1> SUFFICES ASSUME NEW f \in Executions, RunOf(f) = r, Holds(f, u)
             PROVE  FALSE
  OBVIOUS
<1> QED
  BY DEF LeaseInv, CachedLeases, Holds, ItemOf

LEMMA RowsStep ==
  ASSUME LeaseInv, [Next]_vars
  PROVE  RowsWellFormed'
<1>0. TypeOK /\ ThreadsBelongToWork /\ RowsWellFormed
  BY DEF LeaseInv
<1>1. CASE UNCHANGED item
  BY <1>0, <1>1 DEF RowsWellFormed
<1>2. ASSUME NEW e \in Executions, NEW u \in Uris, Work(e, u)
      PROVE  RowsWellFormed'
  <2>1. CASE Retire(e, u) \/ Advance(e, u)
    BY <1>1, <2>1 DEF Retire, Advance, OnlyThread
  <2>2. CASE ClaimSyncItem(e, u)
    <3>1. RunOf(e) \in Runs
      BY <1>0, <2>2, WorkerOfRun DEF ClaimSyncItem, Claimable, MayClaim
    <3>2. ASSUME NEW r \in Runs, NEW v \in Uris, r # RunOf(e) \/ v # u
          PROVE  item'[r][v] = item[r][v]
      BY <1>0, <2>2, <3>1, <3>2, ClaimFacts
    <3>3. LET n == item'[RunOf(e)][u] IN
            n.status = "running" /\ n.attempt > 0 /\ n.owner = n.attempt
      BY <1>0, <2>2, <3>1, ClaimFacts
    <3> QED
      BY <1>0, <3>2, <3>3 DEF RowsWellFormed
  <2>3. CASE FailExhaustedItem(e, u)
    <3>1. RunOf(e) \in Runs
      BY <1>0, <2>3, WorkerOfRun DEF FailExhaustedItem, Claimable, MayClaim
    <3>2. Closes(e, u) /\ item'[RunOf(e)][u].status = "failed"
      BY <1>0, <2>3, <3>1, ExhaustFacts
    <3> QED
      BY <1>0, <3>2 DEF RowsWellFormed, Closes
  <2>4. CASE CompleteSyncItem(e, u)
    <3>1. RunOf(e) \in Runs
      BY <1>0, <2>4, WorkerOfRun DEF CompleteSyncItem
    <3>2. Closes(e, u)
            /\ (item'[RunOf(e)][u].status = "queued" =>
                  item[RunOf(e)][u].attempt < MaxAttempts)
      BY <1>0, <2>4, <3>1, CompleteFacts
    <3> QED
      BY <1>0, <3>2 DEF RowsWellFormed, Closes, ItemTerminal
  <2> QED
    BY <1>0, <1>2, <2>1, <2>2, <2>3, <2>4, WorkKinds
<1>3. CASE Tick
  <2>1. ASSUME NEW r \in Runs, NEW u \in Uris
        PROVE  item[r][u].left = 0 => item'[r][u].left = 0
    BY <1>0, <1>3, TickFields DEF Aged
  <2> QED
    BY <1>0, <1>3, <2>1, TickFields DEF RowsWellFormed
<1> QED
  BY <1>0, <1>1, <1>2, <1>3, StepKinds, LeaveStep, ClaimCoordinatorFacts, SubmitFacts
     DEF Leave, Aside

LEMMA TokensStep ==
  ASSUME LeaseInv, [Next]_vars
  PROVE  TokensOfThreads'
<1>0. TypeOK /\ ThreadsBelongToWork /\ TokensOfThreads
  BY DEF LeaseInv
<1>1. ASSUME NEW e \in Executions, NEW r \in Runs, ClaimCoordinator(e, r)
      PROVE  TokensOfThreads'
  <2>1. /\ worker' = worker /\ item' = item
        /\ \A u \in Uris : worker[e][u].pc = "absent"
        /\ \A f \in Executions : f # e => exec'[f] = exec[f]
    BY <1>0, <1>1, ClaimCoordinatorFacts
  <2> QED
    BY <1>0, <2>1 DEF TokensOfThreads, RunOf, ItemOf, Claimed
<1>2. ASSUME NEW e \in Executions, SubmitItems(e)
      PROVE  TokensOfThreads'
  <2>1. /\ item' = item /\ \A u \in Uris : worker'[e][u].pc \notin Claimed
        /\ \A f \in Executions : f # e => exec'[f] = exec[f] /\ worker'[f] = worker[f]
    BY <1>0, <1>2, SubmitFacts DEF Claimed
  <2> QED
    BY <1>0, <2>1 DEF TokensOfThreads, RunOf, ItemOf
<1>3. ASSUME NEW e \in Executions, Leave(e)
      PROVE  TokensOfThreads'
  BY <1>0, <1>3 DEF Leave, TokensOfThreads, RunOf, ItemOf, Claimed
<1>4. ASSUME NEW e \in Executions, NEW u \in Uris, Work(e, u)
      PROVE  TokensOfThreads'
  <2>1. CASE Retire(e, u)
    BY <1>0, <2>1 DEF Retire, OnlyThread, TokensOfThreads, RunOf, ItemOf, Claimed
  <2>2. CASE Advance(e, u)
    BY <1>0, <2>2 DEF Advance, OnlyThread, TokensOfThreads, RunOf, ItemOf
  <2>3. CASE ClaimSyncItem(e, u)
    <3>1. RunOf(e) \in Runs /\ ItemOf(e, u) \in ItemRow
      BY <1>0, <2>3, WorkerOfRun DEF ClaimSyncItem, Claimable, MayClaim
    <3> DEFINE k == item[RunOf(e)][u].attempt
    <3>2. k \in Nat
      BY <3>1 DEF ItemRow, ItemOf
    <3>3. /\ exec' = exec
          /\ item'[RunOf(e)][u].attempt = k + 1
          /\ \A r \in Runs, v \in Uris : r # RunOf(e) \/ v # u => item'[r][v] = item[r][v]
          /\ worker'[e][u].token = k + 1
          /\ \A f \in Executions, v \in Uris : f # e \/ v # u => worker'[f][v] = worker[f][v]
      BY <1>0, <2>3, <3>1, ClaimFacts
    <3>4. ASSUME NEW f \in Executions, NEW v \in Uris, worker'[f][v].pc \in Claimed,
                 f # e \/ v # u
          PROVE  /\ worker'[f][v].token <= item'[RunOf(f)][v].attempt
                 /\ RunOf(f) = RunOf(e) /\ v = u => worker'[f][v].token <= k
      <4>1. worker'[f][v] = worker[f][v] /\ worker[f][v] \in Thread
        BY <1>0, <3>3, <3>4 DEF TypeOK
      <4>2. RunOf(f) \in Runs /\ worker[f][v].token <= item[RunOf(f)][v].attempt
              /\ worker[f][v].token \in Nat
        BY <1>0, <3>4, <4>1, WorkerOfRun, Bounds
           DEF TokensOfThreads, ItemOf, Claimed, Thread
      <4>3. CASE RunOf(f) = RunOf(e) /\ v = u
        BY <3>2, <3>3, <4>1, <4>2, <4>3
      <4>4. CASE RunOf(f) # RunOf(e) \/ v # u
        BY <3>3, <4>1, <4>2, <4>4
      <4> QED
        BY <4>3, <4>4
    <3>5. \A f \in Executions : RunOf(f)' = RunOf(f)
      BY <3>3 DEF RunOf
    <3> SUFFICES ASSUME NEW f \in Executions, NEW v \in Uris, worker'[f][v].pc \in Claimed
                 PROVE  /\ worker'[f][v].token <= item'[RunOf(f)][v].attempt
                        /\ \A g \in Executions \ {f} :
                             RunOf(g) = RunOf(f) /\ worker'[g][v].pc \in Claimed =>
                               worker'[g][v].token # worker'[f][v].token
      BY <3>5 DEF TokensOfThreads, ItemOf
    <3>6. worker'[f][v].token <= item'[RunOf(f)][v].attempt
      BY <3>2, <3>3, <3>4
    <3>7. ASSUME NEW g \in Executions \ {f}, RunOf(g) = RunOf(f),
                 worker'[g][v].pc \in Claimed
          PROVE  worker'[g][v].token # worker'[f][v].token
      <4>1. CASE v = u /\ f = e
        BY <3>2, <3>3, <3>4, <3>7, <4>1
      <4>2. CASE v = u /\ g = e
        BY <3>2, <3>3, <3>4, <3>7, <4>2
      <4>3. CASE v # u \/ (f # e /\ g # e)
        BY <1>0, <3>3, <3>7, <4>3 DEF TokensOfThreads
      <4> QED
        BY <4>1, <4>2, <4>3
    <3> QED
      BY <3>6, <3>7
  <2>4. CASE FailExhaustedItem(e, u) \/ CompleteSyncItem(e, u)
    <3>1. RunOf(e) \in Runs
      BY <1>0, <2>4, WorkerOfRun
         DEF FailExhaustedItem, CompleteSyncItem, Claimable, MayClaim
    <3>2. Closes(e, u)
      BY <1>0, <2>4, <3>1, ExhaustFacts, CompleteFacts
    <3>3. \A r \in Runs, v \in Uris : item'[r][v].attempt = item[r][v].attempt
      BY <3>2 DEF Closes
    <3>4. \A f \in Executions, v \in Uris : worker'[f][v].pc \in Claimed =>
            worker'[f][v] = worker[f][v] /\ RunOf(f) \in Runs
      BY <1>0, <3>2, WorkerOfRun DEF Closes, Claimed
    <3>5. exec' = exec
      BY <3>2 DEF Closes
    <3> QED
      BY <1>0, <3>3, <3>4, <3>5 DEF TokensOfThreads, RunOf, ItemOf
  <2> QED
    BY <1>0, <1>4, <2>1, <2>2, <2>3, <2>4, WorkKinds
<1>5. CASE Tick
  <2>1. ASSUME NEW e \in Executions, NEW u \in Uris, worker[e][u].pc \in Claimed
        PROVE  item'[RunOf(e)][u].attempt = item[RunOf(e)][u].attempt
    BY <1>0, <1>5, <2>1, WorkerOfRun, TickFields DEF Claimed
  <2>2. exec' = exec /\ \A e \in Executions, u \in Uris :
          worker'[e][u].pc = worker[e][u].pc /\ worker'[e][u].token = worker[e][u].token
    BY <1>0, <1>5, TickFields, TickFacts
  <2> QED
    BY <1>0, <2>1, <2>2 DEF TokensOfThreads, RunOf, ItemOf
<1>6. CASE Aside
  BY <1>0, <1>6 DEF Aside, TokensOfThreads, RunOf, ItemOf
<1> QED
  BY <1>0, <1>1, <1>2, <1>3, <1>4, <1>5, <1>6, StepKinds, LeaveStep

LEMMA CachedLeasesStep ==
  ASSUME LeaseInv, [Next]_vars
  PROVE  CachedLeases'
<1>0. TypeOK /\ ThreadsBelongToWork /\ RowsWellFormed /\ TokensOfThreads /\ CachedLeases
  BY DEF LeaseInv
<1>1. ASSUME NEW e \in Executions, NEW r \in Runs, ClaimCoordinator(e, r)
      PROVE  CachedLeases'
  <2>1. /\ worker' = worker /\ item' = item
        /\ \A u \in Uris : worker[e][u].pc = "absent"
        /\ \A f \in Executions : f # e => exec'[f] = exec[f]
        /\ \A q \in Runs : q # r => run'[q] = run[q]
    BY <1>0, <1>1, ClaimCoordinatorFacts
  <2>0. NoActiveItem(r)
    BY <1>1 DEF ClaimCoordinator
  <2>2. ASSUME NEW f \in Executions, NEW u \in Uris, Holds(f, u)
        PROVE  f # e /\ RunOf(f) \in Runs /\ RunOf(f) # r
    <3>1. f # e
      BY <2>1, <2>2 DEF Holds, Claimed
    <3>2. RunOf(f) \in Runs /\ u \in Requested[RunOf(f)]
      BY <1>0, <2>2, WorkerOfRun DEF Holds, Claimed
    <3>3. CASE RunOf(f) = r
      BY <2>0, <2>2, <3>2, <3>3, NobodyHolds DEF NoActiveItem
    <3> QED
      BY <3>1, <3>2, <3>3
  <2> QED
    BY <1>0, <2>1, <2>2 DEF CachedLeases, Holds, RunOf, ItemOf
<1>2. ASSUME NEW e \in Executions, SubmitItems(e)
      PROVE  CachedLeases'
  <2>1. /\ item' = item /\ run' = run
        /\ \A u \in Uris : worker'[e][u].pc \notin Claimed
        /\ \A f \in Executions : f # e => exec'[f] = exec[f] /\ worker'[f] = worker[f]
    BY <1>0, <1>2, SubmitFacts DEF Claimed
  <2> QED
    BY <1>0, <2>1 DEF CachedLeases, Holds, RunOf, ItemOf
<1>3. ASSUME NEW e \in Executions,
             FinalizeSyncRun(e) \/ AbandonRun(e) \/ Crash(e)
      PROVE  CachedLeases'
  <2>1. Leave(e)
    BY <1>0, <1>3, LeaveStep
  <2>2. ASSUME NEW f \in Executions, NEW u \in Uris, Holds(f, u)'
        PROVE  f # e /\ Holds(f, u) /\ RunOf(f) \in Runs
    <3>1. f # e /\ Holds(f, u)
      BY <2>1, <2>2 DEF Leave, Holds, Claimed
    <3> QED
      BY <1>0, <3>1, WorkerOfRun DEF Holds, Claimed
  <2>3. ASSUME NEW f \in Executions, NEW u \in Uris, Holds(f, u), f # e
        PROVE  run'[RunOf(f)] = run[RunOf(f)]
    <3>1. RunOf(f) \in Runs /\ u \in Requested[RunOf(f)]
      BY <1>0, <2>3, WorkerOfRun DEF Holds, Claimed
    <3>2. CASE run' = run
      BY <3>2
    <3>3. CASE FinalizeSyncRun(e)
      <4>1. \A q \in Runs : q # RunOf(e) => run'[q] = run[q]
        BY <1>0, <3>3 DEF FinalizeSyncRun, TypeOK
      <4>2. run[RunOf(e)].owner = e
        BY <3>3 DEF FinalizeSyncRun, Finalizable, HasCoordinatorLease
      <4>3. run[RunOf(f)].owner = f
        BY <1>0, <2>3 DEF CachedLeases
      <4> QED
        BY <2>3, <3>1, <4>1, <4>2, <4>3
    <3> QED
      BY <1>3, <3>2, <3>3 DEF AbandonRun, Crash, rows
  <2> QED
    BY <1>0, <2>1, <2>2, <2>3 DEF Leave, CachedLeases, RunOf, ItemOf, Holds
<1>4. ASSUME NEW e \in Executions, NEW u \in Uris, Work(e, u)
      PROVE  CachedLeases'
  <2>1. CASE Retire(e, u)
    BY <1>0, <2>1 DEF Retire, OnlyThread, CachedLeases, Holds, RunOf, ItemOf, Claimed
  <2>2. CASE Advance(e, u)
    BY <1>0, <2>2 DEF Advance, OnlyThread, CachedLeases, Holds, RunOf, ItemOf
  <2>3. CASE ClaimSyncItem(e, u)
    <3>1. RunOf(e) \in Runs
      BY <1>0, <2>3, WorkerOfRun DEF ClaimSyncItem, Claimable, MayClaim
    <3>2. /\ run' = run /\ exec' = exec
          /\ HasCoordinatorLease(e)
          /\ ~(item[RunOf(e)][u].status = "running" /\ item[RunOf(e)][u].left > 0)
          /\ \A r \in Runs, v \in Uris : r # RunOf(e) \/ v # u => item'[r][v] = item[r][v]
          /\ \A f \in Executions, v \in Uris : f # e \/ v # u => worker'[f][v] = worker[f][v]
      BY <1>0, <2>3, <3>1, ClaimFacts
    <3>3. LET n == item'[RunOf(e)][u]  w == worker'[e][u] IN
            /\ w.token = n.attempt /\ n.status = "running" /\ n.left = w.left
      BY <1>0, <2>3, <3>1, ClaimFacts
    <3>4. ASSUME NEW f \in Executions, NEW v \in Uris, Holds(f, v)',
                 f # e \/ v # u
          PROVE  Holds(f, v) /\ RunOf(f) \in Runs /\ (RunOf(f) # RunOf(e) \/ v # u)
      <4>1. Holds(f, v)
        BY <3>2, <3>4 DEF Holds
      <4>2. RunOf(f) \in Runs
        BY <1>0, <4>1, WorkerOfRun DEF Holds, Claimed
      <4>3. ~(RunOf(f) = RunOf(e) /\ v = u)
        BY <3>1, <3>2, <4>1, NobodyHolds
      <4> QED
        BY <4>1, <4>2, <4>3
    <3>5. ASSUME NEW f \in Executions, NEW v \in Uris, Holds(f, v)'
          PROVE  /\ worker'[f][v].token = item'[RunOf(f)][v].attempt
                 /\ item'[RunOf(f)][v].status = "running"
                 /\ item'[RunOf(f)][v].left = worker'[f][v].left
                 /\ run[RunOf(f)].status = "running"
                 /\ run[RunOf(f)].owner = f
      <4>1. CASE f = e /\ v = u
        BY <3>2, <3>3, <4>1 DEF HasCoordinatorLease
      <4>2. CASE f # e \/ v # u
        BY <1>0, <3>2, <3>4, <3>5, <4>2 DEF CachedLeases, ItemOf
      <4> QED
        BY <4>1, <4>2
    <3> QED
      BY <3>2, <3>5 DEF CachedLeases, RunOf, ItemOf
  <2>4. CASE FailExhaustedItem(e, u) \/ CompleteSyncItem(e, u)
    <3>1. RunOf(e) \in Runs
      BY <1>0, <2>4, WorkerOfRun
         DEF FailExhaustedItem, CompleteSyncItem, Claimable, MayClaim
    <3>2. Closes(e, u)
      BY <1>0, <2>4, <3>1, ExhaustFacts, CompleteFacts
    <3>3. ASSUME NEW f \in Executions, NEW v \in Uris, Holds(f, v)'
          PROVE  (f # e \/ v # u) /\ Holds(f, v) /\ RunOf(f) \in Runs
      <4>1. (f # e \/ v # u) /\ Holds(f, v)
        BY <3>2, <3>3 DEF Closes, Holds, Claimed
      <4> QED
        BY <1>0, <4>1, WorkerOfRun DEF Holds, Claimed
    <3>4. ASSUME NEW f \in Executions, NEW v \in Uris, Holds(f, v), f # e \/ v # u,
                 RunOf(f) = RunOf(e), v = u
          PROVE  FALSE
      <4>1. worker[f][u].token = item[RunOf(e)][u].attempt
        BY <1>0, <3>4 DEF CachedLeases, ItemOf
      <4>2. CASE FailExhaustedItem(e, u)
        BY <1>0, <3>1, <3>4, <4>2, ExhaustFacts, NobodyHolds
      <4>3. CASE CompleteSyncItem(e, u)
        <5>1. worker[e][u].pc = "settled" /\ worker[e][u].token = item[RunOf(e)][u].attempt
          BY <1>0, <3>1, <4>3, CompleteFacts, CompleterOwnsItem
        <5> QED
          BY <1>0, <3>4, <4>1, <5>1 DEF TokensOfThreads, Holds, Claimed
      <4> QED
        BY <2>4, <4>2, <4>3
    <3>5. ASSUME NEW f \in Executions, NEW v \in Uris, Holds(f, v)'
          PROVE  /\ worker'[f][v] = worker[f][v]
                 /\ item'[RunOf(f)][v] = item[RunOf(f)][v]
      <4>1. (f # e \/ v # u) /\ Holds(f, v) /\ RunOf(f) \in Runs
        BY <3>3, <3>5
      <4>2. RunOf(f) # RunOf(e) \/ v # u
        BY <3>4, <4>1
      <4> QED
        BY <3>2, <4>1, <4>2 DEF Closes
    <3>6. exec' = exec /\ run' = run
      BY <3>2 DEF Closes
    <3> QED
      BY <1>0, <3>3, <3>5, <3>6 DEF CachedLeases, RunOf, ItemOf
  <2> QED
    BY <1>0, <1>4, <2>1, <2>2, <2>3, <2>4, WorkKinds
<1>5. CASE Tick
  <2>1. ASSUME NEW e \in Executions, NEW u \in Uris, Holds(e, u)'
        PROVE  Holds(e, u) /\ RunOf(e) \in Runs
    <3>1. worker'[e][u].pc = worker[e][u].pc /\ worker'[e][u].left = Aged(worker[e][u].left)
      BY <1>0, <1>5, TickFields
    <3>2. Holds(e, u)
      BY <2>1, <3>1 DEF Holds, Aged
    <3> QED
      BY <1>0, <3>2, WorkerOfRun DEF Holds, Claimed
  <2>2. exec' = exec
    BY <1>5 DEF Tick
  <2>3. ASSUME NEW e \in Executions, NEW u \in Uris, Holds(e, u), RunOf(e) \in Runs
        PROVE  /\ worker'[e][u].token = item'[RunOf(e)][u].attempt
               /\ item'[RunOf(e)][u].status = "running"
               /\ item'[RunOf(e)][u].left = worker'[e][u].left
               /\ run'[RunOf(e)].status = "running"
               /\ run'[RunOf(e)].owner = e
    BY <1>0, <1>5, <2>3, TickFields DEF CachedLeases, ItemOf
  <2> QED
    BY <2>1, <2>2, <2>3 DEF CachedLeases, RunOf, ItemOf
<1>6. CASE Aside
  BY <1>0, <1>6 DEF Aside, CachedLeases, Holds, RunOf, ItemOf
<1> QED
  BY <1>0, <1>1, <1>2, <1>3, <1>4, <1>5, <1>6, StepKinds

LEMMA LeaseInit == Init => LeaseInv
<1> SUFFICES ASSUME Init PROVE LeaseInv
  OBVIOUS
<1>1. TypeOK
  BY TypeInit
<1>2. \A e \in Executions, u \in Uris : worker[e][u].pc = "absent"
  BY DEF Init, NoThread
<1>3. \A r \in Runs, u \in Uris : item[r][u].status = "queued"
        /\ item[r][u].attempt = 0 /\ item[r][u].left = 0
  BY DEF Init
<1> QED
  BY <1>1, <1>2, <1>3, Bounds
     DEF LeaseInv, ThreadsBelongToWork, RowsWellFormed, TokensOfThreads, CachedLeases,
         Holds, Claimed

LEMMA LeaseStep == LeaseInv /\ [Next]_vars => LeaseInv'
BY TypeStep, ThreadsBelongStep, RowsStep, TokensStep, CachedLeasesStep DEF LeaseInv

\* The lease invariant is inductive.
THEOREM LeaseInvariant == Spec => []LeaseInv
BY LeaseInit, LeaseStep, PTL DEF Spec

\* Every reachable state is well typed.
THEOREM TypeCorrect == Spec => []TypeOK
<1>1. LeaseInv => TypeOK
  BY DEF LeaseInv
<1> QED
  BY <1>1, LeaseInvariant, PTL

LEMMA LeaseInvExcludes == LeaseInv => LeaseExclusion
<1> SUFFICES ASSUME LeaseInv, NEW e \in Executions, NEW u \in Uris, Holds(e, u)
             PROVE  /\ run[RunOf(e)].status = "running" /\ run[RunOf(e)].owner = e
                    /\ \A f \in Executions \ {e} : RunOf(f) = RunOf(e) => ~Holds(f, u)
  BY DEF LeaseExclusion
<1> QED
  BY DEF LeaseInv, CachedLeases

\* However executions crash, stall and replace each other, at most one of
\* them acts for an item under a lease that lasts.
THEOREM LeasesExclude == Spec => []LeaseExclusion
BY LeaseInvExcludes, LeaseInvariant, PTL

---------------------------------------------------------------------------
(* Claims find open items *)

Unleased(r, u) == ~(item[r][u].status = "running" /\ item[r][u].left > 0)

\* Between the claim of a run and the selection of its items, while the
\* coordinator's lease lasts, no thread holds or decides any of them.
SelectionsUnleased ==
  \A e \in Executions :
    exec[e].pc = "claimed" /\ HasCoordinatorLease(e) =>
      \A u \in Requested[RunOf(e)] : Unleased(RunOf(e), u)

ClaimsInv == LeaseInv /\ SelectionsUnleased /\ ClaimsFindOpenItems

LEMMA WorkingExecution ==
  ASSUME TypeOK, ThreadsBelongToWork, NEW e \in Executions, NEW u \in Uris,
         worker[e][u].pc \in {"submitted", "claiming"} \/ exec[e].pc = "claimed"
  PROVE  RunOf(e) \in Runs
BY DEF TypeOK, ThreadsBelongToWork, RunOf

\* Nobody but the coordinator writes an item that is not leased.
LEMMA OnlyCoordinatorWrites ==
  ASSUME LeaseInv, NEW e \in Executions, NEW f \in Executions, NEW u \in Uris,
         RunOf(f) \in Runs, RunOf(e) = RunOf(f), HasCoordinatorLease(e),
         Unleased(RunOf(e), u),
         ClaimSyncItem(f, u) \/ FailExhaustedItem(f, u) \/ CompleteSyncItem(f, u)
  PROVE  f = e
<1>1. CASE ClaimSyncItem(f, u) \/ FailExhaustedItem(f, u)
  <2>1. HasCoordinatorLease(f)
    BY <1>1 DEF ClaimSyncItem, FailExhaustedItem, Claimable
  <2> QED
    BY <2>1 DEF HasCoordinatorLease
<1>2. CASE CompleteSyncItem(f, u)
  <2>1. MayComplete(f, u) /\ worker[f][u].pc = "settled"
    BY <1>2 DEF CompleteSyncItem
  <2>2. ~HasItemLease(f, u)
    BY DEF HasItemLease, ItemOf, Unleased
  <2>3. Holds(f, u)
    BY <2>1, <2>2 DEF MayComplete, Holds, Claimed
  <2>4. run[RunOf(f)].owner = f
    BY <2>3 DEF LeaseInv, CachedLeases
  <2> QED
    BY <2>4 DEF HasCoordinatorLease
<1> QED
  BY <1>1, <1>2

LEMMA ClaimsStep == ClaimsInv /\ [Next]_vars => SelectionsUnleased' /\ ClaimsFindOpenItems'
<1> SUFFICES ASSUME ClaimsInv, [Next]_vars
             PROVE  SelectionsUnleased' /\ ClaimsFindOpenItems'
  OBVIOUS
<1>0. LeaseInv /\ TypeOK /\ ThreadsBelongToWork
  BY DEF ClaimsInv, LeaseInv
<1>a. ASSUME NEW e \in Executions, exec[e].pc = "claimed", HasCoordinatorLease(e)
      PROVE  \A u \in Requested[RunOf(e)] : Unleased(RunOf(e), u)
  BY <1>a DEF ClaimsInv, SelectionsUnleased
<1>b. ASSUME NEW e \in Executions, NEW u \in Uris, HasCoordinatorLease(e),
             worker[e][u].pc \in {"submitted", "claiming"}
      PROVE  item[RunOf(e)][u].status \notin ItemTerminal /\ Unleased(RunOf(e), u)
  BY <1>b DEF ClaimsInv, ClaimsFindOpenItems, ItemOf, Unleased
\* The two halves, as the steps below establish them for each execution.
<1>c. ASSUME \A e \in Executions : HasCoordinatorLease(e)' =>
               /\ exec'[e].pc = "claimed" =>
                    \A u \in Requested[RunOf(e)'] : Unleased(RunOf(e), u)'
               /\ \A u \in Uris : worker'[e][u].pc \in {"submitted", "claiming"} =>
                    ItemOf(e, u)'.status \notin ItemTerminal /\ Unleased(RunOf(e), u)'
      PROVE  SelectionsUnleased' /\ ClaimsFindOpenItems'
  BY <1>c DEF SelectionsUnleased, ClaimsFindOpenItems, Unleased, ItemOf
<1>1. ASSUME NEW f \in Executions, NEW r \in Runs, ClaimCoordinator(f, r)
      PROVE  SelectionsUnleased' /\ ClaimsFindOpenItems'
  <2>1. /\ UNCHANGED <<item, worker>> /\ NoActiveItem(r)
        /\ run'[r].owner = f /\ \A q \in Runs : q # r => run'[q] = run[q]
        /\ exec'[f].pc = "claimed" /\ exec'[f].run = r
        /\ \A e \in Executions : e # f => exec'[e] = exec[e]
        /\ \A u \in Uris : worker[f][u].pc = "absent"
    BY <1>0, <1>1, ClaimCoordinatorFacts
  <2>2. \A u \in Requested[r] : Unleased(r, u)
    BY <2>1 DEF NoActiveItem, Unleased
  <2>3. ASSUME NEW e \in Executions, e # f, RunOf(e) \in Runs, HasCoordinatorLease(e)'
        PROVE  HasCoordinatorLease(e)
    <3>1. RunOf(e)' = RunOf(e) /\ RunOf(e) # r
      BY <2>1, <2>3 DEF RunOf, HasCoordinatorLease
    <3>2. run'[RunOf(e)] = run[RunOf(e)]
      BY <2>1, <2>3, <3>1
    <3> QED
      BY <2>3, <3>1, <3>2 DEF HasCoordinatorLease
  <2>4. ASSUME NEW e \in Executions, e # f, HasCoordinatorLease(e)',
               exec'[e].pc = "claimed"
        PROVE  \A u \in Requested[RunOf(e)'] : Unleased(RunOf(e), u)'
    <3>1. exec[e].pc = "claimed" /\ RunOf(e)' = RunOf(e)
      BY <2>1, <2>4 DEF RunOf
    <3>2. RunOf(e) \in Runs
      BY <1>0, <3>1 DEF TypeOK, RunOf
    <3> QED
      BY <1>a, <2>1, <2>3, <2>4, <3>1, <3>2 DEF Unleased
  <2>5. ASSUME NEW e \in Executions, e # f, HasCoordinatorLease(e)', NEW u \in Uris,
               worker'[e][u].pc \in {"submitted", "claiming"}
        PROVE  ItemOf(e, u)'.status \notin ItemTerminal /\ Unleased(RunOf(e), u)'
    <3>1. worker[e][u].pc \in {"submitted", "claiming"} /\ RunOf(e)' = RunOf(e)
      BY <2>1, <2>5 DEF RunOf
    <3>2. RunOf(e) \in Runs
      BY <1>0, <3>1, WorkingExecution
    <3> QED
      BY <1>b, <2>1, <2>3, <2>5, <3>1, <3>2 DEF Unleased, ItemOf
  <2>6. RunOf(f)' = r
    BY <2>1 DEF RunOf
  <2>7. \A u \in Requested[RunOf(f)'] : Unleased(RunOf(f), u)'
    BY <2>1, <2>2, <2>6 DEF Unleased
  <2>8. \A u \in Uris : worker'[f][u].pc = "absent"
    BY <2>1
  <2> QED
    BY <1>c, <2>4, <2>5, <2>7, <2>8
<1>2. ASSUME NEW f \in Executions, SubmitItems(f)
      PROVE  SelectionsUnleased' /\ ClaimsFindOpenItems'
  <2>1. /\ UNCHANGED <<run, item>>
        /\ exec[f].pc = "claimed" /\ exec'[f].pc = "working" /\ exec'[f].run = exec[f].run
        /\ \A e \in Executions : e # f => exec'[e] = exec[e] /\ worker'[e] = worker[e]
        /\ \A u \in Uris :
             \/ /\ worker'[f][u].pc = "submitted" /\ u \in Requested[RunOf(f)]
                /\ item[RunOf(f)][u].status \notin ItemTerminal
             \/ worker'[f][u].pc = "absent"
    BY <1>0, <1>2, SubmitFacts
  <2>2. \A e \in Executions : RunOf(e)' = RunOf(e)
    BY <2>1 DEF RunOf
  <2>3. \A e \in Executions : HasCoordinatorLease(e)' => HasCoordinatorLease(e)
    BY <2>1, <2>2 DEF HasCoordinatorLease
  <2>4. ASSUME NEW e \in Executions, HasCoordinatorLease(e)', exec'[e].pc = "claimed"
        PROVE  \A u \in Requested[RunOf(e)'] : Unleased(RunOf(e), u)'
    <3>1. exec[e].pc = "claimed"
      BY <2>1, <2>4
    <3> QED
      BY <1>a, <2>1, <2>2, <2>3, <2>4, <3>1 DEF Unleased
  <2>5. ASSUME NEW e \in Executions, HasCoordinatorLease(e)', NEW u \in Uris,
               worker'[e][u].pc \in {"submitted", "claiming"}
        PROVE  item[RunOf(e)][u].status \notin ItemTerminal /\ Unleased(RunOf(e), u)
    <3>1. CASE e = f
      BY <1>a, <2>1, <2>3, <2>5, <3>1
    <3>2. CASE e # f
      BY <1>b, <2>1, <2>3, <2>5, <3>2
    <3> QED
      BY <3>1, <3>2
  <2> QED
    BY <1>c, <2>1, <2>2, <2>4, <2>5 DEF Unleased, ItemOf
<1>3. ASSUME NEW f \in Executions, FinalizeSyncRun(f) \/ AbandonRun(f) \/ Crash(f)
      PROVE  SelectionsUnleased' /\ ClaimsFindOpenItems'
  <2>1. Leave(f)
    BY <1>0, <1>3, LeaveStep
  <2>2. ASSUME NEW e \in Executions, e # f, RunOf(e) \in Runs, HasCoordinatorLease(e)'
        PROVE  HasCoordinatorLease(e)
    <3>1. RunOf(e)' = RunOf(e)
      BY <2>1, <2>2 DEF Leave, RunOf
    <3>2. CASE run' = run
      BY <2>2, <3>1, <3>2 DEF HasCoordinatorLease
    <3>3. CASE FinalizeSyncRun(f)
      <4>1. \A q \in Runs : q # RunOf(f) => run'[q] = run[q]
        BY <1>0, <3>3 DEF FinalizeSyncRun, TypeOK
      <4>2. CASE RunOf(e) = RunOf(f)
        <5>1. run'[RunOf(f)].status \in RunTerminal
          BY <1>0, <2>2, <3>3, <4>2 DEF FinalizeSyncRun, TypeOK, RunTerminal
        <5> QED
          BY <2>2, <3>1, <4>2, <5>1 DEF HasCoordinatorLease, RunTerminal
      <4> QED
        BY <2>2, <3>1, <4>1, <4>2 DEF HasCoordinatorLease
    <3> QED
      BY <1>3, <3>2, <3>3 DEF AbandonRun, Crash, rows
  <2>3. ASSUME NEW e \in Executions, HasCoordinatorLease(e)', exec'[e].pc = "claimed"
        PROVE  \A u \in Requested[RunOf(e)'] : Unleased(RunOf(e), u)'
    <3>1. e # f /\ exec[e].pc = "claimed" /\ RunOf(e)' = RunOf(e) /\ item' = item
      BY <2>1, <2>3 DEF Leave, RunOf
    <3>2. RunOf(e) \in Runs
      BY <1>0, <3>1 DEF TypeOK, RunOf
    <3> QED
      BY <1>a, <2>2, <2>3, <3>1, <3>2 DEF Unleased
  <2>4. ASSUME NEW e \in Executions, HasCoordinatorLease(e)', NEW u \in Uris,
               worker'[e][u].pc \in {"submitted", "claiming"}
        PROVE  ItemOf(e, u)'.status \notin ItemTerminal /\ Unleased(RunOf(e), u)'
    <3>1. /\ e # f /\ worker[e][u].pc \in {"submitted", "claiming"}
          /\ RunOf(e)' = RunOf(e) /\ item' = item
      BY <2>1, <2>4 DEF Leave, RunOf
    <3>2. RunOf(e) \in Runs
      BY <1>0, <3>1, WorkingExecution
    <3> QED
      BY <1>b, <2>2, <2>4, <3>1, <3>2 DEF Unleased, ItemOf
  <2> QED
    BY <1>c, <2>3, <2>4
<1>4. ASSUME NEW f \in Executions, NEW v \in Uris, Work(f, v)
      PROVE  SelectionsUnleased' /\ ClaimsFindOpenItems'
  <2>1. CASE Retire(f, v) \/ Advance(f, v)
    <3>1. /\ UNCHANGED <<run, item, exec>>
          /\ \A e \in Executions, u \in Uris :
               worker'[e][u].pc \in {"submitted", "claiming"} => worker'[e][u] = worker[e][u]
      BY <2>1 DEF Retire, Advance, OnlyThread, Claimed
    <3> QED
      BY <1>a, <1>b, <1>c, <3>1 DEF RunOf, ItemOf, HasCoordinatorLease, Unleased
  <2>2. CASE \/ ClaimSyncItem(f, v) \/ FailExhaustedItem(f, v) \/ CompleteSyncItem(f, v)
    <3>1. RunOf(f) \in Runs /\ worker[f][v].pc # "absent"
      BY <1>0, <2>2, WorkerOfRun
         DEF ClaimSyncItem, FailExhaustedItem, CompleteSyncItem, Claimable, MayClaim
    <3>2. /\ UNCHANGED <<run, exec>>
          /\ \A r \in Runs, u \in Uris : r # RunOf(f) \/ u # v => item'[r][u] = item[r][u]
          /\ \A e \in Executions, u \in Uris : e # f \/ u # v => worker'[e][u] = worker[e][u]
      BY <1>0, <2>2, <3>1, ClaimFacts, ExhaustFacts, CompleteFacts DEF Closes
    <3>3. \/ worker'[f][v].pc \notin {"submitted", "claiming"}
          \/ item'[RunOf(f)][v].status = "queued"
      BY <1>0, <2>2, <3>1, ClaimFacts, ExhaustFacts, CompleteFacts DEF Closes
    <3>4. \A e \in Executions : RunOf(e)' = RunOf(e)
              /\ (HasCoordinatorLease(e)' <=> HasCoordinatorLease(e))
      BY <3>2 DEF RunOf, HasCoordinatorLease
    <3>5. exec[f].pc = "working"
      BY <1>0, <3>1 DEF ThreadsBelongToWork
    <3>6. ASSUME NEW e \in Executions, HasCoordinatorLease(e), exec[e].pc = "claimed",
                 NEW u \in Requested[RunOf(e)]
          PROVE  Unleased(RunOf(e), u)'
      <4>1. RunOf(e) \in Runs /\ Unleased(RunOf(e), u) /\ e # f
        BY <1>0, <1>a, <3>5, <3>6 DEF TypeOK, RunOf
      <4>2. u \in Uris
        BY <4>1, SyncAssumption
      <4>3. ~(RunOf(e) = RunOf(f) /\ u = v)
        BY <1>0, <2>2, <3>1, <3>6, <4>1, OnlyCoordinatorWrites
      <4> QED
        BY <3>2, <3>4, <4>1, <4>2, <4>3 DEF Unleased
    <3>7. ASSUME NEW e \in Executions, HasCoordinatorLease(e), NEW u \in Uris,
                 worker'[e][u].pc \in {"submitted", "claiming"}
          PROVE  ItemOf(e, u)'.status \notin ItemTerminal /\ Unleased(RunOf(e), u)'
      <4>1. CASE e = f /\ u = v
        <5>1. item'[RunOf(f)][v].status = "queued"
          BY <3>3, <3>7, <4>1
        <5> QED
          BY <3>4, <4>1, <5>1 DEF ItemOf, Unleased, ItemTerminal
      <4>2. CASE e # f \/ u # v
        <5>1. worker[e][u].pc \in {"submitted", "claiming"}
          BY <3>2, <3>7, <4>2
        <5>2. /\ item[RunOf(e)][u].status \notin ItemTerminal /\ Unleased(RunOf(e), u)
              /\ RunOf(e) \in Runs
          BY <1>0, <1>b, <3>7, <5>1, WorkingExecution
        <5>3. ~(RunOf(e) = RunOf(f) /\ u = v)
          BY <1>0, <2>2, <3>1, <3>7, <4>2, <5>2, OnlyCoordinatorWrites
        <5> QED
          BY <3>2, <3>4, <5>2, <5>3 DEF Unleased, ItemOf
      <4> QED
        BY <4>1, <4>2
    <3> QED
      BY <1>c, <3>2, <3>4, <3>6, <3>7
  <2> QED
    BY <1>0, <1>4, <2>1, <2>2, WorkKinds
<1>5. CASE Tick
  <2>1. exec' = exec /\ \A e \in Executions : RunOf(e)' = RunOf(e)
    BY <1>5 DEF Tick, RunOf
  <2>2. ASSUME NEW e \in Executions, RunOf(e) \in Runs, HasCoordinatorLease(e)'
        PROVE  HasCoordinatorLease(e)
    BY <1>0, <1>5, <2>1, <2>2, TickFields DEF HasCoordinatorLease, Aged
  <2>3. ASSUME NEW r \in Runs, NEW u \in Uris, Unleased(r, u)
        PROVE  Unleased(r, u)'
    BY <1>0, <1>5, <2>3, TickFields DEF Unleased, Aged
  <2>4. ASSUME NEW e \in Executions, HasCoordinatorLease(e)', exec'[e].pc = "claimed"
        PROVE  \A u \in Requested[RunOf(e)'] : Unleased(RunOf(e), u)'
    <3>1. exec[e].pc = "claimed" /\ RunOf(e) \in Runs
      BY <1>0, <2>1, <2>4 DEF TypeOK, RunOf
    <3>2. \A u \in Requested[RunOf(e)] : u \in Uris
      BY <3>1, SyncAssumption
    <3>3. HasCoordinatorLease(e)
      BY <2>2, <2>4, <3>1
    <3> QED
      BY <1>a, <2>1, <2>3, <3>1, <3>2, <3>3 DEF Unleased
  <2>5. ASSUME NEW e \in Executions, HasCoordinatorLease(e)', NEW u \in Uris,
               worker'[e][u].pc \in {"submitted", "claiming"}
        PROVE  ItemOf(e, u)'.status \notin ItemTerminal /\ Unleased(RunOf(e), u)'
    <3>1. worker[e][u].pc \in {"submitted", "claiming"}
      BY <1>0, <1>5, <2>5, TickFields
    <3>2. RunOf(e) \in Runs
      BY <1>0, <3>1, WorkingExecution
    <3>3. item[RunOf(e)][u].status \notin ItemTerminal /\ Unleased(RunOf(e), u)
      BY <1>b, <2>2, <2>5, <3>1, <3>2
    <3>4. item'[RunOf(e)][u].status = item[RunOf(e)][u].status
      BY <1>0, <1>5, <3>2, TickFields
    <3> QED
      BY <2>1, <2>3, <3>2, <3>3, <3>4 DEF Unleased, ItemOf
  <2> QED
    BY <1>c, <2>4, <2>5
<1>6. CASE Aside
  BY <1>a, <1>b, <1>c, <1>6 DEF Aside, RunOf, ItemOf, HasCoordinatorLease, Unleased
<1> QED
  BY <1>1, <1>2, <1>3, <1>4, <1>5, <1>6, StepKinds

LEMMA ClaimsInit == Init => ClaimsInv
BY LeaseInit
   DEF Init, ClaimsInv, SelectionsUnleased, ClaimsFindOpenItems, NoThread

\* The branch of _claim_sync_item for decided or leased items is never taken.
THEOREM ClaimsAreOpen == Spec => []ClaimsFindOpenItems
<1>1. ClaimsInv /\ [Next]_vars => ClaimsInv'
  BY ClaimsStep, LeaseStep DEF ClaimsInv
<1>2. ClaimsInv => ClaimsFindOpenItems
  BY DEF ClaimsInv
<1> QED
  BY <1>1, <1>2, ClaimsInit, PTL DEF Spec

---------------------------------------------------------------------------
(* The lock invariant *)

\* Who reads a resource holds its lock, the checkpoint is still the one it
\* has seen, and the version it has read is not older than the checkpoint.
ThreadLocks(e, u) ==
  LET w == worker[e][u] IN
  /\ w.pc \in Locking => lock[u] = e /\ w.base = checkpoint[u]
  /\ w.pc = "read" =>
       w.read # -1 /\ checkpoint[u] <= w.read /\ w.read <= remote[u]

IntakeLocks(u) ==
  LET m == manual[u] IN
  /\ m.pc \in Locking => lock[u] = Manual /\ m.base = checkpoint[u]
  /\ m.pc = "read" =>
       m.read # -1 /\ checkpoint[u] <= m.read /\ m.read <= remote[u]

LocksProtectCheckpoints ==
  /\ \A e \in Executions, u \in Uris : ThreadLocks(e, u)
  /\ \A u \in Uris : IntakeLocks(u)
  /\ \A u \in Uris : checkpoint[u] <= remote[u]

LockInv == TypeOK /\ LocksProtectCheckpoints /\ NoDuplicateIntake

\* Steps that take no lock and no text: locks are at most released by their
\* holders, and whoever is reading was already reading.
QuietThreads ==
  \A f \in Executions, v \in Uris :
    worker'[f][v].pc \in Locking =>
      /\ worker'[f][v].pc = worker[f][v].pc
      /\ worker'[f][v].base = worker[f][v].base
      /\ worker'[f][v].read = worker[f][v].read
      /\ lock[v] = f => lock'[v] = f

Quiet ==
  /\ UNCHANGED <<checkpoint, created, remote, manual>>
  /\ QuietThreads
  /\ \A v \in Uris : lock[v] = Manual => lock'[v] = Manual

LEMMA QuietStep == ASSUME LockInv, Quiet PROVE LocksProtectCheckpoints' /\ NoDuplicateIntake'
<1>1. NoDuplicateIntake'
  BY DEF LockInv, Quiet, NoDuplicateIntake
<1>2. \A u \in Uris : IntakeLocks(u)'
  BY DEF LockInv, Quiet, LocksProtectCheckpoints, IntakeLocks
<1>3. \A u \in Uris : checkpoint'[u] <= remote'[u]
  BY DEF LockInv, Quiet, LocksProtectCheckpoints
<1>4. \A e \in Executions, u \in Uris : ThreadLocks(e, u)'
  BY DEF LockInv, Quiet, QuietThreads, LocksProtectCheckpoints, ThreadLocks, Locking
<1> QED
  BY <1>1, <1>2, <1>3, <1>4 DEF LocksProtectCheckpoints

\* A thread that settles, or ends, releases what it holds.
LEMMA QuietThread ==
  ASSUME TypeOK, NEW e \in Executions, NEW u \in Uris, NEW t,
         t.pc \notin Locking, SetThread(e, u, t),
         \A v \in Uris : v # u => lock'[v] = lock[v],
         lock'[u] = lock[u] \/ lock[u] = e,
         UNCHANGED <<checkpoint, created, remote, manual>>
  PROVE  Quiet
<1>1. /\ worker'[e][u] = t
      /\ \A f \in Executions, v \in Uris : f # e \/ v # u => worker'[f][v] = worker[f][v]
  BY ThreadSet
<1>2. e # Manual
  BY SyncAssumption
<1> QED
  BY <1>1, <1>2 DEF Quiet, QuietThreads

LEMMA SettledThread ==
  ASSUME TypeOK, NEW e \in Executions, NEW u \in Uris, NEW o
  PROVE  [worker[e][u] EXCEPT !.pc = "settled", !.outcome = o, !.base = -1, !.read = -1].pc
           \notin Locking
BY DEF TypeOK, Thread, Locking

LEMMA QuietWork ==
  ASSUME LockInv, NEW e \in Executions, NEW u \in Uris, Work(e, u),
         ~LockCheckpoint(e, u), ~ReadResource(e, u), ~CommitIntake(e, u)
  PROVE  Quiet
<1>0. TypeOK /\ (worker[e][u].pc = "read" => lock[u] = e)
  BY DEF LockInv, LocksProtectCheckpoints, ThreadLocks, Locking
<1>1. \A pc \in {"raised", "done", "claiming"} : At(pc).pc \notin Locking
  BY DEF At, NoThread, Locking
<1>2. CASE \/ ClaimRaises(e, u) \/ FailExhaustedItem(e, u)
           \/ CompleteSyncItem(e, u) \/ CompletionRefused(e, u) \/ ThreadRaises(e, u)
  <2>1. PICK pc \in {"raised", "done", "claiming"} : SetThread(e, u, At(pc))
    BY <1>2 DEF ClaimRaises, FailExhaustedItem, CompleteSyncItem,
                CompletionRefused, ThreadRaises
  <2>2. UNCHANGED <<checkpoint, created, remote, manual, lock>>
    BY <1>2 DEF ClaimRaises, FailExhaustedItem, CompleteSyncItem,
                CompletionRefused, ThreadRaises, content
  <2> QED
    BY <1>0, <1>1, <2>1, <2>2, QuietThread
<1>3. CASE ClaimSyncItem(e, u)
  <2> DEFINE k == ItemOf(e, u).attempt + 1
             t == [At("claimed") EXCEPT !.token = k, !.left = ItemLease]
  <2>1. t.pc \notin Locking
    BY DEF At, NoThread, Locking
  <2>2. SetThread(e, u, t) /\ UNCHANGED <<checkpoint, created, remote, manual, lock>>
    BY <1>3 DEF ClaimSyncItem, content
  <2> QED
    BY <1>0, <2>1, <2>2, QuietThread
<1>4. CASE CheckConnection(e, u)
  <2>1. PICK t : SetThread(e, u, t) /\ t.pc \notin Locking
    <3>1. [worker[e][u] EXCEPT !.pc = "waiting"].pc \notin Locking
      BY <1>0 DEF TypeOK, Thread, Locking
    <3> QED
      BY <1>0, <1>4, <3>1, SettledThread DEF CheckConnection, Settle
  <2>2. UNCHANGED <<checkpoint, created, remote, manual, lock>>
    BY <1>4 DEF CheckConnection, content
  <2> QED
    BY <1>0, <2>1, <2>2, QuietThread
<1>5. CASE ConnectorError(e, u) \/ RejectIntake(e, u) \/ LoseAuthority(e, u)
  <2>1. PICK o : Settle(e, u, o)
    BY <1>5 DEF ConnectorError, RejectIntake, LoseAuthority
  <2>2. UNCHANGED <<checkpoint, created, remote, manual>>
    BY <1>5 DEF ConnectorError, RejectIntake, LoseAuthority, content
  <2>3. /\ \A v \in Uris : v # u => lock'[v] = lock[v]
        /\ lock'[u] = lock[u] \/ lock[u] = e
    BY <1>0, <1>5 DEF ConnectorError, RejectIntake, LoseAuthority, TypeOK
  <2> QED
    BY <1>0, <2>1, <2>2, <2>3, SettledThread, QuietThread DEF Settle
<1> QED
  BY <1>2, <1>3, <1>4, <1>5 DEF Work, Claim

LEMMA QuietCoordinator ==
  ASSUME LockInv, NEW e \in Executions, Coordinate(e) \/ Crash(e)
  PROVE  Quiet
<1>0. TypeOK
  BY DEF LockInv
<1>1. UNCHANGED <<checkpoint, created, remote, manual>>
  BY DEF Coordinate, Crash, ClaimCoordinator, SubmitItems, FinalizeSyncRun,
         AbandonRun, content
<1>2. ASSUME NEW f \in Executions, NEW v \in Uris, worker'[f][v].pc \in Locking
      PROVE  worker'[f][v] = worker[f][v] /\ (Crash(e) => f # e)
  <2>1. CASE \E r \in Runs : ClaimCoordinator(e, r)
    BY <2>1 DEF ClaimCoordinator, Crash
  <2>2. CASE SubmitItems(e)
    BY <1>0, <1>2, <2>2, SubmitFacts DEF Locking, Crash, EndExecution, TypeOK
  <2>3. CASE FinalizeSyncRun(e) \/ AbandonRun(e) \/ Crash(e)
    BY <1>0, <1>2, <2>3, LeaveStep DEF Leave, Locking
  <2> QED
    BY <2>1, <2>2, <2>3 DEF Coordinate
<1>3. \A v \in Uris : lock'[v] = lock[v] \/ (Crash(e) /\ lock[v] = e)
  BY <1>0 DEF Coordinate, Crash, ClaimCoordinator, SubmitItems, FinalizeSyncRun,
              AbandonRun, TypeOK
<1>4. e # Manual
  BY SyncAssumption
<1> QED
  BY <1>1, <1>2, <1>3, <1>4 DEF Quiet, QuietThreads

\* An intake stages a text only if it is newer than the one staged last.
LEMMA StageFacts ==
  ASSUME LockInv, NEW u \in Uris, NEW v \in Versions, Stage(u, checkpoint[u], v),
         checkpoint[u] <= v, v <= remote[u], remote' = remote
  PROVE  /\ NoDuplicateIntake'
         /\ checkpoint[u] <= checkpoint'[u]
         /\ checkpoint'[u] <= remote'[u]
         /\ \A x \in Uris : x # u => checkpoint'[x] = checkpoint[x]
<1>0. TypeOK /\ NoDuplicateIntake /\ checkpoint[u] <= remote[u]
  BY DEF LockInv, LocksProtectCheckpoints
<1>1. /\ checkpoint[u] \in Versions \cup {-1} /\ created[u] \in Nat
      /\ created[u] <= checkpoint[u] + 1
      /\ checkpoint[u] \in Int /\ v \in Nat /\ remote[u] \in Nat
  BY <1>0, Bounds DEF TypeOK, NoDuplicateIntake, Versions
<1>2. CASE SameText(u, checkpoint[u], v)
  BY <1>0, <1>1, <1>2 DEF Stage, content, NoDuplicateIntake
<1>3. CASE ~SameText(u, checkpoint[u], v)
  <2>1. checkpoint' = [checkpoint EXCEPT ![u] = v] /\ created' = [created EXCEPT ![u] = @ + 1]
    BY <1>3 DEF Stage
  <2>2. /\ checkpoint'[u] = v /\ created'[u] = created[u] + 1
        /\ \A x \in Uris : x # u => checkpoint'[x] = checkpoint[x] /\ created'[x] = created[x]
    BY <1>0, <2>1 DEF TypeOK
  <2>3. checkpoint[u] # v
    BY <1>1, <1>3, Bounds DEF SameText
  <2>4. created'[u] <= checkpoint'[u] + 1
    BY <1>1, <2>2, <2>3
  <2> QED
    BY <1>0, <1>1, <2>2, <2>4 DEF NoDuplicateIntake
<1> QED
  BY <1>2, <1>3

LEMMA ReadVersion ==
  ASSUME TypeOK, NEW u \in Uris
  PROVE  /\ \A e \in Executions : worker[e][u].read # -1 => worker[e][u].read \in Versions
         /\ manual[u].read # -1 => manual[u].read \in Versions
<1>1. \A e \in Executions : worker[e][u] \in Thread
  BY DEF TypeOK
<1>2. manual[u] \in Intake
  BY DEF TypeOK
<1> QED
  BY <1>1, <1>2 DEF Thread, Intake

LEMMA LockWork ==
  ASSUME LockInv, NEW e \in Executions, NEW u \in Uris,
         LockCheckpoint(e, u) \/ ReadResource(e, u) \/ CommitIntake(e, u)
  PROVE  LocksProtectCheckpoints' /\ NoDuplicateIntake'
<1> DEFINE w == worker[e][u]
<1>0. TypeOK /\ LocksProtectCheckpoints /\ NoDuplicateIntake /\ w \in Thread
        /\ e # Manual /\ e # Nobody
  BY SyncAssumption DEF LockInv, TypeOK
<1>1. CASE LockCheckpoint(e, u)
  <2> DEFINE t == [w EXCEPT !.pc = "reading", !.base = checkpoint[u]]
  <2>1. /\ UNCHANGED <<checkpoint, created, remote, manual>>
        /\ lock[u] = Nobody /\ lock' = [lock EXCEPT ![u] = e] /\ SetThread(e, u, t)
    BY <1>1 DEF LockCheckpoint, LockFree, content
  <2>2. t.pc = "reading" /\ t.base = checkpoint[u]
    BY <1>0 DEF Thread
  <2>3. /\ worker'[e][u] = t
        /\ \A f \in Executions, v \in Uris : f # e \/ v # u => worker'[f][v] = worker[f][v]
    BY <1>0, <2>1, ThreadSet
  <2>4. lock'[u] = e /\ \A v \in Uris : v # u => lock'[v] = lock[v]
    BY <1>0, <2>1 DEF TypeOK
  <2>5. ThreadLocks(e, u)'
    BY <2>1, <2>2, <2>3, <2>4 DEF ThreadLocks
  <2>6. ASSUME NEW f \in Executions, NEW v \in Uris, f # e \/ v # u
        PROVE  ThreadLocks(f, v)'
    <3>1. ThreadLocks(f, v) /\ f # Nobody
      BY <1>0, SyncAssumption DEF LocksProtectCheckpoints
    <3> QED
      BY <2>1, <2>3, <2>4, <2>6, <3>1 DEF ThreadLocks, Locking
  <2>7. ASSUME NEW v \in Uris PROVE IntakeLocks(v)'
    <3>1. IntakeLocks(v) /\ Manual # Nobody
      BY <1>0, SyncAssumption DEF LocksProtectCheckpoints
    <3> QED
      BY <2>1, <2>4, <3>1 DEF IntakeLocks, Locking
  <2> QED
    BY <1>0, <2>1, <2>5, <2>6, <2>7 DEF LocksProtectCheckpoints, NoDuplicateIntake
<1>2. CASE ReadResource(e, u)
  <2> DEFINE t == [w EXCEPT !.pc = "read", !.read = remote[u]]
  <2>1. /\ UNCHANGED <<checkpoint, created, remote, manual, lock>>
        /\ w.pc = "reading" /\ SetThread(e, u, t)
    BY <1>2 DEF ReadResource, content
  <2>2. t.pc = "read" /\ t.base = w.base /\ t.read = remote[u]
    BY <1>0 DEF Thread
  <2>3. /\ worker'[e][u] = t
        /\ \A f \in Executions, v \in Uris : f # e \/ v # u => worker'[f][v] = worker[f][v]
    BY <1>0, <2>1, ThreadSet
  <2>4. ThreadLocks(e, u) /\ remote[u] \in Nat /\ checkpoint[u] <= remote[u]
    BY <1>0, Bounds DEF LocksProtectCheckpoints, TypeOK, Versions
  <2>5. remote[u] # -1 /\ remote[u] <= remote[u]
    BY <2>4
  <2>6. ThreadLocks(e, u)'
    BY <2>1, <2>2, <2>3, <2>4, <2>5 DEF ThreadLocks, Locking
  <2>7. ASSUME NEW f \in Executions, NEW v \in Uris, f # e \/ v # u
        PROVE  ThreadLocks(f, v)'
    BY <1>0, <2>1, <2>3, <2>7 DEF ThreadLocks, LocksProtectCheckpoints
  <2>8. \A v \in Uris : IntakeLocks(v)'
    BY <1>0, <2>1 DEF IntakeLocks, LocksProtectCheckpoints
  <2> QED
    BY <1>0, <2>1, <2>6, <2>7, <2>8 DEF LocksProtectCheckpoints, NoDuplicateIntake
<1>3. CASE CommitIntake(e, u)
  <2>1. /\ UNCHANGED <<remote, manual>> /\ w.pc = "read"
        /\ Stage(u, w.base, w.read) /\ lock' = [lock EXCEPT ![u] = Nobody]
    BY <1>3 DEF CommitIntake
  <2>2. /\ lock[u] = e /\ w.base = checkpoint[u] /\ w.read \in Versions
        /\ checkpoint[u] <= w.read /\ w.read <= remote[u]
    BY <1>0, <2>1, ReadVersion DEF LocksProtectCheckpoints, ThreadLocks, Locking
  <2>3. /\ NoDuplicateIntake' /\ checkpoint'[u] <= remote'[u]
        /\ \A x \in Uris : x # u => checkpoint'[x] = checkpoint[x]
    BY <2>1, <2>2, StageFacts
  <2>4. worker'[e][u].pc \notin Locking
    <3>1. ASSUME NEW o, Settle(e, u, o) PROVE worker'[e][u].pc \notin Locking
      <4> DEFINE t == [w EXCEPT !.pc = "settled", !.outcome = o, !.base = -1, !.read = -1]
      <4>1. t.pc \notin Locking
        BY <1>0, SettledThread
      <4>2. SetThread(e, u, t)
        BY <3>1 DEF Settle
      <4>3. worker'[e][u] = t
        BY <1>0, <4>2, ThreadSet
      <4> QED
        BY <4>1, <4>3
    <3>2. ASSUME NEW v, NEW o, SetThread(e, u, [w EXCEPT !.pc = "settled", !.base = -1,
                                                         !.read = v, !.outcome = o])
          PROVE  worker'[e][u].pc \notin Locking
      <4> DEFINE t == [w EXCEPT !.pc = "settled", !.base = -1, !.read = v, !.outcome = o]
      <4>1. t.pc = "settled"
        BY <1>0 DEF Thread
      <4>2. worker'[e][u] = t
        BY <1>0, <3>2, ThreadSet
      <4> QED
        BY <4>1, <4>2 DEF Locking
    <3> QED
      BY <1>3, <3>1, <3>2 DEF CommitIntake
  <2>5. /\ \A f \in Executions, v \in Uris : f # e \/ v # u => worker'[f][v] = worker[f][v]
        /\ \A v \in Uris : v # u => lock'[v] = lock[v]
    BY <1>0, <1>3, <2>1, ThreadSet DEF CommitIntake, Settle, TypeOK
  <2>6. ASSUME NEW f \in Executions, NEW v \in Uris PROVE ThreadLocks(f, v)'
    <3>1. CASE v = u
      <4>1. worker'[f][u].pc \notin Locking
        BY <1>0, <2>2, <2>4, <2>5 DEF LocksProtectCheckpoints, ThreadLocks
      <4> QED
        BY <3>1, <4>1 DEF ThreadLocks, Locking
    <3>2. CASE v # u
      BY <1>0, <2>1, <2>3, <2>5, <3>2 DEF LocksProtectCheckpoints, ThreadLocks
    <3> QED
      BY <3>1, <3>2
  <2>7. ASSUME NEW v \in Uris PROVE IntakeLocks(v)'
    <3>1. CASE v = u
      <4>1. manual[u].pc \notin Locking
        BY <1>0, <2>2 DEF LocksProtectCheckpoints, IntakeLocks
      <4> QED
        BY <2>1, <3>1, <4>1 DEF IntakeLocks, Locking
    <3>2. CASE v # u
      BY <1>0, <2>1, <2>3, <2>5, <3>2 DEF LocksProtectCheckpoints, IntakeLocks
    <3> QED
      BY <3>1, <3>2
  <2>8. \A v \in Uris : checkpoint'[v] <= remote'[v]
    BY <1>0, <2>1, <2>3 DEF LocksProtectCheckpoints
  <2> QED
    BY <2>3, <2>6, <2>7, <2>8 DEF LocksProtectCheckpoints
<1> QED
  BY <1>1, <1>2, <1>3

LEMMA LockManual ==
  ASSUME LockInv, NEW u \in Uris, IntakeManually(u)
  PROVE  LocksProtectCheckpoints' /\ NoDuplicateIntake'
<1> DEFINE m == manual[u]
<1>0. TypeOK /\ LocksProtectCheckpoints /\ NoDuplicateIntake /\ m \in Intake
        /\ Manual # Nobody
  BY SyncAssumption DEF LockInv, TypeOK
<1>1. worker' = worker /\ remote' = remote
  BY DEF IntakeManually, ManualStart, ManualLock, ManualRead, ManualCommit,
         ManualFail, ManualEnd, threads
<1>2. \A v \in Uris : v # u => manual'[v] = manual[v] /\ lock'[v] = lock[v]
  BY <1>0 DEF IntakeManually, ManualStart, ManualLock, ManualRead, ManualCommit,
         ManualFail, ManualEnd, TypeOK
\* Enough: the rest of u's row, its checkpoint and its other possible readers.
<1>3. ASSUME IntakeLocks(u)', checkpoint'[u] <= remote[u], NoDuplicateIntake',
             \A v \in Uris : v # u => checkpoint'[v] = checkpoint[v],
             \A f \in Executions : worker[f][u].pc \in Locking =>
               lock'[u] = lock[u] /\ checkpoint'[u] = checkpoint[u]
      PROVE  LocksProtectCheckpoints' /\ NoDuplicateIntake'
  <2>1. ASSUME NEW f \in Executions, NEW v \in Uris PROVE ThreadLocks(f, v)'
    BY <1>0, <1>1, <1>2, <1>3 DEF LocksProtectCheckpoints, ThreadLocks, Locking
  <2>2. ASSUME NEW v \in Uris PROVE IntakeLocks(v)'
    BY <1>0, <1>1, <1>2, <1>3 DEF LocksProtectCheckpoints, IntakeLocks
  <2>3. \A v \in Uris : checkpoint'[v] <= remote'[v]
    BY <1>0, <1>1, <1>3 DEF LocksProtectCheckpoints
  <2> QED
    BY <1>3, <2>1, <2>2, <2>3 DEF LocksProtectCheckpoints
<1>4. checkpoint[u] <= remote[u] /\ IntakeLocks(u) /\ remote[u] \in Nat
  BY <1>0, Bounds DEF LocksProtectCheckpoints, TypeOK, Versions
<1>5. CASE ManualStart(u)
  <2>1. manual'[u].pc = "waiting" /\ UNCHANGED <<checkpoint, created, lock>>
    BY <1>0, <1>5 DEF ManualStart, content, TypeOK, Intake
  <2> QED
    BY <1>0, <1>3, <1>4, <2>1 DEF IntakeLocks, Locking, NoDuplicateIntake
<1>6. CASE ManualLock(u)
  <2>1. /\ UNCHANGED <<checkpoint, created>>
        /\ manual'[u].pc = "reading" /\ manual'[u].base = checkpoint[u]
        /\ lock[u] = Nobody /\ lock'[u] = Manual
    BY <1>0, <1>6 DEF ManualLock, LockFree, content, TypeOK
  <2>2. \A f \in Executions : worker[f][u].pc \notin Locking
    BY <1>0, <2>1, SyncAssumption DEF LocksProtectCheckpoints, ThreadLocks
  <2> QED
    BY <1>0, <1>3, <1>4, <2>1, <2>2 DEF IntakeLocks, Locking, NoDuplicateIntake
<1>7. CASE ManualRead(u)
  <2>1. /\ UNCHANGED <<checkpoint, created, lock>> /\ m.pc = "reading"
        /\ manual'[u] = [m EXCEPT !.pc = "read", !.read = remote[u]]
    BY <1>0, <1>7 DEF ManualRead, content, TypeOK
  <2>2. manual'[u].pc = "read" /\ manual'[u].base = m.base /\ manual'[u].read = remote[u]
    BY <1>0, <2>1 DEF Intake
  <2>3. remote[u] # -1 /\ remote[u] <= remote[u]
    BY <1>4
  <2> QED
    BY <1>0, <1>1, <1>3, <1>4, <2>1, <2>2, <2>3 DEF IntakeLocks, Locking, NoDuplicateIntake
<1>8. CASE ManualCommit(u) \/ ManualFail(u)
  <2>1. manual'[u].pc = "idle"
    BY <1>0, <1>8 DEF ManualCommit, ManualFail, ManualEnd, NoIntake, TypeOK
  <2>2. IntakeLocks(u)'
    BY <2>1 DEF IntakeLocks, Locking
  <2>3. \A f \in Executions : worker[f][u].pc \in Locking => lock[u] = f /\ f # Manual
    BY <1>0, SyncAssumption DEF LocksProtectCheckpoints, ThreadLocks
  <2>4. lock' = [lock EXCEPT ![u] = IF @ = Manual THEN Nobody ELSE @]
    BY <1>8 DEF ManualCommit, ManualFail, ManualEnd
  <2>5. \A f \in Executions : worker[f][u].pc \in Locking => lock'[u] = lock[u]
    BY <1>0, <2>3, <2>4 DEF TypeOK
  <2>6. CASE ManualFail(u)
    BY <1>0, <1>3, <1>4, <2>2, <2>5, <2>6 DEF ManualFail, content, NoDuplicateIntake
  <2>7. CASE ManualCommit(u)
    <3>1. /\ m.pc = "read" /\ Stage(u, m.base, m.read)
      BY <2>7 DEF ManualCommit
    <3>2. /\ lock[u] = Manual /\ m.base = checkpoint[u] /\ m.read \in Versions
          /\ checkpoint[u] <= m.read /\ m.read <= remote[u]
      BY <1>0, <1>4, <3>1, ReadVersion DEF IntakeLocks, Locking
    <3>3. /\ NoDuplicateIntake' /\ checkpoint'[u] <= remote'[u]
          /\ \A x \in Uris : x # u => checkpoint'[x] = checkpoint[x]
      BY <1>1, <3>1, <3>2, StageFacts
    <3> QED
      BY <1>1, <1>3, <2>2, <2>3, <3>2, <3>3
  <2> QED
    BY <1>8, <2>6, <2>7
<1> QED
  BY <1>5, <1>6, <1>7, <1>8 DEF IntakeManually

LEMMA LockStep == LockInv /\ [Next]_vars => LocksProtectCheckpoints' /\ NoDuplicateIntake'
<1> SUFFICES ASSUME LockInv, [Next]_vars
             PROVE  LocksProtectCheckpoints' /\ NoDuplicateIntake'
  OBVIOUS
<1>0. TypeOK /\ LocksProtectCheckpoints /\ NoDuplicateIntake
  BY DEF LockInv
<1>1. ASSUME NEW e \in Executions, Coordinate(e) \/ Crash(e)
      PROVE  LocksProtectCheckpoints' /\ NoDuplicateIntake'
  BY <1>1, QuietCoordinator, QuietStep
<1>2. ASSUME NEW e \in Executions, NEW u \in Uris, Work(e, u)
      PROVE  LocksProtectCheckpoints' /\ NoDuplicateIntake'
  BY <1>2, LockWork, QuietWork, QuietStep
<1>3. ASSUME NEW u \in Interactive, IntakeManually(u)
      PROVE  LocksProtectCheckpoints' /\ NoDuplicateIntake'
  BY <1>3, LockManual, SyncAssumption
<1>4. ASSUME NEW u \in Uris, RemoteChange(u)
      PROVE  LocksProtectCheckpoints' /\ NoDuplicateIntake'
  <2>1. UNCHANGED <<checkpoint, created, worker, lock, manual>>
    BY <1>4 DEF RemoteChange, content, threads
  <2>2. remote' = [remote EXCEPT ![u] = @ + 1]
    BY <1>4 DEF RemoteChange
  <2>3. ASSUME NEW v \in Uris, NEW x \in Versions \cup {-1}, x <= remote[v]
        PROVE  x <= remote'[v]
    <3>1. remote[v] \in Nat /\ x \in Int
      BY <1>0, Bounds DEF TypeOK, Versions
    <3>2. remote'[v] = remote[v] \/ remote'[v] = remote[v] + 1
      BY <1>0, <2>2 DEF TypeOK
    <3> QED
      BY <2>3, <3>1, <3>2
  <2>4. ASSUME NEW v \in Uris PROVE checkpoint'[v] <= remote'[v]
    BY <1>0, <2>1, <2>3 DEF LocksProtectCheckpoints, TypeOK
  <2>5. ASSUME NEW v \in Uris PROVE IntakeLocks(v)'
    BY <1>0, <2>1, <2>3, ReadVersion DEF LocksProtectCheckpoints, IntakeLocks
  <2>6. ASSUME NEW e \in Executions, NEW v \in Uris PROVE ThreadLocks(e, v)'
    BY <1>0, <2>1, <2>3, ReadVersion DEF LocksProtectCheckpoints, ThreadLocks
  <2> QED
    BY <1>0, <2>1, <2>4, <2>5, <2>6 DEF LocksProtectCheckpoints, NoDuplicateIntake
<1>5. CASE Tick
  <2>1. UNCHANGED <<checkpoint, created, remote, manual, lock>>
    BY <1>5 DEF Tick, content
  <2>2. QuietThreads
    BY <1>0, <1>5, <2>1, TickFields DEF QuietThreads
  <2> QED
    BY <2>1, <2>2, QuietStep DEF Quiet
<1>6. CASE ChangeAuthority \/ UNCHANGED vars
  <2>1. UNCHANGED <<checkpoint, created, remote, manual, lock, worker>>
    BY <1>6 DEF ChangeAuthority, vars, content, threads
  <2>2. QuietThreads
    BY <2>1 DEF QuietThreads
  <2> QED
    BY <2>1, <2>2, QuietStep DEF Quiet
<1> QED
  BY <1>1, <1>2, <1>3, <1>4, <1>5, <1>6 DEF Next

LEMMA LockInit == Init => LockInv
<1> SUFFICES ASSUME Init PROVE LockInv
  OBVIOUS
<1>1. TypeOK
  BY TypeInit
<1>2. \A e \in Executions, u \in Uris : ThreadLocks(e, u)
  BY DEF Init, NoThread, ThreadLocks, Locking
<1>3. \A u \in Uris : IntakeLocks(u) /\ checkpoint[u] <= remote[u] /\ created[u] <= checkpoint[u] + 1
  BY DEF Init, NoIntake, IntakeLocks, Locking
<1> QED
  BY <1>1, <1>2, <1>3 DEF LockInv, LocksProtectCheckpoints, NoDuplicateIntake

\* Who is between a checkpoint's lock and the commit holds the lock, and what it
\* read of the checkpoint still stands (_lock_resource_checkpoint).
THEOREM LockInvariant == Spec => []LockInv
<1>1. LeaseInv /\ LeaseInv' => TypeOK /\ TypeOK'
  BY DEF LeaseInv
<1>2. LockInv /\ TypeOK' /\ [Next]_vars => LockInv'
  BY LockStep DEF LockInv
<1> QED
  BY <1>1, <1>2, LockInit, LeaseInvariant, PTL DEF Spec

\* Concurrent and repeated intakes of a text, by threads and by users, never
\* stage it for review twice.
THEOREM NothingStagedTwice == Spec => []NoDuplicateIntake
<1>1. LockInv => NoDuplicateIntake
  BY DEF LockInv
<1> QED
  BY <1>1, LockInvariant, PTL

---------------------------------------------------------------------------
(* Runs agree with their items *)

RunsAtRest ==
  \A r \in Runs : /\ run[r].status # "running" => run[r].left = 0
                  /\ run[r].status \in {"queued", "running"} \cup RunTerminal

RunInv == LeaseInv /\ RunsAtRest /\ RunAgreesWithItems

LEMMA FinalizeFacts ==
  ASSUME TypeOK, NEW e \in Executions, RunOf(e) \in Runs, FinalizeSyncRun(e)
  PROVE  /\ item' = item
         /\ run[RunOf(e)].status = "running"
         /\ \A u \in Requested[RunOf(e)] : item[RunOf(e)][u].status \in ItemTerminal
         /\ \A q \in Runs : q # RunOf(e) => run'[q] = run[q]
         /\ run'[RunOf(e)].status \in RunTerminal /\ run'[RunOf(e)].left = 0
         /\ run'[RunOf(e)].changed = Count(RunOf(e), "changed")
         /\ run'[RunOf(e)].unchanged = Count(RunOf(e), "unchanged")
         /\ run'[RunOf(e)].failed = Count(RunOf(e), "failed")
         /\ run'[RunOf(e)].status = "succeeded" <=> run'[RunOf(e)].failed = 0
<1> DEFINE n == [status    |-> IF Count(RunOf(e), "failed") = 0
                                 THEN "succeeded" ELSE "failed",
                 owner     |-> Nobody,
                 left      |-> 0,
                 changed   |-> Count(RunOf(e), "changed"),
                 unchanged |-> Count(RunOf(e), "unchanged"),
                 failed    |-> Count(RunOf(e), "failed")]
<1>1. run' = [run EXCEPT ![RunOf(e)] = n] /\ item' = item
  BY DEF FinalizeSyncRun
<1>2. run'[RunOf(e)] = n /\ \A q \in Runs : q # RunOf(e) => run'[q] = run[q]
  BY <1>1 DEF TypeOK
<1>3. /\ run[RunOf(e)].status = "running"
      /\ \A u \in Requested[RunOf(e)] : item[RunOf(e)][u].status \in ItemTerminal
  BY DEF FinalizeSyncRun, Finalizable, HasCoordinatorLease, ItemOf
<1>4. n.status \in RunTerminal /\ (n.status = "succeeded" <=> n.failed = 0)
  BY DEF RunTerminal
<1> QED
  BY <1>1, <1>2, <1>3, <1>4

\* A step that changes no item of a terminal run leaves its counts right.
LEMMA CountKept ==
  ASSUME NEW r \in Runs, NEW s,
         \A u \in Requested[r] : item'[r][u].status = item[r][u].status
  PROVE  Count(r, s)' = Count(r, s)
BY DEF Count

\* What a work step may do to runs and items.
LEMMA WorkOnRows ==
  ASSUME RunInv, NEW e \in Executions, NEW u \in Uris, Work(e, u)
  PROVE  /\ run' = run
         /\ \A r \in Runs, v \in Uris :
              \/ item'[r][v] = item[r][v]
              \/ /\ r = RunOf(e) /\ v = u
                 /\ run[r].status \notin RunTerminal
                 /\ item[r][v].status \notin ItemTerminal
                 /\ item[r][v].status = "queued" => item'[r][v].status = "running"
<1>0. TypeOK /\ ThreadsBelongToWork /\ RowsWellFormed /\ LeaseInv /\ RunAgreesWithItems
  BY DEF RunInv, LeaseInv
<1>1. CASE Retire(e, u) \/ Advance(e, u)
  BY <1>1 DEF Retire, Advance, OnlyThread
<1>2. ASSUME ClaimSyncItem(e, u) \/ FailExhaustedItem(e, u) \/ CompleteSyncItem(e, u)
      PROVE  RunOf(e) \in Runs /\ u \in Requested[RunOf(e)]
  BY <1>0, <1>2, WorkerOfRun
     DEF ClaimSyncItem, FailExhaustedItem, CompleteSyncItem, Claimable, MayClaim
<1>3. CASE ClaimSyncItem(e, u)
  <2>1. HasCoordinatorLease(e) /\ run' = run
          /\ item[RunOf(e)][u].status \notin ItemTerminal
          /\ item'[RunOf(e)][u].status = "running"
          /\ \A r \in Runs, v \in Uris : r # RunOf(e) \/ v # u => item'[r][v] = item[r][v]
    BY <1>0, <1>2, <1>3, ClaimFacts
  <2> QED
    BY <2>1 DEF HasCoordinatorLease, RunTerminal
<1>4. CASE FailExhaustedItem(e, u)
  <2>1. HasCoordinatorLease(e) /\ Closes(e, u)
          /\ item[RunOf(e)][u].status \notin ItemTerminal
          /\ item[RunOf(e)][u].attempt = MaxAttempts
    BY <1>0, <1>2, <1>4, ExhaustFacts
  <2>2. item[RunOf(e)][u].status # "queued"
    BY <1>0, <1>2, <1>4, <2>1, Bounds DEF RowsWellFormed
  <2> QED
    BY <2>1, <2>2 DEF Closes, HasCoordinatorLease, RunTerminal
<1>5. CASE CompleteSyncItem(e, u)
  <2>1. Closes(e, u) /\ worker[e][u].pc = "settled" /\ MayComplete(e, u)
    BY <1>0, <1>2, <1>5, CompleteFacts
  <2>2. item[RunOf(e)][u].status = "running"
    BY <1>0, <2>1, CompleterOwnsItem
  <2>3. run[RunOf(e)].status \notin RunTerminal
    BY <1>0, <1>2, <1>5, <2>2 DEF RunAgreesWithItems, AggregateMatches, ItemTerminal
  <2> QED
    BY <2>1, <2>2, <2>3 DEF Closes, ItemTerminal
<1> QED
  BY <1>0, <1>1, <1>3, <1>4, <1>5, WorkKinds

LEMMA RunStep == RunInv /\ [Next]_vars => RunsAtRest' /\ RunAgreesWithItems'
<1> SUFFICES ASSUME RunInv, [Next]_vars
             PROVE  RunsAtRest' /\ RunAgreesWithItems'
  OBVIOUS
<1>0. /\ TypeOK /\ ThreadsBelongToWork /\ RunAgreesWithItems /\ RunsAtRest
      /\ Requested \in [Runs -> SUBSET Uris]
  BY SyncAssumption DEF RunInv, LeaseInv
\* Enough: a run that is terminal after the step was terminal before it.
<1>1. ASSUME NEW r \in Runs, run'[r].status \in RunTerminal =>
               /\ run[r].status \in RunTerminal
               /\ run'[r].status = run[r].status
               /\ run'[r].changed = run[r].changed
               /\ run'[r].unchanged = run[r].unchanged
               /\ run'[r].failed = run[r].failed
               /\ \A u \in Requested[r] : item'[r][u].status = item[r][u].status
      PROVE  run'[r].status \in RunTerminal =>
               /\ \A u \in Requested[r] : item'[r][u].status \in ItemTerminal
               /\ run'[r].changed = Count(r, "changed")'
               /\ run'[r].unchanged = Count(r, "unchanged")'
               /\ run'[r].failed = Count(r, "failed")'
               /\ run'[r].status = "succeeded" <=> run'[r].failed = 0
  BY <1>0, <1>1, CountKept DEF RunAgreesWithItems, AggregateMatches
<1>2. ASSUME NEW e \in Executions, NEW r \in Runs, ClaimCoordinator(e, r)
      PROVE  RunsAtRest' /\ RunAgreesWithItems'
  <2>1. /\ item' = item /\ run'[r].status = "running"
        /\ \A q \in Runs : q # r => run'[q] = run[q]
    BY <1>0, <1>2, ClaimCoordinatorFacts
  <2>2. run'[r].status \notin RunTerminal
    BY <2>1 DEF RunTerminal
  <2> QED
    BY <1>0, <1>1, <2>1, <2>2 DEF RunAgreesWithItems, AggregateMatches, RunsAtRest
<1>3. ASSUME NEW e \in Executions, FinalizeSyncRun(e)
      PROVE  RunsAtRest' /\ RunAgreesWithItems'
  <2>1. RunOf(e) \in Runs
    BY <1>0, <1>3 DEF FinalizeSyncRun, PoolDrained, TypeOK, RunOf
  <2>2. /\ item' = item
        /\ \A q \in Runs : q # RunOf(e) => run'[q] = run[q]
        /\ run'[RunOf(e)].status \in RunTerminal /\ run'[RunOf(e)].left = 0
    BY <1>0, <1>3, <2>1, FinalizeFacts
  <2>3. RunAgreesWithItems'
    <3>1. ASSUME NEW q \in Runs, run'[q].status \in RunTerminal
          PROVE  /\ \A u \in Requested[q] : item'[q][u].status \in ItemTerminal
                 /\ run'[q].changed = Count(q, "changed")'
                 /\ run'[q].unchanged = Count(q, "unchanged")'
                 /\ run'[q].failed = Count(q, "failed")'
                 /\ run'[q].status = "succeeded" <=> run'[q].failed = 0
      <4>1. CASE q # RunOf(e)
        BY <1>1, <2>2, <3>1, <4>1
      <4>2. CASE q = RunOf(e)
        <5>1. \A s : Count(q, s)' = Count(q, s)
          BY <2>2 DEF Count
        <5> QED
          BY <1>0, <1>3, <2>1, <2>2, <4>2, <5>1, FinalizeFacts
      <4> QED
        BY <4>1, <4>2
    <3> QED
      BY <3>1 DEF RunAgreesWithItems, AggregateMatches
  <2> QED
    BY <1>0, <2>2, <2>3 DEF RunsAtRest
<1>4. ASSUME NEW e \in Executions, NEW u \in Uris, Work(e, u)
      PROVE  RunsAtRest' /\ RunAgreesWithItems'
  <2>1. run' = run
    BY <1>4, WorkOnRows
  <2>2. ASSUME NEW r \in Runs, run'[r].status \in RunTerminal, NEW v \in Requested[r]
        PROVE  item'[r][v].status = item[r][v].status
    BY <1>0, <1>4, <2>1, <2>2, WorkOnRows
  <2> QED
    BY <1>0, <1>1, <2>1, <2>2 DEF RunAgreesWithItems, AggregateMatches, RunsAtRest
<1>5. CASE Tick
  <2>1. ASSUME NEW r \in Runs
        PROVE  /\ run'[r].status = run[r].status /\ run'[r].left = Aged(run[r].left)
               /\ run'[r].changed = run[r].changed
               /\ run'[r].unchanged = run[r].unchanged
               /\ run'[r].failed = run[r].failed
               /\ \A u \in Requested[r] : item'[r][u].status = item[r][u].status
    BY <1>0, <1>5, TickFields
  <2> QED
    BY <1>0, <1>1, <2>1 DEF RunAgreesWithItems, AggregateMatches, RunsAtRest, Aged
<1>6. CASE UNCHANGED <<run, item>>
  BY <1>0, <1>1, <1>6 DEF RunAgreesWithItems, AggregateMatches, RunsAtRest
<1>7. ASSUME NEW e \in Executions, SubmitItems(e) \/ AbandonRun(e) \/ Crash(e)
      PROVE  UNCHANGED <<run, item>>
  BY <1>7 DEF SubmitItems, AbandonRun, Crash, rows
<1> QED
  BY <1>2, <1>3, <1>4, <1>5, <1>6, <1>7, StepKinds DEF Aside

LEMMA RunInit == Init => RunInv
<1> SUFFICES ASSUME Init PROVE RunInv
  OBVIOUS
<1>1. \A r \in Runs : run[r].status = "queued" /\ run[r].left = 0
  BY DEF Init
<1> QED
  BY <1>1, LeaseInit DEF RunInv, RunsAtRest, RunAgreesWithItems, AggregateMatches, RunTerminal

\* A run that is finished has no open item and no thread that could still close
\* one (_finalize_sync_run under the coordinator's lease).
THEOREM RunInvariant == Spec => []RunInv
<1>1. RunInv /\ [Next]_vars => RunInv'
  BY RunStep, LeaseStep DEF RunInv
<1> QED
  BY <1>1, RunInit, PTL DEF Spec

\* A finished run agrees with its items for ever, although workers of older
\* executions may still be going on.
THEOREM RunsAgree == Spec => []RunAgreesWithItems
<1>1. RunInv => RunAgreesWithItems
  BY DEF RunInv
<1> QED
  BY <1>1, RunInvariant, PTL

---------------------------------------------------------------------------
(* The transition triggers *)

RowsMayStep ==
  \A r \in Runs :
    /\ run[r].status \in RunTerminal => run'[r] = run[r]
    /\ run[r].status = "queued" => run'[r].status \in {"queued", "running"}
    /\ run[r].status = "running" => run'[r].status # "queued"
    /\ \A u \in Uris :
         /\ item[r][u].status \in ItemTerminal => item'[r][u] = item[r][u]
         /\ item[r][u].status = "queued" =>
              item'[r][u].status \in {"queued", "running"}

LEMMA AgedAtRest ==
  /\ \A row \in RunRow : row.left = 0 => [row EXCEPT !.left = Aged(@)] = row
  /\ \A i \in ItemRow : i.left = 0 => [i EXCEPT !.left = Aged(@)] = i
BY DEF RunRow, ItemRow, Aged

LEMMA TriggerStep == RunInv /\ [Next]_vars => RowsMayStep
<1> SUFFICES ASSUME RunInv, [Next]_vars PROVE RowsMayStep
  OBVIOUS
<1>0. /\ TypeOK /\ ThreadsBelongToWork /\ RowsWellFormed /\ RunsAtRest
  BY DEF RunInv, LeaseInv
<1>1. ASSUME NEW e \in Executions, NEW r \in Runs, ClaimCoordinator(e, r)
      PROVE  RowsMayStep
  <2>1. /\ item' = item /\ run'[r].status = "running" /\ run[r].status \notin RunTerminal
        /\ \A q \in Runs : q # r => run'[q] = run[q]
    BY <1>0, <1>1, ClaimCoordinatorFacts
  <2> QED
    BY <2>1 DEF RowsMayStep
<1>2. ASSUME NEW e \in Executions, FinalizeSyncRun(e)
      PROVE  RowsMayStep
  <2>1. RunOf(e) \in Runs
    BY <1>0, <1>2 DEF FinalizeSyncRun, PoolDrained, TypeOK, RunOf
  <2>2. /\ item' = item /\ run[RunOf(e)].status = "running"
        /\ run'[RunOf(e)].status \in RunTerminal
        /\ \A q \in Runs : q # RunOf(e) => run'[q] = run[q]
    BY <1>0, <1>2, <2>1, FinalizeFacts
  <2> QED
    BY <2>2 DEF RowsMayStep, RunTerminal
<1>3. ASSUME NEW e \in Executions, NEW u \in Uris, Work(e, u)
      PROVE  RowsMayStep
  BY <1>3, WorkOnRows DEF RowsMayStep
<1>4. CASE Tick
  <2>1. ASSUME NEW r \in Runs
        PROVE  /\ run'[r].status = run[r].status
               /\ run[r].status \in RunTerminal => run'[r] = run[r]
    <3>1. run[r] \in RunRow
      BY <1>0 DEF TypeOK
    <3>2. run[r].status \in RunTerminal => run[r].left = 0
      BY <1>0 DEF RunsAtRest, RunTerminal
    <3> QED
      BY <1>0, <1>4, <3>1, <3>2, AgedAtRest, TickFacts, TickFields
  <2>2. ASSUME NEW r \in Runs, NEW u \in Uris
        PROVE  /\ item'[r][u].status = item[r][u].status
               /\ item[r][u].status \in ItemTerminal => item'[r][u] = item[r][u]
    <3>1. item[r][u] \in ItemRow
      BY <1>0 DEF TypeOK
    <3>2. item[r][u].status \in ItemTerminal => item[r][u].left = 0
      BY <1>0 DEF RowsWellFormed, ItemTerminal
    <3> QED
      BY <1>0, <1>4, <3>1, <3>2, AgedAtRest, TickFacts, TickFields
  <2> QED
    BY <2>1, <2>2 DEF RowsMayStep
<1>5. CASE UNCHANGED <<run, item>>
  BY <1>5 DEF RowsMayStep
<1>6. ASSUME NEW e \in Executions, SubmitItems(e) \/ AbandonRun(e) \/ Crash(e)
      PROVE  UNCHANGED <<run, item>>
  BY <1>6 DEF SubmitItems, AbandonRun, Crash, rows
<1> QED
  BY <1>1, <1>2, <1>3, <1>4, <1>5, <1>6, StepKinds DEF Aside

\* No step of the code is one that the database's triggers would refuse.
THEOREM TriggersAreSilent == Spec => TriggersNeverFire
<1>1. RunInv /\ [Next]_vars => [RowsMayStep]_vars
  BY TriggerStep
<1>2. Spec => [][RowsMayStep]_vars
  BY <1>1, RunInvariant, PTL DEF Spec
<1>3. RowsMayStep =>
        \A r \in Runs :
          /\ RunTransition(run[r], run'[r])
          /\ \A u \in Uris : ItemTransition(item[r][u], item'[r][u])
  BY DEF RowsMayStep, RunTransition, ItemTransition
<1> QED
  BY <1>2, <1>3, PTL DEF TriggersNeverFire

---------------------------------------------------------------------------
(* What a thread knows of its intake *)

LEMMA CheckpointsGrow ==
  ASSUME LockInv, [Next]_vars, NEW u \in Uris
  PROVE  checkpoint[u] <= checkpoint'[u]
<1>0. TypeOK /\ LocksProtectCheckpoints /\ checkpoint[u] \in Int
  BY Bounds DEF LockInv, TypeOK, Versions
<1>1. CASE checkpoint' = checkpoint
  BY <1>0, <1>1
<1>2. ASSUME NEW v \in Uris, NEW n \in Versions, Stage(v, checkpoint[v], n),
             checkpoint[v] <= n, n <= remote[v], remote' = remote
      PROVE  checkpoint[u] <= checkpoint'[u]
  <2>1. CASE u = v
    BY <1>2, <2>1, StageFacts
  <2>2. CASE u # v
    BY <1>0, <1>2, <2>2, StageFacts
  <2> QED
    BY <2>1, <2>2
<1>3. ASSUME NEW e \in Executions, NEW v \in Uris, CommitIntake(e, v)
      PROVE  checkpoint[u] <= checkpoint'[u]
  <2> DEFINE w == worker[e][v]
  <2>1. w.pc = "read" /\ Stage(v, w.base, w.read) /\ remote' = remote
    BY <1>3 DEF CommitIntake
  <2>2. w.base = checkpoint[v] /\ w.read \in Versions /\ checkpoint[v] <= w.read
          /\ w.read <= remote[v]
    BY <1>0, <2>1, ReadVersion DEF LocksProtectCheckpoints, ThreadLocks, Locking
  <2> QED
    BY <1>2, <2>1, <2>2
<1>4. ASSUME NEW v \in Uris, ManualCommit(v)
      PROVE  checkpoint[u] <= checkpoint'[u]
  <2> DEFINE m == manual[v]
  <2>1. m.pc = "read" /\ Stage(v, m.base, m.read) /\ remote' = remote
    BY <1>4 DEF ManualCommit, ManualEnd
  <2>2. m.base = checkpoint[v] /\ m.read \in Versions /\ checkpoint[v] <= m.read
          /\ m.read <= remote[v]
    BY <1>0, <2>1, ReadVersion DEF LocksProtectCheckpoints, IntakeLocks, Locking
  <2> QED
    BY <1>2, <2>1, <2>2
<1>5. ASSUME NEW e \in Executions, NEW v \in Uris, Work(e, v), ~CommitIntake(e, v)
      PROVE  checkpoint' = checkpoint
  BY <1>5 DEF Work, Claim, ClaimRaises, FailExhaustedItem, ClaimSyncItem,
     CheckConnection, LockCheckpoint, ReadResource, ConnectorError, RejectIntake,
     LoseAuthority, CompleteSyncItem, CompletionRefused, ThreadRaises, content
<1>6. ASSUME NEW v \in Interactive, IntakeManually(v)
      PROVE  checkpoint[u] <= checkpoint'[u]
  BY <1>1, <1>4, <1>6, SyncAssumption
     DEF IntakeManually, ManualStart, ManualLock, ManualRead, ManualFail, content
<1>7. ASSUME NEW e \in Executions, Coordinate(e) \/ Crash(e)
      PROVE  checkpoint' = checkpoint
  BY <1>7, QuietCoordinator DEF Quiet
<1>8. ASSUME \/ \E v \in Uris : RemoteChange(v)
             \/ ChangeAuthority \/ Tick \/ UNCHANGED vars
      PROVE  checkpoint' = checkpoint
  BY <1>8 DEF RemoteChange, ChangeAuthority, Tick, vars, content
<1> QED
  BY <1>1, <1>3, <1>5, <1>6, <1>7, <1>8 DEF Next

\* A thread that has not committed its intake has none to its attempt's
\* name; one that reports a result has it, of a version it vouches for.
KnowsIntake(e, u) ==
  LET w == worker[e][u]  by == ingestedBy[RunOf(e)][u] IN
  /\ w.pc \in Claimed \ {"settled"} => w.token \notin by
  /\ w.pc = "settled" /\ w.outcome \in {"refused", "rejected", "lost"} =>
       w.token \notin by
  /\ w.pc = "settled" /\ w.outcome \in {"changed", "unchanged"} =>
       w.token \in by /\ w.read # -1 /\ w.read <= checkpoint[u]

ThreadsKnowTheirIntake == \A e \in Executions, u \in Uris : KnowsIntake(e, u)

IntakesOfAttempts ==
  \A r \in Runs, u \in Uris : \A k \in ingestedBy[r][u] : k <= item[r][u].attempt

ReportInv ==
  /\ ThreadsKnowTheirIntake
  /\ IntakesOfAttempts
  /\ OutcomeIsOfItsAttempt
  /\ OwnIntakeFailsOnlyAtLimit

SyncInv == LeaseInv /\ LockInv /\ ReportInv

\* Steps that leave every claim to what it knows: no intake is committed,
\* every thread that is still at work knows what it knew before.
LEMMA KnowledgeKept ==
  ASSUME SyncInv, [Next]_vars, UNCHANGED ingestedBy,
         \A f \in Executions, v \in Uris : worker'[f][v].pc \in Claimed =>
           /\ RunOf(f)' = RunOf(f)
           /\ \/ worker'[f][v] = worker[f][v]
              \/ /\ worker'[f][v].pc = worker[f][v].pc
                 /\ worker'[f][v].token = worker[f][v].token
                 /\ worker'[f][v].outcome = worker[f][v].outcome
                 /\ worker'[f][v].read = worker[f][v].read
  PROVE  ThreadsKnowTheirIntake'
<1> SUFFICES ASSUME NEW f \in Executions, NEW v \in Uris, worker'[f][v].pc \in Claimed
             PROVE  KnowsIntake(f, v)'
  BY DEF ThreadsKnowTheirIntake, KnowsIntake, Claimed
<1>1. KnowsIntake(f, v) /\ LockInv
  BY DEF SyncInv, ReportInv, ThreadsKnowTheirIntake
<1>2. checkpoint[v] <= checkpoint'[v] /\ checkpoint[v] \in Int /\ checkpoint'[v] \in Int
  <2>1. TypeOK /\ TypeOK'
    BY TypeStep DEF SyncInv, LeaseInv
  <2> QED
    BY <1>1, <2>1, CheckpointsGrow, Bounds DEF TypeOK, Versions
<1>3. worker[f][v].read # -1 => worker[f][v].read \in Int
  BY <1>1, ReadVersion, Bounds DEF LockInv, Versions
<1> QED
  BY <1>1, <1>2, <1>3 DEF KnowsIntake

\* A thread on its way, and how it settles without an intake.
LEMMA AdvanceWithoutIntake ==
  ASSUME TypeOK, NEW e \in Executions, NEW u \in Uris,
         \/ CheckConnection(e, u) \/ LockCheckpoint(e, u) \/ ReadResource(e, u)
         \/ ConnectorError(e, u) \/ RejectIntake(e, u) \/ LoseAuthority(e, u)
  PROVE  /\ UNCHANGED ingestedBy
         /\ worker[e][u].pc \in Claimed \ {"settled"}
         /\ \/ worker'[e][u].pc # "settled"
            \/ worker'[e][u].outcome \in {"refused", "error", "rejected", "lost"}
<1> DEFINE w == worker[e][u]
<1>1. w \in Thread
  BY DEF TypeOK
<1>2. UNCHANGED ingestedBy /\ w.pc \in Claimed \ {"settled"}
  BY DEF CheckConnection, LockCheckpoint, ReadResource, ConnectorError,
         RejectIntake, LoseAuthority, Claimed, Locking
<1>3. ASSUME NEW o \in {"refused", "error", "rejected", "lost"}, Settle(e, u, o)
      PROVE  worker'[e][u].outcome = o
  <2> DEFINE t == [w EXCEPT !.pc = "settled", !.outcome = o, !.base = -1, !.read = -1]
  <2>1. worker'[e][u] = t
    BY <1>3, ThreadSet DEF Settle
  <2>2. t.outcome = o
    BY <1>1 DEF Thread
  <2> QED
    BY <2>1, <2>2
<1>4. /\ \A v : [w EXCEPT !.pc = "reading", !.base = v].pc # "settled"
      /\ \A v : [w EXCEPT !.pc = "read", !.read = v].pc # "settled"
      /\ [w EXCEPT !.pc = "waiting"].pc # "settled"
  BY <1>1 DEF Thread
<1>5. CASE LockCheckpoint(e, u) \/ ReadResource(e, u)
  <2>1. PICK t : SetThread(e, u, t) /\ t.pc # "settled"
    BY <1>4, <1>5 DEF LockCheckpoint, ReadResource
  <2> QED
    BY <1>2, <2>1, ThreadSet
<1>6. CASE CheckConnection(e, u)
  <2>1. CASE authorized
    <3>1. PICK t : SetThread(e, u, t) /\ t.pc # "settled"
      BY <1>4, <1>6, <2>1 DEF CheckConnection
    <3> QED
      BY <1>2, <3>1, ThreadSet
  <2>2. CASE ~authorized
    BY <1>2, <1>3, <1>6, <2>2 DEF CheckConnection
  <2> QED
    BY <2>1, <2>2
<1>7. CASE ConnectorError(e, u) \/ RejectIntake(e, u) \/ LoseAuthority(e, u)
  BY <1>2, <1>3, <1>7 DEF ConnectorError, RejectIntake, LoseAuthority
<1> QED
  BY <1>5, <1>6, <1>7

LEMMA CommitFacts ==
  ASSUME TypeOK, NEW e \in Executions, NEW u \in Uris, RunOf(e) \in Runs,
         CommitIntake(e, u)
  PROVE  LET w == worker[e][u]  n == worker'[e][u] IN
         /\ w.pc = "read" /\ HasItemLease(e, u)
         /\ ingestedBy'[RunOf(e)][u] = ingestedBy[RunOf(e)][u] \cup {w.token}
         /\ \A r \in Runs, v \in Uris :
              r # RunOf(e) \/ v # u => ingestedBy'[r][v] = ingestedBy[r][v]
         /\ n.pc = "settled" /\ n.token = w.token
         /\ \/ n.outcome = "error"
            \/ n.outcome \in {"changed", "unchanged"} /\ n.read = checkpoint'[u]
<1> DEFINE w == worker[e][u]
<1>1. w \in Thread
  BY DEF TypeOK
<1>2. w.pc = "read" /\ HasItemLease(e, u)
        /\ ingestedBy' = [ingestedBy EXCEPT ![RunOf(e)][u] = @ \cup {w.token}]
  BY DEF CommitIntake, Authorized
<1>3. /\ ingestedBy'[RunOf(e)][u] = ingestedBy[RunOf(e)][u] \cup {w.token}
      /\ \A r \in Runs, v \in Uris :
           r # RunOf(e) \/ v # u => ingestedBy'[r][v] = ingestedBy[r][v]
  BY <1>2 DEF TypeOK
<1>4. ASSUME NEW v, NEW o,
             SetThread(e, u, [w EXCEPT !.pc = "settled", !.base = -1, !.read = v,
                                       !.outcome = o])
      PROVE  /\ worker'[e][u].pc = "settled" /\ worker'[e][u].token = w.token
             /\ worker'[e][u].read = v /\ worker'[e][u].outcome = o
  <2> DEFINE t == [w EXCEPT !.pc = "settled", !.base = -1, !.read = v, !.outcome = o]
  <2>1. t.pc = "settled" /\ t.token = w.token /\ t.read = v /\ t.outcome = o
    BY <1>1 DEF Thread
  <2>2. worker'[e][u] = t
    BY <1>4, ThreadSet
  <2> QED
    BY <2>1, <2>2
<1>5. CASE Settle(e, u, "error")
  <2> DEFINE t == [w EXCEPT !.pc = "settled", !.outcome = "error", !.base = -1, !.read = -1]
  <2>1. t.pc = "settled" /\ t.token = w.token /\ t.outcome = "error"
    BY <1>1 DEF Thread
  <2>2. worker'[e][u] = t
    BY <1>5, ThreadSet DEF Settle
  <2> QED
    BY <1>2, <1>3, <2>1, <2>2
<1> QED
  BY <1>2, <1>3, <1>4, <1>5 DEF CommitIntake

LEMMA CommitKnowledge ==
  ASSUME SyncInv, [Next]_vars, NEW e \in Executions, NEW u \in Uris, CommitIntake(e, u)
  PROVE  /\ ThreadsKnowTheirIntake'
         /\ IntakesOfAttempts'
         /\ OwnIntakeFailsOnlyAtLimit'
<1> DEFINE w == worker[e][u]
<1>0. /\ TypeOK /\ ThreadsBelongToWork /\ RowsWellFormed /\ TokensOfThreads
      /\ LockInv /\ ReportInv /\ TypeOK'
  BY TypeStep DEF SyncInv, LeaseInv
<1>1. w.pc = "read"
  BY DEF CommitIntake
<1>2. RunOf(e) \in Runs
  BY <1>0, <1>1, WorkerOfRun
<1>3. Advance(e, u) /\ UNCHANGED <<run, item, exec>>
  BY <1>0, AdvanceStep DEF Advance, OnlyThread
<1>4. /\ HasItemLease(e, u)
      /\ ingestedBy'[RunOf(e)][u] = ingestedBy[RunOf(e)][u] \cup {w.token}
      /\ \A r \in Runs, v \in Uris :
           r # RunOf(e) \/ v # u => ingestedBy'[r][v] = ingestedBy[r][v]
      /\ worker'[e][u].pc = "settled" /\ worker'[e][u].token = w.token
      /\ \/ worker'[e][u].outcome = "error"
         \/ /\ worker'[e][u].outcome \in {"changed", "unchanged"}
            /\ worker'[e][u].read = checkpoint'[u]
  BY <1>0, <1>2, CommitFacts
<1>5. item[RunOf(e)][u].status = "running" /\ item[RunOf(e)][u].attempt = w.token
  BY <1>0, <1>2, <1>4 DEF HasItemLease, ItemOf, RowsWellFormed
<1>6. IntakesOfAttempts'
  <2>1. w.token \in Nat
    BY <1>0, Bounds DEF TypeOK, Thread
  <2> QED
    BY <1>0, <1>2, <1>3, <1>4, <1>5, <2>1 DEF ReportInv, IntakesOfAttempts
<1>7. OwnIntakeFailsOnlyAtLimit'
  BY <1>0, <1>2, <1>3, <1>4, <1>5 DEF ReportInv, OwnIntakeFailsOnlyAtLimit
<1>8. checkpoint'[u] # -1 /\ checkpoint'[u] <= checkpoint'[u]
  <2>1. Stage(u, w.base, w.read) /\ w.base = checkpoint[u] /\ w.read # -1
    BY <1>0, <1>1 DEF CommitIntake, LockInv, LocksProtectCheckpoints, ThreadLocks, Locking
  <2>2. checkpoint'[u] # -1
    BY <1>0, <2>1 DEF Stage, SameText, content, TypeOK
  <2>3. checkpoint'[u] \in Int
    BY <1>0, Bounds DEF TypeOK, Versions
  <2> QED
    BY <2>2, <2>3
<1>9. ASSUME NEW f \in Executions, NEW v \in Uris
      PROVE  KnowsIntake(f, v)'
  <2>1. CASE f = e /\ v = u
    <3>1. RunOf(e)' = RunOf(e)
      BY <1>3 DEF RunOf
    <3> QED
      BY <1>4, <1>8, <2>1, <3>1 DEF KnowsIntake
  <2>2. CASE f # e \/ v # u
    <3>1. worker'[f][v] = worker[f][v] /\ RunOf(f)' = RunOf(f)
      BY <1>3, <2>2 DEF Advance, OnlyThread, RunOf
    <3>2. KnowsIntake(f, v)
      BY <1>0 DEF ReportInv, ThreadsKnowTheirIntake
    <3>3. checkpoint[v] <= checkpoint'[v] /\ checkpoint[v] \in Int /\ checkpoint'[v] \in Int
            /\ (worker[f][v].read # -1 => worker[f][v].read \in Int)
      BY <1>0, CheckpointsGrow, ReadVersion, Bounds DEF TypeOK, Versions
    <3>4. ASSUME worker[f][v].pc \in Claimed
          PROVE  \A k \in {worker[f][v].token} :
                   k \in ingestedBy'[RunOf(f)][v] <=> k \in ingestedBy[RunOf(f)][v]
      <4>1. RunOf(f) \in Runs
        BY <1>0, <3>4, WorkerOfRun DEF Claimed
      <4>2. CASE RunOf(f) = RunOf(e) /\ v = u
        <5>1. worker[f][v].token # w.token
          BY <1>0, <1>1, <2>2, <3>4, <4>2 DEF TokensOfThreads, Claimed
        <5> QED
          BY <1>4, <4>2, <5>1
      <4>3. CASE RunOf(f) # RunOf(e) \/ v # u
        BY <1>4, <4>1, <4>3
      <4> QED
        BY <4>2, <4>3
    <3> QED
      BY <3>1, <3>2, <3>3, <3>4 DEF KnowsIntake, Claimed
  <2> QED
    BY <2>1, <2>2
<1> QED
  BY <1>6, <1>7, <1>9 DEF ThreadsKnowTheirIntake

\* Without an intake and without a changed row nothing is reported.
LEMMA RowsKept ==
  ASSUME SyncInv, [Next]_vars, UNCHANGED ingestedBy,
         \A r \in Runs, u \in Uris :
           /\ item'[r][u].status = item[r][u].status
           /\ item'[r][u].attempt = item[r][u].attempt
           /\ item'[r][u].version = item[r][u].version
  PROVE  /\ IntakesOfAttempts'
         /\ OutcomeIsOfItsAttempt'
         /\ OwnIntakeFailsOnlyAtLimit'
<1>0. TypeOK /\ TypeOK' /\ LockInv /\ ReportInv
  BY TypeStep DEF SyncInv, LeaseInv
<1>1. \A u \in Uris : checkpoint[u] <= checkpoint'[u]
        /\ checkpoint[u] \in Int /\ checkpoint'[u] \in Int
  BY <1>0, CheckpointsGrow, Bounds DEF TypeOK, Versions
<1>2. \A r \in Runs, u \in Uris : item[r][u].version \in Int
  BY <1>0, Bounds DEF TypeOK, ItemRow, Versions
<1> QED
  BY <1>0, <1>1, <1>2
     DEF ReportInv, IntakesOfAttempts, OutcomeIsOfItsAttempt, OwnIntakeFailsOnlyAtLimit

LEMMA CommitOutcomes ==
  ASSUME SyncInv, [Next]_vars, NEW e \in Executions, NEW u \in Uris, CommitIntake(e, u)
  PROVE  OutcomeIsOfItsAttempt'
<1>0. /\ TypeOK /\ ThreadsBelongToWork /\ LockInv /\ ReportInv /\ TypeOK'
  BY TypeStep DEF SyncInv, LeaseInv
<1>1. worker[e][u].pc = "read" /\ item' = item
  BY DEF CommitIntake, rows
<1>2. RunOf(e) \in Runs
  BY <1>0, <1>1, WorkerOfRun
<1>3. \A r \in Runs, v \in Uris : ingestedBy[r][v] \subseteq ingestedBy'[r][v]
  BY <1>0, <1>2, CommitFacts
<1>4. \A v \in Uris : checkpoint[v] <= checkpoint'[v]
        /\ checkpoint[v] \in Int /\ checkpoint'[v] \in Int
  BY <1>0, CheckpointsGrow, Bounds DEF TypeOK, Versions
<1>5. \A r \in Runs, v \in Uris : item[r][v].version \in Int
  BY <1>0, Bounds DEF TypeOK, ItemRow, Versions
<1> QED
  BY <1>0, <1>1, <1>3, <1>4, <1>5 DEF ReportInv, OutcomeIsOfItsAttempt

\* Only the row of u changes, and it still tells the truth.
LEMMA RowReported ==
  ASSUME SyncInv, NEW r \in Runs, NEW u \in Uris,
         UNCHANGED <<ingestedBy, checkpoint>>,
         \A q \in Runs, v \in Uris : q # r \/ v # u => item'[q][v] = item[q][v],
         item'[r][u].attempt >= item[r][u].attempt,
         item'[r][u].attempt \in Nat,
         item'[r][u].status \in {"changed", "unchanged"} =>
           /\ item'[r][u].attempt \in ingestedBy[r][u]
           /\ item'[r][u].version # -1
           /\ item'[r][u].version <= checkpoint[u],
         item'[r][u].status = "failed" /\ item'[r][u].attempt \in ingestedBy[r][u] =>
           item'[r][u].attempt = MaxAttempts
  PROVE  IntakesOfAttempts' /\ OutcomeIsOfItsAttempt' /\ OwnIntakeFailsOnlyAtLimit'
<1>0. ReportInv /\ item[r][u].attempt \in Nat /\ ingestedBy[r][u] \subseteq Nat
  BY Bounds DEF SyncInv, LeaseInv, TypeOK, ItemRow
<1>1. IntakesOfAttempts'
  BY <1>0 DEF ReportInv, IntakesOfAttempts
<1>2. OutcomeIsOfItsAttempt'
  BY <1>0 DEF ReportInv, OutcomeIsOfItsAttempt
<1>3. OwnIntakeFailsOnlyAtLimit'
  BY <1>0 DEF ReportInv, OwnIntakeFailsOnlyAtLimit
<1> QED
  BY <1>1, <1>2, <1>3

LEMMA ReportStep == SyncInv /\ [Next]_vars => ReportInv'
<1> SUFFICES ASSUME SyncInv, [Next]_vars PROVE ReportInv'
  OBVIOUS
<1>0. /\ LeaseInv /\ TypeOK /\ ThreadsBelongToWork /\ RowsWellFormed /\ LockInv /\ ReportInv
  BY DEF SyncInv, LeaseInv
<1>1. ASSUME NEW e \in Executions, NEW r \in Runs, ClaimCoordinator(e, r)
      PROVE  ReportInv'
  <2>1. /\ UNCHANGED <<item, worker, ingestedBy>>
        /\ \A u \in Uris : worker[e][u].pc = "absent"
        /\ \A f \in Executions : f # e => exec'[f] = exec[f]
    BY <1>0, <1>1, ClaimCoordinatorFacts
  <2>2. ThreadsKnowTheirIntake'
    BY <2>1, KnowledgeKept DEF RunOf, Claimed
  <2> QED
    BY <2>1, <2>2, RowsKept DEF ReportInv
<1>2. ASSUME NEW e \in Executions, SubmitItems(e)
      PROVE  ReportInv'
  <2>1. /\ UNCHANGED <<item, ingestedBy>>
        /\ \A u \in Uris : worker'[e][u].pc \notin Claimed
        /\ \A f \in Executions : f # e => exec'[f] = exec[f] /\ worker'[f] = worker[f]
    BY <1>0, <1>2, SubmitFacts DEF Claimed
  <2>2. ThreadsKnowTheirIntake'
    BY <2>1, KnowledgeKept DEF RunOf
  <2> QED
    BY <2>1, <2>2, RowsKept DEF ReportInv
<1>3. ASSUME NEW e \in Executions, Leave(e)
      PROVE  ReportInv'
  <2>1. ThreadsKnowTheirIntake'
    BY <1>3, KnowledgeKept DEF Leave, RunOf, Claimed
  <2> QED
    BY <1>3, <2>1, RowsKept DEF Leave, ReportInv
<1>4. ASSUME NEW e \in Executions, NEW u \in Uris, Work(e, u)
      PROVE  ReportInv'
  <2> DEFINE w == worker[e][u]
  <2>1. CASE Retire(e, u)
    <3>1. ThreadsKnowTheirIntake'
      BY <2>1, KnowledgeKept DEF Retire, OnlyThread, RunOf, Claimed
    <3> QED
      BY <2>1, <3>1, RowsKept DEF Retire, OnlyThread, ReportInv
  <2>2. CASE CommitIntake(e, u)
    BY <2>2, CommitKnowledge, CommitOutcomes DEF ReportInv
  <2>3. CASE \/ CheckConnection(e, u) \/ LockCheckpoint(e, u) \/ ReadResource(e, u)
             \/ ConnectorError(e, u) \/ RejectIntake(e, u) \/ LoseAuthority(e, u)
    <3>1. Advance(e, u)
      BY <1>0, <2>3, AdvanceStep
    <3>2. /\ UNCHANGED ingestedBy /\ w.pc \in Claimed \ {"settled"}
          /\ \/ worker'[e][u].pc # "settled"
             \/ worker'[e][u].outcome \in {"refused", "error", "rejected", "lost"}
      BY <1>0, <2>3, AdvanceWithoutIntake
    <3>3. IntakesOfAttempts' /\ OutcomeIsOfItsAttempt' /\ OwnIntakeFailsOnlyAtLimit'
      BY <3>1, <3>2, RowsKept DEF Advance, OnlyThread
    <3>4. w.token \notin ingestedBy[RunOf(e)][u]
      BY <1>0, <3>2 DEF ReportInv, ThreadsKnowTheirIntake, KnowsIntake
    <3>5. KnowsIntake(e, u)'
      BY <3>1, <3>2, <3>4 DEF KnowsIntake, Advance, OnlyThread, RunOf
    <3>6. ASSUME NEW f \in Executions, NEW v \in Uris, f # e \/ v # u
          PROVE  KnowsIntake(f, v)'
      <4>1. worker'[f][v] = worker[f][v] /\ RunOf(f)' = RunOf(f)
        BY <3>1, <3>6 DEF Advance, OnlyThread, RunOf
      <4>2. KnowsIntake(f, v) /\ TypeOK'
        BY <1>0, TypeStep DEF ReportInv, ThreadsKnowTheirIntake
      <4>3. checkpoint[v] <= checkpoint'[v] /\ checkpoint[v] \in Int
              /\ checkpoint'[v] \in Int
              /\ (worker[f][v].read # -1 => worker[f][v].read \in Int)
        BY <1>0, <4>2, CheckpointsGrow, ReadVersion, Bounds DEF TypeOK, Versions
      <4> QED
        BY <3>2, <4>1, <4>2, <4>3 DEF KnowsIntake
    <3> QED
      BY <3>3, <3>5, <3>6 DEF ReportInv, ThreadsKnowTheirIntake
  <2>4. CASE ClaimSyncItem(e, u)
    <3>1. RunOf(e) \in Runs
      BY <1>0, <2>4, WorkerOfRun DEF ClaimSyncItem, Claimable, MayClaim
    <3> DEFINE k == item[RunOf(e)][u].attempt
    <3>0. k \in Nat /\ UNCHANGED checkpoint
      BY <1>0, <2>4, <3>1 DEF TypeOK, ItemRow, ClaimSyncItem, content
    <3>2. /\ UNCHANGED <<exec, ingestedBy>>
          /\ item'[RunOf(e)][u].attempt = k + 1
          /\ item'[RunOf(e)][u].status = "running"
          /\ worker'[e][u].pc = "claimed" /\ worker'[e][u].token = k + 1
      BY <1>0, <2>4, <3>1, ClaimFacts
    <3>3. /\ \A r \in Runs, v \in Uris : r # RunOf(e) \/ v # u => item'[r][v] = item[r][v]
          /\ \A f \in Executions, v \in Uris : f # e \/ v # u => worker'[f][v] = worker[f][v]
      BY <1>0, <2>4, <3>1, ClaimFacts
    <3>4. IntakesOfAttempts' /\ OutcomeIsOfItsAttempt' /\ OwnIntakeFailsOnlyAtLimit'
      BY <3>0, <3>1, <3>2, <3>3, RowReported
    <3>5. k + 1 \notin ingestedBy[RunOf(e)][u]
      BY <1>0, <3>0, <3>1 DEF ReportInv, IntakesOfAttempts
    <3>6. \A f \in Executions, v \in Uris : KnowsIntake(f, v)'
      BY <1>0, <3>0, <3>2, <3>3, <3>5 DEF ReportInv, ThreadsKnowTheirIntake, KnowsIntake, RunOf
    <3> QED
      BY <3>4, <3>6 DEF ReportInv, ThreadsKnowTheirIntake
  <2>5. CASE FailExhaustedItem(e, u) \/ CompleteSyncItem(e, u)
    <3>1. RunOf(e) \in Runs
      BY <1>0, <2>5, WorkerOfRun
         DEF FailExhaustedItem, CompleteSyncItem, Claimable, MayClaim
    <3> DEFINE i == item[RunOf(e)][u]
               n == item'[RunOf(e)][u]
    <3>2. Closes(e, u) /\ UNCHANGED checkpoint
      BY <1>0, <2>5, <3>1, ExhaustFacts, CompleteFacts
         DEF FailExhaustedItem, CompleteSyncItem, content
    <3>3. ThreadsKnowTheirIntake'
      BY <3>2, KnowledgeKept DEF Closes, RunOf, Claimed
    <3>4. n.attempt = i.attempt /\ i.attempt \in 0 .. MaxAttempts
      BY <1>0, <3>1, <3>2 DEF Closes, TypeOK, ItemRow
    <3>5. CASE FailExhaustedItem(e, u)
      <4>1. n.status = "failed" /\ i.attempt = MaxAttempts
        BY <1>0, <3>1, <3>5, ExhaustFacts
      <4> QED
        BY <3>1, <3>2, <3>3, <3>4, <4>1, Bounds, RowReported DEF Closes, ReportInv
    <3>6. CASE CompleteSyncItem(e, u)
      <4>1. w.pc = "settled" /\ MayComplete(e, u)
        BY <1>0, <3>1, <3>6, CompleteFacts
      <4>2. i.attempt = w.token
        BY <1>0, <4>1, CompleterOwnsItem
      <4>3. KnowsIntake(e, u)
        BY <1>0 DEF ReportInv, ThreadsKnowTheirIntake
      <4>4. \/ /\ w.outcome \in {"changed", "unchanged"}
               /\ n.status = w.outcome /\ n.version = w.read
            \/ /\ w.outcome = "error" /\ i.attempt < MaxAttempts
               /\ n.status = "queued"
            \/ /\ \/ w.outcome \in {"refused", "rejected", "lost"}
                  \/ w.outcome = "error" /\ i.attempt >= MaxAttempts
               /\ n.status = "failed"
        BY <1>0, <3>1, <3>6, CompleteFacts
      <4>5. n.status \in {"changed", "unchanged"} =>
              n.attempt \in ingestedBy[RunOf(e)][u] /\ n.version # -1
                /\ n.version <= checkpoint[u]
        BY <3>4, <4>1, <4>2, <4>3, <4>4 DEF KnowsIntake
      <4>6. n.status = "failed" /\ n.attempt \in ingestedBy[RunOf(e)][u] =>
              n.attempt = MaxAttempts
        BY <3>4, <4>1, <4>2, <4>3, <4>4, Bounds DEF KnowsIntake
      <4> QED
        BY <3>1, <3>2, <3>3, <3>4, <4>5, <4>6, Bounds, RowReported DEF Closes, ReportInv
    <3> QED
      BY <2>5, <3>5, <3>6
  <2> QED
    BY <1>0, <1>4, <2>1, <2>2, <2>3, <2>4, <2>5, RetireStep DEF Work, Claim
<1>5. CASE Tick
  <2>1. ThreadsKnowTheirIntake'
    BY <1>0, <1>5, TickFields, TickFacts, KnowledgeKept DEF RunOf
  <2> QED
    BY <1>0, <1>5, <2>1, TickFields, TickFacts, RowsKept DEF ReportInv
<1>6. CASE Aside
  <2>1. ThreadsKnowTheirIntake'
    BY <1>6, KnowledgeKept DEF Aside, RunOf
  <2> QED
    BY <1>6, <2>1, RowsKept DEF Aside, ReportInv
<1> QED
  BY <1>0, <1>1, <1>2, <1>3, <1>4, <1>5, <1>6, StepKinds, LeaveStep

LEMMA ReportInit == Init => ReportInv
BY DEF Init, ReportInv, ThreadsKnowTheirIntake, KnowsIntake, IntakesOfAttempts,
       OutcomeIsOfItsAttempt, OwnIntakeFailsOnlyAtLimit, NoThread, Claimed

\* Leases, locks and reports together: what a thread will say of its item is
\* what its own attempt has committed.
THEOREM SyncInvariant == Spec => []SyncInv
<1>1. SyncInv /\ [Next]_vars => SyncInv'
  <2>1. LeaseInv' => TypeOK'
    BY DEF LeaseInv
  <2> QED
    BY <2>1, LeaseStep, LockStep, ReportStep DEF SyncInv, LockInv
<1>2. Init => SyncInv
  BY LeaseInit, LockInit, ReportInit DEF SyncInv
<1> QED
  BY <1>1, <1>2, PTL DEF Spec

\* An item reported as taken in was taken in by the attempt that closed it.
THEOREM OutcomesAreTrue == Spec => []OutcomeIsOfItsAttempt
<1>1. SyncInv => OutcomeIsOfItsAttempt
  BY DEF SyncInv, ReportInv
<1> QED
  BY <1>1, SyncInvariant, PTL

\* An item fails after an intake of its last attempt only when no attempt is left.
THEOREM FailuresAreLate == Spec => []OwnIntakeFailsOnlyAtLimit
<1>1. SyncInv => OwnIntakeFailsOnlyAtLimit
  BY DEF SyncInv, ReportInv
<1> QED
  BY <1>1, SyncInvariant, PTL

---------------------------------------------------------------------------
(* MCPSync implements SyncContract *)

\* The contract's variables under the refinement mapping of MCPSync.
decisions == [r \in Runs |-> [u \in Uris |-> Decision(item[r][u])]]
outcomes  == [r \in Runs |-> Outcome(run[r])]

LEMMA ContractVars ==
  Contract!cvars = <<decisions, outcomes, checkpoint, created>>
BY DEF Contract!cvars, decisions, outcomes

ContractInv == SyncInv /\ RunInv

LEMMA ContractInit == Init => Contract!CInit
<1> SUFFICES ASSUME Init PROVE Contract!CInit
  OBVIOUS
<1>1. \A r \in Runs : run[r].status = "queued"
        /\ \A u \in Uris : item[r][u].status = "queued"
  BY DEF Init
<1>2. decisions = [r \in Runs |-> [u \in Uris |-> "open"]]
  BY <1>1 DEF decisions, Decision, ItemTerminal
<1>3. outcomes = [r \in Runs |-> "open"]
  BY <1>1 DEF outcomes, Outcome, RunTerminal
<1> QED
  BY <1>2, <1>3 DEF Init, Contract!CInit, decisions, outcomes

\* Rows whose status stays the same, or stays open, mean a stutter.
LEMMA ContractStutter ==
  ASSUME UNCHANGED content,
         \A r \in Runs : Outcome(run'[r]) = Outcome(run[r]),
         \A r \in Runs, u \in Uris : Decision(item'[r][u]) = Decision(item[r][u])
  PROVE  UNCHANGED Contract!cvars
<1>1. decisions' = decisions /\ outcomes' = outcomes
  BY DEF decisions, outcomes
<1> QED
  BY <1>1, ContractVars DEF content, Contract!cvars, decisions, outcomes

LEMMA ContractStage ==
  ASSUME LockInv, NEW u \in Uris, NEW v \in Versions, Stage(u, checkpoint[u], v),
         checkpoint[u] <= v, UNCHANGED <<run, item>>
  PROVE  Contract!StageNewer(u, v) \/ UNCHANGED Contract!cvars
<1>1. UNCHANGED <<decisions, outcomes>>
  BY DEF decisions, outcomes
<1>2. CASE SameText(u, checkpoint[u], v)
  <2>1. UNCHANGED content
    BY <1>2 DEF Stage
  <2> QED
    BY <2>1, ContractStutter
<1>3. CASE ~SameText(u, checkpoint[u], v)
  <2>1. checkpoint' = [checkpoint EXCEPT ![u] = v] /\ created' = [created EXCEPT ![u] = @ + 1]
    BY <1>3 DEF Stage
  <2>2. checkpoint[u] \in Int /\ v \in Nat
    BY Bounds DEF LockInv, TypeOK, Versions
  <2>3. checkpoint[u] # v /\ (checkpoint[u] # -1 => TextAt[u][checkpoint[u]] # TextAt[u][v])
    BY <1>3, <2>2 DEF SameText
  <2>4. v > checkpoint[u]
    BY <2>2, <2>3
  <2> QED
    BY <1>1, <2>1, <2>3, <2>4 DEF Contract!StageNewer, decisions, outcomes
<1> QED
  BY <1>2, <1>3

LEMMA ContractWork ==
  ASSUME ContractInv, ContractInv', NEW e \in Executions, NEW u \in Uris, Work(e, u)
  PROVE  [Contract!CNext]_(Contract!cvars)
<1> DEFINE w == worker[e][u]
           q == RunOf(e)
<1>0. TypeOK /\ ThreadsBelongToWork /\ LockInv /\ RunInv /\ OutcomeIsOfItsAttempt'
        /\ LocksProtectCheckpoints /\ TypeOK'
  BY DEF ContractInv, SyncInv, LeaseInv, ReportInv, LockInv
<1>1. CASE CommitIntake(e, u)
  <2>1. w.pc = "read" /\ Stage(u, w.base, w.read) /\ UNCHANGED <<run, item>>
    BY <1>1 DEF CommitIntake, rows
  <2>2. w.base = checkpoint[u] /\ w.read \in Versions /\ checkpoint[u] <= w.read
    BY <1>0, <2>1, ReadVersion DEF LocksProtectCheckpoints, ThreadLocks, Locking
  <2>3. Contract!StageNewer(u, w.read) \/ UNCHANGED Contract!cvars
    BY <1>0, <2>1, <2>2, ContractStage
  <2> QED
    BY <2>2, <2>3 DEF Contract!CNext
<1>2. CASE ~CommitIntake(e, u)
  <2>1. UNCHANGED content
    BY <1>2 DEF Work, Claim, ClaimRaises, FailExhaustedItem, ClaimSyncItem,
       CheckConnection, LockCheckpoint, ReadResource, ConnectorError, RejectIntake,
       LoseAuthority, CompleteSyncItem, CompletionRefused, ThreadRaises
  <2>2. /\ run' = run
        /\ \A r \in Runs, v \in Uris :
             \/ item'[r][v] = item[r][v]
             \/ /\ r = q /\ v = u
                /\ run[r].status \notin RunTerminal
                /\ item[r][v].status \notin ItemTerminal
    BY <1>0, WorkOnRows
  <2>3. CASE /\ q \in Runs /\ run[q].status \notin RunTerminal
             /\ item[q][u].status \notin ItemTerminal
             /\ item'[q][u].status \in ItemTerminal
    <3> DEFINE d == item'[q][u].status
    <3>1. decisions' = [decisions EXCEPT ![q][u] = d]
      <4>1. Decision(item'[q][u]) = d
        BY <2>3 DEF Decision
      <4>2. \A r \in Runs, v \in Uris : r # q \/ v # u =>
              Decision(item'[r][v]) = Decision(item[r][v])
        BY <2>2
      <4> QED
        BY <2>3, <4>1, <4>2 DEF decisions
    <3>2. decisions[q][u] = "open" /\ outcomes[q] = "open"
      BY <2>3 DEF decisions, outcomes, Decision, Outcome
    <3>3. outcomes' = outcomes
      BY <2>2 DEF outcomes
    <3>4. d # "failed" => checkpoint[u] # -1
      <4>1. ASSUME d # "failed"
            PROVE  item'[q][u].version # -1 /\ item'[q][u].version <= checkpoint'[u]
        BY <1>0, <2>3, <4>1 DEF OutcomeIsOfItsAttempt, ItemTerminal
      <4>2. item'[q][u].version \in Versions \cup {-1} /\ checkpoint' = checkpoint
        BY <1>0, <2>1, <2>3 DEF TypeOK, ItemRow, content
      <4> QED
        BY <4>1, <4>2, Bounds DEF Versions
    <3>5. Contract!Decide(q, u, d)
      BY <2>1, <3>1, <3>2, <3>3, <3>4 DEF Contract!Decide, decisions, outcomes, content
    <3> QED
      BY <2>3, <3>5 DEF Contract!CNext, ItemTerminal
  <2>4. CASE \A r \in Runs, v \in Uris :
               item'[r][v] = item[r][v] \/ item'[r][v].status \notin ItemTerminal
    <3>1. \A r \in Runs, v \in Uris : Decision(item'[r][v]) = Decision(item[r][v])
      BY <2>2, <2>4 DEF Decision
    <3> QED
      BY <2>1, <2>2, <3>1, ContractStutter
  <2> QED
    BY <2>2, <2>3, <2>4
<1> QED
  BY <1>1, <1>2

LEMMA ContractClose ==
  ASSUME ContractInv, ContractInv', NEW e \in Executions, FinalizeSyncRun(e)
  PROVE  [Contract!CNext]_(Contract!cvars)
<1> DEFINE q == RunOf(e)
           o == run'[q].status
<1>0. TypeOK /\ RunAgreesWithItems'
  BY DEF ContractInv, RunInv, LeaseInv
<1>1. q \in Runs
  BY <1>0 DEF FinalizeSyncRun, PoolDrained, TypeOK, RunOf
<1>2. /\ item' = item /\ run[q].status = "running" /\ o \in RunTerminal
      /\ \A u \in Requested[q] : item[q][u].status \in ItemTerminal
      /\ \A r \in Runs : r # q => run'[r] = run[r]
      /\ run'[q].failed = Count(q, "failed")
      /\ o = "succeeded" <=> run'[q].failed = 0
  BY <1>0, <1>1, FinalizeFacts
<1>3. decisions' = decisions /\ UNCHANGED content
  BY <1>2 DEF decisions, FinalizeSyncRun
<1>4. outcomes' = [outcomes EXCEPT ![q] = o] /\ outcomes[q] = "open"
  <2>1. Outcome(run'[q]) = o /\ Outcome(run[q]) = "open"
    BY <1>2 DEF Outcome, RunTerminal
  <2>2. \A r \in Runs : r # q => Outcome(run'[r]) = Outcome(run[r])
    BY <1>2
  <2> QED
    BY <1>1, <2>1, <2>2 DEF outcomes
<1>5. Requested[q] \subseteq Uris
  BY <1>1, SyncAssumption
<1>6. \A u \in Requested[q] : decisions[q][u] = item[q][u].status
  BY <1>1, <1>2, <1>5 DEF decisions, Decision
<1>7. \A u \in Requested[q] : decisions[q][u] # "open"
  BY <1>2, <1>6 DEF ItemTerminal
<1>8. o = "failed" <=> \E u \in Requested[q] : decisions[q][u] = "failed"
  <2> DEFINE F == {u \in Requested[q] : item[q][u].status = "failed"}
  <2>1. IsFiniteSet(F)
    <3>1. F \subseteq Uris
      BY <1>5
    <3> QED
      BY <3>1, FS_Subset, SyncAssumption
  <2>2. Cardinality(F) = 0 <=> F = {}
    BY <2>1, FS_EmptySet
  <2>3. o = "succeeded" <=> F = {}
    BY <1>2, <2>2 DEF Count
  <2>4. o \in {"succeeded", "failed"}
    BY <1>2 DEF RunTerminal
  <2> QED
    BY <1>6, <2>3, <2>4
<1>9. Contract!Close(q, o)
  BY <1>3, <1>4, <1>7, <1>8 DEF Contract!Close, decisions, outcomes, content
<1> QED
  BY <1>1, <1>2, <1>9 DEF Contract!CNext, RunTerminal

LEMMA ContractStep ==
  ContractInv /\ ContractInv' /\ [Next]_vars => [Contract!CNext]_(Contract!cvars)
<1> SUFFICES ASSUME ContractInv, ContractInv', [Next]_vars
             PROVE  [Contract!CNext]_(Contract!cvars)
  OBVIOUS
<1>0. TypeOK /\ ThreadsBelongToWork /\ LockInv /\ LocksProtectCheckpoints
  BY DEF ContractInv, SyncInv, LeaseInv, LockInv
<1>1. ASSUME UNCHANGED <<run, item, content>>
      PROVE  UNCHANGED Contract!cvars
  BY <1>1, ContractStutter
<1>2. ASSUME NEW e \in Executions, NEW r \in Runs, ClaimCoordinator(e, r)
      PROVE  UNCHANGED Contract!cvars
  <2>1. /\ item' = item /\ run'[r].status = "running" /\ run[r].status \notin RunTerminal
        /\ \A p \in Runs : p # r => run'[p] = run[p]
    BY <1>0, <1>2, ClaimCoordinatorFacts
  <2>2. UNCHANGED content
    BY <1>2 DEF ClaimCoordinator
  <2>3. \A p \in Runs : Outcome(run'[p]) = Outcome(run[p])
    BY <2>1 DEF Outcome, RunTerminal
  <2> QED
    BY <2>1, <2>2, <2>3, ContractStutter
<1>3. ASSUME NEW e \in Executions, SubmitItems(e) \/ AbandonRun(e) \/ Crash(e)
      PROVE  UNCHANGED <<run, item, content>>
  BY <1>3 DEF SubmitItems, AbandonRun, Crash, rows
<1>4. ASSUME NEW u \in Interactive, IntakeManually(u)
      PROVE  [Contract!CNext]_(Contract!cvars)
  <2> DEFINE m == manual[u]
  <2>1. CASE ManualCommit(u)
    <3>1. u \in Uris
      BY SyncAssumption
    <3>2. m.pc = "read" /\ Stage(u, m.base, m.read) /\ UNCHANGED <<run, item>>
      BY <2>1 DEF ManualCommit, ManualEnd, rows
    <3>3. m.base = checkpoint[u] /\ m.read \in Versions /\ checkpoint[u] <= m.read
      BY <1>0, <3>1, <3>2, ReadVersion DEF LocksProtectCheckpoints, IntakeLocks, Locking
    <3>4. Contract!StageNewer(u, m.read) \/ UNCHANGED Contract!cvars
      BY <1>0, <3>1, <3>2, <3>3, ContractStage
    <3> QED
      BY <3>1, <3>3, <3>4 DEF Contract!CNext
  <2>2. CASE ~ManualCommit(u)
    <3>1. UNCHANGED <<run, item, content>>
      BY <1>4, <2>2 DEF IntakeManually, ManualStart, ManualLock, ManualRead, ManualFail,
                        ManualEnd, rows
    <3> QED
      BY <1>1, <3>1
  <2> QED
    BY <2>1, <2>2
<1>5. ASSUME \/ \E u \in Uris : RemoteChange(u)
             \/ ChangeAuthority \/ UNCHANGED vars
      PROVE  UNCHANGED <<run, item, content>>
  BY <1>5 DEF RemoteChange, ChangeAuthority, vars, rows, content
<1>6. CASE Tick
  <2>1. UNCHANGED content
    BY <1>6 DEF Tick
  <2>2. /\ \A r \in Runs : Outcome(run'[r]) = Outcome(run[r])
        /\ \A r \in Runs, u \in Uris : Decision(item'[r][u]) = Decision(item[r][u])
    BY <1>0, <1>6, TickFields DEF Outcome, Decision
  <2> QED
    BY <2>1, <2>2, ContractStutter
<1> QED
  BY <1>1, <1>2, <1>3, <1>4, <1>5, <1>6, ContractWork, ContractClose DEF Next, Coordinate

\* Leases, retries, crashes and interactive intakes implement the contract.
THEOREM SyncImplementsContract == Spec => ImplementsContract
<1>1. ContractInv /\ ContractInv' /\ [Next]_vars => [Contract!CStep]_(Contract!cvars)
  BY ContractStep DEF Contract!CStep
<1>2. SyncInv /\ RunInv => ContractInv
  BY DEF ContractInv
<1> QED
  BY <1>1, <1>2, ContractInit, SyncInvariant, RunInvariant, PTL
     DEF Spec, ImplementsContract, Contract!CSpec

---------------------------------------------------------------------------
(* Runs that end *)

\* A system whose scheduler keeps polling and whose faults are finite is one of
\* those above: every run that ends, as it then must, ends with all that was
\* proved of it, and the counters it shows are those of its items.
THEOREM LiveRunsAreRuns == LiveSpec => Spec /\ []RunAgreesWithItems /\ ImplementsContract
<1>1. ASSUME Fault PROVE Next
  BY <1>1 DEF Fault, Next, Work
<1>2. ASSUME NEW e \in Executions, NEW u \in Uris, Proceed(e, u) PROVE Work(e, u)
  BY <1>2 DEF Proceed, Work
<1>3. ASSUME NEW e \in Executions, Conclude(e) \/ \E r \in Runs : ClaimCoordinator(e, r)
      PROVE  Coordinate(e)
  BY <1>3 DEF Conclude, Coordinate
<1>4. [LiveNext]_liveVars => [Next]_vars
  BY <1>1, <1>2, <1>3 DEF LiveNext, Poll, Next, Work, liveVars
<1>5. LiveSpec => Spec
  BY <1>4, PTL DEF LiveSpec, Spec
<1> QED
  BY <1>5, RunsAgree, SyncImplementsContract, PTL
=============================================================================
