----------------------------- MODULE MCPSyncLive -----------------------------
(***************************************************************************)
(* Recovery of scheduled runs: MCPSync with a scheduler that keeps polling *)
(* run_scheduler_cycle, a finite number of faults, and a clock that is     *)
(* fast only when a fault makes it so.  A fault is a crash of a process, a *)
(* thread lost to a database error, or a delay that lets time pass although*)
(* a thread could act; failures of the connector and changes of the        *)
(* connection are not faults and are unlimited.                            *)
(***************************************************************************)
EXTENDS MCPSync

CONSTANT MaxFaults  \* bound: crashes, lost threads and delays together

ASSUME MaxFaultsAssumption == MaxFaults \in Nat

VARIABLE faults

liveVars == <<vars, faults>>

\* What executions and their threads do by themselves.
Conclude(e) == SubmitItems(e) \/ FinalizeSyncRun(e) \/ AbandonRun(e)

Proceed(e, u) ==
  \/ Claim(e, u)
  \/ CheckConnection(e, u)
  \/ LockCheckpoint(e, u)
  \/ ReadResource(e, u)
  \/ CommitIntake(e, u)
  \/ RejectIntake(e, u)
  \/ LoseAuthority(e, u)
  \/ CompleteSyncItem(e, u)
  \/ CompletionRefused(e, u)

Busy ==
  \/ \E e \in Executions : ENABLED Conclude(e)
  \/ \E e \in Executions, u \in Uris : ENABLED Proceed(e, u)

\* A scheduler process claims a run that is queued or whose lease is over.
Poll(r) == \E e \in Executions : ClaimCoordinator(e, r)

Fault ==
  /\ faults < MaxFaults
  /\ faults' = faults + 1
  /\ \/ \E e \in Executions : Crash(e)
     \/ \E e \in Executions, u \in Uris : ThreadRaises(e, u)
     \/ Tick /\ Busy

LiveNext ==
  \/ /\ UNCHANGED faults
     /\ \/ \E r \in Runs : Poll(r)
        \/ \E e \in Executions : Conclude(e)
        \/ \E e \in Executions, u \in Uris :
             Proceed(e, u) \/ ConnectorError(e, u)
        \/ \E u \in Interactive : IntakeManually(u)
        \/ \E u \in Uris : RemoteChange(u)
        \/ ChangeAuthority
        \/ Tick /\ ~Busy
  \/ Fault

\* Every thread of a live process eventually acts, blocked checkpoint locks
\* are granted in turn, time passes when nothing else happens, and the
\* scheduler polls again and again.
LiveFairness ==
  /\ \A e \in Executions : WF_liveVars(Conclude(e) /\ UNCHANGED faults)
  /\ \A e \in Executions, u \in Uris :
       /\ WF_liveVars(Proceed(e, u) /\ UNCHANGED faults)
       /\ SF_liveVars(LockCheckpoint(e, u) /\ UNCHANGED faults)
  /\ \A u \in Interactive :
       WF_liveVars((ManualRead(u) \/ ManualCommit(u) \/ ManualFail(u))
                     /\ UNCHANGED faults)
  /\ WF_liveVars(Tick /\ ~Busy /\ UNCHANGED faults)
  /\ \A r \in Runs : WF_liveVars(Poll(r) /\ UNCHANGED faults)

LiveSpec == Init /\ faults = 0 /\ [][LiveNext]_liveVars /\ LiveFairness

\* Every scheduled run ends, whatever the server answers and however often
\* the connection is switched off, once crashes and delays stop: an expired
\* coordinator is replaced, attempts run out, and the last open item is
\* closed even if the thread that took its text in never reported it.
EveryRunEnds == \A r \in Runs : <>(run[r].status \in RunTerminal)
=============================================================================
