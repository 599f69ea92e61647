-------------------------- MODULE MCPSchedulerLive --------------------------
(***************************************************************************)
(* Progress of due schedules: MCPScheduler with dispatchers that keep      *)
(* dispatching (scripts/run_mcp_scheduler.py polls every few seconds) and  *)
(* a finite number of crashes.  Users may edit schedules, connections may  *)
(* become unusable and catalogs may change without end.                    *)
(***************************************************************************)
EXTENDS MCPScheduler

CONSTANT MaxFaults  \* bound: dispatches that crash

ASSUME MaxFaultsAssumption == MaxFaults \in Nat

VARIABLE faults

liveVars == <<vars, faults>>

\* The database aborts one of two dispatchers that wait for each other.
ResolveDeadlock(d) ==
  /\ \E e \in Dispatchers \ {d} : WaitsFor(d, e) /\ WaitsFor(e, d)
  /\ AbortDispatch(d)

Fault ==
  /\ faults < MaxFaults
  /\ faults' = faults + 1
  /\ \E d \in Dispatchers : AbortDispatch(d)

LiveNext ==
  \/ /\ UNCHANGED faults
     /\ \/ \E s \in Schedules : Edit(s)
        \/ \E d \in Dispatchers : DispatchStep(d) \/ ResolveDeadlock(d)
        \/ \E s \in Schedules, t \in Times : EndRun(s, t)
        \/ \E s \in Schedules : ChangeCatalog(s)
        \/ \E c \in Connections : ChangeAuthority(c)
        \/ Advance
  \/ Fault

\* A live dispatcher keeps going; nothing is assumed of users, of the clock,
\* of discovery or of the executions.
LiveFairness ==
  \A d \in Dispatchers :
    /\ WF_liveVars(DispatchStep(d) /\ UNCHANGED faults)
    /\ WF_liveVars(ResolveDeadlock(d) /\ UNCHANGED faults)

LiveSpec == Init /\ faults = 0 /\ [][LiveNext]_liveVars /\ LiveFairness

IsDue(s, t) ==
  schedule[s].state = "on" /\ schedule[s].due = t /\ t <= clock

\* A run by hand at the very instant of a slot blocks every dispatch.
Blocked ==
  \E s \in Schedules : IsDue(s, schedule[s].due) /\ SlotTaken(s)

\* No due slot waits for ever, whatever becomes of the other schedules: it
\* is turned into a run, passed over or withdrawn.  Invalid schedules do not
\* starve valid ones.  (Blocked is the exception the code has.)
DueSlotsAreTaken ==
  \A s \in Schedules, t \in Times : IsDue(s, t) ~> (~IsDue(s, t) \/ Blocked)
=============================================================================
