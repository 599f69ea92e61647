---------------------------- MODULE MCPScheduler ----------------------------
(***************************************************************************)
(* Schedules of saved MCP connections and the dispatchers that turn their  *)
(* due slots into sync runs                                                *)
(* (apps/api/src/company_brain/api/generic_mcp_integrations.py).           *)
(*                                                                         *)
(* dispatch_due_sync_schedules is one long transaction: it reads the       *)
(* clock, locks a batch of due schedules that nobody else has locked, then *)
(* locks the connections one after the other and commits everything at the *)
(* end.  Several dispatchers, the users who edit schedules or run them     *)
(* now, discovery and the executions of the runs interleave with it.  What *)
(* a dispatcher decided is invisible (plan) until it commits.              *)
(*                                                                         *)
(* The execution of a run is the subject of MCPSync; here a run is open    *)
(* (queued or running) until it ends.  Time is counted in clock units of   *)
(* which Second make a second, because next_due_at carries fractions that  *)
(* the computation of the next slot truncates.                             *)
(***************************************************************************)
EXTENDS Integers, FiniteSets

CONSTANTS
  Schedules,     \* schedules of a tenant, numbered in the order of their ids
  Connections,   \* their connections
  ConnectionOf,  \* ConnectionOf[s]: the connection of schedule s
  Dispatchers,   \* processes that may dispatch at the same time
  BatchSize,     \* schedules one dispatch takes
  Intervals,     \* the intervals users choose, in seconds
  Second,        \* clock units in a second
  Unstable,      \* bound: schedules and connections that may become invalid
  MaxTime,       \* bound: the clock stops there
  MaxManual,     \* bound: runs users ask for by hand, per schedule
  Nobody         \* holder of a free lock

ASSUME SchedulerAssumption ==
  /\ Schedules \subseteq Nat
  /\ IsFiniteSet(Schedules)
  /\ ConnectionOf \in [Schedules -> Connections]
  /\ Intervals \subseteq Nat \ {0}
  /\ Second \in Nat \ {0}
  /\ BatchSize \in Nat \ {0}
  /\ MaxTime \in Nat
  /\ MaxManual \in Nat
  /\ Nobody \notin Dispatchers

VARIABLES
  clock,         \* database clock
  schedule,      \* mcp_sync_schedules
  tick,          \* mcp_schedule_ticks, by schedule and scheduled_for
  usable,        \* connection enabled, credential present, endpoint allowed
  selected,      \* the catalog offers all resources of the schedule
  dispatcher,    \* dispatches in progress
  scheduleLock,  \* holder of the row lock of a schedule
  connectionLock \* holder of the row lock of a connection

vars == <<clock, schedule, tick, usable, selected, dispatcher,
          scheduleLock, connectionLock>>

---------------------------------------------------------------------------
Times == 0 .. MaxTime

ScheduleRow == [state : {"absent", "on", "off"}, interval : Nat, due : Nat]
NoSchedule  == [state |-> "absent", interval |-> 0, due |-> 0]

TickRow == [trigger : {"interval", "manual"}, run : {"open", "ended"}]
NoTick  == [trigger |-> "none", run |-> "none"]

\* What a dispatch has decided about a schedule it holds.
Plans == {"none", "skip", "run"}

Dispatch == [pc : {"idle", "selecting", "working"}, now : Nat,
             todo : SUBSET Schedules, plan : [Schedules -> Plans]]
NoDispatch == [pc |-> "idle", now |-> 0, todo |-> {},
               plan |-> [s \in Schedules |-> "none"]]

Init ==
  /\ clock = 0
  /\ schedule = [s \in Schedules |-> NoSchedule]
  /\ tick = [s \in Schedules |-> [t \in Times |-> NoTick]]
  /\ usable = [c \in Connections |-> TRUE]
  /\ selected = [s \in Schedules |-> TRUE]
  /\ dispatcher = [d \in Dispatchers |-> NoDispatch]
  /\ scheduleLock = [s \in Schedules |-> Nobody]
  /\ connectionLock = [c \in Connections |-> Nobody]

ScheduleFree(s) == scheduleLock[s] = Nobody

\* Mutant of ConnectionFree: the connection is read without its row lock.
ConnectionFreeAlways(s) == TRUE

ConnectionFree(s) == connectionLock[ConnectionOf[s]] = Nobody

HasOpenRun(s) == \E t \in Times : tick[s][t].run = "open"
Span(i)       == i * Second

---------------------------------------------------------------------------
(* Requests that edit a schedule: each is one transaction that locks the  *)
(* schedule, then its connection, and reads the clock after that.  A      *)
(* request that is refused changes nothing but the audit.                 *)

CreateSchedule(s, i) ==
  /\ schedule[s].state = "absent"
  /\ ConnectionFree(s)
  /\ usable[ConnectionOf[s]]
  /\ selected[s]
  /\ schedule' = [schedule EXCEPT ![s] =
       [state |-> "on", interval |-> i, due |-> clock + Span(i)]]
  /\ UNCHANGED <<clock, tick, usable, selected, dispatcher,
                 scheduleLock, connectionLock>>

\* The payload { "enabled": false } and nothing else: no authority needed.
DisableSchedule(s) ==
  /\ schedule[s].state # "absent"
  /\ ScheduleFree(s) /\ ConnectionFree(s)
  /\ schedule' = [schedule EXCEPT ![s].state = "off"]
  /\ UNCHANGED <<clock, tick, usable, selected, dispatcher,
                 scheduleLock, connectionLock>>

Keep == 0   \* a payload without an interval

\* Any other payload: a new interval or none, a new state or none ("keep"),
\* resources of the catalog or none.  A new interval and a re-enabled
\* schedule both start a new period now.
UpdateSchedule(s, i, state, replace) ==
  LET row == schedule[s]
      interval == IF i = Keep THEN row.interval ELSE i
      restart == i # Keep \/ (state = "on" /\ row.state = "off")
  IN
  /\ row.state # "absent"
  /\ ScheduleFree(s) /\ ConnectionFree(s)
  /\ usable[ConnectionOf[s]]
  /\ schedule' = [schedule EXCEPT ![s] =
       [state    |-> IF state = "keep" THEN row.state ELSE state,
        interval |-> interval,
        due      |-> IF restart THEN clock + Span(interval) ELSE row.due]]
  /\ selected' = [selected EXCEPT ![s] = @ \/ replace]
  /\ UNCHANGED <<clock, tick, usable, dispatcher,
                 scheduleLock, connectionLock>>

\* No run in progress keeps a user from starting another one.  A second run
\* in the same clock unit violates the uniqueness of ticks and is refused.
RunScheduleNow(s) ==
  /\ schedule[s].state = "on"
  /\ ScheduleFree(s) /\ ConnectionFree(s)
  /\ usable[ConnectionOf[s]]
  /\ selected[s]
  /\ Cardinality({t \in Times : tick[s][t].trigger = "manual"}) < MaxManual
  /\ tick[s][clock] = NoTick
  /\ tick' = [tick EXCEPT ![s][clock] = [trigger |-> "manual", run |-> "open"]]
  /\ UNCHANGED <<clock, schedule, usable, selected, dispatcher,
                 scheduleLock, connectionLock>>

---------------------------------------------------------------------------
(* dispatch_due_sync_schedules *)

ReadClock(d) ==
  /\ dispatcher[d].pc = "idle"
  /\ dispatcher' = [dispatcher EXCEPT ![d] =
       [NoDispatch EXCEPT !.pc = "selecting", !.now = clock]]
  /\ UNCHANGED <<clock, schedule, tick, usable, selected,
                 scheduleLock, connectionLock>>

Before(s, t) ==
  \/ schedule[s].due < schedule[t].due
  \/ schedule[s].due = schedule[t].due /\ s < t

\* FOR UPDATE SKIP LOCKED: schedules others hold are left to them.
Due(d) ==
  {s \in Schedules : /\ schedule[s].state = "on"
                     /\ schedule[s].due <= dispatcher[d].now
                     /\ ScheduleFree(s)}

Batch(d) ==
  {s \in Due(d) : Cardinality({t \in Due(d) : Before(t, s)}) < BatchSize}

LockDue(d) ==
  /\ dispatcher[d].pc = "selecting"
  /\ dispatcher' = [dispatcher EXCEPT ![d].pc = "working", ![d].todo = Batch(d)]
  /\ scheduleLock' = [s \in Schedules |->
                        IF s \in Batch(d) THEN d ELSE scheduleLock[s]]
  /\ UNCHANGED <<clock, schedule, tick, usable, selected, connectionLock>>

IsNext(d, s) ==
  /\ dispatcher[d].pc = "working"
  /\ s \in dispatcher[d].todo
  /\ \A t \in dispatcher[d].todo \ {s} : Before(s, t)

ConnectionFreeFor(d, s) ==
  ConnectionFree(s) \/ connectionLock[ConnectionOf[s]] = d

\* Mutant of Runnable: an open run of an earlier slot is not looked for.
RunnableAnyway(s) == usable[ConnectionOf[s]] /\ selected[s]

Runnable(s) == usable[ConnectionOf[s]] /\ selected[s] /\ ~HasOpenRun(s)

SlotTaken(s) == schedule[s].due \in Times /\ tick[s][schedule[s].due] # NoTick

\* Locks the connection of the next schedule and decides about its slot.
DecideSlot(d, s) ==
  /\ IsNext(d, s)
  /\ ConnectionFreeFor(d, s)
  /\ ~(Runnable(s) /\ SlotTaken(s))
  /\ connectionLock' = [connectionLock EXCEPT ![ConnectionOf[s]] = d]
  /\ dispatcher' = [dispatcher EXCEPT
       ![d].todo = @ \ {s},
       ![d].plan[s] = IF Runnable(s) THEN "run" ELSE "skip"]
  /\ UNCHANGED <<clock, schedule, tick, usable, selected, scheduleLock>>

\* _advance_schedule_due.
\* Mutants of Advanced: one period only; the current slot again; backwards.
AdvancedOnce(due, i, now) == due + Span(i)
AdvancedLate(due, i, now) ==
  due + Span((((now - due) \div Second) \div i) * i)
AdvancedBack(due, i, now) ==
  due - Span((((now - due) \div Second) \div i + 1) * i)

Advanced(due, i, now) ==
  LET elapsed == IF now > due THEN (now - due) \div Second ELSE 0
  IN  due + Span((elapsed \div i + 1) * i)

Release(d) ==
  /\ dispatcher' = [dispatcher EXCEPT ![d] = NoDispatch]
  /\ scheduleLock' = [s \in Schedules |->
       IF scheduleLock[s] = d THEN Nobody ELSE scheduleLock[s]]
  /\ connectionLock' = [c \in Connections |->
       IF connectionLock[c] = d THEN Nobody ELSE connectionLock[c]]
  /\ UNCHANGED <<clock, usable, selected>>

\* Mutant of Advances: a slot that is passed over stays due.
AdvancesOnlyRuns(p) == p = "run"

\* Every schedule of the batch moves on, whether or not its slot is used.
Advances(p) == p \in {"skip", "run"}

CommitDispatch(d) ==
  LET w == dispatcher[d] IN
  /\ w.pc = "working"
  /\ w.todo = {}
  /\ schedule' = [s \in Schedules |->
       IF Advances(w.plan[s])
         THEN [schedule[s] EXCEPT
                 !.due = Advanced(@, schedule[s].interval, w.now)]
         ELSE schedule[s]]
  /\ tick' = [s \in Schedules |-> [t \in Times |->
       IF w.plan[s] = "run" /\ t = schedule[s].due
         THEN [trigger |-> "interval", run |-> "open"] ELSE tick[s][t]]]
  /\ Release(d)

\* A tick of the slot's very instant exists already: the unique key raises
\* and with it the whole batch is rolled back.
DispatchCollides(d, s) ==
  /\ IsNext(d, s)
  /\ ConnectionFreeFor(d, s)
  /\ Runnable(s) /\ SlotTaken(s)
  /\ Release(d)
  /\ UNCHANGED <<schedule, tick>>

\* A crash, a database error, or the database choosing d as the victim of a
\* deadlock between dispatchers that hold each other's connections.
AbortDispatch(d) ==
  /\ dispatcher[d].pc # "idle"
  /\ Release(d)
  /\ UNCHANGED <<schedule, tick>>

WaitsFor(d, e) ==
  \E s \in Schedules : IsNext(d, s) /\ connectionLock[ConnectionOf[s]] = e

\* The triggers of migration 073cc76cf70d: a tick is written once, for good.
\* What becomes of its run is no change of the tick.
TickSealed(old, new) ==
  old # NoTick => new.trigger = old.trigger /\ (old.run = "ended" => new = old)

---------------------------------------------------------------------------
(* The environment *)

\* An execution (MCPSync) closes the run of a tick.
EndRun(s, t) ==
  /\ tick[s][t].run = "open"
  /\ tick' = [tick EXCEPT ![s][t].run = "ended"]
  /\ UNCHANGED <<clock, schedule, usable, selected, dispatcher,
                 scheduleLock, connectionLock>>

\* A completed discovery cycle, which holds the connection's row lock.
ChangeCatalog(s) ==
  /\ s \in Unstable
  /\ ConnectionFree(s)
  /\ selected' = [selected EXCEPT ![s] = ~@]
  /\ UNCHANGED <<clock, schedule, tick, usable, dispatcher,
                 scheduleLock, connectionLock>>

ChangeAuthority(c) ==
  /\ c \in Unstable
  /\ usable' = [usable EXCEPT ![c] = ~@]
  /\ UNCHANGED <<clock, schedule, tick, selected, dispatcher,
                 scheduleLock, connectionLock>>

Advance ==
  /\ clock < MaxTime
  /\ clock' = clock + 1
  /\ UNCHANGED <<schedule, tick, usable, selected, dispatcher,
                 scheduleLock, connectionLock>>

---------------------------------------------------------------------------
Edit(s) ==
  \/ \E i \in Intervals : CreateSchedule(s, i)
  \/ DisableSchedule(s)
  \/ \E i \in Intervals \cup {Keep}, state \in {"on", "off", "keep"},
        replace \in BOOLEAN : UpdateSchedule(s, i, state, replace)
  \/ RunScheduleNow(s)

DispatchStep(d) ==
  \/ ReadClock(d)
  \/ LockDue(d)
  \/ \E s \in Schedules : DecideSlot(d, s) \/ DispatchCollides(d, s)
  \/ CommitDispatch(d)

Next ==
  \/ \E s \in Schedules : Edit(s)
  \/ \E d \in Dispatchers : DispatchStep(d) \/ AbortDispatch(d)
  \/ \E s \in Schedules, t \in Times : EndRun(s, t)
  \/ \E s \in Schedules : ChangeCatalog(s)
  \/ \E c \in Connections : ChangeAuthority(c)
  \/ Advance

Spec == Init /\ [][Next]_vars

---------------------------------------------------------------------------
(* Properties *)

TypeOK ==
  /\ clock \in Times
  /\ schedule \in [Schedules -> ScheduleRow]
  /\ tick \in [Schedules -> [Times -> TickRow \cup {NoTick}]]
  /\ usable \in [Connections -> BOOLEAN]
  /\ selected \in [Schedules -> BOOLEAN]
  /\ dispatcher \in [Dispatchers -> Dispatch]
  /\ scheduleLock \in [Schedules -> Dispatchers \cup {Nobody}]
  /\ connectionLock \in [Connections -> Dispatchers \cup {Nobody}]

\* Dispatchers never put two runs of one schedule to work at the same time:
\* while the run of one slot is open, every later slot is passed over.
OneIntervalRunAtATime ==
  \A s \in Schedules, t, u \in Times :
    /\ tick[s][t] = [trigger |-> "interval", run |-> "open"]
    /\ tick[s][u] = [trigger |-> "interval", run |-> "open"]
    => t = u

\* A slot that became a run lies in the past of its schedule: neither a
\* later edit nor a dispatcher with an old reading of the clock brings it
\* back as the next one.
SlotsOnlyForward ==
  \A s \in Schedules, t \in Times :
    tick[s][t].trigger = "interval" => t < schedule[s].due

\* What a dispatcher decided is still true when it commits: the schedule is
\* on, its resources are offered, the slot is due, and no other run of the
\* schedule has been started meanwhile.  A tick another one wrote for the slot
\* it never replaces.
DispatchIsCurrent ==
  [][\A s \in Schedules, t \in Times :
       /\ TickSealed(tick[s][t], tick'[s][t])
       /\ tick[s][t] = NoTick /\ tick'[s][t].trigger = "interval" =>
            /\ schedule[s].state = "on"
            /\ schedule[s].due = t /\ t <= clock
            /\ selected[s]
            /\ ~HasOpenRun(s)]_vars

\* A slot taken by a dispatcher leads to the first slot after the instant at
\* which the dispatcher read the clock, on the grid of the old slot: missed
\* periods coalesce, none is counted twice, whatever the fractions.
DispatchCoalesces ==
  [][\A d \in Dispatchers, s \in Schedules :
       LET period == Span(schedule[s].interval) IN
       dispatcher[d].plan[s] # "none" /\ schedule'[s] # schedule[s] =>
         /\ dispatcher[d].now < schedule'[s].due
         /\ schedule'[s].due - period <= dispatcher[d].now
         /\ (schedule'[s].due - schedule[s].due) % period = 0]_vars
=============================================================================
