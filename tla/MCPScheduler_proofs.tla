------------------------- MODULE MCPScheduler_proofs -------------------------
(***************************************************************************)
(* Proofs about MCPScheduler: slots lead forward, dispatchers coalesce     *)
(* missed periods and never put two runs of a schedule to work, for every  *)
(* number of schedules, connections and dispatchers, every batch size,     *)
(* every interval and every resolution of the clock.                       *)
(***************************************************************************)
EXTENDS MCPSchedulerLive, TLAPS

---------------------------------------------------------------------------
(* The next slot *)

LEMMA Division ==
  ASSUME NEW x \in Nat, NEW m \in Nat \ {0}
  PROVE  /\ x \div m \in Nat
         /\ m * (x \div m) <= x
         /\ x < m * (x \div m) + m
BY SMT

LEMMA Product ==
  ASSUME NEW m \in Nat, NEW a \in Nat, NEW b \in Nat, a <= b
  PROVE  m * a <= m * b /\ m * a \in Nat
BY SMT

LEMMA Remainder ==
  ASSUME NEW k \in Nat, NEW m \in Nat \ {0}
  PROVE  (k * m) % m = 0
BY SMT

\* The first slot after now on the grid of the old one (_advance_schedule_due).
LEMMA NextSlot ==
  ASSUME NEW due \in Nat, NEW i \in Nat \ {0}, NEW now \in Nat
  PROVE  /\ Advanced(due, i, now) \in Nat /\ Span(i) \in Nat \ {0}
         /\ now < Advanced(due, i, now) /\ due < Advanced(due, i, now)
         /\ due <= now => Advanced(due, i, now) - Span(i) <= now
         /\ (Advanced(due, i, now) - due) % Span(i) = 0
<1>0. Second \in Nat \ {0}
  BY SchedulerAssumption
<1> DEFINE late == IF now > due THEN now - due ELSE 0
           seconds == IF now > due THEN (now - due) \div Second ELSE 0
           periods == seconds \div i
           ahead == periods + 1
<1>1. late \in Nat /\ now <= due + late /\ (due <= now => due + late = now)
  OBVIOUS
<1>2. seconds \in Nat /\ Second * seconds <= late /\ late < Second * seconds + Second
  BY <1>0, Division
<1>3. periods \in Nat /\ i * periods <= seconds /\ seconds < i * periods + i
  BY <1>2, Division
<1>4. Advanced(due, i, now) = due + (ahead * i) * Second
  BY DEF Advanced, Span
<1> HIDE DEF late, seconds, periods
<1>5. ahead \in Nat /\ ahead * i = i * periods + i /\ ahead * i \in Nat
  BY <1>3
<1>6. seconds + 1 <= ahead * i /\ i * periods <= seconds
  BY <1>2, <1>3, <1>5
<1>7. Second * (seconds + 1) <= Second * (ahead * i)
  BY <1>0, <1>2, <1>5, <1>6, Product
<1>8. Second * (i * periods) <= Second * seconds
  BY <1>0, <1>2, <1>3, <1>6, Product
<1>9. Second * (seconds + 1) = Second * seconds + Second
  BY <1>0, <1>2
<1>10. /\ Span(i) = Second * i /\ Second * i \in Nat \ {0}
       /\ (ahead * i) * Second = Second * (ahead * i)
       /\ Second * (ahead * i) = Second * (i * periods) + Second * i
       /\ Second * (ahead * i) = ahead * (Second * i)
  BY <1>0, <1>3, <1>5 DEF Span
<1>11. Second * (ahead * i) \in Nat /\ Second * (i * periods) \in Nat /\ Second * seconds \in Nat
  BY <1>0, <1>2, <1>3, <1>5
<1> HIDE DEF ahead
<1>12. (ahead * (Second * i)) % (Second * i) = 0
  BY <1>5, <1>10, Remainder
<1>13. (Advanced(due, i, now) - due) % Span(i) = 0
  BY <1>4, <1>10, <1>11, <1>12
<1>14. now < Advanced(due, i, now) /\ due < Advanced(due, i, now)
  BY <1>0, <1>1, <1>2, <1>4, <1>7, <1>9, <1>10, <1>11
<1>15. due <= now => Advanced(due, i, now) - Span(i) <= now
  BY <1>1, <1>2, <1>4, <1>8, <1>10, <1>11
<1> QED
  BY <1>4, <1>10, <1>11, <1>13, <1>14, <1>15

---------------------------------------------------------------------------
(* Type correctness *)

\* A schedule that exists has one of the intervals users choose.
IntervalsChosen ==
  \A s \in Schedules : schedule[s].state # "absent" => schedule[s].interval \in Intervals

TypeInv == TypeOK /\ IntervalsChosen

LEMMA TypeInit == Init => TypeInv
<1> SUFFICES ASSUME Init PROVE TypeInv
  OBVIOUS
<1>1. NoSchedule \in ScheduleRow /\ NoSchedule.state = "absent"
  BY DEF NoSchedule, ScheduleRow
<1>2. NoDispatch \in Dispatch
  BY DEF NoDispatch, Dispatch, Plans
<1>3. clock \in Times
  BY SchedulerAssumption DEF Init, Times
<1> QED
  BY <1>1, <1>2, <1>3 DEF Init, TypeInv, TypeOK, IntervalsChosen

\* Edits of a row, as DisableSchedule, UpdateSchedule and a dispatch make them.
LEMMA RowEdits ==
  ASSUME NEW row \in ScheduleRow, NEW state \in {"on", "off"}, NEW due \in Nat
  PROVE  /\ [row EXCEPT !.state = state] \in ScheduleRow
         /\ [row EXCEPT !.state = state].state = state
         /\ [row EXCEPT !.state = state].interval = row.interval
         /\ [row EXCEPT !.state = state].due = row.due
         /\ [row EXCEPT !.due = due] \in ScheduleRow
         /\ [row EXCEPT !.due = due].state = row.state
         /\ [row EXCEPT !.due = due].interval = row.interval
         /\ [row EXCEPT !.due = due].due = due
BY DEF ScheduleRow

LEMMA TickEnds ==
  ASSUME NEW row \in TickRow \cup {NoTick}, row.run = "open"
  PROVE  /\ [row EXCEPT !.run = "ended"] \in TickRow
         /\ [row EXCEPT !.run = "ended"].trigger = row.trigger
         /\ [row EXCEPT !.run = "ended"].run = "ended"
BY DEF TickRow, NoTick

LEMMA SpanPositive ==
  ASSUME NEW i \in Intervals PROVE i \in Nat \ {0} /\ Span(i) \in Nat \ {0}
<1>1. i \in Nat \ {0} /\ Second \in Nat \ {0}
  BY SchedulerAssumption
<1> QED
  BY <1>1 DEF Span

\* What an edit leaves of the row it is about.
Edited(s, row) ==
  /\ schedule' = [schedule EXCEPT ![s] = row]
  /\ row \in ScheduleRow /\ row.state # "absent" /\ row.interval \in Intervals
  /\ schedule[s].state = "absent" \/ ScheduleFree(s)
  /\ \/ clock < row.due
     \/ schedule[s].state # "absent" /\ row.due = schedule[s].due
  /\ UNCHANGED <<clock, tick, usable, dispatcher, scheduleLock, connectionLock>>
  /\ \A t \in Schedules : selected'[t] = selected[t] \/ ScheduleFree(t)
  /\ selected' \in [Schedules -> BOOLEAN]

LEMMA EditsOfRows ==
  ASSUME TypeInv, NEW s \in Schedules
  PROVE  /\ \A i \in Intervals : CreateSchedule(s, i) => \E row : Edited(s, row)
         /\ DisableSchedule(s) => \E row : Edited(s, row)
         /\ \A i \in Intervals \cup {Keep}, state \in {"on", "off", "keep"},
               replace \in BOOLEAN :
              UpdateSchedule(s, i, state, replace) => \E row : Edited(s, row)
<1>0. /\ schedule[s] \in ScheduleRow /\ clock \in Nat /\ selected \in [Schedules -> BOOLEAN]
      /\ schedule[s].state # "absent" => schedule[s].interval \in Intervals
      /\ Intervals \subseteq Nat
  BY SchedulerAssumption DEF TypeInv, TypeOK, IntervalsChosen, Times
<1>1. ASSUME NEW i \in Intervals, CreateSchedule(s, i) PROVE \E row : Edited(s, row)
  <2> DEFINE row == [state |-> "on", interval |-> i, due |-> clock + Span(i)]
  <2>1. /\ row \in ScheduleRow /\ row.state = "on" /\ row.interval = i
        /\ row.due = clock + Span(i) /\ clock < row.due
    BY <1>0, SpanPositive DEF ScheduleRow
  <2>2. /\ schedule' = [schedule EXCEPT ![s] = row] /\ schedule[s].state = "absent"
        /\ UNCHANGED <<clock, tick, usable, selected, dispatcher, scheduleLock, connectionLock>>
    BY <1>1 DEF CreateSchedule
  <2> HIDE DEF row
  <2> QED
    BY <1>0, <2>1, <2>2 DEF Edited
<1>2. ASSUME DisableSchedule(s) PROVE \E row : Edited(s, row)
  <2> DEFINE row == [schedule[s] EXCEPT !.state = "off"]
  <2>1. /\ row \in ScheduleRow /\ row.state = "off" /\ row.due = schedule[s].due
        /\ row.interval = schedule[s].interval
    BY <1>0, RowEdits
  <2>2. /\ schedule' = [schedule EXCEPT ![s] = row] /\ schedule[s].state # "absent"
        /\ ScheduleFree(s)
        /\ UNCHANGED <<clock, tick, usable, selected, dispatcher, scheduleLock, connectionLock>>
    BY <1>2 DEF DisableSchedule
  <2> HIDE DEF row
  <2> QED
    BY <1>0, <2>1, <2>2 DEF Edited
<1>3. ASSUME NEW i \in Intervals \cup {Keep}, NEW state \in {"on", "off", "keep"},
             NEW replace \in BOOLEAN, UpdateSchedule(s, i, state, replace)
      PROVE  \E row : Edited(s, row)
  <2> DEFINE interval == IF i = Keep THEN schedule[s].interval ELSE i
             restart == i # Keep \/ (state = "on" /\ schedule[s].state = "off")
             row == [state    |-> IF state = "keep" THEN schedule[s].state ELSE state,
                     interval |-> interval,
                     due      |-> IF restart THEN clock + Span(interval) ELSE schedule[s].due]
  <2>1. /\ schedule[s].state # "absent" /\ ScheduleFree(s)
        /\ schedule' = [schedule EXCEPT ![s] = row]
        /\ selected' = [selected EXCEPT ![s] = @ \/ replace]
        /\ UNCHANGED <<clock, tick, usable, dispatcher, scheduleLock, connectionLock>>
    BY <1>3 DEF UpdateSchedule
  <2>2. interval \in Intervals /\ schedule[s].due \in Nat /\ schedule[s].state \in {"on", "off"}
    BY <1>0, <2>1 DEF ScheduleRow
  <2>3. Span(interval) \in Nat \ {0} /\ interval \in Nat
    BY <2>2, SpanPositive
  <2> HIDE DEF interval, restart
  <2>4. clock < clock + Span(interval) /\ clock + Span(interval) \in Nat
    BY <1>0, <2>3
  <2>5. /\ row \in ScheduleRow /\ row.state # "absent" /\ row.interval = interval
        /\ row.due = clock + Span(interval) \/ row.due = schedule[s].due
    BY <2>2, <2>3, <2>4 DEF ScheduleRow
  <2> HIDE DEF row
  <2>6. /\ \A t \in Schedules : selected'[t] = selected[t] \/ ScheduleFree(t)
        /\ selected' \in [Schedules -> BOOLEAN]
    BY <1>0, <2>1
  <2> QED
    BY <2>1, <2>2, <2>4, <2>5, <2>6 DEF Edited
<1> QED
  BY <1>1, <1>2, <1>3

\* A dispatch that ends gives back every lock it holds, and no other.
LEMMA Releases ==
  ASSUME TypeInv, NEW d \in Dispatchers, Release(d)
  PROVE  /\ dispatcher' = [dispatcher EXCEPT ![d] = NoDispatch]
         /\ dispatcher' \in [Dispatchers -> Dispatch]
         /\ scheduleLock' \in [Schedules -> Dispatchers \cup {Nobody}]
         /\ connectionLock' \in [Connections -> Dispatchers \cup {Nobody}]
         /\ \A s \in Schedules : scheduleLock[s] # d => scheduleLock'[s] = scheduleLock[s]
         /\ \A c \in Connections : connectionLock[c] # d => connectionLock'[c] = connectionLock[c]
         /\ UNCHANGED <<clock, usable, selected>>
<1>1. NoDispatch \in Dispatch
  BY DEF NoDispatch, Dispatch, Plans
<1> QED
  BY <1>1 DEF Release, TypeInv, TypeOK

\* The dispatcher's record after each of its steps.
LEMMA DispatchRecords ==
  ASSUME TypeInv, NEW d \in Dispatchers
  PROVE  /\ ReadClock(d) => \E w \in Dispatch :
              /\ dispatcher' = [dispatcher EXCEPT ![d] = w]
              /\ w.now = clock /\ w.todo = {} /\ \A t \in Schedules : w.plan[t] = "none"
         /\ LockDue(d) => \E w \in Dispatch :
              /\ dispatcher' = [dispatcher EXCEPT ![d] = w]
              /\ w.pc = "working" /\ w.now = dispatcher[d].now /\ w.todo = Batch(d)
              /\ w.plan = dispatcher[d].plan
         /\ \A s \in Schedules : DecideSlot(d, s) => \E w \in Dispatch :
              /\ dispatcher' = [dispatcher EXCEPT ![d] = w]
              /\ w.pc = dispatcher[d].pc /\ w.now = dispatcher[d].now
              /\ w.todo = dispatcher[d].todo \ {s}
              /\ w.plan = [dispatcher[d].plan EXCEPT ![s] = IF Runnable(s) THEN "run" ELSE "skip"]
<1>0. dispatcher \in [Dispatchers -> Dispatch] /\ dispatcher[d] \in Dispatch /\ clock \in Nat
  BY DEF TypeInv, TypeOK, Times
<1>1. ASSUME ReadClock(d)
      PROVE  \E w \in Dispatch :
              /\ dispatcher' = [dispatcher EXCEPT ![d] = w]
              /\ w.now = clock /\ w.todo = {} /\ \A t \in Schedules : w.plan[t] = "none"
  <2> DEFINE w == [NoDispatch EXCEPT !.pc = "selecting", !.now = clock]
  <2>1. /\ w \in Dispatch /\ w.now = clock /\ w.todo = {}
        /\ \A t \in Schedules : w.plan[t] = "none"
    BY <1>0 DEF NoDispatch, Dispatch, Plans
  <2>2. dispatcher' = [dispatcher EXCEPT ![d] = w]
    BY <1>1 DEF ReadClock
  <2> HIDE DEF w
  <2> QED
    BY <2>1, <2>2
<1>2. ASSUME LockDue(d)
      PROVE  \E w \in Dispatch :
              /\ dispatcher' = [dispatcher EXCEPT ![d] = w]
              /\ w.pc = "working" /\ w.now = dispatcher[d].now /\ w.todo = Batch(d)
              /\ w.plan = dispatcher[d].plan
  <2> DEFINE w == [dispatcher[d] EXCEPT !.pc = "working", !.todo = Batch(d)]
  <2>0. Batch(d) \subseteq Schedules
    BY DEF Batch, Due
  <2>1. /\ w \in Dispatch /\ w.pc = "working" /\ w.now = dispatcher[d].now
        /\ w.todo = Batch(d) /\ w.plan = dispatcher[d].plan
    BY <1>0, <2>0 DEF Dispatch
  <2>2. dispatcher' = [dispatcher EXCEPT ![d] = w]
    BY <1>0, <1>2 DEF LockDue
  <2> HIDE DEF w
  <2> QED
    BY <2>1, <2>2
<1>3. ASSUME NEW s \in Schedules, DecideSlot(d, s)
      PROVE  \E w \in Dispatch :
              /\ dispatcher' = [dispatcher EXCEPT ![d] = w]
              /\ w.pc = dispatcher[d].pc /\ w.now = dispatcher[d].now
              /\ w.todo = dispatcher[d].todo \ {s}
              /\ w.plan = [dispatcher[d].plan EXCEPT ![s] = IF Runnable(s) THEN "run" ELSE "skip"]
  <2> DEFINE plan == [dispatcher[d].plan EXCEPT ![s] = IF Runnable(s) THEN "run" ELSE "skip"]
             w == [dispatcher[d] EXCEPT !.todo = @ \ {s}, !.plan = plan]
  <2>0. plan \in [Schedules -> Plans]
    BY <1>0 DEF Dispatch, Plans
  <2>2. dispatcher' = [dispatcher EXCEPT ![d] = w]
    BY <1>0, <1>3 DEF DecideSlot
  <2>3. plan = [dispatcher[d].plan EXCEPT ![s] = IF Runnable(s) THEN "run" ELSE "skip"]
    OBVIOUS
  <2> HIDE DEF plan
  <2>1. /\ w \in Dispatch /\ w.pc = dispatcher[d].pc /\ w.now = dispatcher[d].now
        /\ w.todo = dispatcher[d].todo \ {s} /\ w.plan = plan
    BY <1>0, <2>0 DEF Dispatch
  <2> HIDE DEF w
  <2> QED
    BY <2>1, <2>2, <2>3
<1> QED
  BY <1>1, <1>2, <1>3

---------------------------------------------------------------------------
(* What a dispatcher decided stays true until it commits *)

Takes(d, s) == s \in dispatcher[d].todo \/ dispatcher[d].plan[s] # "none"

\* A dispatcher holds the row lock of every schedule it has taken, which
\* stays due, and the connection of every one it has decided about: the
\* resources it saw stay offered, and nobody else starts a run.
DispatchInv ==
  \A d \in Dispatchers, s \in Schedules :
    /\ dispatcher[d].now <= clock
    /\ Takes(d, s) =>
         /\ scheduleLock[s] = d /\ dispatcher[d].pc = "working"
         /\ schedule[s].state = "on" /\ schedule[s].due <= dispatcher[d].now
    /\ dispatcher[d].plan[s] # "none" => connectionLock[ConnectionOf[s]] = d
    /\ dispatcher[d].plan[s] = "run" => selected[s] /\ ~HasOpenRun(s)

\* Initially, and whenever a dispatcher reads the clock, it has taken nothing.
LEMMA NothingTaken ==
  /\ NoDispatch.now = 0 /\ NoDispatch.todo = {} /\ NoDispatch.pc = "idle"
  /\ \A s \in Schedules : NoDispatch.plan[s] = "none"
BY DEF NoDispatch

\* What the commit of a dispatch does to a schedule.
LEMMA CommittedRows ==
  ASSUME TypeInv, DispatchInv, NEW d \in Dispatchers, CommitDispatch(d), NEW s \in Schedules
  PROVE  /\ schedule'[s] \in ScheduleRow /\ schedule'[s].state = schedule[s].state
         /\ schedule'[s].interval = schedule[s].interval
         /\ dispatcher[d].plan[s] = "none" => schedule'[s] = schedule[s]
         /\ dispatcher[d].plan[s] # "none" =>
              /\ schedule[s].interval \in Nat \ {0} /\ schedule[s].due \in Nat
              /\ dispatcher[d].now \in Nat /\ schedule[s].due <= dispatcher[d].now
              /\ schedule'[s].due =
                   Advanced(schedule[s].due, schedule[s].interval, dispatcher[d].now)
<1>0. /\ schedule[s] \in ScheduleRow /\ dispatcher[d] \in Dispatch
      /\ dispatcher[d].plan[s] \in {"none", "skip", "run"}
  BY DEF TypeInv, TypeOK, Dispatch, Plans
<1>1. CASE dispatcher[d].plan[s] = "none"
  <2>1. schedule'[s] = schedule[s]
    BY <1>1 DEF CommitDispatch, Advances
  <2> QED
    BY <1>0, <1>1, <2>1
<1>2. CASE dispatcher[d].plan[s] # "none"
  <2>1. schedule[s].state = "on" /\ schedule[s].due <= dispatcher[d].now
    BY <1>2 DEF DispatchInv, Takes
  <2>2. schedule[s].interval \in Nat \ {0} /\ schedule[s].due \in Nat /\ dispatcher[d].now \in Nat
    BY <1>0, <2>1, SchedulerAssumption DEF TypeInv, IntervalsChosen, ScheduleRow, Dispatch
  <2> DEFINE due == Advanced(schedule[s].due, schedule[s].interval, dispatcher[d].now)
  <2>3. due \in Nat
    BY <2>2, NextSlot
  <2>4. schedule'[s] = [schedule[s] EXCEPT !.due = due]
    BY <1>0, <1>2 DEF CommitDispatch, Advances
  <2>5. due = Advanced(schedule[s].due, schedule[s].interval, dispatcher[d].now)
    OBVIOUS
  <2> HIDE DEF due
  <2>6. /\ schedule'[s] \in ScheduleRow /\ schedule'[s].state = schedule[s].state
        /\ schedule'[s].interval = schedule[s].interval /\ schedule'[s].due = due
    BY <1>0, <2>3, <2>4 DEF ScheduleRow
  <2> QED
    BY <1>2, <2>1, <2>2, <2>5, <2>6
<1> QED
  BY <1>1, <1>2

\* What the commit of a dispatch does to a tick.
LEMMA CommittedTicks ==
  ASSUME TypeInv, NEW d \in Dispatchers, CommitDispatch(d),
         NEW s \in Schedules, NEW t \in Times
  PROVE  IF dispatcher[d].plan[s] = "run" /\ t = schedule[s].due
         THEN tick'[s][t] = [trigger |-> "interval", run |-> "open"]
         ELSE tick'[s][t] = tick[s][t]
BY DEF CommitDispatch

LEMMA TypeStep ==
  ASSUME TypeInv, DispatchInv, [Next]_vars
  PROVE  TypeInv'
<1>0. TypeOK /\ IntervalsChosen /\ clock \in Times
  BY DEF TypeInv, TypeOK
<1>1. ASSUME NEW s \in Schedules, NEW row, Edited(s, row) PROVE TypeInv'
  BY <1>0, <1>1 DEF Edited, TypeInv, TypeOK, IntervalsChosen
<1>2. ASSUME NEW s \in Schedules, RunScheduleNow(s) PROVE TypeInv'
  <2>1. tick' \in [Schedules -> [Times -> TickRow \cup {NoTick}]]
    BY <1>0, <1>2 DEF RunScheduleNow, TypeOK, TickRow
  <2> QED
    BY <1>0, <1>2, <2>1 DEF RunScheduleNow, TypeInv, TypeOK, IntervalsChosen
<1>3. ASSUME NEW d \in Dispatchers, ReadClock(d) PROVE TypeInv'
  <2>1. dispatcher' \in [Dispatchers -> Dispatch]
    BY <1>0, <1>3, DispatchRecords DEF TypeOK
  <2> QED
    BY <1>0, <1>3, <2>1 DEF ReadClock, TypeInv, TypeOK, IntervalsChosen
<1>4. ASSUME NEW d \in Dispatchers, LockDue(d) PROVE TypeInv'
  <2>1. dispatcher' \in [Dispatchers -> Dispatch]
    BY <1>0, <1>4, DispatchRecords DEF TypeOK
  <2>2. scheduleLock' \in [Schedules -> Dispatchers \cup {Nobody}]
    BY <1>0, <1>4 DEF LockDue, TypeOK
  <2> QED
    BY <1>0, <1>4, <2>1, <2>2 DEF LockDue, TypeInv, TypeOK, IntervalsChosen
<1>5. ASSUME NEW d \in Dispatchers, NEW s \in Schedules, DecideSlot(d, s) PROVE TypeInv'
  <2>1. dispatcher' \in [Dispatchers -> Dispatch]
    BY ZenonT(40), <1>0, <1>5, DispatchRecords DEF TypeOK
  <2>2. connectionLock' \in [Connections -> Dispatchers \cup {Nobody}]
    BY <1>0, <1>5 DEF DecideSlot, TypeOK
  <2> QED
    BY <1>0, <1>5, <2>1, <2>2 DEF DecideSlot, TypeInv, TypeOK, IntervalsChosen
<1>6. ASSUME NEW d \in Dispatchers, CommitDispatch(d) PROVE TypeInv'
  <2>1. Release(d)
    BY <1>6 DEF CommitDispatch
  <2>2. schedule' \in [Schedules -> ScheduleRow]
    <3>1. \A s \in Schedules : schedule'[s] \in ScheduleRow
      BY <1>6, CommittedRows
    <3>2. schedule' = [s \in Schedules |-> schedule'[s]]
      BY <1>6 DEF CommitDispatch
    <3> QED
      BY <3>1, <3>2
  <2>3. IntervalsChosen'
    BY <1>0, <1>6, CommittedRows DEF IntervalsChosen
  <2>4. tick' \in [Schedules -> [Times -> TickRow \cup {NoTick}]]
    BY <1>0, <1>6 DEF CommitDispatch, TypeOK, TickRow
  <2> QED
    BY <1>0, <2>1, <2>2, <2>3, <2>4, Releases DEF TypeInv, TypeOK
<1>7. ASSUME NEW d \in Dispatchers, Release(d), UNCHANGED <<schedule, tick>> PROVE TypeInv'
  BY <1>0, <1>7, Releases DEF TypeInv, TypeOK, IntervalsChosen
<1>8. ASSUME NEW s \in Schedules, NEW t \in Times, EndRun(s, t) PROVE TypeInv'
  <2>1. tick[s][t] \in TickRow \cup {NoTick} /\ tick[s][t].run = "open"
    BY <1>0, <1>8 DEF EndRun, TypeOK
  <2>2. [tick[s][t] EXCEPT !.run = "ended"] \in TickRow
    BY <2>1, TickEnds
  <2>3. tick' \in [Schedules -> [Times -> TickRow \cup {NoTick}]]
    BY <1>0, <1>8, <2>2 DEF EndRun, TypeOK
  <2> QED
    BY <1>0, <1>8, <2>3 DEF EndRun, TypeInv, TypeOK, IntervalsChosen
<1>9. ASSUME NEW s \in Schedules, ChangeCatalog(s) PROVE TypeInv'
  BY <1>0, <1>9 DEF ChangeCatalog, TypeInv, TypeOK, IntervalsChosen
<1>10. ASSUME NEW c \in Connections, ChangeAuthority(c) PROVE TypeInv'
  BY <1>0, <1>10 DEF ChangeAuthority, TypeInv, TypeOK, IntervalsChosen
<1>11. CASE Advance
  <2>1. clock' \in Times
    BY <1>0, <1>11, SchedulerAssumption DEF Advance, Times
  <2> QED
    BY <1>0, <1>11, <2>1 DEF Advance, TypeInv, TypeOK, IntervalsChosen
<1>12. CASE UNCHANGED vars
  BY <1>0, <1>12 DEF vars, TypeInv, TypeOK, IntervalsChosen
<1> QED
  BY <1>1, <1>2, <1>3, <1>4, <1>5, <1>6, <1>7, <1>8, <1>9, <1>10, <1>11, <1>12, EditsOfRows
  DEF Next, Edit, DispatchStep, DispatchCollides, AbortDispatch

LEMMA DispatchInit == Init => DispatchInv
BY NothingTaken DEF Init, DispatchInv, Takes

LEMMA DispatchInvStep ==
  ASSUME TypeInv, DispatchInv, [Next]_vars
  PROVE  DispatchInv'
<1>0. /\ TypeOK /\ clock \in Nat /\ dispatcher \in [Dispatchers -> Dispatch]
      /\ scheduleLock \in [Schedules -> Dispatchers \cup {Nobody}]
      /\ connectionLock \in [Connections -> Dispatchers \cup {Nobody}]
      /\ Nobody \notin Dispatchers /\ ConnectionOf \in [Schedules -> Connections]
  BY SchedulerAssumption DEF TypeInv, TypeOK, Times
\* A step that touches no schedule that is taken, and starts no run for one.
<1>a. ASSUME NEW e \in Dispatchers, NEW t \in Schedules,
             dispatcher'[e] = dispatcher[e], clock <= clock', clock' \in Nat,
             Takes(e, t) => /\ scheduleLock'[t] = e /\ schedule'[t] = schedule[t]
                            /\ selected'[t] = selected[t]
                            /\ \A u \in Times : tick'[t][u].run = "open" => tick[t][u].run = "open",
             dispatcher[e].plan[t] # "none" => connectionLock'[ConnectionOf[t]] = e
      PROVE  /\ dispatcher'[e].now <= clock'
             /\ Takes(e, t)' =>
                  /\ scheduleLock'[t] = e /\ dispatcher'[e].pc = "working"
                  /\ schedule'[t].state = "on" /\ schedule'[t].due <= dispatcher'[e].now
             /\ dispatcher'[e].plan[t] # "none" => connectionLock'[ConnectionOf[t]] = e
             /\ dispatcher'[e].plan[t] = "run" => selected'[t] /\ ~HasOpenRun(t)'
  <2>1. dispatcher[e].now \in Nat
    BY <1>0 DEF Dispatch
  <2>2. dispatcher'[e].now <= clock'
    BY <1>0, <1>a, <2>1 DEF DispatchInv
  <2> QED
    BY <1>a, <2>2 DEF DispatchInv, Takes, HasOpenRun
<1>1. ASSUME NEW s \in Schedules, NEW row, Edited(s, row) PROVE DispatchInv'
  <2>1. ASSUME NEW e \in Dispatchers, NEW t \in Schedules, Takes(e, t)
        PROVE  t # s /\ ~ScheduleFree(t)
    BY <1>0, <1>1, <2>1 DEF Edited, DispatchInv, ScheduleFree
  <2>2. ASSUME NEW e \in Dispatchers, NEW t \in Schedules, Takes(e, t)
        PROVE  schedule'[t] = schedule[t] /\ selected'[t] = selected[t] /\ scheduleLock'[t] = e
    BY <1>0, <1>1, <2>1, <2>2 DEF Edited, TypeOK, DispatchInv
  <2> QED
    BY <1>0, <1>1, <1>a, <2>2 DEF Edited, DispatchInv
<1>2. ASSUME NEW s \in Schedules, RunScheduleNow(s) PROVE DispatchInv'
  <2>1. ASSUME NEW e \in Dispatchers, NEW t \in Schedules, Takes(e, t)
        PROVE  tick'[t] = tick[t] /\ scheduleLock'[t] = e
    BY <1>0, <1>2, <2>1 DEF RunScheduleNow, TypeOK, DispatchInv, ScheduleFree
  <2> QED
    BY <1>0, <1>2, <1>a, <2>1 DEF RunScheduleNow, DispatchInv
<1>3. ASSUME NEW d \in Dispatchers, ReadClock(d) PROVE DispatchInv'
  <2> PICK w \in Dispatch :
        /\ dispatcher' = [dispatcher EXCEPT ![d] = w]
        /\ w.now = clock /\ w.todo = {} /\ \A t \in Schedules : w.plan[t] = "none"
    BY <1>3, DispatchRecords
  <2>1. dispatcher'[d] = w /\ \A e \in Dispatchers \ {d} : dispatcher'[e] = dispatcher[e]
    BY <1>0
  <2>2. UNCHANGED <<clock, schedule, tick, selected, scheduleLock, connectionLock>>
    BY <1>3 DEF ReadClock
  <2> QED
    BY <1>0, <2>1, <2>2 DEF DispatchInv, Takes, HasOpenRun
<1>4. ASSUME NEW d \in Dispatchers, LockDue(d) PROVE DispatchInv'
  <2> PICK w \in Dispatch :
        /\ dispatcher' = [dispatcher EXCEPT ![d] = w]
        /\ w.pc = "working" /\ w.now = dispatcher[d].now /\ w.todo = Batch(d)
        /\ w.plan = dispatcher[d].plan
    BY <1>4, DispatchRecords
  <2>1. dispatcher'[d] = w /\ \A e \in Dispatchers \ {d} : dispatcher'[e] = dispatcher[e]
    BY <1>0
  <2>2. /\ dispatcher[d].pc = "selecting"
        /\ UNCHANGED <<clock, schedule, tick, selected, connectionLock>>
        /\ \A t \in Schedules : scheduleLock'[t] = IF t \in Batch(d) THEN d ELSE scheduleLock[t]
    BY <1>4 DEF LockDue
  <2>3. \A t \in Schedules : dispatcher[d].plan[t] = "none"
    BY <2>2 DEF DispatchInv, Takes
  <2>4. \A t \in Batch(d) : /\ schedule[t].state = "on" /\ schedule[t].due <= dispatcher[d].now
                            /\ scheduleLock[t] = Nobody
    BY DEF Batch, Due, ScheduleFree
  <2>5. ASSUME NEW e \in Dispatchers \ {d}, NEW t \in Schedules, Takes(e, t)
        PROVE  scheduleLock'[t] = e
    BY <1>0, <2>2, <2>4, <2>5 DEF DispatchInv
  <2>6. ASSUME NEW t \in Schedules
        PROVE  /\ dispatcher'[d].now <= clock' /\ dispatcher'[d].plan[t] = "none"
               /\ t \in dispatcher'[d].todo =>
                    /\ scheduleLock'[t] = d /\ dispatcher'[d].pc = "working"
                    /\ schedule'[t].state = "on" /\ schedule'[t].due <= dispatcher'[d].now
    BY <2>1, <2>2, <2>3, <2>4 DEF DispatchInv
  <2>7. ASSUME NEW e \in Dispatchers \ {d}, NEW t \in Schedules
        PROVE  /\ dispatcher'[e].now <= clock'
               /\ Takes(e, t)' =>
                    /\ scheduleLock'[t] = e /\ dispatcher'[e].pc = "working"
                    /\ schedule'[t].state = "on" /\ schedule'[t].due <= dispatcher'[e].now
               /\ dispatcher'[e].plan[t] # "none" => connectionLock'[ConnectionOf[t]] = e
               /\ dispatcher'[e].plan[t] = "run" => selected'[t] /\ ~HasOpenRun(t)'
    BY <1>0, <1>a, <2>1, <2>2, <2>5 DEF DispatchInv
  <2> QED
    BY <2>6, <2>7 DEF DispatchInv, Takes
<1>5. ASSUME NEW d \in Dispatchers, NEW s \in Schedules, DecideSlot(d, s) PROVE DispatchInv'
  <2> PICK w \in Dispatch :
        /\ dispatcher' = [dispatcher EXCEPT ![d] = w]
        /\ w.pc = dispatcher[d].pc /\ w.now = dispatcher[d].now
        /\ w.todo = dispatcher[d].todo \ {s}
        /\ w.plan = [dispatcher[d].plan EXCEPT ![s] = IF Runnable(s) THEN "run" ELSE "skip"]
    BY <1>5, DispatchRecords
  <2>1. dispatcher'[d] = w /\ \A e \in Dispatchers \ {d} : dispatcher'[e] = dispatcher[e]
    BY <1>0
  <2>2. /\ UNCHANGED <<clock, schedule, tick, selected, scheduleLock>>
        /\ connectionLock' = [connectionLock EXCEPT ![ConnectionOf[s]] = d]
        /\ connectionLock[ConnectionOf[s]] \in {Nobody, d} /\ s \in dispatcher[d].todo
    BY <1>5 DEF DecideSlot, IsNext, ConnectionFreeFor, ConnectionFree
  <2>3. ASSUME NEW t \in Schedules
        PROVE  w.plan[t] = IF t # s THEN dispatcher[d].plan[t]
                           ELSE IF Runnable(s) THEN "run" ELSE "skip"
    BY <1>0 DEF Dispatch
  <2>4. connectionLock'[ConnectionOf[s]] = d
    BY <1>0, <2>2
  <2>5. ASSUME NEW e \in Dispatchers, NEW t \in Schedules, dispatcher[e].plan[t] # "none"
        PROVE  connectionLock'[ConnectionOf[t]] = e
    <3>1. connectionLock[ConnectionOf[t]] = e /\ ConnectionOf[t] \in Connections
      BY <1>0, <2>5 DEF DispatchInv
    <3> QED
      BY <1>0, <2>2, <3>1
  <2>6. ASSUME NEW t \in Schedules
        PROVE  /\ dispatcher'[d].now <= clock'
               /\ Takes(d, t)' => Takes(d, t)
               /\ dispatcher'[d].pc = dispatcher[d].pc /\ dispatcher'[d].now = dispatcher[d].now
               /\ dispatcher'[d].plan[t] # "none" => connectionLock'[ConnectionOf[t]] = d
               /\ dispatcher'[d].plan[t] = "run" => selected[t] /\ ~HasOpenRun(t)
    <3>1. /\ dispatcher'[d].pc = dispatcher[d].pc /\ dispatcher'[d].now = dispatcher[d].now
          /\ dispatcher'[d].now <= clock'
      BY <2>1, <2>2 DEF DispatchInv
    <3>2. dispatcher'[d].plan[t] = IF t # s THEN dispatcher[d].plan[t]
                                   ELSE IF Runnable(s) THEN "run" ELSE "skip"
      BY <2>1, <2>3
    <3>3. Takes(d, t)' => Takes(d, t)
      BY <2>1, <2>2, <3>2 DEF Takes
    <3>4. dispatcher'[d].plan[t] # "none" => connectionLock'[ConnectionOf[t]] = d
      BY <2>4, <2>5, <3>2
    <3>5. Runnable(s) => selected[s] /\ ~HasOpenRun(s)
      BY DEF Runnable
    <3>6. dispatcher'[d].plan[t] = "run" => selected[t] /\ ~HasOpenRun(t)
      BY <3>2, <3>5 DEF DispatchInv
    <3> QED
      BY <3>1, <3>3, <3>4, <3>6
  <2>7. ASSUME NEW e \in Dispatchers \ {d}, NEW t \in Schedules
        PROVE  /\ dispatcher'[e].now <= clock'
               /\ Takes(e, t)' =>
                    /\ scheduleLock'[t] = e /\ dispatcher'[e].pc = "working"
                    /\ schedule'[t].state = "on" /\ schedule'[t].due <= dispatcher'[e].now
               /\ dispatcher'[e].plan[t] # "none" => connectionLock'[ConnectionOf[t]] = e
               /\ dispatcher'[e].plan[t] = "run" => selected'[t] /\ ~HasOpenRun(t)'
    BY <1>0, <1>a, <2>1, <2>2, <2>5 DEF DispatchInv
  <2>8. \A t \in Schedules : HasOpenRun(t)' <=> HasOpenRun(t)
    BY <2>2 DEF HasOpenRun
  <2>9. ASSUME NEW t \in Schedules
        PROVE  /\ dispatcher'[d].now <= clock'
               /\ Takes(d, t)' =>
                    /\ scheduleLock'[t] = d /\ dispatcher'[d].pc = "working"
                    /\ schedule'[t].state = "on" /\ schedule'[t].due <= dispatcher'[d].now
               /\ dispatcher'[d].plan[t] # "none" => connectionLock'[ConnectionOf[t]] = d
               /\ dispatcher'[d].plan[t] = "run" => selected'[t] /\ ~HasOpenRun(t)'
    BY <2>2, <2>6, <2>8 DEF DispatchInv
  <2> QED
    BY <2>7, <2>9 DEF DispatchInv
<1>b. ASSUME NEW d \in Dispatchers, Release(d),
             \A s \in Schedules : scheduleLock[s] # d =>
               /\ schedule'[s] = schedule[s]
               /\ \A t \in Times : tick'[s][t] = tick[s][t]
      PROVE  DispatchInv'
  <2>1. /\ dispatcher' = [dispatcher EXCEPT ![d] = NoDispatch] /\ clock' = clock
        /\ selected' = selected
        /\ \A s \in Schedules : scheduleLock[s] # d => scheduleLock'[s] = scheduleLock[s]
        /\ \A c \in Connections : connectionLock[c] # d => connectionLock'[c] = connectionLock[c]
    BY <1>b, Releases
  <2>2. dispatcher'[d] = NoDispatch /\ \A e \in Dispatchers \ {d} : dispatcher'[e] = dispatcher[e]
    BY <1>0, <2>1
  <2>3. ASSUME NEW e \in Dispatchers \ {d}, NEW t \in Schedules
        PROVE  /\ dispatcher'[e].now <= clock'
               /\ Takes(e, t)' =>
                    /\ scheduleLock'[t] = e /\ dispatcher'[e].pc = "working"
                    /\ schedule'[t].state = "on" /\ schedule'[t].due <= dispatcher'[e].now
               /\ dispatcher'[e].plan[t] # "none" => connectionLock'[ConnectionOf[t]] = e
               /\ dispatcher'[e].plan[t] = "run" => selected'[t] /\ ~HasOpenRun(t)'
    <3>1. Takes(e, t) => /\ scheduleLock'[t] = e /\ schedule'[t] = schedule[t]
                         /\ \A u \in Times : tick'[t][u] = tick[t][u]
      BY <1>b, <2>1 DEF DispatchInv
    <3>2. dispatcher[e].plan[t] # "none" => connectionLock'[ConnectionOf[t]] = e
      BY <1>0, <2>1 DEF DispatchInv
    <3> QED
      BY <1>0, <1>a, <2>1, <2>2, <3>1, <3>2
  <2>4. ASSUME NEW t \in Schedules
        PROVE dispatcher'[d].now <= clock' /\ ~Takes(d, t)' /\ dispatcher'[d].plan[t] = "none"
    BY <1>0, <2>1, <2>2, NothingTaken DEF Takes
  <2> QED
    BY <2>3, <2>4 DEF DispatchInv
<1>6. ASSUME NEW d \in Dispatchers, CommitDispatch(d) PROVE DispatchInv'
  <2>1. Release(d)
    BY <1>6 DEF CommitDispatch
  <2>2. ASSUME NEW s \in Schedules, scheduleLock[s] # d
        PROVE  /\ schedule'[s] = schedule[s]
               /\ \A t \in Times : tick'[s][t] = tick[s][t]
    <3>1. dispatcher[d].plan[s] = "none"
      BY <2>2 DEF DispatchInv, Takes
    <3> QED
      BY <1>6, <3>1, CommittedRows, CommittedTicks
  <2> QED
    BY <1>b, <2>1, <2>2
<1>7. ASSUME NEW d \in Dispatchers, Release(d), UNCHANGED <<schedule, tick>> PROVE DispatchInv'
  BY <1>7, <1>b
<1>8. ASSUME NEW s \in Schedules, NEW t \in Times, EndRun(s, t) PROVE DispatchInv'
  <2>1. tick[s][t] \in TickRow \cup {NoTick} /\ tick[s][t].run = "open"
    BY <1>0, <1>8 DEF EndRun, TypeOK
  <2>2. [tick[s][t] EXCEPT !.run = "ended"].run = "ended"
    BY <2>1, TickEnds
  <2>3. \A r \in Schedules, u \in Times : tick'[r][u].run = "open" => tick[r][u].run = "open"
    BY <1>0, <1>8, <2>2 DEF EndRun, TypeOK
  <2> QED
    BY <1>0, <1>8, <1>a, <2>3 DEF EndRun, DispatchInv
<1>9. ASSUME NEW s \in Schedules, ChangeCatalog(s) PROVE DispatchInv'
  <2>1. /\ UNCHANGED <<clock, schedule, tick, dispatcher, scheduleLock, connectionLock>>
        /\ \A t \in Schedules : t # s => selected'[t] = selected[t]
        /\ connectionLock[ConnectionOf[s]] = Nobody
    BY <1>0, <1>9 DEF ChangeCatalog, ConnectionFree, TypeOK
  <2>2. \A d \in Dispatchers : dispatcher[d].plan[s] = "none"
    BY <1>0, <2>1 DEF DispatchInv
  <2> QED
    BY <2>1, <2>2 DEF DispatchInv, Takes, HasOpenRun
<1>10. ASSUME NEW c \in Connections, ChangeAuthority(c) PROVE DispatchInv'
  BY <1>10 DEF ChangeAuthority, DispatchInv, Takes, HasOpenRun
<1>11. CASE Advance
  <2>1. clock' = clock + 1
    BY <1>11 DEF Advance
  <2> QED
    BY <1>0, <1>11, <1>a, <2>1 DEF Advance, DispatchInv
<1>12. CASE UNCHANGED vars
  BY <1>12 DEF vars, DispatchInv, Takes, HasOpenRun
<1> QED
  BY <1>1, <1>2, <1>3, <1>4, <1>5, <1>6, <1>7, <1>8, <1>9, <1>10, <1>11, <1>12, EditsOfRows
  DEF Next, Edit, DispatchStep, DispatchCollides, AbortDispatch

\* Types of the schedules, their ticks, the dispatchers and the row locks.
THEOREM SchedulerTyped == Spec => []TypeOK
<1>1. Init => TypeInv /\ DispatchInv
  BY TypeInit, DispatchInit
<1>2. TypeInv /\ DispatchInv /\ [Next]_vars => TypeInv' /\ DispatchInv'
  BY TypeStep, DispatchInvStep
<1>3. TypeInv => TypeOK
  BY DEF TypeInv
<1> QED
  BY <1>1, <1>2, <1>3, PTL DEF Spec

---------------------------------------------------------------------------
(* Slots and runs *)

\* The kinds of steps there are, as far as ticks and schedules go.
LEMMA Steps ==
  ASSUME TypeInv, DispatchInv, [Next]_vars
  PROVE  \/ \E s \in Schedules : \E row : Edited(s, row)
         \/ \E s \in Schedules :
              /\ tick[s][clock] = NoTick /\ ScheduleFree(s)
              /\ clock' = clock /\ schedule' = schedule
              /\ tick' = [tick EXCEPT ![s][clock] = [trigger |-> "manual", run |-> "open"]]
         \/ \E d \in Dispatchers : CommitDispatch(d) /\ clock' = clock
         \/ \E s \in Schedules, t \in Times : EndRun(s, t)
         \/ clock' \in {clock, clock + 1} /\ UNCHANGED <<schedule, tick>>
<1>1. ASSUME NEW s \in Schedules, RunScheduleNow(s)
      PROVE  /\ tick[s][clock] = NoTick /\ ScheduleFree(s)
             /\ clock' = clock /\ schedule' = schedule
             /\ tick' = [tick EXCEPT ![s][clock] = [trigger |-> "manual", run |-> "open"]]
  BY <1>1 DEF RunScheduleNow
<1>2. ASSUME NEW d \in Dispatchers,
             \/ ReadClock(d) \/ LockDue(d) \/ AbortDispatch(d)
             \/ \E s \in Schedules : DecideSlot(d, s) \/ DispatchCollides(d, s)
      PROVE  clock' = clock /\ UNCHANGED <<schedule, tick>>
  BY <1>2 DEF ReadClock, LockDue, AbortDispatch, DecideSlot, DispatchCollides, Release
<1>3. ASSUME NEW d \in Dispatchers, CommitDispatch(d) PROVE clock' = clock
  BY <1>3 DEF CommitDispatch, Release
<1>4. ASSUME (\E s \in Schedules : ChangeCatalog(s)) \/ (\E c \in Connections : ChangeAuthority(c))
      PROVE  clock' = clock /\ UNCHANGED <<schedule, tick>>
  BY <1>4 DEF ChangeCatalog, ChangeAuthority
<1>5. ASSUME Advance \/ UNCHANGED vars
      PROVE  clock' \in {clock, clock + 1} /\ UNCHANGED <<schedule, tick>>
  BY <1>5 DEF Advance, vars
<1>6. ASSUME NEW s \in Schedules, Edit(s)
      PROVE  RunScheduleNow(s) \/ \E row : Edited(s, row)
  BY <1>6, EditsOfRows DEF Edit
<1> QED
  BY <1>1, <1>2, <1>3, <1>4, <1>5, <1>6 DEF Next, DispatchStep

\* The runs dispatchers started lie behind the next slot and behind the clock,
\* which is where every new period of an edited schedule begins.
SlotInv ==
  \A s \in Schedules, t \in Times :
    tick[s][t].trigger = "interval" => t < schedule[s].due /\ t <= clock

\* The end of a run changes nothing else about its tick.
LEMMA EndedTicks ==
  ASSUME TypeInv, NEW s \in Schedules, NEW t \in Times, EndRun(s, t)
  PROVE  /\ clock' = clock /\ schedule' = schedule
         /\ \A r \in Schedules, u \in Times :
              /\ tick'[r][u].trigger = tick[r][u].trigger
              /\ tick'[r][u].run = "open" => tick'[r][u] = tick[r][u]
              /\ tick[r][u].run # "open" => tick'[r][u] = tick[r][u]
<1>1. /\ tick[s][t] \in TickRow \cup {NoTick} /\ tick[s][t].run = "open"
      /\ tick \in [Schedules -> [Times -> TickRow \cup {NoTick}]]
  BY DEF EndRun, TypeInv, TypeOK
<1>2. /\ [tick[s][t] EXCEPT !.run = "ended"].trigger = tick[s][t].trigger
      /\ [tick[s][t] EXCEPT !.run = "ended"].run = "ended"
  BY <1>1, TickEnds
<1>3. ASSUME NEW r \in Schedules, NEW u \in Times
      PROVE  tick'[r][u] = IF r = s /\ u = t THEN [tick[s][t] EXCEPT !.run = "ended"]
                           ELSE tick[r][u]
  BY <1>1 DEF EndRun
<1> QED
  BY <1>2, <1>3 DEF EndRun

LEMMA SlotStep ==
  ASSUME TypeInv, DispatchInv, SlotInv, [Next]_vars
  PROVE  SlotInv'
<1>0. /\ clock \in Nat /\ schedule \in [Schedules -> ScheduleRow]
      /\ tick \in [Schedules -> [Times -> TickRow \cup {NoTick}]] /\ clock \in Times
      /\ \A t \in Times : t \in Nat
      /\ \A s \in Schedules : schedule[s].due \in Nat
  BY DEF TypeInv, TypeOK, Times, ScheduleRow
<1>1. ASSUME NEW s \in Schedules, NEW row, Edited(s, row) PROVE SlotInv'
  <2>1. /\ tick' = tick /\ clock' = clock /\ row.due \in Nat
        /\ schedule' = [schedule EXCEPT ![s] = row]
        /\ clock < row.due \/ row.due = schedule[s].due
    BY <1>1 DEF Edited, ScheduleRow
  <2>2. \A r \in Schedules : schedule'[r] = IF r = s THEN row ELSE schedule[r]
    BY <1>0, <2>1
  <2> QED
    BY <1>0, <2>1, <2>2 DEF SlotInv
<1>2. ASSUME NEW s \in Schedules, clock' = clock, schedule' = schedule,
             tick' = [tick EXCEPT ![s][clock] = [trigger |-> "manual", run |-> "open"]]
      PROVE  SlotInv'
  <2>1. \A r \in Schedules, u \in Times :
          tick'[r][u] = tick[r][u] \/ tick'[r][u].trigger = "manual"
    BY <1>0, <1>2
  <2> QED
    BY <1>2, <2>1 DEF SlotInv
<1>3. ASSUME NEW d \in Dispatchers, CommitDispatch(d), clock' = clock PROVE SlotInv'
  <2> SUFFICES ASSUME NEW s \in Schedules, NEW t \in Times, tick'[s][t].trigger = "interval"
               PROVE  t < schedule'[s].due /\ t <= clock
    BY <1>3 DEF SlotInv
  <2>1. CASE dispatcher[d].plan[s] = "none"
    <3>1. schedule'[s] = schedule[s] /\ tick'[s][t] = tick[s][t]
      BY <1>3, <2>1, CommittedRows, CommittedTicks
    <3> QED
      BY <3>1 DEF SlotInv
  <2>2. CASE dispatcher[d].plan[s] # "none"
    <3>1. /\ schedule[s].interval \in Nat \ {0} /\ dispatcher[d].now \in Nat
          /\ schedule[s].due <= dispatcher[d].now /\ dispatcher[d].now <= clock
          /\ schedule'[s].due = Advanced(schedule[s].due, schedule[s].interval, dispatcher[d].now)
      BY <1>3, <2>2, CommittedRows DEF DispatchInv
    <3>2. schedule[s].due < schedule'[s].due /\ schedule'[s].due \in Nat
      <4>1. PICK due \in Nat, i \in Nat \ {0}, now \in Nat :
              due = schedule[s].due /\ i = schedule[s].interval /\ now = dispatcher[d].now
        BY <1>0, <3>1
      <4>2. due < Advanced(due, i, now) /\ Advanced(due, i, now) \in Nat
        BY NextSlot
      <4>3. schedule'[s].due = Advanced(due, i, now)
        BY <3>1, <4>1
      <4> QED
        BY <4>1, <4>2, <4>3
    <3>3. t = schedule[s].due \/ tick'[s][t] = tick[s][t]
      BY <1>3, CommittedTicks
    <3>4. CASE t = schedule[s].due
      <4>1. PICK due \in Nat, now \in Nat, next \in Nat :
              due = schedule[s].due /\ now = dispatcher[d].now /\ next = schedule'[s].due
        BY <1>0, <3>1, <3>2
      <4>2. clock \in Nat /\ due < next /\ due <= now /\ now <= clock
        BY <1>0, <3>1, <3>2, <4>1
      <4> QED
        BY <3>4, <4>1, <4>2
    <3>5. CASE tick'[s][t] = tick[s][t]
      <4>1. t < schedule[s].due /\ t <= clock
        BY <3>5 DEF SlotInv
      <4>2. PICK due \in Nat, next \in Nat : due = schedule[s].due /\ next = schedule'[s].due
        BY <1>0, <3>1, <3>2
      <4>3. t \in Nat /\ t < due /\ due < next
        BY <1>0, <3>2, <4>1, <4>2
      <4> QED
        BY <4>1, <4>2, <4>3
    <3> QED
      BY <3>3, <3>4, <3>5
  <2> QED
    BY <2>1, <2>2
<1>4. ASSUME NEW s \in Schedules, NEW t \in Times, EndRun(s, t) PROVE SlotInv'
  BY <1>4, EndedTicks DEF SlotInv
<1>5. ASSUME clock' \in {clock, clock + 1}, UNCHANGED <<schedule, tick>> PROVE SlotInv'
  BY <1>0, <1>5 DEF SlotInv
<1> QED
  BY <1>1, <1>2, <1>3, <1>4, <1>5, Steps

LEMMA SlotInit == Init => SlotInv
BY DEF Init, SlotInv, NoTick

\* A slot that became a run is never due again, whatever users edit and however
\* old the dispatcher's reading of the clock is.
THEOREM SlotsLeadForward == Spec => []SlotsOnlyForward
<1>1. Init => TypeInv /\ DispatchInv /\ SlotInv
  BY TypeInit, DispatchInit, SlotInit
<1>2. TypeInv /\ DispatchInv /\ SlotInv /\ [Next]_vars => TypeInv' /\ DispatchInv' /\ SlotInv'
  BY TypeStep, DispatchInvStep, SlotStep
<1>3. SlotInv => SlotsOnlyForward
  BY DEF SlotInv, SlotsOnlyForward
<1> QED
  BY <1>1, <1>2, <1>3, PTL DEF Spec

LEMMA OneRunStep ==
  ASSUME TypeInv, DispatchInv, OneIntervalRunAtATime, [Next]_vars
  PROVE  OneIntervalRunAtATime'
<1> DEFINE Open == [trigger |-> "interval", run |-> "open"]
<1>0. tick \in [Schedules -> [Times -> TickRow \cup {NoTick}]] /\ clock \in Times
  BY DEF TypeInv, TypeOK
\* No tick becomes an open run.
<1>a. ASSUME \A s \in Schedules, t \in Times : tick'[s][t] = Open => tick[s][t] = Open
      PROVE  OneIntervalRunAtATime'
  BY <1>a DEF OneIntervalRunAtATime
<1>1. ASSUME NEW s \in Schedules, NEW row, Edited(s, row) PROVE OneIntervalRunAtATime'
  BY <1>1, <1>a DEF Edited
<1>2. ASSUME NEW s \in Schedules,
             tick' = [tick EXCEPT ![s][clock] = [trigger |-> "manual", run |-> "open"]]
      PROVE  OneIntervalRunAtATime'
  <2>1. \A r \in Schedules, u \in Times :
          tick'[r][u] = tick[r][u] \/ tick'[r][u].trigger = "manual"
    BY <1>0, <1>2
  <2> QED
    BY <2>1, <1>a
<1>3. ASSUME NEW d \in Dispatchers, CommitDispatch(d) PROVE OneIntervalRunAtATime'
  <2> SUFFICES ASSUME NEW s \in Schedules, NEW t \in Times, NEW u \in Times,
                      tick'[s][t] = Open, tick'[s][u] = Open
               PROVE  t = u
    BY DEF OneIntervalRunAtATime
  <2>1. CASE dispatcher[d].plan[s] = "run"
    <3>1. \A v \in Times : tick[s][v].run # "open"
      BY <2>1 DEF DispatchInv, HasOpenRun
    <3>2. \A v \in Times : tick'[s][v] = Open => v = schedule[s].due
      BY <1>3, <2>1, <3>1, CommittedTicks
    <3> QED
      BY <3>2
  <2>2. CASE dispatcher[d].plan[s] # "run"
    <3>1. \A v \in Times : tick'[s][v] = tick[s][v]
      BY <1>3, <2>2, CommittedTicks
    <3> QED
      BY <3>1 DEF OneIntervalRunAtATime
  <2> QED
    BY <2>1, <2>2
<1>4. ASSUME NEW s \in Schedules, NEW t \in Times, EndRun(s, t) PROVE OneIntervalRunAtATime'
  BY <1>4, <1>a, EndedTicks
<1>5. ASSUME UNCHANGED <<schedule, tick>> PROVE OneIntervalRunAtATime'
  BY <1>5, <1>a
<1> QED
  BY <1>1, <1>2, <1>3, <1>4, <1>5, Steps

\* Dispatchers never put two runs of one schedule to work at the same time,
\* however many of them there are and whatever batches they take.
THEOREM NeverTwoIntervalRuns == Spec => []OneIntervalRunAtATime
<1>1. Init => TypeInv /\ DispatchInv /\ OneIntervalRunAtATime
  <2>1. Init => OneIntervalRunAtATime
    BY DEF Init, OneIntervalRunAtATime, NoTick
  <2> QED
    BY <2>1, TypeInit, DispatchInit
<1>2. TypeInv /\ DispatchInv /\ OneIntervalRunAtATime /\ [Next]_vars
        => TypeInv' /\ DispatchInv' /\ OneIntervalRunAtATime'
  BY TypeStep, DispatchInvStep, OneRunStep
<1> QED
  BY <1>1, <1>2, PTL DEF Spec

---------------------------------------------------------------------------
(* The commit of a dispatch *)

\* A dispatcher that has decided to take a slot still finds it without a tick.
SlotsOpen ==
  \A d \in Dispatchers, s \in Schedules :
    dispatcher[d].plan[s] = "run" => ~SlotTaken(s)

\* What Next may do to the decisions: one is taken, dropped, or kept with the
\* row lock of its schedule.
LEMMA Decisions ==
  ASSUME TypeInv, DispatchInv, [Next]_vars,
         NEW d \in Dispatchers, NEW s \in Schedules, dispatcher'[d].plan[s] = "run"
  PROVE  \/ ~SlotTaken(s) /\ UNCHANGED <<schedule, tick>>
         \/ /\ dispatcher[d].plan[s] = "run" /\ scheduleLock[s] = d
            /\ ~CommitDispatch(d)
<1>0. /\ dispatcher \in [Dispatchers -> Dispatch]
      /\ dispatcher[d].plan[s] = "run" => scheduleLock[s] = d
  BY DEF TypeInv, TypeOK, DispatchInv, Takes
<1>1. ASSUME NEW e \in Dispatchers, Release(e)
      PROVE  dispatcher[d].plan[s] = "run" /\ e # d
  <2>1. dispatcher' = [dispatcher EXCEPT ![e] = NoDispatch]
    BY <1>1 DEF Release
  <2> QED
    BY <1>0, <2>1, NothingTaken
<1>2. ASSUME NEW e \in Dispatchers, ReadClock(e) \/ LockDue(e)
      PROVE  dispatcher[d].plan[s] = "run"
  <2> PICK w \in Dispatch :
        /\ dispatcher' = [dispatcher EXCEPT ![e] = w]
        /\ w.plan[s] = "run" => dispatcher[e].plan[s] = "run"
    BY <1>2, DispatchRecords, NothingTaken
  <2> QED
    BY <1>0
<1>3. ASSUME NEW e \in Dispatchers, NEW r \in Schedules, DecideSlot(e, r)
      PROVE  \/ dispatcher[d].plan[s] = "run"
             \/ ~SlotTaken(s) /\ UNCHANGED <<schedule, tick>>
  <2> PICK w \in Dispatch :
        /\ dispatcher' = [dispatcher EXCEPT ![e] = w]
        /\ w.plan = [dispatcher[e].plan EXCEPT ![r] = IF Runnable(r) THEN "run" ELSE "skip"]
    BY <1>3, DispatchRecords
  <2>1. UNCHANGED <<schedule, tick>> /\ ~(Runnable(r) /\ SlotTaken(r))
    BY <1>3 DEF DecideSlot
  <2>2. CASE d = e /\ s = r
    BY <1>0, <2>1, <2>2 DEF Dispatch
  <2>3. CASE d # e \/ s # r
    <3>1. dispatcher[e].plan \in [Schedules -> Plans]
      BY <1>0 DEF Dispatch
    <3> QED
      BY <1>0, <2>3, <3>1
  <2> QED
    BY <2>2, <2>3
<1>4. ASSUME NEW r \in Schedules, Edit(r) PROVE UNCHANGED dispatcher
  BY <1>4, EditsOfRows DEF Edit, Edited, RunScheduleNow
<1>5. ~CommitDispatch(d)
  BY <1>1 DEF CommitDispatch
<1> QED
  BY <1>0, <1>1, <1>2, <1>3, <1>4, <1>5
  DEF Next, DispatchStep, CommitDispatch, DispatchCollides, AbortDispatch, EndRun,
      ChangeCatalog, ChangeAuthority, Advance, vars

LEMMA SlotsOpenStep ==
  ASSUME TypeInv, DispatchInv, SlotsOpen, [Next]_vars
  PROVE  SlotsOpen'
<1> SUFFICES ASSUME NEW d \in Dispatchers, NEW s \in Schedules,
                    dispatcher'[d].plan[s] = "run"
             PROVE  ~SlotTaken(s)'
  BY DEF SlotsOpen
<1>1. CASE ~SlotTaken(s) /\ UNCHANGED <<schedule, tick>>
  BY <1>1 DEF SlotTaken
<1>2. CASE dispatcher[d].plan[s] = "run" /\ scheduleLock[s] = d /\ ~CommitDispatch(d)
  <2>0. /\ ~SlotTaken(s) /\ ~ScheduleFree(s) /\ schedule[s].state = "on"
        /\ tick \in [Schedules -> [Times -> TickRow \cup {NoTick}]]
        /\ schedule \in [Schedules -> ScheduleRow] /\ NoTick.run = "none"
    BY <1>2, SchedulerAssumption
    DEF SlotsOpen, ScheduleFree, DispatchInv, Takes, TypeInv, TypeOK, NoTick
  <2>1. SUFFICES /\ schedule'[s] = schedule[s]
                 /\ \A t \in Times : tick[s][t] = NoTick => tick'[s][t] = NoTick
    BY <2>0 DEF SlotTaken
  <2>2. ASSUME NEW r \in Schedules, NEW row, Edited(r, row)
        PROVE  schedule'[s] = schedule[s] /\ tick' = tick
    BY <2>0, <2>2 DEF Edited
  <2>3. ASSUME NEW r \in Schedules, ScheduleFree(r), schedule' = schedule,
               tick' = [tick EXCEPT ![r][clock] = [trigger |-> "manual", run |-> "open"]]
        PROVE  schedule'[s] = schedule[s] /\ tick'[s] = tick[s]
    BY <2>0, <2>3
  <2>4. ASSUME NEW e \in Dispatchers, CommitDispatch(e)
        PROVE  schedule'[s] = schedule[s] /\ \A t \in Times : tick'[s][t] = tick[s][t]
    <3>1. dispatcher[e].plan[s] = "none"
      BY <1>2, <2>4 DEF DispatchInv, Takes
    <3> QED
      BY <2>4, <3>1, CommittedRows, CommittedTicks
  <2>5. ASSUME NEW r \in Schedules, NEW u \in Times, EndRun(r, u)
        PROVE  /\ schedule'[s] = schedule[s]
               /\ \A t \in Times : tick[s][t] = NoTick => tick'[s][t] = NoTick
    BY <2>0, <2>5, EndedTicks
  <2> QED
    BY <2>2, <2>3, <2>4, <2>5, Steps
<1> QED
  BY <1>1, <1>2, Decisions

\* Ticks are written into empty slots only.
LEMMA TicksStay ==
  ASSUME TypeInv, DispatchInv, SlotsOpen, [Next]_vars,
         NEW s \in Schedules, NEW t \in Times
  PROVE  TickSealed(tick[s][t], tick'[s][t])
<1>0. /\ tick \in [Schedules -> [Times -> TickRow \cup {NoTick}]]
      /\ tick[s][t] \in TickRow \cup {NoTick}
  BY DEF TypeInv, TypeOK
<1>1. CASE tick'[s][t] = tick[s][t] \/ tick[s][t] = NoTick
  BY <1>1 DEF TickSealed
<1>2. ASSUME NEW r \in Schedules, tick[r][clock] = NoTick,
             tick' = [tick EXCEPT ![r][clock] = [trigger |-> "manual", run |-> "open"]]
      PROVE  tick'[s][t] = tick[s][t] \/ tick[s][t] = NoTick
  BY <1>0, <1>2
<1>3. ASSUME NEW d \in Dispatchers, CommitDispatch(d)
      PROVE  tick'[s][t] = tick[s][t] \/ tick[s][t] = NoTick
  BY <1>3, CommittedTicks DEF SlotsOpen, SlotTaken
<1>4. ASSUME NEW r \in Schedules, NEW u \in Times, EndRun(r, u)
      PROVE  TickSealed(tick[s][t], tick'[s][t])
  BY <1>4, EndedTicks DEF TickSealed
<1> QED
  BY <1>1, <1>2, <1>3, <1>4, Steps DEF Edited

\* What a dispatcher decided is still true when it commits: on, due, offered,
\* no other run open, and no tick in the slot (the locks of
\* dispatch_due_sync_schedules).
THEOREM DecisionsStand == Spec => DispatchIsCurrent
<1> DEFINE Stands ==
      \A s \in Schedules, t \in Times :
        /\ TickSealed(tick[s][t], tick'[s][t])
        /\ tick[s][t] = NoTick /\ tick'[s][t].trigger = "interval" =>
             /\ schedule[s].state = "on"
             /\ schedule[s].due = t /\ t <= clock
             /\ selected[s]
             /\ ~HasOpenRun(s)
<1>1. Init => TypeInv /\ DispatchInv /\ SlotsOpen
  BY TypeInit, DispatchInit, NothingTaken DEF Init, SlotsOpen
<1>2. TypeInv /\ DispatchInv /\ SlotsOpen /\ [Next]_vars
        => TypeInv' /\ DispatchInv' /\ SlotsOpen'
  BY TypeStep, DispatchInvStep, SlotsOpenStep
<1>3. TypeInv /\ DispatchInv /\ SlotsOpen /\ [Next]_vars => [Stands]_vars
  <2> SUFFICES ASSUME TypeInv, DispatchInv, [Next]_vars, NEW s \in Schedules, NEW t \in Times,
                      tick[s][t] = NoTick, tick'[s][t].trigger = "interval"
               PROVE  /\ schedule[s].state = "on" /\ schedule[s].due = t /\ t <= clock
                      /\ selected[s] /\ ~HasOpenRun(s)
    BY TicksStay
  <2>0. /\ tick \in [Schedules -> [Times -> TickRow \cup {NoTick}]] /\ clock \in Times
        /\ NoTick.trigger = "none"
    BY DEF TypeInv, TypeOK, NoTick
  <2>1. ~UNCHANGED tick
    BY <2>0
  <2>2. ASSUME NEW r \in Schedules, NEW row PROVE ~Edited(r, row)
    BY <2>1 DEF Edited
  <2>3. ASSUME NEW r \in Schedules
        PROVE  tick' # [tick EXCEPT ![r][clock] = [trigger |-> "manual", run |-> "open"]]
    BY <2>0
  <2>4. ASSUME NEW r \in Schedules, NEW u \in Times PROVE ~EndRun(r, u)
    BY <2>0, EndedTicks
  <2>5. PICK d \in Dispatchers : CommitDispatch(d)
    BY <2>1, <2>2, <2>3, <2>4, Steps
  <2>6. dispatcher[d].plan[s] = "run" /\ t = schedule[s].due
    BY <2>0, <2>5, CommittedTicks
  <2>7. /\ schedule[s].state = "on" /\ schedule[s].due <= dispatcher[d].now
        /\ dispatcher[d].now <= clock /\ selected[s] /\ ~HasOpenRun(s)
    BY <2>6 DEF DispatchInv, Takes
  <2>8. schedule[s].due \in Nat /\ dispatcher[d].now \in Nat /\ clock \in Nat
    BY DEF TypeInv, TypeOK, ScheduleRow, Dispatch, Times
  <2> QED
    BY <2>6, <2>7, <2>8
<1> QED
  BY <1>1, <1>2, <1>3, PTL DEF Spec, DispatchIsCurrent

\* Missed periods coalesce into one run, and the next slot is the first one of
\* the old grid after the dispatcher's reading of the clock.
THEOREM MissedPeriodsCoalesce == Spec => DispatchCoalesces
<1> DEFINE Coalesces ==
      \A d \in Dispatchers, s \in Schedules :
        LET period == Span(schedule[s].interval) IN
        dispatcher[d].plan[s] # "none" /\ schedule'[s] # schedule[s] =>
          /\ dispatcher[d].now < schedule'[s].due
          /\ schedule'[s].due - period <= dispatcher[d].now
          /\ (schedule'[s].due - schedule[s].due) % period = 0
<1>1. Init => TypeInv /\ DispatchInv
  BY TypeInit, DispatchInit
<1>2. TypeInv /\ DispatchInv /\ [Next]_vars => TypeInv' /\ DispatchInv'
  BY TypeStep, DispatchInvStep
<1>3. TypeInv /\ DispatchInv /\ [Next]_vars => [Coalesces]_vars
  <2> SUFFICES ASSUME TypeInv, DispatchInv, [Next]_vars,
                      NEW d \in Dispatchers, NEW s \in Schedules,
                      dispatcher[d].plan[s] # "none", schedule'[s] # schedule[s]
               PROVE  /\ dispatcher[d].now < schedule'[s].due
                      /\ schedule'[s].due - Span(schedule[s].interval) <= dispatcher[d].now
                      /\ (schedule'[s].due - schedule[s].due) % Span(schedule[s].interval) = 0
    OBVIOUS
  <2>1. /\ scheduleLock[s] = d /\ schedule[s].state = "on" /\ d # Nobody
        /\ schedule \in [Schedules -> ScheduleRow]
    BY SchedulerAssumption DEF DispatchInv, Takes, TypeInv, TypeOK
  <2>2. ASSUME NEW r \in Schedules, NEW row PROVE ~Edited(r, row)
    BY <2>1 DEF Edited, ScheduleFree
  <2>3. ASSUME NEW r \in Schedules, NEW u \in Times PROVE ~EndRun(r, u)
    BY EndedTicks
  <2>4. PICK e \in Dispatchers : CommitDispatch(e)
    BY <2>2, <2>3, Steps
  <2>5. dispatcher[e].plan[s] # "none"
    BY <2>4, CommittedRows
  <2>6. e = d
    BY <2>1, <2>5 DEF DispatchInv, Takes
  <2>7. /\ schedule[s].interval \in Nat \ {0} /\ schedule[s].due \in Nat
        /\ dispatcher[d].now \in Nat /\ schedule[s].due <= dispatcher[d].now
        /\ schedule'[s].due = Advanced(schedule[s].due, schedule[s].interval, dispatcher[d].now)
    BY <2>4, <2>5, <2>6, CommittedRows
  <2>8. PICK due \in Nat, i \in Nat \ {0}, now \in Nat :
          due = schedule[s].due /\ i = schedule[s].interval /\ now = dispatcher[d].now
    BY <2>7
  <2>9. /\ now < Advanced(due, i, now) /\ Advanced(due, i, now) - Span(i) <= now
        /\ (Advanced(due, i, now) - due) % Span(i) = 0
    BY <2>7, <2>8, NextSlot
  <2>10. schedule'[s].due = Advanced(due, i, now)
    BY <2>7, <2>8
  <2> QED
    BY <2>8, <2>9, <2>10
<1> QED
  BY <1>1, <1>2, <1>3, PTL DEF Spec, DispatchCoalesces

\* Dispatchers that keep dispatching are dispatchers: the slots that are taken
\* in time are taken once, and by the decisions that were proved to be current.
THEOREM LiveDispatchesAreDispatches ==
  LiveSpec => Spec /\ DispatchIsCurrent /\ []OneIntervalRunAtATime
<1>1. [LiveNext]_liveVars => [Next]_vars
  BY DEF LiveNext, Fault, ResolveDeadlock, Next, liveVars
<1>2. LiveSpec => Spec
  BY <1>1, PTL DEF LiveSpec, Spec
<1> QED
  BY <1>2, DecisionsStand, NeverTwoIntervalRuns, PTL
=============================================================================
