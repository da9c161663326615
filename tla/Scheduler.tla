------------------------------ MODULE Scheduler ------------------------------
(***************************************************************************)
(* RunScheduler of agent/scheduler.py with the table scheduled_runs: one   *)
(* thread asks for the schedules that are due, runs them one after the     *)
(* other and records each run, which makes the schedule due an interval    *)
(* later.  Handlers create, enable and disable schedules meanwhile.        *)
(*                                                                         *)
(* Of next_run_at only matters whether it has been reached.                *)
(***************************************************************************)
EXTENDS Naturals

CONSTANTS
  Schedules,  \* names of schedules
  MaxLost     \* bound: runs that are not recorded

VARIABLES
  schedules,  \* schedules[s]: its row, "none", "enabled" or "disabled"
  due,        \* due[s]: next_run_at has been reached
  loop,       \* the thread
  batch,      \* schedules of this tick that are still to run
  current,    \* the schedule that is run
  halted,     \* the event _stop
  ran,        \* history: ran[s], runs since s became due
  late,       \* history: late[s], runs since s was disabled
  lost        \* history: lost[s], runs since s became due and not recorded

table == <<schedules, due>>
memory == <<loop, batch, current, halted>>
counts == <<ran, late, lost>>
vars == <<table, memory, counts>>

States == {"none", "waiting", "ticking", "running", "recording", "ended"}
MaxRan == MaxLost + 2  \* bound of ran and late

Count(runs, s) == [runs EXCEPT ![s] = IF @ < MaxRan THEN @ + 1 ELSE @]

Init ==
  /\ schedules = [s \in Schedules |-> "none"]
  /\ due = [s \in Schedules |-> FALSE]
  /\ loop = "none" /\ batch = {} /\ halted = FALSE
  /\ current = CHOOSE s \in Schedules : TRUE
  /\ ran = [s \in Schedules |-> 0] /\ late = ran /\ lost = ran

AnyDue == {s \in Schedules : due[s]}  \* mutant of DueSchedules
DueSchedules == {s \in Schedules : schedules[s] = "enabled" /\ due[s]}

Unrecorded(s) == due  \* mutant of Recorded
\* finish_schedule, for a failed run as well.
Recorded(s) == [due EXCEPT ![s] = FALSE]
-----------------------------------------------------------------------------
(* Handlers, and the clock.                                                *)

Create(s) ==
  /\ schedules[s] = "none"
  /\ schedules' = [schedules EXCEPT ![s] = "enabled"]
  /\ UNCHANGED <<due, memory, counts>>

SetEnabled(s) ==
  /\ schedules[s] # "none"
  /\ \E setting \in {"enabled", "disabled"} :
       /\ setting # schedules[s]
       /\ schedules' = [schedules EXCEPT ![s] = setting]
  /\ late' = [late EXCEPT ![s] = 0]
  /\ UNCHANGED <<due, memory, ran, lost>>

TimePasses(s) ==
  /\ schedules[s] # "none" /\ ~ due[s]
  /\ due' = [due EXCEPT ![s] = TRUE]
  /\ ran' = [ran EXCEPT ![s] = 0]
  /\ lost' = [lost EXCEPT ![s] = 0]
  /\ UNCHANGED <<schedules, memory, late>>
-----------------------------------------------------------------------------
(* The scheduler.                                                          *)

\* start; it does nothing while a thread is alive, even one told to stop.
Start ==
  /\ loop \in {"none", "ended"}
  /\ halted' = FALSE
  /\ loop' = "waiting"
  /\ UNCHANGED <<table, batch, current, counts>>

Stop ==
  /\ ~ halted
  /\ halted' = TRUE
  /\ UNCHANGED <<table, loop, batch, current, counts>>

Leave ==
  /\ loop = "waiting" /\ halted
  /\ loop' = "ended"
  /\ UNCHANGED <<table, batch, current, halted, counts>>

Tick ==
  /\ loop = "waiting" /\ ~ halted
  /\ loop' = "ticking"
  /\ batch' = DueSchedules
  /\ UNCHANGED <<table, current, halted, counts>>

\* An error of the database is not caught and ends the thread.
TickFails ==
  /\ loop = "waiting" /\ ~ halted
  /\ loop' = "ended"
  /\ UNCHANGED <<table, batch, current, halted, counts>>

Run(s) ==
  /\ loop = "ticking" /\ s \in batch
  /\ batch' = batch \ {s}
  /\ current' = s
  /\ loop' = "running"
  /\ ran' = Count(ran, s)
  /\ late' = IF schedules[s] = "disabled" THEN Count(late, s) ELSE late
  /\ UNCHANGED <<table, halted, lost>>

TickDone ==
  /\ loop = "ticking" /\ batch = {}
  /\ loop' = "waiting"
  /\ UNCHANGED <<table, batch, current, halted, counts>>

\* The runner returns or raises.
RunEnds ==
  /\ loop = "running"
  /\ loop' = "recording"
  /\ UNCHANGED <<table, batch, current, halted, counts>>

Record ==
  /\ loop = "recording"
  /\ due' = Recorded(current)
  /\ loop' = "ticking"
  /\ UNCHANGED <<schedules, batch, current, halted, counts>>

RecordFails ==
  /\ loop = "recording" /\ lost[current] < MaxLost
  /\ lost' = [lost EXCEPT ![current] = @ + 1]
  /\ loop' = "ended"
  /\ UNCHANGED <<table, batch, current, halted, ran, late>>

\* The process stops; a run under way is not recorded.
Crash ==
  /\ loop # "none"
  /\ IF loop \in {"running", "recording"}
       THEN lost[current] < MaxLost /\ lost' = [lost EXCEPT ![current] = @ + 1]
       ELSE UNCHANGED lost
  /\ loop' = "none" /\ halted' = FALSE
  /\ UNCHANGED <<table, batch, current, ran, late>>
-----------------------------------------------------------------------------
Loop ==
  \/ Leave \/ Tick \/ TickFails \/ TickDone \/ RunEnds \/ Record \/ RecordFails
  \/ \E s \in Schedules : Run(s)
Next ==
  \/ \E s \in Schedules : Create(s) \/ SetEnabled(s) \/ TimePasses(s)
  \/ Start \/ Stop \/ Loop \/ Crash

Spec == Init /\ [][Next]_vars
\* The thread is run, and a run ends: it has a time limit.
Fairness == WF_vars(Loop)
-----------------------------------------------------------------------------
(* Properties.                                                             *)

\* A schedule that is due is run and recorded unless it is disabled or the thread
\* ends: no number of other schedules, and no failing run, keeps it waiting.
SchedulesRun ==
  \A s \in Schedules :
    schedules[s] = "enabled" /\ due[s] ~>
      ~ due[s] \/ schedules[s] = "disabled" \/ loop \in {"none", "ended"}

\* A schedule runs once each time it is due, again only if a run went unrecorded,
\* and at most once after it was disabled: the tick had read it before.
RunsAsScheduled ==
  \A s \in Schedules : ran[s] <= 1 + lost[s] /\ late[s] <= 1
=============================================================================
