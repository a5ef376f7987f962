---------------------------- MODULE CpasSchedule ----------------------------
(***************************************************************************)
(* Who starts CPAS and when: the ticker of the daily schedule              *)
(* (services/cpas_schedule_service.py) and the admin trigger share         *)
(* trigger_daily_activities (services/cpas_service.py), which sets the     *)
(* cpas_running flag, a row, and hands the pipeline to a Celery worker     *)
(* (tasks.py) or, in certification mode, to a thread.  The pipeline itself *)
(* is module Cpas; here it is a stretch of time that may fail.             *)
(***************************************************************************)
EXTENDS Naturals

CONSTANTS
    None,          \* no day, no lock holder
    Modes,         \* execution modes: subset of {"production", "certification"}
    Execs,         \* slots for executions that are queued, running or unacknowledged
    HoursPerDay,   \* hours of a day
    StartHour,     \* SAS_CPAS_START_HOUR
    EndHour,       \* SAS_CPAS_END_HOUR
    MaxTime,       \* bound: hours that pass
    Faults,        \* kinds of faults that happen
    MaxTriggers,   \* bound: admin triggers
    MaxFaults      \* bound: faults, of all kinds together

ASSUME HoursAssumption ==
    /\ HoursPerDay \in Nat \ {0}
    /\ {StartHour, EndHour} \subseteq 0 .. HoursPerDay - 1
    /\ MaxTime \in Nat
ASSUME ModesAssumption == Modes \subseteq {"production", "certification"}

Dispatchers == {"ticker", "admin"}
ASSUME NoneAssumption == None \notin Nat \cup Dispatchers

FaultKinds == {"broker", "raise", "child", "connection", "worker", "api", "database"}
ASSUME FaultsAssumption == Faults \subseteq FaultKinds

VARIABLES
    now,       \* the clock, in hours
    mode,      \* sas_execution_mode
    enabled,   \* the scheduled_daily_activities row says enabled
    last,      \* cpas_schedule_meta.lastSuccessfulLocalDate, or None
    flag,      \* the cpas_running row exists
    pc,        \* where the ticker and an admin request are
    loaded,    \* lastSuccessfulLocalDate in the meta a tick has loaded
    dispatch,  \* holder of _cpas_dispatch_lock
    run,       \* state of each execution
    detached,  \* executions whose message the broker has taken back
    orphaned,  \* history: the last owner of the flag died or could not clear it
    doubled,   \* history: a message came back though its task lives or has ended
    spent      \* bounds used so far

schedule == <<enabled, last, loaded>>
tasks == <<run, detached, doubled>>
vars == <<now, mode, schedule, flag, pc, dispatch, tasks, orphaned, spent>>

Today == now \div HoursPerDay

(* is_within_cpas_window: [start, end), possibly across midnight.          *)
InWindow ==
    LET hour == now % HoursPerDay
    IN CASE StartHour = EndHour -> FALSE
         [] StartHour < EndHour -> StartHour <= hour /\ hour < EndHour
         [] StartHour > EndHour -> hour >= StartHour \/ hour < EndHour

Spend(what, bound) ==
    /\ spent[what] < bound
    /\ spent' = [spent EXCEPT ![what] = @ + 1]
Fails(kind) == kind \in Faults /\ Spend("faults", MaxFaults)

Goto(a, label) == pc' = [pc EXCEPT ![a] = label]
Become(e, state) == run' = [run EXCEPT ![e] = state]

(* Executions that have not reached the end of their finally clause.       *)
Executing == {"running", "marked", "finally"}
Live == {e \in Execs : run[e] \in {"queued"} \cup Executing}

(* Nobody has set the flag to start an execution or is executing one.      *)
Quiet == Live = {} /\ \A a \in Dispatchers : pc[a] # "enqueue"

(* The executions around a redelivery are over.                            *)
Settle == doubled' = (doubled /\ ~Quiet')

(* An execution ends for its slot.  Without its finally it leaves the flag *)
(* to the others that are live, if any are.                                *)
Leave(e) ==
    /\ Become(e, "none")
    /\ detached' = detached \ {e}
Finish(e) == IF mode = "production" THEN Become(e, "unacked") /\ UNCHANGED detached ELSE Leave(e)
Forsake(e) == orphaned' = (orphaned \/ (flag /\ Live \subseteq {e}))

Init ==
    /\ now = 0
    /\ mode \in Modes
    /\ enabled = FALSE
    /\ last = None
    /\ flag = FALSE
    /\ pc = [a \in Dispatchers |-> "idle"]
    /\ loaded = None
    /\ dispatch = None
    /\ run = [e \in Execs |-> "none"]
    /\ detached = {}
    /\ orphaned = FALSE
    /\ doubled = FALSE
    /\ spent = [triggers |-> 0, faults |-> 0]

TimePasses ==
    /\ now < MaxTime
    /\ now' = now + 1
    /\ UNCHANGED <<mode, schedule, flag, pc, dispatch, tasks, orphaned, spent>>

-----------------------------------------------------------------------------
(* enable_scheduled_daily_activities: the flag row, then the ticker loop.  *)
EnableSchedule ==
    /\ ~enabled
    /\ enabled' = TRUE
    /\ UNCHANGED <<now, mode, last, loaded, flag, pc, dispatch, tasks, orphaned, spent>>

(* tick_scheduled_cpas down to _load_meta.  Ticks that are skipped, outside*)
(* the window or with today's success recorded, change nothing.            *)
TickLoads ==
    /\ pc["ticker"] = "idle"
    /\ enabled
    /\ InWindow
    /\ last # Today
    /\ loaded' = last
    /\ Goto("ticker", "loaded")
    /\ UNCHANGED <<now, mode, enabled, last, flag, dispatch, tasks, orphaned, spent>>

(* is_cpas_running: a later statement.                                     *)
TickChecksRunning ==
    /\ pc["ticker"] = "loaded"
    /\ Goto("ticker", IF flag THEN "idle" ELSE "attempt")
    /\ UNCHANGED <<now, mode, schedule, flag, dispatch, tasks, orphaned, spent>>

(* The attempt is recorded by writing back the whole meta that was loaded. *)
TickAttempts ==
    /\ pc["ticker"] = "attempt"
    /\ last' = loaded
    /\ loaded' = None
    /\ Goto("ticker", "trigger")
    /\ UNCHANGED <<now, mode, enabled, flag, dispatch, tasks, orphaned, spent>>

(* TriggerDailyActivitiesImmediately.                                      *)
AdminTriggers ==
    /\ pc["admin"] = "idle"
    /\ Spend("triggers", MaxTriggers)
    /\ Goto("admin", "trigger")
    /\ UNCHANGED <<now, mode, schedule, flag, dispatch, tasks, orphaned>>

TriggerTrustsTick(a) ==
    /\ pc[a] = "trigger"
    /\ dispatch = None
    /\ dispatch' = a
    /\ flag' = TRUE
    /\ Goto(a, "enqueue")
    /\ UNCHANGED <<now, mode, schedule, tasks, orphaned, spent>>

(* trigger_daily_activities under _cpas_dispatch_lock: nothing if the flag *)
(* is set, else the flag is set and committed.                             *)
Trigger(a) ==
    /\ pc[a] = "trigger"
    /\ dispatch = None
    /\ IF flag
         THEN Goto(a, "idle") /\ UNCHANGED <<flag, dispatch>>
         ELSE flag' = TRUE /\ dispatch' = a /\ Goto(a, "enqueue")
    /\ UNCHANGED <<now, mode, schedule, tasks, orphaned, spent>>

(* run_cpas.delay(), or the start of the certification thread.             *)
Enqueue(a) ==
    /\ pc[a] = "enqueue"
    /\ \E e \in Execs :
          /\ run[e] = "none"
          /\ Become(e, IF mode = "production" THEN "queued" ELSE "running")
    /\ dispatch' = None
    /\ Goto(a, "idle")
    /\ UNCHANGED <<now, mode, schedule, flag, detached, doubled, orphaned, spent>>

EnqueueFailsSilently(a) ==
    /\ pc[a] = "enqueue"
    /\ Fails("broker")
    /\ dispatch' = None
    /\ Goto(a, "idle")
    /\ UNCHANGED <<now, mode, schedule, flag, run, detached, orphaned>>
    /\ Settle

(* The broker refuses, or no thread starts: the flag is cleared and the    *)
(* error raised; a tick audits it.                                         *)
EnqueueFails(a) ==
    /\ pc[a] = "enqueue"
    /\ Fails("broker")
    /\ flag' = FALSE
    /\ dispatch' = None
    /\ Goto(a, "idle")
    /\ UNCHANGED <<now, mode, schedule, run, detached, orphaned>>
    /\ Settle

(* The database is away as well: _clear_cpas_running_flag logs it.         *)
EnqueueCleanupFails(a) ==
    /\ pc[a] = "enqueue"
    /\ Fails("database")
    /\ orphaned' = (orphaned \/ (flag /\ Live = {}))
    /\ dispatch' = None
    /\ Goto(a, "idle")
    /\ UNCHANGED <<now, mode, schedule, flag, run, detached>>
    /\ Settle

-----------------------------------------------------------------------------
(* A worker receives the message.                                          *)
WorkerStarts(e) ==
    /\ run[e] = "queued"
    /\ Become(e, "running")
    /\ UNCHANGED <<now, mode, schedule, flag, pc, dispatch, detached, doubled, orphaned, spent>>

MarkRecordsHour(e) ==
    /\ run[e] = "running"
    /\ Become(e, "marked")
    /\ last' = IF enabled /\ InWindow THEN now ELSE last
    /\ UNCHANGED <<now, mode, enabled, loaded, flag, pc, dispatch, detached, doubled,
                   orphaned, spent>>

(* The pipeline up to mark_scheduled_success_if_applicable, which commits  *)
(* the date of this moment when the schedule is on and its window open.    *)
RunMarks(e) ==
    /\ run[e] = "running"
    /\ Become(e, "marked")
    /\ last' = IF enabled /\ InWindow THEN Today ELSE last
    /\ UNCHANGED <<now, mode, enabled, loaded, flag, pc, dispatch, detached, doubled,
                   orphaned, spent>>

(* The rest of the pipeline.                                               *)
RunEnds(e) ==
    /\ run[e] = "marked"
    /\ Become(e, "finally")
    /\ UNCHANGED <<now, mode, schedule, flag, pc, dispatch, detached, doubled, orphaned, spent>>

(* A stage raises; the task catches, rolls back and reaches its finally.   *)
RunRaises(e) ==
    /\ run[e] \in {"running", "marked"}
    /\ Fails("raise")
    /\ Become(e, "finally")
    /\ UNCHANGED <<now, mode, schedule, flag, pc, dispatch, detached, doubled, orphaned>>

FlagSurvivesFinally(e) ==
    /\ run[e] = "finally"
    /\ Finish(e)
    /\ UNCHANGED <<now, mode, schedule, flag, pc, dispatch, orphaned, spent>>
    /\ Settle

(* finally: the flag row is deleted, whoever set it.                       *)
ClearRunningFlag(e) ==
    /\ run[e] = "finally"
    /\ flag' = FALSE
    /\ orphaned' = FALSE
    /\ Finish(e)
    /\ UNCHANGED <<now, mode, schedule, pc, dispatch, spent>>
    /\ Settle

(* The database is away: the error is logged and the flag stays.           *)
ClearFails(e) ==
    /\ run[e] = "finally"
    /\ Fails("database")
    /\ Forsake(e)
    /\ Finish(e)
    /\ UNCHANGED <<now, mode, schedule, flag, pc, dispatch>>
    /\ Settle

(* task_acks_late: the message is acknowledged after the task.             *)
Acknowledge(e) ==
    /\ run[e] = "unacked"
    /\ Leave(e)
    /\ UNCHANGED <<now, mode, schedule, flag, pc, dispatch, doubled, orphaned, spent>>

(* A child of the worker's pool is killed.  Without                        *)
(* task_reject_on_worker_lost its worker acknowledges the message: the     *)
(* finally never runs and nothing is tried again.                          *)
ChildKilled(e) ==
    /\ mode = "production"
    /\ run[e] \in Executing
    /\ Fails("child")
    /\ Forsake(e)
    /\ Leave(e)
    /\ UNCHANGED <<now, mode, schedule, flag, pc, dispatch>>
    /\ Settle

(* A worker loses its connection: the broker takes the unacknowledged      *)
(* message back and delivers it again, while the task goes on or, having   *)
(* cleared the flag, has ended.                                            *)
ConnectionLost(e) ==
    /\ mode = "production"
    /\ run[e] \in Executing \cup {"unacked"}
    /\ e \notin detached
    /\ Fails("connection")
    /\ \/ /\ run[e] = "unacked"
          /\ Become(e, "queued")
          /\ UNCHANGED detached
       \/ /\ run[e] \in Executing
          /\ \E d \in Execs : run[d] = "none" /\ Become(d, "queued")
          /\ detached' = detached \cup {e}
    /\ doubled' = TRUE
    /\ UNCHANGED <<now, mode, schedule, flag, pc, dispatch, orphaned>>

CrashReleasesFlag(e) ==
    /\ mode = "production"
    /\ run[e] \in Executing
    /\ e \notin detached
    /\ Fails("worker")
    /\ flag' = FALSE
    /\ Become(e, "queued")
    /\ UNCHANGED <<now, mode, schedule, pc, dispatch, detached, doubled, orphaned>>

(* A whole worker dies, and its message goes back to the queue, also that  *)
(* of a task which had ended.                                              *)
WorkerDies(e) ==
    /\ mode = "production"
    /\ run[e] \in Executing \cup {"unacked"}
    /\ e \notin detached
    /\ Fails("worker")
    /\ Become(e, "queued")
    /\ doubled' = (doubled \/ run[e] = "unacked")
    /\ UNCHANGED <<now, mode, schedule, flag, pc, dispatch, detached, orphaned>>

(* The API process dies with its ticker, its requests and, in certification*)
(* mode, its pipeline; it starts again and resumes the ticker if enabled.  *)
ApiRestarts ==
    /\ Fails("api")
    /\ pc' = [a \in Dispatchers |-> "idle"]
    /\ loaded' = None
    /\ dispatch' = None
    /\ IF mode = "certification"
         THEN run' = [e \in Execs |-> "none"] /\ orphaned' = flag
         ELSE run' = run /\ orphaned' = (orphaned \/ (flag /\ ~Quiet /\ Live = {}))
    /\ UNCHANGED <<now, mode, enabled, last, flag, detached>>
    /\ Settle

-----------------------------------------------------------------------------
Tick == TickLoads \/ TickChecksRunning \/ TickAttempts
Dispatch(a) == Trigger(a) \/ Enqueue(a)
Execute(e) == WorkerStarts(e) \/ RunMarks(e) \/ RunEnds(e) \/ ClearRunningFlag(e) \/ Acknowledge(e)
Fault ==
    \/ \E a \in Dispatchers : EnqueueFails(a) \/ EnqueueCleanupFails(a)
    \/ \E e \in Execs : RunRaises(e) \/ ClearFails(e) \/ ChildKilled(e)
                      \/ ConnectionLost(e) \/ WorkerDies(e)
    \/ ApiRestarts

Next ==
    \/ TimePasses
    \/ EnableSchedule
    \/ AdminTriggers
    \/ Tick
    \/ \E a \in Dispatchers : Dispatch(a)
    \/ \E e \in Execs : Execute(e)
    \/ Fault

Spec == Init /\ [][Next]_vars

(* The ticker loop ticks on, a dispatch that holds the lock goes on, the   *)
(* broker delivers and a pipeline that does not fail ends.                 *)
FairSpec ==
    /\ Spec
    /\ WF_vars(Tick)
    /\ \A a \in Dispatchers : WF_vars(Dispatch(a))
    /\ \A e \in Execs : WF_vars(Execute(e))

-----------------------------------------------------------------------------
Days == 0 .. MaxTime \div HoursPerDay

(* The flag, the meta row and the program counters keep their types.       *)
TypeOK ==
    /\ now \in 0 .. MaxTime
    /\ mode \in Modes
    /\ enabled \in BOOLEAN /\ flag \in BOOLEAN
    /\ orphaned \in BOOLEAN /\ doubled \in BOOLEAN
    /\ last \in Days \cup {None}
    /\ loaded \in Days \cup {None}
    /\ pc \in [Dispatchers -> {"idle", "loaded", "attempt", "trigger", "enqueue"}]
    /\ dispatch \in {None} \cup Dispatchers
    /\ run \in [Execs -> {"none", "queued", "running", "marked", "finally", "unacked"}]
    /\ detached \in SUBSET Execs
    /\ spent \in [triggers : Nat, faults : Nat]

(* get_daily_activities_completed: "completed=true only when CPAS is not   *)
(* running", whatever raises or dies before the flag is cleared, except    *)
(* until the executions around a redelivery beside, or after, a task that  *)
(* did not die are over.                                                   *)
StatusIsHonest == ~flag /\ ~doubled => Live = {}

(* trigger_daily_activities starts CPAS once: duplicate calls, of a tick   *)
(* that found nothing running and of administrators, are no-ops, with the  *)
(* same exception.                                                         *)
OneRunAtATime == ~doubled => \A d, e \in Live : d = e

(* The running flag, without which no run ever starts again, has an owner  *)
(* that will clear it, redeliveries included, unless the last one was      *)
(* killed with its process or could not reach the database.                *)
FlagHasOwner ==
    flag => Live # {} \/ orphaned \/ \E a \in Dispatchers : pc[a] = "enqueue"

(* In an armed window that stays open a success is recorded: failed        *)
(* dispatches, failed runs, dead workers and lost connections are tried    *)
(* again, and only a flag without owner stops that.                        *)
WindowIsUsed ==
    (enabled /\ now = MaxTime) ~> (last = Today \/ orphaned)
=============================================================================
