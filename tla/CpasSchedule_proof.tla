------------------------- MODULE CpasSchedule_proof -------------------------
(***************************************************************************)
(* Proofs about CpasSchedule for any number of execution slots, any window *)
(* and any number of triggers and faults.                                  *)
(***************************************************************************)
EXTENDS CpasSchedule, TLAPS

(* Whoever is about to enqueue holds the dispatch lock and, unless a       *)
(* redelivery is around, has set the flag while nothing was running;       *)
(* otherwise the flag covers the execution.                                *)
DispatchInv ==
    /\ \A a \in Dispatchers : pc[a] = "enqueue" => dispatch = a
    /\ ~doubled => \A a \in Dispatchers : pc[a] = "enqueue" => flag /\ Live = {}
    /\ StatusIsHonest
    /\ OneRunAtATime

(* Enough of the types for the steps.                                      *)
Shape ==
    /\ mode \in {"production", "certification"}
    /\ flag \in BOOLEAN /\ orphaned \in BOOLEAN /\ doubled \in BOOLEAN
    /\ pc \in [Dispatchers -> {"idle", "loaded", "attempt", "trigger", "enqueue"}]
    /\ run \in [Execs -> {"none", "queued", "running", "marked", "finally", "unacked"}]
    /\ detached \in SUBSET Execs

IInv == Shape /\ DispatchInv /\ FlagHasOwner

(* The initial state.                                                      *)
LEMMA InitInv == Init => IInv
BY ModesAssumption
DEF Init, IInv, Shape, DispatchInv, StatusIsHonest, OneRunAtATime, FlagHasOwner, Live,
    Executing, Dispatchers

(* Every step keeps the shape.                                             *)
LEMMA ShapeStep ==
    ASSUME Shape, [Next]_vars
    PROVE  Shape'
<1> USE DEF Shape, Goto, Become, schedule, tasks, Dispatchers
<1>1. CASE TimePasses \/ EnableSchedule \/ AdminTriggers \/ Tick
    BY <1>1 DEF TimePasses, EnableSchedule, AdminTriggers, Tick, TickLoads, TickChecksRunning,
                TickAttempts
<1>2. ASSUME NEW a \in Dispatchers, Dispatch(a) \/ EnqueueFails(a) \/ EnqueueCleanupFails(a)
      PROVE  Shape'
    BY <1>2 DEF Dispatch, Trigger, Enqueue, EnqueueFails, EnqueueCleanupFails, Settle
<1>3. ASSUME NEW e \in Execs, Execute(e)
      PROVE  Shape'
    BY <1>3 DEF Execute, WorkerStarts, RunMarks, RunEnds, ClearRunningFlag, Acknowledge, Settle,
                Finish, Leave
<1>4. ASSUME NEW e \in Execs, RunRaises(e) \/ ClearFails(e) \/ ChildKilled(e)
      PROVE  Shape'
    BY <1>4 DEF RunRaises, ClearFails, ChildKilled, Settle, Finish, Leave, Forsake
<1>5. ASSUME NEW e \in Execs, ConnectionLost(e) \/ WorkerDies(e)
      PROVE  Shape'
    BY <1>5 DEF ConnectionLost, WorkerDies
<1>6. CASE ApiRestarts
    BY <1>6 DEF ApiRestarts, Settle
<1>7. CASE UNCHANGED vars
    BY <1>7 DEF vars
<1>8. QED
    BY <1>1, <1>2, <1>3, <1>4, <1>5, <1>6, <1>7 DEF Next, Fault

(* Without a redelivery around, no step lets the flag go while an          *)
(* execution is live or starts a second one; and when those around a       *)
(* redelivery are over, nothing is left to go wrong.                       *)
LEMMA DispatchStep ==
    ASSUME Shape, DispatchInv, [Next]_vars
    PROVE  DispatchInv'
<1> USE DEF Shape, DispatchInv, StatusIsHonest, OneRunAtATime, Live, Executing, Goto, Become,
            schedule, tasks, Dispatchers
<1>1. CASE TimePasses \/ EnableSchedule \/ AdminTriggers \/ Tick
    BY <1>1 DEF TimePasses, EnableSchedule, AdminTriggers, Tick, TickLoads, TickChecksRunning,
                TickAttempts
<1>2. ASSUME NEW a \in Dispatchers, Trigger(a)
      PROVE  DispatchInv'
    <2>1. \A b \in Dispatchers : pc[b] # "enqueue"
        BY <1>2, NoneAssumption DEF Trigger
    <2>2. CASE flag
        BY <1>2, <2>1, <2>2 DEF Trigger
    <2>3. CASE ~flag
        BY <1>2, <2>1, <2>3 DEF Trigger
    <2>4. QED
        BY <2>2, <2>3
<1>3. ASSUME NEW a \in Dispatchers, Enqueue(a)
      PROVE  DispatchInv'
    BY <1>3 DEF Enqueue
<1>4. ASSUME NEW a \in Dispatchers, EnqueueFails(a) \/ EnqueueCleanupFails(a)
      PROVE  DispatchInv'
    BY <1>4 DEF EnqueueFails, EnqueueCleanupFails, Settle, Quiet
<1>5. ASSUME NEW e \in Execs, WorkerStarts(e) \/ RunMarks(e) \/ RunEnds(e) \/ Acknowledge(e)
      PROVE  DispatchInv'
    BY <1>5 DEF WorkerStarts, RunMarks, RunEnds, Acknowledge, Leave
<1>6. ASSUME NEW e \in Execs, ClearRunningFlag(e) \/ ClearFails(e) \/ ChildKilled(e)
      PROVE  DispatchInv'
    <2>1. /\ run[e] \in Executing
          /\ run' = [run EXCEPT ![e] = "none"] \/ run' = [run EXCEPT ![e] = "unacked"]
          /\ Settle
          /\ UNCHANGED <<pc, dispatch>>
        BY <1>6 DEF ClearRunningFlag, ClearFails, ChildKilled, Finish, Leave
    <2>2. Live' = Live \ {e} /\ e \in Live
        BY <2>1
    <2>3. CASE doubled
        BY <2>1, <2>2, <2>3 DEF Settle, Quiet
    <2>4. CASE ~doubled
        <3>1. Live' = {} /\ \A a \in Dispatchers : pc[a] # "enqueue"
            BY <2>2, <2>4
        <3>2. QED
            BY <2>1, <3>1
    <2>5. QED
        BY <2>3, <2>4
<1>7. ASSUME NEW e \in Execs, RunRaises(e) \/ WorkerDies(e)
      PROVE  DispatchInv'
    BY <1>7 DEF RunRaises, WorkerDies
<1>8. ASSUME NEW e \in Execs, ConnectionLost(e)
      PROVE  DispatchInv'
    BY <1>8 DEF ConnectionLost
<1>9. CASE ApiRestarts
    BY <1>9 DEF ApiRestarts, Settle, Quiet
<1>10. CASE UNCHANGED vars
    BY <1>10 DEF vars
<1>11. QED
    BY <1>1, <1>2, <1>3, <1>4, <1>5, <1>6, <1>7, <1>8, <1>9, <1>10
    DEF Next, Fault, Dispatch, Execute

(* No step leaves a flag without an owner.                                 *)
LEMMA OwnerStep ==
    ASSUME Shape, FlagHasOwner, DispatchInv, [Next]_vars
    PROVE  FlagHasOwner'
<1> USE DEF Shape, FlagHasOwner, Live, Executing, Goto, Become, schedule, tasks, Dispatchers
<1>1. CASE TimePasses \/ EnableSchedule \/ AdminTriggers \/ Tick
    BY <1>1 DEF TimePasses, EnableSchedule, AdminTriggers, Tick, TickLoads, TickChecksRunning,
                TickAttempts
<1>2. ASSUME NEW a \in Dispatchers, Trigger(a) \/ Enqueue(a)
      PROVE  FlagHasOwner'
    BY <1>2 DEF Trigger, Enqueue
<1>3. ASSUME NEW a \in Dispatchers, EnqueueFails(a) \/ EnqueueCleanupFails(a)
      PROVE  FlagHasOwner'
    BY <1>3 DEF EnqueueFails, EnqueueCleanupFails
<1>4. ASSUME NEW e \in Execs, WorkerStarts(e) \/ RunMarks(e) \/ RunEnds(e) \/ Acknowledge(e)
      PROVE  FlagHasOwner'
    BY <1>4 DEF WorkerStarts, RunMarks, RunEnds, Acknowledge, Leave
<1>5. ASSUME NEW e \in Execs, ClearRunningFlag(e)
      PROVE  FlagHasOwner'
    BY <1>5 DEF ClearRunningFlag
<1>6. ASSUME NEW e \in Execs, ClearFails(e) \/ ChildKilled(e)
      PROVE  FlagHasOwner'
    <2>1. /\ run' = [run EXCEPT ![e] = "none"] \/ run' = [run EXCEPT ![e] = "unacked"]
          /\ Forsake(e)
          /\ UNCHANGED <<pc, flag>>
        BY <1>6 DEF ClearFails, ChildKilled, Finish, Leave
    <2>2. Live \ {e} \subseteq Live'
        BY <2>1
    <2>3. CASE Live \subseteq {e}
        BY <2>1, <2>3 DEF Forsake
    <2>4. CASE ~(Live \subseteq {e})
        BY <2>1, <2>2, <2>4
    <2>5. QED
        BY <2>3, <2>4
<1>7. ASSUME NEW e \in Execs, RunRaises(e) \/ WorkerDies(e)
      PROVE  FlagHasOwner'
    BY <1>7 DEF RunRaises, WorkerDies
<1>8. ASSUME NEW e \in Execs, ConnectionLost(e)
      PROVE  FlagHasOwner'
    BY <1>8 DEF ConnectionLost
<1>9. CASE ApiRestarts
    BY <1>9 DEF ApiRestarts, Quiet
<1>10. CASE UNCHANGED vars
    BY <1>10 DEF vars
<1>11. QED
    BY <1>1, <1>2, <1>3, <1>4, <1>5, <1>6, <1>7, <1>8, <1>9, <1>10
    DEF Next, Fault, Dispatch, Execute

-----------------------------------------------------------------------------
(* A later hour does not fall on an earlier day.                           *)
LEMMA DayOf ==
    ASSUME NEW h \in Nat, NEW m \in Nat, h <= m, NEW n \in Nat \ {0}
    PROVE  h \div n \in 0 .. m \div n
<1> DEFINE q == h \div n
           r == h % n
           top == m \div n
           rest == m % n
<1>1. q \in Nat /\ r \in Nat /\ h = q * n + r
    OBVIOUS
<1>2. top \in Nat /\ rest \in Nat /\ rest < n /\ m = top * n + rest
    OBVIOUS
<1> HIDE DEF q, r, top, rest
<1>3. q <= top
    <2>1. SUFFICES ASSUME q = top + (q - top), q - top \in Nat, q - top > 0
                   PROVE  FALSE
        BY <1>1, <1>2
    <2>2. PICK d \in Nat : q = top + 1 + d
        BY <1>1, <1>2, <2>1
    <2>3. q * n = top * n + n + d * n
        BY <1>1, <1>2, <2>2
    <2>4. d * n \in Nat
        BY <2>2
    <2>5. top * n \in Nat
        BY <1>2
    <2>6. QED
        BY <1>1, <1>2, <2>3, <2>4, <2>5
<1>4. QED
    BY <1>1, <1>2, <1>3 DEF q, top

(* A fault or a trigger uses one unit of its bound.                        *)
LEMMA SpendType ==
    ASSUME spent \in [triggers : Nat, faults : Nat],
           Spend("triggers", MaxTriggers) \/ \E kind \in FaultKinds : Fails(kind)
    PROVE  spent' \in [triggers : Nat, faults : Nat]
BY DEF Spend, Fails

(* Every step keeps the types.                                             *)
LEMMA TypeStep ==
    ASSUME TypeOK, [Next]_vars
    PROVE  TypeOK'
<1>0. Today \in Days
    <2>1. now \in 0 .. MaxTime /\ MaxTime \in Nat /\ HoursPerDay \in Nat \ {0}
        BY HoursAssumption DEF TypeOK
    <2>2. QED
        BY <2>1, DayOf DEF Today, Days
<1> USE DEF TypeOK, Goto, Become, schedule, tasks, Dispatchers
<1>1. CASE TimePasses
    BY <1>1, HoursAssumption DEF TimePasses
<1>2. CASE EnableSchedule
    BY <1>2 DEF EnableSchedule
<1>3. CASE AdminTriggers
    BY <1>3, SpendType DEF AdminTriggers
<1>4. CASE Tick
    <2>1. CASE TickLoads
        BY <2>1 DEF TickLoads
    <2>2. CASE TickChecksRunning
        BY <2>2 DEF TickChecksRunning
    <2>3. CASE TickAttempts
        BY <2>3 DEF TickAttempts
    <2>4. QED
        BY <1>4, <2>1, <2>2, <2>3 DEF Tick
<1>5. ASSUME NEW a \in Dispatchers, Trigger(a) \/ Enqueue(a)
      PROVE  TypeOK'
    <2>1. CASE Trigger(a)
        <3>1. pc' \in [Dispatchers -> {"idle", "loaded", "attempt", "trigger", "enqueue"}]
            <4>1. PICK label \in {"idle", "enqueue"} : pc' = [pc EXCEPT ![a] = label]
                BY <2>1 DEF Trigger
            <4>2. QED
                BY <4>1
        <3>2. flag' \in BOOLEAN /\ dispatch' \in {None} \cup Dispatchers
            BY <2>1 DEF Trigger
        <3>3. UNCHANGED <<now, mode, enabled, last, loaded, tasks, orphaned, spent>>
            BY <2>1 DEF Trigger
        <3>4. QED
            BY <3>1, <3>2, <3>3
    <2>2. CASE Enqueue(a)
        BY <2>2 DEF Enqueue
    <2>3. QED
        BY <1>5, <2>1, <2>2
<1>6. ASSUME NEW a \in Dispatchers, EnqueueFails(a) \/ EnqueueCleanupFails(a)
      PROVE  TypeOK'
    <2>1. spent' \in [triggers : Nat, faults : Nat]
        BY <1>6, SpendType DEF EnqueueFails, EnqueueCleanupFails, FaultKinds
    <2>2. QED
        BY <1>6, <2>1 DEF EnqueueFails, EnqueueCleanupFails, Settle
<1>7. ASSUME NEW e \in Execs,
             WorkerStarts(e) \/ RunMarks(e) \/ RunEnds(e) \/ ClearRunningFlag(e) \/ Acknowledge(e)
      PROVE  TypeOK'
    <2>1. CASE WorkerStarts(e)
        BY <2>1 DEF WorkerStarts
    <2>2. CASE RunMarks(e)
        BY <1>0, <2>2 DEF RunMarks
    <2>3. CASE RunEnds(e)
        BY <1>0, <2>3 DEF RunEnds
    <2>4. CASE ClearRunningFlag(e)
        BY <2>4 DEF ClearRunningFlag, Settle, Finish, Leave
    <2>5. CASE Acknowledge(e)
        BY <2>5 DEF Acknowledge, Leave
    <2>6. QED
        BY <1>7, <2>1, <2>2, <2>3, <2>4, <2>5
<1>8. ASSUME NEW e \in Execs,
             \/ RunRaises(e) \/ ClearFails(e) \/ ChildKilled(e)
             \/ ConnectionLost(e) \/ WorkerDies(e)
      PROVE  TypeOK'
    <2>0. spent' \in [triggers : Nat, faults : Nat]
        BY <1>8, SpendType
        DEF RunRaises, ClearFails, ChildKilled, ConnectionLost, WorkerDies, FaultKinds
    <2>1. CASE RunRaises(e)
        BY <2>0, <2>1 DEF RunRaises
    <2>2. CASE ClearFails(e) \/ ChildKilled(e)
        BY <2>0, <2>2 DEF ClearFails, ChildKilled, Settle, Finish, Leave, Forsake
    <2>3. CASE ConnectionLost(e)
        BY <2>0, <2>3 DEF ConnectionLost
    <2>4. CASE WorkerDies(e)
        BY <2>0, <2>4 DEF WorkerDies
    <2>5. QED
        BY <1>8, <2>1, <2>2, <2>3, <2>4
<1>9. CASE ApiRestarts
    <2>1. spent' \in [triggers : Nat, faults : Nat]
        BY <1>9, SpendType DEF ApiRestarts, FaultKinds
    <2>2. QED
        BY <1>9, <2>1 DEF ApiRestarts, Settle
<1>10. CASE UNCHANGED vars
    BY <1>10 DEF vars
<1>11. QED
    BY <1>1, <1>2, <1>3, <1>4, <1>5, <1>6, <1>7, <1>8, <1>9, <1>10
    DEF Next, Fault, Dispatch, Execute

(* The recorded success is a day that has begun, or none; the flag, the    *)
(* lock and every program counter keep their types, faults included.       *)
THEOREM TypeCorrect == Spec => []TypeOK
<1>1. Init => TypeOK
    <2> SUFFICES ASSUME Init PROVE TypeOK
        OBVIOUS
    <2>1. now \in 0 .. MaxTime
        BY HoursAssumption DEF Init
    <2>2. QED
        BY <2>1 DEF Init, TypeOK
<1>2. TypeOK /\ [Next]_vars => TypeOK'
    BY TypeStep
<1>3. QED
    BY <1>1, <1>2, PTL DEF Spec

-----------------------------------------------------------------------------
(* The invariant holds, whatever fails.                                    *)
THEOREM Invariance == Spec => []IInv
<1>1. Init => IInv
    BY InitInv
<1>2. IInv /\ [Next]_vars => IInv'
    BY ShapeStep, DispatchStep, OwnerStep DEF IInv
<1>3. QED
    BY <1>1, <1>2, PTL DEF Spec

(* The status endpoint answers completed only when no pipeline is queued,  *)
(* running or being cleaned up, except until the executions around a       *)
(* redelivery to a task that lives or has ended are over.                  *)
THEOREM HonestStatus == Spec => []StatusIsHonest
<1>1. IInv => StatusIsHonest
    BY DEF IInv, DispatchInv
<1>2. QED
    BY <1>1, Invariance, PTL

(* Two executions of the pipeline never overlap, however ticks, triggers,  *)
(* restarts of the API, killed children and dead workers interleave, with  *)
(* the same exception.                                                     *)
THEOREM NoOverlap == Spec => []OneRunAtATime
<1>1. IInv => OneRunAtATime
    BY DEF IInv, DispatchInv
<1>2. QED
    BY <1>1, Invariance, PTL

(* A running flag nobody will clear has lost its last owner to a killed    *)
(* child, a restart of the API or an unreachable database; redeliveries    *)
(* and dead workers never leave one.                                       *)
THEOREM OwnedFlag == Spec => []FlagHasOwner
<1>1. IInv => FlagHasOwner
    BY DEF IInv
<1>2. QED
    BY <1>1, Invariance, PTL
=============================================================================
