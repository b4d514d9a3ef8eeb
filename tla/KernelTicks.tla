---------------------------- MODULE KernelTicks ----------------------------
(***************************************************************************)
(* Time in the kernel (tasks.c): the tick counter and its wrap, the two    *)
(* delayed lists, xNextTaskUnblockTime, ticks that come while the          *)
(* scheduler is suspended, vTaskDelay, vTaskDelayUntil, waits with a time  *)
(* limit (vTaskSetTimeOutState, xTaskCheckForTimeOut), vTaskSuspend and    *)
(* vTaskResume.                                                            *)
(*                                                                         *)
(* Priorities are left out: any ready task may run next (KernelQueue and   *)
(* KernelMutex say which one does).  The scheduler is suspended by the     *)
(* running task, so it stays the running task.                             *)
(***************************************************************************)
EXTENDS Integers

CONSTANTS
    Tasks,
    Wrap,           \* TickType_t counts modulo Wrap (2^32 in the program)
    Overflows,      \* xNumOfOverflows is kept modulo Overflows
    MaxPended,      \* bound on ticks during one suspension of the scheduler
    Delays,         \* the delays each task asks of vTaskDelay
    Increments,     \* ... of vTaskDelayUntil
    Waits,          \* the time limits of its waits for an event
    Suspends        \* the tasks it suspends and resumes

ASSUME TickConstants ==
    /\ Wrap \in Nat /\ Wrap >= 2
    /\ Overflows \in Nat /\ Overflows >= 3
    /\ MaxPended \in Nat
    /\ Delays \in [Tasks -> SUBSET (1 .. Wrap - 1)]
    /\ Increments \in [Tasks -> SUBSET (1 .. Wrap - 1)]
    /\ Waits \in [Tasks -> SUBSET (1 .. Wrap - 1)]
    /\ Suspends \in [Tasks -> SUBSET Tasks]

VARIABLES
    xTickCount, xNumOfOverflows,
    xNextTaskUnblockTime,
    uxPendedTicks,
    uxSchedulerSuspended,   \* "no", "yes", or "resuming" inside xTaskResumeAll
    pxCurrentTCB,
    xStateListItem,         \* the list each task is in
    xItemValue,             \* when it wakes, 0 if it is in no delayed list
    xEventListItem,         \* "none", "event" or "pending" (xPendingReadyList)
    pc,                     \* where each task is in its call
    xTimeOnEntering, xOverflowCount, xTicksToWait,  \* of its wait; 0 if none
    pxPreviousWakeTime,     \* of its vTaskDelayUntil
    ticksLeft,              \* (history) until its delay is over
    waitLeft,               \* (history) until its wait is over
    sinceEntry,             \* (history) since its time-out state was set
    late                    \* (history) since its previous wake time

clockVars == <<xTickCount, xNumOfOverflows>>
listVars == <<xStateListItem, xItemValue, xEventListItem>>
timeOutVars == <<xTimeOnEntering, xOverflowCount, xTicksToWait>>
history == <<ticksLeft, waitLeft, sinceEntry, late>>
vars == <<clockVars, xNextTaskUnblockTime, uxPendedTicks, uxSchedulerSuspended, pxCurrentTCB,
          listVars, pc, timeOutVars, pxPreviousWakeTime, history>>

Times == 0 .. Wrap - 1
portMAX_DELAY == Wrap - 1
Delayed == {t \in Tasks : xStateListItem[t] = "delayed"}

Init ==
    /\ xTickCount = 0 /\ xNumOfOverflows = 0
    /\ xNextTaskUnblockTime = portMAX_DELAY
    /\ uxPendedTicks = 0
    /\ uxSchedulerSuspended = "no"
    /\ pxCurrentTCB \in Tasks
    /\ xStateListItem = [t \in Tasks |-> "ready"]
    /\ xItemValue = [t \in Tasks |-> 0]
    /\ xEventListItem = [t \in Tasks |-> "none"]
    /\ pc = [t \in Tasks |-> "app"]
    /\ xTimeOnEntering = [t \in Tasks |-> 0]
    /\ xOverflowCount = [t \in Tasks |-> 0]
    /\ xTicksToWait = [t \in Tasks |-> 0]
    /\ pxPreviousWakeTime = [t \in Tasks |-> 0]
    /\ ticksLeft = [t \in Tasks |-> 0]
    /\ waitLeft = [t \in Tasks |-> 0]
    /\ sinceEntry = [t \in Tasks |-> 0]
    /\ late = [t \in Tasks |-> 0]

Running(t) == pxCurrentTCB = t /\ uxSchedulerSuspended # "resuming"
\* The yield at the end of a call that blocked its task has been taken.
InApp(t) == Running(t) /\ pc[t] = "app" /\ xStateListItem[t] = "ready"

\* Any ready task may be the one to run (vTaskSwitchContext).
Switch ==
    /\ uxSchedulerSuspended = "no"
    /\ \E t \in Tasks \ {pxCurrentTCB} : xStateListItem[t] = "ready" /\ pxCurrentTCB' = t
    /\ UNCHANGED <<clockVars, xNextTaskUnblockTime, uxPendedTicks, uxSchedulerSuspended,
                   listVars, pc, timeOutVars, pxPreviousWakeTime, history>>
-----------------------------------------------------------------------------
(* The lists *)

\* prvResetNextTaskUnblockTime: the value at the head of a delayed list.
HeadOf(list) ==
    IF list = {} THEN {portMAX_DELAY}
    ELSE {v \in Times : (\E t \in list : xItemValue[t] = v) /\ \A t \in list : v <= xItemValue[t]}

\* Tasks U leave every list but the ready lists.
MakeReady(U) ==
    /\ xStateListItem' = [t \in Tasks |-> IF t \in U THEN "ready" ELSE xStateListItem[t]]
    /\ xItemValue' = [t \in Tasks |-> IF t \in U THEN 0 ELSE xItemValue[t]]
    /\ xEventListItem' = [t \in Tasks |-> IF t \in U THEN "none" ELSE xEventListItem[t]]

\* prvAddCurrentTaskToDelayedList.
\* (wrong on purpose: the overflow list is not used)
TargetNever(wake) == "delayed"
Target(wake) == IF wake < xTickCount THEN "overflow" ELSE "delayed"
UnblockTimeAfterAdding(wake) ==
    IF Target(wake) = "delayed" /\ wake < xNextTaskUnblockTime THEN wake ELSE xNextTaskUnblockTime

AddToDelayedList(t, ticks) ==
    LET wake == (xTickCount + ticks) % Wrap
    IN  /\ xStateListItem' = [xStateListItem EXCEPT ![t] = Target(wake)]
        /\ xItemValue' = [xItemValue EXCEPT ![t] = wake]
        /\ xNextTaskUnblockTime' = UnblockTimeAfterAdding(wake)
        /\ ticksLeft' = [ticksLeft EXCEPT ![t] = ticks]
AddToSuspendedList(t) ==
    /\ xStateListItem' = [xStateListItem EXCEPT ![t] = "suspended"]
    /\ UNCHANGED <<xItemValue, xNextTaskUnblockTime, ticksLeft>>
-----------------------------------------------------------------------------
(* The tick *)

\* (wrong on purpose: wakes one tick too early)
IsDueEarly(now, value) == now + 1 >= value
IsDue(now, value) == now >= value

\* taskSWITCH_DELAYED_LISTS.
Overflowed == {t \in Tasks : xStateListItem[t] = "overflow"}
Switched(t) ==
    CASE xStateListItem[t] = "overflow" -> "delayed"
      [] xStateListItem[t] = "delayed" -> "overflow"
      [] OTHER -> xStateListItem[t]
\* (wrong on purpose: xNextTaskUnblockTime is not recomputed)
UnblockTimeAfterSwitchKept == {xNextTaskUnblockTime}
UnblockTimeAfterSwitch == HeadOf(Overflowed)

\* Tasks due leave the delayed lists, the others are in the lists of where.
Wake(due, where) ==
    /\ xStateListItem' = [t \in Tasks |-> IF t \in due THEN "ready" ELSE where[t]]
    /\ xItemValue' = [t \in Tasks |-> IF t \in due THEN 0 ELSE xItemValue[t]]
    /\ xEventListItem' = [t \in Tasks |-> IF t \in due THEN "none" ELSE xEventListItem[t]]

\* The loop over the delayed list, entered if its head is due.
WakeDue(now, list, where, unblockTime) ==
    LET due == {t \in list : IsDue(now, xItemValue[t])}
    IN  IF now >= unblockTime
          THEN Wake(due, where) /\ xNextTaskUnblockTime' \in HeadOf(list \ due)
          ELSE Wake({}, where) /\ xNextTaskUnblockTime' = unblockTime

HistoryTick ==
    /\ ticksLeft' = [t \in Tasks |-> IF ticksLeft[t] > 0 THEN ticksLeft[t] - 1 ELSE 0]
    /\ waitLeft' = [t \in Tasks |-> IF waitLeft[t] > 0 THEN waitLeft[t] - 1 ELSE 0]
    /\ sinceEntry' = [t \in Tasks |-> IF xTicksToWait[t] > 0 THEN sinceEntry[t] + 1 ELSE 0]
    /\ late' = [t \in Tasks |-> IF Increments[t] # {} THEN late[t] + 1 ELSE 0]

\* xTaskIncrementTick with the scheduler running.
IncrementTick ==
    /\ \/ /\ xTickCount < Wrap - 1
          /\ xTickCount' = xTickCount + 1
          /\ UNCHANGED xNumOfOverflows
          /\ WakeDue(xTickCount + 1, Delayed, xStateListItem, xNextTaskUnblockTime)
       \/ /\ xTickCount = Wrap - 1
          /\ xTickCount' = 0
          /\ xNumOfOverflows' = (xNumOfOverflows + 1) % Overflows
          /\ \E unblockTime \in UnblockTimeAfterSwitch :
                WakeDue(0, Overflowed, [t \in Tasks |-> Switched(t)], unblockTime)
    /\ HistoryTick

\* The tick interrupt.  Bounded: no task goes longer than the counter takes to
\* wrap without running.
Tick ==
    /\ \A t \in Tasks : /\ sinceEntry[t] + uxPendedTicks < Wrap
                        /\ late[t] + uxPendedTicks < Wrap - 1
    /\ \/ /\ uxSchedulerSuspended = "no"
          /\ IncrementTick
          /\ UNCHANGED uxPendedTicks
       \/ /\ uxSchedulerSuspended = "yes"
          /\ uxPendedTicks < MaxPended
          /\ uxPendedTicks' = uxPendedTicks + 1
          /\ UNCHANGED <<clockVars, xNextTaskUnblockTime, listVars, history>>
    /\ UNCHANGED <<uxSchedulerSuspended, pxCurrentTCB, pc, timeOutVars, pxPreviousWakeTime>>
-----------------------------------------------------------------------------
(* Suspending the scheduler *)

SuspendAll(t) ==
    /\ InApp(t)
    /\ uxSchedulerSuspended' = "yes"
    /\ pc' = [pc EXCEPT ![t] = "locked"]
    /\ UNCHANGED <<clockVars, xNextTaskUnblockTime, uxPendedTicks, pxCurrentTCB, listVars,
                   timeOutVars, pxPreviousWakeTime, history>>

\* (wrong on purpose: the ticks that came meanwhile are dropped)
PendedDropped == 0
Pended == uxPendedTicks

\* xTaskResumeAll: its critical section starts with the tasks that became
\* ready meanwhile ...
ResumeAll(t) ==
    LET pending == {u \in Tasks : xEventListItem[u] = "pending"}
    IN  /\ Running(t)
        /\ pc[t] \in {"locked", "leaving"}
        /\ uxSchedulerSuspended = "yes"
        /\ xTicksToWait[t] > 0 => pc[t] = "leaving"
        /\ MakeReady(pending)
        /\ ticksLeft' = [u \in Tasks |-> IF u \in pending THEN 0 ELSE ticksLeft[u]]
        /\ IF pending # {} THEN xNextTaskUnblockTime' \in HeadOf(Delayed \ pending)
                           ELSE UNCHANGED xNextTaskUnblockTime
        /\ uxSchedulerSuspended' = "resuming"
        /\ uxPendedTicks' = Pended
        /\ pc' = [pc EXCEPT ![t] = "app"]
        /\ UNCHANGED <<clockVars, pxCurrentTCB, timeOutVars, pxPreviousWakeTime,
                       waitLeft, sinceEntry, late>>

\* ... goes on with the ticks that came meanwhile, one by one ...
PendedTick ==
    /\ uxSchedulerSuspended = "resuming"
    /\ uxPendedTicks > 0
    /\ IncrementTick
    /\ uxPendedTicks' = uxPendedTicks - 1
    /\ UNCHANGED <<uxSchedulerSuspended, pxCurrentTCB, pc, timeOutVars, pxPreviousWakeTime>>

\* ... and ends.
Resumed ==
    /\ uxSchedulerSuspended = "resuming"
    /\ uxPendedTicks = 0
    /\ uxSchedulerSuspended' = "no"
    /\ UNCHANGED <<clockVars, xNextTaskUnblockTime, uxPendedTicks, pxCurrentTCB, listVars, pc,
                   timeOutVars, pxPreviousWakeTime, history>>
-----------------------------------------------------------------------------
(* vTaskDelay and vTaskDelayUntil, with the scheduler suspended *)

Locked(t) == Running(t) /\ pc[t] = "locked" /\ xTicksToWait[t] = 0

Delay(t) ==
    /\ Locked(t)
    /\ \E ticks \in Delays[t] : AddToDelayedList(t, ticks)
    /\ pc' = [pc EXCEPT ![t] = "leaving"]
    /\ UNCHANGED <<clockVars, uxPendedTicks, uxSchedulerSuspended, pxCurrentTCB, xEventListItem,
                   timeOutVars, pxPreviousWakeTime, waitLeft, sinceEntry, late>>

\* Whether the wake time (previous + increment) % Wrap is still to come.
\* (wrong on purpose: as if the counter never wrapped)
ShouldDelayNoWrap(now, previous, increment) == (previous + increment) % Wrap > now
ShouldDelay(now, previous, increment) ==
    LET wake == (previous + increment) % Wrap
    IN  IF now < previous THEN wake < previous /\ wake > now
                          ELSE wake < previous \/ wake > now

DelayUntil(t, increment) ==
    LET wake == (pxPreviousWakeTime[t] + increment) % Wrap
    IN  /\ Locked(t)
        /\ pxPreviousWakeTime' = [pxPreviousWakeTime EXCEPT ![t] = wake]
        /\ late' = [late EXCEPT ![t] = @ - increment]
        /\ IF ShouldDelay(xTickCount, pxPreviousWakeTime[t], increment)
             THEN AddToDelayedList(t, (wake - xTickCount) % Wrap)
             ELSE UNCHANGED <<xStateListItem, xItemValue, xNextTaskUnblockTime, ticksLeft>>
        /\ pc' = [pc EXCEPT ![t] = "leaving"]
        /\ UNCHANGED <<clockVars, uxPendedTicks, uxSchedulerSuspended, pxCurrentTCB, xEventListItem,
                       timeOutVars, waitLeft, sinceEntry>>
-----------------------------------------------------------------------------
(* Waiting for an event with a time limit, as queue.c does *)

SetTimeOutState(t) ==
    /\ xOverflowCount' = [xOverflowCount EXCEPT ![t] = xNumOfOverflows]
    /\ xTimeOnEntering' = [xTimeOnEntering EXCEPT ![t] = xTickCount]
    /\ sinceEntry' = [sinceEntry EXCEPT ![t] = 0]

\* The first pass finds that the event has not happened.
StartWait(t) ==
    /\ InApp(t)
    /\ xTicksToWait[t] = 0
    /\ \E ticks \in Waits[t] : /\ xTicksToWait' = [xTicksToWait EXCEPT ![t] = ticks]
                               /\ waitLeft' = [waitLeft EXCEPT ![t] = ticks]
    /\ SetTimeOutState(t)
    /\ UNCHANGED <<clockVars, xNextTaskUnblockTime, uxPendedTicks, uxSchedulerSuspended,
                   pxCurrentTCB, listVars, pc, pxPreviousWakeTime, ticksLeft, late>>

Elapsed(t) == (xTickCount - xTimeOnEntering[t]) % Wrap

\* xTaskCheckForTimeOut.
\* (wrong on purpose: does not look at the overflows)
TimedOutIgnoringOverflows(t) == xTicksToWait[t] # portMAX_DELAY /\ Elapsed(t) >= xTicksToWait[t]
TimedOut(t) ==
    /\ xTicksToWait[t] # portMAX_DELAY
    /\ \/ xNumOfOverflows # xOverflowCount[t] /\ xTickCount >= xTimeOnEntering[t]
       \/ Elapsed(t) >= xTicksToWait[t]

EndOfWait(t) ==
    /\ xTicksToWait' = [xTicksToWait EXCEPT ![t] = 0]
    /\ xTimeOnEntering' = [xTimeOnEntering EXCEPT ![t] = 0]
    /\ xOverflowCount' = [xOverflowCount EXCEPT ![t] = 0]
    /\ waitLeft' = [waitLeft EXCEPT ![t] = 0]
    /\ sinceEntry' = [sinceEntry EXCEPT ![t] = 0]

\* A pass finds that the event has happened.
EventFound(t) ==
    /\ InApp(t)
    /\ xTicksToWait[t] > 0
    /\ EndOfWait(t)
    /\ UNCHANGED <<clockVars, xNextTaskUnblockTime, uxPendedTicks, uxSchedulerSuspended,
                   pxCurrentTCB, listVars, pc, pxPreviousWakeTime, ticksLeft, late>>

\* With the scheduler suspended: the time is over.
GiveUp(t) ==
    /\ Running(t) /\ pc[t] = "locked" /\ xTicksToWait[t] > 0
    /\ TimedOut(t)
    /\ EndOfWait(t)
    /\ pc' = [pc EXCEPT ![t] = "leaving"]
    /\ UNCHANGED <<clockVars, xNextTaskUnblockTime, uxPendedTicks, uxSchedulerSuspended,
                   pxCurrentTCB, listVars, pxPreviousWakeTime, ticksLeft, late>>

\* ... there is time left, and the event has happened meanwhile or the task
\* goes onto the event list.
KeepWaiting(t) ==
    LET remaining == IF xTicksToWait[t] = portMAX_DELAY THEN portMAX_DELAY
                     ELSE xTicksToWait[t] - Elapsed(t)
    IN  /\ Running(t) /\ pc[t] = "locked" /\ xTicksToWait[t] > 0
        /\ ~TimedOut(t)
        /\ IF xTicksToWait[t] = portMAX_DELAY
             THEN UNCHANGED <<timeOutVars, sinceEntry>>
             ELSE SetTimeOutState(t) /\ xTicksToWait' = [xTicksToWait EXCEPT ![t] = remaining]
        /\ \/ UNCHANGED <<listVars, xNextTaskUnblockTime, ticksLeft>>
           \/ /\ xEventListItem' = [xEventListItem EXCEPT ![t] = "event"]
              /\ IF remaining = portMAX_DELAY THEN AddToSuspendedList(t)
                                              ELSE AddToDelayedList(t, remaining)
        /\ pc' = [pc EXCEPT ![t] = "leaving"]
        /\ UNCHANGED <<clockVars, uxPendedTicks, uxSchedulerSuspended, pxCurrentTCB,
                       pxPreviousWakeTime, waitLeft, late>>

\* xTaskRemoveFromEventList, by an interrupt or by the running task.
Event(u) ==
    /\ uxSchedulerSuspended # "resuming"
    /\ xEventListItem[u] = "event"
    /\ IF uxSchedulerSuspended = "no"
         THEN MakeReady({u}) /\ ticksLeft' = [ticksLeft EXCEPT ![u] = 0]
         ELSE /\ xEventListItem' = [xEventListItem EXCEPT ![u] = "pending"]
              /\ UNCHANGED <<xStateListItem, xItemValue, ticksLeft>>
    /\ UNCHANGED <<clockVars, xNextTaskUnblockTime, uxPendedTicks, uxSchedulerSuspended,
                   pxCurrentTCB, pc, timeOutVars, pxPreviousWakeTime, waitLeft, sinceEntry, late>>
-----------------------------------------------------------------------------
(* Suspending and resuming tasks *)

\* vTaskSuspend, its first critical section.  Not of the running task itself
\* while the scheduler is suspended (configASSERT).
Suspend(t, u) ==
    /\ \/ InApp(t)
       \/ Locked(t) /\ u # t
    /\ u \in Suspends[t]
    /\ xStateListItem' = [xStateListItem EXCEPT ![u] = "suspended"]
    /\ xItemValue' = [xItemValue EXCEPT ![u] = 0]
    /\ xEventListItem' = [xEventListItem EXCEPT ![u] = "none"]
    /\ ticksLeft' = [ticksLeft EXCEPT ![u] = 0]
    /\ pc' = [pc EXCEPT ![t] = IF pc[t] = "locked" THEN "resetLocked" ELSE "reset"]
    /\ UNCHANGED <<clockVars, xNextTaskUnblockTime, uxPendedTicks, uxSchedulerSuspended,
                   pxCurrentTCB, timeOutVars, pxPreviousWakeTime, waitLeft, sinceEntry, late>>

\* ... and its second: prvResetNextTaskUnblockTime.
ResetUnblockTime(t) ==
    /\ Running(t)
    /\ pc[t] \in {"reset", "resetLocked"}
    /\ xNextTaskUnblockTime' \in HeadOf(Delayed)
    /\ pc' = [pc EXCEPT ![t] = IF @ = "reset" THEN "app" ELSE "locked"]
    /\ UNCHANGED <<clockVars, uxPendedTicks, uxSchedulerSuspended, pxCurrentTCB, listVars,
                   timeOutVars, pxPreviousWakeTime, history>>

\* prvTaskIsTaskSuspended.
\* (wrong on purpose: a task that waits for ever counts as suspended)
IsSuspendedOrBlocked(u) == xStateListItem[u] = "suspended" /\ xEventListItem[u] # "pending"
IsSuspended(u) == xStateListItem[u] = "suspended" /\ xEventListItem[u] = "none"

\* vTaskResume.
Resume(t, u) ==
    /\ InApp(t) \/ Locked(t)
    /\ u \in Suspends[t] \ {t}
    /\ IsSuspended(u)
    /\ MakeReady({u})
    /\ UNCHANGED <<clockVars, xNextTaskUnblockTime, uxPendedTicks, uxSchedulerSuspended,
                   pxCurrentTCB, pc, timeOutVars, pxPreviousWakeTime, history>>

\* xTaskResumeFromISR.
ResumeFromISR(u) ==
    /\ uxSchedulerSuspended # "resuming"
    /\ \E t \in Tasks : u \in Suspends[t]
    /\ IsSuspended(u)
    /\ IF uxSchedulerSuspended = "no"
         THEN MakeReady({u})
         ELSE /\ xEventListItem' = [xEventListItem EXCEPT ![u] = "pending"]
              /\ UNCHANGED <<xStateListItem, xItemValue>>
    /\ UNCHANGED <<clockVars, xNextTaskUnblockTime, uxPendedTicks, uxSchedulerSuspended,
                   pxCurrentTCB, pc, timeOutVars, pxPreviousWakeTime, history>>

Step(t) ==
    \/ SuspendAll(t)
    \/ ResumeAll(t)
    \/ Delay(t)
    \/ \E increment \in Increments[t] : DelayUntil(t, increment)
    \/ StartWait(t)
    \/ EventFound(t)
    \/ GiveUp(t)
    \/ KeepWaiting(t)
    \/ ResetUnblockTime(t)
    \/ \E u \in Tasks : Suspend(t, u) \/ Resume(t, u)

Next ==
    \/ Switch \/ Tick \/ PendedTick \/ Resumed
    \/ \E t \in Tasks : Step(t) \/ Event(t) \/ ResumeFromISR(t)

Spec == Init /\ [][Next]_vars
-----------------------------------------------------------------------------
(* Properties *)

\* Types.
TypeOK ==
    /\ xTickCount \in Times
    /\ xNumOfOverflows \in 0 .. Overflows - 1
    /\ xNextTaskUnblockTime \in Times
    /\ uxPendedTicks \in 0 .. MaxPended
    /\ uxSchedulerSuspended \in {"no", "yes", "resuming"}
    /\ pxCurrentTCB \in Tasks
    /\ xStateListItem \in [Tasks -> {"ready", "delayed", "overflow", "suspended"}]
    /\ xItemValue \in [Tasks -> Times]
    /\ xEventListItem \in [Tasks -> {"none", "event", "pending"}]
    /\ pc \in [Tasks -> {"app", "locked", "leaving", "reset", "resetLocked"}]
    /\ xTimeOnEntering \in [Tasks -> Times]
    /\ xOverflowCount \in [Tasks -> 0 .. Overflows - 1]
    /\ xTicksToWait \in [Tasks -> Times]
    /\ pxPreviousWakeTime \in [Tasks -> Times]
    /\ ticksLeft \in [Tasks -> Times]
    /\ waitLeft \in [Tasks -> Times]
    /\ sinceEntry \in [Tasks -> 0 .. Wrap]
    /\ late \in [Tasks -> Int]

\* A task whose delay is not over is in a delayed list, and one whose delay is
\* over is not, across every wrap of the counter: nobody wakes early or late.
\* (prvAddCurrentTaskToDelayedList, xTaskIncrementTick.)
WakesOnTime ==
    \A t \in Tasks : xStateListItem[t] \in {"delayed", "overflow"} <=> ticksLeft[t] > 0

\* xNextTaskUnblockTime is never later than the first task to wake.
\* (Every place that adds to the delayed list, and every one that resets it.)
UnblockTimeNotLate ==
    \A t \in Delayed : xNextTaskUnblockTime <= xItemValue[t]

\* The delayed list is empty when the lists are switched.
\* (taskSWITCH_DELAYED_LISTS, configASSERT.)
EmptyAtSwitch == xTickCount = Wrap - 1 => Delayed = {}

\* A task that gives up waiting has waited all its time and one that goes on has
\* not, however often it was woken in between and whether the counter wrapped.
\* (xTaskCheckForTimeOut.)
TimeOutExact ==
    \A t \in Tasks : xTicksToWait[t] \notin {0, portMAX_DELAY} => (TimedOut(t) <=> waitLeft[t] = 0)

\* "This ensures the tick count does not slip": every tick that came while the
\* scheduler was suspended is counted.  (tasks.c:2160)
NoTickLost ==
    [][uxPendedTicks' < uxPendedTicks =>
          /\ uxPendedTicks' = uxPendedTicks - 1
          /\ xTickCount' = (xTickCount + 1) % Wrap]_vars

\* "The task will be unblocked at time *pxPreviousWakeTime + xTimeIncrement":
\* vTaskDelayUntil delays exactly when that time is still to come, and then to
\* that time.  Only for a periodic task that is not suspended and resumed during
\* a delay: the code takes its early call for a wrap.  (task.h:782)
PeriodKept ==
    [][\A t \in Tasks : pxPreviousWakeTime'[t] # pxPreviousWakeTime[t] =>
          ticksLeft'[t] = IF late'[t] < 0 THEN -late'[t] ELSE 0]_vars

\* A task that is waiting for an event without a time limit is only made ready
\* by the event or by being suspended and resumed.  (prvTaskIsTaskSuspended.)
WaitsForEvent ==
    [][\A t \in Tasks : xStateListItem[t] = "suspended" /\ xEventListItem[t] = "event"
           /\ xStateListItem'[t] = "ready" => Event(t)]_vars
=============================================================================
