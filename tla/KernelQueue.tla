---------------------------- MODULE KernelQueue ----------------------------
(***************************************************************************)
(* A FreeRTOS queue (or counting semaphore, which is a queue of items of   *)
(* size zero) used by tasks of several priorities and by an interrupt      *)
(* handler, on the one core the kernel schedules: FreeRtos/queue.c with    *)
(* the scheduler functions of tasks.c it calls and the yields of the       *)
(* TriCore port.                                                           *)
(*                                                                         *)
(* Every action is one critical section of the code (interrupts masked up  *)
(* to configMAX_SYSCALL_INTERRUPT_PRIORITY), or the code between two of    *)
(* them when it only touches what the suspended scheduler protects.  An    *)
(* interrupt may come between any two actions, and so may a context switch *)
(* while the scheduler is not suspended.                                   *)
(*                                                                         *)
(* Data kept abstract: an item is the name of its sender; time is the      *)
(* number of ticks a call has left; a list whose order only breaks ties    *)
(* between tasks of one priority is a set, and ties are broken either way. *)
(***************************************************************************)
EXTENDS Integers, Sequences, FiniteSets

CONSTANTS
    Tasks,          \* the tasks of the core the kernel runs on
    Idle,           \* the idle task: always ready, never makes a call
    Prio,           \* uxPriority of every task
    QLen,           \* uxLength
    Calls,          \* the calls each task makes
    Waits,          \* the block times given to a call, in ticks
    portMAX_DELAY,  \* the block time that means "for ever"
    Isr,            \* the interrupt handler, as a sender of items
    IsrCalls,       \* what the interrupt handler does: "send", "receive"
    MaxLock,        \* bound: interrupts on the queue while it is locked
    MaxPended       \* bound: ticks while the scheduler is suspended

SendCalls == {"send", "sendfront", "overwrite"}
ReceiveCalls == {"receive", "peek"}
AllCalls == SendCalls \union ReceiveCalls \union {"delay"}

ASSUME ConstantsAssumption ==
    /\ IsFiniteSet(Tasks)
    /\ Idle \in Tasks
    /\ Isr \notin Tasks
    /\ Prio \in [Tasks -> Nat]
    /\ \A t \in Tasks : Prio[Idle] <= Prio[t]
    /\ QLen \in Nat \ {0}
    /\ Calls \in [Tasks -> SUBSET AllCalls]
    /\ Calls[Idle] = {}
    /\ portMAX_DELAY \in Nat \ {0}
    /\ Waits \subseteq 0 .. portMAX_DELAY
    /\ IsrCalls \subseteq {"send", "receive"}
    /\ MaxLock \in Nat
    /\ MaxPended \in Nat
    \* configASSERT in xQueueGenericSend: only a queue of one is overwritten
    /\ (\E t \in Tasks : "overwrite" \in Calls[t]) => QLen = 1

VARIABLES
    \* the queue
    items,                  \* its storage; uxMessagesWaiting is Len(items)
    cTxLock, cRxLock,       \* items sent / received while it is locked
    xTasksWaitingToSend,
    xTasksWaitingToReceive,
    \* the scheduler
    pxCurrentTCB,
    stateList,              \* the list each task's xStateListItem is in
    xPendingReadyList,
    uxSchedulerSuspended,
    xYieldPending,
    uxPendedTicks,
    yieldRequest,           \* GPSR: the kernel yield interrupt is pending
    \* the calls in progress
    pc,                     \* where each task is
    call,                   \* its call, or how its last call ended
    timing,                 \* xTimeOut holds the start of the call's wait
    xTicksToWait,           \* what is left of the block time
    outcome                 \* why the suspended scheduler will be resumed

queueVars == <<items, cTxLock, cRxLock, xTasksWaitingToSend, xTasksWaitingToReceive>>
schedVars == <<pxCurrentTCB, stateList, xPendingReadyList, uxSchedulerSuspended,
               xYieldPending, uxPendedTicks, yieldRequest>>
callVars == <<pc, call, timing, xTicksToWait, outcome>>
vars == <<queueVars, schedVars, callVars>>

queueUNLOCKED == -1
queueLOCKED_UNMODIFIED == 0

PCs == {"app", "check", "suspend", "lock", "timeout", "retest", "place",
        "unlockTx", "unlockRx", "resume", "yield", "recheck", "return"}
-----------------------------------------------------------------------------
Minimum(a, b) == IF a <= b THEN a ELSE b

\* (wrong on purpose, for the sensitivity runs: off by one)
FullOffByOne == Len(items) = QLen + 1
Full == Len(items) = QLen
Empty == items = << >>

\* The tasks taskSELECT_HIGHEST_PRIORITY_TASK may choose.
HighestReady(lists) ==
    {t \in Tasks : /\ lists[t] = "ready"
                   /\ \A u \in Tasks : lists[u] = "ready" => Prio[u] <= Prio[t]}

\* Some task of S would preempt (or share time with) the running one.
AnyAbove(S) == \E t \in S : Prio[t] > Prio[pxCurrentTCB]
AnyAtOrAbove(S) == \E t \in S : Prio[t] >= Prio[pxCurrentTCB]

\* The n tasks at the head of an event list, which is sorted by priority.
HeadOf(waiting, n) ==
    {W \in SUBSET waiting :
        /\ Cardinality(W) = Minimum(n, Cardinality(waiting))
        /\ \A t \in W, u \in waiting \ W : Prio[u] <= Prio[t]}

\* vTaskSwitchContext with the scheduler running.
SwitchContext ==
    /\ xYieldPending' = FALSE
    /\ pxCurrentTCB' \in HighestReady(stateList')

\* xTaskRemoveFromEventList on the tasks of W.
RemoveFromEventList(W) ==
    IF uxSchedulerSuspended = 0
      THEN /\ stateList' = [t \in Tasks |-> IF t \in W THEN "ready" ELSE stateList[t]]
           /\ UNCHANGED xPendingReadyList
      ELSE /\ xPendingReadyList' = xPendingReadyList \union W
           /\ UNCHANGED stateList

\* queueYIELD_IF_USING_PREEMPTION in a task's critical section: the yield
\* trap switches at once.
YieldIf(b) == IF b THEN SwitchContext ELSE UNCHANGED <<pxCurrentTCB, xYieldPending>>

\* t runs: no interrupt that outranks a task is pending.
Running(t) == pxCurrentTCB = t /\ ~yieldRequest

Goto(t, l) == pc' = [pc EXCEPT ![t] = l]

\* t's call returns r ("pass" or "fail").
Return(t, r) ==
    /\ Goto(t, "app")
    /\ call' = [call EXCEPT ![t] = r]
    /\ timing' = [timing EXCEPT ![t] = FALSE]
    /\ xTicksToWait' = [xTicksToWait EXCEPT ![t] = 0]
    /\ UNCHANGED outcome
-----------------------------------------------------------------------------
TypeOK ==
    /\ items \in Seq(Tasks \union {Isr}) /\ Len(items) <= QLen
    /\ cTxLock \in Nat \union {queueUNLOCKED}
    /\ cRxLock \in Nat \union {queueUNLOCKED}
    /\ xTasksWaitingToSend \subseteq Tasks
    /\ xTasksWaitingToReceive \subseteq Tasks
    /\ pxCurrentTCB \in Tasks
    /\ stateList \in [Tasks -> {"ready", "delayed", "suspended"}]
    /\ xPendingReadyList \subseteq Tasks
    /\ uxSchedulerSuspended \in Nat
    /\ xYieldPending \in BOOLEAN
    /\ uxPendedTicks \in 0 .. MaxPended
    /\ yieldRequest \in BOOLEAN
    /\ pc \in [Tasks -> PCs]
    /\ call \in [Tasks -> AllCalls \union {"pass", "fail"}]
    /\ timing \in [Tasks -> BOOLEAN]
    /\ xTicksToWait \in [Tasks -> 0 .. portMAX_DELAY]
    /\ outcome \in {"block", "retry", "giveup"}

\* The scheduler has started on an empty queue; every task is ready, and the
\* first to run is one of the highest priority.
Init ==
    /\ items = << >>
    /\ cTxLock = queueUNLOCKED /\ cRxLock = queueUNLOCKED
    /\ xTasksWaitingToSend = {} /\ xTasksWaitingToReceive = {}
    /\ stateList = [t \in Tasks |-> "ready"]
    /\ pxCurrentTCB \in HighestReady(stateList)
    /\ xPendingReadyList = {}
    /\ uxSchedulerSuspended = 0
    /\ xYieldPending = FALSE
    /\ uxPendedTicks = 0
    /\ yieldRequest = FALSE
    /\ pc = [t \in Tasks |-> "app"]
    /\ call = [t \in Tasks |-> "pass"]
    /\ timing = [t \in Tasks |-> FALSE]
    /\ xTicksToWait = [t \in Tasks |-> 0]
    /\ outcome = "retry"
-----------------------------------------------------------------------------
(* The application calls one of the functions below.                       *)
Call(t, c, n) ==
    /\ Running(t) /\ pc[t] = "app"
    /\ c \in Calls[t]
    /\ call' = [call EXCEPT ![t] = c]
    /\ xTicksToWait' = [xTicksToWait EXCEPT ![t] = n]
    /\ Goto(t, IF c # "delay" THEN "check" ELSE IF n > 0 THEN "suspend" ELSE "yield")
    /\ UNCHANGED <<queueVars, schedVars, timing, outcome>>

(* The first critical section of xQueueGenericSend, xQueueReceive and      *)
(* xQueuePeek: there is room (data), so the call is done.                  *)
SendPass(t) ==
    /\ Running(t) /\ pc[t] = "check" /\ call[t] \in SendCalls
    /\ ~Full \/ call[t] = "overwrite"
    /\ items' = CASE call[t] = "send"      -> Append(items, t)
                  [] call[t] = "sendfront" -> <<t>> \o items
                  [] call[t] = "overwrite" -> <<t>>
    /\ \E W \in HeadOf(xTasksWaitingToReceive, 1) :
          /\ xTasksWaitingToReceive' = xTasksWaitingToReceive \ W
          /\ RemoveFromEventList(W)
          /\ YieldIf(AnyAbove(W))
    /\ Return(t, "pass")
    /\ UNCHANGED <<cTxLock, cRxLock, xTasksWaitingToSend, uxSchedulerSuspended,
                   uxPendedTicks, yieldRequest>>

ReceivePass(t) ==
    /\ Running(t) /\ pc[t] = "check" /\ call[t] = "receive"
    /\ ~Empty
    /\ items' = Tail(items)
    /\ \E W \in HeadOf(xTasksWaitingToSend, 1) :
          /\ xTasksWaitingToSend' = xTasksWaitingToSend \ W
          /\ RemoveFromEventList(W)
          /\ YieldIf(AnyAbove(W))
    /\ Return(t, "pass")
    /\ UNCHANGED <<cTxLock, cRxLock, xTasksWaitingToReceive, uxSchedulerSuspended,
                   uxPendedTicks, yieldRequest>>

\* The item stays, so another task waiting for one is woken.
PeekPass(t) ==
    /\ Running(t) /\ pc[t] = "check" /\ call[t] = "peek"
    /\ ~Empty
    /\ \E W \in HeadOf(xTasksWaitingToReceive, 1) :
          /\ xTasksWaitingToReceive' = xTasksWaitingToReceive \ W
          /\ RemoveFromEventList(W)
          /\ YieldIf(AnyAbove(W))
    /\ Return(t, "pass")
    /\ UNCHANGED <<items, cTxLock, cRxLock, xTasksWaitingToSend, uxSchedulerSuspended,
                   uxPendedTicks, yieldRequest>>

Unavailable(t) ==
    \/ call[t] \in {"send", "sendfront"} /\ Full
    \/ call[t] \in ReceiveCalls /\ Empty

\* ... there is not: leave if there is no block time (left), or start the
\* timeout and go on to block.
CheckFails(t) ==
    /\ Running(t) /\ pc[t] = "check" /\ Unavailable(t)
    /\ IF xTicksToWait[t] = 0 /\ ~timing[t]
         THEN Return(t, "fail")
         ELSE /\ timing' = [timing EXCEPT ![t] = TRUE]
              /\ Goto(t, "suspend")
              /\ UNCHANGED <<call, xTicksToWait, outcome>>
    /\ UNCHANGED <<queueVars, schedVars>>

(* vTaskSuspendAll.                                                        *)
SuspendAll(t) ==
    /\ Running(t) /\ pc[t] = "suspend"
    /\ uxSchedulerSuspended' = uxSchedulerSuspended + 1
    /\ Goto(t, IF call[t] = "delay" THEN "place" ELSE "lock")
    /\ UNCHANGED <<queueVars, pxCurrentTCB, stateList, xPendingReadyList, xYieldPending,
                   uxPendedTicks, yieldRequest, call, timing, xTicksToWait, outcome>>

(* prvLockQueue.                                                           *)
LockQueue(t) ==
    /\ Running(t) /\ pc[t] = "lock"
    /\ cRxLock' = IF cRxLock = queueUNLOCKED THEN queueLOCKED_UNMODIFIED ELSE cRxLock
    /\ cTxLock' = IF cTxLock = queueUNLOCKED THEN queueLOCKED_UNMODIFIED ELSE cTxLock
    /\ Goto(t, "timeout")
    /\ UNCHANGED <<items, xTasksWaitingToSend, xTasksWaitingToReceive, schedVars,
                   call, timing, xTicksToWait, outcome>>

\* (wrong on purpose: the time that has passed is not looked at)
CheckForTimeOutNever(t) ==
    /\ Running(t) /\ pc[t] = "timeout"
    /\ Goto(t, "retest")
    /\ UNCHANGED <<queueVars, schedVars, call, timing, xTicksToWait, outcome>>

(* xTaskCheckForTimeOut: when the time is up, *pxTicksToWait becomes 0.    *)
CheckForTimeOut(t) ==
    /\ Running(t) /\ pc[t] = "timeout"
    /\ IF xTicksToWait[t] = 0
         THEN /\ timing' = [timing EXCEPT ![t] = FALSE]
              /\ outcome' = "giveup"
              /\ Goto(t, "unlockTx")
         ELSE /\ Goto(t, "retest")
              /\ UNCHANGED <<timing, outcome>>
    /\ UNCHANGED <<queueVars, schedVars, call, xTicksToWait>>

\* (wrong on purpose: blocks on what was seen before the queue was locked)
RetestSkipped(t) ==
    /\ Running(t) /\ pc[t] = "retest"
    /\ Goto(t, "place")
    /\ UNCHANGED <<queueVars, schedVars, call, timing, xTicksToWait, outcome>>

(* prvIsQueueFull, prvIsQueueEmpty: an interrupt may have served the call. *)
Retest(t) ==
    /\ Running(t) /\ pc[t] = "retest"
    /\ IF Unavailable(t)
         THEN Goto(t, "place") /\ UNCHANGED outcome
         ELSE Goto(t, "unlockTx") /\ outcome' = "retry"
    /\ UNCHANGED <<queueVars, schedVars, call, timing, xTicksToWait>>

(* vTaskPlaceOnEventList and prvAddCurrentTaskToDelayedList; vTaskDelay    *)
(* only does the second, and never waits for ever.                         *)
Place(t) ==
    /\ Running(t) /\ pc[t] = "place"
    /\ xTasksWaitingToSend' = xTasksWaitingToSend \union
                                (IF call[t] \in SendCalls THEN {t} ELSE {})
    /\ xTasksWaitingToReceive' = xTasksWaitingToReceive \union
                                (IF call[t] \in ReceiveCalls THEN {t} ELSE {})
    /\ stateList' = [stateList EXCEPT ![t] =
                        IF xTicksToWait[t] = portMAX_DELAY /\ call[t] # "delay"
                          THEN "suspended" ELSE "delayed"]
    /\ timing' = [timing EXCEPT ![t] = TRUE]
    /\ outcome' = "block"
    /\ Goto(t, IF call[t] = "delay" THEN "resume" ELSE "unlockTx")
    /\ UNCHANGED <<items, cTxLock, cRxLock, pxCurrentTCB, xPendingReadyList,
                   uxSchedulerSuspended, xYieldPending, uxPendedTicks, yieldRequest,
                   call, xTicksToWait>>

(* The two critical sections of prvUnlockQueue: wake a task for each item  *)
(* sent (received) while the queue was locked, as long as there is one.    *)
\* (wrong on purpose: the lock count is dropped)
UnlockTxForgets(t) ==
    /\ Running(t) /\ pc[t] = "unlockTx"
    /\ cTxLock' = queueUNLOCKED
    /\ Goto(t, "unlockRx")
    /\ UNCHANGED <<items, cRxLock, xTasksWaitingToSend, xTasksWaitingToReceive, schedVars,
                   call, timing, xTicksToWait, outcome>>

UnlockTx(t) ==
    /\ Running(t) /\ pc[t] = "unlockTx"
    /\ \E W \in HeadOf(xTasksWaitingToReceive, cTxLock) :
          /\ xTasksWaitingToReceive' = xTasksWaitingToReceive \ W
          /\ RemoveFromEventList(W)
          /\ xYieldPending' = (xYieldPending \/ AnyAbove(W))
    /\ cTxLock' = queueUNLOCKED
    /\ Goto(t, "unlockRx")
    /\ UNCHANGED <<items, cRxLock, xTasksWaitingToSend, pxCurrentTCB, uxSchedulerSuspended,
                   uxPendedTicks, yieldRequest, call, timing, xTicksToWait, outcome>>

UnlockRx(t) ==
    /\ Running(t) /\ pc[t] = "unlockRx"
    /\ \E W \in HeadOf(xTasksWaitingToSend, cRxLock) :
          /\ xTasksWaitingToSend' = xTasksWaitingToSend \ W
          /\ RemoveFromEventList(W)
          /\ xYieldPending' = (xYieldPending \/ AnyAbove(W))
    /\ cRxLock' = queueUNLOCKED
    /\ Goto(t, "resume")
    /\ UNCHANGED <<items, cTxLock, xTasksWaitingToReceive, pxCurrentTCB, uxSchedulerSuspended,
                   uxPendedTicks, yieldRequest, call, timing, xTicksToWait, outcome>>

-----------------------------------------------------------------------------
(* What n processed ticks do to the waits and to the tasks whose wait they *)
(* end: xTaskIncrementTick with the scheduler running.                     *)
TicksLeft(n) ==
    [t \in Tasks |-> IF timing[t] /\ (xTicksToWait[t] # portMAX_DELAY \/ call[t] = "delay")
                       THEN IF xTicksToWait[t] <= n THEN 0 ELSE xTicksToWait[t] - n
                       ELSE xTicksToWait[t]]

Elapsed(n, lists) == {t \in Tasks : lists[t] = "delayed" /\ TicksLeft(n)[t] = 0}

MakeReady(S, lists) == [t \in Tasks |-> IF t \in S THEN "ready" ELSE lists[t]]

\* configUSE_TIME_SLICING: the running task shares its priority.
TimeSlice(lists) ==
    Cardinality({t \in Tasks : lists[t] = "ready" /\ Prio[t] = Prio[pxCurrentTCB]}) > 1

\* (wrong on purpose: the task stays on the event list it timed out on)
ElapseTicksOnList(n, lists) ==
    /\ xTicksToWait' = TicksLeft(n)
    /\ stateList' = MakeReady(Elapsed(n, lists), lists)
    /\ UNCHANGED <<xTasksWaitingToSend, xTasksWaitingToReceive>>

ElapseTicks(n, lists) ==
    LET E == Elapsed(n, lists) IN
    /\ xTicksToWait' = TicksLeft(n)
    /\ stateList' = MakeReady(E, lists)
    /\ xTasksWaitingToSend' = xTasksWaitingToSend \ E
    /\ xTasksWaitingToReceive' = xTasksWaitingToReceive \ E

\* xTaskResumeAll must yield; E are the tasks the ticks held back make ready.
YieldDueForTicksOnly(E, lists) ==                           \* (wrong on purpose)
    uxPendedTicks > 0 /\ (AnyAtOrAbove(E) \/ TimeSlice(MakeReady(E, lists)))

YieldDue(E, lists) ==
    \/ xYieldPending
    \/ AnyAtOrAbove(xPendingReadyList)
    \/ uxPendedTicks > 0 /\ (AnyAtOrAbove(E) \/ TimeSlice(MakeReady(E, lists)))

AfterBlocking(t) == IF call[t] = "delay" THEN "return" ELSE "check"

\* Where t goes on after xTaskResumeAll.
ResumedAt(t, yielded) ==
    CASE outcome = "block" -> IF yielded THEN AfterBlocking(t) ELSE "yield"
      [] outcome = "retry" -> "check"
      [] outcome = "giveup" /\ call[t] \in ReceiveCalls -> "recheck"
      [] outcome = "giveup" /\ call[t] \in SendCalls -> "return"

(* xTaskResumeAll: pending tasks become ready, ticks held back are         *)
(* processed, and a yield that became due in the meantime is taken.        *)
ResumeAll(t) ==
    /\ Running(t) /\ pc[t] = "resume"
    /\ uxSchedulerSuspended' = uxSchedulerSuspended - 1
    /\ xPendingReadyList' = {}
    /\ LET lists == MakeReady(xPendingReadyList, stateList)
           due == YieldDue(Elapsed(uxPendedTicks, lists), lists)
       IN /\ ElapseTicks(uxPendedTicks, lists)
          /\ YieldIf(due)
          /\ Goto(t, ResumedAt(t, due))
    /\ uxPendedTicks' = 0
    /\ UNCHANGED <<items, cTxLock, cRxLock, yieldRequest, call, timing, outcome>>

(* portYIELD_WITHIN_API, when xTaskResumeAll did not yield.                *)
YieldWithinAPI(t) ==
    /\ Running(t) /\ pc[t] = "yield"
    /\ UNCHANGED stateList
    /\ SwitchContext
    /\ Goto(t, AfterBlocking(t))
    /\ UNCHANGED <<queueVars, xPendingReadyList, uxSchedulerSuspended, uxPendedTicks,
                   yieldRequest, call, timing, xTicksToWait, outcome>>

\* (wrong on purpose: fails although an item came in the meantime)
RecheckSkipped(t) ==
    /\ Running(t) /\ pc[t] = "recheck"
    /\ Return(t, "fail")
    /\ UNCHANGED <<queueVars, schedVars>>

(* After the time-out xQueueReceive and xQueuePeek look once more.         *)
Recheck(t) ==
    /\ Running(t) /\ pc[t] = "recheck"
    /\ IF Empty THEN Return(t, "fail")
                ELSE Goto(t, "check") /\ UNCHANGED <<call, timing, xTicksToWait, outcome>>
    /\ UNCHANGED <<queueVars, schedVars>>

(* xQueueGenericSend gives up without looking again; vTaskDelay is over.   *)
ReturnFromCall(t) ==
    /\ Running(t) /\ pc[t] = "return"
    /\ Return(t, IF call[t] = "delay" THEN "pass" ELSE "fail")
    /\ UNCHANGED <<queueVars, schedVars>>
-----------------------------------------------------------------------------
(* The interrupt handler: xQueueGenericSendFromISR (xQueueGiveFromISR) and *)
(* xQueueReceiveFromISR, then portYIELD_FROM_ISR.  With no room (no item)  *)
(* they change nothing.                                                    *)
IsrSend ==
    /\ "send" \in IsrCalls /\ ~Full
    /\ items' = Append(items, Isr)
    /\ IF cTxLock = queueUNLOCKED
         THEN /\ \E W \in HeadOf(xTasksWaitingToReceive, 1) :
                    /\ xTasksWaitingToReceive' = xTasksWaitingToReceive \ W
                    /\ RemoveFromEventList(W)
                    /\ xYieldPending' = (xYieldPending \/ AnyAbove(W))
                    /\ yieldRequest' = (yieldRequest \/ AnyAbove(W))
              /\ UNCHANGED cTxLock
         ELSE /\ cTxLock < MaxLock
              /\ cTxLock' = cTxLock + 1
              /\ UNCHANGED <<xTasksWaitingToReceive, stateList, xPendingReadyList,
                             xYieldPending, yieldRequest>>
    /\ UNCHANGED <<cRxLock, xTasksWaitingToSend, pxCurrentTCB, uxSchedulerSuspended,
                   uxPendedTicks, callVars>>

IsrReceive ==
    /\ "receive" \in IsrCalls /\ ~Empty
    /\ items' = Tail(items)
    /\ IF cRxLock = queueUNLOCKED
         THEN /\ \E W \in HeadOf(xTasksWaitingToSend, 1) :
                    /\ xTasksWaitingToSend' = xTasksWaitingToSend \ W
                    /\ RemoveFromEventList(W)
                    /\ xYieldPending' = (xYieldPending \/ AnyAbove(W))
                    /\ yieldRequest' = (yieldRequest \/ AnyAbove(W))
              /\ UNCHANGED cRxLock
         ELSE /\ cRxLock < MaxLock
              /\ cRxLock' = cRxLock + 1
              /\ UNCHANGED <<xTasksWaitingToSend, stateList, xPendingReadyList,
                             xYieldPending, yieldRequest>>
    /\ UNCHANGED <<cTxLock, xTasksWaitingToReceive, pxCurrentTCB, uxSchedulerSuspended,
                   uxPendedTicks, callVars>>

\* (wrong on purpose: switches although the scheduler is suspended)
KernelYieldAlways ==
    /\ yieldRequest
    /\ yieldRequest' = FALSE
    /\ UNCHANGED stateList
    /\ SwitchContext
    /\ UNCHANGED <<queueVars, xPendingReadyList, uxSchedulerSuspended, uxPendedTicks, callVars>>

(* KERNEL_YIELD, the interrupt of lowest priority.                         *)
KernelYield ==
    /\ yieldRequest
    /\ yieldRequest' = FALSE
    /\ UNCHANGED stateList
    /\ IF uxSchedulerSuspended = 0
         THEN SwitchContext
         ELSE xYieldPending' = TRUE /\ UNCHANGED pxCurrentTCB
    /\ UNCHANGED <<queueVars, xPendingReadyList, uxSchedulerSuspended, uxPendedTicks, callVars>>

(* The tick interrupt, prvSystemTickHandler and xTaskIncrementTick.        *)
Tick ==
    /\ uxSchedulerSuspended = 0
    /\ LET E == Elapsed(1, stateList) IN
       /\ ElapseTicks(1, stateList)
       /\ YieldIf(xYieldPending \/ AnyAtOrAbove(E) \/ TimeSlice(MakeReady(E, stateList)))
    /\ UNCHANGED <<items, cTxLock, cRxLock, xPendingReadyList, uxSchedulerSuspended,
                   uxPendedTicks, yieldRequest, pc, call, timing, outcome>>

TickPended ==
    /\ uxSchedulerSuspended # 0
    /\ uxPendedTicks < MaxPended
    /\ uxPendedTicks' = uxPendedTicks + 1
    /\ UNCHANGED <<queueVars, pxCurrentTCB, stateList, xPendingReadyList,
                   uxSchedulerSuspended, xYieldPending, yieldRequest, callVars>>
-----------------------------------------------------------------------------
\* What the kernel does on the way through a call that has been made.
TaskStep(t) ==
    \/ SendPass(t) \/ ReceivePass(t) \/ PeekPass(t) \/ CheckFails(t)
    \/ SuspendAll(t) \/ LockQueue(t) \/ CheckForTimeOut(t) \/ Retest(t) \/ Place(t)
    \/ UnlockTx(t) \/ UnlockRx(t) \/ ResumeAll(t)
    \/ YieldWithinAPI(t) \/ Recheck(t) \/ ReturnFromCall(t)

Next ==
    \/ \E t \in Tasks : \E c \in AllCalls, n \in Waits : Call(t, c, n)
    \/ \E t \in Tasks : TaskStep(t)
    \/ IsrSend \/ IsrReceive
    \/ KernelYield
    \/ Tick \/ TickPended

Spec == Init /\ [][Next]_vars

\* The core executes, a pending interrupt is taken, and time passes.
Fairness ==
    /\ WF_vars(\E t \in Tasks : TaskStep(t))
    /\ WF_vars(KernelYield)
    /\ WF_vars(Tick \/ TickPended)

FairSpec == Spec /\ Fairness
-----------------------------------------------------------------------------
\* Where a task that has suspended the scheduler can be.
SuspendedPCs == {"lock", "timeout", "retest", "place", "unlockTx", "unlockRx", "resume"}
TxLockedPCs == {"timeout", "retest", "place", "unlockTx"}
RxLockedPCs == TxLockedPCs \union {"unlockRx"}

\* The task that suspended the scheduler keeps the core until it resumes it,
\* and it is the only one that ever finds the queue locked: the exclusive
\* access xTaskRemoveFromEventList and vTaskPlaceOnEventList rely on.
ExclusiveAccess ==
    /\ uxSchedulerSuspended \in {0, 1}
    /\ \A t \in Tasks : pc[t] \in SuspendedPCs <=> uxSchedulerSuspended = 1 /\ t = pxCurrentTCB
    /\ cTxLock # queueUNLOCKED <=> \E t \in Tasks : pc[t] \in TxLockedPCs /\ call[t] # "delay"
    /\ cRxLock # queueUNLOCKED <=> \E t \in Tasks : pc[t] \in RxLockedPCs /\ call[t] # "delay"

\* The event lists, the pending list and the state lists agree: no task is on
\* two of them, a task on one of them is blocked in the call that put it
\* there, and a task blocked for ever is on one, so an event can wake it.
ListsConsistent ==
    /\ xTasksWaitingToSend \intersect xTasksWaitingToReceive = {}
    /\ xPendingReadyList \intersect (xTasksWaitingToSend \union xTasksWaitingToReceive) = {}
    /\ uxSchedulerSuspended = 0 => xPendingReadyList = {}
    /\ \A t \in xTasksWaitingToSend \union xTasksWaitingToReceive \union xPendingReadyList :
          stateList[t] # "ready"
    /\ \A t \in xTasksWaitingToSend : call[t] \in SendCalls
    /\ \A t \in xTasksWaitingToReceive : call[t] \in ReceiveCalls
    /\ \A t \in Tasks : stateList[t] = "suspended" =>
          t \in xTasksWaitingToSend \union xTasksWaitingToReceive \union xPendingReadyList
    /\ \A t \in Tasks : stateList[t] = "delayed" => timing[t] /\ xTicksToWait[t] > 0

\* Tasks whose call is on its way to look at the queue and that no event list
\* holds any more: woken, or not yet blocked.
Coming(calls) ==
    {t \in Tasks \ (xTasksWaitingToSend \union xTasksWaitingToReceive) :
        /\ call[t] \in calls
        /\ \/ pc[t] \in {"check", "yield"}
           \/ pc[t] \in {"unlockTx", "unlockRx", "resume"} /\ outcome = "block"}

WhileLocked(c) == IF c = queueUNLOCKED THEN 0 ELSE c

\* No wake-up is lost: while a task still waits to receive, each item is
\* spoken for by a task on its way to it, or by a wake-up the lock count
\* still owes; the same of tasks waiting to send and of free places.
NoLostWakeup ==
    /\ xTasksWaitingToReceive # {} =>
          Len(items) <= Cardinality(Coming(ReceiveCalls)) + WhileLocked(cTxLock)
    /\ xTasksWaitingToSend # {} =>
          QLen - Len(items) <= Cardinality(Coming(SendCalls)) + WhileLocked(cRxLock)

\* The kernel is preemptive: unless the scheduler is suspended or a switch is
\* about to happen, the task that runs has the highest priority of all that
\* are ready.
HighestPriorityRuns ==
    \/ pxCurrentTCB \in HighestReady(stateList)
    \/ uxSchedulerSuspended # 0
    \/ yieldRequest
    \/ pc[pxCurrentTCB] = "yield"

Abstract == INSTANCE BlockingQueue WITH
    req <- call,
    forever <- [t \in Tasks |-> /\ call[t] \in SendCalls \union ReceiveCalls
                                /\ xTicksToWait[t] = portMAX_DELAY]

\* Every call, with the critical sections, blocking, waking and time-outs it
\* is made of, behaves as one atomic operation on the queue.
IsBlockingQueue == Abstract!Spec

Top == {t \in Tasks : \A u \in Tasks \ {t} : Prio[u] < Prio[t]}

\* A call with a finite block time returns, even if nothing ever happens to
\* the queue.
TimedCallReturns ==
    \A t \in Tasks : t \in Top =>
        (call[t] \in AllCalls /\ xTicksToWait[t] # portMAX_DELAY) ~> call[t] \in {"pass", "fail"}

\* A task that waits for ever is served as soon as there is something for it.
WaiterServed ==
    \A t \in Tasks : t \in Top =>
        (call[t] = "receive" /\ ~Empty) ~> (call[t] = "pass" \/ Empty)
=============================================================================
