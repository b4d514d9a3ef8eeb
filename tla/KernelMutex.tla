---------------------------- MODULE KernelMutex ----------------------------
(***************************************************************************)
(* Mutexes and priority inheritance: xQueueSemaphoreTake and               *)
(* xQueueGenericSend on queues of type queueQUEUE_IS_MUTEX (queue.c) with  *)
(* xTaskPriorityInherit, xTaskPriorityDisinherit and                       *)
(* vTaskPriorityDisinheritAfterTimeout (tasks.c).                          *)
(*                                                                         *)
(* Unlike in KernelQueue, priorities change, so the event list of a mutex  *)
(* is a sequence sorted by the values its items had when they were         *)
(* inserted.  Interrupts do not use mutexes: what a task does with the     *)
(* scheduler suspended is one action.  Ticks come between any two actions; *)
(* a finite wait may end at any of them.                                   *)
(***************************************************************************)
EXTENDS Integers, Sequences, SequencesExt, FiniteSets

CONSTANTS
    Tasks, Idle,
    BasePriority,       \* uxBasePriority of every task
    Mutexes,
    Takes,              \* the mutexes each task takes
    MaxHeld,            \* how many mutexes a task holds at once
    NestedWaits,        \* whether a task that holds one waits for another
    Patient,            \* the tasks that wait for ever; the others may time out
    NULL

ASSUME MutexConstants ==
    /\ IsFiniteSet(Tasks) /\ Idle \in Tasks
    /\ IsFiniteSet(Mutexes)
    /\ BasePriority \in [Tasks -> Nat]
    /\ \A t \in Tasks : BasePriority[Idle] <= BasePriority[t]
    /\ Takes \in [Tasks -> SUBSET Mutexes]
    /\ Takes[Idle] = {}
    /\ MaxHeld \in Nat \ {0}
    /\ NestedWaits \in BOOLEAN
    /\ Patient \subseteq Tasks
    /\ NULL \notin Tasks \union Mutexes

VARIABLES
    pxMutexHolder,          \* of each mutex; NULL iff uxMessagesWaiting is 1
    xTasksWaitingToReceive, \* the event list of each mutex
    uxPriority,
    xItemValue,             \* the priority each task's xEventListItem stands for
    uxMutexesHeld,
    state,                  \* "ready", "blocked" on a mutex or "delayed"
    pxCurrentTCB,
    pc,                     \* where each task is in its call
    wants,                  \* the mutex it is to take
    xTicksToWait,           \* of its call: "left", "expired" or "none" (0)
    xInheritanceOccurred    \* local variable of its call

mutexVars == <<pxMutexHolder, xTasksWaitingToReceive>>
prioVars == <<uxPriority, xItemValue, uxMutexesHeld>>
callVars == <<pc, wants, xTicksToWait, xInheritanceOccurred>>
vars == <<mutexVars, prioVars, state, pxCurrentTCB, callVars>>

Priorities == {BasePriority[t] : t \in Tasks}
Held(t) == {m \in Mutexes : pxMutexHolder[m] = t}
Maximum(a, b) == IF a >= b THEN a ELSE b

Init ==
    /\ pxMutexHolder = [m \in Mutexes |-> NULL]
    /\ xTasksWaitingToReceive = [m \in Mutexes |-> << >>]
    /\ uxPriority = BasePriority
    /\ xItemValue = BasePriority
    /\ uxMutexesHeld = [t \in Tasks |-> 0]
    /\ state = [t \in Tasks |-> "ready"]
    /\ pxCurrentTCB \in {t \in Tasks : \A u \in Tasks : BasePriority[u] <= BasePriority[t]}
    /\ pc = [t \in Tasks |-> "app"]
    /\ wants = [t \in Tasks |-> NULL]
    /\ xTicksToWait = [t \in Tasks |-> "left"]
    /\ xInheritanceOccurred = [t \in Tasks |-> FALSE]
-----------------------------------------------------------------------------
(* The scheduler *)

HighestReady ==
    {t \in Tasks : /\ state[t] = "ready"
                   /\ \A u \in Tasks : state[u] = "ready" => uxPriority[u] <= uxPriority[t]}
SwitchContext == pxCurrentTCB' \in HighestReady'
SwitchIf(b) == IF b THEN SwitchContext ELSE UNCHANGED pxCurrentTCB

Running(t) == pxCurrentTCB = t

\* vListInsert into an event list: before the first item of a lower priority.
InsertWaiting(s, t) ==
    LET passed == {i \in 1 .. Len(s) : \A j \in 1 .. i : xItemValue[s[j]] >= xItemValue[t]}
    IN  InsertAt(s, Cardinality(passed) + 1, t)

\* uxListRemove.
Unlink(s, t) == RemoveAt(s, CHOOSE i \in 1 .. Len(s) : s[i] = t)

\* t goes to sleep (vTaskDelay) between two calls.
Delay(t) ==
    /\ Running(t) /\ t # Idle
    /\ pc[t] = "app"
    /\ state' = [state EXCEPT ![t] = "delayed"]
    /\ UNCHANGED <<mutexVars, prioVars, callVars>>
    /\ SwitchContext

\* A tick: the delay of a task ends, or its wait for a mutex.
\* (prvAddTaskToReadyList; a switch if it may run.)
Tick(t) ==
    /\ \/ state[t] = "delayed" /\ UNCHANGED <<xTasksWaitingToReceive, xTicksToWait>>
       \/ /\ state[t] = "blocked"
          /\ t \notin Patient
          /\ xTasksWaitingToReceive' = [xTasksWaitingToReceive EXCEPT ![wants[t]] = Unlink(@, t)]
          /\ xTicksToWait' = [xTicksToWait EXCEPT ![t] = "expired"]
    /\ state' = [state EXCEPT ![t] = "ready"]
    /\ UNCHANGED <<pxMutexHolder, prioVars, pc, wants, xInheritanceOccurred>>
    /\ SwitchIf(uxPriority[t] >= uxPriority[pxCurrentTCB])

\* A tick: tasks of the running task's priority share the processor.
TimeSlice ==
    /\ \E t \in Tasks \ {pxCurrentTCB} :
          state[t] = "ready" /\ uxPriority[t] = uxPriority[pxCurrentTCB]
    /\ UNCHANGED <<mutexVars, prioVars, state, callVars>>
    /\ SwitchContext
-----------------------------------------------------------------------------
(* Inheritance *)

\* The holder's priority becomes p; so does the value of its event list item,
\* which stays where it is if the holder waits for another mutex.
SetPriority(h, p) ==
    /\ uxPriority' = [uxPriority EXCEPT ![h] = p]
    /\ xItemValue' = [xItemValue EXCEPT ![h] = p]

\* xTaskPriorityInherit, called by t.
\* (wrong on purpose: passes over a holder that is not ready)
InheritsWhenReady(t, h) ==
    /\ IF uxPriority[h] < uxPriority[t] /\ state[h] = "ready"
         THEN SetPriority(h, uxPriority[t])
         ELSE UNCHANGED <<uxPriority, xItemValue>>
    /\ xInheritanceOccurred' = [xInheritanceOccurred EXCEPT ![t] = TRUE]
PriorityInherit(t, h) ==
    /\ IF uxPriority[h] < uxPriority[t]
         THEN SetPriority(h, uxPriority[t])
         ELSE UNCHANGED <<uxPriority, xItemValue>>
    /\ xInheritanceOccurred' =
         [xInheritanceOccurred EXCEPT ![t] = uxPriority[h] < uxPriority[t]
                                             \/ BasePriority[h] < uxPriority[t]]

\* xTaskPriorityDisinherit: t gives a mutex back.
\* (wrong on purpose: the count is tested as if it were already decremented)
DisinheritsNever(t) == uxMutexesHeld[t] = 0
Disinherits(t) == uxMutexesHeld[t] = 1 /\ uxPriority[t] # BasePriority[t]

OneHeldLess(t) == uxMutexesHeld[t] - 1

\* prvGetDisinheritPriorityAfterTimeout.
\* (wrong on purpose: the tasks still waiting are forgotten)
NobodyElseWaits(m) == BasePriority[Idle]
HighestWaiting(m) ==
    LET waiting == xTasksWaitingToReceive[m]
    IN  IF waiting # << >> THEN xItemValue[Head(waiting)] ELSE BasePriority[Idle]

\* vTaskPriorityDisinheritAfterTimeout.
DisinheritAfterTimeout(h, p) ==
    LET priorityToUse == Maximum(BasePriority[h], p)
    IN  IF uxPriority[h] # priorityToUse /\ uxMutexesHeld[h] = 1
          THEN SetPriority(h, priorityToUse)
          ELSE UNCHANGED <<uxPriority, xItemValue>>
-----------------------------------------------------------------------------
(* xQueueSemaphoreTake *)

\* t calls it for a mutex of its own choice.  A task that holds one already may
\* do so without waiting (xTicksToWait 0).
Call(t) ==
    /\ Running(t)
    /\ pc[t] = "app"
    /\ Cardinality(Held(t)) < MaxHeld
    /\ \E m \in Takes[t] \ Held(t) : wants' = [wants EXCEPT ![t] = m]
    /\ IF Held(t) = {} \/ NestedWaits
         THEN UNCHANGED xTicksToWait
         ELSE xTicksToWait' = [xTicksToWait EXCEPT ![t] = "none"]
    /\ pc' = [pc EXCEPT ![t] = "pass"]
    /\ UNCHANGED <<mutexVars, prioVars, state, pxCurrentTCB, xInheritanceOccurred>>

Return(t) ==
    /\ pc' = [pc EXCEPT ![t] = "app"]
    /\ wants' = [wants EXCEPT ![t] = NULL]
    /\ xTicksToWait' = [xTicksToWait EXCEPT ![t] = "left"]
    /\ xInheritanceOccurred' = [xInheritanceOccurred EXCEPT ![t] = FALSE]

\* The critical section every pass of the loop starts with: it is free.
Take(t) ==
    LET m == wants[t]
    IN  /\ Running(t)
        /\ pc[t] = "pass"
        /\ pxMutexHolder[m] = NULL
        /\ pxMutexHolder' = [pxMutexHolder EXCEPT ![m] = t]
        /\ uxMutexesHeld' = [uxMutexesHeld EXCEPT ![t] = @ + 1]
        /\ Return(t)
        /\ UNCHANGED <<xTasksWaitingToReceive, uxPriority, xItemValue, state, pxCurrentTCB>>

\* It is taken: return if there is no time left, else go on to wait.
FindTaken(t) ==
    /\ Running(t)
    /\ pc[t] = "pass"
    /\ pxMutexHolder[wants[t]] # NULL
    /\ IF xTicksToWait[t] # "none"
         THEN pc' = [pc EXCEPT ![t] = "wait"] /\ UNCHANGED <<wants, xTicksToWait, xInheritanceOccurred>>
         ELSE IF xInheritanceOccurred[t]
         THEN pc' = [pc EXCEPT ![t] = "asserted"] /\ UNCHANGED <<wants, xTicksToWait, xInheritanceOccurred>>
         ELSE Return(t)
    /\ UNCHANGED <<mutexVars, prioVars, state, pxCurrentTCB>>

\* With the scheduler suspended, time left and the mutex still taken: inherit,
\* go onto the event list, let another task run.
Block(t) ==
    LET m == wants[t]
    IN  /\ Running(t)
        /\ pc[t] = "wait"
        /\ xTicksToWait[t] = "left"
        /\ pxMutexHolder[m] # NULL
        /\ PriorityInherit(t, pxMutexHolder[m])
        /\ xTasksWaitingToReceive' =
              [xTasksWaitingToReceive EXCEPT ![m] = InsertWaiting(@, t)]
        /\ state' = [state EXCEPT ![t] = "blocked"]
        /\ pc' = [pc EXCEPT ![t] = "pass"]
        /\ UNCHANGED <<pxMutexHolder, uxMutexesHeld, wants, xTicksToWait>>
        /\ SwitchContext

\* ... and the mutex has been given back meanwhile: try again.
Retry(t) ==
    /\ Running(t)
    /\ pc[t] = "wait"
    /\ xTicksToWait[t] = "left"
    /\ pxMutexHolder[wants[t]] = NULL
    /\ pc' = [pc EXCEPT ![t] = "pass"]
    /\ UNCHANGED <<mutexVars, prioVars, state, pxCurrentTCB, wants, xTicksToWait, xInheritanceOccurred>>

\* The wait has run out (xTaskCheckForTimeOut).  If the mutex has become free
\* the call tries once more; else it ends, and gives the holder's priority
\* back if it raised it.
TimeOut(t) ==
    LET m == wants[t]
    IN  /\ Running(t)
        /\ pc[t] = "wait"
        /\ xTicksToWait[t] = "expired" \/ (xTicksToWait[t] = "left" /\ t \notin Patient)
        /\ IF pxMutexHolder[m] # NULL /\ ~xInheritanceOccurred[t]
             THEN Return(t)
             ELSE /\ pc' = [pc EXCEPT ![t] = IF pxMutexHolder[m] = NULL THEN "pass" ELSE "disinherit"]
                  /\ xTicksToWait' = [xTicksToWait EXCEPT ![t] = "none"]
                  /\ UNCHANGED <<wants, xInheritanceOccurred>>
        /\ UNCHANGED <<mutexVars, prioVars, state, pxCurrentTCB>>

\* The last critical section of the call; the mutex may have been given back
\* or changed hands since the section before.
Disinherit(t) ==
    LET m == wants[t]
    IN  /\ Running(t)
        /\ pc[t] = "disinherit"
        /\ IF pxMutexHolder[m] # NULL
             THEN DisinheritAfterTimeout(pxMutexHolder[m], HighestWaiting(m))
             ELSE UNCHANGED <<uxPriority, xItemValue>>
        /\ Return(t)
        /\ UNCHANGED <<mutexVars, uxMutexesHeld, state, pxCurrentTCB>>
-----------------------------------------------------------------------------
(* xQueueGenericSend on a mutex, and the next state *)

\* Whether the giver yields: for the task it woke, else for its own
\* disinheritance.
\* (wrong on purpose: not for the woken task)
GiveYieldsAfterDisinheritOnly(t, woken) == woken = {} /\ Disinherits(t)
GiveYields(t, woken) ==
    IF woken # {} THEN \E u \in woken : uxPriority'[u] > uxPriority'[t] ELSE Disinherits(t)

\* (wrong on purpose: nobody is woken)
WokenNobody(m) == {}
\* xTaskRemoveFromEventList: the head of the list.
Woken(m) ==
    IF xTasksWaitingToReceive[m] = << >> THEN {} ELSE {Head(xTasksWaitingToReceive[m])}

Give(t, m) ==
    /\ Running(t)
    /\ pc[t] = "app"
    /\ pxMutexHolder[m] = t
    /\ uxMutexesHeld' = [uxMutexesHeld EXCEPT ![t] = OneHeldLess(t)]
    /\ IF Disinherits(t)
         THEN SetPriority(t, BasePriority[t])
         ELSE UNCHANGED <<uxPriority, xItemValue>>
    /\ pxMutexHolder' = [pxMutexHolder EXCEPT ![m] = NULL]
    /\ xTasksWaitingToReceive' =
          [xTasksWaitingToReceive EXCEPT ![m] = IF Woken(m) = {} THEN @ ELSE Tail(@)]
    /\ state' = [u \in Tasks |-> IF u \in Woken(m) THEN "ready" ELSE state[u]]
    /\ UNCHANGED callVars
    /\ SwitchIf(GiveYields(t, Woken(m)))

Step(t) ==
    \/ Call(t)
    \/ Take(t)
    \/ FindTaken(t)
    \/ Block(t)
    \/ Retry(t)
    \/ TimeOut(t)
    \/ Disinherit(t)
    \/ \E m \in Mutexes : Give(t, m)
    \/ Delay(t)

\* A failed configASSERT disables the interrupts and loops.
Asserted == \E t \in Tasks : pc[t] = "asserted"

Next ==
    /\ ~Asserted
    /\ TimeSlice \/ \E t \in Tasks : Step(t) \/ Tick(t)

Spec == Init /\ [][Next]_vars

\* A task that gets the processor again and again goes on with its call (a
\* time slice is long enough for a step), ticks keep coming, and no task holds
\* mutexes for ever: again and again it gives one back, and its last one.
CallStep(t) ==
    Take(t) \/ FindTaken(t) \/ Block(t) \/ Retry(t) \/ TimeOut(t) \/ Disinherit(t)
GiveSome(t) == \E m \in Mutexes : Give(t, m)
FairSpec ==
    /\ Spec
    /\ \A t \in Tasks \ {Idle} :
         /\ SF_vars(~Asserted /\ CallStep(t))
         /\ WF_vars(~Asserted /\ Tick(t))
         /\ SF_vars(~Asserted /\ GiveSome(t))
         /\ SF_vars(~Asserted /\ uxMutexesHeld[t] = 1 /\ GiveSome(t))
-----------------------------------------------------------------------------
(* Properties *)

\* Types (checked as part of PriorityReturned).
TypeOK ==
    /\ pxMutexHolder \in [Mutexes -> Tasks \union {NULL}]
    /\ xTasksWaitingToReceive \in [Mutexes -> Seq(Tasks)]
    /\ uxPriority \in [Tasks -> Priorities]
    /\ xItemValue \in [Tasks -> Priorities]
    /\ uxMutexesHeld \in [Tasks -> 0 .. Cardinality(Mutexes)]
    /\ state \in [Tasks -> {"ready", "blocked", "delayed"}]
    /\ pxCurrentTCB \in Tasks
    /\ pc \in [Tasks -> {"app", "pass", "wait", "disinherit", "asserted"}]
    /\ wants \in [Tasks -> Mutexes \union {NULL}]
    /\ xTicksToWait \in [Tasks -> {"left", "expired", "none"}]
    /\ xInheritanceOccurred \in [Tasks -> BOOLEAN]

\* A task keeps a raised priority only while it holds a mutex, and is never
\* below its own: every way a wait ends (given, timed out, given away between
\* the last two critical sections of a call) returns what was inherited.
\* (xTaskPriorityDisinherit, vTaskPriorityDisinheritAfterTimeout.)
PriorityReturned ==
    /\ TypeOK
    /\ \A t \in Tasks : /\ uxPriority[t] >= BasePriority[t]
                        /\ Held(t) = {} => uxPriority[t] = BasePriority[t]
                        /\ uxMutexesHeld[t] = Cardinality(Held(t))

\* A mutex that is free has no waiters, or one of those it had is about to
\* take it: a give is never lost.  (xQueueGenericSend, xQueueSemaphoreTake.)
NoLostGive ==
    \A m \in Mutexes :
        pxMutexHolder[m] = NULL /\ xTasksWaitingToReceive[m] # << >> =>
            \E t \in Tasks : state[t] = "ready" /\ wants[t] = m /\ pc[t] \in {"pass", "wait"}

\* The holder of a mutex runs at least at the priority of every task that
\* waits for it; a waiter that times out takes back what it lent, "but only as
\* low as the next highest priority task that is waiting for the same mutex"
\* (queue.c:1579).  (xTaskPriorityInherit, prvGetDisinheritPriorityAfterTimeout.)
HolderInherits ==
    \A m \in Mutexes : pxMutexHolder[m] # NULL =>
        \A t \in ToSet(xTasksWaitingToReceive[m]) :
            uxPriority[pxMutexHolder[m]] >= uxPriority[t]

\* No ready task has a higher priority than the one that runs.
\* (Every yield of queue.c and tasks.c.)
HighestPriorityRuns == pxCurrentTCB \in HighestReady

\* The task of the highest priority gets every mutex it waits for, however
\* much the tasks between it and the holder have to do.
\* (xTaskPriorityInherit is there for this.)
TopTaskServed ==
    \A t \in Tasks : (\A u \in Tasks \ {t} : BasePriority[u] < BasePriority[t]) =>
        (pc[t] # "app") ~> (pc[t] = "app" \/ Asserted)
-----------------------------------------------------------------------------
(* What the source's comments say and the code does not keep.  A run shows  *)
(* the last; the others need more waits that time out, or nested ones.     *)

\* "If a context switch did not occur when the first mutex was returned, even
\* if a task was waiting on it, then a context switch should occur when the
\* last mutex is returned whether a task is waiting on it or not."
\* (tasks.c:3939)
SwitchAfterLastGive ==
    [][\A t \in Tasks : Running(t) /\ uxMutexesHeld[t] = 1 /\ uxMutexesHeld'[t] = 0
          /\ uxPriority'[t] # uxPriority[t] => pxCurrentTCB' \in HighestReady']_vars

\* "List of tasks that are blocked waiting to read from this queue.  Stored in
\* priority order." (queue.c:102)
StoredInPriorityOrder ==
    \A m \in Mutexes :
        LET s == xTasksWaitingToReceive[m]
        IN  \A i, j \in 1 .. Len(s) : i < j => uxPriority[s[i]] >= uxPriority[s[j]]

\* "For inheritance to have occurred there must have been an initial timeout,
\* and an adjusted timeout cannot become 0, as if it were 0 the function would
\* have exited."  (queue.c:1469)
InheritanceAssertion == ~Asserted
=============================================================================
