-------------------------- MODULE KernelQueueProofs --------------------------
(***************************************************************************)
(* Proofs about KernelQueue for any tasks, priorities, queue length, calls *)
(* and block times: types, exclusive access to the lists, the agreement of *)
(* lists, states and code, the scheduling, and what callers rely on.       *)
(***************************************************************************)
EXTENDS KernelQueue, TLAPS, FiniteSetTheorems

\* Where the call a task has made can be, and why the scheduler is resumed.
CallInv ==
    \A t \in Tasks :
        /\ pc[t] # "app" => call[t] \in AllCalls
        /\ pc[t] \in {"check", "lock", "timeout", "retest", "unlockTx", "unlockRx", "recheck"}
              => call[t] # "delay"
        /\ pc[t] = "resume" /\ call[t] = "delay" => outcome = "block"

IInv == TypeOK /\ ExclusiveAccess /\ CallInv

-----------------------------------------------------------------------------
(* The helpers yield values of the types the variables have.               *)

\* The tasks taken off an event list were on it.
LEMMA HeadOfSubset ==
    ASSUME NEW S, NEW n, NEW W \in HeadOf(S, n)
    PROVE  W \subseteq S
BY DEF HeadOf

\* A context switch chooses a task.
LEMMA HighestReadyTasks == ASSUME NEW lists PROVE HighestReady(lists) \subseteq Tasks
BY DEF HighestReady

\* Ticks only bring a block time down.
LEMMA TicksLeftType ==
    ASSUME ConstantsAssumption, TypeOK, NEW n \in Nat
    PROVE  TicksLeft(n) \in [Tasks -> 0 .. portMAX_DELAY]
<1> SUFFICES ASSUME NEW t \in Tasks
             PROVE  TicksLeft(n)[t] \in 0 .. portMAX_DELAY
  BY DEF TicksLeft
<1>1. xTicksToWait[t] \in 0 .. portMAX_DELAY BY DEF TypeOK
<1> QED BY <1>1 DEF TicksLeft, ConstantsAssumption

LEMMA MakeReadyType ==
    ASSUME NEW S, NEW lists \in [Tasks -> {"ready", "delayed", "suspended"}]
    PROVE  MakeReady(S, lists) \in [Tasks -> {"ready", "delayed", "suspended"}]
BY DEF MakeReady

\* Taking tasks off an event list keeps the lists lists of tasks.
LEMMA RemoveType ==
    ASSUME TypeOK, NEW W \in SUBSET Tasks, RemoveFromEventList(W)
    PROVE  /\ stateList' \in [Tasks -> {"ready", "delayed", "suspended"}]
           /\ xPendingReadyList' \subseteq Tasks
BY DEF RemoveFromEventList, TypeOK

LEMMA YieldIfType ==
    ASSUME TypeOK, NEW b, YieldIf(b)
    PROVE  pxCurrentTCB' \in Tasks /\ xYieldPending' \in BOOLEAN
BY HighestReadyTasks DEF YieldIf, SwitchContext, TypeOK

LEMMA ReturnType ==
    ASSUME ConstantsAssumption, TypeOK, NEW t \in Tasks, NEW r \in {"pass", "fail"}, Return(t, r)
    PROVE  /\ pc' \in [Tasks -> PCs]
           /\ call' \in [Tasks -> AllCalls \union {"pass", "fail"}]
           /\ timing' \in [Tasks -> BOOLEAN]
           /\ xTicksToWait' \in [Tasks -> 0 .. portMAX_DELAY]
           /\ outcome' \in {"block", "retry", "giveup"}
BY DEF TypeOK, Return, Goto, PCs, ConstantsAssumption
-----------------------------------------------------------------------------
LEMMA InitIInv == ASSUME ConstantsAssumption, Init PROVE IInv
<1>1. TypeOK
  <2>1. items \in Seq(Tasks \union {Isr}) /\ Len(items) <= QLen
    BY DEF Init, ConstantsAssumption
  <2>2. pxCurrentTCB \in Tasks BY HighestReadyTasks DEF Init
  <2>3. xTicksToWait \in [Tasks -> 0 .. portMAX_DELAY] BY DEF Init, ConstantsAssumption
  <2>4. uxPendedTicks \in 0 .. MaxPended BY DEF Init, ConstantsAssumption
  <2> QED BY <2>1, <2>2, <2>3, <2>4 DEF Init, TypeOK, queueUNLOCKED, PCs, AllCalls
<1>2. ExclusiveAccess
  BY DEF Init, ExclusiveAccess, SuspendedPCs, TxLockedPCs, RxLockedPCs, queueUNLOCKED
<1>3. CallInv BY DEF Init, CallInv
<1> QED BY <1>1, <1>2, <1>3 DEF IInv

\* While some other task holds the scheduler suspended, or none does, the
\* running task is at no step of the suspended part, and conversely.
USE DEF PCs, SuspendedPCs, TxLockedPCs, RxLockedPCs, queueUNLOCKED, AllCalls, SendCalls, ReceiveCalls

\* A step outside the suspended part leaves the queue as nobody's, whoever
\* runs next.
LEMMA OpenAccess ==
    ASSUME TypeOK, ExclusiveAccess, NEW t \in Tasks, Running(t), pc[t] \notin SuspendedPCs,
           NEW l, l \notin SuspendedPCs, Goto(t, l),
           UNCHANGED <<uxSchedulerSuspended, cTxLock, cRxLock>>
    PROVE  ExclusiveAccess'
<1>1. pxCurrentTCB = t BY DEF Running
<1>4. TxLockedPCs \subseteq SuspendedPCs /\ RxLockedPCs \subseteq SuspendedPCs OBVIOUS
<1> HIDE DEF SuspendedPCs, TxLockedPCs, RxLockedPCs, queueUNLOCKED
<1>2. uxSchedulerSuspended = 0 BY <1>1 DEF ExclusiveAccess
<1>3. \A u \in Tasks : pc[u] \notin SuspendedPCs BY <1>2 DEF ExclusiveAccess
<1>5. cTxLock = queueUNLOCKED /\ cRxLock = queueUNLOCKED BY <1>3, <1>4 DEF ExclusiveAccess
<1>6. \A u \in Tasks : pc'[u] = l \/ pc'[u] = pc[u] BY DEF Goto, TypeOK
<1>7. \A u \in Tasks : pc'[u] \notin SuspendedPCs BY <1>3, <1>6
<1> QED BY <1>2, <1>4, <1>5, <1>7 DEF ExclusiveAccess

LEMMA ReturnAccess ==
    ASSUME TypeOK, ExclusiveAccess, NEW t \in Tasks, NEW r,
           Running(t), pc[t] = "check", Return(t, r),
           UNCHANGED <<uxSchedulerSuspended, cTxLock, cRxLock>>
    PROVE  ExclusiveAccess'
<1>1. "check" \notin SuspendedPCs /\ "app" \notin SuspendedPCs OBVIOUS
<1> HIDE DEF SuspendedPCs
<1> QED BY <1>1, OpenAccess DEF Return

LEMMA CallStep ==
    ASSUME ConstantsAssumption, IInv, NEW t \in Tasks, NEW c \in AllCalls, NEW n \in Waits, Call(t, c, n)
    PROVE  IInv'
<1> USE DEF IInv, Call, Goto, Running, queueVars, schedVars
<1>1. TypeOK' BY DEF TypeOK, ConstantsAssumption
<1>2. ExclusiveAccess' BY DEF TypeOK, ExclusiveAccess
<1>3. CallInv' BY DEF TypeOK, CallInv
<1> QED BY <1>1, <1>2, <1>3

LEMMA SendPassStep ==
    ASSUME ConstantsAssumption, IInv, NEW t \in Tasks, SendPass(t) PROVE IInv'
<1> USE DEF IInv
<1> PICK W \in HeadOf(xTasksWaitingToReceive, 1) :
          /\ xTasksWaitingToReceive' = xTasksWaitingToReceive \ W
          /\ RemoveFromEventList(W)
          /\ YieldIf(AnyAbove(W))
  BY DEF SendPass
<1>w. W \in SUBSET Tasks BY HeadOfSubset DEF TypeOK
<1>i. items' \in Seq(Tasks \union {Isr}) /\ Len(items') <= QLen
  <2>1. CASE call[t] = "send" BY <2>1 DEF SendPass, TypeOK, Full, ConstantsAssumption
  <2>2. CASE call[t] = "sendfront" BY <2>2 DEF SendPass, TypeOK, Full, ConstantsAssumption
  <2>3. CASE call[t] = "overwrite" BY <2>3 DEF SendPass, TypeOK, Full, ConstantsAssumption
  <2> QED BY <2>1, <2>2, <2>3 DEF SendPass
<1>l. /\ stateList' \in [Tasks -> {"ready", "delayed", "suspended"}]
      /\ xPendingReadyList' \subseteq Tasks
  BY <1>w, RemoveType
<1>y. pxCurrentTCB' \in Tasks /\ xYieldPending' \in BOOLEAN
  BY YieldIfType
<1>r. /\ pc' \in [Tasks -> PCs]
      /\ call' \in [Tasks -> AllCalls \union {"pass", "fail"}]
      /\ timing' \in [Tasks -> BOOLEAN]
      /\ xTicksToWait' \in [Tasks -> 0 .. portMAX_DELAY]
      /\ outcome' \in {"block", "retry", "giveup"}
  BY ReturnType DEF SendPass
<1>1. TypeOK' BY <1>i, <1>l, <1>y, <1>r DEF SendPass, TypeOK
<1>2. ExclusiveAccess' BY ReturnAccess DEF SendPass
<1>3. CallInv' BY DEF SendPass, TypeOK, CallInv, Goto, Running, Return
<1> QED BY <1>1, <1>2, <1>3

LEMMA ReceivePassStep ==
    ASSUME ConstantsAssumption, IInv, NEW t \in Tasks, ReceivePass(t) PROVE IInv'
<1> USE DEF IInv
<1> PICK W \in HeadOf(xTasksWaitingToSend, 1) :
          /\ xTasksWaitingToSend' = xTasksWaitingToSend \ W
          /\ RemoveFromEventList(W)
          /\ YieldIf(AnyAbove(W))
  BY DEF ReceivePass
<1>w. W \in SUBSET Tasks BY HeadOfSubset DEF TypeOK
<1>i. items' \in Seq(Tasks \union {Isr}) /\ Len(items') <= QLen
  BY DEF ReceivePass, TypeOK, Empty, ConstantsAssumption
<1>l. /\ stateList' \in [Tasks -> {"ready", "delayed", "suspended"}]
      /\ xPendingReadyList' \subseteq Tasks
  BY <1>w, RemoveType
<1>y. pxCurrentTCB' \in Tasks /\ xYieldPending' \in BOOLEAN
  BY YieldIfType
<1>r. /\ pc' \in [Tasks -> PCs]
      /\ call' \in [Tasks -> AllCalls \union {"pass", "fail"}]
      /\ timing' \in [Tasks -> BOOLEAN]
      /\ xTicksToWait' \in [Tasks -> 0 .. portMAX_DELAY]
      /\ outcome' \in {"block", "retry", "giveup"}
  BY ReturnType DEF ReceivePass
<1>1. TypeOK' BY <1>i, <1>l, <1>y, <1>r DEF ReceivePass, TypeOK
<1>2. ExclusiveAccess' BY ReturnAccess DEF ReceivePass
<1>3. CallInv' BY DEF ReceivePass, TypeOK, CallInv, Goto, Running, Return
<1> QED BY <1>1, <1>2, <1>3

LEMMA PeekPassStep ==
    ASSUME ConstantsAssumption, IInv, NEW t \in Tasks, PeekPass(t) PROVE IInv'
<1> USE DEF IInv
<1> PICK W \in HeadOf(xTasksWaitingToReceive, 1) :
          /\ xTasksWaitingToReceive' = xTasksWaitingToReceive \ W
          /\ RemoveFromEventList(W)
          /\ YieldIf(AnyAbove(W))
  BY DEF PeekPass
<1>w. W \in SUBSET Tasks BY HeadOfSubset DEF TypeOK
<1>i. items' \in Seq(Tasks \union {Isr}) /\ Len(items') <= QLen
  BY DEF PeekPass, TypeOK, Empty, ConstantsAssumption
<1>l. /\ stateList' \in [Tasks -> {"ready", "delayed", "suspended"}]
      /\ xPendingReadyList' \subseteq Tasks
  BY <1>w, RemoveType
<1>y. pxCurrentTCB' \in Tasks /\ xYieldPending' \in BOOLEAN
  BY YieldIfType
<1>r. /\ pc' \in [Tasks -> PCs]
      /\ call' \in [Tasks -> AllCalls \union {"pass", "fail"}]
      /\ timing' \in [Tasks -> BOOLEAN]
      /\ xTicksToWait' \in [Tasks -> 0 .. portMAX_DELAY]
      /\ outcome' \in {"block", "retry", "giveup"}
  BY ReturnType DEF PeekPass
<1>1. TypeOK' BY <1>i, <1>l, <1>y, <1>r DEF PeekPass, TypeOK
<1>2. ExclusiveAccess' BY ReturnAccess DEF PeekPass
<1>3. CallInv' BY DEF PeekPass, TypeOK, CallInv, Goto, Running, Return
<1> QED BY <1>1, <1>2, <1>3

LEMMA CheckFailsStep ==
    ASSUME ConstantsAssumption, IInv, NEW t \in Tasks, CheckFails(t) PROVE IInv'
<1> USE DEF IInv
<1>1. CASE Return(t, "fail")
  <2>1. TypeOK' BY <1>1, ReturnType DEF CheckFails, TypeOK, queueVars, schedVars
  <2>2. ExclusiveAccess'
    BY <1>1 DEF CheckFails, TypeOK, ExclusiveAccess, Return, Goto, Running, queueVars, schedVars
  <2>3. CallInv' BY <1>1 DEF TypeOK, CallInv, Return, Goto
  <2> QED BY <2>1, <2>2, <2>3
<1>2. CASE /\ timing' = [timing EXCEPT ![t] = TRUE]
           /\ Goto(t, "suspend")
           /\ UNCHANGED <<call, xTicksToWait, outcome>>
  <2> USE DEF CheckFails, Goto, Running, queueVars, schedVars
  <2>1. TypeOK' BY <1>2 DEF TypeOK
  <2>2. ExclusiveAccess' BY <1>2 DEF TypeOK, ExclusiveAccess
  <2>3. CallInv' BY <1>2 DEF TypeOK, CallInv
  <2> QED BY <2>1, <2>2, <2>3
<1> QED BY <1>1, <1>2 DEF CheckFails

LEMMA SuspendAllStep ==
    ASSUME ConstantsAssumption, IInv, NEW t \in Tasks, SuspendAll(t) PROVE IInv'
<1> USE DEF IInv, SuspendAll, Goto, Running, queueVars, schedVars
<1>1. TypeOK' BY DEF TypeOK, ConstantsAssumption
<1>2. ExclusiveAccess' BY DEF TypeOK, ExclusiveAccess
<1>3. CallInv' BY DEF TypeOK, CallInv
<1> QED BY <1>1, <1>2, <1>3

LEMMA LockQueueStep ==
    ASSUME ConstantsAssumption, IInv, NEW t \in Tasks, LockQueue(t) PROVE IInv'
<1> USE DEF IInv, LockQueue, Goto, Running, schedVars, queueLOCKED_UNMODIFIED
<1>1. TypeOK' BY DEF TypeOK, ConstantsAssumption
<1>2. ExclusiveAccess'
  <2>1. cTxLock' # queueUNLOCKED /\ cRxLock' # queueUNLOCKED BY DEF TypeOK
  <2>2. pc'[t] = "timeout" /\ call'[t] # "delay" BY DEF TypeOK, CallInv
  <2>3. \A u \in Tasks : pc'[u] \in SuspendedPCs <=> uxSchedulerSuspended' = 1 /\ u = pxCurrentTCB'
    BY DEF TypeOK, ExclusiveAccess
  <2> QED BY <2>1, <2>2, <2>3 DEF ExclusiveAccess
<1>3. CallInv' BY DEF TypeOK, CallInv
<1> QED BY <1>1, <1>2, <1>3

LEMMA CheckForTimeOutStep ==
    ASSUME ConstantsAssumption, IInv, NEW t \in Tasks, CheckForTimeOut(t) PROVE IInv'
<1> USE DEF IInv, CheckForTimeOut, Goto, Running, queueVars, schedVars
<1>1. TypeOK'
  <2>1. pc' \in [Tasks -> PCs]
    <3>1. pc' = [pc EXCEPT ![t] = "unlockTx"] \/ pc' = [pc EXCEPT ![t] = "retest"] OBVIOUS
    <3>2. {"unlockTx", "retest"} \subseteq PCs /\ pc \in [Tasks -> PCs] BY DEF TypeOK
    <3> HIDE DEF IInv, CheckForTimeOut, PCs
    <3> QED BY <3>1, <3>2
  <2>2. timing' \in [Tasks -> BOOLEAN] /\ outcome' \in {"block", "retry", "giveup"} BY DEF TypeOK
  <2>3. UNCHANGED <<queueVars, schedVars, call, xTicksToWait>> OBVIOUS
  <2> HIDE DEF CheckForTimeOut
  <2> QED BY <2>1, <2>2, <2>3 DEF TypeOK
<1>2. ExclusiveAccess' BY DEF TypeOK, ExclusiveAccess
<1>3. CallInv'
  <2>1. \A u \in Tasks : pc[u] = "resume" => u = t
    BY DEF TypeOK, ExclusiveAccess
  <2>2. \A u \in Tasks : u # t => pc'[u] = pc[u]
    BY DEF TypeOK
  <2>3. pc'[t] \in {"unlockTx", "retest"} /\ pc[t] = "timeout" BY DEF TypeOK
  <2>4. call' = call /\ CallInv OBVIOUS
  <2> HIDE DEF IInv, CheckForTimeOut
  <2>5. \A u \in Tasks : pc'[u] # "resume" BY <2>1, <2>2, <2>3
  <2>6. call'[t] \in AllCalls /\ call'[t] # "delay" BY <2>3, <2>4 DEF CallInv
  <2>7. ASSUME NEW u \in Tasks, u # t
        PROVE  /\ pc'[u] # "app" => call'[u] \in AllCalls
               /\ pc'[u] \in {"check", "lock", "timeout", "retest", "unlockTx", "unlockRx", "recheck"}
                     => call'[u] # "delay"
    BY <2>2, <2>4, <2>7 DEF CallInv
  <2> QED BY <2>5, <2>6, <2>7 DEF CallInv
<1> QED BY <1>1, <1>2, <1>3

LEMMA RetestStep ==
    ASSUME ConstantsAssumption, IInv, NEW t \in Tasks, Retest(t) PROVE IInv'
<1> USE DEF IInv, Retest, Goto, Running, queueVars, schedVars
<1>1. TypeOK' BY DEF TypeOK, ConstantsAssumption
<1>2. ExclusiveAccess' BY DEF TypeOK, ExclusiveAccess
<1>3. CallInv' BY DEF TypeOK, ExclusiveAccess, CallInv
<1> QED BY <1>1, <1>2, <1>3

LEMMA PlaceStep ==
    ASSUME ConstantsAssumption, IInv, NEW t \in Tasks, Place(t) PROVE IInv'
<1> USE DEF IInv, Place, Goto, Running, queueVars, schedVars
<1>1. TypeOK' BY DEF TypeOK, ConstantsAssumption
<1>2. ExclusiveAccess' BY DEF TypeOK, ExclusiveAccess
<1>3. CallInv' BY DEF TypeOK, ExclusiveAccess, CallInv
<1> QED BY <1>1, <1>2, <1>3

LEMMA UnlockTxStep ==
    ASSUME ConstantsAssumption, IInv, NEW t \in Tasks, UnlockTx(t) PROVE IInv'
<1> USE DEF IInv
<1> PICK W \in HeadOf(xTasksWaitingToReceive, cTxLock) :
          /\ xTasksWaitingToReceive' = xTasksWaitingToReceive \ W
          /\ RemoveFromEventList(W)
          /\ xYieldPending' = (xYieldPending \/ AnyAbove(W))
  BY DEF UnlockTx
<1>w. W \in SUBSET Tasks BY HeadOfSubset DEF TypeOK
<1>l. /\ stateList' \in [Tasks -> {"ready", "delayed", "suspended"}]
      /\ xPendingReadyList' \subseteq Tasks
  BY <1>w, RemoveType
<1>y. xYieldPending' \in BOOLEAN BY DEF TypeOK, AnyAbove
<1>1. TypeOK' BY <1>l, <1>y DEF UnlockTx, TypeOK, Goto
<1>2. ExclusiveAccess' BY DEF UnlockTx, TypeOK, ExclusiveAccess, Goto, Running
<1>3. CallInv' BY DEF UnlockTx, TypeOK, CallInv, Goto, Running
<1> QED BY <1>1, <1>2, <1>3

LEMMA UnlockRxStep ==
    ASSUME ConstantsAssumption, IInv, NEW t \in Tasks, UnlockRx(t) PROVE IInv'
<1> USE DEF IInv
<1> PICK W \in HeadOf(xTasksWaitingToSend, cRxLock) :
          /\ xTasksWaitingToSend' = xTasksWaitingToSend \ W
          /\ RemoveFromEventList(W)
          /\ xYieldPending' = (xYieldPending \/ AnyAbove(W))
  BY DEF UnlockRx
<1>w. W \in SUBSET Tasks BY HeadOfSubset DEF TypeOK
<1>l. /\ stateList' \in [Tasks -> {"ready", "delayed", "suspended"}]
      /\ xPendingReadyList' \subseteq Tasks
  BY <1>w, RemoveType
<1>y. xYieldPending' \in BOOLEAN BY DEF TypeOK, AnyAbove
<1>1. TypeOK' BY <1>l, <1>y DEF UnlockRx, TypeOK, Goto
<1>2. ExclusiveAccess' BY DEF UnlockRx, TypeOK, ExclusiveAccess, Goto, Running
<1>3. CallInv' BY DEF UnlockRx, TypeOK, CallInv, Goto, Running
<1> QED BY <1>1, <1>2, <1>3

-----------------------------------------------------------------------------
\* Ticks keep the types of what they change.
LEMMA ElapseTicksType ==
    ASSUME ConstantsAssumption, TypeOK, NEW n \in Nat,
           NEW lists \in [Tasks -> {"ready", "delayed", "suspended"}],
           ElapseTicks(n, lists)
    PROVE  /\ xTicksToWait' \in [Tasks -> 0 .. portMAX_DELAY]
           /\ stateList' \in [Tasks -> {"ready", "delayed", "suspended"}]
           /\ xTasksWaitingToSend' \subseteq Tasks
           /\ xTasksWaitingToReceive' \subseteq Tasks
<1>1. xTicksToWait' \in [Tasks -> 0 .. portMAX_DELAY]
  BY TicksLeftType DEF ElapseTicks
<1>2. stateList' \in [Tasks -> {"ready", "delayed", "suspended"}]
  BY MakeReadyType DEF ElapseTicks
<1>3. xTasksWaitingToSend' \subseteq Tasks /\ xTasksWaitingToReceive' \subseteq Tasks
  BY DEF ElapseTicks, TypeOK
<1> QED BY <1>1, <1>2, <1>3

LEMMA ResumeAllStep ==
    ASSUME ConstantsAssumption, IInv, NEW t \in Tasks, ResumeAll(t) PROVE IInv'
<1> USE DEF IInv
<1> DEFINE lists == MakeReady(xPendingReadyList, stateList)
           due == YieldDue(Elapsed(uxPendedTicks, lists), lists)
<1>l. lists \in [Tasks -> {"ready", "delayed", "suspended"}]
  BY MakeReadyType DEF TypeOK
<1>e. ElapseTicks(uxPendedTicks, lists) /\ YieldIf(due) /\ Goto(t, ResumedAt(t, due))
  BY DEF ResumeAll
<1>n. uxPendedTicks \in Nat BY DEF TypeOK
<1> HIDE DEF lists, due
<1>t. /\ xTicksToWait' \in [Tasks -> 0 .. portMAX_DELAY]
      /\ stateList' \in [Tasks -> {"ready", "delayed", "suspended"}]
      /\ xTasksWaitingToSend' \subseteq Tasks
      /\ xTasksWaitingToReceive' \subseteq Tasks
  BY <1>l, <1>e, <1>n, ElapseTicksType
<1>y. pxCurrentTCB' \in Tasks /\ xYieldPending' \in BOOLEAN
  BY <1>e, YieldIfType
<1>s. uxSchedulerSuspended = 1 /\ uxSchedulerSuspended' = 0 /\ t = pxCurrentTCB
  BY DEF ResumeAll, ExclusiveAccess, TypeOK, Running
<1>c. ResumedAt(t, due) \in {"return", "check", "yield", "recheck"}
  <2>1. CASE outcome = "block" BY <2>1 DEF ResumedAt, AfterBlocking
  <2>2. CASE outcome = "retry" BY <2>2 DEF ResumedAt
  <2>3. CASE outcome = "giveup"
    <3>1. call[t] \in SendCalls \union ReceiveCalls BY <2>3 DEF ResumeAll, CallInv, TypeOK
    <3>2. CASE call[t] \in ReceiveCalls BY <2>3, <3>2 DEF ResumedAt
    <3>3. CASE call[t] \in SendCalls /\ call[t] \notin ReceiveCalls BY <2>3, <3>3 DEF ResumedAt
    <3> QED BY <3>1, <3>2, <3>3
  <2> QED BY <2>1, <2>2, <2>3 DEF TypeOK
<1>d. call[t] = "delay" => ResumedAt(t, due) \in {"return", "yield"}
  BY DEF ResumedAt, AfterBlocking, ResumeAll, CallInv
<1>p. pc' = [pc EXCEPT ![t] = ResumedAt(t, due)] BY <1>e DEF Goto
<1>1. TypeOK'
  BY <1>t, <1>y, <1>s, <1>c, <1>p DEF ResumeAll, TypeOK, ConstantsAssumption
<1>2. ExclusiveAccess'
  <2>1. \A u \in Tasks : pc'[u] \notin SuspendedPCs
    BY <1>c, <1>p, <1>s DEF TypeOK, ExclusiveAccess
  <2>2. cTxLock = queueUNLOCKED /\ cRxLock = queueUNLOCKED
    BY <1>s DEF ExclusiveAccess, ResumeAll, TypeOK
  <2>3. cTxLock' = cTxLock /\ cRxLock' = cRxLock BY DEF ResumeAll
  <2> QED BY <2>1, <2>2, <2>3, <1>s DEF ExclusiveAccess
<1>3. CallInv'
  <2>1. call' = call /\ outcome' = outcome BY DEF ResumeAll
  <2>2. \A u \in Tasks : pc'[u] = IF u = t THEN ResumedAt(t, due) ELSE pc[u]
    BY <1>p DEF TypeOK
  <2>3. call[t] \in AllCalls BY DEF ResumeAll, CallInv
  <2> QED BY <2>1, <2>2, <2>3, <1>c, <1>d DEF CallInv
<1> QED BY <1>1, <1>2, <1>3

LEMMA YieldWithinAPIStep ==
    ASSUME ConstantsAssumption, IInv, NEW t \in Tasks, YieldWithinAPI(t) PROVE IInv'
<1> USE DEF IInv
<1>c. AfterBlocking(t) \in {"return", "check"} /\ (call[t] = "delay" => AfterBlocking(t) = "return")
  BY DEF AfterBlocking
<1>y. pxCurrentTCB' \in Tasks /\ xYieldPending' = FALSE
  BY HighestReadyTasks DEF YieldWithinAPI, SwitchContext
<1>1. TypeOK' BY <1>c, <1>y DEF YieldWithinAPI, TypeOK, Goto, queueVars
<1>2. ExclusiveAccess'
  <2>1. "yield" \notin SuspendedPCs /\ AfterBlocking(t) \notin SuspendedPCs BY <1>c
  <2>2. /\ Running(t) /\ pc[t] = "yield" /\ Goto(t, AfterBlocking(t))
        /\ UNCHANGED <<uxSchedulerSuspended, cTxLock, cRxLock>>
    BY DEF YieldWithinAPI, queueVars
  <2> HIDE DEF SuspendedPCs
  <2> QED BY <2>1, <2>2, OpenAccess
<1>3. CallInv' BY <1>c DEF YieldWithinAPI, TypeOK, CallInv, Goto
<1> QED BY <1>1, <1>2, <1>3

LEMMA RecheckStep ==
    ASSUME ConstantsAssumption, IInv, NEW t \in Tasks, Recheck(t) PROVE IInv'
<1> USE DEF IInv
<1>1. CASE Return(t, "fail")
  <2>1. TypeOK' BY <1>1, ReturnType DEF Recheck, TypeOK, queueVars, schedVars
  <2>2. ExclusiveAccess'
    BY <1>1 DEF Recheck, TypeOK, ExclusiveAccess, Return, Goto, Running, queueVars, schedVars
  <2>3. CallInv' BY <1>1 DEF TypeOK, CallInv, Return, Goto
  <2> QED BY <2>1, <2>2, <2>3
<1>2. CASE Goto(t, "check") /\ UNCHANGED <<call, timing, xTicksToWait, outcome>>
  <2> USE DEF Recheck, Goto, Running, queueVars, schedVars
  <2>1. TypeOK' BY <1>2 DEF TypeOK
  <2>2. ExclusiveAccess' BY <1>2 DEF TypeOK, ExclusiveAccess
  <2>3. CallInv' BY <1>2 DEF TypeOK, CallInv
  <2> QED BY <2>1, <2>2, <2>3
<1> QED BY <1>1, <1>2 DEF Recheck

LEMMA ReturnFromCallStep ==
    ASSUME ConstantsAssumption, IInv, NEW t \in Tasks, ReturnFromCall(t) PROVE IInv'
<1> USE DEF IInv
<1> PICK r \in {"pass", "fail"} : Return(t, r) BY DEF ReturnFromCall
<1>1. TypeOK' BY ReturnType DEF ReturnFromCall, TypeOK, queueVars, schedVars
<1>2. ExclusiveAccess'
  BY DEF ReturnFromCall, TypeOK, ExclusiveAccess, Return, Goto, Running, queueVars, schedVars
<1>3. CallInv' BY DEF TypeOK, CallInv, Return, Goto
<1> QED BY <1>1, <1>2, <1>3
-----------------------------------------------------------------------------
LEMMA IsrSendStep == ASSUME ConstantsAssumption, IInv, IsrSend PROVE IInv'
<1> USE DEF IInv
<1>i. items' \in Seq(Tasks \union {Isr}) /\ Len(items') <= QLen
  BY DEF IsrSend, TypeOK, Full, ConstantsAssumption
<1>1. CASE cTxLock = queueUNLOCKED
  <2> PICK W \in HeadOf(xTasksWaitingToReceive, 1) :
            /\ xTasksWaitingToReceive' = xTasksWaitingToReceive \ W
            /\ RemoveFromEventList(W)
            /\ xYieldPending' = (xYieldPending \/ AnyAbove(W))
            /\ yieldRequest' = (yieldRequest \/ AnyAbove(W))
    BY <1>1 DEF IsrSend
  <2>w. W \in SUBSET Tasks BY HeadOfSubset DEF TypeOK
  <2>l. /\ stateList' \in [Tasks -> {"ready", "delayed", "suspended"}]
        /\ xPendingReadyList' \subseteq Tasks
    BY <2>w, RemoveType
  <2>y. xYieldPending' \in BOOLEAN /\ yieldRequest' \in BOOLEAN BY DEF TypeOK, AnyAbove
  <2>1. TypeOK' BY <1>1, <1>i, <2>l, <2>y DEF IsrSend, TypeOK, callVars
  <2>2. ExclusiveAccess' BY <1>1 DEF IsrSend, TypeOK, ExclusiveAccess, callVars
  <2>3. CallInv' BY DEF IsrSend, CallInv, callVars
  <2> QED BY <2>1, <2>2, <2>3
<1>2. CASE cTxLock # queueUNLOCKED
  <2>1. TypeOK' BY <1>2, <1>i DEF IsrSend, TypeOK, callVars
  <2>2. ExclusiveAccess' BY <1>2 DEF IsrSend, TypeOK, ExclusiveAccess, callVars
  <2>3. CallInv' BY DEF IsrSend, CallInv, callVars
  <2> QED BY <2>1, <2>2, <2>3
<1> QED BY <1>1, <1>2

LEMMA IsrReceiveStep == ASSUME ConstantsAssumption, IInv, IsrReceive PROVE IInv'
<1> USE DEF IInv
<1>i. items' \in Seq(Tasks \union {Isr}) /\ Len(items') <= QLen
  BY DEF IsrReceive, TypeOK, Empty, ConstantsAssumption
<1>1. CASE cRxLock = queueUNLOCKED
  <2> PICK W \in HeadOf(xTasksWaitingToSend, 1) :
            /\ xTasksWaitingToSend' = xTasksWaitingToSend \ W
            /\ RemoveFromEventList(W)
            /\ xYieldPending' = (xYieldPending \/ AnyAbove(W))
            /\ yieldRequest' = (yieldRequest \/ AnyAbove(W))
    BY <1>1 DEF IsrReceive
  <2>w. W \in SUBSET Tasks BY HeadOfSubset DEF TypeOK
  <2>l. /\ stateList' \in [Tasks -> {"ready", "delayed", "suspended"}]
        /\ xPendingReadyList' \subseteq Tasks
    BY <2>w, RemoveType
  <2>y. xYieldPending' \in BOOLEAN /\ yieldRequest' \in BOOLEAN BY DEF TypeOK, AnyAbove
  <2>1. TypeOK' BY <1>1, <1>i, <2>l, <2>y DEF IsrReceive, TypeOK, callVars
  <2>2. ExclusiveAccess' BY <1>1 DEF IsrReceive, TypeOK, ExclusiveAccess, callVars
  <2>3. CallInv' BY DEF IsrReceive, CallInv, callVars
  <2> QED BY <2>1, <2>2, <2>3
<1>2. CASE cRxLock # queueUNLOCKED
  <2>1. TypeOK' BY <1>2, <1>i DEF IsrReceive, TypeOK, callVars
  <2>2. ExclusiveAccess' BY <1>2 DEF IsrReceive, TypeOK, ExclusiveAccess, callVars
  <2>3. CallInv' BY DEF IsrReceive, CallInv, callVars
  <2> QED BY <2>1, <2>2, <2>3
<1> QED BY <1>1, <1>2

\* A switch happens only when the scheduler is not suspended, so it takes the
\* core from no task that holds it suspended.
LEMMA KernelYieldStep == ASSUME ConstantsAssumption, IInv, KernelYield PROVE IInv'
<1> USE DEF IInv
<1>y. /\ pxCurrentTCB' \in Tasks
      /\ xYieldPending' \in BOOLEAN
      /\ uxSchedulerSuspended = 0 \/ pxCurrentTCB' = pxCurrentTCB
  BY HighestReadyTasks DEF KernelYield, SwitchContext, TypeOK
<1>1. TypeOK' BY <1>y DEF KernelYield, TypeOK, queueVars, callVars
<1>2. ExclusiveAccess' BY <1>y DEF KernelYield, TypeOK, ExclusiveAccess, queueVars, callVars
<1>3. CallInv' BY DEF KernelYield, CallInv, callVars
<1> QED BY <1>1, <1>2, <1>3

LEMMA TickStep == ASSUME ConstantsAssumption, IInv, Tick PROVE IInv'
<1> USE DEF IInv
<1>e. ElapseTicks(1, stateList) /\ \E b \in BOOLEAN : YieldIf(b)
  BY DEF Tick, AnyAtOrAbove, TimeSlice, TypeOK
<1>l. stateList \in [Tasks -> {"ready", "delayed", "suspended"}] BY DEF TypeOK
<1>t. /\ xTicksToWait' \in [Tasks -> 0 .. portMAX_DELAY]
      /\ stateList' \in [Tasks -> {"ready", "delayed", "suspended"}]
      /\ xTasksWaitingToSend' \subseteq Tasks
      /\ xTasksWaitingToReceive' \subseteq Tasks
  BY <1>l, <1>e, ElapseTicksType
<1>y. pxCurrentTCB' \in Tasks /\ xYieldPending' \in BOOLEAN
  BY <1>e, YieldIfType
<1>1. TypeOK' BY <1>t, <1>y DEF Tick, TypeOK
<1>2. ExclusiveAccess' BY <1>y DEF Tick, TypeOK, ExclusiveAccess
<1>3. CallInv' BY DEF Tick, CallInv
<1> QED BY <1>1, <1>2, <1>3

LEMMA TickPendedStep == ASSUME ConstantsAssumption, IInv, TickPended PROVE IInv'
<1> USE DEF IInv, TickPended, queueVars, callVars
<1>1. TypeOK' BY DEF TypeOK, ConstantsAssumption
<1>2. ExclusiveAccess' BY DEF TypeOK, ExclusiveAccess
<1>3. CallInv' BY DEF CallInv
<1> QED BY <1>1, <1>2, <1>3
-----------------------------------------------------------------------------
LEMMA StutterStep == ASSUME IInv, UNCHANGED vars PROVE IInv'
BY DEF IInv, TypeOK, ExclusiveAccess, CallInv, vars, queueVars, schedVars, callVars

LEMMA NextIInv == ASSUME ConstantsAssumption, IInv, [Next]_vars PROVE IInv'
<1>1. ASSUME NEW t \in Tasks, TaskStep(t) PROVE IInv'
  BY <1>1, SendPassStep, ReceivePassStep, PeekPassStep, CheckFailsStep, SuspendAllStep,
     LockQueueStep, CheckForTimeOutStep, RetestStep, PlaceStep, UnlockTxStep, UnlockRxStep,
     ResumeAllStep, YieldWithinAPIStep, RecheckStep, ReturnFromCallStep
  DEF TaskStep
<1> QED
  BY <1>1, CallStep, IsrSendStep, IsrReceiveStep, KernelYieldStep, TickStep, TickPendedStep,
     StutterStep
  DEF Next

\* Every variable keeps its type: in particular the queue never holds more
\* than uxLength items and a lock count never drops below queueUNLOCKED.
THEOREM TypeCorrect == ASSUME ConstantsAssumption PROVE Spec => []TypeOK
<1>1. Init => IInv BY InitIInv
<1>2. IInv /\ [Next]_vars => IInv' BY NextIInv
<1>3. IInv => TypeOK BY DEF IInv
<1> QED BY <1>1, <1>2, <1>3, PTL DEF Spec

\* The task that suspended the scheduler keeps the core until it resumes it,
\* and no other task, whatever the interrupts do, sees the queue locked or
\* touches its event lists meanwhile.
THEOREM Exclusion == ASSUME ConstantsAssumption PROVE Spec => []ExclusiveAccess
<1>1. Init => IInv BY InitIInv
<1>2. IInv /\ [Next]_vars => IInv' BY NextIInv
<1>3. IInv => ExclusiveAccess BY DEF IInv
<1> QED BY <1>1, <1>2, <1>3, PTL DEF Spec

-----------------------------------------------------------------------------
(* The lists, the scheduling and the clock *)

\* t is on its way from the event list it is on, or was on, to the switch.
Blocking(t) == pc[t] \in {"unlockTx", "unlockRx", "resume"} /\ outcome = "block"

\* The running task is ready, but for the end of the call that blocks it.
CurrentInv ==
    stateList[pxCurrentTCB] # "ready" => pc[pxCurrentTCB] = "yield" \/ Blocking(pxCurrentTCB)

\* When a wait is being timed, and when there is some of it left.
TimeInv ==
    \A t \in Tasks :
        /\ pc[t] = "app" => ~timing[t] /\ call[t] \in {"pass", "fail"}
        /\ pc[t] \in {"suspend", "place"} /\ call[t] = "delay" => ~timing[t] /\ xTicksToWait[t] > 0
        /\ pc[t] \in {"retest", "place"} => xTicksToWait[t] > 0

\* While the scheduler is suspended, only pending tasks can outrank the one
\* that runs.
PrioInv ==
    uxSchedulerSuspended # 0 =>
        \A u \in Tasks : stateList[u] = "ready" => Prio[u] <= Prio[pxCurrentTCB]

SchedInv == ListsConsistent /\ CurrentInv /\ TimeInv

-----------------------------------------------------------------------------
LEMMA InitSchedInv == ASSUME ConstantsAssumption, Init PROVE SchedInv /\ PrioInv /\ HighestPriorityRuns
BY DEF Init, SchedInv, ListsConsistent, CurrentInv, TimeInv, PrioInv, HighestPriorityRuns, HighestReady

\* A step that moves no task between lists, and changes no call or wait of a
\* task that is not ready.
LEMMA KeepLists ==
    ASSUME TypeOK, ListsConsistent,
           UNCHANGED <<stateList, xTasksWaitingToSend, xTasksWaitingToReceive, xPendingReadyList>>,
           uxSchedulerSuspended' = 0 => uxSchedulerSuspended = 0,
           \A u \in Tasks : stateList[u] # "ready" =>
               call'[u] = call[u] /\ timing'[u] = timing[u] /\ xTicksToWait'[u] = xTicksToWait[u]
    PROVE  ListsConsistent'
<1> USE DEF TypeOK
<1>1. /\ xTasksWaitingToSend' \intersect xTasksWaitingToReceive' = {}
      /\ xPendingReadyList' \intersect (xTasksWaitingToSend' \union xTasksWaitingToReceive') = {}
      /\ uxSchedulerSuspended' = 0 => xPendingReadyList' = {}
      /\ \A u \in xTasksWaitingToSend' \union xTasksWaitingToReceive' \union xPendingReadyList' :
            stateList'[u] # "ready"
  BY DEF ListsConsistent
<1>2. \A u \in xTasksWaitingToSend' : call'[u] \in SendCalls BY DEF ListsConsistent
<1>3. \A u \in xTasksWaitingToReceive' : call'[u] \in ReceiveCalls BY DEF ListsConsistent
<1>4. \A u \in Tasks : stateList'[u] = "suspended" =>
        u \in xTasksWaitingToSend' \union xTasksWaitingToReceive' \union xPendingReadyList'
  BY DEF ListsConsistent
<1>5. \A u \in Tasks : stateList'[u] = "delayed" => timing'[u] /\ xTicksToWait'[u] > 0
  BY DEF ListsConsistent
<1> QED BY <1>1, <1>2, <1>3, <1>4, <1>5 DEF ListsConsistent

\* Taking tasks off the event lists.
LEMMA WakeLists ==
    ASSUME TypeOK, ListsConsistent,
           NEW A \in SUBSET xTasksWaitingToSend, NEW B \in SUBSET xTasksWaitingToReceive,
           xTasksWaitingToSend' = xTasksWaitingToSend \ A,
           xTasksWaitingToReceive' = xTasksWaitingToReceive \ B,
           RemoveFromEventList(A \union B),
           UNCHANGED uxSchedulerSuspended,
           \A u \in Tasks : stateList[u] # "ready" =>
               call'[u] = call[u] /\ timing'[u] = timing[u] /\ xTicksToWait'[u] = xTicksToWait[u]
    PROVE  ListsConsistent'
<1>1. /\ xTasksWaitingToSend' \intersect xTasksWaitingToReceive' = {}
      /\ \A u \in xTasksWaitingToSend' \union xTasksWaitingToReceive' :
            u \notin A \union B /\ stateList[u] # "ready" /\ u \in Tasks
  BY DEF TypeOK, ListsConsistent
<1>2. /\ \A u \in xTasksWaitingToSend' : call'[u] \in SendCalls
      /\ \A u \in xTasksWaitingToReceive' : call'[u] \in ReceiveCalls
  BY <1>1 DEF ListsConsistent
<1>3. \A u \in Tasks : stateList'[u] \in {stateList[u], "ready"} BY DEF TypeOK, RemoveFromEventList
<1>4. \A u \in Tasks : stateList'[u] = "delayed" => timing'[u] /\ xTicksToWait'[u] > 0
  BY <1>3 DEF ListsConsistent
<1>5. CASE uxSchedulerSuspended = 0
  <2>1. xPendingReadyList' = {} BY <1>5 DEF RemoveFromEventList, ListsConsistent
  <2>2. \A u \in Tasks : stateList'[u] = IF u \in A \union B THEN "ready" ELSE stateList[u]
    BY <1>5 DEF RemoveFromEventList
  <2>3. \A u \in Tasks : stateList'[u] = "suspended" =>
          u \in xTasksWaitingToSend' \union xTasksWaitingToReceive'
    BY <1>5, <2>2 DEF ListsConsistent
  <2>4. \A u \in xTasksWaitingToSend' \union xTasksWaitingToReceive' : stateList'[u] # "ready"
    BY <1>1, <2>2
  <2> QED BY <1>1, <1>2, <1>4, <2>1, <2>3, <2>4 DEF ListsConsistent
<1>6. CASE uxSchedulerSuspended # 0
  <2>1. xPendingReadyList' = xPendingReadyList \union A \union B /\ stateList' = stateList
    BY <1>6 DEF RemoveFromEventList
  <2>2. xPendingReadyList' \intersect (xTasksWaitingToSend' \union xTasksWaitingToReceive') = {}
    BY <1>1, <2>1 DEF ListsConsistent
  <2>3. \A u \in Tasks : stateList'[u] = "suspended" =>
          u \in xTasksWaitingToSend' \union xTasksWaitingToReceive' \union xPendingReadyList'
    BY <2>1 DEF ListsConsistent
  <2>4. \A u \in xPendingReadyList' : stateList'[u] # "ready" BY <2>1 DEF ListsConsistent
  <2> QED BY <1>1, <1>2, <1>4, <1>6, <2>1, <2>2, <2>3, <2>4 DEF ListsConsistent
<1> QED BY <1>5, <1>6

LEMMA WakeReceiverLists ==
    ASSUME TypeOK, ListsConsistent, NEW W \in SUBSET xTasksWaitingToReceive,
           xTasksWaitingToReceive' = xTasksWaitingToReceive \ W,
           RemoveFromEventList(W),
           UNCHANGED <<xTasksWaitingToSend, uxSchedulerSuspended>>,
           \A u \in Tasks : stateList[u] # "ready" =>
               call'[u] = call[u] /\ timing'[u] = timing[u] /\ xTicksToWait'[u] = xTicksToWait[u]
    PROVE  ListsConsistent'
<1>1. {} \union W = W /\ xTasksWaitingToSend \ {} = xTasksWaitingToSend OBVIOUS
<1>2. RemoveFromEventList({} \union W) BY <1>1
<1>3. xTasksWaitingToSend' = xTasksWaitingToSend \ {} BY <1>1
<1> QED BY <1>2, <1>3, WakeLists

LEMMA WakeSenderLists ==
    ASSUME TypeOK, ListsConsistent, NEW W \in SUBSET xTasksWaitingToSend,
           xTasksWaitingToSend' = xTasksWaitingToSend \ W,
           RemoveFromEventList(W),
           UNCHANGED <<xTasksWaitingToReceive, uxSchedulerSuspended>>,
           \A u \in Tasks : stateList[u] # "ready" =>
               call'[u] = call[u] /\ timing'[u] = timing[u] /\ xTicksToWait'[u] = xTicksToWait[u]
    PROVE  ListsConsistent'
<1>1. W \union {} = W /\ xTasksWaitingToReceive \ {} = xTasksWaitingToReceive OBVIOUS
<1>2. RemoveFromEventList(W \union {}) BY <1>1
<1>3. xTasksWaitingToReceive' = xTasksWaitingToReceive \ {} BY <1>1
<1> QED BY <1>2, <1>3, WakeLists

\* The tasks whose wait the ticks end leave the lists.
LEMMA ElapseLists ==
    ASSUME ConstantsAssumption, TypeOK, ListsConsistent, NEW n \in Nat,
           NEW lists, lists = MakeReady(xPendingReadyList, stateList),
           ElapseTicks(n, lists),
           xPendingReadyList' = {},
           UNCHANGED <<call, timing>>
    PROVE  ListsConsistent'
<1> DEFINE E == Elapsed(n, lists)
<1>s. \A u \in Tasks :
        stateList'[u] = IF u \in E \/ u \in xPendingReadyList THEN "ready" ELSE stateList[u]
  BY DEF ElapseTicks, MakeReady
<1>w. /\ xTasksWaitingToSend' = xTasksWaitingToSend \ E
      /\ xTasksWaitingToReceive' = xTasksWaitingToReceive \ E
  BY DEF ElapseTicks
<1>e. \A u \in Tasks : u \in E <=>
        stateList[u] = "delayed" /\ u \notin xPendingReadyList /\ TicksLeft(n)[u] = 0
  BY DEF Elapsed, MakeReady
<1>t. xTicksToWait' = TicksLeft(n) BY DEF ElapseTicks
<1>l. TicksLeft(n) \in [Tasks -> 0 .. portMAX_DELAY] BY TicksLeftType
<1> HIDE DEF E
<1>1. \A u \in Tasks : stateList'[u] = "delayed" => timing'[u] /\ xTicksToWait'[u] > 0
  <2> SUFFICES ASSUME NEW u \in Tasks, stateList'[u] = "delayed"
               PROVE  timing'[u] /\ xTicksToWait'[u] > 0
    OBVIOUS
  <2>1. stateList[u] = "delayed" /\ u \notin E /\ u \notin xPendingReadyList BY <1>s
  <2>2. TicksLeft(n)[u] # 0 BY <2>1, <1>e
  <2>3. TicksLeft(n)[u] \in Nat BY <1>l, ConstantsAssumption DEF ConstantsAssumption
  <2> QED BY <2>1, <2>2, <2>3, <1>t DEF ListsConsistent
<1>2. \A u \in xTasksWaitingToSend' \union xTasksWaitingToReceive' : stateList'[u] # "ready"
  BY <1>s, <1>w DEF TypeOK, ListsConsistent
<1>3. \A u \in Tasks : stateList'[u] = "suspended" =>
        u \in xTasksWaitingToSend' \union xTasksWaitingToReceive'
  BY <1>s, <1>w, <1>e DEF TypeOK, ListsConsistent
<1> QED BY <1>1, <1>2, <1>3, <1>w DEF TypeOK, ListsConsistent
-----------------------------------------------------------------------------
\* The step of a task that is not ready: it is ending the call that blocks it.
LEMMA RunningReady ==
    ASSUME CurrentInv, NEW t \in Tasks, Running(t), pc[t] # "yield",
           pc[t] \in {"unlockTx", "unlockRx", "resume"} => outcome # "block"
    PROVE  stateList[t] = "ready"
BY DEF CurrentInv, Running, Blocking

LEMMA CallLists ==
    ASSUME ConstantsAssumption, TypeOK, SchedInv,
           NEW t \in Tasks, NEW c \in AllCalls, NEW n \in Waits, Call(t, c, n)
    PROVE  SchedInv'
<1> USE DEF SchedInv, Call, Goto, queueVars, schedVars
<1>r. stateList[t] = "ready" BY RunningReady
<1>1. ListsConsistent'
  <2>1. \A u \in Tasks : stateList[u] # "ready" =>
          call'[u] = call[u] /\ timing'[u] = timing[u] /\ xTicksToWait'[u] = xTicksToWait[u]
    BY <1>r DEF TypeOK
  <2> QED BY <2>1, KeepLists
<1>2. CurrentInv' BY <1>r DEF CurrentInv, Running, Blocking
<1>3. TimeInv' BY DEF TypeOK, TimeInv, ConstantsAssumption
<1> QED BY <1>1, <1>2, <1>3

\* The running task's call returns: it was ready, so it was on no list.
LEMMA ReturnTime ==
    ASSUME TypeOK, SchedInv, NEW t \in Tasks, NEW r \in {"pass", "fail"}, Return(t, r),
           stateList[t] = "ready"
    PROVE  /\ TimeInv'
           /\ \A u \in Tasks : stateList[u] # "ready" =>
                 call'[u] = call[u] /\ timing'[u] = timing[u] /\ xTicksToWait'[u] = xTicksToWait[u]
BY DEF SchedInv, TypeOK, TimeInv, Return, Goto

\* A switch chooses a ready task; without one, the running task stays ready.
LEMMA YieldCurrent ==
    ASSUME NEW b, YieldIf(b), ~b => stateList'[pxCurrentTCB] = "ready"
    PROVE  CurrentInv'
BY DEF YieldIf, SwitchContext, HighestReady, CurrentInv

LEMMA SendPassLists ==
    ASSUME ConstantsAssumption, TypeOK, SchedInv, NEW t \in Tasks, SendPass(t)
    PROVE  SchedInv'
<1> USE DEF SchedInv
<1>r. stateList[t] = "ready" /\ t = pxCurrentTCB BY RunningReady DEF SendPass, Running
<1> PICK W \in HeadOf(xTasksWaitingToReceive, 1) :
          /\ xTasksWaitingToReceive' = xTasksWaitingToReceive \ W
          /\ RemoveFromEventList(W)
          /\ YieldIf(AnyAbove(W))
  BY DEF SendPass
<1>w. W \in SUBSET xTasksWaitingToReceive BY HeadOfSubset
<1>t. /\ TimeInv'
      /\ \A u \in Tasks : stateList[u] # "ready" =>
            call'[u] = call[u] /\ timing'[u] = timing[u] /\ xTicksToWait'[u] = xTicksToWait[u]
  BY <1>r, ReturnTime DEF SendPass
<1>1. ListsConsistent' BY <1>w, <1>t, WakeReceiverLists DEF SendPass
<1>2. CurrentInv' BY <1>r, YieldCurrent DEF RemoveFromEventList
<1> QED BY <1>1, <1>2, <1>t

LEMMA ReceivePassLists ==
    ASSUME ConstantsAssumption, TypeOK, SchedInv, NEW t \in Tasks, ReceivePass(t)
    PROVE  SchedInv'
<1> USE DEF SchedInv
<1>r. stateList[t] = "ready" /\ t = pxCurrentTCB BY RunningReady DEF ReceivePass, Running
<1> PICK W \in HeadOf(xTasksWaitingToSend, 1) :
          /\ xTasksWaitingToSend' = xTasksWaitingToSend \ W
          /\ RemoveFromEventList(W)
          /\ YieldIf(AnyAbove(W))
  BY DEF ReceivePass
<1>w. W \in SUBSET xTasksWaitingToSend BY HeadOfSubset
<1>t. /\ TimeInv'
      /\ \A u \in Tasks : stateList[u] # "ready" =>
            call'[u] = call[u] /\ timing'[u] = timing[u] /\ xTicksToWait'[u] = xTicksToWait[u]
  BY <1>r, ReturnTime DEF ReceivePass
<1>1. ListsConsistent' BY <1>w, <1>t, WakeSenderLists DEF ReceivePass
<1>2. CurrentInv' BY <1>r, YieldCurrent DEF RemoveFromEventList
<1> QED BY <1>1, <1>2, <1>t

LEMMA PeekPassLists ==
    ASSUME ConstantsAssumption, TypeOK, SchedInv, NEW t \in Tasks, PeekPass(t)
    PROVE  SchedInv'
<1> USE DEF SchedInv
<1>r. stateList[t] = "ready" /\ t = pxCurrentTCB BY RunningReady DEF PeekPass, Running
<1> PICK W \in HeadOf(xTasksWaitingToReceive, 1) :
          /\ xTasksWaitingToReceive' = xTasksWaitingToReceive \ W
          /\ RemoveFromEventList(W)
          /\ YieldIf(AnyAbove(W))
  BY DEF PeekPass
<1>w. W \in SUBSET xTasksWaitingToReceive BY HeadOfSubset
<1>t. /\ TimeInv'
      /\ \A u \in Tasks : stateList[u] # "ready" =>
            call'[u] = call[u] /\ timing'[u] = timing[u] /\ xTicksToWait'[u] = xTicksToWait[u]
  BY <1>r, ReturnTime DEF PeekPass
<1>1. ListsConsistent' BY <1>w, <1>t, WakeReceiverLists DEF PeekPass
<1>2. CurrentInv' BY <1>r, YieldCurrent DEF RemoveFromEventList
<1> QED BY <1>1, <1>2, <1>t

LEMMA CheckFailsLists ==
    ASSUME ConstantsAssumption, TypeOK, SchedInv, NEW t \in Tasks, CheckFails(t)
    PROVE  SchedInv'
<1> USE DEF SchedInv
<1>r. stateList[t] = "ready" BY RunningReady DEF CheckFails
<1>2. CurrentInv' BY <1>r DEF CheckFails, CurrentInv, Running, schedVars
<1>3. CASE Return(t, "fail")
  BY <1>r, <1>2, <1>3, ReturnTime, KeepLists DEF CheckFails, queueVars, schedVars
<1>4. CASE timing' = [timing EXCEPT ![t] = TRUE] /\ Goto(t, "suspend")
           /\ UNCHANGED <<call, xTicksToWait, outcome>>
  <2>1. \A u \in Tasks : stateList[u] # "ready" =>
          call'[u] = call[u] /\ timing'[u] = timing[u] /\ xTicksToWait'[u] = xTicksToWait[u]
    BY <1>4, <1>r DEF TypeOK
  <2>2. ListsConsistent' BY <2>1, KeepLists DEF CheckFails, queueVars, schedVars
  <2>3. call[t] # "delay" BY DEF CheckFails, Unavailable
  <2>4. TimeInv' BY <1>4, <2>3 DEF TypeOK, TimeInv, Goto
  <2> QED BY <1>2, <2>2, <2>4
<1> QED BY <1>3, <1>4 DEF CheckFails

LEMMA SuspendAllLists ==
    ASSUME ConstantsAssumption, TypeOK, SchedInv, NEW t \in Tasks, SuspendAll(t)
    PROVE  SchedInv'
<1> USE DEF SchedInv, SuspendAll, Goto, queueVars
<1>r. stateList[t] = "ready" BY RunningReady
<1>1. ListsConsistent' BY KeepLists DEF TypeOK
<1>2. CurrentInv' BY <1>r DEF CurrentInv, Running
<1>3. TimeInv' BY DEF TypeOK, TimeInv
<1> QED BY <1>1, <1>2, <1>3

LEMMA LockQueueLists ==
    ASSUME ConstantsAssumption, TypeOK, SchedInv, NEW t \in Tasks, LockQueue(t)
    PROVE  SchedInv'
<1> USE DEF SchedInv, LockQueue, Goto, schedVars
<1>r. stateList[t] = "ready" BY RunningReady
<1>1. ListsConsistent' BY KeepLists
<1>2. CurrentInv' BY <1>r DEF CurrentInv, Running
<1>3. TimeInv' BY DEF TypeOK, TimeInv
<1> QED BY <1>1, <1>2, <1>3

LEMMA CheckForTimeOutLists ==
    ASSUME ConstantsAssumption, TypeOK, CallInv, SchedInv, NEW t \in Tasks, CheckForTimeOut(t)
    PROVE  SchedInv'
<1> USE DEF SchedInv, CheckForTimeOut, Goto, queueVars, schedVars
<1>r. stateList[t] = "ready" BY RunningReady
<1>1. ListsConsistent'
  <2>1. \A u \in Tasks : stateList[u] # "ready" =>
          call'[u] = call[u] /\ timing'[u] = timing[u] /\ xTicksToWait'[u] = xTicksToWait[u]
    BY <1>r DEF TypeOK
  <2> QED BY <2>1, KeepLists
<1>2. CurrentInv' BY <1>r DEF CurrentInv, Running
<1>3. TimeInv' BY DEF TypeOK, CallInv, TimeInv
<1> QED BY <1>1, <1>2, <1>3

LEMMA RetestLists ==
    ASSUME ConstantsAssumption, TypeOK, CallInv, SchedInv, NEW t \in Tasks, Retest(t)
    PROVE  SchedInv'
<1> USE DEF SchedInv, Retest, Goto, queueVars, schedVars
<1>r. stateList[t] = "ready" BY RunningReady
<1>1. ListsConsistent' BY KeepLists
<1>2. CurrentInv' BY <1>r DEF CurrentInv, Running
<1>3. TimeInv' BY DEF TypeOK, CallInv, TimeInv
<1> QED BY <1>1, <1>2, <1>3

\* The task that blocks was on no list, and is on the list of its call now.
LEMMA PlaceLists ==
    ASSUME ConstantsAssumption, TypeOK, ExclusiveAccess, CallInv, SchedInv, NEW t \in Tasks, Place(t)
    PROVE  SchedInv'
<1> USE DEF SchedInv
<1>r. stateList[t] = "ready" /\ t = pxCurrentTCB BY RunningReady DEF Place, Running
<1>s. uxSchedulerSuspended # 0 BY DEF Place, TypeOK, ExclusiveAccess
<1>c. call[t] \in AllCalls /\ xTicksToWait[t] > 0 BY DEF Place, CallInv, TimeInv
<1>1. ListsConsistent'
  <2>1. stateList'[t] # "ready" /\ timing'[t] /\ \A u \in Tasks \ {t} :
          stateList'[u] = stateList[u] /\ timing'[u] = timing[u]
    BY DEF Place, TypeOK
  <2>2. t \notin xTasksWaitingToSend \union xTasksWaitingToReceive \union xPendingReadyList
    BY <1>r DEF ListsConsistent
  <2>3. stateList'[t] = "suspended" => t \in xTasksWaitingToSend' \union xTasksWaitingToReceive'
    BY <1>c DEF Place, TypeOK
  <2> QED BY <2>1, <2>2, <2>3, <1>s, <1>c DEF Place, TypeOK, ListsConsistent
<1>2. CurrentInv' BY <1>r DEF Place, TypeOK, CurrentInv, Blocking, Goto
<1>3. TimeInv' BY DEF Place, TypeOK, TimeInv, Goto
<1> QED BY <1>1, <1>2, <1>3

LEMMA UnlockTxLists ==
    ASSUME ConstantsAssumption, TypeOK, SchedInv, NEW t \in Tasks, UnlockTx(t)
    PROVE  SchedInv'
<1> USE DEF SchedInv
<1> PICK W \in HeadOf(xTasksWaitingToReceive, cTxLock) :
          /\ xTasksWaitingToReceive' = xTasksWaitingToReceive \ W
          /\ RemoveFromEventList(W)
  BY DEF UnlockTx
<1>w. W \in SUBSET xTasksWaitingToReceive BY HeadOfSubset
<1>1. ListsConsistent' BY <1>w, WakeReceiverLists DEF UnlockTx
<1>2. CurrentInv' BY DEF UnlockTx, TypeOK, CurrentInv, Blocking, Goto, Running, RemoveFromEventList
<1>3. TimeInv' BY DEF UnlockTx, TypeOK, TimeInv, Goto
<1> QED BY <1>1, <1>2, <1>3

LEMMA UnlockRxLists ==
    ASSUME ConstantsAssumption, TypeOK, SchedInv, NEW t \in Tasks, UnlockRx(t)
    PROVE  SchedInv'
<1> USE DEF SchedInv
<1> PICK W \in HeadOf(xTasksWaitingToSend, cRxLock) :
          /\ xTasksWaitingToSend' = xTasksWaitingToSend \ W
          /\ RemoveFromEventList(W)
  BY DEF UnlockRx
<1>w. W \in SUBSET xTasksWaitingToSend BY HeadOfSubset
<1>1. ListsConsistent' BY <1>w, WakeSenderLists DEF UnlockRx
<1>2. CurrentInv' BY DEF UnlockRx, TypeOK, CurrentInv, Blocking, Goto, Running, RemoveFromEventList
<1>3. TimeInv' BY DEF UnlockRx, TypeOK, TimeInv, Goto
<1> QED BY <1>1, <1>2, <1>3

\* Ticks end no call, and leave the waits that are not being timed alone.
LEMMA ElapseTime ==
    ASSUME ConstantsAssumption, TypeOK, TimeInv, NEW n \in Nat, NEW lists,
           ElapseTicks(n, lists), UNCHANGED <<call, timing>>,
           \A u \in Tasks :
               /\ pc'[u] = "app" => pc[u] = "app"
               /\ pc'[u] \in {"suspend", "place"} => pc'[u] = pc[u]
               /\ pc'[u] \notin {"retest", "place"}
    PROVE  TimeInv'
<1>1. \A u \in Tasks : ~timing[u] => xTicksToWait'[u] = xTicksToWait[u]
  BY DEF ElapseTicks, TicksLeft
<1> QED BY <1>1 DEF TimeInv

LEMMA ResumeAllLists ==
    ASSUME ConstantsAssumption, TypeOK, ExclusiveAccess, CallInv, SchedInv, NEW t \in Tasks, ResumeAll(t)
    PROVE  SchedInv'
<1> USE DEF SchedInv
<1> DEFINE lists == MakeReady(xPendingReadyList, stateList)
           due == YieldDue(Elapsed(uxPendedTicks, lists), lists)
<1>e. ElapseTicks(uxPendedTicks, lists) /\ YieldIf(due) /\ Goto(t, ResumedAt(t, due))
  BY DEF ResumeAll
<1>n. uxPendedTicks \in Nat BY DEF TypeOK
<1>s. t = pxCurrentTCB /\ \A u \in Tasks : pc[u] \in SuspendedPCs => u = t
  BY DEF ResumeAll, ExclusiveAccess, Running
<1>c. /\ ResumedAt(t, due) \in {"return", "check", "yield", "recheck"}
      /\ outcome = "block" /\ ~due => ResumedAt(t, due) = "yield"
  <2>1. CASE outcome = "block" BY <2>1 DEF ResumedAt, AfterBlocking
  <2>2. CASE outcome = "retry" BY <2>2 DEF ResumedAt
  <2>3. CASE outcome = "giveup"
    <3>1. call[t] \in SendCalls \union ReceiveCalls BY <2>3 DEF ResumeAll, CallInv, TypeOK
    <3>2. CASE call[t] \in ReceiveCalls BY <2>3, <3>2 DEF ResumedAt
    <3>3. CASE call[t] \in SendCalls /\ call[t] \notin ReceiveCalls BY <2>3, <3>3 DEF ResumedAt
    <3> QED BY <3>1, <3>2, <3>3
  <2> QED BY <2>1, <2>2, <2>3 DEF TypeOK
<1>d. \A u \in Tasks : pc'[u] = IF u = t THEN ResumedAt(t, due) ELSE pc[u]
  BY <1>e DEF Goto, TypeOK
<1>l. lists = MakeReady(xPendingReadyList, stateList) OBVIOUS
<1> HIDE DEF lists, due
<1>1. ListsConsistent' BY <1>e, <1>n, <1>l, ElapseLists DEF ResumeAll
<1>2. CurrentInv'
  <2>1. CASE due
    BY <2>1, <1>e DEF YieldIf, SwitchContext, HighestReady, CurrentInv
  <2>2. CASE ~due
    <3>1. pxCurrentTCB' = t BY <2>2, <1>e, <1>s DEF YieldIf
    <3>2. CASE outcome = "block"
      BY <3>1, <3>2, <2>2, <1>c, <1>d DEF CurrentInv
    <3>3. CASE outcome # "block"
      <4>1. stateList[t] = "ready" BY <3>3, RunningReady DEF ResumeAll
      <4>2. stateList'[t] = "ready" BY <4>1, <1>e, <1>l DEF ElapseTicks, MakeReady
      <4> QED BY <3>1, <4>2 DEF CurrentInv
    <3> QED BY <3>2, <3>3
  <2> QED BY <2>1, <2>2
<1>3. TimeInv'
  <2>1. \A u \in Tasks :
            /\ pc'[u] = "app" => pc[u] = "app"
            /\ pc'[u] \in {"suspend", "place"} => pc'[u] = pc[u]
            /\ pc'[u] \notin {"retest", "place"}
    BY <1>c, <1>d, <1>s
  <2> QED BY <2>1, <1>e, <1>n, ElapseTime DEF ResumeAll
<1> QED BY <1>1, <1>2, <1>3

LEMMA YieldWithinAPILists ==
    ASSUME ConstantsAssumption, TypeOK, SchedInv, NEW t \in Tasks, YieldWithinAPI(t)
    PROVE  SchedInv'
<1> USE DEF SchedInv
<1>1. ListsConsistent' BY KeepLists DEF YieldWithinAPI, queueVars
<1>2. CurrentInv' BY DEF YieldWithinAPI, SwitchContext, HighestReady, CurrentInv
<1>3. TimeInv' BY DEF YieldWithinAPI, TypeOK, TimeInv, Goto, AfterBlocking
<1> QED BY <1>1, <1>2, <1>3

LEMMA RecheckLists ==
    ASSUME ConstantsAssumption, TypeOK, SchedInv, NEW t \in Tasks, Recheck(t)
    PROVE  SchedInv'
<1> USE DEF SchedInv
<1>r. stateList[t] = "ready" BY RunningReady DEF Recheck
<1>2. CurrentInv' BY <1>r DEF Recheck, CurrentInv, Running, schedVars
<1>3. CASE Return(t, "fail")
  BY <1>r, <1>2, <1>3, ReturnTime, KeepLists DEF Recheck, queueVars, schedVars
<1>4. CASE Goto(t, "check") /\ UNCHANGED <<call, timing, xTicksToWait, outcome>>
  <2>2. ListsConsistent' BY <1>4, KeepLists DEF Recheck, queueVars, schedVars
  <2>4. TimeInv' BY <1>4 DEF TypeOK, TimeInv, Goto
  <2> QED BY <1>2, <2>2, <2>4
<1> QED BY <1>3, <1>4 DEF Recheck

LEMMA ReturnFromCallLists ==
    ASSUME ConstantsAssumption, TypeOK, SchedInv, NEW t \in Tasks, ReturnFromCall(t)
    PROVE  SchedInv'
<1> USE DEF SchedInv
<1>r. stateList[t] = "ready" BY RunningReady DEF ReturnFromCall
<1>2. CurrentInv' BY <1>r DEF ReturnFromCall, CurrentInv, Running, schedVars
<1> PICK r \in {"pass", "fail"} : Return(t, r) BY DEF ReturnFromCall
<1> QED BY <1>r, <1>2, ReturnTime, KeepLists DEF ReturnFromCall, queueVars, schedVars

LEMMA IsrSendLists ==
    ASSUME ConstantsAssumption, TypeOK, SchedInv, IsrSend PROVE SchedInv'
<1> USE DEF SchedInv
<1>3. TimeInv' BY DEF IsrSend, TimeInv, callVars
<1>1. CASE cTxLock = queueUNLOCKED
  <2> PICK W \in HeadOf(xTasksWaitingToReceive, 1) :
            /\ xTasksWaitingToReceive' = xTasksWaitingToReceive \ W
            /\ RemoveFromEventList(W)
    BY <1>1 DEF IsrSend
  <2>w. W \in SUBSET xTasksWaitingToReceive BY HeadOfSubset
  <2>1. ListsConsistent' BY <2>w, WakeReceiverLists DEF IsrSend, callVars
  <2>2. CurrentInv' BY DEF IsrSend, TypeOK, CurrentInv, Blocking, RemoveFromEventList, callVars
  <2> QED BY <1>3, <2>1, <2>2
<1>2. CASE cTxLock # queueUNLOCKED
  <2>1. ListsConsistent' BY <1>2, KeepLists DEF IsrSend, callVars
  <2>2. CurrentInv' BY <1>2 DEF IsrSend, CurrentInv, Blocking, callVars
  <2> QED BY <1>3, <2>1, <2>2
<1> QED BY <1>1, <1>2

LEMMA IsrReceiveLists ==
    ASSUME ConstantsAssumption, TypeOK, SchedInv, IsrReceive PROVE SchedInv'
<1> USE DEF SchedInv
<1>3. TimeInv' BY DEF IsrReceive, TimeInv, callVars
<1>1. CASE cRxLock = queueUNLOCKED
  <2> PICK W \in HeadOf(xTasksWaitingToSend, 1) :
            /\ xTasksWaitingToSend' = xTasksWaitingToSend \ W
            /\ RemoveFromEventList(W)
    BY <1>1 DEF IsrReceive
  <2>w. W \in SUBSET xTasksWaitingToSend BY HeadOfSubset
  <2>1. ListsConsistent' BY <2>w, WakeSenderLists DEF IsrReceive, callVars
  <2>2. CurrentInv' BY DEF IsrReceive, TypeOK, CurrentInv, Blocking, RemoveFromEventList, callVars
  <2> QED BY <1>3, <2>1, <2>2
<1>2. CASE cRxLock # queueUNLOCKED
  <2>1. ListsConsistent' BY <1>2, KeepLists DEF IsrReceive, callVars
  <2>2. CurrentInv' BY <1>2 DEF IsrReceive, CurrentInv, Blocking, callVars
  <2> QED BY <1>3, <2>1, <2>2
<1> QED BY <1>1, <1>2

LEMMA KernelYieldLists ==
    ASSUME ConstantsAssumption, TypeOK, SchedInv, KernelYield PROVE SchedInv'
<1> USE DEF SchedInv
<1>1. ListsConsistent' BY KeepLists DEF KernelYield, queueVars, callVars
<1>2. CurrentInv'
  <2>1. CASE uxSchedulerSuspended = 0
    BY <2>1 DEF KernelYield, SwitchContext, HighestReady, CurrentInv
  <2>2. CASE uxSchedulerSuspended # 0
    BY <2>2 DEF KernelYield, CurrentInv, Blocking, callVars
  <2> QED BY <2>1, <2>2
<1>3. TimeInv' BY DEF KernelYield, TimeInv, callVars
<1> QED BY <1>1, <1>2, <1>3

LEMMA TickLists ==
    ASSUME ConstantsAssumption, TypeOK, ExclusiveAccess, SchedInv, Tick PROVE SchedInv'
<1> USE DEF SchedInv
<1>l. stateList = MakeReady(xPendingReadyList, stateList)
  BY DEF Tick, ListsConsistent, MakeReady, TypeOK
<1>e. ElapseTicks(1, stateList) /\ \E b \in BOOLEAN : YieldIf(b)
  BY DEF Tick, AnyAtOrAbove, TimeSlice, TypeOK
<1>s. \A u \in Tasks : stateList[u] = "ready" => stateList'[u] = "ready"
  BY <1>e DEF ElapseTicks, MakeReady
<1>1. ListsConsistent' BY <1>l, <1>e, ElapseLists DEF Tick, ListsConsistent
<1>2. CurrentInv'
  BY <1>e, <1>s DEF Tick, TypeOK, YieldIf, SwitchContext, HighestReady, CurrentInv, Blocking
<1>3. TimeInv' BY <1>e, ElapseTime DEF Tick, ExclusiveAccess
<1> QED BY <1>1, <1>2, <1>3

LEMMA TickPendedLists ==
    ASSUME ConstantsAssumption, TypeOK, SchedInv, TickPended PROVE SchedInv'
<1> USE DEF SchedInv, TickPended, queueVars, callVars
<1>1. ListsConsistent' BY KeepLists
<1> QED BY <1>1 DEF CurrentInv, Blocking, TimeInv

LEMMA StutterLists == ASSUME SchedInv, UNCHANGED vars PROVE SchedInv'
BY DEF SchedInv, ListsConsistent, CurrentInv, Blocking, TimeInv, vars, queueVars, schedVars, callVars

LEMMA NextSchedInv ==
    ASSUME ConstantsAssumption, IInv, SchedInv, [Next]_vars PROVE SchedInv'
<1> USE DEF IInv
<1>1. ASSUME NEW t \in Tasks, TaskStep(t) PROVE SchedInv'
  BY <1>1, SendPassLists, ReceivePassLists, PeekPassLists, CheckFailsLists, SuspendAllLists,
     LockQueueLists, CheckForTimeOutLists, RetestLists, PlaceLists, UnlockTxLists, UnlockRxLists,
     ResumeAllLists, YieldWithinAPILists, RecheckLists, ReturnFromCallLists
  DEF TaskStep
<1> QED
  BY <1>1, CallLists, IsrSendLists, IsrReceiveLists, KernelYieldLists, TickLists, TickPendedLists,
     StutterLists
  DEF Next

\* No task is lost by the kernel: none is on two lists, a task on an event
\* list is blocked in the call that put it there, and a task blocked for ever
\* is on one, so an event can wake it.
THEOREM Lists == ASSUME ConstantsAssumption PROVE Spec => []ListsConsistent
<1>1. Init => IInv /\ SchedInv BY InitIInv, InitSchedInv
<1>2. IInv /\ SchedInv /\ [Next]_vars => IInv' /\ SchedInv' BY NextIInv, NextSchedInv
<1>3. SchedInv => ListsConsistent BY DEF SchedInv
<1> QED BY <1>1, <1>2, <1>3, PTL DEF Spec
-----------------------------------------------------------------------------
RunsInv == PrioInv /\ HighestPriorityRuns

\* With a switch, one of the highest ready tasks runs.
LEMMA SwitchRuns ==
    ASSUME SwitchContext, uxSchedulerSuspended' = 0
    PROVE  RunsInv'
BY DEF RunsInv, PrioInv, HighestPriorityRuns, SwitchContext, HighestReady

LEMMA KeepRuns ==
    ASSUME RunsInv,
           UNCHANGED <<pxCurrentTCB, stateList, uxSchedulerSuspended, yieldRequest>>,
           pc[pxCurrentTCB] = "yield" => pc'[pxCurrentTCB] = "yield"
    PROVE  RunsInv'
BY DEF RunsInv, PrioInv, HighestPriorityRuns, HighestReady

\* A task that runs, in a call and with the scheduler running, is one of the
\* highest that are ready.
LEMMA RunningHighest ==
    ASSUME HighestPriorityRuns, uxSchedulerSuspended = 0,
           NEW t \in Tasks, Running(t), pc[t] # "yield"
    PROVE  t = pxCurrentTCB /\ t \in HighestReady(stateList)
BY DEF HighestPriorityRuns, Running

\* A task whose critical section wakes the tasks of W.
LEMMA WakeRuns ==
    ASSUME ConstantsAssumption, TypeOK, ExclusiveAccess, RunsInv, NEW t \in Tasks, Running(t),
           pc[t] = "check", NEW W \in SUBSET Tasks,
           RemoveFromEventList(W), YieldIf(AnyAbove(W)), UNCHANGED uxSchedulerSuspended
    PROVE  RunsInv'
<1>1. uxSchedulerSuspended = 0 BY DEF Running, TypeOK, ExclusiveAccess
<1>2. t = pxCurrentTCB /\ t \in HighestReady(stateList) BY <1>1, RunningHighest DEF RunsInv
<1>3. CASE AnyAbove(W) BY <1>1, <1>3, SwitchRuns DEF YieldIf
<1>4. CASE ~AnyAbove(W)
  <2>1. \A u \in W : Prio[u] <= Prio[t] BY <1>2, <1>4 DEF AnyAbove, ConstantsAssumption
  <2>2. t \in HighestReady(stateList')
    BY <1>1, <1>2, <2>1 DEF HighestReady, RemoveFromEventList
  <2> QED BY <1>1, <1>2, <1>4, <2>2 DEF RunsInv, PrioInv, HighestPriorityRuns, YieldIf
<1> QED BY <1>3, <1>4

\* An interrupt handler that wakes the tasks of W: it asks for a switch if one
\* of them outranks the task it interrupted.
LEMMA IsrWakeRuns ==
    ASSUME ConstantsAssumption, TypeOK, RunsInv, NEW W \in SUBSET Tasks,
           RemoveFromEventList(W), yieldRequest' = (yieldRequest \/ AnyAbove(W)),
           UNCHANGED <<pxCurrentTCB, uxSchedulerSuspended, pc>>
    PROVE  RunsInv'
<1>1. CASE uxSchedulerSuspended # 0
  BY <1>1 DEF RemoveFromEventList, RunsInv, PrioInv, HighestPriorityRuns
<1>2. CASE uxSchedulerSuspended = 0 /\ AnyAbove(W)
  BY <1>2 DEF RunsInv, PrioInv, HighestPriorityRuns
<1>3. CASE uxSchedulerSuspended = 0 /\ ~AnyAbove(W)
  <2>1. \A u \in W : Prio[u] <= Prio[pxCurrentTCB]
    BY <1>3 DEF AnyAbove, ConstantsAssumption, TypeOK
  <2>2. pxCurrentTCB \in HighestReady(stateList) => pxCurrentTCB' \in HighestReady(stateList')
    BY <1>3, <2>1 DEF HighestReady, RemoveFromEventList
  <2> QED BY <1>3, <2>2 DEF RunsInv, PrioInv, HighestPriorityRuns
<1> QED BY <1>1, <1>2, <1>3

\* With the scheduler suspended, tasks are only put on the pending list.
LEMMA PendRuns ==
    ASSUME RunsInv, NEW W, RemoveFromEventList(W), uxSchedulerSuspended # 0,
           UNCHANGED <<pxCurrentTCB, uxSchedulerSuspended>>
    PROVE  RunsInv'
BY DEF RemoveFromEventList, RunsInv, PrioInv, HighestPriorityRuns

LEMMA UnsuspendedStepsRuns ==
    ASSUME ConstantsAssumption, TypeOK, ExclusiveAccess, RunsInv, NEW t \in Tasks,
           SendPass(t) \/ ReceivePass(t) \/ PeekPass(t)
    PROVE  RunsInv'
<1>1. CASE SendPass(t)
  <2> PICK W \in HeadOf(xTasksWaitingToReceive, 1) :
          RemoveFromEventList(W) /\ YieldIf(AnyAbove(W))
    BY <1>1 DEF SendPass
  <2> QED BY <1>1, WakeRuns, HeadOfSubset DEF SendPass, TypeOK
<1>2. CASE ReceivePass(t)
  <2> PICK W \in HeadOf(xTasksWaitingToSend, 1) :
          RemoveFromEventList(W) /\ YieldIf(AnyAbove(W))
    BY <1>2 DEF ReceivePass
  <2> QED BY <1>2, WakeRuns, HeadOfSubset DEF ReceivePass, TypeOK
<1>3. CASE PeekPass(t)
  <2> PICK W \in HeadOf(xTasksWaitingToReceive, 1) :
          RemoveFromEventList(W) /\ YieldIf(AnyAbove(W))
    BY <1>3 DEF PeekPass
  <2> QED BY <1>3, WakeRuns, HeadOfSubset DEF PeekPass, TypeOK
<1> QED BY <1>1, <1>2, <1>3

LEMMA SuspendAllRuns ==
    ASSUME ConstantsAssumption, TypeOK, ExclusiveAccess, RunsInv, NEW t \in Tasks, SuspendAll(t)
    PROVE  RunsInv'
<1>1. uxSchedulerSuspended = 0 BY DEF SuspendAll, Running, TypeOK, ExclusiveAccess
<1>2. t = pxCurrentTCB /\ t \in HighestReady(stateList)
  BY <1>1, RunningHighest DEF RunsInv, SuspendAll
<1> QED BY <1>1, <1>2 DEF SuspendAll, RunsInv, PrioInv, HighestPriorityRuns, HighestReady

LEMMA SuspendedStepsRuns ==
    ASSUME ConstantsAssumption, TypeOK, ExclusiveAccess, RunsInv, NEW t \in Tasks,
           Place(t) \/ UnlockTx(t) \/ UnlockRx(t)
    PROVE  RunsInv'
<1>s. uxSchedulerSuspended # 0 BY DEF Place, UnlockTx, UnlockRx, TypeOK, ExclusiveAccess
<1>1. CASE Place(t)
  BY <1>1, <1>s DEF Place, TypeOK, RunsInv, PrioInv, HighestPriorityRuns
<1>2. CASE UnlockTx(t) BY <1>2, <1>s, PendRuns DEF UnlockTx
<1>3. CASE UnlockRx(t) BY <1>3, <1>s, PendRuns DEF UnlockRx
<1> QED BY <1>1, <1>2, <1>3

\* xTaskResumeAll: if no switch is due, no task made ready meanwhile reaches
\* the priority of the running one.
LEMMA ResumeAllRuns ==
    ASSUME ConstantsAssumption, TypeOK, ExclusiveAccess, SchedInv, RunsInv, NEW t \in Tasks, ResumeAll(t)
    PROVE  RunsInv'
<1> DEFINE lists == MakeReady(xPendingReadyList, stateList)
           E == Elapsed(uxPendedTicks, lists)
           due == YieldDue(E, lists)
<1>e. ElapseTicks(uxPendedTicks, lists) /\ YieldIf(due) /\ Goto(t, ResumedAt(t, due))
  BY DEF ResumeAll
<1>s. /\ t = pxCurrentTCB /\ uxSchedulerSuspended # 0 /\ uxSchedulerSuspended' = 0
      /\ pc[t] = "resume"
  BY DEF ResumeAll, ExclusiveAccess, Running, TypeOK
<1>r. \A u \in Tasks :
        stateList'[u] = IF u \in E \/ u \in xPendingReadyList THEN "ready" ELSE stateList[u]
  BY DEF ResumeAll, ElapseTicks, MakeReady
<1>n. uxPendedTicks = 0 => E = {}
  <2>1. \A u \in Tasks : lists[u] = "delayed" => TicksLeft(0)[u] # 0
    BY DEF MakeReady, TicksLeft, TypeOK, SchedInv, ListsConsistent
  <2> QED BY <2>1 DEF Elapsed
<1>p. \A u \in Tasks : stateList[u] = "ready" => Prio[u] <= Prio[t]
  BY <1>s DEF RunsInv, PrioInv
<1>t. E \subseteq Tasks /\ uxPendedTicks \in Nat BY DEF Elapsed, TypeOK
<1>d. ~due => /\ ~AnyAtOrAbove(xPendingReadyList)
              /\ uxPendedTicks > 0 => ~AnyAtOrAbove(E)
  BY DEF YieldDue
<1> HIDE DEF lists, E, due
<1>1. CASE due BY <1>1, <1>e, <1>s, SwitchRuns DEF YieldIf
<1>2. CASE ~due
  <2>1. pxCurrentTCB' = t /\ yieldRequest' = yieldRequest BY <1>2, <1>e, <1>s DEF YieldIf, ResumeAll
  <2>2. CASE outcome = "block"
    BY <1>2, <1>e, <1>s, <2>1, <2>2 DEF Goto, ResumedAt, TypeOK, RunsInv, PrioInv, HighestPriorityRuns
  <2>3. CASE outcome # "block"
    <3>1. stateList[t] = "ready" BY <2>3, RunningReady DEF ResumeAll, SchedInv
    <3>2. \A u \in xPendingReadyList \union E : Prio[u] <= Prio[t]
      BY <1>2, <1>d, <1>n, <1>t, <1>s DEF AnyAtOrAbove, ConstantsAssumption, TypeOK
    <3>3. t \in HighestReady(stateList')
      BY <1>r, <1>p, <3>1, <3>2 DEF HighestReady
    <3> QED BY <1>s, <2>1, <3>3 DEF RunsInv, PrioInv, HighestPriorityRuns
  <2> QED BY <2>2, <2>3
<1> QED BY <1>1, <1>2

LEMMA IsrRuns ==
    ASSUME ConstantsAssumption, TypeOK, RunsInv, IsrSend \/ IsrReceive
    PROVE  RunsInv'
<1>1. CASE IsrSend /\ cTxLock = queueUNLOCKED
  <2> PICK W \in HeadOf(xTasksWaitingToReceive, 1) :
          RemoveFromEventList(W) /\ yieldRequest' = (yieldRequest \/ AnyAbove(W))
    BY <1>1 DEF IsrSend
  <2> QED BY <1>1, IsrWakeRuns, HeadOfSubset DEF IsrSend, callVars, TypeOK
<1>2. CASE IsrSend /\ cTxLock # queueUNLOCKED
  BY <1>2, KeepRuns DEF IsrSend, callVars
<1>3. CASE IsrReceive /\ cRxLock = queueUNLOCKED
  <2> PICK W \in HeadOf(xTasksWaitingToSend, 1) :
          RemoveFromEventList(W) /\ yieldRequest' = (yieldRequest \/ AnyAbove(W))
    BY <1>3 DEF IsrReceive
  <2> QED BY <1>3, IsrWakeRuns, HeadOfSubset DEF IsrReceive, callVars, TypeOK
<1>4. CASE IsrReceive /\ cRxLock # queueUNLOCKED
  BY <1>4, KeepRuns DEF IsrReceive, callVars
<1> QED BY <1>1, <1>2, <1>3, <1>4

LEMMA KernelYieldRuns ==
    ASSUME RunsInv, KernelYield PROVE RunsInv'
<1>1. CASE uxSchedulerSuspended = 0 BY <1>1, SwitchRuns DEF KernelYield
<1>2. CASE uxSchedulerSuspended # 0
  BY <1>2 DEF KernelYield, RunsInv, PrioInv, HighestPriorityRuns
<1> QED BY <1>1, <1>2

LEMMA TickRuns ==
    ASSUME ConstantsAssumption, TypeOK, RunsInv, Tick PROVE RunsInv'
<1> DEFINE E == Elapsed(1, stateList)
           due == xYieldPending \/ AnyAtOrAbove(E) \/ TimeSlice(MakeReady(E, stateList))
<1>e. YieldIf(due) BY DEF Tick
<1>s. /\ uxSchedulerSuspended = 0 /\ uxSchedulerSuspended' = 0
      /\ UNCHANGED <<yieldRequest, pc>>
  BY DEF Tick
<1>r. \A u \in Tasks : stateList'[u] = IF u \in E THEN "ready" ELSE stateList[u]
  BY DEF Tick, ElapseTicks, MakeReady
<1>1. CASE due BY <1>1, <1>e, <1>s, SwitchRuns DEF YieldIf
<1>2. CASE ~due
  <2>1. E \subseteq Tasks BY DEF Elapsed
  <2>2. \A u \in E : Prio[u] <= Prio[pxCurrentTCB]
    BY <1>2, <2>1 DEF AnyAtOrAbove, ConstantsAssumption, TypeOK
  <2>3. pxCurrentTCB' = pxCurrentTCB BY <1>2, <1>e DEF YieldIf
  <2> HIDE DEF E, due
  <2>4. pxCurrentTCB \in HighestReady(stateList) => pxCurrentTCB' \in HighestReady(stateList')
    BY <1>r, <2>2, <2>3 DEF HighestReady
  <2> QED BY <1>s, <2>3, <2>4 DEF RunsInv, PrioInv, HighestPriorityRuns
<1> QED BY <1>1, <1>2

\* The other steps of a task move no task and are not the yield.
LEMMA OtherStepsRuns ==
    ASSUME TypeOK, RunsInv, NEW t \in Tasks,
           \/ \E c \in AllCalls, n \in Waits : Call(t, c, n)
           \/ CheckFails(t) \/ LockQueue(t) \/ CheckForTimeOut(t) \/ Retest(t)
           \/ Recheck(t) \/ ReturnFromCall(t)
    PROVE  RunsInv'
<1>1. Running(t) /\ pc[t] # "yield" /\ UNCHANGED schedVars
  BY DEF Call, CheckFails, LockQueue, CheckForTimeOut, Retest, Recheck, ReturnFromCall
<1> QED BY <1>1, KeepRuns DEF Running, schedVars

LEMMA NextRunsInv ==
    ASSUME ConstantsAssumption, IInv, SchedInv, RunsInv, [Next]_vars PROVE RunsInv'
<1> USE DEF IInv
<1>1. ASSUME NEW t \in Tasks, TaskStep(t) PROVE RunsInv'
  <2>1. CASE YieldWithinAPI(t)
    <3>1. uxSchedulerSuspended' = 0
      BY <2>1 DEF YieldWithinAPI, Running, TypeOK, ExclusiveAccess
    <3> QED BY <2>1, <3>1, SwitchRuns DEF YieldWithinAPI
  <2> QED
    BY <1>1, <2>1, UnsuspendedStepsRuns, OtherStepsRuns, SuspendAllRuns, SuspendedStepsRuns,
       ResumeAllRuns
    DEF TaskStep
<1>2. CASE TickPended BY <1>2, KeepRuns DEF TickPended, callVars
<1>3. CASE UNCHANGED vars BY <1>3, KeepRuns DEF vars, schedVars, callVars
<1> QED
  BY <1>1, <1>2, <1>3, OtherStepsRuns, IsrRuns, KernelYieldRuns, TickRuns DEF Next

\* The kernel is preemptive: unless it is suspended or a switch is about to
\* happen, no ready task outranks the one that runs.
THEOREM Preemptive == ASSUME ConstantsAssumption PROVE Spec => []HighestPriorityRuns
<1>1. Init => IInv /\ SchedInv /\ RunsInv BY InitIInv, InitSchedInv DEF RunsInv
<1>2. IInv /\ SchedInv /\ RunsInv /\ [Next]_vars => IInv' /\ SchedInv' /\ RunsInv'
  BY NextIInv, NextSchedInv, NextRunsInv
<1>3. RunsInv => HighestPriorityRuns BY DEF RunsInv
<1> QED BY <1>1, <1>2, <1>3, PTL DEF Spec
-----------------------------------------------------------------------------
(* What the callers of a queue rely on: its calls are atomic operations    *)
(* (KernelQueue implements BlockingQueue), and no wake-up is lost.         *)

\* A call gives up only when its time is up, and an overwrite never has to.
GiveUpInv ==
    \A t \in Tasks :
        /\ pc[t] \notin {"app", "check"} => call[t] # "overwrite"
        /\ pc[t] \in {"unlockTx", "unlockRx", "resume"} /\ outcome = "giveup" => xTicksToWait[t] = 0
        /\ pc[t] = "recheck" => call[t] \in ReceiveCalls /\ xTicksToWait[t] = 0
        /\ pc[t] = "return" =>
              call[t] = "delay" \/ (call[t] \in {"send", "sendfront"} /\ xTicksToWait[t] = 0)

LEMMA InitGiveUp == ASSUME Init PROVE GiveUpInv
BY DEF Init, GiveUpInv

LEMMA ReturnGiveUp ==
    ASSUME TypeOK, GiveUpInv, NEW t \in Tasks, NEW r, Return(t, r)
    PROVE  GiveUpInv'
BY DEF TypeOK, GiveUpInv, Return, Goto

\* The steps of a task that are not part of the suspended section.
LEMMA OpenStepsGiveUp ==
    ASSUME ConstantsAssumption, TypeOK, GiveUpInv, NEW t \in Tasks,
           \/ \E c \in AllCalls, n \in Waits : Call(t, c, n)
           \/ CheckFails(t) \/ SuspendAll(t) \/ YieldWithinAPI(t)
           \/ Recheck(t) \/ ReturnFromCall(t)
    PROVE  GiveUpInv'
<1>1. ASSUME NEW c \in AllCalls, NEW n \in Waits, Call(t, c, n) PROVE GiveUpInv'
  <2>1. c = "delay" => c # "overwrite" OBVIOUS
  <2> QED BY <1>1, <2>1 DEF Call, Goto, TypeOK, GiveUpInv
<1>2. CASE CheckFails(t)
  <2>1. CASE Return(t, "fail") BY <2>1, ReturnGiveUp
  <2>2. CASE Goto(t, "suspend") /\ UNCHANGED <<call, xTicksToWait, outcome>>
    BY <1>2, <2>2 DEF CheckFails, Unavailable, Goto, TypeOK, GiveUpInv
  <2> QED BY <1>2, <2>1, <2>2 DEF CheckFails
<1>3. CASE SuspendAll(t) BY <1>3 DEF SuspendAll, Goto, TypeOK, GiveUpInv
<1>4. CASE YieldWithinAPI(t)
  <2>1. AfterBlocking(t) = "return" => call[t] = "delay" BY DEF AfterBlocking
  <2>2. AfterBlocking(t) \in {"return", "check"} BY DEF AfterBlocking
  <2> QED BY <1>4, <2>1, <2>2 DEF YieldWithinAPI, Goto, TypeOK, GiveUpInv
<1>5. CASE Recheck(t)
  <2>1. CASE Return(t, "fail") BY <2>1, ReturnGiveUp
  <2>2. CASE Goto(t, "check") /\ UNCHANGED <<call, timing, xTicksToWait, outcome>>
    BY <2>2 DEF Goto, TypeOK, GiveUpInv
  <2> QED BY <1>5, <2>1, <2>2 DEF Recheck
<1>6. CASE ReturnFromCall(t) BY <1>6, ReturnGiveUp DEF ReturnFromCall
<1> QED BY <1>1, <1>2, <1>3, <1>4, <1>5, <1>6

\* The steps with the scheduler suspended: no other task is in that section.
LEMMA SuspendedStepsGiveUp ==
    ASSUME ConstantsAssumption, TypeOK, ExclusiveAccess, GiveUpInv, NEW t \in Tasks,
           \/ LockQueue(t) \/ CheckForTimeOut(t) \/ Retest(t) \/ Place(t)
           \/ UnlockTx(t) \/ UnlockRx(t)
    PROVE  GiveUpInv'
<1>1. \A u \in Tasks : pc[u] \in SuspendedPCs => u = t
  BY DEF LockQueue, CheckForTimeOut, Retest, Place, UnlockTx, UnlockRx, Running, ExclusiveAccess
<1>2. CASE LockQueue(t) BY <1>2 DEF LockQueue, Goto, TypeOK, GiveUpInv
<1>3. CASE CheckForTimeOut(t) BY <1>1, <1>3 DEF CheckForTimeOut, Goto, TypeOK, GiveUpInv
<1>4. CASE Retest(t) BY <1>1, <1>4 DEF Retest, Goto, TypeOK, GiveUpInv
<1>5. CASE Place(t) BY <1>1, <1>5 DEF Place, Goto, TypeOK, GiveUpInv
<1>6. CASE UnlockTx(t) BY <1>6 DEF UnlockTx, Goto, TypeOK, GiveUpInv
<1>7. CASE UnlockRx(t) BY <1>7 DEF UnlockRx, Goto, TypeOK, GiveUpInv
<1> QED BY <1>2, <1>3, <1>4, <1>5, <1>6, <1>7

\* Time that is up stays up.
LEMMA TicksLeftZero ==
    ASSUME NEW n \in Nat, NEW t \in Tasks, xTicksToWait[t] = 0
    PROVE  TicksLeft(n)[t] = 0
BY DEF TicksLeft

LEMMA ResumeAllGiveUp ==
    ASSUME ConstantsAssumption, TypeOK, CallInv, GiveUpInv, NEW t \in Tasks, ResumeAll(t)
    PROVE  GiveUpInv'
<1>1. PICK due : Goto(t, ResumedAt(t, due)) BY DEF ResumeAll
<1>2. \A u \in Tasks : xTicksToWait[u] = 0 => xTicksToWait'[u] = 0
  <2>1. uxPendedTicks \in Nat BY DEF TypeOK
  <2>2. xTicksToWait' = TicksLeft(uxPendedTicks) BY DEF ResumeAll, ElapseTicks
  <2> QED BY <2>1, <2>2, TicksLeftZero
<1>3. call' = call /\ outcome' = outcome /\ pc[t] = "resume" BY DEF ResumeAll
<1>4. \A u \in Tasks : pc'[u] = IF u = t THEN ResumedAt(t, due) ELSE pc[u]
  BY <1>1 DEF Goto, TypeOK
<1>c. call[t] \in AllCalls /\ call[t] # "overwrite" BY <1>3 DEF CallInv, GiveUpInv
<1>5. /\ ResumedAt(t, due) \in {"return", "check", "yield", "recheck"}
      /\ ResumedAt(t, due) = "return" =>
            call[t] = "delay" \/ (call[t] \in {"send", "sendfront"} /\ outcome = "giveup")
      /\ ResumedAt(t, due) = "recheck" => call[t] \in ReceiveCalls /\ outcome = "giveup"
  <2>1. CASE outcome = "block" BY <2>1 DEF ResumedAt, AfterBlocking
  <2>2. CASE outcome = "retry" BY <2>2 DEF ResumedAt
  <2>3. CASE outcome = "giveup"
    <3>1. call[t] \in {"send", "sendfront"} \union ReceiveCalls
      BY <1>c, <2>3 DEF ResumeAll, CallInv
    <3>2. CASE call[t] \in ReceiveCalls BY <2>3, <3>2 DEF ResumedAt
    <3>3. CASE call[t] \in {"send", "sendfront"}
      <4>1. call[t] \notin ReceiveCalls /\ call[t] \in SendCalls BY <3>3
      <4> QED BY <2>3, <3>3, <4>1 DEF ResumedAt
    <3> QED BY <3>1, <3>2, <3>3
  <2> QED BY <2>1, <2>2, <2>3 DEF TypeOK
<1> QED BY <1>2, <1>3, <1>4, <1>5, <1>c DEF GiveUpInv

LEMMA NextGiveUp ==
    ASSUME ConstantsAssumption, IInv, GiveUpInv, [Next]_vars PROVE GiveUpInv'
<1> USE DEF IInv
<1>1. ASSUME NEW t \in Tasks, TaskStep(t) PROVE GiveUpInv'
  <2>1. CASE SendPass(t) \/ ReceivePass(t) \/ PeekPass(t)
    <3>1. Return(t, "pass") BY <2>1 DEF SendPass, ReceivePass, PeekPass
    <3> QED BY <3>1, ReturnGiveUp
  <2> QED
    BY <1>1, <2>1, OpenStepsGiveUp, SuspendedStepsGiveUp, ResumeAllGiveUp DEF TaskStep
<1>2. CASE Tick
  <2>1. xTicksToWait' = TicksLeft(1) /\ UNCHANGED <<pc, call, outcome>> BY <1>2 DEF Tick, ElapseTicks
  <2>2. \A u \in Tasks : xTicksToWait[u] = 0 => xTicksToWait'[u] = 0 BY <2>1, TicksLeftZero
  <2> QED BY <2>1, <2>2 DEF GiveUpInv
<1>3. CASE UNCHANGED callVars BY <1>3 DEF GiveUpInv, callVars
<1>4. IsrSend \/ IsrReceive \/ KernelYield \/ TickPended \/ UNCHANGED vars => UNCHANGED callVars
  BY DEF IsrSend, IsrReceive, KernelYield, TickPended, vars
<1> QED BY <1>1, <1>2, <1>3, <1>4, OpenStepsGiveUp DEF Next
-----------------------------------------------------------------------------
(* KernelQueue implements BlockingQueue.                                   *)

\* The calls that wait for ever, as the refinement mapping has them.
Forever == [t \in Tasks |-> /\ call[t] \in SendCalls \union ReceiveCalls
                            /\ xTicksToWait[t] = portMAX_DELAY]

LEMMA InitRefines == ASSUME ConstantsAssumption, Init PROVE Abstract!Init
BY DEF Init, Abstract!Init, ConstantsAssumption

\* Steps inside a call, time included, are not seen by the abstract queue.
LEMMA StutterRefines ==
    ASSUME UNCHANGED <<items, call>>,
           \A u \in Tasks : call[u] # "delay" =>
               (xTicksToWait'[u] = portMAX_DELAY <=> xTicksToWait[u] = portMAX_DELAY)
    PROVE  UNCHANGED Abstract!vars
<1>1. \A u \in Tasks :
        (/\ call'[u] \in SendCalls \union ReceiveCalls
         /\ xTicksToWait'[u] = portMAX_DELAY)
        = (/\ call[u] \in SendCalls \union ReceiveCalls
           /\ xTicksToWait[u] = portMAX_DELAY)
  OBVIOUS
<1>2. Forever' = Forever BY <1>1 DEF Forever
<1> QED BY <1>2 DEF Abstract!vars, Forever

LEMMA TicksRefine ==
    ASSUME ConstantsAssumption, TypeOK, NEW n \in Nat, xTicksToWait' = TicksLeft(n),
           UNCHANGED <<items, call>>
    PROVE  UNCHANGED Abstract!vars
<1>1. ASSUME NEW u \in Tasks, call[u] # "delay"
      PROVE  xTicksToWait'[u] = portMAX_DELAY <=> xTicksToWait[u] = portMAX_DELAY
  <2>1. xTicksToWait[u] \in 0 .. portMAX_DELAY /\ portMAX_DELAY \in Nat \ {0}
    BY DEF TypeOK, ConstantsAssumption
  <2> QED BY <1>1, <2>1 DEF TicksLeft
<1> QED BY <1>1, StutterRefines

\* A call that returns is done.
LEMMA ReturnRefines ==
    ASSUME ConstantsAssumption, TypeOK, NEW t \in Tasks, NEW r \in {"pass", "fail"}, Return(t, r)
    PROVE  Abstract!Done(t, r)
<1>1. portMAX_DELAY # 0 BY DEF ConstantsAssumption
<1>2. Forever' = [Forever EXCEPT ![t] = FALSE]
  <2>1. Forever'[t] = FALSE BY <1>1 DEF Forever, Return, TypeOK
  <2>2. \A u \in Tasks \ {t} : Forever'[u] = Forever[u] BY DEF Forever, Return, TypeOK
  <2>3. Forever' = [u \in Tasks |-> Forever'[u]] BY DEF Forever
  <2>4. [Forever EXCEPT ![t] = FALSE] = [u \in Tasks |-> IF u = t THEN FALSE ELSE Forever[u]]
    BY DEF Forever
  <2> QED BY <2>1, <2>2, <2>3, <2>4
<1> QED BY <1>2 DEF Forever, Abstract!Done, Return

LEMMA CallRefines ==
    ASSUME ConstantsAssumption, TypeOK, TimeInv,
           NEW t \in Tasks, NEW c \in AllCalls, NEW n \in Waits, Call(t, c, n)
    PROVE  Abstract!Request(t)
<1>1. call[t] \in {"pass", "fail"} BY DEF Call, TimeInv
<1>2. Forever' = [Forever EXCEPT ![t] = Forever'[t]]
  <2>2. \A u \in Tasks \ {t} : Forever'[u] = Forever[u] BY DEF Forever, Call, TypeOK
  <2>3. Forever' = [u \in Tasks |-> Forever'[u]] BY DEF Forever
  <2>4. [Forever EXCEPT ![t] = Forever'[t]]
          = [u \in Tasks |-> IF u = t THEN Forever'[t] ELSE Forever[u]]
    BY DEF Forever
  <2> QED BY <2>2, <2>3, <2>4
<1>3. Forever'[t] \in BOOLEAN BY DEF Forever
<1>4. \E b \in BOOLEAN : Forever' = [Forever EXCEPT ![t] = b] BY <1>2, <1>3
<1>5. \E d \in {"send", "sendfront", "overwrite", "receive", "peek", "delay"} :
        call' = [call EXCEPT ![t] = d]
  BY DEF Call
<1>6. items' = items BY DEF Call, queueVars
<1> QED BY <1>1, <1>4, <1>5, <1>6 DEF Forever, Abstract!Request

LEMMA SendPassRefines ==
    ASSUME ConstantsAssumption, TypeOK, NEW t \in Tasks, SendPass(t)
    PROVE  Abstract!Put(t)
<1>1. Abstract!Done(t, "pass") BY ReturnRefines DEF SendPass
<1>2. Full \/ Len(items) < QLen BY DEF TypeOK, Full, ConstantsAssumption
<1>3. CASE call[t] = "send" BY <1>1, <1>2, <1>3 DEF SendPass, Abstract!Put
<1>4. CASE call[t] = "sendfront" BY <1>1, <1>2, <1>4 DEF SendPass, Abstract!Put
<1>5. CASE call[t] = "overwrite" BY <1>1, <1>5 DEF SendPass, Abstract!Put
<1> QED BY <1>3, <1>4, <1>5 DEF SendPass

LEMMA ReceivePassRefines ==
    ASSUME ConstantsAssumption, TypeOK, NEW t \in Tasks, ReceivePass(t) \/ PeekPass(t)
    PROVE  Abstract!Get(t)
<1>1. Abstract!Done(t, "pass") BY ReturnRefines DEF ReceivePass, PeekPass
<1> QED BY <1>1 DEF ReceivePass, PeekPass, Empty, Abstract!Get

\* A call fails when its time is up, and it does not wait for ever.
LEMMA FailRefines ==
    ASSUME ConstantsAssumption, TypeOK, NEW t \in Tasks, Return(t, "fail"),
           xTicksToWait[t] = 0, items' = items,
           call[t] \in {"send", "sendfront"} \/ (call[t] \in ReceiveCalls /\ Empty)
    PROVE  Abstract!GiveUp(t)
<1>1. Abstract!Done(t, "fail") BY ReturnRefines
<1>2. ~Forever[t] BY DEF Forever, ConstantsAssumption
<1> QED BY <1>1, <1>2 DEF Forever, Empty, Abstract!GiveUp

LEMMA TaskStepRefines ==
    ASSUME ConstantsAssumption, TypeOK, SchedInv, GiveUpInv, NEW t \in Tasks, TaskStep(t)
    PROVE  \/ Abstract!Put(t) \/ Abstract!Get(t) \/ Abstract!Sleep(t) \/ Abstract!GiveUp(t)
           \/ UNCHANGED Abstract!vars
<1>1. CASE SendPass(t) BY <1>1, SendPassRefines
<1>2. CASE ReceivePass(t) \/ PeekPass(t) BY <1>2, ReceivePassRefines
<1>3. CASE CheckFails(t)
  <2>1. CASE xTicksToWait[t] = 0 /\ ~timing[t]
    <3>1. Return(t, "fail") /\ items' = items BY <1>3, <2>1 DEF CheckFails, queueVars
    <3>2. call[t] \in {"send", "sendfront"} \/ (call[t] \in ReceiveCalls /\ Empty)
      BY <1>3 DEF CheckFails, Unavailable
    <3> QED BY <2>1, <3>1, <3>2, FailRefines
  <2>2. CASE ~(xTicksToWait[t] = 0 /\ ~timing[t])
    BY <1>3, <2>2, StutterRefines DEF CheckFails, queueVars
  <2> QED BY <2>1, <2>2
<1>4. CASE \/ SuspendAll(t) \/ LockQueue(t) \/ CheckForTimeOut(t) \/ Retest(t) \/ Place(t)
           \/ UnlockTx(t) \/ UnlockRx(t) \/ YieldWithinAPI(t)
  <2>1. UNCHANGED <<items, call, xTicksToWait>>
    BY <1>4 DEF SuspendAll, LockQueue, CheckForTimeOut, Retest, Place, UnlockTx, UnlockRx,
                YieldWithinAPI, queueVars
  <2> QED BY <2>1, StutterRefines
<1>5. CASE ResumeAll(t)
  <2>1. xTicksToWait' = TicksLeft(uxPendedTicks) /\ uxPendedTicks \in Nat
    BY <1>5 DEF ResumeAll, ElapseTicks, TypeOK
  <2> QED BY <1>5, <2>1, TicksRefine DEF ResumeAll
<1>6. CASE Recheck(t)
  <2>1. CASE Empty
    <3>1. Return(t, "fail") /\ items' = items BY <1>6, <2>1 DEF Recheck, queueVars
    <3>2. call[t] \in ReceiveCalls /\ xTicksToWait[t] = 0 BY <1>6 DEF Recheck, GiveUpInv
    <3> QED BY <2>1, <3>1, <3>2, FailRefines
  <2>2. CASE ~Empty BY <1>6, <2>2, StutterRefines DEF Recheck, queueVars
  <2> QED BY <2>1, <2>2
<1>7. CASE ReturnFromCall(t)
  <2>1. items' = items BY <1>7 DEF ReturnFromCall, queueVars
  <2>2. CASE call[t] = "delay"
    <3>1. Return(t, "pass") BY <1>7, <2>2 DEF ReturnFromCall
    <3> QED BY <2>1, <2>2, <3>1, ReturnRefines DEF Abstract!Sleep
  <2>3. CASE call[t] # "delay"
    <3>1. Return(t, "fail") BY <1>7, <2>3 DEF ReturnFromCall
    <3>2. call[t] \in {"send", "sendfront"} /\ xTicksToWait[t] = 0
      BY <1>7, <2>3 DEF ReturnFromCall, GiveUpInv
    <3> QED BY <2>1, <3>1, <3>2, FailRefines
  <2> QED BY <2>2, <2>3
<1> QED BY <1>1, <1>2, <1>3, <1>4, <1>5, <1>6, <1>7 DEF TaskStep

LEMMA IsrRefines ==
    ASSUME ConstantsAssumption, TypeOK, IsrSend \/ IsrReceive
    PROVE  Abstract!Handler
<1>1. UNCHANGED <<call, xTicksToWait>> BY DEF IsrSend, IsrReceive, callVars
<1>2. Forever' = Forever BY <1>1 DEF Forever
<1>3. \/ Len(items) < QLen /\ items' = Append(items, Isr)
      \/ items # << >> /\ items' = Tail(items)
  BY DEF IsrSend, IsrReceive, Full, Empty, TypeOK, ConstantsAssumption
<1> QED BY <1>1, <1>2, <1>3 DEF Forever, Abstract!Handler

LEMMA NextRefines ==
    ASSUME ConstantsAssumption, IInv, SchedInv, GiveUpInv, [Next]_vars
    PROVE  [Abstract!Next]_(Abstract!vars)
<1> USE DEF IInv
<1>1. ASSUME NEW t \in Tasks, NEW c \in AllCalls, NEW n \in Waits, Call(t, c, n)
      PROVE  Abstract!Next
  BY <1>1, CallRefines DEF SchedInv, Abstract!Next
<1>2. ASSUME NEW t \in Tasks, TaskStep(t) PROVE [Abstract!Next]_(Abstract!vars)
  BY <1>2, TaskStepRefines DEF Abstract!Next
<1>3. CASE IsrSend \/ IsrReceive BY <1>3, IsrRefines DEF Abstract!Next
<1>4. CASE Tick
  <2>1. xTicksToWait' = TicksLeft(1) /\ UNCHANGED <<items, call>> BY <1>4 DEF Tick, ElapseTicks
  <2> QED BY <2>1, TicksRefine
<1>5. CASE KernelYield \/ TickPended \/ UNCHANGED vars
  <2>1. UNCHANGED <<items, call, xTicksToWait>>
    BY <1>5 DEF KernelYield, TickPended, vars, queueVars, callVars
  <2> QED BY <2>1, StutterRefines
<1> QED BY <1>1, <1>2, <1>3, <1>4, <1>5 DEF Next

\* Every call on the queue, cut into critical sections that interrupts, other
\* tasks and time-outs interleave with, takes effect at one instant or fails
\* without an effect, and one that waits for ever never fails.
THEOREM Refinement == ASSUME ConstantsAssumption PROVE Spec => IsBlockingQueue
<1> DEFINE I == IInv /\ SchedInv /\ GiveUpInv
<1>1. Init => I BY InitIInv, InitSchedInv, InitGiveUp
<1>2. I /\ [Next]_vars => I' BY NextIInv, NextSchedInv, NextGiveUp
<1>3. Init => Abstract!Init BY InitRefines
<1>4. I /\ [Next]_vars => [Abstract!Next]_(Abstract!vars) BY NextRefines
<1> HIDE DEF I
<1> QED BY <1>1, <1>2, <1>3, <1>4, PTL DEF Spec, IsBlockingQueue, Abstract!Spec
-----------------------------------------------------------------------------
(* No wake-up is lost.                                                     *)

\* A task on an event list has placed itself there and is ending, or has
\* ended, the part of the call that blocks it.
WaitingInv ==
    \A t \in xTasksWaitingToSend \union xTasksWaitingToReceive :
        pc[t] \in {"check", "yield"} \/ Blocking(t)

\* What came between the last look at the queue and the blocking is counted
\* by the lock.
PlaceInv ==
    \A t \in Tasks : pc[t] = "place" =>
        /\ call[t] \in ReceiveCalls => Len(items) <= WhileLocked(cTxLock)
        /\ call[t] \in SendCalls => QLen - Len(items) <= WhileLocked(cRxLock)

WakeInv == WaitingInv /\ PlaceInv /\ NoLostWakeup

LEMMA InitWakeInv == ASSUME ConstantsAssumption, Init PROVE WakeInv
BY DEF Init, WakeInv, WaitingInv, PlaceInv, NoLostWakeup

\* All the quantities compared are natural numbers.
LEMMA ComingFinite ==
    ASSUME ConstantsAssumption
    PROVE  \A calls : /\ IsFiniteSet(Coming(calls)) /\ Cardinality(Coming(calls)) \in Nat
                      /\ IsFiniteSet(Coming(calls)') /\ Cardinality(Coming(calls)') \in Nat
<1> SUFFICES ASSUME NEW calls
             PROVE  /\ IsFiniteSet(Coming(calls)) /\ Cardinality(Coming(calls)) \in Nat
                    /\ IsFiniteSet(Coming(calls)') /\ Cardinality(Coming(calls)') \in Nat
  OBVIOUS
<1>1. Coming(calls) \in SUBSET Tasks /\ Coming(calls)' \in SUBSET Tasks BY DEF Coming
<1>2. IsFiniteSet(Tasks) BY DEF ConstantsAssumption
<1> QED BY <1>1, <1>2, FS_Subset, FS_CardinalityType

LEMMA QuantitiesType ==
    ASSUME ConstantsAssumption, TypeOK
    PROVE  /\ Len(items) \in Nat /\ QLen \in Nat /\ Len(items) <= QLen
           /\ WhileLocked(cTxLock) \in Nat /\ WhileLocked(cRxLock) \in Nat
BY DEF ConstantsAssumption, TypeOK, WhileLocked

\* With some task left on the list, as many are woken as there are wake-ups.
LEMMA HeadOfCardinality ==
    ASSUME NEW S, IsFiniteSet(S), NEW n \in Nat, NEW W \in HeadOf(S, n), S \ W # {}
    PROVE  IsFiniteSet(W) /\ Cardinality(W) = n
<1>1. W \in SUBSET S /\ Cardinality(W) = Minimum(n, Cardinality(S)) BY DEF HeadOf
<1>2. IsFiniteSet(W) /\ (Cardinality(S) = Cardinality(W) => S = W) BY <1>1, FS_Subset
<1>3. Cardinality(W) # Cardinality(S) BY <1>2
<1> QED BY <1>1, <1>2, <1>3 DEF Minimum

\* The woken join the tasks that are coming.
LEMMA Joined ==
    ASSUME NEW C, NEW D, IsFiniteSet(C), IsFiniteSet(D), NEW W, IsFiniteSet(W),
           C \union W \subseteq D, C \intersect W = {}
    PROVE  Cardinality(C) + Cardinality(W) <= Cardinality(D)
<1>1. Cardinality(C \union W) = Cardinality(C) + Cardinality(W)
  <2>1. Cardinality(C \union W) = Cardinality(C) + Cardinality(W) - Cardinality(C \intersect W)
    BY FS_Union
  <2>2. Cardinality(C \intersect W) = 0 BY FS_EmptySet
  <2>3. Cardinality(C) \in Nat /\ Cardinality(W) \in Nat BY FS_CardinalityType
  <2> QED BY <2>1, <2>2, <2>3
<1>2. C \union W \in SUBSET D OBVIOUS
<1> QED BY <1>1, <1>2, FS_Subset

\* ... and the task that is served is not one of them any more.
LEMMA ServedAndJoined ==
    ASSUME NEW C, NEW D, IsFiniteSet(C), IsFiniteSet(D), NEW W, IsFiniteSet(W), NEW t,
           (C \ {t}) \union W \subseteq D, C \intersect W = {}
    PROVE  Cardinality(C) + Cardinality(W) <= Cardinality(D) + 1
<1>1. /\ IsFiniteSet(C \ {t})
      /\ Cardinality(C) <= Cardinality(C \ {t}) + 1
  <2>1. /\ IsFiniteSet(C \ {t})
        /\ Cardinality(C \ {t}) = IF t \in C THEN Cardinality(C) - 1 ELSE Cardinality(C)
    BY FS_RemoveElement
  <2>2. Cardinality(C) \in Nat BY FS_CardinalityType
  <2> QED BY <2>1, <2>2
<1>2. (C \ {t}) \intersect W = {} OBVIOUS
<1>3. Cardinality(C \ {t}) + Cardinality(W) <= Cardinality(D) BY <1>1, <1>2, Joined
<1>4. /\ Cardinality(C \ {t}) \in Nat /\ Cardinality(C) \in Nat
      /\ Cardinality(W) \in Nat /\ Cardinality(D) \in Nat
  BY <1>1, FS_CardinalityType
<1> QED BY <1>1, <1>3, <1>4
-----------------------------------------------------------------------------
\* Who is coming but for t, whose step it is.
LEMMA OthersComing ==
    ASSUME NEW t, NEW calls,
           xTasksWaitingToSend' \union xTasksWaitingToReceive'
               \subseteq xTasksWaitingToSend \union xTasksWaitingToReceive \union {t},
           \A u \in Tasks : u # t => pc'[u] = pc[u] /\ call'[u] = call[u],
           \/ outcome' = outcome
           \/ \A u \in Tasks : pc[u] \in SuspendedPCs => u = t
    PROVE  Coming(calls) \ {t} \subseteq Coming(calls)'
BY DEF Coming

LEMMA KeepWaiting ==
    ASSUME WaitingInv, TypeOK,
           xTasksWaitingToSend' \union xTasksWaitingToReceive'
               \subseteq xTasksWaitingToSend \union xTasksWaitingToReceive,
           \A u \in xTasksWaitingToSend' \union xTasksWaitingToReceive' : pc'[u] = pc[u],
           \/ outcome' = outcome
           \/ \A u \in xTasksWaitingToSend' \union xTasksWaitingToReceive' :
                 pc[u] \notin {"unlockTx", "unlockRx", "resume"}
    PROVE  WaitingInv'
BY DEF WaitingInv, Blocking

\* A step that leaves the queue alone, and after which whoever was coming is.
LEMMA KeepWakeups ==
    ASSUME ConstantsAssumption, TypeOK, NoLostWakeup,
           items' = items,
           WhileLocked(cTxLock') = WhileLocked(cTxLock),
           WhileLocked(cRxLock') = WhileLocked(cRxLock),
           xTasksWaitingToReceive' \subseteq xTasksWaitingToReceive,
           xTasksWaitingToSend' \subseteq xTasksWaitingToSend,
           xTasksWaitingToReceive' # {} => Empty \/ Coming(ReceiveCalls) \subseteq Coming(ReceiveCalls)',
           xTasksWaitingToSend' # {} => Full \/ Coming(SendCalls) \subseteq Coming(SendCalls)'
    PROVE  NoLostWakeup'
<1>t. /\ Len(items) \in Nat /\ QLen \in Nat /\ Len(items) <= QLen
      /\ WhileLocked(cTxLock) \in Nat /\ WhileLocked(cRxLock) \in Nat
  BY QuantitiesType
<1>f. \A calls : /\ IsFiniteSet(Coming(calls)) /\ Cardinality(Coming(calls)) \in Nat
                 /\ IsFiniteSet(Coming(calls)') /\ Cardinality(Coming(calls)') \in Nat
  BY ComingFinite
<1>c. \A calls : Coming(calls) \subseteq Coming(calls)' =>
          Cardinality(Coming(calls)) <= Cardinality(Coming(calls)')
  BY <1>f, FS_Subset
<1>1. xTasksWaitingToReceive' # {} =>
        Len(items)' <= Cardinality(Coming(ReceiveCalls)') + WhileLocked(cTxLock)'
  <2>1. CASE Empty
    <3>1. Len(items) = 0 BY <2>1 DEF Empty
    <3> QED BY <3>1, <1>t, <1>f
  <2>2. CASE xTasksWaitingToReceive' # {} /\ Coming(ReceiveCalls) \subseteq Coming(ReceiveCalls)'
    <3>1. Cardinality(Coming(ReceiveCalls)) <= Cardinality(Coming(ReceiveCalls)') BY <2>2, <1>c
    <3>2. Len(items) <= Cardinality(Coming(ReceiveCalls)) + WhileLocked(cTxLock)
      BY <2>2 DEF NoLostWakeup
    <3>3. Cardinality(Coming(ReceiveCalls)) \in Nat /\ Cardinality(Coming(ReceiveCalls)') \in Nat
      BY <1>f
    <3> QED BY <3>1, <3>2, <3>3, <1>t
  <2> QED BY <2>1, <2>2
<1>2. xTasksWaitingToSend' # {} =>
        QLen - Len(items)' <= Cardinality(Coming(SendCalls)') + WhileLocked(cRxLock)'
  <2>1. CASE Full
    <3>1. QLen - Len(items) = 0 BY <2>1, <1>t DEF Full
    <3>2. Cardinality(Coming(SendCalls)') \in Nat BY <1>f
    <3> QED BY <3>1, <3>2, <1>t
  <2>2. CASE xTasksWaitingToSend' # {} /\ Coming(SendCalls) \subseteq Coming(SendCalls)'
    <3>1. Cardinality(Coming(SendCalls)) <= Cardinality(Coming(SendCalls)') BY <2>2, <1>c
    <3>2. QLen - Len(items) <= Cardinality(Coming(SendCalls)) + WhileLocked(cRxLock)
      BY <2>2 DEF NoLostWakeup
    <3>3. Cardinality(Coming(SendCalls)) \in Nat /\ Cardinality(Coming(SendCalls)') \in Nat
      BY <1>f
    <3> QED BY <3>1, <3>2, <3>3, <1>t
  <2> QED BY <2>1, <2>2
<1> QED BY <1>1, <1>2 DEF NoLostWakeup

LEMMA NoPlace == ASSUME \A u \in Tasks : pc'[u] = "place" => call'[u] = "delay" PROVE PlaceInv'
BY DEF PlaceInv

\* The steps of a ready task that touch neither the queue nor its event lists,
\* and before which the task was not coming.
LEMMA QuietStepsWake ==
    ASSUME ConstantsAssumption, IInv, SchedInv, WakeInv, NEW t \in Tasks,
           \/ \E c \in AllCalls, n \in Waits : Call(t, c, n)
           \/ SuspendAll(t) \/ LockQueue(t) \/ CheckForTimeOut(t) \/ Retest(t)
           \/ Recheck(t) \/ ReturnFromCall(t)
    PROVE  WakeInv'
<1> USE DEF IInv, SchedInv, WakeInv
<1>a. /\ Running(t) /\ pc[t] \in {"app", "suspend", "lock", "timeout", "retest", "recheck", "return"}
      /\ UNCHANGED <<items, xTasksWaitingToSend, xTasksWaitingToReceive>>
      /\ WhileLocked(cTxLock') = WhileLocked(cTxLock)
      /\ WhileLocked(cRxLock') = WhileLocked(cRxLock)
  BY DEF Call, SuspendAll, LockQueue, CheckForTimeOut, Retest, Recheck, ReturnFromCall, queueVars,
         WhileLocked, queueLOCKED_UNMODIFIED
<1>r. stateList[t] = "ready" /\ t = pxCurrentTCB BY <1>a, RunningReady DEF Running
<1>l. t \notin xTasksWaitingToSend \union xTasksWaitingToReceive BY <1>r DEF ListsConsistent
<1>u. \A u \in Tasks : u # t => pc'[u] = pc[u] /\ call'[u] = call[u]
  BY DEF Call, SuspendAll, LockQueue, CheckForTimeOut, Retest, Recheck, ReturnFromCall, Return,
         Goto, TypeOK
<1>o. \/ outcome' = outcome
      \/ \A u \in Tasks : pc[u] \in SuspendedPCs => u = t
  <2>1. CASE CheckForTimeOut(t) \/ Retest(t)
    BY <2>1, <1>r DEF CheckForTimeOut, Retest, ExclusiveAccess
  <2> QED
    BY <2>1 DEF Call, SuspendAll, LockQueue, Recheck, ReturnFromCall, Return
<1>c. \A calls : Coming(calls) \subseteq Coming(calls)'
  <2>1. \A calls : t \notin Coming(calls) BY <1>a DEF Coming
  <2>2. \A calls : Coming(calls) \ {t} \subseteq Coming(calls)' BY <1>a, <1>u, <1>o, OthersComing
  <2> QED BY <2>1, <2>2
<1>1. WaitingInv'
  BY <1>a, <1>l, <1>u, <1>o, KeepWaiting DEF TypeOK
<1>2. PlaceInv'
  <2>1. \A u \in Tasks : pc[u] = "place" => u = t /\ pc[t] = "place"
    <3>1. CASE pc[t] \in SuspendedPCs BY <3>1, <1>r DEF ExclusiveAccess
    <3>2. CASE pc[t] \notin SuspendedPCs BY <3>2, <1>r DEF ExclusiveAccess
    <3> QED BY <3>1, <3>2
  <2>2. \A u \in Tasks : pc'[u] = "place" => u = t BY <1>u, <2>1
  <2>3. CASE Retest(t)
    <3>1. Len(items) \in Nat /\ QLen \in Nat /\ WhileLocked(cTxLock) \in Nat /\ WhileLocked(cRxLock) \in Nat
      BY QuantitiesType
    <3>2. pc'[t] = "place" => Unavailable(t) BY <2>3 DEF Retest, Goto, TypeOK
    <3>3. call' = call BY <2>3 DEF Retest
    <3>4. ASSUME pc'[t] = "place", call[t] \in ReceiveCalls PROVE Len(items) <= WhileLocked(cTxLock)
      BY <3>1, <3>2, <3>4 DEF Unavailable, Empty
    <3>5. ASSUME pc'[t] = "place", call[t] \in SendCalls PROVE QLen - Len(items) <= WhileLocked(cRxLock)
      BY <3>1, <3>2, <3>5 DEF Unavailable, Full
    <3> QED BY <2>2, <3>3, <3>4, <3>5, <1>a DEF PlaceInv
  <2>4. CASE ~Retest(t)
    <3>1. pc'[t] = "place" => call'[t] = "delay"
      BY <2>4 DEF Call, SuspendAll, LockQueue, CheckForTimeOut, Recheck, ReturnFromCall, Return, Goto, TypeOK
    <3> QED BY <2>2, <3>1, NoPlace
  <2> QED BY <2>3, <2>4
<1>3. NoLostWakeup' BY <1>a, <1>c, KeepWakeups
<1> QED BY <1>1, <1>2, <1>3

\* A call that finds nothing leaves, or goes on to block: with the queue empty
\* (full) there is no item (place) it would have to take.
LEMMA CheckFailsWake ==
    ASSUME ConstantsAssumption, IInv, SchedInv, WakeInv, NEW t \in Tasks, CheckFails(t)
    PROVE  WakeInv'
<1> USE DEF IInv, SchedInv, WakeInv
<1>a. /\ Running(t) /\ pc[t] = "check" /\ Unavailable(t) /\ outcome' = outcome
      /\ UNCHANGED <<items, cTxLock, cRxLock, xTasksWaitingToSend, xTasksWaitingToReceive>>
  BY DEF CheckFails, Return, queueVars
<1>r. stateList[t] = "ready" /\ t = pxCurrentTCB BY <1>a, RunningReady DEF Running
<1>l. t \notin xTasksWaitingToSend \union xTasksWaitingToReceive BY <1>r DEF ListsConsistent
<1>u. /\ \A u \in Tasks : u # t => pc'[u] = pc[u] /\ call'[u] = call[u]
      /\ pc'[t] # "place"
  BY DEF CheckFails, Return, Goto, TypeOK
<1>c. \A calls : Coming(calls) \ {t} \subseteq Coming(calls)' BY <1>a, <1>u, OthersComing
<1>1. WaitingInv' BY <1>a, <1>l, <1>u, KeepWaiting DEF TypeOK
<1>2. PlaceInv'
  <2>1. \A u \in Tasks : pc[u] # "place" BY <1>a, <1>r DEF ExclusiveAccess
  <2> QED BY <2>1, <1>u, NoPlace
<1>3. NoLostWakeup'
  <2>1. Empty \/ Coming(ReceiveCalls) \subseteq Coming(ReceiveCalls)'
    <3>1. call[t] \notin ReceiveCalls => t \notin Coming(ReceiveCalls) BY DEF Coming
    <3>2. call[t] \in ReceiveCalls => Empty BY <1>a DEF Unavailable
    <3> QED BY <3>1, <3>2, <1>c
  <2>2. Full \/ Coming(SendCalls) \subseteq Coming(SendCalls)'
    <3>1. call[t] \notin SendCalls => t \notin Coming(SendCalls) BY DEF Coming
    <3>2. call[t] \in SendCalls => Full BY <1>a DEF Unavailable
    <3> QED BY <3>1, <3>2, <1>c
  <2> QED BY <1>a, <2>1, <2>2, KeepWakeups
<1> QED BY <1>1, <1>2, <1>3

LEMMA YieldWithinAPIWake ==
    ASSUME ConstantsAssumption, IInv, SchedInv, WakeInv, NEW t \in Tasks, YieldWithinAPI(t)
    PROVE  WakeInv'
<1> USE DEF IInv, SchedInv, WakeInv
<1>a. /\ Running(t) /\ pc[t] = "yield"
      /\ UNCHANGED <<queueVars, call, outcome>>
      /\ \A u \in Tasks : pc'[u] = IF u = t THEN AfterBlocking(t) ELSE pc[u]
  BY DEF YieldWithinAPI, Goto, TypeOK
<1>b. call[t] \in SendCalls \union ReceiveCalls => AfterBlocking(t) = "check" BY DEF AfterBlocking
<1>p. AfterBlocking(t) # "place" BY DEF AfterBlocking
<1>1. WaitingInv'
  BY <1>a, <1>b DEF WaitingInv, Blocking, ListsConsistent, TypeOK, queueVars
<1>2. PlaceInv' BY <1>a, <1>p DEF PlaceInv, queueVars
<1>c. /\ Coming(ReceiveCalls) \subseteq Coming(ReceiveCalls)'
      /\ Coming(SendCalls) \subseteq Coming(SendCalls)'
  BY <1>a, <1>b DEF Coming, queueVars
<1>3. NoLostWakeup' BY <1>a, <1>c, KeepWakeups DEF queueVars
<1> QED BY <1>1, <1>2, <1>3

\* A task whose time is up is taken off its event list, and is coming.
LEMMA ResumeAllWake ==
    ASSUME ConstantsAssumption, IInv, SchedInv, WakeInv, NEW t \in Tasks, ResumeAll(t)
    PROVE  WakeInv'
<1> USE DEF IInv, SchedInv, WakeInv
<1> PICK due : Goto(t, ResumedAt(t, due)) BY DEF ResumeAll
<1>a. /\ Running(t) /\ pc[t] = "resume"
      /\ UNCHANGED <<items, cTxLock, cRxLock, call, outcome>>
      /\ xTasksWaitingToSend' \subseteq xTasksWaitingToSend
      /\ xTasksWaitingToReceive' \subseteq xTasksWaitingToReceive
      /\ \A u \in Tasks : pc'[u] = IF u = t THEN ResumedAt(t, due) ELSE pc[u]
  BY DEF ResumeAll, ElapseTicks, Goto, TypeOK
<1>b. outcome = "block" /\ call[t] # "delay" => ResumedAt(t, due) \in {"check", "yield"}
  BY DEF ResumedAt, AfterBlocking
<1>p. ResumedAt(t, due) # "place"
  <2>1. CASE outcome = "block" BY <2>1 DEF ResumedAt, AfterBlocking
  <2>2. CASE outcome = "retry" BY <2>2 DEF ResumedAt
  <2>3. CASE outcome = "giveup"
    <3>1. call[t] \in SendCalls \union ReceiveCalls BY <2>3, <1>a DEF CallInv, TypeOK
    <3>2. CASE call[t] \in ReceiveCalls BY <2>3, <3>2 DEF ResumedAt
    <3>3. CASE call[t] \in SendCalls /\ call[t] \notin ReceiveCalls BY <2>3, <3>3 DEF ResumedAt
    <3> QED BY <3>1, <3>2, <3>3
  <2> QED BY <2>1, <2>2, <2>3 DEF TypeOK
<1>s. \A u \in Tasks : pc[u] \in SuspendedPCs => u = t
  BY <1>a DEF Running, ExclusiveAccess
<1>1. WaitingInv'
  <2> SUFFICES ASSUME NEW u \in xTasksWaitingToSend' \union xTasksWaitingToReceive'
               PROVE  pc'[u] \in {"check", "yield"} \/ Blocking(u)'
    BY DEF WaitingInv
  <2>1. u \in Tasks /\ u \in xTasksWaitingToSend \union xTasksWaitingToReceive
    BY <1>a DEF TypeOK
  <2>2. pc[u] \in {"check", "yield"} \/ Blocking(u) BY <2>1 DEF WaitingInv
  <2>3. call[u] # "delay" BY <2>1 DEF ListsConsistent
  <2>4. CASE u = t
    <3>1. outcome = "block" BY <1>a, <2>2, <2>4 DEF Blocking
    <3> QED BY <1>a, <1>b, <2>1, <2>3, <2>4, <3>1
  <2>5. CASE u # t
    <3>1. pc'[u] = pc[u] /\ outcome' = outcome BY <1>a, <2>1, <2>5
    <3> QED BY <2>2, <3>1 DEF Blocking
  <2> QED BY <2>4, <2>5
<1>2. PlaceInv' BY <1>a, <1>p DEF PlaceInv
<1>c. /\ Coming(ReceiveCalls) \subseteq Coming(ReceiveCalls)'
      /\ Coming(SendCalls) \subseteq Coming(SendCalls)'
  BY <1>a, <1>b DEF Coming
<1>3. NoLostWakeup' BY <1>a, <1>c, KeepWakeups
<1> QED BY <1>1, <1>2, <1>3

\* The task that blocks joins the list: what came since its last look at the
\* queue is owed by the lock count.
LEMMA PlaceWake ==
    ASSUME ConstantsAssumption, IInv, SchedInv, WakeInv, NEW t \in Tasks, Place(t)
    PROVE  WakeInv'
<1> USE DEF IInv, SchedInv, WakeInv
<1>a. /\ Running(t) /\ pc[t] = "place" /\ t = pxCurrentTCB
      /\ UNCHANGED <<items, cTxLock, cRxLock, call>>
      /\ \A u \in Tasks : u # t => pc'[u] = pc[u]
      /\ pc'[t] = (IF call[t] = "delay" THEN "resume" ELSE "unlockTx")
      /\ outcome' = "block"
  BY DEF Place, Goto, TypeOK, Running
<1>s. \A u \in Tasks : pc[u] \in SuspendedPCs => u = t
  BY <1>a DEF ExclusiveAccess
<1>w. /\ xTasksWaitingToSend' = xTasksWaitingToSend \union (IF call[t] \in SendCalls THEN {t} ELSE {})
      /\ xTasksWaitingToReceive' = xTasksWaitingToReceive \union (IF call[t] \in ReceiveCalls THEN {t} ELSE {})
  BY DEF Place
<1>1. WaitingInv'
  BY <1>a, <1>s, <1>w DEF WaitingInv, Blocking, TypeOK
<1>2. PlaceInv' BY <1>a, <1>s DEF PlaceInv
<1>c. \A calls : Coming(calls) \subseteq Coming(calls)'
  <2>1. \A calls : t \notin Coming(calls) BY <1>a DEF Coming
  <2>2. xTasksWaitingToSend' \union xTasksWaitingToReceive'
               \subseteq xTasksWaitingToSend \union xTasksWaitingToReceive \union {t}
    BY <1>w
  <2>3. \A calls : Coming(calls) \ {t} \subseteq Coming(calls)'
    BY <1>a, <1>s, <2>2, OthersComing
  <2> QED BY <2>1, <2>3
<1>t. /\ Len(items) \in Nat /\ QLen \in Nat
      /\ WhileLocked(cTxLock) \in Nat /\ WhileLocked(cRxLock) \in Nat
  BY QuantitiesType
<1>f. \A calls : /\ IsFiniteSet(Coming(calls)) /\ Cardinality(Coming(calls)) \in Nat
                 /\ IsFiniteSet(Coming(calls)') /\ Cardinality(Coming(calls)') \in Nat
  BY ComingFinite
<1>d. \A calls : Cardinality(Coming(calls)) <= Cardinality(Coming(calls)')
  BY <1>f, <1>c, FS_Subset
<1>n. /\ Cardinality(Coming(ReceiveCalls)) \in Nat /\ Cardinality(Coming(ReceiveCalls)') \in Nat
      /\ Cardinality(Coming(SendCalls)) \in Nat /\ Cardinality(Coming(SendCalls)') \in Nat
      /\ Cardinality(Coming(ReceiveCalls)) <= Cardinality(Coming(ReceiveCalls)')
      /\ Cardinality(Coming(SendCalls)) <= Cardinality(Coming(SendCalls)')
  BY <1>f, <1>d
<1>3. ASSUME xTasksWaitingToReceive' # {}
      PROVE  Len(items) <= Cardinality(Coming(ReceiveCalls)') + WhileLocked(cTxLock)
  <2>1. CASE call[t] \in ReceiveCalls
    <3>1. Len(items) <= WhileLocked(cTxLock) BY <1>a, <2>1 DEF PlaceInv
    <3> QED BY <3>1, <1>t, <1>n
  <2>2. CASE call[t] \notin ReceiveCalls
    <3>1. Len(items) <= Cardinality(Coming(ReceiveCalls)) + WhileLocked(cTxLock)
      BY <1>3, <1>w, <2>2 DEF NoLostWakeup
    <3> QED BY <3>1, <1>t, <1>n
  <2> QED BY <2>1, <2>2
<1>4. ASSUME xTasksWaitingToSend' # {}
      PROVE  QLen - Len(items) <= Cardinality(Coming(SendCalls)') + WhileLocked(cRxLock)
  <2>1. CASE call[t] \in SendCalls
    <3>1. QLen - Len(items) <= WhileLocked(cRxLock) BY <1>a, <2>1 DEF PlaceInv
    <3> QED BY <3>1, <1>t, <1>n
  <2>2. CASE call[t] \notin SendCalls
    <3>1. QLen - Len(items) <= Cardinality(Coming(SendCalls)) + WhileLocked(cRxLock)
      BY <1>4, <1>w, <2>2 DEF NoLostWakeup
    <3> QED BY <3>1, <1>t, <1>n
  <2> QED BY <2>1, <2>2
<1>5. NoLostWakeup' BY <1>a, <1>3, <1>4 DEF NoLostWakeup
<1> QED BY <1>1, <1>2, <1>5

\* Switches and ticks.
LEMMA TimeStepsWake ==
    ASSUME ConstantsAssumption, IInv, SchedInv, WakeInv,
           KernelYield \/ Tick \/ TickPended \/ UNCHANGED vars
    PROVE  WakeInv'
<1> USE DEF IInv, SchedInv, WakeInv
<1>a. /\ UNCHANGED <<items, cTxLock, cRxLock, pc, call, outcome>>
      /\ xTasksWaitingToSend' \subseteq xTasksWaitingToSend
      /\ xTasksWaitingToReceive' \subseteq xTasksWaitingToReceive
  BY DEF KernelYield, Tick, TickPended, ElapseTicks, vars, queueVars, callVars
<1>1. WaitingInv' BY <1>a DEF WaitingInv, Blocking
<1>2. PlaceInv' BY <1>a DEF PlaceInv
<1>c. \A calls : Coming(calls) \subseteq Coming(calls)' BY <1>a DEF Coming
<1>3. NoLostWakeup' BY <1>a, <1>c, KeepWakeups
<1> QED BY <1>1, <1>2, <1>3
-----------------------------------------------------------------------------
(* The steps that put and take items.  In the lemmas below, C are the tasks *)
(* that were coming and D those that are.                                  *)

LEMMA WokenEnough ==
    ASSUME NEW S, IsFiniteSet(S), NEW n \in Nat, NEW W \in HeadOf(S, n), S \ W # {},
           NEW C, NEW D, IsFiniteSet(C), IsFiniteSet(D), C \union W \subseteq D, C \intersect W = {}
    PROVE  Cardinality(C) + n <= Cardinality(D)
<1>1. IsFiniteSet(W) /\ Cardinality(W) = n BY HeadOfCardinality
<1> QED BY <1>1, Joined

\* Of q places, l were taken and l2 are now; one of the c tasks coming is gone.
LEMMA FewerFree ==
    ASSUME NEW q \in Nat, NEW l \in Nat, NEW l2 \in Nat, NEW c \in Nat, NEW c2 \in Nat, NEW w \in Nat,
           q - l <= c + w, c <= c2 + 1, l2 = l + 1 \/ l2 = q
    PROVE  q - l2 <= c2 + w
OBVIOUS

LEMMA ServedEnough ==
    ASSUME NEW C, NEW D, IsFiniteSet(C), IsFiniteSet(D), NEW t, C \ {t} \subseteq D
    PROVE  Cardinality(C) <= Cardinality(D) + 1
<1>1. IsFiniteSet({}) /\ Cardinality({}) = 0 BY FS_EmptySet
<1>2. (C \ {t}) \union {} \subseteq D /\ C \intersect {} = {} OBVIOUS
<1>3. Cardinality(C) + Cardinality({}) <= Cardinality(D) + 1 BY <1>1, <1>2, ServedAndJoined
<1>4. Cardinality(C) \in Nat /\ Cardinality(D) \in Nat BY FS_CardinalityType
<1> QED BY <1>1, <1>3, <1>4

LEMMA ServedAndWokenEnough ==
    ASSUME NEW S, IsFiniteSet(S), NEW W \in HeadOf(S, 1), S \ W # {}, NEW t,
           NEW C, NEW D, IsFiniteSet(C), IsFiniteSet(D), (C \ {t}) \union W \subseteq D, C \intersect W = {}
    PROVE  Cardinality(C) <= Cardinality(D)
<1>1. IsFiniteSet(W) /\ Cardinality(W) = 1 BY HeadOfCardinality
<1>2. Cardinality(C) + Cardinality(W) <= Cardinality(D) + 1 BY <1>1, ServedAndJoined
<1>3. Cardinality(C) \in Nat /\ Cardinality(D) \in Nat BY FS_CardinalityType
<1> QED BY <1>1, <1>2, <1>3

\* Tasks taken off their event list are coming, and were not.
LEMMA Woken ==
    ASSUME TypeOK, WaitingInv, NEW calls, outcome' = outcome,
           NEW W \in SUBSET (xTasksWaitingToSend \union xTasksWaitingToReceive),
           \A u \in W :
               /\ call[u] \in calls /\ call'[u] = call[u]
               /\ u \notin xTasksWaitingToSend' \union xTasksWaitingToReceive'
               /\ \/ pc'[u] = pc[u]
                  \/ pc[u] \in {"unlockTx", "unlockRx"} /\ pc'[u] \in {"unlockRx", "resume"}
    PROVE  W \subseteq Coming(calls)' /\ Coming(calls) \intersect W = {}
BY DEF TypeOK, WaitingInv, Blocking, Coming

\* The calls in progress are calls the application makes.
CallsMade == \A t \in Tasks : call[t] \in Calls[t] \union {"pass", "fail"}

LEMMA NextCallsMade ==
    ASSUME TypeOK, CallsMade, [Next]_vars PROVE CallsMade'
<1>1. ASSUME NEW t \in Tasks, NEW r \in {"pass", "fail"}, Return(t, r) PROVE CallsMade'
  BY <1>1 DEF TypeOK, CallsMade, Return
<1>2. ASSUME NEW t \in Tasks, NEW c \in AllCalls, NEW n \in Waits, Call(t, c, n) PROVE CallsMade'
  BY <1>2 DEF TypeOK, CallsMade, Call
<1>3. ASSUME NEW t \in Tasks, TaskStep(t), call' # call
      PROVE  \E r \in {"pass", "fail"} : Return(t, r)
  BY <1>3 DEF TaskStep, SendPass, ReceivePass, PeekPass, CheckFails, SuspendAll, LockQueue,
              CheckForTimeOut, Retest, Place, UnlockTx, UnlockRx, ResumeAll, YieldWithinAPI,
              Recheck, ReturnFromCall
<1>4. IsrSend \/ IsrReceive \/ KernelYield \/ Tick \/ TickPended \/ UNCHANGED vars => call' = call
  BY DEF IsrSend, IsrReceive, KernelYield, Tick, TickPended, vars, callVars
<1>5. call' = call => CallsMade' BY DEF CallsMade
<1> QED BY <1>1, <1>2, <1>3, <1>4, <1>5 DEF Next

ServiceInv == WakeInv /\ CallsMade

\* What the proofs of the next lemmas need of the types.
LEMMA Quantities ==
    ASSUME ConstantsAssumption, TypeOK
    PROVE  /\ IsFiniteSet(Coming(SendCalls)) /\ IsFiniteSet(Coming(SendCalls)')
           /\ IsFiniteSet(Coming(ReceiveCalls)) /\ IsFiniteSet(Coming(ReceiveCalls)')
           /\ Cardinality(Coming(SendCalls)) \in Nat /\ Cardinality(Coming(SendCalls)') \in Nat
           /\ Cardinality(Coming(ReceiveCalls)) \in Nat /\ Cardinality(Coming(ReceiveCalls)') \in Nat
           /\ IsFiniteSet(xTasksWaitingToSend) /\ IsFiniteSet(xTasksWaitingToReceive)
           /\ Len(items) \in Nat /\ QLen \in Nat /\ Len(items) <= QLen
           /\ WhileLocked(cTxLock) \in Nat /\ WhileLocked(cRxLock) \in Nat
<1>1. IsFiniteSet(xTasksWaitingToSend) /\ IsFiniteSet(xTasksWaitingToReceive)
  BY FS_Subset DEF TypeOK, ConstantsAssumption
<1> QED BY <1>1, ComingFinite, QuantitiesType

LEMMA SendPassWake ==
    ASSUME ConstantsAssumption, IInv, SchedInv, ServiceInv, NEW t \in Tasks, SendPass(t)
    PROVE  WakeInv'
<1> USE DEF IInv, SchedInv, WakeInv, ServiceInv
<1> PICK W \in HeadOf(xTasksWaitingToReceive, 1) :
          xTasksWaitingToReceive' = xTasksWaitingToReceive \ W
  BY DEF SendPass
<1>w. W \in SUBSET xTasksWaitingToReceive BY HeadOfSubset
<1>a. /\ Running(t) /\ pc[t] = "check" /\ call[t] \in SendCalls /\ pc'[t] = "app"
      /\ UNCHANGED <<cTxLock, cRxLock, xTasksWaitingToSend, outcome>>
      /\ \A u \in Tasks : u # t => pc'[u] = pc[u] /\ call'[u] = call[u]
  BY DEF SendPass, Return, Goto, TypeOK
<1>r. stateList[t] = "ready" /\ t = pxCurrentTCB BY <1>a, RunningReady DEF Running
<1>l. t \notin xTasksWaitingToSend \union xTasksWaitingToReceive BY <1>r DEF ListsConsistent
<1>o. \A calls : Coming(calls) \ {t} \subseteq Coming(calls)' BY <1>a, OthersComing
<1>c. W \subseteq Coming(ReceiveCalls)' /\ Coming(ReceiveCalls) \intersect W = {}
  <2>1. \A u \in W : /\ call[u] \in ReceiveCalls /\ call'[u] = call[u]
                    /\ u \notin xTasksWaitingToSend' \union xTasksWaitingToReceive'
                    /\ pc'[u] = pc[u]
    BY <1>w, <1>a, <1>l DEF ListsConsistent, TypeOK
  <2> QED BY <2>1, <1>w, <1>a, Woken
<1>n. t \notin Coming(ReceiveCalls) BY <1>a DEF Coming
<1>q. /\ IsFiniteSet(Coming(SendCalls)) /\ IsFiniteSet(Coming(SendCalls)')
      /\ IsFiniteSet(Coming(ReceiveCalls)) /\ IsFiniteSet(Coming(ReceiveCalls)')
      /\ Cardinality(Coming(SendCalls)) \in Nat /\ Cardinality(Coming(SendCalls)') \in Nat
      /\ Cardinality(Coming(ReceiveCalls)) \in Nat /\ Cardinality(Coming(ReceiveCalls)') \in Nat
      /\ IsFiniteSet(xTasksWaitingToSend) /\ IsFiniteSet(xTasksWaitingToReceive)
      /\ Len(items) \in Nat /\ QLen \in Nat /\ Len(items) <= QLen
      /\ WhileLocked(cTxLock) \in Nat /\ WhileLocked(cRxLock) \in Nat
  BY Quantities
<1>i. /\ Len(items') \in Nat /\ Len(items') <= Len(items) + 1
      /\ Len(items') = Len(items) + 1 \/ Len(items') = QLen
  <2>1. CASE call[t] = "send" BY <2>1 DEF SendPass, TypeOK
  <2>2. CASE call[t] = "sendfront" BY <2>2 DEF SendPass, TypeOK
  <2>3. CASE call[t] = "overwrite"
    <3>1. "overwrite" \in Calls[t] BY <2>3 DEF CallsMade
    <3>2. QLen = 1 BY <3>1 DEF ConstantsAssumption
    <3>3. items' = <<t>> BY <2>3 DEF SendPass
    <3> QED BY <3>2, <3>3
  <2> QED BY <2>1, <2>2, <2>3, <1>a
<1>1. WaitingInv' BY <1>w, <1>a, <1>l, KeepWaiting DEF TypeOK
<1>2. PlaceInv'
  <2>1. \A u \in Tasks : pc[u] # "place" BY <1>a, <1>r DEF ExclusiveAccess
  <2> QED BY <2>1, <1>a, NoPlace
<1>3. ASSUME xTasksWaitingToReceive' # {}
      PROVE  Len(items') <= Cardinality(Coming(ReceiveCalls)') + WhileLocked(cTxLock)
  <2>1. Len(items) <= Cardinality(Coming(ReceiveCalls)) + WhileLocked(cTxLock)
    BY <1>3, <1>w DEF NoLostWakeup
  <2>2. Coming(ReceiveCalls) \union W \subseteq Coming(ReceiveCalls)' BY <1>o, <1>c, <1>n
  <2>3. Cardinality(Coming(ReceiveCalls)) + 1 <= Cardinality(Coming(ReceiveCalls)')
    BY <2>2, <1>3, <1>c, <1>q, WokenEnough
  <2> QED BY <2>1, <2>3, <1>q, <1>i
<1>4. ASSUME xTasksWaitingToSend' # {}
      PROVE  QLen - Len(items') <= Cardinality(Coming(SendCalls)') + WhileLocked(cRxLock)
  <2>1. QLen - Len(items) <= Cardinality(Coming(SendCalls)) + WhileLocked(cRxLock)
    BY <1>4, <1>a DEF NoLostWakeup
  <2>2. Coming(SendCalls) \ {t} \subseteq Coming(SendCalls)' BY <1>o
  <2>3. Cardinality(Coming(SendCalls)) <= Cardinality(Coming(SendCalls)') + 1
    BY <2>2, <1>q, ServedEnough
  <2> QED BY <2>1, <2>3, <1>q, <1>i, FewerFree
<1>5. NoLostWakeup' BY <1>3, <1>4, <1>a DEF NoLostWakeup
<1> QED BY <1>1, <1>2, <1>5

LEMMA ReceivePassWake ==
    ASSUME ConstantsAssumption, IInv, SchedInv, ServiceInv, NEW t \in Tasks, ReceivePass(t)
    PROVE  WakeInv'
<1> USE DEF IInv, SchedInv, WakeInv, ServiceInv
<1> PICK W \in HeadOf(xTasksWaitingToSend, 1) :
          xTasksWaitingToSend' = xTasksWaitingToSend \ W
  BY DEF ReceivePass
<1>w. W \in SUBSET xTasksWaitingToSend BY HeadOfSubset
<1>a. /\ Running(t) /\ pc[t] = "check" /\ call[t] \in ReceiveCalls /\ pc'[t] = "app"
      /\ UNCHANGED <<cTxLock, cRxLock, xTasksWaitingToReceive, outcome>>
      /\ \A u \in Tasks : u # t => pc'[u] = pc[u] /\ call'[u] = call[u]
  BY DEF ReceivePass, Return, Goto, TypeOK
<1>r. stateList[t] = "ready" /\ t = pxCurrentTCB BY <1>a, RunningReady DEF Running
<1>l. t \notin xTasksWaitingToSend \union xTasksWaitingToReceive BY <1>r DEF ListsConsistent
<1>o. \A calls : Coming(calls) \ {t} \subseteq Coming(calls)' BY <1>a, OthersComing
<1>c. W \subseteq Coming(SendCalls)' /\ Coming(SendCalls) \intersect W = {}
  <2>1. \A u \in W : /\ call[u] \in SendCalls /\ call'[u] = call[u]
                    /\ u \notin xTasksWaitingToSend' \union xTasksWaitingToReceive'
                    /\ pc'[u] = pc[u]
    BY <1>w, <1>a, <1>l DEF ListsConsistent, TypeOK
  <2> QED BY <2>1, <1>w, <1>a, Woken
<1>n. t \notin Coming(SendCalls) BY <1>a DEF Coming
<1>q. /\ IsFiniteSet(Coming(SendCalls)) /\ IsFiniteSet(Coming(SendCalls)')
      /\ IsFiniteSet(Coming(ReceiveCalls)) /\ IsFiniteSet(Coming(ReceiveCalls)')
      /\ Cardinality(Coming(SendCalls)) \in Nat /\ Cardinality(Coming(SendCalls)') \in Nat
      /\ Cardinality(Coming(ReceiveCalls)) \in Nat /\ Cardinality(Coming(ReceiveCalls)') \in Nat
      /\ IsFiniteSet(xTasksWaitingToSend) /\ IsFiniteSet(xTasksWaitingToReceive)
      /\ Len(items) \in Nat /\ QLen \in Nat /\ Len(items) <= QLen
      /\ WhileLocked(cTxLock) \in Nat /\ WhileLocked(cRxLock) \in Nat
  BY Quantities
<1>i. Len(items') \in Nat /\ Len(items') = Len(items) - 1
  BY DEF ReceivePass, Empty, TypeOK
<1>1. WaitingInv' BY <1>w, <1>a, <1>l, KeepWaiting DEF TypeOK
<1>2. PlaceInv'
  <2>1. \A u \in Tasks : pc[u] # "place" BY <1>a, <1>r DEF ExclusiveAccess
  <2> QED BY <2>1, <1>a, NoPlace
<1>3. ASSUME xTasksWaitingToReceive' # {}
      PROVE  Len(items') <= Cardinality(Coming(ReceiveCalls)') + WhileLocked(cTxLock)
  <2>1. Len(items) <= Cardinality(Coming(ReceiveCalls)) + WhileLocked(cTxLock)
    BY <1>3, <1>a DEF NoLostWakeup
  <2>2. Coming(ReceiveCalls) \ {t} \subseteq Coming(ReceiveCalls)' BY <1>o
  <2>3. Cardinality(Coming(ReceiveCalls)) <= Cardinality(Coming(ReceiveCalls)') + 1
    BY <2>2, <1>q, ServedEnough
  <2> QED BY <2>1, <2>3, <1>q, <1>i
<1>4. ASSUME xTasksWaitingToSend' # {}
      PROVE  QLen - Len(items') <= Cardinality(Coming(SendCalls)') + WhileLocked(cRxLock)
  <2>1. QLen - Len(items) <= Cardinality(Coming(SendCalls)) + WhileLocked(cRxLock)
    BY <1>4, <1>w DEF NoLostWakeup
  <2>2. Coming(SendCalls) \union W \subseteq Coming(SendCalls)' BY <1>o, <1>c, <1>n
  <2>3. Cardinality(Coming(SendCalls)) + 1 <= Cardinality(Coming(SendCalls)')
    BY <2>2, <1>4, <1>c, <1>q, WokenEnough
  <2> QED BY <2>1, <2>3, <1>q, <1>i
<1>5. NoLostWakeup' BY <1>3, <1>4, <1>a DEF NoLostWakeup
<1> QED BY <1>1, <1>2, <1>5

\* The item that is peeked at stays, and is left to the next that waits.
LEMMA PeekPassWake ==
    ASSUME ConstantsAssumption, IInv, SchedInv, ServiceInv, NEW t \in Tasks, PeekPass(t)
    PROVE  WakeInv'
<1> USE DEF IInv, SchedInv, WakeInv, ServiceInv
<1> PICK W \in HeadOf(xTasksWaitingToReceive, 1) :
          xTasksWaitingToReceive' = xTasksWaitingToReceive \ W
  BY DEF PeekPass
<1>w. W \in SUBSET xTasksWaitingToReceive BY HeadOfSubset
<1>a. /\ Running(t) /\ pc[t] = "check" /\ call[t] \in ReceiveCalls /\ pc'[t] = "app"
      /\ UNCHANGED <<items, cTxLock, cRxLock, xTasksWaitingToSend, outcome>>
      /\ \A u \in Tasks : u # t => pc'[u] = pc[u] /\ call'[u] = call[u]
  BY DEF PeekPass, Return, Goto, TypeOK
<1>r. stateList[t] = "ready" /\ t = pxCurrentTCB BY <1>a, RunningReady DEF Running
<1>l. t \notin xTasksWaitingToSend \union xTasksWaitingToReceive BY <1>r DEF ListsConsistent
<1>o. \A calls : Coming(calls) \ {t} \subseteq Coming(calls)' BY <1>a, OthersComing
<1>c. W \subseteq Coming(ReceiveCalls)' /\ Coming(ReceiveCalls) \intersect W = {}
  <2>1. \A u \in W : /\ call[u] \in ReceiveCalls /\ call'[u] = call[u]
                    /\ u \notin xTasksWaitingToSend' \union xTasksWaitingToReceive'
                    /\ pc'[u] = pc[u]
    BY <1>w, <1>a, <1>l DEF ListsConsistent, TypeOK
  <2> QED BY <2>1, <1>w, <1>a, Woken
<1>n. t \notin Coming(SendCalls) BY <1>a DEF Coming
<1>q. /\ IsFiniteSet(Coming(SendCalls)) /\ IsFiniteSet(Coming(SendCalls)')
      /\ IsFiniteSet(Coming(ReceiveCalls)) /\ IsFiniteSet(Coming(ReceiveCalls)')
      /\ Cardinality(Coming(SendCalls)) \in Nat /\ Cardinality(Coming(SendCalls)') \in Nat
      /\ Cardinality(Coming(ReceiveCalls)) \in Nat /\ Cardinality(Coming(ReceiveCalls)') \in Nat
      /\ IsFiniteSet(xTasksWaitingToSend) /\ IsFiniteSet(xTasksWaitingToReceive)
      /\ Len(items) \in Nat /\ QLen \in Nat /\ Len(items) <= QLen
      /\ WhileLocked(cTxLock) \in Nat /\ WhileLocked(cRxLock) \in Nat
  BY Quantities
<1>1. WaitingInv' BY <1>w, <1>a, <1>l, KeepWaiting DEF TypeOK
<1>2. PlaceInv'
  <2>1. \A u \in Tasks : pc[u] # "place" BY <1>a, <1>r DEF ExclusiveAccess
  <2> QED BY <2>1, <1>a, NoPlace
<1>3. ASSUME xTasksWaitingToReceive' # {}
      PROVE  Len(items) <= Cardinality(Coming(ReceiveCalls)') + WhileLocked(cTxLock)
  <2>1. Len(items) <= Cardinality(Coming(ReceiveCalls)) + WhileLocked(cTxLock)
    BY <1>3, <1>w DEF NoLostWakeup
  <2>2. (Coming(ReceiveCalls) \ {t}) \union W \subseteq Coming(ReceiveCalls)' BY <1>o, <1>c
  <2>3. Cardinality(Coming(ReceiveCalls)) <= Cardinality(Coming(ReceiveCalls)')
    BY <2>2, <1>3, <1>c, <1>q, ServedAndWokenEnough
  <2> QED BY <2>1, <2>3, <1>q
<1>4. ASSUME xTasksWaitingToSend' # {}
      PROVE  QLen - Len(items) <= Cardinality(Coming(SendCalls)') + WhileLocked(cRxLock)
  <2>1. QLen - Len(items) <= Cardinality(Coming(SendCalls)) + WhileLocked(cRxLock)
    BY <1>4, <1>a DEF NoLostWakeup
  <2>2. Coming(SendCalls) \subseteq Coming(SendCalls)' BY <1>o, <1>n
  <2>3. Cardinality(Coming(SendCalls)) <= Cardinality(Coming(SendCalls)') BY <2>2, <1>q, FS_Subset
  <2> QED BY <2>1, <2>3, <1>q
<1>5. NoLostWakeup' BY <1>3, <1>4, <1>a DEF NoLostWakeup
<1> QED BY <1>1, <1>2, <1>5

\* Unlocking the queue wakes as many tasks as the lock count owes.
LEMMA UnlockTxWake ==
    ASSUME ConstantsAssumption, IInv, SchedInv, ServiceInv, NEW t \in Tasks, UnlockTx(t)
    PROVE  WakeInv'
<1> USE DEF IInv, SchedInv, WakeInv, ServiceInv
<1> PICK W \in HeadOf(xTasksWaitingToReceive, cTxLock) :
          xTasksWaitingToReceive' = xTasksWaitingToReceive \ W
  BY DEF UnlockTx
<1>w. W \in SUBSET xTasksWaitingToReceive BY HeadOfSubset
<1>a. /\ Running(t) /\ pc[t] = "unlockTx" /\ t = pxCurrentTCB
      /\ UNCHANGED <<items, cRxLock, xTasksWaitingToSend, call, outcome>>
      /\ \A u \in Tasks : pc'[u] = IF u = t THEN "unlockRx" ELSE pc[u]
      /\ WhileLocked(cTxLock') = 0
  BY DEF UnlockTx, Goto, TypeOK, Running, WhileLocked
<1>k. cTxLock \in Nat /\ WhileLocked(cTxLock) = cTxLock
  <2>1. call[t] # "delay" BY <1>a DEF CallInv
  <2>2. cTxLock # queueUNLOCKED BY <1>a, <2>1 DEF ExclusiveAccess
  <2> QED BY <2>2 DEF TypeOK, WhileLocked
<1>1. WaitingInv' BY <1>w, <1>a DEF WaitingInv, Blocking, TypeOK
<1>2. PlaceInv'
  <2>1. \A u \in Tasks : pc'[u] # "place" BY <1>a DEF ExclusiveAccess
  <2> QED BY <2>1, NoPlace
<1>o. /\ Coming(ReceiveCalls) \subseteq Coming(ReceiveCalls)'
      /\ Coming(SendCalls) \subseteq Coming(SendCalls)'
  BY <1>w, <1>a DEF Coming
<1>c. W \subseteq Coming(ReceiveCalls)' /\ Coming(ReceiveCalls) \intersect W = {}
  <2>1. \A u \in W : /\ call[u] \in ReceiveCalls /\ call'[u] = call[u]
                    /\ u \notin xTasksWaitingToSend' \union xTasksWaitingToReceive'
                    /\ \/ pc'[u] = pc[u]
                       \/ pc[u] \in {"unlockTx", "unlockRx"} /\ pc'[u] \in {"unlockRx", "resume"}
    BY <1>w, <1>a DEF ListsConsistent, TypeOK
  <2> QED BY <2>1, <1>w, <1>a, Woken
<1>q. /\ IsFiniteSet(Coming(SendCalls)) /\ IsFiniteSet(Coming(SendCalls)')
      /\ IsFiniteSet(Coming(ReceiveCalls)) /\ IsFiniteSet(Coming(ReceiveCalls)')
      /\ Cardinality(Coming(SendCalls)) \in Nat /\ Cardinality(Coming(SendCalls)') \in Nat
      /\ Cardinality(Coming(ReceiveCalls)) \in Nat /\ Cardinality(Coming(ReceiveCalls)') \in Nat
      /\ IsFiniteSet(xTasksWaitingToSend) /\ IsFiniteSet(xTasksWaitingToReceive)
      /\ Len(items) \in Nat /\ QLen \in Nat /\ Len(items) <= QLen
      /\ WhileLocked(cTxLock) \in Nat /\ WhileLocked(cRxLock) \in Nat
  BY Quantities
<1>3. ASSUME xTasksWaitingToReceive' # {}
      PROVE  Len(items) <= Cardinality(Coming(ReceiveCalls)')
  <2>1. Len(items) <= Cardinality(Coming(ReceiveCalls)) + cTxLock
    BY <1>3, <1>w, <1>k DEF NoLostWakeup
  <2>2. Coming(ReceiveCalls) \union W \subseteq Coming(ReceiveCalls)' BY <1>o, <1>c
  <2>3. Cardinality(Coming(ReceiveCalls)) + cTxLock <= Cardinality(Coming(ReceiveCalls)')
    BY <2>2, <1>3, <1>c, <1>q, <1>k, WokenEnough
  <2> QED BY <2>1, <2>3, <1>q, <1>k
<1>4. ASSUME xTasksWaitingToSend' # {}
      PROVE  QLen - Len(items) <= Cardinality(Coming(SendCalls)') + WhileLocked(cRxLock)
  <2>1. QLen - Len(items) <= Cardinality(Coming(SendCalls)) + WhileLocked(cRxLock)
    BY <1>4, <1>a DEF NoLostWakeup
  <2>2. Cardinality(Coming(SendCalls)) <= Cardinality(Coming(SendCalls)') BY <1>o, <1>q, FS_Subset
  <2> QED BY <2>1, <2>2, <1>q
<1>5. NoLostWakeup'
  <2>1. Cardinality(Coming(ReceiveCalls)') + 0 = Cardinality(Coming(ReceiveCalls)') BY <1>q
  <2> QED BY <2>1, <1>3, <1>4, <1>a DEF NoLostWakeup
<1> QED BY <1>1, <1>2, <1>5

LEMMA UnlockRxWake ==
    ASSUME ConstantsAssumption, IInv, SchedInv, ServiceInv, NEW t \in Tasks, UnlockRx(t)
    PROVE  WakeInv'
<1> USE DEF IInv, SchedInv, WakeInv, ServiceInv
<1> PICK W \in HeadOf(xTasksWaitingToSend, cRxLock) :
          xTasksWaitingToSend' = xTasksWaitingToSend \ W
  BY DEF UnlockRx
<1>w. W \in SUBSET xTasksWaitingToSend BY HeadOfSubset
<1>a. /\ Running(t) /\ pc[t] = "unlockRx" /\ t = pxCurrentTCB
      /\ UNCHANGED <<items, cTxLock, xTasksWaitingToReceive, call, outcome>>
      /\ \A u \in Tasks : pc'[u] = IF u = t THEN "resume" ELSE pc[u]
      /\ WhileLocked(cRxLock') = 0
  BY DEF UnlockRx, Goto, TypeOK, Running, WhileLocked
<1>k. cRxLock \in Nat /\ WhileLocked(cRxLock) = cRxLock
  <2>1. call[t] # "delay" BY <1>a DEF CallInv
  <2>2. cRxLock # queueUNLOCKED BY <1>a, <2>1 DEF ExclusiveAccess
  <2> QED BY <2>2 DEF TypeOK, WhileLocked
<1>1. WaitingInv' BY <1>w, <1>a DEF WaitingInv, Blocking, TypeOK
<1>2. PlaceInv'
  <2>1. \A u \in Tasks : pc'[u] # "place" BY <1>a DEF ExclusiveAccess
  <2> QED BY <2>1, NoPlace
<1>o. /\ Coming(ReceiveCalls) \subseteq Coming(ReceiveCalls)'
      /\ Coming(SendCalls) \subseteq Coming(SendCalls)'
  BY <1>w, <1>a DEF Coming
<1>c. W \subseteq Coming(SendCalls)' /\ Coming(SendCalls) \intersect W = {}
  <2>1. \A u \in W : /\ call[u] \in SendCalls /\ call'[u] = call[u]
                    /\ u \notin xTasksWaitingToSend' \union xTasksWaitingToReceive'
                    /\ \/ pc'[u] = pc[u]
                       \/ pc[u] \in {"unlockTx", "unlockRx"} /\ pc'[u] \in {"unlockRx", "resume"}
    BY <1>w, <1>a DEF ListsConsistent, TypeOK
  <2> QED BY <2>1, <1>w, <1>a, Woken
<1>q. /\ IsFiniteSet(Coming(SendCalls)) /\ IsFiniteSet(Coming(SendCalls)')
      /\ IsFiniteSet(Coming(ReceiveCalls)) /\ IsFiniteSet(Coming(ReceiveCalls)')
      /\ Cardinality(Coming(SendCalls)) \in Nat /\ Cardinality(Coming(SendCalls)') \in Nat
      /\ Cardinality(Coming(ReceiveCalls)) \in Nat /\ Cardinality(Coming(ReceiveCalls)') \in Nat
      /\ IsFiniteSet(xTasksWaitingToSend) /\ IsFiniteSet(xTasksWaitingToReceive)
      /\ Len(items) \in Nat /\ QLen \in Nat /\ Len(items) <= QLen
      /\ WhileLocked(cTxLock) \in Nat /\ WhileLocked(cRxLock) \in Nat
  BY Quantities
<1>3. ASSUME xTasksWaitingToReceive' # {}
      PROVE  Len(items) <= Cardinality(Coming(ReceiveCalls)') + WhileLocked(cTxLock)
  <2>1. Len(items) <= Cardinality(Coming(ReceiveCalls)) + WhileLocked(cTxLock)
    BY <1>3, <1>a DEF NoLostWakeup
  <2>2. Cardinality(Coming(ReceiveCalls)) <= Cardinality(Coming(ReceiveCalls)') BY <1>o, <1>q, FS_Subset
  <2> QED BY <2>1, <2>2, <1>q
<1>4. ASSUME xTasksWaitingToSend' # {}
      PROVE  QLen - Len(items) <= Cardinality(Coming(SendCalls)')
  <2>1. QLen - Len(items) <= Cardinality(Coming(SendCalls)) + cRxLock
    BY <1>4, <1>w, <1>k DEF NoLostWakeup
  <2>2. Coming(SendCalls) \union W \subseteq Coming(SendCalls)' BY <1>o, <1>c
  <2>3. Cardinality(Coming(SendCalls)) + cRxLock <= Cardinality(Coming(SendCalls)')
    BY <2>2, <1>4, <1>c, <1>q, <1>k, WokenEnough
  <2> QED BY <2>1, <2>3, <1>q, <1>k
<1>5. NoLostWakeup'
  <2>1. Cardinality(Coming(SendCalls)') + 0 = Cardinality(Coming(SendCalls)') BY <1>q
  <2> QED BY <2>1, <1>3, <1>4, <1>a DEF NoLostWakeup
<1> QED BY <1>1, <1>2, <1>5

\* The interrupt handler wakes a task, or leaves that to the lock count.
LEMMA IsrSendWake ==
    ASSUME ConstantsAssumption, IInv, SchedInv, ServiceInv, IsrSend
    PROVE  WakeInv'
<1> USE DEF IInv, SchedInv, WakeInv, ServiceInv
<1>a. UNCHANGED <<cRxLock, xTasksWaitingToSend, pc, call, outcome>> BY DEF IsrSend, callVars
<1>q. /\ IsFiniteSet(Coming(SendCalls)) /\ IsFiniteSet(Coming(SendCalls)')
      /\ IsFiniteSet(Coming(ReceiveCalls)) /\ IsFiniteSet(Coming(ReceiveCalls)')
      /\ Cardinality(Coming(SendCalls)) \in Nat /\ Cardinality(Coming(SendCalls)') \in Nat
      /\ Cardinality(Coming(ReceiveCalls)) \in Nat /\ Cardinality(Coming(ReceiveCalls)') \in Nat
      /\ IsFiniteSet(xTasksWaitingToSend) /\ IsFiniteSet(xTasksWaitingToReceive)
      /\ Len(items) \in Nat /\ QLen \in Nat /\ Len(items) <= QLen
      /\ WhileLocked(cTxLock) \in Nat /\ WhileLocked(cRxLock) \in Nat
  BY Quantities
<1>i. Len(items') \in Nat /\ Len(items') = Len(items) + 1 BY DEF IsrSend, TypeOK
<1>k. cTxLock' \in Nat \union {queueUNLOCKED} BY NextIInv DEF Next, TypeOK
<1>s. xTasksWaitingToReceive' \subseteq xTasksWaitingToReceive BY DEF IsrSend
<1>1. WaitingInv' BY <1>a, <1>s, KeepWaiting DEF TypeOK
<1>o. /\ Coming(ReceiveCalls) \subseteq Coming(ReceiveCalls)'
      /\ Coming(SendCalls) \subseteq Coming(SendCalls)'
  BY <1>a, <1>s DEF Coming
<1>m. /\ Cardinality(Coming(ReceiveCalls)) <= Cardinality(Coming(ReceiveCalls)')
      /\ Cardinality(Coming(SendCalls)) <= Cardinality(Coming(SendCalls)')
  BY <1>o, <1>q, FS_Subset
<1>2. PlaceInv'
  <2> SUFFICES ASSUME NEW u \in Tasks, pc[u] = "place"
               PROVE  /\ call[u] \in ReceiveCalls => Len(items') <= WhileLocked(cTxLock')
                      /\ call[u] \in SendCalls => QLen - Len(items') <= WhileLocked(cRxLock)
    BY <1>a DEF PlaceInv
  <2>1. ASSUME call[u] \in ReceiveCalls PROVE Len(items') <= WhileLocked(cTxLock')
    <3>1. cTxLock # queueUNLOCKED BY <2>1 DEF ExclusiveAccess
    <3>2. cTxLock \in Nat /\ WhileLocked(cTxLock) = cTxLock /\ WhileLocked(cTxLock') = cTxLock + 1
      BY <3>1 DEF IsrSend, TypeOK, WhileLocked
    <3>3. Len(items) <= WhileLocked(cTxLock) BY <2>1 DEF PlaceInv
    <3> QED BY <3>2, <3>3, <1>i, <1>q
  <2>2. ASSUME call[u] \in SendCalls PROVE QLen - Len(items') <= WhileLocked(cRxLock)
    <3>1. QLen - Len(items) <= WhileLocked(cRxLock) BY <2>2 DEF PlaceInv
    <3> QED BY <3>1, <1>i, <1>q
  <2> QED BY <2>1, <2>2
<1>3. ASSUME xTasksWaitingToReceive' # {}
      PROVE  Len(items') <= Cardinality(Coming(ReceiveCalls)') + WhileLocked(cTxLock')
  <2>1. Len(items) <= Cardinality(Coming(ReceiveCalls)) + WhileLocked(cTxLock)
    BY <1>3, <1>s DEF NoLostWakeup
  <2>2. CASE cTxLock = queueUNLOCKED
    <3> PICK W \in HeadOf(xTasksWaitingToReceive, 1) :
              xTasksWaitingToReceive' = xTasksWaitingToReceive \ W
      BY <2>2 DEF IsrSend
    <3>1. W \in SUBSET xTasksWaitingToReceive BY HeadOfSubset
    <3>2. W \subseteq Coming(ReceiveCalls)' /\ Coming(ReceiveCalls) \intersect W = {}
      <4>1. \A u \in W : /\ call[u] \in ReceiveCalls /\ call'[u] = call[u]
                        /\ u \notin xTasksWaitingToSend' \union xTasksWaitingToReceive'
                        /\ pc'[u] = pc[u]
        BY <3>1, <1>a DEF ListsConsistent, TypeOK
      <4> QED BY <4>1, <3>1, <1>a, Woken
    <3>3. Coming(ReceiveCalls) \union W \subseteq Coming(ReceiveCalls)' BY <1>o, <3>2
    <3>4. Cardinality(Coming(ReceiveCalls)) + 1 <= Cardinality(Coming(ReceiveCalls)')
      BY <3>2, <3>3, <1>3, <1>q, WokenEnough
    <3>5. cTxLock' = cTxLock BY <2>2 DEF IsrSend
    <3> QED BY <2>1, <3>4, <3>5, <1>i, <1>q
  <2>3. CASE cTxLock # queueUNLOCKED
    <3>1. WhileLocked(cTxLock') = WhileLocked(cTxLock) + 1
      BY <2>3 DEF IsrSend, TypeOK, WhileLocked
    <3>2. Len(items) <= Cardinality(Coming(ReceiveCalls)') + WhileLocked(cTxLock)
      BY <2>1, <1>m, <1>q
    <3> QED BY <3>1, <3>2, <1>i, <1>q
  <2> QED BY <2>2, <2>3
<1>4. ASSUME xTasksWaitingToSend' # {}
      PROVE  QLen - Len(items') <= Cardinality(Coming(SendCalls)') + WhileLocked(cRxLock)
  <2>1. QLen - Len(items) <= Cardinality(Coming(SendCalls)) + WhileLocked(cRxLock)
    BY <1>4, <1>a DEF NoLostWakeup
  <2>2. QLen - Len(items) <= Cardinality(Coming(SendCalls)') + WhileLocked(cRxLock)
    BY <2>1, <1>m, <1>q
  <2> QED BY <2>2, <1>i, <1>q
<1>5. NoLostWakeup' BY <1>3, <1>4, <1>a DEF NoLostWakeup
<1> QED BY <1>1, <1>2, <1>5

LEMMA IsrReceiveWake ==
    ASSUME ConstantsAssumption, IInv, SchedInv, ServiceInv, IsrReceive
    PROVE  WakeInv'
<1> USE DEF IInv, SchedInv, WakeInv, ServiceInv
<1>a. UNCHANGED <<cTxLock, xTasksWaitingToReceive, pc, call, outcome>> BY DEF IsrReceive, callVars
<1>q. /\ IsFiniteSet(Coming(SendCalls)) /\ IsFiniteSet(Coming(SendCalls)')
      /\ IsFiniteSet(Coming(ReceiveCalls)) /\ IsFiniteSet(Coming(ReceiveCalls)')
      /\ Cardinality(Coming(SendCalls)) \in Nat /\ Cardinality(Coming(SendCalls)') \in Nat
      /\ Cardinality(Coming(ReceiveCalls)) \in Nat /\ Cardinality(Coming(ReceiveCalls)') \in Nat
      /\ IsFiniteSet(xTasksWaitingToSend) /\ IsFiniteSet(xTasksWaitingToReceive)
      /\ Len(items) \in Nat /\ QLen \in Nat /\ Len(items) <= QLen
      /\ WhileLocked(cTxLock) \in Nat /\ WhileLocked(cRxLock) \in Nat
  BY Quantities
<1>i. Len(items') \in Nat /\ Len(items') = Len(items) - 1 BY DEF IsrReceive, Empty, TypeOK
<1>s. xTasksWaitingToSend' \subseteq xTasksWaitingToSend BY DEF IsrReceive
<1>1. WaitingInv' BY <1>a, <1>s, KeepWaiting DEF TypeOK
<1>o. /\ Coming(ReceiveCalls) \subseteq Coming(ReceiveCalls)'
      /\ Coming(SendCalls) \subseteq Coming(SendCalls)'
  BY <1>a, <1>s DEF Coming
<1>m. /\ Cardinality(Coming(ReceiveCalls)) <= Cardinality(Coming(ReceiveCalls)')
      /\ Cardinality(Coming(SendCalls)) <= Cardinality(Coming(SendCalls)')
  BY <1>o, <1>q, FS_Subset
<1>2. PlaceInv'
  <2> SUFFICES ASSUME NEW u \in Tasks, pc[u] = "place"
               PROVE  /\ call[u] \in ReceiveCalls => Len(items') <= WhileLocked(cTxLock)
                      /\ call[u] \in SendCalls => QLen - Len(items') <= WhileLocked(cRxLock')
    BY <1>a DEF PlaceInv
  <2>1. ASSUME call[u] \in SendCalls PROVE QLen - Len(items') <= WhileLocked(cRxLock')
    <3>1. cRxLock # queueUNLOCKED BY <2>1 DEF ExclusiveAccess
    <3>2. cRxLock \in Nat /\ WhileLocked(cRxLock) = cRxLock /\ WhileLocked(cRxLock') = cRxLock + 1
      BY <3>1 DEF IsrReceive, TypeOK, WhileLocked
    <3>3. QLen - Len(items) <= WhileLocked(cRxLock) BY <2>1 DEF PlaceInv
    <3> QED BY <3>2, <3>3, <1>i, <1>q
  <2>2. ASSUME call[u] \in ReceiveCalls PROVE Len(items') <= WhileLocked(cTxLock)
    <3>1. Len(items) <= WhileLocked(cTxLock) BY <2>2 DEF PlaceInv
    <3> QED BY <3>1, <1>i, <1>q
  <2> QED BY <2>1, <2>2
<1>3. ASSUME xTasksWaitingToReceive' # {}
      PROVE  Len(items') <= Cardinality(Coming(ReceiveCalls)') + WhileLocked(cTxLock)
  <2>1. Len(items) <= Cardinality(Coming(ReceiveCalls)) + WhileLocked(cTxLock)
    BY <1>3, <1>a DEF NoLostWakeup
  <2>2. Len(items) <= Cardinality(Coming(ReceiveCalls)') + WhileLocked(cTxLock)
    BY <2>1, <1>m, <1>q
  <2> QED BY <2>2, <1>i, <1>q
<1>4. ASSUME xTasksWaitingToSend' # {}
      PROVE  QLen - Len(items') <= Cardinality(Coming(SendCalls)') + WhileLocked(cRxLock')
  <2>1. QLen - Len(items) <= Cardinality(Coming(SendCalls)) + WhileLocked(cRxLock)
    BY <1>4, <1>s DEF NoLostWakeup
  <2>2. CASE cRxLock = queueUNLOCKED
    <3> PICK W \in HeadOf(xTasksWaitingToSend, 1) :
              xTasksWaitingToSend' = xTasksWaitingToSend \ W
      BY <2>2 DEF IsrReceive
    <3>1. W \in SUBSET xTasksWaitingToSend BY HeadOfSubset
    <3>2. W \subseteq Coming(SendCalls)' /\ Coming(SendCalls) \intersect W = {}
      <4>1. \A u \in W : /\ call[u] \in SendCalls /\ call'[u] = call[u]
                        /\ u \notin xTasksWaitingToSend' \union xTasksWaitingToReceive'
                        /\ pc'[u] = pc[u]
        BY <3>1, <1>a DEF ListsConsistent, TypeOK
      <4> QED BY <4>1, <3>1, <1>a, Woken
    <3>3. Coming(SendCalls) \union W \subseteq Coming(SendCalls)' BY <1>o, <3>2
    <3>4. Cardinality(Coming(SendCalls)) + 1 <= Cardinality(Coming(SendCalls)')
      BY <3>2, <3>3, <1>4, <1>q, WokenEnough
    <3>5. cRxLock' = cRxLock BY <2>2 DEF IsrReceive
    <3> QED BY <2>1, <3>4, <3>5, <1>i, <1>q
  <2>3. CASE cRxLock # queueUNLOCKED
    <3>1. WhileLocked(cRxLock') = WhileLocked(cRxLock) + 1
      BY <2>3 DEF IsrReceive, TypeOK, WhileLocked
    <3>2. QLen - Len(items) <= Cardinality(Coming(SendCalls)') + WhileLocked(cRxLock)
      BY <2>1, <1>m, <1>q
    <3> QED BY <3>1, <3>2, <1>i, <1>q
  <2> QED BY <2>2, <2>3
<1>5. NoLostWakeup' BY <1>3, <1>4, <1>a DEF NoLostWakeup
<1> QED BY <1>1, <1>2, <1>5

LEMMA NextServiceInv ==
    ASSUME ConstantsAssumption, IInv, SchedInv, ServiceInv, [Next]_vars PROVE ServiceInv'
<1>1. ASSUME NEW t \in Tasks, TaskStep(t) PROVE WakeInv'
  BY <1>1, SendPassWake, ReceivePassWake, PeekPassWake, CheckFailsWake, QuietStepsWake, PlaceWake,
     UnlockTxWake, UnlockRxWake, ResumeAllWake, YieldWithinAPIWake
  DEF TaskStep, ServiceInv
<1>2. WakeInv'
  BY <1>1, QuietStepsWake, IsrSendWake, IsrReceiveWake, TimeStepsWake DEF Next, ServiceInv
<1> QED BY <1>2, NextCallsMade DEF ServiceInv, IInv

\* No wake-up is lost: whatever interrupts come while a task is blocking or the
\* queue is locked, an item (a free place) some task waits for is spoken for by
\* a task on its way to it or by a wake-up the lock count still owes.
THEOREM WakeupsKept == ASSUME ConstantsAssumption PROVE Spec => []NoLostWakeup
<1> DEFINE I == IInv /\ SchedInv /\ ServiceInv
<1>1. Init => I
  <2>1. Init => CallsMade BY DEF Init, CallsMade
  <2> QED BY <2>1, InitIInv, InitSchedInv, InitWakeInv DEF ServiceInv
<1>2. I /\ [Next]_vars => I' BY NextIInv, NextSchedInv, NextServiceInv
<1>3. I => NoLostWakeup BY DEF ServiceInv, WakeInv
<1> HIDE DEF I
<1> QED BY <1>1, <1>2, <1>3, PTL DEF Spec
=============================================================================
