-------------------------- MODULE KernelTicksProofs --------------------------
(***************************************************************************)
(* Proofs about KernelTicks for any tasks, any width of the tick counter,  *)
(* any delays and any number of ticks pended: nobody wakes early or late.  *)
(* Waits for events end when their time is over, and periods are kept.     *)
(***************************************************************************)
EXTENDS KernelTicks, TLAPS

\* The value of a task's list item says how long it still sleeps: counted from
\* now, or from the next wrap if it is in the overflow list.
ItemValues ==
    \A t \in Tasks :
        /\ xStateListItem[t] = "delayed" => xItemValue[t] = xTickCount + ticksLeft[t]
        /\ xStateListItem[t] = "overflow" => xItemValue[t] + Wrap = xTickCount + ticksLeft[t]

\* Only the running task has the scheduler suspended; it is ready until its
\* call puts it into a list.
LockInv ==
    /\ \A t \in Tasks :
          /\ pc[t] \in {"locked", "leaving", "resetLocked"} =>
                pxCurrentTCB = t /\ uxSchedulerSuspended = "yes"
          /\ pc[t] \in {"locked", "resetLocked"} => xStateListItem[t] = "ready"
    /\ uxSchedulerSuspended = "yes" => pc[pxCurrentTCB] \in {"locked", "leaving", "resetLocked"}

\* The ticks still to be counted fit into the time a task may go without
\* running.
PendedInv == \A t \in Tasks : sinceEntry[t] + uxPendedTicks <= Wrap

IInv == TypeOK /\ ItemValues /\ WakesOnTime /\ UnblockTimeNotLate /\ LockInv /\ PendedInv

-----------------------------------------------------------------------------
(* Arithmetic modulo Wrap *)

LEMMA WrapLow == ASSUME TickConstants, NEW a \in 0 .. Wrap - 1 PROVE a % Wrap = a
BY DEF TickConstants
LEMMA WrapHigh == ASSUME TickConstants, NEW a \in Wrap .. 2 * Wrap - 1 PROVE a % Wrap = a - Wrap
BY DEF TickConstants
LEMMA WrapNegative == ASSUME TickConstants, NEW a \in Int, -Wrap <= a, a < 0 PROVE a % Wrap = a + Wrap
BY DEF TickConstants
LEMMA WrapRange == ASSUME TickConstants, NEW a \in Int PROVE a % Wrap \in Times
BY DEF TickConstants, Times

\* vTaskDelayUntil decides rightly for every tick count and previous wake time,
\* whether either has wrapped or not: a task that is passed ticks late, less
\* than the counter takes to wrap, delays if and only if its next wake time is
\* still to come, and then by what is missing.
THEOREM PeriodDecision ==
    ASSUME TickConstants, NEW previous \in Times, NEW passed \in Times,
           NEW increment \in 1 .. Wrap - 1
    PROVE  LET now == (previous + passed) % Wrap
               wake == (previous + increment) % Wrap
           IN  /\ ShouldDelay(now, previous, increment) <=> passed < increment
               /\ passed < increment => (wake - now) % Wrap = increment - passed
<1> DEFINE now == (previous + passed) % Wrap
           wake == (previous + increment) % Wrap
<1>0. Wrap \in Nat /\ Wrap >= 2 BY DEF TickConstants
<1>1. now = IF previous + passed < Wrap THEN previous + passed ELSE previous + passed - Wrap
  BY <1>0, WrapLow, WrapHigh DEF Times
<1>2. wake = IF previous + increment < Wrap THEN previous + increment ELSE previous + increment - Wrap
  BY <1>0, WrapLow, WrapHigh DEF Times
<1> HIDE DEF now, wake
<1>3. (IF now < previous THEN wake < previous /\ wake > now ELSE wake < previous \/ wake > now)
         <=> passed < increment
  BY <1>0, <1>1, <1>2 DEF Times
<1>4. ASSUME passed < increment PROVE (wake - now) % Wrap = increment - passed
  <2>1. CASE wake >= now
    <3>1. wake - now \in 0 .. Wrap - 1 BY <1>0, <1>1, <1>2, <2>1 DEF Times
    <3>2. wake - now = increment - passed BY <1>0, <1>1, <1>2, <1>4, <2>1 DEF Times
    <3> QED BY <3>1, <3>2, WrapLow
  <2>2. CASE wake < now
    <3>1. wake - now \in Int /\ -Wrap <= wake - now /\ wake - now < 0
      BY <1>0, <1>1, <1>2, <2>2 DEF Times
    <3>2. wake - now + Wrap = increment - passed BY <1>0, <1>1, <1>2, <1>4, <2>2 DEF Times
    <3> QED BY <3>1, <3>2, WrapNegative
  <2> QED BY <1>0, <1>1, <1>2, <2>1, <2>2 DEF Times
<1> QED BY <1>3, <1>4 DEF ShouldDelay, now, wake

-----------------------------------------------------------------------------
(* The lists *)

\* The head of a delayed list is not later than any of its items.
LEMMA HeadIsFirst ==
    ASSUME TickConstants, NEW list, NEW v \in HeadOf(list)
    PROVE  v \in Times /\ \A t \in list : v <= xItemValue[t]
BY DEF HeadOf, portMAX_DELAY, Times, TickConstants

\* The delayed list is empty when the lists are switched.
LEMMA SwitchedEmpty ==
    ASSUME TickConstants, IInv, xTickCount = Wrap - 1
    PROVE  Delayed = {}
<1> SUFFICES ASSUME NEW t \in Tasks, xStateListItem[t] = "delayed" PROVE FALSE
  BY DEF Delayed
<1>1. xItemValue[t] = xTickCount + ticksLeft[t] /\ ticksLeft[t] > 0
  BY DEF IInv, ItemValues, WakesOnTime
<1> QED BY <1>1 DEF IInv, TypeOK, Times, TickConstants

\* What adding a task to a delayed list makes of the list invariants.
LEMMA AddedToList ==
    ASSUME TickConstants, IInv, NEW t \in Tasks, NEW ticks \in 1 .. Wrap - 1,
           AddToDelayedList(t, ticks), UNCHANGED xTickCount
    PROVE  /\ xStateListItem' \in [Tasks -> {"ready", "delayed", "overflow", "suspended"}]
           /\ xItemValue' \in [Tasks -> Times]
           /\ xNextTaskUnblockTime' \in Times
           /\ ticksLeft' \in [Tasks -> Times]
           /\ ItemValues' /\ WakesOnTime' /\ UnblockTimeNotLate'
<1> DEFINE wake == (xTickCount + ticks) % Wrap
<1> USE DEF IInv
<1>0. Wrap \in Nat /\ Wrap >= 2 /\ xTickCount \in 0 .. Wrap - 1 /\ xNextTaskUnblockTime \in 0 .. Wrap - 1
  BY DEF TickConstants, TypeOK, Times
<1>1. wake = IF xTickCount + ticks < Wrap THEN xTickCount + ticks ELSE xTickCount + ticks - Wrap
  BY <1>0, WrapLow, WrapHigh
<1>2. wake \in 0 .. Wrap - 1 BY <1>0, <1>1
<1>3. /\ xStateListItem' = [xStateListItem EXCEPT ![t] = Target(wake)]
      /\ xItemValue' = [xItemValue EXCEPT ![t] = wake]
      /\ xNextTaskUnblockTime' = UnblockTimeAfterAdding(wake)
      /\ ticksLeft' = [ticksLeft EXCEPT ![t] = ticks]
  BY DEF AddToDelayedList
<1> HIDE DEF wake
<1>4. \/ Target(wake) = "delayed" /\ wake = xTickCount + ticks
      \/ Target(wake) = "overflow" /\ wake + Wrap = xTickCount + ticks
  BY <1>0, <1>1 DEF Target
<1>5. xNextTaskUnblockTime' \in Times /\ xNextTaskUnblockTime' <= xNextTaskUnblockTime
      /\ (Target(wake) = "delayed" => xNextTaskUnblockTime' <= wake)
  BY <1>0, <1>2, <1>3 DEF UnblockTimeAfterAdding, Times
<1>6. /\ xStateListItem' \in [Tasks -> {"ready", "delayed", "overflow", "suspended"}]
      /\ xItemValue' \in [Tasks -> Times]
      /\ ticksLeft' \in [Tasks -> Times]
  BY <1>0, <1>2, <1>3, <1>4 DEF TypeOK, Times
<1>7. ItemValues' BY <1>3, <1>4 DEF ItemValues, TypeOK
<1>8. WakesOnTime'
  <2> SUFFICES ASSUME NEW u \in Tasks
               PROVE  xStateListItem'[u] \in {"delayed", "overflow"} <=> ticksLeft'[u] > 0
    BY DEF WakesOnTime
  <2>1. CASE u = t BY <1>3, <1>4, <2>1 DEF TypeOK
  <2>2. CASE u # t BY <1>3, <2>2 DEF TypeOK, WakesOnTime
  <2> QED BY <2>1, <2>2
<1>9. UnblockTimeNotLate'
  <2> SUFFICES ASSUME NEW u \in Tasks, xStateListItem'[u] = "delayed"
               PROVE  xNextTaskUnblockTime' <= xItemValue'[u]
    BY DEF UnblockTimeNotLate, Delayed
  <2>1. CASE u = t BY <1>3, <1>4, <1>5, <2>1 DEF TypeOK
  <2>2. CASE u # t
    <3>1. xStateListItem[u] = "delayed" /\ xItemValue'[u] = xItemValue[u] BY <1>3, <2>2 DEF TypeOK
    <3>2. xNextTaskUnblockTime <= xItemValue[u] BY <3>1 DEF UnblockTimeNotLate, Delayed
    <3>3. xItemValue[u] \in Nat BY DEF TypeOK, Times
    <3> QED BY <1>0, <1>5, <3>1, <3>2, <3>3 DEF Times
  <2> QED BY <2>1, <2>2
<1> QED BY <1>5, <1>6, <1>7, <1>8, <1>9

\* What the loop over the delayed list makes of them: list and where are the
\* lists after a switch if there was one.
LEMMA WokenUp ==
    ASSUME TickConstants, IInv, HistoryTick,
           NEW now \in Times, NEW list, NEW where, NEW unblockTime \in Times,
           where \in [Tasks -> {"ready", "delayed", "overflow", "suspended"}],
           list = {t \in Tasks : where[t] = "delayed"},
           \A t \in Tasks : where[t] \in {"delayed", "overflow"} <=> ticksLeft[t] > 0,
           \A t \in Tasks : where[t] = "delayed" => xItemValue[t] = now + ticksLeft[t] - 1,
           \A t \in Tasks : where[t] = "overflow" => xItemValue[t] + Wrap = now + ticksLeft[t] - 1,
           \A t \in list : unblockTime <= xItemValue[t],
           xTickCount' = now,
           WakeDue(now, list, where, unblockTime)
    PROVE  /\ xStateListItem' \in [Tasks -> {"ready", "delayed", "overflow", "suspended"}]
           /\ xItemValue' \in [Tasks -> Times]
           /\ xEventListItem' \in [Tasks -> {"none", "event", "pending"}]
           /\ xNextTaskUnblockTime' \in Times
           /\ ticksLeft' \in [Tasks -> Times]
           /\ ItemValues' /\ WakesOnTime' /\ UnblockTimeNotLate'
           /\ \A t \in Tasks : xStateListItem'[t] = where[t] \/ xStateListItem'[t] = "ready"
<1> DEFINE due == IF now >= unblockTime THEN {t \in list : now >= xItemValue[t]} ELSE {}
<1>0. Wrap \in Nat /\ Wrap >= 2 /\ now \in 0 .. Wrap - 1
  BY DEF TickConstants, Times
<1>1. Wake(due, where) BY DEF WakeDue, IsDue
<1>2. xNextTaskUnblockTime' \in Times /\ \A t \in list \ due : xNextTaskUnblockTime' <= xItemValue[t]
  <2>1. CASE now >= unblockTime
    BY <2>1, HeadIsFirst DEF WakeDue, IsDue
  <2>2. CASE ~(now >= unblockTime)
    BY <2>2 DEF WakeDue
  <2> QED BY <2>1, <2>2
<1>3. \A t \in Tasks : /\ xItemValue[t] \in 0 .. Wrap - 1
                      /\ ticksLeft[t] \in 0 .. Wrap - 1
                      /\ ticksLeft'[t] = IF ticksLeft[t] > 0 THEN ticksLeft[t] - 1 ELSE 0
  BY DEF HistoryTick, IInv, TypeOK, Times
<1>4. \A t \in Tasks : t \in due <=> where[t] = "delayed" /\ ticksLeft[t] = 1
  <2> SUFFICES ASSUME NEW t \in Tasks PROVE t \in due <=> where[t] = "delayed" /\ ticksLeft[t] = 1
    OBVIOUS
  <2>1. CASE where[t] = "delayed"
    <3>1. xItemValue[t] = now + ticksLeft[t] - 1 /\ ticksLeft[t] > 0 /\ unblockTime <= xItemValue[t]
      BY <2>1
    <3> QED BY <1>0, <1>3, <2>1, <3>1 DEF Times
  <2>2. CASE where[t] # "delayed" BY <2>2
  <2> QED BY <2>1, <2>2
<1>5. /\ xStateListItem' = [t \in Tasks |-> IF t \in due THEN "ready" ELSE where[t]]
      /\ xItemValue' = [t \in Tasks |-> IF t \in due THEN 0 ELSE xItemValue[t]]
      /\ xEventListItem' = [t \in Tasks |-> IF t \in due THEN "none" ELSE xEventListItem[t]]
  BY <1>1 DEF Wake
<1> HIDE DEF due
<1>6. /\ xStateListItem' \in [Tasks -> {"ready", "delayed", "overflow", "suspended"}]
      /\ xItemValue' \in [Tasks -> Times]
      /\ xEventListItem' \in [Tasks -> {"none", "event", "pending"}]
  BY <1>0, <1>5 DEF IInv, TypeOK, Times
<1>7. ticksLeft' \in [Tasks -> Times] BY <1>0, <1>3 DEF HistoryTick, Times
<1>8. WakesOnTime'
  <2> SUFFICES ASSUME NEW t \in Tasks
               PROVE  xStateListItem'[t] \in {"delayed", "overflow"} <=> ticksLeft'[t] > 0
    BY DEF WakesOnTime
  <2>1. CASE t \in due BY <1>3, <1>4, <1>5, <2>1
  <2>2. CASE t \notin due /\ where[t] = "overflow"
    <3>1. xItemValue[t] + Wrap = now + ticksLeft[t] - 1 /\ ticksLeft[t] > 0 BY <2>2
    <3>2. ticksLeft[t] > 1 BY <1>0, <1>3, <3>1
    <3> QED BY <1>3, <1>5, <2>2, <3>2
  <2>3. CASE t \notin due /\ where[t] = "delayed"
    BY <1>3, <1>4, <1>5, <2>3
  <2>4. CASE t \notin due /\ where[t] \notin {"delayed", "overflow"}
    BY <1>3, <1>5, <2>4
  <2> QED BY <2>1, <2>2, <2>3, <2>4
<1>9. ItemValues'
  <2> SUFFICES ASSUME NEW t \in Tasks
               PROVE  /\ xStateListItem'[t] = "delayed" => xItemValue'[t] = now + ticksLeft'[t]
                      /\ xStateListItem'[t] = "overflow" => xItemValue'[t] + Wrap = now + ticksLeft'[t]
    BY DEF ItemValues
  <2>1. CASE t \in due BY <1>5, <2>1
  <2>2. CASE t \notin due BY <1>0, <1>3, <1>5, <2>2
  <2> QED BY <2>1, <2>2
<1>10. UnblockTimeNotLate'
  BY <1>2, <1>5 DEF UnblockTimeNotLate, Delayed
<1>11. \A t \in Tasks : xStateListItem'[t] = where[t] \/ xStateListItem'[t] = "ready"
  BY <1>5
<1> QED BY <1>2, <1>6, <1>7, <1>8, <1>9, <1>10, <1>11

-----------------------------------------------------------------------------
(* The invariant *)

\* xTaskIncrementTick keeps the list invariants and counts one tick.
LEMMA TickKeepsLists ==
    ASSUME TickConstants, IInv, IncrementTick
    PROVE  /\ xTickCount' \in Times /\ xNumOfOverflows' \in 0 .. Overflows - 1
           /\ xStateListItem' \in [Tasks -> {"ready", "delayed", "overflow", "suspended"}]
           /\ xItemValue' \in [Tasks -> Times]
           /\ xEventListItem' \in [Tasks -> {"none", "event", "pending"}]
           /\ xNextTaskUnblockTime' \in Times
           /\ ticksLeft' \in [Tasks -> Times] /\ waitLeft' \in [Tasks -> Times]
           /\ late' \in [Tasks -> Int]
           /\ \A t \in Tasks : sinceEntry'[t] \in 0 .. sinceEntry[t] + 1
           /\ DOMAIN sinceEntry' = Tasks /\ sinceEntry' = [t \in Tasks |-> sinceEntry'[t]]
           /\ ItemValues' /\ WakesOnTime' /\ UnblockTimeNotLate'
<1>0. Wrap \in Nat /\ Wrap >= 2 /\ Overflows \in Nat /\ Overflows >= 3 BY DEF TickConstants
<1>1. HistoryTick BY DEF IncrementTick
<1>2. /\ waitLeft' \in [Tasks -> Times]
      /\ late' \in [Tasks -> Int]
      /\ \A t \in Tasks : sinceEntry'[t] \in 0 .. sinceEntry[t] + 1
      /\ DOMAIN sinceEntry' = Tasks /\ sinceEntry' = [t \in Tasks |-> sinceEntry'[t]]
  <2>1. waitLeft' \in [Tasks -> Times] BY <1>0, <1>1 DEF HistoryTick, IInv, TypeOK, Times
  <2>2. late' \in [Tasks -> Int] BY <1>1 DEF HistoryTick, IInv, TypeOK
  <2>3. \A t \in Tasks : sinceEntry'[t] \in 0 .. sinceEntry[t] + 1
    BY <1>0, <1>1 DEF HistoryTick, IInv, TypeOK
  <2>4. DOMAIN sinceEntry' = Tasks /\ sinceEntry' = [t \in Tasks |-> sinceEntry'[t]]
    BY <1>1 DEF HistoryTick
  <2> QED BY <2>1, <2>2, <2>3, <2>4
<1>3. CASE /\ xTickCount < Wrap - 1
           /\ xTickCount' = xTickCount + 1
           /\ UNCHANGED xNumOfOverflows
           /\ WakeDue(xTickCount + 1, Delayed, xStateListItem, xNextTaskUnblockTime)
  <2> DEFINE now == xTickCount + 1
  <2>1. now \in Times /\ xNextTaskUnblockTime \in Times /\ xTickCount' = now
    BY <1>0, <1>3 DEF IInv, TypeOK, Times
  <2>2. xNumOfOverflows' \in 0 .. Overflows - 1 BY <1>3 DEF IInv, TypeOK
  <2>3. \A t \in Tasks : xItemValue[t] \in Nat /\ ticksLeft[t] \in Nat /\ xTickCount \in Nat
    BY <1>0 DEF IInv, TypeOK, Times
  <2>4. /\ \A t \in Tasks : xStateListItem[t] = "delayed" => xItemValue[t] = now + ticksLeft[t] - 1
        /\ \A t \in Tasks : xStateListItem[t] = "overflow" => xItemValue[t] + Wrap = now + ticksLeft[t] - 1
    BY <1>0, <2>3 DEF IInv, ItemValues
  <2>5. /\ xStateListItem \in [Tasks -> {"ready", "delayed", "overflow", "suspended"}]
        /\ Delayed = {t \in Tasks : xStateListItem[t] = "delayed"}
        /\ \A t \in Tasks : xStateListItem[t] \in {"delayed", "overflow"} <=> ticksLeft[t] > 0
        /\ \A t \in Delayed : xNextTaskUnblockTime <= xItemValue[t]
    BY DEF IInv, TypeOK, WakesOnTime, UnblockTimeNotLate, Delayed
  <2>6. WakeDue(now, Delayed, xStateListItem, xNextTaskUnblockTime) BY <1>3
  <2> HIDE DEF now
  <2> QED BY <1>1, <1>2, <2>1, <2>2, <2>4, <2>5, <2>6, WokenUp
<1>4. CASE /\ xTickCount = Wrap - 1
           /\ xTickCount' = 0
           /\ xNumOfOverflows' = (xNumOfOverflows + 1) % Overflows
           /\ \E unblockTime \in UnblockTimeAfterSwitch :
                 WakeDue(0, Overflowed, [t \in Tasks |-> Switched(t)], unblockTime)
  <2> DEFINE where == [t \in Tasks |-> Switched(t)]
  <2>1. PICK unblockTime \in UnblockTimeAfterSwitch : WakeDue(0, Overflowed, where, unblockTime)
    BY <1>4
  <2>2. unblockTime \in Times /\ \A t \in Overflowed : unblockTime <= xItemValue[t]
    BY <2>1, HeadIsFirst DEF UnblockTimeAfterSwitch
  <2>3. xNumOfOverflows' \in 0 .. Overflows - 1 BY <1>0, <1>4 DEF IInv, TypeOK
  <2>4. \A t \in Tasks : xStateListItem[t] # "delayed"
    BY <1>4, SwitchedEmpty DEF Delayed
  <2>5. \A t \in Tasks : where[t] = IF xStateListItem[t] = "overflow" THEN "delayed" ELSE xStateListItem[t]
    BY <2>4 DEF Switched
  <2>6. where \in [Tasks -> {"ready", "delayed", "overflow", "suspended"}]
    BY <2>5 DEF IInv, TypeOK
  <2>7. Overflowed = {t \in Tasks : where[t] = "delayed"}
    BY <2>4, <2>5 DEF Overflowed
  <2>8. \A t \in Tasks : where[t] \in {"delayed", "overflow"} <=> ticksLeft[t] > 0
    BY <2>4, <2>5 DEF IInv, WakesOnTime
  <2>9. \A t \in Tasks : where[t] = "delayed" => xItemValue[t] = 0 + ticksLeft[t] - 1
    <3> SUFFICES ASSUME NEW t \in Tasks, where[t] = "delayed" PROVE xItemValue[t] = 0 + ticksLeft[t] - 1
      OBVIOUS
    <3>1. xStateListItem[t] = "overflow" BY <2>4, <2>5
    <3>2. xItemValue[t] + Wrap = Wrap - 1 + ticksLeft[t] BY <1>4, <3>1 DEF IInv, ItemValues
    <3>3. xItemValue[t] \in Nat /\ ticksLeft[t] \in Nat BY <1>0 DEF IInv, TypeOK, Times
    <3> QED BY <1>0, <3>2, <3>3
  <2>10. \A t \in Tasks : where[t] = "overflow" => xItemValue[t] + Wrap = 0 + ticksLeft[t] - 1
    BY <2>4, <2>5
  <2>11. 0 \in Times BY <1>0 DEF Times
  <2> HIDE DEF where
  <2> QED BY <1>1, <1>2, <1>4, <2>1, <2>2, <2>3, <2>6, <2>7, <2>8, <2>9, <2>10, <2>11, WokenUp
<1> QED BY <1>3, <1>4 DEF IncrementTick

\* Tasks that leave every list and have no delay left keep the list invariants.
LEMMA MadeReady ==
    ASSUME TickConstants, IInv, NEW U \in SUBSET Tasks, MakeReady(U),
           ticksLeft' = [t \in Tasks |-> IF t \in U THEN 0 ELSE ticksLeft[t]],
           UNCHANGED xTickCount,
           xNextTaskUnblockTime' \in HeadOf(Delayed \ U) \/ UNCHANGED xNextTaskUnblockTime
    PROVE  /\ xStateListItem' \in [Tasks -> {"ready", "delayed", "overflow", "suspended"}]
           /\ xItemValue' \in [Tasks -> Times]
           /\ xEventListItem' \in [Tasks -> {"none", "event", "pending"}]
           /\ xNextTaskUnblockTime' \in Times
           /\ ticksLeft' \in [Tasks -> Times]
           /\ ItemValues' /\ WakesOnTime' /\ UnblockTimeNotLate'
           /\ \A t \in Tasks : xStateListItem'[t] = xStateListItem[t] \/ xStateListItem'[t] = "ready"
<1> USE DEF IInv
<1>0. 0 \in Times BY DEF TickConstants, Times
<1>1. /\ xStateListItem' = [t \in Tasks |-> IF t \in U THEN "ready" ELSE xStateListItem[t]]
      /\ xItemValue' = [t \in Tasks |-> IF t \in U THEN 0 ELSE xItemValue[t]]
      /\ xEventListItem' = [t \in Tasks |-> IF t \in U THEN "none" ELSE xEventListItem[t]]
  BY DEF MakeReady
<1>2. /\ xStateListItem' \in [Tasks -> {"ready", "delayed", "overflow", "suspended"}]
      /\ xItemValue' \in [Tasks -> Times]
      /\ xEventListItem' \in [Tasks -> {"none", "event", "pending"}]
      /\ ticksLeft' \in [Tasks -> Times]
  BY <1>0, <1>1 DEF TypeOK
<1>3. xNextTaskUnblockTime' \in Times /\ \A t \in Delayed \ U : xNextTaskUnblockTime' <= xItemValue[t]
  BY HeadIsFirst DEF TypeOK, UnblockTimeNotLate
<1>4. ItemValues' BY <1>1 DEF ItemValues
<1>5. WakesOnTime' BY <1>1 DEF WakesOnTime
<1>6. UnblockTimeNotLate' BY <1>1, <1>3 DEF UnblockTimeNotLate, Delayed
<1> QED BY <1>1, <1>2, <1>3, <1>4, <1>5, <1>6

LEMMA InitInvariant == ASSUME TickConstants, Init PROVE IInv
<1>0. 0 \in Times /\ portMAX_DELAY \in Times /\ 0 \in 0 .. Wrap /\ 0 \in 0 .. Overflows - 1
      /\ 0 \in 0 .. MaxPended
  BY DEF TickConstants, Times, portMAX_DELAY
<1>1. TypeOK BY <1>0 DEF Init, TypeOK
<1>2. ItemValues /\ WakesOnTime /\ UnblockTimeNotLate
  BY DEF Init, ItemValues, WakesOnTime, UnblockTimeNotLate, Delayed
<1>3. LockInv BY DEF Init, LockInv
<1>4. PendedInv
  <2> SUFFICES ASSUME NEW t \in Tasks PROVE sinceEntry[t] + uxPendedTicks <= Wrap BY DEF PendedInv
  <2>1. sinceEntry[t] = 0 /\ uxPendedTicks = 0 BY DEF Init
  <2>2. Wrap \in Nat BY DEF TickConstants
  <2>3. 0 + 0 <= Wrap BY <2>2
  <2> QED BY <2>1, <2>3
<1> QED BY <1>1, <1>2, <1>3, <1>4 DEF IInv

\* Steps that leave the lists and the clock alone.
LEMMA ListsAlone ==
    ASSUME IInv,
           UNCHANGED <<xTickCount, xStateListItem, xItemValue, xNextTaskUnblockTime, ticksLeft>>
    PROVE  ItemValues' /\ WakesOnTime' /\ UnblockTimeNotLate'
BY DEF IInv, ItemValues, WakesOnTime, UnblockTimeNotLate, Delayed

LEMMA SwitchStep == ASSUME TickConstants, IInv, Switch PROVE IInv'
<1> USE DEF Switch, IInv, clockVars, listVars, timeOutVars, history
<1>1. TypeOK' BY DEF TypeOK
<1>2. ItemValues' /\ WakesOnTime' /\ UnblockTimeNotLate' BY ListsAlone
<1>3. LockInv' BY DEF LockInv, TypeOK
<1>4. PendedInv' BY DEF PendedInv
<1> QED BY <1>1, <1>2, <1>3, <1>4

LEMMA TickStep == ASSUME TickConstants, IInv, Tick PROVE IInv'
<1>0. /\ Wrap \in Nat /\ MaxPended \in Nat /\ uxPendedTicks \in Nat
      /\ \A t \in Tasks : sinceEntry[t] \in 0 .. Wrap
  BY DEF TickConstants, IInv, TypeOK
<1>1. /\ \A t \in Tasks : sinceEntry[t] + uxPendedTicks < Wrap
      /\ UNCHANGED <<uxSchedulerSuspended, pxCurrentTCB, pc, timeOutVars, pxPreviousWakeTime>>
  BY DEF Tick
<1>2. CASE uxSchedulerSuspended = "no" /\ IncrementTick /\ UNCHANGED uxPendedTicks
  <2> USE <1>2
  <2>1. \A t \in Tasks : sinceEntry'[t] \in 0 .. Wrap /\ sinceEntry'[t] + uxPendedTicks <= Wrap
    BY <1>0, <1>1, TickKeepsLists
  <2>2. sinceEntry' \in [Tasks -> 0 .. Wrap] BY <2>1, TickKeepsLists
  <2>3. TypeOK' BY <1>1, <2>2, TickKeepsLists DEF IInv, TypeOK, timeOutVars
  <2>4. LockInv' BY <1>1 DEF IInv, LockInv
  <2>5. PendedInv' BY <2>1 DEF PendedInv
  <2> QED BY <2>3, <2>4, <2>5, TickKeepsLists DEF IInv
<1>3. CASE /\ uxSchedulerSuspended = "yes"
           /\ uxPendedTicks < MaxPended
           /\ uxPendedTicks' = uxPendedTicks + 1
           /\ UNCHANGED <<clockVars, xNextTaskUnblockTime, listVars, history>>
  <2> USE DEF clockVars, listVars, history, timeOutVars
  <2>1. TypeOK' BY <1>0, <1>1, <1>3 DEF IInv, TypeOK
  <2>2. ItemValues' /\ WakesOnTime' /\ UnblockTimeNotLate' BY <1>3, ListsAlone
  <2>3. LockInv' BY <1>1, <1>3 DEF IInv, LockInv
  <2>4. PendedInv' BY <1>0, <1>1, <1>3 DEF PendedInv
  <2> QED BY <2>1, <2>2, <2>3, <2>4 DEF IInv
<1> QED BY <1>2, <1>3 DEF Tick

LEMMA PendedTickStep == ASSUME TickConstants, IInv, PendedTick PROVE IInv'
<1>0. /\ Wrap \in Nat /\ MaxPended \in Nat /\ uxPendedTicks \in 0 .. MaxPended
      /\ \A t \in Tasks : sinceEntry[t] \in 0 .. Wrap /\ sinceEntry[t] + uxPendedTicks <= Wrap
  BY DEF TickConstants, IInv, TypeOK, PendedInv
<1>1. /\ uxSchedulerSuspended = "resuming" /\ uxPendedTicks > 0
      /\ IncrementTick /\ uxPendedTicks' = uxPendedTicks - 1
      /\ UNCHANGED <<uxSchedulerSuspended, pxCurrentTCB, pc, timeOutVars, pxPreviousWakeTime>>
  BY DEF PendedTick
<1>2. \A t \in Tasks : sinceEntry'[t] \in 0 .. Wrap /\ sinceEntry'[t] + uxPendedTicks' <= Wrap
  BY <1>0, <1>1, TickKeepsLists
<1>3. sinceEntry' \in [Tasks -> 0 .. Wrap] BY <1>1, <1>2, TickKeepsLists
<1>4. uxPendedTicks' \in 0 .. MaxPended BY <1>0, <1>1
<1>5. TypeOK' BY <1>1, <1>3, <1>4, TickKeepsLists DEF IInv, TypeOK, timeOutVars
<1>6. LockInv' BY <1>1 DEF IInv, LockInv
<1>7. PendedInv' BY <1>2 DEF PendedInv
<1> QED BY <1>1, <1>5, <1>6, <1>7, TickKeepsLists DEF IInv

LEMMA ResumedStep == ASSUME TickConstants, IInv, Resumed PROVE IInv'
<1> USE DEF Resumed, IInv, clockVars, listVars, timeOutVars, history
<1>1. TypeOK' BY DEF TypeOK
<1>2. ItemValues' /\ WakesOnTime' /\ UnblockTimeNotLate' BY ListsAlone
<1>3. LockInv' BY DEF LockInv
<1>4. PendedInv' BY DEF PendedInv
<1> QED BY <1>1, <1>2, <1>3, <1>4

-----------------------------------------------------------------------------
(* The steps of a task *)

LEMMA SuspendAllStep == ASSUME TickConstants, IInv, NEW t \in Tasks, SuspendAll(t) PROVE IInv'
<1> USE DEF IInv, clockVars, listVars, timeOutVars, history
<1>0. /\ InApp(t)
      /\ uxSchedulerSuspended' = "yes"
      /\ pc' = [pc EXCEPT ![t] = "locked"]
      /\ UNCHANGED <<clockVars, xNextTaskUnblockTime, uxPendedTicks, pxCurrentTCB, listVars,
                     timeOutVars, pxPreviousWakeTime, history>>
  BY DEF SuspendAll
<1>1. TypeOK' BY <1>0 DEF TypeOK
<1>2. ItemValues' /\ WakesOnTime' /\ UnblockTimeNotLate' BY <1>0, ListsAlone
<1>3. LockInv' BY <1>0 DEF LockInv, TypeOK, InApp, Running
<1>4. PendedInv' BY <1>0 DEF PendedInv
<1> QED BY <1>1, <1>2, <1>3, <1>4

LEMMA ResumeAllStep == ASSUME TickConstants, IInv, NEW t \in Tasks, ResumeAll(t) PROVE IInv'
<1> USE DEF IInv, clockVars, timeOutVars
<1> DEFINE pending == {u \in Tasks : xEventListItem[u] = "pending"}
<1>0. /\ Running(t)
      /\ MakeReady(pending)
      /\ ticksLeft' = [u \in Tasks |-> IF u \in pending THEN 0 ELSE ticksLeft[u]]
      /\ xNextTaskUnblockTime' \in HeadOf(Delayed \ pending) \/ UNCHANGED xNextTaskUnblockTime
      /\ uxSchedulerSuspended' = "resuming"
      /\ uxPendedTicks' = uxPendedTicks
      /\ pc' = [pc EXCEPT ![t] = "app"]
      /\ UNCHANGED <<clockVars, pxCurrentTCB, timeOutVars, pxPreviousWakeTime,
                     waitLeft, sinceEntry, late>>
  BY DEF ResumeAll, Pended
<1> HIDE DEF pending
<1>1. pending \in SUBSET Tasks BY DEF pending
<1>2. /\ xStateListItem' \in [Tasks -> {"ready", "delayed", "overflow", "suspended"}]
      /\ xItemValue' \in [Tasks -> Times]
      /\ xEventListItem' \in [Tasks -> {"none", "event", "pending"}]
      /\ xNextTaskUnblockTime' \in Times
      /\ ticksLeft' \in [Tasks -> Times]
      /\ ItemValues' /\ WakesOnTime' /\ UnblockTimeNotLate'
  BY <1>0, <1>1, MadeReady
<1>3. TypeOK' BY <1>0, <1>2 DEF TypeOK
<1>4. LockInv' BY <1>0 DEF LockInv, TypeOK, Running
<1>5. PendedInv' BY <1>0 DEF PendedInv
<1> QED BY <1>2, <1>3, <1>4, <1>5

LEMMA DelayStep == ASSUME TickConstants, IInv, NEW t \in Tasks, Delay(t) PROVE IInv'
<1> USE DEF IInv, clockVars, timeOutVars
<1>1. PICK ticks \in Delays[t] : AddToDelayedList(t, ticks)
  BY DEF Delay
<1>2. ticks \in 1 .. Wrap - 1 BY <1>1 DEF TickConstants
<1>3. /\ Locked(t)
      /\ pc' = [pc EXCEPT ![t] = "leaving"]
      /\ UNCHANGED <<clockVars, uxPendedTicks, uxSchedulerSuspended, pxCurrentTCB, xEventListItem,
                     timeOutVars, pxPreviousWakeTime, waitLeft, sinceEntry, late>>
  BY DEF Delay
<1>4. TypeOK' BY <1>1, <1>2, <1>3, AddedToList DEF TypeOK
<1>5. ItemValues' /\ WakesOnTime' /\ UnblockTimeNotLate' BY <1>1, <1>2, <1>3, AddedToList
<1>6. LockInv'
  BY <1>1, <1>3 DEF AddToDelayedList, LockInv, TypeOK, Locked, Running
<1>7. PendedInv' BY <1>3 DEF PendedInv
<1> QED BY <1>4, <1>5, <1>6, <1>7

LEMMA DelayUntilStep ==
    ASSUME TickConstants, IInv, NEW t \in Tasks, NEW increment \in Increments[t],
           DelayUntil(t, increment)
    PROVE  IInv'
<1> USE DEF IInv, clockVars, timeOutVars
<1> DEFINE wake == (pxPreviousWakeTime[t] + increment) % Wrap
           ticks == (wake - xTickCount) % Wrap
<1>0. /\ Wrap \in Nat /\ Wrap >= 2 /\ increment \in 1 .. Wrap - 1
      /\ pxPreviousWakeTime[t] \in 0 .. Wrap - 1 /\ xTickCount \in 0 .. Wrap - 1
  BY DEF TickConstants, TypeOK, Times
<1>1. wake \in Times BY <1>0, WrapRange
<1>2. /\ Locked(t)
      /\ pxPreviousWakeTime' = [pxPreviousWakeTime EXCEPT ![t] = wake]
      /\ late' = [late EXCEPT ![t] = @ - increment]
      /\ pc' = [pc EXCEPT ![t] = "leaving"]
      /\ UNCHANGED <<clockVars, uxPendedTicks, uxSchedulerSuspended, pxCurrentTCB, xEventListItem,
                     timeOutVars, waitLeft, sinceEntry>>
  BY DEF DelayUntil
<1>3. pxPreviousWakeTime' \in [Tasks -> Times] /\ late' \in [Tasks -> Int]
      /\ pc' \in [Tasks -> {"app", "locked", "leaving", "reset", "resetLocked"}]
  BY <1>0, <1>1, <1>2 DEF TypeOK
<1>4. LockInv' /\ PendedInv'
  BY <1>2 DEF DelayUntil, AddToDelayedList, LockInv, PendedInv, TypeOK, Locked, Running
<1>5. CASE ShouldDelay(xTickCount, pxPreviousWakeTime[t], increment) /\ AddToDelayedList(t, ticks)
  <2>1. wake # xTickCount
    BY <1>0, <1>1, <1>5 DEF ShouldDelay, Times
  <2> HIDE DEF wake
  <2>2. ticks \in 1 .. Wrap - 1
    <3>1. CASE wake > xTickCount
      <4>1. wake - xTickCount \in 0 .. Wrap - 1 BY <1>0, <1>1, <3>1 DEF Times
      <4> QED BY <1>0, <3>1, <4>1, <1>1, WrapLow DEF Times
    <3>2. CASE wake < xTickCount
      <4>1. wake - xTickCount \in Int /\ -Wrap <= wake - xTickCount /\ wake - xTickCount < 0
        BY <1>0, <1>1, <3>2 DEF Times
      <4>2. ticks = wake - xTickCount + Wrap BY <4>1, WrapNegative
      <4> QED BY <1>0, <1>1, <3>2, <4>2 DEF Times
    <3> QED BY <1>0, <1>1, <2>1, <3>1, <3>2 DEF Times
  <2> HIDE DEF ticks
  <2>3. /\ xStateListItem' \in [Tasks -> {"ready", "delayed", "overflow", "suspended"}]
        /\ xItemValue' \in [Tasks -> Times]
        /\ xNextTaskUnblockTime' \in Times
        /\ ticksLeft' \in [Tasks -> Times]
        /\ ItemValues' /\ WakesOnTime' /\ UnblockTimeNotLate'
    BY <1>2, <1>5, <2>2, AddedToList
  <2>4. TypeOK' BY <1>2, <1>3, <2>3 DEF TypeOK
  <2> QED BY <1>4, <2>3, <2>4
<1>6. CASE UNCHANGED <<xStateListItem, xItemValue, xNextTaskUnblockTime, ticksLeft>>
  <2>1. TypeOK' BY <1>2, <1>3, <1>6 DEF TypeOK
  <2>2. ItemValues' /\ WakesOnTime' /\ UnblockTimeNotLate' BY <1>2, <1>6, ListsAlone
  <2> QED BY <1>4, <2>1, <2>2
<1> QED BY <1>5, <1>6 DEF DelayUntil

LEMMA StartWaitStep == ASSUME TickConstants, IInv, NEW t \in Tasks, StartWait(t) PROVE IInv'
<1> USE DEF IInv, clockVars, listVars, timeOutVars, history
<1>0. Wrap \in Nat /\ Wrap >= 2 /\ Waits[t] \in SUBSET (1 .. Wrap - 1) /\ MaxPended \in Nat
  BY DEF TickConstants
<1>1. PICK ticks \in Waits[t] : /\ xTicksToWait' = [xTicksToWait EXCEPT ![t] = ticks]
                                /\ waitLeft' = [waitLeft EXCEPT ![t] = ticks]
  BY DEF StartWait
<1>2. SetTimeOutState(t)
      /\ UNCHANGED <<clockVars, xNextTaskUnblockTime, uxPendedTicks, uxSchedulerSuspended,
                     pxCurrentTCB, listVars, pc, pxPreviousWakeTime, ticksLeft, late>>
  BY DEF StartWait
<1>3. TypeOK' BY <1>0, <1>1, <1>2 DEF TypeOK, SetTimeOutState, Times
<1>4. ItemValues' /\ WakesOnTime' /\ UnblockTimeNotLate' BY <1>2, ListsAlone
<1>5. LockInv' BY <1>2 DEF LockInv
<1>6. PendedInv' BY <1>0, <1>2 DEF PendedInv, SetTimeOutState, TypeOK
<1> QED BY <1>3, <1>4, <1>5, <1>6

LEMMA EndOfWaitStep ==
    ASSUME TickConstants, IInv, NEW t \in Tasks, EventFound(t) \/ GiveUp(t)
    PROVE  IInv'
<1>0. Wrap \in Nat /\ Wrap >= 2 /\ Overflows \in Nat /\ Overflows >= 3 /\ MaxPended \in Nat
  BY DEF TickConstants
<1>1. /\ EndOfWait(t)
      /\ UNCHANGED pc \/ (pc[t] = "locked" /\ pc' = [pc EXCEPT ![t] = "leaving"])
      /\ UNCHANGED <<clockVars, xNextTaskUnblockTime, uxPendedTicks, uxSchedulerSuspended,
                     pxCurrentTCB, listVars, pxPreviousWakeTime, ticksLeft, late>>
  <2>1. CASE EventFound(t) BY <2>1 DEF EventFound
  <2>2. CASE GiveUp(t) BY <2>2 DEF GiveUp
  <2> QED BY <2>1, <2>2
<1> USE DEF IInv, clockVars, listVars, timeOutVars, history
<1>2. TypeOK' BY <1>0, <1>1 DEF TypeOK, EndOfWait, Times
<1>3. ItemValues' /\ WakesOnTime' /\ UnblockTimeNotLate' BY <1>1, ListsAlone
<1>4. LockInv' BY <1>1 DEF LockInv, TypeOK
<1>5. PendedInv' BY <1>0, <1>1 DEF PendedInv, EndOfWait, TypeOK
<1> QED BY <1>2, <1>3, <1>4, <1>5

LEMMA KeepWaitingStep == ASSUME TickConstants, IInv, NEW t \in Tasks, KeepWaiting(t) PROVE IInv'
<1> USE DEF IInv, clockVars
<1> DEFINE remaining == IF xTicksToWait[t] = portMAX_DELAY THEN portMAX_DELAY
                        ELSE xTicksToWait[t] - Elapsed(t)
<1>0. /\ Wrap \in Nat /\ Wrap >= 2 /\ MaxPended \in Nat
      /\ xTicksToWait[t] \in 0 .. Wrap - 1
      /\ xTickCount \in 0 .. Wrap - 1 /\ xTimeOnEntering[t] \in 0 .. Wrap - 1
  BY DEF TickConstants, TypeOK, Times
<1>1. /\ Running(t) /\ pc[t] = "locked" /\ ~TimedOut(t)
      /\ IF xTicksToWait[t] = portMAX_DELAY
           THEN UNCHANGED <<timeOutVars, sinceEntry>>
           ELSE SetTimeOutState(t) /\ xTicksToWait' = [xTicksToWait EXCEPT ![t] = remaining]
      /\ \/ UNCHANGED <<listVars, xNextTaskUnblockTime, ticksLeft>>
         \/ /\ xEventListItem' = [xEventListItem EXCEPT ![t] = "event"]
            /\ IF remaining = portMAX_DELAY THEN AddToSuspendedList(t)
                                            ELSE AddToDelayedList(t, remaining)
      /\ pc' = [pc EXCEPT ![t] = "leaving"]
      /\ UNCHANGED <<clockVars, uxPendedTicks, uxSchedulerSuspended, pxCurrentTCB,
                     pxPreviousWakeTime, waitLeft, late>>
  BY DEF KeepWaiting
<1>2. remaining \in 1 .. Wrap - 1
  <2>1. CASE xTicksToWait[t] = portMAX_DELAY BY <1>0, <2>1 DEF portMAX_DELAY
  <2>2. CASE xTicksToWait[t] # portMAX_DELAY
    <3>1. Elapsed(t) \in 0 .. Wrap - 1 BY <1>0, WrapRange DEF Elapsed, Times
    <3>2. Elapsed(t) < xTicksToWait[t] BY <1>0, <1>1, <2>2, <3>1 DEF TimedOut
    <3> QED BY <1>0, <2>2, <3>1, <3>2
  <2> QED BY <2>1, <2>2
<1> HIDE DEF remaining
<1>3. /\ xTimeOnEntering' \in [Tasks -> Times] /\ xOverflowCount' \in [Tasks -> 0 .. Overflows - 1]
      /\ xTicksToWait' \in [Tasks -> Times]
  <2>1. CASE UNCHANGED timeOutVars BY <2>1 DEF TypeOK, timeOutVars
  <2>2. CASE SetTimeOutState(t) /\ xTicksToWait' = [xTicksToWait EXCEPT ![t] = remaining]
    BY <1>0, <1>2, <2>2 DEF TypeOK, SetTimeOutState, Times
  <2> QED BY <1>1, <2>1, <2>2
<1>4. sinceEntry' \in [Tasks -> 0 .. Wrap] /\ PendedInv'
  <2>1. CASE UNCHANGED sinceEntry BY <1>1, <2>1 DEF TypeOK, PendedInv
  <2>2. CASE sinceEntry' = [sinceEntry EXCEPT ![t] = 0]
    <3>1. sinceEntry' \in [Tasks -> 0 .. Wrap] BY <1>0, <2>2 DEF TypeOK
    <3>2. \A u \in Tasks : sinceEntry'[u] \in Int /\ sinceEntry[u] \in Int /\ sinceEntry'[u] <= sinceEntry[u]
      BY <1>0, <2>2 DEF TypeOK
    <3>3. \A u \in Tasks : sinceEntry'[u] + uxPendedTicks <= Wrap
      BY <1>0, <3>2 DEF PendedInv, TypeOK
    <3> QED BY <1>1, <3>1, <3>3 DEF PendedInv
  <2> QED BY <1>1, <2>1, <2>2 DEF SetTimeOutState
<1>5. /\ xStateListItem' \in [Tasks -> {"ready", "delayed", "overflow", "suspended"}]
      /\ xItemValue' \in [Tasks -> Times]
      /\ xEventListItem' \in [Tasks -> {"none", "event", "pending"}]
      /\ xNextTaskUnblockTime' \in Times
      /\ ticksLeft' \in [Tasks -> Times]
      /\ ItemValues' /\ WakesOnTime' /\ UnblockTimeNotLate'
      /\ \A u \in Tasks \ {t} : xStateListItem'[u] = xStateListItem[u]
  <2>1. CASE UNCHANGED <<listVars, xNextTaskUnblockTime, ticksLeft>>
    <3>1. UNCHANGED <<xTickCount, xStateListItem, xItemValue, xEventListItem,
                      xNextTaskUnblockTime, ticksLeft>>
      BY <1>1, <2>1 DEF listVars
    <3>2. ItemValues' /\ WakesOnTime' /\ UnblockTimeNotLate' BY <3>1, ListsAlone
    <3> QED BY <3>1, <3>2 DEF TypeOK
  <2>2. CASE xEventListItem' = [xEventListItem EXCEPT ![t] = "event"] /\ AddToDelayedList(t, remaining)
    <3>1. xEventListItem' \in [Tasks -> {"none", "event", "pending"}] BY <2>2 DEF TypeOK
    <3>2. \A u \in Tasks \ {t} : xStateListItem'[u] = xStateListItem[u]
      BY <2>2 DEF AddToDelayedList, TypeOK
    <3> QED BY <1>1, <1>2, <2>2, <3>1, <3>2, AddedToList
  <2>3. CASE xEventListItem' = [xEventListItem EXCEPT ![t] = "event"] /\ AddToSuspendedList(t)
    <3>1. /\ xStateListItem' = [xStateListItem EXCEPT ![t] = "suspended"]
          /\ UNCHANGED <<xTickCount, xItemValue, xNextTaskUnblockTime, ticksLeft>>
      BY <1>1, <2>3 DEF AddToSuspendedList
    <3>2. ticksLeft[t] = 0 /\ xStateListItem[t] = "ready"
      <4>1. xStateListItem[t] = "ready" BY <1>0, <1>1 DEF LockInv
      <4>2. ticksLeft[t] \in Nat BY <1>0 DEF TypeOK, Times
      <4>3. ~(ticksLeft[t] > 0) BY <1>0, <4>1 DEF WakesOnTime
      <4> QED BY <4>1, <4>2, <4>3
    <3>3. xEventListItem' \in [Tasks -> {"none", "event", "pending"}] BY <2>3 DEF TypeOK
    <3>4. xStateListItem' \in [Tasks -> {"ready", "delayed", "overflow", "suspended"}]
          /\ \A u \in Tasks : xStateListItem'[u] = IF u = t THEN "suspended" ELSE xStateListItem[u]
      BY <3>1 DEF TypeOK
    <3>5. ItemValues' BY <3>1, <3>4 DEF ItemValues
    <3>6. WakesOnTime' BY <3>1, <3>2, <3>4 DEF WakesOnTime
    <3>7. UnblockTimeNotLate' BY <3>1, <3>4 DEF UnblockTimeNotLate, Delayed
    <3> QED BY <3>1, <3>3, <3>4, <3>5, <3>6, <3>7 DEF TypeOK
  <2> QED BY <1>1, <2>1, <2>2, <2>3
<1>6. TypeOK' BY <1>1, <1>3, <1>4, <1>5 DEF TypeOK
<1>7. LockInv' BY <1>1, <1>5 DEF LockInv, TypeOK, Running
<1> QED BY <1>4, <1>5, <1>6, <1>7

LEMMA ResetUnblockTimeStep ==
    ASSUME TickConstants, IInv, NEW t \in Tasks, ResetUnblockTime(t)
    PROVE  IInv'
<1> USE DEF IInv, clockVars, listVars, timeOutVars, history
<1>1. /\ Running(t)
      /\ xNextTaskUnblockTime' \in HeadOf(Delayed)
      /\ pc[t] \in {"reset", "resetLocked"}
      /\ pc' = [pc EXCEPT ![t] = IF @ = "reset" THEN "app" ELSE "locked"]
      /\ UNCHANGED <<clockVars, uxPendedTicks, uxSchedulerSuspended, pxCurrentTCB, listVars,
                     timeOutVars, pxPreviousWakeTime, history>>
  BY DEF ResetUnblockTime
<1>2. xNextTaskUnblockTime' \in Times /\ \A u \in Delayed : xNextTaskUnblockTime' <= xItemValue[u]
  BY <1>1, HeadIsFirst
<1>3. TypeOK' BY <1>1, <1>2 DEF TypeOK
<1>4. ItemValues' /\ WakesOnTime' /\ UnblockTimeNotLate'
  BY <1>1, <1>2 DEF ItemValues, WakesOnTime, UnblockTimeNotLate, Delayed
<1>5. LockInv' BY <1>1 DEF LockInv, TypeOK, Running
<1>6. PendedInv' BY <1>1 DEF PendedInv
<1> QED BY <1>3, <1>4, <1>5, <1>6

\* Only a task other than the one that has the scheduler suspended leaves the
\* ready lists.
LEMMA SuspendStep ==
    ASSUME TickConstants, IInv, NEW t \in Tasks, NEW u \in Tasks, Suspend(t, u)
    PROVE  IInv'
<1> USE DEF IInv, clockVars, timeOutVars
<1>0. 0 \in Times BY DEF TickConstants, Times
<1>1. /\ InApp(t) \/ (Locked(t) /\ u # t)
      /\ xStateListItem' = [xStateListItem EXCEPT ![u] = "suspended"]
      /\ xItemValue' = [xItemValue EXCEPT ![u] = 0]
      /\ xEventListItem' = [xEventListItem EXCEPT ![u] = "none"]
      /\ ticksLeft' = [ticksLeft EXCEPT ![u] = 0]
      /\ pc' = [pc EXCEPT ![t] = IF pc[t] = "locked" THEN "resetLocked" ELSE "reset"]
      /\ UNCHANGED <<clockVars, xNextTaskUnblockTime, uxPendedTicks, uxSchedulerSuspended,
                     pxCurrentTCB, timeOutVars, pxPreviousWakeTime, waitLeft, sinceEntry, late>>
  BY DEF Suspend
<1>2. TypeOK' BY <1>0, <1>1 DEF TypeOK
<1>3. ItemValues' BY <1>1 DEF ItemValues, TypeOK
<1>4. WakesOnTime' BY <1>1 DEF WakesOnTime, TypeOK
<1>5. UnblockTimeNotLate' BY <1>1 DEF UnblockTimeNotLate, Delayed, TypeOK
<1>6. LockInv'
  <2>1. CASE InApp(t) BY <1>1, <2>1 DEF InApp, Running, LockInv, TypeOK
  <2>2. CASE Locked(t) /\ u # t BY <1>1, <2>2 DEF Locked, Running, LockInv, TypeOK
  <2> QED BY <1>1, <2>1, <2>2
<1>7. PendedInv' BY <1>1 DEF PendedInv
<1> QED BY <1>2, <1>3, <1>4, <1>5, <1>6, <1>7

\* A task that is made ready, or marked to be made ready later.
LEMMA ReadyStep ==
    ASSUME TickConstants, IInv, NEW u \in Tasks,
           \/ MakeReady({u}) /\ ticksLeft' = [ticksLeft EXCEPT ![u] = 0]
           \/ /\ xEventListItem' = [xEventListItem EXCEPT ![u] = "pending"]
              /\ UNCHANGED <<xStateListItem, xItemValue, ticksLeft>>,
           UNCHANGED <<clockVars, xNextTaskUnblockTime, uxPendedTicks, uxSchedulerSuspended,
                       pxCurrentTCB, pc, timeOutVars, pxPreviousWakeTime, waitLeft, sinceEntry, late>>
    PROVE  IInv'
<1> USE DEF IInv, clockVars, timeOutVars
<1>1. /\ xStateListItem' \in [Tasks -> {"ready", "delayed", "overflow", "suspended"}]
      /\ xItemValue' \in [Tasks -> Times]
      /\ xEventListItem' \in [Tasks -> {"none", "event", "pending"}]
      /\ ticksLeft' \in [Tasks -> Times]
      /\ ItemValues' /\ WakesOnTime' /\ UnblockTimeNotLate'
      /\ \A t \in Tasks : xStateListItem'[t] = xStateListItem[t] \/ xStateListItem'[t] = "ready"
  <2>1. CASE MakeReady({u}) /\ ticksLeft' = [ticksLeft EXCEPT ![u] = 0]
    <3>1. ticksLeft' = [t \in Tasks |-> IF t \in {u} THEN 0 ELSE ticksLeft[t]]
      BY <2>1 DEF TypeOK
    <3> QED BY <2>1, <3>1, MadeReady
  <2>2. CASE /\ xEventListItem' = [xEventListItem EXCEPT ![u] = "pending"]
             /\ UNCHANGED <<xStateListItem, xItemValue, ticksLeft>>
    <3>1. ItemValues' /\ WakesOnTime' /\ UnblockTimeNotLate' BY <2>2, ListsAlone
    <3> QED BY <2>2, <3>1 DEF TypeOK
  <2> QED BY <2>1, <2>2
<1>2. TypeOK' BY <1>1 DEF TypeOK
<1>3. LockInv' BY <1>1 DEF LockInv
<1>4. PendedInv' BY DEF PendedInv
<1> QED BY <1>1, <1>2, <1>3, <1>4

LEMMA EventStep == ASSUME TickConstants, IInv, NEW u \in Tasks, Event(u) PROVE IInv'
BY ReadyStep DEF Event

\* A task that is suspended has no delay left.
LEMMA ResumeStep ==
    ASSUME TickConstants, IInv, NEW u \in Tasks,
           ResumeFromISR(u) \/ \E t \in Tasks : Resume(t, u)
    PROVE  IInv'
<1>0. ticksLeft[u] \in Nat /\ ticksLeft \in [Tasks -> Times]
  BY DEF IInv, TypeOK, Times, TickConstants
<1>1. /\ IsSuspended(u)
      /\ \/ MakeReady({u})
         \/ /\ xEventListItem' = [xEventListItem EXCEPT ![u] = "pending"]
            /\ UNCHANGED <<xStateListItem, xItemValue>>
      /\ UNCHANGED <<clockVars, xNextTaskUnblockTime, uxPendedTicks, uxSchedulerSuspended,
                     pxCurrentTCB, pc, timeOutVars, pxPreviousWakeTime, history>>
  BY DEF ResumeFromISR, Resume
<1>2. ticksLeft[u] = 0 BY <1>0, <1>1 DEF IsSuspended, IInv, WakesOnTime
<1>3. ticksLeft' = [ticksLeft EXCEPT ![u] = 0] /\ UNCHANGED <<ticksLeft, waitLeft, sinceEntry, late>>
  BY <1>0, <1>1, <1>2 DEF history
<1> QED BY <1>1, <1>3, ReadyStep

-----------------------------------------------------------------------------
(* Theorems *)

LEMMA NextInvariant == ASSUME TickConstants, IInv, [Next]_vars PROVE IInv'
<1>1. CASE Switch BY <1>1, SwitchStep
<1>2. CASE Tick BY <1>2, TickStep
<1>3. CASE PendedTick BY <1>3, PendedTickStep
<1>4. CASE Resumed BY <1>4, ResumedStep
<1>5. ASSUME NEW t \in Tasks, Step(t) PROVE IInv'
  <2>1. CASE SuspendAll(t) BY <2>1, SuspendAllStep
  <2>2. CASE ResumeAll(t) BY <2>2, ResumeAllStep
  <2>3. CASE Delay(t) BY <2>3, DelayStep
  <2>4. CASE \E increment \in Increments[t] : DelayUntil(t, increment) BY <2>4, DelayUntilStep
  <2>5. CASE StartWait(t) BY <2>5, StartWaitStep
  <2>6. CASE EventFound(t) \/ GiveUp(t) BY <2>6, EndOfWaitStep
  <2>7. CASE KeepWaiting(t) BY <2>7, KeepWaitingStep
  <2>8. CASE ResetUnblockTime(t) BY <2>8, ResetUnblockTimeStep
  <2>9. CASE \E u \in Tasks : Suspend(t, u) BY <2>9, SuspendStep
  <2>10. CASE \E u \in Tasks : Resume(t, u) BY <2>10, ResumeStep
  <2> QED BY <1>5, <2>1, <2>2, <2>3, <2>4, <2>5, <2>6, <2>7, <2>8, <2>9, <2>10 DEF Step
<1>6. ASSUME NEW t \in Tasks, Event(t) PROVE IInv' BY <1>6, EventStep
<1>7. ASSUME NEW t \in Tasks, ResumeFromISR(t) PROVE IInv' BY <1>7, ResumeStep
<1>8. CASE UNCHANGED vars
  <2> USE DEF vars, clockVars, listVars, timeOutVars, history
  <2>1. TypeOK' BY <1>8 DEF IInv, TypeOK
  <2>2. ItemValues' /\ WakesOnTime' /\ UnblockTimeNotLate' BY <1>8, ListsAlone
  <2>3. LockInv' /\ PendedInv' BY <1>8 DEF IInv, LockInv, PendedInv
  <2> QED BY <2>1, <2>2, <2>3 DEF IInv
<1> QED BY <1>1, <1>2, <1>3, <1>4, <1>5, <1>6, <1>7, <1>8 DEF Next

LEMMA Invariant == Spec => []IInv
<1>1. Init => IInv BY TickConstants, InitInvariant
<1>2. IInv /\ [Next]_vars => IInv' BY TickConstants, NextInvariant
<1> QED BY <1>1, <1>2, PTL DEF Spec

\* The types of TypeOK, for any tasks and any width of the counter.
THEOREM TypeCorrect == Spec => []TypeOK
<1>1. IInv => TypeOK BY DEF IInv
<1> QED BY <1>1, Invariant, PTL

\* Nobody sleeps longer or shorter than asked: a task is in a delayed list for
\* as many ticks as it asked for, whenever the counter wraps and however many
\* ticks were pended.  (prvAddCurrentTaskToDelayedList, xTaskIncrementTick.)
THEOREM OnTime == Spec => []WakesOnTime
<1>1. IInv => WakesOnTime BY DEF IInv
<1> QED BY <1>1, Invariant, PTL

\* xNextTaskUnblockTime never makes the tick skip the delayed list when a task
\* is due, in every interleaving with tasks that are suspended, resumed or
\* woken by events.
THEOREM UnblockTimeSafe == Spec => []UnblockTimeNotLate
<1>1. IInv => UnblockTimeNotLate BY DEF IInv
<1> QED BY <1>1, Invariant, PTL

\* The assertion of taskSWITCH_DELAYED_LISTS never fails.
THEOREM SwitchSafe == Spec => []EmptyAtSwitch
<1>1. IInv => EmptyAtSwitch
  <2> SUFFICES ASSUME IInv PROVE EmptyAtSwitch OBVIOUS
  <2> QED BY TickConstants, SwitchedEmpty DEF EmptyAtSwitch
<1> QED BY <1>1, Invariant, PTL

\* Every tick that came while the scheduler was suspended is counted, in the
\* critical section of xTaskResumeAll.
THEOREM TicksCounted == Spec => NoTickLost
<1> DEFINE Counted == uxPendedTicks' < uxPendedTicks =>
                          /\ uxPendedTicks' = uxPendedTicks - 1
                          /\ xTickCount' = (xTickCount + 1) % Wrap
<1>1. ASSUME IInv, [Next]_vars PROVE [Counted]_vars
  <2> SUFFICES ASSUME uxPendedTicks' < uxPendedTicks
               PROVE  uxPendedTicks' = uxPendedTicks - 1 /\ xTickCount' = (xTickCount + 1) % Wrap
    OBVIOUS
  <2>0. uxPendedTicks \in Nat /\ Wrap \in Nat /\ Wrap >= 2 /\ xTickCount \in 0 .. Wrap - 1
    <3>1. Wrap \in Nat /\ Wrap >= 2 /\ MaxPended \in Nat BY TickConstants DEF TickConstants
    <3> QED BY <1>1, <3>1 DEF IInv, TypeOK, Times
  <2>1. uxPendedTicks' # uxPendedTicks BY <2>0
  <2>2. CASE PendedTick
    <3>1. xTickCount' = IF xTickCount = Wrap - 1 THEN 0 ELSE xTickCount + 1
      BY <2>0, <2>2 DEF PendedTick, IncrementTick
    <3>2. xTickCount' = (xTickCount + 1) % Wrap
      <4>1. CASE xTickCount = Wrap - 1 BY <2>0, <3>1, <4>1, TickConstants, WrapHigh
      <4>2. CASE xTickCount # Wrap - 1 BY <2>0, <3>1, <4>2, TickConstants, WrapLow
      <4> QED BY <4>1, <4>2
    <3> QED BY <2>2, <3>2 DEF PendedTick
  <2>3. CASE Tick BY <2>0, <2>3 DEF Tick
  <2>4. CASE Switch \/ Resumed BY <2>1, <2>4 DEF Switch, Resumed
  <2>5. ASSUME NEW t \in Tasks, Step(t) \/ Event(t) \/ ResumeFromISR(t) PROVE FALSE
    BY <2>1, <2>5 DEF Step, SuspendAll, ResumeAll, Pended, Delay, DelayUntil, StartWait, EventFound,
       GiveUp, KeepWaiting, ResetUnblockTime, Suspend, Resume, Event, ResumeFromISR
  <2>6. CASE UNCHANGED vars BY <2>1, <2>6 DEF vars
  <2> QED BY <1>1, <2>2, <2>3, <2>4, <2>5, <2>6 DEF Next
<1>2. Spec => [][Next]_vars BY DEF Spec
<1> QED BY <1>1, <1>2, Invariant, PTL DEF NoTickLost

-----------------------------------------------------------------------------
(* Waits with a time limit *)

\* Since its time-out state was set the counter has come at most once around,
\* and what is left of the wait is what was left then less the ticks since.
TimeOutInv ==
    \A t \in Tasks : xTicksToWait[t] > 0 =>
        /\ \/ /\ xTickCount = xTimeOnEntering[t] + sinceEntry[t]
              /\ xNumOfOverflows = xOverflowCount[t]
           \/ /\ xTickCount + Wrap = xTimeOnEntering[t] + sinceEntry[t]
              /\ xNumOfOverflows = (xOverflowCount[t] + 1) % Overflows
        /\ xTicksToWait[t] # portMAX_DELAY =>
              waitLeft[t] = IF sinceEntry[t] < xTicksToWait[t] THEN xTicksToWait[t] - sinceEntry[t]
                                                               ELSE 0

LEMMA NextOverflow ==
    ASSUME TickConstants, NEW n \in 0 .. Overflows - 1
    PROVE  (n + 1) % Overflows # n
<1>0. Overflows \in Nat /\ Overflows >= 3 BY DEF TickConstants
<1>1. CASE n = Overflows - 1 BY <1>0, <1>1
<1>2. CASE n # Overflows - 1
  <2>1. n + 1 \in 0 .. Overflows - 1 BY <1>0, <1>2
  <2>2. (n + 1) % Overflows = n + 1 BY <1>0, <2>1
  <2> QED BY <2>2
<1> QED BY <1>1, <1>2

\* What the counter and the overflows say of the ticks since the time-out state
\* was set, and so what xTaskCheckForTimeOut decides.
LEMMA TimeOutDecision ==
    ASSUME TickConstants, TypeOK, TimeOutInv, NEW t \in Tasks, xTicksToWait[t] > 0,
           xTicksToWait[t] # portMAX_DELAY
    PROVE  /\ TimedOut(t) <=> sinceEntry[t] >= xTicksToWait[t]
           /\ sinceEntry[t] < Wrap => Elapsed(t) = sinceEntry[t]
<1>0. /\ Wrap \in Nat /\ Wrap >= 2
      /\ xTickCount \in 0 .. Wrap - 1 /\ xTimeOnEntering[t] \in 0 .. Wrap - 1
      /\ xTicksToWait[t] \in 1 .. Wrap - 1 /\ sinceEntry[t] \in 0 .. Wrap
      /\ xOverflowCount[t] \in 0 .. Overflows - 1
  BY DEF TickConstants, TypeOK, Times
<1>1. CASE /\ xTickCount = xTimeOnEntering[t] + sinceEntry[t]
           /\ xNumOfOverflows = xOverflowCount[t]
  <2>1. xTickCount - xTimeOnEntering[t] = sinceEntry[t] /\ sinceEntry[t] \in 0 .. Wrap - 1
    BY <1>0, <1>1
  <2>2. Elapsed(t) = sinceEntry[t] BY <2>1, WrapLow DEF Elapsed
  <2> QED BY <1>1, <2>2 DEF TimedOut
<1>2. CASE /\ xTickCount + Wrap = xTimeOnEntering[t] + sinceEntry[t]
           /\ xNumOfOverflows = (xOverflowCount[t] + 1) % Overflows
  <2>1. xNumOfOverflows # xOverflowCount[t] BY <1>0, <1>2, NextOverflow
  <2>2. CASE sinceEntry[t] = Wrap
    <3>1. xTickCount >= xTimeOnEntering[t] BY <1>0, <1>2, <2>2
    <3> QED BY <1>0, <2>1, <2>2, <3>1 DEF TimedOut
  <2>3. CASE sinceEntry[t] < Wrap
    <3>1. xTickCount < xTimeOnEntering[t] BY <1>0, <1>2, <2>3
    <3>2. /\ xTickCount - xTimeOnEntering[t] \in Int
          /\ -Wrap <= xTickCount - xTimeOnEntering[t] /\ xTickCount - xTimeOnEntering[t] < 0
          /\ xTickCount - xTimeOnEntering[t] + Wrap = sinceEntry[t]
      BY <1>0, <1>2, <3>1
    <3>3. Elapsed(t) = sinceEntry[t] BY <3>2, WrapNegative DEF Elapsed
    <3>4. ~(xTickCount >= xTimeOnEntering[t]) BY <1>0, <3>1
    <3> QED BY <3>3, <3>4 DEF TimedOut
  <2> QED BY <1>0, <2>2, <2>3
<1> QED BY <1>1, <1>2 DEF TimeOutInv

\* A tick counts for the wait and for the counter.
LEMMA TimeOutTick ==
    ASSUME TickConstants, IInv, TimeOutInv, IncrementTick, UNCHANGED timeOutVars,
           \A t \in Tasks : sinceEntry[t] < Wrap
    PROVE  TimeOutInv'
<1> SUFFICES ASSUME NEW t \in Tasks, xTicksToWait[t] > 0
             PROVE  /\ \/ /\ xTickCount' = xTimeOnEntering[t] + sinceEntry'[t]
                          /\ xNumOfOverflows' = xOverflowCount[t]
                       \/ /\ xTickCount' + Wrap = xTimeOnEntering[t] + sinceEntry'[t]
                          /\ xNumOfOverflows' = (xOverflowCount[t] + 1) % Overflows
                    /\ xTicksToWait[t] # portMAX_DELAY =>
                          waitLeft'[t] = IF sinceEntry'[t] < xTicksToWait[t]
                                           THEN xTicksToWait[t] - sinceEntry'[t] ELSE 0
  BY DEF TimeOutInv, timeOutVars, portMAX_DELAY
<1>0. /\ Wrap \in Nat /\ Wrap >= 2
      /\ xTickCount \in 0 .. Wrap - 1 /\ xTimeOnEntering[t] \in 0 .. Wrap - 1
      /\ xTicksToWait[t] \in 1 .. Wrap - 1 /\ sinceEntry[t] \in 0 .. Wrap - 1
      /\ waitLeft[t] \in 0 .. Wrap - 1
  BY DEF TickConstants, IInv, TypeOK, Times
<1>1. /\ sinceEntry'[t] = sinceEntry[t] + 1
      /\ waitLeft'[t] = IF waitLeft[t] > 0 THEN waitLeft[t] - 1 ELSE 0
  BY DEF IncrementTick, HistoryTick
<1>2. \/ xTickCount' = xTickCount + 1 /\ xNumOfOverflows' = xNumOfOverflows
      \/ /\ xTickCount = Wrap - 1 /\ xTickCount' = 0
         /\ xNumOfOverflows' = (xNumOfOverflows + 1) % Overflows
  BY DEF IncrementTick
<1>3. \/ /\ xTickCount = xTimeOnEntering[t] + sinceEntry[t]
         /\ xNumOfOverflows = xOverflowCount[t]
      \/ /\ xTickCount + Wrap = xTimeOnEntering[t] + sinceEntry[t]
         /\ xNumOfOverflows = (xOverflowCount[t] + 1) % Overflows
  BY DEF TimeOutInv
<1>4. \/ /\ xTickCount' = xTimeOnEntering[t] + sinceEntry'[t]
         /\ xNumOfOverflows' = xOverflowCount[t]
      \/ /\ xTickCount' + Wrap = xTimeOnEntering[t] + sinceEntry'[t]
         /\ xNumOfOverflows' = (xOverflowCount[t] + 1) % Overflows
  <2>1. CASE xTickCount' = xTickCount + 1 /\ xNumOfOverflows' = xNumOfOverflows
    BY <1>0, <1>1, <1>3, <2>1
  <2>2. CASE /\ xTickCount = Wrap - 1 /\ xTickCount' = 0
             /\ xNumOfOverflows' = (xNumOfOverflows + 1) % Overflows
    <3>1. ~(xTickCount + Wrap = xTimeOnEntering[t] + sinceEntry[t]) BY <1>0, <2>2
    <3>2. xTickCount' + Wrap = xTimeOnEntering[t] + sinceEntry'[t] BY <1>0, <1>1, <1>3, <2>2, <3>1
    <3> QED BY <1>3, <2>2, <3>1, <3>2
  <2> QED BY <1>2, <2>1, <2>2
<1>5. ASSUME xTicksToWait[t] # portMAX_DELAY
      PROVE  waitLeft'[t] = IF sinceEntry'[t] < xTicksToWait[t]
                              THEN xTicksToWait[t] - sinceEntry'[t] ELSE 0
  <2>1. waitLeft[t] = IF sinceEntry[t] < xTicksToWait[t] THEN xTicksToWait[t] - sinceEntry[t] ELSE 0
    BY <1>5 DEF TimeOutInv
  <2> QED BY <1>0, <1>1, <2>1
<1> QED BY <1>4, <1>5

LEMMA TimeOutNext ==
    ASSUME TickConstants, IInv, TimeOutInv, [Next]_vars
    PROVE  TimeOutInv'
<1>0. /\ Wrap \in Nat /\ Wrap >= 2
      /\ xTicksToWait \in [Tasks -> 0 .. Wrap - 1] /\ sinceEntry \in [Tasks -> 0 .. Wrap]
      /\ waitLeft \in [Tasks -> 0 .. Wrap - 1] /\ xTimeOnEntering \in [Tasks -> 0 .. Wrap - 1]
      /\ xOverflowCount \in [Tasks -> 0 .. Overflows - 1]
      /\ xTickCount \in 0 .. Wrap - 1 /\ uxPendedTicks \in Nat
  BY DEF TickConstants, IInv, TypeOK, Times
<1>1. CASE UNCHANGED <<clockVars, timeOutVars, waitLeft, sinceEntry>>
  BY <1>1 DEF TimeOutInv, clockVars, timeOutVars, portMAX_DELAY
<1>2. CASE Tick
  <2>1. UNCHANGED timeOutVars /\ \A t \in Tasks : sinceEntry[t] < Wrap
    BY <1>0, <1>2 DEF Tick
  <2>2. CASE IncrementTick BY <2>1, <2>2, TimeOutTick
  <2>3. CASE UNCHANGED <<clockVars, history>> BY <1>1, <2>1, <2>3 DEF history
  <2> QED BY <1>2, <2>2, <2>3 DEF Tick
<1>3. CASE PendedTick
  <2>1. \A t \in Tasks : sinceEntry[t] < Wrap
    BY <1>0, <1>3 DEF PendedTick, IInv, PendedInv
  <2> QED BY <1>3, <2>1, TimeOutTick DEF PendedTick
<1>4. ASSUME NEW t \in Tasks, StartWait(t) PROVE TimeOutInv'
  <2>1. PICK ticks \in Waits[t] : /\ xTicksToWait' = [xTicksToWait EXCEPT ![t] = ticks]
                                  /\ waitLeft' = [waitLeft EXCEPT ![t] = ticks]
    BY <1>4 DEF StartWait
  <2>2. /\ ticks \in 1 .. Wrap - 1
        /\ UNCHANGED clockVars
        /\ xOverflowCount' = [xOverflowCount EXCEPT ![t] = xNumOfOverflows]
        /\ xTimeOnEntering' = [xTimeOnEntering EXCEPT ![t] = xTickCount]
        /\ sinceEntry' = [sinceEntry EXCEPT ![t] = 0]
    BY <1>0, <1>4, <2>1 DEF StartWait, SetTimeOutState, TickConstants
  <2> QED BY <1>0, <2>1, <2>2 DEF TimeOutInv, clockVars, portMAX_DELAY
<1>5. ASSUME NEW t \in Tasks, EventFound(t) \/ GiveUp(t) PROVE TimeOutInv'
  <2>1. EndOfWait(t) /\ UNCHANGED clockVars BY <1>5 DEF EventFound, GiveUp
  <2> QED BY <1>0, <2>1 DEF TimeOutInv, EndOfWait, clockVars, portMAX_DELAY
<1>6. ASSUME NEW t \in Tasks, KeepWaiting(t) PROVE TimeOutInv'
  <2>1. UNCHANGED clockVars /\ UNCHANGED waitLeft /\ xTicksToWait[t] > 0 /\ ~TimedOut(t)
    BY <1>6 DEF KeepWaiting
  <2>2. CASE xTicksToWait[t] = portMAX_DELAY
    BY <1>1, <1>6, <2>1, <2>2 DEF KeepWaiting
  <2>3. CASE xTicksToWait[t] # portMAX_DELAY
    <3>1. sinceEntry[t] < xTicksToWait[t] /\ Elapsed(t) = sinceEntry[t]
      BY <1>0, <2>1, <2>3, TimeOutDecision DEF IInv
    <3>2. /\ xTicksToWait' = [xTicksToWait EXCEPT ![t] = xTicksToWait[t] - sinceEntry[t]]
          /\ xOverflowCount' = [xOverflowCount EXCEPT ![t] = xNumOfOverflows]
          /\ xTimeOnEntering' = [xTimeOnEntering EXCEPT ![t] = xTickCount]
          /\ sinceEntry' = [sinceEntry EXCEPT ![t] = 0]
      BY <1>6, <2>3, <3>1 DEF KeepWaiting, SetTimeOutState
    <3>3. waitLeft[t] = xTicksToWait[t] - sinceEntry[t]
      BY <2>1, <2>3, <3>1 DEF TimeOutInv
    <3> QED BY <1>0, <2>1, <3>1, <3>2, <3>3 DEF TimeOutInv, clockVars, portMAX_DELAY
  <2> QED BY <2>2, <2>3
<1>7. CASE Switch \/ Resumed \/ UNCHANGED vars
  BY <1>1, <1>7 DEF Switch, Resumed, vars, history
<1>8. ASSUME NEW t \in Tasks,
             \/ SuspendAll(t) \/ ResumeAll(t) \/ Delay(t)
             \/ \E increment \in Increments[t] : DelayUntil(t, increment)
             \/ ResetUnblockTime(t) \/ Event(t) \/ ResumeFromISR(t)
             \/ \E u \in Tasks : Suspend(t, u) \/ Resume(t, u)
      PROVE  TimeOutInv'
  BY <1>1, <1>8 DEF SuspendAll, ResumeAll, Delay, DelayUntil, ResetUnblockTime, Event,
     ResumeFromISR, Suspend, Resume, history
<1> QED BY <1>2, <1>3, <1>4, <1>5, <1>6, <1>7, <1>8 DEF Next, Step

\* A wait with a time limit ends exactly when its time is over, whether the tick
\* counter or the count of its overflows wrapped meanwhile and however often the
\* task was woken in vain.  (xTaskCheckForTimeOut.)
THEOREM TimeOutsExact == Spec => []TimeOutExact
<1>1. Init => TimeOutInv
  BY DEF Init, TimeOutInv
<1>2. IInv /\ TimeOutInv /\ [Next]_vars => TimeOutInv' BY TickConstants, TimeOutNext
<1>3. ASSUME IInv, TimeOutInv PROVE TimeOutExact
  <2> SUFFICES ASSUME NEW t \in Tasks, xTicksToWait[t] \notin {0, portMAX_DELAY}
               PROVE  TimedOut(t) <=> waitLeft[t] = 0
    BY DEF TimeOutExact
  <2>1. /\ xTicksToWait[t] \in Int /\ xTicksToWait[t] > 0 /\ sinceEntry[t] \in Int
    BY <1>3, TickConstants DEF IInv, TypeOK, Times, TickConstants
  <2>2. TimedOut(t) <=> sinceEntry[t] >= xTicksToWait[t]
    BY <1>3, <2>1, TickConstants, TimeOutDecision DEF IInv
  <2>3. waitLeft[t] = IF sinceEntry[t] < xTicksToWait[t] THEN xTicksToWait[t] - sinceEntry[t] ELSE 0
    BY <1>3, <2>1 DEF TimeOutInv
  <2> QED BY <2>1, <2>2, <2>3
<1> QED BY <1>1, <1>2, <1>3, Invariant, PTL DEF Spec

-----------------------------------------------------------------------------
(* Waits without a time limit *)

\* A ready task is on no event list.
EventInv == \A t \in Tasks : xStateListItem[t] = "ready" => xEventListItem[t] = "none"

LEMMA EventNext ==
    ASSUME TickConstants, IInv, EventInv, [Next]_vars
    PROVE  EventInv'
<1>0. /\ xStateListItem \in [Tasks -> {"ready", "delayed", "overflow", "suspended"}]
      /\ xEventListItem \in [Tasks -> {"none", "event", "pending"}]
  BY DEF IInv, TypeOK
<1>1. CASE UNCHANGED listVars BY <1>1 DEF EventInv, listVars
<1>2. ASSUME NEW U, MakeReady(U) PROVE EventInv' BY <1>2 DEF EventInv, MakeReady
<1>3. ASSUME IncrementTick PROVE EventInv'
  <2>1. PICK due, where : /\ Wake(due, where)
                          /\ \A t \in Tasks : where[t] = "ready" => xStateListItem[t] = "ready"
    <3>1. CASE \E now, unblockTime : WakeDue(now, Delayed, xStateListItem, unblockTime)
      BY <3>1 DEF WakeDue
    <3>2. CASE \E now, unblockTime : WakeDue(now, Overflowed, [t \in Tasks |-> Switched(t)], unblockTime)
      <4>1. PICK due, where : Wake(due, where) /\ where = [t \in Tasks |-> Switched(t)]
        BY <3>2 DEF WakeDue
      <4>2. \A t \in Tasks : Switched(t) = "ready" => xStateListItem[t] = "ready"
        BY DEF Switched
      <4> QED BY <4>1, <4>2
    <3> QED BY <1>3, <3>1, <3>2 DEF IncrementTick
  <2> QED BY <2>1 DEF EventInv, Wake
<1>4. CASE Tick BY <1>1, <1>3, <1>4 DEF Tick
<1>5. CASE PendedTick BY <1>3, <1>5 DEF PendedTick
<1>6. ASSUME NEW t \in Tasks, NEW ticks, AddToDelayedList(t, ticks) \/ AddToSuspendedList(t),
             UNCHANGED xEventListItem \/ xEventListItem' = [xEventListItem EXCEPT ![t] = "event"]
      PROVE  EventInv'
  <2>1. PICK list \in {"delayed", "overflow", "suspended"} :
            xStateListItem' = [xStateListItem EXCEPT ![t] = list]
    BY <1>6 DEF AddToDelayedList, AddToSuspendedList, Target
  <2>2. \A u \in Tasks : xStateListItem'[u] = IF u = t THEN list ELSE xStateListItem[u]
    BY <1>0, <2>1
  <2>3. \A u \in Tasks \ {t} : xEventListItem'[u] = xEventListItem[u]
    BY <1>0, <1>6
  <2>4. list # "ready" BY <2>1
  <2> QED BY <2>2, <2>3, <2>4 DEF EventInv
<1>7. ASSUME NEW t \in Tasks, Step(t) PROVE EventInv'
  <2>1. CASE ResumeAll(t) BY <1>2, <2>1 DEF ResumeAll
  <2>2. CASE Delay(t) BY <1>6, <2>2 DEF Delay
  <2>3. CASE \E increment \in Increments[t] : DelayUntil(t, increment)
    BY <1>0, <1>6, <2>3 DEF DelayUntil, EventInv
  <2>4. CASE KeepWaiting(t) BY <1>1, <1>6, <2>4 DEF KeepWaiting
  <2>5. CASE \E u \in Tasks : Suspend(t, u) BY <1>0, <2>5 DEF Suspend, EventInv
  <2>6. CASE \E u \in Tasks : Resume(t, u) BY <1>2, <2>6 DEF Resume
  <2>7. CASE SuspendAll(t) \/ StartWait(t) \/ EventFound(t) \/ GiveUp(t) \/ ResetUnblockTime(t)
    BY <1>1, <2>7 DEF SuspendAll, StartWait, EventFound, GiveUp, ResetUnblockTime
  <2> QED BY <1>7, <2>1, <2>2, <2>3, <2>4, <2>5, <2>6, <2>7 DEF Step
<1>8. ASSUME NEW u \in Tasks, Event(u) \/ ResumeFromISR(u) PROVE EventInv'
  <2>1. CASE MakeReady({u}) BY <1>2, <2>1
  <2>2. CASE /\ xEventListItem' = [xEventListItem EXCEPT ![u] = "pending"]
             /\ UNCHANGED xStateListItem
    <3>1. xStateListItem[u] # "ready" BY <1>8 DEF Event, ResumeFromISR, IsSuspended, EventInv
    <3> QED BY <1>0, <2>2, <3>1 DEF EventInv
  <2> QED BY <1>8, <2>1, <2>2 DEF Event, ResumeFromISR
<1>9. CASE Switch \/ Resumed \/ UNCHANGED vars
  BY <1>1, <1>9 DEF Switch, Resumed, vars
<1> QED BY <1>4, <1>5, <1>7, <1>8, <1>9 DEF Next

\* A task that waits for an event without a time limit is made ready by nothing
\* but that event: no tick, no xTaskResumeAll and, because prvTaskIsTaskSuspended
\* tells it from a suspended task, no vTaskResume or xTaskResumeFromISR.
THEOREM EventAwaited == Spec => WaitsForEvent
<1> DEFINE Awaited == \A t \in Tasks : xStateListItem[t] = "suspended" /\ xEventListItem[t] = "event"
                          /\ xStateListItem'[t] = "ready" => Event(t)
<1>1. ASSUME IInv, [Next]_vars PROVE [Awaited]_vars
  <2> SUFFICES ASSUME NEW t \in Tasks, xStateListItem[t] = "suspended",
                      xEventListItem[t] = "event", xStateListItem'[t] = "ready"
               PROVE  Event(t)
    BY Zenon
  <2>0. /\ xStateListItem \in [Tasks -> {"ready", "delayed", "overflow", "suspended"}]
        /\ xEventListItem \in [Tasks -> {"none", "event", "pending"}]
    BY <1>1 DEF IInv, TypeOK
  <2>1. xStateListItem'[t] # xStateListItem[t] OBVIOUS
  <2>2. ASSUME IncrementTick PROVE FALSE
    <3>1. t \notin Delayed /\ t \notin Overflowed /\ Switched(t) = "suspended"
      BY DEF Delayed, Overflowed, Switched
    <3> QED BY <2>2, <3>1 DEF IncrementTick, WakeDue, Wake
  <2>3. CASE Tick BY <2>1, <2>2, <2>3 DEF Tick, listVars
  <2>4. CASE PendedTick BY <2>2, <2>4 DEF PendedTick
  <2>5. ASSUME NEW u \in Tasks, NEW ticks, AddToDelayedList(u, ticks) \/ AddToSuspendedList(u)
        PROVE  FALSE
    BY <2>0, <2>1, <2>5 DEF AddToDelayedList, AddToSuspendedList, Target
  <2>6. ASSUME NEW u \in Tasks, Step(u) PROVE FALSE
    <3>1. CASE ResumeAll(u) BY <2>1, <3>1 DEF ResumeAll, MakeReady
    <3>2. CASE Delay(u) BY <2>5, <3>2 DEF Delay
    <3>3. CASE \E increment \in Increments[u] : DelayUntil(u, increment)
      BY <2>1, <2>5, <3>3 DEF DelayUntil
    <3>4. CASE KeepWaiting(u) BY <2>1, <2>5, <3>4 DEF KeepWaiting, listVars
    <3>5. CASE \E v \in Tasks : Suspend(u, v) BY <2>0, <2>1, <3>5 DEF Suspend
    <3>6. CASE \E v \in Tasks : Resume(u, v) BY <2>1, <3>6 DEF Resume, MakeReady, IsSuspended
    <3>7. CASE SuspendAll(u) \/ StartWait(u) \/ EventFound(u) \/ GiveUp(u) \/ ResetUnblockTime(u)
      BY <2>1, <3>7 DEF SuspendAll, StartWait, EventFound, GiveUp, ResetUnblockTime, listVars
    <3> QED BY <2>6, <3>1, <3>2, <3>3, <3>4, <3>5, <3>6, <3>7 DEF Step
  <2>7. ASSUME NEW u \in Tasks, Event(u) PROVE Event(t)
    <3>1. CASE u = t BY <2>7, <3>1
    <3>2. CASE u # t BY <2>1, <2>7, <3>2 DEF Event, MakeReady
    <3> QED BY <3>1, <3>2
  <2>8. ASSUME NEW u \in Tasks, ResumeFromISR(u) PROVE FALSE
    BY <2>1, <2>8 DEF ResumeFromISR, MakeReady, IsSuspended
  <2>9. CASE Switch \/ Resumed \/ UNCHANGED vars BY <2>1, <2>9 DEF Switch, Resumed, vars, listVars
  <2> QED BY <1>1, <2>3, <2>4, <2>6, <2>7, <2>8, <2>9 DEF Next
<1>2. Spec => [][Next]_vars BY DEF Spec
<1> QED BY <1>1, <1>2, Invariant, PTL DEF WaitsForEvent

-----------------------------------------------------------------------------
(* Periodic tasks *)

\* Nobody suspends a periodic task: vTaskDelayUntil cannot tell a call that
\* comes before its time from one that comes after a wrap.
PeriodicNotSuspended == \A t, u \in Tasks : u \in Suspends[t] => Increments[u] = {}

\* The tick count is the previous wake time and how late it is, up to a wrap; a
\* periodic task that is early is asleep, for as long as it is early.
LateInv ==
    \A t \in Tasks : Increments[t] # {} =>
        /\ late[t] >= -(Wrap - 1) /\ late[t] + uxPendedTicks <= Wrap - 1
        /\ \/ xTickCount = pxPreviousWakeTime[t] + late[t]
           \/ xTickCount = pxPreviousWakeTime[t] + late[t] - Wrap
           \/ xTickCount = pxPreviousWakeTime[t] + late[t] + Wrap
        /\ late[t] < 0 => ticksLeft[t] = -late[t] /\ xEventListItem[t] = "none"

LEMMA LateAlone ==
    ASSUME LateInv,
           UNCHANGED <<xTickCount, pxPreviousWakeTime, late, uxPendedTicks>>,
           \A t \in Tasks : Increments[t] # {} /\ late[t] < 0 =>
              ticksLeft'[t] = ticksLeft[t] /\ xEventListItem'[t] = "none"
    PROVE  LateInv'
BY DEF LateInv

LEMMA LateTick ==
    ASSUME TickConstants, IInv, LateInv, IncrementTick, UNCHANGED pxPreviousWakeTime,
           uxPendedTicks' \in Nat,
           \A t \in Tasks : Increments[t] # {} => late[t] + uxPendedTicks' < Wrap - 1
    PROVE  LateInv'
<1> SUFFICES ASSUME NEW t \in Tasks, Increments[t] # {}
             PROVE  /\ late'[t] >= -(Wrap - 1) /\ late'[t] + uxPendedTicks' <= Wrap - 1
                    /\ \/ xTickCount' = pxPreviousWakeTime[t] + late'[t]
                       \/ xTickCount' = pxPreviousWakeTime[t] + late'[t] - Wrap
                       \/ xTickCount' = pxPreviousWakeTime[t] + late'[t] + Wrap
                    /\ late'[t] < 0 => ticksLeft'[t] = -late'[t] /\ xEventListItem'[t] = "none"
  BY DEF LateInv
<1>0. /\ Wrap \in Nat /\ Wrap >= 2
      /\ xTickCount \in 0 .. Wrap - 1 /\ pxPreviousWakeTime[t] \in 0 .. Wrap - 1
      /\ late[t] \in Int /\ ticksLeft[t] \in 0 .. Wrap - 1
  BY DEF TickConstants, IInv, TypeOK, Times
<1>1. /\ late'[t] = late[t] + 1
      /\ ticksLeft'[t] = IF ticksLeft[t] > 0 THEN ticksLeft[t] - 1 ELSE 0
  BY DEF IncrementTick, HistoryTick
<1>2. xTickCount' = xTickCount + 1 \/ (xTickCount = Wrap - 1 /\ xTickCount' = 0)
  BY DEF IncrementTick
<1>3. /\ late[t] >= -(Wrap - 1)
      /\ \/ xTickCount = pxPreviousWakeTime[t] + late[t]
         \/ xTickCount = pxPreviousWakeTime[t] + late[t] - Wrap
         \/ xTickCount = pxPreviousWakeTime[t] + late[t] + Wrap
      /\ late[t] < 0 => ticksLeft[t] = -late[t] /\ xEventListItem[t] = "none"
  BY DEF LateInv
<1>4. late[t] + uxPendedTicks' < Wrap - 1 OBVIOUS
<1>5. xEventListItem[t] = "none" => xEventListItem'[t] = "none"
  BY DEF IncrementTick, WakeDue, Wake
<1>6. late'[t] >= -(Wrap - 1) /\ late'[t] + uxPendedTicks' <= Wrap - 1
  BY <1>0, <1>1, <1>3, <1>4
<1>7. \/ xTickCount' = pxPreviousWakeTime[t] + late'[t]
      \/ xTickCount' = pxPreviousWakeTime[t] + late'[t] - Wrap
      \/ xTickCount' = pxPreviousWakeTime[t] + late'[t] + Wrap
  BY <1>0, <1>1, <1>2, <1>3, <1>4
<1>8. late'[t] < 0 => ticksLeft'[t] = -late'[t] /\ xEventListItem'[t] = "none"
  BY <1>0, <1>1, <1>3, <1>5
<1> QED BY <1>6, <1>7, <1>8

\* A task that calls is ready, so it is not early.
LEMMA NotEarlyWhenLocked ==
    ASSUME TickConstants, IInv, LateInv, NEW t \in Tasks, pc[t] = "locked", Increments[t] # {}
    PROVE  late[t] \in 0 .. Wrap - 1 /\ ticksLeft[t] = 0
<1>0. Wrap \in Nat /\ ticksLeft[t] \in Nat /\ late[t] \in Int /\ uxPendedTicks \in Nat
  BY DEF TickConstants, IInv, TypeOK, Times
<1>1. ticksLeft[t] = 0 BY <1>0 DEF IInv, LockInv, WakesOnTime
<1> QED BY <1>0, <1>1 DEF LateInv

\* A call of vTaskDelayUntil sets the wake time one increment on and delays
\* exactly for what is left until then.
LEMMA DelayUntilKept ==
    ASSUME TickConstants, IInv, LateInv, NEW t \in Tasks, NEW increment \in Increments[t],
           DelayUntil(t, increment)
    PROVE  /\ late'[t] = late[t] - increment
           /\ ticksLeft'[t] = IF late'[t] < 0 THEN -late'[t] ELSE 0
           /\ \A u \in Tasks \ {t} : /\ late'[u] = late[u] /\ ticksLeft'[u] = ticksLeft[u]
                                     /\ pxPreviousWakeTime'[u] = pxPreviousWakeTime[u]
           /\ \/ pxPreviousWakeTime'[t] = pxPreviousWakeTime[t] + increment
              \/ pxPreviousWakeTime'[t] = pxPreviousWakeTime[t] + increment - Wrap
<1> DEFINE previous == pxPreviousWakeTime[t]
           wake == (previous + increment) % Wrap
<1>0. /\ Wrap \in Nat /\ Wrap >= 2 /\ increment \in 1 .. Wrap - 1
      /\ previous \in 0 .. Wrap - 1 /\ xTickCount \in 0 .. Wrap - 1
      /\ late \in [Tasks -> Int] /\ ticksLeft \in [Tasks -> Times]
      /\ pxPreviousWakeTime \in [Tasks -> Times]
  BY DEF TickConstants, IInv, TypeOK, Times
<1>1. pc[t] = "locked" /\ Increments[t] # {} BY DEF DelayUntil, Locked
<1>2. late[t] \in 0 .. Wrap - 1 /\ ticksLeft[t] = 0 BY <1>1, NotEarlyWhenLocked
<1>3. xTickCount = (previous + late[t]) % Wrap
  <2>1. \/ xTickCount = previous + late[t]
        \/ xTickCount = previous + late[t] - Wrap
        \/ xTickCount = previous + late[t] + Wrap
    BY <1>1 DEF LateInv
  <2>2. CASE previous + late[t] < Wrap
    <3>1. (previous + late[t]) % Wrap = previous + late[t] BY <1>0, <1>2, <2>2, WrapLow
    <3> QED BY <1>0, <1>2, <2>1, <2>2, <3>1
  <2>3. CASE previous + late[t] >= Wrap
    <3>1. previous + late[t] \in Wrap .. 2 * Wrap - 1 BY <1>0, <1>2, <2>3
    <3>2. (previous + late[t]) % Wrap = previous + late[t] - Wrap BY <1>0, <1>2, <2>3, <3>1, WrapHigh
    <3> QED BY <1>0, <1>2, <2>1, <2>3, <3>2
  <2> QED BY <1>0, <1>2, <2>2, <2>3
<1>4. /\ ShouldDelay(xTickCount, previous, increment) <=> late[t] < increment
      /\ late[t] < increment => (wake - xTickCount) % Wrap = increment - late[t]
  <2>1. previous \in Times /\ late[t] \in Times BY <1>0, <1>2 DEF Times
  <2> QED BY <1>0, <1>3, <2>1, PeriodDecision
<1>5. /\ pxPreviousWakeTime' = [pxPreviousWakeTime EXCEPT ![t] = wake]
      /\ late' = [late EXCEPT ![t] = late[t] - increment]
      /\ IF ShouldDelay(xTickCount, previous, increment)
           THEN AddToDelayedList(t, (wake - xTickCount) % Wrap)
           ELSE UNCHANGED <<xStateListItem, xItemValue, xNextTaskUnblockTime, ticksLeft>>
  BY DEF DelayUntil
<1>6. wake = previous + increment \/ wake = previous + increment - Wrap
  BY <1>0, WrapLow, WrapHigh
<1> HIDE DEF wake
<1>7. CASE late[t] < increment
  <2>1. ticksLeft' = [ticksLeft EXCEPT ![t] = increment - late[t]]
    BY <1>4, <1>5, <1>7 DEF AddToDelayedList
  <2> QED BY <1>0, <1>2, <1>5, <1>6, <1>7, <2>1
<1>8. CASE ~(late[t] < increment)
  <2>1. ticksLeft' = ticksLeft BY <1>4, <1>5, <1>8
  <2> QED BY <1>0, <1>2, <1>5, <1>6, <1>8, <2>1
<1> QED BY <1>7, <1>8

LEMMA LateNext ==
    ASSUME TickConstants, PeriodicNotSuspended, IInv, EventInv, LateInv, [Next]_vars
    PROVE  LateInv'
<1>0. /\ Wrap \in Nat /\ Wrap >= 2 /\ uxPendedTicks \in Nat
      /\ xTickCount \in 0 .. Wrap - 1 /\ pxPreviousWakeTime \in [Tasks -> 0 .. Wrap - 1]
      /\ late \in [Tasks -> Int] /\ ticksLeft \in [Tasks -> 0 .. Wrap - 1]
      /\ xStateListItem \in [Tasks -> {"ready", "delayed", "overflow", "suspended"}]
      /\ xEventListItem \in [Tasks -> {"none", "event", "pending"}]
  BY DEF TickConstants, IInv, TypeOK, Times
<1> DEFINE Early(t) == Increments[t] # {} /\ late[t] < 0
<1>1. \A t \in Tasks : Early(t) => /\ ticksLeft[t] = -late[t] /\ ticksLeft[t] > 0
                                   /\ xEventListItem[t] = "none"
                                   /\ xStateListItem[t] \in {"delayed", "overflow"}
                                   /\ pc[t] # "locked"
  <2> SUFFICES ASSUME NEW t \in Tasks, Early(t)
               PROVE  /\ ticksLeft[t] = -late[t] /\ ticksLeft[t] > 0
                      /\ xEventListItem[t] = "none"
                      /\ xStateListItem[t] \in {"delayed", "overflow"}
                      /\ pc[t] # "locked"
    OBVIOUS
  <2>1. ticksLeft[t] = -late[t] /\ xEventListItem[t] = "none" BY DEF LateInv
  <2>2. ticksLeft[t] > 0 BY <1>0, <2>1
  <2>3. xStateListItem[t] \in {"delayed", "overflow"} BY <2>2 DEF IInv, WakesOnTime
  <2> QED BY <2>1, <2>2, <2>3 DEF IInv, LockInv
<1>2. ASSUME UNCHANGED <<xTickCount, pxPreviousWakeTime, late, uxPendedTicks>>,
             \A t \in Tasks : Early(t) => /\ ticksLeft'[t] = ticksLeft[t]
                                          /\ xEventListItem'[t] = xEventListItem[t]
      PROVE  LateInv'
  BY <1>1, <1>2, LateAlone
<1>3. ASSUME UNCHANGED <<xTickCount, pxPreviousWakeTime, late, uxPendedTicks>>, NEW u \in Tasks,
             ~Early(u),
             \A t \in Tasks \ {u} : ticksLeft'[t] = ticksLeft[t] /\ xEventListItem'[t] = xEventListItem[t]
      PROVE  LateInv'
  BY <1>2, <1>3
<1> HIDE DEF Early
<1>4. CASE Tick
  <2>0. /\ UNCHANGED pxPreviousWakeTime
        /\ \A t \in Tasks : late[t] + uxPendedTicks < Wrap - 1
    BY <1>4 DEF Tick
  <2>1. CASE IncrementTick /\ UNCHANGED uxPendedTicks BY <1>0, <2>0, <2>1, LateTick
  <2>2. CASE /\ uxPendedTicks' = uxPendedTicks + 1
             /\ UNCHANGED <<clockVars, listVars, history>>
    BY <1>0, <2>0, <2>2 DEF LateInv, clockVars, listVars, history
  <2> QED BY <1>4, <2>1, <2>2 DEF Tick
<1>5. CASE PendedTick
  <2>1. /\ uxPendedTicks > 0 /\ uxPendedTicks' = uxPendedTicks - 1
        /\ IncrementTick /\ UNCHANGED pxPreviousWakeTime
    BY <1>5 DEF PendedTick
  <2>2. \A t \in Tasks : Increments[t] # {} => late[t] + uxPendedTicks' < Wrap - 1
    BY <1>0, <2>1 DEF LateInv
  <2>3. uxPendedTicks' \in Nat BY <1>0, <2>1
  <2> QED BY <2>1, <2>2, <2>3, LateTick
<1>6. ASSUME NEW t \in Tasks, ResumeAll(t) PROVE LateInv'
  <2>1. /\ UNCHANGED <<xTickCount, pxPreviousWakeTime, late, uxPendedTicks>>
        /\ MakeReady({u \in Tasks : xEventListItem[u] = "pending"})
        /\ ticksLeft' = [u \in Tasks |-> IF u \in {v \in Tasks : xEventListItem[v] = "pending"}
                                           THEN 0 ELSE ticksLeft[u]]
    BY <1>6 DEF ResumeAll, Pended, clockVars
  <2>2. \A u \in Tasks : xEventListItem[u] = "none" =>
            ticksLeft'[u] = ticksLeft[u] /\ xEventListItem'[u] = xEventListItem[u]
    BY <2>1 DEF MakeReady
  <2> QED BY <1>1, <1>2, <2>1, <2>2
<1>7. ASSUME NEW t \in Tasks, Delay(t) PROVE LateInv'
  <2>1. ~Early(t) BY <1>1, <1>7 DEF Delay, Locked
  <2>2. \A u \in Tasks \ {t} : ticksLeft'[u] = ticksLeft[u] /\ xEventListItem'[u] = xEventListItem[u]
    BY <1>0, <1>7 DEF Delay, AddToDelayedList
  <2> QED BY <1>3, <1>7, <2>1, <2>2 DEF Delay, clockVars
<1>8. ASSUME NEW t \in Tasks, KeepWaiting(t) PROVE LateInv'
  <2>1. ~Early(t) BY <1>1, <1>8 DEF KeepWaiting
  <2>2. \A u \in Tasks \ {t} : ticksLeft'[u] = ticksLeft[u] /\ xEventListItem'[u] = xEventListItem[u]
    BY <1>0, <1>8 DEF KeepWaiting, AddToDelayedList, AddToSuspendedList, listVars
  <2> QED BY <1>3, <1>8, <2>1, <2>2 DEF KeepWaiting, clockVars
<1>9. ASSUME NEW t \in Tasks, NEW increment \in Increments[t], DelayUntil(t, increment) PROVE LateInv'
  <2>0. /\ pc[t] = "locked" /\ UNCHANGED <<xTickCount, uxPendedTicks, xEventListItem>>
        /\ increment \in 1 .. Wrap - 1 /\ Increments[t] # {}
    BY <1>9 DEF DelayUntil, Locked, clockVars, TickConstants
  <2>1. /\ late'[t] = late[t] - increment
        /\ ticksLeft'[t] = IF late'[t] < 0 THEN -late'[t] ELSE 0
        /\ \A u \in Tasks \ {t} : /\ late'[u] = late[u] /\ ticksLeft'[u] = ticksLeft[u]
                                  /\ pxPreviousWakeTime'[u] = pxPreviousWakeTime[u]
        /\ \/ pxPreviousWakeTime'[t] = pxPreviousWakeTime[t] + increment
           \/ pxPreviousWakeTime'[t] = pxPreviousWakeTime[t] + increment - Wrap
    BY <1>9, DelayUntilKept
  <2>2. late[t] \in 0 .. Wrap - 1 BY <2>0, NotEarlyWhenLocked
  <2>3. xEventListItem[t] = "none" BY <2>0 DEF IInv, LockInv, EventInv
  <2>4. /\ late[t] + uxPendedTicks <= Wrap - 1
        /\ \/ xTickCount = pxPreviousWakeTime[t] + late[t]
           \/ xTickCount = pxPreviousWakeTime[t] + late[t] - Wrap
           \/ xTickCount = pxPreviousWakeTime[t] + late[t] + Wrap
    BY <2>0 DEF LateInv
  <2>5. /\ late'[t] >= -(Wrap - 1) /\ late'[t] + uxPendedTicks <= Wrap - 1
        /\ \/ xTickCount = pxPreviousWakeTime'[t] + late'[t]
           \/ xTickCount = pxPreviousWakeTime'[t] + late'[t] - Wrap
           \/ xTickCount = pxPreviousWakeTime'[t] + late'[t] + Wrap
    BY <1>0, <2>0, <2>1, <2>2, <2>4
  <2>6. late'[t] < 0 => ticksLeft'[t] = -late'[t] BY <2>1
  <2>7. ASSUME NEW u \in Tasks, Increments[u] # {}
        PROVE  /\ late'[u] >= -(Wrap - 1) /\ late'[u] + uxPendedTicks <= Wrap - 1
               /\ \/ xTickCount = pxPreviousWakeTime'[u] + late'[u]
                  \/ xTickCount = pxPreviousWakeTime'[u] + late'[u] - Wrap
                  \/ xTickCount = pxPreviousWakeTime'[u] + late'[u] + Wrap
               /\ late'[u] < 0 => ticksLeft'[u] = -late'[u] /\ xEventListItem[u] = "none"
    <3>1. CASE u = t BY <2>3, <2>5, <2>6, <3>1
    <3>2. CASE u # t BY <2>1, <2>7, <3>2 DEF LateInv
    <3> QED BY <3>1, <3>2
  <2> QED BY <2>0, <2>7 DEF LateInv
<1>10. ASSUME NEW t \in Tasks, NEW u \in Tasks, Suspend(t, u) PROVE LateInv'
  <2>1. ~Early(u) BY <1>10 DEF Suspend, PeriodicNotSuspended, Early
  <2>2. \A v \in Tasks \ {u} : ticksLeft'[v] = ticksLeft[v] /\ xEventListItem'[v] = xEventListItem[v]
    BY <1>0, <1>10 DEF Suspend
  <2> QED BY <1>3, <1>10, <2>1, <2>2 DEF Suspend, clockVars
<1>11. ASSUME NEW u \in Tasks, Event(u) \/ ResumeFromISR(u) \/ \E t \in Tasks : Resume(t, u)
       PROVE  LateInv'
  <2>1. ~Early(u) BY <1>1, <1>11 DEF Event, ResumeFromISR, Resume, IsSuspended
  <2>2. /\ UNCHANGED <<xTickCount, pxPreviousWakeTime, late, uxPendedTicks>>
        /\ UNCHANGED ticksLeft \/ ticksLeft' = [ticksLeft EXCEPT ![u] = 0]
        /\ MakeReady({u}) \/ xEventListItem' = [xEventListItem EXCEPT ![u] = "pending"]
    BY <1>11 DEF Event, ResumeFromISR, Resume, clockVars, history
  <2>3. \A v \in Tasks \ {u} : ticksLeft'[v] = ticksLeft[v]
    BY <1>0, <2>2
  <2>4. \A v \in Tasks \ {u} : xEventListItem'[v] = xEventListItem[v]
    BY <1>0, <2>2 DEF MakeReady
  <2> QED BY <1>3, <2>1, <2>2, <2>3, <2>4
<1>12. CASE UNCHANGED <<xTickCount, pxPreviousWakeTime, late, uxPendedTicks, ticksLeft, xEventListItem>>
  BY <1>2, <1>12
<1>13. CASE Switch \/ Resumed \/ UNCHANGED vars
  BY <1>12, <1>13 DEF Switch, Resumed, vars, clockVars, listVars, history
<1>14. ASSUME NEW t \in Tasks,
              SuspendAll(t) \/ StartWait(t) \/ EventFound(t) \/ GiveUp(t) \/ ResetUnblockTime(t)
       PROVE  LateInv'
  BY <1>12, <1>14 DEF SuspendAll, StartWait, EventFound, GiveUp, ResetUnblockTime, clockVars,
     listVars, history
<1> QED BY <1>4, <1>5, <1>6, <1>7, <1>8, <1>9, <1>10, <1>11, <1>13, <1>14 DEF Next, Step

\* A task that calls vTaskDelayUntil keeps its period: it is delayed exactly when
\* its next wake time is still to come, and then until that time, whenever the
\* counter wraps, as long as nobody suspends it.  (vTaskDelayUntil.)
THEOREM PeriodsKept == PeriodicNotSuspended /\ Spec => PeriodKept
<1> DEFINE Kept == \A t \in Tasks : pxPreviousWakeTime'[t] # pxPreviousWakeTime[t] =>
                      ticksLeft'[t] = IF late'[t] < 0 THEN -late'[t] ELSE 0
<1>1. Init => EventInv /\ LateInv
  <2> SUFFICES ASSUME Init PROVE EventInv /\ LateInv OBVIOUS
  <2>0. Wrap \in Nat /\ Wrap >= 2 BY TickConstants DEF TickConstants
  <2>1. EventInv BY DEF Init, EventInv
  <2>2. LateInv
    <3>1. /\ uxPendedTicks = 0 /\ xTickCount = 0
          /\ \A t \in Tasks : pxPreviousWakeTime[t] = 0 /\ late[t] = 0
      BY DEF Init
    <3>2. 0 >= -(Wrap - 1) /\ 0 + 0 <= Wrap - 1 /\ ~(0 < 0) /\ 0 = 0 + 0 BY <2>0
    <3> QED BY <3>1, <3>2 DEF LateInv
  <2> QED BY <2>1, <2>2
<1>2. IInv /\ EventInv /\ [Next]_vars => EventInv' BY TickConstants, EventNext
<1>3. PeriodicNotSuspended /\ IInv /\ EventInv /\ LateInv /\ [Next]_vars => LateInv'
  BY TickConstants, LateNext
<1>4. ASSUME IInv, LateInv, [Next]_vars PROVE [Kept]_vars
  <2> SUFFICES ASSUME NEW t \in Tasks, pxPreviousWakeTime'[t] # pxPreviousWakeTime[t]
               PROVE  ticksLeft'[t] = IF late'[t] < 0 THEN -late'[t] ELSE 0
    BY Zenon
  <2>1. pxPreviousWakeTime' # pxPreviousWakeTime OBVIOUS
  <2>2. PICK u \in Tasks : \E increment \in Increments[u] : DelayUntil(u, increment)
    <3>1. Next BY <1>4, <2>1 DEF vars
    <3>2. ~(Switch \/ Tick \/ PendedTick \/ Resumed)
      BY <2>1 DEF Switch, Tick, PendedTick, Resumed
    <3>3. PICK v \in Tasks : Step(v) \/ Event(v) \/ ResumeFromISR(v) BY <3>1, <3>2 DEF Next
    <3>4. Step(v) BY <2>1, <3>3 DEF Event, ResumeFromISR
    <3>5. ~\E u \in Tasks : Suspend(v, u) \/ Resume(v, u) BY <2>1 DEF Suspend, Resume
    <3>6. ~(SuspendAll(v) \/ ResumeAll(v) \/ Delay(v) \/ StartWait(v))
      BY <2>1 DEF SuspendAll, ResumeAll, Delay, StartWait
    <3>7. ~(EventFound(v) \/ GiveUp(v) \/ KeepWaiting(v) \/ ResetUnblockTime(v))
      BY <2>1 DEF EventFound, GiveUp, KeepWaiting, ResetUnblockTime
    <3> QED BY <3>4, <3>5, <3>6, <3>7 DEF Step
  <2>3. PICK increment \in Increments[u] : DelayUntil(u, increment) BY <2>2
  <2>4. /\ ticksLeft'[u] = IF late'[u] < 0 THEN -late'[u] ELSE 0
        /\ \A v \in Tasks \ {u} : pxPreviousWakeTime'[v] = pxPreviousWakeTime[v]
    BY <1>4, <2>2, <2>3, TickConstants, DelayUntilKept
  <2> QED BY <2>4
<1>5. (PeriodicNotSuspended /\ Spec) => PeriodicNotSuspended OBVIOUS
<1>6. Spec => Init /\ [][Next]_vars BY DEF Spec
<1> QED
  <2> HIDE DEF Kept
  <2>1. CASE PeriodicNotSuspended
    <3>1. IInv /\ EventInv /\ LateInv /\ [Next]_vars => LateInv' BY <1>3, <2>1
    <3>2. Spec => [][Kept]_vars BY <1>1, <1>2, <1>4, <1>6, <3>1, Invariant, PTL
    <3> QED BY <3>2 DEF Kept, PeriodKept
  <2> QED BY <2>1
=============================================================================
