--------------------------- MODULE MCKernelTicks ---------------------------
(* TLC instances of KernelTicks: tasks with a role each. *)
EXTENDS KernelTicks

CONSTANTS Sleeper, Periodic, Waiter

AllTimes == 1 .. Wrap - 1
For(who, what) == [t \in Tasks |-> IF t = who THEN what ELSE {}]

SleeperDelays == For(Sleeper, AllTimes)
PeriodicIncrements == For(Periodic, AllTimes)
WaiterWaits == For(Waiter, AllTimes)
\* The periodic task also suspends and resumes the other two; the waiter
\* suspends itself.
Suspensions == [For(Periodic, Tasks \ {Periodic}) EXCEPT ![Waiter] = {Waiter}]
=============================================================================
