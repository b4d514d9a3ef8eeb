\* A timed-out call finds the mutex free and then taken again.
CONSTANTS
    High = High
    Mid = Mid
    Low = Low
    Zero = Zero
    A = A
    B = B
    Tasks = {High, Mid, Low, Zero}
    Idle = Zero
    BasePriority <- PrioDef
    Mutexes = {A, B}
    Takes <- AllTakeAll
    MaxHeld = 1
    NestedWaits = FALSE
    Patient = {High, Low}
    NULL = NULL
\* A failed configASSERT stops everything.
CHECK_DEADLOCK FALSE
SPECIFICATION Spec
INVARIANTS
    InheritanceAssertion
