\* Every wait but the topmost task's may time out; Low, which holds both
\* mutexes at times, takes the second without waiting.
CONSTANTS
    High = High
    Mid = Mid
    Low = Low
    Zero = Zero
    A = A
    B = B
    Tasks = {High, Mid, Low, Zero}
    Idle = Zero
    BasePriority <- PrioDef
    Mutexes = {A, B}
    Takes <- LowNests
    MaxHeld = 2
    NestedWaits = FALSE
    Patient = {High}
    NULL = NULL
\* A failed configASSERT stops everything.
CHECK_DEADLOCK FALSE
SPECIFICATION FairSpec
INVARIANTS
    PriorityReturned
    NoLostGive
    HolderInherits
    HighestPriorityRuns
PROPERTIES
    TopTaskServed
