SPECIFICATION Spec
CONSTANTS
    High = High
    Low = Low
    Mate = Mate
    Zero = Zero
    Isr = Isr
    Tasks = {High, Low, Mate, Zero}
    Idle = Zero
    Prio <- PrioDef
    Calls <- Mixed
    QLen = 2
    Waits = {1, 9}
    portMAX_DELAY = 9
    IsrCalls = {"send", "receive"}
    MaxLock = 2
    MaxPended = 1
INVARIANTS
    TypeOK
    ExclusiveAccess
    ListsConsistent
    NoLostWakeup
    HighestPriorityRuns
PROPERTIES
    IsBlockingQueue
