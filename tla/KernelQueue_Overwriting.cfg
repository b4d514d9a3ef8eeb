SPECIFICATION FairSpec
CONSTANTS
    High = High
    Low = Low
    Mate = Mate
    Zero = Zero
    Isr = Isr
    Tasks = {High, Low, Mate, Zero}
    Idle = Zero
    Prio <- PrioDef
    Calls <- Overwriting
    QLen = 1
    Waits = {0, 1, 9}
    portMAX_DELAY = 9
    IsrCalls = {"send", "receive"}
    MaxLock = 2
    MaxPended = 1
PROPERTIES
    TimedCallReturns
    WaiterServed
