\* One task sleeps, one waits with every time limit, one is periodic and
\* suspends and resumes the others; the counter wraps every four ticks.
CONSTANTS
    Sleeper = Sleeper
    Periodic = Periodic
    Waiter = Waiter
    Tasks = {Sleeper, Periodic, Waiter}
    Wrap = 4
    Overflows = 3
    MaxPended = 2
    Delays <- SleeperDelays
    Increments <- PeriodicIncrements
    Waits <- WaiterWaits
    Suspends <- Suspensions
SPECIFICATION Spec
INVARIANTS
    WakesOnTime
    UnblockTimeNotLate
    EmptyAtSwitch
    TimeOutExact
PROPERTIES
    NoTickLost
    PeriodKept
    WaitsForEvent
