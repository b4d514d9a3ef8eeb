\* Three timers, the clock wraps, and the thread may be one unit late.
CONSTANTS
    Arp = Arp
    Igmp = Igmp
    Tcp = Tcp
    None = None
    Cyclic = {Arp, Igmp}
    Order <- ArpAndIgmp
    Interval <- Intervals
    Wrap = 13
    MaxLag = 1
    MaxLate = 6
    Overlap = FALSE
SPECIFICATION FairSpec
INVARIANTS
    TimersKept
    NotEarly
    NotLate
PROPERTIES
    TimersFire
