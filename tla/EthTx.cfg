\* Two senders, the monitor and two descriptors.
CONSTANTS
    Senders = {App, Tcpip}
    Monitor = Monitor
    TxRing = 2
    NoTask = NoTask
SPECIFICATION FairSpec
INVARIANTS
    SentOnceUntilMet
    AnnouncedOnce
PROPERTIES
    OutputReturnsUntilMet
    InterfaceFollowsLink
