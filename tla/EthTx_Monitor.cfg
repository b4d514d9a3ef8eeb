\* The monitor announces the interface while a sender is in low_level_output.
CONSTANTS
    Senders = {App}
    Monitor = Monitor
    TxRing = 2
    NoTask = NoTask
SPECIFICATION Spec
INVARIANTS
    SentOnce
