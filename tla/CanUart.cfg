\* The FIFO fills up with the heading and the words; only the first message,
\* printed while nothing is being sent, may be longer than the FIFO.
CONSTANTS
    FifoSize = 2
    HwSize = 1
    Numbers = 3
    Lengths = {1, 4}
    LongWhileSending = FALSE
    Messages = {m1, m2}
    CanFifoSize = 2
    MaxTokens = 1
    HeadingLength = 1
    WordsLength = 2
    None = None
SPECIFICATION CanFairSpec
INVARIANTS
    PrintedWhole
PROPERTIES
    PrintReturns
    PrintedIsSent
    LastReadPrinted
CHECK_DEADLOCK FALSE
