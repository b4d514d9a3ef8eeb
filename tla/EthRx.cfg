\* A ring, a pool and a mailbox small enough to run full and empty.
CONSTANTS
    RingSize = 3
    Pbufs = {b1, b2, b3}
    NoPbuf = NoPbuf
    InpktMsgs = 2
    ApiMsgs = 1
    MboxSize = 3
    SemMax = 3
    Pcbs = {c1, c2}
    MaxFrames = 5
SPECIFICATION FairSpec
INVARIANTS
    TokensHaveFrames
    FramesInOrder
    PoolsConserved
PROPERTIES
    PoolRefilled
CHECK_DEADLOCK FALSE
