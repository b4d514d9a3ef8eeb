\* Two frames whose interrupt requests merge.
CONSTANTS
    RingSize = 2
    Pbufs = {b1, b2}
    NoPbuf = NoPbuf
    InpktMsgs = 1
    ApiMsgs = 1
    MboxSize = 2
    SemMax = 2
    Pcbs = {c1}
    MaxFrames = 3
SPECIFICATION Spec
INVARIANTS
    ReadyFrameIsRead
CHECK_DEADLOCK FALSE
