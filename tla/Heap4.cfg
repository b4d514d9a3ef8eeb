\* A misaligned array of 92 bytes and a size_t of 8 bits.  The sizes: not
\* rounded and rounded up, one that leaves too little to split, the largest
\* that is not refused for its top bit, the smallest and largest that are.
CONSTANTS
    Tasks = {t1, t2}
    ucHeap = 2
    TotalHeapSize = 92
    xBlockAllocatedBit = 128
    Wanted = {0, 1, 9, 21, 127, 128, 255}
SPECIFICATION Spec
SYMMETRY TaskSymmetry
INVARIANTS
    HeapTiled
    ListMerged
    FreeBytesCounted
    FailsOnlyWhenFull
