------------------------------- MODULE Heap4 -------------------------------
(***************************************************************************)
(* The kernel's heap (FreeRtos/portable/memmory/heap_4.c): a list of free  *)
(* blocks linked through the blocks themselves in order of address, first  *)
(* fit, splitting, and merging with both neighbours when a block is freed. *)
(*                                                                         *)
(* Both functions work on the list with the scheduler suspended, so what   *)
(* they do there is one step.  vPortFree takes the allocated bit off the   *)
(* block before it suspends the scheduler: that is a step of its own.      *)
(* Interrupt handlers do not call the heap.                                *)
(***************************************************************************)
EXTENDS Integers, FiniteSets, FiniteSetsExt

CONSTANTS
    Tasks,              \* the tasks that allocate and free
    ucHeap,             \* address of the heap's array
    TotalHeapSize,      \* configTOTAL_HEAP_SIZE
    xBlockAllocatedBit, \* the top bit of a size_t
    Wanted              \* the sizes asked for

portBYTE_ALIGNMENT == 4
xHeapStructSize == 8
heapMINIMUM_BLOCK_SIZE == 2 * xHeapStructSize
SizeLimit == 2 * xBlockAllocatedBit
Sizes == 0 .. SizeLimit - 1

ASSUME HeapConstants ==
    /\ ucHeap \in Nat \ {0}
    /\ TotalHeapSize \in Nat
    /\ TotalHeapSize >= 3 * xHeapStructSize
    /\ xBlockAllocatedBit \in Nat
    /\ xBlockAllocatedBit % portBYTE_ALIGNMENT = 0
    /\ ucHeap + TotalHeapSize < xBlockAllocatedBit
    /\ Wanted \subseteq Sizes

AlignDown(a) == a - (a % portBYTE_ALIGNMENT)
AlignUp(a) == AlignDown(a + portBYTE_ALIGNMENT - 1)

\* prvHeapInit's bounds: the first aligned byte, and the marker pxEnd.
HeapStart == AlignUp(ucHeap)
pxEnd == AlignDown(ucHeap + TotalHeapSize - xHeapStructSize)

xStart == 0                              \* its address is none of the heap's
NULL == -1
Blocks == {a \in HeapStart .. pxEnd - 1 : a % portBYTE_ALIGNMENT = 0}
Links == Blocks \union {xStart, pxEnd}

VARIABLES
    pxNextFreeBlock,    \* the two fields of the block links in memory
    xBlockSize,
    xFreeBytesRemaining,
    xMinimumEverFreeBytesRemaining,
    owned,              \* the allocations of each task: address and size asked
    freeing             \* the block a task's vPortFree has taken back, or NULL

heapVars == <<pxNextFreeBlock, xBlockSize, xFreeBytesRemaining, xMinimumEverFreeBytesRemaining>>
vars == <<heapVars, owned, freeing>>

\* prvHeapInit, which the first pvPortMalloc calls before the scheduler runs.
Init ==
    /\ pxNextFreeBlock = [a \in Links |-> CASE a = xStart -> HeapStart
                                            [] a = HeapStart -> pxEnd
                                            [] OTHER -> NULL]
    /\ xBlockSize = [a \in Links |-> IF a = HeapStart THEN pxEnd - HeapStart ELSE 0]
    /\ xFreeBytesRemaining = pxEnd - HeapStart
    /\ xMinimumEverFreeBytesRemaining = pxEnd - HeapStart
    /\ owned = [t \in Tasks |-> {}]
    /\ freeing = [t \in Tasks |-> NULL]
-----------------------------------------------------------------------------
(* The list *)

Memory(next, size) == [next |-> next, size |-> size]

\* Where a walk along the list ends that goes on from every link in onward.
Walk(next, onward) ==
    LET iterator[a \in Links] == IF a \in onward THEN iterator[next[a]] ELSE a
    IN  iterator[xStart]

\* The link after which block b belongs.
PlaceFor(m, b) == Walk(m.next, {a \in Links : m.next[a] # NULL /\ m.next[a] < b})

\* A link that was merged away is data again; its words are cleared here, as
\* nothing reads them.
Cleared(m, gone) ==
    Memory([a \in Links |-> IF a \in gone THEN NULL ELSE m.next[a]],
           [a \in Links |-> IF a \in gone THEN 0 ELSE m.size[a]])

\* prvInsertBlockIntoFreeList, for block b placed behind link before: it is
\* merged with the block in front, with the block behind, with both or none.
Insertion(m, b, before, mergesFront, mergesBack) ==
    LET after == m.next[before]
        blk == IF mergesFront THEN before ELSE b
        next1 == [m.next EXCEPT ![before] = b]
        next2 == [next1 EXCEPT ![blk] = IF mergesBack THEN m.next[after] ELSE after]
        bytes == m.size[b] + (IF mergesFront THEN m.size[before] ELSE 0)
                           + (IF mergesBack THEN m.size[after] ELSE 0)
    IN  Cleared(Memory(next2, [m.size EXCEPT ![blk] = bytes]),
                (IF mergesFront THEN {b} ELSE {}) \union (IF mergesBack THEN {after} ELSE {}))

TouchesFront(m, b, before) == before # xStart /\ before + m.size[before] = b
TouchesBack(m, b, before) == b + m.size[b] = m.next[before]

\* (wrong on purpose: never merged with the block in front)
InsertBlockMergesBackOnly(m, b) ==
    LET before == PlaceFor(m, b)
    IN  Insertion(m, b, before, FALSE, TouchesBack(m, b, before) /\ m.next[before] # pxEnd)
\* (wrong on purpose: the bytes of the block in front are not added up)
InsertBlockLosesFront(m, b) ==
    LET before == PlaceFor(m, b)
        done == Insertion(m, b, before, TouchesFront(m, b, before), FALSE)
    IN  IF TouchesFront(m, b, before)
          THEN Memory(done.next, [done.size EXCEPT ![before] = m.size[before]])
          ELSE done
\* (wrong on purpose: the end marker is merged like a block)
InsertBlockMergesEnd(m, b) ==
    LET before == PlaceFor(m, b)
    IN  Insertion(m, b, before, TouchesFront(m, b, before), TouchesBack(m, b, before))
InsertBlock(m, b) ==
    LET before == PlaceFor(m, b)
    IN  Insertion(m, b, before, TouchesFront(m, b, before),
                  TouchesBack(m, b, before) /\ m.next[before] # pxEnd)

\* The link before the first block of the list that holds n bytes, or before
\* the end marker.
BeforeFirstFit(n) ==
    Walk(pxNextFreeBlock,
         {a \in Links : LET b == pxNextFreeBlock[a]
                        IN  b # NULL /\ xBlockSize[b] < n /\ pxNextFreeBlock[b] # NULL})

\* A request with its header, rounded up; 0 if it is refused.
\* (wrong on purpose: the size of the header is forgotten)
WithoutHeader(n) == IF n < xBlockAllocatedBit THEN AlignUp(n) ELSE 0
WithHeader(n) ==
    IF n > 0 /\ n < xBlockAllocatedBit
      THEN AlignUp(n + xHeapStructSize) % SizeLimit
      ELSE 0

\* What is left of a block is split off if it is worth a block of its own.
Worth(rest) == rest > heapMINIMUM_BLOCK_SIZE

LowWater(free) == Min({free, xMinimumEverFreeBytesRemaining})
-----------------------------------------------------------------------------
(* The operations *)

\* pvPortMalloc(n) called by t when it succeeds.
Malloc(t, n) ==
    LET need == WithHeader(n)
        previous == BeforeFirstFit(need)
        b == pxNextFreeBlock[previous]
        rest == xBlockSize[b] - need
        taken == Memory([pxNextFreeBlock EXCEPT ![previous] = pxNextFreeBlock[b]], xBlockSize)
        split == InsertBlock(Memory(taken.next, [taken.size EXCEPT ![b] = need,
                                                                   ![b + need] = rest]),
                             b + need)
        m == IF Worth(rest) THEN split ELSE taken
    IN  /\ freeing[t] = NULL
        /\ need > 0
        /\ need <= xFreeBytesRemaining
        /\ b # pxEnd
        /\ pxNextFreeBlock' = [m.next EXCEPT ![b] = NULL]
        /\ xBlockSize' = [m.size EXCEPT ![b] = @ + xBlockAllocatedBit]
        /\ xFreeBytesRemaining' = xFreeBytesRemaining - m.size[b]
        /\ xMinimumEverFreeBytesRemaining' = LowWater(xFreeBytesRemaining - m.size[b])
        /\ owned' = [owned EXCEPT ![t] = @ \union {[pv |-> b + xHeapStructSize, n |-> n]}]
        /\ UNCHANGED freeing

\* pvPortMalloc(n) returns NULL.
MallocFails(n) ==
    \/ WithHeader(n) = 0
    \/ WithHeader(n) > xFreeBytesRemaining
    \/ pxNextFreeBlock[BeforeFirstFit(WithHeader(n))] = pxEnd

\* vPortFree(pv) up to vTaskSuspendAll.
StartFree(t) ==
    \E a \in owned[t] :
        LET b == a.pv - xHeapStructSize
        IN  /\ freeing[t] = NULL
            /\ xBlockSize[b] >= xBlockAllocatedBit
            /\ pxNextFreeBlock[b] = NULL
            /\ xBlockSize' = [xBlockSize EXCEPT ![b] = @ - xBlockAllocatedBit]
            /\ owned' = [owned EXCEPT ![t] = @ \ {a}]
            /\ freeing' = [freeing EXCEPT ![t] = b]
            /\ UNCHANGED <<pxNextFreeBlock, xFreeBytesRemaining, xMinimumEverFreeBytesRemaining>>

\* ... and with the scheduler suspended.
Free(t) ==
    LET b == freeing[t]
        m == InsertBlock(Memory(pxNextFreeBlock, xBlockSize), b)
    IN  /\ b # NULL
        /\ xFreeBytesRemaining' = xFreeBytesRemaining + xBlockSize[b]
        /\ pxNextFreeBlock' = m.next
        /\ xBlockSize' = m.size
        /\ freeing' = [freeing EXCEPT ![t] = NULL]
        /\ UNCHANGED <<xMinimumEverFreeBytesRemaining, owned>>

Next == \E t \in Tasks : (\E n \in Wanted : Malloc(t, n)) \/ StartFree(t) \/ Free(t)

Spec == Init /\ [][Next]_vars
-----------------------------------------------------------------------------
(* Properties *)

\* The blocks of the free list, found by following it.
FreeList ==
    LET from[a \in Links] ==
          IF pxNextFreeBlock[a] \in Blocks
            THEN {pxNextFreeBlock[a]} \union from[pxNextFreeBlock[a]]
            ELSE {}
    IN  from[xStart]
Allocated == {a.pv - xHeapStructSize : a \in UNION {owned[t] : t \in Tasks}}
InFree == {freeing[t] : t \in Tasks} \ {NULL}
SizeOf(b) == xBlockSize[b] % xBlockAllocatedBit

\* Types; the low-water mark is one (checked as part of FreeBytesCounted).
TypeOK ==
    /\ pxNextFreeBlock \in [Links -> Links \union {NULL}]
    /\ xBlockSize \in [Links -> Sizes]
    /\ xFreeBytesRemaining \in 0 .. pxEnd - HeapStart
    /\ xMinimumEverFreeBytesRemaining \in 0 .. xFreeBytesRemaining
    /\ \A t \in Tasks : /\ \A a \in owned[t] : a.pv \in HeapStart .. pxEnd /\ a.n \in Wanted
                        /\ freeing[t] \in Blocks \union {NULL}

\* The blocks in the list, the blocks tasks own and the blocks on their way
\* back cover the heap from end to end, each holds more than its link, and no
\* two overlap: no memory is lost and none is given twice, whatever is split
\* and merged between the two steps of another task's vPortFree.  And what a
\* task got holds what it asked for, aligned, with the mark of a block in use.
\* (pvPortMalloc, vPortFree.)
HeapTiled ==
    LET all == FreeList \union Allocated \union InFree
    IN  /\ HeapStart \in all
        /\ \A b \in all :
              /\ b + SizeOf(b) \in all \union {pxEnd}
              /\ SizeOf(b) > xHeapStructSize
              /\ \A c \in all : c > b => c >= b + SizeOf(b)
        /\ FreeList \intersect (Allocated \union InFree) = {}
        /\ Allocated \intersect InFree = {}
        /\ \A t \in Tasks : \A a \in owned[t] :
              LET b == a.pv - xHeapStructSize
              IN  /\ a.pv % portBYTE_ALIGNMENT = 0
                  /\ a.pv + a.n <= b + SizeOf(b)
                  /\ xBlockSize[b] >= xBlockAllocatedBit
                  /\ pxNextFreeBlock[b] = NULL

\* The list is in order of address, ends at pxEnd, and no two of its blocks
\* touch: prvInsertBlockIntoFreeList left nothing unmerged.
ListMerged ==
    /\ \A b \in FreeList : /\ pxNextFreeBlock[b] \in FreeList \union {pxEnd}
                           /\ pxNextFreeBlock[b] > b + SizeOf(b) \/ pxNextFreeBlock[b] = pxEnd
                           /\ xBlockSize[b] < xBlockAllocatedBit
    /\ pxNextFreeBlock[pxEnd] = NULL
    /\ xBlockSize[pxEnd] = 0

\* xPortGetFreeHeapSize tells the truth: the count kept beside the list is
\* the number of bytes in its blocks, and was never below the low-water mark.
FreeBytesCounted ==
    /\ TypeOK
    /\ xFreeBytesRemaining = Cardinality(UNION {b .. b + SizeOf(b) - 1 : b \in FreeList})

\* pvPortMalloc fails only if the size is refused or no gap between the
\* blocks in use is large enough: when all has been freed, anything up to
\* the whole heap can be had again.
FailsOnlyWhenFull ==
    \A n \in Wanted \ {0} :
        MallocFails(n) /\ n < xBlockAllocatedBit =>
            ~ \E b \in HeapStart .. pxEnd - 1 :
                /\ b + WithHeader(n) <= pxEnd
                /\ \A c \in Allocated \union InFree :
                      c + SizeOf(c) <= b \/ b + WithHeader(n) <= c
                /\ b % portBYTE_ALIGNMENT = 0
=============================================================================
