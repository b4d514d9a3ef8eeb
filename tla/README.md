# Verification of the TC397 FreeRTOS + lwIP firmware

The repository is the firmware of an Infineon TC397 TFT board. Core 0 runs
FreeRTOS (`FreeRtos/`, a 10.0 kernel, 1000 Hz tick, 32-bit tick counter, six
priorities, a heap of 64 KB), the lwIP TCP/IP stack (`Lwip/`) on top of it and
the project's own drivers and demo tasks (`AppSrc/`); cores 1 to 5 run
bare-metal loops. `Libraries/` is Infineon's driver library (iLLD) and register
headers. Paths below are relative to `src/`.

This directory holds TLA+ models of the parts that carry the system's
concurrency: the kernel's queues, scheduler, mutexes, time and heap, the path of
an Ethernet frame from the DMA to the stack and back to the wire, lwIP's timers,
and the path of a CAN message to the debug UART. TLC checks them on small
instances; TLAPS proves the most important facts for every value of the
constants.

## Inventory

Each part: its state, its operations, how it interacts, what is hard about it,
and what makes it correct.

### FreeRTOS kernel

* **Queues and semaphores** (`queue.c`). State: a ring of items, the number of
  messages, two priority-ordered event lists (tasks waiting to send, to
  receive) and two lock counts. Operations: send to back and front, overwrite,
  receive, peek, the versions for interrupts, semaphore take and give, reset,
  delete. Tasks and interrupt handlers call them; they call the scheduler to
  block and to wake. Hard: one call is up to eight critical sections, with
  interrupts and, for most of them, context switches in between. Correct when no
  wake-up is lost, when each call behaves as if it were atomic, and when a time
  limit is kept.
* **Mutexes** (`queue.c`, `tasks.c:3791-4080`). State: holder, event list, the
  holder's current and base priority, number of mutexes held. Operations: take,
  give, inherit, disinherit, disinherit after a time-out. Hard: priorities
  change while tasks wait in lists sorted by them, several waiters come and
  time out, several mutexes are held. Correct when the holder never has less
  than the priority of who waits for it, and gets its own back in the end.
* **Scheduler and time** (`tasks.c`, `list.c`). State: one ready list per
  priority, two delayed lists that swap when the tick counter wraps, the
  pending-ready list, the suspended list, `xNextTaskUnblockTime`,
  `uxSchedulerSuspended`, `xYieldPending`, `uxPendedTicks`. Operations: block,
  wake, tick, suspend and resume the scheduler, delay, suspend, resume and
  delete a task, change a priority, switch context. Hard: arithmetic on a
  counter that wraps, ticks held back while the scheduler is suspended, a
  cached wake time. Correct when the highest-priority ready task runs and every
  task wakes at its tick.
* **Port** (`portable/tricore/port.c`). Critical sections raise the interrupt
  mask to 64 (`configMAX_SYSCALL_INTERRUPT_PRIORITY`), a task yields by a trap,
  an interrupt handler by a software interrupt of lowest priority
  (`KERNEL_YIELD`), the tick comes from the STM timer. `configASSERT` disables
  interrupts and loops.
* **Heap** (`portable/memmory/heap_4.c`). One list of free blocks in address
  order kept in the blocks themselves; first fit, splitting, coalescing. Hard:
  the orders in which blocks are freed, rounding and overflow of the wanted
  size. Correct when blocks tile the heap and no two free ones touch.
* **Software timers, event groups, stream buffers, notifications**: compiled
  in; the application uses none of them beyond the timer task itself.

### Network path

* **Ethernet receive** (`Lwip/port/netif/ethernet/ethernetif.c`,
  `AppSrc/Demo/lwip_freertos_demo.c`, `IfxGeth_Eth.c`). State: a ring of eight
  descriptors shared with the DMA, the counting semaphore `g_eth_swamphore`, the
  pbuf pool. The DMA fills a buffer and requests an interrupt; `ISR_RxEth` gives
  the semaphore; the task `ethernetif_recv` takes one frame per token, copies it
  into a pbuf and posts it to the mailbox of the tcpip thread. Hard: the DMA
  writes while the task reads, requests merge, and every pool may be empty.
  Correct when frames stay whole and in order and nothing leaks.
* **sys_arch** (`Lwip/port/sys/sys_arch_freertos.c`): lwIP's semaphores, mutexes
  and mailboxes on FreeRTOS queues.
* **tcpip thread, pbufs, memory pools** (`Lwip/src/api/tcpip.c`, `core/pbuf.c`,
  `core/memp.c`): the thread fetches a message and hands the pbuf to the stack
  or runs a callback; an empty pbuf pool asks it to reclaim out-of-sequence TCP
  segments. Protocols, sockets and ARP are third-party code above it.
* **Timeouts** (`Lwip/src/core/timeouts.c`). State: one list of timeouts, each
  with the time that remains of it after the one before, counted from
  `timeouts_last_time`; the flag `tcpip_tcp_timer_active`. The tcpip thread sleeps in
  its mailbox until the first is due; handlers put their timer back; a
  connection starts the TCP timer. Hard: times relative to each other and to a
  clock that wraps, a thread that is late, a list that is walked outside the
  core lock. Correct when no timer is lost, early, or later than a bound.
* **Transmission** (`low_level_output`, `IfxGeth_Eth_sendTransmitBuffer`). State: the
  transmit ring shared with the DMA, `txDescrPtr`, the tail pointer, the transmit
  flag. Application tasks and the tcpip thread call it with the core lock held.
  Hard: the pointer moves back and forth while the DMA runs, and two busy
  waits depend on what the DMA and other callers do. Correct when ERR_OK means
  that this frame was sent once, and the waits end.
* **Link monitor and PHY** (`eth_link_monitor`, `ethernetif_link_callback`,
  `netif.c`, `phy_rtl8211.c`). State: the link bit of the PHY, which stays 0 until
  it is read, the static `link_flag`, the flags of the netif. Every 5000 ticks the
  task reads the PHY and takes the interface up or down; the netif functions
  call the same callback again, and announce the interface with a gratuitous
  ARP, sent without the core lock. Correct when the interface follows the cable
  and is announced once each time it becomes usable. The repository's own
  README names the freeze of the Ethernet task without a cable as open
  (`rtl8211f_link`, the loop at start-up).

### Drivers and start-up (`AppSrc`)

* **CAN** (`can.c`, `can_test_demo.c`): interrupt handlers store a received
  frame in one global buffer per node and give a counting semaphore; the demo
  tasks read the buffer. Off by default (`pub.h:43-46`).
* **Debug UART** (`uart_debug.c`, `IfxAsclin_Asc.c`, `Ifx_Fifo.c`). State: a software
  FIFO, `txInProgress`, the hardware FIFO. `Ifx_print` writes to the software FIFO
  and waits for ever for room; the interrupt of the empty hardware FIFO moves up
  to 16 bytes. Every task prints. Hard: the FIFO's write is three critical
  sections with reads in between, and the first byte starts a chain of
  interrupts that must neither break nor be started twice. Correct when what is
  printed is sent, whole, and the print returns.
* **LED, STM**: register writes.
* **Core start-up** (`Cpu0_Main.c` ... `Cpu5_Main.c`): six cores meet on
  `g_cpuSyncEvent`; core 0 then creates semaphores and tasks (client 3, server
  4, Ethernet 5, link monitor 4, tcpip 3, CAN 3) and starts the scheduler.

`PROJECT.json` lists these components with their status, and the hazards each
exposes, at their lines.

## How the modules correspond to the code

| module | code | level |
|---|---|---|
| `BlockingQueue` | the contract of `queue.h` | every call one atomic step |
| `KernelQueue` | `queue.c`, scheduler functions it calls, yields of the port | one critical section per action |
| `KernelMutex` | mutexes in `queue.c`, inheritance in `tasks.c` | one critical section, or one suspension of the scheduler, per action |
| `KernelTicks` | ticks, delays, time-outs, suspend/resume in `tasks.c` | the same; priorities left out |
| `Heap4` | `heap_4.c` | one suspension of the scheduler per action |
| `EthRx` | `ethernetif.c`, ISR, tcpip thread, pools | one critical section, or code on private data, per action |
| `EthTx` | `low_level_output`, transmit ring, `ethernetif_link_callback`, `netif.c` | a stretch of code between two accesses to shared data per action |
| `LwipTimeouts` | `timeouts.c`, the waiting of the tcpip thread | the same; what runs under the core lock is one action |
| `Uart` | `Ifx_print`, `IfxAsclin_Asc.c`, `Ifx_Fifo.c` | one critical section, or copy, per action |
| `CanUart` | `can.c`, `can_test_demo.c`, on `Uart` | the same; EXTENDS `Uart`, its steps are the task's and the interrupts' |
| `KernelQueueProofs`, `KernelMutexProofs`, `KernelTicksProofs`, `Heap4Proofs`, `EthRxProofs`, `EthTxProofs`, `LwipTimeoutsProofs`, `CanUartProofs` | | proofs about the module of that name |
| `MC*` | | constants of the TLC instances |

`KernelQueue` implements `BlockingQueue` (`IsBlockingQueue`, checked and proved). That
justifies that `EthRx`, `CanUart` and `LwipTimeouts` use semaphores and mailboxes as
atomic objects; `KernelMutex` is what stands behind the core lock of `EthTx`.
`KernelTicks` justifies that `KernelQueue` represents time by the ticks a call
has left, and that `KernelMutex` lets a finite wait end at any tick.

### KernelQueue

Variables bear the names of the code. `items` is the ring, `cTxLock`/`cRxLock`
the lock counts, `stateList` the list a task's state item is in,
`xPendingReadyList` etc. the scheduler's. `pc` is the position of each task in its
call: `SendPass`, `ReceivePass`, `PeekPass` are the first critical section of a
loop pass, then `CheckFails`, `SuspendAll`, `LockQueue`, `Retest`, `Place`,
`UnlockTx`, `UnlockRx`, `ResumeAll`, `YieldWithinAPI` and `Recheck` follow in
the order of the code. `IsrSend`, `IsrReceive` and `Tick` are interrupts, enabled
between any two of these; `KernelYield` is the software interrupt that an
interrupt handler's `portYIELD_FROM_ISR` requests (`yieldRequest`).

Event lists are sets: `HeadOf` picks a waiter of highest priority, and any of
those that tie (`vListInsert` keeps arrival order; every order is allowed).
Bounds: `MaxLock` interrupts on the queue during one lock, `MaxPended` ticks
during one suspension.

### KernelMutex

Priorities change, so the event list of a mutex is a sequence, sorted by the
values its items had on insertion. Interrupts do not use mutexes, so a
suspension of the scheduler is one action. `xTicksToWait` of a call is `left`,
`expired` or `none`: a finite wait may end at any step. A failed `configASSERT`
puts the task at `asserted` and stops everything, as the loop with interrupts
disabled does. `Patient` tasks wait for ever. With `NestedWaits` FALSE a task that
holds one mutex takes another only without waiting. Recursive mutexes
(`queue.c:575-665`) are not modelled. `Unlink` is `uxListRemove`: the task leaves its
place in the event list, wherever it is.

### KernelTicks

`xStateListItem`/`xItemValue` place a task in the current delayed list, the
overflow list, the suspended list or a ready list. Four history variables measure
real time without wrapping: what is left of a delay or a wait, the time since a
wait began, how late a periodic task is. Any ready task may run. Bounds:
`MaxPended` ticks during one suspension; the tick counter counts modulo `Wrap`,
`xNumOfOverflows` modulo `Overflows` (the code only compares it for equality; three
values suffice because no wait spans more). `Tick` assumes that no task that is
inside a wait or a period goes without running for longer than one wrap: with 32
bits and 1000 Hz that is 49 days.

### Heap4

`pxNextFreeBlock` and `xBlockSize` are the two words of each block header in
memory; addresses are numbers, `xBlockAllocatedBit` is the top bit of `size_t`, and
sums wrap at twice that. Both loops over the list are `Walk`.
`vPortFree` is two actions, because the allocated bit is cleared before the
scheduler is suspended. Words of blocks that were merged away are set to a
canonical value, nobody reads them. The heap starts as `prvHeapInit` leaves it.

### EthRx

Actors: the DMA (external: it fills the descriptors it owns, in order, and
requests the interrupt), `ISR_RxEth`, the receive task, the tcpip thread and the
applications. `srr` is the one-bit interrupt request of the service request node:
frames that arrive before it is served share one interrupt. One frame fits one
pbuf. `payload` is copied in two halves, so that a DMA write in between would
show. `sys_mbox_trypost` answers ERR_OK even for a full mailbox; this never
matters because there are fewer messages (8 + 8) than places (32): stated as the
assumption `EthCapacity`, not relied on silently.

### EthTx

`out` is the place of each task in `low_level_output`, `pc` that of a sender around
it (lock, route, output, unlock), `mon` that of the monitor in
`ethernetif_link_callback`. `sendTransmitBuffer` is three actions, because it sets
`txDescrPtr` back to the first descriptor before it tells the DMA the tail and
moves it on afterwards. A frame is named by the task that sends it; its name is
taken out of the buffers when `low_level_output` returns, so a frame sent again,
or one sent for another, shows. `times`, `stray`, `met` and `owed` are history. The
cable (`link`) changes at any moment; `latched` is the PHY's bit. The inner
`ethernetif_link_callback`, which the netif functions call, is `CallbackAgain`.

The code does not keep the monitor and the senders apart, and neither does the
model: the monitor announces at any moment. `met` records that it and a sender have
both had a transmit buffer at once (`Sending`). Up to then `low_level_output` keeps its
promise (`SentOnceUntilMet`, `OutputReturnsUntilMet`), with the others waiting for a
buffer or taking one right after; from then on it may not (`SentOnce`, the finding, and
`OutputReturns`, see the disagreements). Announcements and the interface's state do
not depend on it (`AnnouncedOnce`; `InterfaceFollowsLink` excepts a monitor that
hangs in `low_level_output`).

### LwipTimeouts

`next_timeout` is a sequence of handlers with their relative times; `Sums` adds them
up. `late` in `Inserted` is the difference of `now` and `timeouts_last_time`. `diff`, `tmp`
and `rest` are locals of `sys_check_timeouts`; `next_timeout = tmptimeout->next` is two
actions (`Unlink`, `StoreNext`), because it runs without the lock. The clock counts
modulo `Wrap`; `lag` bounds how long the thread goes without sleeping (`MaxLag`). `left`
is history: the true time until a timer should fire. The list starts as
`sys_timeouts_init` leaves it, the cyclic handlers put in one after the other (`Listed`).

`TimeoutConstants` says that there are at least two cyclic timers and that twice an interval is
below the wrap. The guard of `Tick` is a bound: the clock does not go round from
one timeout to the next, which takes 49 days with 32 bits and milliseconds. It never
stops the run's instance, which has no deadlock.

`cut` is history, too. When every timeout in the list is due, `sys_timeout` takes the new one's
time from the first timer's instead ("`timeouts_last_time` and `now` differs too
much", `timeouts.c:250`), which may be less than was asked for. `NotEarly` excepts such a
timer until it is put in again. Without the exception the property fails, in the run's
instance as with the ratios of the real intervals (20, 2 and 5, lag 3).

`Overlap` FALSE: no task starts the TCP timer while the thread unlinks a timeout. The
run therefore does not show that hazard; the demo tasks, which use UDP, do not meet it.

### Uart and CanUart

`writer` holds the locals of the printing task. A byte is the number of its place
in the stream modulo `Numbers`, so one that is lost, doubled or overwritten shows. The
run has `Numbers` 3, which is what the two FIFOs hold: a shift by three, as if a
multiple of three bytes were lost at once, would not show there. `PrintsWhole` is
proved for every `Numbers`, larger ones included. Sizes are scaled down; `Lengths` has a
message that fits the FIFO and one that does not, which the driver writes in two
parts. With the run's hardware FIFO of one byte the transmit interrupt moves one byte at a
time; the proof covers every size. `LongWhileSending` FALSE: such a message is printed
only while nothing is being sent, which leaves out the hang of `IfxAsclin_Asc.c:617`.

In `CanUart` the task that prints CAN messages is the writer. The interrupt of
CAN has two steps, the reading of one message and the clearing of the flag: a
message that comes between them may or may not request the interrupt again. The
two words of `rxdata` are read one by one. `core0_main`'s greeting comes first and
is the message longer than the FIFO.
`LastReadPrinted` compares contents: where `can_data` happens to hold what was printed
before, that earlier print satisfies it.

## The runs

| run | instance | distinct states | shows |
|---|---|---|---|
| `queue` | four tasks of three priorities, length 2, send / sendfront / receive / delay, interrupts send and receive | 1.6 M | lists and locks agree at every critical-section boundary, no wake-up is lost, the highest-priority task runs, every call is atomic |
| `queue_overwriting` | length 1, overwrite and peek, zero, finite and infinite waits, fair | 93 k | a finite wait ends; a wait for ever ends when there is an item |
| `mutex` | three tasks of three priorities and the idle task, two mutexes, the highest and the lowest may hold both; every wait but the highest task's may time out; fair | 6.2 k | inherited priority is kept while needed and given back, no give is lost, the right task runs, the top task is served |
| `ticks` | three tasks with delays, waits and periods of every length, suspended and resumed; wrap 4 | 850 k | nobody wakes early or late, time-outs and periods are exact, no tick is lost |
| `heap4` | two tasks, 92 bytes, 8-bit sizes | 61 k | blocks tile the heap, free neighbours are merged, an allocation fails only when no block fits |
| `eth_rx` | ring 3, pool 3, mailbox 3, two connections, five frames; fair | 320 k | every token has a frame, frames whole and in order, pbufs and messages conserved, an empty pool is refilled |
| `eth_tx` | two senders and the monitor, ring 2; fair | 316 k | until the monitor and a sender meet, a frame is sent once before ERR_OK and the busy waits end; before and after, the interface is announced once and follows the cable |
| `lwip_timeouts` | two cyclic timers (4 and 2) and the TCP timer (2), wrap 13, lag 1; fair | 388 k | timers are not lost, not early unless cut short, late by 6 at most, and fire again and again |
| `can_uart` | FIFO of 2 bytes, hardware FIFO of 1, CAN FIFO of 2 messages; fair | 100 k | prints are whole, return and are sent; the last CAN message read is printed |
| `mutex_assert`, `eth_rx_stranded`, `eth_tx_monitor` | | | findings, below |

The type invariants are conjuncts of one invariant of each module's run
(`PriorityReturned`, `FreeBytesCounted`, `PoolsConserved`, `AnnouncedOnce`, `TimersKept`,
`PrintedWhole`). That of `KernelTicks` is proved and in no run.

`HighestPriorityRuns` of the mutexes holds in a run where the highest task waits
for ever; when it may time out it fails (`SwitchAfterLastGive`, below). With
nested waits `HolderInherits` fails too, because inheritance is not transitive: the
run lets a holder take its second mutex only without waiting. Neither happens
in the application, which uses mutexes through `sys_mutex_lock` only, un-nested
and waiting for ever.

### Why these bounds are enough

* `queue`: two items make full, empty and in-between distinct; two tasks of one
  priority make ties and time slices, one above and the idle task below make
  preemption and its absence. Two interrupts on the queue during one lock make
  the unlocking loop of `prvUnlockQueue` run more than once, and `MaxPended` 1 makes
  a tick pend in a suspension.
* `mutex`: three priorities make inheritance partial (disinherit to the next
  highest and not to the base), two mutexes make out-of-order gives and a
  priority that is kept for the second.
* `ticks`: with a wrap of four every delay crosses the wrap from some start, and
  the two-tick pend covers a wrap during a suspension. The proofs cover any width.
* `heap4`: 92 misaligned bytes hold four or more blocks: free, used, merged in
  front, behind, both; the wanted sizes hit rounding, the too-small remainder, the top bit
  and the wrap of the sum.
* `eth_rx`: five frames go round a ring of three and leave it lagging; the pool
  and both message pools run empty, the mailbox runs full. Real sizes: ring 8,
  pool 10, mailbox 32, semaphore 10.
* `eth_tx`: with two descriptors the one in use and the next are different, and the ring
  wraps with every second frame; the proof covers any length. One sender beside the
  monitor makes them meet, the second competes for the lock. The cable changes without
  bound. 3 k of the states come before a meeting.
* `lwip_timeouts`: ARP's interval is the longest, IGMP's and TCP's are rounded to the same:
  two timers due at once, and two firings of each within the longest. The wrap
  is crossed with every list, and a timer is cut short and early. `MaxLate` 6 is for this instance:
  each shorter timeout put in front may add its lateness.
* `can_uart`: a FIFO of two bytes wraps with every second print, is full and empty in
  turn, and the words' print blocks on it. One token stands for the semaphore's
  ten: what is lost when all are given is lost at one as well.

`CHECK_DEADLOCK FALSE` appears where the instance may really stop: EthRx when the
last of `MaxFrames` frames is dealt with, KernelMutex when an assertion failed,
CanUart when the CAN FIFO is full and its interrupt not requested.

### Fairness

* `KernelQueue` (`FairSpec`): the running task's steps, the yield interrupt, and
  ticks are weakly fair: the core executes, and the timer runs. Nothing is assumed of the
  queue's other users, so the two properties speak of the task of highest
  priority, which no one else can keep from running for ever.
* `KernelMutex`: strongly fair steps of calls: a task that gets the processor again
  and again goes on (its slice is longer than a step); ticks are weakly fair. Giving a
  mutex, and the last one, is strongly fair: a task that holds one gives it
  back if it runs often enough, which is the application's part of the contract
  (`sys_mutex_lock` ... `unlock` around finite code).
* `EthRx`: weakly fair receive task, tcpip thread and interrupt handler. Nothing is
  assumed of the wire. `PoolRefilled` excuses a request that finds no message:
  `pbuf_pool_is_empty` then takes its flag back and the next frame asks again.
* `EthTx`: weakly fair steps of every task within `low_level_output` and outside it, of
  the monitor and of the DMA. Taking the core lock is not fair: nothing checked
  needs it. Taking a transmit buffer is strongly fair: the loop looks at the descriptor
  every few cycles, and between the outputs of another task it is free for much
  longer than that.
* `LwipTimeouts`: time passes, the thread gets the processor. Messages and connections
  may stay away.
* `CanUart`: the shift register and the CAN interrupt are weakly fair; the task and the
  transmit interrupt strongly, because the CAN interrupt keeps them off again
  and again but a bus is too slow to keep them off for good.

## Proofs

The proof modules follow one scheme: an inductive invariant, `Init` implies it, one
lemma per action that it is preserved, the invariants of the runs as
consequences, and the temporal step by PTL. Each inductive invariant was model-checked
on the run's instance before it was proved. The proofs use the named assumptions on the
constants in the modules they extend (`ConstantsAssumption`, `TickConstants`,
`EthCapacity`, `UartConstants`, ...), which TLC evaluates on every run. Where a theorem
needs more it says so as a hypothesis of its own, below; the run's instance
satisfies each of them.

### Queues

* `KernelQueueProofs`: `IInv == TypeOK /\ ExclusiveAccess /\ CallInv`. Why
  `ExclusiveAccess` alone is not inductive: it says that who locked the
  queue suspended the scheduler and runs; that it keeps running follows from the
  scheduler's state, which must be tied to the position in the call (`CallInv`).
  Theorems: `TypeCorrect` (`Spec => []TypeOK`), `Exclusion`
  (`Spec => []ExclusiveAccess`).
* In the same module, `SchedInv == ListsConsistent /\ CurrentInv /\ TimeInv` gives
  `Lists`, and with `RunsInv == PrioInv /\ HighestPriorityRuns` the theorem
  `Preemptive`. `ListsConsistent` says where every task is. What it lacks to be
  inductive is the running task, which leaves the ready list before the switch
  (`CurrentInv`), and that a call blocks only with time left (`TimeInv`).
  `HighestPriorityRuns` speaks of moments outside a suspension; `PrioInv` says that
  during one only pending tasks can outrank the one that runs.
* In the same module: `Refinement` (`Spec => IsBlockingQueue`) goes action by
  action: the pass that moves an item, or gives up, is the abstract step, everything else
  stutters; `GiveUpInv` says that who gives up has no time left. `WakeupsKept` rests
  on `WakeInv == WaitingInv /\ PlaceInv /\ NoLostWakeup` and `CallsMade`:
  `NoLostWakeup` compares the items with the tasks on their way to them, and the
  gap it leaves open is a task between its last look at the queue and its place on the
  event list. `PlaceInv` closes it: what came in between is counted by the lock.

### Mutexes

`KernelMutexProofs`, for any tasks, priorities, mutexes and time-outs.

* `Returned` and `GivesKept` need `BaseInv == PriorityReturned /\ CallInv /\ QueueInv /\
  RunningReady /\ ValueInv`: a blocked task is in one event list, once, and who is in a
  call does not hold what it is about to take. They hold with nested waits, too.
* `Inherits` and `Preemptive` need `PrioInv`: each event list is sorted by base priority
  (`SortedInv`); a free mutex with waiters is on its way to a task of no lower
  priority (`FreeInv`); an inherited priority is that of somebody who still waits
  (`LendInv`). Both assume `~NestedWaits`, because inheritance is not transitive, and
  `YieldsSuffice`: each task is below all those it shares a mutex with, or shares with
  higher ones a single mutex and these wait for ever. Without it a giver
  that gives up an inherited priority and wakes a task of no higher priority
  than its own does not yield (`SwitchAfterLastGive`, below). The application's one
  core lock, taken without a time limit, satisfies both.

### Time

`KernelTicksProofs`: `IInv == TypeOK /\ ItemValues /\ WakesOnTime /\ UnblockTimeNotLate /\
LockInv /\ PendedInv`. The core is `ItemValues`: the value of a delayed task's item is
the tick count plus what is left of its delay, minus `Wrap` in the overflow list. From
it and arithmetic modulo `Wrap` follow `OnTime`, `UnblockTimeSafe`, `SwitchSafe` (the
assertion of `taskSWITCH_DELAYED_LISTS` holds), and `TicksCounted`.

* `TimeOutsExact` adds `TimeOutInv`: since a wait began the counter has come at most once
  around, and the overflow count tells whether it did.
* `EventAwaited` adds `EventInv`: no ready task is on an event list.
* `PeriodsKept` adds `LateInv`: tick count, previous wake time and lateness agree up to
  a wrap, and a task that is early is asleep. Its hypothesis
  `PeriodicNotSuspended` excludes the task that is resumed early (see the end of the
  findings). `PeriodDecision` shows the comparison of `vTaskDelayUntil` right for every
  triple of values, wherever they come from.

### Ethernet

* `EthRxProofs`, for any ring, pools and mailbox that satisfy `EthCapacity`:
  `IInv == TypeOK /\ HandInv /\ TokensHaveFrames /\ RingInv /\ PlaceInv /\ MsgInv /\
  PendingInv /\ OrderInv /\ ContentInv`. A pbuf is in exactly one of six places
  (`PlaceInv`), the driver's descriptors are those from its pointer to the DMA's
  (`RingInv`), frames get older from the ring over the task's hand and the mailbox to
  the tcpip thread (`OrderInv`), and a pbuf past the first half of its copy has the first
  half of the frame that is still in the buffer (`ContentInv`). Theorems:
  `TokensBacked`, `InOrder`, `Conserved`.
* `EthTxProofs`: `IInv == TypeOK /\ LockInv /\ OwedInv /\ (met \/ RingInv)`, for any
  senders and any length of the ring, with no assumption on who meets whom. `SentOnce`
  is not inductive: it says nothing of the frame that is on its way. `RingInv` says
  that nobody has a transmit buffer and the ring is `Quiet`, or one task has, and its
  place in `low_level_output` determines who owns which descriptor, where the driver,
  the DMA and the tail are, and the flag (`Phase`); others may wait for a buffer. That it is
  one task follows from the core lock among senders (`LockInv`); a step that
  makes it the monitor and a sender sets `met`. `OwedInv` ties the announcement that is
  due to the monitor's place, whatever the senders do. Theorems: `SendsOnce`
  (`Spec => []SentOnceUntilMet`), `Announces` (`Spec => []AnnouncedOnce`).

### Timers

`LwipTimeoutsProofs`, for any timers and intervals, any width of the clock and any lag:
`IInv == TypeInv /\ KeptInv /\ ThreadInv /\ ClockInv /\ DueInv /\ NotEarly`. Theorems:
`TimersAreKept` (`Spec => []TimersKept`), `NoTimerEarly` (`Spec => []NotEarly`).

* Both assume `Overlap` FALSE: otherwise `StoreNext` loses what was put in front
  meanwhile (see `timeouts.c:335` in the findings). What the thread has read in
  `sys_check_timeouts` is then still so when it uses it (`ThreadInv`).
* `NotEarly` speaks only of the timer in the handler. `DueInv` says the same of every timeout
  in the list: what is left of it is at most the sum of the times up to it less
  the time since `timeouts_last_time`, or it was cut short. Between the step that
  moves `timeouts_last_time` on and the one that takes the timeout from the list, the first
  timeout's time counts twice (`Unlinked`). `ClockInv` says that the lateness, a
  difference modulo `Wrap`, is the true one, and that a sum with an interval does not wrap.
* `InsertedPlaced` says where `sys_timeout` puts a timeout, in each of its cases, and what
  the one behind it loses; `PutSums` what this does to the sums, and `PlacedKeeps` that
  no timer is due earlier for it. `TailKeeps` is the same for the timeout taken from the list.
* The sums are a function defined by recursion. That it exists and has the recursive
  equation (`SumsAreDues`) and what it does when the list changes are shown by a least
  counterexample (`SmallestElement`), which takes the place of an induction; so is that
  `sys_timeouts_init` starts every cyclic timer (`ListedIs`, `AllStarted`).

### CAN and UART

`CanUartProofs`: `UInv == UartTypeOK /\ WriterOK /\ PlacesInv /\ SendingInv /\ StreamInv`
for FIFOs of any size and messages of any length. `StreamInv` numbers the bytes from the
wire back to the writer without a gap, across the point where the ring wraps and
including those the writer has copied but not yet counted; `PlacesInv` says that the
writer's index is the next free place; `SendingInv` that while `txInProgress` is clear
nothing is in the hardware and no interrupt requested, so that nobody takes the byte the
writer sends first. `PrintsWhole` (`CanSpec => []PrintedWhole`) does not need
`LongWhileSending` FALSE: the finding about it concerns the return of the print, not
the bytes. `CanInv` has the types of the CAN side.

### Heap

`Heap4Proofs`, for any heap below the top bit, any sizes asked for and any tasks:
`IInv == HeapInv /\ UseInv /\ CountInv`.

* `HeapInv` is about memory alone: the free blocks are linked in order of address and
  merged (`Linked`, `Merged`), and with those in use they tile the heap (`Tiled`).
  `Heap(m, F, U)` says this of a memory `m` with free blocks `F` and used blocks
  `U`, so that it can be said of the memories in the middle of an action too.
* The lemmas follow the code: `PlacedHeap` puts a block behind its predecessor,
  `JoinedHeap` merges it with a neighbour, `InsertBlockIs` shows that
  `prvInsertBlockIntoFreeList` is one placing and at most two joinings, and
  `Inserted` what they leave; `TakenHeap`, `SplitHeap`, `MarkedHeap` and from them
  `MallocHeap` do the same for `pvPortMalloc`. `WalkEnds` says where the loops over
  the list end: addresses ascend, so the first link they stop at is a least element,
  which takes the place of an induction along the list (`FreeListIs` likewise).
* `UseInv` says whose blocks are marked, that no two owners have one, and that a block
  holds what was asked for. `CountInv` says that the counter is the number of addresses in
  free blocks; each step adds or removes an interval that is disjoint from the rest.

Theorems: `Tiles`, `Merges`, `Counted`, `FailsWhenFull`. The last one needs all three:
the addresses of a gap are all in free blocks (tiled), in a single one (merged), hence
counted, and the walk of first fit cannot have passed that block.

### Only model-checked

* Liveness under fairness, which the prover cannot state: `TimedCallReturns`,
  `WaiterServed`, `TopTaskServed`, `PoolRefilled`, `OutputReturnsUntilMet`,
  `InterfaceFollowsLink`, `PrintReturns`, `PrintedIsSent`, `LastReadPrinted`,
  `TimersFire`.
* `NotLate` of `LwipTimeouts`: its bound `MaxLate` belongs to the instance.

## Findings

* `eth_rx_stranded` (`ethernetif.c:395`): one token per interrupt, one frame per
  token, but one interrupt may stand for several frames: the rest stays in the
  ring while the task sleeps, and the lag never shrinks.
* `mutex_assert` (`queue.c:1474`): the assertion on `xInheritanceOccurred` fails when
  a timed-out take saw the mutex free and lost it again.
* `eth_tx_monitor` (`lwip_freertos_demo.c:25`): the link monitor announces the
  interface without the core lock and meets another task in `low_level_output`: a
  frame is overwritten before it is sent, or ERR_OK returned for one that was
  not. `SendsOnce` shows that nothing else makes this happen.

### Disagreements seen that no run shows

Each is reproduced by the change of constants or of property that is named.

* `queue.c:826`: a give that disinherits while somebody waits yields only for the
  waiter; a ready task above the giver waits for the next tick, although
  `tasks.c:3939` says that a switch should occur. `SwitchAfterLastGive` with the
  constants of `KernelMutex_Assert.cfg` and `Patient = {Mid}`.
* `tasks.c:3820`: inheriting changes the value of an item that may be in another
  mutex's list, which then is not "stored in priority order" (`queue.c:102`).
  `StoredInPriorityOrder` with `MaxHeld = 2`, `NestedWaits = TRUE` and
  `Patient = {High, Mid, Low}`.
* `ethernetif.c:140`: the same meeting can make a wait endless. Both tasks hand the same
  buffer over, the DMA sends it and sets the flag once, one of them takes it and clears it,
  and the other waits for ever, a sender with the core lock held. `OutputReturns` under
  `FairSpec` with the constants of `EthTx_Monitor.cfg`.
* `timeouts.c:335`: a connect of a task above the tcpip thread, while it unlinks a
  timeout, loses the TCP timer it inserts, and the flag of `timeouts.c:116` ("shows
  if the tcp timer is currently scheduled or not") stays set. `LwipTimeouts.cfg`
  with `Overlap = TRUE` violates `TimersKept`. The demo tasks use UDP.
* `IfxAsclin_Asc.c:617`: `tx_status` is read once; if the last byte leaves before a text
  longer than the FIFO has filled it, the writer waits for interrupts that do
  not come, although line 628 says they "will continue to push data".
  `CanUart.cfg` with `LongWhileSending = TRUE` violates `PrintReturns`. The server task
  prints received text right after its own heading
  (`lwip_freertos_demo.c:164-168`).

Also seen while modelling, without a run because the application does not do it: a
periodic task that is suspended and resumed before its wake time is taken for
one whose counter wrapped, and no longer delays (`tasks.c:1221`). `PeriodKept`
leaves such a task out.

## What is not modelled, and why

* Context save areas, stacks, timer and interrupt registers of the port: data
  without control that the properties could tell apart.
* `xQueueReset`, deletion, queue sets, the registry: unused by the application.
* Task creation and deletion, `vTaskPrioritySet`, notifications, software
  timers, event groups: unused; the first candidates of later work.
* The set-up of the MAC, the PHY and the CAN nodes (register accesses and busy loops
  on the hardware), frames of several descriptors, core start-up.
* Two tasks that print at the same time: the driver has no lock, bytes overwrite
  each other, and no document promises otherwise. CAN node 2 is the same code as
  node 0; `can_send` fills a register buffer.
* The other tasks' priorities in `EthTx`, `LwipTimeouts` and `CanUart`: a task may be
  preempted at every step, so every interleaving that priorities allow is there.
* lwIP's protocols and sockets, and iLLD beyond the two rings, the software FIFO and
  the ASCLIN transmission: third-party code. Most of `src/Libraries` is register
  headers and drivers of peripherals the application never starts.

## Plan

Written so far: `BlockingQueue` and `KernelQueue`, `EthRx`, `Heap4`,
`KernelMutex`, `KernelTicks`, `EthTx`, `Uart` and `CanUart`, `LwipTimeouts`, and
the proofs of all of them. To come, models of:

* the ring of `queue.c` (`pcWriteTo`, `pcReadFrom`, two ends) as a refinement of
  `KernelQueue`'s sequence;
* recursive mutexes in `KernelMutex`, sys_arch semaphores with a time limit;
* the ARP table, start-up order, the timer task.
