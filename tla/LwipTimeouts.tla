---------------------------- MODULE LwipTimeouts ----------------------------
(***************************************************************************)
(* lwIP's timers: a list of timeouts, each with the time that remains of   *)
(* it after the one before, counted from timeouts_last_time.  The tcpip    *)
(* thread sleeps until the first is due or a message comes, and takes what *)
(* is due from the list.  The handlers run under the core lock and put     *)
(* their timer back; the TCP timer runs while there are connections.  A    *)
(* task that connects starts it under the core lock, but the thread walks  *)
(* the list without the lock.                                              *)
(*                                                                         *)
(* What runs under the core lock is one step.  Time is counted modulo Wrap *)
(* (2^32) in a coarse unit.  The pool of timeouts has more elements than   *)
(* there are timers: it is never empty.                                    *)
(***************************************************************************)
EXTENDS Integers, Sequences, FiniteSetsExt

CONSTANTS
    Cyclic,     \* the handlers of lwip_cyclic_timers after the first,
    Tcp,        \* tcpip_tcp_timer, the first
    Order,      \* the cyclic handlers in the order of the array
    Interval,   \* of each
    Wrap,
    MaxLag,     \* the longest the thread waits for the processor, or works
                \* without sleeping
    Overlap,    \* may a task start the TCP timer while the thread unlinks a
                \* timeout?
    MaxLate,    \* the latest a timer fires
    None

ASSUME TimeoutConstants ==
    /\ Tcp \notin Cyclic /\ None \notin Cyclic \union {Tcp}
    /\ Order \in Seq(Cyclic) /\ Len(Order) > 1
    /\ \A h \in Cyclic : \E i \in DOMAIN Order : Order[i] = h
    /\ \A i, j \in DOMAIN Order : Order[i] = Order[j] => i = j
    /\ Interval \in [Cyclic \union {Tcp} -> Nat \ {0}]
    /\ MaxLag \in Nat /\ MaxLate \in Nat
    /\ Wrap \in Nat /\ \A h \in DOMAIN Interval : 2 * Interval[h] < Wrap
    /\ Overlap \in BOOLEAN

Timers == Cyclic \union {Tcp}

VARIABLES
    now,                    \* sys_now
    timeouts_last_time,
    next_timeout,           \* the list, each with its handler h and its time
    tcpip_tcp_timer_active,
    connections,            \* tcp_active_pcbs or tcp_tw_pcbs is not empty
    pc,                     \* where the tcpip thread is
    sleep,                  \* what is left of its time limit in the mailbox
    diff,                   \* its local diff in sys_check_timeouts
    tmp,                    \* the handler of its tmptimeout
    rest,                   \* the timeout after it, when that was read
    lag,                    \* how long it has been without sleeping
    left,                   \* for each timer, the time until it should fire
                            \* (history; below 0 it is late)
    cut                     \* the timers that sys_timeout cut short (history)

listVars == <<timeouts_last_time, next_timeout, left, cut>>
tcpVars == <<tcpip_tcp_timer_active, connections>>
threadVars == <<pc, sleep, diff, tmp, rest>>
timeVars == <<now, lag>>
vars == <<listVars, tcpVars, threadVars, timeVars>>

ThreadPCs == {"fetch", "sleep", "message", "check", "next", "elapse", "unlink", "store", "handle"}
Since(t) == (now - t + Wrap) % Wrap
-----------------------------------------------------------------------------
(* sys_timeout *)

\* The time of the first i timeouts, counted from timeouts_last_time.
Sums(list) ==
    LET upTo[i \in 0 .. Len(list)] == IF i = 0 THEN 0 ELSE upTo[i - 1] + list[i].time
    IN  upTo

TimeUpTo(list, i) == Sums(list)[i]

\* The new timeout goes behind the last one due no later; the one after it
\* loses its time.  Should all be due by now, its time is counted from the
\* first timer's.
Behind(list, h, msecs, late) ==
    LET Remains(i) == msecs + late - TimeUpTo(list, i)
        i == Min({j \in DOMAIN list : j = Len(list) \/ list[j + 1].time > Remains(j)})
    IN  IF i < Len(list)
          THEN SubSeq(list, 1, i) \o <<[h |-> h, time |-> Remains(i)]>>
                 \o [SubSeq(list, i + 1, Len(list)) EXCEPT ![1].time = @ - Remains(i)]
          ELSE Append(list, [h |-> h,
                             time |-> IF Remains(i) > msecs THEN msecs + list[1].time ELSE Remains(i)])

\* The next timeout keeps its time (wrong on purpose).
InsertedKeeping(list, h, msecs, late) ==
    IF list = <<>> THEN <<[h |-> h, time |-> msecs]>>
    ELSE IF list[1].time > msecs
           THEN <<[h |-> h, time |-> msecs + late]>> \o list
           ELSE Behind(list, h, msecs, late)

\* Counts a new first timeout from now (wrong on purpose).
InsertedFromNow(list, h, msecs, late) ==
    IF list = <<>> THEN <<[h |-> h, time |-> msecs]>>
    ELSE IF list[1].time > msecs
           THEN <<[h |-> h, time |-> msecs]>> \o [list EXCEPT ![1].time = @ - msecs]
           ELSE Behind(list, h, msecs, late)

\* late is the time since timeouts_last_time.  The first timeout loses msecs
\* when it becomes the second, not msecs + late.
Inserted(list, h, msecs, late) ==
    IF list = <<>> THEN <<[h |-> h, time |-> msecs]>>
    ELSE IF list[1].time > msecs
           THEN <<[h |-> h, time |-> msecs + late]>> \o [list EXCEPT ![1].time = @ - msecs]
           ELSE Behind(list, h, msecs, late)

\* All are due, and the new one is the last of them.
AllDue(list, msecs, late) ==
    list # <<>> /\ list[1].time <= msecs /\ TimeUpTo(list, Len(list)) < late

SysTimeout(h) ==
    /\ cut' = IF AllDue(next_timeout, Interval[h], Since(timeouts_last_time))
                THEN cut \union {h} ELSE cut \ {h}
    /\ next_timeout' = Inserted(next_timeout, h, Interval[h], Since(timeouts_last_time))
    /\ timeouts_last_time' = IF next_timeout = <<>> THEN now ELSE timeouts_last_time
    /\ left' = [left EXCEPT ![h] = Interval[h]]

\* sys_timeouts_init: the list after each of the cyclic handlers.
Listed[i \in 0 .. Len(Order)] ==
    IF i = 0 THEN <<>> ELSE Inserted(Listed[i - 1], Order[i], Interval[Order[i]], 0)

Init ==
    /\ now = 0 /\ timeouts_last_time = 0
    /\ next_timeout = Listed[Len(Order)]
    /\ left = [h \in Timers |-> IF h = Tcp THEN 0 ELSE Interval[h]] /\ cut = {}
    /\ tcpip_tcp_timer_active = FALSE /\ connections = FALSE
    /\ pc = "fetch" /\ sleep = 0 /\ diff = 0 /\ tmp = None /\ rest = None
    /\ lag = 0
-----------------------------------------------------------------------------
(* TCP: tcp_timer_needed, called under the core lock *)

TcpTimerNeeded ==
    IF tcpip_tcp_timer_active
      THEN UNCHANGED <<listVars, tcpip_tcp_timer_active>>
      ELSE tcpip_tcp_timer_active' = TRUE /\ SysTimeout(Tcp)

\* A task connects.
Connect ==
    /\ Overlap \/ pc \notin {"elapse", "unlink", "store"}
    /\ ~connections
    /\ connections' = TRUE
    /\ TcpTimerNeeded
    /\ UNCHANGED <<threadVars, timeVars>>

\* A task aborts the last connection; the timer goes on until it expires.
Abort ==
    /\ connections' = FALSE
    /\ connections
    /\ UNCHANGED <<listVars, tcpip_tcp_timer_active, threadVars, timeVars>>
-----------------------------------------------------------------------------
(* The tcpip thread: sys_timeouts_mbox_fetch *)

ThreadAt(here, next) == pc = here /\ pc' = next

\* sys_timeouts_sleeptime; an expired timer is not slept for.
Fetch ==
    /\ pc = "fetch"
    /\ LET late == Since(timeouts_last_time)
           first == Head(next_timeout).time
       IN  /\ sleep' = IF late > first THEN 0 ELSE first - late
           /\ pc' = IF sleep' = 0 THEN "check" ELSE "sleep"
    /\ lag' = IF pc' = "sleep" THEN 0 ELSE lag
    /\ UNCHANGED <<listVars, tcpVars, diff, tmp, rest, now>>

\* The mailbox is empty until the time limit ends.
TimeOut ==
    /\ ThreadAt("sleep", "check")
    /\ sleep = 0
    /\ UNCHANGED <<listVars, tcpVars, sleep, diff, tmp, rest, timeVars>>

Message ==
    /\ ThreadAt("sleep", "message")
    /\ sleep' = 0
    /\ UNCHANGED <<listVars, tcpVars, diff, tmp, rest, timeVars>>

\* The message is handled under the lock: a connection may come of it, the
\* last one may end.
HandleMessage ==
    /\ ThreadAt("message", "fetch")
    /\ connections' \in BOOLEAN
    /\ IF connections' /\ ~connections
         THEN TcpTimerNeeded
         ELSE UNCHANGED <<listVars, tcpip_tcp_timer_active>>
    /\ UNCHANGED <<sleep, diff, tmp, rest, timeVars>>

\* sys_check_timeouts: how late it is is read once for all timers due.
Check ==
    /\ ThreadAt("check", "next")
    /\ diff' = Since(timeouts_last_time)
    /\ UNCHANGED <<listVars, tcpVars, sleep, tmp, rest, timeVars>>

\* A timeout due now is left for the next call (wrong on purpose).
NextTimeoutLater ==
    /\ pc = "next"
    /\ IF Head(next_timeout).time < diff
         THEN pc' = "elapse" /\ tmp' = Head(next_timeout).h /\ UNCHANGED diff
         ELSE pc' = "fetch" /\ diff' = 0 /\ UNCHANGED tmp
    /\ UNCHANGED <<listVars, tcpVars, sleep, rest, timeVars>>

NextTimeout ==
    /\ pc = "next"
    /\ IF Head(next_timeout).time <= diff
         THEN pc' = "elapse" /\ tmp' = Head(next_timeout).h /\ UNCHANGED diff
         ELSE pc' = "fetch" /\ diff' = 0 /\ UNCHANGED tmp
    /\ UNCHANGED <<listVars, tcpVars, sleep, rest, timeVars>>

\* The time of tmptimeout has passed.
Elapse ==
    /\ ThreadAt("elapse", "unlink")
    /\ \E i \in DOMAIN next_timeout :
         /\ next_timeout[i].h = tmp
         /\ timeouts_last_time' = (timeouts_last_time + next_timeout[i].time) % Wrap
         /\ diff' = diff - next_timeout[i].time
    /\ UNCHANGED <<next_timeout, left, cut, tcpVars, sleep, tmp, rest, timeVars>>

\* Reads tmptimeout->next ...
Unlink ==
    /\ ThreadAt("unlink", "store")
    /\ \E i \in DOMAIN next_timeout :
         /\ next_timeout[i].h = tmp
         /\ rest' = IF i = Len(next_timeout) THEN None ELSE next_timeout[i + 1].h
    /\ UNCHANGED <<listVars, tcpVars, sleep, diff, tmp, timeVars>>

\* ... and makes it the first: what was put before it meanwhile is lost.
StoreNext ==
    /\ ThreadAt("store", "handle")
    /\ next_timeout' =
         SubSeq(next_timeout,
                Min({i \in DOMAIN next_timeout : next_timeout[i].h = rest} \union {Len(next_timeout) + 1}),
                Len(next_timeout))
    /\ rest' = None
    /\ UNCHANGED <<timeouts_last_time, left, cut, tcpVars, sleep, diff, tmp, timeVars>>

\* cyclic_timer
HandleCyclic ==
    /\ ThreadAt("handle", "next")
    /\ tmp \in Cyclic
    /\ SysTimeout(tmp)
    /\ tmp' = None
    /\ UNCHANGED <<tcpVars, sleep, diff, rest, timeVars>>

\* Stays active without a timer (wrong on purpose).
HandleTcpStays ==
    /\ ThreadAt("handle", "next")
    /\ tmp = Tcp
    /\ connections' \in {FALSE, connections}
    /\ IF connections' THEN SysTimeout(Tcp) ELSE UNCHANGED listVars
    /\ tmp' = None
    /\ UNCHANGED <<tcpip_tcp_timer_active, sleep, diff, rest, timeVars>>

\* tcpip_tcp_timer: tcp_tmr may end the last connection.
HandleTcp ==
    /\ ThreadAt("handle", "next")
    /\ tmp = Tcp
    /\ connections' \in {FALSE, connections}
    /\ tcpip_tcp_timer_active' = connections'
    /\ IF connections' THEN SysTimeout(Tcp) ELSE UNCHANGED listVars
    /\ tmp' = None
    /\ UNCHANGED <<sleep, diff, rest, timeVars>>

Thread ==
    \/ Fetch \/ TimeOut \/ HandleMessage \/ Check \/ NextTimeout
    \/ Elapse \/ Unlink \/ StoreNext \/ HandleCyclic \/ HandleTcp
-----------------------------------------------------------------------------
Scheduled(h) ==
    \/ \E i \in DOMAIN next_timeout : next_timeout[i].h = h
    \/ pc = "handle" /\ tmp = h

\* A unit of time passes; the thread keeps up within MaxLag.  (Bound: the clock
\* does not go round between two timeouts, which takes 49 days.)
Tick ==
    /\ \A h \in Timers : Since(timeouts_last_time) + Interval[h] + 1 < Wrap
    /\ now' = (now + 1) % Wrap
    /\ IF pc = "sleep" /\ sleep > 0
         THEN sleep' = sleep - 1 /\ UNCHANGED lag
         ELSE lag < MaxLag /\ lag' = lag + 1 /\ UNCHANGED sleep
    /\ left' = [h \in Timers |-> IF Scheduled(h) THEN left[h] - 1 ELSE 0]
    /\ UNCHANGED <<timeouts_last_time, next_timeout, cut, tcpVars, pc, diff, tmp, rest>>

Next == Connect \/ Abort \/ Message \/ Thread \/ Tick

Spec == Init /\ [][Next]_vars

\* Time passes and the thread gets the processor.
FairSpec == Spec /\ WF_vars(Tick) /\ WF_vars(Thread)
-----------------------------------------------------------------------------
\* Types (checked as part of TimersKept): no time in the list is negative.
TypeOK ==
    /\ {now, timeouts_last_time} \subseteq 0 .. Wrap - 1
    /\ next_timeout \in Seq([h : Timers, time : 0 .. Wrap - 1])
    /\ {tcpip_tcp_timer_active, connections} \subseteq BOOLEAN
    /\ pc \in ThreadPCs /\ {sleep, diff} \subseteq 0 .. Wrap - 1
    /\ {tmp, rest} \subseteq Timers \union {None}
    /\ lag \in 0 .. MaxLag /\ left \in [Timers -> Int] /\ cut \subseteq Timers

\* The TCP timer is in the list, or in the handler, exactly while
\* tcpip_tcp_timer_active is set, "global variable that shows if the tcp
\* timer is currently scheduled or not"; a cyclic timer always is, and no
\* timer is twice.
TimersKept ==
    /\ TypeOK
    /\ \A h \in Cyclic : Scheduled(h)
    /\ Scheduled(Tcp) <=> tcpip_tcp_timer_active
    /\ \A i, j \in DOMAIN next_timeout : next_timeout[i].h = next_timeout[j].h => i = j
    /\ pc = "handle" => \A i \in DOMAIN next_timeout : next_timeout[i].h # tmp

\* No handler runs before its time, whatever was inserted before and behind
\* its timeout, and across the wrap of the clock: only the timer that was put
\* in last when all others were due may be ("timeouts_last_time and now differ
\* too much").
NotEarly == pc = "handle" => left[tmp] <= 0 \/ tmp \in cut

\* However many timers are put back before a timer, each making it later by
\* its own lateness, it is late by MaxLate at most.
NotLate == \A h \in Timers : Scheduled(h) => left[h] >= -MaxLate

\* Each timer fires again and again, the TCP timer while it is active.
TimersFire ==
    /\ \A h \in Cyclic : []<>(pc = "handle" /\ tmp = h)
    /\ tcpip_tcp_timer_active ~> pc = "handle" /\ tmp = Tcp
=============================================================================
