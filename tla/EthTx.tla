------------------------------- MODULE EthTx -------------------------------
(***************************************************************************)
(* Ethernet transmission and the link monitor.                             *)
(*                                                                         *)
(* Application tasks and the tcpip thread send under the core lock         *)
(* (LWIP_TCPIP_CORE_LOCKING): low_level_output waits for a free transmit   *)
(* descriptor, copies the frame, hands the descriptor to the DMA and spins *)
(* on the transmit flag.  The link monitor is a task of its own: it reads  *)
(* the PHY and takes the interface up and down, which announces it with a  *)
(* gratuitous ARP, sent by the same low_level_output but without the lock. *)
(* Nothing keeps it and the senders apart; what low_level_output promises  *)
(* is stated up to the moment they meet, everything else without limit.    *)
(*                                                                         *)
(* The actors are the senders, the monitor, the DMA and the cable.  A step *)
(* of a task is a stretch of code between two accesses to shared data; the *)
(* tasks' priorities are left out, a task may be preempted at every step.  *)
(* The core lock is the mutex of module KernelMutex, taken for ever.       *)
(***************************************************************************)
EXTENDS Integers

CONSTANTS
    Senders,     \* the tasks that send under the core lock
    Monitor,     \* the task eth_link_monitor
    TxRing,      \* IFXGETH_MAX_TX_DESCRIPTORS
    NoTask

ASSUME TxConstants ==
    /\ Monitor \notin Senders
    /\ NoTask \notin Senders \union {Monitor}
    /\ TxRing \in Nat \ {0}

Tasks == Senders \union {Monitor}
Descriptors == 0 .. TxRing - 1
\* What a transmit buffer holds: the frame a task is sending, named by the
\* task, or one whose low_level_output has returned.
OldFrame == NoTask
Frames == Tasks \union {OldFrame}

VARIABLES
    own,            \* TDES3.OWN of each descriptor: does the DMA own it?
    buffer,         \* the frame in each transmit buffer
    txDescrPtr,     \* the descriptor the driver uses next
    tail,           \* the DMA's tail pointer: it stops there
    dmaPtr,         \* the descriptor the DMA looks at
    flag,           \* the DMA's transmitInterrupt flag
    lock_tcpip_core,
    pc,             \* where each sender is outside low_level_output
    out,            \* where each task is in low_level_output
    tbuf,           \* its local tbuf, as the number of the descriptor
    descr,          \* firstDescr, and then nextDescr, of sendTransmitBuffer;
                    \* both are 0 when they are not used any more
    times,          \* how often the DMA sent the task's frame (history)
    stray,          \* the DMA sent an old frame (history)
    met,            \* the monitor and a sender have been in low_level_output
                    \* at once, both with a transmit buffer (history)
    link,           \* is the cable plugged in?
    latched,        \* the PHY's link bit stays 0 until read: it is
    netifUp, netifLinkUp,     \* NETIF_FLAG_UP, NETIF_FLAG_LINK_UP
    link_flag,      \* the static variable of ethernetif_link_callback
    mon,            \* where the monitor is outside low_level_output
    owed            \* announcements due and not begun (history)

ringVars == <<own, buffer, txDescrPtr, tail, dmaPtr, flag>>
outVars == <<out, tbuf, descr>>
wireVars == <<times, stray, met>>
sendVars == <<lock_tcpip_core, pc>>
phyVars == <<link, latched>>
netifVars == <<netifUp, netifLinkUp, link_flag, mon, owed>>
vars == <<ringVars, outVars, wireVars, sendVars, phyVars, netifVars>>

OutPCs == {"none", "waitBuffer", "copy", "clear", "release", "start", "advance", "waitSent", "acknowledge"}
SendPCs == {"idle", "route", "output", "unlock"}
MonPCs == {"delay", "setUp", "announceUp", "setLinkUp", "announceLinkUp", "upAgain",
           "setDown", "setLinkDown", "downAgain"}
-----------------------------------------------------------------------------
Following(i) == (i + 1) % TxRing

\* low_level_init: no cable is needed for NETIF_FLAG_LINK_UP to be set.
Init ==
    /\ own = [i \in Descriptors |-> FALSE]
    /\ buffer = [i \in Descriptors |-> OldFrame]
    /\ txDescrPtr = 0 /\ tail = 0 /\ dmaPtr = 0
    /\ flag = FALSE
    /\ lock_tcpip_core = NoTask
    /\ pc = [t \in Senders |-> "idle"]
    /\ out = [t \in Tasks |-> "none"]
    /\ tbuf = [t \in Tasks |-> 0]
    /\ descr = [t \in Tasks |-> 0]
    /\ times = [t \in Tasks |-> 0]
    /\ stray = FALSE /\ met = FALSE
    /\ link = TRUE /\ latched = FALSE
    /\ netifUp = FALSE /\ netifLinkUp = TRUE
    /\ link_flag = 0
    /\ mon = "delay"
    /\ owed = 0
-----------------------------------------------------------------------------
(* low_level_output, run by any task *)

\* The task has a transmit buffer and has not returned.
Sending(t) == out[t] \notin {"none", "waitBuffer"}

\* The task enters with a new frame.
Enter(t) ==
    /\ out' = [out EXCEPT ![t] = "waitBuffer"]
    /\ UNCHANGED <<tbuf, descr, wireVars>>

At(t, here, next) ==
    /\ out[t] = here
    /\ out' = [out EXCEPT ![t] = next]

\* Spins until the current descriptor is not the DMA's.
WaitTransmitBuffer(t) ==
    /\ At(t, "waitBuffer", "copy")
    /\ ~own[txDescrPtr]
    /\ tbuf' = [tbuf EXCEPT ![t] = txDescrPtr]
    /\ met' = (met \/ \E u \in Tasks : Sending(u) /\ (u = Monitor) # (t = Monitor))
    /\ UNCHANGED <<ringVars, descr, times, stray, sendVars, phyVars, netifVars>>

CopyFrame(t) ==
    /\ At(t, "copy", "clear")
    /\ buffer' = [buffer EXCEPT ![tbuf[t]] = t]
    /\ tbuf' = [tbuf EXCEPT ![t] = 0]
    /\ UNCHANGED <<own, txDescrPtr, tail, dmaPtr, flag, descr,
                   wireVars, sendVars, phyVars, netifVars>>

ClearFlag(t) ==
    /\ At(t, "clear", "release")
    /\ flag' = FALSE
    /\ UNCHANGED <<own, buffer, txDescrPtr, tail, dmaPtr, tbuf, descr,
                   wireVars, sendVars, phyVars, netifVars>>

\* sendTransmitBuffer: a frame fits one descriptor; the DMA gets it and the
\* driver's pointer moves on.
ReleaseDescriptor(t) ==
    /\ At(t, "release", "start")
    /\ descr' = [descr EXCEPT ![t] = txDescrPtr]
    /\ own' = [own EXCEPT ![txDescrPtr] = TRUE]
    /\ txDescrPtr' = Following(txDescrPtr)
    /\ UNCHANGED <<buffer, tail, dmaPtr, flag, tbuf, wireVars, sendVars, phyVars, netifVars>>

\* The pointer goes back to the first descriptor while the DMA is told of
\* the new tail.  nextDescr was read from the pointer before.
StartTransmitter(t) ==
    /\ At(t, "start", "advance")
    /\ tail' = txDescrPtr
    /\ txDescrPtr' = descr[t]
    /\ descr' = [descr EXCEPT ![t] = txDescrPtr]
    /\ UNCHANGED <<own, buffer, dmaPtr, flag, tbuf, wireVars, sendVars, phyVars, netifVars>>

\* Clears the flag only now, after the DMA may have set it (wrong on purpose).
AdvanceDescriptorClears(t) ==
    /\ At(t, "advance", "waitSent")
    /\ txDescrPtr' = descr[t]
    /\ descr' = [descr EXCEPT ![t] = 0]
    /\ flag' = FALSE
    /\ UNCHANGED <<own, buffer, tail, dmaPtr, tbuf,
                   wireVars, sendVars, phyVars, netifVars>>

AdvanceDescriptor(t) ==
    /\ At(t, "advance", "waitSent")
    /\ txDescrPtr' = descr[t]
    /\ descr' = [descr EXCEPT ![t] = 0]
    /\ UNCHANGED <<own, buffer, tail, dmaPtr, flag, tbuf,
                   wireVars, sendVars, phyVars, netifVars>>

WaitSent(t) ==
    /\ At(t, "waitSent", "acknowledge")
    /\ flag
    /\ UNCHANGED <<ringVars, tbuf, descr, wireVars, sendVars, phyVars, netifVars>>

\* The flag is cleared and low_level_output returns ERR_OK.
Acknowledge(t) ==
    /\ At(t, "acknowledge", "none")
    /\ flag' = FALSE
    /\ buffer' = [i \in Descriptors |-> IF buffer[i] = t THEN OldFrame ELSE buffer[i]]
    /\ times' = [times EXCEPT ![t] = 0]
    /\ UNCHANGED <<own, txDescrPtr, tail, dmaPtr, tbuf, descr, stray, met,
                   sendVars, phyVars, netifVars>>

Output(t) ==
    \/ WaitTransmitBuffer(t) \/ CopyFrame(t) \/ ClearFlag(t)
    \/ ReleaseDescriptor(t) \/ StartTransmitter(t) \/ AdvanceDescriptor(t)
    \/ WaitSent(t) \/ Acknowledge(t)
-----------------------------------------------------------------------------
(* The DMA sends the frame of a descriptor it owns, up to the tail, gives  *)
(* the descriptor back and sets the flag.                                  *)
DmaTransmit ==
    /\ dmaPtr # tail
    /\ own[dmaPtr]
    /\ own' = [own EXCEPT ![dmaPtr] = FALSE]
    /\ dmaPtr' = Following(dmaPtr)
    /\ flag' = TRUE
    /\ IF buffer[dmaPtr] = OldFrame
         THEN stray' = TRUE /\ UNCHANGED times
         ELSE /\ times' = [times EXCEPT ![buffer[dmaPtr]] = IF @ < 2 THEN @ + 1 ELSE @]
              /\ UNCHANGED stray
    /\ UNCHANGED <<buffer, txDescrPtr, tail, met, outVars, sendVars, phyVars, netifVars>>
-----------------------------------------------------------------------------
(* A sender: a socket call, or a timer or reply of the tcpip thread *)

\* Does not look at the lock (wrong on purpose).
LockTcpipCoreBlindly(t) ==
    /\ pc[t] = "idle"
    /\ lock_tcpip_core' = t
    /\ pc' = [pc EXCEPT ![t] = "route"]
    /\ UNCHANGED <<ringVars, outVars, wireVars, phyVars, netifVars>>

LockTcpipCore(t) ==
    /\ pc[t] = "idle"
    /\ lock_tcpip_core = NoTask
    /\ lock_tcpip_core' = t
    /\ pc' = [pc EXCEPT ![t] = "route"]
    /\ UNCHANGED <<ringVars, outVars, wireVars, phyVars, netifVars>>

\* Only an interface that is up and has a link is a route.
Route(t) ==
    /\ pc[t] = "route"
    /\ netifUp /\ netifLinkUp
    /\ Enter(t)
    /\ pc' = [pc EXCEPT ![t] = "output"]
    /\ UNCHANGED <<ringVars, lock_tcpip_core, phyVars, netifVars>>

NoRoute(t) ==
    /\ pc[t] = "route"
    /\ ~(netifUp /\ netifLinkUp)
    /\ pc' = [pc EXCEPT ![t] = "unlock"]
    /\ UNCHANGED <<ringVars, outVars, wireVars, lock_tcpip_core, phyVars, netifVars>>

Sent(t) ==
    /\ pc[t] = "output"
    /\ out[t] = "none"
    /\ pc' = [pc EXCEPT ![t] = "unlock"]
    /\ UNCHANGED <<ringVars, outVars, wireVars, lock_tcpip_core, phyVars, netifVars>>

UnlockTcpipCore(t) ==
    /\ pc[t] = "unlock"
    /\ lock_tcpip_core' = NoTask
    /\ pc' = [pc EXCEPT ![t] = "idle"]
    /\ UNCHANGED <<ringVars, outVars, wireVars, phyVars, netifVars>>

\* What a sender does with the lock.
Proceed(t) == Route(t) \/ NoRoute(t) \/ Sent(t) \/ UnlockTcpipCore(t) \/ Output(t)

Send(t) == LockTcpipCore(t) \/ Proceed(t)
-----------------------------------------------------------------------------
(* The cable and the PHY *)

LinkChange ==
    /\ link' = ~link
    /\ latched' = (latched \/ link)
    /\ UNCHANGED <<ringVars, outVars, wireVars, sendVars, netifVars>>

\* rtl8211f_link_state reads the link bit of BMSR: 0 once after a loss of
\* the link, then the present state.
LinkState == link /\ ~latched
ReadLinkState == latched' = ~link /\ UNCHANGED link
-----------------------------------------------------------------------------
(* The monitor: ethernetif_link_callback, every 5000 ticks                 *)

Ready == netifUp /\ netifLinkUp

\* Makes the interface usable or not: owed counts the announcements due.
NowReady == owed' = owed + (IF Ready' /\ ~Ready THEN 1 ELSE 0)

MonitorAt(here) == mon = here /\ out[Monitor] = "none"

\* Reads the PHY; a change since link_flag was written takes the interface
\* up or down.
Poll ==
    /\ MonitorAt("delay")
    /\ ReadLinkState
    /\ mon' = CASE LinkState /\ link_flag = 0 -> "setUp"
                [] ~LinkState /\ link_flag = 1 -> "setDown"
                [] OTHER -> "delay"
    /\ UNCHANGED <<ringVars, outVars, wireVars, sendVars, netifUp, netifLinkUp, link_flag, owed>>

\* Announces whatever the link (wrong on purpose).
SetUpAnnounces ==
    /\ MonitorAt("setUp")
    /\ netifUp' = TRUE
    /\ mon' = IF ~netifUp THEN "announceUp" ELSE "setLinkUp"
    /\ UNCHANGED netifLinkUp
    /\ NowReady
    /\ UNCHANGED <<ringVars, outVars, wireVars, sendVars, phyVars, link_flag>>

\* netif_set_up
SetUp ==
    /\ MonitorAt("setUp")
    /\ netifUp' = TRUE
    /\ mon' = IF ~netifUp /\ netifLinkUp THEN "announceUp" ELSE "setLinkUp"
    /\ UNCHANGED netifLinkUp
    /\ NowReady
    /\ UNCHANGED <<ringVars, outVars, wireVars, sendVars, phyVars, link_flag>>

\* netif_issue_reports: the gratuitous ARP, from netif_set_up or
\* netif_set_link_up.  (The IGMP reports wait for their timer.)
Announce ==
    /\ \/ MonitorAt("announceUp") /\ mon' = "setLinkUp"
       \/ MonitorAt("announceLinkUp") /\ mon' = "upAgain"
    /\ Enter(Monitor)
    /\ owed' = owed - 1
    /\ UNCHANGED <<ringVars, sendVars, phyVars, netifUp, netifLinkUp, link_flag>>

\* netif_set_link_up
SetLinkUp ==
    /\ MonitorAt("setLinkUp")
    /\ netifLinkUp' = TRUE
    /\ UNCHANGED netifUp
    /\ NowReady
    /\ IF netifLinkUp
         THEN mon' = "delay" /\ link_flag' = 1
         ELSE /\ mon' = IF netifUp THEN "announceLinkUp" ELSE "upAgain"
              /\ UNCHANGED link_flag
    /\ UNCHANGED <<ringVars, outVars, wireVars, sendVars, phyVars>>

\* netif_set_down
SetDown ==
    /\ MonitorAt("setDown")
    /\ netifUp' = FALSE
    /\ mon' = "setLinkDown"
    /\ UNCHANGED <<ringVars, outVars, wireVars, sendVars, phyVars, netifLinkUp, link_flag, owed>>

\* netif_set_link_down
SetLinkDown ==
    /\ MonitorAt("setLinkDown")
    /\ netifLinkUp' = FALSE
    /\ IF netifLinkUp
         THEN mon' = "downAgain" /\ UNCHANGED link_flag
         ELSE mon' = "delay" /\ link_flag' = 0
    /\ UNCHANGED <<ringVars, outVars, wireVars, sendVars, phyVars, netifUp, owed>>

\* The inner call's link_flag stands (wrong on purpose).
CallbackAgainStands ==
    /\ MonitorAt("upAgain") \/ MonitorAt("downAgain")
    /\ link_flag' = IF LinkState THEN 1 ELSE 0
    /\ ReadLinkState
    /\ mon' = "delay"
    /\ UNCHANGED <<ringVars, outVars, wireVars, sendVars, netifUp, netifLinkUp, owed>>

\* netif_set_link_up and netif_set_link_down call ethernetif_link_callback
\* again before link_flag is written: it reads the PHY once more and finds
\* the flags as it wants them, and the outer call overwrites its link_flag.
CallbackAgain ==
    /\ \/ MonitorAt("upAgain") /\ link_flag' = 1
       \/ MonitorAt("downAgain") /\ link_flag' = 0
    /\ ReadLinkState
    /\ mon' = "delay"
    /\ UNCHANGED <<ringVars, outVars, wireVars, sendVars, netifUp, netifLinkUp, owed>>

Link == Poll \/ SetUp \/ Announce \/ SetLinkUp \/ SetDown \/ SetLinkDown \/ CallbackAgain
-----------------------------------------------------------------------------
Next ==
    \/ \E t \in Senders : Send(t)
    \/ Output(Monitor) \/ Link
    \/ DmaTransmit
    \/ LinkChange

Spec == Init /\ [][Next]_vars

\* Every task keeps getting the processor (the tasks above a sender block in
\* the end, those beside it share the time), the monitor's delay ends, and
\* the DMA sends what it is told to send.  A task that waits for a descriptor
\* looks at it again and again: it does not always miss the time between two
\* outputs of the other, which is long.  Nothing is assumed of the lock or of
\* the cable.
Fairness ==
    /\ \A t \in Senders : WF_vars(Proceed(t))
    /\ WF_vars(Link \/ Output(Monitor))
    /\ \A t \in Tasks : SF_vars(WaitTransmitBuffer(t))
    /\ WF_vars(DmaTransmit)

FairSpec == Spec /\ Fairness
-----------------------------------------------------------------------------
TypeOK ==
    /\ own \in [Descriptors -> BOOLEAN]
    /\ buffer \in [Descriptors -> Frames]
    /\ txDescrPtr \in Descriptors /\ tail \in Descriptors /\ dmaPtr \in Descriptors
    /\ flag \in BOOLEAN
    /\ lock_tcpip_core \in Senders \union {NoTask}
    /\ pc \in [Senders -> SendPCs]
    /\ out \in [Tasks -> OutPCs]
    /\ tbuf \in [Tasks -> Descriptors]
    /\ descr \in [Tasks -> Descriptors]
    /\ times \in [Tasks -> 0 .. 2]
    /\ stray \in BOOLEAN /\ met \in BOOLEAN
    /\ link \in BOOLEAN /\ latched \in BOOLEAN
    /\ netifUp \in BOOLEAN /\ netifLinkUp \in BOOLEAN
    /\ link_flag \in 0 .. 1
    /\ mon \in MonPCs
    /\ owed \in 0 .. 1

\* low_level_output returns ERR_OK for a frame the DMA sent, once: the flag
\* it waits for is never an earlier frame's, the descriptor it hands over
\* holds its own frame, and no buffer is sent again.
SentOnce ==
    /\ ~stray
    /\ \A t \in Tasks :
         /\ times[t] <= 1
         /\ out[t] = "acknowledge" => times[t] = 1

\* The same up to the moment the monitor and a sender use the transmit ring
\* at once: nothing else makes low_level_output break its promise, neither
\* the other senders nor a monitor that waits for a buffer meanwhile.
SentOnceUntilMet == met \/ SentOnce

\* The interface is announced once each time it becomes usable, by whichever
\* of netif_set_up and netif_set_link_up completes it, and before the
\* monitor delays again.
AnnouncedOnce == TypeOK /\ (mon = "delay" => owed = 0)

\* A call of low_level_output returns: the busy waits for a descriptor and
\* for the flag end.
OutputReturns == \A t \in Tasks : []<>(out[t] = "none")

\* The same up to the moment the monitor and a sender use the transmit ring at
\* once.
OutputReturnsUntilMet == <>met \/ OutputReturns

\* A cable that stays in, or stays out, is noticed, also while others send:
\* neither the link bit that is 0 once too often nor the callback's call of
\* itself leaves link_flag at odds with the interface.  Only a
\* low_level_output that does not return keeps the monitor from it.
InterfaceFollowsLink ==
    \/ <>[](out[Monitor] # "none")
    \/ /\ <>[]link => <>[]Ready
       /\ <>[]~link => <>[]~netifUp
=============================================================================
