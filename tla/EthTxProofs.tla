---------------------------- MODULE EthTxProofs ----------------------------
(***************************************************************************)
(* Proofs about EthTx for any senders and any length of the transmit ring. *)
(* The monitor and the senders may meet at any moment; what is proved of   *)
(* the ring holds until they do.                                           *)
(***************************************************************************)
EXTENDS EthTx, TLAPS

\* A sender in low_level_output, and one on its way to it, has the core lock.
LockInv ==
    \A t \in Senders : /\ pc[t] # "idle" => lock_tcpip_core = t
                       /\ out[t] # "none" => pc[t] = "output"

\* An announcement is owed between netif_set_up or netif_set_link_up and the
\* gratuitous ARP.
OwedInv == owed = IF mon \in {"announceUp", "announceLinkUp"} THEN 1 ELSE 0

NoneOwned == \A i \in Descriptors : ~own[i]

\* The ring when nobody sends: the driver and the DMA are at one descriptor.
Quiet ==
    /\ NoneOwned /\ \A i \in Descriptors : buffer[i] = OldFrame
    /\ dmaPtr = tail /\ txDescrPtr = tail
    /\ ~flag

\* Descriptor d, and no other, has the frame of t.
Holds(d, t) == \A i \in Descriptors : buffer[i] = IF i = d THEN t ELSE OldFrame

\* The DMA has not begun, or has sent the frame of t.
Unsent(d, t) ==
    /\ \A i \in Descriptors : own[i] <=> i = d
    /\ dmaPtr = d /\ ~flag /\ times[t] = 0
Done(t) == NoneOwned /\ dmaPtr = tail /\ flag /\ times[t] = 1

\* The place of a task t that is sending determines the state of the ring.
Phase(t) ==
    \/ out[t] = "copy" /\ Quiet /\ times[t] = 0 /\ tbuf[t] = txDescrPtr
    \/ /\ out[t] \in {"clear", "release"}
       /\ NoneOwned /\ Holds(txDescrPtr, t)
       /\ dmaPtr = tail /\ txDescrPtr = tail /\ ~flag /\ times[t] = 0
    \/ /\ out[t] = "start"
       /\ Holds(descr[t], t) /\ Unsent(descr[t], t)
       /\ tail = descr[t] /\ txDescrPtr = Following(descr[t])
    \/ \E d \in Descriptors :
         /\ tail = Following(d) /\ Holds(d, t)
         /\ \/ /\ out[t] = "advance" /\ txDescrPtr = d /\ descr[t] = tail
               /\ Unsent(d, t) \/ Done(t)
            \/ out[t] = "waitSent" /\ txDescrPtr = tail /\ (Unsent(d, t) \/ Done(t))
            \/ out[t] = "acknowledge" /\ txDescrPtr = tail /\ Done(t)

Outside(u) == ~Sending(u) /\ times[u] = 0
Alone(t) == \A u \in Tasks \ {t} : Outside(u)

\* Nobody has a transmit buffer, or one task; others may wait for one.
RingInv ==
    /\ ~stray
    /\ \/ Quiet /\ \A u \in Tasks : Outside(u)
       \/ \E t \in Tasks : Alone(t) /\ Phase(t)

IInv == TypeOK /\ LockInv /\ OwedInv /\ (met \/ RingInv)
-----------------------------------------------------------------------------
LEMMA FollowingType ==
    ASSUME TxConstants, NEW i \in Descriptors PROVE Following(i) \in Descriptors
BY DEF TxConstants, Descriptors, Following

\* No task has the name that stands for an old frame.
LEMMA NamesDiffer == ASSUME TxConstants, NEW t \in Tasks PROVE t # OldFrame
BY DEF TxConstants, Tasks, OldFrame

\* The task that is sending is the one the ring is about.
LEMMA PhaseOf ==
    ASSUME RingInv, NEW t \in Tasks, Sending(t) PROVE Alone(t) /\ Phase(t)
BY DEF RingInv, Outside, Alone

LEMMA PhaseSends == ASSUME NEW t, Phase(t) PROVE Sending(t)
BY DEF Phase, Sending

LEMMA NobodySending ==
    ASSUME RingInv, \A u \in Tasks : ~Sending(u)
    PROVE  Quiet /\ \A u \in Tasks : Outside(u)
<1>1. \A t \in Tasks : ~Phase(t) BY PhaseSends
<1> QED BY <1>1 DEF RingInv

LEMMA RingKept ==
    ASSUME RingInv, UNCHANGED <<ringVars, outVars, wireVars>> PROVE RingInv'
BY DEF RingInv, Phase, Alone, Outside, Sending, Quiet, NoneOwned, Holds, Unsent, Done,
       ringVars, outVars, wireVars

LEMMA InitIInv == ASSUME TxConstants, Init PROVE IInv
<1> USE DEF Init
<1>1. TypeOK
  <2>1. 0 \in Descriptors BY DEF TxConstants, Descriptors
  <2>2. own \in [Descriptors -> BOOLEAN] /\ buffer \in [Descriptors -> Frames] BY DEF Frames
  <2>3. pc \in [Senders -> SendPCs] /\ out \in [Tasks -> OutPCs] BY DEF SendPCs, OutPCs
  <2>4. /\ tbuf \in [Tasks -> Descriptors] /\ descr \in [Tasks -> Descriptors]
        /\ times \in [Tasks -> 0 .. 2]
    BY <2>1
  <2>5. /\ txDescrPtr \in Descriptors /\ tail \in Descriptors /\ dmaPtr \in Descriptors
        /\ flag \in BOOLEAN /\ stray \in BOOLEAN /\ met \in BOOLEAN
    BY <2>1
  <2>6. /\ lock_tcpip_core \in Senders \union {NoTask}
        /\ link \in BOOLEAN /\ latched \in BOOLEAN
        /\ netifUp \in BOOLEAN /\ netifLinkUp \in BOOLEAN
    OBVIOUS
  <2>7. link_flag \in 0 .. 1 /\ mon \in MonPCs /\ owed \in 0 .. 1 BY DEF MonPCs
  <2> HIDE DEF Init
  <2> QED BY <2>2, <2>3, <2>4, <2>5, <2>6, <2>7 DEF TypeOK
<1>2. LockInv BY DEF LockInv, Tasks
<1>3. OwedInv BY DEF OwedInv
<1>4. RingInv BY DEF RingInv, Quiet, NoneOwned, Outside, Sending
<1> QED BY <1>1, <1>2, <1>3, <1>4 DEF IInv
-----------------------------------------------------------------------------
(* low_level_output: the types, the lock and the announcement.             *)

LEMMA OutputTypes == ASSUME TxConstants, TypeOK, NEW t \in Tasks, Output(t) PROVE TypeOK'
<1>1. CASE WaitTransmitBuffer(t)
  BY <1>1 DEF WaitTransmitBuffer, At, TypeOK, OutPCs, ringVars, sendVars, phyVars, netifVars
<1>2. CASE CopyFrame(t)
  <2>1. 0 \in Descriptors BY DEF TxConstants, Descriptors
  <2> QED BY <1>2, <2>1
          DEF CopyFrame, At, TypeOK, OutPCs, Frames, wireVars, sendVars, phyVars, netifVars
<1>3. CASE ClearFlag(t)
  BY <1>3 DEF ClearFlag, At, TypeOK, OutPCs, wireVars, sendVars, phyVars, netifVars
<1>4. CASE ReleaseDescriptor(t)
  BY <1>4, FollowingType
  DEF ReleaseDescriptor, At, TypeOK, OutPCs, wireVars, sendVars, phyVars, netifVars
<1>5. CASE StartTransmitter(t)
  BY <1>5 DEF StartTransmitter, At, TypeOK, OutPCs, wireVars, sendVars, phyVars, netifVars
<1>6. CASE AdvanceDescriptor(t)
  <2>1. 0 \in Descriptors BY DEF TxConstants, Descriptors
  <2> QED BY <1>6, <2>1
          DEF AdvanceDescriptor, At, TypeOK, OutPCs, wireVars, sendVars, phyVars, netifVars
<1>7. CASE WaitSent(t)
  BY <1>7 DEF WaitSent, At, TypeOK, OutPCs, ringVars, wireVars, sendVars, phyVars, netifVars
<1>8. CASE Acknowledge(t)
  <2> USE <1>8 DEF Acknowledge, At
  <2>1. buffer' \in [Descriptors -> Frames] BY DEF TypeOK, Frames
  <2>2. times' \in [Tasks -> 0 .. 2] BY DEF TypeOK
  <2>3. out' \in [Tasks -> OutPCs] BY DEF TypeOK, OutPCs
  <2> QED BY <2>1, <2>2, <2>3 DEF TypeOK, sendVars, phyVars, netifVars
<1> QED BY <1>1, <1>2, <1>3, <1>4, <1>5, <1>6, <1>7, <1>8 DEF Output

LEMMA OutputLock ==
    ASSUME TypeOK, LockInv, OwedInv, NEW t \in Tasks, Output(t) PROVE LockInv' /\ OwedInv'
<1>1. /\ out[t] # "none" /\ UNCHANGED <<sendVars, netifVars>>
      /\ \E l : out' = [out EXCEPT ![t] = l]
  BY DEF Output, At, WaitTransmitBuffer, CopyFrame, ClearFlag, ReleaseDescriptor,
         StartTransmitter, AdvanceDescriptor, WaitSent, Acknowledge
<1> QED BY <1>1 DEF TypeOK, LockInv, OwedInv, sendVars, netifVars, Tasks
-----------------------------------------------------------------------------
(* The ring: each step leads from one phase to the next.                   *)

\* Whoever gets a transmit buffer is the only one to have one: the core lock
\* keeps the senders apart, and the monitor and a sender have not met.
LEMMA WaitTransmitBufferStep ==
    ASSUME TxConstants, TypeOK, LockInv, RingInv, NEW t \in Tasks, WaitTransmitBuffer(t), ~met'
    PROVE  RingInv'
<1> USE DEF WaitTransmitBuffer, At
<1>1. ASSUME NEW u \in Tasks, Sending(u) PROVE FALSE
  <2>1. out[u] # "none" /\ u # t BY <1>1 DEF Sending
  <2>2. (u = Monitor) = (t = Monitor) BY <1>1
  <2>3. u \in Senders /\ t \in Senders BY <2>1, <2>2 DEF Tasks
  <2>4. lock_tcpip_core = u /\ lock_tcpip_core = t BY <2>1, <2>3 DEF LockInv
  <2> QED BY <2>1, <2>4
<1>2. Quiet /\ \A u \in Tasks : Outside(u) BY <1>1, NobodySending
<1>3. Quiet' BY <1>2 DEF Quiet, NoneOwned, ringVars
<1>4. Alone(t)' BY <1>2 DEF TypeOK, Alone, Outside, Sending
<1>5. /\ out'[t] = "copy" /\ tbuf'[t] = txDescrPtr' /\ times'[t] = 0
  BY <1>2 DEF TypeOK, Outside, ringVars
<1>6. Phase(t)' BY <1>3, <1>5 DEF Phase
<1> QED BY <1>4, <1>6 DEF RingInv

LEMMA CopyFrameStep ==
    ASSUME TypeOK, RingInv, NEW t \in Tasks, CopyFrame(t) PROVE RingInv'
<1> USE DEF CopyFrame, At
<1>1. Alone(t) /\ Phase(t) BY PhaseOf DEF Sending
<1>2. Alone(t)' BY <1>1 DEF TypeOK, Alone, Outside, Sending, wireVars
<1>3. Quiet /\ times[t] = 0 /\ tbuf[t] = txDescrPtr BY <1>1 DEF Phase
<1>4. Holds(txDescrPtr, t)' BY <1>3 DEF TypeOK, Quiet, Holds
<1>5. Phase(t)' BY <1>3, <1>4 DEF TypeOK, Phase, Quiet, NoneOwned, wireVars
<1> QED BY <1>2, <1>5 DEF RingInv, wireVars

LEMMA ClearFlagStep ==
    ASSUME TypeOK, RingInv, NEW t \in Tasks, ClearFlag(t) PROVE RingInv'
<1> USE DEF ClearFlag, At
<1>1. Alone(t) /\ Phase(t) BY PhaseOf DEF Sending
<1>2. Alone(t)' BY <1>1 DEF TypeOK, Alone, Outside, Sending, wireVars
<1>3. Phase(t)' BY <1>1 DEF TypeOK, Phase, NoneOwned, Holds, wireVars
<1> QED BY <1>2, <1>3 DEF RingInv, wireVars

LEMMA ReleaseDescriptorStep ==
    ASSUME TypeOK, RingInv, NEW t \in Tasks, ReleaseDescriptor(t) PROVE RingInv'
<1> USE DEF ReleaseDescriptor, At
<1>1. Alone(t) /\ Phase(t) BY PhaseOf DEF Sending
<1>2. Alone(t)' BY <1>1 DEF TypeOK, Alone, Outside, Sending, wireVars
<1>3. /\ NoneOwned /\ Holds(txDescrPtr, t)
      /\ dmaPtr = tail /\ txDescrPtr = tail /\ ~flag /\ times[t] = 0
  BY <1>1 DEF Phase
<1>4. descr'[t] = txDescrPtr BY DEF TypeOK
<1>5. Holds(descr[t], t)' BY <1>3, <1>4 DEF Holds
<1>6. Unsent(descr[t], t)' BY <1>3, <1>4 DEF TypeOK, Unsent, NoneOwned, wireVars
<1>7. Phase(t)' BY <1>3, <1>4, <1>5, <1>6 DEF TypeOK, Phase, Following
<1> QED BY <1>2, <1>7 DEF RingInv, wireVars

LEMMA StartTransmitterStep ==
    ASSUME TypeOK, RingInv, NEW t \in Tasks, StartTransmitter(t) PROVE RingInv'
<1> USE DEF StartTransmitter, At
<1>1. Alone(t) /\ Phase(t) BY PhaseOf DEF Sending
<1>2. Alone(t)' BY <1>1 DEF TypeOK, Alone, Outside, Sending, wireVars
<1> DEFINE d == descr[t]
<1>3. d \in Descriptors BY DEF TypeOK
<1>4. Holds(d, t) /\ Unsent(d, t) /\ txDescrPtr = Following(d) BY <1>1 DEF Phase
<1>5. tail' = Following(d) /\ txDescrPtr' = d /\ descr'[t] = tail' /\ out'[t] = "advance"
  BY <1>4 DEF TypeOK
<1>6. \A i \in Descriptors : buffer'[i] = IF i = d THEN t ELSE OldFrame BY <1>4 DEF Holds
<1>7. /\ \A i \in Descriptors : own'[i] <=> i = d
      /\ dmaPtr' = d /\ ~flag' /\ times'[t] = 0
  BY <1>4 DEF Unsent, wireVars
<1>8. Phase(t)' BY <1>3, <1>5, <1>6, <1>7 DEF Phase, Holds, Unsent, Following
<1> QED BY <1>2, <1>8 DEF RingInv, wireVars

LEMMA AdvanceDescriptorStep ==
    ASSUME TypeOK, RingInv, NEW t \in Tasks, AdvanceDescriptor(t) PROVE RingInv'
<1> USE DEF AdvanceDescriptor, At
<1>1. Alone(t) /\ Phase(t) BY PhaseOf DEF Sending
<1>2. Alone(t)' BY <1>1 DEF TypeOK, Alone, Outside, Sending, wireVars
<1>3. PICK d \in Descriptors :
        /\ tail = Following(d) /\ Holds(d, t)
        /\ descr[t] = tail /\ (Unsent(d, t) \/ Done(t))
  BY <1>1 DEF Phase
<1>4. tail' = Following(d) /\ Holds(d, t)' /\ txDescrPtr' = tail' /\ out'[t] = "waitSent"
  BY <1>3 DEF TypeOK, Holds
<1>5. Unsent(d, t)' \/ Done(t)' BY <1>3 DEF Unsent, Done, NoneOwned, wireVars
<1>6. Phase(t)' BY <1>4, <1>5 DEF Phase, Following
<1> QED BY <1>2, <1>6 DEF RingInv, wireVars

LEMMA WaitSentStep ==
    ASSUME TypeOK, RingInv, NEW t \in Tasks, WaitSent(t) PROVE RingInv'
<1> USE DEF WaitSent, At
<1>1. Alone(t) /\ Phase(t) BY PhaseOf DEF Sending
<1>2. Alone(t)' BY <1>1 DEF TypeOK, Alone, Outside, Sending, wireVars
<1>3. PICK d \in Descriptors :
        tail = Following(d) /\ Holds(d, t) /\ txDescrPtr = tail /\ Done(t)
  BY <1>1 DEF Phase, Unsent
<1>4. /\ tail' = Following(d) /\ Holds(d, t)' /\ txDescrPtr' = tail' /\ Done(t)'
      /\ out'[t] = "acknowledge"
  BY <1>3 DEF TypeOK, Holds, Done, NoneOwned, ringVars, wireVars
<1>5. Phase(t)' BY <1>4 DEF Phase, Following
<1> QED BY <1>2, <1>5 DEF RingInv, wireVars

LEMMA AcknowledgeStep ==
    ASSUME TypeOK, RingInv, NEW t \in Tasks, Acknowledge(t) PROVE RingInv'
<1> USE DEF Acknowledge, At
<1>1. Alone(t) /\ Phase(t) BY PhaseOf DEF Sending
<1>2. Alone(t)' /\ Outside(t)' BY <1>1 DEF TypeOK, Alone, Outside, Sending
<1>3. PICK d \in Descriptors : Holds(d, t) /\ txDescrPtr = tail /\ Done(t) BY <1>1 DEF Phase
<1>4. Quiet' BY <1>3 DEF TypeOK, Quiet, Holds, Done, NoneOwned
<1> QED BY <1>2, <1>4 DEF RingInv, Alone

LEMMA OutputStep == ASSUME TxConstants, IInv, NEW t \in Tasks, Output(t) PROVE IInv'
<1>1. TypeOK /\ LockInv /\ OwedInv /\ (met \/ RingInv) BY DEF IInv
<1>2. TypeOK' /\ LockInv' /\ OwedInv' BY <1>1, OutputTypes, OutputLock
<1>3. met => met'
  BY DEF Output, WaitTransmitBuffer, CopyFrame, ClearFlag, ReleaseDescriptor,
         StartTransmitter, AdvanceDescriptor, WaitSent, Acknowledge, wireVars
<1>4. ASSUME RingInv, ~met' PROVE RingInv'
  BY <1>1, <1>4, WaitTransmitBufferStep, CopyFrameStep, ClearFlagStep, ReleaseDescriptorStep,
     StartTransmitterStep, AdvanceDescriptorStep, WaitSentStep, AcknowledgeStep
  DEF Output
<1> QED BY <1>1, <1>2, <1>3, <1>4 DEF IInv
-----------------------------------------------------------------------------
(* The DMA sends the frame of the task that handed it over, and only that. *)

LEMMA DmaTransmitRing == ASSUME TxConstants, TypeOK, RingInv, DmaTransmit PROVE RingInv'
<1> USE DEF DmaTransmit
<1>1. dmaPtr \in Descriptors BY DEF TypeOK
<1>2. ~Quiet BY <1>1 DEF Quiet
<1>3. PICK t \in Tasks : Alone(t) /\ Phase(t) BY <1>2 DEF RingInv
<1>4. PICK d \in Descriptors :
        /\ tail = Following(d) /\ Holds(d, t) /\ Unsent(d, t)
        /\ \/ out[t] = "advance" /\ txDescrPtr = d /\ descr[t] = tail
           \/ out[t] = "waitSent" /\ txDescrPtr = tail
  BY <1>1, <1>2, <1>3 DEF Phase, Unsent, Done, NoneOwned
<1>5. buffer[dmaPtr] = t /\ dmaPtr = d /\ times[t] = 0 BY <1>4 DEF Holds, Unsent
<1>6. t # OldFrame BY NamesDiffer
<1>7. times' = [times EXCEPT ![t] = 1] /\ UNCHANGED stray BY <1>5, <1>6 DEF TypeOK
<1>8. Alone(t)' BY <1>3, <1>7 DEF TypeOK, Alone, Outside, Sending, outVars
<1>9. Done(t)' BY <1>4, <1>5, <1>7 DEF TypeOK, Done, NoneOwned, Unsent
<1>10. tail' = Following(d) /\ Holds(d, t)' BY <1>4 DEF Holds
<1>11. Phase(t)' BY <1>4, <1>9, <1>10 DEF Phase, Following, outVars
<1> QED BY <1>7, <1>8, <1>11 DEF RingInv

LEMMA DmaTransmitStep == ASSUME TxConstants, IInv, DmaTransmit PROVE IInv'
<1>1. TypeOK'
  <2> USE DEF DmaTransmit
  <2>1. dmaPtr' \in Descriptors /\ own' \in [Descriptors -> BOOLEAN]
    BY FollowingType DEF IInv, TypeOK
  <2>2. buffer[dmaPtr] \in Tasks \union {OldFrame} BY DEF IInv, TypeOK, Frames
  <2>3. times' \in [Tasks -> 0 .. 2] BY <2>2 DEF IInv, TypeOK
  <2>4. stray' \in BOOLEAN BY Zenon DEF IInv, TypeOK
  <2> QED BY <2>1, <2>3, <2>4 DEF IInv, TypeOK, outVars, sendVars, phyVars, netifVars
<1>2. LockInv' /\ OwedInv'
  BY DEF IInv, LockInv, OwedInv, DmaTransmit, outVars, sendVars, netifVars
<1>3. met' = met BY DEF DmaTransmit
<1>4. RingInv => RingInv' BY DmaTransmitRing DEF IInv
<1> QED BY <1>1, <1>2, <1>3, <1>4 DEF IInv
-----------------------------------------------------------------------------
(* A task enters low_level_output: it waits, whoever is in it.             *)

LEMMA EnterRing ==
    ASSUME TypeOK, RingInv, NEW t \in Tasks, out[t] = "none", Enter(t), UNCHANGED ringVars
    PROVE  RingInv'
<1>1. /\ out' = [out EXCEPT ![t] = "waitBuffer"] /\ times' = times /\ stray' = stray
      /\ tbuf' = tbuf /\ descr' = descr
  BY DEF Enter, wireVars
<1>2. \A u \in Tasks : Outside(u) => Outside(u)' BY <1>1 DEF TypeOK, Outside, Sending
<1>3. CASE Quiet /\ \A u \in Tasks : Outside(u)
  <2>1. Quiet' BY <1>3 DEF Quiet, NoneOwned, ringVars
  <2> QED BY <1>1, <1>2, <1>3, <2>1 DEF RingInv
<1>4. CASE \E u \in Tasks : Alone(u) /\ Phase(u)
  <2>1. PICK u \in Tasks : Alone(u) /\ Phase(u) BY <1>4
  <2>2. u # t BY <2>1, PhaseSends DEF Sending
  <2>3. out'[u] = out[u] BY <1>1, <2>2 DEF TypeOK
  <2>4. Phase(u)'
    BY <1>1, <2>1, <2>3 DEF Phase, Quiet, NoneOwned, Holds, Unsent, Done, ringVars
  <2>5. Alone(u)' BY <1>2, <2>1 DEF Alone
  <2> QED BY <1>1, <2>4, <2>5 DEF RingInv
<1> QED BY <1>3, <1>4 DEF RingInv

LEMMA EnterTypes ==
    ASSUME TypeOK, NEW t \in Tasks, Enter(t) PROVE out' \in [Tasks -> OutPCs]
BY DEF TypeOK, Enter, OutPCs

LEMMA RouteStep ==
    ASSUME TxConstants, IInv, NEW t \in Senders, Route(t) PROVE IInv'
<1> USE DEF Route
<1>1. t \in Tasks /\ out[t] = "none" BY DEF IInv, LockInv, Tasks
<1>2. RingInv => RingInv' BY <1>1, EnterRing DEF IInv
<1>3. out' \in [Tasks -> OutPCs] BY <1>1, EnterTypes DEF IInv
<1>4. TypeOK'
  BY <1>3 DEF IInv, TypeOK, Enter, SendPCs, ringVars, wireVars, phyVars, netifVars
<1>5. LockInv' BY <1>1 DEF IInv, TypeOK, LockInv, Enter, Tasks
<1>6. OwedInv' BY DEF IInv, OwedInv, netifVars
<1>7. met' = met BY DEF Enter, wireVars
<1> QED BY <1>2, <1>4, <1>5, <1>6, <1>7 DEF IInv

LEMMA AnnounceStep == ASSUME TxConstants, IInv, Announce PROVE IInv'
<1> USE DEF Announce, MonitorAt
<1>1. Monitor \in Tasks /\ Monitor \notin Senders BY DEF Tasks, TxConstants
<1>2. RingInv => RingInv' BY <1>1, EnterRing DEF IInv
<1>3. out' \in [Tasks -> OutPCs] BY <1>1, EnterTypes DEF IInv
<1>4. owed = 1 /\ owed' = 0 BY DEF IInv, OwedInv
<1>5. TypeOK' BY <1>3, <1>4 DEF IInv, TypeOK, Enter, MonPCs, ringVars, wireVars, sendVars, phyVars
<1>6. LockInv' BY <1>1 DEF IInv, TypeOK, LockInv, Enter, sendVars, Tasks
<1>7. OwedInv' BY <1>4 DEF OwedInv
<1>8. met' = met BY DEF Enter, wireVars
<1> QED BY <1>2, <1>5, <1>6, <1>7, <1>8 DEF IInv
-----------------------------------------------------------------------------
(* The steps that do not touch the ring.                                   *)

LEMMA SenderStep ==
    ASSUME TxConstants, IInv, NEW t \in Senders,
           LockTcpipCore(t) \/ NoRoute(t) \/ Sent(t) \/ UnlockTcpipCore(t)
    PROVE  IInv'
<1> USE DEF LockTcpipCore, NoRoute, Sent, UnlockTcpipCore
<1>1. UNCHANGED <<ringVars, outVars, wireVars, phyVars, netifVars>> OBVIOUS
<1>2. met' = met /\ (RingInv => RingInv') BY <1>1, RingKept DEF wireVars
<1>3. TypeOK'
  BY <1>1 DEF IInv, TypeOK, SendPCs, ringVars, outVars, wireVars, phyVars, netifVars
<1>4. NoTask \notin Senders BY DEF TxConstants
<1>5. LockInv' BY <1>1, <1>4 DEF IInv, TypeOK, LockInv, outVars
<1>6. OwedInv' BY <1>1 DEF IInv, OwedInv, netifVars
<1> QED BY <1>2, <1>3, <1>5, <1>6 DEF IInv

\* A step of the monitor or the cable that keeps OwedInv and the types.
LEMMA RestKept ==
    ASSUME IInv, UNCHANGED <<ringVars, outVars, wireVars, sendVars>>, OwedInv',
           link' \in BOOLEAN, latched' \in BOOLEAN,
           netifUp' \in BOOLEAN, netifLinkUp' \in BOOLEAN, link_flag' \in 0 .. 1, mon' \in MonPCs
    PROVE  IInv'
<1>1. met' = met /\ (RingInv => RingInv') BY RingKept DEF wireVars
<1>2. owed' \in 0 .. 1 BY DEF OwedInv
<1>3. TypeOK' BY <1>2 DEF IInv, TypeOK, ringVars, outVars, wireVars, sendVars
<1>4. LockInv' BY DEF IInv, LockInv, outVars, sendVars
<1> QED BY <1>1, <1>3, <1>4 DEF IInv

LEMMA LinkChangeStep == ASSUME IInv, LinkChange PROVE IInv'
<1>1. OwedInv' BY DEF IInv, OwedInv, LinkChange, netifVars
<1> QED BY <1>1, RestKept DEF IInv, TypeOK, LinkChange, netifVars

LEMMA PollStep == ASSUME IInv, Poll PROVE IInv'
<1>1. mon = "delay" /\ mon' \in {"setUp", "setDown", "delay"} BY DEF Poll, MonitorAt
<1>2. OwedInv' BY <1>1 DEF IInv, OwedInv, Poll
<1> QED BY <1>1, <1>2, RestKept DEF IInv, TypeOK, MonPCs, Poll, ReadLinkState

LEMMA SetUpStep == ASSUME IInv, SetUp PROVE IInv'
<1> USE DEF IInv, TypeOK, SetUp, MonitorAt
<1>1. owed = 0 BY DEF OwedInv
<1>2. netifUp' /\ (netifLinkUp' <=> netifLinkUp) OBVIOUS
<1>3. owed' = IF netifLinkUp /\ ~netifUp THEN 1 ELSE 0 BY <1>1, <1>2 DEF NowReady, Ready
<1>4. mon' = IF ~netifUp /\ netifLinkUp THEN "announceUp" ELSE "setLinkUp" OBVIOUS
<1>5. OwedInv' BY <1>3, <1>4 DEF OwedInv
<1> QED BY <1>5, RestKept DEF MonPCs, phyVars

LEMMA SetLinkUpStep == ASSUME IInv, SetLinkUp PROVE IInv'
<1> USE DEF IInv, TypeOK, SetLinkUp, MonitorAt
<1>1. owed = 0 BY DEF OwedInv
<1>2. netifLinkUp' /\ (netifUp' <=> netifUp) OBVIOUS
<1>3. owed' = IF netifUp /\ ~netifLinkUp THEN 1 ELSE 0 BY <1>1, <1>2 DEF NowReady, Ready
<1>4. mon' = IF netifLinkUp THEN "delay" ELSE IF netifUp THEN "announceLinkUp" ELSE "upAgain"
  OBVIOUS
<1>5. OwedInv' BY <1>3, <1>4 DEF OwedInv
<1> QED BY <1>5, RestKept DEF MonPCs, phyVars

LEMMA SetDownStep == ASSUME IInv, SetDown PROVE IInv'
<1> USE DEF IInv, TypeOK, SetDown, MonitorAt
<1>1. OwedInv' BY DEF OwedInv
<1> QED BY <1>1, RestKept DEF MonPCs, phyVars

LEMMA SetLinkDownStep == ASSUME IInv, SetLinkDown PROVE IInv'
<1> USE DEF IInv, TypeOK, SetLinkDown, MonitorAt
<1>1. OwedInv' BY DEF OwedInv
<1>2. link_flag' \in 0 .. 1 /\ mon' \in MonPCs /\ ~netifLinkUp' BY DEF MonPCs
<1> QED BY <1>1, <1>2, RestKept DEF phyVars

LEMMA CallbackAgainStep == ASSUME IInv, CallbackAgain PROVE IInv'
<1> USE DEF IInv, TypeOK, CallbackAgain, MonitorAt
<1>1. OwedInv' BY DEF OwedInv
<1> QED BY <1>1, RestKept DEF MonPCs, ReadLinkState

LEMMA StutterStep == ASSUME IInv, UNCHANGED vars PROVE IInv'
<1>1. OwedInv' BY DEF IInv, OwedInv, vars, netifVars
<1> QED BY <1>1, RestKept DEF IInv, TypeOK, vars, phyVars, netifVars
-----------------------------------------------------------------------------
LEMMA NextIInv == ASSUME TxConstants, IInv, [Next]_vars PROVE IInv'
<1>1. ASSUME NEW t \in Senders, Send(t) PROVE IInv'
  <2>1. t \in Tasks BY DEF Tasks
  <2> QED BY <1>1, <2>1, SenderStep, RouteStep, OutputStep DEF Send, Proceed
<1>2. CASE Output(Monitor) BY <1>2, OutputStep DEF Tasks
<1>3. CASE Link
  BY <1>3, PollStep, SetUpStep, AnnounceStep, SetLinkUpStep, SetDownStep, SetLinkDownStep,
     CallbackAgainStep
  DEF Link
<1> QED BY <1>1, <1>2, <1>3, DmaTransmitStep, LinkChangeStep, StutterStep DEF Next

LEMMA RingSends == ASSUME RingInv PROVE SentOnce
<1>1. ASSUME NEW t \in Tasks PROVE times[t] <= 1 /\ (out[t] = "acknowledge" => times[t] = 1)
  <2>1. CASE ~Sending(t)
    BY <2>1, PhaseSends DEF RingInv, Alone, Outside, Sending
  <2>2. CASE Sending(t)
    BY <2>2, PhaseOf DEF Phase, Unsent, Done, Quiet
  <2> QED BY <2>1, <2>2
<1> QED BY <1>1 DEF RingInv, SentOnce

\* Up to the moment the monitor and a sender have a transmit buffer at once,
\* which the code does not exclude, low_level_output returns ERR_OK for a frame
\* that was sent once, and nothing else is sent, with any number of senders and
\* descriptors, also while the monitor and a sender wait for one another's
\* output.  (low_level_output, IfxGeth_Eth_sendTransmitBuffer.)
THEOREM SendsOnce == ASSUME TxConstants PROVE Spec => []SentOnceUntilMet
<1>1. Init => IInv BY InitIInv
<1>2. IInv /\ [Next]_vars => IInv' BY NextIInv
<1>3. IInv => SentOnceUntilMet BY RingSends DEF IInv, SentOnceUntilMet
<1> QED BY <1>1, <1>2, <1>3, PTL DEF Spec

\* Each time the interface becomes usable it is announced, once, before the
\* monitor delays again, and every variable keeps its type, whatever other
\* tasks send meanwhile.
\* (netif_set_up, netif_set_link_up, ethernetif_link_callback.)
THEOREM Announces == ASSUME TxConstants PROVE Spec => []AnnouncedOnce
<1>1. Init => IInv BY InitIInv
<1>2. IInv /\ [Next]_vars => IInv' BY NextIInv
<1>3. IInv => AnnouncedOnce BY DEF IInv, OwedInv, AnnouncedOnce
<1> QED BY <1>1, <1>2, <1>3, PTL DEF Spec
=============================================================================
