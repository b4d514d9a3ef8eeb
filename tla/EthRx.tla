------------------------------- MODULE EthRx -------------------------------
(***************************************************************************)
(* The receive path of the Ethernet interface: the MAC's DMA fills a ring  *)
(* of descriptors and requests an interrupt; ISR_RxEth gives a counting    *)
(* semaphore; the receive task (ethernetif_recv) takes it, copies a frame  *)
(* into a pbuf and posts a message to the mailbox of the tcpip thread,     *)
(* which hands the pbuf to the stack.  Pbufs and messages come from pools  *)
(* of fixed size; when the pbuf pool is empty the receive task asks the    *)
(* tcpip thread to give up TCP segments that wait for a missing one.       *)
(*                                                                         *)
(* The actors are the DMA, the interrupt handler, the two tasks and the    *)
(* stack's other users.  An action is one critical section, or a stretch   *)
(* of code on data no other actor touches.  Semaphore and mailbox are the  *)
(* atomic objects module KernelQueue implements.                           *)
(***************************************************************************)
EXTENDS Integers, Sequences, FiniteSets

CONSTANTS
    RingSize,      \* IFXGETH_MAX_RX_DESCRIPTORS
    Pbufs,         \* the pbuf pool (PBUF_POOL_SIZE elements)
    NoPbuf,
    InpktMsgs,     \* MEMP_NUM_TCPIP_MSG_INPKT
    ApiMsgs,       \* MEMP_NUM_TCPIP_MSG_API
    MboxSize,      \* TCPIP_MBOX_SIZE
    SemMax,        \* g_eth_swamphore's maximum count
    Pcbs,          \* TCP connections that may hold segments out of sequence
    MaxFrames      \* bound: frames that arrive

ASSUME EthConstants ==
    /\ RingSize \in Nat \ {0}
    /\ IsFiniteSet(Pbufs)
    /\ NoPbuf \notin Pbufs
    /\ InpktMsgs \in Nat \ {0}
    /\ ApiMsgs \in Nat \ {0}
    /\ MboxSize \in Nat \ {0}
    /\ SemMax \in Nat \ {0}
    /\ MaxFrames \in Nat

\* lwipopts.h and opt.h: 8 + 8 messages, 32 places; Cpu0_Main.c: 10 for 8.
ASSUME EthCapacity ==
    /\ InpktMsgs + ApiMsgs <= MboxSize
    /\ RingSize <= SemMax

VARIABLES
    arrived,        \* frames that came over the wire so far
    dmaPtr,         \* the descriptor the DMA fills next
    own,            \* RDES3.OWN of each descriptor: does the DMA own it?
    buffer,         \* the frame in each receive buffer
    srr,            \* the receive interrupt is requested
    g_eth_swamphore,
    rxDescrPtr,     \* the descriptor the driver reads next
    pool,           \* free pbufs
    payload,        \* what was copied into each pbuf, first and last part
    inpktFree,      \* free TCPIP_MSG_INPKT messages
    apiFree,        \* free TCPIP_MSG_API messages
    pbuf_free_ooseq_pending,
    mbox,           \* the tcpip thread's mailbox
    recvPc, recvPbuf,
    tcpipPc, tcpipMsg,
    inApp,          \* pbufs queued for applications
    ooseq           \* pbufs each connection holds out of sequence

ringVars == <<arrived, dmaPtr, own, buffer, srr, rxDescrPtr>>
poolVars == <<pool, payload, inpktFree, apiFree, pbuf_free_ooseq_pending>>
recvVars == <<recvPc, recvPbuf>>
tcpipVars == <<tcpipPc, tcpipMsg>>
stackVars == <<inApp, ooseq>>
vars == <<ringVars, g_eth_swamphore, poolVars, mbox, recvVars, tcpipVars, stackVars>>

Descriptors == 0 .. RingSize - 1
Frames == 0 .. MaxFrames            \* 0: nothing yet
Packet(b) == [type |-> "INPKT", p |-> b]
Callback == [type |-> "CALLBACK", p |-> NoPbuf]
Messages == {Packet(b) : b \in Pbufs} \union {Callback}

RecvPCs == {"take", "input", "poolEmpty", "callback", "postCallback", "unpend",
            "copy", "copyRest", "freeBuffer", "type", "post", "freePbuf"}
TcpipPCs == {"fetch", "input", "reclaim", "freeMsg"}
-----------------------------------------------------------------------------
Following(i) == (i + 1) % RingSize

Init ==
    /\ arrived = 0
    /\ dmaPtr = 0
    /\ own = [i \in Descriptors |-> TRUE]
    /\ buffer = [i \in Descriptors |-> 0]
    /\ srr = FALSE
    /\ g_eth_swamphore = 0
    /\ rxDescrPtr = 0
    /\ pool = Pbufs
    /\ payload = [b \in Pbufs |-> <<0, 0>>]
    /\ inpktFree = InpktMsgs
    /\ apiFree = ApiMsgs
    /\ pbuf_free_ooseq_pending = FALSE
    /\ mbox = << >>
    /\ recvPc = "take"
    /\ recvPbuf = NoPbuf
    /\ tcpipPc = "fetch"
    /\ tcpipMsg = Callback
    /\ inApp = {}
    /\ ooseq = [c \in Pcbs |-> {}]
-----------------------------------------------------------------------------
(* The hardware and the interrupt handler *)

\* A frame arrives.  It is written to the DMA's descriptor, which then is the
\* driver's, and the interrupt requested (one request is one bit: a second
\* one merges with it); with no descriptor of its own the DMA loses it.
DmaReceive ==
    /\ arrived < MaxFrames
    /\ arrived' = arrived + 1
    /\ IF own[dmaPtr]
         THEN /\ buffer' = [buffer EXCEPT ![dmaPtr] = arrived']
              /\ own' = [own EXCEPT ![dmaPtr] = FALSE]
              /\ dmaPtr' = Following(dmaPtr)
              /\ srr' = TRUE
         ELSE UNCHANGED <<buffer, own, dmaPtr, srr>>
    /\ UNCHANGED <<rxDescrPtr, g_eth_swamphore, poolVars, mbox, recvVars, tcpipVars, stackVars>>

Give == IF g_eth_swamphore < SemMax THEN g_eth_swamphore + 1 ELSE g_eth_swamphore

\* (wrong on purpose: the request is not taken back)
ISR_RxEthAgain ==
    /\ srr
    /\ g_eth_swamphore' = Give
    /\ UNCHANGED <<ringVars, poolVars, mbox, recvVars, tcpipVars, stackVars>>
ISR_RxEth ==
    /\ srr
    /\ srr' = FALSE
    /\ g_eth_swamphore' = Give
    /\ UNCHANGED <<arrived, dmaPtr, own, buffer, rxDescrPtr, poolVars, mbox, recvVars,
                   tcpipVars, stackVars>>
-----------------------------------------------------------------------------
(* The receive task *)

RecvGoto(l) == recvPc' = l

\* ethernetif_recv: xSemaphoreTake(g_eth_swamphore, portMAX_DELAY).
RecvTake ==
    /\ recvPc = "take"
    /\ g_eth_swamphore > 0
    /\ g_eth_swamphore' = g_eth_swamphore - 1
    /\ RecvGoto("input")
    /\ UNCHANGED <<ringVars, poolVars, mbox, recvPbuf, tcpipVars, stackVars>>

isRxDataAvailable == ~own[rxDescrPtr]

\* low_level_input: the frame's length, and a pbuf for it.
LowLevelInput ==
    /\ recvPc = "input"
    /\ IF isRxDataAvailable /\ pool # {}
         THEN \E b \in pool :
                /\ pool' = pool \ {b}
                /\ recvPbuf' = b
                /\ RecvGoto("copy")
         ELSE /\ RecvGoto(IF isRxDataAvailable THEN "poolEmpty" ELSE "take")
              /\ UNCHANGED <<pool, recvPbuf>>
    /\ UNCHANGED <<ringVars, g_eth_swamphore, payload, inpktFree, apiFree,
                   pbuf_free_ooseq_pending, mbox, tcpipVars, stackVars>>

\* pbuf_pool_is_empty: one request at a time.
PoolIsEmpty ==
    /\ recvPc = "poolEmpty"
    /\ pbuf_free_ooseq_pending' = TRUE
    /\ RecvGoto(IF pbuf_free_ooseq_pending THEN "take" ELSE "callback")
    /\ UNCHANGED <<ringVars, g_eth_swamphore, pool, payload, inpktFree, apiFree, mbox,
                   recvPbuf, tcpipVars, stackVars>>

\* tcpip_callback_with_block: a message for the request.
CallbackMsg ==
    /\ recvPc = "callback"
    /\ IF apiFree > 0
         THEN apiFree' = apiFree - 1 /\ RecvGoto("postCallback")
         ELSE RecvGoto("unpend") /\ UNCHANGED apiFree
    /\ UNCHANGED <<ringVars, g_eth_swamphore, pool, payload, inpktFree,
                   pbuf_free_ooseq_pending, mbox, recvPbuf, tcpipVars, stackVars>>

\* sys_mbox_trypost, which reports success whether or not there was room.
TryPost(m) == mbox' = IF Len(mbox) < MboxSize THEN Append(mbox, m) ELSE mbox

PostCallback ==
    /\ recvPc = "postCallback"
    /\ TryPost(Callback)
    /\ RecvGoto("take")
    /\ UNCHANGED <<ringVars, g_eth_swamphore, poolVars, recvPbuf, tcpipVars, stackVars>>

\* PBUF_POOL_FREE_OOSEQ_QUEUE_CALL when the callback could not be queued.
Unpend ==
    /\ recvPc = "unpend"
    /\ pbuf_free_ooseq_pending' = FALSE
    /\ RecvGoto("take")
    /\ UNCHANGED <<ringVars, g_eth_swamphore, pool, payload, inpktFree, apiFree, mbox,
                   recvPbuf, tcpipVars, stackVars>>

\* (wrong on purpose: the buffer goes back to the DMA before it was read)
CopyFrameFreesBuffer ==
    /\ recvPc = "copy"
    /\ payload' = [payload EXCEPT ![recvPbuf][1] = buffer[rxDescrPtr]]
    /\ own' = [own EXCEPT ![rxDescrPtr] = TRUE]
    /\ RecvGoto("copyRest")
    /\ UNCHANGED <<arrived, dmaPtr, buffer, srr, rxDescrPtr, g_eth_swamphore, pool,
                   inpktFree, apiFree, pbuf_free_ooseq_pending, mbox, recvPbuf, tcpipVars,
                   stackVars>>

\* memcpy from the receive buffer into the pbuf, in two parts.
CopyFrame ==
    /\ recvPc = "copy"
    /\ payload' = [payload EXCEPT ![recvPbuf][1] = buffer[rxDescrPtr]]
    /\ RecvGoto("copyRest")
    /\ UNCHANGED <<ringVars, g_eth_swamphore, pool, inpktFree, apiFree,
                   pbuf_free_ooseq_pending, mbox, recvPbuf, tcpipVars, stackVars>>

CopyRest ==
    /\ recvPc = "copyRest"
    /\ payload' = [payload EXCEPT ![recvPbuf][2] = buffer[rxDescrPtr]]
    /\ RecvGoto("freeBuffer")
    /\ UNCHANGED <<ringVars, g_eth_swamphore, pool, inpktFree, apiFree,
                   pbuf_free_ooseq_pending, mbox, recvPbuf, tcpipVars, stackVars>>

\* IfxGeth_Eth_shuffleRxDescriptor.
Shuffle == IF rxDescrPtr = RingSize - 1 THEN 0 ELSE rxDescrPtr + 1

\* IfxGeth_Eth_freeReceiveBuffer.
FreeReceiveBuffer ==
    /\ recvPc = "freeBuffer"
    /\ own' = [own EXCEPT ![rxDescrPtr] = TRUE]
    /\ rxDescrPtr' = Shuffle
    /\ RecvGoto("type")
    /\ UNCHANGED <<arrived, dmaPtr, buffer, srr, g_eth_swamphore, poolVars, mbox, recvPbuf,
                   tcpipVars, stackVars>>

\* ethernetif_input's switch on the frame's type, and tcpip_inpkt's message
\* for an IP or ARP frame.
EthernetifInput ==
    /\ recvPc = "type"
    /\ \/ inpktFree > 0 /\ inpktFree' = inpktFree - 1 /\ RecvGoto("post")
       \/ inpktFree = 0 /\ UNCHANGED inpktFree /\ RecvGoto("freePbuf")
       \/ UNCHANGED inpktFree /\ RecvGoto("freePbuf")         \* another type
    /\ UNCHANGED <<ringVars, g_eth_swamphore, pool, payload, apiFree,
                   pbuf_free_ooseq_pending, mbox, recvPbuf, tcpipVars, stackVars>>

PostPacket ==
    /\ recvPc = "post"
    /\ TryPost(Packet(recvPbuf))
    /\ recvPbuf' = NoPbuf
    /\ RecvGoto("take")
    /\ UNCHANGED <<ringVars, g_eth_swamphore, poolVars, tcpipVars, stackVars>>

\* (wrong on purpose: the pbuf is not given back)
RecvFreePbufForgotten ==
    /\ recvPc = "freePbuf"
    /\ recvPbuf' = NoPbuf
    /\ RecvGoto("take")
    /\ UNCHANGED <<ringVars, g_eth_swamphore, poolVars, mbox, tcpipVars, stackVars>>
RecvFreePbuf ==
    /\ recvPc = "freePbuf"
    /\ pool' = pool \union {recvPbuf}
    /\ recvPbuf' = NoPbuf
    /\ RecvGoto("take")
    /\ UNCHANGED <<ringVars, g_eth_swamphore, payload, inpktFree, apiFree,
                   pbuf_free_ooseq_pending, mbox, tcpipVars, stackVars>>

RecvStep ==
    \/ RecvTake \/ LowLevelInput \/ PoolIsEmpty \/ CallbackMsg \/ PostCallback \/ Unpend
    \/ CopyFrame \/ CopyRest \/ FreeReceiveBuffer \/ EthernetifInput \/ PostPacket
    \/ RecvFreePbuf
-----------------------------------------------------------------------------
(* The tcpip thread and the stack *)

TcpipFetch ==
    /\ tcpipPc = "fetch"
    /\ mbox # << >>
    /\ tcpipMsg' = Head(mbox)
    /\ mbox' = Tail(mbox)
    /\ tcpipPc' = "input"
    /\ UNCHANGED <<ringVars, g_eth_swamphore, poolVars, recvVars, stackVars>>

\* input_fn: the stack frees the pbuf, queues it for an application (with the
\* segments that waited for it), or keeps it with a connection until the
\* segments before it have come.
TcpipPacket ==
    /\ tcpipPc = "input"
    /\ tcpipMsg.type = "INPKT"
    /\ LET b == tcpipMsg.p
       IN \/ pool' = pool \union {b} /\ UNCHANGED stackVars
          \/ inApp' = inApp \union {b} /\ UNCHANGED <<pool, ooseq>>
          \/ \E c \in Pcbs : /\ inApp' = inApp \union {b} \union ooseq[c]
                             /\ ooseq' = [ooseq EXCEPT ![c] = {}]
                             /\ UNCHANGED pool
          \/ \E c \in Pcbs : /\ ooseq' = [ooseq EXCEPT ![c] = @ \union {b}]
                             /\ UNCHANGED <<pool, inApp>>
    /\ tcpipPc' = "freeMsg"
    /\ UNCHANGED <<ringVars, g_eth_swamphore, payload, inpktFree, apiFree,
                   pbuf_free_ooseq_pending, mbox, recvVars, tcpipMsg>>

\* pbuf_free_ooseq: first the flag, so that a pool that runs dry again is
\* seen, then the segments of one connection.
TcpipCallback ==
    /\ tcpipPc = "input"
    /\ tcpipMsg.type = "CALLBACK"
    /\ pbuf_free_ooseq_pending' = FALSE
    /\ tcpipPc' = "reclaim"
    /\ UNCHANGED <<ringVars, g_eth_swamphore, pool, payload, inpktFree, apiFree, mbox,
                   recvVars, tcpipMsg, stackVars>>

\* (wrong on purpose: nothing is given back)
ReclaimNothing ==
    /\ tcpipPc = "reclaim"
    /\ tcpipPc' = "freeMsg"
    /\ UNCHANGED <<ringVars, g_eth_swamphore, poolVars, mbox, recvVars, tcpipMsg, stackVars>>
Reclaim ==
    /\ tcpipPc = "reclaim"
    /\ \/ /\ \A c \in Pcbs : ooseq[c] = {}
          /\ UNCHANGED <<pool, ooseq>>
       \/ \E c \in Pcbs : /\ ooseq[c] # {}
                          /\ pool' = pool \union ooseq[c]
                          /\ ooseq' = [ooseq EXCEPT ![c] = {}]
    /\ tcpipPc' = "freeMsg"
    /\ UNCHANGED <<ringVars, g_eth_swamphore, payload, inpktFree, apiFree,
                   pbuf_free_ooseq_pending, mbox, recvVars, tcpipMsg, inApp>>

\* memp_free of the message, to the pool of its kind.
TcpipFreeMsg ==
    /\ tcpipPc = "freeMsg"
    /\ IF tcpipMsg.type = "INPKT"
         THEN inpktFree' = inpktFree + 1 /\ UNCHANGED apiFree
         ELSE apiFree' = apiFree + 1 /\ UNCHANGED inpktFree
    /\ tcpipPc' = "fetch"
    /\ tcpipMsg' = Callback
    /\ UNCHANGED <<ringVars, g_eth_swamphore, pool, payload, pbuf_free_ooseq_pending, mbox,
                   recvVars, stackVars>>

TcpipStep == TcpipFetch \/ TcpipPacket \/ TcpipCallback \/ Reclaim \/ TcpipFreeMsg

\* An application reads the data of a pbuf and deletes it.
AppFrees ==
    /\ \E b \in inApp : inApp' = inApp \ {b} /\ pool' = pool \union {b}
    /\ UNCHANGED <<ringVars, g_eth_swamphore, payload, inpktFree, apiFree,
                   pbuf_free_ooseq_pending, mbox, recvVars, tcpipVars, ooseq>>

Next == DmaReceive \/ ISR_RxEth \/ RecvStep \/ TcpipStep \/ AppFrees

Spec == Init /\ [][Next]_vars

\* Both tasks run when they can (the interrupt too): the core's scheduler.
FairSpec == Spec /\ WF_vars(RecvStep) /\ WF_vars(TcpipStep) /\ WF_vars(ISR_RxEth)
-----------------------------------------------------------------------------
(* Properties *)

\* Every variable has its type; counters stay within their pools (checked as
\* part of PoolsConserved).
TypeOK ==
    /\ arrived \in 0 .. MaxFrames
    /\ dmaPtr \in Descriptors /\ rxDescrPtr \in Descriptors
    /\ own \in [Descriptors -> BOOLEAN]
    /\ buffer \in [Descriptors -> Frames]
    /\ srr \in BOOLEAN
    /\ g_eth_swamphore \in 0 .. SemMax
    /\ pool \subseteq Pbufs
    /\ payload \in [Pbufs -> Frames \X Frames]
    /\ inpktFree \in 0 .. InpktMsgs
    /\ apiFree \in 0 .. ApiMsgs
    /\ pbuf_free_ooseq_pending \in BOOLEAN
    /\ mbox \in Seq(Messages)
    /\ recvPc \in RecvPCs /\ recvPbuf \in Pbufs \union {NoPbuf}
    /\ tcpipPc \in TcpipPCs /\ tcpipMsg \in Messages
    /\ inApp \subseteq Pbufs
    /\ ooseq \in [Pcbs -> SUBSET Pbufs]

Truth(b) == IF b THEN 1 ELSE 0
Available == Cardinality({i \in Descriptors : ~own[i]})
TcpipHas(b) == tcpipPc = "input" /\ tcpipMsg = Packet(b)

\* Every token of the semaphore, every request and every pass of the receive
\* task that has yet to take its frame has a frame of its own in the ring: no
\* pass finds the ring empty, and the count of 10 is never exceeded by a ring
\* of 8, so that no give is lost.  (ISR_RxEth, ethernetif_recv,
\* low_level_input; xSemaphoreCreateCounting(10, 0).)
TokensHaveFrames ==
    g_eth_swamphore + Truth(srr)
        + Truth(recvPc \in {"input", "copy", "copyRest", "freeBuffer"}) <= Available

\* The frames on their way to the stack, stage by stage, the oldest first.
IsPacket(m) == m.type = "INPKT"
InTcpip == {payload[b][1] : b \in {c \in Pbufs : TcpipHas(c)}}
Mailed == {i \in 1 .. Len(mbox) : IsPacket(mbox[i])}
MailFrame(i) == payload[mbox[i].p][1]
InMailbox == {MailFrame(i) : i \in Mailed}
InHand == IF recvPc \in {"type", "post", "freePbuf"} THEN {payload[recvPbuf][1]} ELSE {}
InRing(k) == (rxDescrPtr + k) % RingSize
Ready == 0 .. Available - 1
RingFrame(k) == buffer[InRing(k)]
Older(S, T) == \A f \in S, g \in T : f < g

\* Frames reach the stack whole and in the order they arrived, none of them
\* twice: the DMA does not write a buffer the receive task still copies from,
\* and the driver reads the ring from its oldest frame on, its pointer in step
\* with the DMA's through any loss.  (low_level_input, shuffleRxDescriptor,
\* freeReceiveBuffer, the mailbox; RDES3.OWN.)
FramesInOrder ==
    /\ \A k \in Ready : ~own[InRing(k)]
    /\ \A k, l \in Ready : k < l => RingFrame(k) < RingFrame(l)
    /\ \A i, j \in Mailed : i < j => MailFrame(i) < MailFrame(j)
    /\ LET ring == {RingFrame(k) : k \in Ready}
       IN  /\ Older(InTcpip, InMailbox \union InHand \union ring)
           /\ Older(InMailbox, InHand \union ring)
           /\ Older(InHand, ring)
    /\ \A b \in Pbufs :
         (TcpipHas(b) \/ \E i \in 1 .. Len(mbox) : mbox[i] = Packet(b)) =>
            payload[b][1] = payload[b][2]

InMbox(type) == Cardinality({i \in 1 .. Len(mbox) : mbox[i].type = type})
TcpipHolds(type) == Truth(tcpipPc # "fetch" /\ tcpipMsg.type = type)

\* No pbuf is lost and none has two holders, whatever fails on its way: it is
\* in the pool, with the receive task, in one message, with the tcpip
\* thread, an application or a connection.  No message is lost either:
\* sys_mbox_trypost reports success even when it dropped the message, and
\* only the sizes of the pools keep the mailbox from ever being full.  And
\* pbuf_free_ooseq_pending is set only while a request is on its way: were it
\* left behind, the pool would never be refilled again.
\* (pbuf_free on every error path of ethernetif_input and tcpip_inpkt;
\* TCPIP_MBOX_SIZE, MEMP_NUM_TCPIP_MSG_*; pbuf_pool_is_empty and
\* PBUF_POOL_FREE_OOSEQ_QUEUE_CALL against pbuf_free_ooseq.)
PoolsConserved ==
    /\ TypeOK
    /\ \A b \in Pbufs :
         Truth(b \in pool) + Truth(b = recvPbuf) + Truth(TcpipHas(b)) + Truth(b \in inApp)
           + Cardinality({c \in Pcbs : b \in ooseq[c]})
           + Cardinality({i \in 1 .. Len(mbox) : mbox[i] = Packet(b)}) = 1
    /\ inpktFree + Truth(recvPc = "post") + InMbox("INPKT") + TcpipHolds("INPKT") = InpktMsgs
    /\ apiFree + Truth(recvPc = "postCallback") + InMbox("CALLBACK")
          + TcpipHolds("CALLBACK") = ApiMsgs
    /\ pbuf_free_ooseq_pending =>
         \/ recvPc \in {"callback", "postCallback", "unpend"}
         \/ InMbox("CALLBACK") > 0
         \/ tcpipPc = "input" /\ tcpipMsg.type = "CALLBACK"

\* A receive task that finds the pool empty while connections hold segments
\* out of sequence gets pbufs back, or those segments have been delivered; but
\* for a request that finds no message, which the next frame makes again.
\* (pbuf_pool_is_empty, tcpip_thread, pbuf_free_ooseq.)
PoolRefilled ==
    (recvPc = "poolEmpty") ~>
        (pool # {} \/ recvPc = "unpend" \/ \A c \in Pcbs : ooseq[c] = {})

\* "This function should be called when a packet is ready to be read from the
\* interface" (ethernetif.c:243): while a frame is ready, a call of
\* ethernetif_input is under way or on its way.
ReadyFrameIsRead ==
    isRxDataAvailable => recvPc # "take" \/ g_eth_swamphore > 0 \/ srr
=============================================================================
