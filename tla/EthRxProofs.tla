---------------------------- MODULE EthRxProofs ----------------------------
(***************************************************************************)
(* Proofs about EthRx for any ring, pools and mailbox, as long as the      *)
(* mailbox has a place for every message and the semaphore counts as far   *)
(* as the ring has descriptors (EthCapacity).                              *)
(***************************************************************************)
EXTENDS EthRx, FiniteSetTheorems, TLAPS

\* The receive task has a pbuf from low_level_input on.
HandInv ==
    recvPbuf \in Pbufs <=>
        recvPc \in {"copy", "copyRest", "freeBuffer", "type", "post", "freePbuf"}

\* The driver's descriptors are those from its pointer up to the DMA's.
RingInv ==
    /\ dmaPtr = InRing(Available)
    /\ \A k \in Descriptors : own[InRing(k)] <=> k >= Available

Kept(b) == \E c \in Pcbs : b \in ooseq[c]
Queued(b) == \E i \in 1 .. Len(mbox) : mbox[i] = Packet(b)

\* A pbuf is in one place: one of six, and there once.
PlaceInv ==
    /\ \A b \in Pbufs :
         Truth(b \in pool) + Truth(b = recvPbuf) + Truth(TcpipHas(b)) + Truth(b \in inApp)
           + Truth(Kept(b)) + Truth(Queued(b)) = 1
    /\ \A c, d \in Pcbs : \A b \in ooseq[c] : b \in ooseq[d] => c = d
    /\ \A i, j \in 1 .. Len(mbox) : IsPacket(mbox[i]) /\ mbox[i] = mbox[j] => i = j

\* A message is free, with a task or in the mailbox.
MsgInv ==
    /\ inpktFree + Truth(recvPc = "post") + InMbox("INPKT") + TcpipHolds("INPKT") = InpktMsgs
    /\ apiFree + Truth(recvPc = "postCallback") + InMbox("CALLBACK")
          + TcpipHolds("CALLBACK") = ApiMsgs

PendingInv ==
    pbuf_free_ooseq_pending =>
      \/ recvPc \in {"callback", "postCallback", "unpend"}
      \/ InMbox("CALLBACK") > 0
      \/ tcpipPc = "input" /\ tcpipMsg.type = "CALLBACK"

\* The frames in the ring are in the order of their arrival, those in the
\* mailbox too, and each stage is older than the next, the frame to come last.
RingOrder ==
    /\ \A k \in Ready : RingFrame(k) <= arrived
    /\ \A k, l \in Ready : k < l => RingFrame(k) < RingFrame(l)
MailOrder == \A i, j \in Mailed : i < j => MailFrame(i) < MailFrame(j)
Coming == {RingFrame(k) : k \in Ready} \union {arrived + 1}
StageOrder ==
    /\ Older(InTcpip, InMailbox \union InHand \union Coming)
    /\ Older(InMailbox, InHand \union Coming)
    /\ Older(InHand, Coming)
OrderInv == RingOrder /\ MailOrder /\ StageOrder

\* A pbuf has the first part of the oldest frame, then the whole of it.
ContentInv ==
    /\ recvPc \in {"copyRest", "freeBuffer"} => payload[recvPbuf][1] = buffer[rxDescrPtr]
    /\ recvPc \in {"freeBuffer", "type", "post", "freePbuf"} =>
          payload[recvPbuf][1] = payload[recvPbuf][2]
    /\ \A b \in Pbufs : TcpipHas(b) \/ Queued(b) => payload[b][1] = payload[b][2]

IInv ==
    /\ TypeOK /\ HandInv /\ TokensHaveFrames /\ RingInv
    /\ PlaceInv /\ MsgInv /\ PendingInv /\ OrderInv /\ ContentInv
-----------------------------------------------------------------------------
(* The ring *)

LEMMA Wrapping ==
    ASSUME EthConstants, NEW x \in Descriptors, NEW k \in 0 .. RingSize
    PROVE  (x + k) % RingSize = IF x + k < RingSize THEN x + k ELSE x + k - RingSize
BY DEF EthConstants, Descriptors

LEMMA RingPlaces ==
    ASSUME EthConstants, TypeOK
    PROVE  /\ InRing(0) = rxDescrPtr
           /\ \A k \in 0 .. RingSize : InRing(k) \in Descriptors
           /\ \A k, l \in Descriptors : InRing(k) = InRing(l) => k = l
           /\ \A d \in Descriptors : \E k \in Descriptors : InRing(k) = d
<1>1. RingSize \in Nat \ {0} /\ rxDescrPtr \in Descriptors BY DEF EthConstants, TypeOK
<1>2. \A k \in 0 .. RingSize :
        InRing(k) = IF rxDescrPtr + k < RingSize THEN rxDescrPtr + k
                    ELSE rxDescrPtr + k - RingSize
  BY <1>1, Wrapping DEF InRing
<1>3. ASSUME NEW d \in Descriptors PROVE \E k \in Descriptors : InRing(k) = d
  <2>1. CASE d >= rxDescrPtr
    <3>1. d - rxDescrPtr \in Descriptors /\ InRing(d - rxDescrPtr) = d
      BY <1>1, <1>2, <2>1 DEF Descriptors
    <3> QED BY <3>1
  <2>2. CASE d < rxDescrPtr
    <3>1. d - rxDescrPtr + RingSize \in Descriptors /\ InRing(d - rxDescrPtr + RingSize) = d
      BY <1>1, <1>2, <2>2 DEF Descriptors
    <3> QED BY <3>1
  <2> QED BY <1>1, <2>1, <2>2 DEF Descriptors
<1> QED BY <1>1, <1>2, <1>3 DEF Descriptors

\* The next descriptor, for the driver and for the DMA.
LEMMA RingNext ==
    ASSUME EthConstants, TypeOK
    PROVE  /\ Shuffle = InRing(1) /\ Shuffle \in Descriptors
           /\ \A k \in Descriptors : Following(InRing(k)) = InRing(k + 1)
           /\ \A k \in 0 .. RingSize : (Shuffle + k) % RingSize = (rxDescrPtr + k + 1) % RingSize
<1>1. RingSize \in Nat \ {0} /\ rxDescrPtr \in Descriptors BY DEF EthConstants, TypeOK
<1>0. \A k \in 0 .. RingSize :
        InRing(k) = IF rxDescrPtr + k < RingSize THEN rxDescrPtr + k
                    ELSE rxDescrPtr + k - RingSize
  BY <1>1, Wrapping DEF InRing
<1>2. Shuffle = InRing(1) /\ Shuffle \in Descriptors
  BY <1>0, <1>1 DEF Shuffle, Descriptors
<1>3. ASSUME NEW k \in Descriptors PROVE Following(InRing(k)) = InRing(k + 1)
  <2>1. InRing(k) \in Descriptors BY RingPlaces DEF Descriptors
  <2>2. Following(InRing(k)) = IF InRing(k) + 1 < RingSize THEN InRing(k) + 1
                               ELSE InRing(k) + 1 - RingSize
    <3>1. 1 \in 0 .. RingSize BY <1>1
    <3> HIDE DEF InRing
    <3> QED BY <2>1, <3>1, Wrapping DEF Following
  <2>3. k \in 0 .. RingSize /\ k + 1 \in 0 .. RingSize BY <1>1 DEF Descriptors
  <2>4. InRing(k) = IF rxDescrPtr + k < RingSize THEN rxDescrPtr + k
                    ELSE rxDescrPtr + k - RingSize
    BY <1>0, <2>3
  <2>5. InRing(k + 1) = IF rxDescrPtr + k + 1 < RingSize THEN rxDescrPtr + k + 1
                        ELSE rxDescrPtr + k + 1 - RingSize
    BY <1>0, <1>1, <2>3 DEF Descriptors
  <2> QED BY <1>1, <2>2, <2>3, <2>4, <2>5 DEF Descriptors
<1>4. ASSUME NEW k \in 0 .. RingSize
      PROVE  (Shuffle + k) % RingSize = (rxDescrPtr + k + 1) % RingSize
  BY <1>1 DEF Shuffle, Descriptors
<1> QED BY <1>2, <1>3, <1>4

LEMMA AvailableType ==
    ASSUME EthConstants PROVE Available \in 0 .. RingSize
<1>1. RingSize \in Nat /\ RingSize >= 1 BY DEF EthConstants
<1>2. IsFiniteSet(Descriptors) /\ Cardinality(Descriptors) = RingSize
  BY <1>1, FS_Interval DEF Descriptors
<1>3. Cardinality({i \in Descriptors : ~own[i]}) <= Cardinality(Descriptors)
      /\ IsFiniteSet({i \in Descriptors : ~own[i]})
  BY <1>2, FS_Subset, {i \in Descriptors : ~own[i]} \subseteq Descriptors
<1>4. Cardinality({i \in Descriptors : ~own[i]}) \in Nat BY <1>3, FS_CardinalityType
<1> QED BY <1>1, <1>2, <1>3, <1>4 DEF Available

LEMMA AvailableMore ==
    ASSUME EthConstants, TypeOK, NEW d \in Descriptors, own[d],
           own' = [own EXCEPT ![d] = FALSE]
    PROVE  Available' = Available + 1
<1> DEFINE S == {i \in Descriptors : ~own[i]}
<1>1. IsFiniteSet(S)
  <2>1. IsFiniteSet(Descriptors) BY FS_Interval DEF EthConstants, Descriptors
  <2> QED BY <2>1, FS_Subset, S \subseteq Descriptors
<1>2. d \notin S OBVIOUS
<1>3. {i \in Descriptors : ~own'[i]} = S \union {d} BY DEF TypeOK
<1>4. Cardinality(S \union {d}) = Cardinality(S) + 1 BY <1>1, <1>2, FS_AddElement
<1> QED BY <1>3, <1>4 DEF Available

LEMMA AvailableLess ==
    ASSUME EthConstants, TypeOK, NEW d \in Descriptors, ~own[d],
           own' = [own EXCEPT ![d] = TRUE]
    PROVE  Available' = Available - 1
<1> DEFINE S == {i \in Descriptors : ~own[i]}
<1>1. IsFiniteSet(S)
  <2>1. IsFiniteSet(Descriptors) BY FS_Interval DEF EthConstants, Descriptors
  <2> QED BY <2>1, FS_Subset, S \subseteq Descriptors
<1>2. d \in S OBVIOUS
<1>3. {i \in Descriptors : ~own'[i]} = S \ {d} BY DEF TypeOK
<1>4. Cardinality(S \ {d}) = Cardinality(S) - 1 BY <1>1, <1>2, FS_RemoveElement
<1> QED BY <1>3, <1>4 DEF Available
-----------------------------------------------------------------------------
(* The mailbox *)

LEMMA MessageTypes ==
    ASSUME NEW m \in Messages
    PROVE  /\ m.type \in {"INPKT", "CALLBACK"}
           /\ m.type = "INPKT" => m.p \in Pbufs /\ m = Packet(m.p)
           /\ m.type = "CALLBACK" => m = Callback
BY DEF Messages, Packet, Callback

LEMMA InMboxFinite ==
    ASSUME TypeOK, NEW type
    PROVE  /\ IsFiniteSet({i \in 1 .. Len(mbox) : mbox[i].type = type})
           /\ InMbox(type) \in Nat
<1>1. Len(mbox) \in Nat BY DEF TypeOK
<1>2. IsFiniteSet(1 .. Len(mbox)) BY <1>1, FS_Interval
<1>3. IsFiniteSet({i \in 1 .. Len(mbox) : mbox[i].type = type})
  BY <1>2, FS_Subset, {i \in 1 .. Len(mbox) : mbox[i].type = type} \subseteq 1 .. Len(mbox)
<1> QED BY <1>3, FS_CardinalityType DEF InMbox

LEMMA InMboxAppend ==
    ASSUME TypeOK, NEW type, NEW m \in Messages, mbox' = Append(mbox, m)
    PROVE  InMbox(type)' = InMbox(type) + Truth(m.type = type)
<1> DEFINE S == {i \in 1 .. Len(mbox) : mbox[i].type = type}
           T == {i \in 1 .. Len(mbox') : mbox'[i].type = type}
<1>1. /\ Len(mbox) \in Nat /\ Len(mbox') = Len(mbox) + 1
      /\ \A i \in 1 .. Len(mbox) : mbox'[i] = mbox[i]
      /\ mbox'[Len(mbox) + 1] = m
  BY DEF TypeOK
<1>2. IsFiniteSet(S) /\ Cardinality(S) \in Nat BY InMboxFinite DEF InMbox
<1>3. CASE m.type = type
  <2>1. T = S \union {Len(mbox) + 1} BY <1>1, <1>3
  <2>2. Len(mbox) + 1 \notin S BY <1>1
  <2>3. Cardinality(S \union {Len(mbox) + 1}) = Cardinality(S) + 1
    BY <1>2, <2>2, FS_AddElement
  <2> QED BY <1>3, <2>1, <2>3 DEF InMbox, Truth
<1>4. CASE m.type # type
  <2>1. T = S BY <1>1, <1>4
  <2>2. InMbox(type) = Cardinality(S) /\ InMbox(type)' = Cardinality(T) BY DEF InMbox
  <2>3. Truth(m.type = type) = 0 BY <1>4 DEF Truth
  <2> HIDE DEF S, T
  <2> QED BY <1>2, <2>1, <2>2, <2>3
<1> QED BY <1>3, <1>4

LEMMA InMboxTail ==
    ASSUME TypeOK, NEW type, mbox # << >>, mbox' = Tail(mbox)
    PROVE  InMbox(type)' = InMbox(type) - Truth(Head(mbox).type = type)
<1> DEFINE S == {i \in 1 .. Len(mbox) : mbox[i].type = type}
           T == {i \in 1 .. Len(mbox') : mbox'[i].type = type}
           f == [i \in T |-> i + 1]
<1>1. /\ Len(mbox) \in Nat /\ Len(mbox) >= 1 /\ Len(mbox') = Len(mbox) - 1
      /\ \A i \in 1 .. Len(mbox') : mbox'[i] = mbox[i + 1]
      /\ Head(mbox) = mbox[1]
  BY DEF TypeOK
<1>2. IsFiniteSet(S) /\ Cardinality(S) \in Nat BY InMboxFinite DEF InMbox
<1>3. IsFiniteSet(S \ {1}) BY <1>2, FS_Subset, S \ {1} \subseteq S
<1>4. f \in Bijection(T, S \ {1})
  <2>1. \A i \in T : f[i] \in S \ {1} BY <1>1
  <2>2. \A i, j \in T : f[i] = f[j] => i = j BY <1>1
  <2>3. \A j \in S \ {1} : j - 1 \in T /\ f[j - 1] = j
    <3> TAKE j \in S \ {1}
    <3>1. j - 1 \in 1 .. Len(mbox') BY <1>1
    <3>2. mbox'[j - 1] = mbox[j - 1 + 1] BY <1>1, <3>1
    <3>3. j - 1 + 1 = j OBVIOUS
    <3>4. j - 1 \in T BY <3>1, <3>2, <3>3
    <3> QED BY <3>3, <3>4
  <2>4. f \in [T -> S \ {1}] BY <2>1
  <2> HIDE DEF S, T, f
  <2>5. f \in Injection(T, S \ {1}) BY <2>2, <2>4 DEF Injection, IsInjective, f
  <2>6. f \in Surjection(T, S \ {1}) BY <2>3, <2>4 DEF Surjection
  <2> QED BY <2>5, <2>6 DEF Bijection
<1>5. Cardinality(T) = Cardinality(S \ {1})
  <2> HIDE DEF S, T, f
  <2> QED BY <1>3, <1>4, FS_Injection DEF Bijection
<1>0. InMbox(type) = Cardinality(S) /\ InMbox(type)' = Cardinality(T) BY DEF InMbox
<1>6. CASE Head(mbox).type = type
  <2>1. 1 \in S BY <1>1, <1>6
  <2>2. Cardinality(S \ {1}) = Cardinality(S) - 1 BY <1>2, <2>1, FS_RemoveElement
  <2>3. Truth(Head(mbox).type = type) = 1 BY <1>6 DEF Truth
  <2> HIDE DEF S, T
  <2> QED BY <1>0, <1>2, <1>5, <2>2, <2>3
<1>7. CASE Head(mbox).type # type
  <2>1. S \ {1} = S BY <1>1, <1>7
  <2>2. Truth(Head(mbox).type = type) = 0 BY <1>7 DEF Truth
  <2> HIDE DEF S, T
  <2>3. Cardinality(S \ {1}) = Cardinality(S) BY <2>1, Zenon
  <2> QED BY <1>0, <1>2, <1>5, <2>2, <2>3
<1> QED BY <1>6, <1>7

LEMMA InMboxLen ==
    ASSUME TypeOK PROVE InMbox("INPKT") + InMbox("CALLBACK") = Len(mbox)
<1> DEFINE S(type) == {i \in 1 .. Len(mbox) : mbox[i].type = type}
<1>1. Len(mbox) \in Nat /\ \A i \in 1 .. Len(mbox) : mbox[i] \in Messages BY DEF TypeOK
<1>2. IsFiniteSet(S("INPKT")) /\ IsFiniteSet(S("CALLBACK")) BY InMboxFinite
<1>3. S("INPKT") \union S("CALLBACK") = 1 .. Len(mbox) BY <1>1, MessageTypes
<1>4. S("INPKT") \intersect S("CALLBACK") = {} OBVIOUS
<1>5. Cardinality(1 .. Len(mbox)) = Len(mbox)
  <2>1. Cardinality(1 .. Len(mbox)) = IF 1 > Len(mbox) THEN 0 ELSE Len(mbox) - 1 + 1
    BY <1>1, FS_Interval
  <2> QED BY <1>1, <2>1
<1>6. Cardinality(S("INPKT") \union S("CALLBACK"))
        = Cardinality(S("INPKT")) + Cardinality(S("CALLBACK"))
            - Cardinality(S("INPKT") \intersect S("CALLBACK"))
  BY <1>2, FS_Union
<1>7. Cardinality({}) = 0 BY FS_EmptySet
<1>9. InMbox("INPKT") = Cardinality(S("INPKT")) /\ InMbox("CALLBACK") = Cardinality(S("CALLBACK"))
  BY DEF InMbox
<1> HIDE DEF S
<1>8. Cardinality(S("INPKT")) \in Nat /\ Cardinality(S("CALLBACK")) \in Nat
  BY <1>2, FS_CardinalityType
<1>10. /\ Cardinality(S("INPKT") \union S("CALLBACK")) = Len(mbox)
       /\ Cardinality(S("INPKT") \intersect S("CALLBACK")) = 0
  BY <1>3, <1>4, <1>5, <1>7, Zenon
<1> QED BY <1>6, <1>8, <1>9, <1>10
-----------------------------------------------------------------------------
(* Types and messages *)

LEMMA InitIInv == ASSUME EthConstants, Init PROVE IInv
<1> USE DEF Init
<1>0. RingSize \in Nat /\ RingSize >= 1 /\ 0 \in Descriptors BY DEF EthConstants, Descriptors
<1>1. TypeOK
  <2>1. own \in [Descriptors -> BOOLEAN] /\ buffer \in [Descriptors -> Frames]
    BY DEF EthConstants, Frames
  <2>2. payload \in [Pbufs -> Frames \X Frames] BY DEF EthConstants, Frames
  <2>3. mbox \in Seq(Messages) /\ tcpipMsg \in Messages BY DEF Messages
  <2>4. recvPc \in RecvPCs /\ tcpipPc \in TcpipPCs BY DEF RecvPCs, TcpipPCs
  <2>5. arrived \in 0 .. MaxFrames /\ g_eth_swamphore \in 0 .. SemMax
        /\ inpktFree \in 0 .. InpktMsgs /\ apiFree \in 0 .. ApiMsgs
    BY DEF EthConstants
  <2>6. ooseq \in [Pcbs -> SUBSET Pbufs] OBVIOUS
  <2> QED BY <1>0, <2>1, <2>2, <2>3, <2>4, <2>5, <2>6 DEF TypeOK
<1>2. Available = 0
  <2>1. {i \in Descriptors : ~own[i]} = {} OBVIOUS
  <2> QED BY <2>1, FS_EmptySet, Zenon DEF Available
<1>3. \A type : InMbox(type) = 0
  <2> TAKE type
  <2>1. {i \in 1 .. Len(mbox) : mbox[i].type = type} = {} OBVIOUS
  <2> QED BY <2>1, FS_EmptySet, Zenon DEF InMbox
<1>4. HandInv BY DEF HandInv, EthConstants
<1>5. TokensHaveFrames BY <1>2 DEF TokensHaveFrames, Truth
<1>6. RingInv BY <1>0, <1>1, <1>2, RingPlaces DEF RingInv, Descriptors
<1>7. PlaceInv
  <2>1. \A b \in Pbufs :
          b \in pool /\ b # recvPbuf /\ ~TcpipHas(b) /\ b \notin inApp /\ ~Kept(b) /\ ~Queued(b)
    BY DEF EthConstants, TcpipHas, Kept, Queued
  <2> QED BY <2>1 DEF PlaceInv, Truth
<1>8. MsgInv BY <1>3 DEF MsgInv, TcpipHolds, Truth, EthConstants
<1>9. PendingInv BY DEF PendingInv
<1>10. OrderInv
  BY <1>2 DEF OrderInv, RingOrder, MailOrder, StageOrder, Coming, Ready, Mailed, InTcpip, InMailbox, InHand, Older, TcpipHas
<1>11. ContentInv BY DEF ContentInv, TcpipHas, Queued
<1> QED BY <1>1, <1>4, <1>5, <1>6, <1>7, <1>8, <1>9, <1>10, <1>11 DEF IInv

\* sys_mbox_trypost always finds room: there is a place for every message.
LEMMA MailboxHasRoom ==
    ASSUME EthConstants, EthCapacity, TypeOK, MsgInv, recvPc \in {"post", "postCallback"},
           NEW m, TryPost(m)
    PROVE  mbox' = Append(mbox, m)
<1>1. InMbox("INPKT") \in Nat /\ InMbox("CALLBACK") \in Nat BY InMboxFinite
<1>2. InMbox("INPKT") + InMbox("CALLBACK") = Len(mbox) BY InMboxLen
<1>3. Len(mbox) < MboxSize
  BY <1>1, <1>2 DEF EthConstants, EthCapacity, TypeOK, MsgInv, TcpipHolds, Truth
<1> QED BY <1>3 DEF TryPost

LEMMA PacketType ==
    ASSUME NEW b \in Pbufs
    PROVE  Packet(b) \in Messages /\ Packet(b).type = "INPKT" /\ Packet(b).p = b
BY DEF Packet, Messages

LEMMA CallbackType == Callback \in Messages /\ Callback.type = "CALLBACK"
BY DEF Callback, Messages

\* What becomes of the messages, in each step.
LEMMA MsgInvStep ==
    ASSUME EthConstants, EthCapacity, IInv, Next
    PROVE  MsgInv'
<1> USE DEF RecvGoto
<1>0. /\ TypeOK /\ MsgInv
      /\ InMbox("INPKT") \in Nat /\ InMbox("CALLBACK") \in Nat
      /\ inpktFree \in Nat /\ apiFree \in Nat /\ InpktMsgs \in Nat /\ ApiMsgs \in Nat
  <2>1. TypeOK /\ MsgInv BY DEF IInv
  <2>2. InMbox("INPKT") \in Nat /\ InMbox("CALLBACK") \in Nat BY <2>1, InMboxFinite
  <2> QED BY <2>1, <2>2 DEF TypeOK, EthConstants
<1>a. mbox' = mbox => \A type : InMbox(type)' = InMbox(type) BY DEF InMbox
<1>1. CASE UNCHANGED <<inpktFree, apiFree, mbox, tcpipPc, tcpipMsg>>
           /\ (recvPc' = recvPc
               \/ (recvPc \notin {"post", "postCallback"} /\ recvPc' \notin {"post", "postCallback"}))
  BY <1>0, <1>a, <1>1 DEF MsgInv, TcpipHolds, Truth
<1>2. CASE CallbackMsg
  BY <1>0, <1>a, <1>2 DEF CallbackMsg, MsgInv, TcpipHolds, Truth, tcpipVars
<1>3. CASE PostCallback
  <2>1. mbox' = Append(mbox, Callback) BY <1>0, <1>3, MailboxHasRoom DEF PostCallback
  <2>2. /\ InMbox("INPKT")' = InMbox("INPKT") + Truth("CALLBACK" = "INPKT")
        /\ InMbox("CALLBACK")' = InMbox("CALLBACK") + Truth("CALLBACK" = "CALLBACK")
    BY <1>0, <2>1, CallbackType, InMboxAppend
  <2> QED BY <1>0, <1>3, <2>2 DEF PostCallback, MsgInv, TcpipHolds, Truth, tcpipVars, poolVars
<1>4. CASE EthernetifInput
  BY <1>0, <1>a, <1>4 DEF EthernetifInput, MsgInv, TcpipHolds, Truth, tcpipVars
<1>5. CASE PostPacket
  <2>0. recvPbuf \in Pbufs BY <1>5 DEF PostPacket, IInv, HandInv
  <2>1. mbox' = Append(mbox, Packet(recvPbuf)) BY <1>0, <1>5, MailboxHasRoom DEF PostPacket
  <2>2. /\ InMbox("INPKT")' = InMbox("INPKT") + Truth("INPKT" = "INPKT")
        /\ InMbox("CALLBACK")' = InMbox("CALLBACK") + Truth("INPKT" = "CALLBACK")
    BY <1>0, <2>0, <2>1, PacketType, InMboxAppend
  <2> QED BY <1>0, <1>5, <2>2 DEF PostPacket, MsgInv, TcpipHolds, Truth, tcpipVars, poolVars
<1>6. CASE TcpipFetch
  <2>1. /\ InMbox("INPKT")' = InMbox("INPKT") - Truth(tcpipMsg'.type = "INPKT")
        /\ InMbox("CALLBACK")' = InMbox("CALLBACK") - Truth(tcpipMsg'.type = "CALLBACK")
    BY <1>0, <1>6, InMboxTail DEF TcpipFetch
  <2>2. /\ TcpipHolds("INPKT") = 0 /\ TcpipHolds("CALLBACK") = 0
        /\ TcpipHolds("INPKT")' = Truth(tcpipMsg'.type = "INPKT")
        /\ TcpipHolds("CALLBACK")' = Truth(tcpipMsg'.type = "CALLBACK")
    BY <1>6 DEF TcpipFetch, TcpipHolds, Truth
  <2>3. InMbox("INPKT")' + TcpipHolds("INPKT")' = InMbox("INPKT") + TcpipHolds("INPKT")
    BY <1>0, <2>1, <2>2 DEF Truth
  <2>4. InMbox("CALLBACK")' + TcpipHolds("CALLBACK")' = InMbox("CALLBACK") + TcpipHolds("CALLBACK")
    BY <1>0, <2>1, <2>2 DEF Truth
  <2>5. TcpipHolds("INPKT")' \in Nat /\ TcpipHolds("CALLBACK")' \in Nat
        /\ InMbox("INPKT")' \in Int /\ InMbox("CALLBACK")' \in Int
    BY <1>0, <2>1, <2>2 DEF Truth
  <2>6. /\ inpktFree' = inpktFree /\ apiFree' = apiFree
        /\ Truth(recvPc = "post")' = Truth(recvPc = "post") 
        /\ Truth(recvPc = "postCallback")' = Truth(recvPc = "postCallback")
        /\ Truth(recvPc = "postCallback") \in Nat /\ Truth(recvPc = "post") \in Nat
    BY <1>6 DEF TcpipFetch, recvVars, poolVars, Truth
  <2> QED BY <1>0, <2>2, <2>3, <2>4, <2>5, <2>6 DEF MsgInv, Truth
<1>7. CASE TcpipPacket \/ TcpipCallback \/ Reclaim
  BY <1>0, <1>a, <1>7 DEF TcpipPacket, TcpipCallback, Reclaim, MsgInv, TcpipHolds, Truth, recvVars
<1>8. CASE TcpipFreeMsg
  <2>1. tcpipMsg.type \in {"INPKT", "CALLBACK"} BY <1>0, MessageTypes DEF TypeOK
  <2> QED BY <1>0, <1>a, <1>8, <2>1 DEF TcpipFreeMsg, MsgInv, TcpipHolds, Truth, recvVars
<1>9. CASE DmaReceive \/ ISR_RxEth \/ AppFrees
  BY <1>1, <1>9 DEF DmaReceive, ISR_RxEth, AppFrees, poolVars, tcpipVars, recvVars
<1>10. CASE RecvTake \/ LowLevelInput \/ PoolIsEmpty \/ Unpend
  BY <1>1, <1>10 DEF RecvTake, LowLevelInput, PoolIsEmpty, Unpend, poolVars, tcpipVars
<1>11. CASE CopyFrame \/ CopyRest \/ FreeReceiveBuffer \/ RecvFreePbuf
  BY <1>1, <1>11 DEF CopyFrame, CopyRest, FreeReceiveBuffer, RecvFreePbuf, poolVars, tcpipVars
<1> QED BY <1>2, <1>3, <1>4, <1>5, <1>6, <1>7, <1>8, <1>9, <1>10, <1>11 DEF Next, RecvStep, TcpipStep
-----------------------------------------------------------------------------
\* A message that the tcpip thread gives back was missing from its pool.
LEMMA FreedMsgFits ==
    ASSUME EthConstants, TypeOK, MsgInv, TcpipFreeMsg
    PROVE  inpktFree' \in 0 .. InpktMsgs /\ apiFree' \in 0 .. ApiMsgs
<1>0. tcpipPc = "freeMsg" BY DEF TcpipFreeMsg
<1>1. tcpipMsg.type \in {"INPKT", "CALLBACK"} BY MessageTypes DEF TypeOK
<1>2. InMbox("INPKT") \in Nat /\ InMbox("CALLBACK") \in Nat BY InMboxFinite DEF TypeOK
<1>3. Truth(recvPc = "post") \in Nat /\ Truth(recvPc = "postCallback") \in Nat BY DEF Truth
<1>4. TcpipHolds("INPKT") \in Nat /\ TcpipHolds("CALLBACK") \in Nat BY DEF TcpipHolds, Truth
<1>5. inpktFree \in 0 .. InpktMsgs /\ apiFree \in 0 .. ApiMsgs BY DEF TypeOK
<1>6. InpktMsgs \in Nat /\ ApiMsgs \in Nat BY DEF EthConstants
<1>7. PICK m \in Nat, n \in Nat :
        /\ m = InMbox("INPKT") + Truth(recvPc = "post")
        /\ n = InMbox("CALLBACK") + Truth(recvPc = "postCallback")
  BY <1>2, <1>3
<1>8. /\ inpktFree + m + TcpipHolds("INPKT") = InpktMsgs
      /\ apiFree + n + TcpipHolds("CALLBACK") = ApiMsgs
  BY <1>2, <1>3, <1>4, <1>5, <1>7 DEF MsgInv
<1>9. CASE tcpipMsg.type = "INPKT"
  <2>1. TcpipHolds("INPKT") = 1 BY <1>0, <1>9 DEF TcpipHolds, Truth
  <2>2. inpktFree < InpktMsgs BY <1>5, <1>6, <1>7, <1>8, <2>1
  <2>3. inpktFree' = inpktFree + 1 /\ apiFree' = apiFree BY <1>9 DEF TcpipFreeMsg
  <2> QED BY <1>5, <1>6, <2>2, <2>3
<1>10. CASE tcpipMsg.type = "CALLBACK"
  <2>1. TcpipHolds("CALLBACK") = 1 BY <1>0, <1>10 DEF TcpipHolds, Truth
  <2>2. apiFree < ApiMsgs BY <1>5, <1>6, <1>7, <1>8, <2>1
  <2>3. apiFree' = apiFree + 1 /\ inpktFree' = inpktFree BY <1>10 DEF TcpipFreeMsg
  <2> QED BY <1>5, <1>6, <2>2, <2>3
<1> QED BY <1>1, <1>9, <1>10

LEMMA TypeOKStep ==
    ASSUME EthConstants, EthCapacity, IInv, Next
    PROVE  TypeOK'
<1> USE DEF RecvGoto, RecvPCs, TcpipPCs, ringVars, poolVars, recvVars, tcpipVars, stackVars
<1>0. TypeOK BY DEF IInv
<1>1. CASE DmaReceive
  <2>1. arrived' \in 0 .. MaxFrames /\ arrived' \in Frames
    BY <1>0, <1>1 DEF TypeOK, DmaReceive, EthConstants, Frames
  <2>2. Following(dmaPtr) \in Descriptors
    BY <1>0 DEF TypeOK, EthConstants, Following, Descriptors
  <2>3. own' \in [Descriptors -> BOOLEAN]
    BY <1>0, <1>1 DEF TypeOK, DmaReceive
  <2>4. buffer' \in [Descriptors -> Frames]
    <3>1. buffer' = [buffer EXCEPT ![dmaPtr] = arrived'] \/ buffer' = buffer
      BY <1>1 DEF DmaReceive
    <3>2. buffer \in [Descriptors -> Frames] BY <1>0 DEF TypeOK
    <3> QED BY <2>1, <3>1, <3>2
  <2>5. dmaPtr' \in Descriptors /\ srr' \in BOOLEAN
    BY <1>0, <1>1, <2>2 DEF TypeOK, DmaReceive
  <2>6. UNCHANGED <<rxDescrPtr, g_eth_swamphore, poolVars, mbox, recvVars, tcpipVars, stackVars>>
    BY <1>1 DEF DmaReceive
  <2> HIDE DEF RecvPCs, TcpipPCs
  <2> QED BY <1>0, <2>1, <2>3, <2>4, <2>5, <2>6 DEF TypeOK
<1>2. CASE ISR_RxEth
  <2>1. Give \in 0 .. SemMax BY <1>0 DEF TypeOK, Give, EthConstants
  <2> QED BY <1>0, <1>2, <2>1 DEF TypeOK, ISR_RxEth
<1>3. CASE RecvTake BY <1>0, <1>3 DEF TypeOK, RecvTake, EthConstants
<1>4. CASE LowLevelInput BY <1>0, <1>4 DEF TypeOK, LowLevelInput
<1>5. CASE PoolIsEmpty BY <1>0, <1>5 DEF TypeOK, PoolIsEmpty
<1>6. CASE CallbackMsg BY <1>0, <1>6 DEF TypeOK, CallbackMsg, EthConstants
<1>7. CASE PostCallback
  BY <1>0, <1>7, CallbackType DEF TypeOK, PostCallback, TryPost
<1>8. CASE Unpend BY <1>0, <1>8 DEF TypeOK, Unpend
<1>9. CASE CopyFrame \/ CopyRest
  <2>1. recvPbuf \in Pbufs /\ buffer[rxDescrPtr] \in Frames
    BY <1>0, <1>9 DEF TypeOK, CopyFrame, CopyRest, IInv, HandInv
  <2>2. payload' \in [Pbufs -> Frames \X Frames]
    BY <1>0, <1>9, <2>1 DEF TypeOK, CopyFrame, CopyRest
  <2> QED BY <1>0, <1>9, <2>2 DEF TypeOK, CopyFrame, CopyRest
<1>10. CASE FreeReceiveBuffer
  <2>1. Shuffle \in Descriptors BY <1>0, RingNext
  <2> QED BY <1>0, <1>10, <2>1 DEF TypeOK, FreeReceiveBuffer
<1>11. CASE EthernetifInput BY <1>0, <1>11 DEF TypeOK, EthernetifInput, EthConstants
<1>12. CASE PostPacket
  <2>1. Packet(recvPbuf) \in Messages BY <1>12, PacketType DEF PostPacket, IInv, HandInv
  <2> QED BY <1>0, <1>12, <2>1 DEF TypeOK, PostPacket, TryPost
<1>13. CASE RecvFreePbuf
  <2>1. recvPbuf \in Pbufs BY <1>13 DEF RecvFreePbuf, IInv, HandInv
  <2> QED BY <1>0, <1>13, <2>1 DEF TypeOK, RecvFreePbuf
<1>14. CASE TcpipFetch
  <2>1. Head(mbox) \in Messages /\ Tail(mbox) \in Seq(Messages)
    BY <1>0, <1>14 DEF TypeOK, TcpipFetch
  <2> QED BY <1>0, <1>14, <2>1 DEF TypeOK, TcpipFetch
<1>15. CASE TcpipPacket
  <2>1. tcpipMsg.p \in Pbufs BY <1>0, <1>15, MessageTypes DEF TypeOK, TcpipPacket
  <2>2. pool' \subseteq Pbufs /\ inApp' \subseteq Pbufs /\ ooseq' \in [Pcbs -> SUBSET Pbufs]
    <3>1. \A c \in Pcbs : ooseq[c] \subseteq Pbufs BY <1>0 DEF TypeOK
    <3>2. CASE \E c \in Pcbs : /\ ooseq' = [ooseq EXCEPT ![c] = @ \union {tcpipMsg.p}]
                              /\ UNCHANGED <<pool, inApp>>
      BY <1>0, <2>1, <3>1, <3>2 DEF TypeOK
    <3>3. CASE \E c \in Pcbs : /\ inApp' = inApp \union {tcpipMsg.p} \union ooseq[c]
                              /\ ooseq' = [ooseq EXCEPT ![c] = {}]
                              /\ UNCHANGED pool
      BY <1>0, <2>1, <3>1, <3>3 DEF TypeOK
    <3> QED BY <1>0, <1>15, <2>1, <3>2, <3>3 DEF TypeOK, TcpipPacket
  <2> QED BY <1>0, <1>15, <2>2 DEF TypeOK, TcpipPacket
<1>16. CASE TcpipCallback BY <1>0, <1>16 DEF TypeOK, TcpipCallback
<1>17. CASE Reclaim BY <1>0, <1>17 DEF TypeOK, Reclaim
<1>18. CASE TcpipFreeMsg
  <2>1. inpktFree' \in 0 .. InpktMsgs /\ apiFree' \in 0 .. ApiMsgs
    BY <1>0, <1>18, FreedMsgFits DEF IInv
  <2>2. Callback \in Messages BY CallbackType
  <2>3. tcpipPc' \in TcpipPCs /\ tcpipMsg' \in Messages BY <1>18, <2>2 DEF TcpipFreeMsg
  <2> HIDE DEF RecvPCs, TcpipPCs
  <2>4. UNCHANGED <<ringVars, g_eth_swamphore, pool, payload, pbuf_free_ooseq_pending, mbox,
                    recvVars, stackVars>>
    BY <1>18 DEF TcpipFreeMsg
  <2> QED BY <1>0, <2>1, <2>3, <2>4 DEF TypeOK
<1>19. CASE AppFrees BY <1>0, <1>19 DEF TypeOK, AppFrees
<1> QED BY <1>1, <1>2, <1>3, <1>4, <1>5, <1>6, <1>7, <1>8, <1>9, <1>10, <1>11, <1>12, <1>13,
          <1>14, <1>15, <1>16, <1>17, <1>18, <1>19 DEF Next, RecvStep, TcpipStep

LEMMA HandInvStep ==
    ASSUME EthConstants, IInv, Next
    PROVE  HandInv'
<1> USE DEF RecvGoto, recvVars, IInv, HandInv, TypeOK
<1>1. CASE DmaReceive \/ ISR_RxEth \/ TcpipStep \/ AppFrees
  BY <1>1 DEF DmaReceive, ISR_RxEth, TcpipStep, TcpipFetch, TcpipPacket, TcpipCallback, Reclaim,
              TcpipFreeMsg, AppFrees
<1>2. CASE RecvTake \/ LowLevelInput \/ PoolIsEmpty \/ CallbackMsg \/ PostCallback \/ Unpend
  BY <1>2 DEF RecvTake, LowLevelInput, PoolIsEmpty, CallbackMsg, PostCallback, Unpend
<1>3. CASE CopyFrame \/ CopyRest \/ FreeReceiveBuffer \/ EthernetifInput
  BY <1>3 DEF CopyFrame, CopyRest, FreeReceiveBuffer, EthernetifInput
<1>4. CASE PostPacket \/ RecvFreePbuf
  BY <1>4 DEF PostPacket, RecvFreePbuf, EthConstants
<1> QED BY <1>1, <1>2, <1>3, <1>4 DEF Next, RecvStep
-----------------------------------------------------------------------------
(* The ring and its tokens *)

\* What the DMA does with a frame that finds a descriptor of its own.
LEMMA DmaFills ==
    ASSUME EthConstants, IInv, DmaReceive, own[dmaPtr]
    PROVE  /\ Available < RingSize /\ Available' = Available + 1
           /\ dmaPtr' = InRing(Available + 1)
           /\ \A k \in Descriptors : /\ InRing(k)' = InRing(k)
                                     /\ InRing(k) = dmaPtr <=> k = Available
                                     /\ k # Available => buffer'[InRing(k)] = buffer[InRing(k)]
           /\ buffer'[InRing(Available)] = arrived + 1
<1>1. TypeOK /\ RingInv BY DEF IInv
<1>2. Available \in 0 .. RingSize /\ RingSize \in Nat /\ RingSize >= 1
  BY AvailableType DEF EthConstants
<1>3. Available < RingSize
  <2>1. SUFFICES ASSUME Available = RingSize PROVE FALSE BY <1>2
  <2>2. InRing(RingSize) = rxDescrPtr BY <1>1, <1>2, Wrapping DEF TypeOK, InRing, Descriptors
  <2>3. InRing(0) = rxDescrPtr BY <1>1, RingPlaces
  <2>4. ~own[InRing(0)] BY <1>1, <1>2, <2>1 DEF RingInv, Descriptors
  <2> QED BY <1>1, <2>1, <2>2, <2>3, <2>4 DEF RingInv
<1>4. Available \in Descriptors BY <1>2, <1>3 DEF Descriptors
<1>5. Available' = Available + 1
  BY <1>1, AvailableMore DEF DmaReceive, TypeOK
<1>6. dmaPtr' = InRing(Available + 1) BY <1>1, <1>4, RingNext DEF DmaReceive, RingInv
<1>7. ASSUME NEW k \in Descriptors PROVE InRing(k)' = InRing(k)
  BY DEF DmaReceive, InRing
<1>8. \A k \in Descriptors : InRing(k) \in Descriptors /\ (InRing(k) = dmaPtr <=> k = Available)
  BY <1>1, <1>4, RingPlaces DEF RingInv, Descriptors
<1>9. /\ \A k \in Descriptors : k # Available => buffer'[InRing(k)] = buffer[InRing(k)]
      /\ buffer'[InRing(Available)] = arrived + 1
  BY <1>1, <1>4, <1>8 DEF DmaReceive, TypeOK
<1> QED BY <1>3, <1>5, <1>6, <1>7, <1>8, <1>9

\* What giving a buffer back does: the rest of the ring moves up.
LEMMA BufferFreed ==
    ASSUME EthConstants, IInv, FreeReceiveBuffer
    PROVE  /\ Available >= 1 /\ Available' = Available - 1
           /\ \A k \in 0 .. RingSize - 1 : InRing(k)' = InRing(k + 1)
           /\ \A k \in Descriptors : own'[InRing(k)] <=> (own[InRing(k)] \/ k = 0)
           /\ rxDescrPtr' \in Descriptors
<1>1. TypeOK /\ RingInv /\ TokensHaveFrames BY DEF IInv
<1>2. Available \in 0 .. RingSize /\ RingSize \in Nat /\ RingSize >= 1
  BY AvailableType DEF EthConstants
<1>3. Available >= 1
  BY <1>1, <1>2 DEF TokensHaveFrames, Truth, FreeReceiveBuffer, TypeOK, EthConstants
<1>4. InRing(0) = rxDescrPtr BY <1>1, RingPlaces
<1>5. ~own[rxDescrPtr] BY <1>1, <1>2, <1>3, <1>4 DEF RingInv, Descriptors
<1>6. Available' = Available - 1
  BY <1>1, <1>5, AvailableLess DEF FreeReceiveBuffer, TypeOK
<1>7. ASSUME NEW k \in 0 .. RingSize - 1 PROVE InRing(k)' = InRing(k + 1)
  <2>1. (Shuffle + k) % RingSize = (rxDescrPtr + k + 1) % RingSize BY <1>1, <1>2, RingNext
  <2>2. rxDescrPtr + k + 1 = rxDescrPtr + (k + 1) BY <1>1 DEF TypeOK, Descriptors
  <2> QED BY <2>1, <2>2 DEF InRing, FreeReceiveBuffer
<1>8. \A k \in Descriptors : InRing(k) \in Descriptors /\ (InRing(k) = rxDescrPtr <=> k = 0)
  BY <1>1, <1>2, <1>4, RingPlaces DEF Descriptors
<1>9. \A k \in Descriptors : own'[InRing(k)] <=> (own[InRing(k)] \/ k = 0)
  BY <1>1, <1>8 DEF FreeReceiveBuffer, TypeOK
<1>10. rxDescrPtr' \in Descriptors BY <1>1, RingNext DEF FreeReceiveBuffer
<1> QED BY <1>3, <1>6, <1>7, <1>9, <1>10

LEMMA RingInvStep ==
    ASSUME EthConstants, IInv, Next
    PROVE  RingInv'
<1>0. /\ TypeOK /\ RingInv /\ Available \in 0 .. RingSize
      /\ RingSize \in Nat /\ RingSize >= 1
  BY AvailableType DEF IInv, EthConstants
<1>1. CASE UNCHANGED <<own, dmaPtr, rxDescrPtr>>
  BY <1>0, <1>1 DEF RingInv, Available, InRing
<1>2. CASE DmaReceive
  <2>1. CASE own[dmaPtr]
    <3>1. \A k \in Descriptors : own'[InRing(k)] <=> (own[InRing(k)] /\ k # Available)
      <4>1. \A k \in Descriptors : InRing(k) = dmaPtr <=> k = Available BY <1>2, <2>1, DmaFills
      <4>2. \A k \in Descriptors : InRing(k) \in Descriptors
        BY <1>0, RingPlaces DEF Descriptors
      <4> QED BY <1>0, <1>2, <2>1, <4>1, <4>2 DEF DmaReceive, TypeOK
    <3>2. \A k \in Descriptors : (own[InRing(k)] /\ k # Available) <=> k >= Available + 1
      BY <1>0 DEF RingInv, Descriptors
    <3>3. ASSUME NEW k \in Descriptors PROVE own'[InRing(k)'] <=> k >= Available'
      BY <1>2, <2>1, <3>1, <3>2, DmaFills
    <3>4. dmaPtr' = InRing(Available)'
      <4>1. dmaPtr' = InRing(Available + 1) /\ Available' = Available + 1 BY <1>2, <2>1, DmaFills
      <4>2. rxDescrPtr' = rxDescrPtr BY <1>2 DEF DmaReceive
      <4> QED BY <4>1, <4>2 DEF InRing
    <3> QED BY <3>3, <3>4 DEF RingInv
  <2>2. CASE ~own[dmaPtr] BY <1>1, <1>2, <2>2 DEF DmaReceive
  <2> QED BY <2>1, <2>2
<1>3. CASE FreeReceiveBuffer
  <2>1. /\ Available >= 1 /\ Available' = Available - 1
        /\ \A k \in 0 .. RingSize - 1 : InRing(k)' = InRing(k + 1)
    BY <1>3, BufferFreed
  <2>2. dmaPtr' = InRing(Available)'
    <3>1. dmaPtr' = InRing(Available) BY <1>0, <1>3 DEF FreeReceiveBuffer, RingInv
    <3>2. (Shuffle + (Available - 1)) % RingSize = (rxDescrPtr + (Available - 1) + 1) % RingSize
      BY <1>0, <2>1, RingNext
    <3>3. rxDescrPtr + (Available - 1) + 1 = rxDescrPtr + Available BY <1>0 DEF TypeOK, Descriptors
    <3>4. rxDescrPtr' = Shuffle BY <1>3 DEF FreeReceiveBuffer
    <3> HIDE DEF Shuffle
    <3> QED BY <2>1, <3>1, <3>2, <3>3, <3>4 DEF InRing
  <2>3. ASSUME NEW k \in Descriptors PROVE own'[InRing(k)'] <=> k >= Available'
    <3>1. CASE k = RingSize - 1
      <4>1. InRing(RingSize) = InRing(0)
        <5>1. InRing(0) = rxDescrPtr BY <1>0, RingPlaces
        <5>2. (rxDescrPtr + RingSize) % RingSize = rxDescrPtr
          BY <1>0, Wrapping DEF TypeOK, Descriptors
        <5> QED BY <5>1, <5>2 DEF InRing
      <4>2. own'[InRing(0)] BY <1>0, <1>3, BufferFreed DEF Descriptors
      <4> QED BY <1>0, <2>1, <3>1, <4>1, <4>2 DEF Descriptors
    <3>2. CASE k < RingSize - 1
      <4>1. k + 1 \in Descriptors /\ k + 1 # 0 BY <1>0, <3>2 DEF Descriptors
      <4>2. own'[InRing(k + 1)] <=> k + 1 >= Available
        BY <1>0, <1>3, <4>1, BufferFreed DEF RingInv
      <4> QED BY <1>0, <2>1, <4>1, <4>2 DEF Descriptors
    <3> QED BY <1>0, <3>1, <3>2 DEF Descriptors
  <2> QED BY <2>2, <2>3 DEF RingInv
<1>4. CASE ISR_RxEth \/ TcpipStep \/ AppFrees
  BY <1>1, <1>4 DEF ISR_RxEth, TcpipStep, TcpipFetch, TcpipPacket, TcpipCallback, Reclaim,
                    TcpipFreeMsg, AppFrees, ringVars
<1>5. CASE RecvTake \/ LowLevelInput \/ PoolIsEmpty \/ CallbackMsg \/ PostCallback \/ Unpend
           \/ CopyFrame \/ CopyRest \/ EthernetifInput \/ PostPacket \/ RecvFreePbuf
  BY <1>1, <1>5 DEF RecvTake, LowLevelInput, PoolIsEmpty, CallbackMsg, PostCallback, Unpend,
                    CopyFrame, CopyRest, EthernetifInput, PostPacket, RecvFreePbuf, ringVars
<1> QED BY <1>2, <1>3, <1>4, <1>5 DEF Next, RecvStep

LEMMA TokensStep ==
    ASSUME EthConstants, EthCapacity, IInv, Next
    PROVE  TokensHaveFrames'
<1> USE DEF RecvGoto, ringVars, recvVars, TokensHaveFrames, Truth
<1>0. /\ TypeOK /\ TokensHaveFrames /\ Available \in 0 .. RingSize /\ g_eth_swamphore \in Nat
      /\ RingSize \in Nat
  BY AvailableType DEF IInv, TypeOK, EthConstants
<1>a. UNCHANGED own => Available' = Available BY DEF Available
<1>1. CASE DmaReceive
  <2>1. CASE own[dmaPtr]
    <3>1. Available' = Available + 1 BY <1>1, <2>1, DmaFills
    <3> QED BY <1>0, <1>1, <3>1 DEF DmaReceive
  <2>2. CASE ~own[dmaPtr] BY <1>0, <1>a, <1>1, <2>2 DEF DmaReceive
  <2> QED BY <2>1, <2>2
<1>2. CASE ISR_RxEth
  <2>1. Give \in Nat /\ Give <= g_eth_swamphore + 1 BY <1>0 DEF Give
  <2> QED BY <1>0, <1>a, <1>2, <2>1 DEF ISR_RxEth
<1>3. CASE RecvTake BY <1>0, <1>a, <1>3 DEF RecvTake
<1>4. CASE FreeReceiveBuffer
  <2>1. Available' = Available - 1 BY <1>4, BufferFreed
  <2> QED BY <1>0, <1>4, <2>1 DEF FreeReceiveBuffer
<1>5. CASE LowLevelInput \/ PoolIsEmpty \/ CallbackMsg \/ PostCallback \/ Unpend
           \/ CopyFrame \/ CopyRest \/ EthernetifInput \/ PostPacket \/ RecvFreePbuf
  BY <1>0, <1>a, <1>5 DEF LowLevelInput, PoolIsEmpty, CallbackMsg, PostCallback, Unpend,
                    CopyFrame, CopyRest, EthernetifInput, PostPacket, RecvFreePbuf
<1>6. CASE TcpipStep \/ AppFrees
  BY <1>0, <1>a, <1>6 DEF TcpipStep, TcpipFetch, TcpipPacket, TcpipCallback, Reclaim,
                    TcpipFreeMsg, AppFrees
<1> QED BY <1>1, <1>2, <1>3, <1>4, <1>5, <1>6 DEF Next, RecvStep
-----------------------------------------------------------------------------
(* Each pbuf has one place. *)

LEMMA PendingStep ==
    ASSUME EthConstants, EthCapacity, IInv, Next
    PROVE  PendingInv'
<1> USE DEF RecvGoto, ringVars, poolVars, recvVars, tcpipVars
<1>0. TypeOK /\ PendingInv /\ MsgInv /\ InMbox("CALLBACK") \in Nat
  <2>1. TypeOK BY DEF IInv
  <2> QED BY <2>1, InMboxFinite DEF IInv
<1>a. UNCHANGED mbox => InMbox("CALLBACK")' = InMbox("CALLBACK") BY DEF InMbox
<1>1. CASE PostCallback
  <2>1. mbox' = Append(mbox, Callback) BY <1>0, <1>1, MailboxHasRoom DEF PostCallback
  <2>2. InMbox("CALLBACK")' = InMbox("CALLBACK") + Truth("CALLBACK" = "CALLBACK")
    BY <1>0, <2>1, CallbackType, InMboxAppend
  <2> QED BY <1>0, <2>2 DEF PendingInv, Truth
<1>2. CASE PostPacket
  <2>0. recvPbuf \in Pbufs BY <1>2 DEF PostPacket, IInv, HandInv
  <2>1. mbox' = Append(mbox, Packet(recvPbuf)) BY <1>0, <1>2, MailboxHasRoom DEF PostPacket
  <2>2. InMbox("CALLBACK")' = InMbox("CALLBACK") + Truth("INPKT" = "CALLBACK")
    BY <1>0, <2>0, <2>1, PacketType, InMboxAppend
  <2> QED BY <1>0, <1>2, <2>2 DEF PostPacket, PendingInv, Truth
<1>3. CASE TcpipFetch
  <2>1. InMbox("CALLBACK")' = InMbox("CALLBACK") - Truth(tcpipMsg'.type = "CALLBACK")
    BY <1>0, <1>3, InMboxTail DEF TcpipFetch
  <2> QED BY <1>0, <1>3, <2>1 DEF TcpipFetch, PendingInv, Truth
<1>4. CASE TcpipPacket \/ TcpipCallback \/ Reclaim \/ TcpipFreeMsg
  BY <1>0, <1>a, <1>4 DEF TcpipPacket, TcpipCallback, Reclaim, TcpipFreeMsg, PendingInv
<1>5. CASE DmaReceive \/ ISR_RxEth \/ AppFrees
  BY <1>0, <1>a, <1>5 DEF DmaReceive, ISR_RxEth, AppFrees, PendingInv
<1>6. CASE RecvTake \/ LowLevelInput \/ PoolIsEmpty \/ CallbackMsg \/ Unpend
  BY <1>0, <1>a, <1>6 DEF RecvTake, LowLevelInput, PoolIsEmpty, CallbackMsg, Unpend, PendingInv
<1>7. CASE CopyFrame \/ CopyRest \/ FreeReceiveBuffer \/ EthernetifInput \/ RecvFreePbuf
  BY <1>0, <1>a, <1>7 DEF CopyFrame, CopyRest, FreeReceiveBuffer, EthernetifInput, RecvFreePbuf,
                          PendingInv
<1> QED BY <1>1, <1>2, <1>3, <1>4, <1>5, <1>6, <1>7 DEF Next, RecvStep, TcpipStep

\* Where a pbuf is: exactly one of these holds.
Places(b) ==
    Truth(b \in pool) + Truth(b = recvPbuf) + Truth(TcpipHas(b)) + Truth(b \in inApp)
      + Truth(Kept(b)) + Truth(Queued(b))

LEMMA PlacesKept ==
    ASSUME NEW b \in Pbufs, Places(b) = 1,
           UNCHANGED <<pool, recvPbuf, tcpipPc, tcpipMsg, inApp, ooseq, mbox>>
    PROVE  Places(b)' = 1
BY DEF Places, TcpipHas, Kept, Queued

LEMMA PlaceInvStep ==
    ASSUME EthConstants, EthCapacity, IInv, Next
    PROVE  PlaceInv'
<1> USE DEF RecvGoto, ringVars, poolVars, recvVars, tcpipVars, stackVars
<1>0. /\ TypeOK /\ HandInv /\ MsgInv
      /\ \A b \in Pbufs : Places(b) = 1
      /\ \A c, d \in Pcbs : \A b \in ooseq[c] : b \in ooseq[d] => c = d
      /\ \A i, j \in 1 .. Len(mbox) : IsPacket(mbox[i]) /\ mbox[i] = mbox[j] => i = j
  BY DEF IInv, PlaceInv, Places
<1>a. SUFFICES /\ \A b \in Pbufs : Places(b)' = 1
               /\ \A c, d \in Pcbs : \A b \in ooseq'[c] : b \in ooseq'[d] => c = d
               /\ \A i, j \in 1 .. Len(mbox') : IsPacket(mbox'[i]) /\ mbox'[i] = mbox'[j] => i = j
  BY DEF PlaceInv, Places, IsPacket
<1>b. ooseq' = ooseq => \A b : Kept(b)' <=> Kept(b) BY DEF Kept
<1>c. mbox' = mbox => \A b : Queued(b)' <=> Queued(b) BY DEF Queued
<1>d. UNCHANGED tcpipVars => \A b : TcpipHas(b)' <=> TcpipHas(b) BY DEF TcpipHas
<1>1. CASE UNCHANGED <<pool, recvPbuf, tcpipPc, tcpipMsg, inApp, ooseq, mbox>>
  BY <1>0, <1>1, PlacesKept
<1>2. CASE LowLevelInput
  <2>1. CASE UNCHANGED <<pool, recvPbuf>> BY <1>1, <1>2, <2>1 DEF LowLevelInput
  <2>2. ASSUME NEW a \in pool, pool' = pool \ {a}, recvPbuf' = a
        PROVE  \A b \in Pbufs : Places(b)' = 1
    <3>1. \A b \in Pbufs : b # recvPbuf BY <1>0, <1>2 DEF LowLevelInput, HandInv
    <3> QED BY <1>0, <1>2, <1>b, <1>c, <1>d, <2>2, <3>1 DEF LowLevelInput, Places, Truth
  <2>3. UNCHANGED <<mbox, ooseq>> BY <1>2 DEF LowLevelInput
  <2> QED BY <1>0, <1>2, <2>1, <2>2, <2>3 DEF LowLevelInput
<1>3. CASE RecvFreePbuf
  <2>1. \A b \in Pbufs : b # recvPbuf' BY <1>3 DEF RecvFreePbuf, EthConstants
  <2>2. \A b \in Pbufs : Places(b)' = 1
    BY <1>0, <1>3, <1>b, <1>c, <1>d, <2>1 DEF RecvFreePbuf, Places, Truth
  <2> QED BY <1>0, <1>3, <2>2 DEF RecvFreePbuf
<1>4. CASE PostCallback
  <2>1. mbox' = Append(mbox, Callback) BY <1>0, <1>4, MailboxHasRoom DEF PostCallback
  <2>2. /\ Len(mbox) \in Nat /\ Len(mbox') = Len(mbox) + 1
        /\ \A i \in 1 .. Len(mbox) : mbox'[i] = mbox[i]
        /\ mbox'[Len(mbox) + 1] = Callback
    BY <1>0, <2>1, CallbackType DEF TypeOK
  <2>3. \A b \in Pbufs : Queued(b)' <=> Queued(b)
    BY <2>2 DEF Queued, Packet, Callback
  <2>4. \A b \in Pbufs : Places(b)' = 1
    BY <1>0, <1>4, <1>b, <1>d, <2>3 DEF PostCallback, Places, Truth
  <2>5. \A i, j \in 1 .. Len(mbox') : IsPacket(mbox'[i]) /\ mbox'[i] = mbox'[j] => i = j
    BY <1>0, <2>2, CallbackType DEF IsPacket
  <2> QED BY <1>0, <1>4, <2>4, <2>5 DEF PostCallback
<1>5. CASE PostPacket
  <2>0. recvPbuf \in Pbufs BY <1>0, <1>5 DEF PostPacket, HandInv
  <2>1. mbox' = Append(mbox, Packet(recvPbuf)) BY <1>0, <1>5, MailboxHasRoom DEF PostPacket
  <2>2. /\ Len(mbox) \in Nat /\ Len(mbox') = Len(mbox) + 1
        /\ \A i \in 1 .. Len(mbox) : mbox'[i] = mbox[i]
        /\ mbox'[Len(mbox) + 1] = Packet(recvPbuf)
    BY <1>0, <2>0, <2>1, PacketType DEF TypeOK
  <2>3. \A b \in Pbufs : Queued(b)' <=> (Queued(b) \/ b = recvPbuf)
    BY <2>0, <2>2 DEF Queued, Packet
  <2>4. ~Queued(recvPbuf)
    BY <1>0, <2>0 DEF Places, Truth
  <2>5. \A b \in Pbufs : b # recvPbuf' BY <1>5 DEF PostPacket, EthConstants
  <2>6. \A b \in Pbufs : Places(b)' = 1
    BY <1>0, <1>5, <1>b, <1>d, <2>3, <2>4, <2>5 DEF PostPacket, Places, Truth
  <2>7. \A i, j \in 1 .. Len(mbox') : IsPacket(mbox'[i]) /\ mbox'[i] = mbox'[j] => i = j
    BY <1>0, <2>0, <2>2, <2>4 DEF Queued
  <2> QED BY <1>0, <1>5, <2>6, <2>7 DEF PostPacket
<1>6. CASE TcpipFetch
  <2>1. /\ Len(mbox) \in Nat /\ Len(mbox) >= 1 /\ Len(mbox') = Len(mbox) - 1
        /\ \A i \in 1 .. Len(mbox') : mbox'[i] = mbox[i + 1]
        /\ tcpipMsg' = mbox[1]
    BY <1>0, <1>6 DEF TcpipFetch, TypeOK
  <2>2. \A b \in Pbufs : ~TcpipHas(b) /\ (TcpipHas(b)' <=> mbox[1] = Packet(b))
    BY <1>6, <2>1 DEF TcpipFetch, TcpipHas
  <2>3. ASSUME NEW b \in Pbufs PROVE Queued(b) <=> (Queued(b)' \/ mbox[1] = Packet(b))
    <3>1. ASSUME NEW i \in 1 .. Len(mbox), mbox[i] = Packet(b)
          PROVE  Queued(b)' \/ mbox[1] = Packet(b)
      <4>1. CASE i = 1 BY <3>1, <4>1
      <4>2. CASE i # 1
        <5>1. i - 1 \in 1 .. Len(mbox') /\ i - 1 + 1 = i BY <2>1, <4>2
        <5>2. mbox'[i - 1] = Packet(b) BY <2>1, <3>1, <5>1
        <5> QED BY <5>1, <5>2 DEF Queued
      <4> QED BY <4>1, <4>2
    <3>2. ASSUME NEW i \in 1 .. Len(mbox'), mbox'[i] = Packet(b) PROVE Queued(b)
      <4>1. i + 1 \in 1 .. Len(mbox) /\ mbox[i + 1] = Packet(b) BY <2>1, <3>2
      <4> QED BY <4>1 DEF Queued
    <3>3. mbox[1] = Packet(b) => Queued(b)
      <4>1. 1 \in 1 .. Len(mbox) BY <2>1
      <4> QED BY <4>1 DEF Queued
    <3> QED BY <3>1, <3>2, <3>3 DEF Queued
  <2>4. ASSUME NEW b \in Pbufs, mbox[1] = Packet(b) PROVE ~Queued(b)'
    <3>1. SUFFICES ASSUME NEW i \in 1 .. Len(mbox'), mbox'[i] = Packet(b) PROVE FALSE
      BY DEF Queued
    <3>2. i + 1 \in 1 .. Len(mbox) /\ 1 \in 1 .. Len(mbox) /\ mbox[i + 1] = mbox[1]
          /\ IsPacket(mbox[1]) /\ i + 1 # 1
      BY <2>1, <2>4, <3>1, PacketType DEF IsPacket
    <3> QED BY <1>0, <3>2
  <2>5. \A b \in Pbufs : Places(b)' = 1
    BY <1>0, <1>6, <1>b, <2>2, <2>3, <2>4 DEF TcpipFetch, Places, Truth
  <2>6. ASSUME NEW i \in 1 .. Len(mbox'), NEW j \in 1 .. Len(mbox'),
               IsPacket(mbox'[i]), mbox'[i] = mbox'[j]
        PROVE  i = j
    <3>1. i + 1 \in 1 .. Len(mbox) /\ j + 1 \in 1 .. Len(mbox) BY <2>1
    <3>2. i + 1 = j + 1 BY <1>0, <2>1, <2>6, <3>1
    <3> QED BY <3>2
  <2> QED BY <1>0, <1>6, <2>5, <2>6 DEF TcpipFetch
<1>7. CASE TcpipPacket
  <2> DEFINE b0 == tcpipMsg.p
  <2>1. b0 \in Pbufs /\ tcpipMsg = Packet(b0)
    BY <1>0, <1>7, MessageTypes DEF TcpipPacket, TypeOK
  <2>2. \A b \in Pbufs : (TcpipHas(b) <=> b = b0) /\ ~TcpipHas(b)'
    BY <1>7, <2>1, PacketType DEF TcpipPacket, TcpipHas
  <2>3. b0 \notin pool /\ b0 # recvPbuf /\ b0 \notin inApp /\ ~Kept(b0) /\ ~Queued(b0)
    BY <1>0, <2>1, <2>2 DEF Places, Truth
  <2>4. UNCHANGED <<recvPbuf, mbox>> BY <1>7 DEF TcpipPacket
  <2> HIDE DEF b0
  <2>5. CASE pool' = pool \union {b0} /\ UNCHANGED stackVars
    <3>1. \A b \in Pbufs : Places(b)' = 1
      BY <1>0, <1>b, <1>c, <2>2, <2>3, <2>4, <2>5 DEF Places, Truth
    <3> QED BY <1>0, <2>4, <2>5, <3>1
  <2>6. CASE inApp' = inApp \union {b0} /\ UNCHANGED <<pool, ooseq>>
    <3>1. \A b \in Pbufs : Places(b)' = 1
      BY <1>0, <1>b, <1>c, <2>2, <2>3, <2>4, <2>6 DEF Places, Truth
    <3> QED BY <1>0, <2>4, <2>6, <3>1
  <2>7. ASSUME NEW c \in Pcbs, inApp' = inApp \union {b0} \union ooseq[c],
               ooseq' = [ooseq EXCEPT ![c] = {}], UNCHANGED pool
        PROVE  /\ \A b \in Pbufs : Places(b)' = 1
               /\ \A d, e \in Pcbs : \A b \in ooseq'[d] : b \in ooseq'[e] => d = e
    <3>1. \A b \in Pbufs : Kept(b)' <=> (Kept(b) /\ b \notin ooseq[c])
      BY <1>0, <2>7 DEF Kept, TypeOK
    <3>2. \A b \in ooseq[c] : Kept(b) BY DEF Kept
    <3>3. \A b \in Pbufs : Places(b)' = 1
      BY <1>0, <1>c, <2>2, <2>3, <2>4, <2>7, <3>1, <3>2 DEF Places, Truth
    <3>4. \A d, e \in Pcbs : \A b \in ooseq'[d] : b \in ooseq'[e] => d = e
      BY <1>0, <2>7 DEF TypeOK
    <3> QED BY <3>3, <3>4
  <2>8. ASSUME NEW c \in Pcbs, ooseq' = [ooseq EXCEPT ![c] = @ \union {b0}],
               UNCHANGED <<pool, inApp>>
        PROVE  /\ \A b \in Pbufs : Places(b)' = 1
               /\ \A d, e \in Pcbs : \A b \in ooseq'[d] : b \in ooseq'[e] => d = e
    <3>1. \A b \in Pbufs : Kept(b)' <=> (Kept(b) \/ b = b0)
      BY <1>0, <2>1, <2>8 DEF Kept, TypeOK
    <3>2. \A b \in Pbufs : Places(b)' = 1
      BY <1>0, <1>c, <2>2, <2>3, <2>4, <2>8, <3>1 DEF Places, Truth
    <3>3. \A d, e \in Pcbs : \A b \in ooseq'[d] : b \in ooseq'[e] => d = e
      BY <1>0, <2>3, <2>8 DEF Kept, TypeOK
    <3> QED BY <3>2, <3>3
  <2> QED BY <1>0, <1>7, <2>4, <2>5, <2>6, <2>7, <2>8 DEF TcpipPacket, b0
<1>8. CASE TcpipCallback
  <2>1. \A b \in Pbufs : ~TcpipHas(b) /\ ~TcpipHas(b)'
    BY <1>8, PacketType DEF TcpipCallback, TcpipHas
  <2>2. \A b \in Pbufs : Places(b)' = 1
    BY <1>0, <1>8, <1>b, <1>c, <2>1 DEF TcpipCallback, Places, Truth
  <2> QED BY <1>0, <1>8, <2>2 DEF TcpipCallback
<1>9. CASE Reclaim
  <2>1. \A b \in Pbufs : ~TcpipHas(b) /\ ~TcpipHas(b)' BY <1>9 DEF Reclaim, TcpipHas
  <2>2. CASE UNCHANGED <<pool, ooseq>>
    <3>1. \A b \in Pbufs : Places(b)' = 1
      BY <1>0, <1>9, <1>b, <1>c, <2>1, <2>2 DEF Reclaim, Places, Truth
    <3> QED BY <1>0, <1>9, <2>2, <3>1 DEF Reclaim
  <2>3. ASSUME NEW c \in Pcbs, pool' = pool \union ooseq[c], ooseq' = [ooseq EXCEPT ![c] = {}]
        PROVE  /\ \A b \in Pbufs : Places(b)' = 1
               /\ \A d, e \in Pcbs : \A b \in ooseq'[d] : b \in ooseq'[e] => d = e
    <3>1. \A b \in Pbufs : Kept(b)' <=> (Kept(b) /\ b \notin ooseq[c])
      BY <1>0, <2>3 DEF Kept, TypeOK
    <3>2. \A b \in ooseq[c] : Kept(b) BY DEF Kept
    <3>3. \A b \in Pbufs : Places(b)' = 1
      BY <1>0, <1>9, <1>c, <2>1, <2>3, <3>1, <3>2 DEF Reclaim, Places, Truth
    <3>4. \A d, e \in Pcbs : \A b \in ooseq'[d] : b \in ooseq'[e] => d = e
      BY <1>0, <2>3 DEF TypeOK
    <3> QED BY <3>3, <3>4
  <2> QED BY <1>0, <1>9, <2>2, <2>3 DEF Reclaim
<1>10. CASE TcpipFreeMsg
  <2>1. \A b \in Pbufs : ~TcpipHas(b) /\ ~TcpipHas(b)' BY <1>10 DEF TcpipFreeMsg, TcpipHas
  <2>2. \A b \in Pbufs : Places(b)' = 1
    BY <1>0, <1>10, <1>b, <1>c, <2>1 DEF TcpipFreeMsg, Places, Truth
  <2> QED BY <1>0, <1>10, <2>2 DEF TcpipFreeMsg
<1>11. CASE AppFrees
  <2>1. \A b \in Pbufs : Places(b)' = 1
    BY <1>0, <1>11, <1>b, <1>c, <1>d DEF AppFrees, Places, Truth
  <2> QED BY <1>0, <1>11, <2>1 DEF AppFrees
<1>12. CASE DmaReceive \/ ISR_RxEth \/ RecvTake \/ PoolIsEmpty \/ CallbackMsg \/ Unpend
  BY <1>1, <1>12 DEF DmaReceive, ISR_RxEth, RecvTake, PoolIsEmpty, CallbackMsg, Unpend
<1>13. CASE CopyFrame \/ CopyRest \/ FreeReceiveBuffer \/ EthernetifInput
  BY <1>1, <1>13 DEF CopyFrame, CopyRest, FreeReceiveBuffer, EthernetifInput
<1> QED BY <1>2, <1>3, <1>4, <1>5, <1>6, <1>7, <1>8, <1>9, <1>10, <1>11, <1>12, <1>13
        DEF Next, RecvStep, TcpipStep
-----------------------------------------------------------------------------
(* The order of the frames *)

LEMMA RingOrderKept ==
    ASSUME RingOrder, UNCHANGED <<own, buffer, rxDescrPtr, arrived>>
    PROVE  RingOrder' /\ Coming' = Coming
BY DEF RingOrder, Coming, Ready, RingFrame, InRing, Available

LEMMA StagesShrink ==
    ASSUME StageOrder, InTcpip' \subseteq InTcpip, InMailbox' \subseteq InMailbox,
           InHand' \subseteq InHand, Coming' \subseteq Coming
    PROVE  StageOrder'
BY DEF StageOrder, Older

\* The pbufs of the mailbox and of the tcpip thread are not the receive task's.
LEMMA PacketsApart ==
    ASSUME TypeOK, PlaceInv
    PROVE  /\ \A i \in Mailed : /\ mbox[i].p \in Pbufs /\ mbox[i].p # recvPbuf
                                /\ mbox[i] = Packet(mbox[i].p) /\ Queued(mbox[i].p)
                                /\ ~TcpipHas(mbox[i].p)
           /\ \A b \in Pbufs : TcpipHas(b) => b # recvPbuf
<1>1. \A b \in Pbufs : /\ Queued(b) => b # recvPbuf /\ ~TcpipHas(b)
                       /\ TcpipHas(b) => b # recvPbuf
  BY DEF PlaceInv, Truth
<1>2. ASSUME NEW i \in Mailed PROVE mbox[i].p \in Pbufs /\ mbox[i] = Packet(mbox[i].p)
  <2>1. mbox[i] \in Messages /\ mbox[i].type = "INPKT" BY DEF TypeOK, Mailed, IsPacket
  <2> QED BY <2>1, MessageTypes
<1>3. \A i \in Mailed : Queued(mbox[i].p) BY <1>2 DEF Queued, Mailed
<1> QED BY <1>1, <1>2, <1>3

\* Steps that leave the frames where they are, but for a pbuf the receive
\* task is filling.
LEMMA StagesKept ==
    ASSUME TypeOK, PlaceInv, UNCHANGED <<mbox, tcpipPc, tcpipMsg>>,
           \A b \in Pbufs : b # recvPbuf => payload'[b] = payload[b]
    PROVE  InTcpip' = InTcpip /\ InMailbox' = InMailbox /\ (MailOrder => MailOrder')
<1>1. \A b \in Pbufs : TcpipHas(b)' <=> TcpipHas(b) BY DEF TcpipHas
<1>2. \A b \in Pbufs : TcpipHas(b) => payload'[b] = payload[b] BY PacketsApart
<1>3. InTcpip' = InTcpip BY <1>1, <1>2 DEF InTcpip
<1>4. Mailed' = Mailed BY DEF Mailed
<1>5. \A i \in Mailed : MailFrame(i)' = MailFrame(i) BY PacketsApart DEF MailFrame
<1> QED BY <1>3, <1>4, <1>5 DEF InMailbox, MailOrder

LEMMA FramesAreNumbers ==
    ASSUME EthConstants, TypeOK
    PROVE  /\ \A k \in Ready : /\ k \in Descriptors /\ RingFrame(k) \in Nat
                               /\ InRing(k) \in Descriptors
           /\ arrived \in Nat
           /\ \A b \in Pbufs : payload[b][1] \in Nat
<1>1. Available \in 0 .. RingSize /\ RingSize \in Nat BY AvailableType DEF EthConstants
<1>2. \A k \in Ready : k \in Descriptors BY <1>1 DEF Ready, Descriptors
<1>3. \A k \in Ready : InRing(k) \in Descriptors BY <1>1, RingPlaces DEF Ready
<1> QED BY <1>2, <1>3 DEF TypeOK, RingFrame, Frames, EthConstants

LEMMA StagesAreNumbers ==
    ASSUME EthConstants, TypeOK, HandInv, PlaceInv
    PROVE  InTcpip \subseteq Nat /\ InMailbox \subseteq Nat /\ InHand \subseteq Nat
           /\ Coming \subseteq Nat
<1>1. InTcpip \subseteq Nat BY FramesAreNumbers DEF InTcpip
<1>2. InMailbox \subseteq Nat BY FramesAreNumbers, PacketsApart DEF InMailbox, MailFrame
<1>3. InHand \subseteq Nat BY FramesAreNumbers DEF InHand, HandInv
<1>4. Coming \subseteq Nat BY FramesAreNumbers DEF Coming
<1> QED BY <1>1, <1>2, <1>3, <1>4

LEMMA DmaOrder ==
    ASSUME EthConstants, IInv, DmaReceive
    PROVE  OrderInv'
<1>0. /\ TypeOK /\ RingInv /\ PlaceInv /\ RingOrder /\ MailOrder /\ StageOrder
      /\ HandInv /\ Available \in 0 .. RingSize /\ RingSize \in Nat
  BY AvailableType DEF IInv, OrderInv, EthConstants
<1>1. /\ InTcpip' = InTcpip /\ InMailbox' = InMailbox /\ MailOrder'
  BY <1>0, StagesKept DEF DmaReceive, poolVars, tcpipVars
<1>2. InHand' = InHand BY DEF DmaReceive, InHand, poolVars, recvVars
<1>3. arrived' = arrived + 1 /\ arrived \in Nat BY <1>0, FramesAreNumbers DEF DmaReceive
<1>4. CASE own[dmaPtr]
  <2>1. Available < RingSize /\ Available' = Available + 1 /\ buffer'[InRing(Available)] = arrived + 1
    BY <1>4, DmaFills
  <2>2. Available \in Descriptors BY <1>0, <2>1 DEF Descriptors
  <2>3. Ready' = Ready \union {Available} /\ Available \notin Ready /\ Ready \subseteq Descriptors
    BY <1>0, <2>1 DEF Ready, Descriptors
  <2>4. \A k \in Ready : RingFrame(k)' = RingFrame(k)
    BY <1>4, <2>3, DmaFills DEF RingFrame
  <2>5. \A k \in {Available} : RingFrame(k)' = arrived + 1
    BY <1>4, <2>1, <2>2, DmaFills DEF RingFrame
  <2>6. \A k \in Ready : RingFrame(k) \in Nat /\ RingFrame(k) <= arrived /\ k < Available
    BY <1>0, FramesAreNumbers DEF RingOrder, Ready
  <2>7. RingOrder'
    <3>1. \A k \in Ready' : RingFrame(k)' <= arrived'
      BY <1>3, <2>3, <2>4, <2>5, <2>6
    <3>2. ASSUME NEW k \in Ready', NEW l \in Ready', k < l PROVE RingFrame(k)' < RingFrame(l)'
      <4>1. k \in Ready BY <1>0, <2>3, <2>6, <3>2 DEF Descriptors
      <4>2. CASE l \in Ready BY <1>0, <2>4, <3>2, <4>1, <4>2 DEF RingOrder
      <4>3. CASE l = Available BY <1>3, <2>4, <2>5, <2>6, <4>1, <4>3
      <4> QED BY <2>3, <4>2, <4>3
    <3> QED BY <3>1, <3>2 DEF RingOrder
  <2>8. Coming' = Coming \union {arrived + 2}
    BY <1>3, <2>3, <2>4, <2>5 DEF Coming
  <2>9. \A f \in InTcpip \union InMailbox \union InHand : f < arrived + 2
    <3>1. \A f \in InTcpip \union InMailbox \union InHand : f \in Nat /\ f < arrived + 1
      BY <1>0, StagesAreNumbers DEF StageOrder, Older, Coming, IInv
    <3> QED BY <1>3, <3>1
  <2> QED BY <1>0, <1>1, <1>2, <2>7, <2>8, <2>9 DEF OrderInv, StageOrder, Older
<1>5. CASE ~own[dmaPtr]
  <2>1. UNCHANGED <<own, buffer, rxDescrPtr>> BY <1>5 DEF DmaReceive
  <2>2. Ready' = Ready /\ \A k \in Ready : RingFrame(k)' = RingFrame(k)
    BY <2>1 DEF Ready, RingFrame, InRing, Available
  <2>3. \A k \in Ready : RingFrame(k) \in Nat BY <1>0, FramesAreNumbers
  <2>4. RingOrder' BY <1>0, <1>3, <2>2, <2>3 DEF RingOrder
  <2>5. Coming' \subseteq Coming \union {arrived + 2} BY <1>3, <2>2 DEF Coming
  <2>6. \A f \in InTcpip \union InMailbox \union InHand : f < arrived + 2
    <3>1. \A f \in InTcpip \union InMailbox \union InHand : f \in Nat /\ f < arrived + 1
      BY <1>0, StagesAreNumbers DEF StageOrder, Older, Coming, IInv
    <3> QED BY <1>3, <3>1
  <2> QED BY <1>0, <1>1, <1>2, <2>4, <2>5, <2>6 DEF OrderInv, StageOrder, Older
<1> QED BY <1>4, <1>5

LEMMA FreeBufferOrder ==
    ASSUME EthConstants, IInv, FreeReceiveBuffer
    PROVE  OrderInv'
<1>0. /\ TypeOK /\ HandInv /\ PlaceInv /\ RingOrder /\ MailOrder /\ StageOrder /\ ContentInv
      /\ Available \in 0 .. RingSize /\ RingSize \in Nat
  BY AvailableType DEF IInv, OrderInv, EthConstants
<1>1. /\ InTcpip' = InTcpip /\ InMailbox' = InMailbox /\ MailOrder'
  BY <1>0, StagesKept DEF FreeReceiveBuffer, poolVars, tcpipVars
<1>2. /\ Available >= 1 /\ Available' = Available - 1
      /\ \A k \in 0 .. RingSize - 1 : InRing(k)' = InRing(k + 1)
  BY BufferFreed
<1>3. \A k \in Ready' : k + 1 \in Ready /\ k \in Int /\ RingFrame(k)' = RingFrame(k + 1)
  BY <1>0, <1>2 DEF Ready, RingFrame, FreeReceiveBuffer
<1>4. arrived' = arrived BY DEF FreeReceiveBuffer
<1>5. RingOrder' BY <1>0, <1>3, <1>4 DEF RingOrder
<1>6. 0 \in Ready /\ RingFrame(0) = buffer[rxDescrPtr]
  BY <1>0, <1>2, RingPlaces DEF Ready, RingFrame
<1>7. InHand' = {RingFrame(0)} /\ InHand = {}
  BY <1>0, <1>6 DEF FreeReceiveBuffer, InHand, ContentInv, poolVars, RecvGoto
<1>8. Coming' \subseteq Coming BY <1>3, <1>4 DEF Coming
<1>9. Older(InHand, Coming)'
  <2>1. ASSUME NEW k \in Ready' PROVE RingFrame(0) < RingFrame(k)'
    <3>1. k + 1 \in Ready /\ 0 < k + 1 /\ RingFrame(k)' = RingFrame(k + 1)
      BY <1>0, <1>2, <1>3 DEF Ready
    <3> QED BY <1>0, <1>6, <3>1 DEF RingOrder
  <2>2. RingFrame(0) < arrived + 1 BY <1>0, <1>6, FramesAreNumbers DEF RingOrder
  <2> QED BY <1>4, <1>7, <2>1, <2>2 DEF Older, Coming
<1>10. RingFrame(0) \in Coming BY <1>6 DEF Coming
<1> QED BY <1>0, <1>1, <1>5, <1>7, <1>8, <1>9, <1>10 DEF OrderInv, StageOrder, Older

\* A copy changes the receive task's pbuf only, which is on no stage yet.
LEMMA CopyOrder ==
    ASSUME EthConstants, IInv, CopyFrame \/ CopyRest
    PROVE  OrderInv'
<1>0. TypeOK /\ PlaceInv /\ RingOrder /\ MailOrder /\ StageOrder BY DEF IInv, OrderInv
<1>1. \A b \in Pbufs : b # recvPbuf => payload'[b] = payload[b]
  BY <1>0 DEF CopyFrame, CopyRest, TypeOK
<1>2. InTcpip' = InTcpip /\ InMailbox' = InMailbox /\ MailOrder'
  BY <1>0, <1>1, StagesKept DEF CopyFrame, CopyRest, tcpipVars
<1>3. RingOrder' /\ Coming' = Coming
  BY <1>0, RingOrderKept DEF CopyFrame, CopyRest, ringVars
<1>4. InHand' = {} BY DEF CopyFrame, CopyRest, InHand, RecvGoto
<1>5. StageOrder' BY <1>0, <1>2, <1>3, <1>4, StagesShrink
<1> QED BY <1>2, <1>3, <1>5 DEF OrderInv

LEMMA PostPacketOrder ==
    ASSUME EthConstants, EthCapacity, IInv, PostPacket
    PROVE  OrderInv'
<1>0. TypeOK /\ HandInv /\ PlaceInv /\ MsgInv /\ RingOrder /\ MailOrder /\ StageOrder
  BY DEF IInv, OrderInv
<1>1. RingOrder' /\ Coming' = Coming
  BY <1>0, RingOrderKept DEF PostPacket, ringVars
<1>2. recvPbuf \in Pbufs BY <1>0 DEF PostPacket, HandInv
<1>3. mbox' = Append(mbox, Packet(recvPbuf))
  BY <1>0, MailboxHasRoom DEF PostPacket
<1>4. /\ Len(mbox) \in Nat /\ Len(mbox') = Len(mbox) + 1
      /\ \A i \in 1 .. Len(mbox) : mbox'[i] = mbox[i]
      /\ mbox'[Len(mbox) + 1] = Packet(recvPbuf)
  BY <1>0, <1>2, <1>3, PacketType DEF TypeOK
<1>5. /\ Mailed' = Mailed \union {Len(mbox) + 1}
      /\ \A i \in Mailed : i \in Nat /\ i < Len(mbox) + 1
  BY <1>2, <1>4, PacketType DEF Mailed, IsPacket
<1>6. payload' = payload /\ UNCHANGED <<tcpipPc, tcpipMsg>> BY DEF PostPacket, poolVars, tcpipVars
<1>7. /\ \A i \in Mailed : MailFrame(i)' = MailFrame(i)
      /\ \A i \in {Len(mbox) + 1} : MailFrame(i)' = payload[recvPbuf][1]
  BY <1>2, <1>4, <1>5, <1>6, PacketType DEF MailFrame, Mailed
<1>8. InHand = {payload[recvPbuf][1]} /\ InHand' = {}
  BY DEF PostPacket, InHand, RecvGoto
<1>9. InMailbox' = InMailbox \union InHand
  BY <1>5, <1>7, <1>8 DEF InMailbox
<1>10. InTcpip' = InTcpip BY <1>6 DEF InTcpip, TcpipHas
<1>11. \A i \in Mailed : MailFrame(i) \in InMailbox BY DEF InMailbox
<1>12. MailOrder'
  <2>1. SUFFICES ASSUME NEW i \in Mailed', NEW j \in Mailed', i < j
                 PROVE  MailFrame(i)' < MailFrame(j)'
    BY DEF MailOrder
  <2>2. i \in Mailed BY <1>4, <1>5, <2>1
  <2>3. CASE j \in Mailed BY <1>0, <1>7, <2>1, <2>2, <2>3 DEF MailOrder
  <2>4. CASE j = Len(mbox) + 1
    <3>1. MailFrame(j)' \in InHand BY <1>7, <1>8, <2>4
    <3>2. MailFrame(i) \in InMailbox /\ MailFrame(i)' = MailFrame(i) BY <1>7, <1>11, <2>2
    <3> QED BY <1>0, <3>1, <3>2 DEF StageOrder, Older
  <2> QED BY <1>5, <2>3, <2>4
<1>13. StageOrder' BY <1>0, <1>1, <1>8, <1>9, <1>10 DEF StageOrder, Older
<1> QED BY <1>1, <1>12, <1>13 DEF OrderInv

LEMMA TcpipFetchOrder ==
    ASSUME EthConstants, IInv, TcpipFetch
    PROVE  OrderInv'
<1>0. TypeOK /\ PlaceInv /\ RingOrder /\ MailOrder /\ StageOrder BY DEF IInv, OrderInv
<1>1. RingOrder' /\ Coming' = Coming
  BY <1>0, RingOrderKept DEF TcpipFetch, ringVars
<1>2. InHand' = InHand BY DEF TcpipFetch, InHand, recvVars, poolVars
<1>3. payload' = payload BY DEF TcpipFetch, poolVars
<1>4. /\ Len(mbox) \in Nat /\ Len(mbox) >= 1 /\ Len(mbox') = Len(mbox) - 1
      /\ \A i \in 1 .. Len(mbox') : mbox'[i] = mbox[i + 1]
      /\ tcpipMsg' = mbox[1]
  BY <1>0 DEF TcpipFetch, TypeOK
<1>5. \A i \in Mailed' : /\ i \in Nat /\ i >= 1 /\ i + 1 \in Mailed
                         /\ MailFrame(i)' = MailFrame(i + 1)
  BY <1>3, <1>4 DEF Mailed, MailFrame, IsPacket
<1>6. InMailbox' \subseteq InMailbox
  BY <1>5 DEF InMailbox
<1>7. MailOrder' BY <1>0, <1>5 DEF MailOrder
<1>8. ASSUME NEW f \in InTcpip' PROVE 1 \in Mailed /\ f = MailFrame(1)
  <2>1. PICK b \in Pbufs : TcpipHas(b)' /\ f = payload[b][1] BY <1>3 DEF InTcpip
  <2>2. mbox[1] = Packet(b) BY <1>4, <2>1 DEF TcpipHas
  <2> QED BY <1>4, <2>1, <2>2, PacketType DEF Mailed, IsPacket, MailFrame
<1>9. InTcpip' \subseteq InMailbox BY <1>8 DEF InMailbox
<1>10. Older(InTcpip, InMailbox)'
  <2>1. SUFFICES ASSUME NEW f \in InTcpip', NEW i \in Mailed' PROVE f < MailFrame(i)'
    BY DEF Older, InMailbox
  <2>2. 1 < i + 1 /\ i + 1 \in Mailed /\ 1 \in Mailed BY <1>5, <1>8
  <2> QED BY <1>0, <1>5, <1>8, <2>2 DEF MailOrder
<1>11. StageOrder' BY <1>0, <1>1, <1>2, <1>6, <1>9, <1>10 DEF StageOrder, Older
<1> QED BY <1>1, <1>7, <1>11 DEF OrderInv

\* A message that is no frame leaves the frames where they are.
LEMMA PostCallbackOrder ==
    ASSUME EthConstants, EthCapacity, IInv, PostCallback
    PROVE  OrderInv'
<1>0. TypeOK /\ PlaceInv /\ MsgInv /\ RingOrder /\ MailOrder /\ StageOrder BY DEF IInv, OrderInv
<1>1. RingOrder' /\ Coming' = Coming
  BY <1>0, RingOrderKept DEF PostCallback, ringVars
<1>2. mbox' = Append(mbox, Callback) BY <1>0, MailboxHasRoom DEF PostCallback
<1>3. /\ Len(mbox) \in Nat /\ Len(mbox') = Len(mbox) + 1
      /\ \A i \in 1 .. Len(mbox) : mbox'[i] = mbox[i]
      /\ mbox'[Len(mbox) + 1] = Callback
  BY <1>0, <1>2, CallbackType DEF TypeOK
<1>4. Mailed' = Mailed BY <1>3, CallbackType DEF Mailed, IsPacket
<1>5. payload' = payload /\ UNCHANGED <<tcpipPc, tcpipMsg, recvPbuf>>
  BY DEF PostCallback, poolVars, tcpipVars
<1>6. \A i \in Mailed : MailFrame(i)' = MailFrame(i) BY <1>3, <1>5 DEF MailFrame, Mailed
<1>7. MailOrder' /\ InMailbox' = InMailbox BY <1>0, <1>4, <1>6 DEF MailOrder, InMailbox
<1>8. InTcpip' = InTcpip BY <1>5 DEF InTcpip, TcpipHas
<1>9. InHand' = {} BY DEF PostCallback, InHand, RecvGoto
<1>10. StageOrder' BY <1>0, <1>1, <1>7, <1>8, <1>9, StagesShrink
<1> QED BY <1>1, <1>7, <1>10 DEF OrderInv

LEMMA OrderStep ==
    ASSUME EthConstants, EthCapacity, IInv, Next
    PROVE  OrderInv'
<1> USE DEF RecvGoto, ringVars, poolVars, recvVars, tcpipVars
<1>0. TypeOK /\ PlaceInv /\ RingOrder /\ MailOrder /\ StageOrder BY DEF IInv, OrderInv
<1>1. CASE /\ UNCHANGED <<own, buffer, rxDescrPtr, arrived, payload, mbox>>
           /\ InTcpip' \subseteq InTcpip /\ InHand' \subseteq InHand
  <2>1. RingOrder' /\ Coming' = Coming BY <1>0, <1>1, RingOrderKept
  <2>2. InMailbox' = InMailbox /\ MailOrder'
    BY <1>0, <1>1 DEF InMailbox, Mailed, MailFrame, MailOrder
  <2>3. StageOrder' BY <1>0, <1>1, <2>1, <2>2, StagesShrink
  <2> QED BY <2>1, <2>2, <2>3 DEF OrderInv
<1>2. CASE TcpipPacket \/ TcpipCallback \/ Reclaim \/ TcpipFreeMsg
  <2>1. InTcpip' = {}
    BY <1>2 DEF TcpipPacket, TcpipCallback, Reclaim, TcpipFreeMsg, InTcpip, TcpipHas
  <2>2. InHand' = InHand
    BY <1>2 DEF TcpipPacket, TcpipCallback, Reclaim, TcpipFreeMsg, InHand
  <2> QED BY <1>1, <1>2, <2>1, <2>2 DEF TcpipPacket, TcpipCallback, Reclaim, TcpipFreeMsg
<1>3. CASE ISR_RxEth \/ AppFrees \/ RecvTake \/ LowLevelInput \/ PoolIsEmpty \/ CallbackMsg
           \/ Unpend \/ EthernetifInput \/ RecvFreePbuf
  <2>1. InTcpip' = InTcpip
    BY <1>3 DEF ISR_RxEth, AppFrees, RecvTake, LowLevelInput, PoolIsEmpty, CallbackMsg, Unpend,
                EthernetifInput, RecvFreePbuf, InTcpip, TcpipHas
  <2>2. InHand' \subseteq InHand
    BY <1>3 DEF ISR_RxEth, AppFrees, RecvTake, LowLevelInput, PoolIsEmpty, CallbackMsg, Unpend,
                EthernetifInput, RecvFreePbuf, InHand
  <2> QED BY <1>1, <1>3, <2>1, <2>2 DEF ISR_RxEth, AppFrees, RecvTake, LowLevelInput,
             PoolIsEmpty, CallbackMsg, Unpend, EthernetifInput, RecvFreePbuf
<1> QED BY <1>2, <1>3, DmaOrder, FreeBufferOrder, CopyOrder, PostPacketOrder, PostCallbackOrder,
           TcpipFetchOrder DEF Next, RecvStep, TcpipStep

\* What is copied is whole before anyone else can read it.
LEMMA ContentStep ==
    ASSUME EthConstants, EthCapacity, IInv, Next
    PROVE  ContentInv'
<1> USE DEF RecvGoto, ringVars, poolVars, recvVars, tcpipVars
<1>0. /\ TypeOK /\ HandInv /\ PlaceInv /\ MsgInv /\ RingInv /\ TokensHaveFrames /\ ContentInv
      /\ \A b \in Pbufs : TcpipHas(b) \/ Queued(b) => b # recvPbuf
  BY DEF IInv, PlaceInv, Truth
<1>1. CASE DmaReceive
  <2>1. recvPc \in {"copyRest", "freeBuffer"} => buffer'[rxDescrPtr] = buffer[rxDescrPtr]
    <3>1. SUFFICES ASSUME recvPc \in {"copyRest", "freeBuffer"}, own[dmaPtr]
                   PROVE  dmaPtr # rxDescrPtr
      BY <1>0, <1>1 DEF DmaReceive, TypeOK
    <3>2. Available \in 0 .. RingSize /\ RingSize \in Nat BY AvailableType DEF EthConstants
    <3>3. Available >= 1 BY <1>0, <3>1, <3>2 DEF TokensHaveFrames, Truth, TypeOK, EthConstants
    <3>4. 0 \in Descriptors /\ InRing(0) = rxDescrPtr
      BY <1>0, RingPlaces DEF EthConstants, Descriptors
    <3>5. ~own[rxDescrPtr] BY <1>0, <3>2, <3>3, <3>4 DEF RingInv
    <3> QED BY <3>1, <3>5
  <2>2. UNCHANGED <<mbox, payload, recvPc, recvPbuf, tcpipPc, tcpipMsg, rxDescrPtr>>
    BY <1>1 DEF DmaReceive
  <2> QED BY <1>0, <2>1, <2>2 DEF ContentInv, TcpipHas, Queued
<1>2. CASE CopyFrame \/ CopyRest
  <2>1. /\ \A b \in Pbufs : b # recvPbuf => payload'[b] = payload[b]
        /\ \A b \in Pbufs : TcpipHas(b)' <=> TcpipHas(b)
        /\ \A b \in Pbufs : Queued(b)' <=> Queued(b)
    BY <1>0, <1>2 DEF CopyFrame, CopyRest, TypeOK, TcpipHas, Queued
  <2>2. recvPbuf \in Pbufs BY <1>0, <1>2 DEF CopyFrame, CopyRest, HandInv
  <2>3. CASE CopyFrame
    <3>1. payload'[recvPbuf][1] = buffer[rxDescrPtr] BY <1>0, <2>2, <2>3 DEF CopyFrame, TypeOK
    <3> QED BY <1>0, <2>1, <2>3, <3>1 DEF CopyFrame, ContentInv
  <2>4. CASE CopyRest
    <3>1. payload'[recvPbuf][1] = payload[recvPbuf][1] /\ payload'[recvPbuf][2] = buffer[rxDescrPtr]
      BY <1>0, <2>2, <2>4 DEF CopyRest, TypeOK
    <3> QED BY <1>0, <2>1, <2>4, <3>1 DEF CopyRest, ContentInv
  <2> QED BY <1>2, <2>3, <2>4
<1>3. CASE PostPacket
  <2>0. recvPbuf \in Pbufs BY <1>0, <1>3 DEF PostPacket, HandInv
  <2>1. mbox' = Append(mbox, Packet(recvPbuf)) BY <1>0, <1>3, MailboxHasRoom DEF PostPacket
  <2>2. \A b \in Pbufs : Queued(b)' => Queued(b) \/ b = recvPbuf
    BY <1>0, <2>0, <2>1, PacketType DEF Queued, Packet, TypeOK
  <2> QED BY <1>0, <1>3, <2>2 DEF PostPacket, ContentInv, TcpipHas
<1>4. CASE PostCallback
  <2>1. mbox' = Append(mbox, Callback) BY <1>0, <1>4, MailboxHasRoom DEF PostCallback
  <2>2. \A b \in Pbufs : Queued(b)' => Queued(b)
    BY <1>0, <2>1, CallbackType, PacketType DEF Queued, TypeOK
  <2> QED BY <1>0, <1>4, <2>2 DEF PostCallback, ContentInv, TcpipHas
<1>5. CASE TcpipFetch
  <2>1. /\ Len(mbox) \in Nat /\ Len(mbox) >= 1 /\ Len(mbox') = Len(mbox) - 1
        /\ \A i \in 1 .. Len(mbox') : mbox'[i] = mbox[i + 1]
        /\ tcpipMsg' = mbox[1]
    BY <1>0, <1>5 DEF TcpipFetch, TypeOK
  <2>2. \A b \in Pbufs : TcpipHas(b)' \/ Queued(b)' => Queued(b)
    BY <2>1 DEF TcpipHas, Queued
  <2> QED BY <1>0, <1>5, <2>2 DEF TcpipFetch, ContentInv
<1>6. CASE TcpipPacket \/ TcpipCallback \/ Reclaim \/ TcpipFreeMsg
  BY <1>0, <1>6 DEF TcpipPacket, TcpipCallback, Reclaim, TcpipFreeMsg, ContentInv, TcpipHas, Queued
<1>7. CASE FreeReceiveBuffer \/ EthernetifInput
  BY <1>0, <1>7 DEF FreeReceiveBuffer, EthernetifInput, ContentInv, TcpipHas, Queued
<1>8. CASE ISR_RxEth \/ AppFrees \/ RecvTake \/ LowLevelInput \/ PoolIsEmpty \/ CallbackMsg
           \/ Unpend \/ RecvFreePbuf
  BY <1>0, <1>8 DEF ISR_RxEth, AppFrees, RecvTake, LowLevelInput, PoolIsEmpty, CallbackMsg, Unpend,
                    RecvFreePbuf, ContentInv, TcpipHas, Queued
<1> QED BY <1>1, <1>2, <1>3, <1>4, <1>5, <1>6, <1>7, <1>8 DEF Next, RecvStep, TcpipStep
-----------------------------------------------------------------------------
(* The theorems *)

LEMMA IInvKept == ASSUME IInv, UNCHANGED vars PROVE IInv'
<1> USE DEF vars, ringVars, poolVars, recvVars, tcpipVars, stackVars
<1>1. TypeOK' /\ HandInv' BY DEF IInv, TypeOK, HandInv
<1>2. Available' = Available /\ \A type : InMbox(type)' = InMbox(type) BY DEF Available, InMbox
<1>3. TokensHaveFrames' BY <1>2 DEF IInv, TokensHaveFrames
<1>4. RingInv' BY <1>2 DEF IInv, RingInv, InRing
<1>5. PlaceInv'
  <2>1. \A b \in Pbufs : Places(b)' = 1 BY PlacesKept DEF IInv, PlaceInv, Places
  <2> QED BY <2>1 DEF IInv, PlaceInv, Places, IsPacket
<1>6. MsgInv' /\ PendingInv' BY <1>2 DEF IInv, MsgInv, PendingInv, TcpipHolds
<1>7. RingOrder' /\ Coming' = Coming BY RingOrderKept DEF IInv, OrderInv
<1>8. /\ MailOrder' /\ InMailbox' = InMailbox /\ InTcpip' = InTcpip /\ InHand' = InHand
  BY DEF IInv, OrderInv, MailOrder, InMailbox, Mailed, MailFrame, InTcpip, TcpipHas, InHand
<1>9. OrderInv' BY <1>7, <1>8, StagesShrink DEF IInv, OrderInv
<1>10. ContentInv' BY DEF IInv, ContentInv, TcpipHas, Queued
<1> QED BY <1>1, <1>3, <1>4, <1>5, <1>6, <1>9, <1>10 DEF IInv

LEMMA Invariance == ASSUME EthConstants, EthCapacity PROVE Spec => []IInv
<1>1. Init => IInv BY InitIInv
<1>2. IInv /\ [Next]_vars => IInv'
  <2>1. SUFFICES ASSUME IInv, Next PROVE IInv' BY IInvKept
  <2> QED BY <2>1, TypeOKStep, HandInvStep, TokensStep, RingInvStep, PlaceInvStep, MsgInvStep,
            PendingStep, OrderStep, ContentStep DEF IInv
<1> QED BY <1>1, <1>2, PTL DEF Spec

\* Every token of the semaphore and every pass of ethernetif_recv has a frame
\* in the ring, so that no pass finds it empty and no give of ISR_RxEth is
\* lost, for a ring no longer than the semaphore counts.
THEOREM TokensBacked == Spec => []TokensHaveFrames
<1>1. IInv => TokensHaveFrames BY DEF IInv
<1> QED BY <1>1, EthConstants, EthCapacity, Invariance, PTL

\* Frames reach the stack whole, once and in the order they arrived, for any
\* ring, pools and mailbox: low_level_input copies only what the DMA has
\* written and does not own, and nothing on the way overtakes.
THEOREM InOrder == Spec => []FramesInOrder
<1>1. IInv => FramesInOrder
  <2> SUFFICES ASSUME IInv PROVE FramesInOrder OBVIOUS
  <2>1. /\ TypeOK /\ RingInv /\ RingOrder /\ MailOrder /\ StageOrder /\ ContentInv
        /\ Available \in 0 .. RingSize
    BY AvailableType, EthConstants DEF IInv, OrderInv
  <2>2. \A k \in Ready : ~own[InRing(k)]
    <3>1. \A k \in Ready : k \in Descriptors /\ k < Available
      BY <2>1, EthConstants DEF Ready, Descriptors, EthConstants
    <3> QED BY <2>1, <3>1 DEF RingInv, Descriptors, EthConstants, Ready
  <2>3. {RingFrame(k) : k \in Ready} \subseteq Coming BY DEF Coming
  <2>4. \A b \in Pbufs :
          (TcpipHas(b) \/ \E i \in 1 .. Len(mbox) : mbox[i] = Packet(b)) =>
             payload[b][1] = payload[b][2]
    BY <2>1 DEF ContentInv, Queued
  <2> QED BY <2>1, <2>2, <2>3, <2>4 DEF RingOrder, MailOrder, StageOrder, Older, FramesInOrder
<1> QED BY <1>1, EthConstants, EthCapacity, Invariance, PTL

\* Exactly one holder of each pbuf, by number.
LEMMA PlacesCounted ==
    ASSUME PlaceInv, NEW b \in Pbufs
    PROVE  /\ Cardinality({c \in Pcbs : b \in ooseq[c]}) = Truth(Kept(b))
           /\ Cardinality({i \in 1 .. Len(mbox) : mbox[i] = Packet(b)}) = Truth(Queued(b))
<1> DEFINE C == {c \in Pcbs : b \in ooseq[c]}
           I == {i \in 1 .. Len(mbox) : mbox[i] = Packet(b)}
<1>1. Cardinality(C) = Truth(Kept(b))
  <2>1. CASE Kept(b)
    <3>1. PICK c \in Pcbs : b \in ooseq[c] BY <2>1 DEF Kept
    <3>2. C = {c} BY <3>1 DEF PlaceInv
    <3>3. Cardinality({c}) = 1 BY FS_Singleton
    <3>4. Cardinality(C) = 1 BY <3>2, <3>3, Zenon
    <3> QED BY <2>1, <3>4 DEF Truth
  <2>2. CASE ~Kept(b)
    <3>1. C = {} BY <2>2 DEF Kept
    <3>2. Cardinality(C) = 0 BY <3>1, FS_EmptySet, Zenon
    <3> QED BY <2>2, <3>2 DEF Truth
  <2> QED BY <2>1, <2>2
<1>2. Cardinality(I) = Truth(Queued(b))
  <2>1. CASE Queued(b)
    <3>1. PICK i \in 1 .. Len(mbox) : mbox[i] = Packet(b) BY <2>1 DEF Queued
    <3>2. I = {i} BY <3>1, PacketType DEF PlaceInv, IsPacket
    <3>3. Cardinality({i}) = 1 BY FS_Singleton
    <3>4. Cardinality(I) = 1 BY <3>2, <3>3, Zenon
    <3> QED BY <2>1, <3>4 DEF Truth
  <2>2. CASE ~Queued(b)
    <3>1. I = {} BY <2>2 DEF Queued
    <3>2. Cardinality(I) = 0 BY <3>1, FS_EmptySet, Zenon
    <3> QED BY <2>2, <3>2 DEF Truth
  <2> QED BY <2>1, <2>2
<1> QED BY <1>1, <1>2

\* No pbuf is lost or has two holders, no message is dropped although
\* sys_mbox_trypost could drop one, and the request to reclaim segments is
\* never left behind: for any number of pbufs, connections and messages for
\* which the mailbox has a place each.
THEOREM Conserved == Spec => []PoolsConserved
<1>1. IInv => PoolsConserved
  <2> SUFFICES ASSUME IInv PROVE PoolsConserved OBVIOUS
  <2>1. TypeOK /\ PlaceInv /\ MsgInv /\ PendingInv BY DEF IInv
  <2>2. ASSUME NEW b \in Pbufs
        PROVE  Truth(b \in pool) + Truth(b = recvPbuf) + Truth(TcpipHas(b)) + Truth(b \in inApp)
                 + Cardinality({c \in Pcbs : b \in ooseq[c]})
                 + Cardinality({i \in 1 .. Len(mbox) : mbox[i] = Packet(b)}) = 1
    BY <2>1, PlacesCounted DEF PlaceInv
  <2> QED BY <2>1, <2>2 DEF PoolsConserved, MsgInv, PendingInv
<1> QED BY <1>1, EthConstants, EthCapacity, Invariance, PTL
=============================================================================
