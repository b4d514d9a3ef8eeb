--------------------------- MODULE CanUartProofs ---------------------------
(***************************************************************************)
(* Proofs about Uart and CanUart for FIFOs of any size, messages of any    *)
(* length, long ones while an earlier one is being sent too, and any way   *)
(* of numbering the bytes: what is printed comes out whole and in order.   *)
(***************************************************************************)
EXTENDS CanUart, SequenceTheorems, TLAPS

-----------------------------------------------------------------------------
(* Remainders *)

LEMMA Remainder ==
    ASSUME NEW N \in Nat \ {0}, NEW a \in Int, NEW q \in Int, NEW r \in 0 .. N - 1, a = N * q + r
    PROVE  a % N = r
<1>1. /\ a % N \in 0 .. N - 1 /\ a \div N \in Int /\ a = N * (a \div N) + (a % N)
  OBVIOUS
<1> DEFINE d == (a \div N) - q
<1>2. d \in Int /\ N * d = r - (a % N) BY <1>1
<1> HIDE DEF d
<1>3. CASE d >= 1
  <2>1. N * d >= N BY <1>2, <1>3
  <2> QED BY <1>1, <1>2, <2>1
<1>4. CASE d <= -1
  <2>1. N * d <= -N BY <1>2, <1>4
  <2> QED BY <1>1, <1>2, <2>1
<1>5. CASE d = 0 BY <1>1, <1>2, <1>5
<1> QED BY <1>2, <1>3, <1>4, <1>5

LEMMA RemainderOfSum ==
    ASSUME NEW N \in Nat \ {0}, NEW a \in Int, NEW b \in Int
    PROVE  ((a % N) + b) % N = (a + b) % N
<1>1. /\ a % N \in 0 .. N - 1 /\ a \div N \in Int /\ a = N * (a \div N) + (a % N)
  OBVIOUS
<1>2. /\ (a + b) % N \in 0 .. N - 1 /\ (a + b) \div N \in Int
      /\ a + b = N * ((a + b) \div N) + ((a + b) % N)
  OBVIOUS
<1>3. (a % N) + b = N * ((a + b) \div N - a \div N) + ((a + b) % N)
  BY <1>1, <1>2
<1>4. (a + b) \div N - a \div N \in Int /\ (a % N) + b \in Int BY <1>1, <1>2
<1> QED BY <1>2, <1>3, <1>4, Remainder

\* The number of a byte, and the place of a byte in the buffer.
Num(i) == i % Numbers
Slot(i) == i % FifoSize

LEMMA NumFacts ==
    ASSUME UartConstants, NEW a \in Int
    PROVE  Num(a) \in Byte /\ \A b \in Int : Num(Num(a) + b) = Num(a + b)
<1>0. Numbers \in Nat \ {0} BY DEF UartConstants
<1>1. Num(a) \in Byte BY <1>0 DEF Num, Byte
<1>2. \A b \in Int : Num(Num(a) + b) = Num(a + b) BY <1>0, RemainderOfSum DEF Num
<1> QED BY <1>1, <1>2

LEMMA SlotFacts ==
    ASSUME UartConstants, NEW a \in Int
    PROVE  /\ Slot(a) \in 0 .. FifoSize - 1
           /\ \A b \in Int : Slot(Slot(a) + b) = Slot(a + b)
           /\ a \in 0 .. FifoSize - 1 => Slot(a) = a
           /\ a \in FifoSize .. 2 * FifoSize - 1 => Slot(a) = a - FifoSize
<1>0. FifoSize \in Nat \ {0} BY DEF UartConstants
<1>1. Slot(a) \in 0 .. FifoSize - 1 BY <1>0 DEF Slot
<1>2. \A b \in Int : Slot(Slot(a) + b) = Slot(a + b) BY <1>0, RemainderOfSum DEF Slot
<1>3. a \in 0 .. FifoSize - 1 => Slot(a) = a BY <1>0 DEF Slot
<1>4. a \in FifoSize .. 2 * FifoSize - 1 => Slot(a) = a - FifoSize
  <2> SUFFICES ASSUME a \in FifoSize .. 2 * FifoSize - 1 PROVE a % FifoSize = a - FifoSize
    BY DEF Slot
  <2>1. a = FifoSize * 1 + (a - FifoSize) /\ a - FifoSize \in 0 .. FifoSize - 1 BY <1>0
  <2> QED BY <1>0, <2>1, Remainder
<1> QED BY <1>1, <1>2, <1>3, <1>4

LEMMA SmallerFacts ==
    ASSUME NEW m \in Int, NEW n \in Int
    PROVE  /\ Smaller(m, n) \in {m, n} /\ Smaller(m, n) <= m /\ Smaller(m, n) <= n
BY DEF Smaller

-----------------------------------------------------------------------------
(* The invariant *)

WriterOK ==
    writer \in [pc : WriterPCs, data : Seq(Byte), todo : Seq(Byte),
                index : 0 .. FifoSize - 1, block : 0 .. FifoSize]

\* The bytes in the buffer, with those the writer has copied there but not yet
\* counted.
Copied == count + (IF WriterAt("end") THEN writer.block ELSE 0)

\* The writer's index is where the next byte goes, though endIndex is brought up
\* to date only when all of a message is in; it writes into free places only.
PlacesInv ==
    /\ writer.pc \in {"begin", "copy", "wait", "initiate"} => writer.index = Slot(startIndex + count)
    /\ writer.pc = "end" => writer.index = Slot(startIndex + count + writer.block)
    /\ writer.pc \in {"idle", "first"} => endIndex = Slot(startIndex + count)
    /\ writer.pc \in {"copy", "end"} => count + writer.block <= FifoSize
    /\ writer.pc = "copy" => writer.block <= Len(writer.data)
    /\ writer.pc \in {"idle", "initiate", "first"} => writer.data = <<>>
    /\ writer.pc = "idle" => writer.todo = <<>>

\* While txInProgress is clear the hardware FIFO is empty and no interrupt is
\* requested, so none takes the byte the writer is about to send first.
SendingInv ==
    /\ ~txInProgress => hw = <<>> /\ ~request
    /\ request => hw = <<>>
    /\ writer.pc = "first" => txInProgress /\ hw = <<>> /\ ~request /\ count > 0

\* The bytes of a sequence are numbered one after another, from the one after
\* number first on.
Numbered(bytes, first) == \A i \in 1 .. Len(bytes) : bytes[i] = Num(first + i)

\* So are the parts of the stream, each from where the one before it ends.
StreamInv ==
    /\ Numbered(hw, wire)
    /\ \A i \in 1 .. Copied : buffer[Slot(startIndex + i - 1)] = Num(wire + Len(hw) + i)
    /\ Numbered(writer.data, wire + Len(hw) + Copied)
    /\ Numbered(writer.todo, wire + Len(hw) + Copied + Len(writer.data))
    /\ given = Num(wire + Len(hw) + Copied + Len(writer.data) + Len(writer.todo))

UInv == UartTypeOK /\ WriterOK /\ PlacesInv /\ SendingInv /\ StreamInv

\* What the types say, in the form the proofs need.
LEMMA UartTypes ==
    ASSUME UartConstants, UInv
    PROVE  /\ FifoSize \in Nat /\ FifoSize > 0 /\ HwSize \in Nat /\ HwSize > 0
           /\ buffer \in [0 .. FifoSize - 1 -> Byte]
           /\ startIndex \in 0 .. FifoSize - 1 /\ endIndex \in 0 .. FifoSize - 1
           /\ count \in 0 .. FifoSize /\ writerWaitx \in 0 .. FifoSize
           /\ hw \in Seq(Byte) /\ Len(hw) \in Nat /\ Len(hw) <= HwSize
           /\ Len(writer.data) \in Nat /\ Len(writer.todo) \in Nat
           /\ writer.data \in Seq(Byte) /\ writer.todo \in Seq(Byte)
           /\ writer.index \in 0 .. FifoSize - 1 /\ writer.block \in 0 .. FifoSize
           /\ wire \in Int /\ given \in Byte /\ wire \in Byte
           /\ Copied \in Nat
           /\ 0 \in Byte
<1>1. /\ FifoSize \in Nat /\ FifoSize > 0 /\ HwSize \in Nat /\ HwSize > 0 /\ Numbers \in Nat \ {0, 1}
  BY DEF UartConstants
<1>2. wire \in Int /\ wire \in Byte /\ 0 \in Byte BY <1>1 DEF UInv, UartTypeOK, Byte
<1>3. writer.block \in Nat /\ count \in Nat BY <1>1 DEF UInv, UartTypeOK
<1>4. Copied \in Nat BY <1>3 DEF Copied
<1>5. Len(hw) \in Nat /\ Len(writer.data) \in Nat /\ Len(writer.todo) \in Nat
  BY LenProperties DEF UInv, UartTypeOK
<1> QED BY <1>1, <1>2, <1>4, <1>5 DEF UInv, UartTypeOK

\* A writer of the right types with the other variables of the right types.
LEMMA TypesFromParts ==
    ASSUME UartConstants, WriterOK,
           /\ buffer \in [0 .. FifoSize - 1 -> Byte]
           /\ startIndex \in 0 .. FifoSize - 1 /\ endIndex \in 0 .. FifoSize - 1
           /\ count \in 0 .. FifoSize
           /\ writerWaitx \in 0 .. FifoSize
           /\ eventWriter \in BOOLEAN /\ txInProgress \in BOOLEAN /\ request \in BOOLEAN
           /\ hw \in Seq(Byte) /\ Len(hw) <= HwSize
           /\ given \in Byte /\ wire \in Byte
    PROVE  UartTypeOK
BY DEF UartTypeOK, WriterOK

LEMMA FourParts ==
    ASSUME NEW S, NEW a \in Seq(S), NEW b \in Seq(S), NEW c \in Seq(S), NEW e \in Seq(S),
           NEW s, s = a \o b \o c \o e
    PROVE  /\ s \in Seq(S) /\ Len(s) = Len(a) + Len(b) + Len(c) + Len(e)
           /\ \A i \in 1 .. Len(a) : s[i] = a[i]
           /\ \A i \in 1 .. Len(b) : s[Len(a) + i] = b[i]
           /\ \A i \in 1 .. Len(c) : s[Len(a) + Len(b) + i] = c[i]
           /\ \A i \in 1 .. Len(e) : s[Len(a) + Len(b) + Len(c) + i] = e[i]
<1>0. Len(a) \in Nat /\ Len(b) \in Nat /\ Len(c) \in Nat /\ Len(e) \in Nat BY LenProperties
<1> DEFINE ab == a \o b
           abc == ab \o c
           abce == abc \o e
<1>1. /\ ab \in Seq(S) /\ Len(ab) = Len(a) + Len(b)
      /\ \A i \in 1 .. Len(a) + Len(b) : ab[i] = IF i <= Len(a) THEN a[i] ELSE b[i - Len(a)]
  BY ConcatProperties
<1> HIDE DEF ab
<1>2. /\ abc \in Seq(S) /\ Len(abc) = Len(ab) + Len(c)
      /\ \A i \in 1 .. Len(ab) + Len(c) : abc[i] = IF i <= Len(ab) THEN ab[i] ELSE c[i - Len(ab)]
  <2>1. ab \in Seq(S) BY <1>1
  <2> QED BY <2>1, ConcatProperties
<1> HIDE DEF abc
<1>3. /\ abce \in Seq(S) /\ Len(abce) = Len(abc) + Len(e)
      /\ \A i \in 1 .. Len(abc) + Len(e) : abce[i] = IF i <= Len(abc) THEN abc[i] ELSE e[i - Len(abc)]
  <2>1. abc \in Seq(S) BY <1>2
  <2> QED BY <2>1, ConcatProperties
<1> HIDE DEF abce
<1>4. Len(abce) = Len(a) + Len(b) + Len(c) + Len(e) BY <1>0, <1>1, <1>2, <1>3
<1>5. \A i \in 1 .. Len(e) : abce[Len(a) + Len(b) + Len(c) + i] = e[i]
  <2> TAKE i \in 1 .. Len(e)
  <2>1. Len(a) + Len(b) + Len(c) + i = Len(abc) + i /\ Len(abc) \in Nat BY <1>0, <1>1, <1>2
  <2>2. /\ Len(abc) + i \in 1 .. Len(abc) + Len(e) /\ ~(Len(abc) + i <= Len(abc))
        /\ Len(abc) + i - Len(abc) = i
    BY <1>0, <2>1
  <2>3. abce[Len(abc) + i] = e[i] BY <1>3, <2>2
  <2> QED BY <2>1, <2>3
<1>6. \A i \in 1 .. Len(abc) : abce[i] = abc[i]
  <2> TAKE i \in 1 .. Len(abc)
  <2>1. i \in 1 .. Len(abc) + Len(e) /\ i <= Len(abc) BY <1>0, <1>1, <1>2
  <2> QED BY <1>3, <2>1
<1>7. \A i \in 1 .. Len(c) : abce[Len(a) + Len(b) + i] = c[i]
  <2> TAKE i \in 1 .. Len(c)
  <2>1. Len(a) + Len(b) + i = Len(ab) + i /\ Len(ab) \in Nat BY <1>0, <1>1
  <2>2. /\ Len(ab) + i \in 1 .. Len(abc) /\ ~(Len(ab) + i <= Len(ab))
        /\ Len(ab) + i - Len(ab) = i
    BY <1>0, <1>2, <2>1
  <2>3. abc[Len(ab) + i] = c[i] BY <1>2, <2>2
  <2> QED BY <1>6, <2>1, <2>2, <2>3
<1>8. \A i \in 1 .. Len(ab) : abce[i] = ab[i]
  <2> TAKE i \in 1 .. Len(ab)
  <2>1. i \in 1 .. Len(abc) /\ i <= Len(ab) BY <1>0, <1>1, <1>2
  <2>2. abc[i] = ab[i] BY <1>2, <2>1
  <2> QED BY <1>6, <2>1, <2>2
<1>9. \A i \in 1 .. Len(b) : abce[Len(a) + i] = b[i]
  <2> TAKE i \in 1 .. Len(b)
  <2>1. /\ Len(a) + i \in 1 .. Len(ab) /\ ~(Len(a) + i <= Len(a))
        /\ Len(a) + i - Len(a) = i
    BY <1>0, <1>1
  <2>2. ab[Len(a) + i] = b[i] BY <1>1, <2>1
  <2> QED BY <1>8, <2>1, <2>2
<1>10. \A i \in 1 .. Len(a) : abce[i] = a[i]
  <2> TAKE i \in 1 .. Len(a)
  <2>1. i \in 1 .. Len(ab) /\ i <= Len(a) BY <1>0, <1>1
  <2> QED BY <1>1, <1>8, <2>1
<1>11. s = abce BY DEF ab, abc, abce
<1> QED BY <1>3, <1>4, <1>5, <1>7, <1>9, <1>10, <1>11

\* The bytes of the buffer as a sequence.
LEMMA BytesFacts ==
    ASSUME UartConstants, buffer \in [0 .. FifoSize - 1 -> Byte],
           NEW s \in Int, NEW n \in Nat
    PROVE  /\ Bytes(s, n) \in Seq(Byte) /\ Len(Bytes(s, n)) = n
           /\ \A i \in 1 .. n : Bytes(s, n)[i] = buffer[Slot(s + i - 1)]
<1>1. Bytes(s, n) = [k \in 1 .. n |-> buffer[Slot(s + k - 1)]] BY DEF Bytes, Slot
<1>2. \A k \in 1 .. n : buffer[Slot(s + k - 1)] \in Byte
  <2> TAKE k \in 1 .. n
  <2>1. s + k - 1 \in Int OBVIOUS
  <2>2. Slot(s + k - 1) \in 0 .. FifoSize - 1 BY <2>1, SlotFacts
  <2> QED BY <2>2
<1>3. Bytes(s, n) \in [1 .. n -> Byte] BY <1>1, <1>2
<1>4. Bytes(s, n) \in Seq(Byte) BY <1>3, SeqDef
<1>5. Len(Bytes(s, n)) = n BY <1>3, <1>4, LenProperties
<1> QED BY <1>1, <1>4, <1>5

\* The sequence StreamWhole speaks of is made of these parts.
LEMMA StreamOfParts == ASSUME UartConstants, UInv PROVE StreamWhole
<1> DEFINE copied == IF WriterAt("end") THEN writer.block ELSE 0
           middle == Bytes(startIndex, count + copied)
           data == writer.data
           todo == writer.todo
           stream == hw \o middle \o data \o todo
           d == Len(data)
           e == Len(todo)
<1>0. /\ hw \in Seq(Byte) /\ Len(hw) \in Nat /\ d \in Nat /\ e \in Nat
      /\ data \in Seq(Byte) /\ todo \in Seq(Byte)
      /\ buffer \in [0 .. FifoSize - 1 -> Byte] /\ startIndex \in Int /\ wire \in Int
      /\ Copied \in Nat /\ count + copied = Copied
  BY UartTypes DEF Copied
<1> HIDE DEF d, e, data, todo
<1>5. /\ wire \in Int /\ Len(hw) \in Nat /\ Copied \in Nat
      /\ d \in Nat /\ e \in Nat
  BY <1>0
<1>1. /\ middle \in Seq(Byte) /\ Len(middle) = Copied
      /\ \A i \in 1 .. Copied : middle[i] = Num(wire + Len(hw) + i)
  <2>1. middle = Bytes(startIndex, Copied) BY <1>0
  <2>2. /\ Bytes(startIndex, Copied) \in Seq(Byte) /\ Len(Bytes(startIndex, Copied)) = Copied
        /\ \A i \in 1 .. Copied : Bytes(startIndex, Copied)[i] = buffer[Slot(startIndex + i - 1)]
    BY <1>0, BytesFacts
  <2>3. \A i \in 1 .. Copied : buffer[Slot(startIndex + i - 1)] = Num(wire + Len(hw) + i)
    BY DEF UInv, StreamInv
  <2> HIDE DEF middle
  <2> QED BY <2>1, <2>2, <2>3
<1> HIDE DEF middle, copied
<1>2. /\ stream \in Seq(Byte)
      /\ Len(stream) = Len(hw) + Copied + d + e
      /\ \A i \in 1 .. Len(hw) : stream[i] = hw[i]
      /\ \A i \in 1 .. Copied : stream[Len(hw) + i] = middle[i]
      /\ \A i \in 1 .. d : stream[Len(hw) + Copied + i] = data[i]
      /\ \A i \in 1 .. e :
            stream[Len(hw) + Copied + d + i] = todo[i]
  <2>1. middle \in Seq(Byte) BY <1>1
  <2> HIDE DEF stream
  <2>0. hw \in Seq(Byte) /\ data \in Seq(Byte) /\ todo \in Seq(Byte) BY <1>0
  <2>4. stream = hw \o middle \o data \o todo BY DEF stream
  <2>2. /\ stream \in Seq(Byte)
        /\ Len(stream) = Len(hw) + Len(middle) + Len(data) + Len(todo)
        /\ \A i \in 1 .. Len(hw) : stream[i] = hw[i]
        /\ \A i \in 1 .. Len(middle) : stream[Len(hw) + i] = middle[i]
        /\ \A i \in 1 .. Len(data) : stream[Len(hw) + Len(middle) + i] = data[i]
        /\ \A i \in 1 .. Len(todo) :
              stream[Len(hw) + Len(middle) + Len(data) + i] = todo[i]
    BY <2>0, <2>1, <2>4, FourParts
  <2>3. Len(middle) = Copied BY <1>1
  <2> QED BY <2>2, <2>3 DEF d, e
<1> HIDE DEF stream
<1>3. ASSUME NEW i \in DOMAIN stream PROVE stream[i] = Num(wire + i)
  <2>0. i \in 1 .. Len(hw) + Copied + d + e BY <1>2, LenProperties
  <2>1. CASE i <= Len(hw)
    <3>1. i \in 1 .. Len(hw) BY <1>0, <2>0, <2>1
    <3> QED BY <1>2, <3>1 DEF UInv, StreamInv, Numbered, d, e, data, todo
  <2>2. CASE i > Len(hw) /\ i <= Len(hw) + Copied
    <3>1. PICK j \in 1 .. Copied : i = Len(hw) + j /\ wire + Len(hw) + j = wire + i
      <4>1. /\ i - Len(hw) \in 1 .. Copied /\ i = Len(hw) + (i - Len(hw))
            /\ wire + Len(hw) + (i - Len(hw)) = wire + i
        BY <1>5, <2>0, <2>2
      <4> QED BY <4>1
    <3> QED BY <1>1, <1>2, <3>1
  <2>3. CASE i > Len(hw) + Copied /\ i <= Len(hw) + Copied + d
    <3>1. PICK j \in 1 .. d : /\ i = Len(hw) + Copied + j
                                             /\ wire + Len(hw) + Copied + j = wire + i
      <4> DEFINE j == i - (Len(hw) + Copied)
      <4>1. /\ j \in 1 .. d /\ i = Len(hw) + Copied + j
            /\ wire + Len(hw) + Copied + j = wire + i
        BY <1>5, <2>0, <2>3
      <4> QED BY <4>1
    <3> QED BY <1>2, <3>1 DEF UInv, StreamInv, Numbered, d, e, data, todo
  <2>4. CASE i > Len(hw) + Copied + d
    <3>1. PICK j \in 1 .. e :
              /\ i = Len(hw) + Copied + d + j
              /\ wire + Len(hw) + Copied + d + j = wire + i
      <4> DEFINE j == i - (Len(hw) + Copied + d)
      <4>1. /\ j \in 1 .. e /\ i = Len(hw) + Copied + d + j
            /\ wire + Len(hw) + Copied + d + j = wire + i
        BY <1>5, <2>0, <2>4
      <4> QED BY <4>1
    <3> QED BY <1>2, <3>1 DEF UInv, StreamInv, Numbered, d, e, data, todo
  <2> QED BY <1>5, <2>0, <2>1, <2>2, <2>3, <2>4
<1>4. given = Num(wire + Len(stream))
  <2>1. wire + Len(stream) = wire + Len(hw) + Copied + d + e
    BY <1>5, <1>2
  <2> QED BY <2>1 DEF UInv, StreamInv, Numbered, d, e, data, todo
<1> QED BY <1>3, <1>4 DEF StreamWhole, Num, stream, data, todo, middle, copied

-----------------------------------------------------------------------------
(* Sequences of numbered bytes *)

LEMMA NumberedEmpty == ASSUME NEW first PROVE Numbered(<<>>, first)
BY DEF Numbered

LEMMA NumberedFrom ==
    ASSUME UartConstants, NEW bytes \in Seq(Byte), NEW a \in Int, NEW k \in Int
    PROVE  Numbered(bytes, Num(a) + k) <=> Numbered(bytes, a + k)
<1>0. Len(bytes) \in Nat BY LenProperties
<1>1. ASSUME NEW i \in 1 .. Len(bytes) PROVE Num(Num(a) + k + i) = Num(a + k + i)
  <2>1. Num(a) \in Int BY NumFacts DEF Byte, UartConstants
  <2>2. k + i \in Int /\ Num(a) + k + i = Num(a) + (k + i) /\ a + k + i = a + (k + i)
    BY <1>0, <2>1
  <2> QED BY <2>2, NumFacts
<1> QED BY <1>1 DEF Numbered

LEMMA NumberedTail ==
    ASSUME NEW bytes \in Seq(Byte), bytes # <<>>, NEW first \in Int, Numbered(bytes, first)
    PROVE  /\ Head(bytes) = Num(first + 1)
           /\ Tail(bytes) \in Seq(Byte) /\ Len(Tail(bytes)) = Len(bytes) - 1
           /\ Numbered(Tail(bytes), first + 1)
<1>0. Len(bytes) \in Nat /\ Len(bytes) >= 1 BY EmptySeq, LenProperties
<1>1. Head(bytes) = bytes[1] OBVIOUS
<1>2. /\ Tail(bytes) \in Seq(Byte) /\ Len(Tail(bytes)) = Len(bytes) - 1
      /\ \A i \in 1 .. Len(Tail(bytes)) : Tail(bytes)[i] = bytes[i + 1]
  BY HeadTailProperties
<1>3. ASSUME NEW i \in 1 .. Len(Tail(bytes)) PROVE Tail(bytes)[i] = Num(first + 1 + i)
  <2>1. i + 1 \in 1 .. Len(bytes) /\ first + (i + 1) = first + 1 + i BY <1>0, <1>2
  <2>2. bytes[i + 1] = Num(first + (i + 1)) BY <2>1 DEF Numbered
  <2> QED BY <1>2, <2>1, <2>2
<1>4. bytes[1] = Num(first + 1) BY <1>0 DEF Numbered
<1> QED BY <1>1, <1>2, <1>3, <1>4 DEF Numbered

LEMMA NumberedConcat ==
    ASSUME NEW bytes \in Seq(Byte), NEW more \in Seq(Byte), NEW first \in Int,
           Numbered(bytes, first), Numbered(more, first + Len(bytes))
    PROVE  /\ bytes \o more \in Seq(Byte) /\ Len(bytes \o more) = Len(bytes) + Len(more)
           /\ Numbered(bytes \o more, first)
<1>0. Len(bytes) \in Nat /\ Len(more) \in Nat BY LenProperties
<1> DEFINE all == bytes \o more
<1>1. /\ all \in Seq(Byte) /\ Len(all) = Len(bytes) + Len(more)
      /\ \A i \in 1 .. Len(bytes) + Len(more) :
            all[i] = IF i <= Len(bytes) THEN bytes[i] ELSE more[i - Len(bytes)]
  BY ConcatProperties
<1> HIDE DEF all
<1>2. ASSUME NEW i \in 1 .. Len(all) PROVE all[i] = Num(first + i)
  <2>1. CASE i <= Len(bytes)
    <3>1. i \in 1 .. Len(bytes) /\ i \in 1 .. Len(bytes) + Len(more) BY <1>0, <1>1, <2>1
    <3> QED BY <1>1, <2>1, <3>1 DEF Numbered
  <2>2. CASE ~(i <= Len(bytes))
    <3>1. PICK j \in 1 .. Len(more) : i = Len(bytes) + j /\ first + Len(bytes) + j = first + i
      <4> DEFINE j == i - Len(bytes)
      <4>1. j \in 1 .. Len(more) /\ i = Len(bytes) + j /\ first + Len(bytes) + j = first + i
        BY <1>0, <1>1, <2>2
      <4> QED BY <4>1
    <3>2. i \in 1 .. Len(bytes) + Len(more) /\ i - Len(bytes) = j BY <1>0, <1>1, <3>1
    <3>3. all[i] = more[j] BY <1>1, <2>2, <3>2
    <3>4. more[j] = Num(first + Len(bytes) + j) BY <3>1 DEF Numbered
    <3> QED BY <3>1, <3>3, <3>4
  <2> QED BY <2>1, <2>2
<1>3. Numbered(all, first) BY <1>2 DEF Numbered
<1> QED BY <1>1, <1>3 DEF all

\* A message cut in two.
LEMMA NumberedParts ==
    ASSUME NEW bytes \in Seq(Byte), NEW first \in Int, Numbered(bytes, first),
           NEW m \in 0 .. Len(bytes)
    PROVE  /\ SubSeq(bytes, 1, m) \in Seq(Byte) /\ Len(SubSeq(bytes, 1, m)) = m
           /\ Numbered(SubSeq(bytes, 1, m), first)
           /\ SubSeq(bytes, m + 1, Len(bytes)) \in Seq(Byte)
           /\ Len(SubSeq(bytes, m + 1, Len(bytes))) = Len(bytes) - m
           /\ Numbered(SubSeq(bytes, m + 1, Len(bytes)), first + m)
<1>0. Len(bytes) \in Nat /\ m \in Int BY LenProperties
<1>1. \A i \in 1 .. Len(bytes) : bytes[i] \in Byte BY ElementOfSeq
<1> DEFINE a == SubSeq(bytes, 1, m)
           b == SubSeq(bytes, m + 1, Len(bytes))
<1>2. /\ a \in Seq(Byte) /\ Len(a) = IF 1 <= m THEN m - 1 + 1 ELSE 0
      /\ \A i \in 1 .. m - 1 + 1 : a[i] = bytes[1 + i - 1]
  <2>1. \A i \in 1 .. m : bytes[i] \in Byte BY <1>0, <1>1
  <2> QED BY <1>0, <2>1, SubSeqProperties
<1>3. /\ b \in Seq(Byte) /\ Len(b) = IF m + 1 <= Len(bytes) THEN Len(bytes) - (m + 1) + 1 ELSE 0
      /\ \A i \in 1 .. Len(bytes) - (m + 1) + 1 : b[i] = bytes[m + 1 + i - 1]
  <2>1. \A i \in m + 1 .. Len(bytes) : bytes[i] \in Byte BY <1>0, <1>1
  <2>2. m + 1 \in Int /\ Len(bytes) \in Int BY <1>0
  <2> QED BY <2>1, <2>2, SubSeqProperties
<1> HIDE DEF a, b
<1>4. Len(a) = m /\ Len(b) = Len(bytes) - m BY <1>0, <1>2, <1>3
<1>5. ASSUME NEW i \in 1 .. Len(a) PROVE a[i] = Num(first + i)
  <2>1. i \in 1 .. m - 1 + 1 /\ i \in 1 .. Len(bytes) /\ 1 + i - 1 = i BY <1>0, <1>4
  <2> QED BY <1>2, <2>1 DEF Numbered
<1>6. ASSUME NEW i \in 1 .. Len(b) PROVE b[i] = Num(first + m + i)
  <2>1. /\ i \in 1 .. Len(bytes) - (m + 1) + 1 /\ m + 1 + i - 1 = m + i
        /\ m + i \in 1 .. Len(bytes) /\ first + (m + i) = first + m + i
    BY <1>0, <1>4
  <2>2. b[i] = bytes[m + i] BY <1>3, <2>1
  <2>3. bytes[m + i] = Num(first + (m + i)) BY <2>1 DEF Numbered
  <2> QED BY <2>1, <2>2, <2>3
<1>7. Numbered(a, first) /\ Numbered(b, first + m) BY <1>5, <1>6 DEF Numbered
<1> QED BY <1>2, <1>3, <1>4, <1>7 DEF a, b

-----------------------------------------------------------------------------
(* Steps of the writer *)

\* Steps that move no byte.
LEMMA StreamAlone ==
    ASSUME StreamInv, UNCHANGED <<buffer, startIndex, hw, given, wire>>,
           writer'.data = writer.data, writer'.todo = writer.todo, Copied' = Copied
    PROVE  StreamInv'
BY DEF StreamInv

\* A message is cut in at most two parts and is numbered on from the last.
LEMMA StartPrintStep ==
    ASSUME UartConstants, UInv, NEW n \in Nat \ {0}, StartPrint(n)
    PROVE  UInv'
<1> DEFINE message == [i \in 1 .. n |-> (given + i) % Numbers]
           part == IF ~txInProgress THEN Smaller(n, FifoSize) ELSE n
           end == wire + Len(hw) + count
<1>0. /\ UNCHANGED <<buffer, startIndex, endIndex, count, writerWaitx, eventWriter,
                     txInProgress, hw, request, wire>>
      /\ writer.pc = "idle"
      /\ given' = Num(given + n)
      /\ writer' = [pc |-> "begin", data |-> SubSeq(message, 1, part),
                    todo |-> SubSeq(message, part + 1, n), index |-> endIndex, block |-> 0]
  BY DEF StartPrint, fifoVars, Num
<1>1. /\ Len(hw) \in Nat /\ count \in Nat /\ wire \in Int /\ given \in Byte /\ given \in Int
      /\ end \in Int /\ Copied = count
      /\ endIndex \in 0 .. FifoSize - 1 /\ 0 \in 0 .. FifoSize /\ FifoSize \in Nat
      /\ FifoSize > 0
  <2>1. /\ Len(hw) \in Nat /\ count \in 0 .. FifoSize /\ wire \in Int /\ given \in Byte
        /\ endIndex \in 0 .. FifoSize - 1 /\ FifoSize \in Nat /\ FifoSize > 0
    BY UartTypes
  <2>2. Numbers \in Nat BY DEF UartConstants
  <2>3. given \in Int BY <2>1, <2>2 DEF Byte
  <2>4. Copied = count BY <1>0, <2>1 DEF Copied, WriterAt
  <2> QED BY <2>1, <2>3, <2>4
<1>2. given = Num(end)
  <2>1. Len(writer.data) = 0 /\ Len(writer.todo) = 0 BY <1>0, EmptySeq DEF UInv, PlacesInv
  <2>2. end + 0 + 0 = end BY <1>1
  <2> QED BY <1>1, <2>1, <2>2 DEF UInv, StreamInv
<1>3. message \in Seq(Byte) /\ Len(message) = n /\ Numbered(message, end)
  <2>1. \A i \in 1 .. n : (given + i) % Numbers = Num(end + i) /\ Num(end + i) \in Byte
    <3> TAKE i \in 1 .. n
    <3>1. end + i \in Int /\ Num(given + i) = Num(end + i) BY <1>1, <1>2, NumFacts
    <3> QED BY <3>1, NumFacts DEF Num
  <2>2. message \in [1 .. n -> Byte] BY <2>1
  <2>3. message \in Seq(Byte) BY <2>2, SeqDef
  <2>4. Len(message) = n BY <2>2, <2>3, LenProperties
  <2> QED BY <2>1, <2>3, <2>4 DEF Numbered
<1>4. part \in 0 .. n BY <1>1, SmallerFacts DEF Smaller
<1> HIDE DEF message, part
<1> DEFINE data == SubSeq(message, 1, part)
           todo == SubSeq(message, part + 1, n)
<1>5. /\ data \in Seq(Byte) /\ Len(data) = part /\ Numbered(data, end)
      /\ todo \in Seq(Byte) /\ Len(todo) = n - part /\ Numbered(todo, end + part)
  <2> HIDE DEF end
  <2>1. end \in Int /\ part \in 0 .. Len(message) /\ message \in Seq(Byte) /\ Numbered(message, end)
    BY <1>1, <1>3, <1>4
  <2>2. /\ data \in Seq(Byte) /\ Len(data) = part /\ Numbered(data, end)
        /\ SubSeq(message, part + 1, Len(message)) \in Seq(Byte)
        /\ Len(SubSeq(message, part + 1, Len(message))) = Len(message) - part
        /\ Numbered(SubSeq(message, part + 1, Len(message)), end + part)
    BY <2>1, NumberedParts
  <2>3. Len(message) = n BY <1>3
  <2> QED BY <2>2, <2>3
<1> HIDE DEF data, todo
<1>6. writer' = [pc |-> "begin", data |-> data, todo |-> todo, index |-> endIndex, block |-> 0]
  BY <1>0 DEF data, todo
<1>7. WriterOK' BY <1>1, <1>5, <1>6 DEF WriterOK, WriterPCs
<1>8. UartTypeOK'
  <2>1. given' \in Byte BY <1>0, <1>1, NumFacts
  <2> QED BY <1>0, <1>7, <2>1 DEF UInv, UartTypeOK, WriterOK
<1>9. PlacesInv' BY <1>0, <1>6 DEF UInv, PlacesInv
<1>10. SendingInv' BY <1>0, <1>6 DEF UInv, SendingInv
<1>11. StreamInv'
  <2>1. Copied' = count /\ writer'.data = data /\ writer'.todo = todo
    BY <1>0, <1>1, <1>6 DEF Copied, WriterAt
  <2>2. given' = Num(end + n) BY <1>0, <1>1, <1>2, NumFacts
  <2>3. end + part + (n - part) = end + n BY <1>1, <1>4
  <2>4. Numbered(hw, wire)
        /\ \A i \in 1 .. count : buffer[Slot(startIndex + i - 1)] = Num(wire + Len(hw) + i)
    BY <1>1 DEF UInv, StreamInv
  <2> QED BY <1>0, <1>5, <2>1, <2>2, <2>3, <2>4 DEF StreamInv
<1> QED BY <1>7, <1>8, <1>9, <1>10, <1>11 DEF UInv

LEMMA BeginWriteStep == ASSUME UartConstants, UInv, BeginWrite PROVE UInv'
<1> DEFINE left == Len(writer.data)
           block == Smaller(left, FifoSize - count)
<1>0. /\ UNCHANGED <<buffer, startIndex, endIndex, count, txInProgress, hw, request, given, wire>>
      /\ writer.pc = "begin"
      /\ writerWaitx' = Smaller(left - block, FifoSize)
      /\ eventWriter' = FALSE
      /\ writer' = [writer EXCEPT !.block = block, !.pc = IF block = 0 THEN "wait" ELSE "copy"]
  BY DEF BeginWrite, WriterAt
<1>1. left \in Nat /\ count \in 0 .. FifoSize /\ FifoSize \in Nat BY UartTypes
<1> HIDE DEF left
<1>2. block \in 0 .. FifoSize /\ block <= left /\ count + block <= FifoSize
  BY <1>1 DEF Smaller
<1>3. writerWaitx' \in 0 .. FifoSize BY <1>0, <1>1, <1>2 DEF Smaller
<1> HIDE DEF block
<1>4. /\ WriterOK'
      /\ writer'.pc \in {"wait", "copy"}
      /\ writer'.data = writer.data /\ writer'.todo = writer.todo
      /\ writer'.index = writer.index /\ writer'.block = block
  BY <1>0, <1>2 DEF UInv, WriterOK, WriterPCs
<1>5. UartTypeOK' BY <1>0, <1>3, <1>4 DEF UInv, UartTypeOK, WriterOK
<1>6. PlacesInv'
  <2>1. left = Len(writer'.data) BY <1>4 DEF left
  <2> QED BY <1>0, <1>2, <1>4, <2>1 DEF UInv, PlacesInv
<1>7. SendingInv' BY <1>0, <1>4 DEF UInv, SendingInv
<1>8. Copied' = Copied BY <1>0, <1>4 DEF Copied, WriterAt
<1>9. StreamInv' BY <1>0, <1>4, <1>8, StreamAlone DEF UInv
<1> QED BY <1>4, <1>5, <1>6, <1>7, <1>9 DEF UInv

\* Places of the buffer, i and j bytes behind its first one.
LEMMA PlaceOf ==
    ASSUME UartConstants, NEW s \in 0 .. FifoSize - 1, NEW i \in 0 .. FifoSize
    PROVE  Slot(s + i) = IF s + i < FifoSize THEN s + i ELSE s + i - FifoSize
<1>0. FifoSize \in Nat /\ FifoSize > 0 BY DEF UartConstants
<1>1. CASE s + i < FifoSize
  <2>1. s + i \in Int /\ s + i \in 0 .. FifoSize - 1 BY <1>0, <1>1
  <2> QED BY <1>1, <2>1, SlotFacts
<1>2. CASE ~(s + i < FifoSize)
  <2>1. s + i \in Int /\ s + i \in FifoSize .. 2 * FifoSize - 1 BY <1>0, <1>2
  <2> QED BY <1>2, <2>1, SlotFacts
<1> QED BY <1>1, <1>2

\* Ifx_CircularBuffer_write8 writes the places behind the bytes in the buffer
\* and no other.
LEMMA CopyInStep == ASSUME UartConstants, UInv, CopyIn PROVE UInv'
<1> DEFINE block == writer.block
           data == writer.data
           rest == SubSeq(data, block + 1, Len(data))
<1>0. /\ UNCHANGED <<startIndex, endIndex, count, writerWaitx, eventWriter, txInProgress,
                     hw, request, given, wire>>
      /\ writer.pc = "copy"
      /\ buffer' = [i \in DOMAIN buffer |->
                      IF (i + FifoSize - writer.index) % FifoSize < block
                        THEN data[((i + FifoSize - writer.index) % FifoSize) + 1] ELSE buffer[i]]
      /\ writer' = [writer EXCEPT !.pc = "end", !.index = (writer.index + block) % FifoSize,
                                  !.data = rest]
  BY DEF CopyIn, WriterAt
<1>1. /\ data \in Seq(Byte) /\ Len(data) \in Nat /\ block \in 0 .. FifoSize
      /\ FifoSize \in Nat /\ FifoSize > 0
      /\ startIndex \in 0 .. FifoSize - 1 /\ count \in 0 .. FifoSize
      /\ writer.index \in 0 .. FifoSize - 1 /\ wire \in Int /\ Len(hw) \in Nat
      /\ buffer \in [0 .. FifoSize - 1 -> Byte]
      /\ block <= Len(data) /\ count + block <= FifoSize
      /\ writer.index = Slot(startIndex + count)
      /\ Copied = count
  BY <1>0, UartTypes DEF UInv, PlacesInv, Copied, WriterAt
<1> HIDE DEF block, data
<1> DEFINE end == wire + Len(hw) + count
<1>2. Numbered(data, end) BY <1>1 DEF UInv, StreamInv, data
<1>3. end \in Int /\ block \in 0 .. Len(data) BY <1>1
<1>4. /\ rest \in Seq(Byte) /\ Len(rest) = Len(data) - block /\ Numbered(rest, end + block)
  BY <1>1, <1>2, <1>3, NumberedParts
<1> HIDE DEF rest
<1>5. /\ WriterOK' /\ writer'.pc = "end" /\ writer'.data = rest /\ writer'.todo = writer.todo
      /\ writer'.block = block /\ writer'.index = Slot(writer.index + block)
  <2>1. (writer.index + block) % FifoSize \in 0 .. FifoSize - 1 BY <1>1
  <2> QED BY <1>0, <1>4, <2>1 DEF UInv, WriterOK, WriterPCs, Slot, block
<1>6. ASSUME NEW i \in 0 .. FifoSize - 1, NEW j \in 0 .. FifoSize - 1, i = Slot(startIndex + j)
      PROVE  buffer'[i] = IF j >= count /\ j < count + block THEN data[j - count + 1] ELSE buffer[i]
  <2> DEFINE k == (i + FifoSize - writer.index) % FifoSize
  <2>1. i = IF startIndex + j < FifoSize THEN startIndex + j ELSE startIndex + j - FifoSize
    BY <1>1, <1>6, PlaceOf
  <2>2. writer.index = IF startIndex + count < FifoSize THEN startIndex + count
                                                        ELSE startIndex + count - FifoSize
    BY <1>1, PlaceOf
  <2>3. i + FifoSize - writer.index \in Int BY <1>1
  <2>4. k = IF j >= count THEN j - count ELSE j - count + FifoSize
    <3>1. CASE i + FifoSize - writer.index < FifoSize
      <4>1. i + FifoSize - writer.index \in 0 .. FifoSize - 1 BY <1>1, <3>1
      <4>2. k = i + FifoSize - writer.index BY <2>3, <4>1, SlotFacts DEF Slot
      <4> HIDE DEF k
      <4> QED BY <1>1, <2>1, <2>2, <3>1, <4>2
    <3>2. CASE ~(i + FifoSize - writer.index < FifoSize)
      <4>1. i + FifoSize - writer.index \in FifoSize .. 2 * FifoSize - 1 BY <1>1, <3>2
      <4>2. k = i - writer.index
        <5>1. PICK a \in Int : a = i + FifoSize - writer.index BY <2>3
        <5>2. Slot(a) = a - FifoSize BY <4>1, <5>1, SlotFacts
        <5>3. k = Slot(a) BY <5>1 DEF Slot
        <5> HIDE DEF k
        <5> QED BY <1>1, <5>1, <5>2, <5>3
      <4> HIDE DEF k
      <4>3. CASE startIndex + count < FifoSize
        <5>1. startIndex + j < FifoSize => k = j - count /\ j >= count
          BY <1>1, <2>1, <2>2, <3>2, <4>2, <4>3
        <5>2. startIndex + j >= FifoSize => k = j - count - FifoSize /\ i < writer.index
          BY <1>1, <2>1, <2>2, <4>2, <4>3
        <5> QED BY <1>1, <3>2, <5>1, <5>2
      <4>4. CASE ~(startIndex + count < FifoSize)
        <5>1. startIndex + j < FifoSize => k = j - count + FifoSize /\ j < count
          BY <1>1, <2>1, <2>2, <4>2, <4>4
        <5>2. startIndex + j >= FifoSize => k = j - count /\ j >= count
          BY <1>1, <2>1, <2>2, <3>2, <4>2, <4>4
        <5> QED BY <1>1, <5>1, <5>2
      <4> QED BY <4>3, <4>4
    <3> QED BY <3>1, <3>2
  <2>5. buffer'[i] = IF k < block THEN data[k + 1] ELSE buffer[i] BY <1>0, <1>1
  <2> HIDE DEF k
  <2>6. CASE j >= count
    <3>1. k = j - count /\ k + 1 = j - count + 1 /\ (k < block <=> j < count + block)
      BY <1>1, <2>4, <2>6
    <3> QED BY <2>5, <2>6, <3>1
  <2>7. CASE ~(j >= count)
    <3>1. ~(k < block) BY <1>1, <2>4, <2>7
    <3> QED BY <2>5, <2>7, <3>1
  <2> QED BY <2>6, <2>7
<1>7. ASSUME NEW i \in 0 .. FifoSize - 1
      PROVE  \E j \in 0 .. FifoSize - 1 : i = Slot(startIndex + j)
  <2> DEFINE j == IF i >= startIndex THEN i - startIndex ELSE i - startIndex + FifoSize
  <2>1. j \in 0 .. FifoSize - 1 /\ j \in 0 .. FifoSize BY <1>1
  <2>2. i = IF startIndex + j < FifoSize THEN startIndex + j ELSE startIndex + j - FifoSize
    BY <1>1
  <2> HIDE DEF j
  <2>3. i = Slot(startIndex + j) BY <1>1, <2>1, <2>2, PlaceOf
  <2> QED BY <2>1, <2>3
<1>8. buffer' \in [0 .. FifoSize - 1 -> Byte]
  <2>1. ASSUME NEW i \in 0 .. FifoSize - 1 PROVE buffer'[i] \in Byte
    <3>1. PICK j \in 0 .. FifoSize - 1 : i = Slot(startIndex + j) BY <1>7
    <3>2. buffer'[i] = IF j >= count /\ j < count + block THEN data[j - count + 1] ELSE buffer[i]
      BY <1>6, <3>1
    <3>3. CASE j >= count /\ j < count + block
      <4>1. j - count + 1 \in 1 .. Len(data) BY <1>1, <3>3
      <4>2. data[j - count + 1] \in Byte BY <1>1, <4>1, ElementOfSeq
      <4> QED BY <3>2, <3>3, <4>2
    <3>4. CASE ~(j >= count /\ j < count + block)
      <4>1. buffer'[i] = buffer[i] BY <3>2, <3>4
      <4> QED BY <1>1, <4>1
    <3> QED BY <3>3, <3>4
  <2>2. buffer' = [i \in 0 .. FifoSize - 1 |-> buffer'[i]] BY <1>0, <1>1
  <2> QED BY <2>1, <2>2
<1>9. UartTypeOK' BY <1>0, <1>5, <1>8 DEF UInv, UartTypeOK, WriterOK
<1>10. PlacesInv'
  <2>1. writer'.index = Slot(startIndex + count + block)
    <3>1. startIndex + count \in Int BY <1>1
    <3> QED BY <1>1, <1>5, <3>1, SlotFacts
  <2> QED BY <1>0, <1>1, <1>5, <2>1 DEF PlacesInv
<1>11. SendingInv' BY <1>0, <1>5 DEF UInv, SendingInv
<1>12. StreamInv'
  <2>1. Copied' = count + block BY <1>0, <1>5 DEF Copied, WriterAt
  <2>2. ASSUME NEW i \in 1 .. count + block
        PROVE  buffer'[Slot(startIndex + i - 1)] = Num(wire + Len(hw) + i)
    <3> DEFINE j == i - 1
               slot == Slot(startIndex + j)
    <3>1. j \in 0 .. FifoSize - 1 /\ startIndex + i - 1 = startIndex + j /\ startIndex + j \in Int
      BY <1>1
    <3>2. slot \in 0 .. FifoSize - 1 BY <3>1, SlotFacts
    <3> HIDE DEF slot
    <3>3. buffer'[slot] = IF j >= count /\ j < count + block THEN data[j - count + 1] ELSE buffer[slot]
      BY <1>6, <3>1, <3>2 DEF slot
    <3>4. CASE i <= count
      <4>1. i \in 1 .. count /\ ~(j >= count) BY <1>1, <3>4
      <4>2. buffer[Slot(startIndex + i - 1)] = Num(wire + Len(hw) + i)
        BY <1>1, <4>1 DEF UInv, StreamInv
      <4> QED BY <3>1, <3>3, <4>1, <4>2 DEF slot
    <3>5. CASE ~(i <= count)
      <4>1. /\ j >= count /\ j < count + block /\ j - count + 1 = i - count
            /\ i - count \in 1 .. Len(data) /\ end + (i - count) = wire + Len(hw) + i
        BY <1>1, <3>5
      <4>2. data[i - count] = Num(end + (i - count)) BY <1>2, <4>1 DEF Numbered
      <4> QED BY <3>1, <3>3, <4>1, <4>2 DEF slot
    <3> QED BY <3>4, <3>5
  <2>3. /\ wire + Len(hw) + (count + block) = end + block
        /\ end + block + (Len(data) - block) = end + Len(data)
    BY <1>1
  <2>4. Numbered(hw, wire) /\ Numbered(writer.todo, end + Len(data))
        /\ given = Num(end + Len(data) + Len(writer.todo))
    BY <1>1 DEF UInv, StreamInv, data
  <2> HIDE DEF end
  <2> QED BY <1>0, <1>4, <1>5, <2>1, <2>2, <2>3, <2>4 DEF StreamInv
<1> QED BY <1>5, <1>9, <1>10, <1>11, <1>12 DEF UInv

\* Ifx_Fifo_endWrite counts what was copied.
LEMMA EndWriteStep == ASSUME UartConstants, UInv, EndWrite PROVE UInv'
<1> DEFINE block == writer.block
<1>0. /\ UNCHANGED <<buffer, startIndex, endIndex, writerWaitx, eventWriter, txInProgress,
                     hw, request, given, wire>>
      /\ writer.pc = "end"
      /\ count' = count + block
      /\ writer' = [writer EXCEPT !.block = 0,
                                  !.pc = IF writer.data = <<>> THEN "initiate" ELSE "wait"]
  BY DEF EndWrite, WriterAt
<1>1. /\ block \in 0 .. FifoSize /\ count \in 0 .. FifoSize /\ FifoSize \in Nat
      /\ startIndex \in 0 .. FifoSize - 1
      /\ count + block <= FifoSize
      /\ writer.index = Slot(startIndex + count + block)
      /\ Copied = count + block
  BY <1>0, UartTypes DEF UInv, PlacesInv, Copied, WriterAt
<1>2. /\ WriterOK'
      /\ writer'.pc \in {"wait", "initiate"} /\ (writer'.pc = "initiate" => writer.data = <<>>)
      /\ writer'.data = writer.data /\ writer'.todo = writer.todo
      /\ writer'.index = writer.index
  <2>1. 0 \in 0 .. FifoSize BY <1>1
  <2> QED BY <1>0, <2>1 DEF UInv, WriterOK, WriterPCs
<1> HIDE DEF block
<1>3. count' \in 0 .. FifoSize /\ startIndex + (count + block) = startIndex + count + block
  BY <1>0, <1>1
<1>4. UartTypeOK' BY <1>0, <1>2, <1>3 DEF UInv, UartTypeOK, WriterOK
<1>5. PlacesInv' BY <1>0, <1>1, <1>2, <1>3 DEF PlacesInv
<1>6. SendingInv' BY <1>0, <1>2 DEF UInv, SendingInv
<1>7. Copied' = Copied
  <2>1. Copied' = count' + 0 BY <1>2 DEF Copied, WriterAt
  <2> QED BY <1>0, <1>1, <2>1
<1>8. StreamInv' BY <1>0, <1>2, <1>7, StreamAlone DEF UInv
<1> QED BY <1>2, <1>4, <1>5, <1>6, <1>8 DEF UInv

LEMMA WaitForRoomStep == ASSUME UartConstants, UInv, WaitForRoom PROVE UInv'
<1>0. /\ UNCHANGED <<buffer, startIndex, endIndex, count, writerWaitx, eventWriter,
                     txInProgress, hw, request, given, wire>>
      /\ writer.pc = "wait"
      /\ writer' = [writer EXCEPT !.pc = "begin"]
  BY DEF WaitForRoom, WriterAt, fifoVars
<1>1. /\ WriterOK' /\ writer'.pc = "begin"
      /\ writer'.data = writer.data /\ writer'.todo = writer.todo
      /\ writer'.index = writer.index
  BY <1>0 DEF UInv, WriterOK, WriterPCs
<1>2. UartTypeOK' BY <1>0, <1>1 DEF UInv, UartTypeOK, WriterOK
<1>3. PlacesInv' BY <1>0, <1>1 DEF UInv, PlacesInv
<1>4. SendingInv' BY <1>0, <1>1 DEF UInv, SendingInv
<1>5. Copied' = Copied BY <1>0, <1>1 DEF Copied, WriterAt
<1>6. StreamInv' BY <1>0, <1>1, <1>5, StreamAlone DEF UInv
<1> QED BY <1>1, <1>2, <1>3, <1>4, <1>6 DEF UInv

\* The second part of a message takes the place of the first.
LEMMA NextPartFacts ==
    ASSUME UartConstants, UInv, NEW index \in 0 .. FifoSize - 1, writer' = NextPart(index),
           writer.data = <<>>,
           NEW end \in Int, end = wire + Len(hw) + Copied
    PROVE  /\ WriterOK' /\ writer'.pc \in {"idle", "begin"}
           /\ writer'.pc = "begin" => writer'.index = index
           /\ writer'.pc = "idle" => writer'.data = <<>>
           /\ writer'.todo = <<>>
           /\ Numbered(writer'.data, end)
           /\ Numbered(writer'.todo, end + Len(writer'.data))
           /\ given = Num(end + Len(writer'.data) + Len(writer'.todo))
<1>0. FifoSize \in Nat /\ FifoSize > 0 /\ Len(writer.todo) \in Nat BY UartTypes
<1>1. writer'.data = writer.todo /\ writer'.todo = <<>> BY DEF NextPart, WriterIdle, UInv, WriterOK
<1>2. WriterOK'
  <2>1. 0 \in 0 .. FifoSize /\ 0 \in 0 .. FifoSize - 1 BY <1>0
  <2> QED BY <2>1 DEF NextPart, WriterIdle, UInv, WriterOK, WriterPCs
<1>3. /\ writer'.pc \in {"idle", "begin"}
      /\ writer'.pc = "begin" => writer'.index = index
      /\ writer'.pc = "idle" => writer'.data = <<>>
  BY DEF NextPart, WriterIdle, UInv, WriterOK
<1>4. Len(writer.data) = 0 /\ Len(writer'.todo) = 0 BY <1>1, EmptySeq
<1>5. Numbered(writer.todo, end + 0) /\ given = Num(end + 0 + Len(writer.todo))
  BY <1>4 DEF UInv, StreamInv
<1>6. end + 0 = end /\ end + Len(writer.todo) + 0 = end + 0 + Len(writer.todo) BY <1>0
<1> QED BY <1>1, <1>2, <1>3, <1>4, <1>5, <1>6, NumberedEmpty

\* endIndex is brought up to date; the transmission is begun if the FIFO was
\* not being sent.
LEMMA InitiateStep == ASSUME UartConstants, UInv, Initiate PROVE UInv'
<1> DEFINE end == wire + Len(hw) + count
<1>0. /\ UNCHANGED <<buffer, startIndex, count, writerWaitx, eventWriter, hw, request, given, wire>>
      /\ writer.pc = "initiate"
      /\ endIndex' = writer.index
  BY DEF Initiate, WriterAt
<1>1. /\ writer.index \in 0 .. FifoSize - 1 /\ writer.index = Slot(startIndex + count)
      /\ count \in 0 .. FifoSize /\ FifoSize \in Nat /\ wire \in Int /\ Len(hw) \in Nat
      /\ writer.data = <<>> /\ Copied = count /\ end \in Int
  <2>1. /\ writer.index \in 0 .. FifoSize - 1 /\ count \in 0 .. FifoSize
        /\ FifoSize \in Nat /\ wire \in Int /\ Len(hw) \in Nat
    BY UartTypes
  <2>2. count \in Nat /\ Copied = count + 0 BY <1>0, <2>1 DEF Copied, WriterAt
  <2> QED BY <1>0, <2>1, <2>2 DEF UInv, PlacesInv
<1>2. CASE ~txInProgress /\ count > 0
  <2>1. txInProgress' = TRUE /\ writer' = [writer EXCEPT !.pc = "first"]
    BY <1>2 DEF Initiate
  <2>2. /\ WriterOK' /\ writer'.pc = "first"
        /\ writer'.data = writer.data /\ writer'.todo = writer.todo
    BY <2>1 DEF UInv, WriterOK, WriterPCs
  <2>3. UartTypeOK' BY <1>0, <1>1, <2>1, <2>2 DEF UInv, UartTypeOK, WriterOK
  <2>4. PlacesInv' BY <1>0, <1>1, <2>2 DEF UInv, PlacesInv
  <2>5. SendingInv' BY <1>0, <1>2, <2>1 DEF UInv, SendingInv
  <2>6. Copied' = Copied BY <1>0, <2>2 DEF Copied, WriterAt
  <2>7. StreamInv' BY <1>0, <2>2, <2>6, StreamAlone DEF UInv
  <2> QED BY <2>2, <2>3, <2>4, <2>5, <2>7 DEF UInv
<1>3. CASE ~(~txInProgress /\ count > 0)
  <2>1. txInProgress' = txInProgress /\ writer' = NextPart(writer.index)
    BY <1>0, <1>3 DEF Initiate
  <2>2. end = wire + Len(hw) + Copied BY <1>1
  <2> HIDE DEF end
  <2>3. /\ WriterOK' /\ writer'.pc \in {"idle", "begin"}
        /\ writer'.pc = "begin" => writer'.index = writer.index
        /\ writer'.pc = "idle" => writer'.data = <<>>
        /\ writer'.todo = <<>>
        /\ Numbered(writer'.data, end)
        /\ Numbered(writer'.todo, end + Len(writer'.data))
        /\ given = Num(end + Len(writer'.data) + Len(writer'.todo))
    BY <1>1, <2>1, <2>2, NextPartFacts
  <2>4. UartTypeOK' BY <1>0, <1>1, <2>1, <2>3 DEF UInv, UartTypeOK, WriterOK
  <2>5. PlacesInv' BY <1>0, <1>1, <2>3 DEF PlacesInv
  <2>6. SendingInv' BY <1>0, <2>1, <2>3 DEF UInv, SendingInv
  <2>7. Copied' = count + 0 BY <1>0, <2>3 DEF Copied, WriterAt
  <2>8. Copied' = Copied BY <1>1, <2>7
  <2>9. StreamInv' BY <1>0, <2>2, <2>3, <2>8 DEF UInv, StreamInv
  <2> QED BY <2>3, <2>4, <2>5, <2>6, <2>9 DEF UInv
<1> QED BY <1>2, <1>3

-----------------------------------------------------------------------------
(* Steps of the interrupt and of the shift register *)

\* Ifx_Fifo_read takes the first n bytes in the buffer.
LEMMA ReadFifoFacts ==
    ASSUME UartConstants, UInv, NEW n \in Nat, n <= count, n <= HwSize - Len(hw), ReadFifo(n)
    PROVE  /\ buffer' = buffer /\ endIndex' = endIndex
           /\ startIndex' \in 0 .. FifoSize - 1 /\ count' = count - n /\ count' \in 0 .. FifoSize
           /\ \A k \in Int : Slot(startIndex' + k) = Slot(startIndex + n + k)
           /\ writerWaitx' \in 0 .. FifoSize /\ eventWriter' \in BOOLEAN
           /\ hw' \in Seq(Byte) /\ Len(hw') = Len(hw) + n /\ Len(hw') <= HwSize
           /\ Numbered(hw', wire)
           /\ \A i \in 1 .. Copied - n :
                 buffer'[Slot(startIndex' + i - 1)] = Num(wire + Len(hw') + i)
<1>0. /\ hw' = hw \o Bytes(startIndex, n)
      /\ startIndex' = Slot(startIndex + n)
      /\ count' = count - n
      /\ buffer' = buffer /\ endIndex' = endIndex
  BY DEF ReadFifo, Slot
<1>1. /\ FifoSize \in Nat /\ HwSize \in Nat /\ Len(hw) \in Nat
      /\ buffer \in [0 .. FifoSize - 1 -> Byte]
      /\ startIndex \in 0 .. FifoSize - 1 /\ count \in 0 .. FifoSize
      /\ writerWaitx \in 0 .. FifoSize
      /\ hw \in Seq(Byte) /\ wire \in Int /\ Copied \in Nat
  BY UartTypes
<1>2. startIndex \in Int /\ startIndex + n \in Int BY <1>1
<1>3. startIndex' \in 0 .. FifoSize - 1 BY <1>0, <1>2, SlotFacts
<1>4. \A k \in Int : Slot(startIndex' + k) = Slot(startIndex + n + k) BY <1>0, <1>2, SlotFacts
<1>5. count' \in 0 .. FifoSize BY <1>0, <1>1
<1>6. writerWaitx' \in 0 .. FifoSize BY <1>1 DEF ReadFifo, Smaller
<1>7. eventWriter' \in BOOLEAN
  <2>1. eventWriter' = TRUE \/ eventWriter' = eventWriter BY DEF ReadFifo
  <2>2. eventWriter \in BOOLEAN BY DEF UInv, UartTypeOK
  <2> QED BY <2>1, <2>2
<1>8. n <= Copied
  <2>1. writer.block \in Nat BY UartTypes
  <2> QED BY <1>1, <2>1 DEF Copied
<1> DEFINE taken == Bytes(startIndex, n)
<1>9. /\ taken \in Seq(Byte) /\ Len(taken) = n
      /\ \A i \in 1 .. n : taken[i] = buffer[Slot(startIndex + i - 1)]
  BY <1>1, <1>2, BytesFacts
<1> HIDE DEF taken
<1>10. Numbered(taken, wire + Len(hw))
  <2>1. ASSUME NEW i \in 1 .. Len(taken) PROVE taken[i] = Num(wire + Len(hw) + i)
    <3>1. i \in 1 .. n /\ i \in 1 .. Copied BY <1>1, <1>8, <1>9
    <3>2. buffer[Slot(startIndex + i - 1)] = Num(wire + Len(hw) + i)
      BY <3>1 DEF UInv, StreamInv
    <3> QED BY <1>9, <3>1, <3>2
  <2> QED BY <2>1 DEF Numbered
<1>11. /\ hw' \in Seq(Byte) /\ Len(hw') = Len(hw) + n /\ Numbered(hw', wire)
  <2>1. Numbered(hw, wire) BY DEF UInv, StreamInv
  <2>2. hw' = hw \o taken BY <1>0 DEF taken
  <2> QED BY <1>1, <1>9, <1>10, <2>1, <2>2, NumberedConcat
<1>12. Len(hw') <= HwSize BY <1>1, <1>11
<1>13. ASSUME NEW i \in 1 .. Copied - n
       PROVE  buffer'[Slot(startIndex' + i - 1)] = Num(wire + Len(hw') + i)
  <2>1. /\ n + i \in 1 .. Copied /\ i - 1 \in Int
        /\ startIndex' + i - 1 = startIndex' + (i - 1)
        /\ startIndex + n + (i - 1) = startIndex + (n + i) - 1
        /\ wire + Len(hw') + i = wire + Len(hw) + (n + i)
    BY <1>1, <1>3, <1>11
  <2>2. Slot(startIndex' + i - 1) = Slot(startIndex + (n + i) - 1) BY <1>4, <2>1
  <2>3. buffer[Slot(startIndex + (n + i) - 1)] = Num(wire + Len(hw) + (n + i))
    BY <2>1 DEF UInv, StreamInv
  <2> QED BY <1>0, <2>1, <2>2, <2>3
<1> QED BY <1>0, <1>3, <1>4, <1>5, <1>6, <1>7, <1>11, <1>12, <1>13

\* The first byte of a transmission is taken by the writer itself.
LEMMA FirstStep == ASSUME UartConstants, UInv, First PROVE UInv'
<1> DEFINE end == wire + Len(hw) + count
<1>0. /\ UNCHANGED <<txInProgress, request, given, wire>>
      /\ writer.pc = "first" /\ ReadFifo(1) /\ writer' = NextPart(endIndex)
  BY DEF First, WriterAt
<1>1. /\ FifoSize \in Nat /\ FifoSize > 0 /\ HwSize \in Nat /\ HwSize > 0
      /\ startIndex \in 0 .. FifoSize - 1 /\ endIndex \in 0 .. FifoSize - 1
      /\ count \in 0 .. FifoSize /\ wire \in Int /\ Len(hw) \in Nat
      /\ hw = <<>> /\ count > 0 /\ txInProgress /\ ~request
      /\ endIndex = Slot(startIndex + count) /\ writer.data = <<>>
  BY <1>0, UartTypes DEF UInv, PlacesInv, SendingInv
<1>2. Copied = count + 0 BY <1>0 DEF Copied, WriterAt
<1>3. Len(hw) = 0 BY <1>1, EmptySeq
<1>4. 1 \in Nat /\ 1 <= count /\ 1 <= HwSize - Len(hw) /\ Copied = count /\ end \in Int
  BY <1>1, <1>2, <1>3
<1>5. /\ buffer' = buffer /\ endIndex' = endIndex
      /\ startIndex' \in 0 .. FifoSize - 1 /\ count' = count - 1 /\ count' \in 0 .. FifoSize
      /\ \A k \in Int : Slot(startIndex' + k) = Slot(startIndex + 1 + k)
      /\ writerWaitx' \in 0 .. FifoSize /\ eventWriter' \in BOOLEAN
      /\ hw' \in Seq(Byte) /\ Len(hw') = Len(hw) + 1 /\ Len(hw') <= HwSize
      /\ Numbered(hw', wire)
      /\ \A i \in 1 .. Copied - 1 : buffer'[Slot(startIndex' + i - 1)] = Num(wire + Len(hw') + i)
  BY <1>0, <1>4, ReadFifoFacts
<1>6. end = wire + Len(hw) + Copied BY <1>4
<1>7. /\ WriterOK' /\ writer'.pc \in {"idle", "begin"}
      /\ writer'.pc = "begin" => writer'.index = endIndex
      /\ writer'.pc = "idle" => writer'.data = <<>>
      /\ writer'.todo = <<>>
      /\ Numbered(writer'.data, end)
      /\ Numbered(writer'.todo, end + Len(writer'.data))
      /\ given = Num(end + Len(writer'.data) + Len(writer'.todo))
  <2> HIDE DEF end
  <2> QED BY <1>0, <1>1, <1>4, <1>6, NextPartFacts
<1>8. UartTypeOK'
  <2>1. txInProgress' \in BOOLEAN /\ request' \in BOOLEAN /\ given' \in Byte /\ wire' \in Byte
    BY <1>0 DEF UInv, UartTypeOK
  <2>2. buffer' \in [0 .. FifoSize - 1 -> Byte] BY <1>5 DEF UInv, UartTypeOK
  <2>3. /\ writer'.pc \in WriterPCs /\ writer'.data \in Seq(Byte) /\ writer'.todo \in Seq(Byte)
        /\ writer'.index \in 0 .. FifoSize - 1 /\ writer'.block \in 0 .. FifoSize
    BY <1>7 DEF WriterOK
  <2>4. /\ startIndex' \in 0 .. FifoSize - 1 /\ endIndex' \in 0 .. FifoSize - 1
        /\ count' \in 0 .. FifoSize /\ writerWaitx' \in 0 .. FifoSize /\ eventWriter' \in BOOLEAN
        /\ hw' \in Seq(Byte) /\ Len(hw') <= HwSize
    BY <1>1, <1>5
  <2> QED BY <2>1, <2>2, <2>3, <2>4 DEF UartTypeOK
<1>9. Slot(startIndex' + count') = endIndex
  <2>1. count - 1 \in Int /\ startIndex + 1 + (count - 1) = startIndex + count BY <1>1
  <2> QED BY <1>1, <1>5, <2>1
<1>10. PlacesInv' BY <1>5, <1>7, <1>9 DEF PlacesInv
<1>11. SendingInv' BY <1>0, <1>1, <1>7 DEF SendingInv
<1>12. StreamInv'
  <2>1. Copied' = count' + 0 BY <1>7 DEF Copied, WriterAt
  <2>2. Copied' = count - 1 /\ Copied - 1 = count - 1 /\ wire' + Len(hw') + Copied' = end
    <3> DEFINE h == Len(hw)
               h2 == Len(hw')
    <3>1. h2 = h + 1 /\ h \in Nat BY <1>1, <1>5
    <3> HIDE DEF h, h2
    <3>2. wire' + h2 + Copied' = wire + h + count BY <1>0, <1>1, <1>5, <2>1, <3>1
    <3> QED BY <1>1, <1>4, <1>5, <2>1, <3>2 DEF h, h2
  <2> HIDE DEF end
  <2> QED BY <1>0, <1>5, <1>7, <2>2 DEF StreamInv
<1> QED BY <1>7, <1>8, <1>10, <1>11, <1>12 DEF UInv

\* The interrupt goes on with what has come in the meantime, or clears
\* txInProgress if there is nothing.
LEMMA IsrTransmitStep == ASSUME UartConstants, UInv, IsrTransmit PROVE UInv'
<1> DEFINE n == Smaller(count, HwSize - Len(hw))
           copied == IF WriterAt("end") THEN writer.block ELSE 0
<1>0. /\ UNCHANGED <<writer, given, wire>>
      /\ request /\ request' = FALSE /\ ReadFifo(n)
      /\ txInProgress' = (txInProgress /\ count > 0)
  BY DEF IsrTransmit
<1>1. /\ FifoSize \in Nat /\ FifoSize > 0 /\ HwSize \in Nat /\ HwSize > 0
      /\ startIndex \in 0 .. FifoSize - 1 /\ endIndex \in 0 .. FifoSize - 1
      /\ count \in 0 .. FifoSize /\ wire \in Int /\ Len(hw) \in Nat /\ Len(hw) <= HwSize
      /\ writer.block \in 0 .. FifoSize
  BY UartTypes
<1>2. hw = <<>> /\ txInProgress /\ writer.pc # "first" BY <1>0 DEF UInv, SendingInv
<1>3. n \in Nat /\ n <= count /\ n <= HwSize - Len(hw) BY <1>1 DEF Smaller
<1> HIDE DEF n
<1>4. copied \in Nat /\ Copied = count + copied BY <1>1 DEF Copied
<1>5. /\ buffer' = buffer /\ endIndex' = endIndex
      /\ startIndex' \in 0 .. FifoSize - 1 /\ count' = count - n /\ count' \in 0 .. FifoSize
      /\ \A k \in Int : Slot(startIndex' + k) = Slot(startIndex + n + k)
      /\ writerWaitx' \in 0 .. FifoSize /\ eventWriter' \in BOOLEAN
      /\ hw' \in Seq(Byte) /\ Len(hw') = Len(hw) + n /\ Len(hw') <= HwSize
      /\ Numbered(hw', wire)
      /\ \A i \in 1 .. Copied - n : buffer'[Slot(startIndex' + i - 1)] = Num(wire + Len(hw') + i)
  BY <1>0, <1>3, ReadFifoFacts
<1>6. WriterOK' BY <1>0 DEF UInv, WriterOK
<1>7. UartTypeOK'
  <2>1. txInProgress' \in BOOLEAN /\ request' \in BOOLEAN /\ given' \in Byte /\ wire' \in Byte
    BY <1>0 DEF UInv, UartTypeOK
  <2>2. buffer' \in [0 .. FifoSize - 1 -> Byte] BY <1>5 DEF UInv, UartTypeOK
  <2>3. /\ writer'.pc \in WriterPCs /\ writer'.data \in Seq(Byte) /\ writer'.todo \in Seq(Byte)
        /\ writer'.index \in 0 .. FifoSize - 1 /\ writer'.block \in 0 .. FifoSize
    BY <1>6 DEF WriterOK
  <2>4. /\ startIndex' \in 0 .. FifoSize - 1 /\ endIndex' \in 0 .. FifoSize - 1
        /\ count' \in 0 .. FifoSize /\ writerWaitx' \in 0 .. FifoSize /\ eventWriter' \in BOOLEAN
        /\ hw' \in Seq(Byte) /\ Len(hw') <= HwSize
    BY <1>1, <1>5
  <2> QED BY <2>1, <2>2, <2>3, <2>4 DEF UartTypeOK
<1>8. /\ Slot(startIndex' + count') = Slot(startIndex + count)
      /\ Slot(startIndex' + count' + writer.block) = Slot(startIndex + count + writer.block)
  <2> DEFINE block == writer.block
  <2>0. /\ startIndex \in Int /\ count \in Int /\ n \in Int /\ block \in Int
        /\ startIndex' \in Int /\ count' = count - n
        /\ \A k \in Int : Slot(startIndex' + k) = Slot(startIndex + n + k)
    <3>1. startIndex \in Int /\ count \in Int BY <1>1
    <3>2. n \in Int BY <1>3
    <3>3. block \in Int BY <1>1
    <3>4. startIndex' \in Int BY <1>5
    <3>5. count' = count - n /\ \A k \in Int : Slot(startIndex' + k) = Slot(startIndex + n + k)
      BY <1>5
    <3> QED BY <3>1, <3>2, <3>3, <3>4, <3>5
  <2> HIDE DEF block
  <2>1. count - n \in Int /\ startIndex + n + (count - n) = startIndex + count BY <2>0
  <2>2. /\ count - n + block \in Int
        /\ startIndex' + count' + block = startIndex' + (count - n + block)
        /\ startIndex + n + (count - n + block) = startIndex + count + block
    BY <2>0
  <2>3. Slot(startIndex' + count') = Slot(startIndex + count) BY <2>0, <2>1
  <2>4. Slot(startIndex' + count' + block) = Slot(startIndex + count + block) BY <2>0, <2>2
  <2> QED BY <2>3, <2>4 DEF block
<1>9. PlacesInv'
  <2>1. count + writer.block <= FifoSize => count' + writer.block <= FifoSize
    <3> DEFINE block == writer.block
    <3>1. /\ block \in Nat /\ n \in Nat /\ count \in Nat /\ FifoSize \in Nat /\ count' = count - n
      <4>1. count \in Nat /\ FifoSize \in Nat BY <1>1
      <4>2. block \in Nat BY <1>1
      <4>3. count' = count - n /\ n \in Nat BY <1>3, <1>5
      <4> QED BY <4>1, <4>2, <4>3
    <3> HIDE DEF block
    <3>2. count + block <= FifoSize => count' + block <= FifoSize BY <3>1
    <3> QED BY <3>2 DEF block
  <2> QED BY <1>0, <1>5, <1>8, <2>1 DEF UInv, PlacesInv
<1>10. SendingInv'
  <2>1. ASSUME ~txInProgress' PROVE hw' = <<>>
    <3>0. ~(count > 0) BY <1>0, <1>2, <2>1, Zenon
    <3>1. count = 0 BY <1>1, <3>0
    <3>2. Len(hw) = 0 BY <1>2, EmptySeq
    <3>3. Len(hw') = 0 BY <1>1, <1>3, <1>5, <3>1, <3>2
    <3> QED BY <1>5, <3>3, EmptySeq
  <2> QED BY <1>0, <1>2, <2>1 DEF SendingInv
<1>11. StreamInv'
  <2> DEFINE h == Len(hw)
             h2 == Len(hw')
             end == wire + Len(hw) + Copied
  <2>1. Copied' = count' + copied BY <1>0 DEF Copied, WriterAt
  <2>2. h2 = h + n /\ h \in Nat BY <1>1, <1>5
  <2> HIDE DEF h, h2, copied
  <2>3. Copied' = Copied - n BY <1>1, <1>3, <1>4, <1>5, <2>1
  <2>4. wire' + h2 + Copied' = wire + h + Copied BY <1>0, <1>1, <1>3, <1>4, <2>2, <2>3
  <2>5. wire' + Len(hw') + Copied' = end BY <2>4 DEF h, h2
  <2>6. /\ Numbered(writer.data, end) /\ Numbered(writer.todo, end + Len(writer.data))
        /\ given = Num(end + Len(writer.data) + Len(writer.todo))
    BY DEF UInv, StreamInv
  <2> HIDE DEF end
  <2> QED BY <1>0, <1>5, <2>3, <2>5, <2>6 DEF StreamInv
<1> QED BY <1>6, <1>7, <1>9, <1>10, <1>11 DEF UInv

LEMMA ShiftOutStep == ASSUME UartConstants, UInv, ShiftOut PROVE UInv'
<1> DEFINE h == Len(hw)
           h2 == Len(hw')
           d == Len(writer.data)
           e == Len(writer.todo)
<1>0. /\ UNCHANGED <<buffer, startIndex, endIndex, count, writerWaitx, eventWriter,
                     txInProgress, writer, given>>
      /\ hw # <<>> /\ wire' = Head(hw) /\ hw' = Tail(hw)
      /\ request' = (request \/ Len(hw) = 1)
  BY DEF ShiftOut, fifoVars
<1>1. /\ HwSize \in Nat /\ hw \in Seq(Byte) /\ h \in Nat /\ h <= HwSize /\ wire \in Int
      /\ d \in Nat /\ e \in Nat /\ Copied \in Nat
      /\ writer.data \in Seq(Byte) /\ writer.todo \in Seq(Byte)
  BY UartTypes
<1>2. txInProgress /\ ~request /\ writer.pc # "first" BY <1>0 DEF UInv, SendingInv
<1>3. /\ wire' = Num(wire + 1) /\ hw' \in Seq(Byte) /\ h2 = h - 1
      /\ Numbered(hw', wire + 1)
  BY <1>0, <1>1, NumberedTail DEF UInv, StreamInv
<1>4. wire' \in Byte /\ \A b \in Int : Num(wire' + b) = Num(wire + 1 + b)
  <2>1. wire + 1 \in Int BY <1>1
  <2> QED BY <1>3, <2>1, NumFacts
<1>5. wire' \in Int
  <2>1. Numbers \in Nat BY DEF UartConstants
  <2> QED BY <1>4, <2>1 DEF Byte
<1>6. Copied' = Copied BY <1>0 DEF Copied, WriterAt
<1>7. h2 \in Nat
  <2>1. h # 0 BY <1>0, <1>1, EmptySeq
  <2> QED BY <1>1, <1>3, <2>1
<1>8. WriterOK' BY <1>0 DEF UInv, WriterOK
<1>9. UartTypeOK'
  <2>1. Len(hw') <= HwSize
    <3>1. h2 <= HwSize BY <1>1, <1>3
    <3> QED BY <3>1
  <2>2. request' \in BOOLEAN BY <1>0, <1>2
  <2> QED BY <1>0, <1>3, <1>4, <2>1, <2>2 DEF UInv, UartTypeOK
<1>10. PlacesInv' BY <1>0 DEF UInv, PlacesInv
<1>11. SendingInv'
  <2>1. ASSUME request' PROVE hw' = <<>>
    <3>1. h = 1 BY <1>0, <1>2, <2>1
    <3>2. Len(hw') = 0
      <4>1. h2 = 0 BY <1>1, <1>3, <3>1
      <4> QED BY <4>1
    <3> QED BY <1>3, <3>2, EmptySeq
  <2> QED BY <1>0, <1>2, <2>1 DEF SendingInv
<1> HIDE DEF h, h2, d, e
<1>12. ASSUME NEW k \in Int PROVE Num(wire' + h2 + k) = Num(wire + h + k)
  <2>1. h2 + k \in Int /\ wire' + h2 + k = wire' + (h2 + k) /\ wire + 1 + (h2 + k) = wire + h + k
    BY <1>1, <1>3, <1>5, <1>7
  <2> QED BY <1>4, <2>1
<1>13. ASSUME NEW bytes \in Seq(Byte), NEW k \in Int, Numbered(bytes, wire + h + k)
       PROVE  Numbered(bytes, wire' + h2 + k)
  <2>1. ASSUME NEW i \in 1 .. Len(bytes) PROVE bytes[i] = Num(wire' + h2 + k + i)
    <3>0. i \in Int BY LenProperties
    <3>1. bytes[i] = Num(wire + h + k + i) BY <1>13 DEF Numbered
    <3>2. /\ k + i \in Int /\ wire + h + k + i = wire + h + (k + i)
          /\ wire' + h2 + k + i = wire' + h2 + (k + i)
      BY <1>1, <1>5, <1>7, <3>0
    <3> QED BY <1>12, <3>1, <3>2
  <2> QED BY <2>1 DEF Numbered
<1>14. StreamInv'
  <2>1. Numbered(hw', wire')
    <3>1. ASSUME NEW i \in 1 .. Len(hw') PROVE hw'[i] = Num(wire' + i)
      <4>1. i \in Int BY <1>3, LenProperties
      <4>2. hw'[i] = Num(wire + 1 + i) BY <1>3 DEF Numbered
      <4> QED BY <1>4, <4>1, <4>2
    <3> QED BY <3>1 DEF Numbered
  <2>2. \A i \in 1 .. Copied' :
           buffer'[Slot(startIndex' + i - 1)] = Num(wire' + Len(hw') + i)
    <3>1. ASSUME NEW i \in 1 .. Copied
          PROVE  buffer[Slot(startIndex + i - 1)] = Num(wire' + h2 + i)
      <4>1. i \in Int BY <1>1
      <4>2. buffer[Slot(startIndex + i - 1)] = Num(wire + h + i) BY DEF UInv, StreamInv, h
      <4> QED BY <1>12, <4>1, <4>2
    <3> QED BY <1>0, <1>6, <3>1 DEF h2
  <2>3. Numbered(writer'.data, wire' + Len(hw') + Copied')
    <3>1. Numbered(writer.data, wire + h + Copied) BY DEF UInv, StreamInv, h
    <3>2. Numbered(writer.data, wire' + h2 + Copied) BY <1>1, <1>13, <3>1
    <3> QED BY <1>0, <1>6, <3>2 DEF h2
  <2>4. Numbered(writer'.todo, wire' + Len(hw') + Copied' + Len(writer'.data))
    <3>1. Numbered(writer.todo, wire + h + Copied + d) BY DEF UInv, StreamInv, h, d
    <3>2. /\ Copied + d \in Int /\ wire + h + Copied + d = wire + h + (Copied + d)
          /\ wire' + h2 + Copied + d = wire' + h2 + (Copied + d)
      BY <1>1, <1>5, <1>7
    <3>3. Numbered(writer.todo, wire' + h2 + (Copied + d)) BY <1>1, <1>13, <3>1, <3>2
    <3> QED BY <1>0, <1>6, <3>2, <3>3 DEF h2, d
  <2>5. given' = Num(wire' + Len(hw') + Copied' + Len(writer'.data) + Len(writer'.todo))
    <3>1. given = Num(wire + h + Copied + d + e) BY DEF UInv, StreamInv, h, d, e
    <3>2. /\ Copied + d + e \in Int /\ wire + h + Copied + d + e = wire + h + (Copied + d + e)
          /\ wire' + h2 + Copied + d + e = wire' + h2 + (Copied + d + e)
      BY <1>1, <1>5, <1>7
    <3>3. given = Num(wire' + h2 + (Copied + d + e)) BY <1>12, <3>1, <3>2
    <3> QED BY <1>0, <1>6, <3>2, <3>3 DEF h2, d, e
  <2> QED BY <2>1, <2>2, <2>3, <2>4, <2>5 DEF StreamInv
<1> QED BY <1>8, <1>9, <1>10, <1>11, <1>14 DEF UInv

-----------------------------------------------------------------------------
(* The invariant of CanSpec *)

LEMMA UartInit == ASSUME UartConstants, Init PROVE UInv
<1>1. /\ buffer = [i \in 0 .. FifoSize - 1 |-> 0]
      /\ startIndex = 0 /\ endIndex = 0 /\ count = 0
      /\ writerWaitx = 0 /\ eventWriter = TRUE
      /\ txInProgress = FALSE
      /\ hw = <<>> /\ request = FALSE
      /\ writer = [pc |-> "idle", data |-> <<>>, todo |-> <<>>, index |-> 0, block |-> 0]
      /\ given = 0 /\ wire = 0
  BY DEF Init, WriterIdle
<1>2. /\ FifoSize \in Nat /\ FifoSize > 0 /\ HwSize \in Nat /\ 0 \in Byte
      /\ 0 \in 0 .. FifoSize /\ 0 \in 0 .. FifoSize - 1
  BY DEF UartConstants, Byte
<1>3. Len(<<>>) = 0 /\ <<>> \in Seq(Byte) BY EmptySeq
<1>4. Slot(0) = 0 BY <1>2, SlotFacts
<1>5. WriterOK BY <1>1, <1>2, <1>3 DEF WriterOK, WriterPCs
<1>6. UartTypeOK
  <2>1. buffer \in [0 .. FifoSize - 1 -> Byte] BY <1>1, <1>2
  <2>2. Len(hw) <= HwSize BY <1>1, <1>2, <1>3
  <2> QED BY <1>1, <1>2, <1>3, <1>5, <2>1, <2>2 DEF UartTypeOK, WriterOK
<1>7. PlacesInv BY <1>1, <1>4 DEF PlacesInv
<1>8. SendingInv BY <1>1 DEF SendingInv
<1>9. StreamInv
  <2>1. Copied = 0 BY <1>1 DEF Copied, WriterAt
  <2>2. Len(hw) = 0 /\ Len(writer.data) = 0 /\ Len(writer.todo) = 0 BY <1>1, <1>3
  <2>3. Num(0) = 0 BY DEF UartConstants, Num
  <2>4. Numbered(hw, wire) /\ Numbered(writer.data, 0) /\ Numbered(writer.todo, 0)
    BY <1>1, NumberedEmpty
  <2> QED BY <1>1, <2>1, <2>2, <2>3, <2>4 DEF StreamInv
<1> QED BY <1>5, <1>6, <1>7, <1>8, <1>9 DEF UInv

LEMMA WriteStep == ASSUME UartConstants, UInv, Write PROVE UInv'
BY BeginWriteStep, CopyInStep, EndWriteStep, WaitForRoomStep, InitiateStep, FirstStep DEF Write

LEMMA UartUnchanged == ASSUME UInv, UNCHANGED uartVars PROVE UInv'
BY DEF UInv, UartTypeOK, WriterOK, PlacesInv, SendingInv, StreamInv, Copied, WriterAt,
       uartVars, fifoVars

\* The types of the CAN side; Can0RxISR is requested only for a message that
\* is still in the receive FIFO.
CanInv ==
    /\ rxFifo0 \in Seq(Messages) /\ Len(rxFifo0) <= CanFifoSize
    /\ newMessage \in BOOLEAN /\ inIsr \in BOOLEAN
    /\ canRequest \in BOOLEAN
    /\ rxdata \in Messages \union {None}
    /\ g_can0_swamphore \in 0 .. MaxTokens
    /\ task \in TaskPCs
    /\ words \in [Words -> Messages \union {None}]
    /\ shown \in Messages \union {None}
    /\ canRequest => rxFifo0 # <<>>

LEMMA CanUartInit == ASSUME UartConstants, CanUartConstants, CanInit PROVE UInv /\ CanInv
<1>1. UInv BY UartInit DEF CanInit
<1>2. /\ rxFifo0 = <<>> /\ newMessage = FALSE /\ canRequest = FALSE /\ inIsr = FALSE
      /\ rxdata = None /\ g_can0_swamphore = 0 /\ task = "boot"
      /\ words = [i \in Words |-> None] /\ shown = None
  BY DEF CanInit, NoWords
<1>3. 0 \in 0 .. MaxTokens /\ 0 <= CanFifoSize BY DEF CanUartConstants
<1>4. rxFifo0 \in Seq(Messages) /\ Len(rxFifo0) <= CanFifoSize BY <1>2, <1>3, EmptySeq
<1>5. CanInv BY <1>2, <1>3, <1>4 DEF CanInv, TaskPCs
<1> QED BY <1>1, <1>5

LEMMA CanArriveStep ==
    ASSUME CanUartConstants, CanInv, NEW m \in Messages, CanArrive(m)
    PROVE  CanInv'
<1>1. /\ Len(rxFifo0) < CanFifoSize /\ rxFifo0' = Append(rxFifo0, m) /\ newMessage' = TRUE
      /\ canRequest' \in BOOLEAN
      /\ UNCHANGED <<inIsr, rxdata, g_can0_swamphore, task, words, shown>>
  BY DEF CanArrive, CanInv
<1>2. rxFifo0 \in Seq(Messages) /\ Len(rxFifo0) \in Nat /\ CanFifoSize \in Nat
  BY LenProperties DEF CanInv, CanUartConstants
<1>3. rxFifo0' \in Seq(Messages) /\ Len(rxFifo0') = Len(rxFifo0) + 1
  BY <1>1, <1>2, AppendProperties
<1>4. Len(rxFifo0') <= CanFifoSize /\ Len(rxFifo0') # 0 BY <1>1, <1>2, <1>3
<1>5. rxFifo0' # <<>> BY <1>4, EmptySeq
<1> QED BY <1>1, <1>3, <1>4, <1>5 DEF CanInv

LEMMA ReadMessageStep == ASSUME CanUartConstants, CanInv, ReadMessage PROVE CanInv'
<1>1. /\ rxFifo0 # <<>>
      /\ rxFifo0' = Tail(rxFifo0) /\ rxdata' = Head(rxFifo0)
      /\ canRequest' = FALSE /\ inIsr' = TRUE
      /\ g_can0_swamphore' = Smaller(g_can0_swamphore + 1, MaxTokens)
      /\ UNCHANGED <<newMessage, task, words, shown>>
  BY DEF ReadMessage, CanInv
<1>2. /\ rxFifo0 \in Seq(Messages) /\ Len(rxFifo0) \in Nat /\ Len(rxFifo0) <= CanFifoSize
      /\ CanFifoSize \in Nat /\ MaxTokens \in Nat /\ g_can0_swamphore \in 0 .. MaxTokens
  BY LenProperties DEF CanInv, CanUartConstants
<1>3. /\ rxdata' \in Messages /\ rxFifo0' \in Seq(Messages) /\ Len(rxFifo0') = Len(rxFifo0) - 1
  BY <1>1, <1>2, HeadTailProperties
<1>4. Len(rxFifo0') <= CanFifoSize BY <1>2, <1>3
<1>5. g_can0_swamphore' \in 0 .. MaxTokens BY <1>1, <1>2 DEF Smaller
<1> QED BY <1>1, <1>3, <1>4, <1>5 DEF CanInv

\* What the task does, to the CAN side and to the UART.
LEMMA CanTaskStep ==
    ASSUME UartConstants, CanUartConstants, UInv, CanInv, CanTask
    PROVE  UInv' /\ CanInv'
<1>0. /\ Lengths \subseteq Nat \ {0} /\ HeadingLength \in Nat \ {0} /\ WordsLength \in Nat \ {0}
  BY DEF UartConstants, CanUartConstants
<1>1. CASE Hello
  <2>1. PICK n \in Lengths : StartPrint(n) BY <1>1 DEF Hello, Ifx_print
  <2>2. UInv' BY <1>0, <2>1, StartPrintStep
  <2>3. CanInv' BY <1>1 DEF Hello, Ifx_print, CanInv, TaskPCs
  <2> QED BY <2>2, <2>3
<1>2. CASE Take
  <2>1. UInv' BY <1>0, <1>2, StartPrintStep DEF Take, Ifx_print
  <2>2. g_can0_swamphore' \in 0 .. MaxTokens BY <1>2 DEF Take, CanInv, CanUartConstants
  <2>3. CanInv' BY <1>2, <2>2 DEF Take, Ifx_print, CanInv, TaskPCs
  <2> QED BY <2>1, <2>3
<1>3. CASE \E i \in Words : LoadWord(i)
  <2>1. PICK i \in Words : LoadWord(i) BY <1>3
  <2>2. UInv' BY <2>1, UartUnchanged DEF LoadWord
  <2>3. words' \in [Words -> Messages \union {None}] BY <2>1 DEF LoadWord, CanInv
  <2>4. CanInv' BY <2>1, <2>3 DEF LoadWord, CanInv, TaskPCs
  <2> QED BY <2>2, <2>4
<1>4. CASE PrintWords
  <2>1. UInv' BY <1>0, <1>4, StartPrintStep DEF PrintWords, Ifx_print
  <2>2. shown' \in Messages \union {None}
    <3>1. words[0] \in Messages \union {None} BY DEF CanInv, Words
    <3> QED BY <1>4, <3>1 DEF PrintWords
  <2>3. words' \in [Words -> Messages \union {None}] BY <1>4 DEF PrintWords, NoWords
  <2>4. CanInv' BY <1>4, <2>2, <2>3 DEF PrintWords, Ifx_print, CanInv, TaskPCs
  <2> QED BY <2>1, <2>4
<1>5. CASE Printed
  <2>1. UInv' BY <1>5, UartUnchanged DEF Printed
  <2>2. CanInv' BY <1>5 DEF Printed, CanInv, TaskPCs
  <2> QED BY <2>1, <2>2
<1> QED BY <1>1, <1>2, <1>3, <1>4, <1>5 DEF CanTask

LEMMA CanUartStep ==
    ASSUME UartConstants, CanUartConstants, UInv, CanInv, [CanNext]_vars
    PROVE  UInv' /\ CanInv'
<1>1. CASE \E m \in Messages : CanArrive(m)
  <2>1. PICK m \in Messages : CanArrive(m) BY <1>1
  <2>2. UInv' BY <2>1, UartUnchanged DEF CanArrive
  <2>3. CanInv' BY <2>1, CanArriveStep
  <2> QED BY <2>2, <2>3
<1>2. CASE ReadMessage
  <2>1. UInv' BY <1>2, UartUnchanged DEF ReadMessage
  <2>2. CanInv' BY <1>2, ReadMessageStep
  <2> QED BY <2>1, <2>2
<1>3. CASE ClearInterruptFlag
  <2>1. UInv' BY <1>3, UartUnchanged DEF ClearInterruptFlag
  <2>2. CanInv' BY <1>3 DEF ClearInterruptFlag, CanInv
  <2> QED BY <2>1, <2>2
<1>4. CASE CanTask BY <1>4, CanTaskStep
<1>5. CASE UartStep
  <2>1. UInv' BY <1>5, WriteStep, IsrTransmitStep, ShiftOutStep DEF UartStep
  <2>2. CanInv' BY <1>5 DEF UartStep, canVars, CanInv
  <2> QED BY <2>1, <2>2
<1>6. CASE UNCHANGED vars
  <2>1. UInv' BY <1>6, UartUnchanged DEF vars
  <2>2. CanInv' BY <1>6 DEF vars, canVars, CanInv
  <2> QED BY <2>1, <2>2
<1> QED BY <1>1, <1>2, <1>3, <1>4, <1>5, <1>6 DEF CanNext

\* What Ifx_print was given comes out whole: every byte is once in the hardware
\* FIFO, in the software FIFO or still with the writer, in order and unchanged,
\* whatever the transmit interrupt reads between two steps of the writer and
\* whatever CAN messages come meanwhile.
THEOREM PrintsWhole == CanSpec => []PrintedWhole
<1>1. UInv /\ CanInv /\ [CanNext]_vars => UInv' /\ CanInv'
  BY UartConstants, CanUartConstants, CanUartStep
<1>2. CanInit => UInv /\ CanInv BY UartConstants, CanUartConstants, CanUartInit
<1>3. UInv /\ CanInv => PrintedWhole
  BY UartConstants, StreamOfParts DEF PrintedWhole, CanTypeOK, UInv, CanInv
<1> QED BY <1>1, <1>2, <1>3, PTL DEF CanSpec
=============================================================================
