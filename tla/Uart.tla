-------------------------------- MODULE Uart --------------------------------
(***************************************************************************)
(* The debug UART: Ifx_print writes a message to the software FIFO of the  *)
(* ASCLIN driver and waits for ever for room; the transmit interrupt moves *)
(* bytes from there to the hardware FIFO, whose level 0 requests it.  The  *)
(* flag txInProgress says whether the interrupt will come again.           *)
(*                                                                         *)
(* The actors are one printing task, the interrupt and the shift register. *)
(* The FIFO's critical sections are one step each.  A byte is the number   *)
(* of its place in the stream, modulo Numbers.  Message lengths, FifoSize  *)
(* and HwSize are scaled down from 1..255, ASC_TX_BUFFER_SIZE and 16.      *)
(***************************************************************************)
EXTENDS Integers, Sequences

CONSTANTS
    FifoSize, HwSize, Numbers,
    Lengths,            \* of the messages printed
    LongWhileSending    \* may a message longer than the FIFO be printed
                        \* while an earlier one is being sent?

ASSUME UartConstants ==
    /\ FifoSize \in Nat \ {0} /\ HwSize \in Nat \ {0} /\ Numbers \in Nat \ {0, 1}
    /\ Lengths \subseteq Nat \ {0}
    /\ LongWhileSending \in BOOLEAN

Byte == 0 .. Numbers - 1
Smaller(m, n) == IF m <= n THEN m ELSE n

VARIABLES
    buffer, startIndex, endIndex, count,    \* of the Ifx_Fifo tx
    writerWaitx,        \* bytes to be read before the writer is signalled
    eventWriter,        \* the signal
    txInProgress,
    hw,                 \* the hardware FIFO
    request,            \* the transmit interrupt is requested
    writer,             \* locals of the printing task: its place pc, data
                        \* and todo left for this Ifx_Fifo_write and the
                        \* next, its index in the buffer, its block
    given, wire         \* the last byte printed, and sent (history)

fifoVars == <<buffer, startIndex, endIndex, count, writerWaitx, eventWriter>>
uartVars == <<fifoVars, txInProgress, hw, request, writer, given, wire>>

WriterPCs == {"idle", "begin", "copy", "end", "wait", "initiate", "first"}
WriterIdle == [pc |-> "idle", data |-> <<>>, todo |-> <<>>, index |-> 0, block |-> 0]

\* n bytes of the buffer from index i on.
Bytes(i, n) == [k \in 1 .. n |-> buffer[(i + k - 1) % FifoSize]]

Init ==
    /\ buffer = [i \in 0 .. FifoSize - 1 |-> 0]
    /\ startIndex = 0 /\ endIndex = 0 /\ count = 0
    /\ writerWaitx = 0 /\ eventWriter = TRUE
    /\ txInProgress = FALSE
    /\ hw = <<>> /\ request = FALSE
    /\ writer = WriterIdle
    /\ given = 0 /\ wire = 0
-----------------------------------------------------------------------------
(* Ifx_print and IfxAsclin_Asc_write *)

\* A message too long for the FIFO is written in two parts, if nothing is
\* being sent: tx_status is read once.
StartPrint(n) ==
    /\ writer.pc = "idle"
    /\ n > FifoSize => ~txInProgress \/ LongWhileSending
    /\ given' = (given + n) % Numbers
    /\ LET message == [i \in 1 .. n |-> (given + i) % Numbers]
           part == IF ~txInProgress THEN Smaller(n, FifoSize) ELSE n
       IN  writer' = [pc |-> "begin",
                      data |-> SubSeq(message, 1, part), todo |-> SubSeq(message, part + 1, n),
                      index |-> endIndex, block |-> 0]
    /\ UNCHANGED <<fifoVars, txInProgress, hw, request, wire>>

WriterAt(here) == writer.pc = here

BeginWrite ==
    /\ WriterAt("begin")
    /\ LET left == Len(writer.data)
           block == Smaller(left, FifoSize - count)
       IN  /\ writerWaitx' = Smaller(left - block, FifoSize)
           /\ writer' = [writer EXCEPT !.block = block, !.pc = IF block = 0 THEN "wait" ELSE "copy"]
    /\ eventWriter' = FALSE
    /\ UNCHANGED <<buffer, startIndex, endIndex, count, txInProgress, hw, request, given, wire>>

\* Copies to the end of the buffer and no further (wrong on purpose).
CopyInStraight ==
    /\ WriterAt("copy")
    /\ buffer' = [i \in DOMAIN buffer |->
                    LET k == i - writer.index
                    IN  IF k \in 0 .. writer.block - 1 THEN writer.data[k + 1] ELSE buffer[i]]
    /\ writer' = [writer EXCEPT !.pc = "end", !.index = (@ + writer.block) % FifoSize,
                                !.data = SubSeq(@, writer.block + 1, Len(@))]
    /\ UNCHANGED <<startIndex, endIndex, count, writerWaitx, eventWriter, txInProgress,
                   hw, request, given, wire>>

\* Ifx_CircularBuffer_write8
CopyIn ==
    /\ WriterAt("copy")
    /\ buffer' = [i \in DOMAIN buffer |->
                    LET k == (i + FifoSize - writer.index) % FifoSize
                    IN  IF k < writer.block THEN writer.data[k + 1] ELSE buffer[i]]
    /\ writer' = [writer EXCEPT !.pc = "end", !.index = (@ + writer.block) % FifoSize,
                                !.data = SubSeq(@, writer.block + 1, Len(@))]
    /\ UNCHANGED <<startIndex, endIndex, count, writerWaitx, eventWriter, txInProgress,
                   hw, request, given, wire>>

EndWrite ==
    /\ WriterAt("end")
    /\ count' = count + writer.block
    /\ writer' = [writer EXCEPT !.block = 0, !.pc = IF writer.data = <<>> THEN "initiate" ELSE "wait"]
    /\ UNCHANGED <<buffer, startIndex, endIndex, writerWaitx, eventWriter, txInProgress,
                   hw, request, given, wire>>

\* The busy wait of Ifx_Fifo_write; its deadline is TIME_INFINITE.
WaitForRoom ==
    /\ WriterAt("wait")
    /\ eventWriter
    /\ writer' = [writer EXCEPT !.pc = "begin"]
    /\ UNCHANGED <<fifoVars, txInProgress, hw, request, given, wire>>

\* What is left of the message is written next.
NextPart(index) ==
    IF writer.todo = <<>> THEN WriterIdle
    ELSE [writer EXCEPT !.pc = "begin", !.data = writer.todo, !.todo = <<>>, !.index = index]

\* IfxAsclin_Asc_initiateTransmission, as far as its assignment.
Initiate ==
    /\ WriterAt("initiate")
    /\ endIndex' = writer.index
    /\ IF ~txInProgress /\ count > 0
         THEN txInProgress' = TRUE /\ writer' = [writer EXCEPT !.pc = "first"]
         ELSE writer' = NextPart(endIndex') /\ UNCHANGED txInProgress
    /\ UNCHANGED <<buffer, startIndex, count, writerWaitx, eventWriter, hw, request, given, wire>>
-----------------------------------------------------------------------------
\* Signals a writer only if more was read than it waits for (wrong on purpose).
ReadFifoSignalsLate(n) ==
    /\ hw' = hw \o Bytes(startIndex, n)
    /\ startIndex' = (startIndex + n) % FifoSize
    /\ count' = count - n
    /\ IF writerWaitx - n < 0 /\ writerWaitx > 0
         THEN writerWaitx' = 0 /\ eventWriter' = TRUE
         ELSE writerWaitx' = writerWaitx - Smaller(n, writerWaitx) /\ UNCHANGED eventWriter
    /\ UNCHANGED <<buffer, endIndex>>

\* n bytes go to the hardware FIFO; a waiting writer is signalled when it
\* has the room it asked for.
ReadFifo(n) ==
    /\ hw' = hw \o Bytes(startIndex, n)
    /\ startIndex' = (startIndex + n) % FifoSize
    /\ count' = count - n
    /\ IF writerWaitx > 0 /\ writerWaitx <= n
         THEN writerWaitx' = 0 /\ eventWriter' = TRUE
         ELSE writerWaitx' = writerWaitx - Smaller(n, writerWaitx) /\ UNCHANGED eventWriter
    /\ UNCHANGED <<buffer, endIndex>>

\* The rest of IfxAsclin_Asc_initiateTransmission: the first byte, whose
\* leaving the hardware FIFO requests the interrupt.
First ==
    /\ WriterAt("first")
    /\ ReadFifo(1)
    /\ writer' = NextPart(endIndex)
    /\ UNCHANGED <<txInProgress, request, given, wire>>

Write == BeginWrite \/ CopyIn \/ EndWrite \/ WaitForRoom \/ Initiate \/ First

\* Leaves txInProgress set (wrong on purpose).
IsrTransmitStays ==
    /\ request
    /\ request' = FALSE
    /\ ReadFifo(Smaller(count, HwSize - Len(hw)))
    /\ UNCHANGED <<txInProgress, writer, given, wire>>

\* asc0TxISR
IsrTransmit ==
    /\ request
    /\ request' = FALSE
    /\ ReadFifo(Smaller(count, HwSize - Len(hw)))
    /\ txInProgress' = (txInProgress /\ count > 0)
    /\ UNCHANGED <<writer, given, wire>>

\* The shift register takes a byte: the level 0 requests the interrupt.
ShiftOut ==
    /\ hw # <<>>
    /\ wire' = Head(hw)
    /\ hw' = Tail(hw)
    /\ request' = (request \/ Len(hw) = 1)
    /\ UNCHANGED <<fifoVars, txInProgress, writer, given>>
-----------------------------------------------------------------------------
Next ==
    \/ \E n \in Lengths : StartPrint(n)
    \/ Write \/ IsrTransmit \/ ShiftOut

Spec == Init /\ [][Next]_uartVars
-----------------------------------------------------------------------------
\* Types.
UartTypeOK ==
    /\ buffer \in [0 .. FifoSize - 1 -> Byte]
    /\ startIndex \in 0 .. FifoSize - 1 /\ endIndex \in 0 .. FifoSize - 1
    /\ count \in 0 .. FifoSize
    /\ writerWaitx \in 0 .. FifoSize
    /\ eventWriter \in BOOLEAN /\ txInProgress \in BOOLEAN /\ request \in BOOLEAN
    /\ hw \in Seq(Byte) /\ Len(hw) <= HwSize
    /\ writer.pc \in WriterPCs
    /\ writer.data \in Seq(Byte) /\ writer.todo \in Seq(Byte)
    /\ writer.index \in 0 .. FifoSize - 1 /\ writer.block \in 0 .. FifoSize
    /\ given \in Byte /\ wire \in Byte

\* Every byte printed is once in the hardware FIFO, in the software FIFO or
\* still with the writer, in order and unchanged, whatever the interrupt
\* reads between two steps of the writer.
StreamWhole ==
    LET copied == IF WriterAt("end") THEN writer.block ELSE 0
        stream == hw \o Bytes(startIndex, count + copied) \o writer.data \o writer.todo
    IN  /\ \A i \in DOMAIN stream : stream[i] = (wire + i) % Numbers
        /\ given = (wire + Len(stream)) % Numbers

\* Ifx_print returns: its busy wait for room ends.
PrintReturns == writer.pc # "idle" ~> writer.pc = "idle"

\* What was printed is sent, without another print: txInProgress is never
\* left set or cleared with bytes in the FIFO and no interrupt to come.
PrintedIsSent == \A b \in Byte : wire = b /\ given # b ~> wire # b
=============================================================================

