------------------------------ MODULE CanUart ------------------------------
(***************************************************************************)
(* CAN reception and what becomes of it: the receive FIFO of a CAN node,   *)
(* Can0RxISR, the one data buffer rxdata, the counting semaphore and the   *)
(* task that prints every message to the debug UART of module Uart.  A     *)
(* message is printed before, as core0_main does.                          *)
(*                                                                         *)
(* The actors are the receive task, the two interrupts, the bus and the    *)
(* shift register.  The task reads the two words of rxdata one by one; in  *)
(* Can0RxISR no task runs.  The other tasks' prints are left out.          *)
(***************************************************************************)
EXTENDS Uart

CONSTANTS
    Messages,       \* the data of a CAN message: both words the same
    CanFifoSize,    \* of the node's receive FIFO
    MaxTokens,      \* of the counting semaphore
    HeadingLength, WordsLength,
    None            \* no message

ASSUME CanUartConstants ==
    /\ None \notin Messages
    /\ CanFifoSize \in Nat \ {0} /\ MaxTokens \in Nat \ {0}
    /\ {HeadingLength, WordsLength} \subseteq Nat \ {0}

Words == 0 .. 1

VARIABLES
    rxFifo0,            \* the messages in the node's receive FIFO
    newMessage,         \* its interrupt flag rxFifo0NewMessage
    canRequest,         \* Can0RxISR is requested
    inIsr,              \* Can0RxISR has read its message
    rxdata,             \* the message in g_drv_can[0].rxdata
    g_can0_swamphore,   \* the tokens of the semaphore
    task,               \* where test_can0_recv_cpu0 is
    words,              \* the words of rxdata it has loaded
    shown               \* the last message printed, or None for words of two
                        \* messages (history)

canVars == <<rxFifo0, newMessage, canRequest, inIsr, rxdata, g_can0_swamphore, task, words, shown>>
vars == <<uartVars, canVars>>

TaskPCs == {"boot", "take", "heading", "load", "printed"}
NoWords == [i \in Words |-> None]

CanInit ==
    /\ Init
    /\ rxFifo0 = <<>> /\ newMessage = FALSE /\ canRequest = FALSE /\ inIsr = FALSE
    /\ rxdata = None
    /\ g_can0_swamphore = 0
    /\ task = "boot"
    /\ words = NoWords /\ shown = None
-----------------------------------------------------------------------------
(* The bus and Can0RxISR *)

\* A message is stored unless the FIFO is full.  While the flag is set a new
\* one may request the interrupt or not.
CanArrive(m) ==
    /\ Len(rxFifo0) < CanFifoSize
    /\ rxFifo0' = Append(rxFifo0, m)
    /\ newMessage' = TRUE
    /\ canRequest' \in IF newMessage THEN {canRequest, TRUE} ELSE {TRUE}
    /\ UNCHANGED <<uartVars, inIsr, rxdata, g_can0_swamphore, task, words, shown>>

\* IfxCan_Can_readMessage: one message, however many there are; then a token
\* is given, unless all are given already.
ReadMessage ==
    /\ canRequest /\ ~inIsr
    /\ canRequest' = FALSE
    /\ inIsr' = TRUE
    /\ rxdata' = Head(rxFifo0)
    /\ rxFifo0' = Tail(rxFifo0)
    /\ g_can0_swamphore' = Smaller(g_can0_swamphore + 1, MaxTokens)
    /\ UNCHANGED <<uartVars, newMessage, task, words, shown>>

ClearInterruptFlag ==
    /\ inIsr
    /\ inIsr' = FALSE
    /\ newMessage' = FALSE
    /\ UNCHANGED <<uartVars, rxFifo0, canRequest, rxdata, g_can0_swamphore, task, words, shown>>
-----------------------------------------------------------------------------
(* test_can0_recv_cpu0 *)

\* Prints a message of length n and goes on when Ifx_print has returned.
Ifx_print(here, n, next) ==
    /\ task = here /\ ~inIsr
    /\ StartPrint(n)
    /\ task' = next

Hello ==
    /\ \E n \in Lengths : Ifx_print("boot", n, "printed")
    /\ UNCHANGED <<rxFifo0, newMessage, canRequest, inIsr, rxdata, g_can0_swamphore, words, shown>>

Take ==
    /\ g_can0_swamphore > 0
    /\ g_can0_swamphore' = g_can0_swamphore - 1
    /\ Ifx_print("take", HeadingLength, "heading")
    /\ UNCHANGED <<rxFifo0, newMessage, canRequest, inIsr, rxdata, words, shown>>

\* The arguments of the second Ifx_print, in any order.
LoadWord(i) ==
    /\ task \in {"heading", "load"} /\ ~inIsr
    /\ writer.pc = "idle"
    /\ words[i] = None
    /\ words' = [words EXCEPT ![i] = rxdata]
    /\ task' = "load"
    /\ UNCHANGED <<uartVars, rxFifo0, newMessage, canRequest, inIsr, rxdata, g_can0_swamphore, shown>>

\* Also takes the tokens that have piled up (wrong on purpose).
PrintWordsDrains ==
    /\ \A i \in Words : words[i] # None
    /\ Ifx_print("load", WordsLength, "printed")
    /\ shown' = IF words[0] = words[1] THEN words[0] ELSE None
    /\ words' = NoWords
    /\ g_can0_swamphore' = 0
    /\ UNCHANGED <<rxFifo0, newMessage, canRequest, inIsr, rxdata>>

PrintWords ==
    /\ \A i \in Words : words[i] # None
    /\ Ifx_print("load", WordsLength, "printed")
    /\ shown' = IF words[0] = words[1] THEN words[0] ELSE None
    /\ words' = NoWords
    /\ UNCHANGED <<rxFifo0, newMessage, canRequest, inIsr, rxdata, g_can0_swamphore>>

Printed ==
    /\ task = "printed" /\ ~inIsr
    /\ writer.pc = "idle"
    /\ task' = "take"
    /\ UNCHANGED <<uartVars, rxFifo0, newMessage, canRequest, inIsr, rxdata, g_can0_swamphore,
                   words, shown>>

CanTask == Hello \/ Take \/ (\E i \in Words : LoadWord(i)) \/ PrintWords \/ Printed
-----------------------------------------------------------------------------
UartStep ==
    /\ \/ Write /\ ~inIsr
       \/ IsrTransmit /\ ~inIsr
       \/ ShiftOut
    /\ UNCHANGED canVars

CanNext ==
    \/ \E m \in Messages : CanArrive(m)
    \/ ReadMessage \/ ClearInterruptFlag
    \/ CanTask
    \/ UartStep

CanSpec == CanInit /\ [][CanNext]_vars

\* Bytes are shifted out and interrupts are served; the bus is too slow for
\* Can0RxISR to take the whole processor, so the task and asc0TxISR get it
\* again and again.
CanFairness ==
    /\ SF_vars(CanTask)
    /\ SF_vars(Write /\ ~inIsr /\ UNCHANGED canVars)
    /\ SF_vars(IsrTransmit /\ ~inIsr /\ UNCHANGED canVars)
    /\ WF_vars(ReadMessage \/ ClearInterruptFlag)
    /\ WF_vars(ShiftOut /\ UNCHANGED canVars)

CanFairSpec == CanSpec /\ CanFairness
-----------------------------------------------------------------------------
\* Types (checked as part of PrintedWhole).
CanTypeOK ==
    /\ UartTypeOK
    /\ rxFifo0 \in Seq(Messages) /\ Len(rxFifo0) <= CanFifoSize
    /\ newMessage \in BOOLEAN /\ inIsr \in BOOLEAN
    /\ canRequest \in BOOLEAN
    /\ rxdata \in Messages \union {None}
    /\ g_can0_swamphore \in 0 .. MaxTokens
    /\ task \in TaskPCs
    /\ words \in [Words -> Messages \union {None}]
    /\ shown \in Messages \union {None}

\* Every byte printed is once in the hardware FIFO, in the software FIFO or
\* still with the writer, in order and unchanged, whatever the interrupt reads
\* between two steps of the writer and whatever CAN messages come meanwhile.
\* (Ifx_Fifo_write, Ifx_Fifo_read, IfxAsclin_Asc_initiateTransmission.)
PrintedWhole == CanTypeOK /\ StreamWhole

\* Words of two messages may be printed as one, and messages may go
\* unprinted; but the last message Can0RxISR read is printed in the end,
\* whole, also when all tokens were given already.
LastReadPrinted ==
    \A m \in Messages : rxdata = m ~> shown = m \/ rxdata # m
=============================================================================
