-------------------------------- MODULE Uart --------------------------------
(***************************************************************************)
(* The UART driver, src/Src/uart.c, whole: its two halves, UartTx and      *)
(* UartRx, share the main program, which makes one call at a time, and the *)
(* interrupt.  One run of UARTE0_UART0_IRQHandler serves both events, the  *)
(* received byte first; the main program stands still while it runs.       *)
(***************************************************************************)
EXTENDS Naturals, Sequences

CONSTANTS
  SIZE_BUF_RX, SIZE_BUF_TX,   \* slots of the rings (200 in uart.h)
  HwDepth,                    \* bytes the receiver holds (6)
  MaxOutstanding,             \* most bytes accepted but not on the wire
  MaxSent, MaxArrived         \* bounds on the bytes of each direction

ASSUME RxAssumption ==
  /\ SIZE_BUF_RX \in Nat /\ SIZE_BUF_RX > 2
  /\ HwDepth \in Nat \ {0}
  /\ {MaxSent, MaxArrived} \subseteq Nat

ASSUME TxAssumption ==
  /\ SIZE_BUF_TX \in Nat /\ SIZE_BUF_TX > 1
  /\ MaxOutstanding \in 1 .. (SIZE_BUF_TX - 1)

VARIABLES
  txBuffer, txWrite, txRead,   \* txFIFO
  txState, txPc, txSlot, shift, txdrdy, fresh, accepted, wire,
  rxBuffer, rxWrite, rxRead,   \* rxFIFO
  rxPc, rxSlot, isr, rxd, rxdrdy, recent, arrived, got,
  between      \* the handler has served RXDRDY and not yet tested TXDRDY

Tx == INSTANCE UartTx WITH
  StoreOrders <- {"byte first"}, MaxBytes <- MaxSent,
  buffer <- txBuffer, counterWrite <- txWrite, counterRead <- txRead,
  pc <- txPc, slot <- txSlot

Rx == INSTANCE UartRx WITH
  MaxBytes <- MaxArrived,
  buffer <- rxBuffer, counterWrite <- rxWrite, counterRead <- rxRead,
  pc <- rxPc, slot <- rxSlot

txVars == <<txBuffer, txWrite, txRead, txState, txPc, txSlot, shift, txdrdy,
            fresh, accepted, wire>>
rxVars == <<rxBuffer, rxWrite, rxRead, rxPc, rxSlot, isr, rxd, rxdrdy, recent,
            arrived, got>>
vars == <<txVars, rxVars, between>>

(* UART0Init leaves the rings and flags as the image of the program has    *)
(* them, no event pending and both interrupts enabled.                     *)
Init == Tx!Init /\ Rx!Init /\ between = FALSE

InHandler == isr # "idle" \/ between

-----------------------------------------------------------------------------
(* The main program: one call at a time, suspended by the handler.         *)
StepsOfMain ==
  /\ ~InHandler /\ UNCHANGED between
  /\ \/ Tx!TransmitUART /\ UNCHANGED rxVars
     \/ (Rx!ReadUART \/ Rx!ClearRxBuffer) /\ UNCHANGED txVars

Calls ==
  /\ txPc = "return" /\ rxPc = "return" /\ ~InHandler /\ UNCHANGED between
  /\ \/ Tx!Call /\ UNCHANGED rxVars
     \/ (Rx!CallReadUART \/ Rx!CallClearRxBuffer) /\ UNCHANGED txVars

(* UARTE0_UART0_IRQHandler: "End Rx", then "End Tx".                       *)
EndRx ==
  /\ ~between
  /\ \/ Rx!IsrClear /\ UNCHANGED between
     \/ Rx!IsrRead /\ between' = TRUE
  /\ UNCHANGED txVars

EndTx ==
  /\ between \/ (isr = "idle" /\ ~rxdrdy)
  /\ between' = FALSE
  /\ \/ Tx!IsrSend \/ Tx!IsrDone
     \/ between /\ ~txdrdy /\ UNCHANGED txVars
  /\ UNCHANGED rxVars

(* The line, in both directions.                                           *)
ByteSent == Tx!ByteSent /\ UNCHANGED <<rxVars, between>>
Arrive == Rx!Arrive /\ UNCHANGED <<txVars, between>>

Next == StepsOfMain \/ Calls \/ EndRx \/ EndTx \/ ByteSent \/ Arrive

(* The CPU executes the main program and takes pending interrupts, and the *)
(* transmitter shifts.  Nothing is assumed of the caller or of the line in.*)
Fairness ==
  WF_vars(StepsOfMain) /\ WF_vars(EndRx \/ EndTx) /\ WF_vars(ByteSent)

FairSpec == Init /\ [][Next]_vars /\ Fairness

-----------------------------------------------------------------------------
(* The transmit half implements SerialPipe also when reception delays its  *)
(* interrupt: each byte accepted leaves the pin once, in order, in the end.*)
ImplementsPipe == Tx!ImplementsPipe

(* The receive half implements RxFifo under the same interleaving: reads   *)
(* are of the oldest byte, clearing drops what was stored and no more.     *)
ImplementsFifo == Rx!ImplementsFifo

(* No byte stays in the receiver, though one handler serves both halves.   *)
Stored == Rx!Stored
=============================================================================
