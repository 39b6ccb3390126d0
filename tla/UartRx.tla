------------------------------- MODULE UartRx -------------------------------
(***************************************************************************)
(* The receive half of the UART driver, src/Src/uart.c: the ring rxFIFO,   *)
(* the "End Rx" branch of UARTE0_UART0_IRQHandler that fills it, and       *)
(* ReadUART and ClearRxBuffer, which the main program calls to empty it.   *)
(* The receiver of the chip (RXD with a small FIFO behind it and the event *)
(* RXDRDY) is external and modelled by its data sheet behaviour the        *)
(* handler relies on: RXDRDY is raised whenever a byte moves into RXD, and *)
(* reading RXD moves the next one in.  Uart puts this half together with   *)
(* UartTx, states the fairness and is what TLC runs.                       *)
(*                                                                         *)
(* The main program runs one memory access at a time.  The handler takes   *)
(* two steps (clear the event, then read RXD): the chip may receive in     *)
(* between, the main program may not run.  Bytes are named by rank of      *)
(* arrival, 1, 2, 3, ...; 0 is what the ring holds at reset.               *)
(***************************************************************************)
EXTENDS Integers, Sequences

CONSTANTS
  SIZE_BUF_RX,   \* slots of rxFIFO.buffer (200 in uart.h)
  HwDepth,       \* bytes the receiver holds, RXD included (6)
  MaxBytes       \* bound on the number of bytes that arrive

VARIABLES
  buffer,         \* rxFIFO.buffer
  counterWrite,   \* rxFIFO.counterWrite
  counterRead,    \* rxFIFO.counterRead
  pc,             \* next access of the running call, "return" outside one
  slot,           \* the register that holds an index
  isr,            \* "idle", or "read" between clearing RXDRDY and reading RXD
  rxd,            \* bytes in the receiver, the one in RXD first
  rxdrdy,         \* NRF_UART0 EVENTS_RXDRDY
  recent,         \* a byte arrived during the running call
  arrived,        \* number of bytes received so far
  got             \* what the last ReadUART returned: a byte, or 0 for "none"

ring == <<buffer, counterWrite, counterRead>>
receiver == <<rxd, rxdrdy, recent, arrived>>
vars == <<ring, pc, slot, isr, receiver, got>>

Wrap(i) == IF i = SIZE_BUF_RX THEN 0 ELSE i

Init ==
  /\ buffer = [i \in 0 .. (SIZE_BUF_RX - 1) |-> 0]
  /\ counterWrite = 0
  /\ counterRead = 0
  /\ pc = "return"
  /\ slot = 0
  /\ isr = "idle"
  /\ rxd = <<>>
  /\ rxdrdy = FALSE
  /\ recent = FALSE
  /\ arrived = 0
  /\ got = 0

-----------------------------------------------------------------------------
(* The main program.  Its steps wait while the handler runs.               *)

Goto(from, to) == isr = "idle" /\ pc = from /\ pc' = to

Return(from) == Goto(from, "return") /\ recent' = FALSE

CallReadUART ==
  /\ Goto("return", "compare")
  /\ UNCHANGED <<ring, slot, isr, receiver, got>>

CallClearRxBuffer ==
  /\ Goto("return", "clear load")
  /\ UNCHANGED <<ring, slot, isr, receiver, got>>

(* ReadUART, line 100: an empty ring is reported and *data left alone.     *)
Compare ==
  /\ \/ /\ counterRead = counterWrite
        /\ Return("compare")
        /\ got' = 0
     \/ /\ counterRead # counterWrite
        /\ Goto("compare", "take")
        /\ UNCHANGED <<recent, got>>
  /\ UNCHANGED <<ring, slot, isr, rxd, rxdrdy, arrived>>

(* *data = rxFIFO.buffer[rxFIFO.counterRead++]                             *)
TakeIndex ==
  /\ Goto("take", "load")
  /\ slot' = counterRead
  /\ counterRead' = counterRead + 1
  /\ UNCHANGED <<buffer, counterWrite, isr, receiver, got>>

(* Bug: "++" before the index.                                             *)
LoadNextByte ==
  /\ Goto("load", "wrap read")
  /\ got' = buffer[Wrap(counterRead)]
  /\ UNCHANGED <<ring, slot, isr, receiver>>

LoadByte ==
  /\ Goto("load", "wrap read")
  /\ got' = buffer[slot]
  /\ UNCHANGED <<ring, slot, isr, receiver>>

WrapRead ==
  /\ Return("wrap read")
  /\ counterRead' = Wrap(counterRead)
  /\ UNCHANGED <<buffer, counterWrite, slot, isr, rxd, rxdrdy, arrived, got>>

(* rxFIFO.counterRead = rxFIFO.counterWrite, a load and a store.           *)
ClearLoad ==
  /\ Goto("clear load", "clear store")
  /\ slot' = counterWrite
  /\ UNCHANGED <<ring, isr, receiver, got>>

ClearStore ==
  /\ Return("clear store")
  /\ counterRead' = slot
  /\ UNCHANGED <<buffer, counterWrite, slot, isr, rxd, rxdrdy, arrived, got>>

ReadUART == Compare \/ TakeIndex \/ LoadByte \/ WrapRead
ClearRxBuffer == ClearLoad \/ ClearStore

-----------------------------------------------------------------------------
(* UARTE0_UART0_IRQHandler, the branch for EVENTS_RXDRDY.                  *)

IsrClear ==
  /\ isr = "idle"
  /\ rxdrdy
  /\ isr' = "read"
  /\ rxdrdy' = FALSE
  /\ UNCHANGED <<ring, pc, slot, rxd, recent, arrived, got>>

(* Bug: the event is cleared after RXD is read.                            *)
IsrReadThenClear ==
  /\ isr = "read"
  /\ isr' = "idle"
  /\ buffer' = [buffer EXCEPT ![counterWrite] = Head(rxd)]
  /\ counterWrite' = Wrap(counterWrite + 1)
  /\ rxd' = Tail(rxd)
  /\ rxdrdy' = FALSE
  /\ UNCHANGED <<counterRead, pc, slot, recent, arrived, got>>

IsrRead ==
  /\ isr = "read"
  /\ isr' = "idle"
  /\ buffer' = [buffer EXCEPT ![counterWrite] = Head(rxd)]
  /\ counterWrite' = Wrap(counterWrite + 1)
  /\ rxd' = Tail(rxd)
  /\ rxdrdy' = (rxdrdy \/ Len(rxd) > 1)
  /\ UNCHANGED <<counterRead, pc, slot, recent, arrived, got>>

(* Stored bytes the main program has yet to take.  From the load on, a     *)
(* ClearRxBuffer under way has dropped what it is going to drop.           *)
Backlog ==
  LET d == counterWrite - (IF pc = "clear store" THEN slot ELSE Wrap(counterRead))
  IN  IF d < 0 THEN d + SIZE_BUF_RX ELSE d

(* A byte arrives on the line.  The interrupt is served within HwDepth     *)
(* byte times, so the receiver has room; a byte takes some 5500 CPU cycles *)
(* against some 40 for a call, so at most one arrives in a call; and the   *)
(* sender never has more than SIZE_BUF_RX - 1 bytes unread.                *)
Arrive ==
  /\ arrived < MaxBytes
  /\ Len(rxd) < HwDepth
  /\ ~recent
  /\ Backlog + Len(rxd) < SIZE_BUF_RX - 1
  /\ rxd' = Append(rxd, arrived + 1)
  /\ rxdrdy' = (rxdrdy \/ rxd = <<>>)
  /\ arrived' = arrived + 1
  /\ recent' = (pc # "return")
  /\ UNCHANGED <<ring, pc, slot, isr, got>>

Next ==
  \/ CallReadUART
  \/ CallClearRxBuffer
  \/ ReadUART
  \/ ClearRxBuffer
  \/ IsrClear
  \/ IsrRead
  \/ Arrive

Spec == Init /\ [][Next]_vars

-----------------------------------------------------------------------------
(* Every byte that arrives gets from the receiver into the ring: the       *)
(* receiver never goes deaf with a byte in it.  This is why the handler    *)
(* clears RXDRDY before it reads RXD: a byte in between raises it anew.    *)
Stored ==
  \A n \in 1 .. MaxBytes : (arrived >= n) ~> (arrived - Len(rxd) >= n)

(* The driver implements RxFifo.  A byte is taken when ReadUART advances   *)
(* the index, before it loads the byte: an interrupt in between must leave *)
(* that slot alone.                                                        *)
Fifo == INSTANCE RxFifo WITH
  stored <- arrived - Len(rxd),
  taken <- arrived - Len(rxd) - Backlog,
  got <- IF pc = "load" THEN buffer[slot] ELSE got

(* Whatever the interleaving of handler and main program, ReadUART returns *)
(* the oldest unread byte, reports "none" only when there is none, and     *)
(* ClearRxBuffer drops the bytes stored so far and not one that comes      *)
(* while it runs.                                                          *)
ImplementsFifo == Fifo!Spec
=============================================================================
