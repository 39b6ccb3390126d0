------------------------------- MODULE UartTx -------------------------------
(***************************************************************************)
(* The transmit half of the UART driver, src/Src/uart.c: the ring txFIFO,  *)
(* the flag txState, the function TransmitUART that the main program       *)
(* calls, and the "End Tx" branch of UARTE0_UART0_IRQHandler that preempts *)
(* it.                                                                     *)
(*                                                                         *)
(* The main program runs TransmitUART one memory access at a time (pc says *)
(* where it stands).  The handler is one step, because nothing that        *)
(* touches this state can preempt it.  A byte is named by its rank among   *)
(* the bytes given to TransmitUART (1, 2, 3, ...): loss, duplication and   *)
(* reordering then show on the wire.  0 is what the ring holds at reset.   *)
(***************************************************************************)
EXTENDS Integers, Sequences

CONSTANTS
  SIZE_BUF_TX,     \* slots of txFIFO.buffer (200 in uart.h)
  StoreOrders,     \* orders the compiler may give the two stores of line 113
  MaxOutstanding,  \* most bytes the caller has accepted but not on the wire
  MaxBytes         \* bound on the number of bytes ever sent

ASSUME SizeAssumption == SIZE_BUF_TX \in Nat /\ SIZE_BUF_TX > 1
ASSUME OrderAssumption == StoreOrders \subseteq {"byte first", "index first"}
ASSUME OutstandingAssumption == MaxOutstanding \in 1 .. (SIZE_BUF_TX - 1)
ASSUME BoundAssumption == MaxBytes \in Nat

VARIABLES
  buffer,          \* txFIFO.buffer
  counterWrite,    \* txFIFO.counterWrite
  counterRead,     \* txFIFO.counterRead
  txState,         \* TX_DONE or TX_IN_PROGRESS
  pc,              \* the next access of TransmitUART, "return" outside it
  slot,            \* the register that holds the old value of an index
  shift,           \* bytes the transmitter is shifting out (register TXD)
  txdrdy,          \* NRF_UART0 EVENTS_TXDRDY
  fresh,           \* TXD was written during the running call
  accepted,        \* number of calls of TransmitUART so far
  wire             \* history: the bytes that left the pin

ring == <<buffer, counterWrite, counterRead>>
device == <<shift, txdrdy, fresh, wire>>
vars == <<ring, txState, pc, slot, device, accepted>>

-----------------------------------------------------------------------------
(* An index that has reached the end of the ring stands for 0: between     *)
(* the increment and the test for SIZE_BUF_TX it is one past the last slot.*)
Wrap(i) == IF i = SIZE_BUF_TX THEN 0 ELSE i

(* Occupied slots, and the k-th occupied slot counted from the read index. *)
Used ==
  LET d == Wrap(counterWrite) - Wrap(counterRead)
  IN  IF d < 0 THEN d + SIZE_BUF_TX ELSE d

Nth(k) ==
  LET i == Wrap(counterRead) + k - 1
  IN  IF i >= SIZE_BUF_TX THEN i - SIZE_BUF_TX ELSE i

Goto(from, to) == pc = from /\ pc' = to

(* nrf_uart_txd_set: the transmitter takes the byte.                       *)
SetTXD(byte) ==
  /\ shift' = Append(shift, byte)
  /\ fresh' = (pc # "return")
  /\ UNCHANGED wire

Init ==
  /\ buffer = [i \in 0 .. (SIZE_BUF_TX - 1) |-> 0]
  /\ counterWrite = 0
  /\ counterRead = 0
  /\ txState = "TX_DONE"
  /\ pc = "return"
  /\ slot = 0
  /\ shift = <<>>
  /\ txdrdy = FALSE
  /\ fresh = FALSE
  /\ accepted = 0
  /\ wire = <<>>

-----------------------------------------------------------------------------
(* TransmitUART, called by the main program.                               *)

(* The caller hands over its next byte.  TransmitUART has no test for a    *)
(* full ring: that at most MaxOutstanding bytes wait is the caller's part. *)
Call ==
  /\ pc = "return"
  /\ accepted < MaxBytes
  /\ accepted - Len(wire) < MaxOutstanding
  /\ accepted' = accepted + 1
  /\ \/ "byte first" \in StoreOrders /\ pc' = "store"
     \/ "index first" \in StoreOrders /\ pc' = "publish"
  /\ UNCHANGED <<ring, txState, slot, device>>

(* txFIFO.buffer[txFIFO.counterWrite++] = data, the byte stored first.     *)
StoreThenPublish ==
  \/ /\ Goto("store", "increment")
     /\ buffer' = [buffer EXCEPT ![counterWrite] = accepted]
     /\ UNCHANGED <<counterWrite, counterRead, slot>>
  \/ /\ Goto("increment", "wrap write")
     /\ counterWrite' = counterWrite + 1
     /\ UNCHANGED <<buffer, counterRead, slot>>

(* The same statement, the index stored first: the two stores are not      *)
(* sequenced in C, and the image in src/Objects/vgm.hex has this order.    *)
PublishThenStore ==
  \/ /\ Goto("publish", "late store")
     /\ slot' = counterWrite
     /\ counterWrite' = counterWrite + 1
     /\ UNCHANGED <<buffer, counterRead>>
  \/ /\ Goto("late store", "wrap write")
     /\ buffer' = [buffer EXCEPT ![slot] = accepted]
     /\ UNCHANGED <<counterWrite, counterRead, slot>>

Put ==
  /\ StoreThenPublish \/ PublishThenStore
  /\ UNCHANGED <<txState, device, accepted>>

(* Bug: line 114 is missing.                                               *)
WrapWriteNever ==
  /\ Goto("wrap write", "test")
  /\ UNCHANGED <<ring, txState, slot, device, accepted>>

WrapWrite ==
  /\ Goto("wrap write", "test")
  /\ counterWrite' = Wrap(counterWrite)
  /\ UNCHANGED <<buffer, counterRead, txState, slot, device, accepted>>

(* if (txState == TX_DONE): otherwise the interrupt will fetch the byte.   *)
Test ==
  /\ pc = "test"
  /\ IF txState = "TX_DONE"
     THEN pc' = "mark" /\ UNCHANGED fresh
     ELSE pc' = "return" /\ fresh' = FALSE
  /\ UNCHANGED <<ring, txState, slot, shift, txdrdy, accepted, wire>>

(* Bug: line 118 is missing.                                               *)
MarkNever ==
  /\ Goto("mark", "take")
  /\ UNCHANGED <<ring, txState, slot, device, accepted>>

Mark ==
  /\ Goto("mark", "take")
  /\ txState' = "TX_IN_PROGRESS"
  /\ UNCHANGED <<ring, slot, device, accepted>>

(* nrf_uart_txd_set(NRF_UART0, txFIFO.buffer[txFIFO.counterRead++])        *)
Take ==
  /\ Goto("take", "send")
  /\ slot' = counterRead
  /\ counterRead' = counterRead + 1
  /\ UNCHANGED <<buffer, counterWrite, txState, device, accepted>>

Send ==
  /\ Goto("send", "wrap read")
  /\ SetTXD(buffer[slot])
  /\ UNCHANGED <<ring, txState, slot, txdrdy, accepted>>

WrapRead ==
  /\ Goto("wrap read", "return")
  /\ counterRead' = Wrap(counterRead)
  /\ fresh' = FALSE
  /\ UNCHANGED <<buffer, counterWrite, txState, slot, shift, txdrdy,
                 accepted, wire>>

TransmitUART == Put \/ WrapWrite \/ Test \/ Mark \/ Take \/ Send \/ WrapRead

-----------------------------------------------------------------------------
(* UARTE0_UART0_IRQHandler, the branch for EVENTS_TXDRDY.                  *)

(* Bugs: line 71 is missing; no "++" in line 70; "++" before the index.    *)
IsrSendNoWrap ==
  /\ txdrdy
  /\ txdrdy' = FALSE
  /\ counterWrite # counterRead
  /\ SetTXD(buffer[counterRead])
  /\ counterRead' = counterRead + 1
  /\ UNCHANGED <<buffer, counterWrite, txState, pc, slot, accepted>>

IsrSendAgain ==
  /\ txdrdy
  /\ txdrdy' = FALSE
  /\ counterWrite # counterRead
  /\ SetTXD(buffer[counterRead])
  /\ UNCHANGED <<ring, txState, pc, slot, accepted>>

IsrSendNext ==
  /\ txdrdy
  /\ txdrdy' = FALSE
  /\ counterWrite # counterRead
  /\ SetTXD(buffer[Wrap(counterRead + 1)])
  /\ counterRead' = Wrap(counterRead + 1)
  /\ UNCHANGED <<buffer, counterWrite, txState, pc, slot, accepted>>

IsrSend ==
  /\ txdrdy
  /\ txdrdy' = FALSE
  /\ counterWrite # counterRead
  /\ SetTXD(buffer[counterRead])
  /\ counterRead' = Wrap(counterRead + 1)
  /\ UNCHANGED <<buffer, counterWrite, txState, pc, slot, accepted>>

(* Bug: line 75 is missing.                                                *)
IsrDoneNever ==
  /\ txdrdy
  /\ txdrdy' = FALSE
  /\ counterWrite = counterRead
  /\ UNCHANGED <<ring, txState, pc, slot, shift, fresh, accepted, wire>>

IsrDone ==
  /\ txdrdy
  /\ txdrdy' = FALSE
  /\ counterWrite = counterRead
  /\ txState' = "TX_DONE"
  /\ UNCHANGED <<ring, pc, slot, shift, fresh, accepted, wire>>

(* The transmitter has shifted a byte out.  A byte takes 10 bit times at   *)
(* 115200 baud, some 5500 CPU cycles, and a call of TransmitUART some 60:  *)
(* a byte written to TXD during a call is not out before the call returns. *)
ByteSent ==
  /\ shift # <<>>
  /\ ~fresh
  /\ wire' = Append(wire, Head(shift))
  /\ shift' = Tail(shift)
  /\ txdrdy' = TRUE
  /\ UNCHANGED <<ring, txState, pc, slot, fresh, accepted>>

Next ==
  \/ Call
  \/ TransmitUART
  \/ IsrSend
  \/ IsrDone
  \/ ByteSent

Spec == Init /\ [][Next]_vars

(* The CPU keeps executing, a pending interrupt is taken, the shift        *)
(* register runs on its own clock.  No fairness for the caller.            *)
Fairness ==
  /\ WF_vars(TransmitUART)
  /\ WF_vars(IsrSend \/ IsrDone)
  /\ WF_vars(ByteSent)

FairSpec == Spec /\ Fairness

-----------------------------------------------------------------------------
(* Types.  An index is SIZE_BUF_TX only between its increment and its wrap.*)
TypeOK ==
  /\ buffer \in [0 .. (SIZE_BUF_TX - 1) -> Nat]
  /\ counterWrite \in 0 .. SIZE_BUF_TX
  /\ counterRead \in 0 .. SIZE_BUF_TX
  /\ txState \in {"TX_DONE", "TX_IN_PROGRESS"}
  /\ pc \in {"return", "store", "increment", "publish", "late store",
             "wrap write", "test", "mark", "take", "send", "wrap read"}
  /\ slot \in 0 .. (SIZE_BUF_TX - 1)
  /\ shift \in Seq(Nat)
  /\ txdrdy \in BOOLEAN
  /\ fresh \in BOOLEAN
  /\ accepted \in Nat
  /\ wire \in Seq(Nat)

(* Neither side ever indexes past the ring: when the interrupt can run     *)
(* (TXDRDY pending) the read index it will use is a slot of the buffer, and*)
(* so is the write index when TransmitUART is about to store.  A TXDRDY    *)
(* between line 119 and line 120 of uart.c would break this.               *)
IndexInRing ==
  /\ txdrdy => counterRead < SIZE_BUF_TX
  /\ pc \in {"return", "store", "increment", "publish"} =>
       counterWrite < SIZE_BUF_TX

(* TXD is written only when the transmitter is free.  Two writers reach    *)
(* TXD, TransmitUART for the first byte of a burst and the interrupt for   *)
(* the others; txState is what keeps them apart.                           *)
OneInFlight ==
  /\ Len(shift) + (IF txdrdy THEN 1 ELSE 0) <= 1
  /\ pc \in {"mark", "take", "send"} => shift = <<>> /\ ~txdrdy

(* No byte is stranded: whenever the ring holds a byte and TransmitUART is *)
(* not running, a byte is being shifted out or an interrupt is pending     *)
(* that will fetch it (the test of txState cannot miss the last TXDRDY).   *)
NoStrandedByte ==
  pc = "return" /\ Used > 0 => shift # <<>> \/ txdrdy

(* Every byte accepted is in exactly one place: on the wire, in the        *)
(* transmitter, in the ring, or in the hands of the running TransmitUART.  *)
InHand == IF pc \in {"store", "increment", "publish", "send"} THEN 1 ELSE 0
Conserved == accepted = Len(wire) + Len(shift) + Used + InHand

(* The wire carries the bytes given to TransmitUART, each once, in order.  *)
(* (The message "?DATD" CR LF of main.c is received whole or not at all.)  *)
InOrder == \A i \in 1 .. Len(wire) : wire[i] = i

(* A byte given to TransmitUART leaves the pin.                            *)
Delivered ==
  \A n \in 1 .. MaxBytes : (accepted >= n) ~> (Len(wire) >= n)

-----------------------------------------------------------------------------
(* The driver implements SerialPipe.  A pending byte is in the transmitter,*)
(* on its way from the ring to TXD, in the ring, or not yet published.     *)
Pending ==
  shift
  \o (IF pc = "send" THEN <<buffer[slot]>> ELSE <<>>)
  \o [k \in 1 .. Used |-> buffer[Nth(k)]]
  \o (IF pc \in {"store", "increment", "publish"} THEN <<accepted>> ELSE <<>>)

Pipe == INSTANCE SerialPipe WITH pending <- Pending

(* Every step of the driver accepts a byte, transmits the oldest pending   *)
(* one or changes nothing the caller can see; and pending bytes are sent.  *)
ImplementsPipe == Pipe!FairSpec
=============================================================================
