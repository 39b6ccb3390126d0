----------------------------- MODULE Uart_proofs -----------------------------
(***************************************************************************)
(* The driver as a whole keeps the promises of its halves: a step of Uart  *)
(* is a step of either half or leaves it alone, so what UartTx_proofs and  *)
(* UartRx_proofs show of a half on its own holds of it in the driver, with *)
(* one handler for both and one call at a time.                            *)
(***************************************************************************)
EXTENDS Uart, Integers, TLAPS

TxP == INSTANCE UartTx_proofs WITH
  StoreOrders <- {"byte first"}, MaxBytes <- MaxSent,
  buffer <- txBuffer, counterWrite <- txWrite, counterRead <- txRead,
  pc <- txPc, slot <- txSlot

RxP == INSTANCE UartRx_proofs WITH
  MaxBytes <- MaxArrived,
  buffer <- rxBuffer, counterWrite <- rxWrite, counterRead <- rxRead,
  pc <- rxPc, slot <- rxSlot

-----------------------------------------------------------------------------
(* The instances of the halves in Uart and of their proofs here are about  *)
(* the same formulas.                                                      *)
LEMMA SameRx ==
  /\ Rx!Init <=> RxP!Init
  /\ Rx!Next <=> RxP!Next
<1>1. Rx!Init <=> RxP!Init BY DEF Rx!Init, RxP!Init
<1>2. Rx!Next <=> RxP!Next
  BY DEF Rx!CallReadUART, RxP!CallReadUART, Rx!CallClearRxBuffer,
         RxP!CallClearRxBuffer, Rx!Compare, RxP!Compare, Rx!TakeIndex,
         RxP!TakeIndex, Rx!LoadByte, RxP!LoadByte, Rx!WrapRead, RxP!WrapRead,
         Rx!ClearLoad, RxP!ClearLoad, Rx!ClearStore, RxP!ClearStore,
         Rx!IsrClear, RxP!IsrClear, Rx!IsrRead, RxP!IsrRead, Rx!Arrive,
         RxP!Arrive, Rx!ReadUART, RxP!ReadUART, Rx!ClearRxBuffer,
         RxP!ClearRxBuffer, Rx!Next, RxP!Next, Rx!Goto, RxP!Goto, Rx!Return,
         RxP!Return, Rx!ring, RxP!ring, Rx!receiver, RxP!receiver, Rx!Wrap,
         RxP!Wrap, Rx!Backlog, RxP!Backlog
<1> QED BY <1>1, <1>2

LEMMA SameTx ==
  /\ Tx!Init <=> TxP!Init
  /\ Tx!Next <=> TxP!Next
<1>1. Tx!Init <=> TxP!Init BY DEF Tx!Init, TxP!Init
<1>2. Tx!Next <=> TxP!Next
  BY DEF Tx!Call, TxP!Call, Tx!StoreThenPublish, TxP!StoreThenPublish,
         Tx!PublishThenStore, TxP!PublishThenStore, Tx!Put, TxP!Put,
         Tx!WrapWrite, TxP!WrapWrite, Tx!Test, TxP!Test, Tx!Mark, TxP!Mark,
         Tx!Take, TxP!Take, Tx!Send, TxP!Send, Tx!WrapRead, TxP!WrapRead,
         Tx!TransmitUART, TxP!TransmitUART, Tx!IsrSend, TxP!IsrSend,
         Tx!IsrDone, TxP!IsrDone, Tx!ByteSent, TxP!ByteSent, Tx!Next,
         TxP!Next, Tx!Goto, TxP!Goto, Tx!SetTXD, TxP!SetTXD, Tx!ring,
         TxP!ring, Tx!device, TxP!device, Tx!Wrap, TxP!Wrap
<1> QED BY <1>1, <1>2

LEMMA SameFifo ==
  /\ RxP!Fifo!Init <=> Rx!Fifo!Init
  /\ [RxP!Fifo!Next]_RxP!Fifo!vars <=> [Rx!Fifo!Next]_Rx!Fifo!vars
  BY DEF Rx!Fifo!Init, RxP!Fifo!Init, Rx!Fifo!Put, RxP!Fifo!Put,
         Rx!Fifo!Room, RxP!Fifo!Room, Rx!Fifo!Get, RxP!Fifo!Get,
         Rx!Fifo!Available, RxP!Fifo!Available, Rx!Fifo!GetNothing,
         RxP!Fifo!GetNothing, Rx!Fifo!Clear, RxP!Fifo!Clear, Rx!Fifo!Next,
         RxP!Fifo!Next, Rx!Fifo!vars, RxP!Fifo!vars, Rx!Backlog, RxP!Backlog,
         Rx!Wrap, RxP!Wrap

LEMMA SamePipe ==
  /\ TxP!Pipe!Init <=> Tx!Pipe!Init
  /\ [TxP!Pipe!Next]_TxP!Pipe!vars <=> [Tx!Pipe!Next]_Tx!Pipe!vars
  BY DEF Tx!Pipe!Init, TxP!Pipe!Init, Tx!Pipe!Accept, TxP!Pipe!Accept,
         Tx!Pipe!Transmit, TxP!Pipe!Transmit, Tx!Pipe!Next, TxP!Pipe!Next,
         Tx!Pipe!vars, TxP!Pipe!vars, Tx!Pending, TxP!Pending, Tx!Used,
         TxP!Used, Tx!Nth, TxP!Nth, Tx!Wrap, TxP!Wrap

-----------------------------------------------------------------------------
(* Each half behaves in the driver as it does on its own.                  *)
LEMMA RxStep == ASSUME [Next]_vars PROVE [RxP!Next]_RxP!vars
<1>1. Rx!Next \/ UNCHANGED rxVars
  BY DEF Next, StepsOfMain, Calls, EndRx, EndTx, ByteSent, Arrive, vars,
         Rx!Next
<1>2. UNCHANGED rxVars => UNCHANGED RxP!vars
  BY DEF rxVars, RxP!vars, RxP!ring, RxP!receiver
<1> QED BY <1>1, <1>2, SameRx

LEMMA TxStep == ASSUME [Next]_vars PROVE [TxP!Next]_TxP!vars
<1>1. Tx!Next \/ UNCHANGED txVars
  BY DEF Next, StepsOfMain, Calls, EndRx, EndTx, ByteSent, Arrive, vars,
         Tx!Next
<1>2. UNCHANGED txVars => UNCHANGED TxP!vars
  BY DEF txVars, TxP!vars, TxP!ring, TxP!device
<1> QED BY <1>1, <1>2, SameTx

LEMMA RxAlone == FairSpec => RxP!Spec
<1>1. Init => RxP!Init BY SameRx DEF Init
<1> QED BY <1>1, RxStep, PTL DEF FairSpec, RxP!Spec

LEMMA TxAlone == FairSpec => TxP!Spec
<1>1. Init => TxP!Init BY SameTx DEF Init
<1> QED BY <1>1, TxStep, PTL DEF FairSpec, TxP!Spec

-----------------------------------------------------------------------------
(* The receive half of the driver is a queue: reads are of the oldest      *)
(* byte, "none" means none, and clearing drops what was stored and no more *)
(* (uart.c:51-62 and 91-107), while the same handler also feeds the        *)
(* transmitter and the main program also sends.                            *)
THEOREM DriverReceives == FairSpec => ImplementsFifo
<1>1. RxP!SizeOK BY RxAssumption DEF RxP!SizeOK
<1>2. RxP!Spec => RxP!ImplementsFifo BY <1>1, RxP!ReceiveIsQueue
<1>3. RxP!ImplementsFifo => ImplementsFifo
  BY SameFifo, PTL
  DEF ImplementsFifo, Rx!ImplementsFifo, RxP!ImplementsFifo, Rx!Fifo!Spec,
      RxP!Fifo!Spec
<1> QED BY <1>2, <1>3, RxAlone, PTL

(* The transmit half of the driver is a pipe: a step accepts a byte, moves *)
(* the oldest pending byte to the wire, or changes neither (uart.c:65-78   *)
(* and 111-122), however long reception delays its interrupt.  This is the *)
(* safety part of ImplementsPipe.                                          *)
THEOREM DriverTransmits == FairSpec => Tx!Pipe!Spec
<1>1. /\ SIZE_BUF_TX \in Nat /\ SIZE_BUF_TX > 1
      /\ MaxOutstanding \in 1 .. (SIZE_BUF_TX - 1)
      /\ {"byte first"} \subseteq {"byte first", "index first"}
      /\ MaxSent \in Nat
  BY TxAssumption, RxAssumption
<1>2. TxP!ByteFirst BY DEF TxP!ByteFirst
<1>3. TxP!Spec => TxP!Pipe!Spec BY <1>1, <1>2, TxP!TransmitIsPipe
<1>4. TxP!Pipe!Spec => Tx!Pipe!Spec
  BY SamePipe, PTL DEF TxP!Pipe!Spec, Tx!Pipe!Spec
<1> QED BY <1>3, <1>4, TxAlone, PTL

(* No byte is forgotten in the receiver while the same handler also feeds  *)
(* the transmitter: the safety part of Stored.                             *)
THEOREM DriverIsNotDeaf == FairSpec => []RxP!NotDeaf
<1>1. RxP!SizeOK BY RxAssumption DEF RxP!SizeOK
<1>2. RxP!Spec => []RxP!NotDeaf BY <1>1, RxP!ReceiverIsServed
<1> QED BY <1>2, RxAlone, PTL
=============================================================================
