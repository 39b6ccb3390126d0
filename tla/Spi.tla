-------------------------------- MODULE Spi --------------------------------
(***************************************************************************)
(* The SPI driver, src/Src/spi.c, with the interface of the chip           *)
(* (external): two bytes of transmit and of receive buffer, and READY      *)
(* raised whenever a byte moves into RXD, the second only when the first   *)
(* has been read.  A byte sent is named by what the slave answers while it *)
(* is shifted: "status" to the address, "value" to the data.               *)
(***************************************************************************)
EXTENDS Naturals, Sequences

VARIABLE spi

spiVars == <<spi>>

SpiOff ==
  [pc |-> "off", SS |-> 1, TXD |-> <<>>, RXD |-> <<>>, READY |-> FALSE,
   data |-> "none"]

SpiInit == spi = SpiOff

At(line) == [spi EXCEPT !.pc = line]

SPI0Init == spi.pc = "off" /\ spi' = At("idle")

TransferBegin ==
  spi.pc = "idle" /\ spi' = [At("address") EXCEPT !.READY = FALSE, !.SS = 0]

(* nrf_spi_txd_set, twice.                                                 *)
SetTXDs ==
  \/ spi.pc = "address" /\ spi' = [At("data") EXCEPT !.TXD = Append(@, "status")]
  \/ spi.pc = "data" /\ spi' = [At("wait 1") EXCEPT !.TXD = Append(@, "value")]

(* while (!READY) {} and the event cleared.  Bug: no such loop.            *)
WaitNot(from, to) == spi.pc = from /\ spi' = [At(to) EXCEPT !.READY = FALSE]
Wait(from, to) ==
  spi.pc = from /\ spi.READY /\ spi' = [At(to) EXCEPT !.READY = FALSE]

(* nrf_spi_rxd_get.  Bug: the event is cleared after the read.             *)
Received == IF spi.RXD = <<>> THEN "stale" ELSE Head(spi.RXD)
Rest == IF spi.RXD = <<>> THEN <<>> ELSE Tail(spi.RXD)

GetThenClear(from, to) ==
  /\ spi.pc = from
  /\ spi' = [At(to) EXCEPT !.RXD = Rest, !.READY = FALSE, !.data = Received]
Get(from, to) ==
  /\ spi.pc = from
  /\ spi' = [At(to) EXCEPT !.RXD = Rest, !.READY = @ \/ Rest # <<>>,
                           !.data = Received]

TransferEnd == spi.pc = "release" /\ spi' = [At("idle") EXCEPT !.SS = 1]

Shift ==
  /\ spi.TXD # <<>> /\ Len(spi.RXD) < 2
  /\ spi' = [spi EXCEPT !.TXD = Tail(@), !.RXD = Append(@, Head(spi.TXD)),
                        !.READY = @ \/ spi.RXD = <<>>]

TransferSPI ==
  \/ SetTXDs
  \/ Wait("wait 1", "get 1") \/ Get("get 1", "wait 2")
  \/ Wait("wait 2", "get 2") \/ Get("get 2", "release")
  \/ TransferEnd

SpiNext == SPI0Init \/ TransferBegin \/ TransferSPI \/ Shift

-----------------------------------------------------------------------------
(* A transfer returns what the slave answered to its second byte, and the  *)
(* slave stays selected while a byte is shifted, at whatever moments the   *)
(* two bytes come in.                                                      *)
SpiRight ==
  /\ spi.pc = "idle" => spi.data \in {"none", "value"}
  /\ spi.TXD # <<>> => spi.SS = 0

(* A transfer comes to its end: neither loop waits for a READY that has    *)
(* been cleared.                                                           *)
TransferReturns == (spi.pc = "address") ~> (spi.pc \in {"idle", "off"})
=============================================================================
