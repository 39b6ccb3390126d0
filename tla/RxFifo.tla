------------------------------- MODULE RxFifo -------------------------------
(***************************************************************************)
(* What the receive half of the UART driver promises the main program: a   *)
(* queue of the bytes stored and not yet taken, and a position that moves  *)
(* with every byte stored.  Bytes are named by their rank of arrival, so   *)
(* the queue is the interval taken + 1 .. stored.                          *)
(*                                                                         *)
(* The ring has no test for "full": one byte more than SIZE_BUF_RX - 1     *)
(* makes the indices equal, which reads as "empty".  The promise therefore *)
(* holds while the sender never lets the backlog grow beyond that, and Put *)
(* is guarded by it.                                                       *)
(***************************************************************************)
EXTENDS Naturals

CONSTANT SIZE_BUF_RX   \* slots of rxFIFO.buffer (200 in uart.h)

VARIABLES
  stored,   \* bytes the interrupt handler has stored
  taken,    \* bytes read or cleared by the main program
  got       \* what the last ReadUART returned: a byte, or 0 for "none"

vars == <<stored, taken, got>>

Room == stored - taken < SIZE_BUF_RX - 1

(* The value of GetWritePosition().                                        *)
Position == stored % SIZE_BUF_RX

(* The value of AvailableUARTData().                                       *)
Available == taken < stored

Init == stored = 0 /\ taken = 0 /\ got = 0

Put == Room /\ stored' = stored + 1 /\ UNCHANGED <<taken, got>>

Get == Available /\ taken' = taken + 1 /\ got' = taken + 1 /\ UNCHANGED stored

GetNothing == ~Available /\ got' = 0 /\ UNCHANGED <<stored, taken>>

Clear == taken' = stored /\ UNCHANGED <<stored, got>>

Next == Put \/ Get \/ GetNothing \/ Clear

Spec == Init /\ [][Next]_vars
=============================================================================
