----------------------------- MODULE SerialPipe -----------------------------
(***************************************************************************)
(* What the transmit half of the UART driver promises its caller: the      *)
(* bytes accepted leave the pin in the order of acceptance, each once, and *)
(* every one of them does.  The n-th byte accepted is named n.             *)
(***************************************************************************)
EXTENDS Naturals, Sequences

VARIABLES
  pending,   \* bytes accepted that have not left the pin
  wire       \* bytes that left the pin

vars == <<pending, wire>>

Init == pending = <<>> /\ wire = <<>>

Accept ==
  /\ pending' = Append(pending, Len(wire) + Len(pending) + 1)
  /\ UNCHANGED wire

Transmit ==
  /\ pending # <<>>
  /\ wire' = Append(wire, Head(pending))
  /\ pending' = Tail(pending)

Next == Accept \/ Transmit

Spec == Init /\ [][Next]_vars
FairSpec == Spec /\ WF_vars(Transmit)
=============================================================================
