----------------------------- MODULE RadioLink -----------------------------
(***************************************************************************)
(* The packet half of src/Src/radio.c and the two loops of src/Src/main.c  *)
(* that use it: a device built with RADIO_TX sends one packet after the    *)
(* other, a device built with RADIO_RX listens and starts to listen again  *)
(* when it has taken a packet.  Devices share nothing but the air.         *)
(*                                                                         *)
(* On a device the main program runs one access to shared memory at a time *)
(* (pc), preempted by RADIO_IRQHandler, which nothing preempts.  The radio *)
(* of the chip is external: with the shortcuts READY_START and END_DISABLE *)
(* it ramps up, sends or receives one packet, disables itself and raises   *)
(* DISABLED.  What a packet carries is left out.                           *)
(***************************************************************************)
EXTENDS Integers, Sequences, FiniteSets

CONSTANTS
  Senders, Receivers    \* devices of the two builds

None == "none"

ASSUME LinkAssumption ==
  /\ Senders \cap Receivers = {}
  /\ None \notin Senders

Devices == Senders \cup Receivers

VARIABLES
  pc,             \* where the loop of main.c stands
  TxBusyState, RxBusyState,   \* the flags of radio.c
  RxEnableData,   \* 0, CRC_OK or CRC_ERROR
  radio,          \* state of the radio: DISABLED, RU (ramp-up), TX or RX
  disabled,       \* EVENTS_DISABLED
  CRCSTATUS,      \* of the last packet received: 1 if its CRC was right
  hearing,        \* the sender whose packet a receiver is receiving, or None
  unreported      \* history: the receptions IsRxDataEnable has not reported

flags == <<TxBusyState, RxBusyState, RxEnableData>>
chip == <<radio, disabled, CRCSTATUS, hearing>>
vars == <<pc, flags, chip, unreported>>

-----------------------------------------------------------------------------
CRC_OK == 1
CRC_ERROR == 2

(* What RADIO_IRQHandler makes of CRCSTATUS.                               *)
Verdict(crc) == IF crc = 1 THEN CRC_OK ELSE CRC_ERROR

At(d, from) == pc[d] = from
Goto(d, to) == pc' = [pc EXCEPT ![d] = to]

(* RadioInit has run; a sender is about to call RfSendPacket, a receiver   *)
(* RfReadPacket.                                                           *)
Init ==
  /\ pc = [d \in Devices |-> "test"]
  /\ TxBusyState = [d \in Devices |-> FALSE]
  /\ RxBusyState = [d \in Devices |-> FALSE]
  /\ RxEnableData = [d \in Devices |-> 0]
  /\ radio = [d \in Devices |-> "DISABLED"]
  /\ disabled = [d \in Devices |-> FALSE]
  /\ CRCSTATUS = [d \in Devices |-> 0]
  /\ hearing = [d \in Devices |-> None]
  /\ unreported = [d \in Devices |-> <<>>]

-----------------------------------------------------------------------------
(* RfSendPacket.  Busy, it returns 0xFF, and the loop calls it again.      *)

(* Bug: the test is missing.                                               *)
SendNoTest(d) ==
  /\ At(d, "test")
  /\ Goto(d, "trigger")
  /\ UNCHANGED <<flags, chip, unreported>>

SendTest(d) ==
  /\ At(d, "test")
  /\ ~TxBusyState[d]
  /\ Goto(d, "trigger")
  /\ UNCHANGED <<flags, chip, unreported>>

(* A task that starts the radio does so only when it is disabled.          *)
TriggerEnable(d) ==
  /\ At(d, "trigger")
  /\ Goto(d, "mark")
  /\ radio' = [radio EXCEPT ![d] = IF @ = "DISABLED" THEN "RU" ELSE @]
  /\ UNCHANGED <<flags, disabled, CRCSTATUS, hearing, unreported>>

SendMark(d) ==
  /\ At(d, "mark")
  /\ TxBusyState' = [TxBusyState EXCEPT ![d] = TRUE]
  /\ Goto(d, "test")
  /\ UNCHANGED <<RxBusyState, RxEnableData, chip, unreported>>

RfSendPacket(d) == SendTest(d) \/ TriggerEnable(d) \/ SendMark(d)

-----------------------------------------------------------------------------
(* RfReadPacket.  The loop ignores its result: busy, it only polls on.     *)
ReadTest(d) ==
  /\ At(d, "test")
  /\ Goto(d, IF RxBusyState[d] THEN "poll" ELSE "trigger")
  /\ UNCHANGED <<flags, chip, unreported>>

ReadMark(d) ==
  /\ At(d, "mark")
  /\ RxBusyState' = [RxBusyState EXCEPT ![d] = TRUE]
  /\ Goto(d, "poll")
  /\ UNCHANGED <<TxBusyState, RxEnableData, chip, unreported>>

RfReadPacket(d) == ReadTest(d) \/ TriggerEnable(d) \/ ReadMark(d)

(* IsRxDataEnable, called until it returns CRC_OK: two looks at the flag,  *)
(* and the flag cleared.  The interrupt may set it between any two.        *)
PollOk(d) ==
  /\ At(d, "poll")
  /\ Goto(d, IF RxEnableData[d] = CRC_OK THEN "clear ok" ELSE "poll error")
  /\ UNCHANGED <<flags, chip, unreported>>

PollError(d) ==
  /\ At(d, "poll error")
  /\ Goto(d, IF RxEnableData[d] = CRC_ERROR THEN "clear error" ELSE "poll")
  /\ UNCHANGED <<flags, chip, unreported>>

(* Bugs: CRC_ERROR is returned as CRC_OK; RxEnableData = 0 is missing.     *)
ReportAllOk(d) ==
  /\ \/ At(d, "clear ok") /\ Goto(d, "test")
     \/ At(d, "clear error") /\ Goto(d, "test")
  /\ RxEnableData' = [RxEnableData EXCEPT ![d] = 0]
  /\ unreported' = [unreported EXCEPT ![d] = IF @ = <<>> THEN @ ELSE Tail(@)]
  /\ UNCHANGED <<TxBusyState, RxBusyState, chip>>

ReportNoClear(d) ==
  /\ \/ At(d, "clear ok") /\ Goto(d, "test")
     \/ At(d, "clear error") /\ Goto(d, "poll")
  /\ unreported' = [unreported EXCEPT ![d] = IF @ = <<>> THEN @ ELSE Tail(@)]
  /\ UNCHANGED <<flags, chip>>

(* After CRC_OK the loop wastes a million additions and listens again;     *)
(* CRC_ERROR it takes for nothing received.                                *)
Report(d) ==
  /\ \/ At(d, "clear ok") /\ Goto(d, "test")
     \/ At(d, "clear error") /\ Goto(d, "poll")
  /\ RxEnableData' = [RxEnableData EXCEPT ![d] = 0]
  /\ unreported' = [unreported EXCEPT ![d] = IF @ = <<>> THEN @ ELSE Tail(@)]
  /\ UNCHANGED <<TxBusyState, RxBusyState, chip>>

IsRxDataEnable(d) == PollOk(d) \/ PollError(d) \/ Report(d)

-----------------------------------------------------------------------------
(* Bugs: RxBusyState is not reset; TxBusyState is not.                     *)
RadioIrqStayBusy(d) ==
  /\ disabled[d]
  /\ disabled' = [disabled EXCEPT ![d] = FALSE]
  /\ TxBusyState' = [TxBusyState EXCEPT ![d] = FALSE]
  /\ RxEnableData' =
       [RxEnableData EXCEPT ![d] =
          IF RxBusyState[d] THEN Verdict(CRCSTATUS[d]) ELSE @]
  /\ UNCHANGED <<pc, RxBusyState, radio, CRCSTATUS, hearing, unreported>>

RadioIrqStaySending(d) ==
  /\ disabled[d]
  /\ disabled' = [disabled EXCEPT ![d] = FALSE]
  /\ RxBusyState' = [RxBusyState EXCEPT ![d] = FALSE]
  /\ RxEnableData' =
       [RxEnableData EXCEPT ![d] =
          IF RxBusyState[d] THEN Verdict(CRCSTATUS[d]) ELSE @]
  /\ UNCHANGED <<pc, TxBusyState, radio, CRCSTATUS, hearing, unreported>>

RADIO_IRQHandler(d) ==
  /\ disabled[d]
  /\ disabled' = [disabled EXCEPT ![d] = FALSE]
  /\ TxBusyState' = [TxBusyState EXCEPT ![d] = FALSE]
  /\ RxBusyState' = [RxBusyState EXCEPT ![d] = FALSE]
  /\ RxEnableData' =
       [RxEnableData EXCEPT ![d] =
          IF RxBusyState[d] THEN Verdict(CRCSTATUS[d]) ELSE @]
  /\ UNCHANGED <<pc, radio, CRCSTATUS, hearing, unreported>>

-----------------------------------------------------------------------------
(* The radios.  Ramping up takes 140 us, so the busy flag, set a few CPU   *)
(* cycles after the task, is up by then.                                   *)
RampedUp(d) == radio[d] = "RU" /\ ~At(d, "mark")

(* A receiver that is listening may make out the address of the packet.    *)
StartPacket(s) ==
  /\ RampedUp(s)
  /\ radio' = [radio EXCEPT ![s] = "TX"]
  /\ \E heard \in SUBSET {r \in Receivers : radio[r] = "RX" /\ hearing[r] = None} :
       hearing' = [d \in Devices |-> IF d \in heard THEN s ELSE hearing[d]]
  /\ UNCHANGED <<pc, flags, disabled, CRCSTATUS, unreported>>

Listen(r) ==
  /\ RampedUp(r)
  /\ radio' = [radio EXCEPT ![r] = "RX"]
  /\ UNCHANGED <<pc, flags, disabled, CRCSTATUS, hearing, unreported>>

(* The packet ends: at the sender and at the receivers that hear it, whole *)
(* or spoilt, the radio disables itself.                                   *)
EndPacket(s) ==
  /\ radio[s] = "TX"
  /\ LET heard == {r \in Receivers : hearing[r] = s}
         over == heard \cup {s}
     IN  /\ radio' = [d \in Devices |-> IF d \in over THEN "DISABLED" ELSE radio[d]]
         /\ disabled' = [d \in Devices |-> d \in over \/ disabled[d]]
         /\ \E crc \in [heard -> {0, 1}] :
              /\ CRCSTATUS' = [d \in Devices |->
                   IF d \in heard THEN crc[d] ELSE CRCSTATUS[d]]
              /\ unreported' = [d \in Devices |->
                   IF d \in heard THEN Append(unreported[d], Verdict(crc[d]))
                   ELSE unreported[d]]
         /\ hearing' = [d \in Devices |-> IF d \in heard THEN None ELSE hearing[d]]
  /\ UNCHANGED <<pc, flags>>

Loop(d) ==
  IF d \in Senders THEN RfSendPacket(d) ELSE RfReadPacket(d) \/ IsRxDataEnable(d)

Next ==
  \/ \E d \in Devices : Loop(d) \/ RADIO_IRQHandler(d)
  \/ \E s \in Senders : StartPacket(s) \/ EndPacket(s)
  \/ \E r \in Receivers : Listen(r)

Spec == Init /\ [][Next]_vars

(* Every CPU executes, and every radio finishes what it has started.       *)
FairSpec ==
  /\ Spec
  /\ \A d \in Devices : WF_vars(Loop(d)) /\ WF_vars(RADIO_IRQHandler(d))
  /\ \A s \in Senders : WF_vars(StartPacket(s)) /\ WF_vars(EndPacket(s))
  /\ \A r \in Receivers : WF_vars(Listen(r))

-----------------------------------------------------------------------------
(* The radio is set up and triggered only when it has finished and the     *)
(* interrupt has been served: the busy flags, set after the task and reset *)
(* by the interrupt, never say "free" while a packet is under way.         *)
FreeWhenTriggered ==
  \A d \in Devices : At(d, "trigger") => radio[d] = "DISABLED" /\ ~disabled[d]

(* Every reception is reported once and with its own CRC: the flag, tested *)
(* and cleared by the loop and set by the interrupt, holds one reception,  *)
(* and the next one cannot come before it has been reported.               *)
ReportedOnce ==
  \A r \in Receivers :
    /\ Len(unreported[r]) <= 1
    /\ At(r, "clear ok") => unreported[r] = <<CRC_OK>>
    /\ At(r, "clear error") => unreported[r] = <<CRC_ERROR>>

(* A sender never falls silent.                                            *)
KeepsSending == \A s \in Senders : []<>(radio[s] = "TX")

(* A receiver listens again and again, unless it has met a bad CRC.        *)
ListensUntilError ==
  \A r \in Receivers : []<>(radio[r] = "RX") \/ <>At(r, "clear error")

(* The loop of main.c:82 starts to listen again only after CRC_OK: one bad *)
(* packet, and the receiver never hears another one.                       *)
DeafAfterError ==
  \A r \in Receivers :
    At(r, "clear error") ~> [](radio[r] = "DISABLED")
=============================================================================
