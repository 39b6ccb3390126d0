-------------------------- MODULE RadioLink_proofs --------------------------
(***************************************************************************)
(* Proofs about RadioLink for any number of senders and receivers.         *)
(***************************************************************************)
EXTENDS RadioLink, TLAPS

SenderPc == {"test", "trigger", "mark"}
ReceiverPc ==
  SenderPc \cup {"poll", "poll error", "clear ok", "clear error"}

LinkTypeOK ==
  /\ pc \in [Devices -> ReceiverPc]
  /\ TxBusyState \in [Devices -> BOOLEAN]
  /\ RxBusyState \in [Devices -> BOOLEAN]
  /\ RxEnableData \in [Devices -> {0, CRC_OK, CRC_ERROR}]
  /\ radio \in [Devices -> {"DISABLED", "RU", "TX", "RX"}]
  /\ disabled \in [Devices -> BOOLEAN]
  /\ CRCSTATUS \in [Devices -> {0, 1}]
  /\ hearing \in [Devices -> Senders \cup {None}]
  /\ unreported \in [Devices -> Seq({CRC_OK, CRC_ERROR})]

(* The radio has finished and its interrupt has been served.               *)
Free(d) == radio[d] = "DISABLED" /\ ~disabled[d]

(* A sender's flag is up from shortly after the task to the interrupt.     *)
SenderOK(s) ==
  /\ pc[s] \in SenderPc
  /\ disabled[s] => radio[s] = "DISABLED"
  /\ pc[s] = "test" /\ ~Free(s) => TxBusyState[s]
  /\ pc[s] = "trigger" => Free(s)
  /\ pc[s] = "mark" => radio[s] = "RU"

(* The four stages of a reception, and where the loop may be in each: the  *)
(* radio off, listening, done with the interrupt pending, to be reported.  *)
Off(r) ==
  Free(r) /\ ~RxBusyState[r] /\ RxEnableData[r] = 0 /\ unreported[r] = <<>>

Listening(r) ==
  /\ radio[r] \in {"RU", "RX"} /\ ~disabled[r]
  /\ RxEnableData[r] = 0 /\ unreported[r] = <<>>
  /\ IF pc[r] = "mark" THEN radio[r] = "RU" ELSE RxBusyState[r]

Ended(r) ==
  /\ radio[r] = "DISABLED" /\ disabled[r] /\ RxBusyState[r]
  /\ RxEnableData[r] = 0 /\ unreported[r] = <<Verdict(CRCSTATUS[r])>>

ToReport(r) ==
  /\ Free(r) /\ ~RxBusyState[r]
  /\ RxEnableData[r] \in {CRC_OK, CRC_ERROR}
  /\ unreported[r] = <<RxEnableData[r]>>

ReceiverOK(r) ==
  /\ pc[r] \in {"test", "trigger"} => Off(r)
  /\ pc[r] = "mark" => Listening(r)
  /\ pc[r] \in {"poll", "poll error"} =>
       Off(r) \/ Listening(r) \/ Ended(r) \/ ToReport(r)
  /\ pc[r] = "clear ok" => ToReport(r) /\ RxEnableData[r] = CRC_OK
  /\ pc[r] = "clear error" => ToReport(r) /\ RxEnableData[r] = CRC_ERROR
  /\ hearing[r] # None => radio[r] = "RX"

LinkInv ==
  /\ LinkTypeOK
  /\ \A s \in Senders : SenderOK(s)
  /\ \A r \in Receivers : ReceiverOK(r)

-----------------------------------------------------------------------------
LEMMA DeviceKinds ==
  /\ \A d \in Devices : d \in Senders <=> d \notin Receivers
  /\ Senders \subseteq Devices /\ Receivers \subseteq Devices
  /\ None \notin Senders
  BY LinkAssumption DEF Devices

LEMMA Verdicts == CRC_OK # 0 /\ CRC_ERROR # 0
  BY DEF CRC_OK, CRC_ERROR

LEMMA OneReport ==
  /\ \A v \in {CRC_OK, CRC_ERROR} :
       /\ Append(<<>>, v) = <<v>> /\ Tail(<<v>>) = <<>>
       /\ <<v>> # <<>> /\ Len(<<v>>) = 1
  /\ \A q \in Seq({CRC_OK, CRC_ERROR}), v \in {CRC_OK, CRC_ERROR} :
       /\ Append(q, v) \in Seq({CRC_OK, CRC_ERROR})
       /\ q # <<>> => Tail(q) \in Seq({CRC_OK, CRC_ERROR})
  /\ \A crc : Verdict(crc) \in {CRC_OK, CRC_ERROR}
  BY DEF Verdict

LEMMA LinkStart == Init => LinkInv
<1> SUFFICES ASSUME Init PROVE LinkInv OBVIOUS
<1> USE DeviceKinds
<1>1. LinkTypeOK
  BY DEF Init, LinkTypeOK, ReceiverPc, SenderPc
<1>2. \A s \in Senders : SenderOK(s)
  BY DEF Init, SenderOK, SenderPc, Free
<1>3. \A r \in Receivers : ReceiverOK(r)
  BY DEF Init, ReceiverOK, Off, Free
<1> QED BY <1>1, <1>2, <1>3 DEF LinkInv

(* A device is not disturbed by a step that leaves its variables alone.    *)
Same(d) ==
  /\ pc'[d] = pc[d] /\ TxBusyState'[d] = TxBusyState[d]
  /\ RxBusyState'[d] = RxBusyState[d] /\ RxEnableData'[d] = RxEnableData[d]
  /\ radio'[d] = radio[d] /\ disabled'[d] = disabled[d]
  /\ CRCSTATUS'[d] = CRCSTATUS[d] /\ hearing'[d] = hearing[d]
  /\ unreported'[d] = unreported[d]

LEMMA Undisturbed ==
  ASSUME NEW d, Same(d)
  PROVE  /\ SenderOK(d) => SenderOK(d)'
         /\ ReceiverOK(d) => ReceiverOK(d)'
  BY DEF Same, SenderOK, ReceiverOK, Off, Listening, Ended, ToReport, Free
(* A step of one device leaves the others alone.                           *)
LEMMA OneDevice ==
  ASSUME LinkInv, LinkTypeOK', NEW d \in Devices,
         \A e \in Devices \ {d} : Same(e),
         d \in Senders => SenderOK(d)', d \in Receivers => ReceiverOK(d)'
  PROVE  LinkInv'
<1>1. ASSUME NEW s \in Senders PROVE SenderOK(s)'
  BY Undisturbed, DeviceKinds DEF LinkInv
<1>2. ASSUME NEW r \in Receivers PROVE ReceiverOK(r)'
  BY Undisturbed, DeviceKinds DEF LinkInv
<1> QED BY <1>1, <1>2 DEF LinkInv

LEMMA SendKept ==
  ASSUME LinkInv, NEW s \in Senders, RfSendPacket(s)
  PROVE  LinkInv'
<1> USE DeviceKinds DEF SenderPc, ReceiverPc
<1>1. LinkTypeOK'
  BY ZenonT(60) DEF LinkInv, LinkTypeOK, RfSendPacket, SendTest, TriggerEnable, SendMark,
         At, Goto, flags, chip
<1>2. \A e \in Devices \ {s} : Same(e)
  BY DEF LinkInv, LinkTypeOK, RfSendPacket, SendTest, TriggerEnable, SendMark,
         At, Goto, flags, chip, Same
<1>3. SenderOK(s)'
  BY ZenonT(60) DEF LinkInv, LinkTypeOK, RfSendPacket, SendTest, TriggerEnable, SendMark,
         At, Goto, flags, chip, SenderOK, Free
<1> QED BY <1>1, <1>2, <1>3, OneDevice

LEMMA ReadKept ==
  ASSUME LinkInv, NEW r \in Receivers, RfReadPacket(r)
  PROVE  LinkInv'
<1> USE DeviceKinds DEF SenderPc, ReceiverPc
<1>1. LinkTypeOK'
  BY ZenonT(60) DEF LinkInv, LinkTypeOK, RfReadPacket, ReadTest, TriggerEnable, ReadMark,
         At, Goto, flags, chip
<1>2. \A e \in Devices \ {r} : Same(e)
  BY DEF LinkInv, LinkTypeOK, RfReadPacket, ReadTest, TriggerEnable, ReadMark,
         At, Goto, flags, chip, Same
<1>3. ReceiverOK(r)'
  BY DEF LinkInv, LinkTypeOK, RfReadPacket, ReadTest, TriggerEnable, ReadMark,
         At, Goto, flags, chip, ReceiverOK, Off, Listening, Free
<1> QED BY <1>1, <1>2, <1>3, OneDevice

LEMMA PollKept ==
  ASSUME LinkInv, NEW r \in Receivers, IsRxDataEnable(r)
  PROVE  LinkInv'
<1> USE DeviceKinds DEF SenderPc, ReceiverPc
<1>1. LinkTypeOK'
  <2>1. CASE PollOk(r) \/ PollError(r)
    BY <2>1 DEF LinkInv, LinkTypeOK, PollOk, PollError, At, Goto, flags, chip
  <2>2. CASE Report(r)
    <3>1. \A q \in Seq({CRC_OK, CRC_ERROR}) :
            (IF q = <<>> THEN q ELSE Tail(q)) \in Seq({CRC_OK, CRC_ERROR})
      BY OneReport
    <3> QED BY <2>2, <3>1 DEF LinkInv, LinkTypeOK, Report, At, Goto, chip
  <2> QED BY <2>1, <2>2 DEF IsRxDataEnable
<1>2. \A e \in Devices \ {r} : Same(e)
  BY DEF LinkInv, LinkTypeOK, IsRxDataEnable, PollOk, PollError, Report,
         At, Goto, flags, chip, Same
<1>3. ReceiverOK(r)'
  <2>1. CASE PollOk(r) \/ PollError(r)
    <3>1. ReceiverOK(r) /\ r \in Devices /\ pc \in [Devices -> ReceiverPc]
      BY DEF LinkInv, LinkTypeOK
    <3>2. /\ UNCHANGED <<RxBusyState, RxEnableData, radio, disabled, CRCSTATUS>>
          /\ UNCHANGED <<hearing, unreported>>
      BY <2>1 DEF PollOk, PollError, flags, chip
    <3>3. /\ pc[r] \in {"poll", "poll error"}
          /\ \/ pc'[r] \in {"poll", "poll error"}
             \/ pc'[r] = "clear ok" /\ RxEnableData[r] = CRC_OK
             \/ pc'[r] = "clear error" /\ RxEnableData[r] = CRC_ERROR
      BY <2>1, <3>1 DEF PollOk, PollError, At, Goto
    <3>4. /\ Off(r)' = Off(r) /\ Ended(r)' = Ended(r)
          /\ ToReport(r)' = ToReport(r)
      BY <3>2 DEF Off, Ended, ToReport, Free
    <3>5. Listening(r) => Listening(r)'
      BY <3>2, <3>3 DEF Listening
    <3>6. RxEnableData[r] # 0 => ToReport(r)
      BY <3>1, <3>3 DEF ReceiverOK, Off, Listening, Ended
    <3>7. hearing'[r] # None => radio'[r] = "RX"
      BY <3>1, <3>2 DEF ReceiverOK
    <3>8. CASE pc'[r] \in {"poll", "poll error"}
      BY <3>1, <3>3, <3>4, <3>5, <3>7, <3>8 DEF ReceiverOK
    <3>9. CASE pc'[r] \in {"clear ok", "clear error"}
      <4>1. RxEnableData[r] # 0
        <5>1. RxEnableData[r] = CRC_OK \/ RxEnableData[r] = CRC_ERROR
          BY <3>3, <3>9
        <5> QED BY <5>1, Verdicts
      <4>2. ToReport(r)' /\ RxEnableData'[r] = RxEnableData[r]
        BY <3>2, <3>4, <3>6, <4>1
      <4> QED BY <3>3, <3>7, <3>9, <4>2 DEF ReceiverOK
    <3> QED BY <3>3, <3>8, <3>9
  <2>2. CASE Report(r)
    <3>1. ToReport(r) /\ hearing[r] = None
      BY <2>2 DEF LinkInv, Report, At, ReceiverOK, ToReport, Free
    <3>2. /\ pc'[r] \in {"test", "poll"} /\ RxEnableData'[r] = 0
          /\ unreported'[r] = Tail(unreported[r])
          /\ UNCHANGED <<RxBusyState, chip>>
      <4>1. unreported[r] # <<>> BY <3>1, OneReport DEF ToReport
      <4> QED BY <2>2, <4>1 DEF LinkInv, LinkTypeOK, Report, At, Goto
    <3>3. unreported'[r] = <<>> BY <3>1, <3>2, OneReport DEF ToReport
    <3>4. Off(r)' BY <3>1, <3>2, <3>3 DEF Off, ToReport, Free, chip
    <3> QED BY <3>1, <3>2, <3>4 DEF ReceiverOK, chip
  <2> QED BY <2>1, <2>2 DEF IsRxDataEnable
<1> QED BY <1>1, <1>2, <1>3, OneDevice

(* The interrupt finds the radio off: it comes after the end of a packet.  *)
LEMMA IrqKept ==
  ASSUME LinkInv, NEW d \in Devices, RADIO_IRQHandler(d)
  PROVE  LinkInv'
<1> USE DeviceKinds DEF SenderPc, ReceiverPc
<1>1. LinkTypeOK'
  BY DEF LinkInv, LinkTypeOK, RADIO_IRQHandler, Verdict
<1>2. \A e \in Devices \ {d} : Same(e)
  BY DEF LinkInv, LinkTypeOK, RADIO_IRQHandler, Same
<1>3. ASSUME d \in Senders PROVE SenderOK(d)'
  BY <1>3 DEF LinkInv, LinkTypeOK, RADIO_IRQHandler, SenderOK, Free
<1>4. ASSUME d \in Receivers PROVE ReceiverOK(d)'
  <2>1. Ended(d) /\ pc[d] \in {"poll", "poll error"}
    BY <1>4 DEF LinkInv, LinkTypeOK, RADIO_IRQHandler, ReceiverOK, Off,
                Listening, ToReport, Free
  <2>2. ToReport(d)'
    BY <2>1 DEF LinkInv, LinkTypeOK, RADIO_IRQHandler, Ended, ToReport, Free,
                Verdict
  <2> QED BY <1>4, <2>1, <2>2
          DEF LinkInv, RADIO_IRQHandler, ReceiverOK, Ended
<1> QED BY <1>1, <1>2, <1>3, <1>4, OneDevice

LEMMA StartKept ==
  ASSUME LinkInv, NEW s \in Senders, StartPacket(s)
  PROVE  LinkInv'
<1> USE DeviceKinds DEF SenderPc, ReceiverPc
<1>1. PICK heard \in SUBSET {r \in Receivers : radio[r] = "RX" /\ hearing[r] = None} :
        hearing' = [d \in Devices |-> IF d \in heard THEN s ELSE hearing[d]]
  BY DEF StartPacket
<1>2. LinkTypeOK'
  BY <1>1 DEF LinkInv, LinkTypeOK, StartPacket, flags
<1>3. ASSUME NEW t \in Senders PROVE SenderOK(t)'
  BY DEF LinkInv, LinkTypeOK, StartPacket, RampedUp, At, flags, SenderOK, Free
<1>4. ASSUME NEW r \in Receivers PROVE ReceiverOK(r)'
  <2>1. radio'[r] = radio[r] BY DEF LinkInv, LinkTypeOK, StartPacket
  <2>2. hearing'[r] # None => radio'[r] = "RX"
    BY <1>1, <2>1 DEF LinkInv, ReceiverOK
  <2> QED BY <2>1, <2>2
          DEF LinkInv, StartPacket, flags, ReceiverOK, Off, Listening, Ended,
              ToReport, Free
<1> QED BY <1>2, <1>3, <1>4 DEF LinkInv

LEMMA ListenKept ==
  ASSUME LinkInv, NEW r \in Receivers, Listen(r)
  PROVE  LinkInv'
<1> USE DeviceKinds DEF SenderPc, ReceiverPc
<1>1. LinkTypeOK' BY DEF LinkInv, LinkTypeOK, Listen, flags
<1>2. \A e \in Devices \ {r} : Same(e)
  BY DEF LinkInv, LinkTypeOK, Listen, flags, Same
<1>3. ReceiverOK(r)'
  BY DEF LinkInv, LinkTypeOK, Listen, RampedUp, At, flags, ReceiverOK, Off,
         Listening, Ended, ToReport, Free
<1> QED BY <1>1, <1>2, <1>3, OneDevice

LEMMA EndKept ==
  ASSUME LinkInv, NEW s \in Senders, EndPacket(s)
  PROVE  LinkInv'
<1> USE DeviceKinds DEF SenderPc, ReceiverPc
<1> DEFINE heard == {r \in Receivers : hearing[r] = s}
           over == heard \cup {s}
<1>1. PICK crc \in [heard -> {0, 1}] :
        /\ CRCSTATUS' = [d \in Devices |->
             IF d \in heard THEN crc[d] ELSE CRCSTATUS[d]]
        /\ unreported' = [d \in Devices |->
             IF d \in heard THEN Append(unreported[d], Verdict(crc[d]))
             ELSE unreported[d]]
  BY DEF EndPacket
<1>2. /\ radio[s] = "TX"
      /\ radio' = [d \in Devices |-> IF d \in over THEN "DISABLED" ELSE radio[d]]
      /\ disabled' = [d \in Devices |-> d \in over \/ disabled[d]]
      /\ hearing' = [d \in Devices |-> IF d \in heard THEN None ELSE hearing[d]]
      /\ UNCHANGED <<pc, flags>>
  BY DEF EndPacket
<1>3. LinkTypeOK'
  <2>1. unreported' \in [Devices -> Seq({CRC_OK, CRC_ERROR})]
    <3> SUFFICES ASSUME NEW d \in Devices
                 PROVE  (IF d \in heard
                         THEN Append(unreported[d], Verdict(crc[d]))
                         ELSE unreported[d]) \in Seq({CRC_OK, CRC_ERROR})
      BY <1>1
    <3>1. unreported[d] \in Seq({CRC_OK, CRC_ERROR})
      BY DEF LinkInv, LinkTypeOK
    <3> QED BY <3>1, OneReport
  <2> QED BY <1>1, <1>2, <2>1 DEF LinkInv, LinkTypeOK, flags
<1>4. ASSUME NEW t \in Senders PROVE SenderOK(t)'
  <2>1. SenderOK(t) /\ t \in Devices BY DEF LinkInv
  <2>2. CASE t = s
    BY <1>2, <2>1, <2>2 DEF flags, SenderOK, Free
  <2>3. CASE t # s
    <3>1. t \notin over BY <2>3
    <3> QED BY <1>2, <2>1, <3>1 DEF LinkInv, LinkTypeOK, flags, SenderOK, Free
  <2> QED BY <2>2, <2>3
<1>5. ASSUME NEW r \in Receivers PROVE ReceiverOK(r)'
  <2>1. ReceiverOK(r) /\ r \in Devices BY DEF LinkInv
  <2>2. CASE r \in heard
    <3>1. radio[r] = "RX" BY <2>1, <2>2 DEF ReceiverOK
    <3>2. Listening(r) /\ pc[r] \in {"poll", "poll error"}
      BY <2>1, <3>1 DEF LinkInv, LinkTypeOK, ReceiverOK, Off, Listening,
                        Ended, ToReport, Free
    <3>3. unreported'[r] = <<Verdict(CRCSTATUS'[r])>>
      <4>1. /\ unreported'[r] = Append(<<>>, Verdict(crc[r]))
            /\ CRCSTATUS'[r] = crc[r]
        BY <1>1, <2>1, <2>2, <3>2 DEF Listening
      <4> QED BY <4>1, OneReport
    <3>4. Ended(r)'
      BY <1>2, <2>1, <2>2, <3>2, <3>3 DEF flags, Listening, Ended
    <3> QED BY <1>2, <2>1, <2>2, <3>2, <3>4 DEF ReceiverOK
  <2>3. CASE r \notin heard
    <3>1. r \notin over BY <2>3
    <3>2. /\ radio'[r] = radio[r] /\ disabled'[r] = disabled[r]
          /\ hearing'[r] = hearing[r] /\ CRCSTATUS'[r] = CRCSTATUS[r]
          /\ unreported'[r] = unreported[r]
      BY <1>1, <1>2, <2>1, <2>3, <3>1 DEF LinkInv, LinkTypeOK
    <3>3. Same(r) BY <1>2, <3>2 DEF flags, Same
    <3> QED BY <2>1, <3>3, Undisturbed
  <2> QED BY <2>2, <2>3
<1> QED BY <1>3, <1>4, <1>5 DEF LinkInv

LEMMA LinkKept == LinkInv /\ [Next]_vars => LinkInv'
<1> SUFFICES ASSUME LinkInv, [Next]_vars PROVE LinkInv' OBVIOUS
<1>1. ASSUME NEW d \in Devices, Loop(d) PROVE LinkInv'
  BY <1>1, SendKept, ReadKept, PollKept, DeviceKinds DEF Loop
<1>2. CASE UNCHANGED vars
  <2>1. LinkTypeOK' BY <1>2 DEF LinkInv, LinkTypeOK, vars, flags, chip
  <2>2. \A d \in Devices : Same(d) BY <1>2 DEF Same, vars, flags, chip
  <2> QED BY <2>1, <2>2, Undisturbed, DeviceKinds DEF LinkInv
<1> QED BY <1>1, <1>2, IrqKept, StartKept, EndKept, ListenKept DEF Next

LEMMA LinkInvariant == Spec => []LinkInv
BY LinkStart, LinkKept, PTL DEF Spec

-----------------------------------------------------------------------------
(* Whatever the number of devices: RfSendPacket and RfReadPacket trigger   *)
(* the radio only when it has finished and RADIO_IRQHandler has run.       *)
THEOREM TriggeredWhenFree == Spec => []FreeWhenTriggered
<1>1. LinkInv => FreeWhenTriggered
  BY DeviceKinds
  DEF LinkInv, FreeWhenTriggered, At, SenderOK, ReceiverOK, Off, Free
<1> QED BY <1>1, LinkInvariant, PTL

(* Every reception is reported by IsRxDataEnable once, with its own CRC,   *)
(* however the interrupt falls between its two looks at RxEnableData.      *)
THEOREM ReceptionsReportedOnce == Spec => []ReportedOnce
<1>1. ASSUME LinkInv PROVE ReportedOnce
  <2> SUFFICES ASSUME NEW r \in Receivers
               PROVE  /\ Len(unreported[r]) <= 1
                      /\ At(r, "clear ok") => unreported[r] = <<CRC_OK>>
                      /\ At(r, "clear error") => unreported[r] = <<CRC_ERROR>>
    BY DEF ReportedOnce
  <2>1. pc[r] \in ReceiverPc /\ ReceiverOK(r)
    BY <1>1, DeviceKinds DEF LinkInv, LinkTypeOK
  <2>2. Off(r) \/ Listening(r) \/ Ended(r) \/ ToReport(r)
    BY <2>1 DEF ReceiverOK, ReceiverPc, SenderPc
  <2>3. Len(unreported[r]) <= 1
    <3>1. unreported[r] = <<>> \/ \E v \in {CRC_OK, CRC_ERROR} : unreported[r] = <<v>>
      BY <2>2, OneReport DEF Off, Listening, Ended, ToReport
    <3>2. CASE unreported[r] = <<>> BY <3>2
    <3>3. ASSUME NEW v \in {CRC_OK, CRC_ERROR}, unreported[r] = <<v>>
          PROVE  Len(unreported[r]) <= 1
      <4>1. Len(unreported[r]) = 1 BY <3>3, OneReport
      <4> QED BY <4>1
    <3> QED BY <3>1, <3>2, <3>3
  <2> QED BY <2>1, <2>3 DEF At, ReceiverOK, ToReport
<1> QED BY <1>1, LinkInvariant, PTL
(* After a bad CRC the loop of main.c polls a receiver that is off.        *)
Deaf(r) ==
  /\ Free(r) /\ ~RxBusyState[r]
  /\ \/ pc[r] = "clear error"
     \/ pc[r] \in {"poll", "poll error"} /\ RxEnableData[r] = 0

LEMMA DeafKept ==
  ASSUME NEW r \in Receivers
  PROVE  LinkInv /\ Deaf(r) /\ [Next]_vars => Deaf(r)'
<1> SUFFICES ASSUME LinkInv, Deaf(r), [Next]_vars PROVE Deaf(r)' OBVIOUS
<1> r \in Devices /\ r \notin Senders BY DeviceKinds
<1>1. ASSUME NEW d \in Devices, Loop(d) \/ RADIO_IRQHandler(d), d # r
      PROVE  Deaf(r)'
  BY <1>1
  DEF LinkInv, LinkTypeOK, Loop, RfSendPacket, SendTest, TriggerEnable,
      SendMark, RfReadPacket, ReadTest, ReadMark, IsRxDataEnable, PollOk,
      PollError, Report, RADIO_IRQHandler, At, Goto, flags, chip, Deaf, Free
<1>2. CASE Loop(r)
  <2>1. IsRxDataEnable(r)
    BY <1>2 DEF Loop, RfReadPacket, ReadTest, TriggerEnable, ReadMark, At, Deaf
  <2>2. UNCHANGED <<RxBusyState, radio, disabled>>
    BY <2>1 DEF IsRxDataEnable, PollOk, PollError, Report, flags, chip
  <2>3. CASE PollOk(r)
    <3>1. pc[r] = "poll" /\ RxEnableData[r] = 0 /\ RxEnableData'[r] = 0
      BY <2>3 DEF PollOk, At, Deaf, flags
    <3>2. pc'[r] = "poll error"
      <4>1. RxEnableData[r] # CRC_OK BY <3>1, Verdicts
      <4>2. pc' = [pc EXCEPT ![r] = "poll error"] BY <2>3, <4>1 DEF PollOk, Goto
      <4> QED BY <4>2 DEF LinkInv, LinkTypeOK
    <3> QED BY <2>2, <3>1, <3>2 DEF Deaf, Free
  <2>4. CASE PollError(r)
    <3>1. pc[r] = "poll error" /\ RxEnableData[r] = 0 /\ RxEnableData'[r] = 0
      BY <2>4 DEF PollError, At, Deaf, flags
    <3>2. pc'[r] = "poll"
      <4>1. RxEnableData[r] # CRC_ERROR BY <3>1, Verdicts
      <4>2. pc' = [pc EXCEPT ![r] = "poll"] BY <2>4, <4>1 DEF PollError, Goto
      <4> QED BY <4>2 DEF LinkInv, LinkTypeOK
    <3> QED BY <2>2, <3>1, <3>2 DEF Deaf, Free
  <2>5. CASE Report(r)
    BY <2>2, <2>5 DEF Report, LinkInv, LinkTypeOK, At, Goto, Deaf, Free
  <2> QED BY <2>1, <2>3, <2>4, <2>5 DEF IsRxDataEnable
<1>3. ~RADIO_IRQHandler(r) BY DEF Deaf, Free, RADIO_IRQHandler
<1>4. ASSUME NEW s \in Senders, StartPacket(s) PROVE Deaf(r)'
  BY <1>4 DEF LinkInv, LinkTypeOK, StartPacket, flags, Deaf, Free
<1>5. ASSUME NEW s \in Senders, EndPacket(s) PROVE Deaf(r)'
  <2>1. hearing[r] # s
    BY DeviceKinds DEF LinkInv, ReceiverOK, Deaf, Free
  <2> QED BY <1>5, <2>1 DEF LinkInv, LinkTypeOK, EndPacket, flags, Deaf, Free
<1>6. ASSUME NEW q \in Receivers, Listen(q) PROVE Deaf(r)'
  BY <1>6 DEF LinkInv, LinkTypeOK, Listen, RampedUp, flags, Deaf, Free
<1>7. CASE UNCHANGED vars BY <1>7 DEF vars, flags, chip, Deaf, Free
<1> QED BY <1>1, <1>2, <1>3, <1>4, <1>5, <1>6, <1>7 DEF Next

(* One packet with a bad CRC, and the receiver's radio is off for ever:    *)
(* main.c:82 waits for CRC_OK and nothing else starts the radio again.     *)
(* This holds without fairness.                                            *)
THEOREM BadCrcDeafens == Spec => DeafAfterError
<1>1. ASSUME NEW r \in Receivers
      PROVE  Spec => (At(r, "clear error") ~> [](radio[r] = "DISABLED"))
  <2>1. LinkInv /\ At(r, "clear error") => Deaf(r)
    BY DEF LinkInv, ReceiverOK, ToReport, At, Deaf
  <2>2. Deaf(r) => radio[r] = "DISABLED" BY DEF Deaf, Free
  <2>3. LinkInv /\ Deaf(r) /\ [Next]_vars => Deaf(r)' BY DeafKept
  <2> QED BY <2>1, <2>2, <2>3, LinkInvariant, PTL DEF Spec
<1> QED BY <1>1 DEF DeafAfterError

-----------------------------------------------------------------------------
(* A busy flag is up only while its radio is at work or its interrupt is   *)
(* pending, so that something will reset it: what KeepsSending and         *)
(* ListensUntilError need besides fairness.                                *)
BusyAtWork ==
  \A d \in Devices : TxBusyState[d] \/ RxBusyState[d] => ~Free(d)

Owned ==
  /\ \A d \in Devices : TxBusyState[d] => ~Free(d)
  /\ \A s \in Senders : ~RxBusyState[s]

LEMMA OwnedKept == ASSUME LinkInv, Owned, [Next]_vars PROVE Owned'
<1>1. /\ radio \in [Devices -> {"DISABLED", "RU", "TX", "RX"}]
      /\ disabled \in [Devices -> BOOLEAN]
      /\ TxBusyState \in [Devices -> BOOLEAN]
      /\ RxBusyState \in [Devices -> BOOLEAN]
  BY DEF LinkInv, LinkTypeOK
<1>2. ASSUME NEW e \in Senders, RfSendPacket(e) PROVE Owned'
  <2>1. RxBusyState' = RxBusyState
    BY <1>2 DEF RfSendPacket, SendTest, TriggerEnable, SendMark, flags
  <2>2. CASE SendTest(e) BY <2>1, <2>2 DEF SendTest, flags, chip, Owned, Free
  <2>3. CASE TriggerEnable(e)
    BY <1>1, <2>1, <2>3 DEF TriggerEnable, flags, Owned, Free
  <2>4. CASE SendMark(e)
    <3>1. /\ radio' = radio /\ disabled' = disabled
          /\ TxBusyState' = [TxBusyState EXCEPT ![e] = TRUE]
      BY <2>4 DEF SendMark, chip
    <3>2. radio[e] = "RU" BY <2>4 DEF SendMark, At, LinkInv, SenderOK
    <3> QED BY <1>1, <2>1, <3>1, <3>2 DEF Owned, Free
  <2> QED BY <1>2, <2>2, <2>3, <2>4 DEF RfSendPacket
<1>3. ASSUME NEW e \in Devices, e \notin Senders, RfReadPacket(e) PROVE Owned'
  <2>1. CASE ReadTest(e) BY <2>1 DEF ReadTest, flags, chip, Owned, Free
  <2>2. CASE TriggerEnable(e)
    BY <1>1, <2>2 DEF TriggerEnable, flags, Owned, Free
  <2>3. CASE ReadMark(e)
    BY <1>1, <1>3, <2>3 DEF ReadMark, chip, Owned, Free
  <2> QED BY <1>3, <2>1, <2>2, <2>3 DEF RfReadPacket
<1>4. ASSUME NEW e \in Devices, IsRxDataEnable(e) PROVE Owned'
  BY <1>4 DEF IsRxDataEnable, PollOk, PollError, Report, flags, chip, Owned, Free
<1>5. ASSUME NEW e \in Devices, RADIO_IRQHandler(e) PROVE Owned'
  BY <1>1, <1>5, DeviceKinds DEF RADIO_IRQHandler, Owned, Free
<1>6. ASSUME NEW s \in Senders, StartPacket(s) PROVE Owned'
  BY <1>1, <1>6 DEF StartPacket, flags, Owned, Free
<1>7. ASSUME NEW s \in Senders, EndPacket(s) PROVE Owned'
  BY <1>1, <1>7 DEF EndPacket, flags, Owned, Free
<1>8. ASSUME NEW r \in Receivers, Listen(r) PROVE Owned'
  BY <1>1, <1>8 DEF Listen, flags, Owned, Free
<1>9. CASE UNCHANGED vars BY <1>9 DEF vars, flags, chip, Owned, Free
<1> QED BY <1>2, <1>3, <1>4, <1>5, <1>6, <1>7, <1>8, <1>9 DEF Next, Loop

(* No flag of radio.c is up with nothing to reset it, for any number of    *)
(* devices: RfSendPacket does not return 0xFF, nor RfReadPacket leave the  *)
(* task out (radio.c), for a packet or a reception that is not under way.  *)
THEOREM BusyMeansAtWork == Spec => []BusyAtWork
<1>1. Init => Owned BY DeviceKinds DEF Init, Owned
<1>2. Spec => []Owned BY <1>1, OwnedKept, LinkInvariant, PTL DEF Spec
<1>3. ASSUME LinkInv, Owned PROVE BusyAtWork
  <2>1. ASSUME NEW r \in Receivers, RxBusyState[r] PROVE ~Free(r)
    <3>1. pc[r] \in ReceiverPc /\ ReceiverOK(r)
      BY <1>3, DeviceKinds DEF LinkInv, LinkTypeOK
    <3>2. Off(r) \/ Listening(r) \/ Ended(r) \/ ToReport(r)
      BY <3>1 DEF ReceiverOK, ReceiverPc, SenderPc
    <3> QED BY <2>1, <3>2 DEF Off, Listening, Ended, ToReport, Free
  <2> QED BY <1>3, <2>1, DeviceKinds DEF BusyAtWork, Owned
<1> QED BY <1>2, <1>3, LinkInvariant, PTL
=============================================================================
