--------------------------- MODULE Terminal_proofs ---------------------------
(***************************************************************************)
(* Proofs about the main loop of src/Src/main.c.  What the decoder gets is *)
(* whole because of three facts: the line is made of contiguous replies    *)
(* (LineOK), a reply whose first byte the loop has waited for is complete  *)
(* when the timeout ends the message (AgeOK), and the tag can only be found*)
(* where a reply that is complete has it (ReadOK).                         *)
(***************************************************************************)
EXTENDS Terminal, SequenceTheorems, TLAPS

Current == Len(replies)
Total(k) == HEADER + TAG + replies[k]

(* The reply a byte of the line is of, its place in it, and the place on   *)
(* the line in front of that reply.                                        *)
Of(n) == line[n][1]
Place(n) == line[n][2]
Front(n) == n - Place(n)

(* The place on the line in front of the current reply.                    *)
Start == Len(line) - (Total(Current) - Len(coming))

(* What is on the line behind place o is of reply k, as far as reply k     *)
(* reaches; it stands there if all of it is.                               *)
Laid(k, o) ==
  \A p \in 1 .. Total(k) : o + p <= Len(line) => Of(o + p) = k /\ Place(o + p) = p
Stands(k, o) == o + Total(k) <= Len(line) /\ Laid(k, o)

-----------------------------------------------------------------------------
ControlInv ==
  /\ state \in {"RX_STANDBY", "RX_IN_PROGRESS", "RX_DONE"}
  /\ pc \in {"loop", "button", "release", "header", "tag", "body", "decode",
             "clear_early", "clear", "reset"}
  /\ i \in Nat
  /\ pc = "header" => i < HEADER
  /\ pc = "tag" => i < TAG
  /\ pc = "body" => i < BODY
  /\ pc \in {"button", "release"} => state # "RX_DONE"
  /\ pc \notin {"loop", "button", "release"} => state = "RX_DONE"
  /\ tmoutCnt \in Nat /\ tmoutCnt < COUNTER_MOD
  /\ age \in Nat

FlagInv == flag \in BOOLEAN /\ pressed \in BOOLEAN /\ late \in BOOLEAN

Bytes == Nat \X Nat
DataInv ==
  /\ stored \in Nat /\ taken \in Nat /\ taken <= stored /\ stored = Len(line)
  /\ line \in Seq(Bytes) /\ coming \in Seq(Bytes)
  /\ replies \in Seq(BodyLengths)
  /\ cr \in [1 .. TAG -> Bytes] /\ cr_all \in [1 .. BODY -> Bytes]
  /\ accepted \in Seq([1 .. BODY -> Bytes])

(* The bytes of a reply are next to each other on the line, in order, and  *)
(* a reply that is not coming any more is complete.                        *)
Contiguous ==
  \A n \in 1 .. Len(line) : Of(n) > 0 =>
    /\ Of(n) <= Current /\ Front(n) >= 0 /\ Place(n) > 0
    /\ \A k \in 1 .. Current, o \in 0 .. Len(line) : (Of(n) = k /\ Front(n) = o) =>
         /\ n <= o + Total(k)
         /\ Laid(k, o)
         /\ (k < Current \/ coming = <<>>) => o + Total(k) <= Len(line)
         /\ (k = Current /\ coming # <<>>) => o = Start

(* Replies follow each other in their order, and none comes twice.         *)
Ordered ==
  \A m, n \in 1 .. Len(line) : (m < n /\ Of(m) > 0 /\ Of(n) > 0) =>
    /\ Of(m) <= Of(n)
    /\ Of(m) = Of(n) => Front(m) = Front(n)

(* The current reply is what is on the line behind Start and what is still *)
(* coming.                                                                 *)
InTransit ==
  coming # <<>> =>
    /\ Current > 0 /\ Len(coming) <= Total(Current) /\ Start >= 0
    /\ \A q \in 1 .. Len(coming) :
         coming[q] = <<Current, (Total(Current) - Len(coming)) + q>>
    /\ \A k \in 1 .. Current, o \in 0 .. Len(line) :
         (k = Current /\ o = Start) => Laid(k, o)

LineOK == Contiguous /\ Ordered /\ InTransit

(* The loop counts its passes from the first byte of a message on, so while*)
(* the reply that begins there is coming it has counted no more than age.  *)
AgeOK ==
  /\ state # "RX_IN_PROGRESS" => tmoutCnt = 0
  /\ state = "RX_IN_PROGRESS" => taken < stored
  /\ coming # <<>> => age <= BURST_MAX
  /\ (state # "RX_DONE" /\ coming # <<>> /\ Start <= taken) => tmoutCnt <= age

(* When the loop has read some bytes of a message, a reply that is still   *)
(* coming began behind the byte the message began with.                    *)
Ahead(read) == coming # <<>> => Start > taken - read

(* The reply the last message was of, and a reply whose body the loop may  *)
(* decode now.                                                             *)
Last == accepted[Len(accepted)][1][1]
MayDecode(k, o) == (accepted # <<>> => k > Last) /\ Stands(k, o)

(* Where the loop stands behind the front of that reply, and what of its   *)
(* body is in cr_all.  (A body may be shorter than cr_all; what comes next *)
(* is then read too.)                                                      *)
InTag(k, o) == MayDecode(k, o) /\ taken = o + HEADER + i
InBody(k, o) ==
  /\ MayDecode(k, o)
  /\ i <= replies[k] => taken = o + HEADER + TAG + i
  /\ i > replies[k] => taken >= o + Total(k)
  /\ \A p \in 1 .. BODY : (p <= i /\ p <= replies[k]) =>
       cr_all[p] = <<k, HEADER + TAG + p>>
Whole(k, o) == MayDecode(k, o) /\ taken >= o + Total(k) /\ IsBodyOf(cr_all, k)

ReadOK ==
  /\ (pc \in {"loop", "button", "release", "header"} \/ (pc = "tag" /\ i = 0)) =>
       cr[1] = Zero
  /\ (pc = "loop" /\ state = "RX_DONE") => taken < stored /\ Ahead(0)
  /\ pc = "header" => taken - i < stored /\ Ahead(i)
  /\ (pc = "tag" /\ i = 0) => Ahead(HEADER)
  /\ (pc = "tag" /\ i > 0) => \E k \in 1 .. Current, o \in 0 .. taken : InTag(k, o)
  /\ pc = "body" => \E k \in 1 .. Current, o \in 0 .. taken : InBody(k, o)
  /\ pc = "decode" => \E k \in 1 .. Current, o \in 0 .. taken : Whole(k, o)

(* What was handed to the decoder is behind what the loop will read.       *)
AcceptedOK ==
  /\ \A a \in 1 .. Len(accepted) :
       \E k \in 1 .. Current : IsBodyOf(accepted[a], k)
  /\ \A a, b \in 1 .. Len(accepted) : a < b => accepted[a][1][1] < accepted[b][1][1]
  /\ accepted # <<>> =>
       /\ Last <= Current
       /\ \A n \in 1 .. Len(line) : (n > taken /\ Of(n) > 0) => Of(n) > Last
       /\ coming # <<>> => Current > Last

-----------------------------------------------------------------------------
(* A closing of the contact that the loop has yet to see.                  *)
Due == IF pressed /\ ~flag THEN 1 ELSE 0
Half(n) == n \div 2

ButtonInv ==
  /\ requests \in Nat /\ presses \in Nat /\ bounces \in Nat
  /\ requests + Due <= presses + Half(bounces)

(* With a patient user the loop has nothing to read when a request is due, *)
(* and no byte is to come when the counter is at its limit.                *)
Quiet == coming = <<>> /\ taken = stored /\ state = "RX_STANDBY"

PatientInv ==
  patient =>
    /\ Len(replies) <= requests /\ requests <= Len(replies) + 1
    /\ (pressed /\ ~flag) => Len(replies) = requests /\ Quiet
    /\ Len(replies) < requests => Quiet
    /\ coming # <<>> => tmoutCnt <= age
    /\ tmoutCnt <= LIMIT
    /\ tmoutCnt = LIMIT => rxCounter = Fifo!Position /\ coming = <<>>

(* The rest of the types.                                                  *)
RangeInv ==
  /\ Len(replies) <= requests
  /\ presses <= MaxPresses + MaxRough /\ bounces <= 2 * MaxBounces
  /\ rxCounter \in 0 .. (SIZE_BUF_RX - 1)
  /\ cr \in [1 .. TAG -> Byte] /\ cr_all \in [1 .. BODY -> Byte]
  /\ \A n \in 1 .. Len(line) : line[n] \in Byte

-----------------------------------------------------------------------------
(* A closing of the contact costs one request at most.                     *)
LEMMA Halves ==
  /\ Half(0) = 0
  /\ \A n \in Nat :
       /\ Half(n) \in Nat
       /\ Half(n) <= Half(n + 1)
       /\ n % 2 = 1 => Half(n + 1) = Half(n) + 1
  BY DEF Half

LEMMA InitButton == ASSUME Init PROVE ButtonInv
<1>1. requests = 0 /\ presses = 0 /\ bounces = 0 /\ flag = FALSE /\ pressed = FALSE
  BY DEF Init
<1>2. Due = 0 BY <1>1 DEF Due
<1>3. Half(bounces) = 0 BY <1>1, Halves
<1> QED BY <1>1, <1>2, <1>3 DEF ButtonInv

LEMMA ButtonStep == ASSUME ButtonInv, [Next]_vars PROVE ButtonInv'
<1>0. Half(bounces) \in Nat /\ bounces \in Nat BY Halves DEF ButtonInv
<1>1. CASE StandbyButton
  <2>1. /\ presses' = presses /\ bounces' = bounces /\ pressed' = pressed
        /\ IF pressed /\ ~flag THEN requests' = requests + 1 /\ flag' = TRUE
           ELSE requests' = requests /\ flag' = flag
    BY <1>1 DEF StandbyButton, button
  <2>2. Half(bounces') = Half(bounces) BY <2>1 DEF Half
  <2>3. requests' + Due' = requests + Due /\ requests' \in Nat
    BY <2>1 DEF Due, ButtonInv
  <2> QED BY <1>0, <2>1, <2>2, <2>3 DEF ButtonInv
<1>2. CASE StandbyRelease
  <2>1. /\ presses' = presses /\ bounces' = bounces /\ pressed' = pressed
        /\ requests' = requests /\ flag' = (flag /\ pressed)
    BY <1>2 DEF StandbyRelease, button
  <2>2. Half(bounces') = Half(bounces) BY <2>1 DEF Half
  <2>3. Due' = Due BY <2>1 DEF Due, ButtonInv
  <2> QED BY <1>0, <2>1, <2>2, <2>3 DEF ButtonInv
<1>3. CASE Press
  <2>1. /\ presses' = presses + 1 /\ bounces' = bounces /\ pressed' = TRUE
        /\ requests' = requests /\ flag' = flag
    BY <1>3 DEF Press, control
  <2>2. Half(bounces') = Half(bounces) BY <2>1 DEF Half
  <2>3. Due' \in {0, 1} /\ Due \in {0, 1} BY DEF Due
  <2>4. Due = 0 BY <1>3 DEF Press, Due
  <2> QED BY <1>0, <2>1, <2>2, <2>3, <2>4 DEF ButtonInv
<1>4. CASE Release
  <2>1. /\ presses' = presses /\ bounces' = bounces /\ pressed' = FALSE
        /\ requests' = requests /\ flag' = flag
    BY <1>4 DEF Release, control
  <2>2. Half(bounces') = Half(bounces) BY <2>1 DEF Half
  <2>3. Due' = 0 /\ Due \in {0, 1} BY <2>1 DEF Due
  <2> QED BY <1>0, <2>1, <2>2, <2>3 DEF ButtonInv
<1>5. CASE Bounce
  <2>1. /\ bounces' = bounces + 1 /\ bounces' \in Nat /\ pressed' = ~pressed
        /\ flag' = flag /\ requests' = requests /\ presses' = presses
        /\ pressed \/ bounces % 2 = 1
    BY <1>5 DEF Bounce, control, ButtonInv
  <2>2. Half(bounces') \in Nat /\ Half(bounces) <= Half(bounces')
    BY <1>0, <2>1, Halves
  <2>3. CASE pressed
    <3>1. Due' = 0 /\ Due \in {0, 1} BY <2>1, <2>3 DEF Due
    <3> QED BY <1>0, <2>1, <2>2, <3>1 DEF ButtonInv
  <2>4. CASE ~pressed
    <3>1. Due' \in {0, 1} /\ Due = 0 BY <2>4 DEF Due
    <3>2. Half(bounces') = Half(bounces) + 1 BY <1>0, <2>1, <2>4, Halves
    <3> QED BY <1>0, <2>1, <2>2, <3>1, <3>2 DEF ButtonInv
  <2> QED BY <2>3, <2>4
<1>6. CASE UNCHANGED <<button, requests, flag>>
  BY <1>6 DEF button, ButtonInv, Due, Half
<1>7. \/ StandbyButton \/ StandbyRelease \/ Press \/ Release \/ Bounce
      \/ UNCHANGED <<button, requests, flag>>
  <2>1. CASE Main
    BY <2>1 DEF Main, StandbyReceive, InProgress, Done, ReadHeader, ReadTag,
         ReadBody, Accept, ClearRxBuffer, Reset
  <2>2. CASE StartReply \/ Arrive \/ Disturb
    BY <2>2 DEF StartReply, Arrive, Disturb, Receive, control
  <2>3. CASE UNCHANGED vars BY <2>3 DEF vars, control
  <2> QED BY <2>1, <2>2, <2>3 DEF Next
<1> QED BY <1>1, <1>2, <1>3, <1>4, <1>5, <1>6, <1>7

(* A closing of button 1, by a press or by a bounce, is one request at     *)
(* most: what the flag of main.c:115-126 is for.                           *)
THEOREM RequestsFollowClosings == Spec => []OneRequestPerClosing
<1>1. ButtonInv => OneRequestPerClosing
  <2> SUFFICES ASSUME ButtonInv PROVE OneRequestPerClosing OBVIOUS
  <2>1. Half(bounces) \in Nat /\ Half(bounces) <= Half(bounces + 1)
        /\ Half(bounces + 1) \in Nat
    BY Halves DEF ButtonInv
  <2>2. requests <= presses + Half(bounces + 1)
    BY <2>1 DEF ButtonInv, Due
  <2> QED BY <2>2 DEF Half, OneRequestPerClosing
<1> QED BY <1>1, InitButton, ButtonStep, PTL DEF Spec
-----------------------------------------------------------------------------
(* Types.                                                                  *)
LEMMA Constants ==
  /\ HEADER \in Nat /\ HEADER > 0 /\ TAG \in Nat /\ TAG > 0
  /\ BODY \in Nat /\ BODY > 0
  /\ SIZE_BUF_RX \in Nat /\ SIZE_BUF_RX > 0
  /\ LIMIT \in Nat /\ COUNTER_MOD \in Nat /\ COUNTER_MOD > LIMIT
  /\ BURST_MAX \in Nat /\ BURST_MAX < LIMIT
<1>1. HEADER \in Nat \ {0} /\ TAG \in Nat \ {0} /\ BODY \in Nat \ {0}
  BY TerminalAssumption DEF TerminalAssumption
<1>2. LIMIT \in Nat /\ COUNTER_MOD \in Nat /\ SIZE_BUF_RX \in Nat
      /\ COUNTER_MOD > LIMIT /\ BURST_MAX \in 1 .. (LIMIT - 1)
  BY TerminalAssumption DEF TerminalAssumption
<1>3. SIZE_BUF_RX > HEADER + TAG + BODY
  BY TerminalAssumption DEF TerminalAssumption
<1> QED BY <1>1, <1>2, <1>3

LEMMA Remainder ==
  ASSUME NEW n \in Nat, NEW m \in Nat, m > 0
  PROVE  n % m \in 0 .. (m - 1)
  OBVIOUS

LEMMA InitTypes == ASSUME Init PROVE ControlInv /\ FlagInv /\ DataInv
<1>1. ControlInv BY Constants DEF Init, ControlInv
<1>2. FlagInv BY DEF Init, FlagInv
<1>3. DataInv
  <2>1. <<0, 0>> \in Bytes BY DEF Bytes
  <2>2. /\ cr \in [1 .. TAG -> Bytes] /\ cr_all \in [1 .. BODY -> Bytes]
    BY <2>1 DEF Init, Zero
  <2>3. stored = 0 /\ taken = 0 BY DEF Init, Fifo!Init
  <2>4. line = <<>> /\ coming = <<>> /\ replies = <<>> /\ accepted = <<>>
    BY DEF Init
  <2> QED BY <2>2, <2>3, <2>4 DEF DataInv
<1> QED BY <1>1, <1>2, <1>3

LEMMA ControlStep == ASSUME ControlInv, [Next]_vars PROVE ControlInv'
<1>1. CASE StandbyReceive
  BY <1>1 DEF StandbyReceive, StartPass, ControlInv
<1>2. CASE StandbyButton BY <1>2 DEF StandbyButton, ControlInv
<1>3. CASE StandbyRelease BY <1>3 DEF StandbyRelease, ControlInv
<1>4. CASE InProgress
  <2>1. tmoutCnt + 1 \in Nat /\ COUNTER_MOD > 0 /\ COUNTER_MOD \in Nat
    BY Constants DEF ControlInv
  <2>2. (tmoutCnt + 1) % COUNTER_MOD \in 0 .. (COUNTER_MOD - 1)
    BY <2>1, Remainder
  <2>3. tmoutCnt' \in Nat /\ tmoutCnt' < COUNTER_MOD
    BY <1>4, <2>1, <2>2 DEF InProgress
  <2> QED BY <1>4, <2>3 DEF InProgress, StartPass, ControlInv
<1>5. CASE Done \/ ReadHeader \/ ReadTag \/ ReadBody
  <2>1. CASE Done BY <2>1, Constants DEF Done, ControlInv
  <2>2. CASE ReadHeader BY <2>2, Constants DEF ReadHeader, ControlInv
  <2>3. CASE ReadTag BY <2>3, Constants DEF ReadTag, ControlInv
  <2>4. CASE ReadBody BY <2>4, Constants DEF ReadBody, ControlInv
  <2> QED BY <1>5, <2>1, <2>2, <2>3, <2>4
<1>6. CASE Accept BY <1>6 DEF Accept, ControlInv
<1>7. CASE ClearRxBuffer BY <1>7 DEF ClearRxBuffer, ControlInv
<1>8. CASE Reset BY <1>8 DEF Reset, ControlInv
<1>9. CASE UNCHANGED <<control, age>> BY <1>9 DEF control, ControlInv
<1>10. CASE StartReply BY <1>10 DEF StartReply, control, ControlInv
<1>11. \/ StandbyReceive \/ StandbyButton \/ StandbyRelease \/ InProgress
       \/ Done \/ ReadHeader \/ ReadTag \/ ReadBody
       \/ Accept \/ ClearRxBuffer \/ Reset
       \/ UNCHANGED <<control, age>> \/ StartReply
  BY DEF Next, Main, Press, Release, Bounce, Arrive, Disturb, Receive, vars
<1> QED BY <1>1, <1>2, <1>3, <1>4, <1>5, <1>6, <1>7, <1>8, <1>9, <1>10, <1>11

LEMMA FlagStep == ASSUME FlagInv, [Next]_vars PROVE FlagInv'
<1>1. CASE StandbyButton \/ StandbyRelease
  BY <1>1 DEF StandbyButton, StandbyRelease, FlagInv, button
<1>2. CASE Press \/ Release \/ Bounce
  BY <1>2 DEF Press, Release, Bounce, FlagInv, control
<1>3. CASE Reset BY <1>3 DEF Reset, FlagInv, button
<1>4. CASE Arrive \/ Disturb
  BY <1>4 DEF Arrive, Disturb, Receive, FlagInv, control, button
<1>5. CASE UNCHANGED <<flag, pressed, late>> BY <1>5 DEF FlagInv
<1>6. \/ StandbyButton \/ StandbyRelease \/ Press \/ Release \/ Bounce \/ Reset
      \/ Arrive \/ Disturb \/ UNCHANGED <<flag, pressed, late>>
  BY DEF Next, Main, StandbyReceive, InProgress, Done, ReadHeader, ReadTag,
         ReadBody, Accept, ClearRxBuffer, StartReply, control, button, vars
<1> QED BY <1>1, <1>2, <1>3, <1>4, <1>5, <1>6
(* A ReadUART takes the next byte, or leaves its target alone.             *)
LEMMA ReadCases ==
  ASSUME DataInv, ReadUART
  PROVE  /\ stored' = stored
         /\ \/ /\ taken < stored /\ taken' = taken + 1
               /\ \A byte : Read(byte) = line[taken + 1]
            \/ taken = stored /\ taken' = taken /\ \A byte : Read(byte) = byte
<1>1. stored \in Nat /\ taken \in Nat /\ taken <= stored BY DEF DataInv
<1>2. CASE Fifo!Get
  <2>1. taken < stored /\ taken' = taken + 1 /\ got' = taken + 1 /\ stored' = stored
    BY <1>2 DEF Fifo!Get, Fifo!Available
  <2>2. got' # 0 BY <1>1, <2>1
  <2> QED BY <2>1, <2>2 DEF Read
<1>3. CASE Fifo!GetNothing
  <2>1. ~(taken < stored) /\ taken' = taken /\ got' = 0 /\ stored' = stored
    BY <1>3 DEF Fifo!GetNothing, Fifo!Available
  <2> QED BY <1>1, <2>1 DEF Read
<1> QED BY <1>2, <1>3 DEF ReadUART

LEMMA ReadTypes ==
  ASSUME DataInv, ReadUART
  PROVE  /\ stored' = stored /\ taken' \in Nat /\ taken' <= stored
         /\ \A byte \in Bytes : Read(byte) \in Bytes
<1>1. /\ stored \in Nat /\ taken \in Nat /\ taken <= stored
      /\ line \in Seq(Bytes) /\ stored = Len(line)
  BY DEF DataInv
<1>2. \/ /\ taken < stored /\ taken' = taken + 1
         /\ \A byte : Read(byte) = line[taken + 1]
      \/ taken = stored /\ taken' = taken /\ \A byte : Read(byte) = byte
  BY ReadCases
<1>3. taken < stored => line[taken + 1] \in Bytes
  BY <1>1, ElementOfSeq
<1> QED BY <1>1, <1>2, <1>3, ReadCases

LEMMA ReplyIsSeq ==
  ASSUME NEW k \in Nat, NEW length \in BodyLengths
  PROVE  /\ length \in 1 .. BODY
         /\ Reply(k, length) \in Seq(Bytes)
         /\ Len(Reply(k, length)) = HEADER + TAG + length
         /\ \A p \in 1 .. (HEADER + TAG + length) : Reply(k, length)[p] = <<k, p>>
<1>1. length \in 1 .. BODY BY TerminalAssumption DEF TerminalAssumption
<1>2. HEADER + TAG + length \in Nat BY <1>1, Constants
<1>3. \A p \in 1 .. (HEADER + TAG + length) : <<k, p>> \in Bytes
  BY <1>2 DEF Bytes
<1>4. Reply(k, length) \in [1 .. (HEADER + TAG + length) -> Bytes]
  BY <1>3 DEF Reply
<1>5. Reply(k, length) \in Seq(Bytes) /\ Len(Reply(k, length)) = HEADER + TAG + length
  BY <1>2, <1>4, LenProperties
<1> QED BY <1>1, <1>5 DEF Reply
(* A byte that is received goes to the end of the line.                    *)
LEMMA ReceiveLine ==
  ASSUME DataInv, NEW byte \in Bytes, Receive(byte)
  PROVE  /\ stored' = stored + 1 /\ taken' = taken
         /\ line' \in Seq(Bytes) /\ Len(line') = Len(line) + 1 /\ Len(line) \in Nat
         /\ \A n \in 1 .. Len(line) : line'[n] = line[n]
         /\ line'[Len(line) + 1] = byte
<1>1. line \in Seq(Bytes) BY DEF DataInv
<1>2. line' = Append(line, byte) BY DEF Receive
<1>3. stored' = stored + 1 /\ taken' = taken BY DEF Receive, Fifo!Put
<1>4. Len(line) \in Nat BY <1>1, LenProperties
<1> QED BY <1>1, <1>2, <1>3, <1>4, AppendProperties

LEMMA ComingBytes ==
  ASSUME DataInv, coming # <<>>
  PROVE  /\ coming[1] = Head(coming) /\ Head(coming) \in Bytes /\ Len(coming) \in Nat
         /\ Len(coming) > 0
         /\ Tail(coming) \in Seq(Bytes) /\ Len(Tail(coming)) = Len(coming) - 1
         /\ \A q \in 1 .. (Len(coming) - 1) : Tail(coming)[q] = coming[q + 1]
<1>1. coming \in Seq(Bytes) BY DEF DataInv
<1>2. Len(coming) \in Nat \ {0} BY <1>1, EmptySeq
<1>3. /\ Head(coming) \in Bytes /\ Tail(coming) \in Seq(Bytes)
      /\ Len(Tail(coming)) = Len(coming) - 1
      /\ \A q \in 1 .. Len(Tail(coming)) : Tail(coming)[q] = coming[q + 1]
  BY <1>1, HeadTailProperties
<1>4. Head(coming) = coming[1] BY <1>1, <1>2
<1> QED BY <1>2, <1>3, <1>4

LEMMA DataStep == ASSUME ControlInv, DataInv, [Next]_vars PROVE DataInv'
<1>1. CASE ReadHeader
  <2>1. UNCHANGED <<line, coming, replies, cr, cr_all, accepted>>
    BY <1>1 DEF ReadHeader, message, meter
  <2>2. ReadUART BY <1>1 DEF ReadHeader
  <2>3. stored' = stored /\ taken' \in Nat /\ taken' <= stored BY <2>2, ReadTypes
  <2> QED BY <2>1, <2>3 DEF DataInv
<1>2. CASE ReadTag
  <2>1. UNCHANGED <<line, coming, replies, cr_all, accepted>>
    BY <1>2 DEF ReadTag, meter
  <2>2. ReadUART /\ i \in Nat /\ i < TAG BY <1>2 DEF ReadTag, ControlInv
  <2>3. /\ stored' = stored /\ taken' \in Nat /\ taken' <= stored
        /\ \A byte \in Bytes : Read(byte) \in Bytes
    BY <2>2, ReadTypes
  <2>4. i + 1 \in 1 .. TAG BY <2>2, Constants
  <2>5. cr \in [1 .. TAG -> Bytes] BY DEF DataInv
  <2>6. cr' = [cr EXCEPT ![i + 1] = Read(cr[i + 1])] BY <1>2, <2>5 DEF ReadTag
  <2>7. Read(cr[i + 1]) \in Bytes BY <2>3, <2>4, <2>5
  <2>8. cr' \in [1 .. TAG -> Bytes] BY <2>4, <2>5, <2>6, <2>7
  <2> QED BY <2>1, <2>3, <2>8 DEF DataInv
<1>3. CASE ReadBody
  <2>1. UNCHANGED <<line, coming, replies, cr, accepted>>
    BY <1>3 DEF ReadBody, meter
  <2>2. ReadUART /\ i \in Nat /\ i < BODY BY <1>3 DEF ReadBody, ControlInv
  <2>3. /\ stored' = stored /\ taken' \in Nat /\ taken' <= stored
        /\ \A byte \in Bytes : Read(byte) \in Bytes
    BY <2>2, ReadTypes
  <2>4. i + 1 \in 1 .. BODY BY <2>2, Constants
  <2>5. cr_all \in [1 .. BODY -> Bytes] BY DEF DataInv
  <2>6. cr_all' = [cr_all EXCEPT ![i + 1] = Read(cr_all[i + 1])]
    BY <1>3, <2>5 DEF ReadBody
  <2>7. Read(cr_all[i + 1]) \in Bytes BY <2>3, <2>4, <2>5
  <2>8. cr_all' \in [1 .. BODY -> Bytes] BY <2>4, <2>5, <2>6, <2>7
  <2> QED BY <2>1, <2>3, <2>8 DEF DataInv
<1>4. CASE Accept
  <2>1. UNCHANGED <<line, coming, replies, cr, cr_all, stored, taken>>
    BY <1>4 DEF Accept, meter, message, fifo
  <2>2. accepted' = Append(accepted, cr_all) BY <1>4 DEF Accept
  <2>3. accepted' \in Seq([1 .. BODY -> Bytes]) BY <2>2, AppendProperties DEF DataInv
  <2> QED BY <2>1, <2>3 DEF DataInv
<1>5. CASE ClearRxBuffer
  <2>1. UNCHANGED <<line, coming, replies, cr, cr_all, accepted, stored>>
        /\ taken' = stored
    BY <1>5 DEF ClearRxBuffer, meter, message, Fifo!Clear
  <2> QED BY <2>1 DEF DataInv
<1>6. CASE Reset
  <2>1. UNCHANGED <<line, coming, replies, accepted, stored, taken>>
    BY <1>6 DEF Reset, meter, fifo
  <2>2. <<0, 0>> \in Bytes BY DEF Bytes
  <2>3. cr' \in [1 .. TAG -> Bytes] /\ cr_all' \in [1 .. BODY -> Bytes]
    BY <1>6, <2>2 DEF Reset, Zero
  <2> QED BY <2>1, <2>3 DEF DataInv
<1>7. CASE StartReply
  <2>1. UNCHANGED <<line, cr, cr_all, accepted, stored, taken>>
    BY <1>7 DEF StartReply, message, fifo
  <2>2. PICK length \in BodyLengths : /\ replies' = Append(replies, length)
                                      /\ coming' = Reply(Len(replies) + 1, length)
    BY <1>7 DEF StartReply
  <2>3. replies \in Seq(BodyLengths) BY DEF DataInv
  <2>4. Len(replies) + 1 \in Nat BY <2>3, LenProperties
  <2>5. coming' \in Seq(Bytes) BY <2>2, <2>4, ReplyIsSeq
  <2>6. replies' \in Seq(BodyLengths) BY <2>2, <2>3, AppendProperties
  <2> QED BY <2>1, <2>5, <2>6 DEF DataInv
<1>8. CASE Arrive
  <2>1. UNCHANGED <<replies, cr, cr_all, accepted>> /\ coming # <<>>
        /\ coming' = Tail(coming) /\ Receive(Head(coming))
    BY <1>8 DEF Arrive, Receive, message
  <2>2. coming' \in Seq(Bytes) /\ Head(coming) \in Bytes BY <2>1, ComingBytes
  <2>3. /\ stored' = stored + 1 /\ taken' = taken
        /\ line' \in Seq(Bytes) /\ Len(line') = Len(line) + 1
    BY <2>1, <2>2, ReceiveLine
  <2> QED BY <2>1, <2>2, <2>3 DEF DataInv
<1>9. CASE Disturb
  <2>1. UNCHANGED <<replies, coming, cr, cr_all, accepted>> /\ Receive(Noise)
    BY <1>9 DEF Disturb, Receive, message
  <2>2. Noise \in Bytes BY DEF Noise, Bytes
  <2>3. /\ stored' = stored + 1 /\ taken' = taken
        /\ line' \in Seq(Bytes) /\ Len(line') = Len(line) + 1
    BY <2>1, <2>2, ReceiveLine
  <2> QED BY <2>1, <2>3 DEF DataInv
<1>10. CASE UNCHANGED <<line, coming, replies, cr, cr_all, accepted, stored, taken>>
  BY <1>10 DEF DataInv
<1>11. \/ ReadHeader \/ ReadTag \/ ReadBody \/ Accept \/ ClearRxBuffer \/ Reset
       \/ StartReply \/ Arrive \/ Disturb
       \/ UNCHANGED <<line, coming, replies, cr, cr_all, accepted, stored, taken>>
  BY DEF Next, Main, StandbyReceive, StandbyButton, StandbyRelease, InProgress,
         Done, Press, Release, Bounce, message, fifo, meter, vars
<1> QED BY <1>1, <1>2, <1>3, <1>4, <1>5, <1>6, <1>7, <1>8, <1>9, <1>10, <1>11
-----------------------------------------------------------------------------
(* The line.                                                               *)
LEMMA LineTypes ==
  ASSUME DataInv
  PROVE  /\ Len(line) \in Nat /\ Len(coming) \in Nat /\ Current \in Nat
         /\ coming = <<>> <=> Len(coming) = 0
         /\ \A n \in 1 .. Len(line) :
              Of(n) \in Nat /\ Place(n) \in Nat /\ Front(n) \in Int
         /\ \A k \in 1 .. Current :
              /\ replies[k] \in Nat /\ replies[k] > 0 /\ replies[k] <= BODY
              /\ Total(k) \in Nat /\ Total(k) > HEADER + TAG
<1>1. /\ line \in Seq(Bytes) /\ coming \in Seq(Bytes)
      /\ replies \in Seq(BodyLengths)
  BY DEF DataInv
<1>2. Len(line) \in Nat /\ Len(coming) \in Nat /\ Current \in Nat
  BY <1>1, LenProperties DEF Current
<1>3. coming = <<>> <=> Len(coming) = 0 BY <1>1, EmptySeq
<1>4. ASSUME NEW n \in 1 .. Len(line)
      PROVE  Of(n) \in Nat /\ Place(n) \in Nat /\ Front(n) \in Int
  <2>1. line[n] \in Bytes BY <1>1, ElementOfSeq
  <2>2. Of(n) \in Nat /\ Place(n) \in Nat BY <2>1 DEF Bytes, Of, Place
  <2> QED BY <1>2, <2>2 DEF Front
<1>5. ASSUME NEW k \in 1 .. Current
      PROVE  /\ replies[k] \in Nat /\ replies[k] > 0 /\ replies[k] <= BODY
             /\ Total(k) \in Nat /\ Total(k) > HEADER + TAG
  <2>1. replies[k] \in BodyLengths BY <1>1, ElementOfSeq DEF Current
  <2>2. replies[k] \in 1 .. BODY BY <2>1, ReplyIsSeq
  <2> QED BY <2>2, Constants DEF Total
<1> QED BY <1>2, <1>3, <1>4, <1>5

LEMMA InitLine == ASSUME Init PROVE LineOK
<1>1. line = <<>> /\ coming = <<>> BY DEF Init
<1>2. Len(line) = 0 BY <1>1
<1> QED BY <1>1, <1>2 DEF LineOK, Contiguous, Ordered, InTransit

(* A new reply begins where the line ends.                                 *)
LEMMA NewReply ==
  ASSUME DataInv, StartReply
  PROVE  /\ line' = line /\ stored' = stored /\ taken' = taken /\ coming = <<>>
         /\ Current' = Current + 1 /\ Start' = Len(line)
         /\ coming' # <<>> /\ Len(coming') = Total(Current)' /\ Len(coming') \in Nat
         /\ \A q \in 1 .. Len(coming') : coming'[q] = <<Current', q>>
         /\ \A k \in 1 .. Current : replies'[k] = replies[k] /\ Total(k)' = Total(k)
<1>1. line' = line /\ stored' = stored /\ taken' = taken /\ coming = <<>>
  BY DEF StartReply, fifo
<1>2. PICK length \in BodyLengths : /\ replies' = Append(replies, length)
                                    /\ coming' = Reply(Len(replies) + 1, length)
  BY DEF StartReply
<1>3. replies \in Seq(BodyLengths) BY DEF DataInv
<1>4. Current \in Nat BY LineTypes
<1>5. /\ Current' = Current + 1 /\ replies'[Current + 1] = length
      /\ \A k \in 1 .. Current : replies'[k] = replies[k]
  BY <1>2, <1>3, AppendProperties DEF Current
<1>6. Current + 1 \in Nat BY <1>4
<1>7. /\ length \in 1 .. BODY
      /\ coming' \in Seq(Bytes)
      /\ Len(coming') = HEADER + TAG + length
      /\ \A p \in 1 .. (HEADER + TAG + length) : coming'[p] = <<Current + 1, p>>
  BY <1>2, <1>6, ReplyIsSeq DEF Current
<1>8. Total(Current)' = HEADER + TAG + length BY <1>5 DEF Total
<1>9. HEADER + TAG + length \in Nat /\ HEADER + TAG + length > 0
  BY <1>7, Constants
<1>10. coming' # <<>> BY <1>7, <1>9, EmptySeq
<1>11. Len(line) \in Nat BY LineTypes
<1>12. Start' = Len(line)
  BY <1>1, <1>7, <1>8, <1>9, <1>11 DEF Start
<1>13. \A k \in 1 .. Current : Total(k)' = Total(k) BY <1>5 DEF Total
<1> QED BY <1>1, <1>5, <1>7, <1>8, <1>9, <1>10, <1>12, <1>13
(* The next byte of the current reply goes to the end of the line.         *)
LEMMA NextByte ==
  ASSUME DataInv, InTransit, Arrive
  PROVE  /\ stored' = stored + 1 /\ taken' = taken /\ replies' = replies
         /\ coming # <<>> /\ Len(line') = Len(line) + 1
         /\ Len(coming) > 0 /\ Len(coming') = Len(coming) - 1
         /\ coming' # <<>> => Len(coming) > 1
         /\ \A q \in 1 .. (Len(coming) - 1) : coming'[q] = coming[q + 1]
         /\ \A n \in 1 .. Len(line) : Of(n)' = Of(n) /\ Place(n)' = Place(n)
         /\ \A n : n = Len(line) + 1 =>
              Of(n)' = Current /\ Place(n)' = (Total(Current) - Len(coming)) + 1
         /\ Start' = Start
<1>1. /\ coming # <<>> /\ coming' = Tail(coming) /\ Receive(Head(coming))
      /\ replies' = replies
  BY DEF Arrive, Receive
<1>2. /\ coming[1] = Head(coming) /\ Head(coming) \in Bytes /\ Len(coming) \in Nat
      /\ Len(coming) > 0
      /\ Tail(coming) \in Seq(Bytes) /\ Len(Tail(coming)) = Len(coming) - 1
      /\ \A q \in 1 .. (Len(coming) - 1) : Tail(coming)[q] = coming[q + 1]
  BY <1>1, ComingBytes
<1>3. /\ stored' = stored + 1 /\ taken' = taken
      /\ Len(line') = Len(line) + 1 /\ Len(line) \in Nat
      /\ \A n \in 1 .. Len(line) : line'[n] = line[n]
      /\ line'[Len(line) + 1] = Head(coming)
  BY <1>1, <1>2, ReceiveLine
<1>4. Current \in 1 .. Current /\ Total(Current) \in Nat
  BY <1>1, LineTypes DEF InTransit
<1>5. coming[1] = <<Current, (Total(Current) - Len(coming)) + 1>>
  BY <1>1, <1>2 DEF InTransit
<1>6. ASSUME NEW n, n = Len(line) + 1
      PROVE  Of(n)' = Current /\ Place(n)' = (Total(Current) - Len(coming)) + 1
  <2>1. line'[Len(line) + 1] = <<Current, (Total(Current) - Len(coming)) + 1>>
    BY <1>2, <1>3, <1>5
  <2>2. line'[Len(line) + 1][1] = Current
        /\ line'[Len(line) + 1][2] = (Total(Current) - Len(coming)) + 1
    BY <2>1
  <2> QED BY <1>6, <2>2 DEF Of, Place
<1>7. \A n \in 1 .. Len(line) : Of(n)' = Of(n) /\ Place(n)' = Place(n)
  BY <1>3 DEF Of, Place
<1>8. Current' = Current /\ Total(Current)' = Total(Current)
  BY <1>1 DEF Current, Total
<1>9. Start' = Start BY <1>1, <1>2, <1>3, <1>4, <1>8 DEF Start
<1>10. coming' # <<>> => Len(coming) > 1
  <2>1. Len(coming) = 1 => Len(Tail(coming)) = 0 BY <1>2
  <2>2. Len(coming) = 1 => Tail(coming) = <<>> BY <1>2, <2>1, EmptySeq
  <2> QED BY <1>1, <1>2, <2>2
<1> QED BY <1>1, <1>2, <1>3, <1>6, <1>7, <1>9, <1>10
LEMMA NoiseByte ==
  ASSUME DataInv, Disturb
  PROVE  /\ stored' = stored + 1 /\ taken' = taken /\ replies' = replies
         /\ coming = <<>> /\ coming' = <<>> /\ Len(line') = Len(line) + 1
         /\ \A n \in 1 .. Len(line) : Of(n)' = Of(n) /\ Place(n)' = Place(n)
         /\ \A n : n = Len(line) + 1 => Of(n)' = 0
<1>1. /\ coming = <<>> /\ coming' = coming /\ Receive(Noise)
      /\ replies' = replies
  BY DEF Disturb, Receive
<1>2. Noise \in Bytes /\ Noise[1] = 0 BY DEF Noise, Bytes
<1>3. /\ stored' = stored + 1 /\ taken' = taken
      /\ Len(line') = Len(line) + 1 /\ Len(line) \in Nat
      /\ \A n \in 1 .. Len(line) : line'[n] = line[n]
      /\ line'[Len(line) + 1] = Noise
  BY <1>1, <1>2, ReceiveLine
<1> QED BY <1>1, <1>2, <1>3 DEF Of, Place
LEMMA ReplyKeepsLine == ASSUME DataInv, LineOK, StartReply PROVE LineOK'
<1>1. /\ line' = line /\ coming = <<>>
      /\ Current' = Current + 1 /\ Start' = Len(line)
      /\ coming' # <<>> /\ Len(coming') = Total(Current)' /\ Len(coming') \in Nat
      /\ \A q \in 1 .. Len(coming') : coming'[q] = <<Current', q>>
      /\ \A k \in 1 .. Current : Total(k)' = Total(k)
  BY NewReply
<1>2. /\ Len(line) \in Nat /\ Current \in Nat
      /\ \A n \in 1 .. Len(line) :
           Of(n) \in Nat /\ Place(n) \in Nat /\ Front(n) \in Int
  BY LineTypes
<1>3. \A n : Of(n)' = Of(n) /\ Place(n)' = Place(n) /\ Front(n)' = Front(n)
  BY <1>1 DEF Of, Place, Front
<1>4. \A k \in 1 .. Current, o \in 0 .. Len(line) : Laid(k, o) => Laid(k, o)'
  BY <1>1, <1>2, <1>3 DEF Laid
<1>5. Contiguous'
  <2> SUFFICES ASSUME NEW n \in 1 .. Len(line), Of(n) > 0
               PROVE  /\ Of(n) <= Current' /\ Front(n) >= 0 /\ Place(n) > 0
                      /\ \A k \in 1 .. Current', o \in 0 .. Len(line) :
                           (Of(n) = k /\ Front(n) = o) =>
                             /\ n <= o + Total(k)'
                             /\ Laid(k, o)'
                             /\ (k < Current' \/ coming' = <<>>)
                                  => o + Total(k)' <= Len(line)
                             /\ (k = Current' /\ coming' # <<>>) => o = Start'
    BY <1>1, <1>3 DEF Contiguous
  <2>1. Of(n) <= Current /\ Front(n) >= 0 /\ Place(n) > 0 BY DEF LineOK, Contiguous
  <2>2. ASSUME NEW k \in 1 .. Current', NEW o \in 0 .. Len(line),
               Of(n) = k, Front(n) = o
        PROVE  /\ n <= o + Total(k)' /\ Laid(k, o)' /\ k # Current'
               /\ o + Total(k)' <= Len(line)
    <3>1. k \in 1 .. Current /\ k # Current' BY <1>1, <1>2, <2>1, <2>2
    <3>2. n <= o + Total(k) /\ Laid(k, o) /\ o + Total(k) <= Len(line)
      BY <1>1, <2>2, <3>1 DEF LineOK, Contiguous
    <3> QED BY <1>1, <1>4, <3>1, <3>2
  <2> QED BY <1>1, <1>2, <2>1, <2>2
<1>6. Ordered' BY <1>1, <1>3 DEF LineOK, Ordered
<1>7. InTransit'
  <2>1. \A k \in 1 .. Current', o \in 0 .. Len(line) : o = Start' => Laid(k, o)'
    <3> SUFFICES ASSUME NEW k \in 1 .. Current', NEW o \in 0 .. Len(line), o = Len(line),
                        NEW p \in 1 .. (Total(k)')
                 PROVE  ~(o + p <= Len(line))
      BY <1>1 DEF Laid
    <3>1. p \in Int /\ p >= 1 OBVIOUS
    <3> QED BY <1>2, <3>1
  <2>2. Total(Current)' - Len(coming') = 0 BY <1>1
  <2>3. \A q \in 1 .. Len(coming') : (Total(Current)' - Len(coming')) + q = q
    BY <2>2
  <2> QED BY <1>1, <1>2, <2>1, <2>3 DEF InTransit
<1> QED BY <1>5, <1>6, <1>7 DEF LineOK
LEMMA ByteKeepsLine == ASSUME DataInv, LineOK, Arrive PROVE LineOK'
<1> DEFINE rest == Len(coming)
           here == Len(line) + 1
<1>1. /\ coming # <<>> /\ replies' = replies /\ Len(line') = here
      /\ rest > 0 /\ Len(coming') = rest - 1 /\ (coming' # <<>> => rest > 1)
      /\ \A q \in 1 .. (rest - 1) : coming'[q] = coming[q + 1]
      /\ \A n \in 1 .. Len(line) : Of(n)' = Of(n) /\ Place(n)' = Place(n)
      /\ \A n : n = here => Of(n)' = Current /\ Place(n)' = (Total(Current) - rest) + 1
      /\ Start' = Start
  BY NextByte DEF LineOK
<1>2. /\ Len(line) \in Nat /\ rest \in Nat /\ Current \in Nat
      /\ \A n \in 1 .. Len(line) :
           Of(n) \in Nat /\ Place(n) \in Nat /\ Front(n) \in Int
      /\ \A k \in 1 .. Current : Total(k) \in Nat
  BY LineTypes
<1>3. Current' = Current /\ \A k : Total(k)' = Total(k)
  BY <1>1 DEF Current, Total
<1>4. Current \in 1 .. Current /\ Total(Current) \in Nat
      /\ rest <= Total(Current) /\ Start >= 0
      /\ Start = Len(line) - (Total(Current) - rest) /\ Start \in 0 .. Len(line)
  BY <1>1, <1>2 DEF LineOK, InTransit, Start
<1>5. \A n \in 1 .. Len(line) : Front(n)' = Front(n) BY <1>1 DEF Front
<1>6. \A n : n = here => Front(n)' = Start
  BY <1>1, <1>2, <1>4 DEF Front
<1>7. ASSUME NEW k \in 1 .. Current, NEW o \in 0 .. Len(line), Laid(k, o),
             k = Current => o = Start,
             k < Current => o + Total(k) <= Len(line)
      PROVE  Laid(k, o)'
  <2> SUFFICES ASSUME NEW p \in 1 .. Total(k), o + p <= here
               PROVE  Of(o + p)' = k /\ Place(o + p)' = p
    BY <1>1, <1>3 DEF Laid
  <2>0. p \in Nat /\ o \in Nat /\ here \in Nat BY <1>2
  <2>1. CASE o + p <= Len(line)
    <3>1. Of(o + p) = k /\ Place(o + p) = p BY <1>7, <2>1 DEF Laid
    <3>2. o + p \in 1 .. Len(line) BY <1>2, <2>1
    <3> QED BY <1>1, <3>1, <3>2
  <2>2. CASE o + p = here
    <3>1. k = Current BY <1>2, <1>7, <2>2
    <3>2. o = Len(line) - (Total(Current) - rest) BY <1>4, <1>7, <3>1
    <3>3. /\ Total(Current) \in Int /\ rest \in Int /\ Len(line) \in Int
          /\ here = Len(line) + 1
      BY <1>2, <1>4
    <3>4. \A t, r, l \in Int : o = l - (t - r) /\ o + p = l + 1 => p = (t - r) + 1
      BY <2>0
    <3>5. p = (Total(Current) - rest) + 1 BY <2>2, <3>2, <3>3, <3>4
    <3> QED BY <1>1, <2>2, <3>1, <3>5
  <2>3. o + p < here => o + p <= Len(line) BY <1>2, <2>0
  <2>4. o + p < here \/ o + p = here BY <2>0
  <2> QED BY <2>1, <2>2, <2>3, <2>4
<1>8. ASSUME NEW k \in 1 .. Current, k = Current
      PROVE  Laid(k, Start) /\ Laid(k, Start)'
  <2>1. PICK o \in 0 .. Len(line) : o = Start BY <1>4
  <2>2. Laid(k, o) BY <1>1, <1>8, <2>1 DEF LineOK, InTransit
  <2>3. Laid(k, o)' BY <1>2, <1>7, <1>8, <2>1, <2>2
  <2> QED BY <1>1, <2>1, <2>2, <2>3
<1>9. Contiguous'
  <2> SUFFICES ASSUME NEW n \in 1 .. here, Of(n)' > 0
               PROVE  /\ Of(n)' <= Current /\ Front(n)' >= 0 /\ Place(n)' > 0
                      /\ \A k \in 1 .. Current, o \in 0 .. here :
                           (Of(n)' = k /\ Front(n)' = o) =>
                             /\ n <= o + Total(k)
                             /\ Laid(k, o)'
                             /\ (k < Current \/ coming' = <<>>) => o + Total(k) <= here
                             /\ (k = Current /\ coming' # <<>>) => o = Start'
    BY <1>1, <1>3 DEF Contiguous
  <2>1. CASE n = here
    <3>1. Of(n)' = Current /\ Front(n)' = Start /\ Place(n)' > 0
      BY <1>1, <1>2, <1>4, <1>6, <2>1
    <3>2. here <= Start + Total(Current)
          /\ (coming' = <<>> => Start + Total(Current) <= here)
      <4>1. coming' = <<>> => rest = 1
        <5>1. coming' = <<>> => Len(coming') = 0 OBVIOUS
        <5> QED BY <1>1, <1>2, <5>1
      <4> QED BY <1>1, <1>2, <1>4, <4>1
    <3> QED BY <1>1, <1>2, <1>4, <1>8, <2>1, <3>1, <3>2
  <2>2. CASE n \in 1 .. Len(line)
    <3>1. Of(n)' = Of(n) /\ Place(n)' = Place(n) /\ Front(n)' = Front(n)
      BY <1>1, <1>5, <2>2
    <3>2. Of(n) <= Current /\ Front(n) >= 0 /\ Place(n) > 0
      BY <2>2, <3>1 DEF LineOK, Contiguous
    <3>3. ASSUME NEW k \in 1 .. Current, NEW o \in 0 .. here, Of(n) = k, Front(n) = o
          PROVE  /\ n <= o + Total(k)
                 /\ Laid(k, o)'
                 /\ (k < Current \/ coming' = <<>>) => o + Total(k) <= here
                 /\ (k = Current) => o = Start
      <4>1. o \in 0 .. Len(line)
        BY <1>2, <2>2, <3>2, <3>3 DEF Front
      <4>2. /\ n <= o + Total(k) /\ Laid(k, o)
            /\ k < Current => o + Total(k) <= Len(line)
            /\ k = Current => o = Start
        BY <1>1, <2>2, <3>1, <3>3, <4>1 DEF LineOK, Contiguous
      <4>3. Laid(k, o)' BY <1>7, <4>1, <4>2
      <4>4. coming' = <<>> => rest = 1
        <5>1. coming' = <<>> => Len(coming') = 0 OBVIOUS
        <5> QED BY <1>1, <1>2, <5>1
      <4>5. (k < Current \/ coming' = <<>>) => o + Total(k) <= here
        <5>1. Total(k) \in Nat BY <1>2
        <5>2. CASE k < Current BY <1>2, <4>2, <5>1, <5>2
        <5>3. CASE k = Current /\ coming' = <<>>
          <6>1. o = Len(line) - (Total(Current) - 1)
            BY <1>2, <1>4, <4>2, <4>4, <5>3
          <6> QED BY <1>2, <1>4, <5>3, <6>1
        <5>4. k < Current \/ k = Current BY <1>2
        <5> QED BY <5>2, <5>3, <5>4
      <4> QED BY <4>2, <4>3, <4>5
    <3> QED BY <1>1, <3>1, <3>2, <3>3
  <2> QED BY <1>2, <2>1, <2>2
<1>10. Ordered'
  <2> SUFFICES ASSUME NEW m \in 1 .. here, NEW n \in 1 .. here, m < n,
                      Of(m)' > 0, Of(n)' > 0
               PROVE  Of(m)' <= Of(n)' /\ (Of(m)' = Of(n)' => Front(m)' = Front(n)')
    BY <1>1 DEF Ordered
  <2>1. m \in 1 .. Len(line) BY <1>2
  <2>2. Of(m)' = Of(m) /\ Front(m)' = Front(m) BY <1>1, <1>5, <2>1
  <2>3. CASE n = here
    <3>1. Of(n)' = Current /\ Front(n)' = Start BY <1>1, <1>6, <2>3
    <3>2. Of(m) <= Current /\ Front(m) >= 0 /\ Place(m) > 0
      BY <2>1, <2>2 DEF LineOK, Contiguous
    <3>3. Front(m) \in 0 .. Len(line) BY <1>2, <2>1, <3>2 DEF Front
    <3>4. Of(m) = Current => Front(m) = Start
      BY <1>1, <1>4, <2>1, <2>2, <3>3 DEF LineOK, Contiguous
    <3> QED BY <2>2, <3>1, <3>2, <3>4
  <2>4. CASE n \in 1 .. Len(line)
    <3>1. Of(n)' = Of(n) /\ Front(n)' = Front(n) BY <1>1, <1>5, <2>4
    <3> QED BY <2>1, <2>2, <2>4, <3>1 DEF LineOK, Ordered
  <2> QED BY <1>2, <2>3, <2>4
<1>11. InTransit'
  <2> SUFFICES ASSUME coming' # <<>>
               PROVE  /\ Current > 0 /\ rest - 1 <= Total(Current) /\ Start' >= 0
                      /\ \A q \in 1 .. (rest - 1) :
                           coming'[q] = <<Current, (Total(Current) - (rest - 1)) + q>>
                      /\ \A k \in 1 .. Current, o \in 0 .. here :
                           (k = Current /\ o = Start') => Laid(k, o)'
    BY <1>1, <1>3 DEF InTransit
  <2>1. ASSUME NEW q \in 1 .. (rest - 1)
        PROVE  coming'[q] = <<Current, (Total(Current) - (rest - 1)) + q>>
    <3>1. q + 1 \in 1 .. rest BY <1>2
    <3>2. coming[q + 1] = <<Current, (Total(Current) - rest) + (q + 1)>>
      BY <1>1, <3>1 DEF LineOK, InTransit
    <3>3. (Total(Current) - rest) + (q + 1) = (Total(Current) - (rest - 1)) + q
      BY <1>2, <1>4
    <3> QED BY <1>1, <3>2, <3>3
  <2> QED BY <1>1, <1>2, <1>4, <1>8, <2>1
<1> QED BY <1>9, <1>10, <1>11 DEF LineOK
LEMMA NoiseKeepsLine == ASSUME DataInv, LineOK, Disturb PROVE LineOK'
<1> DEFINE here == Len(line) + 1
<1>1. /\ coming = <<>> /\ coming' = <<>> /\ replies' = replies /\ Len(line') = here
      /\ \A n \in 1 .. Len(line) : Of(n)' = Of(n) /\ Place(n)' = Place(n)
      /\ \A n : n = here => Of(n)' = 0
  BY NoiseByte
<1>2. /\ Len(line) \in Nat /\ Current \in Nat
      /\ \A n \in 1 .. Len(line) :
           Of(n) \in Nat /\ Place(n) \in Nat /\ Front(n) \in Int
      /\ \A k \in 1 .. Current : Total(k) \in Nat
  BY LineTypes
<1>3. Current' = Current /\ \A k : Total(k)' = Total(k)
  BY <1>1 DEF Current, Total
<1>4. \A n \in 1 .. Len(line) : Front(n)' = Front(n) BY <1>1 DEF Front
<1>5. Contiguous'
  <2> SUFFICES ASSUME NEW n \in 1 .. here, Of(n)' > 0
               PROVE  /\ Of(n)' <= Current /\ Front(n)' >= 0 /\ Place(n)' > 0
                      /\ \A k \in 1 .. Current, o \in 0 .. here :
                           (Of(n)' = k /\ Front(n)' = o) =>
                             n <= o + Total(k) /\ Laid(k, o)' /\ o + Total(k) <= here
    BY <1>1, <1>3 DEF Contiguous
  <2>1. n \in 1 .. Len(line) BY <1>1, <1>2
  <2>2. Of(n)' = Of(n) /\ Place(n)' = Place(n) /\ Front(n)' = Front(n)
    BY <1>1, <1>4, <2>1
  <2>3. Of(n) <= Current /\ Front(n) >= 0 /\ Place(n) > 0
    BY <2>1, <2>2 DEF LineOK, Contiguous
  <2>4. ASSUME NEW k \in 1 .. Current, NEW o \in 0 .. here, Of(n) = k, Front(n) = o
        PROVE  n <= o + Total(k) /\ Laid(k, o)' /\ o + Total(k) <= here
    <3>1. o \in 0 .. Len(line) BY <1>2, <2>1, <2>3, <2>4 DEF Front
    <3>2. n <= o + Total(k) /\ Laid(k, o) /\ o + Total(k) <= Len(line)
      BY <1>1, <2>1, <2>2, <2>4, <3>1 DEF LineOK, Contiguous
    <3>3. Total(k) \in Nat BY <1>2
    <3>4. ASSUME NEW p \in 1 .. Total(k)
          PROVE  Of(o + p)' = k /\ Place(o + p)' = p
      <4>1. o + p \in 1 .. Len(line) BY <1>2, <3>1, <3>2, <3>3
      <4>2. Of(o + p) = k /\ Place(o + p) = p BY <3>2, <4>1 DEF Laid
      <4> QED BY <1>1, <4>1, <4>2
    <3>5. Laid(k, o)' BY <1>3, <3>4 DEF Laid
    <3> QED BY <1>2, <3>1, <3>2, <3>3, <3>5
  <2> QED BY <2>2, <2>3, <2>4
<1>6. Ordered'
  <2> SUFFICES ASSUME NEW m \in 1 .. here, NEW n \in 1 .. here, m < n,
                      Of(m)' > 0, Of(n)' > 0
               PROVE  Of(m)' <= Of(n)' /\ (Of(m)' = Of(n)' => Front(m)' = Front(n)')
    BY <1>1 DEF Ordered
  <2>1. m \in 1 .. Len(line) /\ n \in 1 .. Len(line) BY <1>1, <1>2
  <2>2. /\ Of(m)' = Of(m) /\ Front(m)' = Front(m)
        /\ Of(n)' = Of(n) /\ Front(n)' = Front(n)
    BY <1>1, <1>4, <2>1
  <2> QED BY <2>1, <2>2 DEF LineOK, Ordered
<1>7. InTransit' BY <1>1 DEF InTransit
<1> QED BY <1>5, <1>6, <1>7 DEF LineOK

LEMMA LineStep == ASSUME DataInv, LineOK, [Next]_vars PROVE LineOK'
<1>1. CASE UNCHANGED <<line, coming, replies>>
  BY <1>1 DEF LineOK, Contiguous, Ordered, InTransit, Laid, Of, Place, Front,
              Start, Current, Total
<1>2. \/ StartReply \/ Arrive \/ Disturb \/ UNCHANGED <<line, coming, replies>>
  BY DEF Next, Main, StandbyReceive, StandbyButton, StandbyRelease, InProgress,
         Done, ReadHeader, ReadTag, ReadBody, Accept, ClearRxBuffer, Reset,
         Press, Release, Bounce, meter, vars
<1> QED BY <1>1, <1>2, ReplyKeepsLine, ByteKeepsLine, NoiseKeepsLine
-----------------------------------------------------------------------------
(* The counter and the age of the reply.                                   *)
LEMMA InitAge == ASSUME Init PROVE AgeOK
  BY DEF Init, AgeOK

(* A pass that counts adds one to the counter, or finds it at the limit.   *)
LEMMA Counts ==
  ASSUME ControlInv, InProgress
  PROVE  /\ tmoutCnt' \in Nat /\ tmoutCnt' <= tmoutCnt + 1
         /\ state' = "RX_DONE" \/ state' = "RX_IN_PROGRESS"
         /\ state' = "RX_DONE" => tmoutCnt' = 0 /\ tmoutCnt = LIMIT
<1>1. tmoutCnt \in Nat /\ tmoutCnt < COUNTER_MOD /\ COUNTER_MOD \in Nat
  BY Constants DEF ControlInv
<1>2. (tmoutCnt + 1) % COUNTER_MOD \in Nat /\ (tmoutCnt + 1) % COUNTER_MOD <= tmoutCnt + 1
  <2>1. CASE tmoutCnt + 1 < COUNTER_MOD
    <3>1. (tmoutCnt + 1) % COUNTER_MOD = tmoutCnt + 1 BY <1>1, <2>1
    <3> QED BY <1>1, <3>1
  <2>2. CASE tmoutCnt + 1 = COUNTER_MOD
    <3>1. COUNTER_MOD % COUNTER_MOD \in 0 .. (COUNTER_MOD - 1)
      BY <1>1, Remainder
    <3> QED BY <1>1, <2>2, <3>1
  <2> QED BY <1>1, <2>1, <2>2
<1> QED BY <1>1, <1>2 DEF InProgress, StartPass

LEMMA AgeStep == ASSUME ControlInv, DataInv, LineOK, AgeOK, [Next]_vars PROVE AgeOK'
<1>0. /\ stored \in Nat /\ taken \in Nat /\ taken <= stored /\ stored = Len(line)
      /\ tmoutCnt \in Nat /\ age \in Nat /\ BURST_MAX \in Nat /\ BURST_MAX > 0
  BY Constants, TerminalAssumption DEF DataInv, ControlInv
<1>1. CASE StandbyReceive
  <2>1. /\ UNCHANGED <<line, coming, replies, stored, taken, tmoutCnt>>
        /\ state = "RX_STANDBY" /\ tmoutCnt = 0
        /\ state' # state => taken < stored
        /\ coming # <<>> => age < BURST_MAX /\ age' = age + 1
    BY <1>1 DEF StandbyReceive, StartPass, fifo, meter, AgeOK, Fifo!Available
  <2>2. age' \in Nat BY <1>0, <1>1 DEF StandbyReceive, StartPass
  <2>3. state' \in {"RX_STANDBY", "RX_IN_PROGRESS"} BY <1>1, <2>1 DEF StandbyReceive
  <2> QED BY <1>0, <2>1, <2>2, <2>3 DEF AgeOK
<1>2. CASE InProgress
  <2>1. /\ UNCHANGED <<line, coming, replies, stored, taken>>
        /\ state = "RX_IN_PROGRESS"
        /\ coming # <<>> => age < BURST_MAX /\ age' = age + 1
    BY <1>2 DEF InProgress, StartPass, fifo, meter
  <2>2. Start' = Start BY <2>1 DEF Start, Current, Total
  <2>3. /\ tmoutCnt' \in Nat /\ tmoutCnt' <= tmoutCnt + 1
        /\ state' = "RX_DONE" \/ state' = "RX_IN_PROGRESS"
        /\ state' = "RX_DONE" => tmoutCnt' = 0
    BY <1>2, Counts
  <2> QED BY <1>0, <2>1, <2>2, <2>3 DEF AgeOK
<1>3. CASE Done \/ ReadHeader \/ ReadTag \/ ReadBody \/ Accept \/ ClearRxBuffer
  <2>1. UNCHANGED <<coming, state, tmoutCnt, age>>
    BY <1>3 DEF Done, ReadHeader, ReadTag, ReadBody, Accept, ClearRxBuffer, meter
  <2>2. state = "RX_DONE"
    BY <1>3 DEF Done, ReadHeader, ReadTag, ReadBody, Accept, ClearRxBuffer, ControlInv
  <2> QED BY <2>1, <2>2 DEF AgeOK
<1>4. CASE Reset
  <2>1. /\ UNCHANGED <<coming, tmoutCnt, age>> /\ state' = "RX_STANDBY"
        /\ state = "RX_DONE"
    BY <1>4 DEF Reset, meter, ControlInv
  <2> QED BY <1>0, <2>1 DEF AgeOK
<1>5. CASE StartReply
  <2>1. line' = line /\ stored' = stored /\ taken' = taken /\ Start' = Len(line)
    BY <1>5, NewReply
  <2>2. UNCHANGED <<state, tmoutCnt>> /\ age' = 0 BY <1>5 DEF StartReply, control
  <2> QED BY <1>0, <2>1, <2>2 DEF AgeOK
<1>6. CASE Arrive
  <2>1. /\ stored' = stored + 1 /\ taken' = taken /\ coming # <<>> /\ Start' = Start
    BY <1>6, NextByte DEF LineOK
  <2>2. UNCHANGED <<state, tmoutCnt, age>> BY <1>6 DEF Arrive, Receive, control
  <2> QED BY <1>0, <2>1, <2>2 DEF AgeOK
<1>7. CASE Disturb
  <2>1. stored' = stored + 1 /\ taken' = taken /\ coming' = <<>>
    BY <1>7, NoiseByte
  <2>2. UNCHANGED <<state, tmoutCnt, age>> BY <1>7 DEF Disturb, Receive, control
  <2> QED BY <1>0, <2>1, <2>2 DEF AgeOK
<1>8. CASE UNCHANGED <<line, coming, replies, stored, taken, state, tmoutCnt, age>>
  <2>1. Start' = Start BY <1>8 DEF Start, Current, Total
  <2> QED BY <1>8, <2>1 DEF AgeOK
<1>9. \/ StandbyReceive \/ InProgress \/ Done \/ ReadHeader \/ ReadTag \/ ReadBody
      \/ Accept \/ ClearRxBuffer \/ Reset \/ StartReply \/ Arrive \/ Disturb
      \/ UNCHANGED <<line, coming, replies, stored, taken, state, tmoutCnt, age>>
  BY DEF Next, Main, StandbyButton, StandbyRelease, Press, Release, Bounce,
         fifo, meter, control, vars
<1> QED BY <1>1, <1>2, <1>3, <1>4, <1>5, <1>6, <1>7, <1>8, <1>9
-----------------------------------------------------------------------------
(* With a patient user the timeout fires when it is due.                   *)
LEMMA InitPatient == ASSUME Init PROVE PatientInv
<1>1. 0 < LIMIT BY Constants
<1>2. /\ replies = <<>> /\ requests = 0 /\ coming = <<>> /\ tmoutCnt = 0 /\ ~pressed
  BY DEF Init
<1>3. Len(replies) = 0 BY <1>2
<1> QED BY <1>1, <1>2, <1>3, Constants DEF PatientInv

LEMMA PatientStep ==
  ASSUME ControlInv, DataInv, InTransit, AgeOK, ButtonInv, PatientInv, [Next]_vars
  PROVE  PatientInv'
<1>0. /\ stored \in Nat /\ taken \in Nat /\ taken <= stored
      /\ tmoutCnt \in Nat /\ age \in Nat /\ requests \in Nat /\ Len(replies) \in Nat
      /\ BURST_MAX \in Nat /\ LIMIT \in Nat /\ BURST_MAX < LIMIT /\ 0 < LIMIT
      /\ LIMIT < COUNTER_MOD /\ COUNTER_MOD \in Nat
  BY Constants, LineTypes DEF DataInv, ControlInv, ButtonInv, Current
<1>1. patient' = patient
  BY DEF Next, Main, StandbyReceive, StandbyButton, StandbyRelease, InProgress,
         Done, ReadHeader, ReadTag, ReadBody, Accept, ClearRxBuffer, Reset,
         Press, Release, Bounce, StartReply, Arrive, Disturb, Receive, button, vars
<1> SUFFICES ASSUME patient PROVE PatientInv'
  BY <1>1 DEF PatientInv
<1>2. CASE StandbyReceive
  <2>1. /\ UNCHANGED <<replies, coming, requests, pressed, flag, stored, taken, tmoutCnt>>
        /\ state = "RX_STANDBY" /\ tmoutCnt = 0
        /\ taken = stored => state' = state
    BY <1>0, <1>2 DEF StandbyReceive, StartPass, fifo, meter, button, AgeOK, Fifo!Available
  <2>2. age' \in Nat BY <1>0, <1>2 DEF StandbyReceive, StartPass
  <2> QED BY <1>0, <2>1, <2>2 DEF PatientInv, Quiet
<1>3. CASE StandbyButton
  <2>1. /\ UNCHANGED <<replies, coming, pressed, stored, taken, state, tmoutCnt, age, rxCounter>>
        /\ (pressed /\ ~flag) => requests' = requests + 1
        /\ ~(pressed /\ ~flag) => requests' = requests
        /\ ~(pressed' /\ ~flag')
    BY <1>3 DEF StandbyButton, button, meter, fifo
  <2>2. Fifo!Position' = Fifo!Position BY <2>1 DEF Fifo!Position
  <2> QED BY <1>0, <2>1, <2>2 DEF PatientInv, Quiet
<1>4. CASE StandbyRelease
  <2>1. /\ UNCHANGED <<replies, coming, stored, taken, state, tmoutCnt, age, rxCounter,
                       requests>>
        /\ (pressed' /\ ~flag') => pressed /\ ~flag
    BY <1>4 DEF StandbyRelease, button, meter, fifo
  <2>2. Fifo!Position' = Fifo!Position BY <2>1 DEF Fifo!Position
  <2> QED BY <2>1, <2>2 DEF PatientInv, Quiet
<1>5. CASE InProgress
  <2>1. /\ UNCHANGED <<replies, coming, requests, pressed, flag, stored, taken>>
        /\ state = "RX_IN_PROGRESS"
        /\ coming # <<>> => age < BURST_MAX /\ age' = age + 1
    BY <1>5 DEF InProgress, StartPass, fifo, meter, button
  <2>2. ~Quiet BY <2>1 DEF Quiet
  <2>3. Fifo!Position' = Fifo!Position BY <2>1 DEF Fifo!Position
  <2>4. tmoutCnt <= LIMIT /\ (coming # <<>> => tmoutCnt <= age)
        /\ (tmoutCnt = LIMIT => rxCounter = Fifo!Position)
    BY DEF PatientInv
  <2>5. \/ tmoutCnt' = 0
        \/ tmoutCnt < LIMIT /\ tmoutCnt' = tmoutCnt + 1 /\ rxCounter' = Fifo!Position
    <3>1. tmoutCnt < LIMIT => (tmoutCnt + 1) % COUNTER_MOD = tmoutCnt + 1
      BY <1>0
    <3> QED BY <1>0, <1>5, <2>4, <3>1 DEF InProgress
  <2>6. tmoutCnt' <= LIMIT /\ (coming # <<>> => tmoutCnt' <= age')
        /\ (tmoutCnt' = LIMIT => rxCounter' = Fifo!Position /\ coming = <<>>)
    <3>1. CASE tmoutCnt' = 0
      <4>1. coming # <<>> => age' \in Nat BY <1>0, <2>1
      <4> QED BY <1>0, <3>1, <4>1
    <3>2. CASE tmoutCnt < LIMIT /\ tmoutCnt' = tmoutCnt + 1 /\ rxCounter' = Fifo!Position
      BY <1>0, <2>1, <2>4, <3>2
    <3> QED BY <2>5, <3>1, <3>2
  <2> QED BY <1>0, <2>1, <2>2, <2>3, <2>6 DEF PatientInv
<1>6. CASE Done \/ ReadHeader \/ ReadTag \/ ReadBody \/ Accept \/ ClearRxBuffer \/ Reset
  <2>1. UNCHANGED <<replies, coming, requests, pressed, flag, tmoutCnt, age>>
    BY <1>6 DEF Done, ReadHeader, ReadTag, ReadBody, Accept, ClearRxBuffer, Reset,
                meter, button
  <2>2. state = "RX_DONE"
    BY <1>6 DEF Done, ReadHeader, ReadTag, ReadBody, Accept, ClearRxBuffer, Reset, ControlInv
  <2>3. ~Quiet /\ tmoutCnt = 0 BY <2>2 DEF Quiet, AgeOK
  <2> QED BY <1>0, <2>1, <2>3 DEF PatientInv
<1>7. CASE Press
  <2>1. /\ UNCHANGED <<replies, coming, stored, taken, state, tmoutCnt, age, rxCounter,
                       requests>>
        /\ Answered
    BY <1>7 DEF Press, control, meter, fifo
  <2>2. Len(replies) = requests /\ Quiet
    BY <1>0, <2>1 DEF Answered, Quiet, Fifo!Available
  <2>3. Fifo!Position' = Fifo!Position BY <2>1 DEF Fifo!Position
  <2> QED BY <1>0, <2>1, <2>2, <2>3 DEF PatientInv, Quiet
<1>8. CASE Release
  <2>1. /\ UNCHANGED <<replies, coming, stored, taken, state, tmoutCnt, age, rxCounter,
                       requests>>
        /\ ~pressed'
    BY <1>8 DEF Release, control, meter, fifo
  <2>2. Fifo!Position' = Fifo!Position BY <2>1 DEF Fifo!Position
  <2> QED BY <2>1, <2>2 DEF PatientInv, Quiet
<1>9. CASE StartReply
  <2>1. /\ UNCHANGED <<state, tmoutCnt, rxCounter, requests, pressed, flag>>
        /\ age' = 0 /\ Len(replies) < requests
    BY <1>9 DEF StartReply, control, button
  <2>2. Quiet BY <2>1 DEF PatientInv
  <2>3. tmoutCnt = 0 BY <2>2 DEF Quiet, AgeOK
  <2>4. Len(replies') = Len(replies) + 1 BY <1>9, NewReply DEF Current
  <2>5. ~(pressed /\ ~flag) /\ requests = Len(replies) + 1
    BY <1>0, <2>1 DEF PatientInv
  <2> QED BY <1>0, <2>1, <2>3, <2>4, <2>5 DEF PatientInv
<1>10. CASE Arrive
  <2>1. /\ UNCHANGED <<replies, tmoutCnt, requests, pressed, flag, age>>
        /\ coming # <<>>
    BY <1>10 DEF Arrive, Receive, control, button
  <2>2. ~Quiet /\ tmoutCnt # LIMIT BY <2>1 DEF Quiet, PatientInv
  <2> QED BY <2>1, <2>2 DEF PatientInv
<1>11. CASE UNCHANGED vars
  <2>1. UNCHANGED <<replies, coming, requests, pressed, flag, stored, taken, state,
                    tmoutCnt, age, rxCounter>>
    BY <1>11 DEF vars, control, fifo, button, meter
  <2>2. Fifo!Position' = Fifo!Position BY <2>1 DEF Fifo!Position
  <2> QED BY <2>1, <2>2 DEF PatientInv, Quiet
<1>12. ~Bounce /\ ~Disturb BY DEF Bounce, Disturb
<1> QED BY <1>2, <1>3, <1>4, <1>5, <1>6, <1>7, <1>8, <1>9, <1>10, <1>11, <1>12
        DEF Next, Main
-----------------------------------------------------------------------------
(* The type invariant.                                                     *)
LEMMA InitRange == ASSUME Init PROVE RangeInv
<1>1. /\ MaxPresses \in Nat /\ MaxRough \in Nat /\ MaxBounces \in Nat
  BY TerminalAssumption DEF TerminalAssumption
<1>2. <<0, 0>> \in Byte BY <1>1, Constants DEF Byte
<1>3. cr \in [1 .. TAG -> Byte] /\ cr_all \in [1 .. BODY -> Byte]
  BY <1>2 DEF Init, Zero
<1>4. line = <<>> /\ replies = <<>> BY DEF Init
<1>5. Len(line) = 0 /\ Len(replies) = 0 BY <1>4
<1>6. presses = 0 /\ bounces = 0 /\ requests = 0 /\ rxCounter = 0 BY DEF Init
<1> QED BY <1>1, <1>3, <1>5, <1>6, Constants DEF RangeInv

(* No more replies than requests, and no more requests than closings.      *)
LEMMA ByteRange ==
  ASSUME DataInv, ButtonInv, RangeInv,
         NEW k \in 0 .. Current, NEW p \in 0 .. (HEADER + TAG + BODY)
  PROVE  <<k, p>> \in Byte
<1>1. /\ MaxPresses \in Nat /\ MaxRough \in Nat /\ MaxBounces \in Nat
  BY TerminalAssumption DEF TerminalAssumption
<1>2. Half(bounces) <= MaxBounces /\ Half(bounces) \in Nat
  <2>1. bounces \in Nat /\ bounces <= 2 * MaxBounces BY DEF ButtonInv, RangeInv
  <2>2. bounces \div 2 <= MaxBounces BY <1>1, <2>1
  <2> QED BY <2>1, <2>2, Halves DEF Half
<1>3. requests <= presses + Half(bounces) /\ requests \in Nat /\ presses \in Nat
  BY <1>2 DEF ButtonInv, Due
<1>4. Current <= requests /\ Current \in Nat /\ presses <= MaxPresses + MaxRough
  BY LineTypes DEF RangeInv, Current
<1>5. k \in 0 .. (MaxPresses + MaxRough + MaxBounces)
  BY <1>1, <1>2, <1>3, <1>4
<1> QED BY <1>5 DEF Byte

LEMMA ReadByte ==
  ASSUME DataInv, RangeInv, ReadUART, NEW byte \in Byte
  PROVE  Read(byte) \in Byte
<1>1. stored \in Nat /\ taken \in Nat /\ stored = Len(line) BY DEF DataInv
<1>2. \/ taken < stored /\ Read(byte) = line[taken + 1]
      \/ Read(byte) = byte
  BY ReadCases
<1>3. taken < stored => taken + 1 \in 1 .. Len(line) BY <1>1
<1> QED BY <1>2, <1>3 DEF RangeInv

LEMMA RangeStep ==
  ASSUME ControlInv, DataInv, InTransit, ButtonInv, RangeInv, [Next]_vars
  PROVE  RangeInv'
<1>0. /\ MaxPresses \in Nat /\ MaxRough \in Nat /\ MaxBounces \in Nat
      /\ requests \in Nat /\ presses \in Nat /\ bounces \in Nat
      /\ Len(line) \in Nat /\ Current \in Nat
  BY TerminalAssumption, LineTypes DEF TerminalAssumption, ButtonInv
<1>1. Len(replies') <= requests'
  <2>1. CASE StartReply
    <3>1. Len(replies') = Len(replies) + 1 BY <2>1, NewReply DEF Current
    <3>2. Len(replies) < requests /\ requests' = requests BY <2>1 DEF StartReply
    <3> QED BY <1>0, <3>1, <3>2 DEF Current
  <2>2. CASE StandbyButton
    <3>1. replies' = replies /\ (requests' = requests + 1 \/ requests' = requests)
      BY <2>2 DEF StandbyButton, meter
    <3> QED BY <1>0, <3>1 DEF RangeInv, Current
  <2>3. CASE UNCHANGED <<replies, requests>> BY <2>3 DEF RangeInv
  <2>4. StartReply \/ StandbyButton \/ UNCHANGED <<replies, requests>>
    BY DEF Next, Main, StandbyReceive, StandbyRelease, InProgress,
           Done, ReadHeader, ReadTag, ReadBody, Accept, ClearRxBuffer, Reset,
           Press, Release, Bounce, Arrive, Disturb, Receive, meter, vars
  <2> QED BY <2>1, <2>2, <2>3, <2>4
<1>2. presses' <= MaxPresses + MaxRough
  <2>1. CASE Press BY <1>0, <2>1 DEF Press
  <2>2. CASE UNCHANGED presses BY <2>2 DEF RangeInv
  <2>3. Press \/ UNCHANGED presses
    BY DEF Next, Main, StandbyReceive, StandbyButton, StandbyRelease, InProgress,
           Done, ReadHeader, ReadTag, ReadBody, Accept, ClearRxBuffer, Reset,
           Release, Bounce, StartReply, Arrive, Disturb, Receive, button, vars
  <2> QED BY <2>1, <2>2, <2>3
<1>3. bounces' <= 2 * MaxBounces
  <2>1. CASE Bounce BY <1>0, <2>1 DEF Bounce
  <2>2. CASE UNCHANGED bounces BY <2>2 DEF RangeInv
  <2>3. Bounce \/ UNCHANGED bounces
    BY DEF Next, Main, StandbyReceive, StandbyButton, StandbyRelease, InProgress,
           Done, ReadHeader, ReadTag, ReadBody, Accept, ClearRxBuffer, Reset,
           Press, Release, StartReply, Arrive, Disturb, Receive, button, vars
  <2> QED BY <2>1, <2>2, <2>3
<1>4. rxCounter' \in 0 .. (SIZE_BUF_RX - 1)
  <2>1. Fifo!Position \in 0 .. (SIZE_BUF_RX - 1)
    BY Constants, Remainder DEF Fifo!Position, DataInv
  <2>2. rxCounter' \in {rxCounter, 0, Fifo!Position}
    BY DEF Next, Main, StandbyReceive, StandbyButton, StandbyRelease, InProgress,
           Done, ReadHeader, ReadTag, ReadBody, Accept, ClearRxBuffer, Reset,
           Press, Release, Bounce, StartReply, Arrive, Disturb, Receive, control, vars
  <2>3. 0 \in 0 .. (SIZE_BUF_RX - 1) BY Constants
  <2> QED BY <2>1, <2>2, <2>3 DEF RangeInv
<1>5. cr' \in [1 .. TAG -> Byte] /\ cr_all' \in [1 .. BODY -> Byte]
  <2>0. cr \in [1 .. TAG -> Byte] /\ cr_all \in [1 .. BODY -> Byte] BY DEF RangeInv
  <2>1. CASE ReadTag
    <3>1. i + 1 \in 1 .. TAG BY <2>1, Constants DEF ReadTag, ControlInv
    <3>2. Read(cr[i + 1]) \in Byte BY <2>0, <2>1, <3>1, ReadByte DEF ReadTag
    <3>3. cr' = [cr EXCEPT ![i + 1] = Read(cr[i + 1])] /\ cr_all' = cr_all
      BY <2>0, <2>1 DEF ReadTag
    <3> QED BY <2>0, <3>1, <3>2, <3>3
  <2>2. CASE ReadBody
    <3>1. i + 1 \in 1 .. BODY BY <2>2, Constants DEF ReadBody, ControlInv
    <3>2. Read(cr_all[i + 1]) \in Byte BY <2>0, <2>2, <3>1, ReadByte DEF ReadBody
    <3>3. cr_all' = [cr_all EXCEPT ![i + 1] = Read(cr_all[i + 1])] /\ cr' = cr
      BY <2>0, <2>2 DEF ReadBody
    <3> QED BY <2>0, <3>1, <3>2, <3>3
  <2>3. CASE Reset
    <3>1. <<0, 0>> \in Byte BY <1>0, Constants DEF Byte
    <3> QED BY <2>3, <3>1 DEF Reset, Zero
  <2>4. CASE UNCHANGED message BY <2>0, <2>4 DEF message
  <2>5. ReadTag \/ ReadBody \/ Reset \/ UNCHANGED message
    BY DEF Next, Main, StandbyReceive, StandbyButton, StandbyRelease, InProgress,
           Done, ReadHeader, Accept, ClearRxBuffer,
           Press, Release, Bounce, StartReply, Arrive, Disturb, Receive, message, vars
  <2> QED BY <2>1, <2>2, <2>3, <2>4, <2>5
<1>6. \A n \in 1 .. Len(line') : line'[n] \in Byte
  <2>0. \A n \in 1 .. Len(line) : line[n] \in Byte BY DEF RangeInv
  <2>1. CASE Arrive
    <3>1. coming # <<>> /\ Receive(Head(coming)) BY <2>1 DEF Arrive
    <3>2. Head(coming) = coming[1] /\ Head(coming) \in Bytes /\ Len(coming) \in Nat
          /\ Len(coming) > 0
      BY <3>1, ComingBytes
    <3>3. /\ Current \in 1 .. Current /\ Len(coming) <= Total(Current)
          /\ coming[1] = <<Current, (Total(Current) - Len(coming)) + 1>>
      BY <1>0, <3>1, <3>2 DEF InTransit
    <3>4. replies[Current] \in Nat /\ replies[Current] <= BODY BY <3>3, LineTypes
    <3>5. (Total(Current) - Len(coming)) + 1 \in 0 .. (HEADER + TAG + BODY)
      BY <3>2, <3>3, <3>4, Constants DEF Total
    <3>6. Head(coming) \in Byte
      <4>1. PICK k \in 0 .. Current : k = Current BY <1>0
      <4>2. PICK p \in 0 .. (HEADER + TAG + BODY) : p = (Total(Current) - Len(coming)) + 1
        BY <3>5
      <4>3. <<k, p>> \in Byte BY ByteRange
      <4> QED BY <3>2, <3>3, <4>1, <4>2, <4>3
    <3>7. /\ Len(line') = Len(line) + 1
          /\ \A n \in 1 .. Len(line) : line'[n] = line[n]
          /\ line'[Len(line) + 1] = Head(coming)
      BY <3>1, <3>2, ReceiveLine
    <3> QED BY <1>0, <2>0, <3>6, <3>7
  <2>2. CASE Disturb
    <3>1. Receive(Noise) BY <2>2 DEF Disturb
    <3>2. Noise \in Bytes BY DEF Noise, Bytes
    <3>3. Noise \in Byte BY <1>0, Constants DEF Noise, Byte
    <3>4. /\ Len(line') = Len(line) + 1
          /\ \A n \in 1 .. Len(line) : line'[n] = line[n]
          /\ line'[Len(line) + 1] = Noise
      BY <3>1, <3>2, ReceiveLine
    <3> QED BY <1>0, <2>0, <3>3, <3>4
  <2>3. CASE UNCHANGED line BY <2>0, <2>3
  <2>4. Arrive \/ Disturb \/ UNCHANGED line
    BY DEF Next, Main, StandbyReceive, StandbyButton, StandbyRelease, InProgress,
           Done, ReadHeader, ReadTag, ReadBody, Accept, ClearRxBuffer, Reset,
           Press, Release, Bounce, StartReply, meter, vars
  <2> QED BY <2>1, <2>2, <2>3, <2>4
<1> QED BY <1>1, <1>2, <1>3, <1>4, <1>5, <1>6 DEF RangeInv
-----------------------------------------------------------------------------
(* What the decoder gets.                                                  *)

(* A step only adds to the line: bytes of the current reply, and noise.    *)
LEMMA LineGrows ==
  ASSUME ControlInv, DataInv, LineOK, [Next]_vars
  PROVE  /\ Len(line) <= Len(line') /\ Current <= Current' /\ Current' \in Nat
         /\ taken <= taken'
         /\ \A n \in 1 .. Len(line) : Of(n)' = Of(n) /\ Place(n)' = Place(n)
         /\ \A n \in 1 .. Len(line') : (n > Len(line) /\ Of(n)' > 0) =>
              Of(n)' = Current /\ coming # <<>>
         /\ \A k \in 1 .. Current : replies'[k] = replies[k] /\ Total(k)' = Total(k)
         /\ coming' # <<>> =>
              \/ coming # <<>> /\ Start' = Start /\ Current' = Current
              \/ Start' = Len(line) /\ Current' = Current + 1
<1>0. /\ Len(line) \in Nat /\ Current \in Nat
      /\ stored \in Nat /\ taken \in Nat /\ taken <= stored
  BY LineTypes DEF DataInv
<1>1. CASE StartReply
  <2>1. line' = line /\ taken' = taken BY <1>1, NewReply
  <2>2. \A n : Of(n)' = Of(n) /\ Place(n)' = Place(n) BY <2>1 DEF Of, Place
  <2>3. \A n \in 1 .. Len(line') : ~(n > Len(line)) BY <1>0, <2>1
  <2>4. /\ Current' = Current + 1 /\ Start' = Len(line)
        /\ \A k \in 1 .. Current : replies'[k] = replies[k] /\ Total(k)' = Total(k)
    BY <1>1, NewReply
  <2> QED BY <1>0, <2>1, <2>2, <2>3, <2>4
<1>2. CASE Arrive
  <2>1. Current' = Current /\ \A k : Total(k)' = Total(k)
    BY <1>2, NextByte DEF LineOK, Current, Total
  <2>2. \A n \in 1 .. Len(line') : n > Len(line) => n = Len(line) + 1
    BY <1>0, <1>2, NextByte DEF LineOK
  <2> QED BY <1>0, <1>2, <2>1, <2>2, NextByte DEF LineOK
<1>3. CASE Disturb
  <2>1. Current' = Current /\ \A k : Total(k)' = Total(k)
    BY <1>3, NoiseByte DEF Current, Total
  <2>2. \A n \in 1 .. Len(line') : n > Len(line) => n = Len(line) + 1
    BY <1>0, <1>3, NoiseByte
  <2>3. /\ taken' = taken /\ coming' = <<>> /\ replies' = replies
        /\ Len(line') = Len(line) + 1
        /\ \A n \in 1 .. Len(line) : Of(n)' = Of(n) /\ Place(n)' = Place(n)
        /\ \A n : n = Len(line) + 1 => Of(n)' = 0
    BY <1>3, NoiseByte
  <2>4. \A n \in 1 .. Len(line') : n > Len(line) => ~(Of(n)' > 0)
    BY <2>2, <2>3
  <2> QED BY <1>0, <2>1, <2>3, <2>4
<1>4. CASE UNCHANGED <<line, coming, replies>> /\ taken <= taken'
  <2>1. /\ \A n : Of(n)' = Of(n) /\ Place(n)' = Place(n)
        /\ Current' = Current /\ Start' = Start
        /\ \A k : Total(k)' = Total(k)
    BY <1>4 DEF Of, Place, Current, Start, Total
  <2>2. \A n \in 1 .. Len(line') : ~(n > Len(line)) BY <1>0, <1>4
  <2> QED BY <1>0, <1>4, <2>1, <2>2
<1>5. \/ StartReply \/ Arrive \/ Disturb
      \/ UNCHANGED <<line, coming, replies>> /\ taken <= taken'
  <2>1. CASE ReadHeader \/ ReadTag \/ ReadBody
    <3>1. ReadUART /\ UNCHANGED <<line, coming, replies>>
      BY <2>1 DEF ReadHeader, ReadTag, ReadBody, meter
    <3>2. taken' = taken \/ taken' = taken + 1 BY <3>1, ReadCases
    <3> QED BY <1>0, <3>1, <3>2
  <2>2. CASE ClearRxBuffer
    BY <1>0, <2>2 DEF ClearRxBuffer, Fifo!Clear, meter
  <2>3. CASE UNCHANGED <<line, coming, replies, taken>>
    BY <1>0, <2>3
  <2>4. \/ StartReply \/ Arrive \/ Disturb
        \/ ReadHeader \/ ReadTag \/ ReadBody \/ ClearRxBuffer
        \/ UNCHANGED <<line, coming, replies, taken>>
    BY DEF Next, Main, StandbyReceive, StandbyButton, StandbyRelease, InProgress,
           Done, Accept, Reset, Press, Release, Bounce, meter, fifo, vars
  <2> QED BY <2>1, <2>2, <2>3, <2>4
<1> QED BY <1>1, <1>2, <1>3, <1>4, <1>5

LEMMA StandsStays ==
  ASSUME ControlInv, DataInv, LineOK, [Next]_vars,
         NEW k \in 1 .. Current, NEW o \in Nat, Stands(k, o)
  PROVE  Stands(k, o)' /\ k \in 1 .. Current'
<1>1. /\ Len(line) \in Nat /\ Len(line') \in Nat /\ Current \in Nat
      /\ Total(k) \in Nat
  <2>1. DataInv' BY DataStep
  <2>2. Len(line') \in Nat BY <2>1, LenProperties DEF DataInv
  <2> QED BY <2>2, LineTypes
<1>2. /\ Len(line) <= Len(line') /\ Current <= Current' /\ Current' \in Nat
      /\ \A n \in 1 .. Len(line) : Of(n)' = Of(n) /\ Place(n)' = Place(n)
      /\ Total(k)' = Total(k)
  BY LineGrows
<1>3. o + Total(k) <= Len(line) /\ o + Total(k) <= Len(line')
  BY <1>1, <1>2 DEF Stands
<1>4. ASSUME NEW p \in 1 .. Total(k)
      PROVE  Of(o + p)' = k /\ Place(o + p)' = p
  <2>1. o + p \in 1 .. Len(line) BY <1>1, <1>3
  <2>2. Of(o + p) = k /\ Place(o + p) = p BY <2>1 DEF Stands, Laid
  <2> QED BY <1>2, <2>1, <2>2
<1>5. Laid(k, o)' BY <1>2, <1>4 DEF Laid
<1> QED BY <1>1, <1>2, <1>3, <1>5 DEF Stands
LEMMA MayDecodeStays ==
  ASSUME ControlInv, DataInv, LineOK, [Next]_vars, accepted' = accepted,
         NEW k \in 1 .. Current, NEW o \in Nat, MayDecode(k, o)
  PROVE  MayDecode(k, o)' /\ k \in 1 .. Current'
<1>1. Stands(k, o)' /\ k \in 1 .. Current' BY StandsStays DEF MayDecode
<1> QED BY <1>1 DEF MayDecode, Last

LEMMA AheadStays ==
  ASSUME ControlInv, DataInv, LineOK, [Next]_vars, taken' = taken,
         NEW r \in Nat, Ahead(r), taken - r < stored
  PROVE  Ahead(r)'
<1>1. stored = Len(line) BY DEF DataInv
<1> QED BY <1>1, LineGrows DEF Ahead

(* Steps that leave the reading of the message alone.                      *)
LEMMA IdleKeepsRead ==
  ASSUME ControlInv, DataInv, LineOK, ReadOK, [Next]_vars,
         UNCHANGED <<state, pc, i, cr, cr_all, accepted, taken>>
  PROVE  ReadOK'
<1>0. /\ stored \in Nat /\ stored' \in Nat /\ taken \in Nat /\ taken <= stored
      /\ stored <= stored' /\ i \in Nat /\ HEADER \in Nat /\ HEADER > 0
  <2>1. DataInv' BY DataStep
  <2> QED BY <2>1, LineGrows, Constants DEF DataInv, ControlInv
<1>1. ((pc = "loop" /\ state = "RX_DONE") => taken < stored /\ Ahead(0))'
  BY <1>0, AheadStays DEF ReadOK
<1>2. (pc = "header" => taken - i < stored /\ Ahead(i))'
  <2> SUFFICES ASSUME pc = "header" PROVE (taken - i < stored /\ Ahead(i))' OBVIOUS
  <2>1. PICK r \in Nat : r = i BY <1>0
  <2>2. taken - r < stored /\ Ahead(r) BY <2>1 DEF ReadOK
  <2>3. Ahead(r)' BY <2>2, AheadStays
  <2>4. taken - i < stored' BY <1>0, <2>1, <2>2
  <2> QED BY <2>1, <2>3, <2>4 DEF Ahead
<1>3. ((pc = "tag" /\ i = 0) => Ahead(HEADER))'
  <2>1. taken - HEADER < stored BY <1>0
  <2> QED BY <1>0, <2>1, AheadStays DEF ReadOK
<1>4. ASSUME NEW k \in 1 .. Current, NEW o \in 0 .. taken, MayDecode(k, o)
      PROVE  /\ k \in 1 .. Current' /\ MayDecode(k, o)'
             /\ replies'[k] = replies[k] /\ Total(k)' = Total(k)
  <2>1. o \in Nat BY <1>0
  <2> QED BY <1>4, <2>1, MayDecodeStays, LineGrows
<1>5. ((pc = "tag" /\ i > 0) =>
        \E k \in 1 .. Current, o \in 0 .. taken : InTag(k, o))'
  <2> SUFFICES ASSUME pc = "tag", i > 0
               PROVE  \E k \in 1 .. Current', o \in 0 .. taken : InTag(k, o)'
    OBVIOUS
  <2>1. PICK k \in 1 .. Current, o \in 0 .. taken : InTag(k, o) BY DEF ReadOK
  <2> QED BY <1>4, <2>1 DEF InTag
<1>6. (pc = "body" =>
        \E k \in 1 .. Current, o \in 0 .. taken : InBody(k, o))'
  <2> SUFFICES ASSUME pc = "body"
               PROVE  \E k \in 1 .. Current', o \in 0 .. taken : InBody(k, o)'
    OBVIOUS
  <2>1. PICK k \in 1 .. Current, o \in 0 .. taken : InBody(k, o) BY DEF ReadOK
  <2> QED BY <1>4, <2>1 DEF InBody
<1>7. (pc = "decode" =>
        \E k \in 1 .. Current, o \in 0 .. taken : Whole(k, o))'
  <2> SUFFICES ASSUME pc = "decode"
               PROVE  \E k \in 1 .. Current', o \in 0 .. taken : Whole(k, o)'
    OBVIOUS
  <2>1. PICK k \in 1 .. Current, o \in 0 .. taken : Whole(k, o) BY DEF ReadOK
  <2> QED BY <1>4, <2>1 DEF Whole, IsBodyOf
<1>8. ((pc \in {"loop", "button", "release", "header"} \/ (pc = "tag" /\ i = 0)) =>
        cr[1] = Zero)'
  BY DEF ReadOK, Zero
<1> QED BY <1>1, <1>2, <1>3, <1>5, <1>6, <1>7, <1>8 DEF ReadOK

(* RX_IN_PROGRESS ends a message only when the reply it began with has     *)
(* arrived: the counter is at a limit the age of a reply never reaches.    *)
LEMMA TimeoutKeepsRead ==
  ASSUME ControlInv, DataInv, LineOK, AgeOK, ReadOK, InProgress
  PROVE  ReadOK'
<1>1. /\ UNCHANGED <<line, coming, replies, stored, taken, cr, pc>> /\ pc = "loop"
      /\ state = "RX_IN_PROGRESS" /\ (coming # <<>> => age < BURST_MAX)
  BY DEF InProgress, StartPass, fifo, meter, message
<1>2. taken < stored BY <1>1 DEF AgeOK
<1>3. state' = "RX_DONE" => tmoutCnt = LIMIT BY Counts
<1>4. /\ age \in Nat /\ BURST_MAX \in Nat /\ LIMIT \in Nat /\ BURST_MAX < LIMIT
      /\ taken \in Nat
  BY Constants DEF ControlInv, DataInv
<1>5. coming # <<>> => Start \in Int
  BY LineTypes DEF LineOK, InTransit, Start
<1>6. state' = "RX_DONE" => Ahead(0)
  <2> SUFFICES ASSUME state' = "RX_DONE", coming # <<>> PROVE Start > taken
    BY <1>4, <1>5 DEF Ahead
  <2>1. ~(tmoutCnt <= age) BY <1>1, <1>3, <1>4
  <2>2. ~(Start <= taken) BY <1>1, <2>1 DEF AgeOK
  <2> QED BY <1>4, <1>5, <2>2
<1>7. Ahead(0)' = Ahead(0) BY <1>1 DEF Ahead, Start, Current, Total
<1>8. cr[1] = Zero BY <1>1 DEF ReadOK
<1> QED BY <1>1, <1>2, <1>6, <1>7, <1>8 DEF ReadOK, Zero

LEMMA HeaderKeepsRead ==
  ASSUME ControlInv, DataInv, LineOK, ReadOK, ReadHeader
  PROVE  ReadOK'
<1>1. PICK r \in Nat : r = i BY DEF ControlInv
<1>2. /\ UNCHANGED <<line, coming, replies, cr>> /\ ReadUART /\ pc = "header"
      /\ \/ r + 1 < HEADER /\ i' = r + 1 /\ pc' = "header"
         \/ ~(r + 1 < HEADER) /\ i' = 0 /\ pc' = "tag"
  BY <1>1 DEF ReadHeader, meter, message
<1>3. /\ stored \in Nat /\ taken \in Nat /\ stored' = stored /\ r < HEADER /\ HEADER \in Nat
  BY <1>1, <1>2, ReadCases, Constants DEF DataInv, ControlInv
<1>4. taken' = taken \/ taken' = taken + 1 BY <1>2, ReadCases
<1>5. taken - r < stored /\ Ahead(r) /\ cr[1] = Zero BY <1>1, <1>2 DEF ReadOK
<1>6. Start' = Start BY <1>2 DEF Start, Current, Total
<1>7. coming # <<>> => Start \in Int
  BY LineTypes DEF LineOK, InTransit, Start
<1>8. taken' - (r + 1) < stored /\ (coming # <<>> => Start > taken' - (r + 1))
  BY <1>3, <1>4, <1>5, <1>7 DEF Ahead
<1>9. CASE i' = r + 1 /\ pc' = "header"
  BY <1>2, <1>3, <1>5, <1>6, <1>8, <1>9 DEF ReadOK, Ahead, Zero
<1>10. CASE ~(r + 1 < HEADER) /\ i' = 0 /\ pc' = "tag"
  <2>1. r + 1 = HEADER BY <1>3, <1>10
  <2>2. Ahead(HEADER)' BY <1>2, <1>6, <1>8, <2>1 DEF Ahead
  <2> QED BY <1>2, <1>5, <1>10, <2>2 DEF ReadOK, Zero
<1> QED BY <1>2, <1>9, <1>10
(* The byte at the place of the tag's first one is that byte of a reply    *)
(* only if that reply is complete: one still coming begins further behind. *)
LEMMA FirstOfTag ==
  ASSUME DataInv, LineOK, AcceptedOK, Ahead(HEADER), taken < stored,
         IsTag(line[taken + 1], 1)
  PROVE  \E k \in 1 .. Current, o \in 0 .. taken :
           MayDecode(k, o) /\ taken = o + HEADER
<1>1. /\ stored \in Nat /\ taken \in Nat /\ stored = Len(line) /\ Current \in Nat
      /\ HEADER \in Nat /\ HEADER > 0
  BY LineTypes, Constants DEF DataInv
<1>2. PICK n \in 1 .. Len(line) : n = taken + 1 BY <1>1
<1>3. Of(n) > 0 /\ Place(n) = HEADER + 1 BY <1>2 DEF IsTag, Of, Place
<1>4. Of(n) <= Current /\ Front(n) >= 0 /\ Of(n) \in Nat
  BY <1>3, LineTypes DEF LineOK, Contiguous
<1>5. Front(n) = taken - HEADER BY <1>1, <1>2, <1>3 DEF Front
<1>6. PICK k \in 1 .. Current, o \in 0 .. taken : Of(n) = k /\ Front(n) = o
  BY <1>1, <1>3, <1>4, <1>5
<1>7. o \in 0 .. Len(line) BY <1>1
<1>8. /\ Laid(k, o)
      /\ (k < Current \/ coming = <<>>) => o + Total(k) <= Len(line)
      /\ (k = Current /\ coming # <<>>) => o = Start
  BY <1>3, <1>6, <1>7 DEF LineOK, Contiguous
<1>9. k < Current \/ coming = <<>>
  <2>1. coming # <<>> => Start > o BY <1>5, <1>6 DEF Ahead
  <2>2. coming # <<>> => k # Current BY <1>1, <1>8, <2>1
  <2> QED BY <1>1, <2>2
<1>10. accepted # <<>> => k > Last
  BY <1>1, <1>2, <1>3, <1>6 DEF AcceptedOK
<1>11. taken = o + HEADER BY <1>1, <1>5, <1>6
<1> QED BY <1>8, <1>9, <1>10, <1>11 DEF MayDecode, Stands

LEMMA TagKeepsRead ==
  ASSUME ControlInv, DataInv, LineOK, ReadOK, AcceptedOK, [Next]_vars, ReadTag
  PROVE  ReadOK'
<1>1. PICK r \in Nat : r = i BY DEF ControlInv
<1>2. /\ UNCHANGED <<line, coming, replies, cr_all, accepted>> /\ ReadUART /\ pc = "tag"
      /\ r < TAG /\ TAG \in Nat /\ TAG > 0
  BY <1>1, Constants DEF ReadTag, meter, ControlInv
<1>3. /\ stored \in Nat /\ taken \in Nat /\ stored = Len(line) /\ HEADER \in Nat
      /\ taken <= stored
  BY Constants DEF DataInv
<1>4. \/ /\ taken < stored /\ taken' = taken + 1
         /\ \A byte : Read(byte) = line[taken + 1]
      \/ taken = stored /\ taken' = taken /\ \A byte : Read(byte) = byte
  BY <1>2, ReadCases
<1>5. pc' = "clear" \/ \E k \in 1 .. Current, o \in 0 .. taken :
                         MayDecode(k, o) /\ taken' = o + HEADER + (r + 1)
  <2>1. CASE r = 0
    <3>1. pc' = "clear" \/ IsTag(Read(cr[1]), 1)
      <4>1. cr'[1] = Read(cr[1])
        <5>1. cr \in [1 .. TAG -> Bytes] /\ 1 \in 1 .. TAG /\ i + 1 = 1
          BY <1>1, <1>2, <2>1 DEF DataInv
        <5> QED BY <5>1 DEF ReadTag
      <4> QED BY <1>1, <2>1, <4>1 DEF ReadTag
    <3>2. cr[1] = Zero /\ Ahead(HEADER) BY <1>1, <1>2, <2>1 DEF ReadOK
    <3>3. ~IsTag(Zero, 1) BY DEF IsTag, Zero
    <3>4. CASE IsTag(Read(cr[1]), 1)
      <4>1. taken < stored /\ taken' = taken + 1 /\ IsTag(line[taken + 1], 1)
        BY <1>4, <3>2, <3>3, <3>4
      <4>2. PICK k \in 1 .. Current, o \in 0 .. taken :
              MayDecode(k, o) /\ taken = o + HEADER
        BY <3>2, <4>1, FirstOfTag
      <4>3. taken' = o + HEADER + (r + 1) BY <1>3, <2>1, <4>1, <4>2
      <4> QED BY <4>2, <4>3
    <3> QED BY <3>1, <3>4
  <2>2. CASE r > 0
    <3>1. PICK k \in 1 .. Current, o \in 0 .. taken : InTag(k, o)
      BY <1>1, <1>2, <2>2 DEF ReadOK
    <3>2. o + Total(k) <= Len(line) /\ taken = o + HEADER + r
      BY <1>1, <3>1 DEF InTag, MayDecode, Stands
    <3>3. Total(k) \in Nat /\ Total(k) > HEADER + TAG BY LineTypes
    <3>4. taken < stored BY <1>1, <1>2, <1>3, <3>2, <3>3
    <3>5. taken' = o + HEADER + (r + 1) BY <1>3, <1>4, <3>2, <3>4
    <3> QED BY <3>1, <3>5 DEF InTag
  <2> QED BY <1>1, <2>1, <2>2
<1>6. \/ pc' \in {"clear", "clear_early"}
      \/ r + 1 < TAG /\ i' = r + 1 /\ pc' = "tag"
      \/ ~(r + 1 < TAG) /\ i' = 0 /\ pc' = "body"
  BY <1>1, <1>2 DEF ReadTag
<1>7. CASE pc' \in {"clear", "clear_early"} BY <1>7 DEF ReadOK
<1>8. CASE pc' \notin {"clear", "clear_early"}
  <2>1. PICK k \in 1 .. Current, o \in 0 .. taken :
          MayDecode(k, o) /\ taken' = o + HEADER + (r + 1)
    BY <1>5, <1>8
  <2>2. /\ k \in 1 .. Current' /\ MayDecode(k, o)' /\ o \in 0 .. taken'
        /\ replies'[k] = replies[k] /\ replies[k] \in Nat /\ replies[k] > 0
    <3>1. o \in Nat BY <1>3
    <3>2. k \in 1 .. Current' /\ MayDecode(k, o)' BY <1>2, <2>1, <3>1, MayDecodeStays
    <3> QED BY <1>2, <1>3, <1>4, <3>2, LineTypes
  <2>3. CASE r + 1 < TAG /\ i' = r + 1 /\ pc' = "tag"
    <3>1. InTag(k, o)' BY <2>1, <2>2, <2>3 DEF InTag
    <3>2. i' # 0 /\ i' > 0 BY <2>3
    <3> QED BY <2>2, <2>3, <3>1, <3>2 DEF ReadOK
  <2>4. CASE ~(r + 1 < TAG) /\ i' = 0 /\ pc' = "body"
    <3>1. r + 1 = TAG BY <1>2, <2>4
    <3>2. taken' = o + HEADER + TAG + i' BY <1>3, <2>1, <2>4, <3>1
    <3>3. ~(i' > replies'[k]) /\ \A p \in 1 .. BODY : ~(p <= i')
      BY <2>2, <2>4
    <3>4. InBody(k, o)' BY <2>2, <3>2, <3>3 DEF InBody
    <3> QED BY <2>2, <2>4, <3>4 DEF ReadOK
  <2> QED BY <1>6, <1>8, <2>3, <2>4
<1> QED BY <1>7, <1>8
(* The body is read byte by byte, as far as the reply's body reaches.      *)
LEMMA BodyKeepsRead ==
  ASSUME ControlInv, DataInv, LineOK, ReadOK, [Next]_vars, ReadBody
  PROVE  ReadOK'
<1>1. PICK r \in Nat : r = i BY DEF ControlInv
<1>2. /\ UNCHANGED <<line, coming, replies, accepted>> /\ ReadUART /\ pc = "body"
      /\ r < BODY /\ BODY \in Nat /\ HEADER \in Nat /\ TAG \in Nat
  BY <1>1, Constants DEF ReadBody, meter, ControlInv
<1>3. /\ stored \in Nat /\ taken \in Nat /\ stored = Len(line) /\ taken <= stored
      /\ line \in Seq(Bytes)
  BY DEF DataInv
<1>4. \/ /\ taken < stored /\ taken' = taken + 1
         /\ \A byte : Read(byte) = line[taken + 1]
      \/ taken = stored /\ taken' = taken /\ \A byte : Read(byte) = byte
  BY <1>2, ReadCases
<1>5. PICK k \in 1 .. Current, o \in 0 .. taken : InBody(k, o)
  BY <1>2 DEF ReadOK
<1>6. /\ k \in 1 .. Current' /\ MayDecode(k, o)' /\ o \in 0 .. taken' /\ o \in Nat
      /\ replies'[k] = replies[k] /\ replies[k] \in Nat /\ replies[k] <= BODY
      /\ Total(k)' = Total(k) /\ Total(k) = HEADER + TAG + replies[k]
  <2>1. o \in Nat BY <1>3
  <2>2. k \in 1 .. Current' /\ MayDecode(k, o)'
    BY <1>2, <1>5, <2>1, MayDecodeStays DEF InBody
  <2> QED BY <1>2, <1>3, <1>4, <2>1, <2>2, LineTypes DEF Total
<1>7. /\ o + Total(k) <= Len(line)
      /\ \A p \in 1 .. Total(k) : Of(o + p) = k /\ Place(o + p) = p
  <2>1. o + Total(k) <= Len(line) /\ Laid(k, o)
    BY <1>5 DEF InBody, MayDecode, Stands
  <2>2. Total(k) \in Nat /\ Len(line) \in Nat BY LineTypes
  <2>3. \A p \in 1 .. Total(k) : o + p <= Len(line) BY <1>6, <2>1, <2>2
  <2> QED BY <2>1, <2>3 DEF Laid
<1>8. /\ r <= replies[k] => taken = o + HEADER + TAG + r
      /\ r > replies[k] => taken >= o + Total(k)
      /\ \A p \in 1 .. BODY : (p <= r /\ p <= replies[k]) =>
           cr_all[p] = <<k, HEADER + TAG + p>>
  BY <1>1, <1>5 DEF InBody
<1>9. CASE r + 1 <= replies[k]
  <2>1. taken = o + HEADER + TAG + r /\ taken < stored
    BY <1>1, <1>2, <1>3, <1>6, <1>7, <1>8, <1>9
  <2>2. taken' = o + HEADER + TAG + (r + 1) /\ \A byte : Read(byte) = line[taken + 1]
    BY <1>2, <1>3, <1>4, <1>6, <2>1
  <2>3. line[taken + 1] = <<k, HEADER + TAG + (r + 1)>>
    <3>1. HEADER + TAG + (r + 1) \in 1 .. Total(k)
      BY <1>2, <1>6, <1>9
    <3>2. taken + 1 = o + (HEADER + TAG + (r + 1)) /\ taken + 1 \in 1 .. Len(line)
      BY <1>2, <1>3, <1>6, <2>1
    <3>3. Of(taken + 1) = k /\ Place(taken + 1) = HEADER + TAG + (r + 1)
      BY <1>7, <3>1, <3>2
    <3>4. line[taken + 1] \in Bytes BY <1>3, <3>2, ElementOfSeq
    <3> QED BY <3>3, <3>4 DEF Of, Place, Bytes
  <2>4. cr_all' = [cr_all EXCEPT ![r + 1] = <<k, HEADER + TAG + (r + 1)>>]
    BY <1>1, <2>2, <2>3 DEF ReadBody
  <2>5. \A p \in 1 .. BODY : (p <= r + 1 /\ p <= replies[k]) =>
          cr_all'[p] = <<k, HEADER + TAG + p>>
    <3> SUFFICES ASSUME NEW p \in 1 .. BODY, p <= r + 1, p <= replies[k]
                 PROVE  cr_all'[p] = <<k, HEADER + TAG + p>>
      OBVIOUS
    <3>1. cr_all \in [1 .. BODY -> Bytes] BY DEF DataInv
    <3>2. CASE p = r + 1 BY <2>4, <3>1, <3>2
    <3>3. CASE p # r + 1
      <4>1. p <= r BY <1>1, <3>3
      <4>2. cr_all[p] = <<k, HEADER + TAG + p>> BY <1>8, <4>1
      <4>3. cr_all'[p] = cr_all[p] BY <2>4, <3>1, <3>3
      <4> QED BY <4>2, <4>3
    <3> QED BY <3>2, <3>3
  <2>6. CASE r + 1 < BODY
    <3>1. i' = r + 1 /\ pc' = "body" BY <1>1, <2>6 DEF ReadBody
    <3>2. ~(r + 1 > replies[k]) BY <1>6, <1>9
    <3>3. InBody(k, o)' BY <1>6, <2>2, <2>5, <3>1, <3>2 DEF InBody
    <3> QED BY <1>6, <3>1, <3>3 DEF ReadOK
  <2>7. CASE ~(r + 1 < BODY)
    <3>1. pc' = "decode" BY <1>1, <2>7 DEF ReadBody
    <3>2. r + 1 = BODY /\ replies[k] = r + 1 BY <1>2, <1>6, <1>9, <2>7
    <3>3. taken' >= o + Total(k) BY <1>2, <1>6, <2>2, <3>2
    <3>4. \A p \in 1 .. replies[k] : cr_all'[p] = <<k, HEADER + TAG + p>>
      BY <2>5, <3>2
    <3>5. Whole(k, o)' BY <1>6, <3>3, <3>4 DEF Whole, IsBodyOf
    <3> QED BY <1>6, <3>1, <3>5 DEF ReadOK
  <2> QED BY <2>6, <2>7
<1>10. CASE ~(r + 1 <= replies[k])
  <2>1. taken' >= o + Total(k)
    <3>1. taken >= o + Total(k)
      <4>1. CASE r = replies[k] BY <1>2, <1>3, <1>6, <1>8, <4>1
      <4>2. CASE r > replies[k] BY <1>8, <4>2
      <4> QED BY <1>6, <1>10, <4>1, <4>2
    <3> QED BY <1>2, <1>3, <1>4, <1>6, <3>1
  <2>2. cr_all' = [cr_all EXCEPT ![r + 1] = Read(cr_all[r + 1])]
    <3>1. cr_all \in [1 .. BODY -> Bytes] /\ i + 1 \in 1 .. BODY
      BY <1>1, <1>2 DEF DataInv
    <3> QED BY <1>1, <3>1 DEF ReadBody
  <2>3. \A p \in 1 .. BODY : (p <= replies[k]) => cr_all'[p] = <<k, HEADER + TAG + p>>
    <3> SUFFICES ASSUME NEW p \in 1 .. BODY, p <= replies[k]
                 PROVE  cr_all'[p] = <<k, HEADER + TAG + p>>
      OBVIOUS
    <3>1. cr_all \in [1 .. BODY -> Bytes] BY DEF DataInv
    <3>2. p # r + 1 /\ p <= r BY <1>6, <1>10
    <3>3. cr_all[p] = <<k, HEADER + TAG + p>> BY <1>8, <3>2
    <3>4. cr_all'[p] = cr_all[p] BY <2>2, <3>1, <3>2
    <3> QED BY <3>3, <3>4
  <2>4. CASE r + 1 < BODY
    <3>1. i' = r + 1 /\ pc' = "body" BY <1>1, <2>4 DEF ReadBody
    <3>2. InBody(k, o)' BY <1>6, <1>10, <2>1, <2>3, <3>1 DEF InBody
    <3> QED BY <1>6, <3>1, <3>2 DEF ReadOK
  <2>5. CASE ~(r + 1 < BODY)
    <3>1. pc' = "decode" BY <1>1, <2>5 DEF ReadBody
    <3>2. \A p \in 1 .. replies[k] : cr_all'[p] = <<k, HEADER + TAG + p>>
      BY <1>2, <1>6, <2>3
    <3>3. Whole(k, o)' BY <1>6, <2>1, <3>2 DEF Whole, IsBodyOf
    <3> QED BY <1>6, <3>1, <3>3 DEF ReadOK
  <2> QED BY <2>4, <2>5
<1> QED BY <1>9, <1>10
LEMMA ReadStep ==
  ASSUME ControlInv, DataInv, LineOK, AgeOK, ReadOK, AcceptedOK, [Next]_vars
  PROVE  ReadOK'
<1>1. CASE StandbyReceive
  <2>1. pc' = "button" /\ cr' = cr /\ pc = "loop"
    BY <1>1 DEF StandbyReceive, StartPass, message
  <2> QED BY <2>1 DEF ReadOK, Zero
<1>2. CASE StandbyButton
  <2>1. pc' = "release" /\ cr' = cr /\ pc = "button" BY <1>2 DEF StandbyButton, message
  <2> QED BY <2>1 DEF ReadOK, Zero
<1>3. CASE StandbyRelease
  <2>1. pc' = "loop" /\ cr' = cr /\ pc = "release" /\ state' # "RX_DONE"
    BY <1>3 DEF StandbyRelease, message, ControlInv
  <2> QED BY <2>1 DEF ReadOK, Zero
<1>4. CASE Done
  <2>1. /\ pc' = "header" /\ i' = 0 /\ pc = "loop" /\ state = "RX_DONE"
        /\ UNCHANGED <<line, coming, replies, cr, stored, taken>>
    BY <1>4 DEF Done, message, fifo, meter
  <2>2. taken < stored /\ Ahead(0) /\ cr[1] = Zero BY <2>1 DEF ReadOK
  <2>3. taken \in Nat BY DEF DataInv
  <2>4. Start' = Start BY <2>1 DEF Start, Current, Total
  <2> QED BY <2>1, <2>2, <2>3, <2>4 DEF ReadOK, Ahead, Zero
<1>5. CASE Accept \/ ClearRxBuffer
  <2>1. pc' \in {"clear", "reset"} BY <1>5 DEF Accept, ClearRxBuffer
  <2> QED BY <2>1 DEF ReadOK
<1>6. CASE Reset
  <2>1. pc' = "loop" /\ state' = "RX_STANDBY" BY <1>6 DEF Reset
  <2>2. cr'[1] = Zero BY <1>6, Constants DEF Reset
  <2> QED BY <2>1, <2>2 DEF ReadOK, Zero
<1>7. CASE UNCHANGED <<state, pc, i, cr, cr_all, accepted, taken>>
  BY <1>7, IdleKeepsRead
<1>8. \/ StandbyReceive \/ StandbyButton \/ StandbyRelease \/ InProgress \/ Done
      \/ ReadHeader \/ ReadTag \/ ReadBody \/ Accept \/ ClearRxBuffer \/ Reset
      \/ UNCHANGED <<state, pc, i, cr, cr_all, accepted, taken>>
  <2>1. CASE StartReply \/ Arrive \/ Disturb
    BY <2>1 DEF StartReply, Arrive, Disturb, Receive, Fifo!Put, control, message, fifo
  <2>2. CASE Press \/ Release \/ Bounce \/ UNCHANGED vars
    BY <2>2 DEF Press, Release, Bounce, control, message, fifo, vars
  <2> QED BY <2>1, <2>2 DEF Next, Main
<1> QED BY <1>1, <1>2, <1>3, <1>4, <1>5, <1>6, <1>7, <1>8,
           TimeoutKeepsRead, HeaderKeepsRead, TagKeepsRead, BodyKeepsRead

LEMMA AcceptedTypes ==
  ASSUME DataInv
  PROVE  /\ Len(accepted) \in Nat /\ Current \in Nat
         /\ (accepted # <<>>) <=> (Len(accepted) > 0)
         /\ \A a \in 1 .. Len(accepted) : accepted[a][1][1] \in Nat
<1>1. accepted \in Seq([1 .. BODY -> Bytes]) BY DEF DataInv
<1>2. Len(accepted) \in Nat /\ ((accepted # <<>>) <=> (Len(accepted) > 0))
  BY <1>1, EmptySeq, LenProperties
<1>3. ASSUME NEW a \in 1 .. Len(accepted) PROVE accepted[a][1][1] \in Nat
  <2>1. accepted[a] \in [1 .. BODY -> Bytes] BY <1>1, ElementOfSeq
  <2>2. 1 \in 1 .. BODY BY Constants
  <2>3. accepted[a][1] \in Bytes BY <2>1, <2>2
  <2> QED BY <2>3 DEF Bytes
<1> QED BY <1>2, <1>3, LineTypes

(* The message handed over is of a reply behind the last one, and the rest *)
(* of the line is behind it.                                               *)
LEMMA AcceptKeepsAccepted ==
  ASSUME ControlInv, DataInv, LineOK, ReadOK, AcceptedOK, Accept
  PROVE  AcceptedOK'
<1>1. /\ UNCHANGED <<line, coming, replies, taken>> /\ pc = "decode"
      /\ accepted' = Append(accepted, cr_all)
  BY DEF Accept, meter, fifo
<1>2. PICK k \in 1 .. Current, o \in 0 .. taken : Whole(k, o) BY <1>1 DEF ReadOK
<1>3. /\ accepted # <<>> => k > Last
      /\ o + Total(k) <= Len(line) /\ Laid(k, o)
      /\ taken >= o + Total(k) /\ IsBodyOf(cr_all, k)
  BY <1>2 DEF Whole, MayDecode, Stands
<1>4. /\ Len(line) \in Nat /\ Len(coming) \in Nat /\ Current \in Nat /\ taken \in Nat
      /\ replies[k] \in Nat /\ replies[k] > 0 /\ Total(k) \in Nat
      /\ Total(k) = HEADER + TAG + replies[k] /\ o \in Nat /\ k \in Nat /\ k > 0
  BY LineTypes DEF DataInv, Total
<1>5. cr_all[1][1] = k
  <2>1. cr_all[1] = <<k, HEADER + TAG + 1>> BY <1>3, <1>4 DEF IsBodyOf
  <2> QED BY <2>1
<1>6. /\ accepted' # <<>> /\ Len(accepted') = Len(accepted) + 1
      /\ \A a \in 1 .. Len(accepted) : accepted'[a] = accepted[a]
      /\ accepted'[Len(accepted) + 1] = cr_all
  <2>1. accepted \in Seq([1 .. BODY -> Bytes]) /\ cr_all \in [1 .. BODY -> Bytes]
    BY DEF DataInv
  <2> QED BY <1>1, <2>1, AppendProperties
<1>7. Last' = k BY <1>5, <1>6 DEF Last
<1>8. Total(k) > 0
  <2>1. Total(k) > HEADER + TAG BY LineTypes
  <2> QED BY <1>4, <2>1, Constants
<1>9. PICK m \in 1 .. Len(line) : m = o + 1
  BY <1>3, <1>4, <1>8
<1>10. Of(m) = k /\ Place(m) = 1 /\ Front(m) = o
  <2>1. 1 \in 1 .. Total(k) /\ o + 1 <= Len(line) BY <1>3, <1>4, <1>8
  <2>2. Of(o + 1) = k /\ Place(o + 1) = 1 BY <1>3, <2>1 DEF Laid
  <2> QED BY <1>4, <1>9, <2>2 DEF Front
<1>11. ASSUME NEW n \in 1 .. Len(line), n > taken, Of(n) > 0 PROVE Of(n) > k
  <2>1. m < n /\ Of(m) > 0 /\ Of(n) \in Nat
    <3>1. o + 1 <= taken BY <1>3, <1>4, <1>8
    <3>2. m < n BY <1>4, <1>9, <1>11, <3>1
    <3>3. Of(n) \in Nat BY LineTypes
    <3> QED BY <1>4, <1>10, <3>2, <3>3
  <2>2. Of(m) <= Of(n) /\ (Of(m) = Of(n) => Front(m) = Front(n))
    BY <1>11, <2>1 DEF LineOK, Ordered
  <2>3. Of(n) # k
    <3> SUFFICES ASSUME Of(n) = k PROVE FALSE OBVIOUS
    <3>1. Front(n) = o BY <1>10, <2>2
    <3>2. o \in 0 .. Len(line) BY <1>3, <1>4
    <3>3. n <= o + Total(k) BY <1>11, <3>1, <3>2 DEF LineOK, Contiguous
    <3> QED BY <1>3, <1>4, <1>11, <3>3
  <2> QED BY <1>4, <1>10, <2>1, <2>2, <2>3
<1>12. ASSUME coming # <<>> PROVE Current > k
  <2> SUFFICES ASSUME k = Current PROVE FALSE BY <1>4
  <2>1. o \in 0 .. Len(line) BY <1>3, <1>4
  <2>2. o = Start BY <1>4, <1>10, <1>12, <2>1 DEF LineOK, Contiguous
  <2>3. Len(coming) > 0 BY <1>12, ComingBytes
  <2> QED BY <1>3, <1>4, <2>2, <2>3 DEF Start
<1>13. \A a \in 1 .. Len(accepted') : \E l \in 1 .. Current : IsBodyOf(accepted'[a], l)
  BY <1>3, <1>6, AcceptedTypes DEF AcceptedOK
<1>14. ASSUME NEW a \in 1 .. Len(accepted'), NEW b \in 1 .. Len(accepted'), a < b
       PROVE  accepted'[a][1][1] < accepted'[b][1][1]
  <2>1. a \in 1 .. Len(accepted) /\ accepted'[a] = accepted[a]
    BY <1>6, <1>14, AcceptedTypes
  <2>2. CASE b \in 1 .. Len(accepted)
    BY <1>6, <1>14, <2>1, <2>2 DEF AcceptedOK
  <2>3. CASE b = Len(accepted) + 1
    <3>1. accepted # <<>> /\ k > Last /\ Len(accepted) \in 1 .. Len(accepted)
      BY <1>3, <2>1, AcceptedTypes
    <3>2. accepted[a][1][1] = Last \/ accepted[a][1][1] < Last
      BY <2>1, <3>1, AcceptedTypes DEF AcceptedOK, Last
    <3>3. Last \in Nat /\ accepted[a][1][1] \in Nat
      BY <2>1, <3>1, AcceptedTypes DEF Last
    <3> QED BY <1>4, <1>5, <1>6, <2>1, <2>3, <3>1, <3>2, <3>3
  <2> QED BY <1>6, <2>2, <2>3, AcceptedTypes
<1>15. \A a \in 1 .. Len(accepted') : \A l : IsBodyOf(accepted[a], l)' <=> IsBodyOf(accepted'[a], l)
  BY <1>1 DEF IsBodyOf
<1>16. Current' = Current /\ \A n : Of(n)' = Of(n)
  BY <1>1 DEF Current, Of
<1>17. \A n \in 1 .. Len(line') : (n > taken' /\ Of(n)' > 0) => Of(n)' > Last'
  BY <1>1, <1>7, <1>11, <1>16
<1>18. k <= Current BY <1>4
<1> QED BY <1>1, <1>7, <1>12, <1>13, <1>14, <1>15, <1>16, <1>17, <1>18 DEF AcceptedOK
LEMMA AcceptedStep ==
  ASSUME ControlInv, DataInv, LineOK, ReadOK, AcceptedOK, [Next]_vars
  PROVE  AcceptedOK'
<1>1. CASE accepted' = accepted
  <2>1. /\ Len(line) \in Nat /\ Current \in Nat /\ taken \in Nat /\ taken' \in Nat
        /\ Current' \in Nat /\ Current <= Current' /\ taken <= taken'
        /\ \A k \in 1 .. Current : replies'[k] = replies[k]
    <3>1. DataInv' BY DataStep
    <3> QED BY <3>1, LineTypes, LineGrows DEF DataInv
  <2>2. ASSUME NEW a \in 1 .. Len(accepted)
        PROVE  \E k \in 1 .. Current' :
                 \A p \in 1 .. replies'[k] : accepted[a][p] = <<k, HEADER + TAG + p>>
    <3>1. PICK k \in 1 .. Current : IsBodyOf(accepted[a], k) BY DEF AcceptedOK
    <3>2. k \in 1 .. Current' BY <2>1
    <3> QED BY <2>1, <3>1, <3>2 DEF IsBodyOf
  <2>3. Last' = Last BY <1>1 DEF Last
  <2>4. ASSUME accepted # <<>>
        PROVE  /\ Last <= Current'
               /\ \A n \in 1 .. Len(line') : (n > taken' /\ Of(n)' > 0) => Of(n)' > Last
               /\ coming' # <<>> => Current' > Last
    <3>1. /\ Last <= Current /\ (coming # <<>> => Current > Last)
          /\ \A n \in 1 .. Len(line) : (n > taken /\ Of(n) > 0) => Of(n) > Last
      BY <2>4 DEF AcceptedOK
    <3>2. Last \in Nat
      <4>1. Len(accepted) \in 1 .. Len(accepted) BY <2>4, AcceptedTypes
      <4> QED BY <4>1, AcceptedTypes DEF Last
    <3>3. ASSUME NEW n \in 1 .. Len(line'), n > taken', Of(n)' > 0 PROVE Of(n)' > Last
      <4>1. CASE n \in 1 .. Len(line)
        <5>1. Of(n)' = Of(n) BY <4>1, LineGrows
        <5>2. n > taken BY <2>1, <3>3
        <5> QED BY <3>1, <3>3, <4>1, <5>1, <5>2
      <4>2. CASE n > Len(line)
        <5>1. Of(n)' = Current /\ coming # <<>> BY <3>3, <4>2, LineGrows
        <5> QED BY <3>1, <5>1
      <4> QED BY <2>1, <4>1, <4>2
    <3>4. coming' # <<>> => Current' > Last
      <4>1. coming' # <<>> => \/ coming # <<>> /\ Current' = Current
                            \/ Current' = Current + 1
        BY LineGrows
      <4> QED BY <2>1, <3>1, <3>2, <4>1
    <3> QED BY <2>1, <3>1, <3>2, <3>3, <3>4
  <2> QED BY <1>1, <2>2, <2>3, <2>4 DEF AcceptedOK, IsBodyOf
<1>2. Accept \/ accepted' = accepted
  BY DEF Next, Main, StandbyReceive, StandbyButton, StandbyRelease, InProgress,
         Done, ReadHeader, ReadTag, ReadBody, ClearRxBuffer, Reset,
         Press, Release, Bounce, StartReply, Arrive, Disturb, Receive, vars
<1> QED BY <1>1, <1>2, AcceptKeepsAccepted

-----------------------------------------------------------------------------
Inv ==
  /\ ControlInv /\ FlagInv /\ DataInv /\ LineOK /\ AgeOK
  /\ ButtonInv /\ PatientInv /\ RangeInv /\ ReadOK /\ AcceptedOK

LEMMA InitInv == ASSUME Init PROVE Inv
<1>1. LineOK BY InitLine
<1>2. ReadOK
  <2>1. cr[1] = Zero BY Constants DEF Init
  <2>2. pc = "loop" /\ state = "RX_STANDBY" BY DEF Init
  <2> QED BY <2>1, <2>2 DEF ReadOK
<1>3. AcceptedOK
  <2>1. accepted = <<>> BY DEF Init
  <2>2. Len(accepted) = 0 BY <2>1
  <2> QED BY <2>1, <2>2 DEF AcceptedOK
<1> QED BY <1>1, <1>2, <1>3, InitTypes, InitAge, InitButton, InitPatient, InitRange
        DEF Inv

LEMMA InvStep == ASSUME Inv, [Next]_vars PROVE Inv'
<1>1. InTransit BY DEF Inv, LineOK
<1> QED BY <1>1, ControlStep, FlagStep, DataStep, LineStep, AgeStep, ButtonStep,
           PatientStep, RangeStep, ReadStep, AcceptedStep DEF Inv

(* The inductive invariant of the main loop, its button, the line and the  *)
(* meter (main.c:118-340).                                                 *)
LEMMA InvHolds == Spec => []Inv
  BY InitInv, InvStep, PTL DEF Spec

(* The program's variables keep their types, and no ReadUART loop writes   *)
(* beyond the end of cr or cr_all, whatever the lengths of the parts of a  *)
(* message (main.c:188-207).                                               *)
THEOREM TypesHold == Spec => []TypeOK
<1>1. Inv => TypeOK
  <2> SUFFICES ASSUME Inv PROVE TypeOK OBVIOUS
  <2>1. tmoutCnt \in 0 .. (COUNTER_MOD - 1)
    BY Constants DEF Inv, ControlInv
  <2>2. flag \in BOOLEAN /\ pressed \in BOOLEAN /\ late \in BOOLEAN
    BY DEF Inv, FlagInv
  <2>3. /\ i \in Nat
        /\ pc = "header" => i < HEADER
        /\ pc = "tag" => i < TAG
        /\ pc = "body" => i < BODY
        /\ state \in {"RX_STANDBY", "RX_IN_PROGRESS", "RX_DONE"}
        /\ pc \in {"loop", "button", "release", "header", "tag", "body", "decode",
                   "clear_early", "clear", "reset"}
    BY DEF Inv, ControlInv
  <2>4. /\ rxCounter \in 0 .. (SIZE_BUF_RX - 1)
        /\ cr \in [1 .. TAG -> Byte] /\ cr_all \in [1 .. BODY -> Byte]
        /\ \A n \in 1 .. Len(line) : line[n] \in Byte
    BY DEF Inv, RangeInv
  <2>5. taken <= stored /\ stored = Len(line) BY DEF Inv, DataInv
  <2> QED BY <2>1, <2>2, <2>3, <2>4, <2>5 DEF TypeOK
<1> QED BY <1>1, InvHolds, PTL

(* With a patient user and a quiet line tmoutCnt never runs past the limit *)
(* that ends a message, although main.c:173 tests it with == in a pass     *)
(* that must also see no byte arrive.                                      *)
THEOREM TimeoutIsNotMissed == Spec => []TimeoutFires
<1>1. Inv => TimeoutFires
  BY DEF Inv, PatientInv, TimeoutFires, TimeoutAlwaysFires
<1> QED BY <1>1, InvHolds, PTL

(* Whatever arrives and whenever, what main.c:202-207 hands to the decoder *)
(* is the body of one reply, whole and from its first byte.                *)
THEOREM MessagesAreWhole == Spec => []AcceptedWhole
<1>1. Inv => AcceptedWhole
  BY DEF Inv, AcceptedOK, AcceptedWhole, Current
<1> QED BY <1>1, InvHolds, PTL

(* No reply is decoded twice, and replies are decoded in their order.      *)
THEOREM MessagesAreInOrder == Spec => []AcceptedOnce
<1>1. Inv => AcceptedOnce
  <2> SUFFICES ASSUME Inv, NEW a \in 1 .. Len(accepted), NEW b \in 1 .. Len(accepted),
                      NEW k \in 1 .. Len(replies), NEW l \in 1 .. Len(replies),
                      a < b, IsBodyOf(accepted[a], k), IsBodyOf(accepted[b], l)
               PROVE  k < l
    BY DEF AcceptedOnce
  <2>1. replies[k] \in Nat /\ replies[k] > 0 /\ replies[l] \in Nat /\ replies[l] > 0
    BY LineTypes DEF Inv, Current
  <2>2. accepted[a][1] = <<k, HEADER + TAG + 1>> /\ accepted[b][1] = <<l, HEADER + TAG + 1>>
    BY <2>1 DEF IsBodyOf
  <2>3. accepted[a][1][1] = k /\ accepted[b][1][1] = l BY <2>2
  <2>4. accepted[a][1][1] < accepted[b][1][1] BY DEF Inv, AcceptedOK
  <2> QED BY <2>3, <2>4
<1> QED BY <1>1, InvHolds, PTL
=============================================================================
