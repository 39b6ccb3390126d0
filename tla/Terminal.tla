------------------------------ MODULE Terminal ------------------------------
(***************************************************************************)
(* The main loop of src/Src/main.c in its UART build, closed with the      *)
(* people and things around it: a user presses button 1, the loop sends    *)
(* the request "?DATD" CR LF, the meter on the other end of the line sends *)
(* a reply, and the loop collects the reply, checks it and hands its body  *)
(* to the decoder (module Decode).                                         *)
(*                                                                         *)
(* The loop uses the receive half of the UART driver through what it       *)
(* promises, RxFifo, which module UartRx shows the driver to implement.    *)
(* A step is a read of the FIFO or a pass of a state that makes none.      *)
(*                                                                         *)
(* A byte of a reply is the pair of the reply's number and the byte's      *)
(* place in it: HEADER bytes nobody looks at, the TAG "+DATD ", the body.  *)
(***************************************************************************)
EXTENDS Integers, Sequences

CONSTANTS
  HEADER,        \* bytes skipped at the start of a reply (9)
  TAG,           \* bytes of "+DATD " (6)
  BODY,          \* bytes of cr_all (28)
  BodyLengths,   \* lengths the body of a reply may have
  SIZE_BUF_RX,   \* slots of rxFIFO.buffer (200)
  LIMIT,         \* passes of RX_IN_PROGRESS that end a message (52000)
  COUNTER_MOD,   \* number of values of an unsigned int (2^32)
  BURST_MAX,     \* most passes of the loop while a reply is on the line
  Manners,       \* of TRUE, for a patient surrounding, and FALSE
  MaxPresses,    \* bound on the presses of a patient user
  MaxRough,      \* bound on those of another
  MaxBounces,    \* bound on the bounces of the contact
  MaxNoise       \* bound on the bytes the line makes up

ASSUME TerminalAssumption ==
  /\ {HEADER, TAG, BODY} \subseteq Nat \ {0}
  /\ BodyLengths \subseteq 1 .. BODY
  /\ {SIZE_BUF_RX, LIMIT, COUNTER_MOD} \subseteq Nat
  /\ SIZE_BUF_RX > HEADER + TAG + BODY
  /\ COUNTER_MOD > LIMIT /\ BURST_MAX \in 1 .. (LIMIT - 1)
  /\ Manners \subseteq BOOLEAN
  /\ {MaxPresses, MaxRough, MaxBounces, MaxNoise} \subseteq Nat

VARIABLES
  state,      \* RX_STANDBY, RX_IN_PROGRESS or RX_DONE
  pc,         \* where the pass of the loop stands, "loop" at its start
  i,          \* the loop index of the ReadUART loops
  flag,       \* the button was seen pressed
  tmoutCnt,   \* "Timeout counter"
  rxCounter,  \* the write position of the pass before
  cr,         \* the bytes at the place of the tag
  cr_all,     \* the bytes at the place of the body
  stored, taken, got,   \* the receive FIFO (RxFifo)
  patient,    \* the user waits for the answer before the next press, the
              \* contact does not bounce and the line makes up no byte
  pressed,    \* the contact of button 1 is closed (pin 13 reads 0)
  presses,    \* times the user has pressed the button
  bounces,    \* times the contact has bounced
  requests,   \* requests sent
  replies,    \* the lengths of the bodies of the replies, in order
  coming,     \* bytes of the current reply that are still to arrive
  age,        \* passes of the loop since the current reply started
  late,       \* a byte arrived since the state became RX_DONE
  line,       \* history: every byte that arrived
  noise,      \* bytes the line made up
  accepted    \* history: what was handed to the decoder

message == <<cr, cr_all>>
fifo == <<stored, taken, got>>
button == <<patient, pressed, presses, bounces>>
meter == <<replies, coming, line, noise>>
control == <<state, pc, i, flag, tmoutCnt, rxCounter>>
vars == <<control, message, fifo, button, requests, meter, age, late, accepted>>

Fifo == INSTANCE RxFifo

-----------------------------------------------------------------------------
(* A cleared element of an array, and a byte that belongs to no reply.     *)
Zero == <<0, 0>>
Noise == <<0, 1>>

Reply(k, length) == [p \in 1 .. (HEADER + TAG + length) |-> <<k, p>>]

(* The byte equals the p-th character of "+DATD ".                         *)
IsTag(byte, p) == byte[1] > 0 /\ byte[2] = HEADER + p

Init ==
  /\ state = "RX_STANDBY" /\ pc = "loop" /\ i = 0
  /\ flag = FALSE
  /\ tmoutCnt = 0 /\ rxCounter = 0
  /\ cr = [p \in 1 .. TAG |-> Zero]
  /\ cr_all = [p \in 1 .. BODY |-> Zero]
  /\ Fifo!Init
  /\ patient \in Manners
  /\ pressed = FALSE /\ presses = 0 /\ bounces = 0
  /\ requests = 0
  /\ replies = <<>> /\ coming = <<>> /\ line = <<>> /\ noise = 0
  /\ age = 0 /\ late = FALSE
  /\ accepted = <<>>

-----------------------------------------------------------------------------
(* A pass of the loop.  A reply takes less than BURST_MAX passes on the    *)
(* line (43 bytes at 115200 baud are 3.7 ms, 52000 passes some 16 ms), so  *)
(* the loop does not start another one before the line has kept pace.      *)
StartPass(in) ==
  /\ pc = "loop"
  /\ state = in
  /\ coming # <<>> => age < BURST_MAX
  /\ age' = (IF coming # <<>> THEN age + 1 ELSE 0)

(* RX_STANDBY: three looks at the outside, in the order of the code.       *)
StandbyReceive ==
  /\ StartPass("RX_STANDBY")
  /\ pc' = "button"
  /\ IF Fifo!Available
     THEN rxCounter' = 0 /\ state' = "RX_IN_PROGRESS"
     ELSE UNCHANGED <<rxCounter, state>>
  /\ UNCHANGED <<i, flag, tmoutCnt, message, fifo, button, requests, meter,
                 late, accepted>>

(* Bug: line 121 is missing.                                               *)
StandbyButtonNoFlag ==
  /\ pc = "button"
  /\ pc' = "release"
  /\ requests' = (IF pressed /\ ~flag THEN requests + 1 ELSE requests)
  /\ UNCHANGED <<state, i, flag, tmoutCnt, rxCounter, message, fifo, button,
                 meter, age, late, accepted>>

(* The seven calls of TransmitUART: the request.                           *)
StandbyButton ==
  /\ pc = "button"
  /\ pc' = "release"
  /\ IF pressed /\ ~flag
     THEN requests' = requests + 1 /\ flag' = TRUE
     ELSE UNCHANGED <<requests, flag>>
  /\ UNCHANGED <<state, i, tmoutCnt, rxCounter, message, fifo, button, meter,
                 age, late, accepted>>

StandbyRelease ==
  /\ pc = "release"
  /\ pc' = "loop"
  /\ flag' = (flag /\ pressed)
  /\ UNCHANGED <<state, i, tmoutCnt, rxCounter, message, fifo, button,
                 requests, meter, age, late, accepted>>

(* Bug: line 176 is missing.                                               *)
InProgressNoReset ==
  /\ StartPass("RX_IN_PROGRESS")
  /\ IF rxCounter = Fifo!Position /\ tmoutCnt = LIMIT
     THEN state' = "RX_DONE" /\ UNCHANGED <<tmoutCnt, rxCounter>>
     ELSE /\ tmoutCnt' = (tmoutCnt + 1) % COUNTER_MOD
          /\ rxCounter' = Fifo!Position
          /\ UNCHANGED state
  /\ UNCHANGED <<pc, i, flag, message, fifo, button, requests, meter, late,
                 accepted>>

(* RX_IN_PROGRESS.                                                         *)
InProgress ==
  /\ StartPass("RX_IN_PROGRESS")
  /\ IF rxCounter = Fifo!Position /\ tmoutCnt = LIMIT
     THEN state' = "RX_DONE" /\ tmoutCnt' = 0 /\ UNCHANGED rxCounter
     ELSE /\ tmoutCnt' = (tmoutCnt + 1) % COUNTER_MOD
          /\ rxCounter' = Fifo!Position
          /\ UNCHANGED state
  /\ UNCHANGED <<pc, i, flag, message, fifo, button, requests, meter, late,
                 accepted>>

-----------------------------------------------------------------------------
(* RX_DONE.  ReadUART(&target): an empty FIFO leaves the target alone.     *)
ReadUART == Fifo!Get \/ Fifo!GetNothing
Read(target) == IF got' = 0 THEN target ELSE line[got']

Done ==
  /\ pc = "loop" /\ state = "RX_DONE"
  /\ pc' = "header" /\ i' = 0
  /\ UNCHANGED <<state, flag, tmoutCnt, rxCounter, message, fifo, button,
                 requests, meter, age, late, accepted>>

(* Bug: one byte too few in the loop of line 188.                          *)
ReadHeaderShort ==
  /\ pc = "header"
  /\ ReadUART
  /\ IF i + 2 < HEADER
     THEN i' = i + 1 /\ UNCHANGED pc
     ELSE i' = 0 /\ pc' = "tag"
  /\ UNCHANGED <<state, flag, tmoutCnt, rxCounter, message, button, requests,
                 meter, age, late, accepted>>

(* Nobody looks at cr_0, where the header goes.                            *)
ReadHeader ==
  /\ pc = "header"
  /\ ReadUART
  /\ IF i + 1 < HEADER
     THEN i' = i + 1 /\ UNCHANGED pc
     ELSE i' = 0 /\ pc' = "tag"
  /\ UNCHANGED <<state, flag, tmoutCnt, rxCounter, message, button, requests,
                 meter, age, late, accepted>>

(* cr[0] alone decides whether the rest of the tag is read.                *)
ReadTag ==
  /\ pc = "tag"
  /\ ReadUART
  /\ cr' = [cr EXCEPT ![i + 1] = Read(@)]
  /\ IF i = 0 /\ ~IsTag(cr'[1], 1) THEN pc' = "clear" /\ UNCHANGED i
     ELSE IF i + 1 < TAG THEN i' = i + 1 /\ UNCHANGED pc
     ELSE /\ i' = 0
          /\ pc' = IF \A p \in 1 .. TAG : IsTag(cr'[p], p)
                   THEN "body" ELSE "clear_early"
  /\ UNCHANGED <<state, flag, tmoutCnt, rxCounter, cr_all, button, requests,
                 meter, age, late, accepted>>

(* Bug: "i <= 28" in the loop of line 204.                                 *)
ReadBodyLong ==
  /\ pc = "body"
  /\ ReadUART
  /\ cr_all' = [cr_all EXCEPT ![i + 1] = Read(@)]
  /\ IF i < BODY
     THEN i' = i + 1 /\ UNCHANGED pc
     ELSE i' = 0 /\ pc' = "decode"
  /\ UNCHANGED <<state, flag, tmoutCnt, rxCounter, cr, button, requests, meter,
                 age, late, accepted>>

ReadBody ==
  /\ pc = "body"
  /\ ReadUART
  /\ cr_all' = [cr_all EXCEPT ![i + 1] = Read(@)]
  /\ IF i + 1 < BODY
     THEN i' = i + 1 /\ UNCHANGED pc
     ELSE i' = 0 /\ pc' = "decode"
  /\ UNCHANGED <<state, flag, tmoutCnt, rxCounter, cr, button, requests, meter,
                 age, late, accepted>>

(* What the decoder makes of cr_all is the subject of module Decode.       *)
Accept ==
  /\ pc = "decode"
  /\ pc' = "clear"
  /\ accepted' = Append(accepted, cr_all)
  /\ UNCHANGED <<state, i, flag, tmoutCnt, rxCounter, message, fifo, button,
                 requests, meter, age, late>>

(* ClearRxBuffer, called twice when the tag is wrong.                      *)
ClearRxBuffer ==
  /\ \/ pc = "clear_early" /\ pc' = "clear"
     \/ pc = "clear" /\ pc' = "reset"
  /\ Fifo!Clear
  /\ UNCHANGED <<state, i, flag, tmoutCnt, rxCounter, message, button,
                 requests, meter, age, late, accepted>>

(* Bugs: line 339 is missing; lines 339 and 340 are; line 338 is.          *)
ResetKeepTag ==
  /\ pc = "reset"
  /\ pc' = "loop" /\ i' = 0
  /\ rxCounter' = 0
  /\ state' = "RX_STANDBY"
  /\ cr_all' = [p \in 1 .. BODY |-> Zero]
  /\ late' = FALSE
  /\ UNCHANGED <<cr, flag, tmoutCnt, fifo, button, requests, meter, age,
                 accepted>>

ResetKeepMessage ==
  /\ pc = "reset"
  /\ pc' = "loop" /\ i' = 0
  /\ rxCounter' = 0
  /\ state' = "RX_STANDBY"
  /\ late' = FALSE
  /\ UNCHANGED <<message, flag, tmoutCnt, fifo, button, requests, meter, age,
                 accepted>>

ResetStayDone ==
  /\ pc = "reset"
  /\ pc' = "loop" /\ i' = 0
  /\ rxCounter' = 0
  /\ cr' = [p \in 1 .. TAG |-> Zero]
  /\ cr_all' = [p \in 1 .. BODY |-> Zero]
  /\ late' = FALSE
  /\ UNCHANGED <<state, flag, tmoutCnt, fifo, button, requests, meter, age,
                 accepted>>

Reset ==
  /\ pc = "reset"
  /\ pc' = "loop" /\ i' = 0
  /\ rxCounter' = 0
  /\ state' = "RX_STANDBY"
  /\ cr' = [p \in 1 .. TAG |-> Zero]
  /\ cr_all' = [p \in 1 .. BODY |-> Zero]
  /\ late' = FALSE
  /\ UNCHANGED <<flag, tmoutCnt, fifo, button, requests, meter, age, accepted>>

Main ==
  \/ StandbyReceive
  \/ StandbyButton
  \/ StandbyRelease
  \/ InProgress
  \/ Done
  \/ ReadHeader
  \/ ReadTag
  \/ ReadBody
  \/ Accept
  \/ ClearRxBuffer
  \/ Reset

-----------------------------------------------------------------------------
(* The outside.                                                            *)

Answered ==
  /\ Len(replies) = requests
  /\ coming = <<>>
  /\ ~Fifo!Available
  /\ state = "RX_STANDBY"

Press ==
  /\ ~pressed
  /\ \/ patient /\ Answered /\ ~flag /\ presses < MaxPresses
     \/ ~patient /\ presses < MaxRough
  /\ pressed' = TRUE
  /\ presses' = presses + 1
  /\ UNCHANGED <<control, message, fifo, patient, bounces, requests, meter, age,
                 late, accepted>>

(* A patient user keeps the button down until the loop has seen it.        *)
Release ==
  /\ pressed
  /\ patient => flag
  /\ pressed' = FALSE
  /\ UNCHANGED <<control, message, fifo, patient, presses, bounces, requests,
                 meter, age, late, accepted>>

(* The contact opens and closes again within one press.                    *)
Bounce ==
  /\ ~patient /\ presses > 0
  /\ bounces < 2 * MaxBounces
  /\ pressed \/ bounces % 2 = 1
  /\ pressed' = ~pressed
  /\ bounces' = bounces + 1
  /\ UNCHANGED <<control, message, fifo, patient, presses, requests, meter, age,
                 late, accepted>>

(* The meter answers every request, one answer after the other.            *)
StartReply ==
  /\ coming = <<>>
  /\ Len(replies) < requests
  /\ \E length \in BodyLengths :
       /\ replies' = Append(replies, length)
       /\ coming' = Reply(Len(replies) + 1, length)
  /\ age' = 0
  /\ UNCHANGED <<control, message, fifo, button, requests, late, line, noise,
                 accepted>>

(* The interrupt handler stores a byte.  A byte takes 87 us and RX_DONE    *)
(* less, so at most one byte arrives in the course of it.                  *)
Receive(byte) ==
  /\ Fifo!Put
  /\ ~late
  /\ late' = (state = "RX_DONE")
  /\ line' = Append(line, byte)
  /\ UNCHANGED <<control, message, button, requests, replies, age, accepted>>

Arrive ==
  /\ coming # <<>>
  /\ Receive(Head(coming))
  /\ coming' = Tail(coming)
  /\ UNCHANGED noise

(* Between replies the line may make up a byte.  (Inside one it would go   *)
(* unnoticed, and be decoded: a message carries no checksum.)              *)
Disturb ==
  /\ ~patient /\ noise < MaxNoise
  /\ coming = <<>>
  /\ Receive(Noise)
  /\ noise' = noise + 1
  /\ UNCHANGED coming

Next ==
  \/ Main
  \/ Press
  \/ Release
  \/ Bounce
  \/ StartReply
  \/ Arrive
  \/ Disturb

Spec == Init /\ [][Next]_vars

(* The loop runs; the meter answers; a byte on the line arrives.           *)
FairSpec ==
  Spec /\ WF_vars(Main) /\ WF_vars(StartReply) /\ WF_vars(Arrive)

-----------------------------------------------------------------------------
Byte == (0 .. (MaxPresses + MaxRough + MaxBounces)) \X (0 .. (HEADER + TAG + BODY))

(* Types; the index of a ReadUART loop stays inside its array.             *)
TypeOK ==
  /\ state \in {"RX_STANDBY", "RX_IN_PROGRESS", "RX_DONE"}
  /\ pc \in {"loop", "button", "release", "header", "tag", "body", "decode",
             "clear_early", "clear", "reset"}
  /\ i \in Nat
  /\ pc = "header" => i < HEADER
  /\ pc = "tag" => i < TAG
  /\ pc = "body" => i < BODY
  /\ flag \in BOOLEAN /\ pressed \in BOOLEAN /\ late \in BOOLEAN
  /\ tmoutCnt \in 0 .. (COUNTER_MOD - 1)
  /\ rxCounter \in 0 .. (SIZE_BUF_RX - 1)
  /\ cr \in [1 .. TAG -> Byte]
  /\ cr_all \in [1 .. BODY -> Byte]
  /\ taken <= stored /\ stored = Len(line)
  /\ \A p \in 1 .. Len(line) : line[p] \in Byte

(* The message handed to the decoder is the body of reply k.               *)
IsBodyOf(msg, k) ==
  \A p \in 1 .. replies[k] : msg[p] = <<k, HEADER + TAG + p>>

(* Whatever arrives and whenever, what the decoder gets starts with the    *)
(* whole body of one reply, from its first byte to its CR LF: never a body *)
(* cut off, shifted, or patched up from bytes of an earlier message.  This *)
(* rests on the memsets, the tag, ClearRxBuffer and the length of LIMIT.   *)
AcceptedWhole ==
  \A a \in 1 .. Len(accepted) :
    \E k \in 1 .. Len(replies) : IsBodyOf(accepted[a], k)

(* No reply is decoded twice, and replies are decoded in their order.      *)
AcceptedOnce ==
  \A a, b \in 1 .. Len(accepted), k, l \in 1 .. Len(replies) :
    a < b /\ IsBodyOf(accepted[a], k) /\ IsBodyOf(accepted[b], l) => k < l

(* The timeout fires when it is due: tmoutCnt stops at the limit.          *)
TimeoutAlwaysFires == tmoutCnt <= LIMIT

(* It does with a patient user and a quiet line: no byte comes in the one  *)
(* pass in which tmoutCnt stands at the limit.                             *)
TimeoutFires == patient => TimeoutAlwaysFires

(* A contact that bounces closes more often than it is pressed.  The code  *)
(* that main.c:123 calls "debounce" waits for nothing, so each closing may *)
(* be a request of its own; but none is two, and without bounces one press *)
(* is one request.                                                         *)
OneRequestPerClosing == requests <= presses + (bounces + 1) \div 2

(* Every request of a patient user is answered by a message handed to the  *)
(* decoder.                                                                *)
EveryReplyDecoded ==
  \A n \in 1 .. MaxPresses :
    (patient /\ requests >= n) ~> (Len(accepted) >= n)

(* The loop always gets back to RX_STANDBY with an empty FIFO.             *)
ReturnsToStandby == []<>(state = "RX_STANDBY" /\ ~Fifo!Available)
=============================================================================
