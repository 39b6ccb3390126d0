---------------------------- MODULE Device_proofs ----------------------------
(***************************************************************************)
(* Proofs about the chip: the event pump by itself, then each driver,      *)
(* which keeps an inductive invariant through its own steps, through a     *)
(* reset and through a power cut, while the steps of the others leave it   *)
(* alone.                                                                  *)
(***************************************************************************)
EXTENDS Device, SequenceTheorems, TLAPS

-----------------------------------------------------------------------------
(* The event queue and the event pump, for every queue size, every number  *)
(* of priorities and every list of sources, from two inductive invariants: *)
(* QueueInv about the ring, which the steps of the pump preserve because   *)
(* they respect the priorities, and PumpInv about the events of the        *)
(* SoftDevice.                                                             *)

Event == [what : {"app", "sd"}, n : Nat \ {0}]

(* The slot j places behind the start of the queue, and the event in it.   *)
SlotAt(j) == IF m_queue_start_index + j <= QUEUE_SIZE
         THEN m_queue_start_index + j
         ELSE m_queue_start_index + j - (QUEUE_SIZE + 1)
First == ran + (IF claimed = NONE THEN 0 ELSE 1)
Of(j) == given[First + j + 1]
Behind == 0 .. (Waiting - 1)

QueueTypeOK ==
  /\ m_queue_start_index \in Slots /\ m_queue_end_index \in Slots
  /\ claimed \in Slots \cup {NONE}
  /\ ran \in Nat /\ given \in Seq(Event)
  /\ headers \in [Slots -> Event \cup {NoEvent}]
  /\ putting \in [Contexts -> [slot : Slots, event : Event] \cup {NoPut}]
  /\ running \in Event \cup {NoEvent}

(* The events that wait fill the slots from the start to the end, ...      *)
Ring == Waiting \in 0 .. QUEUE_SIZE /\ m_queue_end_index = SlotAt(Waiting)

(* ... a put under way is for one of them, ...                             *)
Writing ==
  \A c \in Contexts : putting[c] # NoPut =>
    \E j \in Behind : putting[c] = [slot |-> SlotAt(j), event |-> Of(j)]

(* ... and what is not in its slot yet is in the hands of a put.           *)
Stored ==
  \A j \in Behind :
    \/ headers[SlotAt(j)] = Of(j)
    \/ \E c \in Contexts : putting[c] = [slot |-> SlotAt(j), event |-> Of(j)]

(* The slot that has been taken is the one before the start.               *)
Claimed ==
  /\ claimed # NONE =>
       /\ next_index(claimed) = m_queue_start_index
       /\ headers[claimed] = given[ran + 1]
  /\ running # NoEvent => claimed # NONE /\ running = given[ran + 1]

QueueInv == QueueTypeOK /\ Ring /\ Writing /\ Stored /\ Claimed

-----------------------------------------------------------------------------
LEMMA Constants ==
  /\ QUEUE_SIZE \in Nat /\ QUEUE_SIZE >= 1
  /\ HIGHEST \in Nat /\ HIGHEST >= 2
  /\ Slots = 0 .. QUEUE_SIZE /\ Contexts = 0 .. HIGHEST
  /\ NONE = -1 /\ NONE \notin Slots
  BY QueueAssumption, SoftDeviceAssumption DEF Slots, Contexts, NONE

LEMMA EventIsNot ==
  /\ NoEvent \notin Event
  /\ NoPut \notin [slot : Slots, event : Event]
  BY Constants DEF Event, NoEvent, NoPut, Slots

LEMMA AtSlot ==
  ASSUME m_queue_start_index \in Slots,
         NEW j \in 0 .. QUEUE_SIZE
  PROVE  SlotAt(j) \in Slots
  BY Constants DEF SlotAt, Slots

LEMMA AtOnce ==
  ASSUME m_queue_start_index \in Slots,
         NEW i \in 0 .. QUEUE_SIZE, NEW j \in 0 .. QUEUE_SIZE, SlotAt(i) = SlotAt(j)
  PROVE  i = j
  BY Constants DEF SlotAt, Slots

LEMMA AtNext ==
  ASSUME m_queue_start_index \in Slots,
         NEW j \in 0 .. (QUEUE_SIZE - 1)
  PROVE  next_index(SlotAt(j)) = SlotAt(j + 1)
  BY Constants DEF SlotAt, Slots, next_index

(* The slot before the start is none of those that wait.                   *)
LEMMA Before ==
  ASSUME m_queue_start_index \in Slots, NEW s \in Slots,
         next_index(s) = m_queue_start_index,
         NEW j \in 0 .. (QUEUE_SIZE - 1)
  PROVE  SlotAt(j) # s
  BY Constants DEF SlotAt, Slots, next_index

LEMMA FullIff ==
  ASSUME QueueTypeOK, Ring
  PROVE  Full <=> Waiting = QUEUE_SIZE
<1> m_queue_start_index \in Slots BY DEF QueueTypeOK
<1>1. CASE Waiting = QUEUE_SIZE
  BY <1>1, Constants DEF Ring, SlotAt, Full, next_index, Slots
<1>2. CASE Waiting # QUEUE_SIZE
  <2>1. Waiting \in 0 .. (QUEUE_SIZE - 1) BY <1>2, Constants DEF Ring
  <2>2. next_index(m_queue_end_index) = SlotAt(Waiting + 1)
    BY <2>1, AtNext DEF Ring
  <2>3. SlotAt(0) = m_queue_start_index BY Constants DEF SlotAt, Slots
  <2>4. Waiting + 1 \in 0 .. QUEUE_SIZE /\ 0 \in 0 .. QUEUE_SIZE
        /\ Waiting + 1 # 0
    BY <2>1, Constants
  <2>5. SlotAt(Waiting + 1) # SlotAt(0) BY <2>4, AtOnce
  <2> QED BY <1>2, <2>2, <2>3, <2>5 DEF Full
<1> QED BY <1>1, <1>2
-----------------------------------------------------------------------------
LEMMA WaitingIs ==
  ASSUME QueueTypeOK
  PROVE  /\ First \in Nat /\ Len(given) \in Nat
         /\ Waiting = Len(given) - First
         /\ claimed # NONE => First = ran + 1
         /\ claimed = NONE => First = ran
  BY DEF QueueTypeOK, First, Waiting

(* Every event that waits is in the list, and its slot exists.             *)
LEMMA BehindOK ==
  ASSUME QueueTypeOK, Ring, NEW j \in Behind
  PROVE  /\ j \in 0 .. (QUEUE_SIZE - 1) /\ SlotAt(j) \in Slots
         /\ First + j + 1 \in 1 .. Len(given)
         /\ Of(j) \in Event
<1>1. j \in 0 .. (QUEUE_SIZE - 1) /\ First + j + 1 \in 1 .. Len(given)
  BY WaitingIs, Constants DEF Ring, Behind
<1>2. SlotAt(j) \in Slots
  <2>1. j \in 0 .. QUEUE_SIZE BY <1>1, Constants
  <2> QED BY <2>1, AtSlot DEF QueueTypeOK
<1>3. Of(j) \in Event BY <1>1 DEF Of, QueueTypeOK
<1> QED BY <1>1, <1>2, <1>3

LEMMA QueueStart == SchedInit => QueueInv
<1> SUFFICES ASSUME SchedInit PROVE QueueInv OBVIOUS
<1>1. QueueTypeOK BY Constants DEF SchedInit, QueueTypeOK
<1>2. Waiting = 0 BY DEF SchedInit, Waiting
<1>3. Ring BY <1>2, Constants DEF SchedInit, Ring, SlotAt
<1>4. Writing /\ Stored
  BY <1>2 DEF SchedInit, Writing, Stored, Behind
<1>5. Claimed BY DEF SchedInit, Claimed
<1> QED BY <1>1, <1>3, <1>4, <1>5 DEF QueueInv

LEMMA ReserveStep ==
  ASSUME QueueInv, NEW c \in Contexts, NEW what \in {"app", "sd"},
         putting[c] = NoPut, Reserve(c, what)
  PROVE  QueueInv'
<1> DEFINE event == [what |-> what, n |-> Len(given) + 1]
           put == [slot |-> m_queue_end_index, event |-> event]
<1> QueueTypeOK /\ Ring /\ Writing /\ Stored /\ Claimed BY DEF QueueInv
<1>1. /\ ~Full
      /\ putting' = [putting EXCEPT ![c] = put]
      /\ m_queue_end_index' = next_index(m_queue_end_index)
      /\ given' = Append(given, event)
      /\ UNCHANGED <<headers, m_queue_start_index, claimed, running, ran>>
  BY DEF Reserve
<1>2. event \in Event /\ put \in [slot : Slots, event : Event]
  BY DEF Event, QueueTypeOK
<1> HIDE DEF event
<1>3. PICK w \in 0 .. (QUEUE_SIZE - 1) : w = Waiting
  BY <1>1, FullIff, Constants DEF Ring
<1>4. /\ Len(given') = Len(given) + 1
      /\ given'[Len(given) + 1] = event
      /\ \A k \in 1 .. Len(given) : given'[k] = given[k]
      /\ given' \in Seq(Event)
  BY <1>1, <1>2 DEF QueueTypeOK
<1>5. First' = First /\ Waiting' = w + 1
  BY <1>1, <1>3, <1>4, WaitingIs DEF First, Waiting, QueueTypeOK
<1>6. \A j : SlotAt(j)' = SlotAt(j) BY <1>1 DEF SlotAt
<1>7. \A j \in Behind : Of(j)' = Of(j)
  BY <1>4, <1>5, BehindOK DEF Of
<1>8. Of(w)' = event /\ SlotAt(w) = m_queue_end_index
  BY <1>3, <1>4, <1>5, WaitingIs DEF Of, Ring
<1>9. Behind' = Behind \cup {w} /\ w \in Behind'
  BY <1>3, <1>5 DEF Behind
<1>10. putting'[c] = put /\ \A d \in Contexts : d # c => putting'[d] = putting[d]
  BY <1>1 DEF QueueTypeOK
<1>11. QueueTypeOK'
  <2>1. m_queue_end_index' \in Slots
    BY <1>1, Constants DEF QueueTypeOK, next_index
  <2>2. putting' \in [Contexts -> [slot : Slots, event : Event] \cup {NoPut}]
    BY <1>1, <1>2 DEF QueueTypeOK
  <2> QED BY <1>1, <1>4, <2>1, <2>2 DEF QueueTypeOK
<1>12. Ring'
  <2>1. next_index(SlotAt(w)) = SlotAt(w + 1)
    BY <1>3, AtNext DEF QueueTypeOK
  <2>2. m_queue_end_index' = SlotAt(w + 1)' BY <1>1, <1>6, <1>8, <2>1
  <2>3. Waiting' \in 0 .. QUEUE_SIZE BY <1>3, <1>5, Constants
  <2> QED BY <1>5, <2>2, <2>3 DEF Ring
<1>13. Writing'
  <2> SUFFICES ASSUME NEW d \in Contexts, putting'[d] # NoPut
               PROVE  \E j \in Behind' :
                        putting'[d] = [slot |-> SlotAt(j)', event |-> Of(j)']
    BY DEF Writing
  <2>1. CASE d = c BY <2>1, <1>6, <1>8, <1>9, <1>10
  <2>2. CASE d # c
    <3>1. PICK j \in Behind : putting[d] = [slot |-> SlotAt(j), event |-> Of(j)]
      BY <2>2, <1>10 DEF Writing
    <3> QED BY <3>1, <2>2, <1>6, <1>7, <1>9, <1>10
  <2> QED BY <2>1, <2>2
<1>14. Stored'
  <2> SUFFICES ASSUME NEW j \in Behind'
               PROVE  \/ headers'[SlotAt(j)'] = Of(j)'
                      \/ \E d \in Contexts :
                           putting'[d] = [slot |-> SlotAt(j)', event |-> Of(j)']
    BY DEF Stored
  <2>1. CASE j = w BY <2>1, <1>6, <1>8, <1>10
  <2>2. CASE j # w
    <3>1. j \in Behind BY <2>2, <1>9
    <3>2. CASE headers[SlotAt(j)] = Of(j) BY <3>1, <3>2, <1>1, <1>6, <1>7
    <3>3. CASE headers[SlotAt(j)] # Of(j)
      <4>1. PICK d \in Contexts :
              putting[d] = [slot |-> SlotAt(j), event |-> Of(j)]
        BY <3>1, <3>3 DEF Stored
      <4>2. putting[d] # NoPut
        BY <3>1, <4>1, BehindOK, EventIsNot
      <4>3. putting'[d] = putting[d] BY <4>2, <1>10
      <4> QED BY <3>1, <4>1, <4>3, <1>6, <1>7
    <3> QED BY <3>2, <3>3
  <2> QED BY <2>1, <2>2
<1>15. Claimed'
  <2>1. claimed # NONE => given'[ran + 1] = given[ran + 1]
    <3>1. First \in Nat /\ Len(given) = First + w BY <1>3, WaitingIs, Constants
    <3>2. claimed # NONE => ran + 1 = First /\ ran \in Nat
      BY WaitingIs DEF QueueTypeOK
    <3> QED BY <1>4, <3>1, <3>2
  <2> QED BY <1>1, <2>1 DEF Claimed, next_index
<1> QED BY <1>11, <1>12, <1>13, <1>14, <1>15 DEF QueueInv
LEMMA FillStep ==
  ASSUME QueueInv, NEW c \in Contexts, Fill(c)
  PROVE  QueueInv'
<1> QueueTypeOK /\ Ring /\ Writing /\ Stored /\ Claimed BY DEF QueueInv
<1>1. /\ putting[c] # NoPut
      /\ headers' = [headers EXCEPT ![putting[c].slot] = putting[c].event]
      /\ putting' = [putting EXCEPT ![c] = NoPut]
      /\ UNCHANGED <<m_queue_start_index, m_queue_end_index, claimed, running,
                     given, ran>>
  BY DEF Fill
<1>2. PICK f \in Behind : putting[c] = [slot |-> SlotAt(f), event |-> Of(f)]
  BY <1>1 DEF Writing
<1>3. /\ First' = First /\ Waiting' = Waiting /\ Behind' = Behind
      /\ \A j : SlotAt(j)' = SlotAt(j) /\ Of(j)' = Of(j)
  BY <1>1 DEF First, Waiting, Behind, SlotAt, Of
<1>4. SlotAt(f) \in Slots /\ Of(f) \in Event BY <1>2, BehindOK
<1>5. /\ headers'[SlotAt(f)] = Of(f)
      /\ \A s \in Slots : s # SlotAt(f) => headers'[s] = headers[s]
      /\ headers' \in [Slots -> Event \cup {NoEvent}]
  BY <1>1, <1>2, <1>4 DEF QueueTypeOK
<1>6. /\ putting'[c] = NoPut
      /\ \A d \in Contexts : d # c => putting'[d] = putting[d]
      /\ putting' \in [Contexts -> [slot : Slots, event : Event] \cup {NoPut}]
  BY <1>1 DEF QueueTypeOK
<1>7. QueueTypeOK' BY <1>1, <1>5, <1>6 DEF QueueTypeOK
<1>8. Ring' BY <1>1, <1>3 DEF Ring, SlotAt
<1>9. Writing' BY <1>3, <1>6 DEF Writing
<1>10. Stored'
  <2> SUFFICES ASSUME NEW j \in Behind
               PROVE  \/ headers'[SlotAt(j)] = Of(j)
                      \/ \E d \in Contexts :
                           putting'[d] = [slot |-> SlotAt(j), event |-> Of(j)]
    BY <1>3 DEF Stored
  <2>1. CASE j = f BY <2>1, <1>5
  <2>2. CASE j # f
    <3>1. /\ j \in 0 .. QUEUE_SIZE /\ f \in 0 .. QUEUE_SIZE
          /\ SlotAt(j) \in Slots
      BY <1>2, BehindOK, Constants
    <3>2. SlotAt(j) # SlotAt(f) BY <2>2, <3>1, AtOnce DEF QueueTypeOK
    <3>3. headers'[SlotAt(j)] = headers[SlotAt(j)] BY <1>5, <3>1, <3>2
    <3>4. putting[c] # [slot |-> SlotAt(j), event |-> Of(j)]
      BY <1>2, <3>2
    <3> QED BY <1>6, <3>3, <3>4 DEF Stored
  <2> QED BY <2>1, <2>2
<1>11. Claimed'
  <2>1. ASSUME claimed # NONE PROVE claimed # SlotAt(f)
    <3>1. claimed \in Slots /\ f \in 0 .. (QUEUE_SIZE - 1)
      BY <2>1, <1>2, BehindOK DEF QueueTypeOK
    <3> QED BY <2>1, <3>1, Before DEF Claimed, QueueTypeOK
  <2>2. claimed # NONE => headers'[claimed] = headers[claimed]
    BY <2>1, <1>5 DEF QueueTypeOK
  <2> QED BY <1>1, <2>2 DEF Claimed, next_index
<1> QED BY <1>7, <1>8, <1>9, <1>10, <1>11 DEF QueueInv

(* An event is taken only when no put is under way.                        *)
LEMMA ClaimStep ==
  ASSUME QueueInv, \A c \in Contexts : putting[c] = NoPut, Claim
  PROVE  QueueInv'
<1> QueueTypeOK /\ Ring /\ Writing /\ Stored /\ Claimed BY DEF QueueInv
<1>1. /\ claimed = NONE /\ ~Empty
      /\ claimed' = m_queue_start_index
      /\ m_queue_start_index' = next_index(m_queue_start_index)
      /\ UNCHANGED <<headers, m_queue_end_index, putting, running, given, ran>>
  BY DEF Claim
<1>2. SlotAt(0) = m_queue_start_index BY Constants DEF SlotAt, QueueTypeOK, Slots
<1>3. PICK w \in 1 .. QUEUE_SIZE : w = Waiting
  BY <1>1, <1>2, Constants DEF Ring, Empty
<1>4. claimed' # NONE /\ claimed' \in Slots /\ m_queue_start_index' \in Slots
  BY <1>1, Constants DEF QueueTypeOK, next_index, Slots
<1>5. First = ran /\ First' = First + 1 /\ Waiting' = w - 1
  BY <1>1, <1>3, <1>4 DEF First, Waiting, QueueTypeOK
<1>6. Behind = 0 .. (w - 1) /\ Behind' = 0 .. (w - 2)
  BY <1>3, <1>5 DEF Behind
<1>7. \A j \in 0 .. (QUEUE_SIZE - 1) : SlotAt(j)' = SlotAt(j + 1)
  BY <1>1, Constants DEF SlotAt, next_index, QueueTypeOK, Slots
<1>8. \A j \in Nat : Of(j)' = Of(j + 1)
  BY <1>1, <1>5 DEF Of, QueueTypeOK
<1>9. ASSUME NEW j \in Behind PROVE headers[SlotAt(j)] = Of(j)
  <2>1. [slot |-> SlotAt(j), event |-> Of(j)] # NoPut
    BY BehindOK, EventIsNot
  <2> QED BY <2>1 DEF Stored
<1>10. QueueTypeOK' BY <1>1, <1>4 DEF QueueTypeOK
<1>11. Ring'
  <2>1. w - 1 \in 0 .. (QUEUE_SIZE - 1) BY <1>3, Constants
  <2>2. SlotAt(w - 1)' = SlotAt(w)
    <3>1. (w - 1) + 1 = w BY <1>3, Constants
    <3> QED BY <2>1, <3>1, <1>7
  <2> QED BY <1>1, <1>3, <1>5, <2>1, <2>2, Constants DEF Ring
<1>12. Writing' BY <1>1 DEF Writing
<1>13. Stored'
  <2> SUFFICES ASSUME NEW j \in Behind'
               PROVE  headers'[SlotAt(j)'] = Of(j)'
    BY DEF Stored
  <2>1. j \in Nat /\ j + 1 \in Behind /\ j \in 0 .. (QUEUE_SIZE - 1)
    BY <1>3, <1>6, Constants
  <2> QED BY <1>1, <1>7, <1>8, <1>9, <2>1
<1>14. Claimed'
  <2>1. 0 \in Behind BY <1>3, <1>6, Constants
  <2>2. headers[m_queue_start_index] = given[ran + 1]
    BY <1>2, <1>5, <1>9, <2>1 DEF Of, QueueTypeOK
  <2>3. running = NoEvent BY <1>1 DEF Claimed
  <2> QED BY <1>1, <2>2, <2>3 DEF Claimed, next_index
<1> QED BY <1>10, <1>11, <1>12, <1>13, <1>14 DEF QueueInv

LEMMA LoadStep ==
  ASSUME QueueInv, Load
  PROVE  QueueInv'
<1> QueueTypeOK /\ Ring /\ Writing /\ Stored /\ Claimed BY DEF QueueInv
<1>1. /\ claimed # NONE /\ running' = headers[claimed]
      /\ UNCHANGED <<queue, putting, claimed, given, ran>>
  BY DEF Load
<1>2. /\ Waiting' = Waiting /\ Behind' = Behind
      /\ \A j : SlotAt(j)' = SlotAt(j) /\ Of(j)' = Of(j)
  BY <1>1 DEF queue, First, Waiting, Behind, SlotAt, Of
<1>3. QueueTypeOK' BY <1>1 DEF QueueTypeOK, queue
<1>4. Ring' BY <1>1, <1>2 DEF Ring, SlotAt, queue
<1>5. Writing' BY <1>1, <1>2 DEF Writing
<1>6. Stored' BY <1>1, <1>2 DEF Stored, queue
<1>7. Claimed' BY <1>1 DEF Claimed, queue, next_index
<1> QED BY <1>3, <1>4, <1>5, <1>6, <1>7 DEF QueueInv

LEMMA ReturnStep ==
  ASSUME QueueInv, Return
  PROVE  QueueInv'
<1> QueueTypeOK /\ Ring /\ Writing /\ Stored /\ Claimed BY DEF QueueInv
<1>1. /\ running # NoEvent /\ running' = NoEvent /\ claimed' = NONE
      /\ ran' = ran + 1
      /\ UNCHANGED <<queue, putting, given>>
  BY DEF Return
<1>2. claimed # NONE BY <1>1 DEF Claimed
<1>3. First' = First BY <1>1, <1>2 DEF First, QueueTypeOK
<1>4. /\ Waiting' = Waiting /\ Behind' = Behind
      /\ \A j : SlotAt(j)' = SlotAt(j) /\ Of(j)' = Of(j)
  <2>1. Waiting' = Waiting BY <1>1, <1>2 DEF Waiting, QueueTypeOK
  <2> QED BY <1>1, <1>3, <2>1 DEF queue, Behind, SlotAt, Of
<1>5. QueueTypeOK' BY <1>1 DEF QueueTypeOK, queue
<1>6. Ring' BY <1>1, <1>4 DEF Ring, SlotAt, queue
<1>7. Writing' BY <1>1, <1>4 DEF Writing
<1>8. Stored' BY <1>1, <1>4 DEF Stored, queue
<1>9. Claimed' BY <1>1 DEF Claimed
<1> QED BY <1>5, <1>6, <1>7, <1>8, <1>9 DEF QueueInv

LEMMA QueueStutter ==
  ASSUME QueueInv, UNCHANGED schedVars
  PROVE  QueueInv'
BY DEF QueueInv, schedVars, queue, QueueTypeOK, Ring, Writing, Stored, Claimed,
       Waiting, Behind, SlotAt, Of, First, next_index
-----------------------------------------------------------------------------
(* The main program takes events only when it has the CPU, and a put is    *)
(* the work of its context: this is all that the ring asks of the pump.    *)
LEMMA NoPutUnderWay ==
  ASSUME MainFree
  PROVE  \A c \in Contexts : putting[c] = NoPut
BY Constants DEF MainFree, Has, Busy, Contexts

LEMMA QueueKept == QueueInv /\ [PumpNext \/ PumpReset]_pumpVars => QueueInv'
<1> SUFFICES ASSUME QueueInv, [PumpNext \/ PumpReset]_pumpVars
             PROVE  QueueInv'
  OBVIOUS
<1> 1 \in Contexts BY Constants DEF Contexts
<1>1. CASE SdInit \/ SdDisable
  BY <1>1, QueueStutter DEF SdInit, SdDisable
<1>2. CASE \E s \in Names : HandlerSet(s) \/ SdEvent(s)
  BY <1>2, QueueStutter DEF HandlerSet, SdEvent
<1>3. CASE \E c \in Contexts : AppPut(c) \/ PutEnd(c)
  <2>1. ASSUME NEW c \in Contexts, AppPut(c) PROVE QueueInv'
    BY <2>1, ReserveStep DEF AppPut
  <2>2. ASSUME NEW c \in Contexts, PutEnd(c) PROVE QueueInv'
    BY <2>2, FillStep DEF PutEnd
  <2> QED BY <1>3, <2>1, <2>2
<1>4. CASE Irq
  <2>1. CASE UNCHANGED schedVars BY <2>1, QueueStutter
  <2>2. CASE Reserve(1, "sd")
    <3>1. putting[1] = NoPut BY <1>4 DEF Irq, Busy
    <3> QED BY <2>2, <3>1, ReserveStep
  <2> QED BY <1>4, <2>1, <2>2 DEF Irq, Fault
<1>5. CASE Fetch BY <1>5, QueueStutter DEF Fetch, Fault
<1>6. CASE Execute
  <2>1. \A c \in Contexts : putting[c] = NoPut
    BY <1>6, NoPutUnderWay DEF Execute
  <2>2. Claim \/ Return \/ Load BY <1>6 DEF Execute
  <2> QED BY <2>1, <2>2, ClaimStep, LoadStep, ReturnStep
<1>7. CASE PumpReset
  <2>1. SchedInit' BY <1>7 DEF PumpReset, SchedInit
  <2>2. SchedInit' => QueueInv' BY QueueStart, PTL
  <2> QED BY <2>1, <2>2
<1>8. CASE UNCHANGED pumpVars BY <1>8, QueueStutter DEF pumpVars
<1> QED
  BY <1>1, <1>2, <1>3, <1>4, <1>5, <1>6, <1>7, <1>8 DEF PumpNext

LEMMA QueueInvariant == PumpSpec => []QueueInv
<1>1. PumpInit => QueueInv BY QueueStart DEF PumpInit
<1> QED BY <1>1, QueueKept, PTL DEF PumpSpec

(* Whatever preempts what, and after any reset: events are executed once   *)
(* each, in the order of their slots, and no handler is called for a slot  *)
(* of app_sched_event_put that is not filled yet.                          *)
THEOREM EventsRunInOrder == PumpSpec => []RunsInOrder
<1>1. QueueInv => RunsInOrder BY DEF QueueInv, Claimed, RunsInOrder
<1> QED BY <1>1, QueueInvariant, PTL

(* The event whose handler runs stays in its slot, which app_sched_event_  *)
(* get has given back, however full the queue becomes meanwhile.           *)
THEOREM RunningSlotIsKept == PumpSpec => []SlotUntouched
<1>1. QueueInv => SlotUntouched BY DEF QueueInv, Claimed, SlotUntouched
<1> QED BY <1>1, QueueInvariant, PTL

(* The queue holds as many events as app_sched_init was told, no fewer.    *)
THEOREM QueueHoldsItsSize == PumpSpec => []FullMeansFull
<1>1. QueueInv => FullMeansFull BY FullIff DEF QueueInv, FullMeansFull
<1> QED BY <1>1, QueueInvariant, PTL

-----------------------------------------------------------------------------
FetchOK ==
  /\ fetch = [where |-> fetch.where, i |-> fetch.i, no_more |-> fetch.no_more]
  /\ fetch # NoFetch => fetch.where # NONE

(* An event is owed only while the SoftDevice is on, and SWI2 is enabled   *)
(* only when softdevice_handler_init has set its flag.                     *)
StateOK ==
  /\ owed \subseteq handlers /\ handlers \subseteq Names
  /\ call = "off" => ~sdOn /\ owed = {}
  /\ call \in {"flagged", "on"} => m_softdevice_enabled
  /\ irqEnabled => call = "on"

Expected(s) == irq \/ Scheduled \/ (fetch # NoFetch /\ s \notin fetch.no_more)
NoneStranded == \A s \in owed : Expected(s)

PumpInv == FetchOK /\ StateOK /\ NoneStranded

LEMMA PumpStart == PumpInit => PumpInv
<1> SUFFICES ASSUME PumpInit PROVE PumpInv OBVIOUS
<1>1. FetchOK BY DEF PumpInit, FetchOK, NoFetch
<1>2. StateOK BY DEF PumpInit, StateOK
<1>3. NoneStranded BY DEF PumpInit, NoneStranded
<1> QED BY <1>1, <1>2, <1>3 DEF PumpInv

(* What the queue promises the pump: an event that is scheduled stays so   *)
(* until it is loaded.                                                     *)
LEMMA ScheduledKept ==
  ASSUME QueueInv, Scheduled
  PROVE  /\ UNCHANGED <<given, ran, running>> => Scheduled'
         /\ \A c, what : Reserve(c, what) => Scheduled'
         /\ Return => Scheduled'
         /\ Load => Scheduled' \/ running'.what = "sd"
<1> QueueTypeOK /\ Claimed BY DEF QueueInv
<1>1. PICK k \in (ran + (IF running = NoEvent THEN 1 ELSE 2)) .. Len(given) :
        given[k].what = "sd"
  BY DEF Scheduled
<1>2. k \in 1 .. Len(given) /\ ran \in Nat /\ given \in Seq(Event)
  BY <1>1 DEF QueueTypeOK
<1>3. UNCHANGED <<given, ran, running>> => Scheduled'
  BY <1>1 DEF Scheduled
<1>4. ASSUME NEW c, NEW what, Reserve(c, what) PROVE Scheduled'
  <2>1. PICK e : given' = Append(given, e) BY <1>4 DEF Reserve
  <2>2. Len(given') = Len(given) + 1 /\ given'[k] = given[k]
    BY <1>2, <2>1
  <2>3. UNCHANGED <<ran, running>> BY <1>4 DEF Reserve
  <2> QED BY <1>1, <1>2, <2>2, <2>3 DEF Scheduled
<1>5. ASSUME Return PROVE Scheduled'
  <2>1. running # NoEvent /\ running' = NoEvent /\ ran' = ran + 1 /\ given' = given
    BY <1>5 DEF Return
  <2> QED BY <1>1, <1>2, <2>1 DEF Scheduled
<1>6. ASSUME Load, running'.what # "sd" PROVE Scheduled'
  <2>1. /\ claimed # NONE /\ running = NoEvent /\ running' = headers[claimed]
        /\ given' = given /\ ran' = ran
    BY <1>6 DEF Load
  <2>2. running' = given[ran + 1] BY <2>1 DEF Claimed
  <2>3. k # ran + 1 BY <1>1, <1>6, <2>2
  <2> QED BY <1>1, <1>2, <2>1, <2>3 DEF Scheduled
<1> QED BY <1>3, <1>4, <1>5, <1>6

(* SOFTDEVICE_EVT_IRQHandler schedules a softdevice_evt_get.               *)
LEMMA SchedulesGet ==
  ASSUME QueueInv, NEW c, Reserve(c, "sd")
  PROVE  Scheduled'
<1> QueueTypeOK /\ Ring /\ Claimed BY DEF QueueInv
<1>1. PICK e : given' = Append(given, e) /\ e.what = "sd" BY DEF Reserve
<1>2. /\ Len(given') = Len(given) + 1
      /\ given'[Len(given) + 1].what = "sd"
  BY <1>1 DEF QueueTypeOK
<1>3. UNCHANGED <<ran, running>> BY DEF Reserve
<1>4. ran + (IF running = NoEvent THEN 1 ELSE 2) <= Len(given) + 1
  BY WaitingIs, Constants DEF Ring, Claimed, QueueTypeOK
<1> QED BY <1>2, <1>3, <1>4, WaitingIs DEF Scheduled, QueueTypeOK

(* A loop that starts asks every source that is owed an event.             *)
LEMMA LoopStarts ==
  ASSUME PumpInv, owed # {} => m_softdevice_enabled, NEW c \in {0, 1},
         StartFetch(c), UNCHANGED <<owed, handlers>>
  PROVE  /\ FetchOK'
         /\ \A s \in owed' : fetch' # NoFetch /\ s \notin fetch'.no_more
<1>1. CASE m_softdevice_enabled
  <2>1. fetch' = [where |-> c, i |-> 1, no_more |-> Names \ handlers]
    BY <1>1 DEF StartFetch
  <2>2. fetch' # NoFetch BY <2>1 DEF NoFetch, NONE
  <2>3. FetchOK' BY <2>1 DEF FetchOK, NONE
  <2> QED BY <2>1, <2>2, <2>3 DEF PumpInv, StateOK
<1>2. CASE ~m_softdevice_enabled
  BY <1>2 DEF StartFetch, PumpInv, FetchOK
<1> QED BY <1>1, <1>2

(* A question to one source leaves the loop on duty for the others, and    *)
(* for this one until it has answered that it has no more.                 *)
LEMMA AskStep ==
  ASSUME PumpInv, fetch # NoFetch, Ask
  PROVE  /\ FetchOK' /\ owed' \subseteq owed
         /\ \A s \in owed' : s \notin fetch.no_more =>
                              fetch' # NoFetch /\ s \notin fetch'.no_more
<1> DEFINE a == Sources[fetch.i]
           empty == a \in fetch.no_more \/ pend[a] = 0
           no_more == fetch.no_more \cup (IF empty THEN {a} ELSE {})
           last == fetch.i = Len(Sources)
<1>1. /\ empty => pend' = pend
      /\ owed' = (IF pend'[a] = 0 THEN owed \ {a} ELSE owed)
      /\ fetch' = (IF last /\ no_more = Names THEN NoFetch
                   ELSE [fetch EXCEPT !.i = (IF last THEN 1 ELSE @ + 1),
                                      !.no_more = no_more])
  BY DEF Ask
<1>2. owed \subseteq Names BY DEF PumpInv, StateOK
<1>3. owed' \subseteq owed BY <1>1
<1>4. a \in owed' /\ a \notin fetch.no_more => ~empty BY <1>1
<1>5. ASSUME NEW s \in owed', s \notin fetch.no_more
      PROVE  s \notin no_more /\ s \in Names
  BY <1>2, <1>3, <1>4, <1>5
<1> HIDE DEF no_more
<1>6. CASE last /\ no_more = Names
  <2>1. fetch' = NoFetch BY <1>1, <1>6
  <2> QED BY <2>1, <1>3, <1>5, <1>6 DEF FetchOK, NoFetch
<1>7. CASE ~(last /\ no_more = Names)
  <2>1. PICK i : fetch' = [fetch EXCEPT !.i = i, !.no_more = no_more]
    BY <1>1, <1>7
  <2>2. fetch' = [where |-> fetch.where, i |-> i, no_more |-> no_more]
    BY <2>1 DEF PumpInv, FetchOK
  <2>3. fetch' # NoFetch BY <2>2 DEF PumpInv, FetchOK, NoFetch
  <2> QED BY <2>2, <2>3, <1>3, <1>5 DEF FetchOK, PumpInv
<1> QED BY <1>6, <1>7
-----------------------------------------------------------------------------
LEMMA PumpKept ==
  QueueInv /\ PumpInv /\ [PumpNext \/ PumpReset]_pumpVars => PumpInv'
<1> SUFFICES ASSUME QueueInv, PumpInv, [PumpNext \/ PumpReset]_pumpVars
             PROVE  PumpInv'
  OBVIOUS
<1> FetchOK /\ StateOK /\ NoneStranded BY DEF PumpInv
<1>1. ASSUME UNCHANGED <<given, ran, running>>
      PROVE  Scheduled' <=> Scheduled
  BY <1>1 DEF Scheduled
<1>2. CASE SdInit
  <2>1. StateOK' BY <1>2 DEF SdInit, StateOK
  <2> QED BY <1>1, <1>2, <2>1
          DEF SdInit, schedVars, PumpInv, FetchOK, NoneStranded, Expected
<1>3. CASE SdDisable
  BY <1>3 DEF SdDisable, PumpInv, FetchOK, StateOK, NoneStranded
<1>4. ASSUME NEW s \in Names, HandlerSet(s) PROVE PumpInv'
  BY <1>1, <1>4 DEF HandlerSet, schedVars, PumpInv, FetchOK, StateOK,
                    NoneStranded, Expected
<1>5. ASSUME NEW s \in Names, SdEvent(s) PROVE PumpInv'
  BY <1>5 DEF SdEvent, PumpInv, FetchOK, StateOK, NoneStranded, Expected
<1>6. ASSUME NEW c \in Contexts, AppPut(c) PROVE PumpInv'
  <2>1. UNCHANGED <<sdVars, fetch>> BY <1>6 DEF AppPut
  <2>2. Scheduled => Scheduled' BY <1>6, ScheduledKept DEF AppPut
  <2> QED BY <2>1, <2>2
          DEF sdVars, PumpInv, FetchOK, StateOK, NoneStranded, Expected
<1>7. ASSUME NEW c \in Contexts, PutEnd(c) PROVE PumpInv'
  <2>1. UNCHANGED <<sdVars, fetch, given, ran, running>>
    BY <1>7 DEF PutEnd, Fill
  <2> QED BY <1>1, <2>1
          DEF sdVars, PumpInv, FetchOK, StateOK, NoneStranded, Expected
<1>8. CASE Irq
  <2>1. m_softdevice_enabled BY <1>8 DEF Irq, StateOK
  <2>2. CASE direct /\ StartFetch(1) /\ irq' = FALSE /\ UNCHANGED <<schedVars, irqRest>>
    <3>1. FetchOK' /\ \A s \in owed' : fetch' # NoFetch /\ s \notin fetch'.no_more
      BY <2>1, <2>2, LoopStarts DEF irqRest
    <3>2. StateOK' BY <2>2 DEF irqRest, StateOK
    <3> QED BY <3>1, <3>2 DEF PumpInv, NoneStranded, Expected
  <2>3. CASE Reserve(1, "sd") /\ UNCHANGED <<fetch, irqRest>>
    <3>1. Scheduled' BY <2>3, SchedulesGet
    <3> QED BY <2>3, <3>1
            DEF irqRest, PumpInv, FetchOK, StateOK, NoneStranded, Expected
  <2>4. CASE Fault
    BY <1>1, <2>4 DEF Fault, schedVars, sdVars, PumpInv, FetchOK, StateOK,
                      NoneStranded, Expected
  <2> QED BY <1>8, <2>2, <2>3, <2>4 DEF Irq
<1>9. CASE Fetch
  <2>1. CASE Fault
    BY <1>1, <2>1 DEF Fault, schedVars, sdVars, PumpInv, FetchOK, StateOK,
                      NoneStranded, Expected
  <2>2. CASE Ask /\ UNCHANGED <<schedVars, direct, debug, call,
                     m_softdevice_enabled, sdOn, irq, irqEnabled, handlers,
                     cpu, budget>>
    <3>1. fetch # NoFetch BY <1>9 DEF Fetch
    <3>2. /\ FetchOK' /\ owed' \subseteq owed
          /\ \A s \in owed' : s \notin fetch.no_more =>
                               fetch' # NoFetch /\ s \notin fetch'.no_more
      BY <2>2, <3>1, AskStep
    <3>3. StateOK' BY <2>2, <3>2 DEF StateOK
    <3>4. NoneStranded'
      BY <1>1, <2>2, <3>2 DEF schedVars, NoneStranded, Expected
    <3> QED BY <3>2, <3>3, <3>4 DEF PumpInv
  <2> QED BY <1>9, <2>1, <2>2 DEF Fetch
<1>10. CASE Execute
  <2>1. UNCHANGED sdVars BY <1>10 DEF Execute
  <2>2. StateOK' BY <2>1 DEF sdVars, StateOK
  <2>3. owed # {} => m_softdevice_enabled
    BY <1>10 DEF Execute, MainFree, StateOK
  <2>4. CASE Claim /\ UNCHANGED fetch
    BY <1>1, <2>1, <2>2, <2>4
    DEF Claim, sdVars, PumpInv, FetchOK, NoneStranded, Expected
  <2>5. CASE Return /\ UNCHANGED fetch
    BY <2>1, <2>2, <2>5, ScheduledKept
    DEF sdVars, PumpInv, FetchOK, NoneStranded, Expected
  <2>6. CASE Load /\ running'.what = "sd" /\ StartFetch(0)
    <3>1. FetchOK' /\ \A s \in owed' : fetch' # NoFetch /\ s \notin fetch'.no_more
      BY <2>1, <2>3, <2>6, LoopStarts DEF sdVars
    <3> QED BY <2>2, <3>1 DEF PumpInv, NoneStranded, Expected
  <2>7. CASE Load /\ running'.what # "sd" /\ UNCHANGED fetch
    BY <2>1, <2>2, <2>7, ScheduledKept
    DEF sdVars, PumpInv, FetchOK, NoneStranded, Expected
  <2> QED BY <1>10, <2>4, <2>5, <2>6, <2>7 DEF Execute
<1>11. CASE PumpReset
  BY <1>11 DEF PumpReset, PumpInv, FetchOK, StateOK, NoneStranded, NoFetch
<1>12. CASE UNCHANGED pumpVars
  BY <1>1, <1>12 DEF pumpVars, schedVars, sdVars, PumpInv, FetchOK, StateOK,
                     NoneStranded, Expected
<1> QED
  BY <1>2, <1>3, <1>4, <1>5, <1>6, <1>7, <1>8, <1>9, <1>10, <1>11, <1>12
  DEF PumpNext

(* No event of the SoftDevice that came when its handler was set is left   *)
(* behind: SWI2 is pending, or a softdevice_evt_get is in the queue, or    *)
(* the loop of intern_softdevice_events_execute has not given up its       *)
(* source.  The queue being full is no exception.                          *)
THEOREM NoEventIsStranded == PumpSpec => []NoStrandedEvent
<1>1. PumpInit => PumpInv BY PumpStart
<1>2. PumpInv => NoStrandedEvent
  BY DEF PumpInv, NoneStranded, Expected, NoStrandedEvent
<1> QED BY <1>1, <1>2, PumpKept, QueueInvariant, PTL DEF PumpSpec

-----------------------------------------------------------------------------
(* Types.  The SoftDevice holds no more events than have come.             *)
PumpStates ==
  /\ call \in {"off", "enabled", "flagged", "on"}
  /\ cpu \in {"runs", "reset", "stopped"}
  /\ m_softdevice_enabled \in BOOLEAN /\ sdOn \in BOOLEAN
  /\ irq \in BOOLEAN /\ irqEnabled \in BOOLEAN
  /\ fetch.where \in {NONE, 0, 1} /\ fetch.i \in 1 .. Len(Sources)

BudgetOK ==
  /\ budget = [app |-> budget.app, sd |-> budget.sd, calls |-> budget.calls]
  /\ budget.sd \in Nat /\ budget.sd <= MaxSd
  /\ pend \in [Names -> Nat] /\ \A s \in Names : pend[s] + budget.sd <= MaxSd

PumpTypes == PumpStates /\ BudgetOK

LEMMA PumpTypesStart == PumpInit => PumpTypes
<1> SUFFICES ASSUME PumpInit PROVE PumpTypes OBVIOUS
<1>1. PumpStates
  <2>1. Len(Sources) \in Nat /\ Len(Sources) > 0
    BY SoftDeviceAssumption, LenProperties
  <2>2. fetch.where = NONE /\ fetch.i = 1 BY DEF PumpInit, NoFetch
  <2>3. fetch.where \in {NONE, 0, 1} /\ fetch.i \in 1 .. Len(Sources)
    BY <2>1, <2>2
  <2>4. /\ m_softdevice_enabled = FALSE /\ sdOn = FALSE /\ irq = FALSE
        /\ irqEnabled = FALSE /\ call = "off" /\ cpu = "runs"
    BY DEF PumpInit
  <2>5. /\ m_softdevice_enabled \in BOOLEAN /\ sdOn \in BOOLEAN
        /\ irq \in BOOLEAN /\ irqEnabled \in BOOLEAN
    BY <2>4
  <2> QED BY <2>3, <2>4, <2>5 DEF PumpStates
<1>2. BudgetOK
  <2>1. MaxSd \in Nat BY SoftDeviceAssumption
  <2>2. budget = [app |-> MaxApp, sd |-> MaxSd, calls |-> MaxCalls]
    BY DEF PumpInit
  <2>3. pend = [s \in Names |-> 0] BY DEF PumpInit
  <2> QED BY <2>1, <2>2, <2>3 DEF BudgetOK
<1> QED BY <1>1, <1>2 DEF PumpTypes

LEMMA PumpTypesReset == ASSUME PumpReset PROVE PumpTypes'
<1>1. PumpStates'
  <2>1. Len(Sources) \in Nat /\ Len(Sources) > 0
    BY SoftDeviceAssumption, LenProperties
  <2>2. fetch'.where = NONE /\ fetch'.i = 1 BY DEF PumpReset, NoFetch
  <2>3. fetch'.where \in {NONE, 0, 1} /\ fetch'.i \in 1 .. Len(Sources)
    BY <2>1, <2>2
  <2>4. /\ m_softdevice_enabled' = FALSE /\ sdOn' = FALSE /\ irq' = FALSE
        /\ irqEnabled' = FALSE /\ call' = "off" /\ cpu' = "runs"
    BY DEF PumpReset
  <2>5. /\ m_softdevice_enabled' \in BOOLEAN /\ sdOn' \in BOOLEAN
        /\ irq' \in BOOLEAN /\ irqEnabled' \in BOOLEAN
    BY <2>4
  <2> QED BY <2>3, <2>4, <2>5 DEF PumpStates
<1>2. BudgetOK'
  <2>1. MaxSd \in Nat BY SoftDeviceAssumption
  <2>2. budget' = [app |-> 0, sd |-> 0, calls |-> 0] BY DEF PumpReset
  <2>3. pend' = [s \in Names |-> 0] BY DEF PumpReset
  <2> QED BY <2>1, <2>2, <2>3 DEF BudgetOK
<1> QED BY <1>1, <1>2 DEF PumpTypes

LEMMA BudgetKept ==
  BudgetOK /\ UNCHANGED <<pend, budget>> => BudgetOK'
BY DEF BudgetOK

LEMMA LoopTyped ==
  ASSUME PumpStates, NEW c \in {0, 1}, StartFetch(c)
  PROVE  fetch'.where \in {NONE, 0, 1} /\ fetch'.i \in 1 .. Len(Sources)
<1>1. Len(Sources) \in Nat /\ Len(Sources) > 0
  BY SoftDeviceAssumption, LenProperties
<1> QED BY <1>1 DEF StartFetch, PumpStates

LEMMA AskTyped ==
  ASSUME PumpTypes, FetchOK, Ask, UNCHANGED budget
  PROVE  /\ fetch'.where \in {NONE, 0, 1} /\ fetch'.i \in 1 .. Len(Sources)
         /\ BudgetOK'
<1> DEFINE s == Sources[fetch.i]
           empty == s \in fetch.no_more \/ pend[s] = 0
           no_more == fetch.no_more \cup (IF empty THEN {s} ELSE {})
           last == fetch.i = Len(Sources)
<1>1. /\ pend' = (IF empty THEN pend ELSE [pend EXCEPT ![s] = pend[s] - 1])
      /\ fetch' = (IF last /\ no_more = Names THEN NoFetch
                   ELSE [fetch EXCEPT !.i = (IF last THEN 1 ELSE fetch.i + 1),
                                      !.no_more = no_more])
  BY DEF Ask
<1>2. /\ fetch.where \in {NONE, 0, 1} /\ fetch.i \in 1 .. Len(Sources)
      /\ Len(Sources) \in Nat /\ Len(Sources) > 0
  BY SoftDeviceAssumption, LenProperties DEF PumpTypes, PumpStates
<1>3. s \in Names BY <1>2, SoftDeviceAssumption, ElementOfSeq
<1>4. fetch = [where |-> fetch.where, i |-> fetch.i, no_more |-> fetch.no_more]
  BY DEF FetchOK
<1>5. fetch'.where \in {NONE, 0, 1} /\ fetch'.i \in 1 .. Len(Sources)
  <2> HIDE DEF no_more
  <2>1. CASE fetch' = NoFetch BY <1>2, <2>1 DEF NoFetch
  <2>2. CASE fetch' = [fetch EXCEPT !.i = (IF last THEN 1 ELSE fetch.i + 1),
                                    !.no_more = no_more]
    <3>1. fetch'.where = fetch.where
      BY <1>4, <2>2
    <3>2. fetch'.i = IF last THEN 1 ELSE fetch.i + 1 BY <1>4, <2>2
    <3> QED BY <1>2, <3>1, <3>2
  <2> QED BY <1>1, <2>1, <2>2
<1>6. BudgetOK'
  <2>1. BudgetOK BY DEF PumpTypes
  <2>2. CASE empty BY <1>1, <2>1, <2>2 DEF BudgetOK
  <2>3. CASE ~empty
    <3>1. pend' = [pend EXCEPT ![s] = pend[s] - 1] /\ pend[s] # 0
      BY <1>1, <2>3
    <3> HIDE DEF s, empty
    <3>2. pend[s] \in Nat /\ pend[s] - 1 \in Nat BY <1>3, <2>1, <3>1 DEF BudgetOK
    <3>3. pend' \in [Names -> Nat] BY <2>1, <3>1, <3>2 DEF BudgetOK
    <3>4. \A n \in Names : pend'[n] <= pend[n]
      BY <1>3, <2>1, <3>1, <3>2 DEF BudgetOK
    <3>5. \A n \in Names : pend'[n] + budget.sd <= MaxSd
      BY <2>1, <3>3, <3>4, SoftDeviceAssumption DEF BudgetOK
    <3> QED BY <2>1, <3>3, <3>5 DEF BudgetOK
  <2> QED BY <2>2, <2>3
<1> QED BY <1>5, <1>6

LEMMA PumpTyped ==
  PumpTypes /\ FetchOK /\ [PumpNext \/ PumpReset]_pumpVars => PumpTypes'
<1> SUFFICES ASSUME PumpTypes, FetchOK, [PumpNext \/ PumpReset]_pumpVars
             PROVE  PumpTypes'
  OBVIOUS
<1>1. PumpStates /\ BudgetOK BY DEF PumpTypes
<1>2. CASE SdInit
  <2>1. PumpStates' BY <1>1, <1>2 DEF SdInit, PumpStates
  <2>2. BudgetOK' BY <1>1, <1>2, BudgetKept DEF SdInit
  <2> QED BY <2>1, <2>2 DEF PumpTypes
<1>3. CASE SdDisable
  <2>1. PumpStates' BY <1>1, <1>3 DEF SdDisable, PumpStates
  <2>2. BudgetOK'
    <3>1. /\ budget' = [budget EXCEPT !["calls"] = @ - 1]
          /\ pend' = [s \in Names |-> 0]
      BY <1>3 DEF SdDisable, Spend
    <3>2. /\ budget' = [app |-> budget'.app, sd |-> budget'.sd,
                        calls |-> budget'.calls]
          /\ budget'.sd = budget.sd
      BY <1>1, <3>1 DEF BudgetOK
    <3> QED BY <1>1, <3>1, <3>2 DEF BudgetOK
  <2> QED BY <2>1, <2>2 DEF PumpTypes
<1>4. ASSUME NEW s \in Names, HandlerSet(s) PROVE PumpTypes'
  <2>1. PumpStates' BY <1>1, <1>4 DEF HandlerSet, PumpStates
  <2>2. BudgetOK' BY <1>1, <1>4, BudgetKept DEF HandlerSet
  <2> QED BY <2>1, <2>2 DEF PumpTypes
<1>5. ASSUME NEW s \in Names, SdEvent(s) PROVE PumpTypes'
  <2>1. PumpStates' BY <1>1, <1>5 DEF SdEvent, PumpStates
  <2>2. BudgetOK'
    <3>1. /\ budget' = [budget EXCEPT !["sd"] = @ - 1] /\ budget.sd > 0
          /\ pend' = [pend EXCEPT ![s] = pend[s] + 1]
      BY <1>5 DEF SdEvent, Spend
    <3>2. /\ budget' = [app |-> budget'.app, sd |-> budget'.sd,
                        calls |-> budget'.calls]
          /\ budget'.sd = budget.sd - 1
      BY <1>1, <3>1 DEF BudgetOK
    <3>3. MaxSd \in Nat BY SoftDeviceAssumption
    <3>4. pend' \in [Names -> Nat] BY <1>1, <3>1 DEF BudgetOK
    <3>5. \A n \in Names : pend'[n] <= pend[n] + 1
      BY <1>1, <3>1 DEF BudgetOK
    <3>6. budget'.sd \in Nat /\ budget'.sd <= MaxSd
      BY <1>1, <3>1, <3>2, <3>3 DEF BudgetOK
    <3>7. \A n \in Names : pend'[n] + budget'.sd <= MaxSd
      BY <1>1, <3>2, <3>3, <3>4, <3>5 DEF BudgetOK
    <3> QED BY <3>2, <3>4, <3>6, <3>7 DEF BudgetOK
  <2> QED BY <2>1, <2>2 DEF PumpTypes
<1>6. ASSUME NEW c \in Contexts, AppPut(c) PROVE PumpTypes'
  <2>1. PumpStates' BY <1>1, <1>6 DEF AppPut, sdVars, PumpStates
  <2>2. BudgetOK'
    <3>1. budget' = [budget EXCEPT !["app"] = @ - 1] /\ pend' = pend
      BY <1>6 DEF AppPut, Spend, sdVars
    <3>2. /\ budget' = [app |-> budget'.app, sd |-> budget'.sd,
                        calls |-> budget'.calls]
          /\ budget'.sd = budget.sd
      BY <1>1, <3>1 DEF BudgetOK
    <3> QED BY <1>1, <3>1, <3>2 DEF BudgetOK
  <2> QED BY <2>1, <2>2 DEF PumpTypes
<1>7. ASSUME NEW c \in Contexts, PutEnd(c) PROVE PumpTypes'
  <2>1. PumpStates' BY <1>1, <1>7 DEF PutEnd, sdVars, PumpStates
  <2>2. BudgetOK' BY <1>1, <1>7, BudgetKept DEF PutEnd, sdVars
  <2> QED BY <2>1, <2>2 DEF PumpTypes
<1>8. ASSUME Fault PROVE PumpTypes'
  <2>1. PumpStates' BY <1>1, <1>8 DEF Fault, sdVars, PumpStates
  <2>2. BudgetOK' BY <1>1, <1>8, BudgetKept DEF Fault, sdVars
  <2> QED BY <2>1, <2>2 DEF PumpTypes
<1>9. CASE Irq
  <2>1. CASE StartFetch(1) /\ irq' = FALSE /\ UNCHANGED irqRest
    <3>1. PumpStates' BY <1>1, <2>1, LoopTyped DEF irqRest, PumpStates
    <3>2. BudgetOK' BY <1>1, <2>1, BudgetKept DEF irqRest
    <3> QED BY <3>1, <3>2 DEF PumpTypes
  <2>2. CASE irq' = FALSE /\ UNCHANGED <<fetch, irqRest>>
    <3>1. PumpStates' BY <1>1, <2>2 DEF irqRest, PumpStates
    <3>2. BudgetOK' BY <1>1, <2>2, BudgetKept DEF irqRest
    <3> QED BY <3>1, <3>2 DEF PumpTypes
  <2> QED BY <1>8, <1>9, <2>1, <2>2 DEF Irq
<1>10. CASE Fetch
  <2>1. CASE Ask /\ UNCHANGED <<schedVars, direct, debug, call,
                     m_softdevice_enabled, sdOn, irq, irqEnabled, handlers,
                     cpu, budget>>
    <3>1. PumpStates' BY <1>1, <2>1, AskTyped DEF PumpStates
    <3>2. BudgetOK' BY <2>1, AskTyped
    <3> QED BY <3>1, <3>2 DEF PumpTypes
  <2> QED BY <1>8, <1>10, <2>1 DEF Fetch
<1>11. CASE Execute
  <2>1. UNCHANGED <<sdVars, cpu, budget>> BY <1>11 DEF Execute
  <2>2. BudgetOK' BY <1>1, <2>1, BudgetKept DEF sdVars
  <2>3. fetch' = fetch \/ StartFetch(0) BY <1>11 DEF Execute
  <2>4. fetch'.where \in {NONE, 0, 1} /\ fetch'.i \in 1 .. Len(Sources)
    BY <1>1, <2>3, LoopTyped DEF PumpStates
  <2>5. PumpStates' BY <1>1, <2>1, <2>4 DEF sdVars, PumpStates
  <2> QED BY <2>2, <2>5 DEF PumpTypes
<1>12. CASE PumpReset BY <1>12, PumpTypesReset
<1>13. CASE UNCHANGED pumpVars
  <2>1. PumpStates' BY <1>1, <1>13 DEF pumpVars, sdVars, PumpStates
  <2>2. BudgetOK' BY <1>1, <1>13, BudgetKept DEF pumpVars, sdVars
  <2> QED BY <2>1, <2>2 DEF PumpTypes
<1> QED
  BY <1>2, <1>3, <1>4, <1>5, <1>6, <1>7, <1>9, <1>10, <1>11, <1>12, <1>13
  DEF PumpNext

LEMMA PumpInvariant == PumpSpec => [](PumpInv /\ PumpTypes)
<1>1. PumpInit => PumpInv /\ PumpTypes BY PumpStart, PumpTypesStart
<1>2. PumpInv => FetchOK BY DEF PumpInv
<1> QED BY <1>1, <1>2, PumpKept, PumpTyped, QueueInvariant, PTL DEF PumpSpec

LEMMA PumpTypesHold == PumpSpec => []PumpTypeOK
<1>1. QueueInv /\ PumpInv /\ PumpTypes => PumpTypeOK
  <2> SUFFICES ASSUME QueueTypeOK, StateOK, PumpStates, BudgetOK PROVE PumpTypeOK
    BY DEF QueueInv, PumpInv, PumpTypes
  <2>1. /\ {m_queue_start_index, m_queue_end_index} \subseteq Slots
        /\ claimed \in Slots \cup {NONE}
    BY DEF QueueTypeOK
  <2>2. pend \in [Names -> 0 .. MaxSd]
    <3>1. \A s \in Names : pend[s] \in 0 .. MaxSd
      BY SoftDeviceAssumption DEF BudgetOK
    <3> QED BY <3>1 DEF BudgetOK
  <2>3. handlers \subseteq Names /\ owed \subseteq Names BY DEF StateOK
  <2> QED BY <2>1, <2>2, <2>3 DEF PumpStates, PumpTypeOK
<1> QED BY <1>1, QueueInvariant, PumpInvariant, PTL
-----------------------------------------------------------------------------
(* The chip.                                                               *)

(* Each step of the chip is a step of the event pump, or leaves it alone.  *)
LEMMA DevicePump == [Next]_vars => [PumpNext \/ PumpReset]_pumpVars
<1>1. ASSUME StartsUp \/ Flash \/ Converter \/ Timer \/ Transfer \/ Serial \/ Port
      PROVE  UNCHANGED pumpVars
  BY <1>1 DEF StartsUp, Flash, Converter, Timer, Transfer, Serial, Port
<1>2. Pump => PumpNext BY DEF Pump
<1>3. ErrorReset \/ PowerCut => PumpReset BY DEF ErrorReset, PowerCut
<1>4. UNCHANGED vars => UNCHANGED pumpVars BY DEF vars
<1> QED BY <1>1, <1>2, <1>3, <1>4 DEF Next

(* The chip runs the event pump of SoftDevice.tla: with SystemInit, resets *)
(* and power cuts around it, all that is proved of the pump by itself      *)
(* holds.                                                                  *)
THEOREM PumpInDevice == Spec => PumpSpec
<1>1. Init => PumpInit BY DEF Init
<1> QED BY <1>1, DevicePump, PTL DEF Spec, PumpSpec

-----------------------------------------------------------------------------
(* SystemInit: what it has passed, it has found in force.                  *)
WordStates == {"erased", "programmed", "misset"}
InForce(o) ==
  \A k \in DOMAIN WordsOf(o) :
    \/ inForce[WordsOf(o)[k]] = "programmed"
    \/ WordsOf(o)[k] = "PSELRESET[1]" /\ inForce[WordsOf(o)[k]] = "misset"

(* The words of UICR at any time: the second word of the reset pin is      *)
(* touched only when the first is right.                                   *)
Sound(words) ==
  /\ words["NFCPINS"] # "misset"
  /\ words["PSELRESET[1]"] # "erased" => words["PSELRESET[0]"] = "programmed"

Positions == 0 .. 3

StartupTypeOK ==
  /\ config \subseteq {"nfct", "pinreset"}
  /\ uicr \in [UicrWords -> WordStates]
  /\ inForce \in [UicrWords -> WordStates]
  /\ boot \in [at : Positions, step : Positions, CONFIG : {"Ren", "Wen"},
               applied : BOOLEAN]

StartupInv ==
  /\ StartupTypeOK
  /\ boot.step > 0 => boot.at \in {1, 2}
  /\ boot.step > 0 => boot.step <= Len(WordsOf(Here)) + 1
  /\ boot.at > 0 => boot.applied
  /\ boot.step = 0 => boot.CONFIG = "Ren" /\ uicr = inForce
  /\ Sound(uicr) /\ Sound(inForce)
  /\ boot.at = 2 /\ boot.step > 1 /\ boot.CONFIG = "Wen" =>
       uicr["PSELRESET[0]"] = "programmed"
  /\ \A k \in DOMAIN Options :
       k < boot.at /\ Options[k] \in config => InForce(Options[k])

LEMMA Words ==
  /\ Len(Options) = 2 /\ DOMAIN Options = {1, 2}
  /\ Options[1] = "nfct" /\ Options[2] = "pinreset"
  /\ \A o \in {"nfct", "pinreset"} :
       /\ Len(WordsOf(o)) \in {1, 2}
       /\ DOMAIN WordsOf(o) = 1 .. Len(WordsOf(o))
       /\ \A k \in DOMAIN WordsOf(o) : WordsOf(o)[k] \in UicrWords
  BY DEF Options, WordsOf, UicrWords

LEMMA StartupStart == StartupInit => StartupInv
<1> SUFFICES ASSUME StartupInit PROVE StartupInv OBVIOUS
<1>1. /\ config \subseteq {"nfct", "pinreset"}
      /\ uicr = [w \in UicrWords |-> "erased"] /\ inForce = uicr
      /\ boot = AtReset
  BY DEF StartupInit
<1>2. StartupTypeOK BY <1>1 DEF StartupTypeOK, Positions, AtReset, WordStates
<1>3. Sound(uicr) /\ Sound(inForce) BY <1>1 DEF Sound, UicrWords
<1> QED BY <1>1, <1>2, <1>3, Words DEF StartupInv, AtReset

(* A reset reads the words into force, whatever they are.                  *)
LEMMA StartupReset ==
  ASSUME config' \subseteq {"nfct", "pinreset"},
         NEW words \in [UicrWords -> WordStates], Sound(words), ResetTo(words)
  PROVE  StartupInv'
<1>1. /\ uicr' = words /\ inForce' = words
      /\ boot' = AtReset
  BY DEF ResetTo
<1>2. StartupTypeOK' BY <1>1 DEF StartupTypeOK, Positions, AtReset
<1>3. Sound(uicr)' /\ Sound(inForce)' BY <1>1
<1> QED BY <1>1, <1>2, <1>3, Words DEF StartupInv, AtReset

LEMMA WordAt ==
  ASSUME StartupInv, Programming
  PROVE  /\ Here \in {"nfct", "pinreset"} /\ boot.at \in {1, 2}
         /\ WordsOf(Here)[boot.step] \in UicrWords
         /\ boot.step \in 1 .. Len(WordsOf(Here))
  BY Words DEF Programming, Here

(* Programming a word, in full or in part, keeps the words sound.          *)
LEMMA WordsStaySound ==
  ASSUME StartupInv, Programming, boot.CONFIG = "Wen", NEW v \in WordStates,
         \/ v = uicr[WordsOf(Here)[boot.step]]
         \/ v = "programmed"
         \/ /\ v = "misset" /\ WordsOf(Here)[boot.step] # "NFCPINS"
            /\ uicr[WordsOf(Here)[boot.step]] = "erased"
  PROVE  Sound([uicr EXCEPT ![WordsOf(Here)[boot.step]] = v])
<1>1. uicr \in [UicrWords -> WordStates] /\ Sound(uicr)
  BY DEF StartupInv, StartupTypeOK
<1>2. boot.at \in {1, 2} /\ boot.step \in 1 .. Len(WordsOf(Here)) BY WordAt
<1>3. CASE boot.at = 1
  <2>1. Here = "nfct" BY <1>3, Words DEF Here
  <2>2. WordsOf(Here) = <<"NFCPINS">> BY <2>1 DEF WordsOf
  <2>3. WordsOf(Here)[boot.step] = "NFCPINS" BY <1>2, <2>2
  <2> QED BY <1>1, <2>3 DEF Sound, UicrWords
<1>4. CASE boot.at = 2
  <2>1. Here = "pinreset" BY <1>4, Words DEF Here
  <2>2. WordsOf(Here) = <<"PSELRESET[0]", "PSELRESET[1]">>
    BY <2>1 DEF WordsOf
  <2>3. boot.step \in {1, 2} BY <1>2, <2>2
  <2>4. CASE boot.step = 1
    <3>1. WordsOf(Here)[boot.step] = "PSELRESET[0]" BY <2>2, <2>4
    <3> QED BY <1>1, <3>1 DEF Sound, UicrWords
  <2>5. CASE boot.step = 2
    <3>1. WordsOf(Here)[boot.step] = "PSELRESET[1]" BY <2>2, <2>5
    <3>2. uicr["PSELRESET[0]"] = "programmed" BY <1>4, <2>5 DEF StartupInv
    <3> QED BY <1>1, <3>1, <3>2 DEF Sound, UicrWords
  <2> QED BY <2>3, <2>4, <2>5
<1> QED BY <1>2, <1>3, <1>4

LEMMA CutWords ==
  ASSUME StartupInv, NEW words \in UicrAfterCut
  PROVE  words \in [UicrWords -> WordStates] /\ Sound(words)
<1>1. uicr \in [UicrWords -> WordStates] /\ Sound(uicr)
  BY DEF StartupInv, StartupTypeOK
<1>2. CASE Programming /\ boot.CONFIG = "Wen"
  <2> DEFINE w == WordsOf(Here)[boot.step]
  <2>1. w \in UicrWords BY <1>2, WordAt
  <2>2. uicr[w] \in WordStates BY <1>1, <2>1
  <2>3. PICK v \in {uicr[w], "programmed"} \cup
               (IF w = "NFCPINS" \/ uicr[w] # "erased" THEN {} ELSE {"misset"}) :
          words = [uicr EXCEPT ![w] = v]
    BY <1>2 DEF UicrAfterCut
  <2>4. v \in WordStates BY <2>2, <2>3 DEF WordStates
  <2>5. \/ v = uicr[w] \/ v = "programmed"
        \/ v = "misset" /\ w # "NFCPINS" /\ uicr[w] = "erased"
    BY <2>3
  <2>6. Sound([uicr EXCEPT ![w] = v])
    BY <1>2, <2>4, <2>5, WordsStaySound
  <2> HIDE DEF w
  <2> QED BY <1>1, <2>1, <2>3, <2>4, <2>6
<1>3. CASE ~(Programming /\ boot.CONFIG = "Wen")
  BY <1>1, <1>3 DEF UicrAfterCut
<1> QED BY <1>2, <1>3

(* Words none of which is erased are right, but for the last one.          *)
LEMMA FoundInForce ==
  ASSUME boot.at \in {1, 2}, Sound(inForce),
         inForce \in [UicrWords -> WordStates],
         \A k \in DOMAIN WordsOf(Here) : inForce[WordsOf(Here)[k]] # "erased"
  PROVE  InForce(Here)
<1>1. CASE boot.at = 1
  <2>1. Here = "nfct" BY <1>1, Words DEF Here
  <2>2. WordsOf(Here) = <<"NFCPINS">> BY <2>1 DEF WordsOf
  <2>3. inForce["NFCPINS"] \in WordStates BY DEF UicrWords
  <2>4. inForce["NFCPINS"] = "programmed" BY <2>2, <2>3 DEF Sound, WordStates
  <2> QED BY <2>2, <2>4 DEF InForce
<1>2. CASE boot.at = 2
  <2>1. Here = "pinreset" BY <1>2, Words DEF Here
  <2>2. WordsOf(Here) = <<"PSELRESET[0]", "PSELRESET[1]">>
    BY <2>1 DEF WordsOf
  <2>3. inForce["PSELRESET[1]"] # "erased" BY <2>2
  <2>4. inForce["PSELRESET[1]"] \in WordStates BY DEF UicrWords
  <2>5. inForce["PSELRESET[0]"] = "programmed" BY <2>3 DEF Sound
  <2> QED BY <2>2, <2>3, <2>4, <2>5 DEF InForce, WordStates
<1> QED BY <1>1, <1>2

LEMMA StartupStep == ASSUME StartupInv, StartupNext PROVE StartupInv'
<1>1. StartupTypeOK BY DEF StartupInv
<1>2. /\ boot.at \in Positions /\ boot.step \in Positions
      /\ boot = [at |-> boot.at, step |-> boot.step, CONFIG |-> boot.CONFIG,
                 applied |-> boot.applied]
      /\ boot.CONFIG \in {"Ren", "Wen"} /\ boot.applied \in BOOLEAN
  BY <1>1 DEF StartupTypeOK
<1>3. CASE Workarounds
  <2>1. /\ boot.at = 0 /\ UNCHANGED <<config, uicr, inForce>>
        /\ boot' = [boot EXCEPT !.applied = TRUE, !.at = 1]
    BY <1>3 DEF Workarounds
  <2>2. /\ boot'.at = 1 /\ boot'.applied
        /\ boot'.step = boot.step /\ boot'.CONFIG = boot.CONFIG
    BY <1>2, <2>1
  <2>3. StartupTypeOK'
    <3>1. 1 \in Positions BY DEF Positions
    <3> QED BY <1>1, <2>1, <3>1 DEF StartupTypeOK
  <2> QED BY <2>1, <2>2, <2>3, Words DEF StartupInv, Here, InForce, Sound
<1>4. CASE Test
  <2>1. /\ boot.at \in {1, 2} /\ boot.step = 0
        /\ UNCHANGED <<config, uicr, inForce>>
    BY <1>4, Words DEF Test
  <2>2. /\ boot.CONFIG = "Ren" /\ uicr = inForce /\ boot.applied
        /\ \A k \in DOMAIN Options :
             k < boot.at /\ Options[k] \in config => InForce(Options[k])
    BY <1>2, <2>1 DEF StartupInv
  <2>3. CASE Here \in config /\ Missing(Here)
    <3>1. boot' = [boot EXCEPT !.step = 1, !.CONFIG = "Wen"]
      BY <1>4, <2>3 DEF Test, Open
    <3>2. /\ boot'.at = boot.at /\ boot'.step = 1
          /\ boot'.CONFIG = "Wen" /\ boot'.applied = boot.applied
      BY <1>2, <3>1
    <3>3. StartupTypeOK'
      <4>1. 1 \in Positions BY DEF Positions
      <4> QED BY <1>1, <2>1, <3>1, <4>1 DEF StartupTypeOK
    <3>4. Here' = Here BY <3>2 DEF Here
    <3>5. boot'.step <= Len(WordsOf(Here)) + 1
      <4>1. Len(WordsOf(Here)) \in {1, 2} BY <2>1, Words DEF Here
      <4> QED BY <3>2, <4>1
    <3>6. Sound(uicr)' /\ Sound(inForce)' BY <2>1 DEF StartupInv, Sound
    <3> QED BY <2>1, <2>2, <3>2, <3>3, <3>4, <3>5, <3>6 DEF StartupInv, InForce
  <2>4. CASE ~(Here \in config /\ Missing(Here))
    <3>1. boot' = [boot EXCEPT !.at = @ + 1] BY <1>4, <2>4 DEF Test, Open
    <3>2. /\ boot'.at = boot.at + 1 /\ boot'.step = 0
          /\ boot'.CONFIG = "Ren" /\ boot'.applied = boot.applied
      BY <1>2, <2>1, <2>2, <3>1
    <3>3. StartupTypeOK'
      <4>1. boot.at + 1 \in Positions BY <2>1 DEF Positions
      <4> QED BY <1>1, <2>1, <3>1, <4>1 DEF StartupTypeOK
    <3>4. Here \in config => InForce(Here)
      <4>1. SUFFICES ASSUME ~Missing(Here) PROVE InForce(Here) BY <2>4
      <4>2. \A k \in DOMAIN WordsOf(Here) : inForce[WordsOf(Here)[k]] # "erased"
        BY <2>2, <4>1 DEF Missing
      <4>3. Sound(inForce) /\ inForce \in [UicrWords -> WordStates]
        BY <1>1 DEF StartupInv, StartupTypeOK
      <4> QED BY <2>1, <4>2, <4>3, FoundInForce
    <3>5. ASSUME NEW k \in DOMAIN Options, k < boot'.at, Options[k] \in config
          PROVE  InForce(Options[k])
      <4>1. k < boot.at \/ k = boot.at BY <2>1, <3>2, <3>5, Words
      <4> QED BY <2>2, <3>4, <3>5, <4>1 DEF Here
    <3>6. Sound(uicr)' /\ Sound(inForce)' BY <2>1 DEF StartupInv, Sound
    <3> QED BY <2>1, <2>2, <3>2, <3>3, <3>5, <3>6 DEF StartupInv, InForce
  <2> QED BY <2>3, <2>4
<1>5. CASE Program
  <2>1. Programming /\ UNCHANGED <<config, inForce>> BY <1>5 DEF Program
  <2>2. boot' = [boot EXCEPT !.step = @ + 1] BY <1>5 DEF Program
  <2>3. boot.at \in {1, 2} /\ boot.step \in 1 .. Len(WordsOf(Here))
    BY <2>1, WordAt
  <2>4. Len(WordsOf(Here)) \in {1, 2} BY <2>3, Words DEF Here
  <2>5. /\ boot'.at = boot.at /\ boot'.step = boot.step + 1
        /\ boot'.CONFIG = boot.CONFIG /\ boot'.applied = boot.applied
    BY <1>2, <2>2
  <2>6. uicr' \in [UicrWords -> WordStates]
    BY <1>1, <1>5, <2>1, WordAt DEF Program, StartupTypeOK, WordStates
  <2>7. StartupTypeOK'
    <3>1. boot.step + 1 \in Positions
      <4>1. PICK n \in {1, 2} : n = Len(WordsOf(Here)) BY <2>4
      <4>2. boot.step \in 1 .. n BY <2>3, <4>1
      <4> QED BY <4>2 DEF Positions
    <3> QED BY <1>1, <1>2, <2>1, <2>2, <2>6, <3>1 DEF StartupTypeOK
  <2>8. Here' = Here BY <2>5 DEF Here
  <2>9. boot'.step > 0 /\ boot'.step <= Len(WordsOf(Here)) + 1
    BY <2>3, <2>4, <2>5
  <2>10. Sound(uicr)' /\ Sound(inForce)'
    <3>1. Sound(inForce)' BY <2>1 DEF StartupInv, Sound
    <3>2. CASE boot.CONFIG = "Wen"
      <4>1. uicr' = [uicr EXCEPT ![WordsOf(Here)[boot.step]] = "programmed"]
        BY <1>5, <3>2 DEF Program
      <4>2. "programmed" \in WordStates BY DEF WordStates
      <4>3. Sound(uicr') BY <2>1, <3>2, <4>1, <4>2, WordsStaySound
      <4> QED BY <3>1, <4>3
    <3>3. CASE boot.CONFIG # "Wen"
      <4>1. uicr' = uicr BY <1>5, <3>3 DEF Program
      <4> QED BY <3>1, <4>1 DEF StartupInv, Sound
    <3> QED BY <3>2, <3>3
  <2>11. boot'.at = 2 /\ boot'.step > 1 /\ boot'.CONFIG = "Wen" =>
           uicr'["PSELRESET[0]"] = "programmed"
    <3>1. SUFFICES ASSUME boot.at = 2, boot.CONFIG = "Wen"
                   PROVE  uicr'["PSELRESET[0]"] = "programmed"
      BY <2>5
    <3>2. uicr' = [uicr EXCEPT ![WordsOf(Here)[boot.step]] = "programmed"]
      BY <1>5, <3>1 DEF Program
    <3>3. WordsOf(Here) = <<"PSELRESET[0]", "PSELRESET[1]">>
      BY <3>1, Words DEF WordsOf, Here
    <3>4. uicr \in [UicrWords -> WordStates] BY <1>1 DEF StartupTypeOK
    <3>5. CASE boot.step = 1
      <4>1. WordsOf(Here)[boot.step] = "PSELRESET[0]" BY <3>3, <3>5
      <4> QED BY <3>2, <3>4, <4>1 DEF UicrWords
    <3>6. CASE boot.step # 1
      <4>1. boot.step > 1 BY <2>3, <2>4, <3>6
      <4>2. uicr["PSELRESET[0]"] = "programmed" BY <3>1, <4>1 DEF StartupInv
      <4> QED BY <3>2, <3>4, <4>2 DEF UicrWords
    <3> QED BY <3>5, <3>6
  <2> QED BY <2>1, <2>3, <2>5, <2>7, <2>8, <2>9, <2>10, <2>11
          DEF StartupInv, InForce
<1>6. CASE Close
  <2>1. /\ boot.step > 0 /\ UNCHANGED <<config, uicr, inForce>>
        /\ boot' = [boot EXCEPT !.CONFIG = "Ren"]
    BY <1>6 DEF Close
  <2>2. /\ boot'.at = boot.at /\ boot'.step = boot.step
        /\ boot'.CONFIG = "Ren" /\ boot'.applied = boot.applied
    BY <1>2, <2>1
  <2>3. StartupTypeOK' BY <1>1, <1>2, <2>1 DEF StartupTypeOK
  <2> QED BY <2>1, <2>2, <2>3 DEF StartupInv, Here, InForce, Sound
<1>7. CASE SystemReset
  <2>1. ResetTo(uicr) /\ config' = config BY <1>7 DEF SystemReset
  <2>2. Sound(uicr) BY DEF StartupInv
  <2> QED BY <1>1, <2>1, <2>2, StartupReset DEF StartupTypeOK
<1> QED BY <1>3, <1>4, <1>5, <1>6, <1>7 DEF StartupNext

LEMMA DeviceStartup == ASSUME StartupInv, [Next]_vars PROVE StartupInv'
<1>1. CASE UNCHANGED startupVars
  BY <1>1 DEF startupVars, StartupInv, StartupTypeOK, Here, InForce, Sound
<1>2. CASE ErrorReset
  <2>1. ResetTo(uicr) /\ config' = config BY <1>2 DEF ErrorReset
  <2>2. Sound(uicr) BY DEF StartupInv
  <2> QED BY <2>1, <2>2, StartupReset DEF StartupInv, StartupTypeOK
<1>3. CASE PowerCut
  <2>1. PICK words \in UicrAfterCut : ResetTo(words) BY <1>3 DEF PowerCut
  <2>2. config' = config BY <1>3 DEF PowerCut
  <2> QED BY <2>1, <2>2, CutWords, StartupReset DEF StartupInv, StartupTypeOK
<1>4. CASE StartsUp BY <1>4, StartupStep DEF StartsUp
<1>5. CASE Pump \/ Flash \/ Converter \/ Timer \/ Transfer \/ Serial \/ Port
  BY <1>1, <1>5 DEF Pump, Flash, Converter, Timer, Transfer, Serial, Port, Runs
<1>6. CASE UNCHANGED vars BY <1>1, <1>6 DEF vars
<1> QED BY <1>2, <1>3, <1>4, <1>5, <1>6 DEF Next

(* In main every option of the build is in force, the workarounds are      *)
(* applied and the flash is read-only, whenever the power was cut before,  *)
(* but for a PSELRESET[1] cut off halfway: SystemInit (system_nrf52.c:     *)
(* 173-199) tests, programs and resets, and what it tests is CONNECT.      *)
THEOREM OptionsInForce == Spec => []ConfiguredUnlessTorn
<1>1. Init => StartupInv BY StartupStart DEF Init
<1>2. StartupInv => ConfiguredUnlessTorn
  <2> SUFFICES ASSUME StartupInv, InMain PROVE ConfiguredUnlessTorn
    BY DEF ConfiguredUnlessTorn
  <2>1. boot.at = 3 /\ boot.step = 0
    BY Words DEF InMain, StartupInv, StartupTypeOK, Positions
  <2>2. boot.applied /\ boot.CONFIG = "Ren" BY <2>1 DEF StartupInv
  <2>3. \A o \in config : InForce(o)
    <3>1. \A k \in {1, 2} : Options[k] \in config => InForce(Options[k])
      BY <2>1, Words DEF StartupInv
    <3>2. \A o \in config : o = Options[1] \/ o = Options[2]
      BY Words DEF StartupInv, StartupTypeOK
    <3> QED BY <3>1, <3>2
  <2> QED BY <2>2, <2>3 DEF ConfiguredUnlessTorn, InForce
<1> QED BY <1>1, <1>2, DeviceStartup, PTL DEF Spec

-----------------------------------------------------------------------------
(* SAADC: flag and PTR say which of the two buffers is being filled.       *)
SaadcTypeOK ==
  saadc \in [pc : {"off", "main", "started", "end"}, flag : {0, 1},
             PTR : {0, 1, 2}, latched : {0, 1, 2}, converting : BOOLEAN,
             STARTED : BOOLEAN, END : BOOLEAN, full : {0, 1, 2}]

(* The buffer START took over last, before and after STARTED is served.    *)
Follows(s) ==
  \/ s.latched = 1 /\ s.STARTED /\ s.flag = 0 /\ s.PTR = 1
  \/ s.latched = 1 /\ ~s.STARTED /\ s.flag = 1 /\ s.PTR = 2
  \/ s.latched = 2 /\ s.STARTED /\ s.flag = 1 /\ s.PTR = 2
  \/ s.latched = 2 /\ ~s.STARTED /\ s.flag = 0 /\ s.PTR = 1

Filling(s) ==
  IF s.END THEN ~s.converting /\ s.full = s.latched
  ELSE s.converting /\ s.full # s.latched

SaadcInv ==
  /\ SaadcTypeOK
  /\ saadc.pc = "off" => saadc = SaadcOff
  /\ saadc.pc = "end" => ~saadc.STARTED
  /\ saadc.pc # "off" => Follows(saadc) /\ Filling(saadc)

LEMMA SaadcStep == ASSUME SaadcInv, SaadcNext PROVE SaadcInv'
<1>1. SaadcTypeOK BY DEF SaadcInv
<1> DEFINE s == saadc
<1>2. CASE SAADCInit
  <2>1. saadc' = TaskStart([SaadcOff EXCEPT !.pc = "main", !.PTR = 1])
    BY <1>2 DEF SAADCInit, SaadcInv
  <2>2. saadc' = [pc |-> "main", flag |-> 0, PTR |-> 1, latched |-> 1,
                  converting |-> TRUE, STARTED |-> TRUE, END |-> FALSE, full |-> 0]
    BY <2>1 DEF TaskStart, SaadcOff
  <2> QED BY <2>2 DEF SaadcInv, SaadcTypeOK, Follows, Filling
<1>3. CASE BufferFull
  <2>1. s.pc # "off" /\ s.converting
    BY <1>3 DEF BufferFull, SaadcInv, SaadcOff
  <2>2. saadc' = [saadc EXCEPT !.converting = FALSE, !.END = TRUE,
                               !.full = saadc.latched]
    BY <1>3 DEF BufferFull
  <2>3. SaadcTypeOK' BY <1>1, <2>2 DEF SaadcTypeOK
  <2>4. /\ s'.pc = s.pc /\ s'.flag = s.flag /\ s'.PTR = s.PTR
        /\ s'.latched = s.latched /\ s'.STARTED = s.STARTED
        /\ s'.END /\ ~s'.converting /\ s'.full = s.latched
    BY <1>1, <2>2 DEF SaadcTypeOK
  <2> QED BY <2>1, <2>3, <2>4 DEF SaadcInv, Follows, Filling
<1>4. CASE SaadcInterrupt
  <2>1. s.pc # "off" /\ saadc' = [saadc EXCEPT !.pc = "started"]
    BY <1>4 DEF SaadcInterrupt
  <2>2. SaadcTypeOK' BY <1>1, <2>1 DEF SaadcTypeOK
  <2>3. /\ s'.flag = s.flag /\ s'.PTR = s.PTR /\ s'.full = s.full
        /\ s'.latched = s.latched /\ s'.STARTED = s.STARTED
        /\ s'.END = s.END /\ s'.converting = s.converting /\ s'.pc = "started"
    BY <1>1, <2>1 DEF SaadcTypeOK
  <2> QED BY <2>1, <2>2, <2>3 DEF SaadcInv, Follows, Filling
<1>5. CASE StartedBranch
  <2>1. s.pc # "off" BY <1>5 DEF StartedBranch
  <2>2. CASE ~s.STARTED
    <3>1. saadc' = [saadc EXCEPT !.pc = "end"] BY <1>5, <2>2 DEF StartedBranch
    <3>2. SaadcTypeOK' BY <1>1, <3>1 DEF SaadcTypeOK
    <3>3. /\ s'.flag = s.flag /\ s'.PTR = s.PTR /\ s'.full = s.full
          /\ s'.latched = s.latched /\ s'.STARTED = s.STARTED
          /\ s'.END = s.END /\ s'.converting = s.converting /\ s'.pc = "end"
      BY <1>1, <3>1 DEF SaadcTypeOK
    <3> QED BY <2>1, <2>2, <3>2, <3>3 DEF SaadcInv, Follows, Filling
  <2>3. CASE s.STARTED
    <3>1. PICK f \in {0, 1}, p \in {1, 2} :
            /\ f = 1 - s.flag /\ p = (IF s.flag = 1 THEN 1 ELSE 2)
            /\ saadc' = [[saadc EXCEPT !.STARTED = FALSE, !.flag = f, !.PTR = p]
                          EXCEPT !.pc = "end"]
      <4>1. s.flag \in {0, 1} BY <1>1 DEF SaadcTypeOK
      <4>2. 1 - s.flag \in {0, 1} BY <4>1
      <4> QED BY <1>1, <1>5, <2>3, <4>2 DEF StartedBranch, SaadcTypeOK
    <3>2. SaadcTypeOK' BY <1>1, <3>1 DEF SaadcTypeOK
    <3>3. /\ s'.flag = f /\ s'.PTR = p /\ s'.full = s.full
          /\ s'.latched = s.latched /\ ~s'.STARTED
          /\ s'.END = s.END /\ s'.converting = s.converting /\ s'.pc = "end"
      BY <1>1, <3>1 DEF SaadcTypeOK
    <3>4. \/ s.flag = 0 /\ f = 1 /\ p = 2
          \/ s.flag = 1 /\ f = 0 /\ p = 1
      BY <1>1, <3>1 DEF SaadcTypeOK
    <3> QED BY <2>1, <2>3, <3>2, <3>3, <3>4 DEF SaadcInv, Follows, Filling
  <2> QED BY <2>2, <2>3
<1>6. CASE EndBranch
  <2>1. s.pc # "off" /\ ~s.STARTED BY <1>6 DEF EndBranch, SaadcInv
  <2>2. CASE ~s.END
    <3>1. saadc' = [saadc EXCEPT !.pc = "main"] BY <1>6, <2>2 DEF EndBranch
    <3>2. SaadcTypeOK' BY <1>1, <3>1 DEF SaadcTypeOK
    <3>3. /\ s'.flag = s.flag /\ s'.PTR = s.PTR /\ s'.full = s.full
          /\ s'.latched = s.latched /\ s'.STARTED = s.STARTED
          /\ s'.END = s.END /\ s'.converting = s.converting /\ s'.pc = "main"
      BY <1>1, <3>1 DEF SaadcTypeOK
    <3> QED BY <2>1, <2>2, <3>2, <3>3 DEF SaadcInv, Follows, Filling
  <2>3. CASE s.END
    <3>1. saadc' = [saadc EXCEPT !.END = FALSE, !.latched = saadc.PTR,
                      !.converting = TRUE, !.STARTED = TRUE, !.pc = "main"]
      BY <1>1, <1>6, <2>3 DEF EndBranch, TaskStart, SaadcTypeOK
    <3>2. SaadcTypeOK' BY <1>1, <3>1 DEF SaadcTypeOK
    <3>3. /\ s'.flag = s.flag /\ s'.PTR = s.PTR /\ s'.full = s.full
          /\ s'.latched = s.PTR /\ s'.STARTED /\ ~s'.END /\ s'.converting
          /\ s'.pc = "main"
      BY <1>1, <3>1 DEF SaadcTypeOK
    <3> QED BY <2>1, <2>3, <3>2, <3>3 DEF SaadcInv, Follows, Filling
  <2> QED BY <2>2, <2>3
<1> QED BY <1>2, <1>3, <1>4, <1>5, <1>6 DEF SaadcNext

LEMMA DeviceSaadc == ASSUME SaadcInv, [Next]_vars PROVE SaadcInv'
<1>1. CASE UNCHANGED saadc BY <1>1 DEF SaadcInv, SaadcTypeOK
<1>2. CASE PowerCut
  BY <1>2 DEF PowerCut, SaadcInv, SaadcTypeOK, SaadcOff
<1>3. CASE Converter BY <1>3, SaadcStep DEF Converter
<1>4. CASE StartsUp \/ ErrorReset \/ Pump \/ Flash
  BY <1>1, <1>4 DEF StartsUp, ErrorReset, Pump, Flash, drivers
<1>5. CASE Timer \/ Transfer \/ Serial \/ Port
  BY <1>1, <1>5 DEF Timer, Transfer, Serial, Port
<1>6. CASE UNCHANGED vars BY <1>1, <1>6 DEF vars, drivers
<1> QED BY <1>2, <1>3, <1>4, <1>5, <1>6 DEF Next

(* The converter never fills the buffer it has filled last, however late   *)
(* SAADC_IRQHandler (adc.c:62-95) serves STARTED and END: flag and PTR     *)
(* follow the buffer that is latched.                                      *)
THEOREM BuffersAlternate == Spec => []NeverOverwritten
<1>1. Init => SaadcInv
  BY DEF Init, SaadcInit, SaadcInv, SaadcTypeOK, SaadcOff
<1>2. SaadcInv => NeverOverwritten
  BY DEF SaadcInv, NeverOverwritten, SaadcOff, Filling
<1> QED BY <1>1, <1>2, DeviceSaadc, PTL DEF Spec

-----------------------------------------------------------------------------
(* SPI: the answers on their way, and which of them the caller waits for.  *)
OnTheWay(in, out) == spi.RXD = in /\ spi.TXD = out
Announced == spi.READY <=> spi.RXD # <<>>
S == "status"
V == "value"

SpiTypeOK ==
  /\ spi = [pc |-> spi.pc, SS |-> spi.SS, TXD |-> spi.TXD, RXD |-> spi.RXD,
            READY |-> spi.READY, data |-> spi.data]
  /\ spi.READY \in BOOLEAN

Answers ==
  \/ spi.pc \in {"off", "idle", "address", "release"} /\ OnTheWay(<<>>, <<>>)
  \/ spi.pc = "data" /\ (OnTheWay(<<>>, <<S>>) \/ OnTheWay(<<S>>, <<>>))
  \/ spi.pc = "wait 1" /\ \/ OnTheWay(<<>>, <<S, V>>)
                          \/ OnTheWay(<<S>>, <<V>>)
                          \/ OnTheWay(<<S, V>>, <<>>)
  \/ spi.pc = "get 1" /\ \/ OnTheWay(<<S>>, <<V>>)
                         \/ OnTheWay(<<S, V>>, <<>>)
  \/ spi.pc = "wait 2" /\ (OnTheWay(<<>>, <<V>>) \/ OnTheWay(<<V>>, <<>>))
  \/ spi.pc = "get 2" /\ OnTheWay(<<V>>, <<>>)

SpiInv ==
  /\ SpiTypeOK
  /\ Answers
  /\ spi.pc \in {"address", "data", "wait 1", "wait 2"} => Announced
  /\ spi.pc = "get 1" => ~spi.READY
  /\ spi.pc \in {"off", "idle"} => spi.data \in {"none", "value"}
  /\ spi.pc = "release" => spi.data = "value"
  /\ spi.pc \notin {"off", "idle"} => spi.SS = 0

LEMMA Second ==
  ASSUME NEW T, NEW a \in T, NEW e \in T
  PROVE  Append(<<a>>, e) = <<a, e>>
<1> DEFINE s == Append(<<a>>, e)  t == <<a, e>>
<1>1. <<a>> \in Seq(T) /\ t \in Seq(T) OBVIOUS
<1>2. s \in Seq(T) BY <1>1
<1>3. Len(s) = 2 /\ Len(t) = 2 BY <1>1
<1>4. s[1] = a /\ s[2] = e BY <1>1
<1>5. t[1] = a /\ t[2] = e OBVIOUS
<1>6. \A k \in 1 .. Len(s) : s[k] = t[k] BY <1>3, <1>4, <1>5
<1>7. t \in Seq(T) BY <1>1
<1> HIDE DEF s, t
<1>8. s = t BY <1>2, <1>3, <1>6, <1>7, SeqEqual
<1> QED BY <1>8 DEF s, t

LEMMA Bytes ==
  /\ Append(<<>>, S) = <<S>> /\ Append(<<>>, V) = <<V>>
  /\ Append(<<S>>, V) = <<S, V>>
  /\ Head(<<S>>) = S /\ Head(<<V>>) = V /\ Head(<<S, V>>) = S
  /\ Tail(<<S>>) = <<>> /\ Tail(<<V>>) = <<>> /\ Tail(<<S, V>>) = <<V>>
  /\ <<S>> # <<>> /\ <<V>> # <<>> /\ <<S, V>> # <<>>
  /\ ~(Len(<<S, V>>) < 2)
<1>1. Append(<<S>>, V) = <<S, V>>
  <2>1. S \in {S, V} /\ V \in {S, V} OBVIOUS
  <2> QED BY <2>1, Second
<1>2. ~(Len(<<S, V>>) < 2) OBVIOUS
<1>3. Append(<<>>, S) = <<S>> /\ Append(<<>>, V) = <<V>> BY DEF S, V
<1>4. Head(<<S>>) = S /\ Head(<<V>>) = V /\ Head(<<S, V>>) = S BY DEF S, V
<1>5. /\ Tail(<<S>>) = <<>> /\ Tail(<<V>>) = <<>>
      /\ Tail(<<S, V>>) = <<V>>
  BY DEF S, V
<1>6. <<S>> # <<>> /\ <<V>> # <<>> /\ <<S, V>> # <<>> OBVIOUS
<1> QED BY <1>1, <1>2, <1>3, <1>4, <1>5, <1>6

LEMMA SpiStep == ASSUME SpiInv, SpiNext PROVE SpiInv'
<1>1. SpiTypeOK /\ Answers BY DEF SpiInv
<1> DEFINE s == spi
<1>2. CASE SPI0Init
  <2>1. s.pc = "off" /\ spi' = [spi EXCEPT !.pc = "idle"]
    BY <1>2 DEF SPI0Init, At
  <2>2. /\ s'.pc = "idle" /\ s'.RXD = s.RXD /\ s'.TXD = s.TXD
        /\ s'.data = s.data /\ SpiTypeOK'
    BY <1>1, <2>1 DEF SpiTypeOK
  <2> QED BY <1>1, <2>1, <2>2 DEF SpiInv, Answers, OnTheWay
<1>3. CASE TransferBegin
  <2>1. /\ s.pc = "idle"
        /\ spi' = [spi EXCEPT !.pc = "address", !.READY = FALSE, !.SS = 0]
    BY <1>1, <1>3 DEF TransferBegin, At, SpiTypeOK
  <2>2. /\ s'.pc = "address" /\ s'.RXD = s.RXD /\ s'.TXD = s.TXD
        /\ s'.READY = FALSE /\ s'.SS = 0 /\ SpiTypeOK'
    BY <1>1, <2>1 DEF SpiTypeOK
  <2> QED BY <1>1, <2>1, <2>2 DEF SpiInv, Answers, OnTheWay, Announced
<1>4. CASE SetTXDs
  <2>1. CASE s.pc = "address"
    <3>1. spi' = [spi EXCEPT !.pc = "data", !.TXD = Append(s.TXD, S)]
      BY <1>1, <1>4, <2>1 DEF SetTXDs, At, SpiTypeOK, S
    <3>2. /\ s'.pc = "data" /\ s'.RXD = s.RXD /\ s'.TXD = Append(s.TXD, S)
          /\ s'.READY = s.READY /\ s'.SS = s.SS /\ SpiTypeOK'
      BY <1>1, <3>1 DEF SpiTypeOK
    <3> QED BY <1>1, <2>1, <3>2, Bytes
            DEF SpiInv, Answers, OnTheWay, Announced
  <2>2. CASE s.pc = "data"
    <3>1. spi' = [spi EXCEPT !.pc = "wait 1", !.TXD = Append(s.TXD, V)]
      BY <1>1, <1>4, <2>2 DEF SetTXDs, At, SpiTypeOK, V
    <3>2. /\ s'.pc = "wait 1" /\ s'.RXD = s.RXD /\ s'.TXD = Append(s.TXD, V)
          /\ s'.READY = s.READY /\ s'.SS = s.SS /\ SpiTypeOK'
      BY <1>1, <3>1 DEF SpiTypeOK
    <3> QED BY <1>1, <2>2, <3>2, Bytes
            DEF SpiInv, Answers, OnTheWay, Announced
  <2> QED BY <1>4, <2>1, <2>2 DEF SetTXDs
<1>5. ASSUME NEW from, NEW to, Wait(from, to),
             <<from, to>> \in {<<"wait 1", "get 1">>, <<"wait 2", "get 2">>}
      PROVE  SpiInv'
  <2>1. /\ s.pc = from /\ s.READY
        /\ spi' = [spi EXCEPT !.pc = to, !.READY = FALSE]
    BY <1>1, <1>5 DEF Wait, At, SpiTypeOK
  <2>2. /\ s'.pc = to /\ s'.RXD = s.RXD /\ s'.TXD = s.TXD
        /\ s'.READY = FALSE /\ s'.SS = s.SS /\ SpiTypeOK'
    BY <1>1, <2>1 DEF SpiTypeOK
  <2> QED BY <1>1, <1>5, <2>1, <2>2 DEF SpiInv, Answers, OnTheWay, Announced
<1>6. ASSUME NEW from, NEW to, Get(from, to),
             <<from, to>> \in {<<"get 1", "wait 2">>, <<"get 2", "release">>}
      PROVE  SpiInv'
  <2>1. s.RXD # <<>> /\ Received = Head(s.RXD) /\ Rest = Tail(s.RXD)
    BY <1>1, <1>6, Bytes DEF Get, Answers, OnTheWay, Received, Rest
  <2>2. /\ s.pc = from
        /\ spi' = [spi EXCEPT !.pc = to, !.RXD = Tail(s.RXD),
             !.READY = s.READY \/ Tail(s.RXD) # <<>>, !.data = Head(s.RXD)]
    BY <1>1, <1>6, <2>1 DEF Get, At, SpiTypeOK
  <2>3. /\ s'.pc = to /\ s'.RXD = Tail(s.RXD) /\ s'.TXD = s.TXD
        /\ s'.READY = (s.READY \/ Tail(s.RXD) # <<>>) /\ s'.SS = s.SS
        /\ s'.data = Head(s.RXD) /\ SpiTypeOK'
    BY <1>1, <2>2 DEF SpiTypeOK
  <2>4. CASE from = "get 1" /\ to = "wait 2"
    BY <1>1, <2>2, <2>3, <2>4, Bytes
    DEF SpiInv, Answers, OnTheWay, Announced
  <2>5. CASE from = "get 2" /\ to = "release"
    BY <1>1, <2>2, <2>3, <2>5, Bytes
    DEF SpiInv, Answers, OnTheWay, V
  <2> QED BY <1>6, <2>4, <2>5
<1>7. CASE TransferEnd
  <2>1. /\ s.pc = "release"
        /\ spi' = [spi EXCEPT !.pc = "idle", !.SS = 1]
    BY <1>1, <1>7 DEF TransferEnd, At, SpiTypeOK
  <2>2. /\ s'.pc = "idle" /\ s'.RXD = s.RXD /\ s'.TXD = s.TXD
        /\ s'.data = s.data /\ SpiTypeOK'
    BY <1>1, <2>1 DEF SpiTypeOK
  <2> QED BY <1>1, <2>1, <2>2 DEF SpiInv, Answers, OnTheWay
<1>8. CASE Shift
  <2>1. /\ s.TXD # <<>> /\ Len(s.RXD) < 2
        /\ spi' = [spi EXCEPT !.TXD = Tail(s.TXD),
             !.RXD = Append(s.RXD, Head(s.TXD)),
             !.READY = s.READY \/ s.RXD = <<>>]
    BY <1>1, <1>8 DEF Shift, SpiTypeOK
  <2>2. /\ s'.pc = s.pc /\ s'.RXD = Append(s.RXD, Head(s.TXD))
        /\ s'.TXD = Tail(s.TXD) /\ s'.READY = (s.READY \/ s.RXD = <<>>)
        /\ s'.SS = s.SS /\ s'.data = s.data /\ SpiTypeOK'
    BY <1>1, <2>1 DEF SpiTypeOK
  <2>3. /\ s.RXD # <<S, V>>
        /\ s.pc = "get 1" => s.RXD # <<>>
    BY <1>1, <2>1, Bytes DEF Answers, OnTheWay
  <2>4. Answers'
    BY <1>1, <2>1, <2>2, <2>3, Bytes DEF Answers, OnTheWay
  <2>5. s'.RXD # <<>>
    BY <2>4, <1>1, <2>1, <2>2, <2>3, Bytes DEF Answers, OnTheWay
  <2>6. s'.pc = "get 1" => ~s'.READY BY <2>2, <2>3 DEF SpiInv
  <2>7. /\ s'.pc \in {"address", "data", "wait 1", "wait 2"} => s'.READY
        /\ s'.pc \notin {"off", "idle"} => s'.SS = 0
    BY <2>2 DEF SpiInv, Announced
  <2>8. s'.pc \notin {"off", "idle", "release"}
    BY <1>1, <2>1, <2>2 DEF Answers, OnTheWay
  <2>9. s'.pc \in {"address", "data", "wait 1", "wait 2"} => Announced'
    BY <2>5, <2>7 DEF Announced
  <2> QED BY <2>2, <2>4, <2>6, <2>7, <2>8, <2>9 DEF SpiInv
<1> QED BY <1>2, <1>3, <1>4, <1>5, <1>6, <1>7, <1>8 DEF SpiNext, TransferSPI

LEMMA DeviceSpi == ASSUME SpiInv, [Next]_vars PROVE SpiInv'
<1>1. CASE UNCHANGED spi
  BY <1>1 DEF SpiInv, SpiTypeOK, Answers, OnTheWay, Announced
<1>2. CASE PowerCut
  BY <1>2 DEF PowerCut, SpiInv, SpiTypeOK, Answers, OnTheWay, SpiOff
<1>3. CASE Transfer BY <1>3, SpiStep DEF Transfer
<1>4. CASE StartsUp \/ ErrorReset \/ Pump \/ Flash
  BY <1>1, <1>4 DEF StartsUp, ErrorReset, Pump, Flash, drivers
<1>5. CASE Converter \/ Timer \/ Serial \/ Port
  BY <1>1, <1>5 DEF Converter, Timer, Serial, Port
<1>6. CASE UNCHANGED vars BY <1>1, <1>6 DEF vars, drivers
<1> QED BY <1>2, <1>3, <1>4, <1>5, <1>6 DEF Next

-----------------------------------------------------------------------------
(* app_uart: what the driver reported against what the application heard.  *)
AppUartTypeOK ==
  /\ appUart = [open |-> appUart.open, rx_done |-> appUart.rx_done,
       rx_buffer |-> appUart.rx_buffer, tx_buffer |-> appUart.tx_buffer,
       armed |-> appUart.armed, event |-> appUart.event, pc |-> appUart.pc,
       value |-> appUart.value, dma |-> appUart.dma, busy |-> appUart.busy,
       came |-> appUart.came, heard |-> appUart.heard, told |-> appUart.told,
       emptied |-> appUart.emptied, puts |-> appUart.puts,
       taken |-> appUart.taken, wire |-> appUart.wire]
  /\ appUart.open \in BOOLEAN /\ appUart.armed \in BOOLEAN
  /\ appUart.dma \in BOOLEAN /\ appUart.rx_done \in BOOLEAN
  /\ appUart.event \in {"none", "rx", "error"}
  /\ appUart.pc \in {"idle", "rx", "error", "tell"}
  /\ appUart.busy \in {"no", "started", "sending"}

(* Ranks of bytes: the one in the buffer was heard, no other is newer.     *)
NewestFirst ==
  \A k \in 1 .. Len(appUart.told) : appUart.told[k] <= appUart.rx_buffer
BufferHeard ==
  \E k \in 1 .. Len(appUart.heard) : appUart.heard[k] = appUart.rx_buffer

Ranks ==
  /\ appUart.rx_buffer \in Nat /\ appUart.value \in Nat /\ appUart.came \in Nat
  /\ appUart.heard \in Seq(Nat) /\ appUart.told \in Seq(Nat)
  /\ appUart.rx_buffer <= appUart.came /\ appUart.value <= appUart.rx_buffer
  /\ NewestFirst
  /\ appUart.rx_buffer # 0 => BufferHeard

(* Where the handler is, and whether a byte may come in meanwhile.         *)
HandlerOK ==
  /\ appUart.event # "none" => ~appUart.armed
  /\ appUart.pc \in {"rx", "error"} => appUart.event = "none" /\ ~appUart.armed
  /\ ~appUart.open =>
       appUart.pc = "idle" /\ appUart.event = "none" /\ ~appUart.armed

AllHeard ==
  appUart.open => appUart.heard = WithBuffer(WithHand(appUart.told))

(* What is sent is what was taken, and each byte that is out was told.     *)
Emptied ==
  appUart.open => appUart.emptied =
    Len(appUart.wire) - (IF appUart.busy = "sending" THEN 1 ELSE 0)

Sent ==
  /\ appUart.puts \in Nat /\ appUart.tx_buffer \in Nat
  /\ appUart.wire \in Seq(Nat)
  /\ appUart.busy = "started" => appUart.dma
  /\ ~appUart.dma => appUart.wire = appUart.taken
  /\ Emptied

AppUartInv == AppUartTypeOK /\ Ranks /\ HandlerOK /\ AllHeard /\ Sent

(* The steps of one side leave the other alone.                            *)
Receiver == <<appUart.open, appUart.rx_done, appUart.rx_buffer, appUart.armed,
              appUart.event, appUart.pc, appUart.value, appUart.came,
              appUart.heard, appUart.told>>
Sender == <<appUart.open, appUart.tx_buffer, appUart.dma, appUart.busy,
            appUart.puts, appUart.taken, appUart.wire, appUart.emptied>>

LEMMA ReceiverKept ==
  ASSUME Ranks, HandlerOK, AllHeard, UNCHANGED Receiver
  PROVE  Ranks' /\ HandlerOK' /\ AllHeard'
<1>1. Ranks' BY DEF Receiver, Ranks, NewestFirst, BufferHeard
<1>2. HandlerOK' BY DEF Receiver, HandlerOK
<1>3. AllHeard' BY DEF Receiver, AllHeard, WithBuffer, WithHand, Reported
<1> QED BY <1>1, <1>2, <1>3

LEMMA SenderKept == ASSUME Sent, UNCHANGED Sender PROVE Sent'
  BY DEF Sender, Sent, Emptied

(* A new start, closed or open: only the line and the caller remember.     *)
Fresh ==
  /\ appUart = [open |-> appUart.open, rx_done |-> appUart.rx_done,
       rx_buffer |-> appUart.rx_buffer, tx_buffer |-> appUart.tx_buffer,
       armed |-> appUart.armed, event |-> appUart.event, pc |-> appUart.pc,
       value |-> appUart.value, dma |-> appUart.dma, busy |-> appUart.busy,
       came |-> appUart.came, heard |-> appUart.heard, told |-> appUart.told,
       emptied |-> appUart.emptied, puts |-> appUart.puts,
       taken |-> appUart.taken, wire |-> appUart.wire]
  /\ appUart.armed = appUart.open /\ appUart.rx_done = FALSE
  /\ appUart.event = "none" /\ appUart.pc = "idle" /\ appUart.busy = "no"
  /\ appUart.wire = <<>> /\ appUart.taken = <<>>
  /\ appUart.heard = <<>> /\ appUart.told = <<>> /\ appUart.emptied = 0
  /\ appUart.rx_buffer = 0 /\ appUart.value = 0 /\ appUart.tx_buffer = 0
  /\ appUart.open \in BOOLEAN /\ appUart.dma \in BOOLEAN

LEMMA FreshStart ==
  Fresh /\ appUart.came \in Nat /\ appUart.puts \in Nat => AppUartInv
<1> SUFFICES ASSUME Fresh, appUart.came \in Nat, appUart.puts \in Nat
             PROVE  AppUartInv
  OBVIOUS
<1>1. AppUartTypeOK BY DEF AppUartTypeOK, Fresh
<1>2. <<>> \in Seq(Nat) /\ Len(<<>>) = 0 OBVIOUS
<1>3. Ranks BY <1>2 DEF Ranks, NewestFirst, Fresh
<1>4. HandlerOK BY DEF HandlerOK, Fresh
<1>5. AllHeard BY DEF AllHeard, WithBuffer, WithHand, Fresh
<1>6. Sent BY <1>2 DEF Sent, Emptied, Fresh
<1> QED BY <1>1, <1>3, <1>4, <1>5, <1>6 DEF AppUartInv

LEMMA Restarted ==
  ASSUME AppUartInv, Fresh', appUart'.came = appUart.came,
         appUart'.puts = appUart.puts
  PROVE  AppUartInv'
<1>1. (Fresh /\ appUart.came \in Nat /\ appUart.puts \in Nat)'
  BY DEF AppUartInv, Ranks, Sent
<1> QED BY <1>1, FreshStart, PTL

LEMMA AppUartStep == ASSUME AppUartInv, AppUartNext PROVE AppUartInv'
<1>1. AppUartTypeOK /\ Ranks /\ HandlerOK /\ AllHeard /\ Sent BY DEF AppUartInv
<1> DEFINE u == appUart
<1>2. CASE app_uart_init
  <2>1. PICK dma \in BOOLEAN :
          appUart' = [UartOff EXCEPT !.open = TRUE, !.armed = TRUE, !.dma = dma,
                        !.came = appUart.came, !.puts = appUart.puts]
    BY <1>2 DEF app_uart_init
  <2>2. Fresh' BY <2>1 DEF Fresh, UartOff
  <2>3. u'.came = u.came /\ u'.puts = u.puts BY <2>1 DEF UartOff
  <2> QED BY <2>2, <2>3, Restarted
<1>3. CASE app_uart_close
  <2>1. /\ u.pc = "idle"
        /\ appUart' = [appUart EXCEPT !.open = FALSE, !.armed = FALSE,
                         !.event = "none", !.busy = "no"]
    BY <1>3 DEF app_uart_close
  <2>2. /\ AppUartTypeOK'
        /\ u'.open = FALSE /\ u'.armed = FALSE /\ u'.event = "none"
        /\ u'.busy = "no" /\ u'.dma = u.dma /\ u'.wire = u.wire
        /\ u'.taken = u.taken /\ u'.pc = "idle" /\ u'.puts = u.puts
        /\ u'.tx_buffer = u.tx_buffer
    BY <1>1, <2>1 DEF AppUartTypeOK
  <2>3. /\ u'.rx_buffer = u.rx_buffer /\ u'.value = u.value
        /\ u'.told = u.told /\ u'.came = u.came /\ u'.heard = u.heard
    BY <1>1, <2>1 DEF AppUartTypeOK
  <2>4. Ranks' BY <1>1, <2>3 DEF Ranks, NewestFirst, BufferHeard
  <2>5. HandlerOK' /\ AllHeard' BY <2>2 DEF HandlerOK, AllHeard
  <2>6. Sent' BY <1>1, <2>2 DEF Sent, Emptied
  <2> QED BY <2>2, <2>4, <2>5, <2>6 DEF AppUartInv
<1>4. CASE app_uart_put
  <2>1. PICK n \in Nat : n = u.puts + 1 BY <1>1 DEF Sent
  <2> DEFINE put == [appUart EXCEPT !.puts = n, !.tx_buffer = n]
             took == [put EXCEPT !.taken = Append(@, n)]
  <2>2. appUart' = IF u.busy # "no" THEN put ELSE Start(took)
    BY <1>4, <2>1 DEF app_uart_put
  <2>3. CASE u.busy # "no"
    <3>1. appUart' = [appUart EXCEPT !.puts = n, !.tx_buffer = n]
      BY <2>2, <2>3
    <3>2. /\ AppUartTypeOK' /\ UNCHANGED Receiver
          /\ u'.busy = u.busy /\ u'.dma = u.dma /\ u'.wire = u.wire
          /\ u'.taken = u.taken /\ u'.emptied = u.emptied /\ u'.open = u.open
          /\ u'.puts = n /\ u'.tx_buffer = n
      BY <1>1, <3>1 DEF AppUartTypeOK, Receiver
    <3>3. Sent' BY <1>1, <3>2 DEF Sent, Emptied
    <3> QED BY <1>1, <3>2, <3>3, ReceiverKept DEF AppUartInv
  <2>4. CASE u.busy = "no" /\ u.dma
    <3>1. appUart' = [appUart EXCEPT !.puts = n, !.tx_buffer = n,
                        !.taken = Append(u.taken, n), !.busy = "started"]
      BY <1>1, <2>2, <2>4 DEF Start, AppUartTypeOK
    <3>2. /\ AppUartTypeOK' /\ UNCHANGED Receiver
          /\ u'.busy = "started" /\ u'.dma = u.dma /\ u'.wire = u.wire
          /\ u'.emptied = u.emptied /\ u'.open = u.open
          /\ u'.puts = n /\ u'.tx_buffer = n
      BY <1>1, <3>1 DEF AppUartTypeOK, Receiver
    <3>3. Sent' BY <1>1, <2>4, <3>2 DEF Sent, Emptied
    <3> QED BY <1>1, <3>2, <3>3, ReceiverKept DEF AppUartInv
  <2>5. CASE u.busy = "no" /\ ~u.dma
    <3>1. appUart' = [appUart EXCEPT !.puts = n, !.tx_buffer = n,
            !.taken = Append(u.taken, n), !.busy = "sending",
            !.wire = Append(u.wire, n)]
      BY <1>1, <2>2, <2>5 DEF Start, ReadByte, AppUartTypeOK
    <3>2. /\ AppUartTypeOK' /\ UNCHANGED Receiver
          /\ u'.busy = "sending" /\ u'.wire = Append(u.wire, n)
          /\ u'.taken = Append(u.taken, n) /\ u'.dma = u.dma
          /\ u'.emptied = u.emptied /\ u'.open = u.open
          /\ u'.puts = n /\ u'.tx_buffer = n
      BY <1>1, <3>1 DEF AppUartTypeOK, Receiver
    <3>3. /\ Append(u.wire, n) \in Seq(Nat)
          /\ Len(Append(u.wire, n)) = Len(u.wire) + 1 /\ Len(u.wire) \in Nat
      BY <1>1, AppendProperties DEF Sent
    <3>4. Emptied' BY <1>1, <2>5, <3>2, <3>3 DEF Sent, Emptied
    <3>5. Sent' BY <1>1, <2>5, <3>2, <3>3, <3>4 DEF Sent
    <3> QED BY <1>1, <3>2, <3>5, ReceiverKept DEF AppUartInv
  <2> QED BY <1>1, <2>3, <2>4, <2>5 DEF AppUartTypeOK
<1>5. CASE ByteIn
  <2>1. PICK n \in Nat : n = u.came + 1 BY <1>1 DEF Ranks
  <2>2. /\ u.armed /\ u.event = "none"
        /\ appUart' = [appUart EXCEPT !.armed = FALSE, !.event = "rx",
              !.came = n, !.heard = Append(u.heard, n), !.rx_buffer = n]
    BY <1>1, <1>5, <2>1 DEF ByteIn, AppUartTypeOK
  <2>3. /\ AppUartTypeOK' /\ UNCHANGED Sender
        /\ u'.armed = FALSE /\ u'.event = "rx" /\ u'.pc = u.pc
        /\ u'.open = u.open /\ u'.rx_buffer = n /\ u'.came = n
        /\ u'.value = u.value /\ u'.told = u.told
        /\ u'.heard = Append(u.heard, n)
    BY <1>1, <2>2 DEF AppUartTypeOK, Sender
  <2>4. /\ u'.heard \in Seq(Nat) /\ Len(u'.heard) = Len(u.heard) + 1
        /\ u'.heard[Len(u.heard) + 1] = n /\ Len(u.heard) \in Nat
    BY <1>1, <2>3, AppendProperties DEF Ranks
  <2>5. BufferHeard' BY <2>3, <2>4 DEF BufferHeard
  <2>6. NewestFirst'
    <3>1. \A k \in 1 .. Len(u.told) : u.told[k] <= u.rx_buffer /\ u.told[k] \in Nat
      BY <1>1 DEF Ranks, NewestFirst
    <3>2. u.rx_buffer \in Nat /\ u.rx_buffer <= n BY <1>1, <2>1 DEF Ranks
    <3> QED BY <2>3, <3>1, <3>2 DEF NewestFirst
  <2>7. Ranks' BY <1>1, <2>1, <2>3, <2>4, <2>5, <2>6 DEF Ranks
  <2>8. u.pc \notin {"rx", "error"} /\ u.open BY <1>1, <2>2 DEF HandlerOK
  <2>9. HandlerOK' BY <1>1, <2>3, <2>8 DEF HandlerOK
  <2>10. AllHeard'
    BY <1>1, <2>2, <2>3, <2>8 DEF AllHeard, WithBuffer, WithHand, Reported
  <2> QED BY <1>1, <2>3, <2>7, <2>9, <2>10, SenderKept DEF AppUartInv
<1>6. CASE LineError
  <2>1. /\ u.armed /\ u.event = "none"
        /\ appUart' = [appUart EXCEPT !.armed = FALSE, !.event = "error",
              !.came = u.came + 1, !.heard = Append(u.heard, 0)]
    BY <1>1, <1>6 DEF LineError, AppUartTypeOK
  <2>3. /\ AppUartTypeOK' /\ UNCHANGED Sender
        /\ u'.armed = FALSE /\ u'.event = "error" /\ u'.pc = u.pc
        /\ u'.open = u.open /\ u'.rx_buffer = u.rx_buffer
        /\ u'.came = u.came + 1
        /\ u'.value = u.value /\ u'.told = u.told
        /\ u'.heard = Append(u.heard, 0)
    BY <1>1, <2>1 DEF AppUartTypeOK, Sender
  <2>4. /\ u'.heard \in Seq(Nat) /\ Len(u'.heard) = Len(u.heard) + 1
        /\ \A k \in 1 .. Len(u.heard) : u'.heard[k] = u.heard[k]
        /\ Len(u.heard) \in Nat
    BY <1>1, <2>3, AppendProperties DEF Ranks
  <2>5. BufferHeard => BufferHeard'
    BY <2>3, <2>4 DEF BufferHeard
  <2>7. Ranks' BY <1>1, <2>3, <2>4, <2>5 DEF Ranks, NewestFirst
  <2>8. u.pc \notin {"rx", "error"} /\ u.open BY <1>1, <2>1 DEF HandlerOK
  <2>9. HandlerOK' BY <1>1, <2>3, <2>8 DEF HandlerOK
  <2>10. AllHeard'
    BY <1>1, <2>1, <2>3, <2>8 DEF AllHeard, WithBuffer, WithHand, Reported
  <2> QED BY <1>1, <2>3, <2>7, <2>9, <2>10, SenderKept DEF AppUartInv
<1>7. CASE DmaReads
  <2>1. /\ u.dma /\ u.busy = "started"
        /\ appUart' = [appUart EXCEPT !.busy = "sending",
                              !.wire = Append(u.wire, u.tx_buffer)]
    BY <1>1, <1>7 DEF DmaReads, ReadByte, Sent, AppUartTypeOK
  <2>2. /\ AppUartTypeOK' /\ UNCHANGED Receiver /\ u'.dma = u.dma
        /\ u'.busy = "sending" /\ u'.wire = Append(u.wire, u.tx_buffer)
        /\ u'.emptied = u.emptied /\ u'.open = u.open
        /\ u'.puts = u.puts /\ u'.tx_buffer = u.tx_buffer
    BY <1>1, <2>1 DEF AppUartTypeOK, Receiver
  <2>3. /\ u'.wire \in Seq(Nat) /\ Len(u'.wire) = Len(u.wire) + 1
        /\ Len(u.wire) \in Nat
    BY <1>1, <2>2, AppendProperties DEF Sent
  <2>4. Emptied' BY <1>1, <2>1, <2>2, <2>3 DEF Sent, Emptied
  <2>5. Sent' BY <1>1, <2>1, <2>2, <2>3, <2>4 DEF Sent
  <2> QED BY <1>1, <2>2, <2>5, ReceiverKept DEF AppUartInv
<1>8. CASE TxDone
  <2>1. /\ u.busy = "sending"
        /\ appUart' = [appUart EXCEPT !.busy = "no", !.emptied = u.emptied + 1]
    BY <1>1, <1>8 DEF TxDone, AppUartTypeOK
  <2>2. /\ AppUartTypeOK' /\ UNCHANGED Receiver /\ u'.dma = u.dma
        /\ u'.wire = u.wire /\ u'.taken = u.taken /\ u'.busy = "no"
        /\ u'.emptied = u.emptied + 1 /\ u'.open = u.open
        /\ u'.puts = u.puts /\ u'.tx_buffer = u.tx_buffer
    BY <1>1, <2>1 DEF AppUartTypeOK, Receiver
  <2>3. Len(u.wire) \in Nat BY <1>1 DEF Sent
  <2>4. Emptied' BY <1>1, <2>1, <2>2, <2>3 DEF Sent, Emptied
  <2>5. Sent' BY <1>1, <2>2, <2>4 DEF Sent
  <2> QED BY <1>1, <2>2, <2>5, ReceiverKept DEF AppUartInv
<1>9. CASE TakeValue
  <2>1. PICK n : n = Reported OBVIOUS
  <2>2. /\ u.pc = "idle" /\ u.event \in {"rx", "error"}
        /\ appUart' = [appUart EXCEPT !.pc = u.event, !.event = "none",
                                      !.value = n]
    BY <1>1, <1>9, <2>1 DEF TakeValue, AppUartTypeOK
  <2>3. /\ AppUartTypeOK' /\ UNCHANGED Sender
        /\ u'.armed = u.armed /\ u'.event = "none" /\ u'.pc = u.event
        /\ u'.open = u.open /\ u'.rx_buffer = u.rx_buffer /\ u'.came = u.came
        /\ u'.value = n /\ u'.told = u.told /\ u'.heard = u.heard
    BY <1>1, <2>2 DEF AppUartTypeOK, Sender
  <2>4. n \in Nat /\ n <= u.rx_buffer BY <1>1, <2>1 DEF Reported, Ranks
  <2>5. Ranks' BY <1>1, <2>3, <2>4 DEF Ranks, NewestFirst, BufferHeard
  <2>6. HandlerOK' BY <1>1, <2>2, <2>3 DEF HandlerOK
  <2>7. AllHeard'
    BY <1>1, <2>1, <2>2, <2>3 DEF AllHeard, WithBuffer, WithHand
  <2> QED BY <1>1, <2>3, <2>5, <2>6, <2>7, SenderKept DEF AppUartInv
<1>10. CASE Rearm
  <2>1. /\ u.pc \in {"rx", "error"} /\ u.event = "none"
        /\ appUart' = [appUart EXCEPT !.armed = TRUE, !.pc = "tell",
              !.rx_done = u.rx_done \/ u.pc = "rx"]
    BY <1>1, <1>10 DEF Rearm, AppUartTypeOK, HandlerOK
  <2>2. /\ AppUartTypeOK' /\ UNCHANGED Sender
        /\ u'.event = "none" /\ u'.open = u.open /\ u'.pc = "tell"
        /\ u'.rx_buffer = u.rx_buffer /\ u'.came = u.came
        /\ u'.value = u.value /\ u'.told = u.told /\ u'.heard = u.heard
    BY <1>1, <2>1 DEF AppUartTypeOK, Sender
  <2>3. Ranks' BY <1>1, <2>2 DEF Ranks, NewestFirst, BufferHeard
  <2>4. HandlerOK' BY <1>1, <2>1, <2>2 DEF HandlerOK
  <2>5. AllHeard'
    BY <1>1, <2>1, <2>2 DEF AllHeard, WithBuffer, WithHand
  <2> QED BY <1>1, <2>2, <2>3, <2>4, <2>5, SenderKept DEF AppUartInv
<1>11. CASE Tell
  <2>1. /\ u.pc = "tell"
        /\ appUart' = [appUart EXCEPT !.pc = "idle",
                         !.told = Append(u.told, u.value)]
    BY <1>1, <1>11 DEF Tell, AppUartTypeOK
  <2>2. /\ AppUartTypeOK' /\ UNCHANGED Sender
        /\ u'.armed = u.armed /\ u'.event = u.event /\ u'.open = u.open
        /\ u'.pc = "idle" /\ u'.heard = u.heard
        /\ u'.rx_buffer = u.rx_buffer /\ u'.came = u.came
        /\ u'.value = u.value /\ u'.told = Append(u.told, u.value)
    BY <1>1, <2>1 DEF AppUartTypeOK, Sender
  <2>3. PICK n \in Nat : n = Len(u.told) BY <1>1 DEF Ranks
  <2>4. /\ u'.told \in Seq(Nat) /\ Len(u'.told) = n + 1
        /\ u'.told[n + 1] = u.value
        /\ \A k \in 1 .. n : u'.told[k] = u.told[k]
    BY <1>1, <2>2, <2>3, AppendProperties DEF Ranks
  <2>5. ASSUME NEW k \in 1 .. (n + 1) PROVE u'.told[k] <= u.rx_buffer
    <3>1. CASE k = n + 1 BY <1>1, <2>4, <3>1 DEF Ranks
    <3>2. CASE k \in 1 .. n BY <1>1, <2>3, <2>4, <3>2 DEF Ranks, NewestFirst
    <3> QED BY <2>3, <3>1, <3>2
  <2>6. NewestFirst' BY <2>2, <2>4, <2>5 DEF NewestFirst
  <2>7. Ranks' BY <1>1, <2>2, <2>4, <2>6 DEF Ranks, BufferHeard
  <2>8. HandlerOK' BY <1>1, <2>1, <2>2 DEF HandlerOK
  <2>9. AllHeard'
    BY <1>1, <2>1, <2>2 DEF AllHeard, WithBuffer, WithHand, Reported
  <2> QED BY <1>1, <2>2, <2>7, <2>8, <2>9, SenderKept DEF AppUartInv
<1> QED BY <1>2, <1>3, <1>4, <1>5, <1>6, <1>7, <1>8, <1>9, <1>10, <1>11
        DEF AppUartNext, AppUartCpu

LEMMA DeviceAppUart == ASSUME AppUartInv, [Next]_vars PROVE AppUartInv'
<1>1. CASE UNCHANGED appUart
  <2>1. UNCHANGED Receiver /\ UNCHANGED Sender BY <1>1 DEF Receiver, Sender
  <2>2. AppUartTypeOK' BY <1>1 DEF AppUartInv, AppUartTypeOK
  <2> QED BY <2>1, <2>2, ReceiverKept, SenderKept DEF AppUartInv
<1>2. CASE PowerCut
  <2>1. appUart' = [UartOff EXCEPT !.came = appUart.came, !.puts = appUart.puts]
    BY <1>2 DEF PowerCut
  <2>2. Fresh' BY <2>1 DEF Fresh, UartOff
  <2>3. appUart'.came = appUart.came /\ appUart'.puts = appUart.puts
    BY <2>1 DEF UartOff
  <2> QED BY <2>2, <2>3, Restarted
<1>3. CASE Serial BY <1>3, AppUartStep DEF Serial
<1>4. CASE StartsUp \/ ErrorReset \/ Pump \/ Flash
  BY <1>1, <1>4 DEF StartsUp, ErrorReset, Pump, Flash, drivers
<1>5. CASE Converter \/ Timer \/ Transfer \/ Port
  BY <1>1, <1>5 DEF Converter, Timer, Transfer, Port
<1>6. CASE UNCHANGED vars BY <1>1, <1>6 DEF vars, drivers
<1> QED BY <1>2, <1>3, <1>4, <1>5, <1>6 DEF Next

LEMMA SpiStart == Init => SpiInv
BY DEF Init, SpiInit, SpiOff, SpiInv, SpiTypeOK, Answers, OnTheWay

(* The word TransferSPI returns is the answer of the device, whenever its  *)
(* two bytes come in (spi.c:35-56).  Every byte and every error the UART   *)
(* driver has is told to the application exactly once, in order and with   *)
(* its value, though a new byte may arrive while the last one is told, and *)
(* every byte that is out is told as APP_UART_TX_EMPTY (app_uart.c:23-50); *)
(* the byte of app_uart_get is no older than one told (app_uart.c:90-103). *)
THEOREM BytesAreRight == Spec => []RightBytes
<1>1. Init => SpiInv BY SpiStart
<1>2. Init => AppUartInv
  <2> SUFFICES ASSUME Init PROVE AppUartInv OBVIOUS
  <2>1. appUart = UartOff BY DEF Init, AppUartInit
  <2>2. Fresh BY <2>1 DEF Fresh, UartOff
  <2>3. appUart.came \in Nat /\ appUart.puts \in Nat BY <2>1 DEF UartOff
  <2> QED BY <2>2, <2>3, FreshStart
<1>3. SpiInv => SpiRight
  <2> SUFFICES ASSUME SpiInv PROVE SpiRight OBVIOUS
  <2>1. spi.pc = "idle" => spi.data \in {"none", "value"} BY DEF SpiInv
  <2>2. spi.TXD # <<>> => spi.SS = 0 BY DEF SpiInv, Answers, OnTheWay
  <2> QED BY <2>1, <2>2 DEF SpiRight
<1>4. AppUartInv => UartRight
  <2> SUFFICES ASSUME AppUartInv PROVE UartRight OBVIOUS
  <2>1. PICK heard \in Seq(Nat) : heard = appUart.heard BY DEF AppUartInv, Ranks
  <2>2. PICK told \in Seq(Nat) : told = appUart.told BY DEF AppUartInv, Ranks
  <2>3. DOMAIN heard = 1 .. Len(heard) /\ DOMAIN told = 1 .. Len(told) OBVIOUS
  <2>4. app_uart_get # 0 => app_uart_get = appUart.rx_buffer
    BY DEF app_uart_get
  <2>5. app_uart_get # 0 =>
          \E k \in DOMAIN appUart.heard : appUart.heard[k] = app_uart_get
    BY <2>1, <2>3, <2>4, Zenon DEF AppUartInv, Ranks, BufferHeard
  <2>6. app_uart_get # 0 =>
          \A k \in DOMAIN appUart.told : appUart.told[k] <= app_uart_get
    BY <2>2, <2>3, <2>4, Zenon DEF AppUartInv, Ranks, NewestFirst
  <2> QED BY <2>5, <2>6 DEF UartRight, AppUartInv, AllHeard, Sent, Emptied
<1> QED BY <1>1, <1>2, <1>3, <1>4, DeviceSpi, DeviceAppUart, PTL
        DEF Spec, RightBytes

(* A loop of TransferSPI waits for a READY that is up, or for a byte that  *)
(* is still to be shifted in: a part of TransferReturns.                   *)
AnswerComes ==
  spi.pc \in {"wait 1", "wait 2"} =>
    spi.READY \/ (spi.TXD # <<>> /\ spi.RXD = <<>>)

(* Neither loop of TransferSPI (spi.c:35-56) waits for a READY that has    *)
(* been cleared, whenever the two bytes come in.                           *)
THEOREM TransfersAreAnswered == Spec => []AnswerComes
<1>1. ASSUME SpiInv, spi.pc \in {"wait 1", "wait 2"}
      PROVE  spi.READY \/ (spi.TXD # <<>> /\ spi.RXD = <<>>)
  <2>1. spi.RXD # <<>> => spi.READY
    <3>1. Announced /\ spi.READY \in BOOLEAN BY <1>1 DEF SpiInv, SpiTypeOK
    <3> QED BY <3>1, Zenon DEF Announced
  <2>2. spi.RXD = <<>> => spi.TXD # <<>>
    BY <1>1, Bytes DEF SpiInv, Answers, OnTheWay
  <2> QED BY <2>1, <2>2
<1>2. SpiInv => AnswerComes BY <1>1 DEF AnswerComes
<1> QED BY <1>2, SpiStart, DeviceSpi, PTL DEF Spec

-----------------------------------------------------------------------------
(* GPIOTE: the pins of the user under way, done and to do.                 *)
UserSet == [up : SUBSET Pins, down : SUBSET Pins, enabled : BOOLEAN]

GpioteTypeOK ==
  /\ gpiote = [mp_users |-> gpiote.mp_users, m_pins |-> gpiote.m_pins,
       m_last_pins_state |-> gpiote.m_last_pins_state, level |-> gpiote.level,
       sense |-> gpiote.sense, pending |-> gpiote.pending,
       call |-> gpiote.call, edges |-> gpiote.edges, mixed |-> gpiote.mixed,
       wrong |-> gpiote.wrong, missed |-> gpiote.missed]
  /\ gpiote.call = [enable |-> gpiote.call.enable, user |-> gpiote.call.user,
                    todo |-> gpiote.call.todo, pin |-> gpiote.call.pin]
  /\ gpiote.mp_users \in Seq(UserSet)
  /\ gpiote.sense \subseteq Pins
  /\ gpiote.mixed \in BOOLEAN /\ gpiote.wrong \in BOOLEAN
  /\ gpiote.missed \in BOOLEAN /\ gpiote.call.enable \in BOOLEAN

Caller == gpiote.mp_users[gpiote.call.user]

(* The pins not yet done: those of a user being enabled are sensed if they *)
(* are shared, those of a user being disabled still are.                   *)
SenseInv ==
  IF gpiote.call = NoCall
  THEN \A p \in Pins : p \in gpiote.sense <=> Shared(p)
  ELSE /\ gpiote.call.user \in 1 .. Len(gpiote.mp_users)
       /\ ~Caller.enabled
       /\ gpiote.call.todo \cup gpiote.call.pin \subseteq PinsOf(Caller)
       /\ gpiote.call.todo \cap gpiote.call.pin = {}
       /\ gpiote.call.enable =>
            \A p \in Pins : p \in gpiote.sense <=>
              \/ Shared(p)
              \/ p \in PinsOf(Caller) \ (gpiote.call.todo \cup gpiote.call.pin)
       /\ ~gpiote.call.enable =>
            /\ gpiote.call.pin = {}
            /\ \A p \in Pins : p \in gpiote.sense <=>
                 Shared(p) \/ p \in gpiote.call.todo

(* Until mixed, the snapshot differs from the level at pending pins only.  *)
Agrees(p) == p \in gpiote.m_last_pins_state <=> p \in gpiote.level
EdgeInv ==
  /\ gpiote.pending \subseteq gpiote.sense
  /\ ~gpiote.mixed =>
       /\ \A p, q \in gpiote.pending : p = q
       /\ \A p \in gpiote.sense \cup gpiote.call.pin :
            Agrees(p) <=> p \notin gpiote.pending
       /\ ~gpiote.wrong /\ ~gpiote.missed

GpioteInv == GpioteTypeOK /\ SenseInv /\ EdgeInv

LEMMA Enabling ==
  ASSUME NEW users \in Seq(UserSet), NEW u \in 1 .. Len(users), NEW e \in BOOLEAN
  PROVE  LET new == [users EXCEPT ![u].enabled = e]
         IN  /\ new \in Seq(UserSet) /\ Len(new) = Len(users)
             /\ new[u].enabled = e /\ PinsOf(new[u]) = PinsOf(users[u])
             /\ \A v \in 1 .. Len(users) : v # u => new[v] = users[v]
<1> DEFINE new == [users EXCEPT ![u].enabled = e]
           user == [users[u] EXCEPT !.enabled = e]
<1>1. users[u] \in UserSet OBVIOUS
<1>2. /\ user \in UserSet /\ user.enabled = e
      /\ user.up = users[u].up /\ user.down = users[u].down
  BY <1>1 DEF UserSet
<1>3. new = [users EXCEPT ![u] = user] OBVIOUS
<1> HIDE DEF user
<1>4. new \in Seq(UserSet) /\ Len(new) = Len(users)
  BY <1>2, <1>3, ExceptSeq
<1>5. new[u] = user /\ \A v \in 1 .. Len(users) : v # u => new[v] = users[v]
  BY <1>3
<1> QED BY <1>2, <1>4, <1>5 DEF PinsOf

(* Steps that leave the pins as they are.                                  *)
EdgeState ==
  <<gpiote.pending, gpiote.sense, gpiote.mixed, gpiote.m_last_pins_state,
    gpiote.level, gpiote.call.pin, gpiote.wrong, gpiote.missed>>

LEMMA EdgesKept == ASSUME EdgeInv, UNCHANGED EdgeState PROVE EdgeInv'
  BY DEF EdgeInv, EdgeState, Agrees

SenseState == <<gpiote.sense, gpiote.call, gpiote.mp_users>>

LEMMA SenseKept == ASSUME SenseInv, UNCHANGED SenseState PROVE SenseInv'
  BY DEF SenseInv, SenseState, Caller, Shared, Users

LEMMA CallBegins ==
  ASSUME GpioteInv, NEW u \in Users, UserEnable(u) \/ UserDisable(u)
  PROVE  GpioteInv'
<1>1. GpioteTypeOK /\ SenseInv /\ EdgeInv BY DEF GpioteInv
<1> DEFINE g == gpiote
           pins == PinsOf(g.mp_users[u])
<1>2. /\ g.call = NoCall /\ g.call.pin = {}
      /\ \A p \in Pins : p \in g.sense <=> Shared(p)
  BY <1>1 DEF UserEnable, UserDisable, MainFreeOfGpiote, SenseInv, NoCall
<1>3. u \in 1 .. Len(g.mp_users) /\ g.mp_users[u] \in UserSet
  BY <1>1 DEF Users, GpioteTypeOK
<1>4. u # 0 BY <1>1, <1>3 DEF GpioteTypeOK
<1>5. pins \subseteq Pins BY <1>3 DEF UserSet, PinsOf
<1>6. CASE UserEnable(u)
  <2>1. /\ ~g.mp_users[u].enabled
        /\ gpiote' = [gpiote EXCEPT !.call =
             [enable |-> TRUE, user |-> u, todo |-> pins, pin |-> {}]]
    BY <1>6 DEF UserEnable
  <2>2. /\ g'.call.enable = TRUE /\ g'.call.user = u /\ g'.call.todo = pins
        /\ g'.call.pin = {} /\ g'.mp_users = g.mp_users
        /\ g'.sense = g.sense /\ GpioteTypeOK'
    BY <1>1, <2>1 DEF GpioteTypeOK
  <2>3. UNCHANGED EdgeState
    BY <1>1, <1>2, <2>1, <2>2 DEF GpioteTypeOK, EdgeState
  <2>4. g'.call # NoCall BY <1>4, <2>2 DEF NoCall
  <2>5. \A p : Shared(p)' <=> Shared(p) BY <2>2 DEF Shared, Users
  <2>6. Caller' = g.mp_users[u] BY <2>2 DEF Caller
  <2>7. SenseInv' BY <1>2, <1>3, <2>1, <2>2, <2>4, <2>5, <2>6 DEF SenseInv
  <2> QED BY <1>1, <2>2, <2>3, <2>7, EdgesKept DEF GpioteInv
<1>7. CASE UserDisable(u)
  <2>0. PICK f \in BOOLEAN : f = FALSE OBVIOUS
  <2> DEFINE new == [g.mp_users EXCEPT ![u].enabled = f]
  <2>1. /\ g.mp_users[u].enabled
        /\ gpiote' = [gpiote EXCEPT !.mp_users = new, !.call =
             [enable |-> FALSE, user |-> u, todo |-> pins, pin |-> {}]]
    BY <1>1, <1>7, <2>0 DEF UserDisable, GpioteTypeOK
  <2>2. /\ new \in Seq(UserSet) /\ Len(new) = Len(g.mp_users)
        /\ new[u].enabled = f /\ PinsOf(new[u]) = pins
        /\ \A v \in 1 .. Len(new) : v # u => new[v] = g.mp_users[v]
    BY <1>1, <1>3, Enabling DEF GpioteTypeOK
  <2> HIDE DEF new
  <2>3. /\ g'.call.enable = FALSE /\ g'.call.user = u /\ g'.call.todo = pins
        /\ g'.call.pin = {} /\ g'.mp_users = new
        /\ g'.sense = g.sense /\ GpioteTypeOK'
    BY <1>1, <2>1, <2>2 DEF GpioteTypeOK
  <2>4. UNCHANGED EdgeState
    BY <1>1, <1>2, <2>1, <2>3 DEF GpioteTypeOK, EdgeState
  <2>5. g'.call # NoCall BY <1>4, <2>3 DEF NoCall
  <2>6. Caller' = new[u] BY <2>3 DEF Caller
  <2>7. \A p : Shared(p) <=> Shared(p)' \/ p \in pins
    <3>1. DOMAIN new = DOMAIN g.mp_users /\ DOMAIN new = 1 .. Len(new)
      BY <1>1, <2>2 DEF GpioteTypeOK
    <3> QED BY <1>3, <2>0, <2>1, <2>2, <2>3, <3>1 DEF Shared, Users
  <2>8. SenseInv'
    BY <1>2, <1>3, <2>0, <2>2, <2>3, <2>5, <2>6, <2>7 DEF SenseInv
  <2> QED BY <1>1, <2>3, <2>4, <2>8, EdgesKept DEF GpioteInv
<1> QED BY <1>6, <1>7

LEMMA CallEnds == ASSUME GpioteInv, CallEnd PROVE GpioteInv'
<1>1. GpioteTypeOK /\ SenseInv /\ EdgeInv BY DEF GpioteInv
<1> DEFINE g == gpiote
           u == g.call.user
           e == g.call.enable
           new == [g.mp_users EXCEPT ![u].enabled = e]
<1>2. g.call # NoCall /\ g.call.todo = {} /\ g.call.pin = {} BY DEF CallEnd
<1>3. u \in 1 .. Len(g.mp_users) /\ ~g.mp_users[u].enabled
  BY <1>1, <1>2 DEF SenseInv, Caller
<1>4. /\ new \in Seq(UserSet) /\ Len(new) = Len(g.mp_users)
      /\ new[u].enabled = e /\ PinsOf(new[u]) = PinsOf(g.mp_users[u])
      /\ \A v \in 1 .. Len(new) : v # u => new[v] = g.mp_users[v]
  BY <1>1, <1>3, Enabling DEF GpioteTypeOK
<1>5. gpiote' = [gpiote EXCEPT !.mp_users = new, !.call = NoCall]
  BY <1>1 DEF CallEnd, GpioteTypeOK
<1> HIDE DEF new
<1>6. /\ g'.mp_users = new /\ g'.call = NoCall /\ g'.sense = g.sense
      /\ GpioteTypeOK'
  BY <1>1, <1>4, <1>5 DEF GpioteTypeOK, NoCall
<1>7. UNCHANGED EdgeState
  BY <1>1, <1>2, <1>5 DEF GpioteTypeOK, EdgeState, NoCall
<1>8. \A p : Shared(p)' <=> Shared(p) \/ (e /\ p \in PinsOf(g.mp_users[u]))
  <2>1. DOMAIN new = DOMAIN g.mp_users /\ DOMAIN new = 1 .. Len(new)
    BY <1>1, <1>4 DEF GpioteTypeOK
  <2> QED BY <1>3, <1>4, <1>6, <2>1 DEF Shared, Users
<1>9. SenseInv'
  BY <1>1, <1>2, <1>6, <1>8 DEF SenseInv, Caller, GpioteTypeOK
<1> QED BY <1>1, <1>6, <1>7, <1>9, EdgesKept DEF GpioteInv

LEMMA Registers ==
  ASSUME GpioteInv, NEW up, NEW down, up \cup down \subseteq Pins,
         app_gpiote_user_register(up, down)
  PROVE  GpioteInv'
<1>1. GpioteTypeOK /\ SenseInv /\ EdgeInv BY DEF GpioteInv
<1> DEFINE g == gpiote
           user == [up |-> up, down |-> down, enabled |-> FALSE]
           new == Append(g.mp_users, user)
<1>2. user \in UserSet /\ ~user.enabled BY DEF UserSet
<1>3. gpiote' = [gpiote EXCEPT !.mp_users = new, !.m_pins = g.m_pins \cup up \cup down]
  BY <1>1 DEF app_gpiote_user_register, GpioteTypeOK
<1> HIDE DEF user
<1>4. PICK n \in Nat : n = Len(g.mp_users) BY <1>1 DEF GpioteTypeOK
<1>5. /\ new \in Seq(UserSet) /\ Len(new) = n + 1 /\ new[n + 1] = user
      /\ \A v \in 1 .. n : new[v] = g.mp_users[v]
  BY <1>1, <1>2, <1>4, AppendProperties DEF GpioteTypeOK
<1> HIDE DEF new
<1>6. /\ g'.mp_users = new /\ g'.call = g.call /\ g'.sense = g.sense
      /\ GpioteTypeOK'
  BY <1>1, <1>3, <1>5 DEF GpioteTypeOK
<1>7. UNCHANGED EdgeState BY <1>1, <1>3 DEF GpioteTypeOK, EdgeState
<1>8. \A p : Shared(p)' <=> Shared(p)
  <2>1. DOMAIN g.mp_users = 1 .. n /\ DOMAIN new = 1 .. (n + 1)
    BY <1>1, <1>4, <1>5 DEF GpioteTypeOK
  <2>2. DOMAIN new = DOMAIN g.mp_users \cup {n + 1} BY <1>4, <2>1
  <2> QED BY <1>2, <1>5, <1>6, <2>1, <2>2 DEF Shared, Users
<1>9. g.call = NoCall
  BY DEF app_gpiote_user_register, MainFreeOfGpiote
<1>10. SenseInv' BY <1>1, <1>6, <1>8, <1>9 DEF SenseInv
<1> QED BY <1>1, <1>6, <1>7, <1>10, EdgesKept DEF GpioteInv

LEMMA SharedKept ==
  ASSUME gpiote'.mp_users = gpiote.mp_users
  PROVE  \A p : Shared(p)' <=> Shared(p)
  BY DEF Shared, Users

LEMMA PinStep == ASSUME GpioteInv, NextPin PROVE GpioteInv'
<1>1. GpioteTypeOK /\ SenseInv /\ EdgeInv BY DEF GpioteInv
<1> DEFINE g == gpiote
           c == gpiote.call
           pin == CHOOSE p \in c.todo : TRUE
           left == [g EXCEPT !.call.todo = @ \ {pin}]
<1>2. c.todo # {} /\ c.pin = {} BY DEF NextPin
<1>3. pin \in c.todo BY <1>2
<1>4. gpiote' =
        (IF Shared(pin) THEN left
         ELSE IF c.enable
         THEN [left EXCEPT !.m_last_pins_state = g.level, !.call.pin = {pin},
                           !.mixed = @ \/ g.pending # {}]
         ELSE [left EXCEPT !.sense = @ \ {pin}, !.pending = @ \ {pin}])
  BY DEF NextPin
<1> HIDE DEF pin
<1>5. c # NoCall BY <1>2 DEF NoCall
<1>6. /\ c.user \in 1 .. Len(g.mp_users) /\ ~Caller.enabled
      /\ c.todo \subseteq PinsOf(Caller) /\ c.user # 0
  BY <1>1, <1>5 DEF SenseInv, GpioteTypeOK
<1>7. PinsOf(Caller) \subseteq Pins
  <2>1. Caller \in UserSet BY <1>1, <1>6 DEF Caller, GpioteTypeOK
  <2> QED BY <2>1 DEF PinsOf, UserSet
<1>8. CASE Shared(pin)
  <2>1. gpiote' = [gpiote EXCEPT !.call = [gpiote.call EXCEPT !.todo = c.todo \ {pin}]]
    BY <1>1, <1>4, <1>8 DEF GpioteTypeOK
  <2>2. /\ g'.mp_users = g.mp_users /\ g'.sense = g.sense
        /\ g'.call.todo = c.todo \ {pin} /\ g'.call.pin = {}
        /\ g'.call.user = c.user /\ g'.call.enable = c.enable /\ GpioteTypeOK'
    BY <1>1, <1>2, <2>1 DEF GpioteTypeOK
  <2>3. UNCHANGED EdgeState
    BY <1>1, <2>1 DEF GpioteTypeOK, EdgeState
  <2>4. g'.call # NoCall BY <1>6, <2>2 DEF NoCall
  <2>5. Caller' = Caller BY <2>2 DEF Caller
  <2>6. SenseInv'
    BY <1>1, <1>2, <1>3, <1>5, <1>6, <1>8, <2>2, <2>4, <2>5, SharedKept
    DEF SenseInv
  <2> QED BY <1>1, <2>2, <2>3, <2>6, EdgesKept DEF GpioteInv
<1>9. CASE ~Shared(pin) /\ c.enable
  <2>1. gpiote' = [gpiote EXCEPT
          !.call = [gpiote.call EXCEPT !.todo = c.todo \ {pin}, !.pin = {pin}],
          !.m_last_pins_state = g.level, !.mixed = (g.mixed \/ g.pending # {})]
    BY <1>1, <1>4, <1>9 DEF GpioteTypeOK
  <2>2. /\ g'.mp_users = g.mp_users /\ g'.sense = g.sense
        /\ g'.call.todo = c.todo \ {pin} /\ g'.call.pin = {pin}
        /\ g'.call.user = c.user /\ g'.call.enable = c.enable /\ GpioteTypeOK'
    BY <1>1, <1>2, <2>1 DEF GpioteTypeOK
  <2>3. /\ g'.pending = g.pending /\ g'.m_last_pins_state = g.level
        /\ g'.level = g.level /\ g'.wrong = g.wrong /\ g'.missed = g.missed
        /\ g'.mixed = (g.mixed \/ g.pending # {})
    BY <1>1, <2>1 DEF GpioteTypeOK
  <2>4. g'.call # NoCall BY <1>6, <2>2 DEF NoCall
  <2>5. Caller' = Caller BY <2>2 DEF Caller
  <2>6. SenseInv'
    BY <1>1, <1>2, <1>3, <1>5, <1>6, <1>9, <2>2, <2>4, <2>5, SharedKept
    DEF SenseInv
  <2>7. EdgeInv' BY <1>1, <2>2, <2>3 DEF EdgeInv, Agrees
  <2> QED BY <2>2, <2>6, <2>7 DEF GpioteInv
<1>10. CASE ~Shared(pin) /\ ~c.enable
  <2>1. gpiote' = [gpiote EXCEPT
          !.call = [gpiote.call EXCEPT !.todo = c.todo \ {pin}],
          !.sense = g.sense \ {pin}, !.pending = g.pending \ {pin}]
    BY <1>1, <1>4, <1>10 DEF GpioteTypeOK
  <2>2. /\ g'.mp_users = g.mp_users /\ g'.sense = g.sense \ {pin}
        /\ g'.call.todo = c.todo \ {pin} /\ g'.call.pin = {}
        /\ g'.call.user = c.user /\ g'.call.enable = c.enable /\ GpioteTypeOK'
    BY <1>1, <1>2, <2>1 DEF GpioteTypeOK
  <2>3. /\ g'.pending = g.pending \ {pin}
        /\ g'.m_last_pins_state = g.m_last_pins_state
        /\ g'.level = g.level /\ g'.wrong = g.wrong /\ g'.missed = g.missed
        /\ g'.mixed = g.mixed
    BY <1>1, <2>1 DEF GpioteTypeOK
  <2>4. g'.call # NoCall BY <1>6, <2>2 DEF NoCall
  <2>5. Caller' = Caller BY <2>2 DEF Caller
  <2>6. SenseInv'
    BY <1>1, <1>2, <1>3, <1>5, <1>6, <1>10, <2>2, <2>4, <2>5, SharedKept
    DEF SenseInv
  <2>7. EdgeInv' BY <1>1, <1>2, <2>2, <2>3 DEF EdgeInv, Agrees
  <2> QED BY <2>2, <2>6, <2>7 DEF GpioteInv
<1> QED BY <1>8, <1>9, <1>10

LEMMA SenseStep == ASSUME GpioteInv, SensePin PROVE GpioteInv'
<1>1. GpioteTypeOK /\ SenseInv /\ EdgeInv BY DEF GpioteInv
<1> DEFINE g == gpiote
           c == gpiote.call
<1>2. /\ c.pin # {}
      /\ gpiote' = [gpiote EXCEPT !.sense = g.sense \cup c.pin,
                                  !.call = [gpiote.call EXCEPT !.pin = {}]]
  BY <1>1 DEF SensePin, GpioteTypeOK
<1>3. c # NoCall BY <1>2 DEF NoCall
<1>4. /\ c.user \in 1 .. Len(g.mp_users) /\ c.user # 0 /\ c.enable
      /\ c.todo \cup c.pin \subseteq PinsOf(Caller)
  BY <1>1, <1>2, <1>3 DEF SenseInv, GpioteTypeOK
<1>5. PinsOf(Caller) \subseteq Pins
  <2>1. Caller \in UserSet BY <1>1, <1>4 DEF Caller, GpioteTypeOK
  <2> QED BY <2>1 DEF PinsOf, UserSet
<1>6. /\ g'.mp_users = g.mp_users /\ g'.sense = g.sense \cup c.pin
      /\ g'.call.todo = c.todo /\ g'.call.pin = {}
      /\ g'.call.user = c.user /\ g'.call.enable = c.enable /\ GpioteTypeOK'
  BY <1>1, <1>2, <1>4, <1>5 DEF GpioteTypeOK
<1>7. /\ g'.pending = g.pending
      /\ g'.m_last_pins_state = g.m_last_pins_state
      /\ g'.level = g.level /\ g'.wrong = g.wrong /\ g'.missed = g.missed
      /\ g'.mixed = g.mixed
  BY <1>1, <1>2 DEF GpioteTypeOK
<1>8. g'.call # NoCall BY <1>4, <1>6 DEF NoCall
<1>9. Caller' = Caller BY <1>6 DEF Caller
<1>10. c.todo \cap c.pin = {} BY <1>1, <1>3 DEF SenseInv
<1>11. SenseInv'
  BY <1>1, <1>3, <1>4, <1>5, <1>6, <1>8, <1>9, <1>10, SharedKept DEF SenseInv
<1>12. EdgeInv' BY <1>1, <1>6, <1>7 DEF EdgeInv, Agrees
<1> QED BY <1>6, <1>11, <1>12 DEF GpioteInv

LEMMA ToggleStep ==
  ASSUME GpioteInv, NEW pin \in Pins, Toggle(pin) PROVE GpioteInv'
<1>1. GpioteTypeOK /\ SenseInv /\ EdgeInv BY DEF GpioteInv
<1> DEFINE g == gpiote
<1>2. PICK level, edges :
        /\ level = IF pin \in g.level THEN g.level \ {pin} ELSE g.level \cup {pin}
        /\ gpiote' = [gpiote EXCEPT !.edges = edges, !.level = level,
             !.pending = g.pending \cup ({pin} \cap g.sense),
             !.mixed = (g.mixed \/ pin \in g.call.pin
                          \/ (pin \in g.sense /\ g.pending # {}))]
  BY <1>1 DEF Toggle, GpioteTypeOK
<1>3. /\ g'.mp_users = g.mp_users /\ g'.sense = g.sense /\ g'.call = g.call
      /\ GpioteTypeOK'
  BY <1>1, <1>2 DEF GpioteTypeOK
<1>4. /\ g'.pending = g.pending \cup ({pin} \cap g.sense)
      /\ g'.level = level /\ g'.m_last_pins_state = g.m_last_pins_state
      /\ g'.wrong = g.wrong /\ g'.missed = g.missed
      /\ g'.mixed = (g.mixed \/ pin \in g.call.pin
                        \/ (pin \in g.sense /\ g.pending # {}))
  BY <1>1, <1>2 DEF GpioteTypeOK
<1>5. SenseInv' BY <1>1, <1>3, SenseKept DEF SenseState
<1>6. EdgeInv'
  <2>1. g'.pending \subseteq g'.sense BY <1>1, <1>3, <1>4 DEF EdgeInv
  <2>2. ASSUME ~g'.mixed
        PROVE  /\ \A p, q \in g'.pending : p = q
               /\ \A p \in g'.sense \cup g'.call.pin :
                    Agrees(p)' <=> p \notin g'.pending
               /\ ~g'.wrong /\ ~g'.missed
    <3>1. /\ ~g.mixed /\ pin \notin g.call.pin
          /\ pin \in g.sense => g.pending = {}
      BY <1>4, <2>2
    <3>2. /\ \A p, q \in g.pending : p = q
          /\ \A p \in g.sense \cup g.call.pin : Agrees(p) <=> p \notin g.pending
          /\ ~g.wrong /\ ~g.missed
      BY <1>1, <3>1 DEF EdgeInv
    <3>3. \A p, q \in g'.pending : p = q BY <1>4, <3>1, <3>2
    <3>4. ASSUME NEW p \in g.sense \cup g.call.pin
          PROVE  Agrees(p)' <=> p \notin g'.pending
      <4>1. CASE p = pin
        <5>1. pin \in g.sense /\ pin \notin g.pending BY <3>1, <3>4, <4>1
        <5>2. Agrees(pin) /\ pin \in g'.pending BY <1>4, <3>2, <5>1
        <5>3. pin \in level <=> pin \notin g.level BY <1>2
        <5> QED BY <1>4, <4>1, <5>2, <5>3 DEF Agrees
      <4>2. CASE p # pin
        <5>1. p \in level <=> p \in g.level BY <1>2, <4>2
        <5>2. p \in g'.pending <=> p \in g.pending BY <1>4, <4>2
        <5> QED BY <1>4, <3>2, <5>1, <5>2 DEF Agrees
      <4> QED BY <4>1, <4>2
    <3> QED BY <1>3, <1>4, <3>2, <3>3, <3>4
  <2> QED BY <2>1, <2>2 DEF EdgeInv
<1> QED BY <1>3, <1>5, <1>6 DEF GpioteInv

(* With nothing else pending the snapshot is right for the other pins and  *)
(* wrong for this one: the user is told of the edge it was.                *)
LEMMA HandlerStep ==
  ASSUME GpioteInv, NEW pin \in Pins, gpiote_handler(pin) PROVE GpioteInv'
<1>1. GpioteTypeOK /\ SenseInv /\ EdgeInv BY DEF GpioteInv
<1> DEFINE g == gpiote
           opposite == \E u \in Users :
             Told(g.mp_users[u], pin) /\ hitolo(pin) = (pin \in g.level)
           untold == \E u \in Users :
             /\ g.mp_users[u].enabled /\ ~Told(g.mp_users[u], pin)
             /\ pin \in (IF pin \in g.level THEN g.mp_users[u].up
                         ELSE g.mp_users[u].down)
<1>2. /\ pin \in g.pending
      /\ gpiote' = [gpiote EXCEPT
           !.pending = g.pending \ {pin}, !.m_last_pins_state = g.level,
           !.mixed = (g.mixed \/ g.pending # {pin}),
           !.wrong = (g.wrong \/ opposite), !.missed = (g.missed \/ untold)]
  BY <1>1 DEF gpiote_handler, GpioteTypeOK
<1> HIDE DEF opposite, untold
<1>3. /\ g'.mp_users = g.mp_users /\ g'.sense = g.sense /\ g'.call = g.call
      /\ GpioteTypeOK'
  BY <1>1, <1>2 DEF GpioteTypeOK
<1>4. /\ g'.pending = g.pending \ {pin} /\ g'.level = g.level
      /\ g'.m_last_pins_state = g.level
      /\ g'.mixed = (g.mixed \/ g.pending # {pin})
      /\ g'.wrong = (g.wrong \/ opposite) /\ g'.missed = (g.missed \/ untold)
  BY <1>1, <1>2 DEF GpioteTypeOK
<1>5. SenseInv' BY <1>1, <1>3, SenseKept DEF SenseState
<1>6. EdgeInv'
  <2>1. g'.pending \subseteq g'.sense BY <1>1, <1>3, <1>4 DEF EdgeInv
  <2>2. ASSUME ~g'.mixed
        PROVE  /\ \A p, q \in g'.pending : p = q
               /\ \A p \in g'.sense \cup g'.call.pin :
                    Agrees(p)' <=> p \notin g'.pending
               /\ ~g'.wrong /\ ~g'.missed
    <3>1. ~g.mixed /\ g.pending = {pin} BY <1>4, <2>2
    <3>2. ~g.wrong /\ ~g.missed /\ ~Agrees(pin)
      BY <1>1, <1>2, <3>1 DEF EdgeInv
    <3>3. hitolo(pin) <=> pin \notin g.level BY <3>2 DEF Agrees, hitolo
    <3>4. ~opposite BY <3>3 DEF opposite
    <3>5. ~untold BY <3>3 DEF untold, Told
    <3>6. g'.pending = {} BY <1>4, <3>1
    <3>7. \A p : Agrees(p)' BY <1>4 DEF Agrees
    <3> QED BY <1>4, <3>2, <3>4, <3>5, <3>6, <3>7
  <2> QED BY <2>1, <2>2 DEF EdgeInv
<1> QED BY <1>3, <1>5, <1>6 DEF GpioteInv

(* Where a reset leaves the driver, whatever the pins do.                  *)
OffAgain ==
  \E level, edges : gpiote = [GpioteOff EXCEPT !.level = level, !.edges = edges]

LEMMA GpioteOffOK == OffAgain => GpioteInv
<1> SUFFICES ASSUME OffAgain PROVE GpioteInv OBVIOUS
<1>1. /\ gpiote.mp_users = <<>> /\ gpiote.call = NoCall /\ gpiote.sense = {}
      /\ gpiote.pending = {} /\ gpiote.wrong = FALSE
      /\ gpiote.missed = FALSE /\ gpiote.mixed = FALSE
  BY DEF GpioteOff, OffAgain
<1>2. GpioteTypeOK
  <2>1. <<>> \in Seq(UserSet) OBVIOUS
  <2>2. gpiote = [mp_users |-> gpiote.mp_users, m_pins |-> gpiote.m_pins,
          m_last_pins_state |-> gpiote.m_last_pins_state,
          level |-> gpiote.level, sense |-> gpiote.sense,
          pending |-> gpiote.pending, call |-> gpiote.call,
          edges |-> gpiote.edges, mixed |-> gpiote.mixed,
          wrong |-> gpiote.wrong, missed |-> gpiote.missed]
    BY DEF GpioteOff, OffAgain
  <2>3. /\ gpiote.mixed \in BOOLEAN /\ gpiote.wrong \in BOOLEAN
        /\ gpiote.missed \in BOOLEAN
    BY <1>1
  <2>4. /\ gpiote.call = [enable |-> gpiote.call.enable, user |-> gpiote.call.user,
                         todo |-> gpiote.call.todo, pin |-> gpiote.call.pin]
        /\ gpiote.call.enable \in BOOLEAN /\ gpiote.call.user = 0
        /\ gpiote.call.todo = {} /\ gpiote.call.pin = {}
    BY <1>1 DEF NoCall
  <2> QED BY <1>1, <2>1, <2>2, <2>3, <2>4 DEF GpioteTypeOK
<1>3. SenseInv BY <1>1 DEF SenseInv, Shared, Users
<1>4. EdgeInv BY <1>1 DEF EdgeInv, NoCall
<1> QED BY <1>2, <1>3, <1>4 DEF GpioteInv

LEMMA DeviceGpiote == ASSUME GpioteInv, [Next]_vars PROVE GpioteInv'
<1>1. CASE UNCHANGED gpiote
  BY <1>1 DEF GpioteInv, GpioteTypeOK, SenseInv, EdgeInv, Agrees, Caller, Shared,
              Users
<1>2. CASE PowerCut
  <2>1. gpiote' = [GpioteOff EXCEPT !.level = gpiote.level, !.edges = gpiote.edges]
    BY <1>2 DEF PowerCut
  <2>2. OffAgain' BY <2>1 DEF OffAgain
  <2> QED BY <2>2, GpioteOffOK, PTL
<1>3. CASE Port
  <2>1. GpioteNext BY <1>3 DEF Port
  <2>2. ASSUME NEW masks \in UserMasks,
               app_gpiote_user_register(masks[1], masks[2])
        PROVE  GpioteInv'
    BY <2>2, Registers, GpioteAssumption
  <2> QED BY <2>1, <2>2, CallBegins, CallEnds, PinStep, SenseStep, ToggleStep,
             HandlerStep
          DEF GpioteNext, GpioteCpu
<1>4. CASE StartsUp \/ ErrorReset \/ Pump \/ Flash
  BY <1>1, <1>4 DEF StartsUp, ErrorReset, Pump, Flash, drivers
<1>5. CASE Converter \/ Timer \/ Transfer \/ Serial
  BY <1>1, <1>5 DEF Converter, Timer, Transfer, Serial
<1>6. CASE UNCHANGED vars BY <1>1, <1>6 DEF vars, drivers
<1> QED BY <1>2, <1>3, <1>4, <1>5, <1>6 DEF Next

LEMMA GpioteStart == Init => GpioteInv
<1>1. GpioteOff = [GpioteOff EXCEPT !.level = GpioteOff.level,
                                    !.edges = GpioteOff.edges]
  BY DEF GpioteOff
<1> QED BY <1>1, GpioteOffOK DEF Init, GpioteInit, OffAgain

(* Between calls a pin senses exactly when an enabled user wants it: the   *)
(* walks of app_gpiote_user_enable and app_gpiote_user_disable over the    *)
(* pins (app_gpiote.c:159-245) take no shared pin from a user and leave    *)
(* none on, for any set of pins and of users.                              *)
THEOREM PinsSensedForUsers == Spec => []SensedForUsers
<1>1. GpioteInv => SensedForUsers
  <2> SUFFICES ASSUME GpioteInv, MainFreeOfGpiote PROVE SensedForUsers
    BY DEF SensedForUsers
  <2>1. \A p \in Pins : p \in gpiote.sense <=> Shared(p)
    BY DEF GpioteInv, SenseInv, MainFreeOfGpiote
  <2>2. gpiote.sense \subseteq Pins BY DEF GpioteInv, GpioteTypeOK
  <2> QED BY <2>1, <2>2 DEF SensedForUsers
<1> QED BY <1>1, GpioteStart, DeviceGpiote, PTL DEF Spec

(* Enabled users are told of every edge they registered for, and of the    *)
(* edge it was, until two pins change before gpiote_handler                *)
(* (app_gpiote.c:41-62) runs or one does while pin_event_enable starts.    *)
THEOREM EdgesToldRight == Spec => []EdgesRight
<1>1. GpioteInv => EdgesRight BY DEF GpioteInv, EdgeInv, EdgesRight
<1> QED BY <1>1, GpioteStart, DeviceGpiote, PTL DEF Spec

-----------------------------------------------------------------------------
(* Programming flash ands bits: a word is in its range, and an erased word *)
(* takes any value.                                                        *)
EightBits(b) == \A k \in 1 .. 8 : b[k] \in 0 .. 1

LEMMA OfBitsInByte == ASSUME NEW b, EightBits(b) PROVE OfBits(b) \in 0 .. 255
<1>1. /\ b[1] \in 0 .. 1 /\ b[2] \in 0 .. 1 /\ b[3] \in 0 .. 1 /\ b[4] \in 0 .. 1
      /\ b[5] \in 0 .. 1 /\ b[6] \in 0 .. 1 /\ b[7] \in 0 .. 1 /\ b[8] \in 0 .. 1
  BY DEF EightBits
<1> QED BY <1>1 DEF OfBits

LEMMA BitsOfByte ==
  ASSUME NEW a \in 0 .. 255 PROVE EightBits(BitsOf(a)) /\ OfBits(BitsOf(a)) = a
<1>1. /\ a % 2 \in 0 .. 1 /\ (a \div 2) % 2 \in 0 .. 1 /\ (a \div 4) % 2 \in 0 .. 1
      /\ (a \div 8) % 2 \in 0 .. 1 /\ (a \div 16) % 2 \in 0 .. 1
      /\ (a \div 32) % 2 \in 0 .. 1 /\ (a \div 64) % 2 \in 0 .. 1
      /\ (a \div 128) % 2 \in 0 .. 1
  OBVIOUS
<1>2. EightBits(BitsOf(a)) BY <1>1 DEF EightBits, BitsOf
<1>3. a = (a % 2) + 2 * ((a \div 2) % 2) + 4 * ((a \div 4) % 2)
            + 8 * ((a \div 8) % 2) + 16 * ((a \div 16) % 2)
            + 32 * ((a \div 32) % 2) + 64 * ((a \div 64) % 2)
            + 128 * ((a \div 128) % 2)
  BY SMTT(60)
<1>4. OfBits(BitsOf(a)) = a BY <1>3 DEF OfBits, BitsOf
<1> QED BY <1>2, <1>4

LEMMA AndOfBytes ==
  ASSUME NEW a \in 0 .. 255, NEW b \in 0 .. 255
  PROVE  AndTable[a][b] \in 0 .. 255 /\ AndTable[255][b] = b
<1> DEFINE bits(x) == [k \in 1 .. 8 |-> IF BitsOf(x)[k] = 1 THEN BitsOf(b)[k] ELSE 0]
<1>1. EightBits(BitsOf(b)) /\ OfBits(BitsOf(b)) = b BY BitsOfByte
<1>2. ASSUME NEW x \in 0 .. 255 PROVE AndTable[x][b] = OfBits(bits(x)) BY DEF AndTable
<1>3. EightBits(bits(a)) BY <1>1 DEF EightBits
<1>4. AndTable[a][b] \in 0 .. 255 BY <1>2, <1>3, OfBitsInByte
<1>5. \A k \in 1 .. 8 : BitsOf(255)[k] = 1
  BY DEF BitsOf
<1>6. \A k \in 1 .. 8 : bits(255)[k] = BitsOf(b)[k] BY <1>5
<1>7. OfBits(bits(255)) = OfBits(BitsOf(b))
  <2> HIDE DEF bits
  <2>1. /\ bits(255)[1] = BitsOf(b)[1] /\ bits(255)[2] = BitsOf(b)[2]
        /\ bits(255)[3] = BitsOf(b)[3] /\ bits(255)[4] = BitsOf(b)[4]
        /\ bits(255)[5] = BitsOf(b)[5] /\ bits(255)[6] = BitsOf(b)[6]
        /\ bits(255)[7] = BitsOf(b)[7] /\ bits(255)[8] = BitsOf(b)[8]
    BY <1>6
  <2> QED BY <2>1 DEF OfBits
<1>8. AndTable[255][b] = b
  <2>1. 255 \in 0 .. 255 OBVIOUS
  <2> QED BY <1>1, <1>2, <1>7, <2>1
<1> QED BY <1>4, <1>8

LEMMA HalfBytes ==
  ASSUME NEW b \in HalfWords
  PROVE  /\ b \div 256 \in 0 .. 255 /\ b % 256 \in 0 .. 255
         /\ b = ((b \div 256) * 256) + (b % 256)
<1>1. b \in Nat /\ b <= 65535 BY SMTT(30) DEF HalfWords
<1> QED BY <1>1, SMT

LEMMA HalfOfBytes ==
  ASSUME NEW x \in 0 .. 255, NEW y \in 0 .. 255 PROVE (x * 256) + y \in HalfWords
<1>1. PICK m \in Nat : m = (255 * 256) + 255 BY SMT
<1>2. HalfWords = 0 .. m BY <1>1, SMT DEF HalfWords
<1>3. (x * 256) + y \in Nat /\ (x * 256) + y <= m BY <1>1, SMT
<1> QED BY <1>2, <1>3, SMT

LEMMA SmallHalves ==
  /\ \A n \in Nat : n <= 255 => n \in HalfWords
  /\ 17886 \in HalfWords /\ 65535 \in HalfWords
<1>1. PICK m \in Nat : m = 65535 BY SMT
<1>2. HalfWords = 0 .. m BY <1>1, SMT DEF HalfWords
<1>3. m >= 17886 BY <1>1, SMT
<1>4. 17886 \in HalfWords /\ 65535 \in HalfWords BY SMT DEF HalfWords
<1>5. \A n \in Nat : n <= 255 => n \in 0 .. m BY <1>3, SMT
<1> QED BY <1>2, <1>4, <1>5

LEMMA AndOfHalfWords ==
  ASSUME NEW a \in HalfWords, NEW b \in HalfWords
  PROVE  And16(a, b) \in HalfWords /\ And16(65535, b) = b
<1> DEFINE ah == a \div 256
           al == a % 256
           bh == b \div 256
           bl == b % 256
<1>1. /\ ah \in 0 .. 255 /\ al \in 0 .. 255 /\ bh \in 0 .. 255 /\ bl \in 0 .. 255
      /\ b = (bh * 256) + bl
  BY HalfBytes
<1>2. 65535 \div 256 = 255 /\ 65535 % 256 = 255 BY SMT
<1>3. /\ And16(a, b) = (AndTable[ah][bh] * 256) + AndTable[al][bl]
      /\ And16(65535, b) = (AndTable[255][bh] * 256) + AndTable[255][bl]
  BY <1>2 DEF And16, ByBytes
<1> HIDE DEF ah, al, bh, bl
<1>4. /\ AndTable[ah][bh] \in 0 .. 255 /\ AndTable[al][bl] \in 0 .. 255
      /\ AndTable[255][bh] = bh /\ AndTable[255][bl] = bl
  BY <1>1, AndOfBytes, ZenonT(40)
<1>5. (AndTable[ah][bh] * 256) + AndTable[al][bl] \in HalfWords
  BY <1>4, HalfOfBytes, ZenonT(40)
<1>6. (AndTable[255][bh] * 256) + AndTable[255][bl] = b BY <1>1, <1>4
<1> QED BY <1>3, <1>5, <1>6

LEMMA ProgrammedWord ==
  ASSUME NEW old \in Word32, NEW new \in Word32
  PROVE  Programmed(old, new) \in Word32 /\ Programmed(ERASED, new) = new
<1>1. Word32 = HalfWords \X HalfWords BY DEF Word32
<1>2. /\ old[1] \in HalfWords /\ old[2] \in HalfWords
      /\ new[1] \in HalfWords /\ new[2] \in HalfWords
      /\ new = <<new[1], new[2]>>
  BY <1>1, SMT
<1>3. /\ And16(old[1], new[1]) \in HalfWords /\ And16(old[2], new[2]) \in HalfWords
      /\ And16(65535, new[1]) = new[1] /\ And16(65535, new[2]) = new[2]
  BY <1>2, AndOfHalfWords
<1>4. ERASED[1] = 65535 /\ ERASED[2] = 65535 BY SMT DEF ERASED
<1>5. Programmed(old, new) \in Word32 BY <1>1, <1>3, SMT DEF Programmed
<1>6. Programmed(ERASED, new) = new BY <1>2, <1>3, <1>4, SMT DEF Programmed
<1> QED BY <1>5, <1>6

-----------------------------------------------------------------------------
(* The flash page: what it holds at each point of a call.                  *)
FlashTypeOK ==
  /\ page \in [Places -> Word32]
  /\ flash = [op |-> flash.op, i |-> flash.i, array |-> flash.array,
              header |-> flash.header]
  /\ flash.op \in {"none", "erase", "erase page", "data", "block", "count",
                   "header"}
  /\ flash.op = "none" => flash = Idle
  /\ flash.op \notin {"none", "erase page"} =>
       flash.array \in Inputs /\ flash.header = Header(flash.array)
  /\ flash.op = "erase" => flash.i = 1
  /\ flash.op \in {"data", "block"} => flash.i \in 1 .. Len(flash.array)
  /\ torn \in BOOLEAN /\ kept \subseteq Inputs

(* The page holds the first n words of an array, its count, its header.    *)
Data(words, n) == \A k \in 1 .. n : page[2 + k] = words[k]
Counted(words) == page[2] = <<0, Len(words)>>
Holds(words) ==
  page[1] = Header(words) /\ Counted(words) /\ Data(words, Len(words))
Whole == \E words \in Inputs : Holds(words)

PageOK ==
  CASE flash.op = "data" ->
         /\ page[1] = ERASED /\ page[2] = ERASED /\ Data(flash.array, flash.i - 1)
         /\ \A k \in Places : k >= 2 + flash.i => page[k] = ERASED
    [] flash.op = "count" ->
         /\ page[1] = ERASED /\ page[2] = ERASED
         /\ Data(flash.array, Len(flash.array))
    [] flash.op = "header" ->
         /\ page[1] = ERASED /\ Counted(flash.array)
         /\ Data(flash.array, Len(flash.array))
    [] flash.op = "block" -> page[1] = ERASED
    [] OTHER -> torn \/ page[1] = ERASED \/ Whole

(* A CRC that tells the header of an array from an erased word.            *)
Telling(words) == ble_flash_crc16_compute(words) # 65535

KeptOK ==
  /\ flash.op # "none" => kept = {}
  /\ ~torn => \A words \in kept : Telling(words) => page[1] = Header(words)

FlashInv == FlashTypeOK /\ PageOK /\ KeptOK

(* The facts about arrays and places the steps need.                       *)
LEMMA ArrayFacts ==
  ASSUME NEW words \in Inputs
  PROVE  /\ words \in Seq(Word32) /\ Len(words) \in Nat
         /\ Len(words) < WORD_COUNT_MAX /\ WORD_COUNT_MAX \in Nat
         /\ WORD_COUNT_MAX <= 255
         /\ Header(words) \in Word32 /\ <<0, Len(words)>> \in Word32
         /\ \A k \in 1 .. Len(words) : words[k] \in Word32 /\ 2 + k \in Places
         /\ {1, 2} \subseteq Places
<1>1. /\ WORD_COUNT_MAX \in 0 .. 255 /\ Inputs \subseteq Seq(Word32)
      /\ Len(words) < WORD_COUNT_MAX
      /\ ble_flash_crc16_compute(words) \in HalfWords
  BY FlashAssumption
<1>2. words \in Seq(Word32) BY <1>1
<1>3. Len(words) \in Nat BY <1>2, LenProperties
<1>4. WORD_COUNT_MAX \in Nat /\ WORD_COUNT_MAX <= 255 BY <1>1
<1>5. Header(words) \in Word32
  <2>1. ble_flash_crc16_compute(words) \in HalfWords BY <1>1
  <2>2. MAGIC \in HalfWords BY SmallHalves DEF MAGIC
  <2> QED BY <2>1, <2>2 DEF Header, Word32
<1>6. <<0, Len(words)>> \in Word32
  <2>1. 0 \in HalfWords /\ Len(words) \in HalfWords BY <1>1, <1>3, <1>4, SmallHalves
  <2> QED BY <2>1 DEF Word32
<1>7. \A k \in 1 .. Len(words) : words[k] \in Word32 BY <1>2, ElementOfSeq
<1>8. \A k \in 1 .. Len(words) : 2 + k \in Places
  BY <1>1, <1>3, <1>4 DEF Places
<1>9. {1, 2} \subseteq Places BY <1>4 DEF Places
<1>10. Len(words) < WORD_COUNT_MAX BY <1>1
<1> QED BY <1>2, <1>3, <1>4, <1>5, <1>6, <1>7, <1>8, <1>9, <1>10

LEMMA BlankPage ==
  /\ Blank \in [Places -> Word32] /\ 1 \in Places /\ 2 \in Places
  /\ ERASED \in Word32 /\ \A k \in Places : Blank[k] = ERASED
<1>1. WORD_COUNT_MAX \in Nat BY FlashAssumption
<1>2. ERASED \in Word32 BY SmallHalves DEF ERASED, Word32
<1> QED BY <1>1, <1>2 DEF Blank, Places

(* Where the call is, by what it programs.                                 *)
LEMMA WordFacts ==
  ASSUME FlashInv, Programs
  PROVE  /\ flash.array \in Inputs /\ flash.header = Header(flash.array)
         /\ PlaceOf \in Places /\ Word \in Word32
         /\ flash.op = "count" => PlaceOf = 2 /\ Word = <<0, Len(flash.array)>>
         /\ flash.op = "header" => PlaceOf = 1 /\ Word = flash.header
         /\ flash.op \in {"data", "block"} =>
              /\ PlaceOf = 2 + flash.i /\ Word = flash.array[flash.i]
              /\ flash.i \in 1 .. Len(flash.array)
<1>1. /\ flash.array \in Inputs /\ flash.header = Header(flash.array)
      /\ flash.op \in {"data", "block"} => flash.i \in 1 .. Len(flash.array)
      /\ flash.op \in {"data", "block", "count", "header"}
  BY DEF FlashInv, FlashTypeOK, Programs
<1>2. CASE flash.op = "count"
  BY <1>1, <1>2, ArrayFacts, BlankPage DEF PlaceOf, Word
<1>3. CASE flash.op = "header"
  BY <1>1, <1>3, ArrayFacts, BlankPage DEF PlaceOf, Word
<1>4. CASE flash.op \in {"data", "block"}
  BY <1>1, <1>4, ArrayFacts DEF PlaceOf, Word
<1> QED BY <1>1, <1>2, <1>3, <1>4

LEMMA CompletePage ==
  ASSUME FlashInv, Programs
  PROVE  /\ Complete \in [Places -> Word32]
         /\ Complete[PlaceOf] = Programmed(page[PlaceOf], Word)
         /\ page[PlaceOf] = ERASED => Complete[PlaceOf] = Word
         /\ \A k \in Places : k # PlaceOf => Complete[k] = page[k]
<1>1. /\ PlaceOf \in Places /\ Word \in Word32 BY WordFacts
<1>2. page \in [Places -> Word32] BY DEF FlashInv, FlashTypeOK
<1>3. page[PlaceOf] \in Word32 BY <1>1, <1>2
<1>4. /\ Programmed(page[PlaceOf], Word) \in Word32
      /\ Programmed(ERASED, Word) = Word
  BY <1>1, <1>3, ProgrammedWord
<1>5. Complete = [page EXCEPT ![PlaceOf] = Programmed(page[PlaceOf], Word)]
  BY DEF Complete, Programs, Erasing
<1> QED BY <1>1, <1>2, <1>4, <1>5

(* A write to the data is no write to the header.                          *)
LEMMA Begins ==
  ASSUME FlashInv, flash = Idle,
         NEW op \in {"erase", "erase page", "block"}, NEW words,
         op # "erase page" => words \in Inputs,
         op = "block" => words # <<>> /\ page = Blank,
         Begin(op, words)
  PROVE  FlashInv'
<1>1. /\ flash' = [op |-> op, i |-> 1, array |-> words, header |-> Header(words)]
      /\ kept' = {} /\ page' = page /\ torn' = torn
  BY DEF Begin
<1>2. /\ flash'.op = op /\ flash'.i = 1 /\ flash'.array = words
      /\ flash'.header = Header(words)
  BY <1>1
<1>3. flash.op = "none" BY DEF Idle
<1>4. FlashTypeOK'
  <2>1. op = "block" => 1 \in 1 .. Len(words)
    <3> SUFFICES ASSUME op = "block" PROVE 1 \in 1 .. Len(words) OBVIOUS
    <3>1. words \in Seq(Word32) /\ words # <<>> /\ Len(words) \in Nat
      BY ArrayFacts
    <3>2. Len(words) # 0 BY <3>1, EmptySeq
    <3> QED BY <3>1, <3>2
  <2>2. /\ page \in [Places -> Word32] /\ torn \in BOOLEAN
    BY DEF FlashInv, FlashTypeOK
  <2> QED BY <1>1, <1>2, <2>1, <2>2 DEF FlashTypeOK
<1>5. PageOK'
  <2>1. torn \/ page[1] = ERASED \/ Whole BY <1>3 DEF FlashInv, PageOK
  <2>2. Whole' <=> Whole BY <1>1 DEF Whole, Holds, Counted, Data
  <2>3. op = "block" => page[1] = ERASED BY BlankPage
  <2> QED BY <1>1, <1>2, <2>1, <2>2, <2>3 DEF PageOK
<1>6. KeptOK' BY <1>1 DEF KeptOK
<1> QED BY <1>4, <1>5, <1>6 DEF FlashInv

(* Whatever array has this CRC, the header that is there is its header.    *)
LEMMA WriteBegins ==
  ASSUME FlashInv, NEW words \in Inputs, PageWrite(words) PROVE FlashInv'
<1>1. flash = Idle BY DEF PageWrite
<1>2. CASE page[1][2] # ble_flash_crc16_compute(words)
  BY <1>1, <1>2, Begins DEF PageWrite
<1>3. CASE page[1][2] = ble_flash_crc16_compute(words)
  <2>1. /\ kept' = {words} /\ page' = page /\ flash' = flash /\ torn' = torn
    BY <1>3 DEF PageWrite
  <2>2. FlashTypeOK' BY <2>1 DEF FlashInv, FlashTypeOK
  <2>3. PageOK' BY <2>1 DEF FlashInv, PageOK, Whole, Holds, Counted, Data
  <2>4. flash.op = "none" BY <1>1 DEF Idle
  <2>5. ASSUME ~torn, Telling(words)
        PROVE  page[1] = Header(words)
    <3>1. page[1] # ERASED BY <1>3, <2>5, SMT DEF ERASED, Telling
    <3>2. PICK d \in Inputs : page[1] = Header(d)
      BY <2>4, <2>5, <3>1 DEF FlashInv, PageOK, Whole, Holds
    <3>3. page[1] = <<MAGIC, ble_flash_crc16_compute(d)>> BY <3>2 DEF Header
    <3> QED BY <1>3, <3>3 DEF Header
  <2>6. KeptOK' BY <2>1, <2>4, <2>5 DEF KeptOK
  <2> QED BY <2>2, <2>3, <2>6 DEF FlashInv
<1> QED BY <1>2, <1>3

LEMMA EraseStep == ASSUME FlashInv, Erase PROVE FlashInv'
<1>1. /\ flash.op \in {"erase", "erase page"} /\ page' = Blank /\ torn' = FALSE
      /\ flash' = (IF flash.op = "erase page" THEN Idle
                   ELSE [flash EXCEPT !.op = IF flash.array = <<>> THEN "count"
                                             ELSE "data"])
      /\ kept' = kept
  BY DEF Erase, Erasing
<1>2. FlashTypeOK BY DEF FlashInv
<1>7. kept = {} BY <1>1 DEF FlashInv, KeptOK
<1>3. /\ page' \in [Places -> Word32] /\ page'[1] = ERASED /\ page'[2] = ERASED
      /\ \A k \in Places : page'[k] = ERASED
  BY <1>1, BlankPage
<1>4. KeptOK' BY <1>1, <1>7 DEF KeptOK
<1>5. CASE flash.op = "erase page"
  <2>1. flash' = Idle /\ flash'.op = "none" BY <1>1, <1>5 DEF Idle
  <2>2. FlashTypeOK'
    <3>1. flash' = [op |-> flash'.op, i |-> flash'.i, array |-> flash'.array,
                    header |-> flash'.header]
      BY <2>1 DEF Idle
    <3> QED BY <1>1, <1>2, <1>3, <2>1, <3>1 DEF FlashTypeOK
  <2>3. PageOK' BY <1>3, <2>1 DEF PageOK
  <2> QED BY <1>4, <2>2, <2>3 DEF FlashInv
<1>6. CASE flash.op = "erase"
  <2>1. /\ flash.array \in Inputs /\ flash.header = Header(flash.array)
        /\ flash.i = 1
    BY <1>2, <1>6 DEF FlashTypeOK
  <2>2. /\ flash'.op = IF flash.array = <<>> THEN "count" ELSE "data"
        /\ flash'.i = 1 /\ flash'.array = flash.array
        /\ flash'.header = flash.header
        /\ flash' = [op |-> flash'.op, i |-> flash'.i, array |-> flash'.array,
                     header |-> flash'.header]
    BY <1>1, <1>2, <1>6, <2>1 DEF FlashTypeOK
  <2>3. flash.array \in Seq(Word32) /\ Len(flash.array) \in Nat
    BY <2>1, ArrayFacts
  <2>4. Len(flash.array) = 0 <=> flash.array = <<>> BY <2>3, EmptySeq
  <2>5. FlashTypeOK'
    <3>1. flash'.op = "data" => flash'.i \in 1 .. Len(flash'.array)
      BY <2>2, <2>3, <2>4
    <3> QED BY <1>1, <1>2, <1>3, <2>1, <2>2, <3>1 DEF FlashTypeOK
  <2>6. PageOK'
    <3>1. CASE flash.array = <<>>
      <4>1. Data(flash.array, Len(flash.array))' BY <2>2, <2>4, <3>1 DEF Data
      <4> QED BY <1>3, <2>2, <3>1, <4>1 DEF PageOK
    <3>2. CASE flash.array # <<>>
      <4>1. Data(flash.array, flash.i - 1)' BY <2>2 DEF Data
      <4> QED BY <1>3, <2>2, <3>2, <4>1 DEF PageOK
    <3> QED BY <3>1, <3>2
  <2> QED BY <1>4, <2>5, <2>6 DEF FlashInv
<1> QED BY <1>1, <1>5, <1>6

(* A word goes where the page is erased: it is as written afterwards.      *)
LEMMA WordStep == ASSUME FlashInv, WriteWord PROVE FlashInv'
<1> DEFINE a == flash.array
<1>1. /\ Programs /\ page' = Complete /\ torn' = torn
      /\ flash' = AfterWord
      /\ kept' = (IF flash.op = "header" THEN {flash.array} ELSE kept)
  BY DEF WriteWord, Complete, Programs, Erasing
<1>2. FlashTypeOK BY DEF FlashInv
<1>3. /\ a \in Inputs /\ flash.header = Header(a)
      /\ a \in Seq(Word32) /\ Len(a) \in Nat
  BY <1>1, WordFacts, ArrayFacts
<1>4. /\ page' \in [Places -> Word32]
      /\ page[PlaceOf] = ERASED => page'[PlaceOf] = Word
      /\ \A k \in Places : k # PlaceOf => page'[k] = page[k]
  BY <1>1, CompletePage
<1>5. 1 \in Places /\ 2 \in Places BY BlankPage
<1>6. \A k \in 1 .. Len(a) : 2 + k \in Places BY <1>3, ArrayFacts
<1>7. /\ flash = [op |-> flash.op, i |-> flash.i, array |-> flash.array,
                  header |-> flash.header]
      /\ torn \in BOOLEAN /\ kept \subseteq Inputs
  BY <1>2 DEF FlashTypeOK
<1>8. CASE flash.op \in {"data", "block"}
  <2>1. /\ PlaceOf = 2 + flash.i /\ Word = a[flash.i] /\ flash.i \in 1 .. Len(a)
    BY <1>1, <1>8, WordFacts
  <2>2. page'[1] = page[1] /\ page'[2] = page[2] BY <1>3, <1>4, <1>5, <2>1
  <2>3. kept = {} /\ kept' = {} BY <1>1, <1>8 DEF FlashInv, KeptOK
  <2>4. KeptOK' BY <2>3 DEF KeptOK
  <2>5. flash' =
          IF flash.i < Len(a) THEN [flash EXCEPT !.i = @ + 1]
          ELSE IF flash.op = "data" THEN [flash EXCEPT !.op = "count"] ELSE Idle
    BY <1>1, <1>8 DEF AfterWord
  <2>6. CASE flash.i < Len(a)
    <3>1. /\ flash'.op = flash.op /\ flash'.i = flash.i + 1 /\ flash'.array = a
          /\ flash'.header = flash.header
          /\ flash' = [op |-> flash'.op, i |-> flash'.i, array |-> flash'.array,
                       header |-> flash'.header]
      BY <1>7, <2>5, <2>6
    <3>2. flash'.i \in 1 .. Len(a) BY <1>3, <2>1, <2>6, <3>1
    <3>3. FlashTypeOK'
      BY <1>1, <1>2, <1>3, <1>4, <1>8, <2>3, <3>1, <3>2 DEF FlashTypeOK
    <3>4. PageOK'
      <4>1. CASE flash.op = "data"
        <5>1. /\ page[1] = ERASED /\ page[2] = ERASED /\ Data(a, flash.i - 1)
              /\ \A k \in Places : k >= 2 + flash.i => page[k] = ERASED
          BY <4>1 DEF FlashInv, PageOK
        <5>2. 2 + flash.i \in Places BY <1>6, <2>1
        <5>3. page[PlaceOf] = ERASED BY <2>1, <5>1, <5>2
        <5>4. \A k \in 1 .. flash.i : page'[2 + k] = a[k]
          <6> TAKE k \in 1 .. flash.i
          <6>1. CASE k = flash.i BY <1>4, <2>1, <5>3, <6>1
          <6>2. CASE k # flash.i
            <7>1. k \in 1 .. (flash.i - 1) /\ 2 + k # PlaceOf /\ k \in 1 .. Len(a)
              BY <1>3, <2>1, <6>2
            <7> QED BY <1>4, <1>6, <5>1, <7>1 DEF Data
          <6> QED BY <6>1, <6>2
        <5>5. flash'.i - 1 = flash.i BY <2>1, <3>1
        <5>6. Data(flash.array, flash.i - 1)' BY <3>1, <5>4, <5>5 DEF Data
        <5>7. \A k \in Places : k >= 2 + flash'.i => page'[k] = ERASED
          <6> SUFFICES ASSUME NEW k \in Places, k >= 2 + flash'.i
                       PROVE  page'[k] = ERASED
            OBVIOUS
          <6>1. k \in Int BY FlashAssumption DEF Places
          <6>2. k >= 2 + flash.i /\ k # PlaceOf BY <2>1, <3>1, <6>1
          <6> QED BY <1>4, <5>1, <6>2
        <5> QED BY <2>2, <3>1, <4>1, <5>1, <5>6, <5>7 DEF PageOK
      <4>2. CASE flash.op = "block"
        BY <2>2, <3>1, <4>2 DEF FlashInv, PageOK
      <4> QED BY <1>8, <4>1, <4>2
    <3> QED BY <2>4, <3>3, <3>4 DEF FlashInv
  <2>7. CASE ~(flash.i < Len(a))
    <3>1. flash.i = Len(a) BY <1>3, <2>1, <2>7
    <3>2. CASE flash.op = "data"
      <4>1. /\ flash'.op = "count" /\ flash'.i = flash.i /\ flash'.array = a
            /\ flash'.header = flash.header
            /\ flash' = [op |-> flash'.op, i |-> flash'.i, array |-> flash'.array,
                         header |-> flash'.header]
        BY <1>7, <2>5, <2>7, <3>2
      <4>2. FlashTypeOK'
        BY <1>1, <1>2, <1>3, <1>4, <2>3, <4>1 DEF FlashTypeOK
      <4>3. /\ page[1] = ERASED /\ page[2] = ERASED /\ Data(a, flash.i - 1)
            /\ \A k \in Places : k >= 2 + flash.i => page[k] = ERASED
        BY <3>2 DEF FlashInv, PageOK
      <4>4. 2 + flash.i \in Places BY <1>6, <2>1
      <4>5. page[PlaceOf] = ERASED BY <2>1, <4>3, <4>4
      <4>6. \A k \in 1 .. Len(a) : page'[2 + k] = a[k]
        <5> TAKE k \in 1 .. Len(a)
        <5>1. CASE k = flash.i BY <1>4, <2>1, <4>5, <5>1
        <5>2. CASE k # flash.i
          <6>1. k \in 1 .. (flash.i - 1) /\ 2 + k # PlaceOf
            BY <1>3, <2>1, <3>1, <5>2
          <6> QED BY <1>4, <1>6, <4>3, <6>1 DEF Data
        <5> QED BY <5>1, <5>2
      <4>7. Data(flash.array, Len(flash.array))' BY <4>1, <4>6 DEF Data
      <4>8. PageOK' BY <2>2, <4>1, <4>3, <4>7 DEF PageOK
      <4> QED BY <2>4, <4>2, <4>8 DEF FlashInv
    <3>3. CASE flash.op = "block"
      <4>1. flash' = Idle /\ flash'.op = "none" BY <2>5, <2>7, <3>3 DEF Idle
      <4>2. FlashTypeOK'
        <5>1. flash' = [op |-> flash'.op, i |-> flash'.i, array |-> flash'.array,
                        header |-> flash'.header]
          BY <4>1 DEF Idle
        <5> QED BY <1>1, <1>2, <1>4, <2>3, <4>1, <5>1 DEF FlashTypeOK
      <4>3. PageOK' BY <2>2, <3>3, <4>1 DEF FlashInv, PageOK
      <4> QED BY <2>4, <4>2, <4>3 DEF FlashInv
    <3> QED BY <1>8, <3>2, <3>3
  <2> QED BY <2>6, <2>7
<1>9. CASE flash.op = "count"
  <2>1. PlaceOf = 2 /\ Word = <<0, Len(a)>> BY <1>1, <1>9, WordFacts
  <2>2. page[1] = ERASED /\ page[2] = ERASED /\ Data(a, Len(a))
    BY <1>9 DEF FlashInv, PageOK
  <2>3. page'[1] = ERASED /\ page'[2] = <<0, Len(a)>>
    BY <1>4, <1>5, <2>1, <2>2
  <2>4. kept = {} /\ kept' = {} BY <1>1, <1>9 DEF FlashInv, KeptOK
  <2>5. KeptOK' BY <2>4 DEF KeptOK
  <2>6. /\ flash'.op = "header" /\ flash'.array = a
        /\ flash'.header = flash.header
        /\ flash' = [op |-> flash'.op, i |-> flash'.i, array |-> flash'.array,
                     header |-> flash'.header]
    BY <1>1, <1>7, <1>9 DEF AfterWord
  <2>7. FlashTypeOK' BY <1>1, <1>2, <1>3, <1>4, <2>4, <2>6 DEF FlashTypeOK
  <2>8. Data(flash.array, Len(flash.array))'
    <3>1. \A k \in 1 .. Len(a) : page'[2 + k] = page[2 + k]
      BY <1>3, <1>4, <1>6, <2>1
    <3> QED BY <2>2, <2>6, <3>1 DEF Data
  <2>9. PageOK' BY <2>3, <2>6, <2>8 DEF PageOK, Counted
  <2> QED BY <2>5, <2>7, <2>9 DEF FlashInv
<1>10. CASE flash.op = "header"
  <2>1. PlaceOf = 1 /\ Word = Header(a) BY <1>1, <1>3, <1>10, WordFacts
  <2>2. page[1] = ERASED /\ Counted(a) /\ Data(a, Len(a))
    BY <1>10 DEF FlashInv, PageOK
  <2>3. page'[1] = Header(a) /\ page'[2] = <<0, Len(a)>>
    BY <1>4, <1>5, <2>1, <2>2 DEF Counted
  <2>4. \A k \in 1 .. Len(a) : page'[2 + k] = a[k]
    <3>1. \A k \in 1 .. Len(a) : page'[2 + k] = page[2 + k]
      BY <1>3, <1>4, <1>6, <2>1
    <3> QED BY <2>2, <3>1 DEF Data
  <2>5. kept' = {a} BY <1>1, <1>10
  <2>6. flash' = Idle /\ flash'.op = "none" BY <1>1, <1>10 DEF AfterWord, Idle
  <2>7. FlashTypeOK'
    <3>1. flash' = [op |-> flash'.op, i |-> flash'.i, array |-> flash'.array,
                    header |-> flash'.header]
      BY <2>6 DEF Idle
    <3> QED BY <1>1, <1>3, <1>4, <1>7, <2>5, <2>6, <3>1 DEF FlashTypeOK
  <2>8. Whole'
    <3>1. PICK words \in Inputs : words = a BY <1>3
    <3>2. Holds(words)' BY <2>3, <2>4, <3>1 DEF Holds, Counted, Data
    <3> QED BY <3>2 DEF Whole
  <2>9. PageOK' BY <2>6, <2>8 DEF PageOK
  <2>10. KeptOK' BY <2>3, <2>5, <2>6 DEF KeptOK
  <2> QED BY <2>7, <2>9, <2>10 DEF FlashInv
<1> QED BY <1>1, <1>8, <1>9, <1>10 DEF Programs

LEMMA CutKept ==
  ASSUME FlashInv, FlashCut, page' \in [Places -> Word32],
         torn' \/ page'[1] = ERASED \/ Whole',
         \/ kept = {}
         \/ ~torn' => \A words \in kept : Telling(words) => page'[1] = Header(words)
  PROVE  FlashInv'
<1>1. /\ flash' = Idle /\ flash'.op = "none" /\ kept' = kept
      /\ torn' = (torn \/ page' \notin {page, Complete})
  BY DEF FlashCut, Idle
<1>2. torn \in BOOLEAN /\ kept \subseteq Inputs BY DEF FlashInv, FlashTypeOK
<1>3. torn' \in BOOLEAN BY <1>1, <1>2
<1>4. flash' = [op |-> flash'.op, i |-> flash'.i, array |-> flash'.array,
                header |-> flash'.header]
  BY <1>1 DEF Idle
<1>5. FlashTypeOK' BY <1>1, <1>2, <1>3, <1>4 DEF FlashTypeOK
<1>6. PageOK' BY <1>1 DEF PageOK
<1>7. KeptOK' BY <1>1 DEF KeptOK
<1> QED BY <1>5, <1>6, <1>7 DEF FlashInv

(* What a cut leaves: the page as it was or as it was to be, or torn.      *)
LEMMA CutStep == ASSUME FlashInv, FlashCut PROVE FlashInv'
<1>1. /\ page' \in PagesAfterCut /\ flash' = Idle /\ flash'.op = "none"
      /\ kept' = kept /\ torn' = (torn \/ page' \notin {page, Complete})
  BY DEF FlashCut, Idle
<1>2. FlashTypeOK BY DEF FlashInv
<1>3. page \in [Places -> Word32] BY <1>2 DEF FlashTypeOK
<1>4. /\ Blank \in [Places -> Word32] /\ 1 \in Places /\ 2 \in Places
      /\ Blank[1] = ERASED /\ ERASED \in Word32
  BY BlankPage
<1>5. Whole /\ page' = page => Whole' BY DEF Whole, Holds, Counted, Data
<1>6. CASE Erasing
  <2>1. PICK reached \in SUBSET Places :
          page' = [k \in Places |-> IF k \in reached THEN ERASED ELSE page[k]]
    BY <1>1, <1>6 DEF PagesAfterCut
  <2>2. page' \in [Places -> Word32] BY <1>3, <1>4, <2>1
  <2>3. Complete = Blank BY <1>6 DEF Complete
  <2>4. torn \/ page[1] = ERASED \/ Whole
    BY <1>6 DEF Erasing, FlashInv, PageOK
  <2>5. torn' \/ page'[1] = ERASED \/ Whole'
    <3>1. CASE torn \/ page' \notin {page, Complete} BY <1>1, <3>1
    <3>2. CASE page' = page /\ ~torn BY <1>5, <2>4, <3>2
    <3>3. CASE page' = Complete BY <1>4, <2>3, <3>3
    <3> QED BY <3>1, <3>2, <3>3
  <2>6. kept = {} BY <1>6 DEF Erasing, FlashInv, KeptOK
  <2> QED BY <1>1, <2>2, <2>5, <2>6, CutKept
<1>7. CASE Programs
  <2>1. PICK high \in {page[PlaceOf][1], Complete[PlaceOf][1]},
             low \in {page[PlaceOf][2], Complete[PlaceOf][2]} :
          page' = [page EXCEPT ![PlaceOf] = <<high, low>>]
    <3>1. ~Erasing BY <1>7 DEF Programs, Erasing
    <3>2. PagesAfterCut =
            {[page EXCEPT ![PlaceOf] = <<high, low>>] :
               high \in {page[PlaceOf][1], Complete[PlaceOf][1]},
               low \in {page[PlaceOf][2], Complete[PlaceOf][2]}}
      BY <1>7, <3>1 DEF PagesAfterCut
    <3> QED BY <1>1, <3>2, SMT
  <2>2. /\ PlaceOf \in Places
        /\ page[PlaceOf] \in Word32 /\ Complete[PlaceOf] \in Word32
    BY <1>3, <1>7, WordFacts, CompletePage
  <2>3. <<high, low>> \in Word32 BY <2>2 DEF Word32
  <2>4. page' \in [Places -> Word32] BY <1>3, <2>1, <2>2, <2>3
  <2>5. kept = {} BY <1>7 DEF Programs, FlashInv, KeptOK
  <2>6. \A k \in Places : k # PlaceOf => page'[k] = page[k]
    BY <1>3, <2>1, <2>2
  <2>7. CASE flash.op \in {"data", "block", "count"}
    <3>1. PlaceOf # 1
      <4>1. CASE flash.op = "count" BY <1>7, <4>1, WordFacts
      <4>2. CASE flash.op \in {"data", "block"}
        <5>1. PlaceOf = 2 + flash.i /\ flash.i \in 1 .. Len(flash.array)
          BY <1>7, <4>2, WordFacts
        <5>2. Len(flash.array) \in Nat BY <1>7, WordFacts, ArrayFacts
        <5> QED BY <5>1, <5>2
      <4> QED BY <2>7, <4>1, <4>2
    <3>2. page[1] = ERASED BY <2>7 DEF FlashInv, PageOK
    <3>3. page'[1] = ERASED BY <1>4, <2>6, <3>1, <3>2
    <3> QED BY <1>1, <2>4, <2>5, <3>3, CutKept
  <2>8. CASE flash.op = "header"
    <3>1. CASE page' = page
      <4>1. page[1] = ERASED BY <2>8 DEF FlashInv, PageOK
      <4> QED BY <1>1, <2>4, <2>5, <3>1, <4>1, CutKept
    <3>2. CASE page' = Complete
      <4>1. /\ page[1] = ERASED /\ Counted(flash.array)
            /\ Data(flash.array, Len(flash.array))
        BY <2>8 DEF FlashInv, PageOK
      <4>2. PICK words \in Inputs : words = flash.array BY <1>7, WordFacts
      <4>3. /\ PlaceOf = 1 /\ Word = Header(words)
        BY <1>7, <2>8, <4>2, WordFacts
      <4>4. page'[1] = Header(words) BY <1>7, <3>2, <4>1, <4>3, CompletePage
      <4>5. page'[2] = page[2] BY <1>4, <2>6, <4>3
      <4>6. \A k \in 1 .. Len(words) : page'[2 + k] = page[2 + k]
        <5> TAKE k \in 1 .. Len(words)
        <5>1. 2 + k \in Places /\ Len(words) \in Nat BY ArrayFacts
        <5> QED BY <2>6, <4>3, <5>1
      <4>7. Holds(words)'
        BY <4>1, <4>2, <4>4, <4>5, <4>6 DEF Holds, Counted, Data
      <4>8. Whole' BY <4>7 DEF Whole
      <4> QED BY <1>1, <2>4, <2>5, <4>8, CutKept
    <3>3. CASE page' \notin {page, Complete}
      BY <1>1, <2>4, <2>5, <3>3, CutKept
    <3> QED BY <3>1, <3>2, <3>3
  <2> QED BY <1>7, <2>7, <2>8 DEF Programs
<1>8. CASE ~Erasing /\ ~Programs
  <2>1. page' = page /\ Complete = page
    BY <1>1, <1>8 DEF PagesAfterCut, Complete
  <2>2. flash.op = "none" BY <1>2, <1>8 DEF FlashTypeOK, Erasing, Programs
  <2>3. torn' = torn BY <1>1, <1>2, <2>1 DEF FlashTypeOK
  <2>4. torn' \/ page'[1] = ERASED \/ Whole'
    BY <1>5, <2>1, <2>2, <2>3 DEF FlashInv, PageOK
  <2>5. ~torn => \A words \in kept : Telling(words) => page[1] = Header(words)
    BY DEF FlashInv, KeptOK
  <2> QED BY <1>1, <1>3, <2>1, <2>3, <2>4, <2>5, CutKept
<1> QED BY <1>6, <1>7, <1>8

LEMMA RadioStep ==
  ASSUME FlashInv, NEW active \in BOOLEAN, RadioActiveEvt(active) PROVE FlashInv'
BY DEF RadioActiveEvt, FlashInv, FlashTypeOK, PageOK, KeptOK, Whole, Holds,
       Counted, Data

LEMMA DeviceFlash == ASSUME FlashInv, [Next]_vars PROVE FlashInv'
<1>1. CASE UNCHANGED flashVars
  BY <1>1 DEF flashVars, FlashInv, FlashTypeOK, PageOK, KeptOK, Whole, Holds,
              Counted, Data
<1>2. CASE PowerCut BY <1>2, CutStep DEF PowerCut
<1>3. CASE Flash
  <2>1. FlashNext BY <1>3 DEF Flash
  <2>2. ASSUME NEW words \in Inputs, BlockWrite(words) PROVE FlashInv'
    <3>1. flash = Idle /\ page = Blank /\ words # <<>> /\ Begin("block", words)
      BY <2>2 DEF BlockWrite
    <3> QED BY <3>1, Begins
  <2>3. ASSUME PageErase PROVE FlashInv'
    <3>1. flash = Idle /\ Begin("erase page", <<>>) BY <2>3 DEF PageErase
    <3> QED BY <3>1, Begins
  <2> QED BY <2>1, <2>2, <2>3, WriteBegins, EraseStep, WordStep, RadioStep
          DEF FlashNext, FlashCpu
<1>4. CASE StartsUp \/ ErrorReset \/ Pump \/ Port
  BY <1>1, <1>4 DEF StartsUp, ErrorReset, Pump, Port
<1>5. CASE Converter \/ Timer \/ Transfer \/ Serial
  BY <1>1, <1>5 DEF Converter, Timer, Transfer, Serial
<1>6. CASE UNCHANGED vars BY <1>1, <1>6 DEF vars
<1> QED BY <1>2, <1>3, <1>4, <1>5, <1>6 DEF Next

LEMMA FlashStart == FlashInit => FlashInv
<1> SUFFICES ASSUME FlashInit PROVE FlashInv OBVIOUS
<1>1. /\ page = Blank /\ flash = Idle /\ kept = {} /\ torn = FALSE
      /\ flash.op = "none"
  BY DEF FlashInit, Idle
<1>2. flash = [op |-> flash.op, i |-> flash.i, array |-> flash.array,
               header |-> flash.header]
  BY <1>1 DEF Idle
<1>3. FlashTypeOK BY <1>1, <1>2, BlankPage DEF FlashTypeOK
<1>4. PageOK BY <1>1, BlankPage DEF PageOK
<1>5. KeptOK BY <1>1 DEF KeptOK
<1> QED BY <1>3, <1>4, <1>5 DEF FlashInv

(* The array a header and a count are of is what ble_flash_page_read finds.*)
LEMMA Found == ASSUME FlashInv, NEW d \in Inputs, Holds(d) PROVE PageRead = {d}
<1>1. /\ d \in Seq(Word32) /\ Len(d) \in Nat /\ Len(d) < WORD_COUNT_MAX
      /\ WORD_COUNT_MAX \in Nat
  BY ArrayFacts
<1>2. /\ page[1] = <<MAGIC, ble_flash_crc16_compute(d)>>
      /\ page[2] = <<0, Len(d)>> /\ \A k \in 1 .. Len(d) : page[2 + k] = d[k]
  BY DEF Holds, Counted, Data, Header
<1>3. page[2][2] % (WORD_COUNT_MAX + 1) = Len(d)
  <2>1. page[2][2] = Len(d) BY <1>2
  <2>2. \A m, n \in Nat : n < m => n % m = n BY SMT
  <2>3. WORD_COUNT_MAX + 1 \in Nat /\ Len(d) < WORD_COUNT_MAX + 1 BY <1>1
  <2> QED BY <1>1, <2>1, <2>2, <2>3
<1>4. page[1][1] = MAGIC BY <1>2
<1> DEFINE words == SubSeq(page, 3, 2 + Len(d))
<1>5. words = d
  <2>1. words = [k \in 1 .. Len(d) |-> page[2 + k]]
    <3>1. words = [k \in 1 .. (((2 + Len(d)) - 3) + 1) |-> page[(k + 3) - 1]]
      OBVIOUS
    <3>2. ((2 + Len(d)) - 3) + 1 = Len(d) BY <1>1
    <3>3. \A k \in 1 .. Len(d) : (k + 3) - 1 = 2 + k BY <1>1
    <3> QED BY <3>1, <3>2, <3>3
  <2>2. d = [k \in 1 .. Len(d) |-> d[k]] BY <1>1
  <2> QED BY <1>2, <2>1, <2>2
<1> QED BY <1>2, <1>3, <1>4, <1>5 DEF PageRead, Header

(* Once ble_flash_page_write (ble_flash.c:176-227) has returned, a page    *)
(* that no cut tore holds an array with the CRC of the one written last,   *)
(* and ble_flash_page_read finds it: for any arrays and any cuts between   *)
(* the words, the skipped writes of line 199 included.                     *)
THEOREM WritesLast == Spec => []Durable
<1>1. FlashInv => Durable
  <2> SUFFICES ASSUME FlashInv, flash = Idle, ~torn, NEW words \in kept,
                      Telling(words)
               PROVE  \E read \in PageRead : Header(read) = Header(words)
    BY DEF Durable, Telling
  <2>1. page[1] = Header(words) BY DEF FlashInv, KeptOK
  <2>2. page[1] # ERASED
    <3>1. page[1][2] # 65535 BY <2>1 DEF Header, Telling
    <3> QED BY <3>1, SMT DEF ERASED
  <2>3. flash.op = "none" BY DEF Idle
  <2>4. PICK d \in Inputs : Holds(d) BY <2>2, <2>3 DEF FlashInv, PageOK, Whole
  <2>5. PageRead = {d} BY <2>4, Found
  <2> QED BY <2>1, <2>4, <2>5 DEF Holds
<1> QED BY <1>1, FlashStart, DeviceFlash, PTL DEF Init, Spec

-----------------------------------------------------------------------------
(* What n words of an array are when some of them are erased.              *)
Left(words, n, reached) ==
  [k \in 1 .. n |-> IF k \in reached \/ k > Len(words) THEN ERASED ELSE words[k]]

(* What the 16 bits of the CRC must tell: no array of which some words are *)
(* erased, or read on to a count that is erased, has the CRC of the whole  *)
(* one or that of a header of which the low half is erased, unless it is   *)
(* itself an array the caller writes.                                      *)
CrcTells ==
  \A words \in Inputs :
    \A n \in {Len(words), ERASED[2] % (WORD_COUNT_MAX + 1)} :
      \A reached \in SUBSET (1 .. n) :
        LET left == Left(words, n, reached)
        IN  ble_flash_crc16_compute(left) \in {ble_flash_crc16_compute(words), ERASED[2]}
              => left \in Inputs

(* A page that was whole, of which words and half of the header may have   *)
(* been erased, or the low half of the header not yet written.             *)
Headed(words) == page[1] = Header(words) \/ page[1] = <<MAGIC, ERASED[2]>>
Worn(words) ==
  /\ Headed(words)
  /\ Counted(words) \/ page[2] = ERASED
  /\ \A k \in 1 .. Len(words) : page[2 + k] = words[k] \/ page[2 + k] = ERASED
  /\ \A k \in Places : k > 2 + Len(words) => page[k] = ERASED
SomeWorn == page[1][1] # MAGIC \/ \E words \in Inputs : Worn(words)
TailErased == \A k \in Places : k > 2 + Len(flash.array) => page[k] = ERASED

WornInv ==
  /\ ~Programs => SomeWorn
  /\ flash.op \in {"count", "header"} => TailErased

LEMMA ErasedHasNoMagic == ERASED[1] # MAGIC
BY SMT DEF ERASED, MAGIC

LEMMA SameWorn == ASSUME page' = page PROVE SomeWorn' <=> SomeWorn
BY DEF SomeWorn, Worn, Headed, Counted

LEMMA WornKept ==
  ASSUME WornInv, page' = page, flash' = flash PROVE WornInv'
BY DEF WornInv, Programs, SomeWorn, Worn, Headed, Counted, TailErased

LEMMA BeginsWorn ==
  ASSUME WornInv, flash = Idle, NEW op \in {"erase", "erase page", "block"},
         NEW words, Begin(op, words)
  PROVE  WornInv'
<1>1. page' = page BY DEF Begin
<1>2. SomeWorn BY DEF WornInv, Programs, Idle
<1>3. SomeWorn' BY <1>1, <1>2, SameWorn
<1>4. flash'.op \notin {"count", "header"} BY DEF Begin
<1> QED BY <1>3, <1>4 DEF WornInv

LEMMA EraseWorn == ASSUME FlashInv, Erase PROVE WornInv'
<1>1. page' = Blank BY DEF Erase
<1>2. page'[1] = ERASED /\ \A k \in Places : page'[k] = ERASED
  BY <1>1, BlankPage
<1>3. SomeWorn' BY <1>2, ErasedHasNoMagic DEF SomeWorn
<1>4. TailErased' BY <1>2 DEF TailErased
<1> QED BY <1>3, <1>4 DEF WornInv

(* A page written whole but for its header is whole with one, torn or not. *)
LEMMA WornFrom ==
  ASSUME NEW words \in Inputs, flash.array = words,
         Counted(words), Data(words, Len(words)), TailErased,
         \A k \in Places : k # 1 => page'[k] = page[k],
         Headed(words)'
  PROVE  Worn(words)'
<1>1. /\ Len(words) \in Nat /\ 1 \in Places /\ 2 \in Places
      /\ \A k \in 1 .. Len(words) : 2 + k \in Places
  BY ArrayFacts, BlankPage
<1>2. Places \subseteq Nat BY FlashAssumption DEF Places
<1>3. Counted(words)' BY <1>1 DEF Counted
<1>4. \A k \in 1 .. Len(words) : page'[2 + k] = words[k]
  <2> TAKE k \in 1 .. Len(words)
  <2>1. 2 + k # 1 BY <1>1
  <2> QED BY <1>1, <2>1 DEF Data
<1>5. ASSUME NEW k \in Places, k > 2 + Len(words) PROVE page'[k] = ERASED
  <2>1. k # 1 BY <1>1, <1>2, <1>5
  <2> QED BY <1>5, <2>1 DEF TailErased
<1> QED BY <1>3, <1>4, <1>5 DEF Worn

LEMMA WordWorn == ASSUME FlashInv, WornInv, WriteWord PROVE WornInv'
<1>1. /\ Programs /\ flash' = AfterWord
      /\ page' = [page EXCEPT ![PlaceOf] = Programmed(page[PlaceOf], Word)]
  BY DEF WriteWord
<1>2. /\ page \in [Places -> Word32] /\ PlaceOf \in Places
      /\ flash.array \in Inputs
      /\ flash = [op |-> flash.op, i |-> flash.i, array |-> flash.array,
                  header |-> flash.header]
  BY <1>1, WordFacts DEF FlashInv, FlashTypeOK
<1>3. /\ page' = Complete
      /\ \A k \in Places : k # PlaceOf => page'[k] = page[k]
  BY <1>1, CompletePage DEF Complete, Programs, Erasing
<1> DEFINE a == flash.array
<1>4. /\ Len(a) \in Nat /\ \A k \in 1 .. Len(a) : 2 + k \in Places
      /\ 1 \in Places /\ 2 \in Places
  BY <1>2, ArrayFacts, BlankPage
<1>5. Places \subseteq Nat BY FlashAssumption DEF Places
<1>6. CASE flash.op \in {"data", "block"}
  <2>1. PlaceOf = 2 + flash.i /\ flash.i \in 1 .. Len(a) BY <1>1, <1>6, WordFacts
  <2>2. page[1] = ERASED BY <1>6 DEF FlashInv, PageOK
  <2>3. page'[1] = ERASED
    <3>1. PlaceOf # 1 BY <1>4, <2>1
    <3> QED BY <1>3, <1>4, <2>2, <3>1
  <2>4. SomeWorn' BY <2>3, ErasedHasNoMagic DEF SomeWorn
  <2>5. ASSUME flash'.op \in {"count", "header"} PROVE TailErased'
    <3>1. flash'.array = a /\ flash.i = Len(a) /\ flash.op = "data"
      BY <1>1, <1>2, <1>4, <1>6, <2>1, <2>5 DEF AfterWord, Idle
    <3>2. \A k \in Places : k >= 2 + flash.i => page[k] = ERASED
      BY <3>1 DEF FlashInv, PageOK
    <3>3. ASSUME NEW k \in Places, k > 2 + Len(a) PROVE page'[k] = ERASED
      <4>1. k >= 2 + flash.i /\ k # PlaceOf BY <1>4, <1>5, <2>1, <3>1, <3>3
      <4> QED BY <1>3, <3>2, <4>1
    <3> QED BY <3>1, <3>3 DEF TailErased
  <2> QED BY <2>4, <2>5 DEF WornInv
<1>7. CASE flash.op = "count"
  <2>1. PlaceOf = 2 BY <1>1, <1>7, WordFacts
  <2>2. flash'.op = "header" /\ flash'.array = a BY <1>1, <1>2, <1>7 DEF AfterWord
  <2>3. TailErased BY <1>7 DEF WornInv
  <2>4. ASSUME NEW k \in Places, k > 2 + Len(a) PROVE page'[k] = ERASED
    <3>1. k # PlaceOf BY <1>4, <1>5, <2>1, <2>4
    <3> QED BY <1>3, <2>3, <2>4, <3>1 DEF TailErased
  <2>5. TailErased' BY <2>2, <2>4 DEF TailErased
  <2> QED BY <2>2, <2>5 DEF WornInv, Programs
<1>8. CASE flash.op = "header"
  <2>1. PlaceOf = 1 /\ Word = Header(a) BY <1>1, <1>8, WordFacts
  <2>2. page[1] = ERASED /\ Counted(a) /\ Data(a, Len(a))
    BY <1>8 DEF FlashInv, PageOK
  <2>3. TailErased BY <1>8 DEF WornInv
  <2>4. flash'.op = "none" BY <1>1, <1>8 DEF AfterWord, Idle
  <2>5. page'[1] = Header(a) BY <1>1, <1>3, <2>1, <2>2, CompletePage
  <2>6. \A k \in Places : k # 1 => page'[k] = page[k] BY <1>3, <2>1
  <2>7. PICK words \in Inputs : words = a BY <1>2
  <2>8. Headed(words)' BY <2>5, <2>7 DEF Headed
  <2>9. Worn(words)' BY <2>2, <2>3, <2>6, <2>7, <2>8, WornFrom
  <2>10. SomeWorn' BY <2>9 DEF SomeWorn
  <2> QED BY <2>4, <2>10 DEF WornInv
<1> QED BY <1>1, <1>6, <1>7, <1>8 DEF Programs

(* A cut leaves a page as it was, a part of it erased, or half a header.   *)
LEMMA CutWorn == ASSUME FlashInv, WornInv, FlashCut PROVE WornInv'
<1>1. page' \in PagesAfterCut /\ flash' = Idle /\ flash'.op = "none"
  BY DEF FlashCut, Idle
<1>2. page \in [Places -> Word32] BY DEF FlashInv, FlashTypeOK
<1>3. 1 \in Places /\ 2 \in Places BY BlankPage
<1>4. SUFFICES SomeWorn' BY <1>1 DEF WornInv
<1>5. CASE Erasing
  <2>1. PICK reached \in SUBSET Places :
          page' = [k \in Places |-> IF k \in reached THEN ERASED ELSE page[k]]
    BY <1>1, <1>5 DEF PagesAfterCut
  <2>2. \A k \in Places : page'[k] = page[k] \/ page'[k] = ERASED BY <2>1
  <2>3. SomeWorn BY <1>5 DEF WornInv, Erasing, Programs
  <2>4. CASE page'[1] = ERASED BY <2>4, ErasedHasNoMagic DEF SomeWorn
  <2>5. CASE page'[1] # ERASED
    <3>1. page'[1] = page[1] BY <1>3, <2>2, <2>5
    <3>2. CASE page[1][1] # MAGIC BY <3>1, <3>2 DEF SomeWorn
    <3>3. CASE page[1][1] = MAGIC
      <4>1. PICK words \in Inputs : Worn(words) BY <2>3, <3>3 DEF SomeWorn
      <4>2. \A k \in 1 .. Len(words) : 2 + k \in Places BY ArrayFacts
      <4>3. Headed(words)' BY <3>1, <4>1 DEF Worn, Headed
      <4>4. (Counted(words) \/ page[2] = ERASED)'
        BY <1>3, <2>2, <4>1 DEF Worn, Counted
      <4>5. \A k \in 1 .. Len(words) :
              page'[2 + k] = words[k] \/ page'[2 + k] = ERASED
        BY <2>2, <4>1, <4>2 DEF Worn
      <4>6. \A k \in Places : k > 2 + Len(words) => page'[k] = ERASED
        BY <2>2, <4>1 DEF Worn
      <4>7. Worn(words)' BY <4>3, <4>4, <4>5, <4>6 DEF Worn
      <4> QED BY <4>7 DEF SomeWorn
    <3> QED BY <3>2, <3>3
  <2> QED BY <2>4, <2>5
<1>6. CASE Programs
  <2>1. PICK high \in {page[PlaceOf][1], Complete[PlaceOf][1]},
             low \in {page[PlaceOf][2], Complete[PlaceOf][2]} :
          page' = [page EXCEPT ![PlaceOf] = <<high, low>>]
    <3>1. ~Erasing BY <1>6 DEF Programs, Erasing
    <3>2. PagesAfterCut =
            {[page EXCEPT ![PlaceOf] = <<high, low>>] :
               high \in {page[PlaceOf][1], Complete[PlaceOf][1]},
               low \in {page[PlaceOf][2], Complete[PlaceOf][2]}}
      BY <1>6, <3>1 DEF PagesAfterCut
    <3> QED BY <1>1, <3>2, SMT
  <2>2. PlaceOf \in Places BY <1>6, WordFacts
  <2>3. /\ \A k \in Places : k # PlaceOf => page'[k] = page[k]
        /\ page'[PlaceOf] = <<high, low>>
    BY <1>2, <2>1, <2>2
  <2>4. page[1] = ERASED BY <1>6 DEF Programs, FlashInv, PageOK
  <2>5. CASE flash.op \in {"data", "block", "count"}
    <3>1. PlaceOf # 1
      <4>1. CASE flash.op = "count" BY <1>6, <4>1, WordFacts
      <4>2. CASE flash.op \in {"data", "block"}
        <5>1. PlaceOf = 2 + flash.i /\ flash.i \in 1 .. Len(flash.array)
          BY <1>6, <4>2, WordFacts
        <5>2. Len(flash.array) \in Nat BY <1>6, WordFacts, ArrayFacts
        <5> QED BY <5>1, <5>2
      <4> QED BY <2>5, <4>1, <4>2
    <3>2. page'[1] = ERASED BY <1>3, <2>3, <2>4, <3>1
    <3> QED BY <3>2, ErasedHasNoMagic DEF SomeWorn
  <2>6. CASE flash.op = "header"
    <3>1. PICK words \in Inputs : words = flash.array BY <1>6, WordFacts
    <3>2. PlaceOf = 1 /\ Word = Header(words) BY <1>6, <2>6, <3>1, WordFacts
    <3>3. Counted(words) /\ Data(words, Len(words)) /\ TailErased
      BY <2>6, <3>1 DEF FlashInv, PageOK, WornInv
    <3>4. Complete[1] = <<MAGIC, ble_flash_crc16_compute(words)>>
      BY <1>6, <2>4, <3>2, CompletePage DEF Header
    <3>5. /\ high = ERASED[1] \/ high = MAGIC
          /\ low = ERASED[2] \/ low = ble_flash_crc16_compute(words)
      BY <2>1, <2>4, <3>2, <3>4
    <3>6. CASE high = ERASED[1]
      <4>1. page'[1][1] = ERASED[1] BY <2>3, <3>2, <3>6
      <4> QED BY <4>1, ErasedHasNoMagic DEF SomeWorn
    <3>7. CASE high = MAGIC
      <4>2. Headed(words)' BY <2>3, <3>2, <3>5, <3>7 DEF Headed, Header
      <4>3. Worn(words)' BY <2>3, <3>1, <3>2, <3>3, <4>2, WornFrom
      <4> QED BY <4>3 DEF SomeWorn
    <3> QED BY <3>5, <3>6, <3>7
  <2> QED BY <1>6, <2>5, <2>6 DEF Programs
<1>7. CASE ~Erasing /\ ~Programs
  <2>1. page' = page BY <1>1, <1>7 DEF PagesAfterCut
  <2>2. SomeWorn BY <1>7 DEF WornInv
  <2> QED BY <2>1, <2>2 DEF SomeWorn, Worn, Headed, Counted
<1> QED BY <1>5, <1>6, <1>7

LEMMA DeviceWorn == ASSUME FlashInv, WornInv, [Next]_vars PROVE WornInv'
<1>1. CASE UNCHANGED flashVars BY <1>1, WornKept DEF flashVars
<1>2. CASE PowerCut BY <1>2, CutWorn DEF PowerCut
<1>3. CASE Flash
  <2>1. FlashNext BY <1>3 DEF Flash
  <2>2. ASSUME NEW words \in Inputs, BlockWrite(words) PROVE WornInv'
    BY <2>2, BeginsWorn DEF BlockWrite
  <2>3. ASSUME PageErase PROVE WornInv'
    BY <2>3, BeginsWorn DEF PageErase
  <2>4. ASSUME NEW words \in Inputs, PageWrite(words) PROVE WornInv'
    <3>1. CASE page[1][2] = ble_flash_crc16_compute(words)
      BY <2>4, <3>1, WornKept DEF PageWrite
    <3>2. CASE page[1][2] # ble_flash_crc16_compute(words)
      BY <2>4, <3>2, BeginsWorn DEF PageWrite
    <3> QED BY <3>1, <3>2
  <2>5. ASSUME NEW active \in BOOLEAN, RadioActiveEvt(active) PROVE WornInv'
    BY <2>5, WornKept DEF RadioActiveEvt
  <2> QED BY <2>1, <2>2, <2>3, <2>4, <2>5, EraseWorn, WordWorn
          DEF FlashNext, FlashCpu
<1>4. CASE StartsUp \/ ErrorReset \/ Pump \/ Port
  BY <1>1, <1>4 DEF StartsUp, ErrorReset, Pump, Port
<1>5. CASE Converter \/ Timer \/ Transfer \/ Serial
  BY <1>1, <1>5 DEF Converter, Timer, Transfer, Serial
<1>6. CASE UNCHANGED vars BY <1>1, <1>6 DEF vars
<1> QED BY <1>2, <1>3, <1>4, <1>5, <1>6 DEF Next

LEMMA WornStart == FlashInit => WornInv
<1> SUFFICES ASSUME FlashInit PROVE WornInv OBVIOUS
<1>1. page = Blank /\ flash.op = "none" BY DEF FlashInit, Idle
<1>2. SomeWorn BY <1>1, BlankPage, ErasedHasNoMagic DEF SomeWorn
<1> QED BY <1>1, <1>2 DEF WornInv

LEMMA ThirdOn ==
  ASSUME NEW s, NEW n \in Nat
  PROVE  SubSeq(s, 3, 2 + n) = [k \in 1 .. n |-> s[2 + k]]
<1>1. SubSeq(s, 3, 2 + n) = [k \in 1 .. (((2 + n) - 3) + 1) |-> s[(k + 3) - 1]]
  OBVIOUS
<1>2. ((2 + n) - 3) + 1 = n OBVIOUS
<1>3. \A k \in 1 .. n : (k + 3) - 1 = 2 + k OBVIOUS
<1> QED BY <1>1, <1>2, <1>3

(* What ble_flash_page_read takes from a worn page.                        *)
LEMMA ReadIsLeft ==
  ASSUME NEW words \in Inputs, Worn(words), page \in [Places -> Word32],
         NEW n, n = page[2][2] % (WORD_COUNT_MAX + 1)
  PROVE  /\ n \in {Len(words), ERASED[2] % (WORD_COUNT_MAX + 1)}
         /\ \E reached \in SUBSET (1 .. n) :
              SubSeq(page, 3, 2 + n) = Left(words, n, reached)
<1>1. /\ words \in Seq(Word32) /\ Len(words) \in Nat
      /\ Len(words) < WORD_COUNT_MAX /\ WORD_COUNT_MAX \in Nat
  BY ArrayFacts
<1>2. /\ n \in {Len(words), ERASED[2] % (WORD_COUNT_MAX + 1)}
      /\ n \in Nat /\ n <= WORD_COUNT_MAX
  <2>1. page[2][2] = Len(words) \/ page[2][2] = ERASED[2]
    BY SMT DEF Worn, Counted
  <2>2. \A i, m \in Nat : i < m => i % m = i BY SMT
  <2>3. \A i, m \in Nat : i % (m + 1) \in Nat /\ i % (m + 1) <= m BY SMT
  <2>4. ERASED[2] \in Nat BY SMT DEF ERASED
  <2>5. Len(words) % (WORD_COUNT_MAX + 1) = Len(words)
    <3>1. WORD_COUNT_MAX + 1 \in Nat /\ Len(words) < WORD_COUNT_MAX + 1 BY <1>1
    <3> QED BY <1>1, <2>2, <3>1
  <2>6. n = Len(words) \/ n = ERASED[2] % (WORD_COUNT_MAX + 1) BY <2>1, <2>5
  <2>7. n \in Nat /\ n <= WORD_COUNT_MAX BY <1>1, <2>1, <2>3, <2>4
  <2> QED BY <2>6, <2>7
<1> DEFINE reached == {k \in 1 .. n : page[2 + k] = ERASED}
<1>3. SubSeq(page, 3, 2 + n) = [k \in 1 .. n |-> page[2 + k]]
  BY <1>2, ThirdOn
<1>4. ASSUME NEW k \in 1 .. n
      PROVE  page[2 + k] = IF k \in reached \/ k > Len(words) THEN ERASED
                           ELSE words[k]
  <2>1. 2 + k \in Places BY <1>1, <1>2 DEF Places
  <2>2. CASE k > Len(words)
    <3>1. 2 + k > 2 + Len(words) BY <1>1, <1>2, <2>2
    <3> QED BY <2>1, <2>2, <3>1 DEF Worn
  <2>3. CASE ~(k > Len(words))
    <3>1. k \in 1 .. Len(words) BY <1>1, <1>2, <2>3
    <3>2. page[2 + k] = words[k] \/ page[2 + k] = ERASED BY <3>1 DEF Worn
    <3> QED BY <2>3, <3>2
  <2> QED BY <2>2, <2>3
<1>5. [k \in 1 .. n |-> page[2 + k]] = Left(words, n, reached)
  BY <1>4 DEF Left
<1>6. SubSeq(page, 3, 2 + n) = Left(words, n, reached) /\ reached \in SUBSET (1 .. n)
  BY <1>3, <1>5
<1> HIDE DEF reached
<1> QED BY <1>2, <1>6

(* ble_flash_page_read (ble_flash.c:135) returns an array that was written *)
(* or none, whatever was cut where and however often: the only thing it    *)
(* depends on is that a CRC of 16 bits tells an array from what is left of *)
(* it when some of its words are erased.                                   *)
THEOREM ReadsAreWhole == ASSUME CrcTells PROVE Spec => []ReadWhole
<1>1. ASSUME FlashInv, WornInv PROVE ReadWhole
  <2>1. page \in [Places -> Word32] BY <1>1 DEF FlashInv, FlashTypeOK
  <2>2. PICK n : n = page[2][2] % (WORD_COUNT_MAX + 1) OBVIOUS
  <2>3. PICK read : read = SubSeq(page, 3, 2 + n) OBVIOUS
  <2>4. PageRead = IF page[1][1] # MAGIC THEN {}
                   ELSE IF page[1] = Header(read) THEN {read} ELSE {}
    BY <2>2, <2>3 DEF PageRead
  <2>5. SUFFICES ASSUME page[1][1] = MAGIC, page[1] = Header(read)
                 PROVE  read \in Inputs
    BY <2>4 DEF ReadWhole
  <2>6. ~Programs BY <1>1, <2>5, ErasedHasNoMagic DEF Programs, FlashInv, PageOK
  <2>7. PICK words \in Inputs : Worn(words)
    BY <1>1, <2>5, <2>6 DEF WornInv, SomeWorn
  <2>8. n \in {Len(words), ERASED[2] % (WORD_COUNT_MAX + 1)}
    BY <2>1, <2>2, <2>7, ReadIsLeft
  <2>9. PICK reached \in SUBSET (1 .. n) : read = Left(words, n, reached)
    BY <2>1, <2>2, <2>3, <2>7, ReadIsLeft
  <2>10. ble_flash_crc16_compute(read) \in {ble_flash_crc16_compute(words), ERASED[2]}
    BY <2>5, <2>7 DEF Worn, Headed, Header
  <2> QED BY <2>8, <2>9, <2>10 DEF CrcTells
<1>2. Spec => []FlashInv BY FlashStart, DeviceFlash, PTL DEF Init, Spec
<1>3. Init => WornInv BY WornStart DEF Init
<1>4. FlashInv /\ WornInv /\ [Next]_vars => WornInv' BY DeviceWorn
<1>5. FlashInv /\ WornInv => ReadWhole BY <1>1
<1> QED BY <1>2, <1>3, <1>4, <1>5, PTL DEF Spec

-----------------------------------------------------------------------------
(* Every variable keeps its type, and the steps of SystemInit their range: *)
(* for any queue, any sources of events and any options of the build.      *)
THEOREM ChipTyped == Spec => []TypeOK
<1>1. PumpTypeOK /\ StartupInv /\ FlashInv => TypeOK
  <2> SUFFICES ASSUME PumpTypeOK, StartupTypeOK, FlashTypeOK PROVE TypeOK
    BY DEF StartupInv, FlashInv
  <2>1. boot.at \in 0 .. 3 /\ boot.step \in 0 .. 4
    BY DEF StartupTypeOK, Positions
  <2>2. page \in [Places -> Word32] BY DEF FlashTypeOK
  <2> QED BY <2>1, <2>2 DEF TypeOK
<1>2. Spec => []PumpTypeOK BY PumpInDevice, PumpTypesHold, PTL
<1>3. Spec => []StartupInv BY StartupStart, DeviceStartup, PTL DEF Init, Spec
<1>4. Spec => []FlashInv BY FlashStart, DeviceFlash, PTL DEF Init, Spec
<1> QED BY <1>1, <1>2, <1>3, <1>4, PTL
=============================================================================
