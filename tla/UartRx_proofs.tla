---------------------------- MODULE UartRx_proofs ----------------------------
(***************************************************************************)
(* Proof that the receive half of the UART driver implements RxFifo, for   *)
(* every size of the ring and every depth of the receiver.                 *)
(***************************************************************************)
EXTENDS UartRx, TLAPS

(* What uart.h guarantees: SIZE_BUF_RX is 200.                             *)
SizeOK == SIZE_BUF_RX \in Nat /\ SIZE_BUF_RX > 1

(* Slots from i on up to j, going round the ring.                          *)
Distance(i, j) == IF j - i < 0 THEN j - i + SIZE_BUF_RX ELSE j - i

(* Where the backlog begins, how many bytes the handler has stored and how *)
(* many of them are out of the queue.                                      *)
Oldest == IF pc = "clear store" THEN slot ELSE Wrap(counterRead)
Put == arrived - Len(rxd)
Out == Put - Backlog

Slots == 0 .. (SIZE_BUF_RX - 1)

(* An index is one past the ring only between its increment and its wrap.  *)
TypeOK ==
  /\ buffer \in [Slots -> Nat]
  /\ counterWrite \in Slots
  /\ counterRead \in 0 .. SIZE_BUF_RX
  /\ counterRead = SIZE_BUF_RX => pc \in {"load", "wrap read"}
  /\ slot \in Slots
  /\ pc \in {"return", "compare", "take", "load", "wrap read",
             "clear load", "clear store"}
  /\ isr \in {"idle", "read"}
  /\ rxd \in Seq(Nat)
  /\ rxdrdy \in BOOLEAN
  /\ arrived \in Nat

(* The receiver holds the last bytes that arrived, in order; the event is  *)
(* up only for a byte in RXD, and down while the handler is about to read. *)
Receiver ==
  /\ Len(rxd) <= arrived
  /\ \A k \in 1 .. Len(rxd) : rxd[k] = arrived - Len(rxd) + k
  /\ isr = "read" => rxd # <<>> /\ ~rxdrdy
  /\ rxdrdy => rxd # <<>>

(* The ring holds the backlog in order, and has room for what the receiver *)
(* holds: the handler never closes the ring on the main program.           *)
Ring ==
  /\ Backlog + Len(rxd) <= SIZE_BUF_RX - 1
  /\ \A i \in Slots :
       Distance(Oldest, i) < Backlog => buffer[i] = Out + 1 + Distance(Oldest, i)

(* A call that found the ring not empty still finds it so, and the byte it *)
(* has taken the index of is still in its slot when it loads it.           *)
Reading ==
  /\ pc = "take" => counterRead # counterWrite
  /\ pc = "load" => Wrap(slot + 1) = Wrap(counterRead)

Inv == TypeOK /\ Receiver /\ Ring /\ Reading

-----------------------------------------------------------------------------
(* Facts about the ring.                                                   *)
LEMMA WrapRange ==
  ASSUME SizeOK, NEW i \in 0 .. SIZE_BUF_RX
  PROVE  Wrap(i) \in Slots /\ (i \in Slots => Wrap(i) = i)
  BY DEF SizeOK, Wrap, Slots

LEMMA DistanceRange ==
  ASSUME SizeOK, NEW i \in Slots, NEW j \in Slots
  PROVE  /\ Distance(i, j) \in Slots
         /\ Distance(i, j) = 0 <=> i = j
         /\ \A k \in Slots : Distance(i, j) = Distance(i, k) => j = k
  BY DEF SizeOK, Distance, Slots

(* The next slot is one further from any slot that has room for it, and    *)
(* one nearer to any other slot.                                           *)
LEMMA DistanceGrows ==
  ASSUME SizeOK, NEW i \in Slots, NEW j \in Slots,
         Distance(i, j) < SIZE_BUF_RX - 1
  PROVE  Distance(i, Wrap(j + 1)) = Distance(i, j) + 1
  BY DEF SizeOK, Distance, Slots, Wrap

LEMMA DistanceShrinks ==
  ASSUME SizeOK, NEW i \in Slots, NEW j \in Slots, i # j
  PROVE  Distance(Wrap(i + 1), j) = Distance(i, j) - 1
  BY DEF SizeOK, Distance, Slots, Wrap

LEMMA NoneNearer ==
  ASSUME SizeOK, NEW i \in Slots, NEW j \in Slots
  PROVE  ~(Distance(i, j) < 0)
  BY DEF SizeOK, Distance, Slots

LEMMA Numbers ==
  ASSUME SizeOK, TypeOK
  PROVE  /\ Oldest \in Slots
         /\ Backlog = Distance(Oldest, counterWrite)
         /\ Backlog \in Slots
         /\ Backlog = 0 <=> Oldest = counterWrite
         /\ Len(rxd) \in Nat /\ arrived \in Nat
         /\ Put \in Int /\ Out \in Int
<1>1. Oldest \in Slots BY WrapRange DEF TypeOK, Oldest
<1>2. counterWrite \in Slots BY DEF TypeOK
<1>3. Backlog = Distance(Oldest, counterWrite)
  BY DEF Backlog, Oldest, Distance
<1>4. Backlog \in Slots /\ (Backlog = 0 <=> Oldest = counterWrite)
  BY <1>1, <1>2, <1>3, DistanceRange
<1>5. Len(rxd) \in Nat /\ arrived \in Nat
  <2>1. rxd \in Seq(Nat) /\ arrived \in Nat BY DEF TypeOK
  <2> QED BY <2>1
<1>6. Put \in Int BY <1>5 DEF Put
<1>7. Out \in Int BY <1>4, <1>6 DEF Out, Slots, SizeOK
<1> QED BY <1>1, <1>3, <1>4, <1>5, <1>6, <1>7

-----------------------------------------------------------------------------
LEMMA InitInv == ASSUME SizeOK, Init PROVE Inv
<1>1. TypeOK
  <2>1. 0 \in Slots /\ 0 \in 0 .. SIZE_BUF_RX /\ SIZE_BUF_RX # 0
    BY DEF SizeOK, Slots
  <2>2. buffer \in [Slots -> Nat] BY DEF Init, Slots
  <2>3. rxd \in Seq(Nat) BY DEF Init
  <2> QED BY <2>1, <2>2, <2>3 DEF Init, TypeOK
<1>2. Receiver BY DEF Init, Receiver
<1>3. Oldest = 0 /\ counterWrite = 0 BY DEF SizeOK, Init, Oldest, Wrap
<1>4. Backlog = 0 BY <1>1, <1>3, Numbers
<1>5. Ring
  <2>1. Len(rxd) = 0 BY DEF Init
  <2>2. Backlog + Len(rxd) <= SIZE_BUF_RX - 1 BY <1>4, <2>1 DEF SizeOK
  <2> QED BY <1>1, <1>4, <2>2, NoneNearer, Numbers DEF Ring
<1>6. Reading BY DEF Init, Reading
<1> QED BY <1>1, <1>2, <1>5, <1>6 DEF Inv

(* A step that leaves the ring and the receiver alone and does not enter   *)
(* or leave the second half of ClearRxBuffer.                              *)
LEMMA QuietInv ==
  ASSUME Inv, UNCHANGED <<ring, slot, isr, rxd, rxdrdy, arrived>>,
         pc' = "clear store" <=> pc = "clear store",
         TypeOK', Reading'
  PROVE  Inv' /\ Put' = Put /\ Out' = Out
<1>1. Oldest' = Oldest BY DEF ring, Oldest, Wrap
<1>2. Put' = Put BY DEF Put
<1>3. Backlog' = Backlog BY DEF ring, Backlog, Wrap
<1>4. Out' = Out BY <1>2, <1>3 DEF Out
<1>5. Ring' BY <1>1, <1>3, <1>4 DEF Inv, Ring, Distance, ring
<1>6. Receiver' BY DEF Inv, Receiver
<1> QED BY <1>2, <1>4, <1>5, <1>6 DEF Inv

LEMMA CallInv ==
  ASSUME Inv, CallReadUART \/ CallClearRxBuffer
  PROVE  Inv' /\ Put' = Put /\ Out' = Out
<1>1. /\ pc = "return" /\ pc' \in {"compare", "clear load"}
      /\ UNCHANGED <<ring, slot, isr, rxd, rxdrdy, arrived>>
  BY DEF CallReadUART, CallClearRxBuffer, Goto, receiver
<1>2. TypeOK' BY <1>1 DEF Inv, TypeOK, ring
<1>3. Reading' BY <1>1 DEF Reading
<1> QED BY <1>1, <1>2, <1>3, QuietInv

LEMMA CompareInv ==
  ASSUME Inv, Compare PROVE  Inv' /\ Put' = Put /\ Out' = Out
<1>1. /\ pc = "compare" /\ pc' \in {"return", "take"}
      /\ pc' = "take" => counterRead # counterWrite
      /\ UNCHANGED <<ring, slot, isr, rxd, rxdrdy, arrived>>
  BY DEF Compare, Goto, Return
<1>2. TypeOK' BY <1>1 DEF Inv, TypeOK, ring
<1>3. Reading' BY <1>1 DEF Reading, ring
<1> QED BY <1>1, <1>2, <1>3, QuietInv

LEMMA LoadByteInv ==
  ASSUME Inv, LoadByte PROVE  Inv' /\ Put' = Put /\ Out' = Out
<1>1. /\ pc = "load" /\ pc' = "wrap read"
      /\ UNCHANGED <<ring, slot, isr, rxd, rxdrdy, arrived>>
  BY DEF LoadByte, Goto, receiver
<1>2. TypeOK' BY <1>1 DEF Inv, TypeOK, ring
<1>3. Reading' BY <1>1 DEF Reading
<1> QED BY <1>1, <1>2, <1>3, QuietInv

LEMMA WrapReadInv ==
  ASSUME SizeOK, Inv, WrapRead PROVE  Inv' /\ Put' = Put /\ Out' = Out
<1>1. /\ pc = "wrap read" /\ pc' = "return"
      /\ counterRead' = Wrap(counterRead)
      /\ UNCHANGED <<buffer, counterWrite, slot, isr, rxd, rxdrdy, arrived>>
  BY DEF WrapRead, Goto, Return
<1>2. /\ counterRead' \in Slots /\ counterRead' \in 0 .. SIZE_BUF_RX
      /\ counterRead' # SIZE_BUF_RX /\ Wrap(counterRead') = Wrap(counterRead)
  <2>1. Wrap(counterRead) \in Slots BY WrapRange DEF Inv, TypeOK
  <2>2. /\ Wrap(counterRead) \in 0 .. SIZE_BUF_RX
        /\ Wrap(counterRead) # SIZE_BUF_RX
    BY <2>1 DEF Slots, SizeOK
  <2>3. Wrap(Wrap(counterRead)) = Wrap(counterRead) BY <2>1, <2>2, WrapRange
  <2> QED BY <1>1, <2>1, <2>2, <2>3
<1>3. TypeOK' BY <1>1, <1>2 DEF Inv, TypeOK
<1>4. Oldest' = Oldest /\ Backlog' = Backlog
  BY <1>1, <1>2 DEF Oldest, Backlog
<1>5. Put' = Put /\ Out' = Out BY <1>1, <1>4 DEF Put, Out
<1>6. Ring' BY <1>1, <1>4, <1>5 DEF Inv, Ring, Distance
<1>7. Receiver' BY <1>1 DEF Inv, Receiver
<1>8. Reading' BY <1>1 DEF Reading
<1> QED BY <1>3, <1>5, <1>6, <1>7, <1>8 DEF Inv

(* The byte whose slot ReadUART takes is the oldest of the backlog.        *)
LEMMA TakeIndexInv ==
  ASSUME SizeOK, Inv, TakeIndex
  PROVE  Inv' /\ Put' = Put /\ Out' = Out + 1 /\ Out < Put
         /\ buffer'[slot'] = Out + 1
<1>1. /\ pc = "take" /\ pc' = "load"
      /\ slot' = counterRead /\ counterRead' = counterRead + 1
      /\ counterRead # counterWrite
      /\ UNCHANGED <<buffer, counterWrite, isr, rxd, rxdrdy, arrived>>
  BY DEF TakeIndex, Goto, receiver, Inv, Reading
<1>2. counterRead \in Slots /\ counterRead + 1 \in 0 .. SIZE_BUF_RX
  <2>1. counterRead \in 0 .. SIZE_BUF_RX /\ counterRead # SIZE_BUF_RX
    BY <1>1 DEF Inv, TypeOK
  <2> QED BY <2>1 DEF Slots, SizeOK
<1>3. Oldest = counterRead /\ Oldest' = Wrap(counterRead + 1)
  <2>1. counterRead \in 0 .. SIZE_BUF_RX BY DEF Inv, TypeOK
  <2>2. Wrap(counterRead) = counterRead BY <1>2, <2>1, WrapRange
  <2> QED BY <1>1, <2>2 DEF Oldest
<1>4. TypeOK' BY <1>1, <1>2 DEF Inv, TypeOK
<1>5. \A i \in Slots \ {counterRead} :
        Distance(Oldest', i) = Distance(Oldest, i) - 1
  BY <1>2, <1>3, DistanceShrinks
<1>6. counterWrite \in Slots \ {counterRead} BY <1>1 DEF Inv, TypeOK
<1>7. Backlog' = Backlog - 1
  <2>1. Backlog = Distance(Oldest, counterWrite) BY Numbers DEF Inv
  <2>2. Backlog' = Distance(Oldest', counterWrite)
    BY <1>1 DEF Backlog, Oldest, Distance
  <2> QED BY <2>1, <2>2, <1>5, <1>6
<1>8. Put' = Put BY <1>1 DEF Put
<1>9. /\ Backlog \in Nat /\ Backlog # 0 /\ Put \in Int /\ Out \in Int
      /\ Len(rxd) \in Nat
  BY <1>3, <1>6, Numbers DEF Inv, Slots, SizeOK
<1>10. Out' = Out + 1 /\ Out < Put BY <1>7, <1>8, <1>9 DEF Out
<1>11. buffer[counterRead] = Out + 1
  <2>1. Distance(Oldest, counterRead) = 0 BY <1>2, <1>3, DistanceRange
  <2>2. Distance(Oldest, counterRead) < Backlog BY <2>1, <1>9
  <2> QED BY <1>2, <1>9, <2>1, <2>2 DEF Inv, Ring
<1>12. Ring'
  <2>1. Backlog' + Len(rxd') <= SIZE_BUF_RX - 1
    BY <1>1, <1>7, <1>9 DEF Inv, Ring, SizeOK
  <2>2. ASSUME NEW i \in Slots, (Distance(Oldest, i) < Backlog)'
        PROVE  (buffer[i] = Out + 1 + Distance(Oldest, i))'
    <3>1. Distance(Oldest', i) < Backlog - 1 BY <2>2, <1>7 DEF Distance
    <3>2. i # counterRead
      <4>1. Oldest' \in Slots BY <1>2, <1>3, WrapRange
      <4>2. CASE i = counterRead
        <5>1. Distance(Wrap(i + 1), i) = SIZE_BUF_RX - 1
          BY <1>2, <4>2 DEF Distance, Wrap, SizeOK, Slots
        <5>2. Distance(Oldest', i) = SIZE_BUF_RX - 1
          BY <1>3, <4>2, <5>1
        <5>3. Backlog <= SIZE_BUF_RX - 1 BY Numbers DEF Inv, Slots, SizeOK
        <5> QED BY <3>1, <5>2, <5>3, <1>9 DEF SizeOK
      <4> QED BY <4>2
    <3>3. Distance(Oldest', i) = Distance(Oldest, i) - 1 BY <1>5, <3>2
    <3>4. Distance(Oldest, i) \in Int
      BY DistanceRange, Numbers DEF Inv, Slots, SizeOK
    <3>5. buffer[i] = Out + 1 + Distance(Oldest, i)
      BY <3>1, <3>3, <3>4, <1>9 DEF Inv, Ring
    <3>6. buffer[i] = Out + 1 + 1 + Distance(Oldest', i)
      BY <3>3, <3>4, <3>5, <1>9
    <3> QED BY <1>1, <1>10, <3>6 DEF Distance
  <2> QED BY <2>1, <2>2 DEF Ring, Slots
<1>13. Receiver' BY <1>1 DEF Inv, Receiver
<1>14. Reading' BY <1>1, <1>2 DEF Reading
<1> QED BY <1>1, <1>4, <1>8, <1>10, <1>11, <1>12, <1>13, <1>14 DEF Inv

(* ClearRxBuffer drops what the handler has stored when it loads the       *)
(* write index; from then on the backlog begins there.                     *)
LEMMA ClearLoadInv ==
  ASSUME SizeOK, Inv, ClearLoad PROVE Inv' /\ Put' = Put /\ Out' = Put
<1>1. /\ pc = "clear load" /\ pc' = "clear store"
      /\ slot' = counterWrite
      /\ UNCHANGED <<buffer, counterWrite, counterRead, isr>>
      /\ UNCHANGED <<rxd, rxdrdy, arrived>>
  BY DEF ClearLoad, Goto, ring, receiver
<1>2. TypeOK' BY <1>1 DEF Inv, TypeOK
<1>3. Oldest' = counterWrite /\ counterWrite \in Slots
  BY <1>1 DEF Oldest, Inv, TypeOK
<1>4. Backlog' = 0
  <2>1. counterWrite \in Int BY <1>3 DEF Slots, SizeOK
  <2>2. Backlog' = IF counterWrite - counterWrite < 0
                   THEN counterWrite - counterWrite + SIZE_BUF_RX
                   ELSE counterWrite - counterWrite
    BY <1>1 DEF Backlog
  <2> QED BY <2>1, <2>2
<1>5. Put' = Put BY <1>1 DEF Put
<1>6. Put \in Int /\ Len(rxd) \in Nat /\ Backlog \in Nat
  BY Numbers DEF Inv, Slots, SizeOK
<1>7. Out' = Put BY <1>4, <1>5, <1>6 DEF Out
<1>8. Ring'
  <2>1. Backlog' + Len(rxd') <= SIZE_BUF_RX - 1
    <3>1. Backlog + Len(rxd) <= SIZE_BUF_RX - 1 BY DEF Inv, Ring
    <3>2. Backlog' = 0 /\ Len(rxd') = Len(rxd) BY <1>1, <1>4
    <3> QED BY <1>6, <3>1, <3>2 DEF SizeOK
  <2>2. \A i \in Slots : ~(Distance(Oldest', i) < Backlog')
    BY <1>3, <1>4, NoneNearer
  <2> QED BY <2>1, <2>2 DEF Ring, Distance, Slots
<1>9. Receiver' BY <1>1 DEF Inv, Receiver
<1>10. Reading' BY <1>1 DEF Reading
<1> QED BY <1>2, <1>5, <1>7, <1>8, <1>9, <1>10 DEF Inv

LEMMA ClearStoreInv ==
  ASSUME SizeOK, Inv, ClearStore PROVE Inv' /\ Put' = Put /\ Out' = Out
<1>1. /\ pc = "clear store" /\ pc' = "return"
      /\ counterRead' = slot
      /\ UNCHANGED <<buffer, counterWrite, slot, isr, rxd, rxdrdy, arrived>>
  BY DEF ClearStore, Goto, Return
<1>2. slot \in Slots BY DEF Inv, TypeOK
<1>3. slot \in 0 .. SIZE_BUF_RX /\ slot # SIZE_BUF_RX /\ Wrap(slot) = slot
  BY <1>2 DEF Slots, SizeOK, Wrap
<1>4. TypeOK' BY <1>1, <1>3 DEF Inv, TypeOK
<1>5. Oldest' = Oldest /\ Backlog' = Backlog
  BY <1>1, <1>3 DEF Oldest, Backlog
<1>6. Put' = Put /\ Out' = Out BY <1>1, <1>5 DEF Put, Out
<1>7. Ring' BY <1>1, <1>5, <1>6 DEF Inv, Ring, Distance
<1>8. Receiver' BY <1>1 DEF Inv, Receiver
<1>9. Reading' BY <1>1 DEF Reading
<1> QED BY <1>4, <1>6, <1>7, <1>8, <1>9 DEF Inv

-----------------------------------------------------------------------------
LEMMA IsrClearInv ==
  ASSUME Inv, IsrClear PROVE Inv' /\ Put' = Put /\ Out' = Out
<1>1. /\ rxdrdy /\ rxdrdy' = FALSE /\ isr' = "read"
      /\ UNCHANGED <<ring, pc, slot, rxd, arrived>>
  BY DEF IsrClear
<1>2. TypeOK' BY <1>1 DEF Inv, TypeOK, ring
<1>3. Oldest' = Oldest /\ Backlog' = Backlog
  BY <1>1 DEF Oldest, Backlog, ring, Wrap
<1>4. Put' = Put /\ Out' = Out BY <1>1, <1>3 DEF Put, Out
<1>5. Ring' BY <1>1, <1>3, <1>4 DEF Inv, Ring, Distance, ring
<1>6. Receiver' BY <1>1 DEF Inv, Receiver
<1>7. Reading' BY <1>1 DEF Inv, Reading, ring, Wrap
<1> QED BY <1>2, <1>4, <1>5, <1>6, <1>7 DEF Inv

(* The handler stores behind the backlog, in a slot the main program is    *)
(* not about to load.                                                      *)
LEMMA IsrReadInv ==
  ASSUME SizeOK, Inv, IsrRead
  PROVE  Inv' /\ Put' = Put + 1 /\ Out' = Out /\ Put - Out < SIZE_BUF_RX - 1
         /\ (pc = "load" => buffer'[slot] = buffer[slot])
<1>1. /\ isr = "read" /\ isr' = "idle"
      /\ buffer' = [buffer EXCEPT ![counterWrite] = Head(rxd)]
      /\ counterWrite' = Wrap(counterWrite + 1)
      /\ rxd' = Tail(rxd)
      /\ rxdrdy' = (rxdrdy \/ Len(rxd) > 1)
      /\ UNCHANGED <<counterRead, pc, slot, arrived>>
  BY DEF IsrRead
<1>2. rxd # <<>> /\ ~rxdrdy /\ rxd \in Seq(Nat)
  BY <1>1 DEF Inv, Receiver, TypeOK
<1>3. /\ Len(rxd) \in Nat /\ Len(rxd) >= 1 /\ Head(rxd) \in Nat
      /\ Tail(rxd) \in Seq(Nat) /\ Len(Tail(rxd)) = Len(rxd) - 1
      /\ Head(rxd) = rxd[1]
      /\ \A k \in 1 .. Len(Tail(rxd)) : Tail(rxd)[k] = rxd[k + 1]
  BY <1>2
<1>4. /\ Oldest \in Slots /\ Backlog \in Nat /\ Put \in Int /\ Out \in Int
      /\ arrived \in Nat /\ Backlog = Distance(Oldest, counterWrite)
  BY Numbers DEF Inv, Slots, SizeOK
<1>5. Backlog < SIZE_BUF_RX - 1
  <2>1. Backlog + Len(rxd) <= SIZE_BUF_RX - 1 BY DEF Inv, Ring
  <2> QED BY <2>1, <1>3, <1>4 DEF SizeOK
<1>6. counterWrite \in Slots /\ buffer \in [Slots -> Nat]
  BY DEF Inv, TypeOK
<1>7. counterWrite' \in Slots
  <2>1. counterWrite + 1 \in 0 .. SIZE_BUF_RX BY <1>6 DEF Slots, SizeOK
  <2> QED BY <1>1, <2>1, WrapRange
<1>8. TypeOK'
  <2>1. buffer' \in [Slots -> Nat] BY <1>1, <1>3, <1>6
  <2>2. rxd' \in Seq(Nat) /\ rxdrdy' \in BOOLEAN
    BY <1>1, <1>3 DEF Inv, TypeOK
  <2> QED BY <1>1, <1>7, <2>1, <2>2 DEF Inv, TypeOK
<1>9. Oldest' = Oldest BY <1>1 DEF Oldest, Wrap
<1>10. Backlog' = Backlog + 1
  <2>1. Backlog' = Distance(Oldest', counterWrite')
    BY <1>1 DEF Backlog, Oldest, Distance
  <2> QED BY <1>1, <1>4, <1>5, <1>6, <1>9, <2>1, DistanceGrows
<1>11. Put' = Put + 1 /\ Len(rxd') = Len(rxd) - 1
  BY <1>1, <1>3, <1>4 DEF Put
<1>12. Out' = Out /\ Put - Out < SIZE_BUF_RX - 1
  BY <1>4, <1>5, <1>10, <1>11 DEF Out, SizeOK
<1>13. Receiver'
  <2>1. Len(rxd') <= arrived'
    <3>1. Len(rxd) <= arrived BY DEF Inv, Receiver
    <3> QED BY <1>1, <1>3, <1>4, <1>11, <3>1
  <2>2. ASSUME NEW k \in 1 .. Len(rxd')
        PROVE  rxd'[k] = arrived' - Len(rxd') + k
    <3>1. k + 1 \in 1 .. Len(rxd) /\ k \in Int /\ rxd'[k] = rxd[k + 1]
      BY <1>1, <1>3, <1>11
    <3>2. rxd[k + 1] = arrived - Len(rxd) + (k + 1)
      BY <3>1 DEF Inv, Receiver
    <3> QED BY <1>1, <1>3, <1>4, <1>11, <3>1, <3>2
  <2>3. rxdrdy' => rxd' # <<>>
    <3>1. rxdrdy' => Len(rxd) > 1 BY <1>1, <1>2
    <3>2. Len(rxd) > 1 => Len(rxd') # 0 BY <1>3, <1>11
    <3>3. rxd' = <<>> => Len(rxd') = 0 OBVIOUS
    <3> QED BY <3>1, <3>2, <3>3
  <2> QED BY <1>1, <2>1, <2>2, <2>3 DEF Receiver
<1>14. Ring'
  <2>1. Backlog' + Len(rxd') <= SIZE_BUF_RX - 1
    <3>1. Backlog + Len(rxd) <= SIZE_BUF_RX - 1 BY DEF Inv, Ring
    <3> QED BY <1>3, <1>4, <1>10, <1>11, <3>1 DEF SizeOK
  <2>2. ASSUME NEW i \in Slots, (Distance(Oldest, i) < Backlog)'
        PROVE  (buffer[i] = Out + 1 + Distance(Oldest, i))'
    <3>1. Distance(Oldest, i) < Backlog + 1
      BY <2>2, <1>9, <1>10 DEF Distance
    <3>2. CASE i = counterWrite
      <4>1. buffer'[i] = Head(rxd) BY <1>1, <1>6, <3>2
      <4>2. Head(rxd) = Put + 1
        <5>1. 1 \in 1 .. Len(rxd) BY <1>3
        <5> QED BY <1>3, <5>1 DEF Inv, Receiver, Put
      <4>3. Put + 1 = Out + 1 + Distance(Oldest, i)
        BY <1>4, <3>2 DEF Out
      <4> QED BY <1>9, <1>12, <4>1, <4>2, <4>3 DEF Distance
    <3>3. CASE i # counterWrite
      <4>1. buffer'[i] = buffer[i] BY <1>1, <1>6, <3>3
      <4>2. Distance(Oldest, i) # Backlog
        BY <1>4, <1>6, <3>3, DistanceRange
      <4>3. Distance(Oldest, i) \in Int
        BY <1>4, DistanceRange DEF Slots, SizeOK
      <4>4. buffer[i] = Out + 1 + Distance(Oldest, i)
        BY <3>1, <4>2, <4>3, <1>4 DEF Inv, Ring
      <4> QED BY <1>9, <1>12, <4>1, <4>4 DEF Distance
    <3> QED BY <3>2, <3>3
  <2> QED BY <2>1, <2>2 DEF Ring, Slots
<1>15. Reading'
  <2>1. ASSUME pc' = "take" PROVE counterRead' # counterWrite'
    <3>1. pc = "take" BY <1>1, <2>1
    <3>2. counterRead \in Slots /\ Oldest = counterRead
      <4>1. counterRead \in 0 .. SIZE_BUF_RX /\ counterRead # SIZE_BUF_RX
        BY <3>1 DEF Inv, TypeOK
      <4> QED BY <3>1, <4>1, WrapRange DEF Slots, SizeOK, Oldest
    <3>3. Distance(Oldest', counterWrite') = Backlog + 1
      BY <1>1, <1>4, <1>5, <1>6, <1>9, DistanceGrows
    <3>4. Distance(Oldest', counterWrite') # 0 BY <1>4, <3>3
    <3> QED BY <1>1, <1>7, <1>9, <3>2, <3>4, DistanceRange
  <2>2. pc' = "load" => Wrap(slot' + 1) = Wrap(counterRead')
    BY <1>1 DEF Inv, Reading
  <2> QED BY <2>1, <2>2 DEF Reading, Wrap
<1>16. ASSUME pc = "load" PROVE buffer'[slot] = buffer[slot]
  <2>1. slot \in Slots BY DEF Inv, TypeOK
  <2>2. slot # counterWrite
    <3>1. Oldest = Wrap(slot + 1) BY <1>16 DEF Inv, Reading, Oldest
    <3>2. Distance(Wrap(slot + 1), slot) = SIZE_BUF_RX - 1
      BY <2>1 DEF Distance, Wrap, SizeOK, Slots
    <3>3. Distance(Oldest, counterWrite) # SIZE_BUF_RX - 1
      BY <1>4, <1>5 DEF SizeOK
    <3> QED BY <3>1, <3>2, <3>3
  <2> QED BY <1>1, <1>6, <2>1, <2>2
<1> QED BY <1>8, <1>11, <1>12, <1>13, <1>14, <1>15, <1>16 DEF Inv

LEMMA ArriveInv ==
  ASSUME SizeOK, Inv, Arrive PROVE Inv' /\ Put' = Put /\ Out' = Out
<1>1. /\ Backlog + Len(rxd) < SIZE_BUF_RX - 1
      /\ rxd' = Append(rxd, arrived + 1)
      /\ rxdrdy' = (rxdrdy \/ rxd = <<>>)
      /\ arrived' = arrived + 1
      /\ UNCHANGED <<ring, pc, slot, isr>>
  BY DEF Arrive
<1>2. rxd \in Seq(Nat) /\ arrived \in Nat BY DEF Inv, TypeOK
<1>3. /\ Len(rxd) \in Nat /\ rxd' \in Seq(Nat) /\ Len(rxd') = Len(rxd) + 1
      /\ \A k \in 1 .. Len(rxd) : rxd'[k] = rxd[k]
      /\ rxd'[Len(rxd) + 1] = arrived + 1
  BY <1>1, <1>2
<1>4. TypeOK'
  <2>1. arrived' \in Nat BY <1>1, <1>2
  <2>2. rxdrdy' \in BOOLEAN BY <1>1
  <2> QED BY <1>1, <1>3, <2>1, <2>2 DEF Inv, TypeOK, ring
<1>5. Oldest' = Oldest /\ Backlog' = Backlog
  BY <1>1 DEF Oldest, Backlog, ring, Wrap
<1>6. Put' = Put BY <1>1, <1>2, <1>3 DEF Put
<1>7. Out' = Out BY <1>5, <1>6 DEF Out
<1>8. Backlog \in Nat BY Numbers DEF Inv, Slots, SizeOK
<1>9. Ring'
  <2>1. Backlog' + Len(rxd') <= SIZE_BUF_RX - 1
    BY <1>1, <1>3, <1>5, <1>8 DEF SizeOK
  <2> QED BY <1>1, <1>5, <1>7, <2>1 DEF Inv, Ring, Distance, ring
<1>10. Receiver'
  <2>1. Len(rxd) <= arrived BY DEF Inv, Receiver
  <2>2. ASSUME NEW k \in 1 .. Len(rxd')
        PROVE  rxd'[k] = arrived' - Len(rxd') + k
    <3>1. CASE k = Len(rxd) + 1
      BY <1>1, <1>2, <1>3, <3>1
    <3>2. CASE k # Len(rxd) + 1
      <4>1. k \in 1 .. Len(rxd) /\ k \in Int BY <1>3, <3>2
      <4>2. rxd[k] = arrived - Len(rxd) + k BY <4>1 DEF Inv, Receiver
      <4> QED BY <1>1, <1>2, <1>3, <4>1, <4>2
    <3> QED BY <3>1, <3>2
  <2>3. rxd' # <<>>
    <3>1. Len(rxd') # 0 BY <1>3
    <3>2. rxd' = <<>> => Len(rxd') = 0 OBVIOUS
    <3> QED BY <3>1, <3>2
  <2>4. isr' = "read" => ~rxdrdy' BY <1>1 DEF Inv, Receiver
  <2>5. Len(rxd') <= arrived' BY <1>1, <1>2, <1>3, <2>1
  <2> QED BY <2>2, <2>3, <2>4, <2>5 DEF Receiver
<1>11. Reading' BY <1>1 DEF Inv, Reading, ring, Wrap
<1> QED BY <1>4, <1>6, <1>7, <1>9, <1>10, <1>11 DEF Inv

LEMMA StutterInv == ASSUME Inv, UNCHANGED vars PROVE Inv'
<1>1. Oldest' = Oldest BY DEF vars, ring, Oldest, Wrap
<1> QED BY <1>1 DEF vars, ring, receiver, Inv, TypeOK, Receiver, Ring, Reading,
          Backlog, Put, Out, Distance, Wrap

LEMMA NextInv == ASSUME SizeOK, Inv, [Next]_vars PROVE Inv'
  BY CallInv, CompareInv, TakeIndexInv, LoadByteInv, WrapReadInv, ClearLoadInv,
     ClearStoreInv, IsrClearInv, IsrReadInv, ArriveInv, StutterInv
  DEF Next, ReadUART, ClearRxBuffer

LEMMA Invariance == ASSUME SizeOK PROVE Spec => []Inv
  BY InitInv, NextInv, PTL DEF Spec

-----------------------------------------------------------------------------
(* The refinement mapping.  Between taking the index and loading the byte, *)
(* ReadUART already stands for the byte in its slot.                       *)
Got == IF pc = "load" THEN buffer[slot] ELSE got

LEMMA Mapped ==
  ASSUME Inv
  PROVE  /\ Fifo!Init <=> (Put = 0 /\ Out = 0 /\ Got = 0)
         /\ Fifo!Put <=> (/\ Put - Out < SIZE_BUF_RX - 1
                          /\ Put' = Put + 1 /\ Out' = Out /\ Got' = Got)
         /\ Fifo!Get <=> (/\ Out < Put
                          /\ Out' = Out + 1 /\ Got' = Out + 1 /\ Put' = Put)
         /\ Fifo!GetNothing <=> (/\ ~(Out < Put)
                                 /\ Got' = 0 /\ Put' = Put /\ Out' = Out)
         /\ Fifo!Clear <=> (Out' = Put /\ Put' = Put /\ Got' = Got)
         /\ UNCHANGED Fifo!vars <=> (Put' = Put /\ Out' = Out /\ Got' = Got)
  BY DEF Fifo!Init, Fifo!Put, Fifo!Room, Fifo!Get, Fifo!Available,
         Fifo!GetNothing, Fifo!Clear, Fifo!vars, Put, Out, Got

LEMMA InitMapped == ASSUME SizeOK, Init PROVE Fifo!Init
<1>1. Inv BY InitInv
<1>2. Oldest = counterWrite BY DEF SizeOK, Init, Oldest, Wrap
<1>3. Backlog = 0 BY <1>1, <1>2, Numbers DEF Inv
<1>4. Len(rxd) = 0 /\ arrived = 0 BY DEF Init
<1>5. Put = 0 BY <1>4 DEF Put
<1>6. Out = 0 BY <1>3, <1>5 DEF Out
<1>7. Got = 0 BY DEF Init, Got
<1> QED BY <1>1, <1>5, <1>6, <1>7, Mapped

(* Each step of the driver is a step of the queue or changes nothing of it.*)
LEMMA StepMapped == ASSUME SizeOK, Inv, [Next]_vars PROVE [Fifo!Next]_Fifo!vars
<1>1. CASE CallReadUART \/ CallClearRxBuffer
  <2>1. Got' = Got
    BY <1>1 DEF CallReadUART, CallClearRxBuffer, Goto, ring, Got
  <2> QED BY <1>1, <2>1, CallInv, Mapped
<1>2. CASE Compare
  <2>1. pc = "compare" BY <1>2 DEF Compare, Goto, Return
  <2>2. CASE counterRead = counterWrite
    <3>1. Got' = 0 BY <1>2, <2>2 DEF Compare, Goto, Return, Got
    <3>2. Backlog = 0
      <4>1. counterRead \in Slots /\ counterRead \in 0 .. SIZE_BUF_RX
        BY <2>2 DEF Inv, TypeOK
      <4>2. Oldest = counterWrite BY <2>1, <2>2, <4>1, WrapRange DEF Oldest
      <4> QED BY <4>2, Numbers DEF Inv
    <3>3. ~(Out < Put) BY <3>2, Numbers DEF Out, Inv
    <3> QED BY <1>2, <3>1, <3>3, CompareInv, Mapped DEF Fifo!Next
  <2>3. CASE counterRead # counterWrite
    <3>1. Got' = Got BY <1>2, <2>3 DEF Compare, Goto, Return, Got
    <3> QED BY <1>2, <3>1, CompareInv, Mapped
  <2> QED BY <2>2, <2>3
<1>3. CASE TakeIndex
  <2>1. Got' = Out + 1 BY <1>3, TakeIndexInv DEF TakeIndex, Goto, Got
  <2> QED BY <1>3, <2>1, TakeIndexInv, Mapped DEF Fifo!Next
<1>4. CASE LoadByte
  <2>1. Got' = Got BY <1>4 DEF LoadByte, Goto, Got
  <2> QED BY <1>4, <2>1, LoadByteInv, Mapped
<1>5. CASE WrapRead
  <2>1. Got' = Got BY <1>5 DEF WrapRead, Goto, Return, Got
  <2> QED BY <1>5, <2>1, WrapReadInv, Mapped
<1>6. CASE ClearLoad
  <2>1. Got' = Got BY <1>6 DEF ClearLoad, Goto, receiver, Got
  <2> QED BY <1>6, <2>1, ClearLoadInv, Mapped DEF Fifo!Next
<1>7. CASE ClearStore
  <2>1. Got' = Got BY <1>7 DEF ClearStore, Goto, Return, Got
  <2> QED BY <1>7, <2>1, ClearStoreInv, Mapped
<1>8. CASE IsrClear
  <2>1. Got' = Got BY <1>8 DEF IsrClear, ring, Got
  <2> QED BY <1>8, <2>1, IsrClearInv, Mapped
<1>9. CASE IsrRead
  <2>1. Got' = Got BY <1>9, IsrReadInv DEF IsrRead, Got
  <2> QED BY <1>9, <2>1, IsrReadInv, Mapped DEF Fifo!Next
<1>10. CASE Arrive
  <2>1. Got' = Got BY <1>10 DEF Arrive, ring, Got
  <2> QED BY <1>10, <2>1, ArriveInv, Mapped
<1>11. CASE UNCHANGED vars
  <2>1. Got' = Got BY <1>11 DEF vars, ring, Got
  <2>2. Put' = Put BY <1>11 DEF vars, receiver, Put
  <2>3. Out' = Out
    BY <1>11, <2>2 DEF vars, ring, Out, Backlog, Wrap
  <2> QED BY <2>1, <2>2, <2>3, Mapped
<1> QED BY <1>1, <1>2, <1>3, <1>4, <1>5, <1>6, <1>7, <1>8, <1>9, <1>10, <1>11
        DEF Next, ReadUART, ClearRxBuffer

(* Whatever the interleaving of the handler (uart.c:51-62) and of ReadUART *)
(* and ClearRxBuffer (uart.c:91-107), the receive ring is a queue: reads   *)
(* return the oldest byte, "none" means none, and clearing drops what is   *)
(* stored and no later byte.  Nothing is assumed but a ring of two slots.  *)
THEOREM ReceiveIsQueue == ASSUME SizeOK PROVE Spec => ImplementsFifo
<1>1. Init => Fifo!Init BY InitMapped
<1>2. Inv /\ [Next]_vars => [Fifo!Next]_Fifo!vars BY StepMapped
<1> QED BY <1>1, <1>2, Invariance, PTL DEF Spec, ImplementsFifo, Fifo!Spec

-----------------------------------------------------------------------------
(* The receiver never goes deaf: while a byte is in it the event is up or  *)
(* the handler is about to read RXD.  This is what Stored needs besides    *)
(* the fairness of the handler.                                            *)
NotDeaf == rxd # <<>> => rxdrdy \/ isr = "read"

LEMMA NotDeafKept == ASSUME Inv, NotDeaf, [Next]_vars PROVE NotDeaf'
<1>1. CASE IsrRead
  <2>1. rxd \in Seq(Nat) BY DEF Inv, TypeOK
  <2>2. rxd # <<>> BY <1>1 DEF IsrRead, Inv, Receiver
  <2>3. rxd' = Tail(rxd) /\ rxdrdy' = (rxdrdy \/ Len(rxd) > 1)
    BY <1>1 DEF IsrRead
  <2>4. Len(rxd') = Len(rxd) - 1 /\ rxd' \in Seq(Nat) /\ Len(rxd) \in Nat
    BY <2>1, <2>2, <2>3
  <2>5. rxd' # <<>> => Len(rxd) > 1 BY <2>4
  <2> QED BY <2>3, <2>5 DEF NotDeaf
<1>2. CASE Arrive
  BY <1>2 DEF Arrive, NotDeaf
<1>3. CASE IsrClear BY <1>3 DEF IsrClear, NotDeaf
<1>4. CASE CallReadUART \/ CallClearRxBuffer \/ ReadUART \/ ClearRxBuffer
  BY <1>4 DEF CallReadUART, CallClearRxBuffer, ReadUART, Compare, TakeIndex,
              LoadByte, WrapRead, ClearRxBuffer, ClearLoad, ClearStore, Goto,
              Return, receiver, NotDeaf
<1>5. CASE UNCHANGED vars BY <1>5 DEF vars, receiver, NotDeaf
<1> QED BY <1>1, <1>2, <1>3, <1>4, <1>5 DEF Next

(* No byte is forgotten in the receiver (uart.c:51-62): an event cleared   *)
(* for a byte is raised again for the one behind it, whenever that comes.  *)
THEOREM ReceiverIsServed == ASSUME SizeOK PROVE Spec => []NotDeaf
<1>1. Init => NotDeaf BY DEF Init, NotDeaf
<1>2. Inv /\ NotDeaf /\ [Next]_vars => NotDeaf' BY NotDeafKept
<1> QED BY <1>1, <1>2, Invariance, PTL DEF Spec
=============================================================================
