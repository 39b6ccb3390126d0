---------------------------- MODULE UartTx_proofs ----------------------------
(***************************************************************************)
(* Proofs about UartTx for every size of the ring and every bound: the     *)
(* type invariant and the safety invariants checked by the runs, from one  *)
(* inductive invariant.                                                    *)
(***************************************************************************)
EXTENDS UartTx, TLAPS

(* An index is one past the ring only between its increment and its wrap.  *)
Indices ==
  /\ counterWrite = SIZE_BUF_TX => pc \in {"late store", "wrap write"}
  /\ counterRead = SIZE_BUF_TX => pc \in {"send", "wrap read"}

(* txState and pc tell whether a byte is in flight, that is, being shifted *)
(* out or waiting for its TXDRDY to be served; and a byte written to TXD   *)
(* during a call is in the transmitter until the call returns.             *)
InFlight == shift # <<>> \/ txdrdy

Flight ==
  /\ Len(shift) <= 1
  /\ txdrdy => shift = <<>>
  /\ txState = "TX_DONE" \/ pc \in {"take", "send"} => ~InFlight
  /\ txState = "TX_IN_PROGRESS" /\ pc \notin {"take", "send"} => InFlight
  /\ pc = "mark" => txState = "TX_DONE"
  /\ pc \in {"take", "send", "wrap read"} => txState = "TX_IN_PROGRESS"
  /\ fresh => pc # "return" /\ shift # <<>>
  /\ pc = "wrap read" => fresh

(* The byte a call has published is in the ring until it is taken, which   *)
(* makes fresh true; and TX_DONE means that no other byte is there.        *)
Published == {"late store", "wrap write", "test", "mark"}

Holding ==
  /\ pc \in Published /\ ~fresh => Used >= 1
  /\ pc = "take" => Used >= 1
  /\ txState = "TX_DONE" => Used <= (IF pc \in Published THEN 1 ELSE 0)

(* The caller's part.                                                      *)
Outstanding == accepted - Len(wire) <= MaxOutstanding

Inv ==
  /\ TypeOK
  /\ Indices
  /\ Flight
  /\ Holding
  /\ Conserved
  /\ Outstanding

-----------------------------------------------------------------------------
(* Facts of arithmetic and of sequences that the cases need.               *)
LEMMA Types ==
  ASSUME TypeOK
  PROVE  /\ counterWrite \in 0 .. SIZE_BUF_TX
         /\ counterRead \in 0 .. SIZE_BUF_TX
         /\ shift \in Seq(Nat)
         /\ wire \in Seq(Nat)
         /\ accepted \in Nat
         /\ txdrdy \in BOOLEAN
         /\ fresh \in BOOLEAN
         /\ buffer \in [0 .. (SIZE_BUF_TX - 1) -> Nat]
  BY DEF TypeOK

LEMMA Numbers ==
  ASSUME TypeOK
  PROVE  /\ Used \in 0 .. (SIZE_BUF_TX - 1)
         /\ Len(shift) \in Nat
         /\ Len(wire) \in Nat
         /\ accepted \in Nat
         /\ InHand \in 0 .. 1
<1>1. counterWrite \in 0 .. SIZE_BUF_TX /\ counterRead \in 0 .. SIZE_BUF_TX
  BY Types
<1>2. Used \in 0 .. (SIZE_BUF_TX - 1)
  BY <1>1, SizeAssumption DEF Used, Wrap
<1>3. shift \in Seq(Nat) /\ wire \in Seq(Nat) /\ accepted \in Nat
  BY Types
<1>4. Len(shift) \in Nat /\ Len(wire) \in Nat BY <1>3
<1> QED BY <1>2, <1>3, <1>4 DEF InHand

LEMMA WrapRange ==
  ASSUME NEW i \in 0 .. SIZE_BUF_TX
  PROVE  Wrap(i) \in 0 .. (SIZE_BUF_TX - 1)
  BY SizeAssumption DEF Wrap

(* What a step of an index does to the number of occupied slots.           *)
LEMMA UsedGrows ==
  ASSUME counterWrite \in 0 .. (SIZE_BUF_TX - 1),
         counterRead \in 0 .. SIZE_BUF_TX,
         Used + 1 < SIZE_BUF_TX,
         counterWrite' = counterWrite + 1, counterRead' = counterRead
  PROVE  Used' = Used + 1
  BY SizeAssumption DEF Used, Wrap

LEMMA UsedShrinks ==
  ASSUME counterWrite \in 0 .. SIZE_BUF_TX,
         counterRead \in 0 .. (SIZE_BUF_TX - 1),
         Used >= 1,
         counterWrite' = counterWrite,
         counterRead' = counterRead + 1 \/ counterRead' = Wrap(counterRead + 1)
  PROVE  Used' = Used - 1
<1>1. Wrap(counterRead') = Wrap(counterRead + 1)
  BY SizeAssumption DEF Wrap
<1>2. Wrap(counterRead) = counterRead BY SizeAssumption DEF Wrap
<1>3. Wrap(counterWrite') = Wrap(counterWrite) OBVIOUS
<1>4. Wrap(counterWrite) \in 0 .. (SIZE_BUF_TX - 1) BY WrapRange
<1>5. Wrap(counterRead + 1)
        = IF counterRead + 1 = SIZE_BUF_TX THEN 0 ELSE counterRead + 1
  BY DEF Wrap
<1>6. CASE counterRead + 1 = SIZE_BUF_TX
  BY <1>1, <1>2, <1>3, <1>4, <1>5, <1>6, SizeAssumption DEF Used
<1>7. CASE counterRead + 1 # SIZE_BUF_TX
  BY <1>1, <1>2, <1>3, <1>4, <1>5, <1>7, SizeAssumption DEF Used
<1> QED BY <1>6, <1>7

LEMMA Singleton ==
  ASSUME NEW b \in Nat
  PROVE  /\ Append(<<>>, b) = <<b>>
         /\ Append(<<>>, b) \in Seq(Nat)
         /\ Append(<<>>, b) # <<>>
         /\ Len(Append(<<>>, b)) = 1
         /\ Append(<<>>, b)[1] = b
  OBVIOUS

LEMMA OnlyOne ==
  ASSUME NEW s \in Seq(Nat), s # <<>>, Len(s) <= 1
  PROVE  Len(s) = 1
<1>1. Len(s) \in Nat OBVIOUS
<1>2. Len(s) # 0 OBVIOUS
<1>3. \A n \in Nat : n # 0 /\ n <= 1 => n = 1 OBVIOUS
<1> QED BY <1>1, <1>2, <1>3

LEMMA UsedWraps ==
  ASSUME counterWrite \in 0 .. SIZE_BUF_TX,
         counterRead \in 0 .. SIZE_BUF_TX,
         \/ counterWrite' = Wrap(counterWrite) /\ counterRead' = counterRead
         \/ counterWrite' = counterWrite /\ counterRead' = Wrap(counterRead)
  PROVE  Used' = Used
  BY SizeAssumption DEF Used, Wrap

-----------------------------------------------------------------------------
LEMMA InitInv == ASSUME Init PROVE Inv
<1>1. TypeOK BY SizeAssumption DEF Init, TypeOK
<1>2. Indices BY SizeAssumption DEF Init, Indices
<1>3. Flight BY DEF Init, Flight, InFlight
<1>4. Used = 0 BY SizeAssumption DEF Init, Used, Wrap
<1>5. Holding BY <1>4 DEF Init, Holding, Published
<1>6. Conserved BY <1>4 DEF Init, Conserved, InHand
<1>7. Outstanding BY OutstandingAssumption, SizeAssumption DEF Init, Outstanding
<1> QED BY <1>1, <1>2, <1>3, <1>5, <1>6, <1>7 DEF Inv

LEMMA CallInv == ASSUME Inv, Call PROVE Inv'
<1> USE DEF Inv
<1>1. accepted' = accepted + 1 /\ shift' = shift /\ wire' = wire
  BY DEF Call, device
<1>2. Used' = Used BY DEF Call, ring, Used, Wrap
<1>3. TypeOK'
  <2>1. accepted' \in Nat BY <1>1, Types
  <2> QED BY <2>1 DEF Call, ring, device, TypeOK
<1>4. Indices' BY DEF Call, ring, Indices
<1>5. Flight' BY DEF Call, device, Flight, InFlight
<1>6. Holding' BY <1>2 DEF Call, Holding, Published
<1>7. Conserved'
  <2>1. InHand = 0 /\ InHand' = 1 BY DEF Call, InHand
  <2> QED BY <2>1, <1>1, <1>2, Numbers DEF Conserved
<1>8. Outstanding'
  <2>1. accepted - Len(wire) < MaxOutstanding BY DEF Call
  <2>2. MaxOutstanding \in Int BY OutstandingAssumption, SizeAssumption
  <2> QED BY <2>1, <2>2, <1>1, Numbers DEF Outstanding
<1> QED BY <1>3, <1>4, <1>5, <1>6, <1>7, <1>8

(* The statement of line 113.  The ring has room: the byte in hand is one  *)
(* of at most MaxOutstanding.                                              *)
LEMMA PutInv == ASSUME Inv, Put PROVE Inv'
<1> USE DEF Inv
<1>1. UNCHANGED <<txState, device, accepted, counterRead>>
  BY DEF Put, StoreThenPublish, PublishThenStore
<1>2. shift' = shift /\ wire' = wire BY <1>1 DEF device
<1>3. CASE pc \in {"store", "late store"}
  <2>1. /\ counterWrite' = counterWrite
        /\ slot' = slot
        /\ pc' = IF pc = "store" THEN "increment" ELSE "wrap write"
        /\ \E i : buffer' = [buffer EXCEPT ![i] = accepted]
    BY <1>3 DEF Put, StoreThenPublish, PublishThenStore, Goto
  <2>2. Used' = Used BY <1>1, <2>1 DEF Used, Wrap
  <2>3. TypeOK'
    <3>1. buffer' \in [0 .. (SIZE_BUF_TX - 1) -> Nat] BY <2>1, Types
    <3> QED BY <1>1, <1>3, <2>1, <3>1 DEF TypeOK, device
  <2>4. Indices' BY <1>1, <1>3, <2>1 DEF Indices
  <2>5. Flight' BY <1>1, <1>3, <2>1 DEF Flight, InFlight, device
  <2>6. Holding' BY <1>1, <1>3, <2>1, <2>2 DEF Holding, Published, device
  <2>7. Conserved' 
    <3>1. InHand' = InHand BY <1>3, <2>1 DEF InHand
    <3> QED BY <1>1, <1>2, <2>2, <3>1 DEF Conserved
  <2>8. Outstanding' BY <1>1, <1>2 DEF Outstanding
  <2> QED BY <2>3, <2>4, <2>5, <2>6, <2>7, <2>8
<1>4. CASE pc \in {"increment", "publish"}
  <2>1. /\ counterWrite' = counterWrite + 1
        /\ slot' = IF pc = "publish" THEN counterWrite ELSE slot
        /\ pc' = IF pc = "publish" THEN "late store" ELSE "wrap write"
        /\ buffer' = buffer
    BY <1>4 DEF Put, StoreThenPublish, PublishThenStore, Goto
  <2>2. InHand = 1 /\ InHand' = 0 BY <1>4, <2>1 DEF InHand
  <2>3. counterWrite \in 0 .. (SIZE_BUF_TX - 1)
    <3>1. counterWrite # SIZE_BUF_TX BY <1>4 DEF Indices
    <3> QED BY <3>1, Types, SizeAssumption
  <2>4. Used + 1 < SIZE_BUF_TX
    <3>1. MaxOutstanding \in Int /\ MaxOutstanding < SIZE_BUF_TX
      BY OutstandingAssumption, SizeAssumption
    <3>2. accepted = Len(wire) + Len(shift) + Used + 1 BY <2>2 DEF Conserved
    <3> QED BY <3>1, <3>2, Numbers, SizeAssumption DEF Outstanding
  <2>5. Used' = Used + 1 BY <1>1, <2>1, <2>3, <2>4, UsedGrows, Types
  <2>6. TypeOK'
    <3>. counterWrite' = counterWrite + 1 BY <2>1
    <3>1. counterWrite' \in 0 .. SIZE_BUF_TX BY <2>3, SizeAssumption
    <3>2. slot' \in 0 .. (SIZE_BUF_TX - 1) BY <2>1, <2>3 DEF TypeOK
    <3> QED BY <1>1, <1>4, <2>1, <3>1, <3>2 DEF TypeOK, device
  <2>7. Indices' BY <1>1, <1>4, <2>1 DEF Indices
  <2>8. Flight' BY <1>1, <1>4, <2>1 DEF Flight, InFlight, device
  <2>9. Holding'
    <3>1. Used' >= 1 BY <2>5, Numbers
    <3>2. txState = "TX_DONE" => Used <= 0 BY <1>4 DEF Holding, Published
    <3>3. txState = "TX_DONE" => Used' <= 1 BY <3>2, <2>5, Numbers
    <3> QED BY <1>1, <1>4, <2>1, <3>1, <3>3 DEF Holding, Published
  <2>10. Conserved' BY <1>1, <1>2, <2>2, <2>5, Numbers DEF Conserved
  <2>11. Outstanding' BY <1>1, <1>2 DEF Outstanding
  <2> QED BY <2>6, <2>7, <2>8, <2>9, <2>10, <2>11
<1> QED BY <1>3, <1>4 DEF Put, StoreThenPublish, PublishThenStore, Goto

LEMMA WrapWriteInv == ASSUME Inv, WrapWrite PROVE Inv'
<1> USE DEF Inv
<1>1. /\ pc = "wrap write" /\ pc' = "test"
      /\ counterWrite' = Wrap(counterWrite)
      /\ UNCHANGED <<buffer, counterRead, txState, slot, accepted>>
      /\ UNCHANGED <<shift, txdrdy, fresh, wire>>
  BY DEF WrapWrite, Goto, device
<1>2. counterWrite' \in 0 .. (SIZE_BUF_TX - 1) BY <1>1, WrapRange, Types
<1>3. Used' = Used BY <1>1, UsedWraps, Types
<1>4. TypeOK'
  <2>1. counterWrite' \in 0 .. SIZE_BUF_TX BY <1>2, SizeAssumption
  <2> QED BY <1>1, <2>1 DEF TypeOK
<1>5. Indices'
  <2>1. counterWrite' # SIZE_BUF_TX BY <1>2, SizeAssumption
  <2> QED BY <1>1, <2>1 DEF Indices
<1>6. Flight' BY <1>1 DEF Flight, InFlight
<1>7. Holding' BY <1>1, <1>3 DEF Holding, Published
<1>8. Conserved' BY <1>1, <1>3 DEF Conserved, InHand
<1>9. Outstanding' BY <1>1 DEF Outstanding
<1> QED BY <1>4, <1>5, <1>6, <1>7, <1>8, <1>9

(* With TX_DONE the byte just published is still in the ring.              *)
LEMMA TestInv == ASSUME Inv, Test PROVE Inv'
<1> USE DEF Inv
<1>1. /\ pc = "test"
      /\ IF txState = "TX_DONE"
         THEN pc' = "mark" /\ fresh' = fresh
         ELSE pc' = "return" /\ fresh' = FALSE
      /\ UNCHANGED <<buffer, counterWrite, counterRead>>
      /\ UNCHANGED <<txState, slot, shift, txdrdy, accepted, wire>>
  BY DEF Test, ring
<1>2. Used' = Used BY <1>1 DEF Used, Wrap
<1>3. TypeOK' BY <1>1 DEF TypeOK
<1>4. Indices' BY <1>1 DEF Indices
<1>5. Flight' BY <1>1, Types DEF Flight, InFlight, TypeOK
<1>6. Holding' BY <1>1, <1>2 DEF Holding, Published, Flight, InFlight, TypeOK
<1>7. Conserved' BY <1>1, <1>2 DEF Conserved, InHand
<1>8. Outstanding' BY <1>1 DEF Outstanding
<1> QED BY <1>3, <1>4, <1>5, <1>6, <1>7, <1>8

LEMMA MarkInv == ASSUME Inv, Mark PROVE Inv'
<1> USE DEF Inv
<1>1. /\ pc = "mark" /\ pc' = "take"
      /\ txState' = "TX_IN_PROGRESS"
      /\ UNCHANGED <<buffer, counterWrite, counterRead, slot, accepted>>
      /\ UNCHANGED <<shift, txdrdy, fresh, wire>>
  BY DEF Mark, Goto, ring, device
<1>2. Used' = Used BY <1>1 DEF Used, Wrap
<1>3. TypeOK' BY <1>1 DEF TypeOK
<1>4. Indices' BY <1>1 DEF Indices
<1>5. Flight' BY <1>1 DEF Flight, InFlight
<1>6. Holding' BY <1>1, <1>2 DEF Holding, Published, Flight, InFlight
<1>7. Conserved' BY <1>1, <1>2 DEF Conserved, InHand
<1>8. Outstanding' BY <1>1 DEF Outstanding
<1> QED BY <1>3, <1>4, <1>5, <1>6, <1>7, <1>8

(* TransmitUART takes the byte it has put into the ring.                   *)
LEMMA TakeInv == ASSUME Inv, Take PROVE Inv'
<1> USE DEF Inv
<1>1. /\ pc = "take" /\ pc' = "send"
      /\ slot' = counterRead /\ counterRead' = counterRead + 1
      /\ UNCHANGED <<buffer, counterWrite, txState, accepted>>
      /\ UNCHANGED <<shift, txdrdy, fresh, wire>>
  BY DEF Take, Goto, device
<1>2. counterRead \in 0 .. (SIZE_BUF_TX - 1)
  <2>1. counterRead # SIZE_BUF_TX BY <1>1 DEF Indices
  <2> QED BY <2>1, Types, SizeAssumption
<1>3. Used' = Used - 1
  <2>1. Used >= 1 BY <1>1 DEF Holding
  <2> QED BY <1>1, <1>2, <2>1, UsedShrinks, Types
<1>4. TypeOK'
  <2>1. counterRead' \in 0 .. SIZE_BUF_TX BY <1>1, <1>2, SizeAssumption
  <2> QED BY <1>1, <1>2, <2>1 DEF TypeOK
<1>5. Indices' BY <1>1 DEF Indices
<1>6. Flight' BY <1>1 DEF Flight, InFlight
<1>7. Holding' BY <1>1 DEF Holding, Published, Flight
<1>8. Conserved'
  <2>1. InHand = 0 /\ InHand' = 1 BY <1>1 DEF InHand
  <2> QED BY <1>1, <1>3, <2>1, Numbers DEF Conserved
<1>9. Outstanding' BY <1>1 DEF Outstanding
<1> QED BY <1>4, <1>5, <1>6, <1>7, <1>8, <1>9

(* The transmitter is free when TransmitUART writes TXD.                   *)
LEMMA SendInv == ASSUME Inv, Send PROVE Inv'
<1> USE DEF Inv
<1>1. /\ pc = "send" /\ pc' = "wrap read"
      /\ shift' = Append(shift, buffer[slot]) /\ fresh' = TRUE
      /\ UNCHANGED <<buffer, counterWrite, counterRead, txState, slot>>
      /\ UNCHANGED <<txdrdy, wire, accepted>>
  BY DEF Send, SetTXD, Goto, ring
<1>2. shift = <<>> /\ txdrdy = FALSE
  BY <1>1, Types DEF Flight, InFlight
<1>3. buffer[slot] \in Nat BY DEF TypeOK
<1>4. shift' \in Seq(Nat) /\ Len(shift) = 0 /\ Len(shift') = 1 /\ shift' # <<>>
  <2>1. shift' = Append(<<>>, buffer[slot]) BY <1>1, <1>2
  <2> QED BY <1>2, <1>3, <2>1, Singleton
<1>5. Used' = Used BY <1>1 DEF Used, Wrap
<1>6. TypeOK' BY <1>1, <1>4 DEF TypeOK
<1>7. Indices' BY <1>1 DEF Indices
<1>8. Flight'
  <2>1. pc' = "wrap read" /\ fresh' = TRUE /\ txdrdy' = FALSE /\ txState' = txState
    BY <1>1, <1>2
  <2>2. txState = "TX_IN_PROGRESS" BY <1>1 DEF Flight
  <2>3. Len(shift') <= 1 /\ shift' # <<>> BY <1>4
  <2> QED BY <2>1, <2>2, <2>3 DEF Flight, InFlight
<1>9. Holding' BY <1>1 DEF Holding, Published, Flight
<1>10. Conserved'
  <2>1. InHand = 1 /\ InHand' = 0 BY <1>1 DEF InHand
  <2>2. wire' = wire /\ accepted' = accepted BY <1>1
  <2> QED BY <1>4, <1>5, <2>1, <2>2, Numbers DEF Conserved
<1>11. Outstanding' BY <1>1 DEF Outstanding
<1> QED BY <1>6, <1>7, <1>8, <1>9, <1>10, <1>11

LEMMA WrapReadInv == ASSUME Inv, WrapRead PROVE Inv'
<1> USE DEF Inv
<1>1. /\ pc = "wrap read" /\ pc' = "return"
      /\ counterRead' = Wrap(counterRead) /\ fresh' = FALSE
      /\ UNCHANGED <<buffer, counterWrite, txState, slot, shift, txdrdy>>
      /\ UNCHANGED <<accepted, wire>>
  BY DEF WrapRead, Goto
<1>2. counterRead' \in 0 .. (SIZE_BUF_TX - 1) BY <1>1, WrapRange, Types
<1>3. Used' = Used BY <1>1, UsedWraps, Types
<1>4. TypeOK'
  <2>1. counterRead' \in 0 .. SIZE_BUF_TX BY <1>2, SizeAssumption
  <2> QED BY <1>1, <2>1 DEF TypeOK
<1>5. Indices'
  <2>1. counterRead' # SIZE_BUF_TX BY <1>2, SizeAssumption
  <2> QED BY <1>1, <2>1 DEF Indices
<1>6. Flight' BY <1>1 DEF Flight, InFlight
<1>7. Holding' BY <1>1, <1>3 DEF Holding, Published, Flight
<1>8. Conserved' BY <1>1, <1>3 DEF Conserved, InHand
<1>9. Outstanding' BY <1>1 DEF Outstanding
<1> QED BY <1>4, <1>5, <1>6, <1>7, <1>8, <1>9

(* When a TXDRDY is pending the transmitter is free, the running call has  *)
(* not written TXD and it is not using the read index.                     *)
LEMMA IsrPending ==
  ASSUME Inv, txdrdy
  PROVE  /\ shift = <<>>
         /\ fresh = FALSE
         /\ txState = "TX_IN_PROGRESS"
         /\ pc \notin {"mark", "take", "send", "wrap read"}
         /\ counterRead \in 0 .. (SIZE_BUF_TX - 1)
<1> USE DEF Inv
<1>1. shift = <<>> BY DEF Flight
<1>2. fresh = FALSE BY <1>1, Types DEF Flight
<1>3. txState = "TX_IN_PROGRESS" BY DEF TypeOK, Flight, InFlight
<1>4. pc \notin {"mark", "take", "send", "wrap read"}
  BY <1>2, <1>3 DEF Flight, InFlight
<1>5. counterRead # SIZE_BUF_TX BY <1>4 DEF Indices
<1>6. counterRead \in 0 .. (SIZE_BUF_TX - 1) BY <1>5, Types, SizeAssumption
<1> QED BY <1>1, <1>2, <1>3, <1>4, <1>6

(* A raw inequality of the indices is enough for the handler to find a     *)
(* byte, even when counterWrite has not been wrapped yet: the byte just    *)
(* published is still there.                                               *)
LEMMA IsrFinds ==
  ASSUME Inv, txdrdy, counterWrite # counterRead PROVE Used >= 1
<1>1. /\ fresh = FALSE /\ pc \notin {"mark", "take", "send", "wrap read"}
      /\ counterRead \in 0 .. (SIZE_BUF_TX - 1)
  BY IsrPending
<1>2. CASE counterWrite = SIZE_BUF_TX
  <2>1. pc \in Published BY <1>2 DEF Inv, Indices, Published
  <2> QED BY <2>1, <1>1 DEF Inv, Holding
<1>3. CASE counterWrite # SIZE_BUF_TX
  <2>1. Wrap(counterWrite) = counterWrite BY <1>3 DEF Wrap
  <2>2. counterRead \in 0 .. (SIZE_BUF_TX - 1) BY <1>1
  <2>3. Wrap(counterRead) = counterRead BY <2>2, SizeAssumption DEF Wrap
  <2>4. counterWrite \in 0 .. SIZE_BUF_TX BY Types DEF Inv
  <2> QED BY <2>1, <2>2, <2>3, <2>4, SizeAssumption DEF Used
<1> QED BY <1>2, <1>3

(* The handler takes the oldest byte.                                      *)
LEMMA IsrSendInv == ASSUME Inv, IsrSend PROVE Inv'
<1> USE DEF Inv
<1>1. /\ txdrdy /\ txdrdy' = FALSE
      /\ counterWrite # counterRead
      /\ shift' = Append(shift, buffer[counterRead])
      /\ fresh' = (pc # "return")
      /\ counterRead' = Wrap(counterRead + 1)
      /\ UNCHANGED <<buffer, counterWrite, txState, pc, slot, accepted, wire>>
  BY DEF IsrSend, SetTXD
<1>2. /\ shift = <<>> /\ fresh = FALSE /\ txState = "TX_IN_PROGRESS"
      /\ pc \notin {"mark", "take", "send", "wrap read"}
      /\ counterRead \in 0 .. (SIZE_BUF_TX - 1)
  BY <1>1, IsrPending
<1>3. buffer[counterRead] \in Nat BY <1>2 DEF TypeOK
<1>4. shift' \in Seq(Nat) /\ Len(shift) = 0 /\ Len(shift') = 1 /\ shift' # <<>>
  <2>1. shift' = Append(<<>>, buffer[counterRead]) BY <1>1, <1>2
  <2> QED BY <1>2, <1>3, <2>1, Singleton
<1>5. Used >= 1 BY <1>1, <1>2, IsrFinds
<1>6. counterRead' \in 0 .. (SIZE_BUF_TX - 1)
  <2>1. counterRead \in 0 .. (SIZE_BUF_TX - 1) BY <1>2
  <2>2. counterRead' = Wrap(counterRead + 1) BY <1>1
  <2>3. counterRead + 1 \in 0 .. SIZE_BUF_TX BY <2>1, SizeAssumption
  <2> QED BY <2>2, <2>3, WrapRange
<1>7. Used' = Used - 1 BY <1>1, <1>2, <1>5, UsedShrinks, Types
<1>8. TypeOK'
  <2>1. counterRead' \in 0 .. SIZE_BUF_TX BY <1>6, SizeAssumption
  <2> QED BY <1>1, <1>4, <2>1 DEF TypeOK
<1>9. Indices'
  <2>1. counterRead' # SIZE_BUF_TX BY <1>6, SizeAssumption
  <2> QED BY <1>1, <2>1 DEF Indices
<1>10. Flight'
  <2>1. /\ pc' = pc /\ fresh' = (pc # "return") /\ txdrdy' = FALSE
        /\ txState' = "TX_IN_PROGRESS"
        /\ pc \notin {"mark", "take", "send", "wrap read"}
    BY <1>1, <1>2
  <2>2. Len(shift') <= 1 /\ shift' # <<>> BY <1>4
  <2> QED BY <2>1, <2>2 DEF Flight, InFlight
<1>11. Holding' BY <1>1, <1>2 DEF Holding, Published
<1>12. Conserved'
  <2>1. InHand' = InHand BY <1>1 DEF InHand
  <2>2. wire' = wire /\ accepted' = accepted BY <1>1
  <2> QED BY <1>4, <1>7, <2>1, <2>2, Numbers DEF Conserved
<1>13. Outstanding' BY <1>1 DEF Outstanding
<1> QED BY <1>8, <1>9, <1>10, <1>11, <1>12, <1>13

(* The handler finds the ring empty: a call that had already published its *)
(* byte would have kept it from being so, hence none has, and it will find *)
(* TX_DONE when it tests txState.                                          *)
LEMMA IsrDoneInv == ASSUME Inv, IsrDone PROVE Inv'
<1> USE DEF Inv
<1>1. /\ txdrdy /\ txdrdy' = FALSE
      /\ counterWrite = counterRead
      /\ txState' = "TX_DONE"
      /\ UNCHANGED <<buffer, counterWrite, counterRead, pc, slot, shift>>
      /\ UNCHANGED <<fresh, accepted, wire>>
  BY DEF IsrDone, ring
<1>2. /\ shift = <<>> /\ fresh = FALSE
      /\ pc \notin {"mark", "take", "send", "wrap read"}
  BY <1>1, IsrPending
<1>3. Used = 0 BY <1>1, Types, SizeAssumption DEF Used, Wrap
<1>4. pc \notin Published
  <2>1. ~(Used >= 1) BY <1>3
  <2> QED BY <1>2, <2>1 DEF Holding
<1>5. Used' = Used BY <1>1 DEF Used, Wrap
<1>6. TypeOK' BY <1>1 DEF TypeOK
<1>7. Indices' BY <1>1 DEF Indices
<1>8. Flight'
  <2>1. shift' = <<>> BY <1>1, <1>2
  <2>2. /\ pc' = pc /\ fresh' = FALSE /\ txdrdy' = FALSE
        /\ txState' = "TX_DONE"
        /\ pc \notin {"mark", "take", "send", "wrap read"}
    BY <1>1, <1>2
  <2>3. Len(shift') <= 1 BY <2>1
  <2> QED BY <2>1, <2>2, <2>3 DEF Flight, InFlight
<1>9. Holding'
  <2>1. pc' = pc /\ pc' \notin Published /\ pc' # "take"
    BY <1>1, <1>2, <1>4 DEF Published
  <2>2. Used' <= 0 BY <1>3, <1>5
  <2> QED BY <2>1, <2>2 DEF Holding, Published
<1>10. Conserved' BY <1>1, <1>5 DEF Conserved, InHand
<1>11. Outstanding' BY <1>1 DEF Outstanding
<1> QED BY <1>6, <1>7, <1>8, <1>9, <1>10, <1>11

LEMMA ByteSentInv == ASSUME Inv, ByteSent PROVE Inv'
<1> USE DEF Inv
<1>1. /\ shift # <<>> /\ fresh = FALSE
      /\ wire' = Append(wire, Head(shift))
      /\ shift' = Tail(shift)
      /\ txdrdy' = TRUE
      /\ UNCHANGED <<buffer, counterWrite, counterRead, txState, pc, slot>>
      /\ UNCHANGED <<fresh, accepted>>
  BY Types DEF ByteSent, ring
<1>2. Len(shift) = 1 /\ txdrdy = FALSE
  <2>1. shift \in Seq(Nat) /\ shift # <<>> BY <1>1, Types
  <2>2. Len(shift) <= 1 BY DEF Flight
  <2>3. Len(shift) = 1 BY <2>1, <2>2, OnlyOne
  <2>4. txdrdy = FALSE BY <1>1, Types DEF Flight
  <2> QED BY <2>3, <2>4
<1>3. shift' = <<>> /\ Len(shift') = 0 /\ shift' \in Seq(Nat)
  <2>1. Tail(shift) \in Seq(Nat) /\ Len(Tail(shift)) = 0 BY <1>1, <1>2, Types
  <2> QED BY <1>1, <2>1
<1>4. wire' \in Seq(Nat) /\ Len(wire') = Len(wire) + 1
  <2>1. Head(shift) \in Nat BY <1>1, Types
  <2> QED BY <1>1, <2>1, Types
<1>5. Used' = Used BY <1>1 DEF Used, Wrap
<1>6. TypeOK' BY <1>1, <1>3, <1>4 DEF TypeOK
<1>7. Indices' BY <1>1 DEF Indices
<1>8. Flight'
  <2>1. pc \notin {"take", "send"} /\ txState # "TX_DONE"
    BY <1>1 DEF Flight, InFlight
  <2>2. pc # "wrap read" /\ pc # "mark" BY <1>1, <2>1 DEF Flight
  <2>3. /\ pc' = pc /\ fresh' = FALSE /\ txdrdy' = TRUE
        /\ txState' = txState
    BY <1>1
  <2>4. shift' = <<>> /\ Len(shift') <= 1 BY <1>3
  <2> QED BY <2>1, <2>2, <2>3, <2>4 DEF Flight, InFlight
<1>9. Holding' BY <1>1, <1>5 DEF Holding, Published
<1>10. Conserved'
  <2>1. InHand' = InHand BY <1>1 DEF InHand
  <2>2. accepted' = accepted BY <1>1
  <2>3. Len(shift) = 1 /\ Len(shift') = 0 /\ Len(wire') = Len(wire) + 1
    BY <1>2, <1>3, <1>4
  <2>4. accepted = Len(wire) + Len(shift) + Used + InHand BY DEF Conserved
  <2> QED BY <1>5, <2>1, <2>2, <2>3, <2>4, Numbers DEF Conserved
<1>11. Outstanding'
  <2>1. MaxOutstanding \in Int BY OutstandingAssumption, SizeAssumption
  <2> QED BY <1>1, <1>4, <2>1, Numbers DEF Outstanding
<1> QED BY <1>6, <1>7, <1>8, <1>9, <1>10, <1>11

LEMMA StutterInv == ASSUME Inv, UNCHANGED vars PROVE Inv'
  BY DEF vars, ring, device, Inv, TypeOK, Indices, Flight, InFlight, Holding,
         Published, Used, Wrap, Conserved, InHand, Outstanding

LEMMA NextInv == ASSUME Inv, [Next]_vars PROVE Inv'
  BY CallInv, PutInv, WrapWriteInv, TestInv, MarkInv, TakeInv, SendInv,
     WrapReadInv, IsrSendInv, IsrDoneInv, ByteSentInv, StutterInv
  DEF Next, TransmitUART

LEMMA Invariance == Spec => []Inv
  BY InitInv, NextInv, PTL DEF Spec

-----------------------------------------------------------------------------
(* The variables of the driver keep their types; in particular no index is *)
(* ever beyond SIZE_BUF_TX (uart.c:70-71, 113-114, 119-120).               *)
THEOREM TypeCorrect == Spec => []TypeOK
<1>1. Inv => TypeOK BY DEF Inv
<1> QED BY <1>1, Invariance, PTL

(* The interrupt never runs while counterRead is one past the ring, and    *)
(* TransmitUART never stores one past it: no access of txFIFO.buffer in    *)
(* uart.c:70, 113 and 119 is out of bounds.                                *)
THEOREM InRing == Spec => []IndexInRing
<1>1. ASSUME Inv PROVE IndexInRing
  <2>1. ASSUME txdrdy PROVE counterRead < SIZE_BUF_TX
    <3>1. counterRead \in 0 .. (SIZE_BUF_TX - 1) BY <1>1, <2>1, IsrPending
    <3> QED BY <3>1, SizeAssumption
  <2>2. ASSUME pc \in {"return", "store", "increment", "publish"}
        PROVE  counterWrite < SIZE_BUF_TX
    <3>1. counterWrite # SIZE_BUF_TX BY <1>1, <2>2 DEF Inv, Indices
    <3>2. counterWrite \in 0 .. SIZE_BUF_TX BY <1>1, Types DEF Inv
    <3> QED BY <3>1, <3>2, SizeAssumption
  <2> QED BY <2>1, <2>2 DEF IndexInRing
<1> QED BY <1>1, Invariance, PTL

(* TXD is written only when the transmitter has served the byte before:    *)
(* TransmitUART (uart.c:119) and the interrupt (uart.c:70) exclude each    *)
(* other through txState.                                                  *)
THEOREM Exclusion == Spec => []OneInFlight
<1>1. ASSUME Inv PROVE OneInFlight
  <2>1. Len(shift) + (IF txdrdy THEN 1 ELSE 0) <= 1
    <3>1. CASE txdrdy
      <4>1. shift = <<>> BY <1>1, <3>1, IsrPending
      <4>2. Len(shift) = 0 BY <4>1
      <4> QED BY <3>1, <4>2
    <3>2. CASE ~txdrdy
      <4>1. Len(shift) <= 1 BY <1>1 DEF Inv, Flight
      <4>2. Len(shift) \in Nat BY <1>1, Numbers DEF Inv
      <4> QED BY <3>2, <4>1, <4>2
    <3> QED BY <3>1, <3>2
  <2>2. pc \in {"mark", "take", "send"} => shift = <<>> /\ ~txdrdy
    BY <1>1 DEF Inv, Flight, InFlight
  <2> QED BY <2>1, <2>2 DEF OneInFlight
<1> QED BY <1>1, Invariance, PTL

(* TransmitUART's test of txState (uart.c:116) and the interrupt's test of *)
(* the indices (uart.c:68) cannot both miss the last byte of the ring.     *)
THEOREM NoneStranded == Spec => []NoStrandedByte
<1>1. ASSUME Inv PROVE NoStrandedByte
  <2> SUFFICES ASSUME pc = "return", Used > 0 PROVE shift # <<>> \/ txdrdy
    BY DEF NoStrandedByte
  <2>1. txState # "TX_DONE"
    <3>1. txState = "TX_DONE" => Used <= 0
      BY <1>1 DEF Inv, Holding, Published
    <3>2. Used \in Nat BY <1>1, Numbers DEF Inv
    <3> QED BY <3>1, <3>2
  <2>2. txState = "TX_IN_PROGRESS" BY <1>1, <2>1 DEF Inv, TypeOK
  <2> QED BY <1>1, <2>2 DEF Inv, Flight, InFlight
<1> QED BY <1>1, Invariance, PTL

(* No place of the ring is lost or used twice, whatever interleaving of    *)
(* TransmitUART (uart.c:111-122) and the interrupt (uart.c:65-78).         *)
THEOREM Conservation == Spec => []Conserved
<1>1. Inv => Conserved BY DEF Inv
<1> QED BY <1>1, Invariance, PTL

-----------------------------------------------------------------------------
(* The order of the bytes, for the order of the stores in which the byte   *)
(* is in the ring before the index says so.                                *)

ByteFirst == StoreOrders = {"byte first"}

(* Bytes that have left the ring.                                          *)
Gone == Len(wire) + Len(shift) + (IF pc = "send" THEN 1 ELSE 0)

(* Every byte is where its rank says: the wire has the first ones, then    *)
(* come the transmitter, the byte on its way to TXD and the ring.  The     *)
(* byte just stored is in the next free slot.                              *)
Order ==
  /\ InOrder
  /\ shift # <<>> => shift[1] = Len(wire) + 1
  /\ pc = "send" => buffer[slot] = Len(wire) + 1
  /\ \A k \in 1 .. Used : buffer[Nth(k)] = Gone + k
  /\ pc = "increment" => buffer[counterWrite] = accepted
  /\ pc \notin {"publish", "late store"}

(* What a step of an index does to the k-th occupied slot.                 *)
LEMMA NthRange ==
  ASSUME TypeOK, NEW k \in 1 .. SIZE_BUF_TX
  PROVE  Nth(k) \in 0 .. (SIZE_BUF_TX - 1)
<1>1. counterRead \in 0 .. SIZE_BUF_TX BY Types
<1>2. Wrap(counterRead) \in 0 .. (SIZE_BUF_TX - 1) BY <1>1, WrapRange
<1> QED BY <1>2, SizeAssumption DEF Nth

LEMMA NthFree ==
  ASSUME TypeOK, counterWrite \in 0 .. (SIZE_BUF_TX - 1)
  PROVE  /\ Nth(Used + 1) = counterWrite
         /\ \A k \in 1 .. Used : Nth(k) # counterWrite
<1>1. counterRead \in 0 .. SIZE_BUF_TX BY Types
<1>2. Wrap(counterRead) \in 0 .. (SIZE_BUF_TX - 1) BY <1>1, WrapRange
<1>3. Wrap(counterWrite) = counterWrite BY SizeAssumption DEF Wrap
<1>4. Used = IF counterWrite - Wrap(counterRead) < 0
             THEN counterWrite - Wrap(counterRead) + SIZE_BUF_TX
             ELSE counterWrite - Wrap(counterRead)
  BY <1>3 DEF Used
<1>5. Used \in 0 .. (SIZE_BUF_TX - 1) BY Numbers
<1>6. Nth(Used + 1) = counterWrite
  BY <1>2, <1>4, <1>5, SizeAssumption DEF Nth
<1>7. ASSUME NEW k \in 1 .. Used PROVE Nth(k) # counterWrite
  BY <1>2, <1>4, <1>5, SizeAssumption DEF Nth
<1> QED BY <1>6, <1>7

LEMMA NthNext ==
  ASSUME counterRead \in 0 .. (SIZE_BUF_TX - 1),
         counterRead' = counterRead + 1 \/ counterRead' = Wrap(counterRead + 1),
         NEW k \in 1 .. (SIZE_BUF_TX - 1)
  PROVE  Nth(k)' = Nth(k + 1)
<1>1. Wrap(counterRead') = Wrap(counterRead + 1)
  BY SizeAssumption DEF Wrap
<1>2. Wrap(counterRead) = counterRead BY SizeAssumption DEF Wrap
<1>3. CASE counterRead + 1 = SIZE_BUF_TX
  <2>1. Wrap(counterRead') = 0 BY <1>1, <1>3 DEF Wrap
  <2>2. Nth(k)' = k - 1 BY <2>1, SizeAssumption DEF Nth
  <2>3. Nth(k + 1) = k - 1 BY <1>2, <1>3, SizeAssumption DEF Nth
  <2> QED BY <2>2, <2>3
<1>4. CASE counterRead + 1 # SIZE_BUF_TX
  <2>1. Wrap(counterRead') = counterRead + 1 BY <1>1, <1>4 DEF Wrap
  <2> QED BY <1>2, <2>1, SizeAssumption DEF Nth
<1> QED BY <1>3, <1>4

LEMMA NthFirst ==
  ASSUME counterRead \in 0 .. (SIZE_BUF_TX - 1)
  PROVE  Nth(1) = counterRead
<1>1. Wrap(counterRead) = counterRead BY SizeAssumption DEF Wrap
<1> QED BY <1>1, SizeAssumption DEF Nth

LEMMA GoneType == ASSUME TypeOK PROVE Gone \in Nat
  BY Numbers DEF Gone

-----------------------------------------------------------------------------
LEMMA InitOrder == ASSUME ByteFirst, Init PROVE Order
<1>1. Used = 0 BY SizeAssumption DEF Init, Used, Wrap
<1>2. Len(wire) = 0 /\ shift = <<>> /\ pc = "return" BY DEF Init
<1>3. InOrder BY <1>2 DEF InOrder
<1>4. \A k \in 1 .. Used : buffer[Nth(k)] = Gone + k BY <1>1
<1> QED BY <1>2, <1>3, <1>4 DEF Order

(* A step that moves no byte and no index, except to wrap one.             *)
LEMMA QuietOrder ==
  ASSUME Inv, Order, UNCHANGED <<buffer, slot, shift, wire, accepted>>,
         \/ UNCHANGED <<counterWrite, counterRead>>
         \/ counterWrite' = Wrap(counterWrite) /\ counterRead' = counterRead
         \/ counterWrite' = counterWrite /\ counterRead' = Wrap(counterRead),
         pc' = "send" <=> pc = "send",
         pc' \notin {"publish", "late store", "increment"}
  PROVE  Order'
<1>1. TypeOK BY DEF Inv
<1>2. Used' = Used
  <2>1. CASE UNCHANGED <<counterWrite, counterRead>>
    BY <2>1 DEF Used, Wrap
  <2>2. CASE ~ UNCHANGED <<counterWrite, counterRead>>
    BY <2>2, <1>1, UsedWraps, Types
  <2> QED BY <2>1, <2>2
<1>3. Wrap(counterRead') = Wrap(counterRead)
  BY <1>1, Types, SizeAssumption DEF Wrap
<1>4. \A k : Nth(k)' = Nth(k) BY <1>3 DEF Nth
<1>5. Gone' = Gone BY DEF Gone
<1>6. InOrder' BY DEF Order, InOrder
<1>7. (\A k \in 1 .. Used : buffer[Nth(k)] = Gone + k)'
  BY <1>2, <1>4, <1>5 DEF Order
<1> QED BY <1>6, <1>7 DEF Order

LEMMA SameOrder ==
  ASSUME Order, UNCHANGED <<buffer, counterWrite, counterRead, pc, slot>>,
         UNCHANGED <<shift, wire, accepted>>
  PROVE  Order'
<1>1. Used' = Used BY DEF Used, Wrap
<1>2. \A k : Nth(k)' = Nth(k) BY DEF Nth, Wrap
<1>3. Gone' = Gone BY DEF Gone
<1> QED BY <1>1, <1>2, <1>3 DEF Order, InOrder

LEMMA CallOrder == ASSUME ByteFirst, Inv, Order, Call PROVE Order'
<1>1. /\ pc = "return" /\ pc' = "store"
      /\ UNCHANGED <<buffer, counterWrite, counterRead, slot, shift, wire>>
  BY DEF ByteFirst, Call, ring, device
<1>2. Used' = Used BY <1>1 DEF Used, Wrap
<1>3. \A k : Nth(k)' = Nth(k) BY <1>1 DEF Nth, Wrap
<1>4. Gone' = Gone BY <1>1 DEF Gone
<1>5. InOrder' BY <1>1 DEF Order, InOrder
<1>6. (\A k \in 1 .. Used : buffer[Nth(k)] = Gone + k)'
  BY <1>1, <1>2, <1>3, <1>4 DEF Order
<1> QED BY <1>1, <1>5, <1>6 DEF Order

(* The byte goes into the free slot first, then the index moves over it.   *)
LEMMA PutOrder == ASSUME Inv, Order, Put PROVE Order'
<1>1. TypeOK BY DEF Inv
<1>2. UNCHANGED <<counterRead, slot, shift, wire, accepted>>
  BY DEF Put, StoreThenPublish, PublishThenStore, device, Order, Goto
<1>3. counterWrite \in 0 .. (SIZE_BUF_TX - 1)
  <2>1. pc \in {"store", "increment"}
    BY DEF Put, StoreThenPublish, PublishThenStore, Goto, Order
  <2>2. counterWrite # SIZE_BUF_TX BY <2>1 DEF Inv, Indices
  <2> QED BY <2>2, <1>1, Types, SizeAssumption
<1>4. \A k : Nth(k)' = Nth(k) BY <1>2 DEF Nth, Wrap
<1>5. Used \in 0 .. (SIZE_BUF_TX - 1) /\ Gone \in Nat
  BY <1>1, Numbers, GoneType
<1>6. CASE pc = "store"
  <2>1. /\ pc' = "increment" /\ counterWrite' = counterWrite
        /\ buffer' = [buffer EXCEPT ![counterWrite] = accepted]
    BY <1>6 DEF Put, StoreThenPublish, PublishThenStore, Goto
  <2>2. Used' = Used BY <1>2, <2>1 DEF Used, Wrap
  <2>3. Gone' = Gone BY <1>2, <1>6, <2>1 DEF Gone
  <2>4. buffer'[counterWrite'] = accepted'
    BY <1>1, <1>2, <1>3, <2>1, Types
  <2>5. ASSUME NEW k \in 1 .. Used PROVE buffer'[Nth(k)] = buffer[Nth(k)]
    <3>1. Nth(k) # counterWrite BY <1>1, <1>3, NthFree
    <3>2. Nth(k) \in 0 .. (SIZE_BUF_TX - 1)
      <4>1. k \in 1 .. SIZE_BUF_TX BY <1>5, SizeAssumption
      <4> QED BY <4>1, <1>1, NthRange
    <3> QED BY <1>1, <2>1, <3>1, <3>2, Types
  <2>6. (\A k \in 1 .. Used : buffer[Nth(k)] = Gone + k)'
    BY <1>4, <2>2, <2>3, <2>5 DEF Order
  <2>7. InOrder' BY <1>2 DEF Order, InOrder
  <2> QED BY <1>2, <2>1, <2>4, <2>6, <2>7 DEF Order
<1>7. CASE pc = "increment"
  <2>1. /\ pc' = "wrap write" /\ counterWrite' = counterWrite + 1
        /\ buffer' = buffer
    BY <1>7 DEF Put, StoreThenPublish, PublishThenStore, Goto
  <2>2. accepted = Len(wire) + Len(shift) + Used + 1
    BY <1>7 DEF Inv, Conserved, InHand
  <2>3. Used + 1 < SIZE_BUF_TX
    <3>1. MaxOutstanding \in Int /\ MaxOutstanding < SIZE_BUF_TX
      BY OutstandingAssumption, SizeAssumption
    <3>2. accepted - Len(wire) <= MaxOutstanding BY DEF Inv, Outstanding
    <3> QED BY <1>1, <2>2, <3>1, <3>2, Numbers, SizeAssumption
  <2>4. Used' = Used + 1 BY <1>1, <1>2, <1>3, <2>1, <2>3, UsedGrows, Types
  <2>5. Gone' = Gone /\ Gone = Len(wire) + Len(shift)
    <3>1. Len(wire) \in Nat /\ Len(shift) \in Nat BY <1>1, Numbers
    <3>2. Gone = Len(wire) + Len(shift) + 0 BY <1>7 DEF Gone
    <3>3. Gone' = Len(wire) + Len(shift) + 0 BY <1>2, <2>1 DEF Gone
    <3> QED BY <3>1, <3>2, <3>3
  <2>6. buffer[Nth(Used + 1)] = Gone + (Used + 1)
    <3>1. buffer[counterWrite] = accepted BY <1>7 DEF Order
    <3>2. Nth(Used + 1) = counterWrite BY <1>1, <1>3, NthFree
    <3> QED BY <1>1, <2>2, <2>5, <3>1, <3>2, Numbers
  <2>7. \A k \in 1 .. (Used + 1) : buffer[Nth(k)] = Gone + k
    <3>1. \A k \in 1 .. (Used + 1) : k \in 1 .. Used \/ k = Used + 1 BY <1>5
    <3> QED BY <2>6, <3>1 DEF Order
  <2>8. (\A k \in 1 .. Used : buffer[Nth(k)] = Gone + k)'
    BY <1>4, <2>1, <2>4, <2>5, <2>7
  <2>9. InOrder' BY <1>2 DEF Order, InOrder
  <2> QED BY <1>2, <2>1, <2>8, <2>9 DEF Order
<1> QED BY <1>6, <1>7
        DEF Put, StoreThenPublish, PublishThenStore, Goto, Order

(* The oldest byte leaves the ring, towards TXD or into it.                *)
LEMMA FetchOrder ==
  ASSUME TypeOK, Order, Used >= 1, Used' = Used - 1, Gone' = Gone + 1,
         counterRead \in 0 .. (SIZE_BUF_TX - 1), buffer' = buffer,
         counterRead' = counterRead + 1 \/ counterRead' = Wrap(counterRead + 1)
  PROVE  /\ buffer[counterRead] = Gone + 1
         /\ (\A k \in 1 .. Used : buffer[Nth(k)] = Gone + k)'
<1>1. Used \in 0 .. (SIZE_BUF_TX - 1) /\ Gone \in Nat BY Numbers, GoneType
<1>2. buffer[counterRead] = Gone + 1
  <2>1. 1 \in 1 .. Used BY <1>1
  <2> QED BY <2>1, NthFirst DEF Order
<1>3. ASSUME NEW k \in 1 .. (Used - 1)
      PROVE  buffer[Nth(k)'] = Gone + 1 + k
  <2>1. k \in 1 .. (SIZE_BUF_TX - 1) /\ k + 1 \in 1 .. Used /\ k \in Int
    BY <1>1, SizeAssumption
  <2>2. Nth(k)' = Nth(k + 1) BY <2>1, NthNext
  <2>3. buffer[Nth(k + 1)] = Gone + (k + 1) BY <2>1 DEF Order
  <2> QED BY <1>1, <2>1, <2>2, <2>3
<1> QED BY <1>2, <1>3

LEMMA TakeOrder == ASSUME Inv, Order, Take PROVE Order'
<1>1. /\ pc = "take" /\ pc' = "send"
      /\ slot' = counterRead /\ counterRead' = counterRead + 1
      /\ UNCHANGED <<buffer, counterWrite, shift, wire, accepted>>
  BY DEF Take, Goto, device
<1>2. TypeOK BY DEF Inv
<1>3. counterRead \in 0 .. (SIZE_BUF_TX - 1)
  <2>1. counterRead # SIZE_BUF_TX BY <1>1 DEF Inv, Indices
  <2> QED BY <2>1, <1>2, Types, SizeAssumption
<1>4. Used >= 1 BY <1>1 DEF Inv, Holding
<1>5. Used' = Used - 1 BY <1>1, <1>2, <1>3, <1>4, UsedShrinks, Types
<1>6. shift = <<>> BY <1>1, <1>2, Types DEF Inv, Flight, InFlight
<1>7. Gone = Len(wire) /\ Gone' = Gone + 1
  <2>1. Len(shift) = 0 BY <1>6
  <2> QED BY <1>1, <1>2, <2>1, Numbers DEF Gone
<1>8. /\ buffer[counterRead] = Gone + 1
      /\ (\A k \in 1 .. Used : buffer[Nth(k)] = Gone + k)'
  BY <1>1, <1>2, <1>3, <1>4, <1>5, <1>7, FetchOrder
<1>9. InOrder' BY <1>1 DEF Order, InOrder
<1> QED BY <1>1, <1>6, <1>7, <1>8, <1>9 DEF Order

LEMMA SendOrder == ASSUME Inv, Order, Send PROVE Order'
<1>1. /\ pc = "send" /\ pc' = "wrap read"
      /\ shift' = Append(shift, buffer[slot])
      /\ UNCHANGED <<buffer, counterWrite, counterRead, wire, accepted, slot>>
  BY DEF Send, SetTXD, Goto, ring
<1>2. TypeOK BY DEF Inv
<1>3. shift = <<>> BY <1>1, <1>2, Types DEF Inv, Flight, InFlight
<1>4. buffer[slot] \in Nat /\ buffer[slot] = Len(wire) + 1
  BY <1>1, <1>2 DEF Order, TypeOK
<1>5. Len(shift) = 0 /\ Len(shift') = 1 /\ shift'[1] = Len(wire') + 1
  <2>1. shift' = Append(<<>>, buffer[slot]) BY <1>1, <1>3
  <2> QED BY <1>1, <1>3, <1>4, <2>1, Singleton
<1>6. Gone' = Gone
  <2>1. Len(wire) \in Nat BY <1>2, Numbers
  <2>2. Gone = Len(wire) + 0 + 1 BY <1>1, <1>5 DEF Gone
  <2>3. Gone' = Len(wire) + 1 + 0 BY <1>1, <1>5 DEF Gone
  <2> QED BY <2>1, <2>2, <2>3
<1>7. Used' = Used BY <1>1 DEF Used, Wrap
<1>8. \A k : Nth(k)' = Nth(k) BY <1>1 DEF Nth, Wrap
<1>9. (\A k \in 1 .. Used : buffer[Nth(k)] = Gone + k)'
  BY <1>1, <1>6, <1>7, <1>8 DEF Order
<1>10. InOrder' BY <1>1 DEF Order, InOrder
<1> QED BY <1>1, <1>5, <1>9, <1>10 DEF Order

(* The handler writes TXD when a byte has left and none is on its way.     *)
LEMMA IsrSendOrder == ASSUME Inv, Order, IsrSend PROVE Order'
<1>1. /\ txdrdy /\ counterWrite # counterRead
      /\ shift' = Append(shift, buffer[counterRead])
      /\ counterRead' = Wrap(counterRead + 1)
      /\ UNCHANGED <<buffer, counterWrite, pc, slot, accepted, wire>>
  BY DEF IsrSend, SetTXD
<1>2. /\ shift = <<>> /\ counterRead \in 0 .. (SIZE_BUF_TX - 1)
      /\ pc \notin {"mark", "take", "send", "wrap read"}
  BY <1>1, IsrPending
<1>3. TypeOK BY DEF Inv
<1>4. buffer[counterRead] \in Nat BY <1>2, <1>3 DEF TypeOK
<1>5. Len(shift) = 0 /\ Len(shift') = 1 /\ shift'[1] = buffer[counterRead]
  <2>1. shift' = Append(<<>>, buffer[counterRead]) BY <1>1, <1>2
  <2> QED BY <1>2, <1>4, <2>1, Singleton
<1>6. Gone = Len(wire) /\ Gone' = Gone + 1
  <2>1. Len(wire) \in Nat BY <1>3, Numbers
  <2>2. Gone = Len(wire) + 0 + 0 BY <1>2, <1>5 DEF Gone
  <2>3. Gone' = Len(wire) + 1 + 0 BY <1>1, <1>2, <1>5 DEF Gone
  <2> QED BY <2>1, <2>2, <2>3
<1>7. Used >= 1 BY <1>1, <1>2, IsrFinds DEF Inv
<1>8. Used' = Used - 1 BY <1>1, <1>2, <1>3, <1>7, UsedShrinks, Types
<1>9. /\ buffer[counterRead] = Gone + 1
      /\ (\A k \in 1 .. Used : buffer[Nth(k)] = Gone + k)'
  BY <1>1, <1>2, <1>3, <1>6, <1>7, <1>8, FetchOrder
<1>10. InOrder' BY <1>1 DEF Order, InOrder
<1> QED BY <1>1, <1>2, <1>5, <1>6, <1>9, <1>10 DEF Order

LEMMA ByteSentOrder == ASSUME Inv, Order, ByteSent PROVE Order'
<1>1. /\ shift # <<>> /\ wire' = Append(wire, Head(shift))
      /\ shift' = Tail(shift)
      /\ UNCHANGED <<buffer, counterWrite, counterRead, pc, slot, accepted>>
  BY DEF ByteSent, ring
<1>2. TypeOK /\ shift \in Seq(Nat) /\ wire \in Seq(Nat) BY Types DEF Inv
<1>3. Len(shift) = 1 BY <1>1, <1>2, OnlyOne DEF Inv, Flight
<1>4. Head(shift) = Len(wire) + 1 /\ Head(shift) \in Nat
  <2>1. Head(shift) = shift[1] /\ Head(shift) \in Nat BY <1>1, <1>2
  <2> QED BY <1>1, <2>1 DEF Order
<1>5. /\ shift' = <<>> /\ Len(shift') = 0
      /\ Len(wire') = Len(wire) + 1 /\ Len(wire) \in Nat
      /\ \A i \in 1 .. Len(wire) : wire'[i] = wire[i]
      /\ wire'[Len(wire) + 1] = Len(wire) + 1
  BY <1>1, <1>2, <1>3, <1>4
<1>6. InOrder'
  <2>1. \A i \in 1 .. Len(wire') : i \in 1 .. Len(wire) \/ i = Len(wire) + 1
    BY <1>5
  <2> QED BY <1>5, <2>1 DEF Order, InOrder
<1>7. pc # "send" BY <1>1 DEF Inv, Flight, InFlight
<1>8. Gone' = Gone
  <2>1. Gone = Len(wire) + 1 + 0 BY <1>3, <1>7 DEF Gone
  <2>2. Gone' = Len(wire) + 1 + 0 + 0 BY <1>1, <1>5, <1>7 DEF Gone
  <2> QED BY <1>5, <2>1, <2>2
<1>9. Used' = Used BY <1>1 DEF Used, Wrap
<1>10. \A k : Nth(k)' = Nth(k) BY <1>1 DEF Nth, Wrap
<1>11. (\A k \in 1 .. Used : buffer[Nth(k)] = Gone + k)'
  BY <1>1, <1>8, <1>9, <1>10 DEF Order
<1> QED BY <1>1, <1>5, <1>6, <1>7, <1>11 DEF Order

LEMMA NextOrder == ASSUME ByteFirst, Inv, Order, [Next]_vars PROVE Order'
<1>1. CASE WrapWrite \/ Test \/ Mark \/ WrapRead \/ IsrDone
  <2>1. /\ UNCHANGED <<buffer, slot, shift, wire, accepted>>
        /\ \/ UNCHANGED <<counterWrite, counterRead>>
           \/ counterWrite' = Wrap(counterWrite) /\ counterRead' = counterRead
           \/ counterWrite' = counterWrite /\ counterRead' = Wrap(counterRead)
    BY <1>1 DEF WrapWrite, Test, Mark, WrapRead, IsrDone, ring, device
  <2>2. CASE WrapWrite \/ Test \/ Mark \/ WrapRead
    <3>1. pc # "send" /\ pc' \in {"test", "mark", "return", "take"}
      BY <2>2 DEF WrapWrite, Test, Mark, WrapRead, Goto
    <3> QED BY <2>1, <3>1, QuietOrder
  <2>3. CASE IsrDone
    <3>1. UNCHANGED <<buffer, counterWrite, counterRead, pc, slot, shift>>
      BY <2>3 DEF IsrDone, ring
    <3>2. UNCHANGED <<wire, accepted>> BY <2>1
    <3> QED BY <3>1, <3>2, SameOrder
  <2> QED BY <1>1, <2>2, <2>3
<1>2. CASE UNCHANGED vars
  BY <1>2, SameOrder DEF vars, ring, device
<1> QED BY <1>1, <1>2, CallOrder, PutOrder, TakeOrder, SendOrder, IsrSendOrder,
           ByteSentOrder
        DEF Next, TransmitUART

LEMMA OrderInvariance == ASSUME ByteFirst PROVE Spec => [](Inv /\ Order)
<1>1. Init => Inv /\ Order BY InitInv, InitOrder
<1>2. Inv /\ Order /\ [Next]_vars => (Inv /\ Order)' BY NextInv, NextOrder
<1> QED BY <1>1, <1>2, PTL DEF Spec

(* The wire carries the bytes given to TransmitUART, each once, in order.  *)
(* It does so for this order of the two stores of uart.c:113; TLC shows    *)
(* that it does not for the other.                                         *)
THEOREM SentInOrder == ASSUME ByteFirst PROVE Spec => []InOrder
<1>1. Inv /\ Order => InOrder BY DEF Order
<1> QED BY <1>1, OrderInvariance, PTL

-----------------------------------------------------------------------------
(* The refinement of SerialPipe.  The pending bytes are a run of ranks.    *)
Run(n, m) == [k \in 1 .. m |-> n + k]

LEMMA RunFacts ==
  ASSUME NEW n \in Nat, NEW m \in Nat
  PROVE  /\ Run(n, m) \in Seq(Nat)
         /\ Len(Run(n, m)) = m
         /\ Append(Run(n, m), n + m + 1) = Run(n, m + 1)
         /\ m > 0 => /\ Run(n, m) # <<>>
                     /\ Head(Run(n, m)) = n + 1
                     /\ Tail(Run(n, m)) = Run(n + 1, m - 1)
<1>1. Run(n, m) \in Seq(Nat) /\ Len(Run(n, m)) = m BY DEF Run
<1>2. Append(Run(n, m), n + m + 1) = Run(n, m + 1) BY DEF Run
<1>3. ASSUME m > 0
      PROVE  /\ Run(n, m) # <<>>
             /\ Head(Run(n, m)) = n + 1
             /\ Tail(Run(n, m)) = Run(n + 1, m - 1)
  BY <1>3 DEF Run
<1> QED BY <1>1, <1>2, <1>3

(* A sequence of consecutive ranks is a run, and runs that follow each     *)
(* other make one.                                                         *)
LEMMA IsRun ==
  ASSUME NEW s \in Seq(Nat), NEW n \in Nat,
         \A k \in 1 .. Len(s) : s[k] = n + k
  PROVE  s = Run(n, Len(s))
  BY DEF Run

LEMMA RunConcat ==
  ASSUME NEW n \in Nat, NEW a \in Nat, NEW b \in Nat
  PROVE  Run(n, a) \o Run(n + a, b) = Run(n, a + b)
  BY DEF Run

(* What is pending is every rank accepted that is not on the wire.         *)
Owed == accepted - Len(wire)

LEMMA PendingIsRun ==
  Inv /\ Order => Owed \in Nat /\ Pending = Run(Len(wire), Owed)
<1> SUFFICES ASSUME Inv, Order
             PROVE  Owed \in Nat /\ Pending = Run(Len(wire), Owed)
  OBVIOUS
<1>1. TypeOK /\ shift \in Seq(Nat) BY Types DEF Inv
<1>2. /\ Len(wire) \in Nat /\ Len(shift) \in Nat
      /\ Used \in Nat /\ accepted \in Nat
  BY <1>1, Numbers, SizeAssumption
<1>3. PICK a \in Nat : a = IF pc = "send" THEN 1 ELSE 0
  OBVIOUS
<1>4. PICK c \in Nat :
        c = IF pc \in {"store", "increment", "publish"} THEN 1 ELSE 0
  OBVIOUS
<1>5. Gone = Len(wire) + Len(shift) + a BY <1>3 DEF Gone
<1>6. accepted = Gone + Used + c
  <2>1. InHand = a + c BY <1>3, <1>4 DEF InHand
  <2> QED BY <1>2, <1>5, <2>1 DEF Inv, Conserved
<1>7. shift = Run(Len(wire), Len(shift))
  <2>1. \A k \in 1 .. Len(shift) : shift[k] = Len(wire) + k
    <3> SUFFICES ASSUME NEW k \in 1 .. Len(shift)
                 PROVE  shift[k] = Len(wire) + k
      OBVIOUS
    <3>1. Len(shift) <= 1 BY DEF Inv, Flight
    <3>2. k = 1 BY <1>2, <3>1
    <3>3. shift # <<>> BY <1>1, <3>2
    <3> QED BY <3>2, <3>3 DEF Order
  <2> QED BY <1>1, <1>2, <2>1, IsRun
<1>8. (IF pc = "send" THEN <<buffer[slot]>> ELSE <<>>)
        = Run(Len(wire) + Len(shift), a)
  <2>1. CASE pc = "send"
    <3>1. shift = <<>> BY <2>1, <1>1, Types DEF Inv, Flight, InFlight
    <3>2. Len(shift) = 0 BY <3>1
    <3>3. buffer[slot] = Len(wire) + Len(shift) + 1
      BY <1>2, <2>1, <3>2 DEF Order
    <3> QED BY <1>2, <1>3, <2>1, <3>3 DEF Run
  <2>2. CASE pc # "send" BY <1>3, <2>2 DEF Run
  <2> QED BY <2>1, <2>2
<1>9. [k \in 1 .. Used |-> buffer[Nth(k)]] = Run(Gone, Used)
  BY DEF Order, Run
<1>10. (IF pc \in {"store", "increment", "publish"} THEN <<accepted>> ELSE <<>>)
         = Run(Gone + Used, c)
  BY <1>2, <1>4, <1>5, <1>6 DEF Run
<1>11. Pending = Run(Len(wire), Len(shift)) \o Run(Len(wire) + Len(shift), a)
                   \o Run(Gone, Used) \o Run(Gone + Used, c)
  BY <1>7, <1>8, <1>9, <1>10 DEF Pending
<1>12. PICK x \in Nat : x = Len(shift) + a BY <1>2
<1>13. PICK y \in Nat : y = x + Used BY <1>2
<1>14. Run(Len(wire), Len(shift)) \o Run(Len(wire) + Len(shift), a)
         = Run(Len(wire), x)
  <2>1. Run(Len(wire), Len(shift)) \o Run(Len(wire) + Len(shift), a)
          = Run(Len(wire), Len(shift) + a)
    BY <1>2, RunConcat
  <2> QED BY <1>12, <2>1
<1>15. Run(Len(wire), x) \o Run(Gone, Used) = Run(Len(wire), y)
  <2>1. Gone = Len(wire) + x BY <1>2, <1>5, <1>12
  <2>2. Run(Len(wire), x) \o Run(Len(wire) + x, Used) = Run(Len(wire), x + Used)
    BY <1>2, RunConcat
  <2> QED BY <1>13, <2>1, <2>2
<1>16. Run(Len(wire), y) \o Run(Gone + Used, c) = Run(Len(wire), y + c)
  <2>1. Gone + Used = Len(wire) + y BY <1>2, <1>5, <1>12, <1>13
  <2>2. Run(Len(wire), y) \o Run(Len(wire) + y, c) = Run(Len(wire), y + c)
    BY <1>2, RunConcat
  <2> QED BY <2>1, <2>2
<1>17. Owed = y + c /\ Owed \in Nat
  BY <1>2, <1>5, <1>6, <1>12, <1>13 DEF Owed
<1> QED BY <1>11, <1>14, <1>15, <1>16, <1>17

(* Each step accepts a byte, moves the oldest pending byte to the wire, or *)
(* changes neither the wire nor what is pending.                           *)
LEMMA StepMapped ==
  ASSUME ByteFirst, Inv, Order, [Next]_vars PROVE [Pipe!Next]_Pipe!vars
<1>1. Inv' /\ Order' BY NextInv, NextOrder
<1>2. /\ Owed \in Nat /\ Pending = Run(Len(wire), Owed)
      /\ Len(wire) \in Nat
  BY PendingIsRun, Numbers DEF Inv
<1>3. Owed' \in Nat /\ Pending' = Run(Len(wire'), Owed')
  <2>1. (Owed \in Nat /\ Pending = Run(Len(wire), Owed))'
    <3>1. (Inv /\ Order => Owed \in Nat /\ Pending = Run(Len(wire), Owed))'
      BY PendingIsRun, PTL
    <3> QED BY <1>1, <3>1
  <2> QED BY <2>1 DEF Run
<1>4. accepted \in Nat BY Types DEF Inv
<1>5. CASE Call
  <2>1. accepted' = accepted + 1 /\ wire' = wire BY <1>5 DEF Call, device
  <2>2. Owed' = Owed + 1 BY <1>2, <1>4, <2>1 DEF Owed
  <2>3. Len(Pending) = Owed BY <1>2, RunFacts
  <2>4. Append(Run(Len(wire), Owed), Len(wire) + Owed + 1)
          = Run(Len(wire), Owed + 1)
    BY <1>2, RunFacts
  <2>5. Pending' = Run(Len(wire), Owed + 1) BY <1>3, <2>1, <2>2
  <2>6. Pending' = Append(Pending, Len(wire) + Len(Pending) + 1)
    BY <1>2, <2>3, <2>4, <2>5
  <2> QED BY <2>1, <2>6 DEF Pipe!Next, Pipe!Accept
<1>6. CASE ByteSent
  <2>1. /\ shift # <<>> /\ wire' = Append(wire, Head(shift))
        /\ accepted' = accepted
    BY <1>6 DEF ByteSent
  <2>2. shift \in Seq(Nat) /\ wire \in Seq(Nat) BY Types DEF Inv
  <2>3. Head(shift) = Len(wire) + 1
    <3>1. Head(shift) = shift[1] BY <2>1, <2>2
    <3> QED BY <2>1, <3>1 DEF Order
  <2>4. Len(wire') = Len(wire) + 1 BY <2>1, <2>2, <2>3, <1>2
  <2>5. Owed > 0
    <3>1. Len(shift) = 1 BY <2>1, <2>2, OnlyOne DEF Inv, Flight
    <3>2. Used \in Nat /\ InHand \in Nat
      BY Numbers, SizeAssumption DEF Inv
    <3> QED BY <1>2, <3>1, <3>2 DEF Inv, Conserved, Owed
  <2>6. Owed' = Owed - 1 BY <1>2, <1>4, <2>1, <2>4 DEF Owed
  <2>7. /\ Pending # <<>> /\ Head(Pending) = Len(wire) + 1
        /\ Tail(Pending) = Run(Len(wire) + 1, Owed - 1)
    BY <1>2, <2>5, RunFacts
  <2>8. Pending' = Tail(Pending) BY <1>3, <2>4, <2>6, <2>7
  <2>9. wire' = Append(wire, Head(Pending)) BY <2>1, <2>3, <2>7
  <2> QED BY <2>7, <2>8, <2>9 DEF Pipe!Next, Pipe!Transmit
<1>7. CASE UNCHANGED <<wire, accepted>>
  <2>1. Pending' = Pending BY <1>2, <1>3, <1>7 DEF Owed
  <2> QED BY <1>7, <2>1 DEF Pipe!vars
<1> QED BY <1>5, <1>6, <1>7
        DEF Next, TransmitUART, Put, WrapWrite, Test, Mark, Take, Send, WrapRead,
            SetTXD, IsrSend, IsrDone, vars, device

(* The transmit half implements SerialPipe but for its liveness: whatever  *)
(* the interleaving of TransmitUART (uart.c:111-122) and of the interrupt  *)
(* (uart.c:65-78), a step accepts a byte, transmits the oldest pending one *)
(* or changes nothing the caller can see.                                  *)
THEOREM TransmitIsPipe == ASSUME ByteFirst PROVE Spec => Pipe!Spec
<1>1. Init => Pipe!Init
  <2> SUFFICES ASSUME Init PROVE Pipe!Init OBVIOUS
  <2>1. Used = 0 BY SizeAssumption DEF Init, Used, Wrap
  <2>2. pc = "return" /\ shift = <<>> /\ wire = <<>> BY DEF Init
  <2>3. Pending = <<>> \o <<>> \o [k \in 1 .. 0 |-> buffer[Nth(k)]] \o <<>>
    BY <2>1, <2>2 DEF Pending
  <2>4. [k \in 1 .. 0 |-> buffer[Nth(k)]] = <<>> OBVIOUS
  <2>5. Pending = <<>> BY <2>3, <2>4
  <2> QED BY <2>2, <2>5 DEF Pipe!Init
<1>2. Inv /\ Order /\ [Next]_vars => [Pipe!Next]_Pipe!vars
  BY StepMapped
<1> QED BY <1>1, <1>2, OrderInvariance, PTL DEF Spec, Pipe!Spec
=============================================================================
