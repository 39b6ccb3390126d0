----------------------------- MODULE FlashPage -----------------------------
(***************************************************************************)
(* ble_flash.c: a page of flash that holds an array of words with a header *)
(* (a magic number and the CRC of the data) and a word count, and that may *)
(* lose power at any moment.  A word is a pair of half words <<high, low>>;*)
(* programming can only clear bits, erasing sets all of a page.            *)
(***************************************************************************)
EXTENDS Integers, Sequences

CONSTANTS
  Inputs,            \* the arrays the caller writes
  WORD_COUNT_MAX     \* greatest value of the 8-bit word count (255)

VARIABLES
  page,     \* persistent: header, count, data
  flash,    \* the call under way, the index of its loop, its array, its header
  m_radio_active,
  kept,     \* history: the array whose ble_flash_page_write returned last
  torn      \* history: power was lost halfway through a word or an erase
            \* of the page, and no erase has been completed since

flashVars == <<page, flash, m_radio_active, kept, torn>>

ERASED == <<65535, 65535>>
HalfWords == 0 .. 65535
Word32 == HalfWords \X HalfWords
MAGIC == 17886      \* BLE_FLASH_MAGIC_NUMBER, 0x45DE in the high half
Places == 1 .. (2 + WORD_COUNT_MAX)
Blank == [k \in Places |-> ERASED]
Idle == [op |-> "none", i |-> 1, array |-> <<>>, header |-> ERASED]

(* a ^ b and a & b for 16 bits, by tables of bytes.                        *)
BitsOf(a) == <<a % 2, (a \div 2) % 2, (a \div 4) % 2, (a \div 8) % 2,
               (a \div 16) % 2, (a \div 32) % 2, (a \div 64) % 2, (a \div 128) % 2>>
OfBits(b) ==
  b[1] + 2 * b[2] + 4 * b[3] + 8 * b[4] + 16 * b[5] + 32 * b[6] + 64 * b[7] + 128 * b[8]
XorTable == [a \in 0 .. 255 |-> [b \in 0 .. 255 |->
  OfBits([k \in 1 .. 8 |-> (BitsOf(a)[k] + BitsOf(b)[k]) % 2])]]
AndTable == [a \in 0 .. 255 |-> [b \in 0 .. 255 |->
  OfBits([k \in 1 .. 8 |-> IF BitsOf(a)[k] = 1 THEN BitsOf(b)[k] ELSE 0])]]
ByBytes(table, a, b) ==
  table[a \div 256][b \div 256] * 256 + table[a % 256][b % 256]
Xor16(a, b) == ByBytes(XorTable, a, b)
And16(a, b) == ByBytes(AndTable, a, b)

(* One byte of the CRC-16, then all of them, the low one of a word first.  *)
CrcByte(crc, byte) ==
  LET a == Xor16((crc \div 256) + ((crc % 256) * 256), byte)
      b == Xor16(a, (a % 256) \div 16)
      c == Xor16(b, (b * 4096) % 65536)
  IN  Xor16(c, (c % 256) * 32)

ble_flash_crc16_compute(words) ==
  LET Half(half, crc) == CrcByte(CrcByte(crc, half % 256), half \div 256)
      crc[k \in 0 .. Len(words)] ==
        IF k = 0 THEN 65535 ELSE Half(words[k][1], Half(words[k][2], crc[k - 1]))
  IN  crc[Len(words)]

Header(words) == <<MAGIC, ble_flash_crc16_compute(words)>>

(* ble_flash_page_read: the set of the array returned, empty if NOT_FOUND. *)
(* Bug: only the magic number is looked at.                                *)
PageReadMagic ==
  IF page[1][1] # MAGIC THEN {}
  ELSE {SubSeq(page, 3, 2 + (page[2][2] % (WORD_COUNT_MAX + 1)))}
PageRead ==
  IF page[1][1] # MAGIC THEN {}
  ELSE LET words == SubSeq(page, 3, 2 + (page[2][2] % (WORD_COUNT_MAX + 1)))
       IN  IF page[1] = Header(words) THEN {words} ELSE {}

(* An array is of words and shorter than the page; a CRC has 16 bits.      *)
ASSUME FlashAssumption ==
  /\ WORD_COUNT_MAX \in 0 .. 255
  /\ Inputs \subseteq Seq(Word32)
  /\ \A d \in Inputs :
       Len(d) < WORD_COUNT_MAX /\ ble_flash_crc16_compute(d) \in HalfWords

FlashInit ==
  page = Blank /\ flash = Idle /\ m_radio_active = FALSE /\ kept = {} /\ torn = FALSE

-----------------------------------------------------------------------------
Begin(op, words) ==
  /\ flash' = [op |-> op, i |-> 1, array |-> words, header |-> Header(words)]
  /\ kept' = {}
  /\ UNCHANGED <<page, m_radio_active, torn>>

(* ble_flash_page_write is skipped when the header has the CRC already.    *)
PageWrite(words) ==
  /\ flash = Idle
  /\ IF page[1][2] = ble_flash_crc16_compute(words)
     THEN kept' = {words} /\ UNCHANGED <<page, flash, m_radio_active, torn>>
     ELSE Begin("erase", words)

PageErase == flash = Idle /\ Begin("erase page", <<>>)

(* Its caller must have erased what it writes.                             *)
BlockWrite(words) ==
  flash = Idle /\ page = Blank /\ words # <<>> /\ Begin("block", words)

(* flash_page_erase.                                                       *)
Erasing == flash.op \in {"erase", "erase page"}

Erase ==
  /\ Erasing
  /\ page' = Blank /\ torn' = FALSE
  /\ flash' = (IF flash.op = "erase page" THEN Idle
               ELSE [flash EXCEPT !.op = IF flash.array = <<>> THEN "count" ELSE "data"])
  /\ UNCHANGED <<m_radio_active, kept>>

(* The word the call is about to program, its place, and what comes after. *)
Programs == flash.op \in {"data", "block", "count", "header"}

Word ==
  CASE flash.op = "count" -> <<0, Len(flash.array)>>
    [] flash.op = "header" -> flash.header
    [] OTHER -> flash.array[flash.i]

PlaceOf ==
  CASE flash.op = "count" -> 2
    [] flash.op = "header" -> 1
    [] OTHER -> 2 + flash.i

(* Bug: the header goes before the count.                                  *)
AfterWordHeaderFirst ==
  CASE flash.op = "count" -> Idle
    [] flash.op = "header" -> [flash EXCEPT !.op = "count"]
    [] OTHER ->
         IF flash.i < Len(flash.array) THEN [flash EXCEPT !.i = @ + 1]
         ELSE IF flash.op = "data" THEN [flash EXCEPT !.op = "header"] ELSE Idle
AfterWord ==
  CASE flash.op = "count" -> [flash EXCEPT !.op = "header"]
    [] flash.op = "header" -> Idle
    [] OTHER ->
         IF flash.i < Len(flash.array) THEN [flash EXCEPT !.i = @ + 1]
         ELSE IF flash.op = "data" THEN [flash EXCEPT !.op = "count"] ELSE Idle

Programmed(old, new) == <<And16(old[1], new[1]), And16(old[2], new[2])>>

(* flash_word_write waits for the radio, flash_word_unprotected_write,     *)
(* which writes the data of ble_flash_page_write, does not.                *)
WriteWord ==
  /\ Programs
  /\ flash.op # "data" => ~m_radio_active
  /\ page' = [page EXCEPT ![PlaceOf] = Programmed(@, Word)]
  /\ flash' = AfterWord
  /\ kept' = (IF flash.op = "header" THEN {flash.array} ELSE kept)
  /\ UNCHANGED <<m_radio_active, torn>>

RadioActiveEvt(active) ==
  /\ m_radio_active # active /\ m_radio_active' = active
  /\ UNCHANGED <<page, flash, kept, torn>>

FlashCpu == Erase \/ WriteWord

FlashNext ==
  \/ \E words \in Inputs : PageWrite(words) \/ BlockWrite(words)
  \/ PageErase
  \/ FlashCpu
  \/ \E active \in BOOLEAN : RadioActiveEvt(active)

(* What the page may hold after a cut: each word of an interrupted erase   *)
(* and each half of an interrupted word has been reached or not.           *)
Complete ==
  IF Erasing THEN Blank
  ELSE IF Programs THEN [page EXCEPT ![PlaceOf] = Programmed(@, Word)] ELSE page

PagesAfterCut ==
  IF Erasing
  THEN {[k \in Places |-> IF k \in reached THEN ERASED ELSE page[k]] :
          reached \in SUBSET Places}
  ELSE IF Programs
  THEN {[page EXCEPT ![PlaceOf] = <<high, low>>] :
          high \in {page[PlaceOf][1], Complete[PlaceOf][1]},
          low \in {page[PlaceOf][2], Complete[PlaceOf][2]}}
  ELSE {page}

FlashCut ==
  /\ page' \in PagesAfterCut
  /\ torn' = (torn \/ page' \notin {page, Complete})
  /\ flash' = Idle /\ m_radio_active' = FALSE
  /\ UNCHANGED kept

-----------------------------------------------------------------------------
(* A read never returns anything but an array that was written: no mixture *)
(* of two, no array cut off, whatever was interrupted where.               *)
ReadWhole == PageRead \subseteq Inputs

(* When ble_flash_page_write has returned, also after a write was cut off  *)
(* between two words and repeated, a read finds an array with that CRC.    *)
(* The two exceptions are those of ble_flash.c:199 ("Data is the same as   *)
(* the data already stored in flash"), which looks at the low half of the  *)
(* header only: a page torn inside a word or an erase, and a CRC of 0xFFFF.*)
Durable ==
  flash = Idle /\ ~torn =>
    \A words \in kept :
      ble_flash_crc16_compute(words) # 65535 =>
        \E read \in PageRead : Header(read) = Header(words)
=============================================================================
