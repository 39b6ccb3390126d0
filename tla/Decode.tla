------------------------------- MODULE Decode -------------------------------
(***************************************************************************)
(* What src/Src/main.c does with the body of a reply, the 28 bytes cr_all: *)
(* it counts the bytes of the three fields (distance, elevation angle,     *)
(* tilt angle), copies each to an array of its own and converts it to a    *)
(* number.  Nothing runs concurrently with it, so a message is one step.   *)
(*                                                                         *)
(* Neither the searches nor the copies are bounded.  What they meet and    *)
(* write outside their arrays is taken from the layout of the build        *)
(* (src/Listings/vgm.map), as far as the three numbers; a message whose    *)
(* copies reach the counters behind them ends the model.                   *)
(*                                                                         *)
(* Bytes are their codes.  A number is kept in thousandths: the code's     *)
(* division by 1000.000F is exact to the width of a float.                 *)
(***************************************************************************)
EXTENDS Integers, Sequences, FiniteSetsExt

CONSTANTS
  BODY,          \* bytes of cr_all (28)
  Thousandths,   \* the numbers the meter may send, in thousandths
  WIDENING,      \* TRUE: no field is ever shorter than in the message before
  Stray,         \* how far a search may go on behind cr_all
  Anything       \* what a number made of foreign bytes may be

ASSUME DecodeAssumption ==
  /\ BODY \in Nat
  /\ \A v \in Thousandths : v \in Int /\ v > -1000000 /\ v < 1000000
  /\ WIDENING \in BOOLEAN
  /\ Stray \in Nat
  /\ Anything # {}

VARIABLES
  D_cnt, E_cnt, T_cnt,        \* lengths of the fields
  DIST, ELEV_ANG, TILT_ANG,   \* the numbers, in thousandths
  sent,                       \* the numbers in the last message
  lost                        \* the counters have been overwritten

counts == <<D_cnt, E_cnt, T_cnt>>
numbers == <<DIST, ELEV_ANG, TILT_ANG>>
vars == <<counts, numbers, sent, lost>>

-----------------------------------------------------------------------------
(* The meter: a sign for negative numbers, one to three digits, a point,   *)
(* three digits; fields separated by a space; CR LF.                       *)
SPACE == 32
CR == 13
LF == 10
MINUS == 45
POINT == 46
ZERO == 48

Magnitude(v) == IF v < 0 THEN -v ELSE v

Digit(n, weight) == ZERO + ((n \div weight) % 10)

Format(v) ==
  LET m == Magnitude(v)
  IN  (IF v < 0 THEN <<MINUS>> ELSE <<>>)
      \o (IF m >= 100000 THEN <<Digit(m, 100000)>> ELSE <<>>)
      \o (IF m >= 10000 THEN <<Digit(m, 10000)>> ELSE <<>>)
      \o <<Digit(m, 1000), POINT, Digit(m, 100), Digit(m, 10), Digit(m, 1)>>

Body(d, e, t) ==
  Format(d) \o <<SPACE>> \o Format(e) \o <<SPACE>> \o Format(t) \o <<CR, LF>>

-----------------------------------------------------------------------------
(* cr_all: the body, and behind it the zeros of the memset.                *)
Fill(body) ==
  [k \in 0 .. (BODY - 1) |-> IF k < Len(body) THEN body[k + 1] ELSE 0]

(* The places where "while (cr_all[k] != stop) k++" may end, k starting at *)
(* from: at the first stop, or, when cr_all holds none, in the memory      *)
(* behind cr_all: a byte of padding, which stays 0, and then the ring of   *)
(* the receiver, with whatever has been received.                          *)
SearchEnds(cr_all, from, stop) ==
  LET found == {k \in from .. (BODY - 1) : cr_all[k] = stop}
  IN  IF found # {} THEN {Min(found)}
      ELSE LET ring == IF from > BODY THEN from ELSE BODY + 1
           IN  ring .. (ring + Stray)

(* Where the build has placed the variables of main.c: bytes from cr_d.    *)
At == [cr_d |-> 0, cr_e |-> 8, cr_t |-> 16, INFO |-> 24, DIST |-> 34,
       ELEV_ANG |-> 38, TILT_ANG |-> 42, D_cnt |-> 46]

(* The three copies write a byte of this place or of one behind it.        *)
Reaches(place, d, e, t) ==
  \/ At.cr_d + d + 1 > place
  \/ At.cr_e + e > place
  \/ At.cr_t + t > place

(* What a number may be when the copies are done.                          *)
Kept(old, place) ==
  IF Reaches(place, D_cnt', E_cnt', T_cnt') THEN Anything ELSE {old}

(* The bytes of a field in its array.  A field is copied in full and no    *)
(* later copy touches it: longer than eight bytes it is never looked at.   *)
Field(cr_all, first, count) ==
  [k \in 0 .. 7 |->
     IF k < count /\ first + k < BODY THEN cr_all[first + k] ELSE 0]

(* The conversion: three digits behind the point, one to three before it.  *)
(* A field of any other length leaves the number as it was.                *)
Number(cr_x, count, old) ==
  LET start == IF cr_x[0] = MINUS THEN 1 ELSE 0
      whole == count - start - 4
      digit(k) == cr_x[start + k] - ZERO
      integer == CASE whole = 1 -> digit(0)
                   [] whole = 2 -> digit(0) * 10 + digit(1)
                   [] whole = 3 -> digit(0) * 100 + digit(1) * 10 + digit(2)
      fraction == digit(whole + 1) * 100 + digit(whole + 2) * 10
                  + digit(whole + 3)
      value == integer * 1000 + fraction
  IN  IF whole \notin 1 .. 3 THEN old
      ELSE IF start = 1 THEN -value ELSE value

Init ==
  /\ D_cnt = 0 /\ E_cnt = 0 /\ T_cnt = 0
  /\ DIST = 0 /\ ELEV_ANG = 0 /\ TILT_ANG = 0
  /\ sent = <<0, 0, 0>>
  /\ lost = FALSE

(* Bug: the third loop looks for a space too, as its comment says.         *)
CountSpaces(cr_all) ==
  \E d \in SearchEnds(cr_all, D_cnt, SPACE) :
  \E e \in SearchEnds(cr_all, d + 1 + E_cnt, SPACE) :
  \E t \in SearchEnds(cr_all, e + 1 + T_cnt, SPACE) :
    D_cnt' = d /\ E_cnt' = e - (d + 1) /\ T_cnt' = t - (e + 1)

(* The three loops.  The counters start where the last message left them.  *)
Count(cr_all) ==
  \E d \in SearchEnds(cr_all, D_cnt, SPACE) :
  \E e \in SearchEnds(cr_all, d + 1 + E_cnt, SPACE) :
  \E t \in SearchEnds(cr_all, e + 1 + T_cnt, CR) :
    D_cnt' = d /\ E_cnt' = e - (d + 1) /\ T_cnt' = t - (e + 1)

(* What the conversion of a field may make of a number: it knows lengths   *)
(* of five to eight bytes, and some of these may come from behind cr_all.  *)
Converted(cr_all, first, count, kept) ==
  IF count \in 5 .. 8 /\ first + count > BODY
  THEN Anything \cup kept
  ELSE {Number(Field(cr_all, first, count), count, old) : old \in kept}

(* Bug: the second space is forgotten.                                     *)
ConvertShifted(cr_all) ==
  /\ DIST' \in Converted(cr_all, 0, D_cnt', Kept(DIST, At.DIST))
  /\ ELEV_ANG' \in Converted(cr_all, D_cnt' + 1, E_cnt',
                             Kept(ELEV_ANG, At.ELEV_ANG))
  /\ TILT_ANG' \in Converted(cr_all, D_cnt' + E_cnt' + 1, T_cnt',
                             Kept(TILT_ANG, At.TILT_ANG))

(* The copies and the conversions.                                         *)
Convert(cr_all) ==
  /\ DIST' \in Converted(cr_all, 0, D_cnt', Kept(DIST, At.DIST))
  /\ ELEV_ANG' \in Converted(cr_all, D_cnt' + 1, E_cnt',
                             Kept(ELEV_ANG, At.ELEV_ANG))
  /\ TILT_ANG' \in Converted(cr_all, D_cnt' + E_cnt' + 2, T_cnt',
                             Kept(TILT_ANG, At.TILT_ANG))

Width(v) == Len(Format(v))

(* After a message whose copies have reached the counters nothing is said. *)
Message(d, e, t) ==
  /\ ~lost
  /\ WIDENING => /\ Width(d) >= Width(sent[1])
                 /\ Width(e) >= Width(sent[2])
                 /\ Width(t) >= Width(sent[3])
  /\ sent' = <<d, e, t>>
  /\ Count(Fill(Body(d, e, t)))
  /\ Convert(Fill(Body(d, e, t)))
  /\ lost' = Reaches(At.D_cnt, D_cnt', E_cnt', T_cnt')

Next == \E d, e, t \in Thousandths : Message(d, e, t)

Spec == Init /\ [][Next]_vars

-----------------------------------------------------------------------------
(* The searches end inside cr_all: the longest message, three negative     *)
(* numbers of eight bytes, fills it to the last byte.  And the copies stay *)
(* in front of the request INFO, the number on display next to it and all  *)
(* that follows (the byte cr_d has too many is overwritten by cr_e).       *)
SearchInside ==
  /\ D_cnt + 1 + E_cnt + 1 + T_cnt < BODY
  /\ ~Reaches(At.INFO, D_cnt, E_cnt, T_cnt)

(* The numbers on display are those of the last message, to the last digit *)
(* and with their sign ("transforms data to double value of Distance,      *)
(* Elevation angle, Tilt angle", main.c:4).                                *)
Decoded == numbers = sent
=============================================================================
