---------------------------- MODULE Decode_proofs ----------------------------
(***************************************************************************)
(* Proofs about the decoding of replies, for every body long enough for    *)
(* three fields of eight bytes and every set of numbers the meter may      *)
(* send: a message that is laid out as the code expects and whose fields   *)
(* are no shorter than the counters left by the message before is decoded  *)
(* to the last digit, whatever was decoded before it.                      *)
(***************************************************************************)
EXTENDS Decode, SequenceTheorems, WellFoundedInduction, TLAPS

(* cr_all holds the longest message the meter sends (BODY is 28).          *)
Fits == BODY >= 28

Numbers == {v \in Int : v > -1000000 /\ v < 1000000}
Magnitudes == {m \in Nat : m < 1000000}

(* The bytes of a number: none of them is the end of a field.              *)
Bytes == 45 .. 57

-----------------------------------------------------------------------------
LEMMA Sizes == BODY \in Nat /\ Stray \in Nat
  BY DecodeAssumption, SMT

LEMMA SentAreNumbers == Thousandths \subseteq Numbers /\ 0 \in Numbers
  BY DecodeAssumption, SMT DEF Numbers

(* The digits of a number below ten to the sixth make the number.          *)
LEMMA DivTen ==
  ASSUME NEW m \in Nat
  PROVE  /\ m \div 10 \in Nat /\ m % 10 \in 0 .. 9
         /\ m = 10 * (m \div 10) + (m % 10)
  BY SMT

LEMMA DivPower ==
  ASSUME NEW m \in Nat
  PROVE  /\ m \div 1 = m
         /\ m \div 100 = (m \div 10) \div 10
         /\ m \div 1000 = (m \div 100) \div 10
         /\ m \div 10000 = (m \div 1000) \div 10
         /\ m \div 100000 = (m \div 10000) \div 10
<1>1. m \div 1 = m BY SMT
<1>2. m \div 100 = (m \div 10) \div 10 BY SMT
<1>3. m \div 1000 = (m \div 100) \div 10 BY SMT
<1>4. m \div 10000 = (m \div 1000) \div 10 BY SMT
<1>5. m \div 100000 = (m \div 10000) \div 10 BY SMT
<1> QED BY <1>1, <1>2, <1>3, <1>4, <1>5, SMT

(* The digits of m, the first of them worth 100000.                        *)
Places(m) == <<Digit(m, 100000), Digit(m, 10000), Digit(m, 1000),
               Digit(m, 100), Digit(m, 10), Digit(m, 1)>>
Worth(d, k) == d[k] - ZERO

LEMMA SixDigits ==
  ASSUME NEW m \in Magnitudes
  PROVE  /\ \A k \in 1 .. 6 : Places(m)[k] \in ZERO .. (ZERO + 9)
         /\ m = 100000 * Worth(Places(m), 1) + 10000 * Worth(Places(m), 2)
                + 1000 * Worth(Places(m), 3) + 100 * Worth(Places(m), 4)
                + 10 * Worth(Places(m), 5) + Worth(Places(m), 6)
         /\ m < 100000 => Worth(Places(m), 1) = 0
         /\ m < 10000 => Worth(Places(m), 2) = 0
<1> DEFINE q1 == m \div 10
           q2 == q1 \div 10
           q3 == q2 \div 10
           q4 == q3 \div 10
           q5 == q4 \div 10
<1>1. m \in Nat /\ m < 1000000 BY SMT DEF Magnitudes
<1>2. q1 \in Nat /\ m % 10 \in 0 .. 9 /\ m = 10 * q1 + (m % 10)
  BY <1>1, DivTen, SMT
<1>3. q2 \in Nat /\ q1 % 10 \in 0 .. 9 /\ q1 = 10 * q2 + (q1 % 10)
  <2> HIDE DEF q1
  <2> QED BY <1>2, DivTen, SMT
<1>4. q3 \in Nat /\ q2 % 10 \in 0 .. 9 /\ q2 = 10 * q3 + (q2 % 10)
  <2> HIDE DEF q2
  <2> QED BY <1>3, DivTen, SMT
<1>5. q4 \in Nat /\ q3 % 10 \in 0 .. 9 /\ q3 = 10 * q4 + (q3 % 10)
  <2> HIDE DEF q3
  <2> QED BY <1>4, DivTen, SMT
<1>6. q5 \in Nat /\ q4 % 10 \in 0 .. 9 /\ q4 = 10 * q5 + (q4 % 10)
  <2> HIDE DEF q4
  <2> QED BY <1>5, DivTen, SMT
<1>7. /\ m \div 1 = m /\ m \div 100 = q2 /\ m \div 1000 = q3
      /\ m \div 10000 = q4 /\ m \div 100000 = q5
  BY <1>1, DivPower, SMT
<1> HIDE DEF q2, q3, q4, q5
<1>8. Places(m) = <<ZERO + (q5 % 10), ZERO + (q4 % 10), ZERO + (q3 % 10),
                    ZERO + (q2 % 10), ZERO + (q1 % 10), ZERO + (m % 10)>>
  BY <1>7, SMT DEF Places, Digit
<1> HIDE DEF q1
<1> DEFINE r1 == q1 % 10
           r2 == q2 % 10
           r3 == q3 % 10
           r4 == q4 % 10
           r5 == q5 % 10
           r0 == m % 10
<1>9. r5 \in 0 .. 9 /\ r5 = q5
  <2>1. q5 \in 0 .. 9
    BY <1>1, <1>2, <1>3, <1>4, <1>5, <1>6, SMT
  <2>2. \A n \in 0 .. 9 : n % 10 = n BY SMT
  <2> QED BY <2>1, <2>2, SMT
<1> HIDE DEF r0, r1, r2, r3, r4, r5
<1>10. /\ Worth(Places(m), 1) = r5 /\ Worth(Places(m), 2) = r4
       /\ Worth(Places(m), 3) = r3 /\ Worth(Places(m), 4) = r2
       /\ Worth(Places(m), 5) = r1 /\ Worth(Places(m), 6) = r0
  <2> DEFINE d == Places(m)
  <2>1. /\ d[1] = 48 + r5 /\ d[2] = 48 + r4 /\ d[3] = 48 + r3
        /\ d[4] = 48 + r2 /\ d[5] = 48 + r1 /\ d[6] = 48 + r0
    BY <1>8, SMT DEF ZERO, r0, r1, r2, r3, r4, r5
  <2>2. /\ r0 \in 0 .. 9 /\ r1 \in 0 .. 9 /\ r2 \in 0 .. 9 /\ r3 \in 0 .. 9
        /\ r4 \in 0 .. 9 /\ r5 \in 0 .. 9
    BY <1>2, <1>3, <1>4, <1>5, <1>6, <1>9, SMT DEF r0, r1, r2, r3, r4, r5
  <2> HIDE DEF d
  <2>3. /\ d[1] - 48 = r5 /\ d[2] - 48 = r4 /\ d[3] - 48 = r3
        /\ d[4] - 48 = r2 /\ d[5] - 48 = r1 /\ d[6] - 48 = r0
    BY <2>1, <2>2, SMT
  <2> QED BY <2>3, SMT DEF Worth, ZERO, d
<1>11. \A k \in 1 .. 6 : Places(m)[k] \in ZERO .. (ZERO + 9)
  <2>1. /\ r0 \in 0 .. 9 /\ r1 \in 0 .. 9 /\ r2 \in 0 .. 9 /\ r3 \in 0 .. 9
        /\ r4 \in 0 .. 9 /\ r5 \in 0 .. 9
    BY <1>2, <1>3, <1>4, <1>5, <1>6, <1>9, SMT DEF r0, r1, r2, r3, r4, r5
  <2>2. Places(m) = <<ZERO + r5, ZERO + r4, ZERO + r3, ZERO + r2, ZERO + r1, ZERO + r0>>
    BY <1>8, SMT DEF r0, r1, r2, r3, r4, r5
  <2> SUFFICES ASSUME NEW k \in 1 .. 6
               PROVE  Places(m)[k] \in ZERO .. (ZERO + 9)
    OBVIOUS
  <2>3. k = 1 \/ k = 2 \/ k = 3 \/ k = 4 \/ k = 5 \/ k = 6 BY SMT
  <2> QED BY <2>1, <2>2, <2>3, SMT DEF ZERO
<1>12. /\ r0 \in 0 .. 9 /\ r1 \in 0 .. 9 /\ r2 \in 0 .. 9 /\ r3 \in 0 .. 9
       /\ r4 \in 0 .. 9
       /\ m = 10 * q1 + r0 /\ q1 = 10 * q2 + r1 /\ q2 = 10 * q3 + r2
       /\ q3 = 10 * q4 + r3 /\ q4 = 10 * q5 + r4
  BY <1>2, <1>3, <1>4, <1>5, <1>6, SMT DEF r0, r1, r2, r3, r4
<1>13. /\ m = 100000 * r5 + 10000 * r4 + 1000 * r3 + 100 * r2 + 10 * r1 + r0
       /\ m < 100000 => r5 = 0
       /\ m < 10000 => r4 = 0
  BY <1>1, <1>2, <1>3, <1>4, <1>5, <1>6, <1>9, <1>12, SMT
<1> QED BY <1>10, <1>11, <1>13, SMT
-----------------------------------------------------------------------------
(* Concatenation, part by part.                                            *)
LEMMA Joined ==
  ASSUME NEW S, NEW a \in Seq(S), NEW b \in Seq(S)
  PROVE  /\ a \o b \in Seq(S)
         /\ Len(a) \in Nat /\ Len(b) \in Nat
         /\ Len(a \o b) = Len(a) + Len(b)
         /\ \A k \in 1 .. Len(a) : (a \o b)[k] = a[k]
         /\ \A k \in 1 .. Len(b) : (a \o b)[Len(a) + k] = b[k]
<1>1. Len(a) \in Nat /\ Len(b) \in Nat OBVIOUS
<1>2. /\ a \o b \in Seq(S)
      /\ Len(a \o b) = Len(a) + Len(b)
      /\ \A k \in 1 .. (Len(a) + Len(b)) :
           (a \o b)[k] = IF k <= Len(a) THEN a[k] ELSE b[k - Len(a)]
  BY ConcatProperties
<1>3. ASSUME NEW k \in 1 .. Len(a) PROVE (a \o b)[k] = a[k]
  BY <1>1, <1>2
<1>4. ASSUME NEW k \in 1 .. Len(b) PROVE (a \o b)[Len(a) + k] = b[k]
  <2>1. /\ Len(a) + k \in 1 .. (Len(a) + Len(b)) /\ ~(Len(a) + k <= Len(a))
        /\ (Len(a) + k) - Len(a) = k
    BY <1>1
  <2> QED BY <1>2, <2>1
<1> QED BY <1>1, <1>2, <1>3, <1>4

(* A number in the meter's format: a sign or none, one to three digits, a  *)
(* point, three digits.                                                    *)
Signs(v) == IF v < 0 THEN 1 ELSE 0
Whole(v) == IF Magnitude(v) >= 100000 THEN 3
            ELSE IF Magnitude(v) >= 10000 THEN 2 ELSE 1
Sign(v) == IF v < 0 THEN <<MINUS>> ELSE <<>>
High(m) == IF m >= 100000 THEN <<Digit(m, 100000)>> ELSE <<>>
Middle(m) == IF m >= 10000 THEN <<Digit(m, 10000)>> ELSE <<>>
Rest(m) == <<Digit(m, 1000), POINT, Digit(m, 100), Digit(m, 10), Digit(m, 1)>>

LEMMA MagnitudeIs ==
  ASSUME NEW v \in Numbers
  PROVE  Magnitude(v) \in Magnitudes /\ v = (IF v < 0 THEN -Magnitude(v) ELSE Magnitude(v))
  BY SMT DEF Numbers, Magnitudes, Magnitude

LEMMA DigitIs ==
  ASSUME NEW m \in Magnitudes
  PROVE  /\ Digit(m, 100000) \in Bytes /\ Digit(m, 10000) \in Bytes
         /\ Digit(m, 1000) \in Bytes /\ Digit(m, 100) \in Bytes
         /\ Digit(m, 10) \in Bytes /\ Digit(m, 1) \in Bytes
         /\ \A d \in 1 .. 6 : Places(m)[d] # MINUS
<1>1. \A k \in 1 .. 6 : Places(m)[k] \in ZERO .. (ZERO + 9) BY SixDigits, SMT
<1>2. ZERO .. (ZERO + 9) \subseteq Bytes /\ MINUS \notin ZERO .. (ZERO + 9)
  BY SMT DEF ZERO, Bytes, MINUS
<1>3. \A k \in 1 .. 6 : Places(m)[k] \in Bytes /\ Places(m)[k] # MINUS
  BY <1>1, <1>2
<1>4. /\ Places(m)[1] \in Bytes /\ Places(m)[2] \in Bytes /\ Places(m)[3] \in Bytes
      /\ Places(m)[4] \in Bytes /\ Places(m)[5] \in Bytes /\ Places(m)[6] \in Bytes
  BY <1>3, SMT
<1> HIDE DEF Bytes
<1> QED BY <1>3, <1>4, SMT DEF Places

LEMMA FormatIs ==
  ASSUME NEW v \in Numbers
  PROVE  LET F == Format(v)
             m == Magnitude(v)
             s == Signs(v)
         IN  /\ F \in Seq(Bytes) /\ Len(F) = s + Whole(v) + 4
             /\ s = 1 => F[1] = MINUS
             /\ Whole(v) = 3 => F[s + 1] = Digit(m, 100000) /\ F[s + 2] = Digit(m, 10000)
             /\ Whole(v) = 2 => F[s + 1] = Digit(m, 10000)
             /\ F[s + Whole(v)] = Digit(m, 1000)
             /\ F[s + Whole(v) + 2] = Digit(m, 100)
             /\ F[s + Whole(v) + 3] = Digit(m, 10)
             /\ F[s + Whole(v) + 4] = Digit(m, 1)
<1> DEFINE m == Magnitude(v)
           w1 == Sign(v)
           w2 == High(m)
           w3 == Middle(m)
           w4 == Rest(m)
           w12 == w1 \o w2
           w123 == w12 \o w3
<1>1. m \in Magnitudes BY MagnitudeIs
<1>2. Format(v) = w123 \o w4
  BY SMT DEF Format, Sign, High, Middle, Rest
<1> HIDE DEF m
<1>3. /\ w1 \in Seq(Bytes) /\ Len(w1) = Signs(v)
      /\ Signs(v) = 1 => w1[1] = MINUS
  <2>1. CASE v < 0
    <3>1. MINUS \in Bytes BY SMT DEF Bytes, MINUS
    <3> QED BY <2>1, <3>1, SMT DEF Sign, Signs
  <2>2. CASE ~(v < 0)
    <3>1. w1 = <<>> /\ Signs(v) = 0 BY <2>2, SMT DEF Sign, Signs
    <3> HIDE DEF w1
    <3> QED BY <3>1, SMT
  <2> QED BY <2>1, <2>2
<1>4. /\ w2 \in Seq(Bytes) /\ Len(w2) = IF m >= 100000 THEN 1 ELSE 0
      /\ m >= 100000 => w2[1] = Digit(m, 100000)
  BY <1>1, DigitIs, SMT DEF High
<1>5. /\ w3 \in Seq(Bytes) /\ Len(w3) = IF m >= 10000 THEN 1 ELSE 0
      /\ m >= 10000 => w3[1] = Digit(m, 10000)
  BY <1>1, DigitIs, SMT DEF Middle
<1>6. /\ w4 \in Seq(Bytes) /\ Len(w4) = 5
      /\ w4[1] = Digit(m, 1000) /\ w4[3] = Digit(m, 100)
      /\ w4[4] = Digit(m, 10) /\ w4[5] = Digit(m, 1)
  <2>1. POINT \in Bytes BY SMT DEF POINT, Bytes
  <2> QED BY <1>1, <2>1, DigitIs, SMT DEF Rest
<1> HIDE DEF w1, w2, w3, w4
<1>7. /\ w12 \in Seq(Bytes) /\ Len(w12) = Len(w1) + Len(w2)
      /\ \A k \in 1 .. Len(w1) : w12[k] = w1[k]
      /\ \A k \in 1 .. Len(w2) : w12[Len(w1) + k] = w2[k]
  BY <1>3, <1>4, Joined
<1> HIDE DEF w12
<1>8. /\ w123 \in Seq(Bytes) /\ Len(w123) = Len(w12) + Len(w3)
      /\ \A k \in 1 .. Len(w12) : w123[k] = w12[k]
      /\ \A k \in 1 .. Len(w3) : w123[Len(w12) + k] = w3[k]
  <2>1. w12 \in Seq(Bytes) /\ w3 \in Seq(Bytes) BY <1>5, <1>7
  <2> QED BY <2>1, Joined
<1> HIDE DEF w123
<1> DEFINE F == w123 \o w4
<1>9. /\ F \in Seq(Bytes) /\ Len(F) = Len(w123) + 5
      /\ \A k \in 1 .. Len(w123) : F[k] = w123[k]
      /\ \A k \in 1 .. 5 : F[Len(w123) + k] = w4[k]
  <2>1. w123 \in Seq(Bytes) /\ w4 \in Seq(Bytes) BY <1>6, <1>8
  <2>2. /\ F \in Seq(Bytes) /\ Len(F) = Len(w123) + Len(w4)
        /\ \A k \in 1 .. Len(w123) : F[k] = w123[k]
        /\ \A k \in 1 .. Len(w4) : F[Len(w123) + k] = w4[k]
    BY <2>1, Joined
  <2> QED BY <2>2, <1>6
<1> HIDE DEF F
<1>10. Signs(v) \in 0 .. 1 BY SMT DEF Signs
<1>11. m \in Nat BY <1>1, SMT DEF Magnitudes
<1>12. /\ m >= 100000 => Whole(v) = 3
       /\ m < 100000 /\ m >= 10000 => Whole(v) = 2
       /\ m < 10000 => Whole(v) = 1
  BY <1>11, SMT DEF Whole, m
<1>13. Len(w123) + 1 = Signs(v) + Whole(v)
  BY <1>3, <1>4, <1>5, <1>7, <1>8, <1>10, <1>11, <1>12, SMT
<1>14. /\ F[Signs(v) + Whole(v)] = Digit(m, 1000)
       /\ F[Signs(v) + Whole(v) + 2] = Digit(m, 100)
       /\ F[Signs(v) + Whole(v) + 3] = Digit(m, 10)
       /\ F[Signs(v) + Whole(v) + 4] = Digit(m, 1)
  <2>1. Len(w123) \in Nat BY <1>8
  <2>2. /\ Signs(v) + Whole(v) + 2 = Len(w123) + 3
        /\ Signs(v) + Whole(v) + 3 = Len(w123) + 4
        /\ Signs(v) + Whole(v) + 4 = Len(w123) + 5
    BY <1>13, <2>1, <1>10, <1>12, <1>11, SMT
  <2>3. 1 \in 1 .. 5 /\ 3 \in 1 .. 5 /\ 4 \in 1 .. 5 /\ 5 \in 1 .. 5 BY SMT
  <2> QED BY <1>6, <1>9, <1>13, <2>2, <2>3
<1>15. Len(F) = Signs(v) + Whole(v) + 4
  BY <1>9, <1>10, <1>12, <1>11, <1>13, <1>8, SMT
<1>16. Signs(v) = 1 => F[1] = MINUS
  <2> SUFFICES ASSUME Signs(v) = 1 PROVE F[1] = MINUS OBVIOUS
  <2>1. 1 \in 1 .. Len(w1) /\ 1 \in 1 .. Len(w12) /\ 1 \in 1 .. Len(w123)
    BY <1>3, <1>4, <1>5, <1>7, <1>8, SMT
  <2> QED BY <1>3, <1>7, <1>8, <1>9, <2>1
<1>17. ASSUME Whole(v) = 3
       PROVE  F[Signs(v) + 1] = Digit(m, 100000) /\ F[Signs(v) + 2] = Digit(m, 10000)
  <2>1. m >= 100000 /\ m >= 10000 BY <1>17, <1>12, <1>11, SMT
  <2>2. /\ 1 \in 1 .. Len(w2) /\ 1 \in 1 .. Len(w3)
        /\ Signs(v) + 1 = Len(w1) + 1 /\ Signs(v) + 2 = Len(w12) + 1
        /\ Signs(v) + 1 \in 1 .. Len(w12) /\ Signs(v) + 1 \in 1 .. Len(w123)
        /\ Signs(v) + 2 \in 1 .. Len(w123)
    BY <2>1, <1>3, <1>4, <1>5, <1>7, <1>8, <1>10, SMT
  <2> QED BY <2>1, <2>2, <1>4, <1>5, <1>7, <1>8, <1>9
<1>18. ASSUME Whole(v) = 2 PROVE F[Signs(v) + 1] = Digit(m, 10000)
  <2>1. m >= 10000 /\ ~(m >= 100000) BY <1>18, <1>12, <1>11, SMT
  <2>2. /\ 1 \in 1 .. Len(w3)
        /\ Signs(v) + 1 = Len(w12) + 1 /\ Signs(v) + 1 \in 1 .. Len(w123)
    BY <2>1, <1>3, <1>4, <1>5, <1>7, <1>8, <1>10, SMT
  <2> QED BY <2>1, <2>2, <1>5, <1>8, <1>9
<1>19. Format(v) = F BY <1>2 DEF F
<1> QED BY <1>9, <1>14, <1>15, <1>16, <1>17, <1>18, <1>19 DEF m
-----------------------------------------------------------------------------
LEMMA WidthIs ==
  ASSUME NEW v \in Numbers
  PROVE  /\ Width(v) = Signs(v) + Whole(v) + 4 /\ Width(v) \in 5 .. 8
         /\ Format(v) \in Seq(Bytes) /\ Len(Format(v)) = Width(v)
<1>1. Width(v) = Signs(v) + Whole(v) + 4 BY FormatIs DEF Width
<1>2. Signs(v) \in 0 .. 1 /\ Whole(v) \in 1 .. 3 BY SMT DEF Signs, Whole
<1>3. Width(v) \in 5 .. 8 BY <1>1, <1>2, SMT
<1> QED BY <1>1, <1>3, FormatIs DEF Width

(* Three fields as main.c finds them in cr_all.                            *)
Laid(cr_all, a, b, c) ==
  /\ \A k \in 0 .. (Len(a) - 1) : cr_all[k] = a[k + 1]
  /\ cr_all[Len(a)] = SPACE
  /\ \A k \in 0 .. (Len(b) - 1) : cr_all[Len(a) + 1 + k] = b[k + 1]
  /\ cr_all[Len(a) + 1 + Len(b)] = SPACE
  /\ \A k \in 0 .. (Len(c) - 1) : cr_all[Len(a) + Len(b) + 2 + k] = c[k + 1]
  /\ cr_all[Len(a) + Len(b) + 2 + Len(c)] = CR
  /\ \A k \in (Len(a) + Len(b) + Len(c) + 3) .. (BODY - 1) : cr_all[k] \in {LF, 0}

LEMMA BodyLaid ==
  ASSUME Fits, NEW d \in Numbers, NEW e \in Numbers, NEW t \in Numbers
  PROVE  Laid(Fill(Body(d, e, t)), Format(d), Format(e), Format(t))
<1> DEFINE a == Format(d)
           b == Format(e)
           c == Format(t)
           p1 == a \o <<SPACE>>
           p2 == p1 \o b
           p3 == p2 \o <<SPACE>>
           p4 == p3 \o c
           p5 == p4 \o <<CR, LF>>
           A == Len(a)
           B == Len(b)
           C == Len(c)
<1>1. /\ a \in Seq(Nat) /\ b \in Seq(Nat) /\ c \in Seq(Nat)
      /\ A \in 5 .. 8 /\ B \in 5 .. 8 /\ C \in 5 .. 8
  <2>1. Bytes \subseteq Nat BY SMT DEF Bytes
  <2>2. ASSUME NEW s \in Seq(Bytes) PROVE s \in Seq(Nat)
    <3>1. Len(s) \in Nat /\ s \in [1 .. Len(s) -> Bytes] OBVIOUS
    <3>2. s \in [1 .. Len(s) -> Nat] BY <3>1, <2>1
    <3> QED BY <3>1, <3>2
  <2> QED BY <2>2, WidthIs
<1>2. Body(d, e, t) = p5 BY DEF Body
<1> HIDE DEF a, b, c
<1>3. /\ <<SPACE>> \in Seq(Nat) /\ Len(<<SPACE>>) = 1 /\ <<SPACE>>[1] = SPACE
      /\ <<CR, LF>> \in Seq(Nat) /\ Len(<<CR, LF>>) = 2
      /\ <<CR, LF>>[1] = CR /\ <<CR, LF>>[2] = LF
  BY SMT DEF SPACE, CR, LF
<1>4. /\ p1 \in Seq(Nat) /\ Len(p1) = A + 1
      /\ \A k \in 1 .. A : p1[k] = a[k]
      /\ p1[A + 1] = SPACE
  <2>1. /\ p1 \in Seq(Nat) /\ Len(p1) = A + Len(<<SPACE>>)
        /\ \A k \in 1 .. A : p1[k] = a[k]
        /\ \A k \in 1 .. Len(<<SPACE>>) : p1[A + k] = <<SPACE>>[k]
    <3> HIDE DEF p1
    <3> QED BY <1>1, <1>3, Joined DEF p1
  <2> HIDE DEF p1
  <2> QED BY <2>1, <1>3
<1> HIDE DEF p1
<1>5. /\ p2 \in Seq(Nat) /\ Len(p2) = Len(p1) + B
      /\ \A k \in 1 .. Len(p1) : p2[k] = p1[k]
      /\ \A k \in 1 .. B : p2[Len(p1) + k] = b[k]
  <2>1. p1 \in Seq(Nat) /\ b \in Seq(Nat) BY <1>1, <1>4
  <2> QED BY <2>1, Joined
<1> HIDE DEF p2
<1>6. /\ p3 \in Seq(Nat) /\ Len(p3) = Len(p2) + 1
      /\ \A k \in 1 .. Len(p2) : p3[k] = p2[k]
      /\ p3[Len(p2) + 1] = SPACE
  <2>1. p2 \in Seq(Nat) BY <1>5
  <2>2. /\ p3 \in Seq(Nat) /\ Len(p3) = Len(p2) + Len(<<SPACE>>)
        /\ \A k \in 1 .. Len(p2) : p3[k] = p2[k]
        /\ \A k \in 1 .. Len(<<SPACE>>) : p3[Len(p2) + k] = <<SPACE>>[k]
    BY <2>1, <1>3, Joined
  <2> HIDE DEF p3
  <2> QED BY <2>2, <1>3
<1> HIDE DEF p3
<1>7. /\ p4 \in Seq(Nat) /\ Len(p4) = Len(p3) + C
      /\ \A k \in 1 .. Len(p3) : p4[k] = p3[k]
      /\ \A k \in 1 .. C : p4[Len(p3) + k] = c[k]
  <2>1. p3 \in Seq(Nat) /\ c \in Seq(Nat) BY <1>1, <1>6
  <2> QED BY <2>1, Joined
<1> HIDE DEF p4
<1>8. /\ p5 \in Seq(Nat) /\ Len(p5) = Len(p4) + 2
      /\ \A k \in 1 .. Len(p4) : p5[k] = p4[k]
      /\ p5[Len(p4) + 1] = CR /\ p5[Len(p4) + 2] = LF
  <2>1. p4 \in Seq(Nat) BY <1>7
  <2>2. /\ p5 \in Seq(Nat) /\ Len(p5) = Len(p4) + Len(<<CR, LF>>)
        /\ \A k \in 1 .. Len(p4) : p5[k] = p4[k]
        /\ \A k \in 1 .. Len(<<CR, LF>>) : p5[Len(p4) + k] = <<CR, LF>>[k]
    BY <2>1, <1>3, Joined
  <2> HIDE DEF p5
  <2> QED BY <2>2, <1>3
<1> HIDE DEF p5, A, B, C
<1>9. /\ Len(p1) = A + 1 /\ Len(p2) = A + B + 1 /\ Len(p3) = A + B + 2
      /\ Len(p4) = A + B + C + 2 /\ Len(p5) = A + B + C + 4
      /\ Len(p5) <= BODY /\ BODY \in Nat
  <2>1. /\ A \in 5 .. 8 /\ B \in 5 .. 8 /\ C \in 5 .. 8
        /\ Len(p1) = A + 1 /\ Len(p2) = Len(p1) + B /\ Len(p3) = Len(p2) + 1
        /\ Len(p4) = Len(p3) + C /\ Len(p5) = Len(p4) + 2
    BY <1>1, <1>4, <1>5, <1>6, <1>7, <1>8 DEF A, B, C
  <2>2. BODY \in Nat /\ BODY >= 28 BY Sizes DEF Fits
  <2> QED BY <2>1, <2>2, SMT
<1>10. \A k \in Nat : k < Len(p5) => Fill(p5)[k] = p5[k + 1]
  BY <1>9, <1>1, SMT DEF Fill
<1>11. ASSUME NEW k \in 0 .. (A - 1) PROVE Fill(p5)[k] = a[k + 1]
  <2>1. /\ k \in Nat /\ k < Len(p5) /\ k + 1 \in 1 .. A /\ k + 1 \in 1 .. Len(p1)
        /\ k + 1 \in 1 .. Len(p2) /\ k + 1 \in 1 .. Len(p3) /\ k + 1 \in 1 .. Len(p4)
    BY <1>1, <1>9, SMT
  <2> QED BY <2>1, <1>4, <1>5, <1>6, <1>7, <1>8, <1>10
<1>12. Fill(p5)[A] = SPACE
  <2>1. /\ A \in Nat /\ A < Len(p5) /\ A + 1 \in 1 .. Len(p1)
        /\ A + 1 \in 1 .. Len(p2) /\ A + 1 \in 1 .. Len(p3) /\ A + 1 \in 1 .. Len(p4)
    BY <1>1, <1>9, SMT DEF A
  <2>2. p4[A + 1] = SPACE BY <2>1, <1>4, <1>5, <1>6, <1>7
  <2> QED BY <2>1, <2>2, <1>8, <1>10
<1>13. ASSUME NEW k \in 0 .. (B - 1) PROVE Fill(p5)[A + 1 + k] = b[k + 1]
  <2> DEFINE n == A + 1 + k
  <2>1. /\ n \in Nat /\ n < Len(p5) /\ k + 1 \in 1 .. B
        /\ n + 1 = Len(p1) + (k + 1)
        /\ n + 1 \in 1 .. Len(p2) /\ n + 1 \in 1 .. Len(p3) /\ n + 1 \in 1 .. Len(p4)
    BY <1>1, <1>9, SMT
  <2> HIDE DEF n
  <2>2. p4[n + 1] = b[k + 1] BY <2>1, <1>5, <1>6, <1>7
  <2>3. Fill(p5)[n] = b[k + 1] BY <2>1, <2>2, <1>8, <1>10
  <2> QED BY <2>3 DEF n
<1>14. Fill(p5)[A + 1 + B] = SPACE
  <2> DEFINE n == A + 1 + B
  <2>1. /\ n \in Nat /\ n < Len(p5) /\ n + 1 = Len(p2) + 1
        /\ n + 1 \in 1 .. Len(p3) /\ n + 1 \in 1 .. Len(p4)
    BY <1>1, <1>9, SMT
  <2> HIDE DEF n
  <2>2. p4[n + 1] = SPACE BY <2>1, <1>6, <1>7
  <2>3. Fill(p5)[n] = SPACE BY <2>1, <2>2, <1>8, <1>10
  <2> QED BY <2>3 DEF n
<1>15. ASSUME NEW k \in 0 .. (C - 1) PROVE Fill(p5)[A + B + 2 + k] = c[k + 1]
  <2> DEFINE n == A + B + 2 + k
  <2>1. /\ n \in Nat /\ n < Len(p5) /\ k + 1 \in 1 .. C
        /\ n + 1 = Len(p3) + (k + 1) /\ n + 1 \in 1 .. Len(p4)
    BY <1>1, <1>9, SMT
  <2> HIDE DEF n
  <2>2. Fill(p5)[n] = c[k + 1] BY <2>1, <1>7, <1>8, <1>10
  <2> QED BY <2>2 DEF n
<1>16. Fill(p5)[A + B + 2 + C] = CR
  <2> DEFINE n == A + B + 2 + C
  <2>1. n \in Nat /\ n < Len(p5) /\ n + 1 = Len(p4) + 1
    BY <1>1, <1>9, SMT
  <2> HIDE DEF n
  <2>2. Fill(p5)[n] = CR BY <2>1, <1>8, <1>10
  <2> QED BY <2>2 DEF n
<1>17. ASSUME NEW k \in (A + B + C + 3) .. (BODY - 1)
       PROVE  Fill(p5)[k] \in {LF, 0}
  <2>1. k \in 0 .. (BODY - 1) BY <1>1, <1>9, SMT
  <2>2. CASE k = A + B + C + 3
    <3>1. k \in Nat /\ k < Len(p5) /\ k + 1 = Len(p4) + 2
      BY <2>2, <1>1, <1>9, SMT
    <3> QED BY <3>1, <1>8, <1>10
  <2>3. CASE k # A + B + C + 3
    <3>1. ~(k < Len(p5)) BY <2>3, <1>1, <1>9, SMT
    <3>2. Fill(p5)[k] = 0 BY <2>1, <3>1 DEF Fill
    <3> QED BY <3>2
  <2> QED BY <2>2, <2>3
<1>18. Laid(Fill(p5), a, b, c)
  BY <1>11, <1>12, <1>13, <1>14, <1>15, <1>16, <1>17 DEF Laid, A, B, C
<1> QED BY <1>2, <1>18 DEF a, b, c
-----------------------------------------------------------------------------
LEMMA LeastMember ==
  ASSUME NEW S, S \subseteq Nat, S # {}
  PROVE  \E x \in S : \A y \in S : x <= y
<1> DEFINE Less == OpToRel(<, Nat)
<1>1. IsWellFoundedOn(Less, Nat) BY NatLessThanWellFounded
<1>2. \A x, y \in Nat : x < y => <<x, y>> \in Less BY Zenon DEF OpToRel
<1> HIDE DEF Less
<1>3. PICK x \in S : \A y \in S : ~(<<y, x>> \in Less) BY <1>1, WFMin
<1>4. \A y \in S : ~(y < x) BY <1>2, <1>3
<1> QED BY <1>4

(* A search finds the first stop, and never ends before it starts.         *)
LEMMA SearchFinds ==
  ASSUME NEW cr_all, NEW from \in Nat, NEW end \in Nat, NEW stop,
         from <= end, end < BODY, cr_all[end] = stop,
         \A k \in from .. (end - 1) : cr_all[k] # stop
  PROVE  SearchEnds(cr_all, from, stop) = {end}
<1> DEFINE found == {k \in from .. (BODY - 1) : cr_all[k] = stop}
<1>1. BODY \in Nat BY Sizes
<1>2. end \in found BY <1>1, SMT
<1>3. ASSUME NEW k \in found PROVE k \in Nat /\ end <= k
  <2>1. k \in from .. (BODY - 1) /\ cr_all[k] = stop OBVIOUS
  <2>2. k \notin from .. (end - 1) BY <2>1
  <2> QED BY <1>1, <2>1, <2>2, SMT
<1> HIDE DEF found
<1>4. Min(found) = end
  <2>1. \E x \in found : \A y \in found : x <= y BY <1>2, <1>3
  <2>2. Min(found) \in found /\ \A y \in found : Min(found) <= y
    BY <2>1, Zenon DEF Min
  <2>3. Min(found) <= end /\ end <= Min(found) /\ Min(found) \in Nat
    BY <2>2, <1>2, <1>3
  <2> QED BY <2>3, SMT
<1>5. SearchEnds(cr_all, from, stop) = {Min(found)}
  BY <1>2, Zenon DEF SearchEnds, found
<1> QED BY <1>4, <1>5

LEMMA SearchForward ==
  ASSUME NEW cr_all, NEW from \in Nat, NEW stop,
         NEW k \in SearchEnds(cr_all, from, stop)
  PROVE  k \in Nat /\ from <= k
<1> DEFINE found == {j \in from .. (BODY - 1) : cr_all[j] = stop}
<1>1. BODY \in Nat /\ Stray \in Nat BY Sizes
<1>2. CASE found # {}
  <2>1. k = Min(found) BY <1>2, Zenon DEF SearchEnds
  <2>2. \A x \in found : x \in Nat /\ from <= x BY <1>1, SMT
  <2> HIDE DEF found
  <2>3. PICK x \in found : \A y \in found : x <= y
    BY <1>2, <2>2, LeastMember
  <2>4. Min(found) \in found BY <2>3, Zenon DEF Min
  <2> QED BY <2>1, <2>2, <2>4
<1>3. CASE found = {}
  <2>1. k \in (IF from > BODY THEN from ELSE BODY + 1) ..
               ((IF from > BODY THEN from ELSE BODY + 1) + Stray)
    BY <1>3, Zenon DEF SearchEnds
  <2> QED BY <1>1, <2>1, SMT
<1> QED BY <1>2, <1>3

LEMMA SearchPasses ==
  ASSUME NEW cr_all, NEW from \in Nat, NEW stop, NEW low \in Nat, low <= BODY,
         \A k \in from .. (BODY - 1) : k < low => cr_all[k] # stop,
         NEW j \in SearchEnds(cr_all, from, stop)
  PROVE  low <= j
<1> DEFINE found == {k \in from .. (BODY - 1) : cr_all[k] = stop}
<1>1. BODY \in Nat /\ Stray \in Nat BY Sizes
<1>2. CASE found # {}
  <2>1. j = Min(found) BY <1>2, Zenon DEF SearchEnds
  <2>2. \A x \in found : x \in Nat /\ low <= x BY <1>1, SMT
  <2> HIDE DEF found
  <2>3. PICK x \in found : \A y \in found : x <= y
    BY <1>2, <2>2, LeastMember
  <2>4. Min(found) \in found BY <2>3, Zenon DEF Min
  <2> QED BY <2>1, <2>2, <2>4
<1>3. CASE found = {}
  <2>1. j \in (IF from > BODY THEN from ELSE BODY + 1) ..
               ((IF from > BODY THEN from ELSE BODY + 1) + Stray)
    BY <1>3, Zenon DEF SearchEnds
  <2> QED BY <1>1, <2>1, SMT
<1> QED BY <1>2, <1>3

(* Three fields of one to eight bytes in cr_all.                           *)
Fields(cr_all, a, b, c) ==
  /\ a \in Seq(Bytes) /\ b \in Seq(Bytes) /\ c \in Seq(Bytes)
  /\ Len(a) <= 8 /\ Len(b) <= 8 /\ Len(c) <= 8
  /\ Laid(cr_all, a, b, c)

(* What the searches meet in fields of A, B and C bytes: none of the bytes *)
(* of a field ends a search, nor does what is behind the last one.         *)
Stopping(cr_all, A, B, C) ==
  /\ A \in 0 .. 8 /\ B \in 0 .. 8 /\ C \in 0 .. 8
  /\ \A k \in 0 .. (A - 1) : cr_all[k] # SPACE
  /\ cr_all[A] = SPACE
  /\ \A k \in (A + 1) .. (A + B) : cr_all[k] # SPACE
  /\ cr_all[A + 1 + B] = SPACE
  /\ \A k \in (A + B + 2) .. (BODY - 1) : cr_all[k] # SPACE
  /\ \A k \in (A + B + 2) .. (A + B + C + 1) : cr_all[k] # CR
  /\ cr_all[A + B + 2 + C] = CR
  /\ \A k \in (A + B + C + 3) .. (BODY - 1) : cr_all[k] # CR

LEMMA Stops ==
  ASSUME NEW cr_all, NEW a, NEW b, NEW c, Fields(cr_all, a, b, c)
  PROVE  Stopping(cr_all, Len(a), Len(b), Len(c))
<1> DEFINE A == Len(a)
           B == Len(b)
           C == Len(c)
<1>1. A \in 0 .. 8 /\ B \in 0 .. 8 /\ C \in 0 .. 8 /\ BODY \in Nat
  <2>1. A \in Nat /\ B \in Nat /\ C \in Nat BY DEF Fields
  <2>2. BODY \in Nat BY Sizes
  <2>3. A <= 8 /\ B <= 8 /\ C <= 8 BY DEF Fields
  <2> HIDE DEF A, B, C
  <2> QED BY <2>1, <2>2, <2>3
<1>2. /\ SPACE \notin Bytes /\ CR \notin Bytes
      /\ SPACE \notin {LF, 0} /\ CR \notin {LF, 0} /\ SPACE # CR
  BY SMT DEF SPACE, CR, LF, Bytes
<1>3. /\ \A k \in 0 .. (A - 1) : cr_all[k] = a[k + 1]
      /\ cr_all[A] = SPACE
      /\ \A k \in 0 .. (B - 1) : cr_all[A + 1 + k] = b[k + 1]
      /\ cr_all[A + 1 + B] = SPACE
      /\ \A k \in 0 .. (C - 1) : cr_all[A + B + 2 + k] = c[k + 1]
      /\ cr_all[A + B + 2 + C] = CR
      /\ \A k \in (A + B + C + 3) .. (BODY - 1) : cr_all[k] \in {LF, 0}
  BY DEF Fields, Laid
<1>4. /\ \A k \in 1 .. A : a[k] \in Bytes
      /\ \A k \in 1 .. B : b[k] \in Bytes
      /\ \A k \in 1 .. C : c[k] \in Bytes
  BY DEF Fields
<1> HIDE DEF A, B, C
<1>5. ASSUME NEW k \in 0 .. (A - 1) PROVE cr_all[k] # SPACE
  <2>1. k + 1 \in 1 .. A BY <1>1, SMT
  <2> QED BY <2>1, <1>2, <1>3, <1>4
<1>6. ASSUME NEW k \in (A + 1) .. (A + B) PROVE cr_all[k] # SPACE
  <2>1. /\ k - (A + 1) \in 0 .. (B - 1) /\ (k - (A + 1)) + 1 \in 1 .. B
        /\ A + 1 + (k - (A + 1)) = k
    BY <1>1, SMT
  <2>2. cr_all[k] = b[(k - (A + 1)) + 1] BY <2>1, <1>3
  <2> QED BY <2>1, <2>2, <1>2, <1>4
<1>7. ASSUME NEW k \in (A + B + 2) .. (A + B + C + 1)
      PROVE  cr_all[k] # CR /\ cr_all[k] # SPACE
  <2>1. /\ k - (A + B + 2) \in 0 .. (C - 1)
        /\ (k - (A + B + 2)) + 1 \in 1 .. C
        /\ A + B + 2 + (k - (A + B + 2)) = k
    BY <1>1, SMT
  <2>2. cr_all[k] = c[(k - (A + B + 2)) + 1] BY <2>1, <1>3
  <2> QED BY <2>1, <2>2, <1>2, <1>4
<1>8. \A k \in (A + B + C + 3) .. (BODY - 1) :
        cr_all[k] # CR /\ cr_all[k] # SPACE
  BY <1>2, <1>3
<1>9. ASSUME NEW k \in (A + B + 2) .. (BODY - 1) PROVE cr_all[k] # SPACE
  <2>1. CASE k \in (A + B + 2) .. (A + B + C + 1) BY <2>1, <1>7
  <2>2. CASE k = A + B + 2 + C BY <2>2, <1>2, <1>3
  <2>3. CASE k \in (A + B + C + 3) .. (BODY - 1) BY <2>3, <1>8
  <2> QED BY <1>1, <2>1, <2>2, <2>3
<1> QED BY <1>1, <1>3, <1>5, <1>6, <1>7, <1>8, <1>9 DEF Stopping, A, B, C

(* Each loop finds the end of its field from any place in the field, ...   *)
LEMMA FirstFound ==
  ASSUME Fits, NEW cr_all, NEW A, NEW B, NEW C, Stopping(cr_all, A, B, C),
         D_cnt \in 0 .. A
  PROVE  SearchEnds(cr_all, D_cnt, SPACE) = {A}
<1>1. /\ A \in 0 .. 8 /\ BODY \in Nat /\ BODY >= 28
      /\ \A k \in 0 .. (A - 1) : cr_all[k] # SPACE
      /\ cr_all[A] = SPACE
  BY Sizes DEF Stopping, Fits
<1>2. /\ D_cnt \in Nat /\ A \in Nat /\ D_cnt <= A /\ A < BODY
      /\ \A k \in D_cnt .. (A - 1) : k \in 0 .. (A - 1)
  BY <1>1
<1> QED BY <1>1, <1>2, SearchFinds

LEMMA SecondFound ==
  ASSUME Fits, NEW cr_all, NEW A, NEW B, NEW C, Stopping(cr_all, A, B, C),
         E_cnt \in 0 .. B
  PROVE  SearchEnds(cr_all, A + 1 + E_cnt, SPACE) = {A + 1 + B}
<1> DEFINE from == A + 1 + E_cnt
           end == A + 1 + B
<1>1. /\ A \in 0 .. 8 /\ B \in 0 .. 8 /\ BODY \in Nat /\ BODY >= 28
      /\ \A k \in (A + 1) .. (A + B) : cr_all[k] # SPACE
      /\ cr_all[end] = SPACE
  BY Sizes DEF Stopping, Fits
<1>2. /\ from \in Nat /\ end \in Nat /\ from <= end /\ end < BODY
      /\ \A k \in from .. (end - 1) : k \in (A + 1) .. (A + B)
  BY <1>1
<1> HIDE DEF from, end
<1>3. SearchEnds(cr_all, from, SPACE) = {end} BY <1>1, <1>2, SearchFinds
<1> QED BY <1>3 DEF from, end

LEMMA ThirdFound ==
  ASSUME Fits, NEW cr_all, NEW A, NEW B, NEW C, Stopping(cr_all, A, B, C),
         T_cnt \in 0 .. C
  PROVE  SearchEnds(cr_all, (A + 1 + B) + 1 + T_cnt, CR) = {A + B + 2 + C}
<1> DEFINE from == (A + 1 + B) + 1 + T_cnt
           end == A + B + 2 + C
<1>1. /\ A \in 0 .. 8 /\ B \in 0 .. 8 /\ C \in 0 .. 8
      /\ BODY \in Nat /\ BODY >= 28
      /\ \A k \in (A + B + 2) .. (A + B + C + 1) : cr_all[k] # CR
      /\ cr_all[end] = CR
  BY Sizes DEF Stopping, Fits
<1>2. /\ from \in Nat /\ end \in Nat /\ from <= end /\ end < BODY
      /\ \A k \in from .. (end - 1) : k \in (A + B + 2) .. (A + B + C + 1)
  BY <1>1
<1> HIDE DEF from, end
<1>3. SearchEnds(cr_all, from, CR) = {end} BY <1>1, <1>2, SearchFinds
<1> QED BY <1>3 DEF from, end

(* ... so the three loops find the three fields.                           *)
LEMMA CountFinds ==
  ASSUME Fits, NEW cr_all, NEW A, NEW B, NEW C, Stopping(cr_all, A, B, C),
         D_cnt \in 0 .. A, E_cnt \in 0 .. B, T_cnt \in 0 .. C,
         Count(cr_all)
  PROVE  D_cnt' = A /\ E_cnt' = B /\ T_cnt' = C
<1>1. A \in 0 .. 8 /\ B \in 0 .. 8 /\ C \in 0 .. 8 BY DEF Stopping
<1>2. /\ SearchEnds(cr_all, D_cnt, SPACE) = {A}
      /\ SearchEnds(cr_all, A + 1 + E_cnt, SPACE) = {A + 1 + B}
      /\ SearchEnds(cr_all, (A + 1 + B) + 1 + T_cnt, CR) = {A + B + 2 + C}
  BY FirstFound, SecondFound, ThirdFound
<1>3. \E d \in {A} : \E e \in SearchEnds(cr_all, d + 1 + E_cnt, SPACE) :
      \E t \in SearchEnds(cr_all, e + 1 + T_cnt, CR) :
        D_cnt' = d /\ E_cnt' = e - (d + 1) /\ T_cnt' = t - (e + 1)
  BY <1>2, Zenon DEF Count
<1>4. \E e \in {A + 1 + B} : \E t \in SearchEnds(cr_all, e + 1 + T_cnt, CR) :
         D_cnt' = A /\ E_cnt' = e - (A + 1) /\ T_cnt' = t - (e + 1)
  BY <1>2, <1>3, Zenon
<1>5. \E t \in {A + B + 2 + C} :
        /\ D_cnt' = A /\ E_cnt' = (A + 1 + B) - (A + 1)
        /\ T_cnt' = t - ((A + 1 + B) + 1)
  BY <1>2, <1>4, Zenon
<1> QED BY <1>1, <1>5, SMT

-----------------------------------------------------------------------------
(* The conversion undoes the format.                                       *)
LEMMA FieldIs ==
  ASSUME NEW cr_all, NEW first \in Nat, NEW w \in Seq(Bytes), Len(w) <= 8,
         first + Len(w) <= BODY,
         \A k \in 0 .. (Len(w) - 1) : cr_all[first + k] = w[k + 1]
  PROVE  \A k \in 0 .. (Len(w) - 1) : Field(cr_all, first, Len(w))[k] = w[k + 1]
<1> SUFFICES ASSUME NEW k \in 0 .. (Len(w) - 1)
             PROVE  Field(cr_all, first, Len(w))[k] = w[k + 1]
  OBVIOUS
<1>1. Len(w) \in Nat OBVIOUS
<1>2. k \in 0 .. 7 /\ k < Len(w) /\ first + k < BODY BY <1>1, Sizes, SMT
<1>3. Field(cr_all, first, Len(w))[k] = cr_all[first + k] BY <1>2 DEF Field
<1> QED BY <1>3

(* Fields of at most eight bytes leave INFO and all behind it alone, ...   *)
LEMMA CopiesStay ==
  ASSUME NEW d \in 0 .. 8, NEW e \in 0 .. 8, NEW t \in 0 .. 8,
         NEW place \in Nat, place >= 24
  PROVE  ~Reaches(place, d, e, t)
<1>1. At.cr_d = 0 /\ At.cr_e = 8 /\ At.cr_t = 16 BY DEF At
<1> QED BY <1>1, SMT DEF Reaches

(* ... and inside cr_all each is converted from its own bytes.             *)
LEMMA ConvertedIs ==
  ASSUME NEW cr_all, NEW first \in Nat, NEW count \in Nat, NEW old,
         first + count <= BODY, NEW number,
         number \in Converted(cr_all, first, count, {old})
  PROVE  number = Number(Field(cr_all, first, count), count, old)
<1>1. ~(first + count > BODY) BY Sizes, SMT
<1>2. number \in {Number(Field(cr_all, first, count), count, o) : o \in {old}}
  BY <1>1, Zenon DEF Converted
<1> QED BY <1>2, Zenon

LEMMA NumberOfField ==
  ASSUME NEW f, NEW s \in 0 .. 1, NEW w \in 1 .. 3, NEW old,
         s = (IF f[0] = MINUS THEN 1 ELSE 0),
         NEW integer \in Int, NEW h \in Int, NEW t \in Int, NEW u \in Int,
         integer = (CASE w = 1 -> f[s] - ZERO
                      [] w = 2 -> (f[s] - ZERO) * 10 + (f[s + 1] - ZERO)
                      [] w = 3 -> (f[s] - ZERO) * 100 + (f[s + 1] - ZERO) * 10
                                  + (f[s + 2] - ZERO)),
         h = f[s + w + 1] - ZERO, t = f[s + w + 2] - ZERO, u = f[s + w + 3] - ZERO
  PROVE  Number(f, s + w + 4, old) =
           IF s = 1 THEN -(integer * 1000 + (h * 100 + t * 10 + u))
           ELSE integer * 1000 + (h * 100 + t * 10 + u)
<1>1. s + w + 4 - s - 4 = w BY SMT
<1>2. /\ s + 0 = s /\ s + (w + 1) = s + w + 1 /\ s + (w + 2) = s + w + 2
      /\ s + (w + 3) = s + w + 3
  BY SMT
<1> QED BY <1>1, <1>2, SMT DEF Number
LEMMA NumberIs ==
  ASSUME NEW v \in Numbers, NEW f, NEW old,
         \A k \in 0 .. (Width(v) - 1) : f[k] = Format(v)[k + 1]
  PROVE  Number(f, Width(v), old) = v
<1> DEFINE m == Magnitude(v)
           F == Format(v)
           s == Signs(v)
           w == Whole(v)
           x1 == Worth(Places(m), 1)
           x2 == Worth(Places(m), 2)
           x3 == Worth(Places(m), 3)
           x4 == Worth(Places(m), 4)
           x5 == Worth(Places(m), 5)
           x6 == Worth(Places(m), 6)
<1>1. m \in Magnitudes /\ v = (IF v < 0 THEN -m ELSE m) BY MagnitudeIs
<1>2. /\ Width(v) = s + w + 4
      /\ s = 1 => F[1] = MINUS
      /\ w = 3 => F[s + 1] = Digit(m, 100000) /\ F[s + 2] = Digit(m, 10000)
      /\ w = 2 => F[s + 1] = Digit(m, 10000)
      /\ F[s + w] = Digit(m, 1000)
      /\ F[s + w + 2] = Digit(m, 100)
      /\ F[s + w + 3] = Digit(m, 10)
      /\ F[s + w + 4] = Digit(m, 1)
  BY FormatIs, WidthIs
<1>3. s \in 0 .. 1 /\ w \in 1 .. 3 /\ (s = 1 <=> v < 0)
  BY SMT DEF Signs, Whole, Numbers
<1>4. /\ w # 3 => m < 100000
      /\ w = 1 => m < 10000
  BY <1>1, SMT DEF Whole, Magnitudes
<1> HIDE DEF m, F, s, w
<1>5. /\ Digit(m, 100000) - ZERO = x1 /\ Digit(m, 10000) - ZERO = x2
      /\ Digit(m, 1000) - ZERO = x3 /\ Digit(m, 100) - ZERO = x4
      /\ Digit(m, 10) - ZERO = x5 /\ Digit(m, 1) - ZERO = x6
  BY SMT DEF Places, Worth
<1>6. /\ x1 \in 0 .. 9 /\ x2 \in 0 .. 9 /\ x3 \in 0 .. 9
      /\ x4 \in 0 .. 9 /\ x5 \in 0 .. 9 /\ x6 \in 0 .. 9
  <2>1. \A k \in 1 .. 6 : Places(m)[k] \in ZERO .. (ZERO + 9)
    BY <1>1, SixDigits, SMT
  <2>2. \A k \in 1 .. 6 : Places(m)[k] - ZERO \in 0 .. 9
    BY <2>1, SMT DEF ZERO
  <2> QED BY <2>2, SMT DEF Worth
<1>7. /\ m = 100000 * x1 + 10000 * x2 + 1000 * x3 + 100 * x4 + 10 * x5 + x6
      /\ m < 100000 => x1 = 0
      /\ m < 10000 => x2 = 0
  BY <1>1, SixDigits, SMT
<1>8. /\ w = 3 => f[s] = Digit(m, 100000) /\ f[s + 1] = Digit(m, 10000)
                  /\ f[s + 2] = Digit(m, 1000)
      /\ w = 2 => f[s] = Digit(m, 10000) /\ f[s + 1] = Digit(m, 1000)
      /\ w = 1 => f[s] = Digit(m, 1000)
      /\ f[s + w + 1] = Digit(m, 100)
      /\ f[s + w + 2] = Digit(m, 10)
      /\ f[s + w + 3] = Digit(m, 1)
  <2>1. \A k \in 0 .. (s + w + 3) : f[k] = F[k + 1]
    <3>1. Width(v) - 1 = s + w + 3 BY <1>2, <1>3, SMT
    <3> QED BY <3>1 DEF F
  <2>2. /\ f[s] = F[s + 1]
        /\ w = 3 => f[s + 1] = F[s + 2] /\ f[s + 2] = F[s + w]
        /\ w = 2 => f[s + 1] = F[s + w]
        /\ w = 1 => f[s] = F[s + w]
        /\ f[s + w + 1] = F[s + w + 2] /\ f[s + w + 2] = F[s + w + 3]
        /\ f[s + w + 3] = F[s + w + 4]
    <3> HIDE DEF F
    <3>1. \A k \in Int : 0 <= k /\ k <= s + w + 3 => f[k] = F[k + 1]
      BY <2>1, <1>3
    <3>2. /\ f[s] = F[s + 1]
          /\ f[s + w + 1] = F[(s + w + 1) + 1]
          /\ f[s + w + 2] = F[(s + w + 2) + 1]
          /\ f[s + w + 3] = F[(s + w + 3) + 1]
          /\ f[s + 1] = F[(s + 1) + 1]
          /\ f[s + 2] = F[(s + 2) + 1]
      BY <3>1, <1>3, SMT
    <3>3. /\ (s + w + 1) + 1 = s + w + 2 /\ (s + w + 2) + 1 = s + w + 3
          /\ (s + w + 3) + 1 = s + w + 4 /\ (s + 1) + 1 = s + 2
          /\ (s + 2) + 1 = s + 3
          /\ w = 3 => s + 3 = s + w
          /\ w = 2 => s + 2 = s + w
          /\ w = 1 => s + 1 = s + w
      BY <1>3, SMT
    <3> QED BY <3>2, <3>3, Zenon
  <2> HIDE DEF F
  <2> QED BY <1>2, <2>2, SMT
<1>9. s = (IF f[0] = MINUS THEN 1 ELSE 0)
  <2>1. CASE s = 1
    <3>1. f[0] = F[0 + 1] BY <1>2, <1>3, SMT DEF F
    <3> QED BY <2>1, <3>1, <1>2
  <2>2. CASE s = 0
    <3>1. f[s] = f[0] BY <2>2
    <3>2. /\ Digit(m, 100000) # MINUS /\ Digit(m, 10000) # MINUS
          /\ Digit(m, 1000) # MINUS
      BY <1>5, <1>6, SMT DEF ZERO, MINUS, Digit
    <3>3. f[s] # MINUS
      <4>1. w = 1 \/ w = 2 \/ w = 3 BY <1>3, SMT
      <4> QED BY <4>1, <1>8, <3>2, SMT
    <3> QED BY <2>2, <3>1, <3>3
  <2> QED BY <1>3, <2>1, <2>2, SMT
<1> DEFINE integer == CASE w = 1 -> f[s] - ZERO
                        [] w = 2 -> (f[s] - ZERO) * 10 + (f[s + 1] - ZERO)
                        [] w = 3 -> (f[s] - ZERO) * 100 + (f[s + 1] - ZERO) * 10
                                    + (f[s + 2] - ZERO)
<1>10. integer = x1 * 100 + x2 * 10 + x3 /\ integer \in Int
  <2> HIDE DEF x1, x2, x3, x4, x5, x6
  <2>1. CASE w = 1
    <3>1. integer = x3 BY <2>1, <1>5, <1>8, SMT
    <3>2. x1 = 0 /\ x2 = 0 BY <2>1, <1>4, <1>7, SMT
    <3> HIDE DEF integer
    <3> QED BY <3>1, <3>2, <1>6, SMT
  <2>2. CASE w = 2
    <3>1. integer = x2 * 10 + x3 BY <2>2, <1>5, <1>8, SMT
    <3>2. x1 = 0 BY <2>2, <1>4, <1>7, SMT
    <3> HIDE DEF integer
    <3> QED BY <3>1, <3>2, <1>6, SMT
  <2>3. CASE w = 3
    <3>1. integer = x1 * 100 + x2 * 10 + x3 BY <2>3, <1>5, <1>8, SMT
    <3> HIDE DEF integer
    <3> QED BY <3>1, <1>6, SMT
  <2>4. w = 1 \/ w = 2 \/ w = 3 BY <1>3, SMT
  <2> QED BY <2>1, <2>2, <2>3, <2>4
<1>11. /\ x4 = f[s + w + 1] - ZERO /\ x5 = f[s + w + 2] - ZERO
       /\ x6 = f[s + w + 3] - ZERO
       /\ x4 \in Int /\ x5 \in Int /\ x6 \in Int
  BY <1>5, <1>6, <1>8, SMT
<1>12. Number(f, s + w + 4, old) =
         IF s = 1 THEN -(integer * 1000 + (x4 * 100 + x5 * 10 + x6))
         ELSE integer * 1000 + (x4 * 100 + x5 * 10 + x6)
  <2> HIDE DEF x4, x5, x6
  <2> QED BY <1>3, <1>9, <1>10, <1>11, NumberOfField
<1> HIDE DEF x1, x2, x3, x4, x5, x6, integer
<1>13. integer * 1000 + (x4 * 100 + x5 * 10 + x6) = m
  BY <1>6, <1>7, <1>10, SMT
<1>14. Number(f, s + w + 4, old) = v
  BY <1>1, <1>3, <1>12, <1>13, SMT DEF Magnitudes, Numbers
<1> QED BY <1>2, <1>14
-----------------------------------------------------------------------------
(* A message no field of which is shorter than the counter it meets.       *)
Covers(d, e, t) ==
  /\ D_cnt \in 0 .. Width(d) /\ E_cnt \in 0 .. Width(e)
  /\ T_cnt \in 0 .. Width(t)

LEMMA MessageIsRight ==
  ASSUME Fits, NEW d \in Numbers, NEW e \in Numbers, NEW t \in Numbers,
         Covers(d, e, t), sent' = <<d, e, t>>,
         Count(Fill(Body(d, e, t))), Convert(Fill(Body(d, e, t)))
  PROVE  /\ D_cnt' = Width(d) /\ E_cnt' = Width(e) /\ T_cnt' = Width(t)
         /\ numbers' = sent'
<1> DEFINE cr_all == Fill(Body(d, e, t))
           a == Format(d)
           b == Format(e)
           c == Format(t)
<1>1. /\ a \in Seq(Bytes) /\ b \in Seq(Bytes) /\ c \in Seq(Bytes)
      /\ Len(a) = Width(d) /\ Len(b) = Width(e) /\ Len(c) = Width(t)
      /\ Width(d) \in 5 .. 8 /\ Width(e) \in 5 .. 8 /\ Width(t) \in 5 .. 8
  BY WidthIs
<1>2. Laid(cr_all, a, b, c) BY BodyLaid
<1>3. Count(cr_all) /\ Convert(cr_all) OBVIOUS
<1> HIDE DEF cr_all, a, b, c
<1>4. D_cnt' = Len(a) /\ E_cnt' = Len(b) /\ T_cnt' = Len(c)
  <2>1. /\ Len(a) <= 8 /\ Len(b) <= 8 /\ Len(c) <= 8
        /\ D_cnt \in 0 .. Len(a) /\ E_cnt \in 0 .. Len(b) /\ T_cnt \in 0 .. Len(c)
    BY <1>1 DEF Covers
  <2>2. Fields(cr_all, a, b, c) BY <1>1, <1>2, <2>1 DEF Fields
  <2>3. Stopping(cr_all, Len(a), Len(b), Len(c)) BY <2>2, Stops
  <2> QED BY <1>3, <2>1, <2>3, CountFinds
<1>5. /\ DIST' = Number(Field(cr_all, 0, Len(a)), Len(a), DIST)
      /\ ELEV_ANG' = Number(Field(cr_all, Len(a) + 1, Len(b)), Len(b), ELEV_ANG)
      /\ TILT_ANG' =
           Number(Field(cr_all, Len(a) + Len(b) + 2, Len(c)), Len(c), TILT_ANG)
  <2>1. /\ Len(a) \in 0 .. 8 /\ Len(b) \in 0 .. 8 /\ Len(c) \in 0 .. 8
        /\ 0 \in Nat /\ Len(a) + 1 \in Nat /\ Len(a) + Len(b) + 2 \in Nat
        /\ Len(a) \in Nat /\ Len(b) \in Nat /\ Len(c) \in Nat
    BY <1>1
  <2>2. /\ 0 + Len(a) <= BODY /\ Len(a) + 1 + Len(b) <= BODY
        /\ Len(a) + Len(b) + 2 + Len(c) <= BODY
    <3>1. BODY \in Nat /\ BODY >= 28 BY Sizes DEF Fits
    <3>2. \A x, y, z \in 0 .. 8 :
            0 + x <= 28 /\ x + 1 + y <= 28 /\ x + y + 2 + z <= 28
      OBVIOUS
    <3>3. \A x \in Int : x <= 28 => x <= BODY BY <3>1
    <3>4. /\ 0 + Len(a) \in Int /\ Len(a) + 1 + Len(b) \in Int
          /\ Len(a) + Len(b) + 2 + Len(c) \in Int
      BY <2>1
    <3> QED BY <2>1, <3>2, <3>3, <3>4
  <2>3. \A place \in Nat : place >= 24 => ~Reaches(place, D_cnt', E_cnt', T_cnt')
    BY <1>4, <2>1, CopiesStay
  <2>4. /\ At.DIST \in Nat /\ At.DIST >= 24
        /\ At.ELEV_ANG \in Nat /\ At.ELEV_ANG >= 24
        /\ At.TILT_ANG \in Nat /\ At.TILT_ANG >= 24
    BY DEF At
  <2>5. /\ Kept(DIST, At.DIST) = {DIST}
        /\ Kept(ELEV_ANG, At.ELEV_ANG) = {ELEV_ANG}
        /\ Kept(TILT_ANG, At.TILT_ANG) = {TILT_ANG}
    BY <2>3, <2>4, Zenon DEF Kept
  <2>6. /\ DIST' \in Converted(cr_all, 0, Len(a), {DIST})
        /\ ELEV_ANG' \in Converted(cr_all, Len(a) + 1, Len(b), {ELEV_ANG})
        /\ TILT_ANG' \in
             Converted(cr_all, Len(a) + Len(b) + 2, Len(c), {TILT_ANG})
    BY <1>3, <1>4, <2>5, Zenon DEF Convert
  <2> QED BY <2>1, <2>2, <2>6, ConvertedIs
<1>6. /\ Len(a) \in 5 .. 8 /\ Len(b) \in 5 .. 8 /\ Len(c) \in 5 .. 8
      /\ BODY \in Nat /\ BODY >= 28
  BY <1>1, Sizes DEF Fits
<1>7. DIST' = d
  <2>1. \A k \in 0 .. (Len(a) - 1) : cr_all[0 + k] = a[k + 1]
    <3>1. \A k \in 0 .. (Len(a) - 1) : cr_all[k] = a[k + 1] BY <1>2 DEF Laid
    <3>2. \A k \in 0 .. (Len(a) - 1) : 0 + k = k BY <1>6
    <3> QED BY <3>1, <3>2
  <2>2. a \in Seq(Bytes) /\ Len(a) <= 8 /\ 0 + Len(a) <= BODY /\ 0 \in Nat
    BY <1>1, <1>6
  <2>3. \A k \in 0 .. (Len(a) - 1) : Field(cr_all, 0, Len(a))[k] = a[k + 1]
    BY <2>1, <2>2, FieldIs
  <2>4. \A k \in 0 .. (Width(d) - 1) : Field(cr_all, 0, Len(a))[k] = Format(d)[k + 1]
    BY <2>3, <1>1 DEF a
  <2>5. Number(Field(cr_all, 0, Len(a)), Width(d), DIST) = d BY <2>4, NumberIs
  <2> QED BY <1>1, <1>5, <2>5
<1>8. ELEV_ANG' = e
  <2>1. \A k \in 0 .. (Len(b) - 1) : cr_all[Len(a) + 1 + k] = b[k + 1]
    BY <1>2 DEF Laid
  <2>2. /\ b \in Seq(Bytes) /\ Len(b) <= 8 /\ Len(a) + 1 + Len(b) <= BODY
        /\ Len(a) + 1 \in Nat
    BY <1>1, <1>6
  <2>3. \A k \in 0 .. (Len(b) - 1) : Field(cr_all, Len(a) + 1, Len(b))[k] = b[k + 1]
    BY <2>1, <2>2, FieldIs
  <2>4. \A k \in 0 .. (Width(e) - 1) :
          Field(cr_all, Len(a) + 1, Len(b))[k] = Format(e)[k + 1]
    BY <2>3, <1>1 DEF b
  <2>5. Number(Field(cr_all, Len(a) + 1, Len(b)), Width(e), ELEV_ANG) = e
    BY <2>4, NumberIs
  <2> QED BY <1>1, <1>5, <2>5
<1>9. TILT_ANG' = t
  <2>1. \A k \in 0 .. (Len(c) - 1) : cr_all[Len(a) + Len(b) + 2 + k] = c[k + 1]
    BY <1>2 DEF Laid
  <2>2. /\ c \in Seq(Bytes) /\ Len(c) <= 8 /\ Len(a) + Len(b) + 2 + Len(c) <= BODY
        /\ Len(a) + Len(b) + 2 \in Nat
    <3>1. \A x, y, z \in 5 .. 8 :
            z <= 8 /\ x + y + 2 + z <= 28 /\ x + y + 2 \in Nat
      OBVIOUS
    <3>2. \A x \in Int : x <= 28 => x <= BODY BY <1>6
    <3>3. Len(a) + Len(b) + 2 + Len(c) \in Int BY <1>6
    <3> QED BY <1>1, <1>6, <3>1, <3>2, <3>3
  <2>3. \A k \in 0 .. (Len(c) - 1) :
          Field(cr_all, Len(a) + Len(b) + 2, Len(c))[k] = c[k + 1]
    BY <2>1, <2>2, FieldIs
  <2>4. \A k \in 0 .. (Width(t) - 1) :
          Field(cr_all, Len(a) + Len(b) + 2, Len(c))[k] = Format(t)[k + 1]
    BY <2>3, <1>1 DEF c
  <2>5. Number(Field(cr_all, Len(a) + Len(b) + 2, Len(c)), Width(t), TILT_ANG) = t
    BY <2>4, NumberIs
  <2> QED BY <1>1, <1>5, <2>5
<1> QED BY <1>1, <1>4, <1>7, <1>8, <1>9 DEF numbers

-----------------------------------------------------------------------------
(* A counter never gets smaller, whatever the message.                     *)
CountsOK == D_cnt \in Nat /\ E_cnt \in Nat /\ T_cnt \in Nat

LEMMA CountsGrow ==
  ASSUME CountsOK, NEW cr_all, Count(cr_all)
  PROVE  CountsOK' /\ D_cnt' >= D_cnt /\ E_cnt' >= E_cnt /\ T_cnt' >= T_cnt
<1>1. PICK d \in SearchEnds(cr_all, D_cnt, SPACE) :
        \E e \in SearchEnds(cr_all, d + 1 + E_cnt, SPACE) :
        \E t \in SearchEnds(cr_all, e + 1 + T_cnt, CR) :
          D_cnt' = d /\ E_cnt' = e - (d + 1) /\ T_cnt' = t - (e + 1)
  BY Zenon DEF Count
<1>2. PICK e \in SearchEnds(cr_all, d + 1 + E_cnt, SPACE) :
        \E t \in SearchEnds(cr_all, e + 1 + T_cnt, CR) :
          D_cnt' = d /\ E_cnt' = e - (d + 1) /\ T_cnt' = t - (e + 1)
  BY <1>1, Zenon
<1>3. PICK t \in SearchEnds(cr_all, e + 1 + T_cnt, CR) :
          D_cnt' = d /\ E_cnt' = e - (d + 1) /\ T_cnt' = t - (e + 1)
  BY <1>2, Zenon
<1>4. d \in Nat /\ D_cnt <= d BY SearchForward DEF CountsOK
<1>5. d + 1 + E_cnt \in Nat BY <1>4 DEF CountsOK
<1>6. e \in Nat /\ d + 1 + E_cnt <= e BY <1>5, SearchForward
<1>7. e + 1 + T_cnt \in Nat BY <1>6 DEF CountsOK
<1>8. t \in Nat /\ e + 1 + T_cnt <= t BY <1>7, SearchForward
<1> QED BY <1>3, <1>4, <1>6, <1>8, SMT DEF CountsOK

LEMMA CountsAreNatural == Spec => []CountsOK
<1>1. Init => CountsOK BY DEF Init, CountsOK
<1>2. CountsOK /\ [Next]_vars => CountsOK'
  <2> SUFFICES ASSUME CountsOK, [Next]_vars PROVE CountsOK' OBVIOUS
  <2>1. CASE UNCHANGED vars BY <2>1 DEF CountsOK, vars, counts
  <2>2. CASE Next
    <3>1. PICK d, e, t \in Thousandths : Message(d, e, t) BY <2>2 DEF Next
    <3>2. Count(Fill(Body(d, e, t))) BY <3>1 DEF Message
    <3> QED BY <3>2, CountsGrow
  <2> QED BY <2>1, <2>2
<1> QED BY <1>1, <1>2, PTL DEF Spec

(* A message none of whose fields is shorter than the counter main.c has   *)
(* left from the messages before (it never resets them) is decoded right.  *)
(* Nothing is assumed about the lengths the meter sends.                   *)
THEOREM WideMessagesAreRight ==
  ASSUME Fits
  PROVE  Spec => [][/\ D_cnt <= Width(sent'[1])
                    /\ E_cnt <= Width(sent'[2])
                    /\ T_cnt <= Width(sent'[3])
                    => numbers' = sent']_vars
<1> DEFINE Wide == /\ D_cnt <= Width(sent'[1])
                   /\ E_cnt <= Width(sent'[2])
                   /\ T_cnt <= Width(sent'[3])
<1>1. ASSUME CountsOK, Next, Wide PROVE numbers' = sent'
  <2>1. PICK d, e, t \in Thousandths : Message(d, e, t) BY <1>1 DEF Next
  <2>2. /\ sent' = <<d, e, t>>
        /\ Count(Fill(Body(d, e, t))) /\ Convert(Fill(Body(d, e, t)))
    BY <2>1 DEF Message
  <2>3. d \in Numbers /\ e \in Numbers /\ t \in Numbers BY SentAreNumbers
  <2>4. D_cnt <= Width(d) /\ E_cnt <= Width(e) /\ T_cnt <= Width(t)
    BY <1>1, <2>2
  <2>5. Width(d) \in 5 .. 8 /\ Width(e) \in 5 .. 8 /\ Width(t) \in 5 .. 8
    BY <2>3, WidthIs
  <2>6. Covers(d, e, t) BY <1>1, <2>4, <2>5 DEF CountsOK, Covers
  <2> QED BY <2>2, <2>3, <2>6, MessageIsRight
<1>2. CountsOK /\ [Next]_vars => [Wide => numbers' = sent']_vars
  BY <1>1
<1> QED BY <1>2, CountsAreNatural, PTL DEF Spec

-----------------------------------------------------------------------------
(* A field shorter than its counter: the search passes the end of it.      *)
LEMMA ShortFieldPassed ==
  ASSUME Fits, CountsOK, NEW cr_all, NEW A, NEW B, NEW C,
         Stopping(cr_all, A, B, C), A >= 5, B >= 5, Count(cr_all),
         ~(D_cnt <= A /\ E_cnt <= B /\ T_cnt <= C)
  PROVE  D_cnt' > 8 \/ E_cnt' > 8 \/ T_cnt' > 8
<1>1. PICK d \in SearchEnds(cr_all, D_cnt, SPACE) :
        \E e \in SearchEnds(cr_all, d + 1 + E_cnt, SPACE) :
        \E t \in SearchEnds(cr_all, e + 1 + T_cnt, CR) :
          D_cnt' = d /\ E_cnt' = e - (d + 1) /\ T_cnt' = t - (e + 1)
  BY Zenon DEF Count
<1>2. PICK e \in SearchEnds(cr_all, d + 1 + E_cnt, SPACE) :
        \E t \in SearchEnds(cr_all, e + 1 + T_cnt, CR) :
          D_cnt' = d /\ E_cnt' = e - (d + 1) /\ T_cnt' = t - (e + 1)
  BY <1>1, Zenon
<1>3. PICK t \in SearchEnds(cr_all, e + 1 + T_cnt, CR) :
          D_cnt' = d /\ E_cnt' = e - (d + 1) /\ T_cnt' = t - (e + 1)
  BY <1>2, Zenon
<1>4. /\ A \in 0 .. 8 /\ B \in 0 .. 8 /\ C \in 0 .. 8
      /\ BODY \in Nat /\ BODY >= 28
      /\ D_cnt \in Nat /\ E_cnt \in Nat /\ T_cnt \in Nat
  BY Sizes DEF Stopping, Fits, CountsOK
<1>5. CASE ~(D_cnt <= A)
  <2>1. ASSUME NEW k \in D_cnt .. (BODY - 1), k < A + 1 + B
        PROVE  cr_all[k] # SPACE
    <3>1. k \in (A + 1) .. (A + B) BY <1>4, <1>5, <2>1
    <3> QED BY <3>1 DEF Stopping
  <2> DEFINE low == A + 1 + B
  <2>2. low \in Nat /\ low <= BODY /\ low > 8 BY <1>4
  <2>3. \A k \in D_cnt .. (BODY - 1) : k < low => cr_all[k] # SPACE BY <2>1
  <2> HIDE DEF low
  <2>4. d \in Nat /\ low <= d BY <1>4, <2>2, <2>3, SearchPasses, SearchForward
  <2> QED BY <1>3, <2>2, <2>4
<1>6. CASE D_cnt <= A /\ ~(E_cnt <= B)
  <2> DEFINE from == A + 1 + E_cnt
  <2>1. d = A
    <3>1. D_cnt \in 0 .. A BY <1>4, <1>6
    <3> QED BY <1>1, <3>1, FirstFound
  <2>2. from \in Nat BY <1>4
  <2>3. \A k \in from .. (BODY - 1) : k \in (A + B + 2) .. (BODY - 1)
    BY <1>4, <1>6
  <2>4. \A k \in from .. (BODY - 1) : cr_all[k] # SPACE
    BY <2>3 DEF Stopping
  <2>5. e \in SearchEnds(cr_all, from, SPACE) BY <1>2, <2>1
  <2> HIDE DEF from
  <2>6. e \in Nat /\ BODY <= e
    BY <1>4, <2>2, <2>4, <2>5, SearchPasses, SearchForward
  <2> QED BY <1>3, <1>4, <2>1, <2>6
<1>7. CASE D_cnt <= A /\ E_cnt <= B /\ ~(T_cnt <= C)
  <2> DEFINE from == (A + 1 + B) + 1 + T_cnt
  <2>1. d = A
    <3>1. D_cnt \in 0 .. A BY <1>4, <1>7
    <3> QED BY <1>1, <3>1, FirstFound
  <2>2. e = A + 1 + B
    <3>1. E_cnt \in 0 .. B BY <1>4, <1>7
    <3> QED BY <1>2, <2>1, <3>1, SecondFound
  <2>3. from \in Nat BY <1>4
  <2>4. \A k \in from .. (BODY - 1) : k \in (A + B + C + 3) .. (BODY - 1)
    BY <1>4, <1>7
  <2>5. \A k \in from .. (BODY - 1) : cr_all[k] # CR
    BY <2>4 DEF Stopping
  <2>6. t \in SearchEnds(cr_all, from, CR) BY <1>3, <2>2
  <2> HIDE DEF from
  <2>7. t \in Nat /\ BODY <= t
    BY <1>4, <2>3, <2>5, <2>6, SearchPasses, SearchForward
  <2> QED BY <1>3, <1>4, <2>2, <2>7
<1> QED BY <1>5, <1>6, <1>7

(* A message with a field shorter than its counter makes a search pass the *)
(* end of a field, and one of the copies of main.c:219-232 then writes     *)
(* behind its array of eight bytes.                                        *)
THEOREM ShortFieldsArePassed ==
  ASSUME Fits
  PROVE  Spec => [][~ /\ D_cnt <= Width(sent'[1])
                      /\ E_cnt <= Width(sent'[2])
                      /\ T_cnt <= Width(sent'[3])
                    => D_cnt' > 8 \/ E_cnt' > 8 \/ T_cnt' > 8]_vars
<1> DEFINE Wide == /\ D_cnt <= Width(sent'[1])
                   /\ E_cnt <= Width(sent'[2])
                   /\ T_cnt <= Width(sent'[3])
           Long == D_cnt' > 8 \/ E_cnt' > 8 \/ T_cnt' > 8
<1>1. ASSUME CountsOK, Next, ~Wide PROVE Long
  <2>1. PICK d, e, t \in Thousandths : Message(d, e, t) BY <1>1 DEF Next
  <2>2. sent' = <<d, e, t>> /\ Count(Fill(Body(d, e, t))) BY <2>1 DEF Message
  <2>3. d \in Numbers /\ e \in Numbers /\ t \in Numbers BY SentAreNumbers
  <2>4. ~(D_cnt <= Width(d) /\ E_cnt <= Width(e) /\ T_cnt <= Width(t))
    BY <1>1, <2>2
  <2>5. /\ Width(d) \in 5 .. 8 /\ Width(e) \in 5 .. 8 /\ Width(t) \in 5 .. 8
        /\ Format(d) \in Seq(Bytes) /\ Len(Format(d)) = Width(d)
        /\ Format(e) \in Seq(Bytes) /\ Len(Format(e)) = Width(e)
        /\ Format(t) \in Seq(Bytes) /\ Len(Format(t)) = Width(t)
    BY <2>3, WidthIs
  <2>6. Fields(Fill(Body(d, e, t)), Format(d), Format(e), Format(t))
    BY <2>3, <2>5, BodyLaid DEF Fields
  <2>7. Stopping(Fill(Body(d, e, t)), Width(d), Width(e), Width(t))
    BY <2>5, <2>6, Stops
  <2>8. Width(d) >= 5 /\ Width(e) >= 5 BY <2>5
  <2> QED BY <1>1, <2>2, <2>4, <2>7, <2>8, ShortFieldPassed
<1>2. CountsOK /\ [Next]_vars => [~Wide => Long]_vars BY <1>1
<1> QED BY <1>2, CountsAreNatural, PTL DEF Spec

-----------------------------------------------------------------------------
(* With a meter whose fields never get shorter the counters are the        *)
(* lengths of the last message, or still 0, and the numbers are right.     *)
DecodeInv ==
  \E d, e, t \in Numbers :
    sent = <<d, e, t>> /\ Covers(d, e, t) /\ numbers = sent

LEMMA DecodeInvariant ==
  ASSUME Fits, WIDENING
  PROVE  Spec => []DecodeInv
<1>1. Init => DecodeInv
  <2> SUFFICES ASSUME Init PROVE DecodeInv OBVIOUS
  <2>1. sent = <<0, 0, 0>> /\ numbers = sent BY DEF Init, numbers
  <2>2. Covers(0, 0, 0) BY SentAreNumbers, WidthIs DEF Init, Covers
  <2> QED BY <2>1, <2>2, SentAreNumbers DEF DecodeInv
<1>2. DecodeInv /\ [Next]_vars => DecodeInv'
  <2> SUFFICES ASSUME DecodeInv, [Next]_vars PROVE DecodeInv' OBVIOUS
  <2>1. CASE UNCHANGED vars
    BY <2>1 DEF DecodeInv, Covers, vars, counts, numbers
  <2>2. CASE Next
    <3>1. PICK d, e, t \in Thousandths : Message(d, e, t) BY <2>2 DEF Next
    <3>2. PICK d0, e0, t0 \in Numbers :
            sent = <<d0, e0, t0>> /\ Covers(d0, e0, t0)
      BY DEF DecodeInv
    <3>3. /\ sent' = <<d, e, t>>
          /\ Count(Fill(Body(d, e, t))) /\ Convert(Fill(Body(d, e, t)))
          /\ Width(d) >= Width(sent[1]) /\ Width(e) >= Width(sent[2])
          /\ Width(t) >= Width(sent[3])
      BY <3>1 DEF Message
    <3>4. d \in Numbers /\ e \in Numbers /\ t \in Numbers BY SentAreNumbers
    <3>5. /\ Width(d) >= Width(d0) /\ Width(e) >= Width(e0)
          /\ Width(t) >= Width(t0)
      BY <3>2, <3>3
    <3>6. /\ Width(d) \in 5 .. 8 /\ Width(e) \in 5 .. 8 /\ Width(t) \in 5 .. 8
          /\ Width(d0) \in 5 .. 8 /\ Width(e0) \in 5 .. 8 /\ Width(t0) \in 5 .. 8
      BY <3>2, <3>4, WidthIs
    <3>7. Covers(d, e, t) BY <3>2, <3>5, <3>6 DEF Covers
    <3>8. /\ D_cnt' = Width(d) /\ E_cnt' = Width(e) /\ T_cnt' = Width(t)
          /\ numbers' = sent'
      BY <3>3, <3>4, <3>7, MessageIsRight
    <3>9. Covers(d, e, t)'
      <4>1. Width(d)' = Width(d) /\ Width(e)' = Width(e) /\ Width(t)' = Width(t)
        OBVIOUS
      <4> QED BY <3>6, <3>8 DEF Covers
    <3> QED BY <3>3, <3>4, <3>8, <3>9 DEF DecodeInv
  <2> QED BY <2>1, <2>2
<1> QED BY <1>1, <1>2, PTL DEF Spec

(* The numbers on display are those of the last message, for every message *)
(* of a meter whose fields never get shorter.                              *)
THEOREM NumbersAreRight ==
  ASSUME Fits, WIDENING
  PROVE  Spec => []Decoded
<1>1. DecodeInv => Decoded BY DEF DecodeInv, Decoded
<1> QED BY <1>1, DecodeInvariant, PTL

(* None of the three searches runs out of cr_all and none of the copies as *)
(* far as INFO, for such a meter.                                          *)
THEOREM SearchesEndInside ==
  ASSUME Fits, WIDENING
  PROVE  Spec => []SearchInside
<1>1. DecodeInv => SearchInside
  <2> SUFFICES ASSUME DecodeInv PROVE SearchInside OBVIOUS
  <2>1. PICK d, e, t \in Numbers : Covers(d, e, t) BY DEF DecodeInv
  <2>2. Width(d) \in 5 .. 8 /\ Width(e) \in 5 .. 8 /\ Width(t) \in 5 .. 8
    BY WidthIs
  <2>3. D_cnt \in 0 .. 8 /\ E_cnt \in 0 .. 8 /\ T_cnt \in 0 .. 8
    BY <2>1, <2>2, SMT DEF Covers
  <2>4. D_cnt + 1 + E_cnt + 1 + T_cnt < BODY BY <2>3, Sizes, SMT DEF Fits
  <2>5. At.INFO \in Nat /\ At.INFO >= 24 BY DEF At
  <2>6. ~Reaches(At.INFO, D_cnt, E_cnt, T_cnt) BY <2>3, <2>5, CopiesStay
  <2> QED BY <2>4, <2>6 DEF SearchInside
<1> QED BY <1>1, DecodeInvariant, PTL
=============================================================================
