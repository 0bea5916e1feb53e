-------------------------- MODULE EoCodec_proofs ---------------------------
(***************************************************************************)
(* Proofs about the codecs, for every base, word size and length of text:  *)
(* numbers and strings come back from their bytes, wherever a reader finds *)
(* them.                                                                   *)
(***************************************************************************)
EXTENDS EoReaderOps, EoWriterOps, SequenceTheorems, TLAPS

\* The numbers of the codec are naturals of the size the code gives them.
LEMMA NumberTypes ==
    /\ ShortMax \in Nat /\ ThreeMax \in Nat /\ IntMax \in Nat
    /\ HalfWord \in Nat
    /\ NumberPadding \in Byte /\ BreakByte \in Byte /\ Byte \subseteq Nat
<1>1. CharMax \in Nat /\ WordSize \in Nat
  BY NumberAssumption
<1>2. \A a, b \in Nat : a * b \in Nat
  OBVIOUS
<1>3. ShortMax \in Nat
  BY <1>1, <1>2 DEF ShortMax
<1>4. ThreeMax \in Nat
  BY <1>1, <1>2, <1>3 DEF ThreeMax
<1>5. IntMax \in Nat
  BY <1>1, <1>2, <1>4 DEF IntMax
<1> QED BY <1>1, <1>3, <1>4, <1>5 DEF HalfWord, NumberPadding, BreakByte, Byte

\* Decoding any bytes gives an integer.
LEMMA DecodeNumberType ==
    ASSUME NEW bytes \in Seq(Byte)
    PROVE  DecodeNumber(bytes) \in Int
<1>1. \A i \in 1 .. 4 : DecodedDigit(bytes, i) \in Nat
  BY NumberTypes, NumberAssumption DEF DecodedDigit, Byte, NumberPadding
<1>2. \A a, b \in Nat : a * b \in Nat
  OBVIOUS
<1>3. DecodedDigit(bytes, 4) * ThreeMax \in Nat
  BY <1>1, <1>2, NumberTypes
<1>4. DecodedDigit(bytes, 3) * ShortMax \in Nat
  BY <1>1, <1>2, NumberTypes
<1>5. DecodedDigit(bytes, 2) * CharMax \in Nat
  BY <1>1, <1>2, NumberAssumption
<1>6. DecodedDigit(bytes, 1) \in Nat
  BY <1>1
<1>7. DecodedWord(bytes) \in Nat
  BY <1>3, <1>4, <1>5, <1>6 DEF DecodedWord
<1>8. WordSize \in Nat /\ WordSize > 0
  <2>1. (CharMax + 1) * (ThreeMax + ShortMax + CharMax + 1) \in Nat
    BY <1>2, NumberTypes, NumberAssumption
  <2> QED BY <2>1, NumberAssumption
<1>9. DecodedWord(bytes) % WordSize \in Nat
  <2> HIDE DEF DecodedWord
  <2> QED BY <1>7, <1>8
<1> QED BY <1>8, <1>9, NumberTypes DEF DecodeNumber, ToSigned

-----------------------------------------------------------------------------
(* Arithmetic the provers do not do unaided: they know \div and % by a      *)
(* number, not by a product of parameters.                                  *)
LEMMA ProductMonotone ==
    ASSUME NEW a \in Nat, NEW b \in Nat, NEW c \in Nat, a <= b
    PROVE  c * a <= c * b
<1>1. PICK d \in Nat : b = a + d
  <2>1. b - a \in Nat /\ b = a + (b - a)
    OBVIOUS
  <2> QED BY <2>1
<1>2. c * b = c * a + c * d
  BY <1>1
<1>3. c * a \in Nat /\ c * d \in Nat
  OBVIOUS
<1> QED BY <1>2, <1>3

LEMMA DivMod ==
    ASSUME NEW a \in Nat, NEW m \in Nat, m > 0
    PROVE  /\ a \div m \in Nat /\ a % m \in Nat
           /\ a = m * (a \div m) + (a % m)
           /\ a % m < m
OBVIOUS

\* Quotients of numbers below m * c are below c.
LEMMA QuotientBound ==
    ASSUME NEW a \in Nat, NEW m \in Nat, m > 0, NEW c \in Nat, a < m * c
    PROVE  a \div m < c
<1> DEFINE q == a \div m
<1>1. q \in Nat /\ a % m \in Nat /\ a = m * q + (a % m)
  BY DivMod
<1>2. SUFFICES ASSUME c <= q PROVE FALSE
  BY <1>1
<1> HIDE DEF q
<1>3. m * c <= m * q
  BY <1>1, <1>2, ProductMonotone
<1>4. m * q \in Nat /\ m * c \in Nat
  BY <1>1
<1> QED BY <1>1, <1>3, <1>4

\* Quotient and remainder are the only numbers that divide a by m.
LEMMA DivModUnique ==
    ASSUME NEW a \in Nat, NEW m \in Nat, m > 0, NEW q \in Nat, NEW r \in Nat,
           a = m * q + r, r < m
    PROVE  a \div m = q /\ a % m = r
<1> DEFINE p == a \div m
           s == a % m
<1>1. p \in Nat /\ s \in Nat /\ a = m * p + s /\ s < m
  BY DivMod
<1> SUFFICES p = q /\ s = r
  OBVIOUS
<1> HIDE DEF p, s
<1>2. m * p \in Nat /\ m * q \in Nat
  BY <1>1
<1>3. ASSUME p < q PROVE FALSE
  <2>1. m * (p + 1) <= m * q
    BY <1>1, <1>3, ProductMonotone
  <2>2. m * (p + 1) = m * p + m
    BY <1>1
  <2> QED BY <1>1, <1>2, <2>1, <2>2
<1>4. ASSUME q < p PROVE FALSE
  <2>1. m * (q + 1) <= m * p
    BY <1>1, <1>4, ProductMonotone
  <2>2. m * (q + 1) = m * q + m
    OBVIOUS
  <2> QED BY <1>1, <1>2, <2>1, <2>2
<1>5. p = q
  BY <1>1, <1>3, <1>4
<1> QED BY <1>1, <1>2, <1>5

\* One digit splits off: a modulo m * c is a digit of weight m and a modulo m.
LEMMA DigitSplit ==
    ASSUME NEW a \in Nat, NEW m \in Nat, m > 0, NEW c \in Nat, c > 0
    PROVE  LET b == a % (m * c)
           IN  /\ b \in Nat
               /\ b \div m \in 0 .. c - 1
               /\ b = m * (b \div m) + (a % m)
<1> DEFINE b == a % (m * c)
           k == a \div (m * c)
           d == b \div m
           r == b % m
<1>1. m * c \in Nat /\ m * c > 0
  <2>1. m * 1 <= m * c
    BY ProductMonotone
  <2> QED BY <2>1
<1>2. k \in Nat /\ b \in Nat /\ a = (m * c) * k + b /\ b < m * c
  <2> DEFINE w == m * c
  <2> HIDE DEF w
  <2>1. /\ a \div w \in Nat /\ a % w \in Nat
        /\ a = w * (a \div w) + (a % w) /\ a % w < w
    BY <1>1, DivMod DEF w
  <2> QED BY <2>1 DEF w
<1> HIDE DEF b, k
<1>3. d \in Nat /\ r \in Nat /\ b = m * d + r /\ r < m
  BY <1>2, DivMod
<1>4. d < c
  BY <1>2, QuotientBound
<1> HIDE DEF d, r
<1>5. c * k \in Nat /\ c * k + d \in Nat
  BY <1>2, <1>3
<1>6. m * (c * k + d) = (m * c) * k + m * d
  BY <1>2, <1>3
<1>7. a = m * (c * k + d) + r
  <2>1. (m * c) * k \in Nat /\ m * d \in Nat
    BY <1>1, <1>2, <1>3
  <2> QED BY <1>2, <1>3, <1>6, <2>1
<1>8. a % m = r
  <2> DEFINE q == c * k + d
  <2> HIDE DEF q
  <2>1. q \in Nat /\ a = m * q + r
    BY <1>5, <1>7 DEF q
  <2> QED BY <1>3, <2>1, DivModUnique
<1> QED BY <1>2, <1>3, <1>4, <1>8 DEF b, d

-----------------------------------------------------------------------------
LEMMA WeightsPositive == ShortMax > 0 /\ ThreeMax > 0 /\ IntMax > 0 /\ CharMax > 0
<1>1. \A c, d \in Nat : c > 0 /\ d > 0 => c * d > 0
  <2> SUFFICES ASSUME NEW c \in Nat, NEW d \in Nat, c > 0, d > 0 PROVE c * d > 0
    OBVIOUS
  <2>1. c * 1 <= c * d
    BY ProductMonotone
  <2> QED BY <2>1
<1>2. CharMax \in Nat /\ CharMax > 0
  BY NumberAssumption
<1>3. ShortMax > 0
  BY <1>1, <1>2 DEF ShortMax
<1>4. ThreeMax > 0
  BY <1>1, <1>2, <1>3, NumberTypes DEF ThreeMax
<1>5. IntMax > 0
  BY <1>1, <1>2, <1>4, NumberTypes DEF IntMax
<1> QED BY <1>2, <1>3, <1>4, <1>5

\* The digit of weight w of v.
Digit(v, w) == (v % (w * CharMax)) \div w

\* An encoded digit is a byte that is neither zero nor the break byte.
LEMMA EncodedDigitRange ==
    ASSUME NEW v \in Nat, NEW w \in Nat, w > 0
    PROVE  /\ Digit(v, w) \in 0 .. CharMax - 1
           /\ EncodedDigit(v, w) \in 1 .. CharMax + 1
<1>1. CharMax \in Nat /\ CharMax > 0
  BY NumberAssumption
<1>2. Digit(v, w) \in 0 .. CharMax - 1
  BY <1>1, DigitSplit DEF Digit
<1>3. EncodedDigit(v, w) = IF v < w THEN CharMax + 1 ELSE Digit(v, w) + 1
  BY DEF EncodedDigit, Digit, NumberPadding
<1> HIDE DEF Digit
<1> QED BY <1>1, <1>2, <1>3

LEMMA UnsignedType ==
    ASSUME NEW n \in Int32
    PROVE  ToUnsigned(n) \in Nat /\ ToUnsigned(n) < WordSize
BY NumberAssumption DEF Int32, ToUnsigned, HalfWord

(* No byte eo_encode_number produces is zero or the break byte: a number    *)
(* never looks like a delimiter, and never like the end of a C string.      *)
LEMMA EncodedBytes ==
    ASSUME NEW value \in Int32
    PROVE  /\ EncodeNumber(value).bytes \in [1 .. 4 -> 1 .. CharMax + 1]
           /\ EncodeNumber(value).bytes \in Seq(Byte)
           /\ Len(EncodeNumber(value).bytes) = 4
<1> DEFINE v == ToUnsigned(value)
<1>1. v \in Nat
  BY UnsignedType
<1>2. /\ EncodedDigit(v, CharMax) \in 1 .. CharMax + 1
      /\ EncodedDigit(v, ShortMax) \in 1 .. CharMax + 1
      /\ EncodedDigit(v, ThreeMax) \in 1 .. CharMax + 1
  BY <1>1, EncodedDigitRange, NumberTypes, WeightsPositive, NumberAssumption
<1>3. (v % CharMax) + 1 \in 1 .. CharMax + 1
  <2>1. v % CharMax \in Nat /\ v % CharMax < CharMax
    BY <1>1, DivMod, WeightsPositive, NumberAssumption
  <2> HIDE DEF v
  <2> QED BY <2>1, NumberAssumption
<1> HIDE DEF v
<1>4. CASE v >= IntMax
  <2>1. EncodeNumber(value).bytes = [i \in 1 .. 4 |-> NumberPadding]
    BY <1>4 DEF EncodeNumber, v
  <2>2. NumberPadding \in 1 .. CharMax + 1 /\ NumberPadding \in Byte
    BY NumberAssumption DEF NumberPadding, Byte
  <2> QED BY <2>1, <2>2
<1>5. CASE ~(v >= IntMax)
  <2> DEFINE a == (v % CharMax) + 1
             b == EncodedDigit(v, CharMax)
             c == EncodedDigit(v, ShortMax)
             d == EncodedDigit(v, ThreeMax)
  <2>1. EncodeNumber(value).bytes = <<a, b, c, d>>
    BY <1>5 DEF EncodeNumber, v
  <2>2. 1 .. CharMax + 1 \subseteq Byte
    BY NumberAssumption DEF Byte
  <2> HIDE DEF a, b, c, d
  <2>3. {a, b, c, d} \subseteq 1 .. CharMax + 1
    BY <1>2, <1>3 DEF a, b, c, d
  <2> QED BY <2>1, <2>2, <2>3
<1> QED BY <1>4, <1>5

LEMMA EncodedWidth ==
    ASSUME NEW n \in 1 .. 4, NEW value \in Int32
    PROVE  /\ Encoded(n, value) \in Seq(Byte)
           /\ Len(Encoded(n, value)) = n
           /\ \A k \in 1 .. n : /\ Encoded(n, value)[k] = EncodeNumber(value).bytes[k]
                                 /\ Encoded(n, value)[k] \in 1 .. CharMax + 1
<1> DEFINE s == EncodeNumber(value).bytes
<1>1. s \in [1 .. 4 -> 1 .. CharMax + 1] /\ s \in Seq(Byte) /\ Len(s) = 4
  BY EncodedBytes
<1> HIDE DEF s
<1>2. Encoded(n, value) = SubSeq(s, 1, n)
  BY DEF Encoded, s
<1> DEFINE t == SubSeq(s, 1, n)
<1>3. n \in 1 .. 4 /\ \A k \in 1 .. n : k \in 1 .. 4 /\ s[k] \in 1 .. CharMax + 1 /\ s[k] \in Byte
  <2>1. 1 .. CharMax + 1 \subseteq Byte
    BY NumberAssumption DEF Byte
  <2> QED BY <1>1, <2>1
<1>4. Len(t) = n /\ \A k \in 1 .. n : t[k] = s[k]
  BY <1>1, <1>3
<1>5. t \in Seq(Byte)
  BY <1>1, <1>3
<1> HIDE DEF t
<1>6. /\ t \in Seq(Byte) /\ Len(t) = n
      /\ \A k \in 1 .. n : t[k] = s[k] /\ t[k] \in 1 .. CharMax + 1
  BY <1>3, <1>4, <1>5
<1> QED BY <1>2, <1>6 DEF s, t

-----------------------------------------------------------------------------
\* A number below the weight has a zero there, and its own remainder.
LEMMA SmallDigit ==
    ASSUME NEW v \in Nat, NEW w \in Nat, w > 0, v < w
    PROVE  Digit(v, w) = 0 /\ v % w = v
<1>1. CharMax \in Nat /\ CharMax >= 1
  BY NumberAssumption
<1>2. v % w = v
  <2>1. v = w * 0 + v
    OBVIOUS
  <2> QED BY <2>1, DivModUnique
<1> DEFINE m == w * CharMax
<1>3. m \in Nat /\ m > v
  <2>1. w * 1 <= w * CharMax
    BY <1>1, ProductMonotone
  <2>2. m \in Nat
    BY <1>1
  <2> QED BY <2>1, <2>2
<1> HIDE DEF m
<1>4. v % m = v
  <2>1. v = m * 0 + v
    BY <1>3
  <2> QED BY <1>3, <2>1, DivModUnique
<1>5. v \div w = 0
  <2>1. v = w * 0 + v
    OBVIOUS
  <2> QED BY <2>1, DivModUnique
<1>6. Digit(v, w) = (v % m) \div w
  BY DEF Digit, m
<1> QED BY <1>2, <1>4, <1>5, <1>6

\* A number below IntMax is the sum of its four digits.
LEMMA DigitSum ==
    ASSUME NEW v \in Nat, v < IntMax
    PROVE  v = Digit(v, ThreeMax) * ThreeMax + Digit(v, ShortMax) * ShortMax
               + Digit(v, CharMax) * CharMax + (v % CharMax)
<1>1. /\ CharMax \in Nat /\ ShortMax \in Nat /\ ThreeMax \in Nat /\ IntMax \in Nat
      /\ CharMax > 0 /\ ShortMax > 0 /\ ThreeMax > 0 /\ IntMax > 0
  BY NumberTypes, NumberAssumption, WeightsPositive
<1>2. /\ CharMax * CharMax = ShortMax
      /\ ShortMax * CharMax = ThreeMax
      /\ ThreeMax * CharMax = IntMax
  BY <1>1 DEF ShortMax, ThreeMax, IntMax
<1>3. \A w \in Nat : w > 0 =>
        LET b == v % (w * CharMax) IN b = w * (b \div w) + (v % w)
  BY <1>1, DigitSplit
<1>4. \A w \in Nat : w > 0 =>
        v % (w * CharMax) = w * Digit(v, w) + (v % w)
  BY <1>3 DEF Digit
<1>5. v % ShortMax = CharMax * Digit(v, CharMax) + (v % CharMax)
  BY <1>1, <1>2, <1>4
<1>6. v % ThreeMax = ShortMax * Digit(v, ShortMax) + (v % ShortMax)
  BY <1>1, <1>2, <1>4
<1>7. v % IntMax = ThreeMax * Digit(v, ThreeMax) + (v % ThreeMax)
  BY <1>1, <1>2, <1>4
<1>8. v % IntMax = v
  BY <1>1, SmallDigit
<1>9. /\ Digit(v, CharMax) \in Nat /\ Digit(v, ShortMax) \in Nat
      /\ Digit(v, ThreeMax) \in Nat
  <2>1. \A w \in Nat : w > 0 => Digit(v, w) \in 0 .. CharMax - 1
    BY EncodedDigitRange
  <2>2. 0 .. CharMax - 1 \subseteq Nat
    BY <1>1
  <2> QED BY <1>1, <2>1, <2>2
<1>10. \A a, b \in Nat : a * b = b * a /\ a * b \in Nat
  OBVIOUS
<1>11. v % CharMax \in Nat
  BY <1>1, DivMod
<1> DEFINE d2 == Digit(v, CharMax) * CharMax
           d3 == Digit(v, ShortMax) * ShortMax
           d4 == Digit(v, ThreeMax) * ThreeMax
           r  == v % CharMax
<1>12. /\ d2 \in Nat /\ d3 \in Nat /\ d4 \in Nat /\ r \in Nat
       /\ CharMax * Digit(v, CharMax) = d2
       /\ ShortMax * Digit(v, ShortMax) = d3
       /\ ThreeMax * Digit(v, ThreeMax) = d4
  BY <1>1, <1>9, <1>10, <1>11
<1>13. v = d4 + (d3 + (d2 + r))
  BY <1>5, <1>6, <1>7, <1>8, <1>12
<1> SUFFICES v = d4 + d3 + d2 + r
  OBVIOUS
<1> HIDE DEF d2, d3, d4, r
<1> QED BY <1>12, <1>13

\* What a digit is decoded to from the byte it was encoded as.
LEMMA DigitRoundTrip ==
    ASSUME NEW v \in Nat, NEW w \in Nat, w > 0,
           NEW s \in Seq(Byte), NEW i \in 1 .. Len(s), s[i] = EncodedDigit(v, w)
    PROVE  DecodedDigit(s, i) = Digit(v, w)
<1>1. Digit(v, w) \in 0 .. CharMax - 1
  BY EncodedDigitRange
<1>2. EncodedDigit(v, w) = IF v < w THEN NumberPadding ELSE Digit(v, w) + 1
  BY DEF EncodedDigit, Digit
<1>3. v < w => Digit(v, w) = 0
  BY SmallDigit
<1> HIDE DEF Digit
<1> QED BY <1>1, <1>2, <1>3, NumberAssumption DEF DecodedDigit, NumberPadding

\* The words that decode to an int32_t are the unsigned form of that int32_t.
LEMMA SignedRoundTrip ==
    ASSUME NEW value \in Int32
    PROVE  ToSigned(ToUnsigned(value)) = value
BY NumberAssumption DEF Int32, ToUnsigned, ToSigned, HalfWord

LEMMA WeightsGrow == CharMax <= ShortMax /\ ShortMax <= ThreeMax /\ ThreeMax <= IntMax
<1>1. CharMax \in Nat /\ CharMax >= 1
  BY NumberAssumption
<1>2. \A c \in Nat : c <= CharMax * c
  <2> SUFFICES ASSUME NEW c \in Nat PROVE c <= CharMax * c
    OBVIOUS
  <2>1. c * 1 <= c * CharMax
    BY <1>1, ProductMonotone
  <2> QED BY <1>1, <2>1
<1> QED BY <1>1, <1>2, NumberTypes DEF ShortMax, ThreeMax, IntMax

(* The number codec of data.c: every number that fits a width comes back    *)
(* from the bytes the writer stores for it, negative numbers included, for  *)
(* every base and word size.  Accepts lets the maxima of the three narrow   *)
(* widths through as well; they are the values this theorem does not cover. *)
THEOREM NumberRoundTrip ==
    \A n \in 1 .. 4, value \in Int32 :
        Representable(n, value) => DecodeNumber(Encoded(n, value)) = value
<1> SUFFICES ASSUME NEW n \in 1 .. 4, NEW value \in Int32, Representable(n, value)
             PROVE  DecodeNumber(Encoded(n, value)) = value
  OBVIOUS
<1> DEFINE v == ToUnsigned(value)
           s == Encoded(n, value)
<1>1. v \in Nat /\ v < WordSize
  BY UnsignedType
<1>2. /\ CharMax \in Nat /\ ShortMax \in Nat /\ ThreeMax \in Nat /\ IntMax \in Nat
      /\ CharMax > 0 /\ ShortMax > 0 /\ ThreeMax > 0
      /\ CharMax <= ShortMax /\ ShortMax <= ThreeMax /\ ThreeMax <= IntMax
  BY NumberTypes, NumberAssumption, WeightsPositive, WeightsGrow
<1>3. /\ v < IntMax
      /\ n <= 3 => v < ThreeMax
      /\ n <= 2 => v < ShortMax
      /\ n <= 1 => v < CharMax
  <2>1. CASE n = 4
    BY <2>1 DEF Representable
  <2>2. CASE n < 4
    <3>1. value >= 0 /\ v = value
      BY <2>2 DEF Representable, ToUnsigned, Int32
    <3>2. value < WidthMax(n)
      BY <2>2 DEF Representable
    <3>3. WidthMax(1) = CharMax /\ WidthMax(2) = ShortMax /\ WidthMax(3) = ThreeMax
      BY DEF WidthMax
    <3>4. n = 1 \/ n = 2 \/ n = 3
      BY <2>2
    <3> HIDE DEF v
    <3> QED BY <1>1, <1>2, <3>1, <3>2, <3>3, <3>4
  <2> QED BY <2>1, <2>2
<1>4. EncodeNumber(value).bytes =
        << (v % CharMax) + 1, EncodedDigit(v, CharMax),
           EncodedDigit(v, ShortMax), EncodedDigit(v, ThreeMax) >>
  BY <1>1, <1>2, <1>3 DEF EncodeNumber
<1>5. /\ s \in Seq(Byte) /\ Len(s) = n
      /\ \A k \in 1 .. n : s[k] = EncodeNumber(value).bytes[k]
  BY EncodedWidth
<1> HIDE DEF v, s
<1>6. DecodedDigit(s, 1) = v % CharMax
  <2>1. s[1] = (v % CharMax) + 1
    BY <1>4, <1>5
  <2>2. v % CharMax \in 0 .. CharMax - 1
    BY <1>1, <1>2, DivMod
  <2> QED BY <1>5, <2>1, <2>2, NumberAssumption DEF DecodedDigit, NumberPadding
<1>7. ASSUME NEW w \in Nat, w > 0, NEW i \in 2 .. 4,
             i <= n => s[i] = EncodedDigit(v, w),
             i > n => v < w
      PROVE  DecodedDigit(s, i) = Digit(v, w)
  <2>1. CASE i <= n
    <3>1. i \in 1 .. Len(s)
      BY <1>5, <2>1
    <3> QED BY <1>1, <1>5, <1>7, <2>1, <3>1, DigitRoundTrip
  <2>2. CASE i > n
    <3>1. Digit(v, w) = 0
      BY <1>1, <1>7, <2>2, SmallDigit
    <3> QED BY <1>5, <2>2, <3>1 DEF DecodedDigit
  <2> QED BY <2>1, <2>2
<1>8. DecodedDigit(s, 2) = Digit(v, CharMax)
  <2>1. 2 <= n => s[2] = EncodedDigit(v, CharMax)
    BY <1>4, <1>5
  <2> QED BY <1>2, <1>3, <1>7, <2>1
<1>9. DecodedDigit(s, 3) = Digit(v, ShortMax)
  <2>1. 3 <= n => s[3] = EncodedDigit(v, ShortMax)
    BY <1>4, <1>5
  <2> QED BY <1>2, <1>3, <1>7, <2>1
<1>10. DecodedDigit(s, 4) = Digit(v, ThreeMax)
  <2>1. 4 <= n => s[4] = EncodedDigit(v, ThreeMax)
    BY <1>4, <1>5
  <2> QED BY <1>2, <1>3, <1>7, <2>1
<1>11. DecodedWord(s) = v
  <2>1. v = Digit(v, ThreeMax) * ThreeMax + Digit(v, ShortMax) * ShortMax
            + Digit(v, CharMax) * CharMax + (v % CharMax)
    BY <1>1, <1>3, DigitSum
  <2> QED BY <1>6, <1>8, <1>9, <1>10, <2>1 DEF DecodedWord
<1>12. v % WordSize = v
  <2>1. WordSize \in Nat /\ WordSize > 0
    BY <1>1, NumberAssumption
  <2> QED BY <1>1, <2>1, SmallDigit
<1>13. ToSigned(v) = value
  BY SignedRoundTrip DEF v
<1> QED BY <1>11, <1>12, <1>13 DEF DecodeNumber, s

-----------------------------------------------------------------------------
\* The texts without a delimiter, and the bytes numbers are made of.
Quiet   == Seq(Byte \ {BreakByte})
NumeralBytes == Seq(1 .. CharMax + 1)

\* A sequence is one over any set its elements are in.
LEMMA SeqOver ==
    ASSUME NEW A, NEW B, NEW s \in Seq(A), \A k \in 1 .. Len(s) : s[k] \in B
    PROVE  s \in Seq(B)
<1>1. s \in [1 .. Len(s) -> A] /\ Len(s) \in Nat
  OBVIOUS
<1>2. s \in [1 .. Len(s) -> B]
  BY <1>1
<1> QED BY <1>1, <1>2, SeqDef

\* The encoded form of a text is as long, made of bytes, and as quiet.
LEMMA FlipFacts ==
    ASSUME NEW b \in Byte, NEW i \in Int, NEW n \in Int
    PROVE  /\ Flip(b, i, n) \in Byte
           /\ b # BreakByte => Flip(b, i, n) # BreakByte
<1>1. \A low, high \in Nat :
          0 < low /\ high < NumberPadding =>
             /\ Mirror(b, low, high) \in Byte
             /\ b # BreakByte => Mirror(b, low, high) # BreakByte
  BY NumberAssumption DEF Mirror, Byte, BreakByte, NumberPadding
<1>2. /\ FlipLow \in Nat /\ FlipMid \in Nat /\ FlipHigh \in Nat
      /\ FlipMid - 1 \in Nat /\ 0 < FlipLow /\ 0 < FlipMid
      /\ FlipHigh < NumberPadding /\ FlipMid - 1 < NumberPadding
  BY StringAssumption, NumberAssumption DEF NumberPadding
<1> QED BY <1>1, <1>2 DEF Flip

LEMMA EncodeStringFacts ==
    ASSUME NEW s \in Seq(Byte)
    PROVE  /\ EncodeString(s) \in Seq(Byte)
           /\ Len(EncodeString(s)) = Len(s)
           /\ s \in Quiet => EncodeString(s) \in Quiet
<1> DEFINE n == Len(s)
           c == [k \in 1 .. n |-> Flip(s[n + 1 - k], n - k, n)]
<1>1. EncodeString(s) = c
  BY DEF EncodeString
<1>2. n \in Nat /\ \A k \in 1 .. n : n + 1 - k \in 1 .. n /\ n - k \in Int
  OBVIOUS
<1>3. \A k \in 1 .. n : s[k] \in Byte
  OBVIOUS
<1> HIDE DEF n
<1>4. \A k \in 1 .. n : c[k] \in Byte
  BY <1>2, <1>3, FlipFacts
<1>5. c \in Seq(Byte) /\ Len(c) = n
  BY <1>2, <1>4
<1>6. ASSUME s \in Quiet PROVE c \in Quiet
  <2>1. \A k \in 1 .. n : s[k] # BreakByte
    BY <1>6 DEF Quiet, n
  <2>2. \A k \in 1 .. n : c[k] # BreakByte
    BY <1>2, <1>3, <2>1, FlipFacts
  <2>3. \A k \in 1 .. n : c[k] \in Byte \ {BreakByte}
    BY <1>4, <2>2
  <2> QED BY <1>2, <2>3 DEF Quiet
<1> QED BY <1>1, <1>5, <1>6 DEF n

\* Flipping a byte at the same place once more gives the byte back.
LEMMA FlipTwice ==
    ASSUME NEW b \in Byte, NEW i \in Int, NEW n \in Int
    PROVE  Flip(Flip(b, i, n), i, n) = b
<1>1. /\ FlipLow \in Nat /\ FlipMid \in Nat /\ FlipHigh \in Nat
      /\ FlipLow < FlipMid /\ FlipMid <= FlipHigh /\ b \in Nat
  BY StringAssumption, NumberAssumption DEF Byte
<1>2. CASE i % 2 # (n + 1) % 2
  BY <1>1, <1>2 DEF Flip, Mirror
<1>3. CASE i % 2 = (n + 1) % 2
  <2>1. CASE b < FlipMid
    BY <1>1, <1>3, <2>1 DEF Flip, Mirror
  <2>2. CASE b >= FlipMid
    BY <1>1, <1>3, <2>2 DEF Flip, Mirror
  <2> QED BY <1>1, <2>1, <2>2
<1> QED BY <1>2, <1>3

(* Decoding gives back the string that was encoded, whatever bytes it is    *)
(* made of and however long it is (eo_encode_string and eo_decode_string).  *)
THEOREM StringRoundTrip == \A s \in Seq(Byte) : DecodeString(EncodeString(s)) = s
<1> SUFFICES ASSUME NEW s \in Seq(Byte) PROVE DecodeString(EncodeString(s)) = s
  OBVIOUS
<1> DEFINE n == Len(s)
           e == EncodeString(s)
           d == DecodeString(e)
<1>1. n \in Nat /\ \A k \in 1 .. n : s[k] \in Byte
  BY LenProperties, ElementOfSeq
<1>2. Len(e) = n
  BY EncodeStringFacts
<1>3. ASSUME NEW k \in 1 .. n PROVE e[k] = Flip(s[n + 1 - k], n - k, n)
  BY <1>1 DEF EncodeString
<1>4. d = [k \in 1 .. n |-> Flip(e[n + 1 - k], k - 1, n)]
  BY <1>2 DEF DecodeString
<1> HIDE DEF e, d, n
<1>5. ASSUME NEW k \in 1 .. n PROVE d[k] = s[k]
  <2>1. n + 1 - k \in 1 .. n /\ n + 1 - (n + 1 - k) = k /\ n - (n + 1 - k) = k - 1
    BY <1>1
  <2>2. e[n + 1 - k] = Flip(s[k], k - 1, n)
    BY <1>3, <2>1
  <2>3. s[k] \in Byte /\ k - 1 \in Int /\ n \in Int
    BY <1>1
  <2> QED BY <1>4, <2>2, <2>3, FlipTwice
<1>6. d \in Seq(Byte) /\ Len(d) = n
  <2>1. \A k \in 1 .. n : d[k] \in Byte
    BY <1>1, <1>5
  <2>2. d = [k \in 1 .. n |-> d[k]]
    BY <1>4
  <2>3. d \in [1 .. n -> Byte]
    BY <2>1, <2>2
  <2> QED BY <1>1, <2>3, SeqDef, LenProperties
<1>7. d = s
  BY <1>5, <1>6, SeqEqual DEF n
<1> QED BY <1>7 DEF d, e

\* The bytes s lie where the reader stands.
LEMMA BytesAhead ==
    ASSUME NEW r \in Reader, NEW s \in Seq(Byte), r.offset + Len(s) <= Length(r),
           \A k \in 1 .. Len(s) : r.data[r.offset + k] = s[k]
    PROVE  HasBytes(r, Len(s)) /\ Bytes(r, Len(s)) = s
<1> DEFINE o == r.offset
           n == Len(s)
<1>1. o \in Nat /\ n \in Nat /\ r.data \in Seq(Byte) /\ Len(r.data) \in Nat
  BY LenProperties DEF Reader
<1>2. o + n <= Len(r.data)
  BY DEF Length
<1>3. ASSUME NEW k \in 1 .. n PROVE r.data[o + k] = s[k]
  OBVIOUS
<1> DEFINE t == SubSeq(r.data, o + 1, o + n)
<1>4. t \in Seq(Byte) /\ Len(t) = n /\ \A k \in 1 .. n : t[k] = r.data[o + k]
  <2>1. \A k \in o + 1 .. o + n : r.data[k] \in Byte
    BY <1>1, <1>2, ElementOfSeq
  <2>2. /\ t \in Seq(Byte)
        /\ Len(t) = IF o + 1 <= o + n THEN (o + n) - (o + 1) + 1 ELSE 0
        /\ \A k \in 1 .. (o + n) - (o + 1) + 1 : t[k] = r.data[(o + 1) + k - 1]
    <3>1. o + 1 \in Int /\ o + n \in Int
      BY <1>1
    <3> HIDE DEF o, n
    <3> QED BY <1>1, <2>1, <3>1, SubSeqProperties
  <2>3. /\ (o + n) - (o + 1) + 1 = n
        /\ o + 1 <= o + n \/ n = 0
        /\ \A k \in 1 .. n : (o + 1) + k - 1 = o + k
    BY <1>1
  <2> HIDE DEF o, n, t
  <2> QED BY <1>1, <2>2, <2>3
<1>5. t = s
  <2> HIDE DEF t
  <2> QED BY <1>3, <1>4, SeqEqual
<1> QED BY <1>1, <1>2, <1>5 DEF HasBytes, Bytes, Length
=============================================================================
