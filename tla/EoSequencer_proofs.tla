------------------------- MODULE EoSequencer_proofs -------------------------
(***************************************************************************)
(* Proofs about packet sequence numbers, in two parts.  The random draws,  *)
(* for every word size, every base and every order of calls: draws stay in *)
(* their ranges, the two words step like one double word, and the split of *)
(* a start does not depend on luck.  The session, for every base, any      *)
(* number of packets and pings and any disturbance of the network.         *)
(***************************************************************************)
EXTENDS EoDraws, EoSession, EoCodec_proofs, SequenceTheorems

LEMMA DigitType == MaxDigit \in Nat /\ MaxDigit >= 8 /\ 0 .. MaxDigit \subseteq Word
BY NumberAssumption, DrawsAssumption, RngAssumption DEF MaxDigit, Word

LEMMA TruncSeven ==
    ASSUME NEW a \in Int
    PROVE  /\ TruncDiv(a, 7) \in Int
           /\ a >= 0 => 7 * TruncDiv(a, 7) <= a /\ a < 7 * TruncDiv(a, 7) + 7
           /\ a < 0 => a <= 7 * TruncDiv(a, 7) /\ 7 * TruncDiv(a, 7) <= 0
BY DEF TruncDiv

-----------------------------------------------------------------------------
(* The generator.                                                           *)
LEMMA ModType ==
    ASSUME NEW a \in Nat
    PROVE  a % RandSize \in Word
BY RngAssumption, DivMod DEF Word

LEMMA WordsType ==
    /\ Unseeded \in Words
    /\ \A seed \in Word : Seeded(seed) \in Words
    /\ \A w \in Words : Advanced(w) \in Words /\ Drawn(w) \in Word
<1>1. Unseeded \in Words
  BY RngAssumption DEF Unseeded, Words, Word
<1>2. ASSUME NEW seed \in Word PROVE Seeded(seed) \in Words
  <2>1. seed \in Nat /\ SeedFactor * seed + 1 \in Nat
    BY RngAssumption DEF Word
  <2>2. 0 \in Word
    BY RngAssumption DEF Word
  <2> QED BY <2>1, <2>2, ModType DEF Seeded, Words
<1>3. ASSUME NEW w \in Words PROVE Advanced(w) \in Words /\ Drawn(w) \in Word
  <2>1. w.low \in Nat /\ w.high \in Nat /\ w.high \in Word
    BY RngAssumption DEF Words, Word
  <2> DEFINE p == w.low * LowFactor
             q == p \div RandSize
             h == q + w.high * LowFactor + w.low * HighFactor
  <2>2. LowFactor \in Nat /\ HighFactor \in Nat /\ RandSize \in Nat /\ RandSize > 0
    BY RngAssumption
  <2>3. p \in Nat /\ w.high * LowFactor \in Nat /\ w.low * HighFactor \in Nat
    BY <2>1, <2>2
  <2> HIDE DEF p
  <2>4. q \in Nat /\ p % RandSize \in Nat
    BY <2>2, <2>3, DivMod
  <2> HIDE DEF q
  <2>5. h \in Nat /\ (p % RandSize) + 1 \in Nat
    BY <2>3, <2>4
  <2>6. Advanced(w) = [low |-> ((p % RandSize) + 1) % RandSize, high |-> h % RandSize]
    BY DEF Advanced, p, q, h
  <2> HIDE DEF h
  <2>7. Advanced(w) \in Words
    BY <2>5, <2>6, ModType DEF Words
  <2>8. w.high % (RandSize \div 2) \in Word
    <3>1. RandSize \div 2 \in Nat /\ RandSize \div 2 > 0 /\ RandSize \div 2 <= RandSize
      BY RngAssumption
    <3> DEFINE k == RandSize \div 2
    <3> HIDE DEF k
    <3>2. w.high % k \in Nat /\ w.high % k < k
      BY <2>1, <3>1, DivMod DEF k
    <3> QED BY <2>2, <3>1, <3>2 DEF k, Word
  <2> QED BY <2>7, <2>8 DEF Drawn
<1> QED BY <1>1, <1>2, <1>3

(* A draw from a range that is not the one of all words lies in the range.  *)
LEMMA RandRangeFacts ==
    ASSUME NEW w \in Words, NEW low \in Word, NEW high \in Word, low <= high,
           low # 0 \/ high # RandSize - 1
    PROVE  RandRange(w, low, high).value \in low .. high
<1> DEFINE next == Advanced(w)
           k == high - low + 1
           d == Drawn(next)
           r == d % k
<1>1. RandSize \in Nat /\ low \in Nat /\ high \in Nat /\ high < RandSize
  BY RngAssumption DEF Word
<1>2. k \in Nat /\ k > 0 /\ k < RandSize
  BY <1>1
<1>3. d \in Nat
  BY WordsType, RngAssumption DEF Word
<1> HIDE DEF d, next
<1>4. k % RandSize = k
  BY <1>1, <1>2
<1>5. RandRange(w, low, high).value = (low + (d % (k % RandSize))) % RandSize
  BY <1>1, <1>2, <1>4 DEF RandRange, d, next, k
<1>6. low + k = high + 1
  BY <1>1
<1> HIDE DEF k
<1>7. r \in Nat /\ r < k
  BY <1>2, <1>3, DivMod
<1>8. RandRange(w, low, high).value = (low + r) % RandSize
  BY <1>4, <1>5
<1> HIDE DEF r
<1>9. low + r \in low .. high /\ low + r < RandSize /\ low + r \in Nat
  BY <1>1, <1>2, <1>6, <1>7
<1>10. (low + r) % RandSize = low + r
  BY <1>1, <1>9
<1> QED BY <1>8, <1>9, <1>10

\* Whatever the range: the words stay words, and an empty one costs nothing.
LEMMA RandRangeWords ==
    ASSUME NEW w \in Words, NEW low, NEW high
    PROVE  /\ RandRange(w, low, high).words \in Words
           /\ RandRange(w, low, high).words \in {w, Advanced(w)}
BY WordsType DEF RandRange

\* The bounds of the first byte are digits.
LEMMA InitBounds ==
    ASSUME NEW n \in Int
    PROVE  /\ InitLow(n) \in Nat
           /\ InitHigh(n) \in Int /\ InitHigh(n) <= MaxDigit
<1>1. /\ TruncDiv(n - MaxDigit + 13 + 6, 7) \in Int
      /\ TruncDiv(n + 13, 7) \in Int
  BY DigitType, TruncSeven
<1> QED BY <1>1, DigitType DEF InitLow, InitHigh

(* Within the range every first byte between the bounds leaves a second     *)
(* byte that is a digit.                                                    *)
LEMMA InitComplete ==
    ASSUME NEW n \in -13 .. 8 * MaxDigit - 13
    PROVE  /\ InitLow(n) <= InitHigh(n)
           /\ \A seq1 \in InitLow(n) .. InitHigh(n) :
                 seq1 \in 0 .. MaxDigit /\ n - seq1 * 7 + 13 \in 0 .. MaxDigit
<1> DEFINE p == TruncDiv(n - MaxDigit + 13 + 6, 7)
           q == TruncDiv(n + 13, 7)
<1>1. MaxDigit \in Nat /\ MaxDigit >= 6 /\ n \in Int
  BY DigitType
<1>2. /\ p \in Int /\ q \in Int
      /\ n - MaxDigit + 19 >= 0 => 7 * p <= n - MaxDigit + 19 /\ n - MaxDigit + 19 < 7 * p + 7
      /\ n - MaxDigit + 19 < 0 => 7 * p <= 0
      /\ n + 13 >= 0 => 7 * q <= n + 13 /\ n + 13 < 7 * q + 7
  <2>1. n - MaxDigit + 13 + 6 = n - MaxDigit + 19 /\ n - MaxDigit + 19 \in Int /\ n + 13 \in Int
    BY <1>1
  <2> QED BY <2>1, TruncSeven
<1>3. /\ InitLow(n) = IF p < 0 THEN 0 ELSE p
      /\ InitHigh(n) = IF q > MaxDigit THEN MaxDigit ELSE q
  BY DEF InitLow, InitHigh
<1> HIDE DEF p, q
<1> QED BY <1>1, <1>2, <1>3

\* Outside the range the bounds are empty or leave no digit.
LEMMA InitSound ==
    ASSUME NEW n \in Int, n \notin -13 .. 8 * MaxDigit - 13, InitLow(n) <= InitHigh(n)
    PROVE  \A seq1 \in InitLow(n) .. InitHigh(n) : n - seq1 * 7 + 13 \notin 0 .. MaxDigit
<1> DEFINE p == TruncDiv(n - MaxDigit + 13 + 6, 7)
           q == TruncDiv(n + 13, 7)
<1>1. MaxDigit \in Nat /\ MaxDigit >= 6 /\ n \in Int
  BY DigitType
<1>2. /\ p \in Int /\ q \in Int
      /\ n - MaxDigit + 19 >= 0 => 7 * p <= n - MaxDigit + 19 /\ n - MaxDigit + 19 < 7 * p + 7
      /\ n + 13 < 0 => 7 * q <= 0
  <2>1. n - MaxDigit + 13 + 6 = n - MaxDigit + 19 /\ n - MaxDigit + 19 \in Int /\ n + 13 \in Int
    BY <1>1
  <2> QED BY <2>1, TruncSeven
<1>3. /\ InitLow(n) = IF p < 0 THEN 0 ELSE p
      /\ InitHigh(n) = IF q > MaxDigit THEN MaxDigit ELSE q
  BY DEF InitLow, InitHigh
<1> HIDE DEF p, q
<1> QED BY <1>1, <1>2, <1>3

LEMMA PingFacts ==
    ASSUME NEW n \in Int
    PROVE  /\ PingLow(n) \in Int /\ PingHigh(n) \in Int
           /\ PingLow(n) <= PingHigh(n) <=> n \in -MaxDigit .. MaxDigit
           /\ \A seq1 \in PingLow(n) .. PingHigh(n) :
                 seq1 \in 0 .. MaxDigit /\ seq1 - n \in 0 .. MaxDigit
BY DigitType DEF PingLow, PingHigh

\* A draw from a range of digits is a digit of the range.
LEMMA DigitDraw ==
    ASSUME NEW w \in Words, NEW low \in Nat, NEW high \in Int, low <= high, high <= MaxDigit
    PROVE  RandRange(w, low, high).value \in low .. high
<1>1. low \in 0 .. MaxDigit /\ high \in 0 .. MaxDigit
  BY DigitType
<1>2. low \in Word /\ high \in Word
  BY <1>1, DigitType
<1>3. high # RandSize - 1
  BY <1>1, NumberAssumption, DrawsAssumption, RngAssumption DEF MaxDigit
<1> QED BY <1>2, <1>3, RandRangeFacts

-----------------------------------------------------------------------------
(* What a split of n with the first byte seq1 returns.                      *)
LEMMA InitBytesFacts ==
    ASSUME NEW n \in Int, NEW w \in Words
    PROVE  LET b == InitBytes(n, RandRange(w, InitLow(n), InitHigh(n)).value)
           IN  /\ b.bytes \in Seq(0 .. MaxDigit)
               /\ b.result = "EO_SUCCESS" <=> n \in Expressible("init")
               /\ b.result = "EO_SUCCESS" => n = StartFromInit(b.bytes[1], b.bytes[2])
<1> DEFINE seq1 == RandRange(w, InitLow(n), InitHigh(n)).value
           seq2 == n - seq1 * 7 + 13
           b    == InitBytes(n, seq1)
<1>1. /\ InitLow(n) \in Int /\ InitLow(n) >= 0 /\ InitHigh(n) \in Int
      /\ InitHigh(n) <= MaxDigit /\ MaxDigit \in Nat
  BY InitBounds, DigitType
<1>2. Expressible("init") = -13 .. 8 * MaxDigit - 13
  BY DEF Expressible
<1> SUFFICES /\ b.bytes \in Seq(0 .. MaxDigit)
             /\ b.result = "EO_SUCCESS" <=> n \in Expressible("init")
             /\ b.result = "EO_SUCCESS" => n = StartFromInit(b.bytes[1], b.bytes[2])
  OBVIOUS
<1>3. b = SequenceBytes(InitLow(n), InitHigh(n), seq1, seq2)
  BY DEF InitBytes
<1> HIDE DEF b
<1>4. CASE InitHigh(n) < InitLow(n)
  <2>1. b.result # "EO_SUCCESS" /\ b.bytes = << >>
    BY <1>3, <1>4 DEF SequenceBytes
  <2>2. n \notin -13 .. 8 * MaxDigit - 13
    BY <1>1, <1>4, InitComplete
  <2> QED BY <1>1, <1>2, <2>1, <2>2
<1>5. CASE InitLow(n) <= InitHigh(n)
  <2>1. seq1 \in InitLow(n) .. InitHigh(n)
    BY <1>1, <1>5, DigitDraw
  <2>2. seq1 \in 0 .. MaxDigit /\ seq1 \in Int
    BY <1>1, <2>1
  <2> HIDE DEF seq1
  <2>3. seq2 \in Int
    BY <2>2
  <2>4. CASE seq2 \in 0 .. MaxDigit
    <3>1. b = [result |-> "EO_SUCCESS", bytes |-> <<seq1, seq2>>]
      BY <1>1, <1>3, <1>5, <2>4 DEF SequenceBytes
    <3>2. n \in -13 .. 8 * MaxDigit - 13
      BY <1>5, <2>1, <2>4, InitSound
    <3>3. n = seq1 * 7 + seq2 - 13
      BY <2>2
    <3> HIDE DEF seq2
    <3>4. n = StartFromInit(b.bytes[1], b.bytes[2])
      BY <3>1, <3>3 DEF StartFromInit
    <3>5. b.bytes \in Seq(0 .. MaxDigit)
      BY <2>2, <2>4, <3>1
    <3> QED BY <1>2, <3>1, <3>2, <3>4, <3>5
  <2>5. CASE seq2 \notin 0 .. MaxDigit
    <3>1. b = [result |-> "EO_SEQUENCE_OUT_OF_RANGE", bytes |-> << >>]
      BY <1>1, <1>3, <1>5, <2>5 DEF SequenceBytes
    <3>2. n \notin -13 .. 8 * MaxDigit - 13
      BY <2>1, <2>5, InitComplete
    <3> QED BY <1>1, <1>2, <3>1, <3>2
  <2> QED BY <2>4, <2>5
<1> QED BY <1>1, <1>4, <1>5

LEMMA PingBytesFacts ==
    ASSUME NEW n \in Int, NEW w \in Words
    PROVE  LET b == PingBytes(n, RandRange(w, PingLow(n), PingHigh(n)).value)
           IN  /\ b.bytes \in Seq(0 .. MaxDigit)
               /\ b.result = "EO_SUCCESS" <=> n \in Expressible("ping")
               /\ b.result = "EO_SUCCESS" => n = StartFromPing(b.bytes[1], b.bytes[2])
<1> DEFINE seq1 == RandRange(w, PingLow(n), PingHigh(n)).value
           seq2 == seq1 - n
           b    == PingBytes(n, seq1)
<1>1. /\ PingLow(n) \in Int /\ PingHigh(n) \in Int /\ MaxDigit \in Nat
      /\ PingLow(n) <= PingHigh(n) <=> n \in -MaxDigit .. MaxDigit
  BY PingFacts, DigitType
<1>2. Expressible("ping") = -MaxDigit .. MaxDigit
  BY DEF Expressible
<1> SUFFICES /\ b.bytes \in Seq(0 .. MaxDigit)
             /\ b.result = "EO_SUCCESS" <=> n \in Expressible("ping")
             /\ b.result = "EO_SUCCESS" => n = StartFromPing(b.bytes[1], b.bytes[2])
  OBVIOUS
<1>3. b = SequenceBytes(PingLow(n), PingHigh(n), seq1, seq2)
  BY DEF PingBytes
<1> HIDE DEF b
<1>4. CASE PingHigh(n) < PingLow(n)
  <2>1. b.result # "EO_SUCCESS" /\ b.bytes = << >>
    BY <1>3, <1>4 DEF SequenceBytes
  <2> QED BY <1>1, <1>2, <1>4, <2>1
<1>5. CASE PingLow(n) <= PingHigh(n)
  <2>1. seq1 \in PingLow(n) .. PingHigh(n)
    <3>1. PingLow(n) \in Nat /\ PingHigh(n) <= MaxDigit
      BY DigitType DEF PingLow, PingHigh
    <3> QED BY <1>1, <1>5, <3>1, DigitDraw
  <2>2. seq1 \in 0 .. MaxDigit /\ seq1 \in Int /\ seq2 \in 0 .. MaxDigit
    BY <1>1, <2>1, PingFacts
  <2> HIDE DEF seq1
  <2>3. b = [result |-> "EO_SUCCESS", bytes |-> <<seq1, seq2>>]
    BY <1>1, <1>3, <1>5, <2>2 DEF SequenceBytes
  <2>4. n = seq1 - seq2
    BY <2>2
  <2> HIDE DEF seq2
  <2>5. n = StartFromPing(b.bytes[1], b.bytes[2])
    BY <2>3, <2>4 DEF StartFromPing
  <2>6. b.bytes \in Seq(0 .. MaxDigit)
    BY <2>2, <2>3
  <2> QED BY <1>1, <1>2, <1>5, <2>3, <2>5, <2>6
<1> QED BY <1>1, <1>4, <1>5

-----------------------------------------------------------------------------
\* The remainder of C of numbers that are not negative is a remainder.
LEMMA TruncModNat ==
    ASSUME NEW a \in Nat, NEW k \in Nat, k > 0
    PROVE  TruncMod(a, k) = a % k
<1>1. TruncDiv(a, k) = a \div k
  BY DEF TruncDiv
<1>2. a \div k \in Nat /\ a % k \in Nat /\ a = k * (a \div k) + (a % k)
  BY DivMod
<1> DEFINE q == a \div k
           r == a % k
<1> HIDE DEF q, r
<1>3. q \in Nat /\ r \in Nat /\ a = k * q + r
  BY <1>2 DEF q, r
<1>4. k * q \in Nat
  BY <1>3
<1>5. a - k * q = r
  BY <1>3, <1>4
<1> QED BY <1>1, <1>5 DEF TruncMod, q, r

(* The answer to a challenge: with c the challenge and one, it is at least  *)
(* 110905 and at most 110905 + 9 * 1308 * 119 + 2003.                       *)
LEMMA HashFacts ==
    ASSUME NEW n \in Nat, n <= LastChallenge
    PROVE  VerificationHash(n) \in ThreeByteNumbers
<1> DEFINE c == n + 1
           d == 11092004 - c
           a == c % 9
           k == ((c % 11) + 1) * 119
           m == d % k
           r == c % 2004
           z == (a + 1) * m
<1>1. c \in Nat /\ d \in Nat
  BY SMT DEF LastChallenge
<1>2. VerificationHash(n) =
        110905 + (TruncMod(c, 9) + 1) * TruncMod(d, (TruncMod(c, 11) + 1) * 119) * 119
        + TruncMod(c, 2004)
  BY SMT DEF VerificationHash
<1> HIDE DEF c, d
<1>3. a \in 0 .. 8 /\ r \in 0 .. 2003 /\ c % 11 \in 0 .. 10
  BY <1>1, SMT
<1>4. TruncMod(c, 9) = a /\ TruncMod(c, 11) = c % 11 /\ TruncMod(c, 2004) = r
  BY <1>1, SMT DEF TruncMod, TruncDiv
<1> HIDE DEF a, r
<1>5. k \in Nat /\ k > 0 /\ k <= 1309
  BY <1>3, SMT
<1>6. VerificationHash(n) = 110905 + (a + 1) * TruncMod(d, k) * 119 + r
  BY <1>2, <1>4, SMT
<1> HIDE DEF k
<1>7. m \in Nat /\ m < k /\ TruncMod(d, k) = m
  BY <1>1, <1>5, DivMod, TruncModNat, SMT
<1> HIDE DEF m
<1>8. z \in Int /\ 0 <= z /\ z <= 11772
  <2>1. m \in Int /\ 0 <= m /\ m <= 1308 /\ a + 1 \in 1 .. 9
    BY <1>3, <1>5, <1>7, SMT
  <2>2. z \in Int /\ 0 <= z /\ z <= 9 * m
    BY <2>1, SMT
  <2> HIDE DEF z
  <2> QED BY <2>1, <2>2, SMT
<1>9. VerificationHash(n) = 110905 + z * 119 + r
  BY <1>6, <1>7, SMT
<1> HIDE DEF z
<1> DEFINE v == VerificationHash(n)
<1> HIDE DEF v
<1>10. v = 110905 + z * 119 + r
  BY <1>9, SMT DEF v
<1>11. r \in Int /\ 0 <= r /\ r <= 2003
  BY <1>3, SMT
<1>12. v \in Int /\ 1 <= v /\ v <= 253 * 253 * 253 - 1
  BY <1>8, <1>10, <1>11, SMT
<1> DEFINE top == 253 * 253 * 253 - 1
<1>13. ThreeByteNumbers = 1 .. top
  BY DEF ThreeByteNumbers
<1>14. v \in Int /\ 1 <= v /\ v <= top /\ top \in Int
  BY <1>12, SMT
<1> HIDE DEF top
<1> QED BY <1>13, <1>14, SMT DEF v

(* The product of two double words, by the products of their halves.        *)
LEMMA HalvesProduct ==
    ASSUME NEW W \in Nat, NEW high \in Nat, NEW low \in Nat, NEW H \in Nat, NEW L \in Nat,
           NEW q \in Nat, NEW p \in Nat, low * L = W * q + p
    PROVE  (high * W + low) * (H * W + L)
             = (W * W) * (high * H) + W * (q + high * L + low * H) + p
<1>1. (high * W + low) * (H * W + L)
        = (high * W) * (H * W) + (high * W) * L + low * (H * W) + low * L
  OBVIOUS
<1>2. (high * W) * (H * W) = (W * W) * (high * H)
  OBVIOUS
<1>3. (high * W) * L = W * (high * L) /\ low * (H * W) = W * (low * H)
  OBVIOUS
<1>4. W * (q + high * L + low * H) = W * q + W * (high * L) + W * (low * H)
  OBVIOUS
<1>5. /\ (W * W) * (high * H) \in Nat /\ W * q \in Nat
      /\ W * (high * L) \in Nat /\ W * (low * H) \in Nat
  OBVIOUS
<1> QED BY <1>1, <1>2, <1>3, <1>4, <1>5

(* The remainder of W * W * x + W * h + p + 1 by W * W, from those of h     *)
(* and p + 1 by W; a p of W - 1 carries into the high half.                 *)
RemainderOfHalves(W, h, p) ==
    LET m == (h % W) * W + ((p + 1) % W)
    IN  IF p = W - 1 THEN (m + W) % (W * W) ELSE m

RemainderIsOfHalves(W, x, h, p) ==
    ((W * W) * x + W * h + p + 1) % (W * W) = RemainderOfHalves(W, h, p)

LEMMA HalvesRemainder ==
    ASSUME NEW W \in Nat, W > 1, NEW x \in Nat, NEW h \in Nat, NEW p \in Nat, p < W
    PROVE  RemainderIsOfHalves(W, x, h, p)
<1> DEFINE hq == h \div W
           hr == h % W
           S  == W * W
           n  == S * x + W * h + p + 1
           m  == hr * W + ((p + 1) % W)
<1>1. hq \in Nat /\ hr \in Nat /\ h = W * hq + hr /\ hr < W
  BY DivMod
<1>2. S \in Nat /\ S > 0
  BY ProductMonotone
<1> HIDE DEF hq, hr
<1>3. W * h = S * hq + W * hr
  BY <1>1
<1>4. W * (hr + 1) <= S /\ W * (hr + 1) = W * hr + W
  BY <1>1, ProductMonotone
<1>5. W * hr \in Nat /\ hr * W = W * hr /\ S * (x + hq) = S * x + S * hq
      /\ S * x \in Nat /\ S * hq \in Nat /\ x + hq \in Nat
  BY <1>1, <1>2
<1>6. n = S * (x + hq) + W * hr + p + 1
  BY <1>2, <1>3, <1>5
<1> SUFFICES n % S = IF p = W - 1 THEN (m + W) % S ELSE m
  BY DEF hr, RemainderIsOfHalves, RemainderOfHalves
<1> HIDE DEF S
<1>7. CASE p # W - 1
  <2>1. p + 1 < W /\ (p + 1) % W = p + 1
    BY <1>7
  <2>2. m = W * hr + p + 1
    BY <1>5, <2>1
  <2>3. W * hr + p + 1 \in Nat /\ W * hr + p + 1 < S
    BY <1>2, <1>4, <1>5, <2>1
  <2>4. n \in Nat /\ n = S * (x + hq) + (W * hr + p + 1)
    BY <1>2, <1>5, <1>6
  <2> HIDE DEF n
  <2>5. n % S = W * hr + p + 1
    BY <1>2, <1>5, <2>3, <2>4, DivModUnique
  <2> QED BY <1>7, <2>2, <2>5
<1>8. CASE p = W - 1
  <2>1. (p + 1) % W = 0
    BY <1>8
  <2>2. m + W = W * hr + W /\ m + W \in Nat
    BY <1>5, <2>1
  <2>3. n \in Nat /\ n = S * (x + hq) + (W * hr + W)
    BY <1>2, <1>5, <1>6, <1>8
  <2> HIDE DEF n, m
  <2>4. CASE W * hr + W < S
    <3> W * hr + W \in Nat
      BY <1>5
    <3>1. n % S = W * hr + W
      BY <1>2, <1>5, <2>3, <2>4, DivModUnique
    <3>2. (m + W) % S = W * hr + W
      <4>1. m + W = S * 0 + (W * hr + W)
        BY <1>2, <1>5, <2>2
      <4> QED BY <1>2, <1>5, <2>2, <2>4, <4>1, DivModUnique
    <3> QED BY <1>8, <3>1, <3>2
  <2>5. CASE W * hr + W = S
    <3>1. n % S = 0
      <4>1. n = S * (x + hq + 1) + 0 /\ x + hq + 1 \in Nat
        BY <1>2, <1>5, <2>3, <2>5
      <4> QED BY <1>2, <2>3, <4>1, DivModUnique
    <3>2. (m + W) % S = 0
      <4>1. m + W = S * 1 + 0
        BY <1>2, <1>5, <2>2, <2>5
      <4> QED BY <1>2, <2>2, <4>1, DivModUnique
    <3> QED BY <1>8, <3>1, <3>2
  <2> QED BY <1>2, <1>4, <1>5, <2>4, <2>5
<1> QED BY <1>7, <1>8

\* One step of the double word, by steps of its halves.
StepIsOfHalves(W, high, low, H, L) ==
    ((high * W + low) * (H * W + L) + 1) % (W * W)
        = RemainderOfHalves(W, (low * L) \div W + high * L + low * H, (low * L) % W)

LEMMA HalvesStep ==
    ASSUME NEW W \in Nat, W > 1, NEW high \in Nat, NEW low \in Nat, NEW H \in Nat, NEW L \in Nat
    PROVE  StepIsOfHalves(W, high, low, H, L)
<1> DEFINE v == low * L
           p == v % W
           q == v \div W
           h == q + high * L + low * H
           x == high * H
           y == (high * W + low) * (H * W + L)
<1>1. v \in Nat /\ x \in Nat /\ high * L \in Nat /\ low * H \in Nat
  OBVIOUS
<1>2. v = W * q + p /\ p \in Nat /\ q \in Nat /\ p < W
  <2> HIDE DEF v
  <2> QED BY <1>1, DivMod
<1> HIDE DEF p, q
<1>3. h \in Nat
  BY <1>1, <1>2
<1>4. y = (W * W) * x + W * h + p
  BY <1>2, HalvesProduct
<1>5. y + 1 = (W * W) * x + W * h + p + 1
  BY <1>4
<1> HIDE DEF x, h, y
<1>6. RemainderIsOfHalves(W, x, h, p)
  BY <1>1, <1>2, <1>3, HalvesRemainder
<1>7. (y + 1) % (W * W) = RemainderOfHalves(W, h, p)
  BY <1>5, <1>6 DEF RemainderIsOfHalves
<1> QED BY <1>7 DEF StepIsOfHalves, y, h, p, q

(* One call of eo_rand on the double word.                                  *)
LEMMA AdvancedIsStepped ==
    ASSUME NEW w \in Words
    PROVE  Stepped(DoubleWord(w)) =
             IF (w.low * LowFactor) % RandSize = RandSize - 1
             THEN (DoubleWord(Advanced(w)) + RandSize) % (RandSize * RandSize)
             ELSE DoubleWord(Advanced(w))
<1> DEFINE p == (w.low * LowFactor) % RandSize
           h == (w.low * LowFactor) \div RandSize + w.high * LowFactor + w.low * HighFactor
<1>1. /\ RandSize \in Nat /\ RandSize > 1 /\ HighFactor \in Nat /\ LowFactor \in Nat
      /\ w.low \in Nat /\ w.high \in Nat
  BY RngAssumption DEF Words, Word
<1>2. DoubleWord(Advanced(w)) = (h % RandSize) * RandSize + ((p + 1) % RandSize)
  BY DEF Advanced, DoubleWord
<1>3. Stepped(DoubleWord(w)) =
        ((w.high * RandSize + w.low) * (HighFactor * RandSize + LowFactor) + 1)
          % (RandSize * RandSize)
  BY DEF Stepped, DoubleWord
<1>4. StepIsOfHalves(RandSize, w.high, w.low, HighFactor, LowFactor)
  BY <1>1, HalvesStep
<1> QED BY <1>2, <1>3, <1>4 DEF StepIsOfHalves, RemainderOfHalves

-----------------------------------------------------------------------------
(* What a call leaves.  The inductive invariant is the conjunction of the   *)
(* properties: each speaks of the last call, and the words are words.       *)
DrawInv ==
    /\ DrawTypeOK
    /\ WithinRange
    /\ LuckDecidesNothing
    /\ PeerRecoversStart
    /\ AnswerFitsThree

\* A call that neither draws from a range, nor splits, nor hashes.
LEMMA PlainCall ==
    ASSUME NEW op \in {"srand", "rand", "challenge"}, NEW args, NEW result, NEW value,
           Call(op, args, result, value), words' \in Words,
           op # "srand" => value \in Word
    PROVE  DrawInv'
<1>1. last'.op = op /\ last'.value = value
  BY DEF Call
<1>2. last'.op \notin DrawOps /\ last'.op \notin SplitOps /\ last'.op # "hash"
  BY <1>1 DEF DrawOps, SplitOps
<1>3. DrawTypeOK'
  BY <1>1, <1>2 DEF DrawTypeOK, Plain
<1> QED BY <1>2, <1>3
        DEF DrawInv, WithinRange, LuckDecidesNothing, PeerRecoversStart, AnswerFitsThree

LEMMA DrawCall ==
    ASSUME DrawInv, NEW op \in DrawOps, NEW min \in Word, NEW max \in Word,
           DrawFrom(op, min, max)
    PROVE  DrawInv'
<1> DEFINE draw == RandRange(words, min, max)
<1>1. words \in Words
  BY DEF DrawInv, DrawTypeOK
<1>2. words' = draw.words /\ last'.op = op /\ last'.args = <<min, max>>
      /\ last'.value = draw.value
  BY DEF DrawFrom, Call
<1>3. draw.words \in Words
  BY <1>1, RandRangeWords
<1>4. last'.args[1] = min /\ last'.args[2] = max
  BY <1>2
<1>5. last'.op \in DrawOps /\ last'.op \notin SplitOps /\ last'.op # "hash"
  BY <1>2 DEF DrawOps, SplitOps
<1>6. draw.value \in Word \cup {None}
  <2>1. CASE min > max
    BY <2>1 DEF RandRange
  <2>2. CASE ~(min > max)
    <3> DEFINE range == (max - min + 1) % RandSize
               d == Drawn(Advanced(words))
    <3>1. min \in Nat /\ max - min + 1 \in Nat /\ RandSize \in Nat /\ RandSize > 0
      BY <2>2, RngAssumption DEF Word
    <3>2. range \in Nat /\ d \in Nat
      BY <1>1, <3>1, DivMod, WordsType DEF Word
    <3>3. draw.value = IF range = 0 THEN None ELSE (min + (d % range)) % RandSize
      BY <2>2 DEF RandRange
    <3> HIDE DEF range, d, draw
    <3>4. CASE range = 0
      BY <3>3, <3>4
    <3>5. CASE range # 0
      <4>1. d % range \in Nat
        BY <3>2, <3>5, DivMod
      <4> QED BY <3>1, <3>3, <3>5, <4>1, ModType
    <3> QED BY <3>4, <3>5
  <2> QED BY <2>1, <2>2
<1>7. DrawTypeOK'
  BY <1>2, <1>3, <1>5, <1>6 DEF DrawTypeOK, DrawOps, SplitOps
<1>8. WithinRange'
  <2> SUFFICES ASSUME min <= max, <<min, max>> # <<0, RandSize - 1>>
               PROVE  draw.value # None /\ draw.value >= min /\ draw.value <= max
    BY <1>2, <1>4 DEF WithinRange
  <2>1. draw.value \in min .. max
    BY <1>1, RandRangeFacts
  <2>2. min \in Int /\ max \in Int
    BY RngAssumption DEF Word
  <2> HIDE DEF draw
  <2> QED BY <2>1, <2>2, DrawsAssumption
<1> QED BY <1>5, <1>7, <1>8
        DEF DrawInv, LuckDecidesNothing, PeerRecoversStart, AnswerFitsThree

LEMMA SplitCall ==
    ASSUME DrawInv, NEW op \in SplitOps, NEW n \in Int, NEW low, NEW high, NEW b,
           Split(op, n, RandRange(words, low, high), b),
           b.bytes \in Seq(0 .. MaxDigit),
           b.result = "EO_SUCCESS" <=> n \in Expressible(op),
           b.result = "EO_SUCCESS" =>
               n = IF op = "init" THEN StartFromInit(b.bytes[1], b.bytes[2])
                                  ELSE StartFromPing(b.bytes[1], b.bytes[2])
    PROVE  DrawInv'
<1>1. words' \in Words
  BY RandRangeWords DEF DrawInv, DrawTypeOK, Split
<1>2. /\ last'.op = op /\ last'.args = <<n>>
      /\ last'.result = b.result /\ last'.value = b.bytes
  BY DEF Split, Call
<1>3. last'.args[1] = n
  BY <1>2
<1>4. last'.op \notin DrawOps /\ last'.op # "hash" /\ last'.op \notin {"rand", "challenge"}
  BY <1>2 DEF DrawOps, SplitOps
<1>5. DrawTypeOK'
  BY <1>1, <1>2, <1>4 DEF DrawTypeOK, SplitOps
<1>6. LuckDecidesNothing' /\ PeerRecoversStart'
  BY <1>2, <1>3 DEF LuckDecidesNothing, PeerRecoversStart
<1> QED BY <1>4, <1>5, <1>6 DEF DrawInv, WithinRange, AnswerFitsThree

LEMMA AnswerCall ==
    ASSUME DrawInv, NEW n \in Challenges, Answer(n)
    PROVE  DrawInv'
<1>1. n \in Nat
  BY DrawsAssumption
<1>2. words' = words /\ last'.op = "hash" /\ last'.args = <<n>>
      /\ last'.value = VerificationHash(n)
  BY DEF Answer, Call
<1>3. last'.args[1] = n
  BY <1>2
<1>4. AnswerFitsThree'
  BY <1>1, <1>2, <1>3, HashFacts DEF AnswerFitsThree
<1>5. last'.op \notin DrawOps /\ last'.op \notin SplitOps
  BY <1>2 DEF DrawOps, SplitOps
<1>6. DrawTypeOK'
  BY <1>2, <1>5 DEF DrawInv, DrawTypeOK, Plain
<1> QED BY <1>4, <1>5, <1>6 DEF DrawInv, WithinRange, LuckDecidesNothing, PeerRecoversStart

LEMMA DrawInvHolds == DrawSpec => []DrawInv
<1>1. DrawInit => DrawInv
  <2> SUFFICES ASSUME DrawInit PROVE DrawInv
    OBVIOUS
  <2>1. words \in Words /\ last.op = "none"
    BY WordsType DEF DrawInit
  <2>2. last.op \notin DrawOps /\ last.op \notin SplitOps /\ last.op # "hash"
        /\ last.op \notin DrawOps \cup {"rand", "challenge"} /\ last.op \in Plain
    BY <2>1 DEF DrawOps, SplitOps, Plain
  <2> QED BY <2>1, <2>2
          DEF DrawInv, DrawTypeOK, WithinRange, LuckDecidesNothing, PeerRecoversStart,
              AnswerFitsThree
<1>2. DrawInv /\ [DrawNext]_drawVars => DrawInv'
  <2> SUFFICES ASSUME DrawInv, [DrawNext]_drawVars PROVE DrawInv'
    OBVIOUS
  <2>1. words \in Words
    BY DEF DrawInv, DrawTypeOK
  <2>2. CASE UNCHANGED drawVars
    <3>1. words' = words /\ last' = last
      BY <2>2 DEF drawVars
    <3>2. DrawTypeOK' /\ WithinRange'
      BY <3>1 DEF DrawInv, DrawTypeOK, WithinRange
    <3>3. LuckDecidesNothing' /\ PeerRecoversStart' /\ AnswerFitsThree'
      BY <3>1 DEF DrawInv, LuckDecidesNothing, PeerRecoversStart, AnswerFitsThree
    <3> QED BY <3>2, <3>3 DEF DrawInv
  <2>3. ASSUME NEW seed \in Seeds, Srand(seed) PROVE DrawInv'
    <3>1. Seeded(seed) \in Words
      BY WordsType, DrawsAssumption
    <3> QED BY <2>3, <3>1, PlainCall DEF Srand
  <2>4. CASE Rand
    <3>1. words' \in Words /\ Drawn(words') \in Word
      BY <2>1, <2>4, WordsType DEF Rand
    <3> QED BY <2>4, <3>1, PlainCall DEF Rand
  <2>5. ASSUME NEW range \in Ranges, DrawRange(range[1], range[2]) PROVE DrawInv'
    <3>1. range[1] \in Word /\ range[2] \in Word
      BY DrawsAssumption
    <3> QED BY <2>5, <3>1, DrawCall DEF DrawRange, DrawOps
  <2>6. CASE GenerateStart
    <3>1. 0 \in Word /\ CharMax - 9 \in Word
      BY NumberAssumption, DrawsAssumption, RngAssumption DEF Word
    <3> QED BY <2>6, <3>1, DrawCall DEF GenerateStart, DrawOps
  <2>7. CASE GenerateSwapMultiple
    <3>1. 6 \in Word /\ 12 \in Word
      BY DrawsAssumption, RngAssumption DEF Word
    <3> QED BY <2>7, <3>1, DrawCall DEF GenerateSwapMultiple, DrawOps
  <2>8. CASE GenerateChallenge
    <3>1. words' \in Words /\ Drawn(words') \in Word
      BY <2>1, <2>8, WordsType DEF GenerateChallenge
    <3>2. Drawn(words') % ChallengeLimit \in Word
      <4> DEFINE d == Drawn(words')
      <4>1. d \in Nat /\ d < RandSize
        BY <3>1, RngAssumption DEF Word
      <4> HIDE DEF d
      <4>2. d % ChallengeLimit \in Nat /\ d % ChallengeLimit <= d
        BY <4>1, DrawsAssumption
      <4> QED BY <4>1, <4>2, RngAssumption DEF Word, d
    <3> QED BY <2>8, <3>1, <3>2, PlainCall DEF GenerateChallenge
  <2>9. ASSUME NEW n \in Starts, SplitInit(n) PROVE DrawInv'
    <3>1. n \in Int
      BY DrawsAssumption
    <3> QED BY <2>1, <2>9, <3>1, InitBytesFacts, SplitCall DEF SplitInit, SplitOps
  <2>10. ASSUME NEW n \in Starts, SplitPing(n) PROVE DrawInv'
    <3>1. n \in Int
      BY DrawsAssumption
    <3> QED BY <2>1, <2>10, <3>1, PingBytesFacts, SplitCall DEF SplitPing, SplitOps
  <2>11. ASSUME NEW n \in Challenges, Answer(n) PROVE DrawInv'
    BY <2>11, AnswerCall
  <2> QED BY <2>2, <2>3, <2>4, <2>5, <2>6, <2>7, <2>8, <2>9, <2>10, <2>11 DEF DrawNext
<1> QED BY <1>1, <1>2, PTL DEF DrawSpec

\* The words are words, and the bytes of a split digits a byte can carry.
THEOREM SplitsAreDigits == DrawSpec => []DrawTypeOK
<1>1. DrawInv => DrawTypeOK
  BY DEF DrawInv
<1> QED BY <1>1, DrawInvHolds, PTL

(* eo_rand_range keeps to its range, at both ends and for every range but   *)
(* the one of all words, whatever was drawn before.                         *)
THEOREM DrawsStayInRange == DrawSpec => []WithinRange
<1>1. DrawInv => WithinRange
  BY DEF DrawInv
<1> QED BY <1>1, DrawInvHolds, PTL

(* eo_sequence_init_bytes and eo_sequence_ping_bytes succeed for exactly    *)
(* the starts two digits can express, whatever the generator draws: the     *)
(* check of the second byte never turns down a start that has a split.      *)
THEOREM SplitIsComplete == DrawSpec => []LuckDecidesNothing
<1>1. DrawInv => LuckDecidesNothing
  BY DEF DrawInv
<1> QED BY <1>1, DrawInvHolds, PTL

(* eo_sequence_start_from_init and eo_sequence_start_from_ping undo the     *)
(* split, whatever was drawn.                                               *)
THEOREM SplitRoundTrip == DrawSpec => []PeerRecoversStart
<1>1. DrawInv => PeerRecoversStart
  BY DEF DrawInv
<1> QED BY <1>1, DrawInvHolds, PTL

(* eo_server_verification_hash gives every challenge up to the magic number *)
(* of its formula an answer that three bytes can carry.                     *)
THEOREM AnswerFits == DrawSpec => []AnswerFitsThree
<1>1. DrawInv => AnswerFitsThree
  BY DEF DrawInv
<1> QED BY <1>1, DrawInvHolds, PTL

(* eo_rand on two words is one step of a double word, but for the carry it  *)
(* loses, for every word size and both factors; and nothing else moves the  *)
(* words.                                                                   *)
THEOREM WordsStepAsOne == DrawSpec => StepsAreDoubleWords
<1>1. DrawInv /\ [DrawNext]_drawVars => [DoubleWordStep]_drawVars
  <2> SUFFICES ASSUME DrawInv, DrawNext PROVE DoubleWordStep
    OBVIOUS
  <2>1. words \in Words
    BY DEF DrawInv, DrawTypeOK
  <2>2. words' = Advanced(words) => DoubleWordStep
    BY <2>1, AdvancedIsStepped DEF DoubleWordStep
  <2>3. ASSUME NEW low, NEW high, words' = RandRange(words, low, high).words
        PROVE  DoubleWordStep
    <3>1. words' \in {words, Advanced(words)}
      BY <2>1, <2>3, RandRangeWords
    <3> QED BY <2>2, <3>1 DEF DoubleWordStep
  <2>4. ASSUME NEW seed \in Seeds, Srand(seed) PROVE DoubleWordStep
    BY <2>4 DEF Srand, Call, DoubleWordStep
  <2>5. CASE Rand \/ GenerateChallenge
    BY <2>2, <2>5 DEF Rand, GenerateChallenge
  <2>6. ASSUME NEW range \in Ranges, DrawRange(range[1], range[2]) PROVE DoubleWordStep
    BY <2>3, <2>6 DEF DrawRange, DrawFrom
  <2>7. CASE GenerateStart \/ GenerateSwapMultiple
    BY <2>3, <2>7 DEF GenerateStart, GenerateSwapMultiple, DrawFrom
  <2>8. ASSUME NEW n \in Starts, SplitInit(n) \/ SplitPing(n) PROVE DoubleWordStep
    BY <2>3, <2>8 DEF SplitInit, SplitPing, Split
  <2>9. ASSUME NEW n \in Challenges, Answer(n) PROVE DoubleWordStep
    BY <2>9 DEF Answer, DoubleWordStep
  <2> QED BY <2>4, <2>5, <2>6, <2>7, <2>8, <2>9 DEF DrawNext
<1> QED BY <1>1, DrawInvHolds, PTL DEF DrawSpec, StepsAreDoubleWords

-----------------------------------------------------------------------------
(* Sessions.                                                                *)
\* The start a message to the client stands for.
Meant(m) == IF m.kind = "init" THEN StartFromInit(m.bytes[1], m.bytes[2])
                               ELSE StartFromPing(m.bytes[1], m.bytes[2])

Announcements == {m \in [kind : {"init", "ping"}, bytes : Seq(Int)] :
                     Meant(m) \in GeneratedStarts}

\* Packets that carry the stamp they should.
StampedPackets == {p \in PacketType : /\ p.start \in GeneratedStarts
                                      /\ p.stamp = Stamp(StampedValue(p))}

\* A sequencer that has given out n values.
InUse(s, n) == /\ s \in Sequencer /\ s.start \in GeneratedStarts
               /\ s.counter = n % 10

Verdict(c) ==
    /\ c.packet \in StampedPackets /\ c.start \in Int /\ c.due \in Nat
    /\ c.accepted => DecodeNumber(c.packet.stamp) = c.start + (c.due % 10)

Inv ==
    /\ sent \in Nat /\ received \in Nat
    /\ IF server = Absent THEN received = 0 ELSE InUse(server, received)
    /\ client # Absent => InUse(client, sent) /\ server # Absent
    /\ upcoming # Absent => upcoming \in GeneratedStarts
    /\ toClient \in Seq(Announcements)
    /\ toServer \in Seq(StampedPackets)
    /\ (toClient # << >> \/ toServer # << >>) => server # Absent
    /\ checked # Absent => Verdict(checked)

-----------------------------------------------------------------------------
LEMMA CharMaxSmall == CharMax \in Nat /\ CharMax >= 10 /\ CharMax + 1 < HalfWord
<1>1. CharMax \in Nat /\ CharMax >= 10 /\ WordSize \in Nat
  BY NumberAssumption, SessionAssumption
<1> DEFINE x == ThreeMax + ShortMax + CharMax + 1
<1>2. x \in Nat /\ 4 <= x
  BY <1>1, NumberTypes
<1>3. (CharMax + 1) * x < WordSize
  BY NumberAssumption
<1> HIDE DEF x
<1>4. (CharMax + 1) * 4 <= (CharMax + 1) * x
  BY <1>1, <1>2, ProductMonotone
<1>5. (CharMax + 1) * x \in Nat
  BY <1>1, <1>2
<1> QED BY <1>1, <1>3, <1>4, <1>5 DEF HalfWord

\* Stamps up to the base are numbers, and those below it survive the wire.
LEMMA StampFacts ==
    ASSUME NEW value \in 0 .. CharMax
    PROVE  /\ value \in Int32
           /\ Stamp(value) \in Seq(Byte)
           /\ value < CharMax => DecodeNumber(Stamp(value)) = value
<1>1. value \in Int32
  BY CharMaxSmall, NumberTypes DEF Int32
<1>2. Stamp(value) \in Seq(Byte)
  BY <1>1, EncodedWidth DEF Stamp
<1>3. ASSUME value < CharMax PROVE DecodeNumber(Stamp(value)) = value
  <2>1. Representable(1, value)
    BY <1>3, CharMaxSmall DEF Representable, WidthMax
  <2> QED BY <1>1, <2>1, NumberRoundTrip DEF Stamp
<1> QED BY <1>1, <1>2, <1>3

LEMMA StartFacts ==
    GeneratedStarts \subseteq Nat /\ \A s \in GeneratedStarts, c \in 0 .. 9 : s + c \in 0 .. CharMax
BY CharMaxSmall DEF GeneratedStarts

LEMMA FreshFacts ==
    ASSUME NEW start \in GeneratedStarts
    PROVE  SequencerInit(start) # Absent /\ InUse(SequencerInit(start), 0)
<1>1. start \in Int
  BY StartFacts
<1>2. SequencerInit(start) \in Sequencer
  BY <1>1 DEF SequencerInit, Sequencer
<1> QED BY <1>2, SessionAssumption DEF InUse, SequencerInit

\* One value further.
LEMMA NextFacts ==
    ASSUME NEW s, NEW n \in Nat, InUse(s, n)
    PROVE  /\ SequencerNext(s) # Absent
           /\ InUse(SequencerNext(s), n + 1)
           /\ SequencerNext(s).start = s.start
           /\ SequencerValue(s) = s.start + ((n + 1) % 10)
           /\ SequencerValue(s) \in 0 .. CharMax
<1>1. s \in Sequencer /\ s.start \in GeneratedStarts /\ s.counter = n % 10 /\ s.start \in Int
  BY DEF InUse, Sequencer
<1>2. ((n % 10) + 1) % 10 = (n + 1) % 10 /\ (n + 1) % 10 \in 0 .. 9
  OBVIOUS
<1>3. SequencerNext(s) = [s EXCEPT !.counter = (n + 1) % 10]
  BY <1>1, <1>2 DEF SequencerNext
<1>4. /\ SequencerNext(s) \in Sequencer
      /\ SequencerNext(s).start = s.start
      /\ SequencerNext(s).counter = (n + 1) % 10
  BY <1>1, <1>2, <1>3 DEF Sequencer
<1>5. SequencerValue(s) = s.start + ((n + 1) % 10)
  BY <1>4 DEF SequencerValue
<1>6. SequencerValue(s) \in 0 .. CharMax
  BY <1>1, <1>2, <1>5, StartFacts
<1> QED BY <1>1, <1>4, <1>5, <1>6, SessionAssumption DEF InUse

LEMMA PacketFacts ==
    ASSUME NEW kind \in {"data", "pong"}, NEW s, NEW n \in Nat, InUse(s, n)
    PROVE  Packet(kind, s, n + 1) \in StampedPackets
<1> DEFINE p == Packet(kind, s, n + 1)
<1>1. /\ SequencerValue(s) = s.start + ((n + 1) % 10)
      /\ SequencerValue(s) \in 0 .. CharMax
  BY NextFacts
<1>2. p = [kind |-> kind, stamp |-> Stamp(SequencerValue(s)),
           start |-> s.start, index |-> n + 1]
  BY DEF Packet
<1>3. Stamp(SequencerValue(s)) \in Seq(Byte)
  BY <1>1, StampFacts
<1>4. s.start \in GeneratedStarts /\ s.start \in Int
  BY DEF InUse, Sequencer
<1> HIDE DEF p
<1>5. p \in PacketType
  BY <1>2, <1>3, <1>4 DEF PacketType
<1>6. StampedValue(p) = SequencerValue(s)
  BY <1>1, <1>2 DEF StampedValue
<1>7. p \in StampedPackets
  BY <1>2, <1>4, <1>5, <1>6 DEF StampedPackets
<1> QED BY <1>7 DEF p

\* The network makes no packets of its own.
LEMMA DisturbedFacts ==
    ASSUME NEW S, NEW s \in Seq(S), s # << >>
    PROVE  Disturbed(s) \subseteq Seq(S)
<1> DEFINE n == Len(s)
<1>1. n \in Nat /\ n > 0 /\ \A k \in 1 .. n : s[k] \in S
  OBVIOUS
<1> SUFFICES ASSUME NEW t \in Disturbed(s) PROVE t \in Seq(S)
  OBVIOUS
<1>2. CASE \E i \in 1 .. n : t = [k \in 1 .. n - 1 |-> IF k < i THEN s[k] ELSE s[k + 1]]
  <2>1. PICK i \in 1 .. n : t = [k \in 1 .. n - 1 |-> IF k < i THEN s[k] ELSE s[k + 1]]
    BY <1>2
  <2> HIDE DEF n
  <2>2. n - 1 \in Nat /\ t \in [1 .. n - 1 -> S]
    BY <1>1, <2>1
  <2> QED BY <2>2, SeqDef
<1>3. CASE \E i \in 1 .. n : t = [k \in 1 .. n + 1 |-> IF k <= i THEN s[k] ELSE s[k - 1]]
  <2>1. PICK i \in 1 .. n : t = [k \in 1 .. n + 1 |-> IF k <= i THEN s[k] ELSE s[k - 1]]
    BY <1>3
  <2> HIDE DEF n
  <2>2. n + 1 \in Nat /\ t \in [1 .. n + 1 -> S]
    BY <1>1, <2>1
  <2> QED BY <2>2, SeqDef
<1>4. CASE \E i \in 1 .. n - 1 : t = [s EXCEPT ![i] = s[i + 1], ![i + 1] = s[i]]
  <2>1. PICK i \in 1 .. n - 1 : t = [s EXCEPT ![i] = s[i + 1], ![i + 1] = s[i]]
    BY <1>4
  <2>2. s \in [1 .. n -> S]
    OBVIOUS
  <2> HIDE DEF n
  <2>3. i \in 1 .. n /\ i + 1 \in 1 .. n
    BY <1>1, <2>1
  <2>4. t \in [1 .. n -> S]
    BY <1>1, <2>1, <2>2, <2>3
  <2> QED BY <1>1, <2>4, SeqDef
<1> QED BY <1>2, <1>3, <1>4 DEF Disturbed

-----------------------------------------------------------------------------
\* What a split that succeeded announces.
LEMMA SplitFacts ==
    ASSUME NEW start \in GeneratedStarts, NEW seq1 \in Int
    PROVE  /\ InitBytes(start, seq1).result = "EO_SUCCESS" =>
                  LET m == [kind |-> "init", bytes |-> InitBytes(start, seq1).bytes]
                  IN  m \in Announcements /\ Meant(m) = start
           /\ PingBytes(start, seq1).result = "EO_SUCCESS" =>
                  LET m == [kind |-> "ping", bytes |-> PingBytes(start, seq1).bytes]
                  IN  m \in Announcements /\ Meant(m) = start
<1>1. start \in Int
  BY StartFacts
<1>2. ASSUME InitBytes(start, seq1).result = "EO_SUCCESS"
      PROVE  /\ [kind |-> "init", bytes |-> InitBytes(start, seq1).bytes] \in Announcements
             /\ Meant([kind |-> "init", bytes |-> InitBytes(start, seq1).bytes]) = start
  <2> DEFINE m == [kind |-> "init", bytes |-> <<seq1, start - seq1 * 7 + 13>>]
  <2>1. InitBytes(start, seq1).bytes = <<seq1, start - seq1 * 7 + 13>>
    BY <1>2 DEF InitBytes, SequenceBytes
  <2>2. StartFromInit(seq1, start - seq1 * 7 + 13) = start
    BY <1>1 DEF StartFromInit
  <2>3. m \in [kind : {"init", "ping"}, bytes : Seq(Int)] /\ Meant(m) = start
    BY <1>1, <2>2 DEF Meant
  <2> QED BY <2>1, <2>3 DEF Announcements
<1>3. ASSUME PingBytes(start, seq1).result = "EO_SUCCESS"
      PROVE  /\ [kind |-> "ping", bytes |-> PingBytes(start, seq1).bytes] \in Announcements
             /\ Meant([kind |-> "ping", bytes |-> PingBytes(start, seq1).bytes]) = start
  <2> DEFINE m == [kind |-> "ping", bytes |-> <<seq1, seq1 - start>>]
  <2>1. PingBytes(start, seq1).bytes = <<seq1, seq1 - start>>
    BY <1>3 DEF PingBytes, SequenceBytes
  <2>2. StartFromPing(seq1, seq1 - start) = start
    BY <1>1 DEF StartFromPing
  <2>3. m \in [kind : {"init", "ping"}, bytes : Seq(Int)] /\ Meant(m) = start
    BY <1>1, <2>2 DEF Meant
  <2> QED BY <2>1, <2>3 DEF Announcements
<1> QED BY <1>2, <1>3

LEMMA BoundTypes ==
    \A n \in GeneratedStarts : /\ InitLow(n) .. InitHigh(n) \subseteq Int
                               /\ PingLow(n) .. PingHigh(n) \subseteq Int
OBVIOUS

LEMMA ServerStartStep == Inv /\ ServerStart => Inv'
<1> SUFFICES ASSUME Inv, ServerStart PROVE Inv'
  OBVIOUS
<1>1. PICK start \in GeneratedStarts : \E seq1 \in InitLow(start) .. InitHigh(start) :
          /\ InitBytes(start, seq1).result = "EO_SUCCESS"
          /\ server' = SequencerInit(start)
          /\ toClient' = Append(toClient, [kind |-> "init", bytes |-> InitBytes(start, seq1).bytes])
  BY DEF ServerStart
<1>2. toClient' \in Seq(Announcements)
  <2>1. PICK seq1 \in InitLow(start) .. InitHigh(start) :
          /\ InitBytes(start, seq1).result = "EO_SUCCESS"
          /\ toClient' = Append(toClient, [kind |-> "init", bytes |-> InitBytes(start, seq1).bytes])
    BY <1>1
  <2>2. [kind |-> "init", bytes |-> InitBytes(start, seq1).bytes] \in Announcements
    BY <2>1, SplitFacts, BoundTypes
  <2> QED BY <2>1, <2>2 DEF Inv
<1>3. server' # Absent /\ InUse(server', 0)
  BY <1>1, FreshFacts
<1>4. server = Absent /\ UNCHANGED <<client, upcoming, toServer, sent, received, checked>>
  BY DEF ServerStart
<1>5. client = Absent
  BY <1>4 DEF Inv
<1>6. received' = 0
  BY <1>4 DEF Inv
<1> QED BY <1>2, <1>3, <1>4, <1>5, <1>6 DEF Inv

LEMMA ServerPingStep == Inv /\ ServerPing => Inv'
<1> SUFFICES ASSUME Inv, ServerPing PROVE Inv'
  OBVIOUS
<1>1. PICK start \in GeneratedStarts : \E seq1 \in PingLow(start) .. PingHigh(start) :
          /\ PingBytes(start, seq1).result = "EO_SUCCESS"
          /\ upcoming' = start
          /\ toClient' = Append(toClient, [kind |-> "ping", bytes |-> PingBytes(start, seq1).bytes])
  BY DEF ServerPing
<1>2. toClient' \in Seq(Announcements)
  <2>1. PICK seq1 \in PingLow(start) .. PingHigh(start) :
          /\ PingBytes(start, seq1).result = "EO_SUCCESS"
          /\ toClient' = Append(toClient, [kind |-> "ping", bytes |-> PingBytes(start, seq1).bytes])
    BY <1>1
  <2>2. [kind |-> "ping", bytes |-> PingBytes(start, seq1).bytes] \in Announcements
    BY <2>1, SplitFacts, BoundTypes
  <2> QED BY <2>1, <2>2 DEF Inv
<1>3. upcoming' \in GeneratedStarts
  BY <1>1
<1>4. server # Absent /\ UNCHANGED <<server, client, toServer, sent, received, checked>>
  BY DEF ServerPing
<1> QED BY <1>2, <1>3, <1>4 DEF Inv

\* The first message to the client, and what is left.
LEMMA HeadMeant ==
    ASSUME Inv, toClient # << >>
    PROVE  /\ Meant(Head(toClient)) \in GeneratedStarts
           /\ Head(toClient).kind \in {"init", "ping"}
           /\ Tail(toClient) \in Seq(Announcements)
<1>1. toClient \in Seq(Announcements)
  BY DEF Inv
<1>2. Head(toClient) \in Announcements /\ Tail(toClient) \in Seq(Announcements)
  BY <1>1
<1> QED BY <1>2 DEF Announcements

LEMMA ClientStartStep == Inv /\ ClientStart => Inv'
<1> SUFFICES ASSUME Inv, ClientStart PROVE Inv'
  OBVIOUS
<1>1. toClient # << >> /\ Head(toClient).kind = "init"
  BY DEF ClientStart
<1>2. client' = SequencerInit(Meant(Head(toClient)))
  BY <1>1 DEF ClientStart, Meant
<1>3. /\ Meant(Head(toClient)) \in GeneratedStarts
      /\ Tail(toClient) \in Seq(Announcements)
  BY <1>1, HeadMeant
<1>4. client' # Absent /\ InUse(client', 0)
  BY <1>2, <1>3, FreshFacts
<1>5. /\ toClient' = Tail(toClient) /\ sent' = 0
      /\ UNCHANGED <<server, upcoming, toServer, received, checked>>
  BY DEF ClientStart
<1>6. server # Absent
  BY <1>1 DEF Inv
<1> QED BY <1>3, <1>4, <1>5, <1>6 DEF Inv

LEMMA ClientSendStep == Inv /\ ClientSend => Inv'
<1> SUFFICES ASSUME Inv, ClientSend PROVE Inv'
  OBVIOUS
<1>1. /\ client # Absent
      /\ toServer' = Append(toServer, Packet("data", client, sent + 1))
      /\ client' = SequencerNext(client) /\ sent' = sent + 1
      /\ UNCHANGED <<server, upcoming, toClient, received, checked>>
  BY DEF ClientSend
<1>2. InUse(client, sent) /\ server # Absent /\ sent \in Nat
  BY <1>1 DEF Inv
<1>3. Packet("data", client, sent + 1) \in StampedPackets
  BY <1>2, PacketFacts
<1>4. toServer' \in Seq(StampedPackets)
  BY <1>1, <1>3 DEF Inv
<1>5. client' # Absent /\ InUse(client', sent')
  BY <1>1, <1>2, NextFacts
<1> QED BY <1>1, <1>2, <1>4, <1>5 DEF Inv

LEMMA ClientPongStep == Inv /\ ClientPong => Inv'
<1> SUFFICES ASSUME Inv, ClientPong PROVE Inv'
  OBVIOUS
<1> DEFINE fresh == SequencerInit(Meant(Head(toClient)))
<1>1. toClient # << >> /\ Head(toClient).kind = "ping" /\ server # Absent
  BY DEF ClientPong, Inv
<1>2. fresh = SequencerInit(StartFromPing(Head(toClient).bytes[1], Head(toClient).bytes[2]))
  BY <1>1 DEF Meant
<1>3. /\ toServer' = Append(toServer, Packet("pong", fresh, 1))
      /\ client' = SequencerNext(fresh)
      /\ toClient' = Tail(toClient) /\ sent' = 1
      /\ UNCHANGED <<server, upcoming, received, checked>>
  BY <1>2 DEF ClientPong
<1>4. /\ Meant(Head(toClient)) \in GeneratedStarts
      /\ Tail(toClient) \in Seq(Announcements)
  BY <1>1, HeadMeant
<1>5. InUse(fresh, 0)
  BY <1>4, FreshFacts
<1> HIDE DEF fresh
<1>6. Packet("pong", fresh, 1) \in StampedPackets
  <2>1. Packet("pong", fresh, 0 + 1) \in StampedPackets
    BY <1>5, PacketFacts
  <2> QED BY <2>1
<1>7. toServer' \in Seq(StampedPackets)
  BY <1>3, <1>6 DEF Inv
<1>8. client' # Absent /\ InUse(client', 1)
  <2>1. client' # Absent /\ InUse(client', 0 + 1)
    BY <1>3, <1>5, NextFacts
  <2> QED BY <2>1
<1> QED BY <1>1, <1>3, <1>4, <1>7, <1>8 DEF Inv

LEMMA ServerReceiveStep == Inv /\ ServerReceive => Inv'
<1> SUFFICES ASSUME Inv, ServerReceive PROVE Inv'
  OBVIOUS
<1> DEFINE packet == Head(toServer)
           s      == Current(packet)
           fresh  == packet.kind = "pong" /\ upcoming # Absent
           taken  == IF fresh THEN 0 ELSE received
<1>1. /\ toServer # << >>
      /\ checked' = [packet |-> packet, start |-> s.start, due |-> taken + 1,
                     accepted |-> DecodeNumber(packet.stamp) = SequencerValue(s)]
      /\ server' = SequencerNext(s)
      /\ received' = taken + 1
      /\ upcoming' = IF fresh THEN Absent ELSE upcoming
      /\ toServer' = Tail(toServer)
      /\ UNCHANGED <<client, toClient, sent>>
  BY DEF ServerReceive
<1>2. packet \in StampedPackets /\ Tail(toServer) \in Seq(StampedPackets)
  BY <1>1 DEF Inv
<1>3. server # Absent /\ InUse(server, received) /\ received \in Nat
  BY <1>1 DEF Inv
<1>4. taken \in Nat /\ InUse(s, taken)
  <2>1. CASE fresh
    <3>1. s = SequencerInit(upcoming) /\ taken = 0 /\ upcoming \in GeneratedStarts
      BY <2>1 DEF Current, Inv
    <3> QED BY <3>1, FreshFacts
  <2>2. CASE ~fresh
    <3>1. s = server /\ taken = received
      BY <2>2 DEF Current
    <3> QED BY <1>3, <3>1
  <2> QED BY <2>1, <2>2
<1> HIDE DEF packet, s, fresh, taken
<1>5. /\ SequencerNext(s) # Absent /\ InUse(SequencerNext(s), taken + 1)
      /\ SequencerValue(s) = s.start + ((taken + 1) % 10)
  BY <1>4, NextFacts
<1>6. s.start \in Int
  BY <1>4 DEF InUse, Sequencer
<1>7. Verdict(checked')
  <2>1. /\ checked'.packet = packet /\ checked'.start = s.start
        /\ checked'.due = taken + 1
    BY <1>1
  <2>2. checked'.accepted => DecodeNumber(packet.stamp) = SequencerValue(s)
    BY <1>1, Zenon
  <2>3. taken + 1 \in Nat
    BY <1>4
  <2> QED BY <1>2, <1>5, <1>6, <2>1, <2>2, <2>3 DEF Verdict
<1>8. server' # Absent /\ InUse(server', received') /\ received' \in Nat
  BY <1>1, <1>4, <1>5
<1>9. upcoming' # Absent => upcoming' \in GeneratedStarts
  BY <1>1 DEF Inv
<1> QED BY <1>1, <1>2, <1>7, <1>8, <1>9 DEF Inv

LEMMA DisturbStep == Inv /\ Disturb => Inv'
<1> SUFFICES ASSUME Inv, Disturb PROVE Inv'
  OBVIOUS
<1>1. /\ toServer # << >> /\ toServer' \in Disturbed(toServer)
      /\ UNCHANGED <<server, client, upcoming, toClient, sent, received, checked>>
  BY DEF Disturb
<1>2. toServer' \in Seq(StampedPackets) /\ server # Absent
  BY <1>1, DisturbedFacts DEF Inv
<1> QED BY <1>1, <1>2 DEF Inv

LEMMA InvHolds == Spec => []Inv
<1>1. Init => Inv
  BY DEF Init, Inv
<1>2. Inv /\ [Next]_vars => Inv'
  <2> SUFFICES ASSUME Inv, [Next]_vars PROVE Inv'
    OBVIOUS
  <2>1. CASE UNCHANGED vars
    BY <2>1 DEF vars, Inv
  <2> QED BY <2>1, ServerStartStep, ServerPingStep, ServerReceiveStep,
             ClientStartStep, ClientSendStep, ClientPongStep, DisturbStep DEF Next
<1> QED BY <1>1, <1>2, PTL DEF Spec

-----------------------------------------------------------------------------
(* The sequencers, stamps and counts have their types: counters stay below  *)
(* ten and stamps are bytes of the codec.                                   *)
THEOREM TypeCorrect == Spec => []TypeOK
<1>1. Inv => TypeOK
  <2> SUFFICES ASSUME Inv PROVE TypeOK
    OBVIOUS
  <2>1. server \in Sequencer \cup {Absent} /\ client \in Sequencer \cup {Absent}
    BY DEF Inv, InUse
  <2>2. upcoming \in Int \cup {Absent}
    <3>1. GeneratedStarts \subseteq Int
      BY StartFacts
    <3>2. upcoming = Absent \/ upcoming \in GeneratedStarts
      BY DEF Inv
    <3> QED BY <3>1, <3>2
  <2>3. StampedPackets \subseteq PacketType
    BY DEF StampedPackets
  <2>4. toServer \in Seq(PacketType)
    BY <2>3, SeqMonotonic DEF Inv
  <2>5. checked # Absent => checked.packet \in PacketType
    BY <2>3 DEF Inv, Verdict
  <2> QED BY <2>1, <2>2, <2>4, <2>5 DEF Inv, TypeOK
<1> QED BY <1>1, InvHolds, PTL

(* A packet accepted within nine of the one that is due is the one that is  *)
(* due, however many packets the network lost, repeated or reordered.       *)
THEOREM OnlyDueAccepted == Spec => []AcceptedAreDue
<1>1. Inv => AcceptedAreDue
  <2> DEFINE p == checked.packet
  <2> SUFFICES ASSUME Inv, checked # Absent, checked.accepted, p.start = checked.start,
                      StampedValue(p) < CharMax, p.index - checked.due \in -9 .. 9
               PROVE  p.index = checked.due
    BY DEF AcceptedAreDue
  <2>1. /\ p \in StampedPackets /\ checked.due \in Nat
        /\ DecodeNumber(p.stamp) = checked.start + (checked.due % 10)
    BY DEF Inv, Verdict
  <2>2. p.index \in Nat /\ p.start \in GeneratedStarts /\ p.start \in Int
        /\ p.stamp = Stamp(StampedValue(p)) /\ StampedValue(p) = p.start + (p.index % 10)
    BY <2>1 DEF StampedPackets, PacketType, StampedValue
  <2> HIDE DEF p
  <2>3. StampedValue(p) \in 0 .. CharMax
    <3>1. p.index % 10 \in 0 .. 9
      BY <2>2
    <3> QED BY <2>2, <3>1, StartFacts
  <2>4. DecodeNumber(p.stamp) = StampedValue(p)
    BY <2>2, <2>3, StampFacts
  <2>5. p.index % 10 = checked.due % 10
    BY <2>1, <2>2, <2>4
  <2> QED BY <2>1, <2>2, <2>5
<1> QED BY <1>1, InvHolds, PTL

-----------------------------------------------------------------------------
(* While the network disturbs nothing, a session is in one of four phases.  *)
(* What is on its way is laid down in each of them: which messages the      *)
(* client still gets, from which start every packet is stamped, and at      *)
(* which index.                                                             *)
Announces(m, kind, start) == m.kind = kind /\ Meant(m) = start

\* Packets first to final are data stamped from start, the k-th at index offset + k.
DataFrom(packets, first, final, start, offset) ==
    \A k \in first .. final : /\ packets[k].kind = "data" /\ packets[k].start = start
                             /\ packets[k].index = offset + k

\* At most the ping is on its way that announces the upcoming start.
PingOnly(messages) ==
    IF upcoming = Absent THEN messages = << >>
    ELSE Len(messages) = 1 /\ Announces(messages[1], "ping", upcoming)

Silent ==
    /\ server = Absent /\ client = Absent /\ upcoming = Absent
    /\ toClient = << >> /\ toServer = << >>

Greeting ==
    /\ server # Absent /\ client = Absent /\ toServer = << >> /\ received = 0
    /\ toClient # << >> /\ Announces(Head(toClient), "init", server.start)
    /\ PingOnly(Tail(toClient))

Steady ==
    /\ server # Absent /\ client # Absent /\ client.start = server.start
    /\ PingOnly(toClient)
    /\ sent = received + Len(toServer)
    /\ DataFrom(toServer, 1, Len(toServer), server.start, received)

\* The pong is the q-th packet on its way.
AnsweredAt(q) ==
    /\ toServer[q].kind = "pong" /\ toServer[q].start = upcoming /\ toServer[q].index = 1
    /\ DataFrom(toServer, 1, q - 1, server.start, received)
    /\ DataFrom(toServer, q + 1, Len(toServer), upcoming, 1 - q)
    /\ sent = Len(toServer) + 1 - q

Answered ==
    /\ server # Absent /\ client # Absent /\ upcoming # Absent /\ client.start = upcoming
    /\ toClient = << >>
    /\ \E q \in 1 .. Len(toServer) : AnsweredAt(q)

Phase == Silent \/ Greeting \/ Steady \/ Answered

\* A packet is turned away only for a stamp of EO_CHAR_MAX, and that is what was due.
Passed ==
    checked # Absent /\ ~checked.accepted =>
        /\ StampedValue(checked.packet) = CharMax
        /\ checked.packet.start = checked.start /\ checked.packet.index = checked.due

InOrder == faults \in Nat /\ (faults = 0 => Phase /\ Passed)

-----------------------------------------------------------------------------
LEMMA ServerStartOrder == Inv /\ InOrder /\ ServerStart => InOrder'
<1> SUFFICES ASSUME Inv, InOrder, ServerStart, faults = 0 PROVE Phase' /\ Passed'
  BY DEF ServerStart, InOrder
<1>1. PICK start \in GeneratedStarts : \E seq1 \in InitLow(start) .. InitHigh(start) :
          /\ InitBytes(start, seq1).result = "EO_SUCCESS"
          /\ server' = SequencerInit(start)
          /\ toClient' = Append(toClient, [kind |-> "init", bytes |-> InitBytes(start, seq1).bytes])
  BY DEF ServerStart
<1>2. PICK seq1 \in InitLow(start) .. InitHigh(start) :
          /\ InitBytes(start, seq1).result = "EO_SUCCESS"
          /\ toClient' = Append(toClient, [kind |-> "init", bytes |-> InitBytes(start, seq1).bytes])
  BY <1>1
<1> DEFINE m == [kind |-> "init", bytes |-> InitBytes(start, seq1).bytes]
<1>3. m.kind = "init" /\ Meant(m) = start /\ toClient' = Append(toClient, m)
  BY <1>2, SplitFacts, BoundTypes
<1> HIDE DEF m
<1>4. server = Absent /\ UNCHANGED <<client, upcoming, toServer, sent, received, checked>>
  BY DEF ServerStart
<1>5. Silent /\ Passed
  BY <1>4 DEF InOrder, Phase, Greeting, Steady, Answered
<1>6. Head(toClient') = m /\ Tail(toClient') = << >> /\ toClient' # << >>
  BY <1>3, <1>5 DEF Silent
<1>7. server' # Absent /\ server'.start = start /\ received' = 0
  BY <1>1, <1>4, FreshFacts DEF SequencerInit, Inv
<1>8. Greeting'
  BY <1>3, <1>4, <1>5, <1>6, <1>7 DEF Greeting, Silent, Announces, PingOnly
<1> QED BY <1>4, <1>5, <1>8 DEF Phase, Passed

LEMMA ServerPingOrder == Inv /\ InOrder /\ ServerPing => InOrder'
<1> SUFFICES ASSUME Inv, InOrder, ServerPing, faults = 0 PROVE Phase' /\ Passed'
  BY DEF ServerPing, InOrder
<1>1. PICK start \in GeneratedStarts : \E seq1 \in PingLow(start) .. PingHigh(start) :
          /\ PingBytes(start, seq1).result = "EO_SUCCESS"
          /\ upcoming' = start
          /\ toClient' = Append(toClient, [kind |-> "ping", bytes |-> PingBytes(start, seq1).bytes])
  BY DEF ServerPing
<1>2. PICK seq1 \in PingLow(start) .. PingHigh(start) :
          /\ PingBytes(start, seq1).result = "EO_SUCCESS"
          /\ toClient' = Append(toClient, [kind |-> "ping", bytes |-> PingBytes(start, seq1).bytes])
  BY <1>1
<1> DEFINE m == [kind |-> "ping", bytes |-> PingBytes(start, seq1).bytes]
<1>3. m.kind = "ping" /\ Meant(m) = start /\ toClient' = Append(toClient, m) /\ m \in Announcements
  BY <1>2, SplitFacts, BoundTypes
<1> HIDE DEF m
<1>4. /\ server # Absent /\ upcoming = Absent
      /\ UNCHANGED <<server, client, toServer, sent, received, checked>>
  BY DEF ServerPing
<1>5. Passed /\ (Greeting \/ Steady)
  BY <1>4 DEF InOrder, Phase, Silent, Answered
<1>6. upcoming' # Absent /\ Announces(m, "ping", upcoming')
  BY <1>1, <1>3, StartFacts, SessionAssumption DEF Announces
<1>7. toClient \in Seq(Announcements)
  BY DEF Inv
<1>8. CASE Greeting
  <2>1. toClient # << >> /\ Tail(toClient) = << >>
    BY <1>4, <1>8 DEF Greeting, PingOnly
  <2>2. Len(toClient) = 1
    <3>1. Len(Tail(toClient)) = Len(toClient) - 1
      BY <1>7, <2>1
    <3>2. Tail(toClient) \in Seq(Announcements)
      BY <1>7, <2>1
    <3>3. Len(Tail(toClient)) = 0
      BY <2>1, <3>2, EmptySeq
    <3> QED BY <1>7, <3>1, <3>3
  <2>3. /\ Len(toClient') = 2 /\ toClient' # << >> /\ toClient' \in Seq(Announcements)
        /\ toClient'[1] = toClient[1] /\ toClient'[2] = m
    <3>1. toClient' = Append(toClient, m) /\ m \in Announcements
      BY <1>3
    <3>2. /\ toClient' \in Seq(Announcements) /\ toClient' # << >>
          /\ Len(toClient') = Len(toClient) + 1
          /\ \A k \in 1 .. Len(toClient) : toClient'[k] = toClient[k]
          /\ toClient'[Len(toClient) + 1] = m
      <4> HIDE DEF m
      <4> QED BY <1>7, <3>1, AppendProperties
    <3> QED BY <2>2, <3>2
  <2>4. Head(toClient') = Head(toClient)
    BY <1>7, <2>1, <2>3
  <2>5. Len(Tail(toClient')) = 1 /\ Tail(toClient')[1] = m
    BY <2>3
  <2>6. PingOnly(Tail(toClient))'
    BY <1>6, <2>5 DEF PingOnly
  <2>7. Greeting'
    BY <1>4, <1>8, <2>3, <2>4, <2>6 DEF Greeting
  <2> QED BY <1>4, <1>5, <2>7 DEF Phase, Passed
<1>9. CASE Steady
  <2>1. toClient' = <<m>>
    BY <1>3, <1>4, <1>9 DEF Steady, PingOnly
  <2> QED BY <1>4, <1>5, <1>6, <1>9, <2>1 DEF Steady, PingOnly, Phase, Passed
<1> QED BY <1>5, <1>8, <1>9

LEMMA ClientStartOrder == Inv /\ InOrder /\ ClientStart => InOrder'
<1> SUFFICES ASSUME Inv, InOrder, ClientStart, faults = 0 PROVE Phase' /\ Passed'
  BY DEF ClientStart, InOrder
<1>1. /\ toClient # << >> /\ Head(toClient).kind = "init"
      /\ toClient' = Tail(toClient) /\ sent' = 0
      /\ UNCHANGED <<server, upcoming, toServer, received, checked>>
  BY DEF ClientStart
<1>2. client' = SequencerInit(Meant(Head(toClient)))
  BY <1>1 DEF ClientStart, Meant
<1>3. Passed /\ Greeting
  BY <1>1 DEF InOrder, Phase, Silent, Steady, Answered, PingOnly, Announces
<1>4. client' # Absent /\ client'.start = server.start
  BY <1>1, <1>2, <1>3, HeadMeant, FreshFacts DEF Greeting, Announces, SequencerInit
<1>5. toServer' = << >> /\ received' = 0
  BY <1>1, <1>3 DEF Greeting
<1>6. PingOnly(toClient)'
  BY <1>1, <1>3 DEF Greeting, PingOnly
<1>7. DataFrom(toServer, 1, Len(toServer), server.start, received)' /\ Len(toServer') = 0
  BY <1>5 DEF DataFrom
<1>8. Steady'
  BY <1>1, <1>3, <1>4, <1>5, <1>6, <1>7 DEF Steady, Greeting
<1> QED BY <1>1, <1>3, <1>8 DEF Phase, Passed

LEMMA ClientSendOrder == Inv /\ InOrder /\ ClientSend => InOrder'
<1> SUFFICES ASSUME Inv, InOrder, ClientSend, faults = 0 PROVE Phase' /\ Passed'
  BY DEF ClientSend, InOrder
<1> DEFINE p == Packet("data", client, sent + 1)
           n == Len(toServer)
<1>1. /\ client # Absent
      /\ toServer' = Append(toServer, p)
      /\ client' = SequencerNext(client) /\ sent' = sent + 1
      /\ UNCHANGED <<server, upcoming, toClient, received, checked>>
  BY DEF ClientSend
<1>2. p.kind = "data" /\ p.start = client.start /\ p.index = sent + 1
  BY DEF Packet
<1>3. client' # Absent /\ client'.start = client.start
  BY <1>1, NextFacts DEF Inv
<1>4. sent \in Nat /\ received \in Nat /\ toServer \in Seq(StampedPackets)
  BY DEF Inv
<1>5. /\ n \in Nat /\ Len(toServer') = n + 1 /\ toServer'[n + 1] = p
      /\ \A k \in 1 .. n : toServer'[k] = toServer[k]
  BY <1>1, <1>4
<1>6. Passed /\ (Steady \/ Answered)
  BY <1>1 DEF InOrder, Phase, Silent, Greeting
<1> HIDE DEF p, n
<1>7. CASE Steady
  <2>1. sent = received + n /\ DataFrom(toServer, 1, n, server.start, received)
    BY <1>7 DEF Steady, n
  <2>2. DataFrom(toServer', 1, n + 1, server.start, received)
    <3> SUFFICES ASSUME NEW k \in 1 .. n + 1
                 PROVE  /\ toServer'[k].kind = "data" /\ toServer'[k].start = server.start
                        /\ toServer'[k].index = received + k
      BY DEF DataFrom
    <3>1. CASE k = n + 1
      BY <1>2, <1>4, <1>5, <1>7, <2>1, <3>1 DEF Steady
    <3>2. CASE k \in 1 .. n
      BY <1>5, <2>1, <3>2 DEF DataFrom
    <3> QED BY <1>5, <3>1, <3>2
  <2> QED BY <1>1, <1>3, <1>4, <1>5, <1>6, <1>7, <2>1, <2>2 DEF Steady, PingOnly, Phase, Passed
<1>8. CASE Answered
  <2>1. PICK q \in 1 .. n : AnsweredAt(q)
    BY <1>8 DEF Answered, n
  <2>2. /\ sent = n + 1 - q /\ q \in 1 .. n + 1
        /\ DataFrom(toServer, q + 1, n, upcoming, 1 - q)
    BY <1>5, <2>1 DEF AnsweredAt, n
  <2>3. DataFrom(toServer', q + 1, n + 1, upcoming, 1 - q)
    BY <1>2, <1>4, <1>5, <1>8, <2>2 DEF DataFrom, Answered
  <2>4. DataFrom(toServer', 1, q - 1, server.start, received)
    BY <1>5, <2>1 DEF DataFrom, AnsweredAt
  <2>5. /\ toServer'[q].kind = "pong" /\ toServer'[q].start = upcoming
        /\ toServer'[q].index = 1
    BY <1>5, <2>1 DEF AnsweredAt
  <2>6. sent' = Len(toServer') + 1 - q
    BY <1>1, <1>5, <2>2
  <2>7. AnsweredAt(q)'
    BY <1>1, <1>5, <2>3, <2>4, <2>5, <2>6 DEF AnsweredAt
  <2> QED BY <1>1, <1>3, <1>5, <1>6, <1>8, <2>2, <2>7 DEF Answered, Phase, Passed
<1> QED BY <1>6, <1>7, <1>8

LEMMA ClientPongOrder == Inv /\ InOrder /\ ClientPong => InOrder'
<1> SUFFICES ASSUME Inv, InOrder, ClientPong, faults = 0 PROVE Phase' /\ Passed'
  BY DEF ClientPong, InOrder
<1> DEFINE fresh == SequencerInit(upcoming)
           p == Packet("pong", fresh, 1)
           n == Len(toServer)
<1>1. /\ client # Absent /\ toClient # << >> /\ Head(toClient).kind = "ping"
      /\ toClient' = Tail(toClient) /\ sent' = 1
      /\ UNCHANGED <<server, upcoming, received, checked>>
  BY DEF ClientPong
<1>2. Passed /\ Steady
  BY <1>1 DEF InOrder, Phase, Silent, Greeting, Answered
<1>3. /\ toClient \in Seq(Announcements) /\ toServer \in Seq(StampedPackets)
      /\ received \in Nat /\ n \in Nat
  BY DEF Inv
<1>4. /\ upcoming # Absent /\ Len(toClient) = 1
      /\ Head(toClient) = toClient[1] /\ Meant(Head(toClient)) = upcoming
  BY <1>1, <1>2, <1>3 DEF Steady, PingOnly, Announces
<1>5. toClient' = << >>
  BY <1>1, <1>3, <1>4, EmptySeq
<1>6. fresh = SequencerInit(StartFromPing(Head(toClient).bytes[1], Head(toClient).bytes[2]))
  BY <1>1, <1>4 DEF Meant
<1>7. toServer' = Append(toServer, p) /\ client' = SequencerNext(fresh)
  BY <1>6 DEF ClientPong
<1>8. p.kind = "pong" /\ p.start = upcoming /\ p.index = 1
  BY DEF Packet, SequencerInit
<1>9. client' # Absent /\ client'.start = upcoming
  <2>1. upcoming \in GeneratedStarts /\ fresh.start = upcoming
    BY <1>4 DEF Inv, SequencerInit
  <2>2. InUse(fresh, 0)
    BY <2>1, FreshFacts
  <2> HIDE DEF fresh
  <2> QED BY <1>7, <2>1, <2>2, NextFacts
<1> HIDE DEF fresh, p
<1>10. PICK q \in Nat : q = n + 1
  BY <1>3
<1>11. /\ Len(toServer') = q /\ toServer'[q] = p
       /\ \A k \in 1 .. q - 1 : toServer'[k] = toServer[k]
  BY <1>3, <1>7, <1>10
<1>12. n = q - 1 /\ q \in 1 .. q
  BY <1>3, <1>10
<1>13. DataFrom(toServer, 1, q - 1, server.start, received)
  BY <1>2, <1>12 DEF Steady
<1> HIDE DEF n
<1>14. AnsweredAt(q)'
  <2>1. DataFrom(toServer', 1, q - 1, server.start, received)
    BY <1>11, <1>13 DEF DataFrom
  <2>2. DataFrom(toServer', q + 1, Len(toServer'), upcoming, 1 - q)
    BY <1>11 DEF DataFrom
  <2>3. sent' = Len(toServer') + 1 - q
    BY <1>1, <1>11
  <2> QED BY <1>1, <1>8, <1>11, <2>1, <2>2, <2>3 DEF AnsweredAt
<1>15. Answered'
  BY <1>1, <1>2, <1>4, <1>5, <1>9, <1>11, <1>12, <1>14 DEF Answered, Steady
<1> QED BY <1>1, <1>2, <1>15 DEF Phase, Passed

LEMMA ServerReceiveOrder == Inv /\ InOrder /\ ServerReceive => InOrder'
<1> SUFFICES ASSUME Inv, InOrder, ServerReceive, faults = 0 PROVE Phase' /\ Passed'
  BY DEF ServerReceive, InOrder
<1> DEFINE packet == Head(toServer)
           s      == Current(packet)
           fresh  == packet.kind = "pong" /\ upcoming # Absent
           taken  == IF fresh THEN 0 ELSE received
<1>1. /\ toServer # << >>
      /\ checked' = [packet |-> packet, start |-> s.start, due |-> taken + 1,
                     accepted |-> DecodeNumber(packet.stamp) = SequencerValue(s)]
      /\ server' = SequencerNext(s)
      /\ received' = taken + 1
      /\ upcoming' = IF fresh THEN Absent ELSE upcoming
      /\ toServer' = Tail(toServer)
      /\ UNCHANGED <<client, toClient, sent>>
  BY DEF ServerReceive
<1>2. /\ toServer \in Seq(StampedPackets) /\ received \in Nat /\ sent \in Nat
      /\ InUse(server, received) /\ server # Absent
  BY <1>1 DEF Inv
<1>3. PICK n \in Nat : n = Len(toServer) /\ n > 0
  BY <1>1, <1>2, EmptySeq
<1>4. /\ packet = toServer[1] /\ packet \in StampedPackets
      /\ Len(toServer') = n - 1
      /\ \A k \in 1 .. n - 1 : toServer'[k] = toServer[k + 1]
  BY <1>1, <1>2, <1>3
<1>5. Steady \/ Answered
  BY <1>1 DEF InOrder, Phase, Silent, Greeting
\* The packet is the one that is due.
<1>6. packet.start = s.start /\ packet.index = taken + 1
  <2>1. CASE Steady
    <3>1. /\ packet.kind = "data" /\ packet.start = server.start
          /\ packet.index = received + 1
      BY <1>3, <1>4, <2>1 DEF Steady, DataFrom
    <3> QED BY <3>1 DEF Current
  <2>2. CASE Answered
    <3>1. PICK q \in 1 .. n : AnsweredAt(q)
      BY <1>3, <2>2 DEF Answered
    <3>2. CASE q = 1
      <4>1. packet.kind = "pong" /\ packet.start = upcoming /\ packet.index = 1
        BY <1>4, <3>1, <3>2 DEF AnsweredAt
      <4>2. upcoming # Absent
        BY <2>2 DEF Answered
      <4> QED BY <4>1, <4>2 DEF Current, SequencerInit
    <3>3. CASE q > 1
      <4>1. /\ packet.kind = "data" /\ packet.start = server.start
            /\ packet.index = received + 1
        BY <1>4, <3>1, <3>3 DEF AnsweredAt, DataFrom
      <4> QED BY <4>1 DEF Current
    <3> QED BY <3>2, <3>3
  <2> QED BY <1>5, <2>1, <2>2
<1>7. taken \in Nat /\ InUse(s, taken)
  <2>1. CASE fresh
    <3>1. s = SequencerInit(upcoming) /\ taken = 0 /\ upcoming \in GeneratedStarts
      BY <2>1 DEF Current, Inv
    <3> QED BY <3>1, FreshFacts
  <2>2. CASE ~fresh
    BY <1>2, <2>2 DEF Current
  <2> QED BY <2>1, <2>2
\* What the server compares are the values of the two sequencers.
<1>8. Passed'
  <2> HIDE DEF packet, s, fresh, taken
  <2>1. /\ SequencerValue(s) = s.start + ((taken + 1) % 10)
        /\ SequencerValue(s) \in 0 .. CharMax
    BY <1>7, NextFacts
  <2>2. packet.stamp = Stamp(StampedValue(packet))
    BY <1>4 DEF StampedPackets
  <2>3. StampedValue(packet) = SequencerValue(s)
    BY <1>6, <2>1 DEF StampedValue
  <2>4. StampedValue(packet) # CharMax => DecodeNumber(packet.stamp) = SequencerValue(s)
    BY <2>1, <2>2, <2>3, CharMaxSmall, StampFacts
  <2>5. /\ checked'.packet = packet /\ checked'.start = s.start /\ checked'.due = taken + 1
    BY <1>1
  <2>6. checked'.accepted <=> DecodeNumber(packet.stamp) = SequencerValue(s)
    BY <1>1, Zenon
  <2> QED BY <1>6, <2>4, <2>5, <2>6 DEF Passed
<1>9. server' # Absent /\ server'.start = s.start
  <2> HIDE DEF s, taken
  <2> QED BY <1>1, <1>7, NextFacts
<1> HIDE DEF packet
<1>10. ASSUME Steady PROVE Phase'
  <2>1. packet.kind = "data"
    BY <1>3, <1>4, <1>10 DEF Steady, DataFrom
  <2>2. s = server /\ received' = received + 1 /\ upcoming' = upcoming
    BY <1>1, <2>1 DEF Current
  <2>3. DataFrom(toServer', 1, n - 1, server.start, received + 1)
    <3> SUFFICES ASSUME NEW k \in 1 .. n - 1
                 PROVE  /\ toServer'[k].kind = "data" /\ toServer'[k].start = server.start
                        /\ toServer'[k].index = (received + 1) + k
      BY DEF DataFrom
    <3>1. toServer'[k] = toServer[k + 1] /\ k + 1 \in 2 .. n
      BY <1>4
    <3>2. /\ toServer[k + 1].kind = "data" /\ toServer[k + 1].start = server.start
          /\ toServer[k + 1].index = received + (k + 1)
      BY <1>3, <1>10, <3>1 DEF DataFrom, Steady
    <3> QED BY <1>2, <3>1, <3>2
  <2>4. sent = (received + 1) + (n - 1)
    BY <1>2, <1>3, <1>10 DEF Steady
  <2> HIDE DEF s, fresh, taken
  <2>5. Steady'
    BY <1>1, <1>4, <1>9, <1>10, <2>2, <2>3, <2>4 DEF Steady, PingOnly
  <2> QED BY <2>5 DEF Phase
<1>11. ASSUME Answered PROVE Phase'
  <2>1. PICK q \in 1 .. n : AnsweredAt(q)
    BY <1>3, <1>11 DEF Answered
  <2>2. CASE q = 1
    <3>1. packet.kind = "pong" /\ upcoming # Absent
      BY <1>4, <1>11, <2>1, <2>2 DEF AnsweredAt, Answered
    <3>2. s.start = upcoming /\ received' = 1 /\ upcoming' = Absent
      BY <1>1, <3>1 DEF Current, SequencerInit
    <3>3. DataFrom(toServer', 1, n - 1, upcoming, 1)
      BY <1>3, <1>4, <2>1, <2>2 DEF DataFrom, AnsweredAt
    <3>4. sent = 1 + (n - 1)
      BY <1>3, <2>1, <2>2 DEF AnsweredAt
    <3> HIDE DEF s, fresh, taken
    <3>5. Steady'
      BY <1>1, <1>4, <1>9, <1>11, <3>2, <3>3, <3>4 DEF Steady, Answered, PingOnly
    <3> QED BY <3>5 DEF Phase
  <2>3. CASE q > 1
    <3>1. packet.kind = "data"
      BY <1>4, <2>1, <2>3 DEF AnsweredAt, DataFrom
    <3>2. s = server /\ received' = received + 1 /\ upcoming' = upcoming
      BY <1>1, <3>1 DEF Current
    <3>3. PICK r \in 1 .. n - 1 : r = q - 1
      BY <2>3
    <3>4. DataFrom(toServer', 1, r - 1, server.start, received + 1)
      <4> SUFFICES ASSUME NEW k \in 1 .. r - 1
                   PROVE  /\ toServer'[k].kind = "data" /\ toServer'[k].start = server.start
                          /\ toServer'[k].index = (received + 1) + k
        BY DEF DataFrom
      <4>1. toServer'[k] = toServer[k + 1] /\ k + 1 \in 2 .. q - 1
        BY <1>4, <3>3
      <4>2. /\ toServer[k + 1].kind = "data" /\ toServer[k + 1].start = server.start
            /\ toServer[k + 1].index = received + (k + 1)
        BY <2>1, <4>1 DEF DataFrom, AnsweredAt
      <4> QED BY <1>2, <4>1, <4>2
    <3>5. DataFrom(toServer', r + 1, n - 1, upcoming, 1 - r)
      BY <1>3, <1>4, <2>1, <3>3 DEF DataFrom, AnsweredAt
    <3>6. /\ toServer'[r].kind = "pong" /\ toServer'[r].start = upcoming
          /\ toServer'[r].index = 1 /\ sent = (n - 1) + 1 - r
      BY <1>3, <1>4, <2>1, <3>3 DEF AnsweredAt
    <3> HIDE DEF s, fresh, taken
    <3>7. AnsweredAt(r)'
      BY <1>1, <1>4, <1>9, <3>2, <3>4, <3>5, <3>6 DEF AnsweredAt
    <3>8. Answered'
      BY <1>1, <1>4, <1>9, <1>11, <3>2, <3>3, <3>7 DEF Answered
    <3> QED BY <3>8 DEF Phase
  <2> QED BY <2>2, <2>3
<1> QED BY <1>5, <1>8, <1>10, <1>11

LEMMA DisturbOrder == Inv /\ InOrder /\ Disturb => InOrder'
BY DEF Disturb, InOrder

LEMMA InOrderHolds == Spec => []InOrder
<1>1. Init => InOrder
  BY DEF Init, InOrder, Phase, Silent, Passed
<1>2. Inv /\ InOrder /\ [Next]_vars => InOrder'
  <2> SUFFICES ASSUME Inv, InOrder, [Next]_vars PROVE InOrder'
    OBVIOUS
  <2>1. CASE UNCHANGED vars
    BY <2>1 DEF vars, InOrder, Phase, Silent, Greeting, Steady, Answered, AnsweredAt,
                PingOnly, Announces, DataFrom, Passed
  <2> QED BY <2>1, ServerStartOrder, ServerPingOrder, ServerReceiveOrder,
             ClientStartOrder, ClientSendOrder, ClientPongOrder, DisturbOrder DEF Next
<1> QED BY <1>1, <1>2, InvHolds, PTL DEF Spec

(* As long as the network loses, repeats and reorders nothing, the server   *)
(* rejects no packet but one stamped EO_CHAR_MAX, over any number of        *)
(* packets and of pings that cross packets on their way.                    *)
THEOREM OnlyMaxRejected == Spec => []InOrderPassUnlessMax
<1>1. InOrder => InOrderPassUnlessMax
  BY DEF InOrder, Passed, InOrderPassUnlessMax, Open
<1> QED BY <1>1, InOrderHolds, PTL

(* The client works from the start the server works from, or from the one   *)
(* it announced last: no two bytes are taken for another start.             *)
THEOREM ClientKnowsStart == Spec => []StartsAgree
<1>1. InOrder => StartsAgree
  BY DEF InOrder, Phase, Silent, Greeting, Steady, Answered, StartsAgree
<1> QED BY <1>1, InOrderHolds, PTL

(* Which packets those are: the ninth, the nineteenth and so on from the    *)
(* highest start eo_generate_sequence_start draws, EO_CHAR_MAX - 9.  From   *)
(* every other start all packets pass (sequencer.c:31).                     *)
RejectedOnlyAtMax ==
    faults = 0 /\ ~Open => checked.start = CharMax - 9 /\ checked.due % 10 = 9

THEOREM OnlyHighestStartRejected == Spec => []RejectedOnlyAtMax
<1>1. Inv /\ InOrder => RejectedOnlyAtMax
  <2> SUFFICES ASSUME Inv, InOrder, faults = 0, ~Open
               PROVE  checked.start = CharMax - 9 /\ checked.due % 10 = 9
    BY DEF RejectedOnlyAtMax
  <2> DEFINE p == checked.packet
  <2>1. /\ StampedValue(p) = CharMax /\ p \in StampedPackets
        /\ p.start = checked.start /\ p.index = checked.due
    BY DEF Inv, InOrder, Passed, Open, Verdict
  <2>2. p.start \in GeneratedStarts /\ p.index \in Nat
    BY <2>1 DEF StampedPackets, PacketType
  <2> HIDE DEF p
  <2>3. p.start \in 0 .. CharMax - 9 /\ p.start + (p.index % 10) = CharMax
    BY <2>1, <2>2 DEF GeneratedStarts, StampedValue
  <2>4. p.index % 10 \in 0 .. 9
    BY <2>2
  <2> QED BY <2>1, <2>3, <2>4, CharMaxSmall
<1> QED BY <1>1, InvHolds, InOrderHolds, PTL
=============================================================================
