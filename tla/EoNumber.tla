------------------------------ MODULE EoNumber ------------------------------
(***************************************************************************)
(* The EO number codec of src/src/data.c: base-CharMax digits, each stored *)
(* as digit + 1, with a padding byte where a higher digit is not needed.   *)
(*                                                                         *)
(* The code fixes the base to 253 and the machine word to 32 bits.  Both   *)
(* are parameters here, so that TLC can visit every number of a small base *)
(* and the theorems hold for every base.  A byte is a number in 0..CharMax *)
(* + 2; with CharMax = 253 that is 0..255.                                 *)
(***************************************************************************)
EXTENDS Integers, Sequences

CONSTANTS
    CharMax,   \* EO_CHAR_MAX, the base (253)
    WordSize   \* the number of values of a uint32_t (2^32)

ShortMax == CharMax * CharMax
ThreeMax == CharMax * ShortMax
IntMax   == CharMax * ThreeMax

NumberPadding == CharMax + 1
BreakByte     == CharMax + 2
Byte          == 0 .. CharMax + 2

(* What 253 and 2^32 have in common with the small bases used by TLC: the  *)
(* largest value four bytes can decode to fits a word, and so does every   *)
(* four-digit number.  The word is even, as a power of two is, and every   *)
(* non-negative int32_t is below the four-digit limit.                     *)
ASSUME NumberAssumption ==
    /\ CharMax \in Nat /\ CharMax >= 2
    /\ WordSize \in Nat /\ WordSize % 2 = 0
    /\ (CharMax + 1) * (ThreeMax + ShortMax + CharMax + 1) < WordSize
    /\ WordSize <= 2 * IntMax

HalfWord == WordSize \div 2
Int32    == -HalfWord .. HalfWord - 1
UInt32   == 0 .. WordSize - 1

\* The C conversions int32_t -> uint32_t and back.
ToUnsigned(n) == IF n < 0 THEN n + WordSize ELSE n
ToSigned(u)   == IF u < HalfWord THEN u ELSE u - WordSize

-----------------------------------------------------------------------------
\* Padding and delimiter mixed up.
EncodedDigit_PaddedWithBreak(v, w) ==
    IF v < w THEN BreakByte ELSE ((v % (w * CharMax)) \div w) + 1

\* One output byte: the digit of weight w of v, or padding when v is below w.
EncodedDigit(v, w) ==
    IF v < w THEN NumberPadding ELSE ((v % (w * CharMax)) \div w) + 1

(* eo_encode_number.  The four bytes are padding when the number is too     *)
(* large; the units digit is always written.                                *)
EncodeNumber(number) ==
    LET v == ToUnsigned(number)
    IN  IF v >= IntMax
        THEN [result |-> "EO_NUMBER_TOO_LARGE",
              bytes  |-> [i \in 1 .. 4 |-> NumberPadding]]
        ELSE [result |-> "EO_SUCCESS",
              bytes  |-> << (v % CharMax) + 1,
                            EncodedDigit(v, CharMax),
                            EncodedDigit(v, ShortMax),
                            EncodedDigit(v, ThreeMax) >>]

\* The digit a byte stands for: a missing byte, a zero and padding are digit 0.
DecodedDigit(bytes, i) ==
    IF i > Len(bytes) THEN 0
    ELSE IF bytes[i] \in {0, NumberPadding} THEN 0
    ELSE bytes[i] - 1

\* The word the four digits add up to, before the conversion to int32_t.
DecodedWord(bytes) ==
      DecodedDigit(bytes, 4) * ThreeMax + DecodedDigit(bytes, 3) * ShortMax
    + DecodedDigit(bytes, 2) * CharMax  + DecodedDigit(bytes, 1)

\* eo_decode_number: uint32_t arithmetic, converted to int32_t at the end.
DecodeNumber(bytes) == ToSigned(DecodedWord(bytes) % WordSize)

-----------------------------------------------------------------------------
(* The largest value the guard of eo_writer_add_char / short / three / int  *)
(* lets through, per width in bytes.  The guard is "value > EO_CHAR_MAX",   *)
(* so the maximum itself is accepted.                                       *)
WidthMax(n) == CASE n = 1 -> CharMax
                 [] n = 2 -> ShortMax
                 [] n = 3 -> ThreeMax

\* Does eo_writer_add_* of this width accept the value?
Accepts(n, value) ==
    IF n = 4 THEN ToUnsigned(value) < IntMax
             ELSE value >= 0 /\ value <= WidthMax(n)

\* The bytes an add of width n writes: the low n bytes of the encoding.
Encoded(n, value) == SubSeq(EncodeNumber(value).bytes, 1, n)

(* The numbers n digits can hold.  Accepts lets one more through for each   *)
(* width below four: the maximum.                                           *)
Representable(n, value) ==
    IF n = 4 THEN ToUnsigned(value) < IntMax
             ELSE value >= 0 /\ value < WidthMax(n)
=============================================================================
