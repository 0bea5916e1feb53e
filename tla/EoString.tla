------------------------------ MODULE EoString ------------------------------
(***************************************************************************)
(* The string transform of src/src/data.c: every printable byte is mirrored*)
(* inside its range, which range depending on the parity of its position,  *)
(* and the whole buffer is reversed.  The three bounds are 34, 80 and 125  *)
(* in the code.                                                            *)
(***************************************************************************)
EXTENDS EoNumber

CONSTANTS
    FlipLow,   \* 34: first byte that is mirrored
    FlipMid,   \* 80: first byte of the upper half at an even position
    FlipHigh,  \* 125: last byte that is mirrored
    SanitizedBreak, \* 0x79, what sanitization writes in place of a break byte
    NULL       \* a null pointer where a string or byte array is expected

ASSUME StringAssumption ==
    /\ FlipLow \in Nat /\ FlipMid \in Nat /\ FlipHigh \in Nat
    /\ 0 < FlipLow /\ FlipLow < FlipMid /\ FlipMid <= FlipHigh
    /\ FlipHigh < NumberPadding
    /\ SanitizedBreak \in FlipMid .. FlipHigh

ASSUME NullAssumption == NULL \notin Int /\ NULL \notin Seq(Byte)

Mirror(b, low, high) == IF b \in low .. high THEN low + high - b ELSE b

(* One byte at C index i of a buffer of the given length.  The code calls a *)
(* position odd when i % 2 differs from (length + 1) % 2.                   *)
Flip(b, i, length) ==
    IF i % 2 # (length + 1) % 2
    THEN Mirror(b, FlipLow, FlipHigh)
    ELSE IF b < FlipMid THEN Mirror(b, FlipLow, FlipMid - 1)
                        ELSE Mirror(b, FlipMid, FlipHigh)

\* eo_encode_string: flip every byte, then reverse the buffer.
EncodeString(s) ==
    [k \in 1 .. Len(s) |-> Flip(s[Len(s) + 1 - k], Len(s) - k, Len(s))]

\* eo_decode_string: reverse the buffer, then flip every byte.
DecodeString(s) ==
    [k \in 1 .. Len(s) |-> Flip(s[Len(s) + 1 - k], k - 1, Len(s))]

\* What string sanitization mode does to the bytes of a string.
Sanitize(s) ==
    [k \in 1 .. Len(s) |-> IF s[k] = BreakByte THEN SanitizedBreak ELSE s[k]]
=============================================================================
