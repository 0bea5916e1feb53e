------------------------------- MODULE EoText -------------------------------
(***************************************************************************)
(* The conversion of texts to Windows-1252, src/src/data.c: the loop of    *)
(* normalize_to_cp1252 one iteration at a time, called for a text and then *)
(* again for what the call before returned.  That is what a program does   *)
(* that sends a text it has read: eo_reader_get_string hands out bytes of  *)
(* Windows-1252, and every function that writes a text converts it.        *)
(*                                                                         *)
(* Bytes are those of the code here.  A text is what lies before its null  *)
(* terminator; the terminator may be read, nothing behind it.              *)
(***************************************************************************)
EXTENDS Integers, Sequences, FiniteSetsExt

CONSTANTS
    Texts,        \* texts a program may pass: sequences of bytes
    Characters,   \* code points it may write in UTF-8 ...
    MaxCharacters, \* ... at most this many in a text
    None          \* instead of the characters of a text that was not written so

ASSUME TextAssumption ==
    /\ Texts \subseteq Seq(1 .. 255)
    /\ \A cp \in Characters : cp \in Nat /\ 0 < cp /\ cp <= 1114111 /\ (cp < 55296 \/ 57343 < cp)
    /\ MaxCharacters \in Nat
    /\ None \notin Seq(Characters)

VARIABLES
    phase,       \* of the call: "called", "loop", "done", "failed"
    characters,  \* the code points the input encodes, or None
    input,       \* the text passed to the call
    pos,         \* i, the bytes of the input that are done with
    output,      \* the bytes written so far
    reach        \* ghost: the last byte of the input that was looked at

textVars == <<phase, characters, input, pos, output, reach>>

-----------------------------------------------------------------------------
\* cp1252_unicode_extras, the code points of the bytes from 0x80; 0 is none.
Cp1252UnicodeExtras ==
    <<8364, 0, 8218, 402, 8222, 8230, 8224, 8225, 710, 8240, 352, 8249, 338, 0, 381, 0,
      0, 8216, 8217, 8220, 8221, 8226, 8211, 8212, 732, 8482, 353, 8250, 339, 0, 382, 376>>

\* One off in the table, whose index 1 is byte 0x80.
UnicodeToCp1252_OneOff(cp) ==
    IF cp <= 127 \/ cp \in 160 .. 255 THEN cp
    ELSE IF \E i \in 1 .. 32 : Cp1252UnicodeExtras[i] = cp
         THEN 128 + CHOOSE i \in 1 .. 32 : Cp1252UnicodeExtras[i] = cp
         ELSE 63

\* unicode_to_cp1252
UnicodeToCp1252(cp) ==
    IF cp <= 127 \/ cp \in 160 .. 255 THEN cp
    ELSE IF \E i \in 1 .. 32 : Cp1252UnicodeExtras[i] = cp
         THEN 127 + CHOOSE i \in 1 .. 32 : Cp1252UnicodeExtras[i] = cp
         ELSE 63

\* input[i + k], the terminator when that is the end of the text.
At(k) == IF pos + k < Len(input) THEN input[pos + k + 1] ELSE 0

IsContinuation(byte) == byte \in 128 .. 191

\* How many bytes the first byte of a sequence announces, looked at alone.
Announced(b0) ==
    CASE b0 \in 194 .. 223 -> 2
      [] b0 \in 224 .. 239 -> 3
      [] b0 \in 240 .. 244 -> 4
      [] OTHER             -> 1

\* The same without the check that the text is long enough.
SequenceLength_Unchecked == Announced(At(0))

(* The length of the sequence at i, which is 1 where no branch for longer   *)
(* ones is taken: there the text is long enough for what follows.           *)
SequenceLength ==
    IF pos + Announced(At(0)) - 1 < Len(input) THEN Announced(At(0)) ELSE 1

IsSequence(length) == \A k \in 1 .. length - 1 : IsContinuation(At(k))

\* The code point of a sequence of two or three bytes; four have no byte.
Decoded(length) ==
    CASE length = 2 -> UnicodeToCp1252((At(0) % 32) * 64 + (At(1) % 64))
      [] length = 3 -> UnicodeToCp1252((At(0) % 16) * 4096 + (At(1) % 64) * 64 + (At(2) % 64))
      [] length = 4 -> 63

-----------------------------------------------------------------------------
\* RFC 3629: how a program writes a code point.
Utf8(cp) ==
    CASE cp < 128 -> <<cp>>
      [] 128 <= cp /\ cp < 2048   -> <<192 + (cp \div 64), 128 + (cp % 64)>>
      [] 2048 <= cp /\ cp < 65536 -> <<224 + (cp \div 4096), 128 + ((cp \div 64) % 64), 128 + (cp % 64)>>
      [] 65536 <= cp -> <<240 + (cp \div 262144), 128 + ((cp \div 4096) % 64),
                          128 + ((cp \div 64) % 64), 128 + (cp % 64)>>

Encoding[n \in 0 .. MaxCharacters] ==
    [text \in [1 .. n -> Characters] |->
        IF n = 0 THEN << >> ELSE Encoding[n - 1][[k \in 1 .. n - 1 |-> text[k]]] \o Utf8(text[n])]

Convert(text) ==
    /\ input = text
    /\ phase = "called" /\ pos = 0 /\ output = << >> /\ reach = 0

TextInit ==
    \/ characters = None /\ \E text \in Texts : Convert(text)
    \/ \E n \in 0 .. MaxCharacters :
         /\ characters \in [1 .. n -> Characters]
         /\ Convert(Encoding[n][characters])

\* eo_string_to_windows_1252 asks for as many bytes as the text has.
Allocate ==
    /\ phase = "called"
    /\ phase' \in {"loop", "failed"}
    /\ UNCHANGED <<characters, input, pos, output, reach>>

\* One iteration appends one byte, and looked at "length" bytes for it.
Consume(length, byte, looked) ==
    /\ output' = Append(output, byte)
    /\ pos' = pos + length
    /\ reach' = IF pos + looked > reach THEN pos + looked ELSE reach
    /\ UNCHANGED <<phase, characters, input>>

InLoop == phase = "loop" /\ pos < Len(input)

DecodeSequence ==
    /\ InLoop
    /\ SequenceLength > 1 /\ IsSequence(SequenceLength)
    /\ Consume(SequenceLength, Decoded(SequenceLength), SequenceLength)

\* A broken sequence left without a branch; a byte that starts none replaced by a
\* question mark; a broken sequence skipped as a whole.
PassByte_OnlySingles ==
    /\ InLoop
    /\ SequenceLength = 1
    /\ Consume(1, At(0), 1)
PassByte_Replaces ==
    /\ InLoop
    /\ SequenceLength = 1 \/ ~IsSequence(SequenceLength)
    /\ Consume(1, IF At(0) < 128 THEN At(0) ELSE 63, SequenceLength)
PassByte_SkipsAll ==
    /\ InLoop
    /\ SequenceLength = 1 \/ ~IsSequence(SequenceLength)
    /\ Consume(SequenceLength, At(0), SequenceLength)

PassByte ==
    /\ InLoop
    /\ SequenceLength = 1 \/ ~IsSequence(SequenceLength)
    /\ Consume(1, At(0), SequenceLength)

Finish ==
    /\ phase = "loop" /\ pos >= Len(input)
    /\ phase' = "done"
    /\ UNCHANGED <<characters, input, pos, output, reach>>

\* The program sends what it got; a null byte in it ends the text.
CString(bytes) ==
    LET ends == {k \in 1 .. Len(bytes) : bytes[k] = 0}
    IN  IF ends = {} THEN bytes
        ELSE SubSeq(bytes, 1, (CHOOSE k \in ends : \A j \in ends : k <= j) - 1)

Resend ==
    /\ phase = "done"
    /\ phase' = "called" /\ characters' = None
    /\ input' = CString(output)
    /\ pos' = 0 /\ output' = << >> /\ reach' = 0

Step == Allocate \/ DecodeSequence \/ PassByte \/ Finish

TextNext == Step \/ Resend

\* A call that was made runs to its end; nobody has to send a text again.
TextSpec == TextInit /\ [][TextNext]_textVars /\ WF_textVars(Step)

-----------------------------------------------------------------------------
TextTypeOK ==
    /\ phase \in {"called", "loop", "done", "failed"}
    /\ characters = None \/ characters \in Seq(Characters)
    /\ input \in Seq(1 .. 255)
    /\ pos \in 0 .. Len(input)
    /\ output \in Seq(0 .. 255)

(* The block of as many bytes as the text and its terminator is never       *)
(* exceeded and nothing behind the terminator is read, however a text ends  *)
(* in the middle of a sequence (data.c:94, :107, :124).                     *)
StaysInside ==
    /\ TextTypeOK
    /\ Len(output) <= pos
    /\ reach <= Len(input) + 1

(* A text written in UTF-8 becomes one byte a character: the one whose      *)
(* meaning in Windows-1252 is that character, and a question mark only      *)
(* where no byte means it (the comment at data.c:74).                       *)
Meaning(byte) ==
    IF byte \in 128 .. 159 THEN Cp1252UnicodeExtras[byte - 127] ELSE byte

CharactersArrive ==
    phase = "done" /\ characters # None =>
        /\ Len(output) = Len(characters)
        /\ \A k \in 1 .. Len(output) :
             IF \E byte \in 1 .. 255 : Meaning(byte) = characters[k]
             THEN Meaning(output[k]) = characters[k]
             ELSE output[k] = 63

(* What a position of a text announces and has, decided without the loop.   *)
FormsSequence(text, k) ==
    LET last == k + Announced(text[k]) - 1
    IN  /\ k < last /\ last <= Len(text)
        /\ \A j \in k + 1 .. last : IsContinuation(text[j])

Shrinkage(text) ==
    MapThenSumSet(LAMBDA k : Announced(text[k]) - 1,
                  {k \in 1 .. Len(text) : FormsSequence(text, k)})

(* No sequence is missed and none is seen where there is none: a broken one *)
(* costs one byte, and the loop finds the sequence that starts inside it.   *)
FindsEverySequence ==
    phase = "done" => Len(output) = Len(input) - Shrinkage(input)

(* A text that was read and is sent again stays as it is, byte for byte, or *)
(* becomes shorter: so a text that goes back and forth settles.             *)
ResendingSettles ==
    phase = "done" => output = input \/ Len(output) < Len(input)

\* Every conversion ends (the loop at data.c:85).
ConversionsEnd == []<>(phase \in {"done", "failed"})
=============================================================================
