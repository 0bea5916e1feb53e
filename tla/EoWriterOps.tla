---------------------------- MODULE EoWriterOps ----------------------------
(***************************************************************************)
(* The EoWriter functions of src/src/data.c as operators on the writer     *)
(* struct.  A call gives a record [result |-> the EoResult, writer |-> the *)
(* struct afterwards].  The buffer is the sequence of bytes written so far;*)
(* block is the size of the memory behind it, 0 for a null data pointer,   *)
(* so that what the code believes (capacity) and what it has are apart.    *)
(*                                                                         *)
(* A text argument is a sequence of characters.  normalize_to_cp1252 turns *)
(* each of them, whatever its UTF-8 width, into one Windows-1252 byte.     *)
(***************************************************************************)
EXTENDS EoString

CONSTANT SizeMax   \* SIZE_MAX

ASSUME SizeAssumption == SizeMax \in Nat

Writer == [data : Seq(Byte), capacity : Nat, block : Nat, sanitize : BOOLEAN]

\* cp1252 is the byte the character becomes; width is its length in UTF-8.
Char == [cp1252 : Byte \ {0}, width : 1 .. 4]

\* A null pointer is no text.
ASSUME TextAssumption == NULL \notin Seq([cp1252 : Byte, width : 1 .. 4])

\* Which allocation of a call fails, if one does.
Failures == {"none", "text", "grow", "scratch"}

WLength(w) == Len(w.data)

(* eo_writer_init_with_capacity does not look at what malloc returns.       *)
InitWriter(capacity, allocated) ==
    [data |-> << >>, capacity |-> capacity,
     block |-> IF allocated THEN capacity ELSE 0, sanitize |-> FALSE]

\* eo_writer_free: the sanitization mode is left as it was.
FreeWriter(w) == [w EXCEPT !.data = << >>, !.capacity = 0, !.block = 0]

\* eo_writer_set_string_sanitization_mode
SetSanitization(w, enabled) == [w EXCEPT !.sanitize = enabled]

\* normalize_to_cp1252
NormalizeToCp1252(text) == [k \in 1 .. Len(text) |-> text[k].cp1252]

-----------------------------------------------------------------------------
\* A write of the bytes s behind the ones already there.
Put(w, s) == [w EXCEPT !.data = @ \o s]

Ok(w)             == [result |-> "EO_SUCCESS", writer |-> w]
Refused(w, result) == [result |-> result, writer |-> w]

\* The overflow check left out: the sum wraps around as a size_t does.
EnsureCapacity_Wraps(w, additional, fail) ==
    LET required == (WLength(w) + additional) % (SizeMax + 1)
    IN  IF w.capacity >= required THEN Ok(w)
        ELSE IF fail = "grow" THEN Refused(w, "EO_ALLOC_FAILED")
        ELSE Ok([w EXCEPT !.capacity = required, !.block = required])

(* eo_writer_ensure_capacity: grows to exactly what is required.  The sum   *)
(* is compared with SIZE_MAX before it is formed.                           *)
EnsureCapacity(w, additional, fail) ==
    LET required == WLength(w) + additional
    IN  IF SizeMax - WLength(w) < additional THEN Refused(w, "EO_OVERFLOW")
        ELSE IF w.capacity >= required THEN Ok(w)
        ELSE IF fail = "grow" THEN Refused(w, "EO_ALLOC_FAILED")
        ELSE Ok([w EXCEPT !.capacity = required, !.block = required])

\* Make room for s, then write it.
EnsureAndAppend(w, s, fail) ==
    LET e == EnsureCapacity(w, Len(s), fail)
    IN  IF e.result # "EO_SUCCESS" THEN e ELSE Ok(Put(e.writer, s))

\* eo_writer_add_byte and eo_writer_add_bytes
AddBytes(w, s, fail) == EnsureAndAppend(w, s, fail)

InvalidNumber == <<"EO_INVALID_CHAR", "EO_INVALID_SHORT",
                   "EO_INVALID_THREE", "EO_INVALID_INT">>

\* eo_writer_add_char, add_short, add_three and add_int, by their width n.
AddNumber(w, n, value, fail) ==
    IF ~Accepts(n, value) THEN Refused(w, InvalidNumber[n])
    ELSE EnsureAndAppend(w, Encoded(n, value), fail)

\* Sanitization forgotten.
TextBytes_AsGiven(w, text) == NormalizeToCp1252(text)

\* The bytes of a text as the sanitization mode of the writer wants them.
TextBytes(w, text) ==
    IF w.sanitize THEN Sanitize(NormalizeToCp1252(text)) ELSE NormalizeToCp1252(text)

Padding(n) == [k \in 1 .. n |-> BreakByte]

\* eo_writer_add_string: a null text is an empty one.
AddString(w, text, fail) ==
    IF text = NULL THEN Ok(w)
    ELSE IF fail = "text" THEN Refused(w, "EO_ALLOC_FAILED")
    ELSE EnsureAndAppend(w, TextBytes(w, text), fail)

\* The text is written first and encoded in place afterwards.
AppendEncoded_WritesFirst(w, s, fail) ==
    LET e == EnsureCapacity(w, Len(s), fail)
    IN  IF e.result # "EO_SUCCESS" THEN e
        ELSE IF fail = "scratch" THEN Refused(Put(e.writer, s), "EO_ALLOC_FAILED")
        ELSE Ok(Put(e.writer, EncodeString(s)))

(* Encoded texts are put together in a buffer of their own, allocated after *)
(* room was made for them in the writer: when that allocation fails the     *)
(* writer has grown but holds no more bytes.                                *)
AppendEncoded(w, s, fail) ==
    LET e == EnsureCapacity(w, Len(s), fail)
    IN  IF e.result # "EO_SUCCESS" THEN e
        ELSE IF fail = "scratch" THEN Refused(e.writer, "EO_ALLOC_FAILED")
        ELSE Ok(Put(e.writer, EncodeString(s)))

\* eo_writer_add_encoded_string
AddEncodedString(w, text, fail) ==
    IF text = NULL THEN Ok(w)
    ELSE IF fail = "text" THEN Refused(w, "EO_ALLOC_FAILED")
    ELSE AppendEncoded(w, TextBytes(w, text), fail)

\* The texts a field of the given length takes, and what is wrong with others.
FitsField(text, length, padded) ==
    IF padded THEN Len(text) <= length ELSE Len(text) = length

FieldError(padded) == IF padded THEN "EO_STR_OUT_OF_RANGE" ELSE "EO_STR_TOO_SHORT"

\* The text, filled up with break bytes to the length of the field.
FieldBytes(w, text, length) == TextBytes(w, text) \o Padding(length - Len(text))

\* eo_writer_add_fixed_string: a null text writes nothing at all.
AddFixedString(w, text, length, padded, fail) ==
    IF text = NULL THEN Ok(w)
    ELSE IF fail = "text" THEN Refused(w, "EO_ALLOC_FAILED")
    ELSE IF ~FitsField(text, length, padded) THEN Refused(w, FieldError(padded))
    ELSE EnsureAndAppend(w, FieldBytes(w, text, length), fail)

\* eo_writer_add_fixed_encoded_string: the padding is encoded too.
AddFixedEncodedString(w, text, length, padded, fail) ==
    IF text = NULL THEN Ok(w)
    ELSE IF fail = "text" THEN Refused(w, "EO_ALLOC_FAILED")
    ELSE IF ~FitsField(text, length, padded) THEN Refused(w, FieldError(padded))
    ELSE AppendEncoded(w, FieldBytes(w, text, length), fail)
=============================================================================
