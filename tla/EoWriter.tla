------------------------------ MODULE EoWriter ------------------------------
(***************************************************************************)
(* A client drives one EoWriter: it initialises it and calls the           *)
(* eo_writer_* functions in any order.  A call is one step; any of the     *)
(* allocations a call makes may fail.  SizeMax bounds the length, through  *)
(* the overflow check of the code itself.                                  *)
(***************************************************************************)
EXTENDS EoWriterOps

CONSTANTS
    Capacities,    \* the capacities a writer is initialised with
    InitOutcomes,  \* may the first malloc succeed (TRUE), fail (FALSE)?
    RawBytes,      \* the bytes a caller adds one at a time
    Numbers,       \* the int32_t values a caller adds
    Arrays,        \* the byte arrays a caller adds
    Texts,         \* the texts a caller adds
    FieldLengths   \* the lengths a caller gives fixed-length fields

ASSUME WriterAssumption ==
    /\ Capacities \subseteq Nat
    /\ \A c \in Capacities : c <= SizeMax
    /\ InitOutcomes \subseteq BOOLEAN
    /\ RawBytes \subseteq Byte
    /\ Numbers \subseteq Int32
    /\ Arrays \subseteq Seq(Byte)
    /\ Texts \subseteq Seq(Char)
    /\ NULL \notin Texts
    /\ FieldLengths \subseteq Nat

VARIABLES
    writer,   \* the EoWriter struct
    last      \* the call that was made last: [op, result]

vars == <<writer, last>>

Call(op, result) == [op |-> op, result |-> result]

\* The calls that write what they are given, delimiters included.
RawOps == {"add_byte", "add_bytes", "add_padded_string", "add_padded_encoded_string"}

\* A write went past the memory there is: the program is gone.
Crashed == WLength(writer) > writer.block

Init ==
    \E c \in Capacities, allocated \in InitOutcomes :
        /\ writer = InitWriter(c, allocated)
        /\ last = Call("init", "EO_SUCCESS")

-----------------------------------------------------------------------------
\* A null writer, or a null array for eo_writer_add_bytes.
NullArgument ==
    /\ last' = Call("null", "EO_NULL_PTR")
    /\ UNCHANGED writer

SetMode(enabled) ==
    /\ writer' = SetSanitization(writer, enabled)
    /\ last' = Call("set_mode", "EO_SUCCESS")

Free ==
    /\ writer' = FreeWriter(writer)
    /\ last' = Call("free", "EO_SUCCESS")

Add(op, ret) ==
    /\ writer' = ret.writer
    /\ last' = Call(op, ret.result)

Ensure(n, fail) == Add("ensure_capacity", EnsureCapacity(writer, n, fail))

WriteByte(b, fail)   == Add("add_byte", AddBytes(writer, <<b>>, fail))
WriteBytes(s, fail)  == Add("add_bytes", AddBytes(writer, s, fail))
WriteNumber(n, value, fail) == Add("add_number", AddNumber(writer, n, value, fail))

WriteString(text, fail) == Add("add_string", AddString(writer, text, fail))
WriteEncodedString(text, fail) ==
    Add("add_encoded_string", AddEncodedString(writer, text, fail))

WriteFixedString(text, n, padded, fail) ==
    Add(IF padded THEN "add_padded_string" ELSE "add_fixed_string",
        AddFixedString(writer, text, n, padded, fail))
WriteFixedEncodedString(text, n, padded, fail) ==
    Add(IF padded THEN "add_padded_encoded_string" ELSE "add_fixed_encoded_string",
        AddFixedEncodedString(writer, text, n, padded, fail))

Writes(fail) ==
    \/ \E b \in RawBytes : WriteByte(b, fail)
    \/ \E s \in Arrays : WriteBytes(s, fail)
    \/ \E n \in 1 .. 4, value \in Numbers : WriteNumber(n, value, fail)
    \/ \E text \in Texts \cup {NULL} :
          \/ WriteString(text, fail)
          \/ WriteEncodedString(text, fail)
          \/ \E n \in FieldLengths, padded \in BOOLEAN :
                \/ WriteFixedString(text, n, padded, fail)
                \/ WriteFixedEncodedString(text, n, padded, fail)

Next ==
    /\ ~Crashed
    /\ \/ NullArgument
       \/ \E enabled \in BOOLEAN : SetMode(enabled)
       \/ Free
       \/ \E fail \in Failures :
             \/ \E n \in FieldLengths : Ensure(n, fail)
             \/ Writes(fail)

Spec == Init /\ [][Next]_vars
-----------------------------------------------------------------------------
Results == {"EO_SUCCESS", "EO_NULL_PTR", "EO_OVERFLOW", "EO_ALLOC_FAILED",
            "EO_INVALID_CHAR", "EO_INVALID_SHORT", "EO_INVALID_THREE",
            "EO_INVALID_INT", "EO_STR_OUT_OF_RANGE", "EO_STR_TOO_SHORT"}

TypeOK == writer \in Writer /\ last.result \in Results

(* result.h: EO_ALLOC_FAILED is "Returned when malloc or realloc returns    *)
(* NULL": an allocation that failed is reported, never written to.          *)
WritesHaveMemory == WLength(writer) <= writer.block

(* The bytes written fit the memory behind the writer, the code's idea of   *)
(* that memory is right, and no size computation passed SIZE_MAX: no        *)
(* sequence of adds, failed reallocations, frees and reuse writes outside   *)
(* the buffer.                                                              *)
WritesInBounds ==
    /\ WritesHaveMemory
    /\ writer.capacity = writer.block
    /\ writer.capacity <= SizeMax

(* What was written stays: no add rewrites a byte before it, and an add     *)
(* that reports an error (a text too long for its field, an overflow, any   *)
(* of the up to three allocations failing) has written nothing.             *)
AddsAreAllOrNothing ==
    [][last'.op # "free" =>
         /\ WLength(writer') >= WLength(writer)
         /\ SubSeq(writer'.data, 1, WLength(writer)) = writer.data
         /\ last'.result # "EO_SUCCESS" => writer'.data = writer.data]_vars

(* With string sanitization on, the only break bytes in the buffer are      *)
(* those the caller asked for: raw bytes and the padding of padded fields.  *)
(* Numbers, plain strings and encoded strings never add one, so they cannot *)
(* split a chunk.                                                           *)
DelimitersAreDeliberate ==
    [][writer.sanitize /\ last'.op \notin RawOps \cup {"free"} =>
         \A k \in WLength(writer) + 1 .. WLength(writer') :
             writer'.data[k] # BreakByte]_vars

(* Numbers never contain the break byte, with sanitization on or off: a     *)
(* number in a chunk is never taken for its end.                            *)
NumbersNeverDelimit ==
    [][last'.op = "add_number" =>
         \A k \in WLength(writer) + 1 .. WLength(writer') :
             writer'.data[k] \notin {0, BreakByte}]_vars
=============================================================================
