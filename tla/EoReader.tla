------------------------------ MODULE EoReader ------------------------------
(***************************************************************************)
(* A client drives one EoReader: it initialises it over a buffer and then  *)
(* calls the eo_reader_* functions in any order, with any of the arguments *)
(* a caller may pass.  The reader is single threaded, so one call is one   *)
(* step; malloc may fail in any call that allocates.                       *)
(***************************************************************************)
EXTENDS EoReaderOps

CONSTANTS
    Inputs,   \* the buffers the reader is initialised over
    Lengths   \* the lengths a caller passes to the fixed-length reads

ASSUME ReaderAssumption ==
    /\ Inputs \subseteq Seq(Byte)
    /\ Lengths \subseteq Nat

VARIABLES
    reader,   \* the EoReader struct
    last,     \* the call that was made last and what it returned
    early     \* history: chunked mode was turned off before a boundary was known

vars == <<reader, last, early>>

NumberOps == {"get_byte", "get_char", "get_short", "get_three", "get_int"}
WindowOps == {"get_string", "get_encoded_string"}
FixedOps  == {"get_fixed_string", "get_fixed_encoded_string", "get_bytes"}

\* The function that reads a number of each width.
NumberOp == <<"get_char", "get_short", "get_three", "get_int">>

Call(op, ret) ==
    [op |-> op, result |-> ret.result, value |-> ret.value,
     from |-> ret.from, count |-> ret.count]

Init ==
    \E data \in Inputs :
        /\ reader = InitReader(data)
        /\ last = Call("init", Returned(InitReader(data), "EO_SUCCESS", NULL))
        /\ early = FALSE

-----------------------------------------------------------------------------
\* A null reader or out pointer: every function returns before doing anything.
NullArgument ==
    /\ last' = Call("null", Returned(reader, "EO_NULL_PTR", NULL))
    /\ UNCHANGED reader

SetMode(enabled) ==
    /\ reader' = SetChunkedMode(reader, enabled)
    /\ last' = Call("set_mode", Returned(reader, "EO_SUCCESS", NULL))

Enable == SetMode(TRUE)

\* Without a boundary this computes one, and in plain mode: the end.
Disable ==
    /\ SetMode(FALSE)
    /\ early' = (early \/ reader.nextChunk = 0)

NextChunk ==
    \/ /\ ~reader.chunked
       /\ last' = Call("next_chunk",
                       Returned(reader, "EO_CHUNKED_MODE_DISABLED", NULL))
       /\ UNCHANGED reader
    \/ /\ reader.chunked
       /\ reader' = AdvanceChunk(reader)
       /\ last' = Call("next_chunk", Returned(reader, "EO_SUCCESS", NULL))

\* A read takes the bytes it reports and moves the cursor past them.
Read(op, ret) ==
    /\ last' = Call(op, ret)
    /\ reader' = Consume(reader, ret.count)

ReadByte   == Read("get_byte", GetByte(reader))
ReadNumber == \E n \in 1 .. 4 : Read(NumberOp[n], GetNumber(reader, n))

ReadString(alloc)        == Read("get_string", GetString(reader, alloc))
ReadEncodedString(alloc) == Read("get_encoded_string", GetEncodedString(reader, alloc))

ReadFixedString(n, alloc) ==
    Read("get_fixed_string", GetFixedString(reader, n, alloc))
ReadFixedEncodedString(n, alloc) ==
    Read("get_fixed_encoded_string", GetFixedEncodedString(reader, n, alloc))
ReadBytes(n, alloc) == Read("get_bytes", GetBytes(reader, n, alloc))

Reads ==
    \/ ReadByte
    \/ ReadNumber
    \/ \E alloc \in BOOLEAN : ReadString(alloc) \/ ReadEncodedString(alloc)
    \/ \E n \in Lengths, alloc \in BOOLEAN :
          \/ ReadFixedString(n, alloc)
          \/ ReadFixedEncodedString(n, alloc)
          \/ ReadBytes(n, alloc)

Next ==
    \/ Disable
    \/ (NullArgument \/ Enable \/ NextChunk \/ Reads) /\ UNCHANGED early

Spec == Init /\ [][Next]_vars
-----------------------------------------------------------------------------
Results == {"EO_SUCCESS", "EO_NULL_PTR", "EO_CHUNKED_MODE_DISABLED",
            "EO_BUFFER_UNDERRUN", "EO_ALLOC_FAILED"}

\* The struct, and what the last call returned.
CallTypeOK ==
    /\ reader \in Reader
    /\ last.result \in Results
    /\ last.from \in Nat /\ last.count \in Nat
    /\ last.value # NULL =>
          IF last.op \in NumberOps THEN last.value \in Int
                                   ELSE last.value \in Seq(Byte)

TypeOK == CallTypeOK /\ early \in BOOLEAN

(* No call reads outside the buffer, and the cursor and both chunk offsets  *)
(* stay inside it, whatever order the calls come in.  The pointer           *)
(* arithmetic of every get_* relies on offset <= length.                    *)
CursorInBounds ==
    /\ reader.offset <= Length(reader)
    /\ reader.nextChunk <= Length(reader)
    /\ reader.chunkOffset <= reader.nextChunk
    /\ reader.chunkOffset <= reader.offset
    /\ last.from + last.count <= Length(reader)

(* The byte eo_reader_next_chunk steps over is a break byte: the unchecked  *)
(* "offset += 1" never swallows data, even after the mode was toggled and   *)
(* next_chunk_offset was computed in another mode.  (A zero in plain mode   *)
(* is the not-yet-computed value.)                                          *)
SkipsOnlyBreak ==
    /\ reader.nextChunk < Length(reader)
    /\ reader.chunked \/ reader.nextChunk # 0
    => At(reader, reader.nextChunk) = BreakByte

(* Chunk starts only move forward, and every eo_reader_next_chunk that is   *)
(* not at the end moves on: a loop over the chunks ends, whatever is read   *)
(* in between and although next_chunk may move the cursor backwards.        *)
ChunksAdvance ==
    [][/\ reader'.chunkOffset >= reader.chunkOffset
       /\ last'.op = "next_chunk" /\ last'.result = "EO_SUCCESS"
            => \/ reader'.chunkOffset > reader.chunkOffset
               \/ reader'.chunkOffset = Length(reader)]_vars

(* A read is all or nothing: whenever the cursor moves by a read the call   *)
(* succeeded and handed out exactly the bytes it moved over; a failed       *)
(* allocation or an underrun leaves the whole struct as it was, so the call *)
(* can be retried.                                                          *)
ReadsAreAllOrNothing ==
    [][last'.op \in NumberOps \cup WindowOps \cup FixedOps =>
         /\ reader' = [reader EXCEPT !.offset = @ + last'.count]
         /\ last'.count > 0 => /\ last'.result = "EO_SUCCESS"
                               /\ last'.value # NULL
                               /\ last'.from = reader.offset]_vars
-----------------------------------------------------------------------------
(* The bytes between the start of the chunk and its end hold no break byte: *)
(* the window is one chunk, however often the mode is switched.  Only a     *)
(* client that turns chunked mode off before the first boundary was found   *)
(* has a window of several chunks.                                          *)
WindowIsOneChunk ==
    ~early =>
        \A i \in reader.chunkOffset .. reader.nextChunk - 1 :
            At(reader, i) # BreakByte

(* A string read in chunked mode never contains a delimiter: get_string and *)
(* get_encoded_string stay inside the current chunk.                        *)
StringsStayInChunk ==
    ~early /\ reader.chunked /\ last.op \in WindowOps =>
        \A i \in last.from .. last.from + last.count - 1 :
            At(reader, i) # BreakByte

\* The chunk start of the next state lies behind the first break byte.
PassesOneBreak ==
    \A i \in reader.chunkOffset .. reader'.chunkOffset - 1 :
        At(reader, i) = BreakByte => i = reader'.chunkOffset - 1

(* One eo_reader_next_chunk passes exactly one break byte, or reaches the   *)
(* end: no chunk of the buffer is skipped.                                  *)
NextChunkPassesOneBreak ==
    [][~early /\ last'.op = "next_chunk" /\ last'.result = "EO_SUCCESS" =>
         PassesOneBreak]_vars

\* What docs/usage.dox says of eo_reader_next_chunk: the same for any client.
AnyNextChunkPassesOneBreak ==
    [][last'.op = "next_chunk" /\ last'.result = "EO_SUCCESS" => PassesOneBreak]_vars
=============================================================================
