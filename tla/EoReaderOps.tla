---------------------------- MODULE EoReaderOps ----------------------------
(***************************************************************************)
(* The EoReader functions of src/src/data.c as operators on the reader     *)
(* struct.  Each function that changes the struct is an operator from the  *)
(* old struct to the new one; what a call returns is a record              *)
(*     [result |-> the EoResult, value |-> what *out_value becomes,        *)
(*      from |-> the offset it read at, count |-> how many bytes it took]. *)
(* A number is returned as itself, a string or byte array as a sequence.   *)
(* Offsets count from 0 as they do in C.                                   *)
(***************************************************************************)
EXTENDS EoString

Reader == [data         : Seq(Byte),
           offset       : Nat,
           chunked      : BOOLEAN,
           chunkOffset  : Nat,
           nextChunk    : Nat]

Length(r) == Len(r.data)
At(r, i)  == r.data[i + 1]

InitReader(data) ==
    [data |-> data, offset |-> 0, chunked |-> FALSE,
     chunkOffset |-> 0, nextChunk |-> 0]

-----------------------------------------------------------------------------
(* Faulty variants, named for their fault: each is the code with one        *)
(* plausible mistake, and some property of EoReader must notice it.         *)
BreaksAhead_WrongDelimiter(r) ==
    {i \in r.chunkOffset .. Length(r) - 1 : At(r, i) = NumberPadding}

\* Offsets of the break bytes at or after the start of the current chunk.
BreaksAhead(r) ==
    {i \in r.chunkOffset .. Length(r) - 1 : At(r, i) = BreakByte}

\* eo_reader_next_break_index
NextBreakIndex(r) ==
    IF r.chunked /\ BreaksAhead(r) # {}
    THEN CHOOSE i \in BreaksAhead(r) : \A j \in BreaksAhead(r) : i <= j
    ELSE Length(r)

\* Looks for the boundary before the mode is set.
SetChunkedMode_OldMode(r, enabled) ==
    IF r.nextChunk = 0
    THEN [r EXCEPT !.chunked = enabled, !.nextChunk = NextBreakIndex(r)]
    ELSE [r EXCEPT !.chunked = enabled]

(* eo_reader_set_chunked_reading_mode.  The boundary is computed only while *)
(* next_chunk_offset is still 0, with the mode just set.                    *)
SetChunkedMode(r, enabled) ==
    LET s == [r EXCEPT !.chunked = enabled]
    IN  IF s.nextChunk = 0 THEN [s EXCEPT !.nextChunk = NextBreakIndex(s)] ELSE s

\* Counts to the end of the buffer in chunked mode too.
Remaining_WholeBuffer(r) ==
    IF r.offset >= Length(r) THEN 0 ELSE Length(r) - r.offset

\* eo_reader_remaining
Remaining(r) ==
    IF r.offset >= Length(r) THEN 0
    ELSE IF ~r.chunked THEN Length(r) - r.offset
    ELSE IF r.nextChunk < r.offset THEN 0
    ELSE r.nextChunk - r.offset

\* Steps over a delimiter even when the chunk ended with the buffer.
NextChunkStart_AlwaysSkips(r) == r.nextChunk + 1

\* Forgets to step over the delimiter.
NextChunkStart_NeverSkips(r) == r.nextChunk

\* The offset eo_reader_next_chunk moves to: past the break, if there is one.
NextChunkStart(r) == IF r.nextChunk < Length(r) THEN r.nextChunk + 1 ELSE r.nextChunk

\* eo_reader_next_chunk, when chunked mode is on.
AdvanceChunk(r) ==
    LET s == [r EXCEPT !.offset      = NextChunkStart(r),
                       !.chunkOffset = NextChunkStart(r)]
    IN  [s EXCEPT !.nextChunk = NextBreakIndex(s)]

-----------------------------------------------------------------------------
(* The reads.  Every eo_reader_get_* compares the bytes left in the whole   *)
(* buffer, not those left in the chunk, with the n it needs.                *)
HasBytes(r, n) == r.offset + n <= Length(r)
Bytes(r, n)    == SubSeq(r.data, r.offset + 1, r.offset + n)
Consume(r, n)  == [r EXCEPT !.offset = @ + n]

\* What a call returns when it takes no bytes.
Returned(r, result, value) ==
    [result |-> result, value |-> value, from |-> r.offset, count |-> 0]

\* Every missing byte is taken for an empty chunk.
Underrun_AlwaysEmpty(r, empty) == Returned(r, "EO_SUCCESS", empty)

\* What a read returns when the buffer is too short for it.
Underrun(r, empty) ==
    IF r.chunked THEN Returned(r, "EO_SUCCESS", empty)
                 ELSE Returned(r, "EO_BUFFER_UNDERRUN", NULL)

\* eo_reader_get_byte: the byte itself.
GetByte(r) ==
    IF ~HasBytes(r, 1) THEN Underrun(r, 0)
    ELSE [result |-> "EO_SUCCESS", value |-> At(r, r.offset),
          from |-> r.offset, count |-> 1]

\* eo_reader_get_char, get_short, get_three and get_int, by their width n.
GetNumber(r, n) ==
    IF ~HasBytes(r, n) THEN Underrun(r, 0)
    ELSE [result |-> "EO_SUCCESS", value |-> DecodeNumber(Bytes(r, n)),
          from |-> r.offset, count |-> n]

\* Moves the cursor although the allocation failed.
Allocated_ConsumesOnFailure(r, n, alloc, value) ==
    [result |-> IF alloc THEN "EO_SUCCESS" ELSE "EO_ALLOC_FAILED",
     value  |-> IF alloc THEN value ELSE NULL,
     from   |-> r.offset, count |-> n]

(* The three functions that copy n bytes into a fresh allocation; alloc     *)
(* says whether malloc delivers.  A failed malloc leaves NULL behind and    *)
(* the offset where it was.  strdup("") of an underrun is not checked.      *)
Allocated(r, n, alloc, value) ==
    IF alloc THEN [result |-> "EO_SUCCESS", value |-> value,
                   from |-> r.offset, count |-> n]
             ELSE Returned(r, "EO_ALLOC_FAILED", NULL)

Empty(alloc) == IF alloc THEN << >> ELSE NULL

\* eo_reader_get_fixed_string
GetFixedString(r, n, alloc) ==
    IF ~HasBytes(r, n) THEN Underrun(r, Empty(alloc))
    ELSE Allocated(r, n, alloc, Bytes(r, n))

\* eo_reader_get_fixed_encoded_string
GetFixedEncodedString(r, n, alloc) ==
    IF ~HasBytes(r, n) THEN Underrun(r, Empty(alloc))
    ELSE Allocated(r, n, alloc, DecodeString(Bytes(r, n)))

\* eo_reader_get_bytes
GetBytes(r, n, alloc) ==
    IF ~HasBytes(r, n) THEN Underrun(r, NULL)
    ELSE Allocated(r, n, alloc, Bytes(r, n))

\* eo_reader_get_string
GetString(r, alloc) ==
    IF Remaining(r) = 0 THEN Returned(r, "EO_SUCCESS", Empty(alloc))
    ELSE GetFixedString(r, Remaining(r), alloc)

\* eo_reader_get_encoded_string
GetEncodedString(r, alloc) ==
    IF Remaining(r) = 0 THEN Returned(r, "EO_SUCCESS", Empty(alloc))
    ELSE GetFixedEncodedString(r, Remaining(r), alloc)
=============================================================================
