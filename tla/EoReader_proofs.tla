-------------------------- MODULE EoReader_proofs --------------------------
(***************************************************************************)
(* Proofs about EoReader, for every buffer and every base.                 *)
(***************************************************************************)
EXTENDS EoReader, EoCodec_proofs, FiniteSetTheorems

(* Every nonempty set of naturals has a least element.  The initial         *)
(* segments 0..n with n in T are finite sets, and strict inclusion is well  *)
(* founded on those.                                                        *)
LEMMA LeastElement ==
    ASSUME NEW T, T \subseteq Nat, T # {}
    PROVE  \E x \in T : \A y \in T : x <= y
<1> DEFINE Segments == {0 .. n : n \in T}
<1>1. IsWellFoundedOn(StrictSubsetOrdering(Nat), FiniteSubsetsOf(Nat))
  BY FS_StrictSubsetOrderingWellFounded
<1>2. Segments \subseteq FiniteSubsetsOf(Nat)
  <2> SUFFICES ASSUME NEW n \in T PROVE 0 .. n \in FiniteSubsetsOf(Nat)
    OBVIOUS
  <2>1. IsFiniteSet(0 .. n)
    BY FS_Interval
  <2> QED BY <2>1 DEF FiniteSubsetsOf
<1>3. Segments # {}
  OBVIOUS
<1>4. PICK s \in Segments :
          \A t \in Segments : ~ (<<t, s>> \in StrictSubsetOrdering(Nat))
  <2> HIDE DEF Segments
  <2> QED BY <1>1, <1>2, <1>3, WFMin
<1>5. PICK x \in T : s = 0 .. x
  OBVIOUS
<1>6. ASSUME NEW y \in T PROVE x <= y
  <2>1. SUFFICES ASSUME y < x PROVE FALSE
    OBVIOUS
  <2>2. 0 .. y \subseteq 0 .. x /\ x \in 0 .. x /\ x \notin 0 .. y
    BY <2>1
  <2>3. <<0 .. y, s>> \in StrictSubsetOrdering(Nat)
    BY <2>2, <1>5 DEF StrictSubsetOrdering
  <2> QED BY <2>3, <1>4
<1> QED BY <1>6

-----------------------------------------------------------------------------
\* The transform turns bytes into bytes and keeps the length.
LEMMA DecodeStringType ==
    ASSUME NEW s \in Seq(Byte)
    PROVE  DecodeString(s) \in Seq(Byte) /\ Len(DecodeString(s)) = Len(s)
<1>1. \A b \in Byte : \A i, n \in Int : Flip(b, i, n) \in Byte
  BY StringAssumption, NumberAssumption
  DEF Flip, Mirror, Byte, NumberPadding
<1>2. \A k \in 1 .. Len(s) : Flip(s[Len(s) + 1 - k], k - 1, Len(s)) \in Byte
  BY <1>1
<1> QED BY <1>2 DEF DecodeString

\* A slice of the buffer is a sequence of n bytes.
LEMMA BytesType ==
    ASSUME NEW r \in Reader, NEW n \in Nat, HasBytes(r, n)
    PROVE  /\ Bytes(r, n) \in Seq(Byte)
           /\ Len(Bytes(r, n)) = n
<1> DEFINE d == r.data
           a == r.offset
<1>1. d \in Seq(Byte) /\ a \in Nat /\ a + n <= Len(d)
  BY DEF Reader, HasBytes, Length
<1>2. Bytes(r, n) = SubSeq(d, a + 1, a + n)
  BY DEF Bytes
<1> HIDE DEF d, a
<1>3. SubSeq(d, a + 1, a + n) \in Seq(Byte) /\ Len(SubSeq(d, a + 1, a + n)) = n
  BY <1>1
<1> QED BY <1>2, <1>3

-----------------------------------------------------------------------------
(* What eo_reader_next_break_index returns: the end of the buffer outside   *)
(* chunked mode, else the first break byte at or after the chunk start, or  *)
(* the end when there is none.                                              *)
LEMMA NextBreakIndexProperties ==
    ASSUME NEW r \in Reader, r.chunkOffset <= Length(r)
    PROVE  LET n == NextBreakIndex(r)
           IN  /\ n \in r.chunkOffset .. Length(r)
               /\ n < Length(r) => r.chunked /\ At(r, n) = BreakByte
               /\ r.chunked => \A i \in r.chunkOffset .. n - 1 : At(r, i) # BreakByte
<1>1. Length(r) \in Nat /\ r.chunkOffset \in Nat
  BY DEF Reader, Length
<1>2. CASE r.chunked /\ BreaksAhead(r) # {}
  <2>1. BreaksAhead(r) \subseteq Nat
    BY <1>1 DEF BreaksAhead
  <2>2. \E i \in BreaksAhead(r) : \A j \in BreaksAhead(r) : i <= j
    BY <1>2, <2>1, LeastElement
  <2>3. /\ NextBreakIndex(r) \in BreaksAhead(r)
        /\ \A j \in BreaksAhead(r) : NextBreakIndex(r) <= j
    BY <1>2, <2>2 DEF NextBreakIndex
  <2>4. ASSUME NEW i \in r.chunkOffset .. NextBreakIndex(r) - 1
        PROVE  At(r, i) # BreakByte
    <3>1. NextBreakIndex(r) \in r.chunkOffset .. Length(r) - 1
      BY <2>3 DEF BreaksAhead
    <3>2. i \in r.chunkOffset .. Length(r) - 1 /\ i < NextBreakIndex(r)
      BY <1>1, <3>1
    <3>3. i \notin BreaksAhead(r)
      BY <2>3, <3>1, <3>2, <1>1
    <3> QED BY <3>2, <3>3 DEF BreaksAhead
  <2>5. /\ NextBreakIndex(r) \in r.chunkOffset .. Length(r) - 1
        /\ At(r, NextBreakIndex(r)) = BreakByte
    BY <2>3 DEF BreaksAhead
  <2> QED BY <1>1, <1>2, <2>4, <2>5
<1>3. CASE ~(r.chunked /\ BreaksAhead(r) # {})
  <2>1. NextBreakIndex(r) = Length(r)
    BY <1>3 DEF NextBreakIndex
  <2>2. r.chunked => \A i \in r.chunkOffset .. Length(r) - 1 : At(r, i) # BreakByte
    BY <1>3 DEF BreaksAhead
  <2> QED BY <1>1, <2>1, <2>2
<1> QED BY <1>2, <1>3

-----------------------------------------------------------------------------
\* The part of the invariant that is about the struct alone.
ReaderOK(r) ==
    /\ r \in Reader
    /\ r.offset <= Length(r)
    /\ r.nextChunk <= Length(r)
    /\ r.chunkOffset <= r.nextChunk
    /\ r.chunkOffset <= r.offset
    /\ r.nextChunk < Length(r) /\ (r.chunked \/ r.nextChunk # 0)
         => At(r, r.nextChunk) = BreakByte

LEMMA InitReaderOK ==
    ASSUME NEW data \in Seq(Byte)
    PROVE  ReaderOK(InitReader(data))
BY DEF ReaderOK, InitReader, Reader, Length, At

\* Setting the mode keeps the struct consistent.
LEMMA SetModeOK ==
    ASSUME NEW r, ReaderOK(r), NEW e \in BOOLEAN
    PROVE  ReaderOK(SetChunkedMode(r, e))
<1> DEFINE s == [r EXCEPT !.chunked = e]
<1>1. /\ s \in Reader /\ s.data = r.data /\ s.chunked = e
      /\ s.offset = r.offset /\ s.chunkOffset = r.chunkOffset
      /\ s.nextChunk = r.nextChunk /\ Length(s) = Length(r)
      /\ \A i : At(s, i) = At(r, i)
  BY DEF ReaderOK, Reader, Length, At
<1>2. CASE s.nextChunk = 0
  <2> DEFINE n == NextBreakIndex(s)
  <2>1. SetChunkedMode(r, e) = [s EXCEPT !.nextChunk = n]
    BY <1>2 DEF SetChunkedMode
  <2>2. s.chunkOffset = 0 /\ Length(s) \in Nat
    BY <1>1, <1>2 DEF ReaderOK, Reader, Length
  <2> HIDE DEF s
  <2>3. n \in 0 .. Length(s) /\ (n < Length(s) => At(s, n) = BreakByte)
    BY <1>1, <2>2, NextBreakIndexProperties
  <2> HIDE DEF n
  <2>4. QED BY <1>1, <2>1, <2>2, <2>3 DEF ReaderOK, Reader, Length, At
<1>3. CASE s.nextChunk # 0
  <2>1. SetChunkedMode(r, e) = s
    BY <1>3 DEF SetChunkedMode
  <2> HIDE DEF s
  <2> QED BY <1>1, <1>3, <2>1 DEF ReaderOK
<1> QED BY <1>2, <1>3

\* Advancing keeps the struct consistent and moves the chunk start forward.
LEMMA AdvanceChunkOK ==
    ASSUME NEW r, ReaderOK(r), r.chunked
    PROVE  LET a == AdvanceChunk(r)
           IN  /\ ReaderOK(a) /\ a.data = r.data /\ a.chunked
               /\ a.chunkOffset = NextChunkStart(r)
               /\ a.offset = NextChunkStart(r)
               /\ a.chunkOffset > r.chunkOffset \/ a.chunkOffset = Length(r)
               /\ \A i \in a.chunkOffset .. a.nextChunk - 1 : At(a, i) # BreakByte
<1> DEFINE p == NextChunkStart(r)
           s == [r EXCEPT !.offset = p, !.chunkOffset = p]
           n == NextBreakIndex(s)
           a == [s EXCEPT !.nextChunk = n]
<1>1. r \in Reader /\ Length(r) \in Nat /\ r.nextChunk \in Nat /\ r.chunkOffset \in Nat
  BY DEF ReaderOK, Reader, Length
<1>2. /\ p \in Nat /\ p <= Length(r) /\ p >= r.chunkOffset
      /\ p > r.chunkOffset \/ p = Length(r)
  BY <1>1 DEF ReaderOK, NextChunkStart
<1>3. /\ s \in Reader /\ s.data = r.data /\ s.chunked
      /\ s.offset = p /\ s.chunkOffset = p /\ Length(s) = Length(r)
  <2> HIDE DEF p
  <2> QED BY <1>1, <1>2 DEF Reader, Length
<1>4. /\ n \in p .. Length(r) /\ (n < Length(r) => At(s, n) = BreakByte)
      /\ \A i \in p .. n - 1 : At(s, i) # BreakByte
  <2> HIDE DEF s, p
  <2> QED BY <1>2, <1>3, NextBreakIndexProperties
<1>5. AdvanceChunk(r) = a
  BY DEF AdvanceChunk
<1>6. /\ a \in Reader /\ a.data = r.data /\ a.chunked /\ a.offset = p
      /\ a.chunkOffset = p /\ a.nextChunk = n /\ Length(a) = Length(r)
      /\ \A i : At(a, i) = At(s, i)
  <2> HIDE DEF n, s, p
  <2> QED BY <1>2, <1>3, <1>4 DEF Reader, Length, At
<1> HIDE DEF a, n, s, p
<1>7. ReaderOK(a)
  BY <1>2, <1>4, <1>6 DEF ReaderOK
<1> QED BY <1>2, <1>4, <1>5, <1>6, <1>7 DEF p

\* Moving the cursor over bytes that are there keeps the struct consistent.
LEMMA ConsumeOK ==
    ASSUME NEW r, ReaderOK(r), NEW n \in Nat, r.offset + n <= Length(r)
    PROVE  /\ ReaderOK(Consume(r, n))
           /\ Consume(r, n).data = r.data
BY DEF ReaderOK, Consume, Reader, Length, At

-----------------------------------------------------------------------------
(* What every read returns: it reports the cursor it started from, takes    *)
(* only bytes of the buffer, and takes any only when it succeeds and        *)
(* delivers a value of the kind Values.                                     *)
ReturnOK(r, ret, Values) ==
    /\ ret.result \in Results
    /\ ret.from = r.offset
    /\ ret.count \in Nat
    /\ r.offset + ret.count <= Length(r)
    /\ ret.value \in Values \cup {NULL}
    /\ ret.count > 0 => ret.result = "EO_SUCCESS" /\ ret.value # NULL

LEMMA ReturnedOK ==
    ASSUME NEW r, ReaderOK(r), NEW Values, NEW v \in Values \cup {NULL},
           NEW result \in Results
    PROVE  ReturnOK(r, Returned(r, result, v), Values)
BY DEF ReturnOK, Returned, ReaderOK, Reader, Length

LEMMA UnderrunOK ==
    ASSUME NEW r, ReaderOK(r), NEW Values, NEW v \in Values \cup {NULL}
    PROVE  ReturnOK(r, Underrun(r, v), Values)
BY ReturnedOK DEF Underrun, Results

LEMMA GetByteOK ==
    ASSUME NEW r, ReaderOK(r)
    PROVE  ReturnOK(r, GetByte(r), Int)
<1>1. CASE ~HasBytes(r, 1)
  BY <1>1, UnderrunOK DEF GetByte
<1>2. CASE HasBytes(r, 1)
  <2>1. At(r, r.offset) \in Byte
    <3>1. r.data \in Seq(Byte) /\ r.offset + 1 \in 1 .. Len(r.data)
      BY <1>2 DEF ReaderOK, HasBytes, Reader, Length
    <3> QED BY <3>1 DEF At
  <2>2. At(r, r.offset) \in Int
    BY <2>1, NumberAssumption DEF Byte
  <2> QED BY <1>2, <2>2, NullAssumption
          DEF GetByte, ReturnOK, Results, ReaderOK, Reader, HasBytes
<1> QED BY <1>1, <1>2

LEMMA GetNumberOK ==
    ASSUME NEW r, ReaderOK(r), NEW n \in Nat
    PROVE  ReturnOK(r, GetNumber(r, n), Int)
<1>1. CASE ~HasBytes(r, n)
  BY <1>1, UnderrunOK DEF GetNumber
<1>2. CASE HasBytes(r, n)
  <2>1. DecodeNumber(Bytes(r, n)) \in Int
    BY <1>2, BytesType, DecodeNumberType DEF ReaderOK
  <2> QED BY <1>2, <2>1, NullAssumption
          DEF GetNumber, ReturnOK, Results, ReaderOK, Reader, HasBytes
<1> QED BY <1>1, <1>2

\* The three allocating reads, whatever they make of the n bytes.
LEMMA AllocatedOK ==
    ASSUME NEW r, ReaderOK(r), NEW n \in Nat, HasBytes(r, n),
           NEW alloc \in BOOLEAN, NEW v \in Seq(Byte)
    PROVE  ReturnOK(r, Allocated(r, n, alloc, v), Seq(Byte))
<1>1. CASE alloc
  BY <1>1, NullAssumption
  DEF Allocated, ReturnOK, Results, ReaderOK, Reader, HasBytes
<1>2. CASE ~alloc
  BY <1>2, ReturnedOK DEF Allocated, Results
<1> QED BY <1>1, <1>2

LEMMA EmptyType == \A alloc \in BOOLEAN : Empty(alloc) \in Seq(Byte) \cup {NULL}
BY DEF Empty

LEMMA FixedReadsOK ==
    ASSUME NEW r, ReaderOK(r), NEW n \in Nat, NEW alloc \in BOOLEAN
    PROVE  /\ ReturnOK(r, GetFixedString(r, n, alloc), Seq(Byte))
           /\ ReturnOK(r, GetFixedEncodedString(r, n, alloc), Seq(Byte))
           /\ ReturnOK(r, GetBytes(r, n, alloc), Seq(Byte))
<1>1. CASE ~HasBytes(r, n)
  BY <1>1, UnderrunOK, EmptyType
  DEF GetFixedString, GetFixedEncodedString, GetBytes
<1>2. CASE HasBytes(r, n)
  <2>1. Bytes(r, n) \in Seq(Byte) /\ DecodeString(Bytes(r, n)) \in Seq(Byte)
    BY <1>2, BytesType, DecodeStringType DEF ReaderOK
  <2> QED BY <1>2, <2>1, AllocatedOK
          DEF GetFixedString, GetFixedEncodedString, GetBytes
<1> QED BY <1>1, <1>2

\* What is left of the window is there to be read, and ends with the chunk.
LEMMA RemainingOK ==
    ASSUME NEW r, ReaderOK(r)
    PROVE  /\ Remaining(r) \in Nat
           /\ Remaining(r) > 0 =>
                 /\ HasBytes(r, Remaining(r))
                 /\ r.chunked => r.offset + Remaining(r) = r.nextChunk
BY DEF Remaining, HasBytes, ReaderOK, Reader, Length

LEMMA WindowReadsOK ==
    ASSUME NEW r, ReaderOK(r), NEW alloc \in BOOLEAN,
           NEW ret \in {GetString(r, alloc), GetEncodedString(r, alloc)}
    PROVE  /\ ReturnOK(r, ret, Seq(Byte))
           /\ ret.count > 0 /\ r.chunked => r.offset + ret.count = r.nextChunk
<1>1. CASE Remaining(r) = 0
  <2>1. ret = Returned(r, "EO_SUCCESS", Empty(alloc))
    BY <1>1 DEF GetString, GetEncodedString
  <2>2. ReturnOK(r, ret, Seq(Byte))
    BY <2>1, EmptyType, ReturnedOK DEF Results
  <2> QED BY <2>1, <2>2 DEF Returned
<1>2. CASE Remaining(r) # 0
  <2> DEFINE n == Remaining(r)
  <2>1. n \in Nat /\ n > 0 /\ HasBytes(r, n)
    BY <1>2, RemainingOK
  <2>2. ret \in {GetFixedString(r, n, alloc), GetFixedEncodedString(r, n, alloc)}
    BY <1>2 DEF GetString, GetEncodedString
  <2>3. ReturnOK(r, ret, Seq(Byte))
    BY <2>1, <2>2, FixedReadsOK
  <2>4. ret.count \in {0, n}
    BY <2>1, <2>2
    DEF GetFixedString, GetFixedEncodedString, Allocated, Returned
  <2>5. r.chunked => r.offset + n = r.nextChunk
    BY <2>1, RemainingOK
  <2> HIDE DEF n
  <2> QED BY <2>3, <2>4, <2>5
<1> QED BY <1>1, <1>2

-----------------------------------------------------------------------------
\* The invariant: it is inductive, and each invariant of the runs follows.
Inv == ReaderOK(reader) /\ CallTypeOK /\ CursorInBounds /\ SkipsOnlyBreak

(* One read: an operation of kind op whose return is ReturnOK keeps the     *)
(* invariant and is all or nothing.                                         *)
LEMMA ReadStep ==
    ASSUME Inv, NEW op, NEW ret, NEW Values, Read(op, ret),
           ReturnOK(reader, ret, Values),
           op \in NumberOps => Values = Int,
           op \notin NumberOps => Values = Seq(Byte)
    PROVE  /\ Inv'
           /\ reader' = [reader EXCEPT !.offset = @ + last'.count]
           /\ last'.count > 0 => /\ last'.result = "EO_SUCCESS"
                                 /\ last'.value # NULL
                                 /\ last'.from = reader.offset
           /\ last'.op = op
<1>1. /\ last'.op = op /\ last'.result = ret.result /\ last'.value = ret.value
      /\ last'.from = ret.from /\ last'.count = ret.count
  BY DEF Read, Call
<1>2. /\ ret.count \in Nat /\ reader.offset + ret.count <= Length(reader)
      /\ ret.from = reader.offset
  BY DEF ReturnOK
<1>3. ReaderOK(reader) /\ reader' = Consume(reader, ret.count)
  BY DEF Inv, Read
<1>4. ReaderOK(reader') /\ reader'.data = reader.data
  BY <1>2, <1>3, ConsumeOK
<1>5. CallTypeOK'
  <2>1. ret.result \in Results /\ ret.value \in Values \cup {NULL}
    BY DEF ReturnOK
  <2>2. reader' \in Reader /\ ret.from \in Nat
    BY <1>2, <1>3, <1>4 DEF ReaderOK, Reader
  <2>3. last'.value # NULL =>
          IF last'.op \in NumberOps THEN last'.value \in Int
                                    ELSE last'.value \in Seq(Byte)
    BY <1>1, <2>1
  <2> QED BY <1>1, <1>2, <2>1, <2>2, <2>3 DEF CallTypeOK
<1>6. CursorInBounds'
  BY <1>1, <1>2, <1>4 DEF CursorInBounds, ReaderOK, Length
<1>7. SkipsOnlyBreak'
  BY <1>4 DEF SkipsOnlyBreak, ReaderOK
<1>8. reader' = [reader EXCEPT !.offset = @ + last'.count]
  BY <1>1, <1>3 DEF Consume
<1>9. Inv'
  BY <1>4, <1>5, <1>6, <1>7 DEF Inv
<1> QED BY <1>1, <1>2, <1>8, <1>9 DEF ReturnOK

\* Every read of Reads is such an operation.
LEMMA ReadsAreReadSteps ==
    ASSUME Inv, Reads
    PROVE  \E op \in NumberOps \cup WindowOps \cup FixedOps : \E ret :
              /\ Read(op, ret)
              /\ ReturnOK(reader, ret, IF op \in NumberOps THEN Int ELSE Seq(Byte))
              /\ op \in WindowOps /\ ret.count > 0 /\ reader.chunked
                    => reader.offset + ret.count = reader.nextChunk
<1> USE DEF NumberOps, WindowOps, FixedOps
<1>0. ReaderOK(reader)
  BY DEF Inv
<1>1. CASE ReadByte
  BY <1>0, <1>1, GetByteOK DEF ReadByte
<1>2. CASE ReadNumber
  <2>1. PICK n \in 1 .. 4 : Read(NumberOp[n], GetNumber(reader, n))
    BY <1>2 DEF ReadNumber
  <2>2. NumberOp[n] \in NumberOps /\ NumberOp[n] \notin WindowOps
    BY DEF NumberOp
  <2>3. ReturnOK(reader, GetNumber(reader, n), Int)
    BY <1>0, GetNumberOK
  <2> QED BY <2>1, <2>2, <2>3
<1>3. CASE \E alloc \in BOOLEAN : ReadString(alloc) \/ ReadEncodedString(alloc)
  <2>1. PICK alloc \in BOOLEAN : ReadString(alloc) \/ ReadEncodedString(alloc)
    BY <1>3
  <2>2. CASE ReadString(alloc)
    BY <1>0, <2>2, WindowReadsOK DEF ReadString
  <2>3. CASE ReadEncodedString(alloc)
    BY <1>0, <2>3, WindowReadsOK DEF ReadEncodedString
  <2> QED BY <2>1, <2>2, <2>3
<1>4. CASE \E n \in Lengths, alloc \in BOOLEAN :
             \/ ReadFixedString(n, alloc)
             \/ ReadFixedEncodedString(n, alloc)
             \/ ReadBytes(n, alloc)
  <2>1. PICK n \in Lengths, alloc \in BOOLEAN :
             \/ ReadFixedString(n, alloc)
             \/ ReadFixedEncodedString(n, alloc)
             \/ ReadBytes(n, alloc)
    BY <1>4
  <2>2. n \in Nat
    BY ReaderAssumption
  <2>3. CASE ReadFixedString(n, alloc)
    BY <1>0, <2>2, <2>3, FixedReadsOK DEF ReadFixedString
  <2>4. CASE ReadFixedEncodedString(n, alloc)
    BY <1>0, <2>2, <2>4, FixedReadsOK DEF ReadFixedEncodedString
  <2>5. CASE ReadBytes(n, alloc)
    BY <1>0, <2>2, <2>5, FixedReadsOK DEF ReadBytes
  <2> QED BY <2>1, <2>3, <2>4, <2>5
<1> QED BY <1>1, <1>2, <1>3, <1>4 DEF Reads

\* Reads keep the invariant.
LEMMA ReadsKeepInv ==
    ASSUME Inv, Reads
    PROVE  /\ Inv'
           /\ reader' = [reader EXCEPT !.offset = @ + last'.count]
           /\ last'.count > 0 => /\ last'.result = "EO_SUCCESS"
                                 /\ last'.value # NULL
                                 /\ last'.from = reader.offset
           /\ last'.op \in NumberOps \cup WindowOps \cup FixedOps
<1>1. PICK op \in NumberOps \cup WindowOps \cup FixedOps : \E ret :
              /\ Read(op, ret)
              /\ ReturnOK(reader, ret, IF op \in NumberOps THEN Int ELSE Seq(Byte))
  BY ReadsAreReadSteps
<1>2. PICK ret :
              /\ Read(op, ret)
              /\ ReturnOK(reader, ret, IF op \in NumberOps THEN Int ELSE Seq(Byte))
  BY <1>1
<1>3. CASE op \in NumberOps
  <2>1. ReturnOK(reader, ret, Int)
    BY <1>2, <1>3
  <2> QED BY <1>2, <1>3, <2>1, ReadStep
<1>4. CASE op \notin NumberOps
  <2>1. ReturnOK(reader, ret, Seq(Byte))
    BY <1>2, <1>4
  <2> QED BY <1>2, <1>4, <2>1, ReadStep
<1> QED BY <1>3, <1>4

\* The calls that return without a value: Inv needs only the struct.
LEMMA QuietStep ==
    ASSUME Inv, NEW op, NEW result \in Results, ReaderOK(reader'),
           reader'.data = reader.data,
           last' = Call(op, Returned(reader, result, NULL))
    PROVE  Inv'
<1>1. /\ last'.result = result /\ last'.value = NULL
      /\ last'.from = reader.offset /\ last'.count = 0
  BY DEF Call, Returned
<1>2. reader.offset \in Nat /\ reader.offset <= Length(reader')
  BY DEF Inv, ReaderOK, Reader, Length
<1>3. CallTypeOK'
  BY <1>1, <1>2 DEF CallTypeOK, ReaderOK
<1>4. CursorInBounds'
  BY <1>1, <1>2 DEF CursorInBounds, ReaderOK
<1>5. SkipsOnlyBreak'
  BY DEF SkipsOnlyBreak, ReaderOK
<1> QED BY <1>3, <1>4, <1>5 DEF Inv

LEMMA SetChunkedModeData ==
    ASSUME NEW r, ReaderOK(r), NEW e \in BOOLEAN
    PROVE  /\ SetChunkedMode(r, e).data = r.data
           /\ SetChunkedMode(r, e).chunkOffset = r.chunkOffset
           /\ SetChunkedMode(r, e).offset = r.offset
           /\ SetChunkedMode(r, e).chunked = e
BY DEF SetChunkedMode, ReaderOK, Reader

LEMMA SetModeStep ==
    ASSUME Inv, NEW e \in BOOLEAN, SetMode(e)
    PROVE  /\ Inv'
           /\ reader'.chunkOffset = reader.chunkOffset
           /\ last'.op = "set_mode"
<1>1. ReaderOK(reader) /\ reader' = SetChunkedMode(reader, e)
  BY DEF Inv, SetMode
<1>2. ReaderOK(reader')
  BY <1>1, SetModeOK
<1>3. reader'.data = reader.data /\ reader'.chunkOffset = reader.chunkOffset
  BY <1>1, SetChunkedModeData
<1>4. last' = Call("set_mode", Returned(reader, "EO_SUCCESS", NULL))
  BY DEF SetMode
<1>5. last'.op = "set_mode"
  BY <1>4 DEF Call
<1> QED BY <1>2, <1>3, <1>4, <1>5, QuietStep DEF Results

LEMMA NullArgumentStep ==
    ASSUME Inv, NullArgument
    PROVE  Inv' /\ last'.op = "null"
<1>1. ReaderOK(reader) /\ reader' = reader
  BY DEF Inv, NullArgument
<1>2. ReaderOK(reader') /\ reader'.data = reader.data
  BY <1>1
<1>3. last' = Call("null", Returned(reader, "EO_NULL_PTR", NULL))
  BY DEF NullArgument
<1>4. last'.op = "null"
  BY <1>3 DEF Call
<1> QED BY <1>2, <1>3, <1>4, QuietStep DEF Results

LEMMA NextChunkStep ==
    ASSUME Inv, NextChunk
    PROVE  /\ Inv'
           /\ last'.op = "next_chunk"
           /\ \/ last'.result # "EO_SUCCESS" /\ reader' = reader
              \/ reader.chunked /\ reader' = AdvanceChunk(reader)
<1>1. ReaderOK(reader)
  BY DEF Inv
<1>2. CASE /\ ~reader.chunked /\ reader' = reader
           /\ last' = Call("next_chunk",
                            Returned(reader, "EO_CHUNKED_MODE_DISABLED", NULL))
  <2>1. ReaderOK(reader') /\ reader'.data = reader.data
    BY <1>1, <1>2
  <2>2. last'.op = "next_chunk" /\ last'.result = "EO_CHUNKED_MODE_DISABLED"
    BY <1>2 DEF Call, Returned
  <2> QED BY <1>2, <2>1, <2>2, QuietStep DEF Results
<1>3. CASE /\ reader.chunked /\ reader' = AdvanceChunk(reader)
           /\ last' = Call("next_chunk", Returned(reader, "EO_SUCCESS", NULL))
  <2>1. ReaderOK(reader') /\ reader'.data = reader.data
    BY <1>1, <1>3, AdvanceChunkOK
  <2>2. last'.op = "next_chunk"
    BY <1>3 DEF Call
  <2> QED BY <1>3, <2>1, <2>2, QuietStep DEF Results
<1> QED BY <1>2, <1>3 DEF NextChunk

LEMMA InitInv == Init => Inv
<1> SUFFICES ASSUME Init PROVE Inv
  OBVIOUS
<1>1. PICK data \in Inputs :
        /\ reader = InitReader(data)
        /\ last = Call("init", Returned(InitReader(data), "EO_SUCCESS", NULL))
  BY DEF Init
<1>2. ReaderOK(reader) /\ reader.offset = 0
  BY <1>1, ReaderAssumption, InitReaderOK DEF InitReader
<1>3. last.result = "EO_SUCCESS" /\ last.value = NULL /\ last.from = 0 /\ last.count = 0
  BY <1>1 DEF Call, Returned, InitReader
<1>4. CallTypeOK
  BY <1>2, <1>3 DEF CallTypeOK, ReaderOK, Results
<1>5. CursorInBounds
  BY <1>2, <1>3 DEF CursorInBounds, ReaderOK, Reader, Length
<1>6. SkipsOnlyBreak
  BY <1>2 DEF SkipsOnlyBreak, ReaderOK
<1> QED BY <1>2, <1>4, <1>5, <1>6 DEF Inv

LEMMA NextInv == Inv /\ [Next]_vars => Inv'
<1> SUFFICES ASSUME Inv, [Next]_vars PROVE Inv'
  OBVIOUS
<1>1. CASE NullArgument
  BY <1>1, NullArgumentStep
<1>2. CASE Enable
  BY <1>2, SetModeStep DEF Enable
<1>3. CASE Disable
  BY <1>3, SetModeStep DEF Disable
<1>4. CASE NextChunk
  BY <1>4, NextChunkStep
<1>5. CASE Reads
  BY <1>5, ReadsKeepInv
<1>6. CASE UNCHANGED vars
  BY <1>6 DEF vars, Inv, ReaderOK, CallTypeOK, CursorInBounds, SkipsOnlyBreak
<1> QED BY <1>1, <1>2, <1>3, <1>4, <1>5, <1>6 DEF Next

(* Whatever calls a client makes, in whatever order, over any buffer: the   *)
(* invariant holds.                                                         *)
THEOREM InvHolds == Spec => []Inv
<1>1. Init => Inv
  BY InitInv
<1>2. Inv /\ [Next]_vars => Inv'
  BY NextInv
<1> QED BY <1>1, <1>2, PTL DEF Spec

\* Every value of the struct and of the last call has its type.
THEOREM TypeCorrect == Spec => []TypeOK
<1>1. Init => early \in BOOLEAN
  BY DEF Init
<1>2. early \in BOOLEAN /\ [Next]_vars => (early \in BOOLEAN)'
  BY DEF Next, Disable, vars
<1>3. Spec => [](early \in BOOLEAN)
  BY <1>1, <1>2, PTL DEF Spec
<1>4. Inv /\ early \in BOOLEAN => TypeOK
  BY DEF Inv, TypeOK
<1> QED BY <1>3, <1>4, InvHolds, PTL

(* No eo_reader_* call reads outside its buffer, and the cursor and the     *)
(* chunk offsets never leave it.                                            *)
THEOREM ReadsInBounds == Spec => []CursorInBounds
<1>1. Inv => CursorInBounds
  BY DEF Inv
<1> QED BY <1>1, InvHolds, PTL

(* eo_reader_next_chunk never steps over a data byte, also after the mode   *)
(* was toggled.                                                             *)
THEOREM NextChunkSkipsOnlyBreak == Spec => []SkipsOnlyBreak
<1>1. Inv => SkipsOnlyBreak
  BY DEF Inv
<1> QED BY <1>1, InvHolds, PTL

-----------------------------------------------------------------------------
\* A read moves the cursor and nothing else.
LEMMA ReadsKeepChunk ==
    ASSUME Inv, Reads
    PROVE  /\ reader'.chunkOffset = reader.chunkOffset
           /\ reader'.nextChunk = reader.nextChunk
           /\ reader'.chunked = reader.chunked
           /\ reader'.data = reader.data
           /\ last'.op # "next_chunk"
<1>1. reader' = [reader EXCEPT !.offset = @ + last'.count]
  BY ReadsKeepInv
<1>2. last'.op \in NumberOps \cup WindowOps \cup FixedOps
  BY ReadsKeepInv
<1>3. reader \in Reader
  BY DEF Inv, ReaderOK
<1> QED BY <1>1, <1>2, <1>3 DEF Reader, NumberOps, WindowOps, FixedOps

(* A loop that calls eo_reader_next_chunk reaches the end: every call that  *)
(* is not at the end moves the chunk start forward, and nothing moves it    *)
(* back.                                                                    *)
THEOREM ChunkLoopAdvances == Spec => ChunksAdvance
<1> DEFINE Step == /\ reader'.chunkOffset >= reader.chunkOffset
                   /\ last'.op = "next_chunk" /\ last'.result = "EO_SUCCESS"
                        => \/ reader'.chunkOffset > reader.chunkOffset
                           \/ reader'.chunkOffset = Length(reader)
<1>1. ASSUME Inv, [Next]_vars PROVE [Step]_vars
  <2>0. reader.chunkOffset \in Nat /\ ReaderOK(reader)
    BY <1>1 DEF Inv, ReaderOK, Reader
  <2>1. CASE NullArgument
    <3>1. reader' = reader /\ last'.op = "null"
      BY <1>1, <2>1, NullArgumentStep DEF NullArgument
    <3> QED BY <2>0, <3>1
  <2>2. CASE Enable
    <3>1. reader'.chunkOffset = reader.chunkOffset /\ last'.op = "set_mode"
      BY <1>1, <2>2, SetModeStep DEF Enable
    <3> QED BY <2>0, <3>1
  <2>3. CASE Disable
    <3>1. reader'.chunkOffset = reader.chunkOffset /\ last'.op = "set_mode"
      BY <1>1, <2>3, SetModeStep DEF Disable
    <3> QED BY <2>0, <3>1
  <2>4. CASE NextChunk
    <3>1. CASE last'.result # "EO_SUCCESS" /\ reader' = reader
      BY <2>0, <3>1
    <3>2. CASE reader.chunked /\ reader' = AdvanceChunk(reader)
      <4>1. \/ reader'.chunkOffset > reader.chunkOffset
            \/ reader'.chunkOffset = Length(reader)
        BY <2>0, <3>2, AdvanceChunkOK
      <4>2. reader.chunkOffset <= Length(reader) /\ Length(reader) \in Nat
        BY <2>0 DEF ReaderOK, Reader, Length
      <4>3. reader'.chunkOffset \in Nat
        BY <2>0, <3>2, AdvanceChunkOK DEF ReaderOK, Reader
      <4> QED BY <2>0, <4>1, <4>2, <4>3
    <3> QED BY <1>1, <2>4, <3>1, <3>2, NextChunkStep
  <2>5. CASE Reads
    BY <1>1, <2>0, <2>5, ReadsKeepChunk
  <2>6. CASE UNCHANGED vars
    BY <2>6
  <2> HIDE DEF Step
  <2> QED BY <1>1, <2>1, <2>2, <2>3, <2>4, <2>5, <2>6 DEF Next
<1> HIDE DEF Step
<1>2. Spec => [][Step]_vars
  BY <1>1, InvHolds, PTL DEF Spec
<1> QED BY <1>2, PTL DEF ChunksAdvance, Step

(* Every read is all or nothing: it succeeds with the bytes it moved over,  *)
(* or it leaves the reader as it was.                                       *)
THEOREM ReadsAtomic == Spec => ReadsAreAllOrNothing
<1> DEFINE Kinds == NumberOps \cup WindowOps \cup FixedOps
           Step == last'.op \in Kinds =>
                     /\ reader' = [reader EXCEPT !.offset = @ + last'.count]
                     /\ last'.count > 0 => /\ last'.result = "EO_SUCCESS"
                                           /\ last'.value # NULL
                                           /\ last'.from = reader.offset
<1>1. ASSUME Inv, [Next]_vars PROVE [Step]_vars
  <2>0. "null" \notin Kinds /\ "set_mode" \notin Kinds /\ "next_chunk" \notin Kinds
    BY DEF NumberOps, WindowOps, FixedOps
  <2> HIDE DEF Kinds
  <2>1. CASE NullArgument
    BY <1>1, <2>0, <2>1, NullArgumentStep
  <2>2. CASE Enable
    BY <1>1, <2>0, <2>2, SetModeStep DEF Enable
  <2>3. CASE Disable
    BY <1>1, <2>0, <2>3, SetModeStep DEF Disable
  <2>4. CASE NextChunk
    BY <1>1, <2>0, <2>4, NextChunkStep
  <2>5. CASE Reads
    BY <1>1, <2>5, ReadsKeepInv
  <2>6. CASE UNCHANGED vars
    BY <2>6
  <2> HIDE DEF Step
  <2> QED BY <1>1, <2>1, <2>2, <2>3, <2>4, <2>5, <2>6 DEF Next
<1> HIDE DEF Step
<1>2. Spec => [][Step]_vars
  BY <1>1, InvHolds, PTL DEF Spec
<1> QED BY <1>2, PTL DEF ReadsAreAllOrNothing, Step

-----------------------------------------------------------------------------
(* Unless chunked mode was turned off too early, every boundary was         *)
(* computed in chunked mode, by the first switch or by next_chunk: it is    *)
(* the first break of the chunk, and no switch of the mode changes it.      *)
ChunkInv == Inv /\ WindowIsOneChunk /\ StringsStayInChunk

(* A switch of the mode leaves a window that is one chunk, whichever way it *)
(* goes, if there is a boundary already; else it has to go on.              *)
LEMMA SetModeWindow ==
    ASSUME NEW r, NEW enabled \in BOOLEAN, ReaderOK(r), enabled \/ r.nextChunk # 0,
           \A i \in r.chunkOffset .. r.nextChunk - 1 : At(r, i) # BreakByte
    PROVE  LET e == SetChunkedMode(r, enabled)
           IN  \A i \in e.chunkOffset .. e.nextChunk - 1 : At(e, i) # BreakByte
<1> DEFINE s == [r EXCEPT !.chunked = enabled]
           n == NextBreakIndex(s)
<1>1. /\ s \in Reader /\ s.chunked = enabled /\ s.chunkOffset = r.chunkOffset
      /\ s.nextChunk = r.nextChunk /\ Length(s) = Length(r)
      /\ \A i : At(s, i) = At(r, i)
  BY DEF ReaderOK, Reader, Length, At
<1>2. CASE s.nextChunk = 0
  <2>1. SetChunkedMode(r, enabled) = [s EXCEPT !.nextChunk = n]
    BY <1>2 DEF SetChunkedMode
  <2>2. s.chunkOffset <= Length(s) /\ s.chunked
    BY <1>1, <1>2 DEF ReaderOK, Reader, Length
  <2> HIDE DEF s
  <2>3. \A i \in s.chunkOffset .. n - 1 : At(s, i) # BreakByte
    BY <1>1, <2>2, NextBreakIndexProperties
  <2> HIDE DEF n
  <2> QED BY <1>1, <2>1, <2>3 DEF Reader, At
<1>3. CASE s.nextChunk # 0
  <2>1. SetChunkedMode(r, enabled) = s
    BY <1>1, <1>3 DEF SetChunkedMode
  <2> HIDE DEF s
  <2> QED BY <1>1, <2>1
<1> QED BY <1>2, <1>3

LEMMA ChunkInit == Init => ChunkInv
<1> SUFFICES ASSUME Init PROVE ChunkInv
  OBVIOUS
<1>1. PICK data \in Inputs :
        /\ reader = InitReader(data)
        /\ last = Call("init", Returned(InitReader(data), "EO_SUCCESS", NULL))
  BY DEF Init
<1>2. ~reader.chunked /\ reader.nextChunk = 0 /\ reader.chunkOffset = 0
  BY <1>1 DEF InitReader
<1> QED BY <1>2, InitInv DEF ChunkInv, WindowIsOneChunk, StringsStayInChunk

\* A read keeps the window; a string read took only bytes of the window.
LEMMA ChunkReads ==
    ASSUME ChunkInv, Reads, UNCHANGED early
    PROVE  ChunkInv'
<1>1. Inv /\ Inv' /\ reader \in Reader
  BY ReadsKeepInv DEF ChunkInv, Inv, ReaderOK
<1>2. /\ reader'.chunkOffset = reader.chunkOffset
      /\ reader'.nextChunk = reader.nextChunk
      /\ reader'.chunked = reader.chunked
      /\ reader'.data = reader.data
  BY <1>1, ReadsKeepChunk
<1>3. WindowIsOneChunk'
  BY <1>2 DEF ChunkInv, WindowIsOneChunk, At
<1>4. StringsStayInChunk'
  <2>1. PICK op \in NumberOps \cup WindowOps \cup FixedOps : \E ret :
              /\ Read(op, ret)
              /\ ReturnOK(reader, ret, IF op \in NumberOps THEN Int ELSE Seq(Byte))
              /\ op \in WindowOps /\ ret.count > 0 /\ reader.chunked
                    => reader.offset + ret.count = reader.nextChunk
    BY <1>1, ReadsAreReadSteps
  <2>2. PICK ret :
              /\ Read(op, ret)
              /\ ReturnOK(reader, ret, IF op \in NumberOps THEN Int ELSE Seq(Byte))
              /\ op \in WindowOps /\ ret.count > 0 /\ reader.chunked
                    => reader.offset + ret.count = reader.nextChunk
    BY <2>1
  <2>3. /\ last'.op = op /\ last'.from = reader.offset /\ last'.count = ret.count
        /\ ret.count \in Nat
    BY <2>2 DEF Read, Call, ReturnOK
  <2> SUFFICES ASSUME ~early, reader'.chunked, last'.op \in WindowOps,
                      NEW i \in last'.from .. last'.from + last'.count - 1
               PROVE  At(reader', i) # BreakByte
    BY DEF StringsStayInChunk
  <2>4. reader.offset + ret.count = reader.nextChunk
    BY <1>1, <1>2, <2>2, <2>3 DEF Reader
  <2>5. i \in reader.chunkOffset .. reader.nextChunk - 1
    BY <1>1, <2>3, <2>4 DEF Inv, ReaderOK, Reader
  <2> QED BY <1>2, <2>5 DEF ChunkInv, WindowIsOneChunk, At
<1> QED BY <1>1, <1>3, <1>4 DEF ChunkInv

LEMMA ChunkNext == ChunkInv /\ [Next]_vars => ChunkInv'
<1> SUFFICES ASSUME ChunkInv, [Next]_vars PROVE ChunkInv'
  OBVIOUS
<1>0. Inv /\ ReaderOK(reader)
  BY DEF ChunkInv, Inv
<1>1. CASE NullArgument /\ UNCHANGED early
  <2>1. UNCHANGED <<reader, early>> /\ last'.op \notin WindowOps /\ Inv'
    BY <1>0, <1>1, NullArgumentStep DEF NullArgument, WindowOps
  <2> QED BY <2>1 DEF ChunkInv, WindowIsOneChunk, StringsStayInChunk
<1>2. CASE (Enable /\ UNCHANGED early) \/ Disable
  <2>0. PICK enabled \in BOOLEAN : SetMode(enabled) /\ (enabled \/ Disable)
    BY <1>2 DEF Enable, Disable
  <2>1. Inv' /\ last'.op \notin WindowOps
    BY <1>0, <2>0, SetModeStep DEF WindowOps
  <2>2. reader' = SetChunkedMode(reader, enabled)
    BY <1>0, <2>0 DEF SetMode
  <2>3. ~early' => ~early /\ (enabled \/ reader.nextChunk # 0)
    BY <1>2, <2>0 DEF Disable
  <2>4. ~early' => \A i \in reader'.chunkOffset .. reader'.nextChunk - 1 :
                      At(reader', i) # BreakByte
    BY <1>0, <2>2, <2>3, SetModeWindow DEF ChunkInv, WindowIsOneChunk
  <2> QED BY <2>1, <2>4 DEF ChunkInv, WindowIsOneChunk, StringsStayInChunk
<1>3. CASE NextChunk /\ UNCHANGED early
  <2>1. Inv' /\ last'.op \notin WindowOps
    BY <1>0, <1>3, NextChunkStep DEF WindowOps
  <2>2. CASE reader' = reader
    BY <1>3, <2>1, <2>2 DEF ChunkInv, WindowIsOneChunk, StringsStayInChunk
  <2>3. CASE reader.chunked /\ reader' = AdvanceChunk(reader)
    <3>1. /\ reader'.chunked
          /\ \A i \in reader'.chunkOffset .. reader'.nextChunk - 1 :
                At(reader', i) # BreakByte
      BY <1>0, <2>3, AdvanceChunkOK
    <3> QED BY <1>3, <2>1, <3>1
            DEF ChunkInv, WindowIsOneChunk, StringsStayInChunk
  <2> QED BY <1>0, <1>3, <2>2, <2>3, NextChunkStep
<1>4. CASE Reads /\ UNCHANGED early
  BY <1>4, ChunkReads
<1>5. CASE UNCHANGED vars
  BY <1>5 DEF vars, ChunkInv, Inv, ReaderOK, CallTypeOK, CursorInBounds,
              SkipsOnlyBreak, WindowIsOneChunk, StringsStayInChunk
<1> QED BY <1>1, <1>2, <1>3, <1>4, <1>5 DEF Next

THEOREM ChunkInvHolds == Spec => []ChunkInv
BY ChunkInit, ChunkNext, PTL DEF Spec

(* Unless the client turned chunked mode off before it had a boundary, the  *)
(* window is one chunk, however often the mode is switched.                 *)
THEOREM WindowHolds == Spec => []WindowIsOneChunk
<1>1. ChunkInv => WindowIsOneChunk
  BY DEF ChunkInv
<1> QED BY <1>1, ChunkInvHolds, PTL

(* For such a client get_string and get_encoded_string never return a       *)
(* delimiter in chunked mode.                                               *)
THEOREM StringsWithinChunk == Spec => []StringsStayInChunk
<1>1. ChunkInv => StringsStayInChunk
  BY DEF ChunkInv
<1> QED BY <1>1, ChunkInvHolds, PTL

(* For such a client every eo_reader_next_chunk passes one delimiter: no    *)
(* chunk is skipped.                                                        *)
THEOREM NoChunkSkipped == Spec => NextChunkPassesOneBreak
<1> DEFINE Step == ~early /\ last'.op = "next_chunk" /\ last'.result = "EO_SUCCESS"
                     => PassesOneBreak
<1>1. ASSUME ChunkInv, [Next]_vars PROVE [Step]_vars
  <2>0. Inv /\ ReaderOK(reader)
    BY <1>1 DEF ChunkInv, Inv
  <2>1. CASE NullArgument
    BY <2>0, <2>1, NullArgumentStep
  <2>2. CASE Enable \/ Disable
    BY <2>0, <2>2, SetModeStep DEF Enable, Disable
  <2>3. CASE NextChunk
    <3>1. CASE last'.result # "EO_SUCCESS" \/ early
      BY <3>1
    <3>2. CASE ~early /\ reader.chunked /\ reader' = AdvanceChunk(reader)
      <4>1. reader'.chunkOffset = NextChunkStart(reader)
        BY <2>0, <3>2, AdvanceChunkOK
      <4>2. \A i \in reader.chunkOffset .. reader.nextChunk - 1 : At(reader, i) # BreakByte
        BY <1>1, <3>2 DEF ChunkInv, WindowIsOneChunk
      <4>3. \A i \in reader.chunkOffset .. reader'.chunkOffset - 1 :
               i \in reader.chunkOffset .. reader.nextChunk - 1 \/ i = reader'.chunkOffset - 1
        BY <2>0, <4>1 DEF ReaderOK, Reader, Length, NextChunkStart
      <4> QED BY <4>2, <4>3 DEF PassesOneBreak
    <3> QED BY <2>0, <2>3, <3>1, <3>2, NextChunkStep
  <2>4. CASE Reads
    BY <2>0, <2>4, ReadsKeepChunk
  <2>5. CASE UNCHANGED vars
    BY <2>5
  <2> HIDE DEF Step
  <2> QED BY <1>1, <2>1, <2>2, <2>3, <2>4, <2>5 DEF Next
<1> HIDE DEF Step
<1>2. Spec => [][Step]_vars
  BY <1>1, ChunkInvHolds, PTL DEF Spec
<1> QED BY <1>2, PTL DEF NextChunkPassesOneBreak, Step
=============================================================================
