--------------------------- MODULE EoWriter_proofs ---------------------------
(***************************************************************************)
(* Proofs about the writer.  Every add either refuses and leaves the bytes *)
(* alone or appends some sequence; the lemmas say which sequences each add *)
(* may append, and that the memory behind the writer grows with them.      *)
(***************************************************************************)
EXTENDS EoWriter, EoCodec_proofs

\* The struct agrees with its memory.
Bounded(w) ==
    /\ WLength(w) <= w.block
    /\ w.capacity = w.block
    /\ w.capacity <= SizeMax

\* v is w with s behind its bytes, and memory for it.
Grown(w, v, s) ==
    /\ v \in Writer /\ Bounded(v)
    /\ v.data = w.data \o s
    /\ v.sanitize = w.sanitize

\* The outcome of an add that appends one of the sequences S, or refuses.
Added(w, ret, S) ==
    /\ ret.result \in Results
    /\ IF ret.result = "EO_SUCCESS" THEN \E s \in S : Grown(w, ret.writer, s)
                                    ELSE Grown(w, ret.writer, << >>)

LEMMA GrownByNothing ==
    ASSUME NEW w \in Writer, Bounded(w)
    PROVE  Grown(w, w, << >>)
<1>1. w.data \in Seq(Byte)
  BY DEF Writer
<1>2. w.data \o << >> = w.data
  BY <1>1
<1> QED BY <1>2 DEF Grown

\* eo_writer_ensure_capacity gives room for n more bytes or changes nothing.
LEMMA EnsureCapacityFacts ==
    ASSUME NEW w \in Writer, Bounded(w), NEW n \in Nat, NEW fail
    PROVE  LET e == EnsureCapacity(w, n, fail)
           IN  /\ e.result \in Results
               /\ Grown(w, e.writer, << >>)
               /\ e.result = "EO_SUCCESS" => WLength(w) + n <= e.writer.block
<1> DEFINE e == EnsureCapacity(w, n, fail)
           required == WLength(w) + n
<1>1. /\ w.data \in Seq(Byte) /\ w.capacity \in Nat /\ w.block \in Nat
      /\ w.sanitize \in BOOLEAN /\ WLength(w) \in Nat
      /\ w.block = w.capacity /\ WLength(w) <= w.block /\ w.capacity <= SizeMax
      /\ SizeMax \in Nat
  BY SizeAssumption DEF Writer, Bounded, WLength
<1>2. CASE SizeMax - WLength(w) < n
  <2>1. e = Refused(w, "EO_OVERFLOW")
    BY <1>2 DEF EnsureCapacity
  <2> HIDE DEF e
  <2> QED BY <2>1, GrownByNothing DEF Refused, Results, e
<1>3. CASE ~(SizeMax - WLength(w) < n) /\ w.capacity >= required
  <2>1. e = Ok(w)
    BY <1>3 DEF EnsureCapacity
  <2> HIDE DEF e
  <2> QED BY <1>1, <1>3, <2>1, GrownByNothing DEF Ok, Results, e
<1>4. CASE ~(SizeMax - WLength(w) < n) /\ ~(w.capacity >= required) /\ fail = "grow"
  <2>1. e = Refused(w, "EO_ALLOC_FAILED")
    BY <1>4 DEF EnsureCapacity
  <2> HIDE DEF e
  <2> QED BY <2>1, GrownByNothing DEF Refused, Results, e
<1>5. CASE ~(SizeMax - WLength(w) < n) /\ ~(w.capacity >= required) /\ fail # "grow"
  <2> DEFINE v == [w EXCEPT !.capacity = required, !.block = required]
  <2>1. e = Ok(v)
    BY <1>5 DEF EnsureCapacity
  <2>2. required \in Nat /\ required <= SizeMax /\ WLength(w) <= required
    BY <1>1, <1>5
  <2> HIDE DEF required
  <2>3. /\ v \in Writer /\ v.data = w.data /\ v.sanitize = w.sanitize
        /\ v.capacity = required /\ v.block = required
    BY <2>2 DEF Writer
  <2> HIDE DEF v
  <2>4. Bounded(v)
    BY <2>2, <2>3 DEF Bounded, WLength
  <2>5. w.data \o << >> = w.data
    BY <1>1
  <2>6. Grown(w, v, << >>)
    BY <2>3, <2>4, <2>5 DEF Grown
  <2>7. e.result = "EO_SUCCESS" /\ e.writer = v
    BY <2>1 DEF Ok
  <2> HIDE DEF e
  <2> QED BY <2>2, <2>3, <2>6, <2>7 DEF Results, e, required
<1> QED BY <1>2, <1>3, <1>4, <1>5

\* A write into memory that was made sure of.
LEMMA PutFacts ==
    ASSUME NEW w \in Writer, NEW v, Grown(w, v, << >>), NEW s \in Seq(Byte),
           WLength(w) + Len(s) <= v.block
    PROVE  Grown(w, Put(v, s), s)
<1>1. v \in Writer /\ Bounded(v) /\ v.sanitize = w.sanitize /\ w.data \in Seq(Byte)
  BY DEF Grown, Writer
<1>2. v.data = w.data
  BY <1>1 DEF Grown
<1> DEFINE u == Put(v, s)
           d == w.data \o s
<1>3. d \in Seq(Byte) /\ Len(d) = Len(w.data) + Len(s)
  BY <1>1
<1> HIDE DEF d
<1>4. /\ u \in Writer /\ u.data = d /\ u.capacity = v.capacity
      /\ u.block = v.block /\ u.sanitize = v.sanitize
  BY <1>1, <1>2, <1>3 DEF Put, Writer, d
<1> HIDE DEF u
<1>5. Bounded(u)
  BY <1>1, <1>3, <1>4 DEF Bounded, WLength
<1> QED BY <1>1, <1>4, <1>5 DEF Grown, u, d

\* Adding s where one of S was asked for.
LEMMA AppendFacts ==
    ASSUME NEW w \in Writer, Bounded(w), NEW s \in Seq(Byte), NEW fail, NEW S, s \in S
    PROVE  Added(w, EnsureAndAppend(w, s, fail), S)
<1> DEFINE e == EnsureCapacity(w, Len(s), fail)
<1>1. /\ e.result \in Results /\ Grown(w, e.writer, << >>)
      /\ e.result = "EO_SUCCESS" => WLength(w) + Len(s) <= e.writer.block
  BY EnsureCapacityFacts
<1>2. EnsureAndAppend(w, s, fail) =
        IF e.result # "EO_SUCCESS" THEN e ELSE Ok(Put(e.writer, s))
  BY DEF EnsureAndAppend
<1> HIDE DEF e
<1>3. CASE e.result # "EO_SUCCESS"
  BY <1>1, <1>2, <1>3 DEF Added
<1>4. CASE e.result = "EO_SUCCESS"
  <2>1. Grown(w, Put(e.writer, s), s)
    BY <1>1, <1>4, PutFacts
  <2> QED BY <1>2, <1>4, <2>1 DEF Added, Ok, Results
<1> QED BY <1>3, <1>4

\* The same for encoded texts, which need an allocation more.
LEMMA AppendEncodedFacts ==
    ASSUME NEW w \in Writer, Bounded(w), NEW s \in Seq(Byte), NEW fail, NEW S,
           EncodeString(s) \in S
    PROVE  Added(w, AppendEncoded(w, s, fail), S)
<1> DEFINE e == EnsureCapacity(w, Len(s), fail)
<1>1. /\ e.result \in Results /\ Grown(w, e.writer, << >>)
      /\ e.result = "EO_SUCCESS" => WLength(w) + Len(s) <= e.writer.block
  BY EnsureCapacityFacts
<1>2. AppendEncoded(w, s, fail) =
        IF e.result # "EO_SUCCESS" THEN e
        ELSE IF fail = "scratch" THEN Refused(e.writer, "EO_ALLOC_FAILED")
        ELSE Ok(Put(e.writer, EncodeString(s)))
  BY DEF AppendEncoded
<1> HIDE DEF e
<1>3. CASE e.result # "EO_SUCCESS"
  BY <1>1, <1>2, <1>3 DEF Added
<1>4. CASE e.result = "EO_SUCCESS" /\ fail = "scratch"
  BY <1>1, <1>2, <1>4 DEF Added, Refused, Results
<1>5. CASE e.result = "EO_SUCCESS" /\ fail # "scratch"
  <2>1. EncodeString(s) \in Seq(Byte) /\ Len(EncodeString(s)) = Len(s)
    BY EncodeStringFacts
  <2>2. Grown(w, Put(e.writer, EncodeString(s)), EncodeString(s))
    BY <1>1, <1>5, <2>1, PutFacts
  <2> QED BY <1>2, <1>5, <2>2 DEF Added, Ok, Results
<1> QED BY <1>3, <1>4, <1>5

-----------------------------------------------------------------------------
\* What a text may be written as.
Allowed(w) == IF w.sanitize THEN Quiet ELSE Seq(Byte)

LEMMA QuietIsBytes == Quiet \subseteq Seq(Byte) /\ NumeralBytes \subseteq Quiet
<1>1. Quiet \subseteq Seq(Byte)
  BY DEF Quiet
<1>2. 1 .. CharMax + 1 \subseteq Byte \ {BreakByte}
  BY NumberAssumption DEF Byte, BreakByte
<1>3. NumeralBytes \subseteq Quiet
  <2> SUFFICES ASSUME NEW s \in Seq(1 .. CharMax + 1)
               PROVE  s \in Seq(Byte \ {BreakByte})
    BY DEF NumeralBytes, Quiet
  <2> QED BY <1>2, SeqMonotonic
<1> QED BY <1>1, <1>3

LEMMA TextBytesFacts ==
    ASSUME NEW w \in Writer, NEW text \in Seq(Char)
    PROVE  /\ TextBytes(w, text) \in Seq(Byte)
           /\ TextBytes(w, text) \in Allowed(w)
           /\ Len(TextBytes(w, text)) = Len(text)
<1> DEFINE n == NormalizeToCp1252(text)
           c == Sanitize(n)
<1>1. \A k \in 1 .. Len(text) : text[k] \in Char
  OBVIOUS
<1>2. \A k \in 1 .. Len(text) : text[k].cp1252 \in Byte
  BY <1>1 DEF Char
<1>3. n = [k \in 1 .. Len(text) |-> text[k].cp1252]
  BY DEF NormalizeToCp1252
<1> HIDE DEF n
<1>4. n \in Seq(Byte) /\ Len(n) = Len(text)
  BY <1>2, <1>3
<1>5. SanitizedBreak \in Byte \ {BreakByte}
  BY StringAssumption, NumberAssumption DEF Byte, BreakByte, NumberPadding
<1>6. c = [k \in 1 .. Len(n) |-> IF n[k] = BreakByte THEN SanitizedBreak ELSE n[k]]
  BY DEF Sanitize
<1>7. \A k \in 1 .. Len(n) : n[k] \in Byte
  BY <1>4
<1> HIDE DEF c
<1>8. c \in Seq(Byte \ {BreakByte}) /\ Len(c) = Len(text)
  BY <1>4, <1>5, <1>6, <1>7
<1>9. c \in Seq(Byte) /\ c \in Quiet
  BY <1>8, QuietIsBytes DEF Quiet
<1>10. TextBytes(w, text) = IF w.sanitize THEN c ELSE n
  BY DEF TextBytes, c, n
<1> QED BY <1>4, <1>8, <1>9, <1>10 DEF Allowed

\* A field is filled up to its length; only padding brings in delimiters.
LEMMA FieldBytesFacts ==
    ASSUME NEW w \in Writer, NEW text \in Seq(Char), NEW n \in Nat,
           NEW padded \in BOOLEAN, FitsField(text, n, padded)
    PROVE  /\ FieldBytes(w, text, n) \in Seq(Byte)
           /\ ~padded => FieldBytes(w, text, n) \in Allowed(w)
           /\ Len(FieldBytes(w, text, n)) = n
<1> DEFINE t == TextBytes(w, text)
           p == Padding(n - Len(text))
<1>1. t \in Seq(Byte) /\ t \in Allowed(w) /\ Len(t) = Len(text)
  BY TextBytesFacts
<1>2. n - Len(text) \in Nat /\ (~padded => n - Len(text) = 0)
  BY DEF FitsField
<1>3. BreakByte \in Byte
  BY NumberTypes
<1>4. p = [k \in 1 .. n - Len(text) |-> BreakByte]
  BY DEF Padding
<1> HIDE DEF t, p
<1>5. p \in Seq(Byte) /\ Len(p) = n - Len(text)
  BY <1>2, <1>3, <1>4
<1>6. t \o p \in Seq(Byte) /\ Len(t \o p) = n
  BY <1>1, <1>2, <1>5
<1>7. ASSUME ~padded PROVE t \o p = t
  <2>1. Len(p) = 0
    BY <1>2, <1>5, <1>7
  <2> QED BY <1>1, <1>5, <2>1
<1>8. FieldBytes(w, text, n) = t \o p
  BY DEF FieldBytes, t, p
<1> QED BY <1>1, <1>6, <1>7, <1>8

LEMMA AddNumberFacts ==
    ASSUME NEW w \in Writer, Bounded(w), NEW n \in 1 .. 4, NEW value \in Int32, NEW fail
    PROVE  Added(w, AddNumber(w, n, value, fail), NumeralBytes)
<1> DEFINE s == Encoded(n, value)
<1>1. /\ s \in Seq(Byte) /\ Len(s) = n
      /\ \A k \in 1 .. n : s[k] \in 1 .. CharMax + 1
  BY EncodedWidth
<1>2. AddNumber(w, n, value, fail) =
        IF ~Accepts(n, value) THEN Refused(w, InvalidNumber[n])
        ELSE EnsureAndAppend(w, s, fail)
  BY DEF AddNumber
<1> HIDE DEF s
<1>3. s \in NumeralBytes
  BY <1>1, SeqOver DEF NumeralBytes
<1>4. Added(w, EnsureAndAppend(w, s, fail), NumeralBytes)
  BY <1>1, <1>3, AppendFacts
<1>5. InvalidNumber[n] \in Results \ {"EO_SUCCESS"}
  <2>1. n = 1 \/ n = 2 \/ n = 3 \/ n = 4
    OBVIOUS
  <2> QED BY <2>1 DEF InvalidNumber, Results
<1>6. Added(w, Refused(w, InvalidNumber[n]), NumeralBytes)
  BY <1>5, GrownByNothing DEF Added, Refused
<1> QED BY <1>2, <1>4, <1>6

\* An empty text and a text that was refused leave the bytes alone.
LEMMA NothingAdded ==
    ASSUME NEW w \in Writer, Bounded(w), NEW S, << >> \in S,
           NEW result \in Results \ {"EO_SUCCESS"}
    PROVE  Added(w, Ok(w), S) /\ Added(w, Refused(w, result), S)
BY GrownByNothing DEF Added, Ok, Refused, Results

LEMMA EmptyAllowed == \A w \in Writer : << >> \in Allowed(w) /\ << >> \in Seq(Byte)
BY DEF Allowed, Quiet

LEMMA AddStringFacts ==
    ASSUME NEW w \in Writer, Bounded(w), NEW text \in Seq(Char) \cup {NULL}, NEW fail
    PROVE  Added(w, AddString(w, text, fail), Allowed(w))
<1>1. /\ Added(w, Ok(w), Allowed(w))
      /\ Added(w, Refused(w, "EO_ALLOC_FAILED"), Allowed(w))
  <2>1. "EO_ALLOC_FAILED" \in Results \ {"EO_SUCCESS"}
    BY DEF Results
  <2> QED BY <2>1, NothingAdded, EmptyAllowed
<1>2. ASSUME text # NULL
      PROVE  Added(w, EnsureAndAppend(w, TextBytes(w, text), fail), Allowed(w))
  BY <1>2, TextBytesFacts, AppendFacts
<1> QED BY <1>1, <1>2 DEF AddString

LEMMA EncodedAllowed ==
    ASSUME NEW w \in Writer, NEW s \in Seq(Byte)
    PROVE  /\ EncodeString(s) \in Seq(Byte)
           /\ s \in Allowed(w) => EncodeString(s) \in Allowed(w)
BY EncodeStringFacts DEF Allowed

LEMMA AddEncodedStringFacts ==
    ASSUME NEW w \in Writer, Bounded(w), NEW text \in Seq(Char) \cup {NULL}, NEW fail
    PROVE  Added(w, AddEncodedString(w, text, fail), Allowed(w))
<1>1. /\ Added(w, Ok(w), Allowed(w))
      /\ Added(w, Refused(w, "EO_ALLOC_FAILED"), Allowed(w))
  <2>1. "EO_ALLOC_FAILED" \in Results \ {"EO_SUCCESS"}
    BY DEF Results
  <2> QED BY <2>1, NothingAdded, EmptyAllowed
<1>2. ASSUME text # NULL
      PROVE  Added(w, AppendEncoded(w, TextBytes(w, text), fail), Allowed(w))
  BY <1>2, TextBytesFacts, EncodedAllowed, AppendEncodedFacts
<1> QED BY <1>1, <1>2 DEF AddEncodedString

LEMMA AddFixedStringFacts ==
    ASSUME NEW w \in Writer, Bounded(w), NEW text \in Seq(Char) \cup {NULL},
           NEW n \in Nat, NEW padded \in BOOLEAN, NEW fail
    PROVE  LET S == IF padded THEN Seq(Byte) ELSE Allowed(w)
           IN  /\ Added(w, AddFixedString(w, text, n, padded, fail), S)
               /\ Added(w, AddFixedEncodedString(w, text, n, padded, fail), S)
<1> DEFINE S == IF padded THEN Seq(Byte) ELSE Allowed(w)
<1>1. << >> \in S
  BY EmptyAllowed
<1>2. {"EO_ALLOC_FAILED", FieldError(padded)} \subseteq Results \ {"EO_SUCCESS"}
  BY DEF Results, FieldError
<1> HIDE DEF S
<1>3. /\ Added(w, Ok(w), S)
      /\ Added(w, Refused(w, "EO_ALLOC_FAILED"), S)
      /\ Added(w, Refused(w, FieldError(padded)), S)
  <2>1. \A r \in Results \ {"EO_SUCCESS"} :
            Added(w, Ok(w), S) /\ Added(w, Refused(w, r), S)
    BY <1>1, NothingAdded
  <2> QED BY <1>2, <2>1
<1>4. ASSUME text # NULL, FitsField(text, n, padded)
      PROVE  /\ Added(w, EnsureAndAppend(w, FieldBytes(w, text, n), fail), S)
             /\ Added(w, AppendEncoded(w, FieldBytes(w, text, n), fail), S)
  <2> DEFINE s == FieldBytes(w, text, n)
  <2>1. s \in Seq(Byte) /\ (~padded => s \in Allowed(w))
    BY <1>4, FieldBytesFacts
  <2> HIDE DEF s
  <2>2. s \in S /\ EncodeString(s) \in S
    BY <2>1, EncodedAllowed DEF S
  <2>3. /\ Added(w, EnsureAndAppend(w, s, fail), S)
        /\ Added(w, AppendEncoded(w, s, fail), S)
    BY <2>1, <2>2, AppendFacts, AppendEncodedFacts
  <2> QED BY <2>3 DEF s
<1>5. Added(w, AddFixedString(w, text, n, padded, fail), S)
  BY <1>3, <1>4 DEF AddFixedString
<1>6. Added(w, AddFixedEncodedString(w, text, n, padded, fail), S)
  BY <1>3, <1>4 DEF AddFixedEncodedString
<1> QED BY <1>5, <1>6 DEF S

-----------------------------------------------------------------------------
(* The inductive invariant.  It needs the first allocation to succeed: the  *)
(* code does not look whether it did, and without it the invariant fails in *)
(* the initial state.                                                       *)
Inv == TypeOK /\ Bounded(writer)

FirstAllocationSucceeds == InitOutcomes \subseteq {TRUE}

LEMMA InitEstablishes ==
    ASSUME FirstAllocationSucceeds, Init
    PROVE  Inv
<1>1. PICK c \in Capacities, allocated \in InitOutcomes :
          writer = InitWriter(c, allocated) /\ last = Call("init", "EO_SUCCESS")
  BY DEF Init
<1>2. allocated = TRUE /\ c \in Nat /\ c <= SizeMax
  BY WriterAssumption DEF FirstAllocationSucceeds
<1>3. writer = [data |-> << >>, capacity |-> c, block |-> c, sanitize |-> FALSE]
  BY <1>1, <1>2 DEF InitWriter
<1>4. writer \in Writer /\ Bounded(writer)
  BY <1>2, <1>3 DEF Writer, Bounded, WLength
<1>5. last.result \in Results
  BY <1>1 DEF Call, Results
<1> QED BY <1>4, <1>5 DEF Inv, TypeOK

\* What the call of this step returned.
Outcome == [result |-> last'.result, writer |-> writer']

(* What a step can be: a free, a call that leaves the bytes alone, or a     *)
(* write.  A number appends numerals; only raw writes append sequences that *)
(* sanitization does not allow.                                             *)
Freed == last'.op = "free" /\ writer' = FreeWriter(writer)
Kept  == /\ last'.op # "free"
         /\ writer' \in Writer /\ Bounded(writer') /\ writer'.data = writer.data
Wrote == /\ last'.op # "free"
         /\ Added(writer, Outcome, Seq(Byte))
         /\ last'.op = "add_number" => Added(writer, Outcome, NumeralBytes)
         /\ last'.op \notin RawOps => Added(writer, Outcome, Allowed(writer))

LEMMA AddedWeaken ==
    ASSUME NEW w, NEW ret, NEW S, NEW T, S \subseteq T, Added(w, ret, S)
    PROVE  Added(w, ret, T)
BY DEF Added

LEMMA AllowedIsBytes == \A w : Allowed(w) \subseteq Seq(Byte) /\ NumeralBytes \subseteq Allowed(w)
BY QuietIsBytes DEF Allowed

\* From what the operator returns to what the step shows.
LEMMA AddStep ==
    ASSUME NEW op, NEW ret, NEW S, Add(op, ret), Added(writer, ret, S)
    PROVE  Added(writer, Outcome, S) /\ last'.op = op /\ last'.result \in Results
<1>1. last' = [op |-> op, result |-> ret.result] /\ writer' = ret.writer
  BY DEF Add, Call
<1>2. Outcome.result = ret.result /\ Outcome.writer = ret.writer
  BY <1>1 DEF Outcome
<1>3. Added(writer, Outcome, S)
  BY <1>2 DEF Added
<1>4. last'.result \in Results
  BY <1>1 DEF Added
<1> QED BY <1>1, <1>3, <1>4

LEMMA WriteSteps ==
    ASSUME Inv, NEW fail, Writes(fail)
    PROVE  Wrote /\ last'.result \in Results
<1>1. writer \in Writer /\ Bounded(writer)
  BY DEF Inv, TypeOK
<1>2. ASSUME NEW op, NEW ret, NEW S, Add(op, ret), Added(writer, ret, S),
             op # "free", S \subseteq Seq(Byte),
             op = "add_number" => S \subseteq NumeralBytes,
             op \notin RawOps => S \subseteq Allowed(writer)
      PROVE  Wrote /\ last'.result \in Results
  <2>1. Added(writer, Outcome, S) /\ last'.op = op /\ last'.result \in Results
    BY <1>2, AddStep
  <2>2. \A T : S \subseteq T => Added(writer, Outcome, T)
    BY <2>1, AddedWeaken
  <2> QED BY <1>2, <2>1, <2>2 DEF Wrote
<1>3. ASSUME NEW b \in RawBytes, WriteByte(b, fail)
      PROVE  Wrote /\ last'.result \in Results
  <2>1. <<b>> \in Seq(Byte)
    BY WriterAssumption
  <2>2. Added(writer, AddBytes(writer, <<b>>, fail), Seq(Byte))
    BY <1>1, <2>1, AppendFacts DEF AddBytes
  <2>3. Add("add_byte", AddBytes(writer, <<b>>, fail))
    BY <1>3 DEF WriteByte
  <2> QED BY <1>2, <2>2, <2>3 DEF RawOps
<1>4. ASSUME NEW s \in Arrays, WriteBytes(s, fail)
      PROVE  Wrote /\ last'.result \in Results
  <2>1. s \in Seq(Byte)
    BY WriterAssumption
  <2>2. Added(writer, AddBytes(writer, s, fail), Seq(Byte))
    BY <1>1, <2>1, AppendFacts DEF AddBytes
  <2>3. Add("add_bytes", AddBytes(writer, s, fail))
    BY <1>4 DEF WriteBytes
  <2> QED BY <1>2, <2>2, <2>3 DEF RawOps
<1>5. ASSUME NEW n \in 1 .. 4, NEW value \in Numbers, WriteNumber(n, value, fail)
      PROVE  Wrote /\ last'.result \in Results
  <2>1. value \in Int32
    BY WriterAssumption
  <2>2. Added(writer, AddNumber(writer, n, value, fail), NumeralBytes)
    BY <1>1, <2>1, AddNumberFacts
  <2>3. Add("add_number", AddNumber(writer, n, value, fail))
    BY <1>5 DEF WriteNumber
  <2>4. NumeralBytes \subseteq Seq(Byte) /\ NumeralBytes \subseteq Allowed(writer)
    BY QuietIsBytes, AllowedIsBytes
  <2> QED BY <1>2, <2>2, <2>3, <2>4
<1>6. ASSUME NEW text \in Texts \cup {NULL}, WriteString(text, fail)
      PROVE  Wrote /\ last'.result \in Results
  <2>1. text \in Seq(Char) \cup {NULL}
    BY WriterAssumption
  <2>2. Added(writer, AddString(writer, text, fail), Allowed(writer))
    BY <1>1, <2>1, AddStringFacts
  <2>3. Add("add_string", AddString(writer, text, fail))
    BY <1>6 DEF WriteString
  <2> QED BY <1>2, <2>2, <2>3, AllowedIsBytes
<1>7. ASSUME NEW text \in Texts \cup {NULL}, WriteEncodedString(text, fail)
      PROVE  Wrote /\ last'.result \in Results
  <2>1. text \in Seq(Char) \cup {NULL}
    BY WriterAssumption
  <2>2. Added(writer, AddEncodedString(writer, text, fail), Allowed(writer))
    BY <1>1, <2>1, AddEncodedStringFacts
  <2>3. Add("add_encoded_string", AddEncodedString(writer, text, fail))
    BY <1>7 DEF WriteEncodedString
  <2> QED BY <1>2, <2>2, <2>3, AllowedIsBytes
<1>8. ASSUME NEW text \in Texts \cup {NULL}, NEW n \in FieldLengths, NEW padded \in BOOLEAN,
             \/ WriteFixedString(text, n, padded, fail)
             \/ WriteFixedEncodedString(text, n, padded, fail)
      PROVE  Wrote /\ last'.result \in Results
  <2> DEFINE S == IF padded THEN Seq(Byte) ELSE Allowed(writer)
  <2>1. text \in Seq(Char) \cup {NULL} /\ n \in Nat
    BY WriterAssumption
  <2>2. /\ Added(writer, AddFixedString(writer, text, n, padded, fail), S)
        /\ Added(writer, AddFixedEncodedString(writer, text, n, padded, fail), S)
    BY <1>1, <2>1, AddFixedStringFacts
  <2>3. S \subseteq Seq(Byte) /\ (~padded => S \subseteq Allowed(writer))
    BY AllowedIsBytes
  <2> HIDE DEF S
  <2>4. PICK op, ret :
           /\ Add(op, ret) /\ Added(writer, ret, S)
           /\ op \notin {"free", "add_number"} /\ (padded => op \in RawOps)
    BY <1>8, <2>2 DEF WriteFixedString, WriteFixedEncodedString, RawOps
  <2> QED BY <1>2, <2>3, <2>4
<1> QED BY <1>3, <1>4, <1>5, <1>6, <1>7, <1>8 DEF Writes

LEMMA StepKinds ==
    ASSUME Inv, Next
    PROVE  (Freed \/ Kept \/ Wrote) /\ last'.result \in Results
<1>1. writer \in Writer /\ Bounded(writer)
  BY DEF Inv, TypeOK
<1>2. CASE NullArgument
  BY <1>1, <1>2 DEF NullArgument, Call, Kept, Results
<1>3. ASSUME NEW enabled \in BOOLEAN, SetMode(enabled)
      PROVE  Kept /\ last'.result \in Results
  <2>1. /\ writer' = [writer EXCEPT !.sanitize = enabled]
        /\ last'.op = "set_mode" /\ last'.result = "EO_SUCCESS"
    BY <1>3 DEF SetMode, SetSanitization, Call
  <2> QED BY <1>1, <2>1 DEF Kept, Results, Writer, Bounded, WLength
<1>4. CASE Free
  BY <1>4 DEF Free, Freed, Call, Results
<1>5. ASSUME NEW fail, NEW n \in FieldLengths, Ensure(n, fail)
      PROVE  Kept /\ last'.result \in Results
  <2> DEFINE e == EnsureCapacity(writer, n, fail)
  <2>1. n \in Nat
    BY WriterAssumption
  <2>2. e.result \in Results /\ Grown(writer, e.writer, << >>)
    BY <1>1, <2>1, EnsureCapacityFacts
  <2>3. writer' = e.writer /\ last' = [op |-> "ensure_capacity", result |-> e.result]
    BY <1>5 DEF Ensure, Add, Call
  <2> HIDE DEF e
  <2>4. writer.data \o << >> = writer.data
    BY <1>1 DEF Writer
  <2> QED BY <2>2, <2>3, <2>4 DEF Kept, Grown
<1>6. ASSUME NEW fail, Writes(fail)
      PROVE  Wrote /\ last'.result \in Results
  BY <1>6, WriteSteps
<1> QED BY <1>2, <1>3, <1>4, <1>5, <1>6 DEF Next

LEMMA InvStep ==
    ASSUME Inv, [Next]_vars
    PROVE  Inv'
<1>1. CASE UNCHANGED vars
  BY <1>1 DEF Inv, TypeOK, vars, Bounded, WLength
<1>2. CASE Next
  <2>1. (Freed \/ Kept \/ Wrote) /\ last'.result \in Results
    BY <1>2, StepKinds
  <2>2. writer \in Writer
    BY DEF Inv, TypeOK
  <2>3. writer' \in Writer /\ Bounded(writer')
    <3>1. CASE Freed
      <4>1. writer' = [writer EXCEPT !.data = << >>, !.capacity = 0, !.block = 0]
        BY <3>1 DEF Freed, FreeWriter
      <4>2. /\ writer' \in Writer /\ writer'.data = << >>
            /\ writer'.capacity = 0 /\ writer'.block = 0
        <5>1. writer.sanitize \in BOOLEAN /\ << >> \in Seq(Byte)
          BY <2>2, EmptySeq DEF Writer
        <5>2. writer' = [data |-> << >>, capacity |-> 0, block |-> 0,
                         sanitize |-> writer.sanitize]
          BY <2>2, <4>1 DEF Writer
        <5> QED BY <5>1, <5>2 DEF Writer
      <4>3. Len(writer'.data) = 0
        BY <4>2
      <4> QED BY <4>2, <4>3, SizeAssumption DEF Bounded, WLength
    <3>2. CASE Kept
      BY <3>2 DEF Kept
    <3>3. CASE Wrote
      <4>1. Outcome.writer = writer'
        BY DEF Outcome
      <4> QED BY <3>3, <4>1 DEF Wrote, Added, Grown
    <3> QED BY <2>1, <3>1, <3>2, <3>3
  <2> QED BY <2>1, <2>3 DEF Inv, TypeOK, Bounded, WLength
<1> QED BY <1>1, <1>2

THEOREM InvHolds == FirstAllocationSucceeds /\ Spec => []Inv
<1>1. FirstAllocationSucceeds /\ Init => Inv
  BY InitEstablishes
<1>2. Inv /\ [Next]_vars => Inv'
  BY InvStep
<1> QED BY <1>1, <1>2, PTL DEF Spec

(* Types: the struct and the results are what data.h and result.h declare,  *)
(* for every base, size limit and order of calls.                           *)
THEOREM TypeCorrect == FirstAllocationSucceeds /\ Spec => []TypeOK
<1>1. Inv => TypeOK
  BY DEF Inv
<1> QED BY <1>1, InvHolds, PTL

(* No call writes outside the memory of the writer, whatever allocations    *)
(* fail after the first, and the capacity the code keeps is the size of     *)
(* the block it has.                                                        *)
THEOREM WritesStayInBounds == FirstAllocationSucceeds /\ Spec => []WritesInBounds
<1>1. Inv => WritesInBounds
  BY DEF Inv, Bounded, WritesInBounds, WritesHaveMemory
<1> QED BY <1>1, InvHolds, PTL

-----------------------------------------------------------------------------
\* The bytes of a concatenation.
LEMMA ConcatFacts ==
    ASSUME NEW d \in Seq(Byte), NEW s \in Seq(Byte), NEW e, e = d \o s
    PROVE  /\ e \in Seq(Byte) /\ Len(e) = Len(d) + Len(s)
           /\ SubSeq(e, 1, Len(d)) = d
           /\ \A k \in Len(d) + 1 .. Len(e) :
                 /\ k - Len(d) \in 1 .. Len(s)
                 /\ e[k] = s[k - Len(d)]
<1>1. e \in Seq(Byte) /\ Len(e) = Len(d) + Len(s)
  OBVIOUS
<1>2. /\ \A k \in 1 .. Len(d) : e[k] = d[k]
      /\ \A k \in Len(d) + 1 .. Len(e) :
             k - Len(d) \in 1 .. Len(s) /\ e[k] = s[k - Len(d)]
  OBVIOUS
<1> DEFINE p == SubSeq(e, 1, Len(d))
<1>3. p \in Seq(Byte) /\ Len(p) = Len(d) /\ \A k \in 1 .. Len(d) : p[k] = e[k]
  BY <1>1
<1> HIDE DEF p
<1>4. p = d
  BY <1>2, <1>3, SeqEqual
<1> QED BY <1>1, <1>2, <1>4 DEF p

\* What a write leaves in the buffer.
LEMMA WroteBytes ==
    ASSUME Inv, Wrote, NEW S, S \subseteq Seq(Byte), Added(writer, Outcome, S)
    PROVE  \/ /\ writer'.data = writer.data
           \/ /\ last'.result = "EO_SUCCESS"
              /\ \E s \in S : writer'.data = writer.data \o s
<1>1. Outcome.writer = writer' /\ Outcome.result = last'.result
  BY DEF Outcome
<1>2. writer.data \o << >> = writer.data
  BY DEF Inv, TypeOK, Writer
<1> QED BY <1>1, <1>2 DEF Added, Grown

(* A call that reports an error has written nothing, and no call disturbs   *)
(* what earlier calls wrote.                                                *)
THEOREM AddsAtomic == FirstAllocationSucceeds /\ Spec => AddsAreAllOrNothing
<1> DEFINE Step == last'.op # "free" =>
                       /\ WLength(writer') >= WLength(writer)
                       /\ SubSeq(writer'.data, 1, WLength(writer)) = writer.data
                       /\ last'.result # "EO_SUCCESS" => writer'.data = writer.data
<1>1. ASSUME Inv, Next PROVE Step
  <2>1. writer.data \in Seq(Byte)
    BY <1>1 DEF Inv, TypeOK, Writer
  <2>2. SUFFICES ASSUME last'.op # "free" PROVE Step
    OBVIOUS
  <2>3. SUFFICES ASSUME NEW s \in Seq(Byte), writer'.data = writer.data \o s,
                        \/ s = << >>
                        \/ last'.result = "EO_SUCCESS"
                 PROVE  Step
    <3>1. writer.data = writer.data \o << >> /\ << >> \in Seq(Byte)
      BY <2>1
    <3>2. CASE Kept
      BY <2>3, <3>1, <3>2 DEF Kept
    <3>3. CASE Wrote
      BY <1>1, <2>3, <3>1, <3>3, WroteBytes DEF Wrote
    <3> QED BY <1>1, <2>2, <3>2, <3>3, StepKinds DEF Freed
  <2>4. /\ Len(writer'.data) = Len(writer.data) + Len(s)
        /\ SubSeq(writer'.data, 1, Len(writer.data)) = writer.data
    BY <2>1, <2>3, ConcatFacts
  <2>5. s = << >> => writer'.data = writer.data
    BY <2>1, <2>3
  <2>6. Len(s) \in Nat /\ Len(writer.data) \in Nat
    BY <2>1
  <2> QED BY <2>3, <2>4, <2>5, <2>6 DEF WLength
<1>2. Inv /\ [Next]_vars => [Step]_vars
  BY <1>1
<1> QED BY <1>2, InvHolds, PTL DEF AddsAreAllOrNothing, Spec

(* With sanitization on, the break bytes in a buffer are those of raw       *)
(* writes and of padding.                                                   *)
THEOREM OnlyDeliberateDelimiters ==
    FirstAllocationSucceeds /\ Spec => DelimitersAreDeliberate
<1> DEFINE Step == writer.sanitize /\ last'.op \notin RawOps \cup {"free"} =>
                       \A k \in WLength(writer) + 1 .. WLength(writer') :
                           writer'.data[k] # BreakByte
<1>1. ASSUME Inv, Next PROVE Step
  <2>1. writer.data \in Seq(Byte) /\ Len(writer.data) \in Nat
    BY <1>1 DEF Inv, TypeOK, Writer
  <2>2. SUFFICES ASSUME writer.sanitize, last'.op \notin RawOps \cup {"free"},
                        NEW k \in WLength(writer) + 1 .. WLength(writer')
                 PROVE  writer'.data[k] # BreakByte
    OBVIOUS
  <2>3. writer'.data # writer.data
    BY <2>1, <2>2 DEF WLength
  <2>4. Wrote
    BY <1>1, <2>2, <2>3, StepKinds DEF Freed, Kept
  <2>5. PICK s \in Quiet : writer'.data = writer.data \o s
    <3>1. Allowed(writer) = Quiet
      BY <2>2 DEF Allowed
    <3>2. Added(writer, Outcome, Quiet) /\ Quiet \subseteq Seq(Byte)
      BY <2>2, <2>4, <3>1, QuietIsBytes DEF Wrote
    <3> QED BY <1>1, <2>3, <2>4, <3>2, WroteBytes
  <2>6. s \in Seq(Byte) /\ \A i \in 1 .. Len(s) : s[i] # BreakByte
    BY QuietIsBytes DEF Quiet
  <2> QED BY <2>1, <2>2, <2>5, <2>6, ConcatFacts DEF WLength
<1>2. Inv /\ [Next]_vars => [Step]_vars
  BY <1>1 DEF vars, WLength
<1> QED BY <1>2, InvHolds, PTL DEF DelimitersAreDeliberate, Spec

\* The bytes of a number are never zero and never a delimiter.
THEOREM NumbersHaveNoDelimiter ==
    FirstAllocationSucceeds /\ Spec => NumbersNeverDelimit
<1> DEFINE Step == last'.op = "add_number" =>
                       \A k \in WLength(writer) + 1 .. WLength(writer') :
                           writer'.data[k] \notin {0, BreakByte}
<1>1. ASSUME Inv, Next PROVE Step
  <2>1. writer.data \in Seq(Byte) /\ Len(writer.data) \in Nat
    BY <1>1 DEF Inv, TypeOK, Writer
  <2>2. SUFFICES ASSUME last'.op = "add_number",
                        NEW k \in WLength(writer) + 1 .. WLength(writer')
                 PROVE  writer'.data[k] \notin {0, BreakByte}
    OBVIOUS
  <2>3. writer'.data # writer.data
    BY <2>1, <2>2 DEF WLength
  <2>4. Wrote
    BY <1>1, <2>2, <2>3, StepKinds DEF Freed, Kept
  <2>5. PICK s \in NumeralBytes : writer'.data = writer.data \o s
    <3>1. Added(writer, Outcome, NumeralBytes) /\ NumeralBytes \subseteq Seq(Byte)
      BY <2>2, <2>4, QuietIsBytes DEF Wrote
    <3> QED BY <1>1, <2>3, <2>4, <3>1, WroteBytes
  <2>6. s \in Seq(Byte) /\ \A i \in 1 .. Len(s) : s[i] \in 1 .. CharMax + 1
    <3>1. s \in Seq(Byte)
      BY QuietIsBytes
    <3> QED BY <3>1, ElementOfSeq DEF NumeralBytes
  <2>7. \A b \in 1 .. CharMax + 1 : b \notin {0, BreakByte}
    BY NumberAssumption DEF BreakByte
  <2>8. /\ k - Len(writer.data) \in 1 .. Len(s)
        /\ writer'.data[k] = s[k - Len(writer.data)]
    BY <2>1, <2>2, <2>5, <2>6, ConcatFacts DEF WLength
  <2> QED BY <2>6, <2>7, <2>8
<1>2. Inv /\ [Next]_vars => [Step]_vars
  BY <1>1
<1> QED BY <1>2, InvHolds, PTL DEF NumbersNeverDelimit, Spec

-----------------------------------------------------------------------------
(* What a peer reads of what was written.                                   *)

(* A peer reads a message that begins with what the writer v holds, and has *)
(* come to where the writer w stood before.                                 *)
ReadsAt(r, w, v) ==
    /\ r \in Reader /\ r.offset = WLength(w)
    /\ WLength(v) <= Length(r)
    /\ \A k \in 1 .. WLength(v) : r.data[k] = v.data[k]

LEMMA ReadsBack ==
    ASSUME NEW w \in Writer, NEW s \in Seq(Byte), NEW v, Grown(w, v, s), NEW r, ReadsAt(r, w, v)
    PROVE  /\ HasBytes(r, Len(s)) /\ Bytes(r, Len(s)) = s
           /\ WLength(v) = WLength(w) + Len(s) /\ WLength(w) \in Nat
           /\ \A k \in 1 .. Len(s) : r.data[r.offset + k] = s[k]
<1> DEFINE o == r.offset
           n == Len(s)
<1>1. /\ w.data \in Seq(Byte) /\ v.data = w.data \o s /\ o = Len(w.data)
      /\ o \in Nat /\ n \in Nat /\ r.data \in Seq(Byte) /\ Len(r.data) \in Nat
  BY LenProperties DEF ReadsAt, Grown, Writer, Reader, WLength
<1>2. Len(v.data) = o + n /\ \A k \in 1 .. n : v.data[o + k] = s[k]
  <2> HIDE DEF o, n
  <2> QED BY <1>1, ConcatProperties DEF n
<1>3. o + n <= Len(r.data) /\ \A k \in 1 .. o + n : r.data[k] = v.data[k]
  BY <1>2 DEF ReadsAt, WLength, Length
<1>4. ASSUME NEW k \in 1 .. n PROVE r.data[o + k] = s[k]
  <2>1. o + k \in 1 .. o + n
    BY <1>1
  <2> QED BY <1>2, <1>3, <2>1
<1>5. HasBytes(r, n) /\ Bytes(r, n) = s
  <2>1. o + n <= Length(r) /\ r \in Reader
    BY <1>3 DEF Length, ReadsAt
  <2> QED BY <1>4, <2>1, BytesAhead
<1> QED BY <1>1, <1>2, <1>4, <1>5 DEF WLength

LEMMA AppendedBytes ==
    ASSUME NEW w \in Writer, Bounded(w), NEW s \in Seq(Byte), NEW fail
    PROVE  /\ LET ret == EnsureAndAppend(w, s, fail)
              IN  ret.result = "EO_SUCCESS" => Grown(w, ret.writer, s)
           /\ LET ret == AppendEncoded(w, s, fail)
              IN  ret.result = "EO_SUCCESS" => Grown(w, ret.writer, EncodeString(s))
<1>1. Added(w, EnsureAndAppend(w, s, fail), {s})
  BY AppendFacts
<1>2. Added(w, AppendEncoded(w, s, fail), {EncodeString(s)})
  BY AppendEncodedFacts
<1> QED BY <1>1, <1>2 DEF Added

(* A number the width can hold arrives as it was, negative ones included,   *)
(* from wherever in a message it lies: eo_writer_add_char to add_int against*)
(* eo_reader_get_char to get_int.                                           *)
THEOREM NumbersArrive ==
    ASSUME NEW w \in Writer, Bounded(w), NEW n \in 1 .. 4, NEW value \in Int32,
           Representable(n, value), NEW fail, NEW ret, ret = AddNumber(w, n, value, fail),
           ret.result = "EO_SUCCESS", NEW r, ReadsAt(r, w, ret.writer)
    PROVE  /\ GetNumber(r, n).result = "EO_SUCCESS"
           /\ GetNumber(r, n).value = value
           /\ GetNumber(r, n).count = n
<1> DEFINE s == Encoded(n, value)
<1>1. s \in Seq(Byte) /\ Len(s) = n
  BY EncodedWidth
<1>2. InvalidNumber[n] # "EO_SUCCESS"
  BY DEF InvalidNumber
<1>3. ret = EnsureAndAppend(w, s, fail)
  BY <1>2 DEF AddNumber, Refused
<1> HIDE DEF s
<1>4. Grown(w, ret.writer, s)
  BY <1>1, <1>3, AppendedBytes
<1>5. HasBytes(r, n) /\ Bytes(r, n) = s
  BY <1>1, <1>4, ReadsBack
<1>6. DecodeNumber(s) = value
  BY NumberRoundTrip DEF s
<1> QED BY <1>5, <1>6 DEF GetNumber

(* A text arrives as it was written, with the padding of its field, plain   *)
(* or encoded (eo_writer_add_fixed_string and eo_writer_add_fixed_encoded_  *)
(* string against eo_reader_get_fixed_string and get_fixed_encoded_string). *)
THEOREM FixedTextsArrive ==
    ASSUME NEW w \in Writer, Bounded(w), NEW text \in Seq(Char), text # NULL,
           NEW n \in Nat, NEW padded \in BOOLEAN, NEW fail, NEW r
    PROVE  /\ LET ret == AddFixedString(w, text, n, padded, fail)
              IN  ret.result = "EO_SUCCESS" /\ ReadsAt(r, w, ret.writer) =>
                    /\ GetFixedString(r, n, TRUE).result = "EO_SUCCESS"
                    /\ GetFixedString(r, n, TRUE).value = FieldBytes(w, text, n)
           /\ LET ret == AddFixedEncodedString(w, text, n, padded, fail)
              IN  ret.result = "EO_SUCCESS" /\ ReadsAt(r, w, ret.writer) =>
                    /\ GetFixedEncodedString(r, n, TRUE).result = "EO_SUCCESS"
                    /\ GetFixedEncodedString(r, n, TRUE).value = FieldBytes(w, text, n)
<1> DEFINE s == FieldBytes(w, text, n)
<1>1. FieldError(padded) # "EO_SUCCESS"
  BY DEF FieldError
<1>2. CASE FitsField(text, n, padded)
  <2>1. s \in Seq(Byte) /\ Len(s) = n
    BY <1>2, FieldBytesFacts
  <2>2. EncodeString(s) \in Seq(Byte) /\ Len(EncodeString(s)) = n
    BY <2>1, EncodeStringFacts
  <2>3. DecodeString(EncodeString(s)) = s
    BY <2>1, StringRoundTrip
  <2>4. ASSUME NEW ret, ret = AddFixedString(w, text, n, padded, fail),
               ret.result = "EO_SUCCESS", ReadsAt(r, w, ret.writer)
        PROVE  /\ GetFixedString(r, n, TRUE).result = "EO_SUCCESS"
               /\ GetFixedString(r, n, TRUE).value = s
    <3>1. ret = EnsureAndAppend(w, s, fail)
      BY <1>2, <2>4 DEF AddFixedString, Refused
    <3> HIDE DEF s
    <3>2. Grown(w, ret.writer, s)
      BY <2>1, <2>4, <3>1, AppendedBytes
    <3>3. HasBytes(r, n) /\ Bytes(r, n) = s
      BY <2>1, <2>4, <3>2, ReadsBack
    <3> QED BY <3>3 DEF GetFixedString, Allocated
  <2>5. ASSUME NEW ret, ret = AddFixedEncodedString(w, text, n, padded, fail),
               ret.result = "EO_SUCCESS", ReadsAt(r, w, ret.writer)
        PROVE  /\ GetFixedEncodedString(r, n, TRUE).result = "EO_SUCCESS"
               /\ GetFixedEncodedString(r, n, TRUE).value = s
    <3>1. ret = AppendEncoded(w, s, fail)
      BY <1>2, <2>5 DEF AddFixedEncodedString, Refused
    <3> HIDE DEF s
    <3>2. Grown(w, ret.writer, EncodeString(s))
      BY <2>1, <2>5, <3>1, AppendedBytes
    <3>3. HasBytes(r, n) /\ Bytes(r, n) = EncodeString(s)
      BY <2>2, <2>5, <3>2, ReadsBack
    <3> QED BY <2>3, <3>3 DEF GetFixedEncodedString, Allocated
  <2> QED BY <2>4, <2>5
<1>3. CASE ~ FitsField(text, n, padded)
  <2>1. AddFixedString(w, text, n, padded, fail).result # "EO_SUCCESS"
    BY <1>1, <1>3 DEF AddFixedString, Refused
  <2>2. AddFixedEncodedString(w, text, n, padded, fail).result # "EO_SUCCESS"
    BY <1>1, <1>3 DEF AddFixedEncodedString, Refused
  <2> QED BY <2>1, <2>2
<1> QED BY <1>2, <1>3

(* The reader is at the start of a chunk, with its boundary looked up.      *)
AtChunk(r) ==
    /\ r.chunked
    /\ r.chunkOffset = r.offset
    /\ r.nextChunk = NextBreakIndex(r)

\* A text without a delimiter, with one behind it, is what the chunk holds.
LEMMA ChunkRead ==
    ASSUME NEW w \in Writer, NEW s \in Quiet, NEW v, Grown(w, v, s),
           NEW u, Grown(v, u, <<BreakByte>>), NEW r, ReadsAt(r, w, u), AtChunk(r)
    PROVE  /\ Remaining(r) = Len(s)
           /\ HasBytes(r, Len(s)) /\ Bytes(r, Len(s)) = s
           /\ LET next == AdvanceChunk(Consume(r, Len(s)))
              IN  next.offset = WLength(u) /\ AtChunk(next)
<1> DEFINE o == r.offset
           n == Len(s)
<1>1. s \in Seq(Byte) /\ \A k \in 1 .. n : s[k] # BreakByte
  BY QuietIsBytes, ElementOfSeq DEF Quiet
<1>2. BreakByte \in Byte /\ n \in Nat
  BY <1>1, NumberTypes, LenProperties
<1>3. /\ v.data \in Seq(Byte) /\ u.data = v.data \o <<BreakByte>> /\ u \in Writer
      /\ Len(v.data) \in Nat
  BY LenProperties DEF Grown, Writer
<1>4. /\ Len(u.data) = Len(v.data) + 1 /\ u.data[Len(v.data) + 1] = BreakByte
      /\ \A k \in 1 .. Len(v.data) : u.data[k] = v.data[k]
  BY <1>2, <1>3
<1>5. ReadsAt(r, w, v)
  <2>1. /\ r \in Reader /\ r.offset = Len(w.data) /\ Len(u.data) <= Length(r)
        /\ \A k \in 1 .. Len(u.data) : r.data[k] = u.data[k]
    BY DEF ReadsAt, WLength
  <2>2. Length(r) \in Nat
    BY <2>1, LenProperties DEF Reader, Length
  <2>3. \A k \in 1 .. Len(v.data) : k \in 1 .. Len(u.data)
    BY <1>3, <1>4
  <2>4. \A k \in 1 .. Len(v.data) : r.data[k] = v.data[k]
    BY <1>4, <2>1, <2>3
  <2>5. Len(v.data) <= Length(r)
    BY <1>3, <1>4, <2>1, <2>2
  <2> QED BY <2>1, <2>4, <2>5 DEF ReadsAt, WLength
<1>6. /\ HasBytes(r, n) /\ Bytes(r, n) = s
      /\ WLength(v) = o + n /\ \A k \in 1 .. n : r.data[o + k] = s[k]
      /\ o \in Nat
  BY <1>1, <1>5, ReadsBack DEF ReadsAt
<1>7. /\ WLength(u) = o + n + 1 /\ WLength(u) <= Length(r)
      /\ r.data[o + n + 1] = BreakByte
      /\ Length(r) \in Nat /\ r \in Reader
  BY <1>2, <1>4, <1>6, LenProperties DEF ReadsAt, WLength, Reader, Length
<1>8. ASSUME NEW k \in 1 .. n PROVE r.data[o + k] # BreakByte
  BY <1>1, <1>6
<1>9. o + n \in BreaksAhead(r) /\ \A j \in BreaksAhead(r) : o + n <= j
  <2>1. BreaksAhead(r) = {i \in o .. Length(r) - 1 : r.data[i + 1] = BreakByte}
    BY DEF BreaksAhead, AtChunk, At
  <2>2. o + n \in o .. Length(r) - 1
    BY <1>2, <1>6, <1>7
  <2>3. ASSUME NEW j \in BreaksAhead(r), j < o + n PROVE FALSE
    <3>1. j \in Int /\ o <= j /\ r.data[j + 1] = BreakByte
      BY <1>6, <1>7, <2>1
    <3>2. j + 1 - o \in 1 .. n /\ o + (j + 1 - o) = j + 1
      BY <1>2, <1>6, <2>3, <3>1
    <3> QED BY <1>8, <3>1, <3>2
  <2>4. \A j \in BreaksAhead(r) : j \in Int
    BY <1>6, <1>7, <2>1
  <2>5. o + n \in BreaksAhead(r)
    BY <1>7, <2>1, <2>2
  <2> QED BY <1>2, <1>6, <2>3, <2>4, <2>5
<1>10. r.nextChunk = o + n
  <2>1. NextBreakIndex(r) = CHOOSE i \in BreaksAhead(r) : \A j \in BreaksAhead(r) : i <= j
    BY <1>9 DEF NextBreakIndex, AtChunk
  <2>2. \A i \in BreaksAhead(r) : i \in Int
    BY <1>6, <1>7 DEF BreaksAhead, AtChunk
  <2>3. \A i \in BreaksAhead(r) : (\A j \in BreaksAhead(r) : i <= j) => i = o + n
    BY <1>2, <1>6, <1>9, <2>2
  <2> QED BY <1>9, <2>1, <2>3 DEF AtChunk
<1>11. Remaining(r) = n
  <2>1. o < Length(r) /\ ~ (r.offset >= Length(r))
    BY <1>2, <1>6, <1>7
  <2>2. r.nextChunk - r.offset = n /\ ~ (r.nextChunk < r.offset)
    BY <1>2, <1>6, <1>10
  <2>3. r.chunked
    BY DEF AtChunk
  <2> QED BY <2>1, <2>2, <2>3 DEF Remaining
<1>12. LET next == AdvanceChunk(Consume(r, n))
       IN  next.offset = WLength(u) /\ AtChunk(next)
  <2> DEFINE c == Consume(r, n)
             m == [c EXCEPT !.offset = NextChunkStart(c), !.chunkOffset = NextChunkStart(c)]
             next == [m EXCEPT !.nextChunk = NextBreakIndex(m)]
  <2>1. /\ c \in Reader /\ c.data = r.data /\ c.nextChunk = o + n /\ c.chunked
    BY <1>2, <1>6, <1>7, <1>10 DEF Consume, Reader, AtChunk
  <2>2. NextChunkStart(c) = o + n + 1
    BY <1>2, <1>6, <1>7, <2>1 DEF NextChunkStart, Length
  <2> HIDE DEF c
  <2>3. /\ m \in Reader /\ m.offset = o + n + 1 /\ m.chunkOffset = o + n + 1
        /\ m.data = r.data /\ m.chunked
    <3> DEFINE z == o + n + 1
    <3>1. z \in Nat /\ m = [c EXCEPT !.offset = z, !.chunkOffset = z]
      BY <1>2, <1>6, <2>2
    <3> HIDE DEF z, m
    <3>2. m \in Reader /\ m.offset = z /\ m.chunkOffset = z /\ m.data = c.data /\ m.chunked
      BY <2>1, <3>1 DEF Reader
    <3> QED BY <2>1, <3>2 DEF z
  <2> HIDE DEF m
  <2>4. /\ next.offset = m.offset /\ next.chunkOffset = m.chunkOffset /\ next.data = m.data
        /\ next.chunked /\ next.nextChunk = NextBreakIndex(m)
    BY <2>3 DEF Reader
  <2>5. AdvanceChunk(Consume(r, n)) = next
    BY DEF AdvanceChunk, c, m
  <2> HIDE DEF next
  <2>6. BreaksAhead(next) = BreaksAhead(m) /\ Length(next) = Length(m)
    BY <2>3, <2>4 DEF BreaksAhead, At, Length
  <2>7. NextBreakIndex(next) = NextBreakIndex(m)
    BY <2>3, <2>4, <2>6 DEF NextBreakIndex
  <2> QED BY <1>6, <1>7, <2>3, <2>4, <2>5, <2>7 DEF AtChunk
<1> QED BY <1>6, <1>11, <1>12

(* A text of any length arrives in a chunk of its own, plain or encoded:    *)
(* the reader takes all of it and nothing behind it, and next_chunk leaves  *)
(* it behind the delimiter, at the start of the next chunk (the writer      *)
(* sanitizes; eo_writer_add_string or add_encoded_string and a delimiter    *)
(* against eo_reader_get_string or get_encoded_string and next_chunk).      *)
THEOREM ChunksArrive ==
    ASSUME NEW w \in Writer, Bounded(w), w.sanitize, NEW text \in Seq(Char), text # NULL,
           NEW fail, NEW encoded \in BOOLEAN,
           NEW first, first = IF encoded THEN AddEncodedString(w, text, fail)
                                         ELSE AddString(w, text, fail),
           NEW second, second = AddBytes(first.writer, <<BreakByte>>, fail),
           first.result = "EO_SUCCESS", second.result = "EO_SUCCESS",
           NEW r, ReadsAt(r, w, second.writer), AtChunk(r)
    PROVE  LET got  == IF encoded THEN GetEncodedString(r, TRUE) ELSE GetString(r, TRUE)
               next == AdvanceChunk(Consume(r, got.count))
           IN  /\ got.result = "EO_SUCCESS"
               /\ got.value = TextBytes(w, text)
               /\ next.offset = WLength(second.writer)
               /\ AtChunk(next)
<1> DEFINE t == TextBytes(w, text)
           s == IF encoded THEN EncodeString(t) ELSE t
<1>1. t \in Seq(Byte) /\ t \in Quiet /\ Len(t) = Len(text)
  BY TextBytesFacts DEF Allowed
<1>2. EncodeString(t) \in Seq(Byte) /\ EncodeString(t) \in Quiet /\ Len(EncodeString(t)) = Len(t)
  BY <1>1, EncodeStringFacts
<1>3. DecodeString(EncodeString(t)) = t
  BY <1>1, StringRoundTrip
<1>4. first = IF encoded THEN AppendEncoded(w, t, fail) ELSE EnsureAndAppend(w, t, fail)
  BY DEF AddString, AddEncodedString, Refused
<1> HIDE DEF t
<1>5. Grown(w, first.writer, s)
  BY <1>1, <1>4, AppendedBytes
<1>6. first.writer \in Writer /\ Bounded(first.writer)
  BY <1>5 DEF Grown
<1>7. <<BreakByte>> \in Seq(Byte)
  BY NumberTypes
<1>8. Grown(first.writer, second.writer, <<BreakByte>>)
  BY <1>6, <1>7, AppendedBytes DEF AddBytes
<1>9. s \in Quiet /\ s \in Seq(Byte) /\ Len(s) \in Nat
  BY <1>1, <1>2, LenProperties
<1>10. CASE encoded
  <2>1. s = EncodeString(t)
    BY <1>10
  <2> HIDE DEF s
  <2>2. /\ Remaining(r) = Len(s)
        /\ HasBytes(r, Len(s)) /\ Bytes(r, Len(s)) = s
        /\ AdvanceChunk(Consume(r, Len(s))).offset = WLength(second.writer)
        /\ AtChunk(AdvanceChunk(Consume(r, Len(s))))
    BY <1>5, <1>8, <1>9, ChunkRead
  <2> DEFINE got == GetEncodedString(r, TRUE)
  <2>3. got.result = "EO_SUCCESS" /\ got.value = t /\ got.count = Len(s)
    <3>1. CASE Len(s) = 0
      <4>1. s = << >> /\ t = << >>
        BY <1>1, <1>2, <1>9, <2>1, <3>1, EmptySeq, LenProperties
      <4> QED BY <2>2, <3>1, <4>1 DEF GetEncodedString, Returned, Empty
    <3>2. CASE Len(s) # 0
      BY <1>3, <2>1, <2>2, <3>2 DEF GetEncodedString, GetFixedEncodedString, Allocated
    <3> QED BY <3>1, <3>2
  <2> QED BY <1>10, <2>2, <2>3 DEF t
<1>11. CASE ~ encoded
  <2>1. s = t
    BY <1>11
  <2> HIDE DEF s
  <2>2. /\ Remaining(r) = Len(s)
        /\ HasBytes(r, Len(s)) /\ Bytes(r, Len(s)) = s
        /\ AdvanceChunk(Consume(r, Len(s))).offset = WLength(second.writer)
        /\ AtChunk(AdvanceChunk(Consume(r, Len(s))))
    BY <1>5, <1>8, <1>9, ChunkRead
  <2> DEFINE got == GetString(r, TRUE)
  <2>3. got.result = "EO_SUCCESS" /\ got.value = t /\ got.count = Len(s)
    <3>1. CASE Len(s) = 0
      <4>1. s = << >> /\ t = << >>
        BY <1>1, <2>1, <3>1, EmptySeq
      <4> QED BY <2>2, <3>1, <4>1 DEF GetString, Returned, Empty
    <3>2. CASE Len(s) # 0
      BY <2>1, <2>2, <3>2 DEF GetString, GetFixedString, Allocated
    <3> QED BY <3>1, <3>2
  <2> QED BY <1>11, <2>2, <2>3 DEF t
<1> QED BY <1>10, <1>11
=============================================================================
