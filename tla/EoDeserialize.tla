---------------------------- MODULE EoDeserialize ----------------------------
(* The deserialize functions that write_deserialize_elements generates.  A   *)
(* function that fails returns at once: nothing is undone, and the mode of   *)
(* the reader stays as it is.                                                *)
EXTENDS EoStruct

CONSTANT MaxItems   \* items an array without a length is followed for

untouched == <<running, writer, fault>>

\* The reader function of a type (map_reader_fn).
GetTyped(type, alloc) ==
    CASE type = "byte"   -> GetByte(reader)
      [] type = "bool"   -> GetNumber(reader, 1)
      [] type = "string" -> GetString(reader, alloc)
      [] type = "encoded_string" -> GetEncodedString(reader, alloc)
      [] type = "blob"   -> GetBytes(reader, Remaining(reader), alloc)
      [] OTHER           -> GetNumber(reader, ByteSize(type))

GetFixed(type, length, alloc) ==
    IF type = "string" THEN GetFixedString(reader, length, alloc)
    ELSE GetFixedEncodedString(reader, length, alloc)

InCell(type, value) ==
    IF IsString(type) THEN AsText(value)
    ELSE IF type = "bool" THEN IF value = 1 THEN 1 ELSE 0
    ELSE value

Owns(type) == IsString(type) \/ type = "blob"

\* A block whose only pointer is overwritten is lost.
Owned(blocks) == heap \cup blocks \cup {Append(p, "lost") : p \in blocks \cap heap}

(* A read into the cell p.  An underrun leaves the cell alone, a failed     *)
(* allocation leaves a null pointer.  The length of a blob follows its data.*)
ReadInto(p, type, ret) ==
    /\ reader' = Consume(reader, ret.count)
    /\ UNCHANGED <<locals, untouched>>
    /\ IF ret.result = "EO_SUCCESS" THEN todo' = Tail(todo) /\ UNCHANGED result
                                    ELSE Fail(ret.result)
    /\ IF ret.result = "EO_BUFFER_UNDERRUN" THEN UNCHANGED <<mem, heap, raw>>
       ELSE /\ mem' = Assigned(IF type = "blob" /\ ret.result = "EO_SUCCESS"
                              THEN Assigned(mem, Append(p, "length"), Remaining(reader))
                              ELSE mem, p, InCell(type, ret.value))
            /\ heap' = IF Owns(type) /\ ret.value # NULL THEN Owned({p}) ELSE heap
            /\ raw'  = raw \ {p}

\* Statements that read nothing themselves.
Unfold(statements) ==
    /\ todo' = statements \o Tail(todo)
    /\ UNCHANGED <<reader, result, untouched>>

-----------------------------------------------------------------------------
ReadChunked ==
    /\ Now("deserialize", "chunked")
    /\ reader' = SetChunkedMode(reader, TRUE)
    /\ todo' = Statements(at, elem.elements) \o Tail(todo)
    /\ UNCHANGED <<result, memory, untouched>>

\* eo_reader_next_chunk refuses to work in the other mode.
ReadBreak ==
    /\ Now("deserialize", "break")
    /\ UNCHANGED <<memory, untouched>>
    /\ IF reader.chunked
       THEN reader' = AdvanceChunk(reader) /\ todo' = Tail(todo) /\ UNCHANGED result
       ELSE Fail("EO_CHUNKED_MODE_DISABLED") /\ UNCHANGED reader

(* A literal is read and compared; a text that could not be allocated       *)
(* differs.  strcmp compares the Windows-1252 bytes that were read with the *)
(* UTF-8 ones of the literal, so one beyond ASCII never matches.            *)
ReadLiteral(alloc) ==
    /\ running = "deserialize" /\ todo # << >> /\ Literal
    /\ UNCHANGED <<memory, untouched>>
    /\ LET type     == FieldNumber(elem)
           ret      == GetTyped(type, alloc)
           got      == IF IsString(type) THEN AsText(ret.value) ELSE ret.value
           expected == IF type = "byte" THEN elem.value % (CharMax + 3) ELSE elem.value
       IN  /\ reader' = Consume(reader, ret.count)
           /\ IF ret.result # "EO_SUCCESS" THEN Fail(ret.result)
              ELSE IF ret.value = NULL THEN Fail("EO_INVALID_DATA")
              ELSE IF got # expected THEN Fail("EO_INVALID_DATA")
              ELSE todo' = Tail(todo) /\ UNCHANGED result

\* A length is kept as it was read: what was added to it stays in.
ReadLength ==
    /\ Now("deserialize", "length")
    /\ UNCHANGED <<mem, heap, raw, untouched>>
    /\ LET ret == GetTyped(elem.type, TRUE)
       IN  /\ reader' = Consume(reader, ret.count)
           /\ IF ret.result = "EO_SUCCESS"
              THEN /\ locals' = Assigned(locals, path, ret.value)
                   /\ todo' = Tail(todo) /\ UNCHANGED result
              ELSE Fail(ret.result) /\ UNCHANGED locals

\* An optional element is there if the chunk has bytes left.
Absent == elem.optional /\ Remaining(reader) = 0

SkipOptional ==
    /\ Now("deserialize", "field") \/ Now("deserialize", "array")
    /\ ~Literal /\ Absent
    /\ Unfold(<< >>) /\ UNCHANGED memory

\* memset left out: the cells keep what they held.
EnterStruct_Uncleared(p, type, blocks) ==
    /\ Unfold(Statements(p, Structs[type]) \o Leave(reader.chunked))
    /\ mem' = [q \in blocks \cup DOMAIN mem |-> IF q \in blocks THEN 1 ELSE mem[q]]
    /\ heap' = Owned(blocks)
    /\ UNCHANGED <<raw, locals>>

(* The function of a nested struct clears it and remembers the mode of the  *)
(* reader for its end.  blocks is its own block, if it has one.             *)
EnterStruct(p, type, blocks) ==
    /\ Unfold(Statements(p, Structs[type]) \o Leave(reader.chunked))
    /\ mem' = [q \in blocks \cup {q \in DOMAIN mem : ~Within(q, p)} |->
                  IF q \in blocks THEN 1 ELSE mem[q]]
    /\ heap' = Owned(blocks)
    /\ raw' = {q \in raw : ~Within(q, p)}
    /\ UNCHANGED locals

\* calloc's result goes to memset without a look.
ReadStructField(alloc) ==
    /\ Now("deserialize", "field") /\ ~Literal /\ IsStruct(elem.type)
    /\ ~Absent
    /\ IF ~elem.optional THEN EnterStruct(path, elem.type, {})
       ELSE IF alloc THEN EnterStruct(path, elem.type, {path})
       ELSE Crash("write through a null pointer")

ReadField(alloc) ==
    /\ Now("deserialize", "field") /\ ~Literal /\ ~IsStruct(elem.type)
    /\ ~elem.optional
    /\ ReadInto(path, FieldNumber(elem),
                IF IsString(elem.type) /\ IsStatic(elem)
                THEN GetFixed(elem.type, elem.length, alloc)
                ELSE IF IsString(elem.type) /\ IsCounted(elem)
                THEN GetFixed(elem.type, locals[Field(at, elem.counter)], alloc)
                ELSE GetTyped(FieldNumber(elem), alloc))

(* An optional field gets a block of its own first, then it is read like any*)
(* other.  The reader functions refuse a null pointer, but a bool is stored *)
(* by the generated code itself.  Bytes and texts come with their own block,*)
(* whose pointer takes the place of the first one.                          *)
ReadOptionalField(alloc) ==
    /\ Now("deserialize", "field") /\ ~Literal /\ ~IsStruct(elem.type)
    /\ elem.optional /\ ~Absent
    /\ IF alloc \/ Owns(elem.type)
       THEN /\ todo' = <<[Head(todo) EXCEPT !.elem.optional = FALSE]>> \o Tail(todo)
            /\ mem' = Assigned(mem, path, IF alloc THEN Garbage ELSE NULL)
            /\ heap' = IF alloc THEN Owned({path}) ELSE heap
            /\ UNCHANGED <<reader, result, raw, locals, untouched>>
       ELSE IF elem.type = "bool" THEN Crash("write through a null pointer")
       ELSE Fail("EO_NULL_PTR") /\ UNCHANGED <<reader, memory, untouched>>

-----------------------------------------------------------------------------
(* The items of an array, delimiters included.  Without a length, or with   *)
(* trailing delimiters, every item is followed by one, the last one too.    *)
ItemsToRead(e, n) ==
    LoopOver(at, IF IsStatic(e) \/ IsCounted(e) THEN e ELSE [e EXCEPT !.trailing = TRUE], n)

ReadStaticArray ==
    /\ Now("deserialize", "array") /\ ~Absent
    /\ IsStatic(elem)
    /\ Unfold(ItemsToRead(elem, elem.length)) /\ UNCHANGED memory

\* An array of as many structs of one size as the chunk has room for.
FixedItemSize(e) ==
    IF IsStatic(e) \/ IsCounted(e) \/ e.delimited \/ ~IsStruct(e.type) THEN -1
    ELSE FixedSize[Structs[e.type]]

\* Structs of one size are read while there are bytes, like all others.
Numbered_Counted(e) == IsCounted(e)

Numbered(e) == IsCounted(e) \/ FixedItemSize(e) > 0

NumberOfItems(e) == IF IsCounted(e) THEN locals[Field(at, e.counter)]
                    ELSE Remaining(reader) \div FixedItemSize(e)

(* The block for n items is not initialised.  The count is set before it is *)
(* known whether there is a block only if it came with the data.            *)
ReadNumberedArray(alloc) ==
    /\ Now("deserialize", "array") /\ ~Absent
    /\ Numbered(elem)
    /\ LET n == NumberOfItems(elem)
           Counted(cells) == Assigned(cells, Count(at, elem.name), n)
       IN  IF n > 0 /\ ~alloc
           THEN /\ Fail("EO_ALLOC_FAILED")
                /\ mem' = IF IsCounted(elem) THEN Counted(mem) ELSE mem
                /\ raw' = raw \cup (IF IsCounted(elem)
                                    THEN {Item(at, elem.name, i) : i \in 0 .. n - 1} ELSE {})
                /\ UNCHANGED <<reader, heap, locals, untouched>>
           ELSE /\ Unfold(ItemsToRead(elem, n))
                /\ mem' = Counted(Assigned(mem, path, IF n > 0 THEN 1 ELSE NULL))
                /\ heap' = IF n > 0 THEN Owned({path}) ELSE heap
                /\ raw' = raw \cup {Item(at, elem.name, i) : i \in 0 .. n - 1}
                /\ UNCHANGED locals

\* The block is full: it doubles, from 8 items on.
Grows(n) == n = 0 \/ \E k \in 0 .. n : n = 8 * 2 ^ k

Smaller(a, b) == IF a < b THEN a ELSE b

\* length++ forgotten.
ReadNextItem_Uncounted(alloc) ==
    /\ Now("deserialize", "array") /\ ~IsStatic(elem) /\ ~Numbered(elem)
    /\ Remaining(reader) > 0
    /\ IF ~alloc
       THEN Fail("EO_ALLOC_FAILED") /\ UNCHANGED <<reader, memory, untouched>>
       ELSE LET item == Statement(Item(at, elem.name, 0), [elem EXCEPT !.kind = "item"])
            IN  /\ todo' = item \o (IF elem.delimited THEN Break ELSE << >>) \o todo
                /\ mem' = Assigned(mem, path, 1)
                /\ heap' = heap \cup {path}
                /\ raw' = raw \cup {Item(at, elem.name, 0)}
                /\ UNCHANGED <<reader, result, locals, untouched>>

(* Other arrays grow for as long as there are bytes: the item is counted,   *)
(* read, and the loop goes on.                                              *)
ReadNextItem(alloc) ==
    /\ Now("deserialize", "array") /\ ~IsStatic(elem) /\ ~Numbered(elem)
    /\ Remaining(reader) > 0
    /\ LET n == Cell(Count(at, elem.name), 0)
       IN  IF Grows(n) /\ ~alloc
           THEN Fail("EO_ALLOC_FAILED") /\ UNCHANGED <<reader, memory, untouched>>
           ELSE LET item == Statement(Item(at, elem.name, n), [elem EXCEPT !.kind = "item"])
                IN  /\ todo' = item \o (IF elem.delimited THEN Break ELSE << >>) \o todo
                    /\ mem' = Assigned(Assigned(mem, path, 1),
                                       Count(at, elem.name), Smaller(n + 1, MaxItems))
                    /\ heap' = heap \cup {path}
                    /\ raw' = raw \cup {Item(at, elem.name, n)}
                    /\ UNCHANGED <<reader, result, locals, untouched>>

LastItemRead ==
    /\ Now("deserialize", "array") /\ ~IsStatic(elem) /\ ~Numbered(elem)
    /\ ~elem.optional /\ Remaining(reader) = 0
    /\ Unfold(<< >>) /\ UNCHANGED memory

ReadItems == Now("deserialize", "loop") /\ Unfold(Round) /\ UNCHANGED memory

ReadItem(alloc) ==
    /\ Now("deserialize", "item")
    /\ IF IsStruct(elem.type) THEN EnterStruct(at, elem.type, {})
       ELSE ReadInto(at, ItemNumber(elem), GetTyped(ItemNumber(elem), alloc))

-----------------------------------------------------------------------------
\* The data of a switch is zeros; a case without storage reads literals only.
ReadSwitch(alloc) ==
    /\ Now("deserialize", "switch")
    /\ LET c == ChosenCase(elem, Cell(Field(at, elem.field), 0))
       IN  IF c = None THEN Unfold(<< >>) /\ UNCHANGED memory
           ELSE IF ~HasStorage[c.elements]
           THEN Unfold(Statements(at, c.elements)) /\ UNCHANGED memory
           ELSE IF ~alloc
           THEN Fail("EO_ALLOC_FAILED") /\ UNCHANGED <<reader, memory, untouched>>
           ELSE /\ Unfold(Statements(CaseAt(at, elem, c), c.elements))
                /\ mem' = Assigned(mem, Data(at, elem), 1)
                /\ heap' = Owned({Data(at, elem)})
                /\ UNCHANGED <<raw, locals>>

LeaveDeserialize ==
    /\ Now("deserialize", "leave")
    /\ reader' = SetChunkedMode(reader, elem.mode)
    /\ todo' = Tail(todo)
    /\ UNCHANGED <<result, memory, untouched>>

DeserializeStep ==
    \/ ReadChunked \/ ReadBreak \/ ReadLength \/ SkipOptional \/ ReadStaticArray
    \/ ReadItems \/ LastItemRead \/ LeaveDeserialize
    \/ \E alloc \in Allocations :
          \/ ReadLiteral(alloc) \/ ReadStructField(alloc) \/ ReadField(alloc)
          \/ ReadOptionalField(alloc) \/ ReadNumberedArray(alloc) \/ ReadNextItem(alloc)
          \/ ReadItem(alloc) \/ ReadSwitch(alloc)
=============================================================================
