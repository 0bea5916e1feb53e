----------------------------- MODULE EoSerialize -----------------------------
(* The serialize functions that write_serialize_elements generates.          *)
EXTENDS EoStruct

unwritten == <<running, memory, reader, fault>>

\* The writer function of a type (map_writer_fn); a byte is converted to one.
AddTyped(type, value, fail) ==
    CASE type = "byte"   -> AddBytes(writer, <<value % (CharMax + 3)>>, fail)
      [] type = "bool"   -> AddNumber(writer, 1, IF value # 0 THEN 1 ELSE 0, fail)
      [] type = "string" -> AddString(writer, value, fail)
      [] type = "encoded_string" -> AddEncodedString(writer, value, fail)
      [] type = "blob"   -> IF value = NULL THEN Refused(writer, "EO_NULL_PTR")
                            ELSE AddBytes(writer, value, fail)
      [] OTHER           -> AddNumber(writer, ByteSize(type), value, fail)

AddFixed(type, text, length, padded, fail) ==
    IF type = "string" THEN AddFixedString(writer, text, length, padded, fail)
    ELSE AddFixedEncodedString(writer, text, length, padded, fail)

\* if ((result = ...) != 0) return result;
Write(ret) ==
    /\ writer' = ret.writer
    /\ IF ret.result = "EO_SUCCESS" THEN todo' = Tail(todo) /\ UNCHANGED result
                                    ELSE Fail(ret.result)
    /\ UNCHANGED unwritten

Expand(statements) ==
    /\ todo' = statements \o Tail(todo)
    /\ UNCHANGED <<writer, result, unwritten>>

\* A nested struct: its function remembers the mode for its end.
SerializeStruct(p, type) == Statements(p, Structs[type]) \o Leave(writer.sanitize)

\* Break bytes in texts are left in.
WriteChunked_Unsanitized ==
    /\ Now("serialize", "chunked")
    /\ todo' = Statements(at, elem.elements) \o Tail(todo)
    /\ UNCHANGED <<writer, result, unwritten>>

WriteChunked ==
    /\ Now("serialize", "chunked")
    /\ writer' = SetSanitization(writer, TRUE)
    /\ todo' = Statements(at, elem.elements) \o Tail(todo)
    /\ UNCHANGED <<result, unwritten>>

WriteBreak(fail) ==
    Now("serialize", "break") /\ Write(AddBytes(writer, <<BreakByte>>, fail))

WriteLiteral(fail) ==
    /\ running = "serialize" /\ todo # << >> /\ Literal
    /\ Write(AddTyped(FieldNumber(elem), elem.value, fail))

SkipField ==
    /\ Now("serialize", "field") /\ ~Literal
    /\ ~Present(at, elem)
    /\ Expand(<< >>)

WriteStructField ==
    /\ Now("serialize", "field") /\ ~Literal
    /\ Present(at, elem) /\ IsStruct(elem.type)
    /\ Expand(SerializeStruct(path, elem.type))

\* A field with a value of its own is written with that, whatever it holds.
WriteField(fail) ==
    /\ Now("serialize", "field") /\ ~Literal
    /\ Present(at, elem) /\ ~IsStruct(elem.type)
    /\ LET zero  == IF IsString(elem.type) \/ elem.type = "blob" THEN NULL ELSE 0
           value == IF elem.value # None THEN elem.value ELSE Cell(path, zero)
       IN  Write(IF IsString(elem.type) /\ IsStatic(elem)
                 THEN AddFixed(elem.type, value, elem.length, elem.padded, fail)
                 ELSE AddTyped(FieldNumber(elem), value, fail))

\* The length of the field or array that counts with it; a text's is strlen's.
TargetLength(e) ==
    IF e.kind = "array" \/ e.type = "blob" THEN Cell(Count(at, e.name), 0)
    ELSE IF IsString(e.type) THEN StrLen(Cell(Field(at, e.name), NULL))
    ELSE Cell(Field(at, e.name), 0)

\* strlen does not take a null pointer.
NullText(e) == e # None /\ IsString(e.type) /\ e.kind = "field"
               /\ Cell(Field(at, e.name), NULL) = NULL

WriteLength(fail) ==
    /\ Now("serialize", "length")
    /\ LET target == LengthTarget(scope, elem.name)
       IN  IF NullText(target) THEN Crash("strlen of a null pointer")
           ELSE Write(AddTyped(elem.type,
                               (IF target = None THEN 0 ELSE TargetLength(target)) + elem.offset,
                               fail))

WriteArray ==
    /\ Now("serialize", "array")
    /\ Expand(IF Present(at, elem) THEN LoopOver(at, elem, Items(at, elem)) ELSE << >>)

WriteItems == Now("serialize", "loop") /\ Expand(Round)

WriteItem(fail) ==
    /\ Now("serialize", "item")
    /\ IF IsStruct(elem.type)
       THEN Expand(SerializeStruct(at, elem.type))
       ELSE Write(AddTyped(ItemNumber(elem),
                           Cell(at, IF IsString(elem.type) THEN NULL ELSE 0), fail))

(* A case with storage writes what its part of the data holds, and nothing  *)
(* if there is no data; one without writes its literals.                    *)
WriteSwitch ==
    /\ Now("serialize", "switch")
    /\ LET c == ChosenCase(elem, Cell(Field(at, elem.field), 0))
       IN  Expand(IF c = None THEN << >>
                  ELSE IF ~HasStorage[c.elements] THEN Statements(at, c.elements)
                  ELSE IF Cell(Data(at, elem), NULL) = NULL THEN << >>
                  ELSE Statements(CaseAt(at, elem, c), c.elements))

\* The mode of the section stays on.
LeaveSerialize_Kept ==
    /\ Now("serialize", "leave")
    /\ todo' = Tail(todo)
    /\ UNCHANGED <<writer, result, unwritten>>

\* The mode is restored where a function ends, not where it fails.
LeaveSerialize ==
    /\ Now("serialize", "leave")
    /\ writer' = SetSanitization(writer, elem.mode)
    /\ todo' = Tail(todo)
    /\ UNCHANGED <<result, unwritten>>

SerializeStep ==
    \/ WriteChunked \/ SkipField \/ WriteStructField \/ WriteArray \/ WriteItems
    \/ WriteSwitch \/ LeaveSerialize
    \/ \E fail \in WriterFailures :
          \/ WriteBreak(fail) \/ WriteLiteral(fail) \/ WriteField(fail)
          \/ WriteLength(fail) \/ WriteItem(fail)
=============================================================================
