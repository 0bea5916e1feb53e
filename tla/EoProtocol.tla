------------------------------ MODULE EoProtocol ------------------------------
(***************************************************************************)
(* What a program does with a generated struct: it asks for the size of a  *)
(* value, serializes it into a writer of that capacity, a peer gets all or *)
(* the beginning of the bytes and deserializes them, serializes what it got*)
(* once more, and frees it, also after a failure.  The peer is a C program,*)
(* a Lua program or the packet inspector of the wasm build.                *)
(***************************************************************************)
EXTENDS EoSerialize, EoDeserialize, EoMeasure, EoLua

CONSTANTS
    Values,  \* struct name -> the values to send: their texts, and their other cells
    Scarce   \* the structs for which memory may run out

ASSUME ValuesAssumption == DOMAIN Values \subseteq DOMAIN Structs

VARIABLES
    phase,     \* how far the program is
    root,      \* the struct that is sent
    original,  \* the value that is sent
    size,      \* what eo_get_size returned
    sent,      \* the bytes of the first serialization
    found      \* the sanitization mode in which a serialization found its writer

vars == <<structVars, scarce, phase, root, original, size, sent, found, table>>
client == <<scarce, phase, root, original, size, sent, found, table>>
given == <<scarce, root, original, found>>

\* Every struct comes from its init function and holds only what was assigned.
Init ==
    /\ phase = "start"
    /\ root \in DOMAIN Values
    /\ original \in Values[root]
    /\ scarce \in BOOLEAN /\ (scarce => root \in Scarce)
    /\ mem = [p \in DOMAIN original.texts \cup DOMAIN original.cells |->
                 IF p \in DOMAIN original.texts THEN original.texts[p] ELSE original.cells[p]]
    /\ running = "none" /\ todo = << >> /\ result = "EO_SUCCESS" /\ fault = "none"
    /\ heap = {} /\ raw = {} /\ locals = << >>
    /\ writer = InitWriter(0, TRUE) /\ reader = InitReader(<< >>)
    /\ size = 0 /\ sent = << >> /\ found = FALSE /\ table = << >>

Call(function, elements, mode) ==
    /\ running' = function
    /\ todo' = Statements(<< >>, elements) \o Leave(mode)
    /\ result' = "EO_SUCCESS"

\* eo_serialize into a writer that may have bytes in it already.
SerializeInto(w, from, next) ==
    /\ phase = from /\ phase' = next
    /\ writer' = w /\ found' = w.sanitize
    /\ Call("serialize", Structs[root], found')
    /\ UNCHANGED <<memory, reader, fault, scarce, root, original, table, sent>>

\* docs/usage.dox:209: a writer of exactly the size of the value.
Serialize(from, next) ==
    /\ phase = from
    /\ size' = StructSize(<< >>, root)
    /\ SerializeInto(InitWriter(size', TRUE), from, next)

Send == Serialize("start", "sending")
Echo == /\ result = "EO_SUCCESS" /\ reader.data = sent
        /\ Serialize("received", "echoing")

Finished(function) == running = function /\ todo = << >> /\ fault = "none"

Sent ==
    /\ phase = "sending" /\ Finished("serialize")
    /\ sent' = writer.data
    /\ phase' = IF result = "EO_SUCCESS" THEN "sent" ELSE "done"
    /\ running' = "none"
    /\ UNCHANGED <<todo, result, memory, writer, reader, fault, given, table, size>>

\* The peer gets the first n bytes and a fresh struct.
Receive(n) ==
    /\ phase = "sent" /\ phase' = "receiving"
    /\ reader' = InitReader(SubSeq(sent, 1, n))
    /\ mem' = << >>
    /\ Call("deserialize", Structs[root], FALSE)
    /\ UNCHANGED <<heap, raw, locals, writer, fault, given, table, size, sent>>

Received ==
    /\ phase = "receiving" /\ Finished("deserialize")
    /\ phase' = "received" /\ running' = "none"
    /\ UNCHANGED <<todo, result, memory, writer, reader, fault, given, table, size, sent>>

SerializedAgain(from, next) ==
    /\ phase = from /\ Finished("serialize")
    /\ phase' = next /\ running' = "none"
    /\ UNCHANGED <<todo, result, memory, writer, reader, fault, given, table, size, sent>>

Echoed == SerializedAgain("echoing", "echoed")

\* A serialization of what was read would come upon cells nobody wrote.
ReadsGarbage == raw # {} \/ \E p \in DOMAIN mem : mem[p] = Garbage

(* The program frees what it got, after an error or when it has sent it     *)
(* back.                                                                    *)
Free ==
    /\ \/ phase = "received" /\ ~(result = "EO_SUCCESS" /\ reader.data = sent)
       \/ phase \in {"echoed", "written", "answered"}
    /\ phase' = "done"
    /\ heap' = heap \ {f.pointer : f \in EoFree(root)}
    /\ fault' = IF \E f \in EoFree(root) : BadFree(f) THEN "free of a wild pointer" ELSE fault
    /\ UNCHANGED <<running, todo, result, mem, raw, locals, writer, reader,
                   given, table, size, sent>>

(* The peer may as well be a Lua program.  Its deserialize makes a table of *)
(* the struct and frees it; what it raises as an error it does not free.    *)
(* The program goes on with the table of a whole message.                   *)
LuaDeserialize ==
    /\ phase = "received" /\ result = "EO_SUCCESS"
    /\ phase' = IF reader.data = sent THEN "table" ELSE "done"
    /\ table' = TableOf[<< >>, << >>, Structs[root]]
    /\ heap' = heap \ {f.pointer : f \in EoFree(root)}
    /\ fault' = IF \E f \in EoFree(root) : BadFree(f) THEN "free of a wild pointer" ELSE fault
    /\ mem' = << >> /\ raw' = {}
    /\ UNCHANGED <<running, todo, result, locals, writer, reader, given, size, sent>>

LuaError ==
    /\ phase = "received" /\ result # "EO_SUCCESS"
    /\ phase' = "raised"
    /\ UNCHANGED <<structVars, given, table, size, sent>>

\* Its serialize makes a struct of the table, and goes on like a C program.
LuaConvert ==
    /\ phase = "table" /\ fault = "none"
    /\ phase' = "converted"
    /\ LET cells == CellsOf[Structs[root]][<< >>][<< >>]
       IN  /\ mem'  = [p \in DOMAIN cells |-> cells[p].value]
           /\ heap' = heap \cup {p \in DOMAIN cells : cells[p].block}
    /\ UNCHANGED <<running, todo, result, raw, locals, writer, reader, fault,
                   given, table, size, sent>>

LuaSerialize == Serialize("converted", "echoing")

(* Its write uses a writer of the program's, in either mode, here one that  *)
(* is full of what the program wrote before.                                *)
Header == <<1, 2>>

LuaWriter(mode) ==
    SetSanitization([InitWriter(Len(Header), TRUE) EXCEPT !.data = Header], mode)

LuaWrite(mode) == SerializeInto(LuaWriter(mode), "converted", "writing") /\ UNCHANGED size

Written == SerializedAgain("writing", "written")

\* wasm_packet_roundtrip: a writer as large as what came, at least one byte.
WasmWriter == InitWriter(IF reader.data = << >> THEN 1 ELSE Len(reader.data), TRUE)

(* The dispatch takes -1 for a failure, which is no EoResult: what came of a*)
(* message that was refused is answered like a whole one.                   *)
WasmAnswer ==
    /\ phase = "received" /\ ~ReadsGarbage
    /\ SerializeInto(WasmWriter, "received", "answering")
    /\ UNCHANGED size

\* What it answers then, and whether it does, is not for the code to say.
WasmUndefined ==
    /\ phase = "received" /\ ReadsGarbage
    /\ phase' = "answering" /\ fault' = "read of memory that was never written"
    /\ UNCHANGED <<running, todo, result, memory, writer, reader, given, table, size, sent>>

Answered == SerializedAgain("answering", "answered")

Step == fault = "none" /\ (SerializeStep \/ DeserializeStep) /\ UNCHANGED client

(* The end of the program; only the wasm build may meet it within a call,   *)
(* elsewhere that is a deadlock.                                            *)
Over == phase \in {"done", "raised"} \/ (phase = "answering" /\ fault # "none")

Caller ==
    \/ Send \/ Sent \/ Received \/ Echo \/ Echoed \/ Free
    \/ LuaDeserialize \/ LuaError \/ LuaConvert \/ LuaSerialize \/ Written
    \/ WasmAnswer \/ WasmUndefined \/ Answered
    \/ \E n \in 0 .. Len(sent) : Receive(n)
    \/ \E mode \in BOOLEAN : LuaWrite(mode)

Next == Caller \/ Step \/ (Over /\ UNCHANGED vars)

(* A program goes on until it is over: WF_vars(Caller \/ Step).  The second *)
(* conjunct says so without ENABLED, which TLC takes minutes to evaluate:   *)
(* unless the program is over there is a step (the run checks deadlock).    *)
(* The first one, that a program goes on with what a call returned, is a    *)
(* part of it.                                                              *)
Returns == Sent \/ Received \/ Echoed \/ Written \/ Answered

Spec == /\ Init /\ [][Next]_vars
        /\ WF_vars(Returns)
        /\ ([]<>Over) \/ []<><<TRUE>>_vars

-----------------------------------------------------------------------------
\* The call gave up, and may have done so for want of memory.
OutOfMemory == scarce /\ result = "EO_ALLOC_FAILED"

(* eo_get_size returns what the serialization needs, to the byte: the       *)
(* writer made of it never grows (code_gen_protocol.c:1366 and 1495 against *)
(* 195).                                                                    *)
SizeIsExact ==
    phase \in {"sent", "echoed"} /\ ~OutOfMemory =>
        writer.capacity = size /\ Len(writer.data) = size

(* What the peer understands it serializes to the same bytes again, with    *)
(* counted, delimited, optional and nested elements, in C                   *)
(* (code_gen_protocol.c:195 against 681), by way of a Lua table             *)
(* (code_gen_lua.c:19 against 380), there also behind other bytes, or in the*)
(* wasm build, whose writer may have to grow (code_gen_wasm.c:146).         *)
BytesRoundTrip ==
    /\ phase \in {"echoed", "written", "answered"} /\ reader.data = sent
    /\ IF phase = "answered" THEN ~scarce ELSE ~OutOfMemory
    =>
        /\ result = "EO_SUCCESS"
        /\ found \/ writer.data = (IF phase = "written" THEN Header ELSE << >>) \o sent

(* Of the struct that Lua makes of a table one gets the same table: neither *)
(* conversion loses an item, a case or an optional field that the other     *)
(* knows (code_gen_lua.c:19 against 380).                                   *)
TablesAreStable ==
    phase = "converted" => TableOf[<< >>, << >>, Structs[root]] = table

(* A text arrives in Windows-1252, its break bytes replaced in sanitization *)
(* mode, and with the padding of its field; a null text arrives empty.      *)
Arrives(text, got) ==
    LET bytes == IF text = NULL THEN << >> ELSE NormalizeToCp1252(text)
    IN  \E s \in {bytes, Sanitize(bytes)} :
            Len(s) <= Len(got) /\ got = AsText(s \o Padding(Len(got) - Len(s)))

(* A whole message is understood unless memory runs out, and every cell the *)
(* sender set arrives as it was: no element shifts another                  *)
(* (code_gen_protocol.c:681).                                               *)
FieldsArrive ==
    phase = "received" /\ reader.data = sent =>
        \/ OutOfMemory
        \/ /\ result = "EO_SUCCESS"
           /\ DOMAIN original.cells \cup DOMAIN original.texts \subseteq DOMAIN mem
           /\ \A p \in DOMAIN original.cells : mem[p] = original.cells[p]
           /\ \A p \in DOMAIN original.texts : Arrives(original.texts[p], mem[p])

\* Structs whose end can be told: nothing in them depends on what is left.
Closed[elements \in ElementLists] ==
    \A k \in 1 .. Len(elements) :
        LET e == elements[k]
            counted == IsStatic(e) \/ IsCounted(e)
        IN CASE e.kind = "chunked" -> FALSE
             [] e.kind = "dummy"   -> ~IsString(e.type)
             [] e.kind = "field"   -> /\ ~e.optional /\ e.type # "blob"
                                      /\ IsString(e.type) => counted
                                      /\ IsStruct(e.type) => Closed[Structs[e.type]]
             [] e.kind = "array"   -> /\ ~e.optional /\ counted /\ ~IsString(e.type)
                                      /\ IsStruct(e.type) => Closed[Structs[e.type]]
             [] e.kind = "switch"  -> \A c \in 1 .. Len(e.cases) : Closed[e.cases[c].elements]
             [] OTHER -> TRUE

(* A message that lost its end is refused if its struct neither reads in    *)
(* chunks nor has optional or open-ended parts: no cut passes for a shorter *)
(* message (code_gen_protocol.c:681).                                       *)
CutsAreNoticed ==
    phase = "received" /\ Closed[Structs[root]] /\ result = "EO_SUCCESS" =>
        reader.data = sent

(* docs/getting_started.dox:463: eo_free is safe after a deserialization    *)
(* that failed part of the way, wherever the message was cut and whichever  *)
(* allocation failed.                                                       *)
FreeIsSafe == fault # "free of a wild pointer"

(* eo_free leaves no block behind, neither of a struct that was filled nor  *)
(* of one that was abandoned (include/eolib/data.h:448).                    *)
NothingLeaks == phase \in {"done", "table"} /\ fault = "none" => heap = {}

(* A call that succeeds leaves both modes as it found them, however chunked *)
(* sections and nested structs change them on the way                       *)
(* (code_gen_protocol.c:1882 and 1905).                                     *)
ModesRestored ==
    /\ phase \in {"sent", "echoed", "written", "answered"} /\ result = "EO_SUCCESS" =>
           writer.sanitize = found
    /\ phase = "received" /\ result = "EO_SUCCESS" => ~reader.chunked

(* Whatever is left of a message, the deserialization and all else comes to *)
(* an end (the loop of code_gen_protocol.c:913).                            *)
Terminates == <>Over
=============================================================================
