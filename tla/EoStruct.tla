------------------------------ MODULE EoStruct ------------------------------
(***************************************************************************)
(* The memory the generated functions work on and the statements they      *)
(* consist of.  code_gen_protocol.c writes one statement, or one block of  *)
(* them, for each element; here the elements are the statements, and       *)
(* carrying one out may put others in its place: the items of an array, the*)
(* elements of a nested struct.                                            *)
(*                                                                         *)
(* A cell of the struct is named by its path.  Cells nothing was assigned  *)
(* to are zeros, as memset left them, unless they lie in memory that came  *)
(* from malloc.  A pointer to an array, an optional struct or the data of a*)
(* switch is 1 when it is not null; a text is its characters, or NULL.     *)
(***************************************************************************)
EXTENDS EoSchema, EoReaderOps, EoWriterOps, TLC

CONSTANT Garbage   \* what memory that was never written holds

VARIABLES
    running,  \* the generated function that runs: "serialize", "deserialize", "none"
    todo,     \* the statements it has left
    result,   \* its EoResult
    mem,      \* the cells that were assigned, by path
    heap,     \* the pointers that own a live block
    raw,      \* array items that were never initialised, or never allocated
    locals,   \* the length variables of the deserialize functions, by path
    writer,   \* the EoWriter
    reader,   \* the EoReader
    fault,    \* an access the program does not survive, or "none"
    scarce    \* may allocations fail?  it stays as it is

memory == <<mem, heap, raw, locals>>
structVars == <<running, todo, result, mem, heap, raw, locals, writer, reader, fault>>

\* What malloc may do, for the generated code and inside a writer function.
Allocations    == IF scarce THEN BOOLEAN ELSE {TRUE}
WriterFailures == IF scarce THEN Failures ELSE {"none"}

Paths == Seq(STRING)

Field(at, name)   == Append(at, name)
Item(at, name, i) == at \o <<name, ToString(i)>>
Count(at, name)   == at \o <<name, "length">>
Data(at, e)       == at \o <<e.field, "data">>
CaseAt(at, e, c)  == Data(at, e) \o <<c.name>>

Within(p, q) == Seqs!IsPrefix(q, p)

Cell(p, zero) ==
    IF p \in DOMAIN mem THEN mem[p]
    ELSE IF \E q \in raw : Within(p, q) THEN Garbage
    ELSE zero

\* cells with a value for p.
Assigned(cells, p, value) ==
    [q \in DOMAIN cells \cup {p} |-> IF q = p THEN value ELSE cells[q]]

Items(at, e) == IF IsStatic(e) THEN e.length ELSE Cell(Count(at, e.name), 0)

\* Optional elements are there when their pointer is set; a static array always is.
Present(at, e) == \/ ~e.optional
                  \/ e.kind = "array" /\ IsStatic(e)
                  \/ Cell(Field(at, e.name), NULL) # NULL

-----------------------------------------------------------------------------
\* A text as the struct holds it: no pointer, no bytes.
StrLen(text)   == IF text = NULL THEN 0 ELSE Utf8Length(text)
\* A text that was read holds Windows-1252 bytes.
AsText(bytes)  == IF bytes = NULL THEN NULL
                  ELSE [k \in 1 .. Len(bytes) |-> [cp1252 |-> bytes[k], width |-> 1]]

Statements(at, elements) ==
    [k \in 1 .. Len(elements) |-> [at |-> at, elem |-> elements[k], scope |-> elements]]

Statement(at, elem) == <<[at |-> at, elem |-> elem, scope |-> << >>]>>

\* The end of a generated function, where it restores the mode it found.
Leave(mode) == Statement(<< >>, [kind |-> "leave", mode |-> mode])
Break       == Statement(<< >>, [kind |-> "break"])

\* for (size_t i = 0; i < n; ++i) over the items of an array.
LoopOver(where, e, n) == Statement(where, [kind |-> "loop", array |-> e, i |-> 0, n |-> n])

at    == Head(todo).at
elem  == Head(todo).elem
scope == Head(todo).scope
path  == Field(at, elem.name)

Now(function, kind) == running = function /\ todo # << >> /\ elem.kind = kind

(* One round of a loop: item i with the delimiter before it, if only the    *)
(* items between others have one, or behind it, and the rounds to come.     *)
Round ==
    LET e    == elem.array
        item == Statement(Item(at, e.name, elem.i), [e EXCEPT !.kind = "item"])
        rest == <<[Head(todo) EXCEPT !.elem.i = @ + 1]>>
    IN  IF ~(elem.i < elem.n) THEN << >>
        ELSE IF ~e.delimited THEN item \o rest
        ELSE IF e.trailing THEN item \o Break \o rest
        ELSE IF elem.i > 0 THEN Break \o item \o rest ELSE item \o rest

\* A literal is a dummy, or a field without a name.
Literal == elem.kind = "dummy" \/ (elem.kind = "field" /\ elem.name = None)

\* return error;
Fail(error) == result' = error /\ todo' = << >>

Crash(what) ==
    /\ fault' = what
    /\ UNCHANGED <<running, todo, result, memory, writer, reader>>
=============================================================================
