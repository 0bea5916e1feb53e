------------------------------ MODULE EoMeasure ------------------------------
(* The get_size functions: a number that is known when the code is generated,*)
(* and what write_size_elements adds for the value at hand.                  *)
EXTENDS EoStruct

(* Definitions nest.  In what follows extra is the function these operators  *)
(* help to define, which tells what a list of elements adds at a path.       *)
NestedSize(extra, p, type) == PrecomputedSize[Structs[type]] + extra[Structs[type]][p]

\* A text counts with strlen, the length of its UTF-8 form.
TextSize(p) == StrLen(Cell(p, NULL))

FieldSize(extra, p, e) ==
    IF IsStruct(e.type) THEN NestedSize(extra, p, e.type)
    ELSE IF e.type = "blob" THEN Cell(Append(p, "length"), 0)
    ELSE IF IsString(e.type) THEN IF IsStatic(e) /\ ~e.optional THEN 0 ELSE TextSize(p)
    ELSE IF e.optional THEN ByteSize(FieldNumber(e)) ELSE 0

ItemSize(extra, p, e) ==
    IF IsStruct(e.type) THEN NestedSize(extra, p, e.type)
    ELSE IF IsString(e.type) THEN TextSize(p)
    ELSE ByteSize(ItemNumber(e))

ArraySize(extra, where, e) ==
    LET n == Items(where, e)
    IN  IF IsStatic(e) /\ ~IsStruct(e.type) /\ ~IsString(e.type) THEN 0
        ELSE Delimiters(e, n)
             + SumOf([k \in 1 .. n |-> ItemSize(extra, Item(where, e.name, k - 1), e)])

(* The precomputed part of a case counts for every value that takes the     *)
(* case, the rest only if there is data.                                    *)
CaseSize(extra, where, e, c) ==
    PrecomputedSize[c.elements] +
        (IF ~HasStorage[c.elements] THEN extra[c.elements][where]
         ELSE IF Cell(Data(where, e), NULL) = NULL THEN 0
         ELSE extra[c.elements][CaseAt(where, e, c)])

ElementSize(extra, where, e) ==
    CASE e.kind = "chunked" -> extra[e.elements][where]
      [] e.kind = "field"   -> IF e.name = None \/ ~Present(where, e) THEN 0
                               ELSE FieldSize(extra, Field(where, e.name), e)
      [] e.kind = "array"   -> IF Present(where, e) THEN ArraySize(extra, where, e) ELSE 0
      [] e.kind = "switch"  -> LET c == ChosenCase(e, Cell(Field(where, e.field), 0))
                               IN  IF c = None THEN 0 ELSE CaseSize(extra, where, e, c)
      [] OTHER -> 0

ExtraSize[elements \in ElementLists] ==
    [where \in Paths |->
        SumOf([k \in 1 .. Len(elements) |-> ElementSize(ExtraSize, where, elements[k])])]

StructSize(p, type) == NestedSize(ExtraSize, p, type)
=============================================================================
