------------------------------ MODULE EoRelease ------------------------------
(* The free functions that write_free_elements generates: the pointers they  *)
(* pass to free, and which of them are not null.                             *)
EXTENDS EoStruct

FreePointer(p) == {[pointer |-> p, set |-> Cell(p, NULL) # NULL]}

(* Definitions nest.  In what follows freed is the function these operators *)
(* help to define, which tells what a list of elements frees at a path.     *)
FreeField(freed, p, e) ==
    IF IsString(e.type) \/ e.type = "blob" THEN FreePointer(p)
    ELSE (IF StructHasHeap(e.type) /\ (e.optional => Cell(p, NULL) # NULL)
          THEN freed[Structs[e.type]][p] ELSE {})
         \cup (IF e.optional THEN FreePointer(p) ELSE {})

\* The loop over the items, if there is one; how many garbage has is not known.
FreeItems(freed, where, e) ==
    IF Items(where, e) = Garbage THEN FreePointer(Field(where, e.name))
    ELSE UNION {IF IsString(e.type) THEN FreePointer(Item(where, e.name, i))
                ELSE IF StructHasHeap(e.type)
                THEN freed[Structs[e.type]][Item(where, e.name, i)]
                ELSE {} : i \in 0 .. Items(where, e) - 1}

\* The block of the items is forgotten.
FreeArray_ItemsOnly(freed, where, e) == FreeItems(freed, where, e)

FreeArray(freed, where, e) ==
    FreeItems(freed, where, e)
    \cup (IF IsStatic(e) THEN {} ELSE FreePointer(Field(where, e.name)))

(* Only the cases with heap are generated, so the others are left to the    *)
(* default, if that one has heap.                                           *)
FreedCase(e, value) ==
    ChosenAmong(e, {c \in 1 .. Len(e.cases) : HasHeap[e.cases[c].elements]}, value)

(* The cases share their memory: another case's pointers are what the       *)
(* fields of this one happen to hold.                                       *)
FreeSwitch(freed, where, e) ==
    LET value   == Cell(Field(where, e.field), 0)
        entered == ChosenCase(e, value)
        c       == FreedCase(e, value)
        filled  == \E q \in DOMAIN mem : Within(q, CaseAt(where, e, entered))
    IN  IF ~SwitchHasStorage(e) \/ Cell(Data(where, e), NULL) = NULL THEN {}
        ELSE (IF c = None THEN {}
              ELSE IF c = entered THEN freed[c.elements][CaseAt(where, e, c)]
              ELSE IF filled THEN {[pointer |-> CaseAt(where, e, c), set |-> TRUE]}
              ELSE {})
             \cup FreePointer(Data(where, e))

FreeElement(freed, where, e) ==
    CASE e.kind = "field"   -> IF e.name = None THEN {}
                               ELSE FreeField(freed, Field(where, e.name), e)
      [] e.kind = "array"   -> FreeArray(freed, where, e)
      [] e.kind = "switch"  -> FreeSwitch(freed, where, e)
      [] e.kind = "chunked" -> freed[e.elements][where]
      [] OTHER -> {}

Freed[elements \in ElementLists] ==
    [where \in Paths |->
        UNION {FreeElement(Freed, where, elements[k]) : k \in 1 .. Len(elements)}]

\* eo_free does nothing for a struct that was given no free function.
EoFree(type) ==
    IF HasStorage[Structs[type]] /\ HasHeap[Structs[type]] THEN Freed[Structs[type]][<< >>]
    ELSE {}

\* free of something that is neither null nor a live block.
BadFree(f) == f.set /\ f.pointer \notin heap
=============================================================================
