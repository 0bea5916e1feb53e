------------------------------ MODULE EoSchema ------------------------------
(***************************************************************************)
(* A protocol definition as the code generator holds it after parsing      *)
(* (src/tools/code_gen_common.h), and what code_gen_analysis.c and the size*)
(* part of code_gen_protocol.c find out about it.  A struct is a sequence  *)
(* of elements; an element is a record whose kind is one of                *)
(*   break    a delimiter                                                  *)
(*   chunked  elements in chunked mode: elements                           *)
(*   dummy    a literal: type, value                                       *)
(*   field    name (None for a literal), type, override (of an enum), value*)
(*            optional, length, counter, padded                            *)
(*   length   name, type, offset                                           *)
(*   array    name, type, length, counter, optional, delimited, trailing   *)
(*   switch   field, cases: sequence of [value, default, name, elements]   *)
(* A length attribute is a number, length, or the name of a length element,*)
(* counter; the other one is None.                                         *)
(* Comments generate nothing and are left out.  So are optional lengths,   *)
(* optional strings without a length, optional static arrays of numbers and*)
(* arrays of blobs: what the generator writes for them is not valid C.     *)
(***************************************************************************)
EXTENDS Integers, Sequences

CONSTANTS
    Structs,   \* struct name -> its elements
    Enums,     \* enum name -> the number type it is sent as
    None,      \* an attribute that is not there
    ElementLists   \* the lists of elements: of structs, chunked sections and cases

Seqs == INSTANCE SequencesExt

Kinds == {"break", "chunked", "dummy", "field", "length", "array", "switch"}

ASSUME ListsAssumption ==
    /\ \A type \in DOMAIN Structs : Structs[type] \in ElementLists
    /\ \A list \in ElementLists : list \in Seq(Seqs!ToSet(list))
    /\ \A list \in ElementLists : \A k \in 1 .. Len(list) :
          /\ "kind" \in DOMAIN list[k]
          /\ list[k].kind \in Kinds
          /\ list[k].kind = "chunked" => list[k].elements \in ElementLists
          /\ list[k].kind = "switch" =>
                 \A c \in 1 .. Len(list[k].cases) : list[k].cases[c].elements \in ElementLists

SumOf(s) == Seqs!FoldLeft(LAMBDA a, b : a + b, 0, s)
Concat(s) == Seqs!FlattenSeq(s)

IsStruct(type) == type \in DOMAIN Structs
IsEnum(type)   == type \in DOMAIN Enums
IsString(type) == type \in {"string", "encoded_string"}

\* is_static_length: an array or string length given in the definition.
IsStatic(e)  == e.length # None
IsCounted(e) == e.counter # None

\* primitive_byte_size
ByteSize(type) ==
    CASE type \in {"byte", "char", "bool"} -> 1
      [] type = "short" -> 2
      [] type = "three" -> 3
      [] type = "int"   -> 4

\* The number type a field or an item is sent as; an override replaces the enum's.
FieldNumber(e) == IF ~IsEnum(e.type) THEN e.type
                  ELSE IF e.override # None THEN e.override ELSE Enums[e.type]
ItemNumber(e)  == IF IsEnum(e.type) THEN Enums[e.type] ELSE e.type

\* Elements in the order of the wire, those of chunked sections included.
Unchunked[elements \in ElementLists] ==
    Concat([k \in 1 .. Len(elements) |->
                IF elements[k].kind = "chunked" THEN Unchunked[elements[k].elements]
                ELSE <<elements[k]>>])

(* find_length_target: the first field or array whose length is named, if   *)
(* there is one.                                                            *)
LengthTarget(elements, name) ==
    LET flat  == Unchunked[elements]
        users == {k \in 1 .. Len(flat) : /\ flat[k].kind \in {"field", "array"}
                                         /\ flat[k].counter = name}
    IN  IF users = {} THEN None
        ELSE flat[CHOOSE k \in users : \A l \in users : k <= l]

-----------------------------------------------------------------------------
\* element_list_has_storage, switch_has_storage: is there anything to keep?
HasStorage[elements \in ElementLists] ==
    \E k \in 1 .. Len(elements) :
        LET e == elements[k] IN
        CASE e.kind = "field"   -> e.name # None
          [] e.kind = "array"   -> TRUE
          [] e.kind = "chunked" -> HasStorage[e.elements]
          [] e.kind = "switch"  -> \E c \in 1 .. Len(e.cases) : HasStorage[e.cases[c].elements]
          [] OTHER -> FALSE

SwitchHasStorage(e) == \E c \in 1 .. Len(e.cases) : HasStorage[e.cases[c].elements]

(* element_list_has_heap, struct_has_heap: does the struct need a free      *)
(* function?  An optional field is a pointer, but is not looked at.         *)
HasHeap[elements \in ElementLists] ==
    \E k \in 1 .. Len(elements) :
        LET e == elements[k] IN
        CASE e.kind = "field"   -> /\ e.name # None
                                   /\ \/ IsString(e.type) \/ e.type = "blob"
                                      \/ IsStruct(e.type) /\ HasHeap[Structs[e.type]]
          [] e.kind = "array"   -> \/ ~IsStatic(e)
                                   \/ IsString(e.type)
                                   \/ IsStruct(e.type) /\ HasHeap[Structs[e.type]]
          [] e.kind = "switch"  -> SwitchHasStorage(e)
          [] e.kind = "chunked" -> HasHeap[e.elements]
          [] OTHER -> FALSE

StructHasHeap(type) == IsStruct(type) /\ HasHeap[Structs[type]]

(* The case a switch takes if some of its cases are generated, and the one  *)
(* it takes; a case without elements never is.                              *)
ChosenAmong(e, some, value) ==
    LET generated == {c \in some : e.cases[c].elements # << >>}
        matching  == {c \in generated : ~e.cases[c].default /\ e.cases[c].value = value}
        defaults  == {c \in generated : e.cases[c].default}
    IN  IF matching # {} THEN e.cases[CHOOSE c \in matching : TRUE]
        ELSE IF defaults # {} THEN e.cases[CHOOSE c \in defaults : TRUE]
        ELSE None

ChosenCase(e, value) == ChosenAmong(e, 1 .. Len(e.cases), value)

-----------------------------------------------------------------------------
\* One behind every item, whatever the definition says.
Delimiters_Trailing(e, n) == IF e.delimited THEN n ELSE 0

\* The delimiters of an array of n items.
Delimiters(e, n) == IF ~e.delimited THEN 0
                    ELSE IF e.trailing THEN n
                    ELSE IF n > 1 THEN n - 1 ELSE 0

\* strlen of a text: the bytes of its characters.
Utf8Length(text) == SumOf([k \in 1 .. Len(text) |-> text[k].width])

(* compute_fixed_element_list_size: the size of the elements if it is the   *)
(* same for all values, -1 if not.                                          *)
FixedElementSize(fixed, e) ==
    CASE e.kind = "chunked" -> fixed[e.elements]
      [] e.kind = "break"   -> 1
      [] e.kind = "dummy"   -> IF IsString(e.type) THEN Utf8Length(e.value) ELSE ByteSize(e.type)
      [] e.kind = "length"  -> ByteSize(e.type)
      [] e.kind = "field"   ->
            IF e.optional \/ e.type = "blob" THEN -1
            ELSE IF IsString(e.type)
            THEN IF IsStatic(e) THEN e.length
                 ELSE IF e.name = None THEN Utf8Length(e.value) ELSE -1
            ELSE IF IsStruct(e.type) THEN fixed[Structs[e.type]]
            ELSE ByteSize(FieldNumber(e))
      [] e.kind = "array"   ->
            IF e.optional \/ ~IsStatic(e) \/ IsString(e.type) THEN -1
            ELSE LET size == IF IsStruct(e.type) THEN fixed[Structs[e.type]]
                             ELSE ByteSize(ItemNumber(e))
                 IN  IF size <= 0 THEN -1 ELSE e.length * size + Delimiters(e, e.length)
      [] e.kind = "switch"  -> -1

FixedSize[elements \in ElementLists] ==
    LET sizes == [k \in 1 .. Len(elements) |-> FixedElementSize(FixedSize, elements[k])]
    IN  IF \E k \in 1 .. Len(sizes) : sizes[k] < 0 THEN -1 ELSE SumOf(sizes)

(* compute_elements_precomputed_size: the part of the size that is known    *)
(* without the value, of elements that are always there.                    *)
PrecomputedElementSize(precomputed, e) ==
    CASE e.kind = "chunked" -> precomputed[e.elements]
      [] e.kind = "break"   -> 1
      [] e.kind = "dummy"   -> IF IsString(e.type) THEN Utf8Length(e.value) ELSE ByteSize(e.type)
      [] e.kind = "length"  -> ByteSize(e.type)
      [] e.kind = "field"   ->
            IF e.optional \/ e.type = "blob" \/ IsStruct(e.type) THEN 0
            ELSE IF IsString(e.type)
            THEN IF IsStatic(e) THEN e.length
                 ELSE IF e.name = None THEN Utf8Length(e.value) ELSE 0
            ELSE ByteSize(FieldNumber(e))
      [] e.kind = "array"   ->
            IF e.optional \/ ~IsStatic(e) \/ IsStruct(e.type) \/ IsString(e.type) THEN 0
            ELSE e.length * ByteSize(ItemNumber(e)) + Delimiters(e, e.length)
      [] e.kind = "switch"  -> 0

PrecomputedSize[elements \in ElementLists] ==
    SumOf([k \in 1 .. Len(elements) |-> PrecomputedElementSize(PrecomputedSize, elements[k])])
=============================================================================
