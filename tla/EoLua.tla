-------------------------------- MODULE EoLua --------------------------------
(***************************************************************************)
(* The Lua bindings that code_gen_lua.c generates for a struct: a table is *)
(* made of what was deserialized, and a struct of a table that is to be    *)
(* serialized.  Like a struct, a table is a function of paths: nested      *)
(* tables are marked by "table", a list also has its number of items, and  *)
(* what is nil has no path.  The fields of a switch's case lie in its data *)
(* table; the struct has them one level further down, under the case.      *)
(***************************************************************************)
EXTENDS EoRelease

VARIABLE table   \* the table the Lua program holds

\* An entry of a table, or a cell of a struct.
Entry(p, value) == [q \in {p} |-> value]

\* Entries with others, and those of all elements: no two have the same path.
With(a, b) == [p \in DOMAIN a \cup DOMAIN b |-> IF p \in DOMAIN a THEN a[p] ELSE b[p]]

Merged(parts) ==
    [p \in UNION {DOMAIN parts[k] : k \in DOMAIN parts} |->
        parts[CHOOSE k \in DOMAIN parts : p \in DOMAIN parts[k]][p]]

\* A field that has a value of its own is not for the program to see.
Visible(e) == e.name # None /\ e.value = None

\* Cases without storage are not generated here: the default takes their values.
LuaCase(e, value) ==
    ChosenAmong(e, {c \in 1 .. Len(e.cases) : HasStorage[e.cases[c].elements]}, value)

-----------------------------------------------------------------------------
(* From the struct at a path to the entries of the table at another.  There *)
(* are no null texts: they become empty ones.  Tables nest as definitions   *)
(* do: entries is the function these operators help to define.              *)
StructTable(entries, t, p, type) ==
    IF HasStorage[Structs[type]] THEN With(Entry(t, "table"), entries[t, p, Structs[type]])
    ELSE << >>

FieldEntries(entries, t, p, e) ==
    CASE IsString(e.type) \/ e.type = "blob" ->
            Entry(t, IF Cell(p, NULL) = NULL THEN << >> ELSE Cell(p, NULL))
      [] e.optional /\ Cell(p, NULL) = NULL -> << >>
      [] IsStruct(e.type) -> StructTable(entries, t, p, e.type)
      [] OTHER -> Entry(t, Cell(p, 0))

ItemEntry(entries, t, p, e) ==
    CASE IsStruct(e.type) -> StructTable(entries, t, p, e.type)
      [] IsString(e.type) -> Entry(t, IF Cell(p, NULL) = NULL THEN << >> ELSE Cell(p, NULL))
      [] OTHER            -> Entry(t, Cell(p, 0))

\* A list of nils has no items.
ArrayEntries(entries, t, p, e) ==
    LET n   == Items(p, e)
        nil == IsStruct(e.type) /\ ~HasStorage[Structs[e.type]]
    IN  With(With(Entry(Field(t, e.name), "table"),
                  Entry(Count(t, e.name), IF nil THEN 0 ELSE n)),
             Merged([k \in 1 .. n |->
                 ItemEntry(entries, Item(t, e.name, k - 1), Item(p, e.name, k - 1), e)]))

SwitchEntries(entries, t, p, e) ==
    LET c == LuaCase(e, Cell(Field(p, e.field), 0))
    IN  IF ~SwitchHasStorage(e) \/ Cell(Data(p, e), NULL) = NULL THEN << >>
        ELSE With(Entry(Data(t, e), "table"),
                  IF c = None THEN << >> ELSE entries[Data(t, e), CaseAt(p, e, c), c.elements])

ElementEntries(entries, t, p, e) ==
    CASE e.kind = "field" ->
            IF Visible(e) THEN FieldEntries(entries, Field(t, e.name), Field(p, e.name), e)
            ELSE << >>
      [] e.kind = "array"   -> ArrayEntries(entries, t, p, e)
      [] e.kind = "switch"  -> SwitchEntries(entries, t, p, e)
      [] e.kind = "chunked" -> entries[t, p, e.elements]
      [] OTHER -> << >>

TableOf[t \in Paths, p \in Paths, elements \in ElementLists] ==
    Merged([k \in 1 .. Len(elements) |-> ElementEntries(TableOf, t, p, elements[k])])

-----------------------------------------------------------------------------
(* From the table to the struct.  Each cell comes with whether it is a      *)
(* pointer to a block of its own.  Every allocation is taken to succeed.    *)
Plainly(p, value) == Entry(p, [value |-> value, block |-> FALSE])
Block(p, value)   == Entry(p, [value |-> value, block |-> TRUE])

Has(t) == t \in DOMAIN table

\* The function that these operators help to define is their first argument, cells.
StructCells(cells, p, t, type) ==
    IF HasStorage[Structs[type]] /\ Has(t) THEN cells[Structs[type]][p][t]
    ELSE << >>

FieldCells(cells, p, t, e) ==
    IF ~Has(t) THEN << >>
    ELSE IF IsStruct(e.type)
    THEN With(IF e.optional THEN Block(p, 1) ELSE << >>, StructCells(cells, p, t, e.type))
    ELSE IF e.type = "blob"
    THEN With(Block(p, table[t]), Plainly(Append(p, "length"), Len(table[t])))
    ELSE IF IsString(e.type) \/ e.optional THEN Block(p, table[t])
    ELSE Plainly(p, table[t])

ItemCells(cells, p, t, e) ==
    IF IsStruct(e.type) THEN StructCells(cells, p, t, e.type)
    ELSE IF IsString(e.type) THEN Block(p, table[t])
    ELSE Plainly(p, table[t])

\* The count is the program's own: it is forgotten.
ArrayCells_Uncounted(cells, p, t, e) ==
    IF ~Has(Field(t, e.name)) \/ IsStatic(e) THEN << >>
    ELSE LET n == table[Count(t, e.name)]
         IN  With(IF n > 0 THEN Block(Field(p, e.name), 1) ELSE << >>,
                  Merged([k \in 1 .. n |->
                      ItemCells(cells, Item(p, e.name, k - 1), Item(t, e.name, k - 1), e)]))

\* A list that is longer than a static array is cut, a shorter one leaves zeros.
ArrayCells(cells, p, t, e) ==
    IF ~Has(Field(t, e.name)) THEN << >>
    ELSE LET listed == table[Count(t, e.name)]
             n == IF IsStatic(e) /\ listed > e.length THEN e.length ELSE listed
         IN  With(IF IsStatic(e) THEN << >>
                  ELSE With(Plainly(Count(p, e.name), n),
                            IF n > 0 THEN Block(Field(p, e.name), 1) ELSE << >>),
                  Merged([k \in 1 .. n |->
                      ItemCells(cells, Item(p, e.name, k - 1), Item(t, e.name, k - 1), e)]))

\* The case is that of the field as the struct has it by now.
SwitchCells(cells, p, t, e) ==
    LET field == Field(t, e.field)
        c     == LuaCase(e, IF Has(field) THEN table[field] ELSE 0)
    IN  IF ~SwitchHasStorage(e) \/ ~Has(Data(t, e)) THEN << >>
        ELSE With(Block(Data(p, e), 1),
                  IF c = None THEN << >> ELSE cells[c.elements][CaseAt(p, e, c)][Data(t, e)])

ElementCells(cells, p, t, e) ==
    CASE e.kind = "field" ->
            IF Visible(e) THEN FieldCells(cells, Field(p, e.name), Field(t, e.name), e)
            ELSE << >>
      [] e.kind = "array"   -> ArrayCells(cells, p, t, e)
      [] e.kind = "switch"  -> SwitchCells(cells, p, t, e)
      [] e.kind = "chunked" -> cells[e.elements][p][t]
      [] OTHER -> << >>

CellsOf[elements \in ElementLists] ==
    [p \in Paths |-> [t \in Paths |->
        Merged([k \in 1 .. Len(elements) |-> ElementCells(CellsOf, p, t, elements[k])])]]
=============================================================================
