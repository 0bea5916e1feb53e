----------------------------- MODULE MCProtocol -----------------------------
(* Small instances of EoProtocol: a base of 9, bytes 0..11, and one struct   *)
(* for each way the elements of a definition can depend on one another.      *)
EXTENDS EoProtocol, Functions

Elem(kind, name, type) ==
    [kind |-> kind, name |-> name, type |-> type, override |-> None, value |-> None,
     optional |-> FALSE, length |-> None, counter |-> None, padded |-> FALSE,
     delimited |-> FALSE, trailing |-> FALSE, offset |-> 0]

AField(name, type)       == Elem("field", name, type)
AnArray(name, type)      == Elem("array", name, type)
ALength(name, type)      == Elem("length", name, type)
ADummy(type, value)      == [Elem("dummy", None, type) EXCEPT !.value = value]
Sized(e, n)              == [e EXCEPT !.length = n]
Padded(e)                == [e EXCEPT !.padded = TRUE]
CountedBy(e, name)       == [e EXCEPT !.counter = name]
Optional(e)              == [e EXCEPT !.optional = TRUE]
Delimited(e)             == [e EXCEPT !.delimited = TRUE, !.trailing = TRUE]
Separated(e)             == [e EXCEPT !.delimited = TRUE]
ABreak                   == [kind |-> "break"]
Chunked(elements)        == [kind |-> "chunked", elements |-> elements]
Switch(field, cases)     == [kind |-> "switch", field |-> field, cases |-> cases]
Case(value, name, elements) ==
    [value |-> value, default |-> FALSE, name |-> name, elements |-> elements]
Default(elements) ==
    [value |-> None, default |-> TRUE, name |-> "default", elements |-> elements]

Plain(b)    == [cp1252 |-> b, width |-> 1]
Accented(b) == [cp1252 |-> b, width |-> 2]

MCEnums == [Direction |-> "char"]

MCStructs == [
    Pair    |-> << AField("x", "short"), AField("y", "char") >>,
    Spot    |-> << AField("x", "short"), AField("y", "short") >>,
    Named   |-> << ALength("n", "char"), CountedBy(AField("text", "string"), "n") >>,
    Line    |-> << Chunked(<< AField("head", "string"), ABreak, AField("tail", "char") >>) >>,
    \* fields of one size each, and a literal
    Fixed   |-> << ADummy("byte", 23), AField("dir", "Direction"),
                   [AField("wide", "Direction") EXCEPT !.override = "short"],
                   Padded(Sized(AField("code", "encoded_string"), 2)), AField("on", "bool"),
                   Sized(AnArray("pos", "short"), 2), [AField(None, "char") EXCEPT !.value = 4] >>,
    \* what a length counts, in the same struct and in nested ones
    Counted |-> << ALength("texts", "char"), ALength("n", "short"),
                   CountedBy(AnArray("items", "Pair"), "texts"),
                   CountedBy(AField("note", "string"), "n"), AField("me", "Named"),
                   Sized(AnArray("team", "Pair"), 2) >>,
    Squad   |-> << ALength("n", "char"), CountedBy(AnArray("squad", "Named"), "n") >>,
    Shifted |-> << [ALength("n", "char") EXCEPT !.offset = 1],
                   CountedBy(AnArray("ids", "char"), "n") >>,
    \* delimiters: between, behind, of items of one size and of several
    Lists   |-> << Chunked(<< AField("name", "string"), ABreak,
                              ALength("n", "char"),
                              Separated(CountedBy(AnArray("few", "string"), "n")), ABreak,
                              Delimited(AnArray("rest", "string")) >>) >>,
    Rows    |-> << Chunked(<< ALength("n", "char"), AField("kind", "char"),
                              CountedBy(AnArray("row", "char"), "n"), ABreak,
                              Delimited(AnArray("cells", "Named")) >>) >>,
    Open    |-> << AField("id", "char"), AnArray("pairs", "Pair") >>,
    Bytes   |-> << AField("id", "byte"), AnArray("ids", "char") >>,
    Outer   |-> << AField("line", "Line"), AField("z", "char") >>,
    Deep    |-> << Chunked(<< AField("line", "Line"), ABreak, AField("name", "encoded_string"),
                              ABreak, ADummy("string", <<Plain(3)>>) >>) >>,
    Choice  |-> << AField("kind", "char"),
                   Switch("kind", << Case(1, "one", << AField("s", "string") >>),
                                     Case(2, "two", << ADummy("char", 5) >>),
                                     Case(3, "three", << >>),
                                     Default(<< AField("p", "Pair") >>) >>) >>,
    Extra   |-> << AField("id", "char"), Optional(AField("more", "short")),
                   Optional(AField("pair", "Pair")), Optional(AnArray("ids", "char")),
                   AField("data", "blob") >>,
    Maybe   |-> << AField("id", "char"), Optional(AField("more", "bool")) >>,
    Spare   |-> << AField("id", "char"),
                   Optional(AField("data", "blob")) >>,
    Fallback |-> << AField("kind", "char"),
                    Switch("kind", << Case(1, "one", << AField("x", "char") >>),
                                      Default(<< AField("s", "string") >>) >>) >>,
    Sign    |-> << AField("id", "char"), ADummy("string", <<Plain(3), Accented(5)>>) >>,
    \* arrays that go on while there are bytes
    Crew    |-> << AnArray("crew", "Named") >>,
    Spots   |-> << Chunked(<< AField("id", "char"), AnArray("spots", "Spot") >>) >>,
    Shorts  |-> << Chunked(<< AField("id", "char"), AnArray("ids", "short") >>) >>
]

\* The lists within a list, down to the innermost.
Inner(list) ==
    UNION {CASE list[k].kind = "chunked" -> {list[k].elements}
             [] list[k].kind = "switch" -> {c.elements : c \in Range(list[k].cases)}
             [] OTHER -> {} : k \in 1 .. Len(list)}

MCElementLists ==
    LET within[n \in Nat] ==
            IF n = 0 THEN Range(MCStructs)
            ELSE within[n - 1] \cup UNION {Inner(list) : list \in within[n - 1]}
    IN  within[2]

Text(bytes) == [k \in 1 .. Len(bytes) |-> Plain(bytes[k])]

\* The cells of a pair, of an array of n items, and of a field.
PairAt(p, x, y)     == (Append(p, "x") :> x) @@ (Append(p, "y") :> y)
ListAt(p, n)        == (Append(p, "length") :> n) @@ (p :> 1)
CellAt(name, value) == <<name>> :> value
Value(cells, texts) == [cells |-> cells, texts |-> texts]

SoundValues == [
    Fixed   |-> { Value(CellAt("dir", 2) @@ CellAt("wide", 20) @@ CellAt("on", 1)
                        @@ (<<"pos", "0">> :> 10) @@ (<<"pos", "1">> :> 3),
                        CellAt("code", t)) : t \in {Text(<<3, 7>>), Text(<<4>>)} },
    Counted |-> { Value(ListAt(<<"items">>, 2) @@ PairAt(<<"items", "0">>, 9, 2)
                        @@ PairAt(<<"items", "1">>, 4, 8)
                        @@ PairAt(<<"team", "0">>, 1, 1) @@ PairAt(<<"team", "1">>, 2, 2),
                        CellAt("note", Text(<<4>>)) @@ (<<"me", "text">> :> Text(<<5, 6>>))) },
    Lists   |-> { Value(ListAt(<<"few">>, 2) @@ ListAt(<<"rest">>, 2),
                        CellAt("name", NULL)
                        @@ (<<"few", "0">> :> Text(<<4>>)) @@ (<<"few", "1">> :> Text(<<11, 5>>))
                        @@ (<<"rest", "0">> :> Text(<<6>>)) @@ (<<"rest", "1">> :> Text(<<7>>))) },
    Rows    |-> { Value(CellAt("kind", 3) @@ ListAt(<<"row">>, 2)
                        @@ (<<"row", "0">> :> 1) @@ (<<"row", "1">> :> 2)
                        @@ ListAt(<<"cells">>, 2),
                        (<<"cells", "0", "text">> :> Text(<<4>>))
                        @@ (<<"cells", "1", "text">> :> Text(<<5, 6>>))) },
    Open    |-> { Value(CellAt("id", 4) @@ ListAt(<<"pairs">>, 2)
                        @@ PairAt(<<"pairs", "0">>, 9, 2) @@ PairAt(<<"pairs", "1">>, 3, 7),
                        << >>) },
    Bytes   |-> { Value(CellAt("id", 11) @@ ListAt(<<"ids">>, 2)
                        @@ (<<"ids", "0">> :> 1) @@ (<<"ids", "1">> :> 2), << >>) },
    Outer   |-> { Value((<<"line", "tail">> :> 5) @@ CellAt("z", 6),
                        (<<"line", "head">> :> Text(<<3>>))) },
    Deep    |-> { Value((<<"line", "tail">> :> 5),
                        (<<"line", "head">> :> Text(<<3, 11>>))
                        @@ CellAt("name", Text(<<4, 7, 2>>))) },
    Choice  |-> { Value(CellAt("kind", 1) @@ (<<"kind", "data">> :> 1),
                        (<<"kind", "data", "one", "s">> :> Text(<<3, 4>>))),
                  Value(CellAt("kind", 2), << >>),
                  Value(CellAt("kind", 3) @@ (<<"kind", "data">> :> 1)
                        @@ PairAt(<<"kind", "data", "default", "p">>, 10, 2), << >>) },
    Extra   |-> { Value(CellAt("id", 1) @@ CellAt("more", 12) @@ CellAt("pair", 1)
                        @@ PairAt(<<"pair">>, 1, 2) @@ ListAt(<<"ids">>, 2)
                        @@ (<<"ids", "0">> :> 3) @@ (<<"ids", "1">> :> 4)
                        @@ CellAt("data", << >>), << >>),
                  Value(CellAt("id", 1) @@ CellAt("more", 12) @@ CellAt("data", << >>), << >>) },
    Crew    |-> { Value(ListAt(<<"crew">>, 2),
                        (<<"crew", "0", "text">> :> Text(<<4>>))
                        @@ (<<"crew", "1", "text">> :> Text(<<5, 6>>))) },
    Spots   |-> { Value(CellAt("id", 4) @@ ListAt(<<"spots">>, 2)
                        @@ PairAt(<<"spots", "0">>, 9, 2) @@ PairAt(<<"spots", "1">>, 3, 7),
                        << >>) }
]

\* Structs that are freed safely even when memory runs out.
MemoryRoots  == {"Fixed", "Counted", "Rows", "Open", "Bytes", "Outer", "Deep", "Choice", "Crew", "Spots"}

(* The definitions that go wrong, each with a value that shows it when it is *)
(* given to Values, and the property that then fails.                        *)

\* FreeIsSafe: items of a counted array that were never read are freed.
SquadValue    == [Squad |-> {Value(ListAt(<<"squad">>, 2),
                                   (<<"squad", "0", "text">> :> Text(<<4>>))
                                   @@ (<<"squad", "1", "text">> :> Text(<<5>>)))}]
\* Terminates: items are added for ever when the chunk ends inside one.
ShortsValue   == [Shorts |-> {Value(CellAt("id", 4) @@ ListAt(<<"ids">>, 1)
                                    @@ (<<"ids", "0">> :> 3), << >>)}]
\* FreeIsSafe: a case without pointers is freed as the default.
FallbackValue == [Fallback |-> {Value(CellAt("kind", 1) @@ (<<"kind", "data">> :> 1)
                                      @@ (<<"kind", "data", "one", "x">> :> 5), << >>)}]
\* SizeIsExact: UTF-8 bytes are counted.
AccentValue   == [Named |-> {Value(<< >>, CellAt("text", <<Accented(5)>>))}]
\* FieldsArrive: the offset of a length is added and never taken off.
OffsetValue   == [Shifted |-> {Value(ListAt(<<"ids">>, 2) @@ (<<"ids", "0">> :> 1)
                                     @@ (<<"ids", "1">> :> 2), << >>)}]
\* FieldsArrive: a literal beyond ASCII is refused.  SizeIsExact: it is counted in UTF-8.
SignValue     == [Sign |-> {Value(CellAt("id", 4), << >>)}]
\* NothingLeaks: a struct whose only pointer is optional has no free function.
MaybeValue    == [Maybe |-> {Value(CellAt("id", 1) @@ CellAt("more", 1), << >>)}]
\* NothingLeaks: the block of an optional blob is lost.
SpareValue    == [Spare |-> {Value(CellAt("id", 1) @@ CellAt("data", <<5>>)
                                   @@ (<<"data", "length">> :> 1), << >>)}]
\* the program crashes, and the run stops: strlen of a null text.
NullValue     == [Named |-> {Value(<< >>, CellAt("text", NULL))}]
=============================================================================
