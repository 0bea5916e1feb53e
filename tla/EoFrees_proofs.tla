--------------------------- MODULE EoFrees_proofs ---------------------------
(***************************************************************************)
(* Proofs about the memory of generated structs, for every protocol        *)
(* definition whose structs can be freed at any time (IsFreeable): what    *)
(* eo_free frees is owned by the struct, wherever a message was cut and    *)
(* whichever allocation failed.                                            *)
(***************************************************************************)
EXTENDS EoProtocol_proofs

-----------------------------------------------------------------------------
(* What a free function frees, and what Lua makes of a table, are recursive *)
(* functions of the definition.  If definitions nest, they are what their   *)
(* equations say.                                                           *)

FreedBody(f, list) ==
    [where \in Paths |-> UNION {FreeElement(f, where, list[k]) : k \in 1 .. Len(list)}]

CellsBody(f, list) ==
    [p \in Paths |-> [t \in Paths |->
        Merged([k \in 1 .. Len(list) |-> ElementCells(f, p, t, list[k])])]]

\* Whatever is among the cases of a switch is less deep, and so is all else that nests.
Alike(f, g, e) ==
    /\ e.kind = "chunked" => f[e.elements] = g[e.elements]
    /\ e.kind = "switch" => \A c \in 1 .. Len(e.cases) :
           f[e.cases[c].elements] = g[e.cases[c].elements]
    /\ e.kind \in {"field", "array"} /\ IsStruct(e.type) =>
           f[Structs[e.type]] = g[Structs[e.type]]

LEMMA NestedAlike ==
    ASSUME NEW depth, Deeper(depth), NEW f, NEW g, NEW list \in ElementLists,
           \A l \in ElementLists : depth[l] < depth[list] => f[l] = g[l],
           NEW k \in 1 .. Len(list)
    PROVE  Alike(f, g, list[k])
<1> DEFINE e == list[k]
<1>1. /\ e.kind = "chunked" => e.elements \in ElementLists
      /\ e.kind = "switch" => \A c \in 1 .. Len(e.cases) : e.cases[c].elements \in ElementLists
  BY ListsAssumption
<1>2. /\ e.kind = "chunked" => depth[e.elements] < depth[list]
      /\ e.kind = "switch" => \A c \in 1 .. Len(e.cases) :
                                  depth[e.cases[c].elements] < depth[list]
      /\ e.kind \in {"field", "array"} /\ IsStruct(e.type) =>
             depth[Structs[e.type]] < depth[list]
  BY DEF Deeper
<1>3. IsStruct(e.type) => Structs[e.type] \in ElementLists
  BY ListsAssumption DEF IsStruct
<1> HIDE DEF e
<1>4. Alike(f, g, e)
  BY <1>1, <1>2, <1>3 DEF Alike
<1> QED BY <1>4 DEF e

LEMMA CasesOfSwitch ==
    ASSUME NEW e, NEW value
    PROVE  /\ FreedCase(e, value) # None =>
                  \E c \in 1 .. Len(e.cases) : /\ FreedCase(e, value) = e.cases[c]
                                               /\ HasHeap[e.cases[c].elements]
           /\ LuaCase(e, value) # None =>
                  \E c \in 1 .. Len(e.cases) : /\ LuaCase(e, value) = e.cases[c]
                                               /\ HasStorage[e.cases[c].elements]
<1>1. FreedCase(e, value) # None =>
         \E c \in {c \in 1 .. Len(e.cases) : HasHeap[e.cases[c].elements]} :
             FreedCase(e, value) = e.cases[c]
  BY ChosenIsAmong DEF FreedCase
<1>2. LuaCase(e, value) # None =>
         \E c \in {c \in 1 .. Len(e.cases) : HasStorage[e.cases[c].elements]} :
             LuaCase(e, value) = e.cases[c]
  BY ChosenIsAmong DEF LuaCase
<1> QED BY <1>1, <1>2

LEMMA FreeAgrees ==
    ASSUME NEW f, NEW g, NEW e, Alike(f, g, e), NEW where
    PROVE  FreeElement(f, where, e) = FreeElement(g, where, e)
<1>1. CASE e.kind = "chunked"
  BY <1>1 DEF FreeElement, Alike
<1>2. CASE e.kind = "field"
  <2>1. FreeField(f, Field(where, e.name), e) = FreeField(g, Field(where, e.name), e)
    BY <1>2 DEF FreeField, StructHasHeap, Alike
  <2> QED BY <1>2, <2>1 DEF FreeElement
<1>3. CASE e.kind = "array"
  <2>1. StructHasHeap(e.type) => f[Structs[e.type]] = g[Structs[e.type]]
    BY <1>3 DEF StructHasHeap, Alike
  <2>2. FreeItems(f, where, e) = FreeItems(g, where, e)
    BY <2>1 DEF FreeItems
  <2> QED BY <1>3, <2>2 DEF FreeElement, FreeArray
<1>4. CASE e.kind = "switch"
  <2>1. \A value : FreedCase(e, value) # None =>
                       f[FreedCase(e, value).elements] = g[FreedCase(e, value).elements]
    BY <1>4, CasesOfSwitch DEF Alike
  <2>2. FreeSwitch(f, where, e) = FreeSwitch(g, where, e)
    BY <2>1 DEF FreeSwitch
  <2> QED BY <1>4, <2>2 DEF FreeElement
<1>5. CASE e.kind \notin {"chunked", "field", "array", "switch"}
  BY <1>5 DEF FreeElement
<1> QED BY <1>1, <1>2, <1>3, <1>4, <1>5

LEMMA CellsAgree ==
    ASSUME NEW f, NEW g, NEW e, Alike(f, g, e), NEW p, NEW t
    PROVE  ElementCells(f, p, t, e) = ElementCells(g, p, t, e)
<1>1. CASE e.kind = "chunked"
  BY <1>1 DEF ElementCells, Alike
<1>2. CASE e.kind \in {"field", "array"}
  <2>1. \A q, u : IsStruct(e.type) => StructCells(f, q, u, e.type) = StructCells(g, q, u, e.type)
    BY <1>2 DEF StructCells, Alike
  <2>2. CASE e.kind = "field"
    <3>1. FieldCells(f, Field(p, e.name), Field(t, e.name), e)
              = FieldCells(g, Field(p, e.name), Field(t, e.name), e)
      BY <2>1 DEF FieldCells
    <3> QED BY <2>2, <3>1 DEF ElementCells
  <2>3. CASE e.kind = "array"
    <3>1. \A q, u : ItemCells(f, q, u, e) = ItemCells(g, q, u, e)
      BY <2>1 DEF ItemCells
    <3>2. ArrayCells(f, p, t, e) = ArrayCells(g, p, t, e)
      BY <3>1 DEF ArrayCells
    <3> QED BY <2>3, <3>2 DEF ElementCells
  <2> QED BY <1>2, <2>2, <2>3
<1>4. CASE e.kind = "switch"
  <2>1. \A value : LuaCase(e, value) # None =>
                       f[LuaCase(e, value).elements] = g[LuaCase(e, value).elements]
    BY <1>4, CasesOfSwitch DEF Alike
  <2>2. SwitchCells(f, p, t, e) = SwitchCells(g, p, t, e)
    BY <2>1 DEF SwitchCells
  <2> QED BY <1>4, <2>2 DEF ElementCells
<1>5. CASE e.kind \notin {"chunked", "field", "array", "switch"}
  BY <1>5 DEF ElementCells
<1> QED BY <1>1, <1>2, <1>4, <1>5

LEMMA FreedBodyAgrees ==
    ASSUME NEW depth, Deeper(depth), NEW f, NEW g, NEW list \in ElementLists,
           \A l \in ElementLists : depth[l] < depth[list] => f[l] = g[l]
    PROVE  FreedBody(f, list) = FreedBody(g, list)
<1>1. \A k \in 1 .. Len(list) : Alike(f, g, list[k])
  BY NestedAlike
<1>2. \A where : \A k \in 1 .. Len(list) :
         FreeElement(f, where, list[k]) = FreeElement(g, where, list[k])
  BY <1>1, FreeAgrees
<1> QED BY <1>2 DEF FreedBody

LEMMA FreedExists ==
    ASSUME NEW n \in Nat, NEW depth \in [ElementLists -> 0 .. n], Deeper(depth)
    PROVE  \E f : f = [list \in ElementLists |-> FreedBody(f, list)]
<1> DEFINE Solves(f, m) == /\ f = [list \in ElementLists |-> f[list]]
                           /\ \A list \in ElementLists :
                                 depth[list] < m => f[list] = FreedBody(f, list)
           T == {m \in Nat : \E f : Solves(f, m)}
<1>1. 0 \in T
  <2> DEFINE f == [list \in ElementLists |-> 0]
  <2>1. f = [list \in ElementLists |-> f[list]]
    OBVIOUS
  <2>2. \A list \in ElementLists : ~(depth[list] < 0)
    OBVIOUS
  <2> HIDE DEF f
  <2> QED BY <2>1, <2>2
<1>2. ASSUME NEW m \in Nat, m \in T PROVE m + 1 \in T
  <2>1. PICK f : Solves(f, m)
    BY <1>2
  <2> DEFINE g == [list \in ElementLists |->
                      IF depth[list] = m THEN FreedBody(f, list) ELSE f[list]]
  <2>2. g = [list \in ElementLists |-> g[list]]
    OBVIOUS
  <2>3. \A list \in ElementLists :
           g[list] = IF depth[list] = m THEN FreedBody(f, list) ELSE f[list]
    OBVIOUS
  <2> HIDE DEF g
  <2>4. ASSUME NEW list \in ElementLists, depth[list] < m + 1
        PROVE  g[list] = FreedBody(g, list)
    <3>1. \A l \in ElementLists : depth[l] < depth[list] => f[l] = g[l]
      BY <2>3, <2>4
    <3>2. FreedBody(f, list) = FreedBody(g, list)
      BY <3>1, FreedBodyAgrees
    <3>3. depth[list] = m \/ depth[list] < m
      BY <2>4
    <3> QED BY <2>1, <2>3, <3>2, <3>3
  <2>5. Solves(g, m + 1)
    BY <2>2, <2>4
  <2> QED BY <2>5
<1>3. n + 1 \in T
  <2> HIDE DEF T
  <2> QED BY <1>1, <1>2, Counting
<1>4. PICK f : Solves(f, n + 1)
  BY <1>3
<1>5. \A list \in ElementLists : f[list] = FreedBody(f, list)
  BY <1>4
<1>6. f = [list \in ElementLists |-> FreedBody(f, list)]
  BY <1>4, <1>5
<1> QED BY <1>6

LEMMA FreedDef ==
    ASSUME WellNested
    PROVE  \A list \in ElementLists : Freed[list] = FreedBody(Freed, list)
<1>1. \E f : f = [list \in ElementLists |-> FreedBody(f, list)]
  BY FreedExists DEF WellNested
<1>2. Freed = CHOOSE f : f = [list \in ElementLists |-> FreedBody(f, list)]
  BY DEF Freed, FreedBody
<1>3. Freed = [list \in ElementLists |-> FreedBody(Freed, list)]
  BY <1>1, <1>2
<1> HIDE DEF Freed
<1> QED BY <1>3

LEMMA CellsBodyAgrees ==
    ASSUME NEW depth, Deeper(depth), NEW f, NEW g, NEW list \in ElementLists,
           \A l \in ElementLists : depth[l] < depth[list] => f[l] = g[l]
    PROVE  CellsBody(f, list) = CellsBody(g, list)
<1>1. \A k \in 1 .. Len(list) : Alike(f, g, list[k])
  BY NestedAlike
<1>2. \A p, t : \A k \in 1 .. Len(list) :
         ElementCells(f, p, t, list[k]) = ElementCells(g, p, t, list[k])
  BY <1>1, CellsAgree
<1>3. \A p, t : [k \in 1 .. Len(list) |-> ElementCells(f, p, t, list[k])]
                = [k \in 1 .. Len(list) |-> ElementCells(g, p, t, list[k])]
  BY <1>2
<1> QED BY <1>3 DEF CellsBody

LEMMA CellsExists ==
    ASSUME NEW n \in Nat, NEW depth \in [ElementLists -> 0 .. n], Deeper(depth)
    PROVE  \E f : f = [list \in ElementLists |-> CellsBody(f, list)]
<1> DEFINE Solves(f, m) == /\ f = [list \in ElementLists |-> f[list]]
                           /\ \A list \in ElementLists :
                                 depth[list] < m => f[list] = CellsBody(f, list)
           T == {m \in Nat : \E f : Solves(f, m)}
<1>1. 0 \in T
  <2> DEFINE f == [list \in ElementLists |-> 0]
  <2>1. f = [list \in ElementLists |-> f[list]]
    OBVIOUS
  <2>2. \A list \in ElementLists : ~(depth[list] < 0)
    OBVIOUS
  <2> HIDE DEF f
  <2> QED BY <2>1, <2>2
<1>2. ASSUME NEW m \in Nat, m \in T PROVE m + 1 \in T
  <2>1. PICK f : Solves(f, m)
    BY <1>2
  <2> DEFINE g == [list \in ElementLists |->
                      IF depth[list] = m THEN CellsBody(f, list) ELSE f[list]]
  <2>2. g = [list \in ElementLists |-> g[list]]
    OBVIOUS
  <2>3. \A list \in ElementLists :
           g[list] = IF depth[list] = m THEN CellsBody(f, list) ELSE f[list]
    OBVIOUS
  <2> HIDE DEF g
  <2>4. ASSUME NEW list \in ElementLists, depth[list] < m + 1
        PROVE  g[list] = CellsBody(g, list)
    <3>1. \A l \in ElementLists : depth[l] < depth[list] => f[l] = g[l]
      BY <2>3, <2>4
    <3>2. CellsBody(f, list) = CellsBody(g, list)
      BY <3>1, CellsBodyAgrees
    <3>3. depth[list] = m \/ depth[list] < m
      BY <2>4
    <3> QED BY <2>1, <2>3, <3>2, <3>3
  <2>5. Solves(g, m + 1)
    BY <2>2, <2>4
  <2> QED BY <2>5
<1>3. n + 1 \in T
  <2> HIDE DEF T
  <2> QED BY <1>1, <1>2, Counting
<1>4. PICK f : Solves(f, n + 1)
  BY <1>3
<1>5. \A list \in ElementLists : f[list] = CellsBody(f, list)
  BY <1>4
<1>6. f = [list \in ElementLists |-> CellsBody(f, list)]
  BY <1>4, <1>5
<1> QED BY <1>6

LEMMA CellsDef ==
    ASSUME WellNested
    PROVE  \A list \in ElementLists : CellsOf[list] = CellsBody(CellsOf, list)
<1>1. \E f : f = [list \in ElementLists |-> CellsBody(f, list)]
  BY CellsExists DEF WellNested
<1>2. CellsOf = CHOOSE f : f = [list \in ElementLists |-> CellsBody(f, list)]
  BY DEF CellsOf, CellsBody
<1>3. CellsOf = [list \in ElementLists |-> CellsBody(CellsOf, list)]
  BY <1>1, <1>2
<1> HIDE DEF CellsOf
<1> QED BY <1>3

-----------------------------------------------------------------------------
(* Where functions run and pointers lie.  L[list] is the set of the places  *)
(* where a generated function works on the elements of a list.              *)

IsPointer(w, e, p) ==
    \/ /\ e.kind = "field" /\ e.name # None
       /\ Owns(e.type) \/ e.optional
       /\ p = Field(w, e.name)
    \/ /\ e.kind = "array"
       /\ p = Field(w, e.name) \/ (IsString(e.type) /\ \E i : p = Item(w, e.name, i))
    \/ e.kind = "switch" /\ p = Data(w, e)

\* The places of the pointers of all elements.
Pointer(L, p) == \E list \in ElementLists : \E w \in L[list] :
                     \E k \in 1 .. Len(list) : IsPointer(w, list[k], p)

(* A field that owns bytes is what its type says, and the cell of one that  *)
(* owns nothing is no pointer of another element, nor is a blob's length.   *)
TameField(L, w, e) ==
    /\ {"kind", "name", "type", "optional", "override"} \subseteq DOMAIN e
    /\ IsStruct(e.type) => Field(w, e.name) \in L[Structs[e.type]]
    /\ Owns(e.type) => ~IsStruct(e.type) /\ ~IsEnum(e.type)
    /\ FieldNumber(e) = "blob" => ~Pointer(L, Append(Field(w, e.name), "length"))
    /\ ~Owns(e.type) /\ ~IsStruct(e.type) /\ ~e.optional => ~Pointer(L, Field(w, e.name))

TameItems(L, w, e) ==
    /\ {"kind", "name", "type"} \subseteq DOMAIN e
    /\ ItemNumber(e) # "blob"
    /\ IsString(e.type) => ~IsEnum(e.type) /\ ~IsStruct(e.type)
    /\ \A i : IF IsStruct(e.type) THEN Item(w, e.name, i) \in L[Structs[e.type]]
              ELSE IsString(e.type) \/ ~Pointer(L, Item(w, e.name, i))

(* The items of an array are malloc's memory until they are read.  An array *)
(* whose items are all allocated before the first of them is read must not  *)
(* have pointers in them.                                                   *)
TameArray(L, w, e) ==
    /\ "trailing" \in DOMAIN e
    /\ TameItems(L, w, e)
    /\ ~Pointer(L, Count(w, e.name))
    /\ Numbered(e) \/ ~IsStatic(e) =>
           \A i, p : Pointer(L, p) /\ Within(p, Item(w, e.name, i)) =>
               /\ ~Numbered(e)
               /\ IsStruct(e.type) \/ (IsString(e.type) /\ p = Item(w, e.name, i))

(* A case that has nothing to free must not be freed as the default.        *)
TameSwitch(L, w, e) ==
    /\ \A c \in 1 .. Len(e.cases) : LET case == e.cases[c] IN
           /\ HasStorage[case.elements] \/ HasHeap[case.elements] =>
                  CaseAt(w, e, case) \in L[case.elements]
           /\ ~HasStorage[case.elements] => w \in L[case.elements]
    /\ \A value : FreedCase(e, value) \in {None, ChosenCase(e, value)}

Tame(L, w, e) ==
    /\ e.kind = "chunked" => w \in L[e.elements]
    /\ e.kind = "field" /\ e.name # None => TameField(L, w, e)
    /\ e.kind = "array" => TameArray(L, w, e)
    /\ e.kind = "switch" => TameSwitch(L, w, e)

AllTame(L, type) ==
    /\ L \in [ElementLists -> SUBSET Paths]
    /\ << >> \in L[Structs[type]]
    /\ \A list \in ElementLists : \A w \in L[list] : \A k \in 1 .. Len(list) :
           Tame(L, w, list[k])

\* Every pointer that is not null owns a live block.
PointersHeld(L) ==
    \A p \in DOMAIN mem : Pointer(L, p) /\ mem[p] # NULL => p \in heap

NoPointerRaw(L) == \A p, q : Pointer(L, p) /\ q \in raw => ~Within(p, q)

-----------------------------------------------------------------------------
\* What the free functions do then.

FreesHeld(L, list) == \A w \in L[list] : \A f \in Freed[list][w] : ~BadFree(f)

LEMMA PointerIsHeld ==
    ASSUME NEW L, PointersHeld(L), NoPointerRaw(L), NEW p, Pointer(L, p),
           NEW f \in FreePointer(p)
    PROVE  ~BadFree(f)
<1> DEFINE set == Cell(p, NULL) # NULL
<1>0. f = [pointer |-> p, set |-> set]
  BY DEF FreePointer
<1>1. f.pointer = p /\ f.set = set
  <2> HIDE DEF set
  <2> QED BY <1>0
<1>2. Cell(p, NULL) # NULL => p \in DOMAIN mem /\ mem[p] # NULL
  BY DEF Cell, NoPointerRaw
<1>3. f.set => p \in heap
  BY <1>1, <1>2 DEF PointersHeld
<1> QED BY <1>1, <1>3 DEF BadFree

LEMMA ElementIsFreed ==
    ASSUME NEW L, PointersHeld(L), NoPointerRaw(L),
           NEW list \in ElementLists, NEW w \in L[list], NEW k \in 1 .. Len(list),
           Tame(L, w, list[k]),
           list[k].kind = "chunked" => FreesHeld(L, list[k].elements),
           list[k].kind = "switch" => \A c \in 1 .. Len(list[k].cases) :
               FreesHeld(L, list[k].cases[c].elements),
           list[k].kind \in {"field", "array"} /\ IsStruct(list[k].type) =>
               FreesHeld(L, Structs[list[k].type]),
           NEW f \in FreeElement(Freed, w, list[k])
    PROVE  ~BadFree(f)
<1> DEFINE e == list[k]
<1>1. \A p : IsPointer(w, e, p) => Pointer(L, p)
  BY DEF Pointer
<1> HIDE DEF e
<1>2. \A p : IsPointer(w, e, p) /\ f \in FreePointer(p) => ~BadFree(f)
  BY <1>1, PointerIsHeld
<1>3. CASE e.kind = "field"
  <2>1. e.name # None /\ f \in FreeField(Freed, Field(w, e.name), e)
    BY <1>3 DEF FreeElement, e
  <2>2. TameField(L, w, e)
    BY <1>3, <2>1 DEF Tame, e
  <2>3. CASE f \in FreePointer(Field(w, e.name)) /\ (Owns(e.type) \/ e.optional)
    BY <1>2, <1>3, <2>1, <2>3 DEF IsPointer
  <2>4. CASE IsStruct(e.type) /\ f \in Freed[Structs[e.type]][Field(w, e.name)]
    BY <1>3, <2>2, <2>4 DEF TameField, FreesHeld, e
  <2> QED BY <2>1, <2>3, <2>4 DEF FreeField, StructHasHeap, Owns
<1>4. CASE e.kind = "array"
  <2>1. f \in FreeArray(Freed, w, e)
    BY <1>4 DEF FreeElement, e
  <2>2. TameItems(L, w, e)
    BY <1>4 DEF Tame, TameArray, e
  <2>3. CASE f \in FreePointer(Field(w, e.name))
    BY <1>2, <1>4, <2>3 DEF IsPointer
  <2>4. CASE \E i : \/ IsString(e.type) /\ f \in FreePointer(Item(w, e.name, i))
                    \/ IsStruct(e.type) /\ f \in Freed[Structs[e.type]][Item(w, e.name, i)]
    <3>1. PICK i : \/ IsString(e.type) /\ f \in FreePointer(Item(w, e.name, i))
                   \/ IsStruct(e.type) /\ f \in Freed[Structs[e.type]][Item(w, e.name, i)]
      BY <2>4
    <3>2. CASE IsString(e.type) /\ f \in FreePointer(Item(w, e.name, i))
      BY <1>2, <1>4, <3>2 DEF IsPointer
    <3>3. CASE IsStruct(e.type) /\ f \in Freed[Structs[e.type]][Item(w, e.name, i)]
      BY <1>4, <2>2, <3>3 DEF TameItems, FreesHeld, e
    <3> QED BY <3>1, <3>2, <3>3
  <2> QED BY <2>1, <2>3, <2>4 DEF FreeArray, FreeItems, StructHasHeap
<1>5. CASE e.kind = "switch"
  <2> DEFINE value   == Cell(Field(w, e.field), 0)
             entered == ChosenCase(e, value)
             c       == FreedCase(e, value)
  <2>1. f \in FreeSwitch(Freed, w, e)
    BY <1>5 DEF FreeElement, e
  <2>2. TameSwitch(L, w, e)
    BY <1>5 DEF Tame, e
  <2>3. c = None \/ c = entered
    BY <2>2 DEF TameSwitch
  <2>4. CASE f \in FreePointer(Data(w, e))
    BY <1>2, <1>5, <2>4 DEF IsPointer
  <2>5. CASE c # None /\ f \in Freed[c.elements][CaseAt(w, e, c)]
    <3>1. PICK d \in 1 .. Len(e.cases) : c = e.cases[d] /\ HasHeap[e.cases[d].elements]
      BY <2>5, CasesOfSwitch
    <3>2. CaseAt(w, e, c) \in L[c.elements]
      BY <2>2, <3>1 DEF TameSwitch
    <3>3. FreesHeld(L, c.elements)
      BY <1>5, <3>1 DEF e
    <3> QED BY <2>5, <3>2, <3>3 DEF FreesHeld
  <2>6. \/ f \in FreePointer(Data(w, e))
        \/ c # None /\ f \in Freed[c.elements][CaseAt(w, e, c)]
    <3>1. f \in (IF c = None THEN {} ELSE Freed[c.elements][CaseAt(w, e, c)])
                \cup FreePointer(Data(w, e))
      BY <2>1, <2>3 DEF FreeSwitch
    <3> HIDE DEF c
    <3> QED BY <3>1
  <2> QED BY <2>4, <2>5, <2>6
<1>6. CASE e.kind = "chunked"
  <2>1. f \in Freed[e.elements][w]
    BY <1>6 DEF FreeElement, e
  <2>2. w \in L[e.elements]
    BY <1>6 DEF Tame, e
  <2> QED BY <1>6, <2>1, <2>2 DEF FreesHeld, e
<1>7. CASE e.kind \notin {"field", "array", "switch", "chunked"}
  <2>1. FreeElement(Freed, w, e) = {}
    BY <1>7 DEF FreeElement
  <2> QED BY <2>1 DEF e
<1> QED BY <1>3, <1>4, <1>5, <1>6, <1>7

LEMMA FreeIsOfHeld ==
    ASSUME WellNested, NEW L, NEW type \in DOMAIN Structs, AllTame(L, type),
           PointersHeld(L), NoPointerRaw(L)
    PROVE  \A f \in EoFree(type) : ~BadFree(f)
<1>a. PICK n \in Nat : \E d \in [ElementLists -> 0 .. n] : Deeper(d)
  BY DEF WellNested
<1>1. PICK depth \in [ElementLists -> 0 .. n] : Deeper(depth)
  BY <1>a
<1> DEFINE T == {m \in Nat : \A list \in ElementLists : depth[list] < m => FreesHeld(L, list)}
<1>2. 0 \in T
  OBVIOUS
<1>3. ASSUME NEW m \in Nat, m \in T PROVE m + 1 \in T
  <2> SUFFICES ASSUME NEW list \in ElementLists, depth[list] < m + 1,
                      NEW w \in L[list], NEW f \in Freed[list][w]
               PROVE  ~BadFree(f)
    BY DEF FreesHeld
  <2>1. \A l \in ElementLists : depth[l] < depth[list] => FreesHeld(L, l)
    BY <1>3
  <2>2. w \in Paths
    BY DEF AllTame
  <2>3. Freed[list][w] = UNION {FreeElement(Freed, w, list[k]) : k \in 1 .. Len(list)}
    BY <2>2, FreedDef DEF FreedBody
  <2>4. PICK k \in 1 .. Len(list) : f \in FreeElement(Freed, w, list[k])
    BY <2>3
  <2>5. Tame(L, w, list[k])
    BY DEF AllTame
  <2>6. /\ list[k].kind = "chunked" => FreesHeld(L, list[k].elements)
        /\ list[k].kind = "switch" => \A c \in 1 .. Len(list[k].cases) :
               FreesHeld(L, list[k].cases[c].elements)
        /\ list[k].kind \in {"field", "array"} /\ IsStruct(list[k].type) =>
               FreesHeld(L, Structs[list[k].type])
    BY <1>1, <2>1, ListsAssumption DEF Deeper, IsStruct
  <2> QED BY <2>4, <2>5, <2>6, ElementIsFreed
<1>4. n + 1 \in T
  <2> HIDE DEF T
  <2> QED BY <1>2, <1>3, Counting
<1>5. FreesHeld(L, Structs[type]) /\ << >> \in L[Structs[type]]
  BY <1>4, ListsAssumption DEF AllTame
<1> QED BY <1>5 DEF FreesHeld, EoFree

-----------------------------------------------------------------------------
\* The struct that Lua makes of a table: its pointers come with their blocks.

BlocksAre(L, cells) == \A p \in DOMAIN cells : Pointer(L, p) => cells[p].block

CellsHeld(L, list) == \A w \in L[list] : \A t \in Paths : BlocksAre(L, CellsOf[list][w][t])

LEMMA AppendNames ==
    ASSUME NEW S, NEW t \in Seq(S), NEW x \in S, NEW y \in S
    PROVE  Append(t, x) \in Seq(S) /\ t \o <<x, y>> \in Seq(S)
OBVIOUS

LEMMA NameOfPath ==
    ASSUME NEW p \in Paths, NEW n \in 1 .. Len(p)
    PROVE  p[n] \in STRING
BY DEF Paths

LEMMA PathsAlike ==
    ASSUME NEW w \in Paths, NEW t \in Paths, NEW x, NEW y, NEW z
    PROVE  /\ Append(w, x) \in Paths => Append(t, x) \in Paths
           /\ w \o <<x, y>> \in Paths => t \o <<x, y>> \in Paths
           /\ w \o <<x, y>> \o <<z>> \in Paths => t \o <<x, y>> \in Paths
<1>1. ASSUME Append(w, x) \in Paths PROVE Append(t, x) \in Paths
  <2>1. Append(w, x)[Len(w) + 1] = x /\ Len(Append(w, x)) = Len(w) + 1
    BY DEF Paths
  <2>0. Len(w) \in Nat
    BY DEF Paths
  <2> DEFINE p == Append(w, x)
  <2>3. p \in Paths /\ p[Len(w) + 1] = x /\ Len(p) = Len(w) + 1
    BY <1>1, <2>1
  <2> HIDE DEF p
  <2>2. x \in STRING
    BY <2>0, <2>3, NameOfPath
  <2> QED BY <2>2, AppendNames DEF Paths
<1>2. ASSUME w \o <<x, y>> \in Paths PROVE t \o <<x, y>> \in Paths
  <2>1. /\ (w \o <<x, y>>)[Len(w) + 1] = x /\ (w \o <<x, y>>)[Len(w) + 2] = y
        /\ Len(w \o <<x, y>>) = Len(w) + 2
    BY DEF Paths
  <2>0. Len(w) \in Nat
    BY DEF Paths
  <2> DEFINE p == w \o <<x, y>>
  <2>3. p \in Paths /\ p[Len(w) + 1] = x /\ p[Len(w) + 2] = y /\ Len(p) = Len(w) + 2
    BY <1>2, <2>1
  <2> HIDE DEF p
  <2>2. x \in STRING /\ y \in STRING
    BY <2>0, <2>3, NameOfPath
  <2> QED BY <2>2, AppendNames DEF Paths
<1>3. ASSUME w \o <<x, y>> \o <<z>> \in Paths PROVE t \o <<x, y>> \in Paths
  <2>1. /\ (w \o <<x, y>> \o <<z>>)[Len(w) + 1] = x /\ (w \o <<x, y>> \o <<z>>)[Len(w) + 2] = y
        /\ Len(w \o <<x, y>> \o <<z>>) = Len(w) + 3
    BY DEF Paths
  <2>0. Len(w) \in Nat
    BY DEF Paths
  <2> DEFINE p == w \o <<x, y>> \o <<z>>
  <2>3. p \in Paths /\ p[Len(w) + 1] = x /\ p[Len(w) + 2] = y /\ Len(p) = Len(w) + 3
    BY <1>3, <2>1
  <2> HIDE DEF p
  <2>2. x \in STRING /\ y \in STRING
    BY <2>0, <2>3, NameOfPath
  <2> QED BY <2>2, AppendNames DEF Paths
<1> QED BY <1>1, <1>2, <1>3

LEMMA EntriesAreBlocks ==
    ASSUME NEW L, NEW p, NEW value
    PROVE  /\ BlocksAre(L, Block(p, value))
           /\ ~Pointer(L, p) => BlocksAre(L, Plainly(p, value))
           /\ BlocksAre(L, << >>)
<1>1. /\ DOMAIN Block(p, value) = {p} /\ Block(p, value)[p].block
      /\ DOMAIN Plainly(p, value) = {p}
  BY DEF Block, Plainly, Entry
<1>2. DOMAIN << >> = {}
  OBVIOUS
<1> QED BY <1>1, <1>2 DEF BlocksAre

LEMMA WithIsBlocks ==
    ASSUME NEW L, NEW a, NEW b, BlocksAre(L, a), BlocksAre(L, b)
    PROVE  BlocksAre(L, With(a, b))
<1>1. SUFFICES ASSUME NEW p \in DOMAIN With(a, b), Pointer(L, p)
               PROVE  With(a, b)[p].block
  BY DEF BlocksAre
<1>2. CASE p \in DOMAIN a
  <2>1. With(a, b)[p] = a[p]
    BY <1>1, <1>2 DEF With
  <2> QED BY <1>1, <1>2, <2>1 DEF BlocksAre
<1>3. CASE p \notin DOMAIN a
  <2>1. p \in DOMAIN b /\ With(a, b)[p] = b[p]
    BY <1>1, <1>3 DEF With
  <2> QED BY <1>1, <2>1 DEF BlocksAre
<1> QED BY <1>2, <1>3

LEMMA MergedIsBlocks ==
    ASSUME NEW L, NEW parts, \A k \in DOMAIN parts : BlocksAre(L, parts[k])
    PROVE  BlocksAre(L, Merged(parts))
<1>1. SUFFICES ASSUME NEW p \in DOMAIN Merged(parts), Pointer(L, p)
               PROVE  Merged(parts)[p].block
  BY DEF BlocksAre
<1> DEFINE m == CHOOSE k \in DOMAIN parts : p \in DOMAIN parts[k]
<1>2. p \in UNION {DOMAIN parts[k] : k \in DOMAIN parts}
  BY <1>1 DEF Merged
<1>3. m \in DOMAIN parts /\ p \in DOMAIN parts[m]
  <2>1. \E k \in DOMAIN parts : p \in DOMAIN parts[k]
    BY <1>2
  <2> QED BY <2>1
<1>4. Merged(parts)[p] = parts[m][p]
  BY <1>2 DEF Merged
<1> QED BY <1>1, <1>3, <1>4 DEF BlocksAre

LEMMA ItemIsConverted ==
    ASSUME NEW L, NEW w, NEW e, TameItems(L, w, e), NEW i, NEW t \in Paths,
           Item(t, e.name, i) \in Paths \/ ~IsStruct(e.type),
           IsStruct(e.type) => CellsHeld(L, Structs[e.type])
    PROVE  BlocksAre(L, ItemCells(CellsOf, Item(w, e.name, i), Item(t, e.name, i), e))
<1> DEFINE p == Item(w, e.name, i)
           q == Item(t, e.name, i)
<1>1. CASE IsStruct(e.type)
  <2>1. p \in L[Structs[e.type]]
    BY <1>1 DEF TameItems
  <2>2. BlocksAre(L, CellsOf[Structs[e.type]][p][q])
    BY <1>1, <2>1 DEF CellsHeld
  <2> HIDE DEF p, q
  <2>3. BlocksAre(L, StructCells(CellsOf, p, q, e.type))
    BY <2>2, EntriesAreBlocks DEF StructCells
  <2>4. BlocksAre(L, ItemCells(CellsOf, p, q, e))
    BY <1>1, <2>3 DEF ItemCells
  <2> QED BY <2>4 DEF p, q
<1>2. CASE ~IsStruct(e.type)
  <2>1. IsString(e.type) \/ ~Pointer(L, p)
    BY <1>2 DEF TameItems
  <2> HIDE DEF p, q
  <2>2. BlocksAre(L, ItemCells(CellsOf, p, q, e))
    BY <1>2, <2>1, EntriesAreBlocks DEF ItemCells
  <2> QED BY <2>2 DEF p, q
<1> QED BY <1>1, <1>2

LEMMA ElementIsConverted ==
    ASSUME NEW L \in [ElementLists -> SUBSET Paths],
           NEW list \in ElementLists, NEW w \in L[list], NEW t \in Paths,
           NEW k \in 1 .. Len(list), Tame(L, w, list[k]),
           list[k].kind = "chunked" => CellsHeld(L, list[k].elements),
           list[k].kind = "switch" => \A c \in 1 .. Len(list[k].cases) :
               CellsHeld(L, list[k].cases[c].elements),
           list[k].kind \in {"field", "array"} /\ IsStruct(list[k].type) =>
               CellsHeld(L, Structs[list[k].type])
    PROVE  BlocksAre(L, ElementCells(CellsOf, w, t, list[k]))
<1> DEFINE e == list[k]
<1>1. \A p : IsPointer(w, e, p) => Pointer(L, p)
  BY DEF Pointer
<1>2. w \in Paths
  OBVIOUS
<1>3. IsStruct(e.type) => Structs[e.type] \in ElementLists
  BY ListsAssumption DEF IsStruct
<1>4. e.kind = "switch" => \A c \in 1 .. Len(e.cases) : e.cases[c].elements \in ElementLists
  BY ListsAssumption
<1>5. Tame(L, w, e)
  OBVIOUS
<1>6. /\ e.kind = "chunked" => CellsHeld(L, e.elements)
      /\ e.kind = "switch" => \A c \in 1 .. Len(e.cases) : CellsHeld(L, e.cases[c].elements)
      /\ e.kind \in {"field", "array"} /\ IsStruct(e.type) => CellsHeld(L, Structs[e.type])
  OBVIOUS
<1> SUFFICES BlocksAre(L, ElementCells(CellsOf, w, t, e))
  OBVIOUS
<1> HIDE DEF e
<1>7. CASE e.kind = "field"
  <2>1. SUFFICES ASSUME Visible(e)
                 PROVE  BlocksAre(L, FieldCells(CellsOf, Field(w, e.name), Field(t, e.name), e))
    BY <1>7, EntriesAreBlocks DEF ElementCells
  <2> DEFINE p == Field(w, e.name)
             q == Field(t, e.name)
  <2>2. TameField(L, w, e)
    BY <1>5, <1>7, <2>1 DEF Tame, Visible
  <2>3. CASE IsStruct(e.type)
    <3>1. p \in L[Structs[e.type]]
      BY <2>2, <2>3 DEF TameField
    <3>2. q \in Paths
      <4>1. p \in Paths
        BY <1>3, <2>3, <3>1
      <4> QED BY <1>2, <4>1, PathsAlike DEF Field
    <3>3. BlocksAre(L, CellsOf[Structs[e.type]][p][q])
      BY <1>6, <1>7, <2>3, <3>1, <3>2 DEF CellsHeld
    <3> HIDE DEF p, q
    <3>4. BlocksAre(L, StructCells(CellsOf, p, q, e.type))
      BY <3>3, EntriesAreBlocks DEF StructCells
    <3>5. BlocksAre(L, IF e.optional THEN Block(p, 1) ELSE << >>)
      BY EntriesAreBlocks
    <3>6. BlocksAre(L, FieldCells(CellsOf, p, q, e))
      BY <2>3, <3>4, <3>5, WithIsBlocks, EntriesAreBlocks DEF FieldCells
    <3> QED BY <3>6 DEF p, q
  <2>4. CASE e.type = "blob" /\ ~IsStruct(e.type)
    <3>1. FieldNumber(e) = "blob"
      BY <2>2, <2>4 DEF TameField, FieldNumber, Owns
    <3>2. ~Pointer(L, Append(p, "length"))
      BY <2>2, <3>1 DEF TameField
    <3> HIDE DEF p, q
    <3>3. /\ BlocksAre(L, Block(p, table[q]))
          /\ BlocksAre(L, Plainly(Append(p, "length"), Len(table[q])))
      BY <3>2, EntriesAreBlocks
    <3>4. BlocksAre(L, FieldCells(CellsOf, p, q, e))
      BY <2>4, <3>3, WithIsBlocks, EntriesAreBlocks DEF FieldCells
    <3> QED BY <3>4 DEF p, q
  <2>5. CASE e.type # "blob" /\ ~IsStruct(e.type)
    <3>1. ~IsString(e.type) /\ ~e.optional => ~Pointer(L, p)
      BY <2>2, <2>5 DEF TameField, Owns
    <3> HIDE DEF p, q
    <3>2. BlocksAre(L, FieldCells(CellsOf, p, q, e))
      BY <2>5, <3>1, EntriesAreBlocks DEF FieldCells
    <3> QED BY <3>2 DEF p, q
  <2> QED BY <2>3, <2>4, <2>5
<1>8. CASE e.kind = "array"
  <2> DEFINE listed == table[Count(t, e.name)]
             n == IF IsStatic(e) /\ listed > e.length THEN e.length ELSE listed
             parts == [j \in 1 .. n |-> ItemCells(CellsOf, Item(w, e.name, j - 1),
                                                  Item(t, e.name, j - 1), e)]
  <2>1. TameItems(L, w, e) /\ ~Pointer(L, Count(w, e.name))
    BY <1>5, <1>8 DEF Tame, TameArray
  <2>2. ASSUME NEW j \in DOMAIN parts PROVE BlocksAre(L, parts[j])
    <3>1. Item(t, e.name, j - 1) \in Paths \/ ~IsStruct(e.type)
      <4>1. SUFFICES ASSUME IsStruct(e.type) PROVE Item(t, e.name, j - 1) \in Paths
        OBVIOUS
      <4>2. Item(w, e.name, j - 1) \in L[Structs[e.type]]
        BY <2>1, <4>1 DEF TameItems
      <4>3. Item(w, e.name, j - 1) \in Paths
        BY <1>3, <4>1, <4>2
      <4> QED BY <1>2, <4>3, PathsAlike DEF Item
    <3>2. IsStruct(e.type) => CellsHeld(L, Structs[e.type])
      BY <1>6, <1>8
    <3>3. BlocksAre(L, ItemCells(CellsOf, Item(w, e.name, j - 1), Item(t, e.name, j - 1), e))
      BY <2>1, <3>1, <3>2, ItemIsConverted
    <3> QED BY <3>3
  <2>3. BlocksAre(L, Merged(parts))
    <3> HIDE DEF parts
    <3> QED BY <2>2, MergedIsBlocks
  <2>4. /\ BlocksAre(L, Plainly(Count(w, e.name), n))
        /\ BlocksAre(L, IF n > 0 THEN Block(Field(w, e.name), 1) ELSE << >>)
    BY <2>1, EntriesAreBlocks
  <2>5. ElementCells(CellsOf, w, t, e) =
          IF ~Has(Field(t, e.name)) THEN << >>
          ELSE With(IF IsStatic(e) THEN << >>
                    ELSE With(Plainly(Count(w, e.name), n),
                              IF n > 0 THEN Block(Field(w, e.name), 1) ELSE << >>),
                    Merged(parts))
    BY <1>8, Zenon DEF ElementCells, ArrayCells
  <2> HIDE DEF parts, n
  <2>6. BlocksAre(L, IF IsStatic(e) THEN << >>
                     ELSE With(Plainly(Count(w, e.name), n),
                               IF n > 0 THEN Block(Field(w, e.name), 1) ELSE << >>))
    BY <2>4, WithIsBlocks, EntriesAreBlocks
  <2> QED BY <2>3, <2>5, <2>6, WithIsBlocks, EntriesAreBlocks
<1>9. CASE e.kind = "switch"
  <2> DEFINE field == Field(t, e.field)
             c     == LuaCase(e, IF Has(field) THEN table[field] ELSE 0)
  <2>1. TameSwitch(L, w, e)
    BY <1>5, <1>9 DEF Tame
  <2>2. c # None => BlocksAre(L, CellsOf[c.elements][CaseAt(w, e, c)][Data(t, e)])
    <3>1. SUFFICES ASSUME c # None
                   PROVE  BlocksAre(L, CellsOf[c.elements][CaseAt(w, e, c)][Data(t, e)])
      OBVIOUS
    <3>2. PICK d \in 1 .. Len(e.cases) : c = e.cases[d] /\ HasStorage[e.cases[d].elements]
      BY <3>1, CasesOfSwitch
    <3>3. CaseAt(w, e, c) \in L[c.elements]
      BY <2>1, <3>2 DEF TameSwitch
    <3>4. c.elements \in ElementLists
      BY <1>4, <1>9, <3>2
    <3>5. Data(t, e) \in Paths
      <4>1. CaseAt(w, e, c) \in Paths
        BY <3>3, <3>4
      <4> QED BY <1>2, <4>1, PathsAlike DEF CaseAt, Data
    <3>6. CellsHeld(L, c.elements)
      BY <1>6, <1>9, <3>2
    <3> QED BY <3>3, <3>5, <3>6 DEF CellsHeld
  <2>3. ElementCells(CellsOf, w, t, e) =
          IF ~SwitchHasStorage(e) \/ ~Has(Data(t, e)) THEN << >>
          ELSE With(Block(Data(w, e), 1),
                    IF c = None THEN << >> ELSE CellsOf[c.elements][CaseAt(w, e, c)][Data(t, e)])
    BY <1>9, Zenon DEF ElementCells, SwitchCells
  <2> HIDE DEF c
  <2>4. BlocksAre(L, IF c = None THEN << >>
                     ELSE CellsOf[c.elements][CaseAt(w, e, c)][Data(t, e)])
    BY <2>2, EntriesAreBlocks
  <2> QED BY <2>3, <2>4, WithIsBlocks, EntriesAreBlocks
<1>10. CASE e.kind = "chunked"
  <2>1. w \in L[e.elements]
    BY <1>5, <1>10 DEF Tame
  <2> QED BY <1>6, <1>10, <2>1 DEF CellsHeld, ElementCells
<1>11. CASE e.kind \notin {"field", "array", "switch", "chunked"}
  <2>1. ElementCells(CellsOf, w, t, e) = << >>
    BY <1>11 DEF ElementCells
  <2> QED BY <2>1, EntriesAreBlocks
<1> QED BY <1>7, <1>8, <1>9, <1>10, <1>11

LEMMA CellsAreBlocks ==
    ASSUME WellNested, NEW L, NEW type \in DOMAIN Structs, AllTame(L, type)
    PROVE  BlocksAre(L, CellsOf[Structs[type]][<< >>][<< >>])
<1>a. PICK n \in Nat : \E d \in [ElementLists -> 0 .. n] : Deeper(d)
  BY DEF WellNested
<1>1. PICK depth \in [ElementLists -> 0 .. n] : Deeper(depth)
  BY <1>a
<1> DEFINE T == {m \in Nat : \A list \in ElementLists : depth[list] < m => CellsHeld(L, list)}
<1>2. 0 \in T
  OBVIOUS
<1>3. ASSUME NEW m \in Nat, m \in T PROVE m + 1 \in T
  <2> SUFFICES ASSUME NEW list \in ElementLists, depth[list] < m + 1,
                      NEW w \in L[list], NEW t \in Paths
               PROVE  BlocksAre(L, CellsOf[list][w][t])
    BY DEF CellsHeld
  <2>1. \A l \in ElementLists : depth[l] < depth[list] => CellsHeld(L, l)
    BY <1>3
  <2>2. w \in Paths
    BY DEF AllTame
  <2>3. CellsOf[list][w][t] = Merged([k \in 1 .. Len(list) |-> ElementCells(CellsOf, w, t, list[k])])
    <3>1. CellsOf[list] = CellsBody(CellsOf, list)
      BY CellsDef
    <3>2. CellsBody(CellsOf, list)[w][t] =
              Merged([k \in 1 .. Len(list) |-> ElementCells(CellsOf, w, t, list[k])])
      BY <2>2, Zenon DEF CellsBody
    <3> QED BY <3>1, <3>2
  <2>4. ASSUME NEW k \in 1 .. Len(list)
        PROVE  BlocksAre(L, ElementCells(CellsOf, w, t, list[k]))
    <3>1. Tame(L, w, list[k]) /\ L \in [ElementLists -> SUBSET Paths]
      BY DEF AllTame
    <3>2. /\ list[k].kind = "chunked" => CellsHeld(L, list[k].elements)
          /\ list[k].kind = "switch" => \A c \in 1 .. Len(list[k].cases) :
                 CellsHeld(L, list[k].cases[c].elements)
          /\ list[k].kind \in {"field", "array"} /\ IsStruct(list[k].type) =>
                 CellsHeld(L, Structs[list[k].type])
      BY <1>1, <2>1, ListsAssumption DEF Deeper, IsStruct
    <3> QED BY <3>1, <3>2, ElementIsConverted
  <2> DEFINE parts == [k \in 1 .. Len(list) |-> ElementCells(CellsOf, w, t, list[k])]
  <2>5. \A k \in DOMAIN parts : BlocksAre(L, parts[k])
    BY <2>4
  <2> HIDE DEF parts
  <2>6. BlocksAre(L, Merged(parts))
    BY <2>5, MergedIsBlocks
  <2> QED BY <2>3, <2>6 DEF parts
<1>4. n + 1 \in T
  <2> HIDE DEF T
  <2> QED BY <1>2, <1>3, Counting
<1>5. CellsHeld(L, Structs[type]) /\ << >> \in L[Structs[type]]
  BY <1>4, ListsAssumption DEF AllTame
<1>6. << >> \in Paths
  BY DEF Paths
<1> QED BY <1>5, <1>6 DEF CellsHeld
-----------------------------------------------------------------------------
(* The statements of deserialize.  What is left to do fits L; of an optional*)
(* field that has its block already the pointer is in the heap h.           *)

FieldOk(L, h, w, e) ==
    /\ {"kind", "name", "type", "optional", "override"} \subseteq DOMAIN e
    /\ IsStruct(e.type) => Field(w, e.name) \in L[Structs[e.type]]
    /\ Owns(e.type) => ~IsStruct(e.type) /\ ~IsEnum(e.type)
    /\ FieldNumber(e) = "blob" => ~Pointer(L, Append(Field(w, e.name), "length"))
    /\ ~Owns(e.type) /\ ~IsStruct(e.type) /\ ~e.optional =>
           ~Pointer(L, Field(w, e.name)) \/ Field(w, e.name) \in h

ItemOk(L, w, e) ==
    /\ ItemNumber(e) # "blob"
    /\ IsString(e.type) => ~IsEnum(e.type) /\ ~IsStruct(e.type)
    /\ IF IsStruct(e.type) THEN w \in L[Structs[e.type]]
       ELSE IsString(e.type) \/ ~Pointer(L, w)

OkAt(L, h, w, e) ==
    /\ e.kind = "field" /\ e.name # None => FieldOk(L, h, w, e)
    /\ e.kind = "item" => ItemOk(L, w, e)
    /\ e.kind = "loop" => TameItems(L, w, e.array)
    /\ e.kind \in {"chunked", "array", "switch"} => Tame(L, w, e)

AllOk(L, h, t) == \A k \in 1 .. Len(t) : OkAt(L, h, t[k].at, t[k].elem)

LEMMA OkMore ==
    ASSUME NEW L, NEW h, NEW g, h \subseteq g, NEW t, AllOk(L, h, t)
    PROVE  AllOk(L, g, t)
<1> SUFFICES ASSUME NEW k \in 1 .. Len(t)
             PROVE  OkAt(L, g, t[k].at, t[k].elem)
  BY DEF AllOk
<1>1. OkAt(L, h, t[k].at, t[k].elem)
  BY DEF AllOk
<1>2. \A w, e : FieldOk(L, h, w, e) => FieldOk(L, g, w, e)
  BY DEF FieldOk
<1> QED BY Zenon, <1>1, <1>2 DEF OkAt

LEMMA OkNone == \A L, h : AllOk(L, h, << >>)
BY DEF AllOk

LEMMA OkOne ==
    ASSUME NEW L, NEW h, NEW w, NEW e, OkAt(L, h, w, e), NEW scp
    PROVE  AllOk(L, h, <<[at |-> w, elem |-> e, scope |-> scp]>>)
<1> DEFINE s == [at |-> w, elem |-> e, scope |-> scp]
<1>1. s.at = w /\ s.elem = e
  OBVIOUS
<1> HIDE DEF s
<1>2. \A k \in 1 .. Len(<<s>>) : <<s>>[k] = s
  OBVIOUS
<1>3. AllOk(L, h, <<s>>)
  BY <1>1, <1>2 DEF AllOk
<1> QED BY <1>3 DEF s

LEMMA OkJoin ==
    ASSUME NEW L, NEW h, NEW a, NEW b, SoundTodo(a), SoundTodo(b), AllOk(L, h, a), AllOk(L, h, b)
    PROVE  AllOk(L, h, a \o b)
<1> DEFINE A == {a[k] : k \in DOMAIN a}
           B == {b[k] : k \in DOMAIN b}
           j == a \o b
<1>1. a \in Seq(A \cup B) /\ b \in Seq(A \cup B)
  <2>1. a \in Seq(A) /\ b \in Seq(B)
    BY DEF SoundTodo
  <2> HIDE DEF A, B
  <2> QED BY <2>1
<1> HIDE DEF A, B
<1>2. /\ Len(j) = Len(a) + Len(b) /\ Len(a) \in Nat /\ Len(b) \in Nat
      /\ \A k \in 1 .. Len(j) : j[k] = IF k <= Len(a) THEN a[k] ELSE b[k - Len(a)]
  BY <1>1
<1> HIDE DEF j
<1>3. \A k \in 1 .. Len(j) : OkAt(L, h, j[k].at, j[k].elem)
  <2> TAKE k \in 1 .. Len(j)
  <2>1. CASE k <= Len(a)
    <3>1. k \in 1 .. Len(a) /\ j[k] = a[k]
      BY <1>2, <2>1
    <3> QED BY <3>1 DEF AllOk
  <2>2. CASE ~(k <= Len(a))
    <3>1. k - Len(a) \in 1 .. Len(b) /\ j[k] = b[k - Len(a)]
      BY <1>2, <2>2
    <3> QED BY <3>1 DEF AllOk
  <2> QED BY <2>1, <2>2
<1>4. AllOk(L, h, j)
  BY <1>3 DEF AllOk
<1> QED BY <1>4 DEF j

LEMMA OkTail ==
    ASSUME NEW L, NEW h, NEW t, SoundTodo(t), t # << >>, AllOk(L, h, t)
    PROVE  /\ OkAt(L, h, Head(t).at, Head(t).elem)
           /\ AllOk(L, h, Tail(t))
<1> DEFINE T == {t[k] : k \in DOMAIN t}
           u == Tail(t)
<1>1. t \in Seq(T)
  BY DEF SoundTodo
<1> HIDE DEF T
<1>2. /\ Len(u) \in Nat /\ Len(t) = Len(u) + 1 /\ Head(t) = t[1]
      /\ \A k \in 1 .. Len(u) : u[k] = t[k + 1]
  BY <1>1
<1> HIDE DEF u
<1>3. \A k \in 1 .. Len(u) : OkAt(L, h, u[k].at, u[k].elem)
  <2> TAKE k \in 1 .. Len(u)
  <2>1. k + 1 \in 1 .. Len(t) /\ u[k] = t[k + 1]
    BY <1>2
  <2> QED BY <2>1 DEF AllOk
<1>4. 1 \in 1 .. Len(t)
  BY <1>2
<1>5. OkAt(L, h, Head(t).at, Head(t).elem)
  BY <1>2, <1>4 DEF AllOk
<1>6. AllOk(L, h, u)
  BY <1>3 DEF AllOk
<1> QED BY <1>5, <1>6 DEF u

LEMMA TameIsOk ==
    ASSUME NEW L, NEW h, NEW w, NEW e, Tame(L, w, e), e.kind \in Kinds
    PROVE  OkAt(L, h, w, e)
<1>1. e.kind = "field" /\ e.name # None => FieldOk(L, h, w, e)
  BY DEF Tame, TameField, FieldOk
<1>2. e.kind # "item" /\ e.kind # "loop"
  BY DEF Kinds
<1> QED BY <1>1, <1>2 DEF OkAt

LEMMA OkStatements ==
    ASSUME NEW L, NEW type, AllTame(L, type), NEW h, NEW list \in ElementLists, NEW w \in L[list]
    PROVE  AllOk(L, h, Statements(w, list))
<1> DEFINE t == Statements(w, list)
<1>1. Len(list) \in Nat
  BY ListsAssumption
<1>2. /\ Len(t) = Len(list)
      /\ \A k \in 1 .. Len(t) : t[k].at = w /\ t[k].elem = list[k]
  BY <1>1 DEF Statements
<1> HIDE DEF t
<1>3. \A k \in 1 .. Len(t) : OkAt(L, h, t[k].at, t[k].elem)
  <2> TAKE k \in 1 .. Len(t)
  <2>1. k \in 1 .. Len(list) /\ t[k].at = w /\ t[k].elem = list[k]
    BY <1>2
  <2>2. Tame(L, w, list[k]) /\ list[k].kind \in Kinds
    BY <2>1, ListsAssumption DEF AllTame
  <2> QED BY <2>1, <2>2, TameIsOk
<1>4. AllOk(L, h, t)
  BY <1>3 DEF AllOk
<1> QED BY <1>4 DEF t

LEMMA OkLeave ==
    ASSUME NEW L, NEW h, NEW mode
    PROVE  AllOk(L, h, Leave(mode)) /\ AllOk(L, h, Break)
<1>1. /\ OkAt(L, h, << >>, [kind |-> "leave", mode |-> mode])
      /\ OkAt(L, h, << >>, [kind |-> "break"])
  BY DEF OkAt
<1> QED BY <1>1, OkOne DEF Leave, Break, Statement

LEMMA OkFunction ==
    ASSUME NEW L, NEW type, AllTame(L, type), NEW h, NEW list \in ElementLists, NEW w \in L[list],
           NEW mode
    PROVE  AllOk(L, h, Statements(w, list) \o Leave(mode))
BY OkStatements, OkLeave, OkJoin, ListsAreSound, LeaveIsSound

LEMMA OkLoop ==
    ASSUME NEW L, NEW h, NEW w, NEW e, TameItems(L, w, e), NEW n
    PROVE  AllOk(L, h, LoopOver(w, e, n))
<1>1. OkAt(L, h, w, [kind |-> "loop", array |-> e, i |-> 0, n |-> n])
  BY DEF OkAt
<1> QED BY <1>1, OkOne DEF LoopOver, Statement

\* An item of an array, as a statement.
AsItem(e) == [e EXCEPT !.kind = "item"]

LEMMA AsItemIs ==
    ASSUME NEW e, {"kind", "name", "type"} \subseteq DOMAIN e
    PROVE  /\ AsItem(e).kind = "item" /\ AsItem(e).type = e.type
           /\ [e EXCEPT !.kind = "item"] = AsItem(e)
BY DEF AsItem

LEMMA OkItem ==
    ASSUME NEW L, NEW h, NEW w, NEW e, TameItems(L, w, e), NEW i
    PROVE  AllOk(L, h, Statement(Item(w, e.name, i), [e EXCEPT !.kind = "item"]))
<1> DEFINE p == Item(w, e.name, i)
           a == AsItem(e)
<1>1. a.kind = "item" /\ a.type = e.type
  BY AsItemIs DEF TameItems
<1>2. ItemNumber(e) # "blob" /\ (IsString(e.type) => ~IsEnum(e.type) /\ ~IsStruct(e.type))
  BY DEF TameItems
<1>3. IF IsStruct(e.type) THEN p \in L[Structs[e.type]] ELSE IsString(e.type) \/ ~Pointer(L, p)
  BY DEF TameItems
<1> HIDE DEF a, p
<1>4. ItemNumber(a) = ItemNumber(e)
  BY <1>1 DEF ItemNumber
<1>5. ItemOk(L, p, a)
  BY <1>1, <1>2, <1>3, <1>4 DEF ItemOk
<1>6. OkAt(L, h, p, a)
  BY <1>1, <1>5 DEF OkAt
<1>7. AllOk(L, h, Statement(p, a))
  BY <1>6, OkOne DEF Statement
<1> QED BY <1>7 DEF p, a, AsItem

LEMMA OkRound ==
    ASSUME NEW L, NEW h, todo # << >>, Sound(Head(todo)), elem.kind = "loop",
           OkAt(L, h, at, elem)
    PROVE  AllOk(L, h, Round)
<1> DEFINE e    == elem.array
           item == Statement(Item(at, e.name, elem.i), [e EXCEPT !.kind = "item"])
           s    == [Head(todo) EXCEPT !.elem.i = @ + 1]
<1>1. TameItems(L, at, e) /\ "kind" \in DOMAIN e
  BY DEF OkAt, Sound, elem
<1>2. AllOk(L, h, item) /\ SoundTodo(item)
  BY <1>1, OkItem, ItemsAreSound
<1>3. SoundTodo(<<s>>) /\ AllOk(L, h, <<s>>)
  <2> DEFINE b == [elem EXCEPT !.i = @ + 1]
  <2>1. Head(todo) = [at |-> Head(todo).at, elem |-> elem, scope |-> Head(todo).scope]
    BY DEF Sound, elem
  <2>2. s = [at |-> at, elem |-> b, scope |-> Head(todo).scope]
    BY <2>1 DEF at
  <2>3. /\ {"kind", "array"} \subseteq DOMAIN elem
        /\ b.kind = elem.kind /\ b.array = elem.array /\ DOMAIN b = DOMAIN elem
    BY DEF Sound, elem
  <2> HIDE DEF b
  <2>4. OkAt(L, h, at, b)
    BY <1>1, <2>3 DEF OkAt
  <2>5. Sound(s)
    BY <1>1, <2>2, <2>3 DEF Sound
  <2> HIDE DEF s
  <2> QED BY <2>2, <2>4, <2>5, OkOne, OneIsSound
<1>4. Round = IF ~(elem.i < elem.n) THEN << >>
              ELSE IF ~e.delimited THEN item \o <<s>>
              ELSE IF e.trailing THEN item \o Break \o <<s>>
              ELSE IF elem.i > 0 THEN Break \o item \o <<s>> ELSE item \o <<s>>
  BY DEF Round
<1> HIDE DEF item, s, e
<1>5. /\ SoundTodo(item \o Break) /\ AllOk(L, h, item \o Break)
      /\ SoundTodo(Break \o item) /\ AllOk(L, h, Break \o item)
  BY <1>2, BreakIsSound, OkLeave, JoinIsSound, OkJoin
<1>6. /\ AllOk(L, h, item \o <<s>>)
      /\ AllOk(L, h, item \o Break \o <<s>>)
      /\ AllOk(L, h, Break \o item \o <<s>>)
  BY <1>2, <1>3, <1>5, OkJoin
<1> QED BY <1>4, <1>6, OkNone

LEMMA OkGoesOn ==
    ASSUME NEW L, SoundTodo(todo), todo # << >>, EndsWith(todo, FALSE), AllOk(L, heap, todo),
           heap \subseteq heap',
           \/ todo' = << >>
           \/ todo' = Tail(todo)
           \/ \E q : SoundTodo(q) /\ AllOk(L, heap', q) /\ todo' = q \o Tail(todo)
    PROVE  AllOk(L, heap', todo')
<1>1. SoundTodo(Tail(todo)) /\ AllOk(L, heap', Tail(todo))
  BY TailIsSound, OkTail, OkMore
<1> QED BY <1>1, OkNone, OkJoin
-----------------------------------------------------------------------------
(* An item of an array that grows is raw memory until the next step, which  *)
(* clears a struct; a text replaces the pointer, because no string function *)
(* fails in chunked mode without a null pointer.                            *)

IsPending(p, q) ==
    /\ todo # << >> /\ elem.kind = "item" /\ at = q
    /\ IsStruct(elem.type) \/ (IsString(elem.type) /\ p = q /\ reader.chunked)

RawIsPending(L) == \A p, q : Pointer(L, p) /\ q \in raw /\ Within(p, q) => IsPending(p, q)

Safely(L) == PointersHeld(L) /\ RawIsPending(L) /\ AllOk(L, heap, todo)

LEMMA NothingIsPending ==
    ASSUME NEW L, RawIsPending(L), todo = << >> \/ elem.kind # "item"
    PROVE  NoPointerRaw(L)
BY DEF RawIsPending, IsPending, NoPointerRaw

LEMMA StepReceives ==
    ASSUME NEW L, SoundTodo(todo), todo # << >>, EndsWith(todo, FALSE), Safely(L),
           PointersHeld(L)', NoPointerRaw(L)', heap \subseteq heap',
           \/ todo' = << >>
           \/ todo' = Tail(todo)
           \/ \E q : SoundTodo(q) /\ AllOk(L, heap', q) /\ todo' = q \o Tail(todo)
    PROVE  Safely(L)'
<1>1. AllOk(L, heap', todo')
  BY Zenon, OkGoesOn DEF Safely
<1>2. RawIsPending(L)'
  BY DEF NoPointerRaw, RawIsPending
<1> QED BY <1>1, <1>2 DEF Safely

LEMMA QuietReceives ==
    ASSUME NEW L, SoundTodo(todo), todo # << >>, EndsWith(todo, FALSE), Safely(L),
           elem.kind # "item", mem' = mem, heap' = heap, raw' = raw,
           \/ todo' = << >>
           \/ todo' = Tail(todo)
           \/ \E q : SoundTodo(q) /\ AllOk(L, heap, q) /\ todo' = q \o Tail(todo)
    PROVE  Safely(L)'
<1>1. NoPointerRaw(L)
  BY NothingIsPending DEF Safely
<1>2. PointersHeld(L)' /\ NoPointerRaw(L)'
  BY <1>1 DEF Safely, PointersHeld, NoPointerRaw
<1> QED BY Zenon, <1>2, StepReceives

LEMMA NullInCell == \A type : Owns(type) => InCell(type, NULL) = NULL
BY DEF Owns, InCell, AsText, IsString

LEMMA IntoHeld ==
    ASSUME NEW L, PointersHeld(L), NEW p, NEW type, NEW ret, ReadInto(p, type, ret),
           Pointer(L, p) => p \in heap \/ Owns(type),
           type = "blob" => ~Pointer(L, Append(p, "length")),
           \A r, q : Pointer(L, r) /\ q \in raw /\ Within(r, q) =>
                         q = p /\ ret.result # "EO_BUFFER_UNDERRUN"
    PROVE  PointersHeld(L)' /\ NoPointerRaw(L)' /\ heap \subseteq heap'
<1>1. CASE ret.result = "EO_BUFFER_UNDERRUN"
  <2>1. mem' = mem /\ heap' = heap /\ raw' = raw
    BY <1>1 DEF ReadInto
  <2> QED BY <1>1, <2>1 DEF PointersHeld, NoPointerRaw
<1>2. CASE ret.result # "EO_BUFFER_UNDERRUN"
  <2> DEFINE base == IF type = "blob" /\ ret.result = "EO_SUCCESS"
                     THEN Assigned(mem, Append(p, "length"), Remaining(reader)) ELSE mem
  <2>1. /\ mem' = Assigned(base, p, InCell(type, ret.value))
        /\ heap' = IF Owns(type) /\ ret.value # NULL THEN Owned({p}) ELSE heap
        /\ raw' = raw \ {p}
    BY <1>2 DEF ReadInto
  <2>2. heap \subseteq heap' /\ (Owns(type) /\ ret.value # NULL => p \in heap')
    BY <2>1 DEF Owned
  <2>3. NoPointerRaw(L)'
    BY <1>2, <2>1 DEF NoPointerRaw
  <2>4. \A q \in DOMAIN base : Pointer(L, q) => q \in DOMAIN mem /\ base[q] = mem[q]
    BY DEF Assigned
  <2> HIDE DEF base
  <2>5. DOMAIN mem' = DOMAIN base \cup {p} /\ mem'[p] = InCell(type, ret.value)
    BY <2>1 DEF Assigned
  <2>6. \A q \in DOMAIN base : q # p => mem'[q] = base[q]
    BY <2>1 DEF Assigned
  <2>7. ASSUME NEW q \in DOMAIN mem', Pointer(L, q), mem'[q] # NULL
        PROVE  q \in heap'
    <3>1. CASE q = p
      <4>1. CASE Owns(type) /\ p \notin heap
        <5>1. ret.value # NULL
          BY <2>5, <2>7, <3>1, <4>1, NullInCell
        <5> QED BY <2>2, <3>1, <4>1, <5>1
      <4> QED BY <2>2, <2>7, <3>1, <4>1
    <3>2. CASE q # p
      <4>1. q \in DOMAIN mem /\ mem'[q] = mem[q]
        BY <2>4, <2>5, <2>6, <2>7, <3>2
      <4> QED BY <2>2, <2>7, <4>1 DEF PointersHeld
    <3> QED BY <3>1, <3>2
  <2> QED BY <2>2, <2>3, <2>7 DEF PointersHeld
<1> QED BY <1>1, <1>2

LEMMA WithinItself == \A p \in Paths : Within(p, p)
BY DEF Within, Paths, Seqs!IsPrefix

LEMMA EnterReceives ==
    ASSUME NEW L, NEW whole, AllTame(L, whole),
           SoundTodo(todo), todo # << >>, EndsWith(todo, FALSE), Safely(L),
           NEW p, NEW type, IsStruct(type), p \in L[Structs[type]],
           NEW blocks, EnterStruct(p, type, blocks),
           \A r, q : Pointer(L, r) /\ q \in raw /\ Within(r, q) => q = p
    PROVE  Safely(L)'
<1> DEFINE st == Statements(p, Structs[type]) \o Leave(reader.chunked)
<1>1. Structs[type] \in ElementLists
  BY ListsAssumption DEF IsStruct
<1>2. SoundTodo(st) /\ AllOk(L, heap', st)
  BY <1>1, FunctionsAreSound, OkFunction
<1>3. /\ todo' = st \o Tail(todo)
      /\ mem' = [q \in blocks \cup {q \in DOMAIN mem : ~Within(q, p)} |->
                    IF q \in blocks THEN 1 ELSE mem[q]]
      /\ heap' = Owned(blocks)
      /\ raw' = {q \in raw : ~Within(q, p)}
  BY DEF EnterStruct, Unfold
<1> HIDE DEF st
<1>4. heap \subseteq heap' /\ blocks \subseteq heap'
  BY <1>3 DEF Owned
<1>5. p \in Paths
  BY <1>1 DEF AllTame
<1>6. NoPointerRaw(L)'
  BY <1>3, <1>5, WithinItself DEF NoPointerRaw
<1>7. PointersHeld(L)'
  BY <1>3, <1>4 DEF Safely, PointersHeld
<1> QED BY Zenon, <1>2, <1>3, <1>4, <1>6, <1>7, StepReceives

\* Texts are added to an array one by one only in chunked mode.
TextsInChunks ==
    todo # << >> /\ elem.kind = "array" /\ ~IsStatic(elem) /\ ~Numbered(elem)
        /\ IsString(elem.type)
    => reader.chunked

LEMMA TextsAreRead ==
    ASSUME NEW type, IsString(type), reader.chunked, NEW alloc
    PROVE  GetTyped(type, alloc).result # "EO_BUFFER_UNDERRUN"
<1>1. \A value : Returned(reader, "EO_SUCCESS", value).result = "EO_SUCCESS"
  BY DEF Returned
<1>2. \A n, value : Allocated(reader, n, alloc, value).result \in {"EO_SUCCESS", "EO_ALLOC_FAILED"}
  BY DEF Allocated, Returned
<1>3. \A n : /\ GetFixedString(reader, n, alloc).result # "EO_BUFFER_UNDERRUN"
             /\ GetFixedEncodedString(reader, n, alloc).result # "EO_BUFFER_UNDERRUN"
  BY <1>1, <1>2 DEF GetFixedString, GetFixedEncodedString, Underrun
<1>4. /\ GetString(reader, alloc).result # "EO_BUFFER_UNDERRUN"
      /\ GetEncodedString(reader, alloc).result # "EO_BUFFER_UNDERRUN"
  BY <1>1, <1>3 DEF GetString, GetEncodedString
<1>5. CASE type = "string"
  <2>1. GetTyped(type, alloc) = GetString(reader, alloc)
    BY <1>5 DEF GetTyped
  <2> QED BY <1>4, <2>1
<1>6. CASE type = "encoded_string"
  <2>1. GetTyped(type, alloc) = GetEncodedString(reader, alloc)
    BY <1>6 DEF GetTyped
  <2> QED BY <1>4, <2>1
<1> QED BY <1>5, <1>6 DEF IsString

LEMMA StepIsSafe ==
    ASSUME ModesInv, running = "deserialize", TextsInChunks,
           NEW L, NEW type, AllTame(L, type), Safely(L), DeserializeStep
    PROVE  Safely(L)'
<1>1. SoundTodo(todo) /\ EndsWith(todo, FALSE)
  BY Zenon DEF ModesInv, CallsReturn
<1>2. todo # << >> => Sound(Head(todo)) /\ OkAt(L, heap, at, elem)
  BY Zenon, <1>1, TailIsSound, OkTail DEF Safely, at, elem
<1>3. PointersHeld(L) /\ RawIsPending(L)
  BY DEF Safely
<1>4. ASSUME NEW st, todo # << >>, elem.kind # "item", SoundTodo(st), AllOk(L, heap, st),
             Unfold(st), UNCHANGED <<mem, heap, raw>>
      PROVE  Safely(L)'
  <2>1. todo' = st \o Tail(todo)
    BY <1>4 DEF Unfold
  <2> QED BY Zenon, <1>1, <1>4, <2>1, QuietReceives
<1>5. ASSUME todo # << >>, elem.kind # "item", UNCHANGED <<mem, heap, raw>>,
             todo' = Tail(todo) \/ (\E error : Fail(error))
      PROVE  Safely(L)'
  <2>1. todo' = << >> \/ todo' = Tail(todo)
    BY <1>5 DEF Fail
  <2> QED BY Zenon, <1>1, <1>5, <2>1, QuietReceives
<1>6. ASSUME NEW what, Crash(what)
      PROVE  Safely(L)'
  BY <1>6 DEF Crash, memory, Safely, PointersHeld, RawIsPending, IsPending, AllOk, elem, at
<1>7. todo # << >> /\ elem.kind # "item" => NoPointerRaw(L)
  BY <1>3, NothingIsPending
<1>8. CASE ReadChunked
  <2>1. /\ todo # << >> /\ elem.kind = "chunked" /\ UNCHANGED <<mem, heap, raw>>
        /\ todo' = Statements(at, elem.elements) \o Tail(todo)
    BY <1>8 DEF ReadChunked, Now, memory
  <2>2. elem.elements \in ElementLists /\ at \in L[elem.elements]
    BY <1>2, <2>1 DEF Sound, elem, at, OkAt, Tame
  <2>3. SoundTodo(Statements(at, elem.elements)) /\ AllOk(L, heap, Statements(at, elem.elements))
    BY <2>2, ListsAreSound, OkStatements
  <2> QED BY Zenon, <1>1, <2>1, <2>3, QuietReceives
<1>9. CASE ReadBreak
  <2>1. /\ todo # << >> /\ elem.kind = "break" /\ UNCHANGED <<mem, heap, raw>>
        /\ todo' = Tail(todo) \/ Fail("EO_CHUNKED_MODE_DISABLED")
    BY <1>9 DEF ReadBreak, Now, memory
  <2> QED BY <1>5, <2>1
<1>10. CASE ReadLength
  <2> DEFINE ret == GetTyped(elem.type, TRUE)
  <2>1. /\ todo # << >> /\ elem.kind = "length" /\ UNCHANGED <<mem, heap, raw>>
        /\ todo' = Tail(todo) \/ Fail(ret.result)
    BY Zenon, <1>10 DEF ReadLength, Now
  <2> HIDE DEF ret
  <2> QED BY <1>5, <2>1
<1>11. CASE SkipOptional
  <2>1. /\ todo # << >> /\ elem.kind # "item" /\ UNCHANGED <<mem, heap, raw>>
        /\ Unfold(<< >>)
    BY <1>11 DEF SkipOptional, Now, memory
  <2> QED BY Zenon, <1>4, <2>1, EmptyIsSound, OkNone
<1>12. ASSUME NEW n, todo # << >>, elem.kind = "array"
       PROVE  SoundTodo(ItemsToRead(elem, n)) /\ \A h : AllOk(L, h, ItemsToRead(elem, n))
  <2>1. TameItems(L, at, elem) /\ "trailing" \in DOMAIN elem
    BY <1>2, <1>12 DEF OkAt, Tame, TameArray
  <2> DEFINE e == [elem EXCEPT !.trailing = TRUE]
  <2>2. "kind" \in DOMAIN elem
    BY <2>1 DEF TameItems
  <2>3. /\ DOMAIN e = DOMAIN elem /\ e.kind = elem.kind /\ e.name = elem.name
        /\ e.type = elem.type
    BY <2>1 DEF TameItems
  <2> HIDE DEF e
  <2>4. TameItems(L, at, e)
    BY <2>1, <2>3, Zenon DEF TameItems, ItemNumber
  <2>5. ItemsToRead(elem, n) \in {LoopOver(at, elem, n), LoopOver(at, e, n)}
    BY DEF ItemsToRead, e
  <2>6. "kind" \in DOMAIN e
    BY <2>2, <2>3
  <2>7. /\ SoundTodo(LoopOver(at, elem, n)) /\ SoundTodo(LoopOver(at, e, n))
        /\ \A h : AllOk(L, h, LoopOver(at, elem, n)) /\ AllOk(L, h, LoopOver(at, e, n))
    BY Zenon, <2>1, <2>2, <2>4, <2>6, LoopsAreSound, OkLoop
  <2> QED BY <2>5, <2>7
<1>13. CASE ReadStaticArray
  <2>1. /\ todo # << >> /\ elem.kind = "array" /\ UNCHANGED <<mem, heap, raw>>
        /\ Unfold(ItemsToRead(elem, elem.length))
    BY <1>13 DEF ReadStaticArray, Now, memory
  <2> QED BY Zenon, <1>4, <1>12, <2>1
<1>14. CASE ReadItems
  <2>1. todo # << >> /\ elem.kind = "loop" /\ Unfold(Round) /\ UNCHANGED <<mem, heap, raw>>
    BY <1>14 DEF ReadItems, Now, memory
  <2>2. SoundTodo(Round) /\ AllOk(L, heap, Round)
    BY Zenon, <1>2, <2>1, RoundsAreSound, OkRound
  <2> QED BY Zenon, <1>4, <2>1, <2>2
<1>15. CASE LastItemRead
  <2>1. /\ todo # << >> /\ elem.kind = "array" /\ UNCHANGED <<mem, heap, raw>>
        /\ Unfold(<< >>)
    BY <1>15 DEF LastItemRead, Now, memory
  <2> QED BY Zenon, <1>4, <2>1, EmptyIsSound, OkNone
<1>16. CASE LeaveDeserialize
  <2>1. /\ todo # << >> /\ elem.kind = "leave" /\ UNCHANGED <<mem, heap, raw>>
        /\ todo' = Tail(todo)
    BY <1>16 DEF LeaveDeserialize, Now, memory
  <2> QED BY <1>5, <2>1
<1>17. ASSUME NEW alloc \in Allocations, ReadLiteral(alloc)
       PROVE  Safely(L)'
  <2> DEFINE ret == GetTyped(FieldNumber(elem), alloc)
  <2>1. /\ todo # << >> /\ elem.kind # "item" /\ UNCHANGED <<mem, heap, raw>>
        /\ todo' = Tail(todo) \/ Fail(ret.result) \/ Fail("EO_INVALID_DATA")
    BY <1>17 DEF ReadLiteral, Literal, memory
  <2> HIDE DEF ret
  <2> QED BY <1>5, <2>1
<1>18. todo # << >> /\ elem.kind = "field" /\ ~Literal => FieldOk(L, heap, at, elem)
  BY <1>2 DEF OkAt, Literal
<1>19. ASSUME NEW alloc \in Allocations, ReadStructField(alloc)
       PROVE  Safely(L)'
  <2>1. /\ todo # << >> /\ elem.kind = "field" /\ ~Literal /\ IsStruct(elem.type)
        /\ \/ EnterStruct(path, elem.type, {})
           \/ EnterStruct(path, elem.type, {path})
           \/ Crash("write through a null pointer")
    BY Zenon, <1>19 DEF ReadStructField, Now
  <2>2. path \in L[Structs[elem.type]]
    BY <1>18, <2>1 DEF FieldOk, path
  <2>3. \A r, q : Pointer(L, r) /\ q \in raw /\ Within(r, q) => q = path
    BY <1>7, <2>1 DEF NoPointerRaw
  <2> QED BY Zenon, <1>1, <1>6, <2>1, <2>2, <2>3, EnterReceives
<1>20. ASSUME NEW p, NEW t, NEW ret, todo # << >>, ReadInto(p, t, ret),
              PointersHeld(L)', NoPointerRaw(L)', heap \subseteq heap'
       PROVE  Safely(L)'
  <2>1. todo' = << >> \/ todo' = Tail(todo)
    BY <1>20 DEF ReadInto, Fail
  <2> QED BY Zenon, <1>1, <1>20, <2>1, StepReceives
<1>21. ASSUME NEW alloc \in Allocations, ReadField(alloc)
       PROVE  Safely(L)'
  <2> DEFINE ret == IF IsString(elem.type) /\ IsStatic(elem)
                    THEN GetFixed(elem.type, elem.length, alloc)
                    ELSE IF IsString(elem.type) /\ IsCounted(elem)
                    THEN GetFixed(elem.type, locals[Field(at, elem.counter)], alloc)
                    ELSE GetTyped(FieldNumber(elem), alloc)
  <2>1. /\ todo # << >> /\ elem.kind = "field" /\ ~Literal /\ ~IsStruct(elem.type)
        /\ ~elem.optional /\ ReadInto(path, FieldNumber(elem), ret)
    BY <1>21 DEF ReadField, Now
  <2>2. FieldOk(L, heap, at, elem)
    BY <1>18, <2>1
  <2>3. Owns(elem.type) => Owns(FieldNumber(elem))
    BY <2>2 DEF FieldOk, FieldNumber
  <2>4. Pointer(L, path) => path \in heap \/ Owns(FieldNumber(elem))
    BY <2>1, <2>2, <2>3 DEF FieldOk, path
  <2>5. FieldNumber(elem) = "blob" => ~Pointer(L, Append(path, "length"))
    BY <2>2 DEF FieldOk, path
  <2>6. \A r, q : Pointer(L, r) /\ q \in raw => ~Within(r, q)
    BY <1>7, <2>1 DEF NoPointerRaw
  <2> HIDE DEF ret
  <2>7. PointersHeld(L)' /\ NoPointerRaw(L)' /\ heap \subseteq heap'
    BY Zenon, <1>3, <2>1, <2>4, <2>5, <2>6, IntoHeld
  <2> QED BY Zenon, <1>20, <2>1, <2>7
<1>22. ASSUME NEW alloc \in Allocations, ReadOptionalField(alloc)
       PROVE  Safely(L)'
  <2> DEFINE s == [Head(todo) EXCEPT !.elem.optional = FALSE]
             e == [elem EXCEPT !.optional = FALSE]
  <2>1. todo # << >> /\ elem.kind = "field" /\ ~Literal /\ ~IsStruct(elem.type)
    BY Zenon, <1>22 DEF ReadOptionalField, Now
  <2>2. \/ /\ todo' = <<s>> \o Tail(todo) /\ raw' = raw
           /\ mem' = Assigned(mem, path, IF alloc THEN Garbage ELSE NULL)
           /\ heap' = IF alloc THEN Owned({path}) ELSE heap
           /\ alloc \/ Owns(elem.type)
        \/ Crash("write through a null pointer")
        \/ Fail("EO_NULL_PTR") /\ UNCHANGED <<mem, heap, raw>>
    BY Zenon, <1>22 DEF ReadOptionalField, memory
  <2>3. NoPointerRaw(L) /\ FieldOk(L, heap, at, elem)
    BY <1>7, <1>18, <2>1
  <2>4. CASE Crash("write through a null pointer")
    BY <1>6, <2>4
  <2>5. CASE Fail("EO_NULL_PTR") /\ UNCHANGED <<mem, heap, raw>>
    BY <1>5, <2>1, <2>5
  <2>6. CASE /\ todo' = <<s>> \o Tail(todo) /\ raw' = raw
             /\ mem' = Assigned(mem, path, IF alloc THEN Garbage ELSE NULL)
             /\ heap' = IF alloc THEN Owned({path}) ELSE heap
             /\ alloc \/ Owns(elem.type)
    <3>1. heap \subseteq heap' /\ (alloc => path \in heap')
      BY <2>6 DEF Owned
    <3>2. PointersHeld(L)'
      <4>1. ASSUME NEW q \in DOMAIN mem', Pointer(L, q), mem'[q] # NULL
            PROVE  q \in heap'
        <5>1. CASE q = path
          <6>1. alloc
            BY <2>6, <4>1, <5>1 DEF Assigned
          <6> QED BY <3>1, <5>1, <6>1
        <5>2. CASE q # path
          <6>1. q \in DOMAIN mem /\ mem'[q] = mem[q]
            BY <2>6, <5>2 DEF Assigned
          <6> QED BY <1>3, <3>1, <4>1, <6>1 DEF PointersHeld
        <5> QED BY <5>1, <5>2
      <4> QED BY <4>1 DEF PointersHeld
    <3>3. NoPointerRaw(L)'
      BY <2>3, <2>6 DEF NoPointerRaw
    <3>4. s = [at |-> at, elem |-> e, scope |-> Head(todo).scope]
      <4>1. Head(todo) = [at |-> Head(todo).at, elem |-> elem, scope |-> Head(todo).scope]
        BY Zenon, <1>2, <2>1 DEF Sound, elem
      <4>2. s = [Head(todo) EXCEPT !.elem = e]
        BY DEF elem
      <4> HIDE DEF e, s
      <4>3. \A h : h = [at |-> h.at, elem |-> elem, scope |-> h.scope]
              => [h EXCEPT !.elem = e] = [at |-> h.at, elem |-> e, scope |-> h.scope]
        OBVIOUS
      <4>4. s = [at |-> Head(todo).at, elem |-> e, scope |-> Head(todo).scope]
        BY <4>1, <4>2, <4>3
      <4> QED BY <4>4 DEF at
    <3>5. /\ DOMAIN e = DOMAIN elem /\ e.kind = elem.kind /\ e.name = elem.name
          /\ e.type = elem.type /\ e.override = elem.override
      BY <2>3 DEF FieldOk
    <3>6. "kind" \in DOMAIN elem
      BY <2>3 DEF FieldOk
    <3> HIDE DEF e, s
    <3>7. FieldOk(L, heap', at, e)
      <4>1. FieldNumber(e) = FieldNumber(elem)
        BY <3>5 DEF FieldNumber
      <4>2. /\ {"kind", "name", "type", "optional", "override"} \subseteq DOMAIN e
            /\ IsStruct(e.type) => Field(at, e.name) \in L[Structs[e.type]]
            /\ Owns(e.type) => ~IsStruct(e.type) /\ ~IsEnum(e.type)
            /\ FieldNumber(e) = "blob" => ~Pointer(L, Append(Field(at, e.name), "length"))
        BY Zenon, <2>3, <3>5, <4>1 DEF FieldOk
      <4>3. ~Owns(e.type) => Field(at, e.name) \in heap'
        BY <2>6, <3>1, <3>5 DEF path
      <4> QED BY Zenon, <4>2, <4>3 DEF FieldOk
    <3>8. OkAt(L, heap', at, e)
      BY <2>1, <3>5, <3>7 DEF OkAt
    <3>9. Sound(s)
      BY <2>1, <3>4, <3>5, <3>6 DEF Sound
    <3>10. SoundTodo(<<s>>) /\ AllOk(L, heap', <<s>>)
      BY <3>4, <3>8, <3>9, OkOne, OneIsSound
    <3> QED BY Zenon, <1>1, <2>1, <2>6, <3>1, <3>2, <3>3, <3>10, StepReceives
  <2> QED BY <2>2, <2>4, <2>5, <2>6
<1>23. todo # << >> /\ elem.kind = "array" => TameArray(L, at, elem) /\ NoPointerRaw(L)
  BY <1>2, <1>7 DEF OkAt, Tame
<1>24. \A cells, p, value, q : /\ q \in DOMAIN Assigned(cells, p, value) /\ q # p
                              => q \in DOMAIN cells /\ Assigned(cells, p, value)[q] = cells[q]
  BY DEF Assigned
<1>25. ASSUME NEW alloc \in Allocations, ReadNumberedArray(alloc)
       PROVE  Safely(L)'
  <2> DEFINE n     == NumberOfItems(elem)
             count == Count(at, elem.name)
             items == {Item(at, elem.name, i) : i \in 0 .. n - 1}
  <2>1. todo # << >> /\ elem.kind = "array" /\ Numbered(elem)
    BY <1>25 DEF ReadNumberedArray, Now
  <2>2. \/ /\ Fail("EO_ALLOC_FAILED") /\ heap' = heap
           /\ mem' = mem \/ mem' = Assigned(mem, count, n)
           /\ raw' = raw \/ raw' = raw \cup items
        \/ /\ Unfold(ItemsToRead(elem, n))
           /\ mem' = Assigned(Assigned(mem, path, IF n > 0 THEN 1 ELSE NULL), count, n)
           /\ heap' = IF n > 0 THEN Owned({path}) ELSE heap
           /\ raw' = raw \cup items
    BY Zenon, <1>25 DEF ReadNumberedArray
  <2>3. /\ ~Pointer(L, count)
        /\ \A p, q : Pointer(L, p) /\ q \in items => ~Within(p, q)
    BY Zenon, <1>23, <2>1 DEF TameArray
  <2> HIDE DEF n, count, items
  <2>4. NoPointerRaw(L) /\ (raw' = raw \/ raw' = raw \cup items)
    BY Zenon, <1>23, <2>1, <2>2
  <2>5. NoPointerRaw(L)'
    BY <2>3, <2>4 DEF NoPointerRaw
  <2>6. CASE /\ Fail("EO_ALLOC_FAILED") /\ heap' = heap
             /\ mem' = mem \/ mem' = Assigned(mem, count, n)
    <3>1. \A q \in DOMAIN mem' : q # count => q \in DOMAIN mem /\ mem'[q] = mem[q]
      BY <1>24, <2>6
    <3>2. PointersHeld(L)'
      BY <1>3, <2>3, <2>6, <3>1 DEF PointersHeld
    <3>3. todo' = << >> /\ heap \subseteq heap'
      BY <2>6 DEF Fail
    <3> QED BY Zenon, <1>1, <2>1, <2>5, <3>2, <3>3, StepReceives
  <2>7. CASE /\ Unfold(ItemsToRead(elem, n))
             /\ mem' = Assigned(Assigned(mem, path, IF n > 0 THEN 1 ELSE NULL), count, n)
             /\ heap' = IF n > 0 THEN Owned({path}) ELSE heap
    <3>1. heap \subseteq heap' /\ (n > 0 => path \in heap')
      BY <2>7 DEF Owned
    <3>2. PointersHeld(L)'
      <4> DEFINE once == Assigned(mem, path, IF n > 0 THEN 1 ELSE NULL)
      <4>1. once[path] = IF n > 0 THEN 1 ELSE NULL
        BY DEF Assigned
      <4>2. \A q \in DOMAIN once : q # path => q \in DOMAIN mem /\ once[q] = mem[q]
        BY <1>24
      <4>3. \A q \in DOMAIN mem' : q # count => q \in DOMAIN once /\ mem'[q] = once[q]
        BY <1>24, <2>7
      <4> HIDE DEF once
      <4>4. ASSUME NEW q \in DOMAIN mem', Pointer(L, q), mem'[q] # NULL
            PROVE  q \in heap'
        <5>1. q \in DOMAIN once /\ mem'[q] = once[q]
          BY <2>3, <4>3, <4>4
        <5>2. CASE q = path
          BY <3>1, <4>1, <4>4, <5>1, <5>2
        <5>3. CASE q # path
          BY <1>3, <3>1, <4>2, <4>4, <5>1, <5>3 DEF PointersHeld
        <5> QED BY <5>2, <5>3
      <4> QED BY <4>4 DEF PointersHeld
    <3>3. todo' = ItemsToRead(elem, n) \o Tail(todo)
      BY <2>7 DEF Unfold
    <3>4. SoundTodo(ItemsToRead(elem, n)) /\ AllOk(L, heap', ItemsToRead(elem, n))
      BY <1>12, <2>1
    <3> QED BY Zenon, <1>1, <2>1, <2>5, <3>1, <3>2, <3>3, <3>4, StepReceives
  <2> QED BY Zenon, <2>2, <2>6, <2>7
<1>26. ASSUME NEW alloc \in Allocations, ReadNextItem(alloc)
       PROVE  Safely(L)'
  <2> DEFINE n     == Cell(Count(at, elem.name), 0)
             count == Count(at, elem.name)
             p     == Item(at, elem.name, n)
             item  == Statement(p, [elem EXCEPT !.kind = "item"])
             delim == IF elem.delimited THEN Break ELSE << >>
             more  == Smaller(n + 1, MaxItems)
  <2>1. todo # << >> /\ elem.kind = "array" /\ ~IsStatic(elem) /\ ~Numbered(elem)
    BY <1>26 DEF ReadNextItem, Now
  <2>2. \/ Fail("EO_ALLOC_FAILED") /\ UNCHANGED <<mem, heap, raw>>
        \/ /\ todo' = item \o delim \o todo
           /\ mem' = Assigned(Assigned(mem, path, 1), count, more)
           /\ heap' = heap \cup {path}
           /\ raw' = raw \cup {p}
           /\ reader' = reader
    BY Zenon, <1>26 DEF ReadNextItem, memory
  <2>3. /\ ~Pointer(L, count) /\ TameItems(L, at, elem) /\ NoPointerRaw(L)
        /\ \A q : Pointer(L, q) /\ Within(q, p) =>
               IsStruct(elem.type) \/ (IsString(elem.type) /\ q = p)
    BY <1>23, <2>1 DEF TameArray
  <2>4. SoundTodo(item) /\ \A h : AllOk(L, h, item)
    <3>1. "kind" \in DOMAIN elem
      BY <2>3 DEF TameItems
    <3> QED BY <2>3, <3>1, ItemsAreSound, OkItem
  <2>5. SoundTodo(delim) /\ \A h : AllOk(L, h, delim)
    BY BreakIsSound, EmptyIsSound, OkLeave, OkNone
  <2>6. item = <<[at |-> p, elem |-> AsItem(elem), scope |-> << >>]>>
    BY DEF Statement, AsItem
  <2>7. AsItem(elem).kind = "item" /\ AsItem(elem).type = elem.type
    BY <2>3, AsItemIs DEF TameItems
  <2> HIDE DEF n, count, p, item, delim, more
  <2>8. CASE Fail("EO_ALLOC_FAILED") /\ UNCHANGED <<mem, heap, raw>>
    BY <1>5, <2>1, <2>8
  <2>9. CASE /\ todo' = item \o delim \o todo
             /\ mem' = Assigned(Assigned(mem, path, 1), count, more)
             /\ heap' = heap \cup {path}
             /\ raw' = raw \cup {p}
             /\ reader' = reader
    <3>1. PointersHeld(L)'
      <4> DEFINE once == Assigned(mem, path, 1)
      <4>2. \A q \in DOMAIN once : q # path => q \in DOMAIN mem /\ once[q] = mem[q]
        BY <1>24
      <4>3. \A q \in DOMAIN mem' : q # count => q \in DOMAIN once /\ mem'[q] = once[q]
        BY <1>24, <2>9
      <4> HIDE DEF once
      <4> QED BY <1>3, <2>3, <2>9, <4>2, <4>3 DEF PointersHeld
    <3>2. AllOk(L, heap', todo')
      <4>1. SoundTodo(item \o delim) /\ AllOk(L, heap', item \o delim)
        BY Zenon, <2>4, <2>5, JoinIsSound, OkJoin
      <4>2. AllOk(L, heap', todo)
        BY <2>9, OkMore DEF Safely
      <4> QED BY Zenon, <1>1, <2>9, <4>1, <4>2, OkJoin
    <3>3. todo' # << >> /\ Head(todo') = [at |-> p, elem |-> AsItem(elem), scope |-> << >>]
      <4> DEFINE s == [at |-> p, elem |-> AsItem(elem), scope |-> << >>]
                 S == {s} \cup {delim[k] : k \in DOMAIN delim} \cup {todo[k] : k \in DOMAIN todo}
      <4>1. delim \in Seq({delim[k] : k \in DOMAIN delim}) /\ todo \in Seq({todo[k] : k \in DOMAIN todo})
        BY Zenon, <1>1, <2>5 DEF SoundTodo
      <4>2. delim \in Seq(S) /\ todo \in Seq(S) /\ s \in S
        <5> DEFINE A == {delim[k] : k \in DOMAIN delim}
                   B == {todo[k] : k \in DOMAIN todo}
        <5> HIDE DEF A, B
        <5>1. S = {s} \cup A \cup B /\ delim \in Seq(A) /\ todo \in Seq(B)
          BY Zenon, <4>1 DEF A, B
        <5> HIDE DEF S, s
        <5> QED BY <5>1
      <4>3. todo' = <<s>> \o delim \o todo
        BY <2>6, <2>9
      <4> HIDE DEF s, S
      <4>4. todo' # << >> /\ Head(todo') = s
        BY <4>2, <4>3
      <4> QED BY <4>4 DEF s
    <3>4. elem'.kind = "item" /\ elem'.type = elem.type /\ at' = p
      BY <2>7, <3>3 DEF elem, at
    <3>5. RawIsPending(L)'
      <4> SUFFICES ASSUME NEW r, NEW q, Pointer(L, r), q \in raw', Within(r, q)
                   PROVE  IsPending(r, q)'
        BY DEF RawIsPending
      <4>1. q = p
        BY <2>3, <2>9 DEF NoPointerRaw
      <4>2. IsStruct(elem.type) \/ (IsString(elem.type) /\ r = p /\ reader.chunked)
        BY <2>1, <2>3, <4>1 DEF TextsInChunks
      <4> QED BY <2>9, <3>3, <3>4, <4>1, <4>2 DEF IsPending
    <3> QED BY <3>1, <3>2, <3>5 DEF Safely
  <2> QED BY Zenon, <2>2, <2>8, <2>9
<1>27. ASSUME NEW alloc \in Allocations, ReadItem(alloc)
       PROVE  Safely(L)'
  <2>1. /\ todo # << >> /\ elem.kind = "item"
        /\ IF IsStruct(elem.type) THEN EnterStruct(at, elem.type, {})
           ELSE ReadInto(at, ItemNumber(elem), GetTyped(ItemNumber(elem), alloc))
    BY <1>27 DEF ReadItem, Now
  <2>2. ItemOk(L, at, elem)
    BY <1>2, <2>1 DEF OkAt
  <2>3. CASE IsStruct(elem.type)
    <3>1. at \in L[Structs[elem.type]] /\ EnterStruct(at, elem.type, {})
      BY <2>1, <2>2, <2>3 DEF ItemOk
    <3>2. \A r, q : Pointer(L, r) /\ q \in raw /\ Within(r, q) => q = at
      BY <1>3 DEF RawIsPending, IsPending
    <3> QED BY Zenon, <1>1, <2>1, <2>3, <3>1, <3>2, EnterReceives
  <2>4. CASE ~IsStruct(elem.type)
    <3> DEFINE ret == GetTyped(ItemNumber(elem), alloc)
    <3>1. ReadInto(at, ItemNumber(elem), ret)
      BY <2>1, <2>4
    <3>2. IsString(elem.type) => ItemNumber(elem) = elem.type
      BY <2>2 DEF ItemOk, ItemNumber
    <3>3. Pointer(L, at) => at \in heap \/ Owns(ItemNumber(elem))
      BY <2>2, <2>4, <3>2 DEF ItemOk, Owns
    <3>4. ItemNumber(elem) = "blob" => ~Pointer(L, Append(at, "length"))
      BY <2>2 DEF ItemOk
    <3>5. \A r, q : Pointer(L, r) /\ q \in raw /\ Within(r, q) =>
                        q = at /\ ret.result # "EO_BUFFER_UNDERRUN"
      <4> SUFFICES ASSUME NEW r, NEW q, Pointer(L, r), q \in raw, Within(r, q)
                   PROVE  q = at /\ ret.result # "EO_BUFFER_UNDERRUN"
        OBVIOUS
      <4>1. IsPending(r, q)
        BY <1>3 DEF RawIsPending
      <4>2. at = q /\ IsString(elem.type) /\ reader.chunked
        BY <2>4, <4>1 DEF IsPending
      <4> QED BY <3>2, <4>2, TextsAreRead
    <3> HIDE DEF ret
    <3>6. PointersHeld(L)' /\ NoPointerRaw(L)' /\ heap \subseteq heap'
      BY Zenon, <1>3, <3>1, <3>3, <3>4, <3>5, IntoHeld
    <3> QED BY Zenon, <1>20, <2>1, <3>1, <3>6
  <2> QED BY <2>3, <2>4
<1>28. ASSUME NEW alloc \in Allocations, ReadSwitch(alloc)
       PROVE  Safely(L)'
  <2> DEFINE c == ChosenCase(elem, Cell(Field(at, elem.field), 0))
             data == Data(at, elem)
  <2>1. todo # << >> /\ elem.kind = "switch"
    BY <1>28 DEF ReadSwitch, Now
  <2>2. \/ Unfold(<< >>) /\ UNCHANGED <<mem, heap, raw>>
        \/ /\ c # None /\ ~HasStorage[c.elements]
           /\ Unfold(Statements(at, c.elements)) /\ UNCHANGED <<mem, heap, raw>>
        \/ Fail("EO_ALLOC_FAILED") /\ UNCHANGED <<mem, heap, raw>>
        \/ /\ c # None /\ HasStorage[c.elements]
           /\ Unfold(Statements(CaseAt(at, elem, c), c.elements))
           /\ mem' = Assigned(mem, data, 1) /\ heap' = Owned({data}) /\ raw' = raw
    BY <1>28 DEF ReadSwitch, memory
  <2>3. c # None => \E d \in 1 .. Len(elem.cases) : c = elem.cases[d]
    BY ChosenIsCase
  <2>4. c # None => c.elements \in ElementLists
    BY <1>2, <2>1, <2>3 DEF Sound, elem
  <2>5. TameSwitch(L, at, elem) /\ NoPointerRaw(L)
    BY <1>2, <1>7, <2>1 DEF OkAt, Tame
  <2>6. c # None => IF HasStorage[c.elements] THEN CaseAt(at, elem, c) \in L[c.elements]
                    ELSE at \in L[c.elements]
    BY <2>3, <2>5 DEF TameSwitch
  <2> HIDE DEF c, data
  <2>7. CASE Unfold(<< >>) /\ UNCHANGED <<mem, heap, raw>>
    BY <1>4, <2>1, <2>7, EmptyIsSound, OkNone
  <2>8. CASE /\ c # None /\ ~HasStorage[c.elements]
             /\ Unfold(Statements(at, c.elements)) /\ UNCHANGED <<mem, heap, raw>>
    <3>1. SoundTodo(Statements(at, c.elements)) /\ AllOk(L, heap, Statements(at, c.elements))
      BY <2>4, <2>6, <2>8, ListsAreSound, OkStatements
    <3> QED BY Zenon, <1>4, <2>1, <2>8, <3>1
  <2>9. CASE Fail("EO_ALLOC_FAILED") /\ UNCHANGED <<mem, heap, raw>>
    BY <1>5, <2>1, <2>9
  <2>10. CASE /\ c # None /\ HasStorage[c.elements]
              /\ Unfold(Statements(CaseAt(at, elem, c), c.elements))
              /\ mem' = Assigned(mem, data, 1) /\ heap' = Owned({data}) /\ raw' = raw
    <3> DEFINE p == CaseAt(at, elem, c)
               st == Statements(p, c.elements)
    <3>1. SoundTodo(st) /\ AllOk(L, heap', st)
      BY <2>4, <2>6, <2>10, ListsAreSound, OkStatements
    <3>2. todo' = st \o Tail(todo)
      BY <2>10 DEF Unfold
    <3>3. heap \subseteq heap' /\ data \in heap'
      BY <2>10 DEF Owned
    <3>4. PointersHeld(L)'
      <4>1. \A q \in DOMAIN mem' : q # data => q \in DOMAIN mem /\ mem'[q] = mem[q]
        BY <1>24, <2>10
      <4> QED BY <1>3, <3>3, <4>1 DEF PointersHeld
    <3>5. NoPointerRaw(L)'
      BY <2>5, <2>10 DEF NoPointerRaw
    <3> HIDE DEF st, p
    <3> QED BY Zenon, <1>1, <2>1, <3>1, <3>2, <3>3, <3>4, <3>5, StepReceives
  <2> QED BY Zenon, <2>2, <2>7, <2>8, <2>9, <2>10
<1> QED
  BY Zenon, <1>8, <1>9, <1>10, <1>11, <1>13, <1>14, <1>15, <1>16, <1>17, <1>19, <1>21, <1>22,
     <1>25, <1>26, <1>27, <1>28
     DEF DeserializeStep

-----------------------------------------------------------------------------
(* Where the reader is in chunked mode.  C is a set of lists that are only  *)
(* read in that mode: those of chunked sections, and others that are read   *)
(* from within them.                                                        *)

Demands(C, e) ==
    \/ e.kind = "array" /\ ~IsStatic(e) /\ ~Numbered(e) /\ IsString(e.type)
    \/ e.kind \in {"field", "array", "item"} /\ IsStruct(e.type) /\ Structs[e.type] \in C
    \/ e.kind = "loop" /\ IsStruct(e.array.type) /\ Structs[e.array.type] \in C
    \/ e.kind = "switch" /\ \E c \in 1 .. Len(e.cases) : e.cases[c].elements \in C

\* No element outside of C demands the mode, and no message begins in it.
InChunks(C, type) ==
    /\ \A list \in ElementLists : \A k \in 1 .. Len(list) : Demands(C, list[k]) => list \in C
    /\ Structs[type] \notin C

(* A definition whose structs can be freed at any time: it does not contain *)
(* itself, no two elements use one cell for a pointer and for something     *)
(* else, arrays and switches are as above, and texts without a number are   *)
(* only in chunked sections.                                                *)
IsFreeable == WellNested /\ (\E L : AllTame(L, root)) /\ (\E C : InChunks(C, root))

Leaves(t, i) == t[i].elem.kind = "leave"

(* Of statements that begin in a mode: those that demand chunked mode follow *)
(* a return that restores it or, if there is no return, find it.             *)
Chunks(C, t, mode) ==
    \A k \in 1 .. Len(t) : Demands(C, t[k].elem) =>
        /\ (\A i \in 1 .. k - 1 : ~Leaves(t, i)) => mode
        /\ \A j \in 1 .. k - 1 : Leaves(t, j) /\ (\A i \in j + 1 .. k - 1 : ~Leaves(t, i))
                                 => t[j].elem.mode

NoLeave(t) == \A i \in 1 .. Len(t) : ~Leaves(t, i)

LEMMA NoChunks == \A C, mode : Chunks(C, << >>, mode) /\ NoLeave(<< >>)
BY DEF Chunks, NoLeave

LEMMA TailOfTodo ==
    ASSUME NEW t, SoundTodo(t), t # << >>
    PROVE  /\ Len(Tail(t)) \in Nat /\ Len(t) = Len(Tail(t)) + 1 /\ Head(t) = t[1]
           /\ \A k \in 1 .. Len(Tail(t)) : Tail(t)[k] = t[k + 1]
<1> DEFINE T == {t[k] : k \in DOMAIN t}
<1>1. t \in Seq(T)
  BY DEF SoundTodo
<1> HIDE DEF T
<1> QED BY <1>1

LEMMA JoinOfTodo ==
    ASSUME NEW a, NEW b, SoundTodo(a), SoundTodo(b)
    PROVE  /\ Len(a \o b) = Len(a) + Len(b) /\ Len(a) \in Nat /\ Len(b) \in Nat
           /\ \A k \in 1 .. Len(a \o b) :
                  (a \o b)[k] = IF k <= Len(a) THEN a[k] ELSE b[k - Len(a)]
<1> DEFINE A == {a[k] : k \in DOMAIN a}
           B == {b[k] : k \in DOMAIN b}
<1>1. a \in Seq(A \cup B) /\ b \in Seq(A \cup B)
  <2>1. a \in Seq(A) /\ b \in Seq(B)
    BY DEF SoundTodo
  <2> HIDE DEF A, B
  <2> QED BY <2>1
<1> HIDE DEF A, B
<1> QED BY <1>1

LEMMA JoinInThree ==
    ASSUME NEW a, NEW b, NEW c, SoundTodo(a), SoundTodo(b), SoundTodo(c)
    PROVE  a \o b \o c = a \o (b \o c)
<1> DEFINE A == {a[k] : k \in DOMAIN a}
           B == {b[k] : k \in DOMAIN b}
           D == {c[k] : k \in DOMAIN c}
           S == A \cup B \cup D
<1>1. a \in Seq(S) /\ b \in Seq(S) /\ c \in Seq(S)
  <2>1. a \in Seq(A) /\ b \in Seq(B) /\ c \in Seq(D)
    BY DEF SoundTodo
  <2> HIDE DEF A, B, D
  <2> QED BY <2>1
<1> HIDE DEF S
<1> QED BY <1>1

LEMMA ChunksOfTail ==
    ASSUME NEW C, NEW t, NEW mode, SoundTodo(t), t # << >>, Chunks(C, t, mode)
    PROVE  /\ Demands(C, Head(t).elem) => mode
           /\ IF Head(t).elem.kind = "leave" THEN Chunks(C, Tail(t), Head(t).elem.mode)
              ELSE Chunks(C, Tail(t), mode)
<1> DEFINE u == Tail(t)
           m == IF Head(t).elem.kind = "leave" THEN Head(t).elem.mode ELSE mode
<1>1. /\ Len(u) \in Nat /\ Len(t) = Len(u) + 1 /\ Head(t) = t[1]
      /\ \A k \in 1 .. Len(u) : u[k] = t[k + 1]
  BY TailOfTodo
<1> HIDE DEF u
<1>2. Demands(C, Head(t).elem) => mode
  <2>1. 1 \in 1 .. Len(t) /\ 1 .. 1 - 1 = {}
    BY <1>1
  <2> QED BY <1>1, <2>1 DEF Chunks
<1>3. Leaves(t, 1) <=> Head(t).elem.kind = "leave"
  BY <1>1 DEF Leaves
<1>4. ASSUME NEW k \in 1 .. Len(u), Demands(C, u[k].elem)
      PROVE  /\ (\A i \in 1 .. k - 1 : ~Leaves(u, i)) => m
             /\ \A j \in 1 .. k - 1 : Leaves(u, j) /\ (\A i \in j + 1 .. k - 1 : ~Leaves(u, i))
                                      => u[j].elem.mode
  <2>1. k + 1 \in 1 .. Len(t) /\ Demands(C, t[k + 1].elem)
    BY <1>1, <1>4
  <2>2. /\ (\A i \in 1 .. k : ~Leaves(t, i)) => mode
        /\ \A j \in 1 .. k : Leaves(t, j) /\ (\A i \in j + 1 .. k : ~Leaves(t, i)) => t[j].elem.mode
    <3>1. (k + 1) - 1 = k
      OBVIOUS
    <3> QED BY <2>1, <3>1 DEF Chunks
  <2>3. \A i \in 1 .. k - 1 : Leaves(u, i) <=> Leaves(t, i + 1)
    BY <1>1 DEF Leaves
  <2>4. ASSUME \A i \in 1 .. k - 1 : ~Leaves(u, i)
        PROVE  m
    <3>1. \A i \in 2 .. k : ~Leaves(t, i)
      <4> TAKE i \in 2 .. k
      <4>1. i - 1 \in 1 .. k - 1 /\ (i - 1) + 1 = i
        OBVIOUS
      <4> QED BY <2>3, <2>4, <4>1
    <3>2. CASE Leaves(t, 1)
      <4>1. t[1].elem.mode
        <5>1. 1 \in 1 .. k /\ \A i \in 1 + 1 .. k : ~Leaves(t, i)
          BY <3>1
        <5> QED BY <2>2, <3>2, <5>1
      <4> QED BY <1>1, <1>3, <3>2, <4>1
    <3>3. CASE ~Leaves(t, 1)
      <4>1. \A i \in 1 .. k : ~Leaves(t, i)
        BY <3>1, <3>3
      <4> QED BY <1>3, <2>2, <3>3, <4>1
    <3> QED BY <3>2, <3>3
  <2>5. ASSUME NEW j \in 1 .. k - 1, Leaves(u, j), \A i \in j + 1 .. k - 1 : ~Leaves(u, i)
        PROVE  u[j].elem.mode
    <3>1. j + 1 \in 1 .. k /\ Leaves(t, j + 1) /\ u[j] = t[j + 1]
      BY <1>1, <2>3, <2>5
    <3>2. \A i \in (j + 1) + 1 .. k : ~Leaves(t, i)
      <4> TAKE i \in (j + 1) + 1 .. k
      <4>1. i - 1 \in j + 1 .. k - 1 /\ i - 1 \in 1 .. k - 1 /\ (i - 1) + 1 = i
        OBVIOUS
      <4> QED BY <2>3, <2>5, <4>1
    <3> QED BY <2>2, <3>1, <3>2
  <2> QED BY <2>4, <2>5
<1> HIDE DEF m
<1>5. Chunks(C, u, m)
  BY <1>4 DEF Chunks
<1> QED BY <1>2, <1>5 DEF u, m

LEMMA ChunksOfJoin ==
    ASSUME NEW C, NEW a, NEW b, NEW mode, SoundTodo(a), SoundTodo(b), NoLeave(a),
           Chunks(C, a, mode), Chunks(C, b, mode)
    PROVE  Chunks(C, a \o b, mode)
<1> DEFINE t == a \o b
           n == Len(a)
<1>1. /\ Len(t) = n + Len(b) /\ n \in Nat /\ Len(b) \in Nat
      /\ \A k \in 1 .. Len(t) : t[k] = IF k <= n THEN a[k] ELSE b[k - n]
  BY JoinOfTodo
<1> HIDE DEF t, n
<1>2. \A i \in 1 .. n : ~Leaves(t, i)
  BY <1>1 DEF NoLeave, Leaves, n
<1>3. ASSUME NEW k \in 1 .. Len(t), Demands(C, t[k].elem)
      PROVE  /\ (\A i \in 1 .. k - 1 : ~Leaves(t, i)) => mode
             /\ \A j \in 1 .. k - 1 : Leaves(t, j) /\ (\A i \in j + 1 .. k - 1 : ~Leaves(t, i))
                                      => t[j].elem.mode
  <2>1. CASE k <= n
    <3>1. k \in 1 .. Len(a) /\ Demands(C, a[k].elem)
      BY <1>1, <1>3, <2>1 DEF n
    <3>2. \A i \in 1 .. k - 1 : ~Leaves(a, i)
      BY <1>1, <2>1 DEF NoLeave, n
    <3>3. mode
      BY <3>1, <3>2 DEF Chunks
    <3>4. \A j \in 1 .. k - 1 : ~Leaves(t, j)
      BY <1>1, <1>2, <2>1
    <3> QED BY <3>3, <3>4
  <2>2. CASE ~(k <= n)
    <3> DEFINE l == k - n
    <3>1. l \in 1 .. Len(b) /\ Demands(C, b[l].elem) /\ l \in Int /\ k = l + n
      BY <1>1, <1>3, <2>2
    <3> HIDE DEF l
    <3>2. /\ (\A i \in 1 .. l - 1 : ~Leaves(b, i)) => mode
          /\ \A j \in 1 .. l - 1 : Leaves(b, j) /\ (\A i \in j + 1 .. l - 1 : ~Leaves(b, i))
                                   => b[j].elem.mode
      BY <3>1 DEF Chunks
    <3>3. \A i \in 1 .. l - 1 : t[i + n] = b[i] /\ (Leaves(b, i) <=> Leaves(t, i + n))
      <4> TAKE i \in 1 .. l - 1
      <4>1. i + n \in 1 .. Len(t) /\ ~(i + n <= n) /\ (i + n) - n = i
        BY <1>1, <3>1
      <4> QED BY <1>1, <4>1 DEF Leaves
    <3>4. ASSUME \A i \in 1 .. k - 1 : ~Leaves(t, i)
          PROVE  mode
      <4>1. \A i \in 1 .. l - 1 : ~Leaves(b, i)
        <5> TAKE i \in 1 .. l - 1
        <5>1. i + n \in 1 .. k - 1
          BY <1>1, <3>1
        <5> QED BY <3>3, <3>4, <5>1
      <4> QED BY <3>2, <4>1
    <3>5. ASSUME NEW j \in 1 .. k - 1, Leaves(t, j), \A i \in j + 1 .. k - 1 : ~Leaves(t, i)
          PROVE  t[j].elem.mode
      <4>1. ~(j <= n)
        BY <1>1, <1>2, <3>5
      <4> DEFINE h == j - n
      <4>2. h \in 1 .. l - 1 /\ j = h + n
        BY <1>1, <3>1, <4>1
      <4> HIDE DEF h
      <4>3. Leaves(b, h) /\ t[j] = b[h]
        BY <3>3, <3>5, <4>2
      <4>4. \A i \in h + 1 .. l - 1 : ~Leaves(b, i)
        <5> TAKE i \in h + 1 .. l - 1
        <5>1. i + n \in j + 1 .. k - 1 /\ i \in 1 .. l - 1
          BY <1>1, <3>1, <4>2
        <5> QED BY <3>3, <3>5, <5>1
      <4> QED BY <3>2, <4>2, <4>3, <4>4
    <3> QED BY <3>4, <3>5
  <2> QED BY <2>1, <2>2
<1>4. Chunks(C, t, mode)
  BY <1>3 DEF Chunks
<1> QED BY <1>4 DEF t

LEMMA ChunksBehindLeave ==
    ASSUME NEW C, NEW b, NEW mode, SoundTodo(b), Chunks(C, b, mode), NEW before
    PROVE  Chunks(C, Leave(mode) \o b, before)
<1> DEFINE t == Leave(mode) \o b
<1>1. SoundTodo(Leave(mode)) /\ Leave(mode) = <<LeaveStatement(mode)>>
  BY LeaveIsSound
<1>2. Len(Leave(mode)) = 1 /\ Leave(mode)[1] = LeaveStatement(mode)
  BY <1>1
<1>3. /\ Len(t) = 1 + Len(b) /\ Len(b) \in Nat
      /\ \A k \in 1 .. Len(t) : t[k] = IF k <= 1 THEN Leave(mode)[k] ELSE b[k - 1]
  BY <1>1, <1>2, JoinOfTodo
<1>4. t[1] = LeaveStatement(mode) /\ LeaveStatement(mode).elem.kind = "leave"
      /\ LeaveStatement(mode).elem.mode = mode
  BY <1>2, <1>3 DEF LeaveStatement
<1> HIDE DEF t
<1>5. Leaves(t, 1) /\ ~Demands(C, t[1].elem)
  BY <1>4 DEF Leaves, Demands
<1>6. ASSUME NEW k \in 1 .. Len(t), Demands(C, t[k].elem)
      PROVE  /\ (\A i \in 1 .. k - 1 : ~Leaves(t, i)) => before
             /\ \A j \in 1 .. k - 1 : Leaves(t, j) /\ (\A i \in j + 1 .. k - 1 : ~Leaves(t, i))
                                      => t[j].elem.mode
  <2> DEFINE l == k - 1
  <2>1. k # 1
    BY <1>5, <1>6
  <2>2. l \in 1 .. Len(b) /\ Demands(C, b[l].elem) /\ k = l + 1
    BY <1>3, <1>6, <2>1
  <2> HIDE DEF l
  <2>3. /\ (\A i \in 1 .. l - 1 : ~Leaves(b, i)) => mode
        /\ \A j \in 1 .. l - 1 : Leaves(b, j) /\ (\A i \in j + 1 .. l - 1 : ~Leaves(b, i))
                                 => b[j].elem.mode
    BY <2>2 DEF Chunks
  <2>4. \A i \in 1 .. l - 1 : t[i + 1] = b[i] /\ (Leaves(b, i) <=> Leaves(t, i + 1))
    <3> TAKE i \in 1 .. l - 1
    <3>1. i + 1 \in 1 .. Len(t) /\ ~(i + 1 <= 1) /\ (i + 1) - 1 = i
      BY <1>3, <2>2
    <3> QED BY <1>3, <3>1 DEF Leaves
  <2>5. 1 \in 1 .. k - 1
    BY <2>2
  <2>6. ASSUME NEW j \in 1 .. k - 1, Leaves(t, j), \A i \in j + 1 .. k - 1 : ~Leaves(t, i)
        PROVE  t[j].elem.mode
    <3>1. CASE j = 1
      <4>1. \A i \in 1 .. l - 1 : ~Leaves(b, i)
        <5> TAKE i \in 1 .. l - 1
        <5>1. i + 1 \in j + 1 .. k - 1
          BY <2>2, <3>1
        <5> QED BY <2>4, <2>6, <5>1
      <4> QED BY <1>4, <2>3, <3>1, <4>1
    <3>2. CASE j # 1
      <4> DEFINE h == j - 1
      <4>1. h \in 1 .. l - 1 /\ j = h + 1
        BY <2>2, <3>2
      <4> HIDE DEF h
      <4>2. Leaves(b, h) /\ t[j] = b[h]
        BY <2>4, <2>6, <4>1
      <4>3. \A i \in h + 1 .. l - 1 : ~Leaves(b, i)
        <5> TAKE i \in h + 1 .. l - 1
        <5>1. i + 1 \in j + 1 .. k - 1 /\ i \in 1 .. l - 1
          BY <2>2, <4>1
        <5> QED BY <2>4, <2>6, <5>1
      <4> QED BY <2>3, <4>1, <4>2, <4>3
    <3> QED BY <3>1, <3>2
  <2> QED BY <1>5, <2>5, <2>6
<1>7. Chunks(C, t, before)
  BY <1>6 DEF Chunks
<1> QED BY <1>7 DEF t

-----------------------------------------------------------------------------
(* Statements that are read in one mode.                                    *)

InMode(C, t, mode) == NoLeave(t) /\ \A k \in 1 .. Len(t) : Demands(C, t[k].elem) => mode

LEMMA ModeChunks ==
    ASSUME NEW C, NEW t, NEW mode, Len(t) \in Nat, InMode(C, t, mode)
    PROVE  NoLeave(t) /\ Chunks(C, t, mode)
<1> SUFFICES ASSUME NEW k \in 1 .. Len(t), Demands(C, t[k].elem)
             PROVE  mode /\ \A j \in 1 .. k - 1 : ~Leaves(t, j)
  BY DEF Chunks, InMode
<1>1. \A j \in 1 .. k - 1 : j \in 1 .. Len(t)
  OBVIOUS
<1> QED BY <1>1 DEF InMode, NoLeave

LEMMA ModeOfNone == \A C, mode : InMode(C, << >>, mode)
BY DEF InMode, NoLeave

LEMMA ModeOfOne ==
    ASSUME NEW C, NEW mode, NEW s, s.elem.kind # "leave", Demands(C, s.elem) => mode
    PROVE  InMode(C, <<s>>, mode)
<1>1. Len(<<s>>) = 1 /\ \A k \in 1 .. 1 : <<s>>[k] = s
  OBVIOUS
<1> QED BY <1>1 DEF InMode, NoLeave, Leaves

LEMMA ModeOfJoin ==
    ASSUME NEW C, NEW mode, NEW a, NEW b, SoundTodo(a), SoundTodo(b),
           InMode(C, a, mode), InMode(C, b, mode)
    PROVE  InMode(C, a \o b, mode)
<1> DEFINE t == a \o b
<1>1. /\ Len(t) = Len(a) + Len(b) /\ Len(a) \in Nat /\ Len(b) \in Nat
      /\ \A k \in 1 .. Len(t) : t[k] = IF k <= Len(a) THEN a[k] ELSE b[k - Len(a)]
  BY JoinOfTodo
<1> HIDE DEF t
<1>2. \A k \in 1 .. Len(t) : ~Leaves(t, k) /\ (Demands(C, t[k].elem) => mode)
  <2> TAKE k \in 1 .. Len(t)
  <2>1. CASE k <= Len(a)
    <3>1. k \in 1 .. Len(a) /\ t[k] = a[k]
      BY <1>1, <2>1
    <3> QED BY <3>1 DEF InMode, NoLeave, Leaves
  <2>2. CASE ~(k <= Len(a))
    <3>1. k - Len(a) \in 1 .. Len(b) /\ t[k] = b[k - Len(a)]
      BY <1>1, <2>2
    <3> QED BY <3>1 DEF InMode, NoLeave, Leaves
  <2> QED BY <2>1, <2>2
<1>3. InMode(C, t, mode)
  BY <1>2 DEF InMode, NoLeave
<1> QED BY <1>3 DEF t

LEMMA ModeOfList ==
    ASSUME NEW C, NEW type, InChunks(C, type), NEW list \in ElementLists, NEW w,
           NEW mode, list \in C => mode
    PROVE  InMode(C, Statements(w, list), mode)
<1> DEFINE t == Statements(w, list)
<1>1. Len(list) \in Nat
  BY ListsAssumption
<1>2. Len(t) = Len(list) /\ \A k \in 1 .. Len(t) : t[k].elem = list[k]
  BY <1>1 DEF Statements
<1> HIDE DEF t
<1>3. \A k \in 1 .. Len(t) : ~Leaves(t, k) /\ (Demands(C, t[k].elem) => mode)
  <2> TAKE k \in 1 .. Len(t)
  <2>1. list[k].kind \in Kinds
    BY <1>2, ListsAssumption
  <2>2. Demands(C, list[k]) => list \in C
    BY <1>2 DEF InChunks
  <2> QED BY <1>2, <2>1, <2>2 DEF Leaves, Kinds
<1>4. InMode(C, t, mode)
  BY <1>3 DEF InMode, NoLeave
<1> QED BY <1>4 DEF t

LEMMA ModeOfBreak == \A C, mode : InMode(C, Break, mode)
<1> DEFINE s == [at |-> << >>, elem |-> [kind |-> "break"], scope |-> << >>]
<1>1. Break = <<s>>
  BY DEF Break, Statement
<1>2. s.elem.kind = "break"
  OBVIOUS
<1> HIDE DEF s
<1>3. s.elem.kind # "leave" /\ \A C : ~Demands(C, s.elem)
  BY <1>2 DEF Demands
<1> QED BY <1>1, <1>3, ModeOfOne

\* What demands chunked mode for the items of an array demands it for the array.
ItemsDemand(C, type) == IsStruct(type) /\ Structs[type] \in C

LEMMA ModeOfItem ==
    ASSUME NEW C, NEW mode, NEW w, NEW e, {"kind", "name", "type"} \subseteq DOMAIN e,
           ItemsDemand(C, e.type) => mode
    PROVE  InMode(C, Statement(w, [e EXCEPT !.kind = "item"]), mode)
<1> DEFINE a == AsItem(e)
           s == [at |-> w, elem |-> a, scope |-> << >>]
<1>1. a.kind = "item" /\ a.type = e.type
  BY AsItemIs
<1>2. Statement(w, [e EXCEPT !.kind = "item"]) = <<s>>
  BY DEF Statement, AsItem
<1> HIDE DEF a
<1>3. s.elem = a
  OBVIOUS
<1> HIDE DEF s
<1>4. s.elem.kind # "leave" /\ (Demands(C, s.elem) => mode)
  BY <1>1, <1>3 DEF Demands, ItemsDemand
<1> QED BY <1>2, <1>4, ModeOfOne

LEMMA ModeOfLoop ==
    ASSUME NEW C, NEW mode, NEW w, NEW e, NEW n, ItemsDemand(C, e.type) => mode
    PROVE  InMode(C, LoopOver(w, e, n), mode)
<1> DEFINE a == [kind |-> "loop", array |-> e, i |-> 0, n |-> n]
           s == [at |-> w, elem |-> a, scope |-> << >>]
<1>1. a.kind = "loop" /\ a.array = e
  OBVIOUS
<1>2. LoopOver(w, e, n) = <<s>>
  BY DEF LoopOver, Statement
<1> HIDE DEF a
<1>3. s.elem = a
  OBVIOUS
<1> HIDE DEF s
<1>4. s.elem.kind # "leave" /\ (Demands(C, s.elem) => mode)
  BY <1>1, <1>3 DEF Demands, ItemsDemand
<1> QED BY <1>2, <1>4, ModeOfOne

LEMMA ModeOfRound ==
    ASSUME NEW C, NEW mode, todo # << >>, Sound(Head(todo)), elem.kind = "loop",
           {"kind", "name", "type"} \subseteq DOMAIN elem.array, Demands(C, elem) => mode
    PROVE  InMode(C, Round, mode)
<1> DEFINE e    == elem.array
           item == Statement(Item(at, e.name, elem.i), [e EXCEPT !.kind = "item"])
           s    == [Head(todo) EXCEPT !.elem.i = @ + 1]
<1>1. ItemsDemand(C, e.type) => mode
  BY DEF Demands, ItemsDemand
<1>2. InMode(C, item, mode) /\ SoundTodo(item)
  BY <1>1, ModeOfItem, ItemsAreSound
<1>3. SoundTodo(<<s>>) /\ InMode(C, <<s>>, mode)
  <2> DEFINE b == [elem EXCEPT !.i = @ + 1]
  <2>1. Head(todo) = [at |-> Head(todo).at, elem |-> elem, scope |-> Head(todo).scope]
    BY DEF Sound, elem
  <2>2. s = [at |-> Head(todo).at, elem |-> b, scope |-> Head(todo).scope]
    BY <2>1
  <2>3. /\ {"kind", "array"} \subseteq DOMAIN elem
        /\ b.kind = elem.kind /\ b.array = elem.array /\ DOMAIN b = DOMAIN elem
    BY DEF Sound, elem
  <2> HIDE DEF b
  <2>4. s.elem = b /\ Sound(s)
    BY <2>2, <2>3 DEF Sound
  <2> HIDE DEF s
  <2>5. s.elem.kind # "leave" /\ (Demands(C, s.elem) => mode)
    BY <1>1, <2>3, <2>4 DEF Demands, ItemsDemand
  <2> QED BY <2>4, <2>5, ModeOfOne, OneIsSound
<1>4. Round = IF ~(elem.i < elem.n) THEN << >>
              ELSE IF ~e.delimited THEN item \o <<s>>
              ELSE IF e.trailing THEN item \o Break \o <<s>>
              ELSE IF elem.i > 0 THEN Break \o item \o <<s>> ELSE item \o <<s>>
  BY DEF Round
<1> HIDE DEF item, s, e
<1>5. /\ SoundTodo(item \o Break) /\ InMode(C, item \o Break, mode)
      /\ SoundTodo(Break \o item) /\ InMode(C, Break \o item, mode)
  BY Zenon, <1>2, BreakIsSound, ModeOfBreak, JoinIsSound, ModeOfJoin
<1>6. /\ InMode(C, item \o <<s>>, mode)
      /\ InMode(C, item \o Break \o <<s>>, mode)
      /\ InMode(C, Break \o item \o <<s>>, mode)
  BY Zenon, <1>2, <1>3, <1>5, ModeOfJoin
<1> QED BY Zenon, <1>4, <1>6, ModeOfNone

-----------------------------------------------------------------------------
(* The steps of deserialize.                                                *)

LEMMA ChunksGoOn ==
    ASSUME NEW C, SoundTodo(todo), todo # << >>, EndsWith(todo, FALSE),
           Chunks(C, todo, reader.chunked),
           \/ todo' = << >>
           \/ /\ todo' = Tail(todo)
              /\ reader'.chunked = IF elem.kind = "leave" THEN elem.mode ELSE reader.chunked
           \/ /\ elem.kind # "leave" /\ reader'.chunked = reader.chunked
              /\ \E q : /\ SoundTodo(q) /\ InMode(C, q, reader.chunked)
                        /\ todo' = q \o Tail(todo)
    PROVE  Chunks(C, todo', reader'.chunked)
<1>1. SoundTodo(Tail(todo))
  BY TailIsSound
<1>2. IF elem.kind = "leave" THEN Chunks(C, Tail(todo), elem.mode)
      ELSE Chunks(C, Tail(todo), reader.chunked)
  BY ChunksOfTail DEF elem
<1>3. CASE todo' = << >>
  BY <1>3, NoChunks
<1>4. CASE /\ todo' = Tail(todo)
           /\ reader'.chunked = IF elem.kind = "leave" THEN elem.mode ELSE reader.chunked
  BY <1>2, <1>4
<1>5. CASE /\ elem.kind # "leave" /\ reader'.chunked = reader.chunked
           /\ \E q : /\ SoundTodo(q) /\ InMode(C, q, reader.chunked)
                     /\ todo' = q \o Tail(todo)
  <2>1. PICK q : SoundTodo(q) /\ InMode(C, q, reader.chunked) /\ todo' = q \o Tail(todo)
    BY <1>5
  <2>2. Len(q) \in Nat
    BY <2>1, JoinOfTodo
  <2>3. NoLeave(q) /\ Chunks(C, q, reader.chunked)
    BY <2>1, <2>2, ModeChunks
  <2>4. Chunks(C, Tail(todo), reader.chunked)
    BY <1>2, <1>5
  <2> QED BY Zenon, <1>1, <1>5, <2>1, <2>3, <2>4, ChunksOfJoin
<1> QED BY <1>3, <1>4, <1>5

LEMMA ReaderKeepsMode ==
    ASSUME NEW r, "chunked" \in DOMAIN r
    PROVE  /\ \A n : Consume(r, n).chunked = r.chunked
           /\ AdvanceChunk(r).chunked = r.chunked
<1>1. \A n : Consume(r, n).chunked = r.chunked
  BY DEF Consume
<1>2. AdvanceChunk(r).chunked = r.chunked
  BY DEF AdvanceChunk
<1> QED BY <1>1, <1>2

LEMMA FunctionInMode ==
    ASSUME NEW C, NEW type, InChunks(C, type), NEW list \in ElementLists, NEW w,
           NEW mode, list \in C => mode, NEW t, SoundTodo(t), Chunks(C, t, mode)
    PROVE  Chunks(C, Statements(w, list) \o Leave(mode) \o t, mode)
<1> DEFINE s == Statements(w, list)
           l == Leave(mode)
<1>1. SoundTodo(s) /\ SoundTodo(l)
  BY ListsAreSound, LeaveIsSound
<1>2. s \o l \o t = s \o (l \o t)
  BY <1>1, JoinInThree
<1>3. Len(s) \in Nat
  BY <1>1, JoinOfTodo
<1>4. NoLeave(s) /\ Chunks(C, s, mode)
  BY <1>3, ModeOfList, ModeChunks
<1>5. Chunks(C, l \o t, mode) /\ SoundTodo(l \o t)
  BY <1>1, ChunksBehindLeave, JoinIsSound
<1> HIDE DEF s, l
<1>6. Chunks(C, s \o (l \o t), mode)
  BY <1>1, <1>4, <1>5, ChunksOfJoin
<1> QED BY <1>2, <1>6 DEF s, l

LEMMA StepKeepsChunks ==
    ASSUME ModesInv, running = "deserialize", NEW L, NEW type, AllTame(L, type), Safely(L),
           NEW C, InChunks(C, type), Chunks(C, todo, reader.chunked), DeserializeStep
    PROVE  Chunks(C, todo', reader'.chunked)
<1> DEFINE m == reader.chunked
           Goal == Chunks(C, todo', reader'.chunked)
<1> SUFFICES Goal
  OBVIOUS
<1>1. SoundTodo(todo) /\ EndsWith(todo, FALSE) /\ "chunked" \in DOMAIN reader
  BY Zenon DEF ModesInv, CallsReturn
<1>2. todo # << >> => Sound(Head(todo)) /\ OkAt(L, heap, at, elem)
  BY Zenon, <1>1, TailIsSound, OkTail DEF Safely, at, elem
<1>3. todo # << >> => (Demands(C, elem) => m) /\ SoundTodo(Tail(todo))
                      /\ (elem.kind # "leave" => Chunks(C, Tail(todo), m))
  <2> SUFFICES ASSUME todo # << >>
               PROVE  (Demands(C, elem) => m) /\ SoundTodo(Tail(todo))
                      /\ (elem.kind # "leave" => Chunks(C, Tail(todo), m))
    OBVIOUS
  <2>1. SoundTodo(Tail(todo))
    BY Zenon, <1>1, TailIsSound
  <2>2. /\ Demands(C, Head(todo).elem) => m
        /\ IF Head(todo).elem.kind = "leave" THEN Chunks(C, Tail(todo), Head(todo).elem.mode)
           ELSE Chunks(C, Tail(todo), m)
    BY Zenon, <1>1, ChunksOfTail
  <2> QED BY <2>1, <2>2 DEF elem
<1>4. ASSUME todo # << >>, elem.kind # "leave", reader'.chunked = m,
             \/ todo' = << >>
             \/ todo' = Tail(todo)
             \/ \E q : SoundTodo(q) /\ InMode(C, q, m) /\ todo' = q \o Tail(todo)
      PROVE  Goal
  BY Zenon, <1>1, <1>4, ChunksGoOn
<1>5. ASSUME NEW st, todo # << >>, elem.kind # "leave", SoundTodo(st), InMode(C, st, m),
             Unfold(st)
      PROVE  Goal
  <2>1. todo' = st \o Tail(todo) /\ reader' = reader
    BY <1>5 DEF Unfold
  <2> QED BY Zenon, <1>4, <1>5, <2>1
<1>6. ASSUME todo # << >>, elem.kind # "leave", reader'.chunked = m,
             todo' = Tail(todo) \/ (\E error : Fail(error))
      PROVE  Goal
  <2>1. todo' = << >> \/ todo' = Tail(todo)
    BY <1>6 DEF Fail
  <2> QED BY Zenon, <1>4, <1>6, <2>1
<1>7. \A what : Crash(what) => Goal
  BY DEF Crash
<1>8. \A n : reader' = Consume(reader, n) => reader'.chunked = m
  BY <1>1, ReaderKeepsMode
<1>9. ASSUME NEW p, NEW t, IsStruct(t), NEW blocks, todo # << >>,
             elem.kind \in {"field", "item"}, elem.type = t, EnterStruct(p, t, blocks)
      PROVE  Goal
  <2> DEFINE list == Structs[t]
             st == Statements(p, list) \o Leave(m)
  <2>1. todo' = st \o Tail(todo) /\ reader' = reader
    BY <1>9 DEF EnterStruct, Unfold
  <2>2. list \in ElementLists /\ (list \in C => m)
    BY <1>3, <1>9, ListsAssumption DEF IsStruct, Demands
  <2>3. Chunks(C, st \o Tail(todo), m)
    BY <1>3, <1>9, <2>2, FunctionInMode
  <2> QED BY <2>1, <2>3
<1>10. CASE ReadChunked
  <2> DEFINE st == Statements(at, elem.elements)
  <2>1. /\ todo # << >> /\ elem.kind = "chunked" /\ todo' = st \o Tail(todo)
        /\ reader' = SetChunkedMode(reader, TRUE)
    BY <1>10 DEF ReadChunked, Now
  <2>2. elem.elements \in ElementLists
    BY <1>2, <2>1 DEF Sound, elem
  <2>3. reader'.chunked = TRUE
    BY <1>1, <2>1, ReaderKeepsStruct
  <2>4. SoundTodo(st) /\ InMode(C, st, TRUE)
    BY <2>2, ListsAreSound, ModeOfList
  <2>5. Chunks(C, Tail(todo), TRUE)
    BY <1>3, <2>1 DEF Chunks
  <2> HIDE DEF st
  <2>6. NoLeave(st) /\ Chunks(C, st, TRUE)
    BY <2>4, ModeChunks, JoinOfTodo
  <2>7. Chunks(C, st \o Tail(todo), TRUE)
    BY Zenon, <1>3, <2>1, <2>4, <2>5, <2>6, ChunksOfJoin
  <2> QED BY Zenon, <2>1, <2>3, <2>7
<1>11. CASE ReadBreak
  <2>1. /\ todo # << >> /\ elem.kind = "break"
        /\ \/ reader' = AdvanceChunk(reader) /\ todo' = Tail(todo)
           \/ reader' = reader /\ Fail("EO_CHUNKED_MODE_DISABLED")
    BY <1>11 DEF ReadBreak, Now
  <2>2. reader'.chunked = m
    BY <1>1, <2>1, ReaderKeepsMode
  <2> QED BY <1>6, <2>1, <2>2
<1>12. CASE ReadLength
  <2> DEFINE ret == GetTyped(elem.type, TRUE)
  <2>1. /\ todo # << >> /\ elem.kind = "length" /\ reader' = Consume(reader, ret.count)
        /\ todo' = Tail(todo) \/ Fail(ret.result)
    BY Zenon, <1>12 DEF ReadLength, Now
  <2> HIDE DEF ret
  <2> QED BY <1>6, <1>8, <2>1
<1>13. CASE SkipOptional
  BY Zenon, <1>5, <1>13, EmptyIsSound, ModeOfNone DEF SkipOptional, Now
<1>14. ASSUME NEW n, todo # << >>, elem.kind = "array"
       PROVE  SoundTodo(ItemsToRead(elem, n)) /\ InMode(C, ItemsToRead(elem, n), m)
  <2>1. {"kind", "name", "type"} \subseteq DOMAIN elem
    BY <1>2, <1>14 DEF OkAt, Tame, TameArray, TameItems
  <2> DEFINE e == [elem EXCEPT !.trailing = TRUE]
  <2>2. DOMAIN e = DOMAIN elem /\ e.type = elem.type
    BY <2>1
  <2>3. ItemsToRead(elem, n) \in {LoopOver(at, elem, n), LoopOver(at, e, n)}
    BY DEF ItemsToRead
  <2> HIDE DEF e
  <2>4. ItemsDemand(C, elem.type) => m
    BY <1>3, <1>14 DEF ItemsDemand, Demands
  <2>5. /\ SoundTodo(LoopOver(at, elem, n)) /\ InMode(C, LoopOver(at, elem, n), m)
        /\ SoundTodo(LoopOver(at, e, n)) /\ InMode(C, LoopOver(at, e, n), m)
    BY <2>1, <2>2, <2>4, LoopsAreSound, ModeOfLoop
  <2> QED BY <2>3, <2>5
<1>15. CASE ReadStaticArray
  BY Zenon, <1>5, <1>14, <1>15 DEF ReadStaticArray, Now
<1>16. CASE ReadItems
  <2>1. todo # << >> /\ elem.kind = "loop" /\ Unfold(Round)
    BY <1>16 DEF ReadItems, Now
  <2>2. {"kind", "name", "type"} \subseteq DOMAIN elem.array
    BY <1>2, <2>1 DEF OkAt, TameItems
  <2>3. SoundTodo(Round) /\ InMode(C, Round, m)
    BY Zenon, <1>2, <1>3, <2>1, <2>2, RoundsAreSound, ModeOfRound
  <2> QED BY <1>5, <2>1, <2>3
<1>17. CASE LastItemRead
  BY Zenon, <1>5, <1>17, EmptyIsSound, ModeOfNone DEF LastItemRead, Now
<1>18. CASE LeaveDeserialize
  <2>1. /\ todo # << >> /\ elem.kind = "leave" /\ todo' = Tail(todo)
        /\ reader' = SetChunkedMode(reader, elem.mode)
    BY <1>18 DEF LeaveDeserialize, Now
  <2>2. reader'.chunked = elem.mode
    BY <1>1, <2>1, ReaderKeepsStruct
  <2>3. reader'.chunked = IF elem.kind = "leave" THEN elem.mode ELSE reader.chunked
    BY <2>1, <2>2
  <2> QED BY Zenon, <1>1, <2>1, <2>3, ChunksGoOn
<1>19. ASSUME NEW alloc \in Allocations, ReadLiteral(alloc)
       PROVE  Goal
  <2> DEFINE ret == GetTyped(FieldNumber(elem), alloc)
  <2>1. /\ todo # << >> /\ elem.kind # "leave" /\ reader' = Consume(reader, ret.count)
        /\ todo' = Tail(todo) \/ Fail(ret.result) \/ Fail("EO_INVALID_DATA")
    BY <1>19 DEF ReadLiteral, Literal
  <2> HIDE DEF ret
  <2> QED BY <1>6, <1>8, <2>1
<1>20. ASSUME NEW alloc \in Allocations, ReadStructField(alloc)
       PROVE  Goal
  <2>1. /\ todo # << >> /\ elem.kind = "field" /\ IsStruct(elem.type)
        /\ \/ EnterStruct(path, elem.type, {})
           \/ EnterStruct(path, elem.type, {path})
           \/ Crash("write through a null pointer")
    BY Zenon, <1>20 DEF ReadStructField, Now
  <2> QED BY <1>7, <1>9, <2>1
<1>21. ASSUME NEW p, NEW t, NEW ret, todo # << >>, elem.kind # "leave", ReadInto(p, t, ret)
       PROVE  Goal
  <2>1. /\ reader' = Consume(reader, ret.count)
        /\ todo' = Tail(todo) \/ Fail(ret.result)
    BY <1>21 DEF ReadInto
  <2> QED BY <1>6, <1>8, <1>21, <2>1
<1>22. ASSUME NEW alloc \in Allocations, ReadField(alloc)
       PROVE  Goal
  <2> DEFINE ret == IF IsString(elem.type) /\ IsStatic(elem)
                    THEN GetFixed(elem.type, elem.length, alloc)
                    ELSE IF IsString(elem.type) /\ IsCounted(elem)
                    THEN GetFixed(elem.type, locals[Field(at, elem.counter)], alloc)
                    ELSE GetTyped(FieldNumber(elem), alloc)
  <2>1. todo # << >> /\ elem.kind = "field" /\ ReadInto(path, FieldNumber(elem), ret)
    BY <1>22 DEF ReadField, Now
  <2> HIDE DEF ret
  <2> QED BY <1>21, <2>1
<1>23. ASSUME NEW alloc \in Allocations, ReadOptionalField(alloc)
       PROVE  Goal
  <2> DEFINE s == [Head(todo) EXCEPT !.elem.optional = FALSE]
             e == [elem EXCEPT !.optional = FALSE]
  <2>1. /\ todo # << >> /\ elem.kind = "field" /\ ~Literal /\ ~IsStruct(elem.type)
        /\ \/ todo' = <<s>> \o Tail(todo) /\ reader' = reader
           \/ Crash("write through a null pointer")
           \/ Fail("EO_NULL_PTR") /\ reader' = reader
    BY Zenon, <1>23 DEF ReadOptionalField, Now
  <2>2. s = [at |-> Head(todo).at, elem |-> e, scope |-> Head(todo).scope]
    <3>1. Head(todo) = [at |-> Head(todo).at, elem |-> elem, scope |-> Head(todo).scope]
      BY Zenon, <1>2, <2>1 DEF Sound, elem
    <3>2. s = [Head(todo) EXCEPT !.elem = e]
      BY DEF elem
    <3> HIDE DEF e, s
    <3>3. \A h : h = [at |-> h.at, elem |-> elem, scope |-> h.scope]
            => [h EXCEPT !.elem = e] = [at |-> h.at, elem |-> e, scope |-> h.scope]
      OBVIOUS
    <3> QED BY <3>1, <3>2, <3>3
  <2>3. DOMAIN e = DOMAIN elem /\ e.kind = elem.kind /\ e.type = elem.type /\ "kind" \in DOMAIN e
    <3>1. {"kind", "type"} \subseteq DOMAIN elem
      BY <1>2, <2>1 DEF OkAt, FieldOk, Literal
    <3> QED BY <3>1
  <2> HIDE DEF e, s
  <2>4. s.elem = e
    BY <2>2
  <2>5. s.elem.kind # "leave" /\ (Demands(C, s.elem) => m)
    BY <2>1, <2>3, <2>4 DEF Demands
  <2>6. Sound(s)
    BY <2>1, <2>2, <2>3 DEF Sound
  <2>7. SoundTodo(<<s>>) /\ InMode(C, <<s>>, m)
    BY Zenon, <2>5, <2>6, OneIsSound, ModeOfOne
  <2>8. CASE todo' = <<s>> \o Tail(todo) /\ reader' = reader
    <3>1. elem.kind # "leave" /\ reader'.chunked = m
      BY <2>1, <2>8
    <3> QED BY Zenon, <1>4, <2>1, <2>7, <2>8, <3>1
  <2> QED BY <1>6, <1>7, <2>1, <2>8
<1>24. ASSUME NEW alloc \in Allocations, ReadNumberedArray(alloc)
       PROVE  Goal
  <2>1. /\ todo # << >> /\ elem.kind = "array"
        /\ \/ Unfold(ItemsToRead(elem, NumberOfItems(elem)))
           \/ Fail("EO_ALLOC_FAILED") /\ reader' = reader
    BY Zenon, <1>24 DEF ReadNumberedArray, Now
  <2> QED BY <1>5, <1>6, <1>14, <2>1
<1>25. ASSUME NEW alloc \in Allocations, ReadNextItem(alloc)
       PROVE  Goal
  <2> DEFINE n     == Cell(Count(at, elem.name), 0)
             item  == Statement(Item(at, elem.name, n), [elem EXCEPT !.kind = "item"])
             delim == IF elem.delimited THEN Break ELSE << >>
  <2>1. /\ todo # << >> /\ elem.kind = "array" /\ reader' = reader
        /\ todo' = item \o delim \o todo \/ Fail("EO_ALLOC_FAILED")
    BY Zenon, <1>25 DEF ReadNextItem, Now
  <2>2. {"kind", "name", "type"} \subseteq DOMAIN elem
    BY <1>2, <2>1 DEF OkAt, Tame, TameArray, TameItems
  <2>3. ItemsDemand(C, elem.type) => m
    BY <1>3, <2>1 DEF ItemsDemand, Demands
  <2>4. SoundTodo(item) /\ InMode(C, item, m)
    BY <2>2, <2>3, ItemsAreSound, ModeOfItem
  <2>5. SoundTodo(delim) /\ InMode(C, delim, m)
    BY BreakIsSound, EmptyIsSound, ModeOfBreak, ModeOfNone
  <2> HIDE DEF item, delim
  <2>6. SoundTodo(item \o delim) /\ InMode(C, item \o delim, m)
    BY Zenon, <2>4, <2>5, JoinIsSound, ModeOfJoin
  <2>7. NoLeave(item \o delim) /\ Chunks(C, item \o delim, m)
    BY <2>6, ModeChunks, JoinOfTodo
  <2>8. Chunks(C, item \o delim \o todo, m)
    BY Zenon, <1>1, <2>6, <2>7, ChunksOfJoin
  <2> QED BY <1>6, <2>1, <2>8
<1>26. ASSUME NEW alloc \in Allocations, ReadItem(alloc)
       PROVE  Goal
  <2>1. /\ todo # << >> /\ elem.kind = "item"
        /\ \/ IsStruct(elem.type) /\ EnterStruct(at, elem.type, {})
           \/ ReadInto(at, ItemNumber(elem), GetTyped(ItemNumber(elem), alloc))
    BY <1>26 DEF ReadItem, Now
  <2> QED BY <1>9, <1>21, <2>1
<1>27. ASSUME NEW alloc \in Allocations, ReadSwitch(alloc)
       PROVE  Goal
  <2> DEFINE c == ChosenCase(elem, Cell(Field(at, elem.field), 0))
  <2>1. /\ todo # << >> /\ elem.kind = "switch"
        /\ \/ Unfold(<< >>)
           \/ c # None /\ Unfold(Statements(at, c.elements))
           \/ c # None /\ Unfold(Statements(CaseAt(at, elem, c), c.elements))
           \/ Fail("EO_ALLOC_FAILED") /\ reader' = reader
    BY <1>27 DEF ReadSwitch, Now
  <2>2. c # None => \E d \in 1 .. Len(elem.cases) : c = elem.cases[d]
    BY ChosenIsCase
  <2>3. c # None => c.elements \in ElementLists /\ (c.elements \in C => m)
    BY <1>2, <1>3, <2>1, <2>2 DEF Sound, elem, Demands
  <2> HIDE DEF c
  <2>4. c # None => \A p : /\ SoundTodo(Statements(p, c.elements))
                           /\ InMode(C, Statements(p, c.elements), m)
    BY <2>3, ListsAreSound, ModeOfList
  <2> QED BY Zenon, <1>5, <1>6, <2>1, <2>4, EmptyIsSound, ModeOfNone
<1> HIDE DEF Goal
<1> QED
  BY Zenon, <1>10, <1>11, <1>12, <1>13, <1>15, <1>16, <1>17, <1>18, <1>19, <1>20, <1>22, <1>23,
     <1>24, <1>25, <1>26, <1>27
     DEF DeserializeStep

LEMMA ChunkedTexts ==
    ASSUME NEW C, SoundTodo(todo), Chunks(C, todo, reader.chunked)
    PROVE  TextsInChunks
<1>1. todo # << >> => (Demands(C, elem) => reader.chunked)
  BY ChunksOfTail DEF elem
<1> QED BY <1>1 DEF TextsInChunks, Demands

-----------------------------------------------------------------------------
(* From the first byte that is read to the last free: pointers stay held.   *)

WildFree == "free of a wild pointer"

Holding == {"received", "echoing", "echoed", "table", "converted", "writing", "written",
            "answering", "answered"}

Reading(L, C) == Safely(L) /\ Chunks(C, todo, reader.chunked)
AllHeld(L) == PointersHeld(L) /\ NoPointerRaw(L)

FreeInv ==
    WellNested => \A L, C : AllTame(L, root) /\ InChunks(C, root) =>
        /\ fault # WildFree
        /\ phase \in {"start", "sending", "sent"} => raw = {}
        /\ phase = "receiving" => Reading(L, C)
        /\ phase \in Holding => AllHeld(L)

LEMMA SerializeStepKeepsStruct ==
    SerializeStep => /\ UNCHANGED <<mem, heap, raw>>
                     /\ fault' \in {fault, "strlen of a null pointer"}
<1>1. SerializeStep => UNCHANGED <<mem, heap, raw>>
  BY Zenon DEF SerializeStep, WriteChunked, SkipField, WriteStructField, WriteArray, WriteItems,
         WriteSwitch, LeaveSerialize, WriteBreak, WriteLiteral, WriteField, WriteLength,
         WriteItem, Now, Expand, Write, Crash, unwritten, memory
<1>2. SerializeStep => fault' \in {fault, "strlen of a null pointer"}
  BY Zenon DEF SerializeStep, WriteChunked, SkipField, WriteStructField, WriteArray, WriteItems,
         WriteSwitch, LeaveSerialize, WriteBreak, WriteLiteral, WriteField, WriteLength,
         WriteItem, Now, Expand, Write, Crash, unwritten, memory
<1> QED BY <1>1, <1>2

LEMMA DeserializeStepFaults ==
    DeserializeStep => fault' \in {fault, "write through a null pointer"}
<1> DEFINE Goal == fault' \in {fault, "write through a null pointer"}
<1>1. ASSUME NEW st, Unfold(st) PROVE Goal
  BY <1>1 DEF Unfold, untouched
<1>2. ASSUME NEW p, NEW type, NEW ret, ReadInto(p, type, ret) PROVE Goal
  BY <1>2 DEF ReadInto, untouched
<1>3. ASSUME NEW p, NEW type, NEW blocks, EnterStruct(p, type, blocks) PROVE Goal
  BY <1>3 DEF EnterStruct, Unfold, untouched
<1>4. Crash("write through a null pointer") => Goal
  BY DEF Crash
<1>5. fault' = fault => Goal
  OBVIOUS
<1> HIDE DEF Goal
<1>6. ReadChunked \/ ReadBreak \/ ReadLength \/ LeaveDeserialize => Goal
  BY <1>5 DEF ReadChunked, ReadBreak, ReadLength, LeaveDeserialize, untouched
<1>7. SkipOptional \/ ReadStaticArray \/ ReadItems \/ LastItemRead => Goal
  BY Zenon, <1>1 DEF SkipOptional, ReadStaticArray, ReadItems, LastItemRead
<1>8. ASSUME NEW alloc \in Allocations
      PROVE  /\ ReadLiteral(alloc) => Goal
             /\ ReadStructField(alloc) => Goal
             /\ ReadField(alloc) => Goal
             /\ ReadOptionalField(alloc) => Goal
             /\ ReadNumberedArray(alloc) => Goal
             /\ ReadNextItem(alloc) => Goal
             /\ ReadItem(alloc) => Goal
             /\ ReadSwitch(alloc) => Goal
  <2>1. ReadLiteral(alloc) => Goal
    BY <1>5 DEF ReadLiteral, untouched
  <2>2. ReadStructField(alloc) => Goal
    BY Zenon, <1>3, <1>4 DEF ReadStructField
  <2>3. ReadField(alloc) => Goal
    BY Zenon, <1>2 DEF ReadField
  <2>4. ReadOptionalField(alloc) => Goal
    BY Zenon, <1>4, <1>5 DEF ReadOptionalField, untouched
  <2>5. ReadNumberedArray(alloc) => Goal
    BY Zenon, <1>1, <1>5 DEF ReadNumberedArray, untouched
  <2>6. ReadNextItem(alloc) => Goal
    BY Zenon, <1>5 DEF ReadNextItem, untouched
  <2>7. ReadItem(alloc) => Goal
    BY Zenon, <1>2, <1>3 DEF ReadItem
  <2>8. ReadSwitch(alloc) => Goal
    <3>1. ReadSwitch(alloc) => (\E st : Unfold(st)) \/ fault' = fault
      BY Zenon DEF ReadSwitch, untouched
    <3> QED BY <1>1, <1>5, <3>1
  <2> QED BY Zenon, <2>1, <2>2, <2>3, <2>4, <2>5, <2>6, <2>7, <2>8
<1> QED BY Zenon, <1>6, <1>7, <1>8 DEF DeserializeStep, Goal

LEMMA FreeInvInit == Init => FreeInv
<1>1. Init => phase = "start" /\ raw = {} /\ fault = "none"
  BY Zenon DEF Init
<1> QED BY <1>1 DEF FreeInv, WildFree, Holding

LEMMA StepKeepsFree ==
    ASSUME ModesInv, FreeInv, Step
    PROVE  FreeInv'
<1>1. /\ UNCHANGED <<phase, root>> /\ fault = "none"
      /\ SerializeStep \/ DeserializeStep
  BY DEF Step, client
<1> SUFFICES ASSUME WellNested, NEW L, NEW C, AllTame(L, root), InChunks(C, root)
             PROVE  /\ fault' # WildFree
                    /\ phase \in {"start", "sending", "sent"} => raw' = {}
                    /\ phase = "receiving" => Reading(L, C)'
                    /\ phase \in Holding => AllHeld(L)'
  BY <1>1 DEF FreeInv
<1>2. /\ phase \in {"start", "sending", "sent"} => raw = {}
      /\ phase = "receiving" => Reading(L, C)
      /\ phase \in Holding => AllHeld(L)
  BY DEF FreeInv
<1>3. CASE SerializeStep
  <2>1. UNCHANGED <<mem, heap, raw>> /\ fault' # WildFree
    BY <1>1, <1>3, SerializeStepKeepsStruct DEF WildFree
  <2>2. phase # "receiving"
    BY <1>3, StepsRun DEF ModesInv, CallsReturn, Serializing
  <2>3. AllHeld(L) => AllHeld(L)'
    BY <2>1 DEF AllHeld, PointersHeld, NoPointerRaw
  <2> QED BY <1>2, <2>1, <2>2, <2>3
<1>4. CASE DeserializeStep
  <2>1. running = "deserialize" /\ phase = "receiving"
    BY <1>4, StepsRun DEF ModesInv, CallsReturn
  <2>2. fault' # WildFree
    BY <1>1, <1>4, DeserializeStepFaults DEF WildFree
  <2>3. Safely(L) /\ Chunks(C, todo, reader.chunked)
    BY <1>2, <2>1 DEF Reading
  <2>4. TextsInChunks
    BY <2>3, ChunkedTexts DEF ModesInv
  <2>5. Safely(L)'
    BY <1>4, <2>1, <2>3, <2>4, StepIsSafe
  <2>6. Chunks(C, todo', reader'.chunked)
    BY <1>4, <2>1, <2>3, StepKeepsChunks
  <2> QED BY <2>1, <2>2, <2>5, <2>6 DEF Reading, Holding
<1> QED BY <1>1, <1>3, <1>4

\* The first statements of a deserialization, with an empty struct.
LEMMA ReadingBegins ==
    ASSUME root \in DOMAIN Structs, raw = {}, NEW n \in 0 .. Len(sent), Receive(n),
           NEW L, NEW C, AllTame(L, root), InChunks(C, root)
    PROVE  Reading(L, C)'
<1> DEFINE list == Structs[root]
           s == Statements(<< >>, list)
           l == Leave(FALSE)
<1>1. /\ mem' = << >> /\ raw' = {} /\ todo' = s \o l /\ reader' = InitReader(SubSeq(sent, 1, n))
  BY DEF Receive, Call
<1>2. list \in ElementLists /\ << >> \in L[list] /\ list \notin C
  BY ListsAssumption DEF AllTame, InChunks
<1>3. reader'.chunked = FALSE
  BY <1>1 DEF InitReader
<1>4. SoundTodo(s) /\ SoundTodo(l)
  BY <1>2, ListsAreSound, LeaveIsSound
<1>5. AllOk(L, heap', s \o l)
  BY Zenon, <1>2, OkFunction
<1>6. NoLeave(s) /\ Chunks(C, s, FALSE)
  <2>1. InMode(C, s, FALSE)
    BY <1>2, ModeOfList
  <2>2. Len(s) \in Nat
    BY <1>4, JoinOfTodo
  <2> QED BY <2>1, <2>2, ModeChunks
<1>7. Chunks(C, l, FALSE)
  <2> DEFINE a == LeaveStatement(FALSE)
  <2>1. l = <<a>> /\ a.elem.kind = "leave"
    BY LeaveIsSound DEF LeaveStatement
  <2> HIDE DEF a, l
  <2>2. Len(l) = 1 /\ l[1] = a
    BY <2>1
  <2>3. \A k \in 1 .. Len(l) : l[k].elem.kind = "leave"
    BY <2>1, <2>2
  <2> QED BY <2>3 DEF Chunks, Demands
<1> HIDE DEF s, l, list
<1>8. Chunks(C, s \o l, FALSE)
  BY Zenon, <1>4, <1>6, <1>7, ChunksOfJoin
<1>9. PointersHeld(L)' /\ RawIsPending(L)'
  <2>1. DOMAIN mem' = {}
    BY <1>1
  <2> QED BY <1>1, <2>1 DEF PointersHeld, RawIsPending
<1>10. Safely(L)'
  BY <1>1, <1>5, <1>9 DEF Safely
<1>11. Chunks(C, todo', reader'.chunked)
  BY <1>1, <1>3, <1>8
<1> QED BY <1>10, <1>11 DEF Reading

LEMMA QuietKeepsFree ==
    ASSUME FreeInv, UNCHANGED <<root, mem, heap, raw>>, fault' = fault \/ fault' # WildFree,
           phase' # "receiving",
           phase' \in {"start", "sending", "sent"} => phase \in {"start", "sending", "sent"},
           phase' \in Holding => phase \in Holding
    PROVE  FreeInv'
<1> SUFFICES ASSUME WellNested, NEW L, NEW C, AllTame(L, root), InChunks(C, root)
             PROVE  /\ fault' # WildFree
                    /\ phase' \in {"start", "sending", "sent"} => raw' = {}
                    /\ phase' \in Holding => AllHeld(L)'
  BY DEF FreeInv
<1>1. /\ fault # WildFree
      /\ phase \in {"start", "sending", "sent"} => raw = {}
      /\ phase \in Holding => AllHeld(L)
  BY DEF FreeInv
<1>2. AllHeld(L) => AllHeld(L)'
  BY DEF AllHeld, PointersHeld, NoPointerRaw
<1> QED BY <1>1, <1>2

LEMMA CallerKeepsFree ==
    ASSUME ModesInv, FreeInv, Caller
    PROVE  FreeInv'
<1>1. root \in DOMAIN Structs
  BY DEF ModesInv
<1>2. ASSUME NEW w, NEW from, NEW next, SerializeInto(w, from, next), phase = from,
             \/ from = "start" /\ next = "sending"
             \/ from \in Holding /\ next \in Holding
      PROVE  FreeInv'
  <2>1. /\ UNCHANGED <<root, mem, heap, raw, fault>> /\ phase' = next
    BY <1>2 DEF SerializeInto, memory
  <2>2. "sending" \notin Holding /\ "start" \notin Holding /\ "receiving" \notin Holding
        /\ "sent" \notin Holding
    BY DEF Holding
  <2> QED BY <1>2, <2>1, <2>2, QuietKeepsFree
<1>3. CASE Send \/ Echo \/ LuaSerialize
  <2>1. PICK from, next, w : /\ SerializeInto(w, from, next) /\ phase = from
                             /\ \/ from = "start" /\ next = "sending"
                                \/ from = "received" /\ next = "echoing"
                                \/ from = "converted" /\ next = "echoing"
    BY Zenon, <1>3 DEF Send, Echo, LuaSerialize, Serialize
  <2> QED BY <1>2, <2>1 DEF Holding
<1>4. CASE WasmAnswer
  <2>1. SerializeInto(WasmWriter, "received", "answering") /\ phase = "received"
    BY Zenon, <1>4 DEF WasmAnswer
  <2> QED BY <1>2, <2>1 DEF Holding
<1>5. ASSUME NEW mode \in BOOLEAN, LuaWrite(mode)
      PROVE  FreeInv'
  <2>1. SerializeInto(LuaWriter(mode), "converted", "writing") /\ phase = "converted"
    BY Zenon, <1>5 DEF LuaWrite, SerializeInto
  <2> QED BY <1>2, <2>1 DEF Holding
<1>6. CASE Sent
  <2>1. /\ phase = "sending" /\ phase' \in {"sent", "done"}
        /\ UNCHANGED <<root, mem, heap, raw, fault>>
    BY <1>6 DEF Sent, memory, given
  <2> QED BY <2>1, QuietKeepsFree DEF Holding
<1>7. CASE Echoed \/ Written \/ Answered
  <2>1. /\ phase \in Holding /\ phase' \in Holding
        /\ UNCHANGED <<root, mem, heap, raw, fault>>
    BY <1>7 DEF Echoed, Written, Answered, SerializedAgain, memory, given, Holding
  <2> QED BY <2>1, QuietKeepsFree DEF Holding
<1>8. CASE WasmUndefined
  <2>1. /\ phase \in Holding /\ phase' \in Holding /\ fault' # WildFree
        /\ UNCHANGED <<root, mem, heap, raw>>
    BY <1>8 DEF WasmUndefined, memory, given, Holding, WildFree
  <2> QED BY <2>1, QuietKeepsFree DEF Holding
<1>9. CASE LuaError
  <2>1. phase' = "raised" /\ UNCHANGED <<root, mem, heap, raw, fault>>
    BY <1>9 DEF LuaError, structVars, given
  <2> QED BY <2>1, QuietKeepsFree DEF Holding
<1>10. CASE Received
  <2>1. /\ phase = "receiving" /\ todo = << >> /\ phase' = "received"
        /\ UNCHANGED <<root, mem, heap, raw, fault>>
    BY <1>10 DEF Received, Finished, memory, given
  <2> SUFFICES ASSUME WellNested, NEW L, NEW C, AllTame(L, root), InChunks(C, root)
               PROVE  fault # WildFree /\ AllHeld(L)'
    BY <2>1 DEF FreeInv
  <2>2. fault # WildFree /\ Safely(L)
    BY <2>1 DEF FreeInv, Reading
  <2>3. AllHeld(L)
    BY <2>1, <2>2, NothingIsPending DEF Safely, AllHeld
  <2>4. AllHeld(L)'
    BY <2>1, <2>3 DEF AllHeld, PointersHeld, NoPointerRaw
  <2> QED BY <2>2, <2>4
<1>11. ASSUME NEW n \in 0 .. Len(sent), Receive(n)
       PROVE  FreeInv'
  <2>1. phase = "sent" /\ phase' = "receiving" /\ root' = root /\ fault' = fault
    BY <1>11 DEF Receive, given
  <2> SUFFICES ASSUME WellNested, NEW L, NEW C, AllTame(L, root), InChunks(C, root)
               PROVE  fault # WildFree /\ Reading(L, C)'
    BY <2>1 DEF FreeInv, Holding
  <2>2. fault # WildFree /\ raw = {}
    BY <2>1 DEF FreeInv
  <2>3. Reading(L, C)'
    BY <1>1, <1>11, <2>2, ReadingBegins
  <2> QED BY <2>2, <2>3
<1>12. ASSUME phase \in Holding
       PROVE  WellNested => \A L, C : AllTame(L, root) /\ InChunks(C, root) =>
                  fault # WildFree /\ ~\E f \in EoFree(root) : BadFree(f)
  BY <1>1, <1>12, FreeIsOfHeld DEF FreeInv, AllHeld
<1>13. CASE Free
  <2>1. /\ phase \in Holding /\ phase' = "done" /\ root' = root
        /\ fault' = IF \E f \in EoFree(root) : BadFree(f) THEN WildFree ELSE fault
    BY Zenon, <1>13 DEF Free, given, Holding, WildFree
  <2> QED BY <1>12, <2>1 DEF FreeInv, Holding
<1>14. CASE LuaDeserialize
  <2>1. /\ phase \in Holding /\ phase' \in {"table", "done"} /\ root' = root
        /\ fault' = IF \E f \in EoFree(root) : BadFree(f) THEN WildFree ELSE fault
        /\ mem' = << >> /\ raw' = {}
    BY Zenon, <1>14 DEF LuaDeserialize, given, Holding, WildFree
  <2>2. DOMAIN mem' = {}
    BY <2>1
  <2>3. \A L : AllHeld(L)'
    BY <2>1, <2>2 DEF AllHeld, PointersHeld, NoPointerRaw
  <2>4. phase' \notin {"start", "sending", "sent", "receiving"}
    BY <2>1
  <2> QED BY <1>12, <2>1, <2>3, <2>4 DEF FreeInv
<1>15. CASE LuaConvert
  <2> DEFINE cells == CellsOf[Structs[root]][<< >>][<< >>]
  <2>1. /\ phase = "table" /\ phase' = "converted" /\ UNCHANGED <<root, raw, fault>>
        /\ mem' = [p \in DOMAIN cells |-> cells[p].value]
        /\ heap' = heap \cup {p \in DOMAIN cells : cells[p].block}
    BY <1>15 DEF LuaConvert, given
  <2> SUFFICES ASSUME WellNested, NEW L, NEW C, AllTame(L, root), InChunks(C, root)
               PROVE  fault # WildFree /\ AllHeld(L)'
    BY <2>1 DEF FreeInv
  <2>2. fault # WildFree /\ AllHeld(L)
    BY <2>1 DEF FreeInv, Holding
  <2>3. \A p \in DOMAIN cells : Pointer(L, p) => cells[p].block
    BY <1>1, CellsAreBlocks DEF BlocksAre
  <2> HIDE DEF cells
  <2>4. AllHeld(L)'
    BY <2>1, <2>2, <2>3 DEF AllHeld, PointersHeld, NoPointerRaw
  <2> QED BY <2>2, <2>4
<1> QED
  BY Zenon, <1>3, <1>4, <1>5, <1>6, <1>7, <1>8, <1>9, <1>10, <1>11, <1>13, <1>14, <1>15
     DEF Caller

LEMMA FreeInvNext == ModesInv /\ FreeInv /\ [Next]_vars => FreeInv'
<1> SUFFICES ASSUME ModesInv, FreeInv, [Next]_vars PROVE FreeInv'
  OBVIOUS
<1>1. CASE UNCHANGED vars
  <2>1. UNCHANGED <<phase, root, fault, todo, reader, mem, heap, raw>>
    BY <1>1 DEF vars, structVars
  <2>2. at' = at /\ elem' = elem
    BY <2>1 DEF at, elem
  <2>3. \A L, C : Reading(L, C)' <=> Reading(L, C)
    BY <2>1, <2>2 DEF Reading, Safely, PointersHeld, RawIsPending, IsPending, AllOk
  <2>4. \A L : AllHeld(L)' <=> AllHeld(L)
    BY <2>1 DEF AllHeld, PointersHeld, NoPointerRaw
  <2> QED BY <2>1, <2>3, <2>4 DEF FreeInv
<1> QED BY <1>1, StepKeepsFree, CallerKeepsFree DEF Next

(* eo_free passes only null and live blocks to free, of a struct that came  *)
(* whole or broke off anywhere, whichever allocation failed, and of the one *)
(* that Lua made of a table, if the definition is freeable                  *)
(* (docs/getting_started.dox:463).                                          *)
THEOREM FreesAreSafe == Spec => [](IsFreeable => FreeIsSafe)
<1>1. FreeInv => (IsFreeable => FreeIsSafe)
  BY DEF FreeInv, IsFreeable, FreeIsSafe, WildFree
<1> QED BY <1>1, ModesInvInit, ModesInvNext, FreeInvInit, FreeInvNext, PTL DEF Spec

-----------------------------------------------------------------------------
\* A field of its own name that is no struct, or an element without a cell.
StandsAlone(list, k) ==
    LET e == list[k]
    IN  /\ e.kind \in {"break", "dummy", "length", "field"}
        /\ e.kind = "field" => ~IsStruct(e.type)
        /\ e.kind = "field" /\ e.name # None =>
               /\ {"kind", "name", "type", "optional", "override"} \subseteq DOMAIN e
               /\ Owns(e.type) => ~IsEnum(e.type)
               /\ \A j \in 1 .. Len(list) :
                      list[j].kind = "field" /\ list[j].name = e.name => j = k

LEMMA OneLonger ==
    ASSUME NEW S, NEW t \in Seq(S), NEW x \in S
    PROVE  Len(Append(t, x)) = Len(t) + 1
OBVIOUS

LEMMA OneName ==
    ASSUME NEW x, NEW y, NEW z
    PROVE  /\ Append(<< >>, x) = Append(<< >>, y) => x = y
           /\ Append(Append(<< >>, x), z) # Append(<< >>, y)
<1> DEFINE S == {x, y, z}
           w == << >>
           a == Append(w, x)
           b == Append(w, y)
           c == Append(a, z)
<1> SUFFICES (a = b => x = y) /\ c # b
  OBVIOUS
<1>1. w \in Seq(S) /\ Len(w) = 0 /\ x \in S /\ y \in S /\ z \in S
  OBVIOUS
<1> HIDE DEF S, w
<1>2. /\ a \in Seq(S) /\ Len(a) = 1 /\ a[1] = x
      /\ b \in Seq(S) /\ Len(b) = 1 /\ b[1] = y
  BY <1>1
<1>3. a = b => x = y
  BY <1>2
<1> HIDE DEF a, b
<1>4. Len(c) = 2
  <2>1. a \in Seq(S) /\ z \in S /\ Len(a) = 1
    BY <1>1, <1>2
  <2>2. Len(c) = Len(a) + 1
    BY Zenon, <2>1, OneLonger
  <2> QED BY <2>1, <2>2
<1>5. c # b
  BY <1>2, <1>4
<1> QED BY <1>3, <1>5

\* What the theorem asks of a definition holds of every struct of fields of their own names.
LEMMA FlatIsFreeable ==
    ASSUME NEW type \in DOMAIN Structs,
           \A k \in 1 .. Len(Structs[type]) : StandsAlone(Structs[type], k)
    PROVE  (\E L : AllTame(L, type)) /\ (\E C : InChunks(C, type))
<1> DEFINE flat == Structs[type]
           L == [list \in ElementLists |-> IF list = flat THEN {<< >>} ELSE {}]
           C == ElementLists \ {flat}
<1>1. flat \in ElementLists
  BY ListsAssumption
<1>2. << >> \in Paths
  BY DEF Paths
<1>3. /\ L \in [ElementLists -> SUBSET Paths] /\ << >> \in L[flat]
      /\ \A list \in ElementLists : \A w \in L[list] : list = flat /\ w = << >>
  BY <1>1, <1>2
<1>4. \A k \in 1 .. Len(flat) : StandsAlone(flat, k)
  OBVIOUS
<1> HIDE DEF L, flat
<1>5. ASSUME NEW p, Pointer(L, p)
      PROVE  \E j \in 1 .. Len(flat) : /\ flat[j].kind = "field" /\ flat[j].name # None
                                       /\ Owns(flat[j].type) \/ flat[j].optional
                                       /\ p = Append(<< >>, flat[j].name)
  <2>1. PICK list \in ElementLists : \E w \in L[list] :
                 \E j \in 1 .. Len(list) : IsPointer(w, list[j], p)
    BY <1>5 DEF Pointer
  <2>4. PICK w \in L[list] : \E j \in 1 .. Len(list) : IsPointer(w, list[j], p)
    BY <2>1
  <2>5. PICK j \in 1 .. Len(list) : IsPointer(w, list[j], p)
    BY <2>4
  <2>2. list = flat /\ w = << >>
    BY <1>3
  <2>3. StandsAlone(flat, j)
    BY <1>4, <2>2
  <2> QED BY <2>5, <2>2, <2>3 DEF IsPointer, StandsAlone, Field
<1>6. ASSUME NEW k \in 1 .. Len(flat) PROVE Tame(L, << >>, flat[k])
  <2> DEFINE e == flat[k]
  <2>1. StandsAlone(flat, k)
    BY <1>4
  <2>2. e.kind \in {"break", "dummy", "length", "field"}
    BY <2>1 DEF StandsAlone
  <2>3. ASSUME e.kind = "field", e.name # None PROVE TameField(L, << >>, e)
    <3>1. /\ {"kind", "name", "type", "optional", "override"} \subseteq DOMAIN e
          /\ ~IsStruct(e.type) /\ (Owns(e.type) => ~IsEnum(e.type))
      BY <2>1, <2>3 DEF StandsAlone
    <3>2. ~Pointer(L, Append(Append(<< >>, e.name), "length"))
      <4> SUFFICES ASSUME Pointer(L, Append(Append(<< >>, e.name), "length")) PROVE FALSE
        OBVIOUS
      <4>1. PICK j \in 1 .. Len(flat) :
                Append(Append(<< >>, e.name), "length") = Append(<< >>, flat[j].name)
        BY <1>5
      <4> QED BY <4>1, OneName
    <3>3. ASSUME Pointer(L, Append(<< >>, e.name)) PROVE Owns(e.type) \/ e.optional
      <4>1. PICK j \in 1 .. Len(flat) : /\ flat[j].kind = "field"
                                        /\ Owns(flat[j].type) \/ flat[j].optional
                                        /\ Append(<< >>, e.name) = Append(<< >>, flat[j].name)
        BY <1>5, <3>3
      <4>2. flat[j].name = e.name
        BY Zenon, <4>1, OneName
      <4>3. j = k
        BY <2>1, <2>3, <4>1, <4>2 DEF StandsAlone
      <4> QED BY <4>1, <4>3
    <3> QED BY <3>1, <3>2, <3>3 DEF TameField, Field
  <2> HIDE DEF e
  <2> QED BY <2>2, <2>3 DEF Tame, e
<1>7. AllTame(L, type)
  BY <1>3, <1>6 DEF AllTame, flat
<1>8. ASSUME NEW list \in ElementLists, NEW k \in 1 .. Len(list), Demands(C, list[k])
      PROVE  list \in C
  <2>1. ASSUME list = flat PROVE FALSE
    <3>1. StandsAlone(flat, k)
      BY <1>4, <1>8, <2>1
    <3>2. /\ list[k].kind \in {"break", "dummy", "length", "field"}
          /\ list[k].kind = "field" => ~IsStruct(list[k].type)
      BY <2>1, <3>1 DEF StandsAlone
    <3> HIDE DEF C
    <3> QED BY <1>8, <3>2 DEF Demands
  <2> QED BY <1>8, <2>1
<1>9. InChunks(C, type)
  BY <1>8 DEF InChunks, flat
<1> QED BY <1>7, <1>9
=============================================================================
