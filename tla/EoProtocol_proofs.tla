-------------------------- MODULE EoProtocol_proofs --------------------------
(***************************************************************************)
(* Proofs about EoProtocol, for every protocol definition whose lists of   *)
(* elements are finite sequences (ListsAssumption): the modes are restored;*)
(* what arrives of plain messages and what is sent back of them; a size    *)
(* is exact.                                                               *)
(***************************************************************************)
EXTENDS EoProtocol, EoCodec_proofs, FiniteSetTheorems

\* The return of a call that found the mode set.
LeaveStatement(mode) ==
    [at |-> << >>, elem |-> [kind |-> "leave", mode |-> mode], scope |-> << >>]

\* A statement whose nested lists are lists of the definition.
Sound(s) ==
    /\ s = [at |-> s.at, elem |-> s.elem, scope |-> s.scope]
    /\ "kind" \in DOMAIN s.elem
    /\ s.elem.kind = "chunked" => s.elem.elements \in ElementLists
    /\ s.elem.kind = "switch" =>
           \A c \in 1 .. Len(s.elem.cases) : s.elem.cases[c].elements \in ElementLists
    /\ s.elem.kind = "loop" => /\ "array" \in DOMAIN s.elem
                               /\ "kind" \in DOMAIN s.elem.array

SoundTodo(t) ==
    /\ t \in Seq({t[k] : k \in DOMAIN t})
    /\ \A k \in 1 .. Len(t) : Sound(t[k])

\* What is left of a call ends with the return of its outermost function.
EndsWith(t, mode) == t # << >> => t[Len(t)] = LeaveStatement(mode)

Serializing   == {"sending", "echoing", "writing", "answering"}

(* A call of serialize comes to an end either with an error or by the       *)
(* return that restores the mode it found; so does one of deserialize.      *)
CallsReturn ==
    /\ running = "serialize" =>
           /\ phase \in Serializing
           /\ EndsWith(todo, found)
           /\ todo = << >> /\ result = "EO_SUCCESS" => writer.sanitize = found
    /\ running = "deserialize" =>
           /\ phase = "receiving"
           /\ EndsWith(todo, FALSE)
           /\ todo = << >> /\ result = "EO_SUCCESS" => reader.chunked = FALSE

ModesInv ==
    /\ "sanitize" \in DOMAIN writer
    /\ "chunked" \in DOMAIN reader
    /\ SoundTodo(todo)
    /\ running \in {"none", "serialize", "deserialize"}
    /\ root \in DOMAIN Structs
    /\ CallsReturn
    /\ ModesRestored

-----------------------------------------------------------------------------
\* Lists of statements.

LEMMA EmptyIsSound == SoundTodo(<< >>)
BY DEF SoundTodo

LEMMA OneIsSound ==
    ASSUME NEW s, Sound(s)
    PROVE  SoundTodo(<<s>>) /\ Len(<<s>>) = 1 /\ <<s>>[1] = s
BY DEF SoundTodo

LEMMA JoinIsSound ==
    ASSUME NEW a, NEW b, SoundTodo(a), SoundTodo(b)
    PROVE  /\ SoundTodo(a \o b)
           /\ b # << >> => a \o b # << >> /\ (a \o b)[Len(a \o b)] = b[Len(b)]
<1> DEFINE A == {a[k] : k \in DOMAIN a}
           B == {b[k] : k \in DOMAIN b}
           S == A \cup B
           j == a \o b
<1>1. a \in Seq(A) /\ b \in Seq(B)
  BY DEF SoundTodo
<1>2. a \in Seq(S) /\ b \in Seq(S)
  <2>1. A \subseteq S /\ B \subseteq S
    OBVIOUS
  <2> QED BY <1>1, <2>1
<1>3. /\ j \in Seq(S)
      /\ Len(j) = Len(a) + Len(b) /\ Len(a) \in Nat /\ Len(b) \in Nat
      /\ \A k \in 1 .. Len(j) : j[k] = IF k <= Len(a) THEN a[k] ELSE b[k - Len(a)]
  <2> HIDE DEF S
  <2> QED BY <1>2
<1>4. j \in Seq({j[k] : k \in DOMAIN j})
  <2> HIDE DEF j, S
  <2>1. j = [k \in 1 .. Len(j) |-> j[k]] /\ DOMAIN j = 1 .. Len(j) /\ Len(j) \in Nat
    BY <1>3
  <2>2. \A k \in 1 .. Len(j) : j[k] \in {j[i] : i \in DOMAIN j}
    BY <2>1
  <2> QED BY <2>1, <2>2
<1>5. \A k \in 1 .. Len(j) : Sound(j[k])
  <2> TAKE k \in 1 .. Len(j)
  <2>1. CASE k <= Len(a)
    <3>1. k \in 1 .. Len(a) /\ j[k] = a[k]
      BY <1>3, <2>1
    <3> QED BY <3>1 DEF SoundTodo
  <2>2. CASE ~(k <= Len(a))
    <3>1. k - Len(a) \in 1 .. Len(b) /\ j[k] = b[k - Len(a)]
      BY <1>3, <2>2
    <3> QED BY <3>1 DEF SoundTodo
  <2> QED BY <2>1, <2>2
<1>6. b # << >> => j # << >> /\ j[Len(j)] = b[Len(b)]
  <2> SUFFICES ASSUME b # << >> PROVE j # << >> /\ j[Len(j)] = b[Len(b)]
    OBVIOUS
  <2>1. Len(b) > 0
    BY <1>1, <1>3
  <2>2. Len(j) \in 1 .. Len(j) /\ ~(Len(j) <= Len(a)) /\ Len(j) - Len(a) = Len(b)
    BY <1>3, <2>1
  <2>3. j[Len(j)] = b[Len(b)]
    BY <1>3, <2>2
  <2>4. j # << >>
    <3>1. Len(j) # 0
      BY <2>2
    <3> QED BY <3>1
  <2> QED BY <2>3, <2>4
<1> QED BY Zenon, <1>4, <1>5, <1>6 DEF SoundTodo

LEMMA TailIsSound ==
    ASSUME NEW t, NEW mode, SoundTodo(t), t # << >>, EndsWith(t, mode)
    PROVE  /\ Sound(Head(t))
           /\ SoundTodo(Tail(t))
           /\ EndsWith(Tail(t), mode)
           /\ Tail(t) = << >> => Head(t) = LeaveStatement(mode)
<1> DEFINE T == {t[k] : k \in DOMAIN t}
           u == Tail(t)
<1>1. t \in Seq(T) /\ Len(t) \in Nat /\ Len(t) > 0
  <2>1. t \in Seq(T)
    BY DEF SoundTodo
  <2> HIDE DEF T
  <2> QED BY <2>1
<1>2. /\ u \in Seq(T) /\ Len(u) = Len(t) - 1
      /\ \A k \in 1 .. Len(u) : u[k] = t[k + 1]
  <2> HIDE DEF T
  <2> QED BY <1>1
<1>3. u \in Seq({u[k] : k \in DOMAIN u})
  <2> HIDE DEF u, T
  <2>1. u = [k \in 1 .. Len(u) |-> u[k]] /\ DOMAIN u = 1 .. Len(u) /\ Len(u) \in Nat
    BY <1>1, <1>2
  <2>2. \A k \in 1 .. Len(u) : u[k] \in {u[i] : i \in DOMAIN u}
    BY <2>1
  <2> QED BY <2>1, <2>2
<1>4. \A k \in 1 .. Len(u) : Sound(u[k])
  <2> TAKE k \in 1 .. Len(u)
  <2>1. k + 1 \in 1 .. Len(t) /\ u[k] = t[k + 1]
    BY <1>1, <1>2
  <2> QED BY <2>1 DEF SoundTodo
<1>5. Sound(Head(t)) /\ Head(t) = t[1]
  <2>1. Head(t) = t[1] /\ 1 \in 1 .. Len(t)
    BY <1>1
  <2> QED BY <2>1 DEF SoundTodo
<1>6. t[Len(t)] = LeaveStatement(mode)
  BY DEF EndsWith
<1>7. EndsWith(u, mode)
  <2> SUFFICES ASSUME u # << >> PROVE u[Len(u)] = LeaveStatement(mode)
    BY DEF EndsWith
  <2>1. Len(u) > 0
    BY <1>1, <1>2
  <2>2. Len(u) \in 1 .. Len(u) /\ Len(u) + 1 = Len(t)
    BY <1>1, <1>2, <2>1
  <2> QED BY <1>2, <1>6, <2>2
<1>8. u = << >> => Head(t) = LeaveStatement(mode)
  <2> SUFFICES ASSUME u = << >> PROVE Head(t) = LeaveStatement(mode)
    OBVIOUS
  <2>1. Len(t) = 1
    <3>1. Len(u) = 0
      <4> HIDE DEF u
      <4> QED OBVIOUS
    <3> QED BY <1>1, <1>2, <3>1
  <2> QED BY <1>5, <1>6, <2>1
<1> QED BY Zenon, <1>3, <1>4, <1>5, <1>7, <1>8 DEF SoundTodo

-----------------------------------------------------------------------------
\* The statements that are put in the place of one.

LEMMA ListsAreSound ==
    ASSUME NEW where, NEW list \in ElementLists
    PROVE  SoundTodo(Statements(where, list))
<1> DEFINE t == Statements(where, list)
           T == {t[k] : k \in DOMAIN t}
<1>1. Len(list) \in Nat
  BY ListsAssumption
<1>2. t = [k \in 1 .. Len(list) |->
              [at |-> where, elem |-> list[k], scope |-> list]]
  BY DEF Statements
<1>3. DOMAIN t = 1 .. Len(list)
  BY <1>2
<1>4. t \in Seq(T) /\ Len(t) = Len(list)
  <2>1. \A k \in 1 .. Len(list) : t[k] \in T
    BY <1>3
  <2>2. t = [k \in 1 .. Len(list) |-> t[k]]
    BY <1>2, <1>3
  <2> HIDE DEF t, T
  <2> QED BY <1>1, <1>3, <2>1, <2>2
<1>5. \A k \in 1 .. Len(t) : Sound(t[k])
  <2> TAKE k \in 1 .. Len(t)
  <2>1. k \in 1 .. Len(list)
    BY <1>4
  <2>2. t[k] = [at |-> where, elem |-> list[k], scope |-> list]
    BY <1>2, <2>1
  <2> QED BY <2>1, <2>2, ListsAssumption DEF Sound, Kinds
<1> QED BY <1>4, <1>5 DEF SoundTodo

LEMMA LeaveIsSound ==
    ASSUME NEW mode
    PROVE  SoundTodo(Leave(mode)) /\ Leave(mode) = <<LeaveStatement(mode)>>
<1>1. Leave(mode) = <<LeaveStatement(mode)>>
  BY DEF Leave, Statement, LeaveStatement
<1>2. Sound(LeaveStatement(mode))
  BY DEF Sound, LeaveStatement
<1> QED BY <1>1, <1>2, OneIsSound

LEMMA BreakIsSound == SoundTodo(Break)
<1> DEFINE s == [at |-> << >>, elem |-> [kind |-> "break"], scope |-> << >>]
<1>1. Break = <<s>>
  BY DEF Break, Statement
<1>2. Sound(s)
  BY DEF Sound
<1> HIDE DEF s
<1> QED BY <1>1, <1>2, OneIsSound

\* A function of a nested struct: its elements and its return.
LEMMA FunctionsAreSound ==
    ASSUME NEW where, NEW list \in ElementLists, NEW mode
    PROVE  /\ SoundTodo(Statements(where, list) \o Leave(mode))
           /\ Statements(where, list) \o Leave(mode) # << >>
           /\ EndsWith(Statements(where, list) \o Leave(mode), mode)
<1>1. Leave(mode) # << >> /\ Len(Leave(mode)) = 1 /\ Leave(mode)[1] = LeaveStatement(mode)
  BY LeaveIsSound
<1> DEFINE t == Statements(where, list)
           l == Leave(mode)
<1>2. SoundTodo(t) /\ SoundTodo(l)
  BY ListsAreSound, LeaveIsSound
<1> HIDE DEF t, l
<1>3. SoundTodo(t \o l) /\ t \o l # << >> /\ (t \o l)[Len(t \o l)] = l[Len(l)]
  BY Zenon, <1>1, <1>2, JoinIsSound DEF l
<1> QED BY <1>1, <1>3 DEF EndsWith, t, l

LEMMA ItemsAreSound ==
    ASSUME NEW where, NEW e, "kind" \in DOMAIN e
    PROVE  SoundTodo(Statement(where, [e EXCEPT !.kind = "item"]))
<1> DEFINE s == [at |-> where, elem |-> [e EXCEPT !.kind = "item"], scope |-> << >>]
<1>1. Statement(where, [e EXCEPT !.kind = "item"]) = <<s>>
  BY DEF Statement
<1>2. Sound(s)
  BY DEF Sound
<1> HIDE DEF s
<1> QED BY <1>1, <1>2, OneIsSound

LEMMA LoopsAreSound ==
    ASSUME NEW where, NEW e, "kind" \in DOMAIN e, NEW n
    PROVE  SoundTodo(LoopOver(where, e, n))
<1> DEFINE s == [at |-> where, elem |-> [kind |-> "loop", array |-> e, i |-> 0, n |-> n],
                 scope |-> << >>]
<1>1. LoopOver(where, e, n) = <<s>>
  BY DEF LoopOver, Statement
<1>2. Sound(s)
  BY DEF Sound
<1> HIDE DEF s
<1> QED BY <1>1, <1>2, OneIsSound

LEMMA RoundsAreSound ==
    ASSUME todo # << >>, Sound(Head(todo)), elem.kind = "loop"
    PROVE  SoundTodo(Round)
<1> DEFINE e    == elem.array
           item == Statement(Item(at, e.name, elem.i), [e EXCEPT !.kind = "item"])
           s    == [Head(todo) EXCEPT !.elem.i = @ + 1]
<1>1. "kind" \in DOMAIN e
  BY DEF Sound, elem
<1>2. SoundTodo(item)
  BY <1>1, ItemsAreSound
<1>3. Sound(s)
  <2>1. Head(todo) = [at |-> Head(todo).at, elem |-> elem, scope |-> Head(todo).scope]
    BY DEF Sound, elem
  <2>2. s = [at |-> Head(todo).at, elem |-> [elem EXCEPT !.i = @ + 1],
             scope |-> Head(todo).scope]
    BY <2>1
  <2>3. /\ {"kind", "array"} \subseteq DOMAIN elem
        /\ [elem EXCEPT !.i = @ + 1].kind = elem.kind
        /\ [elem EXCEPT !.i = @ + 1].array = elem.array
        /\ DOMAIN [elem EXCEPT !.i = @ + 1] = DOMAIN elem
    BY DEF Sound, elem
  <2> QED BY <1>1, <2>2, <2>3 DEF Sound
<1>4. SoundTodo(<<s>>)
  BY <1>3, OneIsSound
<1>5. Round = IF ~(elem.i < elem.n) THEN << >>
              ELSE IF ~e.delimited THEN item \o <<s>>
              ELSE IF e.trailing THEN item \o Break \o <<s>>
              ELSE IF elem.i > 0 THEN Break \o item \o <<s>> ELSE item \o <<s>>
  BY DEF Round
<1> HIDE DEF item, s, e
<1>6. /\ SoundTodo(item \o <<s>>)
      /\ SoundTodo(item \o Break)
      /\ SoundTodo(Break \o item)
  BY <1>2, <1>4, BreakIsSound, JoinIsSound
<1>7. SoundTodo(item \o Break \o <<s>>) /\ SoundTodo(Break \o item \o <<s>>)
  BY <1>4, <1>6, JoinIsSound
<1> QED BY <1>5, <1>6, <1>7, EmptyIsSound

\* What a step may make of the statements: it carries on, or it gives up.
LEMMA GoesOn ==
    ASSUME NEW t, NEW mode, SoundTodo(t), t # << >>, EndsWith(t, mode),
           Head(t).elem.kind # "leave", NEW st, SoundTodo(st)
    PROVE  /\ SoundTodo(st \o Tail(t)) /\ st \o Tail(t) # << >>
           /\ EndsWith(st \o Tail(t), mode)
           /\ SoundTodo(Tail(t)) /\ Tail(t) # << >> /\ EndsWith(Tail(t), mode)
<1>1. Tail(t) # << >>
  <2>1. LeaveStatement(mode).elem.kind = "leave"
    BY DEF LeaveStatement
  <2> QED BY Zenon, <2>1, TailIsSound
<1>2. SoundTodo(Tail(t)) /\ EndsWith(Tail(t), mode)
  BY TailIsSound
<1> QED BY <1>1, <1>2, JoinIsSound DEF EndsWith

-----------------------------------------------------------------------------
(* Every function of the writer gives back the struct it got, and so do     *)
(* those of the reader: the mode is there to be set.                        *)

LEMMA AppendKeepsStruct ==
    ASSUME NEW w, "sanitize" \in DOMAIN w, NEW s, NEW fail
    PROVE  /\ "sanitize" \in DOMAIN EnsureAndAppend(w, s, fail).writer
           /\ "sanitize" \in DOMAIN AppendEncoded(w, s, fail).writer
<1>1. \A v, t : DOMAIN Put(v, t) = DOMAIN v
  BY DEF Put
<1>2. \A n : "sanitize" \in DOMAIN EnsureCapacity(w, n, fail).writer
  BY DEF EnsureCapacity, Ok, Refused
<1> QED BY <1>1, <1>2 DEF EnsureAndAppend, AppendEncoded, Ok, Refused

LEMMA AddKeepsStruct ==
    ASSUME "sanitize" \in DOMAIN writer, NEW fail
    PROVE  /\ \A s : "sanitize" \in DOMAIN AddBytes(writer, s, fail).writer
           /\ \A type, value : "sanitize" \in DOMAIN AddTyped(type, value, fail).writer
           /\ \A type, text, length, padded :
                  "sanitize" \in DOMAIN AddFixed(type, text, length, padded, fail).writer
<1>1. \A s : "sanitize" \in DOMAIN AddBytes(writer, s, fail).writer
  BY AppendKeepsStruct DEF AddBytes
<1>2. \A n, value : "sanitize" \in DOMAIN AddNumber(writer, n, value, fail).writer
  BY AppendKeepsStruct DEF AddNumber, Refused
<1>3. \A text : /\ "sanitize" \in DOMAIN AddString(writer, text, fail).writer
                 /\ "sanitize" \in DOMAIN AddEncodedString(writer, text, fail).writer
  BY AppendKeepsStruct DEF AddString, AddEncodedString, Refused, Ok
<1>4. \A text, length, padded :
         /\ "sanitize" \in DOMAIN AddFixedString(writer, text, length, padded, fail).writer
         /\ "sanitize" \in DOMAIN AddFixedEncodedString(writer, text, length, padded, fail).writer
  BY AppendKeepsStruct DEF AddFixedString, AddFixedEncodedString, Refused, Ok
<1>5. \A type, value : "sanitize" \in DOMAIN AddTyped(type, value, fail).writer
  <2> TAKE type, value
  <2>1. "sanitize" \in DOMAIN Refused(writer, "EO_NULL_PTR").writer
    BY DEF Refused
  <2> QED BY <1>1, <1>2, <1>3, <2>1 DEF AddTyped
<1> QED BY <1>1, <1>4, <1>5 DEF AddFixed

-----------------------------------------------------------------------------
\* The statements of serialize.

(* What a step does with a call: it goes on, gives up, stops in a fault, or *)
(* returns.                                                                 *)
Moved(mode, restored) ==
    \/ SoundTodo(todo') /\ EndsWith(todo', mode) /\ (todo' = << >> => restored)
    \/ todo' = << >> /\ result' # "EO_SUCCESS"
    \/ UNCHANGED <<todo, result, writer, reader>>

LEMMA ExpandMoves ==
    ASSUME SoundTodo(todo), todo # << >>, NEW mode, EndsWith(todo, mode),
           elem.kind # "leave", NEW st, SoundTodo(st), NEW restored,
           todo' = st \o Tail(todo)
    PROVE  Moved(mode, restored)
BY Zenon, GoesOn DEF Moved, elem

LEMMA TailMoves ==
    ASSUME SoundTodo(todo), todo # << >>, NEW mode, EndsWith(todo, mode),
           elem.kind # "leave", NEW restored, todo' = Tail(todo)
    PROVE  Moved(mode, restored)
BY Zenon, GoesOn, EmptyIsSound DEF Moved, elem

LEMMA FailMoves ==
    ASSUME NEW error, error # "EO_SUCCESS", Fail(error), NEW mode, NEW restored
    PROVE  Moved(mode, restored)
BY DEF Fail, Moved

LEMMA WriteMoves ==
    ASSUME SoundTodo(todo), todo # << >>, EndsWith(todo, found), elem.kind # "leave",
           NEW ret, "sanitize" \in DOMAIN ret.writer, Write(ret)
    PROVE  /\ running' = running /\ reader' = reader /\ "sanitize" \in DOMAIN writer'
           /\ Moved(found, writer'.sanitize = found)
<1>1. running' = running /\ reader' = reader /\ writer' = ret.writer
  BY DEF Write, unwritten
<1>2. CASE ret.result = "EO_SUCCESS"
  <2>1. todo' = Tail(todo)
    BY <1>2 DEF Write
  <2> QED BY <1>1, <2>1, TailMoves
<1>3. CASE ret.result # "EO_SUCCESS"
  <2>1. Fail(ret.result)
    BY <1>3 DEF Write
  <2> QED BY <1>1, <1>3, <2>1, FailMoves
<1> QED BY <1>2, <1>3

LEMMA ChosenListIsListed ==
    ASSUME Sound(Head(todo)), elem.kind = "switch", NEW value,
           ChosenCase(elem, value) # None
    PROVE  ChosenCase(elem, value).elements \in ElementLists
<1> DEFINE n == 1 .. Len(elem.cases)
           generated == {c \in n : elem.cases[c].elements # << >>}
           matching  == {c \in generated :
                             ~elem.cases[c].default /\ elem.cases[c].value = value}
           defaults  == {c \in generated : elem.cases[c].default}
           m == CHOOSE c \in matching : TRUE
           d == CHOOSE c \in defaults : TRUE
<1>1. ChosenCase(elem, value) = IF matching # {} THEN elem.cases[m]
                                ELSE IF defaults # {} THEN elem.cases[d] ELSE None
  BY DEF ChosenCase, ChosenAmong
<1>2. /\ matching # {} => m \in n
      /\ defaults # {} => d \in n
  OBVIOUS
<1>3. \A c \in n : elem.cases[c].elements \in ElementLists
  BY DEF Sound, elem
<1> HIDE DEF n, matching, defaults, m, d
<1> QED BY <1>1, <1>2, <1>3

LEMMA SerializeMoves ==
    ASSUME ModesInv, running = "serialize", SerializeStep
    PROVE  /\ running' = running /\ reader' = reader /\ "sanitize" \in DOMAIN writer'
           /\ Moved(found, writer'.sanitize = found)
<1> DEFINE Goal == /\ running' = running /\ reader' = reader
                   /\ "sanitize" \in DOMAIN writer'
                   /\ Moved(found, writer'.sanitize = found)
<1> SUFFICES Goal
  OBVIOUS
<1>1. SoundTodo(todo) /\ EndsWith(todo, found) /\ "sanitize" \in DOMAIN writer
  BY DEF ModesInv, CallsReturn
<1>2. todo # << >> => Sound(Head(todo))
  BY Zenon, <1>1, TailIsSound
<1>3. ASSUME NEW st, todo # << >>, elem.kind # "leave", SoundTodo(st), Expand(st)
      PROVE  Goal
  <2>1. todo' = st \o Tail(todo) /\ running' = running /\ reader' = reader /\ writer' = writer
    BY <1>3 DEF Expand, unwritten
  <2> QED BY Zenon, <1>1, <1>3, <2>1, ExpandMoves
<1>4. ASSUME NEW ret, todo # << >>, elem.kind # "leave",
             "sanitize" \in DOMAIN ret.writer, Write(ret)
      PROVE  Goal
  BY <1>1, <1>4, WriteMoves
<1>5. \A p, type : IsStruct(type) => SoundTodo(SerializeStruct(p, type))
  BY FunctionsAreSound, ListsAssumption DEF IsStruct, SerializeStruct
<1>6. CASE WriteChunked
  <2>1. todo # << >> /\ elem.kind = "chunked" /\ elem.elements \in ElementLists
    BY <1>2, <1>6 DEF WriteChunked, Now, Sound, elem
  <2>2. SoundTodo(Statements(at, elem.elements))
    BY <2>1, ListsAreSound
  <2>3. /\ todo' = Statements(at, elem.elements) \o Tail(todo)
        /\ running' = running /\ reader' = reader /\ "sanitize" \in DOMAIN writer'
    BY <1>1, <1>6 DEF WriteChunked, unwritten, SetSanitization
  <2> QED BY Zenon, <1>1, <2>1, <2>2, <2>3, ExpandMoves
<1>7. CASE SkipField
  BY <1>3, <1>7, EmptyIsSound DEF SkipField, Now
<1>8. CASE WriteStructField
  BY <1>3, <1>5, <1>8 DEF WriteStructField, Now
<1>9. CASE WriteArray
  <2>1. todo # << >> /\ elem.kind = "array" /\ "kind" \in DOMAIN elem
    BY <1>2, <1>9 DEF WriteArray, Now, Sound, elem
  <2>2. \A n : SoundTodo(LoopOver(at, elem, n))
    BY <2>1, LoopsAreSound
  <2> QED BY <1>3, <1>9, <2>1, <2>2, EmptyIsSound DEF WriteArray
<1>10. CASE WriteItems
  <2>1. todo # << >> /\ elem.kind = "loop" /\ Expand(Round)
    BY <1>10 DEF WriteItems, Now
  <2> QED BY <1>2, <1>3, <2>1, RoundsAreSound
<1>11. CASE WriteSwitch
  <2> DEFINE c == ChosenCase(elem, Cell(Field(at, elem.field), 0))
             st == IF c = None THEN << >>
                   ELSE IF ~HasStorage[c.elements] THEN Statements(at, c.elements)
                   ELSE IF Cell(Data(at, elem), NULL) = NULL THEN << >>
                   ELSE Statements(CaseAt(at, elem, c), c.elements)
  <2>1. todo # << >> /\ elem.kind = "switch" /\ Expand(st)
    BY <1>11 DEF WriteSwitch, Now
  <2>2. c # None => c.elements \in ElementLists
    BY <1>2, <2>1, ChosenListIsListed
  <2> HIDE DEF c
  <2>3. SoundTodo(st)
    BY <2>2, ListsAreSound, EmptyIsSound
  <2> HIDE DEF st
  <2> QED BY <1>3, <2>1, <2>3
<1>12. CASE LeaveSerialize
  <2>1. /\ todo # << >> /\ todo' = Tail(todo) /\ writer' = SetSanitization(writer, elem.mode)
        /\ running' = running /\ reader' = reader
    BY <1>12 DEF LeaveSerialize, Now, unwritten
  <2>2. "sanitize" \in DOMAIN writer' /\ writer'.sanitize = elem.mode
    BY <1>1, <2>1 DEF SetSanitization
  <2>3. todo' = << >> => elem.mode = found
    <3>1. LeaveStatement(found).elem.mode = found
      BY DEF LeaveStatement
    <3> QED BY Zenon, <1>1, <2>1, <3>1, TailIsSound DEF elem
  <2>4. SoundTodo(todo') /\ EndsWith(todo', found)
    BY <1>1, <2>1, TailIsSound
  <2> QED BY <2>1, <2>2, <2>3, <2>4 DEF Moved
<1>13. ASSUME NEW fail \in WriterFailures, WriteBreak(fail)
       PROVE  Goal
  BY <1>1, <1>4, <1>13, AddKeepsStruct DEF WriteBreak, Now
<1>14. ASSUME NEW fail \in WriterFailures, WriteLiteral(fail)
       PROVE  Goal
  BY <1>1, <1>4, <1>14, AddKeepsStruct DEF WriteLiteral, Literal
<1>15. ASSUME NEW fail \in WriterFailures, WriteField(fail)
       PROVE  Goal
  <2> DEFINE zero  == IF IsString(elem.type) \/ elem.type = "blob" THEN NULL ELSE 0
             value == IF elem.value # None THEN elem.value ELSE Cell(path, zero)
             ret   == IF IsString(elem.type) /\ IsStatic(elem)
                      THEN AddFixed(elem.type, value, elem.length, elem.padded, fail)
                      ELSE AddTyped(FieldNumber(elem), value, fail)
  <2>1. todo # << >> /\ elem.kind = "field" /\ Write(ret)
    BY <1>15 DEF WriteField, Now
  <2> HIDE DEF value
  <2>2. "sanitize" \in DOMAIN ret.writer
    BY <1>1, AddKeepsStruct
  <2> HIDE DEF ret
  <2> QED BY <1>4, <2>1, <2>2
<1>16. ASSUME NEW fail \in WriterFailures, WriteLength(fail)
       PROVE  Goal
  <2> DEFINE target == LengthTarget(scope, elem.name)
             ret == AddTyped(elem.type,
                             (IF target = None THEN 0 ELSE TargetLength(target)) + elem.offset,
                             fail)
  <2>1. /\ todo # << >> /\ elem.kind = "length"
        /\ \/ Crash("strlen of a null pointer")
           \/ Write(ret)
    BY Zenon, <1>16 DEF WriteLength, Now
  <2>2. "sanitize" \in DOMAIN ret.writer
    BY <1>1, AddKeepsStruct
  <2> HIDE DEF ret
  <2>3. CASE Crash("strlen of a null pointer")
    BY Zenon, <1>1, <2>3 DEF Crash, Moved
  <2> QED BY Zenon, <1>4, <2>1, <2>2, <2>3
<1>17. ASSUME NEW fail \in WriterFailures, WriteItem(fail)
       PROVE  Goal
  <2> DEFINE ret == AddTyped(ItemNumber(elem),
                             Cell(at, IF IsString(elem.type) THEN NULL ELSE 0), fail)
  <2>1. /\ todo # << >> /\ elem.kind = "item"
        /\ \/ IsStruct(elem.type) /\ Expand(SerializeStruct(at, elem.type))
           \/ Write(ret)
    BY <1>17 DEF WriteItem, Now
  <2>2. "sanitize" \in DOMAIN ret.writer
    BY <1>1, AddKeepsStruct
  <2> HIDE DEF ret
  <2> QED BY <1>3, <1>4, <1>5, <2>1, <2>2
<1> HIDE DEF Goal
<1> QED
  BY <1>6, <1>7, <1>8, <1>9, <1>10, <1>11, <1>12, <1>13, <1>14, <1>15, <1>16, <1>17
     DEF SerializeStep

-----------------------------------------------------------------------------
\* The statements of deserialize.

LEMMA ReaderKeepsStruct ==
    ASSUME NEW r, "chunked" \in DOMAIN r
    PROVE  /\ \A n : "chunked" \in DOMAIN Consume(r, n)
           /\ \A mode : /\ "chunked" \in DOMAIN SetChunkedMode(r, mode)
                        /\ SetChunkedMode(r, mode).chunked = mode
           /\ "chunked" \in DOMAIN AdvanceChunk(r)
<1>1. \A n : "chunked" \in DOMAIN Consume(r, n)
  BY DEF Consume
<1>2. ASSUME NEW mode
      PROVE  /\ "chunked" \in DOMAIN SetChunkedMode(r, mode)
             /\ SetChunkedMode(r, mode).chunked = mode
  <2> DEFINE s == [r EXCEPT !.chunked = mode]
             b == NextBreakIndex(s)
  <2>1. SetChunkedMode(r, mode) = IF s.nextChunk = 0 THEN [s EXCEPT !.nextChunk = b] ELSE s
    BY DEF SetChunkedMode
  <2>2. "chunked" \in DOMAIN s /\ s.chunked = mode
    OBVIOUS
  <2> HIDE DEF s, b
  <2>3. /\ DOMAIN [s EXCEPT !.nextChunk = b] = DOMAIN s
        /\ [s EXCEPT !.nextChunk = b].chunked = s.chunked
    BY <2>2
  <2> QED BY <2>1, <2>2, <2>3
<1>3. "chunked" \in DOMAIN AdvanceChunk(r)
  BY DEF AdvanceChunk
<1> QED BY <1>1, <1>2, <1>3

LEMMA ReadMoves ==
    ASSUME SoundTodo(todo), todo # << >>, EndsWith(todo, FALSE), elem.kind # "leave",
           "chunked" \in DOMAIN reader, NEW p, NEW type, NEW ret, ReadInto(p, type, ret)
    PROVE  /\ running' = running /\ writer' = writer /\ "chunked" \in DOMAIN reader'
           /\ Moved(FALSE, reader'.chunked = FALSE)
<1>1. running' = running /\ writer' = writer /\ reader' = Consume(reader, ret.count)
  BY DEF ReadInto, untouched
<1>2. "chunked" \in DOMAIN reader'
  BY <1>1, ReaderKeepsStruct
<1>3. CASE ret.result = "EO_SUCCESS"
  <2>1. todo' = Tail(todo)
    BY <1>3 DEF ReadInto
  <2> QED BY Zenon, <1>1, <1>2, <2>1, TailMoves
<1>4. CASE ret.result # "EO_SUCCESS"
  <2>1. Fail(ret.result)
    BY <1>4 DEF ReadInto
  <2> QED BY Zenon, <1>1, <1>2, <1>4, <2>1, FailMoves
<1> QED BY Zenon, <1>3, <1>4

LEMMA DeserializeMoves ==
    ASSUME ModesInv, running = "deserialize", DeserializeStep
    PROVE  /\ running' = running /\ writer' = writer /\ "chunked" \in DOMAIN reader'
           /\ Moved(FALSE, reader'.chunked = FALSE)
<1> DEFINE Goal == /\ running' = running /\ writer' = writer
                   /\ "chunked" \in DOMAIN reader'
                   /\ Moved(FALSE, reader'.chunked = FALSE)
<1> SUFFICES Goal
  BY Zenon
<1>1. SoundTodo(todo) /\ EndsWith(todo, FALSE) /\ "chunked" \in DOMAIN reader
  BY Zenon DEF ModesInv, CallsReturn
<1>2. todo # << >> => Sound(Head(todo))
  BY Zenon, <1>1, TailIsSound
<1>3. ASSUME NEW st, todo # << >>, elem.kind # "leave", SoundTodo(st), Unfold(st)
      PROVE  Goal
  <2>1. todo' = st \o Tail(todo) /\ running' = running /\ reader' = reader /\ writer' = writer
    BY <1>3 DEF Unfold, untouched
  <2> QED BY Zenon, <1>1, <1>3, <2>1, ExpandMoves
<1>4. ASSUME todo # << >>, elem.kind # "leave", NEW error,
             NEW n, reader' = Consume(reader, n), running' = running, writer' = writer,
             todo' = Tail(todo) \/ (Fail(error) /\ error # "EO_SUCCESS")
      PROVE  Goal
  <2>1. "chunked" \in DOMAIN reader'
    BY <1>1, <1>4, ReaderKeepsStruct
  <2> QED BY Zenon, <1>1, <1>4, <2>1, TailMoves, FailMoves
<1>5. ASSUME NEW error, error # "EO_SUCCESS", Fail(error),
             reader' = reader, running' = running, writer' = writer
      PROVE  Goal
  BY Zenon, <1>1, <1>5, FailMoves
<1>6. \A what : Crash(what) => Goal
  BY <1>1 DEF Crash, Moved
<1>7. \A p, type, mode : IsStruct(type) => SoundTodo(Statements(p, Structs[type]) \o Leave(mode))
  BY FunctionsAreSound, ListsAssumption DEF IsStruct
<1>8. ASSUME NEW p, NEW type, IsStruct(type), NEW blocks,
             todo # << >>, elem.kind # "leave", EnterStruct(p, type, blocks)
      PROVE  Goal
  <2> DEFINE st == Statements(p, Structs[type]) \o Leave(reader.chunked)
  <2>1. Unfold(st)
    BY <1>8 DEF EnterStruct
  <2>2. SoundTodo(st)
    BY <1>7, <1>8
  <2> HIDE DEF st
  <2> QED BY Zenon, <1>3, <1>8, <2>1, <2>2
<1>9. CASE ReadChunked
  <2>1. todo # << >> /\ elem.kind = "chunked" /\ elem.elements \in ElementLists
    BY <1>2, <1>9 DEF ReadChunked, Now, Sound, elem
  <2>2. SoundTodo(Statements(at, elem.elements))
    BY <2>1, ListsAreSound
  <2>3. /\ todo' = Statements(at, elem.elements) \o Tail(todo)
        /\ running' = running /\ writer' = writer /\ reader' = SetChunkedMode(reader, TRUE)
    BY <1>9 DEF ReadChunked, untouched
  <2>4. "chunked" \in DOMAIN reader'
    BY Zenon, <1>1, <2>3, ReaderKeepsStruct
  <2> QED BY Zenon, <1>1, <2>1, <2>2, <2>3, <2>4, ExpandMoves
<1>10. CASE ReadBreak
  <2>1. /\ todo # << >> /\ elem.kind = "break"
        /\ running' = running /\ writer' = writer
        /\ \/ reader' = AdvanceChunk(reader) /\ todo' = Tail(todo)
           \/ reader' = reader /\ Fail("EO_CHUNKED_MODE_DISABLED")
    BY <1>10 DEF ReadBreak, Now, untouched
  <2>2. "chunked" \in DOMAIN AdvanceChunk(reader)
    BY <1>1, ReaderKeepsStruct
  <2> QED BY Zenon, <1>1, <1>5, <2>1, <2>2, TailMoves
<1>11. CASE ReadLength
  <2> DEFINE ret == GetTyped(elem.type, TRUE)
  <2>1. /\ todo # << >> /\ elem.kind = "length"
        /\ running' = running /\ writer' = writer /\ reader' = Consume(reader, ret.count)
        /\ \/ todo' = Tail(todo)
           \/ Fail(ret.result) /\ ret.result # "EO_SUCCESS"
    BY Zenon, <1>11 DEF ReadLength, Now, untouched
  <2> HIDE DEF ret
  <2> QED BY Zenon, <1>4, <2>1
<1>12. CASE SkipOptional
  BY Zenon, <1>3, <1>12, EmptyIsSound DEF SkipOptional, Now
<1>13. todo # << >> /\ elem.kind = "array" => \A n : SoundTodo(ItemsToRead(elem, n))
  <2> SUFFICES ASSUME todo # << >>, elem.kind = "array", NEW n
               PROVE  SoundTodo(ItemsToRead(elem, n))
    OBVIOUS
  <2>1. "kind" \in DOMAIN elem
    BY <1>2 DEF Sound, elem
  <2>2. "kind" \in DOMAIN [elem EXCEPT !.trailing = TRUE]
    BY <2>1
  <2> QED BY <2>1, <2>2, LoopsAreSound DEF ItemsToRead
<1>14. CASE ReadStaticArray
  BY Zenon, <1>3, <1>13, <1>14 DEF ReadStaticArray, Now
<1>15. CASE ReadItems
  <2>1. todo # << >> /\ elem.kind = "loop" /\ Unfold(Round)
    BY <1>15 DEF ReadItems, Now
  <2> QED BY Zenon, <1>2, <1>3, <2>1, RoundsAreSound
<1>16. CASE LastItemRead
  BY Zenon, <1>3, <1>16, EmptyIsSound DEF LastItemRead, Now
<1>17. CASE LeaveDeserialize
  <2>1. /\ todo # << >> /\ todo' = Tail(todo) /\ reader' = SetChunkedMode(reader, elem.mode)
        /\ running' = running /\ writer' = writer
    BY <1>17 DEF LeaveDeserialize, Now, untouched
  <2>2. "chunked" \in DOMAIN reader' /\ reader'.chunked = elem.mode
    BY Zenon, <1>1, <2>1, ReaderKeepsStruct
  <2>3. todo' = << >> => elem.mode = FALSE
    <3>1. LeaveStatement(FALSE).elem.mode = FALSE
      BY DEF LeaveStatement
    <3> QED BY Zenon, <1>1, <2>1, <3>1, TailIsSound DEF elem
  <2>4. SoundTodo(todo') /\ EndsWith(todo', FALSE)
    BY Zenon, <1>1, <2>1, TailIsSound
  <2> QED BY Zenon, <2>1, <2>2, <2>3, <2>4 DEF Moved
<1>18. ASSUME NEW alloc \in Allocations, ReadLiteral(alloc)
       PROVE  Goal
  <2> DEFINE type     == FieldNumber(elem)
             ret      == GetTyped(type, alloc)
  <2>1. /\ todo # << >> /\ elem.kind # "leave"
        /\ running' = running /\ writer' = writer /\ reader' = Consume(reader, ret.count)
        /\ \/ todo' = Tail(todo)
           \/ Fail(ret.result) /\ ret.result # "EO_SUCCESS"
           \/ Fail("EO_INVALID_DATA")
    BY <1>18 DEF ReadLiteral, Literal, untouched
  <2> HIDE DEF ret
  <2>2. CASE Fail("EO_INVALID_DATA")
    <3>1. "chunked" \in DOMAIN reader'
      BY <1>1, <2>1, ReaderKeepsStruct
    <3> QED BY Zenon, <2>1, <2>2, <3>1, FailMoves
  <2> QED BY Zenon, <1>4, <2>1, <2>2
<1>19. ASSUME NEW alloc \in Allocations, ReadStructField(alloc)
       PROVE  Goal
  <2>1. /\ todo # << >> /\ elem.kind = "field" /\ IsStruct(elem.type)
        /\ \/ EnterStruct(path, elem.type, {})
           \/ EnterStruct(path, elem.type, {path})
           \/ Crash("write through a null pointer")
    BY Zenon, <1>19 DEF ReadStructField, Now
  <2> QED BY Zenon, <1>6, <1>8, <2>1
<1>20. ASSUME NEW alloc \in Allocations, ReadField(alloc)
       PROVE  Goal
  <2> DEFINE ret == IF IsString(elem.type) /\ IsStatic(elem)
                    THEN GetFixed(elem.type, elem.length, alloc)
                    ELSE IF IsString(elem.type) /\ IsCounted(elem)
                    THEN GetFixed(elem.type, locals[Field(at, elem.counter)], alloc)
                    ELSE GetTyped(FieldNumber(elem), alloc)
  <2>1. todo # << >> /\ elem.kind = "field" /\ ReadInto(path, FieldNumber(elem), ret)
    BY <1>20 DEF ReadField, Now
  <2> HIDE DEF ret
  <2> QED BY Zenon, <1>1, <2>1, ReadMoves
<1>21. ASSUME NEW alloc \in Allocations, ReadOptionalField(alloc)
       PROVE  Goal
  <2> DEFINE s == [Head(todo) EXCEPT !.elem.optional = FALSE]
  <2>1. /\ todo # << >> /\ elem.kind = "field"
        /\ \/ /\ todo' = <<s>> \o Tail(todo)
              /\ reader' = reader /\ running' = running /\ writer' = writer
           \/ Crash("write through a null pointer")
           \/ /\ Fail("EO_NULL_PTR")
              /\ reader' = reader /\ running' = running /\ writer' = writer
    BY Zenon, <1>21 DEF ReadOptionalField, Now, untouched
  <2>2. Sound(s)
    <3>1. Head(todo) = [at |-> Head(todo).at, elem |-> elem, scope |-> Head(todo).scope]
      BY Zenon, <1>2, <2>1 DEF Sound, elem
    <3>2. s = [at |-> Head(todo).at, elem |-> [elem EXCEPT !.optional = FALSE],
               scope |-> Head(todo).scope]
      <4> DEFINE e == [elem EXCEPT !.optional = FALSE]
      <4>1. s = [Head(todo) EXCEPT !.elem = e]
        BY DEF elem
      <4> HIDE DEF e, s
      <4>2. \A h : h = [at |-> h.at, elem |-> elem, scope |-> h.scope]
                => [h EXCEPT !.elem = e] = [at |-> h.at, elem |-> e, scope |-> h.scope]
        OBVIOUS
      <4>3. s = [at |-> Head(todo).at, elem |-> e, scope |-> Head(todo).scope]
        BY <3>1, <4>1, <4>2
      <4> QED BY <4>3 DEF e
    <3>3. /\ "kind" \in DOMAIN elem
          /\ [elem EXCEPT !.optional = FALSE].kind = elem.kind
          /\ DOMAIN [elem EXCEPT !.optional = FALSE] = DOMAIN elem
      BY Zenon, <1>2, <2>1 DEF Sound, elem
    <3> QED BY Zenon, <2>1, <3>2, <3>3 DEF Sound
  <2>3. SoundTodo(<<s>>)
    BY Zenon, <2>2, OneIsSound
  <2> HIDE DEF s
  <2>4. CASE todo' = <<s>> \o Tail(todo) /\ reader' = reader /\ running' = running
             /\ writer' = writer
    BY Zenon, <1>1, <2>1, <2>3, <2>4, ExpandMoves
  <2> QED BY Zenon, <1>5, <1>6, <2>1, <2>4
<1>22. ASSUME NEW alloc \in Allocations, ReadNumberedArray(alloc)
       PROVE  Goal
  <2>1. /\ todo # << >> /\ elem.kind = "array"
        /\ \/ Unfold(ItemsToRead(elem, NumberOfItems(elem)))
           \/ /\ Fail("EO_ALLOC_FAILED")
              /\ reader' = reader /\ running' = running /\ writer' = writer
    BY <1>22 DEF ReadNumberedArray, Now, untouched
  <2> QED BY Zenon, <1>3, <1>5, <1>13, <2>1
<1>23. ASSUME NEW alloc \in Allocations, ReadNextItem(alloc)
       PROVE  Goal
  <2> DEFINE n     == Cell(Count(at, elem.name), 0)
             item  == Statement(Item(at, elem.name, n), [elem EXCEPT !.kind = "item"])
             delim == IF elem.delimited THEN Break ELSE << >>
  <2>1. /\ todo # << >> /\ elem.kind = "array"
        /\ \/ /\ todo' = item \o delim \o todo
              /\ reader' = reader /\ running' = running /\ writer' = writer
           \/ /\ Fail("EO_ALLOC_FAILED")
              /\ reader' = reader /\ running' = running /\ writer' = writer
    BY Zenon, <1>23 DEF ReadNextItem, Now, untouched
  <2>2. SoundTodo(item)
    <3>1. "kind" \in DOMAIN elem
      BY Zenon, <1>2, <2>1 DEF Sound, elem
    <3> QED BY <3>1, ItemsAreSound
  <2>3. SoundTodo(delim)
    BY BreakIsSound, EmptyIsSound
  <2> HIDE DEF item, delim
  <2>4. SoundTodo(item \o delim)
    BY <2>2, <2>3, JoinIsSound
  <2>5. CASE todo' = item \o delim \o todo /\ reader' = reader /\ running' = running
             /\ writer' = writer
    <3>1. /\ SoundTodo(todo') /\ todo' # << >>
          /\ todo'[Len(todo')] = todo[Len(todo)]
      BY <1>1, <2>1, <2>4, <2>5, JoinIsSound
    <3>2. EndsWith(todo', FALSE)
      BY Zenon, <1>1, <2>1, <3>1 DEF EndsWith
    <3> QED BY Zenon, <1>1, <2>5, <3>1, <3>2 DEF Moved
  <2> QED BY Zenon, <1>5, <2>1, <2>5
<1>24. ASSUME NEW alloc \in Allocations, ReadItem(alloc)
       PROVE  Goal
  <2>1. /\ todo # << >> /\ elem.kind = "item"
        /\ \/ IsStruct(elem.type) /\ EnterStruct(at, elem.type, {})
           \/ ReadInto(at, ItemNumber(elem), GetTyped(ItemNumber(elem), alloc))
    BY <1>24 DEF ReadItem, Now
  <2> QED BY Zenon, <1>1, <1>8, <2>1, ReadMoves
<1>25. ASSUME NEW alloc \in Allocations, ReadSwitch(alloc)
       PROVE  Goal
  <2> DEFINE c == ChosenCase(elem, Cell(Field(at, elem.field), 0))
  <2>1. /\ todo # << >> /\ elem.kind = "switch"
        /\ \/ Unfold(<< >>)
           \/ c # None /\ Unfold(Statements(at, c.elements))
           \/ c # None /\ Unfold(Statements(CaseAt(at, elem, c), c.elements))
           \/ /\ Fail("EO_ALLOC_FAILED")
              /\ reader' = reader /\ running' = running /\ writer' = writer
    BY <1>25 DEF ReadSwitch, Now, untouched
  <2>2. c # None => c.elements \in ElementLists
    BY <1>2, <2>1, ChosenListIsListed
  <2> HIDE DEF c
  <2>3. c # None => \A p : SoundTodo(Statements(p, c.elements))
    BY <2>2, ListsAreSound
  <2> QED BY Zenon, <1>3, <1>5, <2>1, <2>3, EmptyIsSound
<1> HIDE DEF Goal
<1> QED
  BY <1>9, <1>10, <1>11, <1>12, <1>14, <1>15, <1>16, <1>17, <1>18, <1>19, <1>20, <1>21,
     <1>22, <1>23, <1>24, <1>25
     DEF DeserializeStep

-----------------------------------------------------------------------------
\* The calls and the program around them.

LEMMA StepsRun ==
    /\ SerializeStep => running = "serialize"
    /\ DeserializeStep => running = "deserialize"
<1>1. SerializeStep => running = "serialize"
  BY Zenon DEF SerializeStep, WriteChunked, SkipField, WriteStructField, WriteArray, WriteItems,
         WriteSwitch, LeaveSerialize, WriteBreak, WriteLiteral, WriteField, WriteLength,
         WriteItem, Now
<1>2. DeserializeStep => running = "deserialize"
  BY Zenon DEF DeserializeStep, ReadChunked, ReadBreak, ReadLength, SkipOptional, ReadStaticArray,
         ReadItems, LastItemRead, LeaveDeserialize, ReadLiteral, ReadStructField, ReadField,
         ReadOptionalField, ReadNumberedArray, ReadNextItem, ReadItem, ReadSwitch, Now
<1> QED BY <1>1, <1>2

LEMMA StepKeepsModes ==
    ASSUME ModesInv, Step
    PROVE  ModesInv'
<1>1. phase' = phase /\ found' = found /\ root' = root
  BY DEF Step, client
<1>2. CASE SerializeStep
  <2>1. running = "serialize"
    BY <1>2, StepsRun
  <2>2. /\ running' = running /\ reader' = reader /\ "sanitize" \in DOMAIN writer'
        /\ Moved(found, writer'.sanitize = found)
    BY <1>2, <2>1, SerializeMoves
  <2>3. phase \in Serializing
    BY <2>1 DEF ModesInv, CallsReturn
  <2>4. ModesRestored'
    BY <1>1, <2>3 DEF ModesRestored, Serializing
  <2>5. SoundTodo(todo') /\ EndsWith(todo', found)
    BY <2>1, <2>2, EmptyIsSound DEF Moved, ModesInv, CallsReturn, EndsWith
  <2>6. todo' = << >> /\ result' = "EO_SUCCESS" => writer'.sanitize = found
    BY <2>1, <2>2 DEF Moved, ModesInv, CallsReturn
  <2> QED BY <1>1, <2>1, <2>2, <2>3, <2>4, <2>5, <2>6 DEF ModesInv, CallsReturn
<1>3. CASE DeserializeStep
  <2>1. running = "deserialize"
    BY <1>3, StepsRun
  <2>2. /\ running' = running /\ writer' = writer /\ "chunked" \in DOMAIN reader'
        /\ Moved(FALSE, reader'.chunked = FALSE)
    BY Zenon, <1>3, <2>1, DeserializeMoves
  <2>3. phase = "receiving"
    BY <2>1 DEF ModesInv, CallsReturn
  <2>4. ModesRestored'
    BY <1>1, <2>3 DEF ModesRestored
  <2>5. SoundTodo(todo') /\ EndsWith(todo', FALSE)
    BY Zenon, <2>1, <2>2, EmptyIsSound DEF Moved, ModesInv, CallsReturn, EndsWith
  <2>6. todo' = << >> /\ result' = "EO_SUCCESS" => reader'.chunked = FALSE
    BY Zenon, <2>1, <2>2 DEF Moved, ModesInv, CallsReturn
  <2> QED BY Zenon, <1>1, <2>1, <2>2, <2>3, <2>4, <2>5, <2>6 DEF ModesInv, CallsReturn
<1> QED BY <1>2, <1>3 DEF Step

LEMMA CallKeepsModes ==
    ASSUME ModesInv, NEW w, NEW from, NEW next \in Serializing,
           "sanitize" \in DOMAIN w, SerializeInto(w, from, next)
    PROVE  ModesInv'
<1>1. /\ phase' = next /\ writer' = w /\ found' = w.sanitize /\ reader' = reader
      /\ running' = "serialize" /\ root' = root
      /\ todo' = Statements(<< >>, Structs[root]) \o Leave(found')
  BY DEF SerializeInto, Call
<1>2. Structs[root] \in ElementLists
  BY ListsAssumption DEF ModesInv
<1>3. /\ SoundTodo(todo') /\ EndsWith(todo', found')
      /\ todo' # << >>
  BY <1>1, <1>2, FunctionsAreSound
<1>4. ModesRestored'
  BY <1>1 DEF ModesRestored, Serializing
<1> QED BY <1>1, <1>3, <1>4 DEF ModesInv, CallsReturn

LEMMA NewWritersHaveAMode ==
    ASSUME NEW capacity
    PROVE  "sanitize" \in DOMAIN InitWriter(capacity, TRUE)
BY DEF InitWriter

LEMMA ModesInvInit == Init => ModesInv
<1> SUFFICES ASSUME Init PROVE ModesInv
  OBVIOUS
<1>1. "sanitize" \in DOMAIN writer
  BY Zenon, NewWritersHaveAMode DEF Init
<1>2. "chunked" \in DOMAIN reader
  BY DEF Init, InitReader
<1>3. root \in DOMAIN Structs
  BY ValuesAssumption DEF Init
<1> QED
  BY Zenon, <1>1, <1>2, <1>3, EmptyIsSound DEF Init, ModesInv, CallsReturn, ModesRestored

\* What the program does between calls leaves them alone.
LEMMA QuietKeepsModes ==
    ASSUME ModesInv, running = "none",
           UNCHANGED <<running, todo, writer, reader, root>>,
           phase' \notin {"sent", "received", "echoed", "written", "answered"}
    PROVE  ModesInv'
BY DEF ModesInv, CallsReturn, ModesRestored

LEMMA ReturnKeepsModes ==
    ASSUME ModesInv, todo = << >>, running' = "none",
           UNCHANGED <<todo, result, writer, reader, root, found>>,
           \/ running = "serialize" /\ phase' # "received"
           \/ running = "deserialize" /\ phase' = "received"
    PROVE  ModesInv'
BY Zenon DEF ModesInv, CallsReturn, ModesRestored

LEMMA CallerKeepsModes ==
    ASSUME ModesInv, Caller
    PROVE  ModesInv'
<1>1. phase \notin Serializing \cup {"receiving"} => running = "none"
  BY Zenon DEF ModesInv, CallsReturn
<1>2. ASSUME NEW from, NEW next \in Serializing, Serialize(from, next)
      PROVE  ModesInv'
  <2>1. PICK n : SerializeInto(InitWriter(n, TRUE), from, next)
    BY Zenon, <1>2 DEF Serialize
  <2> QED BY Zenon, <2>1, NewWritersHaveAMode, CallKeepsModes
<1>3. CASE Send \/ Echo \/ LuaSerialize
  BY <1>2, <1>3 DEF Send, Echo, LuaSerialize, Serializing
<1>4. CASE Sent
  BY <1>4, ReturnKeepsModes DEF Sent, Finished, memory, given
<1>5. CASE Received
  BY <1>5, ReturnKeepsModes DEF Received, Finished, memory, given
<1>6. CASE Echoed \/ Written \/ Answered
  BY <1>6, ReturnKeepsModes
     DEF Echoed, Written, Answered, SerializedAgain, Finished, memory, given
<1>7. CASE Free
  BY Zenon, <1>1, <1>7, QuietKeepsModes DEF Free, given, Serializing
<1>8. CASE LuaDeserialize \/ LuaError \/ LuaConvert
  BY Zenon, <1>1, <1>8, QuietKeepsModes
     DEF LuaDeserialize, LuaError, LuaConvert, given, structVars, Serializing
<1>9. CASE WasmAnswer
  <2>1. PICK n : WasmWriter = InitWriter(n, TRUE)
    BY Zenon DEF WasmWriter
  <2>2. "sanitize" \in DOMAIN WasmWriter
    BY Zenon, <2>1, NewWritersHaveAMode
  <2> QED BY <1>9, <2>2, CallKeepsModes DEF WasmAnswer, Serializing
<1>10. CASE WasmUndefined
  BY Zenon, <1>1, <1>10, QuietKeepsModes DEF WasmUndefined, given, Serializing
<1>11. ASSUME NEW n \in 0 .. Len(sent), Receive(n)
       PROVE  ModesInv'
  <2>1. /\ phase' = "receiving" /\ writer' = writer /\ root' = root
        /\ reader' = InitReader(SubSeq(sent, 1, n)) /\ running' = "deserialize"
        /\ todo' = Statements(<< >>, Structs[root]) \o Leave(FALSE)
    BY <1>11 DEF Receive, Call, given
  <2>2. "chunked" \in DOMAIN reader'
    BY <2>1 DEF InitReader
  <2>3. Structs[root] \in ElementLists
    BY ListsAssumption DEF ModesInv
  <2>4. SoundTodo(todo') /\ EndsWith(todo', FALSE) /\ todo' # << >>
    BY Zenon, <2>1, <2>3, FunctionsAreSound
  <2>5. ModesRestored'
    BY <2>1 DEF ModesRestored
  <2> QED BY Zenon, <2>1, <2>2, <2>4, <2>5 DEF ModesInv, CallsReturn
<1>12. ASSUME NEW mode \in BOOLEAN, LuaWrite(mode)
       PROVE  ModesInv'
  <2>1. "sanitize" \in DOMAIN LuaWriter(mode)
    BY Zenon, NewWritersHaveAMode DEF LuaWriter, SetSanitization
  <2> QED BY <1>12, <2>1, CallKeepsModes DEF LuaWrite, Serializing
<1> QED
  BY <1>3, <1>4, <1>5, <1>6, <1>7, <1>8, <1>9, <1>10, <1>11, <1>12 DEF Caller

LEMMA ModesInvNext == ModesInv /\ [Next]_vars => ModesInv'
<1> SUFFICES ASSUME ModesInv, [Next]_vars PROVE ModesInv'
  OBVIOUS
<1>1. CASE UNCHANGED vars
  BY Zenon, <1>1 DEF vars, structVars, ModesInv, CallsReturn, ModesRestored
<1> QED BY <1>1, StepKeepsModes, CallerKeepsModes DEF Next

(* Whatever a definition nests, and wherever the memory runs out, a call of *)
(* serialize that succeeds leaves the sanitization mode as it found it, and *)
(* one of deserialize the chunked mode (code_gen_protocol.c:1882 and 1905). *)
THEOREM ModesAreRestored == Spec => []ModesRestored
<1>1. ModesInv => ModesRestored
  BY DEF ModesInv
<1> QED BY <1>1, ModesInvInit, ModesInvNext, PTL DEF Spec

-----------------------------------------------------------------------------
(* What arrives.  For definitions of numbers, texts of a known length,      *)
(* nested structs and arrays of them, the receiver takes the statements the *)
(* sender took, one by one, and finds the bytes of each where the sender put*)
(* them.  W is the set of all statements there are in such a message.       *)

\* The value that is sent.
Value(v) ==
    [p \in DOMAIN v.texts \cup DOMAIN v.cells |->
         IF p \in DOMAIN v.texts THEN v.texts[p] ELSE v.cells[p]]
Given(v, p, zero) == IF p \in DOMAIN Value(v) THEN Value(v)[p] ELSE zero
Cells(v) == DOMAIN v.cells \cup DOMAIN v.texts

\* The cell a statement is about, and the number type it has on the wire.
Place(s) == IF s.elem.kind = "item" THEN s.at ELSE Field(s.at, s.elem.name)
WireType(s) == CASE s.elem.kind = "item"   -> ItemNumber(s.elem)
                 [] s.elem.kind = "length" -> s.elem.type
                 [] OTHER                  -> FieldNumber(s.elem)

NumberKinds == {"byte", "bool", "char", "short", "three", "int"}

\* The numbers that come back from their bytes (Accepts lets the maxima through, too).
Holds(type, n) ==
    CASE type = "byte" -> n \in Byte
      [] type = "bool" -> n \in {0, 1}
      [] OTHER         -> n \in Int32 /\ Representable(ByteSize(type), n)

\* The items of an array, and the number a length element holds.
NumberOf(v, s) == IF IsStatic(s.elem) THEN s.elem.length
                  ELSE Given(v, Count(s.at, s.elem.name), 0)

LengthAt(v, where, e) ==
    IF e.kind = "array" \/ e.type = "blob" THEN Given(v, Count(where, e.name), 0)
    ELSE IF IsString(e.type) THEN StrLen(Given(v, Field(where, e.name), NULL))
    ELSE Given(v, Field(where, e.name), 0)

LengthOf(v, s) ==
    LET target == LengthTarget(s.scope, s.elem.name)
    IN  (IF target = None THEN 0 ELSE LengthAt(v, s.at, target)) + s.elem.offset

-----------------------------------------------------------------------------
(* The statements such a message consists of, with values that fit them.    *)

IsLiteral(s) == s.elem.kind = "dummy" \/ (s.elem.kind = "field" /\ s.elem.name = None)
IsNamed(s)   == s.elem.kind = "field" /\ s.elem.name # None /\ ~s.elem.optional

\* A literal byte is what is left of its value in a byte.
LiteralOf(s) == IF WireType(s) = "byte" THEN s.elem.value % (CharMax + 3) ELSE s.elem.value

LiteralForm(s) ==
    IsLiteral(s) /\ WireType(s) \in NumberKinds /\ Holds(WireType(s), LiteralOf(s))

NumberForm(v, s) ==
    /\ s.elem.kind = "item" \/ (IsNamed(s) /\ s.elem.value = None)
    /\ ~IsStruct(s.elem.type) /\ ~IsString(s.elem.type) /\ s.elem.type # "blob"
    /\ WireType(s) \in NumberKinds
    /\ Place(s) \notin DOMAIN v.texts
    /\ Holds(WireType(s), Given(v, Place(s), 0))

\* The bytes of a text, those of its padding included.
TextLength(v, s) == IF IsStatic(s.elem) THEN s.elem.length ELSE Len(v.texts[Place(s)])

\* A text of fixed length that fits, or one whose length is sent before it.
TextForm(v, s) ==
    /\ IsNamed(s) /\ s.elem.value = None
    /\ IsString(s.elem.type) /\ ~IsStruct(s.elem.type) /\ ~IsEnum(s.elem.type)
    /\ IsStatic(s.elem) \/ IsCounted(s.elem)
    /\ IsStatic(s.elem) => s.elem.length \in Nat
    /\ Place(s) \in DOMAIN v.texts \ DOMAIN v.cells
    /\ v.texts[Place(s)] \in Seq(Char) \ {NULL}
    /\ Len(v.texts[Place(s)]) <= TextLength(v, s)

LengthForm(v, s) ==
    s.elem.kind = "length" /\ s.elem.type \in NumberKinds /\ Holds(s.elem.type, LengthOf(v, s))

StructForm(s) == (IsNamed(s) \/ s.elem.kind = "item") /\ IsStruct(s.elem.type)

\* An array is a null pointer when it has no items.
ArrayForm(v, s) ==
    /\ s.elem.kind = "array" /\ ~s.elem.optional /\ ~s.elem.delimited
    /\ IF IsStatic(s.elem) THEN ~IsCounted(s.elem)
       ELSE /\ IsCounted(s.elem)
            /\ Count(s.at, s.elem.name) \notin DOMAIN v.texts
            /\ Place(s) \notin DOMAIN v.texts
            /\ Place(s) \in DOMAIN v.cells =>
                   v.cells[Place(s)] = IF NumberOf(v, s) > 0 THEN 1 ELSE NULL

LoopForm(s)  == s.elem.kind = "loop" /\ ~s.elem.array.delimited
LeaveForm(s) == s.elem.kind = "leave" /\ s.elem.mode = FALSE

Form(v, s) ==
    \/ LiteralForm(s) \/ NumberForm(v, s) \/ TextForm(v, s) \/ LengthForm(v, s)
    \/ StructForm(s) \/ ArrayForm(v, s) \/ LoopForm(s) \/ LeaveForm(s)

-----------------------------------------------------------------------------
(* What the statements do: what they put in their place, the bytes they     *)
(* write and read, and the cells they fill.                                 *)

RoundOf(s) ==
    IF s.elem.i < s.elem.n
    THEN Statement(Item(s.at, s.elem.array.name, s.elem.i), [s.elem.array EXCEPT !.kind = "item"])
         \o <<[s EXCEPT !.elem.i = @ + 1]>>
    ELSE << >>

Expansion(v, s) ==
    IF StructForm(s) THEN Statements(Place(s), Structs[s.elem.type]) \o Leave(FALSE)
    ELSE IF ArrayForm(v, s) THEN LoopOver(s.at, s.elem, NumberOf(v, s))
    ELSE IF LoopForm(s) THEN RoundOf(s)
    ELSE << >>

After(v, t) == Expansion(v, Head(t)) \o Tail(t)

NumberBytes(type, n) ==
    CASE type = "byte" -> <<n>>
      [] type = "bool" -> Encoded(1, n)
      [] OTHER         -> Encoded(ByteSize(type), n)

\* The bytes of a text as they lie in its field, before they are encoded.
TextIn(v, s) == LET bytes == NormalizeToCp1252(v.texts[Place(s)])
                IN  bytes \o Padding(TextLength(v, s) - Len(bytes))

Piece(v, s) ==
    IF LiteralForm(s) THEN NumberBytes(WireType(s), LiteralOf(s))
    ELSE IF NumberForm(v, s) THEN NumberBytes(WireType(s), Given(v, Place(s), 0))
    ELSE IF LengthForm(v, s) THEN NumberBytes(WireType(s), LengthOf(v, s))
    ELSE IF TextForm(v, s)
    THEN IF s.elem.type = "string" THEN TextIn(v, s) ELSE EncodeString(TextIn(v, s))
    ELSE << >>

Fills(v, s) ==
    IF NumberForm(v, s) \/ TextForm(v, s) THEN {Place(s)}
    ELSE IF ArrayForm(v, s) /\ ~IsStatic(s.elem) THEN {Place(s), Count(s.at, s.elem.name)}
    ELSE {}

(* The statement s leads to the cell q: it fills it, or puts statements in  *)
(* its place one of which leads there.                                      *)
LeadsTo(v, s, q) ==
    \E way : /\ s \in way
             /\ \A u \in way : \/ q \in Fills(v, u)
                               \/ \E k \in 1 .. Len(Expansion(v, u)) : Expansion(v, u)[k] \in way

\* Elements that use a length, and what they have to find there.
Counted(v, s)  == (TextForm(v, s) \/ ArrayForm(v, s)) /\ ~IsStatic(s.elem)
CounterPath(s) == Field(s.at, s.elem.counter)
CountIn(v, s)  == IF TextForm(v, s) THEN TextLength(v, s) ELSE NumberOf(v, s)

\* A length stands before what it counts.
Announced(v, t, k) == \E j \in 1 .. k - 1 : /\ LengthForm(v, t[j])
                                            /\ Place(t[j]) = CounterPath(t[k])
CountsFirst(v, t) == \A k \in 1 .. Len(t) : Counted(v, t[k]) => Announced(v, t, k)

(* Whatever one of the statements puts in its place is among them, a cell   *)
(* that lies within a nested struct is one of that struct's, and a length is*)
(* the length of all that count with it.                                    *)
Program(v, W) ==
    \A s \in W :
        /\ s.at \in Paths /\ Form(v, s)
        /\ \A k \in 1 .. Len(Expansion(v, s)) : Expansion(v, s)[k] \in W
        /\ CountsFirst(v, Expansion(v, s))
        /\ StructForm(s) => \A q \in Cells(v) : Within(q, Place(s)) => LeadsTo(v, s, q)
        /\ LengthForm(v, s) => \A u \in W : Counted(v, u) /\ CounterPath(u) = Place(s) =>
                                             CountIn(v, u) = LengthOf(v, s)

Start(type) == Statements(<< >>, Structs[type]) \o Leave(FALSE)

Fits(v, type, W) ==
    /\ Program(v, W)
    /\ \A k \in 1 .. Len(Start(type)) : Start(type)[k] \in W
    /\ CountsFirst(v, Start(type))
    /\ \A q \in Cells(v) : \E k \in 1 .. Len(Start(type)) : LeadsTo(v, Start(type)[k], q)

\* The message consists of such statements, and its value fits them.
IsPlain == \E W : Fits(original, root, W)

-----------------------------------------------------------------------------
\* Lists of statements.

LEMMA ExpansionIsSequence ==
    ASSUME NEW v, NEW W, Program(v, W), NEW s \in W
    PROVE  Expansion(v, s) \in Seq(W)
<1> DEFINE e == Expansion(v, s)
           E == {e[k] : k \in DOMAIN e}
<1>1. \E S : e \in Seq(S)
  <2>1. CASE StructForm(s)
    <3>1. Structs[s.elem.type] \in ElementLists
      BY <2>1, ListsAssumption DEF StructForm, IsStruct
    <3>2. SoundTodo(Statements(Place(s), Structs[s.elem.type]) \o Leave(FALSE))
      BY Zenon, <3>1, FunctionsAreSound
    <3> QED BY Zenon, <2>1, <3>2 DEF Expansion, SoundTodo
  <2>2. CASE ~StructForm(s) /\ ArrayForm(v, s)
    <3>1. \E x : LoopOver(s.at, s.elem, NumberOf(v, s)) = <<x>>
      BY Zenon DEF LoopOver, Statement
    <3>2. PICK x : e = <<x>>
      BY <2>2, <3>1 DEF Expansion
    <3>3. e \in Seq({x})
      BY <3>2
    <3> QED BY <3>3
  <2>3. CASE ~StructForm(s) /\ ~ArrayForm(v, s) /\ LoopForm(s) /\ s.elem.i < s.elem.n
    <3>1. \E x, y : RoundOf(s) = <<x>> \o <<y>>
      BY Zenon, <2>3 DEF RoundOf, Statement
    <3>2. PICK x, y : e = <<x>> \o <<y>>
      BY Zenon, <2>3, <3>1 DEF Expansion
    <3>3. e \in Seq({x, y})
      BY <3>2
    <3> QED BY <3>3
  <2>4. CASE ~StructForm(s) /\ ~ArrayForm(v, s) /\ ~(LoopForm(s) /\ s.elem.i < s.elem.n)
    <3>1. e = << >>
      BY <2>4 DEF Expansion, RoundOf
    <3>2. e \in Seq({})
      BY <3>1
    <3> QED BY <3>2
  <2> QED BY <2>1, <2>2, <2>3, <2>4
<1>2. PICK S : e \in Seq(S)
  BY <1>1
<1>3. \A k \in 1 .. Len(e) : e[k] \in W
  BY DEF Program
<1> HIDE DEF e
<1>4. e \in Seq(W)
  BY <1>2, <1>3, SeqOver
<1> QED BY <1>4 DEF e

LEMMA AfterFacts ==
    ASSUME NEW v, NEW W, Program(v, W), NEW t \in Seq(W), t # << >>
    PROVE  /\ Head(t) \in W /\ Head(t) = t[1] /\ Len(t) \in Nat /\ Len(t) >= 1
           /\ Expansion(v, Head(t)) \in Seq(W)
           /\ After(v, t) \in Seq(W)
           /\ Len(After(v, t)) = Len(Expansion(v, Head(t))) + Len(t) - 1
           /\ Len(Expansion(v, Head(t))) \in Nat
           /\ \A k \in 1 .. Len(Expansion(v, Head(t))) : After(v, t)[k] = Expansion(v, Head(t))[k]
           /\ \A k \in 2 .. Len(t) : After(v, t)[Len(Expansion(v, Head(t))) + k - 1] = t[k]
<1> DEFINE e == Expansion(v, Head(t))
           u == Tail(t)
           a == e \o u
<1>1. /\ Len(t) \in Nat /\ Len(t) >= 1 /\ Head(t) \in W /\ Head(t) = t[1]
      /\ u \in Seq(W) /\ Len(u) = Len(t) - 1
      /\ \A k \in 1 .. Len(u) : u[k] = t[k + 1]
  OBVIOUS
<1>2. e \in Seq(W) /\ Len(e) \in Nat
  BY <1>1, ExpansionIsSequence
<1> HIDE DEF e, u
<1>6. u \in Seq(W)
  BY <1>1
<1>3. /\ a \in Seq(W) /\ Len(a) = Len(e) + Len(u) /\ Len(u) \in Nat
      /\ \A k \in 1 .. Len(a) : a[k] = IF k <= Len(e) THEN e[k] ELSE u[k - Len(e)]
  BY <1>2, <1>6
<1> HIDE DEF a
<1>4. \A k \in 1 .. Len(e) : a[k] = e[k]
  BY <1>1, <1>2, <1>3
<1>5. ASSUME NEW k \in 2 .. Len(t) PROVE a[Len(e) + k - 1] = t[k]
  <2>1. k - 1 \in 1 .. Len(u) /\ k - 1 + 1 = k
    BY <1>1
  <2>2. Len(e) + k - 1 \in 1 .. Len(a) /\ ~(Len(e) + k - 1 <= Len(e))
        /\ Len(e) + k - 1 - Len(e) = k - 1
    BY <1>1, <1>2, <1>3
  <2> QED BY <1>1, <1>3, <2>1, <2>2
<1> QED BY <1>1, <1>2, <1>3, <1>4, <1>5 DEF After, a, e, u

(* What an index of After stands for: a statement of the expansion, or one  *)
(* that was there before.                                                   *)
LEMMA AfterIndex ==
    ASSUME NEW v, NEW W, Program(v, W), NEW t \in Seq(W), t # << >>, NEW k \in 1 .. Len(After(v, t))
    PROVE  \/ k \in 1 .. Len(Expansion(v, Head(t))) /\ After(v, t)[k] = Expansion(v, Head(t))[k]
           \/ \E i \in 2 .. Len(t) : /\ k = Len(Expansion(v, Head(t))) + i - 1
                                     /\ After(v, t)[k] = t[i]
<1> DEFINE n == Len(Expansion(v, Head(t)))
<1>1. n \in Nat /\ Len(t) \in Nat /\ Len(After(v, t)) = n + Len(t) - 1
  BY AfterFacts
<1>2. CASE k <= n
  <2>1. k \in 1 .. n
    BY <1>1, <1>2
  <2> QED BY <2>1, AfterFacts
<1>3. CASE k > n
  <2>1. k - n + 1 \in 2 .. Len(t) /\ n + (k - n + 1) - 1 = k
    BY <1>1, <1>3
  <2>2. After(v, t)[n + (k - n + 1) - 1] = t[k - n + 1]
    BY <2>1, AfterFacts
  <2> QED BY <2>1, <2>2
<1> QED BY <1>1, <1>2, <1>3

-----------------------------------------------------------------------------
(* The counts a receiver knows, l, are those of the elements that use them, *)
(* unless the length is still to be read.                                   *)
Known(v, l, s) == CounterPath(s) \in DOMAIN l /\ l[CounterPath(s)] = CountIn(v, s)

CountsReady(v, l, t) ==
    \A k \in 1 .. Len(t) : Counted(v, t[k]) => Known(v, l, t[k]) \/ Announced(v, t, k)

CountsAfter(v, l, s) == IF LengthForm(v, s) THEN Assigned(l, Place(s), LengthOf(v, s)) ELSE l

LEMMA CountsStayReady ==
    ASSUME NEW v, NEW W, Program(v, W), NEW t \in Seq(W), t # << >>, NEW l, CountsReady(v, l, t)
    PROVE  CountsReady(v, CountsAfter(v, l, Head(t)), After(v, t))
<1> DEFINE s == Head(t)
           e == Expansion(v, s)
           a == After(v, t)
           m == CountsAfter(v, l, s)
<1>1. /\ s \in W /\ s = t[1] /\ Len(t) \in Nat /\ Len(t) >= 1
      /\ Len(a) = Len(e) + Len(t) - 1 /\ Len(e) \in Nat
      /\ \A k \in 1 .. Len(e) : a[k] = e[k]
      /\ \A k \in 2 .. Len(t) : a[Len(e) + k - 1] = t[k] /\ t[k] \in W
  <2>1. t \in Seq(W)
    OBVIOUS
  <2>2. \A k \in 2 .. Len(t) : t[k] \in W
    BY <2>1
  <2>3. /\ s \in W /\ s = t[1] /\ Len(t) \in Nat /\ Len(t) >= 1
        /\ Len(a) = Len(e) + Len(t) - 1 /\ Len(e) \in Nat
        /\ \A k \in 1 .. Len(e) : a[k] = e[k]
        /\ \A k \in 2 .. Len(t) : a[Len(e) + k - 1] = t[k]
    <3>1. /\ s \in W /\ s = t[1] /\ Len(t) \in Nat /\ Len(t) >= 1
          /\ Len(a) = Len(e) + Len(t) - 1 /\ Len(e) \in Nat
      BY AfterFacts
    <3>2. \A k \in 1 .. Len(e) : a[k] = e[k]
      BY AfterFacts
    <3>3. \A k \in 2 .. Len(t) : a[Len(e) + k - 1] = t[k]
      BY AfterFacts
    <3> QED BY <3>1, <3>2, <3>3
  <2> HIDE DEF a, e, s
  <2> QED BY Zenon, <2>2, <2>3
<1>2. CountsFirst(v, e)
  BY <1>1 DEF Program
<1>3. ASSUME NEW k \in 2 .. Len(t), Counted(v, t[k]),
             LengthForm(v, s) /\ Place(s) = CounterPath(t[k])
      PROVE  Known(v, m, t[k])
  <2>1. t[k] \in W
    BY <1>1
  <2>2. CountIn(v, t[k]) = LengthOf(v, s)
    BY <1>1, <1>3, <2>1 DEF Program
  <2>3. m = Assigned(l, Place(s), LengthOf(v, s))
    BY <1>3 DEF CountsAfter
  <2>4. Place(s) \in DOMAIN m /\ m[Place(s)] = LengthOf(v, s)
    BY <2>3 DEF Assigned
  <2> QED BY <1>3, <2>2, <2>4 DEF Known
<1>4. ASSUME NEW k \in 2 .. Len(t), Counted(v, t[k]), Known(v, l, t[k])
      PROVE  Known(v, m, t[k])
  <2>1. CASE LengthForm(v, s) /\ Place(s) = CounterPath(t[k])
    BY <1>3, <1>4, <2>1
  <2>2. CASE ~LengthForm(v, s)
    BY <1>4, <2>2 DEF CountsAfter
  <2>3. CASE LengthForm(v, s) /\ Place(s) # CounterPath(t[k])
    <3>1. m = Assigned(l, Place(s), LengthOf(v, s))
      BY <2>3 DEF CountsAfter
    <3> HIDE DEF m
    <3>2. CounterPath(t[k]) \in DOMAIN m /\ m[CounterPath(t[k])] = l[CounterPath(t[k])]
      BY <1>4, <2>3, <3>1 DEF Known, Assigned
    <3> QED BY <1>4, <3>2 DEF Known
  <2> QED BY <2>1, <2>2, <2>3
<1> SUFFICES ASSUME NEW k \in 1 .. Len(a), Counted(v, a[k])
             PROVE  Known(v, m, a[k]) \/ Announced(v, a, k)
  BY DEF CountsReady
<1>5. CASE k \in 1 .. Len(e) /\ a[k] = e[k]
  <2>1. PICK j \in 1 .. k - 1 : LengthForm(v, e[j]) /\ Place(e[j]) = CounterPath(e[k])
    BY <1>2, <1>5 DEF CountsFirst, Announced
  <2>2. a[j] = e[j]
    BY <1>1, <1>5
  <2> QED BY <1>5, <2>1, <2>2 DEF Announced
<1>6. ASSUME NEW i \in 2 .. Len(t), k = Len(e) + i - 1, a[k] = t[i]
      PROVE  Known(v, m, a[k]) \/ Announced(v, a, k)
  <2>1. Known(v, l, t[i]) \/ Announced(v, t, i)
    BY <1>1, <1>6 DEF CountsReady
  <2>2. CASE Known(v, l, t[i])
    BY <1>4, <1>6, <2>2
  <2>3. CASE Announced(v, t, i)
    <3>1. PICK j \in 1 .. i - 1 : LengthForm(v, t[j]) /\ Place(t[j]) = CounterPath(t[i])
      BY <2>3 DEF Announced
    <3>2. CASE j = 1
      BY <1>1, <1>3, <1>6, <3>1, <3>2
    <3>3. CASE j # 1
      <4>1. j \in 2 .. Len(t) /\ Len(e) + j - 1 \in 1 .. k - 1
        BY <1>1, <1>6, <3>3
      <4>2. a[Len(e) + j - 1] = t[j]
        BY <1>1, <4>1
      <4> QED BY Zenon, <1>6, <3>1, <4>1, <4>2 DEF Announced
    <3> QED BY <3>2, <3>3
  <2> QED BY <2>1, <2>2, <2>3
<1> HIDE DEF a, e, m
<1> QED BY <1>5, <1>6, AfterIndex DEF a, e, s

-----------------------------------------------------------------------------
\* Every cell has arrived, or what is left of the message leads to it.

Arrived(m, v, q) ==
    /\ q \in DOMAIN m
    /\ q \in DOMAIN v.cells => m[q] = v.cells[q]
    /\ q \in DOMAIN v.texts => Arrives(v.texts[q], m[q])

(* What the receiver finds in a cell that s filled: a text as its bytes were*)
(* sent, and the pointer and the number of items of an array.               *)
Content(v, s, q) ==
    IF TextForm(v, s) THEN AsText(TextIn(v, s))
    ELSE IF NumberForm(v, s) THEN Given(v, q, 0)
    ELSE IF q = Place(s) THEN IF NumberOf(v, s) > 0 THEN 1 ELSE NULL
    ELSE NumberOf(v, s)

HasContent(m, v, s, q) == q \in DOMAIN m /\ m[q] = Content(v, s, q)

Keeps(m, n, q) == q \in DOMAIN n /\ n[q] = m[q]

Led(v, t, q) == \E k \in 1 .. Len(t) : LeadsTo(v, t[k], q)

\* The cell a length is taken from, and the length that x in it stands for.
Measured(where, e) == IF e.kind = "array" \/ e.type = "blob" THEN Count(where, e.name)
                      ELSE Field(where, e.name)
LengthIn(e, x) == IF e.kind # "array" /\ e.type # "blob" /\ IsString(e.type) THEN StrLen(x)
                  ELSE x

(* What arrives is enough to send the message once more: no cell is filled  *)
(* in two ways, or by statements of another struct, none is left out, and   *)
(* every length is that of a cell as it arrives.                            *)
Repeats(v, type, W) ==
    /\ Fits(v, type, W)
    /\ \A s, u \in W : \A q \in Fills(v, s) :
          /\ q \in Fills(v, u) => Content(v, u, q) = Content(v, s, q)
          /\ StructForm(u) /\ Within(q, Place(u)) => LeadsTo(v, u, q)
    /\ \A s \in W : \A q \in Fills(v, s) : Led(v, Start(type), q)
    /\ \A s \in W : LengthForm(v, s) =>
          LET target == LengthTarget(s.scope, s.elem.name)
              q      == Measured(s.at, target)
          IN  target = None \/ \E u \in W : /\ q \in Fills(v, u)
                                            /\ LengthIn(target, Content(v, u, q)) =
                                                  LengthAt(v, s.at, target)

\* All of it is there.
Retained(W) == \A s \in W : \A q \in Fills(original, s) : HasContent(mem, original, s, q)

LEMMA LeadsOn ==
    ASSUME NEW v, NEW s, NEW q, LeadsTo(v, s, q)
    PROVE  q \in Fills(v, s) \/ \E k \in 1 .. Len(Expansion(v, s)) : LeadsTo(v, Expansion(v, s)[k], q)
<1>1. PICK way : /\ s \in way
                 /\ \A u \in way : \/ q \in Fills(v, u)
                                   \/ \E k \in 1 .. Len(Expansion(v, u)) : Expansion(v, u)[k] \in way
  BY DEF LeadsTo
<1>2. CASE q \in Fills(v, s)
  BY <1>2
<1>3. CASE q \notin Fills(v, s)
  <2>1. PICK k \in 1 .. Len(Expansion(v, s)) : Expansion(v, s)[k] \in way
    BY <1>1, <1>3
  <2>2. LeadsTo(v, Expansion(v, s)[k], q)
    BY <1>1, <2>1 DEF LeadsTo
  <2> QED BY <2>2
<1> QED BY <1>2, <1>3

LEMMA LedOn ==
    ASSUME NEW v, NEW W, Program(v, W), NEW t \in Seq(W), t # << >>, NEW q, Led(v, t, q)
    PROVE  q \in Fills(v, Head(t)) \/ Led(v, After(v, t), q)
<1> DEFINE e == Expansion(v, Head(t))
           a == After(v, t)
<1>1. /\ Head(t) = t[1] /\ Len(t) \in Nat /\ Len(t) >= 1
      /\ Len(a) = Len(e) + Len(t) - 1 /\ Len(e) \in Nat
      /\ \A k \in 1 .. Len(e) : a[k] = e[k]
      /\ \A k \in 2 .. Len(t) : a[Len(e) + k - 1] = t[k]
  BY AfterFacts
<1>2. PICK k \in 1 .. Len(t) : LeadsTo(v, t[k], q)
  BY DEF Led
<1>3. CASE k = 1 /\ q \notin Fills(v, Head(t))
  <2>1. PICK i \in 1 .. Len(e) : LeadsTo(v, e[i], q)
    BY <1>1, <1>2, <1>3, LeadsOn
  <2>2. i \in 1 .. Len(a) /\ a[i] = e[i]
    BY <1>1, <2>1
  <2> QED BY <2>1, <2>2 DEF Led
<1>4. CASE k # 1
  <2>1. k \in 2 .. Len(t) /\ Len(e) + k - 1 \in 1 .. Len(a)
    BY <1>1, <1>4
  <2> QED BY <1>1, <1>2, <2>1 DEF Led
<1> QED BY <1>3, <1>4

-----------------------------------------------------------------------------
(* What a statement of each form is, and that it is of no other.            *)

LEMMA LiteralFacts ==
    ASSUME NEW v, NEW s, LiteralForm(s)
    PROVE  /\ s.elem.kind \in {"dummy", "field"} /\ IsLiteral(s)
           /\ Expansion(v, s) = << >> /\ Fills(v, s) = {} /\ ~StructForm(s)
           /\ Piece(v, s) = NumberBytes(WireType(s), LiteralOf(s))
           /\ WireType(s) = FieldNumber(s.elem)
           /\ ~LengthForm(v, s) /\ ~Counted(v, s)
BY Zenon DEF LiteralForm, IsLiteral, Expansion, Fills, Piece, NumberForm, TextForm, LengthForm,
       StructForm, ArrayForm, LoopForm, IsNamed, WireType, Counted

LEMMA NumberFacts ==
    ASSUME NEW v, NEW s, NumberForm(v, s)
    PROVE  /\ s.elem.kind \in {"item", "field"} /\ ~IsLiteral(s)
           /\ Expansion(v, s) = << >> /\ Fills(v, s) = {Place(s)} /\ ~StructForm(s)
           /\ Piece(v, s) = NumberBytes(WireType(s), Given(v, Place(s), 0))
           /\ ~LengthForm(v, s) /\ ~Counted(v, s)
BY DEF LiteralForm, IsLiteral, Expansion, Fills, Piece, NumberForm, TextForm, LengthForm,
       StructForm, ArrayForm, LoopForm, IsNamed, Counted

LEMMA TextFacts ==
    ASSUME NEW v, NEW s, TextForm(v, s)
    PROVE  /\ s.elem.kind = "field" /\ ~IsLiteral(s)
           /\ Expansion(v, s) = << >> /\ Fills(v, s) = {Place(s)} /\ ~StructForm(s)
           /\ Piece(v, s) = IF s.elem.type = "string" THEN TextIn(v, s)
                            ELSE EncodeString(TextIn(v, s))
           /\ ~LengthForm(v, s) /\ ~NumberForm(v, s)
           /\ WireType(s) = s.elem.type /\ FieldNumber(s.elem) = s.elem.type
BY DEF LiteralForm, IsLiteral, Expansion, Fills, Piece, NumberForm, TextForm, LengthForm,
       StructForm, ArrayForm, LoopForm, IsNamed, WireType, FieldNumber

LEMMA LengthFacts ==
    ASSUME NEW v, NEW s, LengthForm(v, s)
    PROVE  /\ s.elem.kind = "length" /\ ~IsLiteral(s)
           /\ Expansion(v, s) = << >> /\ Fills(v, s) = {} /\ ~StructForm(s)
           /\ Piece(v, s) = NumberBytes(s.elem.type, LengthOf(v, s))
           /\ ~Counted(v, s)
BY DEF LiteralForm, IsLiteral, Expansion, Fills, Piece, NumberForm, TextForm, LengthForm,
       StructForm, ArrayForm, LoopForm, IsNamed, WireType, Counted

LEMMA StructFacts ==
    ASSUME NEW v, NEW s, StructForm(s)
    PROVE  /\ s.elem.kind \in {"item", "field"} /\ ~IsLiteral(s)
           /\ Expansion(v, s) = Statements(Place(s), Structs[s.elem.type]) \o Leave(FALSE)
           /\ Fills(v, s) = {} /\ Piece(v, s) = << >>
           /\ ~LengthForm(v, s) /\ ~Counted(v, s)
BY Zenon DEF LiteralForm, IsLiteral, Expansion, Fills, Piece, NumberForm, TextForm, LengthForm,
       StructForm, ArrayForm, LoopForm, IsNamed, Counted

LEMMA ArrayFacts ==
    ASSUME NEW v, NEW s, ArrayForm(v, s)
    PROVE  /\ s.elem.kind = "array" /\ ~IsLiteral(s) /\ ~StructForm(s)
           /\ Expansion(v, s) = LoopOver(s.at, s.elem, NumberOf(v, s))
           /\ Fills(v, s) = IF IsStatic(s.elem) THEN {}
                            ELSE {Place(s), Count(s.at, s.elem.name)}
           /\ Piece(v, s) = << >>
           /\ ~LengthForm(v, s) /\ ~TextForm(v, s)
BY DEF LiteralForm, IsLiteral, Expansion, Fills, Piece, NumberForm, TextForm, LengthForm,
       StructForm, ArrayForm, LoopForm, IsNamed

LEMMA LoopFacts ==
    ASSUME NEW v, NEW s, LoopForm(s) \/ LeaveForm(s)
    PROVE  /\ s.elem.kind \in {"loop", "leave"} /\ ~IsLiteral(s) /\ ~StructForm(s)
           /\ Expansion(v, s) = IF LoopForm(s) THEN RoundOf(s) ELSE << >>
           /\ Fills(v, s) = {} /\ Piece(v, s) = << >>
           /\ ~LengthForm(v, s) /\ ~Counted(v, s)
BY Zenon DEF LiteralForm, IsLiteral, Expansion, Fills, Piece, NumberForm, TextForm, LengthForm,
       StructForm, ArrayForm, LoopForm, LeaveForm, IsNamed, Counted

\* A statement's kind tells its form.
LEMMA FormOfKind ==
    ASSUME NEW v, NEW s, Form(v, s)
    PROVE  /\ s.elem.kind \notin {"chunked", "break", "switch"}
           /\ IsLiteral(s) => LiteralForm(s)
           /\ s.elem.kind = "field" /\ ~IsLiteral(s) =>
                 /\ IsNamed(s)
                 /\ IsStruct(s.elem.type) => StructForm(s)
                 /\ ~IsStruct(s.elem.type) => NumberForm(v, s) \/ TextForm(v, s)
           /\ s.elem.kind = "item" =>
                 /\ IsStruct(s.elem.type) => StructForm(s)
                 /\ ~IsStruct(s.elem.type) => NumberForm(v, s)
           /\ s.elem.kind = "length" => LengthForm(v, s)
           /\ s.elem.kind = "array" => ArrayForm(v, s)
           /\ s.elem.kind = "loop" => LoopForm(s)
           /\ s.elem.kind = "leave" => LeaveForm(s)
BY DEF Form, LiteralForm, IsLiteral, NumberForm, TextForm, LengthForm,
       StructForm, ArrayForm, LoopForm, LeaveForm, IsNamed

-----------------------------------------------------------------------------
(* The bytes of numbers: what the writer appends for one, and what the      *)
(* reader makes of them.                                                    *)

LEMMA SizesOfTypes ==
    ASSUME NEW type \in NumberKinds
    PROVE  /\ ByteSize(type) \in 1 .. 4
           /\ ~IsString(type) /\ type # "blob"
           /\ type \in {"byte", "bool"} => ByteSize(type) = 1
BY DEF NumberKinds, ByteSize, IsString

LEMMA BitsAreNumbers == {0, 1} \subseteq Int32 /\ \A n \in {0, 1} : Representable(1, n)
<1>1. CharMax >= 2 /\ CharMax \in Nat /\ WordSize \in Nat /\ WordSize % 2 = 0
  BY NumberAssumption
<1>2. WordSize > 3
  <2> DEFINE x == (CharMax + 1) * (ThreeMax + ShortMax + CharMax + 1)
  <2>1. x \in Int /\ x >= 3
    <3>1. ThreeMax + ShortMax + CharMax + 1 \in Nat /\ ThreeMax + ShortMax + CharMax + 1 >= 3
      BY <1>1, NumberTypes
    <3> DEFINE w == ThreeMax + ShortMax + CharMax + 1
    <3> HIDE DEF w
    <3>2. w \in Nat /\ w >= 3
      BY <3>1 DEF w
    <3>3. w * 1 <= w * (CharMax + 1)
      BY <1>1, <3>2, ProductMonotone
    <3>4. w * (CharMax + 1) = (CharMax + 1) * w
      BY <1>1, <3>2
    <3>5. (CharMax + 1) * w >= 3 /\ (CharMax + 1) * w \in Int
      <4> DEFINE y == (CharMax + 1) * w
      <4>1. y \in Int
        BY <1>1, <3>2
      <4>2. w <= y
        BY <3>2, <3>3, <3>4
      <4> HIDE DEF y
      <4>3. y >= 3
        BY <3>2, <4>1, <4>2
      <4> QED BY <4>1, <4>3 DEF y
    <3> QED BY <3>5 DEF w
  <2>2. x < WordSize
    BY NumberAssumption
  <2> HIDE DEF x
  <2> QED BY <1>1, <2>1, <2>2
<1>3. HalfWord \in Nat /\ HalfWord >= 2
  BY <1>1, <1>2 DEF HalfWord
<1> QED BY <1>1, <1>3 DEF Int32, Representable, WidthMax

LEMMA NumberBytesFacts ==
    ASSUME NEW type \in NumberKinds, NEW n, Holds(type, n)
    PROVE  /\ NumberBytes(type, n) \in Seq(Byte)
           /\ Len(NumberBytes(type, n)) = ByteSize(type)
           /\ n \in Int
           /\ type # "byte" => /\ NumberBytes(type, n) = Encoded(ByteSize(type), n)
                               /\ n \in Int32 /\ Representable(ByteSize(type), n)
           /\ type = "byte" => NumberBytes(type, n) = <<n>> /\ n \in Byte
<1>1. ByteSize(type) \in 1 .. 4 /\ (type \in {"byte", "bool"} => ByteSize(type) = 1)
  BY SizesOfTypes
<1>2. Byte \subseteq Int /\ Int32 \subseteq Int
  BY NumberTypes DEF Int32
<1>3. CASE type = "byte"
  <2>1. n \in Byte /\ NumberBytes(type, n) = <<n>>
    BY <1>3 DEF Holds, NumberBytes
  <2>2. <<n>> \in Seq(Byte) /\ Len(<<n>>) = 1
    BY <2>1
  <2>3. n \in Int /\ ByteSize(type) = 1
    BY <1>1, <1>2, <1>3, <2>1
  <2> QED BY Zenon, <1>3, <2>1, <2>2, <2>3
<1>4. CASE type # "byte"
  <2>1. n \in Int32 /\ Representable(ByteSize(type), n)
    BY <1>1, <1>4, BitsAreNumbers DEF Holds
  <2>2. NumberBytes(type, n) = Encoded(ByteSize(type), n)
    BY <1>1, <1>4 DEF NumberBytes
  <2> QED BY Zenon, <1>1, <1>2, <1>4, <2>1, <2>2, EncodedWidth
<1> QED BY <1>3, <1>4

\* A writer got the bytes b.
Got(ret, b) == ret.result = "EO_SUCCESS" =>
                  /\ {"data", "sanitize"} \subseteq DOMAIN ret.writer
                  /\ ret.writer.data = writer.data \o b
                  /\ ret.writer.sanitize = writer.sanitize
                  /\ ~(SizeMax - Len(writer.data) < Len(b))

\* ... and refuses them only if memory runs out or a size_t cannot count them.
Taken(ret, b, fail) ==
    /\ Got(ret, b)
    /\ \/ ret.result = "EO_SUCCESS"
       \/ ret.result = "EO_ALLOC_FAILED" /\ fail # "none"
       \/ ret.result = "EO_OVERFLOW" /\ SizeMax - Len(writer.data) < Len(b)

LEMMA AppendAppends ==
    ASSUME {"data", "sanitize"} \subseteq DOMAIN writer, NEW s, NEW fail
    PROVE  /\ Taken(EnsureAndAppend(writer, s, fail), s, fail)
           /\ Len(EncodeString(s)) = Len(s) =>
                 Taken(AppendEncoded(writer, s, fail), EncodeString(s), fail)
<1> DEFINE w == writer
           e == EnsureCapacity(w, Len(s), fail)
<1>1. /\ {"data", "sanitize"} \subseteq DOMAIN e.writer
      /\ e.writer.data = w.data /\ e.writer.sanitize = w.sanitize
      /\ \/ e.result = "EO_SUCCESS" /\ ~(SizeMax - Len(w.data) < Len(s))
         \/ e.result = "EO_ALLOC_FAILED" /\ fail # "none"
         \/ e.result = "EO_OVERFLOW" /\ SizeMax - Len(w.data) < Len(s)
  BY DEF EnsureCapacity, Ok, Refused, WLength
<1> HIDE DEF e
<1>2. \A t : LET x == Put(e.writer, t)
             IN  /\ {"data", "sanitize"} \subseteq DOMAIN x
                 /\ x.data = w.data \o t /\ x.sanitize = w.sanitize
  BY <1>1 DEF Put
<1>3. /\ EnsureAndAppend(w, s, fail) = IF e.result # "EO_SUCCESS" THEN e
                                       ELSE Ok(Put(e.writer, s))
      /\ AppendEncoded(w, s, fail) =
            IF e.result # "EO_SUCCESS" THEN e
            ELSE IF fail = "scratch" THEN Refused(e.writer, "EO_ALLOC_FAILED")
            ELSE Ok(Put(e.writer, EncodeString(s)))
  BY DEF EnsureAndAppend, AppendEncoded, e
<1>4. \A x : /\ Ok(x).writer = x /\ Ok(x).result = "EO_SUCCESS"
             /\ Refused(x, "EO_ALLOC_FAILED").result = "EO_ALLOC_FAILED"
  BY DEF Ok, Refused
<1>5. Taken(EnsureAndAppend(w, s, fail), s, fail)
  <2>1. CASE e.result # "EO_SUCCESS"
    BY <1>1, <1>3, <2>1 DEF Taken, Got
  <2>2. CASE e.result = "EO_SUCCESS"
    <3>1. /\ EnsureAndAppend(w, s, fail).writer = Put(e.writer, s)
          /\ EnsureAndAppend(w, s, fail).result = "EO_SUCCESS"
      BY <1>3, <1>4, <2>2
    <3> QED BY <1>1, <1>2, <2>2, <3>1 DEF Taken, Got
  <2> QED BY <2>1, <2>2
<1>6. ASSUME Len(EncodeString(s)) = Len(s)
      PROVE  Taken(AppendEncoded(w, s, fail), EncodeString(s), fail)
  <2>1. CASE e.result # "EO_SUCCESS"
    BY <1>1, <1>3, <1>6, <2>1 DEF Taken, Got
  <2>2. CASE e.result = "EO_SUCCESS" /\ fail = "scratch"
    BY <1>3, <1>4, <2>2 DEF Taken, Got
  <2>3. CASE e.result = "EO_SUCCESS" /\ fail # "scratch"
    <3>1. /\ AppendEncoded(w, s, fail).writer = Put(e.writer, EncodeString(s))
          /\ AppendEncoded(w, s, fail).result = "EO_SUCCESS"
      BY <1>3, <1>4, <2>3
    <3> QED BY <1>1, <1>2, <1>6, <2>3, <3>1 DEF Taken, Got
  <2> QED BY <2>1, <2>2, <2>3
<1> QED BY <1>5, <1>6

LEMMA NumberIsWritten ==
    ASSUME {"data", "sanitize"} \subseteq DOMAIN writer,
           NEW type, type \in NumberKinds, NEW value, NEW n, Holds(type, n), NEW fail,
           type = "byte" => n = value % (CharMax + 3),
           type # "byte" => n = value
    PROVE  Taken(AddTyped(type, value, fail), NumberBytes(type, n), fail)
<1>1. CASE type = "byte"
  <2>1. AddTyped(type, value, fail) = EnsureAndAppend(writer, <<n>>, fail)
    BY <1>1 DEF AddTyped, AddBytes
  <2>2. NumberBytes(type, n) = <<n>>
    BY <1>1 DEF NumberBytes
  <2> QED BY <2>1, <2>2, AppendAppends
<1>2. CASE type # "byte"
  <2>1. AddTyped(type, value, fail) = AddNumber(writer, ByteSize(type), n, fail)
    <3>1. CASE type = "bool"
      <4>1. n \in {0, 1}
        BY <3>1 DEF Holds
      <4> QED BY <1>2, <3>1, <4>1, SizesOfTypes DEF AddTyped
    <3>2. CASE type # "bool"
      BY <1>2, <3>2 DEF AddTyped, NumberKinds
    <3> QED BY <3>1, <3>2
  <2>2. /\ NumberBytes(type, n) = Encoded(ByteSize(type), n)
        /\ n \in Int32 /\ Representable(ByteSize(type), n)
    BY <1>2, NumberBytesFacts
  <2>3. Accepts(ByteSize(type), n)
    <3>1. ByteSize(type) \in 1 .. 4 /\ Int32 \subseteq Int
      BY SizesOfTypes, NumberTypes DEF Int32
    <3>2. \A k \in 1 .. 3 : WidthMax(k) \in Int
      BY NumberTypes, NumberAssumption DEF WidthMax
    <3> QED BY <2>2, <3>1, <3>2 DEF Representable, Accepts
  <2>4. AddNumber(writer, ByteSize(type), n, fail) =
              EnsureAndAppend(writer, Encoded(ByteSize(type), n), fail)
    BY <2>3 DEF AddNumber
  <2> QED BY <2>1, <2>2, <2>4, AppendAppends
<1> QED BY <1>1, <1>2

LEMMA FittingNumberIsWritten ==
    ASSUME {"data", "sanitize"} \subseteq DOMAIN writer,
           NEW type, type \in NumberKinds, NEW n, Holds(type, n), NEW fail
    PROVE  Taken(AddTyped(type, n, fail), NumberBytes(type, n), fail)
<1>1. n \in Byte => n = n % (CharMax + 3)
  BY NumberAssumption DEF Byte
<1>2. type = "byte" => n = n % (CharMax + 3)
  BY <1>1 DEF Holds
<1> QED BY <1>2, NumberIsWritten

\* The bytes s lie where the reader stands.
Ahead(s) == /\ reader.offset + Len(s) <= Len(reader.data)
            /\ \A k \in 1 .. Len(s) : reader.data[reader.offset + k] = s[k]

LEMMA NumberIsRead ==
    ASSUME reader \in Reader, reader.chunked = FALSE,
           NEW type \in NumberKinds, NEW n, Holds(type, n), NEW alloc,
           reader.offset + Len(NumberBytes(type, n)) <= Len(reader.data)
               => Ahead(NumberBytes(type, n))
    PROVE  LET ret == GetTyped(type, alloc)
           IN  \/ /\ ret.result = "EO_SUCCESS" /\ ret.value = n
                  /\ ret.count = Len(NumberBytes(type, n))
                  /\ Ahead(NumberBytes(type, n))
               \/ /\ ret.result = "EO_BUFFER_UNDERRUN"
                  /\ ~(reader.offset + Len(NumberBytes(type, n)) <= Len(reader.data))
<1> DEFINE b == NumberBytes(type, n)
           z == ByteSize(type)
           ret == GetTyped(type, alloc)
<1>1. /\ b \in Seq(Byte) /\ Len(b) = z /\ z \in 1 .. 4
      /\ (type \in {"byte", "bool"} => z = 1)
      /\ (type # "byte" => b = Encoded(z, n) /\ n \in Int32 /\ Representable(z, n))
      /\ (type = "byte" => b = <<n>>)
  BY NumberBytesFacts, SizesOfTypes
<1>2. ret = IF type = "byte" THEN GetByte(reader) ELSE GetNumber(reader, z)
  BY <1>1, SizesOfTypes DEF GetTyped, NumberKinds, IsString
<1> HIDE DEF b, z, ret
<1>3. CASE ~(reader.offset + Len(b) <= Len(reader.data))
  <2>1. ~HasBytes(reader, z)
    BY <1>1, <1>3 DEF HasBytes, Length
  <2>2. type = "byte" => z = 1
    BY <1>1
  <2>3. \A e : Underrun(reader, e).result = "EO_BUFFER_UNDERRUN"
    BY DEF Underrun, Returned
  <2>4. ret = Underrun(reader, 0)
    BY <1>2, <2>1, <2>2 DEF GetByte, GetNumber
  <2> QED BY <1>3, <2>3, <2>4 DEF b, ret
<1>4. CASE reader.offset + Len(b) <= Len(reader.data)
  <2>1. /\ Ahead(b) /\ HasBytes(reader, z) /\ Bytes(reader, z) = b
    <3>1. Ahead(b)
      BY <1>4 DEF b
    <3> QED BY <1>1, <1>4, <3>1, BytesAhead DEF Ahead, Length
  <2>2. CASE type = "byte"
    <3>1. At(reader, reader.offset) = n
      BY <1>1, <2>1, <2>2 DEF At, Ahead
    <3> QED BY <1>1, <1>2, <2>1, <2>2, <3>1 DEF GetByte, b, ret
  <2>3. CASE type # "byte"
    <3>1. DecodeNumber(b) = n
      BY <1>1, <2>3, NumberRoundTrip
    <3> QED BY <1>1, <1>2, <2>1, <2>3, <3>1 DEF GetNumber, b, ret
  <2> QED BY <2>2, <2>3
<1> QED BY <1>3, <1>4

-----------------------------------------------------------------------------
\* The bytes of texts.

LEMMA TextInFacts ==
    ASSUME NEW v, NEW s, TextForm(v, s)
    PROVE  LET text == v.texts[Place(s)]
               n    == TextLength(v, s)
           IN  /\ text # NULL /\ n \in Nat
               /\ TextIn(v, s) \in Seq(Byte) /\ Len(TextIn(v, s)) = n
               /\ TextIn(v, s) = NormalizeToCp1252(text) \o Padding(n - Len(text))
               /\ ~IsStatic(s.elem) => TextIn(v, s) = NormalizeToCp1252(text)
               /\ Piece(v, s) \in Seq(Byte) /\ Len(Piece(v, s)) = n
               /\ Arrives(text, AsText(TextIn(v, s)))
<1> DEFINE text == v.texts[Place(s)]
           n    == TextLength(v, s)
           b    == NormalizeToCp1252(text)
           p    == Padding(n - Len(text))
           t    == TextIn(v, s)
<1>1. /\ text # NULL /\ text \in Seq(Char) /\ Len(text) \in Nat /\ Len(text) <= n
      /\ n = (IF IsStatic(s.elem) THEN s.elem.length ELSE Len(text)) /\ n \in Nat
  <2>1. /\ text # NULL /\ text \in Seq(Char) /\ Len(text) <= n
        /\ n = (IF IsStatic(s.elem) THEN s.elem.length ELSE Len(text))
        /\ IsStatic(s.elem) => s.elem.length \in Nat
    BY DEF TextForm, TextLength
  <2> HIDE DEF text, n
  <2>2. Len(text) \in Nat
    BY <2>1
  <2> QED BY <2>1, <2>2
<1> HIDE DEF text, n
<1>2. b \in Seq(Byte) /\ Len(b) = Len(text)
  <2>1. \A k \in 1 .. Len(text) : text[k].cp1252 \in Byte
    <3>1. \A k \in 1 .. Len(text) : text[k] \in Char
      BY <1>1
    <3>2. \A c \in Char : c.cp1252 \in Byte
      BY DEF Char
    <3> QED BY <3>1, <3>2
  <2> QED BY <1>1, <2>1 DEF NormalizeToCp1252
<1>3. p \in Seq(Byte) /\ Len(p) = n - Len(text)
  <2>1. n - Len(text) \in Nat /\ BreakByte \in Byte
    BY <1>1, NumberTypes
  <2> QED BY <2>1 DEF Padding
<1>4. t = b \o p
  BY <1>2 DEF TextIn, text, n
<1> HIDE DEF b, p, t
<1>5. t \in Seq(Byte) /\ Len(t) = n
  <2>1. Len(b \o p) = Len(b) + Len(p) /\ b \o p \in Seq(Byte)
    BY <1>2, <1>3
  <2> QED BY <1>1, <1>2, <1>3, <1>4, <2>1
<1>6. ~IsStatic(s.elem) => t = b
  <2>1. CASE IsStatic(s.elem)
    BY <2>1
  <2>2. CASE ~IsStatic(s.elem)
    <3>1. Len(p) = 0
      BY <1>1, <1>3, <2>2
    <3>2. p = << >>
      BY <1>3, <3>1
    <3>3. b \o << >> = b
      BY <1>2
    <3> QED BY <1>4, <3>2, <3>3
  <2> QED BY <2>1, <2>2
<1>7. Piece(v, s) \in Seq(Byte) /\ Len(Piece(v, s)) = n
  <2>1. Piece(v, s) = IF s.elem.type = "string" THEN t ELSE EncodeString(t)
    BY TextFacts DEF t
  <2>2. EncodeString(t) \in Seq(Byte) /\ Len(EncodeString(t)) = n
    BY <1>5, EncodeStringFacts
  <2> QED BY <1>5, <2>1, <2>2
<1>8. Arrives(text, AsText(t))
  <2>1. t # NULL
    BY <1>5, NullAssumption
  <2>2. AsText(t) = [k \in 1 .. n |-> [cp1252 |-> t[k], width |-> 1]]
    BY <1>5, <2>1 DEF AsText
  <2>3. Len(AsText(t)) = n
    BY <1>1, <2>2
  <2>4. Len(b) <= Len(AsText(t)) /\ AsText(t) = AsText(b \o Padding(Len(AsText(t)) - Len(b)))
    BY <1>1, <1>2, <1>4, <2>3 DEF p
  <2> QED BY <1>1, <2>4 DEF Arrives, b
<1> QED BY Zenon, <1>1, <1>4, <1>5, <1>6, <1>7, <1>8 DEF text, n, b, p, t

(* A text is written as the bytes of its field; the text that was read from *)
(* them is, too, and it cannot be too short.                                *)
LEMMA TextIsWritten ==
    ASSUME {"data", "sanitize"} \subseteq DOMAIN writer, writer.sanitize = FALSE,
           NEW v, NEW s, TextForm(v, s), NEW text,
           text = v.texts[Place(s)] \/ text = AsText(TextIn(v, s)), NEW ret, NEW fail,
           ret = IF IsStatic(s.elem)
                 THEN AddFixed(s.elem.type, text, s.elem.length, s.elem.padded, fail)
                 ELSE AddTyped(s.elem.type, text, fail)
    PROVE  /\ Got(ret, Piece(v, s))
           /\ text = AsText(TextIn(v, s)) => Taken(ret, Piece(v, s), fail)
<1> DEFINE n == TextLength(v, s)
           t == TextIn(v, s)
<1>1. /\ v.texts[Place(s)] # NULL
      /\ t = NormalizeToCp1252(v.texts[Place(s)]) \o Padding(n - Len(v.texts[Place(s)]))
      /\ ~IsStatic(s.elem) => t = NormalizeToCp1252(v.texts[Place(s)])
      /\ t \in Seq(Byte) /\ Len(t) = n /\ n \in Nat
  BY TextInFacts
<1>2. Piece(v, s) = IF s.elem.type = "string" THEN t ELSE EncodeString(t)
  BY TextFacts
<1>3. s.elem.type \in {"string", "encoded_string"} /\ (IsStatic(s.elem) => n = s.elem.length)
  BY DEF TextForm, IsString, TextLength
<1>4. ASSUME text = AsText(t)
      PROVE  /\ text # NULL /\ Len(text) = n
             /\ t = NormalizeToCp1252(text) \o Padding(n - Len(text))
             /\ t = NormalizeToCp1252(text)
  <2> HIDE DEF n, t
  <2>1. t # NULL
    BY Zenon, <1>1, NullAssumption
  <2>2. text = [k \in 1 .. n |-> [cp1252 |-> t[k], width |-> 1]]
    BY Zenon, <1>1, <1>4, <2>1 DEF AsText
  <2>3. Len(text) = n
    BY <1>1, <2>2
  <2>4. NormalizeToCp1252(text) = [k \in 1 .. n |-> t[k]]
    BY Zenon, <2>2, <2>3 DEF NormalizeToCp1252
  <2>5. NormalizeToCp1252(text) = t
    BY <1>1, <2>4
  <2>6. Padding(n - Len(text)) = << >>
    BY <1>1, <2>3 DEF Padding
  <2>7. t \o << >> = t
    BY <1>1
  <2>8. text # NULL
    <3>1. \A k \in 1 .. n : [cp1252 |-> t[k], width |-> 1] \in [cp1252 : Byte, width : 1 .. 4]
      BY <1>1
    <3>2. text \in Seq([cp1252 : Byte, width : 1 .. 4])
      BY <1>1, <2>2, <3>1
    <3> QED BY <3>2, TextAssumption
  <2> QED BY Zenon, <2>3, <2>5, <2>6, <2>7, <2>8
<1>5. /\ text # NULL /\ t = NormalizeToCp1252(text) \o Padding(n - Len(text))
      /\ ~IsStatic(s.elem) => t = NormalizeToCp1252(text)
  BY Zenon, <1>1, <1>4
<1>6. Len(EncodeString(t)) = Len(t)
  BY Zenon, <1>1, EncodeStringFacts
<1> HIDE DEF t, n
<1>7. TextBytes(writer, text) = NormalizeToCp1252(text)
  BY DEF TextBytes
<1>8. /\ \A w, error : Refused(w, error).result = error
      /\ \A padded : FieldError(padded) # "EO_SUCCESS"
  BY DEF Refused, FieldError
<1> DEFINE add == IF s.elem.type = "string" THEN EnsureAndAppend(writer, t, fail)
                  ELSE AppendEncoded(writer, t, fail)
<1>9. \/ ret = add
      \/ /\ ret.result # "EO_SUCCESS"
         /\ text = AsText(t) => ret.result = "EO_ALLOC_FAILED" /\ fail # "none"
  <2>1. CASE IsStatic(s.elem)
    <3>1. FieldBytes(writer, text, s.elem.length) = t
      BY Zenon, <1>3, <1>5, <1>7, <2>1 DEF FieldBytes
    <3>2. ret = AddFixed(s.elem.type, text, s.elem.length, s.elem.padded, fail)
      BY <2>1
    <3>3. text = AsText(t) => FitsField(text, s.elem.length, s.elem.padded)
      BY <1>1, <1>3, <1>4, <2>1 DEF FitsField
    <3> QED BY <1>3, <1>5, <1>8, <3>1, <3>2, <3>3
              DEF AddFixed, AddFixedString, AddFixedEncodedString
  <2>2. CASE ~IsStatic(s.elem)
    <3>1. ret = AddTyped(s.elem.type, text, fail)
      BY <2>2
    <3>2. CASE s.elem.type = "string"
      <4>1. ret = AddString(writer, text, fail)
        BY <3>1, <3>2 DEF AddTyped
      <4>2. TextBytes(writer, text) = t
        BY <1>5, <1>7, <2>2
      <4>3. add = EnsureAndAppend(writer, t, fail)
        BY <3>2
      <4>4. ret = IF fail = "text" THEN Refused(writer, "EO_ALLOC_FAILED")
                  ELSE EnsureAndAppend(writer, t, fail)
        BY <1>5, <4>1, <4>2 DEF AddString
      <4> HIDE DEF add
      <4>5. CASE fail = "text"
        BY <1>8, <4>4, <4>5
      <4>6. CASE fail # "text"
        BY <4>3, <4>4, <4>6
      <4> QED BY <4>5, <4>6
    <3>3. CASE s.elem.type = "encoded_string"
      <4>1. ret = AddEncodedString(writer, text, fail)
        BY <3>1, <3>3 DEF AddTyped
      <4>2. TextBytes(writer, text) = t
        BY <1>5, <1>7, <2>2
      <4>3. add = AppendEncoded(writer, t, fail)
        BY <3>3
      <4>4. ret = IF fail = "text" THEN Refused(writer, "EO_ALLOC_FAILED")
                  ELSE AppendEncoded(writer, t, fail)
        BY <1>5, <4>1, <4>2 DEF AddEncodedString
      <4> HIDE DEF add
      <4>5. CASE fail = "text"
        BY <1>8, <4>4, <4>5
      <4>6. CASE fail # "text"
        BY <4>3, <4>4, <4>6
      <4> QED BY <4>5, <4>6
    <3> QED BY <1>3, <3>2, <3>3
  <2> QED BY <2>1, <2>2
<1> HIDE DEF add
<1>10. Taken(add, Piece(v, s), fail)
  BY <1>2, <1>6, AppendAppends DEF add
<1>11. CASE ret = add
  BY <1>10, <1>11 DEF Taken
<1>12. CASE ret # add
  BY <1>9, <1>12 DEF Taken, Got, t
<1> QED BY <1>11, <1>12

LEMMA TextIsRead ==
    ASSUME reader \in Reader, reader.chunked = FALSE,
           NEW v, NEW s, TextForm(v, s), NEW alloc \in BOOLEAN,
           reader.offset + Len(Piece(v, s)) <= Len(reader.data) => Ahead(Piece(v, s))
    PROVE  LET ret == GetFixed(s.elem.type, TextLength(v, s), alloc)
           IN  \/ /\ ret.result = "EO_SUCCESS" /\ ret.value = TextIn(v, s)
                  /\ ret.count = Len(Piece(v, s)) /\ Ahead(Piece(v, s))
               \/ /\ ret.result = "EO_BUFFER_UNDERRUN"
                  /\ ~(reader.offset + Len(Piece(v, s)) <= Len(reader.data))
               \/ ret.result = "EO_ALLOC_FAILED" /\ alloc = FALSE
<1> DEFINE n   == TextLength(v, s)
           t   == TextIn(v, s)
           b   == Piece(v, s)
           ret == GetFixed(s.elem.type, n, alloc)
<1>1. /\ n \in Nat /\ b \in Seq(Byte) /\ Len(b) = n /\ t \in Seq(Byte)
      /\ b = IF s.elem.type = "string" THEN t ELSE EncodeString(t)
  BY TextInFacts, TextFacts
<1>2. DecodeString(EncodeString(t)) = t
  BY <1>1, StringRoundTrip
<1> HIDE DEF n, t, b
<1>3. CASE ~(reader.offset + Len(b) <= Len(reader.data))
  <2>1. ~HasBytes(reader, n)
    BY <1>1, <1>3 DEF HasBytes, Length
  <2>2. \A e : Underrun(reader, e).result = "EO_BUFFER_UNDERRUN"
    BY DEF Underrun, Returned
  <2> QED BY <1>3, <2>1, <2>2 DEF GetFixed, GetFixedString, GetFixedEncodedString, n, b
<1>4. CASE reader.offset + Len(b) <= Len(reader.data)
  <2>1. /\ Ahead(b) /\ HasBytes(reader, n) /\ Bytes(reader, n) = b
    <3>1. Ahead(b)
      BY <1>4 DEF b
    <3> QED BY Zenon, <1>1, <1>4, <3>1, BytesAhead DEF Ahead, Length
  <2>2. ret = Allocated(reader, n, alloc, t)
    BY <1>1, <1>2, <2>1 DEF GetFixed, GetFixedString, GetFixedEncodedString
  <2> QED BY <1>1, <2>1, <2>2 DEF Allocated, Returned, n, t, b
<1> QED BY Zenon, <1>3, <1>4

-----------------------------------------------------------------------------
\* The pointer of an array and its number of items are two cells.

LEMMA LongerByOneOrTwo ==
    ASSUME NEW T, NEW t \in Seq(T), NEW x, NEW y
    PROVE  Append(t, x) # t \o <<x, y>>
<1> DEFINE S == T \cup {x, y}
           c == <<x, y>>
<1>1. t \in Seq(S)
  <2>1. T \subseteq S
    OBVIOUS
  <2> HIDE DEF S
  <2> QED BY <2>1
<1>2. Len(c) = 2 /\ c \in Seq(S) /\ x \in S
  OBVIOUS
<1> HIDE DEF S, c
<1>6. c \in Seq(S)
  BY <1>2
<1>3. Len(t \o c) = Len(t) + 2 /\ Len(t) \in Nat
  <2>1. Len(t \o c) = Len(t) + Len(c) /\ Len(t) \in Nat
    BY <1>1, <1>6
  <2> QED BY <1>2, <2>1
<1>4. Len(Append(t, x)) = Len(t) + 1
  BY <1>1, <1>2
<1>5. Append(t, x) # t \o c
  BY <1>3, <1>4
<1> QED BY <1>5 DEF c

LEMMA PlaceIsNotCount ==
    ASSUME NEW where \in Paths, NEW name
    PROVE  Field(where, name) # Count(where, name)
BY LongerByOneOrTwo DEF Paths, Field, Count

-----------------------------------------------------------------------------
(* The sender.  A statement goes as it should when what is left is what it  *)
(* puts in its place, and the writer got its piece.                         *)

WriterReady == /\ {"data", "sanitize"} \subseteq DOMAIN writer
               /\ writer.data \in Seq(Byte) /\ writer.sanitize = FALSE
               /\ Len(writer.data) <= SizeMax

(* The struct at hand tells the statement s what it has to write: it is the *)
(* value that is sent, or what was made of the message.                     *)
LengthHere(where, e) ==
    IF e.kind = "array" \/ e.type = "blob" THEN Cell(Count(where, e.name), 0)
    ELSE IF IsString(e.type) THEN StrLen(Cell(Field(where, e.name), NULL))
    ELSE Cell(Field(where, e.name), 0)

Tells(v, s) ==
    /\ NumberForm(v, s) => Cell(Place(s), 0) = Given(v, Place(s), 0)
    /\ TextForm(v, s) => Cell(Place(s), NULL) \in {v.texts[Place(s)], AsText(TextIn(v, s))}
    /\ ArrayForm(v, s) => Items(s.at, s.elem) = NumberOf(v, s)
    /\ LengthForm(v, s) =>
          LET target == LengthTarget(s.scope, s.elem.name)
          IN  target = None \/ LengthHere(s.at, target) = LengthAt(v, s.at, target)

FromMessage(v, s) == TextForm(v, s) => Cell(Place(s), NULL) = AsText(TextIn(v, s))

Sends == /\ todo' = After(original, todo) /\ result' = result
         /\ WriterReady'
         /\ writer'.data = writer.data \o Piece(original, Head(todo))

(* What was made of a message fits its fields: only memory can run out, or  *)
(* the size of the writer.                                                  *)
SenderStops ==
    /\ result' # "EO_SUCCESS" \/ fault' # "none"
    /\ FromMessage(original, Head(todo)) =>
          \/ fault' # "none"
          \/ result' = "EO_ALLOC_FAILED" /\ scarce
          \/ /\ result' = "EO_OVERFLOW"
             /\ SizeMax - Len(writer.data) < Len(Piece(original, Head(todo)))

LEMMA PieceIsBytes ==
    ASSUME NEW v, NEW s, Form(v, s)
    PROVE  Piece(v, s) \in Seq(Byte) /\ Len(Piece(v, s)) \in Nat
<1>1. CASE LiteralForm(s)
  BY <1>1, LiteralFacts, NumberBytesFacts DEF LiteralForm
<1>2. CASE NumberForm(v, s)
  BY <1>2, NumberFacts, NumberBytesFacts DEF NumberForm
<1>3. CASE LengthForm(v, s)
  BY <1>3, LengthFacts, NumberBytesFacts DEF LengthForm
<1>4. CASE TextForm(v, s)
  BY <1>4, TextInFacts
<1>5. CASE StructForm(s) \/ ArrayForm(v, s) \/ LoopForm(s) \/ LeaveForm(s)
  <2>1. Piece(v, s) = << >>
    BY Zenon, <1>5, StructFacts, ArrayFacts, LoopFacts
  <2> QED BY <2>1
<1>6. Piece(v, s) \in Seq(Byte)
  BY <1>1, <1>2, <1>3, <1>4, <1>5 DEF Form
<1> HIDE DEF Piece
<1> QED BY <1>6

\* The struct of the sender is the value it sends.
LEMMA SenderCells ==
    ASSUME mem = Value(original), raw = {}
    PROVE  \A s : Tells(original, s)
<1>1. \A p, zero : Cell(p, zero) = Given(original, p, zero)
  BY DEF Cell, Given
<1>2. \A where, e : LengthHere(where, e) = LengthAt(original, where, e)
  BY <1>1 DEF LengthHere, LengthAt
<1> TAKE s
<1>3. TextForm(original, s) => Given(original, Place(s), NULL) = original.texts[Place(s)]
  BY DEF TextForm, Given, Value
<1>4. Items(s.at, s.elem) = NumberOf(original, s)
  BY <1>1 DEF Items, NumberOf
<1> QED BY <1>1, <1>2, <1>3, <1>4 DEF Tells

\* So does a struct that was made of a message.
LEMMA RetainedTells ==
    ASSUME NEW type, NEW W, Repeats(original, type, W), Retained(W), NEW s \in W
    PROVE  Tells(original, s) /\ FromMessage(original, s)
<1> DEFINE v == original
<1>1. \A u \in W : \A q \in Fills(v, u) :
         /\ q \in DOMAIN mem /\ mem[q] = Content(v, u, q)
         /\ \A zero : Cell(q, zero) = Content(v, u, q)
  BY DEF Retained, HasContent, Cell
<1>2. NumberForm(v, s) => Cell(Place(s), 0) = Given(v, Place(s), 0)
  BY <1>1, NumberFacts, TextFacts DEF Content
<1>3. TextForm(v, s) => Cell(Place(s), NULL) = AsText(TextIn(v, s))
  BY <1>1, TextFacts DEF Content
<1>4. ASSUME ArrayForm(v, s) PROVE Items(s.at, s.elem) = NumberOf(v, s)
  <2>1. CASE IsStatic(s.elem)
    BY <2>1 DEF Items, NumberOf
  <2>2. CASE ~IsStatic(s.elem)
    <3> DEFINE q == Count(s.at, s.elem.name)
    <3>1. q \in Fills(v, s) /\ ~TextForm(v, s) /\ ~NumberForm(v, s) /\ s.elem.kind = "array"
      BY <1>4, <2>2, ArrayFacts, NumberFacts
    <3>2. s.at \in Paths
      BY DEF Repeats, Fits, Program
    <3>3. q # Place(s)
      BY <3>1, <3>2, PlaceIsNotCount DEF Place
    <3>4. Content(v, s, q) = NumberOf(v, s)
      BY <3>1, <3>3 DEF Content
    <3> QED BY <1>1, <2>2, <3>1, <3>4 DEF Items
  <2> QED BY <2>1, <2>2
<1>5. ASSUME LengthForm(v, s), NEW target, target = LengthTarget(s.scope, s.elem.name),
             target # None
      PROVE  LengthHere(s.at, target) = LengthAt(v, s.at, target)
  <2> DEFINE q == Measured(s.at, target)
  <2>1. PICK u \in W : q \in Fills(v, u) /\ LengthIn(target, Content(v, u, q)) = LengthAt(v, s.at, target)
    BY <1>5 DEF Repeats
  <2>2. \A zero : Cell(q, zero) = Content(v, u, q)
    BY <1>1, <2>1
  <2>3. LengthHere(s.at, target) = LengthIn(target, Content(v, u, q))
    BY <2>2 DEF LengthHere, LengthIn, Measured
  <2> QED BY <2>1, <2>3
<1> QED BY <1>2, <1>3, <1>4, <1>5 DEF Tells, FromMessage

LEMMA NothingPut ==
    ASSUME NEW W, todo \in Seq(W), todo # << >>, Expansion(original, Head(todo)) = << >>
    PROVE  After(original, todo) = Tail(todo)
<1> DEFINE u == Tail(todo)
<1>1. u \in Seq(W)
  OBVIOUS
<1> HIDE DEF u
<1>2. << >> \o u = u
  BY <1>1
<1> QED BY <1>2 DEF After, u

LEMMA WriteSends ==
    ASSUME NEW W, todo \in Seq(W), todo # << >>, WriterReady,
           Form(original, Head(todo)), Expansion(original, Head(todo)) = << >>,
           NEW ret, Write(ret), NEW fail \in WriterFailures,
           Got(ret, Piece(original, Head(todo))),
           FromMessage(original, Head(todo)) => Taken(ret, Piece(original, Head(todo)), fail)
    PROVE  Sends \/ SenderStops
<1>1. writer' = ret.writer
  BY DEF Write
<1>2. CASE ret.result = "EO_SUCCESS"
  <2>1. todo' = Tail(todo) /\ result' = result
    BY <1>2 DEF Write
  <2>2. /\ writer.data \o Piece(original, Head(todo)) \in Seq(Byte)
        /\ Len(writer.data \o Piece(original, Head(todo))) <= SizeMax
    <3> DEFINE d == writer.data
               b == Piece(original, Head(todo))
    <3>1. d \in Seq(Byte) /\ b \in Seq(Byte) /\ ~(SizeMax - Len(d) < Len(b))
      BY <1>2, PieceIsBytes DEF WriterReady, Got
    <3> HIDE DEF d, b
    <3>2. /\ d \o b \in Seq(Byte) /\ Len(d \o b) = Len(d) + Len(b)
          /\ Len(d) \in Nat /\ Len(b) \in Nat
      BY <3>1
    <3>3. Len(d \o b) <= SizeMax
      BY <3>1, <3>2, SizeAssumption
    <3> QED BY Zenon, <3>2, <3>3 DEF d, b
  <2> QED BY Zenon, <1>1, <1>2, <2>1, <2>2, NothingPut DEF Sends, WriterReady, Got
<1>3. CASE ret.result # "EO_SUCCESS"
  <2>1. result' = ret.result /\ (fail # "none" => scarce)
    BY <1>3 DEF Write, Fail, WriterFailures
  <2> QED BY <1>3, <2>1 DEF SenderStops, Taken
<1> QED BY <1>2, <1>3

LEMMA ExpandSends ==
    ASSUME todo # << >>, WriterReady, Expand(Expansion(original, Head(todo))),
           Piece(original, Head(todo)) = << >>
    PROVE  Sends
<1>1. /\ todo' = After(original, todo) /\ result' = result /\ writer' = writer
  BY DEF Expand, After
<1>2. writer.data \o << >> = writer.data
  <2> DEFINE d == writer.data
  <2>1. d \in Seq(Byte)
    BY DEF WriterReady
  <2> HIDE DEF d
  <2>2. d \o << >> = d
    BY <2>1
  <2> QED BY <2>2 DEF d
<1> QED BY <1>1, <1>2 DEF Sends, WriterReady

LEMMA SenderMoves ==
    ASSUME NEW W, Program(original, W), todo \in Seq(W), WriterReady,
           \A s \in W : Tells(original, s), SerializeStep
    PROVE  /\ todo # << >> /\ mem' = mem /\ raw' = raw /\ reader' = reader
           /\ Sends \/ SenderStops
<1> DEFINE v == original
           s == Head(todo)
<1>1. todo # << >> /\ mem' = mem /\ raw' = raw /\ reader' = reader
  BY Zenon DEF SerializeStep, WriteChunked, SkipField, WriteStructField, WriteArray, WriteItems,
         WriteSwitch, LeaveSerialize, WriteBreak, WriteLiteral, WriteField, WriteLength,
         WriteItem, Now, Expand, Write, Crash, unwritten, memory
<1>2. s \in W
  BY <1>1
<1>3. Form(v, s)
  BY <1>2 DEF Program
<1>4. elem = s.elem /\ at = s.at /\ scope = s.scope
  BY DEF elem, at, scope
<1>5. /\ s.elem.kind \notin {"chunked", "break", "switch"}
      /\ IsLiteral(s) <=> Literal
  BY <1>3, <1>4, FormOfKind DEF IsLiteral, Literal
<1>6. Tells(v, s)
  BY <1>2
<1>7. s.elem.kind # "item" => Place(s) = path
  BY <1>4 DEF Place, path
<1> SUFFICES Sends \/ SenderStops
  BY <1>1
<1>8. CASE WriteChunked \/ WriteSwitch \/ \E fail \in WriterFailures : WriteBreak(fail)
  BY Zenon, <1>4, <1>5, <1>8 DEF WriteChunked, WriteSwitch, WriteBreak, Now
<1>9. CASE SkipField
  <2>1. s.elem.kind = "field" /\ ~IsLiteral(s) /\ ~Present(at, elem)
    BY <1>4, <1>5, <1>9 DEF SkipField, Now
  <2>2. ~elem.optional
    BY <1>3, <1>4, <2>1, FormOfKind DEF IsNamed
  <2> QED BY <2>1, <2>2 DEF Present
<1>10. CASE WriteStructField
  <2>1. /\ s.elem.kind = "field" /\ ~IsLiteral(s) /\ IsStruct(s.elem.type)
        /\ Expand(SerializeStruct(path, elem.type))
    BY <1>4, <1>5, <1>10 DEF WriteStructField, Now
  <2>2. StructForm(s)
    BY <1>3, <2>1, FormOfKind
  <2>3. SerializeStruct(path, elem.type) = Expansion(v, s)
    BY Zenon, <1>4, <1>7, <2>1, <2>2, StructFacts DEF SerializeStruct, WriterReady
  <2> QED BY Zenon, <1>1, <2>1, <2>2, <2>3, ExpandSends, StructFacts
<1>11. CASE WriteArray
  <2>1. s.elem.kind = "array"
    BY <1>4, <1>11 DEF WriteArray, Now
  <2>2. ArrayForm(v, s)
    BY <1>3, <2>1, FormOfKind
  <2>3. Present(at, elem)
    BY <1>4, <2>2 DEF ArrayForm, Present
  <2>4. Items(at, elem) = NumberOf(v, s)
    BY <1>4, <1>6, <2>2 DEF Tells
  <2>5. Expand(Expansion(v, s))
    BY <1>4, <1>11, <2>2, <2>3, <2>4, ArrayFacts DEF WriteArray
  <2> QED BY <1>1, <2>2, <2>5, ExpandSends, ArrayFacts
<1>12. CASE WriteItems
  <2>1. s.elem.kind = "loop" /\ Expand(Round)
    BY <1>4, <1>12 DEF WriteItems, Now
  <2>2. LoopForm(s)
    BY <1>3, <2>1, FormOfKind
  <2>3. Round = RoundOf(s)
    BY <1>4, <2>2 DEF LoopForm, Round, RoundOf
  <2>4. Round = Expansion(v, s)
    BY <2>2, <2>3, LoopFacts
  <2> QED BY <1>1, <2>1, <2>2, <2>4, ExpandSends, LoopFacts
<1>13. CASE LeaveSerialize
  <2>1. /\ s.elem.kind = "leave" /\ writer' = SetSanitization(writer, elem.mode)
        /\ todo' = Tail(todo) /\ result' = result
    BY <1>4, <1>13 DEF LeaveSerialize, Now
  <2>2. LeaveForm(s)
    BY <1>3, <2>1, FormOfKind
  <2>3. /\ {"data", "sanitize"} \subseteq DOMAIN writer' /\ writer'.data = writer.data
        /\ writer'.sanitize = FALSE
    BY <1>4, <2>1, <2>2 DEF WriterReady, LeaveForm, SetSanitization
  <2>4. Expansion(v, s) = << >> /\ Piece(v, s) = << >>
    <3>1. ~LoopForm(s)
      BY <2>1 DEF LoopForm
    <3> QED BY <2>2, <3>1, LoopFacts
  <2>5. writer.data \o << >> = writer.data
    <3> DEFINE d == writer.data
    <3>1. d \in Seq(Byte)
      BY DEF WriterReady
    <3> HIDE DEF d
    <3>2. d \o << >> = d
      BY <3>1
    <3> QED BY <3>2 DEF d
  <2>6. todo' = After(original, todo)
    BY <1>1, <2>1, <2>4, NothingPut
  <2> QED BY <2>1, <2>3, <2>4, <2>5, <2>6 DEF Sends, WriterReady
<1>14. ASSUME NEW fail \in WriterFailures, WriteLiteral(fail)
       PROVE  Sends \/ SenderStops
  <2> DEFINE ret == AddTyped(FieldNumber(elem), elem.value, fail)
  <2>1. IsLiteral(s) /\ Write(ret)
    BY <1>5, <1>14 DEF WriteLiteral
  <2>2. LiteralForm(s)
    BY <1>3, <2>1, FormOfKind
  <2>3. /\ Expansion(v, s) = << >> /\ WireType(s) = FieldNumber(s.elem)
        /\ Piece(v, s) = NumberBytes(WireType(s), LiteralOf(s))
    BY Zenon, <2>2, LiteralFacts
  <2>4. Taken(ret, Piece(v, s), fail)
    <3>1. /\ FieldNumber(elem) \in NumberKinds
          /\ Holds(FieldNumber(elem), LiteralOf(s))
          /\ FieldNumber(elem) = "byte" => LiteralOf(s) = elem.value % (CharMax + 3)
          /\ FieldNumber(elem) # "byte" => LiteralOf(s) = elem.value
      BY <1>4, <2>2, <2>3 DEF LiteralForm, LiteralOf
    <3> QED BY <1>4, <2>3, <3>1, NumberIsWritten DEF WriterReady
  <2> HIDE DEF ret
  <2>5. Got(ret, Piece(v, s))
    BY <2>4 DEF Taken
  <2> QED BY <1>1, <1>3, <2>1, <2>3, <2>4, <2>5, WriteSends
<1>15. ASSUME NEW fail \in WriterFailures, WriteField(fail)
       PROVE  Sends \/ SenderStops
  <2> DEFINE zero  == IF IsString(elem.type) \/ elem.type = "blob" THEN NULL ELSE 0
             value == IF elem.value # None THEN elem.value ELSE Cell(path, zero)
             ret   == IF IsString(elem.type) /\ IsStatic(elem)
                      THEN AddFixed(elem.type, value, elem.length, elem.padded, fail)
                      ELSE AddTyped(FieldNumber(elem), value, fail)
  <2>1. s.elem.kind = "field" /\ ~IsLiteral(s) /\ ~IsStruct(s.elem.type) /\ Write(ret)
    BY <1>4, <1>5, <1>15 DEF WriteField, Now
  <2>2. NumberForm(v, s) \/ TextForm(v, s)
    BY <1>3, <2>1, FormOfKind
  <2>3. Expansion(v, s) = << >>
    BY <2>2, NumberFacts, TextFacts
  <2>4. value = Cell(Place(s), zero)
    <3>1. elem.value = None
      BY <1>4, <2>1, <2>2 DEF NumberForm, TextForm
    <3> QED BY <1>7, <2>1, <3>1
  <2>5. Got(ret, Piece(v, s)) /\ (FromMessage(v, s) => Taken(ret, Piece(v, s), fail))
    <3>1. CASE NumberForm(v, s)
      <4>1. /\ ~IsString(elem.type) /\ zero = 0 /\ WireType(s) = FieldNumber(elem)
            /\ WireType(s) \in NumberKinds /\ Holds(WireType(s), Given(v, Place(s), 0))
        BY <1>4, <2>1, <3>1 DEF NumberForm, WireType
      <4>2. value = Given(v, Place(s), 0)
        BY <1>6, <2>4, <3>1, <4>1 DEF Tells
      <4>3. ret = AddTyped(WireType(s), Given(v, Place(s), 0), fail)
        BY <4>1, <4>2
      <4>4. Piece(v, s) = NumberBytes(WireType(s), Given(v, Place(s), 0))
        BY <3>1, NumberFacts
      <4> HIDE DEF ret
      <4>5. Taken(ret, Piece(v, s), fail)
        BY <4>1, <4>3, <4>4, FittingNumberIsWritten DEF WriterReady
      <4> QED BY <4>5 DEF Taken
    <3>2. CASE TextForm(v, s)
      <4>1. IsString(elem.type) /\ zero = NULL /\ FieldNumber(elem) = elem.type
        BY <1>4, <3>2, TextFacts DEF TextForm
      <4>2. /\ value = v.texts[Place(s)] \/ value = AsText(TextIn(v, s))
            /\ FromMessage(v, s) => value = AsText(TextIn(v, s))
        BY <1>6, <2>4, <3>2, <4>1 DEF Tells, FromMessage
      <4>3. ret = IF IsStatic(s.elem)
                  THEN AddFixed(s.elem.type, value, s.elem.length, s.elem.padded, fail)
                  ELSE AddTyped(s.elem.type, value, fail)
        BY <1>4, <4>1
      <4> HIDE DEF ret, value
      <4> QED BY Zenon, <3>2, <4>2, <4>3, TextIsWritten DEF WriterReady
    <3> QED BY <2>2, <3>1, <3>2
  <2> HIDE DEF ret
  <2> QED BY <1>1, <1>3, <2>1, <2>3, <2>5, WriteSends
<1>16. ASSUME NEW fail \in WriterFailures, WriteLength(fail)
       PROVE  Sends \/ SenderStops
  <2> DEFINE target == LengthTarget(scope, elem.name)
             value  == (IF target = None THEN 0 ELSE TargetLength(target)) + elem.offset
             ret    == AddTyped(elem.type, value, fail)
  <2>1. s.elem.kind = "length" /\ (Crash("strlen of a null pointer") \/ Write(ret))
    BY Zenon, <1>4, <1>16 DEF WriteLength, Now
  <2>2. LengthForm(v, s)
    BY Zenon, <1>3, <2>1, FormOfKind
  <2>3. value = LengthOf(v, s)
    <3>1. target = LengthTarget(s.scope, s.elem.name)
      BY <1>4
    <3> HIDE DEF target
    <3>2. TargetLength(target) = LengthHere(s.at, target)
      BY <1>4 DEF TargetLength, LengthHere
    <3>3. target = None \/ LengthHere(s.at, target) = LengthAt(v, s.at, target)
      BY <1>6, <2>2, <3>1 DEF Tells
    <3> QED BY <1>4, <3>1, <3>2, <3>3 DEF LengthOf
  <2>4. /\ Expansion(v, s) = << >> /\ s.elem.type \in NumberKinds
        /\ Holds(s.elem.type, LengthOf(v, s))
        /\ Piece(v, s) = NumberBytes(s.elem.type, LengthOf(v, s))
    BY <2>2, LengthFacts DEF LengthForm
  <2>6. ret = AddTyped(s.elem.type, LengthOf(v, s), fail)
    BY <1>4, <2>3
  <2> HIDE DEF ret
  <2>7. Taken(ret, Piece(v, s), fail) /\ Got(ret, Piece(v, s))
    BY <2>4, <2>6, FittingNumberIsWritten DEF WriterReady, Taken
  <2>8. Crash("strlen of a null pointer") => SenderStops
    BY Zenon DEF Crash, SenderStops
  <2> QED BY Zenon, <1>1, <1>3, <2>1, <2>4, <2>7, <2>8, WriteSends
<1>17. ASSUME NEW fail \in WriterFailures, WriteItem(fail)
       PROVE  Sends \/ SenderStops
  <2> DEFINE ret == AddTyped(ItemNumber(elem),
                             Cell(at, IF IsString(elem.type) THEN NULL ELSE 0), fail)
  <2>1. /\ s.elem.kind = "item" /\ Place(s) = at
        /\ IF IsStruct(s.elem.type) THEN Expand(SerializeStruct(at, elem.type)) ELSE Write(ret)
    BY <1>4, <1>17 DEF WriteItem, Now, Place
  <2>2. CASE IsStruct(s.elem.type)
    <3>1. StructForm(s)
      BY <1>3, <2>1, <2>2, FormOfKind
    <3>2. SerializeStruct(at, elem.type) = Expansion(v, s)
      BY Zenon, <1>4, <2>1, <3>1, StructFacts DEF SerializeStruct, WriterReady
    <3> QED BY Zenon, <1>1, <2>1, <2>2, <3>1, <3>2, ExpandSends, StructFacts
  <2>3. CASE ~IsStruct(s.elem.type)
    <3>1. NumberForm(v, s)
      BY <1>3, <2>1, <2>3, FormOfKind
    <3>2. /\ ~IsString(elem.type) /\ WireType(s) = ItemNumber(elem)
          /\ WireType(s) \in NumberKinds /\ Holds(WireType(s), Given(v, Place(s), 0))
      BY <1>4, <2>1, <3>1 DEF NumberForm, WireType
    <3>3. ret = AddTyped(WireType(s), Given(v, Place(s), 0), fail)
      BY <1>6, <2>1, <3>1, <3>2 DEF Tells
    <3>4. Piece(v, s) = NumberBytes(WireType(s), Given(v, Place(s), 0)) /\ Expansion(v, s) = << >>
      BY <3>1, NumberFacts
    <3> HIDE DEF ret
    <3>6. Taken(ret, Piece(v, s), fail) /\ Got(ret, Piece(v, s))
      BY <3>2, <3>3, <3>4, FittingNumberIsWritten DEF WriterReady, Taken
    <3> QED BY <1>1, <1>3, <2>1, <2>3, <3>4, <3>6, WriteSends
  <2> QED BY <2>2, <2>3
<1> QED
  BY <1>8, <1>9, <1>10, <1>11, <1>12, <1>13, <1>14, <1>15, <1>16, <1>17 DEF SerializeStep

-----------------------------------------------------------------------------
(* The receiver.  It takes a statement as the sender did when the bytes of  *)
(* its piece lie ahead, and the cells it fills have arrived.                *)

ReceiverReady == /\ reader \in Reader /\ reader.chunked = FALSE
                 /\ reader.offset <= Len(reader.data)

InReach(v, s) == reader.offset + Len(Piece(v, s)) <= Len(reader.data)

Receives ==
    LET v == original
        s == Head(todo)
    IN  /\ todo' = After(v, todo) /\ result' = result
        /\ ReceiverReady' /\ InReach(v, s)
        /\ reader'.data = reader.data
        /\ reader'.offset = reader.offset + Len(Piece(v, s))
        /\ locals' = CountsAfter(v, locals, s)
        /\ \A q \in Fills(v, s) : HasContent(mem', v, s, q)
        /\ \A q \in DOMAIN mem \ Fills(v, s) :
              Keeps(mem, mem', q) \/ (StructForm(s) /\ Within(q, Place(s)))

ReceiverStops ==
    /\ result' # "EO_SUCCESS" /\ reader'.data = reader.data
    /\ (scarce /\ result' = "EO_ALLOC_FAILED") \/ ~InReach(original, Head(todo))

LEMMA ConsumeFacts ==
    ASSUME ReceiverReady, NEW n \in Nat, reader' = Consume(reader, n)
    PROVE  /\ reader' \in Reader /\ reader'.chunked = FALSE
           /\ reader'.data = reader.data /\ reader'.offset = reader.offset + n
<1>1. reader \in Reader /\ reader.chunked = FALSE
  BY DEF ReceiverReady
<1>2. reader.offset + n \in Nat
  BY <1>1 DEF Reader
<1> QED BY Zenon, <1>1, <1>2 DEF Reader, Consume

\* What became of a cell that was assigned, and of the others.
LEMMA CellFilled ==
    ASSUME NEW m, NEW p, NEW x
    PROVE  /\ p \in DOMAIN Assigned(m, p, x) /\ Assigned(m, p, x)[p] = x
           /\ \A q \in DOMAIN m : q # p => Keeps(m, Assigned(m, p, x), q)
BY DEF Keeps, Assigned

\* What is found in a cell is what arrived there.
LEMMA ContentArrives ==
    ASSUME NEW m, NEW v, NEW s, s.at \in Paths, NEW q \in Fills(v, s), HasContent(m, v, s, q)
    PROVE  Arrived(m, v, q)
<1>1. CASE TextForm(v, s)
  <2>1. q = Place(s) /\ q \notin DOMAIN v.cells /\ Content(v, s, q) = AsText(TextIn(v, s))
    BY <1>1, TextFacts DEF TextForm, Content
  <2>2. Arrives(v.texts[q], AsText(TextIn(v, s)))
    BY <1>1, <2>1, TextInFacts
  <2> QED BY <2>1, <2>2 DEF Arrived, HasContent
<1>2. CASE NumberForm(v, s)
  <2>1. q = Place(s) /\ q \notin DOMAIN v.texts /\ Content(v, s, q) = Given(v, q, 0)
    BY <1>2, TextFacts, NumberFacts DEF NumberForm, Content
  <2> QED BY <2>1 DEF Arrived, HasContent, Given, Value
<1>3. CASE ~TextForm(v, s) /\ ~NumberForm(v, s)
  <2>1. /\ ArrayForm(v, s) /\ ~IsStatic(s.elem)
        /\ q \in {Place(s), Count(s.at, s.elem.name)}
    BY <1>3 DEF Fills
  <2>2. Place(s) # Count(s.at, s.elem.name)
    BY <2>1, PlaceIsNotCount DEF ArrayForm, Place
  <2>3. q \notin DOMAIN v.texts
    BY <2>1 DEF ArrayForm
  <2>4. CASE q = Place(s)
    BY <1>3, <2>1, <2>3, <2>4 DEF Arrived, HasContent, Content, ArrayForm
  <2>5. CASE q = Count(s.at, s.elem.name)
    BY <1>3, <2>1, <2>2, <2>3, <2>5 DEF Arrived, HasContent, Content, NumberOf, Given, Value
  <2> QED BY <2>1, <2>4, <2>5
<1> QED BY <1>1, <1>2, <1>3

\* Statements that read nothing and leave the cells alone.
LEMMA UnfoldReceives ==
    ASSUME todo # << >>, ReceiverReady, Unfold(Expansion(original, Head(todo))),
           Piece(original, Head(todo)) = << >>, ~LengthForm(original, Head(todo)),
           locals' = locals,
           \A q \in Fills(original, Head(todo)) : HasContent(mem', original, Head(todo), q),
           \A q \in DOMAIN mem \ Fills(original, Head(todo)) :
               \/ Keeps(mem, mem', q)
               \/ StructForm(Head(todo)) /\ Within(q, Place(Head(todo)))
    PROVE  Receives
<1>1. /\ todo' = After(original, todo) /\ result' = result /\ reader' = reader
  BY DEF Unfold, After
<1>2. reader.offset \in Nat /\ reader.offset <= Len(reader.data) /\ Len(<< >>) = 0
  BY DEF ReceiverReady, Reader
<1>3. reader.offset + Len(<< >>) = reader.offset
  BY <1>2
<1> QED BY <1>1, <1>2, <1>3 DEF Receives, ReceiverReady, InReach, CountsAfter

LEMMA ReadReceives ==
    ASSUME NEW W, todo \in Seq(W), todo # << >>, ReceiverReady,
           Form(original, Head(todo)), Expansion(original, Head(todo)) = << >>,
           ~LengthForm(original, Head(todo)),
           NEW p, Fills(original, Head(todo)) = {p}, NEW type, type # "blob",
           NEW ret, ReadInto(p, type, ret),
           \/ /\ ret.result = "EO_SUCCESS" /\ InReach(original, Head(todo))
              /\ ret.count = Len(Piece(original, Head(todo)))
              /\ InCell(type, ret.value) = Content(original, Head(todo), p)
           \/ /\ ret.result \in {"EO_BUFFER_UNDERRUN", "EO_ALLOC_FAILED"}
              /\ ret.result = "EO_BUFFER_UNDERRUN" => ~InReach(original, Head(todo))
              /\ ret.result = "EO_ALLOC_FAILED" => scarce
    PROVE  Receives \/ ReceiverStops
<1> DEFINE s == Head(todo)
           n == Len(Piece(original, s))
<1>1. reader' = Consume(reader, ret.count)
  BY DEF ReadInto
<1>2. n \in Nat
  BY PieceIsBytes
<1>3. CASE ret.result = "EO_SUCCESS"
  <2>1. /\ todo' = Tail(todo) /\ result' = result /\ locals' = locals
        /\ mem' = Assigned(mem, p, InCell(type, ret.value))
    BY <1>3 DEF ReadInto
  <2>2. /\ InReach(original, s) /\ ret.count = n
        /\ HasContent(mem', original, s, p)
        /\ \A q \in DOMAIN mem : q # p => Keeps(mem, mem', q)
    BY <1>3, <2>1, CellFilled DEF HasContent
  <2>3. /\ reader' \in Reader /\ reader'.chunked = FALSE
        /\ reader'.data = reader.data /\ reader'.offset = reader.offset + n
    BY Zenon, <1>1, <1>2, <2>2, ConsumeFacts
  <2>4. ReceiverReady'
    BY <2>2, <2>3 DEF ReceiverReady, InReach
  <2>5. todo' = After(original, todo)
    BY <2>1, NothingPut
  <2>6. locals' = CountsAfter(original, locals, s)
    BY <2>1 DEF CountsAfter
  <2> QED BY <2>1, <2>2, <2>3, <2>4, <2>5, <2>6 DEF Receives
<1>4. CASE ret.result # "EO_SUCCESS"
  <2>1. result' = ret.result
    BY <1>4 DEF ReadInto, Fail
  <2>2. reader'.data = reader.data
    BY <1>1 DEF Consume, ReceiverReady, Reader
  <2> QED BY <1>4, <2>1, <2>2 DEF ReceiverStops
<1> QED BY <1>3, <1>4

LEMMA AllocationsFacts ==
    ASSUME NEW alloc \in Allocations
    PROVE  alloc \in BOOLEAN /\ (alloc = FALSE => scarce)
BY Zenon DEF Allocations

LEMMA FirstCountKnown ==
    ASSUME NEW W, NEW t \in Seq(W), t # << >>, NEW v, NEW l, CountsReady(v, l, t),
           Counted(v, Head(t))
    PROVE  CounterPath(Head(t)) \in DOMAIN l /\ l[CounterPath(Head(t))] = CountIn(v, Head(t))
<1>1. Head(t) = t[1] /\ 1 \in 1 .. Len(t)
  OBVIOUS
<1>2. Known(v, l, t[1]) \/ Announced(v, t, 1)
  BY <1>1 DEF CountsReady
<1>3. ~Announced(v, t, 1)
  BY DEF Announced
<1> QED BY <1>1, <1>2, <1>3 DEF Known

\* The cells of a nested struct are cleared, no others.
LEMMA StructReceives ==
    ASSUME todo # << >>, ReceiverReady, StructForm(Head(todo)),
           EnterStruct(Place(Head(todo)), Head(todo).elem.type, {})
    PROVE  Receives
<1> DEFINE v == original
           s == Head(todo)
           p == Place(s)
<1>1. /\ Unfold(Expansion(v, s)) /\ Piece(v, s) = << >> /\ Fills(v, s) = {}
      /\ ~LengthForm(v, s)
  BY Zenon, StructFacts DEF EnterStruct, ReceiverReady
<1>2. /\ mem' = [q \in {} \cup {q \in DOMAIN mem : ~Within(q, p)} |->
                    IF q \in {} THEN 1 ELSE mem[q]]
      /\ locals' = locals
  BY DEF EnterStruct
<1>3. ASSUME NEW q \in DOMAIN mem, ~Within(q, p)
      PROVE  Keeps(mem, mem', q)
  BY <1>2, <1>3 DEF Keeps
<1> QED BY <1>1, <1>2, <1>3, UnfoldReceives

LEMMA FieldReceives ==
    ASSUME NEW W, Program(original, W), todo \in Seq(W), todo # << >>, ReceiverReady,
           CountsReady(original, locals, todo),
           InReach(original, Head(todo)) => Ahead(Piece(original, Head(todo))),
           NEW alloc \in Allocations, ReadField(alloc)
    PROVE  Receives \/ ReceiverStops
<1> DEFINE v == original
           s == Head(todo)
           ret == IF IsString(elem.type) /\ IsStatic(elem)
                  THEN GetFixed(elem.type, elem.length, alloc)
                  ELSE IF IsString(elem.type) /\ IsCounted(elem)
                  THEN GetFixed(elem.type, locals[Field(at, elem.counter)], alloc)
                  ELSE GetTyped(FieldNumber(elem), alloc)
<1>1. elem = s.elem /\ at = s.at
  BY DEF elem, at
<1>2. /\ s.elem.kind = "field" /\ ~IsLiteral(s) /\ ~IsStruct(s.elem.type)
      /\ ReadInto(path, FieldNumber(elem), ret)
  BY <1>1 DEF ReadField, Now, IsLiteral, Literal
<1>3. Form(v, s) /\ Place(s) = path
  BY <1>1, <1>2 DEF Program, Place, path
<1>4. NumberForm(v, s) \/ TextForm(v, s)
  BY <1>2, <1>3, FormOfKind
<1>5. /\ Expansion(v, s) = << >> /\ Fills(v, s) = {Place(s)} /\ ~LengthForm(v, s)
  BY <1>4, NumberFacts, TextFacts
<1>6. alloc \in BOOLEAN /\ (alloc = FALSE => scarce)
  BY Zenon, AllocationsFacts
<1>7. CASE NumberForm(v, s)
  <2> DEFINE type == FieldNumber(elem)
             n    == Given(v, Place(s), 0)
  <2>1. /\ WireType(s) = type /\ type \in NumberKinds /\ Holds(type, n)
        /\ ~IsString(elem.type) /\ Place(s) \notin DOMAIN v.texts
    BY <1>1, <1>2, <1>7 DEF NumberForm, WireType
  <2>2. ret = GetTyped(type, alloc)
    BY <2>1
  <2>3. Piece(v, s) = NumberBytes(type, n)
    BY <1>7, <2>1, NumberFacts
  <2>4. type # "blob" /\ ~IsString(type) /\ (type = "bool" => n \in {0, 1})
    BY <2>1, SizesOfTypes DEF Holds
  <2>5. InCell(type, n) = n
    BY <2>4 DEF InCell
  <2>6. Content(v, s, Place(s)) = n
    BY <1>7, TextFacts DEF Content
  <2> HIDE DEF ret, type, n
  <2>7. \/ /\ ret.result = "EO_SUCCESS" /\ ret.value = n
           /\ ret.count = Len(NumberBytes(type, n)) /\ Ahead(NumberBytes(type, n))
        \/ /\ ret.result = "EO_BUFFER_UNDERRUN"
           /\ ~(reader.offset + Len(NumberBytes(type, n)) <= Len(reader.data))
    BY Zenon, <2>1, <2>2, <2>3, NumberIsRead DEF ReceiverReady, InReach
  <2>8. \/ /\ ret.result = "EO_SUCCESS" /\ InReach(v, s) /\ ret.count = Len(Piece(v, s))
           /\ InCell(type, ret.value) = Content(v, s, Place(s))
        \/ ret.result = "EO_BUFFER_UNDERRUN" /\ ~InReach(v, s)
    BY <2>1, <2>3, <2>5, <2>6, <2>7 DEF InReach, Ahead
  <2>9. ReadInto(Place(s), type, ret)
    BY <1>2, <1>3 DEF type
  <2> QED BY Zenon, <1>3, <1>5, <2>4, <2>8, <2>9, ReadReceives
<1>8. CASE TextForm(v, s)
  <2> DEFINE n == TextLength(v, s)
  <2>1. /\ IsString(elem.type) /\ FieldNumber(elem) = elem.type /\ elem.type # "blob"
        /\ Place(s) \in DOMAIN v.texts /\ Place(s) \notin DOMAIN v.cells
        /\ IsStatic(elem) \/ IsCounted(elem)
    BY <1>1, <1>8, TextFacts DEF TextForm, IsString
  <2>2. ret = GetFixed(elem.type, n, alloc)
    <3>1. CASE IsStatic(elem)
      BY <1>1, <2>1, <3>1 DEF TextLength
    <3>2. CASE ~IsStatic(elem)
      <4>1. Counted(v, s)
        BY <1>1, <1>8, <3>2 DEF Counted
      <4>2. locals[CounterPath(s)] = CountIn(v, s)
        BY <4>1, FirstCountKnown
      <4>3. locals[Field(at, elem.counter)] = n
        BY <1>1, <1>8, <4>2 DEF CounterPath, CountIn
      <4> QED BY <2>1, <3>2, <4>3
    <3> QED BY <3>1, <3>2
  <2>3. \/ /\ ret.result = "EO_SUCCESS" /\ ret.value = TextIn(v, s)
           /\ ret.count = Len(Piece(v, s)) /\ Ahead(Piece(v, s))
        \/ /\ ret.result = "EO_BUFFER_UNDERRUN" /\ ~InReach(v, s)
        \/ ret.result = "EO_ALLOC_FAILED" /\ alloc = FALSE
    <3> HIDE DEF ret
    <3> QED BY Zenon, <1>1, <1>6, <1>8, <2>2, TextIsRead DEF ReceiverReady, InReach
  <2> HIDE DEF ret, n
  <2>4. Content(v, s, Place(s)) = AsText(TextIn(v, s))
    BY <1>8 DEF Content
  <2>5. InCell(elem.type, TextIn(v, s)) = AsText(TextIn(v, s))
    BY <2>1 DEF InCell
  <2>6. ReadInto(Place(s), elem.type, ret)
    BY <1>2, <1>3, <2>1
  <2>7. \/ /\ ret.result = "EO_SUCCESS" /\ InReach(v, s) /\ ret.count = Len(Piece(v, s))
           /\ InCell(elem.type, ret.value) = Content(v, s, Place(s))
        \/ ret.result = "EO_BUFFER_UNDERRUN" /\ ~InReach(v, s)
        \/ ret.result = "EO_ALLOC_FAILED" /\ scarce
    BY <1>6, <2>3, <2>4, <2>5 DEF Ahead, InReach
  <2> QED BY Zenon, <1>3, <1>5, <2>1, <2>6, <2>7, ReadReceives
<1> QED BY <1>4, <1>7, <1>8

LEMMA ItemReceives ==
    ASSUME NEW W, Program(original, W), todo \in Seq(W), todo # << >>, ReceiverReady,
           InReach(original, Head(todo)) => Ahead(Piece(original, Head(todo))),
           NEW alloc \in Allocations, ReadItem(alloc)
    PROVE  Receives \/ ReceiverStops
<1> DEFINE v == original
           s == Head(todo)
           type == ItemNumber(elem)
           n    == Given(v, Place(s), 0)
           ret  == GetTyped(type, alloc)
<1>1. elem = s.elem /\ at = s.at
  BY DEF elem, at
<1>2. /\ s.elem.kind = "item" /\ Place(s) = at
      /\ IF IsStruct(s.elem.type) THEN EnterStruct(at, s.elem.type, {})
         ELSE ReadInto(at, type, ret)
  BY <1>1 DEF ReadItem, Now, Place
<1>3. Form(v, s)
  BY DEF Program
<1>4. CASE IsStruct(s.elem.type)
  BY <1>2, <1>3, <1>4, FormOfKind, StructReceives
<1>5. CASE ~IsStruct(s.elem.type)
  <2>1. NumberForm(v, s)
    BY <1>2, <1>3, <1>5, FormOfKind
  <2>2. /\ WireType(s) = type /\ type \in NumberKinds /\ Holds(type, n)
        /\ Place(s) \notin DOMAIN v.texts
    BY <1>1, <1>2, <2>1 DEF NumberForm, WireType
  <2>3. /\ Piece(v, s) = NumberBytes(type, n)
        /\ Expansion(v, s) = << >> /\ Fills(v, s) = {Place(s)} /\ ~LengthForm(v, s)
    BY <2>1, <2>2, NumberFacts
  <2>4. type # "blob" /\ ~IsString(type) /\ (type = "bool" => n \in {0, 1})
    BY <2>2, SizesOfTypes DEF Holds
  <2>5. InCell(type, n) = n
    BY <2>4 DEF InCell
  <2>6. Content(v, s, Place(s)) = n
    BY <2>1, TextFacts DEF Content
  <2>9. ReadInto(Place(s), type, ret)
    BY <1>2, <1>5
  <2>7. \/ /\ ret.result = "EO_SUCCESS" /\ ret.value = n
           /\ ret.count = Len(NumberBytes(type, n)) /\ Ahead(NumberBytes(type, n))
        \/ /\ ret.result = "EO_BUFFER_UNDERRUN"
           /\ ~(reader.offset + Len(NumberBytes(type, n)) <= Len(reader.data))
    <3> HIDE DEF type, n
    <3> QED BY Zenon, <2>2, <2>3, NumberIsRead DEF ReceiverReady, InReach
  <2> HIDE DEF ret, type, n
  <2>8. \/ /\ ret.result = "EO_SUCCESS" /\ InReach(v, s) /\ ret.count = Len(Piece(v, s))
           /\ InCell(type, ret.value) = Content(v, s, Place(s))
        \/ ret.result = "EO_BUFFER_UNDERRUN" /\ ~InReach(v, s)
    BY <2>2, <2>3, <2>5, <2>6, <2>7 DEF InReach, Ahead
  <2> QED BY Zenon, <1>3, <2>3, <2>4, <2>8, <2>9, ReadReceives
<1> QED BY <1>4, <1>5

\* Statements that read a piece and fill no cell.
LEMMA PieceReceives ==
    ASSUME NEW W, todo \in Seq(W), todo # << >>, ReceiverReady,
           Form(original, Head(todo)), Expansion(original, Head(todo)) = << >>,
           Fills(original, Head(todo)) = {}, InReach(original, Head(todo)),
           mem' = mem, todo' = Tail(todo), result' = result,
           reader' = Consume(reader, Len(Piece(original, Head(todo)))),
           locals' = CountsAfter(original, locals, Head(todo))
    PROVE  Receives
<1> DEFINE v == original
           s == Head(todo)
           n == Len(Piece(v, s))
<1>1. n \in Nat
  BY PieceIsBytes
<1>2. /\ reader' \in Reader /\ reader'.chunked = FALSE
      /\ reader'.data = reader.data /\ reader'.offset = reader.offset + n
  <2> HIDE DEF n
  <2> QED BY Zenon, <1>1, ConsumeFacts DEF n
<1>3. ReceiverReady'
  BY <1>2 DEF ReceiverReady, InReach
<1>4. todo' = After(v, todo)
  BY NothingPut
<1>5. \A q \in DOMAIN mem : Keeps(mem, mem', q)
  BY DEF Keeps
<1> QED BY <1>2, <1>3, <1>4, <1>5 DEF Receives

LEMMA LengthReceives ==
    ASSUME NEW W, Program(original, W), todo \in Seq(W), todo # << >>, ReceiverReady,
           InReach(original, Head(todo)) => Ahead(Piece(original, Head(todo))),
           ReadLength
    PROVE  Receives \/ ReceiverStops
<1> DEFINE v == original
           s == Head(todo)
           type == elem.type
           n    == LengthOf(v, s)
           ret  == GetTyped(type, TRUE)
<1>1. elem = s.elem /\ at = s.at
  BY DEF elem, at
<1>2. s.elem.kind = "length" /\ mem' = mem /\ reader' = Consume(reader, ret.count)
  BY <1>1 DEF ReadLength, Now
<1>3. Form(v, s)
  BY DEF Program
<1>4. LengthForm(v, s)
  BY <1>2, <1>3, FormOfKind
<1>5. /\ Expansion(v, s) = << >> /\ Fills(v, s) = {} /\ Piece(v, s) = NumberBytes(type, n)
      /\ type \in NumberKinds /\ Holds(type, n)
  BY <1>1, <1>4, LengthFacts DEF LengthForm
<1>6. Place(s) = path
  BY <1>1, <1>2 DEF Place, path
<1>7. \/ /\ ret.result = "EO_SUCCESS" /\ ret.value = n
         /\ ret.count = Len(Piece(v, s)) /\ InReach(v, s)
      \/ /\ ret.result = "EO_BUFFER_UNDERRUN" /\ ~InReach(v, s)
  <2> HIDE DEF type, n
  <2>1. /\ reader \in Reader /\ reader.chunked = FALSE
        /\ reader.offset + Len(NumberBytes(type, n)) <= Len(reader.data)
               => Ahead(NumberBytes(type, n))
    BY <1>5 DEF ReceiverReady, InReach
  <2>2. \/ /\ ret.result = "EO_SUCCESS" /\ ret.value = n
           /\ ret.count = Len(NumberBytes(type, n)) /\ Ahead(NumberBytes(type, n))
        \/ /\ ret.result = "EO_BUFFER_UNDERRUN"
           /\ ~(reader.offset + Len(NumberBytes(type, n)) <= Len(reader.data))
    BY Zenon, <1>5, <2>1, NumberIsRead
  <2> QED BY Zenon, <1>5, <2>2 DEF InReach, Ahead
<1>8. CASE ret.result = "EO_SUCCESS"
  <2>1. /\ locals' = Assigned(locals, Place(s), n) /\ todo' = Tail(todo) /\ result' = result
        /\ reader' = Consume(reader, Len(Piece(v, s))) /\ InReach(v, s)
    BY Zenon, <1>2, <1>6, <1>7, <1>8 DEF ReadLength
  <2>2. locals' = CountsAfter(v, locals, s)
    BY <1>4, <2>1 DEF CountsAfter
  <2> QED BY Zenon, <1>2, <1>3, <1>5, <2>1, <2>2, PieceReceives
<1>9. CASE ret.result # "EO_SUCCESS"
  <2>1. result' = ret.result /\ ~InReach(v, s)
    BY Zenon, <1>7, <1>9 DEF ReadLength, Fail
  <2>2. reader'.data = reader.data
    BY <1>2 DEF Consume, ReceiverReady, Reader
  <2> QED BY Zenon, <1>9, <2>1, <2>2 DEF ReceiverStops
<1> QED BY Zenon, <1>8, <1>9

LEMMA LiteralReceives ==
    ASSUME NEW W, Program(original, W), todo \in Seq(W), todo # << >>, ReceiverReady,
           InReach(original, Head(todo)) => Ahead(Piece(original, Head(todo))),
           NEW alloc \in Allocations, ReadLiteral(alloc)
    PROVE  Receives \/ ReceiverStops
<1> DEFINE v == original
           s == Head(todo)
           type == FieldNumber(elem)
           n    == LiteralOf(s)
           ret  == GetTyped(type, alloc)
<1>1. elem = s.elem /\ at = s.at
  BY DEF elem, at
<1>2. /\ IsLiteral(s) /\ mem' = mem /\ locals' = locals
      /\ reader' = Consume(reader, ret.count)
  BY <1>1 DEF ReadLiteral, IsLiteral, Literal, memory
<1>3. Form(v, s)
  BY DEF Program
<1>4. LiteralForm(s)
  BY <1>2, <1>3, FormOfKind
<1>5. /\ Expansion(v, s) = << >> /\ Fills(v, s) = {} /\ Piece(v, s) = NumberBytes(type, n)
      /\ WireType(s) = type /\ type \in NumberKinds /\ Holds(type, n) /\ ~LengthForm(v, s)
  BY <1>1, <1>4, LiteralFacts DEF LiteralForm
<1>6. n = IF type = "byte" THEN elem.value % (CharMax + 3) ELSE elem.value
  BY <1>1, <1>5 DEF LiteralOf
<1>7. \/ /\ ret.result = "EO_SUCCESS" /\ ret.value = n
         /\ ret.count = Len(Piece(v, s)) /\ InReach(v, s)
      \/ /\ ret.result = "EO_BUFFER_UNDERRUN" /\ ~InReach(v, s)
  <2> HIDE DEF type, n
  <2>1. /\ reader \in Reader /\ reader.chunked = FALSE
        /\ reader.offset + Len(NumberBytes(type, n)) <= Len(reader.data)
               => Ahead(NumberBytes(type, n))
    BY <1>5 DEF ReceiverReady, InReach
  <2>2. \/ /\ ret.result = "EO_SUCCESS" /\ ret.value = n
           /\ ret.count = Len(NumberBytes(type, n)) /\ Ahead(NumberBytes(type, n))
        \/ /\ ret.result = "EO_BUFFER_UNDERRUN"
           /\ ~(reader.offset + Len(NumberBytes(type, n)) <= Len(reader.data))
    BY Zenon, <1>5, <2>1, NumberIsRead
  <2> QED BY <1>5, <2>2 DEF InReach, Ahead
<1>8. CASE ret.result = "EO_SUCCESS"
  <2>1. n # NULL
    BY <1>5, NumberBytesFacts, NullAssumption
  <2>2. ~IsString(type)
    BY <1>5, SizesOfTypes
  <2> HIDE DEF n
  <2>3. /\ todo' = Tail(todo) /\ result' = result
        /\ reader' = Consume(reader, Len(Piece(v, s))) /\ InReach(v, s)
    BY <1>2, <1>6, <1>7, <1>8, <2>1, <2>2 DEF ReadLiteral
  <2>4. locals' = CountsAfter(v, locals, s)
    BY <1>2, <1>5 DEF CountsAfter
  <2> QED BY <1>2, <1>3, <1>5, <2>3, <2>4, PieceReceives
<1>9. CASE ret.result # "EO_SUCCESS"
  <2>1. result' = ret.result /\ ~InReach(v, s)
    BY <1>7, <1>9 DEF ReadLiteral, Fail
  <2>2. reader'.data = reader.data
    BY <1>2 DEF Consume, ReceiverReady, Reader
  <2> QED BY <1>9, <2>1, <2>2 DEF ReceiverStops
<1> QED BY <1>8, <1>9

\* A reader in plain mode stays in it.
LEMMA LeaveReceives ==
    ASSUME NEW W, Program(original, W), todo \in Seq(W), todo # << >>, ReceiverReady,
           LeaveDeserialize
    PROVE  Receives
<1> DEFINE v == original
           s == Head(todo)
<1>1. /\ s.elem.kind = "leave" /\ reader' = SetChunkedMode(reader, s.elem.mode)
      /\ todo' = Tail(todo) /\ result' = result /\ mem' = mem /\ locals' = locals
  BY DEF LeaveDeserialize, Now, elem, memory
<1>2. Form(v, s)
  BY DEF Program
<1>3. LeaveForm(s)
  BY <1>1, <1>2, FormOfKind
<1>4. /\ Expansion(v, s) = << >> /\ Fills(v, s) = {} /\ Piece(v, s) = << >>
      /\ ~LengthForm(v, s)
  BY <1>1, <1>3, LoopFacts DEF LoopForm
<1>5. /\ reader' \in Reader /\ reader'.chunked = FALSE
      /\ reader'.data = reader.data /\ reader'.offset = reader.offset
  <2>1. /\ reader \in Reader /\ reader.chunked = FALSE /\ s.elem.mode = FALSE
        /\ Len(reader.data) \in Nat
    BY <1>3 DEF ReceiverReady, LeaveForm, Reader
  <2>2. NextBreakIndex([reader EXCEPT !.chunked = FALSE]) = Len(reader.data)
    BY <2>1 DEF NextBreakIndex, Length, Reader
  <2> QED BY Zenon, <1>1, <2>1, <2>2 DEF SetChunkedMode, Reader
<1>6. Len(Piece(v, s)) = 0 /\ reader.offset + 0 = reader.offset
  BY <1>4 DEF ReceiverReady, Reader
<1>7. todo' = After(v, todo)
  BY <1>1, <1>4, NothingPut
<1>8. \A q \in DOMAIN mem : Keeps(mem, mem', q)
  BY <1>1 DEF Keeps
<1> HIDE DEF v, s
<1> QED BY <1>1, <1>4, <1>5, <1>6, <1>7, <1>8
        DEF Receives, ReceiverReady, InReach, CountsAfter, v, s

LEMMA LoopReceives ==
    ASSUME NEW W, Program(original, W), todo \in Seq(W), todo # << >>, ReceiverReady,
           ReadItems
    PROVE  Receives
<1> DEFINE v == original
           s == Head(todo)
<1>1. s.elem.kind = "loop" /\ Unfold(Round) /\ mem' = mem /\ locals' = locals
  BY DEF ReadItems, Now, elem, memory
<1>2. LoopForm(s)
  BY <1>1, FormOfKind DEF Program
<1>3. Round = RoundOf(s)
  BY <1>2 DEF LoopForm, Round, RoundOf, elem, at
<1>4. /\ Round = Expansion(v, s) /\ Piece(v, s) = << >> /\ Fills(v, s) = {}
      /\ ~LengthForm(v, s)
  BY <1>2, <1>3, LoopFacts
<1>5. \A q \in DOMAIN mem : Keeps(mem, mem', q)
  BY <1>1 DEF Keeps
<1> QED BY <1>1, <1>4, <1>5, UnfoldReceives

LEMMA ArrayReceives ==
    ASSUME NEW W, Program(original, W), todo \in Seq(W), todo # << >>, ReceiverReady,
           CountsReady(original, locals, todo),
           ReadStaticArray \/ \E alloc \in Allocations : ReadNumberedArray(alloc)
    PROVE  Receives \/ ReceiverStops
<1> DEFINE v == original
           s == Head(todo)
           n == NumberOf(v, s)
           p == Place(s)
           c == Count(s.at, s.elem.name)
<1>1. elem = s.elem /\ at = s.at
  BY DEF elem, at
<1>2. s.elem.kind = "array"
  BY <1>1 DEF ReadStaticArray, ReadNumberedArray, Now
<1>3. s \in W /\ Form(v, s) /\ s.at \in Paths
  BY DEF Program
<1>4. ArrayForm(v, s)
  BY <1>2, <1>3, FormOfKind
<1>5. /\ Expansion(v, s) = LoopOver(at, elem, n) /\ Piece(v, s) = << >> /\ ~LengthForm(v, s)
      /\ Fills(v, s) = IF IsStatic(elem) THEN {} ELSE {p, c}
  BY <1>1, <1>4, ArrayFacts
<1>6. p = path
  BY <1>1, <1>2 DEF Place, path
<1>7. CASE ReadStaticArray
  <2>1. /\ IsStatic(elem) /\ Unfold(ItemsToRead(elem, elem.length)) /\ mem' = mem
        /\ locals' = locals
    BY <1>7 DEF ReadStaticArray, memory
  <2>2. ItemsToRead(elem, elem.length) = Expansion(v, s)
    BY <1>1, <1>5, <2>1 DEF ItemsToRead, NumberOf
  <2>3. \A q \in DOMAIN mem : Keeps(mem, mem', q)
    BY <2>1 DEF Keeps
  <2> QED BY <1>1, <1>5, <2>1, <2>2, <2>3, UnfoldReceives
<1>8. ASSUME NEW alloc \in Allocations, ReadNumberedArray(alloc)
      PROVE  Receives \/ ReceiverStops
  <2>1. ~IsStatic(elem) /\ IsCounted(elem)
    <3>1. CASE IsStatic(elem)
      <4>1. ~IsCounted(elem)
        BY <1>1, <1>4, <3>1 DEF ArrayForm
      <4>2. FixedItemSize(elem) = -1
        BY <3>1 DEF FixedItemSize
      <4>3. ~(FixedItemSize(elem) > 0)
        BY <4>2
      <4> QED BY <1>8, <4>1, <4>3 DEF ReadNumberedArray, Numbered
    <3>2. CASE ~IsStatic(elem)
      BY <1>1, <1>4, <3>2 DEF ArrayForm
    <3> QED BY <3>1, <3>2
  <2>2. NumberOfItems(elem) = n
    <3>1. Counted(v, s)
      BY <1>1, <1>4, <2>1 DEF Counted
    <3>2. locals[CounterPath(s)] = CountIn(v, s)
      BY <3>1, FirstCountKnown
    <3>3. ~TextForm(v, s)
      BY <1>4, ArrayFacts
    <3> QED BY <1>1, <2>1, <3>2, <3>3 DEF NumberOfItems, CounterPath, CountIn
  <2>3. alloc \in BOOLEAN /\ (alloc = FALSE => scarce)
    BY Zenon, AllocationsFacts
  <2>4. CASE n > 0 /\ ~alloc
    <3>1. result' = "EO_ALLOC_FAILED" /\ reader' = reader
      BY <1>8, <2>2, <2>4 DEF ReadNumberedArray, Fail
    <3> QED BY <2>3, <2>4, <3>1 DEF ReceiverStops
  <2>5. CASE ~(n > 0 /\ ~alloc)
    <3> DEFINE filled == Assigned(mem, p, IF n > 0 THEN 1 ELSE NULL)
    <3>1. /\ Unfold(ItemsToRead(elem, n)) /\ locals' = locals
          /\ mem' = Assigned(filled, c, n)
      BY <1>1, <1>6, <1>8, <2>2, <2>5 DEF ReadNumberedArray
    <3>2. ItemsToRead(elem, n) = Expansion(v, s)
      BY <1>1, <1>5, <2>1 DEF ItemsToRead
    <3>3. p # c
      BY <1>2, <1>3, PlaceIsNotCount DEF Place
    <3>4. /\ Content(v, s, p) = IF n > 0 THEN 1 ELSE NULL
          /\ Content(v, s, c) = n
      BY <1>4, <3>3, ArrayFacts, NumberFacts DEF Content
    <3> HIDE DEF n, p, c
    <3>6. /\ p \in DOMAIN filled /\ filled[p] = (IF n > 0 THEN 1 ELSE NULL)
          /\ \A q \in DOMAIN mem : q # p => Keeps(mem, filled, q)
      BY CellFilled
    <3> HIDE DEF filled
    <3>7. /\ c \in DOMAIN mem' /\ mem'[c] = n
          /\ \A q \in DOMAIN filled : q # c => Keeps(filled, mem', q)
      BY <3>1, CellFilled
    <3>8. /\ \A q \in {p, c} : HasContent(mem', v, s, q)
          /\ \A q \in DOMAIN mem : q \notin {p, c} => Keeps(mem, mem', q)
      BY <3>3, <3>4, <3>6, <3>7 DEF HasContent, Keeps
    <3> QED BY <1>1, <1>5, <2>1, <3>1, <3>2, <3>8, UnfoldReceives
  <2> QED BY <2>4, <2>5
<1> QED BY <1>7, <1>8

LEMMA ReceiverMoves ==
    ASSUME NEW W, Program(original, W), todo \in Seq(W), ReceiverReady,
           CountsReady(original, locals, todo),
           InReach(original, Head(todo)) => Ahead(Piece(original, Head(todo))),
           DeserializeStep
    PROVE  todo # << >> /\ (Receives \/ ReceiverStops)
<1> DEFINE v == original
           s == Head(todo)
<1>1. todo # << >>
  BY Zenon DEF DeserializeStep, ReadChunked, ReadBreak, ReadLength, SkipOptional, ReadStaticArray,
         ReadItems, LastItemRead, LeaveDeserialize, ReadLiteral, ReadStructField, ReadField,
         ReadOptionalField, ReadNumberedArray, ReadNextItem, ReadItem, ReadSwitch, Now
<1>2. Form(v, s)
  BY <1>1 DEF Program
<1>3. elem = s.elem /\ at = s.at
  BY DEF elem, at
<1>4. /\ s.elem.kind \notin {"chunked", "break", "switch"}
      /\ IsLiteral(s) <=> Literal
  BY <1>2, <1>3, FormOfKind DEF IsLiteral, Literal
<1>5. /\ ~ReadChunked /\ ~ReadBreak /\ \A alloc : ~ReadSwitch(alloc)
  BY Zenon, <1>3, <1>4 DEF ReadChunked, ReadBreak, ReadSwitch, Now
<1>6. s.elem.kind = "array" => /\ ~elem.optional /\ (~IsStatic(elem) => IsCounted(elem))
  <2> SUFFICES ASSUME s.elem.kind = "array"
               PROVE  ~elem.optional /\ (~IsStatic(elem) => IsCounted(elem))
    OBVIOUS
  <2>1. ArrayForm(v, s)
    BY <1>2, FormOfKind
  <2> QED BY <1>3, <2>1 DEF ArrayForm
<1>7. s.elem.kind = "field" /\ ~Literal => ~elem.optional
  BY <1>2, <1>3, <1>4, FormOfKind DEF IsNamed
<1>8. ~SkipOptional /\ \A alloc : ~ReadOptionalField(alloc)
  BY Zenon, <1>3, <1>6, <1>7 DEF SkipOptional, ReadOptionalField, Absent, Now
<1>9. ~LastItemRead /\ \A alloc : ~ReadNextItem(alloc)
  BY Zenon, <1>3, <1>6 DEF LastItemRead, ReadNextItem, Numbered, Now
<1>10. ASSUME NEW alloc \in Allocations, ReadStructField(alloc)
       PROVE  Receives
  <2>1. s.elem.kind = "field" /\ ~Literal /\ IsStruct(s.elem.type) /\ ~elem.optional
    BY Zenon, <1>3, <1>7, <1>10 DEF ReadStructField, Now
  <2>2. StructForm(s)
    BY <1>2, <1>4, <2>1, FormOfKind
  <2>3. path = Place(s) /\ EnterStruct(path, elem.type, {})
    BY <1>3, <1>10, <2>1 DEF ReadStructField, path, Place
  <2> QED BY <1>1, <1>3, <2>2, <2>3, StructReceives
<1>11. CASE ReadStaticArray \/ \E alloc \in Allocations : ReadNumberedArray(alloc)
  BY <1>1, <1>11, ArrayReceives
<1>12. CASE ReadLength \/ ReadItems \/ LeaveDeserialize
  BY <1>1, <1>12, LengthReceives, LoopReceives, LeaveReceives
<1>13. ASSUME NEW alloc \in Allocations, ReadLiteral(alloc) \/ ReadField(alloc) \/ ReadItem(alloc)
       PROVE  Receives \/ ReceiverStops
  BY <1>1, <1>13, LiteralReceives, FieldReceives, ItemReceives
<1> QED
  BY <1>1, <1>5, <1>8, <1>9, <1>10, <1>11, <1>12, <1>13 DEF DeserializeStep

-----------------------------------------------------------------------------
(* The way through a message: R holds, for each point the sender came to,   *)
(* the statements it had left and the number of bytes it had written.  From *)
(* each point but the last, x, the first statement leads to another one, and*)
(* its piece is what was written in between.                                *)

LiesAt(d, o, b) == /\ o + Len(b) <= Len(d)
                   /\ \A k \in 1 .. Len(b) : d[o + k] = b[k]

NextPoint(v, y) == <<After(v, y[1]), y[2] + Len(Piece(v, Head(y[1])))>>

Leads(v, R, y, d) ==
    /\ y[1] # << >>
    /\ LiesAt(d, y[2], Piece(v, Head(y[1])))
    /\ NextPoint(v, y) \in R

Track(v, type, W, R, x, d) ==
    /\ d \in Seq(Byte)
    /\ <<Start(type), 0>> \in R /\ x \in R
    /\ \A y \in R : y[1] \in Seq(W) /\ y[2] \in Nat /\ y[2] <= Len(d)
    /\ \A y \in R : y = x \/ Leads(v, R, y, d)

LEMMA StartIsSequence ==
    ASSUME NEW v, NEW W, NEW type \in DOMAIN Structs, Fits(v, type, W)
    PROVE  Start(type) \in Seq(W) /\ Start(type) # << >>
<1>1. Structs[type] \in ElementLists
  BY ListsAssumption
<1>2. SoundTodo(Start(type)) /\ Start(type) # << >>
  BY Zenon, <1>1, FunctionsAreSound DEF Start
<1>3. \A k \in 1 .. Len(Start(type)) : Start(type)[k] \in W
  BY DEF Fits
<1>4. PICK S : Start(type) \in Seq(S)
  BY <1>2 DEF SoundTodo
<1> QED BY <1>2, <1>3, <1>4, SeqOver

LEMMA TrackBegins ==
    ASSUME NEW v, NEW W, NEW type \in DOMAIN Structs, Fits(v, type, W)
    PROVE  Track(v, type, W, {<<Start(type), 0>>}, <<Start(type), 0>>, << >>)
<1>1. Start(type) \in Seq(W)
  BY StartIsSequence
<1>2. << >> \in Seq(Byte) /\ Len(<< >>) = 0
  OBVIOUS
<1> DEFINE x == <<Start(type), 0>>
<1>3. x[1] \in Seq(W) /\ x[2] \in Nat /\ x[2] <= Len(<< >>)
  BY <1>1, <1>2
<1> HIDE DEF x
<1>4. \A y \in {x} : y[1] \in Seq(W) /\ y[2] \in Nat /\ y[2] <= Len(<< >>)
  BY <1>3
<1> QED BY <1>2, <1>4 DEF Track, x

\* More bytes hide none of those before them.
LEMMA LiesOn ==
    ASSUME NEW d \in Seq(Byte), NEW b \in Seq(Byte)
    PROVE  /\ Len(d \o b) = Len(d) + Len(b) /\ d \o b \in Seq(Byte) /\ Len(d) \in Nat
           /\ LiesAt(d \o b, Len(d), b)
           /\ \A o \in Nat, c \in Seq(Byte) : LiesAt(d, o, c) => LiesAt(d \o b, o, c)
<1> DEFINE j == d \o b
<1>1. /\ Len(j) = Len(d) + Len(b) /\ j \in Seq(Byte) /\ Len(d) \in Nat /\ Len(b) \in Nat
      /\ \A k \in 1 .. Len(j) : j[k] = IF k <= Len(d) THEN d[k] ELSE b[k - Len(d)]
  OBVIOUS
<1> HIDE DEF j
<1>2. LiesAt(j, Len(d), b)
  <2>1. ASSUME NEW k \in 1 .. Len(b) PROVE j[Len(d) + k] = b[k]
    <3>1. Len(d) + k \in 1 .. Len(j) /\ ~(Len(d) + k <= Len(d)) /\ Len(d) + k - Len(d) = k
      BY <1>1
    <3> QED BY <1>1, <3>1
  <2> QED BY <1>1, <2>1 DEF LiesAt
<1>3. ASSUME NEW o \in Nat, NEW c \in Seq(Byte), LiesAt(d, o, c) PROVE LiesAt(j, o, c)
  <2>1. Len(c) \in Nat /\ o + Len(c) <= Len(d)
    BY <1>3 DEF LiesAt
  <2>2. ASSUME NEW k \in 1 .. Len(c) PROVE j[o + k] = c[k]
    <3>1. o + k \in 1 .. Len(j) /\ o + k <= Len(d)
      BY <1>1, <2>1
    <3> QED BY Zenon, <1>1, <1>3, <3>1 DEF LiesAt
  <2> QED BY <1>1, <2>1, <2>2 DEF LiesAt
<1> QED BY <1>1, <1>2, <1>3 DEF j

LEMMA TrackGoesOn ==
    ASSUME NEW v, NEW type, NEW W, Program(v, W), NEW t, t # << >>, NEW d, NEW R,
           Track(v, type, W, R, <<t, Len(d)>>, d),
           NEW x, x = <<After(v, t), Len(d \o Piece(v, Head(t)))>>
    PROVE  Track(v, type, W, R \cup {x}, x, d \o Piece(v, Head(t)))
<1> DEFINE b == Piece(v, Head(t))
           Q == R \cup {x}
           old == <<t, Len(d)>>
<1>1. /\ d \in Seq(Byte) /\ old \in R /\ <<Start(type), 0>> \in R
      /\ \A y \in R : y[1] \in Seq(W) /\ y[2] \in Nat /\ y[2] <= Len(d)
      /\ \A y \in R : y = old \/ Leads(v, R, y, d)
  BY DEF Track
<1>2. t \in Seq(W) /\ Head(t) \in W
  <2>1. old[1] \in Seq(W)
    BY <1>1
  <2>2. t \in Seq(W)
    BY <2>1
  <2> QED BY <2>2
<1>3. \A s \in W : Piece(v, s) \in Seq(Byte) /\ Len(Piece(v, s)) \in Nat
  BY PieceIsBytes DEF Program
<1>4. b \in Seq(Byte) /\ Len(b) \in Nat
  BY <1>2, <1>3
<1>5. x[1] = After(v, t) /\ x[2] = Len(d \o b) /\ old[1] = t /\ old[2] = Len(d)
  OBVIOUS
<1>6. After(v, t) \in Seq(W)
  BY <1>2, AfterFacts
<1> HIDE DEF b
<1>7. /\ Len(d \o b) = Len(d) + Len(b) /\ d \o b \in Seq(Byte) /\ Len(d) \in Nat
      /\ LiesAt(d \o b, Len(d), b)
      /\ \A o \in Nat, c \in Seq(Byte) : LiesAt(d, o, c) => LiesAt(d \o b, o, c)
  BY <1>1, <1>4, LiesOn
<1>8. \A y \in Q : y[1] \in Seq(W) /\ y[2] \in Nat /\ y[2] <= Len(d \o b)
  <2>1. x[1] \in Seq(W) /\ x[2] \in Nat /\ x[2] <= Len(d \o b)
    BY <1>4, <1>5, <1>6, <1>7
  <2>2. \A y \in R : y[1] \in Seq(W) /\ y[2] \in Nat /\ y[2] <= Len(d \o b)
    BY <1>1, <1>4, <1>7
  <2> QED BY <2>1, <2>2
<1>9. Leads(v, Q, old, d \o b)
  <2>1. NextPoint(v, old) = x
    BY <1>5, <1>7 DEF NextPoint, b
  <2>2. LiesAt(d \o b, old[2], Piece(v, Head(old[1])))
    BY <1>5, <1>7 DEF b
  <2> QED BY <1>5, <2>1, <2>2 DEF Leads
<1>10. ASSUME NEW y \in R, y # old PROVE Leads(v, Q, y, d \o b)
  <2>1. Leads(v, R, y, d)
    BY <1>1, <1>10
  <2>2. Head(y[1]) \in W
    BY <1>1, <2>1 DEF Leads
  <2>3. Piece(v, Head(y[1])) \in Seq(Byte) /\ y[2] \in Nat
    BY Zenon, <1>1, <1>3, <2>2
  <2>4. LiesAt(d \o b, y[2], Piece(v, Head(y[1])))
    BY <1>7, <2>1, <2>3 DEF Leads
  <2> QED BY <2>1, <2>4 DEF Leads
<1>11. \A y \in Q : y = x \/ Leads(v, Q, y, d \o b)
  BY Zenon, <1>9, <1>10
<1> QED BY Zenon, <1>1, <1>7, <1>8, <1>11 DEF Track, b

-----------------------------------------------------------------------------
\* The inductive invariant behind FieldsArrive and CutsAreNoticed.

GaveUp == result # "EO_SUCCESS" /\ todo = << >>

SenderTracks(W) ==
    /\ result = "EO_SUCCESS" /\ WriterReady
    /\ mem = Value(original) /\ raw = {}
    /\ \E R : Track(original, root, W, R, <<todo, Len(writer.data)>>, writer.data)

\* The end of the way of a message that was sent.
End == << << >>, Len(sent)>>

Kept(n) == reader.data = SubSeq(sent, 1, n)

ReceiverTracks(W, R) ==
    /\ result = "EO_SUCCESS" /\ ReceiverReady /\ <<todo, reader.offset>> \in R
    /\ CountsReady(original, locals, todo)
    /\ \A q \in Cells(original) : Arrived(mem, original, q) \/ Led(original, todo, q)
    /\ Repeats(original, root, W) =>
          \A s \in W : \A q \in Fills(original, s) :
              HasContent(mem, original, s, q) \/ Led(original, todo, q)

Understood(W) ==
    IF result = "EO_SUCCESS"
    THEN /\ reader.data = sent /\ \A q \in Cells(original) : Arrived(mem, original, q)
         /\ Repeats(original, root, W) => Retained(W)
    ELSE reader.data # sent \/ OutOfMemory

PlainInv ==
    \A W : Fits(original, root, W) =>
        /\ phase = "start" => mem = Value(original) /\ raw = {}
        /\ phase = "sending" /\ fault = "none" => SenderTracks(W) \/ GaveUp
        /\ phase = "sent" => \E R : Track(original, root, W, R, End, sent)
        /\ phase = "receiving" =>
              \E R : /\ Track(original, root, W, R, End, sent)
                     /\ \E n \in 0 .. Len(sent) : Kept(n)
                     /\ \/ ReceiverTracks(W, R)
                        \/ GaveUp /\ (reader.data # sent \/ OutOfMemory)
        /\ phase = "received" => Understood(W)

\* A call that fails returns at once.
LEMMA ResultStays ==
    /\ SerializeStep => todo # << >> /\ (result' = result \/ todo' = << >>)
    /\ DeserializeStep => todo # << >> /\ (result' = result \/ todo' = << >>)
<1>1. SerializeStep => todo # << >> /\ (result' = result \/ todo' = << >>)
  BY Zenon DEF SerializeStep, WriteChunked, SkipField, WriteStructField, WriteArray, WriteItems,
         WriteSwitch, LeaveSerialize, WriteBreak, WriteLiteral, WriteField, WriteLength,
         WriteItem, Now, Expand, Write, Crash, Fail
<1>2. DeserializeStep => todo # << >> /\ (result' = result \/ todo' = << >>)
  BY Zenon DEF DeserializeStep, ReadChunked, ReadBreak, ReadLength, SkipOptional, ReadStaticArray,
         ReadItems, LastItemRead, LeaveDeserialize, ReadLiteral, ReadStructField, ReadField,
         ReadOptionalField, ReadNumberedArray, ReadNextItem, ReadItem, ReadSwitch, Now,
         Unfold, ReadInto, EnterStruct, Fail, Crash
<1> QED BY <1>1, <1>2

LEMMA SenderKeepsTrack ==
    ASSUME NEW W, Fits(original, root, W), SenderTracks(W), SerializeStep, fault' = "none",
           UNCHANGED <<original, root>>
    PROVE  (SenderTracks(W) \/ GaveUp)'
<1> DEFINE v == original
           type == root
           t == todo
           d == writer.data
           b == Piece(v, Head(t))
<1>1. Program(v, W)
  BY DEF Fits
<1>2. PICK R : Track(v, type, W, R, <<t, Len(d)>>, d)
  BY DEF SenderTracks
<1>3. todo \in Seq(W)
  <2> DEFINE x == <<t, Len(d)>>
  <2>1. x[1] \in Seq(W)
    BY <1>2 DEF Track
  <2> QED BY <2>1
<1>4. /\ todo # << >> /\ mem' = mem /\ raw' = raw
      /\ Sends \/ SenderStops
  BY <1>1, <1>3, SenderCells, SenderMoves DEF SenderTracks
<1>5. CASE Sends
  <2> DEFINE x == <<After(v, t), Len(d \o b)>>
  <2>1. /\ todo' = After(v, t) /\ writer'.data = d \o b /\ WriterReady'
        /\ result' = "EO_SUCCESS"
    BY <1>5 DEF Sends, SenderTracks
  <2>2. Track(v, type, W, R \cup {x}, x, d \o b)
    BY Zenon, <1>1, <1>2, <1>4, TrackGoesOn
  <2>3. x = <<todo', Len(writer'.data)>>
    BY <2>1
  <2>4. Track(v, type, W, R \cup {x}, <<todo', Len(writer'.data)>>, writer'.data)
    BY <2>1, <2>2, <2>3
  <2>5. \E Q : Track(original', root', W, Q, <<todo', Len(writer'.data)>>, writer'.data)
    BY <2>4
  <2>6. mem' = Value(original') /\ raw' = {}
    BY <1>4 DEF SenderTracks
  <2> QED BY <2>1, <2>5, <2>6 DEF SenderTracks
<1>6. CASE ~Sends
  <2>1. result' # "EO_SUCCESS" \/ fault' # "none"
    BY <1>4, <1>6 DEF SenderStops
  <2> QED BY <2>1, ResultStays DEF GaveUp, SenderTracks
<1> QED BY <1>5, <1>6

\* A message that was cut is the beginning of what was sent.
LEMMA CutFacts ==
    ASSUME NEW d \in Seq(Byte), NEW n \in 0 .. Len(d)
    PROVE  LET c == SubSeq(d, 1, n)
           IN  /\ c \in Seq(Byte) /\ Len(c) = n /\ n \in Nat
               /\ \A k \in 1 .. n : c[k] = d[k]
               /\ n = Len(d) => c = d
<1> DEFINE c == SubSeq(d, 1, n)
<1>1. Len(d) \in Nat /\ n \in Nat /\ n <= Len(d)
  OBVIOUS
<1>2. c \in Seq(Byte) /\ Len(c) = n /\ \A k \in 1 .. n : c[k] = d[k]
  BY <1>1
<1> HIDE DEF c
<1>3. n = Len(d) => c = d
  BY <1>1, <1>2
<1> QED BY <1>1, <1>2, <1>3 DEF c

LEMMA ReceiverKeepsTrack ==
    ASSUME NEW W, Fits(original, root, W), NEW R, Track(original, root, W, R, End, sent),
           NEW n \in 0 .. Len(sent), Kept(n), ReceiverTracks(W, R), DeserializeStep,
           UNCHANGED <<original, root, sent, scarce>>
    PROVE  /\ reader'.data = reader.data
           /\ ReceiverTracks(W, R)' \/ (GaveUp /\ (reader.data # sent \/ OutOfMemory))'
<1> DEFINE v == original
           t == todo
           s == Head(t)
           y == <<t, reader.offset>>
           b == Piece(v, s)
<1>1. Program(v, W) /\ todo # << >>
  BY ResultStays DEF Fits
<1>2. y[1] = t /\ y[2] = reader.offset /\ y \in R /\ y # End
  BY <1>1 DEF ReceiverTracks, End
<1>3. /\ sent \in Seq(Byte) /\ y[1] \in Seq(W) /\ Leads(v, R, y, sent)
  <2> HIDE DEF y
  <2> QED BY <1>2 DEF Track
<1>4. /\ todo \in Seq(W) /\ s \in W /\ LiesAt(sent, reader.offset, b)
      /\ <<After(v, t), reader.offset + Len(b)>> \in R
  BY <1>1, <1>2, <1>3 DEF Leads, NextPoint
<1>5. Form(v, s) /\ b \in Seq(Byte) /\ Len(b) \in Nat
  BY <1>1, <1>4, PieceIsBytes DEF Program
<1>6. ReceiverReady /\ reader.offset \in Nat
  BY DEF ReceiverTracks, ReceiverReady, Reader
<1>7. InReach(v, s) => Ahead(b)
  <2> SUFFICES ASSUME InReach(v, s) PROVE Ahead(b)
    OBVIOUS
  <2>1. /\ Len(reader.data) = n /\ n \in Nat
        /\ \A k \in 1 .. n : reader.data[k] = sent[k]
    BY <1>3, CutFacts DEF Kept
  <2>2. ASSUME NEW k \in 1 .. Len(b) PROVE reader.data[reader.offset + k] = b[k]
    <3>1. reader.offset + k \in 1 .. n
      BY <1>5, <1>6, <2>1 DEF InReach
    <3> QED BY Zenon, <1>4, <2>1, <3>1 DEF LiesAt
  <2> QED BY <2>2 DEF Ahead, InReach
<1>8. Receives \/ ReceiverStops
  BY <1>1, <1>4, <1>6, <1>7, ReceiverMoves DEF ReceiverTracks
<1>9. CASE Receives
  <2>1. /\ result' = "EO_SUCCESS" /\ ReceiverReady' /\ reader'.data = reader.data
        /\ todo' = After(v, t) /\ reader'.offset = reader.offset + Len(b)
        /\ locals' = CountsAfter(v, locals, s)
    BY <1>9 DEF Receives, ReceiverTracks
  <2>2. <<todo', reader'.offset>> \in R
    BY <1>4, <2>1
  <2>3. CountsReady(original', locals', todo')
    BY <1>1, <1>4, <2>1, CountsStayReady DEF ReceiverTracks
  <2>4. ASSUME NEW q \in Cells(v)
        PROVE  Arrived(mem', v, q) \/ Led(v, todo', q)
    <3>1. CASE q \in Fills(v, s)
      <4>1. HasContent(mem', v, s, q) /\ s.at \in Paths
        BY <1>1, <1>4, <1>9, <3>1 DEF Receives, Program
      <4>2. Arrived(mem', v, q)
        BY <3>1, <4>1, ContentArrives
      <4> QED BY <4>2
    <3>2. CASE q \notin Fills(v, s) /\ Led(v, t, q)
      BY <1>1, <1>4, <2>1, <3>2, LedOn
    <3>3. CASE q \notin Fills(v, s) /\ Arrived(mem, v, q)
      <4>1. Arrived(mem', v, q) \/ (StructForm(s) /\ Within(q, Place(s)))
        <5>1. q \in DOMAIN mem \ Fills(v, s)
          BY <3>3 DEF Arrived
        <5>2. Keeps(mem, mem', q) \/ (StructForm(s) /\ Within(q, Place(s)))
          BY <1>9, <5>1 DEF Receives
        <5> QED BY <3>3, <5>2 DEF Keeps, Arrived
      <4>2. CASE StructForm(s) /\ Within(q, Place(s))
        <5>1. LeadsTo(v, s, q)
          BY <1>1, <1>4, <4>2 DEF Program
        <5>2. s = t[1] /\ 1 \in 1 .. Len(t)
          BY <1>1, <1>4
        <5>3. Led(v, t, q)
          BY <5>1, <5>2 DEF Led
        <5> QED BY <3>2, <3>3, <5>3
      <4> QED BY <4>1, <4>2
    <3> QED BY <3>1, <3>2, <3>3 DEF ReceiverTracks
  <2>5. \A q \in Cells(original') : Arrived(mem', original', q) \/ Led(original', todo', q)
    BY <2>4
  <2>6. ASSUME Repeats(v, root, W), NEW u \in W, NEW q \in Fills(v, u)
        PROVE  HasContent(mem', v, u, q) \/ Led(v, todo', q)
    <3>1. CASE q \in Fills(v, s)
      <4>1. Content(v, u, q) = Content(v, s, q)
        BY <1>4, <2>6, <3>1 DEF Repeats
      <4>2. HasContent(mem', v, s, q)
        BY <1>9, <3>1 DEF Receives
      <4> QED BY <4>1, <4>2 DEF HasContent
    <3>2. CASE q \notin Fills(v, s) /\ Led(v, t, q)
      BY <1>1, <1>4, <2>1, <3>2, LedOn
    <3>3. CASE q \notin Fills(v, s) /\ HasContent(mem, v, u, q)
      <4>1. Keeps(mem, mem', q) \/ (StructForm(s) /\ Within(q, Place(s)))
        BY <1>9, <3>3 DEF Receives, HasContent
      <4>2. CASE Keeps(mem, mem', q)
        BY <3>3, <4>2 DEF Keeps, HasContent
      <4>3. CASE StructForm(s) /\ Within(q, Place(s))
        <5>1. LeadsTo(v, s, q)
          BY <1>4, <2>6, <4>3 DEF Repeats
        <5>2. s = t[1] /\ 1 \in 1 .. Len(t)
          BY <1>1, <1>4
        <5>3. Led(v, t, q)
          BY <5>1, <5>2 DEF Led
        <5> QED BY <3>2, <3>3, <5>3
      <4> QED BY <4>1, <4>2, <4>3
    <3> QED BY <2>6, <3>1, <3>2, <3>3 DEF ReceiverTracks
  <2>7. Repeats(original', root', W) =>
           \A u \in W : \A q \in Fills(original', u) :
               HasContent(mem', original', u, q) \/ Led(original', todo', q)
    BY <2>6
  <2> QED BY <2>1, <2>2, <2>3, <2>5, <2>7 DEF ReceiverTracks
<1>10. CASE ReceiverStops
  <2>1. /\ result' # "EO_SUCCESS" /\ reader'.data = reader.data
        /\ (scarce /\ result' = "EO_ALLOC_FAILED") \/ ~InReach(v, s)
    BY <1>10 DEF ReceiverStops
  <2>2. GaveUp'
    BY <2>1, ResultStays DEF GaveUp, ReceiverTracks
  <2>3. ~InReach(v, s) => reader.data # sent
    BY <1>4 DEF InReach, LiesAt
  <2> QED BY <2>1, <2>2, <2>3 DEF OutOfMemory
<1> QED BY <1>8, <1>9, <1>10

LEMMA PlainInvInit == Init => PlainInv
<1> SUFFICES ASSUME Init PROVE PlainInv
  OBVIOUS
<1>1. mem = Value(original) /\ raw = {} /\ phase = "start"
  BY DEF Init, Value
<1> QED BY <1>1 DEF PlainInv

LEMMA StepKeepsPlain ==
    ASSUME ModesInv, PlainInv, Step
    PROVE  PlainInv'
<1>1. /\ UNCHANGED <<phase, root, original, sent, scarce>> /\ fault = "none"
      /\ SerializeStep \/ DeserializeStep
  BY DEF Step, client
<1> SUFFICES ASSUME NEW W, Fits(original, root, W),
                    phase \in {"start", "sending", "sent", "receiving", "received"}
             PROVE  /\ phase \in {"sending", "receiving"}
                    /\ phase = "sending" /\ fault' = "none" => (SenderTracks(W) \/ GaveUp)'
                    /\ phase = "receiving" =>
                          \E R : /\ Track(original', root', W, R, End', sent')
                                 /\ \E n \in 0 .. Len(sent') : Kept(n)'
                                 /\ \/ ReceiverTracks(W, R)'
                                    \/ (GaveUp /\ (reader.data # sent \/ OutOfMemory))'
  BY <1>1 DEF PlainInv
<1>2. CASE SerializeStep
  <2>1. phase = "sending"
    BY <1>2, StepsRun DEF ModesInv, CallsReturn, Serializing
  <2>2. SenderTracks(W)
    BY <1>1, <1>2, <2>1, ResultStays DEF PlainInv, GaveUp
  <2> QED BY <1>1, <1>2, <2>1, <2>2, SenderKeepsTrack
<1>3. CASE DeserializeStep
  <2>1. phase = "receiving"
    BY <1>3, StepsRun DEF ModesInv, CallsReturn
  <2>2. PICK R : /\ Track(original, root, W, R, End, sent)
                 /\ \E n \in 0 .. Len(sent) : Kept(n)
                 /\ ReceiverTracks(W, R)
    BY <1>3, <2>1, ResultStays DEF PlainInv, GaveUp
  <2>3. PICK n \in 0 .. Len(sent) : Kept(n)
    BY <2>2
  <2>4. /\ reader'.data = reader.data
        /\ ReceiverTracks(W, R)' \/ (GaveUp /\ (reader.data # sent \/ OutOfMemory))'
    BY <1>1, <1>3, <2>2, <2>3, ReceiverKeepsTrack
  <2>5. Kept(n)' /\ n \in 0 .. Len(sent') /\ End' = End
    BY <1>1, <2>3, <2>4 DEF Kept, End
  <2>6. Track(original', root', W, R, End', sent')
    BY <1>1, <2>2, <2>5
  <2> QED BY <2>1, <2>4, <2>5, <2>6
<1> QED BY <1>1, <1>2, <1>3

LEMMA SendKeepsPlain ==
    ASSUME ModesInv, PlainInv, Send
    PROVE  PlainInv'
<1>1. PICK n : SerializeInto(InitWriter(n, TRUE), "start", "sending")
  BY Zenon DEF Send, Serialize
<1>2. /\ phase = "start" /\ phase' = "sending" /\ UNCHANGED <<original, root, mem, raw>>
      /\ writer' = InitWriter(n, TRUE) /\ result' = "EO_SUCCESS"
      /\ todo' = Statements(<< >>, Structs[root]) \o Leave(InitWriter(n, TRUE).sanitize)
  BY <1>1 DEF SerializeInto, Call, memory
<1>3. WriterReady' /\ writer'.data = << >> /\ todo' = Start(root)
  <2>1. writer' = [data |-> << >>, capacity |-> n, block |-> n, sanitize |-> FALSE]
    BY <1>2 DEF InitWriter
  <2>2. << >> \in Seq(Byte) /\ Len(<< >>) <= SizeMax
    BY SizeAssumption
  <2>3. InitWriter(n, TRUE).sanitize = FALSE
    BY DEF InitWriter
  <2>4. WriterReady'
    BY <2>1, <2>2 DEF WriterReady
  <2>5. todo' = Start(root)
    BY <1>2, <2>3, Zenon DEF Start
  <2>6. writer'.data = << >>
    BY <2>1
  <2> QED BY <2>4, <2>5, <2>6
<1> SUFFICES ASSUME NEW W, Fits(original, root, W)
             PROVE  SenderTracks(W)'
  BY <1>2 DEF PlainInv
<1>4. Track(original, root, W, {<<Start(root), 0>>}, <<Start(root), 0>>, << >>)
  BY TrackBegins DEF ModesInv
<1>5. Len(<< >>) = 0
  OBVIOUS
<1>6. \E R : Track(original', root', W, R, <<todo', Len(writer'.data)>>, writer'.data)
  BY Zenon, <1>2, <1>3, <1>4, <1>5
<1>7. mem' = Value(original') /\ raw' = {}
  BY <1>2 DEF PlainInv
<1> QED BY Zenon, <1>2, <1>3, <1>6, <1>7 DEF SenderTracks

LEMMA SentKeepsPlain ==
    ASSUME PlainInv, Sent
    PROVE  PlainInv'
<1>1. /\ phase = "sending" /\ todo = << >> /\ fault = "none" /\ sent' = writer.data
      /\ phase' = IF result = "EO_SUCCESS" THEN "sent" ELSE "done"
      /\ UNCHANGED <<original, root>>
  BY DEF Sent, Finished, given
<1> SUFFICES ASSUME NEW W, Fits(original, root, W), result = "EO_SUCCESS"
             PROVE  \E R : Track(original', root', W, R, End', sent')
  BY <1>1 DEF PlainInv
<1>2. SenderTracks(W)
  BY <1>1 DEF PlainInv, GaveUp
<1>3. PICK R : Track(original, root, W, R, <<todo, Len(writer.data)>>, writer.data)
  BY <1>2 DEF SenderTracks
<1>4. End' = <<todo, Len(writer.data)>>
  BY <1>1 DEF End
<1> QED BY <1>1, <1>3, <1>4

LEMMA ReceiveKeepsPlain ==
    ASSUME ModesInv, PlainInv, NEW n \in 0 .. Len(sent), Receive(n)
    PROVE  PlainInv'
<1>1. /\ phase = "sent" /\ phase' = "receiving" /\ UNCHANGED <<original, root, sent>>
      /\ reader' = InitReader(SubSeq(sent, 1, n)) /\ result' = "EO_SUCCESS"
      /\ todo' = Start(root)
  BY DEF Receive, Call, given, Start
<1> SUFFICES ASSUME NEW W, Fits(original, root, W)
             PROVE  \E R : /\ Track(original', root', W, R, End', sent')
                           /\ Kept(n)' /\ ReceiverTracks(W, R)'
  BY <1>1 DEF PlainInv
<1>2. PICK R : Track(original, root, W, R, End, sent)
  BY <1>1 DEF PlainInv
<1>3. sent \in Seq(Byte) /\ <<Start(root), 0>> \in R
  BY <1>2 DEF Track
<1>4. /\ reader' = [data |-> SubSeq(sent, 1, n), offset |-> 0, chunked |-> FALSE,
                    chunkOffset |-> 0, nextChunk |-> 0]
      /\ SubSeq(sent, 1, n) \in Seq(Byte) /\ Len(SubSeq(sent, 1, n)) \in Nat
  BY <1>1, <1>3, CutFacts DEF InitReader
<1>5. ReceiverReady' /\ reader'.offset = 0 /\ Kept(n)'
  <2> DEFINE d == SubSeq(sent, 1, n)
  <2>1. d \in Seq(Byte) /\ 0 <= Len(d) /\ reader'.data = d
    BY <1>4
  <2>2. d = SubSeq(sent', 1, n)
    BY <1>1
  <2> HIDE DEF d
  <2>3. reader' \in Reader /\ reader'.chunked = FALSE /\ reader'.offset = 0
    BY <1>4, <2>1 DEF Reader, d
  <2> QED BY <2>1, <2>2, <2>3 DEF ReceiverReady, Kept
<1>6. CountsReady(original', locals', todo')
  BY <1>1 DEF CountsReady, Fits, CountsFirst
<1>7. /\ \A q \in Cells(original') : Led(original', todo', q)
      /\ Repeats(original', root', W) =>
            \A s \in W : \A q \in Fills(original', s) : Led(original', todo', q)
  BY <1>1 DEF Led, Fits, Repeats
<1>8. End' = End
  BY <1>1 DEF End
<1>9. Track(original', root', W, R, End', sent')
  BY <1>1, <1>2, <1>8
<1> QED BY <1>1, <1>3, <1>5, <1>6, <1>7, <1>9 DEF ReceiverTracks

LEMMA ReceivedKeepsPlain ==
    ASSUME PlainInv, Received
    PROVE  PlainInv'
<1>1. /\ phase = "receiving" /\ todo = << >> /\ phase' = "received"
      /\ UNCHANGED <<original, root, sent, result, mem, reader, scarce>>
  BY DEF Received, Finished, given, memory
<1> SUFFICES ASSUME NEW W, Fits(original, root, W) PROVE Understood(W)'
  BY <1>1 DEF PlainInv
<1> SUFFICES Understood(W)
  BY <1>1 DEF Understood, Retained, OutOfMemory, HasContent
<1>2. PICK R : /\ Track(original, root, W, R, End, sent)
               /\ \E n \in 0 .. Len(sent) : Kept(n)
               /\ \/ ReceiverTracks(W, R)
                  \/ GaveUp /\ (reader.data # sent \/ OutOfMemory)
  BY <1>1 DEF PlainInv
<1>3. CASE GaveUp /\ (reader.data # sent \/ OutOfMemory)
  BY <1>3 DEF GaveUp, Understood
<1>4. CASE ReceiverTracks(W, R)
  <2> DEFINE y == <<todo, reader.offset>>
  <2>1. y \in R /\ y[1] = << >> /\ result = "EO_SUCCESS" /\ reader.offset <= Len(reader.data)
    BY <1>1, <1>4 DEF ReceiverTracks, ReceiverReady
  <2> HIDE DEF y
  <2>2. y = End /\ sent \in Seq(Byte)
    BY <1>2, <2>1 DEF Track, Leads
  <2>3. reader.offset = Len(sent)
    BY <2>2 DEF End, y
  <2>4. PICK n \in 0 .. Len(sent) : Kept(n)
    BY <1>2
  <2>5. reader.data = sent
    BY <2>1, <2>2, <2>3, <2>4, CutFacts DEF Kept
  <2>6. \A q : ~Led(original, todo, q)
    BY <1>1 DEF Led
  <2>7. /\ \A q \in Cells(original) : Arrived(mem, original, q)
        /\ Repeats(original, root, W) => Retained(W)
    BY <1>4, <2>6 DEF ReceiverTracks, Retained
  <2> QED BY <2>1, <2>5, <2>7 DEF Understood
<1> QED BY <1>2, <1>3, <1>4

\* The rest of the program says nothing of the message that was received.
LEMMA CallerKeepsPlain ==
    ASSUME ModesInv, PlainInv, Caller
    PROVE  PlainInv'
<1>1. CASE phase' \notin {"start", "sending", "sent", "receiving", "received"}
  BY <1>1 DEF PlainInv
<1>2. CASE Echo \/ Echoed \/ Free \/ LuaDeserialize \/ LuaError \/ LuaConvert
           \/ LuaSerialize \/ Written \/ WasmAnswer \/ WasmUndefined \/ Answered
           \/ \E mode \in BOOLEAN : LuaWrite(mode)
  <2>1. phase' \in {"done", "echoing", "echoed", "table", "raised", "converted", "writing",
                    "written", "answering", "answered"}
    BY Zenon, <1>2 DEF Echo, Echoed, Free, LuaDeserialize, LuaError, LuaConvert, LuaSerialize,
                Written, WasmAnswer, WasmUndefined, Answered, LuaWrite, Serialize,
                SerializeInto, SerializedAgain
  <2> QED BY <1>1, <2>1
<1> QED
  BY <1>2, SendKeepsPlain, SentKeepsPlain, ReceiveKeepsPlain, ReceivedKeepsPlain DEF Caller

LEMMA PlainInvNext == ModesInv /\ PlainInv /\ [Next]_vars => PlainInv'
<1> SUFFICES ASSUME ModesInv, PlainInv, [Next]_vars PROVE PlainInv'
  OBVIOUS
<1>1. CASE UNCHANGED vars
  <2>1. UNCHANGED <<phase, root, original, fault, result, todo, mem, raw, locals, writer,
                    reader, sent, scarce>>
    BY <1>1 DEF vars, structVars
  <2> QED BY <2>1 DEF PlainInv, SenderTracks, WriterReady, GaveUp, ReceiverTracks, ReceiverReady,
                      Kept, End, Understood, OutOfMemory, Retained
<1> QED BY <1>1, StepKeepsPlain, CallerKeepsPlain DEF Next

(* A plain message, whatever its definition, is understood as a whole unless *)
(* memory runs out, and all that was sent arrives: no element shifts another *)
(* (code_gen_protocol.c:681).                                                *)
THEOREM PlainFieldsArrive == Spec => [](IsPlain => FieldsArrive)
<1>1. PlainInv => (IsPlain => FieldsArrive)
  BY DEF PlainInv, IsPlain, FieldsArrive, Understood, OutOfMemory, Arrived, Cells
<1> QED BY <1>1, ModesInvInit, ModesInvNext, PlainInvInit, PlainInvNext, PTL DEF Spec

(* No beginning of a plain message passes for a whole one                    *)
(* (code_gen_protocol.c:681).                                                *)
THEOREM PlainCutsAreNoticed == Spec => [](IsPlain => CutsAreNoticed)
<1>1. PlainInv => (IsPlain => CutsAreNoticed)
  BY DEF PlainInv, IsPlain, CutsAreNoticed, Understood
<1> QED BY <1>1, ModesInvInit, ModesInvNext, PlainInvInit, PlainInvNext, PTL DEF Spec

-----------------------------------------------------------------------------
(* What a peer made of a whole message it serializes to the same bytes: the *)
(* sender of the second message goes the way of the first one, behind what  *)
(* was in its writer before.                                                *)

Whole == {"sent", "receiving", "received", "echoing", "echoed", "table", "converted",
          "writing", "written", "answering", "answered"}

Base == IF phase \in {"writing", "written"} THEN Header ELSE << >>
Room == Len(Base) + Len(sent) <= SizeMax

\* The writer holds the first o bytes of the message behind the others.
CopiedTo(o) ==
    /\ writer.data \in Seq(Byte) /\ Len(writer.data) = Len(Base) + o
    /\ \A k \in 1 .. Len(Base) : writer.data[k] = Base[k]
    /\ \A k \in 1 .. o : writer.data[Len(Base) + k] = sent[k]

WholeWay(W) == \E R : Track(original, root, W, R, End, sent)

RepeaterTracks(W) ==
    /\ result = "EO_SUCCESS" /\ WriterReady
    /\ \E R, o : Track(original, root, W, R, End, sent) /\ <<todo, o>> \in R /\ CopiedTo(o)

RepeatInv ==
    /\ phase \notin {"writing", "written", "done"} => ~found
    /\ \A W : Fits(original, root, W) /\ phase \in Whole => WholeWay(W) /\ Len(sent) <= SizeMax
    /\ \A W : Repeats(original, root, W) =>
          /\ phase \in {"received", "answering", "answered"} /\ reader.data = sent /\ ~scarce =>
                Retained(W)
          /\ Retained(W) /\ ~found /\ Room =>
                /\ phase \in {"echoing", "writing", "answering"} /\ fault = "none" =>
                      RepeaterTracks(W) \/ (GaveUp /\ OutOfMemory)
                /\ phase \in {"echoed", "written", "answered"} =>
                      OutOfMemory \/ (result = "EO_SUCCESS" /\ writer.data = Base \o sent)

LEMMA BaseFacts ==
    \A x \in {Base, Base', Header, << >>} : x \in Seq(Byte) /\ Len(x) \in Nat
<1>1. 1 \in Byte /\ 2 \in Byte
  BY NumberAssumption DEF Byte
<1>2. Header \in Seq(Byte)
  BY <1>1 DEF Header
<1>3. << >> \in Seq(Byte)
  OBVIOUS
<1>4. {Base, Base'} \subseteq {Header, << >>}
  BY DEF Base
<1> HIDE DEF Base, Header
<1>5. \A x \in Seq(Byte) : Len(x) \in Nat
  OBVIOUS
<1> QED BY Zenon, <1>2, <1>3, <1>4, <1>5

LEMMA JoinFacts ==
    ASSUME NEW d \in Seq(Byte), NEW b \in Seq(Byte)
    PROVE  /\ d \o b \in Seq(Byte) /\ Len(d \o b) = Len(d) + Len(b)
           /\ Len(d) \in Nat /\ Len(b) \in Nat
           /\ \A k \in 1 .. Len(d) : (d \o b)[k] = d[k]
           /\ \A k \in 1 .. Len(b) : (d \o b)[Len(d) + k] = b[k]
<1> DEFINE j == d \o b
<1>1. /\ Len(j) = Len(d) + Len(b) /\ j \in Seq(Byte) /\ Len(d) \in Nat /\ Len(b) \in Nat
      /\ \A k \in 1 .. Len(j) : j[k] = IF k <= Len(d) THEN d[k] ELSE b[k - Len(d)]
  OBVIOUS
<1> HIDE DEF j
<1>2. \A k \in 1 .. Len(d) : j[k] = d[k]
  BY <1>1
<1>3. ASSUME NEW k \in 1 .. Len(b) PROVE j[Len(d) + k] = b[k]
  <2>1. Len(d) + k \in 1 .. Len(j) /\ ~(Len(d) + k <= Len(d)) /\ Len(d) + k - Len(d) = k
    BY <1>1
  <2> QED BY <1>1, <2>1
<1> QED BY <1>1, <1>2, <1>3 DEF j

\* Nothing is in the writer but what was there before.
LEMMA RepeatBegins ==
    ASSUME NEW W, Fits(original, root, W), WholeWay(W), WriterReady', writer'.data = Base',
           todo' = Start(root), result' = "EO_SUCCESS", UNCHANGED <<original, root, sent>>
    PROVE  RepeaterTracks(W)'
<1>1. PICK R : Track(original, root, W, R, End, sent)
  BY DEF WholeWay
<1>2. <<Start(root), 0>> \in R /\ End' = End
  BY <1>1 DEF Track, End
<1>3. CopiedTo(0)'
  <2>1. Base' \in Seq(Byte) /\ Len(Base') \in Nat
    BY BaseFacts
  <2>2. Len(writer'.data) = Len(Base') + 0
    BY <2>1
  <2> QED BY <2>1, <2>2 DEF CopiedTo
<1>4. Track(original', root', W, R, End', sent') /\ <<todo', 0>> \in R
  BY <1>1, <1>2
<1> QED BY <1>3, <1>4 DEF RepeaterTracks

\* More bytes of the message behind those that are there.
LEMMA CopyGoesOn ==
    ASSUME NEW o \in Nat, CopiedTo(o), NEW b \in Seq(Byte), LiesAt(sent, o, b),
           writer'.data = writer.data \o b, UNCHANGED <<phase, sent>>
    PROVE  CopiedTo(o + Len(b))'
<1> DEFINE d == writer.data
           j == d \o b
           n == Len(Base)
<1>1. Base' = Base /\ Base \in Seq(Byte) /\ n \in Nat
  BY BaseFacts DEF Base
<1>2. /\ d \in Seq(Byte) /\ Len(d) = n + o
      /\ \A k \in 1 .. n : d[k] = Base[k]
      /\ \A k \in 1 .. o : d[n + k] = sent[k]
  BY DEF CopiedTo
<1>3. writer'.data = j
  OBVIOUS
<1>4. /\ j \in Seq(Byte) /\ Len(j) = Len(d) + Len(b) /\ Len(b) \in Nat
      /\ \A k \in 1 .. Len(d) : j[k] = d[k]
      /\ \A k \in 1 .. Len(b) : j[Len(d) + k] = b[k]
  BY Zenon, <1>2, JoinFacts
<1> HIDE DEF d, j, n
<1>5. \A k \in 1 .. n : j[k] = Base[k]
  <2>1. \A k \in 1 .. n : k \in 1 .. Len(d)
    BY <1>1, <1>2
  <2> QED BY <1>2, <1>4, <2>1
<1>6. ASSUME NEW k \in 1 .. o + Len(b) PROVE j[n + k] = sent[k]
  <2>1. CASE k <= o
    <3>1. k \in 1 .. o /\ n + k \in 1 .. Len(d)
      BY <1>1, <1>2, <1>4, <2>1
    <3> QED BY Zenon, <1>2, <1>4, <3>1
  <2>2. CASE ~(k <= o)
    <3>1. PICK i \in 1 .. Len(b) : k = o + i /\ n + k = Len(d) + i
      <4>1. k - o \in 1 .. Len(b) /\ k = o + (k - o) /\ n + k = Len(d) + (k - o)
        BY <1>1, <1>2, <1>4, <2>2
      <4> QED BY <4>1
    <3>2. sent[o + i] = b[i]
      BY <3>1 DEF LiesAt
    <3> QED BY <1>4, <3>1, <3>2
  <2> QED BY <2>1, <2>2
<1>7. Len(j) = n + (o + Len(b))
  BY <1>1, <1>2, <1>4
<1> QED BY Zenon, <1>1, <1>3, <1>4, <1>5, <1>6, <1>7 DEF CopiedTo, n

LEMMA SeqsAreEqual ==
    ASSUME NEW d \in Seq(Byte), NEW b \in Seq(Byte), Len(d) = Len(b),
           \A k \in 1 .. Len(d) : d[k] = b[k]
    PROVE  d = b
OBVIOUS

LEMMA CopyEnds ==
    ASSUME sent \in Seq(Byte), CopiedTo(Len(sent))
    PROVE  writer.data = Base \o sent
<1> DEFINE d == writer.data
           j == Base \o sent
<1>1. /\ d \in Seq(Byte) /\ Len(d) = Len(Base) + Len(sent)
      /\ \A k \in 1 .. Len(Base) : d[k] = Base[k]
      /\ \A k \in 1 .. Len(sent) : d[Len(Base) + k] = sent[k]
  BY DEF CopiedTo
<1>2. Base \in Seq(Byte) /\ Len(Base) \in Nat /\ Len(sent) \in Nat
  BY BaseFacts
<1> HIDE DEF d, Base
<1>3. /\ j \in Seq(Byte) /\ Len(j) = Len(Base) + Len(sent)
      /\ \A k \in 1 .. Len(Base) : j[k] = Base[k]
      /\ \A k \in 1 .. Len(sent) : j[Len(Base) + k] = sent[k]
  BY <1>2, JoinFacts
<1> HIDE DEF j
<1>4. ASSUME NEW k \in 1 .. Len(d) PROVE d[k] = j[k]
  <2>1. CASE k <= Len(Base)
    BY <1>1, <1>2, <1>3, <2>1
  <2>2. CASE ~(k <= Len(Base))
    <3>1. PICK i \in 1 .. Len(sent) : k = Len(Base) + i
      <4>1. k - Len(Base) \in 1 .. Len(sent) /\ k = Len(Base) + (k - Len(Base))
        BY <1>1, <1>2, <2>2
      <4> QED BY Zenon, <4>1
    <3> QED BY <1>1, <1>3, <3>1
  <2> QED BY <2>1, <2>2
<1>5. d = j
  <2>1. Len(d) = Len(j)
    BY <1>1, <1>3
  <2> QED BY <1>1, <1>3, <1>4, <2>1, SeqsAreEqual
<1> QED BY <1>5 DEF d, j

LEMMA RepeaterGoesOn ==
    ASSUME NEW W, Repeats(original, root, W), Retained(W), Room, RepeaterTracks(W),
           SerializeStep, fault' = "none", UNCHANGED <<phase, original, root, sent, scarce>>
    PROVE  (RepeaterTracks(W) \/ (GaveUp /\ OutOfMemory))'
<1> DEFINE v == original
           t == todo
           s == Head(t)
           b == Piece(v, s)
<1>1. Program(v, W) /\ todo # << >>
  BY ResultStays DEF Repeats, Fits
<1>2. PICK R, o : Track(v, root, W, R, End, sent) /\ <<t, o>> \in R /\ CopiedTo(o)
  BY DEF RepeaterTracks
<1> DEFINE y == <<t, o>>
<1>3. y[1] = t /\ y[2] = o /\ y \in R /\ y # End
  BY <1>1, <1>2 DEF End
<1>4. /\ sent \in Seq(Byte) /\ y[1] \in Seq(W) /\ y[2] \in Nat /\ Leads(v, R, y, sent)
  <2> HIDE DEF y
  <2> QED BY <1>2, <1>3 DEF Track
<1>5. /\ t \in Seq(W) /\ s \in W /\ o \in Nat /\ LiesAt(sent, o, b)
      /\ <<After(v, t), o + Len(b)>> \in R
  BY <1>1, <1>3, <1>4 DEF Leads, NextPoint
<1>6. b \in Seq(Byte) /\ Len(b) \in Nat
  BY <1>1, <1>5, PieceIsBytes DEF Program
<1>7. \A u \in W : Tells(v, u) /\ FromMessage(v, u)
  BY RetainedTells
<1>8. Sends \/ SenderStops
  BY <1>1, <1>5, <1>7, SenderMoves DEF RepeaterTracks
<1>9. CASE Sends
  <2>1. /\ todo' = After(v, t) /\ writer'.data = writer.data \o b /\ WriterReady'
        /\ result' = "EO_SUCCESS"
    BY <1>9 DEF Sends, RepeaterTracks
  <2> PICK m : m = o + Len(b)
    OBVIOUS
  <2>2. CopiedTo(m)'
    <3>1. PICK c : c = b
      OBVIOUS
    <3> HIDE DEF b
    <3>2. CopiedTo(o + Len(c))'
      BY Zenon, <1>2, <1>5, <1>6, <2>1, <3>1, CopyGoesOn
    <3>3. m = o + Len(c)
      BY <3>1
    <3> QED BY <3>2, <3>3
  <2>3. /\ Track(original', root', W, R, End', sent')
        /\ <<todo', m>> \in R
    <3>1. End' = End
      BY DEF End
    <3> QED BY <1>2, <1>5, <2>1, <3>1
  <2> QED BY <2>1, <2>2, <2>3 DEF RepeaterTracks
<1>10. CASE ~Sends
  <2>1. FromMessage(v, s)
    BY <1>5, <1>7
  <2>2. \/ result' = "EO_ALLOC_FAILED" /\ scarce
        \/ SizeMax - Len(writer.data) < Len(b)
    BY <1>8, <1>10, <2>1 DEF SenderStops
  <2>3. ~(SizeMax - Len(writer.data) < Len(b))
    <3>1. Len(writer.data) = Len(Base) + o /\ o + Len(b) <= Len(sent)
      BY <1>2, <1>5 DEF CopiedTo, LiesAt
    <3>2. Len(Base) \in Nat /\ SizeMax \in Nat /\ Len(sent) \in Nat
      BY <1>4, BaseFacts, SizeAssumption
    <3> QED BY <1>5, <1>6, <3>1, <3>2 DEF Room
  <2>4. result' = "EO_ALLOC_FAILED" /\ scarce /\ todo' = << >>
    BY <2>2, <2>3, ResultStays DEF RepeaterTracks
  <2> QED BY <2>4 DEF GaveUp, OutOfMemory
<1> QED BY <1>9, <1>10

LEMMA RepeaterReturns ==
    ASSUME NEW W, RepeaterTracks(W), todo = << >>
    PROVE  result = "EO_SUCCESS" /\ writer.data = Base \o sent
<1>1. PICK R, o : Track(original, root, W, R, End, sent) /\ <<todo, o>> \in R /\ CopiedTo(o)
  BY DEF RepeaterTracks
<1> DEFINE y == <<todo, o>>
<1>2. y \in R /\ y[1] = << >>
  BY <1>1
<1> HIDE DEF y
<1>3. y = End /\ sent \in Seq(Byte)
  BY <1>1, <1>2 DEF Track, Leads
<1>4. o = Len(sent)
  BY <1>3 DEF y, End
<1> QED BY <1>1, <1>3, <1>4, CopyEnds DEF RepeaterTracks

LEMMA RepeatInvInit == Init => RepeatInv
BY DEF Init, RepeatInv, Whole

LEMMA StepKeepsRepeats ==
    ASSUME ModesInv, RepeatInv, Step
    PROVE  RepeatInv'
<1>1. /\ UNCHANGED <<phase, root, original, sent, scarce, found>> /\ fault = "none"
      /\ SerializeStep \/ DeserializeStep
  BY DEF Step, client
<1>2. \A W : WholeWay(W) => WholeWay(W)'
  BY <1>1 DEF WholeWay, End
<1>3. CASE SerializeStep
  <2>1. /\ mem' = mem /\ reader' = reader /\ phase \in Serializing
        /\ todo # << >> /\ (result' = result \/ todo' = << >>)
    <3>1. mem' = mem /\ reader' = reader
      BY Zenon, <1>3 DEF SerializeStep, WriteChunked, SkipField, WriteStructField, WriteArray,
                  WriteItems, WriteSwitch, LeaveSerialize, WriteBreak, WriteLiteral, WriteField,
                  WriteLength, WriteItem, Expand, Write, Crash, unwritten, memory
    <3> QED BY <1>3, <3>1, StepsRun, ResultStays DEF ModesInv, CallsReturn
  <2>2. \A W : Retained(W)' <=> Retained(W)
    BY <1>1, <2>1 DEF Retained, HasContent
  <2>3. Base' = Base /\ (Room' <=> Room)
    BY <1>1 DEF Base, Room
  <2>4. ASSUME NEW W, Repeats(original, root, W), Retained(W), ~found, Room,
               phase \in {"echoing", "writing", "answering"}, fault' = "none"
        PROVE  (RepeaterTracks(W) \/ (GaveUp /\ OutOfMemory))'
    <3>1. RepeaterTracks(W)
      BY <1>1, <2>1, <2>4 DEF RepeatInv, GaveUp
    <3> QED BY <1>1, <1>3, <2>4, <3>1, RepeaterGoesOn
  <2> QED BY <1>1, <1>2, <2>1, <2>2, <2>3, <2>4 DEF RepeatInv, Serializing
<1>4. CASE DeserializeStep
  <2>1. phase = "receiving"
    BY <1>4, StepsRun DEF ModesInv, CallsReturn
  <2> QED BY <1>1, <1>2, <2>1 DEF RepeatInv
<1> QED BY <1>1, <1>3, <1>4

\* A serialization of the peer's begins.
LEMMA CallKeepsRepeats ==
    ASSUME RepeatInv, NEW w, NEW from \in Whole, NEW next \in {"echoing", "writing", "answering"},
           SerializeInto(w, from, next), next # "writing" => ~w.sanitize,
           next = "answering" => from = "received",
           w.sanitize \in BOOLEAN, {"data", "sanitize"} \subseteq DOMAIN w, w.data = Base'
    PROVE  RepeatInv'
<1>1. /\ phase = from /\ phase' = next /\ writer' = w /\ found' = w.sanitize
      /\ result' = "EO_SUCCESS" /\ todo' = Statements(<< >>, Structs[root]) \o Leave(found')
      /\ UNCHANGED <<mem, reader, scarce, original, root, sent>>
  BY DEF SerializeInto, Call, memory
<1>2. \A W : WholeWay(W) => WholeWay(W)'
  BY <1>1 DEF WholeWay, End
<1>3. \A W : Retained(W)' <=> Retained(W)
  BY <1>1 DEF Retained, HasContent
<1>4. ASSUME NEW W, Repeats(original, root, W), ~found', Room'
      PROVE  RepeaterTracks(W)'
  <2>1. Fits(original, root, W) /\ WholeWay(W)
    BY <1>1, <1>4 DEF Repeats, RepeatInv
  <2>2. sent \in Seq(Byte)
    BY <2>1 DEF WholeWay, Track
  <2>3. WriterReady'
    <3>1. Base' \in Seq(Byte) /\ Len(Base') \in Nat
      BY BaseFacts
    <3>2. Len(sent) \in Nat /\ SizeMax \in Nat
      BY <2>2, SizeAssumption
    <3>3. Len(Base') + Len(sent) <= SizeMax
      BY <1>1, <1>4 DEF Room
    <3>4. Len(Base') <= SizeMax
      BY <3>1, <3>2, <3>3
    <3> QED BY <1>1, <1>4, <3>1, <3>4 DEF WriterReady
  <2>4. todo' = Start(root)
    <3>1. found' = FALSE
      BY <1>1, <1>4
    <3> QED BY Zenon, <1>1, <3>1 DEF Start
  <2> QED BY <1>1, <2>1, <2>3, <2>4, RepeatBegins
<1>5. next \in Whole /\ next # "written" /\ from \notin {"start", "sending", "done"}
  BY DEF Whole
<1> QED BY <1>1, <1>2, <1>3, <1>4, <1>5 DEF RepeatInv

\* It is over.
LEMMA ReturnKeepsRepeats ==
    ASSUME RepeatInv, NEW from, NEW next,
           <<from, next>> \in {<<"echoing", "echoed">>, <<"writing", "written">>,
                               <<"answering", "answered">>},
           SerializedAgain(from, next)
    PROVE  RepeatInv'
<1>1. /\ phase = from /\ phase' = next /\ todo = << >> /\ fault = "none"
      /\ UNCHANGED <<result, mem, reader, writer, scarce, original, root, sent, found>>
  BY DEF SerializedAgain, Finished, memory, given
<1>2. /\ from \in {"echoing", "writing", "answering"} /\ next \in {"echoed", "written", "answered"}
      /\ from = "writing" <=> next = "written"
      /\ from = "answering" <=> next = "answered"
  OBVIOUS
<1>3. \A W : WholeWay(W) => WholeWay(W)'
  BY <1>1 DEF WholeWay, End
<1>4. \A W : Retained(W)' <=> Retained(W)
  BY <1>1 DEF Retained, HasContent
<1>5. Base' = Base /\ (Room' <=> Room) /\ (OutOfMemory' <=> OutOfMemory)
  BY <1>1, <1>2 DEF Base, Room, OutOfMemory
<1>6. ASSUME NEW W, Repeats(original, root, W), Retained(W), ~found, Room
      PROVE  OutOfMemory \/ (result = "EO_SUCCESS" /\ writer.data = Base \o sent)
  BY <1>1, <1>2, <1>6, RepeaterReturns DEF RepeatInv
<1>7. from \in Whole /\ next \in Whole /\ next \notin {"writing", "received", "echoing", "answering"}
  BY <1>2 DEF Whole
<1> QED BY <1>1, <1>2, <1>3, <1>4, <1>5, <1>6, <1>7 DEF RepeatInv

\* What else the program does with a message says nothing of a second one.
LEMMA QuietKeepsRepeats ==
    ASSUME RepeatInv, UNCHANGED <<original, root, sent, found>>,
           phase' \in {"receiving", "table", "converted", "raised", "done"},
           phase' # "done" => phase \in Whole \ {"writing", "written"}
    PROVE  RepeatInv'
<1>1. \A W : WholeWay(W) => WholeWay(W)'
  BY DEF WholeWay, End
<1> QED BY <1>1 DEF RepeatInv, Whole

LEMMA SentKeepsRepeats ==
    ASSUME PlainInv, PlainInv', RepeatInv, Sent
    PROVE  RepeatInv'
<1>1. /\ phase = "sending" /\ todo = << >> /\ fault = "none" /\ sent' = writer.data
      /\ phase' = IF result = "EO_SUCCESS" THEN "sent" ELSE "done"
      /\ UNCHANGED <<original, root, found>>
  BY DEF Sent, Finished, given
<1>2. ASSUME NEW W, Fits(original, root, W), result = "EO_SUCCESS"
      PROVE  WholeWay(W)' /\ Len(sent') <= SizeMax
  <2>1. SenderTracks(W)
    BY <1>1, <1>2 DEF PlainInv, GaveUp
  <2>2. WholeWay(W)'
    BY <1>1, <1>2 DEF PlainInv, WholeWay
  <2> QED BY <1>1, <2>1, <2>2 DEF SenderTracks, WriterReady
<1> QED BY <1>1, <1>2 DEF RepeatInv, Whole

LEMMA ReceivedKeepsRepeats ==
    ASSUME PlainInv', RepeatInv, Received
    PROVE  RepeatInv'
<1>1. /\ phase = "receiving" /\ phase' = "received"
      /\ UNCHANGED <<original, root, sent, found>>
  BY DEF Received, given
<1>2. \A W : WholeWay(W) => WholeWay(W)'
  BY <1>1 DEF WholeWay, End
<1>3. ASSUME NEW W, Repeats(original, root, W), (reader.data = sent /\ ~scarce)'
      PROVE  Retained(W)'
  <2>1. Understood(W)' /\ Repeats(original', root', W)
    BY <1>1, <1>3 DEF PlainInv, Repeats
  <2> QED BY <1>3, <2>1 DEF Understood, OutOfMemory
<1> QED BY <1>1, <1>2, <1>3 DEF RepeatInv, Whole

LEMMA UndefinedKeepsRepeats ==
    ASSUME RepeatInv, WasmUndefined
    PROVE  RepeatInv'
<1>1. /\ phase = "received" /\ phase' = "answering" /\ fault' # "none"
      /\ UNCHANGED <<original, root, sent, found, mem, reader, scarce>>
  BY Zenon DEF WasmUndefined, given, memory
<1>2. \A W : WholeWay(W) => WholeWay(W)'
  BY <1>1 DEF WholeWay, End
<1>3. \A W : Retained(W)' <=> Retained(W)
  BY <1>1 DEF Retained, HasContent
<1> QED BY <1>1, <1>2, <1>3 DEF RepeatInv, Whole

LEMMA CallerKeepsRepeats ==
    ASSUME ModesInv, PlainInv, PlainInv', RepeatInv, Caller
    PROVE  RepeatInv'
<1>1. \A n : LET w == InitWriter(n, TRUE)
             IN  /\ w.sanitize = FALSE /\ w.data = << >>
                 /\ {"data", "sanitize"} \subseteq DOMAIN w
  BY DEF InitWriter
<1>2. CASE Send
  <2>1. phase' = "sending" /\ found' = FALSE
    BY Zenon, <1>1, <1>2 DEF Send, Serialize, SerializeInto
  <2> QED BY <2>1 DEF RepeatInv, Whole
<1>3. CASE Echo \/ LuaSerialize
  <2> PICK n : n = size'
    OBVIOUS
  <2>1. PICK from \in {"received", "converted"} :
           SerializeInto(InitWriter(n, TRUE), from, "echoing")
    BY Zenon, <1>3 DEF Echo, LuaSerialize, Serialize
  <2>2. Base' = << >> /\ from \in Whole
    BY <2>1 DEF SerializeInto, Base, Whole
  <2> QED BY Zenon, <1>1, <2>1, <2>2, CallKeepsRepeats
<1>4. CASE WasmAnswer
  <2>1. PICK n : WasmWriter = InitWriter(n, TRUE)
    BY Zenon DEF WasmWriter
  <2>2. SerializeInto(InitWriter(n, TRUE), "received", "answering")
    BY Zenon, <1>4, <2>1 DEF WasmAnswer
  <2>3. Base' = << >> /\ "received" \in Whole
    BY <2>2 DEF SerializeInto, Base, Whole
  <2> QED BY Zenon, <1>1, <2>2, <2>3, CallKeepsRepeats
<1>5. ASSUME NEW mode \in BOOLEAN, LuaWrite(mode)
      PROVE  RepeatInv'
  <2>1. SerializeInto(LuaWriter(mode), "converted", "writing")
    BY <1>5 DEF LuaWrite
  <2>2. Base' = Header /\ "converted" \in Whole
    BY <2>1 DEF SerializeInto, Base, Whole
  <2>3. /\ LuaWriter(mode).sanitize = mode /\ LuaWriter(mode).data = Header
        /\ {"data", "sanitize"} \subseteq DOMAIN LuaWriter(mode)
    BY DEF LuaWriter, SetSanitization, InitWriter
  <2> QED BY <2>1, <2>2, <2>3, CallKeepsRepeats
<1>6. CASE Echoed \/ Written \/ Answered
  BY <1>6, ReturnKeepsRepeats DEF Echoed, Written, Answered
<1>7. CASE Free \/ LuaDeserialize \/ LuaError \/ LuaConvert
  <2>1. UNCHANGED <<original, root, sent, found>>
    BY Zenon, <1>7 DEF Free, LuaDeserialize, LuaError, LuaConvert, given
  <2>2. /\ phase' \in {"table", "converted", "raised", "done"}
        /\ phase' # "done" => phase \in {"received", "table"}
    BY Zenon, <1>7 DEF Free, LuaDeserialize, LuaError, LuaConvert
  <2> QED BY <2>1, <2>2, QuietKeepsRepeats DEF Whole
<1>8. ASSUME NEW n, Receive(n)
      PROVE  RepeatInv'
  <2>1. /\ UNCHANGED <<original, root, sent, found>>
        /\ phase = "sent" /\ phase' = "receiving"
    BY <1>8 DEF Receive, given
  <2> QED BY <2>1, QuietKeepsRepeats DEF Whole
<1> QED
  BY <1>2, <1>3, <1>4, <1>5, <1>6, <1>7, <1>8, SentKeepsRepeats, ReceivedKeepsRepeats,
     UndefinedKeepsRepeats DEF Caller

LEMMA RepeatInvNext ==
    ModesInv /\ PlainInv /\ PlainInv' /\ RepeatInv /\ [Next]_vars => RepeatInv'
<1> SUFFICES ASSUME ModesInv, PlainInv, PlainInv', RepeatInv, [Next]_vars PROVE RepeatInv'
  OBVIOUS
<1>1. CASE UNCHANGED vars
  <2>1. UNCHANGED <<phase, root, original, fault, result, todo, mem, writer, reader, sent,
                    scarce, found>>
    BY <1>1 DEF vars, structVars
  <2>2. /\ Base' = Base /\ (Room' <=> Room) /\ (OutOfMemory' <=> OutOfMemory)
        /\ (GaveUp' <=> GaveUp)
    BY <2>1 DEF Base, Room, OutOfMemory, GaveUp
  <2>3. \A W : (WholeWay(W)' <=> WholeWay(W)) /\ (Retained(W)' <=> Retained(W))
    BY <2>1 DEF WholeWay, End, Retained, HasContent
  <2>4. \A W : RepeaterTracks(W)' <=> RepeaterTracks(W)
    <3>1. \A o : CopiedTo(o)' <=> CopiedTo(o)
      BY <2>1, <2>2 DEF CopiedTo
    <3>2. (WriterReady' <=> WriterReady) /\ End' = End
      BY <2>1 DEF WriterReady, End
    <3> QED BY Zenon, <2>1, <3>1, <3>2 DEF RepeaterTracks
  <2> QED BY <2>1, <2>2, <2>3, <2>4 DEF RepeatInv
<1> QED BY <1>1, StepKeepsRepeats, CallerKeepsRepeats DEF Next

(* A struct that holds all that arrived is serialized to the bytes it came  *)
(* from, in C, from a Lua table, there also behind other bytes, and in the  *)
(* wasm build (code_gen_protocol.c:195 against 681).                        *)
THEOREM MessagesAreRepeated ==
    Spec => [](\A W : /\ Repeats(original, root, W) /\ Retained(W)
                      /\ ~found /\ (phase = "written" => Room)
                      => BytesRoundTrip)
<1>1. ASSUME RepeatInv, NEW W, Repeats(original, root, W), Retained(W), ~found,
             phase = "written" => Room
      PROVE  BytesRoundTrip
  <2> SUFFICES ASSUME phase \in {"echoed", "written", "answered"},
                      IF phase = "answered" THEN ~scarce ELSE ~OutOfMemory
               PROVE  /\ result = "EO_SUCCESS"
                      /\ writer.data = (IF phase = "written" THEN Header ELSE << >>) \o sent
    BY DEF BytesRoundTrip
  <2>1. WholeWay(W) /\ Len(sent) <= SizeMax
    BY <1>1 DEF RepeatInv, Whole, Repeats
  <2>2. Room
    <3>1. CASE phase # "written"
      <4>1. Base = << >> /\ sent \in Seq(Byte)
        BY <2>1, <3>1 DEF Base, WholeWay, Track
      <4>2. Len(<< >>) + Len(sent) = Len(sent)
        BY <4>1
      <4> QED BY <2>1, <4>1, <4>2 DEF Room
    <3> QED BY <1>1, <3>1
  <2>3. ~OutOfMemory
    BY DEF OutOfMemory
  <2>4. result = "EO_SUCCESS" /\ writer.data = Base \o sent
    BY <1>1, <2>2, <2>3 DEF RepeatInv
  <2> QED BY Zenon, <2>4 DEF Base
<1>2. RepeatInv => \A W : /\ Repeats(original, root, W) /\ Retained(W)
                          /\ ~found /\ (phase = "written" => Room)
                          => BytesRoundTrip
  BY <1>1
<1> QED
  BY <1>2, ModesInvInit, ModesInvNext, PlainInvInit, PlainInvNext, RepeatInvInit, RepeatInvNext,
     PTL DEF Spec

IsRepeatable == \E W : Repeats(original, root, W)

(* All of a whole message arrived when a C program starts to send it back:  *)
(* what MessagesAreRepeated asks for (code_gen_protocol.c:681).             *)
THEOREM EchoesHaveItAll ==
    Spec => [][Echo => \A W : Repeats(original, root, W) => Retained(W)']_vars
<1>1. ASSUME PlainInv, Echo, NEW W, Repeats(original, root, W)
      PROVE  Retained(W)'
  <2>1. /\ phase = "received" /\ result = "EO_SUCCESS" /\ UNCHANGED <<mem, original>>
    BY <1>1 DEF Echo, Serialize, SerializeInto, memory
  <2>2. Retained(W)
    BY <1>1, <2>1 DEF PlainInv, Understood, Repeats
  <2> QED BY <2>1, <2>2 DEF Retained, HasContent
<1>2. PlainInv => [Echo => \A W : Repeats(original, root, W) => Retained(W)']_vars
  BY <1>1
<1> QED BY <1>2, ModesInvInit, ModesInvNext, PlainInvInit, PlainInvNext, PTL DEF Spec

(* The wasm build answers every such message with its own bytes             *)
(* (code_gen_wasm.c:146).                                                   *)
THEOREM AnswersAreEqual == Spec => [](IsRepeatable /\ phase = "answered" => BytesRoundTrip)
<1>1. ASSUME RepeatInv, NEW W, Repeats(original, root, W), phase = "answered",
             reader.data = sent, ~scarce
      PROVE  result = "EO_SUCCESS" /\ writer.data = << >> \o sent
  <2>1. Retained(W) /\ ~found /\ Len(sent) <= SizeMax /\ WholeWay(W)
    BY <1>1 DEF RepeatInv, Whole, Repeats
  <2>2. Base = << >> /\ sent \in Seq(Byte)
    BY <1>1, <2>1 DEF Base, WholeWay, Track
  <2>3. Len(<< >>) + Len(sent) = Len(sent)
    BY <2>2
  <2>4. Room
    BY <2>1, <2>2, <2>3 DEF Room
  <2>5. ~OutOfMemory
    BY <1>1 DEF OutOfMemory
  <2> QED BY <1>1, <2>1, <2>2, <2>4, <2>5 DEF RepeatInv
<1>2. RepeatInv => (IsRepeatable /\ phase = "answered" => BytesRoundTrip)
  BY <1>1 DEF IsRepeatable, BytesRoundTrip
<1> QED
  BY <1>2, ModesInvInit, ModesInvNext, PlainInvInit, PlainInvNext, RepeatInvInit, RepeatInvNext,
     PTL DEF Spec

-----------------------------------------------------------------------------
(* Messages without structure are plain: numbers and literals that come back*)
(* from their bytes, and texts of fixed length.                             *)
IsFlat(v, type) ==
    /\ type \in DOMAIN Structs
    /\ \A k \in 1 .. Len(Structs[type]) :
          LET s == Start(type)[k]
          IN  LiteralForm(s) \/ NumberForm(v, s) \/ (TextForm(v, s) /\ IsStatic(s.elem))
    /\ \A q \in Cells(v) : \E k \in 1 .. Len(Structs[type]) : q \in Fills(v, Start(type)[k])

Listed(type) == {Start(type)[k] : k \in 1 .. Len(Start(type))}

LEMMA OneMore ==
    ASSUME NEW S, NEW a \in Seq(S), NEW x
    PROVE  /\ Len(a \o <<x>>) = Len(a) + 1 /\ (a \o <<x>>)[Len(a) + 1] = x
           /\ \A k \in 1 .. Len(a) : (a \o <<x>>)[k] = a[k]
<1> DEFINE T == S \cup {x}
           b == <<x>>
<1>1. a \in Seq(T)
  <2>1. S \subseteq T
    OBVIOUS
  <2> HIDE DEF T
  <2> QED BY <2>1
<1>2. b \in Seq(T) /\ Len(b) = 1 /\ b[1] = x
  <2>1. x \in T
    OBVIOUS
  <2> HIDE DEF T
  <2> QED BY <2>1
<1> HIDE DEF T, b
<1>3. /\ Len(a \o b) = Len(a) + Len(b) /\ Len(a) \in Nat
      /\ \A k \in 1 .. Len(a) + Len(b) :
            (a \o b)[k] = IF k <= Len(a) THEN a[k] ELSE b[k - Len(a)]
  <2>1. b \in Seq(T)
    BY <1>2
  <2> QED BY <1>1, <2>1
<1>4. \A k \in 1 .. Len(a) : (a \o b)[k] = a[k]
  BY <1>2, <1>3
<1>5. (a \o b)[Len(a) + 1] = b[Len(a) + 1 - Len(a)] /\ Len(a) + 1 - Len(a) = 1
  BY <1>2, <1>3
<1> QED BY <1>2, <1>3, <1>4, <1>5 DEF b

LEMMA FlatFits ==
    ASSUME NEW v, NEW type, IsFlat(v, type)
    PROVE  /\ Fits(v, type, Listed(type))
           /\ \A s \in Listed(type) : /\ Expansion(v, s) = << >>
                                      /\ ~StructForm(s) /\ ~LengthForm(v, s)
                                      /\ LiteralForm(s) \/ NumberForm(v, s) \/ TextForm(v, s)
                                         \/ LeaveForm(s)
<1> DEFINE list == Structs[type]
           a == Statements(<< >>, list)
           b == Leave(FALSE)
           t == Start(type)
           W == Listed(type)
<1>1. list \in ElementLists /\ Len(list) \in Nat
  BY ListsAssumption DEF IsFlat
<1>2. \E S : a \in Seq(S)
  BY Zenon, <1>1, ListsAreSound DEF SoundTodo
<1>3. /\ Len(a) = Len(list) /\ \A k \in 1 .. Len(list) : a[k].at = << >>
      /\ b = <<LeaveStatement(FALSE)>>
  <2>1. /\ DOMAIN a = 1 .. Len(list) /\ \A k \in 1 .. Len(list) : a[k].at = << >>
    BY Zenon DEF Statements
  <2>2. PICK S : a \in Seq(S)
    BY <1>2
  <2> HIDE DEF a
  <2>3. DOMAIN a = 1 .. Len(a) /\ Len(a) \in Nat
    BY <2>2
  <2>4. b = <<LeaveStatement(FALSE)>>
    BY LeaveIsSound, Zenon
  <2> HIDE DEF b
  <2>5. Len(a) = Len(list)
    BY <1>1, <2>1, <2>3
  <2> QED BY <2>1, <2>4, <2>5
<1>4. /\ t = a \o b
  BY DEF Start
<1> HIDE DEF a, b
<1>5. /\ Len(t) = Len(list) + 1
      /\ \A k \in 1 .. Len(list) : t[k] = a[k]
      /\ t[Len(list) + 1] = LeaveStatement(FALSE)
  <2>1. PICK S : a \in Seq(S)
    BY <1>2
  <2>2. /\ Len(t) = Len(a) + 1 /\ t[Len(a) + 1] = LeaveStatement(FALSE)
        /\ \A k \in 1 .. Len(a) : t[k] = a[k]
    <3> DEFINE l == LeaveStatement(FALSE)
    <3>1. t = a \o <<l>>
      BY <1>3, <1>4
    <3> HIDE DEF l, t
    <3>2. /\ Len(t) = Len(a) + 1 /\ t[Len(a) + 1] = l
          /\ \A k \in 1 .. Len(a) : t[k] = a[k]
      BY <2>1, <3>1, OneMore
    <3> QED BY <3>2 DEF l
  <2> HIDE DEF t
  <2> QED BY <1>3, <2>2
<1>6. \A k \in 1 .. Len(t) : k \in 1 .. Len(list) \/ k = Len(list) + 1
  BY <1>1, <1>5
<1> HIDE DEF t
<1>7. ASSUME NEW k \in 1 .. Len(t)
      PROVE  /\ t[k].at \in Paths /\ Form(v, t[k]) /\ Expansion(v, t[k]) = << >>
             /\ ~Counted(v, t[k]) /\ ~StructForm(t[k]) /\ ~LengthForm(v, t[k])
             /\ LiteralForm(t[k]) \/ NumberForm(v, t[k]) \/ TextForm(v, t[k]) \/ LeaveForm(t[k])
  <2>1. CASE k \in 1 .. Len(list)
    <3>1. \/ LiteralForm(t[k]) \/ NumberForm(v, t[k])
          \/ TextForm(v, t[k]) /\ IsStatic(t[k].elem)
      BY <2>1 DEF IsFlat, t
    <3>2. t[k].at \in Paths
      <4>1. t[k].at = << >>
        BY <1>3, <1>5, <2>1
      <4>2. << >> \in Paths
        BY DEF Paths
      <4> QED BY <4>1, <4>2
    <3> QED BY <3>1, <3>2, LiteralFacts, NumberFacts, TextFacts DEF Form, Counted
  <2>2. CASE k = Len(list) + 1
    <3>1. /\ t[k].at = << >> /\ t[k].elem.kind = "leave" /\ t[k].elem.mode = FALSE
      BY <1>5, <2>2 DEF LeaveStatement
    <3>2. LeaveForm(t[k]) /\ ~LoopForm(t[k])
      BY <3>1 DEF LeaveForm, LoopForm
    <3>3. << >> \in Paths
      BY DEF Paths
    <3> QED BY <3>1, <3>2, <3>3, LoopFacts DEF Form
  <2> QED BY <1>6, <2>1, <2>2
<1>8. \A s \in W : \E k \in 1 .. Len(t) : s = t[k]
  BY DEF Listed, t
<1>9. \A k \in 1 .. Len(t) : t[k] \in W
  BY DEF Listed, t
<1> HIDE DEF W
<1>10. Program(v, W)
  <2> SUFFICES ASSUME NEW s \in W
               PROVE  /\ s.at \in Paths /\ Form(v, s) /\ Expansion(v, s) = << >>
                      /\ ~StructForm(s) /\ ~LengthForm(v, s)
    <3>1. Len(<< >>) = 0 /\ CountsFirst(v, << >>)
      BY DEF CountsFirst
    <3> QED BY <3>1 DEF Program
  <2> QED BY <1>7, <1>8
<1>11. CountsFirst(v, t)
  BY <1>7 DEF CountsFirst
<1>12. ASSUME NEW q \in Cells(v)
       PROVE  \E k \in 1 .. Len(t) : LeadsTo(v, t[k], q)
  <2>1. PICK k \in 1 .. Len(list) : q \in Fills(v, t[k])
    BY DEF IsFlat, t
  <2>2. k \in 1 .. Len(t)
    BY <1>1, <1>5
  <2>3. LeadsTo(v, t[k], q)
    <3>1. /\ t[k] \in {t[k]}
          /\ \A u \in {t[k]} : q \in Fills(v, u)
      BY <2>1
    <3> QED BY Zenon, <3>1 DEF LeadsTo
  <2> QED BY <2>2, <2>3
<1>13. \A s \in W : /\ Expansion(v, s) = << >> /\ ~StructForm(s) /\ ~LengthForm(v, s)
                    /\ LiteralForm(s) \/ NumberForm(v, s) \/ TextForm(v, s) \/ LeaveForm(s)
  BY <1>7, <1>8
<1> QED BY <1>9, <1>10, <1>11, <1>12, <1>13 DEF Fits, t, W

LEMMA FlatIsPlain ==
    ASSUME NEW v, NEW type, IsFlat(v, type)
    PROVE  \E W : Fits(v, type, W)
BY FlatFits

\* If no field is there twice with different lengths they can be sent once more.
LEMMA FlatRepeats ==
    ASSUME NEW v, NEW type, IsFlat(v, type),
           \A s, u \in Listed(type) :
               TextForm(v, s) /\ TextForm(v, u) /\ Place(s) = Place(u) =>
                   TextLength(v, s) = TextLength(v, u)
    PROVE  \E W : Repeats(v, type, W)
<1> DEFINE W == Listed(type)
<1>1. /\ Fits(v, type, W)
      /\ \A s \in W : /\ Expansion(v, s) = << >> /\ ~StructForm(s) /\ ~LengthForm(v, s)
                      /\ LiteralForm(s) \/ NumberForm(v, s) \/ TextForm(v, s) \/ LeaveForm(s)
  BY FlatFits
<1>2. \A s \in W : s \in Listed(type) /\ \E k \in 1 .. Len(Start(type)) : s = Start(type)[k]
  BY DEF Listed
<1> HIDE DEF W
<1>3. ASSUME NEW s \in W, NEW q \in Fills(v, s)
      PROVE  q = Place(s) /\ (NumberForm(v, s) \/ TextForm(v, s)) /\ LeadsTo(v, s, q)
  <2>1. LeaveForm(s) => Fills(v, s) = {}
    BY LoopFacts
  <2>2. q = Place(s) /\ (NumberForm(v, s) \/ TextForm(v, s))
    BY <1>1, <1>3, <2>1, LiteralFacts, NumberFacts, TextFacts
  <2>3. s \in {s} /\ \A u \in {s} : q \in Fills(v, u)
    BY <1>3
  <2> QED BY Zenon, <2>2, <2>3 DEF LeadsTo
<1>4. ASSUME NEW s \in W, NEW u \in W, NEW q \in Fills(v, s), q \in Fills(v, u)
      PROVE  Content(v, u, q) = Content(v, s, q)
  <2>1. Place(s) = q /\ Place(u) = q
    BY <1>3, <1>4
  <2>2. CASE NumberForm(v, s)
    <3>1. NumberForm(v, u) /\ ~TextForm(v, u) /\ ~TextForm(v, s)
      BY <1>3, <1>4, <2>1, <2>2 DEF NumberForm, TextForm
    <3> QED BY <2>2, <3>1 DEF Content
  <2>3. CASE TextForm(v, s)
    <3>1. TextForm(v, u)
      BY <1>3, <1>4, <2>1, <2>3 DEF NumberForm, TextForm
    <3>2. TextLength(v, s) = TextLength(v, u)
      BY <1>2, <2>1, <2>3, <3>1
    <3>3. TextIn(v, s) = TextIn(v, u)
      BY <2>1, <3>2 DEF TextIn
    <3> QED BY <2>3, <3>1, <3>3 DEF Content
  <2> QED BY <1>3, <2>2, <2>3
<1>5. ASSUME NEW s \in W, NEW q \in Fills(v, s) PROVE Led(v, Start(type), q)
  BY <1>2, <1>3 DEF Led
<1> QED BY <1>1, <1>4, <1>5 DEF Repeats
-----------------------------------------------------------------------------
(* Sums.  SumOf folds over the subsets of a sequence's domain; what it gives*)
(* for a sequence of naturals is the number of elements of a set of pairs.  *)

\* A set of naturals that has 0, and with each number the next, has them all.
LEMMA Counting ==
    ASSUME NEW T, 0 \in T, \A n \in Nat : n \in T => n + 1 \in T
    PROVE  Nat \subseteq T
<1> SUFFICES ASSUME NEW n \in Nat, n \notin T PROVE FALSE
  OBVIOUS
<1> DEFINE U == {k \in 0 .. n : k \notin T}
<1>1. U \in SUBSET Int /\ U # {}
  OBVIOUS
<1>2. \A k \in U : 0 <= k
  OBVIOUS
<1> DEFINE Segments == {0 .. k : k \in U}
<1>3. IsWellFoundedOn(StrictSubsetOrdering(Nat), FiniteSubsetsOf(Nat))
  BY FS_StrictSubsetOrderingWellFounded
<1>4. Segments \subseteq FiniteSubsetsOf(Nat) /\ Segments # {}
  <2> SUFFICES ASSUME NEW k \in U PROVE 0 .. k \in FiniteSubsetsOf(Nat)
    BY <1>1
  <2>1. IsFiniteSet(0 .. k)
    BY FS_Interval
  <2> QED BY <2>1 DEF FiniteSubsetsOf
<1>5. PICK s \in Segments : \A t \in Segments : ~ (<<t, s>> \in StrictSubsetOrdering(Nat))
  <2> HIDE DEF Segments
  <2> QED BY <1>3, <1>4, WFMin
<1>6. PICK x \in U : s = 0 .. x
  OBVIOUS
<1>7. x # 0 /\ x - 1 \in Nat /\ (x - 1) + 1 = x
  OBVIOUS
<1>8. x - 1 \notin U
  <2> SUFFICES ASSUME x - 1 \in U PROVE FALSE
    OBVIOUS
  <2>1. 0 .. x - 1 \in Segments
    OBVIOUS
  <2>2. 0 .. x - 1 \subseteq 0 .. x /\ x \in 0 .. x /\ x \notin 0 .. x - 1
    BY <1>7
  <2>3. <<0 .. x - 1, s>> \in StrictSubsetOrdering(Nat)
    BY <1>6, <2>2 DEF StrictSubsetOrdering
  <2> QED BY Zenon, <1>5, <2>1, <2>3
<1> QED BY <1>7, <1>8

\* f is the recursive function behind the sum of s.
IsSum(s, f) ==
    f = [S \in SUBSET DOMAIN s |->
            IF S = {} THEN 0 ELSE f[S \ {Seqs!Max(S)}] + s[Seqs!Max(S)]]

LEMMA SumUnfold ==
    ASSUME NEW s
    PROVE  SumOf(s) = (CHOOSE f : IsSum(s, f))[DOMAIN s]
BY DEF SumOf, Seqs!FoldLeft, Seqs!MapThenFoldSet, IsSum

Pairs(s, S) == UNION {{k} \X (1 .. s[k]) : k \in S}

\* Only a finite S needs to be looked at: it grows by one element at a time.
LEMMA PairsAdd ==
    ASSUME NEW s, NEW S, NEW x, x \notin S, s[x] \in Nat,
           IsFiniteSet(Pairs(s, S))
    PROVE  /\ IsFiniteSet(Pairs(s, S \cup {x}))
           /\ Cardinality(Pairs(s, S \cup {x})) = Cardinality(Pairs(s, S)) + s[x]
<1> DEFINE A == {x} \X (1 .. s[x])
           P == Pairs(s, S)
<1>1. Pairs(s, S \cup {x}) = P \cup A
  BY DEF Pairs
<1>2. P \cap A = {}
  BY DEF Pairs
<1>3. IsFiniteSet({x}) /\ Cardinality({x}) = 1
  BY Zenon, FS_Singleton
<1>4. IsFiniteSet(1 .. s[x]) /\ Cardinality(1 .. s[x]) = s[x]
  <2>1. IsFiniteSet(1 .. s[x]) /\ Cardinality(1 .. s[x]) = IF 1 > s[x] THEN 0 ELSE s[x] - 1 + 1
    BY FS_Interval
  <2> QED BY <2>1
<1>5. IsFiniteSet(A) /\ Cardinality(A) = Cardinality({x}) * Cardinality(1 .. s[x])
  BY Zenon, <1>3, <1>4, FS_Product
<1>6. Cardinality(A) = s[x]
  BY <1>3, <1>4, <1>5
<1> HIDE DEF A, P
<1>7. IsFiniteSet(P)
  BY DEF P
<1>8. /\ IsFiniteSet(P \cup A)
      /\ Cardinality(P \cup A) = Cardinality(P) + Cardinality(A) - Cardinality(P \cap A)
  BY <1>5, <1>7, FS_Union
<1>9. Cardinality(P \cap A) = 0
  BY <1>2, FS_EmptySet
<1>10. Cardinality(P) \in Nat
  BY <1>7, FS_CardinalityType
<1>11. IsFiniteSet(P \cup A) /\ Cardinality(P \cup A) = Cardinality(P) + s[x]
  BY <1>6, <1>8, <1>9, <1>10
<1> QED BY Zenon, <1>1, <1>11 DEF P

LEMMA NoPairs == \A s : IsFiniteSet(Pairs(s, {})) /\ Cardinality(Pairs(s, {})) = 0
<1>1. \A s : Pairs(s, {}) = {}
  BY DEF Pairs
<1> QED BY <1>1, FS_EmptySet

LEMMA PairsFinite ==
    ASSUME NEW s, NEW n \in Nat, \A k \in 1 .. n : s[k] \in Nat,
           NEW S \in SUBSET (1 .. n)
    PROVE  IsFiniteSet(Pairs(s, S)) /\ Cardinality(Pairs(s, S)) \in Nat
<1> DEFINE T == {m \in Nat : m <= n => IsFiniteSet(Pairs(s, S \cap (1 .. m)))}
<1>1. 0 \in T
  <2>1. S \cap (1 .. 0) = {}
    OBVIOUS
  <2> QED BY <2>1, NoPairs
<1>2. ASSUME NEW m \in Nat, m \in T PROVE m + 1 \in T
  <2> SUFFICES ASSUME m + 1 <= n PROVE IsFiniteSet(Pairs(s, S \cap (1 .. m + 1)))
    OBVIOUS
  <2>1. IsFiniteSet(Pairs(s, S \cap (1 .. m)))
    BY <1>2
  <2>2. CASE m + 1 \in S
    <3>1. S \cap (1 .. m + 1) = (S \cap (1 .. m)) \cup {m + 1}
      BY <2>2
    <3>2. m + 1 \notin S \cap (1 .. m) /\ s[m + 1] \in Nat
      OBVIOUS
    <3> DEFINE R == S \cap (1 .. m)
    <3> HIDE DEF R
    <3>3. IsFiniteSet(Pairs(s, R)) /\ m + 1 \notin R
      BY <2>1, <3>2 DEF R
    <3>4. IsFiniteSet(Pairs(s, R \cup {m + 1}))
      BY <3>2, <3>3, PairsAdd
    <3> QED BY <3>1, <3>4 DEF R
  <2>3. CASE m + 1 \notin S
    <3>1. S \cap (1 .. m + 1) = S \cap (1 .. m)
      BY <2>3
    <3> QED BY <2>1, <3>1
  <2> QED BY <2>2, <2>3
<1>3. n \in T
  <2> HIDE DEF T
  <2> QED BY <1>1, <1>2, Counting
<1>4. S \cap (1 .. n) = S
  BY Zenon
<1>5. IsFiniteSet(Pairs(s, S))
  BY <1>3, <1>4
<1> QED BY <1>5, FS_CardinalityType

LEMMA MaxFacts ==
    ASSUME NEW n \in Nat, NEW S \in SUBSET (1 .. n), S # {}
    PROVE  Seqs!Max(S) \in S /\ \A k \in S : k <= Seqs!Max(S)
<1> DEFINE T == {m \in Nat : m <= n => S \cap (1 .. m) = {}
                                       \/ \E x \in S \cap (1 .. m) : \A k \in S \cap (1 .. m) : k <= x}
<1>1. 0 \in T
  OBVIOUS
<1>2. ASSUME NEW m \in Nat, m \in T PROVE m + 1 \in T
  <2>1. CASE m + 1 \in S
    BY <2>1
  <2>2. CASE m + 1 \notin S
    <3>1. S \cap (1 .. m + 1) = S \cap (1 .. m)
      BY <2>2
    <3> QED BY <1>2, <3>1
  <2> QED BY <2>1, <2>2
<1>3. n \in T
  <2> HIDE DEF T
  <2> QED BY <1>1, <1>2, Counting
<1>4. S \cap (1 .. n) = S
  BY Zenon
<1>5. \E x \in S : \A k \in S : k <= x
  BY <1>3, <1>4
<1>6. \E x \in S : \A k \in S : x >= k
  BY <1>5
<1> QED BY Zenon, <1>6 DEF Seqs!Max

LEMMA SumIs ==
    ASSUME NEW s, NEW n \in Nat, DOMAIN s = 1 .. n, \A k \in 1 .. n : s[k] \in Nat
    PROVE  \E f : IsSum(s, f)
<1> DEFINE f == [S \in SUBSET DOMAIN s |-> Cardinality(Pairs(s, S))]
<1>1. ASSUME NEW S \in SUBSET DOMAIN s
      PROVE  f[S] = IF S = {} THEN 0 ELSE f[S \ {Seqs!Max(S)}] + s[Seqs!Max(S)]
  <2>1. CASE S = {}
    BY <2>1, NoPairs
  <2>2. CASE S # {}
    <3> DEFINE x == Seqs!Max(S)
               r == S \ {x}
    <3>1. x \in S
      BY Zenon, <2>2, MaxFacts
    <3>2. r \in SUBSET DOMAIN s /\ x \notin r /\ r \cup {x} = S /\ s[x] \in Nat
      BY <3>1
    <3> HIDE DEF x, r
    <3>3. IsFiniteSet(Pairs(s, r))
      BY Zenon, <3>2, PairsFinite
    <3>4. Cardinality(Pairs(s, S)) = Cardinality(Pairs(s, r)) + s[x]
      BY <3>2, <3>3, PairsAdd
    <3>5. f[S] = Cardinality(Pairs(s, S)) /\ f[r] = Cardinality(Pairs(s, r))
      BY <3>2
    <3> QED BY <2>2, <3>4, <3>5 DEF x, r
  <2> QED BY <2>1, <2>2
<1>2. f = [S \in SUBSET DOMAIN s |-> f[S]]
  BY Zenon
<1> HIDE DEF f
<1>3. IsSum(s, f)
  BY Zenon, <1>1, <1>2 DEF IsSum
<1> QED BY <1>3

\* The sum of the first m of them.
Partial(s, m) == Cardinality(Pairs(s, 1 .. m))

LEMMA PartialGrows ==
    ASSUME NEW s, NEW n \in Nat, \A k \in 1 .. n : s[k] \in Nat, NEW m \in Nat, m < n
    PROVE  /\ Partial(s, 0) = 0 /\ Partial(s, m) \in Nat
           /\ Partial(s, m + 1) = Partial(s, m) + s[m + 1]
<1>1. 1 .. 0 = {}
  OBVIOUS
<1>2. 1 .. m \in SUBSET (1 .. n) /\ m + 1 \notin 1 .. m /\ (1 .. m) \cup {m + 1} = 1 .. m + 1
  OBVIOUS
<1>3. s[m + 1] \in Nat
  OBVIOUS
<1>4. IsFiniteSet(Pairs(s, 1 .. m)) /\ Partial(s, m) \in Nat
  BY Zenon, <1>2, PairsFinite DEF Partial
<1> DEFINE R == 1 .. m
<1> HIDE DEF R
<1>5. Cardinality(Pairs(s, R \cup {m + 1})) = Cardinality(Pairs(s, R)) + s[m + 1]
  BY Zenon, <1>2, <1>3, <1>4, PairsAdd DEF R
<1> QED BY Zenon, <1>1, <1>2, <1>4, <1>5, NoPairs DEF R, Partial

LEMMA SumIsPartial ==
    ASSUME NEW s, NEW n \in Nat, DOMAIN s = 1 .. n, \A k \in 1 .. n : s[k] \in Nat
    PROVE  SumOf(s) = Partial(s, n)
<1> DEFINE f == CHOOSE g : IsSum(s, g)
           T == {m \in Nat : m <= n => f[1 .. m] = Partial(s, m)}
<1>1. IsSum(s, f)
  BY SumIs
<1>2. SumOf(s) = f[1 .. n]
  BY SumUnfold
<1> HIDE DEF f
<1>3. \A S \in SUBSET (1 .. n) :
          f[S] = IF S = {} THEN 0 ELSE f[S \ {Seqs!Max(S)}] + s[Seqs!Max(S)]
  <2> SUFFICES ASSUME NEW S \in SUBSET (1 .. n)
               PROVE  f[S] = IF S = {} THEN 0 ELSE f[S \ {Seqs!Max(S)}] + s[Seqs!Max(S)]
    BY Zenon
  <2> QED BY <1>1, Zenon DEF IsSum
<1>4. 0 \in T
  <2>1. 1 .. 0 = {} /\ {} \in SUBSET (1 .. n)
    OBVIOUS
  <2>2. f[{}] = 0
    BY Zenon, <1>3, <2>1
  <2> QED BY <2>1, <2>2, NoPairs DEF Partial
<1>5. ASSUME NEW m \in Nat, m \in T PROVE m + 1 \in T
  <2> SUFFICES ASSUME m + 1 <= n PROVE f[1 .. m + 1] = Partial(s, m + 1)
    OBVIOUS
  <2> DEFINE S == 1 .. m + 1
  <2>1. S \in SUBSET (1 .. n) /\ S # {} /\ m + 1 \in S /\ S \ {m + 1} = 1 .. m
    <3>1. S \in SUBSET (1 .. n) /\ m + 1 \in S
      OBVIOUS
    <3>2. S \ {m + 1} = 1 .. m
      OBVIOUS
    <3> QED BY Zenon, <3>1, <3>2
  <2>2. \A k \in S : k <= m + 1
    OBVIOUS
  <2> HIDE DEF S
  <2>3. Seqs!Max(S) \in S /\ \A k \in S : k <= Seqs!Max(S)
    BY Zenon, <2>1, MaxFacts
  <2>4. Seqs!Max(S) = m + 1
    BY <2>1, <2>2, <2>3
  <2>5. f[S] = f[1 .. m] + s[m + 1]
    BY Zenon, <1>3, <2>1, <2>4
  <2>6. f[1 .. m] = Partial(s, m)
    BY <1>5
  <2>7. Partial(s, m + 1) = Partial(s, m) + s[m + 1]
    <3>1. m < n
      OBVIOUS
    <3>2. \A k \in 1 .. n : s[k] \in Nat
      OBVIOUS
    <3> QED BY Zenon, <3>1, <3>2, PartialGrows
  <2> QED BY <2>5, <2>6, <2>7 DEF S
<1>6. n \in T
  <2> HIDE DEF T
  <2> QED BY Zenon, <1>4, <1>5, Counting
<1> QED BY <1>2, <1>6

LEMMA SumIsNat ==
    ASSUME NEW s, NEW n \in Nat, DOMAIN s = 1 .. n, \A k \in 1 .. n : s[k] \in Nat
    PROVE  SumOf(s) \in Nat
<1>1. 1 .. n \in SUBSET (1 .. n)
  OBVIOUS
<1> QED BY Zenon, <1>1, SumIsPartial, PairsFinite DEF Partial

LEMMA SumOfNone == SumOf(<< >>) = 0
<1>1. DOMAIN << >> = 1 .. 0 /\ \A k \in 1 .. 0 : << >>[k] \in Nat
  OBVIOUS
<1>2. SumOf(<< >>) = Partial(<< >>, 0)
  BY <1>1, SumIsPartial
<1>3. 1 .. 0 = {}
  OBVIOUS
<1> QED BY <1>2, <1>3, NoPairs DEF Partial

Joined(a, b, c, n, m) ==
    /\ n \in Nat /\ m \in Nat
    /\ DOMAIN a = 1 .. n /\ DOMAIN b = 1 .. m /\ DOMAIN c = 1 .. n + m
    /\ \A k \in 1 .. n : a[k] \in Nat /\ c[k] = a[k]
    /\ \A k \in 1 .. m : b[k] \in Nat /\ c[n + k] = b[k]

LEMMA SumOfJoined ==
    ASSUME NEW a, NEW b, NEW c, NEW n, NEW m, Joined(a, b, c, n, m)
    PROVE  SumOf(c) = SumOf(a) + SumOf(b)
<1>0. /\ n \in Nat /\ m \in Nat
      /\ DOMAIN a = 1 .. n /\ DOMAIN b = 1 .. m /\ DOMAIN c = 1 .. n + m
      /\ \A k \in 1 .. n : a[k] \in Nat /\ c[k] = a[k]
      /\ \A k \in 1 .. m : b[k] \in Nat /\ c[n + k] = b[k]
  BY DEF Joined
<1> USE <1>0
<1>1. \A k \in 1 .. n + m : c[k] \in Nat
  <2> SUFFICES ASSUME NEW k \in 1 .. n + m, ~(k <= n) PROVE c[k] \in Nat
    OBVIOUS
  <2>1. k - n \in 1 .. m /\ n + (k - n) = k
    OBVIOUS
  <2> QED BY Zenon, <2>1
<1>2. Partial(c, n) = Partial(a, n)
  <2>1. Pairs(c, 1 .. n) = Pairs(a, 1 .. n)
    BY Zenon DEF Pairs
  <2> QED BY <2>1 DEF Partial
<1>3. n + m \in Nat /\ Partial(a, n) \in Nat
  <2>1. 1 .. n \in SUBSET (1 .. n) /\ \A k \in 1 .. n : a[k] \in Nat
    OBVIOUS
  <2>2. IsFiniteSet(Pairs(a, 1 .. n)) /\ Cardinality(Pairs(a, 1 .. n)) \in Nat
    BY Zenon, <2>1, PairsFinite
  <2> QED BY <2>2 DEF Partial
<1>9. \A k \in 1 .. m : b[k] \in Nat
  OBVIOUS
<1> DEFINE T == {k \in Nat : k <= m => Partial(c, n + k) = Partial(a, n) + Partial(b, k)}
<1>4. 0 \in T
  <2>1. Partial(b, 0) = 0 /\ n + 0 = n
    <3>1. 1 .. 0 = {}
      OBVIOUS
    <3> QED BY <3>1, NoPairs DEF Partial
  <2> QED BY <1>2, <1>3, <2>1
<1>5. ASSUME NEW k \in Nat, k \in T PROVE k + 1 \in T
  <2> SUFFICES ASSUME k + 1 <= m PROVE Partial(c, n + (k + 1)) = Partial(a, n) + Partial(b, k + 1)
    OBVIOUS
  <2>1. Partial(b, k + 1) = Partial(b, k) + b[k + 1] /\ Partial(b, k) \in Nat
    <3>1. k < m
      OBVIOUS
    <3> QED BY Zenon, <1>9, <3>1, PartialGrows
  <2>2. n + k \in Nat /\ n + k < n + m /\ n + m \in Nat
    OBVIOUS
  <2>3. Partial(c, n + k + 1) = Partial(c, n + k) + c[n + k + 1] /\ Partial(c, n + k) \in Nat
    BY Zenon, <1>1, <2>2, PartialGrows
  <2>4. c[n + k + 1] = b[k + 1] /\ b[k + 1] \in Nat /\ n + (k + 1) = n + k + 1
    OBVIOUS
  <2>5. Partial(c, n + k) = Partial(a, n) + Partial(b, k)
    BY <1>5
  <2> QED BY <1>3, <2>1, <2>3, <2>4, <2>5
<1>6. m \in T
  <2> HIDE DEF T
  <2> QED BY Zenon, <1>4, <1>5, Counting
<1>7. SumOf(a) = Partial(a, n) /\ SumOf(b) = Partial(b, m)
  BY SumIsPartial
<1>8. SumOf(c) = Partial(c, n + m)
  BY <1>1, <1>3, SumIsPartial
<1> QED BY <1>6, <1>7, <1>8

LEMMA SumOfSums ==
    ASSUME NEW a, NEW b, NEW c, NEW n \in Nat,
           DOMAIN a = 1 .. n, DOMAIN b = 1 .. n, DOMAIN c = 1 .. n,
           \A k \in 1 .. n : a[k] \in Nat /\ b[k] \in Nat /\ c[k] = a[k] + b[k]
    PROVE  SumOf(c) = SumOf(a) + SumOf(b)
<1>1. \A k \in 1 .. n : c[k] \in Nat
  OBVIOUS
<1>5. (\A k \in 1 .. n : a[k] \in Nat) /\ (\A k \in 1 .. n : b[k] \in Nat)
  OBVIOUS
<1> DEFINE T == {k \in Nat : k <= n => Partial(c, k) = Partial(a, k) + Partial(b, k)}
<1>2. 0 \in T
  <2>1. 1 .. 0 = {}
    OBVIOUS
  <2>2. Partial(a, 0) = 0 /\ Partial(b, 0) = 0 /\ Partial(c, 0) = 0
    BY <2>1, NoPairs DEF Partial
  <2> QED BY <2>2
<1>3. ASSUME NEW k \in Nat, k \in T PROVE k + 1 \in T
  <2> SUFFICES ASSUME k + 1 <= n PROVE Partial(c, k + 1) = Partial(a, k + 1) + Partial(b, k + 1)
    OBVIOUS
  <2>5. k < n
    OBVIOUS
  <2>1. Partial(a, k + 1) = Partial(a, k) + a[k + 1] /\ Partial(a, k) \in Nat
    BY Zenon, <1>5, <2>5, PartialGrows
  <2>2. Partial(b, k + 1) = Partial(b, k) + b[k + 1] /\ Partial(b, k) \in Nat
    BY Zenon, <1>5, <2>5, PartialGrows
  <2>3. Partial(c, k + 1) = Partial(c, k) + c[k + 1] /\ Partial(c, k) \in Nat
    BY Zenon, <1>1, <2>5, PartialGrows
  <2>4. /\ a[k + 1] \in Nat /\ b[k + 1] \in Nat /\ c[k + 1] = a[k + 1] + b[k + 1]
        /\ Partial(c, k) = Partial(a, k) + Partial(b, k)
    BY <1>3
  <2> QED BY <2>1, <2>2, <2>3, <2>4
<1>4. n \in T
  <2> HIDE DEF T
  <2> QED BY Zenon, <1>2, <1>3, Counting
<1>6. SumOf(a) = Partial(a, n) /\ SumOf(b) = Partial(b, n) /\ SumOf(c) = Partial(c, n)
  BY <1>1, <1>5, SumIsPartial
<1> QED BY <1>4, <1>6

LEMMA SumOfEquals ==
    ASSUME NEW a, NEW n \in Nat, NEW x \in Nat, DOMAIN a = 1 .. n, \A k \in 1 .. n : a[k] = x
    PROVE  SumOf(a) = n * x
<1>1. \A k \in 1 .. n : a[k] \in Nat
  OBVIOUS
<1> DEFINE T == {k \in Nat : k <= n => Partial(a, k) = k * x}
<1>2. 0 \in T
  <2>1. 1 .. 0 = {}
    OBVIOUS
  <2>2. Partial(a, 0) = 0
    BY <2>1, NoPairs DEF Partial
  <2> QED BY <2>2
<1>3. ASSUME NEW k \in Nat, k \in T PROVE k + 1 \in T
  <2> SUFFICES ASSUME k + 1 <= n PROVE Partial(a, k + 1) = (k + 1) * x
    OBVIOUS
  <2>1. Partial(a, k + 1) = Partial(a, k) + x
    BY <1>1, PartialGrows
  <2>2. Partial(a, k) = k * x
    BY <1>3
  <2>3. (k + 1) * x = k * x + x
    OBVIOUS
  <2> QED BY <2>1, <2>2, <2>3
<1>4. n \in T
  <2> HIDE DEF T
  <2> QED BY <1>2, <1>3, Counting
<1> QED BY <1>1, <1>4, SumIsPartial

-----------------------------------------------------------------------------
(* Sizes and what is freed are defined by recursion on the definition.  That*)
(* the equations hold needs a definition that does not nest for ever.       *)

\* No list of elements is nested in itself.
Deeper(depth) ==
    \A list \in ElementLists : \A k \in 1 .. Len(list) :
        LET e == list[k]
        IN  /\ e.kind = "chunked" => depth[e.elements] < depth[list]
            /\ e.kind = "switch" => \A c \in 1 .. Len(e.cases) :
                                        depth[e.cases[c].elements] < depth[list]
            /\ e.kind \in {"field", "array"} /\ IsStruct(e.type) =>
                   depth[Structs[e.type]] < depth[list]

\* The nesting of the definition comes to an end.
WellNested == \E n \in Nat : \E depth \in [ElementLists -> 0 .. n] : Deeper(depth)

PreBody(f, list) == SumOf([k \in 1 .. Len(list) |-> PrecomputedElementSize(f, list[k])])

LEMMA PreAgree ==
    ASSUME NEW depth, Deeper(depth), NEW f, NEW g, NEW list \in ElementLists,
           \A l \in ElementLists : depth[l] < depth[list] => f[l] = g[l]
    PROVE  PreBody(f, list) = PreBody(g, list)
<1>1. ASSUME NEW k \in 1 .. Len(list)
      PROVE  PrecomputedElementSize(f, list[k]) = PrecomputedElementSize(g, list[k])
  <2> DEFINE e == list[k]
  <2>1. e.kind \in Kinds /\ (e.kind = "chunked" => f[e.elements] = g[e.elements])
    BY Zenon, ListsAssumption DEF Deeper
  <2> HIDE DEF e
  <2>2. CASE e.kind = "chunked"
    BY <2>1, <2>2 DEF PrecomputedElementSize, e
  <2>3. CASE e.kind \in {"break", "dummy", "length", "switch"}
    BY <2>3 DEF PrecomputedElementSize, e
  <2>4. CASE e.kind = "field"
    BY <2>4 DEF PrecomputedElementSize, e
  <2>5. CASE e.kind = "array"
    BY <2>5 DEF PrecomputedElementSize, e
  <2> QED BY <2>1, <2>2, <2>3, <2>4, <2>5 DEF Kinds
<1> QED BY <1>1 DEF PreBody

LEMMA PreExists ==
    ASSUME NEW n \in Nat, NEW depth \in [ElementLists -> 0 .. n], Deeper(depth)
    PROVE  \E f : f = [list \in ElementLists |-> PreBody(f, list)]
<1> DEFINE Solves(f, m) == /\ f = [list \in ElementLists |-> f[list]]
                           /\ \A list \in ElementLists :
                                 depth[list] < m => f[list] = PreBody(f, list)
           T == {m \in Nat : \E f : Solves(f, m)}
<1>1. 0 \in T
  <2> DEFINE f == [list \in ElementLists |-> 0]
  <2>1. f = [list \in ElementLists |-> f[list]]
    OBVIOUS
  <2>2. \A list \in ElementLists : ~(depth[list] < 0)
    OBVIOUS
  <2> HIDE DEF f
  <2> QED BY <2>1, <2>2
<1>2. ASSUME NEW m \in Nat, m \in T PROVE m + 1 \in T
  <2>1. PICK f : Solves(f, m)
    BY <1>2
  <2> DEFINE g == [list \in ElementLists |-> IF depth[list] = m THEN PreBody(f, list) ELSE f[list]]
  <2>2. g = [list \in ElementLists |-> g[list]]
    OBVIOUS
  <2>3. \A list \in ElementLists :
           g[list] = IF depth[list] = m THEN PreBody(f, list) ELSE f[list]
    OBVIOUS
  <2> HIDE DEF g
  <2>4. ASSUME NEW list \in ElementLists, depth[list] < m + 1 PROVE g[list] = PreBody(g, list)
    <3>1. \A l \in ElementLists : depth[l] < depth[list] => f[l] = g[l]
      BY <2>3, <2>4
    <3>2. PreBody(f, list) = PreBody(g, list)
      BY <3>1, PreAgree
    <3>3. depth[list] = m \/ depth[list] < m
      BY <2>4
    <3> QED BY <2>1, <2>3, <3>2, <3>3
  <2>5. Solves(g, m + 1)
    BY <2>2, <2>4
  <2> QED BY <2>5
<1>3. n + 1 \in T
  <2> HIDE DEF T
  <2> QED BY <1>1, <1>2, Counting
<1>4. PICK f : Solves(f, n + 1)
  BY <1>3
<1>5. \A list \in ElementLists : f[list] = PreBody(f, list)
  BY <1>4
<1>6. f = [list \in ElementLists |-> PreBody(f, list)]
  BY <1>4, <1>5
<1> QED BY <1>6

LEMMA PrecomputedDef ==
    ASSUME WellNested
    PROVE  \A list \in ElementLists : PrecomputedSize[list] = PreBody(PrecomputedSize, list)
<1>1. \E f : f = [list \in ElementLists |-> PreBody(f, list)]
  BY PreExists DEF WellNested
<1>2. PrecomputedSize = CHOOSE f : f = [list \in ElementLists |-> PreBody(f, list)]
  BY DEF PrecomputedSize, PreBody
<1>3. PrecomputedSize = [list \in ElementLists |-> PreBody(PrecomputedSize, list)]
  BY <1>1, <1>2
<1> HIDE DEF PrecomputedSize
<1> QED BY <1>3

LEMMA ChosenIsAmong ==
    ASSUME NEW e, NEW some, NEW value, ChosenAmong(e, some, value) # None
    PROVE  \E c \in some : ChosenAmong(e, some, value) = e.cases[c]
<1> DEFINE generated == {c \in some : e.cases[c].elements # << >>}
           matching  == {c \in generated : ~e.cases[c].default /\ e.cases[c].value = value}
           defaults  == {c \in generated : e.cases[c].default}
           m == CHOOSE c \in matching : TRUE
           d == CHOOSE c \in defaults : TRUE
<1>1. ChosenAmong(e, some, value) = IF matching # {} THEN e.cases[m]
                                    ELSE IF defaults # {} THEN e.cases[d] ELSE None
  BY DEF ChosenAmong
<1>2. /\ matching # {} => m \in some
      /\ defaults # {} => d \in some
  OBVIOUS
<1> HIDE DEF matching, defaults, m, d
<1> QED BY <1>1, <1>2

LEMMA ChosenIsCase ==
    ASSUME NEW e, NEW value, ChosenCase(e, value) # None
    PROVE  \E c \in 1 .. Len(e.cases) : ChosenCase(e, value) = e.cases[c]
BY ChosenIsAmong DEF ChosenCase

\* An element of a list, and what lies within it: the lists nested in it are less deep.
LEMMA NestedLess ==
    ASSUME NEW depth, Deeper(depth), NEW list \in ElementLists, NEW k \in 1 .. Len(list)
    PROVE  LET e == list[k]
           IN  /\ e.kind \in Kinds
               /\ e.kind = "chunked" => /\ e.elements \in ElementLists
                                        /\ depth[e.elements] < depth[list]
               /\ e.kind = "switch" =>
                      \A value : LET c == ChosenCase(e, value)
                                 IN  c # None => /\ c.elements \in ElementLists
                                                 /\ depth[c.elements] < depth[list]
               /\ e.kind \in {"field", "array"} /\ IsStruct(e.type) =>
                      /\ Structs[e.type] \in ElementLists
                      /\ depth[Structs[e.type]] < depth[list]
<1> DEFINE e == list[k]
<1>1. /\ e.kind \in Kinds
      /\ e.kind = "chunked" => e.elements \in ElementLists
      /\ e.kind = "switch" => \A c \in 1 .. Len(e.cases) : e.cases[c].elements \in ElementLists
  BY ListsAssumption
<1>2. /\ e.kind = "chunked" => depth[e.elements] < depth[list]
      /\ e.kind = "switch" => \A c \in 1 .. Len(e.cases) :
                                  depth[e.cases[c].elements] < depth[list]
      /\ e.kind \in {"field", "array"} /\ IsStruct(e.type) =>
             depth[Structs[e.type]] < depth[list]
  BY DEF Deeper
<1>3. IsStruct(e.type) => Structs[e.type] \in ElementLists
  BY ListsAssumption DEF IsStruct
<1> HIDE DEF e
<1>4. \A value : ChosenCase(e, value) # None =>
          \E c \in 1 .. Len(e.cases) : ChosenCase(e, value) = e.cases[c]
  BY ChosenIsCase
<1>5. e.kind = "switch" =>
         \A value : LET c == ChosenCase(e, value)
                    IN  c # None => c.elements \in ElementLists /\ depth[c.elements] < depth[list]
  BY <1>1, <1>2, <1>4
<1> QED BY <1>1, <1>2, <1>3, <1>5 DEF e

ExtraBody(f, list) ==
    [where \in Paths |-> SumOf([k \in 1 .. Len(list) |-> ElementSize(f, where, list[k])])]

LEMMA ElementAgree ==
    ASSUME NEW f, NEW g, NEW e, NEW where,
           e.kind = "chunked" => f[e.elements] = g[e.elements],
           e.kind = "switch" => \A value : ChosenCase(e, value) # None =>
               f[ChosenCase(e, value).elements] = g[ChosenCase(e, value).elements],
           e.kind \in {"field", "array"} /\ IsStruct(e.type) =>
               f[Structs[e.type]] = g[Structs[e.type]]
    PROVE  ElementSize(f, where, e) = ElementSize(g, where, e)
<1>1. CASE e.kind = "chunked"
  BY <1>1 DEF ElementSize
<1>2. CASE e.kind = "field"
  <2>1. FieldSize(f, Field(where, e.name), e) = FieldSize(g, Field(where, e.name), e)
    BY <1>2 DEF FieldSize, NestedSize
  <2> QED BY <1>2, <2>1 DEF ElementSize
<1>3. CASE e.kind = "array"
  <2>1. \A p : ItemSize(f, p, e) = ItemSize(g, p, e)
    BY <1>3 DEF ItemSize, NestedSize
  <2>2. ArraySize(f, where, e) = ArraySize(g, where, e)
    BY Zenon, <2>1 DEF ArraySize
  <2> QED BY <1>3, <2>2 DEF ElementSize
<1>4. CASE e.kind = "switch"
  <2> DEFINE c == ChosenCase(e, Cell(Field(where, e.field), 0))
  <2>1. c # None => CaseSize(f, where, e, c) = CaseSize(g, where, e, c)
    BY <1>4 DEF CaseSize
  <2>2. \A h : ElementSize(h, where, e) = IF c = None THEN 0 ELSE CaseSize(h, where, e, c)
    BY <1>4 DEF ElementSize
  <2> HIDE DEF c
  <2> QED BY <2>1, <2>2
<1>5. CASE e.kind \notin {"chunked", "field", "array", "switch"}
  BY <1>5 DEF ElementSize
<1> QED BY <1>1, <1>2, <1>3, <1>4, <1>5

LEMMA ExtraAgree ==
    ASSUME NEW depth, Deeper(depth), NEW f, NEW g, NEW list \in ElementLists,
           \A l \in ElementLists : depth[l] < depth[list] => f[l] = g[l]
    PROVE  ExtraBody(f, list) = ExtraBody(g, list)
<1>1. ASSUME NEW where, NEW k \in 1 .. Len(list)
      PROVE  ElementSize(f, where, list[k]) = ElementSize(g, where, list[k])
  <2> DEFINE e == list[k]
  <2>1. /\ e.kind = "chunked" => f[e.elements] = g[e.elements]
        /\ e.kind = "switch" => \A value : ChosenCase(e, value) # None =>
               f[ChosenCase(e, value).elements] = g[ChosenCase(e, value).elements]
        /\ e.kind \in {"field", "array"} /\ IsStruct(e.type) =>
               f[Structs[e.type]] = g[Structs[e.type]]
    BY NestedLess
  <2> HIDE DEF e
  <2>2. ElementSize(f, where, e) = ElementSize(g, where, e)
    BY <2>1, ElementAgree
  <2> QED BY <2>2 DEF e
<1> QED BY Zenon, <1>1 DEF ExtraBody

LEMMA ExtraExists ==
    ASSUME NEW n \in Nat, NEW depth \in [ElementLists -> 0 .. n], Deeper(depth)
    PROVE  \E f : f = [list \in ElementLists |-> ExtraBody(f, list)]
<1> DEFINE Solves(f, m) == /\ f = [list \in ElementLists |-> f[list]]
                           /\ \A list \in ElementLists :
                                 depth[list] < m => f[list] = ExtraBody(f, list)
           T == {m \in Nat : \E f : Solves(f, m)}
<1>1. 0 \in T
  <2> DEFINE f == [list \in ElementLists |-> 0]
  <2>1. f = [list \in ElementLists |-> f[list]]
    OBVIOUS
  <2>2. \A list \in ElementLists : ~(depth[list] < 0)
    OBVIOUS
  <2> HIDE DEF f
  <2> QED BY <2>1, <2>2
<1>2. ASSUME NEW m \in Nat, m \in T PROVE m + 1 \in T
  <2>1. PICK f : Solves(f, m)
    BY <1>2
  <2> DEFINE g == [list \in ElementLists |->
                      IF depth[list] = m THEN ExtraBody(f, list) ELSE f[list]]
  <2>2. g = [list \in ElementLists |-> g[list]]
    OBVIOUS
  <2>3. \A list \in ElementLists :
           g[list] = IF depth[list] = m THEN ExtraBody(f, list) ELSE f[list]
    OBVIOUS
  <2> HIDE DEF g
  <2>4. ASSUME NEW list \in ElementLists, depth[list] < m + 1 PROVE g[list] = ExtraBody(g, list)
    <3>1. \A l \in ElementLists : depth[l] < depth[list] => f[l] = g[l]
      BY <2>3, <2>4
    <3>2. ExtraBody(f, list) = ExtraBody(g, list)
      BY <3>1, ExtraAgree
    <3>3. depth[list] = m \/ depth[list] < m
      BY <2>4
    <3> QED BY <2>1, <2>3, <3>2, <3>3
  <2>5. Solves(g, m + 1)
    BY <2>2, <2>4
  <2> QED BY <2>5
<1>3. n + 1 \in T
  <2> HIDE DEF T
  <2> QED BY <1>1, <1>2, Counting
<1>4. PICK f : Solves(f, n + 1)
  BY <1>3
<1>5. \A list \in ElementLists : f[list] = ExtraBody(f, list)
  BY <1>4
<1>6. f = [list \in ElementLists |-> ExtraBody(f, list)]
  BY <1>4, <1>5
<1> QED BY <1>6

LEMMA ExtraDef ==
    ASSUME WellNested
    PROVE  \A list \in ElementLists : ExtraSize[list] = ExtraBody(ExtraSize, list)
<1>1. \E f : f = [list \in ElementLists |-> ExtraBody(f, list)]
  BY ExtraExists DEF WellNested
<1>2. ExtraSize = CHOOSE f : f = [list \in ElementLists |-> ExtraBody(f, list)]
  BY DEF ExtraSize, ExtraBody
<1>3. ExtraSize = [list \in ElementLists |-> ExtraBody(ExtraSize, list)]
  BY <1>1, <1>2
<1> HIDE DEF ExtraSize
<1> QED BY <1>3

-----------------------------------------------------------------------------
(* The size of a value is exact if what it holds is of the size get_size    *)
(* takes it for.  m is the memory: its cells and what malloc left raw.  W is*)
(* the set of all statements a serialization of it comes upon.              *)

Memory == [cells |-> mem, raw |-> raw]

Held(m, p, zero) ==
    IF p \in DOMAIN m.cells THEN m.cells[p]
    ELSE IF \E q \in m.raw : Within(p, q) THEN Garbage
    ELSE zero

ItemsIn(m, s) == IF IsStatic(s.elem) THEN s.elem.length
                 ELSE Held(m, Count(s.at, s.elem.name), 0)

IsThere(m, s) == \/ ~s.elem.optional
                 \/ s.elem.kind = "array" /\ IsStatic(s.elem)
                 \/ Held(m, Field(s.at, s.elem.name), NULL) # NULL

\* A field or an item that is there.
IsFilled(m, s) == \/ s.elem.kind = "item"
                  \/ s.elem.kind = "field" /\ s.elem.name # None /\ IsThere(m, s)

\* What a field or an item is written with.
Contents(m, s) ==
    IF s.elem.kind = "field" /\ s.elem.value # None THEN s.elem.value
    ELSE Held(m, Place(s), IF IsString(s.elem.type) \/ s.elem.type = "blob" THEN NULL ELSE 0)

SentLength(m, s) ==
    LET e == LengthTarget(s.scope, s.elem.name)
    IN  (IF e = None THEN 0
         ELSE IF e.kind = "array" \/ e.type = "blob" THEN Held(m, Count(s.at, e.name), 0)
         ELSE IF IsString(e.type) THEN StrLen(Held(m, Field(s.at, e.name), NULL))
         ELSE Held(m, Field(s.at, e.name), 0)) + s.elem.offset

TakenCase(m, s) == ChosenCase(s.elem, Held(m, Field(s.at, s.elem.field), 0))

-----------------------------------------------------------------------------
\* What a statement puts in its place, but for the return of a function.

NextRound(s) ==
    LET e    == s.elem.array
        item == Statement(Item(s.at, e.name, s.elem.i), [e EXCEPT !.kind = "item"])
        rest == <<[s EXCEPT !.elem.i = @ + 1]>>
    IN  IF ~(s.elem.i < s.elem.n) THEN << >>
        ELSE IF ~e.delimited THEN item \o rest
        ELSE IF e.trailing THEN item \o Break \o rest
        ELSE IF s.elem.i > 0 THEN Break \o item \o rest ELSE item \o rest

Opened(m, s) ==
    CASE s.elem.kind = "chunked" -> Statements(s.at, s.elem.elements)
      [] s.elem.kind \in {"field", "item"} ->
            IF IsFilled(m, s) /\ IsStruct(s.elem.type)
            THEN Statements(Place(s), Structs[s.elem.type]) ELSE << >>
      [] s.elem.kind = "array"  ->
            IF IsThere(m, s) THEN LoopOver(s.at, s.elem, ItemsIn(m, s)) ELSE << >>
      [] s.elem.kind = "loop"   -> NextRound(s)
      [] s.elem.kind = "switch" ->
            LET c == TakenCase(m, s)
            IN  IF c = None THEN << >>
                ELSE IF HasStorage[c.elements]
                THEN Statements(CaseAt(s.at, s.elem, c), c.elements)
                ELSE Statements(s.at, c.elements)
      [] OTHER -> << >>

\* The bytes it writes itself.
OwnBytes(m, s) ==
    CASE s.elem.kind = "break"  -> 1
      [] s.elem.kind = "length" -> ByteSize(s.elem.type)
      [] IsLiteral(s) -> IF IsString(s.elem.type) THEN Len(s.elem.value)
                         ELSE ByteSize(WireType(s))
      [] s.elem.kind \in {"field", "item"} /\ ~IsLiteral(s) ->
            IF ~IsFilled(m, s) \/ IsStruct(s.elem.type) THEN 0
            ELSE IF IsString(s.elem.type) /\ s.elem.kind = "field" /\ IsStatic(s.elem)
            THEN s.elem.length
            ELSE IF IsString(s.elem.type) \/ s.elem.type = "blob"
            THEN IF Contents(m, s) = NULL THEN 0 ELSE Len(Contents(m, s))
            ELSE ByteSize(WireType(s))
      [] OTHER -> 0

-----------------------------------------------------------------------------
(* The conditions.  get_size counts a text and a literal with strlen, so a  *)
(* byte for each character; a text of fixed length is there, of that length if it is      *)
(* optional; a text the definition gives is as long as the one that is held;*)
(* a blob is as long as its length says; and a case with something to keep  *)
(* has its data.                                                            *)

LiteralCounts(s) ==
    /\ ~IsStruct(s.elem.type) /\ s.elem.type # "blob"
    /\ s.elem.kind = "field" => ~s.elem.optional
    /\ s.elem.kind = "dummy" => ~IsEnum(s.elem.type)
    /\ IF IsString(s.elem.type)
       THEN /\ ~IsEnum(s.elem.type)
            /\ s.elem.value \in Seq(Char) \ {NULL}
            /\ Utf8Length(s.elem.value) = Len(s.elem.value)
            /\ s.elem.kind = "field" /\ IsStatic(s.elem) => s.elem.length = Len(s.elem.value)
       ELSE WireType(s) \in NumberKinds /\ s.elem.value \in Int32

TextCounts(m, s) ==
    /\ ~IsEnum(s.elem.type)
    /\ Contents(m, s) \in Seq(Char) \cup {NULL}
    /\ IF s.elem.kind = "field" /\ IsStatic(s.elem)
       THEN /\ s.elem.length \in Nat /\ Contents(m, s) # NULL
            /\ s.elem.optional => StrLen(Held(m, Place(s), NULL)) = s.elem.length
       ELSE StrLen(Held(m, Place(s), NULL)) =
                IF Contents(m, s) = NULL THEN 0 ELSE Len(Contents(m, s))

BlobCounts(m, s) ==
    /\ s.elem.kind = "field" /\ ~IsEnum(s.elem.type)
    /\ Contents(m, s) \in Seq(Byte)
    /\ Held(m, Append(Place(s), "length"), 0) = Len(Contents(m, s))

ValueCounts(m, s) ==
    IF IsStruct(s.elem.type) THEN Place(s) \in Paths
    ELSE IF IsString(s.elem.type) THEN TextCounts(m, s)
    ELSE IF s.elem.type = "blob" THEN BlobCounts(m, s)
    ELSE WireType(s) \in NumberKinds /\ Contents(m, s) \in Int32

ArrayCounts(m, s) ==
    /\ s.elem.type # "blob"
    /\ {"kind", "type"} \subseteq DOMAIN s.elem
    /\ ItemsIn(m, s) \in Nat
    /\ IsStatic(s.elem) /\ ~IsStruct(s.elem.type) /\ ~IsString(s.elem.type) =>
           ~s.elem.optional /\ ItemNumber(s.elem) \in NumberKinds

LoopCounts(s) ==
    /\ s.elem = [kind |-> "loop", array |-> s.elem.array, i |-> s.elem.i, n |-> s.elem.n]
    /\ {"kind", "type"} \subseteq DOMAIN s.elem.array
    /\ s.elem.i \in Nat /\ s.elem.n \in Nat /\ s.elem.i <= s.elem.n

SwitchCounts(m, s) ==
    LET c == TakenCase(m, s)
    IN  c # None => /\ c.elements \in ElementLists
                    /\ HasStorage[c.elements] => /\ Held(m, Data(s.at, s.elem), NULL) # NULL
                                                 /\ CaseAt(s.at, s.elem, c) \in Paths

Counts(m, s) ==
    /\ s = [at |-> s.at, elem |-> s.elem, scope |-> s.scope]
    /\ s.at \in Paths
    /\ s.elem.kind \in Kinds \cup {"item", "loop", "leave"}
    /\ s.elem.kind = "leave"   => s.elem.mode \in BOOLEAN
    /\ s.elem.kind = "chunked" => s.elem.elements \in ElementLists
    /\ s.elem.kind = "length"  => s.elem.type \in NumberKinds /\ SentLength(m, s) \in Int32
    /\ IsLiteral(s)            => LiteralCounts(s)
    /\ IsFilled(m, s)          => ValueCounts(m, s)
    /\ s.elem.kind = "array"   => ArrayCounts(m, s)
    /\ s.elem.kind = "loop"    => LoopCounts(s)
    /\ s.elem.kind = "switch"  => SwitchCounts(m, s)

AllCount(m, type, W) ==
    /\ \A s \in W : /\ Counts(m, s)
                    /\ \A k \in 1 .. Len(Opened(m, s)) : Opened(m, s)[k] \in W
    /\ \A k \in 1 .. Len(Structs[type]) : Statements(<< >>, Structs[type])[k] \in W
    /\ \A mode \in BOOLEAN : LeaveStatement(mode) \in W

\* All that the value holds is of the size that is counted for it.
IsMeasurable == \E W : AllCount(Memory, root, W)

-----------------------------------------------------------------------------
\* The items of an array are all come upon, one after the other.

LoopFrom(s, i) == [at |-> s.at, scope |-> s.scope,
                   elem |-> [kind |-> "loop", array |-> s.elem.array, i |-> i, n |-> s.elem.n]]
ItemOf(s, i)   == [at |-> Item(s.at, s.elem.array.name, i), scope |-> << >>,
                   elem |-> [s.elem.array EXCEPT !.kind = "item"]]
BreakStatement == [at |-> << >>, elem |-> [kind |-> "break"], scope |-> << >>]

LEMMA OneByOne ==
    ASSUME NEW a, NEW b, NEW c
    PROVE  <<a>> \o <<b>> = <<a, b>> /\ <<a>> \o <<b>> \o <<c>> = <<a, b, c>>
<1> DEFINE S == {a, b, c}
           p == <<a>> \o <<b>>
           q == p \o <<c>>
<1>1. <<a>> \in Seq(S) /\ <<b>> \in Seq(S) /\ <<c>> \in Seq(S)
  OBVIOUS
<1>2. p \in Seq(S) /\ Len(p) = 2 /\ p[1] = a /\ p[2] = b
  <2> HIDE DEF S
  <2> QED BY <1>1
<1>3. p = <<a, b>>
  <2> HIDE DEF S, p
  <2> QED BY <1>2
<1> HIDE DEF p
<1>4. q \in Seq(S) /\ Len(q) = 3 /\ q[1] = a /\ q[2] = b /\ q[3] = c
  <2> DEFINE r == <<c>>
  <2>1. r \in Seq(S) /\ Len(r) = 1 /\ r[1] = c
    OBVIOUS
  <2> HIDE DEF S, r
  <2>2. /\ p \o r \in Seq(S) /\ Len(p \o r) = Len(p) + Len(r)
        /\ \A i \in 1 .. Len(p) + Len(r) :
               (p \o r)[i] = IF i <= Len(p) THEN p[i] ELSE r[i - Len(p)]
    BY Zenon, <1>2, <2>1, ConcatProperties
  <2>3. /\ p \o r \in Seq(S) /\ Len(p \o r) = 3
        /\ (p \o r)[1] = a /\ (p \o r)[2] = b /\ (p \o r)[3] = c
    BY <1>2, <2>1, <2>2
  <2> QED BY <2>3 DEF r
<1>5. q = <<a, b, c>>
  <2> HIDE DEF S, q
  <2> QED BY <1>4
<1> QED BY <1>3, <1>5 DEF p

LEMMA RoundFacts ==
    ASSUME NEW s, s = [at |-> s.at, elem |-> s.elem, scope |-> s.scope], LoopCounts(s)
    PROVE  /\ s = LoopFrom(s, s.elem.i)
           /\ ~(s.elem.i < s.elem.n) => NextRound(s) = << >>
           /\ s.elem.i < s.elem.n =>
                 LET item == ItemOf(s, s.elem.i)
                     rest == LoopFrom(s, s.elem.i + 1)
                 IN  NextRound(s) =
                        IF ~s.elem.array.delimited THEN <<item, rest>>
                        ELSE IF s.elem.array.trailing THEN <<item, BreakStatement, rest>>
                        ELSE IF s.elem.i > 0 THEN <<BreakStatement, item, rest>>
                        ELSE <<item, rest>>
<1> DEFINE item == ItemOf(s, s.elem.i)
           rest == LoopFrom(s, s.elem.i + 1)
           one  == Statement(Item(s.at, s.elem.array.name, s.elem.i),
                             [s.elem.array EXCEPT !.kind = "item"])
           more == <<[s EXCEPT !.elem.i = @ + 1]>>
<1>1. s.elem = [kind |-> "loop", array |-> s.elem.array, i |-> s.elem.i, n |-> s.elem.n]
  BY DEF LoopCounts
<1>2. s = LoopFrom(s, s.elem.i)
  BY <1>1 DEF LoopFrom
<1>3. more = <<rest>>
  <2>1. [s EXCEPT !.elem.i = @ + 1] = [s EXCEPT !.elem = [s.elem EXCEPT !.i = s.elem.i + 1]]
    OBVIOUS
  <2>2. [s.elem EXCEPT !.i = s.elem.i + 1] =
            [kind |-> "loop", array |-> s.elem.array, i |-> s.elem.i + 1, n |-> s.elem.n]
    BY <1>1
  <2> DEFINE e == [kind |-> "loop", array |-> s.elem.array, i |-> s.elem.i + 1, n |-> s.elem.n]
  <2> HIDE DEF e
  <2>3. [s EXCEPT !.elem = e] = [at |-> s.at, scope |-> s.scope, elem |-> e]
    OBVIOUS
  <2> QED BY <2>1, <2>2, <2>3 DEF LoopFrom, e
<1>4. one = <<item>> /\ Break = <<BreakStatement>>
  BY DEF Statement, ItemOf, Break, BreakStatement
<1>5. NextRound(s) = IF ~(s.elem.i < s.elem.n) THEN << >>
                     ELSE IF ~s.elem.array.delimited THEN one \o more
                     ELSE IF s.elem.array.trailing THEN one \o Break \o more
                     ELSE IF s.elem.i > 0 THEN Break \o one \o more ELSE one \o more
  BY DEF NextRound
<1> HIDE DEF item, rest, one, more
<1>6. /\ one \o more = <<item, rest>>
      /\ one \o Break \o more = <<item, BreakStatement, rest>>
      /\ Break \o one \o more = <<BreakStatement, item, rest>>
  BY <1>3, <1>4, OneByOne
<1>7. s.elem.i < s.elem.n =>
         NextRound(s) = IF ~s.elem.array.delimited THEN <<item, rest>>
                        ELSE IF s.elem.array.trailing THEN <<item, BreakStatement, rest>>
                        ELSE IF s.elem.i > 0 THEN <<BreakStatement, item, rest>>
                        ELSE <<item, rest>>
  BY <1>5, <1>6
<1>8. ~(s.elem.i < s.elem.n) => NextRound(s) = << >>
  BY <1>5
<1> HIDE DEF NextRound
<1> QED BY <1>2, <1>7, <1>8 DEF item, rest

LEMMA RoundIsListed ==
    ASSUME NEW m, NEW type, NEW W, AllCount(m, type, W), NEW s \in W, s.elem.kind = "loop",
           s.elem.i < s.elem.n
    PROVE  ItemOf(s, s.elem.i) \in W /\ LoopFrom(s, s.elem.i + 1) \in W
<1>1. Counts(m, s) /\ \A k \in 1 .. Len(Opened(m, s)) : Opened(m, s)[k] \in W
  BY Zenon DEF AllCount
<1>2. Opened(m, s) = NextRound(s)
  BY DEF Opened
<1> DEFINE item == ItemOf(s, s.elem.i)
           rest == LoopFrom(s, s.elem.i + 1)
<1>3. \/ NextRound(s) = <<item, rest>>
      \/ NextRound(s) = <<item, BreakStatement, rest>>
      \/ NextRound(s) = <<BreakStatement, item, rest>>
  BY <1>1, RoundFacts DEF Counts
<1> HIDE DEF item, rest
<1>4. \A a, b, c : /\ Len(<<a, b>>) = 2 /\ <<a, b>>[1] = a /\ <<a, b>>[2] = b
                   /\ Len(<<a, b, c>>) = 3
                   /\ <<a, b, c>>[1] = a /\ <<a, b, c>>[2] = b /\ <<a, b, c>>[3] = c
  OBVIOUS
<1>5. 1 \in 1 .. 2 /\ 2 \in 1 .. 2 /\ 1 \in 1 .. 3 /\ 2 \in 1 .. 3 /\ 3 \in 1 .. 3
  OBVIOUS
<1>6. \A k \in 1 .. Len(NextRound(s)) : NextRound(s)[k] \in W
  BY <1>1, <1>2
<1> DEFINE r == NextRound(s)
<1> HIDE DEF r
<1>7. item \in W /\ rest \in W
  <2>1. \A k \in 1 .. Len(r) : r[k] \in W
    BY <1>6 DEF r
  <2>2. CASE r = <<item, rest>>
    BY <1>4, <1>5, <2>1, <2>2
  <2>3. CASE r = <<item, BreakStatement, rest>>
    BY <1>4, <1>5, <2>1, <2>3
  <2>4. CASE r = <<BreakStatement, item, rest>>
    BY <1>4, <1>5, <2>1, <2>4
  <2> QED BY <1>3, <2>2, <2>3, <2>4 DEF r
<1> QED BY <1>7 DEF item, rest

LEMMA ItemsAreListed ==
    ASSUME NEW m, NEW type, NEW W, AllCount(m, type, W), NEW s \in W, s.elem.kind = "loop"
    PROVE  \A i \in s.elem.i .. s.elem.n - 1 : ItemOf(s, i) \in W
<1> DEFINE T == {d \in Nat : s.elem.i + d <= s.elem.n => LoopFrom(s, s.elem.i + d) \in W}
<1>9. Counts(m, s)
  BY Zenon DEF AllCount
<1>1. LoopCounts(s) /\ s = [at |-> s.at, elem |-> s.elem, scope |-> s.scope]
  BY <1>9 DEF Counts
<1>2. s.elem.i \in Nat /\ s.elem.n \in Nat
  BY <1>1 DEF LoopCounts
<1>3. 0 \in T
  <2>1. LoopFrom(s, s.elem.i) \in W /\ s.elem.i + 0 = s.elem.i
    BY <1>1, <1>2, RoundFacts
  <2> QED BY <2>1
<1>7. ASSUME NEW j \in Nat, j < s.elem.n, LoopFrom(s, j) \in W
      PROVE  ItemOf(s, j) \in W /\ LoopFrom(s, j + 1) \in W
  <2> DEFINE u == LoopFrom(s, j)
  <2>1. /\ u.elem.kind = "loop" /\ u.elem.i = j /\ u.elem.n = s.elem.n
        /\ u.elem.array = s.elem.array /\ u.at = s.at /\ u.scope = s.scope /\ u \in W
    BY <1>7 DEF LoopFrom
  <2> HIDE DEF u
  <2>2. ItemOf(u, j) \in W /\ LoopFrom(u, j + 1) \in W
    BY <1>7, <2>1, RoundIsListed
  <2>3. ItemOf(u, j) = ItemOf(s, j) /\ LoopFrom(u, j + 1) = LoopFrom(s, j + 1)
    BY <2>1 DEF ItemOf, LoopFrom
  <2> QED BY <2>2, <2>3
<1>4. ASSUME NEW d \in Nat, d \in T PROVE d + 1 \in T
  <2> SUFFICES ASSUME s.elem.i + (d + 1) <= s.elem.n
               PROVE  LoopFrom(s, s.elem.i + (d + 1)) \in W
    OBVIOUS
  <2>1. LoopFrom(s, s.elem.i + d) \in W
    BY <1>2, <1>4
  <2>2. s.elem.i + d \in Nat /\ s.elem.i + d < s.elem.n /\ s.elem.i + (d + 1) = (s.elem.i + d) + 1
    BY <1>2
  <2> QED BY <1>7, <2>1, <2>2
<1>5. Nat \subseteq T
  <2> HIDE DEF T
  <2> QED BY <1>3, <1>4, Counting
<1> SUFFICES ASSUME NEW i \in s.elem.i .. s.elem.n - 1 PROVE ItemOf(s, i) \in W
  OBVIOUS
<1>6. i - s.elem.i \in Nat /\ s.elem.i + (i - s.elem.i) = i /\ i <= s.elem.n /\ i \in Nat
      /\ i < s.elem.n
  BY <1>2
<1>8. LoopFrom(s, i) \in W
  BY <1>5, <1>6
<1> QED BY <1>6, <1>7, <1>8

-----------------------------------------------------------------------------
\* What the statements of W lead to.

LEMMA CellIsHeld == \A p, zero : Cell(p, zero) = Held(Memory, p, zero)
BY DEF Cell, Held, Memory

LEMMA MemoryTells ==
    ASSUME NEW s
    PROVE  /\ Present(s.at, s.elem) <=> IsThere(Memory, s)
           /\ Items(s.at, s.elem) = ItemsIn(Memory, s)
<1>1. Present(s.at, s.elem) <=> IsThere(Memory, s)
  BY CellIsHeld DEF Present, IsThere
<1>2. Items(s.at, s.elem) = ItemsIn(Memory, s)
  BY CellIsHeld DEF Items, ItemsIn
<1> QED BY <1>1, <1>2

Reached(W, p, list) == \A k \in 1 .. Len(list) : Statements(p, list)[k] \in W

LEMMA StatementsFacts ==
    ASSUME NEW p, NEW list \in ElementLists
    PROVE  /\ Len(list) \in Nat /\ Len(Statements(p, list)) = Len(list)
           /\ \A k \in 1 .. Len(list) : /\ Statements(p, list)[k] =
                                             [at |-> p, elem |-> list[k], scope |-> list]
                                         /\ list[k].kind \in Kinds
<1>1. list \in Seq(Seqs!ToSet(list)) /\ \A k \in 1 .. Len(list) : list[k].kind \in Kinds
  BY ListsAssumption
<1>2. Len(list) \in Nat
  BY <1>1
<1> QED BY <1>1, <1>2 DEF Statements

LEMMA OpenedIsListed ==
    ASSUME NEW m, NEW type, NEW W, AllCount(m, type, W), NEW s \in W,
           NEW p, NEW list \in ElementLists, Opened(m, s) = Statements(p, list)
    PROVE  Reached(W, p, list)
<1>1. \A k \in 1 .. Len(Opened(m, s)) : Opened(m, s)[k] \in W
  BY Zenon DEF AllCount
<1>2. Len(Statements(p, list)) = Len(list)
  BY StatementsFacts
<1> QED BY <1>1, <1>2 DEF Reached

LEMMA StatementLeads ==
    ASSUME NEW m, NEW type, NEW W, AllCount(m, type, W), NEW s \in W
    PROVE  /\ Counts(m, s)
           /\ s.elem.kind = "chunked" =>
                 /\ s.elem.elements \in ElementLists /\ s.at \in Paths
                 /\ Reached(W, s.at, s.elem.elements)
           /\ IsFilled(m, s) /\ IsStruct(s.elem.type) =>
                 /\ Structs[s.elem.type] \in ElementLists /\ Place(s) \in Paths
                 /\ Reached(W, Place(s), Structs[s.elem.type])
           /\ s.elem.kind = "switch" /\ TakenCase(m, s) # None =>
                 LET c == TakenCase(m, s)
                     p == IF HasStorage[c.elements] THEN CaseAt(s.at, s.elem, c) ELSE s.at
                 IN  /\ c.elements \in ElementLists /\ p \in Paths
                     /\ Reached(W, p, c.elements)
                     /\ HasStorage[c.elements] => Held(m, Data(s.at, s.elem), NULL) # NULL
           /\ s.elem.kind = "array" /\ IsThere(m, s) =>
                 /\ ItemsIn(m, s) \in Nat
                 /\ \A i \in 0 .. ItemsIn(m, s) - 1 :
                       [at |-> Item(s.at, s.elem.name, i), scope |-> << >>,
                        elem |-> [s.elem EXCEPT !.kind = "item"]] \in W
<1>1. Counts(m, s) /\ s.at \in Paths
  <2>1. Counts(m, s)
    BY Zenon DEF AllCount
  <2> QED BY <2>1 DEF Counts
<1>2. ASSUME s.elem.kind = "chunked"
      PROVE  s.elem.elements \in ElementLists /\ Reached(W, s.at, s.elem.elements)
  <2>1. s.elem.elements \in ElementLists
    BY <1>1, <1>2 DEF Counts
  <2>2. Opened(m, s) = Statements(s.at, s.elem.elements)
    BY <1>2 DEF Opened
  <2> QED BY <2>1, <2>2, OpenedIsListed
<1>3. ASSUME IsFilled(m, s), IsStruct(s.elem.type)
      PROVE  /\ Structs[s.elem.type] \in ElementLists /\ Place(s) \in Paths
             /\ Reached(W, Place(s), Structs[s.elem.type])
  <2>1. Structs[s.elem.type] \in ElementLists
    BY <1>3, ListsAssumption DEF IsStruct
  <2>2. Place(s) \in Paths
    BY <1>1, <1>3 DEF Counts, ValueCounts
  <2>3. s.elem.kind \in {"field", "item"}
    BY <1>3 DEF IsFilled
  <2>4. Opened(m, s) = Statements(Place(s), Structs[s.elem.type])
    BY <1>3, <2>3 DEF Opened
  <2> QED BY <2>1, <2>2, <2>4, OpenedIsListed
<1>4. ASSUME s.elem.kind = "switch", TakenCase(m, s) # None
      PROVE  LET c == TakenCase(m, s)
                 p == IF HasStorage[c.elements] THEN CaseAt(s.at, s.elem, c) ELSE s.at
             IN  /\ c.elements \in ElementLists /\ p \in Paths
                 /\ Reached(W, p, c.elements)
                 /\ HasStorage[c.elements] => Held(m, Data(s.at, s.elem), NULL) # NULL
  <2> DEFINE c == TakenCase(m, s)
             p == IF HasStorage[c.elements] THEN CaseAt(s.at, s.elem, c) ELSE s.at
  <2>1. SwitchCounts(m, s)
    BY <1>1, <1>4 DEF Counts
  <2>2. /\ c.elements \in ElementLists
        /\ HasStorage[c.elements] => /\ Held(m, Data(s.at, s.elem), NULL) # NULL
                                     /\ CaseAt(s.at, s.elem, c) \in Paths
    BY <1>4, <2>1 DEF SwitchCounts
  <2>4. Opened(m, s) = IF HasStorage[c.elements]
                       THEN Statements(CaseAt(s.at, s.elem, c), c.elements)
                       ELSE Statements(s.at, c.elements)
    BY <1>4 DEF Opened
  <2> HIDE DEF c
  <2>5. Opened(m, s) = Statements(p, c.elements)
    BY <2>4
  <2>6. Reached(W, p, c.elements)
    BY <2>2, <2>5, OpenedIsListed
  <2> QED BY <1>1, <2>2, <2>6 DEF c
<1>5. ASSUME s.elem.kind = "array", IsThere(m, s)
      PROVE  /\ ItemsIn(m, s) \in Nat
             /\ \A i \in 0 .. ItemsIn(m, s) - 1 :
                   [at |-> Item(s.at, s.elem.name, i), scope |-> << >>,
                    elem |-> [s.elem EXCEPT !.kind = "item"]] \in W
  <2>1. ItemsIn(m, s) \in Nat
    BY <1>1, <1>5 DEF Counts, ArrayCounts
  <2> DEFINE u == [at |-> s.at, scope |-> << >>,
                   elem |-> [kind |-> "loop", array |-> s.elem, i |-> 0, n |-> ItemsIn(m, s)]]
  <2>2. Opened(m, s) = <<u>>
    BY <1>5 DEF Opened, LoopOver, Statement
  <2>3. u.elem.kind = "loop" /\ u.elem.i = 0 /\ u.elem.n = ItemsIn(m, s)
        /\ u.elem.array = s.elem /\ u.at = s.at
    OBVIOUS
  <2> HIDE DEF u
  <2>4. \A k \in 1 .. Len(Opened(m, s)) : Opened(m, s)[k] \in W
    BY Zenon DEF AllCount
  <2>5. u \in W
    <3>1. Len(<<u>>) = 1 /\ <<u>>[1] = u /\ 1 \in 1 .. 1
      OBVIOUS
    <3> QED BY <2>2, <2>4, <3>1
  <2>6. \A i \in 0 .. ItemsIn(m, s) - 1 : ItemOf(u, i) \in W
    BY <2>3, <2>5, ItemsAreListed
  <2> QED BY <2>1, <2>3, <2>6 DEF ItemOf
<1> QED BY <1>1, <1>2, <1>3, <1>4, <1>5

-----------------------------------------------------------------------------
(* The two parts of what get_size counts, the one known beforehand and the  *)
(* one that depends on the value, add up to the bytes that are written.     *)

Before(s) == PrecomputedElementSize(PrecomputedSize, s.elem)
Extra(s)  == ElementSize(ExtraSize, s.at, s.elem)

LEMMA TextSizes ==
    ASSUME NEW s, TextCounts(Memory, s)
    PROVE  LET n == TextSize(Place(s))
               fixed == s.elem.kind = "field" /\ IsStatic(s.elem)
           IN  /\ fixed => s.elem.length \in Nat /\ (s.elem.optional => n = s.elem.length)
               /\ ~fixed => /\ n \in Nat
                            /\ n = IF Contents(Memory, s) = NULL THEN 0
                                   ELSE Len(Contents(Memory, s))
<1> DEFINE n == TextSize(Place(s))
           c == Contents(Memory, s)
<1>1. n = StrLen(Held(Memory, Place(s), NULL))
  BY CellIsHeld DEF TextSize
<1>2. /\ c \in Seq(Char) \cup {NULL}
      /\ IF s.elem.kind = "field" /\ IsStatic(s.elem)
         THEN s.elem.length \in Nat /\ (s.elem.optional => n = s.elem.length)
         ELSE n = IF c = NULL THEN 0 ELSE Len(c)
  BY <1>1 DEF TextCounts
<1> HIDE DEF n, c
<1>3. c # NULL => Len(c) \in Nat
  BY <1>2
<1> QED BY <1>2, <1>3 DEF n, c

LEMMA FilledFieldSize ==
    ASSUME NEW s, s.elem.kind = "field", IsFilled(Memory, s), ~IsStruct(s.elem.type),
           ValueCounts(Memory, s)
    PROVE  Before(s) \in Nat /\ Extra(s) \in Nat /\ Before(s) + Extra(s) = OwnBytes(Memory, s)
<1> DEFINE e == s.elem
           p == Place(s)
<1>1. e.kind = "field" /\ e.name # None /\ p = Append(s.at, e.name) /\ ~IsLiteral(s)
      /\ WireType(s) = FieldNumber(e)
  BY DEF IsFilled, Place, Field, IsLiteral, WireType
<1>2. Extra(s) = FieldSize(ExtraSize, p, e)
  <2>1. IsThere(Memory, s)
    BY DEF IsFilled
  <2>2. Present(s.at, s.elem)
    BY <2>1, MemoryTells
  <2> QED BY <1>1, <2>2 DEF Extra, ElementSize, Field
<1>3. OwnBytes(Memory, s) =
        IF IsString(e.type) /\ IsStatic(e) THEN e.length
        ELSE IF IsString(e.type) \/ e.type = "blob"
        THEN IF Contents(Memory, s) = NULL THEN 0 ELSE Len(Contents(Memory, s))
        ELSE ByteSize(WireType(s))
  BY <1>1 DEF OwnBytes
<1>4. Before(s) = IF e.optional \/ e.type = "blob" \/ IsStruct(e.type) THEN 0
                  ELSE IF IsString(e.type)
                  THEN IF IsStatic(e) THEN e.length
                       ELSE IF e.name = None THEN Utf8Length(e.value) ELSE 0
                  ELSE ByteSize(FieldNumber(e))
  BY <1>1 DEF Before, PrecomputedElementSize
<1>5. CASE IsString(e.type)
  <2>1. TextCounts(Memory, s) /\ e.type # "blob"
    BY <1>5 DEF ValueCounts, IsString
  <2>2. /\ IsStatic(e) => e.length \in Nat /\ (e.optional => TextSize(p) = e.length)
        /\ ~IsStatic(e) => TextSize(p) \in Nat
                           /\ TextSize(p) = IF Contents(Memory, s) = NULL THEN 0
                                            ELSE Len(Contents(Memory, s))
    BY Zenon, <1>1, <2>1, TextSizes
  <2>3. Extra(s) = IF IsStatic(e) /\ ~e.optional THEN 0 ELSE TextSize(p)
    BY <1>2, <1>5, <2>1 DEF FieldSize
  <2>4. Before(s) = IF IsStatic(e) /\ ~e.optional THEN e.length ELSE 0
    BY <1>1, <1>4, <1>5, <2>1
  <2> HIDE DEF e, p
  <2>5. CASE IsStatic(e)
    BY <1>3, <1>5, <2>2, <2>3, <2>4, <2>5
  <2>6. CASE ~IsStatic(e)
    BY <1>3, <1>5, <2>2, <2>3, <2>4, <2>6
  <2> QED BY <2>5, <2>6
<1>6. CASE e.type = "blob" /\ ~IsString(e.type)
  <2>1. BlobCounts(Memory, s)
    BY <1>6 DEF ValueCounts
  <2>2. /\ Contents(Memory, s) \in Seq(Byte)
        /\ Held(Memory, Append(p, "length"), 0) = Len(Contents(Memory, s))
    BY <2>1 DEF BlobCounts
  <2>3. Contents(Memory, s) # NULL /\ Len(Contents(Memory, s)) \in Nat
    BY <2>2, NullAssumption
  <2>4. Extra(s) = Len(Contents(Memory, s))
    BY <1>2, <1>6, <2>2, CellIsHeld DEF FieldSize
  <2>5. Before(s) = 0
    BY <1>4, <1>6
  <2> QED BY <1>3, <1>6, <2>3, <2>4, <2>5
<1>7. CASE e.type # "blob" /\ ~IsString(e.type)
  <2>1. WireType(s) \in NumberKinds
    BY <1>7 DEF ValueCounts
  <2>2. ByteSize(FieldNumber(e)) \in Nat
    BY <1>1, <2>1, SizesOfTypes
  <2>3. Extra(s) = IF e.optional THEN ByteSize(FieldNumber(e)) ELSE 0
    BY <1>2, <1>7 DEF FieldSize
  <2>4. Before(s) = IF e.optional THEN 0 ELSE ByteSize(FieldNumber(e))
    BY <1>4, <1>7
  <2>5. OwnBytes(Memory, s) = ByteSize(FieldNumber(e))
    BY <1>1, <1>3, <1>7
  <2> QED BY <2>2, <2>3, <2>4, <2>5
<1> QED BY <1>5, <1>6, <1>7

\* Elements that put nothing in their place.
LEMMA ClosedElementSize ==
    ASSUME NEW s, Counts(Memory, s),
           \/ s.elem.kind \in {"break", "length", "dummy"}
           \/ s.elem.kind = "field" /\ ~(IsFilled(Memory, s) /\ IsStruct(s.elem.type))
    PROVE  /\ Before(s) \in Nat /\ Extra(s) \in Nat
           /\ Before(s) + Extra(s) = OwnBytes(Memory, s)
           /\ Opened(Memory, s) = << >>
<1>1. Opened(Memory, s) = << >>
  BY DEF Opened
<1>2. CASE s.elem.kind = "break"
  BY <1>1, <1>2 DEF Before, Extra, PrecomputedElementSize, ElementSize, OwnBytes, IsLiteral
<1>3. CASE s.elem.kind = "length"
  <2>1. ByteSize(s.elem.type) \in Nat
    BY <1>3, SizesOfTypes DEF Counts
  <2> QED
    BY <1>1, <1>3, <2>1 DEF Before, Extra, PrecomputedElementSize, ElementSize, OwnBytes,
                            IsLiteral
<1>4. CASE IsLiteral(s)
  <2>1. LiteralCounts(s)
    BY <1>4 DEF Counts
  <2>2. s.elem.kind \in {"dummy", "field"} /\ WireType(s) = FieldNumber(s.elem)
    BY <1>4 DEF IsLiteral, WireType
  <2>3. OwnBytes(Memory, s) = IF IsString(s.elem.type) THEN Len(s.elem.value)
                              ELSE ByteSize(FieldNumber(s.elem))
    BY <1>4, <2>2 DEF OwnBytes, IsLiteral
  <2>4. IsString(s.elem.type) => /\ Len(s.elem.value) \in Nat
                                 /\ Utf8Length(s.elem.value) = Len(s.elem.value)
    BY <2>1 DEF LiteralCounts
  <2>5. ~IsString(s.elem.type) => ByteSize(FieldNumber(s.elem)) \in Nat
    BY <2>1, <2>2, SizesOfTypes DEF LiteralCounts
  <2>6. Extra(s) = 0
    BY <1>4, <2>2 DEF Extra, ElementSize, IsLiteral
  <2>7. Before(s) = OwnBytes(Memory, s)
    <3>1. CASE s.elem.kind = "dummy"
      <4>1. FieldNumber(s.elem) = s.elem.type
        BY <2>1, <3>1 DEF LiteralCounts, FieldNumber
      <4> QED BY <2>3, <2>4, <3>1, <4>1 DEF Before, PrecomputedElementSize
    <3>2. CASE s.elem.kind = "field"
      <4>1. /\ ~s.elem.optional /\ s.elem.type # "blob" /\ ~IsStruct(s.elem.type)
            /\ s.elem.name = None
            /\ IsString(s.elem.type) /\ IsStatic(s.elem) => s.elem.length = Len(s.elem.value)
        BY <1>4, <2>1, <3>2 DEF LiteralCounts, IsLiteral
      <4> QED BY <2>3, <2>4, <3>2, <4>1 DEF Before, PrecomputedElementSize
    <3> QED BY <2>2, <3>1, <3>2
  <2> QED BY <1>1, <2>3, <2>4, <2>5, <2>6, <2>7
<1>5. CASE s.elem.kind = "field" /\ ~IsLiteral(s) /\ ~IsFilled(Memory, s)
  <2>1. s.elem.name # None /\ ~IsThere(Memory, s) /\ s.elem.optional
    BY <1>5 DEF IsLiteral, IsFilled, IsThere
  <2>2. ~Present(s.at, s.elem)
    BY <2>1, MemoryTells
  <2>3. Before(s) = 0
    BY <1>5, <2>1 DEF Before, PrecomputedElementSize
  <2>4. Extra(s) = 0
    BY <1>5, <2>2 DEF Extra, ElementSize
  <2>5. OwnBytes(Memory, s) = 0
    BY <1>5 DEF OwnBytes
  <2> QED BY <1>1, <2>3, <2>4, <2>5
<1>6. CASE s.elem.kind = "field" /\ IsFilled(Memory, s)
  <2>1. ValueCounts(Memory, s)
    BY <1>6 DEF Counts
  <2> QED BY <1>1, <1>6, <2>1, FilledFieldSize
<1>7. s.elem.kind = "dummy" => IsLiteral(s)
  BY DEF IsLiteral
<1> QED BY <1>2, <1>3, <1>4, <1>5, <1>6, <1>7

-----------------------------------------------------------------------------
(* Every list that is come upon has a size, and it is the sum of what its   *)
(* statements weigh.                                                        *)

ListSize(list, p) == PrecomputedSize[list] + ExtraSize[list][p]

Sized(list, p) == PrecomputedSize[list] \in Nat /\ ExtraSize[list][p] \in Nat

\* The lists of D have one wherever they are come upon.
SizedIn(W, D) == \A list \in D : \A p \in Paths : Reached(W, p, list) => Sized(list, p)

\* The lists nested in a statement are among those of D.
NestedIn(s, D) ==
    /\ s.elem.kind = "chunked" => s.elem.elements \in D
    /\ s.elem.kind = "switch" /\ TakenCase(Memory, s) # None =>
           TakenCase(Memory, s).elements \in D
    /\ s.elem.kind \in {"field", "array", "item"} /\ IsStruct(s.elem.type) =>
           Structs[s.elem.type] \in D

RestDelimiters(e, i, n) == IF ~e.delimited THEN 0
                           ELSE IF e.trailing \/ i > 0 THEN n - i
                           ELSE IF n > 1 THEN n - 1 ELSE 0

ItemSizes(where, e, i, n) ==
    [k \in 1 .. n - i |-> ItemSize(ExtraSize, Item(where, e.name, i + k - 1), e)]

\* What a statement counts for, with all that it leads to.
Weight(s) ==
    CASE s.elem.kind = "leave" -> 0
      [] s.elem.kind = "item"  -> ItemSize(ExtraSize, s.at, s.elem)
      [] s.elem.kind = "loop"  ->
            RestDelimiters(s.elem.array, s.elem.i, s.elem.n)
                + SumOf(ItemSizes(s.at, s.elem.array, s.elem.i, s.elem.n))
      [] OTHER -> Before(s) + Extra(s)

LEMMA ItemWeighs ==
    ASSUME NEW type, NEW W, AllCount(Memory, type, W), NEW D, SizedIn(W, D),
           NEW s \in W, s.elem.kind = "item", NestedIn(s, D)
    PROVE  /\ Weight(s) \in Nat /\ Weight(s) = ItemSize(ExtraSize, s.at, s.elem)
           /\ IsStruct(s.elem.type) =>
                 Weight(s) = ListSize(Structs[s.elem.type], Place(s)) /\ OwnBytes(Memory, s) = 0
           /\ ~IsStruct(s.elem.type) => Weight(s) = OwnBytes(Memory, s)
<1> DEFINE e == s.elem
<1>1. Place(s) = s.at /\ IsFilled(Memory, s) /\ WireType(s) = ItemNumber(e) /\ ~IsLiteral(s)
  BY DEF Place, IsFilled, WireType, IsLiteral
<1>2. Weight(s) = ItemSize(ExtraSize, s.at, e)
  BY DEF Weight
<1>3. OwnBytes(Memory, s) =
        IF IsStruct(e.type) THEN 0
        ELSE IF IsString(e.type) \/ e.type = "blob"
        THEN IF Contents(Memory, s) = NULL THEN 0 ELSE Len(Contents(Memory, s))
        ELSE ByteSize(WireType(s))
  BY <1>1 DEF OwnBytes
<1>4. ValueCounts(Memory, s)
  BY <1>1, StatementLeads DEF Counts
<1>5. CASE IsStruct(e.type)
  <2>1. Weight(s) = ListSize(Structs[e.type], s.at)
    BY <1>2, <1>5 DEF ItemSize, NestedSize, ListSize
  <2>2. Place(s) \in Paths /\ Reached(W, Place(s), Structs[e.type])
    BY <1>1, <1>5, StatementLeads
  <2>3. Structs[e.type] \in D
    BY <1>5 DEF NestedIn
  <2>4. Sized(Structs[e.type], Place(s))
    BY <2>2, <2>3 DEF SizedIn
  <2>5. ListSize(Structs[e.type], Place(s)) \in Nat
    BY <2>4 DEF Sized, ListSize
  <2> QED BY <1>1, <1>2, <1>3, <1>5, <2>1, <2>5
<1>6. CASE ~IsStruct(e.type) /\ IsString(e.type)
  <2>1. TextCounts(Memory, s)
    BY <1>4, <1>6 DEF ValueCounts
  <2>2. /\ TextSize(Place(s)) \in Nat
        /\ TextSize(Place(s)) = IF Contents(Memory, s) = NULL THEN 0 ELSE Len(Contents(Memory, s))
    BY <2>1, TextSizes
  <2>3. Weight(s) = TextSize(Place(s))
    BY <1>1, <1>2, <1>6 DEF ItemSize
  <2> QED BY <1>2, <1>3, <1>6, <2>2, <2>3
<1>7. CASE ~IsStruct(e.type) /\ ~IsString(e.type)
  <2>1. e.type # "blob"
    BY <1>4, <1>7 DEF ValueCounts, BlobCounts
  <2>2. WireType(s) \in NumberKinds
    BY <1>4, <1>7, <2>1 DEF ValueCounts
  <2>3. Weight(s) = ByteSize(WireType(s))
    BY <1>1, <1>2, <1>7 DEF ItemSize
  <2>4. ByteSize(WireType(s)) \in Nat
    BY <2>2, SizesOfTypes
  <2> QED BY <1>2, <1>3, <1>7, <2>1, <2>3, <2>4
<1> QED BY <1>5, <1>6, <1>7

\* The items of an array that is there.
LEMMA ItemsWeigh ==
    ASSUME NEW type, NEW W, AllCount(Memory, type, W), NEW D, SizedIn(W, D),
           NEW s \in W, s.elem.kind = "array", NestedIn(s, D), IsThere(Memory, s)
    PROVE  LET n == ItemsIn(Memory, s)
           IN  /\ n \in Nat
               /\ \A k \in 1 .. n : ItemSize(ExtraSize, Item(s.at, s.elem.name, k - 1), s.elem) \in Nat
               /\ SumOf(ItemSizes(s.at, s.elem, 0, n)) \in Nat
<1> DEFINE n == ItemsIn(Memory, s)
           e == s.elem
           i == [e EXCEPT !.kind = "item"]
           u(j) == [at |-> Item(s.at, e.name, j), scope |-> << >>, elem |-> i]
<1>1. n \in Nat /\ \A j \in 0 .. n - 1 : u(j) \in W
  BY StatementLeads
<1>2. ArrayCounts(Memory, s)
  BY StatementLeads DEF Counts
<1>3. i.kind = "item" /\ i.type = e.type
  BY <1>2 DEF ArrayCounts
<1>4. IsStruct(i.type) => Structs[i.type] \in D
  BY <1>3 DEF NestedIn
<1>5. \A p : ItemSize(ExtraSize, p, i) = ItemSize(ExtraSize, p, e)
  BY <1>3 DEF ItemSize, ItemNumber
<1> HIDE DEF i
<1>6. ASSUME NEW j \in 0 .. n - 1 PROVE ItemSize(ExtraSize, Item(s.at, e.name, j), e) \in Nat
  <2> DEFINE x == u(j)
  <2>1. x \in W /\ x.elem = i /\ x.at = Item(s.at, e.name, j)
    BY <1>1
  <2> HIDE DEF x
  <2>2. x.elem.kind = "item" /\ NestedIn(x, D)
    BY <1>3, <1>4, <2>1 DEF NestedIn
  <2>3. ItemSize(ExtraSize, x.at, x.elem) \in Nat
    BY <2>1, <2>2, ItemWeighs
  <2> QED BY <1>5, <2>1, <2>3
<1>7. ASSUME NEW k \in 1 .. n PROVE ItemSize(ExtraSize, Item(s.at, e.name, k - 1), e) \in Nat
  <2>1. k - 1 \in 0 .. n - 1
    BY <1>1
  <2> QED BY <1>6, <2>1
<1>8. SumOf(ItemSizes(s.at, e, 0, n)) \in Nat
  <2> DEFINE f == ItemSizes(s.at, e, 0, n)
  <2>1. DOMAIN f = 1 .. n /\ \A k \in 1 .. n : f[k] = ItemSize(ExtraSize, Item(s.at, e.name, k - 1), e)
    <3>1. \A k \in 1 .. n : 0 + k - 1 = k - 1 /\ n - 0 = n
      BY <1>1
    <3> QED BY <1>1, <3>1 DEF ItemSizes
  <2>2. \A k \in 1 .. n : f[k] \in Nat
    BY <1>7, <2>1
  <2> HIDE DEF f
  <2> QED BY <1>1, <2>1, <2>2, SumIsNat DEF f
<1> QED BY <1>1, <1>7, <1>8

LEMMA ArrayWeighs ==
    ASSUME NEW type, NEW W, AllCount(Memory, type, W), NEW D, SizedIn(W, D),
           NEW s \in W, s.elem.kind = "array", NestedIn(s, D)
    PROVE  /\ Before(s) \in Nat /\ Extra(s) \in Nat
           /\ IF IsThere(Memory, s)
              THEN LET n == ItemsIn(Memory, s)
                   IN  Before(s) + Extra(s) =
                           RestDelimiters(s.elem, 0, n) + SumOf(ItemSizes(s.at, s.elem, 0, n))
              ELSE Before(s) + Extra(s) = 0
<1> DEFINE e == s.elem
           n == ItemsIn(Memory, s)
           f == ItemSizes(s.at, e, 0, n)
           bare == ~IsStruct(e.type) /\ ~IsString(e.type)
<1>1. ArrayCounts(Memory, s)
  BY StatementLeads DEF Counts
<1>2. Before(s) = IF e.optional \/ ~IsStatic(e) \/ ~bare THEN 0
                  ELSE e.length * ByteSize(ItemNumber(e)) + Delimiters(e, e.length)
  BY DEF Before, PrecomputedElementSize
<1>3. Extra(s) = IF IsThere(Memory, s) THEN ArraySize(ExtraSize, s.at, e) ELSE 0
  <2>1. Extra(s) = IF Present(s.at, e) THEN ArraySize(ExtraSize, s.at, e) ELSE 0
    BY DEF Extra, ElementSize
  <2> QED BY <2>1, MemoryTells
<1>4. CASE ~IsThere(Memory, s)
  <2>1. e.optional
    BY <1>4 DEF IsThere
  <2> QED BY <1>2, <1>3, <1>4, <2>1
<1>5. CASE IsThere(Memory, s)
  <2>1. /\ n \in Nat /\ SumOf(f) \in Nat
        /\ \A k \in 1 .. n : ItemSize(ExtraSize, Item(s.at, e.name, k - 1), e) \in Nat
    BY <1>5, ItemsWeigh
  <2>2. Delimiters(e, n) = RestDelimiters(e, 0, n) /\ Delimiters(e, n) \in Nat
    BY <2>1 DEF Delimiters, RestDelimiters
  <2>3. DOMAIN f = 1 .. n
        /\ \A k \in 1 .. n : f[k] = ItemSize(ExtraSize, Item(s.at, e.name, k - 1), e)
    <3>1. \A k \in 1 .. n : 0 + k - 1 = k - 1 /\ n - 0 = n
      BY <2>1
    <3> QED BY <2>1, <3>1 DEF ItemSizes
  <2>4. f = [k \in 1 .. n |-> ItemSize(ExtraSize, Item(s.at, e.name, k - 1), e)]
    <3> HIDE DEF n
    <3>1. f = [k \in DOMAIN f |-> f[k]]
      BY DEF ItemSizes
    <3> HIDE DEF f
    <3> QED BY <2>3, <3>1
  <2>5. ArraySize(ExtraSize, s.at, e) = IF IsStatic(e) /\ bare THEN 0
                                        ELSE Delimiters(e, n) + SumOf(f)
    <3>1. Items(s.at, e) = n
      BY MemoryTells
    <3> QED BY <2>4, <3>1 DEF ArraySize
  <2>6. CASE IsStatic(e) /\ bare
    <3>1. ~e.optional /\ ItemNumber(e) \in NumberKinds /\ n = e.length
      BY <1>1, <2>6 DEF ArrayCounts, ItemsIn
    <3>2. ByteSize(ItemNumber(e)) \in Nat
      BY <3>1, SizesOfTypes
    <3>3. \A k \in 1 .. n : f[k] = ByteSize(ItemNumber(e))
      BY <2>3, <2>6 DEF ItemSize
    <3> HIDE DEF f, n
    <3>4. SumOf(f) = n * ByteSize(ItemNumber(e))
      BY <2>1, <2>3, <3>2, <3>3, SumOfEquals
    <3>5. Before(s) = SumOf(f) + Delimiters(e, n) /\ Extra(s) = 0
      BY <1>2, <1>3, <1>5, <2>5, <2>6, <3>1, <3>4
    <3> QED BY <1>5, <2>1, <2>2, <3>5 DEF f, n
  <2>7. CASE ~(IsStatic(e) /\ bare)
    <3>1. Before(s) = 0 /\ Extra(s) = Delimiters(e, n) + SumOf(f)
      BY <1>2, <1>3, <1>5, <2>5, <2>7
    <3> HIDE DEF f, n
    <3> QED BY <1>5, <2>1, <2>2, <3>1 DEF f, n
  <2> QED BY <2>6, <2>7
<1> QED BY <1>4, <1>5

\* The elements of a definition, with all that is nested in them.
LEMMA ElementWeighs ==
    ASSUME NEW type, NEW W, AllCount(Memory, type, W), NEW D, SizedIn(W, D),
           NEW s \in W, s.elem.kind \in Kinds, NestedIn(s, D)
    PROVE  /\ Before(s) \in Nat /\ Extra(s) \in Nat
           /\ s.elem.kind # "array" =>
                 \/ Opened(Memory, s) = << >> /\ Before(s) + Extra(s) = OwnBytes(Memory, s)
                 \/ \E list \in D : \E p \in Paths :
                       /\ Opened(Memory, s) = Statements(p, list) /\ Reached(W, p, list)
                       /\ OwnBytes(Memory, s) = 0
                       /\ Before(s) + Extra(s) = ListSize(list, p)
<1> DEFINE e == s.elem
<1>0. Counts(Memory, s)
  BY StatementLeads
<1>1. ASSUME NEW list \in D, NEW p \in Paths, Reached(W, p, list)
      PROVE  PrecomputedSize[list] \in Nat /\ ExtraSize[list][p] \in Nat
  BY <1>1 DEF SizedIn, Sized
<1>2. CASE e.kind = "chunked"
  <2>1. e.elements \in D /\ s.at \in Paths /\ Reached(W, s.at, e.elements)
    BY <1>2, StatementLeads DEF NestedIn
  <2>2. Before(s) = PrecomputedSize[e.elements] /\ Extra(s) = ExtraSize[e.elements][s.at]
    BY <1>2 DEF Before, Extra, PrecomputedElementSize, ElementSize
  <2>3. Opened(Memory, s) = Statements(s.at, e.elements) /\ OwnBytes(Memory, s) = 0
    BY <1>2 DEF Opened, OwnBytes, IsLiteral
  <2> QED BY <1>1, <2>1, <2>2, <2>3 DEF ListSize
<1>3. CASE e.kind = "field" /\ IsFilled(Memory, s) /\ IsStruct(e.type)
  <2> DEFINE list == Structs[e.type]
             p == Place(s)
  <2>1. list \in D /\ p \in Paths /\ Reached(W, p, list)
    BY <1>3, StatementLeads DEF NestedIn
  <2>2. e.name # None /\ IsThere(Memory, s) /\ p = Field(s.at, e.name) /\ ~IsLiteral(s)
    BY <1>3 DEF IsFilled, Place, IsLiteral
  <2>3. Present(s.at, e)
    BY <2>2, MemoryTells
  <2>4. Before(s) = 0
    BY <1>3 DEF Before, PrecomputedElementSize
  <2>5. Extra(s) = ListSize(list, p)
    BY <1>3, <2>2, <2>3 DEF Extra, ElementSize, FieldSize, NestedSize, ListSize
  <2>6. Opened(Memory, s) = Statements(p, list) /\ OwnBytes(Memory, s) = 0
    BY <1>3, <2>2 DEF Opened, OwnBytes
  <2>7. ListSize(list, p) \in Nat
    BY <1>1, <2>1 DEF ListSize
  <2> HIDE DEF list, p
  <2>8. Before(s) + Extra(s) = ListSize(list, p)
    BY <2>4, <2>5, <2>7
  <2> QED BY <1>3, <2>1, <2>4, <2>5, <2>6, <2>7, <2>8
<1>4. CASE e.kind = "switch"
  <2> DEFINE c == TakenCase(Memory, s)
             p == IF HasStorage[c.elements] THEN CaseAt(s.at, e, c) ELSE s.at
  <2>1. Before(s) = 0 /\ OwnBytes(Memory, s) = 0
    BY <1>4 DEF Before, PrecomputedElementSize, OwnBytes, IsLiteral
  <2>2. Extra(s) = IF c = None THEN 0 ELSE CaseSize(ExtraSize, s.at, e, c)
    <3>1. ChosenCase(e, Cell(Field(s.at, e.field), 0)) = c
      BY CellIsHeld DEF TakenCase
    <3> QED BY <1>4, <3>1 DEF Extra, ElementSize
  <2>3. Opened(Memory, s) = IF c = None THEN << >>
                            ELSE IF HasStorage[c.elements]
                            THEN Statements(CaseAt(s.at, e, c), c.elements)
                            ELSE Statements(s.at, c.elements)
    BY <1>4 DEF Opened
  <2>4. CASE c = None
    BY <1>4, <2>1, <2>2, <2>3, <2>4
  <2>5. CASE c # None
    <3>1. /\ p \in Paths /\ Reached(W, p, c.elements)
          /\ HasStorage[c.elements] => Held(Memory, Data(s.at, e), NULL) # NULL
      BY <1>4, <2>5, StatementLeads
    <3>2. c.elements \in D
      BY <1>4, <2>5 DEF NestedIn
    <3> HIDE DEF c
    <3>3. Cell(Data(s.at, e), NULL) = Held(Memory, Data(s.at, e), NULL)
      BY CellIsHeld
    <3>4. CaseSize(ExtraSize, s.at, e, c) = PrecomputedSize[c.elements] + ExtraSize[c.elements][p]
      BY <3>1, <3>3 DEF CaseSize
    <3>5. Opened(Memory, s) = Statements(p, c.elements)
      BY <2>3, <2>5
    <3> HIDE DEF p
    <3>6. ListSize(c.elements, p) \in Nat
      BY <1>1, <3>1, <3>2 DEF ListSize
    <3>7. Before(s) + Extra(s) = ListSize(c.elements, p) /\ Extra(s) \in Nat /\ Before(s) \in Nat
      BY <2>1, <2>2, <2>5, <3>4, <3>6 DEF ListSize
    <3> QED BY <2>1, <3>1, <3>2, <3>5, <3>7
  <2> QED BY <2>4, <2>5
<1>5. CASE e.kind = "array"
  BY <1>5, ArrayWeighs
<1>6. CASE \/ e.kind \in {"break", "length", "dummy"}
           \/ e.kind = "field" /\ ~(IsFilled(Memory, s) /\ IsStruct(e.type))
  BY <1>0, <1>6, ClosedElementSize
<1> QED BY <1>2, <1>3, <1>4, <1>5, <1>6 DEF Kinds

\* Weights of statements, and of a list of them.
Weights(W) == [s \in W |-> Weight(s)]
Total(weights, t) == SumOf([k \in 1 .. Len(t) |-> weights[t[k]]])

LEMMA ListWeighs ==
    ASSUME WellNested, NEW type, NEW W, AllCount(Memory, type, W), NEW D, SizedIn(W, D),
           NEW list \in ElementLists, NEW p \in Paths, Reached(W, p, list),
           \A k \in 1 .. Len(list) : NestedIn(Statements(p, list)[k], D)
    PROVE  /\ Sized(list, p)
           /\ ListSize(list, p) = Total(Weights(W), Statements(p, list))
<1> DEFINE n == Len(list)
           t == Statements(p, list)
           a == [k \in 1 .. n |-> PrecomputedElementSize(PrecomputedSize, list[k])]
           b == [k \in 1 .. n |-> ElementSize(ExtraSize, p, list[k])]
           c == [k \in 1 .. Len(t) |-> Weights(W)[t[k]]]
<1>1. /\ n \in Nat /\ Len(t) = n
      /\ \A k \in 1 .. n : /\ t[k] = [at |-> p, elem |-> list[k], scope |-> list]
                           /\ list[k].kind \in Kinds
  BY StatementsFacts
<1>2. PrecomputedSize[list] = SumOf(a)
  BY PrecomputedDef DEF PreBody
<1>3. ExtraSize[list][p] = SumOf(b)
  <2>1. ExtraSize[list] = ExtraBody(ExtraSize, list)
    BY ExtraDef
  <2> QED BY <2>1 DEF ExtraBody
<1>4. ASSUME NEW k \in 1 .. n
      PROVE  /\ a[k] \in Nat /\ b[k] \in Nat /\ c[k] = a[k] + b[k]
  <2> DEFINE s == t[k]
  <2> DEFINE m == Len(list)
  <2>8. k \in 1 .. m
    BY DEF n
  <2>1. s \in W /\ NestedIn(s, D)
    <3>1. \A j \in 1 .. m : Statements(p, list)[j] \in W
      BY DEF Reached
    <3>2. \A j \in 1 .. m : NestedIn(Statements(p, list)[j], D)
      OBVIOUS
    <3> HIDE DEF m
    <3> QED BY <2>8, <3>1, <3>2 DEF t
  <2>7. s.at = p /\ s.elem = list[k] /\ s.elem.kind \in Kinds
    <3>1. s = [at |-> p, elem |-> list[k], scope |-> list] /\ list[k].kind \in Kinds
      BY <1>1
    <3> HIDE DEF s
    <3> QED BY <3>1
  <2> HIDE DEF s
  <2>3. Before(s) \in Nat /\ Extra(s) \in Nat
    BY <2>1, <2>7, ElementWeighs
  <2>4. a[k] = Before(s) /\ b[k] = Extra(s)
    BY <2>7 DEF Before, Extra
  <2>5. Weight(s) = Before(s) + Extra(s)
    BY <2>7 DEF Weight, Kinds
  <2>6. c[k] = Weight(s)
    BY <1>1, <2>1 DEF Weights, s
  <2> QED BY <2>3, <2>4, <2>5, <2>6
<1>5. DOMAIN a = 1 .. n /\ DOMAIN b = 1 .. n /\ DOMAIN c = 1 .. n
  BY <1>1
<1> HIDE DEF a, b, c, n
<1>6. (\A k \in 1 .. n : a[k] \in Nat) /\ (\A k \in 1 .. n : b[k] \in Nat)
  BY <1>4
<1>9. n \in Nat
  BY <1>1 DEF n
<1>7. SumOf(a) \in Nat /\ SumOf(b) \in Nat
  BY <1>5, <1>6, <1>9, SumIsNat
<1>8. SumOf(c) = SumOf(a) + SumOf(b)
  BY Zenon, <1>4, <1>5, <1>9, SumOfSums
<1> QED BY <1>2, <1>3, <1>7, <1>8 DEF Sized, ListSize, Total, c

\* Strong induction on the depth of the lists.
LEMMA AllAreSized ==
    ASSUME WellNested, NEW type, NEW W, AllCount(Memory, type, W)
    PROVE  SizedIn(W, ElementLists)
<1>1. PICK n \in Nat : \E depth \in [ElementLists -> 0 .. n] : Deeper(depth)
  BY DEF WellNested
<1>2. PICK depth \in [ElementLists -> 0 .. n] : Deeper(depth)
  BY <1>1
<1> DEFINE D(m) == {list \in ElementLists : depth[list] < m}
           T == {m \in Nat : SizedIn(W, D(m))}
<1>3. 0 \in T
  <2>1. D(0) = {}
    BY <1>2
  <2> QED BY <2>1 DEF SizedIn
<1>4. ASSUME NEW m \in Nat, m \in T PROVE m + 1 \in T
  <2> DEFINE L == D(m)
  <2>1. SizedIn(W, L)
    BY <1>4
  <2> SUFFICES ASSUME NEW list \in D(m + 1), NEW p \in Paths, Reached(W, p, list)
               PROVE  Sized(list, p)
    BY DEF SizedIn
  <2>2. list \in ElementLists /\ depth[list] <= m /\ depth[list] \in Int
    BY <1>2
  <2>3. ASSUME NEW k \in 1 .. Len(list) PROVE NestedIn(Statements(p, list)[k], L)
    <3>1. \A l \in ElementLists : depth[l] < depth[list] => l \in L
      BY <1>2, <2>2
    <3> HIDE DEF L
    <3> DEFINE e == list[k]
    <3>2. /\ e.kind \in Kinds
          /\ e.kind = "chunked" => /\ e.elements \in ElementLists
                                   /\ depth[e.elements] < depth[list]
          /\ e.kind = "switch" =>
                 \A value : ChosenCase(e, value) # None =>
                       /\ ChosenCase(e, value).elements \in ElementLists
                       /\ depth[ChosenCase(e, value).elements] < depth[list]
          /\ e.kind \in {"field", "array"} /\ IsStruct(e.type) =>
                 /\ Structs[e.type] \in ElementLists
                 /\ depth[Structs[e.type]] < depth[list]
      BY Zenon, <1>2, <2>2, NestedLess
    <3>3. e.kind # "item"
      BY <3>2 DEF Kinds
    <3> DEFINE s == Statements(p, list)[k]
    <3>4. s.elem = e
      <4>1. s = [at |-> p, elem |-> e, scope |-> list]
        BY <2>2, StatementsFacts
      <4> QED BY <4>1
    <3> HIDE DEF e, s
    <3> QED BY <3>1, <3>2, <3>3, <3>4 DEF NestedIn, TakenCase, s
  <2> HIDE DEF L, D
  <2> QED BY <2>1, <2>2, <2>3, ListWeighs
<1>5. n + 1 \in T
  <2> HIDE DEF T
  <2> QED BY <1>3, <1>4, Counting
<1>6. D(n + 1) = ElementLists
  BY <1>2
<1> QED BY <1>5, <1>6

LEMMA AllAreNested ==
    ASSUME NEW type, NEW W, AllCount(Memory, type, W), NEW s \in W
    PROVE  NestedIn(s, ElementLists)
<1>1. /\ Counts(Memory, s)
      /\ s.elem.kind = "chunked" => s.elem.elements \in ElementLists
      /\ s.elem.kind = "switch" /\ TakenCase(Memory, s) # None =>
             TakenCase(Memory, s).elements \in ElementLists
  BY StatementLeads
<1>2. IsStruct(s.elem.type) => Structs[s.elem.type] \in ElementLists
  BY ListsAssumption DEF IsStruct
<1> QED BY <1>1, <1>2 DEF NestedIn

LEMMA TotalOfNone == \A weights : Total(weights, << >>) = 0
<1> SUFFICES ASSUME NEW weights PROVE Total(weights, << >>) = 0
  OBVIOUS
<1> DEFINE c == [k \in 1 .. Len(<< >>) |-> weights[<< >>[k]]]
<1>1. c = << >>
  <2>1. Len(<< >>) = 0 /\ 1 .. 0 = {}
    OBVIOUS
  <2> QED BY <2>1
<1> QED BY <1>1, SumOfNone DEF Total

LEMMA TotalOfJoined ==
    ASSUME NEW W, NEW weights \in [W -> Nat], NEW t \in Seq(W), NEW u \in Seq(W)
    PROVE  /\ Total(weights, t) \in Nat /\ Total(weights, u) \in Nat
           /\ Total(weights, t \o u) = Total(weights, t) + Total(weights, u)
<1> DEFINE n == Len(t)
           m == Len(u)
           a == [k \in 1 .. n |-> weights[t[k]]]
           b == [k \in 1 .. m |-> weights[u[k]]]
           c == [k \in 1 .. Len(t \o u) |-> weights[(t \o u)[k]]]
<1>1. /\ n \in Nat /\ m \in Nat /\ Len(t \o u) = n + m
      /\ \A k \in 1 .. n : t[k] \in W /\ (t \o u)[k] = t[k]
      /\ \A k \in 1 .. m : u[k] \in W /\ (t \o u)[n + k] = u[k]
  OBVIOUS
<1>2. DOMAIN a = 1 .. n /\ DOMAIN b = 1 .. m /\ DOMAIN c = 1 .. n + m
  BY <1>1
<1>3. \A k \in 1 .. n : a[k] \in Nat /\ c[k] = a[k]
  BY <1>1
<1>4. \A k \in 1 .. m : b[k] \in Nat /\ c[n + k] = b[k]
  <2> SUFFICES ASSUME NEW k \in 1 .. m PROVE b[k] \in Nat /\ c[n + k] = b[k]
    BY Zenon
  <2>1. n + k \in 1 .. n + m
    BY <1>1
  <2> QED BY <1>1, <2>1
<1>5. Total(weights, t) = SumOf(a) /\ Total(weights, u) = SumOf(b)
      /\ Total(weights, t \o u) = SumOf(c)
  BY DEF Total
<1> HIDE DEF a, b, c, n, m
<1>6. n \in Nat /\ m \in Nat
  BY <1>1 DEF n, m
<1>7. (\A k \in 1 .. n : a[k] \in Nat) /\ (\A k \in 1 .. m : b[k] \in Nat)
  BY <1>3, <1>4
<1>8. SumOf(a) \in Nat /\ SumOf(b) \in Nat
  BY <1>2, <1>6, <1>7, SumIsNat
<1>9. SumOf(c) = SumOf(a) + SumOf(b)
  <2>1. Joined(a, b, c, n, m)
    BY <1>2, <1>3, <1>4, <1>6 DEF Joined
  <2> QED BY <2>1, SumOfJoined
<1> QED BY <1>5, <1>8, <1>9

AddUp(W, weights) ==
    /\ \A x \in W : Total(weights, <<x>>) = weights[x]
    /\ \A x, y \in W : Total(weights, <<x, y>>) = weights[x] + weights[y]
    /\ \A x, y, z \in W : Total(weights, <<x, y, z>>) = weights[x] + weights[y] + weights[z]

LEMMA TotalOfFew ==
    ASSUME NEW W, NEW weights \in [W -> Nat]
    PROVE  AddUp(W, weights)
<1>1. ASSUME NEW a \in W PROVE Total(weights, <<a>>) = weights[a] /\ <<a>> \in Seq(W)
  <2> DEFINE f == [k \in 1 .. Len(<<a>>) |-> weights[<<a>>[k]]]
  <2>1. DOMAIN f = 1 .. 1 /\ \A k \in 1 .. 1 : f[k] = weights[a]
    OBVIOUS
  <2>2. weights[a] \in Nat /\ 1 * weights[a] = weights[a]
    OBVIOUS
  <2> HIDE DEF f
  <2>3. SumOf(f) = 1 * weights[a]
    BY Zenon, <2>1, <2>2, SumOfEquals
  <2> QED BY <2>2, <2>3 DEF Total, f
<1>4. \A a, b, c : <<a>> \o <<b>> = <<a, b>> /\ <<a>> \o <<b>> \o <<c>> = <<a, b, c>>
  BY Zenon, OneByOne
<1>2. ASSUME NEW x \in W, NEW y \in W
      PROVE  Total(weights, <<x>> \o <<y>>) = weights[x] + weights[y]
  <2> DEFINE p == <<x>>
             q == <<y>>
  <2>1. /\ p \in Seq(W) /\ q \in Seq(W)
        /\ Total(weights, p) = weights[x] /\ Total(weights, q) = weights[y]
    BY <1>1
  <2> HIDE DEF p, q
  <2>2. Total(weights, p \o q) = weights[x] + weights[y]
    BY Zenon, <2>1, TotalOfJoined
  <2> QED BY <2>2 DEF p, q
<1>3. ASSUME NEW x \in W, NEW y \in W, NEW z \in W
      PROVE  Total(weights, <<x>> \o <<y>> \o <<z>>) = weights[x] + weights[y] + weights[z]
  <2> DEFINE p == <<x>> \o <<y>>
             q == <<z>>
  <2>1. /\ p \in Seq(W) /\ q \in Seq(W)
        /\ Total(weights, p) = weights[x] + weights[y] /\ Total(weights, q) = weights[z]
    BY <1>1, <1>2
  <2> HIDE DEF p, q
  <2>2. Total(weights, p \o q) = weights[x] + weights[y] + weights[z]
    BY Zenon, <2>1, TotalOfJoined
  <2> QED BY <2>2 DEF p, q
<1>5. ASSUME NEW x \in W, NEW y \in W
      PROVE  Total(weights, <<x, y>>) = weights[x] + weights[y]
  BY Zenon, <1>2, <1>4
<1>6. ASSUME NEW x \in W, NEW y \in W, NEW z \in W
      PROVE  Total(weights, <<x, y, z>>) = weights[x] + weights[y] + weights[z]
  <2> DEFINE p == <<x>> \o <<y>> \o <<z>>
  <2>1. p = <<x, y, z>>
    BY <1>4
  <2>2. Total(weights, p) = weights[x] + weights[y] + weights[z]
    BY <1>3
  <2> HIDE DEF p
  <2> QED BY <2>1, <2>2
<1> QED BY <1>1, <1>5, <1>6 DEF AddUp

\* Each statement weighs what it writes itself, and what it puts in its place.
Weighs(m, W, weights) ==
    /\ weights \in [W -> Nat]
    /\ \A s \in W : /\ OwnBytes(m, s) \in Nat
                    /\ weights[s] = OwnBytes(m, s) + Total(weights, Opened(m, s))

LEMMA LoopSums ==
    ASSUME WellNested, NEW type, NEW W, AllCount(Memory, type, W),
           NEW s \in W, s.elem.kind = "loop"
    PROVE  LET i == s.elem.i
               f == ItemSizes(s.at, s.elem.array, i, s.elem.n)
               g == ItemSizes(s.at, s.elem.array, i + 1, s.elem.n)
           IN  /\ SumOf(f) \in Nat
               /\ i < s.elem.n => /\ Weight(ItemOf(s, i)) \in Nat /\ SumOf(g) \in Nat
                                  /\ SumOf(f) = Weight(ItemOf(s, i)) + SumOf(g)
<1> DEFINE i == s.elem.i
           n == s.elem.n
           e == s.elem.array
           f == ItemSizes(s.at, e, i, n)
           g == ItemSizes(s.at, e, i + 1, n)
<1>1. LoopCounts(s)
  BY StatementLeads DEF Counts
<1>2. i \in Nat /\ n \in Nat /\ i <= n /\ {"kind", "type"} \subseteq DOMAIN e
  BY <1>1 DEF LoopCounts
<1>3. SizedIn(W, ElementLists)
  BY AllAreSized
<1>4. ASSUME NEW j \in i .. n - 1
      PROVE  /\ Weight(ItemOf(s, j)) \in Nat
             /\ Weight(ItemOf(s, j)) = ItemSize(ExtraSize, Item(s.at, e.name, j), e)
  <2> DEFINE u == ItemOf(s, j)
  <2>1. u \in W
    BY ItemsAreListed
  <2>2. u.elem.kind = "item" /\ u.elem.type = e.type /\ u.at = Item(s.at, e.name, j)
    BY <1>2 DEF ItemOf
  <2> HIDE DEF u
  <2>3. NestedIn(u, ElementLists)
    BY <2>1, AllAreNested
  <2>4. Weight(u) \in Nat /\ Weight(u) = ItemSize(ExtraSize, u.at, u.elem)
    BY <1>3, <2>1, <2>2, <2>3, ItemWeighs
  <2>5. ItemSize(ExtraSize, u.at, u.elem) = ItemSize(ExtraSize, u.at, e)
    BY <2>2 DEF ItemSize, ItemNumber
  <2> QED BY <2>2, <2>4, <2>5 DEF u
<1>5. n - i \in Nat /\ DOMAIN f = 1 .. n - i
  BY <1>2 DEF ItemSizes
<1>6. ASSUME NEW k \in 1 .. n - i
      PROVE  f[k] \in Nat /\ f[k] = Weight(ItemOf(s, i + k - 1))
  <2>1. i + k - 1 \in i .. n - 1
    BY <1>2
  <2>2. f[k] = ItemSize(ExtraSize, Item(s.at, e.name, i + k - 1), e)
    BY DEF ItemSizes
  <2> QED BY <1>4, <2>1, <2>2
<1> HIDE DEF f
<1>7. SumOf(f) \in Nat
  <2> DEFINE r == n - i
  <2>1. r \in Nat /\ DOMAIN f = 1 .. r /\ \A k \in 1 .. r : f[k] \in Nat
    BY <1>5, <1>6
  <2> HIDE DEF r
  <2> QED BY <2>1, SumIsNat
<1>8. ASSUME i < n
      PROVE  /\ Weight(ItemOf(s, i)) \in Nat /\ SumOf(g) \in Nat
             /\ SumOf(f) = Weight(ItemOf(s, i)) + SumOf(g)
  <2> DEFINE r == n - (i + 1)
             x == Weight(ItemOf(s, i))
             a == <<x>>
  <2>1. r \in Nat /\ DOMAIN g = 1 .. r /\ 1 + r = n - i
    BY <1>2, <1>8 DEF ItemSizes
  <2>2. x \in Nat
    <3>1. i \in i .. n - 1
      BY <1>2, <1>8
    <3> QED BY <1>4, <3>1
  <2>3. \A k \in 1 .. 1 : a[k] \in Nat /\ f[k] = a[k]
    <3>1. 1 \in 1 .. n - i /\ i + 1 - 1 = i
      BY <1>2, <1>8
    <3>2. f[1] = x
      BY <1>6, <3>1
    <3> HIDE DEF x
    <3> QED BY <2>2, <3>2
  <2>4. ASSUME NEW k \in 1 .. r PROVE g[k] \in Nat /\ f[1 + k] = g[k]
    <3>1. 1 + k \in 1 .. n - i /\ (i + 1) + k - 1 = i + (1 + k) - 1
      BY <1>2, <2>1
    <3>2. g[k] = ItemSize(ExtraSize, Item(s.at, e.name, (i + 1) + k - 1), e)
      BY DEF ItemSizes
    <3>3. i + (1 + k) - 1 \in i .. n - 1
      BY <1>2, <3>1
    <3>4. g[k] \in Nat /\ g[k] = Weight(ItemOf(s, i + (1 + k) - 1))
      BY <1>4, <3>1, <3>2, <3>3
    <3> QED BY <1>6, <3>1, <3>4
  <2>5. DOMAIN f = 1 .. 1 + r
    BY <1>5, <2>1
  <2>6. DOMAIN a = 1 .. 1 /\ \A k \in 1 .. 1 : a[k] = x
    OBVIOUS
  <2> HIDE DEF r, x, a, g
  <2>7. SumOf(a) = 1 * x
    BY Zenon, <2>2, <2>6, SumOfEquals
  <2>8. SumOf(f) = SumOf(a) + SumOf(g)
    <3> DEFINE d == 1
    <3>1. /\ d \in Nat /\ DOMAIN a = 1 .. d /\ DOMAIN f = 1 .. d + r
          /\ \A k \in 1 .. d : a[k] \in Nat /\ f[k] = a[k]
          /\ \A k \in 1 .. r : g[k] \in Nat /\ f[d + k] = g[k]
      BY <2>3, <2>4, <2>5, <2>6
    <3> HIDE DEF d
    <3>2. Joined(a, g, f, d, r)
      BY <2>1, <3>1 DEF Joined
    <3> QED BY <3>2, SumOfJoined
  <2>9. \A k \in 1 .. r : g[k] \in Nat
    BY <2>4
  <2>10. SumOf(g) \in Nat
    BY <2>1, <2>9, SumIsNat
  <2> QED BY <2>2, <2>7, <2>8, <2>10 DEF x
<1> QED BY <1>7, <1>8 DEF f

LEMMA RoundWeighs ==
    ASSUME WellNested, NEW type, NEW W, AllCount(Memory, type, W),
           NEW s \in W, s.elem.kind = "loop", NEW weights \in [W -> Nat],
           \A u \in W : weights[u] = Weight(u)
    PROVE  weights[s] = Total(weights, Opened(Memory, s))
<1> DEFINE e == s.elem.array
           i == s.elem.i
           n == s.elem.n
           f == ItemSizes(s.at, e, i, n)
           g == ItemSizes(s.at, e, i + 1, n)
           item == ItemOf(s, i)
           rest == LoopFrom(s, i + 1)
<1>1. LoopCounts(s) /\ s = [at |-> s.at, elem |-> s.elem, scope |-> s.scope]
  BY StatementLeads DEF Counts
<1>2. i \in Nat /\ n \in Nat /\ i <= n
  BY <1>1 DEF LoopCounts
<1>3. Opened(Memory, s) = NextRound(s)
  BY DEF Opened
<1>4. weights[s] = RestDelimiters(e, i, n) + SumOf(f)
  BY DEF Weight
<1>5. CASE ~(i < n)
  <2>1. Total(weights, Opened(Memory, s)) = 0
    BY <1>1, <1>3, <1>5, RoundFacts, TotalOfNone
  <2>2. RestDelimiters(e, i, n) = 0
    BY <1>2, <1>5 DEF RestDelimiters
  <2>3. SumOf(f) = 0
    <3> DEFINE c == f
               z == 0
    <3>1. DOMAIN c = 1 .. z /\ \A k \in 1 .. z : c[k] = z
      BY <1>2, <1>5 DEF ItemSizes
    <3>2. z \in Nat /\ z * z = 0
      OBVIOUS
    <3> HIDE DEF c, z
    <3>3. SumOf(c) = z * z
      BY <3>1, <3>2, SumOfEquals
    <3> QED BY <3>2, <3>3 DEF c
  <2> QED BY <1>4, <2>1, <2>2, <2>3
<1>6. CASE i < n
  <2>1. item \in W /\ rest \in W
    BY <1>6, RoundIsListed
  <2>2. /\ weights[item] \in Nat /\ weights[rest] \in Nat
        /\ SumOf(f) = weights[item] + SumOf(g) /\ SumOf(g) \in Nat
    BY <1>6, <2>1, LoopSums
  <2>3. weights[rest] = RestDelimiters(e, i + 1, n) + SumOf(g)
    <3>1. /\ rest.elem.kind = "loop" /\ rest.elem.array = e /\ rest.elem.i = i + 1
          /\ rest.elem.n = n /\ rest.at = s.at
      BY DEF LoopFrom
    <3> HIDE DEF rest
    <3> QED BY <2>1, <3>1 DEF Weight
  <2>4. NextRound(s) = IF ~e.delimited THEN <<item, rest>>
                       ELSE IF e.trailing THEN <<item, BreakStatement, rest>>
                       ELSE IF i > 0 THEN <<BreakStatement, item, rest>>
                       ELSE <<item, rest>>
    BY <1>1, <1>6, RoundFacts
  <2>5. BreakStatement \in W => weights[BreakStatement] = 1
    <3>1. BreakStatement.elem.kind = "break"
      BY DEF BreakStatement
    <3>2. Weight(BreakStatement) = 1
      BY <3>1 DEF Weight, Before, Extra, PrecomputedElementSize, ElementSize
    <3> QED BY <3>2
  <2>6. \A k \in 1 .. Len(NextRound(s)) : NextRound(s)[k] \in W
    <3>1. \A k \in 1 .. Len(Opened(Memory, s)) : Opened(Memory, s)[k] \in W
      BY Zenon DEF AllCount
    <3> QED BY <1>3, <3>1
  <2> DEFINE r == NextRound(s)
  <2> HIDE DEF item, rest, f, g, r, e, i, n
  <2>11. i \in Nat /\ n \in Nat /\ i < n
    BY <1>2, <1>6 DEF i, n
  <2>12. /\ \A x, y \in W : Total(weights, <<x, y>>) = weights[x] + weights[y]
         /\ \A x, y, z \in W :
               Total(weights, <<x, y, z>>) = weights[x] + weights[y] + weights[z]
    <3>1. AddUp(W, weights)
      BY TotalOfFew
    <3> QED BY <3>1 DEF AddUp
  <2>7. CASE r = <<item, rest>> /\ RestDelimiters(e, i, n) = RestDelimiters(e, i + 1, n)
    <3>1. Total(weights, r) = weights[item] + weights[rest]
      <4>1. Total(weights, <<item, rest>>) = weights[item] + weights[rest]
        BY <2>1, <2>12
      <4> QED BY <2>7, <4>1
    <3>2. RestDelimiters(e, i + 1, n) \in Int
      BY <2>11 DEF RestDelimiters
    <3> QED BY <1>3, <1>4, <2>2, <2>3, <2>7, <3>1, <3>2 DEF r
  <2>8. CASE /\ r = <<item, BreakStatement, rest>> \/ r = <<BreakStatement, item, rest>>
             /\ RestDelimiters(e, i, n) = 1 + RestDelimiters(e, i + 1, n)
    <3>1. BreakStatement \in W
      <4>1. \A a, b, c : Len(<<a, b, c>>) = 3 /\ <<a, b, c>>[1] = a /\ <<a, b, c>>[2] = b
        OBVIOUS
      <4>2. 1 \in 1 .. 3 /\ 2 \in 1 .. 3
        OBVIOUS
      <4>3. \A k \in 1 .. Len(r) : r[k] \in W
        BY <2>6 DEF r
      <4>4. CASE r = <<item, BreakStatement, rest>>
        <5>1. Len(r) = 3 /\ r[2] = BreakStatement
          BY <4>1, <4>4
        <5> QED BY <4>2, <4>3, <5>1
      <4>5. CASE r = <<BreakStatement, item, rest>>
        <5>1. Len(r) = 3 /\ r[1] = BreakStatement
          BY <4>1, <4>5
        <5> QED BY <4>2, <4>3, <5>1
      <4> QED BY <2>8, <4>4, <4>5
    <3>2. weights[BreakStatement] = 1
      BY <2>5, <3>1
    <3>3. \/ Total(weights, r) = weights[item] + weights[BreakStatement] + weights[rest]
          \/ Total(weights, r) = weights[BreakStatement] + weights[item] + weights[rest]
      <4>1. /\ Total(weights, <<item, BreakStatement, rest>>) =
                   weights[item] + weights[BreakStatement] + weights[rest]
            /\ Total(weights, <<BreakStatement, item, rest>>) =
                   weights[BreakStatement] + weights[item] + weights[rest]
        BY <2>1, <2>12, <3>1
      <4> QED BY <2>8, <4>1
    <3>4. RestDelimiters(e, i + 1, n) \in Int
      BY <2>11 DEF RestDelimiters
    <3> QED BY <1>3, <1>4, <2>2, <2>3, <2>8, <3>2, <3>3, <3>4 DEF r
  <2>9. RestDelimiters(e, i, n) =
           IF e.delimited /\ (e.trailing \/ i > 0) THEN 1 + RestDelimiters(e, i + 1, n)
           ELSE RestDelimiters(e, i + 1, n)
    BY <2>11 DEF RestDelimiters
  <2>10. r = IF ~e.delimited THEN <<item, rest>>
             ELSE IF e.trailing THEN <<item, BreakStatement, rest>>
             ELSE IF i > 0 THEN <<BreakStatement, item, rest>> ELSE <<item, rest>>
    BY <2>4 DEF r
  <2> QED BY <2>7, <2>8, <2>9, <2>10
<1> QED BY <1>5, <1>6

LEMMA WeightsFit ==
    ASSUME WellNested, NEW type, NEW W, AllCount(Memory, type, W)
    PROVE  Weighs(Memory, W, Weights(W))
<1> DEFINE weights == Weights(W)
<1>1. SizedIn(W, ElementLists)
  BY AllAreSized
<1>2. \A s \in W : Counts(Memory, s) /\ NestedIn(s, ElementLists)
  BY AllAreNested, StatementLeads
<1>3. ASSUME NEW list \in ElementLists, NEW p \in Paths, Reached(W, p, list)
      PROVE  ListSize(list, p) = Total(weights, Statements(p, list))
  <2>1. \A k \in 1 .. Len(list) : NestedIn(Statements(p, list)[k], ElementLists)
    BY <1>2, <1>3 DEF Reached
  <2> QED BY <1>1, <1>3, <2>1, ListWeighs
<1>4. \A s \in W : weights[s] = Weight(s)
  BY DEF Weights
<1>5. ASSUME NEW s \in W PROVE weights[s] \in Nat
  <2>1. s.elem.kind \in Kinds \cup {"item", "loop", "leave"}
    BY <1>2 DEF Counts
  <2>2. CASE s.elem.kind \in Kinds
    <3>1. Before(s) \in Nat /\ Extra(s) \in Nat
      BY <1>1, <1>2, <2>2, ElementWeighs
    <3>2. Weight(s) = Before(s) + Extra(s)
      BY <2>2 DEF Weight, Kinds
    <3> QED BY <1>4, <3>1, <3>2
  <2>3. CASE s.elem.kind = "item"
    BY <1>1, <1>2, <1>4, <2>3, ItemWeighs
  <2>4. CASE s.elem.kind = "loop"
    <3> DEFINE f == ItemSizes(s.at, s.elem.array, s.elem.i, s.elem.n)
    <3>1. SumOf(f) \in Nat
      BY <2>4, LoopSums
    <3>2. s.elem.i \in Nat /\ s.elem.n \in Nat /\ s.elem.i <= s.elem.n
      BY Zenon, <1>2, <2>4 DEF Counts, LoopCounts
    <3>3. RestDelimiters(s.elem.array, s.elem.i, s.elem.n) \in Nat
      BY <3>2 DEF RestDelimiters
    <3>4. Weight(s) = RestDelimiters(s.elem.array, s.elem.i, s.elem.n) + SumOf(f)
      BY <2>4 DEF Weight
    <3> HIDE DEF f
    <3> QED BY <1>4, <3>1, <3>3, <3>4
  <2>5. CASE s.elem.kind = "leave"
    BY <1>4, <2>5 DEF Weight
  <2> QED BY <2>1, <2>2, <2>3, <2>4, <2>5
<1>6. weights \in [W -> Nat]
  BY <1>5 DEF Weights
<1> HIDE DEF weights
<1>7. ASSUME NEW s \in W PROVE weights[s] = OwnBytes(Memory, s) + Total(weights, Opened(Memory, s))
  <2>1. s.elem.kind \in Kinds \cup {"item", "loop", "leave"}
    BY <1>2 DEF Counts
  <2>2. CASE s.elem.kind \in Kinds /\ s.elem.kind # "array"
    <3>1. weights[s] = Before(s) + Extra(s)
      BY <1>4, <2>2 DEF Weight, Kinds
    <3>2. \/ Opened(Memory, s) = << >> /\ Before(s) + Extra(s) = OwnBytes(Memory, s)
          \/ \E list \in ElementLists : \E p \in Paths :
                /\ Opened(Memory, s) = Statements(p, list) /\ Reached(W, p, list)
                /\ OwnBytes(Memory, s) = 0
                /\ Before(s) + Extra(s) = ListSize(list, p)
      BY <1>1, <1>2, <2>2, ElementWeighs
    <3>3. weights[s] \in Nat
      BY <1>6
    <3> QED BY <1>3, <3>1, <3>2, <3>3, TotalOfNone
  <2>3. CASE s.elem.kind = "array"
    <3> DEFINE n == ItemsIn(Memory, s)
    <3>1. weights[s] = Before(s) + Extra(s) /\ OwnBytes(Memory, s) = 0
      BY <1>4, <2>3 DEF Weight, OwnBytes, IsLiteral
    <3>2. IF IsThere(Memory, s)
          THEN Before(s) + Extra(s) =
                   RestDelimiters(s.elem, 0, n) + SumOf(ItemSizes(s.at, s.elem, 0, n))
          ELSE Before(s) + Extra(s) = 0
      BY <1>1, <1>2, <2>3, ArrayWeighs
    <3>3. CASE ~IsThere(Memory, s)
      <4>1. Opened(Memory, s) = << >>
        BY <2>3, <3>3 DEF Opened
      <4> QED BY <3>1, <3>2, <3>3, <4>1, TotalOfNone
    <3>4. CASE IsThere(Memory, s)
      <4> DEFINE u == [at |-> s.at, scope |-> << >>,
                       elem |-> [kind |-> "loop", array |-> s.elem, i |-> 0, n |-> n]]
      <4>1. Opened(Memory, s) = <<u>>
        BY <2>3, <3>4 DEF Opened, LoopOver, Statement
      <4>2. u.elem.kind = "loop" /\ u.elem.i = 0 /\ u.elem.n = n
            /\ u.elem.array = s.elem /\ u.at = s.at
        OBVIOUS
      <4> HIDE DEF u
      <4>3. u \in W
        <5>1. \A k \in 1 .. Len(Opened(Memory, s)) : Opened(Memory, s)[k] \in W
          BY Zenon DEF AllCount
        <5>2. Len(<<u>>) = 1 /\ <<u>>[1] = u /\ 1 \in 1 .. 1
          OBVIOUS
        <5> QED BY <4>1, <5>1, <5>2
      <4>4. weights[u] = RestDelimiters(s.elem, 0, n) + SumOf(ItemSizes(s.at, s.elem, 0, n))
        BY <1>4, <4>2, <4>3 DEF Weight
      <4>5. Total(weights, Opened(Memory, s)) = weights[u] /\ weights[u] \in Nat
        <5>1. \A x \in W : Total(weights, <<x>>) = weights[x]
          <6>1. AddUp(W, weights)
            BY <1>6, TotalOfFew
          <6> QED BY Zenon, <6>1 DEF AddUp
        <5> QED BY <1>6, <4>1, <4>3, <5>1
      <4> QED BY <3>1, <3>2, <3>4, <4>4, <4>5
    <3> QED BY <3>3, <3>4
  <2>4. CASE s.elem.kind = "item"
    <3>1. /\ weights[s] = Weight(s) /\ weights[s] \in Nat
          /\ IsStruct(s.elem.type) =>
                Weight(s) = ListSize(Structs[s.elem.type], Place(s)) /\ OwnBytes(Memory, s) = 0
          /\ ~IsStruct(s.elem.type) => Weight(s) = OwnBytes(Memory, s)
      BY <1>1, <1>2, <1>4, <1>6, <2>4, ItemWeighs
    <3>2. Opened(Memory, s) = IF IsStruct(s.elem.type)
                              THEN Statements(Place(s), Structs[s.elem.type]) ELSE << >>
      BY <2>4 DEF Opened, IsFilled
    <3>3. CASE IsStruct(s.elem.type)
      <4>1. /\ Structs[s.elem.type] \in ElementLists /\ Place(s) \in Paths
            /\ Reached(W, Place(s), Structs[s.elem.type])
        BY <2>4, <3>3, StatementLeads DEF IsFilled
      <4> QED BY <1>3, <3>1, <3>2, <3>3, <4>1
    <3>4. CASE ~IsStruct(s.elem.type)
      BY <3>1, <3>2, <3>4, TotalOfNone
    <3> QED BY <3>3, <3>4
  <2>5. CASE s.elem.kind = "loop"
    <3>1. OwnBytes(Memory, s) = 0
      BY <2>5 DEF OwnBytes, IsLiteral
    <3>2. weights[s] = Total(weights, Opened(Memory, s)) /\ weights[s] \in Nat
      BY <1>4, <1>6, <2>5, RoundWeighs
    <3> QED BY <3>1, <3>2
  <2>6. CASE s.elem.kind = "leave"
    <3>1. OwnBytes(Memory, s) = 0 /\ Opened(Memory, s) = << >> /\ weights[s] = 0
      BY <1>4, <2>6 DEF OwnBytes, IsLiteral, Opened, Weight
    <3> QED BY <3>1, TotalOfNone
  <2> QED BY <2>1, <2>2, <2>3, <2>4, <2>5, <2>6
<1>8. ASSUME NEW s \in W PROVE OwnBytes(Memory, s) \in Nat
  <2>1. s.elem.kind \in Kinds \cup {"item", "loop", "leave"}
    BY <1>2 DEF Counts
  <2>2. CASE s.elem.kind \in Kinds /\ s.elem.kind # "array"
    <3>1. /\ Before(s) \in Nat /\ Extra(s) \in Nat
          /\ Before(s) + Extra(s) = OwnBytes(Memory, s) \/ OwnBytes(Memory, s) = 0
      BY <1>1, <1>2, <2>2, ElementWeighs
    <3> QED BY <3>1
  <2>3. CASE s.elem.kind = "item"
    <3>1. /\ Weight(s) \in Nat
          /\ OwnBytes(Memory, s) = 0 \/ OwnBytes(Memory, s) = Weight(s)
      BY <1>1, <1>2, <2>3, ItemWeighs
    <3> QED BY <3>1
  <2>4. CASE s.elem.kind \in {"array", "loop", "leave"}
    BY <2>4 DEF OwnBytes, IsLiteral
  <2> QED BY <2>1, <2>2, <2>3, <2>4
<1> QED BY <1>6, <1>7, <1>8 DEF Weighs, weights

-----------------------------------------------------------------------------
(* What a writer is longer by after an add that succeeds; it does not grow  *)
(* if there is room.                                                        *)

Lengthens(ret, n) ==
    ret.result = "EO_SUCCESS" =>
        /\ ret.writer \in Writer /\ ret.writer.sanitize = writer.sanitize
        /\ Len(ret.writer.data) = Len(writer.data) + n
        /\ Len(writer.data) + n <= writer.capacity => ret.writer.capacity = writer.capacity

LEMMA AppendLengthens ==
    ASSUME writer \in Writer, NEW s \in Seq(Byte), NEW fail
    PROVE  /\ Lengthens(EnsureAndAppend(writer, s, fail), Len(s))
           /\ Lengthens(AppendEncoded(writer, s, fail), Len(s))
<1> DEFINE w == writer
           e == EnsureCapacity(w, Len(s), fail)
<1>1. /\ w.data \in Seq(Byte) /\ w.capacity \in Nat /\ w.block \in Nat /\ w.sanitize \in BOOLEAN
      /\ Len(w.data) \in Nat /\ Len(s) \in Nat
  BY DEF Writer
<1>2. /\ e.writer \in Writer /\ e.writer.data = w.data /\ e.writer.sanitize = w.sanitize
      /\ Len(w.data) + Len(s) <= w.capacity => e.writer.capacity = w.capacity
  <2> DEFINE r == Len(w.data) + Len(s)
             g == [w EXCEPT !.capacity = r, !.block = r]
  <2>1. r \in Nat
    BY <1>1
  <2>2. \/ e.writer = w
        \/ e.writer = g /\ ~(w.capacity >= r)
    BY DEF EnsureCapacity, Ok, Refused, WLength
  <2>3. g \in Writer /\ g.data = w.data /\ g.sanitize = w.sanitize
    <3> HIDE DEF r
    <3> QED BY Zenon, <1>1, <2>1 DEF Writer
  <2> HIDE DEF e, r, g
  <2>4. r <= w.capacity => w.capacity >= r
    BY <1>1, <2>1
  <2>5. CASE e.writer = w
    BY <2>5
  <2>6. CASE e.writer = g /\ ~(w.capacity >= r)
    BY <2>3, <2>4, <2>6 DEF r
  <2> QED BY <2>2, <2>5, <2>6
<1> HIDE DEF e
<1>3. ASSUME NEW t \in Seq(Byte), Len(t) = Len(s)
      PROVE  LET x == Put(e.writer, t)
             IN  /\ x \in Writer /\ x.sanitize = w.sanitize
                 /\ Len(x.data) = Len(w.data) + Len(s)
                 /\ Len(w.data) + Len(s) <= w.capacity => x.capacity = w.capacity
  <2> DEFINE d == w.data
  <2>1. d \o t \in Seq(Byte) /\ Len(d \o t) = Len(d) + Len(t)
    BY <1>1
  <2>2. Put(e.writer, t) = [e.writer EXCEPT !.data = d \o t]
    BY <1>2 DEF Put
  <2> HIDE DEF d
  <2> QED BY Zenon, <1>2, <1>3, <2>1, <2>2 DEF Writer, d
<1>4. /\ EnsureAndAppend(w, s, fail) = IF e.result # "EO_SUCCESS" THEN e
                                       ELSE Ok(Put(e.writer, s))
      /\ AppendEncoded(w, s, fail) =
            IF e.result # "EO_SUCCESS" THEN e
            ELSE IF fail = "scratch" THEN Refused(e.writer, "EO_ALLOC_FAILED")
            ELSE Ok(Put(e.writer, EncodeString(s)))
  BY DEF EnsureAndAppend, AppendEncoded, e
<1>5. \A x : Ok(x).writer = x /\ Refused(x, "EO_ALLOC_FAILED").result # "EO_SUCCESS"
  BY DEF Ok, Refused
<1>6. EncodeString(s) \in Seq(Byte) /\ Len(EncodeString(s)) = Len(s)
  BY EncodeStringFacts
<1>7. Lengthens(EnsureAndAppend(w, s, fail), Len(s))
  <2>1. CASE e.result # "EO_SUCCESS"
    BY <1>4, <2>1 DEF Lengthens
  <2>2. CASE e.result = "EO_SUCCESS"
    <3>1. EnsureAndAppend(w, s, fail).writer = Put(e.writer, s)
      BY <1>4, <1>5, <2>2
    <3> QED BY <1>3, <3>1 DEF Lengthens
  <2> QED BY <2>1, <2>2
<1>8. Lengthens(AppendEncoded(w, s, fail), Len(s))
  <2>1. CASE e.result # "EO_SUCCESS"
    BY <1>4, <2>1 DEF Lengthens
  <2>2. CASE e.result = "EO_SUCCESS" /\ fail = "scratch"
    BY <1>4, <1>5, <2>2 DEF Lengthens
  <2>3. CASE e.result = "EO_SUCCESS" /\ fail # "scratch"
    <3>1. AppendEncoded(w, s, fail).writer = Put(e.writer, EncodeString(s))
      BY <1>4, <1>5, <2>3
    <3> QED BY <1>3, <1>6, <3>1 DEF Lengthens
  <2> QED BY <2>1, <2>2, <2>3
<1> QED BY <1>7, <1>8

LEMMA NumberLengthens ==
    ASSUME writer \in Writer, NEW type \in NumberKinds, NEW value \in Int32, NEW fail
    PROVE  Lengthens(AddTyped(type, value, fail), ByteSize(type))
<1>1. ASSUME NEW n \in 1 .. 4, NEW x \in Int32
      PROVE  Lengthens(AddNumber(writer, n, x, fail), n)
  <2>1. Encoded(n, x) \in Seq(Byte) /\ Len(Encoded(n, x)) = n
    BY Zenon, EncodedWidth
  <2>2. InvalidNumber[n] # "EO_SUCCESS" /\ Refused(writer, InvalidNumber[n]).result = InvalidNumber[n]
    BY DEF InvalidNumber, Refused
  <2>3. CASE ~Accepts(n, x)
    BY <2>2, <2>3 DEF AddNumber, Lengthens
  <2>4. CASE Accepts(n, x)
    <3>1. Lengthens(EnsureAndAppend(writer, Encoded(n, x), fail), n)
      BY <2>1, AppendLengthens
    <3> QED BY <2>4, <3>1 DEF AddNumber
  <2> QED BY <2>3, <2>4
<1>2. ByteSize(type) \in 1 .. 4 /\ (type \in {"byte", "bool"} => ByteSize(type) = 1)
  BY SizesOfTypes
<1>3. CASE type = "byte"
  <2> DEFINE b == value % (CharMax + 3)
  <2>1. b \in Byte
    <3>1. value \in Int /\ CharMax \in Nat
      BY NumberTypes, NumberAssumption DEF Int32
    <3> QED BY <3>1 DEF Byte
  <2> HIDE DEF b
  <2>2. <<b>> \in Seq(Byte) /\ Len(<<b>>) = 1
    BY <2>1
  <2>3. AddTyped(type, value, fail) = EnsureAndAppend(writer, <<b>>, fail)
    BY <1>3 DEF AddTyped, AddBytes, b
  <2>4. Lengthens(EnsureAndAppend(writer, <<b>>, fail), Len(<<b>>))
    BY Zenon, <2>2, AppendLengthens
  <2> QED BY <1>2, <1>3, <2>2, <2>3, <2>4
<1>4. CASE type = "bool"
  <2> DEFINE b == IF value # 0 THEN 1 ELSE 0
  <2>1. b \in Int32 /\ AddTyped(type, value, fail) = AddNumber(writer, 1, b, fail)
    BY <1>4, BitsAreNumbers DEF AddTyped
  <2>2. Lengthens(AddNumber(writer, 1, b, fail), 1)
    BY <1>1, <2>1
  <2> QED BY <1>2, <1>4, <2>1, <2>2
<1>5. CASE type \notin {"byte", "bool"}
  <2>1. AddTyped(type, value, fail) = AddNumber(writer, ByteSize(type), value, fail)
    BY <1>5 DEF AddTyped, NumberKinds
  <2> QED BY <1>1, <1>2, <2>1
<1> QED BY <1>3, <1>4, <1>5

LEMMA TextLengthens ==
    ASSUME writer \in Writer, NEW type, IsString(type), NEW text \in Seq(Char) \cup {NULL}, NEW fail
    PROVE  /\ Lengthens(AddTyped(type, text, fail), IF text = NULL THEN 0 ELSE Len(text))
           /\ \A length \in Nat : \A padded : text # NULL =>
                 Lengthens(AddFixed(type, text, length, padded, fail), length)
<1>1. type \in {"string", "encoded_string"}
  BY DEF IsString
<1>2. \A w, error : Refused(w, error).result = error /\ Ok(w).writer = w /\ Ok(w).result = "EO_SUCCESS"
  BY DEF Refused, Ok
<1>3. CASE text = NULL
  <2>1. AddTyped(type, text, fail) = Ok(writer)
    BY <1>1, <1>3 DEF AddTyped, AddString, AddEncodedString
  <2>2. Len(writer.data) \in Nat
    BY DEF Writer
  <2> QED BY <1>2, <1>3, <2>1, <2>2 DEF Lengthens
<1>4. CASE text # NULL
  <2> DEFINE b == TextBytes(writer, text)
             n == Len(text)
  <2>1. text \in Seq(Char) /\ n \in Nat
    BY <1>4
  <2>2. b \in Seq(Byte) /\ Len(b) = n
    <3> DEFINE c == NormalizeToCp1252(text)
    <3>1. \A k \in 1 .. n : text[k].cp1252 \in Byte
      <4>1. \A k \in 1 .. n : text[k] \in Char
        BY <2>1
      <4>2. \A x \in Char : x.cp1252 \in Byte
        BY DEF Char
      <4> QED BY <4>1, <4>2
    <3>2. c \in Seq(Byte) /\ Len(c) = n
      BY <2>1, <3>1 DEF NormalizeToCp1252
    <3>3. SanitizedBreak \in Byte
      BY StringAssumption, NumberAssumption DEF Byte, NumberPadding
    <3> HIDE DEF c, n
    <3>4. Sanitize(c) \in Seq(Byte) /\ Len(Sanitize(c)) = n
      BY <2>1, <3>2, <3>3 DEF Sanitize
    <3> QED BY <3>2, <3>4 DEF TextBytes, c
  <2> HIDE DEF b, n
  <2>3. Lengthens(AddTyped(type, text, fail), n)
    <3>1. \/ AddTyped(type, text, fail) = Refused(writer, "EO_ALLOC_FAILED")
          \/ AddTyped(type, text, fail) = EnsureAndAppend(writer, b, fail)
          \/ AddTyped(type, text, fail) = AppendEncoded(writer, b, fail)
      BY <1>1, <1>4 DEF AddTyped, AddString, AddEncodedString, b
    <3>2. CASE AddTyped(type, text, fail) = Refused(writer, "EO_ALLOC_FAILED")
      BY <1>2, <3>2 DEF Lengthens
    <3> QED BY <2>2, <3>1, <3>2, AppendLengthens
  <2>4. ASSUME NEW length \in Nat, NEW padded
        PROVE  Lengthens(AddFixed(type, text, length, padded, fail), length)
    <3> DEFINE ret == AddFixed(type, text, length, padded, fail)
               f == FieldBytes(writer, text, length)
    <3>1. \/ ret = Refused(writer, "EO_ALLOC_FAILED")
          \/ ret = Refused(writer, FieldError(padded))
          \/ /\ FitsField(text, length, padded)
             /\ ret = EnsureAndAppend(writer, f, fail) \/ ret = AppendEncoded(writer, f, fail)
      BY <1>1, <1>4 DEF AddFixed, AddFixedString, AddFixedEncodedString
    <3>2. FitsField(text, length, padded) => f \in Seq(Byte) /\ Len(f) = length
      <4> SUFFICES ASSUME n <= length PROVE f \in Seq(Byte) /\ Len(f) = length
        <5>1. FitsField(text, length, padded) => n <= length
          <6>1. CASE padded
            BY <6>1 DEF FitsField, n
          <6>2. CASE ~padded
            BY <2>1, <6>2 DEF FitsField, n
          <6> QED BY <6>1, <6>2
        <5> HIDE DEF f
        <5> QED BY <5>1
      <4> DEFINE q == Padding(length - n)
      <4>1. q \in Seq(Byte) /\ Len(q) = length - n
        <5>1. length - n \in Nat /\ BreakByte \in Byte
          BY <2>1, NumberTypes
        <5> QED BY <5>1 DEF Padding
      <4>2. f = b \o q
        BY DEF FieldBytes, b, n
      <4> HIDE DEF q, f
      <4>3. b \o q \in Seq(Byte) /\ Len(b \o q) = Len(b) + Len(q)
        <5>1. \A x, y \in Seq(Byte) : x \o y \in Seq(Byte) /\ Len(x \o y) = Len(x) + Len(y)
          OBVIOUS
        <5> QED BY Zenon, <2>2, <4>1, <5>1
      <4> QED BY <2>1, <2>2, <4>1, <4>2, <4>3
    <3>3. FieldError(padded) # "EO_SUCCESS"
      BY DEF FieldError
    <3> HIDE DEF ret, f
    <3>4. CASE ret = Refused(writer, "EO_ALLOC_FAILED") \/ ret = Refused(writer, FieldError(padded))
      BY <1>2, <3>3, <3>4 DEF Lengthens, ret
    <3>5. CASE /\ FitsField(text, length, padded)
               /\ ret = EnsureAndAppend(writer, f, fail) \/ ret = AppendEncoded(writer, f, fail)
      BY <3>2, <3>5, AppendLengthens DEF ret
    <3> QED BY <3>1, <3>4, <3>5
  <2> QED BY <1>4, <2>3, <2>4 DEF n
<1> QED BY <1>3, <1>4

-----------------------------------------------------------------------------
(* What a serialization writes is what its statements weigh: a step that    *)
(* succeeds writes its own bytes, and puts in its place what weighs the     *)
(* rest.                                                                    *)

Yields(W, weights) ==
    \/ result' # "EO_SUCCESS" \/ fault' # "none"
    \/ /\ \E q \in Seq(W) : /\ todo' = q \o Tail(todo)
                            /\ Total(weights, q) = Total(weights, Opened(Memory, Head(todo)))
       /\ result' = result /\ writer' \in Writer
       /\ Len(writer'.data) = Len(writer.data) + OwnBytes(Memory, Head(todo))
       /\ Len(writer.data) + OwnBytes(Memory, Head(todo)) <= writer.capacity =>
              writer'.capacity = writer.capacity

LEMMA ListIsSequence ==
    ASSUME NEW W, NEW list \in ElementLists, NEW p, Reached(W, p, list)
    PROVE  Statements(p, list) \in Seq(W)
<1> DEFINE t == Statements(p, list)
           n == Len(list)
<1>1. n \in Nat /\ \A k \in 1 .. n : t[k] \in W
  BY StatementsFacts DEF Reached
<1>2. t = [k \in 1 .. n |-> t[k]]
  BY DEF Statements
<1> HIDE DEF t, n
<1>3. t \in [1 .. n -> W]
  BY <1>1, <1>2
<1> QED BY <1>1, <1>3 DEF t

LEMMA RoundIsSequence ==
    ASSUME NEW type, NEW W, AllCount(Memory, type, W), NEW s \in W, s.elem.kind = "loop"
    PROVE  Opened(Memory, s) \in Seq(W)
<1> DEFINE r == Opened(Memory, s)
           item == ItemOf(s, s.elem.i)
           rest == LoopFrom(s, s.elem.i + 1)
<1>1. Counts(Memory, s) /\ \A k \in 1 .. Len(r) : r[k] \in W
  BY Zenon DEF AllCount
<1>2. \/ r = << >> \/ r = <<item, rest>>
      \/ r = <<item, BreakStatement, rest>> \/ r = <<BreakStatement, item, rest>>
  <2>1. r = NextRound(s)
    BY DEF Opened
  <2> HIDE DEF r
  <2> QED BY <1>1, <2>1, RoundFacts DEF Counts
<1> HIDE DEF r, item, rest
<1>3. ASSUME NEW a, NEW b, r = <<a, b>> PROVE r \in Seq(W)
  <2>1. a \in W /\ b \in W
    BY <1>1, <1>3
  <2> QED BY <1>3, <2>1
<1>4. ASSUME NEW a, NEW b, NEW c, r = <<a, b, c>> PROVE r \in Seq(W)
  <2>1. a \in W /\ b \in W /\ c \in W
    BY <1>1, <1>4
  <2> QED BY <1>4, <2>1
<1>5. r \in Seq(W)
  <2>1. CASE r = << >>
    BY <2>1
  <2> QED BY <1>2, <1>3, <1>4, <2>1
<1> QED BY <1>5 DEF r

LEMMA LeaveWeighsNothing ==
    ASSUME NEW type, NEW W, AllCount(Memory, type, W), NEW weights, Weighs(Memory, W, weights),
           NEW mode \in BOOLEAN
    PROVE  Leave(mode) \in Seq(W) /\ Total(weights, Leave(mode)) = 0
<1> DEFINE l == LeaveStatement(mode)
<1>1. l \in W
  BY Zenon DEF AllCount
<1>2. Leave(mode) = <<l>> /\ l.elem.kind = "leave"
  BY DEF Leave, Statement, LeaveStatement
<1> HIDE DEF l
<1>3. OwnBytes(Memory, l) = 0 /\ Opened(Memory, l) = << >>
  BY <1>2 DEF OwnBytes, IsLiteral, Opened
<1>4. weights[l] = 0
  BY <1>1, <1>3, TotalOfNone DEF Weighs
<1>5. AddUp(W, weights)
  BY TotalOfFew DEF Weighs
<1> QED BY <1>1, <1>2, <1>4, <1>5 DEF AddUp

LEMMA WriteYields ==
    ASSUME NEW W, NEW weights, todo \in Seq(W), todo # << >>,
           NEW ret, Write(ret), Opened(Memory, Head(todo)) = << >>,
           Lengthens(ret, OwnBytes(Memory, Head(todo)))
    PROVE  Yields(W, weights)
<1> DEFINE u == Tail(todo)
           e == << >>
<1>1. u \in Seq(W) /\ e \in Seq(W)
  OBVIOUS
<1> HIDE DEF u
<1>2. e \o u = u
  BY <1>1
<1> HIDE DEF e
<1>3. CASE ret.result = "EO_SUCCESS"
  <2>1. todo' = e \o u /\ result' = result /\ writer' = ret.writer
    BY Zenon, <1>2, <1>3 DEF Write, u
  <2>2. e = Opened(Memory, Head(todo))
    BY DEF e
  <2> QED BY Zenon, <1>1, <1>3, <2>1, <2>2 DEF Yields, Lengthens, u
<1>4. CASE ret.result # "EO_SUCCESS"
  BY <1>4 DEF Write, Fail, Yields
<1> QED BY <1>3, <1>4

LEMMA ExpandYields ==
    ASSUME NEW W, NEW weights, writer \in Writer, OwnBytes(Memory, Head(todo)) = 0,
           NEW q \in Seq(W), Total(weights, q) = Total(weights, Opened(Memory, Head(todo))),
           todo' = q \o Tail(todo), result' = result, writer' \in Writer,
           writer'.data = writer.data, writer'.capacity = writer.capacity
    PROVE  Yields(W, weights)
<1>1. Len(writer.data) + 0 = Len(writer.data)
  <2>1. Len(writer.data) \in Nat
    BY DEF Writer
  <2> QED BY <2>1
<1> QED BY Zenon, <1>1 DEF Yields

\* A nested struct, whose function restores the mode at its end.
LEMMA StructYields ==
    ASSUME NEW W, NEW type, AllCount(Memory, type, W), NEW weights, Weighs(Memory, W, weights),
           writer \in Writer, todo \in Seq(W), todo # << >>,
           IsFilled(Memory, Head(todo)), IsStruct(Head(todo).elem.type),
           Expand(SerializeStruct(Place(Head(todo)), Head(todo).elem.type))
    PROVE  Yields(W, weights)
<1> DEFINE s == Head(todo)
           list == Structs[s.elem.type]
           t == Statements(Place(s), list)
           l == Leave(writer.sanitize)
<1>1. s \in W
  OBVIOUS
<1>2. list \in ElementLists /\ Reached(W, Place(s), list)
  BY <1>1, StatementLeads
<1>3. t \in Seq(W)
  BY <1>2, ListIsSequence
<1>4. l \in Seq(W) /\ Total(weights, l) = 0
  <2>1. writer.sanitize \in BOOLEAN
    BY DEF Writer
  <2> QED BY <2>1, LeaveWeighsNothing
<1>5. todo' = (t \o l) \o Tail(todo) /\ result' = result /\ writer' = writer
  BY DEF Expand, SerializeStruct
<1>6. s.elem.kind \in {"field", "item"} /\ ~IsLiteral(s)
  BY DEF IsFilled, IsLiteral
<1>7. Opened(Memory, s) = t /\ OwnBytes(Memory, s) = 0
  <2>1. Opened(Memory, s) = t
    BY <1>6 DEF Opened
  <2>2. OwnBytes(Memory, s) = 0
    BY <1>6 DEF OwnBytes
  <2> QED BY <2>1, <2>2
<1> HIDE DEF s, t, l
<1>8. t \o l \in Seq(W)
  BY <1>3, <1>4
<1>9. Total(weights, t \o l) = Total(weights, t)
  <2>1. weights \in [W -> Nat]
    BY DEF Weighs
  <2>2. /\ Total(weights, t) \in Nat
        /\ Total(weights, t \o l) = Total(weights, t) + Total(weights, l)
    BY Zenon, <1>3, <1>4, <2>1, TotalOfJoined
  <2> QED BY <1>4, <2>2
<1> QED BY Zenon, <1>5, <1>7, <1>8, <1>9, ExpandYields DEF s

LEMMA LiteralLengthens ==
    ASSUME writer \in Writer, NEW s, IsLiteral(s), LiteralCounts(s), NEW fail
    PROVE  Lengthens(AddTyped(FieldNumber(s.elem), s.elem.value, fail), OwnBytes(Memory, s))
<1>1. s.elem.kind \in {"dummy", "field"} /\ WireType(s) = FieldNumber(s.elem)
  BY DEF IsLiteral, WireType
<1>2. OwnBytes(Memory, s) = IF IsString(s.elem.type) THEN Len(s.elem.value)
                            ELSE ByteSize(FieldNumber(s.elem))
  BY <1>1 DEF OwnBytes
<1>3. CASE IsString(s.elem.type)
  <2>1. FieldNumber(s.elem) = s.elem.type /\ s.elem.value \in Seq(Char) /\ s.elem.value # NULL
    BY <1>3 DEF LiteralCounts, FieldNumber
  <2> QED BY <1>2, <1>3, <2>1, TextLengthens
<1>4. CASE ~IsString(s.elem.type)
  <2>1. FieldNumber(s.elem) \in NumberKinds /\ s.elem.value \in Int32
    BY <1>1, <1>4 DEF LiteralCounts
  <2> QED BY <1>2, <1>4, <2>1, NumberLengthens
<1> QED BY <1>3, <1>4

LEMMA ValueLengthens ==
    ASSUME writer \in Writer, NEW s, IsFilled(Memory, s), ~IsStruct(s.elem.type),
           ValueCounts(Memory, s), NEW fail
    PROVE  LET value == Contents(Memory, s)
           IN  IF s.elem.kind = "field" /\ IsString(s.elem.type) /\ IsStatic(s.elem)
               THEN Lengthens(AddFixed(s.elem.type, value, s.elem.length, s.elem.padded, fail),
                              OwnBytes(Memory, s))
               ELSE Lengthens(AddTyped(WireType(s), value, fail), OwnBytes(Memory, s))
<1> DEFINE value == Contents(Memory, s)
           n == OwnBytes(Memory, s)
           e == s.elem
<1>1. e.kind \in {"field", "item"} /\ ~IsLiteral(s)
  BY DEF IsFilled, IsLiteral
<1>2. n = IF IsString(e.type) /\ e.kind = "field" /\ IsStatic(e) THEN e.length
          ELSE IF IsString(e.type) \/ e.type = "blob"
          THEN IF value = NULL THEN 0 ELSE Len(value)
          ELSE ByteSize(WireType(s))
  BY <1>1 DEF OwnBytes
<1>3. ~IsEnum(e.type) => WireType(s) = e.type
  BY <1>1 DEF WireType, FieldNumber, ItemNumber
<1> HIDE DEF value, n
<1>4. CASE IsString(e.type)
  <2>1. /\ ~IsEnum(e.type) /\ value \in Seq(Char) \cup {NULL}
        /\ e.kind = "field" /\ IsStatic(e) => e.length \in Nat /\ value # NULL
    BY <1>4 DEF ValueCounts, TextCounts, value
  <2>2. CASE e.kind = "field" /\ IsStatic(e)
    <3>1. Lengthens(AddFixed(e.type, value, e.length, e.padded, fail), e.length)
      BY Zenon, <1>4, <2>1, <2>2, TextLengthens
    <3> QED BY <1>2, <1>4, <2>2, <3>1 DEF value, n
  <2>3. CASE ~(e.kind = "field" /\ IsStatic(e))
    <3>1. Lengthens(AddTyped(e.type, value, fail), IF value = NULL THEN 0 ELSE Len(value))
      BY Zenon, <1>4, <2>1, TextLengthens
    <3>2. n = IF value = NULL THEN 0 ELSE Len(value)
      BY <1>2, <1>4, <2>3
    <3>3. Lengthens(AddTyped(WireType(s), value, fail), n)
      BY <1>3, <2>1, <3>1, <3>2
    <3> QED BY <2>3, <3>3 DEF value, n
  <2> QED BY <2>2, <2>3
<1>5. CASE e.type = "blob" /\ ~IsString(e.type)
  <2>1. ~IsEnum(e.type) /\ value \in Seq(Byte)
    BY <1>5 DEF ValueCounts, BlobCounts, value
  <2>2. value # NULL
    BY <2>1, NullAssumption
  <2>3. AddTyped(WireType(s), value, fail) = EnsureAndAppend(writer, value, fail)
    BY <1>3, <1>5, <2>1, <2>2 DEF AddTyped, AddBytes
  <2>4. Lengthens(EnsureAndAppend(writer, value, fail), Len(value))
    BY <2>1, AppendLengthens
  <2>5. n = Len(value)
    BY <1>2, <1>5, <2>2
  <2>6. Lengthens(AddTyped(WireType(s), value, fail), n)
    BY <2>3, <2>4, <2>5
  <2> QED BY <1>5, <2>6 DEF value, n
<1>6. CASE e.type # "blob" /\ ~IsString(e.type)
  <2>1. WireType(s) \in NumberKinds /\ value \in Int32
    BY <1>6 DEF ValueCounts, value
  <2>2. n = ByteSize(WireType(s))
    BY <1>2, <1>6
  <2>3. Lengthens(AddTyped(WireType(s), value, fail), n)
    BY <2>1, <2>2, NumberLengthens
  <2> QED BY <1>6, <2>3 DEF value, n
<1> QED BY <1>4, <1>5, <1>6

LEMMA StatementYields ==
    ASSUME NEW W, NEW type, AllCount(Memory, type, W), NEW weights, Weighs(Memory, W, weights),
           writer \in Writer, todo \in Seq(W), SerializeStep
    PROVE  Yields(W, weights)
<1> DEFINE s == Head(todo)
<1>1. todo # << >>
  BY ResultStays
<1>2. s \in W
  BY <1>1
<1>3. elem = s.elem /\ at = s.at /\ scope = s.scope
  BY DEF elem, at, scope
<1>4. Counts(Memory, s)
  BY <1>2, StatementLeads
<1>5. IsLiteral(s) <=> Literal
  BY <1>3 DEF IsLiteral, Literal
<1>6. s.elem.kind # "item" => Place(s) = path
  BY <1>3 DEF Place, path
<1>7. \A mode \in BOOLEAN : LET w == SetSanitization(writer, mode)
                            IN  /\ w \in Writer /\ w.data = writer.data
                                /\ w.capacity = writer.capacity
  BY DEF SetSanitization, Writer
<1>8. CASE WriteChunked
  <2>1. /\ s.elem.kind = "chunked" /\ writer' = SetSanitization(writer, TRUE)
        /\ todo' = Statements(s.at, s.elem.elements) \o Tail(todo) /\ result' = result
    BY <1>3, <1>8 DEF WriteChunked, Now
  <2>2. Opened(Memory, s) = Statements(s.at, s.elem.elements) /\ OwnBytes(Memory, s) = 0
    BY <2>1 DEF Opened, OwnBytes, IsLiteral
  <2>3. Statements(s.at, s.elem.elements) \in Seq(W)
    BY <1>2, <2>1, StatementLeads, ListIsSequence
  <2>4. writer' \in Writer /\ writer'.data = writer.data /\ writer'.capacity = writer.capacity
    BY Zenon, <1>7, <2>1
  <2> QED BY Zenon, <2>1, <2>2, <2>3, <2>4, ExpandYields
<1>9. ASSUME Expand(Opened(Memory, s)), Opened(Memory, s) \in Seq(W), OwnBytes(Memory, s) = 0
      PROVE  Yields(W, weights)
  <2> DEFINE q == Opened(Memory, s)
  <2>1. todo' = q \o Tail(todo) /\ result' = result /\ writer' = writer
    BY <1>9 DEF Expand
  <2>2. q \in Seq(W) /\ Total(weights, q) = Total(weights, Opened(Memory, Head(todo)))
    BY <1>9
  <2> HIDE DEF q
  <2> QED BY Zenon, <1>9, <2>1, <2>2, ExpandYields
<1>10. CASE SkipField
  <2>1. /\ s.elem.kind = "field" /\ ~IsLiteral(s) /\ ~Present(s.at, s.elem)
        /\ Expand(<< >>)
    BY <1>3, <1>5, <1>10 DEF SkipField, Now
  <2>2. ~IsFilled(Memory, s)
    BY <2>1, MemoryTells DEF IsFilled
  <2>3. Opened(Memory, s) = << >> /\ OwnBytes(Memory, s) = 0
    BY <2>1, <2>2 DEF Opened, OwnBytes
  <2>4. << >> \in Seq(W)
    OBVIOUS
  <2> QED BY Zenon, <1>9, <2>1, <2>3, <2>4
<1>11. CASE WriteStructField
  <2>1. /\ s.elem.kind = "field" /\ ~IsLiteral(s) /\ Present(s.at, s.elem)
        /\ IsStruct(s.elem.type) /\ Expand(SerializeStruct(Place(s), s.elem.type))
    BY <1>3, <1>5, <1>6, <1>11 DEF WriteStructField, Now
  <2>2. IsFilled(Memory, s)
    BY <2>1, MemoryTells DEF IsFilled, IsLiteral
  <2> QED BY <1>1, <2>1, <2>2, StructYields
<1>12. CASE WriteArray
  <2>1. /\ s.elem.kind = "array"
        /\ Expand(IF Present(s.at, s.elem)
                  THEN LoopOver(s.at, s.elem, Items(s.at, s.elem)) ELSE << >>)
    BY <1>3, <1>12 DEF WriteArray, Now
  <2>2. Opened(Memory, s) = IF Present(s.at, s.elem)
                            THEN LoopOver(s.at, s.elem, Items(s.at, s.elem)) ELSE << >>
    BY <2>1, MemoryTells DEF Opened
  <2>3. OwnBytes(Memory, s) = 0
    BY <2>1 DEF OwnBytes, IsLiteral
  <2>4. Opened(Memory, s) \in Seq(W)
    <3>1. CASE Present(s.at, s.elem)
      <4> DEFINE u == [at |-> s.at, scope |-> << >>,
                       elem |-> [kind |-> "loop", array |-> s.elem, i |-> 0,
                                 n |-> Items(s.at, s.elem)]]
      <4>1. Opened(Memory, s) = <<u>>
        BY <2>2, <3>1 DEF LoopOver, Statement
      <4> HIDE DEF u
      <4>2. \A k \in 1 .. Len(Opened(Memory, s)) : Opened(Memory, s)[k] \in W
        BY <1>2, Zenon DEF AllCount
      <4>3. Len(<<u>>) = 1 /\ <<u>>[1] = u /\ 1 \in 1 .. 1
        OBVIOUS
      <4>4. u \in W
        BY Zenon, <4>1, <4>2, <4>3
      <4>5. <<u>> \in Seq(W)
        BY <4>4
      <4> QED BY Zenon, <4>1, <4>5
    <3>2. CASE ~Present(s.at, s.elem)
      <4>1. << >> \in Seq(W)
        OBVIOUS
      <4> QED BY Zenon, <2>2, <3>2, <4>1
    <3> QED BY <3>1, <3>2
  <2>5. Expand(Opened(Memory, s))
    BY <2>1, <2>2
  <2> QED BY <1>9, <2>3, <2>4, <2>5
<1>13. CASE WriteItems
  <2>1. s.elem.kind = "loop" /\ Expand(Round)
    BY <1>3, <1>13 DEF WriteItems, Now
  <2>2. Opened(Memory, s) = Round
    BY <1>3, <2>1 DEF Opened, NextRound, Round
  <2>3. OwnBytes(Memory, s) = 0
    BY <2>1 DEF OwnBytes, IsLiteral
  <2>4. Opened(Memory, s) \in Seq(W)
    BY <1>2, <2>1, RoundIsSequence
  <2> QED BY <1>9, <2>1, <2>2, <2>3, <2>4
<1>14. CASE WriteSwitch
  <2> DEFINE c == TakenCase(Memory, s)
  <2>1. /\ s.elem.kind = "switch"
        /\ Expand(IF c = None THEN << >>
                  ELSE IF ~HasStorage[c.elements] THEN Statements(s.at, c.elements)
                  ELSE IF Held(Memory, Data(s.at, s.elem), NULL) = NULL THEN << >>
                  ELSE Statements(CaseAt(s.at, s.elem, c), c.elements))
    BY <1>3, <1>14, CellIsHeld DEF WriteSwitch, Now, TakenCase
  <2>2. OwnBytes(Memory, s) = 0
    BY <2>1 DEF OwnBytes, IsLiteral
  <2>3. Opened(Memory, s) = IF c = None THEN << >>
                            ELSE IF HasStorage[c.elements]
                            THEN Statements(CaseAt(s.at, s.elem, c), c.elements)
                            ELSE Statements(s.at, c.elements)
    BY <2>1 DEF Opened
  <2>4. c # None =>
          /\ c.elements \in ElementLists
          /\ Reached(W, IF HasStorage[c.elements] THEN CaseAt(s.at, s.elem, c) ELSE s.at,
                     c.elements)
          /\ HasStorage[c.elements] => Held(Memory, Data(s.at, s.elem), NULL) # NULL
    BY <1>2, <2>1, StatementLeads
  <2> HIDE DEF c
  <2>5. CASE c = None
    <3>1. << >> \in Seq(W)
      OBVIOUS
    <3> QED BY Zenon, <1>9, <2>1, <2>2, <2>3, <2>5, <3>1
  <2>6. CASE c # None
    <3> DEFINE p == IF HasStorage[c.elements] THEN CaseAt(s.at, s.elem, c) ELSE s.at
    <3>1. Opened(Memory, s) = Statements(p, c.elements) /\ Expand(Statements(p, c.elements))
      BY <2>1, <2>3, <2>4, <2>6
    <3>2. Statements(p, c.elements) \in Seq(W)
      <4>1. c.elements \in ElementLists /\ Reached(W, p, c.elements)
        BY <2>4, <2>6
      <4> HIDE DEF p
      <4> QED BY <4>1, ListIsSequence
    <3> HIDE DEF p
    <3> QED BY <1>9, <2>2, <3>1, <3>2
  <2> QED BY <2>5, <2>6
<1>15. CASE LeaveSerialize
  <2>1. /\ s.elem.kind = "leave" /\ writer' = SetSanitization(writer, s.elem.mode)
        /\ todo' = Tail(todo) /\ result' = result
    BY <1>3, <1>15 DEF LeaveSerialize, Now
  <2>2. Opened(Memory, s) = << >> /\ OwnBytes(Memory, s) = 0
    BY <2>1 DEF Opened, OwnBytes, IsLiteral
  <2>3. writer' \in Writer /\ writer'.data = writer.data /\ writer'.capacity = writer.capacity
    BY <1>4, <1>7, <2>1 DEF Counts
  <2>4. todo' = << >> \o Tail(todo) /\ << >> \in Seq(W)
    <3> DEFINE u == Tail(todo)
    <3>1. u \in Seq(W)
      BY <1>1
    <3> HIDE DEF u
    <3>2. << >> \o u = u
      BY <3>1
    <3> QED BY <2>1, <3>2 DEF u
  <2> QED BY Zenon, <2>1, <2>2, <2>3, <2>4, ExpandYields
<1>16. ASSUME NEW fail \in WriterFailures, WriteBreak(fail)
       PROVE  Yields(W, weights)
  <2> DEFINE b == <<BreakByte>>
             ret == AddBytes(writer, b, fail)
  <2>1. s.elem.kind = "break" /\ Write(ret)
    BY <1>3, <1>16 DEF WriteBreak, Now
  <2>2. b \in Seq(Byte) /\ Len(b) = 1
    BY NumberTypes
  <2> HIDE DEF b
  <2>3. Lengthens(ret, 1)
    BY Zenon, <2>2, AppendLengthens DEF AddBytes
  <2> HIDE DEF ret
  <2>4. Opened(Memory, s) = << >> /\ OwnBytes(Memory, s) = 1
    BY <2>1 DEF Opened, OwnBytes, IsLiteral
  <2> QED BY <1>1, <2>1, <2>3, <2>4, WriteYields
<1>17. ASSUME NEW fail \in WriterFailures, WriteLiteral(fail)
       PROVE  Yields(W, weights)
  <2>1. IsLiteral(s) /\ Write(AddTyped(FieldNumber(s.elem), s.elem.value, fail))
    BY <1>3, <1>5, <1>17 DEF WriteLiteral
  <2>2. LiteralCounts(s)
    BY <1>4, <2>1 DEF Counts
  <2>3. Opened(Memory, s) = << >>
    BY <2>1 DEF Opened, IsLiteral, IsFilled
  <2>4. Lengthens(AddTyped(FieldNumber(s.elem), s.elem.value, fail), OwnBytes(Memory, s))
    BY <2>1, <2>2, LiteralLengthens
  <2> QED BY <1>1, <2>1, <2>3, <2>4, WriteYields
<1>18. ASSUME NEW fail \in WriterFailures, WriteField(fail)
       PROVE  Yields(W, weights)
  <2> DEFINE value == Contents(Memory, s)
             ret == IF IsString(s.elem.type) /\ IsStatic(s.elem)
                    THEN AddFixed(s.elem.type, value, s.elem.length, s.elem.padded, fail)
                    ELSE AddTyped(WireType(s), value, fail)
  <2>1. s.elem.kind = "field" /\ ~IsLiteral(s) /\ Present(s.at, s.elem) /\ ~IsStruct(s.elem.type)
    BY <1>3, <1>5, <1>18 DEF WriteField, Now
  <2>2. Write(ret)
    <3>1. value = IF s.elem.value # None THEN s.elem.value
                  ELSE Cell(path, IF IsString(s.elem.type) \/ s.elem.type = "blob"
                                  THEN NULL ELSE 0)
      BY <1>6, <2>1, CellIsHeld DEF Contents
    <3>2. WireType(s) = FieldNumber(s.elem)
      BY <2>1 DEF WireType
    <3> HIDE DEF value
    <3> QED BY <1>3, <1>18, <3>1, <3>2 DEF WriteField
  <2>3. IsFilled(Memory, s)
    BY <2>1, MemoryTells DEF IsFilled, IsLiteral
  <2>4. ValueCounts(Memory, s)
    BY <1>4, <2>3 DEF Counts
  <2>5. Lengthens(ret, OwnBytes(Memory, s))
    BY <2>1, <2>3, <2>4, ValueLengthens
  <2>6. Opened(Memory, s) = << >>
    BY <2>1 DEF Opened
  <2> HIDE DEF ret
  <2> QED BY <1>1, <2>2, <2>5, <2>6, WriteYields
<1>19. ASSUME NEW fail \in WriterFailures, WriteLength(fail)
       PROVE  Yields(W, weights)
  <2> DEFINE target == LengthTarget(scope, elem.name)
             value == (IF target = None THEN 0 ELSE TargetLength(target)) + elem.offset
             ret == AddTyped(s.elem.type, value, fail)
  <2>1. s.elem.kind = "length" /\ (Crash("strlen of a null pointer") \/ Write(ret))
    BY Zenon, <1>3, <1>19 DEF WriteLength, Now
  <2>2. s.elem.type \in NumberKinds /\ SentLength(Memory, s) \in Int32
    BY Zenon, <1>4, <2>1 DEF Counts
  <2>3. value = SentLength(Memory, s)
    BY <1>3, CellIsHeld DEF SentLength, TargetLength
  <2>4. Lengthens(ret, ByteSize(s.elem.type))
    <3> HIDE DEF value
    <3> QED BY <2>2, <2>3, NumberLengthens
  <2>5. Opened(Memory, s) = << >> /\ OwnBytes(Memory, s) = ByteSize(s.elem.type)
    BY Zenon, <2>1 DEF Opened, OwnBytes, IsLiteral
  <2>6. Crash("strlen of a null pointer") => Yields(W, weights)
    BY Zenon DEF Crash, Yields
  <2> HIDE DEF ret
  <2> QED BY Zenon, <1>1, <2>1, <2>4, <2>5, <2>6, WriteYields
<1>20. ASSUME NEW fail \in WriterFailures, WriteItem(fail)
       PROVE  Yields(W, weights)
  <2> DEFINE ret == AddTyped(WireType(s), Contents(Memory, s), fail)
  <2>1. s.elem.kind = "item" /\ Place(s) = s.at /\ IsFilled(Memory, s) /\ WireType(s) = ItemNumber(s.elem)
    BY <1>3, <1>20 DEF WriteItem, Now, Place, IsFilled, WireType
  <2>2. CASE IsStruct(s.elem.type)
    <3>1. Expand(SerializeStruct(Place(s), s.elem.type))
      BY <1>3, <1>20, <2>1, <2>2 DEF WriteItem
    <3> QED BY <1>1, <2>1, <2>2, <3>1, StructYields
  <2>3. CASE ~IsStruct(s.elem.type)
    <3>1. ValueCounts(Memory, s)
      BY <1>4, <2>1 DEF Counts
    <3>2. s.elem.type # "blob"
      BY <2>1, <2>3, <3>1 DEF ValueCounts, BlobCounts, IsString
    <3>3. Contents(Memory, s) = Cell(at, IF IsString(s.elem.type) THEN NULL ELSE 0)
      BY <1>3, <2>1, <3>2, CellIsHeld DEF Contents
    <3>4. Write(ret)
      BY <1>3, <1>20, <2>1, <2>3, <3>3 DEF WriteItem
    <3>5. Lengthens(ret, OwnBytes(Memory, s))
      BY <2>1, <2>3, <3>1, ValueLengthens
    <3>6. Opened(Memory, s) = << >>
      BY <2>1, <2>3 DEF Opened
    <3> HIDE DEF ret
    <3> QED BY <1>1, <3>4, <3>5, <3>6, WriteYields
  <2> QED BY <2>2, <2>3
<1> QED
  BY <1>8, <1>10, <1>11, <1>12, <1>13, <1>14, <1>15, <1>16, <1>17, <1>18, <1>19, <1>20
     DEF SerializeStep

-----------------------------------------------------------------------------
(* What is written and what the statements left to do weigh make up the size*)
(* that was asked for, so the writer has room until the end.                *)

Exact == writer.capacity = size /\ Len(writer.data) = size

AddsUp(W) ==
    /\ result = "EO_SUCCESS" /\ writer \in Writer /\ writer.capacity = size /\ todo \in Seq(W)
    /\ \E weights : /\ Weighs(Memory, W, weights)
                    /\ Len(writer.data) + Total(weights, todo) = size

SizeInv ==
    WellNested => \A W : AllCount(Memory, root, W) =>
        /\ phase \in {"sending", "echoing"} /\ fault = "none" => AddsUp(W) \/ GaveUp
        /\ phase = "sent" \/ (phase = "echoed" /\ result = "EO_SUCCESS") => Exact

LEMMA SerializeStepKeepsMemory == SerializeStep => Memory' = Memory
<1>1. SerializeStep => mem' = mem /\ raw' = raw
  BY Zenon DEF SerializeStep, WriteChunked, SkipField, WriteStructField, WriteArray, WriteItems,
         WriteSwitch, LeaveSerialize, WriteBreak, WriteLiteral, WriteField, WriteLength,
         WriteItem, Now, Expand, Write, Crash, unwritten, memory
<1> QED BY <1>1 DEF Memory

LEMMA StepAddsUp ==
    ASSUME NEW W, AllCount(Memory, root, W), AddsUp(W), SerializeStep, fault' = "none",
           size' = size
    PROVE  (AddsUp(W) \/ GaveUp)'
<1>1. Memory' = Memory /\ todo # << >> /\ (result' = result \/ todo' = << >>)
  BY SerializeStepKeepsMemory, ResultStays
<1>2. PICK weights : /\ Weighs(Memory, W, weights)
                     /\ Len(writer.data) + Total(weights, todo) = size
  BY DEF AddsUp
<1> DEFINE s == Head(todo)
           u == Tail(todo)
           n == OwnBytes(Memory, s)
           o == Total(weights, Opened(Memory, s))
<1>3. /\ writer \in Writer /\ todo \in Seq(W) /\ result = "EO_SUCCESS"
      /\ writer.capacity = size
  BY DEF AddsUp
<1>4. Yields(W, weights)
  BY <1>2, <1>3, StatementYields
<1>5. CASE result' # "EO_SUCCESS"
  BY <1>1, <1>3, <1>5 DEF GaveUp
<1>6. CASE result' = "EO_SUCCESS"
  <2>1. PICK q \in Seq(W) : todo' = q \o u /\ Total(weights, q) = o
    BY Zenon, <1>4, <1>6 DEF Yields
  <2>2. /\ writer' \in Writer /\ Len(writer'.data) = Len(writer.data) + n
        /\ Len(writer.data) + n <= writer.capacity => writer'.capacity = writer.capacity
    BY <1>4, <1>6 DEF Yields
  <2>3. s \in W /\ u \in Seq(W) /\ <<s>> \in Seq(W) /\ todo = <<s>> \o u
    BY <1>1, <1>3
  <2>4. weights \in [W -> Nat] /\ weights[s] = n + o
    BY <1>2, <2>3 DEF Weighs
  <2>5. AddUp(W, weights)
    BY <2>4, TotalOfFew
  <2> HIDE DEF s, u, n, o
  <2>6. Total(weights, todo) = weights[s] + Total(weights, u) /\ Total(weights, u) \in Nat
    <3> DEFINE one == <<s>>
    <3>1. one \in Seq(W) /\ Total(weights, one) = weights[s] /\ todo = one \o u
      BY <2>3, <2>5 DEF AddUp
    <3> HIDE DEF one
    <3> QED BY Zenon, <2>3, <2>4, <3>1, TotalOfJoined
  <2>7. Total(weights, todo') = o + Total(weights, u) /\ o \in Nat
    BY Zenon, <2>1, <2>3, <2>4, TotalOfJoined
  <2>8. weights[s] \in Nat
    BY <2>3, <2>4
  <2>9. Len(writer.data) \in Nat /\ Len(writer'.data) \in Nat
    BY <1>3, <2>2 DEF Writer
  <2>10. n \in Nat
    BY <1>2, <2>3 DEF Weighs, n
  <2>11. Len(writer'.data) + Total(weights, todo') = size
    BY <1>2, <2>2, <2>4, <2>6, <2>7, <2>8, <2>9, <2>10
  <2>12. Len(writer.data) + n <= writer.capacity
    BY <1>2, <1>3, <2>4, <2>6, <2>7, <2>8, <2>9, <2>10
  <2>13. todo' \in Seq(W)
    BY <2>1, <2>3
  <2>14. /\ Weighs(Memory', W, weights)
         /\ Len(writer'.data) + Total(weights, todo') = size'
    BY <1>1, <1>2, <2>11
  <2>15. writer'.capacity = size'
    BY <1>3, <2>2, <2>12
  <2> QED BY <1>6, <2>2, <2>13, <2>14, <2>15 DEF AddsUp
<1> QED BY <1>5, <1>6

LEMMA CallAddsUp ==
    ASSUME WellNested, root \in DOMAIN Structs, NEW W, AllCount(Memory, root, W),
           NEW from, NEW next, Serialize(from, next)
    PROVE  Memory' = Memory /\ root' = root /\ AddsUp(W)'
<1> DEFINE list == Structs[root]
           p == << >>
           t == Statements(p, list)
           weights == Weights(W)
<1>1. /\ size' = StructSize(p, root) /\ writer' = InitWriter(size', TRUE)
      /\ result' = "EO_SUCCESS" /\ root' = root /\ mem' = mem /\ raw' = raw
      /\ found' = writer'.sanitize /\ todo' = t \o Leave(found')
  BY DEF Serialize, SerializeInto, Call, memory
<1>2. Memory' = Memory
  BY <1>1 DEF Memory
<1>3. list \in ElementLists /\ p \in Paths
  BY ListsAssumption DEF Paths
<1>4. Reached(W, p, list)
  <2>1. \A k \in 1 .. Len(Structs[root]) : Statements(<< >>, Structs[root])[k] \in W
    BY Zenon DEF AllCount
  <2> QED BY <2>1 DEF Reached
<1>5. Weighs(Memory, W, weights)
  BY WeightsFit
<1>6. Sized(list, p) /\ ListSize(list, p) = Total(weights, t)
  <2>1. SizedIn(W, ElementLists)
    BY AllAreSized
  <2>2. \A k \in 1 .. Len(list) : NestedIn(t[k], ElementLists)
    BY <1>4, AllAreNested DEF Reached
  <2> HIDE DEF p, list
  <2> QED BY <1>3, <1>4, <2>1, <2>2, ListWeighs
<1>7. size' = Total(weights, t) /\ size' \in Nat
  <2>1. StructSize(p, root) = ListSize(list, p)
    BY DEF StructSize, NestedSize, ListSize
  <2>2. ListSize(list, p) \in Nat
    BY <1>6 DEF Sized, ListSize
  <2> HIDE DEF list, p, t, weights
  <2> QED BY <1>1, <1>6, <2>1, <2>2
<1>8. writer' = [data |-> << >>, capacity |-> size', block |-> size', sanitize |-> FALSE]
  BY <1>1 DEF InitWriter
<1>9. writer' \in Writer /\ writer'.capacity = size' /\ found' = FALSE /\ Len(writer'.data) = 0
  <2> DEFINE d == << >>
  <2>1. d \in Seq(Byte) /\ Len(d) = 0
    OBVIOUS
  <2>2. writer' = [data |-> d, capacity |-> size', block |-> size', sanitize |-> FALSE]
    BY <1>8
  <2> HIDE DEF d
  <2>3. /\ writer'.data = d /\ writer'.capacity = size' /\ writer'.block = size'
        /\ writer'.sanitize = FALSE
    BY <2>2
  <2>4. writer' \in Writer
    BY <1>7, <2>1, <2>2 DEF Writer
  <2> QED BY Zenon, <1>1, <2>1, <2>3, <2>4
<1> DEFINE l == Leave(FALSE)
<1>10. t \in Seq(W) /\ l \in Seq(W) /\ Total(weights, l) = 0
  <2>1. t \in Seq(W)
    BY <1>3, <1>4, ListIsSequence
  <2>2. l \in Seq(W) /\ Total(weights, l) = 0
    BY Zenon, <1>5, LeaveWeighsNothing
  <2> HIDE DEF l
  <2> QED BY <2>1, <2>2
<1>11. todo' = t \o l
  BY Zenon, <1>1, <1>9
<1> HIDE DEF t, l, weights, list, p
<1>12. todo' \in Seq(W)
  BY <1>10, <1>11
<1>13. Total(weights, todo') = size'
  <2>1. weights \in [W -> Nat]
    BY <1>5 DEF Weighs
  <2>2. Total(weights, t \o l) = Total(weights, t) + Total(weights, l)
    BY <1>10, <2>1, TotalOfJoined
  <2> QED BY <1>7, <1>10, <1>11, <2>2
<1>14. Weighs(Memory', W, weights) /\ Len(writer'.data) + Total(weights, todo') = size'
  BY <1>2, <1>5, <1>7, <1>9, <1>13
<1> QED BY Zenon, <1>1, <1>2, <1>9, <1>12, <1>14 DEF AddsUp

LEMMA SizeInvInit == Init => SizeInv
<1>1. Init => phase = "start"
  BY DEF Init
<1> QED BY <1>1 DEF SizeInv

LEMMA StepKeepsSizes ==
    ASSUME ModesInv, SizeInv, Step
    PROVE  SizeInv'
<1>1. /\ UNCHANGED <<phase, root, size>> /\ fault = "none"
      /\ SerializeStep \/ DeserializeStep
  BY DEF Step, client
<1>2. CASE SerializeStep
  <2>1. Memory' = Memory /\ todo # << >>
    BY <1>2, SerializeStepKeepsMemory, ResultStays
  <2>2. phase \notin {"sent", "echoed"}
    BY <1>2, StepsRun DEF ModesInv, CallsReturn, Serializing
  <2> SUFFICES ASSUME WellNested, NEW W, AllCount(Memory, root, W),
                      phase \in {"sending", "echoing"}, fault' = "none"
               PROVE  (AddsUp(W) \/ GaveUp)'
    BY <1>1, <2>1, <2>2 DEF SizeInv
  <2>3. AddsUp(W)
    BY <1>1, <2>1 DEF SizeInv, GaveUp
  <2> QED BY <1>1, <1>2, <2>3, StepAddsUp
<1>3. CASE DeserializeStep
  <2>1. phase' = "receiving"
    BY <1>1, <1>3, StepsRun DEF ModesInv, CallsReturn
  <2> QED BY <2>1 DEF SizeInv
<1> QED BY <1>1, <1>2, <1>3

LEMMA ReturnKeepsSizes ==
    ASSUME SizeInv, Sent \/ Echoed
    PROVE  SizeInv'
<1>1. /\ phase \in {"sending", "echoing"} /\ todo = << >> /\ fault = "none"
      /\ UNCHANGED <<result, root, mem, raw, writer, size>>
      /\ phase' \notin {"sending", "echoing"}
      /\ phase' = "sent" => result = "EO_SUCCESS"
  BY DEF Sent, Echoed, SerializedAgain, Finished, memory, given
<1>2. Memory' = Memory
  BY <1>1 DEF Memory
<1> SUFFICES ASSUME WellNested, NEW W, AllCount(Memory, root, W), result = "EO_SUCCESS"
             PROVE  Exact
  BY <1>1, <1>2 DEF SizeInv, Exact
<1>3. AddsUp(W)
  BY <1>1 DEF SizeInv, GaveUp
<1>4. PICK weights : Len(writer.data) + Total(weights, << >>) = size
  BY <1>1, <1>3 DEF AddsUp
<1>5. Total(weights, << >>) = 0
  BY TotalOfNone
<1>6. Len(writer.data) \in Nat
  BY <1>3 DEF AddsUp, Writer
<1> QED BY <1>3, <1>4, <1>5, <1>6 DEF AddsUp, Exact

LEMMA CallerKeepsSizes ==
    ASSUME ModesInv, SizeInv, Caller
    PROVE  SizeInv'
<1>1. CASE phase' \notin {"sending", "sent", "echoing", "echoed"}
  BY <1>1 DEF SizeInv
<1>2. CASE Received \/ Free \/ LuaDeserialize \/ LuaError \/ LuaConvert \/ Written
           \/ WasmAnswer \/ WasmUndefined \/ Answered
           \/ (\E n \in 0 .. Len(sent) : Receive(n)) \/ (\E mode \in BOOLEAN : LuaWrite(mode))
  <2>1. phase' \in {"receiving", "received", "done", "table", "raised", "converted", "writing",
                    "written", "answering", "answered"}
    BY Zenon, <1>2 DEF Received, Free, LuaDeserialize, LuaError, LuaConvert, Written, WasmAnswer,
                WasmUndefined, Answered, Receive, LuaWrite, SerializeInto, SerializedAgain
  <2> QED BY <1>1, <2>1
<1>3. CASE Send \/ Echo \/ LuaSerialize
  <2>1. PICK from \in {"start", "received", "converted"}, next \in {"sending", "echoing"} :
           Serialize(from, next)
    BY <1>3 DEF Send, Echo, LuaSerialize
  <2>2. root \in DOMAIN Structs
    BY DEF ModesInv
  <2>3. phase' = next /\ root' = root /\ Memory' = Memory
    <3>1. phase' = next /\ root' = root /\ mem' = mem /\ raw' = raw
      BY <2>1 DEF Serialize, SerializeInto, memory
    <3> QED BY <3>1 DEF Memory
  <2> SUFFICES ASSUME WellNested, NEW W, AllCount(Memory, root, W)
               PROVE  AddsUp(W)'
    BY <2>3 DEF SizeInv
  <2> QED BY <2>1, <2>2, CallAddsUp
<1> QED BY <1>2, <1>3, ReturnKeepsSizes DEF Caller

LEMMA SizeInvNext == ModesInv /\ SizeInv /\ [Next]_vars => SizeInv'
<1> SUFFICES ASSUME ModesInv, SizeInv, [Next]_vars PROVE SizeInv'
  OBVIOUS
<1>1. CASE UNCHANGED vars
  <2>1. UNCHANGED <<phase, root, size, fault, result, todo, mem, raw, writer>>
    BY <1>1 DEF vars, structVars
  <2>2. Memory' = Memory
    BY <2>1 DEF Memory
  <2> QED BY <2>1, <2>2 DEF SizeInv, AddsUp, GaveUp, Exact
<1> QED BY <1>1, StepKeepsSizes, CallerKeepsSizes DEF Next

(* get_size counts to the byte what serialize writes, whatever is nested,   *)
(* counted, delimited, optional or chosen by a switch, if definitions nest  *)
(* and all that the value holds is of the size it is taken for: the writer  *)
(* never grows and is full at the end (code_gen_protocol.c:1366 and 1495    *)
(* against 195).  Of an echo this says nothing if it was refused.           *)
THEOREM SizesAreExact ==
    Spec => [](/\ WellNested /\ IsMeasurable
               /\ phase = "echoed" => result = "EO_SUCCESS"
               => SizeIsExact)
<1>1. SizeInv => (/\ WellNested /\ IsMeasurable
                  /\ phase = "echoed" => result = "EO_SUCCESS"
                  => SizeIsExact)
  BY DEF SizeInv, IsMeasurable, SizeIsExact, Exact
<1> QED BY <1>1, ModesInvInit, ModesInvNext, SizeInvInit, SizeInvNext, PTL DEF Spec
=============================================================================
