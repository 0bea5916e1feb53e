------------------------- MODULE EoUserdata_proofs -------------------------
(***************************************************************************)
(* Proofs about the Lua binding, for any number of strings, userdata and   *)
(* references: whatever the program drops, wherever an error strikes and   *)
(* whenever the collector runs, no reader loses its string, and every      *)
(* reference and every block has one owner.                                *)
(***************************************************************************)
EXTENDS EoUserdata, FiniteSetTheorems, TLAPS

-----------------------------------------------------------------------------
(* The inductive invariant.                                                 *)
Live(o) == Unfinalized(o) /\ Is(o, "reader")

Shape ==
    /\ live \subseteq Strings
    /\ objects \in [Objects -> Object \cup {None}]
    /\ registry \in [Slots -> Strings \cup {None}]
    /\ held \subseteq live \cup {o \in Objects : objects[o] # None}
    /\ call \in Calls

\* What each function has in hand, by how far it is.
CallShape ==
    /\ call.fn = "none" => call = Idle
    /\ call.fn = "reader_new" =>
         /\ call.slot \in Slots /\ call.arg \in Strings /\ call.pushed = None
         /\ registry[call.slot] = call.arg
    /\ call.fn = "writer_new" => call.object # None
    /\ call.fn # "reader_new" => call.slot = None
    /\ call.fn = "copy" => call.object = None
    /\ call.object # None => Is(call.object, "raw")
    /\ call.pushed # None => call.pushed \in live

(* The registry keeps its strings; what was finalized has no block, and no  *)
(* variable refers to it.                                                   *)
MemoryKept ==
    /\ \A slot \in Slots : registry[slot] # None => registry[slot] \in live
    /\ \A o \in Objects : objects[o] # None /\ objects[o].finalized => ~objects[o].data
    /\ \A o \in Objects : o \in held => ~objects[o].finalized
    /\ \A o \in Objects : Is(o, "reader") =>
         objects[o].slot \in Slots /\ objects[o].buffer \in Strings /\ ~objects[o].data

\* Whose a reference is: a reader's, the call's, or nobody's after an error.
SlotsOwned ==
    /\ \A o \in Objects : Live(o) =>
         /\ registry[objects[o].slot] = objects[o].buffer
         /\ objects[o].slot # call.slot /\ objects[o].slot \notin lost.slots
         /\ \A p \in Objects : Live(p) /\ objects[p].slot = objects[o].slot => p = o
    /\ call.slot \notin lost.slots
    /\ \A slot \in lost.slots : registry[slot] # None
    /\ \A slot \in Slots : registry[slot] # None =>
         \/ \E o \in Objects : Live(o) /\ objects[o].slot = slot
         \/ call.slot = slot
         \/ slot \in lost.slots

Filled == {o \in Objects : Is(o, "writer") /\ objects[o].data}

BlocksOwned ==
    /\ lost \in [slots : SUBSET Slots, blocks : 0 .. MaxErrors]
    /\ blocks \in Nat
    /\ BlocksHaveOneOwner

Inv == Shape /\ CallShape /\ MemoryKept /\ SlotsOwned /\ BlocksOwned

LEMMA RecordsType ==
    /\ Raw \in Object /\ Raw # None
    /\ \A allocated \in BOOLEAN : Writer(allocated) \in Object /\ Writer(allocated) # None
    /\ \A string \in Strings, slot \in Slots :
         Reader(string, slot) \in Object /\ Reader(string, slot) # None
<1>1. Raw \in Object
  BY DEF Raw, Object
<1>2. \A allocated \in BOOLEAN : Writer(allocated) \in Object
  BY <1>1 DEF Writer, Raw, Object
<1>3. \A string \in Strings, slot \in Slots : Reader(string, slot) \in Object
  BY <1>1 DEF Reader, Raw, Object
<1> QED BY <1>1, <1>2, <1>3, UserdataAssumption

LEMMA MakeStringStep ==
    ASSUME Inv, NEW s \in Strings, MakeString(s)
    PROVE  Shape' /\ CallShape' /\ MemoryKept' /\ SlotsOwned'
<1>1. Shape'
  BY UserdataAssumption DEF Inv, Shape, Calls, Object, MakeString, CallShape, MemoryKept, Idle, Is
<1>2. CallShape'
  BY UserdataAssumption DEF Inv, Shape, Calls, Object, MakeString, CallShape, MemoryKept, Idle, Is
<1>3. MemoryKept'
  BY UserdataAssumption DEF Inv, Shape, Calls, Object, MakeString, CallShape, MemoryKept, Idle, Is
<1>4. SlotsOwned'
  BY UserdataAssumption DEF Inv, Shape, Calls, Object, MakeString, CallShape, MemoryKept, SlotsOwned, BlocksOwned, Idle, Is, Live, Unfinalized
<1> QED BY <1>1, <1>2, <1>3, <1>4

LEMMA ReaderNewStep ==
    ASSUME Inv, NEW s \in Strings, NEW slot \in Slots, ReaderNew(s, slot)
    PROVE  Shape' /\ CallShape' /\ MemoryKept' /\ SlotsOwned'
<1>1. Shape'
  BY UserdataAssumption DEF Inv, Shape, Calls, Object, ReaderNew, CallShape, MemoryKept, Idle, Is
<1>2. CallShape'
  BY UserdataAssumption DEF Inv, Shape, Calls, Object, ReaderNew, CallShape, MemoryKept, Idle, Is
<1>3. MemoryKept'
  BY UserdataAssumption DEF Inv, Shape, Calls, Object, ReaderNew, CallShape, MemoryKept, Idle, Is
<1>4. SlotsOwned'
  BY UserdataAssumption DEF Inv, Shape, Calls, Object, ReaderNew, CallShape, MemoryKept, SlotsOwned, BlocksOwned, Idle, Is, Live, Unfinalized
<1> QED BY <1>1, <1>2, <1>3, <1>4

LEMMA DropStep ==
    ASSUME Inv, NEW v \in Strings \cup Objects, Drop(v)
    PROVE  Shape' /\ CallShape' /\ MemoryKept' /\ SlotsOwned'
<1>1. Shape'
  BY UserdataAssumption DEF Inv, Shape, Calls, Object, Drop, CallShape, MemoryKept, Idle, Is
<1>2. CallShape'
  BY UserdataAssumption DEF Inv, Shape, Calls, Object, Drop, CallShape, MemoryKept, Idle, Is
<1>3. MemoryKept'
  BY UserdataAssumption DEF Inv, Shape, Calls, Object, Drop, CallShape, MemoryKept, Idle, Is
<1>4. SlotsOwned'
  BY UserdataAssumption DEF Inv, Shape, Calls, Object, Drop, CallShape, MemoryKept, SlotsOwned, BlocksOwned, Idle, Is, Live, Unfinalized
<1> QED BY <1>1, <1>2, <1>3, <1>4

LEMMA CopyStep ==
    ASSUME Inv, NEW v \in Strings \cup Objects, Copy(v)
    PROVE  Shape' /\ CallShape' /\ MemoryKept' /\ SlotsOwned'
<1>1. Shape'
  BY UserdataAssumption DEF Inv, Shape, Calls, Object, Copy, CallShape, MemoryKept, Idle, Is
<1>2. CallShape'
  BY UserdataAssumption DEF Inv, Shape, Calls, Object, Copy, CallShape, MemoryKept, Idle, Is
<1>3. MemoryKept'
  BY UserdataAssumption DEF Inv, Shape, Calls, Object, Copy, CallShape, MemoryKept, Idle, Is
<1>4. SlotsOwned'
  BY UserdataAssumption DEF Inv, Shape, Calls, Object, Copy, CallShape, MemoryKept, SlotsOwned, BlocksOwned, Idle, Is, Live, Unfinalized
<1> QED BY <1>1, <1>2, <1>3, <1>4

LEMMA WriterNewStep ==
    ASSUME Inv, NEW o \in Objects, WriterNew(o)
    PROVE  Shape' /\ CallShape' /\ MemoryKept' /\ SlotsOwned'
<1>1. Shape'
  BY UserdataAssumption DEF Inv, Shape, Calls, Object, WriterNew, Raw, CallShape, MemoryKept, Idle, Is
<1>a. Raw.kind = "raw" /\ Raw # None
  BY RecordsType DEF Raw
<1>b. objects'[o] = Raw
  BY DEF Inv, Shape, WriterNew
<1>2. CallShape'
  BY <1>a, <1>b, UserdataAssumption DEF Inv, Shape, Calls, Object, WriterNew, Raw, CallShape, MemoryKept, Idle, Is
<1>3. MemoryKept'
  BY UserdataAssumption DEF Inv, Shape, Calls, Object, WriterNew, Raw, CallShape, MemoryKept, Idle, Is
<1>4. SlotsOwned'
  BY UserdataAssumption DEF Inv, Shape, Calls, Object, WriterNew, Raw, CallShape, MemoryKept, SlotsOwned, BlocksOwned, Idle, Is, Live, Unfinalized
<1> QED BY <1>1, <1>2, <1>3, <1>4

LEMMA WriterAddStep ==
    ASSUME Inv, NEW o \in Objects, WriterAdd(o)
    PROVE  Shape' /\ CallShape' /\ MemoryKept' /\ SlotsOwned'
<1>a. objects[o] \in Object
  BY DEF Inv, Shape, WriterAdd, Is
<1>b. [objects[o] EXCEPT !.data = TRUE] \in Object
  BY <1>a DEF Object
<1>1. Shape'
  BY <1>a, <1>b, UserdataAssumption DEF Inv, Shape, Calls, Object, WriterAdd, CallShape, MemoryKept, Idle, Is
<1>2. CallShape'
  BY UserdataAssumption DEF Inv, Shape, Calls, Object, WriterAdd, CallShape, MemoryKept, Idle, Is
<1>3. MemoryKept'
  BY UserdataAssumption DEF Inv, Shape, Calls, Object, WriterAdd, CallShape, MemoryKept, Idle, Is
<1>4. SlotsOwned'
  BY UserdataAssumption DEF Inv, Shape, Calls, Object, WriterAdd, CallShape, MemoryKept, SlotsOwned, BlocksOwned, Idle, Is, Live, Unfinalized
<1> QED BY <1>1, <1>2, <1>3, <1>4

LEMMA WriterToBytesStep ==
    ASSUME Inv, NEW o \in Objects, NEW s \in Strings, WriterToBytes(o, s)
    PROVE  Shape' /\ CallShape' /\ MemoryKept' /\ SlotsOwned'
<1>1. Shape'
  BY UserdataAssumption DEF Inv, Shape, Calls, Object, WriterToBytes, CallShape, MemoryKept, Idle, Is
<1>2. CallShape'
  BY UserdataAssumption DEF Inv, Shape, Calls, Object, WriterToBytes, CallShape, MemoryKept, Idle, Is
<1>3. MemoryKept'
  BY UserdataAssumption DEF Inv, Shape, Calls, Object, WriterToBytes, CallShape, MemoryKept, Idle, Is
<1>4. SlotsOwned'
  BY UserdataAssumption DEF Inv, Shape, Calls, Object, WriterToBytes, CallShape, MemoryKept, SlotsOwned, BlocksOwned, Idle, Is, Live, Unfinalized
<1> QED BY <1>1, <1>2, <1>3, <1>4

LEMMA NewUserdataStep ==
    ASSUME Inv, NEW o \in Objects, NewUserdata(o)
    PROVE  Shape' /\ CallShape' /\ MemoryKept' /\ SlotsOwned'
<1>1. Shape'
  BY UserdataAssumption DEF Inv, Shape, Calls, Object, NewUserdata, Raw, CallShape, MemoryKept, Idle, Is
<1>a. Raw.kind = "raw" /\ Raw # None
  BY RecordsType DEF Raw
<1>b. objects'[o] = Raw
  BY DEF Inv, Shape, NewUserdata
<1>2. CallShape'
  BY <1>a, <1>b, UserdataAssumption DEF Inv, Shape, Calls, Object, NewUserdata, Raw, CallShape, MemoryKept, Idle, Is
<1>3. MemoryKept'
  BY UserdataAssumption DEF Inv, Shape, Calls, Object, NewUserdata, Raw, CallShape, MemoryKept, Idle, Is
<1>4. SlotsOwned'
  BY UserdataAssumption DEF Inv, Shape, Calls, Object, NewUserdata, Raw, CallShape, MemoryKept, SlotsOwned, BlocksOwned, Idle, Is, Live, Unfinalized
<1> QED BY <1>1, <1>2, <1>3, <1>4

LEMMA NewUserdataRaisesStep ==
    ASSUME Inv, NewUserdataRaises
    PROVE  Shape' /\ CallShape' /\ MemoryKept' /\ SlotsOwned'
<1>1. Shape'
  BY UserdataAssumption DEF Inv, Shape, Calls, Object, NewUserdataRaises, CallShape, MemoryKept, Idle, Is
<1>2. CallShape'
  BY UserdataAssumption DEF Inv, Shape, Calls, Object, NewUserdataRaises, CallShape, MemoryKept, Idle, Is
<1>3. MemoryKept'
  BY UserdataAssumption DEF Inv, Shape, Calls, Object, NewUserdataRaises, CallShape, MemoryKept, Idle, Is
<1>4. SlotsOwned'
  BY UserdataAssumption DEF Inv, Shape, Calls, Object, NewUserdataRaises, CallShape, MemoryKept, SlotsOwned, BlocksOwned, Idle, Is, Live, Unfinalized
<1> QED BY <1>1, <1>2, <1>3, <1>4

LEMMA ReaderReturnStep ==
    ASSUME Inv, ReaderReturn
    PROVE  Shape' /\ CallShape' /\ MemoryKept' /\ SlotsOwned'
<1>a. call.arg \in Strings /\ call.slot \in Slots
  BY DEF Inv, CallShape, ReaderReturn
<1>b. call.object \in Objects
  BY UserdataAssumption DEF Inv, Shape, Calls, ReaderReturn
<1>1. Shape'
  BY <1>a, <1>b, RecordsType, UserdataAssumption DEF Inv, Shape, Calls, ReaderReturn, Idle
<1>2. CallShape'
  BY UserdataAssumption DEF Inv, Shape, Calls, Object, ReaderReturn, Reader, Raw, CallShape, MemoryKept, Idle, Is
<1>3. MemoryKept'
  BY UserdataAssumption DEF Inv, Shape, Calls, Object, ReaderReturn, Reader, Raw, CallShape, MemoryKept, Idle, Is
<1>4. SlotsOwned'
  <2> PICK o \in Objects : o = call.object
    BY <1>b
  <2>1. /\ objects'[o] = Reader(call.arg, call.slot)
        /\ \A p \in Objects \ {o} : objects'[p] = objects[p]
    BY <1>b DEF Inv, Shape, ReaderReturn
  <2>2. /\ Reader(call.arg, call.slot).kind = "reader"
        /\ ~Reader(call.arg, call.slot).finalized
        /\ Reader(call.arg, call.slot).slot = call.slot
        /\ Reader(call.arg, call.slot).buffer = call.arg
    BY DEF Reader, Raw
  <2>3. Live(o)' /\ \A p \in Objects \ {o} : Live(p)' <=> Live(p)
    BY <1>a, <1>b, <2>1, <2>2, RecordsType DEF Live, Unfinalized, Is
  <2>4. call'.slot = None /\ registry' = registry /\ lost' = lost
        /\ registry[call.slot] = call.arg
    BY DEF ReaderReturn, Idle, Inv, CallShape
  <2>5. lost.slots \subseteq Slots /\ call.slot \notin lost.slots
    BY DEF Inv, BlocksOwned, SlotsOwned
  <2>6. \A p \in Objects : Live(p) =>
           objects[p].slot \in Slots /\ objects[p].slot # call.slot
    BY DEF Inv, SlotsOwned, MemoryKept, Live
  <2>7. ASSUME NEW p \in Objects, Live(p)'
        PROVE  /\ registry'[objects'[p].slot] = objects'[p].buffer
               /\ objects'[p].slot # call'.slot /\ objects'[p].slot \notin lost'.slots
               /\ \A q \in Objects : Live(q)' /\ objects'[q].slot = objects'[p].slot => q = p
    BY <2>1, <2>2, <2>3, <2>4, <2>5, <2>6, <2>7, <1>a, <1>b, UserdataAssumption
       DEF Inv, SlotsOwned
  <2>8. \A slot \in Slots : registry'[slot] # None =>
            (\E p \in Objects : Live(p)' /\ objects'[p].slot = slot) \/ slot \in lost'.slots
    <3>1. ~Live(o)
      BY DEF Inv, CallShape, ReaderReturn, Live, Is
    <3> QED BY <3>1, <2>1, <2>2, <2>3, <2>4 DEF Inv, SlotsOwned
  <2>9. /\ call'.slot \notin lost'.slots
        /\ \A slot \in lost'.slots : registry'[slot] # None
    BY <2>4, <2>5, UserdataAssumption DEF Inv, SlotsOwned
  <2> QED BY <2>7, <2>8, <2>9 DEF SlotsOwned
<1> QED BY <1>1, <1>2, <1>3, <1>4

LEMMA WriterReturnStep ==
    ASSUME Inv, WriterReturn
    PROVE  Shape' /\ CallShape' /\ MemoryKept' /\ SlotsOwned'
<1>a. call.object \in Objects
  BY UserdataAssumption DEF Inv, Shape, Calls, CallShape, WriterReturn
<1>1. Shape'
  BY <1>a, RecordsType, UserdataAssumption DEF Inv, Shape, Calls, WriterReturn, CallShape, Idle
<1>2. CallShape'
  BY UserdataAssumption DEF Inv, Shape, Calls, Object, WriterReturn, Writer, Raw, CallShape, MemoryKept, Idle, Is
<1>3. MemoryKept'
  BY UserdataAssumption DEF Inv, Shape, Calls, Object, WriterReturn, Writer, Raw, CallShape, MemoryKept, Idle, Is
<1>4. SlotsOwned'
  BY UserdataAssumption DEF Inv, Shape, Calls, Object, WriterReturn, Writer, Raw, CallShape, MemoryKept, SlotsOwned, BlocksOwned, Idle, Is, Live, Unfinalized
<1> QED BY <1>1, <1>2, <1>3, <1>4

LEMMA PushStringStep ==
    ASSUME Inv, NEW s \in Strings, PushString(s)
    PROVE  Shape' /\ CallShape' /\ MemoryKept' /\ SlotsOwned'
<1>1. Shape'
  BY UserdataAssumption DEF Inv, Shape, Calls, Object, PushString, CallShape, MemoryKept, Idle, Is
<1>2. CallShape'
  BY UserdataAssumption DEF Inv, Shape, Calls, Object, PushString, CallShape, MemoryKept, Idle, Is
<1>3. MemoryKept'
  BY UserdataAssumption DEF Inv, Shape, Calls, Object, PushString, CallShape, MemoryKept, Idle, Is
<1>4. SlotsOwned'
  BY UserdataAssumption DEF Inv, Shape, Calls, Object, PushString, CallShape, MemoryKept, SlotsOwned, BlocksOwned, Idle, Is, Live, Unfinalized
<1> QED BY <1>1, <1>2, <1>3, <1>4

LEMMA PushStringRaisesStep ==
    ASSUME Inv, PushStringRaises
    PROVE  Shape' /\ CallShape' /\ MemoryKept' /\ SlotsOwned'
<1>1. Shape'
  BY UserdataAssumption DEF Inv, Shape, Calls, Object, PushStringRaises, CallShape, MemoryKept, Idle, Is
<1>2. CallShape'
  BY UserdataAssumption DEF Inv, Shape, Calls, Object, PushStringRaises, CallShape, MemoryKept, Idle, Is
<1>3. MemoryKept'
  BY UserdataAssumption DEF Inv, Shape, Calls, Object, PushStringRaises, CallShape, MemoryKept, Idle, Is
<1>4. SlotsOwned'
  BY UserdataAssumption DEF Inv, Shape, Calls, Object, PushStringRaises, CallShape, MemoryKept, SlotsOwned, BlocksOwned, Idle, Is, Live, Unfinalized
<1> QED BY <1>1, <1>2, <1>3, <1>4

LEMMA CopyReturnStep ==
    ASSUME Inv, CopyReturn
    PROVE  Shape' /\ CallShape' /\ MemoryKept' /\ SlotsOwned'
<1>1. Shape'
  BY UserdataAssumption DEF Inv, Shape, Calls, Object, CopyReturn, CallShape, MemoryKept, Idle, Is
<1>2. CallShape'
  BY UserdataAssumption DEF Inv, Shape, Calls, Object, CopyReturn, CallShape, MemoryKept, Idle, Is
<1>3. MemoryKept'
  BY UserdataAssumption DEF Inv, Shape, Calls, Object, CopyReturn, CallShape, MemoryKept, Idle, Is
<1>4. SlotsOwned'
  BY UserdataAssumption DEF Inv, Shape, Calls, Object, CopyReturn, CallShape, MemoryKept, SlotsOwned, BlocksOwned, Idle, Is, Live, Unfinalized
<1> QED BY <1>1, <1>2, <1>3, <1>4

LEMMA FinalizeStep ==
    ASSUME Inv, NEW o \in Objects, Finalize(o)
    PROVE  Shape' /\ CallShape' /\ MemoryKept' /\ SlotsOwned'
<1>a. objects[o] \in Object
  BY DEF Inv, Shape, Finalize, Is
<1>b. [objects[o] EXCEPT !.finalized = TRUE, !.data = FALSE] \in Object
  BY <1>a DEF Object
<1>c. objects' = [objects EXCEPT ![o] = [objects[o] EXCEPT !.finalized = TRUE, !.data = FALSE]]
  BY <1>a DEF Inv, Shape, Finalize, Finalized, Object
<1>1. Shape'
  <2>1. objects' \in [Objects -> Object \cup {None}]
    BY <1>b, <1>c DEF Inv, Shape
  <2>2. registry' \in [Slots -> Strings \cup {None}]
    BY DEF Inv, Shape, Finalize, Finalized
  <2>3. objects'[o] # None /\ \A p \in Objects \ {o} : objects'[p] = objects[p]
    BY <1>b, <1>c, UserdataAssumption DEF Inv, Shape
  <2> QED BY <2>1, <2>2, <2>3, <1>a, UserdataAssumption DEF Inv, Shape, Finalize, Calls
<1>2. CallShape'
  <2>1. call.object # o
    BY DEF Inv, CallShape, Finalize, Reachable
  <2>2. ASSUME call.fn = "reader_new" PROVE registry'[call.slot] = registry[call.slot]
    BY <2>2 DEF Inv, Shape, CallShape, SlotsOwned, Live, Unfinalized, Finalize, Finalized, Is
  <2>3. call.object # None => objects'[call.object] = objects[call.object]
    BY <1>c, <2>1 DEF Inv, Shape, Calls
  <2> QED BY <2>2, <2>3 DEF Inv, CallShape, Finalize, Is, Idle, Shape, Calls
<1>3. MemoryKept'
  BY UserdataAssumption DEF Inv, Shape, Calls, Object, Finalize, Finalized, Reachable, CallShape, MemoryKept, Idle, Is
<1>4. SlotsOwned'
  BY UserdataAssumption DEF Inv, Shape, Calls, Object, Finalize, Finalized, Reachable, CallShape, MemoryKept, SlotsOwned, BlocksOwned, Idle, Is, Live, Unfinalized
<1> QED BY <1>1, <1>2, <1>3, <1>4

LEMMA SweepObjectStep ==
    ASSUME Inv, NEW o \in Objects, SweepObject(o)
    PROVE  Shape' /\ CallShape' /\ MemoryKept' /\ SlotsOwned'
<1>1. Shape'
  BY UserdataAssumption DEF Inv, Shape, Calls, Object, SweepObject, Reachable, CallShape, MemoryKept, Idle, Is
<1>2. CallShape'
  BY UserdataAssumption DEF Inv, Shape, Calls, Object, SweepObject, Reachable, CallShape, MemoryKept, Idle, Is
<1>3. MemoryKept'
  BY UserdataAssumption DEF Inv, Shape, Calls, Object, SweepObject, Reachable, CallShape, MemoryKept, Idle, Is
<1>4. SlotsOwned'
  BY UserdataAssumption DEF Inv, Shape, Calls, Object, SweepObject, Reachable, CallShape, MemoryKept, SlotsOwned, BlocksOwned, Idle, Is, Live, Unfinalized
<1> QED BY <1>1, <1>2, <1>3, <1>4

LEMMA SweepStringStep ==
    ASSUME Inv, NEW s \in Strings, SweepString(s)
    PROVE  Shape' /\ CallShape' /\ MemoryKept' /\ SlotsOwned'
<1>1. Shape'
  BY UserdataAssumption DEF Inv, Shape, Calls, Object, SweepString, Reachable, CallShape, MemoryKept, Idle, Is
<1>2. CallShape'
  BY UserdataAssumption DEF Inv, Shape, Calls, Object, SweepString, Reachable, CallShape, MemoryKept, Idle, Is
<1>3. MemoryKept'
  BY UserdataAssumption DEF Inv, Shape, Calls, Object, SweepString, Reachable, CallShape, MemoryKept, Idle, Is
<1>4. SlotsOwned'
  BY UserdataAssumption DEF Inv, Shape, Calls, Object, SweepString, Reachable, CallShape, MemoryKept, SlotsOwned, BlocksOwned, Idle, Is, Live, Unfinalized
<1> QED BY <1>1, <1>2, <1>3, <1>4
-----------------------------------------------------------------------------
(* The blocks.                                                              *)
LEMMA FilledFinite ==
    IsFiniteSet(Filled) /\ Cardinality(Filled) \in Nat
<1>1. Filled \subseteq Objects
  BY DEF Filled
<1> QED BY <1>1, UserdataAssumption, FS_Subset, FS_CardinalityType

LEMMA LostFinite ==
    ASSUME Inv
    PROVE  /\ lost.slots \subseteq Slots /\ lost.blocks \in 0 .. MaxErrors
           /\ Cardinality(lost.slots) \in Nat
<1>1. lost.slots \subseteq Slots /\ lost.blocks \in 0 .. MaxErrors
  BY DEF Inv, BlocksOwned
<1> QED BY <1>1, UserdataAssumption, FS_Subset, FS_CardinalityType

\* The balance with the number of filled writers as a number of its own.
Copying(fn) == IF fn = "copy" THEN 1 ELSE 0

LEMMA Balance ==
    ASSUME Inv
    PROVE  blocks = Cardinality(Filled) + Copying(call.fn) + lost.blocks
BY DEF Inv, BlocksOwned, BlocksHaveOneOwner, Filled, Copying

LEMMA Balanced ==
    ASSUME Inv, lost' \in [slots : SUBSET Slots, blocks : 0 .. MaxErrors],
           blocks' = Cardinality(Filled') + Copying(call'.fn) + lost'.blocks
    PROVE  BlocksOwned'
<1>1. Cardinality(Filled') \in Nat
  <2>1. Filled' \subseteq Objects
    BY DEF Filled
  <2> QED BY <2>1, UserdataAssumption, FS_Subset, FS_CardinalityType
<1>2. blocks' \in Nat
  BY <1>1, UserdataAssumption DEF Copying
<1> QED BY <1>2 DEF BlocksOwned, BlocksHaveOneOwner, Filled, Copying

LEMMA SameFilled ==
    ASSUME Inv, Filled' = Filled, lost' = lost,
           blocks' = blocks + Copying(call'.fn) - Copying(call.fn)
    PROVE  BlocksOwned'
<1>1. /\ Copying(call.fn) \in Nat /\ Copying(call'.fn) \in Nat /\ lost.blocks \in Nat
      /\ Cardinality(Filled) \in Nat
  BY FilledFinite, LostFinite, UserdataAssumption DEF Copying
<1>2. blocks' = Cardinality(Filled') + Copying(call'.fn) + lost'.blocks
  BY <1>1, Balance
<1>3. lost' \in [slots : SUBSET Slots, blocks : 0 .. MaxErrors]
  BY DEF Inv, BlocksOwned
<1> QED BY <1>2, <1>3, Balanced

LEMMA BlocksStep ==
    ASSUME Inv, Next
    PROVE  BlocksOwned'
<1>1. CASE UNCHANGED <<objects, blocks, lost>> /\ call'.fn # "copy" /\ call.fn # "copy"
  BY <1>1, SameFilled DEF Filled, Is, Copying, Inv, BlocksOwned
<1>2. ASSUME NEW s \in Strings, MakeString(s) PROVE BlocksOwned'
  BY <1>1, <1>2 DEF MakeString, Idle
<1>3. ASSUME NEW s \in Strings, NEW slot \in Slots, ReaderNew(s, slot) PROVE BlocksOwned'
  BY <1>1, <1>3 DEF ReaderNew, Idle
<1>4. ASSUME NEW v \in Strings \cup Objects, Drop(v) PROVE BlocksOwned'
  BY <1>1, <1>4 DEF Drop, Idle
<1>5. ASSUME NEW v \in Strings \cup Objects, Copy(v) PROVE BlocksOwned'
  <2>1. Filled' = Filled /\ lost' = lost
    BY <1>5 DEF Copy, Filled, Is
  <2>2. Copying(call.fn) = 0 /\ Copying(call'.fn) = 1
    BY <1>5 DEF Copy, Copying, Idle
  <2> QED BY <1>5, <2>1, <2>2, SameFilled DEF Copy, Inv, BlocksOwned
<1>6. ASSUME NEW o \in Objects, WriterNew(o) PROVE BlocksOwned'
  <2>1. Filled' = Filled
    BY <1>6, RecordsType DEF WriterNew, Filled, Is, Inv, Shape, Raw
  <2> QED BY <1>6, <2>1, SameFilled DEF WriterNew, Copying, Idle, Inv, BlocksOwned
<1>7. ASSUME NEW o \in Objects, WriterAdd(o) PROVE BlocksOwned'
  <2>1. /\ objects[o] \in Object /\ [objects[o] EXCEPT !.data = TRUE] \in Object
        /\ [objects[o] EXCEPT !.data = TRUE] # None
    <3>1. objects[o] \in Object
      BY <1>7 DEF Inv, Shape, WriterAdd, Is
    <3>2. [objects[o] EXCEPT !.data = TRUE] \in Object
      BY <3>1 DEF Object
    <3> QED BY <3>1, <3>2, UserdataAssumption
  <2>2. Filled' = Filled \cup {o} /\ o \notin Filled
    BY <1>7, <2>1 DEF WriterAdd, Filled, Is, Inv, Shape, Object
  <2>3. Cardinality(Filled') = Cardinality(Filled) + 1
    BY <2>2, FilledFinite, FS_AddElement
  <2> QED BY <1>7, <2>3, Balance, Balanced, FilledFinite, LostFinite
          DEF WriterAdd, Copying, Inv, BlocksOwned
<1>8. ASSUME NEW o \in Objects, NEW s \in Strings, WriterToBytes(o, s) PROVE BlocksOwned'
  BY <1>1, <1>8 DEF WriterToBytes, Idle
<1>9. ASSUME NEW o \in Objects, NewUserdata(o) PROVE BlocksOwned'
  <2>1. Filled' = Filled
    BY <1>9, RecordsType DEF NewUserdata, Filled, Is, Inv, Shape, Raw
  <2> QED BY <1>9, <2>1, SameFilled DEF NewUserdata, Copying, Inv, Shape, Calls, BlocksOwned
<1>10. ASSUME NewUserdataRaises PROVE BlocksOwned'
  <2>1. Filled' = Filled
    BY <1>10 DEF NewUserdataRaises, Filled, Is
  <2>2. lost' \in [slots : SUBSET Slots, blocks : 0 .. MaxErrors] /\ lost'.blocks = lost.blocks
    BY <1>10 DEF NewUserdataRaises, Inv, BlocksOwned, CallShape
  <2> QED BY <1>10, <2>1, <2>2, Balance, Balanced DEF NewUserdataRaises, Copying, Idle
<1>11. ASSUME ReaderReturn PROVE BlocksOwned'
  <2>1. call.object \in Objects /\ Is(call.object, "raw")
    BY <1>11 DEF ReaderReturn, Inv, CallShape, Is
  <2>2. Reader(call.arg, call.slot).kind = "reader"
    BY DEF Reader, Raw
  <2>3. Filled' = Filled
    BY <1>11, <2>1, <2>2 DEF ReaderReturn, Filled, Is, Inv, Shape
  <2> QED BY <1>11, <2>3, SameFilled DEF ReaderReturn, Copying, Idle, Inv, BlocksOwned
<1>12. ASSUME WriterReturn PROVE BlocksOwned'
  <2>1. call.object \in Objects /\ Is(call.object, "raw")
    BY <1>12 DEF WriterReturn, Inv, CallShape, Is
  <2>2. PICK allocated \in BOOLEAN :
          /\ objects' = [objects EXCEPT ![call.object] = Writer(allocated)]
          /\ blocks' = blocks + (IF allocated THEN 1 ELSE 0)
    BY <1>12 DEF WriterReturn
  <2>3. /\ Writer(allocated).kind = "writer" /\ Writer(allocated).data = allocated
        /\ Writer(allocated) # None
    BY RecordsType DEF Writer, Raw
  <2>4. /\ call.object \notin Filled
        /\ Filled' = IF allocated THEN Filled \cup {call.object} ELSE Filled
    BY <2>1, <2>2, <2>3 DEF Filled, Is, Inv, Shape
  <2>5. Cardinality(Filled \cup {call.object}) = Cardinality(Filled) + 1
    BY <2>4, FilledFinite, FS_AddElement
  <2>6. Cardinality(Filled') = Cardinality(Filled) + (IF allocated THEN 1 ELSE 0)
    <3>1. CASE allocated
      BY <2>4, <2>5, <3>1
    <3>2. CASE ~allocated
      BY <2>4, <3>2, FilledFinite
    <3> QED BY <3>1, <3>2
  <2> QED BY <1>12, <2>2, <2>6, Balance, Balanced, FilledFinite, LostFinite
          DEF WriterReturn, Copying, Idle, Inv, BlocksOwned
<1>13. ASSUME NEW s \in Strings, PushString(s) PROVE BlocksOwned'
  <2>1. Filled' = Filled /\ lost' = lost /\ call'.fn = call.fn
    BY <1>13 DEF PushString, Filled, Is, Inv, Shape, Calls
  <2> QED BY <1>13, <2>1, SameFilled DEF PushString, Copying, Inv, BlocksOwned
<1>14. ASSUME PushStringRaises PROVE BlocksOwned'
  <2>1. Filled' = Filled
    BY <1>14 DEF PushStringRaises, Filled, Is
  <2>2. /\ lost' \in [slots : SUBSET Slots, blocks : 0 .. MaxErrors]
        /\ lost'.blocks = lost.blocks + 1
    BY <1>14, LostFinite, UserdataAssumption DEF PushStringRaises, Inv, BlocksOwned, Errors
  <2> QED BY <1>14, <2>1, <2>2, Balance, Balanced, FilledFinite, LostFinite
          DEF PushStringRaises, Copying, Idle, Inv, BlocksOwned
<1>15. ASSUME CopyReturn PROVE BlocksOwned'
  <2>1. Filled' = Filled /\ lost' = lost
    BY <1>15 DEF CopyReturn, Filled, Is
  <2>2. Copying(call.fn) = 1 /\ Copying(call'.fn) = 0
    BY <1>15 DEF CopyReturn, Copying, Idle
  <2> QED BY <1>15, <2>1, <2>2, SameFilled DEF CopyReturn, Inv, BlocksOwned
<1>16. ASSUME NEW o \in Objects, Finalize(o) PROVE BlocksOwned'
  <2>1. objects[o] \in Object /\ objects[o] # None
    BY <1>16 DEF Inv, Shape, Finalize, Is
  <2>2. [objects[o] EXCEPT !.finalized = TRUE, !.data = FALSE] \in Object
    BY <2>1 DEF Object
  <2>3. objects' = [objects EXCEPT ![o] = [objects[o] EXCEPT !.finalized = TRUE, !.data = FALSE]]
    BY <1>16, <2>1 DEF Inv, Shape, Finalize, Finalized, Object
  <2>4. Filled' = Filled \ {o}
    BY <2>1, <2>2, <2>3 DEF Filled, Is, Inv, Shape, Object
  <2>5. o \in Filled <=> objects[o].data
    BY <1>16, <2>1 DEF Filled, Finalize, Is, Inv, MemoryKept
  <2>6. Cardinality(Filled') = Cardinality(Filled) - (IF objects[o].data THEN 1 ELSE 0)
    <3>1. Cardinality(Filled \ {o}) = IF o \in Filled THEN Cardinality(Filled) - 1
                                                     ELSE Cardinality(Filled)
      BY FilledFinite, FS_RemoveElement
    <3>2. CASE objects[o].data
      BY <2>4, <2>5, <3>1, <3>2
    <3>3. CASE ~objects[o].data
      BY <2>4, <2>5, <3>1, <3>3, FilledFinite
    <3> QED BY <3>2, <3>3
  <2>7. blocks' = blocks - (IF objects[o].data THEN 1 ELSE 0) /\ call' = call /\ lost' = lost
    BY <1>16 DEF Finalize, Finalized
  <2> QED BY <2>6, <2>7, Balance, Balanced, FilledFinite, LostFinite
          DEF Copying, Inv, BlocksOwned
<1>17. ASSUME NEW o \in Objects, SweepObject(o) PROVE BlocksOwned'
  <2>1. Filled' = Filled
    BY <1>17 DEF SweepObject, Filled, Is, Inv, Shape, MemoryKept
  <2> QED BY <1>17, <2>1, SameFilled DEF SweepObject, Copying, Inv, BlocksOwned
<1>18. ASSUME NEW s \in Strings, SweepString(s) PROVE BlocksOwned'
  <2>1. Filled' = Filled
    BY <1>18 DEF SweepString, Filled, Is
  <2> QED BY <1>18, <2>1, SameFilled DEF SweepString, Copying, Inv, BlocksOwned
<1> QED BY <1>2, <1>3, <1>4, <1>5, <1>6, <1>7, <1>8, <1>9, <1>10, <1>11, <1>12, <1>13,
           <1>14, <1>15, <1>16, <1>17, <1>18 DEF Next, CallSteps
-----------------------------------------------------------------------------
(* The invariant holds from the start and in every step.                    *)
LEMMA InitInv ==
    ASSUME Init
    PROVE  Inv
<1>1. Shape /\ CallShape /\ MemoryKept /\ SlotsOwned
  BY UserdataAssumption
     DEF Init, Shape, CallShape, MemoryKept, SlotsOwned, Idle, Calls, Is, Live, Unfinalized
<1>2. Filled = {}
  BY DEF Init, Filled, Is
<1>3. BlocksOwned
  <2>1. Cardinality(Filled) = 0
    BY <1>2, FS_EmptySet
  <2>2. lost \in [slots : SUBSET Slots, blocks : 0 .. MaxErrors] /\ lost.blocks = 0
    BY UserdataAssumption DEF Init
  <2>3. blocks = 0 /\ call.fn = "none"
    BY DEF Init, Idle
  <2> QED BY <2>1, <2>2, <2>3 DEF BlocksOwned, BlocksHaveOneOwner, Filled
<1> QED BY <1>1, <1>3 DEF Inv

LEMMA InvStep ==
    ASSUME Inv, [Next]_vars
    PROVE  Inv'
<1>1. CASE Next
  <2>1. Shape' /\ CallShape' /\ MemoryKept' /\ SlotsOwned'
    BY <1>1, MakeStringStep, ReaderNewStep, DropStep, CopyStep, WriterNewStep, WriterAddStep,
       WriterToBytesStep, NewUserdataStep, NewUserdataRaisesStep, ReaderReturnStep,
       WriterReturnStep, PushStringStep, PushStringRaisesStep, CopyReturnStep, FinalizeStep,
       SweepObjectStep, SweepStringStep DEF Next, CallSteps
  <2> QED BY <1>1, <2>1, BlocksStep DEF Inv
<1>2. CASE UNCHANGED vars
  BY <1>2 DEF vars, Inv, Shape, CallShape, MemoryKept, SlotsOwned, BlocksOwned,
              BlocksHaveOneOwner, Is, Live, Unfinalized
<1> QED BY <1>1, <1>2

(* The invariant is one of the binding's every behaviour.                   *)
THEOREM InvHolds == Spec => []Inv
BY InitInv, InvStep, PTL DEF Spec

(* Every variable keeps its type: what the program's variables refer to is  *)
(* in memory, and the number of blocks never falls below 0.                 *)
THEOREM TypeCorrect == Spec => []TypeOK
<1>1. Inv => TypeOK
  BY DEF Inv, Shape, BlocksOwned, TypeOK
<1> QED BY <1>1, InvHolds, PTL

(* No reader of lua_data.c loses the string it points into before its       *)
(* finalizer has run.                                                       *)
THEOREM StringsKept == Spec => []StringsOutliveReaders
<1>1. ASSUME Inv PROVE StringsOutliveReaders
  <2>1. ASSUME NEW o \in Objects, Live(o) PROVE objects[o].buffer \in live
    BY <1>1, <2>1, UserdataAssumption DEF Inv, MemoryKept, SlotsOwned, Live
  <2>2. ASSUME call.fn = "reader_new" PROVE call.arg \in live
    BY <1>1, <2>2, UserdataAssumption DEF Inv, CallShape, MemoryKept
  <2> QED BY <2>1, <2>2 DEF StringsOutliveReaders, Live
<1> QED BY <1>1, InvHolds, PTL

(* A slot of the registry has one owner while it refers to something, and   *)
(* none otherwise.                                                          *)
LEMMA OneOwner ==
    ASSUME Inv, NEW slot \in Slots
    PROVE  Cardinality(Owners(slot))
             + (IF call.slot = slot THEN 1 ELSE 0)
             + (IF slot \in lost.slots THEN 1 ELSE 0)
           = (IF registry[slot] # None THEN 1 ELSE 0)
<1>1. \A o \in Objects : o \in Owners(slot) <=> Live(o) /\ objects[o].slot = slot
  BY DEF Owners, Live
<1>2. \A o \in Owners(slot) :
        /\ registry[slot] \in Strings /\ call.slot # slot /\ slot \notin lost.slots
        /\ Owners(slot) = {o}
  <2>1. ASSUME NEW o \in Objects, Live(o), objects[o].slot = slot
        PROVE  /\ registry[slot] \in Strings /\ call.slot # slot /\ slot \notin lost.slots
               /\ \A p \in Objects : Live(p) /\ objects[p].slot = slot => p = o
    BY <2>1 DEF Inv, SlotsOwned, MemoryKept, Live
  <2> QED BY <1>1, <2>1 DEF Owners
<1>3. call.slot = slot => registry[slot] \in Strings /\ slot \notin lost.slots
  BY UserdataAssumption DEF Inv, CallShape, SlotsOwned
<1>4. slot \in lost.slots => registry[slot] # None
  BY DEF Inv, SlotsOwned
<1>5. registry[slot] # None =>
        Owners(slot) # {} \/ call.slot = slot \/ slot \in lost.slots
  BY <1>1 DEF Inv, SlotsOwned
<1>6. CASE Owners(slot) = {}
  <2>1. Cardinality(Owners(slot)) = 0
    BY <1>6, FS_EmptySet
  <2> QED BY <1>3, <1>4, <1>5, <1>6, <2>1, UserdataAssumption
<1>7. ASSUME NEW o \in Owners(slot) PROVE Cardinality(Owners(slot)) = 1
  BY <1>2, FS_Singleton
<1>8. CASE Owners(slot) # {}
  <2>1. registry[slot] # None /\ call.slot # slot /\ slot \notin lost.slots
    BY <1>2, <1>8, UserdataAssumption
  <2> QED BY <1>7, <1>8, <2>1
<1> QED BY <1>6, <1>8

(* No reference of the registry is given back twice, or while a reader of   *)
(* lua_data.c relies on it; only an error leaves one without an owner.      *)
THEOREM OneOwnerPerSlot == Spec => []SlotsHaveOneOwner
<1>1. Inv => SlotsHaveOneOwner
  BY OneOwner DEF SlotsHaveOneOwner
<1> QED BY <1>1, InvHolds, PTL

(* No block of C memory is freed twice; only an error leaves one behind.    *)
THEOREM OneOwnerPerBlock == Spec => []BlocksHaveOneOwner
<1>1. Inv => BlocksHaveOneOwner
  BY DEF Inv, BlocksOwned
<1> QED BY <1>1, InvHolds, PTL
=============================================================================
