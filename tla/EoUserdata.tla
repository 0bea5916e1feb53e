----------------------------- MODULE EoUserdata -----------------------------
(***************************************************************************)
(* The readers and writers of the Lua binding, lua/src/lua_data.c, against *)
(* Lua's collector.  A reader points into the memory of a Lua string, which*)
(* the collector does not know of; only a reference in Lua's registry keeps*)
(* the string.  A writer, and every call that copies bytes, has a block of *)
(* C memory, which the collector does not know of either.                  *)
(*                                                                         *)
(* A C function is cut into steps where it calls Lua with something that   *)
(* may collect or may raise an error; the collector runs in between.  Names*)
(* stand for memory: a string or a userdata that was swept may be made     *)
(* anew.  A raised error leaves the C function and drops its stack.        *)
(***************************************************************************)
EXTENDS Integers, FiniteSets

CONSTANTS
    Strings,     \* the strings there can be at a time
    Objects,     \* the userdata there can be at a time
    Slots,       \* the registry's indexes for references
    MaxErrors,   \* bound on the errors that lose something
    None

\* What is behind a userdata: the struct, and whether its finalizer has run.
Object ==
    [kind : {"raw", "reader", "writer"}, buffer : Strings \cup {None},
     slot : Slots \cup {None}, data : BOOLEAN, finalized : BOOLEAN]

ASSUME UserdataAssumption ==
    /\ Strings \cap Objects = {}
    /\ None \notin Strings \cup Objects \cup Slots \cup Object
    /\ IsFiniteSet(Objects) /\ IsFiniteSet(Slots)
    /\ MaxErrors \in Nat

VARIABLES
    live,      \* the strings in memory
    objects,   \* the userdata in memory, None where there is none
    registry,  \* the string each slot refers to, or None
    held,      \* what the program's variables refer to
    call,      \* the C function that runs: its arguments, locals and stack
    blocks,    \* the number of blocks from malloc that were not freed
    lost       \* history: slots and blocks that errors left without an owner

vars == <<live, objects, registry, held, call, blocks, lost>>

Idle == [fn |-> "none", arg |-> None, object |-> None, slot |-> None, pushed |-> None]

\* Userdata that has no metatable yet, and so no finalizer.
Raw == [kind |-> "raw", buffer |-> None, slot |-> None, data |-> FALSE, finalized |-> FALSE]

Reader(string, slot) == [Raw EXCEPT !.kind = "reader", !.buffer = string, !.slot = slot]
Writer(allocated)    == [Raw EXCEPT !.kind = "writer", !.data = allocated]

Is(o, kind) == o \in Objects /\ objects[o] # None /\ objects[o].kind = kind

Init ==
    /\ live = {} /\ held = {}
    /\ objects = [o \in Objects |-> None]
    /\ registry = [slot \in Slots |-> None]
    /\ call = Idle
    /\ blocks = 0
    /\ lost = [slots |-> {}, blocks |-> 0]

-----------------------------------------------------------------------------
(* What the program does by itself.  Lua interns strings: a string that is  *)
(* made may be one that is still in memory, even one nobody refers to.      *)
MakeString(s) ==
    /\ call = Idle
    /\ live' = live \cup {s} /\ held' = held \cup {s}
    /\ UNCHANGED <<objects, registry, call, blocks, lost>>

Drop(v) ==
    /\ call = Idle /\ v \in held
    /\ held' = held \ {v}
    /\ UNCHANGED <<live, objects, registry, call, blocks, lost>>

(* reader_new.  An error of luaL_ref leaves nothing behind; one of          *)
(* lua_newuserdata leaves the reference, which nobody knows any more.       *)
\* The reader relies on whoever made the string.
ReaderNew_Unreferenced(s, slot) ==
    /\ call = Idle /\ s \in held \cap Strings /\ registry[slot] = None
    /\ call' = [Idle EXCEPT !.fn = "reader_new", !.arg = s, !.slot = slot]
    /\ UNCHANGED <<live, objects, registry, held, blocks, lost>>

ReaderNew(s, slot) ==
    /\ call = Idle /\ s \in held \cap Strings /\ registry[slot] = None
    /\ registry' = [registry EXCEPT ![slot] = s]
    /\ call' = [Idle EXCEPT !.fn = "reader_new", !.arg = s, !.slot = slot]
    /\ UNCHANGED <<live, objects, held, blocks, lost>>

NewUserdata(o) ==
    /\ call.fn = "reader_new" /\ call.object = None /\ objects[o] = None
    /\ objects' = [objects EXCEPT ![o] = Raw]
    /\ call' = [call EXCEPT !.object = o]
    /\ UNCHANGED <<live, registry, held, blocks, lost>>

Errors == Cardinality(lost.slots) + lost.blocks

NewUserdataRaises ==
    /\ call.fn = "reader_new" /\ call.object = None /\ Errors < MaxErrors
    /\ lost' = [lost EXCEPT !.slots = @ \cup {call.slot}]
    /\ call' = Idle
    /\ UNCHANGED <<live, objects, registry, held, blocks>>

ReaderReturn ==
    /\ call.fn = "reader_new" /\ call.object # None
    /\ objects' = [objects EXCEPT ![call.object] = Reader(call.arg, call.slot)]
    /\ held' = held \cup {call.object}
    /\ call' = Idle
    /\ UNCHANGED <<live, registry, blocks, lost>>

(* writer_new.  The first block may be missing (malloc is not checked); the *)
(* first call that adds something then gets it.                             *)
WriterNew(o) ==
    /\ call = Idle /\ objects[o] = None
    /\ objects' = [objects EXCEPT ![o] = Raw]
    /\ call' = [Idle EXCEPT !.fn = "writer_new", !.object = o]
    /\ UNCHANGED <<live, registry, held, blocks, lost>>

WriterReturn ==
    /\ call.fn = "writer_new"
    /\ \E allocated \in BOOLEAN :
         /\ objects' = [objects EXCEPT ![call.object] = Writer(allocated)]
         /\ blocks' = blocks + (IF allocated THEN 1 ELSE 0)
    /\ held' = held \cup {call.object}
    /\ call' = Idle
    /\ UNCHANGED <<live, registry, lost>>

(* writer_add_*: what a call allocates for itself it frees before it        *)
(* returns or raises an error; the block grows in place.                    *)
WriterAdd(o) ==
    /\ call = Idle /\ o \in held /\ Is(o, "writer") /\ ~objects[o].data
    /\ objects' = [objects EXCEPT ![o].data = TRUE]
    /\ blocks' = blocks + 1
    /\ UNCHANGED <<live, registry, held, call, lost>>

\* writer_to_bytes
WriterToBytes(o, s) ==
    /\ call = Idle /\ o \in held /\ Is(o, "writer")
    /\ live' = live \cup {s} /\ held' = held \cup {s}
    /\ UNCHANGED <<objects, registry, call, blocks, lost>>

(* The functions that hand out bytes copy them into a block of their own,   *)
(* push that as a string and free it: reader_get_string and its kind from   *)
(* the buffer of a reader, lua_encode_string and its kind from a string.    *)
(* An error of lua_pushstring leaves the block.                             *)
Copy(v) ==
    /\ call = Idle /\ v \in held
    /\ v \in Strings \/ Is(v, "reader")
    /\ blocks' = blocks + 1
    /\ call' = [Idle EXCEPT !.fn = "copy", !.arg = v]
    /\ UNCHANGED <<live, objects, registry, held, lost>>

PushString(s) ==
    /\ call.fn = "copy" /\ call.pushed = None
    /\ live' = live \cup {s}
    /\ call' = [call EXCEPT !.pushed = s]
    /\ UNCHANGED <<objects, registry, held, blocks, lost>>

PushStringRaises ==
    /\ call.fn = "copy" /\ call.pushed = None /\ Errors < MaxErrors
    /\ lost' = [lost EXCEPT !.blocks = @ + 1]
    /\ call' = Idle
    /\ UNCHANGED <<live, objects, registry, held, blocks>>

\* The block is kept.
CopyReturn_Unfreed ==
    /\ call.fn = "copy" /\ call.pushed # None
    /\ held' = held \cup {call.pushed}
    /\ call' = Idle
    /\ UNCHANGED <<live, objects, registry, blocks, lost>>

CopyReturn ==
    /\ call.fn = "copy" /\ call.pushed # None
    /\ blocks' = blocks - 1
    /\ held' = held \cup {call.pushed}
    /\ call' = Idle
    /\ UNCHANGED <<live, objects, registry, lost>>

-----------------------------------------------------------------------------
(* The collector.  It knows the program's variables, the stack of the call  *)
(* and the registry.                                                        *)
Reachable ==
    held \cup {call.arg, call.object, call.pushed} \cup {registry[slot] : slot \in Slots}

\* A finalizer of readers that does nothing, as that of a sequencer.
Finalized_KeepsSlot(o) ==
    /\ objects' = [objects EXCEPT ![o].finalized = TRUE, ![o].data = FALSE]
    /\ blocks' = blocks - (IF objects[o].data THEN 1 ELSE 0)
    /\ UNCHANGED registry

\* writer_gc with eo_writer_free, and reader_gc
Finalized(o) ==
    /\ objects' = [objects EXCEPT ![o].finalized = TRUE, ![o].data = FALSE]
    /\ blocks' = blocks - (IF objects[o].data THEN 1 ELSE 0)
    /\ registry' = IF Is(o, "reader") THEN [registry EXCEPT ![objects[o].slot] = None]
                                      ELSE registry

\* A finalizer that runs again.
Finalize_Again(o) ==
    /\ o \notin Reachable
    /\ Is(o, "reader") \/ Is(o, "writer")
    /\ Finalized(o)
    /\ UNCHANGED <<live, held, call, lost>>

Finalize(o) ==
    /\ o \notin Reachable
    /\ Is(o, "reader") \/ Is(o, "writer")
    /\ ~objects[o].finalized
    /\ Finalized(o)
    /\ UNCHANGED <<live, held, call, lost>>

SweepObject(o) ==
    /\ o \notin Reachable /\ objects[o] # None
    /\ Is(o, "raw") \/ objects[o].finalized
    /\ objects' = [objects EXCEPT ![o] = None]
    /\ UNCHANGED <<live, registry, held, call, blocks, lost>>

SweepString(s) ==
    /\ s \in live \ Reachable
    /\ live' = live \ {s}
    /\ UNCHANGED <<objects, registry, held, call, blocks, lost>>

-----------------------------------------------------------------------------
CallSteps ==
    \/ \E o \in Objects : NewUserdata(o)
    \/ NewUserdataRaises
    \/ ReaderReturn
    \/ WriterReturn
    \/ \E s \in Strings : PushString(s)
    \/ PushStringRaises
    \/ CopyReturn

Next ==
    \/ \E s \in Strings : MakeString(s) \/ (\E slot \in Slots : ReaderNew(s, slot))
    \/ \E v \in Strings \cup Objects : Drop(v) \/ Copy(v)
    \/ \E o \in Objects : WriterNew(o) \/ WriterAdd(o)
    \/ \E o \in Objects, s \in Strings : WriterToBytes(o, s)
    \/ CallSteps
    \/ \E o \in Objects : Finalize(o) \/ SweepObject(o)
    \/ \E s \in Strings : SweepString(s)

(* A call that was made goes on, and the collector gets to everything it    *)
(* may collect: a program that runs on allocates, which drives it.          *)
Fairness ==
    /\ WF_vars(CallSteps)
    /\ \A o \in Objects : WF_vars(Finalize(o)) /\ WF_vars(SweepObject(o))
    /\ \A s \in Strings : WF_vars(SweepString(s))

Spec == Init /\ [][Next]_vars /\ Fairness

-----------------------------------------------------------------------------
Calls ==
    [fn : {"none", "reader_new", "writer_new", "copy"},
     arg : Strings \cup Objects \cup {None}, object : Objects \cup {None},
     slot : Slots \cup {None}, pushed : Strings \cup {None}]

TypeOK ==
    /\ live \subseteq Strings
    /\ objects \in [Objects -> Object \cup {None}]
    /\ registry \in [Slots -> Strings \cup {None}]
    /\ held \subseteq live \cup {o \in Objects : objects[o] # None}
    /\ call \in Calls
    /\ blocks \in Nat
    /\ lost \in [slots : SUBSET Slots, blocks : 0 .. MaxErrors]

Unfinalized(o) == objects[o] # None /\ ~objects[o].finalized

(* The string a reader points into stays in memory until the reader's       *)
(* finalizer has run, whoever else drops it and whenever the collector runs *)
(* (reader_new, lua_data.c:199); the same for the string a reader is being  *)
(* made of.                                                                 *)
StringsOutliveReaders ==
    /\ \A o \in Objects : Unfinalized(o) /\ Is(o, "reader") => objects[o].buffer \in live
    /\ call.fn = "reader_new" => call.arg \in live

(* Every reference in the registry is that of one reader, or of the call    *)
(* that makes one, or was left by an error: none is given back twice or     *)
(* while another reader relies on it.                                       *)
Owners(slot) ==
    {o \in Objects : Unfinalized(o) /\ Is(o, "reader") /\ objects[o].slot = slot}

SlotsHaveOneOwner ==
    \A slot \in Slots :
        Cardinality(Owners(slot))
          + (IF call.slot = slot THEN 1 ELSE 0)
          + (IF slot \in lost.slots THEN 1 ELSE 0)
        = (IF registry[slot] # None THEN 1 ELSE 0)

(* Every block of C memory is that of one writer or of the running call, or *)
(* was left by an error: nothing is freed twice, nothing else is forgotten. *)
BlocksHaveOneOwner ==
    blocks = Cardinality({o \in Objects : Is(o, "writer") /\ objects[o].data})
             + (IF call.fn = "copy" THEN 1 ELSE 0) + lost.blocks

(* A string that neither the program nor a reader of the program needs is   *)
(* freed: the registry does not keep it for ever (reader_gc, lua_data.c:214)*)
(* Only an error between luaL_ref and lua_newuserdata makes it do so.       *)
Needed(s) ==
    \/ s \in held \cup {call.arg, call.pushed}
    \/ \E o \in held \cap Objects : Is(o, "reader") /\ objects[o].buffer = s
    \/ \E slot \in lost.slots : registry[slot] = s

DroppedStringsAreFreed == \A s \in Strings : []<>(s \notin live \/ Needed(s))
=============================================================================
