# eolib-c in TLA+

eolib-c is a C library for the wire protocol of Endless Online: a number and
text codec, a packet reader and writer, packet encryption, packet sequence
numbers, a random number generator, and a code generator that turns XML protocol
definitions into C structs with serializers. This directory models it in TLA+,
checks the models with TLC and proves theorems about them with TLAPS.

Paths below are relative to the repository's root; `data.c`, `sequencer.c`,
`rng.c` and `encrypt.c` lie in `src/`, the `code_gen_*` files in `tools/`.

## 1. Inventory

| Part | Source | State it keeps | Operations | What makes it correct | Status |
|---|---|---|---|---|---|
| Number codec | `data.c` 273-338 | none | `eo_encode_number`, `eo_decode_number` | decoding what was encoded gives the number back; encoded bytes are never the break byte | modelled, proved |
| String transform | `data.c` 340-408 | none | `eo_encode_string`, `eo_decode_string` | decode undoes encode; no break byte appears or disappears | modelled |
| Text conversion | `data.c` 15-173 | none | `normalize_to_cp1252`, `eo_string_to_windows_1252` | one Windows-1252 byte per character, whatever else the text holds; no access behind the text; a text that is sent back and forth settles | modelled |
| `EoWriter` | `data.c` 216-832 | buffer, `length`, `capacity`, sanitization mode | init, free, `ensure_capacity`, `add_*` | never writes outside its memory; an add is all or nothing; a sanitized text contains no break byte | modelled, proved |
| `EoReader` | `data.c` 834-1196 | `offset`, chunked mode, `chunk_offset`, `next_chunk_offset` | init, `set_chunked_reading_mode`, `next_chunk`, `remaining`, `get_*` | reads stay in the buffer and in the chunk; chunks are visited once each; failed reads change nothing | modelled, proved |
| Sequencer | `sequencer.c` | `start`, `counter` | `eo_sequencer_next`, conversions between a start and its bytes | client and server stay in step; every stamp can be encoded | modelled, proved |
| Random numbers | `rng.c` | two static words | `eo_srand`, `eo_rand`, `eo_rand_range` | a range draw stays in its range; the words step as one | modelled, proved |
| Encryption | `encrypt.c` | none (in place on a packet) | `eo_swap_multiples`, `eo_encrypt_packet`, `eo_decrypt_packet` | decrypt undoes encrypt; the in-place permutation moves every byte once | modelled |
| Verification hash, swap multiples | `encrypt.c` 5-10, `encrypt.h` 46-69 | draws from the generator | `eo_server_verification_hash`, `eo_generate_*` | an answer fits three bytes; a multiple is never 0 | modelled, proved |
| Generated structs | written by `code_gen_protocol.c` | the struct's memory, the modes of writer and reader | init, serialize, deserialize, get_size, free | what one side writes the other reads; `eo_get_size` is exact; modes are restored; `eo_free` is safe and complete | modelled |
| Code generator | `tools/*.c` | definitions in memory | XML parsing, analyses, C, Lua, wasm and test output | analyses agree with the emitted code | the analyses of the C output |
| Generated Lua functions | written by `code_gen_lua.c` | Lua tables | serialize, deserialize, write | a table and a struct hold the same; what was read is freed | modelled |
| Generated wasm function | written by `code_gen_wasm.c` | one static buffer | `wasm_packet_roundtrip` | a packet is answered by the same bytes; the struct is freed | modelled, without the choice of the struct |
| Lua binding | `lua/src/` | userdata, references in Lua's registry | wrappers of the above, finalizers | strings outlive the readers on them; references and blocks have one owner | readers and writers modelled, proved |
| Wasm binding | `wasm/` | two static buffers | wrappers of the above | - | not modelled |
| Demo | `demos/win32` | window, socket | GUI of one platform | outside the protocol | not modelled |

**How the parts interact.** The reader and the writer use the number codec and
the string transform. Generated structs call the reader and the writer, nest in
one another, and share the modes of one reader or writer with the struct around
them. The sequencer's splits draw from the generator of random numbers, whose
two words all of the process shares. A client and a server exchange starts as two bytes
and stamps as encoded chars, so a session composes the sequencer with the codec.
Encryption works on the finished packet.

**What is hard.** Nothing in the library runs concurrently by itself, so the
difficulties are elsewhere:

- long sequences of legal calls: the modes and the cached chunk boundary of a
  reader, a writer that is freed and used again;
- partial failure: each call may make up to three allocations, and a message may
  end anywhere, with a half-filled struct left to free; a Lua error may leave a C
  function in the middle;
- a collector that does not know of C memory and runs whenever Lua allocates;
- ordering and unreliable delivery: pings that cross packets on their way,
  packets that are lost, repeated or overtaken;
- numeric edges: digits in base 253 of signed words, the highest start of a
  sequence, the range of all words, a size sum near `SIZE_MAX`, a text that ends in
  the middle of a character;
- agreement of code generated in six places (serialize, deserialize, size, free,
  to and from a Lua table) from one definition;
- termination of loops whose progress depends on data: chunks, arrays without a
  length, cycles of a permutation.

`PROJECT.json` lists each hazard with its line and the properties that cover it.

## 2. The modules

Operators on a struct are in a module of their own (`...Ops`), because two kinds
of modules use them: the component alone with a client that calls anything in any
order, and the generated code that calls it in the order of a definition.

| Module | What it models |
|---|---|
| `EoNumber` | digits of the codec for any base `CharMax` and any word size, conversions between `int32_t` and `uint32_t` |
| `EoString` | the reversal and the two alternating flips of encoded strings; sanitization |
| `EoReaderOps`, `EoReader` | the reader's functions as operators; a client that calls them in any order |
| `EoWriterOps`, `EoWriter` | the writer's functions as operators, each with the allocation that fails; a client that calls them in any order |
| `EoSequence` | the functions of `sequencer.c` as operators |
| `EoSession` | a client, a server and a network that loses, repeats and reorders |
| `EoRng` | the generator's two words, with wrap-around, as operators |
| `EoDraws` | a program in which everything that draws takes turns on the two words: splits of starts, swap multiples, challenges; the answer to a challenge |
| `EoText` | the loop that turns UTF-8 into Windows-1252, and a program that sends on what it got |
| `EoCipherSpec`, `EoCipherOps`, `EoCipher` | encryption at once; what it does to a whole packet; the loops of `encrypt.c`, one iteration a step |
| `EoSchema` | a protocol definition (the generator's element lists) and the analyses of `code_gen_analysis.c` |
| `EoStruct` | the memory of a struct and the statements of the generated code |
| `EoSerialize`, `EoDeserialize` | the statements of the serialize and the deserialize functions, one action each |
| `EoMeasure`, `EoRelease` | the `get_size` and the free functions |
| `EoLua` | the generated conversions between a struct and a Lua table |
| `EoProtocol` | a program that measures, sends, receives, sends back and frees, the receiver in C, in Lua or in the wasm build |
| `EoUserdata` | the Lua binding's readers and writers under Lua's collector |
| `MC...` | the small instances |
| `..._proofs` | the theorems |

### Correspondence with the code

- **Reader and writer.** One call is one step: the library is single threaded. The
  variable `reader` (`writer`) is the struct, `last` the call made last with its
  result and, for a read, the bytes it took. The C offsets are kept, zero-based.
  Each `alloc` or `fail` parameter is an allocation of the call that may return
  null. `block` is the real size of the writer's memory, so a `capacity` that lies
  shows.
  `early` is a history variable of the reader: whether chunked mode was turned off
  before the first boundary was found.
- **Texts.** In the writer and the generated code a text is a sequence of
  characters; a character has the Windows-1252 byte it becomes and the number of
  bytes it has in UTF-8. This is what their properties tell apart: the size
  functions count the one, the writer writes the other. `EoText` has the
  conversion itself, on real bytes: `pos` is the `i` of the loop, one iteration a
  step. The three branches for sequences of two, three and four bytes are one
  action, `DecodeSequence`; `PassByte` is the last branch, which also takes the
  first byte of a sequence that is broken. `reach` notes the last byte the
  conditions looked at. `Resend` is a program that sends what it has read.
- **Draws.** `words` are the two static variables of `rng.c`. Every function of the
  library that draws is an action on them; the bytes of a split are those of
  `EoSequence`, the operators `EoSession` also uses, there with any draw.
- **Session.** `ServerStart`, `ClientStart`, `ClientSend` and `ClientPong` are the
  uses of the sequencer that `docs/usage.dox` shows. The server's side of a
  ping, the comparison of a stamp and the network are not in the repository; they
  are modelled as the documentation describes them and marked external.
- **Cipher.** `i`, `j`, `run` (for `sequence_length`) and `temp` are the C
  variables; `pc` says which loop is at work. A reversal is one step.
- **Generated code.** The generator writes, for each element of a definition, a
  fixed block of C. The model interprets definitions instead of printing code:
  `todo` holds the elements still to be handled with the path of the struct they
  belong to, and there is one action for each block the generator can emit. A loop
  over an array is taken round by round (`Round`). The analyses that
  follow nested definitions (`EoSchema`, `EoMeasure`, `EoRelease`, `EoLua`) are recursive functions over the
  given `ElementLists`. `mem`
  maps paths of cells to values, `heap` is the set of pointers that own a block,
  `raw` are array items that came uninitialised from `malloc` (or have no memory
  at all), and reading one gives `Garbage`. `locals` are the length variables of
  the deserialize function. An access the program does not survive sets `fault`.
  `scarce` says whether allocations may fail in this execution.
- **Lua.** `table` maps paths of entries to values, as `mem` does for a struct; a
  switch's entries lie directly in its data table. Each conversion is one step:
  it calls nothing that the rest of the model could observe. `LuaDeserialize`
  converts and frees, `LuaConvert` and `LuaSerialize` are the two halves of the
  generated `serialize`. The generated function frees the struct before it looks at the
  result; in the model `Free` does that as the next step. `LuaWrite` is the generated
  `write`: it serializes behind what the program's own writer holds, `Header`,
  in the mode the program left it in.
- **Wasm.** `WasmAnswer` is `wasm_packet_roundtrip` after its deserialization. The
  generated code compares results with -1, which no result is; so `WasmAnswer` has no guard on
  the result, and what came of a refused packet is answered too. If cells of it
  were never written, C does not say what happens: `WasmUndefined` ends such an
  execution (`Over`).
- **Lua's memory.** A C function of the binding is cut where it calls Lua with something
  that may collect or raise an error: `reader_new` between `luaL_ref`,
  `lua_newuserdata` and its end, a copying function before and after
  `lua_pushstring`. `call` is the function with its arguments, locals and stack;
  `NewUserdataRaises` and `PushStringRaises` are the errors that lose something,
  and `lost` keeps account of it. The collector (`Finalize`, `SweepObject`,
  `SweepString`) is Lua's, not the repository's, and is modelled by what its
  manual promises: what the program, a stack or the registry refers to stays, the rest
  is finalized once and swept in any order. The finalizers themselves
  (`Finalized`) are `reader_gc` and `writer_gc`.

### Abstract specifications and refinement

`EoCipherSpec` says that a call replaces the packet by its encryption or
decryption, at once. `EoCipher` is shown to implement it: it instantiates
`EoCipherSpec` WITH `packet <- given`, the packet of the current call, and the
property `AtOnce` says that each step of the loops is a stutter or a whole call.

## 3. Model checking

All constants have the roles of the code's but are smaller. In the reader, writer
and protocol runs `CharMax` is 9 (253 in the code): bytes are 0..11, 10 is padding
and 11 the break byte. `WordSize` is a stand-in for 2^32 that satisfies what
`NumberAssumption` demands of it: four digits fit, and negative words lie above
them. `SanitizedBreak` and the three `Flip` constants place the byte `y` and the ranges that
the string transform mirrors.

| Run | What it shows | Bounds |
|---|---|---|
| `reader` | Cursor and boundaries stay in the buffer; `next_chunk` skips only delimiters; loops over chunks advance; reads are all or nothing; for a client that does not turn chunked mode off too early strings stay in their chunk and `next_chunk` passes one delimiter | every buffer of up to 4 bytes of every kind the code tells apart; lengths 0..3; any calls, mode switched at will |
| `writer` | No write outside the memory; adds all or nothing; delimiters only where asked for; none in numbers | `SizeMax` 4, so growth, the overflow check and reuse after free all happen; numbers on both sides of each limit |
| `session` | In-order packets pass (except one stamp, see below); accepted packets are due; both ends know the same start | 2 pings, 12 packets a start (past the wrap after 10), 3 in flight, 2 faults |
| `cipher` | In-place loops implement the cipher; cycles move once; decrypting undoes encrypting; the loops end | all packets of up to 4 bytes of 4 kinds, longer ones up to 13 |
| `draws` | A draw lies in its range; the two words step like one double word; a start is split exactly when it can be, whatever is drawn, and the peer gets it back; answers to challenges fit three bytes | words of 4 bits, every state the generator can get to; every start from -16 to 54 in base 9; ranges at the ends of a word; challenges on both sides of the magic number |
| `protocol` | `eo_get_size` is exact; fields and bytes arrive; a Lua table holds all of a struct; cuts are noticed; `eo_free` is safe and complete; modes are restored; every call returns | 12 definitions that between them have every kind of element, in chunks, nested, counted, delimited, optional and switched; a peer in C, in Lua or in the wasm build; every prefix of every message; for 10 of them also every allocation failing at every point |
| `text` | Every character becomes its byte; sequences are found wherever they begin, also inside broken ones; no access behind the text; a text that is sent on settles | every text of up to 4 bytes, of 16 bytes at the ends of the ranges of UTF-8; every text of up to 3 of 18 characters, at the ends of the widths and of the table |
| `userdata` | No reader loses its string; references and blocks have one owner, and none is kept for nothing | 2 strings, 2 userdata, 3 slots, 2 errors; any order of calls, drops, errors and steps of the collector |

The types of reader, writer, session, draws and the Lua binding's memory are not
run: they are proved (`TypeCorrect`, `SplitsAreDigits`), as is `WindowIsOneChunk`, from which the properties
of chunks follow. `LoopInvariant` and `StaysInside` contain the types of the cipher
and of the conversion.

Why the bounds are enough. The reader has only two boundaries and a cursor; four
bytes hold two delimiters with data before, between or behind them, and longer
buffers repeat these. The writer compares only sums with `SizeMax` and
`capacity`. The session's state that matters is the counter (0 to 9, so twelve
packets wrap it), the order of at most one open ping and the packets around it.
Draws depend on the words by their remainders, so words of 4 bits, with factors
whose products overflow, have every carry the code can meet; the splits only compare
and divide by 7, and base 9 is the smallest that leaves a start to generate.
The weave of the cipher has its first interesting cycles at 5 to 9 bytes. A
sequence of UTF-8 has at most four bytes, and a broken one hides at most
another of three.
With two userdata there are two readers of one string and a reader beside a
writer; a third slot is left for a reference that an error lost. A generated
function handles its elements one after the other; the definitions put each kind
of element where what comes before or after matters. `MaxItems` is the number of
items after which the count of an array that never ends stays the same, so that
an endless loop is a cycle of states; arrays that end are shorter.

**Fairness.** One thread runs one function, and a function that was called runs on;
nothing obliges a program to make another call, except where said.

- `EoCipher`: `WF_vars(Next)`, a call of the cipher goes on. `EoText`:
  `WF_textVars(Step)`, a conversion goes on; `Resend` is free to happen or not.
- `EoProtocol`: `WF_vars(Caller \/ Step)`, the program makes its next call and a
  generated function goes on. It is written out as `([]<>Over) \/ []<><<TRUE>>_vars`,
  because TLC needs minutes to evaluate where those large actions are enabled:
  they are wherever the program is not `Over`, which the deadlock check of the run
  confirms, and no state of such a program is followed by itself. How
  much of a message arrives, which
  allocation fails and which kind of peer it is stays arbitrary.
- `EoUserdata`: `WF_vars(CallSteps)`, and weak fairness of each finalizer and each sweep:
  a program that runs on allocates, and that drives the collector through its
  cycles. Without it `DroppedStringsAreFreed` says nothing, and with it the
  program is still free to hold on to what it wants.

The other modules need no fairness.

**Deadlock** is checked in the reader, writer and protocol runs (a program of
`EoProtocol` that is `Over` stutters, so any other deadlock there is a block of
generated code for which the model has no step). It is not checked where the program may
stop: a session whose bounds are used up or whose server has closed the
connection, a cipher whose plan of calls is done, a generator after a division by
zero, a conversion without memory, a Lua program that has used up its userdata.

### Disagreements between the code and what it says of itself

Four of them are runs that TLC refutes; `PROJECT.json` quotes the lines.

| Run | What happens |
|---|---|
| `reader_stale` | Turning chunked mode off on a fresh reader caches the end of the buffer as boundary, and a later chunk is the whole rest. |
| `session_max` | The highest generated start leads to a stamp of `EO_CHAR_MAX`, which is sent as 0: a packet in order is refused. |
| `protocol_partial` | A counted array that was cut is freed with items that were never read. |
| `protocol_shorts` | An array without length in the last chunk loops for ever if the chunk ends inside an item. |

The others were met while modelling. The models contain the behaviour; the
properties are stated so that they hold in spite of it, or the runs leave the
input out. Each entry says which.

| Source | What the code does | In the models |
|---|---|---|
| `data.c` 938, 1114, 1145, 1176 | In chunked mode numbers, fixed strings and bytes are read across the delimiter (`docs/usage.dox` 95: only within the chunk). | `StringsStayInChunk` speaks of the other reads |
| `data.c` 901 | After such a read, `eo_reader_next_chunk` moves the cursor back. | `ChunksAdvance` speaks of chunk starts, not of the cursor |
| `data.c` 1083 | An empty string whose `strdup` fails is reported as success. | `ReadsAreAllOrNothing` allows the null value |
| `data.c` 227 | A failed first allocation goes unnoticed until a write through null. | `InitOutcomes = {TRUE}` |
| `data.c` 231 | `eo_writer_free` keeps the sanitization mode (`data.h` 70: it zeroes the struct). | `Free` keeps it |
| `encrypt.c` 58 | Encryption is not an involution (`docs/usage.dox` 318 says so). | decrypting undoes it |
| `encrypt.c` 116 | A ciphertext that starts with two break bytes is not decrypted. | `RoundTripUnlessMasked` |
| `data.c` 104, 121 | Sequences that are no UTF-8 are decoded all the same: overlong ones, surrogates, and code points behind U+10FFFF (the comment at 79: passed through as they are). The overlong zero ends the text. | `CharactersArrive` speaks of texts written in UTF-8; `CString` cuts the others |
| `data.c` 80 | A text that was read is Windows-1252, and is decoded as UTF-8 when it is sent again: it may become shorter. | `ResendingSettles` says where that ends |
| `rng.c` 45 | The range of all words divides by zero. | `WithinRange` leaves that range out |
| `code_gen_protocol.c` 1306 | A switch case without pointers is freed as the default case. | `FallbackValue` is left out |
| `code_gen_protocol.c` 1396, 1583 | `eo_get_size` counts UTF-8 bytes, of texts and of literals; the message has Windows-1252 ones. | `AccentValue` and `SignValue` are left out |
| `code_gen_protocol.c` 716, 759 | A literal is compared in UTF-8 with the Windows-1252 bytes that were read: one beyond ASCII is written but never accepted. | `ReadLiteral` does the same; `SignValue` is left out |
| `code_gen_protocol.c` 737 | A length's offset is added when writing and never taken off when reading. | `OffsetValue` is left out |
| `code_gen_analysis.c` 321 | A struct whose only pointers are optional fields has no free function. | `MaybeValue` is left out |
| `code_gen_protocol.c` 785 | The block allocated for an optional blob is lost. | `SpareValue` is left out |
| `code_gen_protocol.c` 432 | A length in front of a null text is computed with `strlen(NULL)`. | `NullValue` is left out |
| `code_gen_lua.c` 712 | A failed Lua `deserialize` leaks the half-filled struct (`docs/getting_started_lua.dox` 271: memory is managed automatically). | such executions end as `raised`, not as `done` |
| `lua_data.c` 205, 419 | An error raised by `lua_newuserdata` leaves a reference in the registry; one raised by `lua_pushlstring` and its kind leaves a block. | `lost` counts them, up to `MaxErrors` |
| `lua_data.c` 180 | The documentation calls a writer's `to_byte_array` (`docs/getting_started_lua.dox` 282); the method is `to_bytes`. | `WriterToBytes` |
| `code_gen_wasm.c` 156 | The result is compared with -1, so a refused packet is answered with whatever the struct holds. | `WasmAnswer` has no guard; `WasmUndefined` |

The values named in the last rows of `code_gen_protocol.c` are in `MCProtocol`, each with what goes wrong
when `Values` is set to it. Besides these, the passing protocol run lets no
allocation fail for the two definitions outside `MemoryRoots`: `Lists` has a counted
array of texts (which is `protocol_partial` again), and `Extra` has optional
elements, whose `calloc` is not checked (line 783): the program writes through
the null pointer.

## 4. Proofs

The theorems hold for every value of the constants that the modules' ASSUMEs allow: every
base from 2 (9 for the draws, 10 for the session), every word that fits, every
buffer, text, order of calls and bound, any number of strings, userdata and
references, packets of any length, every set of definitions. They are in `EoCodec_proofs`, `EoReader_proofs`,
`EoWriter_proofs`, `EoSequencer_proofs` (draws and session), `EoBytes_proofs` (cipher and
texts), `EoProtocol_proofs`, `EoFrees_proofs` and `EoUserdata_proofs`. Every inductive invariant was first checked
by TLC on the bounds of the component's run, except those of plain messages, which speak of every set
of statements (`W`) or of places (`L`); of them TLC checked what they imply. `NullAssumption` and the `TextAssumption`
of `EoWriterOps` say that a null pointer is neither a number, nor bytes, nor a text.

- **Numbers** (`NumberRoundTrip`). A number is split by repeated division
  (`DigitSplit`, `DivModUnique`); each digit is stored plus one and read back minus
  one (`DigitRoundTrip`), padding stands for a zero digit, and the weights add up
  (`DigitSum`). Negative numbers go through the word (`SignedRoundTrip`).
- **Reader.** The invariant `Inv` is `TypeOK`, `CursorInBounds`, `SkipsOnlyBreak`
  and the shape of the struct. `CursorInBounds` alone is not inductive:
  `next_chunk` adds one to the cached boundary, which stays inside only because
  there is a break byte where the boundary is not the end (`SkipsOnlyBreak`), and that
  in turn survives a change of mode only because the boundary is computed once
  per chunk. Every read is shown to be a `ReadStep` that returns bytes inside the
  buffer; from it follow `TypeCorrect`, `ReadsInBounds`, `NextChunkSkipsOnlyBreak`,
  `ChunkLoopAdvances` and `ReadsAtomic`. `ChunkInv` adds that the window of
  a client that did not turn chunked mode off too early is one chunk (`WindowHolds`):
  a switch of the mode either computes the first boundary, in chunked mode, or leaves
  it as it is (`SetModeWindow`). `StringsWithinChunk` and `NoChunkSkipped` follow.
- **Writer.** Every add is shown to either refuse and leave the bytes alone or to
  append a sequence from a set that depends on the call (`Added`); memory grows
  with it (`EnsureCapacityFacts`). The theorems `TypeCorrect`,
  `WritesStayInBounds` and `AddsAtomic` assume
  `FirstAllocationSucceeds` (`InitOutcomes = {TRUE}`): without it they are false,
  since `eo_writer_init_with_capacity` does not look at what `malloc` returned. `OnlyDeliberateDelimiters` and
  `NumbersHaveNoDelimiter` follow from the sets of sequences.
- **What a writer wrote, a reader reads.** Both act on the same bytes, so the round
  trip can be stated call by call: the reader stands where the writer stood before the
  call, and its buffer begins with what the writer held after it (`ReadsAt`).
  `NumbersArrive` is `NumberRoundTrip` at any offset. `StringRoundTrip`: the two
  reversals cancel, and `Flip` at the same place undoes itself (`FlipTwice`).
  `FixedTextsArrive` follows for fields of fixed length, with their padding.
  `ChunksArrive` is the protocol's way of sending open-ended texts: with
  sanitization on a text holds no delimiter, so the one written behind it is the first
  the reader finds (`ChunkRead`), the read ends there, and `next_chunk` leaves the
  reader behind it, at the start of a chunk again; so the theorem applies to the next text.
- **Draws.** `RandRangeFacts` bounds a draw, hence `DrawsStayInRange`. The bounds of a
  split's draw are nested divisions; `TruncSeven` and
  `InitComplete` show that every draw between them leaves a second byte in
  range, hence `SplitsAreDigits`, `SplitIsComplete` and `SplitRoundTrip`.
  `WordsStepAsOne`, for every word size and all factors: the product of two double words is taken apart into
  products of words (`HalvesProduct`), what exceeds a double word falls away
  (`HalvesRemainder`), and the quotient of the low product is what the code
  carries (`HalvesStep`); only the carry of the increment is missing. `AnswerFits`
  bounds the three remainders of the formula (`HashFacts`).
- **Session.** `Inv` says what every message on its way stands for: a start the
  server may have drawn, a stamp that belongs to the index of its packet; and
  that each sequencer's counter is the number of values it gave out, modulo ten. A
  fault of the network only removes, repeats or exchanges such messages
  (`DisturbedFacts`). `OnlyDueAccepted` then follows from the round trip of stamps
  (`NumberRoundTrip`): two of ten consecutive stamps are equal only if they are the
  same. `InOrder` says what is on its way while the network has disturbed nothing. A
  session is then in one of four phases: `Silent`; `Greeting`, the client has yet to
  get its first start; `Steady`, every packet on its way is stamped from the start of
  the server, with consecutive indices; and `Answered`, the client has taken a
  new start and its pong is on its way, so that the packets before the pong are
  stamped from the old start and those behind it from the new one, counted from the pong.
  `StartsAgree` (`ClientKnowsStart`) is read off the phases. A packet may still be
  turned away for a stamp of `EO_CHAR_MAX` (`Passed`); `OnlyMaxRejected` says that
  nothing else is, and `OnlyHighestStartRejected` which packets those are.
- **Cipher.** What a call has to compute is a permutation of the positions. The loop
  moves a cycle when it comes to its smallest position, and knows that it is the smallest
  by walking along the cycle. The model speaks of cycles through a recursive
  function, a walk of so many steps. The proof speaks of sets that are not left:
  `Passed`, the least such set that holds the positions before the current one, and
  `Sought` and `Moving` say how far the inner loops have come in a cycle. That there is
  a walk of every length, that it stays in a closed set and that it returns to its start
  (`WalkExists`, `WalkStays`, `WalkReturns`) are inductions, and each is made from
  a least counterexample. `CyclesAreMovedOnce` is the invariant of the
  loops, `CipherRoundTrip` composes what they compute: weaving, toggling and the
  reversal of runs each undo themselves. `CallsAreAtomic` is the refinement: the
  turn that returns is the step of `EoCipherSpec`, and all others are stutters.
- **Texts.** `Buffer` says that the bytes written are as many as the bytes read less
  those behind the first of a sequence (`Counted`), that without a sequence they
  are the same (`Copied`), and that in a text written in UTF-8 the loop stands
  between two characters, with the byte of each of those before it written
  (`Carried`). The sum over the sequences is shown to be the number of elements of a
  set (`SumIs`, from a smallest set for which it is not), since cardinalities can be
  reasoned about step by step; the encoding of a text is a recursive function and is
  taken apart at its last character (`EncodingDef`), and the encoding of a prefix is a
  prefix of the encoding (`EncodingBegins`). `ConversionStaysInside`,
  `EveryCharacterArrives`, `EverySequenceFound` and `ConversionSettles` follow.
  `ConversionSettles` needs `Copied`: a text that did not become shorter held no sequence.
- **Lua's memory.** What is wanted, that a reader's string is in memory, is not
  inductive: the collector frees every string it cannot reach, and it does not look
  into readers. `MemoryKept` says that the registry keeps its strings, and
  `SlotsOwned` that each reader that was not finalized has a slot of its own that
  still refers to its string: no other reader has it, so no other finalizer gives
  it back, and neither the running call nor an error has it. With `CallShape`,
  what each C function has in hand at each cut, this is inductive, and
  `StringsKept` and `OneOwnerPerSlot` follow. `OneOwnerPerBlock` is a balance of
  the cardinality of `Filled` (`BlocksStep`); that a finalized writer has no
  block, so that sweeping it loses none, comes from `MemoryKept`.

- **Generated code.** `ModesAreRestored`, for every definition: a function that returns
  a success has put the writer's `sanitize`, or the reader's chunked mode, back. The
  functions put them back themselves, with a statement that is still to be run, so the
  invariant `ModesInv` is about `todo`: it is a list of statements the generator emits
  (`SoundTodo`), and what is left of a call ends with the return of its outermost function, in
  the mode `found` that its caller had (`CallsReturn`). A statement in front of that return may
  call a nested function, whose statements come in front too, so the return stays
  last however definitions nest and loops turn: no induction over definitions is needed. The return is the only step that leaves a call
  with a success, and it restores `found`.
- **What arrives.** `PlainFieldsArrive` and `PlainCutsAreNoticed` are about `FieldsArrive` and
  `CutsAreNoticed`, which are false for some definitions and values (section 3). They hold for
  *plain* messages (`IsPlain`): literals and numbers that come back from their bytes, so none
  of the maxima; texts of a fixed length that they fit, or with their length in front and as
  many bytes as characters; lengths that count right, so without an offset; nested structs; and arrays
  of a fixed or counted length, without delimiters. Left out are chunked sections, switches, optional
  elements, blobs, and texts and arrays that go on to the end. `Fits` says it without recursion: there is a
  set of statements that holds those a call begins with, and with each all that it puts
  in its place. `FlatIsPlain` shows that every struct without structure whose values
  fit is plain; of the values of `MCProtocol` those of `Fixed`, with a text, and of `Counted`,
  with two arrays, a nested struct and lengths, are.
  What a statement writes (`Piece`), what it puts in its place (`Expansion`) and the cells it fills (`Fills`)
  depend on the value only. `SenderMoves` shows of each action of serialize that it appends
  the piece and goes on with the expansion; `ReceiverMoves` shows of each action of deserialize that it
  takes the piece and goes on with the same expansion, if the piece is what lies ahead,
  or gives up, for want of bytes or memory. The invariant `PlainInv` keeps the set `R` of the points the sender
  passed: what it had left to do, and how much it had written (`Track`). The
  receiver is always at one of them, whatever was cut off behind it, so no induction over the
  definition or the length of the message is needed; the point with nothing left to do is
  the end of what was sent. A cell has arrived, or what is left to do leads to it (`LedOn`), also when
  a nested struct is cleared first; a count is known or its length is yet to be read (`CountsStayReady`).
- **What is sent back.** `BytesRoundTrip` of plain messages is `MessagesAreRepeated`. The second
  sender's struct is what arrived, so it goes the way of the first: at every point of it
  that the two have in common (`Track`, with what was sent as its end) the writer holds what the first
  writer held there, behind what it held before (`CopiedTo`, `RepeaterTracks`). That needs more of a
  message than to be plain, since the second sender has only what the receiver stored: no cell
  may be filled in two ways, or by the statements of another struct, none may be left out,
  and the cell that a length is taken from must be among those filled, with what gives
  the same length (`Repeats`). Both sound values of `Fixed`, and that of `Counted`, are such; `FlatRepeats` says it of
  flat structs. A text that arrived is made of characters of one byte (`AsText`), each of
  which is sent again as that byte; bytes that happen to form a UTF-8 sequence, which would be
  decoded into one, are the subject of `EoText` (`ConversionSettles`) and left out here.
  `Retained` says that the struct has all of it. That a C program's struct does is `EchoesHaveItAll`;
  that the wasm build's does is part of the invariant `RepeatInv`, so `AnswersAreEqual` needs no such
  hypothesis. Whether a struct made from a Lua table does depends on the conversion, so there it
  stays a hypothesis; the run `protocol` checks the conversion (`TablesAreStable`). Into a writer that a Lua
  program filled before, the message must fit (`Room`), and the mode in which it was found must be off:
  with sanitization on the bytes differ on purpose.
- **Sizes** (`SizesAreExact`). `eo_get_size` and the serialize function are two walks
  through one definition: the first adds up what is the same for all values (`PrecomputedSize`)
  and what depends on the value (`ExtraSize`), the second writes. The invariant
  (`SizeInv`) says that what is written and what the statements left to do weigh make up the size
  asked for (`AddsUp`), so that the writer has room until the end; each action of serialize
  takes a statement away, puts others in its place and writes bytes, and the weights on
  both sides are equal (`Weighs`, `ListWeighs`). Two things have to be known first. What a
  recursive function computes is what its equation says (`PrecomputedSize`, `ExtraSize`,
  later `Freed` and `CellsOf`), if there is a function that satisfies it, and there is one if
  definitions nest, and the nesting ends (`WellNested`, by the depth of each list). And a sum,
  which the model folds over the positions of a sequence in an order of TLC's choice, is the
  number of elements of a set of pairs, whatever the order.
  What is counted is what is written only if the value is as the code takes it to be
  (`IsMeasurable`): the characters of a text and of a literal are one byte each, where the code counts with `strlen`; a
  text of fixed length is there; a blob is as long as its length says; a case with something
  to keep has its data. TLC confirms it of every value that the run `protocol` gives, and it is false of
  `AccentValue` and `SignValue`, whose size is indeed wrong. For the size of what is sent back the theorem
  asks that the serialization succeeded; a text that did not arrive is refused.
- **Frees** (`FreesAreSafe`), for a C program, a Lua program and the wasm build, wherever a message
  is cut and whichever allocation fails. That `fault` is never a wild free is not inductive: what
  must be known is that every pointer which is not null owns a live block (`PointersHeld`), and that no
  pointer lies in memory that `malloc` left as it was, but in the item that is to be
  read next of an array that grows item by item (`RawIsPending`). `FreeInv` says so in all phases,
  from the first byte that is read to the last block that is freed. Deserialize, the
  conversion from a Lua table and free are three walks through the definition that need not come by in
  the same order, so the invariant cannot follow them; instead a cell is a pointer if the
  definition has one at that place (`Pointer`), where `L` gives for each list of elements the places at
  which a function works on it. What free frees (`FreeIsOfHeld`), what a table becomes
  (`CellsAreBlocks`) and what each action of deserialize leaves (`StepIsSafe`) is then said in terms of these places only.
  The theorem is about definitions that are `IsFreeable`: they do not contain themselves; no
  cell is a pointer for one element and a number for another; a counted array, whose
  items are allocated before the first is read, has no pointers in them (`TameArray`); a case without
  pointers is not freed as the default (`TameSwitch`); and texts of an array without a number are read in chunked
  sections only (`InChunks`), where a read that fails leaves a null pointer and not the
  old one. These conditions are no convenience: `protocol_partial` and `FallbackValue` of
  section 3 break those on arrays and on cases, and go wrong. TLC confirms that every definition of `MCProtocol` is `IsFreeable` but `Squad`, `Lists` and `Fallback` (with
  indices of items up to two); for structs of fields of different names it is proved (`FlatIsFreeable`).
  In general two paths may only be told apart if no index of an item is written like the word `length`
  (`ToString` is not defined for the prover), so that is left to the condition on cells.

**Only model-checked.** Liveness (`Terminates` of the cipher and the protocol,
`ConversionsEnd` of the texts, `DroppedStringsAreFreed`) is out of the prover's reach. Of the properties of `EoProtocol`
`TablesAreStable` and `NothingLeaks` are not proved: the one compares two conversions, and the
other needs, besides `FreeInv`, that free comes by every block, so that the walk of free covers
that of deserialize. `FieldsArrive`, `CutsAreNoticed` and `BytesRoundTrip` are proved of plain messages,
`SizeIsExact` of measurable values and `FreeIsSafe` of freeable definitions; of others the run
`protocol` checks them, or they are false (section 3 has the counterexamples).

## 5. What is not modelled

- Definitions for which the generator writes C that is not valid: optional
  lengths, optional texts without a length, optional arrays of numbers with a
  fixed length, arrays of blobs. Comments, and the family and action of packets,
  have no effect on the bytes.
- Threads: the library has none. `eo_rand`'s static words would race; the session
  and the splits are checked for all draws.
- Checks of null arguments of the sequencer, the codec, the strings and the cipher;
  those of reader and writer are modelled.
- Of the Lua functions: structs without storage, tables that a Lua program
  made or changed itself, and failing allocations while a table is converted. Of the
  binding: a program that calls `reader_gc` itself or uses a reader from another
  object's finalizer, after its own has run; the userdata of a sequencer, which owns
  nothing.
- Of the wasm build: the choice of the struct by family and action, the limit of
  64 KiB of an answer, and the wrappers, which keep no state of their own but two static
  buffers that the page copies at once.
- XML parsing and the driver of the generator, the printing of test code, result
  strings and the demo: they run once, in sequence, and keep nothing that the rest
  depends on.

## 6. Plan

Done, in this order: the number codec and the reader; the writer; sequencer,
splits and session; cipher and its refinement; generated structs and
their Lua functions; random numbers and all that draws, the hash; the conversion
of texts; readers and writers of the Lua binding; the wasm build as a peer. Then the
proofs: first those of the reader, the writer, the draws, the session and Lua's memory, then the order
of a session, the cipher with its refinement, the texts, what a reader reads of
what a writer wrote, the modes of generated code, what arrives of plain messages, what
is sent back of them, that sizes are exact, and that frees are safe.
Next:

1. Switches and chunked sections as plain elements: the mode of both ends becomes a part of a
   point of the way.
2. `NothingLeaks`: the blocks of `FreeInv` are those that free comes by, if each
   struct with pointers has a free function (section 3 has one that has none).
