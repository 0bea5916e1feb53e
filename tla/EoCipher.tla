------------------------------ MODULE EoCipher ------------------------------
(***************************************************************************)
(* The loops of src/src/encrypt.c, which work in place on the packet.      *)
(* eo_swap_multiples scans for runs and reverses each where it ends.  The  *)
(* weaving is done cycle by cycle: a position starts a cycle only if it is *)
(* the smallest of it, which the code finds out by walking the cycle.  A   *)
(* step is one turn of one of these loops; a reversal is one step.         *)
(***************************************************************************)
EXTENDS EoCipherOps, Sequences, FiniteSets

CONSTANTS
    Inputs,     \* the packets, as sequences of bytes
    Multiples,  \* the swap multiples (6 .. 12 in the code)
    Plans       \* the calls made on a packet, one after the other

ASSUME CipherAssumption ==
    /\ Inputs \subseteq Seq(Octet)
    /\ Multiples \subseteq Nat \ {0}
    /\ Plans \subseteq {<<"encrypt", "decrypt">>, <<"encrypt", "encrypt">>}

VARIABLES
    length,    \* the length argument
    data,      \* the buffer
    multiple,  \* the swap_multiple argument
    calls,     \* the calls still to be finished, the current one first
    pc,        \* where the current call is
    i,         \* the outer loop's index
    run,       \* sequence_length of eo_swap_multiples
    j,         \* the inner loop's index
    temp,      \* the byte on its way to position j
    given,     \* the packet the current call was given
    original   \* the packet the first call was given

args == <<length, multiple, original>>
vars == <<length, data, multiple, calls, pc, i, run, j, temp, given, original>>

op == Head(calls)

\* The back half goes to even positions too.
EncryptNext_NoPlusOne(n, k) == IF k < (n + 1) \div 2 THEN k * 2 ELSE (n - 1 - k) * 2

\* Where the byte at position k goes.
EncryptNext(n, k) == IF k < (n + 1) \div 2 THEN k * 2 ELSE (n - 1 - k) * 2 + 1
DecryptNext(n, k) == IF k % 2 = 0 THEN k \div 2 ELSE n - 1 - ((k - 1) \div 2)
NextPosition(k) == IF op = "encrypt" THEN EncryptNext(length, k) ELSE DecryptNext(length, k)

Packet(s) == [k \in 0 .. Len(s) - 1 |-> s[k + 1]]

Init ==
    /\ \E s \in Inputs : length = Len(s) /\ data = Packet(s)
    /\ multiple \in Multiples
    /\ calls \in Plans
    /\ pc = "enter"
    /\ i = 0 /\ run = 0 /\ j = 0 /\ temp = 0
    /\ given = data /\ original = data

-----------------------------------------------------------------------------
\* The first test of either function; then the first of its two halves.
Enter ==
    /\ pc = "enter" /\ calls # << >>
    /\ pc' = IF PassThrough(length, data) THEN "return"
             ELSE IF op = "encrypt" THEN "scan" ELSE "pick"
    /\ i' = 0 /\ run' = 0
    /\ UNCHANGED <<data, calls, j, temp, given, args>>

\* The bytes from low to high in reverse order.
Reversed(d, low, high) ==
    [k \in DOMAIN d |-> IF k \in low .. high THEN d[low + high - k] ELSE d[k]]

\* A run of one byte is not worth reversing.
ReverseRun(d, low, count) ==
    IF count > 1 THEN Reversed(d, low, low + count - 1) ELSE d

Scan ==
    /\ pc = "scan" /\ i < length
    /\ IF data[i] % multiple = 0
       THEN run' = run + 1 /\ UNCHANGED data
       ELSE run' = 0 /\ data' = ReverseRun(data, i - run, run)
    /\ i' = i + 1
    /\ UNCHANGED <<pc, calls, j, temp, given, args>>

\* The run that ends with the buffer is left as it is.
Flush_Forgotten ==
    /\ pc = "scan" /\ i >= length
    /\ pc' = IF op = "encrypt" THEN "pick" ELSE "return"
    /\ i' = 0 /\ run' = 0
    /\ UNCHANGED <<data, calls, j, temp, given, args>>

\* The run that ends with the buffer.
Flush ==
    /\ pc = "scan" /\ i >= length
    /\ data' = ReverseRun(data, length - run, run)
    /\ pc' = IF op = "encrypt" THEN "pick" ELSE "return"
    /\ i' = 0 /\ run' = 0
    /\ UNCHANGED <<calls, j, temp, given, args>>

\* The head of the outer loop: a position that stays, or the walk begins.
Stay ==
    /\ pc = "pick" /\ i < length /\ NextPosition(i) = i
    /\ data' = [data EXCEPT ![i] = Toggle(@)]
    /\ i' = i + 1
    /\ UNCHANGED <<pc, calls, run, j, temp, given, args>>

Walk ==
    /\ pc = "pick" /\ i < length /\ NextPosition(i) # i
    /\ j' = NextPosition(i)
    /\ pc' = "seek"
    /\ UNCHANGED <<data, calls, i, run, temp, given, args>>

Seek ==
    /\ pc = "seek" /\ j # i /\ j > i
    /\ j' = NextPosition(j)
    /\ UNCHANGED <<data, calls, pc, i, run, temp, given, args>>

\* A position that leads no cycle is moved again.
Skip_Moves ==
    /\ pc = "seek" /\ j < i
    /\ temp' = data[i]
    /\ j' = NextPosition(i)
    /\ pc' = "move"
    /\ UNCHANGED <<data, calls, i, run, given, args>>

\* A smaller position leads this cycle: it was moved before.
Skip ==
    /\ pc = "seek" /\ j < i
    /\ i' = i + 1
    /\ pc' = "pick"
    /\ UNCHANGED <<data, calls, run, j, temp, given, args>>

Lead ==
    /\ pc = "seek" /\ j = i
    /\ temp' = data[i]
    /\ j' = NextPosition(i)
    /\ pc' = "move"
    /\ UNCHANGED <<data, calls, i, run, given, args>>

Move ==
    /\ pc = "move" /\ j # i
    /\ data' = [data EXCEPT ![j] = Toggle(temp)]
    /\ temp' = data[j]
    /\ j' = NextPosition(j)
    /\ UNCHANGED <<calls, pc, i, run, given, args>>

\* The last byte of a cycle keeps its high bit.
Close_KeepsBit ==
    /\ pc = "move" /\ j = i
    /\ data' = [data EXCEPT ![i] = temp]
    /\ i' = i + 1
    /\ pc' = "pick"
    /\ UNCHANGED <<calls, run, j, temp, given, args>>

Close ==
    /\ pc = "move" /\ j = i
    /\ data' = [data EXCEPT ![i] = Toggle(temp)]
    /\ i' = i + 1
    /\ pc' = "pick"
    /\ UNCHANGED <<calls, run, j, temp, given, args>>

\* The end of the outer loop.
EndWeave ==
    /\ pc = "pick" /\ i >= length
    /\ pc' = IF op = "encrypt" THEN "return" ELSE "scan"
    /\ i' = 0 /\ run' = 0
    /\ UNCHANGED <<data, calls, j, temp, given, args>>

\* The function returns, and the next one is called with what it left.
Return ==
    /\ pc = "return"
    /\ calls' = Tail(calls)
    /\ given' = data
    /\ pc' = "enter"
    /\ UNCHANGED <<data, i, run, j, temp, args>>

Next ==
    \/ Enter \/ Return
    \/ Scan \/ Flush
    \/ Stay \/ Walk \/ Seek \/ Skip \/ Lead \/ Move \/ Close \/ EndWeave

\* The calls run in one thread, which nothing stops.
Spec == Init /\ [][Next]_vars /\ WF_vars(Next)

-----------------------------------------------------------------------------
\* What the loops work on: bytes of the packet, at positions of the packet.
TypeOK ==
    /\ length \in Nat
    /\ data \in Packets(length) /\ given \in Packets(length)
    /\ original \in Packets(length)
    /\ multiple \in Multiples
    /\ pc \in {"enter", "scan", "pick", "seek", "move", "return"}
    /\ i \in 0 .. length /\ run \in 0 .. i
    /\ temp \in Octet
    /\ j \in 0 .. length
    /\ pc \in {"seek", "move"} => i < length /\ j < length

\* The positions the cycle through k visits, found by following it length times.
Orbit(k) ==
    LET walk[n \in 0 .. length] == IF n = 0 THEN k ELSE NextPosition(walk[n - 1])
    IN {walk[n] : n \in 0 .. length}

BeforeWeave == IF op = "encrypt" THEN Swapped(length, given, multiple) ELSE given
AfterWeave  == IF op = "encrypt" THEN Woven(length, BeforeWeave)
               ELSE Unwoven(length, BeforeWeave)

(* Between two turns of the outer loop each cycle was moved once or not at  *)
(* all: the cycles of the positions passed so far have their final bytes,   *)
(* even those the loop skipped, and every other cycle is as it was.  (The   *)
(* loops of eo_encrypt_packet and eo_decrypt_packet, encrypt.c:70 and 123.) *)
CyclesMoveOnce ==
    pc \in {"pick", "seek"} =>
        \A k \in 0 .. length - 1 :
            data[k] = IF \E l \in Orbit(k) : l < i THEN AfterWeave[k] ELSE BeforeWeave[k]

\* The same, and no position outside the packet is looked at on the way.
LoopInvariant == TypeOK /\ CyclesMoveOnce

(* A packet that is encrypted and then decrypted with the same multiple is  *)
(* the packet again, unless its ciphertext starts like a packet that is not *)
(* encrypted at all.                                                        *)
Restored == pc = "return" /\ calls = <<"decrypt">> => data = original
RoundTripUnlessMasked == Masked(length, original, multiple) \/ Restored

(* Nothing runs for ever: walking a cycle comes back to where it started,   *)
(* or to a smaller position, whatever the length.                           *)
Terminates == <>(calls = << >>)

(* Each call makes of its packet, at once, what EoCipherSpec says.          *)
Abstract == INSTANCE EoCipherSpec WITH packet <- given
AtOnce == Abstract!AtOnce
=============================================================================
