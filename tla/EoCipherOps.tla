---------------------------- MODULE EoCipherOps ----------------------------
(***************************************************************************)
(* What the packet encryption of src/src/encrypt.c is meant to do, stated  *)
(* over whole packets.  A packet of n bytes is a function on 0 .. n - 1.   *)
(* The high bit is 128 in the code; a smaller one lets TLC try more        *)
(* packets.                                                                *)
(***************************************************************************)
EXTENDS Integers

CONSTANT HighBit   \* 0x80

ASSUME HighBitAssumption == HighBit \in Nat /\ HighBit >= 2

Octet      == 0 .. 2 * HighBit - 1
BreakOctet == 2 * HighBit - 1

Packets(n) == [0 .. n - 1 -> Octet]

\* Flip the high bit of a byte that has any other bit set.
Toggle(b) == IF b % HighBit = 0 THEN b ELSE (b + HighBit) % (2 * HighBit)

\* Packets the cipher leaves alone, on both sides.
PassThrough(n, d) == n < 2 \/ (d[0] = BreakOctet /\ d[1] = BreakOctet)

-----------------------------------------------------------------------------
(* eo_swap_multiples: every maximal run of bytes divisible by m is reversed *)
(* in place.  The ends of the run position k is in:                         *)
Divisible(d, m, j, k) == \A l \in j .. k : d[l] % m = 0

IsRun(n, d, m, low, high) ==
    /\ Divisible(d, m, low, high)
    /\ low = 0 \/ d[low - 1] % m # 0
    /\ high = n - 1 \/ d[high + 1] % m # 0

RunOf(n, d, m, k) ==
    CHOOSE r \in (0 .. k) \X (k .. n - 1) : IsRun(n, d, m, r[1], r[2])

Swapped(n, d, m) ==
    [k \in 0 .. n - 1 |->
        IF d[k] % m = 0
        THEN LET r == RunOf(n, d, m, k) IN d[r[1] + r[2] - k]
        ELSE d[k]]

-----------------------------------------------------------------------------
(* Encryption weaves the packet: even positions take the bytes from the     *)
(* front, odd positions take them from the back.  Decryption undoes that.   *)
WovenFrom(n, k)   == IF k % 2 = 0 THEN k \div 2 ELSE n - 1 - ((k - 1) \div 2)
UnwovenFrom(n, k) == IF k < (n + 1) \div 2 THEN 2 * k ELSE 2 * (n - 1 - k) + 1

Woven(n, d)   == [k \in 0 .. n - 1 |-> Toggle(d[WovenFrom(n, k)])]
Unwoven(n, d) == [k \in 0 .. n - 1 |-> Toggle(d[UnwovenFrom(n, k)])]

Encrypted(n, d, m) == IF PassThrough(n, d) THEN d ELSE Woven(n, Swapped(n, d, m))
Decrypted(n, d, m) == IF PassThrough(n, d) THEN d ELSE Swapped(n, Unwoven(n, d), m)

\* What a call of the cipher makes of a packet.
CipherOf(op, n, d, m) ==
    IF op = "encrypt" THEN Encrypted(n, d, m) ELSE Decrypted(n, d, m)

\* Plain packets whose ciphertext looks like one the cipher leaves alone.
Masked(n, d, m) == ~PassThrough(n, d) /\ PassThrough(n, Encrypted(n, d, m))
=============================================================================
