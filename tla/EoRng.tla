------------------------------- MODULE EoRng -------------------------------
(***************************************************************************)
(* The random number generator of src/src/rng.c as operators on its two    *)
(* static words.  The code computes a step of a generator on double words  *)
(* out of operations on single words.                                      *)
(***************************************************************************)
EXTENDS Integers

CONSTANTS
    RandSize,    \* 2^32
    SeedFactor,  \* 0x1586B75
    HighFactor,  \* 346
    LowFactor,   \* 20021
    None         \* the value of a call that has none

ASSUME RngAssumption ==
    /\ RandSize \in Nat /\ RandSize >= 2 /\ RandSize % 2 = 0
    /\ SeedFactor \in Nat /\ HighFactor \in Nat
    /\ LowFactor \in 0 .. RandSize - 1

Word == 0 .. RandSize - 1

\* current_seed and state_high
Words == [low : Word, high : Word]

\* Static variables start as zeros: the generator runs unseeded, too.
Unseeded == [low |-> 0, high |-> 0]

\* eo_srand
Seeded(seed) == [low |-> (SeedFactor * seed + 1) % RandSize, high |-> 0]

\* The carry of the low product goes nowhere either.
Advanced_SingleProduct(w) ==
    LET product == (w.low * LowFactor) % RandSize
        high    == product \div RandSize + w.high * LowFactor + w.low * HighFactor
    IN [low |-> (product + 1) % RandSize, high |-> high % RandSize]

\* The words after eo_rand: the carry of the low word's increment goes nowhere.
Advanced(w) ==
    LET product == w.low * LowFactor
        high    == product \div RandSize + w.high * LowFactor + w.low * HighFactor
    IN [low |-> ((product % RandSize) + 1) % RandSize, high |-> high % RandSize]

\* What eo_rand returns when it left the words like this: they lack the top bit.
Drawn(w) == w.high % (RandSize \div 2)

\* A range that counts the number behind its end.
RandRange_Exclusive(w, min, max) ==
    IF min > max THEN [words |-> w, value |-> min]
    ELSE LET range == (max - min + 2) % RandSize
             next  == Advanced(w)
         IN [words |-> next,
             value |-> IF range = 0 THEN None ELSE (min + (Drawn(next) % range)) % RandSize]

(* eo_rand_range: an empty range returns its lower end and leaves the       *)
(* generator alone; a remainder by zero ends the program and has no value.  *)
RandRange(w, min, max) ==
    IF min > max THEN [words |-> w, value |-> min]
    ELSE LET range == (max - min + 1) % RandSize
             next  == Advanced(w)
         IN [words |-> next,
             value |-> IF range = 0 THEN None ELSE (min + (Drawn(next) % range)) % RandSize]
=============================================================================
