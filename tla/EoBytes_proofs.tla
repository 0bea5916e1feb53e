--------------------------- MODULE EoBytes_proofs ---------------------------
(***************************************************************************)
(* Proofs about the two loops over bytes, for inputs of every length.      *)
(*                                                                         *)
(* The loops of src/src/encrypt.c, for every swap multiple: they compute   *)
(* what EoCipherOps says, a call is one step of EoCipherSpec, and          *)
(* decryption undoes encryption.                                           *)
(*                                                                         *)
(* The conversion of texts in src/src/data.c: it stays inside its block,   *)
(* finds every sequence, carries every character of a text written in      *)
(* UTF-8, and a text that is converted again settles.                      *)
(***************************************************************************)
EXTENDS EoCipher, EoText, SequenceTheorems, FiniteSetTheorems, TLAPS

\* Every nonempty set of naturals has a least element.
LEMMA LeastElement ==
    ASSUME NEW T, T \subseteq Nat, T # {}
    PROVE  \E x \in T : \A y \in T : x <= y
<1> DEFINE Segments == {0 .. n : n \in T}
<1>1. IsWellFoundedOn(StrictSubsetOrdering(Nat), FiniteSubsetsOf(Nat))
  BY FS_StrictSubsetOrderingWellFounded
<1>2. Segments \subseteq FiniteSubsetsOf(Nat)
  <2> SUFFICES ASSUME NEW n \in T PROVE 0 .. n \in FiniteSubsetsOf(Nat)
    OBVIOUS
  <2>1. IsFiniteSet(0 .. n)
    BY FS_Interval
  <2> QED BY <2>1 DEF FiniteSubsetsOf
<1>3. Segments # {}
  OBVIOUS
<1>4. PICK s \in Segments :
          \A t \in Segments : ~ (<<t, s>> \in StrictSubsetOrdering(Nat))
  <2> HIDE DEF Segments
  <2> QED BY <1>1, <1>2, <1>3, WFMin
<1>5. PICK x \in T : s = 0 .. x
  OBVIOUS
<1>6. ASSUME NEW y \in T PROVE x <= y
  <2>1. SUFFICES ASSUME y < x PROVE FALSE
    OBVIOUS
  <2>2. 0 .. y \subseteq 0 .. x /\ x \in 0 .. x /\ x \notin 0 .. y
    BY <2>1
  <2>3. <<0 .. y, s>> \in StrictSubsetOrdering(Nat)
    BY <2>2, <1>5 DEF StrictSubsetOrdering
  <2> QED BY <2>3, <1>4
<1> QED BY <1>6

-----------------------------------------------------------------------------
LEMMA ToggleType == \A b \in Octet : Toggle(b) \in Octet
BY HighBitAssumption DEF Toggle, Octet

\* Flipping the high bit twice does nothing, nor does it to 0 and the high bit.
LEMMA ToggleTwice == \A b \in Octet : Toggle(Toggle(b)) = b
<1> SUFFICES ASSUME NEW b \in Octet PROVE Toggle(Toggle(b)) = b
  OBVIOUS
<1>1. HighBit \in Nat /\ HighBit >= 2 /\ b \in 0 .. 2 * HighBit - 1
  BY HighBitAssumption DEF Octet
<1>2. CASE b < HighBit
  <2>1. b % HighBit = b
    BY <1>1, <1>2
  <2>2. (b + HighBit) % (2 * HighBit) = b + HighBit
    BY <1>1, <1>2
  <2>3. (b + HighBit) % HighBit = b
    BY <1>1, <1>2
  <2>4. (b + HighBit + HighBit) % (2 * HighBit) = b
    BY <1>1, <1>2
  <2> QED BY <1>1, <2>1, <2>2, <2>3, <2>4 DEF Toggle
<1>3. CASE b >= HighBit
  <2>1. b % HighBit = b - HighBit
    BY <1>1, <1>3
  <2>2. (b + HighBit) % (2 * HighBit) = b - HighBit
    BY <1>1, <1>3
  <2>3. (b - HighBit) % HighBit = b - HighBit
    BY <1>1, <1>3
  <2>4. ((b - HighBit) + HighBit) % (2 * HighBit) = b
    BY <1>1, <1>3
  <2> QED BY <1>1, <2>1, <2>2, <2>3, <2>4 DEF Toggle
<1> QED BY <1>1, <1>2, <1>3

-----------------------------------------------------------------------------
(* The weave is a permutation of the positions of a packet: what one of the *)
(* two functions does to a position, the other undoes.                      *)
Positions(n) == 0 .. n - 1

Forth(o, n, k) == IF o = "encrypt" THEN EncryptNext(n, k) ELSE DecryptNext(n, k)
Back(o, n, k)  == IF o = "encrypt" THEN DecryptNext(n, k) ELSE EncryptNext(n, k)

LEMMA ForthBack ==
    ASSUME NEW o, NEW n \in Nat, NEW k \in Positions(n)
    PROVE  /\ Forth(o, n, k) \in Positions(n) /\ Back(o, n, k) \in Positions(n)
           /\ Back(o, n, Forth(o, n, k)) = k /\ Forth(o, n, Back(o, n, k)) = k
BY DEF Forth, Back, EncryptNext, DecryptNext, Positions

\* Positions that are not left by following the weave.
Closed(o, n, C) == C \subseteq Positions(n) /\ \A k \in C : Forth(o, n, k) \in C

\* As the weave is a permutation of finitely many positions, such a set is
\* not entered from outside either.
LEMMA ClosedComplement ==
    ASSUME NEW o, NEW n \in Nat, NEW C, Closed(o, n, C)
    PROVE  Closed(o, n, Positions(n) \ C)
<1> DEFINE f == [k \in C |-> Forth(o, n, k)]
<1>1. C \subseteq Positions(n) /\ \A k \in C : Forth(o, n, k) \in C
  BY DEF Closed
<1>2. IsFiniteSet(C)
  <2>1. IsFiniteSet(Positions(n))
    BY FS_Interval DEF Positions
  <2> QED BY <1>1, <2>1, FS_Subset
<1>3. f \in Injection(C, C)
  <2>1. f \in [C -> C]
    BY <1>1
  <2>2. \A a, b \in C : f[a] = f[b] => a = b
    <3> SUFFICES ASSUME NEW a \in C, NEW b \in C, Forth(o, n, a) = Forth(o, n, b) PROVE a = b
      OBVIOUS
    <3>1. Back(o, n, Forth(o, n, a)) = a /\ Back(o, n, Forth(o, n, b)) = b
      BY <1>1, ForthBack
    <3> QED BY <3>1
  <2> QED BY <2>1, <2>2 DEF Injection, IsInjective
<1>4. f \in Surjection(C, C)
  <2> HIDE DEF f
  <2> QED BY <1>2, <1>3, FS_Injection
<1>5. ASSUME NEW k \in Positions(n) \ C, Forth(o, n, k) \in C PROVE FALSE
  <2>1. PICK c \in C : f[c] = Forth(o, n, k)
    BY <1>4, <1>5 DEF Surjection
  <2>2. Back(o, n, Forth(o, n, c)) = c /\ Back(o, n, Forth(o, n, k)) = k
    BY <1>1, <1>5, ForthBack
  <2> QED BY <1>5, <2>1, <2>2
<1> QED BY <1>5, ForthBack DEF Closed

-----------------------------------------------------------------------------
(* The cycles of the positions before i: the least set of positions that    *)
(* holds those and is not left.                                             *)
Passed(o, n, first) ==
    {k \in Positions(n) : \A C \in SUBSET Positions(n) :
                              Closed(o, n, C) /\ 0 .. first - 1 \subseteq C => k \in C}

LEMMA PassedFacts ==
    ASSUME NEW o, NEW n \in Nat, NEW first \in 0 .. n
    PROVE  /\ Closed(o, n, Passed(o, n, first))
           /\ 0 .. first - 1 \subseteq Passed(o, n, first)
           /\ \A C : Closed(o, n, C) /\ 0 .. first - 1 \subseteq C => Passed(o, n, first) \subseteq C
<1>1. ASSUME NEW k \in Passed(o, n, first) PROVE Forth(o, n, k) \in Passed(o, n, first)
  BY ForthBack DEF Passed, Closed
<1>2. 0 .. first - 1 \subseteq Passed(o, n, first)
  BY DEF Passed, Positions
<1>3. ASSUME NEW C, Closed(o, n, C), 0 .. first - 1 \subseteq C
      PROVE  Passed(o, n, first) \subseteq C
  BY <1>3 DEF Passed, Closed
<1>4. Passed(o, n, first) \subseteq Positions(n)
  BY DEF Passed
<1> QED BY <1>1, <1>2, <1>3, <1>4 DEF Closed

LEMMA PassedNone == ASSUME NEW o, NEW n \in Nat PROVE Passed(o, n, 0) = {}
<1>1. Closed(o, n, {}) /\ 0 .. 0 - 1 \subseteq {}
  BY DEF Closed
<1>2. {} \in SUBSET Positions(n)
  OBVIOUS
<1> QED BY <1>1, <1>2 DEF Passed

LEMMA PassedAll == ASSUME NEW o, NEW n \in Nat PROVE Passed(o, n, n) = Positions(n)
BY PassedFacts DEF Passed, Positions

\* A set that holds a cycle's positions grows by that cycle.
LEMMA PassedGrows ==
    ASSUME NEW o, NEW n \in Nat, NEW i0 \in Positions(n), NEW W,
           W \subseteq Passed(o, n, i0 + 1),
           \A k \in W \cup {i0} : Forth(o, n, k) \in W \cup {i0}
    PROVE  Passed(o, n, i0 + 1) = Passed(o, n, i0) \cup W \cup {i0}
<1> DEFINE P == Passed(o, n, i0)
           Q == Passed(o, n, i0 + 1)
<1>1. i0 \in 0 .. n /\ i0 + 1 \in 0 .. n /\ i0 \in 0 .. (i0 + 1) - 1
      /\ 0 .. i0 - 1 \subseteq 0 .. (i0 + 1) - 1
  BY DEF Positions
<1>2. Closed(o, n, P) /\ 0 .. i0 - 1 \subseteq P
  BY <1>1, PassedFacts
<1>3. Closed(o, n, Q) /\ 0 .. (i0 + 1) - 1 \subseteq Q
  BY <1>1, PassedFacts
<1>4. P \subseteq Q
  BY <1>1, <1>3, PassedFacts
<1>5. Closed(o, n, P \cup W \cup {i0})
  BY <1>2, <1>3 DEF Closed
<1>6. 0 .. (i0 + 1) - 1 \subseteq P \cup W \cup {i0}
  BY <1>1, <1>2 DEF Positions
<1>7. Q \subseteq P \cup W \cup {i0}
  BY <1>1, <1>5, <1>6, PassedFacts
<1> QED BY <1>1, <1>3, <1>4, <1>7

\* One that leads no cycle of its own adds nothing.
LEMMA PassedStays ==
    ASSUME NEW o, NEW n \in Nat, NEW i0 \in Positions(n), i0 \in Passed(o, n, i0)
    PROVE  Passed(o, n, i0 + 1) = Passed(o, n, i0)
<1> DEFINE P == Passed(o, n, i0)
           Q == Passed(o, n, i0 + 1)
<1>1. i0 \in 0 .. n /\ i0 + 1 \in 0 .. n /\ 0 .. i0 - 1 \subseteq 0 .. (i0 + 1) - 1
  BY DEF Positions
<1>2. Closed(o, n, P) /\ 0 .. i0 - 1 \subseteq P
  BY <1>1, PassedFacts
<1>3. Closed(o, n, Q) /\ 0 .. (i0 + 1) - 1 \subseteq Q
  BY <1>1, PassedFacts
<1>4. P \subseteq Q
  BY <1>1, <1>3, PassedFacts
<1>5. 0 .. (i0 + 1) - 1 \subseteq P
  BY <1>2 DEF Positions
<1>6. Q \subseteq P
  BY <1>1, <1>2, <1>5, PassedFacts
<1> QED BY <1>4, <1>6

-----------------------------------------------------------------------------
(* Following the weave from k, n steps long.  Such a walk exists: a         *)
(* shortest length for which there were none would not be 0, and the walk   *)
(* of one step less could be extended.                                      *)
IsWalk(o, n, k, last, w) ==
    w = [t \in 0 .. last |-> IF t = 0 THEN k ELSE Forth(o, n, w[t - 1])]

LEMMA WalkExists ==
    ASSUME NEW o, NEW n, NEW k, NEW last \in Nat
    PROVE  \E w : IsWalk(o, n, k, last, w)
<1> DEFINE T == {t \in Nat : ~ \E w : IsWalk(o, n, k, t, w)}
<1> SUFFICES ASSUME T # {} PROVE FALSE
  OBVIOUS
<1>1. PICK t \in T : \A u \in T : t <= u
  <2> HIDE DEF T
  <2>1. T \subseteq Nat
    BY DEF T
  <2> QED BY <2>1, LeastElement
<1>2. CASE t = 0
  <2> DEFINE w == [x \in 0 .. 0 |-> k]
  <2>1. IsWalk(o, n, k, 0, w)
    <3>1. w = [x \in 0 .. 0 |-> IF x = 0 THEN k ELSE Forth(o, n, w[x - 1])]
      OBVIOUS
    <3> QED BY <3>1 DEF IsWalk
  <2> QED BY <1>2, <2>1
<1>3. CASE t # 0
  <2>1. t \in Nat /\ t - 1 \in Nat /\ t - 1 \notin T
    BY <1>1, <1>3
  <2>2. PICK v : IsWalk(o, n, k, t - 1, v)
    BY <2>1
  <2> DEFINE w == [x \in 0 .. t |-> IF x = t THEN Forth(o, n, v[t - 1]) ELSE v[x]]
  <2>3. \A x \in 0 .. t - 1 : v[x] = IF x = 0 THEN k ELSE Forth(o, n, v[x - 1])
    BY <2>2 DEF IsWalk
  <2>4. ASSUME NEW x \in 0 .. t PROVE w[x] = IF x = 0 THEN k ELSE Forth(o, n, w[x - 1])
    <3>1. CASE x = t
      BY <1>3, <2>1, <3>1
    <3>2. CASE x # t
      <4>1. x \in 0 .. t - 1 /\ w[x] = v[x]
        BY <2>1, <3>2
      <4>2. x # 0 => w[x - 1] = v[x - 1]
        BY <2>1, <4>1
      <4> QED BY <2>3, <4>1, <4>2
    <3> QED BY <3>1, <3>2
  <2>5. w = [x \in 0 .. t |-> w[x]]
    OBVIOUS
  <2> HIDE DEF w
  <2>6. w = [x \in 0 .. t |-> IF x = 0 THEN k ELSE Forth(o, n, w[x - 1])]
    BY <2>4, <2>5
  <2>7. IsWalk(o, n, k, t, w)
    BY <2>6 DEF IsWalk
  <2> QED BY <1>1, <2>7
<1> QED BY <1>2, <1>3

LEMMA OrbitIsWalk ==
    ASSUME length \in Nat, NEW k
    PROVE  \E w : /\ IsWalk(op, length, k, length, w)
                 /\ Orbit(k) = {w[t] : t \in 0 .. length}
<1> DEFINE w == CHOOSE v : IsWalk(op, length, k, length, v)
<1>1. IsWalk(op, length, k, length, w)
  BY WalkExists
<1>2. Orbit(k) = {w[t] : t \in 0 .. length}
  BY DEF Orbit, IsWalk, NextPosition, Forth
<1> QED BY <1>1, <1>2

\* A walk does not leave a set that is closed.
LEMMA WalkStays ==
    ASSUME NEW o, NEW n, NEW k, NEW last \in Nat, NEW w, IsWalk(o, n, k, last, w),
           NEW C, Closed(o, n, C), k \in C
    PROVE  \A t \in 0 .. last : w[t] \in C
<1> DEFINE T == {t \in 0 .. last : w[t] \notin C}
<1> SUFFICES ASSUME T # {} PROVE FALSE
  OBVIOUS
<1>1. PICK t \in T : \A u \in T : t <= u
  <2> HIDE DEF T
  <2>1. T \subseteq Nat
    BY DEF T
  <2> QED BY <2>1, LeastElement
<1>2. \A u \in 0 .. last : w[u] = IF u = 0 THEN k ELSE Forth(o, n, w[u - 1])
  BY DEF IsWalk
<1>3. t # 0
  BY <1>2
<1>4. t - 1 \in 0 .. last /\ t - 1 \notin T
  BY <1>1, <1>3
<1>5. w[t - 1] \in C
  BY <1>4
<1> QED BY <1>2, <1>3, <1>5 DEF Closed

(* A walk as long as the packet comes back to where it began: it visits     *)
(* some position twice, and going back from both visits leads to k.         *)
LEMMA WalkReturns ==
    ASSUME NEW o, NEW n \in Nat, NEW k \in Positions(n), NEW w, IsWalk(o, n, k, n, w)
    PROVE  \E t \in 1 .. n : w[t] = k
<1>1. \A t \in 0 .. n : w[t] \in Positions(n)
  <2>1. Closed(o, n, Positions(n))
    BY ForthBack DEF Closed
  <2> QED BY <2>1, WalkStays
<1>2. \A t \in 0 .. n : w[t] = IF t = 0 THEN k ELSE Forth(o, n, w[t - 1])
  BY DEF IsWalk
<1> DEFINE T == {t \in 0 .. n : \E u \in t + 1 .. n : w[u] = w[t]}
<1>3. T # {}
  <2>1. IsFiniteSet(0 .. n) /\ Cardinality(0 .. n) = n + 1
    BY FS_Interval
  <2>2. IsFiniteSet(Positions(n)) /\ Cardinality(Positions(n)) < n + 1
    <3>1. /\ IsFiniteSet(0 .. n - 1)
          /\ Cardinality(0 .. n - 1) = IF 0 > n - 1 THEN 0 ELSE (n - 1) - 0 + 1
      BY FS_Interval
    <3> QED BY <3>1 DEF Positions
  <2>3. w \in [0 .. n -> Positions(n)]
    BY <1>1 DEF IsWalk
  <2>4. \E x, y \in 0 .. n : x # y /\ w[x] = w[y]
    BY <2>1, <2>2, <2>3, FS_PigeonHole
  <2>5. PICK x \in 0 .. n, y \in 0 .. n : x # y /\ w[x] = w[y]
    BY <2>4
  <2> QED BY <2>5
<1>4. PICK t \in T : \A u \in T : t <= u
  <2> HIDE DEF T
  <2>1. T \subseteq Nat
    BY DEF T
  <2> QED BY <1>3, <2>1, LeastElement
<1>5. PICK u \in t + 1 .. n : w[u] = w[t]
  BY <1>4
<1>6. t = 0
  <2> SUFFICES ASSUME t # 0 PROVE FALSE
    OBVIOUS
  <2>1. t - 1 \in 0 .. n /\ u - 1 \in (t - 1) + 1 .. n /\ u - 1 \in 0 .. n
    BY <1>4, <1>5
  <2>2. Forth(o, n, w[t - 1]) = w[t] /\ Forth(o, n, w[u - 1]) = w[u]
    BY <1>2, <1>4, <1>5
  <2>3. w[t - 1] = w[u - 1]
    <3>1. w[t - 1] = Back(o, n, w[t]) /\ w[u - 1] = Back(o, n, w[u])
      BY <1>1, <2>1, <2>2, ForthBack
    <3> QED BY <1>5, <3>1
  <2>4. t - 1 \in T
    BY <2>1, <2>3
  <2> QED BY <1>4, <2>4
<1> QED BY <1>2, <1>5, <1>6

LEMMA OrbitFacts ==
    ASSUME length \in Nat, NEW k \in Positions(length)
    PROVE  /\ k \in Orbit(k) /\ Closed(op, length, Orbit(k))
           /\ \A C : Closed(op, length, C) /\ k \in C => Orbit(k) \subseteq C
<1> DEFINE n == length
           O == Orbit(k)
<1>1. PICK w : IsWalk(op, n, k, n, w) /\ O = {w[t] : t \in 0 .. n}
  BY OrbitIsWalk
<1>2. \A t \in 0 .. n : w[t] = IF t = 0 THEN k ELSE Forth(op, n, w[t - 1])
  BY <1>1 DEF IsWalk
<1>3. k \in O
  BY <1>1, <1>2
<1>4. ASSUME NEW C, Closed(op, n, C), k \in C PROVE O \subseteq C
  <2>1. \A t \in 0 .. n : w[t] \in C
    BY <1>1, <1>4, WalkStays
  <2> QED BY <1>1, <2>1
<1>5. PICK u \in 1 .. n : w[u] = k
  BY <1>1, WalkReturns
<1> DEFINE E == {w[t] : t \in 0 .. u - 1}
<1>6. O \subseteq Positions(n)
  <2>1. Closed(op, n, Positions(n))
    BY ForthBack DEF Closed
  <2> QED BY <1>4, <2>1
<1>7. Closed(op, n, E)
  <2>1. E \subseteq O
    BY <1>1
  <2>2. ASSUME NEW t \in 0 .. u - 1 PROVE Forth(op, n, w[t]) \in E
    <3>1. t + 1 \in 1 .. u /\ t + 1 \in 0 .. n /\ (t + 1) - 1 = t /\ t + 1 # 0
      BY <1>5
    <3>2. Forth(op, n, w[t]) = w[t + 1]
      BY <1>2, <3>1
    <3>3. CASE t + 1 = u
      <4>1. w[t + 1] = w[0] /\ 0 \in 0 .. u - 1
        BY <1>2, <1>5, <3>3
      <4> QED BY <3>2, <4>1
    <3>4. CASE t + 1 # u
      <4>1. t + 1 \in 0 .. u - 1
        BY <3>1, <3>4
      <4> QED BY <3>2, <4>1
    <3> QED BY <3>3, <3>4
  <2> QED BY <1>6, <2>1, <2>2 DEF Closed
<1>8. O = E
  <2>1. k \in E
    <3>1. 0 \in 0 .. u - 1 /\ w[0] = k
      BY <1>2
    <3> QED BY <3>1
  <2>2. E \subseteq O
    BY <1>1
  <2> HIDE DEF E, O
  <2> QED BY <1>4, <1>7, <2>1, <2>2
<1> QED BY <1>3, <1>4, <1>7, <1>8

\* A position was passed exactly if its cycle goes through a smaller one.
LEMMA PassedOrbits ==
    ASSUME length \in Nat, NEW k \in Positions(length), NEW first \in 0 .. length
    PROVE  k \in Passed(op, length, first) <=> \E l \in Orbit(k) : l < first
<1> DEFINE n == length
           P == Passed(op, n, first)
           O == Orbit(k)
<1>1. /\ k \in O /\ Closed(op, n, O) /\ O \subseteq Positions(n)
      /\ \A C : Closed(op, n, C) /\ k \in C => O \subseteq C
  BY OrbitFacts DEF Closed
<1>2. /\ Closed(op, n, P) /\ 0 .. first - 1 \subseteq P
      /\ \A C : Closed(op, n, C) /\ 0 .. first - 1 \subseteq C => P \subseteq C
  BY PassedFacts
<1> HIDE DEF P, O
<1>3. ASSUME NEW l \in O, l < first, k \notin P PROVE FALSE
  <2>1. Closed(op, n, Positions(n) \ P)
    BY <1>2, ClosedComplement
  <2>2. l \in Positions(n) \ P
    BY <1>1, <1>3, <2>1
  <2> QED BY <1>2, <1>3, <2>2 DEF Positions
<1>4. ASSUME k \in P, \A l \in O : ~(l < first) PROVE FALSE
  <2>1. Closed(op, n, Positions(n) \ O)
    BY <1>1, ClosedComplement
  <2>2. 0 .. first - 1 \subseteq Positions(n) \ O
    BY <1>4 DEF Positions
  <2> QED BY <1>1, <1>2, <1>4, <2>1, <2>2
<1> QED BY <1>3, <1>4 DEF P, O

-----------------------------------------------------------------------------
\* Every position of a byte divisible by m is in one run, and RunOf finds it.
LEMMA RunExists ==
    ASSUME NEW n \in Nat, NEW d, NEW m, NEW k \in Positions(n), d[k] % m = 0
    PROVE  \E low \in 0 .. k, high \in k .. n - 1 : IsRun(n, d, m, low, high)
<1> DEFINE Lows  == {l \in 0 .. k : Divisible(d, m, l, k)}
           Above == {a \in 0 .. n - 1 - k : Divisible(d, m, k, n - 1 - a)}
<1>1. k \in 0 .. n - 1
  BY DEF Positions
<1>2. Divisible(d, m, k, k)
  BY <1>1 DEF Divisible
<1>3. PICK low \in Lows : \A l \in Lows : low <= l
  <2>1. Lows \subseteq Nat /\ k \in Lows
    BY <1>1, <1>2
  <2> HIDE DEF Lows
  <2> QED BY <2>1, LeastElement
<1>4. PICK above \in Above : \A a \in Above : above <= a
  <2>1. Above \subseteq Nat /\ n - 1 - k \in Above
    BY <1>1, <1>2
  <2> HIDE DEF Above
  <2> QED BY <2>1, LeastElement
<1>5. PICK high \in k .. n - 1 : high = n - 1 - above
  BY <1>1, <1>4
<1>6. low = 0 \/ d[low - 1] % m # 0
  <2> SUFFICES ASSUME low # 0, d[low - 1] % m = 0 PROVE FALSE
    OBVIOUS
  <2>1. low - 1 \in 0 .. k /\ Divisible(d, m, low - 1, k)
    BY <1>1, <1>3 DEF Divisible
  <2> QED BY <1>3, <2>1
<1>7. high = n - 1 \/ d[high + 1] % m # 0
  <2> SUFFICES ASSUME high # n - 1, d[high + 1] % m = 0 PROVE FALSE
    OBVIOUS
  <2>1. Divisible(d, m, k, high) /\ above - 1 \in 0 .. n - 1 - k
    BY <1>1, <1>4, <1>5
  <2>2. n - 1 - (above - 1) = high + 1
    BY <1>1, <1>4, <1>5
  <2>3. Divisible(d, m, k, high + 1)
    BY <1>1, <1>5, <2>1 DEF Divisible
  <2>4. above - 1 \in Above
    BY <2>1, <2>2, <2>3
  <2> QED BY <1>4, <2>4
<1>8. Divisible(d, m, low, high)
  BY <1>1, <1>3, <1>4, <1>5 DEF Divisible
<1> QED BY <1>3, <1>6, <1>7, <1>8 DEF IsRun

LEMMA RunIs ==
    ASSUME NEW n \in Nat, NEW d, NEW m, NEW k \in Positions(n),
           NEW low \in 0 .. k, NEW high \in k .. n - 1, IsRun(n, d, m, low, high)
    PROVE  RunOf(n, d, m, k) = <<low, high>>
<1>1. \E r \in (0 .. k) \X (k .. n - 1) : IsRun(n, d, m, r[1], r[2])
  <2>1. <<low, high>> \in (0 .. k) \X (k .. n - 1)
    OBVIOUS
  <2> QED BY <2>1
<1> DEFINE r == RunOf(n, d, m, k)
<1>2. r \in (0 .. k) \X (k .. n - 1) /\ IsRun(n, d, m, r[1], r[2])
  BY <1>1 DEF RunOf
<1> HIDE DEF r
<1>3. /\ r = <<r[1], r[2]>> /\ r[1] \in 0 .. k /\ r[2] \in k .. n - 1 /\ k \in 0 .. n - 1
  BY <1>2 DEF Positions
<1>4. r[1] = low
  BY <1>2, <1>3 DEF IsRun, Divisible
<1>5. r[2] = high
  BY <1>2, <1>3 DEF IsRun, Divisible
<1> QED BY <1>3, <1>4, <1>5 DEF r

LEMMA SwappedRun ==
    ASSUME NEW n \in Nat, NEW d, NEW m, NEW low \in Nat, NEW high \in Int, high < n,
           IsRun(n, d, m, low, high), NEW k \in low .. high
    PROVE  Swapped(n, d, m)[k] = d[low + high - k] /\ low + high - k \in low .. high
<1>1. k \in Positions(n) /\ low \in 0 .. k /\ high \in k .. n - 1
  BY DEF Positions
<1>2. d[k] % m = 0
  BY DEF IsRun, Divisible
<1>3. RunOf(n, d, m, k) = <<low, high>>
  BY <1>1, RunIs
<1> QED BY <1>1, <1>2, <1>3 DEF Swapped, Positions

LEMMA SwappedFacts ==
    ASSUME NEW n \in Nat, NEW d \in Packets(n), NEW m
    PROVE  /\ Swapped(n, d, m) \in Packets(n)
           /\ \A k \in Positions(n) :
                 /\ d[k] % m # 0 => Swapped(n, d, m)[k] = d[k]
                 /\ Swapped(n, d, m)[k] % m = 0 <=> d[k] % m = 0
<1> DEFINE s == Swapped(n, d, m)
<1>1. ASSUME NEW k \in Positions(n)
      PROVE  /\ s[k] \in Octet
             /\ d[k] % m # 0 => s[k] = d[k]
             /\ s[k] % m = 0 <=> d[k] % m = 0
  <2>1. CASE d[k] % m # 0
    BY <2>1 DEF Swapped, Packets, Positions
  <2>2. CASE d[k] % m = 0
    <3>1. PICK low \in 0 .. k, high \in k .. n - 1 : IsRun(n, d, m, low, high)
      BY <2>2, RunExists
    <3>2. k \in low .. high /\ low \in Nat /\ high \in Int /\ high < n
      BY DEF Positions
    <3>3. s[k] = d[low + high - k] /\ low + high - k \in low .. high
      BY <3>1, <3>2, SwappedRun
    <3>4. d[low + high - k] % m = 0
      BY <3>1, <3>3 DEF IsRun, Divisible
    <3>5. low + high - k \in 0 .. n - 1
      BY <3>2, <3>3
    <3> QED BY <2>2, <3>3, <3>4, <3>5 DEF Packets
  <2> QED BY <2>1, <2>2
<1>2. s = [k \in 0 .. n - 1 |-> s[k]]
  BY DEF Swapped
<1> HIDE DEF s
<1>3. s \in [0 .. n - 1 -> Octet]
  BY <1>1, <1>2 DEF Positions
<1> QED BY <1>1, <1>3 DEF s, Packets

\* The runs of what was swapped are the same runs, so swapping twice does nothing.
LEMMA SwappedTwice ==
    ASSUME NEW n \in Nat, NEW d \in Packets(n), NEW m
    PROVE  Swapped(n, Swapped(n, d, m), m) = d
<1> DEFINE s == Swapped(n, d, m)
           t == Swapped(n, s, m)
<1>1. /\ s \in Packets(n) /\ t \in Packets(n)
      /\ \A k \in Positions(n) : /\ d[k] % m # 0 => s[k] = d[k]
                                 /\ s[k] % m # 0 => t[k] = s[k]
                                 /\ s[k] % m = 0 <=> d[k] % m = 0
  <2>1. /\ s \in Packets(n)
        /\ \A k \in Positions(n) : /\ d[k] % m # 0 => s[k] = d[k]
                                   /\ s[k] % m = 0 <=> d[k] % m = 0
    BY SwappedFacts
  <2> HIDE DEF s
  <2>2. t \in Packets(n) /\ \A k \in Positions(n) : s[k] % m # 0 => t[k] = s[k]
    BY <2>1, SwappedFacts
  <2> QED BY <2>1, <2>2
<1> HIDE DEF s, t
<1>2. ASSUME NEW k \in Positions(n) PROVE t[k] = d[k]
  <2>1. CASE d[k] % m # 0
    <3>1. s[k] = d[k]
      BY <1>1, <2>1
    <3>2. s[k] % m # 0
      BY <2>1, <3>1
    <3>3. t[k] = s[k]
      BY <1>1, <3>2
    <3> QED BY <3>1, <3>3
  <2>2. CASE d[k] % m = 0
    <3>1. PICK low \in 0 .. k, high \in k .. n - 1 : IsRun(n, d, m, low, high)
      BY <2>2, RunExists
    <3>2. k \in low .. high /\ low \in Nat /\ high \in Int /\ high < n
      BY DEF Positions
    <3>3. low + high - k \in low .. high /\ low + high - (low + high - k) = k
      BY <3>2
    <3>4. IsRun(n, s, m, low, high)
      <4>1. \A l \in Positions(n) : s[l] % m = 0 <=> d[l] % m = 0
        BY <1>1
      <4>2. Divisible(s, m, low, high)
        BY <3>1, <3>2, <4>1 DEF IsRun, Divisible, Positions
      <4>3. low = 0 \/ s[low - 1] % m # 0
        BY <3>1, <3>2, <4>1 DEF IsRun, Positions
      <4>4. high = n - 1 \/ s[high + 1] % m # 0
        BY <3>1, <3>2, <4>1 DEF IsRun, Positions
      <4> QED BY <4>2, <4>3, <4>4 DEF IsRun
    <3>5. t[k] = s[low + high - k]
      BY <3>2, <3>4, SwappedRun DEF t
    <3>6. s[low + high - k] = d[low + high - (low + high - k)]
      BY <3>1, <3>2, <3>3, SwappedRun DEF s
    <3> QED BY <3>3, <3>5, <3>6
  <2> QED BY <2>1, <2>2
<1>3. t = d
  BY <1>1, <1>2 DEF Packets, Positions
<1> QED BY <1>3 DEF s, t

-----------------------------------------------------------------------------
(* Between two turns of eo_swap_multiples: what lies before the current run *)
(* has its final bytes, and the run began at the start or behind a byte     *)
(* that is no multiple.                                                     *)
SwappedBefore(d, at, base, n, m) ==
    /\ d \in Packets(n)
    /\ \A k \in Positions(n) : d[k] = IF k < at THEN Swapped(n, base, m)[k] ELSE base[k]

Scanned(d, at, r, base, n, m) ==
    /\ SwappedBefore(d, at - r, base, n, m)
    /\ Divisible(base, m, at - r, at - 1)
    /\ at - r = 0 \/ base[at - r - 1] % m # 0

LEMMA ScanBegins ==
    ASSUME NEW n \in Nat, NEW base \in Packets(n), NEW m
    PROVE  Scanned(base, 0, 0, base, n, m)
BY DEF Scanned, SwappedBefore, Positions, Divisible

LEMMA ReversedBytes ==
    ASSUME NEW n \in Nat, NEW d \in Packets(n), NEW low \in Nat, NEW count \in Nat,
           low + count <= n
    PROVE  /\ ReverseRun(d, low, count) \in Packets(n)
           /\ \A k \in Positions(n) :
                 ReverseRun(d, low, count)[k] =
                     IF k \in low .. low + count - 1 THEN d[low + (low + count - 1) - k] ELSE d[k]
<1>1. DOMAIN d = Positions(n) /\ \A k \in Positions(n) : d[k] \in Octet
  BY DEF Packets, Positions
<1>2. CASE count > 1
  <2> DEFINE e == ReverseRun(d, low, count)
  <2>1. e = [k \in Positions(n) |-> IF k \in low .. low + count - 1
                                    THEN d[low + (low + count - 1) - k] ELSE d[k]]
    BY <1>1, <1>2 DEF ReverseRun, Reversed
  <2>2. \A k \in low .. low + count - 1 : low + (low + count - 1) - k \in Positions(n)
    BY DEF Positions
  <2> HIDE DEF e
  <2>3. e \in Packets(n)
    BY <1>1, <2>1, <2>2 DEF Packets, Positions
  <2> QED BY <2>1, <2>3 DEF e
<1>3. CASE count <= 1
  <2>1. ReverseRun(d, low, count) = d
    BY <1>3 DEF ReverseRun
  <2>2. \A k \in low .. low + count - 1 : low + (low + count - 1) - k = k
    BY <1>3
  <2> QED BY <2>1, <2>2
<1> QED BY <1>2, <1>3

\* A run that ends before position "at" is reversed into its final bytes.
LEMMA RunIsReversed ==
    ASSUME NEW n \in Nat, NEW base \in Packets(n), NEW m, NEW at \in 0 .. n,
           NEW r \in 0 .. at, NEW d, Scanned(d, at, r, base, n, m),
           at = n \/ base[at] % m # 0
    PROVE  SwappedBefore(ReverseRun(d, at - r, r), at, base, n, m)
<1> DEFINE s == Swapped(n, base, m)
           e == ReverseRun(d, at - r, r)
<1>1. PICK low \in Nat, high \in Int : low = at - r /\ high = at - 1
  OBVIOUS
<1>2. high < n /\ low + r - 1 = high /\ low + r <= n
  BY <1>1
<1>3. d \in Packets(n) /\ \A k \in Positions(n) : d[k] = IF k < low THEN s[k] ELSE base[k]
  BY <1>1 DEF Scanned, SwappedBefore
<1>4. ASSUME NEW k \in low .. high
      PROVE  s[k] = base[low + high - k] /\ low + high - k \in low .. high
  <2>1. IsRun(n, base, m, low, high)
    <3>1. Divisible(base, m, low, high) /\ (low = 0 \/ base[low - 1] % m # 0)
      BY <1>1 DEF Scanned
    <3>2. high = n - 1 \/ base[high + 1] % m # 0
      BY <1>1
    <3> QED BY <3>1, <3>2 DEF IsRun
  <2> QED BY <1>2, <2>1, SwappedRun
<1>5. /\ e \in Packets(n)
      /\ \A k \in Positions(n) : e[k] = IF k \in low .. high THEN d[low + high - k] ELSE d[k]
  <2>1. /\ ReverseRun(d, low, r) \in Packets(n)
        /\ \A k \in Positions(n) :
              ReverseRun(d, low, r)[k] =
                  IF k \in low .. low + r - 1 THEN d[low + (low + r - 1) - k] ELSE d[k]
    BY <1>2, <1>3, ReversedBytes
  <2> QED BY <1>1, <1>2, <2>1
<1> HIDE DEF s, e
<1>6. ASSUME NEW k \in Positions(n) PROVE e[k] = IF k < at THEN s[k] ELSE base[k]
  <2>1. CASE k \in low .. high
    <3>1. low + high - k \in Positions(n) /\ ~(low + high - k < low) /\ k < at
      BY <1>1, <1>2, <1>4, <2>1 DEF Positions
    <3> QED BY <1>3, <1>4, <1>5, <2>1, <3>1
  <2>2. CASE k \notin low .. high
    <3>1. e[k] = d[k] /\ (k < low <=> k < at)
      BY <1>1, <1>5, <2>2 DEF Positions
    <3> QED BY <1>3, <3>1
  <2> QED BY <2>1, <2>2
<1> QED BY <1>5, <1>6 DEF SwappedBefore, s, e

LEMMA ScanTurns ==
    ASSUME NEW n \in Nat, NEW base \in Packets(n), NEW m, NEW at \in 0 .. n - 1,
           NEW r \in 0 .. at, NEW d, Scanned(d, at, r, base, n, m)
    PROVE  IF d[at] % m = 0 THEN Scanned(d, at + 1, r + 1, base, n, m)
                            ELSE Scanned(ReverseRun(d, at - r, r), at + 1, 0, base, n, m)
<1>1. d[at] = base[at] /\ at \in Positions(n) /\ at \in 0 .. n
  BY DEF Scanned, SwappedBefore, Positions
<1>2. CASE d[at] % m = 0
  <2>1. (at + 1) - (r + 1) = at - r
    OBVIOUS
  <2>2. Divisible(base, m, at - r, (at + 1) - 1)
    BY <1>1, <1>2 DEF Scanned, Divisible
  <2>3. Scanned(d, at + 1, r + 1, base, n, m)
    BY <2>1, <2>2 DEF Scanned
  <2> QED BY <1>2, <2>3
<1>3. CASE d[at] % m # 0
  <2> DEFINE e == ReverseRun(d, at - r, r)
  <2>1. SwappedBefore(e, at, base, n, m)
    BY <1>1, <1>3, RunIsReversed
  <2>2. Swapped(n, base, m)[at] = base[at]
    BY <1>1, <1>3, SwappedFacts
  <2> HIDE DEF e
  <2>3. SwappedBefore(e, at + 1, base, n, m)
    BY <2>1, <2>2 DEF SwappedBefore, Positions
  <2>4. Divisible(base, m, at + 1, at + 1 - 1) /\ at + 1 - 0 = at + 1 /\ at + 1 - 0 - 1 = at
    BY DEF Divisible
  <2>5. Scanned(e, at + 1, 0, base, n, m)
    BY <1>1, <1>3, <2>3, <2>4 DEF Scanned
  <2> QED BY <1>3, <2>5 DEF e
<1> QED BY <1>2, <1>3

LEMMA ScanEnds ==
    ASSUME NEW n \in Nat, NEW base \in Packets(n), NEW m,
           NEW r \in 0 .. n, NEW d, Scanned(d, n, r, base, n, m)
    PROVE  ReverseRun(d, n - r, r) = Swapped(n, base, m)
<1> DEFINE s == Swapped(n, base, m)
           e == ReverseRun(d, n - r, r)
<1>1. SwappedBefore(e, n, base, n, m)
  BY RunIsReversed
<1>2. s \in Packets(n)
  BY SwappedFacts
<1>3. e \in Packets(n) /\ \A k \in Positions(n) : e[k] = s[k]
  BY <1>1 DEF SwappedBefore, Positions
<1> HIDE DEF s, e
<1>4. e = s
  BY <1>2, <1>3 DEF Packets, Positions
<1> QED BY <1>4 DEF s, e

-----------------------------------------------------------------------------
(* During the weave: the positions in M have the bytes of their             *)
(* predecessors, the others what they had.                                  *)
WovenAt(o, n, base, k) == Toggle(base[Back(o, n, k)])

Partly(d, o, n, base, M) ==
    /\ d \in Packets(n)
    /\ \A k \in Positions(n) : d[k] = IF k \in M THEN WovenAt(o, n, base, k) ELSE base[k]

\* What the whole weave makes of a packet.
WholeWeave(o, n, base) == IF o = "encrypt" THEN Woven(n, base) ELSE Unwoven(n, base)

LEMMA WholeWeaveFacts ==
    ASSUME NEW o, NEW n \in Nat, NEW base \in Packets(n)
    PROVE  /\ WholeWeave(o, n, base) \in Packets(n)
           /\ \A k \in Positions(n) : WholeWeave(o, n, base)[k] = WovenAt(o, n, base, k)
<1>1. \A k \in Positions(n) : Back(o, n, k) \in Positions(n)
  BY ForthBack
<1>2. \A k \in Positions(n) : WovenAt(o, n, base, k) \in Octet
  BY <1>1, ToggleType DEF WovenAt, Packets, Positions
<1>3. WholeWeave(o, n, base) = [k \in Positions(n) |-> WovenAt(o, n, base, k)]
  <2>1. CASE o = "encrypt"
    <3>1. \A k \in Positions(n) : Back(o, n, k) = WovenFrom(n, k)
      BY <2>1 DEF Back, DecryptNext, WovenFrom
    <3> QED BY <2>1, <3>1 DEF WholeWeave, Woven, WovenAt, Positions
  <2>2. CASE o # "encrypt"
    <3>1. \A k \in Positions(n) : Back(o, n, k) = UnwovenFrom(n, k)
      BY <2>2 DEF Back, EncryptNext, UnwovenFrom, Positions
    <3> QED BY <2>2, <3>1 DEF WholeWeave, Unwoven, WovenAt, Positions
  <2> QED BY <2>1, <2>2
<1> QED BY <1>2, <1>3 DEF Packets, Positions

LEMMA WeaveBegins ==
    ASSUME NEW o, NEW n \in Nat, NEW base \in Packets(n)
    PROVE  Partly(base, o, n, base, Passed(o, n, 0))
BY PassedNone DEF Partly

LEMMA WeaveEnds ==
    ASSUME NEW o, NEW n \in Nat, NEW base \in Packets(n), NEW d,
           Partly(d, o, n, base, Passed(o, n, n))
    PROVE  d = WholeWeave(o, n, base)
<1> DEFINE w == WholeWeave(o, n, base)
<1>1. d \in Packets(n) /\ \A k \in Positions(n) : d[k] = w[k]
  BY PassedAll, WholeWeaveFacts DEF Partly
<1>2. w \in Packets(n)
  BY WholeWeaveFacts
<1> HIDE DEF w
<1>3. d = w
  BY <1>1, <1>2 DEF Packets, Positions
<1> QED BY <1>3 DEF w

\* The weave back undoes the weave, and with it the cipher.
LEMMA WovenBack ==
    ASSUME NEW n \in Nat, NEW base \in Packets(n)
    PROVE  Unwoven(n, Woven(n, base)) = base
<1> DEFINE w == WholeWeave("encrypt", n, base)
           u == WholeWeave("decrypt", n, w)
<1>1. w \in Packets(n) /\ \A k \in Positions(n) : w[k] = Toggle(base[Back("encrypt", n, k)])
  BY WholeWeaveFacts DEF WovenAt
<1>2. u \in Packets(n) /\ \A k \in Positions(n) : u[k] = Toggle(w[Back("decrypt", n, k)])
  <2> HIDE DEF w
  <2> QED BY <1>1, WholeWeaveFacts DEF WovenAt
<1>3. u = Unwoven(n, Woven(n, base))
  BY DEF WholeWeave
<1> HIDE DEF w, u
<1>4. ASSUME NEW k \in Positions(n) PROVE u[k] = base[k]
  <2>1. /\ Back("decrypt", n, k) = Forth("encrypt", n, k)
        /\ Forth("encrypt", n, k) \in Positions(n)
        /\ Back("encrypt", n, Forth("encrypt", n, k)) = k
    BY ForthBack DEF Forth, Back
  <2>2. u[k] = Toggle(Toggle(base[k]))
    BY <1>1, <1>2, <2>1
  <2> QED BY <2>2, ToggleTwice DEF Packets, Positions
<1>5. u = base
  BY <1>2, <1>4 DEF Packets, Positions
<1> QED BY <1>3, <1>5

LEMMA CipherType ==
    ASSUME NEW o, NEW n \in Nat, NEW d \in Packets(n), NEW m
    PROVE  CipherOf(o, n, d, m) \in Packets(n)
<1>1. Woven(n, Swapped(n, d, m)) \in Packets(n)
  BY SwappedFacts, WholeWeaveFacts DEF WholeWeave
<1>2. Swapped(n, Unwoven(n, d), m) \in Packets(n)
  <2>1. WholeWeave("decrypt", n, d) \in Packets(n)
    BY WholeWeaveFacts
  <2>2. Unwoven(n, d) \in Packets(n)
    BY <2>1 DEF WholeWeave
  <2> QED BY <2>2, SwappedFacts
<1> QED BY <1>1, <1>2 DEF CipherOf, Encrypted, Decrypted

LEMMA DecryptUndoes ==
    ASSUME NEW n \in Nat, NEW d \in Packets(n), NEW m, ~Masked(n, d, m)
    PROVE  Decrypted(n, Encrypted(n, d, m), m) = d
<1>1. CASE PassThrough(n, d)
  BY <1>1 DEF Encrypted, Decrypted
<1>2. CASE ~PassThrough(n, d)
  <2>1. Encrypted(n, d, m) = Woven(n, Swapped(n, d, m)) /\ ~PassThrough(n, Encrypted(n, d, m))
    BY <1>2 DEF Encrypted, Masked
  <2>2. Swapped(n, d, m) \in Packets(n)
    BY SwappedFacts
  <2>3. Unwoven(n, Encrypted(n, d, m)) = Swapped(n, d, m)
    BY <2>1, <2>2, WovenBack
  <2> QED BY <2>1, <2>3, SwappedTwice DEF Decrypted
<1> QED BY <1>1, <1>2

-----------------------------------------------------------------------------
(* While the walk from i0 looks for a smaller position: the ones it met are *)
(* all above i0 or i0 itself, and it is at one that every closed set with   *)
(* i0 holds.                                                                *)
Sought(o, n, i0, at) ==
    /\ \A C \in SUBSET Positions(n) : Closed(o, n, C) /\ i0 \in C => at \in C
    /\ \E V \in SUBSET (i0 .. n - 1) :
         i0 \in V /\ \A k \in V : Forth(o, n, k) \in V \cup {at}

LEMMA SeekBegins ==
    ASSUME NEW o, NEW n \in Nat, NEW i0 \in Positions(n)
    PROVE  Sought(o, n, i0, Forth(o, n, i0))
<1>1. \A C \in SUBSET Positions(n) : Closed(o, n, C) /\ i0 \in C => Forth(o, n, i0) \in C
  BY DEF Closed
<1>2. {i0} \in SUBSET (i0 .. n - 1)
  BY DEF Positions
<1> QED BY <1>1, <1>2 DEF Sought

LEMMA SeekTurns ==
    ASSUME NEW o, NEW n \in Nat, NEW i0 \in Positions(n), NEW at \in Positions(n),
           Sought(o, n, i0, at), at > i0
    PROVE  Sought(o, n, i0, Forth(o, n, at))
<1>1. \A C \in SUBSET Positions(n) : Closed(o, n, C) /\ i0 \in C => Forth(o, n, at) \in C
  BY DEF Sought, Closed
<1>2. PICK V \in SUBSET (i0 .. n - 1) :
          i0 \in V /\ \A k \in V : Forth(o, n, k) \in V \cup {at}
  BY DEF Sought
<1> DEFINE U == V \cup {at}
<1>3. U \in SUBSET (i0 .. n - 1)
  BY <1>2 DEF Positions
<1>4. i0 \in U /\ \A k \in U : Forth(o, n, k) \in U \cup {Forth(o, n, at)}
  BY <1>2
<1> QED BY <1>1, <1>3, <1>4 DEF Sought

\* A smaller position was met: the cycle was passed already.
LEMMA SeekFindsSmaller ==
    ASSUME NEW o, NEW n \in Nat, NEW i0 \in Positions(n), NEW at \in Positions(n),
           Sought(o, n, i0, at), at < i0
    PROVE  i0 \in Passed(o, n, i0)
<1> SUFFICES ASSUME NEW C \in SUBSET Positions(n), Closed(o, n, C), 0 .. i0 - 1 \subseteq C,
                    i0 \notin C
             PROVE  FALSE
  BY DEF Passed
<1>1. Closed(o, n, Positions(n) \ C)
  BY ClosedComplement
<1>2. at \in Positions(n) \ C
  BY <1>1 DEF Sought
<1> QED BY <1>2 DEF Positions

\* The walk came back without meeting one: no position of the cycle was passed.
LEMMA SeekReturns ==
    ASSUME NEW o, NEW n \in Nat, NEW i0 \in Positions(n), Sought(o, n, i0, i0)
    PROVE  i0 \notin Passed(o, n, i0)
<1>1. PICK V \in SUBSET (i0 .. n - 1) :
          i0 \in V /\ \A k \in V : Forth(o, n, k) \in V \cup {i0}
  BY DEF Sought
<1>2. Closed(o, n, V)
  BY <1>1 DEF Closed, Positions
<1>3. Closed(o, n, Positions(n) \ V)
  BY <1>2, ClosedComplement
<1>4. 0 .. i0 - 1 \subseteq Positions(n) \ V
  BY <1>1 DEF Positions
<1>5. i0 \in 0 .. n
  BY DEF Positions
<1> QED BY <1>1, <1>3, <1>4, <1>5, PassedFacts

(* While the cycle of i0 is moved: W are the positions written so far, all  *)
(* of it but i0 and "at" on, and tmp is the byte that belongs at "at".      *)
Moving(d, o, n, base, i0, at, tmp) ==
    /\ i0 \notin Passed(o, n, i0)
    /\ tmp = base[Back(o, n, at)]
    /\ at \in Passed(o, n, i0 + 1) /\ at \notin Passed(o, n, i0)
    /\ \E W \in SUBSET Positions(n) :
         /\ i0 \notin W /\ at \notin W /\ W \subseteq Passed(o, n, i0 + 1)
         /\ \A k \in W \cup {i0} : Forth(o, n, k) \in W \cup {at}
         /\ \A k \in W \cup {at} : Back(o, n, k) \in W \cup {i0}
         /\ Partly(d, o, n, base, Passed(o, n, i0) \cup W)

LEMMA UnpassedStays ==
    ASSUME NEW o, NEW n \in Nat, NEW first \in 0 .. n, NEW k \in Positions(n),
           k \notin Passed(o, n, first)
    PROVE  Forth(o, n, k) \notin Passed(o, n, first)
<1>1. Closed(o, n, Positions(n) \ Passed(o, n, first))
  BY PassedFacts, ClosedComplement
<1> QED BY <1>1 DEF Closed

LEMMA MoveBegins ==
    ASSUME NEW o, NEW n \in Nat, NEW base \in Packets(n), NEW i0 \in Positions(n), NEW d,
           i0 \notin Passed(o, n, i0), Partly(d, o, n, base, Passed(o, n, i0))
    PROVE  Moving(d, o, n, base, i0, Forth(o, n, i0), d[i0])
<1> DEFINE at == Forth(o, n, i0)
<1>1. i0 \in 0 .. n /\ i0 + 1 \in 0 .. n /\ i0 \in 0 .. (i0 + 1) - 1
  BY DEF Positions
<1>2. at \in Passed(o, n, i0 + 1)
  BY <1>1, PassedFacts DEF Closed
<1>3. at \notin Passed(o, n, i0)
  BY <1>1, UnpassedStays
<1>4. Back(o, n, at) = i0
  BY ForthBack
<1>5. d[i0] = base[Back(o, n, at)]
  BY <1>4 DEF Partly
<1>6. Partly(d, o, n, base, Passed(o, n, i0) \cup {})
  <2>1. Passed(o, n, i0) \cup {} = Passed(o, n, i0)
    OBVIOUS
  <2> QED BY <2>1
<1> HIDE DEF at
<1>7. \E W \in SUBSET Positions(n) :
         /\ i0 \notin W /\ at \notin W /\ W \subseteq Passed(o, n, i0 + 1)
         /\ \A k \in W \cup {i0} : Forth(o, n, k) \in W \cup {at}
         /\ \A k \in W \cup {at} : Back(o, n, k) \in W \cup {i0}
         /\ Partly(d, o, n, base, Passed(o, n, i0) \cup W)
  <2> WITNESS {} \in SUBSET Positions(n)
  <2> QED BY <1>4, <1>6 DEF at
<1>8. Moving(d, o, n, base, i0, at, d[i0])
  BY <1>2, <1>3, <1>5, <1>7 DEF Moving
<1> QED BY <1>8 DEF at

\* One more position gets its byte.
LEMMA PartlyGrows ==
    ASSUME NEW o, NEW n \in Nat, NEW base \in Packets(n), NEW d, NEW M,
           Partly(d, o, n, base, M), NEW k \in Positions(n)
    PROVE  Partly([d EXCEPT ![k] = WovenAt(o, n, base, k)], o, n, base, M \cup {k})
<1>1. WovenAt(o, n, base, k) \in Octet
  BY ForthBack, ToggleType DEF WovenAt, Packets, Positions
<1> QED BY <1>1 DEF Partly, Packets, Positions

LEMMA MoveTurns ==
    ASSUME NEW o, NEW n \in Nat, NEW base \in Packets(n), NEW i0 \in Positions(n),
           NEW at \in Positions(n), NEW tmp, NEW d,
           Moving(d, o, n, base, i0, at, tmp), at # i0
    PROVE  Moving([d EXCEPT ![at] = Toggle(tmp)], o, n, base, i0, Forth(o, n, at), d[at])
<1> DEFINE next == Forth(o, n, at)
           e == [d EXCEPT ![at] = Toggle(tmp)]
           P == Passed(o, n, i0)
           Q == Passed(o, n, i0 + 1)
<1>1. /\ i0 \notin P /\ tmp = base[Back(o, n, at)] /\ at \in Q /\ at \notin P
  BY DEF Moving
<1>2. PICK W \in SUBSET Positions(n) :
         /\ i0 \notin W /\ at \notin W /\ W \subseteq Q
         /\ \A k \in W \cup {i0} : Forth(o, n, k) \in W \cup {at}
         /\ \A k \in W \cup {at} : Back(o, n, k) \in W \cup {i0}
         /\ Partly(d, o, n, base, P \cup W)
  BY DEF Moving
<1>3. i0 \in 0 .. n /\ i0 + 1 \in 0 .. n
  BY DEF Positions
<1>4. next \in Positions(n) /\ Back(o, n, next) = at
  BY ForthBack
<1>5. next \in Q /\ next \notin P
  BY <1>1, <1>3, PassedFacts, UnpassedStays DEF Closed
<1>6. d[at] = base[Back(o, n, next)]
  BY <1>1, <1>2, <1>4 DEF Partly
<1> HIDE DEF next
<1> DEFINE U == W \cup {at}
<1>7. Partly(e, o, n, base, P \cup U)
  <2>1. Toggle(tmp) = WovenAt(o, n, base, at)
    BY <1>1 DEF WovenAt
  <2>2. Partly(e, o, n, base, (P \cup W) \cup {at})
    BY <1>2, <2>1, PartlyGrows
  <2>3. (P \cup W) \cup {at} = P \cup U
    OBVIOUS
  <2> QED BY <2>2, <2>3
<1> HIDE DEF e, P, Q
<1>8. /\ U \in SUBSET Positions(n) /\ i0 \notin U /\ U \subseteq Q
      /\ \A k \in U \cup {i0} : Forth(o, n, k) \in U \cup {next}
      /\ \A k \in U \cup {next} : Back(o, n, k) \in U \cup {i0}
  BY <1>1, <1>2, <1>4 DEF next
<1>9. next \notin U
  <2> SUFFICES ASSUME next \in U PROVE FALSE
    OBVIOUS
  <2>1. at \in W \cup {i0}
    BY <1>2, <1>4
  <2> QED BY <1>2, <2>1
<1>10. Moving(e, o, n, base, i0, next, d[at])
  BY <1>1, <1>5, <1>6, <1>7, <1>8, <1>9 DEF Moving, P, Q
<1> QED BY <1>10 DEF e, next

\* The byte that is left goes to i0, and the cycle is done.
LEMMA MoveCloses ==
    ASSUME NEW o, NEW n \in Nat, NEW base \in Packets(n), NEW i0 \in Positions(n),
           NEW tmp, NEW d, Moving(d, o, n, base, i0, i0, tmp)
    PROVE  Partly([d EXCEPT ![i0] = Toggle(tmp)], o, n, base, Passed(o, n, i0 + 1))
<1> DEFINE P == Passed(o, n, i0)
           Q == Passed(o, n, i0 + 1)
<1>1. tmp = base[Back(o, n, i0)]
  BY DEF Moving
<1>2. PICK W \in SUBSET Positions(n) :
         /\ W \subseteq Q
         /\ \A k \in W \cup {i0} : Forth(o, n, k) \in W \cup {i0}
         /\ Partly(d, o, n, base, P \cup W)
  BY DEF Moving
<1>3. Toggle(tmp) = WovenAt(o, n, base, i0)
  BY <1>1 DEF WovenAt
<1>4. Q = P \cup W \cup {i0}
  BY <1>2, PassedGrows
<1>5. Partly([d EXCEPT ![i0] = Toggle(tmp)], o, n, base, (P \cup W) \cup {i0})
  BY <1>2, <1>3, PartlyGrows
<1> HIDE DEF P, Q
<1>6. Partly([d EXCEPT ![i0] = Toggle(tmp)], o, n, base, Q)
  BY <1>4, <1>5
<1> QED BY <1>6 DEF Q

\* A position that stays is a cycle of its own.
LEMMA StayIsCycle ==
    ASSUME NEW o, NEW n \in Nat, NEW base \in Packets(n), NEW i0 \in Positions(n),
           NEW d, Partly(d, o, n, base, Passed(o, n, i0)), Forth(o, n, i0) = i0
    PROVE  Partly([d EXCEPT ![i0] = Toggle(d[i0])], o, n, base, Passed(o, n, i0 + 1))
<1>1. i0 \in 0 .. n /\ i0 + 1 \in 0 .. n /\ i0 \in 0 .. (i0 + 1) - 1
  BY DEF Positions
<1>2. i0 \notin Passed(o, n, i0)
  <2>1. Sought(o, n, i0, i0)
    BY SeekBegins
  <2> QED BY <2>1, SeekReturns
<1>3. Moving(d, o, n, base, i0, i0, d[i0])
  <2>1. Moving(d, o, n, base, i0, Forth(o, n, i0), d[i0])
    BY <1>2, MoveBegins
  <2> QED BY <2>1
<1> QED BY <1>3, MoveCloses

-----------------------------------------------------------------------------
(* What holds before every turn of every loop.  The buffer is somewhere     *)
(* between the packet the call was given and what the call makes of it, and *)
(* how far is told by the loop's own variables.                             *)
Pairs     == {<<"encrypt", "decrypt">>, <<"encrypt", "encrypt">>}
CallLists == Pairs \cup {<<"encrypt">>, <<"decrypt">>, << >>}

\* What eo_swap_multiples gets.
ScanBase == IF op = "encrypt" THEN given ELSE Unwoven(length, given)

Types ==
    /\ length \in Nat /\ multiple \in Multiples /\ calls \in CallLists
    /\ data \in Packets(length) /\ given \in Packets(length) /\ original \in Packets(length)
    /\ pc \in {"enter", "scan", "pick", "seek", "move", "return"}
    /\ i \in 0 .. length /\ run \in 0 .. i /\ temp \in Octet /\ j \in 0 .. length
    /\ pc \in {"seek", "move"} => i \in Positions(length) /\ j \in Positions(length)

Control ==
    /\ pc # "enter" => calls # << >>
    /\ pc \in {"scan", "pick", "seek", "move"} => ~PassThrough(length, given)

History ==
    /\ calls \in Pairs => given = original
    /\ calls = <<"decrypt">> => given = Encrypted(length, original, multiple)

Buffer ==
    /\ pc = "enter" => data = given
    /\ pc = "scan" => Scanned(data, i, run, ScanBase, length, multiple)
    /\ pc \in {"pick", "seek"} => Partly(data, op, length, BeforeWeave, Passed(op, length, i))
    /\ pc = "seek" => Sought(op, length, i, j)
    /\ pc = "move" => Moving(data, op, length, BeforeWeave, i, j, temp)
    /\ pc = "return" => data = CipherOf(op, length, given, multiple)

Inv == Types /\ Control /\ History /\ Buffer

-----------------------------------------------------------------------------
LEMMA BaseTypes ==
    ASSUME Types
    PROVE  ScanBase \in Packets(length) /\ BeforeWeave \in Packets(length)
<1>1. length \in Nat /\ given \in Packets(length)
  BY DEF Types
<1>2. Swapped(length, given, multiple) \in Packets(length)
  BY <1>1, SwappedFacts
<1>3. Unwoven(length, given) \in Packets(length)
  <2>1. WholeWeave("decrypt", length, given) \in Packets(length)
    BY <1>1, WholeWeaveFacts
  <2> QED BY <2>1 DEF WholeWeave
<1> QED BY <1>1, <1>2, <1>3 DEF ScanBase, BeforeWeave

LEMMA NextIsForth == \A k : NextPosition(k) = Forth(op, length, k)
BY DEF NextPosition, Forth

\* A turn within a call leaves the call's arguments alone.
SameCall == UNCHANGED <<length, multiple, original, calls, given>>

LEMMA SameCallFacts ==
    ASSUME SameCall
    PROVE  op' = op /\ ScanBase' = ScanBase /\ BeforeWeave' = BeforeWeave /\ (History => History')
BY DEF SameCall, op, ScanBase, BeforeWeave, History

LEMMA EnterStep == Inv /\ Enter => Inv'
<1> SUFFICES ASSUME Inv, Enter PROVE Inv'
  OBVIOUS
<1>1. /\ pc = "enter" /\ calls # << >> /\ i' = 0 /\ run' = 0
      /\ pc' = IF PassThrough(length, data) THEN "return"
               ELSE IF op = "encrypt" THEN "scan" ELSE "pick"
      /\ SameCall /\ UNCHANGED <<data, j, temp>>
  BY DEF Enter, SameCall, args
<1>2. op' = op /\ ScanBase' = ScanBase /\ BeforeWeave' = BeforeWeave /\ History'
  BY <1>1, SameCallFacts DEF Inv
<1>3. /\ length \in Nat /\ given \in Packets(length) /\ data = given
      /\ data' = data /\ length' = length /\ given' = given /\ multiple' = multiple
  BY <1>1 DEF Inv, Types, Buffer, SameCall
<1>4. Types'
  BY <1>1 DEF Inv, Types, SameCall
<1>5. Control'
  BY <1>1, <1>3 DEF Control, SameCall
<1>6. CASE PassThrough(length, data)
  <2>1. data = CipherOf(op, length, given, multiple)
    BY <1>3, <1>6 DEF CipherOf, Encrypted, Decrypted
  <2>2. Buffer'
    BY <1>1, <1>2, <1>3, <1>6, <2>1 DEF Buffer
  <2> QED BY <1>2, <1>4, <1>5, <2>2 DEF Inv
<1>7. CASE ~PassThrough(length, data) /\ op = "encrypt"
  <2>1. Scanned(data, 0, 0, ScanBase, length, multiple)
    BY <1>3, <1>7, ScanBegins DEF ScanBase
  <2>2. Buffer'
    BY <1>1, <1>2, <1>3, <1>7, <2>1 DEF Buffer
  <2> QED BY <1>2, <1>4, <1>5, <2>2 DEF Inv
<1>8. CASE ~PassThrough(length, data) /\ op # "encrypt"
  <2>1. Partly(data, op, length, BeforeWeave, Passed(op, length, 0))
    BY <1>3, <1>8, WeaveBegins DEF BeforeWeave
  <2>2. Buffer'
    BY <1>1, <1>2, <1>3, <1>8, <2>1 DEF Buffer
  <2> QED BY <1>2, <1>4, <1>5, <2>2 DEF Inv
<1> QED BY <1>6, <1>7, <1>8

LEMMA ScanStep == Inv /\ Scan => Inv'
<1> SUFFICES ASSUME Inv, Scan PROVE Inv'
  OBVIOUS
<1>1. /\ pc = "scan" /\ i < length /\ i' = i + 1 /\ pc' = pc
      /\ IF data[i] % multiple = 0
         THEN run' = run + 1 /\ data' = data
         ELSE run' = 0 /\ data' = ReverseRun(data, i - run, run)
      /\ SameCall /\ UNCHANGED <<j, temp>>
  BY DEF Scan, SameCall, args
<1>2. op' = op /\ ScanBase' = ScanBase /\ BeforeWeave' = BeforeWeave /\ History'
  BY <1>1, SameCallFacts DEF Inv
<1>3. /\ length \in Nat /\ data \in Packets(length) /\ ScanBase \in Packets(length)
      /\ i \in 0 .. length - 1 /\ run \in 0 .. i
      /\ Scanned(data, i, run, ScanBase, length, multiple)
      /\ length' = length /\ given' = given /\ multiple' = multiple
  BY <1>1, BaseTypes DEF Inv, Types, Buffer, SameCall
<1>4. Scanned(data', i', run', ScanBase, length, multiple)
  <2>1. IF data[i] % multiple = 0
        THEN Scanned(data, i + 1, run + 1, ScanBase, length, multiple)
        ELSE Scanned(ReverseRun(data, i - run, run), i + 1, 0, ScanBase, length, multiple)
    BY <1>3, ScanTurns
  <2> QED BY <1>1, <2>1
<1>5. data' \in Packets(length) /\ i' \in 0 .. length /\ run' \in 0 .. i'
  BY <1>1, <1>3, <1>4 DEF Scanned, SwappedBefore
<1>6. Types'
  BY <1>1, <1>3, <1>5 DEF Inv, Types, SameCall
<1>7. Control'
  BY <1>1 DEF Inv, Control, SameCall
<1>8. Buffer'
  BY <1>1, <1>2, <1>3, <1>4 DEF Buffer
<1> QED BY <1>2, <1>6, <1>7, <1>8 DEF Inv

LEMMA FlushStep == Inv /\ Flush => Inv'
<1> SUFFICES ASSUME Inv, Flush PROVE Inv'
  OBVIOUS
<1>1. /\ pc = "scan" /\ i >= length /\ i' = 0 /\ run' = 0
      /\ pc' = IF op = "encrypt" THEN "pick" ELSE "return"
      /\ data' = ReverseRun(data, length - run, run)
      /\ SameCall /\ UNCHANGED <<j, temp>>
  BY DEF Flush, SameCall, args
<1>2. op' = op /\ ScanBase' = ScanBase /\ BeforeWeave' = BeforeWeave /\ History'
  BY <1>1, SameCallFacts DEF Inv
<1>3. /\ length \in Nat /\ ScanBase \in Packets(length) /\ BeforeWeave \in Packets(length)
      /\ i = length /\ run \in 0 .. length
      /\ Scanned(data, i, run, ScanBase, length, multiple)
      /\ ~PassThrough(length, given)
      /\ length' = length /\ given' = given /\ multiple' = multiple
  BY <1>1, BaseTypes DEF Inv, Types, Buffer, Control, SameCall
<1>4. data' = Swapped(length, ScanBase, multiple)
  BY <1>1, <1>3, ScanEnds
<1>5. data' \in Packets(length)
  BY <1>3, <1>4, SwappedFacts
<1>6. Types'
  BY <1>1, <1>3, <1>5 DEF Inv, Types, SameCall
<1>7. Control'
  BY <1>1, <1>3 DEF Inv, Control, SameCall
<1>8. CASE op = "encrypt"
  <2>1. data' = BeforeWeave
    BY <1>4, <1>8 DEF ScanBase, BeforeWeave
  <2>2. Partly(data', op, length, BeforeWeave, Passed(op, length, 0))
    BY <1>3, <2>1, WeaveBegins
  <2>3. Buffer'
    BY <1>1, <1>2, <1>3, <1>8, <2>2 DEF Buffer
  <2> QED BY <1>2, <1>6, <1>7, <2>3 DEF Inv
<1>9. CASE op # "encrypt"
  <2>1. data' = CipherOf(op, length, given, multiple)
    BY <1>3, <1>4, <1>9 DEF ScanBase, CipherOf, Decrypted
  <2>2. Buffer'
    BY <1>1, <1>2, <1>3, <1>9, <2>1 DEF Buffer
  <2> QED BY <1>2, <1>6, <1>7, <2>2 DEF Inv
<1> QED BY <1>8, <1>9

LEMMA StayStep == Inv /\ Stay => Inv'
<1> SUFFICES ASSUME Inv, Stay PROVE Inv'
  OBVIOUS
<1>1. /\ pc = "pick" /\ i < length /\ Forth(op, length, i) = i
      /\ i' = i + 1 /\ data' = [data EXCEPT ![i] = Toggle(data[i])]
      /\ SameCall /\ UNCHANGED <<pc, run, j, temp>>
  BY NextIsForth DEF Stay, SameCall, args
<1>2. op' = op /\ ScanBase' = ScanBase /\ BeforeWeave' = BeforeWeave /\ History'
  BY <1>1, SameCallFacts DEF Inv
<1>3. /\ length \in Nat /\ BeforeWeave \in Packets(length) /\ i \in Positions(length)
      /\ Partly(data, op, length, BeforeWeave, Passed(op, length, i))
      /\ length' = length /\ given' = given /\ multiple' = multiple
  BY <1>1, BaseTypes DEF Inv, Types, Buffer, Positions, SameCall
<1>4. Partly(data', op, length, BeforeWeave, Passed(op, length, i + 1))
  BY <1>1, <1>3, StayIsCycle
<1>5. data' \in Packets(length) /\ i' \in 0 .. length
  BY <1>1, <1>3, <1>4 DEF Partly, Positions
<1>6. Types'
  BY <1>1, <1>3, <1>5 DEF Inv, Types, SameCall
<1>7. Control'
  BY <1>1 DEF Inv, Control, SameCall
<1>8. Buffer'
  BY <1>1, <1>2, <1>3, <1>4 DEF Buffer
<1> QED BY <1>2, <1>6, <1>7, <1>8 DEF Inv

LEMMA WalkStep == Inv /\ Walk => Inv'
<1> SUFFICES ASSUME Inv, Walk PROVE Inv'
  OBVIOUS
<1>1. /\ pc = "pick" /\ i < length /\ j' = Forth(op, length, i) /\ pc' = "seek"
      /\ SameCall /\ UNCHANGED <<data, i, run, temp>>
  BY NextIsForth DEF Walk, SameCall, args
<1>2. op' = op /\ ScanBase' = ScanBase /\ BeforeWeave' = BeforeWeave /\ History'
  BY <1>1, SameCallFacts DEF Inv
<1>3. /\ length \in Nat /\ i \in Positions(length)
      /\ Partly(data, op, length, BeforeWeave, Passed(op, length, i))
      /\ length' = length /\ given' = given /\ multiple' = multiple
  BY <1>1 DEF Inv, Types, Buffer, Positions, SameCall
<1>4. Sought(op, length, i, j') /\ j' \in Positions(length)
  BY <1>1, <1>3, SeekBegins, ForthBack
<1>5. Types'
  BY <1>1, <1>3, <1>4 DEF Inv, Types, Positions, SameCall
<1>6. Control'
  BY <1>1 DEF Inv, Control, SameCall
<1>7. Buffer'
  BY <1>1, <1>2, <1>3, <1>4 DEF Buffer
<1> QED BY <1>2, <1>5, <1>6, <1>7 DEF Inv

LEMMA SeekStep == Inv /\ Seek => Inv'
<1> SUFFICES ASSUME Inv, Seek PROVE Inv'
  OBVIOUS
<1>1. /\ pc = "seek" /\ j > i /\ j' = Forth(op, length, j)
      /\ SameCall /\ UNCHANGED <<data, pc, i, run, temp>>
  BY NextIsForth DEF Seek, SameCall, args
<1>2. op' = op /\ ScanBase' = ScanBase /\ BeforeWeave' = BeforeWeave /\ History'
  BY <1>1, SameCallFacts DEF Inv
<1>3. /\ length \in Nat /\ i \in Positions(length) /\ j \in Positions(length)
      /\ Partly(data, op, length, BeforeWeave, Passed(op, length, i))
      /\ Sought(op, length, i, j)
      /\ length' = length /\ given' = given /\ multiple' = multiple
  BY <1>1 DEF Inv, Types, Buffer, SameCall
<1>4. Sought(op, length, i, j') /\ j' \in Positions(length)
  BY <1>1, <1>3, SeekTurns, ForthBack
<1>5. Types'
  BY <1>1, <1>3, <1>4 DEF Inv, Types, Positions, SameCall
<1>6. Control'
  BY <1>1 DEF Inv, Control, SameCall
<1>7. Buffer'
  BY <1>1, <1>2, <1>3, <1>4 DEF Buffer
<1> QED BY <1>2, <1>5, <1>6, <1>7 DEF Inv

LEMMA SkipStep == Inv /\ Skip => Inv'
<1> SUFFICES ASSUME Inv, Skip PROVE Inv'
  OBVIOUS
<1>1. /\ pc = "seek" /\ j < i /\ i' = i + 1 /\ pc' = "pick"
      /\ SameCall /\ UNCHANGED <<data, run, j, temp>>
  BY NextIsForth DEF Skip, SameCall, args
<1>2. op' = op /\ ScanBase' = ScanBase /\ BeforeWeave' = BeforeWeave /\ History'
  BY <1>1, SameCallFacts DEF Inv
<1>3. /\ length \in Nat /\ i \in Positions(length) /\ j \in Positions(length)
      /\ Partly(data, op, length, BeforeWeave, Passed(op, length, i))
      /\ Sought(op, length, i, j)
      /\ length' = length /\ given' = given /\ multiple' = multiple
  BY <1>1 DEF Inv, Types, Buffer, SameCall
<1>4. Passed(op, length, i + 1) = Passed(op, length, i)
  <2>1. i \in Passed(op, length, i)
    BY <1>1, <1>3, SeekFindsSmaller
  <2> QED BY <1>3, <2>1, PassedStays
<1>5. Types'
  BY <1>1, <1>3 DEF Inv, Types, Positions, SameCall
<1>6. Control'
  BY <1>1 DEF Inv, Control, SameCall
<1>7. Buffer'
  BY <1>1, <1>2, <1>3, <1>4 DEF Buffer
<1> QED BY <1>2, <1>5, <1>6, <1>7 DEF Inv

LEMMA LeadStep == Inv /\ Lead => Inv'
<1> SUFFICES ASSUME Inv, Lead PROVE Inv'
  OBVIOUS
<1>1. /\ pc = "seek" /\ j = i /\ temp' = data[i] /\ j' = Forth(op, length, i) /\ pc' = "move"
      /\ SameCall /\ UNCHANGED <<data, i, run>>
  BY NextIsForth DEF Lead, SameCall, args
<1>2. op' = op /\ ScanBase' = ScanBase /\ BeforeWeave' = BeforeWeave /\ History'
  BY <1>1, SameCallFacts DEF Inv
<1>3. /\ length \in Nat /\ BeforeWeave \in Packets(length) /\ i \in Positions(length)
      /\ data \in Packets(length)
      /\ Partly(data, op, length, BeforeWeave, Passed(op, length, i))
      /\ Sought(op, length, i, i)
      /\ length' = length /\ given' = given /\ multiple' = multiple
  BY <1>1, BaseTypes DEF Inv, Types, Buffer, SameCall
<1>4. Moving(data, op, length, BeforeWeave, i, j', temp')
  <2>1. i \notin Passed(op, length, i)
    BY <1>3, SeekReturns
  <2> QED BY <1>1, <1>3, <2>1, MoveBegins
<1>5. j' \in Positions(length) /\ temp' \in Octet
  BY <1>1, <1>3, ForthBack DEF Packets, Positions
<1>6. Types'
  BY <1>1, <1>3, <1>5 DEF Inv, Types, Positions, SameCall
<1>7. Control'
  BY <1>1 DEF Inv, Control, SameCall
<1>8. Buffer'
  BY <1>1, <1>2, <1>3, <1>4 DEF Buffer
<1> QED BY <1>2, <1>6, <1>7, <1>8 DEF Inv

LEMMA MoveStep == Inv /\ Move => Inv'
<1> SUFFICES ASSUME Inv, Move PROVE Inv'
  OBVIOUS
<1>1. /\ pc = "move" /\ j # i /\ data' = [data EXCEPT ![j] = Toggle(temp)]
      /\ temp' = data[j] /\ j' = Forth(op, length, j)
      /\ SameCall /\ UNCHANGED <<pc, i, run>>
  BY NextIsForth DEF Move, SameCall, args
<1>2. op' = op /\ ScanBase' = ScanBase /\ BeforeWeave' = BeforeWeave /\ History'
  BY <1>1, SameCallFacts DEF Inv
<1>3. /\ length \in Nat /\ BeforeWeave \in Packets(length)
      /\ i \in Positions(length) /\ j \in Positions(length)
      /\ data \in Packets(length) /\ temp \in Octet
      /\ Moving(data, op, length, BeforeWeave, i, j, temp)
      /\ length' = length /\ given' = given /\ multiple' = multiple
  BY <1>1, BaseTypes DEF Inv, Types, Buffer, SameCall
<1>4. Moving(data', op, length, BeforeWeave, i, j', temp')
  BY <1>1, <1>3, MoveTurns
<1>5. j' \in Positions(length) /\ temp' \in Octet /\ data' \in Packets(length)
  BY <1>1, <1>3, ForthBack, ToggleType DEF Packets, Positions
<1>6. Types'
  BY <1>1, <1>3, <1>5 DEF Inv, Types, Positions, SameCall
<1>7. Control'
  BY <1>1 DEF Inv, Control, SameCall
<1>8. Buffer'
  BY <1>1, <1>2, <1>3, <1>4 DEF Buffer
<1> QED BY <1>2, <1>6, <1>7, <1>8 DEF Inv

LEMMA CloseStep == Inv /\ Close => Inv'
<1> SUFFICES ASSUME Inv, Close PROVE Inv'
  OBVIOUS
<1>1. /\ pc = "move" /\ j = i /\ data' = [data EXCEPT ![i] = Toggle(temp)]
      /\ i' = i + 1 /\ pc' = "pick"
      /\ SameCall /\ UNCHANGED <<run, j, temp>>
  BY NextIsForth DEF Close, SameCall, args
<1>2. op' = op /\ ScanBase' = ScanBase /\ BeforeWeave' = BeforeWeave /\ History'
  BY <1>1, SameCallFacts DEF Inv
<1>3. /\ length \in Nat /\ BeforeWeave \in Packets(length) /\ i \in Positions(length)
      /\ Moving(data, op, length, BeforeWeave, i, i, temp)
      /\ length' = length /\ given' = given /\ multiple' = multiple
  BY <1>1, BaseTypes DEF Inv, Types, Buffer, SameCall
<1>4. Partly(data', op, length, BeforeWeave, Passed(op, length, i + 1))
  BY <1>1, <1>3, MoveCloses
<1>5. data' \in Packets(length) /\ i' \in 0 .. length
  BY <1>1, <1>3, <1>4 DEF Partly, Positions
<1>6. Types'
  BY <1>1, <1>3, <1>5 DEF Inv, Types, SameCall
<1>7. Control'
  BY <1>1 DEF Inv, Control, SameCall
<1>8. Buffer'
  BY <1>1, <1>2, <1>3, <1>4 DEF Buffer
<1> QED BY <1>2, <1>6, <1>7, <1>8 DEF Inv

LEMMA EndWeaveStep == Inv /\ EndWeave => Inv'
<1> SUFFICES ASSUME Inv, EndWeave PROVE Inv'
  OBVIOUS
<1>1. /\ pc = "pick" /\ i >= length /\ i' = 0 /\ run' = 0
      /\ pc' = IF op = "encrypt" THEN "return" ELSE "scan"
      /\ SameCall /\ UNCHANGED <<data, j, temp>>
  BY NextIsForth DEF EndWeave, SameCall, args
<1>2. op' = op /\ ScanBase' = ScanBase /\ BeforeWeave' = BeforeWeave /\ History'
  BY <1>1, SameCallFacts DEF Inv
<1>3. /\ length \in Nat /\ ScanBase \in Packets(length) /\ BeforeWeave \in Packets(length)
      /\ i = length /\ ~PassThrough(length, given)
      /\ Partly(data, op, length, BeforeWeave, Passed(op, length, i))
      /\ data' = data /\ length' = length /\ given' = given /\ multiple' = multiple
  BY <1>1, BaseTypes DEF Inv, Types, Buffer, Control, SameCall
<1>4. data = WholeWeave(op, length, BeforeWeave)
  BY <1>3, WeaveEnds
<1>5. Types'
  BY <1>1, <1>3 DEF Inv, Types, SameCall
<1>6. Control'
  BY <1>1, <1>3 DEF Inv, Control, SameCall
<1>7. CASE op = "encrypt"
  <2>1. data = CipherOf(op, length, given, multiple)
    BY <1>3, <1>4, <1>7 DEF WholeWeave, BeforeWeave, CipherOf, Encrypted
  <2>2. Buffer'
    BY <1>1, <1>2, <1>3, <1>7, <2>1 DEF Buffer
  <2> QED BY <1>2, <1>5, <1>6, <2>2 DEF Inv
<1>8. CASE op # "encrypt"
  <2>1. data = ScanBase
    BY <1>4, <1>8 DEF WholeWeave, BeforeWeave, ScanBase
  <2>2. Scanned(data, 0, 0, ScanBase, length, multiple)
    BY <1>3, <2>1, ScanBegins
  <2>3. Buffer'
    BY <1>1, <1>2, <1>3, <1>8, <2>2 DEF Buffer
  <2> QED BY <1>2, <1>5, <1>6, <2>3 DEF Inv
<1> QED BY <1>7, <1>8

LEMMA CallsFacts ==
    ASSUME NEW c \in CallLists, c # << >>
    PROVE  /\ Tail(c) \in CallLists \ Pairs
           /\ Tail(c) = <<"decrypt">> => c \in Pairs /\ Head(c) = "encrypt"
<1>1. CASE c = <<"encrypt", "decrypt">>
  <2>1. Tail(c) = <<"decrypt">> /\ Head(c) = "encrypt"
    BY <1>1
  <2>2. <<"decrypt">> \notin Pairs
    BY DEF Pairs
  <2> QED BY <1>1, <2>1, <2>2 DEF CallLists, Pairs
<1>2. CASE c = <<"encrypt", "encrypt">>
  <2>1. Tail(c) = <<"encrypt">> /\ Head(c) = "encrypt"
    BY <1>2
  <2>2. <<"encrypt">> \notin Pairs /\ <<"encrypt">> # <<"decrypt">>
    BY DEF Pairs
  <2> QED BY <1>2, <2>1, <2>2 DEF CallLists, Pairs
<1>3. CASE c = <<"encrypt">> \/ c = <<"decrypt">>
  <2>1. Tail(c) = << >>
    <3>1. CASE c = <<"encrypt">>
      BY <3>1
    <3>2. CASE c = <<"decrypt">>
      BY <3>2
    <3> QED BY <1>3, <3>1, <3>2
  <2>2. << >> \notin Pairs /\ << >> # <<"decrypt">>
    BY DEF Pairs
  <2> QED BY <2>1, <2>2 DEF CallLists
<1> QED BY <1>1, <1>2, <1>3 DEF CallLists, Pairs

LEMMA ReturnStep == Inv /\ Return => Inv'
<1> SUFFICES ASSUME Inv, Return PROVE Inv'
  OBVIOUS
<1>1. /\ pc = "return" /\ calls' = Tail(calls) /\ given' = data /\ pc' = "enter"
      /\ UNCHANGED <<data, i, run, j, temp, length, multiple, original>>
  BY DEF Return, args
<1>2. /\ calls # << >> /\ calls \in CallLists /\ data \in Packets(length)
      /\ data = CipherOf(op, length, given, multiple)
  BY <1>1 DEF Inv, Types, Control, Buffer
<1>3. /\ calls' \in CallLists \ Pairs
      /\ calls' = <<"decrypt">> => calls \in Pairs /\ op = "encrypt"
  BY <1>1, <1>2, CallsFacts DEF op
<1>4. Types'
  BY <1>1, <1>2, <1>3 DEF Inv, Types
<1>5. Control' /\ Buffer'
  BY <1>1 DEF Control, Buffer
<1>6. History'
  BY <1>1, <1>2, <1>3 DEF Inv, History, CipherOf
<1> QED BY <1>4, <1>5, <1>6 DEF Inv

LEMMA InvInit == Init => Inv
<1> SUFFICES ASSUME Init PROVE Inv
  OBVIOUS
<1>1. PICK s \in Inputs : length = Len(s) /\ data = Packet(s)
  BY DEF Init
<1>2. s \in Seq(Octet)
  BY CipherAssumption
<1>3. length \in Nat /\ data \in Packets(length)
  BY <1>1, <1>2 DEF Packet, Packets
<1>4. 0 \in Octet
  BY HighBitAssumption DEF Octet
<1>5. calls \in Pairs
  BY CipherAssumption DEF Init, Pairs
<1>6. <<"decrypt">> \notin Pairs
  BY DEF Pairs
<1> QED BY <1>3, <1>4, <1>5, <1>6 DEF Init, Inv, Types, Control, History, Buffer, CallLists

LEMMA InvHolds == Spec => []Inv
<1>1. Inv /\ [Next]_vars => Inv'
  <2> SUFFICES ASSUME Inv, [Next]_vars PROVE Inv'
    OBVIOUS
  <2>1. CASE UNCHANGED vars
    <3>1. SameCall /\ UNCHANGED <<data, pc, i, run, j, temp>>
      BY <2>1 DEF vars, SameCall
    <3>2. op' = op /\ ScanBase' = ScanBase /\ BeforeWeave' = BeforeWeave /\ History'
      BY <3>1, SameCallFacts DEF Inv
    <3> QED BY <3>1, <3>2 DEF SameCall, Inv, Types, Control, Buffer
  <2> QED BY <2>1, EnterStep, ReturnStep, ScanStep, FlushStep, StayStep, WalkStep, SeekStep,
             SkipStep, LeadStep, MoveStep, CloseStep, EndWeaveStep DEF Next
<1> QED BY <1>1, InvInit, PTL DEF Spec

-----------------------------------------------------------------------------
(* The loops look at no position outside the packet, and between two turns  *)
(* each cycle was moved once or not at all: for a packet of any length, the *)
(* loops' own test tells which position leads a cycle.                      *)
THEOREM CyclesAreMovedOnce == Spec => []LoopInvariant
<1>1. Inv => TypeOK
  BY DEF Inv, Types, TypeOK, Positions
<1>2. Inv => CyclesMoveOnce
  <2> SUFFICES ASSUME Inv, pc \in {"pick", "seek"}, NEW k \in 0 .. length - 1
               PROVE  data[k] = IF \E l \in Orbit(k) : l < i
                                THEN AfterWeave[k] ELSE BeforeWeave[k]
    BY DEF CyclesMoveOnce
  <2>1. /\ length \in Nat /\ i \in 0 .. length /\ k \in Positions(length)
        /\ BeforeWeave \in Packets(length)
        /\ Partly(data, op, length, BeforeWeave, Passed(op, length, i))
    BY BaseTypes DEF Inv, Types, Buffer, Positions
  <2>2. k \in Passed(op, length, i) <=> \E l \in Orbit(k) : l < i
    BY <2>1, PassedOrbits
  <2>3. AfterWeave[k] = WovenAt(op, length, BeforeWeave, k)
    <3>1. AfterWeave = WholeWeave(op, length, BeforeWeave)
      BY DEF AfterWeave, WholeWeave
    <3> QED BY <2>1, <3>1, WholeWeaveFacts
  <2> QED BY <2>1, <2>2, <2>3 DEF Partly
<1> QED BY <1>1, <1>2, InvHolds, PTL DEF LoopInvariant

(* A packet that is encrypted and decrypted with the same multiple is the   *)
(* packet again, for every length, content and multiple, unless its         *)
(* ciphertext starts like a packet that is not encrypted at all.            *)
THEOREM CipherRoundTrip == Spec => []RoundTripUnlessMasked
<1>1. Inv => RoundTripUnlessMasked
  <2> SUFFICES ASSUME Inv, ~Masked(length, original, multiple), pc = "return",
                      calls = <<"decrypt">>
               PROVE  data = original
    BY DEF RoundTripUnlessMasked, Restored
  <2>1. /\ length \in Nat /\ original \in Packets(length)
        /\ given = Encrypted(length, original, multiple)
        /\ data = CipherOf(op, length, given, multiple)
    BY DEF Inv, Types, History, Buffer
  <2>2. op = "decrypt"
    BY DEF op
  <2>3. data = Decrypted(length, Encrypted(length, original, multiple), multiple)
    BY <2>1, <2>2 DEF CipherOf
  <2> QED BY <2>1, <2>3, DecryptUndoes
<1> QED BY <1>1, InvHolds, PTL

(* All the turns of the loops of a call are, for its caller, the one step   *)
(* of EoCipherSpec that turns the whole packet at once: returning is that   *)
(* step, and every other turn leaves what the caller sees as it was.        *)
THEOREM CallsAreAtomic == Spec => AtOnce
<1>1. Init => Abstract!SpecInit
  <2> SUFFICES ASSUME Init PROVE Abstract!SpecInit
    OBVIOUS
  <2>1. length \in Nat /\ given \in Packets(length)
    BY InvInit DEF Inv, Types
  <2>2. multiple \in Nat \ {0} /\ calls \in Pairs
    BY CipherAssumption DEF Init, Pairs
  <2> QED BY <2>1, <2>2 DEF Abstract!SpecInit, Pairs, Packets, Octet,
                            Abstract!Packets, Abstract!Octet
<1>2. Inv /\ [Next]_vars => [Abstract!Call]_(Abstract!specVars)
  <2> SUFFICES ASSUME Inv, [Next]_vars
               PROVE  Abstract!Call \/ UNCHANGED <<length, given, multiple, calls>>
    BY DEF Abstract!specVars
  <2>1. CASE Return
    <3>1. /\ calls # << >> /\ calls' = Tail(calls)
          /\ given' = CipherOf(Head(calls), length, given, multiple)
          /\ UNCHANGED <<length, multiple>>
      BY <2>1 DEF Return, args, Inv, Control, Buffer, op
    <3>2. Abstract!CipherOf(Head(calls), length, given, multiple) =
              CipherOf(Head(calls), length, given, multiple)
      BY Zenon
      DEF CipherOf, Encrypted, Decrypted, PassThrough, BreakOctet, Woven, Unwoven, Toggle,
          WovenFrom, UnwovenFrom, Swapped, RunOf, IsRun, Divisible,
          Abstract!CipherOf, Abstract!Encrypted, Abstract!Decrypted, Abstract!PassThrough,
          Abstract!BreakOctet, Abstract!Woven, Abstract!Unwoven, Abstract!Toggle,
          Abstract!WovenFrom, Abstract!UnwovenFrom, Abstract!Swapped, Abstract!RunOf,
          Abstract!IsRun, Abstract!Divisible
    <3> QED BY <3>1, <3>2 DEF Abstract!Call
  <2>2. CASE UNCHANGED vars
    BY <2>2 DEF vars
  <2>3. CASE Next /\ ~Return
    BY <2>3 DEF Next, Enter, Scan, Flush, Stay, Walk, Seek, Skip, Lead, Move, Close,
                EndWeave, args
  <2> QED BY <2>1, <2>2, <2>3
<1> QED BY <1>1, <1>2, InvHolds, PTL DEF Spec, AtOnce, Abstract!AtOnce


-----------------------------------------------------------------------------
(* The conversion of texts.  Two of EoText's operators are defined by       *)
(* recursion on data.  Shrinkage sums over a set: the sum is shown to be the*)
(* number of elements of the set Behind, by way of a smallest set for which *)
(* it would not be.  Encoding is a recursive function on the length of a    *)
(* text: a function of that kind is built for a given length from one for   *)
(* the length before, and a least length without one would be a             *)
(* contradiction.                                                           *)

(* How many bytes the sequences of a text hold behind their first bytes.    *)
LEMMA AnnouncedType == \A b : Announced(b) \in 1 .. 4
BY DEF Announced

\* The bytes behind the first of the sequences that start in S, as pairs of a
\* start and a distance from it.
Behind(text, S) == {e \in S \X (1 .. 3) : e[2] < Announced(text[e[1]])}

LEMMA PairsEmpty == ASSUME NEW text PROVE Cardinality(Behind(text, {})) = 0
<1>1. Behind(text, {}) = {}
  BY DEF Behind
<1> QED BY <1>1, FS_EmptySet

LEMMA PairsFinite ==
    ASSUME NEW text, NEW S, IsFiniteSet(S)
    PROVE  IsFiniteSet(Behind(text, S)) /\ Cardinality(Behind(text, S)) \in Nat
<1>1. IsFiniteSet(1 .. 3)
  <2>1. 1 \in Int /\ 3 \in Int
    OBVIOUS
  <2> QED BY ONLY <2>1, FS_Interval
<1>2. IsFiniteSet(S \X (1 .. 3))
  BY <1>1, FS_Product
<1>3. IsFiniteSet(Behind(text, S))
  BY <1>2, FS_Subset DEF Behind
<1> QED BY <1>3, FS_CardinalityType

\* One more sequence adds the bytes it announces but the first.
LEMMA PairsAdd ==
    ASSUME NEW text, NEW S, IsFiniteSet(S), NEW x, x \notin S
    PROVE  Cardinality(Behind(text, S \cup {x})) =
               Cardinality(Behind(text, S)) + (Announced(text[x]) - 1)
<1> DEFINE P == Behind(text, S)
           a == Announced(text[x])
<1>1. IsFiniteSet(P) /\ Cardinality(P) \in Nat
  BY PairsFinite
<1>2. /\ <<x, 1>> \notin P
      /\ <<x, 2>> \notin P \cup {<<x, 1>>}
      /\ <<x, 3>> \notin P \cup {<<x, 1>>} \cup {<<x, 2>>}
  BY DEF Behind
<1> DEFINE A == {e \in {x} \X (1 .. 3) : e[2] < a}
<1>3. Behind(text, S \cup {x}) = P \cup A
  BY DEF Behind
<1>4. a \in 1 .. 4
  BY AnnouncedType
<1>5. A = {<<x, h>> : h \in {w \in 1 .. 3 : w < a}}
  BY <1>4
<1> HIDE DEF P, A, a
<1>6. CASE a = 1
  <2>1. A = {}
    BY <1>5, <1>6
  <2> QED BY <1>1, <1>3, <1>6, <2>1 DEF P, a
<1>7. CASE a = 2
  <2>1. {w \in 1 .. 3 : w < a} = {1}
    BY <1>7
  <2>2. P \cup A = P \cup {<<x, 1>>}
    BY <1>5, <2>1
  <2>3. Cardinality(P \cup {<<x, 1>>}) = Cardinality(P) + 1
    BY <1>1, <1>2, FS_AddElement
  <2> QED BY <1>1, <1>3, <1>7, <2>2, <2>3 DEF P, a
<1>8. CASE a = 3
  <2>1. {w \in 1 .. 3 : w < a} = {1, 2}
    BY <1>8
  <2>2. P \cup A = P \cup {<<x, 1>>} \cup {<<x, 2>>}
    BY <1>5, <2>1
  <2>3. IsFiniteSet(P \cup {<<x, 1>>}) /\ Cardinality(P \cup {<<x, 1>>}) = Cardinality(P) + 1
    BY <1>1, <1>2, FS_AddElement
  <2>4. Cardinality(P \cup {<<x, 1>>} \cup {<<x, 2>>}) = Cardinality(P) + 1 + 1
    BY <1>2, <2>3, FS_AddElement
  <2>5. Cardinality(P) + 1 + 1 = Cardinality(P) + (a - 1)
    BY <1>1, <1>8
  <2> QED BY <1>3, <2>2, <2>4, <2>5 DEF P, a
<1>9. CASE a = 4
  <2>1. {w \in 1 .. 3 : w < a} = {1, 2, 3}
    BY <1>9
  <2>2. P \cup A = P \cup {<<x, 1>>} \cup {<<x, 2>>} \cup {<<x, 3>>}
    BY <1>5, <2>1
  <2>3. IsFiniteSet(P \cup {<<x, 1>>}) /\ Cardinality(P \cup {<<x, 1>>}) = Cardinality(P) + 1
    BY <1>1, <1>2, FS_AddElement
  <2>4. /\ IsFiniteSet(P \cup {<<x, 1>>} \cup {<<x, 2>>})
        /\ Cardinality(P \cup {<<x, 1>>} \cup {<<x, 2>>}) = Cardinality(P) + 1 + 1
    BY <1>2, <2>3, FS_AddElement
  <2>5. Cardinality(P \cup {<<x, 1>>} \cup {<<x, 2>>} \cup {<<x, 3>>}) = Cardinality(P) + 1 + 1 + 1
    <3> DEFINE Q == P \cup {<<x, 1>>} \cup {<<x, 2>>}
    <3>1. IsFiniteSet(Q) /\ Cardinality(Q) = Cardinality(P) + 1 + 1 /\ <<x, 3>> \notin Q
      BY <1>2, <2>4
    <3> HIDE DEF Q
    <3>2. Cardinality(Q \cup {<<x, 3>>}) = Cardinality(P) + 1 + 1 + 1
      BY <3>1, FS_AddElement
    <3> QED BY <3>2 DEF Q
  <2>6. Cardinality(P) + 1 + 1 + 1 = Cardinality(P) + (a - 1)
    BY <1>1, <1>9
  <2> QED BY <1>3, <2>2, <2>5, <2>6 DEF P, a
<1> QED BY <1>4, <1>6, <1>7, <1>8, <1>9

\* f is the recursive function behind the sum over S.
IsSum(text, S, f) ==
    f = [s \in SUBSET S |->
            IF s = {} THEN 0
            ELSE (Announced(text[CHOOSE x \in s : TRUE]) - 1)
                     + f[s \ {CHOOSE x \in s : TRUE}]]

LEMMA SumUnfold ==
  ASSUME NEW text
  PROVE  LET S == {k \in 1 .. Len(text) : FormsSequence(text, k)}
         IN  Shrinkage(text) = (CHOOSE f : IsSum(text, S, f))[S]
BY DEF Shrinkage, MapThenSumSet, MapThenFoldSet, IsSum

LEMMA SumExists ==
    ASSUME NEW text, NEW S, IsFiniteSet(S)
    PROVE  \E f : IsSum(text, S, f)
<1> DEFINE f == [s \in SUBSET S |-> Cardinality(Behind(text, s))]
<1>1. ASSUME NEW s \in SUBSET S
      PROVE  f[s] = IF s = {} THEN 0
                    ELSE (Announced(text[CHOOSE x \in s : TRUE]) - 1)
                             + f[s \ {CHOOSE x \in s : TRUE}]
  <2>1. CASE s = {}
    BY <2>1, PairsEmpty
  <2>2. CASE s # {}
    <3> DEFINE x == CHOOSE y \in s : TRUE
               r == s \ {x}
    <3>1. x \in s
      BY <2>2
    <3>2. IsFiniteSet(r) /\ x \notin r /\ r \cup {x} = s /\ r \in SUBSET S
      BY <3>1, FS_Subset
    <3> HIDE DEF x, r
    <3>3. Cardinality(Behind(text, s)) = Cardinality(Behind(text, r)) + (Announced(text[x]) - 1)
      BY <3>2, PairsAdd
    <3>4. Cardinality(Behind(text, r)) \in Nat /\ Announced(text[x]) \in 1 .. 4
      BY <3>2, PairsFinite, AnnouncedType
    <3>5. f[s] = Cardinality(Behind(text, s)) /\ f[r] = Cardinality(Behind(text, r))
      BY <3>2
    <3> HIDE DEF f
    <3>6. f[s] = (Announced(text[x]) - 1) + f[r]
      BY <3>3, <3>4, <3>5
    <3> QED BY <2>2, <3>6 DEF x, r
  <2> QED BY <2>1, <2>2
<1>2. f = [s \in SUBSET S |-> f[s]]
  OBVIOUS
<1> HIDE DEF f
<1>3. IsSum(text, S, f)
  BY <1>1, <1>2 DEF IsSum
<1> QED BY <1>3

\* Whatever function it is, its value is the number of those bytes: take a
\* smallest set for which it is not.
LEMMA SumIs ==
    ASSUME NEW text, NEW S, IsFiniteSet(S), NEW f, IsSum(text, S, f)
    PROVE  f[S] = Cardinality(Behind(text, S))
<1> DEFINE Bad == {s \in SUBSET S : f[s] # Cardinality(Behind(text, s))}
<1> SUFFICES ASSUME Bad # {} PROVE FALSE
  OBVIOUS
<1>1. PICK s \in Bad : \A t \in Bad : ~ (<<t, s>> \in StrictSubsetOrdering(S))
  <2>1. IsWellFoundedOn(StrictSubsetOrdering(S), SUBSET S)
    BY FS_StrictSubsetOrderingWellFounded, FS_FiniteSubsetsOfFinite
  <2>2. Bad \subseteq SUBSET S
    OBVIOUS
  <2> HIDE DEF Bad
  <2> QED BY <2>1, <2>2, WFMin
<1> DEFINE x == CHOOSE y \in s : TRUE
           r == s \ {x}
<1>2. f[s] = IF s = {} THEN 0 ELSE (Announced(text[x]) - 1) + f[r]
  <2>1. s \in SUBSET S
    OBVIOUS
  <2> QED BY <2>1 DEF IsSum
<1>3. s # {}
  BY <1>2, PairsEmpty
<1>4. x \in s
  BY <1>3
<1>5. IsFiniteSet(r) /\ x \notin r /\ r \cup {x} = s /\ r \in SUBSET S /\ s \in SUBSET S /\ r # s
  BY <1>4, FS_Subset
<1>6. r \notin Bad
  <2>1. <<r, s>> \in StrictSubsetOrdering(S)
    BY <1>5 DEF StrictSubsetOrdering
  <2> QED BY <1>1, <2>1
<1>7. f[r] = Cardinality(Behind(text, r))
  BY <1>5, <1>6
<1>8. f[s] # Cardinality(Behind(text, s))
  OBVIOUS
<1> HIDE DEF x, r, Bad
<1>9. Cardinality(Behind(text, s)) = Cardinality(Behind(text, r)) + (Announced(text[x]) - 1)
  BY <1>5, PairsAdd
<1>10. Cardinality(Behind(text, r)) \in Nat /\ Announced(text[x]) \in 1 .. 4
  BY <1>5, PairsFinite, AnnouncedType
<1> QED BY <1>2, <1>3, <1>7, <1>8, <1>9, <1>10

LEMMA ShrinkageIs ==
    ASSUME NEW text, Len(text) \in Nat
    PROVE  Shrinkage(text) =
               Cardinality(Behind(text, {k \in 1 .. Len(text) : FormsSequence(text, k)}))
<1> DEFINE S == {k \in 1 .. Len(text) : FormsSequence(text, k)}
           f == CHOOSE g : IsSum(text, S, g)
<1>1. IsFiniteSet(S)
  <2>1. IsFiniteSet(1 .. Len(text))
    BY FS_Interval
  <2> QED BY <2>1, FS_Subset
<1>2. Shrinkage(text) = f[S]
  BY SumUnfold
<1> HIDE DEF S
<1>3. IsSum(text, S, f)
  BY <1>1, SumExists
<1>4. f[S] = Cardinality(Behind(text, S))
  <2> HIDE DEF f
  <2> QED BY <1>1, <1>3, SumIs
<1> QED BY <1>2, <1>4 DEF S

-----------------------------------------------------------------------------
(* Bytes, and those of a text.  The prover takes an interval with literal   *)
(* bounds number by number; here it is told what the bounds mean.           *)
Byte   == 0 .. 255
Letter == 1 .. 255

LEMMA ByteFacts ==
    /\ \A b : b \in Byte <=> b \in Int /\ 0 <= b /\ b <= 255
    /\ \A b : b \in Letter <=> b \in Byte /\ b # 0
BY DEF Byte, Letter

LEMMA CodeType == \A cp \in Nat : UnicodeToCp1252(cp) \in Byte
BY DEF UnicodeToCp1252, Byte

LEMMA CharacterRange == \A cp \in Characters : cp \in Nat /\ 0 < cp /\ cp <= 1114111
BY TextAssumption, SMT

LEMMA TableFacts ==
    ASSUME NEW w \in 1 .. 32
    PROVE  Cp1252UnicodeExtras[w] \in Nat /\ Cp1252UnicodeExtras[w] < 65536
BY SMT DEF Cp1252UnicodeExtras

\* What an iteration of the loop makes of the bytes of a character.
Read(u) ==
    CASE Len(u) = 1 -> u[1]
      [] Len(u) = 2 -> UnicodeToCp1252((u[1] % 32) * 64 + (u[2] % 64))
      [] Len(u) = 3 -> UnicodeToCp1252((u[1] % 16) * 4096 + (u[2] % 64) * 64 + (u[3] % 64))
      [] Len(u) = 4 -> 63

LEMMA Utf8Type ==
    ASSUME NEW cp \in Characters
    PROVE  /\ Utf8(cp) \in Seq(Letter)
           /\ Len(Utf8(cp)) \in 1 .. 4
           /\ Announced(Utf8(cp)[1]) = Len(Utf8(cp))
           /\ \A k \in 2 .. Len(Utf8(cp)) : IsContinuation(Utf8(cp)[k])
           /\ Read(Utf8(cp)) = UnicodeToCp1252(cp)
<1>1. cp \in Nat /\ 0 < cp /\ cp <= 1114111
  BY CharacterRange, SMT
<1> DEFINE u == Utf8(cp)
           All == /\ u \in Seq(Letter)
                  /\ Len(u) \in 1 .. 4
                  /\ Announced(u[1]) = Len(u)
                  /\ \A k \in 2 .. Len(u) : IsContinuation(u[k])
                  /\ Read(u) = UnicodeToCp1252(cp)
<1> SUFFICES All
  OBVIOUS
<1>2. CASE cp < 128
  <2>1. u = <<cp>>
    BY <1>1, <1>2, SMT DEF Utf8
  <2>2. cp \in Letter
    BY <1>1, <1>2, ByteFacts
  <2>3. Announced(cp) = 1 /\ UnicodeToCp1252(cp) = cp
    BY <1>1, <1>2 DEF Announced, UnicodeToCp1252
  <2> HIDE DEF u
  <2>4. u \in Seq(Letter) /\ Len(u) = 1 /\ u[1] = cp
    BY <2>1, <2>2
  <2>5. Read(u) = cp
    BY <2>4 DEF Read
  <2> QED BY <2>3, <2>4, <2>5
<1>3. CASE 128 <= cp /\ cp < 2048
  <2> DEFINE a == 192 + (cp \div 64)
             b == 128 + (cp % 64)
  <2>1. u = <<a, b>>
    BY <1>1, <1>3, SMT DEF Utf8
  <2>2. /\ a \in Int /\ 194 <= a /\ a <= 223
        /\ b \in Int /\ 128 <= b /\ b <= 191
    BY <1>1, <1>3, SMT
  <2>3. /\ a % 32 = cp \div 64 /\ b % 64 = cp % 64
        /\ (cp \div 64) * 64 + (cp % 64) = cp
    BY <1>1, <1>3, SMT
  <2> HIDE DEF a, b
  <2>4. (a % 32) * 64 + (b % 64) = cp
    BY <2>3, SMT
  <2>5. a \in Letter /\ b \in Letter
    BY <2>2, ByteFacts
  <2>6. Announced(a) = 2 /\ IsContinuation(b)
    BY <2>2, SMT DEF Announced, IsContinuation
  <2> HIDE DEF u
  <2>7. u \in Seq(Letter) /\ Len(u) = 2 /\ u[1] = a /\ u[2] = b
    BY <2>1, <2>5, SMT
  <2>8. Read(u) = UnicodeToCp1252((a % 32) * 64 + (b % 64))
    BY <2>7, SMT DEF Read
  <2>9. \A k \in 2 .. Len(u) : IsContinuation(u[k])
    BY <2>6, <2>7
  <2>10. Read(u) = UnicodeToCp1252(cp)
    BY <2>4, <2>7, <2>8, SMT
  <2> QED BY <2>6, <2>7, <2>8, <2>9, <2>10
<1>4. CASE 2048 <= cp /\ cp < 65536
  <2> DEFINE a == 224 + (cp \div 4096)
             b == 128 + ((cp \div 64) % 64)
             c == 128 + (cp % 64)
  <2>1. u = <<a, b, c>>
    BY <1>1, <1>4, SMT DEF Utf8
  <2>2. /\ a \in Int /\ 224 <= a /\ a <= 239
        /\ b \in Int /\ 128 <= b /\ b <= 191
        /\ c \in Int /\ 128 <= c /\ c <= 191
    BY <1>1, <1>4, SMT
  <2>3. /\ a % 16 = cp \div 4096 /\ b % 64 = (cp \div 64) % 64 /\ c % 64 = cp % 64
        /\ (cp \div 4096) * 4096 + ((cp \div 64) % 64) * 64 + (cp % 64) = cp
    BY <1>1, <1>4, SMT
  <2> HIDE DEF a, b, c
  <2>4. (a % 16) * 4096 + (b % 64) * 64 + (c % 64) = cp
    BY <2>3, SMT
  <2>5. a \in Letter /\ b \in Letter /\ c \in Letter
    BY <2>2, ByteFacts
  <2>6. Announced(a) = 3 /\ IsContinuation(b) /\ IsContinuation(c)
    BY <2>2, SMT DEF Announced, IsContinuation
  <2> HIDE DEF u
  <2>7. u \in Seq(Letter) /\ Len(u) = 3 /\ u[1] = a /\ u[2] = b /\ u[3] = c
    BY <2>1, <2>5, SMT
  <2>8. Read(u) = UnicodeToCp1252((a % 16) * 4096 + (b % 64) * 64 + (c % 64))
    BY <2>7, SMT DEF Read
  <2>9. \A k \in 2 .. Len(u) : IsContinuation(u[k])
    BY <2>6, <2>7
  <2>10. Read(u) = UnicodeToCp1252(cp)
    BY <2>4, <2>7, <2>8, SMT
  <2> QED BY <2>6, <2>7, <2>8, <2>9, <2>10
<1>5. CASE 65536 <= cp
  <2> DEFINE a == 240 + (cp \div 262144)
             b == 128 + ((cp \div 4096) % 64)
             c == 128 + ((cp \div 64) % 64)
             d == 128 + (cp % 64)
  <2>1. u = <<a, b, c, d>>
    BY <1>1, <1>5, SMT DEF Utf8
  <2>2. /\ a \in Int /\ 240 <= a /\ a <= 244
        /\ b \in Int /\ 128 <= b /\ b <= 191
        /\ c \in Int /\ 128 <= c /\ c <= 191
        /\ d \in Int /\ 128 <= d /\ d <= 191
    BY <1>1, <1>5, SMT
  <2> HIDE DEF a, b, c, d
  <2>5. a \in Letter /\ b \in Letter /\ c \in Letter /\ d \in Letter
    BY <2>2, ByteFacts
  <2>6. Announced(a) = 4 /\ IsContinuation(b) /\ IsContinuation(c) /\ IsContinuation(d)
    BY <2>2, SMT DEF Announced, IsContinuation
  <2> HIDE DEF u
  <2>7. u \in Seq(Letter) /\ Len(u) = 4 /\ u[1] = a /\ u[2] = b /\ u[3] = c /\ u[4] = d
    BY <2>1, <2>5, SMT
  <2>8. Read(u) = 63
    BY <2>7, SMT DEF Read
  <2>9. \A k \in 2 .. Len(u) : IsContinuation(u[k])
    BY <2>6, <2>7
  <2>10. UnicodeToCp1252(cp) = 63
    <3>1. \A w \in 1 .. 32 : Cp1252UnicodeExtras[w] # cp
      BY <1>1, <1>5, TableFacts, SMT
    <3>2. ~ (cp <= 127 \/ cp \in 160 .. 255)
      BY <1>1, <1>5, SMT
    <3> QED BY <3>1, <3>2, SMT DEF UnicodeToCp1252
  <2> QED BY <2>6, <2>7, <2>8, <2>9, <2>10
<1>6. \/ cp < 128
      \/ 128 <= cp /\ cp < 2048
      \/ 2048 <= cp /\ cp < 65536
      \/ 65536 <= cp
  BY <1>1, SMT
<1> HIDE DEF All
<1> QED BY <1>2, <1>3, <1>4, <1>5, <1>6, SMT

-----------------------------------------------------------------------------
(* The encoding of a text, as far as its first characters.                  *)
Prefix(text, n) == [k \in 1 .. n |-> text[k]]

\* e encodes the texts of up to last characters, each from its own prefix.
IsEncoding(last, e) ==
    e = [n \in 0 .. last |->
           [text \in [1 .. n -> Characters] |->
              IF n = 0 THEN << >> ELSE e[n - 1][[k \in 1 .. n - 1 |-> text[k]]] \o Utf8(text[n])]]

LEMMA EncodingExists == ASSUME NEW last \in Nat PROVE \E e : IsEncoding(last, e)
<1> DEFINE T == {t \in Nat : ~ \E e : IsEncoding(t, e)}
<1> SUFFICES ASSUME T # {} PROVE FALSE
  OBVIOUS
<1>1. PICK t \in T : \A u \in T : t <= u
  <2> HIDE DEF T
  <2>1. T \subseteq Nat
    BY DEF T
  <2> QED BY <2>1, LeastElement
<1>2. CASE t = 0
  <2> DEFINE e == [n \in 0 .. 0 |-> [text \in [1 .. n -> Characters] |-> << >>]]
  <2>1. e = [n \in 0 .. 0 |->
           [text \in [1 .. n -> Characters] |->
              IF n = 0 THEN << >> ELSE e[n - 1][[k \in 1 .. n - 1 |-> text[k]]] \o Utf8(text[n])]]
    OBVIOUS
  <2>2. IsEncoding(0, e)
    BY <2>1 DEF IsEncoding
  <2> QED BY <1>2, <2>2
<1>3. CASE t # 0
  <2>1. t \in Nat /\ t - 1 \in Nat /\ t - 1 \notin T
    BY <1>1, <1>3
  <2>2. PICK v : IsEncoding(t - 1, v)
    BY <2>1
  <2> DEFINE
        Row(n, f) == [text \in [1 .. n -> Characters] |->
              IF n = 0 THEN << >> ELSE f[n - 1][[k \in 1 .. n - 1 |-> text[k]]] \o Utf8(text[n])]
        e == [n \in 0 .. t |-> IF n = t THEN Row(t, v) ELSE v[n]]
  <2>3. \A n \in 0 .. t - 1 : v[n] = Row(n, v)
    BY <2>2 DEF IsEncoding
  <2>4. ASSUME NEW n \in 0 .. t PROVE e[n] = Row(n, e)
    <3>1. n # 0 => n - 1 \in 0 .. t /\ n - 1 # t
      BY <2>1
    <3>2. n # 0 => e[n - 1] = v[n - 1]
      BY <3>1
    <3>3. Row(n, e) = Row(n, v)
      <4> HIDE DEF e
      <4> QED BY <3>2
    <3>4. e[n] = Row(n, v)
      <4>1. CASE n = t
        BY <4>1
      <4>2. CASE n # t
        <5>1. n \in 0 .. t - 1 /\ e[n] = v[n]
          BY <2>1, <4>2
        <5> QED BY <2>3, <5>1
      <4> QED BY <4>1, <4>2
    <3> QED BY <3>3, <3>4
  <2>5. e = [n \in 0 .. t |-> e[n]]
    OBVIOUS
  <2> HIDE DEF e
  <2>6. e = [n \in 0 .. t |-> Row(n, e)]
    <3> HIDE DEF Row
    <3> QED BY <2>4, <2>5
  <2>7. IsEncoding(t, e)
    BY <2>6 DEF IsEncoding
  <2> QED BY <1>1, <2>7
<1> QED BY <1>2, <1>3

\* What the recursive definition says of a text, now that there is such a function.
LEMMA EncodingDef ==
    ASSUME NEW n \in 0 .. MaxCharacters, NEW text \in [1 .. n -> Characters]
    PROVE  Encoding[n][text] = IF n = 0 THEN << >>
                               ELSE Encoding[n - 1][Prefix(text, n - 1)] \o Utf8(text[n])
<1>1. IsEncoding(MaxCharacters, CHOOSE e : IsEncoding(MaxCharacters, e))
  BY EncodingExists, TextAssumption
<1>2. Encoding = CHOOSE e : IsEncoding(MaxCharacters, e)
  BY DEF Encoding, IsEncoding
<1>3. IsEncoding(MaxCharacters, Encoding)
  BY <1>1, <1>2
<1>4. Encoding[n] = [t \in [1 .. n -> Characters] |->
              IF n = 0 THEN << >> ELSE Encoding[n - 1][[k \in 1 .. n - 1 |-> t[k]]] \o Utf8(t[n])]
  BY <1>3 DEF IsEncoding
<1> QED BY <1>4 DEF Prefix

LEMMA PrefixType ==
    ASSUME NEW n \in Nat, NEW text \in [1 .. n -> Characters], NEW m \in 0 .. n
    PROVE  /\ Prefix(text, m) \in [1 .. m -> Characters]
           /\ \A k \in 1 .. m : Prefix(text, m)[k] = text[k]
           /\ \A k \in 0 .. m : Prefix(Prefix(text, m), k) = Prefix(text, k)
           /\ Prefix(text, n) = text
BY DEF Prefix

LEMMA EncodingType ==
    \A n \in 0 .. MaxCharacters :
      \A text \in [1 .. n -> Characters] : Encoding[n][text] \in Seq(Letter)
<1> DEFINE T == {n \in 0 .. MaxCharacters :
                   \E text \in [1 .. n -> Characters] : Encoding[n][text] \notin Seq(Letter)}
<1> SUFFICES ASSUME T # {} PROVE FALSE
  OBVIOUS
<1>1. PICK n \in T : \A m \in T : n <= m
  <2>1. T \subseteq Nat
    BY TextAssumption
  <2> HIDE DEF T
  <2> QED BY <2>1, LeastElement
<1>2. PICK text \in [1 .. n -> Characters] : Encoding[n][text] \notin Seq(Letter)
  OBVIOUS
<1>3. n \in 0 .. MaxCharacters /\ n \in Nat
  BY TextAssumption
<1>4. n # 0
  <2> SUFFICES ASSUME n = 0 PROVE FALSE
    OBVIOUS
  <2>1. Encoding[n][text] = << >>
    BY <1>3, EncodingDef
  <2> QED BY <1>2, <2>1, EmptySeq
<1>5. n - 1 \in 0 .. MaxCharacters /\ n - 1 \notin T /\ n - 1 \in 0 .. n /\ n \in 1 .. n
  BY <1>1, <1>3, <1>4, TextAssumption
<1>6. Prefix(text, n - 1) \in [1 .. n - 1 -> Characters]
  BY <1>3, <1>5, PrefixType
<1>7. Encoding[n - 1][Prefix(text, n - 1)] \in Seq(Letter)
  BY <1>5, <1>6
<1>8. Utf8(text[n]) \in Seq(Letter)
  BY <1>5, Utf8Type
<1>9. Encoding[n][text] = Encoding[n - 1][Prefix(text, n - 1)] \o Utf8(text[n])
  BY <1>3, <1>4, EncodingDef
<1> QED BY <1>2, <1>7, <1>8, <1>9, ConcatProperties

LEMMA CStringType == ASSUME NEW bytes \in Seq(Byte) PROVE CString(bytes) \in Seq(Letter)
<1> DEFINE ends == {k \in 1 .. Len(bytes) : bytes[k] = 0}
           last == CHOOSE k \in ends : \A h \in ends : k <= h
<1>1. Len(bytes) \in Nat /\ \A k \in 1 .. Len(bytes) : bytes[k] \in Byte
  BY LenProperties, ElementOfSeq
<1>2. CASE ends = {}
  <2>1. \A k \in 1 .. Len(bytes) : bytes[k] \in Letter
    BY <1>1, <1>2, ByteFacts
  <2>2. bytes = SubSeq(bytes, 1, Len(bytes)) 
    BY SubSeqFull
  <2>3. SubSeq(bytes, 1, Len(bytes)) \in Seq(Letter)
    BY <1>1, <2>1, SubSeqProperties
  <2> QED BY <1>2, <2>2, <2>3 DEF CString
<1>3. CASE ends # {}
  <2>1. ends \subseteq Nat
    BY <1>1
  <2>2. last \in ends /\ \A h \in ends : last <= h
    <3> HIDE DEF ends
    <3> QED BY <1>3, <2>1, LeastElement
  <2> HIDE DEF last
  <2>3. last \in 1 .. Len(bytes) /\ last - 1 \in Int
    BY <1>1, <2>2
  <2>4. \A k \in 1 .. last - 1 : bytes[k] \in Letter
    BY <1>1, <2>2, <2>3, ByteFacts
  <2>5. SubSeq(bytes, 1, last - 1) \in Seq(Letter)
    BY <2>3, <2>4, SubSeqProperties
  <2> QED BY <1>3, <2>5 DEF CString, last
<1> QED BY <1>2, <1>3

-----------------------------------------------------------------------------
(* The inductive invariant.  What is before pos has become the bytes        *)
(* written, one for each byte but those that the sequences found so far     *)
(* hold behind their first; and as long as none was found the bytes written *)
(* are those of the text.                                                   *)
TextTypes ==
    /\ phase \in {"called", "loop", "done", "failed"}
    /\ characters = None \/ characters \in Seq(Characters)
    /\ input \in Seq(Letter)
    /\ pos \in 0 .. Len(input)
    /\ output \in Seq(Byte)
    /\ reach \in 0 .. Len(input) + 1

Phases ==
    /\ phase = "called" => pos = 0 /\ output = << >>
    /\ phase = "done" => pos = Len(input)

\* The positions up to last at which a sequence starts.
Starts(text, last) == {k \in 1 .. last : FormsSequence(text, k)}

\* Of last bytes read, as many were written as are no byte behind a first one.
Counted(text, last, bytes) ==
    Len(bytes) = last - Cardinality(Behind(text, Starts(text, last)))

\* As long as no sequence was found the bytes are copied.
Copied(text, last, bytes) ==
    Len(bytes) = last => \A k \in 1 .. last : bytes[k] = text[k]

(* A text written in UTF-8: the loop stands between two of its characters,  *)
(* with one byte written for each of those before it.                       *)
Carried(chars, text, last, bytes) ==
    LET n == Len(chars)
        m == Len(bytes)
    IN  /\ n \in 0 .. MaxCharacters /\ chars \in [1 .. n -> Characters]
        /\ text = Encoding[n][chars]
        /\ m <= n
        /\ last = Len(Encoding[m][Prefix(chars, m)])
        /\ \A k \in 1 .. m : bytes[k] = UnicodeToCp1252(chars[k])

Converting ==
    /\ Counted(input, pos, output)
    /\ Copied(input, pos, output)
    /\ characters # None => Carried(characters, input, pos, output)

TextInv == TextTypes /\ Phases /\ Converting

-----------------------------------------------------------------------------
LEMMA StartsFinite ==
    ASSUME NEW text, NEW last \in Nat
    PROVE  /\ IsFiniteSet(Starts(text, last))
           /\ Cardinality(Behind(text, Starts(text, last))) \in Nat
<1>1. IsFiniteSet(1 .. last)
  BY FS_Interval
<1>2. IsFiniteSet(Starts(text, last))
  BY <1>1, FS_Subset DEF Starts
<1> QED BY <1>2, PairsFinite

LEMMA CountedBegins ==
    ASSUME NEW text PROVE Counted(text, 0, << >>) /\ Copied(text, 0, << >>)
<1>1. Starts(text, 0) = {}
  BY DEF Starts
<1>2. Len(<< >>) = 0
  BY EmptySeq
<1> QED BY <1>1, <1>2, PairsEmpty DEF Counted, Copied

\* A byte that starts no sequence is copied.
LEMMA CountedMoves ==
    ASSUME NEW text, NEW last \in Nat, NEW bytes \in Seq(Byte),
           Counted(text, last, bytes), Copied(text, last, bytes),
           ~ FormsSequence(text, last + 1), text[last + 1] \in Byte
    PROVE  /\ Counted(text, last + 1, Append(bytes, text[last + 1]))
           /\ Copied(text, last + 1, Append(bytes, text[last + 1]))
<1> DEFINE out == Append(bytes, text[last + 1])
<1>1. /\ Len(bytes) \in Nat /\ Len(out) = Len(bytes) + 1
      /\ \A k \in 1 .. Len(bytes) : out[k] = bytes[k]
      /\ out[Len(bytes) + 1] = text[last + 1]
  BY AppendProperties, LenProperties
<1> HIDE DEF out
<1>2. Starts(text, last + 1) = Starts(text, last)
  BY DEF Starts
<1>3. Cardinality(Behind(text, Starts(text, last))) \in Nat
  BY StartsFinite
<1>4. Counted(text, last + 1, out)
  BY <1>1, <1>2, <1>3 DEF Counted
<1>5. Copied(text, last + 1, out)
  BY <1>1 DEF Copied
<1> QED BY <1>4, <1>5 DEF out

\* A sequence makes the bytes written fewer than those read.
LEMMA CountedJumps ==
    ASSUME NEW text, NEW last \in Nat, NEW bytes \in Seq(Byte), NEW byte \in Byte, NEW n \in 2 .. 4,
           Counted(text, last, bytes), FormsSequence(text, last + 1), n = Announced(text[last + 1]),
           \A k \in last + 2 .. last + n : ~ FormsSequence(text, k)
    PROVE  /\ Counted(text, last + n, Append(bytes, byte))
           /\ Copied(text, last + n, Append(bytes, byte))
<1>1. Len(bytes) \in Nat /\ Len(Append(bytes, byte)) = Len(bytes) + 1
  BY AppendProperties, LenProperties
<1>2. Starts(text, last + n) = Starts(text, last) \cup {last + 1}
  BY DEF Starts
<1>3. last + 1 \notin Starts(text, last)
  BY DEF Starts
<1> DEFINE c == Cardinality(Behind(text, Starts(text, last)))
           d == Cardinality(Behind(text, Starts(text, last) \cup {last + 1}))
<1>4. c \in Nat /\ d = c + (n - 1)
  BY <1>3, StartsFinite, PairsAdd
<1>5. Len(bytes) = last - c
  BY DEF Counted
<1> HIDE DEF c, d
<1>6. Len(Append(bytes, byte)) = (last + n) - d
  BY <1>1, <1>4, <1>5
<1>7. Len(Append(bytes, byte)) # last + n
  BY <1>1, <1>4, <1>5
<1> QED BY <1>2, <1>6, <1>7 DEF Counted, Copied, d

-----------------------------------------------------------------------------
LEMMA AtFacts ==
    ASSUME TextTypes, NEW k \in Nat
    PROVE  /\ At(k) \in Byte /\ At(k) \in Int /\ 0 <= At(k)
           /\ pos + k < Len(input) => At(k) = input[pos + k + 1] /\ At(k) \in Letter
<1>1. pos \in Nat /\ Len(input) \in Nat
  BY LenProperties DEF TextTypes
<1>2. CASE pos + k < Len(input)
  <2>1. pos + k + 1 \in 1 .. Len(input)
    BY <1>1, <1>2
  <2>2. input[pos + k + 1] \in Letter
    BY <2>1, ElementOfSeq DEF TextTypes
  <2> QED BY <1>2, <2>2, ByteFacts DEF At
<1>3. CASE ~ (pos + k < Len(input))
  BY <1>3, ByteFacts DEF At
<1> QED BY <1>2, <1>3

\* What a branch for longer sequences finds is what the text has there.
LEMMA LengthFacts ==
    ASSUME TextTypes, InLoop
    PROVE  /\ SequenceLength \in 1 .. 4 /\ pos + SequenceLength <= Len(input)
           /\ SequenceLength > 1 => SequenceLength = Announced(input[pos + 1])
           /\ SequenceLength > 1 /\ IsSequence(SequenceLength) <=> FormsSequence(input, pos + 1)
           /\ SequenceLength > 1 /\ IsSequence(SequenceLength) =>
                \A k \in pos + 2 .. pos + SequenceLength : ~ FormsSequence(input, k)
<1> DEFINE n == SequenceLength
           a == Announced(input[pos + 1])
<1>1. pos \in Nat /\ Len(input) \in Nat /\ pos < Len(input)
  BY LenProperties DEF TextTypes, InLoop
<1>2. At(0) = input[pos + 1] /\ a \in 1 .. 4
  BY <1>1, AtFacts, AnnouncedType
<1>3. n = IF pos + a - 1 < Len(input) THEN a ELSE 1
  BY <1>2 DEF SequenceLength
<1> HIDE DEF n, a
<1>4. n \in 1 .. 4 /\ pos + n <= Len(input) /\ (n > 1 => n = a)
  BY <1>1, <1>2, <1>3
<1>5. n > 1 => \A k \in 1 .. n - 1 : At(k) = input[pos + k + 1]
  <2> SUFFICES ASSUME n > 1, NEW k \in 1 .. n - 1 PROVE At(k) = input[pos + k + 1]
    OBVIOUS
  <2>1. k \in Nat /\ pos + k < Len(input)
    BY <1>1, <1>4
  <2> QED BY <2>1, AtFacts
<1>6. IsSequence(n) <=> \A k \in 1 .. n - 1 : IsContinuation(At(k))
  BY DEF IsSequence
<1>7. FormsSequence(input, pos + 1) <=>
        /\ pos + 1 < pos + 1 + a - 1 /\ pos + 1 + a - 1 <= Len(input)
        /\ \A h \in pos + 2 .. pos + a : IsContinuation(input[h])
  <2>1. pos + 1 + 1 = pos + 2 /\ pos + 1 + a - 1 = pos + a
    BY <1>1, <1>2
  <2> QED BY <2>1 DEF FormsSequence, a
<1>8. n > 1 /\ IsSequence(n) => FormsSequence(input, pos + 1)
  <2> SUFFICES ASSUME n > 1, IsSequence(n) PROVE FormsSequence(input, pos + 1)
    OBVIOUS
  <2>1. ASSUME NEW h \in pos + 2 .. pos + a PROVE IsContinuation(input[h])
    <3>1. h - (pos + 1) \in 1 .. n - 1 /\ pos + (h - (pos + 1)) + 1 = h
      BY <1>1, <1>2, <1>4
    <3> QED BY <1>5, <1>6, <3>1
  <2>2. pos + 1 < pos + 1 + a - 1 /\ pos + 1 + a - 1 <= Len(input)
    BY <1>1, <1>2, <1>4
  <2> QED BY <1>7, <2>1, <2>2
<1>9. FormsSequence(input, pos + 1) => n > 1 /\ IsSequence(n)
  <2> SUFFICES ASSUME FormsSequence(input, pos + 1) PROVE n > 1 /\ IsSequence(n)
    OBVIOUS
  <2>1. a > 1 /\ pos + a <= Len(input) /\ \A h \in pos + 2 .. pos + a : IsContinuation(input[h])
    BY <1>1, <1>2, <1>7
  <2>2. n = a
    BY <1>1, <1>2, <1>3, <2>1
  <2>3. ASSUME NEW k \in 1 .. n - 1 PROVE IsContinuation(At(k))
    <3>1. pos + k + 1 \in pos + 2 .. pos + a
      BY <1>1, <1>2, <2>2
    <3> QED BY <1>5, <2>1, <2>2, <3>1
  <2> QED BY <1>6, <2>1, <2>2, <2>3
<1>10. n > 1 /\ IsSequence(n) => \A k \in pos + 2 .. pos + n : ~ FormsSequence(input, k)
  <2> SUFFICES ASSUME n > 1, IsSequence(n), NEW k \in pos + 2 .. pos + n
               PROVE  ~ FormsSequence(input, k)
    OBVIOUS
  <2>1. k - (pos + 1) \in 1 .. n - 1 /\ pos + (k - (pos + 1)) + 1 = k
    BY <1>1, <1>2, <1>4
  <2>2. IsContinuation(input[k])
    BY <1>5, <1>6, <2>1
  <2>3. Announced(input[k]) = 1
    BY <2>2 DEF IsContinuation, Announced
  <2> QED BY <1>1, <2>1, <2>3 DEF FormsSequence
<1> QED BY <1>4, <1>8, <1>9, <1>10 DEF n, a

LEMMA DecodedType ==
    ASSUME TextTypes, NEW n \in 2 .. 4
    PROVE  Decoded(n) \in Byte
<1>1. /\ At(0) \in Int /\ 0 <= At(0) /\ At(1) \in Int /\ 0 <= At(1) /\ At(2) \in Int /\ 0 <= At(2)
  BY AtFacts
<1>2. CASE n = 2
  <2>1. (At(0) % 32) * 64 + (At(1) % 64) \in Nat
    BY <1>1
  <2> QED BY <1>2, <2>1, CodeType DEF Decoded
<1>3. CASE n = 3
  <2>1. (At(0) % 16) * 4096 + (At(1) % 64) * 64 + (At(2) % 64) \in Nat
    BY <1>1, SMT
  <2>2. Decoded(n) = UnicodeToCp1252((At(0) % 16) * 4096 + (At(1) % 64) * 64 + (At(2) % 64))
    BY <1>3, SMT DEF Decoded
  <2> QED BY <2>1, <2>2, CodeType, SMT
<1>4. CASE n = 4
  BY <1>4, ByteFacts DEF Decoded
<1> QED BY <1>2, <1>3, <1>4

-----------------------------------------------------------------------------
\* What the first characters of a text become is what its encoding begins with.
LEMMA EncodingGrows ==
    ASSUME NEW n \in 0 .. MaxCharacters, NEW chars \in [1 .. n -> Characters], NEW m \in 0 .. n - 1
    PROVE  /\ Encoding[m][Prefix(chars, m)] \in Seq(Letter)
           /\ Encoding[m + 1][Prefix(chars, m + 1)] =
                Encoding[m][Prefix(chars, m)] \o Utf8(chars[m + 1])
<1>1. /\ n \in Nat /\ m \in 0 .. n /\ m + 1 \in 0 .. n /\ m + 1 # 0 /\ (m + 1) - 1 = m
      /\ m \in 0 .. MaxCharacters /\ m + 1 \in 0 .. MaxCharacters /\ m \in 0 .. m + 1
      /\ m + 1 \in 1 .. m + 1
  BY TextAssumption
<1>2. /\ Prefix(chars, m) \in [1 .. m -> Characters]
      /\ Prefix(chars, m + 1) \in [1 .. m + 1 -> Characters]
      /\ Prefix(chars, m + 1)[m + 1] = chars[m + 1]
      /\ Prefix(Prefix(chars, m + 1), m) = Prefix(chars, m)
  BY <1>1, PrefixType
<1>3. Encoding[m][Prefix(chars, m)] \in Seq(Letter)
  BY <1>1, <1>2, EncodingType
<1> DEFINE p == Prefix(chars, m + 1)
<1>4. Encoding[m + 1][p] = Encoding[(m + 1) - 1][Prefix(p, (m + 1) - 1)] \o Utf8(p[m + 1])
  <2>1. p \in [1 .. m + 1 -> Characters]
    BY <1>2
  <2> HIDE DEF p
  <2> QED BY <1>1, <2>1, EncodingDef
<1> QED BY <1>1, <1>2, <1>3, <1>4

\* The sequence b begins with the sequence a.
IsBegin(a, b) == Len(a) <= Len(b) /\ \A h \in 1 .. Len(a) : b[h] = a[h]

LEMMA EncodingBegins ==
    ASSUME NEW n \in 0 .. MaxCharacters, NEW chars \in [1 .. n -> Characters], NEW m \in 0 .. n
    PROVE  IsBegin(Encoding[m][Prefix(chars, m)], Encoding[n][chars])
<1> DEFINE e(k) == Encoding[k][Prefix(chars, k)]
           T == {k \in m .. n : ~ IsBegin(e(m), e(k))}
<1>1. n \in Nat /\ m \in Nat /\ m <= n /\ n \in 0 .. n
  BY TextAssumption
<1>2. e(n) = Encoding[n][chars]
  BY <1>1, PrefixType
<1>3. n \in m .. n
  BY <1>1
<1> SUFFICES ASSUME T # {} PROVE FALSE
  <2> HIDE DEF e
  <2> QED BY <1>2, <1>3 DEF e
<1>4. PICK k \in T : \A h \in T : k <= h
  <2>1. T \subseteq Nat
    BY <1>1
  <2> HIDE DEF T
  <2> QED BY <2>1, LeastElement
<1>5. k \in m .. n /\ ~ IsBegin(e(m), e(k))
  OBVIOUS
<1>6. k \in 0 .. n /\ m \in 0 .. MaxCharacters /\ k \in 0 .. MaxCharacters
  BY <1>1, <1>5, TextAssumption
<1>7. e(m) \in Seq(Letter) /\ Len(e(m)) \in Nat
  <2>1. Prefix(chars, m) \in [1 .. m -> Characters]
    BY <1>1, PrefixType
  <2>2. e(m) \in Seq(Letter)
    BY <1>6, <2>1, EncodingType
  <2> HIDE DEF e
  <2> QED BY <2>2, LenProperties
<1>8. k # m
  <2> SUFFICES ASSUME k = m PROVE FALSE
    OBVIOUS
  <2>1. IsBegin(e(m), e(m))
    <3> HIDE DEF e
    <3> QED BY <1>7 DEF IsBegin
  <2> QED BY <1>5, <2>1
<1>9. k - 1 \in m .. n /\ k - 1 \notin T /\ k - 1 \in 0 .. n - 1 /\ (k - 1) + 1 = k
  BY <1>1, <1>4, <1>5, <1>8
<1>10. IsBegin(e(m), e(k - 1))
  BY <1>9
<1>11. e(k - 1) \in Seq(Letter) /\ e((k - 1) + 1) = e(k - 1) \o Utf8(chars[(k - 1) + 1])
  BY <1>9, EncodingGrows
<1>12. Utf8(chars[k]) \in Seq(Letter)
  BY <1>6, <1>8, <1>1, <1>9, Utf8Type
<1> DEFINE a == e(m)
           b == e(k - 1)
           u == Utf8(chars[k])
<1>13. a \in Seq(Letter) /\ b \in Seq(Letter) /\ u \in Seq(Letter) /\ e(k) = b \o u /\ IsBegin(a, b)
  BY <1>7, <1>9, <1>10, <1>11, <1>12
<1>14. ~ IsBegin(a, e(k))
  BY <1>5
<1> HIDE DEF a, b, u, e, T
<1>15. /\ Len(a) \in Nat /\ Len(b) \in Nat /\ Len(u) \in Nat /\ Len(e(k)) = Len(b) + Len(u)
       /\ \A h \in 1 .. Len(b) + Len(u) : e(k)[h] = IF h <= Len(b) THEN b[h] ELSE u[h - Len(b)]
  BY <1>13, LenProperties, ConcatProperties
<1>16. Len(a) <= Len(e(k)) /\ \A h \in 1 .. Len(a) : e(k)[h] = a[h]
  BY <1>13, <1>15 DEF IsBegin
<1> QED BY <1>14, <1>16 DEF IsBegin

\* Before the first character nothing was written, and that is right.
LEMMA CarriedBegins ==
    ASSUME NEW n \in 0 .. MaxCharacters, NEW chars \in [1 .. n -> Characters]
    PROVE  Carried(chars, Encoding[n][chars], 0, << >>)
<1>1. chars \in Seq(Characters) /\ Len(chars) = n
  <2>1. n \in Nat
    BY TextAssumption
  <2>2. chars \in Seq(Characters)
    BY <2>1, SeqDef
  <2> QED BY <2>1, <2>2
<1>2. Len(<< >>) = 0 /\ 0 <= n /\ 0 \in 0 .. n /\ 0 \in 0 .. MaxCharacters /\ n \in Nat
  BY EmptySeq, TextAssumption
<1>3. Prefix(chars, 0) \in [1 .. 0 -> Characters]
  BY <1>2, PrefixType
<1>4. Encoding[0][Prefix(chars, 0)] = << >>
  BY <1>2, <1>3, EncodingDef
<1> QED BY <1>1, <1>2, <1>4 DEF Carried

\* The bytes of the next character lie at the position reached.
LEMMA CarriedNext ==
    ASSUME NEW chars, NEW text \in Seq(Letter), NEW last, NEW bytes \in Seq(Byte),
           Carried(chars, text, last, bytes), Len(bytes) < Len(chars),
           NEW byte, byte = UnicodeToCp1252(chars[Len(bytes) + 1])
    PROVE  LET u == Utf8(chars[Len(bytes) + 1])
           IN  /\ chars[Len(bytes) + 1] \in Characters
               /\ last + Len(u) <= Len(text)
               /\ \A h \in 1 .. Len(u) : text[last + h] = u[h]
               /\ Carried(chars, text, last + Len(u), Append(bytes, byte))
<1> DEFINE n == Len(chars)
           m == Len(bytes)
           u == Utf8(chars[m + 1])
           e == Encoding[m][Prefix(chars, m)]
           f == Encoding[m + 1][Prefix(chars, m + 1)]
<1>1. /\ n \in 0 .. MaxCharacters /\ chars \in [1 .. n -> Characters]
      /\ text = Encoding[n][chars] /\ m <= n /\ last = Len(e)
      /\ \A k \in 1 .. m : bytes[k] = UnicodeToCp1252(chars[k])
  BY DEF Carried
<1>2. m \in Nat /\ n \in Nat /\ m \in 0 .. n - 1 /\ m + 1 \in 0 .. n /\ m + 1 \in 1 .. n
  BY <1>1, LenProperties, TextAssumption
<1>3. chars[m + 1] \in Characters
  BY <1>1, <1>2
<1>4. u \in Seq(Letter) /\ Len(u) \in 1 .. 4 /\ UnicodeToCp1252(chars[m + 1]) \in Byte
  BY <1>3, Utf8Type, CodeType, CharacterRange
<1>5. e \in Seq(Letter) /\ f = e \o u
  BY <1>1, <1>2, EncodingGrows
<1>6. IsBegin(f, text)
  BY <1>1, <1>2, EncodingBegins
<1>7. m + 1 <= n /\ Len(bytes) = m
  BY <1>2
<1> HIDE DEF u, e, f
<1>8. /\ Len(e) \in Nat /\ Len(f) = Len(e) + Len(u) /\ Len(u) \in Nat
      /\ \A h \in 1 .. Len(e) + Len(u) : f[h] = IF h <= Len(e) THEN e[h] ELSE u[h - Len(e)]
  BY <1>4, <1>5, LenProperties, ConcatProperties
<1>9. last + Len(u) <= Len(text)
  BY <1>1, <1>6, <1>8 DEF IsBegin
<1>10. \A h \in 1 .. Len(u) : text[last + h] = u[h]
  <2> SUFFICES ASSUME NEW h \in 1 .. Len(u) PROVE text[last + h] = u[h]
    OBVIOUS
  <2>1. last + h \in 1 .. Len(f) /\ ~ (last + h <= Len(e)) /\ (last + h) - Len(e) = h
    BY <1>1, <1>8
  <2> QED BY <1>6, <1>8, <2>1 DEF IsBegin
<1> DEFINE out == Append(bytes, byte)
<1>11. /\ Len(out) = m + 1 /\ out[m + 1] = byte
       /\ \A k \in 1 .. m : out[k] = bytes[k]
  BY <1>4, AppendProperties
<1> HIDE DEF out
<1>12. \A k \in 1 .. Len(out) : out[k] = UnicodeToCp1252(chars[k])
  BY <1>1, <1>2, <1>11
<1>13. Carried(chars, text, last + Len(u), out)
  <2>1. last + Len(u) = Len(Encoding[Len(out)][Prefix(chars, Len(out))])
    BY <1>1, <1>8, <1>11 DEF f
  <2> QED BY <1>1, <1>7, <1>11, <1>12, <2>1 DEF Carried
<1> QED BY <1>3, <1>9, <1>10, <1>13 DEF u, out

\* There is a next character exactly as long as there are bytes left.
LEMMA CarriedEnds ==
    ASSUME NEW chars, NEW text \in Seq(Letter), NEW last, NEW bytes \in Seq(Byte),
           Carried(chars, text, last, bytes)
    PROVE  last = Len(text) <=> Len(bytes) = Len(chars)
<1> DEFINE n == Len(chars)
<1>1. /\ n \in 0 .. MaxCharacters /\ chars \in [1 .. n -> Characters]
      /\ text = Encoding[n][chars] /\ Len(bytes) <= n
      /\ last = Len(Encoding[Len(bytes)][Prefix(chars, Len(bytes))])
  BY DEF Carried
<1>2. n \in Nat /\ Len(bytes) \in Nat
  BY <1>1, LenProperties, TextAssumption
<1>3. CASE Len(bytes) = n
  <2>1. n \in 0 .. n
    BY <1>2
  <2>2. Prefix(chars, n) = chars
    BY <1>1, <1>2, <2>1, PrefixType
  <2> QED BY <1>1, <1>3, <2>2
<1>4. CASE Len(bytes) # n
  <2> DEFINE u == Utf8(chars[Len(bytes) + 1])
  <2>1. chars[Len(bytes) + 1] \in Characters /\ last + Len(u) <= Len(text)
    <3>1. Len(bytes) < Len(chars)
      BY <1>1, <1>2, <1>4
    <3> QED BY <3>1, CarriedNext
  <2>2. Len(u) \in 1 .. 4 /\ last \in Nat
    <3>1. Len(bytes) \in 0 .. n - 1
      BY <1>1, <1>2, <1>4
    <3>2. Encoding[Len(bytes)][Prefix(chars, Len(bytes))] \in Seq(Letter)
      BY <1>1, <3>1, EncodingGrows
    <3> QED BY <1>1, <2>1, <3>2, Utf8Type, LenProperties
  <2>3. Len(text) \in Nat
    BY LenProperties
  <2>4. last # Len(text)
    <3>1. PICK d \in 1 .. 4 : d = Len(u)
      BY <2>2
    <3>2. last + d <= Len(text) /\ last \in Nat
      BY <2>1, <2>2, <3>1
    <3> QED BY ONLY <2>3, <3>2, d \in 1 .. 4
  <2>5. ~ (Len(bytes) = Len(chars))
    BY <1>4
  <2> QED BY <2>4, <2>5, Zenon
<1> QED BY <1>3, <1>4

-----------------------------------------------------------------------------
(* Where the loop stands before a character, its branches take exactly the  *)
(* bytes of that character and write the byte it has in Windows-1252.       *)
LEMMA CharacterRead ==
    ASSUME TextTypes, InLoop, characters # None, Carried(characters, input, pos, output)
    PROVE  LET c == characters[Len(output) + 1]
           IN  /\ Carried(characters, input, pos + SequenceLength,
                          Append(output, UnicodeToCp1252(c)))
               /\ SequenceLength > 1 => /\ IsSequence(SequenceLength)
                                        /\ Decoded(SequenceLength) = UnicodeToCp1252(c)
               /\ SequenceLength = 1 => At(0) = UnicodeToCp1252(c)
<1> DEFINE c == characters[Len(output) + 1]
           u == Utf8(c)
           n == Len(u)
<1>1. /\ input \in Seq(Letter) /\ output \in Seq(Byte) /\ pos \in Nat /\ Len(input) \in Nat
      /\ pos < Len(input)
  BY LenProperties DEF TextTypes, InLoop
<1>2. Len(output) < Len(characters)
  <2>1. Len(output) # Len(characters)
    BY <1>1, CarriedEnds
  <2>2. Len(output) <= Len(characters) /\ Len(characters) \in Nat
    BY TextAssumption DEF Carried
  <2>3. Len(output) \in Nat
    BY <1>1, LenProperties
  <2> QED BY <2>1, <2>2, <2>3
<1>3. /\ c \in Characters /\ pos + n <= Len(input)
      /\ \A h \in 1 .. n : input[pos + h] = u[h]
      /\ Carried(characters, input, pos + n, Append(output, UnicodeToCp1252(c)))
  BY <1>1, <1>2, CarriedNext
<1>4. /\ n \in 1 .. 4 /\ Announced(u[1]) = n
      /\ \A k \in 2 .. n : IsContinuation(u[k])
      /\ Read(u) = UnicodeToCp1252(c)
  BY <1>3, Utf8Type
<1> HIDE DEF c, u, n
<1>5. \A k \in 0 .. n - 1 : At(k) = u[k + 1]
  <2> SUFFICES ASSUME NEW k \in 0 .. n - 1 PROVE At(k) = u[k + 1]
    OBVIOUS
  <2>1. k \in Nat /\ pos + k < Len(input) /\ k + 1 \in 1 .. n /\ pos + k + 1 = pos + (k + 1)
    BY <1>1, <1>3, <1>4
  <2>2. At(k) = input[pos + k + 1]
    BY <2>1, AtFacts
  <2> QED BY <1>3, <2>1, <2>2
<1>6. Announced(At(0)) = n /\ SequenceLength = n
  <2>1. At(0) = u[1]
    BY <1>4, <1>5
  <2> QED BY <1>1, <1>3, <1>4, <2>1 DEF SequenceLength
<1>7. IsSequence(n)
  <2> SUFFICES ASSUME NEW k \in 1 .. n - 1 PROVE IsContinuation(At(k))
    BY DEF IsSequence
  <2>1. k \in 0 .. n - 1 /\ k + 1 \in 2 .. n
    BY <1>4
  <2> QED BY <1>4, <1>5, <2>1
<1>8. n = 1 => At(0) = UnicodeToCp1252(c)
  BY <1>4, <1>5 DEF Read, n
<1>9. n > 1 => Decoded(n) = UnicodeToCp1252(c)
  <2>1. CASE n = 2
    <3>1. At(0) = u[1] /\ At(1) = u[2]
      BY <1>5, <2>1
    <3> QED BY <1>4, <2>1, <3>1, SMT DEF Read, Decoded, n
  <2>2. CASE n = 3
    <3>1. At(0) = u[1] /\ At(1) = u[2] /\ At(2) = u[3]
      BY <1>5, <2>2
    <3> QED BY <1>4, <2>2, <3>1, SMT DEF Read, Decoded, n
  <2>3. CASE n = 4
    BY <1>4, <2>3, SMT DEF Read, Decoded, n
  <2> QED BY <1>4, <2>1, <2>2, <2>3
<1> QED BY <1>3, <1>6, <1>7, <1>8, <1>9 DEF c

-----------------------------------------------------------------------------
(* The invariant holds when a conversion begins, and every step keeps it.   *)
LEMMA EnterInv ==
    ASSUME NEW text \in Seq(Letter), Convert(text),
           \/ characters = None
           \/ characters \in Seq(Characters) /\ Carried(characters, text, 0, << >>)
    PROVE  TextInv
<1>1. input = text /\ phase = "called" /\ pos = 0 /\ output = << >> /\ reach = 0
  BY DEF Convert
<1>2. TextTypes
  BY <1>1, EmptySeq, LenProperties DEF TextTypes
<1>3. Phases
  BY <1>1 DEF Phases
<1>4. Converting
  BY <1>1, CountedBegins DEF Converting
<1> QED BY <1>2, <1>3, <1>4 DEF TextInv

LEMMA TextInitInv == TextInit => TextInv
<1> SUFFICES ASSUME TextInit PROVE TextInv
  OBVIOUS
<1>1. Texts \subseteq Seq(Letter)
  BY TextAssumption DEF Letter
<1>2. ASSUME characters = None, NEW text \in Texts, Convert(text) PROVE TextInv
  <2>1. text \in Seq(Letter)
    BY <1>1
  <2> QED BY <1>1, <1>2, <2>1, EnterInv
<1>3. ASSUME NEW n \in 0 .. MaxCharacters, characters \in [1 .. n -> Characters],
             Convert(Encoding[n][characters])
      PROVE  TextInv
  <2>1. characters \in Seq(Characters)
    <3>1. n \in Nat
      BY TextAssumption
    <3> QED BY <1>3, <3>1, SeqDef
  <2>2. Encoding[n][characters] \in Seq(Letter)
    BY <1>3, EncodingType
  <2>3. Carried(characters, Encoding[n][characters], 0, << >>)
    BY <1>3, CarriedBegins
  <2> QED BY <1>1, <1>3, <2>1, <2>2, <2>3, EnterInv
<1> QED BY <1>2, <1>3 DEF TextInit

LEMMA AllocateStep == TextInv /\ Allocate => TextInv'
<1> SUFFICES ASSUME TextInv, Allocate PROVE TextInv'
  OBVIOUS
<1>1. /\ phase' \in {"loop", "failed"}
      /\ UNCHANGED <<characters, input, pos, output, reach>>
  BY DEF Allocate
<1> QED BY <1>1 DEF TextInv, TextTypes, Phases, Converting

LEMMA FinishStep == TextInv /\ Finish => TextInv'
<1> SUFFICES ASSUME TextInv, Finish PROVE TextInv'
  OBVIOUS
<1>1. /\ phase' = "done" /\ pos >= Len(input)
      /\ UNCHANGED <<characters, input, pos, output, reach>>
  BY DEF Finish
<1>2. pos = Len(input)
  BY <1>1, LenProperties DEF TextInv, TextTypes
<1> QED BY <1>1, <1>2 DEF TextInv, TextTypes, Phases, Converting

LEMMA DecodeSequenceStep == TextInv /\ DecodeSequence => TextInv'
<1> SUFFICES ASSUME TextInv, DecodeSequence PROVE TextInv'
  OBVIOUS
<1> DEFINE n == SequenceLength
           byte == Decoded(n)
<1>1. /\ TextTypes /\ InLoop /\ n > 1 /\ IsSequence(n)
      /\ output' = Append(output, byte) /\ pos' = pos + n
      /\ reach' = (IF pos + n > reach THEN pos + n ELSE reach)
      /\ phase' = phase /\ characters' = characters /\ input' = input
  BY DEF DecodeSequence, Consume, TextInv
<1>2. /\ n \in 2 .. 4 /\ pos + n <= Len(input) /\ n = Announced(input[pos + 1])
      /\ FormsSequence(input, pos + 1)
      /\ \A k \in pos + 2 .. pos + n : ~ FormsSequence(input, k)
  BY <1>1, LengthFacts
<1>3. byte \in Byte
  BY <1>1, <1>2, DecodedType
<1>4. characters # None => Carried(characters, input, pos + n, Append(output, byte))
  BY <1>1, CharacterRead DEF TextInv, Converting
<1>5. /\ pos \in Nat /\ Len(input) \in Nat /\ output \in Seq(Byte) /\ phase = "loop"
      /\ reach \in 0 .. Len(input) + 1
  BY <1>1, LenProperties DEF TextTypes, InLoop
<1> HIDE DEF n, byte
<1>6. Counted(input, pos + n, Append(output, byte)) /\ Copied(input, pos + n, Append(output, byte))
  BY <1>2, <1>3, <1>5, CountedJumps DEF TextInv, Converting
<1>7. Converting'
  BY <1>1, <1>4, <1>6 DEF Converting
<1>8. TextTypes'
  BY <1>1, <1>2, <1>3, <1>5, AppendProperties DEF TextTypes
<1>9. Phases'
  BY <1>1, <1>5 DEF Phases
<1> QED BY <1>7, <1>8, <1>9 DEF TextInv

LEMMA PassByteStep == TextInv /\ PassByte => TextInv'
<1> SUFFICES ASSUME TextInv, PassByte PROVE TextInv'
  OBVIOUS
<1> DEFINE n == SequenceLength
<1>1. /\ TextTypes /\ InLoop
      /\ n = 1 \/ ~IsSequence(n)
      /\ output' = Append(output, At(0)) /\ pos' = pos + 1
      /\ reach' = (IF pos + n > reach THEN pos + n ELSE reach)
      /\ phase' = phase /\ characters' = characters /\ input' = input
  BY DEF PassByte, Consume, TextInv
<1>2. /\ n \in 1 .. 4 /\ pos + n <= Len(input) /\ ~ FormsSequence(input, pos + 1)
  BY <1>1, LengthFacts
<1>3. /\ pos \in Nat /\ Len(input) \in Nat /\ output \in Seq(Byte) /\ phase = "loop"
      /\ reach \in 0 .. Len(input) + 1 /\ pos + 1 \in 0 .. Len(input)
  BY <1>1, LenProperties DEF TextTypes, InLoop
<1>4. At(0) = input[pos + 1] /\ At(0) \in Byte
  BY <1>1, <1>3, AtFacts
<1>5. characters # None => Carried(characters, input, pos + 1, Append(output, At(0)))
  <2> SUFFICES ASSUME characters # None
               PROVE  Carried(characters, input, pos + 1, Append(output, At(0)))
    OBVIOUS
  <2>1. Carried(characters, input, pos, output)
    BY DEF TextInv, Converting
  <2>2. n = 1
    BY <1>1, <1>2, <2>1, CharacterRead
  <2> QED BY <1>1, <2>1, <2>2, CharacterRead
<1> HIDE DEF n
<1>6. /\ Counted(input, pos + 1, Append(output, At(0)))
      /\ Copied(input, pos + 1, Append(output, At(0)))
  BY <1>2, <1>3, <1>4, CountedMoves DEF TextInv, Converting
<1>7. Converting'
  BY <1>1, <1>5, <1>6 DEF Converting
<1>8. TextTypes'
  BY <1>1, <1>2, <1>3, <1>4, AppendProperties DEF TextTypes
<1>9. Phases'
  BY <1>1, <1>3 DEF Phases
<1> QED BY <1>7, <1>8, <1>9 DEF TextInv

LEMMA ResendStep == TextInv /\ Resend => TextInv'
<1> SUFFICES ASSUME TextInv, Resend PROVE TextInv'
  OBVIOUS
<1>1. /\ phase' = "called" /\ characters' = None /\ input' = CString(output)
      /\ pos' = 0 /\ output' = << >> /\ reach' = 0
  BY DEF Resend
<1>2. CString(output) \in Seq(Letter)
  BY CStringType DEF TextInv, TextTypes
<1>3. TextTypes'
  BY <1>1, <1>2, EmptySeq, LenProperties DEF TextTypes
<1>4. Phases'
  BY <1>1 DEF Phases
<1>5. Converting'
  BY <1>1, CountedBegins DEF Converting
<1> QED BY <1>3, <1>4, <1>5 DEF TextInv

LEMMA TextInvHolds == TextSpec => []TextInv
<1>1. TextInv /\ [TextNext]_textVars => TextInv'
  <2> SUFFICES ASSUME TextInv, [TextNext]_textVars PROVE TextInv'
    OBVIOUS
  <2>1. CASE TextNext
    BY <2>1, AllocateStep, DecodeSequenceStep, PassByteStep, FinishStep, ResendStep
    DEF TextNext, Step
  <2>2. CASE UNCHANGED textVars
    BY <2>2 DEF textVars, TextInv, TextTypes, Phases, Converting
  <2> QED BY <2>1, <2>2
<1> QED BY <1>1, TextInitInv, PTL DEF TextSpec

-----------------------------------------------------------------------------
(* What the invariant says of a finished conversion.                        *)
LEMMA InvFacts ==
    ASSUME TextInv
    PROVE  /\ pos \in Nat /\ Len(input) \in Nat /\ Len(output) \in Nat
           /\ pos <= Len(input) /\ Len(output) <= pos
<1>1. pos \in Nat /\ Len(input) \in Nat /\ Len(output) \in Nat /\ pos <= Len(input)
  BY LenProperties DEF TextInv, TextTypes
<1> DEFINE c == Cardinality(Behind(input, Starts(input, pos)))
<1>2. c \in Nat /\ Len(output) = pos - c
  BY <1>1, StartsFinite DEF TextInv, Converting, Counted
<1> HIDE DEF c
<1> QED BY <1>1, <1>2

(* The block of a conversion is never exceeded and nothing behind the       *)
(* terminator is read, for every text (the loop of normalize_to_cp1252).    *)
THEOREM ConversionStaysInside == TextSpec => []StaysInside
<1>1. TextInv => StaysInside
  <2> SUFFICES ASSUME TextInv PROVE StaysInside
    OBVIOUS
  <2>1. TextTypeOK
    BY DEF TextInv, TextTypes, TextTypeOK, Letter, Byte
  <2>2. Len(output) <= pos /\ reach <= Len(input) + 1
    BY InvFacts DEF TextInv, TextTypes
  <2> QED BY <2>1, <2>2 DEF StaysInside
<1> QED BY <1>1, TextInvHolds, PTL

\* The byte written for a character is the one that means it.
LEMMA MeaningOf ==
    ASSUME NEW cp \in Characters
    PROVE  IF \E byte \in 1 .. 255 : Meaning(byte) = cp
           THEN Meaning(UnicodeToCp1252(cp)) = cp
           ELSE UnicodeToCp1252(cp) = 63
<1>1. cp \in Nat /\ 0 < cp
  BY CharacterRange
<1> DEFINE b == UnicodeToCp1252(cp)
<1>2. CASE cp <= 127 \/ cp \in 160 .. 255
  <2>1. b = cp /\ Meaning(b) = cp /\ b \in Letter
    BY <1>1, <1>2, ByteFacts DEF UnicodeToCp1252, Meaning
  <2>2. \E byte \in 1 .. 255 : Meaning(byte) = cp
    <3> HIDE DEF b
    <3> QED BY <2>1 DEF Letter
  <2> QED BY <2>1, <2>2
<1>3. CASE ~ (cp <= 127 \/ cp \in 160 .. 255)
  <2>1. CASE \E w \in 1 .. 32 : Cp1252UnicodeExtras[w] = cp
    <3> DEFINE w == CHOOSE k \in 1 .. 32 : Cp1252UnicodeExtras[k] = cp
    <3>1. w \in 1 .. 32 /\ Cp1252UnicodeExtras[w] = cp
      BY <2>1
    <3>2. b = 127 + w
      BY <1>3, <2>1 DEF UnicodeToCp1252
    <3> HIDE DEF w, b
    <3>3. b \in 128 .. 159 /\ b - 127 = w
      BY <3>1, <3>2
    <3>4. Meaning(b) = cp
      BY <3>1, <3>3 DEF Meaning
    <3>5. \E byte \in 1 .. 255 : Meaning(byte) = cp
      <4>1. b \in Letter
        BY <3>3, ByteFacts
      <4> QED BY <3>4, <4>1 DEF Letter
    <3> QED BY <3>4, <3>5 DEF b
  <2>2. CASE ~ \E w \in 1 .. 32 : Cp1252UnicodeExtras[w] = cp
    <3>1. b = 63
      BY <1>3, <2>2 DEF UnicodeToCp1252
    <3>2. ASSUME NEW byte \in Letter, Meaning(byte) = cp PROVE FALSE
      <4>1. byte \in Int /\ 1 <= byte /\ byte <= 255
        BY ByteFacts
      <4>2. CASE byte \in 128 .. 159
        <5>1. byte - 127 \in 1 .. 32 /\ Cp1252UnicodeExtras[byte - 127] = cp
          BY <3>2, <4>2 DEF Meaning
        <5> QED BY <2>2, <5>1
      <4>3. CASE byte \notin 128 .. 159
        <5>1. byte = cp
          BY <3>2, <4>3 DEF Meaning
        <5> QED BY <1>3, <4>1, <4>3, <5>1
      <4> QED BY <4>2, <4>3
    <3>3. ~ \E byte \in 1 .. 255 : Meaning(byte) = cp
      BY <3>2 DEF Letter
    <3> QED BY <3>1, <3>3
  <2> QED BY <2>1, <2>2
<1> QED BY <1>2, <1>3

(* Every character of a text written in UTF-8 arrives as the one byte that  *)
(* means it in Windows-1252, or as a question mark where none does.         *)
THEOREM EveryCharacterArrives == TextSpec => []CharactersArrive
<1>1. TextInv => CharactersArrive
  <2> SUFFICES ASSUME TextInv, phase = "done", characters # None
               PROVE  /\ Len(output) = Len(characters)
                      /\ \A k \in 1 .. Len(output) :
                           IF \E byte \in 1 .. 255 : Meaning(byte) = characters[k]
                           THEN Meaning(output[k]) = characters[k]
                           ELSE output[k] = 63
    BY DEF CharactersArrive
  <2>1. /\ input \in Seq(Letter) /\ output \in Seq(Byte) /\ pos = Len(input)
        /\ Carried(characters, input, pos, output)
    BY DEF TextInv, TextTypes, Phases, Converting
  <2>2. Len(output) = Len(characters)
    BY <2>1, CarriedEnds
  <2>3. \A k \in 1 .. Len(output) :
           characters[k] \in Characters /\ output[k] = UnicodeToCp1252(characters[k])
    BY <2>1, <2>2 DEF Carried
  <2>4. ASSUME NEW k \in 1 .. Len(output)
        PROVE  IF \E byte \in 1 .. 255 : Meaning(byte) = characters[k]
               THEN Meaning(output[k]) = characters[k]
               ELSE output[k] = 63
    <3> DEFINE cp == characters[k]
    <3>1. cp \in Characters /\ output[k] = UnicodeToCp1252(cp)
      BY <2>3
    <3> HIDE DEF cp
    <3>2. IF \E byte \in 1 .. 255 : Meaning(byte) = cp
          THEN Meaning(output[k]) = cp
          ELSE output[k] = 63
      BY <3>1, MeaningOf
    <3> QED BY <3>2 DEF cp
  <2> QED BY <2>2, <2>4
<1> QED BY <1>1, TextInvHolds, PTL

(* The loop finds every sequence of a text and no other: what the bytes     *)
(* written are fewer is what the sequences hold behind their first bytes.   *)
THEOREM EverySequenceFound == TextSpec => []FindsEverySequence
<1>1. TextInv => FindsEverySequence
  <2> SUFFICES ASSUME TextInv, phase = "done"
               PROVE  Len(output) = Len(input) - Shrinkage(input)
    BY DEF FindsEverySequence
  <2>1. pos = Len(input) /\ Counted(input, pos, output) /\ Len(input) \in Nat
    BY InvFacts DEF TextInv, Phases, Converting
  <2>2. Shrinkage(input) = Cardinality(Behind(input, Starts(input, Len(input))))
    BY <2>1, ShrinkageIs DEF Starts
  <2> QED BY <2>1, <2>2 DEF Counted
<1> QED BY <1>1, TextInvHolds, PTL

(* What was converted and is converted again stays or becomes shorter: so   *)
(* a text that goes back and forth between two programs settles.            *)
THEOREM ConversionSettles == TextSpec => []ResendingSettles
<1>1. TextInv => ResendingSettles
  <2> SUFFICES ASSUME TextInv, phase = "done" PROVE output = input \/ Len(output) < Len(input)
    BY DEF ResendingSettles
  <2>1. /\ pos = Len(input) /\ Copied(input, pos, output) /\ Len(output) <= pos
        /\ Len(input) \in Nat /\ Len(output) \in Nat
        /\ input \in Seq(Letter) /\ output \in Seq(Byte)
    BY InvFacts DEF TextInv, TextTypes, Phases, Converting
  <2>2. CASE Len(output) = Len(input)
    <3>1. input \in Seq(Byte)
      BY <2>1, SeqMonotonic DEF Letter, Byte
    <3>2. \A k \in 1 .. Len(output) : output[k] = input[k]
      BY <2>1, <2>2 DEF Copied
    <3>3. output = input
      BY <2>1, <2>2, <3>1, <3>2, SeqEqual
    <3> QED BY <3>3
  <2> QED BY <2>1, <2>2
<1> QED BY <1>1, TextInvHolds, PTL
=============================================================================
