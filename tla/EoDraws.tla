------------------------------ MODULE EoDraws ------------------------------
(***************************************************************************)
(* A program in which everything that draws random numbers takes turns on  *)
(* the generator's two static words: the generator's own functions, the    *)
(* generated start of a sequence and its split into two bytes              *)
(* (sequencer.c), swap multiples and challenges (encrypt.c, encrypt.h).    *)
(***************************************************************************)
EXTENDS EoSequence, EoRng

CONSTANTS
    Seeds,       \* what eo_srand is called with
    Ranges,      \* the pairs eo_rand_range is called with
    Starts,      \* the starts that are split
    Challenges,  \* the challenges a peer asks to be hashed
    ChallengeLimit   \* 1000000

(* Below base 7 the digits of the split would leave gaps.  Every digit is a *)
(* word, and so are the ends of the swap multiples.                         *)
ASSUME DrawsAssumption ==
    /\ CharMax >= 9 /\ CharMax < RandSize /\ RandSize > 13
    /\ Seeds \subseteq Word
    /\ Ranges \subseteq Word \X Word
    /\ Starts \subseteq Int
    /\ Challenges \subseteq Nat
    /\ ChallengeLimit \in Nat \ {0}
    /\ None \notin Int

VARIABLES
    words,   \* the two static words of the generator
    last     \* the call made last: [op, args, result, value]

drawVars == <<words, last>>

Call(op, args, result, value) ==
    last' = [op |-> op, args |-> args, result |-> result, value |-> value]

DrawInit ==
    /\ words = Unseeded
    /\ last = [op |-> "none", args |-> << >>, result |-> "EO_SUCCESS", value |-> None]

-----------------------------------------------------------------------------
Srand(seed) ==
    /\ words' = Seeded(seed)
    /\ Call("srand", <<seed>>, "EO_SUCCESS", None)

Rand ==
    /\ words' = Advanced(words)
    /\ Call("rand", << >>, "EO_SUCCESS", Drawn(words'))

\* A function that returns what eo_rand_range gives it.
DrawFrom(op, min, max) ==
    LET draw == RandRange(words, min, max)
    IN /\ words' = draw.words
       /\ Call(op, <<min, max>>, "EO_SUCCESS", draw.value)

DrawRange(min, max)      == DrawFrom("range", min, max)
GenerateStart        == DrawFrom("start", 0, CharMax - 9)
GenerateSwapMultiple == DrawFrom("swap", 6, 12)

GenerateChallenge ==
    /\ words' = Advanced(words)
    /\ Call("challenge", << >>, "EO_SUCCESS", Drawn(words') % ChallengeLimit)

(* A split that cannot be made returns before it draws; a draw from its     *)
(* empty range leaves the words alone as well.                              *)
Split(op, start, draw, ret) ==
    /\ words' = draw.words
    /\ Call(op, <<start>>, ret.result, ret.bytes)

SplitInit(start) ==
    LET draw == RandRange(words, InitLow(start), InitHigh(start))
    IN Split("init", start, draw, InitBytes(start, draw.value))
SplitPing(start) ==
    LET draw == RandRange(words, PingLow(start), PingHigh(start))
    IN Split("ping", start, draw, PingBytes(start, draw.value))

\* The remainder of C, which has the sign of the dividend.
TruncMod(a, b) == a - b * TruncDiv(a, b)

\* The distance of the challenge from the magic number taken the other way round.
VerificationHash_Reversed(challenge) ==
    LET c == challenge + 1
    IN 110905 + (TruncMod(c, 9) + 1)
                 * TruncMod(c - 11092004, (TruncMod(c, 11) + 1) * 119) * 119
              + TruncMod(c, 2004)

\* eo_server_verification_hash
VerificationHash(challenge) ==
    LET c == challenge + 1
    IN 110905 + (TruncMod(c, 9) + 1)
                 * TruncMod(11092004 - c, (TruncMod(c, 11) + 1) * 119) * 119
              + TruncMod(c, 2004)

Answer(challenge) ==
    /\ Call("hash", <<challenge>>, "EO_SUCCESS", VerificationHash(challenge))
    /\ UNCHANGED words

\* The remainder by a range of 0 ended the program.
Crashed == last.op = "range" /\ last.value = None

DrawNext ==
    /\ ~Crashed
    /\ \/ \E seed \in Seeds : Srand(seed)
       \/ Rand
       \/ \E range \in Ranges : DrawRange(range[1], range[2])
       \/ GenerateStart
       \/ GenerateSwapMultiple
       \/ GenerateChallenge
       \/ \E start \in Starts : SplitInit(start) \/ SplitPing(start)
       \/ \E challenge \in Challenges : Answer(challenge)

DrawSpec == DrawInit /\ [][DrawNext]_drawVars

-----------------------------------------------------------------------------
DrawOps  == {"range", "start", "swap"}
SplitOps == {"init", "ping"}
Plain    == {"none", "srand", "rand", "challenge", "hash"}

\* The words are words, and the bytes of a split are digits.
DrawTypeOK ==
    /\ words \in Words
    /\ last.op \in DrawOps \cup SplitOps \cup Plain
    /\ last.op \in SplitOps => last.value \in Seq(0 .. MaxDigit)
    /\ last.op \in DrawOps \cup {"rand", "challenge"} => last.value \in Word \cup {None}

(* Every number drawn from a range lies in it, at both ends, for every      *)
(* range a word can express but the one of all words; whoever draws in      *)
(* between (eo_rand_range, rng.c:38).  So a generated swap multiple is never*)
(* 0, by which eo_swap_multiples (encrypt.c:17) would divide.               *)
WithinRange ==
    last.op \in DrawOps /\ last.args[1] <= last.args[2] =>
        \/ last.args = <<0, RandSize - 1>>
        \/ last.value # None /\ last.value >= last.args[1] /\ last.value <= last.args[2]

(* Together the words step like one double word that is multiplied by       *)
(* HighFactor * 2^32 + LowFactor and incremented: the products of single    *)
(* words lose nothing, and no caller advances the generator twice or puts   *)
(* it back.  Only where the increment carries into the high word does       *)
(* eo_rand (rng.c:12) differ.                                               *)
DoubleWord(w) == w.high * RandSize + w.low
Stepped(n) == (n * (HighFactor * RandSize + LowFactor) + 1) % (RandSize * RandSize)

DoubleWordStep ==
    LET carries == (words.low * LowFactor) % RandSize = RandSize - 1
    IN \/ words' = words
       \/ last'.op = "srand"
       \/ Stepped(DoubleWord(words)) =
            IF carries THEN (DoubleWord(words') + RandSize) % (RandSize * RandSize)
                       ELSE DoubleWord(words')

StepsAreDoubleWords == [][DoubleWordStep]_drawVars

\* The starts two digits can express in each way.
Expressible(kind) ==
    IF kind = "init" THEN -13 .. 8 * MaxDigit - 13 ELSE -MaxDigit .. MaxDigit

(* The random draw never decides whether a start can be split: those that   *)
(* have a split always get one, the others never do.                        *)
LuckDecidesNothing ==
    last.op \in SplitOps =>
        (last.result = "EO_SUCCESS" <=> last.args[1] \in Expressible(last.op))

\* The peer computes the start it was split from, whatever was drawn.
PeerRecoversStart ==
    last.op \in SplitOps /\ last.result = "EO_SUCCESS" =>
        last.args[1] = IF last.op = "init"
                       THEN StartFromInit(last.value[1], last.value[2])
                       ELSE StartFromPing(last.value[1], last.value[2])

(* The answer to a challenge is a positive number of at most three bytes    *)
(* (253^3) for all challenges up to the magic number of the formula, among  *)
(* them every challenge that eo_generate_server_verification_challenge      *)
(* gives.  Behind it the remainder is negative and so may the answer be.    *)
LastChallenge == 11092003
ThreeByteNumbers == 1 .. 253 * 253 * 253 - 1
AnswerFitsThree ==
    last.op = "hash" /\ last.args[1] <= LastChallenge =>
        last.value \in ThreeByteNumbers
=============================================================================
