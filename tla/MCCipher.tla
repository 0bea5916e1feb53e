------------------------------ MODULE MCCipher ------------------------------
(* Small instances of EoCipher.  The high bit is 4, so a byte is 0 .. 7 and  *)
(* 7 is the break byte; the multiples are 2 and 3, so runs of both kinds and *)
(* bytes in none of them occur.  All packets of up to four of the bytes      *)
(* below are tried, and longer ones whose weaves have several cycles.        *)
EXTENDS EoCipher

\* 0 keeps its high bit, 3 becomes the break byte, 6 is divisible by both.
MCBytes == {0, 3, 6, 7}

\* Bytes that start a packet, continued by a run, a lone multiple and a tail.
MCTail == <<2, 1, 6, 6, 0, 5, 3, 4, 4, 1, 7>>

MCInputs ==
    UNION {[1 .. n -> MCBytes] : n \in 0 .. 4}
        \cup {<<a, b>> \o SubSeq(MCTail, 1, n) :
                a \in {3, 6}, b \in {3, 5, 6}, n \in {3, 4, 5, 6, 7, 9, 11}}

MCMultiples == {2, 3}

MCPlans == {<<"encrypt", "decrypt">>, <<"encrypt", "encrypt">>}
=============================================================================
