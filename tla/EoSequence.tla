----------------------------- MODULE EoSequence -----------------------------
(***************************************************************************)
(* Packet sequence numbers, src/src/sequencer.c: a counter that wraps after*)
(* ten packets, and the two ways a start value is split into two bytes.    *)
(* Start values are far from the ends of int32_t, so that no sum overflows.*)
(***************************************************************************)
EXTENDS EoNumber

Sequencer == [start : Int, counter : 0 .. 9]

\* eo_sequencer_init
SequencerInit(start) == [start |-> start, counter |-> 0]

\* The counter runs into its end instead of wrapping.
SequencerNext_Saturates(s) ==
    [s EXCEPT !.counter = IF @ < 9 THEN @ + 1 ELSE 9]

\* eo_sequencer_next: the sequencer afterwards, and the value it gives.
SequencerNext(s) == [s EXCEPT !.counter = (@ + 1) % 10]
SequencerValue(s) == s.start + SequencerNext(s).counter

\* The starts eo_generate_sequence_start draws from.
GeneratedStarts == 0 .. CharMax - 9

-----------------------------------------------------------------------------
MaxDigit == CharMax - 1

\* Division of C, which rounds towards zero.
TruncDiv(a, b) == IF a < 0 THEN -((-a) \div b) ELSE a \div b

\* What is returned for the first byte drawn and the second derived from it.
SequenceBytes(low, high, seq1, seq2) ==
    IF high < low THEN [result |-> "EO_INVALID_SEQUENCE_RANGE", bytes |-> << >>]
    ELSE IF seq2 \notin 0 .. MaxDigit
         THEN [result |-> "EO_SEQUENCE_OUT_OF_RANGE", bytes |-> << >>]
         ELSE [result |-> "EO_SUCCESS", bytes |-> <<seq1, seq2>>]

(* eo_sequence_init_bytes draws seq1 from InitLow .. InitHigh.  The low end  *)
(* is rounded up, by adding 6 before the division.                          *)
InitLow_RoundsDown(start) ==
    LET q == TruncDiv(start - MaxDigit + 13, 7) IN IF q < 0 THEN 0 ELSE q
InitLow(start) ==
    LET q == TruncDiv(start - MaxDigit + 13 + 6, 7) IN IF q < 0 THEN 0 ELSE q
InitHigh(start) ==
    LET q == TruncDiv(start + 13, 7) IN IF q > MaxDigit THEN MaxDigit ELSE q

InitBytes(start, seq1) ==
    SequenceBytes(InitLow(start), InitHigh(start), seq1, start - seq1 * 7 + 13)

\* eo_sequence_start_from_init, and the same with the offset forgotten
StartFromInit_NoOffset(s1, s2) == s1 * 7 + s2
StartFromInit(s1, s2) == s1 * 7 + s2 - 13

\* eo_sequence_ping_bytes draws seq1 from PingLow .. PingHigh.
PingLow(start) == IF start < 0 THEN 0 ELSE start
PingHigh(start) == IF start > 0 THEN MaxDigit ELSE start + MaxDigit

PingBytes(start, seq1) ==
    SequenceBytes(PingLow(start), PingHigh(start), seq1, seq1 - start)

\* eo_sequence_start_from_ping, and the same the wrong way round
StartFromPing_Reversed(s1, s2) == s2 - s1
StartFromPing(s1, s2) == s1 - s2
=============================================================================
