------------------------------ MODULE MCReader ------------------------------
(* Small instances of EoReader.  The base is 9, so a byte is one of 0..11,  *)
(* 10 is padding and 11 the break byte.  The buffers draw on bytes of every *)
(* kind the functions tell apart: a zero, a mirrored byte, a plain digit,   *)
(* padding and the break byte.                                              *)
EXTENDS EoReader, SequencesExt

MaxBuffer == 4   \* longest buffer

MCBytes   == {0, 4, 10, 11}
MCInputs  == BoundedSeq(MCBytes, MaxBuffer)
MCLengths == 0 .. 3
=============================================================================
