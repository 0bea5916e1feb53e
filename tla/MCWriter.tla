------------------------------ MODULE MCWriter ------------------------------
(* Small instances of EoWriter.  The base is 9 (bytes 0..11, break byte     *)
(* 11).  SizeMax = 4 stops the buffer at four bytes, so a four-byte number  *)
(* fits once and overflows next time.  The numbers sit on both sides of     *)
(* each width's limit; the texts hold a mirrored byte, a break byte and a   *)
(* byte of the upper range, from characters of different UTF-8 widths.      *)
EXTENDS EoWriter

Plain     == [cp1252 |-> 3, width |-> 1]
Accented  == [cp1252 |-> 5, width |-> 2]
Delimiter == [cp1252 |-> 11, width |-> 2]

MCNumbers == {-5439, -5440, 9, 10}
MCArrays  == {<< >>, <<11, 3>>}
MCTexts   == {<< >>, <<Accented>>, <<Delimiter, Plain>>}
=============================================================================
