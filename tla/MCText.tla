------------------------------- MODULE MCText -------------------------------
(* Every text of up to four bytes over bytes at the ends of the ranges that *)
(* the code tells apart, and every text of up to three characters with code *)
(* points at the ends of the UTF-8 widths and of the Windows-1252 table.    *)
EXTENDS EoText

\* 'A', continuation bytes, what is never a first byte, first bytes of each length.
MCBytes == {65, 128, 130, 169, 191, 193, 194, 195, 223, 224, 226, 239, 240, 244, 245, 255}
MCTexts == UNION {[1 .. n -> MCBytes] : n \in 0 .. 4}

\* DEL, 0x80, NBSP, e acute, y diaeresis, A macron, florin, euro, z caron, Y diaeresis.
MCCharacters == {1, 127, 128, 160, 233, 255, 256, 402, 8364, 382, 376,
                 2047, 2048, 55295, 57344, 65535, 65536, 1114111}
=============================================================================
