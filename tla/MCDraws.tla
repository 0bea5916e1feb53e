------------------------------ MODULE MCDraws ------------------------------
(* Words of four bits and factors with the same role as the code's: the low *)
(* one is odd, its products overflow a word and leave carries.  In base 9 a *)
(* draw reaches every digit but the highest.  Every start around the ranges *)
(* of both splits; ranges at the ends of a word; challenges on both sides   *)
(* of the magic number.                                                     *)
EXTENDS EoDraws

MCSeeds  == {0, 1, 2, 7, 15}
MCRanges == {<<0, 15>>, <<0, 14>>, <<1, 15>>, <<15, 15>>, <<0, 0>>, <<3, 9>>,
             <<7, 8>>, <<5, 2>>, <<15, 0>>}
MCStarts == -16 .. 54

MCChallenges ==
    {0, 1, 7, 8, 10, 87, 98, 118, 2003, 123456, 999989, 999999,
     11092002, 11092003, 11092004, 11092012, 16194276}
=============================================================================
