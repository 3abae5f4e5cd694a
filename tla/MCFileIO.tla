------------------------------ MODULE MCFileIO ------------------------------
(* Two files on six sectors of three bytes; two direct blocks and a      *)
(* table of two.                                                           *)
EXTENDS FileIO, TLC

MCOffset == {-1, 0, 1}
FilePermutations == Permutations(File)
=============================================================================
