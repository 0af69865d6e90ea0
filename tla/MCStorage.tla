------------------------------ MODULE MCStorage ------------------------------
(* Instances of Storage for TLC.                                            *)
EXTENDS Storage, TLC

CONSTANTS n1, n2, n3

(* Two pieces; the second one straddles the two files.                      *)
TwoPieces   == 0 .. 1
TwoFiles    == 0 .. 1
Straddling  == [i \in TwoPieces |-> IF i = 0 THEN {0} ELSE {0, 1}]

(* One piece in one file.                                                   *)
OnePiece    == {0}
OneFile     == {0}
InOneFile   == [i \in OnePiece |-> {0}]

InodeSymmetry == Permutations(Inodes)
=============================================================================
