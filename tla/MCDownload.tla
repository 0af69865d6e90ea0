----------------------------- MODULE MCDownload -----------------------------
(* Instances of Download for TLC.                                           *)
EXTENDS Download, TLC

CONSTANTS a, b

(* Two pieces of one block.                                                 *)
TwoPieces == 0 .. 1
OneBlockEach == [i \in TwoPieces |-> 1]

(* One piece of two blocks or of one.                                       *)
OnePiece  == {0}
TwoBlocks == [i \in OnePiece |-> 2]
OneBlock  == [i \in OnePiece |-> 1]

(* Everybody a seed.                                                        *)
AllSeeds == [p \in Peers |-> Pieces]

PeerSymmetry == Permutations(Peers)
=============================================================================
