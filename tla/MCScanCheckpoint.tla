-------------------------- MODULE MCScanCheckpoint --------------------------
(***************************************************************************)
(* Instances of ScanCheckpoint for TLC.                                    *)
(***************************************************************************)
EXTENDS ScanCheckpoint, TLC

CONSTANTS w1, w2
MCOne == {w1}
MCTwo == {w1, w2}
MCUnlimited == <<0>>
MCThenOnePage == <<0, 1>>
MCSymmetry == Permutations(Workers)
=============================================================================
