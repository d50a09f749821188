-------------------------- MODULE MCOfflineEditing --------------------------
(***************************************************************************)
(* Instances of OfflineEditing for TLC.                                    *)
(***************************************************************************)
EXTENDS OfflineEditing

CONSTANTS l1, l2

OneLayer == {l1}
TwoLayers == {l1, l2}
MinusOne == -1

LayerSymmetry == Permutations(Layers)
=============================================================================
