--------------------------- MODULE MCEpochContexts ---------------------------
(* Epochs of four blocks, the activation at epoch 4 (block 16): jobs of the epochs 1 and 3, and of  *)
(* the even and the odd half of the first epoch of the DAG after it.                               *)
EXTENDS EpochContexts, TLC

MCHashes == 0..100
MCkeccak256(seed) == (37 * seed + 11) % 101
MCBlocks == {5, 15, 16, 21}
MCSymmetry == Permutations(Miners)
MCOtherSeeds == {100}
==============================================================================
