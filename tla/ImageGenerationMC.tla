------------------------- MODULE ImageGenerationMC -------------------------
(***************************************************************************)
(* Instances of ImageGeneration for TLC: an image reduced in size, and a  *)
(* tile of it.                                                             *)
(***************************************************************************)
EXTENDS ImageGeneration, TLC

CONSTANTS mid, tile, t1, t2

\* The reduced image is the untiled image of its tile.
TileBases == [v \in Tiles |-> mid]

\* Either can be made again from itself, and the tile from the whole.
SuitsAll == {<<mid, mid>>, <<tile, tile>>, <<mid, tile>>}

ThreadSymmetry == Permutations(Threads)
=============================================================================
