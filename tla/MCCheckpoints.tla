--------------------------- MODULE MCCheckpoints ---------------------------
(* Small instance: two keys, months 0..3, receipts and issues of one unit. *)
EXTENDS Checkpoints

CONSTANTS k1, k2

MCKeys == {k1, k2}
MCHorizon == 3
MCDeltas == {-1, 1}
MCMaxPosts == 3
=============================================================================
