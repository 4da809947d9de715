------------------------- MODULE MCFeaturePipeline -------------------------
(* Two processes that start three commands between them.  The minutes of   *)
(* the corpus lie before the clock starts, so that the padded window and   *)
(* the latest klines overlap in part or leave a gap.                       *)
EXTENDS FeaturePipeline, TLC

CONSTANTS r1, r2

RunSymmetry == Permutations(Runs)
=============================================================================
