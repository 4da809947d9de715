---------------------------- MODULE MCSwapCorpus ----------------------------
(* A corpus run over three blocks in windows of two, and a block timestamp *)
(* run of the last of them in one piece: the ranges of the queue's two     *)
(* job kinds overlap in the same way.                                      *)
EXTENDS SwapCorpus, TLC

CONSTANTS s1, s2, corpus, sample

MCBlocks     == 1 .. 3
MCFrom       == [r \in Runs |-> IF r = corpus THEN 1 ELSE 3]
MCTo         == [r \in Runs |-> 3]
MCWindowSize == [r \in Runs |-> IF r = corpus THEN 2 ELSE 1]

SwapSymmetry == Permutations(Swaps)
=============================================================================
