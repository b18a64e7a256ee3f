----------------------------- MODULE MCMintPage -----------------------------
(***************************************************************************)
(* Two flows of one page, over which nothing distinguishes them.           *)
(***************************************************************************)
EXTENDS MintPage, TLC

FlowSymmetry == Permutations(Flows)
=============================================================================
