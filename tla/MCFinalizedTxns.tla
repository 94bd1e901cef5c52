-------------------------- MODULE MCFinalizedTxns --------------------------
(***************************************************************************)
(* Instances of FinalizedTxns: three transactions minted at times 1, 2 and 4.    *)
(***************************************************************************)
EXTENDS FinalizedTxns

MCTxn == {2, 4, 9}
=============================================================================
