------------------------------ MODULE MCHLC ------------------------------
(***************************************************************************)
(* One clock, two concurrent witness() callers, and a peer whose node      *)
(* number wins ties.                                                       *)
(***************************************************************************)
EXTENDS HLC, TLC

MCPeer == {3}

Callers == Permutations(Caller)
===========================================================================
