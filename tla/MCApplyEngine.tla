---------------------------- MODULE MCApplyEngine ----------------------------
(* Instances of ApplyEngine: transaction 1 is bumped past 2 and 3, which both *)
(* list it as a dependency; 3 also depends on 2.                              *)
EXTENDS ApplyEngine, TLC

MCT == 1 :> 4 @@ 2 :> 2 @@ 3 :> 3
MCDeps == 1 :> {} @@ 2 :> {1} @@ 3 :> {1, 2}
MCProposed == 1 :> 2 @@ 2 :> 2 @@ 3 :> 3

Tasks == Permutations(Task)
=============================================================================
