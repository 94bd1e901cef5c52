-------------------------- MODULE MCPairAuthority --------------------------
(* A write that needs both copies under two faults with four requests, two  *)
(* writes of both levels under one fault with three.                        *)
EXTENDS PairAuthority

MCLevel == [w \in Write |-> IF w = 1 THEN "all" ELSE "quorum"]
MCPlan == {[writes |-> {1}, faults |-> 2, calls |-> 0],
           [writes |-> {1, 2}, faults |-> 1, calls |-> 1]}
============================================================================
