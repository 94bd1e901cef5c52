---------------------------- MODULE MCAccordTxn ----------------------------
(***************************************************************************)
(* Instances of AccordTxn: two or three replicas and a node that is none,  *)
(* one to three transactions.                                              *)
(***************************************************************************)
EXTENDS AccordTxn

\* A later transaction writes a smaller value.
MCValue == [x \in Txn |-> 9 - x]

\* Where transactions 1, 2, ... are coordinated.
Setup(rs, homes) == [replicas |-> rs, home |-> homes]

One == {Setup({0, 1, 2}, <<0>>)}
OneAnywhere == One \cup {Setup({0, 1}, <<0>>), Setup({0, 1}, <<3>>)}
Two == {Setup({0, 1, 2}, <<0, 1>>)}
TwoAnywhere == Two \cup {Setup({0, 1}, <<0, 1>>), Setup({0, 1}, <<3, 0>>), Setup({0, 1}, <<0, 3>>)}
Three == {Setup({0, 1}, <<2, 1, 0>>)}
=============================================================================
