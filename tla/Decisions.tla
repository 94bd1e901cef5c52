------------------------------ MODULE Decisions ------------------------------
(***************************************************************************)
(* What a replica promises about transactions it has decided: from then on *)
(* a PreAccept of one is refused, for good, restarts included.  It may     *)
(* refuse others too; a refusal is never taken back.                       *)
(***************************************************************************)
CONSTANT Txn
VARIABLES decided, refused

Init == decided = {} /\ refused \in SUBSET Txn

Next ==
    /\ decided' \in SUBSET Txn /\ refused' \in SUBSET Txn
    /\ decided \subseteq decided'
    /\ refused \cup decided' \subseteq refused'

Spec == Init /\ [][Next]_<<decided, refused>>
==============================================================================
