-------------------------- MODULE MCCommitLogSync --------------------------
(* One or two writes through the Periodic or the Group strategy. *)
EXTENDS CommitLogSync
============================================================================
