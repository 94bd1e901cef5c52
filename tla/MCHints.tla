------------------------------ MODULE MCHints ------------------------------
(* Three hints for one peer; a segment holds two of them. *)
EXTENDS Hints
============================================================================
