---------------------------- MODULE MCOwnThreads ---------------------------
(* Instances of OwnThreads for TLC. *)
EXTENDS OwnThreads
=============================================================================
