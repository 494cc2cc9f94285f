---------------------------- MODULE MCSqlRequest ---------------------------
(* Instances of SqlRequest for TLC. *)
EXTENDS SqlRequest
=============================================================================
