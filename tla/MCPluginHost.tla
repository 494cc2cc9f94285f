---------------------------- MODULE MCPluginHost ----------------------------
(* Instances of PluginHost for TLC. *)
EXTENDS PluginHost

MCKindsAll == AllKinds
MCKindsGuarded == {"guarded"}
MCKindsGuardedCli == {"guarded", "cli"}
=============================================================================
