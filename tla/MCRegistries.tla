---------------------------- MODULE MCRegistries ----------------------------
(* Registries for TLC. Calls are told apart by the order of their ids.     *)
EXTENDS Registries

CONSTANT n1
=============================================================================
