-------------------------- MODULE MCConfigService --------------------------
(* Instances of ConfigService for TLC. *)
EXTENDS ConfigService
=============================================================================
