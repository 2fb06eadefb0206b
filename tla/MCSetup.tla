------------------------------- MODULE MCSetup -------------------------------
(* Instances of the setup for TLC. *)
EXTENDS Setup
=============================================================================
