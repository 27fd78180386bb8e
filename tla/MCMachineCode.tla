---------------------------- MODULE MCMachineCode ----------------------------
(* Instances of MachineCode for TLC. *)
EXTENDS MachineCode
=============================================================================
