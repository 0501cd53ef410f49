-------------------------- MODULE MCAdbSupervisor --------------------------
(* Configurations of the ADB supervisor for TLC. *)
EXTENDS AdbSupervisor
=============================================================================
