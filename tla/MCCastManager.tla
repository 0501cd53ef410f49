--------------------------- MODULE MCCastManager ---------------------------
(* Cast configurations for TLC. *)
EXTENDS CastManager
=============================================================================
