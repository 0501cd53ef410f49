------------------------ MODULE MCSessionLifecycle ------------------------
(* Session configurations for TLC. *)
EXTENDS SessionLifecycle, TLC
CONSTANTS a1, a2
AppSymmetry == Permutations({a1, a2})
=============================================================================
