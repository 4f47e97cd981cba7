------------------------------ MODULE MCProbe -------------------------------
(* The instance of Probe for TLC. *)
EXTENDS Probe

SmallSettings == {0, 1, 3}
=============================================================================
