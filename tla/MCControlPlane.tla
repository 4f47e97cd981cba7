--------------------------- MODULE MCControlPlane ---------------------------
(* Instances of ControlPlane for TLC. *)
EXTENDS ControlPlane, TLC

Ids == Permutations(Matches) \cup Permutations(Players)
NoKinds == {}
=============================================================================
