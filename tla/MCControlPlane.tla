--------------------------- MODULE MCControlPlane ---------------------------
(* Small instances of the control plane for TLC.                           *)
EXTENDS ControlPlane, TLC

ClientSymmetry == Permutations(Clients)
=============================================================================
