----------------------------- MODULE MCRotation -----------------------------
(* Rotations of up to four members that age out at different times. *)
EXTENDS Rotation
=============================================================================
