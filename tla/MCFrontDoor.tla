---------------------------- MODULE MCFrontDoor ----------------------------
(* Instances of FrontDoor for TLC. *)
EXTENDS FrontDoor, TLC

Symmetry == Permutations(Req)
=============================================================================
