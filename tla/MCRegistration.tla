--------------------------- MODULE MCRegistration ---------------------------
(* Instances of Registration for TLC.                                      *)
EXTENDS Registration, TLC

Symmetry == Permutations(Email) \cup Permutations(Code) \cup Permutations(Request)
=============================================================================
