----------------------------- MODULE MCEnvelope -----------------------------
(* Instances of Envelope for TLC; the configurations choose the scripts.   *)
EXTENDS Envelope, TLC

Symmetry == Permutations(Account)
=============================================================================
