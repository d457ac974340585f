----------------------------- MODULE MCWebhooks -----------------------------
(* Instances of Webhooks, and with it of Connections, for TLC. *)
EXTENDS Webhooks, TLC

Symmetry == Permutations(User) \cup Permutations(Account) \cup Permutations(Handler)
=============================================================================
