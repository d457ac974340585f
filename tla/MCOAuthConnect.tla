--------------------------- MODULE MCOAuthConnect ---------------------------
(* Instances of OAuthConnect for TLC. *)
EXTENDS OAuthConnect, TLC

\* Meta has packs with and without a discovery of their own; Instagram has the
\* unified login; neither WhatsApp nor Instagram can be mistaken for Meta.
MCPacks == [meta |-> {"none", "instagram"}, instagram |-> {"unified_instagram"},
            whatsapp |-> {"whatsapp"}]

MCProvider == {"meta", "instagram", "whatsapp"}

Symmetry == Permutations(User) \cup Permutations(Subject) \cup Permutations(Page)
                \cup Permutations(Callback)
=============================================================================
