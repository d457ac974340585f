--------------------------- MODULE MCProxyRefresh ---------------------------
(* Instances of ProxyRefresh for TLC; the configurations set the budgets.  *)
EXTENDS ProxyRefresh, TLC

\* Requests are interchangeable.
Symmetry == Permutations(Req)
=============================================================================
