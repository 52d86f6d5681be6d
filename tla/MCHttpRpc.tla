------------------------------ MODULE MCHttpRpc ------------------------------
(***************************************************************************)
(* Two processes, a customer with an expiring authorization, a preloaded   *)
(* user, and a token that names an authorization its user does not own;    *)
(* any token may be presented to any tenant.                               *)
(***************************************************************************)
EXTENDS HttpRpc, TLC

CONSTANTS i1, i2, r1, r2, p1, t1, t2, alice, vine, a1, tk1, tk2, tk3

MCInstances == {i1, i2}
MCTenants == {t1, t2}
MCUsers == {alice, vine}
MCAuths == {a1}
MCTokens == {tk1, tk2, tk3}
MCOwner == [a \in MCAuths |-> alice]
MCAuthExpiry == a1 :> 0
MCMode == (tk1 :> "oauth") @@ (tk2 :> "oauth") @@ (tk3 :> "preloaded")
MCTokenUser == (tk1 :> alice) @@ (tk2 :> vine) @@ (tk3 :> vine)
MCTokenAuth == [t \in MCTokens |-> a1]
MCTokenTenant == [t \in MCTokens |-> t1]
MCTokenExpiry == [t \in MCTokens |-> 0]
Symmetry == Permutations(Requests) \cup Permutations(MCInstances)
==============================================================================
