---------------------------- MODULE MCAdmission ----------------------------
(***************************************************************************)
(* Instances of Admission for TLC.                                         *)
(***************************************************************************)
EXTENDS Admission

CONSTANTS a, b, c, a1, a2, b1, b2, c1

\* Five calls of three tenants compete for two global slots.  Tenant a has a
\* queue that one call fills; b has one slot, so that it is at its limit
\* while the gateway is not; the three queues together exceed the global
\* queue.
MCTenants == {a, b, c}
MCRequests == {a1, a2, b1, b2, c1}
MCTenantOf == (a1 :> a) @@ (a2 :> a) @@ (b1 :> b) @@ (b2 :> b) @@ (c1 :> c)
MCMaxInflight == (a :> 2) @@ (b :> 1) @@ (c :> 1)
MCMaxQueue == (a :> 1) @@ (b :> 2) @@ (c :> 1)

Symmetric == Permutations({a1, a2}) \cup Permutations({b1, b2})

\* One global slot that two calls of a and one of b compete for.
LiveTenants == {a, b}
LiveRequests == {a1, a2, b1}
LiveTenantOf == (a1 :> a) @@ (a2 :> a) @@ (b1 :> b)
LiveMaxInflight == (a :> 1) @@ (b :> 1)
LiveMaxQueue == (a :> 2) @@ (b :> 1)
=============================================================================
