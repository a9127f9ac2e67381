--------------------------- MODULE MCPageNamespace ---------------------------
(* Instances of PageNamespace for TLC: the host h2 has a lib provider, which h1 has not. *)
EXTENDS PageNamespace, TLC

CONSTANTS e1, e2, e3, h1, h2, ctx

Callers == (e1 :> h2) @@ (e2 :> h1) @@ (e3 :> h2)
Versions == (h1 :> 1) @@ (h2 :> 2)
ContextIdsOf == (e1 :> ctx) @@ (e2 :> Nil) @@ (e3 :> ctx)
Limits == [desktop |-> 3, mobile |-> 2]
=============================================================================
