-------------------------- MODULE MCAppiumSession --------------------------
(* Instances of AppiumSession for TLC: two calls of one transport, of which the first outlasts the
   cap, and one of another. *)
EXTENDS AppiumSession, TLC

CONSTANTS e1, e2, e3, w1, w2

Callers == (e1 :> w1) @@ (e2 :> w1) @@ (e3 :> w2)
Lengths == (e1 :> 3) @@ (e2 :> 1) @@ (e3 :> 2)
Limits == [android |-> 5, ios |-> 7]
=============================================================================
