---------------------------- MODULE MCDesktopRun ----------------------------
(***************************************************************************)
(* Two setups in processes of their own, of which one is a session of      *)
(* connectToCdp, with instances on one port that is recycled, and a second *)
(* setup in the process of the first.                                      *)
(***************************************************************************)
EXTENDS DesktopRun, TLC

CONSTANTS h1, h2, other, p1, here, there

(* h1 may relaunch once. *)
MCAttempts == (h1 :> 2) @@ (h2 :> 1)

MCProcessOf == (h1 :> here) @@ (other :> here) @@ (h2 :> there)
MCNeeds == (h1 :> {"shell"}) @@ (other :> {}) @@ (h2 :> {"shell", "asar"})
MCMaxAge == [s \in Setups |-> 1]
MCLivened == {<<h1, "vault">>}
=============================================================================
