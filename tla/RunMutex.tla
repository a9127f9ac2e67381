------------------------------ MODULE RunMutex ------------------------------
(***************************************************************************)
(* What the setup lock promises its callers (src/setup/setup-lock.ts, file *)
(* header): a run enters only while no other run is inside, and leaves     *)
(* when it likes.                                                          *)
(***************************************************************************)
CONSTANT Runs

VARIABLE holders  (* the runs that are between acquire and release *)

Init == holders = {}

Enter(r) == holders = {} /\ holders' = {r}

Leave(r) == r \in holders /\ holders' = holders \ {r}

Next == \E r \in Runs : Enter(r) \/ Leave(r)

Spec == Init /\ [][Next]_holders
=============================================================================
