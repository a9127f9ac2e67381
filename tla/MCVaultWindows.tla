--------------------------- MODULE MCVaultWindows ---------------------------
(* Instances of VaultWindows for TLC: a1 and a2 are visits of worker A, b1 of worker B. *)
EXTENDS VaultWindows

CONSTANTS a1, a2, b1, workerA, workerB, v1, home

WorkerOf == [x \in Visits |-> IF x = b1 THEN workerB ELSE workerA]

\* a1 and b1 name the same vault, a2 the vault that is open already.
Shared == [x \in Visits |-> IF x = a2 THEN home ELSE v1]
=============================================================================
