---------------------------- MODULE MCSetupLock ----------------------------
(* Instances of SetupLock for TLC. *)
EXTENDS SetupLock, TLC

CONSTANTS r1, r2, r3, hostA, hostB

OneHost == [r \in Runs |-> hostA]

\* r3 shares the lock directory from another host.
TwoHosts == [r \in Runs |-> IF r = r3 THEN hostB ELSE hostA]

\* Sound while the runs of the set play the same part.
AnyOrder == Permutations(Runs)
=============================================================================
