-------------------------- MODULE MCPersistentProfile --------------------------
(* Instances of the persistent profile for TLC: which runs may crash, what *)
(* the owner's profile holds and what may fail varies by configuration.    *)
EXTENDS PersistentProfile

CONSTANTS r1, r2, r3, v1, v2
=============================================================================
