--------------------------- MODULE MCCdpTransport ---------------------------
(* Instances of CdpTransport for TLC: e1 and p1, p2 name the vault v1, e2 names v2. *)
EXTENDS CdpTransport

CONSTANTS e1, e2, p1, p2, v1, v2

TwoVaults == [c \in Calls |-> IF c = e2 THEN v2 ELSE v1]
=============================================================================
