-------------------------- MODULE MCAppiumServer --------------------------
(* Instances of AppiumServer for TLC. *)
EXTENDS AppiumServer

CONSTANTS s1, s2, s3
=============================================================================
