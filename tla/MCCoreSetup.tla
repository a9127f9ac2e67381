---------------------------- MODULE MCCoreSetup -----------------------------
EXTENDS CoreSetup

CONSTANTS s1, s2, s3
=============================================================================
