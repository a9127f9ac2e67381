------------------------ MODULE MCEmulatorOwnership ------------------------
(* Instances of EmulatorOwnership for TLC. *)
EXTENDS EmulatorOwnership

CONSTANTS a1, a2

\* No property speaks of what follows a failed listing or a mistaken device.
Judged == lapses \cap {"blind", "mistaken"} = {}
=============================================================================
