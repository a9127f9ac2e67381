----------------------------- MODULE DesktopRun -----------------------------
(***************************************************************************)
(* Desktop setups on one machine, which nothing serializes: what they have *)
(* on its disk (HostDirectories), and the instances they launch on it      *)
(* (OwnedInstance).                                                        *)
(***************************************************************************)
EXTENDS OwnedInstance, HostDirectories

ASSUME RunAssumption == Harnesses \subseteq Setups

runVars == <<instanceVars, directoriesVars>>

RunInit == InstanceInit /\ DirectoriesInit

(* Bound: what befalls directories is followed where no instance has been launched. *)
Unlaunched == port = [i \in Instances |-> Nil]

(* Bound: instances are launched where the setups that launch one are up, and nothing has befallen
   their directories: what becomes of an instance does not depend on how its setup got there. *)
Prepared ==
  /\ stage = [s \in Setups |-> IF s \in Harnesses THEN "up" ELSE "idle"]
  /\ cache = [a \in Artifacts |-> "whole"]
  /\ now = 0 /\ faults = 0

Disk == Unlaunched /\ DirectoriesStep /\ UNCHANGED instanceVars
Instance == Prepared /\ InstanceNext /\ UNCHANGED directoriesVars

RunNext == Disk \/ Instance

Watch ==
  /\ Prepared /\ UNCHANGED directoriesVars
  /\ \E i \in Instances : WatchdogConnects(i) \/ ConnectionCloses(i) \/ ProbeRefused(i)

(* A connection whose peer is gone is noticed, and a probe gets its answer. *)
RunSpec == RunInit /\ [][RunNext]_runVars /\ WF_runVars(Watch)

(* What a setup has on the machine is its own as long as it needs it: its directories and the files
   in the caches, and then its port, its instance and what its marker says. *)
MachineInv == DirectoriesInv /\ InstanceInv
=============================================================================
