------------------------- MODULE EmulatorOwnership -------------------------
(***************************************************************************)
(* Who owns the Android emulators of a host: their processes, the marker   *)
(* per AVD (android/emulator/emulator-marker.ts), the transport that       *)
(* boots, adopts and stops them (transport/transport-factory.ts), the      *)
(* sweep of leftovers (android/emulator/emulator-reclaim.ts) and the       *)
(* detached reaper armed with each launch (android/emulator/               *)
(* emulator-reaper.ts).                                                    *)
(*                                                                         *)
(* Runs and reapers exclude each other through the android setup lock,     *)
(* so that there is one pc, that of the holder; SetupLock says when the    *)
(* lock excludes.  A transport lives in a host process, the run's own or   *)
(* a worker, which may end without a teardown while the run goes on.  The  *)
(* grain is the await.                                                     *)
(***************************************************************************)
EXTENDS Naturals, FiniteSets

CONSTANTS
  Avds,
  UserAvds,       (* those of them somebody may boot by hand *)
  None,
  LaunchLimit,    (* bound: the number of emulators launched *)
  Stubborn,       (* the launches whose backend may survive the kill of its pid *)
  DieProne,       (* the launches whose processes may die by themselves *)
  HostLimit,      (* bound: the number of processes that host a transport *)
  LapseLimit,     (* bound: the number of kinds of lapse in a behaviour *)
  QueriesMayFail, (* the host process listing, and adb, may fail *)
  PidsRecycled    (* a dead host's pid may be alive again *)

ASSUME EmulatorAssumption ==
  /\ {LaunchLimit, HostLimit, LapseLimit} \subseteq Nat
  /\ None \notin Avds \cup Nat /\ UserAvds \subseteq Avds
  /\ Stubborn \cup DieProne \subseteq 1..LaunchLimit
  /\ {QueriesMayFail, PidsRecycled} \subseteq BOOLEAN

\* A launch is known by its time; the emulator somebody boots by hand is none of them.
Launches    == 1..LaunchLimit
User        == 0
Devices     == Launches \cup {User}
Launcher(e) == <<e, "launcher">>
Backend(d)  == <<d, "backend">>
Pids        == {Launcher(e) : e \in Launches} \cup {Backend(d) : d \in Devices}

VARIABLES
  proc,     (* proc[p]: "none", "up" or "gone" *)
  online,   (* the devices adb lists *)
  avdOf,    (* the AVD a launch, or the user's emulator, is for *)
  marker,   (* the marker file of each AVD *)
  lock,     (* who holds the android setup lock: "free", "run" or "reaper" *)
  reaper,   (* the reaper of each launch *)
  pc,       (* where the holder of the lock is *)
  host,     (* the number of the process that hosts the transport *)
  avd,      (* the AVD the transport is for *)
  mine,     (* what the transport holds in memory *)
  before,   (* emulatorPidsBefore *)
  known,    (* deviceIdsBefore *)
  attempt,  (* the provisioning attempt *)
  todo,     (* the AVDs whose markers a sweep has still to judge *)
  listing,  (* the process listing the sweep, or the undoing, works from *)
  stop,     (* the stop in progress *)
  lapses    (* history: the ways in which the records have gone wrong *)

hostVars == <<proc, online, avdOf>>
runVars  == <<host, avd, mine, before, known, attempt>>
stopVars == <<todo, listing, stop>>
vars == <<hostVars, marker, lock, reaper, pc, runVars, stopVars, lapses>>

Up == {p \in Pids : proc[p] = "up"}

NoMarker == [launch |-> None, owned |-> {}, pre |-> {}, isProvisional |-> FALSE,
             device |-> None, owner |-> 0]
Markers  == [launch : Launches \cup {None}, owned : SUBSET Pids, pre : SUBSET Pids,
             isProvisional : BOOLEAN, device : Devices \cup {None}, owner : 0..HostLimit]

NoHandle == [launch |-> None, owned |-> {}, device |-> None]
Handles  == [launch : Launches \cup {None}, owned : SUBSET Pids, device : Devices \cup {None}]

NoStop == [avd |-> None, device |-> None, owned |-> {}, back |-> "between"]

Location ==
  {"off", "between", "starting", "preflight", "sweeping", "probing", "adopting", "gating",
   "listing", "launching", "booting", "settling", "undoing", "ready", "stopping", "escalating"}

Hosted == Location \ {"off", "between", "sweeping"}

TypeOK ==
  /\ proc \in [Pids -> {"none", "up", "gone"}]
  /\ online \subseteq {d \in Devices : Backend(d) \in Up}
  /\ avdOf \in [Devices -> Avds \cup {None}]
  /\ marker \in [Avds -> Markers]
  /\ lock \in {"free", "run", "reaper"} /\ (pc = "off" <=> lock = "free")
  /\ reaper \in [Launches -> {"off", "watching", "done"}]
  /\ pc \in Location
  /\ host \in 0..HostLimit /\ avd \in Avds \cup {None}
  /\ mine \in Handles /\ before \subseteq Pids /\ known \subseteq Devices /\ attempt \in 1..2
  /\ todo \subseteq Avds /\ listing \subseteq Pids
  /\ stop \in [avd : Avds \cup {None}, device : Devices \cup {None}, owned : SUBSET Pids,
               back : {"between", "starting", "preflight", "sweeping"}]
  /\ lapses \subseteq {"blind", "gaveUp", "unrecorded", "forkedLate", "mistaken", "bystander"}

Init ==
  /\ proc = [p \in Pids |-> "none"] /\ online = {}
  /\ avdOf = [d \in Devices |-> None]
  /\ marker = [a \in Avds |-> NoMarker]
  /\ lock = "free" /\ reaper = [e \in Launches |-> "off"]
  /\ pc = "off" /\ host = 0 /\ avd = None
  /\ mine = NoHandle /\ before = {} /\ known = {} /\ attempt = 1
  /\ todo = {} /\ listing = {} /\ stop = NoStop
  /\ lapses = {}

Goto(location) == pc' = location

Lapse(cause, occurs) ==
  /\ lapses' = IF occurs THEN lapses \cup {cause} ELSE lapses
  /\ Cardinality(lapses') <= LapseLimit

\* The processes of gone end, and with a backend its device.
Kill(gone) ==
  /\ proc' = [p \in Pids |-> IF p \in gone /\ proc[p] = "up" THEN "gone" ELSE proc[p]]
  /\ online' = {d \in online : Backend(d) \notin gone}
  /\ UNCHANGED avdOf

Surviving == {Backend(e) : e \in Stubborn}

Forked(launchers) == {Backend(e) : e \in {f \in Launches : Launcher(f) \in launchers}}

\* killProcessTree and killProcessTreeByPid may miss the backend a launcher has forked, or
\* may take it, and other processes beside.
KillTrees(pids, others) ==
  \E taken \in SUBSET (Forked(pids) \cup others), alive \in SUBSET (pids \cap Surviving) :
    Kill((pids \ alive) \cup taken)

\* queryEmulatorProcesses: what it returns, and whether it failed.
Listings == [pids : {Up}, failed : {FALSE}] \cup
            (IF QueriesMayFail THEN [pids : {{}}, failed : {TRUE}] ELSE {})

-----------------------------------------------------------------------------
(* The markers.                                                            *)

\* Mutant: whatever runs beside a recorded process is swept with it.
AllBesideMarked(m, pids) == IF m.owned \cap pids = {} THEN {} ELSE pids

selectLiveMarkedPids(m, pids) ==
  (m.owned \cap pids) \cup (IF m.isProvisional THEN pids \ m.pre ELSE {})

checkIsMarkedEmulatorRunning(m) == m.owned \cap Up # {}

clearEmulatorMarker(a) == [marker EXCEPT ![a] = NoMarker]

clearEmulatorMarkerIfStopped(a) ==
  IF checkIsMarkedEmulatorRunning(marker[a]) THEN marker ELSE clearEmulatorMarker(a)

\* What the judging process can take the owner of a marker for: its own is its own,
\* and any other host is dead, unless its pid is in use again.
OwnerVerdicts(m) ==
  IF PidsRecycled /\ ~(m.owner = host /\ pc \in Hosted) THEN BOOLEAN ELSE {FALSE}

-----------------------------------------------------------------------------
(* stopEmulator.                                                           *)

\* The console shuts the device down, or does not, and the launcher's tree is killed.
BeginStop(a, device, launch, owned, back) ==
  /\ KillTrees({Launcher(e) : e \in {launch} \ {None}}, {Backend(d) : d \in {device} \ {None}})
  /\ stop' = [avd |-> a, device |-> device, owned |-> owned, back |-> back]
  /\ Goto("stopping")

\* What a poll may say: an emulator that runs is listed by adb once it is online,
\* and may be before; an adb that fails says nothing.
checkIsEmulatorGone ==
  /\ stop.owned \cap Up = {}
  /\ stop.device \notin online \/ QueriesMayFail

checkIsEmulatorUp ==
  stop.owned \cap Up # {} \/ (stop.device # None /\ Backend(stop.device) \in Up)

Return ==
  /\ Goto(stop.back)
  /\ stop' = NoStop

StopVerified ==
  /\ pc \in {"stopping", "escalating"} /\ checkIsEmulatorGone
  /\ marker' = clearEmulatorMarkerIfStopped(stop.avd)
  /\ Return
  /\ UNCHANGED <<hostVars, lock, reaper, runVars, todo, listing, lapses>>

\* The time is up: what survives is killed by its pid ...
StopEscalates ==
  /\ pc = "stopping" /\ checkIsEmulatorUp
  /\ stop.owned \cap Up # {}
  /\ KillTrees(stop.owned, {})
  /\ Goto("escalating")
  /\ UNCHANGED <<marker, lock, reaper, runVars, stopVars, lapses>>

\* ... once, and where nothing of it survives, or the kill does not help, the marker stays.
StopGivesUp ==
  /\ checkIsEmulatorUp
  /\ pc = "escalating" \/ (pc = "stopping" /\ stop.owned \cap Up = {})
  /\ Return
  /\ Lapse("gaveUp", TRUE)
  /\ UNCHANGED <<hostVars, marker, lock, reaper, runVars, todo, listing>>

-----------------------------------------------------------------------------
(* reclaimLeftoverEmulators: a failed listing judges nobody.               *)

BeginSweep(except, location) ==
  LET recorded == {a \in Avds \ except : marker[a] # NoMarker}
  IN /\ \E answer \in Listings :
          /\ todo' = IF answer.failed THEN {} ELSE recorded
          /\ listing' = IF recorded = {} THEN {} ELSE answer.pids
          /\ Lapse("blind", answer.failed /\ recorded # {})
     /\ Goto(location)

\* Mutant: the sweep leaves every emulator whose owner seems to live.
SpareInUse(m) == TRUE \in OwnerVerdicts(m)

\* reclaimLeftoverEmulator: only the preflight leaves what a live owner uses.
MayBeSpared(m) == pc = "preflight" /\ TRUE \in OwnerVerdicts(m)

Reclaim(a) ==
  LET doomed == selectLiveMarkedPids(marker[a], listing)
  IN /\ todo' = todo \ {a}
     /\ \/ /\ doomed = {}
           /\ marker' = clearEmulatorMarker(a)
           /\ UNCHANGED <<hostVars, pc, stop>>
        \/ /\ doomed # {} /\ MayBeSpared(marker[a])
           /\ UNCHANGED <<hostVars, marker, pc, stop>>
        \/ /\ doomed # {}
           /\ BeginStop(a, marker[a].device, None, doomed, pc)
           /\ UNCHANGED marker

ReclaimNext ==
  /\ pc \in {"preflight", "sweeping"}
  /\ \E a \in todo : Reclaim(a)
  /\ UNCHANGED <<lock, reaper, runVars, listing, lapses>>

Swept ==
  /\ pc \in {"preflight", "sweeping"} /\ todo = {}
  /\ Goto(IF pc = "preflight" THEN "probing" ELSE "off")
  /\ lock' = IF pc = "preflight" THEN lock ELSE "free"
  /\ listing' = {}
  /\ UNCHANGED <<hostVars, marker, reaper, runVars, todo, stop, lapses>>

-----------------------------------------------------------------------------
(* The run, and the transport: ensureDeviceConnected and reuseConnectedDevice. *)

BeginRun ==
  /\ lock = "free" /\ lock' = "run"
  /\ Goto("between")
  /\ UNCHANGED <<hostVars, marker, reaper, runVars, stopVars, lapses>>

CreateTransport ==
  /\ pc = "between" /\ host < HostLimit
  /\ host' = host + 1 /\ avd' \in Avds
  /\ Goto("starting")
  /\ UNCHANGED <<hostVars, marker, lock, reaper, mine, before, known, attempt, stopVars, lapses>>

\* The transport is done with, or its creation has failed: what it held is gone.
Forget ==
  /\ avd' = None /\ mine' = NoHandle /\ before' = {} /\ known' = {} /\ attempt' = 1
  /\ UNCHANGED host

\* The leftovers of the other AVDs go first.
Preflight ==
  /\ pc = "starting"
  /\ BeginSweep({avd}, "preflight")
  /\ UNCHANGED <<hostVars, marker, lock, reaper, runVars, stop>>

\* The third way out: adb fails, or a device does not say which AVD it serves.
Probe ==
  /\ pc = "probing"
  /\ \/ /\ \E d \in online : avdOf[d] = avd /\ mine' = [NoHandle EXCEPT !.device = d]
        /\ Goto("adopting")
        /\ UNCHANGED <<host, avd, before, known, attempt, lapses>>
     \/ /\ \A d \in online : avdOf[d] # avd
        /\ known' = online
        /\ Goto("listing")
        /\ Lapse("bystander", Backend(User) \in Up /\ User \notin online)
        /\ UNCHANGED <<host, avd, mine, before, attempt>>
     \/ /\ Goto("between") /\ Forget
        /\ UNCHANGED lapses
  /\ UNCHANGED <<hostVars, marker, lock, reaper, stopVars>>

Arm(e) == reaper' = [reaper EXCEPT ![e] = "watching"]

\* The launch time, by which its reaper knows the emulator, survives.
TakenOver(m, found) ==
  [launch |-> m.launch, owned |-> found, pre |-> {}, isProvisional |-> FALSE,
   device |-> mine.device, owner |-> host]

takeOverLeftoverEmulator ==
  /\ pc = "adopting"
  /\ Goto("gating")
  /\ LET m == marker[avd]
         found == selectLiveMarkedPids(m, Up)
     IN \/ /\ m = NoMarker \/ QueriesMayFail \/ (found # {} /\ TRUE \in OwnerVerdicts(m))
           /\ UNCHANGED <<marker, reaper, mine, lapses>>
        \/ /\ m # NoMarker /\ found = {}
           /\ marker' = clearEmulatorMarker(avd)
           /\ UNCHANGED <<reaper, mine, lapses>>
        \/ /\ found # {} /\ FALSE \in OwnerVerdicts(m)
           /\ mine' = [mine EXCEPT !.owned = found]
           /\ marker' = [marker EXCEPT ![avd] = TakenOver(m, found)]
           /\ Arm(m.launch)
           /\ Lapse("mistaken", mine.device # m.launch)
  /\ UNCHANGED <<hostVars, lock, host, avd, before, known, attempt, stopVars>>

\* stopAutoStartedProcessesVerified, and the end of the transport.
LetGo ==
  /\ Forget
  /\ IF mine.launch = None /\ mine.owned = {}
     THEN Goto("between") /\ UNCHANGED <<hostVars, stop>>
     ELSE BeginStop(avd, mine.device, mine.launch, mine.owned, "between")

\* The readiness gates of a device that was already connected.
Gate ==
  /\ pc = "gating"
  /\ \/ /\ Goto("ready")
        /\ UNCHANGED <<hostVars, runVars, stop>>
     \/ LetGo
  /\ UNCHANGED <<marker, lock, reaper, todo, listing, lapses>>

-----------------------------------------------------------------------------
(* A launch.                                                               *)

\* A failed listing stands for an empty one.
Snapshot ==
  /\ pc = "listing"
  /\ \E answer \in Listings :
       /\ before' = answer.pids
       /\ Lapse("blind", answer.failed)
  /\ Goto("launching")
  /\ UNCHANGED <<hostVars, marker, lock, reaper, host, avd, mine, known, attempt, stopVars>>

ProvisionalMarker(e) ==
  [launch |-> e, owned |-> {Launcher(e)}, pre |-> before, isProvisional |-> TRUE,
   device |-> None, owner |-> host]

\* Mutant: the launch is recorded whatever the marker says.
NeverInForce(m) == FALSE

\* The record of an emulator that may still be up is not overwritten.
IsInForce(m) ==
  selectLiveMarkedPids(m, before) # {} \/ checkIsMarkedEmulatorRunning(m)

\* startEmulator and recordEmulatorLaunch.
Launch(e) ==
  /\ pc = "launching"
  /\ \A f \in Launches : proc[Launcher(f)] = "none" <=> f >= e
  /\ proc' = [proc EXCEPT ![Launcher(e)] = "up"]
  /\ avdOf' = [avdOf EXCEPT ![e] = avd]
  /\ mine' = [NoHandle EXCEPT !.launch = e]
  /\ Goto("booting")
  /\ IF marker[avd] # NoMarker /\ IsInForce(marker[avd])
     THEN Lapse("unrecorded", TRUE) /\ UNCHANGED <<marker, reaper>>
     ELSE marker' = [marker EXCEPT ![avd] = ProvisionalMarker(e)] /\ Arm(e) /\ UNCHANGED lapses
  /\ UNCHANGED <<online, lock, host, avd, before, known, attempt, stopVars>>

\* waitForNewDevice takes the device that says it serves the AVD, and
\* recordEmulatorLaunchDevice notes it in the marker of this launch.
DeviceAppears(d) ==
  /\ pc = "booting" /\ d \in online \ known /\ avdOf[d] = avd
  /\ mine' = [mine EXCEPT !.device = d]
  /\ marker' = IF marker[avd].launch = mine.launch /\ marker[avd].device = None
               THEN [marker EXCEPT ![avd].device = d] ELSE marker
  /\ Goto("settling")
  /\ Lapse("mistaken", d # mine.launch)
  /\ UNCHANGED <<hostVars, lock, reaper, host, avd, before, known, attempt, stopVars>>

FinalMarker(owned) ==
  [launch |-> mine.launch, owned |-> owned, pre |-> {}, isProvisional |-> FALSE,
   device |-> mine.device, owner |-> host]

\* The device has passed its gates: the processes that are new are this launch's.
\* A failed listing stands for an empty one.
Claim ==
  /\ pc = "settling" /\ mine.device \in online
  /\ \E answer \in Listings :
       LET owned == answer.pids \ before
       IN /\ mine' = [mine EXCEPT !.owned = owned]
          /\ marker' = [marker EXCEPT ![avd] = FinalMarker(owned)]
          /\ Lapse("blind", answer.failed)
  /\ IF reaper[mine.launch] = "off" THEN Arm(mine.launch) ELSE UNCHANGED reaper
  /\ before' = {} /\ known' = {}
  /\ Goto("ready")
  /\ UNCHANGED <<hostVars, lock, host, avd, attempt, stopVars>>

\* The boot or a gate fails, at any time: stopEmulatorAfterFailedStart lists the processes ...
BootFails ==
  /\ pc \in {"booting", "settling"}
  /\ \E answer \in Listings :
       /\ listing' = answer.pids \ before
       /\ Lapse("blind", answer.failed)
  /\ Goto("undoing")
  /\ UNCHANGED <<hostVars, marker, lock, reaper, runVars, todo, stop>>

\* ... and then the devices, online or not.
OnlyNewDevice(listed) ==
  LET new == listed \ known
  IN IF Cardinality(new) = 1 THEN CHOOSE d \in new : TRUE ELSE None

UndoLaunch ==
  /\ pc = "undoing"
  /\ \E listed \in SUBSET {d \in Devices : Backend(d) \in Up} :
       /\ online \subseteq listed \/ (QueriesMayFail /\ listed = {})
       /\ BeginStop(avd, OnlyNewDevice(listed), mine.launch, listing, "between")
  /\ Forget
  /\ listing' = {}
  /\ UNCHANGED <<marker, lock, reaper, todo, lapses>>

-----------------------------------------------------------------------------
(* The transport in use, and its ends.                                     *)

\* The device has gone quiet before the session: an emulator of this run is replaced, once.
Retry ==
  /\ pc = "ready" /\ attempt = 1 /\ mine.owned # {}
  /\ attempt' = 2
  /\ mine' = NoHandle
  /\ BeginStop(avd, mine.device, mine.launch, mine.owned, "starting")
  /\ UNCHANGED <<marker, lock, reaper, host, avd, before, known, todo, listing, lapses>>

Dispose ==
  /\ pc = "ready" /\ LetGo
  /\ UNCHANGED <<marker, lock, reaper, todo, listing, lapses>>

\* The process that hosts the transport is gone; the run goes on, or is gone with it.
HostGone ==
  /\ \/ Goto("between") /\ UNCHANGED lock
     \/ Goto("off") /\ lock' = "free"
  /\ Forget

\* stopAutoStartedProcessesBestEffort, in an exit handler, waits for nothing.
ExitBestEffort ==
  /\ pc = "ready" /\ (mine.launch # None \/ mine.owned # {})
  /\ LET launchers == {Launcher(e) : e \in {mine.launch} \ {None}}
     IN \E reached \in SUBSET Forked(launchers) :
          LET dead == launchers \cup reached
              left == (mine.owned \cap Up) \ dead
          IN /\ \E alive \in SUBSET (left \cap Surviving) : Kill(dead \cup (left \ alive))
             /\ marker' = IF left = {} /\ marker[avd].owned \cap Up \subseteq dead
                          THEN clearEmulatorMarker(avd) ELSE marker
  /\ HostGone
  /\ UNCHANGED <<reaper, stopVars, lapses>>

IsHosted == pc \in Hosted /\ (pc \in {"stopping", "escalating"} => stop.back # "sweeping")

\* A worker ends, or the run is killed: no handler runs.
HostEnds ==
  /\ IsHosted
  /\ HostGone
  /\ stop' = NoStop /\ todo' = {} /\ listing' = {}
  /\ UNCHANGED <<hostVars, marker, reaper, lapses>>

RunKilled ==
  /\ lock = "run" /\ ~IsHosted
  /\ lock' = "free" /\ Goto("off")
  /\ stop' = NoStop /\ todo' = {} /\ listing' = {}
  /\ UNCHANGED <<hostVars, marker, reaper, runVars, lapses>>

\* The teardown of a run with a transport of its own, or the one that sweeps for its workers.
EndRun ==
  /\ pc = "between"
  /\ \/ /\ Goto("off") /\ lock' = "free"
        /\ UNCHANGED <<todo, listing, lapses>>
     \/ BeginSweep({}, "sweeping") /\ UNCHANGED lock
  /\ UNCHANGED <<hostVars, marker, reaper, runVars, stop>>

-----------------------------------------------------------------------------
(* The reaper.                                                             *)

readWatchVerdict(e) ==
  LET m == marker[avdOf[e]]
  IN m.launch = e /\ (m.isProvisional \/ checkIsMarkedEmulatorRunning(m))

ReaperQuits(e) ==
  /\ reaper[e] = "watching" /\ ~readWatchVerdict(e)
  /\ reaper' = [reaper EXCEPT ![e] = "done"]
  /\ UNCHANGED <<hostVars, marker, lock, pc, runVars, stopVars, lapses>>

\* The lock is free: the verdict is read again under it, and all leftovers are swept.
ReaperTakes(e) ==
  /\ reaper[e] = "watching" /\ lock = "free" /\ readWatchVerdict(e)
  /\ lock' = "reaper"
  /\ reaper' = [reaper EXCEPT ![e] = "done"]
  /\ BeginSweep({}, "sweeping")
  /\ UNCHANGED <<hostVars, marker, runVars, stop>>

-----------------------------------------------------------------------------
(* The emulators, the host and the user.                                   *)

AvdIsServed(a) == \E d \in Devices : Backend(d) \in Up /\ avdOf[d] = a

\* Whether a holder works from a listing it has taken.
HasListed == pc \in {"preflight", "sweeping", "undoing", "stopping", "escalating"}

\* A second emulator of an AVD that runs ends at once.
ForkBackend(e) ==
  /\ Launcher(e) \in Up /\ proc[Backend(e)] = "none"
  /\ ~AvdIsServed(avdOf[e])
  /\ proc' = [proc EXCEPT ![Backend(e)] = "up"]
  /\ Lapse("forkedLate", HasListed)
  /\ UNCHANGED <<online, avdOf, marker, lock, reaper, pc, runVars, stopVars>>

ComeOnline(d) ==
  /\ Backend(d) \in Up
  /\ online' = online \cup {d}
  /\ UNCHANGED <<proc, avdOf, marker, lock, reaper, pc, runVars, stopVars, lapses>>

EmulatorDies(e) ==
  /\ \E p \in {Launcher(e), Backend(e)} \cap Up : Kill({p})
  /\ UNCHANGED <<marker, lock, reaper, pc, runVars, stopVars, lapses>>

\* Whether processes that appear now are taken for those of a launch.
IsDiffing ==
  \/ pc \in {"listing", "launching", "booting", "settling", "undoing"}
  \/ \E a \in Avds : marker[a].isProvisional

UserBoots(a) ==
  /\ proc[Backend(User)] = "none" /\ ~AvdIsServed(a)
  /\ proc' = [proc EXCEPT ![Backend(User)] = "up"]
  /\ avdOf' = [avdOf EXCEPT ![User] = a]
  /\ Lapse("bystander", IsDiffing)
  /\ UNCHANGED <<online, marker, lock, reaper, pc, runVars, stopVars>>

-----------------------------------------------------------------------------
StopStep == StopVerified \/ StopEscalates \/ StopGivesUp

RunStep ==
  \/ BeginRun \/ CreateTransport \/ Preflight \/ Probe \/ takeOverLeftoverEmulator \/ Gate
  \/ Snapshot \/ (\E e \in Launches : Launch(e)) \/ (\E d \in Devices : DeviceAppears(d))
  \/ Claim \/ BootFails \/ UndoLaunch \/ Retry \/ Dispose \/ ExitBestEffort \/ EndRun

HolderStep == RunStep \/ StopStep \/ ReclaimNext \/ Swept

HostStep ==
  \/ HostEnds \/ RunKilled
  \/ \E e \in Launches : ForkBackend(e)
  \/ \E d \in Devices : ComeOnline(d)
  \/ \E e \in DieProne : EmulatorDies(e)
  \/ \E a \in UserAvds : UserBoots(a)

ReaperStep(e) == ReaperQuits(e) \/ ReaperTakes(e)

Next == HolderStep \/ HostStep \/ \E e \in Launches : ReaperStep(e)

Spec == Init /\ [][Next]_vars

\* A sweep goes on, and the reapers poll.
FairSpec ==
  /\ Spec
  /\ WF_vars(StopStep \/ ReclaimNext \/ Swept)
  /\ WF_vars(\E e \in Launches : ReaperStep(e))

-----------------------------------------------------------------------------
(* Properties.                                                             *)

\* With no run and no reaper at work, each process of an emulator this harness has
\* launched and not stopped is one the marker of its AVD convicts, so that a later
\* run or a reaper can stop it.  Unless a listing failed, a launch was not recorded,
\* a backend was forked after a stop had listed, or a leftover was taken for another.
LeftoverEmulatorConvictable ==
  pc = "off" /\ lapses \cap {"blind", "unrecorded", "forkedLate", "mistaken"} = {} =>
    \A e \in Launches :
      {Launcher(e), Backend(e)} \cap Up # {} =>
        {Launcher(e), Backend(e)} \cap Up \subseteq selectLiveMarkedPids(marker[avdOf[e]], Up)

Leftovers == {e \in Launches : Backend(e) \in Up}

EndsUsers == Backend(User) \in Up /\ proc'[Backend(User)] = "gone"

\* No step of a run or of a reaper ends an emulator somebody booted by hand.  Unless a
\* listing failed, a device was mistaken, or that emulator came up during a launch or
\* under the record of one.
UsersEmulatorSpared ==
  [][HolderStep /\ EndsUsers => lapses \cap {"blind", "bystander", "mistaken"} # {}]_vars

\* An emulator that ran before a launch is not touched when that launch fails.
EarlierEmulatorUntouched ==
  [][UndoLaunch /\ EndsUsers => Backend(User) \notin before]_vars

\* A backend that no run is responsible for goes, whether or not a run comes:
\* unless a listing failed, a stop gave up, a launch was not recorded, a backend was
\* forked after a stop had listed, or a leftover was taken for another.
LeftoverEmulatorStopped ==
  pc = "off" /\ Leftovers # {} ~> Leftovers = {} \/ lock = "run" \/ lapses # {}
=============================================================================
