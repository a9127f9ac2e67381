------------------------ MODULE EmulatorOwnership_proofs ------------------------
(***************************************************************************)
(* Proofs about the ownership of emulators, for any set of AVDs and any    *)
(* number of launches and of transports, whatever fails, is killed, dies   *)
(* or is mistaken: no step ends the user's emulator (SpareInv), and what   *)
(* the harness launched can be convicted by its marker (TraceInv).         *)
(***************************************************************************)
EXTENDS EmulatorOwnership, TLAPS, FiniteSetTheorems

Theirs == Backend(User)

\* Nothing has gone wrong that can make the harness take the user's emulator for its own.
Clean == lapses \cap {"blind", "bystander", "mistaken"} = {}

\* No record names the user's emulator, and the record of a launch, which convicts
\* whatever is new, counts it among what was there before.
MarkersSpare ==
  \A a \in Avds :
    /\ Theirs \notin marker[a].owned /\ marker[a].device # User
    /\ marker[a].isProvisional /\ Theirs \in Up => Theirs \in marker[a].pre

\* The transport may use the user's emulator, and then has nothing to stop.
HandleSpares ==
  /\ Theirs \notin mine.owned
  /\ mine.device = User => mine.launch = None /\ mine.owned = {} /\ pc # "settling"

StopSpares == Theirs \notin stop.owned /\ stop.device # User

ListingSpares == Theirs \in listing => Theirs \in Up /\ pc # "undoing"

\* During a launch the user's emulator is among the processes and the devices before it.
LaunchSpares ==
  Theirs \in Up =>
    /\ pc \in {"launching", "booting", "settling", "undoing"} => Theirs \in before
    /\ pc \in {"listing", "launching", "booting", "settling", "undoing"} => User \in known

Spares ==
  /\ proc[Theirs] # "gone"
  /\ MarkersSpare /\ HandleSpares /\ StopSpares /\ ListingSpares /\ LaunchSpares

\* A transport has an AVD until it is done with.
AvdKnown ==
  /\ pc \in Hosted \ {"stopping", "escalating"} => avd \in Avds
  /\ pc \in {"stopping", "escalating"} /\ stop.back \in {"starting", "preflight"} => avd \in Avds

\* The inductive invariant.
SpareInv == TypeOK /\ AvdKnown /\ (Clean => Spares)

LEMMA Tagged ==
  /\ \A e \in Launches : Launcher(e) \in Pids
  /\ \A d \in Devices : Backend(d) \in Pids
  /\ \A e, d : Launcher(e) # Backend(d)
  /\ \A d, e : Backend(d) = Backend(e) => d = e
  /\ Launches \subseteq Devices /\ User \in Devices
  BY DEF Launcher, Backend, Pids, Devices

HostOK(procs, devices, avds) ==
  /\ procs \in [Pids -> {"none", "up", "gone"}]
  /\ devices \subseteq {d \in Devices : procs[Backend(d)] = "up"}
  /\ avds \in [Devices -> Avds \cup {None}]

LEMMA HostTyped == TypeOK => HostOK(proc, online, avdOf)
  BY DEF TypeOK, HostOK, Up

LEMMA KillTyped ==
  ASSUME HostOK(proc, online, avdOf), NEW gone, Kill(gone)
  PROVE  HostOK(proc', online', avdOf')
<1>1. proc' \in [Pids -> {"none", "up", "gone"}]
  BY DEF HostOK, Kill
<1>2. ASSUME NEW d \in online' PROVE d \in Devices /\ proc'[Backend(d)] = "up"
  BY <1>2, Tagged DEF HostOK, Kill
<1> QED
  BY <1>1, <1>2 DEF HostOK, Kill

LEMMA KillTreesTyped ==
  ASSUME HostOK(proc, online, avdOf), NEW pids, NEW others, KillTrees(pids, others)
  PROVE  HostOK(proc', online', avdOf')
<1>1. PICK gone : Kill(gone)
  BY DEF KillTrees
<1> QED
  BY <1>1, KillTyped

\* HostOK in the words of TypeOK.
LEMMA HostTypes ==
  ASSUME HostOK(proc', online', avdOf')
  PROVE  /\ proc' \in [Pids -> {"none", "up", "gone"}]
         /\ online' \subseteq {d \in Devices : Backend(d) \in Up'}
         /\ avdOf' \in [Devices -> Avds \cup {None}]
  BY Tagged DEF HostOK, Up

LEMMA MarkersTyped ==
  /\ NoMarker \in Markers /\ NoHandle \in Handles
  /\ TypeOK => \A a \in Avds : marker[a] \in Markers
  /\ \A a : TypeOK => clearEmulatorMarker(a) \in [Avds -> Markers]
  /\ \A a : TypeOK => clearEmulatorMarkerIfStopped(a) \in [Avds -> Markers]
<1>1. NoMarker \in Markers /\ NoHandle \in Handles
  BY EmulatorAssumption DEF NoMarker, Markers, NoHandle, Handles, Pids
<1> QED
  BY <1>1 DEF TypeOK, clearEmulatorMarker, clearEmulatorMarkerIfStopped

LEMMA ListingsTyped == \A answer \in Listings : answer.pids \subseteq Up /\ answer.pids \subseteq Pids
  BY DEF Listings, Up

\* What a stop, a sweep and the end of a transport leave of the state.
StopBegun ==
  /\ proc' \in [Pids -> {"none", "up", "gone"}]
  /\ online' \subseteq {d \in Devices : Backend(d) \in Up'}
  /\ avdOf' \in [Devices -> Avds \cup {None}]
  /\ stop' \in [avd : Avds \cup {None}, device : Devices \cup {None}, owned : SUBSET Pids,
               back : {"between", "starting", "preflight", "sweeping"}]
  /\ pc' = "stopping"

LEMMA StopTyped ==
  ASSUME TypeOK, NEW a \in Avds \cup {None}, NEW device \in Devices \cup {None}, NEW launch,
         NEW owned \in SUBSET Pids, NEW back \in {"between", "starting", "preflight", "sweeping"},
         BeginStop(a, device, launch, owned, back)
  PROVE  StopBegun
<1>1. HostOK(proc', online', avdOf')
  BY HostTyped, KillTreesTyped DEF BeginStop
<1> QED
  BY <1>1, HostTypes DEF BeginStop, Goto, StopBegun

LEMMA ReclaimStopTyped ==
  ASSUME TypeOK, NEW a \in Avds, pc \in {"preflight", "sweeping"},
         BeginStop(a, marker[a].device, None, selectLiveMarkedPids(marker[a], listing), pc)
  PROVE  StopBegun
<1>1. marker[a].device \in Devices \cup {None} /\ selectLiveMarkedPids(marker[a], listing) \subseteq Pids
  BY DEF TypeOK, Markers, selectLiveMarkedPids
<1> QED
  BY <1>1, StopTyped

LEMMA SweepTyped ==
  ASSUME TypeOK, NEW except, NEW location, BeginSweep(except, location)
  PROVE  /\ todo' \subseteq Avds /\ listing' \subseteq Pids /\ pc' = location
         /\ lapses' \subseteq {"blind", "gaveUp", "unrecorded", "forkedLate", "mistaken", "bystander"}
<1>1. PICK answer \in Listings :
        /\ todo' = IF answer.failed THEN {} ELSE {a \in Avds \ except : marker[a] # NoMarker}
        /\ listing' = IF {a \in Avds \ except : marker[a] # NoMarker} = {} THEN {} ELSE answer.pids
        /\ Lapse("blind", answer.failed /\ {a \in Avds \ except : marker[a] # NoMarker} # {})
  BY DEF BeginSweep
<1>2. todo' \subseteq Avds /\ listing' \subseteq Pids
  BY <1>1, ListingsTyped
<1>3. lapses' = lapses \/ lapses' = lapses \cup {"blind"}
  BY <1>1 DEF Lapse
<1> QED
  BY <1>2, <1>3 DEF TypeOK, BeginSweep, Goto

LEMMA LetGoTyped ==
  ASSUME TypeOK, LetGo, UNCHANGED <<marker, lock, reaper, todo, listing, lapses>>, pc # "off"
  PROVE  TypeOK'
<1>1. mine.device \in Devices \cup {None} /\ mine.owned \subseteq Pids
  BY DEF TypeOK, Handles
<1>2. CASE mine.launch = None /\ mine.owned = {}
  BY <1>2, MarkersTyped DEF LetGo, TypeOK, Goto, Forget, hostVars, Location, Up
<1>3. CASE BeginStop(avd, mine.device, mine.launch, mine.owned, "between")
  <2>1. StopBegun
    BY <1>1, <1>3, StopTyped DEF TypeOK
  <2> QED
    BY <2>1, MarkersTyped DEF LetGo, TypeOK, Forget, Location, StopBegun
<1> QED
  BY <1>2, <1>3 DEF LetGo

LEMMA UndoTyped ==
  ASSUME TypeOK, UndoLaunch
  PROVE  TypeOK'
<1>1. PICK listed \in SUBSET {d \in Devices : Backend(d) \in Up} :
        BeginStop(avd, OnlyNewDevice(listed), mine.launch, listing, "between")
  BY DEF UndoLaunch
<1>2. OnlyNewDevice(listed) \in Devices \cup {None}
  <2>1. CASE Cardinality(listed \ known) = 1
    <3>1. listed \ known # {}
      BY <2>1, FS_EmptySet
    <3> QED
      BY <2>1, <3>1 DEF OnlyNewDevice
  <2> QED
    BY <2>1 DEF OnlyNewDevice
<1>3. listing \subseteq Pids /\ avd \in Avds \cup {None}
  BY DEF TypeOK
<1> QED
  <2>1. StopBegun
    BY <1>1, <1>2, <1>3, StopTyped
  <2> QED
    BY <2>1, MarkersTyped DEF UndoLaunch, TypeOK, Forget, Location, StopBegun

LEMMA TakeOverTyped ==
  ASSUME TypeOK, takeOverLeftoverEmulator
  PROVE  /\ marker' \in [Avds -> Markers] /\ mine' \in Handles
         /\ reaper' \in [Launches -> {"off", "watching", "done"}]
         /\ lapses' \subseteq {"blind", "gaveUp", "unrecorded", "forkedLate", "mistaken", "bystander"}
<1> DEFINE m == marker[avd]  found == selectLiveMarkedPids(m, Up)
<1>1. CASE UNCHANGED <<marker, reaper, mine, lapses>>
  BY <1>1 DEF TypeOK
<1>2. CASE marker' = clearEmulatorMarker(avd) /\ UNCHANGED <<reaper, mine, lapses>>
  BY <1>2, MarkersTyped DEF TypeOK
<1>3. CASE /\ found # {}
           /\ mine' = [mine EXCEPT !.owned = found]
           /\ marker' = [marker EXCEPT ![avd] = TakenOver(m, found)]
           /\ Arm(m.launch)
           /\ Lapse("mistaken", mine.device # m.launch)
  <2>1. found \subseteq Pids
    BY DEF selectLiveMarkedPids, Up
  <2>2. CASE avd \in Avds
    BY <1>3, <2>1, <2>2 DEF TypeOK, TakenOver, Markers, Handles, Arm, Lapse
  <2>3. CASE avd \notin Avds
    BY <1>3, <2>1, <2>3 DEF TypeOK, Handles, Arm, Lapse
  <2> QED
    BY <2>2, <2>3
<1> QED
  BY <1>1, <1>2, <1>3 DEF takeOverLeftoverEmulator

LEMMA TypeInit == Init => TypeOK
<1>1. Init => /\ proc \in [Pids -> {"none", "up", "gone"}] /\ online = {}
              /\ avdOf \in [Devices -> Avds \cup {None}]
  BY DEF Init
<1>2. NoStop \in [avd : Avds \cup {None}, device : Devices \cup {None}, owned : SUBSET Pids,
               back : {"between", "starting", "preflight", "sweeping"}]
  BY DEF NoStop
<1> QED
  BY <1>1, <1>2, MarkersTyped, EmulatorAssumption DEF Init, TypeOK, Location

LEMMA TypeStep == TypeOK /\ [Next]_vars => TypeOK'
<1> SUFFICES ASSUME TypeOK, [Next]_vars PROVE TypeOK'
  OBVIOUS
<1> USE EmulatorAssumption DEF TypeOK, Goto, Up, hostVars, runVars, stopVars, Location, Hosted
<1>1. ASSUME StopVerified PROVE TypeOK'
  BY <1>1, MarkersTyped DEF StopVerified, Return, NoStop
<1>2. ASSUME StopEscalates PROVE TypeOK'
  <2>1. HostOK(proc', online', avdOf')
    BY <1>2, HostTyped, KillTreesTyped DEF StopEscalates
  <2> QED
    BY <1>2, <2>1, HostTypes DEF StopEscalates
<1>3. ASSUME StopGivesUp PROVE TypeOK'
  BY <1>3 DEF StopGivesUp, Return, NoStop, Lapse
<1>4. ASSUME ReclaimNext PROVE TypeOK'
  <2>1. PICK a \in todo : Reclaim(a)
    BY <1>4 DEF ReclaimNext
  <2>2. CASE UNCHANGED <<hostVars, pc, stop>>
    BY <1>4, <2>1, <2>2, MarkersTyped DEF ReclaimNext, Reclaim
  <2>3. CASE BeginStop(a, marker[a].device, None, selectLiveMarkedPids(marker[a], listing), pc)
             /\ UNCHANGED marker
    <3>1. StopBegun
      BY <1>4, <2>1, <2>3, ReclaimStopTyped DEF ReclaimNext
    <3> QED
      BY <1>4, <2>1, <2>3, <3>1 DEF ReclaimNext, Reclaim, StopBegun
  <2> QED
    BY <2>1, <2>2, <2>3 DEF Reclaim
<1>5. ASSUME Swept PROVE TypeOK'
  BY <1>5 DEF Swept
<1>6. ASSUME BeginRun PROVE TypeOK'
  BY <1>6 DEF BeginRun
<1>7. ASSUME CreateTransport PROVE TypeOK'
  BY <1>7 DEF CreateTransport
<1>8. ASSUME Preflight PROVE TypeOK'
  BY <1>8, SweepTyped DEF Preflight
<1>9. ASSUME Probe PROVE TypeOK'
  <2>1. lapses' \subseteq {"blind", "gaveUp", "unrecorded", "forkedLate", "mistaken", "bystander"}
    BY <1>9 DEF Probe, Lapse
  <2>2. mine' \in Handles /\ known' \subseteq Devices
    BY <1>9, MarkersTyped DEF Probe, Handles, NoHandle, Forget
  <2> QED
    BY <1>9, <2>1, <2>2 DEF Probe, Forget
<1>10. ASSUME takeOverLeftoverEmulator PROVE TypeOK'
  BY <1>10, TakeOverTyped DEF takeOverLeftoverEmulator
<1>11. ASSUME Gate PROVE TypeOK'
  BY <1>11, LetGoTyped DEF Gate
<1>12. ASSUME Snapshot PROVE TypeOK'
  BY <1>12, ListingsTyped DEF Snapshot, Lapse
<1>13. ASSUME NEW e \in Launches, Launch(e) PROVE TypeOK'
  <2>1. proc' \in [Pids -> {"none", "up", "gone"}] /\ proc'[Launcher(e)] = "up"
        /\ \A p \in Up : p \in Up'
    BY <1>13, Tagged DEF Launch
  <2>2. avdOf' \in [Devices -> Avds \cup {None}] /\ mine' \in Handles
    BY <1>13, Tagged, MarkersTyped DEF Launch, Handles, NoHandle
  <2>3. lapses' \subseteq {"blind", "gaveUp", "unrecorded", "forkedLate", "mistaken", "bystander"}
    BY <1>13 DEF Launch, Lapse
  <2>4. marker' \in [Avds -> Markers] /\ reaper' \in [Launches -> {"off", "watching", "done"}]
    <3>1. CASE UNCHANGED <<marker, reaper>>
      BY <3>1
    <3>2. CASE marker' = [marker EXCEPT ![avd] = ProvisionalMarker(e)] /\ Arm(e)
      <4>1. ProvisionalMarker(e) \in Markers
        BY Tagged DEF ProvisionalMarker, Markers
      <4> QED
        BY <3>2, <4>1 DEF Arm
    <3> QED
      BY <1>13, <3>1, <3>2 DEF Launch
  <2> QED
    BY <1>13, <2>1, <2>2, <2>3, <2>4, Tagged DEF Launch
<1>14. ASSUME NEW d \in Devices, DeviceAppears(d) PROVE TypeOK'
  <2>1. mine' \in Handles
    BY <1>14 DEF DeviceAppears, Handles
  <2>2. marker' \in [Avds -> Markers]
    <3>1. \A m \in Markers : [m EXCEPT !.device = d] \in Markers
      BY DEF Markers
    <3> QED
      BY <1>14, <3>1 DEF DeviceAppears
  <2> QED
    BY <1>14, <2>1, <2>2 DEF DeviceAppears, Lapse
<1>15. ASSUME Claim PROVE TypeOK'
  <2>1. PICK answer \in Listings : LET owned == answer.pids \ before
       IN /\ mine' = [mine EXCEPT !.owned = owned]
          /\ marker' = [marker EXCEPT ![avd] = FinalMarker(owned)]
          /\ Lapse("blind", answer.failed)
    BY <1>15 DEF Claim
  <2>2. answer.pids \ before \subseteq Pids
    BY DEF Listings
  <2>3. mine' \in Handles /\ marker' \in [Avds -> Markers]
    BY <2>1, <2>2 DEF Handles, Markers, FinalMarker
  <2>4. reaper' \in [Launches -> {"off", "watching", "done"}]
    BY <1>15 DEF Claim, Arm
  <2> QED
    BY <1>15, <2>1, <2>3, <2>4 DEF Claim, Lapse
<1>16. ASSUME BootFails PROVE TypeOK'
  BY <1>16, ListingsTyped DEF BootFails, Lapse
<1>17. ASSUME UndoLaunch PROVE TypeOK'
  BY <1>17, UndoTyped DEF UndoLaunch
<1>18. ASSUME Retry PROVE TypeOK'
  <2>1. BeginStop(avd, mine.device, mine.launch, mine.owned, "starting")
    BY <1>18 DEF Retry
  <2>2. mine.device \in Devices \cup {None} /\ mine.owned \subseteq Pids
    BY DEF Handles
  <2>3. StopBegun
    BY <2>1, <2>2, StopTyped
  <2> QED
    BY <1>18, <2>3, MarkersTyped DEF Retry, StopBegun
<1>19. ASSUME Dispose PROVE TypeOK'
  BY <1>19, LetGoTyped DEF Dispose
<1>20. ASSUME ExitBestEffort PROVE TypeOK'
  <2>1. HostOK(proc', online', avdOf')
    BY <1>20, HostTyped, KillTyped DEF ExitBestEffort
  <2>2. marker' \in [Avds -> Markers]
    BY <1>20, MarkersTyped DEF ExitBestEffort
  <2> QED
    BY <1>20, <2>1, <2>2, HostTypes, MarkersTyped DEF ExitBestEffort, HostGone, Forget
<1>21. ASSUME EndRun PROVE TypeOK'
  <2>1. CASE pc' = "off" /\ lock' = "free" /\ UNCHANGED <<todo, listing, lapses>>
    BY <1>21, <2>1 DEF EndRun
  <2>2. CASE BeginSweep({}, "sweeping") /\ UNCHANGED lock
    BY <1>21, <2>2, SweepTyped DEF EndRun
  <2> QED
    BY <1>21, <2>1, <2>2 DEF EndRun
<1>22. ASSUME HostEnds PROVE TypeOK'
  BY <1>22, MarkersTyped DEF HostEnds, IsHosted, HostGone, Forget, NoStop
<1>23. ASSUME RunKilled PROVE TypeOK'
  BY <1>23 DEF RunKilled, NoStop
<1>24. ASSUME NEW e \in Launches, ForkBackend(e) PROVE TypeOK'
  BY <1>24, Tagged DEF ForkBackend, Lapse
<1>25. ASSUME NEW d \in Devices, ComeOnline(d) PROVE TypeOK'
  BY <1>25, Tagged DEF ComeOnline
<1>26. ASSUME NEW e \in DieProne, EmulatorDies(e) PROVE TypeOK'
  <2>1. HostOK(proc', online', avdOf')
    BY <1>26, HostTyped, KillTyped DEF EmulatorDies
  <2> QED
    BY <1>26, <2>1, HostTypes DEF EmulatorDies
<1>27. ASSUME NEW a \in UserAvds, UserBoots(a) PROVE TypeOK'
  BY <1>27, Tagged DEF UserBoots, Lapse
<1>28. ASSUME NEW e \in Launches, ReaperQuits(e) PROVE TypeOK'
  BY <1>28 DEF ReaperQuits
<1>29. ASSUME NEW e \in Launches, ReaperTakes(e) PROVE TypeOK'
  BY <1>29, SweepTyped DEF ReaperTakes
<1>30. CASE UNCHANGED vars
  BY <1>30 DEF vars
<1> QED
  BY <1>1, <1>2, <1>3, <1>4, <1>5, <1>6, <1>7, <1>8, <1>9, <1>10, <1>11, <1>12, <1>13, <1>14,
     <1>15, <1>16, <1>17, <1>18, <1>19, <1>20, <1>21, <1>22, <1>23, <1>24, <1>25, <1>26, <1>27,
     <1>28, <1>29, <1>30
     DEF Next, HolderStep, RunStep, StopStep, HostStep, ReaperStep

\* The records, the locations and the stops stay in their sets.
THEOREM TypeCorrect == Spec => []TypeOK
<1> QED
  BY TypeInit, TypeStep, PTL DEF Spec

-----------------------------------------------------------------------------
(* The user's emulator.                                                    *)

LEMMA KillSpares ==
  ASSUME TypeOK, NEW gone, Kill(gone), Theirs \notin gone
  PROVE  proc'[Theirs] = proc[Theirs]
  BY Tagged DEF Kill, Theirs, TypeOK

LEMMA KillTreesSpares ==
  ASSUME TypeOK, NEW pids, NEW others, KillTrees(pids, others),
         Theirs \notin pids, Theirs \notin others
  PROVE  proc'[Theirs] = proc[Theirs]
<1>1. Theirs \notin Forked(pids)
  BY Tagged DEF Forked, Theirs, Launches, User
<1>2. PICK taken \in SUBSET (Forked(pids) \cup others), alive \in SUBSET (pids \cap Surviving) :
        Kill((pids \ alive) \cup taken)
  BY DEF KillTrees
<1> QED
  BY <1>1, <1>2, KillSpares

\* A stop that is given neither the user's device nor its processes leaves both alone.
LEMMA StopSparesUser ==
  ASSUME TypeOK, NEW a, NEW device, device # User, NEW launch, NEW owned, Theirs \notin owned,
         NEW back, BeginStop(a, device, launch, owned, back)
  PROVE  proc'[Theirs] = proc[Theirs] /\ StopSpares' /\ pc' = "stopping"
<1>1. Theirs \notin {Launcher(e) : e \in {launch} \ {None}}
  BY Tagged DEF Theirs
<1>2. Theirs \notin {Backend(d) : d \in {device} \ {None}}
  BY Tagged DEF Theirs
<1>3. proc'[Theirs] = proc[Theirs]
  BY <1>1, <1>2, KillTreesSpares DEF BeginStop
<1> QED
  BY <1>3 DEF BeginStop, StopSpares, Goto

\* A listing condemns nothing of the user's.
LEMMA VerdictSpares ==
  ASSUME Clean, Spares, NEW a \in Avds, NEW pids, Theirs \in pids => Theirs \in Up
  PROVE  Theirs \notin selectLiveMarkedPids(marker[a], pids)
  BY DEF Spares, MarkersSpare, selectLiveMarkedPids

LEMMA UserUp ==
  TypeOK /\ proc'[Theirs] = proc[Theirs] => (Theirs \in Up <=> Theirs \in Up')
  BY Tagged DEF Up, Theirs

\* What has gone wrong is not forgotten.
LEMMA LapsesGrow == [Next]_vars => lapses \subseteq lapses'
<1> SUFFICES ASSUME [Next]_vars PROVE lapses \subseteq lapses'
  OBVIOUS
<1>1. CASE UNCHANGED lapses
  BY <1>1
<1>2. CASE \E cause, occurs : Lapse(cause, occurs)
  BY <1>2 DEF Lapse
<1> QED
  BY <1>1, <1>2
     DEF Next, HolderStep, RunStep, StopStep, HostStep, ReaperStep, vars, StopVerified,
         StopEscalates, StopGivesUp, ReclaimNext, Swept, BeginRun, CreateTransport, Preflight,
         Probe, takeOverLeftoverEmulator, Gate, Snapshot, Launch, DeviceAppears, Claim, BootFails,
         UndoLaunch, Retry, Dispose, ExitBestEffort, EndRun, HostEnds, RunKilled, ForkBackend,
         ComeOnline, EmulatorDies, UserBoots, ReaperQuits, ReaperTakes, BeginSweep

LEMMA CleanBefore == [Next]_vars /\ Clean' => Clean
  BY LapsesGrow DEF Clean

\* A launch and a stop of the transport's own emulator concern no process of the user's.
LEMMA LetGoSpares ==
  ASSUME TypeOK, Spares, LetGo
  PROVE  /\ proc'[Theirs] = proc[Theirs] /\ StopSpares' /\ HandleSpares'
         /\ pc' \in {"between", "stopping"}
<1>1. HandleSpares'
  BY EmulatorAssumption DEF LetGo, Forget, HandleSpares, NoHandle, User
<1>2. CASE mine.launch = None /\ mine.owned = {}
  BY <1>1, <1>2 DEF LetGo, Goto, hostVars, Spares, StopSpares
<1>3. CASE ~(mine.launch = None /\ mine.owned = {})
  <2>1. mine.device # User /\ Theirs \notin mine.owned
    BY <1>3 DEF Spares, HandleSpares
  <2> QED
    BY <1>1, <1>3, <2>1, StopSparesUser DEF LetGo
<1> QED
  BY <1>2, <1>3

LEMMA ReclaimSpares ==
  ASSUME TypeOK, Clean, Spares, ReclaimNext
  PROVE  /\ proc'[Theirs] = proc[Theirs] /\ StopSpares'
         /\ pc' \in {"preflight", "sweeping", "stopping"}
         /\ \/ UNCHANGED marker
            \/ \E a \in Avds : marker' = clearEmulatorMarker(a)
<1>1. PICK a \in todo : Reclaim(a)
  BY DEF ReclaimNext
<1>2. a \in Avds
  BY <1>1 DEF TypeOK
<1>3. CASE UNCHANGED <<hostVars, pc, stop>>
  BY <1>1, <1>2, <1>3 DEF ReclaimNext, Reclaim, hostVars, Spares, StopSpares
<1>4. CASE BeginStop(a, marker[a].device, None, selectLiveMarkedPids(marker[a], listing), pc)
  <2>1. marker[a].device # User
    BY <1>2 DEF Spares, MarkersSpare
  <2>2. Theirs \notin selectLiveMarkedPids(marker[a], listing)
    BY <1>2, VerdictSpares DEF Spares, ListingSpares
  <2>3. proc'[Theirs] = proc[Theirs] /\ StopSpares' /\ pc' = "stopping"
    BY <1>4, <2>1, <2>2, StopSparesUser
  <2> QED
    BY <1>1, <1>2, <2>3 DEF Reclaim
<1> QED
  BY <1>1, <1>3, <1>4 DEF Reclaim

LEMMA UndoSpares ==
  ASSUME TypeOK, Spares, UndoLaunch
  PROVE  proc'[Theirs] = proc[Theirs] /\ StopSpares' /\ pc' = "stopping"
<1>1. PICK listed \in SUBSET {d \in Devices : Backend(d) \in Up} :
        BeginStop(avd, OnlyNewDevice(listed), mine.launch, listing, "between")
  BY DEF UndoLaunch
<1>2. User \notin listed \ known
  BY DEF Spares, LaunchSpares, UndoLaunch, Theirs
<1>3. OnlyNewDevice(listed) # User
  <2>1. CASE Cardinality(listed \ known) = 1
    <3>1. listed \ known # {}
      BY <2>1, FS_EmptySet
    <3> QED
      BY <1>2, <2>1, <3>1 DEF OnlyNewDevice
  <2> QED
    BY <2>1, EmulatorAssumption DEF OnlyNewDevice, User
<1>4. Theirs \notin listing
  BY DEF Spares, ListingSpares, UndoLaunch
<1> QED
  BY <1>1, <1>3, <1>4, StopSparesUser

\* No step of a run or of a reaper ends the user's emulator.
LEMMA HolderSpares ==
  ASSUME TypeOK, Clean, Spares, HolderStep
  PROVE  proc'[Theirs] = proc[Theirs]
<1>1. CASE StopEscalates
  BY <1>1, KillTreesSpares DEF StopEscalates, Spares, StopSpares
<1>2. CASE ReclaimNext
  BY <1>2, ReclaimSpares
<1>3. CASE Gate
  BY <1>3, LetGoSpares DEF Gate, hostVars
<1>4. CASE \E e \in Launches : Launch(e)
  BY <1>4, Tagged DEF Launch, TypeOK, Theirs
<1>5. CASE UndoLaunch
  BY <1>5, UndoSpares
<1>6. CASE Retry
  <2>1. mine.device # User /\ Theirs \notin mine.owned
    BY <1>6 DEF Retry, Spares, HandleSpares
  <2> QED
    BY <1>6, <2>1, StopSparesUser DEF Retry
<1>7. CASE Dispose
  BY <1>7, LetGoSpares DEF Dispose
<1>8. CASE ExitBestEffort
  <2> DEFINE launchers == {Launcher(e) : e \in {mine.launch} \ {None}}
  <2>1. PICK reached \in SUBSET Forked(launchers) :
          \E alive \in SUBSET Pids :
            Kill((launchers \cup reached)
                 \cup (((mine.owned \cap Up) \ (launchers \cup reached)) \ alive))
    BY <1>8 DEF ExitBestEffort, TypeOK, Handles, Up
  <2>2. Theirs \notin Forked(launchers)
    BY Tagged DEF Forked, Theirs, Launches, User
  <2>3. Theirs \notin launchers
    BY Tagged DEF Theirs
  <2>4. Theirs \notin mine.owned
    BY DEF Spares, HandleSpares
  <2>5. PICK alive \in SUBSET Pids :
          Kill((launchers \cup reached)
               \cup (((mine.owned \cap Up) \ (launchers \cup reached)) \ alive))
    BY <2>1
  <2>6. Theirs \notin (launchers \cup reached)
                      \cup (((mine.owned \cap Up) \ (launchers \cup reached)) \ alive)
    BY <2>2, <2>3, <2>4
  <2> QED
    BY <2>5, <2>6, KillSpares
<1>9. CASE UNCHANGED proc
  BY <1>9
<1> QED
  BY <1>1, <1>2, <1>3, <1>4, <1>5, <1>6, <1>7, <1>8, <1>9
     DEF HolderStep, RunStep, StopStep, hostVars, StopVerified, StopGivesUp, Swept, BeginRun,
         CreateTransport, Preflight, Probe, takeOverLeftoverEmulator, Snapshot, DeviceAppears,
         Claim, BootFails, EndRun

\* What is left alone, or emptied, still spares the user's emulator.
LEMMA Unchanged ==
  ASSUME TypeOK, Spares, proc'[Theirs] = proc[Theirs]
  PROVE  /\ proc'[Theirs] # "gone"
         /\ UNCHANGED marker => MarkersSpare'
         /\ \A a : marker' = clearEmulatorMarker(a) => MarkersSpare'
         /\ UNCHANGED mine /\ pc' # "settling" => HandleSpares'
         /\ mine' = NoHandle => HandleSpares'
         /\ UNCHANGED stop \/ stop' = NoStop => StopSpares'
         /\ UNCHANGED listing /\ pc' # "undoing" => ListingSpares'
         /\ listing' = {} => ListingSpares'
         /\ pc' \notin {"listing", "launching", "booting", "settling", "undoing"} => LaunchSpares'
<1>1. Theirs \in Up <=> Theirs \in Up'
  BY UserUp
<1>2. NoMarker.device # User /\ Theirs \notin NoMarker.owned /\ ~NoMarker.isProvisional
  BY EmulatorAssumption DEF NoMarker, User
<1>3. ASSUME UNCHANGED marker PROVE MarkersSpare'
  BY <1>1, <1>3 DEF Spares, MarkersSpare, Theirs
<1>4. ASSUME NEW a, marker' = clearEmulatorMarker(a) PROVE MarkersSpare'
  <2>1. \A b \in Avds : marker'[b] = marker[b] \/ marker'[b] = NoMarker
    BY <1>4 DEF clearEmulatorMarker, TypeOK
  <2> QED
    BY <1>1, <1>2, <2>1 DEF Spares, MarkersSpare, Theirs
<1>5. UNCHANGED mine /\ pc' # "settling" => HandleSpares'
  BY DEF Spares, HandleSpares, Theirs
<1>6. mine' = NoHandle => HandleSpares'
  BY EmulatorAssumption DEF HandleSpares, NoHandle, User
<1>7. UNCHANGED stop \/ stop' = NoStop => StopSpares'
  BY EmulatorAssumption DEF Spares, StopSpares, NoStop, User, Theirs
<1>8. UNCHANGED listing /\ pc' # "undoing" => ListingSpares'
  BY <1>1 DEF Spares, ListingSpares, Theirs
<1>9. listing' = {} => ListingSpares'
  BY DEF ListingSpares
<1>10. pc' \notin {"listing", "launching", "booting", "settling", "undoing"} => LaunchSpares'
  BY DEF LaunchSpares
<1> QED
  BY <1>3, <1>4, <1>5, <1>6, <1>7, <1>8, <1>9, <1>10 DEF Spares

LEMMA SweepSpares ==
  ASSUME TypeOK, Spares, Clean, Clean', proc'[Theirs] = proc[Theirs],
         NEW except, NEW location, BeginSweep(except, location), location # "undoing"
  PROVE  ListingSpares' /\ pc' = location
<1>1. listing' \subseteq Up
  BY ListingsTyped DEF BeginSweep
<1> QED
  BY <1>1, UserUp DEF BeginSweep, Goto, ListingSpares, Theirs

\* A listing that spoils nothing shows the user's emulator.
LEMMA Listed ==
  ASSUME TypeOK, NEW answer \in Listings, Lapse("blind", answer.failed), Clean'
  PROVE  answer.pids = Up
  BY DEF Listings, Lapse, Clean

\* A step that moves no pc, no record and no process of the user's.
LEMMA Idle ==
  ASSUME TypeOK, Spares, proc'[Theirs] = proc[Theirs],
         UNCHANGED <<marker, pc, runVars, stopVars>>
  PROVE  Spares'
<1>1. Theirs \in Up <=> Theirs \in Up'
  BY UserUp
<1> QED
  BY <1>1 DEF Spares, MarkersSpare, HandleSpares, StopSpares, ListingSpares, LaunchSpares,
              runVars, stopVars, Theirs

LEMMA TakeOverSpares ==
  ASSUME TypeOK, AvdKnown, Spares, Clean, Clean', takeOverLeftoverEmulator, proc'[Theirs] = proc[Theirs]
  PROVE  MarkersSpare' /\ HandleSpares'
<1> DEFINE m == marker[avd]  found == selectLiveMarkedPids(m, Up)
<1>1. pc' = "gating"
  BY DEF takeOverLeftoverEmulator, Goto
<1>2. CASE UNCHANGED <<marker, reaper, mine, lapses>>
  BY <1>1, <1>2, Unchanged
<1>3. CASE marker' = clearEmulatorMarker(avd) /\ UNCHANGED <<reaper, mine, lapses>>
  BY <1>1, <1>3, Unchanged
<1>4. CASE /\ found # {}
           /\ mine' = [mine EXCEPT !.owned = found]
           /\ marker' = [marker EXCEPT ![avd] = TakenOver(m, found)]
           /\ Lapse("mistaken", mine.device # m.launch)
  <2>1. mine.device = m.launch
    BY <1>4 DEF Lapse, Clean
  <2>2. avd \in Avds
    BY DEF takeOverLeftoverEmulator, AvdKnown, Hosted, Location
  <2>3. m.launch # User
    BY <2>2, EmulatorAssumption DEF TypeOK, Markers, Launches, User
  <2>4. Theirs \notin found
    BY <2>2, VerdictSpares
  <2>5. HandleSpares'
    BY <1>1, <1>4, <2>1, <2>3, <2>4 DEF HandleSpares, TypeOK, Handles, Theirs
  <2>6. \A a \in Avds : marker'[a] = marker[a] \/ marker'[a] = TakenOver(m, found)
    BY <1>4 DEF TypeOK
  <2>7. MarkersSpare'
    BY <2>1, <2>3, <2>4, <2>6, UserUp DEF MarkersSpare, TakenOver, Spares, Theirs
  <2> QED
    BY <2>5, <2>7
<1> QED
  BY <1>2, <1>3, <1>4 DEF takeOverLeftoverEmulator

\* The record of a launch counts the user's emulator among what was there before.
LEMMA LaunchMarkerSpares ==
  ASSUME TypeOK, Spares, NEW e \in Launches, Launch(e), proc'[Theirs] = proc[Theirs]
  PROVE  MarkersSpare'
<1>1. \A a \in Avds : marker'[a] = marker[a] \/ marker'[a] = ProvisionalMarker(e)
  BY DEF Launch, TypeOK
<1>2. Theirs \in Up' => Theirs \in Up /\ Theirs \in before
  BY UserUp DEF Launch, Spares, LaunchSpares
<1>3. Theirs # Launcher(e)
  BY Tagged DEF Theirs
<1> QED
  BY <1>1, <1>2, <1>3, EmulatorAssumption
     DEF MarkersSpare, ProvisionalMarker, Spares, Theirs, User

LEMMA DeviceMarkerSpares ==
  ASSUME TypeOK, Spares, NEW d \in Devices, d # User, DeviceAppears(d), proc'[Theirs] = proc[Theirs]
  PROVE  MarkersSpare'
<1>1. \A a \in Avds : marker'[a] = marker[a] \/ marker'[a] = [marker[a] EXCEPT !.device = d]
  BY DEF DeviceAppears, TypeOK
<1>2. \A a \in Avds : marker[a] \in Markers
  BY DEF TypeOK
<1>3. \A a \in Avds : /\ marker'[a].owned = marker[a].owned /\ marker'[a].pre = marker[a].pre
                      /\ marker'[a].isProvisional = marker[a].isProvisional
                      /\ marker'[a].device \in {marker[a].device, d}
  BY <1>1, <1>2 DEF Markers
<1> QED
  BY <1>3, UserUp DEF MarkersSpare, Spares, Theirs

LEMMA SpareStep ==
  ASSUME TypeOK, AvdKnown, Spares, Clean, Clean', [Next]_vars
  PROVE  Spares'
<1> USE DEF Goto
<1>0. HolderStep => proc'[Theirs] = proc[Theirs]
  BY HolderSpares
<1>1. CASE StopVerified
  <2>1. proc'[Theirs] = proc[Theirs] /\ pc' \in {"between", "starting", "preflight", "sweeping"}
    BY <1>0, <1>1 DEF HolderStep, StopStep, StopVerified, Return, TypeOK
  <2>2. MarkersSpare'
    BY <1>1, <2>1, Unchanged DEF StopVerified, clearEmulatorMarkerIfStopped
  <2> QED
    BY <1>1, <2>1, <2>2, Unchanged DEF Spares, StopVerified, Return, runVars
<1>2. CASE StopEscalates
  BY <1>0, <1>2, Unchanged DEF HolderStep, StopStep, Spares, StopEscalates, runVars, stopVars
<1>3. CASE StopGivesUp
  <2>1. proc'[Theirs] = proc[Theirs] /\ pc' \in {"between", "starting", "preflight", "sweeping"}
    BY <1>0, <1>3 DEF HolderStep, StopStep, StopGivesUp, Return, TypeOK
  <2> QED
    BY <1>3, <2>1, Unchanged DEF Spares, StopGivesUp, Return, runVars
<1>4. CASE ReclaimNext
  BY <1>4, ReclaimSpares, Unchanged DEF Spares, ReclaimNext, runVars
<1>5. CASE Swept
  BY <1>5, Unchanged DEF Spares, Swept, hostVars, runVars
<1>6. CASE BeginRun
  BY <1>6, Unchanged DEF Spares, BeginRun, hostVars, runVars, stopVars
<1>7. CASE CreateTransport
  BY <1>7, Unchanged DEF Spares, CreateTransport, hostVars, stopVars
<1>8. CASE Preflight
  <2>1. proc'[Theirs] = proc[Theirs]
    BY <1>8 DEF Preflight, hostVars
  <2>2. ListingSpares' /\ pc' = "preflight"
    BY <1>8, <2>1, SweepSpares DEF Preflight
  <2> QED
    BY <1>8, <2>1, <2>2, Unchanged DEF Spares, Preflight, runVars
<1>9. CASE Probe
  <2>1. proc'[Theirs] = proc[Theirs] /\ pc' \in {"adopting", "listing", "between"}
    BY <1>9 DEF Probe, hostVars
  <2>2. HandleSpares'
    BY <1>9, <2>1, Unchanged DEF Probe, HandleSpares, NoHandle, Forget
  <2>3. LaunchSpares'
    <3>1. CASE pc' = "listing"
      <4>1. known' = online /\ Lapse("bystander", Backend(User) \in Up /\ User \notin online)
        BY <1>9, <3>1 DEF Probe
      <4>2. Theirs \in Up => User \in known'
        BY <4>1 DEF Lapse, Clean, Theirs
      <4> QED
        BY <2>1, <3>1, <4>2, UserUp DEF LaunchSpares, Theirs
    <3> QED
      BY <2>1, <3>1, Unchanged
  <2> QED
    BY <1>9, <2>1, <2>2, <2>3, Unchanged DEF Spares, Probe, stopVars
<1>10. CASE takeOverLeftoverEmulator
  <2>1. proc'[Theirs] = proc[Theirs] /\ pc' = "gating"
    BY <1>10 DEF takeOverLeftoverEmulator, hostVars
  <2>2. MarkersSpare' /\ HandleSpares'
    BY <1>10, <2>1, TakeOverSpares
  <2> QED
    BY <1>10, <2>1, <2>2, Unchanged DEF Spares, takeOverLeftoverEmulator, stopVars
<1>11. CASE Gate
  <2>1. CASE LetGo
    BY <1>11, <2>1, LetGoSpares, Unchanged DEF Spares, Gate
  <2>2. CASE pc' = "ready" /\ UNCHANGED <<hostVars, runVars, stop>>
    BY <1>11, <2>2, Unchanged DEF Spares, Gate, hostVars, runVars
  <2> QED
    BY <1>11, <2>1, <2>2 DEF Gate
<1>12. CASE Snapshot
  <2>1. proc'[Theirs] = proc[Theirs] /\ pc' = "launching" /\ known' = known /\ pc = "listing"
    BY <1>12 DEF Snapshot, hostVars
  <2>2. before' = Up
    BY <1>12, Listed DEF Snapshot
  <2>3. LaunchSpares'
    BY <2>1, <2>2, UserUp DEF Spares, LaunchSpares, Theirs
  <2> QED
    BY <1>12, <2>1, <2>3, Unchanged DEF Spares, Snapshot, stopVars
<1>13. ASSUME NEW e \in Launches, Launch(e) PROVE Spares'
  <2>1. proc'[Theirs] = proc[Theirs] /\ pc' = "booting" /\ pc = "launching"
    BY <1>0, <1>13 DEF HolderStep, RunStep, Launch
  <2>2. Theirs \in Up <=> Theirs \in Up'
    BY <2>1, UserUp
  <2>3. LaunchSpares'
    BY <1>13, <2>1, <2>2 DEF Launch, Spares, LaunchSpares, Theirs
  <2>4. HandleSpares'
    BY <1>13, EmulatorAssumption DEF Launch, HandleSpares, NoHandle, User
  <2>5. MarkersSpare'
    BY <1>13, <2>1, LaunchMarkerSpares
  <2> QED
    BY <1>13, <2>1, <2>3, <2>4, <2>5, Unchanged DEF Spares, Launch, stopVars
<1>14. ASSUME NEW d \in Devices, DeviceAppears(d) PROVE Spares'
  <2>1. proc'[Theirs] = proc[Theirs] /\ pc' = "settling" /\ pc = "booting"
    BY <1>14 DEF DeviceAppears, hostVars
  <2>2. Theirs \in Up <=> Theirs \in Up'
    BY <2>1, UserUp
  <2>3. d # User
    <3>1. d = mine.launch
      BY <1>14 DEF DeviceAppears, Lapse, Clean
    <3>2. mine.launch \in Launches \cup {None}
      BY DEF TypeOK, Handles
    <3> QED
      BY <3>1, <3>2, EmulatorAssumption DEF Launches, User
  <2>4. LaunchSpares'
    BY <1>14, <2>1, <2>2 DEF DeviceAppears, Spares, LaunchSpares, Theirs
  <2>5. HandleSpares'
    BY <1>14, <2>3 DEF DeviceAppears, Spares, HandleSpares, TypeOK, Handles, Theirs
  <2>6. MarkersSpare'
    BY <1>14, <2>1, <2>3, DeviceMarkerSpares
  <2> QED
    BY <1>14, <2>1, <2>4, <2>5, <2>6, Unchanged DEF Spares, DeviceAppears, stopVars
<1>15. CASE Claim
  <2>1. proc'[Theirs] = proc[Theirs] /\ pc' = "ready" /\ pc = "settling"
    BY <1>15 DEF Claim, hostVars
  <2>2. mine' = [mine EXCEPT !.owned = Up \ before]
        /\ marker' = [marker EXCEPT ![avd] = FinalMarker(Up \ before)]
    BY <1>15, Listed DEF Claim
  <2>3. Theirs \notin Up \ before /\ mine.device # User
    BY <2>1 DEF Spares, LaunchSpares, HandleSpares
  <2>4. HandleSpares'
    BY <2>2, <2>3 DEF HandleSpares, TypeOK, Handles, Theirs
  <2>5. \A a \in Avds : marker'[a] = marker[a] \/ marker'[a] = FinalMarker(Up \ before)
    BY <2>2 DEF TypeOK
  <2>6. Theirs \in Up <=> Theirs \in Up'
    BY <2>1, UserUp
  <2>7. MarkersSpare'
    BY <2>3, <2>5, <2>6 DEF MarkersSpare, FinalMarker, Spares, Theirs
  <2> QED
    BY <1>15, <2>1, <2>4, <2>7, Unchanged DEF Spares, Claim, stopVars
<1>16. CASE BootFails
  <2>1. proc'[Theirs] = proc[Theirs] /\ pc' = "undoing" /\ pc \in {"booting", "settling"}
    BY <1>16 DEF BootFails, hostVars
  <2>2. listing' = Up \ before
    BY <1>16, Listed DEF BootFails
  <2>3. Theirs \in Up <=> Theirs \in Up'
    BY <2>1, UserUp
  <2>4. ListingSpares' /\ LaunchSpares'
    BY <1>16, <2>1, <2>2, <2>3 DEF BootFails, Spares, LaunchSpares, ListingSpares, Theirs, runVars
  <2> QED
    BY <1>16, <2>1, <2>4, Unchanged DEF Spares, BootFails, runVars
<1>17. CASE UndoLaunch
  BY <1>17, UndoSpares, Unchanged DEF Spares, UndoLaunch, Forget
<1>18. CASE Retry
  <2>1. mine.device # User /\ Theirs \notin mine.owned
    BY <1>18 DEF Retry, Spares, HandleSpares
  <2>2. StopSpares' /\ pc' = "stopping"
    BY <1>18, <2>1, StopSparesUser DEF Retry
  <2> QED
    BY <1>0, <1>18, <2>2, Unchanged DEF HolderStep, RunStep, Spares, Retry
<1>19. CASE Dispose
  BY <1>19, LetGoSpares, Unchanged DEF Spares, Dispose
<1>20. CASE ExitBestEffort
  <2>1. proc'[Theirs] = proc[Theirs] /\ pc' \in {"between", "off"}
    BY <1>0, <1>20 DEF HolderStep, RunStep, ExitBestEffort, HostGone
  <2>2. MarkersSpare'
    BY <1>20, <2>1, Unchanged DEF ExitBestEffort
  <2> QED
    BY <1>20, <2>1, <2>2, Unchanged DEF Spares, ExitBestEffort, HostGone, Forget, stopVars
<1>21. CASE EndRun
  <2>1. proc'[Theirs] = proc[Theirs]
    BY <1>21 DEF EndRun, hostVars
  <2>2. ListingSpares' /\ pc' \in {"off", "sweeping"}
    BY <1>21, <2>1, SweepSpares, Unchanged DEF EndRun
  <2> QED
    BY <1>21, <2>1, <2>2, Unchanged DEF Spares, EndRun, runVars
<1>22. CASE HostEnds
  BY <1>22, Unchanged DEF Spares, HostEnds, HostGone, Forget, hostVars
<1>23. CASE RunKilled
  BY <1>23, Unchanged DEF Spares, RunKilled, hostVars, runVars
<1>24. ASSUME NEW e \in Launches, ForkBackend(e) PROVE Spares'
  <2>1. proc'[Theirs] = proc[Theirs]
    BY <1>24, Tagged DEF ForkBackend, Theirs, TypeOK, Launches, User
  <2> QED
    BY <1>24, <2>1, Idle DEF ForkBackend
<1>25. ASSUME NEW d \in Devices, ComeOnline(d) PROVE Spares'
  BY <1>25, Idle DEF ComeOnline
<1>26. ASSUME NEW e \in DieProne, EmulatorDies(e) PROVE Spares'
  <2>1. proc'[Theirs] = proc[Theirs]
    <3>1. PICK p \in {Launcher(e), Backend(e)} \cap Up : Kill({p})
      BY <1>26 DEF EmulatorDies
    <3>2. Theirs # p
      BY <3>1, Tagged, EmulatorAssumption DEF Theirs, Launches, User
    <3> QED
      BY <3>1, <3>2, KillSpares
  <2> QED
    BY <1>26, <2>1, Idle DEF EmulatorDies
<1>27. ASSUME NEW a \in UserAvds, UserBoots(a) PROVE Spares'
  <2>1. ~IsDiffing /\ proc'[Theirs] = "up" /\ proc[Theirs] = "none"
    BY <1>27, Tagged DEF UserBoots, Lapse, Clean, Theirs, TypeOK
  <2>2. Theirs \notin Up /\ Theirs \in Up'
    BY <2>1, Tagged DEF Up, Theirs
  <2>3. MarkersSpare'
    BY <1>27, <2>1 DEF IsDiffing, UserBoots, Spares, MarkersSpare, Theirs
  <2>4. HandleSpares' /\ StopSpares'
    BY <1>27 DEF UserBoots, Spares, HandleSpares, StopSpares, runVars, stopVars, Theirs
  <2>5. ListingSpares' /\ LaunchSpares'
    BY <1>27, <2>1, <2>2 DEF IsDiffing, UserBoots, Spares, ListingSpares, LaunchSpares, stopVars, Theirs
  <2> QED
    BY <2>1, <2>3, <2>4, <2>5 DEF Spares
<1>28. ASSUME NEW e \in Launches, ReaperQuits(e) PROVE Spares'
  BY <1>28, Idle DEF ReaperQuits, hostVars
<1>29. ASSUME NEW e \in Launches, ReaperTakes(e) PROVE Spares'
  <2>1. proc'[Theirs] = proc[Theirs]
    BY <1>29 DEF ReaperTakes, hostVars
  <2>2. ListingSpares' /\ pc' = "sweeping"
    BY <1>29, <2>1, SweepSpares DEF ReaperTakes
  <2> QED
    BY <1>29, <2>1, <2>2, Unchanged DEF Spares, ReaperTakes, runVars
<1>30. CASE UNCHANGED vars
  BY <1>30, Idle DEF vars, hostVars
<1> QED
  BY <1>1, <1>2, <1>3, <1>4, <1>5, <1>6, <1>7, <1>8, <1>9, <1>10, <1>11, <1>12, <1>13, <1>14,
     <1>15, <1>16, <1>17, <1>18, <1>19, <1>20, <1>21, <1>22, <1>23, <1>24, <1>25, <1>26, <1>27,
     <1>28, <1>29, <1>30
     DEF Next, HolderStep, RunStep, StopStep, HostStep, ReaperStep

LEMMA AvdStep == TypeOK /\ AvdKnown /\ [Next]_vars => AvdKnown'
<1> SUFFICES ASSUME TypeOK, AvdKnown, [Next]_vars PROVE AvdKnown'
  OBVIOUS
<1> USE DEF AvdKnown, Hosted, Location, Goto
<1>1. CASE StopVerified \/ StopGivesUp
  <2>1. pc' = stop.back /\ avd' = avd /\ pc \in {"stopping", "escalating"}
    BY <1>1 DEF StopVerified, StopGivesUp, Return, runVars
  <2>2. stop.back \in {"between", "starting", "preflight", "sweeping"}
    BY DEF TypeOK
  <2> QED
    BY <2>1, <2>2
<1>2. CASE StopEscalates
  BY <1>2 DEF StopEscalates, runVars, stopVars
<1>3. CASE ReclaimNext
  BY <1>3 DEF ReclaimNext, Reclaim, BeginStop, runVars
<1>4. CASE LetGo \/ UndoLaunch \/ Retry
  <2>1. \/ pc' = "between"
        \/ pc' = "stopping" /\ stop'.back = "between"
        \/ pc' = "stopping" /\ avd \in Avds /\ avd' = avd
    <3>1. CASE LetGo
      BY <3>1 DEF LetGo, BeginStop
    <3>2. CASE UndoLaunch
      <4>1. PICK device : BeginStop(avd, device, mine.launch, listing, "between")
        BY <3>2 DEF UndoLaunch
      <4> QED
        BY <4>1 DEF BeginStop
    <3>3. CASE Retry
      BY <3>3 DEF Retry, BeginStop
    <3> QED
      BY <1>4, <3>1, <3>2, <3>3
  <2> QED
    BY <2>1
<1>5. CASE BeginRun \/ CreateTransport \/ Preflight \/ Probe \/ Snapshot \/ Swept \/ EndRun
  BY <1>5 DEF BeginRun, CreateTransport, Preflight, Probe, Snapshot, Swept, EndRun, BeginSweep,
              Forget, runVars
<1>6. CASE \/ takeOverLeftoverEmulator \/ (pc' = "ready" /\ UNCHANGED runVars /\ Gate)
           \/ (\E e \in Launches : Launch(e)) \/ (\E d \in Devices : DeviceAppears(d))
           \/ Claim \/ BootFails \/ ExitBestEffort
  BY <1>6 DEF takeOverLeftoverEmulator, Gate, Launch, DeviceAppears, Claim, BootFails,
              ExitBestEffort, HostGone, runVars
<1>7. CASE HostEnds \/ RunKilled
  BY <1>7 DEF HostEnds, RunKilled, NoStop, HostGone, runVars
<1>8. CASE UNCHANGED <<pc, stop, avd>>
  BY <1>8
<1>9. CASE \E e \in Launches : ReaperTakes(e)
  BY <1>9 DEF ReaperTakes, BeginSweep, runVars
<1> QED
  BY <1>1, <1>2, <1>3, <1>4, <1>5, <1>6, <1>7, <1>8, <1>9
     DEF Next, HolderStep, RunStep, StopStep, HostStep, ReaperStep, ForkBackend, ComeOnline,
         EmulatorDies, UserBoots, ReaperQuits, Gate, Dispose, vars, stopVars, runVars

LEMMA AvdInit == Init => AvdKnown
  BY DEF Init, AvdKnown, Hosted, NoStop

LEMMA SpareInit == Init => Spares
  BY Tagged, EmulatorAssumption
     DEF Init, Spares, MarkersSpare, HandleSpares, StopSpares, ListingSpares, LaunchSpares, Up,
         NoMarker, NoHandle, NoStop, Theirs, User

\* No step of a run or of a reaper ends an emulator somebody booted by hand, as long as
\* no listing has failed, no device was mistaken and that emulator did not come up in
\* the midst of a launch.
THEOREM UsersEmulatorIsSpared == Spec => UsersEmulatorSpared
<1>1. Init => SpareInv
  BY TypeInit, AvdInit, SpareInit DEF SpareInv
<1>2. SpareInv /\ [Next]_vars => SpareInv'
  BY TypeStep, AvdStep, SpareStep, CleanBefore DEF SpareInv
<1>3. SpareInv /\ [Next]_vars =>
        [HolderStep /\ EndsUsers => lapses \cap {"blind", "bystander", "mistaken"} # {}]_vars
  <2> SUFFICES ASSUME TypeOK, Clean, Spares, HolderStep, EndsUsers PROVE FALSE
    BY DEF SpareInv, Clean
  <2>1. proc'[Theirs] = proc[Theirs]
    BY HolderSpares
  <2> QED
    BY <2>1 DEF EndsUsers, Up, Theirs
<1> QED
  BY <1>1, <1>2, <1>3, PTL DEF Spec, UsersEmulatorSpared

-----------------------------------------------------------------------------
(* The trail of a launch.                                                  *)

\* Nothing has gone wrong that breaks the trail of the harness's own launches.
Unbroken == lapses \cap {"blind", "unrecorded", "forkedLate", "mistaken"} = {}

Live(e) == {Launcher(e), Backend(e)} \cap Up

Convicts(m, p) == p \in m.owned \/ (m.isProvisional /\ p \notin m.pre)

\* A backend appears after its launcher; what was listed before a launch had appeared by then.
Appeared ==
  /\ \A e \in Launches : proc[Launcher(e)] = "none" => proc[Backend(e)] = "none"
  /\ \A a \in Avds : \A p \in marker[a].pre : proc[p] # "none"
  /\ \A p \in before : proc[p] # "none"
  /\ mine.device # None => proc[Backend(mine.device)] # "none"

\* A launch that has processes is the one its AVD's marker records, with all of them, and a
\* marker that is final was written after the fork.
Convicted ==
  \A e \in Launches : Live(e) # {} =>
    LET m == marker[avdOf[e]]
    IN /\ avdOf[e] \in Avds /\ m.launch = e
       /\ \A p \in Live(e) : Convicts(m, p)
       /\ ~m.isProvisional => proc[Backend(e)] # "none"

\* From its launch to its claim, or to the undoing, the transport's emulator is new.
Starts ==
  pc \in {"booting", "settling", "undoing"} =>
    /\ mine.launch \in Launches /\ marker[avd].launch = mine.launch
    /\ Launcher(mine.launch) \notin before /\ Backend(mine.launch) \notin before
    /\ pc = "settling" => mine.device = mine.launch
    /\ pc = "undoing" => Live(mine.launch) \subseteq listing

\* What the transport holds and would stop is what the marker records.
Holds ==
  /\ pc = "adopting" => mine.launch = None /\ mine.owned = {}
  /\ pc \in {"gating", "ready"} /\ (mine.launch # None \/ mine.owned # {}) =>
       marker[avd].owned = mine.owned /\ ~marker[avd].isProvisional

\* The record of a launch that has processes is in force for the listing the next launch uses.
InForce ==
  pc = "launching" => \A e \in Launches : Live(e) # {} =>
    selectLiveMarkedPids(marker[avdOf[e]], before) # {}

Sweeping ==
  \/ pc \in {"preflight", "sweeping"}
  \/ pc \in {"stopping", "escalating"} /\ stop.back \in {"preflight", "sweeping"}

\* A sweep works from a listing that lacks no process of a launch.
Judgeable == Sweeping /\ todo # {} => \A e \in Launches : Live(e) \subseteq listing

\* A stop waits for, or the marker keeps, every process of a launch for its AVD.
Targeted ==
  pc \in {"stopping", "escalating"} => \A e \in Launches : stop.avd = avdOf[e] =>
    Live(e) \subseteq stop.owned \cup marker[stop.avd].owned

Trace == Appeared /\ Convicted /\ Starts /\ Holds /\ InForce /\ Judgeable /\ Targeted

\* The inductive invariant.
TraceInv == TypeOK /\ AvdKnown /\ (Unbroken => Trace)

\* Processes of launches end, and no new ones appear.
Ends ==
  /\ \A e \in Launches : avdOf'[e] = avdOf[e] /\ Live(e)' \subseteq Live(e)
  /\ \A p \in Pids : proc[p] # "none" => proc'[p] # "none"
  /\ \A e \in Launches : proc[Backend(e)] = "none" => proc'[Backend(e)] = "none"
  /\ \A e \in Launches : proc'[Launcher(e)] = "none" => proc[Launcher(e)] = "none"

LEMMA KillEnds ==
  ASSUME TypeOK, NEW gone, Kill(gone)
  PROVE  Ends
  BY Tagged DEF TypeOK, Kill, Ends, Live, Up

LEMMA KillTreesEnds ==
  ASSUME TypeOK, NEW pids, NEW others, KillTrees(pids, others)
  PROVE  Ends
<1>1. PICK gone : Kill(gone)
  BY DEF KillTrees
<1> QED
  BY <1>1, KillEnds

LEMMA QuietEnds ==
  ASSUME UNCHANGED proc, \A e \in Launches : avdOf'[e] = avdOf[e]
  PROVE  Ends
  BY DEF Ends, Live, Up

\* What an end of processes, and a step of the holder, leave of the trail.
LEMMA Kept ==
  ASSUME TypeOK, Trace, Ends
  PROVE  /\ /\ UNCHANGED marker
            /\ before' \subseteq before \cup Up
            /\ \/ mine'.device \in {None, mine.device}
               \/ mine'.device \in Devices /\ Backend(mine'.device) \in Up
            => Appeared'
         /\ UNCHANGED marker => Convicted'
         /\ pc' \notin {"booting", "settling", "undoing"} => Starts'
         /\ pc' \notin {"adopting", "gating", "ready"} => Holds'
         /\ pc' # "launching" => InForce'
         /\ todo' = {} \/ (todo' \subseteq todo /\ UNCHANGED listing /\ Sweeping) => Judgeable'
         /\ ~Sweeping' => Judgeable'
         /\ pc' \notin {"stopping", "escalating"} => Targeted'
<1>1. ASSUME UNCHANGED marker, before' \subseteq before \cup Up,
             \/ mine'.device \in {None, mine.device}
             \/ mine'.device \in Devices /\ Backend(mine'.device) \in Up
      PROVE  Appeared'
  <2>1. \A a \in Avds : marker[a].pre \subseteq Pids
    BY DEF TypeOK, Markers
  <2>2. before \subseteq Pids /\ Up \subseteq Pids /\ \A p \in Up : proc[p] # "none"
    BY DEF TypeOK, Up
  <2>3. mine.device \in Devices \cup {None}
    BY DEF TypeOK, Handles
  <2>4. mine'.device # None => proc'[Backend(mine'.device)] # "none"
    BY <1>1, <2>2, <2>3, Tagged DEF Trace, Appeared, Ends
  <2> QED
    BY <1>1, <2>1, <2>2, <2>4 DEF Trace, Appeared, Ends
<1>2. ASSUME UNCHANGED marker PROVE Convicted'
  BY <1>2, Tagged DEF Trace, Convicted, Convicts, Ends
<1>3. pc' \notin {"booting", "settling", "undoing"} => Starts'
  BY DEF Starts
<1>4. pc' \notin {"adopting", "gating", "ready"} => Holds'
  BY DEF Holds
<1>5. pc' # "launching" => InForce'
  BY DEF InForce
<1>6. todo' = {} \/ (todo' \subseteq todo /\ UNCHANGED listing /\ Sweeping) => Judgeable'
  BY DEF Trace, Judgeable, Ends
<1>7. ~Sweeping' => Judgeable'
  BY DEF Judgeable
<1>8. pc' \notin {"stopping", "escalating"} => Targeted'
  BY DEF Targeted
<1> QED
  BY <1>1, <1>2, <1>3, <1>4, <1>5, <1>6, <1>7, <1>8

\* A marker may go once no launch for its AVD has processes.
LEMMA Cleared ==
  ASSUME TypeOK, Trace, Ends, NEW a, marker' = clearEmulatorMarker(a),
         \A e \in Launches : avdOf[e] = a => Live(e)' = {},
         before' \subseteq before, mine'.device \in {None, mine.device}
  PROVE  Appeared' /\ Convicted'
<1>1. \A b \in Avds : marker'[b] = IF b = a THEN NoMarker ELSE marker[b]
  BY DEF clearEmulatorMarker, TypeOK
<1>2. Appeared'
  <2>1. \A b \in Avds : marker'[b].pre \subseteq marker[b].pre /\ marker[b].pre \subseteq Pids
    BY <1>1 DEF NoMarker, TypeOK, Markers
  <2>2. before \subseteq Pids /\ mine.device \in Devices \cup {None}
    BY DEF TypeOK, Handles
  <2> QED
    BY <2>1, <2>2, Tagged DEF Trace, Appeared, Ends
<1>3. Convicted'
  BY <1>1, Tagged DEF Trace, Convicted, Convicts, Ends
<1> QED
  BY <1>2, <1>3

\* A listing that breaks no trail shows every process.
LEMMA ListedAll ==
  ASSUME NEW answer \in Listings, NEW occurs, Lapse("blind", occurs), Unbroken', answer.failed => occurs
  PROVE  answer.pids = Up
  BY DEF Listings, Lapse, Unbroken

\* The marker of a launch that has processes convicts them from any listing that has them.
LEMMA Verdict ==
  ASSUME Trace, NEW e \in Launches, NEW pids, NEW p \in Live(e), p \in pids
  PROVE  p \in selectLiveMarkedPids(marker[avdOf[e]], pids)
  BY DEF Trace, Convicted, Convicts, selectLiveMarkedPids

\* A transport lets go of what it holds: all of it is in the marker.
LEMMA LetGoTrace ==
  ASSUME TypeOK, AvdKnown, Trace, pc \in {"gating", "ready"}, LetGo,
         UNCHANGED <<marker, todo, listing>>
  PROVE  Trace'
<1>1. avd \in Avds
  BY DEF AvdKnown, Hosted, Location
<1>2. mine'.device = None /\ before' = {}
  BY DEF LetGo, Forget, NoHandle
<1>3. CASE mine.launch = None /\ mine.owned = {}
  <2>1. Ends /\ pc' = "between"
    BY <1>3, QuietEnds DEF LetGo, hostVars, Goto
  <2> QED
    BY <1>2, <2>1, Kept DEF Trace, Sweeping
<1>4. CASE /\ BeginStop(avd, mine.device, mine.launch, mine.owned, "between")
          /\ ~(mine.launch = None /\ mine.owned = {})
  <2>1. Ends /\ pc' = "stopping" /\ stop'.avd = avd /\ stop'.owned = mine.owned /\ stop'.back = "between"
    BY <1>4, KillTreesEnds DEF BeginStop, Goto
  <2>2. Targeted'
    BY <1>1, <1>4, <2>1 DEF Trace, Targeted, Ends, Holds, Convicted, Convicts
  <2> QED
    BY <1>2, <2>1, <2>2, Kept DEF Trace, Sweeping
<1> QED
  BY <1>3, <1>4 DEF LetGo

\* The sweep of a marker clears it when nothing of it is listed, and stops what is.
LEMMA ReclaimTrace ==
  ASSUME TypeOK, Trace, ReclaimNext
  PROVE  Trace'
<1>1. PICK a \in todo : Reclaim(a)
  BY DEF ReclaimNext
<1> DEFINE doomed == selectLiveMarkedPids(marker[a], listing)
<1>2. /\ pc \in {"preflight", "sweeping"} /\ todo' \subseteq todo
      /\ UNCHANGED <<runVars, listing>>
  BY <1>1 DEF ReclaimNext, Reclaim
<1>3. \A e \in Launches : avdOf[e] = a => Live(e) \subseteq doomed
  <2> SUFFICES ASSUME NEW e \in Launches, avdOf[e] = a, NEW p \in Live(e) PROVE p \in doomed
    OBVIOUS
  <2>1. p \in listing
    BY <1>2 DEF Trace, Judgeable, Sweeping
  <2> QED
    BY <2>1, Verdict
<1>4. CASE doomed = {} /\ marker' = clearEmulatorMarker(a) /\ UNCHANGED <<hostVars, pc, stop>>
  <2>1. Ends
    BY <1>4, QuietEnds DEF hostVars
  <2>2. Appeared' /\ Convicted'
    BY <1>2, <1>3, <1>4, <2>1, Cleared DEF Ends, runVars
  <2> QED
    BY <1>2, <1>4, <2>1, <2>2, Kept DEF Trace, Sweeping
<1>5. CASE UNCHANGED <<hostVars, marker, pc, stop>>
  <2>1. Ends
    BY <1>5, QuietEnds DEF hostVars
  <2> QED
    BY <1>2, <1>5, <2>1, Kept DEF Trace, Sweeping, runVars
<1>6. CASE BeginStop(a, marker[a].device, None, doomed, pc) /\ UNCHANGED marker
  <2>1. /\ Ends /\ pc' = "stopping" /\ stop'.avd = a /\ stop'.owned = doomed
        /\ stop'.back \in {"preflight", "sweeping"}
    BY <1>2, <1>6, KillTreesEnds DEF BeginStop, Goto
  <2>2. Targeted'
    BY <1>3, <2>1 DEF Targeted, Ends
  <2> QED
    BY <1>2, <1>6, <2>1, <2>2, Kept DEF Trace, Sweeping, runVars
<1> QED
  BY <1>1, <1>4, <1>5, <1>6 DEF Reclaim

\* A leftover is taken over with all its processes, or its marker goes once nothing of it is up.
LEMMA TakeOverTrace ==
  ASSUME TypeOK, AvdKnown, Trace, Unbroken', takeOverLeftoverEmulator
  PROVE  Trace'
<1> DEFINE m == marker[avd]
           found == selectLiveMarkedPids(m, Up)
<1>1. avd \in Avds /\ pc' = "gating"
  BY DEF takeOverLeftoverEmulator, AvdKnown, Hosted, Location, Goto
<1>2. /\ UNCHANGED <<before, todo, listing, stop, proc, avdOf>>
      /\ mine'.device = mine.device
  BY DEF takeOverLeftoverEmulator, hostVars, stopVars, TypeOK, Handles
<1>3. Ends
  BY <1>2, QuietEnds
<1>4. \A e \in Launches : avdOf[e] = avd => Live(e) \subseteq found
  BY Verdict DEF Live
<1>5. pc = "adopting" /\ ~Sweeping'
  BY <1>1 DEF takeOverLeftoverEmulator, Sweeping
<1>6. CASE UNCHANGED <<marker, reaper, mine, lapses>>
  <2>1. Holds'
    BY <1>1, <1>5, <1>6 DEF Trace, Holds
  <2> QED
    BY <1>1, <1>2, <1>3, <1>5, <1>6, <2>1, Kept DEF Trace
<1>7. CASE found = {} /\ marker' = clearEmulatorMarker(avd) /\ UNCHANGED <<reaper, mine, lapses>>
  <2>1. Holds'
    BY <1>1, <1>5, <1>7 DEF Trace, Holds
  <2>2. Appeared' /\ Convicted'
    BY <1>2, <1>3, <1>4, <1>7, Cleared DEF Ends
  <2> QED
    BY <1>1, <1>2, <1>3, <1>5, <1>7, <2>1, <2>2, Kept DEF Trace
<1>8. CASE /\ found # {}
           /\ mine' = [mine EXCEPT !.owned = found]
           /\ marker' = [marker EXCEPT ![avd] = TakenOver(m, found)]
           /\ Lapse("mistaken", mine.device # m.launch)
  <2>1. mine.device = m.launch
    BY <1>8 DEF Lapse, Unbroken
  <2>2. \A a \in Avds : marker'[a] = IF a = avd THEN TakenOver(m, found) ELSE marker[a]
    BY <1>8 DEF TypeOK
  <2>3. /\ TakenOver(m, found).launch = m.launch /\ TakenOver(m, found).owned = found
        /\ TakenOver(m, found).pre = {} /\ ~TakenOver(m, found).isProvisional
    BY DEF TakenOver
  <2>4. mine'.launch = mine.launch /\ mine'.owned = found
    BY <1>8 DEF TypeOK, Handles
  <2>5. Appeared'
    BY <1>2, <2>2, <2>3 DEF Trace, Appeared
  <2>6. Convicted'
    <3> SUFFICES ASSUME NEW e \in Launches, Live(e) # {}
                 PROVE  /\ avdOf[e] \in Avds /\ marker'[avdOf[e]].launch = e
                        /\ \A p \in Live(e) : Convicts(marker'[avdOf[e]], p)
                        /\ ~marker'[avdOf[e]].isProvisional => proc[Backend(e)] # "none"
      BY <1>2 DEF Convicted, Live, Up
    <3>1. CASE avdOf[e] = avd
      <4>1. m.launch = e /\ e # None
        BY <3>1, EmulatorAssumption DEF Trace, Convicted, Launches
      <4>2. proc[Backend(e)] # "none"
        BY <2>1, <4>1 DEF Trace, Appeared
      <4> QED
        BY <1>1, <1>4, <2>2, <2>3, <3>1, <4>1, <4>2 DEF Convicts
    <3>2. CASE avdOf[e] # avd
      BY <2>2, <3>2 DEF Trace, Convicted
    <3> QED
      BY <3>1, <3>2
  <2>7. Holds'
    BY <1>1, <1>2, <2>2, <2>3, <2>4 DEF Holds, takeOverLeftoverEmulator
  <2> QED
    BY <1>1, <1>3, <1>5, <2>5, <2>6, <2>7, Kept DEF Trace
<1> QED
  BY <1>6, <1>7, <1>8 DEF takeOverLeftoverEmulator

LEMMA LaunchersApart == \A e, f \in Launches : Launcher(e) = Launcher(f) => e = f
  BY DEF Launcher

\* A launch takes the record of its AVD over from a launch that has no processes left.
LEMMA LaunchTrace ==
  ASSUME TypeOK, AvdKnown, Trace, Unbroken', NEW e \in Launches, Launch(e)
  PROVE  Trace'
<1>1. avd \in Avds /\ pc = "launching" /\ pc' = "booting"
  BY DEF Launch, AvdKnown, Hosted, Location, Goto
<1>2. /\ UNCHANGED <<before, todo, listing, stop, avd>>
      /\ mine'.launch = e /\ mine'.device = None
      /\ \A p \in Pids : proc'[p] = IF p = Launcher(e) THEN "up" ELSE proc[p]
      /\ \A d \in Devices : avdOf'[d] = IF d = e THEN avd ELSE avdOf[d]
      /\ proc[Launcher(e)] = "none" /\ proc[Backend(e)] = "none"
  <2>1. UNCHANGED <<before, todo, listing, stop, avd>> /\ mine'.launch = e /\ mine'.device = None
    BY DEF Launch, stopVars, NoHandle
  <2>2. \A p \in Pids : proc'[p] = IF p = Launcher(e) THEN "up" ELSE proc[p]
    BY DEF Launch, TypeOK
  <2>3. \A d \in Devices : avdOf'[d] = IF d = e THEN avd ELSE avdOf[d]
    BY DEF Launch, TypeOK
  <2>4. proc[Launcher(e)] = "none"
    BY DEF Launch, Launches
  <2> QED
    BY <2>1, <2>2, <2>3, <2>4 DEF Trace, Appeared
<1>3. /\ ~(marker[avd] # NoMarker /\ IsInForce(marker[avd]))
      /\ marker' = [marker EXCEPT ![avd] = ProvisionalMarker(e)]
  BY DEF Launch, Lapse, Unbroken
<1>4. \A a \in Avds : marker'[a] = IF a = avd THEN ProvisionalMarker(e) ELSE marker[a]
  BY <1>3 DEF TypeOK
<1>5. \A f \in Launches \ {e} : Live(f)' = Live(f) /\ avdOf'[f] = avdOf[f]
  BY <1>2, Tagged, LaunchersApart DEF Live, Up
<1>6. Live(e)' = {Launcher(e)}
  BY <1>2, Tagged DEF Live, Up
<1>7. ASSUME NEW f \in Launches, Live(f) # {} PROVE avdOf[f] # avd
  BY <1>1, <1>3, <1>7, EmulatorAssumption DEF Trace, Convicted, InForce, IsInForce, NoMarker, Launches
<1>8. Appeared'
  <2>1. \A a \in Avds : marker'[a].pre \subseteq marker[a].pre \cup before
    BY <1>4 DEF ProvisionalMarker
  <2>2. \A a \in Avds : marker[a].pre \subseteq Pids
    BY DEF TypeOK, Markers
  <2> QED
    BY <1>2, <2>1, <2>2, Tagged DEF TypeOK, Trace, Appeared
<1>9. Convicted'
  <2>1. /\ avdOf'[e] = avd /\ marker'[avd].launch = e /\ marker'[avd].isProvisional
        /\ Convicts(marker'[avd], Launcher(e))
    BY <1>1, <1>2, <1>4, Tagged DEF ProvisionalMarker, Convicts
  <2>2. ASSUME NEW f \in Launches \ {e}, Live(f)' # {}
        PROVE  /\ avdOf'[f] \in Avds /\ marker'[avdOf'[f]] = marker[avdOf[f]]
               /\ proc'[Backend(f)] = proc[Backend(f)]
    BY <1>2, <1>4, <1>5, <1>7, <2>2, Tagged DEF Trace, Convicted
  <2> QED
    BY <1>1, <1>5, <1>6, <2>1, <2>2 DEF Trace, Convicted, Convicts
<1>10. Starts'
  BY <1>1, <1>2, <1>4, Tagged DEF Trace, Appeared, Starts, ProvisionalMarker
<1> QED
  BY <1>1, <1>8, <1>9, <1>10 DEF Trace, Holds, InForce, Judgeable, Targeted, Sweeping

\* The device of a launch is noted in its record, which convicts what it did.
LEMMA DeviceTrace ==
  ASSUME TypeOK, AvdKnown, Trace, Unbroken', NEW d \in Devices, DeviceAppears(d)
  PROVE  Trace'
<1>1. pc = "booting" /\ pc' = "settling" /\ d = mine.launch /\ d \in online
  BY DEF DeviceAppears, Goto, Lapse, Unbroken
<1>2. /\ UNCHANGED <<before, todo, listing, stop, proc, avdOf, avd>>
      /\ mine'.launch = mine.launch /\ mine'.device = d
  BY DEF DeviceAppears, hostVars, stopVars, TypeOK, Handles
<1>3. \A a \in Avds : /\ marker'[a].owned = marker[a].owned /\ marker'[a].pre = marker[a].pre
                      /\ marker'[a].isProvisional = marker[a].isProvisional
                      /\ marker'[a].launch = marker[a].launch
  <2>1. \A a \in Avds : marker'[a] = marker[a] \/ marker'[a] = [marker[a] EXCEPT !.device = d]
    BY DEF DeviceAppears, TypeOK
  <2>2. \A a \in Avds : marker[a] \in Markers
    BY DEF TypeOK
  <2> QED
    BY <2>1, <2>2 DEF Markers
<1>4. Appeared'
  <2>1. proc[Backend(d)] # "none"
    BY <1>1 DEF TypeOK, Up
  <2> QED
    BY <1>2, <1>3, <2>1 DEF Trace, Appeared
<1>5. Convicted'
  BY <1>2, <1>3 DEF Trace, Convicted, Convicts, Live, Up
<1>6. Starts'
  BY <1>1, <1>2, <1>3 DEF Trace, Starts, AvdKnown, Hosted, Location
<1> QED
  BY <1>1, <1>4, <1>5, <1>6 DEF Trace, Holds, InForce, Judgeable, Targeted, Sweeping

\* A launch claims what is new: all of its own processes.
LEMMA ClaimTrace ==
  ASSUME TypeOK, AvdKnown, Trace, Unbroken', Claim
  PROVE  Trace'
<1>1. avd \in Avds /\ pc = "settling" /\ pc' = "ready"
  BY DEF Claim, AvdKnown, Hosted, Location, Goto
<1>2. PICK answer \in Listings :
        /\ mine' = [mine EXCEPT !.owned = answer.pids \ before]
        /\ marker' = [marker EXCEPT ![avd] = FinalMarker(answer.pids \ before)]
        /\ Lapse("blind", answer.failed)
  BY DEF Claim
<1>3. answer.pids = Up
  BY <1>2, ListedAll
<1>4. /\ UNCHANGED <<todo, listing, stop, proc, avdOf, avd>> /\ before' = {}
      /\ mine'.launch = mine.launch /\ mine'.device = mine.device /\ mine'.owned = Up \ before
  BY <1>2, <1>3 DEF Claim, hostVars, stopVars, TypeOK, Handles
<1>5. \A a \in Avds : marker'[a] = IF a = avd THEN FinalMarker(Up \ before) ELSE marker[a]
  BY <1>2, <1>3 DEF TypeOK
<1>6. /\ FinalMarker(Up \ before).launch = mine.launch /\ FinalMarker(Up \ before).owned = Up \ before
      /\ FinalMarker(Up \ before).pre = {} /\ ~FinalMarker(Up \ before).isProvisional
  BY DEF FinalMarker
<1>7. Appeared'
  BY <1>4, <1>5, <1>6 DEF Trace, Appeared
<1>8. Convicted'
  <2> SUFFICES ASSUME NEW e \in Launches, Live(e) # {}
               PROVE  /\ avdOf[e] \in Avds /\ marker'[avdOf[e]].launch = e
                      /\ \A p \in Live(e) : Convicts(marker'[avdOf[e]], p)
                      /\ ~marker'[avdOf[e]].isProvisional => proc[Backend(e)] # "none"
    BY <1>4 DEF Convicted, Live, Up
  <2>1. CASE avdOf[e] = avd
    <3>1. mine.launch = e /\ mine.device = e
      BY <1>1, <2>1 DEF Trace, Convicted, Starts
    <3>2. proc[Backend(e)] # "none"
      BY <3>1, EmulatorAssumption DEF Trace, Appeared, Launches
    <3>3. Live(e) \subseteq Up \ before
      BY <1>1, <3>1 DEF Trace, Starts, Live
    <3> QED
      BY <1>1, <1>5, <1>6, <2>1, <3>1, <3>2, <3>3 DEF Convicts
  <2>2. CASE avdOf[e] # avd
    BY <1>5, <2>2 DEF Trace, Convicted
  <2> QED
    BY <2>1, <2>2
<1>9. Holds'
  BY <1>1, <1>4, <1>5, <1>6 DEF Holds
<1> QED
  BY <1>1, <1>7, <1>8, <1>9 DEF Trace, Starts, InForce, Judgeable, Targeted, Sweeping

\* A failed launch is stopped with all that is new of it.
LEMMA UndoTrace ==
  ASSUME TypeOK, AvdKnown, Trace, UndoLaunch
  PROVE  Trace'
<1>1. avd \in Avds /\ pc = "undoing"
  BY DEF UndoLaunch, AvdKnown, Hosted, Location
<1>2. PICK device : BeginStop(avd, device, mine.launch, listing, "between")
  BY DEF UndoLaunch
<1>3. Ends /\ pc' = "stopping" /\ stop'.avd = avd /\ stop'.owned = listing /\ stop'.back = "between"
  BY <1>2, KillTreesEnds DEF BeginStop, Goto
<1>4. UNCHANGED marker /\ before' = {} /\ mine'.device = None
  BY DEF UndoLaunch, Forget, NoHandle
<1>5. Targeted'
  BY <1>1, <1>3, <1>4 DEF Trace, Convicted, Starts, Targeted, Ends
<1> QED
  BY <1>3, <1>4, <1>5, Kept DEF Trace, Sweeping

\* An emulator of this run is replaced: what the transport holds is stopped first.
LEMMA RetryTrace ==
  ASSUME TypeOK, AvdKnown, Trace, Retry
  PROVE  Trace'
<1>1. avd \in Avds /\ pc = "ready" /\ mine.owned # {}
  BY DEF Retry, AvdKnown, Hosted, Location
<1>2. Ends /\ pc' = "stopping" /\ stop'.avd = avd /\ stop'.owned = mine.owned /\ stop'.back = "starting"
  BY KillTreesEnds DEF Retry, BeginStop, Goto
<1>3. UNCHANGED <<marker, before>> /\ mine'.device = None
  BY DEF Retry, NoHandle
<1>4. Targeted'
  BY <1>1, <1>2, <1>3 DEF Trace, Convicted, Convicts, Holds, Targeted, Ends
<1> QED
  BY <1>2, <1>3, <1>4, Kept DEF Trace, Sweeping

\* An exit handler drops the marker only if all it records is dead.
LEMMA ExitTrace ==
  ASSUME TypeOK, AvdKnown, Trace, ExitBestEffort
  PROVE  Trace'
<1>1. avd \in Avds /\ pc = "ready" /\ pc' \in {"between", "off"}
  BY DEF ExitBestEffort, AvdKnown, Hosted, Location, HostGone, Goto
<1>2. UNCHANGED stopVars /\ before' = {} /\ mine'.device = None
  BY DEF ExitBestEffort, HostGone, Forget, NoHandle
<1> DEFINE launchers == {Launcher(e) : e \in {mine.launch} \ {None}}
<1>3. PICK reached \in SUBSET Forked(launchers) :
        LET dead == launchers \cup reached
            left == (mine.owned \cap Up) \ dead
        IN /\ \E alive \in SUBSET (left \cap Surviving) : Kill(dead \cup (left \ alive))
           /\ marker' = IF left = {} /\ marker[avd].owned \cap Up \subseteq dead
                        THEN clearEmulatorMarker(avd) ELSE marker
  BY DEF ExitBestEffort
<1> DEFINE dead == launchers \cup reached
           left == (mine.owned \cap Up) \ dead
<1>4. PICK alive \in SUBSET (left \cap Surviving) : Kill(dead \cup (left \ alive))
  BY <1>3
<1>5. Ends
  BY <1>4, KillEnds
<1>6. Appeared' /\ Convicted'
  <2>1. CASE marker' = marker
    BY <1>2, <1>5, <2>1, Kept
  <2>2. CASE marker[avd].owned \cap Up \subseteq dead /\ marker' = clearEmulatorMarker(avd)
    <3>1. \A p \in dead : p \notin Up'
      BY <1>4 DEF Kill, Up
    <3>2. ASSUME NEW e \in Launches, avdOf[e] = avd PROVE Live(e)' = {}
      <4>1. Live(e) \subseteq marker[avd].owned \cap Up
        BY <1>1, <3>2 DEF Trace, Convicted, Convicts, Holds, ExitBestEffort, Live
      <4> QED
        BY <1>5, <2>2, <3>1, <4>1 DEF Ends, Live
    <3> QED
      BY <1>2, <1>5, <2>2, <3>2, Cleared
  <2> QED
    BY <1>3, <2>1, <2>2
<1> QED
  BY <1>1, <1>5, <1>6, Kept DEF Trace, Sweeping

\* A backend that is forked is convicted by the provisional record of its launch.
LEMMA ForkTrace ==
  ASSUME TypeOK, AvdKnown, Trace, Unbroken', NEW e \in Launches, ForkBackend(e)
  PROVE  Trace'
<1>1. ~HasListed
  BY DEF ForkBackend, Lapse, Unbroken
<1>2. UNCHANGED <<marker, pc, runVars, stopVars, avdOf>> /\ Launcher(e) \in Up /\ proc[Backend(e)] = "none"
  BY DEF ForkBackend
<1>3. \A p \in Pids : proc'[p] = IF p = Backend(e) THEN "up" ELSE proc[p]
  BY DEF ForkBackend, TypeOK
<1>4. \A f \in Launches : Live(f)' = IF f = e THEN Live(e) \cup {Backend(e)} ELSE Live(f)
  BY <1>3, Tagged DEF Live, Up
<1>5. Launcher(e) \in Live(e)
  BY <1>2 DEF Live
<1>6. Appeared'
  <2>1. \A p \in Pids : proc[p] # "none" => proc'[p] # "none"
    BY <1>3
  <2>2. /\ before \subseteq Pids /\ mine.device \in Devices \cup {None}
        /\ \A a \in Avds : marker[a].pre \subseteq Pids
    BY DEF TypeOK, Markers, Handles
  <2>3. \A f \in Launches : proc'[Launcher(f)] = "none" => proc'[Backend(f)] = "none"
    BY <1>2, <1>3, Tagged DEF Trace, Appeared, Up
  <2> QED
    BY <1>2, <2>1, <2>2, <2>3, Tagged DEF Trace, Appeared, runVars
<1>7. Convicted'
  <2>1. marker[avdOf[e]].isProvisional /\ avdOf[e] \in Avds
    BY <1>2, <1>5 DEF Trace, Convicted
  <2>2. Backend(e) \notin marker[avdOf[e]].pre
    BY <1>2, <2>1 DEF Trace, Appeared
  <2> QED
    BY <1>2, <1>3, <1>4, <1>5, <2>1, <2>2, Tagged DEF Trace, Convicted, Convicts
<1>8. Starts'
  BY <1>1, <1>2 DEF Trace, Starts, HasListed, runVars
<1>9. Holds' /\ InForce'
  BY <1>2, <1>4, <1>5 DEF Trace, Holds, InForce, runVars
<1> QED
  BY <1>1, <1>2, <1>6, <1>7, <1>8, <1>9 DEF Trace, Judgeable, Targeted, Sweeping, HasListed, stopVars

\* A sweep that begins has listed every process, or judges nobody.
LEMMA SweepTrace ==
  ASSUME Trace, Unbroken', UNCHANGED hostVars, NEW except, NEW location, BeginSweep(except, location)
  PROVE  Judgeable' /\ pc' = location
<1>1. PICK answer \in Listings :
        /\ todo' = IF answer.failed THEN {} ELSE {a \in Avds \ except : marker[a] # NoMarker}
        /\ listing' = IF {a \in Avds \ except : marker[a] # NoMarker} = {} THEN {} ELSE answer.pids
        /\ Lapse("blind", answer.failed /\ {a \in Avds \ except : marker[a] # NoMarker} # {})
  BY DEF BeginSweep
<1>2. todo' # {} => listing' = Up
  BY <1>1 DEF Listings
<1> QED
  BY <1>2 DEF BeginSweep, Goto, Judgeable, Live, Up, hostVars

\* The steps that leave the markers as they are, or clear one a stop is done with.
LEMMA StopsTrace ==
  ASSUME TypeOK, Trace, StopStep
  PROVE  Trace'
<1>1. /\ UNCHANGED <<runVars, todo, listing>>
      /\ pc \in {"stopping", "escalating"}
  BY DEF StopStep, StopVerified, StopEscalates, StopGivesUp, stopVars
<1>2. CASE StopEscalates
  <2>1. Ends /\ UNCHANGED <<marker, stop>> /\ pc' = "escalating"
    BY <1>2, KillTreesEnds DEF StopEscalates, Goto, stopVars
  <2>2. Targeted'
    BY <1>1, <2>1 DEF Trace, Targeted, Ends
  <2> QED
    BY <1>1, <2>1, <2>2, Kept DEF Trace, Sweeping, runVars
<1>3. CASE StopVerified \/ StopGivesUp
  <2>1. Ends /\ pc' = stop.back /\ stop.back \in {"between", "starting", "preflight", "sweeping"}
    BY <1>3, QuietEnds DEF StopVerified, StopGivesUp, Return, Goto, hostVars, TypeOK
  <2>2. Appeared' /\ Convicted'
    <3>1. CASE UNCHANGED marker
      BY <1>1, <2>1, <3>1, Kept DEF runVars
    <3>2. CASE /\ stop.owned \cap Up = {} /\ marker[stop.avd].owned \cap Up = {}
               /\ marker' = clearEmulatorMarker(stop.avd)
      <4>1. \A e \in Launches : avdOf[e] = stop.avd => Live(e)' = {}
        BY <1>1, <2>1, <3>2 DEF Trace, Targeted, Ends, Live
      <4> QED
        BY <1>1, <2>1, <3>2, <4>1, Cleared DEF runVars
    <3> QED
      BY <1>3, <3>1, <3>2 DEF StopVerified, StopGivesUp, checkIsEmulatorGone, clearEmulatorMarkerIfStopped,
                              checkIsMarkedEmulatorRunning
  <2> QED
    BY <1>1, <2>1, <2>2, Kept DEF Trace, Sweeping
<1> QED
  BY <1>2, <1>3 DEF StopStep

\* The steps of the holder that touch no process and no marker.
LEMMA QuietTrace ==
  ASSUME TypeOK, AvdKnown, Trace, Unbroken', UNCHANGED <<hostVars, marker>>,
         \/ Swept \/ BeginRun \/ CreateTransport \/ Preflight \/ Probe \/ Snapshot \/ BootFails \/ EndRun
         \/ HostEnds \/ RunKilled \/ (\E e \in Launches : ReaperStep(e))
  PROVE  Trace'
<1> USE DEF Goto
<1>1. Ends
  BY QuietEnds DEF hostVars
<1>2. CASE Swept \/ BeginRun \/ CreateTransport
  BY <1>1, <1>2, Kept DEF Trace, Swept, BeginRun, CreateTransport, runVars, stopVars, Sweeping
<1>3. CASE Preflight
  BY <1>1, <1>3, SweepTrace, Kept DEF Trace, Preflight, runVars
<1>4. CASE Probe
  <2>1. before' \subseteq before
    BY <1>4 DEF Probe, Forget
  <2>2. \/ mine'.device \in {None, mine.device}
        \/ mine'.device \in Devices /\ Backend(mine'.device) \in Up
    BY <1>4 DEF Probe, Forget, NoHandle, TypeOK
  <2>3. Holds' /\ pc' \in {"adopting", "listing", "between"}
    BY <1>4 DEF Probe, Holds, NoHandle
  <2> QED
    BY <1>1, <1>4, <2>1, <2>2, <2>3, Kept DEF Trace, Probe, Sweeping
<1>5. CASE Snapshot
  <2>1. PICK answer \in Listings : before' = answer.pids /\ Lapse("blind", answer.failed)
    BY <1>5 DEF Snapshot
  <2>2. before' = Up
    BY <2>1, ListedAll
  <2>3. InForce'
    <3> SUFFICES ASSUME NEW e \in Launches, NEW p \in Live(e)
                 PROVE  selectLiveMarkedPids(marker[avdOf[e]], Up) # {}
      BY <2>2 DEF InForce, hostVars, Live, Up, selectLiveMarkedPids
    <3> QED
      BY Verdict DEF Live
  <2> QED
    BY <1>1, <1>5, <2>2, <2>3, Kept DEF Trace, Snapshot, Sweeping
<1>6. CASE BootFails
  <2>1. PICK answer \in Listings : listing' = answer.pids \ before /\ Lapse("blind", answer.failed)
    BY <1>6 DEF BootFails
  <2>2. listing' = Up \ before
    BY <2>1, ListedAll
  <2>3. Starts'
    BY <1>6, <2>2 DEF Trace, Starts, BootFails, runVars, hostVars, Live, Up
  <2> QED
    BY <1>1, <1>6, <2>3, Kept DEF Trace, BootFails, runVars, Sweeping
<1>7. CASE EndRun
  <2>1. Judgeable'
    BY <1>7, SweepTrace DEF EndRun, Judgeable, Sweeping
  <2> QED
    BY <1>1, <1>7, <2>1, Kept DEF Trace, EndRun, BeginSweep, runVars
<1>8. CASE HostEnds \/ RunKilled
  <2>1. /\ before' \subseteq before /\ mine'.device \in {None, mine.device}
        /\ pc' \in {"between", "off"} /\ todo' = {}
    BY <1>8 DEF HostEnds, RunKilled, HostGone, Forget, NoHandle, runVars
  <2> QED
    BY <1>1, <2>1, Kept DEF Trace
<1>9. ASSUME NEW e \in Launches, ReaperTakes(e) PROVE Trace'
  BY <1>1, <1>9, SweepTrace, Kept DEF Trace, ReaperTakes, runVars
<1>10. ASSUME NEW e \in Launches, ReaperQuits(e) PROVE Trace'
  BY <1>10 DEF ReaperQuits, Trace, Appeared, Convicted, Starts, Holds, InForce, Judgeable, Targeted, Sweeping,
               hostVars, runVars, stopVars, Live, Up
<1> QED
  BY <1>2, <1>3, <1>4, <1>5, <1>6, <1>7, <1>8, <1>9, <1>10 DEF ReaperStep

\* Emulators come online and die, and the user boots one, between the steps of the holder.
LEMMA HostTrace ==
  ASSUME TypeOK, Trace, UNCHANGED <<marker, lock, reaper, pc, runVars, stopVars>>,
         \/ \E d \in Devices : ComeOnline(d)
         \/ \E e \in DieProne : EmulatorDies(e)
         \/ \E a \in UserAvds : UserBoots(a)
         \/ UNCHANGED hostVars
  PROVE  Trace'
<1>1. Ends
  <2>1. CASE \E e \in DieProne : EmulatorDies(e)
    BY <2>1, KillEnds DEF EmulatorDies
  <2>2. CASE \E a \in UserAvds : UserBoots(a)
    BY <2>2, Tagged DEF UserBoots, TypeOK, Ends, Live, Up, Launches, User
  <2>3. CASE UNCHANGED <<proc, avdOf>>
    BY <2>3, QuietEnds
  <2> QED
    BY <2>1, <2>2, <2>3 DEF ComeOnline, hostVars
<1>2. Starts' /\ Holds' /\ InForce' /\ Judgeable' /\ Targeted'
  BY <1>1 DEF Trace, Starts, Holds, InForce, Judgeable, Targeted, Sweeping, Ends, runVars, stopVars
<1> QED
  BY <1>1, <1>2, Kept DEF Trace, runVars

LEMMA TraceStep ==
  ASSUME TypeOK, AvdKnown, Trace, Unbroken', [Next]_vars
  PROVE  Trace'
<1>1. CASE StopStep \/ ReclaimNext
  BY <1>1, StopsTrace, ReclaimTrace
<1>2. CASE Swept \/ BeginRun \/ CreateTransport \/ Preflight \/ Probe \/ Snapshot \/ BootFails \/ EndRun
           \/ HostEnds \/ RunKilled \/ (\E e \in Launches : ReaperStep(e))
  <2>1. UNCHANGED <<hostVars, marker>>
    BY <1>2 DEF Swept, BeginRun, CreateTransport, Preflight, Probe, Snapshot, BootFails, EndRun, HostEnds,
                RunKilled, ReaperStep, ReaperQuits, ReaperTakes
  <2> QED
    BY <1>2, <2>1, QuietTrace
<1>3. CASE takeOverLeftoverEmulator
  BY <1>3, TakeOverTrace
<1>4. CASE Gate \/ Dispose
  <2>1. CASE LetGo
    BY <1>4, <2>1, LetGoTrace DEF Gate, Dispose
  <2>2. CASE pc = "gating" /\ pc' = "ready" /\ UNCHANGED <<hostVars, runVars, stop, marker, todo, listing>>
    <3>1. Ends
      BY <2>2, QuietEnds DEF hostVars
    <3>2. Holds'
      BY <2>2 DEF Trace, Holds, runVars
    <3> QED
      BY <2>2, <3>1, <3>2, Kept DEF Trace, runVars, Sweeping
  <2> QED
    BY <1>4, <2>1, <2>2 DEF Gate, Dispose, Goto
<1>5. CASE (\E e \in Launches : Launch(e)) \/ (\E d \in Devices : DeviceAppears(d)) \/ Claim
  BY <1>5, LaunchTrace, DeviceTrace, ClaimTrace
<1>6. CASE UndoLaunch \/ Retry \/ ExitBestEffort
  BY <1>6, UndoTrace, RetryTrace, ExitTrace
<1>7. CASE \E e \in Launches : ForkBackend(e)
  BY <1>7, ForkTrace
<1>8. CASE \/ \E d \in Devices : ComeOnline(d)
           \/ \E e \in DieProne : EmulatorDies(e)
           \/ \E a \in UserAvds : UserBoots(a)
           \/ UNCHANGED vars
  <2>1. UNCHANGED <<marker, lock, reaper, pc, runVars, stopVars>>
    BY <1>8 DEF ComeOnline, EmulatorDies, UserBoots, vars
  <2> QED
    BY <1>8, <2>1, HostTrace DEF vars
<1> QED
  BY <1>1, <1>2, <1>3, <1>4, <1>5, <1>6, <1>7, <1>8
     DEF Next, HolderStep, RunStep, HostStep

LEMMA TraceInit == Init => Trace
<1> SUFFICES ASSUME Init PROVE Trace
  OBVIOUS
<1>1. \A e \in Launches : Live(e) = {}
  BY Tagged DEF Init, Live, Up
<1>2. Appeared
  BY Tagged DEF Init, Appeared, NoMarker, NoHandle
<1> QED
  BY <1>1, <1>2 DEF Init, Trace, Convicted, Starts, Holds, InForce, Judgeable, Targeted, Sweeping

\* With nobody at work, the marker of its AVD convicts every process of an emulator that the
\* harness has launched and not stopped, unless the trail was broken: for any number of AVDs,
\* launches and hosts.
THEOREM LeftoversAreConvictable == Spec => []LeftoverEmulatorConvictable
<1>1. Init => TraceInv
  BY TypeInit, AvdInit, TraceInit DEF TraceInv
<1>2. TraceInv /\ [Next]_vars => TraceInv'
  BY TypeStep, AvdStep, TraceStep, LapsesGrow DEF TraceInv, Unbroken
<1>3. TraceInv => LeftoverEmulatorConvictable
  BY Verdict DEF TraceInv, LeftoverEmulatorConvictable, Live, Unbroken
<1> QED
  BY <1>1, <1>2, <1>3, PTL DEF Spec
=============================================================================
