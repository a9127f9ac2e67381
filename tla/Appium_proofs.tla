--------------------------- MODULE Appium_proofs ---------------------------
(***************************************************************************)
(* Proofs about Appium: the server of a port, for any number of servers,   *)
(* attempts and runs, whatever exits, survives a kill or is killed; and    *)
(* the evaluations of one session, for any number of transports and calls, *)
(* however long their closures take and whatever befalls the app.          *)
(***************************************************************************)
EXTENDS AppiumServer, AppiumSession, TLAPS, FiniteSetTheorems

-----------------------------------------------------------------------------
(* The invariant, in parts.                                                *)

\* A stop that has killed its target and has not had its verdict yet.
Stopping == {"stopWait", "escalating", "escalateWait"}

\* Where a run stands tells what it holds: it launches, holds and stops only what it has
\* spawned, and what it reclaims or restarts is what it read when it adopted.
Stages ==
  /\ {launch, mine} \subseteq spawned \cup {NoServer}
  /\ pc \in Stopping => target \in spawned
  /\ pc \notin {"idle", "provisioning", "deviceWait", "reconnecting"} => launch = NoServer
  /\ pc = "reconnecting" => launch # NoServer
  /\ pc = "reclaiming" => known.stamped
  /\ pc = "restarting" => known.server \in Servers

\* The marker convicts s: by the shell it names, or by the stamp.
Convictable(s) == (marker.server = s /\ s \in shells) \/ marker.stamped

\* As long as nothing lapsed, a server that is alive, though it may not listen yet, is
\* convictable at every await a kill of the run may fall on, and named or stamped while a stop
\* has killed its shell and has no verdict.
Trail ==
  lapses = {} => \A s \in Servers : Alive(s) =>
    /\ pc \notin Unverified => Convictable(s)
    /\ pc \in Stopping => marker.server = s \/ marker.stamped

\* Of what a run has spawned only the current launch or, without one, what it holds is alive,
\* and what it holds has answered.
Handles ==
  "misread" \notin lapses => \A s \in spawned : Alive(s) =>
    /\ pc \notin {"spawning", "respawning"}
    /\ pc \in {"provisioning", "deviceWait", "reconnecting"} /\ launch # NoServer => s = launch
    /\ pc \in {"provisioning", "deviceWait"} /\ launch = NoServer => s = mine
    /\ pc \in {"probing", "reclaiming", "reclaimWait", "diagnosing", "connecting", "running",
               "restarting", "restartWait"} => s = mine
    /\ pc \in {"probing", "reclaiming", "reclaimWait", "deviceWait", "diagnosing", "connecting",
               "running", "restarting", "restartWait"} => Answers(s)
    /\ pc = "provisioning" /\ launch = NoServer => Answers(s)

IInv == TypeOK /\ Stages /\ Trail /\ Handles

-----------------------------------------------------------------------------
(* What kills, launches and stops do.                                      *)

\* No server comes to life, starts or stops loading, or gets a shell.
Weakens ==
  /\ proc' \in [Parties -> {"absent", "loading", "serving", "dying", "gone"}]
  /\ shells' \subseteq shells
  /\ \A t \in Parties : Alive(t)' => Alive(t) /\ (Answers(t) <=> Answers(t)')

\* A kill of a shell's tree touches that server alone.
LEMMA KillTreeWeakens ==
  ASSUME TypeOK, NEW s \in Servers, KillTree(s)
  PROVE  Weakens /\ shells' = shells \ {s} /\ \A t \in Parties : t # s => proc'[t] = proc[t]
<1>1. PICK outcome \in TreeKillOutcomes(s) : proc' = [proc EXCEPT ![s] = outcome] /\ shells' = shells \ {s}
  BY DEF KillTree
<1>2. /\ outcome \in {proc[s], "gone", "dying"}
      /\ outcome = "gone" \/ outcome = proc[s] \/ (outcome = "dying" /\ Answers(s))
      /\ s \in Parties
  BY DEF TreeKillOutcomes, Parties
<1> QED BY <1>1, <1>2 DEF TypeOK, Weakens, Alive, Answers

\* A kill of those that hold the port spares whoever does not.
LEMMA KillOwnersWeakens ==
  ASSUME TypeOK, NEW owners \in PortOwners, KillOwners(owners)
  PROVE  /\ Weakens
         /\ \A t \in Servers : t \in shells /\ Alive(t)' => t \in shells'
<1>1. PICK stay \in SUBSET (owners \cap Stubborn) :
        /\ proc' = [s \in Parties |->
                  IF s \in stay THEN "dying" ELSE IF s \in owners THEN "gone" ELSE proc[s]]
        /\ shells' = shells \ (owners \ stay)
  BY DEF KillOwners
<1>2. \A t \in owners : t \in Parties /\ Answers(t)
  BY DEF PortOwners, Listeners
<1> QED BY <1>1, <1>2 DEF TypeOK, Weakens, Alive, Answers

\* The steps of a run that kill and launch nothing.
LEMMA WaitsKeep ==
  ASSUME IInv, UNCHANGED procVars,
         \/ Begin \/ Probe \/ ReclaimWait \/ Ready \/ Provisioned \/ Diagnose \/ Connect \/ RestartWait
         \/ Reconnected \/ Dispose \/ Crash
  PROVE  IInv'
<1>a. NoMarker \in [server : Servers \cup {NoServer}, stamped : BOOLEAN] /\ 1 \in 1..AttemptLimit /\ ~NoMarker.stamped
  BY AppiumAssumption DEF NoMarker
<1>1. CASE Begin
  <2>1. TypeOK'
    BY <1>1, <1>a DEF IInv, TypeOK, Begin, Goto, Lapse, Location, procVars, KeepHandle
  <2>2. Stages'
    BY <1>1 DEF IInv, Stages, Begin, Goto, Stopping
  <2>3. Trail'
    BY <1>1 DEF IInv, TypeOK, Trail, Begin, procVars, Unverified, Convictable, Alive
  <2>4. Handles'
    BY <1>1 DEF IInv, Handles, Begin
  <2> QED BY <2>1, <2>2, <2>3, <2>4 DEF IInv
<1>2. CASE Probe
  <2>1. TypeOK'
    BY <1>2, <1>a DEF IInv, TypeOK, Probe, Goto, Lapse, Location, procVars, KeepHandle
  <2>2. Stages'
    BY <1>2 DEF IInv, TypeOK, Stages, Probe, Goto, Lapse, Stopping
  <2>3. Trail'
    BY <1>2 DEF IInv, TypeOK, Trail, Probe, procVars, Unverified, Convictable, Alive
  <2>4. Handles'
    BY <1>2 DEF IInv, TypeOK, Handles, Stages, Probe, Goto, Lapse, procVars, Alive, Answers, Reachable,
       Listeners, Parties, KeepHandle
  <2> QED BY <2>1, <2>2, <2>3, <2>4 DEF IInv
<1>3. CASE ReclaimWait
  <2>1. TypeOK'
    BY <1>3, <1>a DEF IInv, TypeOK, ReclaimWait, Goto, Lapse, Location, procVars, KeepHandle
  <2>2. Stages'
    BY <1>3 DEF IInv, TypeOK, Stages, ReclaimWait, Goto, Stopping
  <2>3. Trail'
    BY <1>3 DEF IInv, Trail, ReclaimWait, Lapse, procVars, Alive, HarnessAlive
  <2>4. Handles'
    BY <1>3 DEF IInv, TypeOK, Handles, Stages, ReclaimWait, Goto, Lapse, procVars, Alive, Answers, Reachable,
       Listeners, Parties, KeepHandle
  <2> QED BY <2>1, <2>2, <2>3, <2>4 DEF IInv
<1>4. CASE Ready
  <2>1. TypeOK'
    BY <1>4 DEF IInv, TypeOK, Ready, Goto, Lapse, Location, procVars, KeepHandle
  <2>2. Stages'
    BY <1>4 DEF IInv, TypeOK, Stages, Ready, Goto, Stopping
  <2>3. Trail'
    BY <1>4 DEF IInv, TypeOK, Trail, Ready, Lapse, procVars, Unverified, Convictable, Alive
  <2>4. Handles'
    BY <1>4 DEF IInv, TypeOK, Handles, Ready, Goto, Lapse, procVars, Alive, Answers
  <2> QED BY <2>1, <2>2, <2>3, <2>4 DEF IInv
<1>5. CASE Provisioned
  <2>1. TypeOK'
    BY <1>5 DEF IInv, TypeOK, Provisioned, Goto, Lapse, Location, procVars, KeepHandle
  <2>2. Stages'
    BY <1>5 DEF IInv, TypeOK, Stages, Provisioned, Goto, Lapse, Stopping, KeepHandle
  <2>3. Trail'
    BY <1>5 DEF IInv, TypeOK, Trail, Provisioned, procVars, Unverified, Convictable, Alive
  <2>4. Handles'
    BY <1>5 DEF IInv, TypeOK, Handles, Provisioned, Goto, procVars, Alive, Answers, KeepHandle
  <2> QED BY <2>1, <2>2, <2>3, <2>4 DEF IInv
<1>6. CASE Diagnose
  <2>1. TypeOK'
    BY <1>6, AppiumAssumption DEF IInv, TypeOK, Diagnose, Goto, Lapse, Location, procVars, KeepHandle
  <2>2. Stages'
    BY <1>6 DEF IInv, TypeOK, Stages, Diagnose, Goto, Lapse, Stopping
  <2>3. Trail'
    BY <1>6 DEF IInv, TypeOK, Trail, Diagnose, procVars, Unverified, Convictable, Alive
  <2>4. Handles'
    BY <1>6 DEF IInv, TypeOK, Handles, Diagnose, Goto, procVars, Alive, Answers
  <2> QED BY <2>1, <2>2, <2>3, <2>4 DEF IInv
<1>7. CASE Connect
  <2>1. TypeOK'
    BY <1>7 DEF IInv, TypeOK, Connect, Goto, Lapse, Location, procVars, KeepHandle
  <2>2. Stages'
    BY <1>7 DEF IInv, TypeOK, Stages, Connect, Goto, Lapse, Stopping, MayRestart,
       checkIsHarnessOwnedAppiumServer
  <2>3. Trail'
    BY <1>7 DEF IInv, TypeOK, Trail, Connect, procVars, Unverified, Convictable, Alive
  <2>4. Handles'
    BY <1>7 DEF IInv, TypeOK, Handles, Connect, Goto, procVars, Alive, Answers
  <2> QED BY <2>1, <2>2, <2>3, <2>4 DEF IInv
<1>8. CASE RestartWait
  <2>1. TypeOK'
    BY <1>8 DEF IInv, TypeOK, RestartWait, Goto, Lapse, Location, procVars, KeepHandle
  <2>2. Stages'
    BY <1>8 DEF IInv, TypeOK, Stages, RestartWait, Goto, Stopping
  <2>3. Trail'
    BY <1>8 DEF IInv, Trail, RestartWait, Lapse, procVars, Alive, HarnessAlive
  <2>4. Handles'
    BY <1>8 DEF IInv, TypeOK, Handles, RestartWait, Goto, Lapse, procVars, Alive, Reachable, Listeners,
       Parties
  <2> QED BY <2>1, <2>2, <2>3, <2>4 DEF IInv
<1>9. CASE Dispose
  <2>1. TypeOK'
    BY <1>9 DEF IInv, TypeOK, Dispose, Goto, Lapse, Location, procVars, KeepHandle
  <2>2. Stages'
    BY <1>9 DEF IInv, TypeOK, Stages, Dispose, Goto, Lapse, Stopping
  <2>3. Trail'
    BY <1>9 DEF IInv, TypeOK, Trail, Dispose, procVars, Unverified, Convictable, Alive
  <2>4. Handles'
    BY <1>9 DEF IInv, Handles, Dispose, Goto
  <2> QED BY <2>1, <2>2, <2>3, <2>4 DEF IInv
<1>10. CASE Crash
  <2>1. TypeOK'
    BY <1>10 DEF IInv, TypeOK, Crash, Goto, Lapse, Location, procVars, KeepHandle
  <2>2. Stages'
    BY <1>10 DEF IInv, TypeOK, Stages, Crash, Goto, Stopping
  <2>3. Trail'
    BY <1>10 DEF IInv, TypeOK, Trail, Crash, Lapse, procVars, Convictable, Alive
  <2>4. Handles'
    BY <1>10 DEF IInv, Handles, Crash, Goto
  <2> QED BY <2>1, <2>2, <2>3, <2>4 DEF IInv
<1>11. CASE Reconnected
  <2>1. TypeOK'
    BY <1>11 DEF IInv, TypeOK, Reconnected, Goto, Lapse, Location, procVars, KeepHandle
  <2>2. Stages'
    BY <1>11 DEF IInv, TypeOK, Stages, Reconnected, Goto, Stopping
  <2>3. Trail'
    BY <1>11 DEF IInv, TypeOK, Trail, Reconnected, Lapse, procVars, Unverified, Convictable, Alive
  <2>4. Handles'
    BY <1>11 DEF IInv, TypeOK, Handles, Stages, Reconnected, Goto, Lapse, procVars, Alive, Answers
  <2> QED BY <2>1, <2>2, <2>3, <2>4 DEF IInv
<1> QED BY <1>1, <1>2, <1>3, <1>4, <1>5, <1>6, <1>7, <1>8, <1>9, <1>10, <1>11

\* A launch: the one server that is alive, or a lapse.
LEMMA LaunchesKeep ==
  ASSUME IInv, Spawn \/ Respawn
  PROVE  IInv'
<1>1. PICK s \in Servers : startAppiumServer(s)
  BY DEF Spawn, Respawn
<1>2. /\ \/ pc = "spawning" /\ pc' = "provisioning"
         \/ pc = "respawning" /\ pc' = "reconnecting"
      /\ UNCHANGED <<auto, known, adopted, attempt, mine, target>>
  BY DEF Spawn, Respawn, Goto
<1>3. TypeOK'
  BY <1>1, <1>2 DEF IInv, TypeOK, startAppiumServer, Lapse, Location
<1>4. Stages'
  BY <1>1, <1>2, AppiumAssumption DEF IInv, Stages, startAppiumServer, Stopping
<1>5. Trail'
  BY <1>1 DEF IInv, Trail, startAppiumServer, Lapse, HarnessAlive, Alive, Convictable
<1>6. Handles'
  BY <1>1, <1>2, AppiumAssumption DEF IInv, TypeOK, Handles, startAppiumServer, Lapse, Alive
<1> QED BY <1>3, <1>4, <1>5, <1>6 DEF IInv

\* The first half of a stop: the shell is killed, and the marker keeps the name.
LEMMA KillsKeep ==
  ASSUME IInv, ProvisioningFails \/ Restart \/ ReconnectFails \/ StopMine
  PROVE  IInv'
<1>a. NoMarker \in [server : Servers \cup {NoServer}, stamped : BOOLEAN] /\ ~NoMarker.stamped
  BY AppiumAssumption DEF NoMarker
<1>1. CASE ProvisioningFails
  <2>a. \/ UNCHANGED procVars /\ launch = NoServer
        \/ KillTree(launch) /\ launch \in Servers
    BY <1>1 DEF IInv, TypeOK, ProvisioningFails
  <2>b. /\ Weakens
        /\ \/ shells' = shells
           \/ shells' = shells \ {launch} /\ \A t \in Parties : t # launch => proc'[t] = proc[t]
    BY <2>a, KillTreeWeakens DEF IInv, TypeOK, Weakens, procVars, Alive, Answers
  <2>1. TypeOK'
    BY <1>1, <2>b DEF IInv, TypeOK, ProvisioningFails, Weakens, Goto, Lapse, Location
  <2>2. Stages'
    BY <1>1 DEF IInv, TypeOK, Stages, ProvisioningFails, Goto, Stopping
  <2>3. Trail'
    BY <1>1, <2>b, AppiumAssumption DEF IInv, TypeOK, Trail, ProvisioningFails, Goto, Lapse, Unverified,
       Weakens, Convictable, Parties
  <2>4. Handles'
    BY <1>1 DEF IInv, Handles, ProvisioningFails, Goto
  <2> QED BY <2>1, <2>2, <2>3, <2>4 DEF IInv
<1>2. CASE Restart
  <2>a. KillTree(known.server) /\ known.server \in Servers
    BY <1>2 DEF IInv, TypeOK, Stages, Restart
  <2>b. /\ Weakens
        /\ \/ shells' = shells
           \/ shells' = shells \ {known.server} /\ \A t \in Parties : t # known.server => proc'[t] = proc[t]
    BY <2>a, KillTreeWeakens DEF IInv, TypeOK
  <2>1. TypeOK'
    BY <1>2, <1>a, <2>b DEF IInv, TypeOK, Restart, Weakens, Goto, Lapse, Location
  <2>2. Stages'
    BY <1>2 DEF IInv, TypeOK, Stages, Restart, Goto, Stopping
  <2>3. Trail'
    BY <1>2 DEF IInv, Trail, Restart, Goto, Stopping, Unverified
  <2>4. Handles'
    BY <1>2, <2>b DEF IInv, TypeOK, Handles, Restart, Goto, Lapse, Weakens, Parties
  <2> QED BY <2>1, <2>2, <2>3, <2>4 DEF IInv
<1>3. CASE ReconnectFails
  <2>a. KillTree(launch) /\ launch \in Servers
    BY <1>3 DEF IInv, TypeOK, Stages, ReconnectFails
  <2>b. /\ Weakens
        /\ \/ shells' = shells
           \/ shells' = shells \ {launch} /\ \A t \in Parties : t # launch => proc'[t] = proc[t]
    BY <2>a, KillTreeWeakens DEF IInv, TypeOK
  <2>1. TypeOK'
    BY <1>3, <1>a, <2>b DEF IInv, TypeOK, ReconnectFails, Weakens, Goto, Lapse, Location
  <2>2. Stages'
    BY <1>3 DEF IInv, TypeOK, Stages, ReconnectFails, Goto, Stopping
  <2>3. Trail'
    BY <1>3 DEF IInv, Trail, ReconnectFails, Lapse, Alive
  <2>4. Handles'
    BY <1>3 DEF IInv, Handles, ReconnectFails, Goto
  <2> QED BY <2>1, <2>2, <2>3, <2>4 DEF IInv
<1>4. CASE StopMine
  <2>a. \/ UNCHANGED procVars /\ mine = NoServer
        \/ KillTree(mine) /\ mine \in Servers
    BY <1>4 DEF IInv, TypeOK, StopMine
  <2>b. /\ Weakens
        /\ \/ shells' = shells
           \/ shells' = shells \ {mine} /\ \A t \in Parties : t # mine => proc'[t] = proc[t]
    BY <2>a, KillTreeWeakens DEF IInv, TypeOK, Weakens, procVars, Alive, Answers
  <2>1. TypeOK'
    BY <1>4, <2>b DEF IInv, TypeOK, StopMine, Weakens, Goto, Lapse, Location
  <2>2. Stages'
    BY <1>4 DEF IInv, TypeOK, Stages, StopMine, Goto, Stopping
  <2>3. Trail'
    BY <1>4, <2>b, AppiumAssumption DEF IInv, TypeOK, Trail, StopMine, Goto, Lapse, Unverified, Weakens,
       Convictable, Parties
  <2>4. Handles'
    BY <1>4 DEF IInv, Handles, StopMine, Goto
  <2> QED BY <2>1, <2>2, <2>3, <2>4 DEF IInv
<1> QED BY <1>1, <1>2, <1>3, <1>4

\* The rest of a reclaim and of a stop: those that hold the port are killed, and the look at
\* the port drops the marker, stamps it or says nothing.
LEMMA StopsKeep ==
  ASSUME IInv, Reclaim \/ StopWait \/ Escalate \/ EscalateWait
  PROVE  IInv'
<1>a. NoMarker \in [server : Servers \cup {NoServer}, stamped : BOOLEAN] /\ ~NoMarker.stamped
  BY AppiumAssumption DEF NoMarker
<1>b. Stamp(marker) \in [server : Servers \cup {NoServer}, stamped : BOOLEAN] /\ (marker # NoMarker => Stamp(marker).stamped)
  BY DEF IInv, TypeOK, Stamp
<1>c. pc \in Stopping /\ lapses = {} => \A s \in Servers : Alive(s) => marker # NoMarker
  BY AppiumAssumption DEF IInv, Trail, NoMarker
<1>d. IF pc \in {"reclaiming", "escalating"}
      THEN Weakens /\ \A t \in Servers : t \in shells /\ Alive(t)' => t \in shells'
      ELSE UNCHANGED procVars
  <2>1. CASE \E owners \in PortOwners : KillOwners(owners)
    BY <2>1, KillOwnersWeakens DEF IInv, Reclaim, StopWait, Escalate, EscalateWait
  <2>2. CASE UNCHANGED procVars
    BY <2>2 DEF IInv, TypeOK, Weakens, procVars, Alive, Answers
  <2> QED BY <2>1, <2>2 DEF Reclaim, StopWait, Escalate, EscalateWait
<1>1. CASE Reclaim
  <2>1. TypeOK'
    BY <1>1, <1>a, <1>d DEF IInv, TypeOK, Reclaim, Stopped, AfterStop, Weakens, Goto, Lapse, Location
  <2>2. Stages'
    BY <1>1 DEF IInv, TypeOK, Stages, Reclaim, Stopped, AfterStop, Goto, Stopping
  <2>3. Trail'
    BY <1>1 DEF IInv, Trail, Reclaim, Goto, Stopping, Unverified
  <2>4. Handles'
    BY <1>1, <1>d DEF IInv, TypeOK, Handles, Reclaim, Stopped, AfterStop, Goto, Lapse, Weakens, Parties
  <2> QED BY <2>1, <2>2, <2>3, <2>4 DEF IInv
<1>2. CASE StopWait
  <2>1. TypeOK'
    BY <1>2, <1>a, <1>b, <1>d DEF IInv, TypeOK, StopWait, Stopped, AfterStop, Weakens, Goto, Lapse, Location,
       procVars
  <2>2. Stages'
    BY <1>2 DEF IInv, TypeOK, Stages, StopWait, Stopped, AfterStop, Goto, Stopping
  <2>3. Trail'
    BY <1>2 DEF IInv, TypeOK, Trail, StopWait, Stopped, Goto, Lapse, Stopping, Unverified, Alive,
       HarnessAlive, procVars
  <2>4. Handles'
    BY <1>2 DEF IInv, Handles, StopWait, Stopped, AfterStop, Goto
  <2> QED BY <2>1, <2>2, <2>3, <2>4 DEF IInv
<1>3. CASE Escalate
  <2>1. TypeOK'
    BY <1>3, <1>b, <1>d DEF IInv, TypeOK, Escalate, Stopped, AfterStop, Weakens, Goto, Lapse, Location
  <2>2. Stages'
    BY <1>3 DEF IInv, TypeOK, Stages, Escalate, Stopped, AfterStop, Goto, Stopping
  <2>3. Trail'
    BY <1>3, <1>b, <1>c, <1>d DEF IInv, TypeOK, Trail, Escalate, Stopped, Goto, Stopping, Unverified, Weakens,
       Convictable, Parties
  <2>4. Handles'
    BY <1>3 DEF IInv, Handles, Escalate, AfterStop, Goto
  <2> QED BY <2>1, <2>2, <2>3, <2>4 DEF IInv
<1>4. CASE EscalateWait
  <2>1. TypeOK'
    BY <1>4, <1>a, <1>b, <1>d DEF IInv, TypeOK, EscalateWait, Stopped, AfterStop, Weakens, Goto, Lapse,
       Location, procVars
  <2>2. Stages'
    BY <1>4 DEF IInv, TypeOK, Stages, EscalateWait, Stopped, AfterStop, Goto, Stopping
  <2>3. Trail'
    BY <1>4, <1>b, <1>c DEF IInv, Trail, EscalateWait, Stopped, Lapse, Stopping, Convictable, Alive,
       HarnessAlive, procVars
  <2>4. Handles'
    BY <1>4 DEF IInv, Handles, EscalateWait, Stopped, AfterStop, Goto
  <2> QED BY <2>1, <2>2, <2>3, <2>4 DEF IInv
<1> QED BY <1>1, <1>2, <1>3, <1>4

\* The exit handler: its look at the port tells whether to stamp or to drop the marker.
LEMMA ExitKeeps ==
  ASSUME IInv, ExitBestEffort
  PROVE  IInv'
<1>a. pc = "running" /\ pc' = "idle" /\ UNCHANGED <<auto, known, adopted, attempt, launch, mine, target, spawned>>
  BY DEF ExitBestEffort, Goto
<1>b. Stages' /\ Handles'
  BY <1>a DEF IInv, Stages, Handles, Stopping
<1>1. CASE UNCHANGED <<procVars, marker, lapses>>
  BY <1>1, <1>a, <1>b DEF IInv, TypeOK, Trail, procVars, Alive, Convictable, Unverified, Location
<1>2. CASE mine # NoServer
  <2>0. mine \in Servers
    BY <1>2 DEF IInv, TypeOK
  <2>1. PICK outcome \in TreeKillOutcomes(mine), isSeen \in {TRUE, ~QueryMayFail} :
             LET killed == [proc EXCEPT ![mine] = outcome]
                 owners == {s \in Parties : isSeen /\ killed[s] \in {"serving", "dying"}}
             IN /\ \E stay \in SUBSET (owners \cap Stubborn) :
                     proc' = [s \in Parties |->
                                IF s \in stay THEN "dying"
                                ELSE IF s \in owners THEN "gone" ELSE killed[s]]
                /\ shells' = (shells \ {mine}) \ {s \in owners : proc'[s] = "gone"}
                /\ marker' = IF owners = {} THEN NoMarker ELSE Stamp(marker)
                /\ Lapse("blindExit",
                         owners = {} /\ \E s \in Servers : killed[s] \in {"loading", "serving", "dying"})
    BY <1>2 DEF ExitBestEffort
  <2> DEFINE killed == [proc EXCEPT ![mine] = outcome]
             owners == {s \in Parties : isSeen /\ killed[s] \in {"serving", "dying"}}
  <2>2. PICK stay \in SUBSET (owners \cap Stubborn) :
          proc' = [s \in Parties |-> IF s \in stay THEN "dying" ELSE IF s \in owners THEN "gone" ELSE killed[s]]
    BY <2>1
  <2>3. /\ outcome \in {"gone", "dying", proc[mine]} /\ (outcome = "dying" => Answers(mine))
        /\ mine \in Parties
    BY <2>0 DEF TreeKillOutcomes, Parties, Answers
  <2>4. killed \in [Parties -> {"absent", "loading", "serving", "dying", "gone"}]
    BY <2>3 DEF IInv, TypeOK
  <2>5. \A t \in Parties : /\ killed[t] \in {"loading", "serving", "dying"} => Alive(t)
                           /\ Alive(t)' => killed[t] \in {"loading", "serving", "dying"}
    BY <2>2, <2>3 DEF IInv, Alive, Answers
  <2>6. TypeOK'
    <3>1. marker' \in [server : Servers \cup {NoServer}, stamped : BOOLEAN]
      BY <2>1 DEF IInv, TypeOK, Stamp, NoMarker
    <3> QED BY <1>a, <2>1, <2>4, <3>1 DEF IInv, TypeOK, Lapse, Location
  <2>7. Trail'
    <3> SUFFICES ASSUME lapses' = {}, NEW s \in Servers, Alive(s)' PROVE Convictable(s)'
      BY <1>a DEF Trail, Stopping
    <3>1. s \in Parties /\ killed[s] \in {"loading", "serving", "dying"} /\ Alive(s) /\ lapses = {}
      BY <2>1, <2>5 DEF Parties, Lapse
    <3>2. owners # {}
      BY <2>1, <3>1 DEF Lapse
    <3>3. marker' = Stamp(marker)
      BY <2>1, <3>2
    <3>4. marker # NoMarker
      BY <1>a, <3>1, AppiumAssumption DEF IInv, Trail, Convictable, Unverified, NoMarker
    <3> QED BY <3>3, <3>4 DEF Stamp, Convictable
  <2> QED BY <1>b, <2>6, <2>7 DEF IInv
<1> QED BY <1>1, <1>2 DEF ExitBestEffort

\* Between two awaits of a run servers start to listen and exit: none comes to life.
Ages ==
  /\ UNCHANGED <<marker, runVars, lapses>>
  /\ proc' \in [Parties -> {"absent", "loading", "serving", "dying", "gone"}] /\ shells' \subseteq shells
  /\ \A t \in Servers : Alive(t)' => Alive(t) /\ (Answers(t) => Answers(t)') /\ (t \in shells => t \in shells')

\* Whatever happens between the awaits keeps the invariant.
LEMMA EnvironmentKeeps ==
  ASSUME IInv, Environment
  PROVE  IInv'
<1>1. ASSUME NEW s \in Servers, FinishLoading(s) PROVE Ages
  BY <1>1 DEF FinishLoading, IInv, TypeOK, Ages, Alive, Answers, Parties
<1>2. ASSUME NEW s \in Servers, Exit(s) PROVE Ages
  BY <1>2 DEF Exit, IInv, TypeOK, Ages, Alive, Answers, Parties
<1>3. ASSUME UserStarts \/ UserStops PROVE Ages
  BY <1>3, AppiumAssumption DEF UserStarts, UserStops, IInv, TypeOK, Ages, Alive, Answers, Parties
<1>4. Ages
  BY <1>1, <1>2, <1>3 DEF Environment
<1>5. TypeOK' /\ Stages' /\ Trail'
  BY <1>4 DEF IInv, TypeOK, Stages, Trail, Ages, runVars, Convictable
<1>6. Handles'
  BY <1>4 DEF IInv, TypeOK, Handles, Ages, runVars
<1> QED BY <1>5, <1>6 DEF IInv

-----------------------------------------------------------------------------
(* The theorems.                                                           *)

\* There is nothing to account for when the first run begins.
LEMMA InitIInv == Init => IInv
<1> SUFFICES ASSUME Init PROVE IInv
  OBVIOUS
<1>1. TypeOK
  <2>1. NoMarker \in [server : Servers \cup {NoServer}, stamped : BOOLEAN] /\ 1 \in 1..AttemptLimit
    BY AppiumAssumption DEF NoMarker
  <2> QED BY <2>1 DEF Init, TypeOK, Location
<1>2. Stages /\ Trail /\ Handles
  BY DEF Init, Stages, Trail, Handles, Stopping, Alive, Parties
<1> QED BY <1>1, <1>2 DEF IInv

\* Every step of a run, of a server and of the user keeps the invariant.
LEMMA NextIInv == IInv /\ [Next]_vars => IInv'
<1> SUFFICES ASSUME IInv, [Next]_vars PROVE IInv'
  OBVIOUS
<1>1. CASE Begin \/ Probe \/ ReclaimWait \/ Ready \/ Provisioned \/ Diagnose \/ Connect \/ RestartWait
           \/ Reconnected \/ Dispose \/ Crash
  <2>1. UNCHANGED procVars
    BY <1>1 DEF Begin, Probe, ReclaimWait, Ready, Provisioned, Diagnose, Connect, RestartWait, Reconnected,
       Dispose, Crash
  <2> QED BY <1>1, <2>1, WaitsKeep
<1>2. CASE Spawn \/ Respawn
  BY <1>2, LaunchesKeep
<1>3. CASE ProvisioningFails \/ Restart \/ ReconnectFails \/ StopMine
  BY <1>3, KillsKeep
<1>4. CASE Reclaim \/ StopWait \/ Escalate \/ EscalateWait
  BY <1>4, StopsKeep
<1>5. CASE ExitBestEffort
  BY <1>5, ExitKeeps
<1>6. CASE Environment
  BY <1>6, EnvironmentKeeps
<1>7. CASE UNCHANGED vars
  BY <1>7 DEF IInv, TypeOK, Stages, Trail, Handles, vars, procVars, runVars, Alive, Answers, Convictable
<1> QED BY <1>1, <1>2, <1>3, <1>4, <1>5, <1>6, <1>7 DEF Next, RunStep

\* The invariant holds between any two awaits.
LEMMA Inductive == Spec => []IInv
<1> QED BY InitIInv, NextIInv, PTL DEF Spec

\* What the runs leave and what a run holds is accounted for, for any number of servers and
\* attempts: unless something lapsed, a leftover is convicted by the marker, and whatever the run
\* itself has started is stopped by the handle it holds.
THEOREM Accounted == Spec => []ServersAccountedFor
<1>1. IInv => ServersAccountedFor
  <2> SUFFICES ASSUME IInv PROVE ServersAccountedFor
    OBVIOUS
  <2>1. LeftoverConvictableUnlessLapsed
    BY DEF IInv, Trail, LeftoverConvictableUnlessLapsed, LeftoverConvictable, Convictable, Alive, Answers,
       Unverified
  <2>2. HandleKept
    BY DEF IInv, Handles, HandleKept
  <2> QED BY <2>1, <2>2 DEF IInv, ServersAccountedFor
<1> QED BY <1>1, Inductive, PTL

\* A run that has spawned nothing kills only what its marker convicts: the server it restarts,
\* or those that hold the port of a stamped one.
THEOREM AdoptedAreSpared == Spec => AdoptedServerSpared
<1>1. IInv /\ [Next]_vars =>
        \A s \in Parties :
          (pc' # pc /\ spawned = {} /\ proc[s] = "serving" /\ proc'[s] # "serving")
            => \/ pc = "restarting" /\ s = known.server
               \/ pc = "reclaiming" /\ known.stamped
  <2> SUFFICES ASSUME IInv, [Next]_vars, NEW s \in Parties, pc' # pc, spawned = {},
                      proc[s] = "serving", proc'[s] # "serving"
               PROVE  \/ pc = "restarting" /\ s = known.server
                      \/ pc = "reclaiming" /\ known.stamped
    OBVIOUS
  <2>1. launch = NoServer /\ mine = NoServer /\ pc \notin Stopping
    BY DEF IInv, Stages
  <2>2. ~UNCHANGED procVars
    BY DEF procVars
  <2>3. CASE RunStep
    <3>1. CASE Spawn \/ Respawn
      BY <3>1 DEF Spawn, Respawn, startAppiumServer, IInv, TypeOK
    <3>2. CASE Restart
      <4>1. known.server \in Servers
        BY <3>2 DEF Restart, IInv, Stages
      <4> QED BY <3>2, <4>1, KillTreeWeakens DEF Restart, IInv
    <3>3. CASE Reclaim
      BY <3>3 DEF Reclaim, IInv, Stages
    <3>4. CASE ReconnectFails \/ ProvisioningFails \/ StopMine \/ Escalate
      BY <2>2, <3>4 DEF ReconnectFails, ProvisioningFails, StopMine, Escalate, IInv, Stages, Stopping
    <3> QED BY <2>2, <2>3, <3>1, <3>2, <3>3, <3>4 DEF RunStep, Probe, ReclaimWait, Ready, Provisioned,
               Diagnose, Connect, RestartWait, Reconnected, StopWait, EscalateWait
  <2>4. CASE ExitBestEffort
    BY <2>1, <2>2, <2>4 DEF ExitBestEffort
  <2>5. CASE Begin \/ Dispose \/ Crash \/ UNCHANGED vars
    BY <2>2, <2>5 DEF Begin, Dispose, Crash, vars
  <2>6. CASE Environment
    BY <2>6 DEF Environment, FinishLoading, Exit, UserStarts, UserStops, runVars
  <2> QED BY <2>3, <2>4, <2>5, <2>6 DEF Next
<1> QED BY <1>1, Inductive, PTL DEF Spec, AdoptedServerSpared


-----------------------------------------------------------------------------
(* The session: the invariant, in parts.                                   *)

\* Before its script is sent.
Unsent == {"idle", "ensure", "recover", "reset", "reselect", "poll", "channel", "attaching", "send"}

\* The runs of its closure that a call may have behind it before its script is sent.
Lapses(c) == IF c \in misreported THEN 1 ELSE 0

\* A script that the session has not come to belongs to a call that awaits it, or gave up on it; it is
\* queued once, and not while the closure runs. Until the session comes to it, the closure has run only
\* if the call was misreported; then the call has been retried, and will not be again.
QueueInv ==
  /\ \A i, j \in 1..Len(queue) : queue[i] = queue[j] => i = j
  /\ \A i \in 1..Len(queue) :
       started[queue[i]] <= Lapses(queue[i]) /\ stage[queue[i]] \in {"waiting", "capped", "dead"}
  /\ \A c \in Calls : stage[c] \in Unsent => started[c] <= Lapses(c)
  /\ guest # None =>
       stage[guest] \in {"waiting", "capped", "dead"} /\ \A i \in 1..Len(queue) : queue[i] # guest
  /\ \A c \in misreported : stage[c] \in Unsent \cup {"waiting"} => attempts[c] = 2
  /\ ClosureRunsOnce

\* What the budget of a call was when its script was sent.
Granted(c) == Cap + (IF c \in due THEN Grace ELSE 0)

\* What a waiting call has used of its budget it has waited for closures of others or run itself.
BudgetInv ==
  /\ \A t \in Transports : isRecoveringFromCapOverrun[t] <=> t \in owed
  /\ \A c \in Calls :
       stage[c] = "waiting" /\ Length[c] <= Cap
         => Granted(c) = timer[c] + wait[c] + (IF guest = c THEN Length[c] - left ELSE 0)
  /\ CappedOnlyBehindOthers

Attachable == context = "webview" /\ chrome # "dead"

\* Where the one call of a calm transport can stand.
OnItsWay(c, t) ==
  /\ stage[c] \in {"reset", "reselect", "poll"} => ~isInWebViewContext[t] /\ attempts[c] = 1
  /\ stage[c] \in {"channel", "attaching", "send", "waiting"} => Attachable
  /\ polls[c] # 0 =>
       /\ polls[c] = 1 /\ stage[c] \in {"poll", "reselect"}
       /\ ~(context = "webview" /\ chrome = "dead")
  /\ attempts[c] = 2 /\ stage[c] = "ensure" =>
       /\ Attachable
       /\ isWebViewWindowStale[t] \/ (isInWebViewContext[t] /\ chrome = "attached")
  /\ attempts[c] = 2 /\ stage[c] = "recover" => Attachable
  /\ attempts[c] = 2 /\ stage[c] \in {"channel", "attaching", "send", "waiting"} => chrome = "attached"

\* A calm transport takes itself to be in the WebView context only if it is, and has at most one call
\* under way; only calm transports have assured calls.
CalmInv ==
  /\ \A c \in Calls : stage[c] = "idle" => attempts[c] = 1 /\ polls[c] = 0
  /\ \A c \in assured : TransportOf[c] \in calm
  /\ calm # {} => app = "up" /\ ~terminated
  /\ \A t \in calm :
       /\ isInWebViewContext[t] => Attachable
       /\ \A c, d \in UnderWay(t) : c = d
       /\ \A c \in UnderWay(t) : OnItsWay(c, t)
  /\ HealsAfterOneFailure

Sent == {"send", "waiting"} \cup Ended
Active(c) == stage[c] \notin Ended \cup {"idle"}

\* A connection past the attempt that opened it.
Spent(d) ==
  \/ d[2] < attempts[d[1]]
  \/ d[2] = attempts[d[1]] /\ stage[d[1]] \in Sent

\* Somebody has the connection, or it is adrift.
Held(d) == d \in adrift \/ Attaching(d) \/ \E t \in Transports \ ended : d \in exitHandlers[t]

\* Every forward is that of a connection which somebody will close, or which nothing is left to close,
\* unless its removal failed.
ForwardInv ==
  /\ \A c \in Calls : Active(c) => TransportOf[c] \notin ended
  /\ disposeInputChannelOnExit = inputChannel
  /\ \A d \in adrift : Spent(d)
  /\ \A t \in Transports : \A d \in exitHandlers[t] : Spent(d)
  /\ \A f \in forwards \ unremoved : \E d \in Connections : portOf[d] = f /\ Held(d)

\* The inductive invariant.
SIInv == SessionTypeOK /\ QueueInv /\ BudgetInv /\ CalmInv /\ ForwardInv

-----------------------------------------------------------------------------
(* The types, in parts.                                                    *)

CallTypes ==
  /\ stage \in [Calls -> Unsent \cup {"waiting"} \cup Ended]
  /\ attempts \in [Calls -> 1..2] /\ polls \in [Calls -> 0..PollLimit]
  /\ timer \in [Calls -> 0..(Cap + Grace)]

SessionTypes ==
  /\ platform \in {"android", "ios"} /\ troubles \in 0..EventLimit[platform]
  /\ isInWebViewContext \in [Transports -> BOOLEAN] /\ isWebViewWindowStale \in [Transports -> BOOLEAN]
  /\ context \in {"native", "webview"} /\ chrome \in {"attached", "gone", "dead"}
  /\ app \in {"up", "down"} /\ terminated \in BOOLEAN
  /\ calm \subseteq Transports /\ assured \subseteq Calls /\ relapsed \subseteq Calls

ScriptTypes ==
  /\ isRecoveringFromCapOverrun \in [Transports -> BOOLEAN]
  /\ queue \in Seq(Calls) /\ guest \in Calls \cup {None} /\ left \in Nat
  /\ started \in [Calls -> Nat] /\ wait \in [Calls -> Nat]
  /\ owed \subseteq Transports /\ due \subseteq Calls /\ misreported \subseteq Calls

\* A call that waits has its script queued or running, or has outlasted the cap.
Pending ==
  \A c \in Calls : stage[c] = "waiting" => guest = c \/ Queued(c) \/ Length[c] > Cap

ChannelTypes ==
  /\ inputChannel \in [Transports -> Connections \cup {None}]
  /\ isInputChannelUnavailable \in [Transports -> BOOLEAN]
  /\ disposeInputChannelOnExit \in [Transports -> Connections \cup {None}]
  /\ exitHandlers \in [Transports -> SUBSET Connections]
  /\ open \subseteq Connections /\ forwards \subseteq Connections /\ adrift \subseteq Connections
  /\ unremoved \subseteq Connections
  /\ portOf \in [Connections -> Connections \cup {None}]
  /\ ended \subseteq Transports

\* The parts make up the type invariant, before a step and after it.
LEMMA TypeParts ==
  /\ SessionTypeOK <=> CallTypes /\ SessionTypes /\ ScriptTypes /\ Pending /\ ChannelTypes
  /\ SessionTypeOK' <=> CallTypes' /\ SessionTypes' /\ ScriptTypes' /\ Pending' /\ ChannelTypes'
BY DEF SessionTypeOK, CallTypes, SessionTypes, ScriptTypes, Pending, ChannelTypes, Unsent

-----------------------------------------------------------------------------
(* What each kind of step leaves alone.                                    *)

\* On the way to the context and the window.
PathStep ==
  \/ \E c \in Calls :
       \/ evaluate(c) \/ preflightCheck(c) \/ ensureWebViewContext(c) \/ SwitchWindow(c) \/ NoWindow(c)
       \/ ResetContext(c) \/ SwitchContext(c) \/ SwitchFails(c) \/ NoContext(c) \/ Deadline(c)
       \/ ChannelSettled(c) \/ CommandFails(c)
  \/ AppReturns

ChannelStep ==
  \/ \E c \in Calls : ensureInputChannel(c) \/ Attach(c) \/ ForwardIsGone(c) \/ AttachFails(c)
  \/ \E d \in Connections : SocketCloses(d)
  \/ \E t \in Transports : dispose(t) \/ ProcessExits(t) \/ ProcessKilled(t)

ScriptStep ==
  \/ \E c \in Calls : evaluateWithinCap(c) \/ Serve(c) \/ CapFires(c)
  \/ GuestEnds \/ Tick \/ WindowReplaced \/ AppDies \/ SessionTerminates

\* The scripts stay as they are; calls may go on, fail or die before theirs is sent.
ScriptKept ==
  /\ UNCHANGED <<script, isRecoveringFromCapOverrun, run, history, attempts>>
  /\ \A c \in Calls :
       /\ \/ stage'[c] \in {stage[c], "dead"}
          \/ stage[c] \in Unsent /\ stage'[c] \in Unsent \cup {"failed"}
       /\ stage'[c] = "waiting" => timer'[c] = timer[c]

\* The channel stays as it is, and the calls as far as it depends on them.
ChannelKept ==
  /\ UNCHANGED <<channel, ended>>
  /\ \A c \in Calls :
       /\ stage'[c] = "attaching" <=> stage[c] = "attaching"
       /\ attempts'[c] = attempts[c] \/ (attempts'[c] = 2 /\ attempts[c] = 1 /\ stage[c] = "waiting")
       /\ attempts'[c] = attempts[c] /\ stage[c] \in Sent => stage'[c] \in Sent
       /\ Active(c)' => Active(c) \/ TransportOf[c] \notin ended

\* The session stays as it is, and the calls as far as their way through it goes.
SessionKept ==
  /\ UNCHANGED <<session, flags, attempts, polls, relapsed>>
  /\ \/ UNCHANGED <<calm, assured>>
     \/ calm' = {} /\ assured' = {}
  /\ \A c \in Calls :
       \/ stage'[c] = stage[c]
       \/ {stage[c], stage'[c]} \subseteq {"channel", "attaching", "send", "waiting"}
       \/ stage'[c] \in Ended

\* The steps of the specification, sorted.
LEMMA StepKinds ==
  SessionNext => PathStep \/ ChannelStep \/ ScriptStep
BY DEF SessionNext, SessionStep, PathStep, ChannelStep, ScriptStep

\* Troubles are bounded, and leave nobody calm.
LEMMA TroubleStep ==
  ASSUME SessionTypeOK, Trouble
  PROVE  troubles' \in 0..EventLimit[platform] /\ calm' = {} /\ assured' = {} /\ relapsed' = relapsed
<1>1. IsFiniteSet(Begun) /\ Cardinality(Begun) \in Nat
  BY SessionAssumption, FS_Subset, FS_CardinalityType DEF Begun
<1>2. EventLimit[platform] \in Nat
  BY SessionAssumption DEF SessionTypeOK
<1>3. troubles' \in 0..EventLimit[platform]
  BY <1>1, <1>2 DEF SessionTypeOK, Trouble, EventsLeft, Events
<1>4. calm' = {} /\ assured' = {} /\ relapsed' = relapsed
  BY SessionAssumption DEF SessionTypeOK, Trouble, Unsettle
<1> QED BY <1>3, <1>4

\* What a removal does: a forward goes, or its removal is noted to have failed.
LEMMA StuckStep ==
  ASSUME SessionTypeOK, NEW ports, NEW stuck \in Stuck(ports), NoteStuck(stuck)
  PROVE  /\ troubles' \in 0..EventLimit[platform] /\ unremoved' = unremoved \cup stuck
         /\ unremoved' \subseteq Connections /\ stuck \subseteq forwards
<1>1. IsFiniteSet(Begun) /\ Cardinality(Begun) \in Nat
  BY SessionAssumption, FS_Subset, FS_CardinalityType DEF Begun
<1>2. EventLimit[platform] \in Nat /\ troubles \in 0..EventLimit[platform]
  BY SessionAssumption DEF SessionTypeOK
<1>3. stuck \subseteq forwards /\ (stuck = {} \/ Events < EventLimit[platform])
  BY DEF Stuck, EventsLeft
<1>4. troubles' \in 0..EventLimit[platform]
  BY <1>1, <1>2, <1>3 DEF NoteStuck, Events
<1> QED BY <1>3, <1>4 DEF NoteStuck, SessionTypeOK

LEMMA RemovalStep ==
  ASSUME SessionTypeOK, NEW ports, removeForward(ports)
  PROVE  /\ troubles' \in 0..EventLimit[platform]
         /\ unremoved \subseteq unremoved' /\ unremoved' \subseteq Connections
         /\ forwards' \subseteq forwards /\ \A f \in forwards' \ unremoved' : f \notin ports
<1>1. PICK stuck \in Stuck(ports) : forwards' = forwards \ (ports \ stuck) /\ NoteStuck(stuck)
  BY DEF removeForward
<1> QED BY <1>1, StuckStep

\* What becomes of the forwards when a connection is disposed of and another is begun.
LEMMA InputChannelStep ==
  ASSUME SessionTypeOK, NEW c \in Calls, ensureInputChannel(c), NEW ports,
         ports = {portOf[d] : d \in {inputChannel[TransportOf[c]]} \ {None}}
  PROVE  \E stuck \in Stuck(ports) : \E port \in (forwards \ (ports \ stuck)) \cup {Connection(c)} :
           /\ NoteStuck(stuck)
           /\ portOf' = [portOf EXCEPT ![Connection(c)] = port]
           /\ forwards' = (forwards \ (ports \ stuck)) \cup {port}
<1>1. PICK stuck \in Stuck(ports) :
        LET kept == forwards \ (ports \ stuck) IN
        /\ NoteStuck(stuck)
        /\ \E port \in kept \cup (IF \A d \in kept : Attaching(d) THEN {Connection(c)} ELSE {}) :
             /\ portOf' = [portOf EXCEPT ![Connection(c)] = port]
             /\ forwards' = kept \cup {port}
  BY DEF ensureInputChannel
<1>2. PICK port \in (forwards \ (ports \ stuck)) \cup {Connection(c)} :
        /\ portOf' = [portOf EXCEPT ![Connection(c)] = port]
        /\ forwards' = (forwards \ (ports \ stuck)) \cup {port}
  BY <1>1
<1> QED BY <1>1, <1>2

\* Taking the first script off the queue.
LEMMA FirstOfQueue ==
  ASSUME SessionTypeOK, queue # <<>>
  PROVE  /\ Head(queue) = queue[1] /\ Tail(queue) \in Seq(Calls) /\ 1 \in 1..Len(queue)
         /\ \A i \in 1..Len(Tail(queue)) : i + 1 \in 1..Len(queue) /\ Tail(queue)[i] = queue[i + 1]
         /\ \A i \in 1..Len(queue) : i # 1 => i - 1 \in 1..Len(Tail(queue)) /\ queue[i] = Tail(queue)[i - 1]
<1>1. queue \in Seq(Calls) /\ Len(queue) \in Nat /\ Len(queue) # 0
  BY DEF SessionTypeOK
<1>2. Head(queue) = queue[1] /\ Tail(queue) \in Seq(Calls) /\ 1 \in 1..Len(queue)
  BY <1>1
<1>3. Len(Tail(queue)) = Len(queue) - 1 /\ \A i \in 1..Len(Tail(queue)) : Tail(queue)[i] = queue[i + 1]
  BY <1>1
<1>4. \A i \in 1..Len(Tail(queue)) : i + 1 \in 1..Len(queue)
  BY <1>1, <1>3
<1>5. ASSUME NEW i \in 1..Len(queue), i # 1
      PROVE  i - 1 \in 1..Len(Tail(queue)) /\ queue[i] = Tail(queue)[i - 1]
  <2>1. i - 1 \in 1..Len(Tail(queue)) /\ (i - 1) + 1 = i
    BY <1>1, <1>3, <1>5
  <2> QED BY <2>1, <1>3
<1> QED BY <1>2, <1>3, <1>4, <1>5

\* Adding a script to the queue.
LEMMA LastOfQueue ==
  ASSUME SessionTypeOK, NEW c \in Calls
  PROVE  LET q == Append(queue, c) IN
         /\ q \in Seq(Calls) /\ Len(q) = Len(queue) + 1 /\ q[Len(queue) + 1] = c
         /\ \A i \in 1..Len(queue) : q[i] = queue[i]
BY DEF SessionTypeOK

\* The steps on the way leave scripts and channel alone.
LEMMA PathTypes ==
  ASSUME SessionTypeOK, PathStep
  PROVE  CallTypes' /\ SessionTypes' /\ ScriptKept /\ ChannelKept
<1> USE SessionAssumption, TypeParts DEF StageIs, flags, session
<1>1. ASSUME NEW c \in Calls, evaluate(c) PROVE CallTypes' /\ SessionTypes' /\ ScriptKept /\ ChannelKept
  <2>1. CallTypes'
    BY <1>1 DEF CallTypes, Unsent, Ended, evaluate, MayBegin, Unsettle
  <2>2. SessionTypes'
    BY <1>1 DEF SessionTypes, health, evaluate, MayBegin, Unsettle
  <2>3. ScriptKept
    BY <1>1 DEF CallTypes, ScriptKept, script, history, Unsent, Ended, evaluate, MayBegin, Unsettle
  <2>4. ChannelKept
    BY <1>1 DEF CallTypes, ChannelKept, channel, Sent, Active, Unsent, Ended, evaluate, MayBegin, Unsettle
  <2> QED BY <2>1, <2>2, <2>3, <2>4
<1>2. ASSUME NEW c \in Calls, preflightCheck(c)
      PROVE  CallTypes' /\ SessionTypes' /\ ScriptKept /\ ChannelKept
  <2>1. CallTypes'
    BY <1>2 DEF CallTypes, Unsent, Ended, preflightCheck, MayBegin
  <2>2. SessionTypes'
    BY <1>2 DEF SessionTypes, health, preflightCheck, MayBegin
  <2>3. ScriptKept
    BY <1>2 DEF CallTypes, ScriptKept, script, history, Unsent, Ended, preflightCheck, MayBegin
  <2>4. ChannelKept
    BY <1>2 DEF CallTypes, ChannelKept, channel, Sent, Active, Unsent, Ended, preflightCheck, MayBegin
  <2> QED BY <2>1, <2>2, <2>3, <2>4
<1>3. ASSUME NEW c \in Calls, ensureWebViewContext(c)
      PROVE  CallTypes' /\ SessionTypes' /\ ScriptKept /\ ChannelKept
  <2>1. CallTypes'
    BY <1>3 DEF CallTypes, Unsent, Ended, ensureWebViewContext
  <2>2. SessionTypes'
    BY <1>3 DEF SessionTypes, health, ensureWebViewContext
  <2>3. ScriptKept
    BY <1>3 DEF CallTypes, ScriptKept, script, history, Unsent, Ended, ensureWebViewContext
  <2>4. ChannelKept
    BY <1>3 DEF CallTypes, ChannelKept, channel, Sent, Active, Unsent, Ended, ensureWebViewContext
  <2> QED BY <2>1, <2>2, <2>3, <2>4
<1>4. ASSUME NEW c \in Calls, SwitchWindow(c)
      PROVE  CallTypes' /\ SessionTypes' /\ ScriptKept /\ ChannelKept
  <2>1. CallTypes'
    BY <1>4 DEF CallTypes, Unsent, Ended, SwitchWindow
  <2>2. SessionTypes'
    BY <1>4 DEF SessionTypes, health, SwitchWindow
  <2>3. ScriptKept
    BY <1>4 DEF CallTypes, ScriptKept, script, history, Unsent, Ended, SwitchWindow
  <2>4. ChannelKept
    BY <1>4 DEF CallTypes, ChannelKept, channel, Sent, Active, Unsent, Ended, SwitchWindow
  <2> QED BY <2>1, <2>2, <2>3, <2>4
<1>5. ASSUME NEW c \in Calls, NoWindow(c) PROVE CallTypes' /\ SessionTypes' /\ ScriptKept /\ ChannelKept
  <2>1. CallTypes'
    BY <1>5 DEF CallTypes, Unsent, Ended, NoWindow
  <2>2. SessionTypes'
    BY <1>5 DEF SessionTypes, health, NoWindow
  <2>3. ScriptKept
    BY <1>5 DEF CallTypes, ScriptKept, script, history, Unsent, Ended, NoWindow
  <2>4. ChannelKept
    BY <1>5 DEF CallTypes, ChannelKept, channel, Sent, Active, Unsent, Ended, NoWindow
  <2> QED BY <2>1, <2>2, <2>3, <2>4
<1>6. ASSUME NEW c \in Calls, ResetContext(c)
      PROVE  CallTypes' /\ SessionTypes' /\ ScriptKept /\ ChannelKept
  <2>1. CallTypes'
    BY <1>6 DEF CallTypes, Unsent, Ended, ResetContext, ToNative, Unsettle
  <2>2. SessionTypes'
    BY <1>6 DEF SessionTypes, health, ResetContext, ToNative, Unsettle
  <2>3. ScriptKept
    BY <1>6 DEF CallTypes, ScriptKept, script, history, Unsent, Ended, ResetContext, ToNative, Unsettle
  <2>4. ChannelKept
    BY <1>6 DEF CallTypes, ChannelKept, channel, Sent, Active, Unsent, Ended, ResetContext, ToNative,
       Unsettle
  <2> QED BY <2>1, <2>2, <2>3, <2>4
<1>7. ASSUME NEW c \in Calls, SwitchContext(c)
      PROVE  CallTypes' /\ SessionTypes' /\ ScriptKept /\ ChannelKept
  <2>1. CallTypes'
    BY <1>7 DEF CallTypes, Unsent, Ended, SwitchContext, Polling, AtLoop
  <2>2. SessionTypes'
    BY <1>7 DEF SessionTypes, health, SwitchContext, Polling, AtLoop
  <2>3. ScriptKept
    BY <1>7 DEF CallTypes, ScriptKept, script, history, Unsent, Ended, SwitchContext, Polling, AtLoop
  <2>4. ChannelKept
    BY <1>7 DEF CallTypes, ChannelKept, channel, Sent, Active, Unsent, Ended, SwitchContext, Polling, AtLoop
  <2> QED BY <2>1, <2>2, <2>3, <2>4
<1>8. ASSUME NEW c \in Calls, SwitchFails(c)
      PROVE  CallTypes' /\ SessionTypes' /\ ScriptKept /\ ChannelKept
  <2>1. CallTypes'
    BY <1>8 DEF CallTypes, Unsent, Ended, SwitchFails, AfterFailedSwitch, ToNative, Unsettle, Polling, AtLoop
  <2>2. SessionTypes'
    BY <1>8 DEF SessionTypes, health, SwitchFails, AfterFailedSwitch, ToNative, Unsettle, Polling, AtLoop
  <2>3. ScriptKept
    BY <1>8 DEF CallTypes, ScriptKept, script, history, Unsent, Ended, SwitchFails, AfterFailedSwitch,
       ToNative, Unsettle, Polling, AtLoop
  <2>4. ChannelKept
    BY <1>8 DEF CallTypes, ChannelKept, channel, Sent, Active, Unsent, Ended, SwitchFails,
       AfterFailedSwitch, ToNative, Unsettle, Polling, AtLoop
  <2> QED BY <2>1, <2>2, <2>3, <2>4
<1>9. ASSUME NEW c \in Calls, NoContext(c) PROVE CallTypes' /\ SessionTypes' /\ ScriptKept /\ ChannelKept
  <2>1. CallTypes'
    BY <1>9 DEF CallTypes, Unsent, Ended, NoContext, Polling, AtLoop
  <2>2. SessionTypes'
    BY <1>9 DEF SessionTypes, health, NoContext, Polling, AtLoop
  <2>3. ScriptKept
    BY <1>9 DEF CallTypes, ScriptKept, script, history, Unsent, Ended, NoContext, Polling, AtLoop
  <2>4. ChannelKept
    BY <1>9 DEF CallTypes, ChannelKept, channel, Sent, Active, Unsent, Ended, NoContext, Polling, AtLoop
  <2> QED BY <2>1, <2>2, <2>3, <2>4
<1>10. ASSUME NEW c \in Calls, Deadline(c) PROVE CallTypes' /\ SessionTypes' /\ ScriptKept /\ ChannelKept
  <2>1. CallTypes'
    BY <1>10 DEF CallTypes, Unsent, Ended, Deadline, AtLoop, PollEnds, Failed
  <2>2. SessionTypes'
    BY <1>10 DEF SessionTypes, health, Deadline, AtLoop, PollEnds, Failed
  <2>3. ScriptKept
    BY <1>10 DEF CallTypes, ScriptKept, script, history, Unsent, Ended, Deadline, AtLoop, PollEnds, Failed
  <2>4. ChannelKept
    BY <1>10 DEF CallTypes, ChannelKept, channel, Sent, Active, Unsent, Ended, Deadline, AtLoop, PollEnds,
       Failed
  <2> QED BY <2>1, <2>2, <2>3, <2>4
<1>11. ASSUME NEW c \in Calls, ChannelSettled(c)
       PROVE  CallTypes' /\ SessionTypes' /\ ScriptKept /\ ChannelKept
  <2>1. CallTypes'
    BY <1>11 DEF CallTypes, Unsent, Ended, ChannelSettled
  <2>2. SessionTypes'
    BY <1>11 DEF SessionTypes, health, ChannelSettled
  <2>3. ScriptKept
    BY <1>11 DEF CallTypes, ScriptKept, script, history, Unsent, Ended, ChannelSettled
  <2>4. ChannelKept
    BY <1>11 DEF CallTypes, ChannelKept, channel, Sent, Active, Unsent, Ended, ChannelSettled
  <2> QED BY <2>1, <2>2, <2>3, <2>4
<1>12. ASSUME NEW c \in Calls, CommandFails(c)
       PROVE  CallTypes' /\ SessionTypes' /\ ScriptKept /\ ChannelKept
  <2>1. CallTypes'
    BY <1>12 DEF CallTypes, Unsent, Ended, CommandFails, Trouble, Unsettle, EventsLeft
  <2>2. SessionTypes'
    BY <1>12, TroubleStep DEF SessionTypes, CommandFails
  <2>3. ScriptKept
    BY <1>12 DEF CallTypes, ScriptKept, script, history, Unsent, Ended, CommandFails, Trouble, Unsettle,
       EventsLeft
  <2>4. ChannelKept
    BY <1>12 DEF CallTypes, ChannelKept, channel, Sent, Active, Unsent, Ended, CommandFails, Trouble,
       Unsettle, EventsLeft
  <2> QED BY <2>1, <2>2, <2>3, <2>4
<1>13. CASE AppReturns
  BY <1>13 DEF AppReturns, CallTypes, SessionTypes, ScriptKept, ChannelKept, Active, script, channel,
     history, health
<1> QED BY PathStep, <1>1, <1>2, <1>3, <1>4, <1>5, <1>6, <1>7, <1>8, <1>9, <1>10, <1>11, <1>12, <1>13 DEF
           PathStep

\* The steps of the channel leave scripts and session alone.
LEMMA ChannelTypesStep ==
  ASSUME SessionTypeOK, ChannelStep
  PROVE  CallTypes' /\ SessionTypes' /\ ChannelTypes' /\ ScriptKept /\ SessionKept
<1> USE SessionAssumption, TypeParts DEF StageIs
<1>1. ASSUME NEW c \in Calls, ensureInputChannel(c)
      PROVE  CallTypes' /\ SessionTypes' /\ ChannelTypes' /\ ScriptKept /\ SessionKept
  <2> DEFINE ports == {portOf[d] : d \in {inputChannel[TransportOf[c]]} \ {None}}
  <2>a1. PICK stuck \in Stuck(ports) : \E port \in (forwards \ (ports \ stuck)) \cup {Connection(c)} :
           /\ NoteStuck(stuck)
           /\ portOf' = [portOf EXCEPT ![Connection(c)] = port]
           /\ forwards' = (forwards \ (ports \ stuck)) \cup {port}
    BY <1>1, InputChannelStep
  <2>a. PICK port \in (forwards \ (ports \ stuck)) \cup {Connection(c)} :
           /\ NoteStuck(stuck)
           /\ portOf' = [portOf EXCEPT ![Connection(c)] = port]
           /\ forwards' = (forwards \ (ports \ stuck)) \cup {port}
    BY <2>a1
  <2>b. troubles' \in 0..EventLimit[platform] /\ unremoved' \subseteq Connections
    BY <2>a, StuckStep
  <2>c. Connection(c) \in Connections
    BY DEF Connection, Connections, CallTypes
  <2>1. CallTypes'
    BY <1>1 DEF CallTypes, Unsent, Ended, ensureInputChannel, unregisterInputChannelExitHandler, Drop
  <2>2. SessionTypes'
    BY <1>1, <2>b DEF SessionTypes, flags, session, health, ensureInputChannel,
       unregisterInputChannelExitHandler, Drop
  <2>3. ChannelTypes'
    BY <1>1, <2>a, <2>b, <2>c DEF ChannelTypes, ensureInputChannel, unregisterInputChannelExitHandler, Drop
  <2>4. ScriptKept
    BY <1>1 DEF CallTypes, ScriptKept, script, history, Unsent, Ended, ensureInputChannel,
       unregisterInputChannelExitHandler, Drop
  <2>5. SessionKept
    BY <1>1 DEF CallTypes, SessionTypes, SessionKept, flags, session, health, Ended, Unsent,
       ensureInputChannel, unregisterInputChannelExitHandler, Drop
  <2> QED BY <2>1, <2>2, <2>3, <2>4, <2>5
<1>2. ASSUME NEW c \in Calls, Attach(c)
      PROVE  CallTypes' /\ SessionTypes' /\ ChannelTypes' /\ ScriptKept /\ SessionKept
  <2>1. CallTypes'
    BY <1>2 DEF CallTypes, Unsent, Ended, Attach
  <2>2. SessionTypes'
    BY <1>2 DEF SessionTypes, flags, session, health, Attach
  <2>3. ChannelTypes'
    BY <1>2 DEF CallTypes, ChannelTypes, Connections, Connection, channel, Attach
  <2>4. ScriptKept
    BY <1>2 DEF CallTypes, ScriptKept, script, history, Unsent, Ended, Attach
  <2>5. SessionKept
    BY <1>2 DEF CallTypes, SessionTypes, SessionKept, flags, session, health, Ended, Unsent, Attach
  <2> QED BY <2>1, <2>2, <2>3, <2>4, <2>5
<1>3. ASSUME NEW c \in Calls, ForwardIsGone(c)
      PROVE  CallTypes' /\ SessionTypes' /\ ChannelTypes' /\ ScriptKept /\ SessionKept
  <2>1. CallTypes'
    BY <1>3 DEF CallTypes, Unsent, Ended, ForwardIsGone, GiveUpChannel
  <2>2. SessionTypes'
    BY <1>3 DEF SessionTypes, flags, session, health, ForwardIsGone, GiveUpChannel
  <2>3. ChannelTypes'
    BY <1>3 DEF CallTypes, ChannelTypes, Connections, Connection, channel, ForwardIsGone, GiveUpChannel
  <2>4. ScriptKept
    BY <1>3 DEF CallTypes, ScriptKept, script, history, Unsent, Ended, ForwardIsGone, GiveUpChannel
  <2>5. SessionKept
    BY <1>3 DEF CallTypes, SessionTypes, SessionKept, flags, session, health, Ended, Unsent, ForwardIsGone,
       GiveUpChannel
  <2> QED BY <2>1, <2>2, <2>3, <2>4, <2>5
<1>4. ASSUME NEW c \in Calls, AttachFails(c)
      PROVE  CallTypes' /\ SessionTypes' /\ ChannelTypes' /\ ScriptKept /\ SessionKept
  <2>1. CallTypes'
    BY <1>4 DEF CallTypes, Unsent, Ended, AttachFails, GiveUpChannel, Trouble, Unsettle, EventsLeft
  <2>2. SessionTypes'
    BY <1>4, TroubleStep DEF SessionTypes, flags, session, AttachFails, GiveUpChannel
  <2>3. ChannelTypes'
    BY <1>4 DEF CallTypes, ChannelTypes, Connections, Connection, channel, AttachFails, GiveUpChannel,
       Trouble, Unsettle, EventsLeft
  <2>4. ScriptKept
    BY <1>4 DEF CallTypes, ScriptKept, script, history, Unsent, Ended, AttachFails, GiveUpChannel, Trouble,
       Unsettle, EventsLeft
  <2>5. SessionKept
    BY <1>4 DEF CallTypes, SessionTypes, SessionKept, flags, session, health, Ended, Unsent, AttachFails,
       GiveUpChannel, Trouble, Unsettle, EventsLeft
  <2> QED BY <2>1, <2>2, <2>3, <2>4, <2>5
<1>5. ASSUME NEW d \in Connections, SocketCloses(d)
      PROVE  CallTypes' /\ SessionTypes' /\ ChannelTypes' /\ ScriptKept /\ SessionKept
  <2>1. CallTypes'
    BY <1>5 DEF CallTypes, Unsent, Ended, SocketCloses, Trouble, Unsettle, EventsLeft
  <2>2. SessionTypes'
    BY <1>5, TroubleStep DEF SessionTypes, flags, session, SocketCloses
  <2>3. ChannelTypes'
    BY <1>5 DEF CallTypes, ChannelTypes, Connections, Connection, channel, SocketCloses, Trouble, Unsettle,
       EventsLeft
  <2>4. ScriptKept
    BY <1>5 DEF CallTypes, ScriptKept, script, history, Unsent, Ended, SocketCloses, Trouble, Unsettle,
       EventsLeft
  <2>5. SessionKept
    BY <1>5 DEF CallTypes, SessionTypes, SessionKept, flags, session, health, Ended, Unsent, SocketCloses,
       Trouble, Unsettle, EventsLeft
  <2> QED BY <2>1, <2>2, <2>3, <2>4, <2>5
<1>6. ASSUME NEW t \in Transports, dispose(t)
      PROVE  CallTypes' /\ SessionTypes' /\ ChannelTypes' /\ ScriptKept /\ SessionKept
  <2>1. CallTypes'
    BY <1>6 DEF CallTypes, Unsent, Ended, dispose, unregisterInputChannelExitHandler, Drop
  <2>2. SessionTypes'
    BY <1>6, RemovalStep DEF SessionTypes, flags, session, health, dispose, unregisterInputChannelExitHandler,
       Drop
  <2>3. ChannelTypes'
    BY <1>6, RemovalStep DEF ChannelTypes, dispose, unregisterInputChannelExitHandler, Drop
  <2>4. ScriptKept
    BY <1>6 DEF CallTypes, ScriptKept, script, history, Unsent, Ended, dispose,
       unregisterInputChannelExitHandler, Drop
  <2>5. SessionKept
    BY <1>6 DEF CallTypes, SessionTypes, SessionKept, flags, session, health, Ended, Unsent, dispose,
       unregisterInputChannelExitHandler, Drop
  <2> QED BY <2>1, <2>2, <2>3, <2>4, <2>5
<1>7. ASSUME NEW t \in Transports, ProcessExits(t) \/ ProcessKilled(t)
      PROVE  CallTypes' /\ SessionTypes' /\ ChannelTypes' /\ ScriptKept /\ SessionKept
  <2>a. ProcessEnds(t)
    BY <1>7 DEF ProcessExits, ProcessKilled
  <2>b. troubles' \in 0..EventLimit[platform] /\ unremoved' \subseteq Connections /\ forwards' \subseteq forwards
    <3>1. CASE ProcessExits(t)
      BY <3>1, RemovalStep DEF ProcessExits
    <3>2. CASE ProcessKilled(t)
      <4>1. IsFiniteSet(Begun) /\ Cardinality(Begun) \in Nat /\ EventLimit[platform] \in Nat
        BY FS_Subset, FS_CardinalityType DEF Begun, SessionTypes
      <4> QED BY <3>2, <4>1 DEF ProcessKilled, EventsLeft, Events, SessionTypes, ChannelTypes
    <3> QED BY <1>7, <3>1, <3>2
  <2>c. adrift' \subseteq Connections
    <3>1. BeingAttached(t) \subseteq Connections
      BY DEF BeingAttached, CallsOf, Connection, Connections, CallTypes
    <3> QED BY <1>7, <3>1 DEF ProcessExits, ProcessKilled, ChannelTypes
  <2>1. CallTypes'
    BY <2>a DEF CallTypes, Unsent, Ended, ProcessEnds, CallsOf
  <2>2. SessionTypes'
    BY <2>a, <2>b DEF SessionTypes, flags, session, health, ProcessEnds, CallsOf
  <2>3. ChannelTypes'
    BY <2>a, <2>b, <2>c DEF ChannelTypes, ProcessEnds
  <2>4. ScriptKept
    BY <2>a DEF CallTypes, ScriptKept, script, history, Unsent, Ended, ProcessEnds, CallsOf
  <2>5. SessionKept
    BY <2>a DEF CallTypes, SessionTypes, SessionKept, flags, session, health, Ended, Unsent, ProcessEnds,
       CallsOf
  <2> QED BY <2>1, <2>2, <2>3, <2>4, <2>5
<1> QED BY ChannelStep, <1>1, <1>2, <1>3, <1>4, <1>5, <1>6, <1>7 DEF ChannelStep

\* The steps of the scripts leave the channel alone.
LEMMA ScriptTypesStep ==
  ASSUME SessionTypeOK, ScriptStep
  PROVE  CallTypes' /\ SessionTypes' /\ ScriptTypes' /\ Pending' /\ ChannelKept
<1>a. CallTypes /\ SessionTypes /\ ScriptTypes /\ Pending
  BY TypeParts
<1>b. /\ Cap \in Nat
      /\ Cap + Grace \in Nat
      /\ Length \in [Calls -> Nat \ {0}]
      /\ TransportOf \in [Calls -> Transports]
      /\ None \notin Calls
  BY SessionAssumption
<1>c. Cap <= Cap + Grace /\ 2 \in 1..2
  BY SessionAssumption
<1> USE <1>a DEF StageIs
<1>1. ASSUME NEW c \in Calls, evaluateWithinCap(c)
      PROVE  CallTypes' /\ SessionTypes' /\ ScriptTypes' /\ Pending' /\ ChannelKept
  <2>1. CallTypes'
    BY <1>1, <1>b, <1>c DEF CallTypes, ScriptTypes, Unsent, Ended, evaluateWithinCap, Budget
  <2>2. SessionTypes'
    BY <1>1 DEF SessionTypes, ScriptTypes, flags, session, health, evaluateWithinCap, Budget
  <2>3. ScriptTypes'
    <3>1. queue' \in Seq(Calls)
      BY <1>1, LastOfQueue DEF evaluateWithinCap
    <3>2. wait' \in [Calls -> Nat] /\ owed' \subseteq Transports /\ due' \subseteq Calls
      BY <1>1 DEF ScriptTypes, evaluateWithinCap
    <3> QED BY <3>1, <3>2, <1>1 DEF ScriptTypes, run, evaluateWithinCap
  <2>4. Pending'
    <3>1. \A d \in Calls : Queued(d) \/ d = c => Queued(d)'
      <4>1. queue' = Append(queue, c) /\ queue \in Seq(Calls) /\ Len(queue) \in Nat
        BY <1>1 DEF evaluateWithinCap, ScriptTypes
      <4>2. /\ Len(queue') = Len(queue) + 1 /\ queue'[Len(queue) + 1] = c
            /\ \A i \in 1..Len(queue) : queue'[i] = queue[i]
        BY <4>1, LastOfQueue
      <4> QED BY <4>1, <4>2 DEF Queued
    <3> QED BY <3>1, <1>1 DEF Pending, CallTypes, evaluateWithinCap
  <2>5. ChannelKept
    BY <1>1 DEF CallTypes, ScriptTypes, ChannelKept, channel, Sent, Active, Unsent, Ended,
       evaluateWithinCap, Budget
  <2> QED BY <2>1, <2>2, <2>3, <2>4, <2>5
<1>2. ASSUME NEW c \in Calls, Serve(c)
      PROVE  CallTypes' /\ SessionTypes' /\ ScriptTypes' /\ Pending' /\ ChannelKept
  <2>a. c = queue[1] /\ queue' \in Seq(Calls) /\ \A d \in Calls : Queued(d) => d = c \/ Queued(d)'
    BY <1>2, FirstOfQueue DEF Serve, Queued
  <2>b. /\ guest = None
        /\ UNCHANGED <<platform, isRecoveringFromCapOverrun, polls, session, channel, ended, troubles,
                       misreported, history>>
    BY <1>2 DEF Serve
  <2>1. CASE CanRun
    <3>1. /\ guest' = c
          /\ left' = Length[c]
          /\ started' = [started EXCEPT ![c] = @ + 1]
          /\ UNCHANGED <<flags, stage, attempts, timer, health, misreported>>
      BY <1>2, <2>1 DEF Serve
    <3>2. CallTypes' /\ SessionTypes' /\ ChannelKept
      BY <2>b, <3>1 DEF CallTypes, SessionTypes, ChannelKept, Active, session, flags, health
    <3>3. ScriptTypes'
      <4>1. left' \in Nat /\ guest' \in Calls \cup {None}
        BY <3>1, <1>b
      <4>2. started' \in [Calls -> Nat]
        BY <3>1 DEF ScriptTypes
      <4> QED BY <2>a, <2>b, <4>1, <4>2 DEF ScriptTypes, history
    <3>4. Pending'
      BY <2>a, <2>b, <3>1, <1>b DEF Pending
    <3> QED BY <3>2, <3>3, <3>4
  <2>2. CASE ~CanRun
    <3>1. PICK why \in Refusals :
             /\ ScriptFails(c, why)
             /\ IF stage[c] = "waiting" /\ ~RetriesAfter(c, why) THEN ScriptFailed(c) ELSE UNCHANGED health
             /\ UNCHANGED <<guest, left, started>>
      BY <1>2, <2>2 DEF Serve
    <3>2. CASE stage[c] # "waiting"
      <4>1. UNCHANGED <<flags, stage, attempts, timer, health>>
        BY <3>1, <3>2 DEF ScriptFails
      <4>2. CallTypes' /\ SessionTypes' /\ ChannelKept
        BY <2>b, <4>1 DEF CallTypes, SessionTypes, ChannelKept, Active, session, flags, health
      <4>3. ScriptTypes'
        BY <2>a, <2>b, <3>1 DEF ScriptTypes, history
      <4>4. Pending'
        BY <2>a, <2>b, <3>1, <3>2, <4>1 DEF Pending
      <4> QED BY <4>2, <4>3, <4>4
    <3>3. CASE stage[c] = "waiting"
      <4>1. /\ timer' = [timer EXCEPT ![c] = 0]
            /\ isInWebViewContext' = [isInWebViewContext EXCEPT ![TransportOf[c]] = FALSE]
            /\ isWebViewWindowStale' = [isWebViewWindowStale EXCEPT ![TransportOf[c]] = @ \/ why = "window-closed"]
            /\ \/ attempts[c] = 1 /\ stage' = [stage EXCEPT ![c] = "ensure"] /\ attempts' = [attempts EXCEPT ![c] = 2]
               \/ stage' = [stage EXCEPT ![c] = "failed"] /\ attempts' = attempts
        BY <3>1, <3>3 DEF ScriptFails, DistrustContext, RetriesAfter
      <4>2. CallTypes'
        BY <2>b, <4>1, <1>b DEF CallTypes, Unsent, Ended
      <4>3. calm' \subseteq Transports /\ assured' \subseteq Calls /\ relapsed' \subseteq Calls
        BY <3>1, <1>b DEF SessionTypes, ScriptFailed, health
      <4>4. SessionTypes'
        BY <2>b, <4>1, <4>3, <1>b DEF SessionTypes, session
      <4>5. ScriptTypes'
        BY <2>a, <2>b, <3>1 DEF ScriptTypes, history
      <4>6. Pending'
        BY <2>a, <2>b, <3>1, <4>1 DEF Pending, CallTypes
      <4>7. ChannelKept
        BY <2>b, <3>3, <4>1 DEF ChannelKept, CallTypes, Active, Sent, Ended, Unsent
      <4> QED BY <4>2, <4>4, <4>5, <4>6, <4>7
    <3> QED BY <3>2, <3>3
  <2> QED BY <2>1, <2>2
<1>3. ASSUME NEW c \in Calls, CapFires(c)
      PROVE  CallTypes' /\ SessionTypes' /\ ScriptTypes' /\ Pending' /\ ChannelKept
  <2>1. CallTypes'
    BY <1>3 DEF CallTypes, ScriptTypes, Unsent, Ended, CapFires, NoteOverrun
  <2>2. SessionTypes'
    BY <1>3 DEF SessionTypes, ScriptTypes, flags, session, health, CapFires, NoteOverrun
  <2>3. ScriptTypes'
    BY <1>3, <1>b DEF CallTypes, ScriptTypes, script, run, history, CapFires, NoteOverrun
  <2>4. Pending'
    BY <1>3 DEF CallTypes, ScriptTypes, Pending, Queued, script, CapFires, NoteOverrun
  <2>5. ChannelKept
    BY <1>3 DEF CallTypes, ScriptTypes, ChannelKept, channel, Sent, Active, Unsent, Ended, CapFires,
       NoteOverrun
  <2> QED BY <2>1, <2>2, <2>3, <2>4, <2>5
<1>4. ASSUME GuestEnds PROVE CallTypes' /\ SessionTypes' /\ ScriptTypes' /\ Pending' /\ ChannelKept
  <2>a. guest \in Calls /\ guest' = None
        /\ \/ UNCHANGED <<stage, timer>> /\ ~(stage[guest] = "waiting" /\ Length[guest] <= Cap)
           \/ /\ stage[guest] = "waiting"
              /\ stage' = [stage EXCEPT ![guest] = "answered"] /\ timer' = [timer EXCEPT ![guest] = 0]
    BY <1>4 DEF GuestEnds, ScriptTypes
  <2>1. CallTypes'
    BY <1>4, <1>b, <2>a DEF CallTypes, Ended, GuestEnds
  <2>2. SessionTypes'
    BY <1>4 DEF SessionTypes, ScriptTypes, flags, session, health, GuestEnds
  <2>3. ScriptTypes'
    BY <1>4 DEF CallTypes, ScriptTypes, script, run, history, GuestEnds
  <2>4. Pending'
    <3>1. queue' = queue
      BY <1>4 DEF GuestEnds
    <3>2. ASSUME NEW c \in Calls, stage'[c] = "waiting" PROVE guest' = c \/ Queued(c)' \/ Length[c] > Cap
      <4>1. stage[c] = "waiting" /\ (c = guest => ~(Length[c] <= Cap))
        BY <2>a, <3>2 DEF CallTypes
      <4> QED BY <4>1, <3>1, <1>b DEF Pending, Queued
    <3> QED BY <3>2 DEF Pending
  <2>5. ChannelKept
    BY <1>4, <2>a DEF CallTypes, ChannelKept, channel, Sent, Active, Ended, GuestEnds
  <2> QED BY <2>1, <2>2, <2>3, <2>4, <2>5
<1>5. ASSUME Tick PROVE CallTypes' /\ SessionTypes' /\ ScriptTypes' /\ Pending' /\ ChannelKept
  <2>1. CallTypes'
    <3>1. \A c \in Calls : stage[c] = "waiting" => timer[c] - 1 \in 0..(Cap + Grace)
      BY <1>5, <1>b DEF Tick, CallTypes
    <3> QED BY <3>1, <1>5 DEF CallTypes, Tick
  <2>2. SessionTypes'
    BY <1>5 DEF SessionTypes, ScriptTypes, flags, session, health, Tick
  <2>3. ScriptTypes'
    <3>1. left' \in Nat
      BY <1>5 DEF ScriptTypes, Tick
    <3>2. wait' \in [Calls -> Nat]
      BY <1>5 DEF ScriptTypes, Tick
    <3> QED BY <3>1, <3>2, <1>5 DEF ScriptTypes, run, Tick
  <2>4. Pending'
    BY <1>5 DEF CallTypes, ScriptTypes, Pending, Queued, script, Tick
  <2>5. ChannelKept
    BY <1>5 DEF CallTypes, ScriptTypes, ChannelKept, channel, Sent, Active, Unsent, Ended, Tick
  <2> QED BY <2>1, <2>2, <2>3, <2>4, <2>5
<1>6. ASSUME WindowReplaced \/ AppDies \/ SessionTerminates
      PROVE  CallTypes' /\ SessionTypes' /\ ScriptTypes' /\ Pending' /\ ChannelKept
  <2>a. PICK whys :
        /\ Trouble /\ guest' = None /\ left' = 0
        /\ IF guest = None
           THEN UNCHANGED <<flags, stage, attempts, timer, misreported>>
           ELSE \E why \in whys :
                  /\ ScriptFails(guest, why)
                  /\ misreported' = IF why = "window-closed" THEN misreported \cup {guest} ELSE misreported
        /\ UNCHANGED <<platform, isRecoveringFromCapOverrun, polls, queue, channel, ended, started, history>>
        /\ chrome' \in {"attached", "gone", "dead"} /\ app' \in {"up", "down"}
        /\ context' \in {"native", "webview"} /\ terminated' \in BOOLEAN
    BY <1>6 DEF WindowReplaced, AppDies, SessionTerminates, Upheaval, SessionTypes
  <2>b. \/ UNCHANGED <<flags, stage, attempts, timer>> /\ (guest # None => stage[guest] # "waiting")
        \/ /\ guest \in Calls /\ stage[guest] = "waiting"
           /\ \/ stage' = [stage EXCEPT ![guest] = "failed"] /\ attempts' = attempts
              \/ /\ attempts[guest] = 1 /\ stage' = [stage EXCEPT ![guest] = "ensure"]
                 /\ attempts' = [attempts EXCEPT ![guest] = 2]
           /\ timer' = [timer EXCEPT ![guest] = 0]
           /\ isInWebViewContext' = [isInWebViewContext EXCEPT ![TransportOf[guest]] = FALSE]
           /\ \E why : isWebViewWindowStale' = [isWebViewWindowStale EXCEPT ![TransportOf[guest]] =
                                                @ \/ why = "window-closed"]
    BY <2>a DEF ScriptFails, DistrustContext, RetriesAfter, ScriptTypes
  <2>c. misreported' \subseteq Calls
    BY <2>a DEF ScriptTypes
  <2>1. CallTypes'
    BY <2>a, <2>b, <1>b, <1>c DEF CallTypes, Unsent, Ended
  <2>2. SessionTypes'
    BY <2>a, <2>b, <1>b, TroubleStep DEF SessionTypes, flags
  <2>3. ScriptTypes'
    BY <2>a, <2>c DEF ScriptTypes, history
  <2>4. Pending'
    BY <2>a, <2>b DEF Pending, Queued, CallTypes
  <2>5. ChannelKept
    BY <2>a, <2>b DEF CallTypes, ChannelKept, Sent, Active, Ended
  <2> QED BY <2>1, <2>2, <2>3, <2>4, <2>5
<1> QED BY ScriptStep, <1>1, <1>2, <1>3, <1>4, <1>5, <1>6 DEF ScriptStep

\* Every step keeps the types.
LEMMA TypeStep ==
  ASSUME SessionTypeOK, [SessionNext]_sessionVars
  PROVE  SessionTypeOK'
<1>1. CASE PathStep
  <2>1. ScriptTypes' /\ Pending'
    BY <1>1, PathTypes, TypeParts DEF ScriptKept, ScriptTypes, Pending, script, run, history, Queued, Unsent
  <2>2. ChannelTypes'
    BY <1>1, PathTypes, TypeParts DEF ChannelKept, ChannelTypes, channel
  <2> QED BY <1>1, <2>1, <2>2, PathTypes, TypeParts
<1>2. CASE ChannelStep
  <2>1. ScriptTypes' /\ Pending'
    BY <1>2, ChannelTypesStep, TypeParts DEF ScriptKept, ScriptTypes, Pending, script, run, history,
       Queued, Unsent
  <2> QED BY <1>2, <2>1, ChannelTypesStep, TypeParts
<1>3. CASE ScriptStep
  <2>1. ChannelTypes'
    BY <1>3, ScriptTypesStep, TypeParts DEF ChannelKept, ChannelTypes, channel
  <2> QED BY <1>3, <2>1, ScriptTypesStep, TypeParts
<1>4. CASE UNCHANGED sessionVars
  BY <1>4 DEF SessionTypeOK, sessionVars, flags, session, script, channel, run, history, health, Queued
<1> QED BY <1>1, <1>2, <1>3, <1>4 DEF SessionNext, SessionStep, PathStep, ChannelStep, ScriptStep

-----------------------------------------------------------------------------
(* The queue of the session, and the budgets of the calls that wait.       *)

\* What a script that could not run leaves of the call.
LEMMA ServeShape ==
  ASSUME SessionTypeOK, NEW c \in Calls, Serve(c)
  PROVE  /\ guest = None /\ queue # <<>> /\ c = Head(queue) /\ queue' = Tail(queue)
         /\ UNCHANGED <<isRecoveringFromCapOverrun, misreported, history>>
         /\ \/ /\ guest' = c /\ left' = Length[c] /\ started' = [started EXCEPT ![c] = @ + 1]
               /\ UNCHANGED <<stage, attempts, timer>>
            \/ /\ UNCHANGED <<guest, started, stage, attempts, timer>>
            \/ /\ UNCHANGED <<guest, started>> /\ stage[c] = "waiting" /\ timer' = [timer EXCEPT ![c] = 0]
               /\ \/ stage' = [stage EXCEPT ![c] = "failed"] /\ attempts' = attempts
                  \/ /\ stage' = [stage EXCEPT ![c] = "ensure"]
                     /\ attempts' = [attempts EXCEPT ![c] = 2]
<1>1. CASE CanRun
  BY <1>1 DEF Serve
<1>2. CASE ~CanRun
  BY <1>2 DEF Serve, ScriptFails, StageIs
<1> QED BY <1>1, <1>2

\* What an upheaval does to the scripts.
LEMMA UpheavalShape ==
  ASSUME SessionTypeOK, NEW whys, Upheaval(whys)
  PROVE  /\ Trouble /\ guest' = None
         /\ UNCHANGED <<isRecoveringFromCapOverrun, queue, started, history, channel, ended>>
         /\ misreported \subseteq misreported' /\ misreported' \subseteq misreported \cup ({guest} \ {None})
         /\ \/ UNCHANGED <<stage, attempts, timer>> /\ (guest # None => stage[guest] # "waiting")
            \/ /\ guest \in Calls /\ stage[guest] = "waiting" /\ timer' = [timer EXCEPT ![guest] = 0]
               /\ \/ stage' = [stage EXCEPT ![guest] = "failed"] /\ attempts' = attempts
                  \/ /\ attempts[guest] = 1 /\ stage' = [stage EXCEPT ![guest] = "ensure"]
                     /\ attempts' = [attempts EXCEPT ![guest] = 2] /\ guest \in misreported'
<1>1. CASE guest = None
  BY <1>1 DEF Upheaval
<1>2. CASE guest # None
  <2>1. PICK why \in whys :
          /\ ScriptFails(guest, why)
          /\ misreported' = IF why = "window-closed" THEN misreported \cup {guest} ELSE misreported
    BY <1>2 DEF Upheaval
  <2> QED BY <1>2, <2>1 DEF Upheaval, ScriptFails, RetriesAfter, StageIs, SessionTypeOK
<1> QED BY <1>1, <1>2

\* What the end of a closure does.
LEMMA GuestEndsShape ==
  ASSUME SessionTypeOK, GuestEnds
  PROVE  /\ guest \in Calls
         /\ guest' = None
         /\ UNCHANGED <<isRecoveringFromCapOverrun, queue, started, misreported, attempts, history>>
         /\ \/ UNCHANGED <<stage, timer>> /\ ~(stage[guest] = "waiting" /\ Length[guest] <= Cap)
            \/ /\ stage[guest] = "waiting"
               /\ stage' = [stage EXCEPT ![guest] = "answered"] /\ timer' = [timer EXCEPT ![guest] = 0]
BY DEF GuestEnds, StageIs, SessionTypeOK, run

\* No script is queued twice, or started again unless its call was misreported.
LEMMA QueueStep ==
  ASSUME SessionTypeOK, QueueInv, SessionNext
  PROVE  QueueInv'
<1>a. CallTypes /\ ScriptTypes
  BY TypeParts
<1>b. None \notin Calls
  BY SessionAssumption
<1>c. \A i \in 1..Len(queue) : queue[i] \in Calls
  BY <1>a DEF ScriptTypes
<1>1. CASE ScriptKept
  <2>1. UNCHANGED <<queue, guest, started, misreported, attempts>>
    BY <1>1 DEF ScriptKept, script, run
  <2>2. \A c \in Calls : \/ stage'[c] = stage[c] \/ stage'[c] = "dead"
                         \/ stage[c] \in Unsent /\ stage'[c] # "waiting"
    BY <1>1 DEF ScriptKept, Unsent
  <2>3. \A c \in Calls : /\ stage'[c] \in Unsent => stage[c] \in Unsent
                         /\ stage'[c] \in Unsent \cup {"waiting"} => stage[c] \in Unsent \cup {"waiting"}
                         /\ stage[c] \in {"waiting", "capped", "dead"}
                              => stage'[c] \in {"waiting", "capped", "dead"}
    BY <2>2 DEF Unsent
  <2>4. \A c : Lapses(c)' = Lapses(c)
    BY <2>1 DEF Lapses
  <2>5. guest \in Calls \cup {None} /\ misreported \subseteq Calls
    BY <1>a DEF ScriptTypes
  <2> QED BY <2>1, <2>3, <2>4, <2>5, <1>c DEF QueueInv, ClosureRunsOnce
<1>2. ASSUME NEW c \in Calls, evaluateWithinCap(c) PROVE QueueInv'
  <2>1. /\ Len(queue') = Len(queue) + 1
        /\ queue'[Len(queue) + 1] = c
        /\ \A i \in 1..Len(queue) : queue'[i] = queue[i]
        /\ Len(queue) \in Nat
    BY <1>2, <1>a, LastOfQueue DEF evaluateWithinCap, ScriptTypes
  <2>2. /\ started[c] <= Lapses(c) /\ guest # c /\ \A i \in 1..Len(queue) : queue[i] # c
        /\ c \in misreported => attempts[c] = 2
    BY <1>2, <1>b, <1>c DEF QueueInv, evaluateWithinCap, Unsent
  <2>3. /\ stage' = [stage EXCEPT ![c] = "waiting"]
        /\ UNCHANGED <<started, misreported, guest, attempts>> /\ \A d : Lapses(d)' = Lapses(d)
    BY <1>2 DEF evaluateWithinCap, StageIs, run, Lapses
  <2>4. \A i \in 1..Len(queue') : i \in 1..Len(queue) \/ i = Len(queue) + 1
    BY <2>1
  <2>5. \A i, j \in 1..Len(queue') : queue'[i] = queue'[j] => i = j
    BY <2>1, <2>2, <2>4 DEF QueueInv
  <2>6. \A i \in 1..Len(queue') :
          started'[queue'[i]] <= Lapses(queue[i])' /\ stage'[queue'[i]] \in {"waiting", "capped", "dead"}
    BY <2>1, <2>2, <2>3, <2>4, <1>a, <1>c DEF QueueInv, CallTypes
  <2>7. \A d \in Calls : stage'[d] \in Unsent => started'[d] <= Lapses(d)'
    BY <2>3, <1>a DEF QueueInv, CallTypes, Unsent
  <2>8. guest' # None =>
          stage'[guest'] \in {"waiting", "capped", "dead"} /\ \A i \in 1..Len(queue') : queue'[i] # guest'
    BY <2>1, <2>2, <2>3, <2>4, <1>a DEF QueueInv, CallTypes, ScriptTypes
  <2>9. \A d \in misreported' : stage'[d] \in Unsent \cup {"waiting"} => attempts'[d] = 2
    BY <2>2, <2>3, <1>a DEF QueueInv, CallTypes, ScriptTypes
  <2> QED BY <2>3, <2>5, <2>6, <2>7, <2>8, <2>9 DEF QueueInv, ClosureRunsOnce
<1>3. ASSUME NEW c \in Calls, Serve(c) PROVE QueueInv'
  <2>1. /\ c = queue[1] /\ 1 \in 1..Len(queue)
        /\ \A i \in 1..Len(queue') : i + 1 \in 1..Len(queue) /\ queue'[i] = queue[i + 1]
    BY <1>3, ServeShape, FirstOfQueue
  <2>2. started[c] <= Lapses(c) /\ stage[c] \in {"waiting", "capped", "dead"}
    BY <2>1 DEF QueueInv
  <2>3. \A i \in 1..Len(queue') : queue'[i] \in Calls \ {c} /\ i \in Nat /\ i + 1 # 1
    BY <2>1, <1>c DEF QueueInv
  <2>4. misreported' = misreported /\ \A d : Lapses(d)' = Lapses(d)
    BY <1>3, ServeShape DEF Lapses
  <2>s. \/ guest' = c /\ started' = [started EXCEPT ![c] = @ + 1] /\ UNCHANGED <<stage, attempts>>
        \/ guest' = None /\ UNCHANGED <<started, stage, attempts>>
        \/ guest' = None /\ UNCHANGED <<started, attempts>> /\ stage' = [stage EXCEPT ![c] = "failed"]
        \/ /\ guest' = None /\ UNCHANGED started
           /\ stage' = [stage EXCEPT ![c] = "ensure"] /\ attempts' = [attempts EXCEPT ![c] = 2]
    BY <1>3, ServeShape
  <2>t. started[c] \in Nat /\ c # None
    BY <1>a, <1>b DEF ScriptTypes
  <2>5. \A d \in Calls \ {c} : stage'[d] = stage[d] /\ started'[d] = started[d] /\ attempts'[d] = attempts[d]
    BY <2>s, <1>a DEF CallTypes, ScriptTypes
  <2>6. /\ started'[c] = started[c] + (IF guest' = c THEN 1 ELSE 0) /\ guest' \in {c, None}
        /\ guest' = c => stage'[c] = stage[c] /\ attempts'[c] = attempts[c]
        /\ \/ stage'[c] = stage[c] /\ attempts'[c] = attempts[c]
           \/ stage'[c] = "failed" \/ attempts'[c] = 2
    BY <2>s, <2>t, <1>a DEF CallTypes, ScriptTypes
  <2>7. \A i, j \in 1..Len(queue') : queue'[i] = queue'[j] => i = j
    <3> SUFFICES ASSUME NEW i \in 1..Len(queue'), NEW j \in 1..Len(queue'), queue'[i] = queue'[j] PROVE i = j
      OBVIOUS
    <3>1. i + 1 = j + 1
      BY <2>1 DEF QueueInv
    <3> QED BY <3>1, <2>3
  <2>8. \A i \in 1..Len(queue') :
          started'[queue'[i]] <= Lapses(queue[i])' /\ stage'[queue'[i]] \in {"waiting", "capped", "dead"}
    <3> SUFFICES ASSUME NEW i \in 1..Len(queue')
                 PROVE  /\ started'[queue'[i]] <= (IF queue'[i] \in misreported' THEN 1 ELSE 0)
                        /\ stage'[queue'[i]] \in {"waiting", "capped", "dead"}
      BY DEF Lapses
    <3>1. i + 1 \in 1..Len(queue) /\ queue'[i] = queue[i + 1] /\ queue'[i] \in Calls \ {c}
      BY <2>1, <2>3
    <3>2. started[queue[i + 1]] <= Lapses(queue[i + 1]) /\ stage[queue[i + 1]] \in {"waiting", "capped", "dead"}
      BY <3>1 DEF QueueInv
    <3> QED BY <3>1, <3>2, <2>4, <2>5 DEF Lapses
  <2>9. \A d \in Calls : stage'[d] \in Unsent => started'[d] <= Lapses(d)'
    <3>1. stage'[c] \in Unsent => started'[c] <= Lapses(c)'
      BY <2>2, <2>4, <2>6, <1>a, <1>b DEF Unsent, ScriptTypes
    <3> QED BY <3>1, <2>4, <2>5 DEF QueueInv
  <2>10. guest' # None =>
           stage'[guest'] \in {"waiting", "capped", "dead"} /\ \A i \in 1..Len(queue') : queue'[i] # guest'
    BY <2>2, <2>3, <2>6
  <2>11. \A d \in misreported' : stage'[d] \in Unsent \cup {"waiting"} => attempts'[d] = 2
    <3>1. c \in misreported /\ stage'[c] \in Unsent \cup {"waiting"} => attempts'[c] = 2
      BY <2>6 DEF QueueInv, Unsent
    <3> QED BY <3>1, <2>4, <2>5, <1>a DEF QueueInv, ScriptTypes
  <2>12. ClosureRunsOnce'
    <3>1. started'[c] <= Lapses(c)' + 1
      BY <2>2, <2>4, <2>6, <1>a DEF ScriptTypes, Lapses
    <3> QED BY <3>1, <2>4, <2>5 DEF QueueInv, ClosureRunsOnce, Lapses
  <2> QED BY <2>7, <2>8, <2>9, <2>10, <2>11, <2>12 DEF QueueInv
<1>4. ASSUME NEW c \in Calls, CapFires(c) PROVE QueueInv'
  <2>1. /\ stage' = [stage EXCEPT ![c] = "capped"] /\ UNCHANGED <<queue, guest, started, misreported, attempts>>
        /\ \A d : Lapses(d)' = Lapses(d)
    BY <1>4 DEF CapFires, StageIs, script, run, Lapses
  <2> QED BY <2>1, <1>a, <1>c DEF QueueInv, ClosureRunsOnce, CallTypes, ScriptTypes, Unsent
<1>5. CASE GuestEnds
  <2>1. \A i \in 1..Len(queue) : queue[i] # guest
    BY <1>5 DEF QueueInv, GuestEnds
  <2>2. UNCHANGED <<queue, started, misreported, attempts>> /\ guest' = None
    BY <1>5, GuestEndsShape
  <2>3. \A d \in Calls : stage'[d] = stage[d] \/ (d = guest /\ stage'[d] = "answered")
    BY <1>5, <1>a, GuestEndsShape DEF CallTypes
  <2>4. \A i \in 1..Len(queue') : /\ started'[queue'[i]] <= (IF queue'[i] \in misreported' THEN 1 ELSE 0)
                                  /\ stage'[queue'[i]] \in {"waiting", "capped", "dead"}
    <3> SUFFICES ASSUME NEW i \in 1..Len(queue)
                 PROVE  /\ started[queue[i]] <= (IF queue[i] \in misreported THEN 1 ELSE 0)
                        /\ stage'[queue[i]] \in {"waiting", "capped", "dead"}
      BY <2>2
    <3>1. stage'[queue[i]] = stage[queue[i]]
      BY <2>1, <2>3, <1>c
    <3> QED BY <3>1 DEF QueueInv, Lapses
  <2>5. \A d \in Calls : stage'[d] \in Unsent \cup {"waiting"} => stage[d] = stage'[d]
    BY <2>3 DEF Unsent
  <2>6. \A d \in Calls : stage'[d] \in Unsent => started'[d] <= (IF d \in misreported' THEN 1 ELSE 0)
    BY <2>2, <2>5 DEF QueueInv, Lapses
  <2>7. \A d \in misreported' : stage'[d] \in Unsent \cup {"waiting"} => attempts'[d] = 2
    BY <2>2, <2>5, <1>a DEF QueueInv, ScriptTypes
  <2> QED BY <2>2, <2>4, <2>6, <2>7 DEF QueueInv, ClosureRunsOnce, Lapses
<1>6. CASE Tick
  BY <1>6 DEF QueueInv, ClosureRunsOnce, Tick, run, Lapses
<1>7. CASE WindowReplaced \/ AppDies \/ SessionTerminates
  <2>1. PICK whys : Upheaval(whys)
    BY <1>7 DEF WindowReplaced, AppDies, SessionTerminates
  <2>2. guest # None =>
          stage[guest] \in {"waiting", "capped", "dead"} /\ \A i \in 1..Len(queue) : queue[i] # guest
    BY DEF QueueInv
  <2>3. /\ queue' = queue /\ started' = started /\ guest' = None /\ misreported \subseteq misreported'
        /\ misreported' \subseteq misreported \cup ({guest} \ {None})
    BY <2>1, UpheavalShape
  <2>4. \A d \in Calls : d # guest => stage'[d] = stage[d] /\ attempts'[d] = attempts[d]
    BY <2>1, UpheavalShape, <1>a DEF CallTypes
  <2>5. guest # None =>
          \/ stage'[guest] \in {"capped", "dead", "failed"}
          \/ stage'[guest] = "ensure" /\ attempts[guest] = 1 /\ attempts'[guest] = 2 /\ guest \in misreported'
    BY <2>1, <2>2, UpheavalShape, <1>a DEF CallTypes, ScriptTypes
  <2>6. \A d \in Calls : Lapses(d) <= Lapses(d)' /\ Lapses(d) \in {0, 1} /\ Lapses(d)' \in {0, 1}
    BY <2>3 DEF Lapses
  <2>7. \A i \in 1..Len(queue') :
          started'[queue'[i]] <= Lapses(queue[i])' /\ stage'[queue'[i]] \in {"waiting", "capped", "dead"}
    <3> SUFFICES ASSUME NEW i \in 1..Len(queue')
                 PROVE  /\ started'[queue'[i]] <= (IF queue'[i] \in misreported' THEN 1 ELSE 0)
                        /\ stage'[queue'[i]] \in {"waiting", "capped", "dead"}
      BY DEF Lapses
    <3>1. i \in 1..Len(queue) /\ queue'[i] = queue[i] /\ queue[i] \in Calls
      BY <2>3, <1>c
    <3>2. queue[i] # guest
      <4>1. CASE guest = None
        BY <3>1, <4>1, <1>b
      <4>2. CASE guest # None
        BY <3>1, <4>2, <2>2
      <4> QED BY <4>1, <4>2
    <3>3. started[queue[i]] <= Lapses(queue[i]) /\ stage[queue[i]] \in {"waiting", "capped", "dead"}
      BY <3>1 DEF QueueInv
    <3>4. started[queue[i]] \in Nat
      BY <3>1, <1>a DEF ScriptTypes
    <3> QED BY <3>1, <3>2, <3>3, <3>4, <2>3, <2>4 DEF Lapses
  <2>8. ASSUME NEW d \in Calls, stage'[d] \in Unsent PROVE started'[d] <= Lapses(d)'
    <3>1. CASE d # guest
      <4>1. stage[d] \in Unsent /\ started'[d] = started[d]
        BY <3>1, <2>3, <2>4, <2>8
      <4>2. started[d] <= Lapses(d) /\ started[d] \in Nat
        BY <4>1, <1>a DEF QueueInv, ScriptTypes
      <4> QED BY <4>1, <4>2, <2>6
    <3>2. CASE d = guest
      <4>1. attempts[d] = 1 /\ Lapses(d)' = 1 /\ d # None
        BY <3>2, <2>5, <2>8, <1>b DEF Unsent, Lapses
      <4>2. stage[d] = "waiting"
        BY <3>2, <4>1, <2>1, <2>8, UpheavalShape, <2>2 DEF Unsent
      <4>3. started[d] <= 1
        BY <4>1, <4>2, <1>a DEF QueueInv, ClosureRunsOnce
      <4> QED BY <4>1, <4>3, <2>3
    <3> QED BY <3>1, <3>2
  <2>9. ASSUME NEW d \in misreported', stage'[d] \in Unsent \cup {"waiting"} PROVE attempts'[d] = 2
    <3>1. CASE d # guest
      <4>1. d \in misreported /\ d \in Calls
        BY <3>1, <2>3, <1>a DEF ScriptTypes
      <4> QED BY <3>1, <4>1, <2>4, <2>9 DEF QueueInv
    <3>2. CASE d = guest
      <4>1. guest # None
        BY <3>2, <2>3, <1>a, <1>b DEF ScriptTypes
      <4> QED BY <3>2, <4>1, <2>5, <2>9 DEF Unsent
    <3> QED BY <3>1, <3>2
  <2>10. ClosureRunsOnce'
    BY <2>3, <1>a DEF QueueInv, ClosureRunsOnce, ScriptTypes
  <2> QED BY <2>3, <2>7, <2>8, <2>9, <2>10 DEF QueueInv
<1> QED BY <1>1, <1>2, <1>3, <1>4, <1>5, <1>6, <1>7, StepKinds, PathTypes, ChannelTypesStep DEF ScriptStep

\* The budgets are accounted for.
LEMMA BudgetStep ==
  ASSUME SessionTypeOK, QueueInv, BudgetInv, SessionNext
  PROVE  BudgetInv'
<1>a. CallTypes /\ ScriptTypes
  BY TypeParts
<1>b. /\ Cap \in Nat /\ Grace \in Nat /\ None \notin Calls
      /\ \A c \in Calls : Length[c] \in Nat /\ TransportOf[c] \in Transports
  BY SessionAssumption
<1>c. \A c \in Calls : Granted(c) \in Nat /\ Granted(c)' \in Nat
  BY <1>b DEF Granted
<1>d. \A c \in Calls : timer[c] \in Nat /\ wait[c] \in Nat /\ left \in Nat
  BY <1>a, <1>b DEF CallTypes, ScriptTypes
<1>1. CASE ScriptKept
  <2>1. UNCHANGED <<isRecoveringFromCapOverrun, owed, due, wait, guest, left>>
    BY <1>1 DEF ScriptKept, script, history
  <2>2. \A c \in Calls : /\ stage'[c] = "waiting" => stage[c] = "waiting" /\ timer'[c] = timer[c]
                         /\ stage'[c] = "capped" => stage[c] = "capped"
    BY <1>1 DEF ScriptKept, Unsent
  <2> QED BY <2>1, <2>2 DEF BudgetInv, Granted, CappedOnlyBehindOthers
<1>2. ASSUME NEW c \in Calls, evaluateWithinCap(c) PROVE BudgetInv'
  <2>1. PICK t \in Transports : t = TransportOf[c]
    BY <1>b
  <2>2. /\ stage[c] = "send" /\ stage' = [stage EXCEPT ![c] = "waiting"] /\ UNCHANGED <<guest, left>>
        /\ timer' = [timer EXCEPT ![c] = IF isRecoveringFromCapOverrun[t] THEN Cap + Grace ELSE Cap]
        /\ isRecoveringFromCapOverrun' = [isRecoveringFromCapOverrun EXCEPT ![t] = FALSE]
        /\ wait' = [wait EXCEPT ![c] = 0]
        /\ due' = (IF t \in owed THEN due \cup {c} ELSE due \ {c}) /\ owed' = owed \ {t}
    BY <1>2, <2>1 DEF evaluateWithinCap, Budget, StageIs
  <2>3. guest # c
    BY <2>2, <1>b DEF QueueInv, Unsent
  <2>4. \A u \in Transports : isRecoveringFromCapOverrun'[u] <=> u \in owed'
    BY <2>2, <1>a DEF BudgetInv, ScriptTypes
  <2>5. \A d \in Calls \ {c} :
          /\ stage'[d] = stage[d] /\ timer'[d] = timer[d] /\ wait'[d] = wait[d]
          /\ d \in due' <=> d \in due
    BY <2>2, <1>a DEF CallTypes, ScriptTypes
  <2>6. stage'[c] = "waiting" /\ wait'[c] = 0 /\ timer'[c] = Granted(c)'
    <3>1. stage'[c] = "waiting" /\ wait'[c] = 0
      BY <2>2, <1>a DEF CallTypes, ScriptTypes
    <3>2. c \in due' <=> isRecoveringFromCapOverrun[t]
      BY <2>2 DEF BudgetInv
    <3>3. timer'[c] = IF isRecoveringFromCapOverrun[t] THEN Cap + Grace ELSE Cap
      BY <2>2, <1>a DEF CallTypes
    <3> QED BY <3>1, <3>2, <3>3, <1>b DEF Granted
  <2>7. \A d \in Calls : stage'[d] = "waiting" /\ Length[d] <= Cap
          => Granted(d)' = timer'[d] + wait'[d] + (IF guest' = d THEN Length[d] - left' ELSE 0)
    <3>1. Granted(c)' = timer'[c] + wait'[c] + 0 /\ guest' # c
      BY <2>2, <2>3, <2>6, <1>c
    <3>2. \A d \in Calls \ {c} : Granted(d)' = Granted(d)
      BY <2>5 DEF Granted
    <3> QED BY <2>2, <2>5, <3>1, <3>2 DEF BudgetInv
  <2>8. CappedOnlyBehindOthers'
    BY <2>5, <2>6 DEF BudgetInv, CappedOnlyBehindOthers
  <2> QED BY <2>4, <2>7, <2>8 DEF BudgetInv
<1>3. ASSUME NEW c \in Calls, Serve(c) PROVE BudgetInv'
  <2>1. /\ guest = None /\ UNCHANGED <<isRecoveringFromCapOverrun, owed, due, wait>>
        /\ guest' \in {None, c} /\ (guest' = c => left' = Length[c] /\ UNCHANGED <<stage, timer>>)
        /\ \A d \in Calls : /\ stage'[d] = "waiting" => stage[d] = "waiting" /\ timer'[d] = timer[d]
                            /\ stage'[d] = "capped" => stage[d] = "capped"
    BY <1>3, <1>a, <1>b, ServeShape DEF history, CallTypes
  <2>2. \A d \in Calls : (IF guest' = d THEN Length[d] - left' ELSE 0) = 0 /\ guest # d
    BY <2>1, <1>b
  <2>3. \A d \in Calls : Granted(d)' = Granted(d)
    BY <2>1 DEF Granted
  <2> QED BY <2>1, <2>2, <2>3 DEF BudgetInv, CappedOnlyBehindOthers
<1>4. ASSUME NEW c \in Calls, CapFires(c) PROVE BudgetInv'
  <2>1. PICK t \in Transports : t = TransportOf[c]
    BY <1>b
  <2>2. /\ stage[c] = "waiting" /\ timer[c] = 0 /\ stage' = [stage EXCEPT ![c] = "capped"]
        /\ UNCHANGED <<guest, left, timer, due, wait>>
        /\ isRecoveringFromCapOverrun' = [isRecoveringFromCapOverrun EXCEPT ![t] = TRUE]
        /\ owed' = owed \cup {t}
    BY <1>4, <2>1 DEF CapFires, NoteOverrun, StageIs, script
  <2>3. \A u \in Transports : isRecoveringFromCapOverrun'[u] <=> u \in owed'
    BY <2>2, <1>a DEF BudgetInv, ScriptTypes
  <2>4. Length[c] <= Cap => wait[c] + Length[c] >= Granted(c)
    <3> SUFFICES ASSUME Length[c] <= Cap PROVE wait[c] + Length[c] >= Granted(c)
      OBVIOUS
    <3>1. Granted(c) = timer[c] + wait[c] + (IF guest = c THEN Length[c] - left ELSE 0)
      BY <2>2 DEF BudgetInv
    <3> QED BY <2>2, <3>1, <1>b, <1>c, <1>d
  <2>5. \A d \in Calls : Granted(d)' = Granted(d) /\ (d # c => stage'[d] = stage[d])
    BY <2>2, <1>a DEF Granted, CallTypes
  <2>6. stage'[c] = "capped"
    BY <2>2, <1>a DEF CallTypes
  <2> QED BY <2>2, <2>3, <2>4, <2>5, <2>6 DEF BudgetInv, CappedOnlyBehindOthers, Granted
<1>5. CASE GuestEnds
  <2>1. /\ guest \in Calls /\ guest' = None /\ UNCHANGED <<isRecoveringFromCapOverrun, owed, due, wait>>
        /\ \A d \in Calls : /\ stage'[d] = "waiting" => stage[d] = "waiting" /\ timer'[d] = timer[d]
                            /\ stage'[d] = "waiting" /\ Length[d] <= Cap => d # guest
                            /\ stage'[d] = "capped" => stage[d] = "capped"
    BY <1>5, <1>a, GuestEndsShape DEF history, CallTypes
  <2>2. \A d \in Calls : Granted(d)' = Granted(d) /\ guest' # d
    BY <2>1, <1>b DEF Granted
  <2> QED BY <2>1, <2>2 DEF BudgetInv, CappedOnlyBehindOthers
<1>6. CASE Tick
  <2>1. UNCHANGED <<isRecoveringFromCapOverrun, owed, due, stage, guest>>
    BY <1>6 DEF Tick
  <2>2. \A d \in Calls : Granted(d)' = Granted(d)
    BY <2>1 DEF Granted
  <2>3. ASSUME NEW d \in Calls, stage[d] = "waiting", Length[d] <= Cap
        PROVE  Granted(d)' = timer'[d] + wait'[d] + (IF guest' = d THEN Length[d] - left' ELSE 0)
    <3>1. Granted(d) = timer[d] + wait[d] + (IF guest = d THEN Length[d] - left ELSE 0)
      BY <2>3 DEF BudgetInv
    <3>2. timer'[d] = timer[d] - 1 /\ wait'[d] = (IF guest = d THEN wait[d] ELSE wait[d] + 1)
      BY <2>3, <1>6 DEF Tick
    <3>3. guest = d => left' = left - 1
      BY <1>6, <1>b DEF Tick
    <3> QED BY <2>1, <2>2, <3>1, <3>2, <3>3, <1>b, <1>c, <1>d
  <2>4. \A d \in Calls : stage[d] = "capped" => wait'[d] = wait[d]
    BY <1>6 DEF Tick
  <2>5. CappedOnlyBehindOthers'
    BY <2>1, <2>4 DEF BudgetInv, CappedOnlyBehindOthers
  <2> QED BY <2>1, <2>3, <2>5 DEF BudgetInv
<1>7. CASE WindowReplaced \/ AppDies \/ SessionTerminates
  <2>0. PICK whys : Upheaval(whys)
    BY <1>7 DEF WindowReplaced, AppDies, SessionTerminates
  <2>1. /\ guest' = None /\ UNCHANGED <<isRecoveringFromCapOverrun, owed, due, wait>>
        /\ \A d \in Calls : /\ stage'[d] = "waiting" => stage[d] = "waiting" /\ timer'[d] = timer[d]
                            /\ stage'[d] = "capped" => stage[d] = "capped"
    BY <2>0, <1>a, UpheavalShape DEF history, CallTypes
  <2>2. \A d \in Calls : stage'[d] = "waiting" => guest # d
    BY <2>0, <1>a, <1>b, UpheavalShape DEF CallTypes
  <2>3. \A d \in Calls : Granted(d)' = Granted(d) /\ guest' # d
    BY <2>1, <1>b DEF Granted
  <2> QED BY <2>1, <2>2, <2>3 DEF BudgetInv, CappedOnlyBehindOthers
<1> QED BY <1>1, <1>2, <1>3, <1>4, <1>5, <1>6, <1>7, StepKinds, PathTypes, ChannelTypesStep DEF ScriptStep

-----------------------------------------------------------------------------
(* The debugger channel and its forwards.                                  *)

\* A forward is never left without a connection to answer for it.
LEMMA ForwardStep ==
  ASSUME SessionTypeOK, ForwardInv, SessionNext
  PROVE  ForwardInv'
<1>a. CallTypes /\ ChannelTypes
  BY TypeParts
<1>b. \A d \in Connections : d[1] \in Calls /\ d[2] \in {1, 2} /\ d = <<d[1], d[2]>>
  BY DEF Connections
<1>c. \A c \in Calls : Connection(c) \in Connections /\ Connection(c)[1] = c /\ Connection(c)[2] = attempts[c]
  BY <1>a DEF Connection, Connections, CallTypes
<1>d. \A c \in Calls : TransportOf[c] \in Transports
  BY SessionAssumption
<1>e. None \notin Connections /\ None \notin Calls
  BY SessionAssumption
\* Past the attempt that opened a connection, nothing touches it.
<1>f. \A c \in Calls : stage[c] \in {"channel", "attaching"} => ~Spent(Connection(c))
  BY <1>a, <1>c DEF Spent, Sent, Ended, CallTypes
<1>1. CASE ChannelKept
  <2>1. \A d \in Connections : (Spent(d) => Spent(d)') /\ (Attaching(d) => Attaching(d)')
    BY <1>1, <1>a, <1>b DEF ChannelKept, Spent, Attaching, Connection, CallTypes, Sent, Ended
  <2>2. UNCHANGED <<inputChannel, disposeInputChannelOnExit, exitHandlers, forwards, portOf, adrift, unremoved,
                   ended>>
    BY <1>1 DEF ChannelKept, channel
  <2>3. \A d \in Connections : Held(d) => Held(d)'
    BY <2>1, <2>2 DEF Held
  <2>4. \A c \in Calls : Active(c)' => TransportOf[c] \notin ended'
    BY <1>1, <2>2 DEF ChannelKept, ForwardInv
  <2> QED BY <2>1, <2>2, <2>3, <2>4, <1>a DEF ForwardInv, ChannelTypes
<1>2. ASSUME NEW c \in Calls, ensureInputChannel(c) PROVE ForwardInv'
  <2>0. PICK k \in Connections : k = Connection(c) /\ k[1] = c /\ k[2] = attempts[c] /\ k = <<c, attempts[c]>>
    BY <1>c DEF Connection
  <2> DEFINE t == TransportOf[c]
             ports == {portOf[d] : d \in {inputChannel[t]} \ {None}}
  <2>1. /\ stage[c] = "channel"
        /\ stage' = [stage EXCEPT ![c] = "attaching"]
        /\ UNCHANGED <<attempts, adrift, ended>>
        /\ inputChannel' = [inputChannel EXCEPT ![t] = None]
        /\ disposeInputChannelOnExit' = [disposeInputChannelOnExit EXCEPT ![t] = None]
        /\ exitHandlers' = [exitHandlers EXCEPT ![t] = @ \ {disposeInputChannelOnExit[t]}]
    BY <1>2, <1>a, <2>0 DEF ensureInputChannel, StageIs, unregisterInputChannelExitHandler, Drop,
       ChannelTypes
  <2>a1. PICK stuck \in Stuck(ports) : \E port \in (forwards \ (ports \ stuck)) \cup {k} :
           /\ NoteStuck(stuck)
           /\ portOf' = [portOf EXCEPT ![k] = port]
           /\ forwards' = (forwards \ (ports \ stuck)) \cup {port}
    <3>1. \E stuck \in Stuck(ports) : \E port \in (forwards \ (ports \ stuck)) \cup {Connection(c)} :
            /\ NoteStuck(stuck)
            /\ portOf' = [portOf EXCEPT ![Connection(c)] = port]
            /\ forwards' = (forwards \ (ports \ stuck)) \cup {port}
      BY <1>2, InputChannelStep
    <3> QED BY <3>1, <2>0
  <2>a. PICK port \in (forwards \ (ports \ stuck)) \cup {k} :
           /\ NoteStuck(stuck)
           /\ portOf' = [portOf EXCEPT ![k] = port]
           /\ forwards' = (forwards \ (ports \ stuck)) \cup {port}
    BY <2>a1
  <2>b. unremoved' = unremoved \cup stuck
    BY <2>a, StuckStep
  <2>2. \A d \in Connections : d # k => portOf'[d] = portOf[d] /\ (Attaching(d) => Attaching(d)')
    BY <2>1, <2>a, <1>a, <1>b, <2>0 DEF ChannelTypes, CallTypes, Attaching, Connection
  <2>3. Attaching(k)' /\ ~Attaching(k) /\ portOf'[k] \in forwards'
    BY <2>1, <2>a, <1>a, <2>0 DEF ChannelTypes, CallTypes, Attaching, Connection
  <2>4. \A d \in Connections : Spent(d) => Spent(d)'
    BY <2>1, <1>a, <1>b DEF Spent, CallTypes, Sent, Ended
  <2>5. /\ disposeInputChannelOnExit' = inputChannel'
        /\ \A u \in Transports : exitHandlers'[u] \subseteq exitHandlers[u]
    BY <2>1, <1>a, <1>d DEF ForwardInv, ChannelTypes
  <2>6. \A e \in Calls : Active(e)' => TransportOf[e] \notin ended'
    BY <2>1, <1>a DEF ForwardInv, CallTypes, Active, Ended
  <2>7. \A f \in forwards' \ unremoved' : \E d \in Connections : portOf'[d] = f /\ Held(d)'
    <3> SUFFICES ASSUME NEW f \in forwards' \ unremoved' PROVE \E d \in Connections : portOf'[d] = f /\ Held(d)'
      OBVIOUS
    <3>1. CASE f = portOf'[k]
      BY <3>1, <2>3, <2>0 DEF Held
    <3>2. CASE f # portOf'[k]
      <4>1. f \in forwards \ unremoved /\ f \notin ports
        BY <3>2, <2>a, <2>b, <1>a, <2>0 DEF ChannelTypes
      <4>2. PICK d \in Connections : portOf[d] = f /\ Held(d)
        BY <4>1 DEF ForwardInv
      <4>3. d # inputChannel[t] /\ d # disposeInputChannelOnExit[t]
        BY <4>1, <4>2, <1>e DEF ForwardInv
      <4>4. d # k
        <5>1. ~Spent(k)
          BY <1>f, <2>0, <2>1
        <5>2. ~Held(k)
          BY <5>1, <2>3 DEF Held, ForwardInv
        <5> QED BY <4>2, <5>2
      <4>5. Held(d)'
        BY <4>2, <4>3, <4>4, <2>1, <2>2, <1>a, <1>d DEF Held, ChannelTypes
      <4> QED BY <4>2, <4>4, <4>5, <2>2
    <3> QED BY <3>1, <3>2
  <2> QED BY <2>1, <2>4, <2>5, <2>6, <2>7, <1>a DEF ForwardInv, ChannelTypes
<1>3. ASSUME NEW c \in Calls, Attach(c) PROVE ForwardInv'
  <2>0. PICK k \in Connections : k = Connection(c) /\ k[1] = c /\ k[2] = attempts[c] /\ k = <<c, attempts[c]>>
    BY <1>c DEF Connection
  <2>1. PICK t \in Transports : t = TransportOf[c]
    BY <1>d
  <2>2. /\ stage[c] = "attaching" /\ stage' = [stage EXCEPT ![c] = "send"]
        /\ UNCHANGED <<attempts, forwards, unremoved, portOf, adrift, ended>>
        /\ inputChannel' = [inputChannel EXCEPT ![t] = k]
        /\ disposeInputChannelOnExit' = [disposeInputChannelOnExit EXCEPT ![t] = k]
        /\ exitHandlers' = [exitHandlers EXCEPT ![t] = @ \cup {k}]
    BY <1>3, <2>1, <2>0 DEF Attach, StageIs
  <2>3. \A d \in Connections : d # k /\ Attaching(d) => Attaching(d)'
    BY <2>2, <1>a, <1>b, <2>0 DEF CallTypes, Attaching, Connection
  <2>4. Spent(k)' /\ \A d \in Connections : Spent(d) => Spent(d)'
    BY <2>2, <1>a, <1>b, <2>0 DEF Spent, CallTypes, Sent, Ended
  <2>5. /\ k \in exitHandlers'[t] /\ t \notin ended
        /\ \A u \in Transports : /\ exitHandlers[u] \subseteq exitHandlers'[u]
                               /\ exitHandlers'[u] \subseteq exitHandlers[u] \cup {k}
    BY <2>1, <2>2, <1>a DEF ChannelTypes, ForwardInv, Active, Ended
  <2>6. \A d \in Connections : Held(d) => Held(d)'
    BY <2>2, <2>3, <2>5 DEF Held
  <2>7. \A e \in Calls : Active(e)' => TransportOf[e] \notin ended'
    BY <2>2, <1>a DEF ForwardInv, CallTypes, Active, Ended
  <2>8. disposeInputChannelOnExit' = inputChannel'
    BY <2>2 DEF ForwardInv
  <2> QED BY <2>2, <2>4, <2>5, <2>6, <2>7, <2>8, <1>a DEF ForwardInv, ChannelTypes
<1>4. ASSUME NEW c \in Calls, ForwardIsGone(c) \/ AttachFails(c) PROVE ForwardInv'
  <2>0. PICK k \in Connections : k = Connection(c) /\ k[1] = c /\ k[2] = attempts[c] /\ k = <<c, attempts[c]>>
    BY <1>c DEF Connection
  <2>1. /\ stage[c] = "attaching" /\ stage' = [stage EXCEPT ![c] = "send"]
        /\ UNCHANGED <<attempts, inputChannel, disposeInputChannelOnExit, exitHandlers, portOf, ended>>
        /\ unremoved \subseteq unremoved'
        /\ \/ /\ forwards' \subseteq forwards /\ portOf[k] \notin forwards' \ unremoved' /\ adrift' = adrift
           \/ forwards' = forwards /\ adrift' = adrift \cup {k}
    BY <1>4, <2>0 DEF ForwardIsGone, AttachFails, GiveUpChannel, StageIs
  <2>2. \A d \in Connections : d # k /\ Attaching(d) => Attaching(d)'
    BY <2>1, <1>a, <1>b, <2>0 DEF CallTypes, Attaching, Connection
  <2>3. Spent(k)' /\ \A d \in Connections : Spent(d) => Spent(d)'
    BY <2>1, <1>a, <1>b, <2>0 DEF Spent, CallTypes, Sent, Ended
  <2>4. \A d \in Connections : Held(d) /\ portOf[d] \in forwards' \ unremoved' => Held(d)'
    BY <2>1, <2>2 DEF Held
  <2>5. \A e \in Calls : Active(e)' => TransportOf[e] \notin ended'
    BY <2>1, <1>a DEF ForwardInv, CallTypes, Active, Ended
  <2>6. \A f \in forwards' \ unremoved' : \E d \in Connections : portOf'[d] = f /\ Held(d)'
    BY <2>1, <2>4 DEF ForwardInv
  <2> QED BY <2>1, <2>3, <2>5, <2>6, <1>a DEF ForwardInv, ChannelTypes
<1>5. ASSUME NEW d \in Connections, SocketCloses(d) PROVE ForwardInv'
  BY <1>5 DEF SocketCloses, ForwardInv, Held, Attaching, Connection, Spent, Active
<1>6. ASSUME NEW t \in Transports, dispose(t) PROVE ForwardInv'
  <2>1. /\ UNCHANGED <<stage, attempts, portOf, adrift, ended>>
        /\ inputChannel' = [inputChannel EXCEPT ![t] = None]
        /\ disposeInputChannelOnExit' = [disposeInputChannelOnExit EXCEPT ![t] = None]
        /\ exitHandlers' = [exitHandlers EXCEPT ![t] = @ \ {disposeInputChannelOnExit[t]}]
        /\ removeForward({portOf[inputChannel[t]]})
    BY <1>6 DEF dispose, unregisterInputChannelExitHandler, Drop
  <2>2. /\ disposeInputChannelOnExit' = inputChannel'
        /\ \A u \in Transports : exitHandlers'[u] \subseteq exitHandlers[u]
    BY <2>1, <1>a DEF ForwardInv, ChannelTypes
  <2>r. /\ unremoved \subseteq unremoved' /\ forwards' \subseteq forwards
        /\ portOf[inputChannel[t]] \notin forwards' \ unremoved'
    BY <2>1, RemovalStep
  <2>3. \A d \in Connections : Held(d) /\ portOf[d] \in forwards' \ unremoved' => Held(d)'
    BY <2>1, <2>r, <1>a DEF Held, Attaching, Connection, ForwardInv, ChannelTypes
  <2>4. \A f \in forwards' \ unremoved' : \E d \in Connections : portOf'[d] = f /\ Held(d)'
    BY <2>1, <2>r, <2>3 DEF ForwardInv
  <2> QED BY <2>1, <2>2, <2>4, <1>a DEF ForwardInv, ChannelTypes, Active, Spent
<1>7. ASSUME NEW t \in Transports, ProcessExits(t) \/ ProcessKilled(t) PROVE ForwardInv'
  <2>1. /\ UNCHANGED <<attempts, inputChannel, disposeInputChannelOnExit, portOf>>
        /\ ended' = ended \cup {t}
        /\ stage' = [c \in Calls |-> IF TransportOf[c] = t /\ stage[c] \notin Ended THEN "dead" ELSE stage[c]]
        /\ exitHandlers' = [exitHandlers EXCEPT ![t] = {}]
    BY <1>7 DEF ProcessExits, ProcessKilled, ProcessEnds, CallsOf
  <2>a. /\ unremoved \subseteq unremoved' /\ forwards' \subseteq forwards
        /\ \A d \in exitHandlers[t] : portOf[d] \in forwards' \ unremoved' => d \in adrift'
    <3>1. CASE ProcessExits(t)
      BY <3>1, RemovalStep DEF ProcessExits
    <3>2. CASE ProcessKilled(t)
      BY <3>2 DEF ProcessKilled
    <3> QED BY <1>7, <3>1, <3>2
  <2>b. /\ adrift \cup BeingAttached(t) \subseteq adrift'
        /\ adrift' \subseteq adrift \cup BeingAttached(t) \cup exitHandlers[t]
    BY <1>7 DEF ProcessExits, ProcessKilled
  <2>c. BeingAttached(t) = {Connection(c) : c \in {e \in Calls : TransportOf[e] = t /\ stage[e] = "attaching"}}
    BY DEF BeingAttached, CallsOf
  <2>2. \A d \in Connections : Spent(d) => Spent(d)'
    BY <2>1, <1>b DEF Spent, Sent, Ended
  <2>3. \A d \in adrift' : Spent(d)'
    <3>1. ASSUME NEW c \in Calls, TransportOf[c] = t, NEW d, d = Connection(c) PROVE Spent(d)'
      <4>1. d[1] = c /\ d[2] = attempts'[c] /\ stage'[c] \in Ended
        BY <3>1, <2>1, <1>a, <1>c DEF CallTypes, Ended
      <4> QED BY <4>1 DEF Spent, Sent
    <3>2. \A d \in BeingAttached(t) : Spent(d)'
      BY <3>1, <2>c
    <3>3. \A d \in adrift \cup exitHandlers[t] : Spent(d)'
      BY <2>2, <1>a DEF ForwardInv, ChannelTypes
    <3> QED BY <3>2, <3>3, <2>b
  <2>4. \A d \in Connections : Attaching(d) => Attaching(d)' \/ d \in adrift'
    BY <2>1, <2>b, <2>c, <1>b DEF Attaching, Connection
  <2>5. \A d \in Connections : Held(d) /\ portOf[d] \in forwards' \ unremoved' => Held(d)'
    BY <2>1, <2>a, <2>b, <2>4, <1>a DEF Held, ChannelTypes
  <2>6. \A f \in forwards' \ unremoved' : \E d \in Connections : portOf'[d] = f /\ Held(d)'
    BY <2>1, <2>a, <2>5 DEF ForwardInv
  <2>7. \A c \in Calls : Active(c)' => TransportOf[c] \notin ended'
    BY <2>1 DEF ForwardInv, Active, Ended
  <2>8. \A u \in Transports : exitHandlers'[u] \subseteq exitHandlers[u]
    BY <2>1, <1>a DEF ChannelTypes
  <2> QED BY <2>1, <2>2, <2>3, <2>6, <2>7, <2>8, <1>a DEF ForwardInv, ChannelTypes
<1> QED BY <1>1, <1>2, <1>3, <1>4, <1>5, <1>6, <1>7, StepKinds, PathTypes, ScriptTypesStep DEF ChannelStep

-----------------------------------------------------------------------------
(* The calm of a transport, and the call it makes in it.                   *)

\* The session is no worse for those that were content with it.
Eased ==
  /\ context = "webview" => context' = "webview"
  /\ chrome' # chrome => chrome' = "attached"
  /\ chrome' = "dead" /\ context' = "webview" => context = "webview"

CallKept(c) == stage'[c] = stage[c] /\ attempts'[c] = attempts[c] /\ polls'[c] = polls[c]
FlagsKept(t) ==
  isInWebViewContext'[t] = isInWebViewContext[t] /\ isWebViewWindowStale'[t] = isWebViewWindowStale[t]

\* A call stays on its way when the session is no worse.
LEMMA StaysOnItsWay ==
  ASSUME NEW c \in Calls, NEW t \in Transports, OnItsWay(c, t), CallKept(c), FlagsKept(t), Eased
  PROVE  OnItsWay(c, t)'
BY DEF OnItsWay, CallKept, FlagsKept, Eased, Attachable

\* A step that makes no transport calm, on the way of one call.
LEMMA CalmAfterStep ==
  ASSUME SessionTypeOK, CalmInv, NEW c \in Calls, NEW t \in Transports, t = TransportOf[c],
         Active(c), stage'[c] # "idle", \A d \in Calls \ {c} : CallKept(d),
         \A u \in Transports \ {t} : FlagsKept(u),
         relapsed' = relapsed, app' = app, terminated' = terminated, calm' \subseteq calm,
         \A d \in assured' : d \in assured /\ TransportOf[d] \in calm',
         calm' \subseteq {t} \/ Eased,
         t \in calm' /\ OnItsWay(c, t) =>
           /\ isInWebViewContext'[t] => Attachable'
           /\ Active(c)' => OnItsWay(c, t)'
  PROVE  CalmInv'
<1>1. \A d \in Calls : stage'[d] = "idle" => attempts'[d] = 1 /\ polls'[d] = 0
  BY DEF CalmInv, CallKept
<1>2. \A u \in Transports : UnderWay(u)' \subseteq UnderWay(u)
  BY DEF UnderWay, CallsOf, Active, CallKept, Ended
<1>3. ASSUME NEW u \in calm'
      PROVE  /\ isInWebViewContext'[u] => Attachable'
             /\ \A d, e \in UnderWay(u)' : d = e
             /\ \A d \in UnderWay(u)' : OnItsWay(d, u)'
  <2>0. u \in Transports
    BY DEF SessionTypeOK
  <2>1. \A d, e \in UnderWay(u)' : d = e
    BY <1>2, <2>0 DEF CalmInv
  <2>2. CASE u = t
    <3>1. c \in UnderWay(t) /\ OnItsWay(c, t)
      BY <2>2 DEF CalmInv, UnderWay, CallsOf, Active
    <3>2. \A d \in UnderWay(t)' : d = c /\ Active(c)'
      BY <1>2, <2>2, <3>1 DEF CalmInv, UnderWay, CallsOf, Active
    <3> QED BY <2>1, <2>2, <3>1, <3>2
  <2>3. CASE u # t
    <3>1. Eased /\ FlagsKept(u)
      BY <2>0, <2>3
    <3>2. isInWebViewContext'[u] => Attachable'
      BY <3>1 DEF CalmInv, FlagsKept, Eased, Attachable
    <3>3. \A d \in UnderWay(u)' : d \in Calls /\ d # c /\ OnItsWay(d, u)
      BY <1>2, <2>0, <2>3 DEF CalmInv, UnderWay, CallsOf
    <3>4. \A d \in UnderWay(u)' : OnItsWay(d, u)'
      BY <2>0, <3>1, <3>3, StaysOnItsWay
    <3> QED BY <2>1, <3>2, <3>4
  <2> QED BY <2>2, <2>3
<1> QED BY <1>1, <1>3 DEF CalmInv, HealsAfterOneFailure

\* A step that shakes everybody.
LEMMA CalmAfterTrouble ==
  ASSUME CalmInv, calm' = {}, assured' = {}, relapsed' = relapsed,
         \A d \in Calls : stage'[d] = "idle" => CallKept(d)
  PROVE  CalmInv'
BY DEF CalmInv, HealsAfterOneFailure, CallKept

\* A step that leaves the session alone.
LEMMA CalmAfterKept ==
  ASSUME SessionTypeOK, CalmInv, SessionKept
  PROVE  CalmInv'
<1>1. \A d \in Calls : stage'[d] = "idle" => CallKept(d)
  BY DEF SessionKept, CallKept, Ended
<1>2. CASE calm' = {} /\ assured' = {}
  BY <1>1, <1>2, CalmAfterTrouble DEF SessionKept
<1>3. CASE UNCHANGED <<calm, assured>>
  <2>1. UNCHANGED <<context, chrome, app, terminated, isInWebViewContext, isWebViewWindowStale, attempts,
                    polls, relapsed>>
    BY DEF SessionKept, session, flags
  <2>2. \A t \in Transports : UnderWay(t)' \subseteq UnderWay(t)
    BY DEF SessionKept, UnderWay, CallsOf, Ended
  <2>3. \A t \in Transports : \A d \in UnderWay(t)' : OnItsWay(d, t) => OnItsWay(d, t)'
    BY <2>1 DEF SessionKept, OnItsWay, Attachable, UnderWay, CallsOf
  <2>4. \A t \in calm : t \in Transports
    BY DEF SessionTypeOK
  <2> QED BY <1>1, <1>3, <2>1, <2>2, <2>3, <2>4 DEF CalmInv, CallKept, Attachable, HealsAfterOneFailure
<1> QED BY <1>2, <1>3 DEF SessionKept

\* The steps on the way: the one call of a calm transport gets through.
LEMMA CalmOnThePath ==
  ASSUME SessionTypeOK, CalmInv, PathStep
  PROVE  CalmInv'
<1>a. CallTypes /\ SessionTypes
  BY TypeParts
<1>b. PollLimit \in Nat \ {0, 1} /\ \A c \in Calls : TransportOf[c] \in Transports
  BY SessionAssumption
<1>c. \A u \in Transports : \A d \in Calls : TransportOf[d] = u <=> d \in CallsOf(u)
  BY DEF CallsOf
<1>1. ASSUME NEW c \in Calls, evaluate(c) PROVE CalmInv'
  <2>1. PICK t \in Transports : t = TransportOf[c]
    BY <1>b
  <2>2. /\ stage[c] = "idle"
        /\ stage' = [stage EXCEPT ![c] = "ensure"]
        /\ UNCHANGED <<flags, attempts, polls, session, relapsed>>
        /\ calm' \subseteq calm /\ (t \in calm' => UnderWay(t) = {})
        /\ \A d \in assured' : TransportOf[d] \in calm'
    BY <1>1, <2>1 DEF evaluate, MayBegin, Unsettle, StageIs, CalmInv
  <2>3. UNCHANGED <<isInWebViewContext, isWebViewWindowStale, context, chrome, app, terminated>>
    BY <2>2 DEF flags, session
  <2>4. \A u \in Transports : UnderWay(u)' \subseteq UnderWay(u) \cup (IF u = t THEN {c} ELSE {})
    BY <2>1, <2>2, <1>a DEF UnderWay, CallsOf, CallTypes
  <2>5. OnItsWay(c, t)'
    BY <2>2, <1>a DEF OnItsWay, CalmInv, CallTypes
  <2>6. \A u \in Transports : \A d \in UnderWay(u) : OnItsWay(d, u) => OnItsWay(d, u)'
    BY <2>2, <2>3, <1>a DEF OnItsWay, Attachable, UnderWay, CallsOf, CallTypes
  <2>7. \A u \in calm' : u \in Transports
    BY <2>2 DEF SessionTypeOK
  <2>8. ASSUME NEW u \in calm'
        PROVE  \A d, e \in UnderWay(u)' : d = e /\ OnItsWay(d, u)'
    BY <2>2, <2>4, <2>5, <2>6, <2>7 DEF CalmInv
  <2>9. \A d \in Calls : stage'[d] = "idle" => attempts'[d] = 1 /\ polls'[d] = 0
    BY <2>2, <1>a DEF CalmInv, CallTypes
  <2> QED BY <2>2, <2>3, <2>8, <2>9 DEF CalmInv, Attachable, HealsAfterOneFailure
<1>2. CASE AppReturns \/ \E c \in Calls : preflightCheck(c)
  <2>1. calm = {} /\ UNCHANGED <<calm, assured, relapsed>>
    BY <1>2 DEF AppReturns, preflightCheck, CalmInv, health
  <2>2. assured' = {}
    BY <2>1, <1>a DEF CalmInv, SessionTypes
  <2>3. \A d \in Calls : stage'[d] = "idle" => CallKept(d)
    BY <1>2, <1>a DEF AppReturns, preflightCheck, StageIs, CallKept, CallTypes
  <2> QED BY <2>1, <2>2, <2>3, CalmAfterTrouble
<1>3. ASSUME NEW c \in Calls, CommandFails(c) PROVE CalmInv'
  <2>1. \A d \in Calls : stage'[d] = "idle" => CallKept(d)
    BY <1>3, <1>a DEF CommandFails, StageIs, CallKept, CallTypes
  <2> QED BY <1>3, <2>1, TroubleStep, CalmAfterTrouble DEF CommandFails
<1>4. ASSUME NEW c \in Calls,
             \/ ensureWebViewContext(c) \/ SwitchWindow(c) \/ NoWindow(c) \/ ResetContext(c) \/ SwitchContext(c)
             \/ SwitchFails(c) \/ NoContext(c) \/ Deadline(c) \/ ChannelSettled(c)
      PROVE  CalmInv'
  <2>1. PICK t \in Transports : t = TransportOf[c]
    BY <1>b
  <2>2. Active(c) /\ stage'[c] # "idle" /\ \A d \in Calls \ {c} : CallKept(d)
    BY <1>4, <1>a DEF ensureWebViewContext, SwitchWindow, NoWindow, ResetContext, SwitchContext,
       SwitchFails,
       NoContext, Deadline, PollEnds, Polling, AtLoop, ChannelSettled, StageIs, Active, Ended, CallKept, CallTypes
  <2>3. \A u \in Transports \ {t} : FlagsKept(u)
    BY <1>4, <2>1, <1>a DEF ensureWebViewContext, SwitchWindow, NoWindow, ResetContext, SwitchContext,
       SwitchFails,
       NoContext, Deadline, PollEnds, ChannelSettled, FlagsKept, flags, SessionTypes
  <2>4. app' = app /\ terminated' = terminated
    BY <1>4 DEF ensureWebViewContext, SwitchWindow, NoWindow, ResetContext, SwitchContext, SwitchFails,
       NoContext, Deadline, PollEnds, ChannelSettled, session
  <2>5. /\ calm' \subseteq calm /\ \A d \in assured' : d \in assured /\ TransportOf[d] \in calm'
        /\ calm' \subseteq {t} \/ Eased
    BY <1>4, <2>1, <1>a, <1>b DEF ensureWebViewContext, SwitchWindow, ListsWindow, NoWindow, ResetContext,
       SwitchContext,
       SwitchFails, AfterFailedSwitch, ToNative, Unsettle, NoContext, Deadline, PollEnds, Failed, ChannelSettled,
       Eased, session, health, CalmInv, SessionTypes
  <2>6. c \in assured \/ t \in calm => app = "up" /\ ~terminated /\ OnItsWay(c, t) /\ t \in calm
    BY <2>1, <2>2 DEF CalmInv, UnderWay, CallsOf, Active
  <2>7. relapsed' = relapsed
    <3>1. CASE Deadline(c)
      <4>1. c \notin assured
        BY <3>1, <2>6, <1>b DEF Deadline, OnItsWay
      <4> QED BY <3>1, <4>1 DEF Deadline, PollEnds, Failed, health
    <3>2. CASE ~Deadline(c)
      BY <1>4, <3>2 DEF ensureWebViewContext, SwitchWindow, NoWindow, ResetContext, SwitchContext,
         SwitchFails,
         AfterFailedSwitch, ToNative, Unsettle, NoContext, ChannelSettled, health
    <3> QED BY <3>1, <3>2
  <2>8. ASSUME t \in calm', OnItsWay(c, t)
        PROVE  (isInWebViewContext'[t] => Attachable') /\ (Active(c)' => OnItsWay(c, t)')
    <3>a. app = "up" /\ ~terminated /\ (isInWebViewContext[t] => Attachable)
      BY <2>5, <2>8 DEF CalmInv
    <3>1. CASE ensureWebViewContext(c)
      BY <3>1, <3>a, <2>1, <2>8, <1>a DEF ensureWebViewContext, StageIs, OnItsWay, Attachable, session,
         CallTypes, SessionTypes
    <3>2. CASE SwitchWindow(c)
      BY <3>2, <3>a, <2>1, <2>8, <1>a DEF SwitchWindow, ListsWindow, StageIs, OnItsWay, Attachable,
         CallTypes, SessionTypes
    <3>3. CASE NoWindow(c)
      BY <3>3, <3>a, <2>1, <2>8, <1>a DEF NoWindow, ListsWindow, StageIs, OnItsWay, Attachable, session,
         CallTypes, SessionTypes
    <3>4. CASE ResetContext(c)
      BY <3>4, <3>a, <2>1, <2>8, <1>a DEF ResetContext, ToNative, StageIs, OnItsWay, Attachable, flags,
         CallTypes, SessionTypes
    <3>5. CASE SwitchContext(c)
      BY <3>5, <3>a, <2>1, <2>8, <1>a DEF SwitchContext, Polling, AtLoop, StageIs, OnItsWay, Attachable, CallTypes,
         SessionTypes
    <3>6. CASE SwitchFails(c)
      BY <3>6, <3>a, <2>1, <2>8, <1>a DEF SwitchFails, Polling, AtLoop, AfterFailedSwitch, ToNative, OnItsWay,
         Attachable, flags, CallTypes,
         SessionTypes
    <3>7. CASE NoContext(c)
      BY <3>7, <3>a DEF NoContext
    <3>8. CASE Deadline(c)
      BY <3>8, <3>a, <2>8, <1>b DEF Deadline, OnItsWay
    <3>9. CASE ChannelSettled(c)
      BY <3>9, <3>a, <2>1, <2>8, <1>a DEF ChannelSettled, StageIs, OnItsWay, Attachable, session, flags,
         CallTypes, SessionTypes
    <3> QED BY <1>4, <3>1, <3>2, <3>3, <3>4, <3>5, <3>6, <3>7, <3>8, <3>9
  <2> QED BY <2>1, <2>2, <2>3, <2>4, <2>5, <2>7, <2>8, CalmAfterStep
<1> QED BY PathStep, <1>1, <1>2, <1>3, <1>4 DEF PathStep

\* A script is served: that of an assured call fails at most once, for a lost window.
LEMMA CalmAfterServe ==
  ASSUME SessionTypeOK, CalmInv, NEW c \in Calls, Serve(c)
  PROVE  CalmInv'
<1>a. CallTypes /\ SessionTypes
  BY TypeParts
<1>1. PICK t \in Transports : t = TransportOf[c]
  BY SessionAssumption
<1>2. CASE CanRun \/ stage[c] # "waiting"
  <2>1. SessionKept
    <3>1. CASE CanRun
      BY <3>1, <1>a DEF Serve, SessionKept, health, flags, session
    <3>2. CASE ~CanRun
      BY <3>2, <1>2 DEF Serve, ScriptFails, SessionKept, health, flags, session
    <3> QED BY <3>1, <3>2
  <2> QED BY <2>1, CalmAfterKept
<1>3. CASE ~CanRun /\ stage[c] = "waiting"
  <2>1. PICK why \in Refusals :
          /\ ScriptFails(c, why)
          /\ IF ~RetriesAfter(c, why) THEN ScriptFailed(c) ELSE UNCHANGED health
    BY <1>3 DEF Serve
  <2>2. /\ isInWebViewContext' = [isInWebViewContext EXCEPT ![t] = FALSE]
        /\ isWebViewWindowStale' = [isWebViewWindowStale EXCEPT ![t] = @ \/ why = "window-closed"]
    BY <1>1, <1>3, <2>1 DEF ScriptFails, DistrustContext
  <2>3. UNCHANGED <<context, chrome, app, terminated, polls>> /\ Eased
    BY <1>3 DEF Serve, session, Eased
  <2>4. Active(c) /\ \A u \in Transports \ {t} : FlagsKept(u)
    BY <1>3, <2>2, <1>a DEF Active, Ended, FlagsKept, SessionTypes
  <2>5. CASE RetriesAfter(c, why)
    <3>1. /\ attempts[c] = 1 /\ why = "window-closed" /\ UNCHANGED <<calm, assured, relapsed>>
          /\ stage' = [stage EXCEPT ![c] = "ensure"] /\ attempts' = [attempts EXCEPT ![c] = 2]
      BY <1>3, <2>1, <2>5 DEF ScriptFails, RetriesAfter, StageIs, health
    <3>2. stage'[c] = "ensure" /\ \A d \in Calls \ {c} : CallKept(d)
      BY <3>1, <2>3, <1>a DEF CallKept, CallTypes
    <3>3. ~isInWebViewContext'[t] /\ isWebViewWindowStale'[t] /\ (Attachable => Attachable')
      BY <2>1, <2>2, <2>3, <3>1, <1>a DEF Attachable, SessionTypes
    <3>4. OnItsWay(c, t) => OnItsWay(c, t)'
      BY <1>3, <2>3, <3>2, <3>3 DEF OnItsWay
    <3>5. calm' \subseteq calm /\ \A d \in assured' : d \in assured /\ TransportOf[d] \in calm'
      BY <3>1 DEF CalmInv
    <3> QED BY <1>1, <2>3, <2>4, <3>1, <3>2, <3>3, <3>4, <3>5, CalmAfterStep
  <2>6. CASE ~RetriesAfter(c, why)
    <3>1. /\ stage' = [stage EXCEPT ![c] = "failed"] /\ attempts' = attempts
          /\ calm' = (IF app = "up" /\ ~terminated /\ UnderWay(t) = {c} THEN calm \cup {t} ELSE calm)
          /\ relapsed' = (IF c \in assured THEN relapsed \cup {c} ELSE relapsed) /\ assured' = assured
      BY <1>1, <1>3, <2>1, <2>6 DEF ScriptFails, ScriptFailed, StageIs
    <3>2. t \notin calm /\ c \notin assured
      <4>1. SUFFICES ASSUME t \in calm PROVE FALSE
        BY <1>1 DEF CalmInv
      <4>2. OnItsWay(c, t) /\ app = "up" /\ ~terminated
        BY <1>1, <2>4, <4>1 DEF CalmInv, UnderWay, CallsOf, Active
      <4>3. context = "webview" /\ chrome = "gone"
        BY <1>3, <4>2, <1>a DEF OnItsWay, Attachable, CanRun, SessionTypes
      <4>4. attempts[c] # 1
        BY <2>1, <2>6, <4>2, <4>3 DEF RetriesAfter, Refusals
      <4> QED BY <1>3, <1>a, <4>2, <4>3, <4>4 DEF OnItsWay, CallTypes
    <3>3. \A u \in Transports : UnderWay(u)' = UnderWay(u) \ {c}
      BY <3>1, <1>a DEF UnderWay, CallsOf, Ended, CallTypes
    <3>4. /\ \A d \in Calls : stage'[d] = "idle" => attempts'[d] = 1 /\ polls'[d] = 0
          /\ \A d \in Calls \ {c} : CallKept(d)
      BY <3>1, <2>3, <1>a DEF CalmInv, CallKept, CallTypes
    <3>5. ASSUME NEW u \in calm'
          PROVE  /\ isInWebViewContext'[u] => Attachable'
                 /\ \A d, e \in UnderWay(u)' : d = e
                 /\ \A d \in UnderWay(u)' : OnItsWay(d, u)'
      <4>0. u \in Transports
        BY <3>1, <1>a DEF SessionTypes
      <4>1. CASE u = t
        BY <4>1, <3>1, <3>2, <3>3, <2>2, <1>a DEF SessionTypes
      <4>2. CASE u # t
        <5>1. u \in calm /\ FlagsKept(u)
          BY <4>0, <4>2, <3>1, <2>4
        <5>2. \A d \in UnderWay(u)' : d \in UnderWay(u) /\ d \in Calls /\ CallKept(d) /\ OnItsWay(d, u)
          BY <3>3, <3>4, <4>0, <5>1 DEF CalmInv, UnderWay, CallsOf
        <5>3. \A d \in UnderWay(u)' : OnItsWay(d, u)'
          BY <4>0, <5>1, <5>2, <2>3, StaysOnItsWay
        <5> QED BY <5>1, <5>2, <5>3, <2>3 DEF CalmInv, FlagsKept, Attachable
      <4> QED BY <4>1, <4>2
    <3>6. /\ relapsed' = relapsed /\ (calm' # {} => app' = "up" /\ ~terminated')
          /\ \A d \in assured' : TransportOf[d] \in calm'
      BY <3>1, <3>2, <2>3 DEF CalmInv
    <3> QED BY <3>4, <3>5, <3>6 DEF CalmInv, HealsAfterOneFailure
  <2> QED BY <2>5, <2>6
<1> QED BY <1>2, <1>3

\* Every step keeps the calm.
LEMMA CalmStep ==
  ASSUME SessionTypeOK, CalmInv, SessionNext
  PROVE  CalmInv'
<1>a. CallTypes /\ SessionTypes
  BY TypeParts
<1>1. ASSUME \/ \E c \in Calls : evaluateWithinCap(c) \/ CapFires(c)
             \/ GuestEnds \/ Tick
      PROVE  SessionKept
  <2>1. ASSUME NEW c \in Calls, evaluateWithinCap(c) PROVE SessionKept
    BY <2>1, <1>a DEF evaluateWithinCap, StageIs, SessionKept, CallTypes, flags, session, health
  <2>2. ASSUME NEW c \in Calls, CapFires(c) PROVE SessionKept
    BY <2>2, <1>a DEF CapFires, StageIs, SessionKept, CallTypes, flags, session, health, Ended
  <2>3. CASE GuestEnds
    <3>1. \A c \in Calls : stage'[c] = stage[c] \/ stage'[c] = "answered"
      BY <2>3, <1>a, GuestEndsShape DEF CallTypes
    <3> QED BY <2>3, <3>1 DEF GuestEnds, SessionKept, flags, session, health, Ended
  <2>4. CASE Tick
    BY <2>4 DEF Tick, SessionKept, flags, session, health
  <2> QED BY <1>1, <2>1, <2>2, <2>3, <2>4
<1>2. CASE WindowReplaced \/ AppDies \/ SessionTerminates
  <2>0. PICK whys : Upheaval(whys)
    BY <1>2 DEF WindowReplaced, AppDies, SessionTerminates
  <2>1. polls' = polls
    BY <2>0 DEF Upheaval
  <2>2. \A d \in Calls : stage'[d] = "idle" => CallKept(d)
    BY <2>0, <2>1, <1>a, UpheavalShape DEF CallKept, CallTypes
  <2> QED BY <2>0, <2>2, UpheavalShape, TroubleStep, CalmAfterTrouble
<1> QED BY <1>1, <1>2, StepKinds, ChannelTypesStep, CalmOnThePath, CalmAfterServe, CalmAfterKept DEF
           ScriptStep

-----------------------------------------------------------------------------
\* Once all processes have ended, only what is adrift answers for a forward.
LEMMA NoForwardLeft ==
  ForwardInv => NoForwardStranded
BY SessionAssumption DEF ForwardInv, NoForwardStranded, Held, Attaching, Active, Ended, Connections

\* Whatever calls the transports of a session make, however long their closures take, and however
\* often windows and sessions are lost, the app dies, commands and removals fail or processes end or
\* are killed: no closure runs twice unless its call was misreported (transport-appium.ts:535), a call
\* that keeps to the cap is capped only when others used up its budget (transport-appium.ts:959), a call
\* assured of the session does not fail (transport-appium.ts:917), and no forward is left but of a
\* connection that nothing was left to close, or one whose removal failed (transport-appium.ts:811,
\* webview-cdp.ts:190).
THEOREM OverrunsDoNotSpread == SessionSpec => []SessionInv
<1>1. SessionInit => SIInv
  <2> SUFFICES ASSUME SessionInit PROVE SIInv
    OBVIOUS
  <2>1. SessionTypeOK
    <3>1. CallTypes /\ Pending
      BY SessionAssumption DEF SessionInit, CallTypes, Pending, Unsent, Ended
    <3>4. SessionTypes
      <4>1. troubles \in 0..EventLimit[platform] /\ platform \in {"android", "ios"}
        BY SessionAssumption DEF SessionInit
      <4> QED BY <4>1 DEF SessionInit, SessionTypes
    <3>2. ScriptTypes
      BY DEF SessionInit, ScriptTypes
    <3>3. ChannelTypes
      BY DEF SessionInit, ChannelTypes
    <3> QED BY <3>1, <3>2, <3>3, <3>4, TypeParts
  <2>2. QueueInv /\ BudgetInv
    BY SessionAssumption DEF SessionInit, QueueInv, Lapses, BudgetInv, ClosureRunsOnce, CappedOnlyBehindOthers
  <2>3. CalmInv /\ ForwardInv
    BY DEF SessionInit, CalmInv, HealsAfterOneFailure, ForwardInv, Active
  <2> QED BY <2>1, <2>2, <2>3 DEF SIInv
<1>2. SIInv /\ [SessionNext]_sessionVars => SIInv'
  <2> SUFFICES ASSUME SIInv, [SessionNext]_sessionVars PROVE SIInv'
    OBVIOUS
  <2>1. CASE SessionNext
    BY <2>1, TypeStep, QueueStep, BudgetStep, CalmStep, ForwardStep DEF SIInv
  <2>2. CASE UNCHANGED sessionVars
    <3>1. ScriptKept /\ ChannelKept /\ SessionKept
      BY <2>2 DEF SIInv, sessionVars, ScriptKept, ChannelKept, SessionKept, Active, script, run, history,
         channel, session, flags, health
    <3>2. SessionTypeOK'
      BY <2>2, TypeStep DEF SIInv
    <3>3. QueueInv' /\ BudgetInv' /\ ForwardInv'
      BY <2>2 DEF SIInv, sessionVars, QueueInv, Lapses, ClosureRunsOnce, BudgetInv, Granted,
         CappedOnlyBehindOthers, ForwardInv, Held, Attaching, Connection, Spent, Active, script, run, history,
         channel
    <3> QED BY <3>1, <3>2, <3>3, CalmAfterKept DEF SIInv
  <2> QED BY <2>1, <2>2
<1>3. SIInv => SessionInv
  BY NoForwardLeft DEF SIInv, SessionInv, QueueInv, BudgetInv, CalmInv
<1> QED BY <1>1, <1>2, <1>3, PTL DEF SessionSpec
=============================================================================
