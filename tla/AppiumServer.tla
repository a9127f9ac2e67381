---------------------------- MODULE AppiumServer ----------------------------
(***************************************************************************)
(* Who owns the Appium server on one port: the processes, the provenance   *)
(* marker beside the setup lock (android/appium/appium-server-marker.ts),  *)
(* and the run that probes, adopts, reclaims, starts, restarts and stops   *)
(* servers (AppiumTransportFactory in transport/transport-factory.ts).     *)
(*                                                                         *)
(* Runs follow one another: the Android setup lock serializes them.  The   *)
(* grain is the await: between two awaits of the run the processes may     *)
(* change, and the run may be killed.                                      *)
(***************************************************************************)
EXTENDS Naturals, FiniteSets

CONSTANTS
  Servers,          (* the servers the harness may spawn, each at most once *)
  Foreign,          (* a server the user starts and stops on the same port *)
  Stubborn,         (* the servers a kill may leave answering for a while *)
  TreeKillReaches,  (* killing the spawned shell reaches the listener (Windows) *)
  QueryMayFail,     (* the port-owner query may fail, which reads as "nobody" *)
  AttemptLimit,     (* EMULATOR_BOOT_ATTEMPT_COUNT *)
  MayCrash,         (* a run may be killed outright *)
  NoServer

ASSUME AppiumAssumption ==
  /\ Foreign \notin Servers /\ NoServer \notin Servers \cup {Foreign}
  /\ Stubborn \subseteq Servers \cup {Foreign}
  /\ {TreeKillReaches, QueryMayFail, MayCrash} \subseteq BOOLEAN
  /\ AttemptLimit \in Nat \ {0}

VARIABLES
  proc,      (* proc[s]: the life of the process that listens, or will, for s *)
  shells,    (* the servers whose spawned shell, the marker's pid, is alive *)
  marker,    (* the marker file of the port *)
  pc,        (* where the run is; "idle" between runs *)
  auto,      (* this run's shouldAutoStartAppium *)
  known,     (* this run's appiumServerMarker, read when it adopted the server *)
  adopted,   (* this run's isAdoptedAppiumServer *)
  attempt,   (* this run's provisioning attempt *)
  launch,    (* the server of a launch that has not been reported ready *)
  mine,      (* this run's appiumProcess handle *)
  target,    (* the server that is being stopped *)
  spawned,   (* history: the servers this run has spawned *)
  lapses     (* history: the ways in which the run's view of its servers went wrong *)

runVars == <<pc, auto, known, adopted, attempt, launch, mine, target, spawned>>
procVars == <<proc, shells>>
vars == <<procVars, marker, runVars, lapses>>

Parties  == Servers \cup {Foreign}
NoMarker == [server |-> NoServer, stamped |-> FALSE]

Location ==
  {"idle", "probing", "reclaiming", "reclaimWait", "spawning", "provisioning",
   "deviceWait", "diagnosing", "connecting", "restarting", "restartWait", "respawning",
   "reconnecting", "running", "ending", "stopWait", "escalating", "escalateWait"}

TypeOK ==
  /\ proc \in [Parties -> {"absent", "loading", "serving", "dying", "gone"}]
  /\ shells \subseteq Servers
  /\ marker \in [server : Servers \cup {NoServer}, stamped : BOOLEAN]
  /\ known \in [server : Servers \cup {NoServer}, stamped : BOOLEAN]
  /\ pc \in Location
  /\ auto \in BOOLEAN /\ adopted \in BOOLEAN
  /\ attempt \in 1..AttemptLimit
  /\ {launch, mine, target} \subseteq Servers \cup {NoServer}
  /\ spawned \subseteq Servers
  /\ lapses \subseteq {"reclaim", "restart", "loading", "blindExit", "misread", "crashedStop"}

Init ==
  /\ proc = [s \in Parties |-> "absent"]
  /\ shells = {}
  /\ marker = NoMarker
  /\ pc = "idle"
  /\ auto = TRUE /\ known = NoMarker /\ adopted = FALSE /\ attempt = 1
  /\ launch = NoServer /\ mine = NoServer /\ target = NoServer
  /\ spawned = {}
  /\ lapses = {}

-----------------------------------------------------------------------------
(* Processes.                                                              *)

Answers(s) == proc[s] \in {"serving", "dying"}
Alive(s)   == proc[s] \in {"loading", "serving", "dying"}

Listeners == {s \in Parties : Answers(s)}

\* checkAppiumReachable succeeds: somebody answers /status on the port.
Reachable == Listeners # {}

\* What a kill of the shell's tree may make of the listener.
TreeKillOutcomes(s) ==
  (IF Alive(s) THEN {"gone"} ELSE {proc[s]})
    \cup (IF s \in Stubborn /\ Answers(s) THEN {"dying"} ELSE {})
    \cup (IF TreeKillReaches THEN {} ELSE {proc[s]})

\* killProcessTree(s): the shell dies, and its listener as the host allows.
KillTree(s) ==
  \E outcome \in TreeKillOutcomes(s) :
    /\ proc' = [proc EXCEPT ![s] = outcome]
    /\ shells' = shells \ {s}

\* killProcessTreeByPid for the owners the port query returned.
KillOwners(owners) ==
  \E stay \in SUBSET (owners \cap Stubborn) :
    /\ proc' = [s \in Parties |->
                  IF s \in stay THEN "dying" ELSE IF s \in owners THEN "gone" ELSE proc[s]]
    /\ shells' = shells \ (owners \ stay)

\* listPortOwnerPids: a failed query is an empty list.
PortOwners == {Listeners} \cup (IF QueryMayFail THEN {{}} ELSE {})

HarnessAlive == \E s \in Servers : Alive(s)

Lapse(cause, occurs) == lapses' = IF occurs THEN lapses \cup {cause} ELSE lapses

Goto(location) == pc' = location

-----------------------------------------------------------------------------
(* Provisioning: startAppiumAndEmulator, once per attempt.                 *)

\* Bound: a run begins while there are servers left for all its attempts.
Begin ==
  /\ pc = "idle"
  /\ Cardinality({s \in Servers : proc[s] = "absent"}) >= AttemptLimit
  /\ Goto("probing")
  /\ auto' \in BOOLEAN
  /\ known' = NoMarker /\ adopted' = FALSE /\ attempt' = 1
  /\ launch' = NoServer /\ mine' = NoServer /\ target' = NoServer
  /\ spawned' = {}
  /\ UNCHANGED <<procVars, marker, lapses>>

\* A server that answers is adopted, unless it is stamped as one an earlier run
\* could not stop and this run may start another.
Probe ==
  /\ pc = "probing"
  /\ \/ /\ Reachable /\ marker.stamped /\ auto
        /\ known' = marker
        /\ Goto("reclaiming")
        /\ UNCHANGED adopted
     \/ /\ Reachable /\ ~(marker.stamped /\ auto)
        /\ known' = marker
        /\ adopted' = TRUE
        /\ Goto("provisioning")
     \/ /\ ~Reachable
        /\ known' = NoMarker
        /\ adopted' = FALSE
        /\ Goto(IF auto THEN "spawning" ELSE "ending")
  /\ UNCHANGED <<procVars, marker, auto, attempt, launch, mine, target, spawned, lapses>>

\* reclaimUnstoppedAppiumServer: kill whatever holds the port, drop the marker,
\* and only then look whether the port went quiet.
Reclaim ==
  /\ pc = "reclaiming"
  /\ \E owners \in PortOwners : KillOwners(owners)
  /\ marker' = NoMarker
  /\ Goto("reclaimWait")
  /\ UNCHANGED <<auto, known, adopted, attempt, launch, mine, target, spawned, lapses>>

ReclaimWait ==
  /\ pc = "reclaimWait"
  /\ \/ /\ ~Reachable
        /\ known' = NoMarker
        /\ adopted' = FALSE
        /\ Goto("spawning")
     \/ /\ Reachable
        /\ adopted' = TRUE
        /\ Goto("provisioning")
        /\ UNCHANGED known
  /\ Lapse("reclaim", HarnessAlive)
  /\ UNCHANGED <<procVars, marker, auto, attempt, launch, mine, target, spawned>>

\* startAppiumServer: spawn the shell and record it as ours in the same turn.
startAppiumServer(s) ==
  /\ proc[s] = "absent"
  /\ proc' = [proc EXCEPT ![s] = "loading"]
  /\ shells' = shells \cup {s}
  /\ marker' = [server |-> s, stamped |-> FALSE]
  /\ launch' = s
  /\ spawned' = spawned \cup {s}
  /\ Lapse("loading", HarnessAlive)

Spawn ==
  /\ pc = "spawning"
  /\ \E s \in Servers : startAppiumServer(s)
  /\ Goto("provisioning")
  /\ UNCHANGED <<auto, known, adopted, attempt, mine, target>>

\* waitForAppiumReady: somebody answers on the port, which is taken for the
\* launched server.
Ready ==
  /\ pc = "provisioning"
  /\ launch # NoServer => Reachable
  /\ Goto("deviceWait")
  /\ Lapse("misread", launch # NoServer /\ ~Answers(launch))
  /\ UNCHANGED <<procVars, marker, auto, known, adopted, attempt, launch, mine, target, spawned>>

\* Mutant: the handle of the first attempt is overwritten by the second's.
ReplaceHandle == launch

\* The device is connected too.  A second attempt that adopts the first one's
\* server returns no process, and the first one's handle is kept.
KeepHandle == IF launch # NoServer THEN launch ELSE mine

Provisioned ==
  /\ pc = "deviceWait"
  /\ mine' = KeepHandle
  /\ launch' = NoServer
  /\ Goto("diagnosing")
  /\ UNCHANGED <<procVars, marker, auto, known, adopted, attempt, target, spawned, lapses>>

\* Either half failed: what this attempt launched is stopped, then the run ends.
ProvisioningFails ==
  /\ pc \in {"provisioning", "deviceWait"}
  /\ \/ /\ launch # NoServer
        /\ KillTree(launch)
        /\ target' = launch
        /\ Goto("stopWait")
     \/ /\ launch = NoServer
        /\ Goto("ending")
        /\ UNCHANGED <<procVars, target>>
  /\ launch' = NoServer
  /\ UNCHANGED <<marker, auto, known, adopted, attempt, mine, spawned, lapses>>

\* Mutants: one attempt too many, and attempts that are not counted.
DiagnoseOnceMore ==
  /\ pc = "diagnosing"
  /\ \/ Goto("connecting") /\ UNCHANGED attempt
     \/ \E isOwned \in BOOLEAN :
          IF isOwned /\ attempt <= AttemptLimit
          THEN attempt' = attempt + 1 /\ Goto("probing")
          ELSE UNCHANGED attempt /\ Goto("ending")
  /\ UNCHANGED <<procVars, marker, auto, known, adopted, launch, mine, target, spawned, lapses>>

DiagnoseForever ==
  /\ pc = "diagnosing"
  /\ \E next \in {"connecting", "probing", "ending"} : Goto(next)
  /\ UNCHANGED <<procVars, marker, auto, known, adopted, attempt, launch, mine, target, spawned, lapses>>

\* The device answers; or it does not, and an emulator this run owns (isOwned)
\* earns one more attempt, which leaves the Appium server alone.
Diagnose ==
  /\ pc = "diagnosing"
  /\ \/ Goto("connecting") /\ UNCHANGED attempt
     \/ \E isOwned \in BOOLEAN :
          IF isOwned /\ attempt < AttemptLimit
          THEN attempt' = attempt + 1 /\ Goto("probing")
          ELSE UNCHANGED attempt /\ Goto("ending")
  /\ UNCHANGED <<procVars, marker, auto, known, adopted, launch, mine, target, spawned, lapses>>

-----------------------------------------------------------------------------
(* The session: establishSession and restartWedgedServerAndRetry.          *)

\* checkIsHarnessOwnedAppiumServer on what this run read when it adopted.
checkIsHarnessOwnedAppiumServer == known # NoMarker /\ known.server \in shells

\* resolveWedgedAppiumServerRemedy = restart, for an error that says so.
MayRestart == adopted /\ auto /\ checkIsHarnessOwnedAppiumServer

Connect ==
  /\ pc = "connecting"
  /\ \/ Reachable /\ Goto("running")
     \/ Goto("ending")
     \/ Reachable /\ MayRestart /\ Goto("restarting")
  /\ UNCHANGED <<procVars, marker, auto, known, adopted, attempt, launch, mine, target, spawned, lapses>>

\* The shell of the marked server is killed and the marker dropped at once.
Restart ==
  /\ pc = "restarting"
  /\ KillTree(known.server)
  /\ marker' = NoMarker
  /\ Goto("restartWait")
  /\ UNCHANGED <<auto, known, adopted, attempt, launch, mine, target, spawned, lapses>>

RestartWait ==
  /\ pc = "restartWait"
  /\ Goto(IF Reachable THEN "ending" ELSE "respawning")
  /\ Lapse("restart", HarnessAlive)
  /\ UNCHANGED <<procVars, marker, auto, known, adopted, attempt, launch, mine, target, spawned>>

Respawn ==
  /\ pc = "respawning"
  /\ \E s \in Servers : startAppiumServer(s)
  /\ Goto("reconnecting")
  /\ UNCHANGED <<auto, known, adopted, attempt, mine, target>>

Reconnected ==
  /\ pc = "reconnecting"
  /\ Reachable
  /\ mine' = launch
  /\ launch' = NoServer
  /\ Goto("running")
  /\ Lapse("misread", ~Answers(launch))
  /\ UNCHANGED <<procVars, marker, auto, known, adopted, attempt, target, spawned>>

\* The replacement did not help: its shell is killed, its marker dropped, and
\* nothing looks whether it is gone.
ReconnectFails ==
  /\ pc = "reconnecting"
  /\ KillTree(launch)
  /\ marker' = NoMarker
  /\ launch' = NoServer
  /\ Goto("ending")
  /\ Lapse("restart", \E s \in Servers : proc'[s] \in {"loading", "serving", "dying"})
  /\ UNCHANGED <<auto, known, adopted, attempt, mine, target, spawned>>

-----------------------------------------------------------------------------
(* The end: dispose, the outer catch, and the exit handler.                *)

Dispose ==
  /\ pc = "running"
  /\ Goto("ending")
  /\ UNCHANGED <<procVars, marker, auto, known, adopted, attempt, launch, mine, target, spawned, lapses>>

\* Mutant: the teardown stops the server the run adopted, too.
StopWhatWasUsed ==
  /\ pc = "ending"
  /\ LET held == IF mine = NoServer THEN known.server ELSE mine
     IN IF held = NoServer
        THEN Goto("idle") /\ UNCHANGED <<procVars, target>>
        ELSE KillTree(held) /\ target' = held /\ Goto("stopWait")
  /\ UNCHANGED <<marker, auto, known, adopted, attempt, launch, mine, spawned, lapses>>

\* stopAutoStartedProcessesVerified: only a server this run holds is stopped.
StopMine ==
  /\ pc = "ending"
  /\ \/ /\ mine = NoServer
        /\ Goto("idle")
        /\ UNCHANGED <<procVars, target>>
     \/ /\ mine # NoServer
        /\ KillTree(mine)
        /\ target' = mine
        /\ Goto("stopWait")
  /\ UNCHANGED <<marker, auto, known, adopted, attempt, launch, mine, spawned, lapses>>

\* The run is over once what it holds has been stopped; a failed launch is
\* stopped first, and its failure then ends the run through the same stop.
AfterStop ==
  /\ Goto(IF target = mine THEN "idle" ELSE "ending")
  /\ target' = NoServer

\* The port is the verdict: a quiet port drops the marker.
Stopped ==
  /\ ~Reachable
  /\ marker' = NoMarker
  /\ Lapse("loading", HarnessAlive)
  /\ AfterStop

\* Mutant: the marker of a server that could not be stopped is cleared.
ClearInstead(m) == NoMarker

\* recordAppiumServerStopAttempt: the marker stays, stamped, if there is one.
Stamp(m) == IF m = NoMarker THEN m ELSE [m EXCEPT !.stamped = TRUE]

StopWait ==
  /\ pc = "stopWait"
  /\ \/ Stopped
     \/ /\ Reachable
        /\ Goto("escalating")
        /\ UNCHANGED <<marker, target, lapses>>
  /\ UNCHANGED <<procVars, auto, known, adopted, attempt, launch, mine, spawned>>

Escalate ==
  /\ pc = "escalating"
  /\ \E owners \in PortOwners :
       \/ /\ owners # {}
          /\ KillOwners(owners)
          /\ Goto("escalateWait")
          /\ UNCHANGED <<marker, target>>
       \/ /\ owners = {}
          /\ marker' = Stamp(marker)
          /\ AfterStop
          /\ UNCHANGED procVars
  /\ UNCHANGED <<auto, known, adopted, attempt, launch, mine, spawned, lapses>>

EscalateWait ==
  /\ pc = "escalateWait"
  /\ \/ Stopped
     \/ /\ Reachable
        /\ marker' = Stamp(marker)
        /\ AfterStop
        /\ UNCHANGED lapses
  /\ UNCHANGED <<procVars, auto, known, adopted, attempt, launch, mine, spawned>>

\* disposeSync, from the exit handler: kill, look once at the port, and stamp or
\* drop the marker by what the look returned.
ExitBestEffort ==
  /\ pc = "running"
  /\ \/ mine = NoServer /\ UNCHANGED <<procVars, marker, lapses>>
     \/ /\ mine # NoServer
        /\ \E outcome \in TreeKillOutcomes(mine), isSeen \in {TRUE, ~QueryMayFail} :
             LET killed == [proc EXCEPT ![mine] = outcome]
                 owners == {s \in Parties : isSeen /\ killed[s] \in {"serving", "dying"}}
             IN /\ \E stay \in SUBSET (owners \cap Stubborn) :
                     proc' = [s \in Parties |->
                                IF s \in stay THEN "dying"
                                ELSE IF s \in owners THEN "gone" ELSE killed[s]]
                /\ shells' = (shells \ {mine}) \ {s \in owners : proc'[s] = "gone"}
                /\ marker' = IF owners = {} THEN NoMarker ELSE Stamp(marker)
                /\ Lapse("blindExit",
                         owners = {} /\ \E s \in Servers : killed[s] \in {"loading", "serving", "dying"})
  /\ Goto("idle")
  /\ UNCHANGED <<auto, known, adopted, attempt, launch, mine, target, spawned>>

-----------------------------------------------------------------------------
(* The environment.                                                        *)

\* Between a kill and the look at the port that settles what it did.
Unverified == {"reclaimWait", "restartWait", "stopWait", "escalating", "escalateWait"}

\* SIGKILL: no handler runs.  A stop it interrupts has killed the shell the
\* marker names and has not stamped the marker yet, or has dropped the marker.
Crash ==
  /\ MayCrash /\ pc # "idle"
  /\ Goto("idle")
  /\ Lapse("crashedStop", pc \in Unverified)
  /\ UNCHANGED <<procVars, marker, auto, known, adopted, attempt, launch, mine, target, spawned>>

\* A loading server takes the port; if it is taken, it exits.  Only one process
\* can listen on a port.
FinishLoading(s) ==
  /\ proc[s] = "loading"
  /\ \/ Reachable /\ proc' = [proc EXCEPT ![s] = "gone"] /\ shells' = shells \ {s}
     \/ ~Reachable /\ proc' = [proc EXCEPT ![s] = "serving"] /\ UNCHANGED shells
  /\ UNCHANGED <<marker, runVars, lapses>>

\* A server exits: one that was killed, or one that fails by itself.
Exit(s) ==
  /\ Alive(s) /\ s # Foreign
  /\ proc' = [proc EXCEPT ![s] = "gone"]
  /\ shells' = shells \ {s}
  /\ UNCHANGED <<marker, runVars, lapses>>

UserStarts ==
  /\ proc[Foreign] = "absent" /\ ~Reachable
  /\ proc' = [proc EXCEPT ![Foreign] = "serving"]
  /\ UNCHANGED <<shells, marker, runVars, lapses>>

UserStops ==
  /\ proc[Foreign] = "serving"
  /\ proc' = [proc EXCEPT ![Foreign] = "absent"]
  /\ UNCHANGED <<shells, marker, runVars, lapses>>

-----------------------------------------------------------------------------
\* Everything the run does on its own once it has begun.
RunStep ==
  \/ Probe \/ Reclaim \/ ReclaimWait \/ Spawn \/ Ready \/ Provisioned \/ ProvisioningFails \/ Diagnose
  \/ Connect \/ Restart \/ RestartWait \/ Respawn \/ Reconnected \/ ReconnectFails
  \/ StopMine \/ StopWait \/ Escalate \/ EscalateWait

Environment ==
  \/ \E s \in Servers : FinishLoading(s) \/ Exit(s)
  \/ UserStarts \/ UserStops

Next ==
  \/ Begin \/ RunStep \/ Dispose \/ ExitBestEffort
  \/ Crash \/ Environment

Spec == Init /\ [][Next]_vars

(* Every wait of the run is bounded by a timeout of its own, so a run that *)
(* is not killed keeps moving.  Nothing obliges a run to begin or a test   *)
(* suite to end.                                                           *)
FairSpec == Spec /\ WF_vars(RunStep)

-----------------------------------------------------------------------------
(* Properties.                                                             *)

\* A server of the harness that outlives the run that started or held it stays
\* convictable by the next run: the marker names it while its shell is alive, or
\* is stamped (appium-server-marker.ts, recordAppiumServerStopAttempt).
LeftoverConvictable ==
  pc = "idle" => \A s \in Servers :
    Answers(s) => \/ marker.server = s /\ s \in shells
                  \/ marker.stamped

\* The only ways a leftover escapes conviction: a replacement that dropped the
\* marker before the stop was verified, a launch taken for ready or for stopped
\* while it was loading, an exit handler whose port query saw nothing, and a
\* crash between the kill and its verdict.
LeftoverConvictableUnlessLapsed == lapses = {} => LeftoverConvictable

\* A server that survives the reclaim or the restart of a later run stays
\* convictable too: clearing the marker "would be the worst of both worlds: the
\* leftover keeps serving, and the next run reads it as a foreign" one
\* (appium-server-marker.ts, recordAppiumServerStopAttempt).
SurvivorConvictable == lapses \subseteq {"reclaim", "restart"} => LeftoverConvictable

\* The run holds the handle of every server it spawned that is still alive, also
\* after a second provisioning attempt that adopts the first one's server and
\* after a restart: nothing it started is left out of its teardown.  The exception
\* is a launch taken for ready on the answer of another server.
HandleKept ==
  ("misread" \notin lapses /\ pc \in {"diagnosing", "connecting", "running"}) =>
    \A s \in spawned : Alive(s) => s = mine

\* A run that has spawned nothing kills no server but the one its marker names,
\* when it restarts it, or those that hold the port of a server stamped as one
\* that could not be stopped: what it merely adopted outlives its teardown.
AdoptedServerSpared ==
  [][\A s \in Parties :
       (pc' # pc /\ spawned = {} /\ proc[s] = "serving" /\ proc'[s] # "serving")
         => \/ pc = "restarting" /\ s = known.server
            \/ pc = "reclaiming" /\ known.stamped]_vars

\* A run that has started no server never kills the user's: "a server we started
\* may be restarted, a foreign one is only ever reported" (appium-server-marker.ts,
\* file header).
ForeignOnlyReported ==
  [][(spawned = {} /\ proc[Foreign] = "serving") => proc'[Foreign] \in {"serving", "absent"}]_vars

\* Every run that has begun comes to run its session or to end: the second
\* attempt is the last, and each stop gives up.
RunSettles == pc \notin {"idle", "running"} ~> pc \in {"idle", "running"}

\* What the runs leave and what a run holds is accounted for: a leftover by the marker on disk,
\* a server of the run itself by the handle it stops it with.
ServersAccountedFor == TypeOK /\ LeftoverConvictableUnlessLapsed /\ HandleKept
=============================================================================
