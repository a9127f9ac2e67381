--------------------------- MODULE OwnedInstance ---------------------------
(***************************************************************************)
(* The Obsidian a run launches for itself: the launch on a free port       *)
(* (src/desktop/owned-instance/obsidian-instance.ts), the relaunches, the  *)
(* kill and the disposal (src/desktop/transport-desktop-cdp.ts), the       *)
(* marker of a death nobody ordered (owned-instance-exit-marker.ts) and    *)
(* the watchdog by which an instance outlives its harness only for moments *)
(* (parent-liveness.ts).                                                   *)
(*                                                                         *)
(* The process a harness spawns is the child of an instance; an Obsidian   *)
(* that relaunches itself hands the instance to an heir the harness did    *)
(* not spawn.  The heir serves the same CDP port, which is how it is found.*)
(***************************************************************************)
EXTENDS Naturals, FiniteSets

CONSTANTS
  Harnesses,      (* the runs on one machine; each has one transport *)
  Ports,          (* the ports the operating system hands out and recycles *)
  Nil,
  Attempts,       (* Attempts[h] stands for OWNED_LAUNCH_MAX_ATTEMPTS *)
  RoundLimit,     (* OWNED_SURVIVOR_KILL_ROUND_COUNT *)
  ProbeLimit,     (* RECONNECT_ATTEMPT_LIMIT *)
  RefusalLimit,   (* bound on the connects a listening server refuses *)
  TroubleLimit    (* bound on crashes of instances, cut connections, failing queries and kills,
                     and ports taken over *)

Instances == UNION {{h} \X (1..Attempts[h]) : h \in Harnesses}
Harness(i) == i[1]
Child(i) == <<i, "child">>
Heir(i) == <<i, "heir">>
Processes == Instances \X {"child", "heir"}
Of(q) == q[1]

ASSUME OwnedAssumption ==
  /\ Nil \notin Ports \cup Instances \cup Processes
  /\ Attempts \in [Harnesses -> Nat \ {0}]
  /\ {RoundLimit, ProbeLimit} \subseteq Nat \ {0}
  /\ {RefusalLimit, TroubleLimit} \subseteq Nat

VARIABLES
  phase,         (* phase[h]: where the harness stands *)
  attempt,       (* attempt[h]: the launch it is at *)
  owned,         (* owned[h]: this.ownedInstance *)
  round,         (* round[h]: the survivor rounds done *)
  found,         (* found[h]: the port owners the last query listed *)
  goal,          (* goal[h]: what the kill under way is for *)
  port,          (* the CDP port of an instance *)
  alive,         (* the processes that live *)
  listener,      (* the process that serves a CDP port *)
  isKillExpected,(* the instances whose death the harness has ordered *)
  exitPending,   (* the instances whose child's exit has not been handled yet *)
  marker,        (* the exit marker of a port: the instance whose death it tells *)
  serverOpen,    (* the instances whose liveness server listens *)
  watchdog,      (* the watchdog in the renderer of an instance *)
  probes,        (* the reconnects it has tried *)
  troubles, refusals,
  lapses,        (* history: harnesses whose query or kill failed, or whose wait ran out *)
  unseen,        (* history: instances whose heir served no port when its owners were
                    listed, or came to be after that and before the kill *)
  late           (* history: ports whose marker was written after another launch on them *)

harness == <<phase, attempt, owned, round, found, goal>>
processes == <<port, alive, listener>>
exits == <<isKillExpected, exitPending, marker>>
liveness == <<serverOpen, watchdog, probes, refusals>>
history == <<lapses, unseen, late>>
instanceVars == <<harness, processes, exits, liveness, troubles, history>>

Location == {"idle", "picked", "booting", "launched", "up", "failed", "querying", "killing",
             "reaping", "exiting", "rechecking", "ended", "dead"}

InstanceTypeOK ==
  /\ phase \in [Harnesses -> Location]
  /\ attempt \in [Harnesses -> Nat] /\ \A h \in Harnesses : attempt[h] \in 1..Attempts[h]
  /\ owned \in [Harnesses -> Instances \cup {Nil}]
  /\ round \in [Harnesses -> 0..RoundLimit]
  /\ found \in [Harnesses -> SUBSET Processes]
  /\ goal \in [Harnesses -> {"none", "giveUp", "relaunch", "dispose"}]
  /\ port \in [Instances -> Ports \cup {Nil}]
  /\ alive \subseteq Processes
  /\ listener \in [Ports -> alive \cup {Nil}]
  /\ isKillExpected \subseteq Instances /\ exitPending \subseteq Instances
  /\ marker \in [Ports -> Instances \cup {Nil}]
  /\ serverOpen \subseteq Instances
  /\ watchdog \in [Instances -> {"off", "connecting", "on", "asking", "fooled"}]
  /\ probes \in [Instances -> 0..ProbeLimit]
  /\ troubles \in 0..TroubleLimit /\ refusals \in 0..RefusalLimit
  /\ lapses \subseteq Harnesses /\ unseen \subseteq Instances /\ late \subseteq Ports

InstanceInit ==
  /\ phase = [h \in Harnesses |-> "idle"]
  /\ attempt = [h \in Harnesses |-> 1]
  /\ owned = [h \in Harnesses |-> Nil]
  /\ round = [h \in Harnesses |-> 0]
  /\ found = [h \in Harnesses |-> {}]
  /\ goal = [h \in Harnesses |-> "none"]
  /\ port = [i \in Instances |-> Nil]
  /\ alive = {}
  /\ listener = [p \in Ports |-> Nil]
  /\ isKillExpected = {} /\ exitPending = {}
  /\ marker = [p \in Ports |-> Nil]
  /\ serverOpen = {}
  /\ watchdog = [i \in Instances |-> "off"]
  /\ probes = [i \in Instances |-> 0]
  /\ troubles = 0 /\ refusals = 0
  /\ lapses = {} /\ unseen = {} /\ late = {}

Current(h) == <<h, attempt[h]>>
CdpPort(h) == port[Current(h)]
Running(h) == phase[h] \notin {"ended", "dead"}

HarnessGoto(h, location) == phase' = [phase EXCEPT ![h] = location]

Trouble == troubles < TroubleLimit /\ troubles' = troubles + 1

\* Processes die: their ports are free, the exit of a child will be told to its harness,
\* and the watchdog goes with the renderer of the process that served the instance.
Die(dead) ==
  /\ alive' = alive \ dead
  /\ listener' = [p \in Ports |-> IF listener[p] \in dead THEN Nil ELSE listener[p]]
  /\ exitPending' = exitPending \cup {i \in Instances : Child(i) \in dead \cap alive}
  /\ watchdog' = [i \in Instances |->
       IF {Child(i), Heir(i)} \cap dead \cap alive # {} THEN "off" ELSE watchdog[i]]

-----------------------------------------------------------------------------
(* launchOwnedObsidianInstance.                                            *)

\* pickFreePort opens the port and closes it again: from here on anybody may take it.
pickFreePort(h) ==
  /\ phase[h] = "idle"
  /\ \E p \in Ports : listener[p] = Nil /\ port' = [port EXCEPT ![Current(h)] = p]
  /\ HarnessGoto(h, "picked")
  /\ UNCHANGED <<attempt, owned, round, found, goal, alive, listener, exits, liveness, troubles,
                 history>>

\* Mutant: the marker an earlier instance left on the port stays.
SpawnKeepingMarker(h) ==
  /\ phase[h] = "picked"
  /\ serverOpen' = serverOpen \cup {Current(h)}
  /\ alive' = alive \cup {Child(Current(h))}
  /\ HarnessGoto(h, "booting")
  /\ UNCHANGED <<attempt, owned, round, found, goal, port, listener, exits, watchdog, probes,
                 refusals, troubles, history>>

\* The liveness server listens, the marker of an older instance is cleared, then the child
\* is spawned.
Spawn(h) ==
  /\ phase[h] = "picked"
  /\ serverOpen' = serverOpen \cup {Current(h)}
  /\ marker' = [marker EXCEPT ![CdpPort(h)] = Nil]
  /\ alive' = alive \cup {Child(Current(h))}
  /\ HarnessGoto(h, "booting")
  /\ UNCHANGED <<attempt, owned, round, found, goal, port, listener, isKillExpected, exitPending,
                 watchdog, probes, refusals, troubles, history>>

\* waitForCdpReady: whatever serves the port will do.
CdpReady(h) ==
  /\ phase[h] = "booting" /\ listener[CdpPort(h)] # Nil
  /\ owned' = [owned EXCEPT ![h] = Current(h)]
  /\ HarnessGoto(h, "launched")
  /\ UNCHANGED <<attempt, round, found, goal, processes, exits, liveness, troubles, history>>

\* The synchronous part of kill and killAsync, for a purpose.
BeginKill(h, i, why) ==
  /\ isKillExpected' = isKillExpected \cup {i}
  /\ marker' = [marker EXCEPT ![port[i]] = Nil]
  /\ serverOpen' = serverOpen \ {i}
  /\ goal' = [goal EXCEPT ![h] = why]
  /\ HarnessGoto(h, "querying")

\* No CDP in time: the launch kills what it spawned and throws; nothing retries it.
CdpTimesOut(h) ==
  /\ phase[h] = "booting"
  /\ BeginKill(h, Current(h), "giveUp")
  /\ UNCHANGED <<attempt, owned, round, found, processes, exitPending, watchdog, probes, refusals,
                 troubles, history>>

-----------------------------------------------------------------------------
(* registerVaultInOwnedInstance, after the launch.                         *)

ServesItself(i) == listener[port[i]] \in {Child(i), Heir(i)}

\* The vault is found ready, by its path and so only in the instance itself; the watchdog
\* is armed, which may fail without failing the launch.
VaultReady(h) ==
  LET i == Current(h) IN
  /\ phase[h] = "launched" /\ ServesItself(i)
  /\ HarnessGoto(h, "up")
  /\ \/ watchdog' = [watchdog EXCEPT ![i] = "connecting"]
     \/ UNCHANGED watchdog
  /\ UNCHANGED <<attempt, owned, round, found, goal, processes, exits, serverOpen, probes,
                 refusals, troubles, history>>

\* Mutant: one attempt too many.
VaultNotReadyOnceMore(h) ==
  /\ phase[h] = "launched" /\ attempt[h] <= Attempts[h]
  /\ BeginKill(h, Current(h), "relaunch")
  /\ UNCHANGED <<attempt, owned, round, found, processes, exitPending, watchdog, probes, refusals,
                 troubles, history>>

\* It is not: another attempt, which begins by killing what runs.
VaultNotReady(h) ==
  /\ phase[h] = "launched" /\ attempt[h] < Attempts[h]
  /\ BeginKill(h, Current(h), "relaunch")
  /\ UNCHANGED <<attempt, owned, round, found, processes, exitPending, watchdog, probes, refusals,
                 troubles, history>>

\* The last attempt, or a failure another attempt would only repeat.
RegistrationThrows(h) ==
  /\ phase[h] = "launched"
  /\ HarnessGoto(h, "failed")
  /\ UNCHANGED <<attempt, owned, round, found, goal, processes, exits, liveness, troubles, history>>

-----------------------------------------------------------------------------
(* killAsync, and what follows it.                                         *)

\* Who serves the port of an instance; an heir that does not serve it yet is not seen.
OwnersOf(p) == {listener[p]} \ {Nil}

UnseenHeirs == {i \in Instances : Heir(i) \in alive /\ ~ServesItself(i)}

\* listOwnedInstancePortOwnerPidsAsync, which lists nobody when the query fails.
QueryOwners(h) ==
  /\ phase[h] = "querying"
  /\ unseen' = unseen \cup UnseenHeirs
  /\ HarnessGoto(h, "killing")
  /\ \/ /\ found' = [found EXCEPT ![h] = OwnersOf(CdpPort(h))]
        /\ UNCHANGED <<troubles, lapses>>
     \/ /\ Trouble
        /\ found' = [found EXCEPT ![h] = {}]
        /\ lapses' = lapses \cup {h}
  /\ UNCHANGED <<attempt, owned, round, goal, processes, exits, liveness, late>>

\* killProcessTreeByPidAsync of the child, and of the owners the query listed; a kill that
\* fails is logged.
Kill(h, victims) ==
  \/ Die(victims) /\ UNCHANGED <<troubles, lapses>>
  \/ Trouble /\ lapses' = lapses \cup {h} /\ UNCHANGED <<alive, listener, exitPending, watchdog>>

KillChild(h) ==
  /\ phase[h] = "killing"
  /\ Kill(h, {Child(Current(h))})
  /\ HarnessGoto(h, "reaping")
  /\ UNCHANGED <<attempt, owned, round, found, goal, port, isKillExpected, marker, serverOpen,
                 probes, refusals, unseen, late>>

\* What the kill was for goes on.
AfterKill(h) ==
  HarnessGoto(h, CASE goal[h] = "relaunch" -> "exiting"
            [] goal[h] = "giveUp"   -> "failed"
            [] goal[h] = "dispose"  -> "rechecking")

\* Mutant: the child is all there is to kill.
SpareOwners(h) ==
  /\ phase[h] = "reaping"
  /\ AfterKill(h)
  /\ found' = [found EXCEPT ![h] = {}]
  /\ UNCHANGED <<attempt, owned, round, goal, processes, exits, liveness, troubles, history>>

KillOwners(h) ==
  /\ phase[h] = "reaping"
  /\ Kill(h, found[h])
  /\ found' = [found EXCEPT ![h] = {}]
  /\ AfterKill(h)
  /\ UNCHANGED <<attempt, owned, round, goal, port, isKillExpected, marker, serverOpen, probes,
                 refusals, unseen, late>>

Relaunch(h) ==
  /\ HarnessGoto(h, "idle")
  /\ attempt' = [attempt EXCEPT ![h] = @ + 1]
  /\ owned' = [owned EXCEPT ![h] = Nil]

\* waitForInstanceExit: the port answers no more.
InstanceExited(h) ==
  /\ phase[h] = "exiting" /\ listener[CdpPort(h)] = Nil
  /\ Relaunch(h)
  /\ UNCHANGED <<round, found, goal, processes, exits, liveness, troubles, history>>

\* It still answers at the deadline: relaunch anyway, or fail when it answers too slowly.
ExitUnverified(h) ==
  /\ phase[h] = "exiting" /\ listener[CdpPort(h)] # Nil
  /\ lapses' = lapses \cup {h}
  /\ \/ Relaunch(h)
     \/ /\ HarnessGoto(h, "failed") /\ owned' = [owned EXCEPT ![h] = Nil]
        /\ UNCHANGED attempt
  /\ UNCHANGED <<round, found, goal, processes, exits, liveness, troubles, unseen, late>>

\* dispose: nothing is killed when the last launch threw.
DisposeInstance(h) ==
  /\ phase[h] \in {"up", "failed"}
  /\ IF owned[h] # Nil
     THEN BeginKill(h, owned[h], "dispose")
     ELSE HarnessGoto(h, "ended") /\ UNCHANGED <<isKillExpected, marker, serverOpen, goal>>
  /\ UNCHANGED <<attempt, owned, round, found, processes, exitPending, watchdog, probes, refusals,
                 troubles, history>>

\* killOwnedInstanceSurvivors, one round: whoever serves the port now is killed.
Recheck(h) ==
  LET survivors == OwnersOf(CdpPort(h)) IN
  /\ phase[h] = "rechecking"
  /\ unseen' = unseen \cup UnseenHeirs
  /\ IF survivors = {} \/ round[h] = RoundLimit
     THEN /\ HarnessGoto(h, "ended")
          /\ lapses' = IF survivors = {} THEN lapses ELSE lapses \cup {h}
          /\ UNCHANGED <<round, alive, listener, exitPending, watchdog, troubles>>
     ELSE /\ Kill(h, survivors)
          /\ round' = [round EXCEPT ![h] = @ + 1]
          /\ UNCHANGED phase
  /\ UNCHANGED <<attempt, owned, found, goal, port, isKillExpected, marker, serverOpen, probes,
                 refusals, late>>

-----------------------------------------------------------------------------
(* The harness ends.                                                       *)

\* Its servers and the connections to them close with the process; nobody handles exits.
ProcessEnds(h) ==
  /\ HarnessGoto(h, "dead")
  /\ serverOpen' = {i \in serverOpen : Harness(i) # h}

\* The process is killed, or ends after its disposal.
Crash(h) ==
  /\ phase[h] # "dead"
  /\ ProcessEnds(h)
  /\ UNCHANGED <<attempt, owned, round, found, goal, processes, exits, watchdog, probes, refusals,
                 troubles, history>>

\* disposeSync in the exit handler: it kills the instance that is recorded by then.
ExitWithInstance(h) ==
  /\ Running(h) /\ owned[h] # Nil
  /\ ProcessEnds(h)
  /\ isKillExpected' = isKillExpected \cup {owned[h]}
  /\ marker' = [marker EXCEPT ![port[owned[h]]] = Nil]
  /\ unseen' = unseen \cup UnseenHeirs
  /\ Kill(h, {Child(owned[h])} \cup OwnersOf(port[owned[h]]))
  /\ UNCHANGED <<attempt, owned, round, found, goal, port, probes, refusals, late>>

-----------------------------------------------------------------------------
(* Obsidian and the operating system.                                      *)

\* A process that boots takes the port when it is free, and runs without one otherwise.
Bind(q) ==
  LET p == port[Of(q)] IN
  /\ q \in alive /\ listener[p] = Nil
  /\ listener' = [listener EXCEPT ![p] = q]
  /\ UNCHANGED <<harness, port, alive, exits, liveness, troubles, history>>

\* The launched process exits, having started its successor.
HandOff(i) ==
  LET c == Child(i) IN
  /\ c \in alive /\ Heir(i) \notin alive
  /\ Trouble
  /\ alive' = (alive \ {c}) \cup {Heir(i)}
  /\ listener' = [p \in Ports |-> IF listener[p] = c THEN Nil ELSE listener[p]]
  /\ exitPending' = exitPending \cup {i}
  /\ watchdog' = [watchdog EXCEPT ![i] = "off"]
  /\ unseen' = IF phase[Harness(i)] \in {"killing", "reaping"} THEN unseen \cup {i} ELSE unseen
  /\ UNCHANGED <<harness, port, isKillExpected, marker, serverOpen, probes, refusals, lapses, late>>

\* An instance crashes, or its user quits it.
InstanceDies(q) ==
  /\ q \in alive
  /\ Trouble
  /\ Die({q})
  /\ UNCHANGED <<harness, port, isKillExpected, marker, serverOpen, probes, refusals, history>>

\* Mutants: an ordered death is recorded like any other; a quiet one is not recorded.
RecordAnyDeath(i) ==
  /\ i \in exitPending
  /\ exitPending' = exitPending \ {i}
  /\ marker' = IF phase[Harness(i)] # "dead" THEN [marker EXCEPT ![port[i]] = i] ELSE marker
  /\ UNCHANGED <<harness, processes, isKillExpected, liveness, troubles, history>>

RecordCrashOnly(i) ==
  /\ i \in exitPending
  /\ exitPending' = exitPending \ {i}
  /\ marker' \in {marker, IF i \in isKillExpected THEN marker ELSE [marker EXCEPT ![port[i]] = i]}
  /\ UNCHANGED <<harness, processes, isKillExpected, liveness, troubles, history>>

LaunchedLaterOn(p, i) ==
  {j \in Instances \ {i} : port[j] = p /\ (Child(j) \in alive \/ Heir(j) \in alive)}

\* The 'exit' handler: a death that was not ordered leaves the marker of its port.
HandleExit(i) ==
  /\ i \in exitPending
  /\ exitPending' = exitPending \ {i}
  /\ IF i \in isKillExpected \/ phase[Harness(i)] = "dead"
     THEN UNCHANGED <<marker, late>>
     ELSE /\ marker' = [marker EXCEPT ![port[i]] = i]
          /\ late' = IF LaunchedLaterOn(port[i], i) # {} THEN late \cup {port[i]} ELSE late
  /\ UNCHANGED <<harness, processes, isKillExpected, liveness, troubles, lapses, unseen>>

-----------------------------------------------------------------------------
(* The watchdog.                                                           *)

Listens(i) == i \in serverOpen

WatchdogConnects(i) ==
  /\ watchdog[i] = "connecting"
  /\ watchdog' = [watchdog EXCEPT ![i] = IF Listens(i) THEN "on" ELSE "off"]
  /\ UNCHANGED <<harness, processes, exits, serverOpen, probes, refusals, troubles, history>>

\* The connection closes: its harness is gone, or it was cut.  That only asks the question.
ConnectionCloses(i) ==
  /\ watchdog[i] = "on"
  /\ \/ phase[Harness(i)] = "dead" /\ UNCHANGED troubles
     \/ phase[Harness(i)] # "dead" /\ Trouble
  /\ watchdog' = [watchdog EXCEPT ![i] = "asking"]
  /\ probes' = [probes EXCEPT ![i] = 0]
  /\ UNCHANGED <<harness, processes, exits, serverOpen, refusals, history>>

\* reconnect() finds somebody listening: the harness, or whoever took its port over.
ProbeAnswered(i) ==
  /\ watchdog[i] = "asking"
  /\ \/ Listens(i) /\ watchdog' = [watchdog EXCEPT ![i] = "on"] /\ UNCHANGED troubles
     \/ ~Listens(i) /\ Trouble /\ watchdog' = [watchdog EXCEPT ![i] = "fooled"]
  /\ UNCHANGED <<harness, processes, exits, serverOpen, probes, refusals, history>>

\* Mutants: the first refusal is taken for the answer, or none ever is.
FirstRefusalDecides(i) == TRUE
RefusalsDecideNothing(i) == FALSE

LastProbe(i) == probes[i] + 1 = ProbeLimit

\* A probe is refused; the last one destroys the window, and the application quits.
ProbeRefused(i) ==
  /\ watchdog[i] = "asking" /\ probes[i] < ProbeLimit
  /\ IF Listens(i) THEN refusals < RefusalLimit /\ refusals' = refusals + 1
                   ELSE UNCHANGED refusals
  /\ IF LastProbe(i)
     THEN Die({Child(i), Heir(i)}) /\ UNCHANGED probes
     ELSE /\ probes' = [probes EXCEPT ![i] = @ + 1]
          /\ UNCHANGED <<alive, listener, exitPending, watchdog>>
  /\ UNCHANGED <<harness, port, isKillExpected, marker, serverOpen, troubles, history>>

-----------------------------------------------------------------------------
HarnessStep(h) ==
  \/ pickFreePort(h) \/ Spawn(h) \/ CdpReady(h) \/ CdpTimesOut(h)
  \/ VaultReady(h) \/ VaultNotReady(h) \/ RegistrationThrows(h)
  \/ QueryOwners(h) \/ KillChild(h) \/ KillOwners(h) \/ InstanceExited(h) \/ ExitUnverified(h)
  \/ DisposeInstance(h) \/ Recheck(h)

WatchdogStep(i) ==
  WatchdogConnects(i) \/ ConnectionCloses(i) \/ ProbeAnswered(i) \/ ProbeRefused(i)

InstanceNext ==
  \/ \E h \in Harnesses : HarnessStep(h) \/ Crash(h) \/ ExitWithInstance(h)
  \/ \E i \in Instances : WatchdogStep(i) \/ HandOff(i) \/ HandleExit(i)
  \/ \E q \in Processes : Bind(q) \/ InstanceDies(q)

-----------------------------------------------------------------------------
(* Properties.                                                             *)

Lives(i) == Child(i) \in alive \/ Heir(i) \in alive

\* A harness never has two instances on its user-data directory, and a disposed one has
\* none: an earlier attempt survives its kill only when a query or a kill failed, the exit
\* could not be verified, or an heir could not be seen when its owners were listed.
OneInstanceAtATime ==
  \A i \in Instances : LET h == Harness(i) IN
    Lives(i) =>
      \/ i[2] = attempt[h] /\ phase[h] # "ended"
      \/ h \in lapses \/ i \in unseen
      \/ phase[h] = "dead"

\* A marker on the port of an instance tells of a death of its own that nobody ordered, not
\* of one of an instance that had the port before, unless that one's exit was handled only
\* after the port had been given away (owned-instance-exit-marker.ts and launch, line 161).
MarkerTellsOfItsInstance ==
  \A i \in Instances : LET p == port[i] IN
    (Lives(i) /\ p # Nil /\ marker[p] # Nil /\ phase[Harness(i)] # "picked") =>
      \/ marker[p] = i /\ Child(i) \notin alive
      \/ p \in late

\* No marker convicts an instance that the harness ended itself.
OrderedDeathUnrecorded ==
  [][\A p \in Ports : marker'[p] # marker[p] /\ marker'[p] # Nil => marker'[p] \notin isKillExpected]_instanceVars

\* The watchdog ends no instance whose harness listens: a connection that was cut is taken
\* up again (parent-liveness.ts:158, "A close only asks the question").
HealthySpared ==
  [][\A i \in Instances :
       watchdog[i] = "asking" /\ Lives(i) /\ ~Lives(i)' /\ UNCHANGED <<harness, troubles>>
         => ~Listens(i)]_instanceVars

\* An instance whose watchdog is connected does not outlive its harness for long: the
\* watchdog stops asking only by ending the instance, unless a stranger took over the port of
\* the liveness server or the instance was handed to an heir.
OrphanEnds ==
  []<>(\A i \in Instances : phase[Harness(i)] = "dead" => watchdog[i] \notin {"on", "asking"})

\* A death nobody ordered is on record for the workers, which find the port silent: the
\* marker of the port names the instance, unless the port was given to another instance.
DeathIsOnRecord ==
  \A h \in Harnesses : LET i == Current(h) IN
    (phase[h] = "up" /\ ~Lives(i) /\ i \notin exitPending) =>
      marker[port[i]] = i \/ \E j \in Instances \ {i} : port[j] = port[i]

\* A port has one instance at a time, and what its marker says of it is true and complete.
InstanceInv == InstanceTypeOK /\ OneInstanceAtATime /\ MarkerTellsOfItsInstance /\ DeathIsOnRecord

\* Neither the watchdog nor the record of exits takes one death for another.
NoDeathMistaken == OrderedDeathUnrecorded /\ HealthySpared
=============================================================================
