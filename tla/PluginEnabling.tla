--------------------------- MODULE PluginEnabling ---------------------------
(***************************************************************************)
(* Plugins in the page of a vault: the global setup enables them one after *)
(* another, with retries (src/setup/global-setup-core.ts), then tests in   *)
(* workers reload them and look for leaks (src/plugin/plugin-lifecycle.ts).*)
(* An attempt is an execution of enablePluginWithErrorCapture in the page  *)
(* (src/plugin/enable-plugin.ts), at the grain of its awaits: it goes on   *)
(* when the host has given the evaluation up, and the retry is beside it.  *)
(*                                                                         *)
(* The plugin manager of Obsidian is external.  slot is what is patched    *)
(* over its loadPlugin, the last element on top: wrappers of attempts and  *)
(* the patches of plugins, which they remove when they are unloaded.       *)
(***************************************************************************)
EXTENDS Naturals, SequencesExt

CONSTANTS
  Plugins, NoPlugin,
  Patching,                (* the plugins that patch loadPlugin when they are loaded *)
  Enables, Reloads, Leaks, (* the jobs *)
  PluginOf,
  Tries,                   (* maxAttempts *)
  UpsetLimit               (* bound on lost loads, noise, lost evaluations and reloads of the page *)

Jobs == Enables \cup Reloads \cup Leaks

Attempts == Jobs \X (1..Tries)

(* A job is of one kind; a layer over loadPlugin is of an attempt or of a plugin. *)
ASSUME PluginAssumption ==
  /\ PluginOf \in [Jobs -> Plugins]
  /\ Enables \cap Reloads = {} /\ Enables \cap Leaks = {} /\ Reloads \cap Leaks = {}
  /\ IsFiniteSet(Plugins) /\ Attempts \cap Plugins = {}
  /\ NoPlugin \notin Plugins /\ Patching \subseteq Plugins
  /\ Tries \in Nat \ {0}
  /\ UpsetLimit \in Nat

VARIABLES
  nature,   (* of each plugin *)
  on,       (* community plugins are switched on *)
  enabled,  (* enabledPlugins *)
  loaded,   (* the keys of plugins *)
  slot,
  probe,    (* __obsidianIntegrationTestingLeakProbe: the plugin whose instance it refers to *)
  exec,     (* the executions in the page, and what they have heard *)
  job,      (* where a job stands; not every job is planned *)
  try,
  says,     (* what a job has reported *)
  loads,    (* history: how often a plugin was loaded *)
  atStart,  (* history: the same when a job began *)
  hit,      (* history: the attempts that trouble befell *)
  crossed,  (* history: jobs beside which another execution ran in the page *)
  unheard,  (* history: jobs whose plugin got its instance where no attempt they awaited heard of it *)
  upsets

manager == <<on, enabled, loaded, slot, loads>>
hosts == <<job, try, says>>
pluginMarks == <<atStart, hit, crossed, unheard>>
pluginVars == <<nature, manager, probe, exec, hosts, pluginMarks, upsets>>

(* What throws when it is loaded leaves its instance, which was stored before; what is stillborn,
   its main.js having thrown or exported nothing, has none (plugin-lifecycle.ts:121). *)
Natures == {"sound", "leaky", "throwing", "stillborn"}
Loadable(p) == nature[p] \in {"sound", "leaky"}
Unbegun == {"unplanned", "idle"}
Settled == {"done", "failed"}
NoExec == [step |-> "none", err |-> FALSE, noise |-> FALSE]

PluginTypeOK ==
  /\ nature \in [Plugins -> Natures]
  /\ on \in BOOLEAN /\ enabled \subseteq Plugins /\ loaded \subseteq Plugins
  /\ slot \in Seq(Attempts \cup Plugins)
  /\ probe \in Plugins \cup {NoPlugin}
  /\ exec \in [Attempts -> [step : {"none", "switch", "reset", "patch", "load", "finish"},
                            err : BOOLEAN, noise : BOOLEAN]]
  /\ job \in [Jobs -> {"unplanned", "idle", "collect", "clear", "asked", "asleep"} \cup Settled]
  /\ try \in [Jobs -> 0..Tries]
  /\ says \in [Jobs -> {"nothing", "loaded", "threw", "not-loaded", "clean", "leaked", "broken-off"}]
  /\ loads \in [Plugins -> Nat] /\ atStart \in [Jobs -> Nat]
  /\ hit \in [Jobs -> SUBSET (0..Tries)]
  /\ crossed \subseteq Jobs /\ unheard \subseteq Jobs
  /\ upsets \in 0..UpsetLimit

(* What is listed is loaded, but for what has no instance and for loads that are lost, as happens
   on a guest that has just booted. *)
Starts == SUBSET {p \in enabled : nature[p] # "stillborn"}

JobsOf(ps) == {j \in Jobs : PluginOf[j] \in ps}

(* The vault is open.  It may list plugins: by default the one under test, which Obsidian has then
   loaded with it, if it trusts the vault already. *)
PluginInit ==
  /\ nature \in [Plugins -> Natures]
  /\ on \in BOOLEAN /\ enabled \in SUBSET Plugins
  /\ loaded \in IF on THEN Starts ELSE {{}}
  /\ slot = SetToSeq(loaded \cap Patching) /\ probe = NoPlugin
  /\ exec = [x \in Attempts |-> NoExec]
  /\ job \in [Jobs -> {"unplanned", "idle"}]
  /\ try = [j \in Jobs |-> 0] /\ says = [j \in Jobs |-> "nothing"]
  /\ loads = [p \in Plugins |-> IF p \in loaded THEN 1 ELSE 0] /\ atStart = [j \in Jobs |-> 0]
  /\ hit = [j \in Jobs |-> {}] /\ crossed = {} /\ unheard = JobsOf(loaded)
  /\ upsets = 0

Upset ==
  /\ upsets < UpsetLimit
  /\ upsets' = upsets + 1

Running(j) == \E i \in 1..Tries : exec[<<j, i>>].step # "none"

Awaited(x) == job[x[1]] = "asked" /\ try[x[1]] = x[2]

Underway(j) == Running(j) \/ job[j] \in {"collect", "clear", "asked"}

(* j is about to run something in the page. *)
Crosses(j) ==
  LET others == {k \in Jobs \ {j} : Underway(k)} IN
  crossed' = crossed \cup others \cup (IF others # {} \/ Running(j) THEN {j} ELSE {})

----------------------------------------------------------------------------
(* An execution x of enablePluginWithErrorCapture. *)

Step(x, from, to) ==
  /\ exec[x].step = from
  /\ exec' = [exec EXCEPT ![x].step = to]

PageOnly == UNCHANGED <<nature, probe, hosts, pluginMarks>>

(* The plugins in ps are loaded where none was. *)
Start(ps) ==
  /\ loaded' = ps
  /\ loads' = [p \in Plugins |-> IF p \in ps THEN loads[p] + 1 ELSE loads[p]]
  /\ slot' = SetToSeq(ps \cap Patching)
  /\ unheard' = unheard \cup JobsOf(ps)

(* Switched on, Obsidian loads what is listed. *)
SwitchOn(x) ==
  /\ Step(x, "switch", "reset")
  /\ on' = TRUE
  /\ IF on THEN UNCHANGED <<loaded, slot, loads, unheard>> ELSE \E ps \in Starts : Start(ps)
  /\ UNCHANGED <<nature, enabled, probe, hosts, atStart, hit, crossed, upsets>>

(* Mutant: a plugin that is enabled but not loaded is enabled as it is. *)
AsItIs(p) == enabled

Disabled(p) == IF p \in enabled \ loaded THEN enabled \ {p} ELSE enabled

Reset(x) ==
  /\ Step(x, "reset", "patch")
  /\ enabled' = Disabled(PluginOf[x[1]])
  /\ PageOnly /\ UNCHANGED <<on, loaded, slot, loads, upsets>>

(* The wrapper is put over what is in the slot, and the enabling begins. *)
PatchLoadPlugin(x) ==
  /\ Step(x, "patch", "load")
  /\ slot' = Append(slot, x)
  /\ PageOnly /\ UNCHANGED <<on, enabled, loaded, loads, upsets>>

(* The attempts whose wrappers are in the chain of calls that begins with the wrapper of x: a
   wrapper does not ask whose load it hears of. *)
Hearers(x) == {y \in Attempts : \E i, k \in DOMAIN slot : i <= k /\ slot[i] = y /\ slot[k] = x}

Heard(x, isError) ==
  exec' = [y \in Attempts |-> LET e == IF y \in Hearers(x) THEN [exec[y] EXCEPT !.err = isError] ELSE exec[y]
                              IN IF y = x THEN [e EXCEPT !.step = "finish"] ELSE e]

(* What Obsidian makes of it: a plugin that is loaded is left alone, one that is listed may be; it
   becomes an instance and patches what it patches, then throws or not; it has no instance to give;
   or the load is lost. *)
EnablePluginAndSave(x) ==
  LET p == PluginOf[x[1]] IN
  /\ exec[x].step = "load"
  /\ enabled' = enabled \cup {p}
  /\ \/ /\ p \in loaded \cup enabled
        /\ Step(x, "load", "finish")
        /\ UNCHANGED <<loaded, slot, loads, hit, unheard, upsets>>
     \/ /\ p \notin loaded /\ nature[p] # "stillborn"
        /\ Heard(x, nature[p] = "throwing")
        /\ loaded' = loaded \cup {p}
        /\ loads' = [loads EXCEPT ![p] = @ + 1]
        /\ slot' = IF p \in Patching THEN Append(slot, p) ELSE slot
        /\ unheard' = unheard \cup {j \in JobsOf({p}) : j # x[1] \/ ~Awaited(x)}
        /\ UNCHANGED <<hit, upsets>>
     \/ /\ p \notin loaded /\ nature[p] = "stillborn"
        /\ Heard(x, TRUE)
        /\ UNCHANGED <<loaded, slot, loads, hit, unheard, upsets>>
     \/ /\ p \notin loaded
        /\ Upset
        /\ Step(x, "load", "finish")
        /\ hit' = [hit EXCEPT ![x[1]] = @ \cup {x[2]}]
        /\ UNCHANGED <<loaded, slot, loads, unheard>>
  /\ UNCHANGED <<nature, probe, on, hosts, atStart, crossed>>

(* Mutant: the slot gets what the wrapper was put over, whatever is on it now. *)
Unconditionally(x) ==
  IF \E i \in DOMAIN slot : slot[i] = x
  THEN SubSeq(slot, 1, (CHOOSE i \in DOMAIN slot : slot[i] = x) - 1) ELSE slot

(* Mutant: what failed leaves its wrapper. *)
AfterSuccess(x) == IF exec[x].err \/ slot = <<>> \/ Last(slot) # x THEN slot ELSE Front(slot)

RestoreLoadPlugin(x) == IF slot # <<>> /\ Last(slot) = x THEN Front(slot) ELSE slot

(* Mutant: being listed is enough. *)
Listed(p) == p \in enabled

IsLoaded(p) == p \in loaded

----------------------------------------------------------------------------
(* The host: what it makes of a result, and of an evaluation that failed. *)

(* Mutant: the attempts are not counted. *)
SameTry(j) == try[j]

NextTry(j) == try[j] + 1

Asks(j, i) ==
  /\ job' = [job EXCEPT ![j] = "asked"]
  /\ try' = [try EXCEPT ![j] = i]
  /\ exec' = [exec EXCEPT ![<<j, i>>] = [NoExec EXCEPT !.step = "switch"]]

(* Where a job goes when the attempt threw, or was in vain without a cause. *)
InVain(j) == IF j \in Enables /\ try[j] < Tries THEN "asleep" ELSE "failed"

shouldRetryPluginEnable(isLoaded, err, noise) == ~isLoaded /\ ~err /\ ~noise

(* Mutant: an instance is enough. *)
AsLoaded(j, isLoaded, err, noise) ==
  IF j \in Reloads \/ isLoaded THEN "done"
  ELSE IF j \in Enables /\ shouldRetryPluginEnable(isLoaded, err, noise) THEN InVain(j)
  ELSE "failed"

(* What the console showed counts when nothing else tells. *)
AfterResult(j, isLoaded, err, noise) ==
  IF j \in Reloads THEN "done"
  ELSE IF isLoaded /\ ~err THEN IF says[j] = "broken-off" THEN "failed" ELSE "done"
  ELSE IF j \in Enables /\ shouldRetryPluginEnable(isLoaded, err, noise) THEN InVain(j)
  ELSE "failed"

(* What reloadPlugin returns: isLoaded and, beside it or not, an errorMessage. *)
Report(isLoaded, err) == IF ~isLoaded THEN "not-loaded" ELSE IF err THEN "threw" ELSE "loaded"

Finish(x) ==
  LET j == x[1]
      isLoaded == IsLoaded(PluginOf[j])
  IN
  /\ exec[x].step = "finish"
  /\ exec' = [exec EXCEPT ![x] = NoExec]
  /\ slot' = RestoreLoadPlugin(x)
  /\ IF Awaited(x)
     THEN /\ job' = [job EXCEPT ![j] = AfterResult(j, isLoaded, exec[x].err, exec[x].noise)]
          /\ says' = IF j \in Reloads THEN [says EXCEPT ![j] = Report(isLoaded, exec[x].err)] ELSE says
     ELSE UNCHANGED <<job, says>>
  /\ UNCHANGED <<nature, on, enabled, loaded, loads, probe, try, pluginMarks, upsets>>

(* The setup enables one plugin after another; the tests start when it is done. *)
SetupEnables(j) ==
  /\ job[j] = "idle"
  /\ \A k \in Enables \ {j} : job[k] \in {"unplanned", "idle", "done"}
  /\ Asks(j, 1) /\ Crosses(j)
  /\ UNCHANGED <<nature, manager, probe, says, atStart, hit, unheard, upsets>>

Retries(j) ==
  /\ job[j] = "asleep"
  /\ Asks(j, NextTry(j)) /\ Crosses(j)
  /\ UNCHANGED <<nature, manager, probe, says, atStart, hit, unheard, upsets>>

(* The evaluation has run out of its time, and goes on in the page; or it has not reached it. *)
EvalCapped(j) ==
  /\ job[j] = "asked"
  /\ \/ UNCHANGED exec
     \/ Step(<<j, try[j]>>, "switch", "none")
  /\ job' = [job EXCEPT ![j] = InVain(j)]
  /\ hit' = [hit EXCEPT ![j] = @ \cup {try[j]}]
  /\ unheard' = IF PluginOf[j] \in loaded THEN unheard \cup {j} ELSE unheard
  /\ UNCHANGED <<nature, manager, probe, try, says, atStart, crossed, upsets>>

----------------------------------------------------------------------------
(* reloadPlugin and detectPluginUnloadLeak. *)

Begins(j) ==
  /\ job[j] = "idle"
  /\ \A k \in Enables : job[k] \in {"unplanned", "done"}
  /\ atStart' = [atStart EXCEPT ![j] = loads[PluginOf[j]]]
  /\ unheard' = unheard \ {j}
  /\ Crosses(j)

(* Mutant: a plugin is reloaded by enabling it. *)
StaysLoaded(p) == UNCHANGED <<loaded, slot>>

(* The place of the plugin's own patch among those in force. *)
PatchOf(p) == CHOOSE i \in DOMAIN slot : slot[i] = p

(* The plugin is unloaded and takes its patch off; it stays listed. *)
DisablePlugin(p) ==
  /\ loaded' = loaded \ {p}
  /\ slot' = IF p \in ToSet(slot) THEN RemoveAt(slot, PatchOf(p)) ELSE slot

reloadPlugin(j) ==
  /\ Begins(j)
  /\ DisablePlugin(PluginOf[j])
  /\ Asks(j, 1)
  /\ UNCHANGED <<nature, on, enabled, loads, probe, says, hit, upsets>>

(* Mutant: the instance is looked up when it is disabled already. *)
TooLate(p) == NoPlugin

InstanceOf(p) == p

(* The instance is watched and disabled; there has to be one. *)
detectPluginUnloadLeak(j) ==
  LET p == PluginOf[j] IN
  /\ Begins(j)
  /\ IF p \in loaded
     THEN probe' = InstanceOf(p) /\ DisablePlugin(p) /\ job' = [job EXCEPT ![j] = "collect"]
     ELSE job' = [job EXCEPT ![j] = "failed"] /\ UNCHANGED <<probe, loaded, slot>>
  /\ UNCHANGED <<nature, on, enabled, loads, exec, try, says, hit, upsets>>

(* The collections, to the last one or to the first that took the instance; or they break off. *)
Collects(j) ==
  /\ job[j] = "collect"
  /\ \/ /\ says' = [says EXCEPT ![j] =
                      IF probe # NoPlugin /\ nature[probe] = "leaky" THEN "leaked" ELSE "clean"]
        /\ UNCHANGED <<hit, upsets>>
     \/ /\ Upset
        /\ says' = [says EXCEPT ![j] = "broken-off"]
        /\ hit' = [hit EXCEPT ![j] = @ \cup {0}]
  /\ job' = [job EXCEPT ![j] = "clear"]
  /\ UNCHANGED <<nature, manager, probe, exec, try, atStart, crossed, unheard>>

(* In any case the probe is cleared and the plugin enabled again. *)
ClearsProbe(j) ==
  /\ job[j] = "clear"
  /\ probe' = NoPlugin
  /\ Asks(j, 1) /\ Crosses(j)
  /\ UNCHANGED <<nature, manager, says, atStart, hit, unheard, upsets>>

(* An evaluation of the host fails; what it was to do in the page may be done. *)
EvalFails(j) ==
  /\ Upset
  /\ \/ /\ job[j] = "clear" /\ probe' \in {probe, NoPlugin}
        /\ UNCHANGED <<loaded, slot, atStart, crossed, unheard>>
     \/ /\ j \in Reloads /\ Begins(j) /\ UNCHANGED probe
        /\ DisablePlugin(PluginOf[j]) \/ UNCHANGED <<loaded, slot>>
  /\ job' = [job EXCEPT ![j] = "failed"]
  /\ hit' = [hit EXCEPT ![j] = @ \cup {0}]
  /\ UNCHANGED <<nature, on, enabled, loads, exec, try, says>>

----------------------------------------------------------------------------
(* The page. *)

(* Something else in it writes to the console, which every attempt captures while it is patched. *)
Noise ==
  LET listening == {x \in Attempts : exec[x].step \in {"load", "finish"}} IN
  /\ listening # {}
  /\ Upset
  /\ exec' = [x \in Attempts |-> IF x \in listening THEN [exec[x] EXCEPT !.noise = TRUE] ELSE exec[x]]
  /\ hit' = [j \in Jobs |-> IF \E x \in listening : x[1] = j THEN hit[j] \cup {0} ELSE hit[j]]
  /\ UNCHANGED <<nature, manager, probe, hosts, atStart, crossed, unheard>>

(* It is loaded anew, and Obsidian loads what is listed. *)
PageReloads ==
  LET busy == {j \in Jobs : Underway(j) \/ job[j] = "asleep"} IN
  /\ busy # {}
  /\ Upset
  /\ exec' = [x \in Attempts |-> NoExec]
  /\ \E ps \in IF on THEN Starts ELSE {{}} : Start(ps)
  /\ probe' = NoPlugin
  /\ job' = [j \in Jobs |-> IF job[j] = "asked" THEN InVain(j) ELSE job[j]]
  /\ hit' = [j \in Jobs |-> IF j \in busy THEN hit[j] \cup {0, try[j]} ELSE hit[j]]
  /\ UNCHANGED <<nature, on, enabled, try, says, atStart, crossed>>

JobStep(j) ==
  \/ (j \in Enables /\ SetupEnables(j)) \/ Retries(j) \/ EvalCapped(j)
  \/ (j \in Reloads /\ reloadPlugin(j))
  \/ (j \in Leaks /\ detectPluginUnloadLeak(j)) \/ Collects(j) \/ ClearsProbe(j)

ExecStep(x) ==
  SwitchOn(x) \/ Reset(x) \/ PatchLoadPlugin(x) \/ EnablePluginAndSave(x) \/ Finish(x)

PageStep ==
  (\E x \in Attempts : ExecStep(x)) \/ (\E j \in Jobs : EvalFails(j)) \/ Noise \/ PageReloads

----------------------------------------------------------------------------
(* A plugin that patched loadPlugin when it was loaded keeps its patch, though the wrapper it lies
   over is taken off at that very time (enable-plugin.ts:171). *)
PatchesKept == loaded \cap Patching \subseteq ToSet(slot)

(* No wrapper stays behind but under the patch of the plugin it saw loaded, unless attempts
   overlapped in the page (enable-plugin.ts:181). *)
WrappersUndone ==
  \A x \in ToSet(slot) \cap Attempts :
    exec[x].step = "none" => x[1] \in crossed \/ PluginOf[x[1]] \in Patching

(* The setup takes no plugin for enabled, and a detection none for loaded again, that has no
   instance, whatever an attempt hears beside it; nor one that threw when it was loaded, unless it
   was with the vault or the page, in an attempt that was given up or beside another, so that no
   attempt whose result counts heard it (global-setup-core.ts:836). *)
EnabledMeansLoaded ==
  \A j \in Enables \cup Leaks :
    job[j] = "done" =>
      Loadable(PluginOf[j]) \/ (nature[PluginOf[j]] = "throwing" /\ j \in crossed \cup unheard)

(* A plugin that can be loaded is, unless each attempt met with trouble of its own, the console
   showed something else, or attempts overlapped (enable-plugin.ts:94). *)
RetriesHeal ==
  \A j \in Enables :
    job[j] = "failed" /\ Loadable(PluginOf[j])
      => 1..Tries \subseteq hit[j] \/ 0 \in hit[j] \/ j \in crossed

(* A reload that reports the plugin loaded has loaded it once more, and it did not throw where the
   reload could hear it; left alone, it reports a plugin that can be loaded as loaded and one that
   throws as what it is (plugin-lifecycle.ts:256). *)
ReloadsLoad ==
  \A j \in Reloads :
    LET p == PluginOf[j] IN
    job[j] = "done" =>
      /\ says[j] \in {"loaded", "threw"} => loads[p] > atStart[j]
      /\ says[j] = "loaded" => Loadable(p) \/ j \in crossed \cup unheard
      /\ Loadable(p) => says[j] = "loaded" \/ hit[j] # {} \/ j \in crossed
      /\ nature[p] = "throwing" => says[j] = "threw" \/ hit[j] # {} \/ j \in crossed \cup unheard

(* A plugin that leaks is not reported clean, unless a reload or another detection took the probe
   away (plugin-lifecycle.ts:175). *)
LeaksSeen ==
  \A j \in Leaks :
    job[j] = "done" /\ says[j] = "clean"
      => nature[PluginOf[j]] # "leaky" \/ 0 \in hit[j] \/ j \in crossed

(* However attempts are lost, capped and repeated beside each other in one page, what the jobs
   report of a plugin is so, and the page keeps what is not theirs. *)
PluginInv ==
  /\ PluginTypeOK /\ PatchesKept /\ WrappersUndone /\ EnabledMeansLoaded
  /\ RetriesHeal /\ ReloadsLoad /\ LeaksSeen

Busy == {j \in Jobs : job[j] \notin Unbegun \cup Settled}
=============================================================================
