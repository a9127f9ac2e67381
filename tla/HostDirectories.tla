-------------------------- MODULE HostDirectories --------------------------
(***************************************************************************)
(* What the desktop setups of a machine share on its disk, as nothing      *)
(* serializes them: the temporary root, in which each makes a vault and a  *)
(* user-data directory and sweeps what earlier runs have left              *)
(* (src/setup/leftover-cleanup.ts, src/setup/global-setup-core.ts,         *)
(* src/desktop/connect-to-cdp.ts), and the caches of downloaded shells and *)
(* asars (src/desktop/versions/).                                          *)
(*                                                                         *)
(* Time is counted in units of which an age gate has a few.  Names of      *)
(* directories are not given twice, so that a directory is known by the    *)
(* setup that made it and its root.                                        *)
(***************************************************************************)
EXTENDS Naturals

CONSTANTS
  Setups,      (* the setups of the machine *)
  Sweepers,    (* those with shouldSweepLeftovers *)
  Sessions,    (* those made by connectToCdp, which is on no books *)
  ProcessOf,   (* the process of a setup *)
  Needs,       (* what a setup has to find in the caches *)
  MaxAge,      (* leftoverMaxAgeInMilliseconds of a setup *)
  Livened,     (* bound on the directories in whose top something is made later on *)
  Horizon,     (* bound on the time *)
  FaultLimit   (* bound on kills, failing downloads, extractions and removals *)

Artifacts == {"shell", "asar"}

(* The roots, in the order in which they are swept. *)
Roots == <<"vault", "userdata">>
Directories == Setups \X {"vault", "userdata"}
Owner(d) == d[1]
Root(d) == d[2]

ASSUME DirectoriesAssumption ==
  /\ Sessions \cup Sweepers \subseteq Setups
  /\ \A s \in Setups : Needs[s] \subseteq Artifacts /\ MaxAge[s] \in Nat
  /\ Livened \subseteq Directories
  /\ {Horizon, FaultLimit} \subseteq Nat

VARIABLES
  now,
  stage,       (* where a setup stands *)
  got,         (* the artifacts it has been given the path of *)
  written,     (* the directories there are: when something was last made in their top *)
  sweep,       (* the sweep of a setup: its root, what it is still to look at, when it began, what it
                  failed to remove, what it excludes, and (history) what was on the books then *)
  active,      (* activeSetups of the processes *)
  cache,       (* of an artifact *)
  made,        (* history: when a setup made its directories *)
  lost,        (* history: what the sweep of another has taken from a setup in use *)
  cut,         (* history: artifacts whose extraction or writing was broken off *)
  faults

directoriesVars == <<now, stage, got, written, sweep, active, cache, made, lost, cut, faults>>

Gone == Horizon + 1
NoSweep == [root |-> 0, left |-> {}, from |-> 0, failed |-> {}, excluded |-> {}, books |-> {}]
InUse == {"launch", "up"}
SettingUp == {"sweep", "fetch", "download", "unpack", "launch"}
SetupsOver == {"done", "failed", "dead"}

DirectoriesTypeOK ==
  /\ now \in 0..Horizon /\ faults \in 0..FaultLimit
  /\ stage \in [Setups -> {"idle", "dispose", "close", "last-sweep"} \cup SettingUp \cup InUse \cup SetupsOver]
  /\ got \in [Setups -> SUBSET Artifacts]
  /\ written \in [Directories -> 0..Gone]
  /\ sweep \in [Setups -> [root : 0..3, left : SUBSET Directories, from : 0..Horizon,
                          failed : SUBSET Directories, excluded : SUBSET Setups, books : SUBSET Setups]]
  /\ active \subseteq Setups \ Sessions
  /\ cache \in [Artifacts -> {"none", "begun", "part", "whole"}]
  /\ made \in [Setups -> 0..Horizon]
  /\ lost \subseteq [dir : Directories, by : Setups, age : 0..Horizon, books : BOOLEAN]
  /\ cut \subseteq Artifacts

DirectoriesInit ==
  /\ now = 0
  /\ stage = [s \in Setups |-> "idle"] /\ got = [s \in Setups |-> {}]
  /\ written = [d \in Directories |-> Gone]
  /\ sweep = [s \in Setups |-> NoSweep]
  /\ active = {}
  /\ cache \in {[a \in Artifacts |-> c] : c \in {"none", "whole"}}
  /\ made = [s \in Setups |-> 0]
  /\ lost = {} /\ cut = {}
  /\ faults = 0

At(s, where) == stage[s] = where

SetupGoto(s, where) == stage' = [stage EXCEPT ![s] = where]

Fault ==
  /\ faults < FaultLimit
  /\ faults' = faults + 1

----------------------------------------------------------------------------
(* sweepHostLeftovers: of each root the names that are not excluded, and of these the old ones.  A
   directory that was not old when the sweep began will not be: to look at it changes nothing. *)

Sweeping(s) == At(s, "sweep") \/ At(s, "last-sweep")

(* Mutant: whoever tears a setup down excludes its own vault. *)
ItsOwnName(s) == {s}

(* The vaults of the setups that the process is still to tear down; nothing where one begins. *)
excludedNames(s) == IF At(s, "last-sweep") THEN {t \in active : ProcessOf[t] = ProcessOf[s]} ELSE {}

(* What is excluded are names of vaults, of which there are none in the other root. *)
Listing(root, excluded) ==
  {d \in Directories : written[d] # Gone /\ Root(d) = Roots[root] /\ ~(Root(d) = "vault" /\ Owner(d) \in excluded)}

BeginSweep(s) ==
  /\ Sweeping(s) /\ sweep[s].root = 0
  /\ sweep' = [sweep EXCEPT ![s] = [root |-> 1, left |-> Listing(1, excludedNames(s)), from |-> now,
                                   failed |-> {}, excluded |-> excludedNames(s), books |-> active]]
  /\ UNCHANGED <<now, stage, got, written, active, cache, made, lost, cut, faults>>

(* Mutant: a directory that was made in the unit before is old. *)
OffByOne(d, s) == MaxAge[s] = 0 \/ written[d] + MaxAge[s] <= sweep[s].from + 1

checkIsLeftoverStale(d, s) == MaxAge[s] = 0 \/ written[d] + MaxAge[s] <= sweep[s].from

checkIsRemovableDirectory(d, s) == written[d] # Gone /\ checkIsLeftoverStale(d, s)

NextRoot(s) ==
  /\ sweep[s].root \in 1..2
  /\ \A d \in sweep[s].left : ~checkIsRemovableDirectory(d, s)
  /\ sweep' = [sweep EXCEPT ![s].root = @ + 1,
                           ![s].left = IF sweep[s].root = 2 THEN {} ELSE Listing(2, sweep[s].excluded)]
  /\ UNCHANGED <<now, stage, got, written, active, cache, made, lost, cut, faults>>

(* Mutant: a removal that fails ends the loop. *)
NoOther(d, left) == {}

LeftAfterFailure(d, left) == left \ {d}

(* An old directory is removed; that may fail, as where a process holds it. *)
sweepHostLeftovers(d, s) ==
  /\ d \in sweep[s].left /\ checkIsRemovableDirectory(d, s)
  /\ \/ /\ sweep' = [sweep EXCEPT ![s].left = @ \ {d}]
        /\ written' = [written EXCEPT ![d] = Gone]
        /\ lost' = lost \cup {[dir |-> d, by |-> s, age |-> now - made[t],
                               books |-> At(s, "last-sweep") /\ t \in sweep[s].books] :
                              t \in {t \in {Owner(d)} : stage[t] \in InUse}}
        /\ UNCHANGED faults
     \/ /\ Fault
        /\ sweep' = [sweep EXCEPT ![s].left = LeftAfterFailure(d, @), ![s].failed = @ \cup {d}]
        /\ UNCHANGED <<written, lost>>
  /\ UNCHANGED <<now, stage, got, active, cache, made, cut>>

Swept(s) ==
  /\ sweep[s].root = 3
  /\ sweep' = [sweep EXCEPT ![s] = NoSweep]
  /\ SetupGoto(s, IF At(s, "sweep") THEN "fetch" ELSE "done")
  /\ UNCHANGED <<now, got, written, active, cache, made, lost, cut, faults>>

----------------------------------------------------------------------------
(* A setup up to its transport: ensureShellCached, ensureAsarCached. *)

(* A runner sets its projects up one after another. *)
BeginSetup(s) ==
  /\ At(s, "idle") /\ ~\E t \in Setups : ProcessOf[t] = ProcessOf[s] /\ stage[t] \in SettingUp
  /\ SetupGoto(s, IF s \in Sweepers THEN "sweep" ELSE "fetch")
  /\ UNCHANGED <<now, got, written, sweep, active, cache, made, lost, cut, faults>>

Missing(s) == Needs[s] \ got[s]

(* The shell first. *)
Wanted(s) == IF "shell" \in Missing(s) THEN "shell" ELSE "asar"

(* Mutant: the directory of a version stands for its shell. *)
HasDirectory(a) == cache[a] # "none"

(* existsSync of the executable, or of the asar. *)
Exists(a) == cache[a] \in {"part", "whole"}

(* What is there is taken; for what is not a directory is made, and it is downloaded. *)
LookUp(s) ==
  /\ At(s, "fetch") /\ Missing(s) # {}
  /\ LET a == Wanted(s) IN
     IF Exists(a) THEN got' = [got EXCEPT ![s] = @ \cup {a}] /\ UNCHANGED <<stage, cache>>
     ELSE /\ SetupGoto(s, "download")
          /\ cache' = IF a = "shell" THEN [cache EXCEPT ![a] = "begun"] ELSE cache
          /\ UNCHANGED got
  /\ UNCHANGED <<now, written, sweep, active, made, lost, cut, faults>>

DownloadEnds(s) ==
  /\ At(s, "download")
  /\ \/ SetupGoto(s, "unpack") /\ UNCHANGED faults
     \/ Fault /\ SetupGoto(s, "failed")
  /\ UNCHANGED <<now, got, written, sweep, active, cache, made, lost, cut>>

Unpacking(a) == {t \in Setups : At(t, "unpack") /\ Wanted(t) = a}

(* Extraction, or the writing of a file: from some moment on what is to be there exists, in part. *)
UnpackAdvances(s) ==
  /\ At(s, "unpack") /\ cache[Wanted(s)] # "part"
  /\ cache' = [cache EXCEPT ![Wanted(s)] = "part"]
  /\ UNCHANGED <<now, stage, got, written, sweep, active, made, lost, cut, faults>>

(* It is whole unless another is at it as well; one that fails leaves what there is. *)
UnpackEnds(s) ==
  LET a == Wanted(s) IN
  /\ At(s, "unpack")
  /\ \/ /\ cache[a] \in {"part", "whole"}
        /\ cache' = [cache EXCEPT ![a] = IF Unpacking(a) = {s} THEN "whole" ELSE "part"]
        /\ got' = [got EXCEPT ![s] = @ \cup {a}]
        /\ SetupGoto(s, "fetch")
        /\ UNCHANGED <<cut, faults>>
     \/ /\ Fault
        /\ SetupGoto(s, "failed")
        /\ cut' = cut \cup {a}
        /\ UNCHANGED <<cache, got>>
  /\ UNCHANGED <<now, written, sweep, active, made, lost>>

(* createOwnedUserDataDirectory, and the vault. *)
MakeDirectories(s) ==
  /\ At(s, "fetch") /\ Missing(s) = {}
  /\ written' = [d \in Directories |-> IF Owner(d) = s THEN now ELSE written[d]]
  /\ made' = [made EXCEPT ![s] = now]
  /\ SetupGoto(s, "launch")
  /\ UNCHANGED <<now, got, sweep, active, cache, lost, cut, faults>>

(* The registration makes what it writes into, if need be; the setup is on the books when it is over. *)
RegisterSetup(s) ==
  /\ At(s, "launch")
  /\ \/ /\ written' = [written EXCEPT ![<<s, "userdata">>] = now]
        /\ SetupGoto(s, "up")
        /\ active' = active \cup ({s} \ Sessions)
        /\ UNCHANGED faults
     \/ Fault /\ SetupGoto(s, "dispose") /\ UNCHANGED <<written, active>>
  /\ UNCHANGED <<now, got, sweep, cache, made, lost, cut>>

(* A test, or Obsidian, makes something in the top of a directory. *)
Writes(d) ==
  /\ d \in Livened /\ stage[Owner(d)] = "up" /\ written[d] \notin {now, Gone}
  /\ written' = [written EXCEPT ![d] = now]
  /\ UNCHANGED <<now, stage, got, sweep, active, cache, made, lost, cut, faults>>

----------------------------------------------------------------------------
(* The teardown: the vault, the transport with its user-data directory, the sweep. *)

BeginTeardown(s) ==
  /\ At(s, "up")
  /\ SetupGoto(s, "dispose")
  /\ UNCHANGED <<now, got, written, sweep, active, cache, made, lost, cut, faults>>

Removes(d) ==
  \/ written' = [written EXCEPT ![d] = Gone] /\ UNCHANGED faults
  \/ Fault /\ UNCHANGED written

DisposeVault(s) ==
  /\ At(s, "dispose")
  /\ Removes(<<s, "vault">>)
  /\ SetupGoto(s, "close")
  /\ UNCHANGED <<now, got, sweep, active, cache, made, lost, cut>>

(* A setup that failed has nothing more to do, and a session sweeps at its start only. *)
DisposeTransport(s) ==
  /\ At(s, "close")
  /\ Removes(<<s, "userdata">>)
  /\ active' = active \ {s}
  /\ SetupGoto(s, IF s \in active \cap Sweepers THEN "last-sweep" ELSE "done")
  /\ UNCHANGED <<now, got, sweep, cache, made, lost, cut>>

----------------------------------------------------------------------------

(* A process is killed, with what it was doing. *)
KillProcess(p) ==
  LET ours == {s \in Setups : ProcessOf[s] = p} IN
  /\ Fault
  /\ \E s \in ours : stage[s] \notin {"idle"} \cup SetupsOver
  /\ stage' = [s \in Setups |-> IF s \in ours THEN "dead" ELSE stage[s]]
  /\ sweep' = [s \in Setups |-> IF s \in ours THEN NoSweep ELSE sweep[s]]
  /\ active' = active \ ours
  /\ cut' = cut \cup {a \in Artifacts : Unpacking(a) \cap ours # {}}
  /\ UNCHANGED <<now, got, written, cache, made, lost>>

(* Bound: time passes where the caches are full, and not during a sweep. *)
Tick ==
  /\ now < Horizon
  /\ \A a \in Artifacts : cache[a] = "whole"
  /\ \A s \in Setups : ~Sweeping(s)
  /\ now' = now + 1
  /\ UNCHANGED <<stage, got, written, sweep, active, cache, made, lost, cut, faults>>

SetupStep(s) ==
  \/ BeginSetup(s) \/ BeginSweep(s) \/ NextRoot(s) \/ Swept(s)
  \/ LookUp(s) \/ DownloadEnds(s) \/ UnpackAdvances(s) \/ UnpackEnds(s)
  \/ MakeDirectories(s) \/ RegisterSetup(s) \/ BeginTeardown(s) \/ DisposeVault(s) \/ DisposeTransport(s)

DirectoriesStep ==
  \/ \E s \in Setups : SetupStep(s) \/ KillProcess(ProcessOf[s])
  \/ \E d \in Directories : Writes(d) \/ \E s \in Setups : sweepHostLeftovers(d, s)
  \/ Tick

----------------------------------------------------------------------------
(* A setup in use that is younger than the age gate of another loses nothing to its sweep: "a
   directory young enough to belong to a live run is left alone" (leftover-cleanup.ts:24). *)
YoungSpared == \A x \in lost : x.age >= MaxAge[x.by]

(* The sweep at the end of a setup takes no vault of a setup that its process is still to tear
   down, however old (global-setup-core.ts:522). *)
BooksSpared == \A x \in lost : x.books /\ Root(x.dir) = "vault" => ProcessOf[Owner(x.dir)] # ProcessOf[x.by]

(* When a sweep is over, what was old when it began is gone, in both roots, but for what is excluded
   and what could not be removed (leftover-cleanup.ts:310). *)
OldAreGone ==
  \A s \in Setups : sweep[s].root = 3 =>
    \A d \in Directories : written[d] < sweep[s].from /\ written[d] + MaxAge[s] <= sweep[s].from =>
      d \in sweep[s].failed \/ (Root(d) = "vault" /\ Owner(d) \in sweep[s].books)

(* A setup that has the path of a shell, or of an asar, finds it whole, unless the extraction of
   another is under way or was broken off (obsidian-installer.ts:130, obsidian-version-switch.ts:99). *)
GotIsWhole ==
  \A s \in Setups : \A a \in got[s] :
    stage[s] \notin SetupsOver => cache[a] = "whole" \/ a \in cut \/ Unpacking(a) \ {s} # {}

(* Setups that nothing serializes leave each other what they use. *)
DirectoriesInv == DirectoriesTypeOK /\ YoungSpared /\ BooksSpared /\ OldAreGone /\ GotIsWhole
=============================================================================
