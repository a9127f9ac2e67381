--------------------------- MODULE PersistentProfile ---------------------------
(***************************************************************************)
(* A persistent user-data profile of an owned desktop instance: its lock   *)
(* file (desktop/owned-instance/persistent-profile.ts), the updater state  *)
(* held aside for a run (persistent-profile-updates.ts, same directory)    *)
(* and the transport that takes, uses and hands back the profile           *)
(* (desktop/transport-desktop-cdp.ts).                                     *)
(*                                                                         *)
(* The grain is the file-system call: a run may be killed between any two, *)
(* and other processes may act.  writeFileSync is two calls, the open that *)
(* empties the file and the write.  A read and the open that follows it    *)
(* are one step where no property tells them apart, and so are the removal *)
(* of a run's asar and the rename that replaces it.                        *)
(***************************************************************************)
EXTENDS Naturals, FiniteSets

CONSTANTS
  Runs,           (* the processes that use the profile; a run is a pid *)
  CrashProne,     (* the runs that may be killed at any point *)
  Versions,       (* the versions of obsidian-<version>.asar *)
  Own,            (* the versions whose asar the owner's profile holds *)
  Pinned,         (* the version the runs provision *)
  OwnFlag,        (* the owner's updateDisabled: "unset" or "own" *)
  Lingering,      (* an instance may outlive its kill for a while, its files held open *)
  Racing,         (* a run may read the lock file between another's read and write of it *)
  CallerRetries,  (* a caller registers a vault again after a registration that failed *)
  None,           (* the holder a lock path names at which there is no file *)
  NoHold,         (* the hold when there is no hold directory *)
  Bare,           (* the hold of a directory without a state file *)
  Torn            (* a state file, or an obsidian.json, that does not parse *)

Origins == {"none", "own", "run", "update"}
Flags   == {"unset", "own", "run"}

States  == [names : SUBSET Versions, flag : Flags]
Plans   == [names : SUBSET Versions, flag : Flags \cup {"unknown"}]
NoState == [names |-> {}, flag |-> "unset"]

Registries  == [isKept : BOOLEAN, flag : Flags]
OwnRegistry == [isKept |-> TRUE, flag |-> OwnFlag]

ASSUME ProfileAssumption ==
  /\ CrashProne \subseteq Runs /\ None \notin Runs
  /\ Own \subseteq Versions /\ Pinned \in Versions
  /\ OwnFlag \in {"unset", "own"}
  /\ {Lingering, Racing, CallerRetries} \subseteq BOOLEAN
  /\ {NoHold, Bare, Torn} \cap (Plans \cup Registries) = {}
  /\ NoHold # Bare /\ NoHold # Torn /\ Bare # Torn

VARIABLES
  asar,      (* asar[v]: whose obsidian-v.asar is in the profile *)
  held,      (* held[v]: whose is in the hold directory *)
  hold,      (* the hold directory and its state file *)
  registry,  (* obsidian.json: whether the owner's vaults are in it, and updateDisabled *)
  lock,      (* whom the lock file names *)
  pc,        (* pc[r]: the next file-system call of run r *)
  todo,      (* todo[r]: the files left in the loop run r is in *)
  plan,      (* plan[r]: the hold state run r has read or is recording *)
  seen,      (* seen[r]: obsidian.json as run r, and then its instance, read it *)
  after,     (* after[r]: where the restore of run r returns to *)
  armed,     (* the runs that have a restore to call on dispose *)
  instances, (* the runs whose Obsidian instance is alive *)
  lapses     (* history: the ways in which the protocol has been left *)

fileVars == <<asar, held, hold, registry, lock>>
runVars  == <<pc, todo, plan, seen, after, armed>>
vars == <<fileVars, runVars, instances, lapses>>

Restoring == {"reading", "clearing", "putting", "unflagging", "rewriting", "dropping", "removing"}
Holding   == {"making", "listing", "recording", "moving"}
Using     == {"provisioning", "seeding", "merging", "launching", "running", "failed"}
Inside    == Restoring \cup Holding \cup Using \cup {"releasing"}
Location  == Inside \cup {"idle", "locking", "crashed"}

Users == {r \in Runs : pc[r] \in Inside}

TypeOK ==
  /\ asar \in [Versions -> Origins] /\ held \in [Versions -> Origins]
  /\ hold \in {NoHold, Bare, Torn} \cup States
  /\ registry \in {Torn} \cup Registries
  /\ lock \in Runs \cup {None}
  /\ pc \in [Runs -> Location]
  /\ todo \in [Runs -> SUBSET Versions]
  /\ plan \in [Runs -> Plans]
  /\ \A r \in Runs : pc[r] \in {"recording", "unflagging", "rewriting"} => plan[r] \in States
  /\ seen \in [Runs -> Registries]
  /\ after \in [Runs -> {"making", "releasing"}]
  /\ armed \subseteq Users
  /\ instances \subseteq Runs
  /\ lapses \subseteq {"shared", "stateless", "torn", "unheld", "orphan"}

Init ==
  /\ asar = [v \in Versions |-> IF v \in Own THEN "own" ELSE "none"]
  /\ held = [v \in Versions |-> "none"]
  /\ hold = NoHold
  /\ registry = OwnRegistry
  /\ lock = None
  /\ pc = [r \in Runs |-> "idle"]
  /\ todo = [r \in Runs |-> {}]
  /\ plan = [r \in Runs |-> NoState]
  /\ seen = [r \in Runs |-> OwnRegistry]
  /\ after = [r \in Runs |-> "making"]
  /\ armed = {} /\ instances = {} /\ lapses = {}

Goto(r, location) == pc' = [pc EXCEPT ![r] = location]

Lapse(cause, occurs) == lapses' = IF occurs THEN lapses \cup {cause} ELSE lapses

\* The memory of run r is gone.
Forget(r) ==
  /\ todo' = [todo EXCEPT ![r] = {}]
  /\ plan' = [plan EXCEPT ![r] = NoState]
  /\ after' = [after EXCEPT ![r] = "making"]
  /\ UNCHANGED seen

FilesIn(directory) == {v \in Versions : directory[v] # "none"}

IsRecorded == hold \notin {NoHold, Bare, Torn}

-----------------------------------------------------------------------------
(* The lock file.                                                          *)

checkIsProcessAlive(r) == pc[r] # "crashed"

\* Mutant: a lock is respected whether its holder lives or not.
RefuseAnyHolder(r) == lock \notin {None, r}

\* acquirePersistentProfileLock, the read: a live holder other than r refuses it.
IsRefused(r) == lock \notin {None, r} /\ checkIsProcessAlive(lock)

ReadLock(r) ==
  /\ pc[r] = "idle"
  /\ Racing \/ \A s \in Runs : pc[s] # "locking"
  /\ ~IsRefused(r)
  /\ Goto(r, "locking")
  /\ UNCHANGED <<fileVars, todo, plan, seen, after, armed, instances, lapses>>

\* The write, whatever has happened to the file since the read; then
\* holdPersistentProfileUpdates begins with the leftovers of an earlier hold.
WriteLock(r) ==
  /\ pc[r] = "locking"
  /\ lock' = r
  /\ after' = [after EXCEPT ![r] = "making"]
  /\ Goto(r, "reading")
  /\ Lapse("shared", Users # {})
  /\ UNCHANGED <<asar, held, hold, registry, todo, plan, seen, armed, instances>>

\* releaseProfileLock: only a lock that still names r is removed.
Release(r) ==
  /\ pc[r] = "releasing"
  /\ lock' = IF lock = r THEN None ELSE lock
  /\ armed' = armed \ {r}
  /\ Goto(r, "idle")
  /\ Forget(r)
  /\ UNCHANGED <<asar, held, hold, registry, instances, lapses>>

-----------------------------------------------------------------------------
(* restorePersistentProfileUpdates.                                        *)

\* Mutant: what has not been moved yet is taken for the run's.
HeldFilesOnly ==
  [names |-> FilesIn(held), flag |-> IF IsRecorded THEN hold.flag ELSE "unknown"]

\* The state file, or, if there is none to read, the files that are held.
ReadableState ==
  IF IsRecorded THEN hold ELSE [names |-> FilesIn(held), flag |-> "unknown"]

\* Is there a hold, what does it say, and which asars are the run's own?
ReadState(r) ==
  /\ pc[r] = "reading"
  /\ \/ /\ hold = NoHold
        /\ Goto(r, after[r])
        /\ UNCHANGED <<plan, todo, lapses>>
     \/ /\ hold # NoHold
        /\ plan' = [plan EXCEPT ![r] = ReadableState]
        /\ todo' = [todo EXCEPT ![r] = FilesIn(asar) \ ReadableState.names]
        /\ Goto(r, "clearing")
        /\ lapses' = lapses \cup (IF IsRecorded THEN {} ELSE {"stateless"})
                            \cup (IF instances = {} THEN {} ELSE {"orphan"})
  /\ UNCHANGED <<fileVars, seen, after, armed, instances>>

ClearOne(r) ==
  /\ pc[r] = "clearing"
  /\ \E v \in todo[r] :
       /\ asar' = [asar EXCEPT ![v] = "none"]
       /\ todo' = [todo EXCEPT ![r] = @ \ {v}]
  /\ UNCHANGED <<held, hold, registry, lock, pc, plan, seen, after, armed, instances, lapses>>

Cleared(r) ==
  /\ pc[r] = "clearing" /\ todo[r] = {}
  /\ todo' = [todo EXCEPT ![r] = FilesIn(held)]
  /\ Goto(r, "putting")
  /\ UNCHANGED <<fileVars, plan, seen, after, armed, instances, lapses>>

PutBackOne(r) ==
  /\ pc[r] = "putting"
  /\ \E v \in todo[r] :
       /\ held[v] # "none"
       /\ asar' = [asar EXCEPT ![v] = held[v]]
       /\ held' = [held EXCEPT ![v] = "none"]
       /\ todo' = [todo EXCEPT ![r] = @ \ {v}]
  /\ UNCHANGED <<hold, registry, lock, pc, plan, seen, after, armed, instances, lapses>>

\* updateDisabled is put back only by a state that recorded it, into a registry
\* that can be parsed.
PutBack(r) ==
  /\ pc[r] = "putting" /\ todo[r] = {}
  /\ Goto(r, IF plan[r].flag # "unknown" /\ registry # Torn THEN "unflagging" ELSE "dropping")
  /\ Lapse("torn", registry = Torn)
  /\ UNCHANGED <<fileVars, todo, plan, seen, after, armed, instances>>

\* Mutant: the flag the run set is kept.
RewriteAsRead(r) ==
  /\ pc[r] = "rewriting"
  /\ registry' = seen[r]
  /\ Goto(r, "dropping")
  /\ UNCHANGED <<asar, held, hold, lock, todo, plan, seen, after, armed, instances, lapses>>

\* obsidian.json is read and emptied ...
Unflag(r) ==
  /\ pc[r] = "unflagging"
  /\ seen' = IF registry = Torn THEN seen ELSE [seen EXCEPT ![r] = registry]
  /\ registry' = Torn
  /\ Goto(r, "rewriting")
  /\ UNCHANGED <<asar, held, hold, lock, todo, plan, after, armed, instances, lapses>>

\* ... and written with the owner's updateDisabled.
Rewrite(r) ==
  /\ pc[r] = "rewriting"
  /\ registry' = [seen[r] EXCEPT !.flag = plan[r].flag]
  /\ Goto(r, "dropping")
  /\ UNCHANGED <<asar, held, hold, lock, todo, plan, seen, after, armed, instances, lapses>>

\* rmSync of the hold directory: first what is in it, then the directory.
DropContents(r) ==
  /\ pc[r] = "dropping"
  /\ hold' = IF hold = NoHold THEN NoHold ELSE Bare
  /\ held' = [v \in Versions |-> "none"]
  /\ Goto(r, "removing")
  /\ UNCHANGED <<asar, registry, lock, todo, plan, seen, after, armed, instances, lapses>>

RemoveHold(r) ==
  /\ pc[r] = "removing"
  /\ hold' = NoHold
  /\ Goto(r, after[r])
  /\ UNCHANGED <<asar, held, registry, lock, todo, plan, seen, after, armed, instances, lapses>>

\* A file is held open, or gone.  tryRestoreProfileUpdates begins anew, until its
\* deadline; the restore that precedes a hold fails the registration.
RestoreFails(r) ==
  /\ pc[r] \in {"clearing", "putting"}
  /\ \E v \in todo[r] : Lingering \/ (pc[r] = "putting" /\ held[v] = "none")
  /\ \/ after[r] = "making" /\ Goto(r, "failed")
     \/ after[r] = "releasing" /\ Goto(r, "reading")
     \/ after[r] = "releasing" /\ Goto(r, "releasing")
  /\ UNCHANGED <<fileVars, todo, plan, seen, after, armed, instances, lapses>>

-----------------------------------------------------------------------------
(* holdPersistentProfileUpdates, after the restore.                        *)

MakeHold(r) ==
  /\ pc[r] = "making"
  /\ hold' = IF hold = NoHold THEN Bare ELSE hold
  /\ Goto(r, "listing")
  /\ UNCHANGED <<asar, held, registry, lock, todo, plan, seen, after, armed, instances, lapses>>

\* What the profile has is listed and the state file opened ...
ListOwn(r) ==
  /\ pc[r] = "listing" /\ hold # NoHold
  /\ todo' = [todo EXCEPT ![r] = FilesIn(asar)]
  /\ plan' = [plan EXCEPT ![r] =
       [names |-> FilesIn(asar), flag |-> IF registry = Torn THEN "unset" ELSE registry.flag]]
  /\ hold' = Torn
  /\ Goto(r, "recording")
  /\ UNCHANGED <<asar, held, registry, lock, seen, after, armed, instances, lapses>>

\* ... and written before anything moves.
RecordState(r) ==
  /\ pc[r] = "recording"
  /\ hold' = IF hold = NoHold THEN NoHold ELSE plan[r]
  /\ Goto(r, "moving")
  /\ UNCHANGED <<asar, held, registry, lock, todo, plan, seen, after, armed, instances, lapses>>

\* Mutant: the asars are recorded and left where they are.
LeaveOne(r) ==
  /\ pc[r] = "moving" /\ hold # NoHold
  /\ \E v \in todo[r] : todo' = [todo EXCEPT ![r] = @ \ {v}]
  /\ UNCHANGED <<fileVars, pc, plan, seen, after, armed, instances, lapses>>

MoveOne(r) ==
  /\ pc[r] = "moving" /\ hold # NoHold
  /\ \E v \in todo[r] :
       /\ asar[v] # "none"
       /\ held' = [held EXCEPT ![v] = asar[v]]
       /\ asar' = [asar EXCEPT ![v] = "none"]
       /\ todo' = [todo EXCEPT ![r] = @ \ {v}]
  /\ UNCHANGED <<hold, registry, lock, pc, plan, seen, after, armed, instances, lapses>>

Held(r) ==
  /\ pc[r] = "moving" /\ todo[r] = {}
  /\ armed' = armed \cup {r}
  /\ Goto(r, "provisioning")
  /\ UNCHANGED <<fileVars, todo, plan, seen, after, instances, lapses>>

\* A file is held open, or another run has taken the file or the directory away.
HoldFails(r) ==
  /\ pc[r] \in {"listing", "moving"}
  /\ hold = NoHold \/ (pc[r] = "moving" /\ \E v \in todo[r] : Lingering \/ asar[v] = "none")
  /\ Goto(r, "failed")
  /\ UNCHANGED <<fileVars, todo, plan, seen, after, armed, instances, lapses>>

-----------------------------------------------------------------------------
(* registerVaultInOwnedInstance, after the hold, and dispose.              *)

\* copyAsarIntoUserData, if the run asks for a version.
Provision(r) ==
  /\ pc[r] = "provisioning"
  /\ asar' \in {asar, [asar EXCEPT ![Pinned] = "run"]}
  /\ Goto(r, "seeding")
  /\ UNCHANGED <<held, hold, registry, lock, todo, plan, seen, after, armed, instances, lapses>>

\* seedOwnedObsidianJson: a registry that does not parse is merged as an empty one.
Seed(r) ==
  /\ pc[r] = "seeding"
  /\ seen' = [seen EXCEPT ![r] =
       IF registry = Torn THEN [isKept |-> FALSE, flag |-> "unset"] ELSE registry]
  /\ registry' = Torn
  /\ Goto(r, "merging")
  /\ Lapse("torn", registry = Torn)
  /\ UNCHANGED <<asar, held, hold, lock, todo, plan, after, armed, instances>>

\* mergePersistentObsidianJson keeps the vaults and sets updateDisabled.
Merge(r) ==
  /\ pc[r] = "merging"
  /\ registry' = [seen[r] EXCEPT !.flag = "run"]
  /\ Goto(r, "launching")
  /\ UNCHANGED <<asar, held, hold, lock, todo, plan, seen, after, armed, instances, lapses>>

\* launchOwnedObsidianInstance, whose wait for the endpoint may fail.
Launch(r) ==
  /\ pc[r] = "launching"
  /\ \/ instances' = instances \cup {r} /\ Goto(r, "running")
     \/ UNCHANGED instances /\ Goto(r, "failed")
  /\ UNCHANGED <<fileVars, todo, plan, seen, after, armed, lapses>>

AfterKill(r) == instances' \in {instances \ {r}} \cup (IF Lingering THEN {instances} ELSE {})

\* The vault does not become ready, which earns a relaunch, or another vault is
\* registered with the transport that holds the lock.
Relaunch(r) ==
  /\ pc[r] = "running"
  /\ AfterKill(r)
  /\ Goto(r, "seeding") \/ Goto(r, "provisioning")
  /\ UNCHANGED <<fileVars, todo, plan, seen, after, armed, lapses>>

\* A registration that failed is repeated: the lock is held, so the hold is skipped.
RegisterAgain(r) ==
  /\ CallerRetries /\ pc[r] = "failed"
  /\ Goto(r, "provisioning")
  /\ Lapse("unheld", r \notin armed)
  /\ UNCHANGED <<fileVars, todo, plan, seen, after, armed, instances>>

\* dispose: the instance quits or is killed, then the profile is restored.
Dispose(r) ==
  /\ pc[r] \in {"running", "failed"}
  /\ AfterKill(r)
  /\ after' = [after EXCEPT ![r] = "releasing"]
  /\ Goto(r, IF r \in armed THEN "reading" ELSE "releasing")
  /\ UNCHANGED <<fileVars, todo, plan, seen, armed, lapses>>

-----------------------------------------------------------------------------
(* The environment.                                                        *)

\* The run is killed; its detached instance is not.
Crash(r) ==
  /\ r \in CrashProne /\ pc[r] \notin {"idle", "crashed"}
  /\ Goto(r, "crashed")
  /\ armed' = armed \ {r}
  /\ Forget(r)
  /\ UNCHANGED <<fileVars, instances, lapses>>

\* An instance ends: by its user, by itself, or by the watchdog of a killed run.
InstanceEnds(r) ==
  /\ r \in instances
  /\ instances' = instances \ {r}
  /\ UNCHANGED <<fileVars, runVars, lapses>>

\* Obsidian rewrites obsidian.json from what it loaded, and its updater may leave
\* an asar in spite of the flag.
AppWrites(r) ==
  /\ r \in instances
  /\ \/ /\ registry' = [seen[r] EXCEPT !.flag = "run"]
        /\ UNCHANGED asar
     \/ /\ \E v \in Versions : asar[v] = "none" /\ asar' = [asar EXCEPT ![v] = "update"]
        /\ UNCHANGED registry
  /\ UNCHANGED <<held, hold, lock, runVars, instances, lapses>>

-----------------------------------------------------------------------------
Restore(r) ==
  \/ ReadState(r) \/ ClearOne(r) \/ Cleared(r) \/ PutBackOne(r) \/ PutBack(r)
  \/ Unflag(r) \/ Rewrite(r) \/ DropContents(r) \/ RemoveHold(r) \/ RestoreFails(r)

Hold(r) == MakeHold(r) \/ ListOwn(r) \/ RecordState(r) \/ MoveOne(r) \/ Held(r) \/ HoldFails(r)

Register(r) ==
  \/ ReadLock(r) \/ WriteLock(r) \/ Provision(r) \/ Seed(r) \/ Merge(r) \/ Launch(r)

Next == \E r \in Runs :
  \/ Register(r) \/ Restore(r) \/ Hold(r) \/ Release(r)
  \/ Relaunch(r) \/ RegisterAgain(r) \/ Dispose(r)
  \/ Crash(r) \/ InstanceEnds(r) \/ AppWrites(r)

Spec == Init /\ [][Next]_vars

(* Each synchronous call is followed by the next, sessions end, and a run  *)
(* whose profile is free registers.                                        *)
RunsKeepComing ==
  \A r \in Runs : WF_vars(Register(r) \/ Restore(r) \/ Hold(r) \/ Release(r)) /\ SF_vars(Dispose(r))

(* Nobody keeps the profile's files open, or writes more of them, for ever. *)
FilesComeFree == <>[][\A r \in Runs : ~RestoreFails(r) /\ ~AppWrites(r)]_vars

-----------------------------------------------------------------------------
(* Properties.                                                             *)

\* No asar of the owner's is ever lost: "a run killed mid-hold still restores
\* exactly what the profile had" (persistent-profile-updates.ts,
\* holdPersistentProfileUpdates).
OwnAsarsKept == \A v \in Own : asar[v] = "own" \/ held[v] = "own"

\* The owner's asars survive every crash, every failed restore and every retry
\* unless two runs shared the profile, a restore found a hold without its state, or
\* a caller went on after a hold that failed.
AsarsKeptUnlessLapsed == lapses \cap {"shared", "stateless", "unheld"} = {} => OwnAsarsKept

\* Once no run uses the profile and nothing is held aside, the profile is what it
\* was: the owner's asars and no others, the vaults, the owner's updateDisabled
\* (persistent-profile-updates.ts, file header).
HandedBackUnlessLapsed ==
  (lapses = {} /\ hold = NoHold /\ \A r \in Runs : pc[r] \in {"idle", "crashed"}) =>
    /\ asar = [v \in Versions |-> IF v \in Own THEN "own" ELSE "none"]
    /\ registry = OwnRegistry

\* The shell can only load the asar the run asked for or its bundled app: at the
\* launch of an instance every asar of the owner's is held aside.
HeldWhileLaunched ==
  (lapses = {} /\ \E r \in Runs : pc[r] = "launching") => \A v \in Own : held[v] = "own"

\* The registry is merged, never overwritten (persistent-profile.ts, file header):
\* whenever obsidian.json can be read, the owner's vaults are in it.
RegistryMerged == registry # Torn => registry.isKept

\* A second run is refused while the holder is alive (persistent-profile.ts, file
\* header).
OneRunPerProfile == \A r, s \in Users : r = s

\* "One instance per profile" (persistent-profile.ts, file header).
OneInstancePerProfile == \A r, s \in instances : r = s

\* What a killed run held aside, or had put back in part, is put back by a later run.
KilledRunIsRestored ==
  RunsKeepComing /\ FilesComeFree =>
    \A r \in Runs : (pc[r] = "crashed" /\ hold # NoHold) ~> hold = NoHold
=============================================================================
