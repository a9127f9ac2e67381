----------------------------- MODULE CoreSetup ------------------------------
(***************************************************************************)
(* One test process: the global setups and teardowns of its projects, the  *)
(* bookkeeping they share, and the three process handlers that clean up    *)
(* what no teardown reached (src/setup/global-setup-core.ts).              *)
(*                                                                         *)
(* The processes interleave at the awaits of coreSetup and coreTeardown;   *)
(* everything between two awaits is one action, and 'exit' may strike at   *)
(* any of them. The setup lock is the mutex that module SetupLock          *)
(* implements (a theft of a live lock is that module's subject), Other     *)
(* stands for the runs of other processes.                                 *)
(***************************************************************************)
EXTENDS FiniteSets

CONSTANTS
    Setups,     (* the projects of the process, each with its own createSetup *)
    Android,    (* those whose transport takes the android lock *)
    Faulty,     (* those whose disposals may fail *)
    Rejections, (* whether an unhandled rejection may be raised *)
    Other,      (* another test process *)
    None

ASSUME SetupsAssumption ==
    /\ Android \subseteq Setups /\ Faulty \subseteq Setups
    /\ Rejections \in BOOLEAN
    /\ Other \notin Setups /\ None \notin Setups /\ None # Other

VARIABLES
    stage,        (* where the coreSetup or coreTeardown of a project is *)
    caller,       (* what the test runner knows of a project *)
    transport,    (* the transport of a project *)
    directory,    (* the projects whose temporary vault exists on disk *)
    registered,   (* the projects whose vault Obsidian lists *)
    activeSetups, disposedResults, setupLocks, isCleanupHandlerRegistered,
    lockOwner,    (* who holds the android setup lock *)
    aborted,      (* the runner gave up without calling the teardowns *)
    process       (* "running", "exited" or "killed" *)

world == <<transport, directory, registered>>
tables == <<activeSetups, disposedResults, setupLocks, isCleanupHandlerRegistered>>
vars == <<stage, caller, world, tables, lockOwner, aborted, process>>

(* The stages at which coreSetup, and those at which coreTeardown, awaits. *)
SettingUp == {"locking", "creating", "filling", "registering", "enabling", "undoingVault", "undoingTransport"}
TearingDown == {"disposingVault", "disposingTransport", "sweeping"}
Settled == {"idle", "refused", "ready", "failed", "done"}

Init ==
    /\ stage = [s \in Setups |-> "idle"]
    /\ caller = [s \in Setups |-> "waiting"]
    /\ transport = [s \in Setups |-> "none"]
    /\ directory = {} /\ registered = {}
    /\ activeSetups = {} /\ disposedResults = {} /\ setupLocks = {}
    /\ isCleanupHandlerRegistered = FALSE
    /\ lockOwner = None
    /\ aborted = FALSE
    /\ process = "running"

At(s, from) == process = "running" /\ stage[s] = from

Goto(s, to) == stage' = [stage EXCEPT ![s] = to]

Tell(s, what) == caller' = [caller EXCEPT ![s] = what]

(* Release of the lock a setup may hold: a no-op for one that has none. *)
LockAfterReleaseOf(s) == IF lockOwner = s THEN None ELSE lockOwner

-----------------------------------------------------------------------------
(* coreSetup *)

(* A plugin that is desktop-only is skipped on a mobile transport, and a
   stale build is refused on any, before anything is taken. *)
Refuse(s) == Goto(s, "refused") /\ Tell(s, "errored")

skipIfDesktopOnly(s) == s \in Android /\ Refuse(s)

assertBuildIsFresh(s) == Refuse(s)

(* The runner sets its projects up one after the other. *)
CallSetup(s) ==
    /\ At(s, "idle") /\ ~aborted
    /\ \A t \in Setups : caller[t] # "settingUp"
    /\ \/ skipIfDesktopOnly(s)
       \/ assertBuildIsFresh(s)
       \/ Goto(s, IF s \in Android THEN "locking" ELSE "creating") /\ Tell(s, "settingUp")
    /\ UNCHANGED <<world, tables, lockOwner, aborted, process>>

\* Mutant: a lock that names this process counts as taken.
ReenterOwnLock(s) ==
    /\ At(s, "locking") /\ lockOwner # Other
    /\ lockOwner' = s
    /\ Goto(s, "creating")
    /\ UNCHANGED <<caller, world, tables, aborted, process>>

AcquireLock(s) ==
    /\ At(s, "locking") /\ lockOwner = None
    /\ lockOwner' = s
    /\ Goto(s, "creating")
    /\ UNCHANGED <<caller, world, tables, aborted, process>>

(* acquireSetupLock throws outside the try: nothing is there to undo. *)
LockTimesOut(s) ==
    /\ At(s, "locking") /\ lockOwner # None
    /\ Goto(s, "refused") /\ Tell(s, "errored")
    /\ UNCHANGED <<world, tables, lockOwner, aborted, process>>

(* A transport that cannot be created has cleaned up after itself; the vault
   directory is made as soon as there is one. *)
CreateTransport(s) ==
    /\ At(s, "creating")
    /\ \/ /\ transport' = [transport EXCEPT ![s] = "live"]
          /\ \/ directory' = directory \cup {s} /\ Goto(s, "filling")
             \/ directory' = directory /\ Goto(s, "undoingTransport")
       \/ UNCHANGED <<transport, directory>> /\ Goto(s, "undoingTransport")
    /\ UNCHANGED <<caller, registered, tables, lockOwner, aborted, process>>

(* The plugin, the populate map and the headless configuration. *)
FillVault(s) ==
    /\ At(s, "filling")
    /\ \E to \in {"registering", "undoingVault"} : Goto(s, to)
    /\ UNCHANGED <<caller, world, tables, lockOwner, aborted, process>>

\* Mutant: a failed registration is taken for "no vault to dispose of".
RegisterOrForget(s) ==
    /\ At(s, "registering")
    /\ \/ registered' = registered \cup {s} /\ Goto(s, "enabling")
       \/ registered' = registered /\ Goto(s, "undoingTransport")
    /\ UNCHANGED <<caller, transport, directory, tables, lockOwner, aborted, process>>

(* A registration that fails may have reached Obsidian or not. *)
RegisterVault(s) ==
    /\ At(s, "registering")
    /\ \/ registered' = registered \cup {s} /\ Goto(s, "enabling")
       \/ registered' \in {registered, registered \cup {s}} /\ Goto(s, "undoingVault")
    /\ UNCHANGED <<caller, transport, directory, tables, lockOwner, aborted, process>>

\* Mutant: the lock is not filed with the result it belongs to.
FinishWithoutLock(s) ==
    /\ At(s, "enabling")
    /\ Goto(s, "ready") /\ Tell(s, "provided")
    /\ activeSetups' = activeSetups \cup {s}
    /\ isCleanupHandlerRegistered' = TRUE
    /\ UNCHANGED <<world, disposedResults, setupLocks, lockOwner, aborted, process>>

(* Nothing awaits between the last plugin enabled and the return. *)
FinishSetup(s) ==
    /\ At(s, "enabling")
    /\ Goto(s, "ready") /\ Tell(s, "provided")
    /\ activeSetups' = activeSetups \cup {s}
    /\ setupLocks' = IF s \in Android THEN setupLocks \cup {s} ELSE setupLocks
    /\ isCleanupHandlerRegistered' = TRUE
    /\ UNCHANGED <<world, disposedResults, lockOwner, aborted, process>>

EnableFails(s) ==
    /\ At(s, "enabling")
    /\ Goto(s, "undoingVault")
    /\ UNCHANGED <<caller, world, tables, lockOwner, aborted, process>>

(* TemporaryVault.dispose: the unregistration, then (finally) the removal of
   the directory; its errors are logged. *)
VaultDisposed(s) ==
    /\ registered' \in {registered \ {s}} \cup (IF s \in Faulty THEN {registered} ELSE {})
    /\ directory' \in {directory \ {s}} \cup (IF s \in Faulty THEN {directory} ELSE {})

(* transport.dispose, or disposeSync: its errors are logged as well. *)
LeftOfTransport(s) ==
    IF transport[s] # "live" THEN {transport[s]} ELSE {"gone"} \cup (IF s \in Faulty THEN {"leaked"} ELSE {})

TransportDisposed(s) ==
    \E left \in LeftOfTransport(s) : transport' = [transport EXCEPT ![s] = left]

\* Mutant: the failure path releases the lock before the transport is gone.
UndoVaultAndRelease(s) ==
    /\ At(s, "undoingVault")
    /\ VaultDisposed(s)
    /\ lockOwner' = LockAfterReleaseOf(s)
    /\ Goto(s, "undoingTransport")
    /\ UNCHANGED <<caller, transport, tables, aborted, process>>

UndoVault(s) ==
    /\ At(s, "undoingVault")
    /\ VaultDisposed(s)
    /\ Goto(s, "undoingTransport")
    /\ UNCHANGED <<caller, transport, tables, lockOwner, aborted, process>>

UndoTransport(s) ==
    /\ At(s, "undoingTransport")
    /\ TransportDisposed(s)
    /\ lockOwner' = LockAfterReleaseOf(s)
    /\ Goto(s, "failed") /\ Tell(s, "errored")
    /\ UNCHANGED <<directory, registered, tables, aborted, process>>

-----------------------------------------------------------------------------
(* coreTeardown *)

\* Mutant: a result leaves the table when its disposal starts, not when it ends.
CallTeardownAndDelist(s) ==
    /\ process = "running" /\ ~aborted
    /\ caller[s] = "provided"
    /\ \A t \in Setups : caller[t] \notin {"waiting", "settingUp"}
    /\ s \notin disposedResults
    /\ disposedResults' = disposedResults \cup {s}
    /\ activeSetups' = activeSetups \ {s}
    /\ Goto(s, "disposingVault") /\ Tell(s, "tearingDown")
    /\ UNCHANGED <<world, setupLocks, isCleanupHandlerRegistered, lockOwner, aborted, process>>

(* The runner tears its projects down once all have been set up. A result
   that is being disposed, or has been, is left alone: the call returns. *)
CallTeardown(s) ==
    /\ process = "running" /\ ~aborted
    /\ caller[s] = "provided"
    /\ \A t \in Setups : caller[t] \notin {"waiting", "settingUp"}
    /\ IF s \in disposedResults
         THEN Tell(s, "torn") /\ UNCHANGED <<stage, disposedResults>>
         ELSE /\ disposedResults' = disposedResults \cup {s}
              /\ Goto(s, "disposingVault") /\ Tell(s, "tearingDown")
    /\ UNCHANGED <<world, activeSetups, setupLocks, isCleanupHandlerRegistered, lockOwner, aborted, process>>

DisposeVault(s) ==
    /\ At(s, "disposingVault")
    /\ VaultDisposed(s)
    /\ Goto(s, "disposingTransport")
    /\ UNCHANGED <<caller, transport, tables, lockOwner, aborted, process>>

releaseSetupLock(s) ==
    /\ lockOwner' = IF s \in setupLocks THEN LockAfterReleaseOf(s) ELSE lockOwner
    /\ setupLocks' = setupLocks \ {s}

DisposeTransport(s) ==
    /\ At(s, "disposingTransport")
    /\ TransportDisposed(s)
    /\ activeSetups' = activeSetups \ {s}
    /\ releaseSetupLock(s)
    /\ Goto(s, "sweeping")
    /\ UNCHANGED <<caller, directory, registered, disposedResults, isCleanupHandlerRegistered, aborted, process>>

FinishTeardown(s) ==
    /\ At(s, "sweeping")
    /\ Goto(s, "done")
    /\ caller' = IF caller[s] = "tearingDown" THEN [caller EXCEPT ![s] = "torn"] ELSE caller
    /\ UNCHANGED <<world, tables, lockOwner, aborted, process>>

-----------------------------------------------------------------------------
(* registerProcessCleanupHandler *)

\* Mutant: the handlers do not ask whether a disposal has begun.
TearDownAllActive ==
    /\ process = "running" /\ activeSetups # {}
    /\ disposedResults' = disposedResults \cup activeSetups
    /\ stage' = [s \in Setups |-> IF s \in activeSetups THEN "disposingVault" ELSE stage[s]]
    /\ UNCHANGED <<caller, world, activeSetups, setupLocks, isCleanupHandlerRegistered, lockOwner, aborted, process>>

(* The call the beforeExit and unhandledRejection handlers make for every
   active setup; each runs up to its first await. *)
TearDownActive ==
    /\ process = "running" /\ isCleanupHandlerRegistered
    /\ activeSetups \ disposedResults # {}
    /\ disposedResults' = disposedResults \cup activeSetups
    /\ stage' = [s \in Setups |-> IF s \in activeSetups \ disposedResults THEN "disposingVault" ELSE stage[s]]
    /\ UNCHANGED <<caller, world, activeSetups, setupLocks, isCleanupHandlerRegistered, lockOwner, aborted, process>>

UnhandledRejection == Rejections /\ TearDownActive

(* The event loop drains: the runner has nothing left to call. *)
BeforeExit ==
    /\ aborted
    /\ \A s \in Setups : stage[s] \in Settled
    /\ TearDownActive

(* Every exit but a kill. Only the setups the table lists are cleaned up,
   without an await and without the unregistration. *)
Exit ==
    /\ process = "running"
    /\ LET cleaned == IF isCleanupHandlerRegistered THEN activeSetups ELSE {} IN
         /\ transport' \in {left \in [Setups -> {"none", "live", "leaked", "gone"}] :
                              \A s \in Setups : left[s] \in IF s \in cleaned THEN LeftOfTransport(s) ELSE {transport[s]}}
         /\ \E stuck \in SUBSET (cleaned \cap Faulty \cap directory) : directory' = (directory \ cleaned) \cup stuck
         /\ activeSetups' = activeSetups \ cleaned
         /\ setupLocks' = setupLocks \ cleaned
         /\ lockOwner' = IF lockOwner \in setupLocks \cap cleaned THEN None ELSE lockOwner
    /\ process' = "exited"
    /\ UNCHANGED <<stage, caller, registered, disposedResults, isCleanupHandlerRegistered, aborted>>

-----------------------------------------------------------------------------
(* The runner, the operating system and the other runs *)

(* The runner stops on a failed setup and calls no teardown. *)
RunnerAborts ==
    /\ process = "running" /\ ~aborted
    /\ \E s \in Setups : caller[s] = "errored"
    /\ \A s \in Setups : caller[s] # "settingUp"
    /\ aborted' = TRUE
    /\ UNCHANGED <<stage, caller, world, tables, lockOwner, process>>

Kill ==
    /\ process = "running"
    /\ process' = "killed"
    /\ UNCHANGED <<stage, caller, world, tables, lockOwner, aborted>>

OtherAcquires ==
    /\ lockOwner = None
    /\ lockOwner' = Other
    /\ UNCHANGED <<stage, caller, world, tables, aborted, process>>

(* A dead process beats no more, and its lock is stolen. *)
OtherSteals ==
    /\ process # "running" /\ lockOwner \in Setups
    /\ lockOwner' = Other
    /\ UNCHANGED <<stage, caller, world, tables, aborted, process>>

OtherReleases ==
    /\ lockOwner = Other
    /\ lockOwner' = None
    /\ UNCHANGED <<stage, caller, world, tables, aborted, process>>

SetupStep(s) ==
    \/ CallSetup(s) \/ AcquireLock(s) \/ LockTimesOut(s) \/ CreateTransport(s) \/ FillVault(s)
    \/ RegisterVault(s) \/ FinishSetup(s) \/ EnableFails(s) \/ UndoVault(s) \/ UndoTransport(s)

TeardownStep(s) == CallTeardown(s) \/ DisposeVault(s) \/ DisposeTransport(s) \/ FinishTeardown(s)

OtherStep == OtherAcquires \/ OtherSteals \/ OtherReleases

Next ==
    \/ \E s \in Setups : SetupStep(s) \/ TeardownStep(s)
    \/ UnhandledRejection \/ BeforeExit \/ Exit
    \/ RunnerAborts \/ Kill
    \/ OtherStep

Spec == Init /\ [][Next]_vars

(* Every await ends, the runner calls its setups and, unless it aborts, its
   teardowns, a drained event loop raises beforeExit, and other runs come. *)
Fairness ==
    /\ \A s \in Setups : WF_vars(SetupStep(s)) /\ WF_vars(TeardownStep(s))
    /\ WF_vars(BeforeExit)
    /\ WF_vars(OtherSteals) /\ WF_vars(OtherReleases)

FairSpec == Spec /\ Fairness

(* Two projects alone on the machine, none of whose setups fails by itself. *)
Undisturbed(s) ==
    \/ CallSetup(s) /\ stage'[s] # "refused"
    \/ AcquireLock(s) \/ LockTimesOut(s)
    \/ CreateTransport(s) /\ stage'[s] = "filling"
    \/ FillVault(s) /\ stage'[s] = "registering"
    \/ RegisterVault(s) /\ stage'[s] = "enabling"
    \/ FinishSetup(s) \/ TeardownStep(s)

UndisturbedSpec ==
    /\ Init /\ [][\E s \in Setups : Undisturbed(s)]_vars
    /\ \A s \in Setups : WF_vars(Undisturbed(s))

-----------------------------------------------------------------------------
(* Every variable has its type, and a lock is filed under an active setup. *)
TypeOK ==
    /\ stage \in [Setups -> SettingUp \cup TearingDown \cup Settled]
    /\ caller \in [Setups -> {"waiting", "settingUp", "errored", "provided", "tearingDown", "torn"}]
    /\ transport \in [Setups -> {"none", "live", "leaked", "gone"}]
    /\ directory \subseteq Setups /\ registered \subseteq Setups
    /\ activeSetups \subseteq Setups /\ disposedResults \subseteq Setups /\ setupLocks \subseteq activeSetups
    /\ isCleanupHandlerRegistered \in BOOLEAN
    /\ lockOwner \in Setups \cup {None, Other}
    /\ aborted \in BOOLEAN
    /\ process \in {"running", "exited", "killed"}

(* An Android transport of a running process is only ever alive under the
   lock of its setup, from the creation until the disposal was tried,
   through failures, double teardowns and the process handlers. *)
LockCoversUse ==
    \A s \in Android : process = "running" /\ transport[s] = "live" => lockOwner = s

(* A setup that failed, and one that was torn down, leaves nothing behind
   when its disposals work: no transport, no vault, no lock. *)
FinishedLeavesNothing ==
    \A s \in Setups : stage[s] \in {"refused", "failed", "done"} =>
        /\ lockOwner # s
        /\ s \notin Faulty => transport[s] # "live" /\ s \notin directory \cup registered

(* The 'exit' handler cleans up after every setup that had completed, also
   when it strikes in the middle of an asynchronous teardown. *)
ExitCleansCompleted ==
    \A s \in Setups : process = "exited" /\ stage[s] \notin SettingUp =>
        /\ lockOwner # s
        /\ s \notin Faulty => transport[s] # "live" /\ s \notin directory

(* A disposal is started once per setup, whoever asks for it: the runner, an
   unhandled rejection or a drained event loop. *)
DisposedOnce ==
    [][\A s \in Setups : stage[s] \in {"disposingTransport", "sweeping", "done"} => stage'[s] # "disposingVault"]_vars

(* A lock a setup has taken is given up in the end: by the teardown, by the
   failure path, by the process handlers or by the run that evicts it. *)
LocksAreGivenUp ==
    \A s \in Setups : lockOwner = s ~> lockOwner # s

(* What setup-lock.ts:15 says of the lock: the process handlers release it. *)
ExitReleasesLock == process = "exited" => lockOwner \notin Setups

(* What plugin-lifecycle.md:23 promises: a suite that runs in two projects
   which differ only in the global setup gets both of them set up. *)
BothProjectsGetReady == \A s \in Setups : <>(stage[s] = "ready")

(* The lock, as the other runs see it, is the mutex of module RunMutex: a
   dead process has left it. *)
Holders == {r \in Setups \cup {Other} : lockOwner = r /\ (r \in Setups => process = "running")}

Mutex == INSTANCE RunMutex WITH Runs <- Setups \cup {Other}, holders <- Holders

ImplementsMutex == Mutex!Spec

(* Whichever way a setup ends, in its own failure, a teardown or the exit handler, it leaves no
   lock, no transport and no vault. *)
NothingIsLeft == FinishedLeavesNothing /\ ExitCleansCompleted
=============================================================================
