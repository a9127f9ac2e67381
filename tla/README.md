# Formal models of obsidian-integration-testing

This directory specifies, in TLA+, the parts of the harness in which several actors
meet: test processes that share locks, markers, devices and a profile, calls that
interleave at their awaits over one socket, one page or one Appium session, and
guests that restart, hang or die under them. TLC checks the specifications on small
instances; TLAPS proves the main safety properties for every value of the constants.
Paths below are relative to `src/src/`.

* [The system](#the-system)
* [Plan](#plan)
* [Modules](#modules)
* [Runs](#runs)
* [Proofs](#proofs)
* [Known departures](#known-departures)
* [Not modelled](#not-modelled)

## The system

A test runner (Vitest, Jest) calls a *global setup* per project. The core setup
takes a machine-wide lock if the project runs on Android, creates a *transport* to
an Obsidian (desktop over CDP, or Android over Appium), makes a temporary vault,
registers it, enables the plugin and hands the options to the workers; each worker
attaches a transport of its own and evaluates closures in the page of a vault; the
core teardown undoes all of it. Several test processes on one machine share the
emulator, the Appium server, a persistent desktop profile and the temporary directory,
and every one of them may be killed with SIGKILL, in which case only what it wrote to
disk is left to tell the next one what to clean up.

| Component | State | Operations | Talks to | What is hard | What makes it correct |
| --- | --- | --- | --- | --- | --- |
| **Setup lock** `setup/setup-lock.ts` | a file per scope naming pid, host and heartbeat; in memory: the heartbeat timer | acquire (poll, steal, deadline), try-acquire, heartbeat, release, "is it held?" | core setup, emulator reaper, Android global setup | check-then-act on files by several processes; writes that are two calls; recycled pids; stalled event loops | exclusion; never locked for ever; the free verdict is sound; a release spares its successor |
| **Core setup and teardown** `setup/global-setup-core.ts`, `vault/temporary-vault.ts` | `activeSetups`, `disposedResults`, `setupLocks`, `isCleanupHandlerRegistered`; vault directory and registration | `coreSetup`, `coreTeardown`, handlers for `exit`, `beforeExit`, `unhandledRejection` | lock, transport, leftover sweep, runner | handlers that strike between awaits; failures while undoing a failure; several projects in one process | the lock covers the use of the device; nothing is left behind; disposal happens once |
| **Appium server ownership** `android/appium/appium-server-marker.ts`, `transport/transport-factory.ts` | marker file (server, pid, stop stamp); process tree; port | adopt, reclaim, spawn, restart when wedged, stop with escalation, best-effort stop at exit | device sessions, user's own servers | killing without a way to wait; the marker and the process get out of step; two attempts in one run | a leftover stays convictable; an adopted server is spared; the handle is kept; every run settles |
| **Emulator ownership** `android/emulator/emulator-{marker,reclaim,reaper,backend}.ts` | marker per AVD; backend processes; detached reaper | launch, take over, retry, stop, reclaim, reap | setup lock, Appium provisioning | ownership is a difference of two process listings; a detached reaper races the next run | a launched emulator is recorded until it is gone; a user's emulator is spared |
| **Choice of a device** `transport/transport-factory.ts`, `android/avd/` | `deviceIdsBefore`, ignored devices, the exit of a launch | list, ask each device over three channels, reuse, launch, tell what is ours | emulator ownership, other runs' emulators | a silent device; ids that adb gives again; a launch that ends because the AVD runs already | the device serves the AVD and is not another's by mistake; a mute one stops the run |
| **Emulator readiness** `transport/transport-factory.ts`, `android/framework-readiness.ts`, `android/emulator/emulator-liveness.ts` | the baseline identity of system_server per device | boot, idle, network and framework gates, the one setting, diagnosis, one fresh boot | emulator ownership, Appium session | a framework that restarts between two polls; a device id used twice; deadlines inside deadlines | a session meets a framework that has settled; the wait ends |
| **Vaults on a device** `android/appium/transport-appium.ts`, `android/mobile-vault-startup.ts` | `localStorage` of the app, vault directories | push, register, prune, wait in two phases, recover from the picker, unregister, remove | Appium session, the app | one registry for the user and all workers; documents that are being replaced; names that are not unique | the user's vaults survive; the vault that opens is the requested one |
| **Appium session** `android/appium/transport-appium.ts`, `android/webview-cdp.ts` | context and window flags, cap-overrun flag, debugger channel and its forward | evaluate within a cap, recover context and window, retry, attach the channel, dispose | Appium server, namespace | a closure that runs on after its cap; flags about a shared session; a forward that outlives its process | a closure runs once; an overrun is not charged to the next call; one failure heals |
| **Evaluation and namespace** `eval/eval-in-obsidian.ts`, `namespace/namespace-bootstrap.ts` | per page: the namespace, its module, contexts, input requests | version check, bootstrap, load of `obsidian`, call, input channel | both transports | version check and call are two round trips; shared loads whose awaits may throw; a page that reloads; several hosts serving one request | own lib, one load, one gesture, every call ends |
| **Persistent profile** `desktop/owned-instance/persistent-profile*.ts` | lock file, `obsidian.json`, hold directory with a state file | acquire, hold, merge, restore, release | desktop transport, Obsidian itself | a profile that belongs to the user; crash between any two file operations; busy files; Obsidian writing its own files | the owner gets back exactly what they had |
| **Desktop CDP transport** `desktop/transport-desktop-cdp.ts` | socket, active vault, pending commands | connect, evaluate, capture, time out, dispose | owned instance, vault windows | reconnection across awaits; pending commands of a dead socket; an override in three commands | a closure runs in its vault, at most once; no command waits for ever |
| **Vaults in a running instance** `desktop/transport-desktop-cdp.ts`, `vault/vault-teardown-verdict.ts` | `selfRegisteredVaultPaths`, `preRegisteredVaultPaths`; windows and vault list of the instance | adopt, open over IPC, close, forget | CDP transport, the user | looks and commands are separate; the last window quits the application | foreign windows and entries are spared; nothing is left |
| **Owned instance** `desktop/owned-instance/obsidian-instance.ts`, `parent-liveness.ts`, `owned-instance-exit-marker.ts` | detached process, port, exit marker, watchdog | launch, relaunch, kill, dispose, watch the harness | CDP transport | a process that hands itself to an heir; recycled ports; a cut connection that looks like a dead parent | one instance at a time; a marker tells the truth; an orphan ends, a live one is not closed |
| **Runner adapters** `vitest/`, `jest/` | what a worker is told | set up in order, tear down at the end | core setup | a runner that aborts without teardown | (order of calls, part of CoreSetup) |
| **Leftover sweep** `setup/leftover-cleanup.ts` | directories under the temporary root, their age | sweep by prefix and age, sweep of the device | core setup and teardown | an age gate that a long run outlives; what is excluded is what one process has on its books | a young directory is spared, an old one goes, whatever else fails |
| **Plugin installation** `plugin/` | the plugin folder, Obsidian's enabled list, a patched plugin manager | copy, enable with retries, reload, look for leaks | core setup, namespace | an attempt goes on beside its retry; wrappers under the patches of plugins | a plugin said to be enabled is; an error is charged to its plugin; the manager is left as it was |
| **Version provisioning** `desktop/versions/` | caches of shells and asars | download, extract, write the asar | desktop transport | two downloads into one cache, a cut one | a cached file is complete |
| Others | none shared | parsing, geometry, image processing, exports | | | not modelled, see PROJECT.json |

How they interact: `CoreSetup` holds the lock of `SetupLock` around everything it does
with a device. `AppiumServer`, `EmulatorOwnership`, `DeviceSelection`, `DeviceReadiness`,
`VaultStartup` and `PluginEnabling` are the stages of one start on Android, in this order,
and `AppiumSession` is what the workers then do with the session. On the desktop,
`HostDirectories`, `PersistentProfile` and `OwnedInstance` bring an Obsidian up, or
`VaultWindows` joins one that runs, and `CdpTransport` is the connection. `PageNamespace`
is what both kinds of transport carry.

`PROJECT.json` lists every component with its sources and status, and under
"hazards" each place where one of the above bites, with the properties that are
about it.

## Plan

Done, in order of what a failure costs: `SetupLock` (with the abstract `RunMutex`),
`AppiumServer`, `PersistentProfile`, `CoreSetup` (on top of `RunMutex`),
`EmulatorOwnership`; then what the workers do: `CdpTransport` (with the abstract
`RemoteCalls`), `VaultWindows`, `OwnedInstance`, `PageNamespace`, `AppiumSession`;
then the start on a device, `AndroidStart`, composed of `DeviceSelection`,
`DeviceReadiness`, `VaultStartup` and `PluginEnabling`, and the setups of one machine,
`DesktopRun`, composed of `HostDirectories` and `OwnedInstance`.

What is left, in order:

1. The sweep of vaults on a device and the copying of a plugin into a vault, with the
   emulator's snapshots, which share the order of their steps with `DeviceReadiness`.
2. Two callers of `getOrCreateTransport` in one worker, on top of `CoreSetup`.
3. The verdict functions of the emulator and of versions as operators checked against a
   reference definition.

No proof is left over: every invariant and every action property of a run is a theorem.

Conventions: the constants of a module are the actors, the faults they are prone to
and the sentinels; every assumption on them is named; one action per step of the
code between two points at which another actor can act; no RECURSIVE operator in a
module that has theorems. A definition whose comment begins with "Mutant:" is a
plausible bug of the definition that follows it. It is no part of the specification;
PROJECT.json names it as the change which the properties have to notice. What a run
checks as one invariant is the conjunction of named parts, each stated on its own.

## Modules

### RunMutex

What a lock promises: at most one run in `holders`, entered only when it is empty.
The abstract specification of both `SetupLock` (`Mutex == INSTANCE RunMutex WITH
holders <- Holders`) and the lock as `CoreSetup` uses it.

### SetupLock

The file protocol of `setup/setup-lock.ts` at the grain of the file-system call.

* `pc[r]` is the next call of run `r`; `text` is whom the file names (`Torn` while
  a file is open and unwritten, `Absent` when there is none); `age` counts the
  thresholds the heartbeat's silence has passed (2 minutes, 30 minutes); `linked`
  says whose descriptor is still the file at the path, so that a write to an
  unlinked file is lost, as it is on disk; `beating` is the armed timers;
  `recycled` the dead runs whose pid somebody else has. Two histories: `robbed`, a
  steal has removed a live run's file; `mistaken`, a file was stolen between a run's
  read of it and the rewrite or unlink that read allowed, or the read found no name.
* `tryCreateLockFile` is the exclusive open, `createLockHandle` the write that
  follows and the handle; `Judge` is the read and `checkIsLockStale`;
  `stealStaleLock` the unlink by path; `BeatRead`/`BeatOpen`/`BeatWrite` and
  `ReleaseRead`/`ReleaseRemove` are the heartbeat and the release in their separate
  calls. `Reapers` call `tryAcquireSetupLock` with its longer patience.
* `FallSilent` lets the heartbeat grow old: for a dead holder always, for a live one
  only if it is `Stallable` (an event loop blocked for minutes).

### AppiumServer

Everything `transport/transport-factory.ts` does about the Appium server, over
successive runs: the probe and adoption, the reclaim of a stamped leftover, the
spawn, the second provisioning attempt, the diagnosis and restart of a wedged
server, the verified stop with its escalation to the port's owners, the best-effort
stop of the exit handler.

* `proc[s]` is the listener of server `s` (absent, loading, serving, dying, gone),
  `shells` the shells still alive: the marker names the shell's pid, the port belongs
  to the listener, and a tree kill may miss the second (`TreeKillReaches`).
* `marker` is the file; `known` is what the run read of it when it adopted; `launch`
  and `mine` are the handles of `startAppiumAndEmulator` and of the session.
* `lapses` records in which of the ways that the code admits the marker and the
  servers came apart. `LeftoverConvictableUnlessLapsed` says that there are no others.
* A foreign server is the user's: it starts on a free port and stops when they like.

### PersistentProfile

A profile that belongs to the user, used by runs of the harness in turn: the lock
file, the hold of the updater's files, the registry, the instances.

* `asar`, `held` say whose file each `obsidian-<version>.asar` is, in the profile
  and in the hold directory; `hold` is the directory and its state file (`NoHold`,
  `Bare`, `Torn`, or what it records); `registry` is `obsidian.json` (whether the
  owner's vaults are in it, and `updateDisabled`); `lock` the lock file.
* `Restore` (ReadState ... RemoveHold), `Hold` (MakeHold ... Held) and `Register`
  are the sequences of the three files, one action per call that another actor can
  see. `writeFileSync` is the open that empties the file and the write.
* The instance is detached: `instances` keeps it when its run crashes. It writes the
  registry from what it loaded at its start (`AppWrites`).
* `lapses` names the ways out of the protocol: two runs on one profile, a hold
  without a state, a torn registry, a hold that a repeated registration skipped, a
  restore beside an orphan.

### EmulatorOwnership

The emulators of a host, over successive runs: the marker per AVD, the transport that
launches, adopts, replaces and stops one, the sweeps of leftovers, and the detached
reaper armed with each launch. One `pc`, that of the holder of the setup lock, since
runs and reapers exclude each other through it.

* `proc[p]` is a process, a launcher or the backend it forks; `online` is what adb
  lists as usable; a backend that is up may be listed before. `marker[a]` is the file:
  provisional from the launch on (the launcher and the listing before it, `pre`), final
  when the boot is done (the pids that are new). `mine`, `before`, `known` are what
  the transport holds in memory: `ownedEmulatorPids` with its process and device,
  `emulatorPidsBefore`, `deviceIdsBefore`.
* `host` numbers the processes that host a transport. `HostEnds` is the worker that the
  runner ends without a teardown, or the killed run: the memory is gone, the run may go
  on, and only the marker is left.
* `BeginStop` ... `StopGivesUp` is `stopEmulator`: console, tree kill, poll, escalation
  to the pids, and the marker that stays unless the end was seen. `BeginSweep`,
  `Reclaim`, `Swept` are `reclaimLeftoverEmulators` in its three uses: the preflight,
  the end of a run, the reaper.
* A launch is known by its number, which stands for its launch time. `User` is an
  emulator somebody boots by hand, at any time.
* `lapses` names what the records cannot bear: a failed listing (`blind`), a stop that
  gave up, a launch not recorded because an older record is in force, a backend forked
  after a stop had listed, a device that was another emulator's (`mistaken`), and an
  emulator booted by hand while a launch is told by a difference (`bystander`).

### CoreSetup

One test process with its projects: `coreSetup`, `coreTeardown` and the three
handlers over the tables the module keeps, interleaved at the awaits.

* `stage[s]` is the await a setup or teardown is at, `caller[s]` what the runner
  knows; `transport`, `directory`, `registered` are what the setup has made;
  `activeSetups`, `disposedResults`, `setupLocks`, `isCleanupHandlerRegistered` are
  the variables of the source.
* The runner sets its projects up one after another and tears them down after the
  tests; it may abort without teardowns. `Exit` may strike at every await and runs
  the synchronous disposals; `Kill` runs nothing.
* The lock is the mutex `SetupLock` implements in its orderly runs: a theft of a live
  lock is the subject of that module, not of this one.

### RemoteCalls and CdpTransport

`RemoteCalls` is what an evaluation promises whatever carries it: the closure runs at
most once, in the window of its own vault, and an answer is the answer of that
closure. A failure promises nothing: the closure may still run. A blank answer, which
nothing tells from a closure that returned nothing, promises nothing either.

`CdpTransport` is the cached connection of `desktop/transport-desktop-cdp.ts` at the
grain of the await, for evaluations and screenshots of several vaults at once.

* `pc[c]`, `at[c]`, `conn[c]`, `cmd[c]` are the local variables of a call: where it
  stands, which of its commands it is at, the socket `ensureConnection` gave it and the
  id it waits for. A call opens at most one socket, which is named by it.
* `ws`, `activeVaultPath`, `messageId`, `pendingCommands` are the fields of the class;
  `wire` is what has reached Obsidian and `socket` the state of each connection. No
  listener settles the commands of a socket that closes: only answers and timers do.
* `override` is the device metrics of a screenshot, in force on a socket.
* Windows close, connections are disposed of and vaults unregistered (`upheavals`)
  between any two steps.
* Obsidian may refuse a command (`Refuse`): the answer is an error and resolves the
  command all the same. A picture then misses its data and fails; the set and the clear
  of an override do not look, and an evaluation becomes one that returned nothing
  (`unheeded`, and the outcome "blank").

### VaultWindows

The vaults registered in an Obsidian that the transport did not launch. A visit is the
life of one `TemporaryVault`; each look at the instance and each command to it is a
step, and workers and the user act in between. `selfRegisteredVaultPaths` and
`preRegisteredVaultPaths` are the transport's; `window`, `ready`, `entry`, `running`
are the instance's, with who opened a window and who made an entry. `misled` and
`lapsed` are history: a visit that took another's window for none, or another's for its
own, and one that failed or could not close its window. Overlapping visits of one
transport to one vault share what the transport records of it: the first to be disposed
takes the mark of the entry away, so that the second, misled, removes an entry that was
there before. `Misled(x)` says that a visit, or one that shares its record, was misled.

### OwnedInstance

The Obsidian a run launches: the ports, the processes, the exit marker, and the
watchdog in the renderer. An instance is one launch of one harness; its processes are
the child the harness spawned and an heir to which Obsidian hands itself, which serves
the same port. `KillOwners` and its rounds are `killOwnedInstanceSurvivors`,
`HandleExit` is the exit listener of the child, `marker[p]` the exit marker of a port,
`isKillExpected` the deaths the harness ordered. `watchdog[i]` is on, asking (a close
only asks the question), or decided; `serverOpen` are the liveness servers that listen.
`phase[h]` is where a harness stands, `lapses` the history of failed queries and kills.

### HostDirectories, DesktopRun

`HostDirectories` is what the desktop setups of a machine share on its disk. `written[d]`
is when something was last made in the top of a directory, from which the sweep takes its
age; `sweep[s]` is a sweep under way, root after root and entry after entry, with the vaults
its process has on its books (`active`) excluded; `lost` is the history of what a sweep took
from a setup in use. `cache[a]` is the file of a shell or an asar, both written in
place: one can be found while another setup is at it. `Tick` lets time pass, which is what
makes a directory old.

`DesktopRun` composes it with `OwnedInstance`: the harnesses launch their instances where
their setups are up. `RunSpec` is the specification of the three modules; the parts share
no variable, and each has its own invariant.

### PageNamespace

`evalInObsidian` against a page: the version check, the bootstrap, `evalWrapper`. A
namespace is named by the evaluation that installed it; closures called in an old one
go on with it. `pendingObsidianModule` is the promise through which calls share one
load, and `loading` the await at which a load stands that gets at the module by a temporary
plugin: community plugins turned on (`restricted`), the directories above the folder looked
for and made (`directories`, in the code two levels alike), the folder made, main.js written,
the plugin run, unloaded, its folder removed. `manifests` and `folders` are what it leaves.
Each await before the removal may throw (`LoadThrows`): what has been made stays, and all
who share the load fail (`threw`). Versions without a plugin registry, where a load returns
`null` at once, are not modelled.
`pendingInputs`, `claimedInputIds`, `nextInputId` are the input channel on mobile;
`tasks` are the hosts that serve a request: claim, inject, answer. On mobile one
script runs at a time, on the desktop closures interleave.

### AppiumSession

The evaluations on one Appium session. `isInWebViewContext`, `isWebViewWindowStale`,
`isRecoveringFromCapOverrun` are what a transport believes, `context`, `chrome`, `app` what is the
case. `queue`, `guest`, `left` are the session, which runs one script after another to its end,
whoever still waits; `timer` is the cap, which Node enforces. The debugger channel is
`inputChannel` with its exit handler and its forward. A connection is named by the call and the
attempt that open it, a forward by the connection that made it, since a host may reuse another's.
Without adb, which the model calls "ios", there is no channel. `Refusals` is what a script is
answered with that cannot run, in the three kinds of `classifyWebViewProbeFailure`: the session
may be `terminated`, for good; the window gone; or anything else. A closure that runs is cut off
when its window goes, the app dies or the session ends, and a lost window may be answered for it
as for a script that never ran: `misreported` are those calls. The removal of a forward is best
effort, on every path: `unremoved` are those that failed, `adrift` the connections nothing was
left to close. A process ends with its exit handlers (`ProcessExits`) or without
(`ProcessKilled`). `calm` are the transports with a script that failed, `assured` the calls begun
since: nothing has happened to the session meanwhile, and no other transport or call has moved it.
A closure of such a call may not fail.

### DeviceSelection, DeviceReadiness, VaultStartup, PluginEnabling, AndroidStart

`DeviceSelection` is `ensureDeviceConnected` up to the device. A pass asks the devices of
one listing in turn (`toAsk`, `query`, `heard`), channel after channel and twice each, and
its verdict is drawn when all have been asked; `before` and `ignored` are
`deviceIdsBefore` and `ignoredDeviceIds`. `serves`, `online`, `silent` are the world:
emulators of others appear, vanish and fall silent at any time, and their ids are given
again. A launch whose AVD runs already ends (`collided`).

`DeviceReadiness` takes the emulator from its boot to the moment at which a session is
created. `server` is system_server with the number of its start; the code knows it by
a `start_count` or a pid (`identifies`), and `baseline`, `seen` are the identities it
has read. A loop until a deadline is its successful poll and its deadline. The guest
(`GuestStep`) restarts its framework, reboots, falls silent, up to `TroubleLimit`.

`VaultStartup` registers vaults in the app once a session is there: `registered`,
`trusted`, `selected` are the keys in `localStorage`, `page` is the document, which a
reload replaces only after a while (`leaving`), so that the old one answers probes in
between. `pushObsidianMarker`, `registerVault`, the two phases, the recovery from the
picker, `unregisterVault` and `removeDeviceVaultDirectory` are the steps of a caller.

`PluginEnabling` is what happens in a vault that is open: the setup enables plugins one after
another, with retries, then tests reload them and look for leaks. A vault may list plugins that
Obsidian has loaded with it (`PluginInit`), as it does by default; a plugin that throws when it is
loaded leaves its instance, one that is stillborn has none (`nature`). `exec[x]` is an attempt as
it runs in the page (switch, reset, patch, load, finish); the host may lose it and try again while
it goes on. `slot` is what is patched over the plugin manager's `loadPlugin`, the last element on
top: the wrapper of an attempt unwinds only if it is on top. The manager itself is external.
`hit`, `crossed` and `unheard` are history: the attempts that trouble befell, the jobs beside
which another execution ran, and those whose plugin was loaded where no attempt they awaited heard
of it.

`AndroidStart` composes the four, one after the other, with a caller per worker in the
third and a job per test in the fourth.

## Runs

| Run | Instance | What it shows |
| --- | --- | --- |
| `lock_faulty` | 2 waiting runs and a reaper on 2 hosts; two may crash, one may stall | exclusion can only break through a steal of a live file, the free verdict is sound, a robbed run spares its successor's lock (`SuccessorSpared`), every acquisition ends, and a readable lock of a dead run goes as long as runs keep coming, also with a recycled pid |
| `lock_orderly` | 2 runs and a reaper, no faults | the protocol is `RunMutex` |
| `appium_ownership` | 3 servers and a foreign one, 2 of them stubborn, misses, failed queries and crashes, 2 attempts | leftovers are convictable unless a named lapse happened, and the handle is kept (`ServersAccountedFor`); adopted servers are spared; each run settles |
| `emulator_leftovers` | 2 launches, 2 AVDs, 2 host processes, an emulator booted by hand, failing listings, stubborn and dying processes, recycled pids | what is left is convicted by its marker and stopped by a reaper, the emulator booted by hand is spared, unless a named lapse happened |
| `setup_lifecycle` | 3 projects, 2 on Android, 1 with faulty disposals, rejections, exits, kills | the lock covers the use, nothing is left (`NothingIsLeft`), disposal is once, locks are given up, other processes see a mutex |
| `profile_recovery` | 2 runs (one may be killed), 2 asars, one pinned, busy files, repeated registrations | asars survive, the profile is handed back, launches find the asars held; what a killed run held aside is put back by a later one |
| `cdp_channel` | any 2 of 2 evaluations of two vaults and 2 screenshots, one upheaval | the cache is never mislabelled, entries, sockets and overrides belong to calls (`ChannelInv`), refused commands included; a call told of an overrun had its closure delivered, unless its socket was closed; every call ends; the promise of `RemoteCalls` |
| `window_visits` | 3 visits of 2 workers, two of one vault and one of the vault that is open, one act of the user | the instance survives and no window is left (`VisitInv`); foreign windows and entries are spared; every visit ends |
| `desktop_machine` | 3 setups in 2 processes, one shell and one asar, one fault, two units of time; then 2 harnesses that are given one port, a relaunch, one trouble | the sweep spares what is young and what is on the books, leaves nothing old, and a file from a cache is whole, but for named exceptions; one instance at a time and markers that tell the truth (`MachineInv`); no death is mistaken for another (`NoDeathMistaken`); orphans end |
| `page_evals` | 3 evaluations of 2 hosts of different versions on a desktop page, 2 with input on mobile, 2 troubles | a gesture is made once and answered truly (`GestureInv`); lib, module and context are a call's own, a load that threw is not shared on, and it leaves something only where it threw, could not remove its folder or lost its page (`NamespaceInv`); every call ends |
| `appium_session` | 3 evaluations of 2 transports without adb, 2 with the debugger channel, the first longer than the cap; the fewer calls, the more troubles | no closure runs twice unless misreported, overruns are charged to their cause, one failure heals as long as the session is there, no forward is left that a process could remove (`SessionInv`); every call ends |
| `android_start` | 2 emulators and a handset, 2 acts or silences of others; the chosen emulator with 2 troubles; 2 callers, a vault of the user, a leftover, one of the same name, 1 mishap; 2 plugins, one of which patches the manager, which may leak, throw or be stillborn and may be loaded with the vault, 4 jobs, 1 upset | the device is the right one and as ready as it is taken to be (`DeviceInv`); vaults and plugins are neither lost nor misreported (`AppInv`), and the vault that opens is the requested one (`ReadyIsRequested`); everything ends |

### Bounds, and why they are enough

* Three runs for the lock: a steal needs a dead or stalled holder and two that judge
  it. The proofs are for any number. `age` stops at 2, after which nothing reads it.
* Three servers: `Begin` waits until there are `AttemptLimit` unused ones, so that no
  run is cut short by the bound; two runs follow one another, and the second finds
  what the first left. `AttemptLimit = 2` is the code's own limit.
* Three projects: the third comes after two that wait for each other and fail.
* Two runs of a profile, of which one may be killed at every point of its session, its
  own restore included; the other finds what is left. `Racing`, the race of two runs
  for the lock file, is off in the passing run, as its states are too many for the
  other faults beside it; the proofs include it.
* Two launches of two AVDs: the second is the replacement of the first, or that of a
  host that follows one which has ended, on the same AVD or on the other. One of them
  is stubborn and may die by itself, one AVD is the one booted by hand; the other
  choices differ by names. One kind of lapse per behaviour (`LapseLimit`), and none
  after a failed listing or a mistaken device (`Judged`), of whose sequel no property
  speaks.
* `Mixes`, the pairs of calls on the CDP connection of which one is made: two evaluations of
  two vaults, two screenshots, and either evaluation beside a screenshot. Every pair of
  kinds interleaves at every await, with one `UpheavalLimit` between, which includes a
  refused command; a third call finds what two leave.
* Three visits: two workers on one vault, and a vault whose window is open. One step of
  the user suffices to falsify any one look.
* Two harnesses, one port: it is recycled. `RoundLimit = 1` and `ProbeLimit = 3` stand
  for loops whose rounds do not differ; two attempts for the first harness are its
  relaunch. A server that listens refuses `RefusalLimit = 2` connects at most.
* Pages: three calls on the desktop are two loads shared or replaced and one that comes
  late; two on mobile are two requests that two hosts race for. Two troubles are a
  reload and a failure after it, or a load that throws and another failure. Restricted mode
  and the missing directories are both on and both off at the start.
* Sessions: the first call outlasts the cap and one of the same transport and one of
  another follow. `EventLimit` counts a call twice and a trouble once. Without adb that leaves
  three calls one trouble, two calls three and one call five; with the channel two calls one
  and one call three. A recovery fails after two. Ends of processes only with the channel,
  which is what they strand.
* Directories: three setups, two of one process, of which one tears down what the other
  has on its books. The age gate is one unit of time, and time stands still during a sweep
  and until the caches are full: what a sweep compares is the age at its beginning. One
  fault breaks off one download, extraction or removal, or kills a process. Instances are
  followed where directories and caches are as they should be (`Prepared`), and the disk
  where there are no instances (`Unlaunched`): neither reads the other.
* Two emulators and a handset: one that is reused or in the way, and one that is ours.
  Two polls (`PollLimit`), two acts or silences of others (`QuirkLimit`): an id that is
  given again takes two. A device is made ready where no quirk came before (`Starting`),
  and quirks are followed in the runs that register no vaults (`Undisturbed`): what is
  read later of the choice is the device and its origin. The plans of what is silent are
  those of `MCAndroidStart`, in which one emulator varies.
* `TroubleLimit = 2` on a device: a framework that dies twice, or dies beside a silent
  adbd. Vaults are registered on one kind of device, in the behaviours without trouble
  before (`Registering`), and the registry varies only there (`MCInit`): the start of a
  vault reads nothing of what the device went through.
* Plugins are enabled where one caller has opened its vault without a mishap (`Opened`). Two
  tries, and one upset (`UpsetLimit`), which is what makes the second necessary; one plugin
  patches the manager and one does not. One that leaks and is loaded with the vault is enabled,
  then reloaded and looked at for leaks in tests that overlap; a sound one is enabled and looked
  at; one that throws, listed or not, is enabled and reloaded; or both are enabled in a vault that
  lists both, plugins being off, and the second is sound, throws or is stillborn. Where jobs are
  planned nothing befalls the guest and the app, and no other caller is about (`Quiet`, `Alone`):
  what a job meets is a page.
* Every run says `CHECK_DEADLOCK FALSE`: a run is not obliged to begin, a killed one
  does not go on, and the bounded calls and launches run out.

### Fairness

* `SetupLock!FairSpec`: a live process executes its synchronous calls and its due
  timers, and time passes. No waiter is promised the lock, and no holder to release
  it: `AcquisitionEnds` holds by the deadline alone. `CrashedHolderIsEvicted` has the
  premise `RunsKeepComing`: runs start, and holders call their release.
* `AppiumServer!FairSpec`: weak fairness of the run's own steps, since each wait of
  the code has a timeout. A session need not end, a server need not answer.
* `CoreSetup!FairSpec`: each await ends (transports have timeouts), the runner goes
  through its setups and, unless it aborts, its teardowns, Node raises `beforeExit`
  when the loop drains, and other runs exist and finish. `Exit`, `Kill`, `RunnerAborts`
  and rejections are never promised.
* `PersistentProfile`: `KilledRunIsRestored` has the premises `RunsKeepComing` (each
  synchronous call is followed by the next, sessions end, and a run whose profile is
  free registers) and `FilesComeFree` (nobody keeps the files open for ever).
* `EmulatorOwnership!FairSpec`: a sweep and a stop go on, as each of their waits has a
  timeout, and the reapers poll. No run is promised to begin or to end, and no emulator
  to die.
* `CdpTransport!FairSpec`: Node goes on and its timers fire. An answer is due to a
  command on the wire, but a closure need not end: then its timer settles it.
* `VaultWindows!FairSpec`: a visit goes on. Polls have an end, windows need not come.
* `DesktopRun!RunSpec`: the renderer runs its watchdog, a dead harness's sockets close, and
  a port nobody serves refuses. Nothing is promised of the harness.
* `PageNamespace!PageFairSpec` and `AppiumSession!SessionFairSpec`: the calls, the page and the
  session go on. No trouble is promised, no call must begin, and a closure that outlasts
  its cap delays the others by a bounded time only because its length is bounded.
* `AndroidStart!Fairness`: the harness takes some step as long as it can, one condition
  for all that waits, since every wait takes finitely many steps. The guest, adbd, the
  app and the page owe nothing, so that `EverythingEnds` (the harness is again and again
  without anything to wait for) rests on the deadlines of the code alone.

## Proofs

`*_proofs.tla` hold the theorems, for every value of the constants that the named
assumption of the module allows: any number of runs, any faults.

* **SetupLock.** The invariant is `LockFileFollowsOwner`: while nobody has been
  robbed, the file at the path is its sole owner's at each of the separate calls,
  and a holder that cannot stall keeps it fresh. `ExclusiveUnlessRobbed` alone is not
  inductive: it says nothing of a run that is about to write a file it has already
  lost. From it follow exclusion and the soundness of the free verdict. For orderly
  instances (`CrashProne` and `Stallable` empty) `robbed` stays false, since no run
  ever judges the lock of a live one stale, so the exclusion is unconditional and the
  protocol refines `RunMutex`. What a release removes is then its own file
  (`ReleaseSparesUnlessRobbed`: as long as nobody has been robbed). Once somebody has,
  `SuccessorIsSpared` takes over, which assumes nothing of steals: a run stands before its
  rewrite or unlink only while the file names it, with `OneWriter` as the strengthening
  (a file open for writing is torn and has one descriptor), until the file is stolen in
  just that moment or was read without a name.
* **PersistentProfile.** `Lawful => Safe`: unless the profile was shared, a hold was
  found without its state, or a hold was skipped, there is one run inside, and at each
  of its calls every asar of the owner is either in the profile and named by the state,
  or in the hold directory. The condition is carried backwards (`LawfulBefore`): lapses
  are never withdrawn, so the step may assume what the next state says of them.
  What is handed back needs more than the asars (`Faithful`): as long as nothing lapsed
  the state of a hold is exactly what the owner had, the registry keeps the vaults
  whenever it can be read, and without a recorded state the profile is as it was and no
  instance is alive that could still write it. `HandedBackUnlessLapsed` speaks of the end
  only, where nothing is held any more, and is far from inductive.
* **AppiumServer.** `Trail`: as long as nothing lapsed, whatever is alive is convictable
  by the marker wherever the run may be killed; and while a stop has killed a shell and
  waits for its verdict, it is named or stamped. `Handles`: of what a run has spawned
  only the current launch, or else `mine`, is alive, and the server it holds has
  answered. `Stages` says what each step holds and may stop. `ServersAccountedFor` looks
  at a run that is killed or running; these say what brings it there, through reclaim,
  restart, second attempt and escalation. The three kinds of kill have a lemma each.
* **CoreSetup.** `Books` relates the tables to the stages: whom `activeSetups` and
  `setupLocks` list, and what each stage may have made. It holds while the process
  runs, which is when the handlers read it; from it come the cover of the lock, clean
  ends and exits, the single disposal and the refinement of `RunMutex`.
* **EmulatorOwnership.** `SpareInv` follows the user's emulator through everything a
  kill may be derived from: no marker, handle or stop names its process or its device,
  a listing that is about to be condemned lacks it, and what convicts by difference (a
  provisional record, the snapshot before a launch) counts it among what was there
  before. That holds only while no listing has failed, no device was mistaken and that
  emulator has not come up in the midst of a launch (`Clean`); `AvdKnown` says that a
  transport which adopts has an AVD. `UsersEmulatorSpared` by itself says nothing of
  the records, and is not inductive.
  `TraceInv` follows what the harness launches: a launch that has processes is the one
  the marker of its AVD names, with all of them (`Convicted`), so that there is at most
  one for each AVD; a final marker was written after the fork; the record is in force for
  the listing the next launch goes by (`InForce`); a sweep judges from a listing that
  lacks nothing (`Judgeable`), and a stop waits for each process or leaves the marker
  that has it (`Targeted`). `LeftoverEmulatorConvictable` is what `Convicted` says when
  nobody is at work. It holds while no listing failed, no launch went unrecorded, no
  backend was forked after the listing of a stop and no device was mistaken (`Unbroken`).
* **VaultWindows.** What a transport has on record is backed by a visit that uses the
  vault and is true of window and entry unless that visit was misled (`Records`); a
  window a transport opened is on record, or on its way to be, or in the hands of a visit
  that has still to close it or failed to (`Owned`); what a visit has looked at holds
  until it acts on it (`Looks`). The user acts at any moment. The proof found that visits
  which share a record mislead each other, which `Misled` states.
* **HostDirectories, OwnedInstance, DesktopRun.** `RunIInv` is the conjunction of the
  invariants of the two parts, which do not read each other.
  `SweepInv` relates a sweep to the time it began: what a setup has made was made before now
  (`MadeFirst`), a sweep is of this moment and never about to look at what its process has on
  its books (`SweepsNow`), and what was old when it began is gone, still to be looked at, or
  passed by for a reason (`OldAreFound`). `FilesInv` has a setup at work, or an unpacking that
  was broken off, behind each file that is there in part.
  An instance is followed from its plan: what a harness owns and why it kills (`Plans`), which
  instances are yet to be launched (`Launches`), and what a kill has hold of at each of its
  steps (`Kills`), unless it is `Excused`: its query or kill failed, or an heir served no port
  when the owners were listed. Hence what outlives its attempt is excused or has lost its
  harness (`EarlierEnded`). `OneInstanceAtATime` says nothing of a kill under way, nor of the
  attempt after it, and is not inductive. `Markers` and `DeathsOnRecord` are the two
  directions of what an exit marker says. All steps of a harness but three launch nothing and
  arm no watchdog (`Quiet`): each part is proved of these as of one step, and of the three.
  `NoDeathIsMistaken` assumes `RefusalLimit < ProbeLimit`, that servers which listen refuse
  fewer connects than one watchdog makes: when each probe of a listening server is refused,
  the watchdog does end an instance whose harness lives, and the code counts on that not
  to happen. The other half, `OrderedDeathsUnrecorded`, needs no such assumption.
* **CdpTransport.** `ChannelInv` is what the run checks, and is not inductive: it says nothing of
  the wire. The invariant adds where a call can stand with what it holds (`Places`, `Sockets`),
  that there is one open socket unless two calls have reconnected at once (`OneSocket`), and that
  an id on the wire which some call waits for is that call's own command (`Wire`), which is what
  makes a late answer harmless. `Overrides` and `Pictures` follow a screenshot's override from the
  set to the clear: it is in force from the answer to the set on, unless captures overlapped or a
  set or clear on that socket failed or was refused. From `Closures` (a closure has run once its
  command has left the stage in which it was sent) and `Wire` comes the refinement of
  `RemoteCalls`; from `Deliveries` that a reported overrun is of a closure that was delivered or
  whose socket closed. The proofs are for any number of calls, vaults and upheavals.
* **PageNamespace.** `Namespaces` says where a call has found its namespace and that this is of
  its version unless it was overtaken; `Loads` that a namespace has one load, the one its
  `pendingObsidianModule` names, which the page awaits in it or has replaced; `Contexts` that a
  closure has what the namespace in force keeps under its id. `Loads` also has community plugins
  on from the second await of a load, which is why one that neither threw nor lost its namespace
  has stored the module. With what a load leaves they make `NamespaceInv` inductive. For the
  gestures `Numbers` counts the requests of a namespace and has each numbered once; `Asked` says
  who waits for an answer; `Claims` that, of a request every host took to its own namespace, only
  the host that claimed it is at work. The two kinds of step leave each other's variables alone,
  which saves half of the cases.
* **AppiumSession.** One part for each claim. `QueueInv`: what is queued was started before only
  if its call was misreported, and such a call is on its retry, so that no third run follows.
  `BudgetInv`: the budget of a waiting call is what is left of it, what it waited for others and
  what its closure has run. `CalmInv`: a calm transport takes itself to be in the WebView context
  only if it is, and its one call stands at a step from which it gets through, after one retry at
  most (`OnItsWay`), and the session is there. `ForwardInv`: each forward is that of a connection
  that is being opened, that an exit handler of a live process has, or that is adrift; or a
  removal of it failed. The proof found three things the bounded run does not reach, and the model
  was wrong in each: a retry opens a connection of its own while the first is still in the exit
  handlers, so that they are told apart by the attempt; switching to the context in force does
  nothing, so that it heals no dead ChromeDriver; and two calls of one transport disturb each
  other as those of two transports do, so that neither is assured.
* **AndroidStart.** The four parts share no variable, so each has an invariant of its own,
  which the steps of the others leave alone.
  `DeviceSelection`: a verdict is drawn from a pass, but the devices change while it goes on,
  so that `Pass` says what was heard of each device that has not changed since, what the query
  under way knows included; `FirstPass` carries the listing to the launch (none of those passed
  by comes to serve the AVD, but one that started meanwhile), and `Sole` says that no other
  emulator can serve it as long as the launched one is up.
  `DeviceReadiness`: `Numbers` orders the starts of system_server, so that no identity that
  was read can be of a later guest; `Waited` is `RestartsWaitedOut` at each gate before the
  session; `Writable` is the setting between the gate that makes sure of it and the use.
  `VaultStartup`: `StartupInv` needs one thing more, that a pushed marker is on the device.
  `PluginEnabling`: what is reported depends on the order of the layers over `loadPlugin`.
  `Layered`: over the wrapper of an attempt that nothing crossed lies nothing but the patch of
  its own plugin, so that it hears that plugin and, when it ends, is taken off or stays below
  that patch. `Together` and `Counted` say who can be in the page at once and that no attempt
  is made twice; `Attempted` and `InVainBefore`, that an attempt that nothing befell loads its
  plugin, and each that was in vain has met trouble, from which `RetriesHeal` follows.
  `Heeded`: where a plugin that throws has an instance, the attempt that is awaited has heard
  the error, or its job is in `unheard` or `crossed`, from which `EnabledMeansLoaded` follows.
  The assumptions on the constants are that a job is of one kind, that plugins are finitely
  many and that a layer is of an attempt or of a plugin. The proof found two things that the
  bounded run does not reach: `StandsUntilSwept` does not hold of two callers with one vault
  (`OwnVault`), and a reload of a plugin that cannot be loaded reports that without any trouble
  (`ReloadsLoad`). Both are in the properties now.

Checked by TLC only: liveness, since TLAPS does not reason about fairness:
`AcquisitionEnds`, `CrashedHolderIsEvicted`, `RunSettles`, `LeftoverEmulatorStopped`,
`LocksAreGivenUp`, `KilledRunIsRestored`, `EveryCallEnds` of `CdpTransport` and of
`AppiumSession`, `EveryVisitEnds`, `OrphanEnds`, `EveryEvalEnds` and `EverythingEnds`.

`Desktop_proofs` holds the proofs about `VaultWindows` and `DesktopRun` with its two parts,
`Evaluation_proofs` those about `CdpTransport` and `PageNamespace`, `Appium_proofs` those
about `AppiumServer` and `AppiumSession`; every other `X_proofs` those about `X`.

## Known departures

What the code or its documents promise and a small instance refutes. Where a property
has a name, the module states it and no run checks it; what else the code promises is
checked with the lapse named.

| Promise | Why it does not hold |
| --- | --- |
| `SetupLock!MutualExclusion`, with three runs and a crash | two runs judge one stale lock, and the second removes the file the first has just made (`setup/setup-lock.ts:714`); the lock is meant to exclude (file header) |
| `SetupLock!AbandonedLockIsReadable` | a run killed between the exclusive open and the write leaves an empty file, which no run may judge stale (`setup/setup-lock.ts:736`) |
| `SetupLock!ReleaseSparesSuccessor`, with a stalling holder | the release reads and then removes by path; a steal falls between the two (`setup/setup-lock.ts:527`) |
| `AppiumServer!SurvivorConvictable` | reclaim and restart drop the marker before they know that the server is gone (`transport/transport-factory.ts:2473`) |
| `AppiumServer!ForeignOnlyReported` | the exit handler stamps the marker of a server that its kill did stop; a server the user then starts on the port is killed by the next run (`transport/transport-factory.ts:2906`) |
| `EmulatorOwnership!EarlierEmulatorUntouched` | an emulator not yet online when a launch began is shut down over its console when that launch fails (`transport/transport-factory.ts:2992`) |
| `PersistentProfile!OwnAsarsKept` | a run killed between the `mkdir` of the hold and the write of its state makes the next one delete the owner's asars (`persistent-profile-updates.ts:128`); so does a registration repeated after a failed hold |
| `PersistentProfile!RegistryMerged` | a run killed between the open and the write of `obsidian.json` leaves an empty file, which the next merges as an empty registry (`transport-desktop-cdp.ts:1876`) |
| `PersistentProfile!OneRunPerProfile`, with `Racing` | the lock file is read and written with no exclusive create (`persistent-profile.ts:157`) |
| `PersistentProfile!OneInstancePerProfile` | the lock names the run, the instance outlives it (`persistent-profile.ts:152`) |
| `CoreSetup!ExitReleasesLock` | only completed setups are on the books of the exit handler: an exit during a setup leaves its lock (`setup/global-setup-core.ts:468`, against `setup-lock.ts:15`) |
| `CoreSetup!BothProjectsGetReady` | two Android projects of one process wait for one lock (`setup/global-setup-core.ts:394`) |
| `CdpTransport!CapMeansOutrun` | an evaluation of another vault closes the socket between the connection and the send of the first, which then reports an overrun of a closure that was never delivered (`transport-desktop-cdp.ts:1169`, against `eval-cap-exceeded-error.ts:63`) |
| an answer is that of the closure | an evaluation that is answered by an error has no result and becomes `undefined`, a success, although its closure may not have run (`transport-desktop-cdp.ts:667`, `eval-in-obsidian.ts:889`; `Refuse` and the outcome "blank" in `CdpTransport`) |
| a picture is taken at its size and the override is always cleared | the set and the clear of the override do not look at the answer, so a refused one passes for done (`transport-desktop-cdp.ts:506`, `:530`, against the comment at `:491`; `OverrideFailed` in `CdpTransport`) |
| an instance is killed by its owner only | the survivors of an instance are whoever owns its port, which may have been recycled (`transport-desktop-cdp.ts:1283`; `unseen`, `late` in `OwnedInstance`) |
| the module is loaded for every closure | two early evaluations bootstrap one after the other; the load of the first is lost with its namespace and its call fails (`namespace-bootstrap.ts:1445`; `replaced` in `PageNamespace`) |
| a load leaves nothing behind | no `finally` encloses its awaits: one that throws leaves the manifest and the folder of the temporary plugin, and fails every call that shares the load (`namespace-bootstrap.ts:1410-1439`; `threw` in `PageNamespace`); so does a `mkdir` of a directory that another load has made since it was looked for |
| a closure sees its own host's lib | between the check and the call another host may install its version (`namespace-bootstrap.ts:84`; `overtaken`) |
| an input request is served once | after a reload ids start again, and a host that was late answers a request of the new page (`namespace-bootstrap.ts:587`; `strays`) |
| no forward outlives its process | one whose connection was not handed over when its process ended, or when a later command of the attach failed, does, and so does one of a process that is killed (`transport-appium.ts:811`; `adrift` in `AppiumSession`); every removal is best effort and swallows its failure (`webview-cdp.ts:194`, `:448`; `unremoved`); and disposing of a channel removes the forward another host shares (`webview-cdp.ts:290`) |
| an evaluation that is repeated never ran | "no such window" is taken to come before the script runs (`transport-appium.ts:535`), but it is also what a script may end with whose window goes while it runs: its closure then runs again (`misreported` in `AppiumSession`) |
| an overrun is not charged to the next call | the grace is for the first send only, the retry has the bare cap again (`transport-appium.ts:972`), and a capped call that is still queued runs later |
| a framework that restarted is waited for | when the gate's deadline passes in the probe that sees the restart, the idle wait is skipped (`transport-factory.ts:3400`, against its comment at 3352); when the image changes the kind of identity it reports, restarts go unseen (`blind` in `DeviceReadiness`) |
| only leftovers of earlier runs are pruned | a registration prunes every temporary vault that is registered when it runs and is not its own, that of another worker of the same run included (`transport-appium.ts:685`; `swept` in `VaultStartup`) |
| a handle over a shared vault is safe to dispose of | the files on the host stay, but the vault is unregistered and removed from the device for whoever else uses it (`vault/temporary-vault.ts:119`, `transport-appium.ts:727`; `OwnVault` in `VaultStartup`) |
| the device of another is left alone | both `deviceIdsBefore` and the ignored devices are kept by ids that adb gives again: an emulator of ours on such an id is never selected (`launched-device-selection.ts`; `fresh`, `changed` in `DeviceSelection`) |
| a launch that collided is refused | its holder's device, when it comes online before the exit of the launch is looked at, is taken for the launched one (`transport-factory.ts:3615`, before 3627; `collided`) |
| the plugin manager is left as it was found | a wrapper under the patch of a plugin never unwinds, and each reload adds one (`plugin/enable-plugin.ts:177`) |
| a plugin that fails to load is refused | one that throws leaves its instance, and where no attempt watched the load - with the vault, which is the default, with the page, on `setEnable`, or in an attempt that was given up - the enable finds the instance, hears nothing and reports success (`setup/global-setup-core.ts:836`, `plugin/enable-plugin.ts:94`, `plugin/plugin-lifecycle.ts:121`; `unheard` in `PluginEnabling`) |
| an error is charged to its plugin | the wrapper asks for no plugin id, so that attempts which overlap hear each other's errors (`enable-plugin.ts`; `crossed` in `PluginEnabling`); noise of something else beside a load that was lost ends the retries (`plugin/plugin-enable-retry.ts:94`) |
| a leak is reported | two looks share one property of the window, and a page that was reloaded reads as "collected"; a failing look leaves its plugin disabled (`plugin/plugin-lifecycle.ts`) |
| a live run keeps its directories | a setup older than the age gate loses them to the sweep of another process, since exclusions name what one process has on its books, and vaults only, never user-data directories (`setup/leftover-cleanup.ts:335`, `setup/global-setup-core.ts:522`; `lost` in `HostDirectories`) |
| a file in the cache is complete | a shell or an asar is found in the midst of another's extraction or write, and after one that was cut off (`desktop/versions/obsidian-installer.ts:130`, `desktop/versions/obsidian-version-switch.ts:99`; `cut`) |

## Not modelled

* Wording, paths, parsing of command output, image and keyboard geometry: pure data.
* A profile's owner running Obsidian by hand while a run uses it, and two transports
  of one process on one profile (`heldProfiles`): the model has one transport per run.
* A dead profile holder whose pid is recycled: it would refuse runs, and nothing more.
* Two transports of one run at once on the emulators, a run that uses them without the
  setup lock (no reaper is armed then), a reaper that is killed or cannot read the lock,
  and a device id that adb gives to another emulator later.
* What a transport does after it has deleted its session, of which the others only see that it
  is terminated, and timeouts of 0 for the framework and idle gates, which switch the gates off.
* The sweep of the vaults on a device, two callers of `getOrCreateTransport` at once
  (`transport-factory.ts:3729`), snapshots of emulators, and the copying of a plugin.
* Clocks: thresholds are crossed nondeterministically, as far as the order between
  them matters.
* The components marked `not_modelled` in PROJECT.json, each with its reason.
