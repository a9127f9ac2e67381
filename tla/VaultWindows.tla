---------------------------- MODULE VaultWindows ----------------------------
(***************************************************************************)
(* Vaults registered in a running Obsidian that the transport did not      *)
(* launch (src/desktop/transport-desktop-cdp.ts, openVaultInRunningInstance *)
(* and unregisterVault): the window of a vault that is open is adopted,    *)
(* another is opened over IPC through a window that exists, and what the   *)
(* transport opened, and only that, is closed and removed from the vault   *)
(* list again (src/vault/vault-teardown-verdict.ts).                       *)
(*                                                                         *)
(* Workers of one run and debugging sessions share the instance with its   *)
(* user.  A visit is the life of one TemporaryVault: register, use,        *)
(* dispose.  Every look at the instance and every command to it is a step  *)
(* of its own.                                                             *)
(***************************************************************************)
EXTENDS Naturals, FiniteSets

CONSTANTS
  Visits,       (* the TemporaryVaults *)
  Transports,   (* the transports attached to the instance *)
  TransportOf,  (* the transport of each visit *)
  VaultOf,      (* the vault of each visit *)
  HomeVault,    (* a vault whose window is open from the start *)
  Listed,       (* the vaults that are in the vault list from the start *)
  User,         (* whoever else opens windows: the user, the global setup *)
  None,
  UserLimit     (* bound on what the user does *)

Vaults == {VaultOf[x] : x \in Visits} \cup {HomeVault}

ASSUME VisitsAssumption ==
  /\ IsFiniteSet(Visits)
  /\ TransportOf \in [Visits -> Transports]
  /\ DOMAIN VaultOf = Visits
  /\ Listed \subseteq Vaults
  /\ User \notin Transports /\ None \notin Transports \cup Vaults \cup {User}
  /\ UserLimit \in Nat

VARIABLES
  pc,                      (* pc[x]: where visit x stands *)
  through,                 (* through[x]: the window the commands of x are sent through *)
  keeps,                   (* the visits that close the window and keep the entry *)
  selfRegisteredVaultPaths,(* per transport, the vaults whose window it opened *)
  preRegisteredVaultPaths, (* per transport, the vaults it found in the vault list *)
  window,                  (* who opened the window of a vault *)
  ready,                   (* the windows that report their vault *)
  entry,                   (* who put a vault in the vault list *)
  running,                 (* the instance runs *)
  userSteps,
  removed,                 (* the vaults whose directory has been removed *)
  misled,                  (* history: visits that took another's window for none, or whose window
                              or entry another made after their look, or whose mark of the entry
                              another visit of their transport took away *)
  lapsed                   (* history: visits that failed, or could not close the window *)

instance == <<window, ready, entry, running>>
sets == <<selfRegisteredVaultPaths, preRegisteredVaultPaths>>
vars == <<pc, through, keeps, sets, instance, userSteps, removed, misled, lapsed>>

Registering == {"looking", "adopting", "choosing", "reading", "opening", "polling"}
Disposing   == {"destroying", "closed", "forgetting"}

TypeOK ==
  /\ pc \in [Visits -> {"idle", "registered", "failed", "ended"} \cup Registering \cup Disposing]
  /\ through \in [Visits -> Vaults \cup {None}]
  /\ keeps \subseteq {x \in Visits : pc[x] \in {"destroying", "closed"}}
  /\ selfRegisteredVaultPaths \in [Transports -> SUBSET Vaults]
  /\ preRegisteredVaultPaths \in [Transports -> SUBSET Vaults]
  /\ window \in [Vaults -> Transports \cup {User, None}]
  /\ ready \subseteq {v \in Vaults : window[v] # None}
  /\ entry \in [Vaults -> Transports \cup {User, None}]
  /\ running \in BOOLEAN
  /\ userSteps \in 0..UserLimit
  /\ removed \subseteq Vaults
  /\ misled \subseteq Visits /\ lapsed \subseteq Visits

Init ==
  /\ pc = [x \in Visits |-> "idle"]
  /\ through = [x \in Visits |-> None]
  /\ keeps = {}
  /\ selfRegisteredVaultPaths = [t \in Transports |-> {}]
  /\ preRegisteredVaultPaths = [t \in Transports |-> {}]
  /\ window = [v \in Vaults |-> IF v = HomeVault THEN User ELSE None]
  /\ ready = {HomeVault}
  /\ entry = [v \in Vaults |-> IF v \in Listed \cup {HomeVault} THEN User ELSE None]
  /\ running = TRUE
  /\ userSteps = 0
  /\ removed = {}
  /\ misled = {} /\ lapsed = {}

Goto(x, location) == pc' = [pc EXCEPT ![x] = location]

\* What getPageTargets lists: windows, whether they report a vault yet or not.
Windows == {v \in Vaults : window[v] # None}

\* registerVault throws: nothing of what it did is undone.
RegistrationFails(x) ==
  /\ Goto(x, "failed")
  /\ lapsed' = lapsed \cup {x}

-----------------------------------------------------------------------------
(* registerVault: openVaultInRunningInstance.                              *)

Register(x) ==
  /\ pc[x] = "idle"
  /\ IF running /\ Windows # {}
     THEN Goto(x, "looking") /\ UNCHANGED lapsed
     ELSE RegistrationFails(x)
  /\ UNCHANGED <<through, keeps, sets, instance, userSteps, removed, misled>>

\* adoptAlreadyOpenVault finds the window of the vault.
Adopt(x) ==
  /\ pc[x] = "looking" /\ VaultOf[x] \in ready
  /\ Goto(x, "adopting")
  /\ UNCHANGED <<through, keeps, sets, instance, userSteps, removed, misled, lapsed>>

\* It does not, although some window reports its vault: the window of this one is not
\* there, or still boots, or does not answer the probe in time.
NotOpen(x) ==
  /\ pc[x] = "looking" /\ ready # {}
  /\ Goto(x, "choosing")
  /\ misled' = IF window[VaultOf[x]] \notin {None, TransportOf[x]} THEN misled \cup {x} ELSE misled
  /\ UNCHANGED <<through, keeps, sets, instance, userSteps, removed, lapsed>>

\* Mutant: an adopted window counts as opened.
AdoptedAsOpened(x) ==
  /\ pc[x] = "adopting" /\ VaultOf[x] \in ready
  /\ Goto(x, "registered")
  /\ selfRegisteredVaultPaths' =
       [selfRegisteredVaultPaths EXCEPT ![TransportOf[x]] = @ \cup {VaultOf[x]}]
  /\ UNCHANGED <<through, keeps, preRegisteredVaultPaths, instance, userSteps, removed, misled,
                 lapsed>>

\* The adopted window is ready; it stays whose it was.
Adopted(x) ==
  /\ pc[x] = "adopting" /\ VaultOf[x] \in ready
  /\ Goto(x, "registered")
  /\ UNCHANGED <<through, keeps, sets, instance, userSteps, removed, misled, lapsed>>

\* A window that reports a vault, for the commands to go through.
Choose(x) ==
  /\ pc[x] = "choosing"
  /\ \E w \in ready : through' = [through EXCEPT ![x] = w]
  /\ Goto(x, "reading")
  /\ UNCHANGED <<keeps, sets, instance, userSteps, removed, misled, lapsed>>

\* Mutant: the vault list is not read.
SkipRegistry(x) ==
  /\ pc[x] = "reading" /\ through[x] \in ready
  /\ Goto(x, "opening")
  /\ UNCHANGED <<through, keeps, sets, instance, userSteps, removed, misled, lapsed>>

\* vault-list: an answer that cannot be read counts as listing the vault.
ReadRegistry(x) ==
  /\ pc[x] = "reading" /\ through[x] \in ready
  /\ \E isListed \in {entry[VaultOf[x]] # None, TRUE} :
       preRegisteredVaultPaths' =
         IF isListed THEN [preRegisteredVaultPaths EXCEPT ![TransportOf[x]] = @ \cup {VaultOf[x]}]
                     ELSE preRegisteredVaultPaths
  /\ Goto(x, "opening")
  /\ UNCHANGED <<through, keeps, selfRegisteredVaultPaths, instance, userSteps, removed, misled,
                 lapsed>>

\* The visits that have looked at vault v and are not done with it.
LookedAt(v) == {x \in Visits : VaultOf[x] = v
                               /\ pc[x] \notin {"idle", "looking", "failed", "ended"}}

\* A window and an entry of vault v, made by who where there is none; an open window is
\* only brought to the front.  Visits of others that found none are now misled.
OpenVault(v, who) ==
  /\ window' = [window EXCEPT ![v] = IF @ = None THEN who ELSE @]
  /\ entry' = [entry EXCEPT ![v] = IF @ = None THEN who ELSE @]
  /\ misled' = IF window[v] = None \/ entry[v] = None
               THEN misled \cup {x \in LookedAt(v) : TransportOf[x] # who} ELSE misled

\* vault-open, whose answer may not come.
VaultOpen(x) ==
  /\ pc[x] = "opening" /\ through[x] \in ready
  /\ OpenVault(VaultOf[x], TransportOf[x])
  /\ \/ Goto(x, "polling") /\ UNCHANGED lapsed
     \/ RegistrationFails(x)
  /\ UNCHANGED <<through, keeps, sets, ready, running, userSteps, removed>>

\* Mutant: the window is not recorded as this transport's.
OpenedUnrecorded(x) ==
  /\ pc[x] = "polling" /\ VaultOf[x] \in ready
  /\ Goto(x, "registered")
  /\ UNCHANGED <<through, keeps, sets, instance, userSteps, removed, misled, lapsed>>

\* The poll finds the window ready: only now it is recorded as this transport's.
Opened(x) ==
  /\ pc[x] = "polling" /\ VaultOf[x] \in ready
  /\ Goto(x, "registered")
  /\ selfRegisteredVaultPaths' =
       [selfRegisteredVaultPaths EXCEPT ![TransportOf[x]] = @ \cup {VaultOf[x]}]
  /\ UNCHANGED <<through, keeps, preRegisteredVaultPaths, instance, userSteps, removed, misled,
                 lapsed>>

\* A deadline passes, a command times out, or the window it went through is gone.
GiveUp(x) ==
  /\ pc[x] \in Registering
  /\ RegistrationFails(x)
  /\ UNCHANGED <<through, keeps, sets, instance, userSteps, removed, misled>>

-----------------------------------------------------------------------------
(* TemporaryVault.dispose: unregisterVault, then the directory.            *)

\* Mutant: every vault is torn down.
TearDownAny(x) == TRUE

\* shouldTearDownVaultWindow in an instance the transport did not launch.
shouldTearDownVaultWindow(x) == VaultOf[x] \in selfRegisteredVaultPaths[TransportOf[x]]

\* The finally of dispose: the directory goes whether the vault was unregistered or not.
\* A vault with a directory of the caller's is the one that was listed from the start.
RemoveDirectory(x) ==
  /\ Goto(x, "ended")
  /\ removed' = IF VaultOf[x] \in Listed \cup {HomeVault} THEN removed ELSE removed \cup {VaultOf[x]}

Dispose(x) ==
  LET t == TransportOf[x]
      v == VaultOf[x]
  IN /\ pc[x] \in {"registered", "failed"}
     /\ IF shouldTearDownVaultWindow(x)
        THEN /\ Goto(x, "destroying")
             /\ selfRegisteredVaultPaths' = [selfRegisteredVaultPaths EXCEPT ![t] = @ \ {v}]
             /\ preRegisteredVaultPaths' = [preRegisteredVaultPaths EXCEPT ![t] = @ \ {v}]
             /\ keeps' = IF v \in preRegisteredVaultPaths[t] THEN keeps \cup {x} ELSE keeps
             /\ misled' = IF v \in preRegisteredVaultPaths[t]
                          THEN misled \cup {y \in LookedAt(v) \ {x} : TransportOf[y] = t} ELSE misled
             /\ UNCHANGED removed
        ELSE /\ RemoveDirectory(x)
             /\ UNCHANGED <<keeps, sets, misled>>
     /\ UNCHANGED <<through, instance, userSteps, lapsed>>

\* A window closes; when it was the last one the application may quit.
CloseWindow(v) ==
  /\ window' = [window EXCEPT ![v] = None]
  /\ ready' = ready \ {v}
  /\ \/ UNCHANGED running
     \/ Windows = {v} /\ running' = FALSE

\* destroyCurrentWindow in the window of the vault.
Destroy(x) ==
  /\ pc[x] = "destroying" /\ VaultOf[x] \in ready
  /\ CloseWindow(VaultOf[x])
  /\ Goto(x, "closed")
  /\ UNCHANGED <<through, keeps, sets, entry, userSteps, removed, misled, lapsed>>

\* Any failure is taken for a window that is closed already.
DestroyFails(x) ==
  /\ pc[x] = "destroying"
  /\ Goto(x, "closed")
  /\ lapsed' = lapsed \cup {x}
  /\ UNCHANGED <<through, keeps, sets, instance, userSteps, removed, misled>>

\* Mutant: the mark of the entry outlives the visit.
KeepMark(x) ==
  /\ pc[x] = "closed" /\ x \in keeps
  /\ RemoveDirectory(x)
  /\ UNCHANGED <<through, keeps, sets, instance, userSteps, misled, lapsed>>

\* The entry predates the transport and is kept.
KeepEntry(x) ==
  /\ pc[x] = "closed" /\ x \in keeps
  /\ keeps' = keeps \ {x}
  /\ RemoveDirectory(x)
  /\ UNCHANGED <<through, sets, instance, userSteps, misled, lapsed>>

\* Where there is no window to send vault-remove through, the file is edited.
LookForWindows(x) ==
  /\ pc[x] = "closed" /\ x \notin keeps /\ running
  /\ IF Windows # {}
     THEN Goto(x, "forgetting") /\ UNCHANGED <<entry, removed>>
     ELSE entry' = [entry EXCEPT ![VaultOf[x]] = None] /\ RemoveDirectory(x)
  /\ UNCHANGED <<through, keeps, sets, window, ready, running, userSteps, misled, lapsed>>

\* vault-remove through any other window that reports a vault.
Forget(x) ==
  /\ pc[x] = "forgetting" /\ ready \ {VaultOf[x]} # {}
  /\ entry' = [entry EXCEPT ![VaultOf[x]] = None]
  /\ RemoveDirectory(x)
  /\ UNCHANGED <<through, keeps, sets, window, ready, running, userSteps, misled, lapsed>>

\* Mutant: without an answer, the removal waits for a window as long as it takes.
WaitForWindow(x) ==
  /\ pc[x] = "forgetting" /\ ~running
  /\ RemoveDirectory(x)
  /\ lapsed' = lapsed \cup {x}
  /\ UNCHANGED <<through, keeps, sets, instance, userSteps, misled>>

\* The instance does not answer, or no other window reports a vault in time.
ForgetFails(x) ==
  /\ pc[x] \in {"closed", "forgetting"} /\ x \notin keeps
  /\ RemoveDirectory(x)
  /\ lapsed' = lapsed \cup {x}
  /\ UNCHANGED <<through, keeps, sets, instance, userSteps, misled>>

-----------------------------------------------------------------------------
(* The instance and its user.                                              *)

BecomeReady(v) ==
  /\ window[v] # None /\ v \notin ready
  /\ ready' = ready \cup {v}
  /\ UNCHANGED <<pc, through, keeps, sets, window, entry, running, userSteps, removed, misled,
                 lapsed>>

UserOpens(v) ==
  /\ running /\ window[v] = None /\ userSteps < UserLimit
  /\ userSteps' = userSteps + 1
  /\ OpenVault(v, User)
  /\ UNCHANGED <<pc, through, keeps, sets, ready, running, removed, lapsed>>

UserCloses(v) ==
  /\ window[v] # None /\ userSteps < UserLimit
  /\ userSteps' = userSteps + 1
  /\ CloseWindow(v)
  /\ UNCHANGED <<pc, through, keeps, sets, entry, removed, misled, lapsed>>

VisitStep(x) ==
  \/ Adopt(x) \/ NotOpen(x) \/ Adopted(x) \/ Choose(x) \/ ReadRegistry(x)
  \/ VaultOpen(x) \/ Opened(x) \/ GiveUp(x)
  \/ Dispose(x) \/ Destroy(x) \/ DestroyFails(x) \/ KeepEntry(x)
  \/ LookForWindows(x) \/ Forget(x) \/ ForgetFails(x)

Next ==
  \/ \E x \in Visits : Register(x) \/ VisitStep(x)
  \/ \E v \in Vaults : BecomeReady(v) \/ UserOpens(v) \/ UserCloses(v)

Spec == Init /\ [][Next]_vars

\* What was registered is disposed of, and every wait has its deadline.
FairSpec == Spec /\ WF_vars(\E x \in Visits : VisitStep(x))

-----------------------------------------------------------------------------
(* Properties.                                                             *)

\* Visit x, or one that shares with it what the transport records of the vault, is misled.
Misled(x) == \E y \in misled : TransportOf[y] = TransportOf[x] /\ VaultOf[y] = VaultOf[x]

\* A window that somebody else opened is destroyed only on the record of a visit that looked
\* before it was there or before it reported its vault: "a vault that was already open is adopted and
\* never recorded, so nothing here closes it" (vault-teardown-verdict.ts:34).
ForeignWindowSpared ==
  [][\A x \in Visits : pc[x] = "destroying" /\ pc'[x] = "closed" /\ window' # window =>
       window[VaultOf[x]] = TransportOf[x] \/ Misled(x)]_vars

\* An entry of the vault list that somebody else made is removed only on the record of a visit
\* that read the list before it was there, or whose mark of it was taken away: the user's own
\* vault list survives the visits.
ForeignEntryKept ==
  [][\A x \in Visits : pc[x] \in Disposing /\ pc'[x] = "ended" =>
       \/ entry' = entry
       \/ entry[VaultOf[x]] \in {None, TransportOf[x]}
       \/ Misled(x)]_vars

\* While nobody closes its windows, the instance outlives every visit: no visit destroys
\* the only window, which quits the application under all the others.
InstanceSurvives == userSteps = 0 /\ misled = {} => running

\* Once no visit of a transport uses a vault, the transport has no window of it left on a
\* directory that may be gone, unless registering failed or the window could not be closed.
NoWindowLeftBehind ==
  \A v \in Vaults : window[v] \in Transports =>
    \E x \in Visits :
      /\ VaultOf[x] = v /\ TransportOf[x] = window[v]
      /\ pc[x] = "ended" => x \in lapsed

\* No visit waits for ever, whatever the user closes meanwhile: a register is given up and
\* a dispose reaches the removal of the directory.
EveryVisitEnds == []<>(\A x \in Visits : pc[x] \in {"idle", "ended"})

\* The visits quit the application under nobody, and leave no window behind.
VisitInv == TypeOK /\ InstanceSurvives /\ NoWindowLeftBehind

\* What somebody else opened or registered, the visits neither close nor forget.
ForeignIsSpared == ForeignWindowSpared /\ ForeignEntryKept
=============================================================================
