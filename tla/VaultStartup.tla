---------------------------- MODULE VaultStartup ----------------------------
(***************************************************************************)
(* Vaults on a device: their registration in the localStorage of the app,  *)
(* the reload that opens one of them, the two phases in which the start of *)
(* the app is awaited, and the removal                                     *)
(* (src/android/appium/transport-appium.ts, what the probe reads and       *)
(* clicks being src/android/mobile-vault-startup.ts).                      *)
(*                                                                         *)
(* Callers in workers of their own register vaults in one app.  The        *)
(* scripts they run in its page are atomic: the page has one thread.  The  *)
(* app is external: a document is loaded without an app, opens the         *)
(* selected vault or shows the picker, and finishes in stages.  A probe    *)
(* without an answer changes nothing and is left out.                      *)
(***************************************************************************)
EXTENDS Naturals

CONSTANTS
  Vaults,
  Callers,
  NoVault,
  VaultOf,        (* the vault each caller registers *)
  UserVaults,     (* vaults that were registered by the user of the device *)
  OldVaults,      (* vaults that an earlier run has left registered *)
  Internal,       (* vaults the picker lists though they are not in the registry *)
  SameName,       (* the pairs of vaults that have one name *)
  MishapLimit     (* bound on dying sessions, closed windows, failed pushes and removals *)

OurVaults == {VaultOf[c] : c \in Callers}

ASSUME StartupAssumption ==
  /\ VaultOf \in [Callers -> Vaults]
  /\ UserVaults \cup OldVaults \cup Internal \subseteq Vaults
  /\ UserVaults \cap (OurVaults \cup OldVaults) = {}
  /\ Internal \cap (OurVaults \cup UserVaults \cup OldVaults) = {}
  /\ NoVault \notin Vaults
  /\ MishapLimit \in Nat

VARIABLES
  sweeps,      (* shouldSweepLeftovers *)
  registered,  (* mobile-external-vaults *)
  trusted,     (* the vaults with an enable-plugin key *)
  selected,    (* mobile-selected-vault *)
  files,       (* the vaults whose directory is on the device *)
  page,        (* the document: its vault and stage, its picker, what is being opened *)
  session,     (* the Appium session is alive *)
  window,      (* ChromeDriver holds a window that is open *)
  vpc,         (* where a caller stands *)
  recovers,    (* the probes of a caller may still recover from the picker *)
  swept,       (* history: a caller's registration was pruned by another's *)
  mishaps

registry == <<registered, trusted, selected>>
callerVars == <<vpc, recovers, swept>>
startupVars == <<sweeps, registry, files, page, session, window, callerVars, mishaps>>

Phases == {"app-start", "layout-ready"}
Stages == 0..3  (* no app; an app; its workspace; the layout is ready *)

StartupTypeOK ==
  /\ sweeps \in BOOLEAN
  /\ registered \subseteq Vaults /\ trusted \subseteq Vaults /\ files \subseteq Vaults
  /\ selected \in Vaults \cup {NoVault}
  /\ page \in [live : Vaults \cup {NoVault}, stage : Stages, leaving : BOOLEAN,
               screen : Vaults \cup {NoVault, "main"}, listed : SUBSET Vaults,
               opening : Vaults \cup {NoVault}]
  /\ session \in BOOLEAN /\ window \in BOOLEAN
  /\ vpc \in [Callers -> {"idle", "pushed", "ready", "failed", "deregistered", "gone"} \cup Phases]
  /\ recovers \in [Callers -> BOOLEAN] /\ swept \in [Callers -> BOOLEAN]
  /\ mishaps \in 0..MishapLimit

EmptyDocument ==
  [live |-> NoVault, stage |-> 0, leaving |-> FALSE, screen |-> NoVault, listed |-> {}, opening |-> NoVault]

StartupInit ==
  /\ sweeps \in BOOLEAN
  /\ registered = UserVaults \cup OldVaults /\ trusted = registered
  /\ selected \in registered
  /\ files = UserVaults \cup (IF sweeps THEN {} ELSE OldVaults)
  /\ page = EmptyDocument
  /\ session = TRUE /\ window = TRUE
  /\ vpc = [c \in Callers |-> "idle"]
  /\ recovers = [c \in Callers |-> FALSE] /\ swept = [c \in Callers |-> FALSE]
  /\ mishaps = 0

CallerGoto(c, where) == vpc' = [vpc EXCEPT ![c] = where]

Mishap ==
  /\ mishaps < MishapLimit
  /\ mishaps' = mishaps + 1

----------------------------------------------------------------------------
(* registerVault: the marker, the script in the page, the reload. *)

pushObsidianMarker(c) ==
  /\ vpc[c] = "idle"
  /\ \/ files' = files \cup {VaultOf[c]} /\ CallerGoto(c, "pushed") /\ UNCHANGED mishaps
     \/ Mishap /\ CallerGoto(c, "failed") /\ UNCHANGED files
  /\ UNCHANGED <<sweeps, registry, page, session, window, recovers, swept>>

Temporary == OurVaults \cup OldVaults

(* Mutant: what an empty prefix selects is pruned as well. *)
AnyPrefix(v) == (IF sweeps THEN registered \cap Temporary ELSE registered) \ {v}

(* Mutant: leftovers are pruned unasked. *)
PrunesAlways(v) == (registered \cap Temporary) \ {v}

Stale(v) == IF sweeps THEN (registered \cap Temporary) \ {v} ELSE {}

KeysLeft(v) == trusted \ Stale(v)

(* A script needs the session, and a window that is open or known to be closed. *)
CanScript == session
MayFail == ~session \/ ~window

registerVault(c) ==
  LET v == VaultOf[c] IN
  /\ vpc[c] = "pushed"
  /\ \/ /\ CanScript
        /\ registered' = (registered \ Stale(v)) \cup {v}
        /\ selected' = v
        /\ trusted' = KeysLeft(v) \cup {v}
        /\ page' = [page EXCEPT !.leaving = TRUE]
        /\ window' = TRUE
        /\ swept' = [d \in Callers |-> swept[d] \/ (VaultOf[d] \in Stale(v) /\ sweeps)]
        /\ recovers' = [recovers EXCEPT ![c] = TRUE]
        /\ CallerGoto(c, "app-start")
     \/ /\ MayFail
        /\ CallerGoto(c, "failed")
        /\ UNCHANGED <<registry, page, window, swept, recovers>>
  /\ UNCHANGED <<sweeps, files, session, mishaps>>

----------------------------------------------------------------------------
(* waitForStartupMilestone, for the start of the app and for its layout. *)

(* Mutant: any app will do. *)
AnyApp(v) == page.live # NoVault

(* The app whose adapter has the path that was requested. *)
HasRequestedApp(v) == page.live = v

checkAppStarted(v) == HasRequestedApp(v) /\ page.stage >= 1

checkLayoutReady(v) == HasRequestedApp(v) /\ page.stage = 3

(* The probe is satisfied. *)
Satisfied(c) ==
  /\ vpc[c] \in Phases /\ session /\ window
  /\ IF vpc[c] = "app-start"
     THEN checkAppStarted(VaultOf[c]) /\ CallerGoto(c, "layout-ready")
     ELSE checkLayoutReady(VaultOf[c]) /\ CallerGoto(c, "ready")
  /\ UNCHANGED <<sweeps, registry, files, page, session, window, recovers, swept, mishaps>>

Recovers(c) ==
  /\ vpc[c] = "app-start" /\ session /\ window
  /\ recovers[c] /\ page.live = NoVault

(* Mutant: whatever the picker shows is opened. *)
AnyDetails(v) == page.screen \in Vaults

DetailsOf(v) == page.screen = v

(* "Open vault" is clicked only in details with the full path. *)
OpenFromPicker(c) ==
  /\ Recovers(c) /\ DetailsOf(VaultOf[c])
  /\ page' = [page EXCEPT !.opening = page.screen]
  /\ recovers' = [recovers EXCEPT ![c] = FALSE]
  /\ UNCHANGED <<sweeps, registry, files, session, window, vpc, swept, mishaps>>

Named(v) == {u \in page.listed : u = v \/ {u, v} \in SameName}

(* A name selects details if one action has it. *)
SelectInPicker(c) ==
  /\ Recovers(c) /\ page.screen = "main"
  /\ VaultOf[c] \in registered
  /\ \E u \in Vaults : Named(VaultOf[c]) = {u} /\ page' = [page EXCEPT !.screen = u]
  /\ UNCHANGED <<sweeps, registry, files, session, window, callerVars, mishaps>>

SessionTerminated(c) ==
  /\ vpc[c] \in Phases /\ ~session
  /\ CallerGoto(c, "failed")
  /\ UNCHANGED <<sweeps, registry, files, page, session, window, recovers, swept, mishaps>>

WindowRecovers(c) ==
  /\ vpc[c] \in Phases /\ session /\ ~window
  /\ window' = TRUE
  /\ UNCHANGED <<sweeps, registry, files, page, session, callerVars, mishaps>>

(* Mutant: the time counts only while no app is up. *)
WhileNoApp == page.live = NoVault

TimeCounts == TRUE

StartupDeadline(c) ==
  /\ vpc[c] \in Phases /\ TimeCounts
  /\ CallerGoto(c, "failed")
  /\ UNCHANGED <<sweeps, registry, files, page, session, window, recovers, swept, mishaps>>

----------------------------------------------------------------------------
(* unregisterVault: the registry if the page can be reached, the files in any case. *)

(* Mutant: the selection is left as it is. *)
SelectionStays(v) == {selected}

SelectionWithout(v) ==
  IF selected # v THEN {selected}
  ELSE IF registered \ {v} = {} THEN {NoVault} ELSE registered \ {v}

unregisterVault(c) ==
  LET v == VaultOf[c] IN
  /\ vpc[c] \in {"ready", "failed"}
  /\ CallerGoto(c, "deregistered")
  /\ \/ /\ CanScript
        /\ registered' = registered \ {v}
        /\ trusted' = trusted \ {v}
        /\ selected' \in SelectionWithout(v)
        /\ window' = TRUE
     \/ MayFail /\ UNCHANGED <<registry, window>>
  /\ UNCHANGED <<sweeps, files, page, session, recovers, swept, mishaps>>

removeDeviceVaultDirectory(c) ==
  /\ vpc[c] = "deregistered"
  /\ CallerGoto(c, "gone")
  /\ \/ files' = files \ {VaultOf[c]} /\ UNCHANGED mishaps
     \/ Mishap /\ UNCHANGED files
  /\ UNCHANGED <<sweeps, registry, page, session, window, recovers, swept>>

----------------------------------------------------------------------------
(* The app, and what befalls the session. *)

AppUnchanged == UNCHANGED <<sweeps, registry, files, session, window, callerVars, mishaps>>

DocumentLoads ==
  /\ page.leaving
  /\ page' = EmptyDocument
  /\ AppUnchanged

(* The selected vault is opened, or the picker is shown. *)
AppStarts ==
  /\ page = EmptyDocument
  /\ \/ /\ selected \in registered \cap files
        /\ page' = [page EXCEPT !.live = selected, !.stage = 1]
     \/ page' = [page EXCEPT !.screen = "main", !.listed = registered \cup Internal]
  /\ AppUnchanged

AppAdvances ==
  /\ page.stage \in 1..2 /\ ~page.leaving
  /\ page' = [page EXCEPT !.stage = @ + 1]
  /\ AppUnchanged

PickerOpens ==
  /\ page.opening # NoVault /\ ~page.leaving
  /\ page' = [EmptyDocument EXCEPT !.live = page.opening, !.stage = 1]
  /\ AppUnchanged

SessionMishap ==
  /\ \E c \in Callers : vpc[c] \notin {"idle", "gone"}
  /\ Mishap
  /\ \/ session /\ session' = FALSE /\ UNCHANGED window
     \/ window /\ window' = FALSE /\ UNCHANGED session
  /\ UNCHANGED <<sweeps, registry, files, page, callerVars>>

AppStep == DocumentLoads \/ AppStarts \/ AppAdvances \/ PickerOpens \/ SessionMishap

CallerStep(c) ==
  \/ pushObsidianMarker(c) \/ registerVault(c) \/ Satisfied(c) \/ OpenFromPicker(c)
  \/ SelectInPicker(c) \/ SessionTerminated(c) \/ WindowRecovers(c) \/ StartupDeadline(c)
  \/ unregisterVault(c) \/ removeDeviceVaultDirectory(c)

----------------------------------------------------------------------------
(* A registration that returns has the requested vault open and laid out, though the document that
   the reload replaces, the vault of another caller or the picker may be in the page meanwhile
   (mobile-vault-startup.ts:69). *)
ReadyIsRequested ==
  [][\A c \in Callers : vpc[c] # "ready" /\ vpc'[c] = "ready"
                          => page.live = VaultOf[c] /\ page.stage = 3]_startupVars

(* Whatever the run registers, prunes and removes, the vaults of the user stay registered, trusted
   and in place (transport-appium.ts:679). *)
UserVaultsKept == UserVaults \subseteq registered \cap trusted \cap files

(* No other caller has the vault of this one. *)
OwnVault(c) == \A d \in Callers \ {c} : VaultOf[d] # VaultOf[c]

(* A vault that was registered stays so until it is unregistered, unless another caller's
   registration pruned it (transport-appium.ts:685), or another caller has the same vault. *)
StandsUntilSwept ==
  \A c \in Callers : OwnVault(c) /\ vpc[c] \in Phases \cup {"ready"}
    => swept[c] \/ VaultOf[c] \in registered \cap trusted \cap files

(* Keys and the selection are only of vaults that are registered (transport-appium.ts:735). *)
NothingDangles ==
  /\ trusted \subseteq registered
  /\ selected \in registered \cup {NoVault}

(* The picker is never made to open a vault that no caller requested, be its name the same
   (mobile-vault-startup.ts:88). *)
OnlyRequestedOpened == page.opening \in OurVaults \cup {NoVault}

(* The one registry of the app, shared by the callers, the user and the leftovers of earlier runs,
   stays whole. *)
StartupInv ==
  StartupTypeOK /\ UserVaultsKept /\ StandsUntilSwept /\ NothingDangles /\ OnlyRequestedOpened
=============================================================================
