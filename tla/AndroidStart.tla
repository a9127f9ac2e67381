---------------------------- MODULE AndroidStart ----------------------------
(***************************************************************************)
(* The start of a run on a device: a device is chosen or launched          *)
(* (DeviceSelection) and made ready (DeviceReadiness), once a session is   *)
(* connected, vaults are registered and opened in the app (VaultStartup),  *)
(* and in a vault that is open the plugins are enabled and tested          *)
(* (PluginEnabling).                                                       *)
(***************************************************************************)
EXTENDS DeviceSelection, DeviceReadiness, VaultStartup, PluginEnabling

CONSTANTS
  TheDevice, (* the device that is followed once it is chosen *)
  Enabler    (* the caller in whose vault plugins are enabled *)

ASSUME StartAssumption == TheDevice \in Emulators /\ Enabler \in Callers

vars == <<selectionVars, readinessVars, startupVars, pluginVars>>

Init == SelectionInit /\ ReadinessInit /\ StartupInit /\ PluginInit

Choosing == spc \notin SelectionOver

(* Bound: a device is made ready where nothing stood in the way of its choice, at the first poll: what it goes through
   depends on how it was come by, which is its origin, and on nothing else. *)
Starting ==
  /\ pc \notin Over
  /\ quirks = 0 /\ polls <= 1 /\ chosen = TheDevice
  /\ spc = IF origin = "launched" THEN "launched" ELSE "reused"

(* Bound: vaults are registered on one kind of device, in the runs that met no trouble before and
   found the guest idle: the start of a vault reads nothing of what the device went through. *)
Registering == origin = "launched" /\ owned /\ identifies = "pid" /\ troubles = 0
Connected == pc = "connected" /\ Registering /\ guest.calm

(* Bound: plugins are enabled where one caller has registered its vault, without a mishap, and
   nothing befalls that vault meanwhile but what befalls its page. *)
Opened ==
  /\ Connected /\ mishaps = 0 /\ sweeps /\ recovers[Enabler]
  /\ vpc = [c \in Callers |-> IF c = Enabler THEN "ready" ELSE "idle"]

Enabling == \E j \in Jobs : job[j] \notin Unbegun

(* Bound: what happens to other devices is followed in the runs that register no vaults, and what
   befalls the guest, the app and another caller in those that enable no plugins. *)
Undisturbed == Registering => quirks' = 0
Planned == \E j \in Jobs : job[j] # "unplanned"
Quiet == Planned => troubles' = 0
Alone == Planned => mishaps' = 0 /\ \A c \in Callers \ {Enabler} : vpc'[c] = "idle"

Choice == Choosing /\ SelectionStep /\ Undisturbed /\ UNCHANGED <<readinessVars, startupVars, pluginVars>>
Others == Choosing /\ DeviceStep /\ Undisturbed /\ UNCHANGED <<readinessVars, startupVars, pluginVars>>
Ready == Starting /\ ReadinessStep /\ UNCHANGED <<selectionVars, startupVars, pluginVars>>
Guest == Starting /\ GuestStep /\ Quiet /\ UNCHANGED <<selectionVars, startupVars, pluginVars>>
Call(c) == Connected /\ ~Enabling /\ CallerStep(c) /\ Alone /\ UNCHANGED <<selectionVars, readinessVars, pluginVars>>
App == Connected /\ ~Enabling /\ AppStep /\ Alone /\ UNCHANGED <<selectionVars, readinessVars, pluginVars>>
Job(j) == Opened /\ JobStep(j) /\ UNCHANGED <<selectionVars, readinessVars, startupVars>>
Page == Opened /\ PageStep /\ UNCHANGED <<selectionVars, readinessVars, startupVars>>

Next ==
  \/ Choice \/ Others
  \/ Ready \/ Guest
  \/ (\E c \in Callers : Call(c)) \/ App
  \/ (\E j \in Jobs : Job(j)) \/ Page

Harness == Choice \/ Ready \/ (\E c \in Callers : Call(c)) \/ (\E j \in Jobs : Job(j))

(* Node runs on: every command has a timeout and every loop a deadline, and whatever waits takes
   finitely many steps, so that it is enough that some step is taken.  The guest, the app and the
   page owe nothing. *)
Fairness == WF_vars(Harness)

Spec == Init /\ [][Next]_vars /\ Fairness

Waiting == Choosing \/ Starting \/ (\E c \in Callers : vpc[c] \in Phases) \/ Busy # {}

(* A device is chosen, and connected or given up, a registration returns or fails and jobs end, whether or not
   the guest, adbd, the app or the page ever answer (transport-factory.ts:3311,
   global-setup-core.ts:803): whoever waited for ever would be waiting always. *)
EverythingEnds == []<>~Waiting

(* The device of a session is the right one, and as ready as it is taken to be. *)
DeviceInv == SelectionInv /\ ReadinessInv

(* What the app holds for several callers, its registry of vaults and the plugins in a page, is
   neither lost nor misreported. *)
AppInv == StartupInv /\ PluginInv
=============================================================================
