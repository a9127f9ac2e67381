-------------------------- MODULE DeviceReadiness --------------------------
(***************************************************************************)
(* What an Android emulator goes through before a session is created on it *)
(* (src/transport/transport-factory.ts): the boot, the idle gate, the      *)
(* network gate, the framework gate with its detection of a restarted      *)
(* system_server (src/android/framework-readiness.ts), the one setting     *)
(* that is written, the diagnosis of a silent device                       *)
(* (src/android/emulator/emulator-liveness.ts) and the one fresh boot of   *)
(* an emulator the run owns.                                               *)
(*                                                                         *)
(* A loop that polls until a deadline is its successful poll and its       *)
(* deadline: a poll that fails changes nothing.  The start of a            *)
(* system_server is known by a number, for its start_uptime or its pid.    *)
(***************************************************************************)
EXTENDS Naturals

CONSTANTS
  Services,     (* the framework services that are asked for, "settings" among them *)
  None,
  TroubleLimit  (* bound on dying servers, reboots, silences and failing commands together *)

ASSUME ReadinessAssumption ==
  /\ "settings" \in Services
  /\ TroubleLimit \in Nat

VARIABLES
  origin,     (* how the device came: "launched", "taken-over" or "adopted" *)
  owned,      (* ownedEmulatorPids is not empty *)
  attempt,
  pc,         (* where the harness stands *)
  identifies, (* what the image identifies a system_server by *)
  guest,      (* the guest: booted, calm, and its registered services *)
  server,     (* system_server: its number, its start_count, and whether it is up *)
  emulator,   (* what answers: adbd, the console, and whether adb lists the device; is it up *)
  hidden,     (* hide_error_dialogs is in force *)
  baseline,   (* the identity in systemServerBaselines *)
  seen,       (* the identity at the probe that ended the second gate *)
  polled,     (* the loop has probed *)
  troubles,
  born,       (* history: the number of the last server before this guest *)
  settled,    (* history: the last server that was waited for to become idle *)
  skipped,    (* history: an idle wait was skipped for want of time *)
  blind,      (* history: a probe had no identity of its kind to compare with *)
  spoiled     (* history: the first gate gave up, or trouble came between it and the setting *)

system == <<identifies, guest, server, emulator>>
origins == <<origin, owned, attempt>>
marks == <<born, settled, skipped, blind, spoiled>>
readinessVars == <<origins, pc, system, hidden, baseline, seen, polled, troubles, marks>>

Kinds == {"start-count", "pid"}
Identities == [kind : Kinds, n : Nat, count : Nat]
Gates == {"gate", "last-gate"}
IdleWaits == {"idle", "settle", "last-settle"}
Over == {"connected", "failed"}

ReadinessTypeOK ==
  /\ origin \in {"launched", "taken-over", "adopted"} /\ owned \in BOOLEAN /\ attempt \in 1..2
  /\ pc \in {"boot", "baseline", "network", "dialogs", "diagnose", "replace", "connect"}
            \cup Gates \cup IdleWaits \cup Over
  /\ identifies \in Kinds
  /\ guest \in [booted : BOOLEAN, calm : BOOLEAN, services : SUBSET Services]
  /\ server \in [n : Nat, count : Nat, up : BOOLEAN]
  /\ emulator \in [adbd : BOOLEAN, console : BOOLEAN, listed : BOOLEAN, up : BOOLEAN]
  /\ hidden \in BOOLEAN
  /\ baseline \in Identities \cup {None} /\ seen \in Identities \cup {None}
  /\ polled \in BOOLEAN /\ troubles \in 0..TroubleLimit
  /\ born \in Nat /\ settled \in Nat
  /\ skipped \in BOOLEAN /\ blind \in BOOLEAN /\ spoiled \in BOOLEAN
  /\ guest.services # {} => server.up

FreshGuest == [booted |-> FALSE, calm |-> FALSE, services |-> {}]
FreshEmulator == [adbd |-> TRUE, console |-> TRUE, listed |-> TRUE, up |-> TRUE]

(* A device that was launched is still to boot; one that was found may have booted. *)
ReadinessInit ==
  /\ origin \in {"launched", "taken-over", "adopted"}
  /\ owned \in CASE origin = "launched" -> BOOLEAN
                 [] origin = "taken-over" -> {TRUE}
                 [] origin = "adopted" -> {FALSE}
  /\ attempt = 1 /\ pc = "boot"
  /\ identifies \in Kinds
  /\ \/ guest = FreshGuest /\ server = [n |-> 0, count |-> 0, up |-> FALSE]
     \/ /\ origin # "launched"
        /\ guest \in [booted : {TRUE}, calm : BOOLEAN, services : {Services}]
        /\ server = [n |-> 1, count |-> 1, up |-> TRUE]
  /\ emulator = FreshEmulator
  /\ hidden = FALSE /\ baseline = None /\ seen = None /\ polled = FALSE /\ troubles = 0
  /\ born = 0 /\ settled = 0 /\ skipped = FALSE /\ blind = FALSE /\ spoiled = FALSE

ReadinessGoto(where) == pc' = where /\ polled' = FALSE

Trouble ==
  /\ troubles < TroubleLimit
  /\ troubles' = troubles + 1

----------------------------------------------------------------------------
(* The boot, and the identity of the system_server it ended with. *)

waitForBoot ==
  /\ pc = "boot"
  /\ \/ emulator.adbd /\ guest.booted /\ ReadinessGoto("baseline")
     \/ origin = "launched" /\ ~emulator.up /\ ReadinessGoto("failed")
     \/ ReadinessGoto("failed")
  /\ UNCHANGED <<origins, system, hidden, baseline, seen, troubles, marks>>

(* What a probe reads: a pid only of a server that is up, and a pid also when the start count
   cannot be read. *)
IdentityBy(kind) ==
  IF kind = "pid"
  THEN IF server.up THEN [kind |-> "pid", n |-> server.n, count |-> 0] ELSE None
  ELSE IF server.n = born THEN None
       ELSE [kind |-> "start-count", n |-> server.n, count |-> server.count]

Reads(identity) ==
  \/ identity = IdentityBy(identifies) /\ UNCHANGED troubles
  \/ identifies = "start-count" /\ identity = IdentityBy("pid") /\ Trouble

(* Mutant: an identity that is known already is kept. *)
KeepBaseline(identity) == baseline' = IF baseline = None THEN identity ELSE baseline

SetBaseline(identity) == baseline' = identity

recordSystemServerBaseline ==
  /\ pc = "baseline"
  /\ IF emulator.adbd
     THEN \E identity \in {IdentityBy(kind) : kind \in Kinds} : Reads(identity) /\ SetBaseline(identity)
     ELSE SetBaseline(None) /\ UNCHANGED troubles
  /\ ReadinessGoto("idle")
  /\ UNCHANGED <<origins, system, hidden, seen, marks>>

----------------------------------------------------------------------------
(* The idle gate, which a restart of system_server calls for again; the network gate. *)

Idle == emulator.adbd /\ guest.calm

(* Mutant: the wait has no deadline. *)
UntilIdle == Idle

(* It ends with the device idle, or at its deadline with a warning. *)
IdleWaitEnds == TRUE

AfterIdle ==
  CASE pc = "idle" -> "network"
    [] pc = "settle" -> "gate"
    [] pc = "last-settle" -> "last-gate"

waitForDeviceIdle ==
  /\ pc \in IdleWaits
  /\ IdleWaitEnds
  /\ settled' = server.n
  /\ pc' = AfterIdle
  /\ UNCHANGED <<origins, system, hidden, baseline, seen, polled, troubles, born, skipped, blind, spoiled>>

(* Mutant: the setting is written before any gate. *)
SettingFirst == "dialogs"

AfterNetwork == "gate"

(* With a validated network or without one; then the screen is woken. *)
waitForNetworkValidated ==
  /\ pc = "network"
  /\ ReadinessGoto(AfterNetwork)
  /\ UNCHANGED <<origins, system, hidden, baseline, seen, troubles, marks>>

----------------------------------------------------------------------------
(* The framework gate, before the setting and again before the session. *)

(* Mutant: only the counts are compared. *)
CountsDiffer(from, to) == from.kind = to.kind /\ from.count # to.count

checkIsSystemServerRestarted(from, to) ==
  from.kind = to.kind /\ (from.n # to.n \/ from.count # to.count)

AfterGate == IF pc = "gate" THEN "dialogs" ELSE "connect"
Settling == IF pc = "gate" THEN "settle" ELSE "last-settle"

GiveUpGate ==
  IF pc = "gate"
  THEN spoiled' = TRUE /\ ReadinessGoto("dialogs")
  ELSE UNCHANGED spoiled /\ ReadinessGoto("replace")

(* A verdict is on the identity that was known; the first one that is read becomes it. *)
Verdict(known, identity) ==
  IF known # None /\ identity # None /\ checkIsSystemServerRestarted(known, identity)
  THEN "restarted"
  ELSE IF identity = None \/ guest.services # Services THEN "services-missing" ELSE "ready"

probeFramework ==
  /\ pc \in Gates /\ emulator.adbd
  /\ \E identity \in {IdentityBy(kind) : kind \in Kinds} :
       LET known == IF baseline = None THEN identity ELSE baseline
           verdict == Verdict(known, identity)
       IN
       /\ Reads(identity)
       /\ baseline' = IF verdict = "restarted" THEN identity ELSE known
       /\ blind' = (blind \/ (identity # None /\ (baseline = None \/ known.kind # identity.kind)))
       /\ CASE verdict = "ready" ->
                 /\ ReadinessGoto(AfterGate)
                 /\ seen' = IF pc = "last-gate" THEN identity ELSE seen
                 /\ UNCHANGED <<skipped, spoiled>>
            [] verdict = "restarted" ->
                 \* when the time is up, nothing is waited for
                 /\ \/ pc' = Settling /\ polled' = TRUE /\ UNCHANGED <<skipped, spoiled>>
                    \/ skipped' = TRUE /\ GiveUpGate
                 /\ UNCHANGED seen
            [] verdict = "services-missing" ->
                 polled' = TRUE /\ UNCHANGED <<pc, seen, skipped, spoiled>>
  /\ UNCHANGED <<origins, system, hidden, born, settled>>

(* A probe that is not answered counts as one. *)
ProbeUnanswered ==
  /\ pc \in Gates /\ ~emulator.adbd /\ ~polled
  /\ polled' = TRUE
  /\ UNCHANGED <<origins, pc, system, hidden, baseline, seen, troubles, marks>>

(* The first gate only warns; the second one diagnoses. *)
GateDeadline ==
  /\ pc \in Gates /\ polled
  /\ GiveUpGate
  /\ UNCHANGED <<origins, system, hidden, baseline, seen, troubles, born, settled, skipped, blind>>

----------------------------------------------------------------------------
(* The setting, the diagnosis, the fresh boot, and the session. *)

suppressErrorDialogs ==
  /\ pc = "dialogs"
  /\ hidden' = (hidden \/ (emulator.adbd /\ "settings" \in guest.services))
  /\ ReadinessGoto("diagnose")
  /\ UNCHANGED <<origins, system, baseline, seen, troubles, marks>>

diagnoseDevice ==
  /\ pc = "diagnose"
  /\ ReadinessGoto(IF emulator.adbd THEN "last-gate" ELSE "replace")
  /\ UNCHANGED <<origins, system, hidden, baseline, seen, troubles, marks>>

(* Mutant: one's own emulator is replaced each time. *)
WheneverOwned == owned

CanRetry == attempt < 2 /\ owned

GiveUp ==
  /\ pc = "replace" /\ ~CanRetry
  /\ ReadinessGoto("failed")
  /\ UNCHANGED <<origins, system, hidden, baseline, seen, troubles, marks>>

(* The emulator is stopped and another is launched, which gets its device id; or that fails. *)
Replace ==
  /\ pc = "replace" /\ CanRetry
  /\ \/ /\ ReadinessGoto("boot")
        /\ attempt' = attempt + 1 /\ origin' = "launched" /\ owned' \in BOOLEAN
        /\ guest' = FreshGuest /\ emulator' = FreshEmulator
        /\ server' = [n |-> server.n, count |-> 0, up |-> FALSE]
        /\ born' = server.n
        /\ hidden' = FALSE /\ spoiled' = FALSE
        /\ UNCHANGED troubles
     \/ /\ Trouble
        /\ ReadinessGoto("failed")
        /\ UNCHANGED <<origins, guest, emulator, server, born, hidden, spoiled>>
  /\ UNCHANGED <<identifies, baseline, seen, settled, skipped, blind>>

connectSession ==
  /\ pc = "connect"
  /\ \/ emulator.adbd /\ guest.services = Services /\ ReadinessGoto("connected")
     \/ ReadinessGoto("failed")
  /\ UNCHANGED <<origins, system, hidden, baseline, seen, troubles, marks>>

----------------------------------------------------------------------------
(* The guest and its emulator. *)

HarnessUnchanged == UNCHANGED <<origins, pc, identifies, hidden, baseline, seen, polled, born, settled, skipped, blind>>

ServerStarts ==
  /\ emulator.up /\ ~server.up
  /\ server' = [n |-> server.n + 1, count |-> server.count + 1, up |-> TRUE]
  /\ HarnessUnchanged /\ UNCHANGED <<guest, emulator, troubles, spoiled>>

Registers(service) ==
  /\ emulator.up /\ server.up /\ service \notin guest.services
  /\ guest' = [guest EXCEPT !.services = @ \cup {service}]
  /\ HarnessUnchanged /\ UNCHANGED <<server, emulator, troubles, spoiled>>

(* The boot is completed, and later what follows it is over. *)
Calms ==
  /\ emulator.up /\ guest.services = Services /\ ~guest.calm
  /\ guest' = [guest EXCEPT !.booted = TRUE, !.calm = guest.booted]
  /\ HarnessUnchanged /\ UNCHANGED <<server, emulator, troubles, spoiled>>

Befalls ==
  /\ emulator.up
  /\ Trouble
  /\ spoiled' = (spoiled \/ pc = "dialogs")
  /\ HarnessUnchanged

ServerDies ==
  /\ server.up
  /\ Befalls
  /\ server' = [server EXCEPT !.up = FALSE]
  /\ guest' = [guest EXCEPT !.calm = FALSE, !.services = {}]
  /\ UNCHANGED emulator

GuestReboots ==
  /\ server.up
  /\ Befalls
  /\ server' = [server EXCEPT !.count = 0, !.up = FALSE]
  /\ guest' = FreshGuest
  /\ UNCHANGED emulator

(* adbd falls silent, the whole emulator does, or its process ends; adb may list it all the same. *)
FallsSilent ==
  /\ emulator.adbd
  /\ Befalls
  /\ \/ emulator' = [emulator EXCEPT !.adbd = FALSE]
     \/ emulator' = [emulator EXCEPT !.adbd = FALSE, !.console = FALSE]
     \/ emulator' = [adbd |-> FALSE, console |-> FALSE, listed |-> FALSE, up |-> FALSE]
  /\ UNCHANGED <<guest, server>>

AnswersAgain ==
  /\ emulator.up /\ ~emulator.adbd
  /\ emulator' = FreshEmulator
  /\ HarnessUnchanged /\ UNCHANGED <<guest, server, troubles, spoiled>>

ReadinessStep ==
  \/ waitForBoot \/ recordSystemServerBaseline \/ waitForDeviceIdle \/ waitForNetworkValidated
  \/ probeFramework \/ ProbeUnanswered \/ GateDeadline \/ suppressErrorDialogs \/ diagnoseDevice
  \/ GiveUp \/ Replace \/ connectSession

GuestStep ==
  \/ ServerStarts \/ (\E service \in Services : Registers(service)) \/ Calms
  \/ ServerDies \/ GuestReboots \/ FallsSilent \/ AnswersAgain

----------------------------------------------------------------------------
(* No session is created on a guest whose system_server has started since the boot, before an idle
   wait followed: unless the identity could not be compared, or a gate ran out of time in the very
   probe that saw the restart (transport-factory.ts:3394). *)
RestartsWaitedOut ==
  pc = "connect" => seen.n <= settled \/ blind \/ skipped

(* A restart is reported of this guest only, never of the emulator it replaced, whose device id it
   has (transport-factory.ts:2442). *)
RestartIsOfThisGuest ==
  pc \in (Gates \cup IdleWaits) \ {"idle"} /\ baseline # None => baseline.n > born

(* A session finds the crash dialogs hidden, unless the framework gave no chance to hide them
   (transport-factory.ts:2534). *)
DialogsHidden == pc = "connect" => hidden \/ spoiled

(* Whatever the guest goes through while it is waited for, a session is created on a framework that
   has settled, of the emulator that was launched, with no crash dialog in its way. *)
ReadinessInv == ReadinessTypeOK /\ RestartsWaitedOut /\ RestartIsOfThisGuest /\ DialogsHidden
=============================================================================
