-------------------------- MODULE DeviceSelection --------------------------
(***************************************************************************)
(* Which device a run uses (ensureDeviceConnected in                       *)
(* src/transport/transport-factory.ts): the devices that adb lists are     *)
(* asked which AVD they serve, over the channels of                        *)
(* src/android/avd/avd-name-channel.ts; one that serves the AVD is reused, *)
(* silence is a refusal (avd-probe-verdict.ts), and otherwise an emulator  *)
(* is launched and told among the devices that appear                      *)
(* (launched-device-selection.ts).                                         *)
(*                                                                         *)
(* Emulators that are not of this run come, go and fall silent at any      *)
(* time.  Two of them do not serve one AVD: the second to be launched ends.*)
(***************************************************************************)
EXTENDS Naturals

CONSTANTS
  Emulators,   (* the device ids adb gives to emulators, and gives again *)
  Handsets,    (* other devices *)
  NoDevice,
  PollLimit,   (* the polls that the boot budget leaves time for *)
  QuirkLimit   (* bound on what happens to devices that are not ours, on silences and failed listings *)

ASSUME SelectionAssumption ==
  /\ NoDevice \notin Emulators \cup Handsets
  /\ Emulators \cap Handsets = {}
  /\ {PollLimit, QuirkLimit} \subseteq Nat

Devices == Emulators \cup Handsets

VARIABLES
  spc,       (* where the choice stands *)
  before,    (* deviceIdsBefore *)
  toAsk,     (* the devices that are still to be asked in this pass *)
  query,     (* the query under way: its device, channel and attempt *)
  heard,     (* what the devices have answered *)
  ignored,   (* ignoredDeviceIds *)
  polls,
  chosen,
  launch,    (* the emulator process of this run *)
  ours,      (* the device id of that emulator *)
  serves,    (* what runs behind a device id: an emulator of the wanted AVD, of another, or none *)
  online,    (* the devices in the state "device" *)
  silent,    (* what does not answer, or is not there to answer, on a device *)
  fresh,     (* history: devices behind which an emulator started after the listing *)
  changed,   (* history: devices that changed after they were asked, or while *)
  collided,  (* history: the device whose emulator was in the way of the launch *)
  quirks

asking == <<toAsk, query, heard>>
world == <<launch, ours, serves, online, silent>>
selectionMarks == <<fresh, changed, collided>>
selectionVars == <<spc, before, asking, ignored, polls, chosen, world, selectionMarks, quirks>>

Channels == {"getprop-boot", "getprop-kernel", "console"}
FirstChannel == "getprop-boot"
Chosen == {"reused", "launched"}
SelectionOver == Chosen \cup {"refused", "failed"}
NoQuery == [device |-> NoDevice, channel |-> FirstChannel, attempt |-> 1]

SelectionTypeOK ==
  /\ spc \in {"list", "ask", "launch", "wait", "ask-again"} \cup SelectionOver
  /\ before \subseteq Devices /\ toAsk \subseteq Emulators /\ ignored \subseteq Emulators
  /\ query \in [device : Emulators \cup {NoDevice}, channel : Channels, attempt : 1..2]
  /\ heard \in [Emulators -> {"nothing", "no-answer", "wanted", "other"}]
  /\ polls \in 0..PollLimit /\ quirks \in 0..QuirkLimit
  /\ chosen \in Emulators \cup {NoDevice} /\ ours \in Emulators \cup {NoDevice}
  /\ launch \in {"none", "running", "ended"}
  /\ serves \in [Emulators -> {"none", "wanted", "other"}]
  /\ online \subseteq Devices
  /\ silent \in [Emulators -> SUBSET (Channels \cup {"adbd"})]
  /\ fresh \subseteq Emulators /\ changed \subseteq Emulators
  /\ collided \in Emulators \cup {NoDevice}
  /\ \A d \in online \cap Emulators : serves[d] # "none"

Unasked == [d \in Emulators |-> "nothing"]

SelectionInit ==
  /\ spc = "list" /\ before = {} /\ toAsk = {} /\ query = NoQuery /\ heard = Unasked
  /\ ignored = {} /\ polls = 0 /\ chosen = NoDevice
  /\ launch = "none" /\ ours = NoDevice
  /\ serves \in {s \in [Emulators -> {"none", "wanted", "other"}] :
                   \A d, e \in Emulators : s[d] = "wanted" /\ s[e] = "wanted" => d = e}
  /\ online \in SUBSET (Handsets \cup {d \in Emulators : serves[d] # "none"})
  /\ silent \in [Emulators -> SUBSET (Channels \cup {"adbd"})]
  /\ fresh = {} /\ changed = {} /\ collided = NoDevice /\ quirks = 0

Quirk ==
  /\ quirks < QuirkLimit
  /\ quirks' = quirks + 1

----------------------------------------------------------------------------
(* The queries of a pass over devices. *)

BeginPass(devices) ==
  /\ toAsk' = devices
  /\ heard' = Unasked
  /\ changed' = {}
  /\ query' = NoQuery

Ask(d) ==
  /\ spc \in {"ask", "ask-again"} /\ query.device = NoDevice
  /\ d \in toAsk
  /\ query' = [NoQuery EXCEPT !.device = d]
  /\ UNCHANGED <<spc, before, toAsk, heard, ignored, polls, chosen, world, selectionMarks, quirks>>

Responds(d, channel) ==
  /\ serves[d] # "none"
  /\ IF channel = "console" THEN "console" \notin silent[d] ELSE "adbd" \notin silent[d]

Tells(d, channel) == Responds(d, channel) /\ channel \notin silent[d]

(* Mutant: after a channel that never came back no other is tried. *)
GiveUpWithAdbd(channel, didRespond) ==
  CASE channel = "getprop-boot" /\ didRespond -> {"getprop-kernel"}
    [] channel = "getprop-kernel" -> {"console"}
    [] OTHER -> {}

(* One that answered nothing may have a sibling that does; one that never came back has not. *)
resolveNextAvdNameChannel(channel, didRespond) ==
  CASE channel = "getprop-boot" -> {IF didRespond THEN "getprop-kernel" ELSE "console"}
    [] channel = "getprop-kernel" -> {"console"}
    [] channel = "console" -> {}

probeAvdName ==
  LET d == query.device
      next == resolveNextAvdNameChannel(query.channel, Responds(d, query.channel))
      Heard(what) == heard' = [heard EXCEPT ![d] = what] /\ toAsk' = toAsk \ {d} /\ query' = NoQuery
  IN
  /\ d # NoDevice
  /\ IF Tells(d, query.channel) THEN Heard(serves[d])
     ELSE IF next = {} /\ query.attempt = 2 THEN Heard("no-answer")
     ELSE /\ query' = IF next = {} THEN [query EXCEPT !.channel = FirstChannel, !.attempt = 2]
                      ELSE [query EXCEPT !.channel = CHOOSE c \in next : TRUE]
          /\ UNCHANGED <<heard, toAsk>>
  /\ UNCHANGED <<spc, before, ignored, polls, chosen, world, selectionMarks, quirks>>

Asked(where) == spc = where /\ toAsk = {} /\ query.device = NoDevice

----------------------------------------------------------------------------
(* The listing before, its verdict, and the launch. *)

List ==
  /\ spc = "list"
  /\ \/ /\ before' = online
        /\ BeginPass(online \cap Emulators)
        /\ fresh' = {}
        /\ spc' = "ask"
        /\ UNCHANGED quirks
     \/ Quirk /\ spc' = "failed" /\ UNCHANGED <<before, asking, fresh, changed>>
  /\ UNCHANGED <<ignored, polls, chosen, world, collided>>

(* Mutant: a device that does not answer is not the one. *)
SilenceIsASkip == IF \E d \in Emulators : heard[d] = "wanted" THEN "reuse" ELSE "start-new"

resolveAvdProbeVerdict ==
  IF \E d \in Emulators : heard[d] = "wanted" THEN "reuse"
  ELSE IF \E d \in Emulators : heard[d] = "no-answer" THEN "refuse" ELSE "start-new"

Reuse ==
  /\ Asked("ask") /\ resolveAvdProbeVerdict = "reuse"
  /\ spc' = "reused"
  /\ \E d \in Emulators : heard[d] = "wanted" /\ chosen' = d
  /\ UNCHANGED <<before, asking, ignored, polls, world, selectionMarks, quirks>>

Refuse ==
  /\ Asked("ask") /\ resolveAvdProbeVerdict = "refuse"
  /\ spc' = "refused"
  /\ UNCHANGED <<before, asking, ignored, polls, chosen, world, selectionMarks, quirks>>

StartNew ==
  /\ Asked("ask") /\ resolveAvdProbeVerdict = "start-new"
  /\ spc' = "launch"
  /\ UNCHANGED <<before, asking, ignored, polls, chosen, world, selectionMarks, quirks>>

(* The emulator that is launched where another serves the AVD ends at once. *)
startEmulator ==
  /\ spc = "launch"
  /\ spc' = "wait"
  /\ IF \E d \in Emulators : serves[d] = "wanted"
     THEN launch' = "ended" /\ \E d \in Emulators : serves[d] = "wanted" /\ collided' = d
     ELSE launch' = "running" /\ UNCHANGED collided
  /\ UNCHANGED <<before, asking, ignored, polls, chosen, ours, serves, online, silent, fresh, changed, quirks>>

----------------------------------------------------------------------------
(* waitForNewDevice: a poll asks each new emulator that is not ruled out. *)

splitNewDevices == (online \ before) \cap Emulators

Poll ==
  /\ spc = "wait" /\ polls < PollLimit
  /\ polls' = polls + 1
  /\ \/ /\ BeginPass(splitNewDevices \ ignored)
        /\ spc' = "ask-again"
        /\ UNCHANGED quirks
     \/ \* a listing that fails shows nothing, or is the end if trying again cannot help
        /\ Quirk
        /\ \/ BeginPass({}) /\ spc' = "ask-again"
           \/ spc' = "failed" /\ UNCHANGED <<asking, changed>>
  /\ UNCHANGED <<before, ignored, chosen, world, fresh, collided>>

(* Mutant: whatever appears is ours. *)
AnyNew == {d \in Emulators : heard[d] \in {"wanted", "other"}}

resolveLaunchedDevice == {d \in Emulators : heard[d] = "wanted"}

LaunchedFound ==
  /\ Asked("ask-again") /\ resolveLaunchedDevice # {}
  /\ spc' = "launched"
  /\ chosen' \in resolveLaunchedDevice
  /\ UNCHANGED <<before, asking, ignored, polls, world, selectionMarks, quirks>>

NotYet ==
  /\ Asked("ask-again") /\ resolveLaunchedDevice = {}
  /\ ignored' = ignored \cup {d \in Emulators : heard[d] = "other"}
  /\ spc' = IF launch = "ended" THEN "failed" ELSE "wait"
  /\ UNCHANGED <<before, asking, polls, chosen, world, selectionMarks, quirks>>

BootBudgetSpent ==
  /\ spc = "wait" /\ polls > 0
  /\ spc' = "failed"
  /\ UNCHANGED <<before, asking, ignored, polls, chosen, world, selectionMarks, quirks>>

----------------------------------------------------------------------------
(* Devices, while the choice is made. *)

Meanwhile ==
  /\ spc \notin SelectionOver
  /\ UNCHANGED <<spc, before, asking, ignored, polls, chosen, collided>>

OursRegisters(d) ==
  /\ Meanwhile
  /\ launch = "running" /\ ours = NoDevice /\ serves[d] = "none"
  /\ ours' = d /\ serves' = [serves EXCEPT ![d] = "wanted"] /\ silent' = [silent EXCEPT ![d] = {}]
  /\ UNCHANGED <<launch, online, fresh, changed, quirks>>

ComesOnline(d) ==
  /\ Meanwhile
  /\ d \notin online /\ d \in Emulators => serves[d] # "none"
  /\ online' = online \cup {d}
  /\ UNCHANGED <<launch, ours, serves, silent, fresh, changed>>
  /\ IF d = ours THEN UNCHANGED quirks ELSE Quirk

OtherStarts(d) ==
  /\ Meanwhile /\ Quirk
  /\ serves[d] = "none"
  /\ \E avd \in {"wanted", "other"} :
       /\ avd = "wanted" => launch # "running" /\ \A e \in Emulators : serves[e] # "wanted"
       /\ serves' = [serves EXCEPT ![d] = avd]
  /\ silent' = [silent EXCEPT ![d] = {}]
  /\ fresh' = fresh \cup {d} /\ changed' = changed \cup {d}
  /\ UNCHANGED <<launch, ours, online>>

EmulatorEnds(d) ==
  /\ Meanwhile /\ Quirk
  /\ serves[d] # "none"
  /\ serves' = [serves EXCEPT ![d] = "none"] /\ online' = online \ {d}
  /\ launch' = IF d = ours THEN "ended" ELSE launch
  /\ changed' = changed \cup {d}
  /\ UNCHANGED <<ours, silent, fresh>>

AdbdFallsSilent(d) ==
  /\ Meanwhile /\ Quirk
  /\ serves[d] # "none" /\ "adbd" \notin silent[d]
  /\ silent' = [silent EXCEPT ![d] = @ \cup {"adbd"}]
  /\ changed' = changed \cup {d}
  /\ UNCHANGED <<launch, ours, serves, online, fresh>>

SelectionStep ==
  \/ List \/ (\E d \in Emulators : Ask(d)) \/ probeAvdName \/ Reuse \/ Refuse \/ StartNew
  \/ startEmulator \/ Poll \/ LaunchedFound \/ NotYet \/ BootBudgetSpent

DeviceStep ==
  \/ \E d \in Devices : ComesOnline(d)
  \/ \E d \in Emulators : OursRegisters(d) \/ OtherStarts(d) \/ EmulatorEnds(d) \/ AdbdFallsSilent(d)

----------------------------------------------------------------------------
(* An emulator is not launched beside one that adb listed and that serves the same AVD, however
   silent that is: only beside one that started later, or that the listing did not show as online
   (transport-factory.ts:1756). *)
CollisionUnseen == collided # NoDevice => collided \notin before \/ collided \in fresh

(* The device that is chosen serves the AVD, unless it changed as it was asked; and after a launch
   it is the emulator that was launched, unless that has ended (launched-device-selection.ts:207). *)
ChosenServes ==
  /\ spc \in Chosen => serves[chosen] = "wanted" \/ chosen \in changed
  /\ spc = "launched" => chosen = ours \/ launch = "ended"

Mute(d) ==
  /\ serves[d] # "none" => "console" \in silent[d]
  /\ serves[d] # "none" => "adbd" \in silent[d] \/ Channels \subseteq silent[d]

(* A run refuses only where some emulator says its name over no channel at all, or changed as it
   was asked (avd-name-channel.ts:200). *)
RefusesTheMute ==
  spc = "refused" => \E d \in before \cap Emulators : heard[d] = "no-answer" /\ (Mute(d) \/ d \in changed)

(* Among devices of which some are silent and some are somebody else's, a run uses the one with its
   AVD, or none. *)
SelectionInv == SelectionTypeOK /\ CollisionUnseen /\ ChosenServes /\ RefusesTheMute
=============================================================================
