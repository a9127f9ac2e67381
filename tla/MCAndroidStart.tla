--------------------------- MODULE MCAndroidStart ---------------------------
(***************************************************************************)
(* Two callers with a vault each, a vault of the user, one that an earlier *)
(* run left, and one in the app's own storage with the name of a caller's. *)
(* A plugin that patches loadPlugin and leaks, listed and loaded with the  *)
(* vault, which tests reload and look at for leaks at once; one that does  *)
(* not leak; one that throws, listed or not, loaded with the vault or not; *)
(* or two that are listed in a vault not yet trusted, the second one       *)
(* sound, throwing or stillborn.                                           *)
(***************************************************************************)
EXTENDS AndroidStart, TLC

CONSTANTS e1, e2, phone, c1, c2, one, two, notes, old, twin, mine, other, enable, enableOther, reload, detect

MCVaultOf == (c1 :> one) @@ (c2 :> two)
MCSameName == {{two, twin}}
MCPluginOf == (enable :> mine) @@ (enableOther :> other) @@ (reload :> mine) @@ (detect :> mine)

PlanIs(jobs) == {j \in Jobs : job[j] = "idle"} = jobs

(* Nothing is there but, if it is to be reused, the device that is followed. *)
PlainWorld ==
  /\ serves = [d \in Emulators |-> IF d = TheDevice /\ origin # "launched" THEN "wanted" ELSE "none"]
  /\ online = {d \in Emulators : serves[d] # "none"}
  /\ silent = [d \in Emulators |-> {}]

SilentWorld ==
  /\ origin = "adopted" /\ identifies = "pid" /\ guest # FreshGuest /\ guest.calm
  /\ silent \in {[d \in Emulators |-> IF d = e1 THEN s ELSE {}] :
                   s \in {{}, {"getprop-boot"}, Channels, {"adbd"}}}
  /\ online \in {Handsets \cup ds : ds \in SUBSET Emulators}

NoPlugins == PlanIs({}) /\ nature = [p \in Plugins |-> "sound"] /\ enabled = {} /\ ~on

SomePlugins ==
  /\ Registering /\ sweeps /\ selected = notes
  /\ \/ /\ PlanIs({enable, reload, detect}) /\ nature[mine] = "leaky" /\ nature[other] = "sound"
        /\ on /\ enabled = {mine}
     \/ /\ PlanIs({enable, detect}) /\ nature[mine] = "sound" /\ nature[other] = "sound"
        /\ ~on /\ enabled = {}
     \/ /\ PlanIs({enable, reload}) /\ nature[mine] = "throwing" /\ nature[other] = "sound"
        /\ on /\ enabled \in {{}, {mine}}
     \/ /\ PlanIs({enable, enableOther}) /\ nature[mine] = "sound" /\ nature[other] # "leaky"
        /\ ~on /\ enabled = Plugins

(* Bound: each part of a start varies where those before it do not. *)
MCInit ==
  /\ ReadinessInit
  /\ PlainWorld \/ SilentWorld
  /\ SelectionInit
  /\ \/ Registering
     \/ ~Registering /\ selected = notes /\ sweeps = TRUE
  /\ StartupInit
  /\ PluginInit
  /\ NoPlugins \/ SomePlugins

MCSpec == MCInit /\ [][Next]_vars /\ Fairness
=============================================================================
