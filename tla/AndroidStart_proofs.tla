------------------------ MODULE AndroidStart_proofs ------------------------
(***************************************************************************)
(* Proofs about the start of a run on a device.  Each part has an          *)
(* invariant of its own: what the choice of a device knows of the devices  *)
(* it asked, what the numbers of system_server and the gates that were     *)
(* passed say of the guest, what of a vault is in place, and what lies     *)
(* over loadPlugin and what has befallen the attempts that run.  The parts *)
(* share no variable, so that each step keeps the invariants of the others.*)
(***************************************************************************)
EXTENDS AndroidStart, TLAPS, FiniteSetTheorems
-----------------------------------------------------------------------------
(* The choice of a device.                                                 *)

\* What a device has answered in this pass was so, unless it changed meanwhile; so was what the
\* query under way has not been told.
Pass ==
  /\ query.device # NoDevice => query.device \in toAsk /\ spc \in {"ask", "ask-again"}
  /\ \A d \in Emulators \ changed :
       /\ d \in toAsk \/ heard[d] # "nothing" => serves[d] # "none"
       /\ heard[d] = "wanted" => serves[d] = "wanted"
       /\ heard[d] = "no-answer" => Mute(d)
       /\ d = query.device /\ query.channel # FirstChannel =>
            \/ "adbd" \in silent[d] /\ query.channel = "console"
            \/ "getprop-boot" \in silent[d] /\ (query.channel = "console" => "getprop-kernel" \in silent[d])

\* Until the launch, each device of the listing is asked, and none of those that are passed by
\* comes to serve the AVD but by a new emulator.
FirstPass ==
  /\ spc \in {"list", "ask", "launch"} => collided = NoDevice /\ launch = "none" /\ ours = NoDevice
  /\ spc = "ask" => \A d \in Emulators : d \in before <=> d \in toAsk \/ heard[d] # "nothing"
  /\ spc = "launch" => \A d \in before \cap Emulators : heard[d] = "other"
  /\ spc \in {"ask", "launch"} =>
       \A d \in Emulators \ fresh : heard[d] = "other" => serves[d] # "wanted"

\* While the emulator of this run is up no other serves the AVD, or has said so since the launch.
Sole ==
  /\ spc \in {"wait", "ask-again"} => launch # "none"
  /\ launch = "running" => \A d \in Emulators : serves[d] = "wanted" => d = ours
  /\ spc \in {"launch", "wait", "ask-again"} /\ launch # "ended" =>
       \A d \in Emulators : heard[d] = "wanted" => d = ours

SelectionIInv == SelectionInv /\ Pass /\ FirstPass /\ Sole

LEMMA SelectionConstants ==
  /\ NoDevice \notin Emulators /\ NoDevice \notin Handsets /\ PollLimit \in Nat /\ QuirkLimit \in Nat
  /\ Emulators \subseteq Devices /\ Handsets \subseteq Devices /\ \A d \in Handsets : d \notin Emulators
  /\ NoQuery \in [device : Emulators \cup {NoDevice}, channel : Channels, attempt : 1..2]
  /\ NoQuery.device = NoDevice /\ NoQuery.channel = FirstChannel
  /\ Unasked \in [Emulators -> {"nothing", "no-answer", "wanted", "other"}]
  /\ \A d \in Emulators : Unasked[d] = "nothing"
  BY SelectionAssumption DEF Devices, NoQuery, Unasked, Channels, FirstChannel

LEMMA Limits == PollLimit \in Nat /\ QuirkLimit \in Nat
  BY SelectionAssumption

LEMMA SelectionStarts == SelectionInit => SelectionIInv
<1> SUFFICES ASSUME SelectionInit PROVE SelectionIInv
  OBVIOUS
<1>1. SelectionTypeOK
  <2>1. online \subseteq Devices /\ \A d \in online \cap Emulators : serves[d] # "none"
    BY SelectionConstants DEF SelectionInit
  <2>2. polls \in 0..PollLimit /\ quirks \in 0..QuirkLimit
    BY Limits DEF SelectionInit
  <2>3. serves \in [Emulators -> {"none", "wanted", "other"}]
    BY DEF SelectionInit
  <2> QED
    BY SelectionConstants DEF SelectionInit, SelectionTypeOK
<1> QED
  BY <1>1, SelectionConstants
     DEF SelectionInit, SelectionIInv, SelectionInv, CollisionUnseen, ChosenServes, RefusesTheMute,
     Pass, FirstPass, Sole, SelectionOver, Chosen

\* The query under way is answered, or given up, or goes on over another channel.
QueryOutcome ==
  LET d == query.device
      ch == query.channel
  IN
  /\ d \in Emulators
  /\ UNCHANGED <<spc, before, ignored, polls, chosen, world, selectionMarks, quirks>>
  /\ \/ /\ Tells(d, ch) \/ ch = "console"
        /\ heard' = [heard EXCEPT ![d] = IF Tells(d, ch) THEN serves[d] ELSE "no-answer"]
        /\ toAsk' = toAsk \ {d} /\ query' = NoQuery
     \/ /\ ~Tells(d, ch)
        /\ UNCHANGED <<heard, toAsk>>
        /\ query' \in [device : {d}, channel : Channels, attempt : 1..2]
        /\ \/ query'.channel = "getprop-boot"
           \/ query'.channel = "getprop-kernel" /\ ch = "getprop-boot" /\ Responds(d, ch)
           \/ query'.channel = "console" /\ ch = "getprop-boot" /\ ~Responds(d, ch)
           \/ query'.channel = "console" /\ ch = "getprop-kernel"

LEMMA QueryGoesOn == SelectionTypeOK /\ probeAvdName => QueryOutcome
<1> SUFFICES ASSUME SelectionTypeOK, probeAvdName PROVE QueryOutcome
  OBVIOUS
<1>1. query.device \in Emulators /\ query.channel \in Channels /\ query.attempt \in 1..2
  BY DEF SelectionTypeOK, probeAvdName
<1>2. query = [device |-> query.device, channel |-> query.channel, attempt |-> query.attempt]
  BY DEF SelectionTypeOK
<1>3. CASE query.channel = "console"
  <2>1. resolveNextAvdNameChannel(query.channel, Responds(query.device, query.channel)) = {}
    BY <1>3 DEF resolveNextAvdNameChannel
  <2>2. CASE Tells(query.device, query.channel) \/ query.attempt = 2
    BY <1>1, <1>3, <2>1, <2>2 DEF QueryOutcome, probeAvdName
  <2>3. CASE ~Tells(query.device, query.channel) /\ query.attempt = 1
    <3>1. query' = [query EXCEPT !.channel = "getprop-boot", !.attempt = 2] /\ UNCHANGED <<heard, toAsk>>
      BY <2>1, <2>3 DEF probeAvdName, FirstChannel
    <3>2. query' = [device |-> query.device, channel |-> "getprop-boot", attempt |-> 2]
      BY <1>2, <3>1
    <3>3. query' \in [device : {query.device}, channel : Channels, attempt : 1..2] /\ query'.channel = "getprop-boot"
      BY <3>2 DEF Channels
    <3>4. UNCHANGED <<spc, before, ignored, polls, chosen, world, selectionMarks, quirks>>
      BY DEF probeAvdName
    <3> QED
      BY <1>1, <2>3, <3>1, <3>3, <3>4 DEF QueryOutcome
  <2> QED
    BY <1>1, <2>2, <2>3
<1>4. CASE query.channel = "getprop-kernel"
  <2>1. resolveNextAvdNameChannel(query.channel, Responds(query.device, query.channel)) = {"console"}
    BY <1>4 DEF resolveNextAvdNameChannel
  <2> QED
    BY <1>1, <1>2, <1>4, <2>1 DEF QueryOutcome, probeAvdName, Channels
<1>5. CASE query.channel = "getprop-boot"
  <2>1. resolveNextAvdNameChannel(query.channel, Responds(query.device, query.channel))
          = {IF Responds(query.device, query.channel) THEN "getprop-kernel" ELSE "console"}
    BY <1>5 DEF resolveNextAvdNameChannel
  <2> QED
    BY <1>1, <1>2, <1>5, <2>1 DEF QueryOutcome, probeAvdName, Channels
<1> QED
  BY <1>1, <1>3, <1>4, <1>5 DEF Channels

LEMMA OneMore == ASSUME NEW m \in Nat, NEW n \in 0..m, n < m PROVE n + 1 \in 0..m
  OBVIOUS

LEMMA QuirksCount == SelectionTypeOK /\ (Quirk \/ UNCHANGED quirks) => quirks' \in 0..QuirkLimit
<1> SUFFICES ASSUME quirks \in 0..QuirkLimit, Quirk \/ UNCHANGED quirks PROVE quirks' \in 0..QuirkLimit
  BY DEF SelectionTypeOK
<1> QED
  BY Limits DEF Quirk

LEMMA SelectionKeeps == SelectionIInv /\ (SelectionStep \/ DeviceStep) => SelectionIInv'
<1> SUFFICES ASSUME SelectionIInv, SelectionStep \/ DeviceStep PROVE SelectionIInv'
  OBVIOUS
<1> USE SelectionConstants DEF SelectionIInv, SelectionInv, world, asking, selectionMarks
<1>q. Quirk => quirks' \in 0..QuirkLimit
  BY QuirksCount
<1>1. CASE List
  <2>1. SelectionTypeOK'
    BY <1>1, <1>q DEF SelectionTypeOK, List, BeginPass, SelectionOver
  <2>2. CollisionUnseen' /\ ChosenServes' /\ RefusesTheMute'
    BY <1>1 DEF List, CollisionUnseen, FirstPass, ChosenServes, Chosen, RefusesTheMute
  <2>3. Pass' /\ FirstPass' /\ Sole'
    BY <1>1 DEF SelectionTypeOK, List, BeginPass, Pass, Mute, FirstPass, Sole
  <2> QED
    BY <2>1, <2>2, <2>3
<1>2. ASSUME NEW d \in Emulators, Ask(d) PROVE SelectionIInv'
  <2>1. SelectionTypeOK'
    BY <1>2 DEF SelectionTypeOK, Ask
  <2>2. CollisionUnseen' /\ ChosenServes' /\ RefusesTheMute'
    BY <1>2 DEF Ask, CollisionUnseen, ChosenServes, RefusesTheMute
  <2>3. Pass' /\ FirstPass' /\ Sole'
    BY <1>2 DEF Ask, Pass, Mute, FirstPass, Sole
  <2> QED
    BY <2>1, <2>2, <2>3
<1>3. CASE probeAvdName
  <2>0. QueryOutcome
    BY <1>3, QueryGoesOn
  <2>1. SelectionTypeOK'
    <3>1. query.device \in Emulators /\ query' \in [device : Emulators \cup {NoDevice}, channel : Channels, attempt : 1..2]
      BY <2>0 DEF QueryOutcome
    <3>2. toAsk' \subseteq Emulators
      BY <2>0 DEF QueryOutcome, SelectionTypeOK
    <3>3. heard' \in [Emulators -> {"nothing", "no-answer", "wanted", "other"}]
      <4>1. Tells(query.device, query.channel) => serves[query.device] \in {"wanted", "other"}
        BY <3>1 DEF SelectionTypeOK, Tells, Responds
      <4> QED
        BY <2>0, <4>1 DEF QueryOutcome, SelectionTypeOK
    <3> QED
      BY <2>0, <3>3 DEF QueryOutcome, SelectionTypeOK
  <2>2. CollisionUnseen' /\ ChosenServes' /\ RefusesTheMute'
    BY <2>0 DEF QueryOutcome, CollisionUnseen, ChosenServes, Pass, RefusesTheMute
  <2>3. Pass'
    <3>1. query'.device # NoDevice => query'.device \in toAsk' /\ spc' \in {"ask", "ask-again"}
      BY <2>0 DEF QueryOutcome, Pass
    <3>2. ASSUME NEW e \in Emulators \ changed'
          PROVE  /\ e \in toAsk' \/ heard'[e] # "nothing" => serves'[e] # "none"
                 /\ heard'[e] = "wanted" => serves'[e] = "wanted"
                 /\ heard'[e] = "no-answer" => Mute(e)'
                 /\ e = query'.device /\ query'.channel # FirstChannel =>
                      \/ "adbd" \in silent'[e] /\ query'.channel = "console"
                      \/ /\ "getprop-boot" \in silent'[e]
                         /\ query'.channel = "console" => "getprop-kernel" \in silent'[e]
      <4>1. UNCHANGED <<serves, silent, changed>> /\ e \in Emulators \ changed
        BY <2>0 DEF QueryOutcome
      <4>2. CASE e # query.device
        <5>1. heard'[e] = heard[e] /\ (e \in toAsk' => e \in toAsk) /\ query'.device # e
          BY <2>0, <4>2 DEF QueryOutcome, SelectionTypeOK
        <5> QED
          BY <4>1, <5>1 DEF Pass, Mute
      <4>3. CASE e = query.device
        <5>1. serves[e] # "none"
          BY <4>1, <4>3 DEF Pass
        <5>2. CASE Tells(e, query.channel)
          <6>1. heard'[e] = serves[e] /\ query'.device # e
            BY <2>0, <4>3, <5>2 DEF QueryOutcome, SelectionTypeOK
          <6> QED
            BY <4>1, <5>1, <6>1 DEF SelectionTypeOK
        <5>3. CASE ~Tells(e, query.channel) /\ query'.device # e
          <6>1. heard'[e] = "no-answer" /\ query.channel = "console"
            BY <2>0, <4>3, <5>3 DEF QueryOutcome, SelectionTypeOK
          <6>2. Mute(e)
            BY <4>1, <4>3, <5>3, <6>1 DEF Pass, Mute, Tells, Responds, Channels, FirstChannel
          <6> QED
            BY <4>1, <5>1, <5>3, <6>1, <6>2 DEF Mute
        <5>4. CASE ~Tells(e, query.channel) /\ query'.device = e
          <6>1. UNCHANGED <<heard, toAsk>>
            BY <2>0, <5>4 DEF QueryOutcome
          <6> QED
            BY <2>0, <6>1 DEF QueryOutcome, Pass, Mute, Tells, Responds, FirstChannel
        <5> QED
          BY <5>2, <5>3, <5>4
      <4> QED
        BY <4>2, <4>3
    <3> QED
      BY <3>1, <3>2 DEF Pass
  <2>4. FirstPass'
    <3>1. query.device \in toAsk /\ spc \in {"ask", "ask-again"}
      BY <2>0 DEF QueryOutcome, Pass
    <3>2. UNCHANGED <<spc, before, serves, fresh, collided, launch, ours>>
      BY <2>0 DEF QueryOutcome
    <3>3. ASSUME NEW e \in Emulators
          PROVE  /\ e \in toAsk' \/ heard'[e] # "nothing" <=> e \in toAsk \/ heard[e] # "nothing"
                 /\ heard'[e] = "other" => heard[e] = "other" \/ serves[e] = "other"
      <4>1. CASE e = query.device
        <5>1. \/ heard'[e] = serves[e] /\ serves[e] \in {"wanted", "other"}
              \/ heard'[e] = "no-answer"
              \/ UNCHANGED <<heard, toAsk>>
          BY <2>0, <4>1 DEF QueryOutcome, SelectionTypeOK, Tells, Responds
        <5> QED
          BY <3>1, <4>1, <5>1
      <4>2. CASE e # query.device
        BY <2>0, <4>2 DEF QueryOutcome, SelectionTypeOK
      <4> QED
        BY <4>1, <4>2
    <3> QED
      BY <3>1, <3>2, <3>3 DEF FirstPass
  <2>5. Sole'
    <3>1. spc \in {"ask", "ask-again"} /\ UNCHANGED <<spc, serves, launch, ours>>
      BY <2>0 DEF QueryOutcome, Pass
    <3>2. ASSUME NEW e \in Emulators, heard'[e] = "wanted" PROVE heard[e] = "wanted" \/ serves[e] = "wanted"
      <4>1. CASE e = query.device
        BY <2>0, <3>2 DEF QueryOutcome, SelectionTypeOK
      <4>2. CASE e # query.device
        BY <2>0, <3>2 DEF QueryOutcome, SelectionTypeOK
      <4> QED
        BY <4>1, <4>2
    <3>3. spc = "ask-again" /\ launch # "ended" => launch = "running"
      BY DEF SelectionTypeOK, Sole
    <3> QED
      BY <3>1, <3>2, <3>3 DEF Sole
  <2> QED
    BY <2>1, <2>2, <2>3, <2>4, <2>5
<1>4. CASE Reuse
  <2>1. SelectionTypeOK'
    BY <1>4 DEF SelectionTypeOK, Reuse, SelectionOver, Chosen
  <2>2. CollisionUnseen' /\ RefusesTheMute'
    BY <1>4 DEF Reuse, CollisionUnseen, RefusesTheMute
  <2>3. ChosenServes'
    <3>1. PICK d \in Emulators : heard[d] = "wanted" /\ chosen' = d
      BY <1>4 DEF Reuse
    <3>2. spc' = "reused" /\ UNCHANGED <<serves, changed>>
      BY <1>4 DEF Reuse
    <3> QED
      BY <3>1, <3>2 DEF ChosenServes, Pass
  <2>4. Pass' /\ FirstPass' /\ Sole'
    BY <1>4 DEF Reuse, Asked, Pass, Mute, FirstPass, Sole
  <2> QED
    BY <2>1, <2>2, <2>3, <2>4
<1>5. CASE Refuse
  <2>1. SelectionTypeOK'
    BY <1>5 DEF SelectionTypeOK, Refuse, SelectionOver
  <2>2. CollisionUnseen' /\ ChosenServes' /\ RefusesTheMute'
    BY <1>5 DEF Refuse, Asked, resolveAvdProbeVerdict, CollisionUnseen, FirstPass, ChosenServes, Chosen, Pass,
       RefusesTheMute, Mute
  <2>3. Pass' /\ FirstPass' /\ Sole'
    BY <1>5 DEF Refuse, Asked, Pass, Mute, FirstPass, Sole
  <2> QED
    BY <2>1, <2>2, <2>3
<1>6. CASE StartNew
  <2>1. SelectionTypeOK'
    BY <1>6 DEF SelectionTypeOK, StartNew
  <2>2. CollisionUnseen' /\ ChosenServes' /\ RefusesTheMute'
    BY <1>6 DEF StartNew, CollisionUnseen, ChosenServes, Chosen, RefusesTheMute
  <2>3. Pass' /\ Sole'
    BY <1>6 DEF StartNew, Asked, resolveAvdProbeVerdict, Pass, Sole
  <2>4. FirstPass'
    <3>1. spc = "ask" /\ spc' = "launch" /\ toAsk = {} /\ UNCHANGED <<before, heard, serves, fresh, collided, launch, ours>>
      BY <1>6 DEF StartNew, Asked
    <3>2. \A d \in Emulators : heard[d] \in {"nothing", "other"}
      BY <1>6 DEF StartNew, resolveAvdProbeVerdict, SelectionTypeOK
    <3> QED
      BY <3>1, <3>2 DEF FirstPass
  <2> QED
    BY <2>1, <2>2, <2>3, <2>4
<1>7. CASE startEmulator
  <2>1. SelectionTypeOK'
    BY <1>7 DEF SelectionTypeOK, startEmulator
  <2>2. CollisionUnseen'
    <3>1. collided = NoDevice /\ spc = "launch" /\ UNCHANGED <<before, fresh>>
      BY <1>7 DEF startEmulator, FirstPass
    <3>2. collided' = NoDevice \/ \E d \in Emulators : serves[d] = "wanted" /\ collided' = d
      BY <1>7, <3>1 DEF startEmulator
    <3> QED
      BY <3>1, <3>2 DEF CollisionUnseen, FirstPass
  <2>3. ChosenServes' /\ RefusesTheMute'
    BY <1>7 DEF startEmulator, ChosenServes, Chosen, RefusesTheMute
  <2>4. Pass' /\ FirstPass' /\ Sole'
    BY <1>7 DEF startEmulator, Pass, Mute, FirstPass, Sole
  <2> QED
    BY <2>1, <2>2, <2>3, <2>4
<1>8. CASE Poll
  <2>1. SelectionTypeOK'
    <3>1. polls' \in 0..PollLimit
      <4>1. polls \in 0..PollLimit /\ polls < PollLimit /\ polls' = polls + 1
        BY <1>8 DEF Poll, SelectionTypeOK
      <4> QED
        BY <4>1
    <3>4. quirks' \in 0..QuirkLimit
      BY <1>8, <1>q DEF Poll, SelectionTypeOK
    <3>2. /\ toAsk' \subseteq Emulators
          /\ heard' \in [Emulators -> {"nothing", "no-answer", "wanted", "other"}]
          /\ query' \in [device : Emulators \cup {NoDevice}, channel : Channels, attempt : 1..2]
      BY <1>8 DEF Poll, BeginPass, splitNewDevices, SelectionTypeOK
    <3>3. spc' \in {"ask-again", "failed"} /\ changed' \subseteq Emulators
      BY <1>8 DEF Poll, BeginPass, SelectionTypeOK
    <3> QED
      BY <1>8, <3>2, <3>3, <3>4 DEF Poll, SelectionTypeOK, SelectionOver
  <2>2. CollisionUnseen' /\ ChosenServes' /\ RefusesTheMute'
    BY <1>8 DEF Poll, CollisionUnseen, ChosenServes, Chosen, RefusesTheMute
  <2>3. Pass' /\ FirstPass' /\ Sole'
    BY <1>8 DEF SelectionTypeOK, Poll, BeginPass, splitNewDevices, Pass, Mute, FirstPass, Sole
  <2> QED
    BY <2>1, <2>2, <2>3
<1>9. CASE LaunchedFound
  <2>1. SelectionTypeOK'
    BY <1>9 DEF SelectionTypeOK, LaunchedFound, resolveLaunchedDevice, SelectionOver, Chosen
  <2>2. CollisionUnseen' /\ ChosenServes' /\ RefusesTheMute'
    BY <1>9 DEF LaunchedFound, Asked, resolveLaunchedDevice, CollisionUnseen, ChosenServes, Pass, Sole,
       RefusesTheMute
  <2>3. Pass' /\ FirstPass' /\ Sole'
    BY <1>9 DEF LaunchedFound, Asked, Pass, Mute, FirstPass, Sole
  <2> QED
    BY <2>1, <2>2, <2>3
<1>10. CASE NotYet
  <2>1. SelectionTypeOK'
    BY <1>10 DEF SelectionTypeOK, NotYet, SelectionOver
  <2>2. CollisionUnseen' /\ ChosenServes' /\ RefusesTheMute'
    BY <1>10 DEF NotYet, CollisionUnseen, ChosenServes, Chosen, RefusesTheMute
  <2>3. Pass' /\ FirstPass' /\ Sole'
    BY <1>10 DEF NotYet, Asked, Pass, Mute, FirstPass, Sole
  <2> QED
    BY <2>1, <2>2, <2>3
<1>11. CASE BootBudgetSpent
  <2>1. SelectionTypeOK'
    BY <1>11 DEF SelectionTypeOK, BootBudgetSpent, SelectionOver
  <2>2. CollisionUnseen' /\ ChosenServes' /\ RefusesTheMute'
    BY <1>11 DEF BootBudgetSpent, CollisionUnseen, ChosenServes, Chosen, RefusesTheMute
  <2>3. Pass' /\ FirstPass' /\ Sole'
    BY <1>11 DEF BootBudgetSpent, Pass, Mute, FirstPass, Sole
  <2> QED
    BY <2>1, <2>2, <2>3
<1>12. ASSUME NEW d \in Devices, ComesOnline(d) PROVE SelectionIInv'
  <2>1. SelectionTypeOK'
    <3>1. online' \subseteq Devices /\ \A e \in online' \cap Emulators : serves[e] # "none"
      BY <1>12 DEF ComesOnline, SelectionTypeOK
    <3>2. quirks' \in 0..QuirkLimit
      BY <1>12, <1>q DEF ComesOnline, SelectionTypeOK
    <3> QED
      BY <1>12, <3>2 DEF ComesOnline, Meanwhile, SelectionTypeOK
  <2>2. CollisionUnseen' /\ ChosenServes' /\ RefusesTheMute'
    BY <1>12 DEF ComesOnline, Meanwhile, CollisionUnseen, ChosenServes, RefusesTheMute, Mute
  <2>3. Pass' /\ FirstPass' /\ Sole'
    BY <1>12 DEF ComesOnline, Meanwhile, Pass, Mute, FirstPass, Sole
  <2> QED
    BY <2>1, <2>2, <2>3
<1>13. ASSUME NEW d \in Emulators, OursRegisters(d) PROVE SelectionIInv'
  <2>1. SelectionTypeOK'
    BY <1>13 DEF SelectionTypeOK, OursRegisters, Meanwhile
  <2>2. CollisionUnseen' /\ ChosenServes' /\ RefusesTheMute'
    BY <1>13 DEF SelectionTypeOK, OursRegisters, Meanwhile, CollisionUnseen, ChosenServes, RefusesTheMute
  <2>3. Pass'
    <3>1. query'.device # NoDevice => query'.device \in toAsk' /\ spc' \in {"ask", "ask-again"}
      BY <1>13 DEF OursRegisters, Meanwhile, Pass
    <3>2. ASSUME NEW e \in Emulators \ changed'
          PROVE  /\ e \in toAsk' \/ heard'[e] # "nothing" => serves'[e] # "none"
                 /\ heard'[e] = "wanted" => serves'[e] = "wanted"
                 /\ heard'[e] = "no-answer" => Mute(e)'
                 /\ e = query'.device /\ query'.channel # FirstChannel =>
                      \/ "adbd" \in silent'[e] /\ query'.channel = "console"
                      \/ /\ "getprop-boot" \in silent'[e]
                         /\ query'.channel = "console" => "getprop-kernel" \in silent'[e]
      <4>1. UNCHANGED <<toAsk, heard, query, changed>>
        BY <1>13 DEF OursRegisters, Meanwhile
      <4>2. CASE e # d
        <5>1. serves'[e] = serves[e] /\ silent'[e] = silent[e]
          BY <1>13, <4>2 DEF OursRegisters
        <5> QED
          BY <4>1, <5>1 DEF Pass, Mute
      <4>3. CASE e = d
        <5>1. serves[e] = "none"
          BY <1>13, <4>3 DEF OursRegisters
        <5>2. e \notin toAsk /\ heard[e] = "nothing" /\ e # query.device
          BY <4>1, <5>1 DEF Pass
        <5> QED
          BY <4>1, <5>2
      <4> QED
        BY <4>2, <4>3
    <3> QED
      BY <3>1, <3>2 DEF Pass
  <2>4. FirstPass'
    BY <1>13 DEF OursRegisters, Meanwhile, FirstPass
  <2>5. Sole'
    BY <1>13 DEF OursRegisters, Meanwhile, Sole
  <2> QED
    BY <2>1, <2>2, <2>3, <2>4, <2>5
<1>14. ASSUME NEW d \in Emulators, OtherStarts(d) PROVE SelectionIInv'
  <2>a. PICK avd \in {"wanted", "other"} :
          /\ avd = "wanted" => launch # "running"
          /\ serves' = [serves EXCEPT ![d] = avd]
    BY <1>14 DEF OtherStarts
  <2>1. SelectionTypeOK'
    <3>1. /\ serves' \in [Emulators -> {"none", "wanted", "other"}]
          /\ \A e \in Emulators : serves[e] # "none" => serves'[e] # "none"
      BY <2>a DEF SelectionTypeOK
    <3>2. silent' \in [Emulators -> SUBSET (Channels \cup {"adbd"})] /\ quirks' \in 0..QuirkLimit
      BY <1>14, <1>q DEF OtherStarts, SelectionTypeOK
    <3>3. online' = online /\ fresh' \subseteq Emulators /\ changed' \subseteq Emulators
      BY <1>14 DEF OtherStarts, SelectionTypeOK
    <3> QED
      BY <1>14, <3>2 DEF OtherStarts, Meanwhile, SelectionTypeOK
  <2>2. CollisionUnseen' /\ ChosenServes' /\ RefusesTheMute'
    BY <1>14 DEF OtherStarts, Meanwhile, CollisionUnseen, ChosenServes, RefusesTheMute, Mute
  <2>3. Pass'
    <3>1. query'.device # NoDevice => query'.device \in toAsk' /\ spc' \in {"ask", "ask-again"}
      BY <1>14 DEF OtherStarts, Meanwhile, Pass
    <3>2. ASSUME NEW e \in Emulators \ changed'
          PROVE  /\ e \in toAsk' \/ heard'[e] # "nothing" => serves'[e] # "none"
                 /\ heard'[e] = "wanted" => serves'[e] = "wanted"
                 /\ heard'[e] = "no-answer" => Mute(e)'
                 /\ e = query'.device /\ query'.channel # FirstChannel =>
                      \/ "adbd" \in silent'[e] /\ query'.channel = "console"
                      \/ /\ "getprop-boot" \in silent'[e]
                         /\ query'.channel = "console" => "getprop-kernel" \in silent'[e]
      <4>1. e \in Emulators \ changed /\ serves'[e] = serves[e] /\ silent'[e] = silent[e]
        BY <1>14 DEF OtherStarts
      <4>2. UNCHANGED <<toAsk, heard, query>>
        BY <1>14 DEF OtherStarts, Meanwhile
      <4> QED
        BY <4>1, <4>2 DEF Pass, Mute
    <3> QED
      BY <3>1, <3>2 DEF Pass
  <2>4. FirstPass' /\ Sole'
    BY <1>14 DEF OtherStarts, Meanwhile, FirstPass, Sole
  <2> QED
    BY <2>1, <2>2, <2>3, <2>4
<1>15. ASSUME NEW d \in Emulators, EmulatorEnds(d) PROVE SelectionIInv'
  <2>1. SelectionTypeOK'
    <3>1. /\ serves' \in [Emulators -> {"none", "wanted", "other"}] /\ online' \subseteq Devices
          /\ \A e \in online' \cap Emulators : serves'[e] # "none"
      BY <1>15 DEF SelectionTypeOK, EmulatorEnds
    <3>2. launch' \in {"none", "running", "ended"} /\ changed' \subseteq Emulators
      BY <1>15 DEF SelectionTypeOK, EmulatorEnds
    <3> QED
      BY <1>15, <1>q DEF SelectionTypeOK, EmulatorEnds, Meanwhile
  <2>2. CollisionUnseen' /\ ChosenServes' /\ RefusesTheMute'
    BY <1>15 DEF EmulatorEnds, Meanwhile, CollisionUnseen, ChosenServes, RefusesTheMute, Mute
  <2>3. Pass'
    BY <1>15 DEF EmulatorEnds, Meanwhile, Pass, Mute
  <2>4. FirstPass'
    <3>1. \A e \in Emulators : serves'[e] = "wanted" => serves[e] = "wanted"
      BY <1>15 DEF EmulatorEnds
    <3>2. ours = NoDevice => launch' = launch
      BY <1>15 DEF EmulatorEnds
    <3> QED
      BY <1>15 DEF EmulatorEnds, Meanwhile, FirstPass
  <2>5. Sole'
    BY <1>15 DEF EmulatorEnds, Meanwhile, Sole
  <2> QED
    BY <2>1, <2>2, <2>3, <2>4, <2>5
<1>16. ASSUME NEW d \in Emulators, AdbdFallsSilent(d) PROVE SelectionIInv'
  <2>1. SelectionTypeOK'
    BY <1>16, <1>q DEF SelectionTypeOK, AdbdFallsSilent, Meanwhile
  <2>2. CollisionUnseen' /\ ChosenServes' /\ RefusesTheMute'
    BY <1>16 DEF AdbdFallsSilent, Meanwhile, CollisionUnseen, ChosenServes, RefusesTheMute, Mute
  <2>3. Pass'
    <3>1. query'.device # NoDevice => query'.device \in toAsk' /\ spc' \in {"ask", "ask-again"}
      BY <1>16 DEF AdbdFallsSilent, Meanwhile, Pass
    <3>2. ASSUME NEW e \in Emulators \ changed'
          PROVE  /\ e \in toAsk' \/ heard'[e] # "nothing" => serves'[e] # "none"
                 /\ heard'[e] = "wanted" => serves'[e] = "wanted"
                 /\ heard'[e] = "no-answer" => Mute(e)'
                 /\ e = query'.device /\ query'.channel # FirstChannel =>
                      \/ "adbd" \in silent'[e] /\ query'.channel = "console"
                      \/ /\ "getprop-boot" \in silent'[e]
                         /\ query'.channel = "console" => "getprop-kernel" \in silent'[e]
      <4>1. e \in Emulators \ changed /\ serves'[e] = serves[e] /\ silent'[e] = silent[e]
        BY <1>16 DEF AdbdFallsSilent
      <4>2. UNCHANGED <<toAsk, heard, query>>
        BY <1>16 DEF AdbdFallsSilent, Meanwhile
      <4> QED
        BY <4>1, <4>2 DEF Pass, Mute
    <3> QED
      BY <3>1, <3>2 DEF Pass
  <2>4. FirstPass' /\ Sole'
    BY <1>16 DEF AdbdFallsSilent, Meanwhile, FirstPass, Sole
  <2> QED
    BY <2>1, <2>2, <2>3, <2>4
<1> QED
  BY <1>1, <1>2, <1>3, <1>4, <1>5, <1>6, <1>7, <1>8, <1>9, <1>10, <1>11, <1>12, <1>13, <1>14, <1>15, <1>16 DEF
     SelectionStep, DeviceStep

-----------------------------------------------------------------------------
(* What a device goes through until its session.                           *)

\* No number of a server is used twice: those of this guest are above all before it.
Numbers ==
  /\ server.n >= born /\ (server.up => server.n > born)
  /\ baseline # None => baseline.n <= server.n
  /\ pc \notin {"boot", "baseline", "failed"} /\ baseline # None => baseline.n > born

\* A start of the server that is known has been waited for, but while a gate waits for it.
Waited ==
  /\ pc \in {"network", "dialogs", "diagnose", "connect"} \cup Gates /\ baseline # None =>
       baseline.n <= settled \/ blind \/ skipped
  /\ pc = "connect" => seen # None

\* The first gate ends where the setting can be written, or the guest is spoiled.
Writable ==
  /\ pc = "dialogs" => spoiled \/ (emulator.adbd /\ "settings" \in guest.services)
  /\ pc \in {"diagnose", "last-gate", "last-settle", "connect"} => hidden \/ spoiled

ReadinessIInv == ReadinessTypeOK /\ RestartsWaitedOut /\ Numbers /\ Waited /\ Writable

\* The parts of the type invariant, of the harness, of what it knows, of the device and of the marks.
HarnessOK ==
  /\ origin \in {"launched", "taken-over", "adopted"} /\ owned \in BOOLEAN /\ attempt \in 1..2
  /\ pc \in {"boot", "baseline", "network", "dialogs", "diagnose", "replace", "connect"}
            \cup Gates \cup IdleWaits \cup Over

KnownOK ==
  /\ hidden \in BOOLEAN /\ polled \in BOOLEAN
  /\ baseline \in Identities \cup {None} /\ seen \in Identities \cup {None}

DeviceOK ==
  /\ identifies \in Kinds
  /\ guest \in [booted : BOOLEAN, calm : BOOLEAN, services : SUBSET Services]
  /\ server \in [n : Nat, count : Nat, up : BOOLEAN]
  /\ emulator \in [adbd : BOOLEAN, console : BOOLEAN, listed : BOOLEAN, up : BOOLEAN]
  /\ guest.services # {} => server.up

MarksOK ==
  /\ born \in Nat /\ settled \in Nat
  /\ skipped \in BOOLEAN /\ blind \in BOOLEAN /\ spoiled \in BOOLEAN

LEMMA TroublesLimited == TroubleLimit \in Nat
  BY ReadinessAssumption

LEMMA ReadinessTypes ==
  ReadinessTypeOK <=> HarnessOK /\ KnownOK /\ DeviceOK /\ MarksOK /\ troubles \in 0..TroubleLimit
  BY DEF ReadinessTypeOK, HarnessOK, KnownOK, DeviceOK, MarksOK

LEMMA ReadinessStarts == ReadinessInit => ReadinessIInv
<1> SUFFICES ASSUME ReadinessInit PROVE ReadinessIInv
  OBVIOUS
<1>1. HarnessOK
  <2>1. owned \in BOOLEAN
    <3>1. CASE origin = "launched"
      BY DEF ReadinessInit
    <3>2. CASE origin \in {"taken-over", "adopted"}
      BY DEF ReadinessInit
    <3> QED
      BY DEF ReadinessInit
  <2>2. origin \in {"launched", "taken-over", "adopted"} /\ attempt = 1 /\ pc = "boot"
    BY DEF ReadinessInit
  <2>3. attempt \in 1..2
    <3>1. attempt = 1
      BY DEF ReadinessInit
    <3> QED
      BY <3>1
  <2> QED
    BY <2>1, <2>2 DEF HarnessOK
<1>2. KnownOK
  BY DEF ReadinessInit, KnownOK
<1>3. DeviceOK
  <2>1. identifies \in Kinds /\ emulator = FreshEmulator
    BY DEF ReadinessInit
  <2>2. CASE guest = FreshGuest /\ server = [n |-> 0, count |-> 0, up |-> FALSE]
    BY <2>1, <2>2 DEF DeviceOK, FreshGuest, FreshEmulator
  <2>3. CASE /\ guest \in [booted : {TRUE}, calm : BOOLEAN, services : {Services}]
             /\ server = [n |-> 1, count |-> 1, up |-> TRUE]
    BY <2>1, <2>3 DEF DeviceOK, FreshEmulator
  <2> QED
    BY <2>2, <2>3 DEF ReadinessInit
<1>4. MarksOK
  BY DEF ReadinessInit, MarksOK
<1>5. troubles \in 0..TroubleLimit
  <2>1. troubles = 0
    BY DEF ReadinessInit
  <2> QED
    BY <2>1, TroublesLimited
<1>6. RestartsWaitedOut /\ Waited /\ Writable
  BY DEF ReadinessInit, RestartsWaitedOut, Waited, Writable
<1>7. Numbers
  <2>1. baseline = None /\ born = 0
    BY DEF ReadinessInit
  <2>2. server = [n |-> 0, count |-> 0, up |-> FALSE] \/ server = [n |-> 1, count |-> 1, up |-> TRUE]
    BY DEF ReadinessInit
  <2> QED
    BY <2>1, <2>2 DEF Numbers
<1> QED
  BY <1>1, <1>2, <1>3, <1>4, <1>5, <1>6, <1>7, ReadinessTypes DEF ReadinessIInv

LEMMA TroublesCount ==
  ReadinessTypeOK /\ (Trouble \/ UNCHANGED troubles) => troubles' \in 0..TroubleLimit
<1> SUFFICES ASSUME troubles \in 0..TroubleLimit, Trouble \/ UNCHANGED troubles
             PROVE  troubles' \in 0..TroubleLimit
  BY DEF ReadinessTypeOK
<1> QED
  BY TroublesLimited DEF Trouble

\* An identity that is read is of the last server, which this guest has started.
LEMMA IdentityIsOfLastServer ==
  ASSUME DeviceOK, born \in Nat, Numbers, NEW kind \in Kinds, IdentityBy(kind) # None
  PROVE  /\ IdentityBy(kind) \in Identities
         /\ IdentityBy(kind).n = server.n /\ server.n > born
<1>1. server \in [n : Nat, count : Nat, up : BOOLEAN] /\ server.n >= born /\ (server.up => server.n > born)
  BY DEF DeviceOK, Numbers
<1> QED
  BY <1>1 DEF IdentityBy, Kinds, Identities

LEMMA ReadinessKeeps == ReadinessIInv /\ (ReadinessStep \/ GuestStep) => ReadinessIInv'
<1> SUFFICES ASSUME ReadinessIInv, ReadinessStep \/ GuestStep PROVE ReadinessIInv'
  OBVIOUS
<1> USE DEF system, origins, marks, ReadinessGoto
<1>t. Trouble \/ UNCHANGED troubles => troubles' \in 0..TroubleLimit
  BY TroublesCount DEF ReadinessIInv
<1>k. /\ HarnessOK /\ KnownOK /\ DeviceOK /\ MarksOK
      /\ RestartsWaitedOut /\ Numbers /\ Waited /\ Writable
  BY ReadinessTypes DEF ReadinessIInv
<1> DEFINE Kept ==
      /\ HarnessOK /\ KnownOK /\ DeviceOK /\ MarksOK /\ troubles \in 0..TroubleLimit
      /\ RestartsWaitedOut /\ Numbers /\ Waited /\ Writable
<1> SUFFICES Kept'
  <2>1. ReadinessTypeOK'
    BY DEF ReadinessTypeOK, HarnessOK, KnownOK, DeviceOK, MarksOK
  <2> QED
    BY <2>1 DEF ReadinessIInv
<1>1. CASE waitForBoot
  <2>1. HarnessOK'
    BY <1>k, <1>1 DEF waitForBoot, HarnessOK, Over
  <2>2. KnownOK'
    BY <1>k, <1>1 DEF waitForBoot, KnownOK
  <2>3. DeviceOK'
    BY <1>k, <1>1 DEF waitForBoot, DeviceOK
  <2>4. MarksOK'
    BY <1>k, <1>1 DEF waitForBoot, MarksOK
  <2>5. RestartsWaitedOut' /\ Numbers' /\ Waited' /\ Writable'
    BY <1>k, <1>1 DEF waitForBoot, RestartsWaitedOut, Numbers, Gates, Waited, Writable
  <2>6. troubles' \in 0..TroubleLimit
    BY <1>t, <1>1 DEF waitForBoot
  <2> QED
    BY <2>1, <2>2, <2>3, <2>4, <2>5, <2>6
<1>2. CASE recordSystemServerBaseline
  <2>a. baseline' # None => baseline' \in Identities /\ baseline'.n = server.n /\ server.n > born
    <3>1. CASE baseline' = None
      BY <3>1
    <3>2. CASE baseline' # None
      <4>1. PICK kind \in Kinds : baseline' = IdentityBy(kind)
        BY <1>2, <3>2 DEF recordSystemServerBaseline, SetBaseline
      <4> QED
        BY <1>k, <4>1, IdentityIsOfLastServer DEF MarksOK
    <3> QED
      BY <3>2
  <2>1. HarnessOK'
    BY <1>k, <1>2 DEF recordSystemServerBaseline, HarnessOK, IdleWaits
  <2>2. KnownOK'
    BY <1>k, <1>2, <2>a DEF recordSystemServerBaseline, KnownOK
  <2>3. DeviceOK'
    BY <1>k, <1>2 DEF recordSystemServerBaseline, DeviceOK
  <2>4. MarksOK'
    BY <1>k, <1>2 DEF recordSystemServerBaseline, MarksOK
  <2>5. RestartsWaitedOut'
    BY <1>2 DEF recordSystemServerBaseline, RestartsWaitedOut
  <2>6. Numbers'
    BY <1>k, <1>2, <2>a DEF recordSystemServerBaseline, Numbers, DeviceOK
  <2>7. Waited'
    BY <1>2 DEF recordSystemServerBaseline, Waited, Gates
  <2>8. Writable'
    BY <1>2 DEF recordSystemServerBaseline, Writable
  <2>9. troubles' \in 0..TroubleLimit
    BY <1>t, <1>2 DEF recordSystemServerBaseline, Reads
  <2> QED
    BY <2>1, <2>2, <2>3, <2>4, <2>5, <2>6, <2>7, <2>8, <2>9
<1>3. CASE waitForDeviceIdle
  <2>1. HarnessOK'
    BY <1>k, <1>3 DEF waitForDeviceIdle, AfterIdle, HarnessOK, Gates, IdleWaits
  <2>2. KnownOK'
    BY <1>k, <1>3 DEF waitForDeviceIdle, KnownOK
  <2>3. DeviceOK'
    BY <1>k, <1>3 DEF waitForDeviceIdle, DeviceOK
  <2>4. MarksOK'
    BY <1>k, <1>3 DEF waitForDeviceIdle, MarksOK, DeviceOK
  <2>5. RestartsWaitedOut' /\ Numbers' /\ Waited' /\ Writable'
    BY <1>k, <1>3 DEF waitForDeviceIdle, AfterIdle, IdleWaits, RestartsWaitedOut, Numbers, Waited, Writable
  <2>6. troubles' \in 0..TroubleLimit
    BY <1>t, <1>3 DEF waitForDeviceIdle
  <2> QED
    BY <2>1, <2>2, <2>3, <2>4, <2>5, <2>6
<1>4. CASE waitForNetworkValidated
  <2>1. HarnessOK'
    BY <1>k, <1>4 DEF waitForNetworkValidated, AfterNetwork, HarnessOK, Gates
  <2>2. KnownOK'
    BY <1>k, <1>4 DEF waitForNetworkValidated, KnownOK
  <2>3. DeviceOK'
    BY <1>k, <1>4 DEF waitForNetworkValidated, DeviceOK
  <2>4. MarksOK'
    BY <1>k, <1>4 DEF waitForNetworkValidated, MarksOK
  <2>5. RestartsWaitedOut' /\ Numbers' /\ Waited' /\ Writable'
    BY <1>k, <1>4 DEF waitForNetworkValidated, AfterNetwork, RestartsWaitedOut, Numbers, Waited, Writable
  <2>6. troubles' \in 0..TroubleLimit
    BY <1>t, <1>4 DEF waitForNetworkValidated
  <2> QED
    BY <2>1, <2>2, <2>3, <2>4, <2>5, <2>6
<1>5. CASE probeFramework
  <2> DEFINE Known(identity) == IF baseline = None THEN identity ELSE baseline
  <2>a. PICK identity \in {IdentityBy(kind) : kind \in Kinds} :
          /\ Trouble \/ UNCHANGED troubles
          /\ polled' \in BOOLEAN
          /\ baseline' = IF Verdict(Known(identity), identity) = "restarted" THEN identity ELSE Known(identity)
          /\ blind' = (blind \/ (identity # None /\ (baseline = None \/ Known(identity).kind # identity.kind)))
          /\ \/ /\ Verdict(Known(identity), identity) = "ready"
                /\ pc' = AfterGate
                /\ seen' = IF pc = "last-gate" THEN identity ELSE seen
                /\ UNCHANGED <<skipped, spoiled>>
             \/ /\ Verdict(Known(identity), identity) = "restarted"
                /\ UNCHANGED seen
                /\ \/ pc' = Settling /\ UNCHANGED <<skipped, spoiled>>
                   \/ skipped' = TRUE /\ pc = "gate" /\ spoiled' = TRUE /\ pc' = "dialogs"
                   \/ skipped' = TRUE /\ pc = "last-gate" /\ UNCHANGED spoiled /\ pc' = "replace"
             \/ /\ Verdict(Known(identity), identity) = "services-missing"
                /\ UNCHANGED <<pc, seen, skipped, spoiled>>
    <3>1. PICK identity \in {IdentityBy(kind) : kind \in Kinds} :
            LET known == IF baseline = None THEN identity ELSE baseline
                verdict == Verdict(known, identity)
            IN
            /\ Reads(identity)
            /\ baseline' = IF verdict = "restarted" THEN identity ELSE known
            /\ blind' = (blind \/ (identity # None /\ (baseline = None \/ known.kind # identity.kind)))
            /\ CASE verdict = "ready" ->
                      /\ ReadinessGoto(AfterGate)
                      /\ seen' = IF pc = "last-gate" THEN identity ELSE seen
                      /\ UNCHANGED <<skipped, spoiled>>
                 [] verdict = "restarted" ->
                      /\ \/ pc' = Settling /\ polled' = TRUE /\ UNCHANGED <<skipped, spoiled>>
                         \/ skipped' = TRUE /\ GiveUpGate
                      /\ UNCHANGED seen
                 [] verdict = "services-missing" ->
                      polled' = TRUE /\ UNCHANGED <<pc, seen, skipped, spoiled>>
      BY <1>5 DEF probeFramework
    <3>2. Trouble \/ UNCHANGED troubles
      BY <3>1 DEF Reads
    <3>3. Verdict(Known(identity), identity) \in {"ready", "restarted", "services-missing"}
      BY DEF Verdict
    <3>4. pc \in Gates
      BY <1>5 DEF probeFramework
    <3> HIDE DEF Known
    <3>5. CASE Verdict(Known(identity), identity) = "ready"
      BY <3>1, <3>2, <3>5 DEF Known
    <3>6. CASE Verdict(Known(identity), identity) = "restarted"
      BY <3>1, <3>2, <3>4, <3>6 DEF Known, GiveUpGate, Gates
    <3>7. CASE Verdict(Known(identity), identity) = "services-missing"
      BY <3>1, <3>2, <3>7 DEF Known
    <3> QED
      BY <3>3, <3>5, <3>6, <3>7
  <2> HIDE DEF Known
  <2>b. /\ pc \in Gates /\ emulator.adbd
        /\ UNCHANGED <<origin, owned, attempt, identifies, guest, server, emulator, hidden, born, settled>>
    BY <1>5 DEF probeFramework
  <2>c. identity # None => identity \in Identities /\ identity.n = server.n /\ server.n > born
    <3>1. PICK kind \in Kinds : identity = IdentityBy(kind)
      OBVIOUS
    <3> QED
      BY <1>k, IdentityIsOfLastServer DEF MarksOK
  <2>d. baseline # None => baseline \in Identities
    BY <1>k DEF KnownOK
  <2>e. baseline' # None => (baseline' = baseline /\ baseline # None) \/ (baseline' = identity /\ identity # None)
    BY <2>a DEF Known
  <2>f. /\ pc' \in Gates \cup {"dialogs", "connect", "settle", "last-settle", "replace"}
        /\ pc' \in {"last-gate", "last-settle", "connect"} => pc = "last-gate"
    BY <2>a, <2>b DEF AfterGate, Settling, Gates
  <2>v. Verdict(Known(identity), identity) # "restarted" =>
          Known(identity) = None \/ identity = None \/ Known(identity).kind # identity.kind \/ Known(identity).n = identity.n
    BY DEF Verdict, checkIsSystemServerRestarted
  <2>r. Verdict(Known(identity), identity) = "ready" => identity # None /\ guest.services = Services
    BY DEF Verdict
  <2>1. HarnessOK'
    BY <1>k, <2>b, <2>f DEF HarnessOK, IdleWaits
  <2>2. KnownOK'
    BY <1>k, <2>a, <2>b, <2>c, <2>e DEF KnownOK
  <2>3. DeviceOK'
    BY <1>k, <2>b DEF DeviceOK
  <2>4. MarksOK'
    BY <1>k, <2>a, <2>b DEF MarksOK
  <2>5. Numbers'
    <3>1. baseline' # None => baseline'.n <= server.n /\ baseline'.n > born
      <4>1. CASE baseline' = baseline /\ baseline # None
        BY <1>k, <2>b, <4>1 DEF Numbers, Gates
      <4>2. CASE baseline' = identity /\ identity # None
        BY <1>k, <2>c, <4>2 DEF DeviceOK
      <4> QED
        BY <2>e, <4>1, <4>2
    <3> QED
      BY <1>k, <2>b, <3>1 DEF Numbers
  <2>6. Waited'
    <3>1. CASE Verdict(Known(identity), identity) = "restarted"
      BY <2>a, <3>1 DEF Waited, Settling, Gates
    <3>2. CASE Verdict(Known(identity), identity) # "restarted"
      <4>1. baseline' # None => baseline' = baseline \/ blind'
        <5>1. CASE baseline = None
          BY <2>a, <5>1 DEF Known
        <5>2. CASE baseline # None
          BY <2>a, <3>2 DEF Known
        <5> QED
          BY <5>1, <5>2
      <4>2. baseline # None => baseline.n <= settled \/ blind \/ skipped
        BY <1>k, <2>b DEF Waited
      <4>3. UNCHANGED skipped /\ (blind => blind')
        BY <2>a, <3>2
      <4>4. pc' = "connect" => seen' # None
        <5> SUFFICES ASSUME pc' = "connect" PROVE seen' # None
          OBVIOUS
        <5>1. pc = "last-gate"
          BY <2>f
        <5>2. Verdict(Known(identity), identity) = "ready" /\ seen' = identity
          BY <2>a, <3>2, <5>1
        <5> QED
          BY <2>r, <5>2
      <4> QED
        BY <2>b, <4>1, <4>2, <4>3, <4>4 DEF Waited
    <3> QED
      BY <3>1, <3>2
  <2>7. Writable'
    <3>1. ("settings" \in Services)
      BY ReadinessAssumption
    <3> QED
      <4>1. CASE pc = "gate"
        <5>1. pc' = "dialogs" => spoiled' \/ guest.services = Services
          BY <2>a, <2>r, <4>1 DEF Settling
        <5>2. pc' \notin {"diagnose", "last-gate", "last-settle", "connect"}
          BY <2>f, <4>1 DEF Gates
        <5>3. spoiled' \/ (emulator'.adbd /\ "settings" \in guest'.services) \/ pc' # "dialogs"
          BY <2>b, <3>1, <5>1
        <5> QED
          BY <5>2, <5>3 DEF Writable
      <4>2. CASE pc = "last-gate"
        <5>1. pc' # "dialogs" /\ UNCHANGED spoiled
          BY <2>a, <4>2 DEF AfterGate, Settling
        <5> QED
          BY <1>k, <2>b, <4>2, <5>1 DEF Writable
      <4> QED
        BY <2>b, <4>1, <4>2 DEF Gates
  <2>8. RestartsWaitedOut'
    <3> SUFFICES ASSUME pc' = "connect" PROVE (seen.n <= settled \/ blind \/ skipped)'
      BY DEF RestartsWaitedOut
    <3>1. Verdict(Known(identity), identity) = "ready" /\ seen' = identity /\ identity # None
      BY <2>a, <2>f, <2>r DEF Settling
    <3>2. CASE baseline = None \/ baseline.kind # identity.kind
      BY <2>a, <3>1, <3>2 DEF Known
    <3>3. CASE baseline # None /\ baseline.kind = identity.kind
      <4>1. baseline.n = identity.n
        BY <2>v, <3>1, <3>3 DEF Known
      <4>2. baseline.n <= settled \/ blind \/ skipped
        BY <1>k, <2>b, <3>3 DEF Waited
      <4>3. UNCHANGED skipped /\ (blind => blind')
        BY <2>a
      <4> QED
        BY <2>b, <3>1, <4>1, <4>2, <4>3
    <3> QED
      BY <3>2, <3>3
  <2>9. troubles' \in 0..TroubleLimit
    BY <1>t, <2>a
  <2> QED
    BY <2>1, <2>2, <2>3, <2>4, <2>5, <2>6, <2>7, <2>8, <2>9
<1>6. CASE ProbeUnanswered
  <2>1. HarnessOK'
    BY <1>k, <1>6 DEF ProbeUnanswered, HarnessOK
  <2>2. KnownOK'
    BY <1>k, <1>6 DEF ProbeUnanswered, KnownOK
  <2>3. DeviceOK'
    BY <1>k, <1>6 DEF ProbeUnanswered, DeviceOK
  <2>4. MarksOK'
    BY <1>k, <1>6 DEF ProbeUnanswered, MarksOK
  <2>5. RestartsWaitedOut' /\ Numbers' /\ Waited' /\ Writable'
    BY <1>k, <1>6 DEF ProbeUnanswered, RestartsWaitedOut, Numbers, Waited, Writable
  <2>6. troubles' \in 0..TroubleLimit
    BY <1>t, <1>6 DEF ProbeUnanswered
  <2> QED
    BY <2>1, <2>2, <2>3, <2>4, <2>5, <2>6
<1>7. CASE GateDeadline
  <2>1. HarnessOK'
    BY <1>k, <1>7 DEF GateDeadline, GiveUpGate, HarnessOK
  <2>2. KnownOK'
    BY <1>k, <1>7 DEF GateDeadline, GiveUpGate, KnownOK
  <2>3. DeviceOK'
    BY <1>k, <1>7 DEF GateDeadline, DeviceOK
  <2>4. MarksOK'
    BY <1>k, <1>7 DEF GateDeadline, GiveUpGate, MarksOK
  <2>5. RestartsWaitedOut' /\ Numbers' /\ Waited' /\ Writable'
    BY <1>k, <1>7 DEF GateDeadline, GiveUpGate, RestartsWaitedOut, Numbers, Gates, Waited, Writable
  <2>6. troubles' \in 0..TroubleLimit
    BY <1>t, <1>7 DEF GateDeadline
  <2> QED
    BY <2>1, <2>2, <2>3, <2>4, <2>5, <2>6
<1>8. CASE suppressErrorDialogs
  <2>1. HarnessOK'
    BY <1>k, <1>8 DEF suppressErrorDialogs, HarnessOK
  <2>2. KnownOK'
    BY <1>k, <1>8 DEF suppressErrorDialogs, KnownOK
  <2>3. DeviceOK'
    BY <1>k, <1>8 DEF suppressErrorDialogs, DeviceOK
  <2>4. MarksOK'
    BY <1>k, <1>8 DEF suppressErrorDialogs, MarksOK
  <2>5. RestartsWaitedOut' /\ Numbers' /\ Waited' /\ Writable'
    BY <1>k, <1>8 DEF suppressErrorDialogs, RestartsWaitedOut, Numbers, Waited, Writable
  <2>6. troubles' \in 0..TroubleLimit
    BY <1>t, <1>8 DEF suppressErrorDialogs
  <2> QED
    BY <2>1, <2>2, <2>3, <2>4, <2>5, <2>6
<1>9. CASE diagnoseDevice
  <2>1. HarnessOK'
    BY <1>k, <1>9 DEF diagnoseDevice, HarnessOK, Gates
  <2>2. KnownOK'
    BY <1>k, <1>9 DEF diagnoseDevice, KnownOK
  <2>3. DeviceOK'
    BY <1>k, <1>9 DEF diagnoseDevice, DeviceOK
  <2>4. MarksOK'
    BY <1>k, <1>9 DEF diagnoseDevice, MarksOK
  <2>5. RestartsWaitedOut' /\ Numbers' /\ Waited' /\ Writable'
    BY <1>k, <1>9 DEF diagnoseDevice, RestartsWaitedOut, Numbers, Waited, Writable
  <2>6. troubles' \in 0..TroubleLimit
    BY <1>t, <1>9 DEF diagnoseDevice
  <2> QED
    BY <2>1, <2>2, <2>3, <2>4, <2>5, <2>6
<1>10. CASE GiveUp
  <2>1. HarnessOK'
    BY <1>k, <1>10 DEF GiveUp, HarnessOK, Over
  <2>2. KnownOK'
    BY <1>k, <1>10 DEF GiveUp, KnownOK
  <2>3. DeviceOK'
    BY <1>k, <1>10 DEF GiveUp, DeviceOK
  <2>4. MarksOK'
    BY <1>k, <1>10 DEF GiveUp, MarksOK
  <2>5. RestartsWaitedOut' /\ Numbers' /\ Waited' /\ Writable'
    BY <1>k, <1>10 DEF GiveUp, RestartsWaitedOut, Numbers, Gates, Waited, Writable
  <2>6. troubles' \in 0..TroubleLimit
    BY <1>t, <1>10 DEF GiveUp
  <2> QED
    BY <2>1, <2>2, <2>3, <2>4, <2>5, <2>6
<1>11. CASE Replace
  <2>1. HarnessOK'
    <3>1. CASE pc' = "boot" /\ attempt' = attempt + 1 /\ origin' = "launched" /\ owned' \in BOOLEAN
      <4>1. attempt \in 1..2 /\ attempt < 2
        BY <1>k, <1>11 DEF Replace, CanRetry, HarnessOK
      <4>2. attempt' \in 1..2
        BY <3>1, <4>1
      <4> QED
        BY <3>1, <4>2 DEF HarnessOK
    <3>2. CASE pc' = "failed" /\ UNCHANGED origins
      BY <1>k, <3>2 DEF HarnessOK, Over
    <3> QED
      BY <1>11, <3>1, <3>2 DEF Replace
  <2>2. KnownOK' /\ MarksOK' /\ troubles' \in 0..TroubleLimit
    BY <1>k, <1>11, <1>t DEF Replace, KnownOK, MarksOK, DeviceOK
  <2>3. DeviceOK'
    <3>1. CASE UNCHANGED <<guest, emulator, server>>
      BY <1>k, <1>11, <3>1 DEF Replace, DeviceOK
    <3>2. CASE guest' = FreshGuest /\ emulator' = FreshEmulator /\ server' = [n |-> server.n, count |-> 0, up |-> FALSE]
      BY <1>k, <1>11, <3>2 DEF Replace, DeviceOK, FreshGuest, FreshEmulator
    <3> QED
      BY <1>11, <3>1, <3>2 DEF Replace
  <2>4. RestartsWaitedOut' /\ Waited' /\ Writable'
    BY <1>11 DEF Replace, RestartsWaitedOut, Waited, Gates, Writable
  <2>5. Numbers'
    <3>1. CASE server' = [n |-> server.n, count |-> 0, up |-> FALSE] /\ born' = server.n /\ pc' = "boot"
      BY <1>k, <1>11 DEF Replace, Numbers, DeviceOK
    <3>2. CASE UNCHANGED <<server, born>> /\ pc' = "failed"
      BY <1>k, <1>11, <3>2 DEF Replace, Numbers
    <3> QED
      BY <1>11, <3>1, <3>2 DEF Replace
  <2> QED
    BY <2>1, <2>2, <2>3, <2>4, <2>5
<1>12. CASE connectSession
  <2>1. HarnessOK'
    BY <1>k, <1>12 DEF connectSession, HarnessOK, Over
  <2>2. KnownOK'
    BY <1>k, <1>12 DEF connectSession, KnownOK
  <2>3. DeviceOK'
    BY <1>k, <1>12 DEF connectSession, DeviceOK
  <2>4. MarksOK'
    BY <1>k, <1>12 DEF connectSession, MarksOK
  <2>5. RestartsWaitedOut' /\ Numbers' /\ Waited' /\ Writable'
    BY <1>k, <1>12 DEF connectSession, RestartsWaitedOut, Numbers, Waited, Writable
  <2>6. troubles' \in 0..TroubleLimit
    BY <1>t, <1>12 DEF connectSession
  <2> QED
    BY <2>1, <2>2, <2>3, <2>4, <2>5, <2>6
<1>13. CASE ServerStarts
  <2>1. HarnessOK'
    BY <1>k, <1>13 DEF ServerStarts, HarnessUnchanged, HarnessOK
  <2>2. KnownOK'
    BY <1>k, <1>13 DEF ServerStarts, HarnessUnchanged, KnownOK
  <2>3. DeviceOK'
    BY <1>k, <1>13 DEF ServerStarts, HarnessUnchanged, DeviceOK
  <2>4. MarksOK'
    BY <1>k, <1>13 DEF ServerStarts, HarnessUnchanged, MarksOK
  <2>5. RestartsWaitedOut' /\ Waited' /\ Writable'
    BY <1>k, <1>13 DEF ServerStarts, HarnessUnchanged, RestartsWaitedOut, Waited, Writable
  <2>6. Numbers'
    <3>1. server' = [n |-> server.n + 1, count |-> server.count + 1, up |-> TRUE] /\ UNCHANGED <<baseline, born, pc>>
      BY <1>13 DEF ServerStarts, HarnessUnchanged
    <3>2. baseline # None => baseline.n \in Nat
      BY <1>k DEF KnownOK, Identities
    <3>3. server.n \in Nat /\ born \in Nat
      BY <1>k DEF DeviceOK, MarksOK
    <3> QED
      BY <1>k, <3>1, <3>2, <3>3 DEF Numbers
  <2>7. troubles' \in 0..TroubleLimit
    BY <1>t, <1>13 DEF ServerStarts
  <2> QED
    BY <2>1, <2>2, <2>3, <2>4, <2>5, <2>6, <2>7
<1>14. CASE \E service \in Services : Registers(service)
  <2> PICK service \in Services : Registers(service)
    BY <1>14
  <2>1. HarnessOK'
    BY <1>k DEF Registers, HarnessUnchanged, HarnessOK
  <2>2. KnownOK'
    BY <1>k DEF Registers, HarnessUnchanged, KnownOK
  <2>3. DeviceOK'
    BY <1>k DEF Registers, HarnessUnchanged, DeviceOK
  <2>4. MarksOK'
    BY <1>k DEF Registers, HarnessUnchanged, MarksOK
  <2>5. RestartsWaitedOut' /\ Numbers' /\ Waited' /\ Writable'
    BY <1>k DEF Registers, HarnessUnchanged, RestartsWaitedOut, Numbers, Waited, Writable
  <2>6. troubles' \in 0..TroubleLimit
    BY <1>t DEF Registers
  <2> QED
    BY <2>1, <2>2, <2>3, <2>4, <2>5, <2>6
<1>15. CASE Calms
  <2>1. HarnessOK'
    BY <1>k, <1>15 DEF Calms, HarnessUnchanged, HarnessOK
  <2>2. KnownOK'
    BY <1>k, <1>15 DEF Calms, HarnessUnchanged, KnownOK
  <2>3. DeviceOK'
    BY <1>k, <1>15 DEF Calms, HarnessUnchanged, DeviceOK
  <2>4. MarksOK'
    BY <1>k, <1>15 DEF Calms, HarnessUnchanged, MarksOK
  <2>5. RestartsWaitedOut' /\ Numbers' /\ Waited' /\ Writable'
    BY <1>k, <1>15 DEF Calms, HarnessUnchanged, RestartsWaitedOut, Numbers, Waited, Writable
  <2>6. troubles' \in 0..TroubleLimit
    BY <1>t, <1>15 DEF Calms
  <2> QED
    BY <2>1, <2>2, <2>3, <2>4, <2>5, <2>6
<1>16. CASE ServerDies
  <2>1. HarnessOK'
    BY <1>k, <1>16 DEF ServerDies, HarnessUnchanged, Befalls, HarnessOK
  <2>2. KnownOK'
    BY <1>k, <1>16 DEF ServerDies, HarnessUnchanged, Befalls, KnownOK
  <2>3. DeviceOK'
    BY <1>k, <1>16 DEF ServerDies, HarnessUnchanged, Befalls, DeviceOK
  <2>4. MarksOK'
    BY <1>k, <1>16 DEF ServerDies, HarnessUnchanged, Befalls, MarksOK
  <2>5. RestartsWaitedOut' /\ Numbers' /\ Waited' /\ Writable'
    BY <1>k, <1>16 DEF ServerDies, HarnessUnchanged, Befalls, RestartsWaitedOut, DeviceOK, Numbers, Waited,
       Writable
  <2>6. troubles' \in 0..TroubleLimit
    BY <1>t, <1>16 DEF ServerDies, Befalls
  <2> QED
    BY <2>1, <2>2, <2>3, <2>4, <2>5, <2>6
<1>17. CASE GuestReboots
  <2>1. HarnessOK'
    BY <1>k, <1>17 DEF GuestReboots, HarnessUnchanged, Befalls, HarnessOK
  <2>2. KnownOK'
    BY <1>k, <1>17 DEF GuestReboots, HarnessUnchanged, Befalls, KnownOK
  <2>3. DeviceOK'
    BY <1>k, <1>17 DEF GuestReboots, HarnessUnchanged, Befalls, FreshGuest, DeviceOK
  <2>4. MarksOK'
    BY <1>k, <1>17 DEF GuestReboots, HarnessUnchanged, Befalls, MarksOK
  <2>5. RestartsWaitedOut' /\ Numbers' /\ Waited' /\ Writable'
    BY <1>k, <1>17 DEF GuestReboots, HarnessUnchanged, Befalls, RestartsWaitedOut, DeviceOK, Numbers, Waited,
       Writable
  <2>6. troubles' \in 0..TroubleLimit
    BY <1>t, <1>17 DEF GuestReboots, Befalls
  <2> QED
    BY <2>1, <2>2, <2>3, <2>4, <2>5, <2>6
<1>18. CASE FallsSilent
  <2>1. HarnessOK'
    BY <1>k, <1>18 DEF FallsSilent, HarnessUnchanged, Befalls, HarnessOK
  <2>2. KnownOK'
    BY <1>k, <1>18 DEF FallsSilent, HarnessUnchanged, Befalls, KnownOK
  <2>3. DeviceOK'
    <3>1. UNCHANGED <<identifies, guest, server>>
      BY <1>18 DEF FallsSilent, Befalls, HarnessUnchanged
    <3>2. emulator' \in [adbd : BOOLEAN, console : BOOLEAN, listed : BOOLEAN, up : BOOLEAN]
      <4>1. emulator \in [adbd : BOOLEAN, console : BOOLEAN, listed : BOOLEAN, up : BOOLEAN]
        BY <1>k DEF DeviceOK
      <4>2. emulator = [adbd |-> emulator.adbd, console |-> emulator.console, listed |-> emulator.listed, up |-> emulator.up]
        BY <4>1
      <4>3. CASE emulator' = [emulator EXCEPT !.adbd = FALSE]
        BY <4>1, <4>3
      <4>4. CASE emulator' = [emulator EXCEPT !.adbd = FALSE, !.console = FALSE]
        BY <4>1, <4>4
      <4>5. CASE emulator' = [adbd |-> FALSE, console |-> FALSE, listed |-> FALSE, up |-> FALSE]
        BY <4>5
      <4> QED
        BY <1>18, <4>3, <4>4, <4>5 DEF FallsSilent
    <3> QED
      BY <1>k, <3>1, <3>2 DEF DeviceOK
  <2>4. MarksOK'
    BY <1>k, <1>18 DEF FallsSilent, HarnessUnchanged, Befalls, MarksOK
  <2>5. RestartsWaitedOut' /\ Numbers' /\ Waited' /\ Writable'
    BY <1>k, <1>18 DEF FallsSilent, HarnessUnchanged, Befalls, RestartsWaitedOut, Numbers, Waited, Writable
  <2>6. troubles' \in 0..TroubleLimit
    BY <1>t, <1>18 DEF FallsSilent, Befalls
  <2> QED
    BY <2>1, <2>2, <2>3, <2>4, <2>5, <2>6
<1>19. CASE AnswersAgain
  <2>1. HarnessOK'
    BY <1>k, <1>19 DEF AnswersAgain, HarnessUnchanged, HarnessOK
  <2>2. KnownOK'
    BY <1>k, <1>19 DEF AnswersAgain, HarnessUnchanged, KnownOK
  <2>3. DeviceOK'
    BY <1>k, <1>19 DEF AnswersAgain, HarnessUnchanged, FreshEmulator, DeviceOK
  <2>4. MarksOK'
    BY <1>k, <1>19 DEF AnswersAgain, HarnessUnchanged, MarksOK
  <2>5. RestartsWaitedOut' /\ Numbers' /\ Waited' /\ Writable'
    BY <1>k, <1>19 DEF AnswersAgain, HarnessUnchanged, RestartsWaitedOut, Numbers, Waited, Writable
  <2>6. troubles' \in 0..TroubleLimit
    BY <1>t, <1>19 DEF AnswersAgain
  <2> QED
    BY <2>1, <2>2, <2>3, <2>4, <2>5, <2>6
<1> QED
  BY <1>1, <1>2, <1>3, <1>4, <1>5, <1>6, <1>7, <1>8, <1>9, <1>10, <1>11, <1>12, <1>13, <1>14, <1>15, <1>16,
     <1>17, <1>18, <1>19 DEF ReadinessStep, GuestStep

-----------------------------------------------------------------------------
(* The registry of vaults.                                                 *)

\* What is to be registered is in place.
MarkerPushed ==
  \A c \in Callers : OwnVault(c) /\ vpc[c] = "pushed" => VaultOf[c] \in files

\* The parts of the type invariant.
RegistryOK ==
  /\ sweeps \in BOOLEAN /\ session \in BOOLEAN /\ window \in BOOLEAN
  /\ registered \subseteq Vaults /\ trusted \subseteq Vaults /\ files \subseteq Vaults
  /\ selected \in Vaults \cup {NoVault}

PageOK ==
  page \in [live : Vaults \cup {NoVault}, stage : Stages, leaving : BOOLEAN,
            screen : Vaults \cup {NoVault, "main"}, listed : SUBSET Vaults,
            opening : Vaults \cup {NoVault}]

CallersOK ==
  /\ vpc \in [Callers -> {"idle", "pushed", "ready", "failed", "deregistered", "gone"} \cup Phases]
  /\ recovers \in [Callers -> BOOLEAN] /\ swept \in [Callers -> BOOLEAN]

StartupIInv == StartupInv /\ MarkerPushed

LEMMA MishapsLimited == MishapLimit \in Nat
  BY StartupAssumption

LEMMA VaultsApart ==
  /\ \A c \in Callers : VaultOf[c] \in Vaults /\ VaultOf[c] \in OurVaults
  /\ UserVaults \subseteq Vaults /\ OldVaults \subseteq Vaults /\ Internal \subseteq Vaults
  /\ UserVaults \cap (OurVaults \cup OldVaults) = {}
  /\ NoVault \notin Vaults
  BY StartupAssumption DEF OurVaults

LEMMA StartupTypes ==
  StartupTypeOK <=> RegistryOK /\ PageOK /\ CallersOK /\ mishaps \in 0..MishapLimit
  BY DEF StartupTypeOK, RegistryOK, PageOK, CallersOK

LEMMA StartupStarts == StartupInit => StartupIInv
<1> SUFFICES ASSUME StartupInit PROVE StartupIInv
  OBVIOUS
<1> USE VaultsApart
<1>1. RegistryOK
  BY DEF StartupInit, RegistryOK
<1>2. PageOK
  BY DEF StartupInit, PageOK, EmptyDocument, Stages
<1>3. CallersOK
  BY DEF StartupInit, CallersOK
<1>4. mishaps \in 0..MishapLimit
  <2>1. mishaps = 0
    BY DEF StartupInit
  <2> QED
    BY <2>1, MishapsLimited
<1>5. UserVaultsKept /\ NothingDangles
  BY DEF StartupInit, UserVaultsKept, NothingDangles
<1>6. StandsUntilSwept /\ MarkerPushed
  BY DEF StartupInit, StandsUntilSwept, MarkerPushed, Phases
<1>7. OnlyRequestedOpened
  BY DEF StartupInit, EmptyDocument, OnlyRequestedOpened
<1> QED
  BY <1>1, <1>2, <1>3, <1>4, <1>5, <1>6, <1>7, StartupTypes DEF StartupIInv, StartupInv

LEMMA MishapsCount ==
  StartupTypeOK /\ (Mishap \/ UNCHANGED mishaps) => mishaps' \in 0..MishapLimit
<1> SUFFICES ASSUME mishaps \in 0..MishapLimit, Mishap \/ UNCHANGED mishaps
             PROVE  mishaps' \in 0..MishapLimit
  BY DEF StartupTypeOK
<1> QED
  BY MishapsLimited DEF Mishap

LEMMA StartupKeeps ==
  ASSUME StartupIInv, (\E c \in Callers : CallerStep(c)) \/ AppStep
  PROVE  StartupIInv'
<1> USE VaultsApart DEF registry, callerVars, CallerGoto
<1>t. Mishap \/ UNCHANGED mishaps => mishaps' \in 0..MishapLimit
  BY MishapsCount DEF StartupIInv, StartupInv
<1>k. /\ RegistryOK /\ PageOK /\ CallersOK
      /\ UserVaultsKept /\ StandsUntilSwept /\ NothingDangles /\ OnlyRequestedOpened /\ MarkerPushed
  BY StartupTypes DEF StartupIInv, StartupInv
<1> DEFINE Kept ==
      /\ RegistryOK /\ PageOK /\ CallersOK /\ mishaps \in 0..MishapLimit
      /\ UserVaultsKept /\ NothingDangles /\ OnlyRequestedOpened /\ StandsUntilSwept /\ MarkerPushed
<1> SUFFICES Kept'
  <2>1. StartupTypeOK'
    BY DEF StartupTypeOK, RegistryOK, PageOK, CallersOK
  <2> QED
    BY <2>1 DEF StartupIInv, StartupInv
<1>1. ASSUME NEW c \in Callers, CallerStep(c) PROVE Kept'
  <2>1. CASE pushObsidianMarker(c)
    <3>1. RegistryOK' /\ PageOK' /\ CallersOK' /\ mishaps' \in 0..MishapLimit
      BY <1>k, <2>1, <1>t DEF pushObsidianMarker, RegistryOK, PageOK, CallersOK
    <3>2. UserVaultsKept' /\ NothingDangles' /\ OnlyRequestedOpened'
      BY <1>k, <2>1 DEF pushObsidianMarker, UserVaultsKept, NothingDangles, OnlyRequestedOpened
    <3>3. StandsUntilSwept' /\ MarkerPushed'
      BY <1>k, <2>1 DEF pushObsidianMarker, StandsUntilSwept, MarkerPushed, CallersOK, Phases
    <3> QED
      BY <3>1, <3>2, <3>3
  <2>2. CASE registerVault(c)
    <3>1. RegistryOK'
      <4>1. KeysLeft(VaultOf[c]) \subseteq Vaults
        BY <1>k DEF KeysLeft, Stale, RegistryOK
      <4>2. CASE UNCHANGED registry
        BY <1>k, <2>2, <4>2 DEF registerVault, registry, RegistryOK
      <4>3. CASE ~(UNCHANGED registry)
        BY <1>k, <2>2, <4>1, <4>3 DEF registerVault, registry, Stale, RegistryOK
      <4> QED
        BY <4>2, <4>3
    <3>2. PageOK'
      BY <1>k, <2>2 DEF registerVault, PageOK
    <3>3. CallersOK'
      BY <1>k, <2>2 DEF registerVault, CallersOK, Phases
    <3>4. mishaps' \in 0..MishapLimit
      BY <1>t, <2>2 DEF registerVault
    <3>5. UserVaultsKept' /\ NothingDangles' /\ OnlyRequestedOpened'
      BY <1>k, <2>2 DEF registerVault, KeysLeft, UserVaultsKept, NothingDangles, OnlyRequestedOpened, PageOK
    <3>6. StandsUntilSwept' /\ MarkerPushed'
      BY <1>k, <2>2 DEF registerVault, KeysLeft, Stale, StandsUntilSwept, MarkerPushed, CallersOK, Phases
    <3> QED
      BY <3>1, <3>2, <3>3, <3>4, <3>5, <3>6
  <2>3. CASE Satisfied(c)
    <3>1. RegistryOK' /\ PageOK' /\ CallersOK' /\ mishaps' \in 0..MishapLimit
      BY <1>k, <2>3, <1>t DEF Satisfied, RegistryOK, PageOK, CallersOK, Phases
    <3>2. UserVaultsKept' /\ NothingDangles' /\ OnlyRequestedOpened'
      BY <1>k, <2>3 DEF Satisfied, UserVaultsKept, NothingDangles, OnlyRequestedOpened
    <3>3. StandsUntilSwept' /\ MarkerPushed'
      BY <1>k, <2>3 DEF Satisfied, StandsUntilSwept, MarkerPushed, CallersOK
    <3> QED
      BY <3>1, <3>2, <3>3
  <2>4. CASE OpenFromPicker(c)
    <3>1. RegistryOK' /\ PageOK' /\ CallersOK' /\ mishaps' \in 0..MishapLimit
      BY <1>k, <2>4, <1>t DEF OpenFromPicker, DetailsOf, RegistryOK, PageOK, CallersOK
    <3>2. UserVaultsKept' /\ NothingDangles' /\ OnlyRequestedOpened'
      BY <1>k, <2>4 DEF OpenFromPicker, DetailsOf, UserVaultsKept, NothingDangles, OnlyRequestedOpened
    <3>3. StandsUntilSwept' /\ MarkerPushed'
      BY <1>k, <2>4 DEF OpenFromPicker, StandsUntilSwept, MarkerPushed
    <3> QED
      BY <3>1, <3>2, <3>3
  <2>5. CASE SelectInPicker(c)
    <3>1. RegistryOK' /\ PageOK' /\ CallersOK' /\ mishaps' \in 0..MishapLimit
      BY <1>k, <2>5, <1>t DEF SelectInPicker, RegistryOK, PageOK, CallersOK
    <3>2. UserVaultsKept' /\ NothingDangles' /\ OnlyRequestedOpened'
      BY <1>k, <2>5 DEF SelectInPicker, UserVaultsKept, NothingDangles, OnlyRequestedOpened
    <3>3. StandsUntilSwept' /\ MarkerPushed'
      BY <1>k, <2>5 DEF SelectInPicker, StandsUntilSwept, MarkerPushed
    <3> QED
      BY <3>1, <3>2, <3>3
  <2>6. CASE SessionTerminated(c)
    <3>1. RegistryOK' /\ PageOK' /\ CallersOK' /\ mishaps' \in 0..MishapLimit
      BY <1>k, <2>6, <1>t DEF SessionTerminated, RegistryOK, PageOK, CallersOK
    <3>2. UserVaultsKept' /\ NothingDangles' /\ OnlyRequestedOpened'
      BY <1>k, <2>6 DEF SessionTerminated, UserVaultsKept, NothingDangles, OnlyRequestedOpened
    <3>3. StandsUntilSwept' /\ MarkerPushed'
      BY <1>k, <2>6 DEF SessionTerminated, StandsUntilSwept, MarkerPushed
    <3> QED
      BY <3>1, <3>2, <3>3
  <2>7. CASE WindowRecovers(c)
    <3>1. RegistryOK' /\ PageOK' /\ CallersOK' /\ mishaps' \in 0..MishapLimit
      BY <1>k, <2>7, <1>t DEF WindowRecovers, RegistryOK, PageOK, CallersOK
    <3>2. UserVaultsKept' /\ NothingDangles' /\ OnlyRequestedOpened'
      BY <1>k, <2>7 DEF WindowRecovers, UserVaultsKept, NothingDangles, OnlyRequestedOpened
    <3>3. StandsUntilSwept' /\ MarkerPushed'
      BY <1>k, <2>7 DEF WindowRecovers, StandsUntilSwept, MarkerPushed
    <3> QED
      BY <3>1, <3>2, <3>3
  <2>8. CASE StartupDeadline(c)
    <3>1. RegistryOK' /\ PageOK' /\ CallersOK' /\ mishaps' \in 0..MishapLimit
      BY <1>k, <2>8, <1>t DEF StartupDeadline, RegistryOK, PageOK, CallersOK
    <3>2. UserVaultsKept' /\ NothingDangles' /\ OnlyRequestedOpened'
      BY <1>k, <2>8 DEF StartupDeadline, UserVaultsKept, NothingDangles, OnlyRequestedOpened
    <3>3. StandsUntilSwept' /\ MarkerPushed'
      BY <1>k, <2>8 DEF StartupDeadline, StandsUntilSwept, MarkerPushed
    <3> QED
      BY <3>1, <3>2, <3>3
  <2>9. CASE unregisterVault(c)
    <3>1. RegistryOK' /\ PageOK' /\ CallersOK' /\ mishaps' \in 0..MishapLimit
      BY <1>k, <2>9, <1>t DEF unregisterVault, SelectionWithout, RegistryOK, PageOK, CallersOK
    <3>2. UserVaultsKept' /\ NothingDangles' /\ OnlyRequestedOpened'
      BY <1>k, <2>9 DEF unregisterVault, SelectionWithout, UserVaultsKept, NothingDangles, OnlyRequestedOpened
    <3>3. StandsUntilSwept' /\ MarkerPushed'
      BY <1>k, <2>9 DEF unregisterVault, StandsUntilSwept, MarkerPushed, CallersOK, Phases, OwnVault
    <3> QED
      BY <3>1, <3>2, <3>3
  <2>10. CASE removeDeviceVaultDirectory(c)
    <3>1. RegistryOK' /\ PageOK' /\ CallersOK' /\ mishaps' \in 0..MishapLimit
      BY <1>k, <2>10, <1>t DEF removeDeviceVaultDirectory, RegistryOK, PageOK, CallersOK
    <3>2. UserVaultsKept' /\ NothingDangles' /\ OnlyRequestedOpened'
      BY <1>k, <2>10 DEF removeDeviceVaultDirectory, UserVaultsKept, NothingDangles, OnlyRequestedOpened
    <3>3. StandsUntilSwept' /\ MarkerPushed'
      BY <1>k, <2>10 DEF removeDeviceVaultDirectory, StandsUntilSwept, MarkerPushed, Phases, OwnVault
    <3> QED
      BY <3>1, <3>2, <3>3
  <2> QED
    BY <1>1, <2>1, <2>2, <2>3, <2>4, <2>5, <2>6, <2>7, <2>8, <2>9, <2>10 DEF CallerStep
<1>2. CASE DocumentLoads
  <2>1. RegistryOK' /\ PageOK' /\ CallersOK' /\ mishaps' \in 0..MishapLimit
    BY <1>k, <1>2, <1>t DEF DocumentLoads, AppUnchanged, EmptyDocument, RegistryOK, PageOK, Stages, CallersOK
  <2>2. UserVaultsKept' /\ NothingDangles' /\ OnlyRequestedOpened'
    BY <1>k, <1>2 DEF DocumentLoads, AppUnchanged, EmptyDocument, UserVaultsKept, NothingDangles,
       OnlyRequestedOpened
  <2>3. StandsUntilSwept' /\ MarkerPushed'
    BY <1>k, <1>2 DEF DocumentLoads, AppUnchanged, StandsUntilSwept, MarkerPushed
  <2> QED
    BY <2>1, <2>2, <2>3
<1>3. CASE AppStarts
  <2>1. RegistryOK' /\ CallersOK' /\ mishaps' \in 0..MishapLimit
    BY <1>k, <1>3, <1>t DEF AppStarts, AppUnchanged, RegistryOK, CallersOK
  <2>2. PageOK'
    <3>1. CASE page' = [page EXCEPT !.live = selected, !.stage = 1] /\ selected \in registered
      <4>1. selected \in Vaults /\ 1 \in Stages
        BY <1>k, <3>1 DEF RegistryOK, Stages
      <4> QED
        BY <1>k, <3>1, <4>1 DEF PageOK
    <3>2. CASE page' = [page EXCEPT !.screen = "main", !.listed = registered \cup Internal]
      BY <1>k, <3>2 DEF PageOK, RegistryOK
    <3> QED
      BY <1>3, <3>1, <3>2 DEF AppStarts
  <2>3. UserVaultsKept' /\ NothingDangles' /\ OnlyRequestedOpened'
    BY <1>k, <1>3 DEF AppStarts, AppUnchanged, UserVaultsKept, NothingDangles, OnlyRequestedOpened, PageOK
  <2>4. StandsUntilSwept' /\ MarkerPushed'
    BY <1>k, <1>3 DEF AppStarts, AppUnchanged, StandsUntilSwept, MarkerPushed
  <2> QED
    BY <2>1, <2>2, <2>3, <2>4
<1>4. CASE AppAdvances
  <2>1. RegistryOK' /\ PageOK' /\ CallersOK' /\ mishaps' \in 0..MishapLimit
    BY <1>k, <1>4, <1>t DEF AppAdvances, AppUnchanged, RegistryOK, PageOK, Stages, CallersOK
  <2>2. UserVaultsKept' /\ NothingDangles' /\ OnlyRequestedOpened'
    BY <1>k, <1>4 DEF AppAdvances, AppUnchanged, UserVaultsKept, NothingDangles, OnlyRequestedOpened
  <2>3. StandsUntilSwept' /\ MarkerPushed'
    BY <1>k, <1>4 DEF AppAdvances, AppUnchanged, StandsUntilSwept, MarkerPushed
  <2> QED
    BY <2>1, <2>2, <2>3
<1>5. CASE PickerOpens
  <2>1. RegistryOK' /\ CallersOK' /\ mishaps' \in 0..MishapLimit
    BY <1>k, <1>5, <1>t DEF PickerOpens, AppUnchanged, RegistryOK, CallersOK
  <2>2. PageOK'
    <3>1. page.opening \in Vaults \cup {NoVault}
      BY <1>k DEF PageOK
    <3>2. page' = [live |-> page.opening, stage |-> 1, leaving |-> FALSE, screen |-> NoVault, listed |-> {},
                   opening |-> NoVault]
      BY <1>5 DEF PickerOpens, EmptyDocument
    <3> QED
      BY <3>1, <3>2 DEF PageOK, Stages
  <2>3. UserVaultsKept' /\ NothingDangles' /\ OnlyRequestedOpened'
    BY <1>k, <1>5 DEF PickerOpens, AppUnchanged, EmptyDocument, UserVaultsKept, NothingDangles,
       OnlyRequestedOpened
  <2>4. StandsUntilSwept' /\ MarkerPushed'
    BY <1>k, <1>5 DEF PickerOpens, AppUnchanged, StandsUntilSwept, MarkerPushed
  <2> QED
    BY <2>1, <2>2, <2>3, <2>4
<1>6. CASE SessionMishap
  <2>1. RegistryOK' /\ PageOK' /\ CallersOK' /\ mishaps' \in 0..MishapLimit
    BY <1>k, <1>6, <1>t DEF SessionMishap, RegistryOK, PageOK, CallersOK
  <2>2. UserVaultsKept' /\ NothingDangles' /\ OnlyRequestedOpened'
    BY <1>k, <1>6 DEF SessionMishap, UserVaultsKept, NothingDangles, OnlyRequestedOpened
  <2>3. StandsUntilSwept' /\ MarkerPushed'
    BY <1>k, <1>6 DEF SessionMishap, StandsUntilSwept, MarkerPushed
  <2> QED
    BY <2>1, <2>2, <2>3
<1> QED
  BY <1>1, <1>2, <1>3, <1>4, <1>5, <1>6 DEF AppStep

LEMMA OnlySatisfiedIsReady ==
  ASSUME StartupIInv, (\E c \in Callers : CallerStep(c)) \/ AppStep,
         NEW c \in Callers, vpc[c] # "ready", vpc'[c] = "ready"
  PROVE  page.live = VaultOf[c] /\ page.stage = 3
<1>1. vpc \in [Callers -> {"idle", "pushed", "ready", "failed", "deregistered", "gone"} \cup Phases]
  BY DEF StartupIInv, StartupInv, StartupTypeOK
<1>2. PICK d \in Callers : CallerStep(d)
  BY DEF AppStep, DocumentLoads, AppStarts, AppAdvances, PickerOpens, SessionMishap, AppUnchanged, callerVars
<1>3. d = c /\ Satisfied(c)
  BY <1>1, <1>2 DEF CallerStep, CallerGoto, pushObsidianMarker, registerVault, Satisfied, OpenFromPicker,
     SelectInPicker, SessionTerminated, WindowRecovers, StartupDeadline, unregisterVault,
     removeDeviceVaultDirectory, callerVars
<1> QED
  BY <1>1, <1>3 DEF Satisfied, CallerGoto, checkLayoutReady, HasRequestedApp

-----------------------------------------------------------------------------
(* The layers over loadPlugin.                                             *)

LEMMA AppendLayer ==
  ASSUME NEW S, NEW s \in Seq(S), NEW e \in S
  PROVE  /\ Append(s, e) \in Seq(S) /\ ToSet(Append(s, e)) = ToSet(s) \cup {e}
         /\ DOMAIN Append(s, e) = 1..(Len(s) + 1) /\ DOMAIN s = 1..Len(s) /\ Len(s) \in Nat
         /\ \A i \in 1..Len(s) : Append(s, e)[i] = s[i]
         /\ Append(s, e)[Len(s) + 1] = e
  BY DEF ToSet

LEMMA FrontLayers ==
  ASSUME NEW S, NEW s \in Seq(S), s # <<>>
  PROVE  /\ Front(s) \in Seq(S) /\ ToSet(s) = ToSet(Front(s)) \cup {Last(s)}
         /\ Len(s) \in Nat /\ Len(s) > 0 /\ DOMAIN Front(s) = 1..(Len(s) - 1) /\ DOMAIN s = 1..Len(s)
         /\ \A i \in 1..(Len(s) - 1) : Front(s)[i] = s[i]
         /\ Last(s) = s[Len(s)]
<1>1. Len(s) \in Nat /\ Len(s) > 0 /\ DOMAIN s = 1..Len(s)
  OBVIOUS
<1>2. Last(s) = s[Len(s)]
  BY DEF Last
<1>3. Front(s) \in Seq(S) /\ Len(Front(s)) = Len(s) - 1
  BY <1>1 DEF Front
<1>4. DOMAIN Front(s) = 1..(Len(s) - 1)
  BY <1>3
<1>5. \A i \in 1..(Len(s) - 1) : Front(s)[i] = s[i]
  BY <1>1 DEF Front
<1>6. ToSet(s) = ToSet(Front(s)) \cup {Last(s)}
  <2>1. \A n \in Nat : \A i \in 1..n : i \in 1..(n - 1) \/ i = n
    OBVIOUS
  <2>2. \A n \in Nat : n > 0 => n \in 1..n /\ 1..(n - 1) \subseteq 1..n
    OBVIOUS
  <2> QED
    BY <1>1, <1>2, <1>4, <1>5, <2>1, <2>2 DEF ToSet
<1> QED
  BY <1>1, <1>2, <1>3, <1>4, <1>5, <1>6

LEMMA RemoveLayer ==
  ASSUME NEW S, NEW s \in Seq(S), NEW i \in DOMAIN s
  PROVE  /\ RemoveAt(s, i) \in Seq(S)
         /\ ToSet(RemoveAt(s, i)) \subseteq ToSet(s)
         /\ ToSet(s) \ {s[i]} \subseteq ToSet(RemoveAt(s, i))
<1>1. PICK n \in Nat : n = Len(s)
  OBVIOUS
<1>2. i \in 1..n /\ DOMAIN s = 1..n
  BY <1>1
<1> DEFINE below == SubSeq(s, 1, i - 1)
           above == SubSeq(s, i + 1, n)
           rest == below \o above
<1>3. below \in Seq(S) /\ Len(below) = i - 1 /\ \A k \in 1..(i - 1) : below[k] = s[k]
  BY <1>1, <1>2
<1>4. above \in Seq(S) /\ Len(above) = n - i /\ \A k \in 1..(n - i) : above[k] = s[i + k]
  <2>1. SubSeq(s, i + 1, Len(s)) \in Seq(S) /\ Len(SubSeq(s, i + 1, Len(s))) = Len(s) - i
    BY <1>1, <1>2
  <2>2. \A k \in 1..(Len(s) - i) : SubSeq(s, i + 1, Len(s))[k] = s[i + k]
    BY <1>1, <1>2
  <2> QED
    BY <1>1, <2>1, <2>2
<1>12. rest = RemoveAt(s, i)
  BY <1>1 DEF RemoveAt
<1> HIDE DEF below, above
<1>5. rest \in Seq(S) /\ Len(rest) = Len(below) + Len(above)
  <2>1. below \in Seq(S) /\ above \in Seq(S)
    BY <1>3, <1>4
  <2>2. rest \in Seq(S)
    BY <2>1
  <2>3. Len(rest) = Len(below) + Len(above)
    BY <2>1
  <2> QED
    BY <2>2, <2>3
<1>6. \A k \in 1..(Len(below) + Len(above)) :
        rest[k] = IF k <= Len(below) THEN below[k] ELSE above[k - Len(below)]
  <2>1. below \in Seq(S) /\ above \in Seq(S)
    BY <1>3, <1>4
  <2> QED
    BY <2>1
<1> HIDE DEF rest
<1>7. Len(rest) = n - 1 /\ DOMAIN rest = 1..(n - 1)
  BY <1>2, <1>3, <1>4, <1>5
<1>8. \A k \in 1..(n - 1) : rest[k] = IF k <= i - 1 THEN below[k] ELSE above[k - (i - 1)]
  <2>1. Len(below) + Len(above) = n - 1
    BY <1>2, <1>3, <1>4
  <2> QED
    BY <1>3, <1>6, <2>1
<1>9. \A k \in 1..(n - 1) : rest[k] = IF k < i THEN s[k] ELSE s[k + 1]
  <2> SUFFICES ASSUME NEW k \in 1..(n - 1) PROVE rest[k] = IF k < i THEN s[k] ELSE s[k + 1]
    OBVIOUS
  <2>1. CASE k < i
    <3>1. k \in 1..(i - 1) /\ k <= i - 1
      BY <1>2, <2>1
    <3> QED
      BY <1>3, <1>8, <2>1, <3>1
  <2>2. CASE ~(k < i)
    <3>1. k - (i - 1) \in 1..(n - i) /\ i + (k - (i - 1)) = k + 1 /\ ~(k <= i - 1)
      BY <1>2, <2>2
    <3> QED
      BY <1>4, <1>8, <2>2, <3>1
  <2> QED
    BY <2>1, <2>2
<1>10. \A k \in 1..(n - 1) : k \in 1..n /\ k + 1 \in 1..n
  BY <1>1
<1>11. \A m \in 1..n : m = i \/ (m \in 1..(n - 1) /\ m < i) \/ (m - 1 \in 1..(n - 1) /\ ~(m - 1 < i) /\ (m - 1) + 1 = m)
  BY <1>2
<1>13. \A e \in ToSet(rest) : e \in ToSet(s)
  <2> SUFFICES ASSUME NEW k \in 1..(n - 1) PROVE rest[k] \in ToSet(s)
    BY <1>7 DEF ToSet
  <2> QED
    BY <1>2, <1>9, <1>10 DEF ToSet
<1>14. \A m \in 1..n : s[m] = s[i] \/ s[m] \in ToSet(rest)
  BY <1>7, <1>9, <1>11 DEF ToSet
<1> QED
  BY <1>2, <1>5, <1>12, <1>13, <1>14 DEF ToSet

LEMMA LayersOf ==
  ASSUME NEW S, IsFiniteSet(S)
  PROVE  SetToSeq(S) \in Seq(S) /\ ToSet(SetToSeq(S)) = S
<1> DEFINE n == Cardinality(S)
<1>1. n \in Nat /\ ExistsBijection(1..n, S)
  BY FS_CardinalityType
<1>2. IsFiniteSet(1..n) /\ Cardinality(1..n) = n
  BY <1>1, FS_Interval
<1>3. \E f \in [1..n -> S] : IsInjective(f)
  BY <1>1 DEF ExistsBijection, Bijection, Injection, IsInjective
<1>4. SetToSeq(S) \in [1..n -> S] /\ IsInjective(SetToSeq(S))
  BY <1>3 DEF SetToSeq
<1>5. SetToSeq(S) \in Injection(1..n, S)
  BY <1>4 DEF Injection, IsInjective
<1>6. SetToSeq(S) \in Surjection(1..n, S)
  BY <1>2, <1>5, FS_Injection
<1> QED
  BY <1>1, <1>4, <1>6 DEF Surjection, ToSet

-----------------------------------------------------------------------------
(* Plugins in a page.                                                      *)

\* The parts of the type invariant.
ManagerOK ==
  /\ nature \in [Plugins -> Natures]
  /\ on \in BOOLEAN /\ enabled \subseteq Plugins /\ loaded \subseteq Plugins
  /\ slot \in Seq(Attempts \cup Plugins)
  /\ probe \in Plugins \cup {NoPlugin}
  /\ loads \in [Plugins -> Nat]

Steps == {"none", "switch", "reset", "patch", "load", "finish"}
Execs == [step : Steps, err : BOOLEAN, noise : BOOLEAN]
ExecOK == exec \in [Attempts -> Execs]

Words == {"nothing", "loaded", "threw", "not-loaded", "clean", "leaked", "broken-off"}

HostsOK ==
  /\ job \in [Jobs -> {"unplanned", "idle", "collect", "clear", "asked", "asleep"} \cup Settled]
  /\ try \in [Jobs -> 0..Tries]
  /\ says \in [Jobs -> Words]

HistoryOK ==
  /\ atStart \in [Jobs -> Nat]
  /\ hit \in [Jobs -> SUBSET (0..Tries)]
  /\ crossed \subseteq Jobs /\ unheard \subseteq Jobs

UpsetsOK == upsets \in 0..UpsetLimit

\* An attempt runs; whatever runs beside it in the page has crossed it.
Runs(x) == exec[x].step # "none"

Together ==
  /\ \A j, k \in Jobs : j # k /\ Underway(j) /\ Underway(k) => j \in crossed
  /\ \A x, y \in Attempts : x # y /\ x[1] = y[1] /\ Runs(x) /\ Runs(y) => x[1] \in crossed

\* Attempts are counted from one, and none is made twice.
Counted ==
  /\ \A j \in Jobs :
       /\ job[j] \in {"unplanned", "idle", "collect", "clear"} => try[j] = 0
       /\ job[j] = "asleep" => j \in Enables /\ try[j] < Tries
       /\ job[j] \in {"collect", "clear"} => j \in Leaks
  /\ \A x \in Attempts : x[2] > try[x[1]] => ~Runs(x) /\ x \notin ToSet(slot)

\* Over the wrapper of an attempt that nothing crossed lies nothing but the patch of its plugin.
Layered ==
  /\ \A p \in Plugins : p \in ToSet(slot) => p \in Patching
  /\ \A x \in Attempts : exec[x].step \in {"switch", "reset", "patch"} => x \notin ToSet(slot)
  /\ \A x \in Attempts : Runs(x) /\ x[1] \notin crossed =>
       \A i, k \in DOMAIN slot : i < k /\ slot[i] = x => slot[k] = PluginOf[x[1]]

\* What can go on without mishap does: an attempt that nothing befell makes its plugin an instance,
\* and hears an error only of one that throws.
Smooth(j) == j \notin crossed /\ 0 \notin hit[j] /\ nature[PluginOf[j]] # "stillborn"

Attempted ==
  \A x \in Attempts : Smooth(x[1]) =>
    /\ Runs(x) => ~exec[x].noise /\ (Loadable(PluginOf[x[1]]) => ~exec[x].err)
    /\ exec[x].step \in {"patch", "load"} /\ PluginOf[x[1]] \in enabled => PluginOf[x[1]] \in loaded
    /\ exec[x].step = "finish" => PluginOf[x[1]] \in loaded \/ x[2] \in hit[x[1]]

InVainBefore ==
  \A j \in Enables : Smooth(j) =>
    \A i \in 1..Tries :
      \/ i < try[j] /\ job[j] \in {"asked", "asleep"}
      \/ i = try[j] /\ job[j] = "asleep"
      => i \in hit[j]

\* Nothing runs past the switch before plugins are switched on; an attempt that enables has its
\* wrapper in place.
SwitchedOff == ~on => \A x \in Attempts : exec[x].step \in {"none", "switch"}
InPlace == \A x \in Attempts : exec[x].step \in {"load", "finish"} => x \in ToSet(slot)

\* An instance of a plugin that throws is known for what it is to the attempt that a job awaits,
\* unless the job was deaf to it.
Heeded ==
  \A j \in Jobs :
    nature[PluginOf[j]] = "throwing" /\ PluginOf[j] \in loaded /\ j \notin crossed \cup unheard =>
      \/ job[j] \in Settled
      \/ /\ job[j] = "asked"
         /\ \E x \in Attempts : x[1] = j /\ x[2] = try[j] /\ exec[x].step = "finish" /\ exec[x].err

LoadsCounted ==
  /\ \A p \in loaded : nature[p] # "stillborn"
  /\ \A j \in Jobs : atStart[j] <= loads[PluginOf[j]]
  /\ \A j \in Reloads : job[j] = "asked" /\ PluginOf[j] \in loaded => loads[PluginOf[j]] > atStart[j]

Watched ==
  /\ \A j \in Jobs \ Leaks : says[j] \notin {"clean", "leaked", "broken-off"}
  /\ \A j \in Leaks :
       /\ says[j] = "clean" => nature[PluginOf[j]] # "leaky" \/ 0 \in hit[j] \/ j \in crossed
       /\ job[j] = "collect" => probe = PluginOf[j] \/ 0 \in hit[j] \/ j \in crossed

PluginIInv ==
  /\ ManagerOK /\ ExecOK /\ HostsOK /\ HistoryOK /\ UpsetsOK
  /\ PatchesKept /\ WrappersUndone /\ Layered /\ Together /\ Counted
  /\ Attempted /\ InVainBefore /\ RetriesHeal /\ EnabledMeansLoaded
  /\ LoadsCounted /\ ReloadsLoad /\ Watched
  /\ SwitchedOff /\ InPlace /\ Heeded

LEMMA PluginSafe == PluginIInv => PluginInv
<1> SUFFICES ASSUME PluginIInv PROVE PluginInv
  OBVIOUS
<1>1. PluginTypeOK
  BY DEF PluginIInv, PluginTypeOK, ManagerOK, ExecOK, Execs, Steps, HostsOK, Words, HistoryOK, UpsetsOK
<1>2. LeaksSeen
  BY DEF PluginIInv, Watched, LeaksSeen
<1> QED
  BY <1>1, <1>2 DEF PluginIInv, PluginInv

LEMMA TriesCount == Tries \in Nat /\ 1 \in 1..Tries /\ UpsetLimit \in Nat /\ (0 \in 0..UpsetLimit)
  BY PluginAssumption

LEMMA JobsApart ==
  /\ \A j \in Jobs : PluginOf[j] \in Plugins
  /\ Enables \subseteq Jobs /\ Reloads \subseteq Jobs /\ Leaks \subseteq Jobs
  /\ \A j \in Enables : j \notin Reloads /\ j \notin Leaks
  /\ \A j \in Reloads : j \notin Leaks
  /\ NoPlugin \notin Plugins /\ Patching \subseteq Plugins
  BY PluginAssumption DEF Jobs

LEMMA AttemptsAre ==
  /\ \A x \in Attempts : x[1] \in Jobs /\ x[2] \in 1..Tries /\ x = <<x[1], x[2]>>
  /\ \A j \in Jobs, i \in 1..Tries : <<j, i>> \in Attempts
  BY DEF Attempts

LEMMA LayersApart == \A x \in Attempts : x \notin Plugins
  BY PluginAssumption

LEMMA RunningIs == \A j \in Jobs : Running(j) <=> \E x \in Attempts : x[1] = j /\ Runs(x)
  BY AttemptsAre DEF Running, Runs

LEMMA InLayers == \A e : e \in ToSet(slot) <=> \E i \in DOMAIN slot : slot[i] = e
  BY DEF ToSet

LEMMA UpsetsCount == ASSUME UpsetsOK, Upset \/ UNCHANGED upsets PROVE UpsetsOK'
<1>1. upsets \in 0..UpsetLimit
  BY DEF UpsetsOK
<1> QED
  BY <1>1, TriesCount DEF UpsetsOK, Upset

LEMMA NaturesAre ==
  ASSUME ManagerOK, NEW p \in Plugins
  PROVE  nature[p] # "stillborn" <=> Loadable(p) \/ nature[p] = "throwing"
<1>1. nature[p] \in {"sound", "leaky", "throwing", "stillborn"}
  BY DEF ManagerOK, Natures
<1> QED
  BY <1>1 DEF Loadable

\* What Obsidian has loaded by itself.
LEMMA StartsAre ==
  ASSUME enabled \subseteq Plugins, NEW ps, ps \in Starts \/ ps = {}
  PROVE  /\ ps \subseteq Plugins /\ \A p \in ps : nature[p] # "stillborn"
         /\ SetToSeq(ps \cap Patching) \in Seq(Attempts \cup Plugins)
         /\ ToSet(SetToSeq(ps \cap Patching)) = ps \cap Patching
         /\ \A x \in Attempts : x \notin ToSet(SetToSeq(ps \cap Patching))
<1>1. ps \subseteq Plugins /\ \A p \in ps : nature[p] # "stillborn"
  BY DEF Starts
<1>2. IsFiniteSet(ps \cap Patching)
  BY <1>1, PluginAssumption, FS_Subset
<1>3. SetToSeq(ps \cap Patching) \in Seq(ps \cap Patching) /\ ToSet(SetToSeq(ps \cap Patching)) = ps \cap Patching
  BY <1>2, LayersOf
<1>4. ps \cap Patching \subseteq Attempts \cup Plugins
  BY <1>1
<1>5. SetToSeq(ps \cap Patching) \in Seq(Attempts \cup Plugins)
  BY <1>3, <1>4
<1> QED
  BY <1>1, <1>3, <1>5, LayersApart

LEMMA StartDoes ==
  ASSUME ManagerOK, HistoryOK, NEW ps, ps \in Starts \/ ps = {}, Start(ps)
  PROVE  /\ loaded' = ps /\ ps \subseteq Plugins /\ \A p \in ps : nature[p] # "stillborn"
         /\ slot' \in Seq(Attempts \cup Plugins) /\ ToSet(slot') = ps \cap Patching
         /\ \A x \in Attempts : x \notin ToSet(slot')
         /\ loads' \in [Plugins -> Nat]
         /\ \A p \in Plugins : /\ loads[p] \in Nat /\ loads'[p] \in Nat /\ loads'[p] >= loads[p]
                               /\ p \in ps => loads'[p] > loads[p]
         /\ unheard \subseteq unheard' /\ unheard' \subseteq Jobs
         /\ \A j \in Jobs : PluginOf[j] \in ps => j \in unheard'
<1>1. /\ ps \subseteq Plugins /\ \A p \in ps : nature[p] # "stillborn"
      /\ SetToSeq(ps \cap Patching) \in Seq(Attempts \cup Plugins)
      /\ ToSet(SetToSeq(ps \cap Patching)) = ps \cap Patching
      /\ \A x \in Attempts : x \notin ToSet(SetToSeq(ps \cap Patching))
  BY StartsAre DEF ManagerOK
<1>2. loaded' = ps /\ slot' = SetToSeq(ps \cap Patching)
  BY DEF Start
<1>3. /\ loads' \in [Plugins -> Nat]
      /\ \A p \in Plugins : /\ loads[p] \in Nat /\ loads'[p] \in Nat /\ loads'[p] >= loads[p]
                            /\ p \in ps => loads'[p] > loads[p]
  <2>1. loads \in [Plugins -> Nat] /\ loads' = [p \in Plugins |-> IF p \in ps THEN loads[p] + 1 ELSE loads[p]]
    BY DEF ManagerOK, Start
  <2> QED
    BY <2>1
<1>4. /\ unheard \subseteq unheard' /\ unheard' \subseteq Jobs
      /\ \A j \in Jobs : PluginOf[j] \in ps => j \in unheard'
  BY DEF Start, JobsOf, HistoryOK
<1> QED
  BY <1>1, <1>2, <1>3, <1>4

LEMMA PluginStarts == PluginInit => PluginIInv
<1> SUFFICES ASSUME PluginInit PROVE PluginIInv
  OBVIOUS
<1> USE JobsApart
<1>0. /\ loaded \subseteq Plugins /\ \A p \in loaded : nature[p] # "stillborn"
      /\ slot \in Seq(Attempts \cup Plugins) /\ ToSet(slot) = loaded \cap Patching
      /\ \A x \in Attempts : x \notin ToSet(slot)
  <2>1. enabled \subseteq Plugins /\ (loaded \in Starts \/ loaded = {}) /\ slot = SetToSeq(loaded \cap Patching)
    BY DEF PluginInit
  <2> QED
    BY <2>1, StartsAre
<1>1. ManagerOK
  <2>1. enabled \subseteq Plugins /\ on \in BOOLEAN
    BY DEF PluginInit
  <2>2. loads \in [Plugins -> Nat]
    BY DEF PluginInit
  <2> QED
    BY <1>0, <2>1, <2>2 DEF PluginInit, ManagerOK
<1>2. ExecOK
  BY DEF PluginInit, ExecOK, Execs, Steps, NoExec
<1>3. HostsOK
  <2>1. 0 \in 0..Tries
    BY TriesCount
  <2> QED
    BY <2>1 DEF PluginInit, HostsOK, Words
<1>4. HistoryOK /\ \A j \in Jobs : PluginOf[j] \in loaded => j \in unheard
  BY DEF PluginInit, HistoryOK, JobsOf
<1>5. UpsetsOK
  BY TriesCount DEF PluginInit, UpsetsOK
<1>7. \A x \in Attempts : ~Runs(x) /\ exec[x].step = "none"
  BY DEF PluginInit, Runs, NoExec
<1>8. \A j \in Jobs : job[j] \in {"unplanned", "idle"} /\ try[j] = 0 /\ says[j] = "nothing" /\ atStart[j] = 0
  BY DEF PluginInit
<1>9. PatchesKept /\ WrappersUndone /\ Layered
  BY <1>0, <1>7 DEF PatchesKept, WrappersUndone, Layered
<1>10. Together
  BY <1>7, <1>8, RunningIs DEF Together, Underway
<1>11. Counted
  BY <1>0, <1>7, <1>8 DEF Counted
<1>12. Attempted
  BY <1>7 DEF Attempted, Runs, Loadable
<1>13. InVainBefore /\ RetriesHeal /\ EnabledMeansLoaded /\ ReloadsLoad /\ Watched
  BY <1>8 DEF InVainBefore, RetriesHeal, EnabledMeansLoaded, ReloadsLoad, Watched, Loadable
<1>14. LoadsCounted
  <2>1. \A p \in Plugins : loads[p] \in {0, 1}
    BY DEF PluginInit
  <2> QED
    BY <1>0, <1>8, <2>1 DEF LoadsCounted
<1>15. SwitchedOff /\ InPlace /\ Heeded
  BY <1>4, <1>7 DEF SwitchedOff, InPlace, Heeded
<1> QED
  BY <1>1, <1>2, <1>3, <1>4, <1>5, <1>9, <1>10, <1>11, <1>12, <1>13, <1>14, <1>15 DEF PluginIInv

-----------------------------------------------------------------------------

LEMMA StepDoes ==
  ASSUME ExecOK, NEW x \in Attempts, NEW from, NEW to \in Steps, Step(x, from, to)
  PROVE  /\ ExecOK'
         /\ exec[x].step = from /\ exec'[x].step = to
         /\ exec'[x].err = exec[x].err /\ exec'[x].noise = exec[x].noise
         /\ \A y \in Attempts : y # x => exec'[y] = exec[y]
<1>1. exec[x] \in Execs /\ exec' = [exec EXCEPT ![x] = [exec[x] EXCEPT !.step = to]]
  BY DEF ExecOK, Step
<1>2. [exec[x] EXCEPT !.step = to] \in Execs
  BY <1>1 DEF Execs
<1> QED
  BY <1>1, <1>2 DEF ExecOK, Execs, Step

LEMMA AskDoes ==
  ASSUME ExecOK, HostsOK, NEW j \in Jobs, NEW i \in 1..Tries, Asks(j, i)
  PROVE  /\ ExecOK' /\ job' \in [Jobs -> {"unplanned", "idle", "collect", "clear", "asked", "asleep"} \cup Settled]
         /\ try' \in [Jobs -> 0..Tries]
         /\ job'[j] = "asked" /\ try'[j] = i
         /\ \A k \in Jobs : k # j => job'[k] = job[k] /\ try'[k] = try[k]
         /\ exec'[<<j, i>>].step = "switch" /\ ~exec'[<<j, i>>].err /\ ~exec'[<<j, i>>].noise
         /\ \A y \in Attempts : y # <<j, i>> => exec'[y] = exec[y]
<1> DEFINE begun == [NoExec EXCEPT !.step = "switch"]
<1>1. begun \in Execs /\ begun.step = "switch" /\ ~begun.err /\ ~begun.noise
  BY DEF NoExec, Execs, Steps
<1>2. <<j, i>> \in Attempts /\ i \in 0..Tries
  BY AttemptsAre, TriesCount
<1>3. exec' = [exec EXCEPT ![<<j, i>>] = begun]
  BY DEF Asks
<1> HIDE DEF begun
<1>4. ExecOK' /\ exec'[<<j, i>>] = begun /\ \A y \in Attempts : y # <<j, i>> => exec'[y] = exec[y]
  BY <1>1, <1>2, <1>3 DEF ExecOK
<1>5. job' = [job EXCEPT ![j] = "asked"] /\ try' = [try EXCEPT ![j] = i]
  BY DEF Asks
<1>6. /\ job' \in [Jobs -> {"unplanned", "idle", "collect", "clear", "asked", "asleep"} \cup Settled]
      /\ job'[j] = "asked" /\ \A k \in Jobs : k # j => job'[k] = job[k]
  BY <1>5 DEF HostsOK
<1>7. /\ try' \in [Jobs -> 0..Tries]
      /\ try'[j] = i /\ \A k \in Jobs : k # j => try'[k] = try[k]
  BY <1>2, <1>5 DEF HostsOK
<1> QED
  BY <1>1, <1>4, <1>6, <1>7

LEMMA HeardDoes ==
  ASSUME ExecOK, slot \in Seq(Attempts \cup Plugins), NEW x \in Attempts, NEW e \in BOOLEAN, Heard(x, e)
  PROVE  /\ ExecOK'
         /\ exec'[x].step = "finish"
         /\ \A y \in Attempts : y # x => exec'[y].step = exec[y].step
         /\ \A y \in Attempts : exec'[y].noise = exec[y].noise /\ (exec'[y].err = exec[y].err \/ exec'[y].err = e)
         /\ x \in ToSet(slot) => exec'[x].err = e
<1> DEFINE after(y) ==
      LET h == IF y \in Hearers(x) THEN [exec[y] EXCEPT !.err = e] ELSE exec[y]
      IN IF y = x THEN [h EXCEPT !.step = "finish"] ELSE h
<1>1. exec' = [y \in Attempts |-> after(y)]
  BY DEF Heard
<1>2. ASSUME NEW y \in Attempts
      PROVE  /\ after(y) \in Execs
             /\ after(y).step = IF y = x THEN "finish" ELSE exec[y].step
             /\ after(y).noise = exec[y].noise /\ (after(y).err = exec[y].err \/ after(y).err = e)
             /\ y \in Hearers(x) => after(y).err = e
  <2>1. exec[y] \in Execs
    BY DEF ExecOK
  <2>2. CASE y \in Hearers(x)
    BY <2>1, <2>2 DEF Execs, Steps
  <2>3. CASE y \notin Hearers(x)
    BY <2>1, <2>3 DEF Execs, Steps
  <2> QED
    BY <2>2, <2>3
<1>3. x \in ToSet(slot) => x \in Hearers(x)
  <2>1. \A i \in DOMAIN slot : i <= i
    OBVIOUS
  <2> QED
    BY <2>1, InLayers DEF Hearers
<1> HIDE DEF after
<1> QED
  BY <1>1, <1>2, <1>3 DEF ExecOK

\* What a job begins in the page is crossed by all that is under way, and crosses it.
LEMMA CrossesDoes ==
  ASSUME HistoryOK, NEW j \in Jobs, Crosses(j)
  PROVE  /\ crossed \subseteq crossed' /\ crossed' \subseteq Jobs
         /\ \A k \in Jobs : k # j /\ Underway(k) => k \in crossed' /\ j \in crossed'
         /\ Running(j) => j \in crossed'
  BY DEF HistoryOK, Crosses

LEMMA TogetherStays ==
  ASSUME Together, crossed \subseteq crossed',
         \A x \in Attempts : Runs(x)' => Runs(x),
         \A j \in Jobs : job'[j] \in {"collect", "clear", "asked"} => Underway(j)
  PROVE  Together'
<1>1. \A j \in Jobs : Underway(j)' => Underway(j)
  <2> SUFFICES ASSUME NEW j \in Jobs, Running(j)' PROVE Running(j)
    BY DEF Underway
  <2>1. PICK i \in 1..Tries : exec'[<<j, i>>].step # "none"
    BY DEF Running
  <2>2. <<j, i>> \in Attempts
    BY AttemptsAre
  <2> QED
    BY <2>1, <2>2 DEF Running, Runs
<1> QED
  BY <1>1 DEF Together

LEMMA TogetherBegins ==
  ASSUME Together, HistoryOK, NEW j \in Jobs, Crosses(j), NEW z \in Attempts, z[1] = j,
         \A x \in Attempts : Runs(x)' => Runs(x) \/ x = z,
         \A k \in Jobs : k # j /\ job'[k] \in {"collect", "clear", "asked"} => Underway(k)
  PROVE  Together'
<1> USE CrossesDoes
<1>1. \A k \in Jobs : k # j /\ Underway(k)' => Underway(k)
  <2> SUFFICES ASSUME NEW k \in Jobs, k # j, Running(k)' PROVE Running(k)
    BY DEF Underway
  <2>1. PICK i \in 1..Tries : exec'[<<k, i>>].step # "none"
    BY DEF Running
  <2>2. <<k, i>> \in Attempts /\ <<k, i>>[1] = k
    BY AttemptsAre
  <2> QED
    BY <2>1, <2>2 DEF Running, Runs
<1>2. \A k, l \in Jobs : k # l /\ Underway(k)' /\ Underway(l)' => k \in crossed'
  <2> SUFFICES ASSUME NEW k \in Jobs, NEW l \in Jobs, k # l, Underway(k)', Underway(l)' PROVE k \in crossed'
    OBVIOUS
  <2>1. CASE k = j
    BY <1>1, <2>1
  <2>2. CASE l = j
    BY <1>1, <2>2
  <2>3. CASE k # j /\ l # j
    BY <1>1, <2>3 DEF Together
  <2> QED
    BY <2>1, <2>2, <2>3
<1>3. \A x, y \in Attempts : x # y /\ x[1] = y[1] /\ Runs(x)' /\ Runs(y)' => x[1] \in crossed'
  <2> SUFFICES ASSUME NEW x \in Attempts, NEW y \in Attempts, x # y, x[1] = y[1], Runs(x)', Runs(y)'
               PROVE  x[1] \in crossed'
    OBVIOUS
  <2>1. CASE Runs(x) /\ Runs(y)
    BY <2>1 DEF Together
  <2>2. CASE x = z
    BY <2>2, RunningIs
  <2>3. CASE y = z
    BY <2>3, RunningIs
  <2> QED
    BY <2>1, <2>2, <2>3
<1> QED
  BY <1>2, <1>3 DEF Together

\* Two attempts that run have been crossed.
LEMMA RunsAlone ==
  ASSUME Together, NEW x \in Attempts, NEW y \in Attempts, x # y, Runs(x), Runs(y)
  PROVE  x[1] \in crossed
<1>1. CASE x[1] = y[1]
  BY <1>1 DEF Together
<1>2. CASE x[1] # y[1]
  BY <1>2, RunningIs, AttemptsAre DEF Together, Underway
<1> QED
  BY <1>1, <1>2

LEMMA LayersStay ==
  ASSUME Layered, WrappersUndone, slot' = slot, crossed \subseteq crossed',
         \A x \in Attempts : x \in ToSet(slot) =>
           /\ Runs(x)' <=> Runs(x)
           /\ exec'[x].step \in {"switch", "reset", "patch"} => exec[x].step \in {"switch", "reset", "patch"}
  PROVE  Layered' /\ WrappersUndone'
<1>1. \A x \in Attempts : Runs(x)' /\ x[1] \notin crossed' =>
        \A i, k \in DOMAIN slot : i < k /\ slot[i] = x => slot[k] = PluginOf[x[1]]
  BY InLayers DEF Layered
<1>2. WrappersUndone'
  BY DEF WrappersUndone, Runs
<1> QED
  BY <1>1, <1>2 DEF Layered

\* A step after which nothing more is loaded, and what awaits a result awaits it still.
LEMMA HeededStays ==
  ASSUME Heeded, UNCHANGED nature, loaded' \subseteq loaded, crossed \subseteq crossed',
         \A j \in Jobs : PluginOf[j] \in loaded' =>
           \/ j \in crossed' \cup unheard' \/ job'[j] \in Settled
           \/ /\ j \notin unheard
              /\ \/ job[j] \notin Settled \cup {"asked"}
                 \/ /\ job'[j] = job[j] /\ try'[j] = try[j]
                    /\ \A x \in Attempts : x[1] = j /\ exec[x].step = "finish" =>
                         exec'[x].step = "finish" /\ exec'[x].err = exec[x].err
  PROVE  Heeded'
<1> SUFFICES ASSUME NEW j \in Jobs, nature[PluginOf[j]] = "throwing", PluginOf[j] \in loaded',
                    j \notin crossed' \cup unheard', job'[j] \notin Settled
             PROVE  /\ job'[j] = "asked"
                    /\ \E x \in Attempts : /\ x[1] = j /\ x[2] = try'[j]
                                          /\ exec'[x].step = "finish" /\ exec'[x].err
  BY DEF Heeded
<1>1. /\ j \notin crossed \cup unheard /\ PluginOf[j] \in loaded
      /\ \/ job[j] \notin Settled \cup {"asked"}
         \/ /\ job'[j] = job[j] /\ try'[j] = try[j]
            /\ \A x \in Attempts : x[1] = j /\ exec[x].step = "finish" =>
                 exec'[x].step = "finish" /\ exec'[x].err = exec[x].err
  OBVIOUS
<1>2. /\ job[j] \in Settled \/ job[j] = "asked"
      /\ job[j] = "asked" /\ job[j] \notin Settled =>
           \E x \in Attempts : x[1] = j /\ x[2] = try[j] /\ exec[x].step = "finish" /\ exec[x].err
  BY <1>1 DEF Heeded
<1>3. job'[j] = job[j] /\ try'[j] = try[j] /\ job[j] = "asked"
  BY <1>1, <1>2
<1>4. PICK x \in Attempts : x[1] = j /\ x[2] = try[j] /\ exec[x].step = "finish" /\ exec[x].err
  BY <1>2, <1>3
<1>5. exec'[x].step = "finish" /\ exec'[x].err
  BY <1>1, <1>3, <1>4
<1> QED
  BY <1>3, <1>4, <1>5

LEMMA AskKeeps ==
  ASSUME PluginIInv, NEW j \in Jobs, NEW i \in 1..Tries, i = try[j] + 1,
         j \notin Reloads, job[j] \in {"idle", "asleep", "clear"}, job[j] = "asleep" \/ try[j] = 0,
         Asks(j, i), Crosses(j), probe' = probe \/ (probe' = NoPlugin /\ job[j] = "clear"),
         UNCHANGED <<nature, manager, says, atStart, hit, unheard, upsets>>
  PROVE  PluginIInv'
<1> USE DEF PluginIInv, manager
<1>a. /\ ExecOK' /\ job' \in [Jobs -> {"unplanned", "idle", "collect", "clear", "asked", "asleep"} \cup Settled]
      /\ try' \in [Jobs -> 0..Tries] /\ job'[j] = "asked" /\ try'[j] = i
      /\ \A k \in Jobs : k # j => job'[k] = job[k] /\ try'[k] = try[k]
      /\ exec'[<<j, i>>].step = "switch" /\ ~exec'[<<j, i>>].err /\ ~exec'[<<j, i>>].noise
      /\ \A y \in Attempts : y # <<j, i>> => exec'[y] = exec[y]
  BY AskDoes
<1>c. /\ crossed \subseteq crossed' /\ crossed' \subseteq Jobs
      /\ \A k \in Jobs : k # j /\ Underway(k) => k \in crossed' /\ j \in crossed'
  BY CrossesDoes
<1>z. PICK z \in Attempts : z = <<j, i>>
  BY AttemptsAre
<1>n. try[j] \in Nat /\ i > try[j]
  <2>1. try[j] \in 0..Tries /\ Tries \in Nat
    BY TriesCount DEF HostsOK
  <2> QED
    BY <2>1
<1>f. z[1] = j /\ z[2] = i /\ ~Runs(z) /\ z \notin ToSet(slot)
  BY <1>n, <1>z DEF Counted
<1>1. ManagerOK' /\ ExecOK' /\ HostsOK' /\ HistoryOK' /\ UpsetsOK'
  BY <1>a, <1>c DEF ManagerOK, HostsOK, HistoryOK, UpsetsOK
<1>2. PatchesKept' /\ WrappersUndone' /\ Layered'
  BY <1>a, <1>c, <1>z, <1>f, LayersStay DEF PatchesKept, Runs
<1>3. Together'
  <2>1. \A x \in Attempts : Runs(x)' => Runs(x) \/ x = z
    BY <1>a, <1>z DEF Runs
  <2>2. \A k \in Jobs : k # j /\ job'[k] \in {"collect", "clear", "asked"} => Underway(k)
    BY <1>a DEF Underway
  <2> QED
    BY <1>f, <2>1, <2>2, TogetherBegins
<1>4. Counted'
  <2>1. \A k \in Jobs :
          /\ job'[k] \in {"unplanned", "idle", "collect", "clear"} => try'[k] = 0
          /\ job'[k] = "asleep" => k \in Enables /\ try'[k] < Tries
          /\ job'[k] \in {"collect", "clear"} => k \in Leaks
    BY <1>a DEF Counted
  <2>2. ASSUME NEW x \in Attempts, x[2] > try'[x[1]] PROVE ~Runs(x)' /\ x \notin ToSet(slot')
    <3>1. x # z
      BY <1>a, <1>f, <2>2, AttemptsAre
    <3>2. x[2] > try[x[1]]
      <4>1. CASE x[1] = j
        <5>1. x[2] > i /\ x[2] \in Nat /\ i \in Nat
          BY <1>a, <2>2, <4>1, AttemptsAre
        <5> QED
          BY <1>n, <4>1, <5>1
      <4>2. CASE x[1] # j
        BY <1>a, <2>2, <4>2, AttemptsAre
      <4> QED
        BY <4>1, <4>2
    <3> QED
      BY <1>a, <1>z, <3>1, <3>2 DEF Counted, Runs
  <2> QED
    BY <2>1, <2>2 DEF Counted
<1>5. Attempted'
  <2> SUFFICES ASSUME NEW x \in Attempts, Smooth(x[1])'
               PROVE  /\ Runs(x)' => ~exec'[x].noise /\ (Loadable(PluginOf[x[1]]) => ~exec'[x].err)
                      /\ exec'[x].step \in {"patch", "load"} /\ PluginOf[x[1]] \in enabled' => PluginOf[x[1]] \in loaded'
                      /\ exec'[x].step = "finish" => PluginOf[x[1]] \in loaded' \/ x[2] \in hit'[x[1]]
    BY DEF Attempted, Loadable
  <2>1. CASE x = z
    BY <1>a, <1>z, <2>1
  <2>2. CASE x # z
    BY <1>a, <1>c, <1>z, <2>2 DEF Attempted, Runs, Smooth, Loadable
  <2> QED
    BY <2>1, <2>2
<1>6. InVainBefore'
  <2> SUFFICES ASSUME NEW k \in Enables, Smooth(k)', NEW m \in 1..Tries,
                      \/ m < try'[k] /\ job'[k] \in {"asked", "asleep"}
                      \/ m = try'[k] /\ job'[k] = "asleep"
               PROVE  m \in hit'[k]
    BY DEF InVainBefore
  <2>1. Smooth(k) /\ k \in Jobs
    BY <1>c, JobsApart DEF Smooth
  <2>2. CASE k = j
    <3>1. m < i /\ m \in Nat /\ m > 0
      BY <1>a, <2>2
    <3>2. (m = try[j] \/ m < try[j]) /\ try[j] # 0
      BY <1>n, <3>1
    <3> QED
      BY <2>1, <2>2, <3>2 DEF InVainBefore
  <2>3. CASE k # j
    BY <1>a, <2>1, <2>3 DEF InVainBefore
  <2> QED
    BY <2>2, <2>3
<1>7. RetriesHeal' /\ EnabledMeansLoaded' /\ ReloadsLoad'
  BY <1>a, <1>c, JobsApart DEF RetriesHeal, EnabledMeansLoaded, ReloadsLoad, Loadable
<1>8. LoadsCounted'
  BY <1>a, JobsApart DEF LoadsCounted
<1>9. Watched'
  <2>1. \A k \in Leaks : job'[k] = "collect" => k # j /\ job[k] = "collect" /\ (probe' = probe \/ k \in crossed')
    BY <1>a, <1>c, JobsApart DEF Underway
  <2> QED
    BY <1>c, <2>1 DEF Watched
<1>10. SwitchedOff' /\ InPlace'
  BY <1>a, <1>z DEF SwitchedOff, InPlace
<1>11. Heeded'
  <2>1. \A k \in Jobs : PluginOf[k] \in loaded =>
          \/ k \in crossed' \cup unheard \/ job'[k] \in Settled
          \/ /\ k \notin unheard
             /\ \/ job[k] \notin Settled \cup {"asked"}
                \/ /\ job'[k] = job[k] /\ try'[k] = try[k]
                   /\ \A x \in Attempts : x[1] = k /\ exec[x].step = "finish" =>
                        exec'[x].step = "finish" /\ exec'[x].err = exec[x].err
    BY <1>a, <1>f, <1>z DEF Settled
  <2> QED
    BY <1>c, <2>1, HeededStays
<1> QED
  BY <1>1, <1>2, <1>3, <1>4, <1>5, <1>6, <1>7, <1>8, <1>9, <1>10, <1>11

LEMMA SetupEnablesKeeps ==
  ASSUME PluginIInv, NEW j \in Enables, SetupEnables(j) PROVE PluginIInv'
<1>1. j \in Jobs /\ j \notin Reloads /\ 1 \in 1..Tries
  BY JobsApart, TriesCount
<1>2. try[j] = 0
  BY <1>1 DEF PluginIInv, Counted, SetupEnables
<1> QED
  BY <1>1, <1>2, AskKeeps DEF SetupEnables

LEMMA RetriesKeeps ==
  ASSUME PluginIInv, NEW j \in Jobs, Retries(j) PROVE PluginIInv'
<1>1. j \in Enables /\ try[j] < Tries /\ try[j] \in 0..Tries
  BY DEF PluginIInv, Counted, HostsOK, Retries
<1>2. try[j] + 1 \in 1..Tries /\ j \notin Reloads
  BY <1>1, TriesCount, JobsApart
<1> QED
  BY <1>2, AskKeeps DEF Retries, NextTry

LEMMA ClearsProbeKeeps ==
  ASSUME PluginIInv, NEW j \in Jobs, ClearsProbe(j) PROVE PluginIInv'
<1>1. j \in Leaks /\ try[j] = 0
  BY DEF PluginIInv, Counted, ClearsProbe
<1>2. 1 \in 1..Tries /\ j \notin Reloads
  BY <1>1, TriesCount, JobsApart
<1> QED
  BY <1>1, <1>2, AskKeeps DEF ClearsProbe

LEMMA EvalCappedKeeps ==
  ASSUME PluginIInv, NEW j \in Jobs, EvalCapped(j) PROVE PluginIInv'
<1> USE DEF PluginIInv, manager
<1>e. /\ job[j] = "asked" /\ job' = [job EXCEPT ![j] = InVain(j)] /\ hit' = [hit EXCEPT ![j] = @ \cup {try[j]}]
      /\ unheard' = IF PluginOf[j] \in loaded THEN unheard \cup {j} ELSE unheard
      /\ UNCHANGED <<nature, manager, probe, try, says, atStart, crossed, upsets>>
  BY DEF EvalCapped
<1>v. /\ InVain(j) \in {"asleep", "failed"}
      /\ InVain(j) = "asleep" => j \in Enables /\ try[j] < Tries
      /\ InVain(j) = "failed" => j \notin Enables \/ ~(try[j] < Tries)
  BY DEF InVain
<1>j. /\ job'[j] = InVain(j) /\ \A k \in Jobs : k # j => job'[k] = job[k] /\ hit'[k] = hit[k]
      /\ hit'[j] = hit[j] \cup {try[j]} /\ \A k \in Jobs : hit[k] \subseteq hit'[k]
  BY <1>e DEF HostsOK, HistoryOK
<1>x. /\ ExecOK'
      /\ \A x \in Attempts : exec'[x] = exec[x] \/ (exec[x].step = "switch" /\ exec'[x].step = "none")
  <2>1. CASE UNCHANGED exec
    BY <2>1 DEF ExecOK
  <2>2. CASE Step(<<j, try[j]>>, "switch", "none")
    <3>1. CASE <<j, try[j]>> \in Attempts
      BY <2>2, <3>1, StepDoes DEF Steps
    <3>2. CASE <<j, try[j]>> \notin Attempts
      BY <2>2, <3>2 DEF Step, ExecOK
    <3> QED
      BY <3>1, <3>2
  <2> QED
    BY <2>1, <2>2 DEF EvalCapped
<1>s. \A k \in Jobs : Smooth(k)' => Smooth(k)
  BY <1>e, <1>j DEF Smooth
<1>1. ManagerOK' /\ HistoryOK' /\ UpsetsOK'
  BY <1>e, TriesCount DEF ManagerOK, HistoryOK, UpsetsOK, HostsOK
<1>2. HostsOK'
  BY <1>e, <1>v DEF HostsOK, Settled
<1>3. PatchesKept' /\ WrappersUndone' /\ Layered'
  <2>1. \A x \in Attempts : x \in ToSet(slot) => exec'[x] = exec[x]
    BY <1>x DEF Layered
  <2> QED
    BY <1>e, <2>1, LayersStay DEF PatchesKept, Runs
<1>4. Together'
  BY <1>e, <1>j, <1>v, <1>x, TogetherStays DEF Runs, Underway
<1>5. Counted'
  BY <1>e, <1>j, <1>v, <1>x DEF Counted, Runs
<1>6. Attempted'
  BY <1>e, <1>j, <1>s, <1>x, AttemptsAre DEF Attempted, Runs, Loadable
<1>7. InVainBefore'
  BY <1>e, <1>j, <1>s, JobsApart DEF InVainBefore
<1>8. RetriesHeal'
  <2> SUFFICES ASSUME NEW k \in Enables, job'[k] = "failed", Smooth(k)', Loadable(PluginOf[k])
               PROVE  1..Tries \subseteq hit'[k]
    BY <1>e DEF RetriesHeal, Smooth, Loadable
  <2>1. CASE k = j
    <3>1. try[j] \in 0..Tries /\ ~(try[j] < Tries)
      BY <1>j, <1>v, <2>1 DEF HostsOK
    <3>2. \A i \in 1..Tries : i < try[j] \/ i = try[j]
      BY <3>1, TriesCount
    <3> QED
      BY <1>e, <1>j, <1>s, <2>1, <3>2, JobsApart DEF InVainBefore
  <2>2. CASE k # j
    BY <1>e, <1>j, <1>s, <2>2, JobsApart DEF RetriesHeal, Smooth, Loadable
  <2> QED
    BY <2>1, <2>2
<1>9. EnabledMeansLoaded' /\ LoadsCounted' /\ ReloadsLoad' /\ Watched'
  BY <1>e, <1>j, <1>v, JobsApart DEF EnabledMeansLoaded, LoadsCounted, ReloadsLoad, Watched, Loadable
<1>10. SwitchedOff' /\ InPlace'
  BY <1>e, <1>x DEF SwitchedOff, InPlace
<1>11. Heeded'
  <2>1. \A k \in Jobs : PluginOf[k] \in loaded =>
          \/ k \in crossed \cup unheard' \/ job'[k] \in Settled
          \/ /\ k \notin unheard
             /\ \/ job[k] \notin Settled \cup {"asked"}
                \/ /\ job'[k] = job[k] /\ try'[k] = try[k]
                   /\ \A x \in Attempts : x[1] = k /\ exec[x].step = "finish" =>
                        exec'[x].step = "finish" /\ exec'[x].err = exec[x].err
    BY <1>e, <1>j, <1>x DEF Settled
  <2> QED
    BY <1>e, <2>1, HeededStays
<1> QED
  BY <1>1, <1>2, <1>3, <1>4, <1>5, <1>6, <1>7, <1>8, <1>9, <1>10, <1>11, <1>x

LEMMA DisableDoes ==
  ASSUME ManagerOK, NEW p \in Plugins, DisablePlugin(p) \/ UNCHANGED <<loaded, slot>>
  PROVE  /\ loaded' \subseteq loaded /\ slot' \in Seq(Attempts \cup Plugins)
         /\ ToSet(slot') \subseteq ToSet(slot)
         /\ \A x \in Attempts : x \in ToSet(slot) => x \in ToSet(slot')
         /\ \A q \in loaded' : q \in ToSet(slot) => q \in ToSet(slot')
         /\ DisablePlugin(p) => p \notin loaded'
<1>1. slot \in Seq(Attempts \cup Plugins)
  BY DEF ManagerOK
<1>2. CASE DisablePlugin(p) /\ p \in ToSet(slot)
  <2>1. PatchOf(p) \in DOMAIN slot /\ slot[PatchOf(p)] = p
    BY <1>2, InLayers DEF PatchOf
  <2>2. slot' = RemoveAt(slot, PatchOf(p)) /\ loaded' = loaded \ {p}
    BY <1>2 DEF DisablePlugin
  <2> QED
    BY <1>1, <2>1, <2>2, RemoveLayer, LayersApart
<1>3. CASE DisablePlugin(p) /\ p \notin ToSet(slot)
  BY <1>1, <1>3 DEF DisablePlugin
<1>4. CASE UNCHANGED <<loaded, slot>> /\ ~DisablePlugin(p)
  BY <1>1, <1>4
<1> QED
  BY <1>2, <1>3, <1>4

\* When a plugin is disabled every attempt that runs is crossed: no wrapper has to lie on top.
LEMMA DisableKeepsLayers ==
  ASSUME ManagerOK, PatchesKept, Layered, WrappersUndone, NEW p \in Plugins,
         DisablePlugin(p) \/ UNCHANGED <<loaded, slot>>, crossed \subseteq crossed',
         \A x \in Attempts : Runs(x) => x[1] \in crossed',
         \A x \in Attempts : x \in ToSet(slot) => exec'[x] = exec[x]
  PROVE  PatchesKept' /\ WrappersUndone' /\ Layered'
<1> USE DisableDoes
<1>1. PatchesKept'
  BY DEF PatchesKept
<1>2. WrappersUndone'
  BY DEF WrappersUndone
<1>3. \A x \in Attempts : x \in ToSet(slot') /\ Runs(x)' => x[1] \in crossed'
  BY DEF Runs
<1>4. \A x \in Attempts : Runs(x)' /\ x[1] \notin crossed' =>
        \A i, k \in DOMAIN slot' : i < k /\ slot'[i] = x => slot'[k] = PluginOf[x[1]]
  BY <1>3 DEF ToSet
<1> QED
  BY <1>1, <1>2, <1>4 DEF Layered

LEMMA BeginsDoes ==
  ASSUME HistoryOK, ManagerOK, NEW j \in Jobs, Begins(j)
  PROVE  /\ job[j] = "idle" /\ atStart' = [atStart EXCEPT ![j] = loads[PluginOf[j]]]
         /\ atStart' \in [Jobs -> Nat] /\ atStart'[j] = loads[PluginOf[j]]
         /\ \A k \in Jobs : k # j => atStart'[k] = atStart[k]
         /\ unheard' = unheard \ {j} /\ unheard' \subseteq Jobs
         /\ crossed \subseteq crossed' /\ crossed' \subseteq Jobs
         /\ \A k \in Jobs : k # j /\ Underway(k) => k \in crossed'
         /\ \A x \in Attempts : Runs(x) => x[1] \in crossed'
<1>1. loads[PluginOf[j]] \in Nat /\ atStart \in [Jobs -> Nat]
  BY JobsApart DEF ManagerOK, HistoryOK
<1>2. /\ job[j] = "idle" /\ atStart' = [atStart EXCEPT ![j] = loads[PluginOf[j]]] /\ Crosses(j)
      /\ unheard' = unheard \ {j} /\ unheard' \subseteq Jobs
  BY DEF Begins, HistoryOK
<1>3. /\ crossed \subseteq crossed' /\ crossed' \subseteq Jobs
      /\ \A k \in Jobs : k # j /\ Underway(k) => k \in crossed'
      /\ Running(j) => j \in crossed'
  BY <1>2, CrossesDoes
<1>4. ASSUME NEW x \in Attempts, Runs(x) PROVE x[1] \in crossed'
  BY <1>3, <1>4, AttemptsAre, RunningIs DEF Underway
<1> QED
  BY <1>1, <1>2, <1>3, <1>4

LEMMA ReloadKeeps ==
  ASSUME PluginIInv, NEW j \in Reloads, reloadPlugin(j) PROVE PluginIInv'
<1> USE DEF PluginIInv
<1>r. /\ Begins(j) /\ DisablePlugin(PluginOf[j]) /\ Asks(j, 1)
      /\ UNCHANGED <<nature, on, enabled, loads, probe, says, hit, upsets>>
  BY DEF reloadPlugin
<1>j. j \in Jobs /\ j \notin Enables /\ j \notin Leaks /\ PluginOf[j] \in Plugins /\ 1 \in 1..Tries
  BY JobsApart, TriesCount
<1>b. /\ job[j] = "idle" /\ atStart' \in [Jobs -> Nat] /\ atStart'[j] = loads[PluginOf[j]]
      /\ \A k \in Jobs : k # j => atStart'[k] = atStart[k]
      /\ unheard' = unheard \ {j} /\ unheard' \subseteq Jobs
      /\ crossed \subseteq crossed' /\ crossed' \subseteq Jobs
      /\ \A x \in Attempts : Runs(x) => x[1] \in crossed'
  BY <1>j, <1>r, BeginsDoes
<1>d. /\ loaded' \subseteq loaded /\ slot' \in Seq(Attempts \cup Plugins)
      /\ \A x \in Attempts : x \in ToSet(slot) => x \in ToSet(slot')
      /\ ToSet(slot') \subseteq ToSet(slot) /\ PluginOf[j] \notin loaded'
  BY <1>j, <1>r, DisableDoes
<1>a. /\ ExecOK' /\ job' \in [Jobs -> {"unplanned", "idle", "collect", "clear", "asked", "asleep"} \cup Settled]
      /\ try' \in [Jobs -> 0..Tries] /\ job'[j] = "asked" /\ try'[j] = 1
      /\ \A k \in Jobs : k # j => job'[k] = job[k] /\ try'[k] = try[k]
      /\ exec'[<<j, 1>>].step = "switch" /\ ~exec'[<<j, 1>>].err /\ ~exec'[<<j, 1>>].noise
      /\ \A y \in Attempts : y # <<j, 1>> => exec'[y] = exec[y]
  BY <1>j, <1>r, AskDoes
<1>z. PICK z \in Attempts : z = <<j, 1>>
  BY <1>j, AttemptsAre
<1>n. try[j] = 0
  BY <1>b, <1>j DEF Counted
<1>f. z[1] = j /\ z[2] = 1 /\ ~Runs(z) /\ z \notin ToSet(slot)
  BY <1>n, <1>z DEF Counted
<1>s. \A k \in Jobs : Smooth(k)' => Smooth(k)
  BY <1>b, <1>r DEF Smooth
<1>1. ManagerOK' /\ HostsOK' /\ HistoryOK' /\ UpsetsOK'
  BY <1>a, <1>b, <1>d, <1>r DEF ManagerOK, HostsOK, HistoryOK, UpsetsOK
<1>2. PatchesKept' /\ WrappersUndone' /\ Layered'
  BY <1>a, <1>b, <1>f, <1>j, <1>r, <1>z, DisableKeepsLayers
<1>3. Together'
  <2>1. \A x \in Attempts : Runs(x)' => Runs(x) \/ x = z
    BY <1>a, <1>z DEF Runs
  <2>2. \A k \in Jobs : k # j /\ job'[k] \in {"collect", "clear", "asked"} => Underway(k)
    BY <1>a DEF Underway
  <2>3. Crosses(j)
    BY <1>r DEF Begins
  <2> QED
    BY <1>f, <1>j, <2>1, <2>2, <2>3, TogetherBegins
<1>4. Counted'
  <2>1. \A k \in Jobs :
          /\ job'[k] \in {"unplanned", "idle", "collect", "clear"} => try'[k] = 0
          /\ job'[k] = "asleep" => k \in Enables /\ try'[k] < Tries
          /\ job'[k] \in {"collect", "clear"} => k \in Leaks
    BY <1>a DEF Counted
  <2>2. ASSUME NEW x \in Attempts, x[2] > try'[x[1]] PROVE ~Runs(x)' /\ x \notin ToSet(slot')
    <3>1. x # z
      BY <1>a, <1>f, <2>2, AttemptsAre
    <3>2. x[2] > try[x[1]]
      <4>1. CASE x[1] = j
        BY <1>n, <4>1, AttemptsAre
      <4>2. CASE x[1] # j
        BY <1>a, <2>2, <4>2, AttemptsAre
      <4> QED
        BY <4>1, <4>2
    <3> QED
      BY <1>a, <1>d, <1>z, <3>1, <3>2 DEF Counted, Runs
  <2> QED
    BY <2>1, <2>2 DEF Counted
<1>5. Attempted'
  <2> SUFFICES ASSUME NEW x \in Attempts, Runs(x)', x[1] \notin crossed'
               PROVE  ~exec'[x].err /\ ~exec'[x].noise /\ exec'[x].step = "switch"
    BY DEF Attempted, Smooth, Runs, Loadable
  <2> QED
    BY <1>a, <1>b, <1>z DEF Runs
<1>6. InVainBefore' /\ RetriesHeal' /\ EnabledMeansLoaded'
  BY <1>a, <1>b, <1>j, <1>r, <1>s, JobsApart DEF InVainBefore, RetriesHeal, EnabledMeansLoaded, Loadable
<1>7. LoadsCounted'
  <2>1. \A p \in loaded' : nature'[p] # "stillborn"
    BY <1>d, <1>r DEF LoadsCounted
  <2>2. \A k \in Jobs : atStart'[k] <= loads'[PluginOf[k]]
    <3>1. loads[PluginOf[j]] \in Nat
      BY <1>j DEF ManagerOK
    <3> QED
      BY <1>b, <1>r, <3>1 DEF LoadsCounted
  <2>3. \A k \in Reloads : job'[k] = "asked" /\ PluginOf[k] \in loaded' => loads'[PluginOf[k]] > atStart'[k]
    BY <1>a, <1>b, <1>d, <1>r, JobsApart DEF LoadsCounted
  <2> QED
    BY <2>1, <2>2, <2>3 DEF LoadsCounted
<1>8. ReloadsLoad' /\ Watched'
  BY <1>a, <1>b, <1>j, <1>r, JobsApart DEF ReloadsLoad, Watched, Loadable
<1>9. SwitchedOff' /\ InPlace'
  BY <1>a, <1>d, <1>r, <1>z DEF SwitchedOff, InPlace
<1>10. Heeded'
  <2>1. \A k \in Jobs : PluginOf[k] \in loaded' =>
          \/ k \in crossed' \cup unheard' \/ job'[k] \in Settled
          \/ /\ k \notin unheard
             /\ \/ job[k] \notin Settled \cup {"asked"}
                \/ /\ job'[k] = job[k] /\ try'[k] = try[k]
                   /\ \A x \in Attempts : x[1] = k /\ exec[x].step = "finish" =>
                        exec'[x].step = "finish" /\ exec'[x].err = exec[x].err
    <3>1. \A k \in Jobs : PluginOf[k] \in loaded' => k # j
      BY <1>d
    <3>2. \A x \in Attempts : x[1] # j => exec'[x] = exec[x]
      BY <1>a, <1>f, <1>z
    <3> QED
      BY <1>a, <1>b, <3>1, <3>2
  <2> QED
    BY <1>b, <1>d, <1>r, <2>1, HeededStays
<1> QED
  BY <1>1, <1>2, <1>3, <1>4, <1>5, <1>6, <1>7, <1>8, <1>9, <1>10, <1>a

LEMMA DetectKeeps ==
  ASSUME PluginIInv, NEW j \in Leaks, detectPluginUnloadLeak(j) PROVE PluginIInv'
<1> USE DEF PluginIInv
<1>r. /\ Begins(j) /\ UNCHANGED <<nature, on, enabled, loads, exec, try, says, hit, upsets>>
      /\ \/ DisablePlugin(PluginOf[j]) /\ probe' = PluginOf[j] /\ job' = [job EXCEPT ![j] = "collect"]
         \/ UNCHANGED <<probe, loaded, slot>> /\ job' = [job EXCEPT ![j] = "failed"]
  BY DEF detectPluginUnloadLeak, InstanceOf
<1>j. j \in Jobs /\ j \notin Enables /\ j \notin Reloads /\ PluginOf[j] \in Plugins /\ 1 \in 1..Tries
  BY JobsApart, TriesCount
<1>b. /\ job[j] = "idle" /\ atStart' \in [Jobs -> Nat] /\ atStart'[j] = loads[PluginOf[j]]
      /\ \A k \in Jobs : k # j => atStart'[k] = atStart[k]
      /\ unheard' = unheard \ {j} /\ unheard' \subseteq Jobs
      /\ crossed \subseteq crossed' /\ crossed' \subseteq Jobs
      /\ \A k \in Jobs : k # j /\ Underway(k) => k \in crossed'
      /\ \A x \in Attempts : Runs(x) => x[1] \in crossed'
  BY <1>j, <1>r, BeginsDoes
<1>d. /\ loaded' \subseteq loaded /\ slot' \in Seq(Attempts \cup Plugins)
      /\ ToSet(slot') \subseteq ToSet(slot) /\ \A x \in Attempts : x \in ToSet(slot) => x \in ToSet(slot')
  BY <1>j, <1>r, DisableDoes
<1>a. /\ job'[j] \in {"collect", "failed"} /\ \A k \in Jobs : k # j => job'[k] = job[k]
      /\ job' \in [Jobs -> {"unplanned", "idle", "collect", "clear", "asked", "asleep"} \cup Settled]
  BY <1>j, <1>r DEF HostsOK, Settled
<1>s. \A k \in Jobs : Smooth(k)' => Smooth(k)
  BY <1>b, <1>r DEF Smooth
<1>1. ManagerOK' /\ ExecOK' /\ HostsOK' /\ HistoryOK' /\ UpsetsOK'
  BY <1>a, <1>b, <1>d, <1>j, <1>r DEF ManagerOK, ExecOK, HostsOK, HistoryOK, UpsetsOK
<1>2. PatchesKept' /\ WrappersUndone' /\ Layered'
  BY <1>b, <1>j, <1>r, DisableKeepsLayers
<1>3. Together'
  <2>1. PICK z \in Attempts : z = <<j, 1>> /\ z[1] = j
    BY <1>j, AttemptsAre
  <2>2. \A x \in Attempts : Runs(x)' => Runs(x)
    BY <1>r DEF Runs
  <2>3. \A k \in Jobs : k # j /\ job'[k] \in {"collect", "clear", "asked"} => Underway(k)
    BY <1>a DEF Underway
  <2>4. Crosses(j)
    BY <1>r DEF Begins
  <2> QED
    BY <1>j, <2>1, <2>2, <2>3, <2>4, TogetherBegins
<1>4. Counted'
  BY <1>a, <1>b, <1>d, <1>j, <1>r DEF Counted, Runs
<1>5. Attempted'
  <2> SUFFICES ASSUME NEW x \in Attempts, Runs(x)', x[1] \notin crossed' PROVE FALSE
    BY DEF Attempted, Smooth, Runs, Loadable
  <2> QED
    BY <1>b, <1>r DEF Runs
<1>6. InVainBefore' /\ RetriesHeal' /\ EnabledMeansLoaded'
  BY <1>a, <1>b, <1>j, <1>r, <1>s, JobsApart DEF InVainBefore, RetriesHeal, EnabledMeansLoaded, Loadable
<1>7. LoadsCounted'
  <2>1. \A p \in loaded' : nature'[p] # "stillborn"
    BY <1>d, <1>r DEF LoadsCounted
  <2>2. \A k \in Jobs : atStart'[k] <= loads'[PluginOf[k]]
    <3>1. loads[PluginOf[j]] \in Nat
      BY <1>j DEF ManagerOK
    <3> QED
      BY <1>b, <1>r, <3>1 DEF LoadsCounted
  <2>3. \A k \in Reloads : job'[k] = "asked" /\ PluginOf[k] \in loaded' => loads'[PluginOf[k]] > atStart'[k]
    BY <1>a, <1>b, <1>d, <1>j, <1>r, JobsApart DEF LoadsCounted
  <2> QED
    BY <2>1, <2>2, <2>3 DEF LoadsCounted
<1>8. ReloadsLoad'
  BY <1>a, <1>b, <1>j, <1>r, JobsApart DEF ReloadsLoad, Loadable
<1>9. Watched'
  <2>1. \A k \in Leaks : k # j /\ job'[k] = "collect" => k \in crossed'
    BY <1>a, <1>b, JobsApart DEF Underway
  <2>2. job'[j] = "collect" => probe' = PluginOf[j]
    BY <1>j, <1>r DEF HostsOK
  <2> QED
    BY <1>b, <1>r, <2>1, <2>2 DEF Watched
<1>10. SwitchedOff' /\ InPlace'
  BY <1>d, <1>r DEF SwitchedOff, InPlace
<1>11. Heeded'
  <2>1. \A k \in Jobs : PluginOf[k] \in loaded' =>
          \/ k \in crossed' \cup unheard' \/ job'[k] \in Settled
          \/ /\ k \notin unheard
             /\ \/ job[k] \notin Settled \cup {"asked"}
                \/ /\ job'[k] = job[k] /\ try'[k] = try[k]
                   /\ \A x \in Attempts : x[1] = k /\ exec[x].step = "finish" =>
                        exec'[x].step = "finish" /\ exec'[x].err = exec[x].err
    <3>1. PluginOf[j] \notin loaded' \/ job'[j] \in Settled
      <4>1. CASE DisablePlugin(PluginOf[j])
        BY <1>j, <4>1, DisableDoes
      <4>2. CASE job' = [job EXCEPT ![j] = "failed"]
        BY <1>j, <4>2 DEF HostsOK, Settled
      <4> QED
        BY <1>r, <4>1, <4>2
    <3> QED
      BY <1>a, <1>b, <1>r, <3>1 DEF Settled
  <2> QED
    BY <1>b, <1>d, <1>r, <2>1, HeededStays
<1> QED
  BY <1>1, <1>2, <1>3, <1>4, <1>5, <1>6, <1>7, <1>8, <1>9, <1>10, <1>11

LEMMA CollectsKeeps ==
  ASSUME PluginIInv, NEW j \in Jobs, Collects(j) PROVE PluginIInv'
<1> USE DEF PluginIInv, manager
<1>r. /\ job[j] = "collect" /\ job' = [job EXCEPT ![j] = "clear"]
      /\ UNCHANGED <<nature, manager, probe, exec, try, atStart, crossed, unheard>>
      /\ Upset \/ UNCHANGED upsets
      /\ \/ says' = [says EXCEPT ![j] = IF probe # NoPlugin /\ nature[probe] = "leaky" THEN "leaked" ELSE "clean"]
         \/ says' = [says EXCEPT ![j] = "broken-off"]
      /\ hit' = hit \/ hit' = [hit EXCEPT ![j] = @ \cup {0}]
  BY DEF Collects
<1>j. j \in Leaks /\ j \notin Enables /\ j \notin Reloads
  BY <1>r, JobsApart DEF Counted
<1>a. /\ job'[j] = "clear" /\ \A k \in Jobs : k # j => job'[k] = job[k] /\ says'[k] = says[k]
      /\ \A k \in Jobs : hit[k] \subseteq hit'[k] /\ (k # j => hit'[k] = hit[k])
      /\ HostsOK' /\ HistoryOK'
  <2>1. 0 \in 0..Tries
    BY TriesCount
  <2>2. /\ job'[j] = "clear" /\ \A k \in Jobs : k # j => job'[k] = job[k]
        /\ job' \in [Jobs -> {"unplanned", "idle", "collect", "clear", "asked", "asleep"} \cup Settled]
    BY <1>r DEF HostsOK
  <2>3. /\ \A k \in Jobs : k # j => says'[k] = says[k]
        /\ says' \in [Jobs -> Words]
    <3>1. PICK word \in {"clean", "leaked", "broken-off"} : says' = [says EXCEPT ![j] = word]
      BY <1>r
    <3> QED
      BY <3>1 DEF HostsOK, Words
  <2>4. hit' \in [Jobs -> SUBSET (0..Tries)] /\ \A k \in Jobs : hit[k] \subseteq hit'[k] /\ (k # j => hit'[k] = hit[k])
    BY <1>r, <2>1 DEF HistoryOK
  <2> QED
    BY <1>r, <2>2, <2>3, <2>4 DEF HostsOK, HistoryOK
<1>s. \A k \in Jobs : Smooth(k)' => Smooth(k)
  BY <1>a, <1>r DEF Smooth
<1>1. ManagerOK' /\ ExecOK' /\ UpsetsOK'
  BY <1>r, UpsetsCount DEF ManagerOK, ExecOK
<1>2. PatchesKept' /\ WrappersUndone' /\ Layered'
  BY <1>r, LayersStay DEF PatchesKept, Runs
<1>3. Together'
  BY <1>a, <1>r, TogetherStays DEF Runs, Underway
<1>4. Counted'
  BY <1>a, <1>j, <1>r DEF Counted, Runs
<1>5. Attempted'
  BY <1>a, <1>r, <1>s, AttemptsAre DEF Attempted, Runs, Loadable
<1>6. InVainBefore' /\ RetriesHeal' /\ EnabledMeansLoaded'
  BY <1>a, <1>j, <1>r, <1>s, JobsApart DEF InVainBefore, RetriesHeal, EnabledMeansLoaded, Loadable
<1>7. LoadsCounted' /\ ReloadsLoad'
  BY <1>a, <1>j, <1>r, JobsApart DEF LoadsCounted, ReloadsLoad, Loadable
<1>8. Watched'
  <2>1. says'[j] = "clean" => nature[PluginOf[j]] # "leaky" \/ 0 \in hit[j] \/ j \in crossed
    <3>1. j \in Jobs /\ PluginOf[j] \in Plugins /\ PluginOf[j] # NoPlugin
      BY JobsApart
    <3>2. probe = PluginOf[j] \/ 0 \in hit[j] \/ j \in crossed
      BY <1>j, <1>r DEF Watched
    <3>3. CASE says' = [says EXCEPT ![j] = IF probe # NoPlugin /\ nature[probe] = "leaky" THEN "leaked" ELSE "clean"]
      BY <3>1, <3>2, <3>3 DEF HostsOK
    <3>4. CASE says' = [says EXCEPT ![j] = "broken-off"]
      BY <3>1, <3>4 DEF HostsOK
    <3> QED
      BY <1>r, <3>3, <3>4
  <2> QED
    BY <1>a, <1>j, <1>r, <2>1, JobsApart DEF Watched
<1>9. SwitchedOff' /\ InPlace'
  BY <1>r DEF SwitchedOff, InPlace
<1>10. Heeded'
  <2>1. \A k \in Jobs : PluginOf[k] \in loaded' =>
          \/ k \in crossed' \cup unheard' \/ job'[k] \in Settled
          \/ /\ k \notin unheard
             /\ \/ job[k] \notin Settled \cup {"asked"}
                \/ /\ job'[k] = job[k] /\ try'[k] = try[k]
                   /\ \A x \in Attempts : x[1] = k /\ exec[x].step = "finish" =>
                        exec'[x].step = "finish" /\ exec'[x].err = exec[x].err
    BY <1>a, <1>r DEF Settled
  <2> QED
    BY <1>r, <2>1, HeededStays
<1> QED
  BY <1>1, <1>2, <1>3, <1>4, <1>5, <1>6, <1>7, <1>8, <1>9, <1>10, <1>a

LEMMA EvalFailsKeeps ==
  ASSUME PluginIInv, NEW j \in Jobs, EvalFails(j) PROVE PluginIInv'
<1> USE DEF PluginIInv, manager
<1>r. /\ Upset /\ job' = [job EXCEPT ![j] = "failed"] /\ hit' = [hit EXCEPT ![j] = @ \cup {0}]
      /\ UNCHANGED <<nature, on, enabled, loads, exec, try, says>>
  BY DEF EvalFails
<1>p. PluginOf[j] \in Plugins
  BY JobsApart
<1>b. /\ j \in Leaks \cup Reloads /\ crossed \subseteq crossed' /\ crossed' \subseteq Jobs
      /\ atStart' \in [Jobs -> Nat]
      /\ unheard' \subseteq Jobs /\ \A k \in Jobs : k # j => (k \in unheard <=> k \in unheard')
      /\ \A x \in Attempts : x \in ToSet(slot) => x \in ToSet(slot')
      /\ \A k \in Jobs : atStart'[k] \in {atStart[k], loads[PluginOf[k]]} /\ (k # j => atStart'[k] = atStart[k])
      /\ loaded' \subseteq loaded /\ slot' \in Seq(Attempts \cup Plugins) /\ ToSet(slot') \subseteq ToSet(slot)
      /\ probe' \in {probe, NoPlugin}
      /\ \A k \in Leaks : job[k] = "collect" /\ k # j => probe' = probe \/ k \in crossed
      /\ PatchesKept' /\ WrappersUndone' /\ Layered'
      /\ UNCHANGED loaded \/ \A x \in Attempts : Runs(x) => x[1] \in crossed'
  <2>1. CASE job[j] = "clear" /\ probe' \in {probe, NoPlugin} /\ UNCHANGED <<loaded, slot, atStart, crossed, unheard>>
    <3>1. PatchesKept' /\ WrappersUndone' /\ Layered'
      BY <1>r, <2>1, LayersStay DEF PatchesKept, Runs
    <3>2. \A k \in Jobs : job[k] = "collect" /\ k # j => k \in crossed
      BY <2>1 DEF Together, Underway
    <3> QED
      BY <2>1, <3>1, <3>2, JobsApart DEF Counted, ManagerOK, HistoryOK
  <2>2. CASE j \in Reloads /\ Begins(j) /\ UNCHANGED probe /\ (DisablePlugin(PluginOf[j]) \/ UNCHANGED <<loaded, slot>>)
    <3>1. /\ atStart' \in [Jobs -> Nat] /\ atStart'[j] = loads[PluginOf[j]]
          /\ \A k \in Jobs : k # j => atStart'[k] = atStart[k]
          /\ unheard' = unheard \ {j} /\ unheard' \subseteq Jobs
          /\ crossed \subseteq crossed' /\ crossed' \subseteq Jobs
          /\ \A x \in Attempts : Runs(x) => x[1] \in crossed'
      BY <2>2, BeginsDoes
    <3>2. PatchesKept' /\ WrappersUndone' /\ Layered'
      BY <1>p, <1>r, <2>2, <3>1, DisableKeepsLayers
    <3>3. /\ loaded' \subseteq loaded /\ slot' \in Seq(Attempts \cup Plugins) /\ ToSet(slot') \subseteq ToSet(slot)
          /\ \A x \in Attempts : x \in ToSet(slot) => x \in ToSet(slot')
      BY <1>p, <2>2, DisableDoes
    <3> QED
      BY <2>2, <3>1, <3>2, <3>3
  <2> QED
    BY <2>1, <2>2 DEF EvalFails
<1>j. j \notin Enables
  BY <1>b, JobsApart
<1>a. /\ job'[j] = "failed" /\ \A k \in Jobs : k # j => job'[k] = job[k]
      /\ \A k \in Jobs : hit[k] \subseteq hit'[k] /\ (k # j => hit'[k] = hit[k])
      /\ HostsOK' /\ HistoryOK'
  <2>1. 0 \in 0..Tries
    BY TriesCount
  <2>2. HostsOK' /\ job'[j] = "failed" /\ \A k \in Jobs : k # j => job'[k] = job[k]
    BY <1>r DEF HostsOK, Settled
  <2>3. HistoryOK' /\ \A k \in Jobs : hit[k] \subseteq hit'[k] /\ (k # j => hit'[k] = hit[k])
    BY <1>b, <1>r, <2>1 DEF HistoryOK
  <2> QED
    BY <2>2, <2>3
<1>s. \A k \in Jobs : Smooth(k)' => Smooth(k)
  BY <1>a, <1>b, <1>r DEF Smooth
<1>1. ManagerOK' /\ ExecOK' /\ UpsetsOK'
  BY <1>b, <1>r, UpsetsCount DEF ManagerOK, ExecOK
<1>2. Together'
  BY <1>a, <1>b, <1>r, TogetherStays DEF Runs, Underway
<1>3. Counted'
  BY <1>a, <1>b, <1>r DEF Counted, Runs
<1>4. Attempted'
  <2> SUFFICES ASSUME NEW x \in Attempts, Smooth(x[1])', Runs(x)
               PROVE  /\ ~exec[x].noise /\ (Loadable(PluginOf[x[1]]) => ~exec[x].err)
                      /\ exec[x].step \in {"patch", "load"} /\ PluginOf[x[1]] \in enabled => PluginOf[x[1]] \in loaded'
                      /\ exec[x].step = "finish" => PluginOf[x[1]] \in loaded' \/ x[2] \in hit'[x[1]]
    BY <1>r DEF Attempted, Runs, Loadable
  <2>1. Smooth(x[1]) /\ loaded' = loaded /\ hit[x[1]] \subseteq hit'[x[1]]
    BY <1>a, <1>b, <1>s, AttemptsAre DEF Smooth
  <2> QED
    BY <2>1 DEF Attempted, Loadable
<1>5. InVainBefore' /\ RetriesHeal' /\ EnabledMeansLoaded'
  BY <1>a, <1>b, <1>j, <1>r, <1>s, JobsApart DEF InVainBefore, RetriesHeal, EnabledMeansLoaded, Loadable
<1>6. LoadsCounted'
  <2>1. \A p \in loaded' : nature'[p] # "stillborn"
    BY <1>b, <1>r DEF LoadsCounted
  <2>2. \A k \in Jobs : atStart'[k] <= loads'[PluginOf[k]]
    <3> SUFFICES ASSUME NEW k \in Jobs PROVE atStart'[k] <= loads[PluginOf[k]]
      BY <1>r
    <3>1. loads[PluginOf[k]] \in Nat
      BY JobsApart DEF ManagerOK
    <3> QED
      BY <1>b, <3>1 DEF LoadsCounted
  <2>3. \A k \in Reloads : job'[k] = "asked" /\ PluginOf[k] \in loaded' => loads'[PluginOf[k]] > atStart'[k]
    BY <1>a, <1>b, <1>r, JobsApart DEF LoadsCounted
  <2> QED
    BY <2>1, <2>2, <2>3 DEF LoadsCounted
<1>7. ReloadsLoad' /\ Watched'
  BY <1>a, <1>b, <1>r, JobsApart DEF ReloadsLoad, Watched, Loadable
<1>8. SwitchedOff' /\ InPlace'
  BY <1>b, <1>r DEF SwitchedOff, InPlace
<1>9. Heeded'
  <2>1. \A k \in Jobs : PluginOf[k] \in loaded' =>
          \/ k \in crossed' \cup unheard' \/ job'[k] \in Settled
          \/ /\ k \notin unheard
             /\ \/ job[k] \notin Settled \cup {"asked"}
                \/ /\ job'[k] = job[k] /\ try'[k] = try[k]
                   /\ \A x \in Attempts : x[1] = k /\ exec[x].step = "finish" =>
                        exec'[x].step = "finish" /\ exec'[x].err = exec[x].err
    BY <1>a, <1>b, <1>r DEF Settled
  <2> QED
    BY <1>b, <1>r, <2>1, HeededStays
<1> QED
  BY <1>1, <1>2, <1>3, <1>4, <1>5, <1>6, <1>7, <1>8, <1>9, <1>a, <1>b

\* What is kept of the hosts while they and the marks are as they were, but for jobs that have
\* become deaf.
LEMMA HostsStay ==
  ASSUME PluginIInv, UNCHANGED <<nature, probe, hosts, atStart, hit, crossed>>,
         unheard \subseteq unheard', unheard' \subseteq Jobs
  PROVE  /\ HostsOK' /\ HistoryOK' /\ InVainBefore' /\ RetriesHeal' /\ EnabledMeansLoaded' /\ Watched'
         /\ \A j \in Jobs : Smooth(j)' <=> Smooth(j)
<1> USE DEF PluginIInv, hosts
<1>1. HostsOK' /\ HistoryOK' /\ InVainBefore' /\ RetriesHeal' /\ Watched'
  BY DEF HostsOK, HistoryOK, InVainBefore, RetriesHeal, Loadable, Watched, Smooth
<1>2. EnabledMeansLoaded'
  BY DEF EnabledMeansLoaded, Loadable
<1>3. \A j \in Jobs : Smooth(j)' <=> Smooth(j)
  BY DEF Smooth
<1> QED
  BY <1>1, <1>2, <1>3

LEMMA QuietKeeps ==
  ASSUME PluginIInv, NEW x \in Attempts, NEW from \in {"switch", "reset"}, NEW to \in {"reset", "patch"},
         on \/ from = "reset",
         Step(x, from, to), PageOnly, UNCHANGED <<loaded, slot, loads, upsets>>,
         on' \in BOOLEAN, on => on', enabled' \subseteq enabled,
         to = "patch" /\ PluginOf[x[1]] \in enabled' => PluginOf[x[1]] \in loaded
  PROVE  PluginIInv'
<1> USE DEF PluginIInv, PageOnly, hosts, pluginMarks
<1>a. /\ ExecOK' /\ exec[x].step = from /\ exec'[x].step = to
      /\ exec'[x].err = exec[x].err /\ exec'[x].noise = exec[x].noise
      /\ \A y \in Attempts : y # x => exec'[y] = exec[y]
  BY StepDoes DEF Steps
<1>1. ManagerOK' /\ UpsetsOK'
  BY DEF ManagerOK, UpsetsOK
<1>2. PatchesKept' /\ WrappersUndone' /\ Layered'
  BY <1>a, LayersStay DEF PatchesKept, Runs
<1>3. Together'
  BY <1>a, TogetherStays DEF Runs, Underway
<1>4. Counted'
  BY <1>a DEF Counted, Runs
<1>5. Attempted'
  BY <1>a, AttemptsAre DEF Attempted, Smooth, Runs, Loadable
<1>6. LoadsCounted' /\ ReloadsLoad'
  BY DEF LoadsCounted, ReloadsLoad, Loadable
<1>7. SwitchedOff' /\ InPlace'
  BY <1>a DEF SwitchedOff, InPlace
<1>8. Heeded'
  <2>1. \A k \in Jobs : PluginOf[k] \in loaded' =>
          \/ k \in crossed' \cup unheard' \/ job'[k] \in Settled
          \/ /\ k \notin unheard
             /\ \/ job[k] \notin Settled \cup {"asked"}
                \/ /\ job'[k] = job[k] /\ try'[k] = try[k]
                   /\ \A y \in Attempts : y[1] = k /\ exec[y].step = "finish" =>
                        exec'[y].step = "finish" /\ exec'[y].err = exec[y].err
    BY <1>a DEF Settled
  <2> QED
    BY <2>1, HeededStays
<1>9. unheard \subseteq unheard' /\ unheard' \subseteq Jobs
  BY DEF HistoryOK
<1> QED
  BY <1>1, <1>2, <1>3, <1>4, <1>5, <1>6, <1>7, <1>8, <1>9, <1>a, HostsStay

\* Plugins are switched on, and what is listed is loaded, before any attempt has put its wrapper in place.
LEMMA SwitchOnKeeps == ASSUME PluginIInv, NEW x \in Attempts, SwitchOn(x) PROVE PluginIInv'
<1> USE DEF PluginIInv, hosts
<1>r. /\ Step(x, "switch", "reset") /\ on' = TRUE
      /\ IF on THEN UNCHANGED <<loaded, slot, loads, unheard>> ELSE \E ps \in Starts : Start(ps)
      /\ UNCHANGED <<nature, enabled, probe, hosts, atStart, hit, crossed, upsets>>
  BY DEF SwitchOn
<1>o. CASE on
  BY <1>o, <1>r, QuietKeeps DEF PageOnly, pluginMarks
<1>f. CASE ~on
  <2>p. PICK ps \in Starts : Start(ps)
    BY <1>f, <1>r
  <2>s. /\ loaded' = ps /\ ps \subseteq Plugins /\ \A p \in ps : nature[p] # "stillborn"
        /\ slot' \in Seq(Attempts \cup Plugins) /\ ToSet(slot') = ps \cap Patching
        /\ \A y \in Attempts : y \notin ToSet(slot')
        /\ loads' \in [Plugins -> Nat]
        /\ \A p \in Plugins : /\ loads[p] \in Nat /\ loads'[p] \in Nat /\ loads'[p] >= loads[p]
                              /\ p \in ps => loads'[p] > loads[p]
        /\ unheard \subseteq unheard' /\ unheard' \subseteq Jobs
        /\ \A j \in Jobs : PluginOf[j] \in ps => j \in unheard'
    BY <2>p, StartDoes
  <2>a. /\ ExecOK' /\ exec[x].step = "switch" /\ exec'[x].step = "reset"
        /\ exec'[x].err = exec[x].err /\ exec'[x].noise = exec[x].noise
        /\ \A y \in Attempts : y # x => exec'[y] = exec[y]
        /\ \A y \in Attempts : exec'[y].step \in {"none", "switch", "reset"}
    <3>1. /\ ExecOK' /\ exec[x].step = "switch" /\ exec'[x].step = "reset"
          /\ exec'[x].err = exec[x].err /\ exec'[x].noise = exec[x].noise
          /\ \A y \in Attempts : y # x => exec'[y] = exec[y]
      BY <1>r, StepDoes DEF Steps
    <3> QED
      BY <1>f, <3>1 DEF SwitchedOff
  <2>1. ManagerOK' /\ UpsetsOK'
    BY <1>r, <2>s DEF ManagerOK, UpsetsOK
  <2>2. PatchesKept' /\ WrappersUndone' /\ Layered'
    <3>1. \A y \in Attempts, i \in DOMAIN slot' : slot'[i] # y
      BY <2>s DEF ToSet
    <3> QED
      BY <2>s, <3>1 DEF PatchesKept, WrappersUndone, Layered
  <2>3. Together'
    BY <1>r, <2>a, TogetherStays DEF Runs, Underway
  <2>4. Counted'
    BY <1>r, <2>a, <2>s DEF Counted, Runs
  <2>5. Attempted'
    BY <1>r, <2>a, AttemptsAre DEF Attempted, Smooth, Runs, Loadable
  <2>6. LoadsCounted'
    <3>1. \A p \in loaded' : nature'[p] # "stillborn"
      BY <1>r, <2>s
    <3>2. \A j \in Jobs : PluginOf[j] \in Plugins /\ atStart[j] \in Nat /\ atStart[j] <= loads[PluginOf[j]]
      BY JobsApart DEF HistoryOK, LoadsCounted
    <3>3. \A j \in Jobs : atStart'[j] <= loads'[PluginOf[j]]
      BY <1>r, <2>s, <3>2
    <3>4. \A j \in Reloads : job'[j] = "asked" /\ PluginOf[j] \in loaded' => loads'[PluginOf[j]] > atStart'[j]
      BY <1>r, <2>s, <3>2, JobsApart
    <3> QED
      BY <3>1, <3>3, <3>4 DEF LoadsCounted
  <2>7. ReloadsLoad'
    <3> SUFFICES ASSUME \A j \in Reloads : loads'[PluginOf[j]] > atStart[j] \/ ~(loads[PluginOf[j]] > atStart[j])
                 PROVE  ReloadsLoad'
      <4>1. \A j \in Reloads : PluginOf[j] \in Plugins /\ atStart[j] \in Nat
        BY JobsApart DEF HistoryOK
      <4> QED
        BY <2>s, <4>1
    <3> QED
      BY <1>r, <2>s DEF ReloadsLoad, Loadable
  <2>8. SwitchedOff' /\ InPlace'
    BY <1>r, <2>a DEF SwitchedOff, InPlace
  <2>9. Heeded'
    BY <2>s DEF Heeded
  <2>10. /\ HostsOK' /\ HistoryOK' /\ InVainBefore' /\ RetriesHeal' /\ EnabledMeansLoaded' /\ Watched'
    BY <1>r, <2>s, HostsStay
  <2> QED
    BY <2>1, <2>2, <2>3, <2>4, <2>5, <2>6, <2>7, <2>8, <2>9, <2>10, <2>a
<1> QED
  BY <1>o, <1>f

LEMMA ResetKeeps == ASSUME PluginIInv, NEW x \in Attempts, Reset(x) PROVE PluginIInv'
<1>1. /\ Step(x, "reset", "patch") /\ enabled' = Disabled(PluginOf[x[1]]) /\ PageOnly
      /\ UNCHANGED <<on, loaded, slot, loads, upsets>>
  BY DEF Reset
<1>2. enabled' \subseteq enabled /\ (PluginOf[x[1]] \in enabled' => PluginOf[x[1]] \in loaded)
  BY <1>1 DEF Disabled
<1>3. on' \in BOOLEAN
  BY <1>1 DEF PluginIInv, ManagerOK
<1> QED
  BY <1>1, <1>2, <1>3, QuietKeeps

LEMMA PatchKeeps == ASSUME PluginIInv, NEW x \in Attempts, PatchLoadPlugin(x) PROVE PluginIInv'
<1> USE DEF PluginIInv, PageOnly, hosts, pluginMarks
<1>r. /\ Step(x, "patch", "load") /\ slot' = Append(slot, x) /\ PageOnly
      /\ UNCHANGED <<on, enabled, loaded, loads, upsets>>
  BY DEF PatchLoadPlugin
<1>a. /\ ExecOK' /\ exec[x].step = "patch" /\ exec'[x].step = "load"
      /\ exec'[x].err = exec[x].err /\ exec'[x].noise = exec[x].noise
      /\ \A y \in Attempts : y # x => exec'[y] = exec[y]
  BY <1>r, StepDoes DEF Steps
<1>l. /\ slot' \in Seq(Attempts \cup Plugins) /\ ToSet(slot') = ToSet(slot) \cup {x}
      /\ DOMAIN slot' = 1..(Len(slot) + 1) /\ DOMAIN slot = 1..Len(slot) /\ Len(slot) \in Nat
      /\ \A i \in 1..Len(slot) : slot'[i] = slot[i]
      /\ slot'[Len(slot) + 1] = x
  BY <1>r, AppendLayer DEF ManagerOK
<1>x. Runs(x) /\ x \notin ToSet(slot) /\ x \notin Plugins
  BY <1>a, LayersApart DEF Runs, Layered
<1>1. ManagerOK' /\ UpsetsOK'
  BY <1>l, <1>r DEF ManagerOK, UpsetsOK
<1>2. PatchesKept' /\ WrappersUndone'
  BY <1>a, <1>l, <1>r DEF PatchesKept, WrappersUndone
<1>3. Layered'
  <2>1. \A p \in Plugins : p \in ToSet(slot') => p \in Patching
    BY <1>l, <1>x DEF Layered
  <2>2. \A y \in Attempts : exec'[y].step \in {"switch", "reset", "patch"} => y \notin ToSet(slot')
    BY <1>a, <1>l DEF Layered
  <2>3. ASSUME NEW y \in Attempts, Runs(y)', y[1] \notin crossed',
               NEW i \in DOMAIN slot', NEW k \in DOMAIN slot', i < k, slot'[i] = y
        PROVE  slot'[k] = PluginOf[y[1]]
    <3>1. y = x
      BY <1>a, <1>r, <1>x, <2>3, RunsAlone DEF Runs
    <3>2. i \in 1..Len(slot)
      BY <1>l, <2>3
    <3>3. slot[i] = x /\ i \in DOMAIN slot
      BY <1>l, <2>3, <3>1, <3>2
    <3> QED
      BY <1>x, <3>3, InLayers
  <2> QED
    BY <2>1, <2>2, <2>3 DEF Layered
<1>4. Together'
  BY <1>a, <1>r, TogetherStays DEF Runs, Underway
<1>5. Counted'
  BY <1>a, <1>l, <1>r, <1>x DEF Counted, Runs
<1>6. Attempted'
  BY <1>a, <1>r, AttemptsAre DEF Attempted, Smooth, Runs, Loadable
<1>7. LoadsCounted' /\ ReloadsLoad'
  BY <1>r DEF LoadsCounted, ReloadsLoad, Loadable
<1>8. SwitchedOff' /\ InPlace'
  BY <1>a, <1>l, <1>r DEF SwitchedOff, InPlace
<1>9. Heeded'
  <2>1. \A k \in Jobs : PluginOf[k] \in loaded' =>
          \/ k \in crossed' \cup unheard' \/ job'[k] \in Settled
          \/ /\ k \notin unheard
             /\ \/ job[k] \notin Settled \cup {"asked"}
                \/ /\ job'[k] = job[k] /\ try'[k] = try[k]
                   /\ \A y \in Attempts : y[1] = k /\ exec[y].step = "finish" =>
                        exec'[y].step = "finish" /\ exec'[y].err = exec[y].err
    BY <1>a, <1>r DEF Settled
  <2> QED
    BY <1>r, <2>1, HeededStays
<1>10. unheard \subseteq unheard' /\ unheard' \subseteq Jobs
  BY <1>r DEF HistoryOK
<1> QED
  BY <1>1, <1>2, <1>3, <1>4, <1>5, <1>6, <1>7, <1>8, <1>9, <1>10, <1>a, <1>r, HostsStay

\* An attempt has heard how the enabling ended: nothing else that runs is uncrossed.
LEMMA EnableKeeps == ASSUME PluginIInv, NEW x \in Attempts, EnablePluginAndSave(x) PROVE PluginIInv'
<1> DEFINE p == PluginOf[x[1]]
<1> USE DEF PluginIInv, hosts
<1>r. /\ exec[x].step = "load" /\ enabled' = enabled \cup {p}
      /\ UNCHANGED <<nature, probe, on, hosts, atStart, crossed>>
      /\ loads' = loads \/ loads' = [loads EXCEPT ![p] = @ + 1]
      /\ hit' = hit \/ hit' = [hit EXCEPT ![x[1]] = @ \cup {x[2]}]
      /\ Upset \/ UNCHANGED upsets
      /\ unheard' = unheard \/ unheard' = unheard \cup {j \in JobsOf({p}) : j # x[1] \/ ~Awaited(x)}
  BY DEF EnablePluginAndSave
<1>p. p \in Plugins /\ x[1] \in Jobs /\ x[2] \in 1..Tries /\ x[2] \in 0..Tries
  BY AttemptsAre, JobsApart, TriesCount
<1>o. \/ p \in loaded \cup enabled /\ Step(x, "load", "finish") /\ UNCHANGED <<loaded, slot, loads, hit>>
      \/ /\ p \notin loaded /\ nature[p] # "stillborn" /\ Heard(x, nature[p] = "throwing") /\ UNCHANGED hit
         /\ unheard' = unheard \cup {j \in JobsOf({p}) : j # x[1] \/ ~Awaited(x)}
         /\ loaded' = loaded \cup {p} /\ loads' = [loads EXCEPT ![p] = @ + 1]
         /\ slot' = IF p \in Patching THEN Append(slot, p) ELSE slot
      \/ p \notin loaded /\ nature[p] = "stillborn" /\ Heard(x, TRUE) /\ UNCHANGED <<loaded, slot, loads, hit>>
      \/ /\ p \notin loaded /\ Step(x, "load", "finish") /\ UNCHANGED <<loaded, slot, loads>>
         /\ hit' = [hit EXCEPT ![x[1]] = @ \cup {x[2]}]
  BY DEF EnablePluginAndSave
<1> HIDE DEF p
<1>a. /\ ExecOK' /\ exec'[x].step = "finish" /\ exec'[x].noise = exec[x].noise
      /\ exec'[x].err => exec[x].err \/ ~Loadable(p)
      /\ loaded' # loaded /\ nature[p] = "throwing" => exec'[x].err
      /\ \A y \in Attempts : y # x => exec'[y].step = exec[y].step
  <2>1. CASE Step(x, "load", "finish") /\ loaded' = loaded
    BY <2>1, StepDoes DEF Steps
  <2>2. CASE Heard(x, nature[p] = "throwing")
    <3>1. slot \in Seq(Attempts \cup Plugins) /\ x \in ToSet(slot) /\ (nature[p] = "throwing") \in BOOLEAN
      BY <1>r DEF ManagerOK, InPlace
    <3>2. /\ ExecOK' /\ exec'[x].step = "finish" /\ exec'[x].noise = exec[x].noise
          /\ exec'[x].err = (nature[p] = "throwing")
          /\ \A y \in Attempts : y # x => exec'[y].step = exec[y].step
      BY <2>2, <3>1, HeardDoes
    <3> QED
      BY <3>2 DEF Loadable
  <2>3. CASE Heard(x, TRUE) /\ nature[p] = "stillborn" /\ loaded' = loaded
    <3>1. slot \in Seq(Attempts \cup Plugins)
      BY DEF ManagerOK
    <3> QED
      BY <2>3, <3>1, HeardDoes DEF Loadable
  <2> QED
    BY <1>o, <2>1, <2>2, <2>3
<1>x. Runs(x) /\ \A y \in Attempts : Runs(y) /\ y[1] \notin crossed => y = x
  BY <1>r, RunsAlone DEF Runs
<1>n. /\ \A q \in Plugins : loads[q] \in Nat /\ loads'[q] \in Nat /\ loads'[q] >= loads[q]
      /\ loads' \in [Plugins -> Nat]
      /\ \A q \in loaded' : q \in loaded \/ (q = p /\ nature[p] # "stillborn" /\ loads'[p] > loads[p])
  <2>1. \A q \in Plugins : loads[q] \in Nat
    BY DEF ManagerOK
  <2>2. loads' = loads \/ (loads'[p] = loads[p] + 1 /\ \A q \in Plugins : q # p => loads'[q] = loads[q])
    BY <1>p, <1>r DEF ManagerOK
  <2>3. \A q \in loaded' : q \in loaded \/ (q = p /\ nature[p] # "stillborn" /\ loads' = [loads EXCEPT ![p] = @ + 1])
    BY <1>o
  <2>4. loads' = [loads EXCEPT ![p] = @ + 1] => loads'[p] = loads[p] + 1
    BY <1>p DEF ManagerOK
  <2> QED
    BY <1>p, <1>r, <2>1, <2>2, <2>3, <2>4 DEF ManagerOK
<1>h. HistoryOK' /\ \A j \in Jobs : hit[j] \subseteq hit'[j] /\ (j \in unheard => j \in unheard')
  <2>1. unheard \subseteq unheard' /\ unheard' \subseteq Jobs
    BY <1>r DEF HistoryOK, JobsOf
  <2> QED
    BY <1>p, <1>r, <2>1 DEF HistoryOK
<1>s. \A j \in Jobs : Smooth(j)' => Smooth(j)
  BY <1>h, <1>r DEF Smooth
<1>l. \/ slot' = slot /\ loaded' \cap Patching \subseteq loaded
      \/ /\ p \in Patching /\ slot' \in Seq(Attempts \cup Plugins) /\ ToSet(slot') = ToSet(slot) \cup {p}
         /\ loaded' \subseteq loaded \cup {p}
         /\ DOMAIN slot' = 1..(Len(slot) + 1) /\ DOMAIN slot = 1..Len(slot) /\ Len(slot) \in Nat
         /\ \A i \in 1..Len(slot) : slot'[i] = slot[i]
         /\ slot'[Len(slot) + 1] = p
  <2>1. slot \in Seq(Attempts \cup Plugins) /\ p \in Attempts \cup Plugins
    BY <1>p DEF ManagerOK
  <2>2. CASE slot' = Append(slot, p) /\ p \in Patching /\ loaded' \subseteq loaded \cup {p}
    BY <2>1, <2>2, AppendLayer
  <2>3. CASE slot' = slot /\ loaded' \cap Patching \subseteq loaded
    BY <2>3
  <2> QED
    BY <1>o, <2>2, <2>3
<1>1. ManagerOK'
  BY <1>l, <1>n, <1>o, <1>p, <1>r DEF ManagerOK
<1>2. UpsetsOK' /\ HostsOK'
  BY <1>r, UpsetsCount DEF HostsOK
<1>3. PatchesKept' /\ WrappersUndone' /\ Layered'
  <2>1. CASE slot' = slot /\ loaded' \cap Patching \subseteq loaded
    <3>1. WrappersUndone' /\ Layered'
      BY <1>a, <1>r, <1>x, <2>1, LayersStay DEF Runs
    <3> QED
      BY <2>1, <3>1 DEF PatchesKept
  <2>2. CASE p \in Patching /\ ToSet(slot') = ToSet(slot) \cup {p} /\ slot' # slot
    <3>1. PatchesKept' /\ WrappersUndone'
      BY <1>a, <1>l, <1>p, <1>r, <1>x, <2>2, LayersApart DEF PatchesKept, WrappersUndone, Runs
    <3>2. \A q \in Plugins : q \in ToSet(slot') => q \in Patching
      BY <2>2 DEF Layered
    <3>3. \A y \in Attempts : exec'[y].step \in {"switch", "reset", "patch"} => y \notin ToSet(slot')
      BY <1>a, <1>p, <2>2, LayersApart DEF Layered
    <3>4. ASSUME NEW y \in Attempts, Runs(y)', y[1] \notin crossed',
                 NEW i \in DOMAIN slot', NEW k \in DOMAIN slot', i < k, slot'[i] = y
          PROVE  slot'[k] = PluginOf[y[1]]
      <4>1. y = x
        BY <1>a, <1>r, <1>x, <3>4 DEF Runs
      <4>2. i \in 1..Len(slot) /\ (k \in 1..Len(slot) \/ k = Len(slot) + 1)
        BY <1>l, <2>2, <3>4
      <4>3. i \in DOMAIN slot /\ slot[i] = x /\ ((k \in DOMAIN slot /\ slot'[k] = slot[k]) \/ slot'[k] = p)
        BY <1>l, <2>2, <3>4, <4>1, <4>2
      <4> QED
        BY <1>r, <1>x, <3>4, <4>1, <4>3 DEF Layered, p
    <3> QED
      BY <3>1, <3>2, <3>3, <3>4 DEF Layered
  <2> QED
    BY <1>l, <2>1, <2>2
<1>4. Together'
  BY <1>a, <1>r, <1>x, TogetherStays DEF Runs, Underway
<1>5. Counted'
  BY <1>a, <1>l, <1>p, <1>r, <1>x, LayersApart DEF Counted, Runs
<1>6. Attempted'
  <2> SUFFICES ASSUME NEW y \in Attempts, Smooth(y[1])', Runs(y)'
               PROVE  /\ ~exec'[y].noise /\ (Loadable(PluginOf[y[1]]) => ~exec'[y].err) /\ exec'[y].step = "finish"
                      /\ PluginOf[y[1]] \in loaded' \/ y[2] \in hit'[y[1]]
    BY <1>r DEF Attempted, Runs, Loadable
  <2>1. y = x /\ Smooth(x[1])
    BY <1>a, <1>p, <1>r, <1>s, <1>x DEF Runs, Smooth
  <2>2. ~exec[x].noise /\ (Loadable(p) => ~exec[x].err) /\ nature[p] # "stillborn"
    BY <1>x, <2>1 DEF Attempted, Smooth, p, Loadable
  <2>3. p \in enabled => p \in loaded
    BY <1>r, <2>1 DEF Attempted, p, Loadable
  <2>4. p \in loaded' \/ x[2] \in hit'[x[1]]
    <3>1. hit' = [hit EXCEPT ![x[1]] = @ \cup {x[2]}] => x[2] \in hit'[x[1]]
      BY <1>p DEF HistoryOK
    <3> QED
      BY <1>o, <2>2, <2>3, <3>1
  <2> QED
    BY <1>a, <2>1, <2>2, <2>4 DEF p
<1>7. InVainBefore' /\ RetriesHeal' /\ EnabledMeansLoaded' /\ Watched'
  BY <1>h, <1>r, <1>s, JobsApart DEF InVainBefore, RetriesHeal, EnabledMeansLoaded, Watched, Loadable
<1>8. LoadsCounted'
  <2>1. \A q \in loaded' : nature'[q] # "stillborn"
    BY <1>n, <1>r DEF LoadsCounted
  <2>2. \A j \in Jobs : atStart[j] \in Nat /\ PluginOf[j] \in Plugins /\ atStart[j] <= loads[PluginOf[j]]
    BY JobsApart DEF LoadsCounted, HistoryOK
  <2>3. \A j \in Jobs : atStart'[j] <= loads'[PluginOf[j]]
    BY <1>n, <1>r, <2>2
  <2>4. ASSUME NEW j \in Reloads, job'[j] = "asked", PluginOf[j] \in loaded'
        PROVE  loads'[PluginOf[j]] > atStart'[j]
    <3>1. CASE PluginOf[j] \in loaded
      <4>1. loads[PluginOf[j]] > atStart[j]
        BY <1>r, <2>4, <3>1 DEF LoadsCounted
      <4> QED
        BY <1>n, <1>r, <2>2, <4>1, JobsApart
    <3>2. CASE PluginOf[j] \notin loaded
      <4>1. loads'[PluginOf[j]] > loads[PluginOf[j]]
        BY <1>n, <2>4, <3>2
      <4> QED
        BY <1>n, <1>r, <2>2, <4>1, JobsApart
    <3> QED
      BY <3>1, <3>2
  <2> QED
    BY <2>1, <2>3, <2>4 DEF LoadsCounted
<1>9. ReloadsLoad'
  <2> SUFFICES ASSUME \A j \in Reloads : loads'[PluginOf[j]] > atStart[j] \/ ~(loads[PluginOf[j]] > atStart[j])
               PROVE  ReloadsLoad'
    <3>1. \A j \in Reloads : PluginOf[j] \in Plugins /\ atStart[j] \in Nat
      BY JobsApart DEF HistoryOK
    <3> QED
      BY <1>n, <3>1
  <2> QED
    BY <1>h, <1>r, JobsApart DEF ReloadsLoad, Loadable
<1>10. SwitchedOff' /\ InPlace'
  <2>1. \A y \in Attempts : y \in ToSet(slot) => y \in ToSet(slot')
    BY <1>l
  <2> QED
    BY <1>a, <1>r, <2>1 DEF SwitchedOff, InPlace
<1>11. Heeded'
  <2> SUFFICES ASSUME NEW j \in Jobs, nature[PluginOf[j]] = "throwing", PluginOf[j] \in loaded',
                      j \notin crossed \cup unheard', job[j] \notin Settled
               PROVE  /\ job[j] = "asked"
                      /\ \E y \in Attempts : /\ y[1] = j /\ y[2] = try[j]
                                            /\ exec'[y].step = "finish" /\ exec'[y].err
    BY <1>r DEF Heeded
  <2>1. CASE PluginOf[j] \in loaded
    <3>1. PICK y \in Attempts : y[1] = j /\ exec[y].step = "finish"
      BY <1>h, <2>1 DEF Heeded
    <3>2. y # x /\ Runs(y) /\ Runs(x) /\ j \notin crossed
      BY <1>r, <3>1 DEF Runs
    <3> QED
      BY <3>1, <3>2, RunsAlone
  <2>2. CASE PluginOf[j] \notin loaded
    <3>1. /\ PluginOf[j] = p /\ loaded' # loaded
          /\ unheard' = unheard \cup {k \in JobsOf({p}) : k # x[1] \/ ~Awaited(x)}
      BY <1>o, <2>2
    <3>2. j = x[1] /\ Awaited(x)
      BY <3>1 DEF JobsOf
    <3> QED
      BY <1>a, <3>1, <3>2 DEF Awaited
  <2> QED
    BY <2>1, <2>2
<1> QED
  BY <1>1, <1>2, <1>3, <1>4, <1>5, <1>6, <1>7, <1>8, <1>9, <1>10, <1>11, <1>a, <1>h

\* The wrapper is taken off, or lies under the patch of its plugin, unless something crossed it.
LEMMA FinishKeeps == ASSUME PluginIInv, NEW x \in Attempts, Finish(x) PROVE PluginIInv'
<1> USE DEF PluginIInv
<1> DEFINE j == x[1]
           isLoaded == IsLoaded(PluginOf[j])
<1>r. /\ exec[x].step = "finish" /\ exec' = [exec EXCEPT ![x] = NoExec] /\ slot' = RestoreLoadPlugin(x)
      /\ \/ /\ job[j] = "asked" /\ try[j] = x[2]
            /\ job' = [job EXCEPT ![j] = AfterResult(j, isLoaded, exec[x].err, exec[x].noise)]
            /\ says' = IF j \in Reloads THEN [says EXCEPT ![j] = Report(isLoaded, exec[x].err)] ELSE says
         \/ ~(job[j] = "asked" /\ try[j] = x[2]) /\ UNCHANGED <<job, says>>
      /\ UNCHANGED <<nature, on, enabled, loaded, loads, probe, try, atStart, hit, crossed, unheard, upsets>>
  BY DEF Finish, Awaited, pluginMarks
<1>p. j \in Jobs /\ PluginOf[j] \in Plugins /\ x[2] \in 1..Tries /\ x \notin Plugins
  BY AttemptsAre, JobsApart, LayersApart
<1> HIDE DEF j, isLoaded
<1>x. Runs(x)
  BY <1>r DEF Runs
<1>a. ExecOK' /\ ~Runs(x)' /\ exec'[x].step = "none" /\ \A y \in Attempts : y # x => exec'[y] = exec[y]
  <2>1. NoExec \in Execs /\ NoExec.step = "none"
    BY DEF NoExec, Execs, Steps
  <2> QED
    BY <1>r, <2>1 DEF ExecOK, Runs
<1>l. \/ slot' = slot /\ (slot = <<>> \/ slot[Len(slot)] # x)
      \/ /\ slot # <<>> /\ slot[Len(slot)] = x /\ slot' \in Seq(Attempts \cup Plugins)
         /\ ToSet(slot) = ToSet(slot') \cup {x}
         /\ Len(slot) \in Nat /\ Len(slot) > 0 /\ DOMAIN slot' = 1..(Len(slot) - 1) /\ DOMAIN slot = 1..Len(slot)
         /\ \A i \in 1..(Len(slot) - 1) : slot'[i] = slot[i]
  <2>1. slot \in Seq(Attempts \cup Plugins)
    BY DEF ManagerOK
  <2>2. CASE slot # <<>> /\ Last(slot) = x
    <3>1. slot' = Front(slot)
      BY <1>r, <2>2 DEF RestoreLoadPlugin
    <3> QED
      BY <2>1, <2>2, <3>1, FrontLayers
  <2>3. CASE ~(slot # <<>> /\ Last(slot) = x)
    BY <1>r, <2>3 DEF RestoreLoadPlugin, Last
  <2> QED
    BY <2>2, <2>3
<1>1. ManagerOK' /\ HistoryOK' /\ UpsetsOK'
  BY <1>l, <1>r DEF ManagerOK, HistoryOK, UpsetsOK
<1>2. PatchesKept'
  <2>1. \A q \in Plugins : q \in ToSet(slot) => q \in ToSet(slot')
    BY <1>l, <1>p
  <2>2. Patching \subseteq Plugins
    BY JobsApart
  <2> QED
    BY <1>r, <2>1, <2>2 DEF PatchesKept
<1>3. x \in ToSet(slot') => j \in crossed \/ PluginOf[j] \in Patching
  <2> SUFFICES ASSUME x \in ToSet(slot'), j \notin crossed PROVE PluginOf[j] \in Patching
    OBVIOUS
  <2>1. \A i, k \in DOMAIN slot : i < k /\ slot[i] = x => slot[k] = PluginOf[j]
    BY <1>x DEF Layered, j
  <2>2. slot \in Seq(Attempts \cup Plugins)
    BY DEF ManagerOK
  <2>3. CASE slot' = slot /\ (slot = <<>> \/ slot[Len(slot)] # x)
    <3>1. PICK i \in DOMAIN slot : slot[i] = x
      BY <2>3, InLayers
    <3>2. i \in 1..Len(slot) /\ i # Len(slot) /\ Len(slot) \in Nat /\ DOMAIN slot = 1..Len(slot)
      BY <2>2, <2>3, <3>1
    <3>3. Len(slot) \in DOMAIN slot /\ i < Len(slot)
      BY <3>2
    <3>4. slot[Len(slot)] = PluginOf[j]
      BY <2>1, <3>1, <3>3
    <3> QED
      BY <1>p, <3>3, <3>4, InLayers DEF Layered
  <2>4. CASE slot # <<>> /\ slot[Len(slot)] = x /\ slot' # slot
    <3>1. PICK i \in DOMAIN slot' : slot'[i] = x
      BY DEF ToSet
    <3>2. Len(slot) \in Nat /\ i \in 1..(Len(slot) - 1) /\ DOMAIN slot = 1..Len(slot) /\ slot[i] = x
      BY <1>l, <2>4, <3>1
    <3>3. i \in DOMAIN slot /\ Len(slot) \in DOMAIN slot /\ i < Len(slot)
      BY <3>2
    <3>4. slot[Len(slot)] = PluginOf[j]
      BY <2>1, <3>2, <3>3
    <3> QED
      BY <1>p, <2>4, <3>4
  <2> QED
    BY <1>l, <2>3, <2>4
<1>4. ToSet(slot') \subseteq ToSet(slot)
  BY <1>l
<1>5. WrappersUndone'
  BY <1>3, <1>4, <1>a, <1>r DEF WrappersUndone, j
<1>6. Layered'
  <2>1. ASSUME NEW y \in Attempts, Runs(y)', y[1] \notin crossed',
               NEW i \in DOMAIN slot', NEW k \in DOMAIN slot', i < k, slot'[i] = y
        PROVE  slot'[k] = PluginOf[y[1]]
    <3>1. y # x /\ Runs(y)
      BY <1>a, <2>1 DEF Runs
    <3>2. i \in DOMAIN slot /\ k \in DOMAIN slot /\ slot'[i] = slot[i] /\ slot'[k] = slot[k]
      BY <1>l, <2>1
    <3> QED
      BY <1>r, <2>1, <3>1, <3>2 DEF Layered
  <2>2. \A p \in Plugins : p \in ToSet(slot') => p \in Patching
    BY <1>4 DEF Layered
  <2>3. \A y \in Attempts : exec'[y].step \in {"switch", "reset", "patch"} => y \notin ToSet(slot')
    BY <1>4, <1>a DEF Layered
  <2> QED
    BY <2>1, <2>2, <2>3 DEF Layered
<1>v. /\ AfterResult(j, isLoaded, exec[x].err, exec[x].noise) \in {"done", "failed", "asleep"}
      /\ AfterResult(j, isLoaded, exec[x].err, exec[x].noise) = "asleep"
           => j \in Enables /\ try[j] < Tries /\ ~isLoaded /\ ~exec[x].err /\ ~exec[x].noise
      /\ AfterResult(j, isLoaded, exec[x].err, exec[x].noise) = "done"
           => j \in Reloads \/ (isLoaded /\ ~exec[x].err)
      /\ AfterResult(j, isLoaded, exec[x].err, exec[x].noise) = "failed" /\ j \in Enables
           => exec[x].err \/ exec[x].noise \/ (~(try[j] < Tries) /\ ~isLoaded) \/ says[j] = "broken-off"
  <2>1. CASE j \in Reloads
    BY <2>1, JobsApart DEF AfterResult
  <2>2. CASE j \notin Reloads /\ isLoaded /\ ~exec[x].err
    BY <2>2, JobsApart DEF AfterResult
  <2>3. CASE j \notin Reloads /\ ~(isLoaded /\ ~exec[x].err)
    <3>1. CASE j \in Enables /\ shouldRetryPluginEnable(isLoaded, exec[x].err, exec[x].noise)
      BY <2>3, <3>1, JobsApart DEF AfterResult, InVain, shouldRetryPluginEnable
    <3>2. CASE ~(j \in Enables /\ shouldRetryPluginEnable(isLoaded, exec[x].err, exec[x].noise))
      <4>1. AfterResult(j, isLoaded, exec[x].err, exec[x].noise) = "failed"
        BY <2>3, <3>2 DEF AfterResult
      <4>2. j \in Enables => exec[x].err \/ exec[x].noise
        BY <2>3, <3>2 DEF shouldRetryPluginEnable
      <4> QED
        BY <4>1, <4>2
    <3> QED
      BY <3>1, <3>2
  <2> QED
    BY <2>1, <2>2, <2>3
<1>j. /\ \A k \in Jobs : k # j => job'[k] = job[k] /\ says'[k] = says[k]
      /\ HostsOK'
      /\ \/ job'[j] = job[j] /\ says'[j] = says[j] /\ ~(job[j] = "asked" /\ try[j] = x[2])
         \/ /\ job[j] = "asked" /\ try[j] = x[2]
            /\ job'[j] = AfterResult(j, isLoaded, exec[x].err, exec[x].noise)
            /\ says'[j] = IF j \in Reloads THEN Report(isLoaded, exec[x].err) ELSE says[j]
  <2>1. CASE ~(job[j] = "asked" /\ try[j] = x[2]) /\ UNCHANGED <<job, says>>
    BY <1>r, <2>1 DEF HostsOK
  <2>2. CASE /\ job[j] = "asked" /\ try[j] = x[2]
             /\ job' = [job EXCEPT ![j] = AfterResult(j, isLoaded, exec[x].err, exec[x].noise)]
             /\ says' = IF j \in Reloads THEN [says EXCEPT ![j] = Report(isLoaded, exec[x].err)] ELSE says
    <3>1. /\ job' \in [Jobs -> {"unplanned", "idle", "collect", "clear", "asked", "asleep"} \cup Settled]
          /\ job'[j] = AfterResult(j, isLoaded, exec[x].err, exec[x].noise)
          /\ \A k \in Jobs : k # j => job'[k] = job[k]
      BY <1>p, <1>v, <2>2 DEF HostsOK, Settled
    <3>2. /\ says' \in [Jobs -> Words]
          /\ says'[j] = IF j \in Reloads THEN Report(isLoaded, exec[x].err) ELSE says[j]
          /\ \A k \in Jobs : k # j => says'[k] = says[k]
      <4>1. Report(isLoaded, exec[x].err) \in Words /\ says \in [Jobs -> Words]
        BY DEF Report, Words, HostsOK
      <4> QED
        BY <1>p, <2>2, <4>1
    <3> QED
      BY <1>r, <2>2, <3>1, <3>2 DEF HostsOK
  <2> QED
    BY <1>r, <2>1, <2>2
<1>s. \A k \in Jobs : Smooth(k)' <=> Smooth(k)
  BY <1>r DEF Smooth
<1>7. Together'
  <2>1. \A y \in Attempts : Runs(y)' => Runs(y)
    BY <1>a DEF Runs
  <2>2. \A k \in Jobs : job'[k] \in {"collect", "clear", "asked"} => Underway(k)
    BY <1>j, <1>v DEF Underway
  <2> QED
    BY <1>r, <2>1, <2>2, TogetherStays
<1>8. Counted'
  <2>1. /\ job'[j] \in {"unplanned", "idle", "collect", "clear"} => try[j] = 0
        /\ job'[j] = "asleep" => j \in Enables /\ try[j] < Tries
        /\ job'[j] \in {"collect", "clear"} => j \in Leaks
    <3>1. CASE job'[j] = job[j]
      BY <1>p, <1>r, <3>1 DEF Counted
    <3>2. CASE job[j] = "asked" /\ job'[j] = AfterResult(j, isLoaded, exec[x].err, exec[x].noise)
      BY <1>v, <3>2
    <3> QED
      BY <1>j, <3>1, <3>2
  <2>2. \A y \in Attempts : y[2] > try'[y[1]] => ~Runs(y)' /\ y \notin ToSet(slot')
    BY <1>4, <1>a, <1>r DEF Counted, Runs
  <2> QED
    BY <1>j, <1>r, <2>1, <2>2 DEF Counted
<1>9. Attempted'
  BY <1>a, <1>r, <1>s, AttemptsAre DEF Attempted, Runs, Loadable
<1>k. Smooth(j) => /\ ~exec[x].noise /\ (Loadable(PluginOf[j]) => ~exec[x].err)
                   /\ isLoaded \/ x[2] \in hit[j]
  BY <1>r, <1>x DEF Attempted, IsLoaded, isLoaded, j, Loadable
<1>10. InVainBefore'
  <2> SUFFICES ASSUME NEW k \in Enables, Smooth(k), NEW m \in 1..Tries,
                      \/ m < try[k] /\ job'[k] \in {"asked", "asleep"}
                      \/ m = try[k] /\ job'[k] = "asleep"
               PROVE  m \in hit[k]
    BY <1>r, <1>s, JobsApart DEF InVainBefore
  <2>1. CASE k = j
    BY <1>j, <1>k, <1>v, <2>1 DEF InVainBefore
  <2>2. CASE k # j
    BY <1>j, <2>2, JobsApart DEF InVainBefore
  <2> QED
    BY <2>1, <2>2
<1>11. RetriesHeal'
  <2> SUFFICES ASSUME NEW k \in Enables, job'[k] = "failed", Smooth(k), Loadable(PluginOf[k])
               PROVE  1..Tries \subseteq hit[k]
    BY <1>r DEF RetriesHeal, Smooth, Loadable
  <2>1. CASE k = j /\ job[k] # "failed"
    <3>1. job[j] = "asked" /\ try[j] = x[2] /\ ~(try[j] < Tries) /\ ~isLoaded
      <4>1. says[j] # "broken-off"
        BY <1>p, <2>1, JobsApart DEF Watched
      <4> QED
        BY <1>j, <1>k, <1>v, <2>1, <4>1
    <3>2. x[2] = Tries
      BY <1>p, <3>1, TriesCount
    <3>3. \A m \in 1..Tries : m < x[2] \/ m = x[2]
      BY <3>2, TriesCount
    <3> QED
      BY <1>k, <2>1, <3>1, <3>3 DEF InVainBefore
  <2>2. CASE k # j \/ job[k] = "failed"
    BY <1>j, <2>2, JobsApart DEF RetriesHeal, Smooth, Loadable
  <2> QED
    BY <2>1, <2>2
<1>o. isLoaded /\ ~exec[x].err /\ job[j] = "asked" /\ try[j] = x[2]
        => Loadable(PluginOf[j]) \/ (nature[PluginOf[j]] = "throwing" /\ j \in crossed \cup unheard)
  <2> SUFFICES ASSUME isLoaded, ~exec[x].err, job[j] = "asked", try[j] = x[2],
                      nature[PluginOf[j]] = "throwing", j \notin crossed \cup unheard
               PROVE  FALSE
    <3>1. isLoaded => nature[PluginOf[j]] # "stillborn"
      BY DEF isLoaded, IsLoaded, LoadsCounted
    <3> QED
      BY <1>p, <3>1, NaturesAre
  <2>1. job[j] \notin Settled
    BY DEF Settled
  <2>2. PICK y \in Attempts : y[1] = j /\ y[2] = try[j] /\ exec[y].err
    BY <1>p, <2>1 DEF Heeded, isLoaded, IsLoaded
  <2>3. y = x
    BY <2>2, AttemptsAre DEF j
  <2> QED
    BY <2>2, <2>3
<1>12. EnabledMeansLoaded'
  <2> SUFFICES ASSUME NEW k \in Enables \cup Leaks, job'[k] = "done"
               PROVE  Loadable(PluginOf[k]) \/ (nature[PluginOf[k]] = "throwing" /\ k \in crossed \cup unheard)
    BY <1>r DEF EnabledMeansLoaded, Loadable
  <2>1. k \in Jobs /\ k \notin Reloads
    BY JobsApart
  <2>2. CASE job[k] = "done"
    BY <2>2 DEF EnabledMeansLoaded, Loadable
  <2>3. CASE job[k] # "done"
    <3>1. k = j /\ job[j] = "asked" /\ try[j] = x[2] /\ isLoaded /\ ~exec[x].err
      BY <1>j, <1>v, <2>1, <2>3
    <3> QED
      BY <1>o, <3>1
  <2> QED
    BY <2>2, <2>3
<1>13. LoadsCounted'
  BY <1>j, <1>r, <1>v, JobsApart DEF LoadsCounted
<1>14. ReloadsLoad'
  <2> SUFFICES ASSUME NEW k \in Reloads, job'[k] = "done"
               PROVE  /\ says'[k] \in {"loaded", "threw"} => loads[PluginOf[k]] > atStart[k]
                      /\ says'[k] = "loaded" => Loadable(PluginOf[k]) \/ k \in crossed \cup unheard
                      /\ Loadable(PluginOf[k]) => says'[k] = "loaded" \/ hit[k] # {} \/ k \in crossed
                      /\ nature[PluginOf[k]] = "throwing"
                           => says'[k] = "threw" \/ hit[k] # {} \/ k \in crossed \cup unheard
    BY <1>r DEF ReloadsLoad, Loadable
  <2>1. CASE job[k] = "done" /\ says'[k] = says[k]
    BY <2>1 DEF ReloadsLoad, Loadable
  <2>2. CASE k = j /\ job[j] = "asked" /\ try[j] = x[2] /\ says'[j] = Report(isLoaded, exec[x].err)
    <3>1. isLoaded => loads[PluginOf[j]] > atStart[j]
      BY <2>2 DEF LoadsCounted, isLoaded, IsLoaded
    <3>2. Loadable(PluginOf[j]) \/ nature[PluginOf[j]] = "throwing" => isLoaded \/ hit[j] # {} \/ j \in crossed
      BY <1>k, <1>p, NaturesAre DEF Smooth
    <3>3. Loadable(PluginOf[j]) => ~exec[x].err \/ hit[j] # {} \/ j \in crossed
      BY <1>k, <1>p, NaturesAre DEF Smooth
    <3>4. nature[PluginOf[j]] = "throwing" => ~Loadable(PluginOf[j])
      BY DEF Loadable
    <3>5. /\ says'[j] \in {"loaded", "threw"} => isLoaded
          /\ says'[j] = "loaded" <=> isLoaded /\ ~exec[x].err
          /\ says'[j] = "threw" <=> isLoaded /\ exec[x].err
      BY <2>2 DEF Report
    <3> QED
      BY <1>o, <2>2, <3>1, <3>2, <3>3, <3>4, <3>5
  <2> QED
    BY <1>j, <2>1, <2>2, JobsApart
<1>15. Watched'
  BY <1>j, <1>r, <1>v, JobsApart DEF Watched, Report
<1>16. SwitchedOff' /\ InPlace'
  <2>1. \A y \in Attempts : y # x /\ y \in ToSet(slot) => y \in ToSet(slot')
    BY <1>l
  <2> QED
    BY <1>a, <1>r, <2>1 DEF SwitchedOff, InPlace
<1>17. Heeded'
  <2> SUFFICES ASSUME NEW k \in Jobs, nature[PluginOf[k]] = "throwing", PluginOf[k] \in loaded,
                      k \notin crossed \cup unheard, job'[k] \notin Settled
               PROVE  /\ job'[k] = "asked"
                      /\ \E y \in Attempts : y[1] = k /\ y[2] = try[k] /\ exec'[y].step = "finish" /\ exec'[y].err
    BY <1>r DEF Heeded
  <2>1. job'[k] = job[k] /\ (k = j => ~(job[j] = "asked" /\ try[j] = x[2]))
    <3>1. CASE k = j
      <4>1. isLoaded /\ Settled = {"done", "failed"}
        BY <3>1 DEF isLoaded, IsLoaded, Settled
      <4> QED
        BY <1>j, <1>v, <3>1, <4>1
    <3> QED
      BY <1>j, <3>1
  <2>2. job[k] = "asked" /\ \E y \in Attempts : y[1] = k /\ y[2] = try[k] /\ exec[y].step = "finish" /\ exec[y].err
    BY <2>1 DEF Heeded
  <2>3. PICK y \in Attempts : y[1] = k /\ y[2] = try[k] /\ exec[y].step = "finish" /\ exec[y].err
    BY <2>2
  <2>4. y # x
    BY <2>1, <2>2, <2>3 DEF j
  <2> QED
    BY <1>a, <2>1, <2>2, <2>3, <2>4
<1> QED
  BY <1>1, <1>2, <1>5, <1>6, <1>7, <1>8, <1>9, <1>10, <1>11, <1>12, <1>13, <1>14, <1>15, <1>16, <1>17, <1>a, <1>j

\* Noise is heard by what listens, and is a trouble of its job.
LEMMA NoiseKeeps == ASSUME PluginIInv, Noise PROVE PluginIInv'
<1> USE DEF PluginIInv, manager, hosts
<1> DEFINE listening == {x \in Attempts : exec[x].step \in {"load", "finish"}}
<1>r. /\ Upset
      /\ exec' = [x \in Attempts |-> IF x \in listening THEN [exec[x] EXCEPT !.noise = TRUE] ELSE exec[x]]
      /\ hit' = [j \in Jobs |-> IF \E x \in listening : x[1] = j THEN hit[j] \cup {0} ELSE hit[j]]
      /\ UNCHANGED <<nature, on, enabled, loaded, slot, loads, probe, job, try, says, atStart, crossed, unheard>>
  BY DEF Noise
<1> HIDE DEF listening
<1>a. ExecOK' /\ \A x \in Attempts : /\ exec'[x].step = exec[x].step /\ exec'[x].err = exec[x].err
                                     /\ x \notin listening => exec'[x] = exec[x]
  <2>1. \A x \in Attempts : exec[x] \in Execs
    BY DEF ExecOK
  <2>2. ASSUME NEW x \in Attempts
        PROVE  [exec[x] EXCEPT !.noise = TRUE] \in Execs /\ [exec[x] EXCEPT !.noise = TRUE].step = exec[x].step
               /\ [exec[x] EXCEPT !.noise = TRUE].err = exec[x].err
    BY <2>1 DEF Execs
  <2> QED
    BY <1>r, <2>1, <2>2 DEF ExecOK
<1>h. /\ HistoryOK' /\ \A j \in Jobs : hit[j] \subseteq hit'[j]
      /\ \A x \in listening : 0 \in hit'[x[1]]
  <2>1. 0 \in 0..Tries /\ \A x \in listening : x[1] \in Jobs
    BY TriesCount, AttemptsAre DEF listening
  <2> QED
    BY <1>r, <2>1 DEF HistoryOK
<1>s. \A j \in Jobs : Smooth(j)' => Smooth(j)
  BY <1>h, <1>r DEF Smooth
<1>1. ManagerOK' /\ HostsOK' /\ UpsetsOK'
  BY <1>r, UpsetsCount DEF ManagerOK, HostsOK
<1>2. PatchesKept' /\ WrappersUndone' /\ Layered'
  BY <1>a, <1>r, LayersStay DEF PatchesKept, Runs
<1>3. Together'
  BY <1>a, <1>r, TogetherStays DEF Runs, Underway
<1>4. Counted'
  BY <1>a, <1>r DEF Counted, Runs
<1>5. Attempted'
  <2> SUFFICES ASSUME NEW x \in Attempts, Smooth(x[1])'
               PROVE  /\ Runs(x)' => ~exec'[x].noise /\ (Loadable(PluginOf[x[1]]) => ~exec'[x].err)
                      /\ exec'[x].step \in {"patch", "load"} /\ PluginOf[x[1]] \in enabled' => PluginOf[x[1]] \in loaded'
                      /\ exec'[x].step = "finish" => PluginOf[x[1]] \in loaded' \/ x[2] \in hit'[x[1]]
    BY <1>r DEF Attempted, Loadable
  <2>1. x \notin listening /\ Smooth(x[1]) /\ hit[x[1]] \subseteq hit'[x[1]]
    BY <1>h, <1>s, AttemptsAre DEF Smooth
  <2> QED
    BY <1>a, <1>r, <2>1 DEF Attempted, Runs, Loadable
<1>6. InVainBefore' /\ RetriesHeal' /\ EnabledMeansLoaded' /\ Watched'
  BY <1>h, <1>r, <1>s, JobsApart DEF InVainBefore, RetriesHeal, EnabledMeansLoaded, Watched, Loadable
<1>7. LoadsCounted' /\ ReloadsLoad'
  BY <1>h, <1>r, JobsApart DEF LoadsCounted, ReloadsLoad, Loadable
<1>8. SwitchedOff' /\ InPlace'
  BY <1>a, <1>r DEF SwitchedOff, InPlace
<1>9. Heeded'
  <2>1. \A k \in Jobs : PluginOf[k] \in loaded' =>
          \/ k \in crossed' \cup unheard' \/ job'[k] \in Settled
          \/ /\ k \notin unheard
             /\ \/ job[k] \notin Settled \cup {"asked"}
                \/ /\ job'[k] = job[k] /\ try'[k] = try[k]
                   /\ \A x \in Attempts : x[1] = k /\ exec[x].step = "finish" =>
                        exec'[x].step = "finish" /\ exec'[x].err = exec[x].err
    BY <1>a, <1>r
  <2> QED
    BY <1>r, <2>1, HeededStays
<1> QED
  BY <1>1, <1>2, <1>3, <1>4, <1>5, <1>6, <1>7, <1>8, <1>9, <1>a, <1>h

\* The page begins anew: no attempt runs, no wrapper is left, and every job it cut short is in trouble.
LEMMA PageReloadsKeeps == ASSUME PluginIInv, PageReloads PROVE PluginIInv'
<1> USE DEF PluginIInv
<1> DEFINE busy == {j \in Jobs : Underway(j) \/ job[j] = "asleep"}
<1>r. /\ Upset
      /\ exec' = [x \in Attempts |-> NoExec]
      /\ \E ps \in IF on THEN Starts ELSE {{}} : Start(ps)
      /\ probe' = NoPlugin
      /\ job' = [j \in Jobs |-> IF job[j] = "asked" THEN InVain(j) ELSE job[j]]
      /\ hit' = [j \in Jobs |-> IF j \in busy THEN hit[j] \cup {0, try[j]} ELSE hit[j]]
      /\ UNCHANGED <<nature, on, enabled, try, says, atStart, crossed>>
  BY DEF PageReloads
<1>b. \A j \in Jobs : job[j] \in {"asked", "asleep", "collect"} => j \in busy
  BY DEF Underway
<1> HIDE DEF busy
<1>q. PICK starts \in IF on THEN Starts ELSE {{}} : Start(starts)
  BY <1>r
<1>t. /\ loaded' = starts /\ starts \subseteq Plugins /\ \A p \in starts : nature[p] # "stillborn"
      /\ slot' \in Seq(Attempts \cup Plugins) /\ ToSet(slot') = starts \cap Patching
      /\ \A x \in Attempts : x \notin ToSet(slot')
      /\ loads' \in [Plugins -> Nat]
      /\ \A p \in Plugins : loads[p] \in Nat /\ loads'[p] \in Nat /\ loads'[p] >= loads[p]
      /\ unheard \subseteq unheard' /\ unheard' \subseteq Jobs
      /\ \A j \in Jobs : PluginOf[j] \in starts => j \in unheard'
  <2>1. starts \in Starts \/ starts = {}
    BY <1>q
  <2> QED
    BY <1>q, <2>1, StartDoes
<1>a. ExecOK' /\ \A x \in Attempts : ~Runs(x)' /\ exec'[x].step = "none" /\ x \notin ToSet(slot')
  <2>1. NoExec \in Execs /\ NoExec.step = "none"
    BY DEF NoExec, Execs, Steps
  <2> QED
    BY <1>r, <1>t, <2>1 DEF ExecOK, Runs
<1>h. /\ HistoryOK' /\ \A j \in Jobs : hit[j] \subseteq hit'[j]
      /\ \A j \in busy : 0 \in hit'[j]
  <2>1. 0 \in 0..Tries
    BY TriesCount
  <2>2. \A j \in Jobs : try[j] \in 0..Tries
    BY DEF HostsOK
  <2>3. \A j \in busy : j \in Jobs
    BY DEF busy
  <2> QED
    BY <1>r, <1>t, <2>1, <2>2, <2>3 DEF HistoryOK
<1>v. \A j \in Jobs : /\ InVain(j) \in {"asleep", "failed"}
                      /\ InVain(j) = "asleep" => j \in Enables /\ try[j] < Tries
  BY DEF InVain
<1>j. /\ HostsOK'
      /\ \A j \in Jobs : \/ job[j] # "asked" /\ job'[j] = job[j]
                         \/ job[j] = "asked" /\ job'[j] = InVain(j)
  BY <1>r, <1>v DEF HostsOK, Settled
<1>s. \A j \in Jobs : Smooth(j)' => Smooth(j) /\ j \notin busy
  BY <1>h, <1>r DEF Smooth
<1>1. ManagerOK' /\ UpsetsOK'
  BY <1>r, <1>t, UpsetsCount DEF ManagerOK
<1>2. PatchesKept' /\ WrappersUndone' /\ Layered'
  <2>1. \A x \in Attempts, i \in DOMAIN slot' : slot'[i] # x
    BY <1>t DEF ToSet
  <2> QED
    BY <1>a, <1>t, <2>1 DEF PatchesKept, WrappersUndone, Layered
<1>3. Together'
  BY <1>a, <1>j, <1>r, <1>v, TogetherStays DEF Underway
<1>4. Counted'
  BY <1>a, <1>j, <1>r, <1>v DEF Counted
<1>5. Attempted'
  BY <1>a DEF Attempted, Loadable
<1>6. InVainBefore'
  <2>1. \A j \in Enables : Smooth(j)' => job'[j] \notin {"asked", "asleep"}
    BY <1>b, <1>j, <1>s, JobsApart
  <2> QED
    BY <2>1 DEF InVainBefore
<1>7. RetriesHeal' /\ EnabledMeansLoaded'
  <2>1. \A j \in Enables : Smooth(j)' => job'[j] = job[j] /\ Smooth(j) /\ hit[j] \subseteq hit'[j]
    BY <1>b, <1>h, <1>j, <1>s, JobsApart
  <2>2. \A j \in Jobs : job'[j] = "done" => job[j] = "done"
    BY <1>j, <1>v, JobsApart
  <2> QED
    <3>1. RetriesHeal'
      BY <1>r, <2>1 DEF RetriesHeal, Smooth, Loadable
    <3>2. EnabledMeansLoaded'
      BY <1>r, <1>t, <2>2, JobsApart DEF EnabledMeansLoaded, Loadable
    <3> QED
      BY <3>1, <3>2
<1>8. LoadsCounted'
  <2>1. \A p \in loaded' : nature'[p] # "stillborn"
    BY <1>r, <1>t
  <2>2. \A j \in Jobs : atStart'[j] <= loads'[PluginOf[j]]
    <3> SUFFICES ASSUME NEW j \in Jobs PROVE atStart[j] <= loads'[PluginOf[j]]
      BY <1>r
    <3>1. PluginOf[j] \in Plugins /\ atStart[j] \in Nat /\ atStart[j] <= loads[PluginOf[j]]
      BY JobsApart DEF HistoryOK, LoadsCounted
    <3> QED
      BY <1>t, <3>1
  <2>3. \A j \in Reloads : job'[j] # "asked"
    BY <1>j, <1>v, JobsApart
  <2> QED
    BY <2>1, <2>2, <2>3 DEF LoadsCounted
<1>9. ReloadsLoad'
  <2> SUFFICES ASSUME \A j \in Reloads : loads'[PluginOf[j]] > atStart[j] \/ ~(loads[PluginOf[j]] > atStart[j])
               PROVE  ReloadsLoad'
    <3>1. \A j \in Reloads : PluginOf[j] \in Plugins /\ atStart[j] \in Nat
      BY JobsApart DEF HistoryOK
    <3> QED
      BY <1>t, <3>1
  <2>1. \A j \in Reloads : job'[j] = "done" => job[j] = "done" /\ hit[j] \subseteq hit'[j]
    BY <1>h, <1>j, <1>v, JobsApart
  <2> QED
    BY <1>r, <1>t, <2>1 DEF ReloadsLoad, Loadable
<1>10. Watched'
  BY <1>b, <1>h, <1>j, <1>r, <1>v, JobsApart DEF Watched
<1>11. SwitchedOff' /\ InPlace'
  BY <1>a DEF SwitchedOff, InPlace
<1>12. Heeded'
  BY <1>t DEF Heeded
<1> QED
  BY <1>1, <1>2, <1>3, <1>4, <1>5, <1>6, <1>7, <1>8, <1>9, <1>10, <1>11, <1>12, <1>a, <1>h, <1>j

LEMMA PluginKeeps ==
  ASSUME PluginIInv, (\E j \in Jobs : JobStep(j)) \/ PageStep PROVE PluginIInv'
<1>1. CASE \E j \in Jobs : JobStep(j)
  <2>1. PICK j \in Jobs : JobStep(j)
    BY <1>1
  <2> QED
    BY <2>1, SetupEnablesKeeps, RetriesKeeps, EvalCappedKeeps, ReloadKeeps, DetectKeeps, CollectsKeeps,
       ClearsProbeKeeps DEF JobStep
<1>2. CASE \E x \in Attempts : ExecStep(x)
  <2>1. PICK x \in Attempts : ExecStep(x)
    BY <1>2
  <2> QED
    BY <2>1, SwitchOnKeeps, ResetKeeps, PatchKeeps, EnableKeeps, FinishKeeps DEF ExecStep
<1>3. CASE \E j \in Jobs : EvalFails(j)
  BY <1>3, EvalFailsKeeps
<1>4. CASE Noise \/ PageReloads
  BY <1>4, NoiseKeeps, PageReloadsKeeps
<1> QED
  BY <1>1, <1>2, <1>3, <1>4 DEF PageStep

-----------------------------------------------------------------------------
(* The start as a whole: no part disturbs another.                         *)

LEMMA ReadinessSafe == ReadinessIInv => ReadinessInv
<1> SUFFICES ASSUME ReadinessIInv PROVE ReadinessInv
  OBVIOUS
<1>1. RestartIsOfThisGuest
  BY DEF ReadinessIInv, Numbers, RestartIsOfThisGuest, Gates, IdleWaits
<1>2. DialogsHidden
  BY DEF ReadinessIInv, Writable, DialogsHidden
<1> QED
  BY <1>1, <1>2 DEF ReadinessIInv, ReadinessInv

LEMMA SelectionStutters == ASSUME SelectionIInv, UNCHANGED selectionVars PROVE SelectionIInv'
<1> USE DEF selectionVars, asking, world, selectionMarks
<1>1. SelectionTypeOK'
  BY DEF SelectionIInv, SelectionInv, SelectionTypeOK
<1>2. CollisionUnseen' /\ ChosenServes' /\ RefusesTheMute'
  BY DEF SelectionIInv, SelectionInv, CollisionUnseen, ChosenServes, RefusesTheMute, Mute
<1>3. Pass' /\ FirstPass' /\ Sole'
  BY DEF SelectionIInv, Pass, FirstPass, Sole, Mute
<1> QED
  BY <1>1, <1>2, <1>3 DEF SelectionIInv, SelectionInv

LEMMA ReadinessStutters == ASSUME ReadinessIInv, UNCHANGED readinessVars PROVE ReadinessIInv'
<1> USE DEF readinessVars, origins, system, marks
<1>1. ReadinessTypeOK'
  <2>1. HarnessOK' /\ KnownOK'
    BY ReadinessTypes DEF ReadinessIInv, HarnessOK, KnownOK
  <2>2. DeviceOK' /\ MarksOK'
    BY ReadinessTypes DEF ReadinessIInv, DeviceOK, MarksOK
  <2>3. troubles' \in 0..TroubleLimit
    BY ReadinessTypes DEF ReadinessIInv
  <2> QED
    BY <2>1, <2>2, <2>3 DEF ReadinessTypeOK, HarnessOK, KnownOK, DeviceOK, MarksOK
<1>2. RestartsWaitedOut' /\ Numbers'
  BY DEF ReadinessIInv, RestartsWaitedOut, Numbers
<1>3. Waited' /\ Writable'
  BY DEF ReadinessIInv, Waited, Writable
<1> QED
  BY <1>1, <1>2, <1>3 DEF ReadinessIInv

LEMMA StartupStutters == ASSUME StartupIInv, UNCHANGED startupVars PROVE StartupIInv'
  BY DEF startupVars, registry, callerVars, StartupIInv, StartupInv, StartupTypeOK, UserVaultsKept,
     StandsUntilSwept, NothingDangles, OnlyRequestedOpened, MarkerPushed

LEMMA PluginsStutter == ASSUME PluginIInv, UNCHANGED pluginVars PROVE PluginIInv'
<1> USE DEF pluginVars, manager, hosts, pluginMarks, PluginIInv
<1>1. ManagerOK' /\ ExecOK' /\ HostsOK' /\ HistoryOK' /\ UpsetsOK'
  BY DEF ManagerOK, ExecOK, HostsOK, HistoryOK, UpsetsOK
<1>2. PatchesKept' /\ WrappersUndone' /\ Layered'
  BY DEF PatchesKept, WrappersUndone, Layered, Runs
<1>3. Together' /\ Counted'
  BY DEF Together, Underway, Running, Counted, Runs
<1>4. Attempted' /\ InVainBefore' /\ RetriesHeal' /\ EnabledMeansLoaded'
  BY DEF Attempted, InVainBefore, RetriesHeal, EnabledMeansLoaded, Smooth, Runs, Loadable
<1>5. LoadsCounted' /\ ReloadsLoad' /\ Watched'
  BY DEF LoadsCounted, ReloadsLoad, Watched, Loadable
<1>6. SwitchedOff' /\ InPlace' /\ Heeded'
  BY DEF SwitchedOff, InPlace, Heeded
<1> QED
  BY <1>1, <1>2, <1>3, <1>4, <1>5, <1>6

IInv == SelectionIInv /\ ReadinessIInv /\ StartupIInv /\ PluginIInv

LEMMA InitIInv == Init => IInv
  BY SelectionStarts, ReadinessStarts, StartupStarts, PluginStarts DEF Init, IInv

LEMMA NextIInv == IInv /\ [Next]_vars => IInv'
<1> SUFFICES ASSUME IInv, [Next]_vars PROVE IInv'
  OBVIOUS
<1>1. SelectionIInv'
  <2>1. SelectionStep \/ DeviceStep \/ UNCHANGED selectionVars
    BY DEF Next, vars, Choice, Others, Ready, Guest, Call, App, Job, Page
  <2> QED
    BY <2>1, SelectionKeeps, SelectionStutters DEF IInv
<1>2. ReadinessIInv'
  <2>1. ReadinessStep \/ GuestStep \/ UNCHANGED readinessVars
    BY DEF Next, vars, Choice, Others, Ready, Guest, Call, App, Job, Page
  <2> QED
    BY <2>1, ReadinessKeeps, ReadinessStutters DEF IInv
<1>3. StartupIInv'
  <2>1. (\E c \in Callers : CallerStep(c)) \/ AppStep \/ UNCHANGED startupVars
    BY DEF Next, vars, Choice, Others, Ready, Guest, Call, App, Job, Page
  <2> QED
    BY <2>1, StartupKeeps, StartupStutters DEF IInv
<1>4. PluginIInv'
  <2>1. (\E j \in Jobs : JobStep(j)) \/ PageStep \/ UNCHANGED pluginVars
    BY DEF Next, vars, Choice, Others, Ready, Guest, Call, App, Job, Page
  <2> QED
    BY <2>1, PluginKeeps, PluginsStutter DEF IInv
<1> QED
  BY <1>1, <1>2, <1>3, <1>4 DEF IInv

\* The invariant holds between any two steps.
LEMMA Inductive == Spec => []IInv
<1> QED BY InitIInv, NextIInv, PTL DEF Spec

\* Whatever devices answer and whatever befalls the guest while it is waited for, the run takes the
\* device that serves its AVD and creates its session on a framework that has settled, for any
\* number of devices, polls, services and troubles.
THEOREM DeviceIsRight == Spec => []DeviceInv
<1>1. IInv => DeviceInv
  BY ReadinessSafe DEF IInv, SelectionIInv, DeviceInv
<1> QED BY <1>1, Inductive, PTL

\* The registry keeps the vaults of the user and those that are in use, and what the setup and the
\* tests report of plugins is so, for any number of callers, vaults, plugins, jobs and attempts; a
\* plugin that threw on a load that no awaited attempt watched is excepted (global-setup-core.ts:836).
THEOREM AppIsIntact == Spec => []AppInv
<1>1. IInv => AppInv
  BY PluginSafe DEF IInv, StartupIInv, AppInv
<1> QED BY <1>1, Inductive, PTL

\* A caller is told that its vault is ready in a step in which the page shows that vault, laid out.
THEOREM ReadyIsTheRequestedVault == Spec => ReadyIsRequested
<1>1. IInv /\ [Next]_vars =>
        [\A c \in Callers : vpc[c] # "ready" /\ vpc'[c] = "ready"
                              => page.live = VaultOf[c] /\ page.stage = 3]_startupVars
  <2> SUFFICES ASSUME IInv, [Next]_vars, ~UNCHANGED startupVars,
                      NEW c \in Callers, vpc[c] # "ready", vpc'[c] = "ready"
               PROVE  page.live = VaultOf[c] /\ page.stage = 3
    OBVIOUS
  <2>1. (\E d \in Callers : CallerStep(d)) \/ AppStep
    BY DEF Next, vars, Choice, Others, Ready, Guest, Call, App, Job, Page
  <2> QED
    BY <2>1, OnlySatisfiedIsReady DEF IInv
<1> QED BY <1>1, Inductive, PTL DEF Spec, ReadyIsRequested
=============================================================================
