--------------------------- MODULE AppiumSession ---------------------------
(***************************************************************************)
(* The evaluations of one Appium session                                   *)
(* (src/android/appium/transport-appium.ts) by the transports attached to  *)
(* it, one per Node process: the context and the window a script needs,    *)
(* and what a transport believes of them; the cap on an evaluation, which  *)
(* Node enforces while the closure goes on in the guest and holds up the   *)
(* session; the one retry; and the debugger channel beside the session,    *)
(* with the port forward it needs.                                         *)
(*                                                                         *)
(* Time counts in units of which an evaluation may take Cap.               *)
(***************************************************************************)
EXTENDS Naturals, FiniteSets, Sequences

CONSTANTS
  Calls,        (* calls of evaluate *)
  Transports,   (* the transports attached to the session *)
  TransportOf,  (* the transport each call is made on *)
  Length,       (* how long the closure of each call takes *)
  Cap,          (* scriptTimeoutInMilliseconds *)
  Grace,        (* CAP_RECOVERY_GRACE_IN_MILLISECONDS *)
  PollLimit,    (* the polls for a context after which the deadline may pass *)
  None,
  EventLimit,   (* bound, per platform, on the calls, which count twice, together with the lost windows
                   and sessions, dying apps, failing commands and removals, and killed processes of a
                   behaviour *)
  ExitsOn       (* bound: the platforms on which the ends of processes are considered *)

(* The debugger connections, each named by the call that opens it and the attempt it does so in. *)
Connections == Calls \X {1, 2}

ASSUME SessionAssumption ==
  /\ IsFiniteSet(Calls) /\ IsFiniteSet(Transports)
  /\ TransportOf \in [Calls -> Transports]
  /\ Length \in [Calls -> Nat \ {0}]
  /\ Cap \in Nat \ {0} /\ Grace \in Nat
  /\ PollLimit \in Nat \ {0, 1}
  /\ None \notin Calls \cup Connections
  /\ EventLimit \in [{"android", "ios"} -> Nat]

VARIABLES
  platform,      (* without adb, "ios" here, there is no debugger channel *)
  isInWebViewContext, isWebViewWindowStale, isRecoveringFromCapOverrun,
  stage,            (* where each call stands *)
  attempts,      (* 2 once the call has been retried *)
  polls,         (* the polls for a context so far *)
  timer,         (* what is left of the budget of a call that waits *)
  context,       (* the context of the session, "native" or "webview" *)
  chrome,        (* ChromeDriver: "attached", its window "gone", or "dead" *)
  app,           (* whether the app is "up" or "down" *)
  terminated,    (* whether the session is gone, for good: then every command fails *)
  queue,         (* the scripts the session has not come to *)
  guest,         (* the call whose closure runs, or None *)
  left,          (* how long it still runs *)
  inputChannel, isInputChannelUnavailable, disposeInputChannelOnExit,
  exitHandlers,  (* per transport, the connections its process closes on exit *)
  open,          (* the debugger connections whose socket is open *)
  forwards,      (* the port forwards of adb, each named by the connection that made it *)
  portOf,        (* the forward a connection uses *)
  ended,         (* the transports whose process has ended *)
  troubles,
  started,       (* history: how often each closure was started *)
  owed,          (* history: transports whose last overrun no call has followed *)
  due,           (* history: calls that were the first after an overrun *)
  wait,          (* history: how long each call that waits has waited for closures of others *)
  calm,          (* history: transports with a script that failed, and no trouble since *)
  assured,       (* history: calls begun in calm, and left alone since *)
  relapsed,      (* history: calls that failed although assured *)
  misreported,   (* history: calls whose closure was running when its script was said to have found
                    no window *)
  adrift,        (* history: connections nothing was left to close *)
  unremoved      (* history: forwards that a removal failed to remove *)

flags == <<isInWebViewContext, isWebViewWindowStale>>
session == <<context, chrome, app, terminated>>
script == <<queue, guest, left>>
channel == <<inputChannel, isInputChannelUnavailable, disposeInputChannelOnExit, exitHandlers,
             open, forwards, portOf, adrift, unremoved>>
history == <<owed, due, wait>>
run == <<started, misreported>>
health == <<calm, assured, relapsed>>
sessionVars == <<platform, flags, isRecoveringFromCapOverrun, stage, attempts, polls, timer, session,
                 script, channel, ended, troubles, run, history, health>>

Ended == {"answered", "capped", "failed", "dead"}
Queued(c) == \E i \in 1..Len(queue) : queue[i] = c

SessionTypeOK ==
  /\ platform \in {"android", "ios"}
  /\ isInWebViewContext \in [Transports -> BOOLEAN]
  /\ isWebViewWindowStale \in [Transports -> BOOLEAN]
  /\ isRecoveringFromCapOverrun \in [Transports -> BOOLEAN]
  /\ stage \in [Calls -> {"idle", "ensure", "recover", "reset", "reselect", "poll", "channel",
                       "attaching", "send", "waiting"} \cup Ended]
  /\ attempts \in [Calls -> 1..2]
  /\ polls \in [Calls -> 0..PollLimit]
  /\ timer \in [Calls -> 0..(Cap + Grace)]
  /\ context \in {"native", "webview"} /\ chrome \in {"attached", "gone", "dead"}
  /\ app \in {"up", "down"} /\ terminated \in BOOLEAN
  /\ queue \in Seq(Calls) /\ guest \in Calls \cup {None} /\ left \in Nat
  /\ \A c \in Calls : stage[c] = "waiting" => guest = c \/ Queued(c) \/ Length[c] > Cap
  /\ inputChannel \in [Transports -> Connections \cup {None}]
  /\ isInputChannelUnavailable \in [Transports -> BOOLEAN]
  /\ disposeInputChannelOnExit \in [Transports -> Connections \cup {None}]
  /\ exitHandlers \in [Transports -> SUBSET Connections]
  /\ open \subseteq Connections /\ forwards \subseteq Connections
  /\ portOf \in [Connections -> Connections \cup {None}]
  /\ ended \subseteq Transports
  /\ troubles \in 0..EventLimit[platform]
  /\ started \in [Calls -> Nat]
  /\ owed \subseteq Transports /\ due \subseteq Calls /\ wait \in [Calls -> Nat]
  /\ calm \subseteq Transports /\ assured \subseteq Calls /\ relapsed \subseteq Calls
  /\ misreported \subseteq Calls
  /\ adrift \subseteq Connections /\ unremoved \subseteq Connections

SessionInit ==
  /\ platform \in {"android", "ios"}
  /\ isInWebViewContext = [t \in Transports |-> FALSE]
  /\ isWebViewWindowStale = [t \in Transports |-> FALSE]
  /\ isRecoveringFromCapOverrun = [t \in Transports |-> FALSE]
  /\ stage = [c \in Calls |-> "idle"] /\ attempts = [c \in Calls |-> 1]
  /\ polls = [c \in Calls |-> 0] /\ timer = [c \in Calls |-> 0]
  /\ context = "native" /\ chrome = "attached" /\ app = "up" /\ terminated = FALSE
  /\ queue = <<>> /\ guest = None /\ left = 0
  /\ inputChannel = [t \in Transports |-> None]
  /\ isInputChannelUnavailable = [t \in Transports |-> FALSE]
  /\ disposeInputChannelOnExit = [t \in Transports |-> None]
  /\ exitHandlers = [t \in Transports |-> {}]
  /\ open = {} /\ forwards = {} /\ portOf = [d \in Connections |-> None]
  /\ ended = {} /\ troubles = 0
  /\ started = [c \in Calls |-> 0]
  /\ owed = {} /\ due = {} /\ wait = [c \in Calls |-> 0]
  /\ calm = {} /\ assured = {} /\ relapsed = {}
  /\ misreported = {} /\ adrift = {} /\ unremoved = {}

StageIs(c, where) == stage' = [stage EXCEPT ![c] = where]
SessionFree == guest = None /\ queue = <<>>
Begun == {c \in Calls : stage[c] # "idle"}

(* Bounds. *)
Events == 2 * Cardinality(Begun) + troubles
EventsLeft == Events < EventLimit[platform]

MayBegin(c) ==
  /\ stage[c] = "idle" /\ TransportOf[c] \notin ended
  /\ Events + 2 <= EventLimit[platform]

CallsOf(t) == {c \in Calls : TransportOf[c] = t}
UnderWay(t) == {c \in CallsOf(t) : stage[c] \notin Ended \cup {"idle"}}

(* What befalls the session, or a transport through another one, ends its calm. *)
Unsettle(ts) ==
  /\ calm' = calm \ ts
  /\ assured' = {c \in assured : TransportOf[c] \notin ts}
  /\ UNCHANGED relapsed

Trouble ==
  /\ EventsLeft
  /\ troubles' = troubles + 1
  /\ Unsettle(Transports)

(* An evaluation fails with an error that is not an overrun. *)
Failed(c) ==
  /\ relapsed' = IF c \in assured THEN relapsed \cup {c} ELSE relapsed
  /\ UNCHANGED <<calm, assured>>

(* Its script does: from then on the transport is calm, if it was not at something else and the
   session is there. *)
ScriptFailed(c) ==
  LET t == TransportOf[c] IN
  /\ calm' = IF app = "up" /\ ~terminated /\ UnderWay(t) = {c} THEN calm \cup {t} ELSE calm
  /\ relapsed' = IF c \in assured THEN relapsed \cup {c} ELSE relapsed
  /\ UNCHANGED assured

----------------------------------------------------------------------------
(* The call begins; the preflight, which a caller may skip, brings the app back. *)

evaluate(c) ==
  LET t == TransportOf[c] IN
  /\ MayBegin(c)
  /\ StageIs(c, "ensure")
  /\ IF UnderWay(t) # {}
     THEN Unsettle({t})
     ELSE /\ assured' = IF t \in calm THEN assured \cup {c} ELSE assured
          /\ UNCHANGED <<calm, relapsed>>
  /\ UNCHANGED <<platform, flags, isRecoveringFromCapOverrun, attempts, polls, timer, session, script,
                 channel, ended, troubles, run, history>>

preflightCheck(c) ==
  /\ MayBegin(c)
  /\ SessionFree /\ app = "down" /\ ~terminated
  /\ isInWebViewContext' = [isInWebViewContext EXCEPT ![TransportOf[c]] = FALSE]
  /\ app' = "up"
  /\ StageIs(c, "ensure")
  /\ UNCHANGED <<platform, isWebViewWindowStale, isRecoveringFromCapOverrun, attempts, polls, timer,
                 context, chrome, terminated, script, channel, ended, troubles, run, history, health>>

----------------------------------------------------------------------------
(* ensureWebViewContext and recoverWebViewWindow. *)

ensureWebViewContext(c) ==
  LET t == TransportOf[c] IN
  /\ stage[c] = "ensure"
  /\ isWebViewWindowStale' = [isWebViewWindowStale EXCEPT ![t] = FALSE]
  /\ StageIs(c, IF isWebViewWindowStale[t] THEN "recover"
             ELSE IF isInWebViewContext[t] THEN "channel" ELSE "poll")
  /\ polls' = [polls EXCEPT ![c] = 0]
  /\ UNCHANGED <<platform, isInWebViewContext, isRecoveringFromCapOverrun, attempts, timer, session, script,
                 channel, ended, troubles, run, history, health>>

(* ChromeDriver lists the window, as long as it is alive in the WebView context. *)
ListsWindow == chrome # "dead" /\ context = "webview" /\ app = "up" /\ ~terminated

SwitchWindow(c) ==
  /\ stage[c] = "recover" /\ SessionFree /\ ListsWindow
  /\ chrome' = "attached"
  /\ isInWebViewContext' = [isInWebViewContext EXCEPT ![TransportOf[c]] = TRUE]
  /\ StageIs(c, "ensure")
  /\ UNCHANGED <<platform, isWebViewWindowStale, isRecoveringFromCapOverrun, attempts, polls, timer,
                 context, app, terminated, script, channel, ended, troubles, run, history, health>>

NoWindow(c) ==
  /\ stage[c] = "recover" /\ SessionFree /\ ~ListsWindow
  /\ isInWebViewContext' = [isInWebViewContext EXCEPT ![TransportOf[c]] = FALSE]
  /\ StageIs(c, "reset")
  /\ UNCHANGED <<platform, isWebViewWindowStale, isRecoveringFromCapOverrun, attempts, polls, timer,
                 session, script, channel, ended, troubles, run, history, health>>

(* The session leaves the context for every transport, and only this one knows. *)
ToNative(c) ==
  /\ context' = "native"
  /\ Unsettle(Transports \ {TransportOf[c]})

ResetContext(c) ==
  /\ stage[c] = "reset" /\ SessionFree
  /\ ToNative(c)
  /\ StageIs(c, "reselect")
  /\ UNCHANGED <<platform, flags, isRecoveringFromCapOverrun, attempts, polls, timer, chrome, app,
                 terminated, script, channel, ended, troubles, run, history>>

(* One poll of the loop: the context is listed while the app is up. Switching to the context the
   session is in fails when its ChromeDriver is dead, and does nothing otherwise. *)
AtLoop(c) == stage[c] \in {"poll", "reselect"} /\ SessionFree
Polling(c) == AtLoop(c) /\ ~terminated

AfterFailedSwitch(c) == ToNative(c)

SwitchContext(c) ==
  /\ Polling(c) /\ app = "up"
  /\ ~(chrome = "dead" /\ context = "webview")
  /\ context' = "webview"
  /\ chrome' = IF context = "webview" THEN chrome ELSE "attached"
  /\ isInWebViewContext' = [isInWebViewContext EXCEPT ![TransportOf[c]] = TRUE]
  /\ StageIs(c, IF stage[c] = "poll" THEN "channel" ELSE "ensure")
  /\ polls' = [polls EXCEPT ![c] = 0]
  /\ UNCHANGED <<platform, isWebViewWindowStale, isRecoveringFromCapOverrun, attempts, timer, app,
                 terminated, script, channel, ended, troubles, run, history, health>>

SwitchFails(c) ==
  /\ Polling(c) /\ polls[c] < PollLimit
  /\ app = "up" /\ chrome = "dead" /\ context = "webview"
  /\ AfterFailedSwitch(c)
  /\ polls' = [polls EXCEPT ![c] = @ + 1]
  /\ UNCHANGED <<platform, flags, isRecoveringFromCapOverrun, stage, attempts, timer, chrome, app,
                 terminated, script, channel, ended, troubles, run, history>>

NoContext(c) ==
  /\ Polling(c) /\ polls[c] < PollLimit
  /\ app = "down"
  /\ polls' = [polls EXCEPT ![c] = @ + 1]
  /\ UNCHANGED <<platform, flags, isRecoveringFromCapOverrun, stage, attempts, timer, session, script,
                 channel, ended, troubles, run, history, health>>

(* The deadline passes, or the listing throws because the session is gone: within a recovery that
   is swallowed. *)
PollEnds(c) ==
  /\ UNCHANGED <<platform, flags, isRecoveringFromCapOverrun, attempts, timer, session, script, channel,
                 ended, run, history>>
  /\ polls' = [polls EXCEPT ![c] = 0]
  /\ \/ stage[c] = "poll" /\ StageIs(c, "failed") /\ Failed(c)
     \/ stage[c] = "reselect" /\ StageIs(c, "poll") /\ UNCHANGED health

Deadline(c) ==
  /\ AtLoop(c) /\ (polls[c] = PollLimit \/ terminated)
  /\ PollEnds(c)
  /\ UNCHANGED troubles

----------------------------------------------------------------------------
(* ensureInputChannel: the channel beside the session. Its forward is shared by the hosts. *)

Drop(t) ==
  /\ inputChannel' = [inputChannel EXCEPT ![t] = None]
  /\ disposeInputChannelOnExit' = [disposeInputChannelOnExit EXCEPT ![t] = None]

(* Mutant: every handler of the process goes. *)
ForgetHandlers(t) ==
  /\ Drop(t)
  /\ exitHandlers' = [exitHandlers EXCEPT ![t] = {}]

unregisterInputChannelExitHandler(t) ==
  /\ Drop(t)
  /\ exitHandlers' = [exitHandlers EXCEPT ![t] = @ \ {disposeInputChannelOnExit[t]}]

(* The removal of forwards is best effort: what fails is ignored, and the forward stays. *)
Stuck(ports) == {stuck \in SUBSET (ports \cap forwards) : stuck = {} \/ EventsLeft}

NoteStuck(stuck) ==
  /\ unremoved' = unremoved \cup stuck
  /\ troubles' = IF stuck = {} THEN troubles ELSE troubles + 1

removeForward(ports) ==
  \E stuck \in Stuck(ports) : forwards' = forwards \ (ports \ stuck) /\ NoteStuck(stuck)

Connection(c) == <<c, attempts[c]>>
HasChannel(t) == inputChannel[t] \in open

ChannelSettled(c) ==
  /\ stage[c] = "channel"
  /\ platform = "ios" \/ HasChannel(TransportOf[c]) \/ isInputChannelUnavailable[TransportOf[c]]
  /\ StageIs(c, "send")
  /\ UNCHANGED <<platform, flags, isRecoveringFromCapOverrun, attempts, polls, timer, session, script,
                 channel, ended, troubles, run, history, health>>

Attaching(d) == stage[d[1]] = "attaching" /\ d = Connection(d[1])

(* The old connection is disposed of; a forward is found, or made: also when another call is
   making one just now. *)
ensureInputChannel(c) ==
  LET t == TransportOf[c]
      old == {inputChannel[t]} \ {None}
      ports == {portOf[d] : d \in old}
  IN
  /\ stage[c] = "channel" /\ platform = "android"
  /\ ~HasChannel(t) /\ ~isInputChannelUnavailable[t]
  /\ unregisterInputChannelExitHandler(t)
  /\ open' = open \ old
  /\ \E stuck \in Stuck(ports) :
       LET kept == forwards \ (ports \ stuck) IN
       /\ NoteStuck(stuck)
       /\ \E port \in kept \cup (IF \A d \in kept : Attaching(d) THEN {Connection(c)} ELSE {}) :
            /\ portOf' = [portOf EXCEPT ![Connection(c)] = port]
            /\ forwards' = kept \cup {port}
  /\ StageIs(c, "attaching")
  /\ UNCHANGED <<platform, flags, isRecoveringFromCapOverrun, attempts, polls, timer, session, script,
                 isInputChannelUnavailable, adrift, ended, run, history, health>>

Attach(c) ==
  LET t == TransportOf[c] IN
  /\ stage[c] = "attaching" /\ portOf[Connection(c)] \in forwards
  /\ open' = open \cup {Connection(c)}
  /\ inputChannel' = [inputChannel EXCEPT ![t] = Connection(c)]
  /\ disposeInputChannelOnExit' = [disposeInputChannelOnExit EXCEPT ![t] = Connection(c)]
  /\ exitHandlers' = [exitHandlers EXCEPT ![t] = @ \cup {Connection(c)}]
  /\ StageIs(c, "send")
  /\ UNCHANGED <<platform, flags, isRecoveringFromCapOverrun, attempts, polls, timer, session, script,
                 isInputChannelUnavailable, forwards, portOf, adrift, unremoved, ended,
                 troubles, run, history, health>>

GiveUpChannel(c) ==
  /\ isInputChannelUnavailable' = [isInputChannelUnavailable EXCEPT ![TransportOf[c]] = TRUE]
  /\ StageIs(c, "send")
  /\ UNCHANGED <<platform, flags, isRecoveringFromCapOverrun, attempts, polls, timer, session, script,
                 inputChannel, disposeInputChannelOnExit, exitHandlers, portOf, ended,
                 run, history>>

(* The forward another host has removed meanwhile is of no use. *)
ForwardIsGone(c) ==
  /\ stage[c] = "attaching" /\ portOf[Connection(c)] \notin forwards
  /\ GiveUpChannel(c)
  /\ UNCHANGED <<open, forwards, adrift, unremoved, troubles, health>>

(* The connection fails, which removes the forward if it can; or what follows it does, which does
   not. *)
AttachFails(c) ==
  /\ stage[c] = "attaching"
  /\ Trouble
  /\ GiveUpChannel(c)
  /\ \/ /\ \/ forwards' = forwards \ {portOf[Connection(c)]} /\ UNCHANGED unremoved
           \/ /\ unremoved' = unremoved \cup ({portOf[Connection(c)]} \cap forwards)
              /\ UNCHANGED forwards
        /\ UNCHANGED <<open, adrift>>
     \/ /\ portOf[Connection(c)] \in forwards
        /\ open' = open \cup {Connection(c)}
        /\ adrift' = adrift \cup {Connection(c)}
        /\ UNCHANGED <<forwards, unremoved>>

SocketCloses(d) ==
  /\ d \in open
  /\ Trouble
  /\ open' = open \ {d}
  /\ UNCHANGED <<platform, flags, isRecoveringFromCapOverrun, stage, attempts, polls, timer, session,
                 script, inputChannel, isInputChannelUnavailable, disposeInputChannelOnExit, exitHandlers,
                 forwards, portOf, adrift, unremoved, ended, run, history>>

----------------------------------------------------------------------------
(* evaluateWithinCap, and the session that runs one script after another. *)

Budget(t) == IF isRecoveringFromCapOverrun[t] THEN Cap + Grace ELSE Cap

evaluateWithinCap(c) ==
  LET t == TransportOf[c] IN
  /\ stage[c] = "send"
  /\ timer' = [timer EXCEPT ![c] = Budget(t)]
  /\ isRecoveringFromCapOverrun' = [isRecoveringFromCapOverrun EXCEPT ![t] = FALSE]
  /\ queue' = Append(queue, c)
  /\ wait' = [wait EXCEPT ![c] = 0]
  /\ due' = IF t \in owed THEN due \cup {c} ELSE due \ {c}
  /\ owed' = owed \ {t}
  /\ StageIs(c, "waiting")
  /\ UNCHANGED <<platform, flags, attempts, polls, session, guest, left, channel, ended, troubles,
                 run, health>>

(* Mutant: an evaluation is retried whatever it failed with. *)
RetriesAfterAny(c, why) == attempts[c] = 1

RetriesAfter(c, why) == attempts[c] = 1 /\ why = "window-closed"

(* Mutant: the failure of a script says nothing of the context. *)
KeepFlags(t, why) == UNCHANGED flags

DistrustContext(t, why) ==
  /\ isInWebViewContext' = [isInWebViewContext EXCEPT ![t] = FALSE]
  /\ isWebViewWindowStale' = [isWebViewWindowStale EXCEPT ![t] = @ \/ why = "window-closed"]

(* Mutant: the answer is lost. *)
LoseFailure(c, why) == UNCHANGED <<flags, stage, attempts, timer>>

(* The script of a call fails; nobody hears of it when the call was capped. *)
ScriptFails(c, why) ==
  IF stage[c] # "waiting"
  THEN UNCHANGED <<flags, stage, attempts, timer>>
  ELSE /\ DistrustContext(TransportOf[c], why)
       /\ timer' = [timer EXCEPT ![c] = 0]
       /\ IF RetriesAfter(c, why)
          THEN StageIs(c, "ensure") /\ attempts' = [attempts EXCEPT ![c] = 2]
          ELSE StageIs(c, "failed") /\ UNCHANGED attempts

CanRun == context = "webview" /\ chrome = "attached" /\ app = "up" /\ ~terminated

(* What a script that cannot run fails with; a dead ChromeDriver may say that there is no window. *)
Refusals ==
  {why \in {"session-terminated", "window-closed", "other"} :
     \/ terminated /\ why = "session-terminated"
     \/ ~terminated /\ context = "webview" /\ chrome # "attached" /\ why = "window-closed"
     \/ ~terminated /\ ~(context = "webview" /\ chrome = "gone") /\ why = "other"}

Serve(c) ==
  /\ guest = None /\ queue # <<>> /\ c = Head(queue)
  /\ queue' = Tail(queue)
  /\ IF CanRun
     THEN /\ guest' = c /\ left' = Length[c]
          /\ started' = [started EXCEPT ![c] = @ + 1]
          /\ UNCHANGED <<flags, stage, attempts, timer, health>>
     ELSE /\ \E why \in Refusals :
               /\ ScriptFails(c, why)
               /\ IF stage[c] = "waiting" /\ ~RetriesAfter(c, why) THEN ScriptFailed(c)
                  ELSE UNCHANGED health
          /\ UNCHANGED <<guest, left, started>>
  /\ UNCHANGED <<platform, isRecoveringFromCapOverrun, polls, session, channel, ended, troubles,
                 misreported, history>>

(* A closure ends; the response of one that outlasted the cap is lost. *)
GuestEnds ==
  /\ guest # None /\ left = 0
  /\ guest' = None
  /\ IF stage[guest] = "waiting" /\ Length[guest] <= Cap
     THEN StageIs(guest, "answered") /\ timer' = [timer EXCEPT ![guest] = 0]
     ELSE UNCHANGED <<stage, timer>>
  /\ UNCHANGED <<platform, flags, isRecoveringFromCapOverrun, attempts, polls, session, queue, left,
                 channel, ended, troubles, run, history, health>>

(* Mutant: the overrun is forgotten. *)
ForgetOverrun(t) == UNCHANGED isRecoveringFromCapOverrun

NoteOverrun(t) == isRecoveringFromCapOverrun' = [isRecoveringFromCapOverrun EXCEPT ![t] = TRUE]

(* Mutant: the cap is on the closure only while it runs. *)
CapWhileRunning(c) ==
  LET t == TransportOf[c] IN
  /\ stage[c] = "waiting" /\ timer[c] = 0 /\ guest = c
  /\ NoteOverrun(t)
  /\ owed' = owed \cup {t}
  /\ StageIs(c, "capped")
  /\ UNCHANGED <<platform, flags, attempts, polls, timer, session, script, channel, ended, troubles,
                 run, due, wait, health>>

CapFires(c) ==
  LET t == TransportOf[c] IN
  /\ stage[c] = "waiting" /\ timer[c] = 0
  /\ NoteOverrun(t)
  /\ owed' = owed \cup {t}
  /\ StageIs(c, "capped")
  /\ UNCHANGED <<platform, flags, attempts, polls, timer, session, script, channel, ended, troubles,
                 run, due, wait, health>>

(* A unit of time passes, when nothing is left to be done at this moment. *)
Tick ==
  /\ guest # None \/ \E c \in Calls : stage[c] = "waiting"
  /\ \A c \in Calls : stage[c] = "waiting" => timer[c] > 0
  /\ IF guest = None THEN queue = <<>> ELSE left > 0
  /\ left' = IF guest = None THEN left ELSE left - 1
  /\ timer' = [c \in Calls |-> IF stage[c] = "waiting" THEN timer[c] - 1 ELSE timer[c]]
  /\ wait' = [c \in Calls |-> IF stage[c] = "waiting" /\ guest # c THEN wait[c] + 1 ELSE wait[c]]
  /\ UNCHANGED <<platform, flags, isRecoveringFromCapOverrun, stage, attempts, polls, session, queue, guest,
                 channel, ended, troubles, run, owed, due, health>>

----------------------------------------------------------------------------
(* What befalls the app, its page and the commands; the ends of the processes. *)

(* The closure that runs is cut off, and its script fails. *)
Upheaval(whys) ==
  /\ Trouble
  /\ guest' = None /\ left' = 0
  /\ IF guest = None
     THEN UNCHANGED <<flags, stage, attempts, timer, misreported>>
     ELSE \E why \in whys :
            /\ ScriptFails(guest, why)
            /\ misreported' = IF why = "window-closed" THEN misreported \cup {guest} ELSE misreported
  /\ UNCHANGED <<platform, isRecoveringFromCapOverrun, polls, queue, channel, ended, started, history>>

(* The window goes under the closure that runs: the answer may be that there is no such window. *)
WindowReplaced ==
  /\ app = "up" /\ chrome = "attached"
  /\ Upheaval({"window-closed", "other"})
  /\ chrome' = "gone"
  /\ UNCHANGED <<context, app, terminated>>

AppDies ==
  /\ app = "up"
  /\ Upheaval({"window-closed", "other"})
  /\ chrome' = "dead" /\ app' = "down"
  /\ UNCHANGED <<context, terminated>>

(* The instrumentation behind the session crashes, or Appium ends it, and its ChromeDriver with it. *)
SessionTerminates ==
  /\ ~terminated
  /\ Upheaval({"session-terminated"})
  /\ terminated' = TRUE
  /\ chrome' = "dead" /\ context' = "native"
  /\ UNCHANGED app

AppReturns ==
  /\ app = "down"
  /\ app' = "up"
  /\ UNCHANGED <<platform, flags, isRecoveringFromCapOverrun, stage, attempts, polls, timer, context,
                 chrome, terminated, script, channel, ended, troubles, run, history, health>>

(* A command throws: one of a recovery is swallowed, one of the loop ends it. *)
CommandFails(c) ==
  LET t == TransportOf[c] IN
  /\ SessionFree
  /\ Trouble
  /\ polls' = [polls EXCEPT ![c] = 0]
  /\ \/ /\ stage[c] = "recover" /\ StageIs(c, "reset")
        /\ isInWebViewContext' = [isInWebViewContext EXCEPT ![t] = FALSE]
     \/ /\ \/ stage[c] = "reset" /\ StageIs(c, "reselect")
           \/ stage[c] = "reselect" /\ StageIs(c, "poll")
           \/ stage[c] = "poll" /\ StageIs(c, "failed")
        /\ UNCHANGED isInWebViewContext
  /\ UNCHANGED <<platform, isWebViewWindowStale, isRecoveringFromCapOverrun, attempts, timer, session,
                 script, channel, ended, run, history>>

(* dispose closes the connection the transport knows of. *)
dispose(t) ==
  /\ inputChannel[t] # None
  /\ \A c \in CallsOf(t) : stage[c] \in Ended \cup {"idle"}
  /\ unregisterInputChannelExitHandler(t)
  /\ open' = open \ {inputChannel[t]}
  /\ removeForward({portOf[inputChannel[t]]})
  /\ UNCHANGED <<platform, flags, isRecoveringFromCapOverrun, stage, attempts, polls, timer, session,
                 script, isInputChannelUnavailable, portOf, adrift, ended, run, history, health>>

(* A process ends, and its calls and sockets with it. *)
ProcessEnds(t) ==
  /\ platform \in ExitsOn /\ t \notin ended
  /\ ended' = ended \cup {t}
  /\ stage' = [c \in Calls |-> IF c \in CallsOf(t) /\ stage[c] \notin Ended THEN "dead" ELSE stage[c]]
  /\ timer' = [c \in Calls |-> IF c \in CallsOf(t) THEN 0 ELSE timer[c]]
  /\ open' = {d \in open : d[1] \notin CallsOf(t)}
  /\ exitHandlers' = [exitHandlers EXCEPT ![t] = {}]
  /\ UNCHANGED <<platform, flags, isRecoveringFromCapOverrun, attempts, polls, session, script,
                 inputChannel, isInputChannelUnavailable, disposeInputChannelOnExit, portOf,
                 run, history, health>>

BeingAttached(t) == {Connection(c) : c \in {e \in CallsOf(t) : stage[e] = "attaching"}}

(* Its exit handlers close what they know of. *)
ProcessExits(t) ==
  /\ ProcessEnds(t)
  /\ removeForward({portOf[d] : d \in exitHandlers[t]})
  /\ adrift' = adrift \cup BeingAttached(t)

(* Nothing of it runs any more. *)
ProcessKilled(t) ==
  /\ ProcessEnds(t)
  /\ EventsLeft /\ troubles' = troubles + 1
  /\ adrift' = adrift \cup BeingAttached(t) \cup exitHandlers[t]
  /\ UNCHANGED <<forwards, unremoved>>

----------------------------------------------------------------------------
SessionStep ==
  \/ \E c \in Calls :
       \/ ensureWebViewContext(c) \/ SwitchWindow(c) \/ NoWindow(c) \/ ResetContext(c)
       \/ SwitchContext(c) \/ SwitchFails(c) \/ NoContext(c) \/ Deadline(c)
       \/ ChannelSettled(c) \/ ensureInputChannel(c) \/ Attach(c) \/ ForwardIsGone(c)
       \/ evaluateWithinCap(c) \/ Serve(c) \/ CapFires(c)
  \/ GuestEnds \/ Tick

SessionNext ==
  \/ SessionStep
  \/ \E c \in Calls :
       evaluate(c) \/ preflightCheck(c) \/ AttachFails(c) \/ CommandFails(c)
  \/ \E d \in Connections : SocketCloses(d)
  \/ WindowReplaced \/ AppDies \/ AppReturns \/ SessionTerminates
  \/ \E t \in Transports : dispose(t) \/ ProcessExits(t) \/ ProcessKilled(t)

SessionSpec == SessionInit /\ [][SessionNext]_sessionVars

(* Node, the session and time go on. *)
SessionFairSpec == SessionSpec /\ WF_sessionVars(SessionStep)

----------------------------------------------------------------------------
(* The retry of an evaluation runs its closure a second time only if the window went while the first
   run was under way and the answer was that there was none, which the code takes to come before a
   script runs (transport-appium.ts:535). *)
ClosureRunsOnce == \A c \in Calls : started[c] <= IF c \in misreported THEN 2 ELSE 1

(* A call whose closure keeps to the cap is capped only if waiting for closures of others used up
   the budget, which for the first call after an overrun includes the grace; a retry has the bare
   cap again (transport-appium.ts:959). *)
CappedOnlyBehindOthers ==
  \A c \in Calls :
    stage[c] = "capped" /\ Length[c] <= Cap
      => wait[c] + Length[c] >= Cap + (IF c \in due THEN Grace ELSE 0)

(* A transport heals by one failure, as long as its session is there: a call begun after a script
   has failed, with no trouble since and the session left alone by the other transports and by
   other calls of its own, does not fail (transport-appium.ts:917, :1289). *)
HealsAfterOneFailure == relapsed = {}

(* When the processes have ended, a port forward is left only of a connection that had not been
   handed over, for its process ended in the middle or a command after it failed, or whose process
   was killed; or where its removal was tried and failed (transport-appium.ts:811,
   webview-cdp.ts:190). *)
NoForwardStranded ==
  ended = Transports => forwards \subseteq {portOf[d] : d \in adrift} \cup unremoved

(* Every evaluation that begins ends, for good, though the closure of one goes on for longer than
   anyone waits (transport-appium.ts:892, :851). *)
EveryCallEnds == <>[](\A c \in Calls : stage[c] \in Ended \cup {"idle"})

(* What a session shares among evaluations costs each its own overrun only: none runs twice unless
   it was misreported, none is capped for another without cause, none fails twice for one loss, and
   no forward is left that a process could remove. *)
SessionInv ==
  /\ SessionTypeOK
  /\ ClosureRunsOnce /\ CappedOnlyBehindOthers /\ HealsAfterOneFailure /\ NoForwardStranded
=============================================================================
