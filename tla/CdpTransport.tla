---------------------------- MODULE CdpTransport ----------------------------
(***************************************************************************)
(* The desktop transport's connection to Obsidian's windows                *)
(* (src/desktop/transport-desktop-cdp.ts): one cached WebSocket and the    *)
(* vault it belongs to, reconnected across awaits whenever the vault of a  *)
(* call differs, and commands that are matched to their answers by an id   *)
(* and given up at the command timeout.                                    *)
(*                                                                         *)
(* The grain is the await: what the code does between two awaits of one    *)
(* call is one step, and any other call of the worker, an answer, a timer  *)
(* or a closing socket may come between two steps.                         *)
(***************************************************************************)
EXTENDS Naturals, FiniteSets

CONSTANTS
  Calls,        (* calls of evaluate and captureScreenshot; each opens at most one socket,
                   so a socket is named by the call that opened it *)
  Captures,     (* the calls of captureScreenshot, with a device metrics override *)
  VaultOf,      (* the vault each call names *)
  None,         (* no socket, no vault, no call *)
  Mixes,        (* bound: the sets of calls of which one is made *)
  UpheavalLimit (* bound on closing windows, disposals, unregistrations and refused commands together *)

Vaults == {VaultOf[c] : c \in Calls}

ASSUME CdpAssumption ==
  /\ IsFiniteSet(Calls) /\ Captures \subseteq Calls
  /\ DOMAIN VaultOf = Calls
  /\ None \notin Calls \cup Vaults
  /\ Mixes \subseteq SUBSET Calls /\ UpheavalLimit \in Nat

VARIABLES
  pc,              (* pc[c]: where call c stands *)
  at,              (* at[c]: the command that c sends, waits for, or sent last *)
  conn,            (* conn[c]: the socket ensureConnection returned to c *)
  cmd,             (* cmd[c]: the id of the last command of c *)
  fault,           (* fault[c]: the commands of c that failed *)
  outcome,         (* how c ended *)
  ws,              (* the cached socket *)
  activeVaultPath, (* the vault the cached socket is taken to belong to *)
  socket,          (* the state of each socket *)
  peerGone,        (* the sockets whose window has closed *)
  messageId,
  pendingCommands, (* per socket, the ids that are waited for, and by which call *)
  wire,            (* the commands that reached Obsidian and are not answered yet *)
  override,        (* per socket, the capture whose device metrics are in force *)
  windowOpen,      (* the vaults that have a window *)
  upheavals,       (* how many windows closed, connections were dropped, commands were refused *)
  ranIn,           (* history: the vault in whose window the closure of a call ran *)
  shot,            (* history: the override the picture of a capture was taken under *)
  mixed,           (* history: the captures of one socket that overlapped *)
  unheeded,        (* history: the commands of a call whose refusal it did not look at *)
  cut,             (* history: the calls whose socket closed while they needed it *)
  overlapped       (* history: two calls were reconnecting at once, or one while disposing *)

caller == <<pc, at, conn, cmd, fault, outcome>>
cache == <<ws, activeVaultPath>>
remote == <<windowOpen, upheavals, peerGone>>
history == <<ranIn, shot, mixed, unheeded, cut, overlapped>>
vars == <<caller, cache, socket, messageId, pendingCommands, wire, override, remote, history>>

Location == {"idle", "finding", "connecting", "bound", "waiting", "ended"}
Method == {"evaluate", "setOverride", "capture", "clearOverride"}
Message == [socket : Calls, id : Nat, call : Calls, method : Method,
            stage : {"sent", "running", "replied"}, refused : BOOLEAN, shot : Calls \cup {None}]

TypeOK ==
  /\ pc \in [Calls -> Location]
  /\ at \in [Calls -> Method]
  /\ conn \in [Calls -> Calls \cup {None}]
  /\ cmd \in [Calls -> Nat]
  /\ fault \in [Calls -> SUBSET Method]
  /\ outcome \in [Calls -> {"none", "answered", "blank", "capped", "failed"}]
  /\ ws \in Calls \cup {None}
  /\ activeVaultPath \in Vaults \cup {None}
  /\ socket \in [Calls -> {"none", "connecting", "open", "closed"}]
  /\ peerGone \subseteq Calls
  /\ messageId \in Nat
  /\ pendingCommands \in [Calls -> SUBSET [id : Nat, call : Calls]]
  /\ wire \subseteq Message
  /\ override \in [Calls -> Calls \cup {None}]
  /\ windowOpen \subseteq Vaults
  /\ upheavals \in 0..UpheavalLimit
  /\ ranIn \in [Calls -> Vaults \cup {None}]
  /\ shot \in [Calls -> Calls \cup {None}]
  /\ mixed \subseteq Captures
  /\ unheeded \in [Calls -> SUBSET Method]
  /\ cut \subseteq Calls
  /\ overlapped \in BOOLEAN

Init ==
  /\ pc = [c \in Calls |-> "idle"]
  /\ at = [c \in Calls |-> IF c \in Captures THEN "setOverride" ELSE "evaluate"]
  /\ conn = [c \in Calls |-> None]
  /\ cmd = [c \in Calls |-> 0]
  /\ fault = [c \in Calls |-> {}]
  /\ outcome = [c \in Calls |-> "none"]
  /\ ws = None /\ activeVaultPath = None
  /\ socket = [c \in Calls |-> "none"]
  /\ messageId = 0
  /\ pendingCommands = [c \in Calls |-> {}]
  /\ wire = {}
  /\ override = [c \in Calls |-> None]
  /\ windowOpen = Vaults /\ upheavals = 0 /\ peerGone = {}
  /\ ranIn = [c \in Calls |-> None]
  /\ shot = [c \in Calls |-> None]
  /\ mixed = {}
  /\ unheeded = [c \in Calls |-> {}]
  /\ cut = {}
  /\ overlapped = FALSE

Goto(c, location) == pc' = [pc EXCEPT ![c] = location]

\* The calls that hold socket s and are not done with it.
UsersOf(s) == {c \in Calls : pc[c] \in {"bound", "waiting"} /\ conn[c] = s}

Reconnecting == {c \in Calls : pc[c] \in {"finding", "connecting"}}

\* What remains on the wire of a socket that closes: its answers are lost, what
\* Obsidian has been sent it still runs.
WithoutReplies(s) == {m \in wire : ~(m.socket = s /\ m.stage = "replied")}

\* A socket closes: the device metrics override of its session ends with it.
SocketCloses(s) ==
  /\ socket' = [socket EXCEPT ![s] = "closed"]
  /\ wire' = WithoutReplies(s)
  /\ override' = [override EXCEPT ![s] = None]
  /\ cut' = cut \cup UsersOf(s)

\* Mutant: the cached socket is forgotten and stays open.
Forget ==
  /\ ws' = None /\ activeVaultPath' = None
  /\ UNCHANGED <<socket, wire, override, cut>>

\* disconnect()
disconnect ==
  /\ IF ws # None /\ socket[ws] = "open"
     THEN SocketCloses(ws)
     ELSE UNCHANGED <<socket, wire, override, cut>>
  /\ ws' = None /\ activeVaultPath' = None

-----------------------------------------------------------------------------
(* ensureConnection.                                                       *)

\* Mutant: a cached socket that has closed is as good as an open one.
CachedThoughClosed(c) == ws # None /\ activeVaultPath = VaultOf[c]

IsCachedFor(c) == ws # None /\ socket[ws] = "open" /\ activeVaultPath = VaultOf[c]

\* A call begins: the part of ensureConnection before its first await.
Begin(c) ==
  /\ pc[c] = "idle"
  /\ \E mix \in Mixes : {c} \cup {d \in Calls : pc[d] # "idle"} \subseteq mix
  /\ IF IsCachedFor(c)
     THEN /\ Goto(c, "bound")
          /\ conn' = [conn EXCEPT ![c] = ws]
          /\ UNCHANGED <<cache, socket, wire, override, cut, overlapped>>
     ELSE /\ Goto(c, "finding")
          /\ disconnect
          /\ overlapped' = (overlapped \/ Reconnecting # {})
          /\ UNCHANGED conn
  /\ UNCHANGED <<at, cmd, fault, outcome, messageId, pendingCommands, remote, ranIn, shot, mixed,
                 unheeded>>

End(c, how) ==
  /\ Goto(c, "ended")
  /\ outcome' = [outcome EXCEPT ![c] = how]

\* findTargetForVault has found the window of the vault; its probes close their own sockets.
findTargetForVault(c) ==
  /\ pc[c] = "finding"
  /\ VaultOf[c] \in windowOpen
  /\ Goto(c, "connecting")
  /\ socket' = [socket EXCEPT ![c] = "connecting"]
  /\ UNCHANGED <<at, conn, cmd, fault, outcome, cache, messageId, pendingCommands, wire,
                 override, remote, history>>

\* No window reports the vault, or the list of windows is not served.
NoTarget(c) ==
  /\ pc[c] = "finding"
  /\ End(c, "failed")
  /\ UNCHANGED <<at, conn, cmd, fault, cache, socket, messageId, pendingCommands, wire,
                 override, remote, history>>

\* Mutant: whatever connects becomes the socket, the first vault asked for its label.
Mislabel(c) ==
  /\ pc[c] = "connecting" /\ c \notin peerGone
  /\ socket' = [socket EXCEPT ![c] = "open"]
  /\ ws' = c
  /\ activeVaultPath' = IF activeVaultPath = None THEN VaultOf[c] ELSE activeVaultPath
  /\ conn' = [conn EXCEPT ![c] = c]
  /\ Goto(c, "bound")
  /\ UNCHANGED <<at, cmd, fault, outcome, messageId, pendingCommands, wire, override, remote,
                 history>>

\* connectToTarget has opened the socket: it replaces whatever is cached by now.
Connected(c) ==
  /\ pc[c] = "connecting" /\ c \notin peerGone
  /\ socket' = [socket EXCEPT ![c] = "open"]
  /\ ws' = c /\ activeVaultPath' = VaultOf[c]
  /\ conn' = [conn EXCEPT ![c] = c]
  /\ Goto(c, "bound")
  /\ UNCHANGED <<at, cmd, fault, outcome, messageId, pendingCommands, wire, override, remote,
                 history>>

\* The socket errors, or its timeout comes first; it is closed either way.
ConnectFails(c) ==
  /\ pc[c] = "connecting"
  /\ socket' = [socket EXCEPT ![c] = "closed"]
  /\ End(c, "failed")
  /\ UNCHANGED <<at, conn, cmd, fault, cache, messageId, pendingCommands, wire, override,
                 remote, history>>

-----------------------------------------------------------------------------
(* sendCommand, and the order of the commands of a capture.                *)

\* Mutants: ids are counted down or restart with every call, the override is lifted
\* before the picture, or not at all when the picture failed.
IdBefore(c) == messageId - 1
IdOfTheStep(c) == CASE at[c] = "capture" -> 2 [] at[c] = "clearOverride" -> 3 [] OTHER -> 1
ClearBeforePicture(c, ok) ==
  CASE at[c] = "setOverride" /\ ok -> "clearOverride"
    [] at[c] = "clearOverride"     -> "capture"
    [] OTHER                       -> "end"
ClearOnlyAfterSuccess(c, ok) ==
  CASE at[c] = "setOverride" /\ ok -> "capture"
    [] at[c] = "capture" /\ ok     -> "clearOverride"
    [] OTHER                       -> "end"

NextId(c) == messageId + 1

\* The command after the current one: the override is set before the try, so a set
\* that fails ends the call; the picture is followed by the clear of the finally.
NextCommand(c, ok) ==
  CASE at[c] = "setOverride" /\ ok -> "capture"
    [] at[c] = "capture"           -> "clearOverride"
    [] OTHER                       -> "end"

\* The promise of the current command settles, and the call goes on or ends.
\* Only a timeout of an evaluation is reported as an overrun of the cap, and an
\* evaluation that was refused is handed on as one whose closure returned nothing.
Continue(c, ok, timedOut) ==
  /\ fault' = IF ok THEN fault ELSE [fault EXCEPT ![c] = @ \cup {at[c]}]
  /\ IF NextCommand(c, ok) # "end"
     THEN /\ at' = [at EXCEPT ![c] = NextCommand(c, ok)]
          /\ Goto(c, "bound")
          /\ UNCHANGED outcome
     ELSE /\ End(c, IF timedOut /\ at[c] = "evaluate" THEN "capped"
                    ELSE IF fault'[c] # {} THEN "failed"
                    ELSE IF "evaluate" \in unheeded'[c] THEN "blank" ELSE "answered")
          /\ UNCHANGED at

Forgotten(entry, s) == [pendingCommands EXCEPT ![s] = @ \ {entry}]

EntryOf(c) == [id |-> cmd[c], call |-> c]

\* The captures that have begun to change the override of socket s.
CapturingOn(s) ==
  {d \in Captures : conn[d] = s /\ pc[d] \in {"bound", "waiting"}
                    /\ (pc[d] = "bound" => at[d] # "setOverride")}

\* A send on a socket that is closing or closed, or whose window is gone, is dropped
\* without an error; the entry waits all the same.
Send(c) ==
  LET s == conn[c]
      m == [socket |-> s, id |-> NextId(c), call |-> c, method |-> at[c],
            stage |-> "sent", refused |-> FALSE, shot |-> None]
  IN /\ pc[c] = "bound"
     /\ messageId' = messageId + 1
     /\ cmd' = [cmd EXCEPT ![c] = NextId(c)]
     /\ pendingCommands' = [pendingCommands EXCEPT ![s] = @ \cup {[id |-> NextId(c), call |-> c]}]
     /\ wire' = IF socket[s] = "open" /\ s \notin peerGone THEN wire \cup {m} ELSE wire
     /\ Goto(c, "waiting")
     /\ mixed' = IF at[c] = "setOverride" /\ CapturingOn(s) \ {c} # {}
                 THEN mixed \cup CapturingOn(s) \cup {c} ELSE mixed
     /\ UNCHANGED <<at, conn, fault, outcome, cache, socket, override, remote, ranIn, shot,
                    unheeded, cut, overlapped>>

\* ws.send throws: the command fails at once and leaves no entry.
SendThrows(c) ==
  /\ pc[c] = "bound"
  /\ messageId' = messageId + 1
  /\ Continue(c, FALSE, FALSE)
  /\ UNCHANGED <<conn, cmd, cache, socket, pendingCommands, wire, override, remote, history>>

\* The message listener of the socket: the answer settles the entry of its id, and
\* an answer nobody waits for is ignored.  An error resolves the command like a result:
\* a picture misses its data and throws, the other callers do not look.
Receive(m) ==
  /\ m \in wire /\ m.stage = "replied" /\ socket[m.socket] = "open"
  /\ wire' = wire \ {m}
  /\ \/ \E entry \in pendingCommands[m.socket] :
          /\ entry.id = m.id
          /\ pendingCommands' = Forgotten(entry, m.socket)
          /\ shot' = IF m.method = "capture" THEN [shot EXCEPT ![entry.call] = m.shot] ELSE shot
          /\ unheeded' = IF m.refused /\ m.method # "capture"
                         THEN [unheeded EXCEPT ![entry.call] = @ \cup {m.method}] ELSE unheeded
          /\ Continue(entry.call, ~(m.refused /\ m.method = "capture"), FALSE)
     \/ /\ \A entry \in pendingCommands[m.socket] : entry.id # m.id
        /\ UNCHANGED <<pc, at, fault, outcome, pendingCommands, shot, unheeded>>
  /\ UNCHANGED <<conn, cmd, cache, socket, messageId, override, remote, ranIn, mixed, cut,
                 overlapped>>

\* Mutants: the entry of a command that timed out is kept, and the timer is armed
\* by the answer of the socket that is open.
TimeoutKeepsEntry(c) ==
  /\ pc[c] = "waiting"
  /\ socket[conn[c]] = "open" => conn[c] \notin peerGone
  /\ Continue(c, FALSE, TRUE)
  /\ UNCHANGED <<conn, cmd, cache, socket, messageId, wire, override, remote, history,
                 pendingCommands>>

TimeoutWhileOpen(c) ==
  /\ pc[c] = "waiting" /\ socket[conn[c]] = "open" /\ conn[c] \notin peerGone
  /\ pendingCommands' = Forgotten(EntryOf(c), conn[c])
  /\ Continue(c, FALSE, TRUE)
  /\ UNCHANGED <<conn, cmd, cache, socket, messageId, wire, override, remote, history>>

\* The command timeout.  It is far longer than the close of a window takes to be
\* noticed, so it never fires between the two.
Timeout(c) ==
  /\ pc[c] = "waiting"
  /\ socket[conn[c]] = "open" => conn[c] \notin peerGone
  /\ pendingCommands' = Forgotten(EntryOf(c), conn[c])
  /\ Continue(c, FALSE, TRUE)
  /\ UNCHANGED <<conn, cmd, cache, socket, messageId, wire, override, remote, history>>

-----------------------------------------------------------------------------
(* Obsidian: its windows run what they are sent.                           *)

\* The closure of an evaluation starts to run.
StartClosure(m) ==
  /\ m \in wire /\ m.stage = "sent" /\ m.method = "evaluate"
  /\ wire' = (wire \ {m}) \cup {[m EXCEPT !.stage = "running"]}
  /\ ranIn' = [ranIn EXCEPT ![m.call] = VaultOf[m.socket]]
  /\ UNCHANGED <<caller, cache, socket, messageId, pendingCommands, override, remote, shot, mixed,
                 unheeded, cut, overlapped>>

\* It ends; without a session there is nobody to answer.
EndClosure(m) ==
  /\ m \in wire /\ m.stage = "running"
  /\ wire' = (wire \ {m}) \cup
              (IF socket[m.socket] = "open" THEN {[m EXCEPT !.stage = "replied"]} ELSE {})
  /\ UNCHANGED <<caller, cache, socket, messageId, pendingCommands, override, remote, history>>

\* The commands of a capture take effect on the session they came through.
Perform(m) ==
  LET s == m.socket IN
  /\ m \in wire /\ m.stage = "sent" /\ m.method # "evaluate"
  /\ IF socket[s] = "open"
     THEN /\ override' = CASE m.method = "setOverride"   -> [override EXCEPT ![s] = m.call]
                           [] m.method = "clearOverride" -> [override EXCEPT ![s] = None]
                           [] OTHER                      -> override
          /\ wire' = (wire \ {m}) \cup {[m EXCEPT !.stage = "replied", !.shot = override[s]]}
     ELSE /\ wire' = wire \ {m}
          /\ UNCHANGED override
  /\ UNCHANGED <<caller, cache, socket, messageId, pendingCommands, remote, history>>

\* A command is refused: it is answered by an error and has no effect.  The closure of
\* an evaluation may have run by then, its execution context being destroyed before it ends.
Refuse(m) ==
  /\ m \in wire /\ m.stage # "replied" /\ socket[m.socket] = "open"
  /\ upheavals < UpheavalLimit /\ upheavals' = upheavals + 1
  /\ wire' = (wire \ {m}) \cup {[m EXCEPT !.stage = "replied", !.refused = TRUE]}
  /\ UNCHANGED <<caller, cache, socket, messageId, pendingCommands, override, windowOpen, peerGone,
                 history>>

\* A window closes, or its renderer dies: what it was running is gone with it.
WindowCloses(v) ==
  /\ v \in windowOpen /\ upheavals < UpheavalLimit
  /\ windowOpen' = windowOpen \ {v}
  /\ upheavals' = upheavals + 1
  /\ peerGone' = peerGone \cup {s \in Calls : VaultOf[s] = v /\ socket[s] \in {"connecting", "open"}}
  /\ wire' = {m \in wire : VaultOf[m.socket] # v \/ m.stage = "replied"}
  /\ UNCHANGED <<caller, cache, socket, messageId, pendingCommands, override, history>>

WindowOpens(v) ==
  /\ v \notin windowOpen
  /\ windowOpen' = windowOpen \cup {v}
  /\ UNCHANGED <<caller, cache, socket, messageId, pendingCommands, wire, override, upheavals,
                 peerGone, history>>

\* The close of the window reaches the socket, behind the answers sent before it.
\* The cache keeps the socket; no listener settles the commands that wait on it.
SocketLost(s) ==
  /\ s \in peerGone /\ socket[s] = "open"
  /\ \A m \in wire : ~(m.socket = s /\ m.stage = "replied")
  /\ SocketCloses(s)
  /\ UNCHANGED <<caller, cache, messageId, pendingCommands, remote, ranIn, shot, mixed,
                 unheeded, overlapped>>

-----------------------------------------------------------------------------
(* The other callers of disconnect.                                        *)

\* dispose and disposeSync; a call that is reconnecting goes on regardless.
Dispose ==
  /\ upheavals < UpheavalLimit /\ upheavals' = upheavals + 1
  /\ disconnect
  /\ overlapped' = (overlapped \/ Reconnecting # {})
  /\ UNCHANGED <<caller, messageId, pendingCommands, windowOpen, peerGone, ranIn, shot, mixed,
                 unheeded>>

\* The tail of unregisterVault.
DropConnectionTo(v) ==
  /\ upheavals < UpheavalLimit /\ upheavals' = upheavals + 1
  /\ activeVaultPath = v
  /\ disconnect
  /\ UNCHANGED <<caller, messageId, pendingCommands, windowOpen, peerGone, ranIn, shot, mixed,
                 unheeded, overlapped>>

-----------------------------------------------------------------------------
CallStep(c) ==
  \/ findTargetForVault(c) \/ NoTarget(c) \/ Connected(c) \/ ConnectFails(c)
  \/ Send(c) \/ SendThrows(c) \/ Timeout(c)

Next ==
  \/ \E c \in Calls : Begin(c) \/ CallStep(c)
  \/ \E m \in wire : Receive(m) \/ StartClosure(m) \/ EndClosure(m) \/ Perform(m) \/ Refuse(m)
  \/ \E v \in Vaults : WindowCloses(v) \/ WindowOpens(v) \/ DropConnectionTo(v)
  \/ \E s \in Calls : SocketLost(s)
  \/ Dispose

Spec == Init /\ [][Next]_vars

\* Awaits settle, timers fire, and what arrives on a socket is read; a closure may run for
\* ever and a window may never answer.
Progress ==
  \/ \E c \in Calls : CallStep(c) \/ SocketLost(c)
  \/ \E m \in wire : Receive(m)

FairSpec == Spec /\ WF_vars(Progress)

-----------------------------------------------------------------------------
(* Properties.                                                             *)

\* The cached socket leads to the window of the vault it is labelled with: no order of
\* two reconnects leaves the label of one with the socket of the other
\* (ensureConnection, lines 1169-1174).
CacheIsLabelledRight == ws # None => VaultOf[ws] = activeVaultPath

\* An entry waits exactly as long as its call does: no entry outlives its command, and no
\* call waits that an answer or its timer could not settle (sendCommand and the listener).
EntriesAreOfWaitingCalls ==
  \A s \in Calls : pendingCommands[s] =
    {EntryOf(c) : c \in {d \in Calls : pc[d] = "waiting" /\ conn[d] = s}}

\* A call that is told its closure outran the cap had that closure delivered, unless its
\* socket was closed while it waited: the message blames the closure for nothing else.
CapMeansDelivered ==
  [][\A c \in Calls : outcome[c] # "capped" /\ outcome'[c] = "capped" =>
       c \in cut \/ ranIn[c] # None \/ \E m \in wire : m.call = c]_vars

\* What EvalCapExceededError says of itself: "Thrown when one `evalInObsidian` closure ran
\* longer than the transport's per-eval cap" (src/eval/eval-cap-exceeded-error.ts:63).
\* An evaluation of another vault that begins before the command of the first is sent
\* closes its socket: the command is dropped, and the overrun of a closure that was never
\* delivered is reported.
CapMeansOutrun ==
  [][\A c \in Calls : outcome[c] # "capped" /\ outcome'[c] = "capped" =>
       ranIn[c] # None \/ \E m \in wire : m.call = c]_vars

\* Every socket that is open is the cached one, is being used, or was left behind by
\* calls that reconnected at once: disconnect closes what the cache gives up.
NoSocketLeftBehind ==
  overlapped \/ \A s \in Calls : socket[s] = "open" => s = ws \/ UsersOf(s) # {}

\* The set or the clear of the override of c failed, or was refused and nobody looked.
OverrideFailed(c) == (fault[c] \cup unheeded[c]) \cap {"setOverride", "clearOverride"} # {}

\* A picture is taken under the override of its own call, unless another capture ran
\* on the socket before this one ended, or could not lift its own.
TakenUnderOwnOverride ==
  \A c \in Captures \ mixed : outcome[c] = "answered" /\ shot[c] # c =>
    \E d \in Captures : conn[d] = conn[c] /\ OverrideFailed(d)

\* The override is lifted once no capture is under way on the socket, whatever became of
\* the picture, unless the set or the clear itself failed or was refused.
OverrideIsLifted ==
  \A s \in Calls :
    (override[s] # None /\ \A c \in UsersOf(s) : c \notin Captures) =>
      \E c \in Captures : conn[c] = s /\ OverrideFailed(c)

\* No call waits for ever, although no listener settles the commands of a socket that
\* closed and a closure need not end: the timers of connect and of the command do.
EveryCallEnds == []<>(\A c \in Calls : pc[c] \in {"idle", "ended"})

-----------------------------------------------------------------------------
(* The evaluations keep the promise of RemoteCalls.                        *)

Evaluations == Calls \ Captures

callState == [c \in Evaluations |->
  CASE pc[c] = "idle"                      -> "idle"
    [] outcome[c] \in {"answered", "blank"} -> outcome[c]
    [] outcome[c] \in {"capped", "failed"}  -> "failed"
    [] OTHER                               -> "open"]

closureRan == [c \in Evaluations |-> ranIn[c]]

Promise == INSTANCE RemoteCalls WITH
  Calls <- Evaluations,
  Nowhere <- None,
  state <- callState,
  ranIn <- closureRan

\* A closure runs at most once and in the window of its own vault, and an answer is that
\* of the closure that asked: a late answer of a timed-out command reaches nobody.  Only
\* an answer with nothing in it may stand for a closure that never ran (a refused command).
KeepsThePromise == Promise!Spec

\* What the interleaved calls share stays theirs: the cached connection is of the vault it is
\* labelled with, entries and sockets belong to calls, and so does the override of a picture.
ChannelInv ==
  /\ TypeOK
  /\ CacheIsLabelledRight /\ EntriesAreOfWaitingCalls /\ NoSocketLeftBehind
  /\ TakenUnderOwnOverride /\ OverrideIsLifted
=============================================================================
