------------------------- MODULE Evaluation_proofs -------------------------
(***************************************************************************)
(* Proofs about evaluations: the cached connection that carries them on    *)
(* the desktop, for any number of calls, vaults, closing windows and       *)
(* disposals, and the page they run in, for any number of calls, hosts and *)
(* versions of the lib.                                                    *)
(***************************************************************************)
EXTENDS CdpTransport, PageNamespace, TLAPS, FiniteSetTheorems

-----------------------------------------------------------------------------
(* The invariant, in parts.                                                *)

Holds(c) == pc[c] \in {"bound", "waiting"}

\* Where a call stands tells what it has: a connection is got once and kept, a capture has
\* commands of its own, and a call that has not got a connection has failed nothing yet.
Places ==
  \A c \in Calls :
    /\ pc[c] \in {"idle", "finding", "connecting"} =>
         conn[c] = None /\ fault[c] = {} /\ unheeded[c] = {} /\ at[c] \in {"evaluate", "setOverride"}
    /\ Holds(c) => conn[c] # None
    /\ conn[c] # None => VaultOf[conn[c]] = VaultOf[c]
    /\ c \in Captures <=> at[c] # "evaluate"
    /\ outcome[c] = "none" <=> pc[c] # "ended"
    /\ outcome[c] = "answered" => fault[c] = {}
    /\ c \in Captures /\ pc[c] = "ended" /\ conn[c] # None =>
         at[c] = "clearOverride" \/ "setOverride" \in fault[c]
    /\ outcome[c] = "answered" => conn[c] # None
    /\ outcome[c] \in {"capped", "blank"} \/ "evaluate" \in unheeded[c] => c \notin Captures

\* A socket is named by the call that opens it, opens once and closes once; who holds one
\* that has closed is told.
Sockets ==
  /\ \A c \in Calls :
       /\ pc[c] \in {"idle", "finding"} => socket[c] = "none"
       /\ pc[c] = "connecting" => socket[c] = "connecting"
       /\ conn[c] # None => socket[conn[c]] \in {"open", "closed"}
       /\ Holds(c) => socket[conn[c]] = "open" \/ c \in cut
       /\ override[c] # None => socket[c] = "open"
  /\ ws # None => socket[ws] \in {"open", "closed"}
  /\ \A m \in wire : m.stage = "replied" => socket[m.socket] = "open"

\* Unless two calls reconnected at once, there is no open socket beside the cached one, and
\* none is cached while a call reconnects.
OneSocket ==
  overlapped \/ /\ \A s \in Calls : socket[s] = "open" => s = ws
                /\ \A c \in Reconnecting : ws = None /\ Reconnecting = {c}

\* Ids tell commands apart: what is on the wire under the id that a call waits for is the
\* command of that call, and a call has one command of a kind.
Wire ==
  /\ \A c \in Calls : cmd[c] <= messageId
  /\ \A m \in wire :
       /\ m.id \in 1..messageId
       /\ m.socket = conn[m.call]
       /\ m.method = "evaluate" <=> m.call \notin Captures
       /\ m.stage = "running" => m.method = "evaluate"
       /\ m.refused => m.stage = "replied"
       /\ pc[m.call] = "waiting" /\ m.method = at[m.call] => m.id = cmd[m.call]
       /\ m.method = "capture" => at[m.call] \in {"capture", "clearOverride"}
       /\ m.method = "clearOverride" => at[m.call] = "clearOverride"
       /\ pc[m.call] = "bound" => m.method # at[m.call]
       /\ \A c \in Calls : pc[c] = "waiting" /\ cmd[c] = m.id => m.call = c /\ m.method = at[c]
       /\ \A n \in wire : n.call = m.call /\ n.method = m.method => n = m

\* A closure has run when its command has left the stage in which it was sent, unless it was
\* refused; that of a call which has got nothing back is not on its way any more.
Closures ==
  /\ \A m \in wire : m.method = "evaluate" /\ ~m.refused =>
       ranIn[m.call] = IF m.stage = "sent" THEN None ELSE VaultOf[m.call]
  /\ \A m \in wire : outcome[m.call] # "blank"
  /\ \A c \in Calls :
       /\ ranIn[c] \in {None, VaultOf[c]}
       /\ c \in Captures \/ pc[c] \notin {"waiting", "ended"} => ranIn[c] = None
       /\ c \notin Captures /\ outcome[c] = "answered" => ranIn[c] = VaultOf[c]

\* The closure of an evaluation that waits has been delivered, unless its socket closed or
\* is about to.
Deliveries ==
  \A c \in Calls \ Captures : pc[c] = "waiting" =>
    \/ c \in cut \/ ranIn[c] # None
    \/ \E m \in wire : m.call = c
    \/ socket[conn[c]] = "open" /\ conn[c] \in peerGone

\* An override is that of a capture that is still to lift it, or has failed to; a set that
\* is still on its way is that of a capture that waits for it, or has given it up.
Overrides ==
  /\ \A s \in Calls : override[s] # None =>
       /\ override[s] \in Captures /\ conn[override[s]] = s
       /\ OverrideFailed(override[s]) \/ Holds(override[s])
  /\ \A m \in wire :
       /\ m.method \in {"setOverride", "clearOverride"} /\ m.stage = "sent" =>
            OverrideFailed(m.call) \/ (pc[m.call] = "waiting" /\ at[m.call] = m.method)
       /\ m.method = "clearOverride" /\ m.stage = "replied" /\ ~m.refused /\ override[m.socket] = m.call =>
            OverrideFailed(m.call)

\* No capture has failed to set or to lift its override on socket s.
Clean(s) == \A d \in Captures : conn[d] = s => ~OverrideFailed(d)

\* Of captures that overlap, each is known to be mixed; one that is not finds its own
\* override in force from the answer to its set on until it lifts it.
Pictures ==
  /\ \A s \in Calls : \A c, d \in CapturingOn(s) : c # d => c \in mixed
  /\ \A c \in Captures \ mixed :
       /\ Holds(c) /\ at[c] = "capture" /\ Clean(conn[c]) /\ socket[conn[c]] = "open" =>
            override[conn[c]] = c
       /\ conn[c] # None /\ at[c] = "clearOverride" /\ "capture" \notin fault[c] /\ Clean(conn[c]) =>
            shot[c] = c
       /\ \A m \in wire : m.call = c /\ m.stage = "replied" /\ ~m.refused /\ at[c] = m.method /\ Clean(conn[c]) =>
            /\ m.method = "setOverride" => override[conn[c]] = c
            /\ m.method = "capture" => m.shot = c

IInv ==
  /\ TypeOK /\ Places /\ Sockets /\ OneSocket /\ CacheIsLabelledRight
  /\ EntriesAreOfWaitingCalls /\ Wire /\ Closures /\ Deliveries /\ Overrides /\ Pictures

-----------------------------------------------------------------------------
(* What the steps that several actions share do.                           *)

\* The command of c settles, for better or worse.
Settles(c, ok) ==
  /\ pc' \in [Calls -> Location] /\ at' \in [Calls -> Method]
  /\ fault' \in [Calls -> SUBSET Method]
  /\ outcome' \in [Calls -> {"none", "answered", "blank", "capped", "failed"}]
  /\ \A d \in Calls : d # c =>
       pc'[d] = pc[d] /\ at'[d] = at[d] /\ fault'[d] = fault[d] /\ outcome'[d] = outcome[d]
  /\ fault'[c] = IF ok THEN fault[c] ELSE fault[c] \cup {at[c]}
  /\ \/ at[c] = "setOverride" /\ ok /\ pc'[c] = "bound" /\ at'[c] = "capture" /\ outcome'[c] = "none"
     \/ at[c] = "capture" /\ pc'[c] = "bound" /\ at'[c] = "clearOverride" /\ outcome'[c] = "none"
     \/ /\ at[c] \in {"evaluate", "clearOverride"} \/ (at[c] = "setOverride" /\ ~ok)
        /\ pc'[c] = "ended" /\ at'[c] = at[c] /\ outcome'[c] # "none"
        /\ outcome'[c] = "answered" => ok /\ fault[c] = {} /\ "evaluate" \notin unheeded'[c]
        /\ outcome'[c] = "blank" => ok /\ "evaluate" \in unheeded'[c]
        /\ outcome'[c] = "capped" => at[c] = "evaluate"

\* The answer or the failure of a command leads to the next one or ends the call.
LEMMA ContinueSettles ==
  ASSUME TypeOK, Places, NEW c \in Calls, NEW ok \in BOOLEAN, NEW timedOut \in BOOLEAN,
         Holds(c), Continue(c, ok, timedOut)
  PROVE  Settles(c, ok)
<1>1. /\ pc \in [Calls -> Location] /\ at \in [Calls -> Method] /\ fault \in [Calls -> SUBSET Method]
      /\ outcome \in [Calls -> {"none", "answered", "blank", "capped", "failed"}] /\ outcome[c] = "none"
      /\ at[c] \in Method
  BY DEF TypeOK, Places, Holds
<1>2. CASE NextCommand(c, ok) # "end"
  <2>1. /\ fault' = IF ok THEN fault ELSE [fault EXCEPT ![c] = @ \cup {at[c]}]
        /\ at' = [at EXCEPT ![c] = NextCommand(c, ok)]
        /\ pc' = [pc EXCEPT ![c] = "bound"] /\ outcome' = outcome
    BY <1>2 DEF Continue, Goto
  <2>2. \/ at[c] = "setOverride" /\ ok /\ NextCommand(c, ok) = "capture"
        \/ at[c] = "capture" /\ NextCommand(c, ok) = "clearOverride"
    BY <1>1, <1>2 DEF NextCommand
  <2> QED BY <1>1, <2>1, <2>2 DEF Settles, Location, Method
<1>3. CASE NextCommand(c, ok) = "end"
  <2>1. /\ fault' = IF ok THEN fault ELSE [fault EXCEPT ![c] = @ \cup {at[c]}]
        /\ at' = at /\ pc' = [pc EXCEPT ![c] = "ended"]
        /\ outcome' = [outcome EXCEPT ![c] = IF timedOut /\ at[c] = "evaluate" THEN "capped"
                                             ELSE IF fault'[c] # {} THEN "failed"
                                             ELSE IF "evaluate" \in unheeded'[c] THEN "blank" ELSE "answered"]
    BY <1>3 DEF Continue, Goto, End
  <2>2. at[c] \in {"evaluate", "clearOverride"} \/ (at[c] = "setOverride" /\ ~ok)
    BY <1>1, <1>3 DEF NextCommand, Method
  <2> QED BY <1>1, <2>1, <2>2 DEF Settles, Location, Method
<1> QED BY <1>2, <1>3
-----------------------------------------------------------------------------
(* Sockets close.                                                          *)

\* The sockets in S close, all else being as it was but for calls that begin to reconnect.
Closes(S) ==
  /\ socket' = [s \in Calls |-> IF s \in S THEN "closed" ELSE socket[s]]
  /\ wire' = {m \in wire : ~(m.socket \in S /\ m.stage = "replied")}
  /\ override' = [s \in Calls |-> IF s \in S THEN None ELSE override[s]]
  /\ cut' = cut \cup {c \in Calls : Holds(c) /\ conn[c] \in S}
  /\ UNCHANGED <<at, conn, cmd, fault, outcome, messageId, pendingCommands, peerGone, ranIn, shot, mixed, unheeded>>
  /\ pc' \in [Calls -> Location]
  /\ \A c \in Calls : pc'[c] = pc[c] \/ (pc[c] = "idle" /\ pc'[c] = "finding")
  /\ ws' \in {ws, None}

\* Sockets that close take their answers and overrides along, and those who hold them are told.
LEMMA ClosingKeeps ==
  ASSUME IInv, NEW S \in SUBSET Calls, \A s \in S : socket[s] = "open", Closes(S)
  PROVE  /\ Places' /\ Sockets' /\ EntriesAreOfWaitingCalls' /\ Wire' /\ Closures' /\ Deliveries'
         /\ Overrides' /\ Pictures'
<1>a. /\ \A c \in Calls : /\ Holds(c)' = Holds(c) /\ OverrideFailed(c)' = OverrideFailed(c)
                          /\ conn[c] # None => conn[c] \in Calls
                          /\ Holds(c) => conn[c] # None
      /\ wire' \subseteq wire
      /\ Captures \subseteq Calls /\ None \notin Calls /\ None \notin Captures
      /\ \A m \in wire : m.call \in Calls /\ m.socket \in Calls
  BY CdpAssumption DEF IInv, TypeOK, Places, Closes, Holds, OverrideFailed, Message
<1>b. \A s \in Calls : CapturingOn(s)' = CapturingOn(s) /\ Clean(s)' = Clean(s)
  BY <1>a DEF CapturingOn, Clean, Closes
<1>1. Places'
  BY <1>a DEF IInv, Places, Closes, Holds
<1>2. Sockets'
  BY <1>a DEF IInv, TypeOK, Sockets, Closes, Holds, Places
<1>3. EntriesAreOfWaitingCalls'
  BY <1>a DEF IInv, EntriesAreOfWaitingCalls, EntryOf, Closes
<1>4. Wire'
  BY <1>a DEF IInv, Wire, Closes
<1>5. Closures'
  BY <1>a DEF IInv, Closures, Closes
<1>6. Deliveries'
  <2> SUFFICES ASSUME NEW c \in Calls \ Captures, pc'[c] = "waiting", c \notin cut', ranIn[c] = None,
                      ~(socket'[conn[c]] = "open" /\ conn[c] \in peerGone)
               PROVE  \E o \in wire' : o.call = c
    BY DEF Deliveries, Closes
  <2>1. pc[c] = "waiting" /\ c \notin cut /\ conn[c] \in Calls \ S
    BY <1>a DEF Closes, Holds
  <2>2. PICK o \in wire : o.call = c
    BY <2>1 DEF IInv, Deliveries, Closes
  <2>3. o.socket = conn[c]
    BY <2>2 DEF IInv, Wire
  <2> QED BY <2>1, <2>2, <2>3 DEF Closes
<1>7. Overrides'
  BY <1>a DEF IInv, TypeOK, Overrides, Closes
<1>8. Pictures'
  BY <1>a, <1>b DEF IInv, TypeOK, Pictures, Wire, Closes
<1> QED BY <1>1, <1>2, <1>3, <1>4, <1>5, <1>6, <1>7, <1>8

\* disconnect closes the cached socket and no other.
LEMMA DisconnectCloses ==
  ASSUME IInv, disconnect, NEW S, S = {s \in Calls : s = ws /\ socket[s] = "open"},
         UNCHANGED <<at, conn, cmd, fault, outcome, messageId, pendingCommands, peerGone, ranIn, shot, mixed, unheeded>>,
         pc' \in [Calls -> Location],
         \A c \in Calls : pc'[c] = pc[c] \/ (pc[c] = "idle" /\ pc'[c] = "finding")
  PROVE  Closes(S) /\ ws' = None /\ activeVaultPath' = None
<1>1. CASE ws # None /\ socket[ws] = "open"
  <2>1. ws \in Calls /\ S = {ws}
    BY <1>1 DEF IInv, TypeOK
  <2> QED BY <1>1, <2>1 DEF IInv, TypeOK, disconnect, SocketCloses, WithoutReplies, UsersOf, Closes, Holds
<1>2. CASE ~(ws # None /\ socket[ws] = "open")
  <2>1. S = {} /\ UNCHANGED <<socket, wire, override, cut>>
    BY <1>2, CdpAssumption DEF disconnect
  <2> QED BY <2>1 DEF IInv, TypeOK, disconnect, Closes
<1> QED BY <1>1, <1>2

\* The close of a window reaches its socket.
LEMMA SocketLostKeeps ==
  ASSUME IInv, NEW s \in Calls, SocketLost(s)
  PROVE  IInv'
<1>1. Closes({s}) /\ \A t \in {s} : socket[t] = "open"
  BY DEF IInv, TypeOK, SocketLost, SocketCloses, WithoutReplies, UsersOf, Closes, Holds, caller, cache, remote
<1>2. TypeOK'
  BY DEF IInv, TypeOK, SocketLost, SocketCloses, WithoutReplies, UsersOf, caller, cache, remote
<1>3. OneSocket' /\ CacheIsLabelledRight'
  BY DEF IInv, TypeOK, OneSocket, CacheIsLabelledRight, Reconnecting, SocketLost, SocketCloses, caller, cache
<1> QED BY <1>1, <1>2, <1>3, ClosingKeeps DEF IInv

\* The disconnects of dispose, disposeSync and unregisterVault.
LEMMA DisconnectsKeep ==
  ASSUME IInv, Dispose \/ \E v \in Vaults : DropConnectionTo(v)
  PROVE  IInv'
<1> DEFINE S == {s \in Calls : s = ws /\ socket[s] = "open"}
<1>1. /\ disconnect /\ UNCHANGED <<caller, messageId, pendingCommands, windowOpen, peerGone, ranIn, shot, mixed, unheeded>>
      /\ upheavals < UpheavalLimit /\ upheavals' = upheavals + 1
      /\ overlapped' \in BOOLEAN /\ (overlapped => overlapped')
  BY DEF IInv, TypeOK, Dispose, DropConnectionTo
<1>2. Closes(S) /\ ws' = None /\ activeVaultPath' = None
  BY <1>1, DisconnectCloses DEF IInv, TypeOK, caller
<1>3. TypeOK'
  BY <1>1, <1>2, CdpAssumption DEF IInv, TypeOK, Closes, caller
<1>4. OneSocket' /\ CacheIsLabelledRight'
  BY <1>1, <1>2 DEF IInv, TypeOK, OneSocket, CacheIsLabelledRight, Reconnecting, Closes, caller
<1> QED BY <1>2, <1>3, <1>4, ClosingKeeps DEF IInv

\* A window closes: the commands it had not run are lost, and its sockets will be told.
LEMMA WindowClosesKeeps ==
  ASSUME IInv, NEW v \in Vaults, WindowCloses(v)
  PROVE  IInv'
<1>a. /\ wire' \subseteq wire /\ UNCHANGED <<caller, cache, socket, messageId, pendingCommands, override, history>>
      /\ \A m \in wire : m.stage = "replied" \/ VaultOf[m.socket] # v => m \in wire'
  BY DEF WindowCloses
<1>1. TypeOK'
  BY <1>a, CdpAssumption DEF IInv, TypeOK, WindowCloses, caller, cache, history
<1>2. Wire' /\ Closures'
  BY <1>a DEF IInv, TypeOK, Wire, Closures, caller, history
<1>3. Deliveries'
  <2> SUFFICES ASSUME NEW c \in Calls \ Captures, pc[c] = "waiting", c \notin cut, ranIn[c] = None,
                      ~(socket[conn[c]] = "open" /\ conn[c] \in peerGone')
               PROVE  \E o \in wire' : o.call = c
    BY <1>a DEF Deliveries, caller, history
  <2>1. conn[c] \in Calls /\ socket[conn[c]] = "open"
    BY DEF IInv, TypeOK, Places, Sockets, Holds
  <2>2. VaultOf[conn[c]] # v /\ conn[c] \notin peerGone
    BY <2>1 DEF WindowCloses
  <2>3. PICK o \in wire : o.call = c
    BY <2>2 DEF IInv, Deliveries
  <2> QED BY <1>a, <2>2, <2>3 DEF IInv, Wire
<1>4. Overrides' /\ Pictures'
  BY <1>a DEF IInv, Overrides, Pictures, OverrideFailed, Holds, CapturingOn, Clean, caller, history
<1>5. Places' /\ Sockets' /\ OneSocket' /\ CacheIsLabelledRight' /\ EntriesAreOfWaitingCalls'
  BY <1>a DEF IInv, Places, Sockets, OneSocket, CacheIsLabelledRight, EntriesAreOfWaitingCalls, Holds,
              Reconnecting, EntryOf, caller, cache, history
<1> QED BY <1>1, <1>2, <1>3, <1>4, <1>5 DEF IInv
-----------------------------------------------------------------------------
(* Calls connect.                                                          *)

\* A call begins: it takes the cached socket, or closes it and looks for its window.
LEMMA BeginKeeps ==
  ASSUME IInv, NEW c \in Calls, Begin(c)
  PROVE  IInv'
<1> DEFINE S == {s \in Calls : s = ws /\ socket[s] = "open"}
<1>a. /\ pc[c] = "idle" /\ UNCHANGED <<at, cmd, fault, outcome, messageId, pendingCommands, remote, ranIn, shot, mixed, unheeded>>
      /\ conn[c] = None /\ fault[c] = {} /\ at[c] \in {"evaluate", "setOverride"} /\ ranIn[c] = None
      /\ None \notin Calls /\ Captures \subseteq Calls
  BY CdpAssumption DEF IInv, Begin, Places, Closures
<1>1. CASE IsCachedFor(c)
  <2>a. /\ ws \in Calls /\ socket[ws] = "open" /\ VaultOf[ws] = VaultOf[c]
        /\ pc' = [pc EXCEPT ![c] = "bound"] /\ conn' = [conn EXCEPT ![c] = ws]
        /\ UNCHANGED <<cache, socket, wire, override, cut, overlapped>>
    BY <1>1 DEF IInv, TypeOK, CacheIsLabelledRight, IsCachedFor, Begin, Goto
  <2>b. /\ \A m \in wire : m.call # c /\ m.call \in Calls /\ m.socket \in Calls /\ m.socket = conn[m.call]
        /\ \A s \in Calls : override[s] # c
    BY <1>a, CdpAssumption DEF IInv, TypeOK, Wire, Places, Overrides, Message, Holds, OverrideFailed
  <2>1. TypeOK'
    BY <1>a, <2>a DEF IInv, TypeOK, Location, cache, remote
  <2>2. Places' /\ Sockets'
    BY <1>a, <2>a DEF IInv, TypeOK, Places, Sockets, Holds, cache
  <2>3. OneSocket' /\ CacheIsLabelledRight' /\ EntriesAreOfWaitingCalls'
    BY <1>a, <2>a DEF IInv, TypeOK, OneSocket, CacheIsLabelledRight, EntriesAreOfWaitingCalls, EntryOf, Reconnecting, cache
  <2>4. Wire' /\ Closures' /\ Deliveries'
    BY <1>a, <2>a, <2>b DEF IInv, TypeOK, Wire, Closures, Deliveries, cache, remote
  <2>5. Overrides'
    BY <1>a, <2>a, <2>b DEF IInv, TypeOK, Overrides, OverrideFailed, Holds
  <2>6. Pictures'
    <3>1. \A s \in Calls : CapturingOn(s)' = CapturingOn(s) /\ Clean(s)' = Clean(s)
      BY <1>a, <2>a DEF IInv, TypeOK, CapturingOn, Clean, OverrideFailed, Places
    <3>2. \A d \in Calls : d # c => Holds(d)' = Holds(d) /\ conn'[d] = conn[d]
      BY <1>a, <2>a DEF IInv, TypeOK, Holds
    <3>3. \A d \in Calls : conn[d] \in Calls \cup {None} /\ (Holds(d) => conn[d] # None)
      BY DEF IInv, TypeOK, Places
    <3> QED BY <1>a, <2>a, <2>b, <3>1, <3>2, <3>3 DEF IInv, Pictures
  <2> QED BY <2>1, <2>2, <2>3, <2>4, <2>5, <2>6 DEF IInv
<1>2. CASE ~IsCachedFor(c)
  <2>a. /\ disconnect /\ pc' = [pc EXCEPT ![c] = "finding"] /\ conn' = conn
        /\ overlapped' = (overlapped \/ Reconnecting # {})
    BY <1>2 DEF Begin, Goto
  <2>b. Closes(S) /\ ws' = None /\ activeVaultPath' = None
    BY <1>a, <2>a, DisconnectCloses DEF IInv, TypeOK, Location, remote
  <2>1. TypeOK'
    BY <1>a, <2>a, <2>b DEF IInv, TypeOK, Location, Closes, remote
  <2>2. OneSocket' /\ CacheIsLabelledRight'
    <3>1. Reconnecting' = Reconnecting \cup {c}
      BY <1>a, <2>a DEF IInv, TypeOK, Reconnecting
    <3> QED BY <2>a, <2>b, <3>1 DEF IInv, TypeOK, OneSocket, CacheIsLabelledRight, Closes
  <2> QED BY <2>b, <2>1, <2>2, ClosingKeeps DEF IInv
<1> QED BY <1>1, <1>2

\* A call that looks for its window opens a socket, or ends.
LEMMA ConnectingKeeps ==
  ASSUME IInv, NEW c \in Calls, findTargetForVault(c) \/ NoTarget(c) \/ ConnectFails(c)
  PROVE  IInv'
<1>a. /\ pc[c] \in {"finding", "connecting"} /\ pc' \in [Calls -> Location]
      /\ \A d \in Calls : d # c => pc'[d] = pc[d] /\ socket'[d] = socket[d] /\ outcome'[d] = outcome[d]
      /\ \/ pc'[c] = "connecting" /\ socket'[c] = "connecting" /\ outcome'[c] = "none"
         \/ pc'[c] = "ended" /\ socket'[c] \in {"none", "closed"} /\ outcome'[c] = "failed"
      /\ socket' \in [Calls -> {"none", "connecting", "open", "closed"}]
      /\ outcome' \in [Calls -> {"none", "answered", "blank", "capped", "failed"}]
      /\ UNCHANGED <<at, conn, cmd, fault, cache, messageId, pendingCommands, wire, override, remote, history>>
  <2>1. CASE findTargetForVault(c)
    BY <2>1 DEF IInv, TypeOK, Places, findTargetForVault, Goto, Location
  <2>2. CASE NoTarget(c) \/ ConnectFails(c)
    BY <2>2 DEF IInv, TypeOK, Places, Sockets, NoTarget, ConnectFails, Goto, End, Location
  <2> QED BY <2>1, <2>2
<1>b. /\ conn[c] = None /\ fault[c] = {} /\ outcome[c] = "none" /\ None \notin Calls /\ Captures \subseteq Calls
      /\ ranIn[c] = None /\ socket[c] \in {"none", "connecting"} /\ ws # c /\ override[c] = None
      /\ \A m \in wire : m.call # c /\ m.call \in Calls /\ m.socket \in Calls
      /\ \A d \in Calls : conn[d] # c /\ override[d] # c
  BY <1>a, CdpAssumption DEF IInv, TypeOK, Places, Closures, Sockets, Wire, Overrides, OverrideFailed, Message, Holds
<1>1. TypeOK' /\ Places'
  BY <1>a, <1>b DEF IInv, TypeOK, Places, Holds, cache, remote, history
<1>2. Sockets'
  <2>1. \A d \in Calls : Holds(d)' = Holds(d) /\ (conn[d] # None => conn[d] \in Calls /\ socket'[conn[d]] = socket[conn[d]])
    BY <1>a, <1>b DEF IInv, TypeOK, Holds
  <2>2. \A m \in wire : m.socket # c
    BY <1>b DEF IInv, Wire
  <2>3. \A d \in Calls : Holds(d) => conn[d] # None
    BY DEF IInv, Places
  <2>4. \A d \in Calls : pc[d] \in Location
    BY DEF IInv, TypeOK
  <2> QED BY <1>a, <1>b, <2>1, <2>2, <2>3, <2>4 DEF IInv, TypeOK, Sockets, Location, cache, history
<1>5. OneSocket' /\ CacheIsLabelledRight'
  BY <1>a, <1>b DEF IInv, TypeOK, OneSocket, CacheIsLabelledRight, Reconnecting, cache, history
<1>3. EntriesAreOfWaitingCalls' /\ Wire' /\ Closures' /\ Deliveries'
  BY <1>a, <1>b DEF IInv, TypeOK, EntriesAreOfWaitingCalls, EntryOf, Wire, Closures, Deliveries, remote, history
<1>4. Overrides'
  BY <1>a, <1>b DEF IInv, TypeOK, Overrides, OverrideFailed, Holds, history
<1>6. Pictures'
  <2>1. \A s \in Calls : CapturingOn(s)' = CapturingOn(s) /\ Clean(s)' = Clean(s)
    BY <1>a, <1>b DEF IInv, TypeOK, CapturingOn, Clean, OverrideFailed, Places, history
  <2>2. \A d \in Calls : /\ d # c => Holds(d)' = Holds(d) /\ conn'[d] = conn[d]
                        /\ conn[d] \in Calls \cup {None} /\ (Holds(d) => conn[d] # None)
    BY <1>a DEF IInv, TypeOK, Holds, Places
  <2> QED BY <1>a, <1>b, <2>1, <2>2 DEF IInv, TypeOK, Pictures, Wire, Places, Holds, history
<1> QED BY <1>1, <1>2, <1>3, <1>4, <1>5, <1>6 DEF IInv

\* The socket of a call opens and becomes the cached one.
LEMMA ConnectedKeeps ==
  ASSUME IInv, NEW c \in Calls, Connected(c)
  PROVE  IInv'
<1>a. /\ pc[c] = "connecting" /\ pc' = [pc EXCEPT ![c] = "bound"] /\ socket' = [socket EXCEPT ![c] = "open"]
      /\ ws' = c /\ activeVaultPath' = VaultOf[c] /\ conn' = [conn EXCEPT ![c] = c]
      /\ UNCHANGED <<at, cmd, fault, outcome, messageId, pendingCommands, wire, override, remote, history>>
  BY DEF Connected, Goto
<1>b. /\ conn[c] = None /\ fault[c] = {} /\ outcome[c] = "none" /\ None \notin Calls /\ Captures \subseteq Calls
      /\ ranIn[c] = None /\ socket[c] = "connecting" /\ ws # c /\ override[c] = None
      /\ at[c] \in {"evaluate", "setOverride"} /\ VaultOf[c] \in Vaults
      /\ \A m \in wire : m.call # c /\ m.call \in Calls /\ m.socket \in Calls
      /\ \A d \in Calls : conn[d] # c /\ override[d] # c
  BY <1>a, CdpAssumption DEF IInv, TypeOK, Places, Closures, Sockets, Wire, Overrides, OverrideFailed, Message, Holds, Vaults
<1>1. TypeOK' /\ Places'
  BY <1>a, <1>b DEF IInv, TypeOK, Places, Location, Holds, remote, history
<1>2. Sockets'
  BY <1>a, <1>b DEF IInv, TypeOK, Sockets, Places, Holds, history
<1>3. OneSocket' /\ CacheIsLabelledRight'
  BY <1>a, <1>b DEF IInv, TypeOK, OneSocket, CacheIsLabelledRight, Reconnecting, history
<1>4. EntriesAreOfWaitingCalls' /\ Wire' /\ Closures' /\ Deliveries'
  BY <1>a, <1>b DEF IInv, TypeOK, EntriesAreOfWaitingCalls, EntryOf, Wire, Closures, Deliveries, remote, history
<1>5. Overrides'
  BY <1>a, <1>b DEF IInv, TypeOK, Overrides, OverrideFailed, Holds, history
<1>6. Pictures'
  <2>1. \A s \in Calls : CapturingOn(s)' = CapturingOn(s) /\ Clean(s)' = Clean(s)
    BY <1>a, <1>b DEF IInv, TypeOK, CapturingOn, Clean, OverrideFailed, Places, history
  <2>2. \A d \in Calls : /\ d # c => Holds(d)' = Holds(d) /\ conn'[d] = conn[d]
                        /\ conn[d] \in Calls \cup {None} /\ (Holds(d) => conn[d] # None)
    BY <1>a DEF IInv, TypeOK, Holds, Places
  <2> QED BY <1>a, <1>b, <2>1, <2>2 DEF IInv, TypeOK, Pictures, Wire, Places, Holds, history
<1> QED BY <1>1, <1>2, <1>3, <1>4, <1>5, <1>6 DEF IInv
-----------------------------------------------------------------------------
(* Commands.                                                               *)

\* A command is sent under an id of its own, or dropped by a socket that has closed.
LEMMA SendKeeps ==
  ASSUME IInv, NEW c \in Calls, Send(c)
  PROVE  IInv'
<1> DEFINE s == conn[c]
           id == messageId + 1
           m == [socket |-> s, id |-> id, call |-> c, method |-> at[c], stage |-> "sent", refused |-> FALSE, shot |-> None]
<1>a. /\ pc[c] = "bound" /\ s \in Calls /\ id \in Nat /\ id > messageId /\ id \in 1..id /\ Captures \subseteq Calls
      /\ Holds(c) /\ (c \in Captures <=> at[c] # "evaluate") /\ (c \in Captures \/ ranIn[c] = None)
      /\ ranIn[c] = None
  BY CdpAssumption DEF IInv, TypeOK, Send, Places, Holds, Closures
<1>b. /\ m \in Message /\ m.socket = s /\ m.id = id /\ m.call = c /\ m.method = at[c] /\ m.stage = "sent" /\ ~m.refused
      /\ m \notin wire
  BY <1>a, CdpAssumption DEF IInv, TypeOK, Message, Wire
<1>c. /\ messageId' = id /\ cmd' = [cmd EXCEPT ![c] = id] /\ pc' = [pc EXCEPT ![c] = "waiting"]
      /\ pendingCommands' = [pendingCommands EXCEPT ![s] = @ \cup {[id |-> id, call |-> c]}]
      /\ \/ wire' = wire \cup {m}
         \/ wire' = wire /\ ~(socket[s] = "open" /\ s \notin peerGone)
      /\ mixed' = IF at[c] = "setOverride" /\ CapturingOn(s) \ {c} # {}
                  THEN mixed \cup CapturingOn(s) \cup {c} ELSE mixed
      /\ UNCHANGED <<at, conn, fault, outcome, cache, socket, override, remote, ranIn, shot, unheeded, cut, overlapped>>
  BY DEF Send, Goto, NextId
<1> HIDE DEF m, s, id
<1>1. TypeOK'
  <2>1. mixed' \subseteq Captures
    BY <1>a, <1>c DEF IInv, TypeOK, CapturingOn
  <2>2. [id |-> id, call |-> c] \in [id : Nat, call : Calls]
    BY <1>a
  <2>3. pendingCommands' \in [Calls -> SUBSET [id : Nat, call : Calls]]
    BY <1>a, <1>c, <2>2 DEF IInv, TypeOK
  <2>4. wire' \subseteq Message
    BY <1>b, <1>c DEF IInv, TypeOK
  <2> QED BY <1>a, <1>c, <2>1, <2>3, <2>4 DEF IInv, TypeOK, Location, cache, remote
<1>2. Places'
  BY <1>a, <1>c DEF IInv, TypeOK, Places, Holds
<1>3. Sockets'
  BY <1>a, <1>b, <1>c DEF IInv, TypeOK, Sockets, Holds, cache
<1>4. OneSocket' /\ CacheIsLabelledRight'
  BY <1>a, <1>c DEF IInv, TypeOK, OneSocket, CacheIsLabelledRight, Reconnecting, cache
<1>5. EntriesAreOfWaitingCalls'
  BY <1>a, <1>c DEF IInv, TypeOK, EntriesAreOfWaitingCalls, EntryOf, s
<1>6. Wire'
  BY <1>a, <1>b, <1>c DEF IInv, TypeOK, Wire, s
<1>7. Closures'
  BY <1>a, <1>b, <1>c DEF IInv, TypeOK, Closures, Places
<1>8. Deliveries'
  <2> SUFFICES ASSUME NEW e \in Calls \ Captures, pc'[e] = "waiting", e \notin cut, ranIn[e] = None,
                      ~(socket[conn[e]] = "open" /\ conn[e] \in peerGone)
               PROVE  \E o \in wire' : o.call = e
    BY <1>c DEF Deliveries, remote
  <2>1. CASE e = c
    <3>1. socket[s] = "open"
      BY <1>a, <2>1 DEF IInv, Sockets, s
    <3> QED BY <1>b, <1>c, <2>1, <3>1 DEF s
  <2>2. CASE e # c
    BY <1>c, <2>2 DEF IInv, TypeOK, Deliveries
  <2> QED BY <2>1, <2>2
<1>9. Overrides'
  BY <1>a, <1>b, <1>c DEF IInv, TypeOK, Overrides, OverrideFailed, Holds
<1>10. Pictures'
  <2>1. \A r \in Calls : /\ Clean(r)' = Clean(r)
                         /\ CapturingOn(r)' = IF r = s /\ at[c] # "evaluate" THEN CapturingOn(r) \cup {c} ELSE CapturingOn(r)
    BY <1>a, <1>c DEF IInv, TypeOK, Clean, OverrideFailed, CapturingOn, s
  <2>2. \A d \in Calls : Holds(d)' = Holds(d) /\ conn[d] \in Calls \cup {None} /\ (Holds(d) => conn[d] # None)
    BY <1>a, <1>c DEF IInv, TypeOK, Holds, Places
  <2>3. ASSUME NEW r \in Calls, NEW d \in CapturingOn(r)', NEW e \in CapturingOn(r)', d # e
        PROVE  d \in mixed'
    <3>1. CASE d \in CapturingOn(r) /\ e \in CapturingOn(r)
      BY <1>c, <2>3, <3>1 DEF IInv, Pictures
    <3>2. CASE ~(d \in CapturingOn(r) /\ e \in CapturingOn(r))
      <4>1. r = s /\ c \notin CapturingOn(s) /\ at[c] = "setOverride"
        BY <1>a, <1>c, <2>1, <2>3, <3>2 DEF IInv, TypeOK, Method, CapturingOn, s
      <4> QED BY <1>c, <2>1, <2>3, <4>1
    <3> QED BY <3>1, <3>2
  <2>4. mixed \subseteq mixed' /\ \A o \in wire' : o.stage = "replied" => o \in wire
    BY <1>b, <1>c
  <2>5. \A o \in wire : o.call \in Calls /\ conn[o.call] = o.socket /\ o.socket \in Calls
    BY DEF IInv, TypeOK, Wire, Message
  <2> QED BY <1>a, <1>c, <2>1, <2>2, <2>3, <2>4, <2>5 DEF IInv, Pictures
<1> QED BY <1>1, <1>2, <1>3, <1>4, <1>5, <1>6, <1>7, <1>8, <1>9, <1>10 DEF IInv

\* The answer that settles the command of c, or else nothing but the end of the wait.
SettledBy(c, ok) ==
  /\ \/ \E m \in wire :
          /\ m.call = c /\ m.method = at[c] /\ m.stage = "replied" /\ pc[c] = "waiting"
          /\ wire' = wire \ {m}
          /\ shot' = IF at[c] = "capture" THEN [shot EXCEPT ![c] = m.shot] ELSE shot
          /\ ok <=> ~(m.refused /\ at[c] = "capture")
          /\ unheeded' = IF m.refused /\ at[c] # "capture"
                         THEN [unheeded EXCEPT ![c] = @ \cup {at[c]}] ELSE unheeded
     \/ ~ok /\ UNCHANGED <<wire, shot, unheeded>>
  /\ pendingCommands' = [pendingCommands EXCEPT ![conn[c]] = @ \ {EntryOf(c)}]
  /\ messageId' \in {messageId, messageId + 1}
  /\ UNCHANGED <<conn, cmd, cache, socket, override, remote, ranIn, mixed, cut, overlapped>>

\* The command of a call settles: what it leaves on the wire answers nobody.
LEMMA SettlingKeeps ==
  ASSUME IInv, NEW c \in Calls, NEW ok \in BOOLEAN, Holds(c), Settles(c, ok), SettledBy(c, ok)
  PROVE  IInv'
<1>a. /\ conn[c] \in Calls /\ None \notin Calls /\ Captures \subseteq Calls /\ conn[c] # None
      /\ \A m \in wire : m.call \in Calls /\ m.socket = conn[m.call] /\ m.socket \in Calls /\ m \in Message
      /\ at[c] \in Method /\ fault[c] \subseteq Method /\ (c \in Captures <=> at[c] # "evaluate")
  BY CdpAssumption DEF IInv, TypeOK, Places, Wire, Message, Holds
<1>b. /\ wire' \subseteq wire
      /\ \A d \in Calls : d # c => shot'[d] = shot[d] /\ Holds(d)' = Holds(d) /\ OverrideFailed(d)' = OverrideFailed(d)
      /\ \A d \in Calls : OverrideFailed(d) => OverrideFailed(d)'
      /\ \A d \in Calls : Holds(d)' => Holds(d)
      /\ \A m \in wire : m \notin wire' => m.call = c
  BY <1>a DEF IInv, TypeOK, SettledBy, Settles, Holds, OverrideFailed
<1>1. TypeOK'
  BY <1>a DEF IInv, TypeOK, SettledBy, Settles, Message, cache, remote
<1>2. Places'
  <2>1. \A d \in Calls : d # c => unheeded'[d] = unheeded[d]
    BY <1>a DEF IInv, TypeOK, SettledBy
  <2>2. "evaluate" \in unheeded'[c] => c \notin Captures
    BY <1>a DEF IInv, TypeOK, Places, SettledBy
  <2> QED BY <1>a, <1>b, <2>1, <2>2 DEF IInv, Places, Settles, SettledBy, Holds
<1>3. Sockets'
  BY <1>a, <1>b DEF IInv, TypeOK, Sockets, Settles, SettledBy, Holds, cache
<1>4. OneSocket' /\ CacheIsLabelledRight'
  <2>1. Reconnecting' = Reconnecting
    BY DEF Reconnecting, Settles, Holds
  <2> QED BY <2>1 DEF IInv, OneSocket, CacheIsLabelledRight, SettledBy, cache
<1>5. EntriesAreOfWaitingCalls'
  BY <1>a DEF IInv, TypeOK, EntriesAreOfWaitingCalls, EntryOf, Settles, SettledBy
<1>6. Wire'
  BY <1>a, <1>b DEF IInv, TypeOK, Wire, Settles, SettledBy
<1>7. Closures'
  <2>1. \A m \in wire : m.method = "evaluate" <=> at[m.call] = "evaluate"
    BY <1>a DEF IInv, Wire, Places
  <2>3. c \notin Captures /\ outcome'[c] = "answered" => ranIn[c] = VaultOf[c]
    <3> SUFFICES ASSUME c \notin Captures, outcome'[c] = "answered" PROVE ranIn[c] = VaultOf[c]
      OBVIOUS
    <3>1. ok /\ "evaluate" \notin unheeded'[c]
      BY DEF Settles
    <3>2. PICK m \in wire : /\ m.call = c /\ m.method = at[c] /\ m.stage = "replied"
                            /\ unheeded' = IF m.refused /\ at[c] # "capture"
                                           THEN [unheeded EXCEPT ![c] = @ \cup {at[c]}] ELSE unheeded
      BY <3>1, Zenon DEF SettledBy
    <3>3. at[c] = "evaluate" /\ unheeded \in [Calls -> SUBSET Method]
      BY <1>a, <3>1 DEF IInv, TypeOK
    <3>4. ~m.refused
      BY <3>1, <3>2, <3>3
    <3> QED BY <3>2, <3>3, <3>4 DEF IInv, Closures
  <2>4. \A m \in wire' : m.call = c => outcome'[c] # "blank"
    <3> SUFFICES ASSUME NEW m \in wire', m.call = c, outcome'[c] = "blank" PROVE FALSE
      OBVIOUS
    <3>1. ok /\ c \notin Captures
      BY <1>2 DEF Settles, Places
    <3>2. PICK n \in wire : n.call = c /\ n.method = at[c] /\ wire' = wire \ {n}
      BY <3>1, Zenon DEF SettledBy
    <3>3. m \in wire /\ m.method = "evaluate" /\ n.method = "evaluate"
      BY <1>a, <1>b, <2>1, <3>1, <3>2
    <3> QED BY <3>2, <3>3 DEF IInv, Wire
  <2> QED BY <1>a, <1>b, <2>3, <2>4 DEF IInv, Closures, Settles, SettledBy, Holds, Places
<1>8. Deliveries'
  <2> SUFFICES ASSUME NEW e \in Calls \ Captures, pc'[e] = "waiting", e \notin cut, ranIn[e] = None,
                      ~(socket[conn[e]] = "open" /\ conn[e] \in peerGone)
               PROVE  \E o \in wire' : o.call = e
    BY DEF Deliveries, SettledBy, remote
  <2>1. e # c /\ pc[e] = "waiting"
    BY DEF Settles
  <2>2. PICK o \in wire : o.call = e
    BY <2>1 DEF IInv, Deliveries
  <2> QED BY <1>b, <2>1, <2>2
<1>9. Overrides'
  <2>1. at[c] \in {"setOverride", "clearOverride"} /\ ~ok => OverrideFailed(c)'
    BY <1>a DEF Settles, OverrideFailed, IInv, TypeOK
  <2>2. ASSUME NEW s \in Calls, NEW e, e = override[s], e # None
        PROVE  e \in Captures /\ conn[e] = s /\ (OverrideFailed(e)' \/ Holds(e)')
    <3>1. e \in Captures /\ conn[e] = s /\ (OverrideFailed(e) \/ Holds(e))
      BY <2>2 DEF IInv, Overrides
    <3>2. CASE e = c /\ pc'[c] = "ended" /\ ok
      <4>1. at[c] = "clearOverride" /\ conn[c] = s
        BY <1>a, <3>1, <3>2 DEF Settles
      <4>2. PICK m \in wire : /\ m.call = c /\ m.method = "clearOverride" /\ m.stage = "replied"
                              /\ m.refused => "clearOverride" \in unheeded'[c]
        BY <3>2, <4>1 DEF SettledBy, IInv, TypeOK
      <4>3. OverrideFailed(c)'
        BY <1>a, <1>b, <2>2, <3>2, <4>1, <4>2 DEF IInv, Overrides, OverrideFailed
      <4> QED BY <3>1, <3>2, <4>3
    <3>3. CASE ~(e = c /\ pc'[c] = "ended" /\ ok)
      <4>1. e = c => Holds(c)' \/ OverrideFailed(c)'
        BY <1>a, <2>1, <3>1, <3>3 DEF Settles, Holds
      <4> QED BY <1>a, <1>b, <3>1, <4>1
    <3> QED BY <3>2, <3>3
  <2>3. ASSUME NEW m \in wire', m.method \in {"setOverride", "clearOverride"}, m.stage = "sent"
        PROVE  OverrideFailed(m.call)' \/ (pc'[m.call] = "waiting" /\ at'[m.call] = m.method)
    <3>1. m \in wire /\ (OverrideFailed(m.call) \/ (pc[m.call] = "waiting" /\ at[m.call] = m.method))
      BY <1>b, <2>3 DEF IInv, Overrides
    <3>2. CASE m.call = c /\ at[c] = m.method
      <4>1. ~ok
        BY <2>3, <3>1, <3>2 DEF IInv, Wire, SettledBy
      <4> QED BY <2>1, <2>3, <3>2, <4>1
    <3> QED BY <1>a, <1>b, <3>1, <3>2 DEF Settles
  <2>4. \A m \in wire' : m.method = "clearOverride" /\ m.stage = "replied" /\ ~m.refused /\ override[m.socket] = m.call =>
          OverrideFailed(m.call)'
    BY <1>a, <1>b DEF IInv, Overrides
  <2> QED
    <3>1. override' = override /\ conn' = conn
      BY DEF SettledBy
    <3> QED BY <2>2, <2>3, <2>4, <3>1 DEF Overrides
<1>10. Pictures'
  <2>1. \A r \in Calls : CapturingOn(r)' \subseteq CapturingOn(r) /\ (Clean(r)' => Clean(r))
    BY <1>a, <1>b DEF IInv, CapturingOn, Clean, Settles, SettledBy, Holds
  <2>2. \A r \in Calls : \A d, e \in CapturingOn(r)' : d # e => d \in mixed'
    BY <2>1 DEF IInv, Pictures, SettledBy
  <2>3. \A d \in Calls : conn[d] \in Calls \cup {None} /\ (Holds(d) => conn[d] # None)
    BY DEF IInv, TypeOK, Places
  <2>4. ASSUME NEW d \in Captures \ mixed, Holds(d)', at'[d] = "capture", Clean(conn[d])', socket[conn[d]] = "open"
        PROVE  override[conn[d]] = d
    <3>1. CASE d = c /\ at[c] = "setOverride"
      <4>1. ok /\ ~OverrideFailed(c)'
        BY <2>4, <3>1 DEF Settles, Clean, SettledBy
      <4>2. PICK m \in wire : /\ m.call = c /\ m.method = "setOverride" /\ m.stage = "replied"
                              /\ m.refused => "setOverride" \in unheeded'[c]
        BY <3>1, <4>1 DEF SettledBy, IInv, TypeOK
      <4>3. ~m.refused
        BY <4>1, <4>2 DEF OverrideFailed
      <4> QED BY <1>a, <2>1, <2>4, <3>1, <4>2, <4>3 DEF IInv, Pictures, SettledBy
    <3>2. CASE ~(d = c /\ at[c] = "setOverride")
      BY <1>a, <1>b, <2>1, <2>3, <2>4, <3>2 DEF IInv, Pictures, Settles, SettledBy
    <3> QED BY <3>1, <3>2
  <2>5. ASSUME NEW d \in Captures \ mixed, conn[d] # None, at'[d] = "clearOverride", "capture" \notin fault'[d], Clean(conn[d])'
        PROVE  shot'[d] = d
    BY <1>a, <1>b, <2>1, <2>3, <2>5 DEF IInv, TypeOK, Pictures, Settles, SettledBy
  <2>6. ASSUME NEW d \in Captures \ mixed, NEW o \in wire', o.call = d, o.stage = "replied", ~o.refused, at'[d] = o.method, Clean(conn[d])'
        PROVE  /\ o.method = "setOverride" => override[conn[d]] = d
               /\ o.method = "capture" => o.shot = d
    BY <1>a, <1>b, <2>1, <2>3, <2>6 DEF IInv, Pictures, Settles, SettledBy, Wire
  <2> QED BY <2>2, <2>4, <2>5, <2>6 DEF Pictures, SettledBy, Clean
<1> QED BY <1>1, <1>2, <1>3, <1>4, <1>5, <1>6, <1>7, <1>8, <1>9, <1>10 DEF IInv

\* An answer settles the command of its id, or is ignored.
LEMMA ReceiveKeeps ==
  ASSUME IInv, NEW m \in wire, Receive(m)
  PROVE  IInv'
<1>a. /\ m \in Message /\ m.stage = "replied" /\ m.socket = conn[m.call] /\ m.call \in Calls /\ wire' = wire \ {m}
      /\ UNCHANGED <<conn, cmd, cache, socket, messageId, override, remote, ranIn, mixed, cut, overlapped>>
  BY DEF IInv, TypeOK, Message, Wire, Receive
<1>1. CASE \E entry \in pendingCommands[m.socket] :
             /\ entry.id = m.id
             /\ pendingCommands' = Forgotten(entry, m.socket)
             /\ shot' = IF m.method = "capture" THEN [shot EXCEPT ![entry.call] = m.shot] ELSE shot
             /\ unheeded' = IF m.refused /\ m.method # "capture"
                            THEN [unheeded EXCEPT ![entry.call] = @ \cup {m.method}] ELSE unheeded
             /\ Continue(entry.call, ~(m.refused /\ m.method = "capture"), FALSE)
  <2>1. PICK entry \in pendingCommands[m.socket] :
             /\ entry.id = m.id
             /\ pendingCommands' = Forgotten(entry, m.socket)
             /\ shot' = IF m.method = "capture" THEN [shot EXCEPT ![entry.call] = m.shot] ELSE shot
             /\ unheeded' = IF m.refused /\ m.method # "capture"
                            THEN [unheeded EXCEPT ![entry.call] = @ \cup {m.method}] ELSE unheeded
             /\ Continue(entry.call, ~(m.refused /\ m.method = "capture"), FALSE)
    BY <1>1
  <2>2. PICK c \in Calls : entry = EntryOf(c) /\ pc[c] = "waiting" /\ conn[c] = m.socket
    BY <1>a DEF IInv, EntriesAreOfWaitingCalls, Message
  <2>3. m.call = c /\ at[c] = m.method
    BY <2>1, <2>2 DEF EntryOf, IInv, Wire
  <2> DEFINE ok == ~(m.refused /\ m.method = "capture")
  <2>4. ok \in BOOLEAN /\ Settles(c, ok)
    BY <2>1, <2>2, ContinueSettles DEF IInv, EntryOf, Holds
  <2>5. SettledBy(c, ok)
    BY <1>a, <2>1, <2>2, <2>3 DEF SettledBy, Forgotten, EntryOf
  <2> QED BY <2>2, <2>4, <2>5, SettlingKeeps DEF Holds
<1>2. CASE /\ UNCHANGED <<pc, at, fault, outcome, pendingCommands, shot, unheeded>>
           /\ \A entry \in pendingCommands[m.socket] : entry.id # m.id
  <2>1. TypeOK' /\ Places' /\ OneSocket' /\ CacheIsLabelledRight' /\ EntriesAreOfWaitingCalls'
    BY <1>a, <1>2 DEF IInv, TypeOK, Places, OneSocket, CacheIsLabelledRight, EntriesAreOfWaitingCalls, EntryOf,
                      Reconnecting, Holds, cache, remote
  <2>2. Sockets' /\ Wire' /\ Closures'
    BY <1>a, <1>2 DEF IInv, Sockets, Wire, Closures, Holds, cache
  <2>3. Deliveries'
    <3> SUFFICES ASSUME NEW e \in Calls \ Captures, pc[e] = "waiting", e \notin cut, ranIn[e] = None,
                        ~(socket[conn[e]] = "open" /\ conn[e] \in peerGone)
                 PROVE  \E o \in wire' : o.call = e
      BY <1>a, <1>2 DEF Deliveries, remote
    <3>1. PICK o \in wire : o.call = e
      BY DEF IInv, Deliveries
    <3>2. o # m
      <4>1. EntryOf(e) \in pendingCommands[conn[e]] /\ conn[e] \in Calls
        BY DEF IInv, EntriesAreOfWaitingCalls, Places, Holds, TypeOK
      <4>2. m.call = e => m.id = cmd[e] /\ m.socket = conn[e]
        BY <1>a DEF IInv, Wire, Places, TypeOK
      <4> QED BY <1>2, <3>1, <4>1, <4>2 DEF EntryOf
    <3> QED BY <1>a, <3>1, <3>2
  <2>4. Overrides' /\ Pictures'
    BY <1>a, <1>2 DEF IInv, Overrides, Pictures, OverrideFailed, Holds, CapturingOn, Clean
  <2> QED BY <2>1, <2>2, <2>3, <2>4 DEF IInv
<1> QED BY <1>1, <1>2 DEF Receive

\* A send that throws and a timeout settle a command as failed.
LEMMA FailuresKeep ==
  ASSUME IInv, NEW c \in Calls, SendThrows(c) \/ Timeout(c)
  PROVE  IInv'
<1>1. Holds(c) /\ conn[c] \in Calls
  <2>1. Holds(c)
    BY DEF SendThrows, Timeout, Holds
  <2> QED BY <2>1 DEF IInv, TypeOK, Places
<1>2. Settles(c, FALSE)
  BY <1>1, ContinueSettles DEF IInv, SendThrows, Timeout
<1>3. pendingCommands' = [pendingCommands EXCEPT ![conn[c]] = @ \ {EntryOf(c)}]
  <2>1. CASE SendThrows(c)
    <3>1. EntryOf(c) \notin pendingCommands[conn[c]]
      BY <1>1, <2>1 DEF IInv, EntriesAreOfWaitingCalls, EntryOf, SendThrows
    <3> QED BY <1>1, <2>1, <3>1 DEF IInv, TypeOK, SendThrows
  <2>2. CASE Timeout(c)
    BY <2>2 DEF Timeout, Forgotten
  <2> QED BY <2>1, <2>2
<1>4. SettledBy(c, FALSE)
  BY <1>3 DEF SettledBy, SendThrows, Timeout, history
<1> QED BY <1>1, <1>2, <1>4, SettlingKeeps
-----------------------------------------------------------------------------
(* Obsidian.                                                               *)

\* A closure starts in the window its socket leads to.
LEMMA StartClosureKeeps ==
  ASSUME IInv, NEW m \in wire, StartClosure(m)
  PROVE  IInv'
<1> DEFINE n == [m EXCEPT !.stage = "running"]
<1>a. /\ n \in Message /\ n.stage = "running" /\ m.method = "evaluate" /\ m.stage = "sent" /\ m \in Message
      /\ n.socket = m.socket /\ n.id = m.id /\ n.call = m.call /\ n.method = m.method /\ n.refused = m.refused
      /\ wire' = (wire \ {m}) \cup {n} /\ ranIn' = [ranIn EXCEPT ![m.call] = VaultOf[m.socket]]
      /\ UNCHANGED <<caller, cache, socket, messageId, pendingCommands, override, remote, shot, mixed, unheeded, cut, overlapped>>
  BY DEF IInv, TypeOK, Message, StartClosure
<1>b. /\ m.call \in Calls \ Captures /\ m.socket = conn[m.call] /\ m.socket \in Calls
      /\ at[m.call] = "evaluate" /\ conn[m.call] # None
  BY <1>a, CdpAssumption DEF IInv, Wire, Places, Message
<1>c. /\ VaultOf[m.socket] = VaultOf[m.call]
      /\ pc[m.call] \in {"waiting", "ended"}
  BY <1>a, <1>b DEF IInv, Wire, Places, TypeOK, Location
<1>d. VaultOf[m.call] \in Vaults /\ VaultOf[m.call] # None
  BY <1>b, CdpAssumption DEF Vaults
<1> HIDE DEF n
<1>1. TypeOK'
  BY <1>a, <1>b, <1>c, <1>d DEF IInv, TypeOK, caller, cache, remote
<1>2. Closures'
  <2>1. \A o \in wire : o.method = "evaluate" /\ o.call = m.call => o = m
    BY <1>a DEF IInv, Wire
  <2>2. ranIn' = [ranIn EXCEPT ![m.call] = VaultOf[m.call]] /\ ranIn \in [Calls -> Vaults \cup {None}]
    BY <1>a, <1>c DEF IInv, TypeOK
  <2>3. \A o \in wire' : o.method = "evaluate" /\ ~o.refused =>
          ranIn'[o.call] = IF o.stage = "sent" THEN None ELSE VaultOf[o.call]
    <3> SUFFICES ASSUME NEW o \in wire', o.method = "evaluate", ~o.refused
                 PROVE  ranIn'[o.call] = IF o.stage = "sent" THEN None ELSE VaultOf[o.call]
      OBVIOUS
    <3>1. CASE o = n
      BY <1>a, <1>b, <2>2, <3>1
    <3>2. CASE o # n
      <4>1. o \in wire /\ o # m /\ o.call # m.call /\ o.call \in Calls
        BY <1>a, <2>1, <3>2 DEF IInv, TypeOK, Message
      <4> QED BY <2>2, <4>1 DEF IInv, Closures
    <3> QED BY <3>1, <3>2
  <2> QED BY <1>a, <1>b, <1>c, <2>2, <2>3 DEF IInv, Closures, caller
<1>3. Wire' /\ Sockets' /\ Deliveries'
  BY <1>a, <1>b, <1>d, CdpAssumption DEF IInv, TypeOK, Wire, Sockets, Deliveries, Closures, Holds, caller, cache, remote
<1>4. Overrides' /\ Pictures'
  BY <1>a DEF IInv, Overrides, Pictures, OverrideFailed, Holds, CapturingOn, Clean, caller
<1>5. Places' /\ OneSocket' /\ CacheIsLabelledRight' /\ EntriesAreOfWaitingCalls'
  BY <1>a DEF IInv, Places, OneSocket, CacheIsLabelledRight, EntriesAreOfWaitingCalls, Holds, Reconnecting,
              EntryOf, caller, cache
<1> QED BY <1>1, <1>2, <1>3, <1>4, <1>5 DEF IInv

\* A closure ends, and is answered if its session lives.
LEMMA EndClosureKeeps ==
  ASSUME IInv, NEW m \in wire, EndClosure(m)
  PROVE  IInv'
<1> DEFINE n == [m EXCEPT !.stage = "replied"]
<1>a. /\ n \in Message /\ n.stage = "replied" /\ m.stage = "running" /\ m \in Message
      /\ n.socket = m.socket /\ n.id = m.id /\ n.call = m.call /\ n.method = m.method /\ n.refused = m.refused
      /\ n.method = "evaluate" /\ ranIn[m.call] # None
      /\ \/ wire' = (wire \ {m}) \cup {n} /\ socket[m.socket] = "open"
         \/ wire' = wire \ {m}
      /\ UNCHANGED <<caller, cache, socket, messageId, pendingCommands, override, remote, history>>
  BY CdpAssumption DEF IInv, TypeOK, Message, EndClosure, Wire, Closures, Vaults
<1> HIDE DEF n
<1>1. TypeOK' /\ Sockets'
  BY <1>a DEF IInv, TypeOK, Sockets, Holds, caller, cache, remote, history
<1>2. Wire'
  BY <1>a DEF IInv, TypeOK, Wire, caller
<1>3. Closures'
  BY <1>a DEF IInv, Closures, caller, history
<1>6. Deliveries'
  <2> SUFFICES ASSUME NEW c \in Calls \ Captures, pc[c] = "waiting", c \notin cut, ranIn[c] = None,
                      ~(socket[conn[c]] = "open" /\ conn[c] \in peerGone)
               PROVE  \E o \in wire' : o.call = c
    BY <1>a DEF Deliveries, caller, remote, history
  <2>1. PICK o \in wire : o.call = c
    BY DEF IInv, Deliveries
  <2> QED BY <1>a, <2>1
<1>4. Overrides' /\ Pictures'
  BY <1>a DEF IInv, Overrides, Pictures, OverrideFailed, Holds, CapturingOn, Clean, caller, history
<1>5. Places' /\ OneSocket' /\ CacheIsLabelledRight' /\ EntriesAreOfWaitingCalls'
  BY <1>a DEF IInv, Places, OneSocket, CacheIsLabelledRight, EntriesAreOfWaitingCalls, Holds, Reconnecting,
              EntryOf, caller, cache, history
<1> QED BY <1>1, <1>2, <1>3, <1>4, <1>5, <1>6 DEF IInv

\* A command of a capture takes effect on the session of its socket.
LEMMA PerformKeeps ==
  ASSUME IInv, NEW m \in wire, Perform(m)
  PROVE  IInv'
<1> DEFINE n == [m EXCEPT !.stage = "replied", !.shot = override[m.socket]]
           c == m.call
           s == m.socket
<1>a. /\ n \in Message /\ n.stage = "replied" /\ m.stage = "sent" /\ m \in Message
      /\ n.socket = s /\ n.id = m.id /\ n.call = c /\ n.method = m.method /\ n.refused = m.refused
      /\ n.shot = override[s] /\ m.call = c /\ m.socket = s
  BY DEF IInv, TypeOK, Message, Perform
<1>b. /\ m.method \in {"setOverride", "capture", "clearOverride"} /\ c \in Captures
      /\ s = conn[c] /\ s \in Calls /\ c \in Calls
  BY <1>a DEF IInv, Perform, Wire, Message, Method
<1>c. UNCHANGED <<caller, cache, socket, messageId, pendingCommands, remote, history>>
  BY DEF Perform
<1>d. \/ /\ wire' = (wire \ {m}) \cup {n} /\ socket[s] = "open"
         /\ m.method = "setOverride" => override' = [override EXCEPT ![s] = c]
         /\ m.method = "clearOverride" => override' = [override EXCEPT ![s] = None]
         /\ m.method = "capture" => override' = override
      \/ wire' = wire \ {m} /\ override' = override
  BY <1>b DEF Perform
<1>e. s # None /\ c # None /\ Captures \subseteq Calls
  BY <1>b, CdpAssumption
<1>f. /\ m.method # "capture" => OverrideFailed(c) \/ (pc[c] = "waiting" /\ at[c] = m.method)
      /\ \A o \in wire : o.call \in Captures /\ at[o.call] = o.method /\ o.method # "clearOverride" =>
           (pc[o.call] = "waiting" /\ Holds(o.call)) \/ OverrideFailed(o.call)
  <2>1. m.method # "capture" => OverrideFailed(c) \/ (pc[c] = "waiting" /\ at[c] = m.method)
    BY <1>a, <1>b DEF IInv, Overrides
  <2>2. ASSUME NEW o \in wire, o.call \in Captures, at[o.call] = o.method, o.method # "clearOverride", pc[o.call] # "waiting"
        PROVE  OverrideFailed(o.call)
    <3>1. o.call \in Calls /\ conn[o.call] # None /\ pc[o.call] # "bound"
      BY <1>e, <2>2, CdpAssumption DEF IInv, Wire, TypeOK, Message
    <3>2. pc[o.call] = "ended"
      BY <2>2, <3>1 DEF IInv, Places, TypeOK, Location
    <3> QED BY <2>2, <3>1, <3>2 DEF IInv, Places, OverrideFailed
  <2> QED BY <2>1, <2>2 DEF Holds
<1> HIDE DEF n, c, s
<1>g. /\ override \in [Calls -> Calls \cup {None}]
      /\ \A o \in wire' : o = n \/ (o \in wire /\ o # m)
      /\ n \notin wire
  BY <1>a, <1>d DEF IInv, TypeOK, Wire
<1>1. TypeOK'
  BY <1>a, <1>b, <1>c, <1>d DEF IInv, TypeOK, caller, cache, remote, history
<1>2. Wire'
  <2>1. wire' = (wire \ {m}) \cup {n} \/ wire' = wire \ {m}
    BY <1>d
  <2> QED BY <1>a, <1>c, <2>1 DEF IInv, TypeOK, Wire, caller
<1>3. Sockets'
  BY <1>a, <1>b, <1>c, <1>d DEF IInv, TypeOK, Sockets, Holds, caller, cache, history
<1>4. Closures'
  BY <1>a, <1>b, <1>c, <1>d DEF IInv, Closures, caller, history
<1>5. Deliveries'
  <2> SUFFICES ASSUME NEW e \in Calls \ Captures, pc[e] = "waiting", e \notin cut, ranIn[e] = None,
                      ~(socket[conn[e]] = "open" /\ conn[e] \in peerGone)
               PROVE  \E o \in wire' : o.call = e
    BY <1>c DEF Deliveries, caller, remote, history
  <2>1. PICK o \in wire : o.call = e
    BY DEF IInv, Deliveries
  <2> QED BY <1>a, <1>b, <1>d, <2>1
<1>6. Overrides'
  <2>1. ASSUME NEW r \in Calls, override'[r] # None
        PROVE  /\ override'[r] \in Captures /\ conn[override'[r]] = r
               /\ OverrideFailed(override'[r]) \/ Holds(override'[r])
    BY <1>b, <1>d, <1>f, <1>g, <2>1 DEF IInv, Overrides, Holds
  <2>2. ASSUME NEW o \in wire', o.method \in {"setOverride", "clearOverride"}, o.stage = "sent"
        PROVE  OverrideFailed(o.call) \/ (pc[o.call] = "waiting" /\ at[o.call] = o.method)
    BY <1>a, <1>g, <2>2 DEF IInv, Overrides
  <2>3. ASSUME NEW o \in wire', o.method = "clearOverride", o.stage = "replied", ~o.refused, override'[o.socket] = o.call
        PROVE  OverrideFailed(o.call)
    <3>1. o.call \in Calls /\ o.call # None /\ o.socket \in Calls
      BY <1>a, <1>b, <1>e, <1>g, CdpAssumption DEF IInv, TypeOK, Message
    <3>2. CASE o = n
      BY <1>a, <1>b, <1>d, <1>e, <1>g, <2>3, <3>2
    <3>3. CASE o \in wire
      BY <1>b, <1>d, <1>e, <1>f, <1>g, <2>3, <3>1, <3>3 DEF IInv, Overrides, Wire
    <3> QED BY <1>g, <3>2, <3>3
  <2> QED BY <1>c, <2>1, <2>2, <2>3 DEF Overrides, OverrideFailed, Holds, caller, history
<1>7. Pictures'
  <2>1. /\ CapturingOn(s)' = CapturingOn(s) /\ Captures \ mixed' = Captures \ mixed
        /\ \A r \in Calls : CapturingOn(r)' = CapturingOn(r) /\ Clean(r)' = Clean(r)
    BY <1>b, <1>c DEF CapturingOn, Clean, OverrideFailed, caller, history
  \* No other capture changes the override of one that overlaps with none.
  <2>2. ASSUME NEW d \in Captures \ mixed, Clean(conn[d]), d \in CapturingOn(s), override[s] = d,
               m.method # "capture" => m.method # at[d] \/ c # d
        PROVE  override'[s] = d
    <3>1. conn[d] = s
      BY <2>2 DEF CapturingOn
    <3>2. CASE m.method = "capture"
      BY <1>d, <2>2, <3>2
    <3>3. CASE m.method # "capture"
      <4>1. ~OverrideFailed(c)
        BY <1>b, <2>2, <3>1 DEF Clean
      <4>2. pc[c] = "waiting" /\ at[c] = m.method
        BY <1>f, <3>3, <4>1
      <4>3. c \in CapturingOn(s)
        BY <1>b, <4>2 DEF CapturingOn
      <4> QED BY <1>b, <2>2, <3>3, <4>2, <4>3 DEF IInv, Pictures
    <3> QED BY <3>2, <3>3
  <2>3. ASSUME NEW d \in Captures \ mixed, Holds(d), at[d] = "capture", Clean(conn[d]), socket[conn[d]] = "open"
        PROVE  override'[conn[d]] = d
    <3>1. override[conn[d]] = d /\ conn[d] \in Calls
      BY <1>e, <2>3 DEF IInv, Pictures, Places, TypeOK
    <3>2. CASE conn[d] = s
      <4>1. d \in CapturingOn(s)
        BY <2>3, <3>2 DEF CapturingOn, Holds
      <4>2. m.method = "capture" \/ m.method # at[d]
        BY <2>3
      <4> QED BY <2>2, <2>3, <3>1, <3>2, <4>1, <4>2
    <3> QED BY <1>b, <1>d, <1>g, <3>1, <3>2
  <2>4. ASSUME NEW d \in Captures \ mixed, NEW o \in wire', o.call = d, o.stage = "replied", ~o.refused, at[d] = o.method,
               Clean(conn[d]), o.method = "setOverride"
        PROVE  override'[conn[d]] = d
    <3>1. CASE o = n
      BY <1>a, <1>b, <1>d, <1>e, <1>g, <2>4, <3>1
    <3>2. CASE o \in wire /\ o # m
      <4>1. override[conn[d]] = d /\ conn[d] \in Calls /\ ~OverrideFailed(d)
        BY <1>e, <2>4, <3>2 DEF IInv, Pictures, Clean, TypeOK, Message, Wire
      <4>2. pc[d] = "waiting"
        BY <1>f, <2>4, <3>2, <4>1
      <4>3. CASE conn[d] = s
        <5>1. d \in CapturingOn(s)
          BY <4>2, <4>3 DEF CapturingOn
        <5>2. c = d => m.method # o.method
          BY <1>a, <1>b, <2>4, <3>2 DEF IInv, Wire
        <5> QED BY <2>2, <2>4, <4>1, <4>3, <5>1, <5>2
      <4> QED BY <1>b, <1>d, <1>g, <4>1, <4>3
    <3> QED BY <1>g, <3>1, <3>2
  <2>5. ASSUME NEW d \in Captures \ mixed, NEW o \in wire', o.call = d, o.stage = "replied", ~o.refused, at[d] = o.method,
               Clean(conn[d]), o.method = "capture"
        PROVE  o.shot = d
    <3>1. CASE o = n
      <4>1. c = d /\ m.method = "capture" /\ socket[s] = "open" /\ ~OverrideFailed(d)
        BY <1>a, <1>b, <1>d, <1>g, <2>5, <3>1 DEF Clean, IInv, TypeOK
      <4>2. Holds(d)
        BY <1>a, <1>b, <1>f, <2>5, <3>1, <4>1
      <4> QED BY <1>a, <1>b, <2>5, <3>1, <4>1, <4>2 DEF IInv, Pictures
    <3>2. CASE o \in wire
      BY <2>5, <3>2 DEF IInv, Pictures
    <3> QED BY <1>g, <3>1, <3>2
  <2>6. shot' = shot /\ conn' = conn /\ at' = at /\ fault' = fault /\ socket' = socket /\ mixed' = mixed /\ pc' = pc
    BY <1>c DEF caller, history
  <2> QED
    <3>1. \A r \in Calls : \A d, e \in CapturingOn(r)' : d # e => d \in mixed'
      BY <2>1, <2>6 DEF IInv, Pictures
    <3>2. \A d \in Captures \ mixed : conn[d] # None => conn[d] \in Calls
      BY <1>e DEF IInv, TypeOK
    <3>3. \A d \in Captures : Holds(d) => conn[d] # None
      BY <1>e DEF IInv, Places
    <3>4. \A d \in Captures, o \in wire' : o.call = d => conn[d] # None
      BY <1>a, <1>b, <1>e, <1>g, CdpAssumption DEF IInv, Wire, TypeOK, Message
    <3> QED BY <2>1, <2>3, <2>4, <2>5, <2>6, <3>1, <3>2, <3>3, <3>4 DEF IInv, Pictures, Holds
<1>8. Places' /\ OneSocket' /\ CacheIsLabelledRight' /\ EntriesAreOfWaitingCalls'
  BY <1>c DEF IInv, Places, OneSocket, CacheIsLabelledRight, EntriesAreOfWaitingCalls, Holds, Reconnecting,
              EntryOf, caller, cache, history
<1> QED BY <1>1, <1>2, <1>3, <1>4, <1>5, <1>6, <1>7, <1>8 DEF IInv

\* A command is refused: all that changes is its answer.
LEMMA RefuseKeeps ==
  ASSUME IInv, NEW m \in wire, Refuse(m)
  PROVE  IInv'
<1> DEFINE n == [m EXCEPT !.stage = "replied", !.refused = TRUE]
<1>a. /\ n \in Message /\ n.stage = "replied" /\ n.refused = TRUE /\ m.stage # "replied" /\ m \in Message
      /\ n.socket = m.socket /\ n.id = m.id /\ n.call = m.call /\ n.method = m.method
      /\ wire' = (wire \ {m}) \cup {n} /\ socket[m.socket] = "open"
      /\ upheavals < UpheavalLimit /\ upheavals' = upheavals + 1
      /\ UNCHANGED <<caller, cache, socket, messageId, pendingCommands, override, windowOpen, peerGone, history>>
  <2>1. m \in Message
    BY DEF IInv, TypeOK
  <2> QED BY <2>1 DEF Message, Refuse
<1> HIDE DEF n
<1>1. TypeOK' /\ Sockets'
  BY <1>a, CdpAssumption DEF IInv, TypeOK, Sockets, Holds, caller, cache, history
<1>2. Wire'
  BY <1>a DEF IInv, TypeOK, Wire, caller
<1>3. Closures'
  BY <1>a DEF IInv, Closures, caller, history
<1>4. Deliveries'
  <2> SUFFICES ASSUME NEW c \in Calls \ Captures, pc[c] = "waiting", c \notin cut, ranIn[c] = None,
                      ~(socket[conn[c]] = "open" /\ conn[c] \in peerGone)
               PROVE  \E o \in wire' : o.call = c
    BY <1>a DEF Deliveries, caller, history
  <2>1. PICK o \in wire : o.call = c
    BY DEF IInv, Deliveries
  <2> QED BY <1>a, <2>1
<1>5. Overrides' /\ Pictures'
  BY <1>a DEF IInv, Overrides, Pictures, OverrideFailed, Holds, CapturingOn, Clean, caller, history
<1>6. Places' /\ OneSocket' /\ CacheIsLabelledRight' /\ EntriesAreOfWaitingCalls'
  BY <1>a DEF IInv, Places, OneSocket, CacheIsLabelledRight, EntriesAreOfWaitingCalls, Holds, Reconnecting,
              EntryOf, caller, cache, history
<1> QED BY <1>1, <1>2, <1>3, <1>4, <1>5, <1>6 DEF IInv

\* A window opens.
LEMMA WindowOpensKeeps ==
  ASSUME IInv, NEW v \in Vaults, WindowOpens(v)
  PROVE  IInv'
<1>1. TypeOK'
  BY DEF IInv, TypeOK, WindowOpens, caller, cache, history
<1>2. /\ UNCHANGED <<caller, cache, socket, messageId, pendingCommands, wire, override, peerGone, history>>
  BY DEF WindowOpens
<1>3. Places' /\ Sockets' /\ OneSocket' /\ CacheIsLabelledRight' /\ EntriesAreOfWaitingCalls'
  BY <1>2 DEF IInv, Places, Sockets, OneSocket, CacheIsLabelledRight, EntriesAreOfWaitingCalls, Holds,
              Reconnecting, EntryOf, caller, cache, history
<1>4. Wire' /\ Closures' /\ Deliveries' /\ Overrides' /\ Pictures'
  BY <1>2 DEF IInv, Wire, Closures, Deliveries, Overrides, Pictures, OverrideFailed, Holds, CapturingOn, Clean,
              caller, history
<1> QED BY <1>1, <1>3, <1>4 DEF IInv

-----------------------------------------------------------------------------
(* The theorems.                                                           *)

\* The invariant holds when the worker starts.
LEMMA InitIInv == Init => IInv
<1> SUFFICES ASSUME Init PROVE IInv
  OBVIOUS
<1>1. TypeOK
  <2>1. /\ pc \in [Calls -> Location] /\ at \in [Calls -> Method]
        /\ conn \in [Calls -> Calls \cup {None}] /\ cmd \in [Calls -> Nat]
        /\ fault \in [Calls -> SUBSET Method]
        /\ outcome \in [Calls -> {"none", "answered", "blank", "capped", "failed"}]
    BY DEF Init, Location, Method
  <2>2. /\ ws \in Calls \cup {None} /\ activeVaultPath \in Vaults \cup {None}
        /\ socket \in [Calls -> {"none", "connecting", "open", "closed"}] /\ peerGone \subseteq Calls
        /\ messageId \in Nat /\ wire \subseteq Message
        /\ override \in [Calls -> Calls \cup {None}]
    BY DEF Init
  <2>3. pendingCommands \in [Calls -> SUBSET [id : Nat, call : Calls]]
    BY DEF Init
  <2>4. /\ windowOpen \subseteq Vaults /\ mixed \subseteq Captures /\ cut \subseteq Calls
        /\ overlapped \in BOOLEAN
    BY DEF Init
  <2>5. upheavals \in 0..UpheavalLimit
    BY CdpAssumption DEF Init
  <2>6. /\ ranIn \in [Calls -> Vaults \cup {None}] /\ shot \in [Calls -> Calls \cup {None}]
        /\ unheeded \in [Calls -> SUBSET Method]
    BY DEF Init
  <2> QED BY <2>1, <2>2, <2>3, <2>4, <2>5, <2>6 DEF TypeOK
<1>2. Places /\ Sockets /\ OneSocket /\ CacheIsLabelledRight /\ EntriesAreOfWaitingCalls
  BY CdpAssumption DEF Init, Places, Sockets, OneSocket, CacheIsLabelledRight, EntriesAreOfWaitingCalls, Holds, Reconnecting
<1>3. Wire /\ Closures /\ Deliveries /\ Overrides /\ Pictures
  BY CdpAssumption DEF Init, Wire, Closures, Deliveries, Overrides, Pictures, Holds, CapturingOn
<1> QED BY <1>1, <1>2, <1>3 DEF IInv

\* Every step of every actor keeps it.
LEMMA NextIInv == IInv /\ [Next]_vars => IInv'
<1> SUFFICES ASSUME IInv, [Next]_vars PROVE IInv'
  OBVIOUS
<1>1. ASSUME NEW c \in Calls, Begin(c) PROVE IInv'
  BY <1>1, BeginKeeps
<1>2. ASSUME NEW c \in Calls, CallStep(c) PROVE IInv'
  BY <1>2, ConnectingKeeps, ConnectedKeeps, SendKeeps, FailuresKeep DEF CallStep
<1>3. ASSUME NEW m \in wire, Receive(m) \/ StartClosure(m) \/ EndClosure(m) \/ Perform(m) \/ Refuse(m)
      PROVE  IInv'
  BY <1>3, ReceiveKeeps, StartClosureKeeps, EndClosureKeeps, PerformKeeps, RefuseKeeps
<1>4. ASSUME NEW v \in Vaults, WindowCloses(v) \/ WindowOpens(v) \/ DropConnectionTo(v) PROVE IInv'
  BY <1>4, WindowClosesKeeps, WindowOpensKeeps, DisconnectsKeep
<1>5. ASSUME NEW s \in Calls, SocketLost(s) PROVE IInv'
  BY <1>5, SocketLostKeeps
<1>6. CASE Dispose
  BY <1>6, DisconnectsKeep
<1>7. CASE UNCHANGED vars
  <2>1. TypeOK' /\ Places' /\ Sockets' /\ OneSocket' /\ CacheIsLabelledRight' /\ EntriesAreOfWaitingCalls'
    BY <1>7 DEF IInv, TypeOK, Places, Sockets, OneSocket, CacheIsLabelledRight, EntriesAreOfWaitingCalls, Holds,
                Reconnecting, EntryOf, vars, caller, cache, remote, history
  <2>2. Wire' /\ Closures' /\ Deliveries' /\ Overrides' /\ Pictures'
    BY <1>7 DEF IInv, Wire, Closures, Deliveries, Overrides, Pictures, OverrideFailed, Holds, CapturingOn, Clean,
                vars, caller, cache, remote, history
  <2> QED BY <2>1, <2>2 DEF IInv
<1> QED BY <1>1, <1>2, <1>3, <1>4, <1>5, <1>6, <1>7 DEF Next

\* It holds in every reachable state.
LEMMA Inductive == Spec => []IInv
<1> QED BY InitIInv, NextIInv, PTL DEF Spec

\* The variables have their types, whatever closes, times out or is disposed of.
THEOREM TypeCorrect == Spec => []TypeOK
<1>1. IInv => TypeOK
  BY DEF IInv
<1> QED BY <1>1, Inductive, PTL

\* The cached connection is of the vault it is labelled with, entries and sockets belong to
\* calls, and an override to the capture that set it, for any number of calls at once.
THEOREM ChannelIsTheirs == Spec => []ChannelInv
<1>1. IInv => ChannelInv
  <2> SUFFICES ASSUME IInv PROVE ChannelInv
    OBVIOUS
  <2>1. NoSocketLeftBehind
    BY DEF IInv, OneSocket, NoSocketLeftBehind
  <2>2. TakenUnderOwnOverride
    <3> SUFFICES ASSUME NEW c \in Captures \ mixed, outcome[c] = "answered",
                        \A d \in Captures : conn[d] = conn[c] => ~OverrideFailed(d)
                 PROVE  shot[c] = c
      BY DEF TakenUnderOwnOverride
    <3>1. c \in Calls /\ conn[c] # None /\ fault[c] = {} /\ at[c] = "clearOverride"
      BY CdpAssumption DEF IInv, Places
    <3> QED BY <3>1 DEF IInv, Pictures, Clean
  <2>3. OverrideIsLifted
    <3> SUFFICES ASSUME NEW s \in Calls, override[s] # None, \A c \in UsersOf(s) : c \notin Captures
                 PROVE  \E c \in Captures : conn[c] = s /\ OverrideFailed(c)
      BY DEF OverrideIsLifted
    <3>1. /\ override[s] \in Captures /\ conn[override[s]] = s
          /\ OverrideFailed(override[s]) \/ Holds(override[s])
      BY DEF IInv, Overrides
    <3>2. ~Holds(override[s])
      BY <3>1, CdpAssumption DEF UsersOf, Holds
    <3> QED BY <3>1, <3>2
  <2> QED BY <2>1, <2>2, <2>3 DEF IInv, ChannelInv
<1> QED BY <1>1, Inductive, PTL

\* Without a timeout nothing is reported as an overrun.
LEMMA OnlyTimeoutsCap ==
  ASSUME TypeOK, NEW c \in Calls, NEW ok \in BOOLEAN, Continue(c, ok, FALSE), NEW d \in Calls, outcome'[d] = "capped"
  PROVE  outcome[d] = "capped"
<1>1. CASE NextCommand(c, ok) # "end"
  BY <1>1 DEF Continue
<1>2. CASE NextCommand(c, ok) = "end"
  <2>1. outcome' = [outcome EXCEPT ![c] = IF fault'[c] # {} THEN "failed"
                                          ELSE IF "evaluate" \in unheeded'[c] THEN "blank" ELSE "answered"]
    BY <1>2 DEF Continue, End
  <2> QED BY <2>1 DEF TypeOK
<1> QED BY <1>1, <1>2

\* An overrun of the cap is charged to a closure that was delivered, or whose socket has
\* closed, in whatever order windows, sockets, answers and timers come.
THEOREM CapsAreDelivered == Spec => CapMeansDelivered
<1>1. IInv /\ [Next]_vars =>
        \A c \in Calls : outcome[c] # "capped" /\ outcome'[c] = "capped" =>
          c \in cut \/ ranIn[c] # None \/ \E m \in wire : m.call = c
  <2> SUFFICES ASSUME IInv, [Next]_vars, NEW d \in Calls, outcome[d] # "capped", outcome'[d] = "capped"
               PROVE  d \in cut \/ ranIn[d] # None \/ \E m \in wire : m.call = d
    OBVIOUS
  <2>1. ASSUME NEW c \in Calls, Timeout(c)
        PROVE  d \in cut \/ ranIn[d] # None \/ \E m \in wire : m.call = d
    <3>1. Settles(c, FALSE)
      BY <2>1, ContinueSettles DEF IInv, Timeout, Holds
    <3>2. d = c /\ at[c] = "evaluate" /\ c \notin Captures
      BY <3>1 DEF Settles, IInv, Places
    <3> QED BY <2>1, <3>2 DEF IInv, Deliveries, Timeout
  <2>2. ASSUME NEW c \in Calls, SendThrows(c) PROVE FALSE
    BY <2>2, OnlyTimeoutsCap DEF IInv, SendThrows
  <2>3. ASSUME NEW c \in Calls, Begin(c) \/ findTargetForVault(c) \/ Connected(c) \/ Send(c) PROVE FALSE
    BY <2>3 DEF Begin, findTargetForVault, Connected, Send
  <2>4. ASSUME NEW c \in Calls, NoTarget(c) \/ ConnectFails(c) PROVE FALSE
    BY <2>4 DEF NoTarget, ConnectFails, End, IInv, TypeOK
  <2>5. ASSUME NEW m \in wire, Receive(m) PROVE FALSE
    <3>1. CASE outcome' = outcome
      BY <3>1
    <3>2. CASE \E entry \in pendingCommands[m.socket] :
                 Continue(entry.call, ~(m.refused /\ m.method = "capture"), FALSE)
      <4>1. PICK entry \in pendingCommands[m.socket] :
              Continue(entry.call, ~(m.refused /\ m.method = "capture"), FALSE)
        BY <3>2
      <4>2. entry.call \in Calls
        BY DEF IInv, TypeOK, Message
      <4> QED BY <4>1, <4>2, OnlyTimeoutsCap DEF IInv
    <3> QED BY <2>5, <3>1, <3>2 DEF Receive
  <2>6. ASSUME NEW m \in wire, StartClosure(m) \/ EndClosure(m) \/ Perform(m) \/ Refuse(m) PROVE FALSE
    BY <2>6 DEF StartClosure, EndClosure, Perform, Refuse, caller
  <2>7. ASSUME NEW v \in Vaults, WindowCloses(v) \/ WindowOpens(v) \/ DropConnectionTo(v) PROVE FALSE
    BY <2>7 DEF WindowCloses, WindowOpens, DropConnectionTo, caller
  <2>8. ASSUME NEW s \in Calls, SocketLost(s) PROVE FALSE
    BY <2>8 DEF SocketLost, caller
  <2>9. ~Dispose /\ ~UNCHANGED vars
    BY DEF Dispose, caller, vars
  <2> QED BY <2>1, <2>2, <2>3, <2>4, <2>5, <2>6, <2>7, <2>8, <2>9 DEF Next, CallStep
<1> QED BY <1>1, Inductive, PTL DEF Spec, CapMeansDelivered

-----------------------------------------------------------------------------
(* The promise of RemoteCalls.                                             *)

\* A call that begins, goes on or ends takes a step of RemoteCalls or none.
LEMMA OneCallMaps ==
  ASSUME IInv, IInv', NEW c \in Calls, ranIn' = ranIn,
         \A d \in Calls : d # c => pc'[d] = pc[d] /\ outcome'[d] = outcome[d],
         pc'[c] # "idle", outcome[c] = "none", pc[c] = "idle" => outcome'[c] = "none"
  PROVE  [Promise!Next]_<<callState, closureRan>>
<1>a. /\ callState = [d \in Evaluations |-> callState[d]]
      /\ callState' = [d \in Evaluations |-> callState'[d]] /\ closureRan' = closureRan
      /\ Evaluations \subseteq Calls /\ outcome[c] = "none"
      /\ \A d \in Calls : d # c => pc'[d] = pc[d] /\ outcome'[d] = outcome[d]
  BY DEF callState, closureRan, Evaluations
<1>b. \A d \in Evaluations : d # c => callState'[d] = callState[d]
  BY <1>a DEF callState
<1>1. CASE c \notin Evaluations
  <2>1. callState' = callState
    BY <1>1, <1>a, <1>b DEF callState
  <2> QED BY <2>1, <1>a
<1>2. CASE c \in Evaluations
  <2>1. callState[c] = (IF pc[c] = "idle" THEN "idle" ELSE "open")
    BY <1>2, <1>a DEF callState
  <2>2. callState'[c] = IF outcome'[c] \in {"answered", "blank"} THEN outcome'[c]
                        ELSE IF outcome'[c] # "none" THEN "failed" ELSE "open"
    BY <1>2, <1>a DEF callState, IInv, TypeOK, Places
  <2>3. callState' = [callState EXCEPT ![c] = callState'[c]]
    BY <1>a, <1>b, <1>2
  <2>4. CASE pc[c] = "idle"
    <3>1. Promise!Open(c)
      BY <2>1, <2>2, <2>3, <2>4, <1>a DEF Promise!Open
    <3> QED BY <3>1, <1>2 DEF Promise!Next
  <2>5. CASE pc[c] # "idle" /\ outcome'[c] = "none"
    <3>1. callState' = callState
      BY <2>1, <2>2, <2>3, <2>5, <1>a
    <3> QED BY <3>1, <1>a
  <2>6. CASE pc[c] # "idle" /\ outcome'[c] = "answered"
    <3>1. closureRan[c] = VaultOf[c]
      BY <1>2, <2>6 DEF closureRan, Evaluations, IInv, Closures
    <3>2. callState[c] = "open" /\ callState' = [callState EXCEPT ![c] = "answered"]
      BY <2>1, <2>2, <2>3, <2>6
    <3>3. Promise!Answer(c)
      BY <3>1, <3>2, <1>a DEF Promise!Answer
    <3> QED BY <3>3, <1>2 DEF Promise!Next
  <2>7. CASE pc[c] # "idle" /\ outcome'[c] = "blank"
    <3>1. Promise!Blank(c)
      BY <2>1, <2>2, <2>3, <2>7, <1>a DEF Promise!Blank
    <3> QED BY <3>1, <1>2 DEF Promise!Next
  <2>8. CASE pc[c] # "idle" /\ outcome'[c] \notin {"none", "answered", "blank"}
    <3>1. Promise!Fail(c)
      BY <2>1, <2>2, <2>3, <2>8, <1>a DEF Promise!Fail
    <3> QED BY <3>1, <1>2 DEF Promise!Next
  <2> QED BY <2>4, <2>5, <2>6, <2>7, <2>8
<1> QED BY <1>1, <1>2

\* A closure that starts is the first of its call, and runs in the window of its vault.
LEMMA ClosureMaps ==
  ASSUME IInv, NEW m \in wire, StartClosure(m)
  PROVE  [Promise!Next]_<<callState, closureRan>>
<1>1. /\ m.call \in Evaluations /\ pc[m.call] # "idle" /\ ranIn[m.call] = None
      /\ VaultOf[m.socket] = VaultOf[m.call] /\ m.call \in Calls
  <2>1. m.call \in Calls /\ m.call \notin Captures /\ m.socket \in Calls /\ m.socket = conn[m.call]
    BY CdpAssumption DEF StartClosure, IInv, TypeOK, Wire, Message
  <2>2. conn[m.call] # None
    BY <2>1, CdpAssumption
  <2> QED BY <2>1, <2>2 DEF StartClosure, IInv, Places, Closures, Evaluations, Wire
<1>2. callState[m.call] \in {"open", "failed"}
  <2>1. VaultOf[m.call] # None
    BY <1>1, CdpAssumption DEF Vaults
  <2>2. outcome[m.call] \notin {"answered", "blank"}
    BY <1>1, <2>1 DEF IInv, Closures, Evaluations
  <2> QED BY <1>1, <2>2 DEF callState
<1>3. callState' = callState /\ ranIn' = [ranIn EXCEPT ![m.call] = VaultOf[m.call]]
  BY <1>1 DEF StartClosure, caller, callState
<1>4. closureRan[m.call] = None /\ closureRan' = [closureRan EXCEPT ![m.call] = VaultOf[m.call]]
  BY <1>1, <1>3 DEF closureRan, Evaluations, IInv, TypeOK
<1>5. Promise!Run(m.call)
  BY <1>2, <1>3, <1>4 DEF Promise!Run
<1> QED BY <1>1, <1>5 DEF Promise!Next

\* Every behaviour of the connection, whatever closes, times out or is disposed of, is one
\* of RemoteCalls: a closure runs at most once and in the window of its vault, and an answer
\* is that of the closure that asked.
THEOREM PromiseKept == Spec => KeepsThePromise
<1>1. Init => Promise!Init
  BY DEF Init, Promise!Init, callState, closureRan, Evaluations
<1>2. IInv /\ IInv' /\ [Next]_vars => [Promise!Next]_<<callState, closureRan>>
  <2> SUFFICES ASSUME IInv, IInv', [Next]_vars PROVE [Promise!Next]_<<callState, closureRan>>
    OBVIOUS
  <2>1. ASSUME NEW c \in Calls, Begin(c) PROVE [Promise!Next]_<<callState, closureRan>>
    <3>1. /\ ranIn' = ranIn /\ outcome' = outcome /\ outcome[c] = "none" /\ pc'[c] # "idle"
          /\ \A d \in Calls : d # c => pc'[d] = pc[d]
      BY <2>1 DEF Begin, Goto, IInv, TypeOK, Places
    <3> QED BY <3>1, OneCallMaps
  <2>2. ASSUME NEW c \in Calls, findTargetForVault(c) \/ NoTarget(c) \/ Connected(c) \/ ConnectFails(c) \/ Send(c)
        PROVE  [Promise!Next]_<<callState, closureRan>>
    <3>1. /\ ranIn' = ranIn /\ pc[c] \notin {"idle", "ended"} /\ pc'[c] # "idle" /\ outcome[c] = "none"
          /\ \A d \in Calls : d # c => pc'[d] = pc[d] /\ outcome'[d] = outcome[d]
      BY <2>2 DEF findTargetForVault, NoTarget, Connected, ConnectFails, Send, Goto, End, history,
                  IInv, TypeOK, Places
    <3> QED BY <3>1, OneCallMaps
  <2>3. ASSUME NEW c \in Calls, NEW ok \in BOOLEAN, Holds(c), Settles(c, ok), ranIn' = ranIn
        PROVE  [Promise!Next]_<<callState, closureRan>>
    <3>1. /\ pc[c] # "idle" /\ outcome[c] = "none" /\ pc'[c] # "idle"
          /\ \A d \in Calls : d # c => pc'[d] = pc[d] /\ outcome'[d] = outcome[d]
      BY <2>3 DEF Settles, Holds, IInv, Places
    <3> QED BY <3>1, <2>3, OneCallMaps
  <2>4. ASSUME NEW c \in Calls, SendThrows(c) \/ Timeout(c) PROVE [Promise!Next]_<<callState, closureRan>>
    <3>1. Holds(c) /\ Settles(c, FALSE) /\ ranIn' = ranIn
      BY <2>4, ContinueSettles DEF SendThrows, Timeout, Holds, history, IInv
    <3> QED BY <3>1, <2>3
  <2>5. ASSUME UNCHANGED <<pc, outcome, ranIn>> PROVE [Promise!Next]_<<callState, closureRan>>
    BY <2>5 DEF callState, closureRan
  <2>6. ASSUME NEW m \in wire, Receive(m) PROVE [Promise!Next]_<<callState, closureRan>>
    <3>1. CASE UNCHANGED <<pc, outcome>>
      BY <3>1, <2>5, <2>6 DEF Receive
    <3>2. CASE \E entry \in pendingCommands[m.socket] :
                 Continue(entry.call, ~(m.refused /\ m.method = "capture"), FALSE)
      <4>1. PICK entry \in pendingCommands[m.socket] :
              Continue(entry.call, ~(m.refused /\ m.method = "capture"), FALSE)
        BY <3>2
      <4>2. entry.call \in Calls /\ Holds(entry.call) /\ ranIn' = ranIn
        BY <2>6 DEF Receive, IInv, TypeOK, Message, EntriesAreOfWaitingCalls, EntryOf, Holds
      <4> QED BY <4>1, <4>2, <2>3, ContinueSettles DEF IInv
    <3> QED BY <2>6, <3>1, <3>2 DEF Receive
  <2>7. ASSUME NEW m \in wire, StartClosure(m) PROVE [Promise!Next]_<<callState, closureRan>>
    BY <2>7, ClosureMaps
  <2>8. ASSUME NEW m \in wire, EndClosure(m) \/ Perform(m) \/ Refuse(m)
        PROVE  [Promise!Next]_<<callState, closureRan>>
    BY <2>8, <2>5 DEF EndClosure, Perform, Refuse, caller, history
  <2>9. ASSUME NEW v \in Vaults, WindowCloses(v) \/ WindowOpens(v) \/ DropConnectionTo(v)
        PROVE  [Promise!Next]_<<callState, closureRan>>
    BY <2>9, <2>5 DEF WindowCloses, WindowOpens, DropConnectionTo, caller, history
  <2>10. ASSUME NEW s \in Calls, SocketLost(s) PROVE [Promise!Next]_<<callState, closureRan>>
    BY <2>10, <2>5 DEF SocketLost, caller
  <2>11. CASE Dispose \/ UNCHANGED vars
    BY <2>11, <2>5 DEF Dispose, caller, history, vars
  <2> QED BY <2>1, <2>2, <2>4, <2>6, <2>7, <2>8, <2>9, <2>10, <2>11 DEF Next, CallStep
<1> QED BY <1>1, <1>2, Inductive, PTL DEF Spec, KeepsThePromise, Promise!Spec


-----------------------------------------------------------------------------
(* The page: namespaces, loads and contexts.                               *)

\* A call runs in a namespace from evalWrapper on, and the page stands as long as one runs in it;
\* which version a call finds is known between its check and its start, unless it is overtaken.
Namespaces ==
  \A e \in Evals :
    /\ epc[e] \in InPage => ns # Nil
    /\ nsOf[e] = Nil <=> epc[e] \in {"idle", "bootstrap", "call", "no-namespace"}
    /\ nsOf[e] = Nil => loading[e] = "no"
    /\ ns = e => epc[e] \notin {"idle", "bootstrap"}
    /\ epc[e] = "call" /\ e \notin overtaken /\ ns # Nil => Version(ns) = Version(e)

\* The load that a namespace waits for is the only one for it; while it goes on the namespace is
\* in force or has been replaced, and the module it has stored is in one of the two.  What it runs
\* as a plugin it runs with community plugins on.
Loads ==
  \A e \in Evals :
    /\ epc[e] \in {"idle", "bootstrap"} => pendingObsidianModule[e] = Nil
    /\ IsLoading(e) =>
         /\ pendingObsidianModule[nsOf[e]] = e
         /\ loading[e] # "over"
         /\ loading[e] # "begun" => ~restricted
         /\ nsOf[e] = ns \/ nsOf[e] \in replaced
         /\ loading[e] \in {"ran", "unloaded"} => nsOf[e] \in obsidianModule \cup replaced

\* A closure that runs has the context which the namespace in force keeps under its id.
Contexts ==
  \A e \in Evals :
    /\ nsOf[e] = Nil \/ epc[e] \in {"module", "enter"} => context[e] = Nil
    /\ epc[e] \in {"callback", "input"} =>
         IF ContextOf[e] = Nil THEN context[e] = Nil
         ELSE contexts[ContextOf[e]] # Nil /\ context[e] = contexts[ContextOf[e]]

NamespaceIInv ==
  /\ PageTypeOK /\ Namespaces /\ Loads /\ Contexts
  /\ LibIsOwn /\ PendingIsUnderWay /\ LoadFailsForAReason /\ NothingLeftOfLoads

LEMMA SharedLoadsAndContexts ==
  NamespaceIInv => NamespaceInv
<1> SUFFICES ASSUME NamespaceIInv PROVE LoadsAreShared /\ ContextIsShared
  BY DEF NamespaceIInv, NamespaceInv
<1>1. LoadsAreShared
  BY DEF NamespaceIInv, Loads, LoadsAreShared
<1>2. ContextIsShared
  BY DEF NamespaceIInv, Contexts, ContextIsShared
<1> QED
  BY <1>1, <1>2

-----------------------------------------------------------------------------
(* The requests for input.                                                 *)

Requesting(n) == {e \in Evals : nsOf[e] = n /\ idOf[e] # 0}

\* A namespace counts its requests, and each has its number as id.
Numbers ==
  /\ \A n \in Evals : nextInputId[n] = Cardinality(Requesting(n))
  /\ \A e \in Evals : idOf[e] # 0 => nsOf[e] # Nil /\ idOf[e] <= nextInputId[nsOf[e]]
  /\ \A e, f \in Evals : nsOf[e] = nsOf[f] /\ idOf[e] = idOf[f] /\ idOf[e] # 0 => e = f

\* A closure makes one request, and waits for the answer.
Asked ==
  /\ \A e \in Evals :
       /\ answer[e] # "none" \/ epc[e] = "input" => idOf[e] # 0
       /\ answer[e] = "none" /\ idOf[e] # 0 => epc[e] \in {"input", "lost"}
  /\ \A t \in tasks : idOf[t.request] # 0

\* The hosts that have injected the gesture of r, or are at it.
AtIt(t) == t.at \in {"inject", "resolve"}
Serving(r) == {h \in Hosts : h \in injectors[r] \/ \E t \in tasks : t.request = r /\ t.host = h /\ AtIt(t)}

\* A request that every host took to its own namespace is served by one host only, the one that
\* claimed it; a host answers with success when it has injected the gesture.
Claims ==
  /\ \A r \in Evals \ strays :
       /\ Serving(r) # {} => idOf[r] \in claimedInputIds[nsOf[r]]
       /\ \A g, h \in Serving(r) : g = h
  /\ \A r \in Evals : injectors[r] # {} => idOf[r] # 0
  /\ \A t \in tasks : t.at = "resolve" => injectors[t.request] # {}

PageIInv == NamespaceIInv /\ Numbers /\ Asked /\ Claims /\ AnsweredByItsGesture

LEMMA OneGesture ==
  PageIInv => GestureInv
<1> SUFFICES ASSUME PageIInv PROVE GestureOnce
  BY DEF PageIInv, NamespaceIInv, GestureInv
<1> SUFFICES ASSUME NEW r \in Evals, r \notin strays PROVE ~(Cardinality(injectors[r]) > 1)
  BY DEF GestureOnce
<1>1. \A g, h \in injectors[r] : g = h
  BY DEF PageIInv, NamespaceIInv, PageTypeOK, Claims, Serving
<1>2. CASE injectors[r] = {}
  BY <1>2, FS_EmptySet
<1>3. CASE injectors[r] # {}
  <2>1. PICK h \in injectors[r] : injectors[r] = {h}
    BY <1>1, <1>3
  <2>2. Cardinality(injectors[r]) = 1
    BY <2>1, FS_Singleton, Zenon
  <2> QED
    BY <2>2
<1> QED
  BY <1>2, <1>3

-----------------------------------------------------------------------------
(* What the steps of either kind leave alone.                              *)

InputStep ==
  \/ \E e \in Evals : requestHostInput(e) \/ InputTimesOut(e)
  \/ \E t \in tasks : claimInput(t) \/ sendAll(t) \/ resolveInput(t) \/ HostFails(t)
  \/ \E h \in Hosts : HostDetaches(h)

PageKept ==
  /\ UNCHANGED <<platform, page, nsOf, context, loading, app, overtaken, replaced, threw, excused>>
  /\ epc' \in [Evals -> {"idle", "bootstrap", "call"} \cup InPage \cup Ended]
  /\ \A e \in Evals : epc'[e] = epc[e] \/ {epc[e], epc'[e]} \subseteq {"callback", "input"}

InputKept ==
  /\ UNCHANGED <<nextInputId, claimedInputIds, idOf, tasks, answer, injectors, strays>>
  /\ pendingInputs' \subseteq {e \in pendingInputs : epc'[e] = "input"}
  /\ \A e \in Evals : /\ epc'[e] = "input" => epc[e] = "input"
                      /\ epc[e] \in {"input", "lost"} => epc'[e] \in {epc[e], "lost"}

\* A host's answer leaves the page as it is, and all calls but one that waits for it.
LEMMA OneIsAnswered ==
  ASSUME PageTypeOK, NEW t \in tasks, resolveInput(t)
  PROVE  /\ tasks' = tasks \ {t} /\ strays \subseteq strays'
         /\ UNCHANGED <<nextInputId, idOf, claimedInputIds, injectors>>
         /\ \A e \in Evals :
              \/ answer'[e] = answer[e] /\ epc'[e] = epc[e]
              \/ /\ e \in AnsweredBy(t) /\ epc[e] = "input" /\ epc'[e] = "callback"
                 /\ answer'[e] = IF t.at = "resolve" THEN "ok" ELSE "error"
         /\ epc' \in [Evals -> {"idle", "bootstrap", "call"} \cup InPage \cup Ended]
         /\ UNCHANGED <<platform, page, nsOf, context, loading, app, overtaken, replaced, threw, excused>>
<1>1. CASE AnsweredBy(t) = {}
  BY <1>1 DEF resolveInput, Stray, page, app, PageTypeOK
<1>2. CASE AnsweredBy(t) # {}
  <2>1. PICK r \in AnsweredBy(t) : SettleInput(r, IF t.at = "resolve" THEN "ok" ELSE "error")
    BY <1>2 DEF resolveInput
  <2> QED
    BY <2>1 DEF resolveInput, SettleInput, AnsweredBy, Stray, page, PageTypeOK, InPage
<1> QED
  BY <1>1, <1>2

\* A host goes on with a request.
LEMMA OneMoves ==
  ASSUME PageTypeOK, NEW t \in tasks, NEW to \in {"claim", "inject", "resolve", "reject"}, Move(t, to)
  PROVE  /\ t \in Tasks
         /\ \A u \in tasks' :
              u \in tasks \/ (u.request = t.request /\ u.host = t.host /\ u.at = to /\ u \in Tasks)
  BY DEF PageTypeOK, Tasks, Move

LEMMA InputKeepsPage ==
  ASSUME PageTypeOK, InputStep \/ UNCHANGED pageVars
  PROVE  PageKept
<1>1. ASSUME NEW e \in Evals, requestHostInput(e) \/ InputTimesOut(e) PROVE PageKept
  BY <1>1 DEF requestHostInput, InputTimesOut, SettleInput, pageHistory, PageKept, PageTypeOK, InPage
<1>2. ASSUME NEW t \in tasks, claimInput(t) \/ sendAll(t) \/ HostFails(t) PROVE PageKept
  BY <1>2 DEF claimInput, sendAll, HostFails, calls, PageKept, PageTypeOK
<1>3. ASSUME NEW t \in tasks, resolveInput(t) PROVE PageKept
  BY <1>3, OneIsAnswered DEF PageKept
<1>4. ASSUME (\E h \in Hosts : HostDetaches(h)) \/ UNCHANGED pageVars PROVE PageKept
  BY <1>4 DEF HostDetaches, pageVars, app, calls, pageHistory, PageKept, PageTypeOK
<1> QED
  BY <1>1, <1>2, <1>3, <1>4 DEF InputStep

\* A load goes on: nothing but what it has made changes.
LEMMA LoadGoesOn ==
  ASSUME PageTypeOK, NEW e \in Evals, LoadStep(e)
  PROVE  /\ UNCHANGED <<platform, ns, pendingObsidianModule, contexts, epc, nsOf, context, input, troubles,
                        pageHistory>>
         /\ IsLoading(e) /\ IsLoading(e)'
         /\ loading' \in [Evals -> Stages]
         /\ loading'[e] \notin {"no", "begun", "over"} /\ \A f \in Evals \ {e} : loading'[f] = loading[f]
         /\ restricted' \in BOOLEAN /\ (restricted' => restricted)
         /\ loading[e] = "begun" => ~restricted'
         /\ directories' \in BOOLEAN
         /\ manifests' \subseteq manifests \cup {e} /\ folders' \subseteq folders \cup {e}
         /\ loading'[e] = "unloaded" => e \notin manifests'
         /\ obsidianModule \subseteq obsidianModule' /\ obsidianModule' \subseteq obsidianModule \cup {ns}
         /\ loading'[e] \in {"ran", "unloaded"} =>
              loading[e] = "ran" \/ restricted \/ ns \in obsidianModule'
<1> DEFINE Kept == UNCHANGED <<platform, ns, pendingObsidianModule, contexts, epc, nsOf, context, input, troubles,
                              pageHistory>>
<1>0. Stages = {"no", "begun", "named", "absent", "rooted", "made", "written", "ran", "unloaded", "over"}
  BY DEF Stages
<1>1. CASE EnableCommunityPlugins(e)
  BY <1>0, <1>1 DEF EnableCommunityPlugins, NameTemporaryPlugin, IsLoading, page, PageTypeOK
<1>2. CASE LookForDirectories(e) \/ MakeDirectories(e) \/ MakeTemporaryFolder(e) \/ WriteTemporaryPlugin(e)
           \/ RunTemporaryPlugin(e) \/ UnloadTemporaryPlugin(e)
  <2>1. PICK s \in {"absent", "rooted", "made", "written", "ran", "unloaded"} :
          LoadGoesTo(e, s) /\ (s = "unloaded" => loading[e] = "ran")
                          /\ (s = "ran" => loading[e] = "written" /\ StoreModule)
    BY <1>2 DEF LookForDirectories, MakeDirectories, MakeTemporaryFolder, WriteTemporaryPlugin,
       RunTemporaryPlugin, UnloadTemporaryPlugin
  <2>2. IsLoading(e) /\ loading[e] # "begun"
    BY <1>2 DEF LookForDirectories, MakeDirectories, MakeTemporaryFolder, WriteTemporaryPlugin,
       RunTemporaryPlugin, UnloadTemporaryPlugin
  <2>3. /\ loading' \in [Evals -> Stages] /\ loading'[e] = s /\ \A f \in Evals \ {e} : loading'[f] = loading[f]
        /\ Kept /\ restricted' = restricted
    BY <1>0, <2>1 DEF LoadGoesTo, PageTypeOK
  <2>4. /\ directories' \in BOOLEAN
        /\ manifests' \subseteq manifests \cup {e} /\ folders' \subseteq folders \cup {e}
    BY <1>2 DEF LookForDirectories, MakeDirectories, MakeTemporaryFolder, WriteTemporaryPlugin,
       RunTemporaryPlugin, UnloadTemporaryPlugin, PageTypeOK
  <2>5. obsidianModule \subseteq obsidianModule' /\ obsidianModule' \subseteq obsidianModule \cup {ns}
    BY <1>2 DEF LookForDirectories, MakeDirectories, MakeTemporaryFolder, WriteTemporaryPlugin,
       RunTemporaryPlugin, UnloadTemporaryPlugin, StoreModule
  <2>6. s = "ran" => restricted \/ ns \in obsidianModule'
    BY <2>1 DEF StoreModule
  <2>7. s = "unloaded" => e \notin manifests'
    BY <1>2, <2>3 DEF LookForDirectories, MakeDirectories, MakeTemporaryFolder, WriteTemporaryPlugin,
       RunTemporaryPlugin, UnloadTemporaryPlugin, LoadGoesTo, PageTypeOK
  <2> QED
    BY <2>1, <2>2, <2>3, <2>4, <2>5, <2>6, <2>7 DEF IsLoading, PageTypeOK
<1> QED
  BY <1>1, <1>2 DEF LoadStep

LEMMA PageKeepsInput ==
  ASSUME PageTypeOK, [PageNext]_pageVars, ~InputStep
  PROVE  InputKept
<1>1. ASSUME NEW e \in Evals,
             CheckVersion(e) \/ bootstrapNamespace(e) \/ evalWrapper(e) \/ NoNamespace(e) \/ EnterCallback(e) \/ LeaveCallback(e)
      PROVE InputKept
  BY <1>1 DEF CheckVersion, bootstrapNamespace, evalWrapper, NoNamespace, EnterCallback, LeaveCallback,
     input, pageHistory, InputKept, PageTypeOK
<1>2. ASSUME NEW e \in Evals, LoadStep(e) \/ EndLoad(e) \/ LoadThrows(e)
      PROVE  InputKept
  <2>1. CASE LoadStep(e)
    BY <2>1, LoadGoesOn DEF input, pageHistory, InputKept, PageTypeOK
  <2>2. CASE EndLoad(e) \/ LoadThrows(e)
    BY <2>2 DEF EndLoad, LoadThrows, Sharing, input, pageHistory, InputKept, PageTypeOK
  <2> QED
    BY <1>2, <2>1, <2>2
<1>3. CASE PageReloads
  BY <1>3 DEF PageReloads, InPage, InputKept, PageTypeOK
<1>4. CASE UNCHANGED pageVars
  BY <1>4 DEF pageVars, app, calls, input, pageHistory, InputKept, PageTypeOK
<1> QED
  BY <1>1, <1>2, <1>3, <1>4 DEF PageNext, PageStep, InputStep

-----------------------------------------------------------------------------
(* The types.                                                              *)

LEMMA PageTypeInit ==
  PageInit => PageTypeOK
<1> SUFFICES ASSUME PageInit PROVE PageTypeOK
  OBVIOUS
<1>1. TroubleLimit \in Nat /\ Cardinality(Evals) \in Nat
  BY PageAssumption, FS_CardinalityType
<1>2. 0 \in 0..TroubleLimit /\ 0 \in 0..Cardinality(Evals)
  BY <1>1
<1> QED
  BY <1>2 DEF PageInit, PageTypeOK, Answers, Stages

CallTypes ==
  /\ platform \in {"desktop", "mobile"}
  /\ epc \in [Evals -> {"idle", "bootstrap", "call"} \cup InPage \cup Ended]
  /\ ns \in Evals \cup {Nil} /\ nsOf \in [Evals -> Evals \cup {Nil}]
  /\ obsidianModule \subseteq Evals
  /\ pendingObsidianModule \in [Evals -> Evals \cup {Nil}]
  /\ loading \in [Evals -> Stages]
  /\ restricted \in BOOLEAN /\ directories \in BOOLEAN
  /\ manifests \subseteq Evals /\ folders \subseteq Evals
  /\ contexts \in [ContextIds -> Evals \cup {Nil}] /\ context \in [Evals -> Evals \cup {Nil}]

InputTypes ==
  /\ nextInputId \in [Evals -> 0..Cardinality(Evals)]
  /\ pendingInputs \subseteq {e \in Evals : epc[e] = "input"}
  /\ claimedInputIds \in [Evals -> SUBSET (1..Cardinality(Evals))]
  /\ idOf \in [Evals -> 0..Cardinality(Evals)]
  /\ tasks \subseteq Tasks
  /\ answer \in [Evals -> Answers]

HistoryTypes ==
  /\ troubles \in 0..TroubleLimit
  /\ injectors \in [Evals -> SUBSET Hosts]
  /\ overtaken \subseteq Evals /\ replaced \subseteq Evals
  /\ strays \subseteq Evals /\ threw \subseteq Evals /\ excused \subseteq Evals

LEMMA OneMoreTrouble == PageTypeOK /\ Trouble => troubles' \in 0..TroubleLimit
  BY PageAssumption DEF PageTypeOK, Trouble

LEMMA CallTypesStep ==
  ASSUME PageTypeOK, Namespaces, [PageNext]_pageVars
  PROVE  CallTypes'
<1>1. ASSUME NEW e \in Evals, CheckVersion(e) PROVE CallTypes'
  BY <1>1 DEF CheckVersion, page, app, calls, pageHistory, CallTypes, PageTypeOK, Namespaces, InPage, Ended
<1>2. ASSUME NEW e \in Evals, bootstrapNamespace(e) PROVE CallTypes'
  BY <1>2 DEF bootstrapNamespace, existingContexts, existingObsidianModule, page, app, calls, pageHistory,
     CallTypes, PageTypeOK, Namespaces, InPage, Ended
<1>3. ASSUME NEW e \in Evals, evalWrapper(e) PROVE CallTypes'
  <2>1. {"begun", "named"} \subseteq Stages /\ ns \in Evals
    BY <1>3 DEF evalWrapper, Stages, PageTypeOK
  <2>2. /\ loading' \in [Evals -> Stages] /\ manifests' \subseteq Evals
        /\ pendingObsidianModule' \in [Evals -> Evals \cup {Nil}]
    BY <1>3, <2>1 DEF evalWrapper, ShareOrLoad, StartLoad, NameTemporaryPlugin, PageTypeOK
  <2>3. epc' \in [Evals -> {"idle", "bootstrap", "call"} \cup InPage \cup Ended]
    BY <1>3 DEF evalWrapper, PageTypeOK, InPage
  <2> QED
    BY <1>3, <2>1, <2>2, <2>3 DEF evalWrapper, CallTypes, PageTypeOK
<1>4. ASSUME NEW e \in Evals, NoNamespace(e) PROVE CallTypes'
  BY <1>4 DEF NoNamespace, page, app, calls, pageHistory, CallTypes, PageTypeOK, Namespaces, InPage, Ended
<1>5. ASSUME NEW e \in Evals, LoadStep(e) PROVE CallTypes'
  BY <1>5, LoadGoesOn DEF IsLoading, input, pageHistory, CallTypes, PageTypeOK, Namespaces, InPage, Ended
<1>6. ASSUME NEW e \in Evals, LoadThrows(e) PROVE CallTypes'
  <2>1. "over" \in Stages /\ ns \in Evals /\ nsOf[e] \in Evals
    BY <1>6 DEF LoadThrows, IsLoading, Stages, Namespaces, InPage, PageTypeOK
  <2>2. obsidianModule' \subseteq Evals /\ restricted' \in BOOLEAN
    BY <1>6, <2>1 DEF LoadThrows, StoreModule, PageTypeOK
  <2>3. epc' \in [Evals -> {"idle", "bootstrap", "call"} \cup InPage \cup Ended]
    BY <1>6 DEF LoadThrows, PageTypeOK, Ended
  <2> QED
    BY <1>6, <2>1, <2>2, <2>3 DEF LoadThrows, ForgetPending, CallTypes, PageTypeOK
<1>7. ASSUME NEW e \in Evals, EndLoad(e) PROVE CallTypes'
  <2>1. "over" \in Stages /\ nsOf[e] \in Evals
    BY <1>7 DEF EndLoad, IsLoading, Stages, Namespaces, InPage, PageTypeOK
  <2>2. epc' \in [Evals -> {"idle", "bootstrap", "call"} \cup InPage \cup Ended]
    BY <1>7 DEF EndLoad, PageTypeOK, InPage, Ended
  <2> QED
    BY <1>7, <2>1, <2>2 DEF EndLoad, RemoveFolder, ForgetPending, CallTypes, PageTypeOK
<1>8. ASSUME NEW e \in Evals, EnterCallback(e) PROVE CallTypes'
  <2>1. CASE ContextOf[e] = Nil
    BY <1>8, <2>1 DEF EnterCallback, app, CallTypes, PageTypeOK, InPage
  <2>2. CASE ContextOf[e] # Nil
    BY <1>8, <2>2 DEF EnterCallback, app, CallTypes, PageTypeOK, InPage, ContextIds
  <2> QED
    BY <2>1, <2>2
<1>9. ASSUME NEW e \in Evals, LeaveCallback(e) PROVE CallTypes'
  BY <1>9 DEF LeaveCallback, page, app, calls, pageHistory, CallTypes, PageTypeOK, Namespaces, InPage, Ended
<1>10. ASSUME PageReloads PROVE CallTypes'
  BY <1>10 DEF PageReloads, page, app, calls, pageHistory, CallTypes, PageTypeOK, Namespaces, InPage, Ended
<1>11. ASSUME InputStep \/ UNCHANGED pageVars PROVE CallTypes'
  BY <1>11, InputKeepsPage DEF PageKept, page, app, CallTypes, PageTypeOK, InPage
<1> QED
  BY <1>1, <1>2, <1>3, <1>4, <1>5, <1>6, <1>7, <1>8, <1>9, <1>10, <1>11 DEF PageNext, PageStep, InputStep

LEMMA HistoryTypesStep ==
  ASSUME PageTypeOK, [PageNext]_pageVars
  PROVE  HistoryTypes'
<1>1. ASSUME NEW e \in Evals, CheckVersion(e) PROVE HistoryTypes'
  BY <1>1, OneMoreTrouble DEF CheckVersion, page, app, calls, input, pageHistory, HistoryTypes, PageTypeOK,
     Tasks
<1>2. ASSUME NEW e \in Evals, bootstrapNamespace(e) PROVE HistoryTypes'
  BY <1>2, OneMoreTrouble DEF bootstrapNamespace, existingContexts, existingObsidianModule, page, app, calls,
     input, pageHistory, HistoryTypes, PageTypeOK, Tasks
<1>3. ASSUME NEW e \in Evals, evalWrapper(e) PROVE HistoryTypes'
  BY <1>3, OneMoreTrouble DEF evalWrapper, ShareOrLoad, StartLoad, NameTemporaryPlugin, page, app, calls,
     input, pageHistory, HistoryTypes, PageTypeOK, Tasks
<1>4. ASSUME NEW e \in Evals, NoNamespace(e) PROVE HistoryTypes'
  BY <1>4, OneMoreTrouble DEF NoNamespace, page, app, calls, input, pageHistory, HistoryTypes, PageTypeOK,
     Tasks
<1>5. ASSUME NEW e \in Evals, LoadStep(e) PROVE HistoryTypes'
  BY <1>5, LoadGoesOn DEF pageHistory, HistoryTypes, PageTypeOK
<1>6. ASSUME NEW e \in Evals, LoadThrows(e) PROVE HistoryTypes'
  BY <1>6, OneMoreTrouble DEF LoadThrows, Sharing, StoreModule, Trouble, IsLoading, ForgetPending, page,
     app, calls, input, pageHistory, HistoryTypes, PageTypeOK, Tasks
<1>7. ASSUME NEW e \in Evals, EndLoad(e) PROVE HistoryTypes'
  BY <1>7, OneMoreTrouble DEF EndLoad, Sharing, IsLoading, RemoveFolder, ForgetPending, Trouble, page, app,
     calls, input, pageHistory, HistoryTypes, PageTypeOK, Tasks
<1>8. ASSUME NEW e \in Evals, EnterCallback(e) PROVE HistoryTypes'
  BY <1>8, OneMoreTrouble DEF EnterCallback, page, app, calls, input, pageHistory, HistoryTypes, PageTypeOK,
     Tasks
<1>9. ASSUME NEW e \in Evals, LeaveCallback(e) PROVE HistoryTypes'
  BY <1>9, OneMoreTrouble DEF LeaveCallback, page, app, calls, input, pageHistory, HistoryTypes, PageTypeOK,
     Tasks
<1>10. ASSUME NEW e \in Evals, requestHostInput(e) PROVE HistoryTypes'
  BY <1>10, OneMoreTrouble DEF requestHostInput, page, app, calls, input, pageHistory, HistoryTypes,
     PageTypeOK, Tasks
<1>11. ASSUME NEW e \in Evals, InputTimesOut(e) PROVE HistoryTypes'
  BY <1>11, OneMoreTrouble DEF InputTimesOut, SettleInput, page, app, calls, input, pageHistory, HistoryTypes,
     PageTypeOK, Tasks
<1>12. ASSUME NEW t \in tasks, claimInput(t) PROVE HistoryTypes'
  BY <1>12, OneMoreTrouble DEF claimInput, LoserReturns, Move, Stray, page, app, calls, input, pageHistory,
     HistoryTypes, PageTypeOK, Tasks
<1>13. ASSUME NEW t \in tasks, sendAll(t) PROVE HistoryTypes'
  BY <1>13, OneMoreTrouble DEF sendAll, Move, page, app, calls, input, pageHistory, HistoryTypes, PageTypeOK,
     Tasks
<1>14. ASSUME NEW t \in tasks, resolveInput(t) PROVE HistoryTypes'
  BY <1>14, OneMoreTrouble DEF resolveInput, SettleInput, Stray, page, app, calls, input, pageHistory,
     HistoryTypes, PageTypeOK, Tasks
<1>15. ASSUME NEW t \in tasks, HostFails(t) PROVE HistoryTypes'
  BY <1>15, OneMoreTrouble DEF HostFails, Move, Trouble, page, app, calls, input, pageHistory, HistoryTypes,
     PageTypeOK, Tasks
<1>16. ASSUME NEW h \in Hosts, HostDetaches(h) PROVE HistoryTypes'
  BY <1>16, OneMoreTrouble DEF HostDetaches, Trouble, page, app, calls, input, pageHistory, HistoryTypes,
     PageTypeOK, Tasks
<1>17. ASSUME PageReloads PROVE HistoryTypes'
  BY <1>17, OneMoreTrouble DEF PageReloads, Trouble, page, app, calls, input, pageHistory, HistoryTypes,
     PageTypeOK, Tasks
<1>18. ASSUME UNCHANGED pageVars PROVE HistoryTypes'
  BY <1>18 DEF pageVars, app, page, app, calls, input, pageHistory, HistoryTypes, PageTypeOK, Tasks
<1> QED
  BY <1>1, <1>2, <1>3, <1>4, <1>5, <1>6, <1>7, <1>8, <1>9, <1>10, <1>11, <1>12, <1>13, <1>14, <1>15, <1>16,
     <1>17, <1>18 DEF PageNext, PageStep


\* A request gets the next id of its namespace, which is not above the number of calls.
LEMMA NextInputId ==
  ASSUME PageTypeOK, Namespaces, Numbers, Asked, NEW e \in Evals, requestHostInput(e)
  PROVE  /\ nsOf[e] \in Evals /\ idOf[e] = 0
         /\ nextInputId[nsOf[e]] + 1 \in 1..Cardinality(Evals)
         /\ \A n \in Evals : nextInputId'[n] = Cardinality(Requesting(n)')
<1>1. nsOf[e] \in Evals /\ idOf[e] = 0 /\ nsOf' = nsOf
  BY DEF requestHostInput, calls, PageTypeOK, Namespaces, Numbers, Asked
<1>2. PICK n \in Evals : n = nsOf[e]
  BY <1>1
<1>3. /\ IsFiniteSet(Requesting(n)) /\ e \notin Requesting(n)
      /\ Requesting(n) \cup {e} \subseteq Evals
  BY <1>1, PageAssumption, FS_Subset DEF Requesting
<1>4. /\ Cardinality(Requesting(n) \cup {e}) = Cardinality(Requesting(n)) + 1
      /\ Cardinality(Requesting(n) \cup {e}) <= Cardinality(Evals)
  BY <1>3, PageAssumption, FS_AddElement, FS_Subset
<1>5. Requesting(n)' = Requesting(n) \cup {e} /\ \A m \in Evals \ {n} : Requesting(m)' = Requesting(m)
  BY <1>1, <1>2 DEF requestHostInput, Requesting, PageTypeOK
<1>6. nextInputId' = [nextInputId EXCEPT ![n] = @ + 1] /\ nextInputId \in [Evals -> 0..Cardinality(Evals)]
  BY <1>2 DEF requestHostInput, PageTypeOK
<1>7. \A m \in Evals : nextInputId[m] = Cardinality(Requesting(m))
  BY DEF Numbers, Asked
<1>8. Cardinality(Evals) \in Nat
  BY PageAssumption, FS_CardinalityType
<1>9. nextInputId'[n] = nextInputId[n] + 1 /\ \A m \in Evals \ {n} : nextInputId'[m] = nextInputId[m]
  BY <1>6
<1>10. nextInputId'[n] = Cardinality(Requesting(n)')
  BY <1>4, <1>5, <1>7, <1>9
<1>11. \A m \in Evals \ {n} : nextInputId'[m] = Cardinality(Requesting(m)')
  BY <1>5, <1>7, <1>9
<1>12. nextInputId[n] + 1 \in 1..Cardinality(Evals)
  BY <1>4, <1>6, <1>7, <1>8
<1> QED
  BY <1>1, <1>2, <1>10, <1>11, <1>12

LEMMA InputTypesStep ==
  ASSUME PageTypeOK, Namespaces, Numbers, Asked, [PageNext]_pageVars
  PROVE  InputTypes'
<1>t. \A t \in tasks : /\ \A stage \in {"claim", "inject", "resolve", "reject"} : [t EXCEPT !.at = stage] \in Tasks
                      /\ idOf[t.request] \in 1..Cardinality(Evals)
  <2> SUFFICES ASSUME NEW t \in tasks
               PROVE  /\ \A stage \in {"claim", "inject", "resolve", "reject"} : [t EXCEPT !.at = stage] \in Tasks
                      /\ idOf[t.request] \in 1..Cardinality(Evals)
    OBVIOUS
  <2>1. t \in Tasks /\ t.request \in Evals
    BY DEF PageTypeOK, Tasks
  <2>2. \A stage \in {"claim", "inject", "resolve", "reject"} : [t EXCEPT !.at = stage] \in Tasks
    BY <2>1 DEF Tasks
  <2>3. Cardinality(Evals) \in Nat /\ idOf[t.request] \in 0..Cardinality(Evals) /\ idOf[t.request] # 0
    BY <2>1, FS_CardinalityType, PageAssumption DEF PageTypeOK, Numbers, Asked
  <2> QED
    BY <2>2, <2>3
<1>1. ASSUME NEW e \in Evals, requestHostInput(e) PROVE InputTypes'
  <2>1. nextInputId[nsOf[e]] + 1 \in 0..Cardinality(Evals)
    BY <1>1, NextInputId
  <2>2. nextInputId' \in [Evals -> 0..Cardinality(Evals)] /\ idOf' \in [Evals -> 0..Cardinality(Evals)]
    BY <1>1, <2>1 DEF requestHostInput, PageTypeOK
  <2>3. tasks' \subseteq Tasks
    BY <1>1 DEF requestHostInput, PageTypeOK, Tasks
  <2>4. pendingInputs' \subseteq {f \in Evals : epc'[f] = "input"}
    BY <1>1 DEF requestHostInput, PageTypeOK
  <2> QED
    BY <1>1, <2>2, <2>3, <2>4 DEF requestHostInput, InputTypes, PageTypeOK
<1>2. ASSUME NEW e \in Evals, InputTimesOut(e) PROVE InputTypes'
  BY <1>2 DEF InputTimesOut, SettleInput, page, app, calls, input, pageHistory, InputTypes, PageTypeOK,
     Answers, Tasks, InPage
<1>3. ASSUME NEW t \in tasks, claimInput(t) PROVE InputTypes'
  <2>1. tasks' \subseteq Tasks
    BY <1>3, <1>t DEF claimInput, LoserReturns, Move, PageTypeOK
  <2>2. claimedInputIds' \in [Evals -> SUBSET (1..Cardinality(Evals))]
    <3>1. ASSUME NEW n \in Evals
          PROVE [claimedInputIds EXCEPT ![n] = @ \cup {idOf[t.request]}]
                  \in [Evals -> SUBSET (1..Cardinality(Evals))]
      BY <1>t DEF PageTypeOK
    <3>2. ns # Nil => ns \in Evals
      BY DEF PageTypeOK
    <3> QED
      BY <1>3, <3>1, <3>2 DEF claimInput, PageTypeOK
  <2> QED
    BY <1>3, <2>1, <2>2 DEF claimInput, calls, InputTypes, PageTypeOK
<1>4. ASSUME NEW t \in tasks, sendAll(t) PROVE InputTypes'
  BY <1>4, <1>t DEF sendAll, Move, page, app, calls, input, pageHistory, InputTypes, PageTypeOK, Answers,
     Tasks, InPage
<1>5. ASSUME NEW t \in tasks, resolveInput(t) PROVE InputTypes'
  BY <1>5 DEF resolveInput, SettleInput, Stray, page, app, calls, input, pageHistory, InputTypes, PageTypeOK,
     Answers, Tasks, InPage
<1>6. ASSUME NEW t \in tasks, HostFails(t) PROVE InputTypes'
  BY <1>6, <1>t DEF HostFails, Move, Trouble, page, app, calls, input, pageHistory, InputTypes, PageTypeOK,
     Answers, Tasks, InPage
<1>7. ASSUME NEW h \in Hosts, HostDetaches(h) PROVE InputTypes'
  BY <1>7 DEF HostDetaches, Trouble, page, app, calls, input, pageHistory, InputTypes, PageTypeOK, Answers,
     Tasks, InPage
<1>8. ASSUME ~InputStep PROVE InputTypes'
  BY <1>8, PageKeepsInput DEF InputKept, InputTypes, PageTypeOK
<1> QED
  BY <1>1, <1>2, <1>3, <1>4, <1>5, <1>6, <1>7, <1>8 DEF InputStep

LEMMA PageTypeStep ==
  ASSUME PageTypeOK, Namespaces, Numbers, Asked, [PageNext]_pageVars
  PROVE  PageTypeOK'
<1>1. CallTypes' /\ InputTypes' /\ HistoryTypes'
  BY CallTypesStep, InputTypesStep, HistoryTypesStep
<1> QED
  BY <1>1 DEF PageTypeOK, CallTypes, InputTypes, HistoryTypes

-----------------------------------------------------------------------------
(* The steps and the invariant of the page.                                *)

LEMMA NamespacesStep ==
  ASSUME PageTypeOK, Namespaces, [PageNext]_pageVars
  PROVE  Namespaces'
<1>1. ASSUME NEW e \in Evals, CheckVersion(e) PROVE Namespaces'
  BY <1>1  DEF CheckVersion, IsCurrent, page, app, calls, pageHistory, Namespaces, PageTypeOK, InPage, Ended
<1>2. ASSUME NEW e \in Evals, bootstrapNamespace(e) PROVE Namespaces'
  <2>1. \A f \in Evals : epc'[f] = IF f = e THEN "call" ELSE epc[f]
    BY <1>2 DEF bootstrapNamespace, PageTypeOK
  <2>2. \A f \in Evals : epc'[f] = "call" /\ f \notin overtaken' => Version(ns') = Version(f)
    BY <1>2, <2>1 DEF bootstrapNamespace
  <2>3. ns' # Nil
    BY <1>2, PageAssumption DEF bootstrapNamespace
  <2> QED
    BY <1>2, <2>1, <2>2, <2>3 DEF bootstrapNamespace, Namespaces, InPage
<1>3. ASSUME NEW e \in Evals, evalWrapper(e) PROVE Namespaces'
  BY <1>3 DEF evalWrapper, ShareOrLoad, StartLoad, NameTemporaryPlugin, page, app, calls, pageHistory,
     Namespaces, PageTypeOK, InPage, Ended
<1>4. ASSUME NEW e \in Evals, NoNamespace(e) PROVE Namespaces'
  BY <1>4 DEF NoNamespace, page, app, calls, pageHistory, Namespaces, PageTypeOK, InPage, Ended
<1>5. ASSUME NEW e \in Evals, LoadStep(e) PROVE Namespaces'
  BY <1>5, LoadGoesOn DEF IsLoading, pageHistory, Namespaces, PageTypeOK, InPage
<1>6. ASSUME NEW e \in Evals, LoadThrows(e) PROVE Namespaces'
  BY <1>6 DEF LoadThrows, Sharing, StoreModule, Trouble, IsLoading, ForgetPending, page, app, calls,
     pageHistory, Namespaces, PageTypeOK, InPage, Ended
<1>7. ASSUME NEW e \in Evals, EndLoad(e) PROVE Namespaces'
  BY <1>7 DEF EndLoad, Sharing, IsLoading, RemoveFolder, ForgetPending, page, app, calls, pageHistory,
     Namespaces, PageTypeOK, InPage, Ended
<1>8. ASSUME NEW e \in Evals, EnterCallback(e) PROVE Namespaces'
  BY <1>8 DEF EnterCallback, page, app, calls, pageHistory, Namespaces, PageTypeOK, InPage, Ended
<1>9. ASSUME NEW e \in Evals, LeaveCallback(e) PROVE Namespaces'
  BY <1>9 DEF LeaveCallback, page, app, calls, pageHistory, Namespaces, PageTypeOK, InPage, Ended
<1>10. ASSUME PageReloads PROVE Namespaces'
  BY <1>10, PageAssumption DEF PageReloads, Namespaces, PageTypeOK, InPage, Ended
<1>11. ASSUME InputStep \/ UNCHANGED pageVars PROVE Namespaces'
  BY <1>11, InputKeepsPage DEF PageKept, page, app, Namespaces, InPage
<1> QED
  BY <1>1, <1>2, <1>3, <1>4, <1>5, <1>6, <1>7, <1>8, <1>9, <1>10, <1>11 DEF PageNext, PageStep, InputStep

LEMMA LibIsOwnStep ==
  ASSUME PageTypeOK, Namespaces, LibIsOwn, [PageNext]_pageVars
  PROVE  LibIsOwn'
<1>1. ASSUME NEW e \in Evals, CheckVersion(e) PROVE LibIsOwn'
  BY <1>1 DEF CheckVersion, page, app, calls, pageHistory, LibIsOwn, Namespaces, PageTypeOK
<1>2. ASSUME NEW e \in Evals, bootstrapNamespace(e) PROVE LibIsOwn'
  BY <1>2 DEF bootstrapNamespace, existingContexts, existingObsidianModule, page, app, calls, pageHistory,
     LibIsOwn, Namespaces, PageTypeOK
<1>3. ASSUME NEW e \in Evals, evalWrapper(e) PROVE LibIsOwn'
  BY <1>3 DEF evalWrapper, ShareOrLoad, StartLoad, NameTemporaryPlugin, page, app, calls, pageHistory,
     LibIsOwn, Namespaces, PageTypeOK
<1>4. ASSUME NEW e \in Evals, NoNamespace(e) PROVE LibIsOwn'
  BY <1>4 DEF NoNamespace, page, app, calls, pageHistory, LibIsOwn, Namespaces, PageTypeOK
<1>5. ASSUME NEW e \in Evals, LoadStep(e) PROVE LibIsOwn'
  BY <1>5, LoadGoesOn DEF pageHistory, LibIsOwn
<1>6. ASSUME NEW e \in Evals, LoadThrows(e) PROVE LibIsOwn'
  BY <1>6 DEF LoadThrows, Sharing, StoreModule, Trouble, IsLoading, ForgetPending, page, app, calls,
     pageHistory, LibIsOwn, Namespaces, PageTypeOK
<1>7. ASSUME NEW e \in Evals, EndLoad(e) PROVE LibIsOwn'
  BY <1>7 DEF EndLoad, Sharing, IsLoading, RemoveFolder, ForgetPending, page, app, calls, pageHistory,
     LibIsOwn, Namespaces, PageTypeOK
<1>8. ASSUME NEW e \in Evals, EnterCallback(e) PROVE LibIsOwn'
  BY <1>8 DEF EnterCallback, page, app, calls, pageHistory, LibIsOwn, Namespaces, PageTypeOK
<1>9. ASSUME NEW e \in Evals, LeaveCallback(e) PROVE LibIsOwn'
  BY <1>9 DEF LeaveCallback, page, app, calls, pageHistory, LibIsOwn, Namespaces, PageTypeOK
<1>10. ASSUME PageReloads PROVE LibIsOwn'
  BY <1>10 DEF PageReloads, page, app, calls, pageHistory, LibIsOwn, Namespaces, PageTypeOK
<1>11. ASSUME InputStep \/ UNCHANGED pageVars PROVE LibIsOwn'
  BY <1>11, InputKeepsPage DEF PageKept, page, app, LibIsOwn
<1> QED
  BY <1>1, <1>2, <1>3, <1>4, <1>5, <1>6, <1>7, <1>8, <1>9, <1>10, <1>11 DEF PageNext, PageStep, InputStep

LEMMA LoadsStep ==
  ASSUME PageTypeOK, Namespaces, Loads, [PageNext]_pageVars
  PROVE  Loads'
<1>1. ASSUME NEW e \in Evals, CheckVersion(e) PROVE Loads'
  BY <1>1 DEF CheckVersion, page, app, calls, pageHistory, Loads, IsLoading, Namespaces, PageTypeOK, InPage
<1>2. ASSUME NEW e \in Evals, bootstrapNamespace(e) PROVE Loads'
  <2>1. \A f \in Evals : IsLoading(f)' => IsLoading(f) /\ f # e
    BY <1>2 DEF bootstrapNamespace, IsLoading, PageTypeOK
  <2>2. \A f \in Evals : IsLoading(f) => nsOf[f] # Nil /\ nsOf[f] \in Evals
    BY DEF IsLoading, Namespaces, PageTypeOK
  <2>3. \A f \in Evals : IsLoading(f) /\ nsOf[f] = ns => ns \in replaced'
    BY <1>2, <2>2, PageAssumption DEF bootstrapNamespace, Loads
  <2>4. obsidianModule \subseteq obsidianModule' /\ replaced \subseteq replaced'
    BY <1>2 DEF bootstrapNamespace, existingObsidianModule
  <2>5. \A f \in Evals : epc'[f] \in {"idle", "bootstrap"} => epc[f] \in {"idle", "bootstrap"}
    BY <1>2 DEF bootstrapNamespace, PageTypeOK
  <2> QED
    BY <1>2, <2>1, <2>3, <2>4, <2>5 DEF bootstrapNamespace, app, Loads
<1>3. ASSUME NEW e \in Evals, evalWrapper(e) PROVE Loads'
  <2>1. loading[e] = "no" /\ nsOf[e] = Nil /\ ns \in Evals
    BY <1>3 DEF evalWrapper, Namespaces, PageTypeOK
  <2>2. ASSUME NEW f \in Evals, f # e, IsLoading(f)'
        PROVE  IsLoading(f) /\ nsOf'[f] = nsOf[f] /\ loading'[f] = loading[f]
    BY <1>3, <2>2 DEF evalWrapper, ShareOrLoad, StartLoad, NameTemporaryPlugin, IsLoading, PageTypeOK
  <2>3. ASSUME NEW f \in Evals, IsLoading(f) PROVE pendingObsidianModule'[nsOf[f]] = f
    BY <1>3, <2>1, <2>3, PageAssumption DEF evalWrapper, ShareOrLoad, StartLoad, NameTemporaryPlugin, Loads,
       PageTypeOK
  <2>4. IsLoading(e)' => /\ pendingObsidianModule'[ns] = e /\ nsOf'[e] = ns
                         /\ loading'[e] \in {"begun", "named"} /\ (loading'[e] # "begun" => ~restricted)
    BY <1>3, <2>1 DEF evalWrapper, ShareOrLoad, StartLoad, NameTemporaryPlugin, IsLoading, PageTypeOK
  <2>5. \A f \in Evals : epc'[f] \in {"idle", "bootstrap"} => pendingObsidianModule'[f] = Nil
    <3>1. \A f \in Evals : epc'[f] \in {"idle", "bootstrap"} => epc'[f] = epc[f] /\ f # ns
      BY <1>3 DEF evalWrapper, Namespaces, PageTypeOK
    <3>2. \A f \in Evals \ {ns} : pendingObsidianModule'[f] = pendingObsidianModule[f]
      BY <1>3, <2>1 DEF evalWrapper, ShareOrLoad, PageTypeOK
    <3> QED
      BY <3>1, <3>2 DEF Loads
  <2> QED
    BY <1>3, <2>2, <2>3, <2>4, <2>5 DEF evalWrapper, pageHistory, Loads
<1>4. ASSUME NEW e \in Evals, NoNamespace(e) PROVE Loads'
  BY <1>4 DEF NoNamespace, page, app, calls, pageHistory, Loads, IsLoading, Namespaces, PageTypeOK, InPage
<1>5. ASSUME NEW e \in Evals, LoadStep(e) PROVE Loads'
  <2>1. /\ UNCHANGED <<ns, pendingObsidianModule, epc, nsOf, replaced>>
        /\ IsLoading(e) /\ \A f \in Evals \ {e} : loading'[f] = loading[f]
        /\ obsidianModule \subseteq obsidianModule' /\ (restricted' => restricted)
        /\ loading'[e] # "over" /\ (loading[e] = "begun" => ~restricted')
    BY <1>5, LoadGoesOn DEF pageHistory
  <2>2. loading'[e] \in {"ran", "unloaded"} => nsOf[e] \in obsidianModule' \cup replaced
    <3>1. loading'[e] \in {"ran", "unloaded"} => loading[e] = "ran" \/ restricted \/ ns \in obsidianModule'
      BY <1>5, LoadGoesOn
    <3>2. restricted /\ loading'[e] \in {"ran", "unloaded"} => loading[e] = "ran"
      BY <1>5, <2>1 DEF Loads, LoadStep, EnableCommunityPlugins, NameTemporaryPlugin, LookForDirectories,
         MakeDirectories, MakeTemporaryFolder, WriteTemporaryPlugin, RunTemporaryPlugin,
         UnloadTemporaryPlugin, LoadGoesTo, IsLoading, PageTypeOK
    <3> QED
      BY <2>1, <3>1, <3>2 DEF Loads
  <2>3. \A f \in Evals : IsLoading(f)' => IsLoading(f)
    BY <2>1 DEF IsLoading
  <2> QED
    BY <2>1, <2>2, <2>3 DEF Loads
<1>6. ASSUME NEW e \in Evals, LoadThrows(e) PROVE Loads'
  <2>1. /\ UNCHANGED <<ns, nsOf, replaced>> /\ (restricted' => restricted)
        /\ pendingObsidianModule' = [pendingObsidianModule EXCEPT ![nsOf[e]] = Nil]
        /\ obsidianModule \subseteq obsidianModule'
        /\ \A f \in Evals \ {e} : loading'[f] = loading[f]
    BY <1>6 DEF LoadThrows, StoreModule, ForgetPending, PageTypeOK
  <2>2. \A f \in Evals : epc'[f] = IF epc[f] = "module" /\ nsOf[f] = nsOf[e] THEN "load-failed" ELSE epc[f]
    BY <1>6 DEF LoadThrows, Sharing, PageTypeOK
  <2>3. IsLoading(e) /\ nsOf[e] \in Evals /\ \A f \in Evals : IsLoading(f) => nsOf[f] \in Evals
    BY <1>6 DEF LoadThrows, IsLoading, Namespaces, PageTypeOK
  <2>4. \A f \in Evals : IsLoading(f)' => IsLoading(f) /\ f # e /\ nsOf[f] # nsOf[e]
    BY <2>1, <2>2, <2>3 DEF IsLoading
  <2>5. pendingObsidianModule \in [Evals -> Evals \cup {Nil}]
    BY DEF PageTypeOK
  <2>6. \A f \in Evals : epc'[f] \in {"idle", "bootstrap"} => pendingObsidianModule'[f] = Nil
    BY <2>1, <2>2, <2>3, <2>5 DEF Loads
  <2> QED
    BY <2>1, <2>3, <2>4, <2>5, <2>6 DEF Loads
<1>7. ASSUME NEW e \in Evals, EndLoad(e) PROVE Loads'
  BY <1>7 DEF EndLoad, Sharing, IsLoading, RemoveFolder, ForgetPending, page, app, calls, pageHistory,
     Loads, Namespaces, PageTypeOK, InPage
<1>8. ASSUME NEW e \in Evals, EnterCallback(e) PROVE Loads'
  BY <1>8 DEF EnterCallback, page, app, calls, pageHistory, Loads, IsLoading, Namespaces, PageTypeOK, InPage
<1>9. ASSUME NEW e \in Evals, LeaveCallback(e) PROVE Loads'
  BY <1>9 DEF LeaveCallback, page, app, calls, pageHistory, Loads, IsLoading, Namespaces, PageTypeOK, InPage
<1>10. ASSUME PageReloads PROVE Loads'
  BY <1>10 DEF PageReloads, page, app, calls, pageHistory, Loads, IsLoading, Namespaces, PageTypeOK, InPage
<1>11. ASSUME InputStep \/ UNCHANGED pageVars PROVE Loads'
  BY <1>11, InputKeepsPage DEF PageKept, page, app, Loads, IsLoading
<1> QED
  BY <1>1, <1>2, <1>3, <1>4, <1>5, <1>6, <1>7, <1>8, <1>9, <1>10, <1>11 DEF PageNext, PageStep, InputStep

LEMMA PendingStep ==
  ASSUME PageTypeOK, Namespaces, Loads, PendingIsUnderWay, [PageNext]_pageVars
  PROVE  PendingIsUnderWay'
<1>1. ASSUME NEW e \in Evals, CheckVersion(e) PROVE PendingIsUnderWay'
  BY <1>1 DEF CheckVersion, page, app, calls, pageHistory, PendingIsUnderWay, IsLoading, PageTypeOK, InPage
<1>2. ASSUME NEW e \in Evals, bootstrapNamespace(e) PROVE PendingIsUnderWay'
  BY <1>2 DEF bootstrapNamespace, PendingIsUnderWay, Loads
<1>3. ASSUME NEW e \in Evals, evalWrapper(e) PROVE PendingIsUnderWay'
  <2>1. loading[e] = "no" /\ nsOf[e] = Nil /\ ns \in Evals /\ Nil \notin Evals
    BY <1>3, PageAssumption DEF evalWrapper, Namespaces, PageTypeOK
  <2>2. ns' = ns /\ \A f \in Evals \ {e} : (IsLoading(f) => IsLoading(f)') /\ nsOf'[f] = nsOf[f]
    BY <1>3 DEF evalWrapper, ShareOrLoad, StartLoad, NameTemporaryPlugin, IsLoading, PageTypeOK
  <2>3. \/ pendingObsidianModule'[ns] = e /\ IsLoading(e)' /\ nsOf'[e] = ns
        \/ pendingObsidianModule'[ns] = pendingObsidianModule[ns]
    BY <1>3, <2>1 DEF evalWrapper, ShareOrLoad, StartLoad, NameTemporaryPlugin, IsLoading, PageTypeOK
  <2>4. pendingObsidianModule[ns] # Nil => pendingObsidianModule[ns] \in Evals \ {e}
    BY <2>1 DEF PendingIsUnderWay, IsLoading, PageTypeOK
  <2> QED
    BY <2>1, <2>2, <2>3, <2>4 DEF PendingIsUnderWay
<1>4. ASSUME NEW e \in Evals, NoNamespace(e) PROVE PendingIsUnderWay'
  BY <1>4 DEF NoNamespace, page, PendingIsUnderWay
<1>5. ASSUME NEW e \in Evals, LoadStep(e) PROVE PendingIsUnderWay'
  BY <1>5, LoadGoesOn DEF pageHistory, PendingIsUnderWay, IsLoading, PageTypeOK
<1>6. ASSUME NEW e \in Evals, LoadThrows(e) \/ EndLoad(e) PROVE PendingIsUnderWay'
  <2>1. /\ ns' = ns /\ nsOf' = nsOf /\ pendingObsidianModule' = [pendingObsidianModule EXCEPT ![nsOf[e]] = Nil]
        /\ \A f \in Evals \ {e} : loading'[f] = loading[f]
        /\ \A f \in Evals \ Sharing(nsOf[e]) : epc'[f] = epc[f]
    BY <1>6 DEF LoadThrows, EndLoad, ForgetPending, PageTypeOK
  <2>2. IsLoading(e) /\ nsOf[e] \in Evals
    BY <1>6 DEF LoadThrows, EndLoad, IsLoading, Namespaces, PageTypeOK
  <2>3. ns \in Evals \cup {Nil} /\ pendingObsidianModule \in [Evals -> Evals \cup {Nil}]
    BY DEF PageTypeOK
  <2> QED
    BY <2>1, <2>2, <2>3 DEF PendingIsUnderWay, IsLoading, Sharing
<1>7. ASSUME NEW e \in Evals, EnterCallback(e) \/ LeaveCallback(e) PROVE PendingIsUnderWay'
  BY <1>7 DEF EnterCallback, LeaveCallback, page, PendingIsUnderWay, IsLoading, PageTypeOK
<1>8. ASSUME PageReloads PROVE PendingIsUnderWay'
  BY <1>8 DEF PageReloads, PendingIsUnderWay
<1>9. ASSUME InputStep \/ UNCHANGED pageVars PROVE PendingIsUnderWay'
  BY <1>9, InputKeepsPage DEF PageKept, page, PendingIsUnderWay, IsLoading, PageTypeOK
<1> QED
  BY <1>1, <1>2, <1>3, <1>4, <1>5, <1>6, <1>7, <1>8, <1>9 DEF PageNext, PageStep, InputStep

LEMMA LoadFailsStep ==
  ASSUME PageTypeOK, Loads, LoadFailsForAReason, [PageNext]_pageVars
  PROVE  LoadFailsForAReason'
<1>1. ASSUME NEW e \in Evals, CheckVersion(e) PROVE LoadFailsForAReason'
  BY <1>1 DEF CheckVersion, page, app, calls, pageHistory, Loads, IsLoading, LoadFailsForAReason, PageTypeOK,
     InPage
<1>2. ASSUME NEW e \in Evals, bootstrapNamespace(e) PROVE LoadFailsForAReason'
  BY <1>2 DEF bootstrapNamespace, existingContexts, existingObsidianModule, page, app, calls, pageHistory,
     Loads, IsLoading, LoadFailsForAReason, PageTypeOK, InPage
<1>3. ASSUME NEW e \in Evals, evalWrapper(e) PROVE LoadFailsForAReason'
  BY <1>3 DEF evalWrapper, ShareOrLoad, StartLoad, NameTemporaryPlugin, page, app, calls, pageHistory,
     Loads, IsLoading, LoadFailsForAReason, PageTypeOK, InPage
<1>4. ASSUME NEW e \in Evals, NoNamespace(e) PROVE LoadFailsForAReason'
  BY <1>4 DEF NoNamespace, page, app, calls, pageHistory, Loads, IsLoading, LoadFailsForAReason, PageTypeOK,
     InPage
<1>5. ASSUME NEW e \in Evals, LoadStep(e) PROVE LoadFailsForAReason'
  BY <1>5, LoadGoesOn DEF pageHistory, LoadFailsForAReason
<1>6. ASSUME NEW e \in Evals, LoadThrows(e) PROVE LoadFailsForAReason'
  BY <1>6 DEF LoadThrows, Sharing, StoreModule, Trouble, IsLoading, ForgetPending, page, app, calls,
     pageHistory, Loads, LoadFailsForAReason, PageTypeOK, InPage
<1>7. ASSUME NEW e \in Evals, EndLoad(e) PROVE LoadFailsForAReason'
  BY <1>7 DEF EndLoad, Sharing, IsLoading, RemoveFolder, ForgetPending, page, app, calls, pageHistory, Loads,
     LoadFailsForAReason, PageTypeOK, InPage
<1>8. ASSUME NEW e \in Evals, EnterCallback(e) PROVE LoadFailsForAReason'
  BY <1>8 DEF EnterCallback, page, app, calls, pageHistory, Loads, IsLoading, LoadFailsForAReason,
     PageTypeOK, InPage
<1>9. ASSUME NEW e \in Evals, LeaveCallback(e) PROVE LoadFailsForAReason'
  BY <1>9 DEF LeaveCallback, page, app, calls, pageHistory, Loads, IsLoading, LoadFailsForAReason,
     PageTypeOK, InPage
<1>10. ASSUME PageReloads PROVE LoadFailsForAReason'
  BY <1>10 DEF PageReloads, page, app, calls, pageHistory, Loads, IsLoading, LoadFailsForAReason, PageTypeOK,
     InPage
<1>11. ASSUME InputStep \/ UNCHANGED pageVars PROVE LoadFailsForAReason'
  BY <1>11, InputKeepsPage DEF PageKept, page, app, LoadFailsForAReason
<1> QED
  BY <1>1, <1>2, <1>3, <1>4, <1>5, <1>6, <1>7, <1>8, <1>9, <1>10, <1>11 DEF PageNext, PageStep, InputStep

LEMMA FoldersStep ==
  ASSUME PageTypeOK, Namespaces, Loads, NothingLeftOfLoads, [PageNext]_pageVars
  PROVE  NothingLeftOfLoads'
<1>1. ASSUME NEW e \in Evals, CheckVersion(e) PROVE NothingLeftOfLoads'
  BY <1>1 DEF CheckVersion, page, app, calls, pageHistory, Loads, IsLoading, Namespaces, NothingLeftOfLoads,
     PageTypeOK, InPage
<1>2. ASSUME NEW e \in Evals, bootstrapNamespace(e) PROVE NothingLeftOfLoads'
  BY <1>2 DEF bootstrapNamespace, existingContexts, existingObsidianModule, page, app, calls, pageHistory,
     Loads, IsLoading, Namespaces, NothingLeftOfLoads, PageTypeOK, InPage
<1>3. ASSUME NEW e \in Evals, evalWrapper(e) PROVE NothingLeftOfLoads'
  BY <1>3 DEF evalWrapper, ShareOrLoad, StartLoad, NameTemporaryPlugin, page, app, calls, pageHistory,
     Loads, IsLoading, Namespaces, NothingLeftOfLoads, PageTypeOK, InPage
<1>4. ASSUME NEW e \in Evals, NoNamespace(e) PROVE NothingLeftOfLoads'
  BY <1>4 DEF NoNamespace, page, app, calls, pageHistory, Loads, IsLoading, Namespaces, NothingLeftOfLoads,
     PageTypeOK, InPage
<1>5. ASSUME NEW e \in Evals, LoadStep(e) PROVE NothingLeftOfLoads'
  BY <1>5, LoadGoesOn DEF pageHistory, NothingLeftOfLoads, IsLoading, PageTypeOK
<1>6. ASSUME NEW e \in Evals, LoadThrows(e) PROVE NothingLeftOfLoads'
  BY <1>6 DEF LoadThrows, Sharing, StoreModule, Trouble, IsLoading, ForgetPending, page, app, calls,
     pageHistory, Loads, Namespaces, NothingLeftOfLoads, PageTypeOK, InPage
<1>7. ASSUME NEW e \in Evals, EndLoad(e) PROVE NothingLeftOfLoads'
  <2>1. /\ folders' \subseteq folders /\ manifests' = manifests /\ threw' = threw
        /\ excused \subseteq excused' /\ (e \in folders' => e \in excused')
    BY <1>7 DEF EndLoad, RemoveFolder
  <2>2. ASSUME NEW f \in Evals, f # e, IsLoading(f) PROVE IsLoading(f)'
    <3>1. IsLoading(e) /\ nsOf[f] # nsOf[e]
      BY <1>7, <2>2 DEF EndLoad, Loads
    <3> QED
      BY <1>7, <2>2, <3>1 DEF EndLoad, Sharing, IsLoading, PageTypeOK
  <2>3. loading[e] = "unloaded" /\ \A f \in Evals \ {e} : loading'[f] = loading[f]
    BY <1>7 DEF EndLoad, PageTypeOK
  <2> QED
    BY <2>1, <2>2, <2>3 DEF NothingLeftOfLoads, PageTypeOK
<1>8. ASSUME NEW e \in Evals, EnterCallback(e) PROVE NothingLeftOfLoads'
  BY <1>8 DEF EnterCallback, page, app, calls, pageHistory, Loads, IsLoading, Namespaces, NothingLeftOfLoads,
     PageTypeOK, InPage
<1>9. ASSUME NEW e \in Evals, LeaveCallback(e) PROVE NothingLeftOfLoads'
  BY <1>9 DEF LeaveCallback, page, app, calls, pageHistory, Loads, IsLoading, Namespaces, NothingLeftOfLoads,
     PageTypeOK, InPage
<1>10. ASSUME PageReloads PROVE NothingLeftOfLoads'
  BY <1>10 DEF PageReloads, page, app, calls, pageHistory, Loads, IsLoading, Namespaces, NothingLeftOfLoads,
     PageTypeOK, InPage
<1>11. ASSUME InputStep \/ UNCHANGED pageVars PROVE NothingLeftOfLoads'
  BY <1>11, InputKeepsPage DEF PageKept, page, app, NothingLeftOfLoads, IsLoading, PageTypeOK
<1> QED
  BY <1>1, <1>2, <1>3, <1>4, <1>5, <1>6, <1>7, <1>8, <1>9, <1>10, <1>11 DEF PageNext, PageStep, InputStep

LEMMA ContextsStep ==
  ASSUME PageTypeOK, Namespaces, Contexts, [PageNext]_pageVars
  PROVE  Contexts'
<1>1. ASSUME NEW e \in Evals, CheckVersion(e) PROVE Contexts'
  BY <1>1 DEF CheckVersion, page, app, calls, pageHistory, Contexts, Namespaces, PageTypeOK, ContextIds,
     InPage
<1>2. ASSUME NEW e \in Evals, bootstrapNamespace(e) PROVE Contexts'
  BY <1>2 DEF bootstrapNamespace, existingContexts, existingObsidianModule, page, app, calls, pageHistory,
     Contexts, Namespaces, PageTypeOK, ContextIds, InPage
<1>3. ASSUME NEW e \in Evals, evalWrapper(e) PROVE Contexts'
  BY <1>3 DEF evalWrapper, ShareOrLoad, StartLoad, NameTemporaryPlugin, page, app, calls, pageHistory,
     Contexts, Namespaces, PageTypeOK, ContextIds, InPage
<1>4. ASSUME NEW e \in Evals, NoNamespace(e) PROVE Contexts'
  BY <1>4 DEF NoNamespace, page, app, calls, pageHistory, Contexts, Namespaces, PageTypeOK, ContextIds, InPage
<1>5. ASSUME NEW e \in Evals, LoadStep(e) PROVE Contexts'
  BY <1>5, LoadGoesOn DEF pageHistory, Contexts
<1>6. ASSUME NEW e \in Evals, LoadThrows(e) PROVE Contexts'
  BY <1>6 DEF LoadThrows, Sharing, StoreModule, Trouble, IsLoading, ForgetPending, page, app, calls,
     pageHistory, Contexts, Namespaces, PageTypeOK, ContextIds, InPage
<1>7. ASSUME NEW e \in Evals, EndLoad(e) PROVE Contexts'
  BY <1>7 DEF EndLoad, Sharing, IsLoading, RemoveFolder, ForgetPending, page, app, calls, pageHistory,
     Contexts, Namespaces, PageTypeOK, ContextIds, InPage
<1>8. ASSUME NEW e \in Evals, EnterCallback(e) PROVE Contexts'
  <2>1. \A f \in Evals : epc'[f] = IF f = e THEN "callback" ELSE epc[f]
    BY <1>8 DEF EnterCallback, PageTypeOK
  <2>2. context[e] = Nil /\ nsOf[e] # Nil
    BY <1>8 DEF EnterCallback, Contexts, Namespaces
  <2>3. CASE ContextOf[e] = Nil
    BY <1>8, <2>1, <2>2, <2>3 DEF EnterCallback, Contexts
  <2>4. CASE ContextOf[e] # Nil
    <3>1. /\ contexts \in [ContextIds -> Evals \cup {Nil}] /\ context \in [Evals -> Evals \cup {Nil}]
          /\ Nil \notin Evals /\ \A f \in Evals : ContextOf[f] # Nil => ContextOf[f] \in ContextIds
      BY PageAssumption DEF PageTypeOK, ContextIds
    <3>2. PICK c \in Evals : c = IF contexts[ContextOf[e]] = Nil THEN e ELSE contexts[ContextOf[e]]
      BY <2>4, <3>1
    <3>3. contexts' = [contexts EXCEPT ![ContextOf[e]] = c] /\ context' = [context EXCEPT ![e] = c]
      BY <1>8, <2>4, <3>2 DEF EnterCallback
    <3>4. /\ \A k \in ContextIds : contexts'[k] = IF k = ContextOf[e] THEN c ELSE contexts[k]
          /\ \A f \in Evals : context'[f] = IF f = e THEN c ELSE context[f]
      BY <2>4, <3>1, <3>3
    <3>5. nsOf' = nsOf
      BY <1>8 DEF EnterCallback
    <3> QED
      BY <2>1, <2>2, <2>4, <3>1, <3>2, <3>4, <3>5 DEF Contexts
  <2> QED
    BY <2>3, <2>4
<1>9. ASSUME NEW e \in Evals, LeaveCallback(e) PROVE Contexts'
  BY <1>9 DEF LeaveCallback, page, app, calls, pageHistory, Contexts, Namespaces, PageTypeOK, ContextIds,
     InPage
<1>10. ASSUME PageReloads PROVE Contexts'
  BY <1>10 DEF PageReloads, page, app, calls, pageHistory, Contexts, Namespaces, PageTypeOK, ContextIds,
     InPage
<1>11. ASSUME InputStep \/ UNCHANGED pageVars PROVE Contexts'
  BY <1>11, InputKeepsPage DEF PageKept, page, app, Contexts
<1> QED
  BY <1>1, <1>2, <1>3, <1>4, <1>5, <1>6, <1>7, <1>8, <1>9, <1>10, <1>11 DEF PageNext, PageStep, InputStep

-----------------------------------------------------------------------------
(* The steps and the invariant of the requests.                            *)

LEMMA NumbersStep ==
  ASSUME PageTypeOK, Namespaces, Numbers, Asked, [PageNext]_pageVars
  PROVE  Numbers'
<1>1. ASSUME NEW e \in Evals, requestHostInput(e) PROVE Numbers'
  <2>1. PICK n \in Evals : n = nsOf[e]
    BY <1>1, NextInputId
  <2>2. /\ nextInputId \in [Evals -> 0..Cardinality(Evals)] /\ idOf \in [Evals -> 0..Cardinality(Evals)]
        /\ nextInputId' = [nextInputId EXCEPT ![n] = @ + 1]
        /\ idOf' = [idOf EXCEPT ![e] = nextInputId[n] + 1]
        /\ nsOf' = nsOf /\ Nil \notin Evals
        /\ nsOf \in [Evals -> Evals \cup {Nil}]
    BY <1>1, <2>1, PageAssumption DEF requestHostInput, calls, PageTypeOK
  <2>3. \A m \in Evals : nextInputId[m] \in Nat /\ nextInputId'[m] = nextInputId[m] + (IF m = n THEN 1 ELSE 0)
    BY <2>2, PageAssumption, FS_CardinalityType
  <2>4. \A f \in Evals : idOf[f] \in Nat /\ idOf'[f] = IF f = e THEN nextInputId[n] + 1 ELSE idOf[f]
    BY <2>2, PageAssumption, FS_CardinalityType
  <2>5. \A f \in Evals : idOf[f] # 0 => nsOf[f] \in Evals /\ idOf[f] <= nextInputId[nsOf[f]]
    BY <2>2 DEF Numbers
  <2>6. \A f \in Evals : idOf'[f] # 0 => nsOf'[f] # Nil /\ idOf'[f] <= nextInputId'[nsOf'[f]]
    BY <2>1, <2>2, <2>3, <2>4, <2>5
  <2>7. \A f, g \in Evals : nsOf'[f] = nsOf'[g] /\ idOf'[f] = idOf'[g] /\ idOf'[f] # 0 => f = g
    BY <2>1, <2>2, <2>3, <2>4, <2>5 DEF Numbers
  <2> QED
    BY <1>1, <2>6, <2>7, NextInputId DEF Numbers
<1>2. ASSUME UNCHANGED <<idOf, nextInputId>>, \A e \in Evals : nsOf'[e] = nsOf[e] \/ (idOf[e] = 0 /\ nsOf[e] = Nil)
      PROVE Numbers'
  <2>1. \A n \in Evals : Requesting(n)' = Requesting(n)
    BY <1>2, PageAssumption DEF Requesting, Numbers
  <2> QED
    BY <1>2, <2>1 DEF Numbers
<1>3. ASSUME NEW e \in Evals, evalWrapper(e) PROVE Numbers'
  <2>1. \A f \in Evals : nsOf'[f] = nsOf[f] \/ (idOf[f] = 0 /\ nsOf[f] = Nil)
    BY <1>3 DEF evalWrapper, PageTypeOK, Namespaces, Numbers
  <2> QED
    BY <1>2, <1>3, <2>1 DEF evalWrapper, input
<1>4. CASE UNCHANGED <<idOf, nextInputId, nsOf>>
  BY <1>2, <1>4
<1>5. ASSUME InputStep \/ UNCHANGED pageVars, \A e \in Evals : ~requestHostInput(e)
      PROVE UNCHANGED <<idOf, nextInputId, nsOf>>
  BY <1>5 DEF InputStep, InputTimesOut, claimInput, sendAll, resolveInput, HostFails, HostDetaches, calls,
     input, app, pageVars
<1>6. ASSUME NEW e \in Evals, CheckVersion(e) \/ bootstrapNamespace(e) \/ NoNamespace(e) \/ LoadThrows(e)
             \/ EndLoad(e) \/ EnterCallback(e) \/ LeaveCallback(e)
      PROVE UNCHANGED <<idOf, nextInputId, nsOf>>
  BY <1>6 DEF CheckVersion, bootstrapNamespace, NoNamespace, LoadThrows, EndLoad,
     EnterCallback, LeaveCallback, calls, input
<1>7. CASE PageReloads
  BY <1>4, <1>7 DEF PageReloads
<1>8. ASSUME NEW e \in Evals, LoadStep(e) PROVE UNCHANGED <<idOf, nextInputId, nsOf>>
  BY <1>8, LoadGoesOn DEF input
<1> QED
  BY <1>1, <1>3, <1>4, <1>5, <1>6, <1>7, <1>8 DEF PageNext, PageStep, InputStep

LEMMA AskedStep ==
  ASSUME PageTypeOK, Namespaces, Numbers, Asked, [PageNext]_pageVars
  PROVE  Asked'
<1>1. ASSUME NEW e \in Evals, requestHostInput(e) PROVE Asked'
  <2>0. nextInputId[nsOf[e]] + 1 # 0
    BY <1>1, NextInputId, PageAssumption, FS_CardinalityType
  <2>1. /\ \A f \in Evals \ {e} : idOf'[f] = idOf[f] /\ epc'[f] = epc[f]
        /\ idOf'[e] # 0 /\ epc'[e] = "input" /\ answer' = answer
    BY <1>1, <2>0 DEF requestHostInput, PageTypeOK
  <2>2. \A t \in tasks' : t \in tasks \/ t.request = e
    BY <1>1 DEF requestHostInput
  <2>3. \A t \in tasks : t.request \in Evals
    BY DEF PageTypeOK, Tasks
  <2> QED
    BY <2>1, <2>2, <2>3 DEF Asked
<1>2. ASSUME NEW e \in Evals, InputTimesOut(e) PROVE Asked'
  BY <1>2 DEF InputTimesOut, SettleInput, page, app, calls, input, pageHistory, Asked, PageTypeOK, InPage,
     Ended
<1>3. ASSUME NEW t \in tasks, claimInput(t) PROVE Asked'
  BY <1>3, OneMoves DEF claimInput, LoserReturns, calls, Asked
<1>4. ASSUME NEW t \in tasks, sendAll(t) PROVE Asked'
  BY <1>4, OneMoves DEF sendAll, calls, Asked
<1>5. ASSUME NEW t \in tasks, resolveInput(t) PROVE Asked'
  BY <1>5, OneIsAnswered DEF Asked
<1>6. ASSUME NEW t \in tasks, HostFails(t) PROVE Asked'
  BY <1>6, OneMoves DEF HostFails, calls, Asked
<1>7. ASSUME NEW h \in Hosts, HostDetaches(h) PROVE Asked'
  BY <1>7 DEF HostDetaches, Trouble, page, app, calls, input, pageHistory, Asked, PageTypeOK, InPage, Ended
<1>8. ASSUME ~InputStep PROVE Asked'
  <2>1. UNCHANGED <<idOf, tasks, answer>>
    BY <1>8, PageKeepsInput DEF InputKept
  <2>2. \A e \in Evals : /\ epc'[e] = "input" => epc[e] = "input"
                         /\ epc[e] \in {"input", "lost"} => epc'[e] \in {"input", "lost"}
    BY <1>8, PageKeepsInput DEF InputKept
  <2> QED
    BY <2>1, <2>2 DEF Asked
<1> QED
  BY <1>1, <1>2, <1>3, <1>4, <1>5, <1>6, <1>7, <1>8 DEF InputStep

\* A call is given its namespace once.
LEMMA NamespaceOnce ==
  ASSUME PageTypeOK, Namespaces, [PageNext]_pageVars
  PROVE  \A e \in Evals : nsOf'[e] = nsOf[e] \/ nsOf[e] = Nil
<1>1. ASSUME NEW e \in Evals, evalWrapper(e) PROVE \A f \in Evals : nsOf'[f] = nsOf[f] \/ nsOf[f] = Nil
  BY <1>1 DEF evalWrapper, Namespaces, PageTypeOK
<1>2. ASSUME InputStep \/ UNCHANGED pageVars PROVE UNCHANGED nsOf
  BY <1>2, InputKeepsPage DEF PageKept
<1>3. ASSUME NEW e \in Evals, CheckVersion(e) \/ bootstrapNamespace(e) \/ NoNamespace(e) \/ LoadThrows(e)
             \/ EndLoad(e) \/ EnterCallback(e) \/ LeaveCallback(e)
      PROVE UNCHANGED nsOf
  BY <1>3 DEF CheckVersion, bootstrapNamespace, NoNamespace, LoadThrows, EndLoad,
     EnterCallback, LeaveCallback
<1>4. CASE PageReloads
  BY <1>4 DEF PageReloads
<1>5. ASSUME NEW e \in Evals, LoadStep(e) PROVE UNCHANGED nsOf
  BY <1>5, LoadGoesOn
<1> QED
  BY <1>1, <1>2, <1>3, <1>4, <1>5 DEF PageNext, PageStep, InputStep

LEMMA ClaimsStep ==
  ASSUME PageTypeOK, Namespaces, Numbers, Asked, Claims, [PageNext]_pageVars
  PROVE  Claims'
<1>a. /\ injectors \in [Evals -> SUBSET Hosts]
      /\ \A t \in tasks : t.request \in Evals /\ t.host \in Hosts /\ idOf[t.request] # 0
  BY DEF PageTypeOK, Tasks, Asked
<1>b. \A r \in Evals : Serving(r) # {} => idOf[r] # 0 /\ nsOf[r] # Nil /\ nsOf[r] \in Evals
  BY DEF Serving, Claims, Asked, Numbers, PageTypeOK
<1>1. ASSUME UNCHANGED <<idOf, injectors, claimedInputIds>>, tasks' \subseteq tasks, strays \subseteq strays',
             \A e \in Evals : nsOf'[e] = nsOf[e] \/ nsOf[e] = Nil
      PROVE Claims'
  <2>1. \A r \in Evals : Serving(r)' \subseteq Serving(r)
    BY <1>1 DEF Serving
  <2> QED
    BY <1>1, <1>b, <2>1 DEF Claims
<1>2. ASSUME ~InputStep PROVE Claims'
  <2>1. \A e \in Evals : nsOf'[e] = nsOf[e] \/ nsOf[e] = Nil
    BY NamespaceOnce
  <2> QED
    BY <1>1, <1>2, <2>1, PageKeepsInput DEF InputKept
<1>4. ASSUME NEW e \in Evals, InputTimesOut(e) PROVE Claims'
  BY <1>1, <1>4 DEF InputTimesOut, pageHistory
<1>3. ASSUME NEW h \in Hosts, HostDetaches(h) PROVE Claims'
  BY <1>1, <1>3 DEF HostDetaches, calls, pageHistory
<1>5. ASSUME NEW t \in tasks, resolveInput(t) PROVE Claims'
  BY <1>1, <1>5, OneIsAnswered
<1>6. ASSUME NEW e \in Evals, requestHostInput(e) PROVE Claims'
  <2>1. idOf[e] = 0 /\ \A r \in Evals \ {e} : idOf'[r] = idOf[r]
    BY <1>6, NextInputId DEF requestHostInput, PageTypeOK
  <2>2. UNCHANGED <<nsOf, injectors, claimedInputIds, strays>>
    BY <1>6 DEF requestHostInput, calls, pageHistory
  <2>3. \A u \in tasks' : u \in tasks \/ u.at = "claim"
    BY <1>6 DEF requestHostInput
  <2>4. \A r \in Evals : Serving(r)' \subseteq Serving(r)
    BY <2>2, <2>3 DEF Serving, AtIt
  <2>5. \A t \in tasks' : t.at = "resolve" => injectors'[t.request] # {}
    BY <2>2, <2>3 DEF Claims
  <2>6. \A r \in Evals : Serving(r)' # {} \/ injectors'[r] # {} => r # e
    BY <1>b, <2>1, <2>2, <2>4 DEF Claims
  <2> QED
    BY <2>1, <2>2, <2>4, <2>5, <2>6 DEF Claims
<1>7. ASSUME NEW t \in tasks, claimInput(t) PROVE Claims'
  <2>1. UNCHANGED <<idOf, nsOf, injectors>> /\ strays' = IF ns = nsOf[t.request] THEN strays ELSE strays \cup {t.request}
    BY <1>7 DEF claimInput, Stray, calls
  <2>2. CASE ns # Nil /\ idOf[t.request] \in claimedInputIds[ns]
    BY <1>1, <1>7, <2>1, <2>2 DEF claimInput, LoserReturns
  <2>3. CASE ~(ns # Nil /\ idOf[t.request] \in claimedInputIds[ns])
    <3>1. Move(t, "inject") /\ \A n \in Evals : claimedInputIds[n] \subseteq claimedInputIds'[n]
      BY <1>7, <2>3 DEF claimInput, PageTypeOK
    <3>2. ns \in Evals => idOf[t.request] \in claimedInputIds'[ns]
      BY <1>7, <2>3, PageAssumption DEF claimInput, PageTypeOK
    <3>3. \A r \in Evals \ {t.request} : Serving(r)' \subseteq Serving(r)
      BY <2>1, <3>1, OneMoves DEF Serving
    <3>4. Serving(t.request)' \subseteq Serving(t.request) \cup {t.host}
      BY <2>1, <3>1, OneMoves DEF Serving
    <3>5. t.request \notin strays' => /\ t.request \notin strays /\ nsOf[t.request] = ns /\ ns \in Evals
                                       /\ Serving(t.request) = {}
      BY <1>a, <2>1, <2>3 DEF Claims, Asked, Numbers, PageTypeOK
    <3>6. \A u \in tasks' : u.at = "resolve" => injectors'[u.request] # {}
      BY <2>1, <3>1, OneMoves DEF Claims
    <3>7. strays \subseteq strays'
      BY <2>1
    <3> QED
      BY <1>b, <2>1, <3>1, <3>2, <3>3, <3>4, <3>5, <3>6, <3>7 DEF Claims
  <2> QED
    BY <2>2, <2>3
<1>8. ASSUME NEW t \in tasks, sendAll(t) \/ HostFails(t) PROVE Claims'
  <2>1. UNCHANGED <<idOf, nsOf, claimedInputIds, strays>>
    BY <1>8 DEF sendAll, HostFails, calls
  <2>2. PICK to \in {"resolve", "reject"} : Move(t, to) /\ (to = "resolve" => t.at = "inject" /\ t.host \in injectors'[t.request])
    BY <1>8, <1>a DEF sendAll, HostFails
  <2>3. \A r \in Evals : /\ injectors[r] \subseteq injectors'[r]
                         /\ injectors'[r] # injectors[r] =>
                              r = t.request /\ t.at = "inject" /\ injectors'[r] = injectors[r] \cup {t.host}
    BY <1>8, <1>a DEF sendAll, HostFails
  <2>4. \A u \in tasks' : u \in tasks \/ (u.request = t.request /\ u.host = t.host /\ u.at = to)
    BY <2>2, OneMoves
  <2>5. \A r \in Evals : Serving(r)' \subseteq Serving(r)
    BY <2>2, <2>3, <2>4 DEF Serving, AtIt
  <2>6. \A u \in tasks' : u.at = "resolve" => injectors'[u.request] # {}
    BY <1>a, <2>2, <2>3, <2>4 DEF Claims
  <2> QED
    BY <1>a, <2>1, <2>3, <2>5, <2>6 DEF Claims
<1> QED
  BY <1>2, <1>3, <1>4, <1>5, <1>6, <1>7, <1>8 DEF InputStep

LEMMA AnsweredStep ==
  ASSUME PageTypeOK, Namespaces, Numbers, Asked, Claims, AnsweredByItsGesture, [PageNext]_pageVars
  PROVE  AnsweredByItsGesture'
<1>1. ASSUME NEW e \in Evals, requestHostInput(e) PROVE AnsweredByItsGesture'
  BY <1>1, NextInputId DEF requestHostInput, page, app, calls, input, pageHistory, Claims, Asked,
     AnsweredByItsGesture, PageTypeOK, Tasks
<1>2. ASSUME NEW e \in Evals, InputTimesOut(e) PROVE AnsweredByItsGesture'
  BY <1>2 DEF InputTimesOut, SettleInput, page, app, calls, input, pageHistory, Claims, Asked,
     AnsweredByItsGesture, PageTypeOK, Tasks
<1>3. ASSUME NEW t \in tasks, claimInput(t) PROVE AnsweredByItsGesture'
  BY <1>3 DEF claimInput, LoserReturns, Move, Stray, page, app, calls, input, pageHistory, Claims, Asked,
     AnsweredByItsGesture, PageTypeOK, Tasks
<1>4. ASSUME NEW t \in tasks, sendAll(t) PROVE AnsweredByItsGesture'
  BY <1>4 DEF sendAll, Move, page, app, calls, input, pageHistory, Claims, Asked, AnsweredByItsGesture,
     PageTypeOK, Tasks
<1>5. ASSUME NEW t \in tasks, resolveInput(t) PROVE AnsweredByItsGesture'
  <2>1. \A e \in AnsweredBy(t) : idOf[e] = idOf[t.request] /\ nsOf[e] = ns /\ e \in Evals
    BY DEF AnsweredBy, PageTypeOK
  <2>2. t.request \in Evals /\ idOf[t.request] # 0
    BY DEF PageTypeOK, Tasks, Asked
  <2>3. ASSUME NEW e \in Evals, answer'[e] = "ok", answer[e] # "ok"
        PROVE  e \in AnsweredBy(t) /\ t.at = "resolve"
    BY <1>5, <2>3, OneIsAnswered
  <2>4. t.at = "resolve" => injectors[t.request] # {}
    BY DEF Claims
  <2>5. t.request \in strays' \/ ns = nsOf[t.request]
    BY <1>5 DEF resolveInput, Stray
  <2> QED
    BY <1>5, <2>1, <2>2, <2>3, <2>4, <2>5, OneIsAnswered DEF Numbers, AnsweredByItsGesture
<1>6. ASSUME NEW t \in tasks, HostFails(t) PROVE AnsweredByItsGesture'
  BY <1>6 DEF HostFails, Move, Trouble, page, app, calls, input, pageHistory, Claims, Asked,
     AnsweredByItsGesture, PageTypeOK, Tasks
<1>7. ASSUME NEW h \in Hosts, HostDetaches(h) PROVE AnsweredByItsGesture'
  BY <1>7 DEF HostDetaches, Trouble, page, app, calls, input, pageHistory, Claims, Asked,
     AnsweredByItsGesture, PageTypeOK, Tasks
<1>8. ASSUME ~InputStep PROVE AnsweredByItsGesture'
  BY <1>8, PageKeepsInput DEF InputKept, AnsweredByItsGesture
<1> QED
  BY <1>1, <1>2, <1>3, <1>4, <1>5, <1>6, <1>7, <1>8 DEF InputStep

-----------------------------------------------------------------------------
(* The theorems.                                                           *)

LEMMA PageIInvInit ==
  PageInit => PageIInv
<1> SUFFICES ASSUME PageInit PROVE PageIInv
  OBVIOUS
<1>1. PageTypeOK
  BY PageTypeInit
<1>2. Namespaces /\ Loads /\ Contexts /\ LibIsOwn /\ PendingIsUnderWay
      /\ LoadFailsForAReason /\ NothingLeftOfLoads
  BY PageAssumption DEF PageInit, PendingIsUnderWay, Namespaces, Loads, IsLoading, Contexts, LibIsOwn,
     LoadFailsForAReason,
     NothingLeftOfLoads, InPage
<1>3. Numbers
  <2>1. \A n \in Evals : Requesting(n) = {}
    BY DEF PageInit, Requesting
  <2> QED
    BY <2>1, FS_EmptySet DEF PageInit, Numbers
<1>4. Asked /\ Claims /\ AnsweredByItsGesture
  BY DEF PageInit, Asked, Claims, Serving, AnsweredByItsGesture
<1> QED
  BY <1>1, <1>2, <1>3, <1>4 DEF PageIInv, NamespaceIInv

LEMMA PageIInvStep ==
  PageIInv /\ [PageNext]_pageVars => PageIInv'
<1> SUFFICES ASSUME PageIInv, [PageNext]_pageVars PROVE PageIInv'
  OBVIOUS
<1>1. PageTypeOK' /\ Namespaces' /\ Loads' /\ Contexts'
  BY PageTypeStep, NamespacesStep, LoadsStep, ContextsStep DEF PageIInv, NamespaceIInv
<1>2. LibIsOwn' /\ PendingIsUnderWay' /\ LoadFailsForAReason' /\ NothingLeftOfLoads'
  BY LibIsOwnStep, PendingStep, LoadFailsStep, FoldersStep DEF PageIInv, NamespaceIInv
<1>3. Numbers' /\ Asked' /\ Claims' /\ AnsweredByItsGesture'
  BY NumbersStep, AskedStep, ClaimsStep, AnsweredStep DEF PageIInv, NamespaceIInv
<1> QED
  BY <1>1, <1>2, <1>3 DEF PageIInv, NamespaceIInv

(* A gesture that any number of hosts hear of is made by one of them, and a request is answered with
   success when its gesture was made, however hosts and the page come and go in between; the
   exceptions are requests that a host took to another namespace. *)
THEOREM GesturesAreMadeOnce == PageSpec => []GestureInv
<1> QED BY PageIInvInit, PageIInvStep, OneGesture, PTL DEF PageSpec

(* Any number of evaluations on a page, of hosts with different libs, are given what they would have
   got alone: their own lib, one load of the module, their context; a load that has thrown is not shared
   on, and nothing of one is left but where it threw, its folder could not be removed or the page went. *)
THEOREM EvaluationsShareThePage == PageSpec => []NamespaceInv
<1>1. PageIInv => NamespaceInv
  BY SharedLoadsAndContexts DEF PageIInv
<1> QED BY <1>1, PageIInvInit, PageIInvStep, PTL DEF PageSpec
=============================================================================
