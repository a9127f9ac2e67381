----------------------------- MODULE SetupLock -----------------------------
(***************************************************************************)
(* The cross-process setup lock (src/setup/setup-lock.ts): one sentinel    *)
(* file per scope, created with an exclusive open, kept fresh by a         *)
(* heartbeat, removed on release and stolen once its text says that the    *)
(* holder is gone.                                                         *)
(*                                                                         *)
(* The grain is the file-system call: between any two calls of one run any *)
(* other run may take steps, and a run may crash.  writeFileSync is two    *)
(* calls (open, which creates or truncates the file, then write); a file   *)
(* that is open for writing and then unlinked keeps taking the writes of   *)
(* its descriptor, which no longer reach the lock path.                    *)
(***************************************************************************)
EXTENDS Naturals, FiniteSets

CONSTANTS
  Runs,        (* the processes that compete for one scope; a run is a pid on a host *)
  Reapers,     (* the runs that call tryAcquireSetupLock; the others call acquireSetupLock *)
  CrashProne,  (* the runs that may be killed at any point *)
  Stallable,   (* the runs whose heartbeat may fail to land for minutes *)
  HostOf,      (* the host a run is on *)
  Absent,      (* the text of a lock path at which there is no file *)
  Torn         (* the text of a lock file that does not parse *)

ASSUME LockAssumption ==
  /\ Reapers \subseteq Runs
  /\ CrashProne \subseteq Runs
  /\ Stallable \subseteq Runs
  /\ DOMAIN HostOf = Runs
  /\ Absent \notin Runs /\ Torn \notin Runs /\ Absent # Torn

VARIABLES
  pc,        (* pc[r]: the next file-system call of run r *)
  text,      (* whom the lock file names: a run, Torn, or Absent *)
  age,       (* silence of the file's heartbeat: 0 fresh, 1 over 2 min, 2 over 30 min *)
  linked,    (* the runs holding an open descriptor of the file at the lock path *)
  late,      (* the waiting runs whose acquisition deadline has passed *)
  beating,   (* the runs whose heartbeat timer is armed *)
  recycled,  (* the crashed runs whose pid another process has been given *)
  robbed,    (* history: a steal has removed the lock file of a live run *)
  mistaken   (* history: a run acts on a read of its file that tells it nothing any more *)

vars == <<pc, text, age, linked, late, beating, recycled, robbed, mistaken>>

-----------------------------------------------------------------------------
(* Locations.  A run owns the lock from the exclusive open to the unlink   *)
(* of its release; it holds the lock while its SetupLock handle is live.   *)

Claiming == {"creating", "recreating"}
Holding  == {"holding", "refreshing", "rewriting"}
Owning   == Holding \cup {"writing", "releasing"}
Location == Claiming \cup Owning \cup {"idle", "reading", "stealing", "waiting", "crashed"}

\* Between the read of the lock file and the rewrite or the unlink it allowed.
Acting == {"refreshing", "releasing"}

Holders == {r \in Runs : pc[r] \in Holding}
Owners  == {r \in Runs : pc[r] \in Owning}

TypeOK ==
  /\ pc \in [Runs -> Location]
  /\ text \in Runs \cup {Absent, Torn}
  /\ age \in 0..2
  /\ linked \subseteq Runs
  /\ late \subseteq Runs
  /\ beating \subseteq Holders
  /\ recycled \subseteq Runs
  /\ robbed \in BOOLEAN
  /\ mistaken \in BOOLEAN

Init ==
  /\ pc = [r \in Runs |-> "idle"]
  /\ text = Absent
  /\ age = 0
  /\ linked = {}
  /\ late = {}
  /\ beating = {}
  /\ recycled = {}
  /\ robbed = FALSE
  /\ mistaken = FALSE

Goto(r, location) == pc' = [pc EXCEPT ![r] = location]

-----------------------------------------------------------------------------
(* What a reader concludes from the text of the file.                      *)

\* Signal 0 finds a process: the run itself, or a stranger that has its pid.
checkIsProcessAlive(r) == pc[r] # "crashed" \/ r \in recycled

Readable == text \notin {Absent, Torn}

checkIsOwnLock(r) == text = r

\* The silence run r tolerates from a same-host holder whose pid is alive.
Patience(r) == IF r \in Reapers THEN 1 ELSE 0

\* Mutant: a lock is judged by the pid on its own host and by nothing else.
StaleByPidAlone(r, patience) == HostOf[text] = HostOf[r] /\ ~checkIsProcessAlive(text)

\* checkIsLockStale on the file as it is now, judged by r with that patience.
checkIsLockStale(r, patience) ==
  IF HostOf[text] = HostOf[r]
  THEN ~checkIsProcessAlive(text) \/ age > patience
  ELSE age > 1

\* Mutant: an unreadable file holds nothing.
HeldIfReadable(r) == Readable /\ ~checkIsLockStale(r, 0)

\* The answer of checkIsSetupLockHeld to a caller on the host of r.
checkIsSetupLockHeld(r) ==
  text # Absent /\ (Readable => ~checkIsLockStale(r, 0))

-----------------------------------------------------------------------------
(* Acquisition.                                                            *)

Start(r) ==
  /\ pc[r] = "idle"
  /\ Goto(r, "creating")
  /\ late' = late \ {r}
  /\ UNCHANGED <<text, age, linked, beating, recycled, robbed, mistaken>>

\* Mutant: the open without the exclusive flag, which truncates what it finds.
CreateOrTruncate(r) ==
  /\ pc[r] \in Claiming
  /\ text' = Torn
  /\ age' = 0
  /\ linked' = linked \cup {r}
  /\ Goto(r, "writing")
  /\ UNCHANGED <<late, beating, recycled, robbed, mistaken>>

\* writeFileSync(..., 'wx'), the open: it fails when the file exists.
tryCreateLockFile(r) ==
  /\ pc[r] \in Claiming
  /\ \/ /\ text = Absent
        /\ text' = Torn
        /\ age' = 0
        /\ linked' = linked \cup {r}
        /\ Goto(r, "writing")
     \/ /\ text # Absent
        /\ Goto(r, IF pc[r] = "recreating" THEN "idle" ELSE "reading")
        /\ UNCHANGED <<text, age, linked>>
  /\ UNCHANGED <<late, beating, recycled, robbed, mistaken>>

\* A write through the open descriptor of r.  When another descriptor wrote to
\* the same file since the open, the two texts may overlap into one that does
\* not parse; when the file has been unlinked, the write does not reach the path.
WriteInfo(r) ==
  /\ \/ /\ r \in linked
        /\ text' \in (IF text = Torn THEN {r} ELSE {r, Torn})
        /\ age' = 0
     \/ /\ r \notin linked
        /\ UNCHANGED <<text, age>>
  /\ linked' = linked \ {r}
  /\ Goto(r, "holding")

\* writeFileSync(..., 'wx'), the write; then createLockHandle arms the heartbeat.
createLockHandle(r) ==
  /\ pc[r] = "writing"
  /\ WriteInfo(r)
  /\ beating' = beating \cup {r}
  /\ UNCHANGED <<late, recycled, robbed, mistaken>>

\* Mutant: a lock file that cannot be read is taken for a stale one.
JudgeTornStale(r) ==
  /\ pc[r] = "reading"
  /\ \/ /\ Readable => checkIsLockStale(r, Patience(r))
        /\ Goto(r, "stealing")
     \/ /\ Readable /\ ~checkIsLockStale(r, Patience(r))
        /\ Goto(r, IF r \in Reapers \cup late THEN "idle" ELSE "waiting")
  /\ UNCHANGED <<text, age, linked, late, beating, recycled, robbed, mistaken>>

\* readLockFileInfo and the decision on what it returned.  A reaper gives up on
\* a lock it may not steal; a waiting run past its deadline throws.
Judge(r) ==
  /\ pc[r] = "reading"
  /\ \/ /\ Readable /\ checkIsLockStale(r, Patience(r))
        /\ Goto(r, "stealing")
     \/ /\ ~(Readable /\ checkIsLockStale(r, Patience(r)))
        /\ Goto(r, IF r \in Reapers \cup late THEN "idle" ELSE "waiting")
  /\ UNCHANGED <<text, age, linked, late, beating, recycled, robbed, mistaken>>

Poll(r) ==
  /\ pc[r] = "waiting"
  /\ Goto(r, "creating")
  /\ UNCHANGED <<text, age, linked, late, beating, recycled, robbed, mistaken>>

\* Mutant: a run past its deadline claims again.
ClaimAfterSteal(r) == IF r \in Reapers THEN "recreating" ELSE "creating"

\* Where a run goes after a steal: a reaper has one more claim; the loop of a
\* waiting run honours its deadline before it claims again.
AfterSteal(r) ==
  IF r \in Reapers THEN "recreating" ELSE IF r \in late THEN "idle" ELSE "creating"

\* rmSync of whatever is at the path by now.
stealStaleLock(r) ==
  /\ pc[r] = "stealing"
  /\ text' = Absent
  /\ age' = 0
  /\ linked' = {}
  /\ robbed' = (robbed \/ (text # Absent /\ Owners # {}))
  /\ mistaken' = (mistaken \/ \E s \in Runs : pc[s] \in Acting)
  /\ Goto(r, AfterSteal(r))
  /\ UNCHANGED <<late, beating, recycled>>

DeadlinePasses(r) ==
  /\ pc[r] \in {"creating", "reading", "stealing", "waiting"}
  /\ r \notin Reapers \cup late
  /\ late' = late \cup {r}
  /\ UNCHANGED <<pc, text, age, linked, beating, recycled, robbed, mistaken>>

-----------------------------------------------------------------------------
(* The handle: heartbeat and release.                                      *)

\* Mutant: the heartbeat rewrites whatever file it finds.
BeatUnread(r) ==
  /\ pc[r] = "holding" /\ r \in beating
  /\ Goto(r, "refreshing")
  /\ mistaken' = (mistaken \/ ~Readable)
  /\ UNCHANGED <<text, age, linked, late, beating, recycled, robbed>>

\* didRefreshHeartbeat, the read: a file that names somebody else stops the timer.
BeatRead(r) ==
  /\ pc[r] = "holding" /\ r \in beating
  /\ \/ /\ Readable /\ ~checkIsOwnLock(r)
        /\ beating' = beating \ {r}
        /\ UNCHANGED <<pc, mistaken>>
     \/ /\ Readable => checkIsOwnLock(r)
        /\ Goto(r, "refreshing")
        /\ mistaken' = (mistaken \/ ~Readable)
        /\ UNCHANGED beating
  /\ UNCHANGED <<text, age, linked, late, recycled, robbed>>

\* didRefreshHeartbeat, the open of the rewrite: truncates, or creates anew.
BeatOpen(r) ==
  /\ pc[r] = "refreshing"
  /\ text' = Torn
  /\ age' = 0
  /\ linked' = linked \cup {r}
  /\ Goto(r, "rewriting")
  /\ UNCHANGED <<late, beating, recycled, robbed, mistaken>>

BeatWrite(r) ==
  /\ pc[r] = "rewriting"
  /\ WriteInfo(r)
  /\ UNCHANGED <<late, beating, recycled, robbed, mistaken>>

\* release, the read: only a file that names somebody else is left in place.
ReleaseRead(r) ==
  /\ pc[r] = "holding"
  /\ Goto(r, IF Readable /\ ~checkIsOwnLock(r) THEN "idle" ELSE "releasing")
  /\ beating' = beating \ {r}
  /\ mistaken' = (mistaken \/ ~Readable)
  /\ UNCHANGED <<text, age, linked, late, recycled, robbed>>

ReleaseRemove(r) ==
  /\ pc[r] = "releasing"
  /\ text' = Absent
  /\ age' = 0
  /\ linked' = {}
  /\ Goto(r, "idle")
  /\ UNCHANGED <<late, beating, recycled, robbed, mistaken>>

-----------------------------------------------------------------------------
(* The environment.                                                        *)

Crash(r) ==
  /\ r \in CrashProne /\ pc[r] \notin {"idle", "crashed"}
  /\ Goto(r, "crashed")
  /\ linked' = linked \ {r}
  /\ beating' = beating \ {r}
  /\ UNCHANGED <<text, age, late, recycled, robbed, mistaken>>

RecyclePid(r) ==
  /\ pc[r] = "crashed" /\ r \notin recycled
  /\ recycled' = recycled \cup {r}
  /\ UNCHANGED <<pc, text, age, linked, late, beating, robbed, mistaken>>

\* Minutes pass without a heartbeat: nobody beats for the file, or the one who
\* should has a blocked event loop or a refresh that fails.  Not between two
\* synchronous calls of the run the file names.
FallSilent ==
  /\ Readable /\ age < 2
  /\ text \notin beating \/ text \in Stallable
  /\ pc[text] \notin {"refreshing", "releasing"}
  /\ age' = age + 1
  /\ UNCHANGED <<pc, text, linked, late, beating, recycled, robbed, mistaken>>

-----------------------------------------------------------------------------
Acquiring(r) ==
  \/ tryCreateLockFile(r) \/ createLockHandle(r) \/ Judge(r) \/ Poll(r) \/ stealStaleLock(r)

Beating(r) == BeatRead(r) \/ BeatOpen(r) \/ BeatWrite(r)

Releasing(r) == ReleaseRead(r) \/ ReleaseRemove(r)

Next ==
  \/ \E r \in Runs :
       \/ Start(r) \/ Acquiring(r) \/ DeadlinePasses(r)
       \/ Beating(r) \/ Releasing(r)
       \/ Crash(r) \/ RecyclePid(r)
  \/ FallSilent

Spec == Init /\ [][Next]_vars

(* A live process executes its synchronous calls and its due timers, and   *)
(* time passes.  Nothing obliges a run to start, to release or to crash,   *)
(* and the poll gives no turn to any particular waiter.                    *)
Fairness ==
  /\ \A r \in Runs : /\ WF_vars(Acquiring(r))
                     /\ WF_vars(DeadlinePasses(r))
                     /\ WF_vars(BeatOpen(r) \/ BeatWrite(r))
                     /\ WF_vars(ReleaseRemove(r))
  /\ WF_vars(FallSilent)

FairSpec == Spec /\ Fairness

(* What a run that outlives the others may hope for.                       *)
RunsKeepComing == \A r \in Runs : WF_vars(Start(r)) /\ WF_vars(ReleaseRead(r))

-----------------------------------------------------------------------------
(* Properties.                                                             *)

\* No two runs hold the lock of one scope at once: the second run waits for the
\* first to finish instead of running concurrently (setup-lock.ts, file header).
MutualExclusion == \A r, s \in Holders : r = s

\* The only way two runs come to hold the lock at once is a steal that removed
\* the file of a live run: never the exclusive create, the heartbeat's
\* read-then-rewrite or the release's read-then-remove on their own.
ExclusiveUnlessRobbed == ~robbed => MutualExclusion

\* checkIsSetupLockHeld reports a scope free only when no run holds it, or the
\* holder is one whose heartbeats can go missing.
FreeVerdictSound ==
  ~robbed => \A r \in Runs : ~checkIsSetupLockHeld(r) => Holders \subseteq Stallable

\* The file at the path is the owner's: open and torn during its two writes,
\* naming it otherwise.
OwnerFile ==
  \A r \in Owners :
    IF pc[r] \in {"writing", "rewriting"} THEN text = Torn /\ r \in linked ELSE text = r

SoleOwner == \A r, s \in Owners : r = s

\* A holder's heartbeat is armed, and only a stalled holder's file has grown old.
HolderBeats ==
  \A r \in Holders : r \in beating /\ (text = r /\ r \notin Stallable => age = 0)

\* While no live run has been robbed, the file follows its one owner from the
\* create to the release and its holder keeps it fresh, also beside the files
\* that crashed runs leave.
LockFileFollowsOwner == ~robbed => OwnerFile /\ SoleOwner /\ HolderBeats

\* A run whose lock was stolen does not delete its successor's lock on release
\* (setup-lock.ts, createLockHandle): the unlink of a release never takes the
\* file of another live owner.
ReleaseSparesSuccessor ==
  [][\A r \in Runs :
       (pc[r] = "releasing" /\ text' = Absent /\ text # Absent /\ pc'[r] = "idle")
         => \A s \in Owners \ {r} : text # s /\ s \notin linked]_vars

\* What survives of that promise when locks do get stolen: a run that has been
\* robbed reads whose file is at the path and leaves its successor's alone, so no
\* run stands before a rewrite or an unlink of a file other than its own.  Not
\* when the file is stolen between that read and what it allows, nor when the
\* read finds no name to go by (setup-lock.ts, didRefreshHeartbeat and release).
SuccessorSpared == ~mistaken => \A r \in Runs : pc[r] \in Acting => text = r

\* A run that crashed without releasing leaves a lock the next run can judge:
\* a file nobody is writing to names its holder (setup-lock.ts, file header).
AbandonedLockIsReadable == text = Torn => \E r \in Runs : pc[r] \in {"writing", "rewriting"}

\* acquireSetupLock ends, with the lock or with the timeout error, however the
\* other runs behave: also while a lock it keeps stealing keeps reappearing.
AcquisitionEnds ==
  \A r \in Runs : pc[r] = "creating" ~> pc[r] \in Owning \cup {"idle", "crashed"}

\* While runs keep coming and going, a readable lock of a crashed run is removed,
\* also when a stranger has been given its pid, and also by a run on another host.
CrashedHolderIsEvicted ==
  RunsKeepComing => \A r \in Runs : (pc[r] = "crashed" /\ text = r) ~> text # r

(* The abstract lock this one implements when no run crashes or stalls.    *)
Mutex == INSTANCE RunMutex WITH holders <- Holders

ImplementsMutex == Mutex!Spec
=============================================================================
