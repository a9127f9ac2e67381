-------------------------- MODULE SetupLock_proofs --------------------------
(***************************************************************************)
(* Proofs about the setup lock, for any set of runs, hosts and faults.     *)
(***************************************************************************)
EXTENDS SetupLock, TLAPS

\* The inductive invariant.
IInv == TypeOK /\ LockFileFollowsOwner

-----------------------------------------------------------------------------
LEMMA TypeInit == Init => TypeOK
<1> SUFFICES ASSUME Init PROVE TypeOK
  OBVIOUS
<1>1. robbed \in BOOLEAN /\ mistaken \in BOOLEAN
  BY Zenon DEF Init
<1>2. pc \in [Runs -> Location]
  BY DEF Init, Location
<1>3. QED
  BY <1>1, <1>2 DEF Init, TypeOK

LEMMA TypeStep == TypeOK /\ [Next]_vars => TypeOK'
<1> SUFFICES ASSUME TypeOK, [Next]_vars PROVE TypeOK'
  OBVIOUS
<1> USE DEF TypeOK, Location, Goto, Holders, Holding
<1>1. ASSUME NEW r \in Runs, Start(r) PROVE TypeOK'
  BY <1>1 DEF Start, Claiming
<1>2. ASSUME NEW r \in Runs, tryCreateLockFile(r) PROVE TypeOK'
  BY <1>2 DEF tryCreateLockFile, Owning, Claiming
<1>3. ASSUME NEW r \in Runs, createLockHandle(r) PROVE TypeOK'
  BY <1>3 DEF createLockHandle, WriteInfo, Owning, Holding
<1>4. ASSUME NEW r \in Runs, Judge(r) PROVE TypeOK'
  BY <1>4 DEF Judge
<1>5. ASSUME NEW r \in Runs, Poll(r) PROVE TypeOK'
  BY <1>5 DEF Poll, Claiming
<1>6. ASSUME NEW r \in Runs, stealStaleLock(r) PROVE TypeOK'
  BY <1>6 DEF stealStaleLock, AfterSteal, Claiming
<1>7. ASSUME NEW r \in Runs, DeadlinePasses(r) PROVE TypeOK'
  BY <1>7 DEF DeadlinePasses
<1>8. ASSUME NEW r \in Runs, Beating(r) PROVE TypeOK'
  <2>1. mistaken' \in BOOLEAN
    BY <1>8, Zenon DEF Beating, BeatRead, BeatOpen, BeatWrite
  <2>2. QED
    BY <1>8, <2>1 DEF Beating, BeatRead, BeatOpen, BeatWrite, WriteInfo, Owning, Holding
<1>9. ASSUME NEW r \in Runs, Releasing(r) PROVE TypeOK'
  <2>1. mistaken' \in BOOLEAN
    BY <1>9, Zenon DEF Releasing, ReleaseRead, ReleaseRemove
  <2>2. QED
    BY <1>9, <2>1 DEF Releasing, ReleaseRead, ReleaseRemove, Owning
<1>10. ASSUME NEW r \in Runs, Crash(r) PROVE TypeOK'
  BY <1>10 DEF Crash
<1>11. ASSUME NEW r \in Runs, RecyclePid(r) PROVE TypeOK'
  BY <1>11 DEF RecyclePid
<1>12. CASE FallSilent
  BY <1>12 DEF FallSilent
<1>13. CASE UNCHANGED vars
  BY <1>13 DEF vars
<1>14. QED
  BY <1>1, <1>2, <1>3, <1>4, <1>5, <1>6, <1>7, <1>8, <1>9, <1>10, <1>11, <1>12, <1>13
     DEF Next, Acquiring

\* Every variable keeps its type, whatever crashes, stalls and steals happen.
THEOREM TypeCorrect == Spec => []TypeOK
  BY TypeInit, TypeStep, PTL DEF Spec

-----------------------------------------------------------------------------
LEMMA IInvInit == Init => IInv
<1> SUFFICES ASSUME Init PROVE IInv
  OBVIOUS
<1>1. TypeOK
  BY TypeInit
<1>2. Owners = {} /\ Holders = {}
  BY DEF Init, Owners, Holders, Owning, Holding
<1>3. QED
  BY <1>1, <1>2 DEF IInv, LockFileFollowsOwner, OwnerFile, SoleOwner, HolderBeats

\* The claim: a run that creates the file finds no owner, and is the only one.
LEMMA CreateStep ==
  ASSUME IInv, TypeOK', NEW r \in Runs, tryCreateLockFile(r)
  PROVE  IInv'
<1> SUFFICES ASSUME ~robbed' PROVE OwnerFile' /\ SoleOwner' /\ HolderBeats'
  BY DEF IInv, LockFileFollowsOwner
<1> USE DEF tryCreateLockFile, Goto, Owners, Holders, Owning, Holding, Claiming
<1>1. ~robbed /\ OwnerFile /\ SoleOwner /\ HolderBeats /\ TypeOK
  BY DEF IInv, LockFileFollowsOwner
<1>2. CASE text = Absent /\ text' = Torn /\ linked' = linked \cup {r} /\ Goto(r, "writing")
  <2>1. Owners = {}
    BY <1>1, <1>2, LockAssumption DEF OwnerFile, TypeOK
  <2>2. Owners' = {r} /\ Holders' = {} /\ pc'[r] = "writing"
    BY <1>1, <1>2, <2>1 DEF TypeOK
  <2>3. QED
    BY <1>2, <2>2 DEF OwnerFile, SoleOwner, HolderBeats
<1>3. CASE text # Absent /\ UNCHANGED <<text, age, linked>>
  <2>1. Owners' = Owners /\ Holders' = Holders /\ \A s \in Owners : pc'[s] = pc[s]
    BY <1>1, <1>3 DEF TypeOK
  <2>2. QED
    BY <1>1, <1>3, <2>1 DEF OwnerFile, SoleOwner, HolderBeats
<1>4. QED
  BY <1>2, <1>3

\* The first write of an owner lands in the file at the path.
LEMMA WriteStep ==
  ASSUME IInv, TypeOK', NEW r \in Runs, pc[r] \in {"writing", "rewriting"},
         WriteInfo(r), robbed' = robbed,
         beating' \in {beating, beating \cup {r}}, r \in beating'
  PROVE  IInv'
<1> SUFFICES ASSUME ~robbed' PROVE OwnerFile' /\ SoleOwner' /\ HolderBeats'
  BY DEF IInv, LockFileFollowsOwner
<1> USE DEF WriteInfo, Goto, Owners, Holders, Owning, Holding
<1>1. ~robbed /\ OwnerFile /\ SoleOwner /\ HolderBeats /\ TypeOK
  BY DEF IInv, LockFileFollowsOwner
<1>2. text = Torn /\ r \in linked
  BY <1>1 DEF OwnerFile
<1>3. text' = r /\ age' = 0
  BY <1>2
<1>4. Owners = {r}
  BY <1>1 DEF SoleOwner
<1>5. Owners' = {r} /\ Holders' = {r} /\ pc'[r] = "holding"
  BY <1>1, <1>4 DEF TypeOK
<1>6. QED
  BY <1>3, <1>5 DEF OwnerFile, SoleOwner, HolderBeats

\* A steal that finds a live owner is recorded in robbed.
LEMMA StealStep ==
  ASSUME IInv, TypeOK', NEW r \in Runs, stealStaleLock(r)
  PROVE  IInv'
<1> SUFFICES ASSUME ~robbed' PROVE OwnerFile' /\ SoleOwner' /\ HolderBeats'
  BY DEF IInv, LockFileFollowsOwner
<1> USE DEF stealStaleLock, AfterSteal, Goto, Owners, Holders, Owning, Holding
<1>1. ~robbed /\ OwnerFile /\ TypeOK
  BY DEF IInv, LockFileFollowsOwner
<1>2. Owners = {}
  BY <1>1, LockAssumption DEF OwnerFile, TypeOK
<1>3. Owners' = {} /\ Holders' = {}
  BY <1>1, <1>2 DEF TypeOK
<1>4. QED
  BY <1>3 DEF OwnerFile, SoleOwner, HolderBeats

\* The heartbeat of an unrobbed holder reads its own name and stays armed.
LEMMA BeatStep ==
  ASSUME IInv, TypeOK', NEW r \in Runs, BeatRead(r) \/ BeatOpen(r)
  PROVE  IInv'
<1> SUFFICES ASSUME ~robbed' PROVE OwnerFile' /\ SoleOwner' /\ HolderBeats'
  BY DEF IInv, LockFileFollowsOwner
<1> USE DEF Goto, Owners, Holders, Owning, Holding
<1>1. ~robbed /\ OwnerFile /\ SoleOwner /\ HolderBeats /\ TypeOK
  BY DEF IInv, LockFileFollowsOwner, BeatRead, BeatOpen
<1>2. CASE BeatRead(r)
  <2>1. text = r
    BY <1>1, <1>2 DEF BeatRead, OwnerFile
  <2>2. Owners = {r} /\ Holders = {r}
    BY <1>1, <1>2 DEF BeatRead, SoleOwner
  <2>3. Owners' = {r} /\ Holders' = {r} /\ pc'[r] = "refreshing"
    BY <1>1, <1>2, <2>1, <2>2 DEF BeatRead, checkIsOwnLock, TypeOK
  <2>4. UNCHANGED <<text, age, linked, beating>>
    BY <1>2, <2>1 DEF BeatRead, checkIsOwnLock
  <2>5. QED
    BY <1>1, <2>1, <2>2, <2>3, <2>4 DEF OwnerFile, SoleOwner, HolderBeats
<1>3. CASE BeatOpen(r)
  <2>1. Owners = {r} /\ Holders = {r}
    BY <1>1, <1>3 DEF BeatOpen, SoleOwner
  <2>2. Owners' = {r} /\ Holders' = {r} /\ pc'[r] = "rewriting"
    BY <1>1, <1>3, <2>1 DEF BeatOpen, TypeOK
  <2>3. text' = Torn /\ r \in linked' /\ beating' = beating
    BY <1>3 DEF BeatOpen
  <2>4. QED
    BY <1>1, <2>1, <2>2, <2>3, LockAssumption DEF OwnerFile, SoleOwner, HolderBeats
<1>4. QED
  BY <1>2, <1>3

\* The release of an unrobbed holder removes its own file.
LEMMA ReleaseStep ==
  ASSUME IInv, TypeOK', NEW r \in Runs, Releasing(r)
  PROVE  IInv'
<1> SUFFICES ASSUME ~robbed' PROVE OwnerFile' /\ SoleOwner' /\ HolderBeats'
  BY DEF IInv, LockFileFollowsOwner
<1> USE DEF Goto, Owners, Holders, Owning, Holding
<1>1. ~robbed /\ OwnerFile /\ SoleOwner /\ HolderBeats /\ TypeOK
  BY DEF IInv, LockFileFollowsOwner, Releasing, ReleaseRead, ReleaseRemove
<1>2. Owners = {r}
  BY <1>1 DEF Releasing, ReleaseRead, ReleaseRemove, SoleOwner
<1>3. CASE ReleaseRead(r)
  <2>1. text = r
    BY <1>1, <1>3 DEF ReleaseRead, OwnerFile
  <2>2. Owners' = {r} /\ Holders' = {} /\ pc'[r] = "releasing"
    BY <1>1, <1>2, <1>3, <2>1 DEF ReleaseRead, checkIsOwnLock, TypeOK
  <2>3. QED
    BY <1>3, <2>1, <2>2 DEF ReleaseRead, OwnerFile, SoleOwner, HolderBeats
<1>4. CASE ReleaseRemove(r)
  <2>1. Owners' = {} /\ Holders' = {}
    BY <1>1, <1>2, <1>4 DEF ReleaseRemove, TypeOK
  <2>2. QED
    BY <2>1 DEF OwnerFile, SoleOwner, HolderBeats
<1>5. QED
  BY <1>3, <1>4 DEF Releasing

\* The steps that leave the owners and their file alone, or take an owner away.
LEMMA QuietStep ==
  ASSUME IInv, TypeOK', NEW r \in Runs,
         \/ Start(r) \/ Judge(r) \/ Poll(r) \/ DeadlinePasses(r)
         \/ Crash(r) \/ RecyclePid(r)
  PROVE  IInv'
<1> SUFFICES ASSUME ~robbed' PROVE OwnerFile' /\ SoleOwner' /\ HolderBeats'
  BY DEF IInv, LockFileFollowsOwner
<1> USE DEF Goto, Owners, Holders, Owning, Holding
<1>1. UNCHANGED <<text, age, robbed>>
  BY DEF Start, Judge, Poll, DeadlinePasses, Crash, RecyclePid
<1>2. OwnerFile /\ SoleOwner /\ HolderBeats /\ TypeOK
  BY <1>1 DEF IInv, LockFileFollowsOwner
<1>3. /\ Owners' \subseteq Owners /\ Holders' \subseteq Holders
      /\ \A s \in Owners' : /\ pc'[s] = pc[s]
                            /\ s \in linked => s \in linked'
                            /\ s \in beating => s \in beating'
  BY <1>2 DEF TypeOK, Start, Judge, Poll, DeadlinePasses, Crash, RecyclePid
<1>4. QED
  BY <1>1, <1>2, <1>3 DEF OwnerFile, SoleOwner, HolderBeats

\* Only the file of a holder that may stall, or of a run that is gone, grows old.
LEMMA SilenceStep == IInv /\ TypeOK' /\ FallSilent => IInv'
<1> SUFFICES ASSUME IInv, TypeOK', FallSilent, ~robbed'
             PROVE  OwnerFile' /\ SoleOwner' /\ HolderBeats'
  BY DEF IInv, LockFileFollowsOwner
<1> USE DEF Owners, Holders, Owning, Holding
<1>1. OwnerFile /\ SoleOwner /\ HolderBeats
  BY DEF IInv, LockFileFollowsOwner, FallSilent
<1>2. OwnerFile' /\ SoleOwner'
  BY <1>1 DEF FallSilent, OwnerFile, SoleOwner
<1>3. HolderBeats'
  BY <1>1 DEF FallSilent, HolderBeats
<1>4. QED
  BY <1>2, <1>3

LEMMA IInvStep == IInv /\ [Next]_vars => IInv'
<1> SUFFICES ASSUME IInv, [Next]_vars PROVE IInv'
  OBVIOUS
<1>1. TypeOK'
  BY TypeStep DEF IInv, LockFileFollowsOwner
<1>2. ASSUME NEW r \in Runs, createLockHandle(r) PROVE IInv'
  BY <1>1, <1>2, WriteStep DEF createLockHandle
<1>3. ASSUME NEW r \in Runs, BeatWrite(r) PROVE IInv'
  <2>1. CASE robbed
    BY <1>1, <1>3, <2>1 DEF BeatWrite, IInv, LockFileFollowsOwner
  <2>2. CASE ~robbed
    <3>1. r \in beating
      BY <1>3, <2>2 DEF BeatWrite, IInv, LockFileFollowsOwner, HolderBeats, Holders, Holding
    <3>2. QED
      BY <1>1, <1>3, <3>1, WriteStep DEF BeatWrite
  <2>3. QED
    BY <2>1, <2>2
<1>4. CASE UNCHANGED vars
  <2>1. Owners' = Owners /\ Holders' = Holders
    BY <1>4 DEF vars, Owners, Holders
  <2>2. QED
    BY <1>1, <1>4, <2>1 DEF vars, IInv, LockFileFollowsOwner, OwnerFile, SoleOwner, HolderBeats
<1>5. QED
  BY <1>1, <1>2, <1>3, <1>4, CreateStep, StealStep, BeatStep, ReleaseStep, QuietStep, SilenceStep
     DEF Next, Acquiring, Beating, Releasing

LEMMA IInvHolds == Spec => []IInv
  BY IInvInit, IInvStep, PTL DEF Spec

-----------------------------------------------------------------------------
\* Whatever crashes and stalls: two runs hold the lock at once only after a steal
\* has removed the file of a live run.
THEOREM ExclusionUnlessRobbed == Spec => []ExclusiveUnlessRobbed
<1>1. IInv => ExclusiveUnlessRobbed
  BY DEF IInv, LockFileFollowsOwner, ExclusiveUnlessRobbed, MutualExclusion, SoleOwner, Owners, Holders, Owning
<1>2. QED
  BY <1>1, IInvHolds, PTL

\* Until then, an owner's file is the one at the path.
THEOREM LockFileIsOwners == Spec => []LockFileFollowsOwner
<1>1. IInv => LockFileFollowsOwner
  BY DEF IInv, LockFileFollowsOwner
<1>2. QED
  BY <1>1, IInvHolds, PTL

\* Until then, checkIsSetupLockHeld answers "free" only if nobody holds the lock
\* or its holder may stall.
THEOREM FreeVerdictIsSound == Spec => []FreeVerdictSound
<1>1. IInv => FreeVerdictSound
  <2> SUFFICES ASSUME IInv, ~robbed, NEW r \in Runs, ~checkIsSetupLockHeld(r),
                      NEW h \in Holders, h \notin Stallable
               PROVE  FALSE
    BY DEF FreeVerdictSound
  <2>1. h \in Owners /\ h \in Runs /\ pc[h] # "crashed"
    BY DEF Holders, Owners, Owning, Holding
  <2>2. text # Absent /\ Readable /\ checkIsLockStale(r, 0)
    BY <2>1, LockAssumption DEF checkIsSetupLockHeld, IInv, LockFileFollowsOwner, OwnerFile
  <2>3. text = h
    BY <2>1, <2>2 DEF IInv, LockFileFollowsOwner, OwnerFile, Readable
  <2>4. age = 0
    BY <2>3 DEF IInv, LockFileFollowsOwner, HolderBeats
  <2>5. QED
    BY <2>1, <2>2, <2>3, <2>4 DEF checkIsLockStale, checkIsProcessAlive
<1>2. QED
  BY <1>1, IInvHolds, PTL

\* What ReleaseSparesSuccessor says of one step.
ReleaseSpares ==
  \A r \in Runs :
    (pc[r] = "releasing" /\ text' = Absent /\ text # Absent /\ pc'[r] = "idle")
      => \A s \in Owners \ {r} : text # s /\ s \notin linked

\* Whoever crashes or stalls, a release removes its own file as long as no live run has been robbed:
\* only after a steal can the file at the path be the successor's.
THEOREM ReleaseSparesUnlessRobbed == Spec => [][~robbed => ReleaseSpares]_vars
<1>1. IInv => (~robbed => ReleaseSpares)
  BY DEF IInv, LockFileFollowsOwner, SoleOwner, ReleaseSpares, Owners, Owning, Holding
<1>2. QED
  BY <1>1, IInvHolds, PTL

-----------------------------------------------------------------------------
(* Runs that have been robbed, and their successors.                       *)

\* A file that is open for writing is torn and has one writer, so a run that read
\* its own name in the file finds no descriptor on it but its own.
OneWriter ==
  /\ linked # {} => text = Torn
  /\ \A r, s \in linked : r = s

SparedInv == TypeOK /\ SuccessorSpared /\ (~mistaken => OneWriter)

LEMMA SparedInit == Init => SparedInv
<1>1. Init => SuccessorSpared /\ OneWriter
  BY DEF Init, SuccessorSpared, Acting, OneWriter
<1>2. QED
  BY <1>1, TypeInit DEF SparedInv

\* A write through a descriptor of the file at the path gives it the writer's name.
LEMMA SparedWrite ==
  ASSUME SparedInv, NEW r \in Runs, WriteInfo(r), mistaken' = mistaken, ~mistaken
  PROVE  SuccessorSpared' /\ OneWriter'
<1> USE DEF SparedInv, SuccessorSpared, OneWriter, Acting, TypeOK, WriteInfo, Goto
<1>1. CASE r \in linked
  <2>1. text = Torn /\ linked = {r} /\ \A s \in Runs : pc[s] \notin Acting
    BY <1>1, LockAssumption
  <2>2. linked' = {} /\ \A s \in Runs : pc'[s] \notin Acting
    BY <2>1
  <2>3. QED
    BY <2>2
<1>2. CASE r \notin linked
  BY <1>2
<1>3. QED
  BY <1>1, <1>2

LEMMA SparedStep == SparedInv /\ [Next]_vars => SparedInv'
<1> SUFFICES ASSUME SparedInv, [Next]_vars PROVE SparedInv'
  OBVIOUS
<1> USE DEF SparedInv, SuccessorSpared, OneWriter, Acting, TypeOK, Goto, Readable
<1>1. TypeOK'
  BY TypeStep
<1>2. SUFFICES ASSUME ~mistaken' PROVE SuccessorSpared' /\ OneWriter'
  BY <1>1
<1>3. ASSUME NEW r \in Runs,
             Start(r) \/ Judge(r) \/ Poll(r) \/ DeadlinePasses(r) \/ Crash(r) \/ RecyclePid(r)
      PROVE  SuccessorSpared' /\ OneWriter'
  BY <1>2, <1>3 DEF Start, Judge, Poll, DeadlinePasses, Crash, RecyclePid
<1>4. ASSUME NEW r \in Runs, tryCreateLockFile(r) PROVE SuccessorSpared' /\ OneWriter'
  <2>1. CASE text = Absent /\ text' = Torn /\ linked' = linked \cup {r} /\ Goto(r, "writing")
    <3>1. linked = {} /\ \A s \in Runs : pc[s] \notin Acting
      BY <1>2, <1>4, <2>1, LockAssumption DEF tryCreateLockFile
    <3>2. QED
      BY <2>1, <3>1
  <2>2. CASE UNCHANGED <<text, age, linked>>
    BY <1>2, <1>4, <2>2 DEF tryCreateLockFile
  <2>3. QED
    BY <1>4, <2>1, <2>2 DEF tryCreateLockFile
<1>5. ASSUME NEW r \in Runs, createLockHandle(r) \/ BeatWrite(r) PROVE SuccessorSpared' /\ OneWriter'
  BY <1>2, <1>5, SparedWrite DEF createLockHandle, BeatWrite
<1>6. ASSUME NEW r \in Runs, stealStaleLock(r) PROVE SuccessorSpared' /\ OneWriter'
  <2>1. linked' = {} /\ \A s \in Runs : pc[s] \notin Acting
    BY <1>2, <1>6 DEF stealStaleLock
  <2>2. AfterSteal(r) \notin Acting
    BY DEF AfterSteal
  <2>3. QED
    BY <1>6, <2>1, <2>2 DEF stealStaleLock
<1>7. ASSUME NEW r \in Runs, BeatRead(r) \/ ReleaseRead(r) PROVE SuccessorSpared' /\ OneWriter'
  BY <1>2, <1>7 DEF BeatRead, ReleaseRead, checkIsOwnLock
<1>8. ASSUME NEW r \in Runs, BeatOpen(r) PROVE SuccessorSpared' /\ OneWriter'
  <2>1. text = r /\ linked = {} /\ \A s \in Runs \ {r} : pc[s] \notin Acting
    BY <1>2, <1>8, LockAssumption DEF BeatOpen
  <2>2. QED
    BY <1>8, <2>1 DEF BeatOpen
<1>9. ASSUME NEW r \in Runs, ReleaseRemove(r) PROVE SuccessorSpared' /\ OneWriter'
  <2>1. text = r /\ \A s \in Runs \ {r} : pc[s] \notin Acting
    BY <1>2, <1>9 DEF ReleaseRemove
  <2>2. QED
    BY <1>9, <2>1 DEF ReleaseRemove
<1>10. CASE FallSilent \/ UNCHANGED vars
  BY <1>2, <1>10 DEF FallSilent, vars
<1>11. QED
  BY <1>3, <1>4, <1>5, <1>6, <1>7, <1>8, <1>9, <1>10 DEF Next, Acquiring, Beating, Releasing

\* A run that has been robbed neither overwrites nor removes the lock of the run
\* that holds it by then, unless the file is stolen between the read and the act
\* or the read found no name, however often runs are robbed, crash or stall.
THEOREM SuccessorIsSpared == Spec => []SuccessorSpared
<1>1. SparedInv => SuccessorSpared
  BY DEF SparedInv, SuccessorSpared
<1>2. QED
  BY <1>1, SparedInit, SparedStep, PTL DEF Spec

-----------------------------------------------------------------------------
(* Runs that neither crash nor stall: nothing is ever stolen.              *)

\* A readable lock file then always names a live owner that has just beaten, so
\* no run judges it stale.
OrderlyInv ==
  /\ ~robbed
  /\ \A r \in Runs : pc[r] \notin {"stealing", "recreating", "crashed"}
  /\ Readable => text \in Owners /\ age = 0

LEMMA OrderlyStep ==
  ASSUME CrashProne = {}, Stallable = {}, IInv, OrderlyInv, [Next]_vars
  PROVE  OrderlyInv'
<1> USE DEF Owners, Owning, Holding, Goto
<1>1. /\ TypeOK /\ OwnerFile /\ SoleOwner /\ HolderBeats
      /\ ~robbed
      /\ \A r \in Runs : pc[r] \notin {"stealing", "recreating", "crashed"}
      /\ Readable => text \in Owners /\ age = 0
  BY DEF IInv, LockFileFollowsOwner, OrderlyInv
<1>2. ASSUME NEW r \in Runs, Start(r) \/ Poll(r) \/ DeadlinePasses(r) PROVE OrderlyInv'
  BY <1>1, <1>2 DEF Start, Poll, DeadlinePasses, OrderlyInv, Readable, TypeOK
<1>3. ASSUME NEW r \in Runs, tryCreateLockFile(r) PROVE OrderlyInv'
  <2>1. pc[r] = "creating"
    BY <1>1, <1>3 DEF tryCreateLockFile, Claiming
  <2>2. QED
    BY <1>1, <1>3, <2>1 DEF tryCreateLockFile, OrderlyInv, Readable, TypeOK
<1>4. ASSUME NEW r \in Runs, createLockHandle(r) \/ BeatWrite(r) PROVE OrderlyInv'
  <2>1. text = Torn /\ r \in linked
    BY <1>1, <1>4 DEF createLockHandle, BeatWrite, OwnerFile
  <2>2. text' = r /\ age' = 0 /\ pc' = [pc EXCEPT ![r] = "holding"] /\ robbed' = robbed
    BY <1>4, <2>1 DEF createLockHandle, BeatWrite, WriteInfo
  <2>3. QED
    BY <1>1, <2>2 DEF OrderlyInv, TypeOK
<1>5. ASSUME NEW r \in Runs, Judge(r) PROVE OrderlyInv'
  <2>1. ~(Readable /\ checkIsLockStale(r, Patience(r)))
    BY <1>1 DEF checkIsLockStale, checkIsProcessAlive, Patience
  <2>2. QED
    BY <1>1, <1>5, <2>1 DEF Judge, OrderlyInv, Readable, TypeOK
<1>6. ASSUME NEW r \in Runs, BeatRead(r) PROVE OrderlyInv'
  <2>1. text = r
    BY <1>1, <1>6 DEF BeatRead, OwnerFile
  <2>2. QED
    BY <1>1, <1>6, <2>1 DEF BeatRead, checkIsOwnLock, OrderlyInv, Readable, TypeOK
<1>7. ASSUME NEW r \in Runs, BeatOpen(r) PROVE OrderlyInv'
  BY <1>1, <1>7 DEF BeatOpen, OrderlyInv, Readable, TypeOK
<1>8. ASSUME NEW r \in Runs, Releasing(r) PROVE OrderlyInv'
  <2>1. text = r
    BY <1>1, <1>8 DEF Releasing, ReleaseRead, ReleaseRemove, OwnerFile
  <2>2. QED
    BY <1>1, <1>8, <2>1
       DEF Releasing, ReleaseRead, ReleaseRemove, checkIsOwnLock, OrderlyInv, Readable, TypeOK
<1>9. ASSUME FallSilent PROVE FALSE
  <2>1. text \in Owners /\ text \in Runs /\ text # Torn /\ text \notin beating
    BY <1>1, <1>9 DEF FallSilent, Readable
  <2>2. pc[text] = "holding"
    BY <1>1, <1>9, <2>1 DEF FallSilent, OwnerFile
  <2>3. QED
    BY <1>1, <2>1, <2>2 DEF HolderBeats, Holders
<1>10. CASE UNCHANGED vars
  BY <1>1, <1>10 DEF vars, OrderlyInv, Readable
<1>11. ASSUME NEW r \in Runs PROVE ~stealStaleLock(r) /\ ~Crash(r) /\ ~RecyclePid(r)
  BY <1>1 DEF stealStaleLock, Crash, RecyclePid
<1>12. QED
  BY <1>2, <1>3, <1>4, <1>5, <1>6, <1>7, <1>8, <1>9, <1>10, <1>11
     DEF Next, Acquiring, Beating

LEMMA OrderlyHolds ==
  ASSUME CrashProne = {}, Stallable = {} PROVE Spec => [](IInv /\ OrderlyInv)
<1>1. Init => IInv /\ OrderlyInv
  <2>1. Init => OrderlyInv
    BY DEF Init, OrderlyInv, Readable
  <2>2. QED
    BY <2>1, IInvInit
<1>2. (IInv /\ OrderlyInv) /\ [Next]_vars => (IInv /\ OrderlyInv)'
  BY OrderlyStep, IInvStep
<1>3. QED
  BY <1>1, <1>2, PTL DEF Spec

\* When no run crashes or stalls, no two runs ever hold the lock at once.
THEOREM OrderlyExclusion ==
  ASSUME CrashProne = {}, Stallable = {} PROVE Spec => []MutualExclusion
<1>1. IInv /\ OrderlyInv => MutualExclusion
  BY DEF IInv, LockFileFollowsOwner, OrderlyInv, MutualExclusion, SoleOwner, Owners, Holders, Owning
<1>2. QED
  BY <1>1, OrderlyHolds, PTL

\* A run that comes to hold the lock enters the abstract mutex, a run that reads
\* its file to release it leaves, and every other step is invisible.
LEMMA MutexStep ==
  ASSUME CrashProne = {}, Stallable = {}, IInv, OrderlyInv, [Next]_vars
  PROVE  [Mutex!Next]_Holders
<1> USE DEF Holders, Holding, Goto
<1>1. TypeOK /\ SoleOwner /\ \A r \in Runs : pc[r] \notin {"stealing", "recreating", "crashed"}
  BY DEF IInv, LockFileFollowsOwner, OrderlyInv
<1>2. ASSUME NEW r \in Runs, createLockHandle(r) PROVE Mutex!Enter(r)
  <2>1. Holders = {}
    BY <1>1, <1>2 DEF createLockHandle, SoleOwner, Owners, Owning
  <2>2. Holders' = {r}
    BY <1>1, <1>2, <2>1 DEF createLockHandle, WriteInfo, TypeOK
  <2>3. QED
    BY <2>1, <2>2 DEF Mutex!Enter
<1>3. ASSUME NEW r \in Runs, ReleaseRead(r) PROVE Mutex!Leave(r)
  <2>1. r \in Holders /\ Holders' = Holders \ {r}
    BY <1>1, <1>3 DEF ReleaseRead, TypeOK
  <2>2. QED
    BY <2>1 DEF Mutex!Leave
<1>4. ASSUME NEW r \in Runs,
             \/ Start(r) \/ tryCreateLockFile(r) \/ Judge(r) \/ Poll(r) \/ stealStaleLock(r)
             \/ DeadlinePasses(r) \/ Beating(r) \/ ReleaseRemove(r) \/ Crash(r) \/ RecyclePid(r)
      PROVE  Holders' = Holders
  BY <1>1, <1>4 DEF Start, tryCreateLockFile, Claiming, Judge, Poll, stealStaleLock,
     DeadlinePasses, Beating, BeatRead, BeatOpen, BeatWrite, WriteInfo, ReleaseRemove,
     Crash, RecyclePid, TypeOK
<1>5. CASE FallSilent \/ UNCHANGED vars
  BY <1>5 DEF FallSilent, vars
<1>6. QED
  BY <1>2, <1>3, <1>4, <1>5 DEF Next, Acquiring, Releasing, Mutex!Next

\* When no run crashes or stalls, the lock file implements the abstract mutex.
THEOREM OrderlyRefinement ==
  ASSUME CrashProne = {}, Stallable = {} PROVE Spec => ImplementsMutex
<1>1. Init => Mutex!Init
  BY DEF Init, Mutex!Init, Holders, Holding
<1>2. IInv /\ OrderlyInv /\ [Next]_vars => [Mutex!Next]_Holders
  BY MutexStep
<1>3. QED
  BY <1>1, <1>2, OrderlyHolds, PTL DEF Spec, ImplementsMutex, Mutex!Spec
=============================================================================
