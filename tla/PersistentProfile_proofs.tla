------------------------ MODULE PersistentProfile_proofs ------------------------
(***************************************************************************)
(* Proofs about the persistent profile, for any set of runs and versions   *)
(* and whatever may crash, linger, race or be retried: unless the protocol *)
(* lapsed, no asar of the owner's is lost (Safe), and all that the owner   *)
(* had is handed back (Faithful).                                          *)
(***************************************************************************)
EXTENDS PersistentProfile, TLAPS

\* None of the lapses in which an asar of the owner's can be lost.
Lawful == lapses \cap {"shared", "stateless", "unheld"} = {}

\* Between any two file-system calls, also after a crash: the owner's asar is in the
\* profile or held, a state file that can be read names it, and as long as there is
\* none it has not moved.
FilesSafe ==
  \A v \in Own :
    /\ held[v] \in {"none", "own"}
    /\ asar[v] = "own" \/ held[v] = "own"
    /\ IsRecorded => v \in hold.names
    /\ ~IsRecorded => asar[v] = "own" /\ held[v] = "none"

OwnInPlace == \A v \in Own : asar[v] = "own"
OwnHeld    == \A v \in Own : held[v] = "own"

\* What run r relies on at each of its steps.
StageSafe(r) ==
  /\ pc[r] \in {"making", "listing", "recording"} => ~IsRecorded
  /\ pc[r] = "making" => hold = NoHold
  /\ pc[r] = "recording" => hold # NoHold /\ Own \subseteq plan[r].names /\ Own \subseteq todo[r]
  /\ pc[r] = "moving" =>
       IsRecorded /\ \A v \in Own : IF v \in todo[r] THEN asar[v] = "own" ELSE held[v] = "own"
  /\ pc[r] = "clearing" => todo[r] \cap Own = {}
  /\ pc[r] = "putting" => \A v \in Own : v \in todo[r] \/ asar[v] = "own"
  /\ pc[r] \in {"unflagging", "rewriting", "dropping", "removing"} => OwnInPlace
  /\ pc[r] = "removing" => ~IsRecorded
  /\ pc[r] \in Using \ {"failed"} => r \in armed
  /\ pc[r] \in Using /\ r \in armed => OwnHeld
  /\ pc[r] \in Restoring /\ after[r] = "making" => r \notin armed
  /\ pc[r] \in Holding => r \notin armed

OneUser == \A r, s \in Users : r = s

Safe == OneUser /\ FilesSafe /\ \A r \in Users : StageSafe(r)

\* The inductive invariant.
IInv == TypeOK /\ (Lawful => Safe)

-----------------------------------------------------------------------------
LEMMA TypeInit == Init => TypeOK
  BY ProfileAssumption
     DEF Init, TypeOK, Origins, Flags, Plans, NoState, Registries, OwnRegistry,
     Location, Users, Inside

LEMMA TypeStep == TypeOK /\ [Next]_vars => TypeOK'
<1> SUFFICES ASSUME TypeOK, [Next]_vars PROVE TypeOK'
  OBVIOUS
<1> USE ProfileAssumption
    DEF TypeOK, Goto, Users, Location, Inside, Restoring, Holding, Using, fileVars, runVars
<1>1. ASSUME NEW r \in Runs, ReadLock(r) PROVE TypeOK'
  BY <1>1 DEF ReadLock, Origins, Flags, States, Plans, NoState, Registries
<1>2. ASSUME NEW r \in Runs, WriteLock(r) PROVE TypeOK'
  BY <1>2 DEF WriteLock, Lapse, Users, Origins, Flags, States, Plans, NoState, Registries
<1>3. ASSUME NEW r \in Runs, Provision(r) PROVE TypeOK'
  BY <1>3 DEF Provision, Origins, Flags, States, Plans, NoState, Registries
<1>4. ASSUME NEW r \in Runs, Seed(r) PROVE TypeOK'
  BY <1>4 DEF Seed, Lapse, Origins, Flags, States, Plans, NoState, Registries
<1>5. ASSUME NEW r \in Runs, Merge(r) PROVE TypeOK'
  BY <1>5 DEF Merge, Origins, Flags, States, Plans, NoState, Registries
<1>6. ASSUME NEW r \in Runs, Launch(r) PROVE TypeOK'
  <2>1. pc' \in [Runs -> Location] /\ Users \subseteq Users' /\ pc'[r] \in {"running", "failed"}
    BY <1>6 DEF Launch
  <2>2. instances' \subseteq Runs
    BY <1>6 DEF Launch
  <2>3. QED
    BY <1>6, <2>1, <2>2 DEF Launch
<1>7. ASSUME NEW r \in Runs, ReadState(r) PROVE TypeOK'
  <2>1. CASE hold = NoHold
    BY <1>7, <2>1 DEF ReadState
  <2>2. CASE hold # NoHold
    <3>1. ReadableState \in Plans
      BY <2>2 DEF ReadableState, FilesIn, IsRecorded, States, Plans
    <3>2. pc' = [pc EXCEPT ![r] = "clearing"] /\ plan' = [plan EXCEPT ![r] = ReadableState]
      BY <1>7, <2>2 DEF ReadState
    <3>3. todo' \in [Runs -> SUBSET Versions]
      BY <1>7, <2>2 DEF ReadState, FilesIn
    <3>4. lapses' \subseteq {"shared", "stateless", "torn", "unheld", "orphan"}
      BY <1>7, <2>2 DEF ReadState
    <3>5. QED
      BY <1>7, <3>1, <3>2, <3>3, <3>4 DEF ReadState
  <2>3. QED
    BY <2>1, <2>2
<1>8. ASSUME NEW r \in Runs, ClearOne(r) PROVE TypeOK'
  BY <1>8 DEF ClearOne, Origins, Flags, States, Plans, NoState, Registries
<1>9. ASSUME NEW r \in Runs, Cleared(r) PROVE TypeOK'
  BY <1>9 DEF Cleared, FilesIn, Origins, Flags, States, Plans, NoState, Registries
<1>10. ASSUME NEW r \in Runs, PutBackOne(r) PROVE TypeOK'
  BY <1>10 DEF PutBackOne, Origins, Flags, States, Plans, NoState, Registries
<1>11. ASSUME NEW r \in Runs, PutBack(r) PROVE TypeOK'
  BY <1>11 DEF PutBack, Lapse, Origins, Flags, States, Plans, NoState, Registries
<1>12. ASSUME NEW r \in Runs, Unflag(r) PROVE TypeOK'
  BY <1>12 DEF Unflag, Origins, Flags, States, Plans, NoState, Registries
<1>13. ASSUME NEW r \in Runs, Rewrite(r) PROVE TypeOK'
  <2>1. registry' \in Registries
    BY <1>13 DEF Rewrite, States, Registries, Flags
  <2>2. QED
    BY <1>13, <2>1 DEF Rewrite
<1>14. ASSUME NEW r \in Runs, DropContents(r) PROVE TypeOK'
  BY <1>14 DEF DropContents, Origins, Flags, States, Plans, NoState, Registries
<1>15. ASSUME NEW r \in Runs, RemoveHold(r) PROVE TypeOK'
  BY <1>15 DEF RemoveHold, Origins, Flags, States, Plans, NoState, Registries
<1>16. ASSUME NEW r \in Runs, RestoreFails(r) PROVE TypeOK'
  <2>1. PICK l \in {"failed", "reading", "releasing"} : pc' = [pc EXCEPT ![r] = l]
    BY <1>16 DEF RestoreFails
  <2>2. QED
    BY <1>16, <2>1 DEF RestoreFails
<1>17. ASSUME NEW r \in Runs, MakeHold(r) PROVE TypeOK'
  BY <1>17 DEF MakeHold, Origins, Flags, States, Plans, NoState, Registries
<1>18. ASSUME NEW r \in Runs, ListOwn(r) PROVE TypeOK'
  BY <1>18 DEF ListOwn, FilesIn, Origins, Flags, States, Plans, NoState, Registries
<1>19. ASSUME NEW r \in Runs, RecordState(r) PROVE TypeOK'
  BY <1>19 DEF RecordState, Origins, Flags, States, Plans, NoState, Registries
<1>20. ASSUME NEW r \in Runs, MoveOne(r) PROVE TypeOK'
  BY <1>20 DEF MoveOne, Origins, Flags, States, Plans, NoState, Registries
<1>21. ASSUME NEW r \in Runs, Held(r) PROVE TypeOK'
  BY <1>21 DEF Held, Origins, Flags, States, Plans, NoState, Registries
<1>22. ASSUME NEW r \in Runs, HoldFails(r) PROVE TypeOK'
  BY <1>22 DEF HoldFails, Origins, Flags, States, Plans, NoState, Registries
<1>23. ASSUME NEW r \in Runs, Release(r) PROVE TypeOK'
  BY <1>23 DEF Release, Forget, Origins, Flags, States, Plans, NoState, Registries
<1>24. ASSUME NEW r \in Runs, Relaunch(r) PROVE TypeOK'
  <2>1. PICK l \in {"seeding", "provisioning"} : pc' = [pc EXCEPT ![r] = l]
    BY <1>24 DEF Relaunch
  <2>2. instances' \subseteq Runs
    BY <1>24 DEF Relaunch, AfterKill
  <2>3. QED
    BY <1>24, <2>1, <2>2 DEF Relaunch
<1>25. ASSUME NEW r \in Runs, RegisterAgain(r) PROVE TypeOK'
  BY <1>25 DEF RegisterAgain, Lapse, Origins, Flags, States, Plans, NoState, Registries
<1>26. ASSUME NEW r \in Runs, Dispose(r) PROVE TypeOK'
  BY <1>26 DEF Dispose, AfterKill, Origins, Flags, States, Plans, NoState, Registries
<1>27. ASSUME NEW r \in Runs, Crash(r) PROVE TypeOK'
  BY <1>27 DEF Crash, Forget, Origins, Flags, States, Plans, NoState, Registries
<1>28. ASSUME NEW r \in Runs, InstanceEnds(r) PROVE TypeOK'
  BY <1>28 DEF InstanceEnds, Origins, Flags, States, Plans, NoState, Registries
<1>29. ASSUME NEW r \in Runs, AppWrites(r) PROVE TypeOK'
  <2>1. registry' \in {Torn} \cup Registries
    BY <1>29 DEF AppWrites, Registries, Flags
  <2>2. asar' \in [Versions -> Origins]
    BY <1>29 DEF AppWrites, Origins
  <2>3. QED
    BY <1>29, <2>1, <2>2 DEF AppWrites
<1>30. CASE UNCHANGED vars
  BY <1>30 DEF vars
<1>31. QED
  BY <1>1, <1>2, <1>3, <1>4, <1>5, <1>6, <1>7, <1>8, <1>9, <1>10, <1>11, <1>12, <1>13, <1>14,
     <1>15, <1>16, <1>17, <1>18, <1>19, <1>20, <1>21, <1>22, <1>23, <1>24, <1>25, <1>26, <1>27,
     <1>28, <1>29, <1>30
     DEF Next, Register, Restore, Hold

\* Every variable keeps its type, whatever crashes, lingers, races or is retried.
THEOREM TypeCorrect == Spec => []TypeOK
  BY TypeInit, TypeStep, PTL DEF Spec

-----------------------------------------------------------------------------
LEMMA SafeInit == Init => Safe
  BY ProfileAssumption
     DEF Init, Safe, OneUser, FilesSafe, Users, Inside, Restoring, Holding, Using, IsRecorded

\* A lapse is never taken back.
LEMMA LapsesGrow == [Next]_vars => lapses \subseteq lapses'
<1> SUFFICES ASSUME [Next]_vars PROVE lapses \subseteq lapses'
  OBVIOUS
<1>1. ASSUME NEW r \in Runs, Register(r) PROVE lapses \subseteq lapses'
  BY <1>1 DEF Register, ReadLock, WriteLock, Provision, Seed, Merge, Launch, Lapse
<1>2. ASSUME NEW r \in Runs, Restore(r) PROVE lapses \subseteq lapses'
  BY <1>2 DEF Restore, ReadState, ClearOne, Cleared, PutBackOne, PutBack, Unflag, Rewrite,
     DropContents, RemoveHold, RestoreFails, Lapse
<1>3. ASSUME NEW r \in Runs, Hold(r) PROVE lapses \subseteq lapses'
  BY <1>3 DEF Hold, MakeHold, ListOwn, RecordState, MoveOne, Held, HoldFails
<1>4. ASSUME NEW r \in Runs, Release(r) \/ Relaunch(r) \/ RegisterAgain(r) \/ Dispose(r)
      PROVE lapses \subseteq lapses'
  BY <1>4 DEF Release, Relaunch, RegisterAgain, Dispose, Lapse
<1>5. ASSUME NEW r \in Runs, Crash(r) \/ InstanceEnds(r) \/ AppWrites(r)
      PROVE lapses \subseteq lapses'
  BY <1>5 DEF Crash, InstanceEnds, AppWrites
<1>6. CASE UNCHANGED vars
  BY <1>6 DEF vars
<1>7. QED
  BY <1>1, <1>2, <1>3, <1>4, <1>5, <1>6 DEF Next

LEMMA LawfulBefore == [Next]_vars /\ Lawful' => Lawful
  BY LapsesGrow DEF Lawful

LEMMA SafeStep == TypeOK /\ TypeOK' /\ Lawful' /\ Safe /\ [Next]_vars => Safe'
<1> SUFFICES ASSUME TypeOK, TypeOK', Lawful', Safe, [Next]_vars PROVE Safe'
  OBVIOUS
<1> USE ProfileAssumption
    DEF Goto, fileVars, runVars, TypeOK, Location, Inside, Restoring, Holding, Using,
        FilesSafe, StageSafe, OwnHeld, OwnInPlace, IsRecorded, Users
<1>0. ASSUME NEW r \in Runs, r \in Users, Users' \subseteq Users, FilesSafe',
             r \in Users' => StageSafe(r)'
      PROVE Safe'
  <2> HIDE DEF FilesSafe, StageSafe
  <2>1. QED
    BY <1>0 DEF Safe, OneUser
<1>1. ASSUME NEW r \in Runs, Provision(r), r \in Users PROVE Safe'
  <2>1. FilesSafe'
    BY <1>1 DEF Safe, Lawful, Provision
  <2>2. Users' \subseteq Users /\ (r \in Users' => StageSafe(r)')
    BY <1>1 DEF Safe, Lawful, Provision
  <2>3. QED
    BY <1>1, <1>0, <2>1, <2>2
<1>2. ASSUME NEW r \in Runs, Seed(r), r \in Users PROVE Safe'
  <2>1. FilesSafe'
    BY <1>2 DEF Safe, Lawful, Seed, Lapse
  <2>2. Users' \subseteq Users /\ (r \in Users' => StageSafe(r)')
    BY <1>2 DEF Safe, Lawful, Seed, Lapse
  <2>3. QED
    BY <1>2, <1>0, <2>1, <2>2
<1>3. ASSUME NEW r \in Runs, Merge(r), r \in Users PROVE Safe'
  <2>1. FilesSafe'
    BY <1>3 DEF Safe, Lawful, Merge
  <2>2. Users' \subseteq Users /\ (r \in Users' => StageSafe(r)')
    BY <1>3 DEF Safe, Lawful, Merge
  <2>3. QED
    BY <1>3, <1>0, <2>1, <2>2
<1>4. ASSUME NEW r \in Runs, Launch(r), r \in Users PROVE Safe'
  <2>1. FilesSafe'
    BY <1>4 DEF Safe, Lawful, Launch
  <2>2. Users' \subseteq Users /\ (r \in Users' => StageSafe(r)')
    BY <1>4 DEF Safe, Lawful, Launch
  <2>3. QED
    BY <1>4, <1>0, <2>1, <2>2
<1>5. ASSUME NEW r \in Runs, ReadState(r), r \in Users PROVE Safe'
  <2>1. FilesSafe'
    BY <1>5 DEF Safe, Lawful, ReadState, ReadableState, FilesIn
  <2>2. Users' \subseteq Users /\ (r \in Users' => StageSafe(r)')
    BY <1>5 DEF Safe, Lawful, ReadState, ReadableState, FilesIn
  <2>3. QED
    BY <1>5, <1>0, <2>1, <2>2
<1>6. ASSUME NEW r \in Runs, ClearOne(r), r \in Users PROVE Safe'
  <2>1. FilesSafe'
    BY <1>6 DEF Safe, Lawful, ClearOne
  <2>2. Users' \subseteq Users /\ (r \in Users' => StageSafe(r)')
    BY <1>6 DEF Safe, Lawful, ClearOne
  <2>3. QED
    BY <1>6, <1>0, <2>1, <2>2
<1>7. ASSUME NEW r \in Runs, Cleared(r), r \in Users PROVE Safe'
  <2>1. FilesSafe'
    BY <1>7 DEF Safe, Lawful, Cleared, FilesIn
  <2>2. Users' \subseteq Users /\ (r \in Users' => StageSafe(r)')
    BY <1>7 DEF Safe, Lawful, Cleared, FilesIn
  <2>3. QED
    BY <1>7, <1>0, <2>1, <2>2
<1>8. ASSUME NEW r \in Runs, PutBackOne(r), r \in Users PROVE Safe'
  <2>1. FilesSafe'
    BY <1>8 DEF Safe, Lawful, PutBackOne
  <2>2. Users' \subseteq Users /\ (r \in Users' => StageSafe(r)')
    BY <1>8 DEF Safe, Lawful, PutBackOne
  <2>3. QED
    BY <1>8, <1>0, <2>1, <2>2
<1>9. ASSUME NEW r \in Runs, PutBack(r), r \in Users PROVE Safe'
  <2>1. FilesSafe'
    BY <1>9 DEF Safe, Lawful, PutBack, Lapse
  <2>2. Users' \subseteq Users /\ (r \in Users' => StageSafe(r)')
    BY <1>9 DEF Safe, Lawful, PutBack, Lapse
  <2>3. QED
    BY <1>9, <1>0, <2>1, <2>2
<1>10. ASSUME NEW r \in Runs, Unflag(r), r \in Users PROVE Safe'
  <2>1. FilesSafe'
    BY <1>10 DEF Safe, Lawful, Unflag
  <2>2. Users' \subseteq Users /\ (r \in Users' => StageSafe(r)')
    BY <1>10 DEF Safe, Lawful, Unflag
  <2>3. QED
    BY <1>10, <1>0, <2>1, <2>2
<1>11. ASSUME NEW r \in Runs, Rewrite(r), r \in Users PROVE Safe'
  <2>1. FilesSafe'
    BY <1>11 DEF Safe, Lawful, Rewrite
  <2>2. Users' \subseteq Users /\ (r \in Users' => StageSafe(r)')
    BY <1>11 DEF Safe, Lawful, Rewrite
  <2>3. QED
    BY <1>11, <1>0, <2>1, <2>2
<1>12. ASSUME NEW r \in Runs, DropContents(r), r \in Users PROVE Safe'
  <2>1. FilesSafe'
    BY <1>12 DEF Safe, Lawful, DropContents
  <2>2. Users' \subseteq Users /\ (r \in Users' => StageSafe(r)')
    BY <1>12 DEF Safe, Lawful, DropContents
  <2>3. QED
    BY <1>12, <1>0, <2>1, <2>2
<1>13. ASSUME NEW r \in Runs, RemoveHold(r), r \in Users PROVE Safe'
  <2>1. FilesSafe'
    BY <1>13 DEF Safe, Lawful, RemoveHold
  <2>2. Users' \subseteq Users /\ (r \in Users' => StageSafe(r)')
    BY <1>13 DEF Safe, Lawful, RemoveHold
  <2>3. QED
    BY <1>13, <1>0, <2>1, <2>2
<1>14. ASSUME NEW r \in Runs, RestoreFails(r), r \in Users PROVE Safe'
  <2>1. FilesSafe'
    BY <1>14 DEF Safe, Lawful, RestoreFails
  <2>2. Users' \subseteq Users /\ (r \in Users' => StageSafe(r)')
    BY <1>14 DEF Safe, Lawful, RestoreFails
  <2>3. QED
    BY <1>14, <1>0, <2>1, <2>2
<1>15. ASSUME NEW r \in Runs, MakeHold(r), r \in Users PROVE Safe'
  <2>1. FilesSafe'
    BY <1>15 DEF Safe, Lawful, MakeHold
  <2>2. Users' \subseteq Users /\ (r \in Users' => StageSafe(r)')
    BY <1>15 DEF Safe, Lawful, MakeHold
  <2>3. QED
    BY <1>15, <1>0, <2>1, <2>2
<1>16. ASSUME NEW r \in Runs, ListOwn(r), r \in Users PROVE Safe'
  <2>1. FilesSafe'
    BY <1>16 DEF Safe, Lawful, ListOwn, FilesIn
  <2>2. Users' \subseteq Users /\ (r \in Users' => StageSafe(r)')
    BY <1>16 DEF Safe, Lawful, ListOwn, FilesIn
  <2>3. QED
    BY <1>16, <1>0, <2>1, <2>2
<1>17. ASSUME NEW r \in Runs, RecordState(r), r \in Users PROVE Safe'
  <2>1. FilesSafe'
    BY <1>17 DEF Safe, Lawful, RecordState
  <2>2. Users' \subseteq Users /\ (r \in Users' => StageSafe(r)')
    BY <1>17 DEF Safe, Lawful, RecordState
  <2>3. QED
    BY <1>17, <1>0, <2>1, <2>2
<1>18. ASSUME NEW r \in Runs, MoveOne(r), r \in Users PROVE Safe'
  <2>1. FilesSafe'
    BY <1>18 DEF Safe, Lawful, MoveOne
  <2>2. Users' \subseteq Users /\ (r \in Users' => StageSafe(r)')
    BY <1>18 DEF Safe, Lawful, MoveOne
  <2>3. QED
    BY <1>18, <1>0, <2>1, <2>2
<1>19. ASSUME NEW r \in Runs, Held(r), r \in Users PROVE Safe'
  <2>1. FilesSafe'
    BY <1>19 DEF Safe, Lawful, Held
  <2>2. Users' \subseteq Users /\ (r \in Users' => StageSafe(r)')
    BY <1>19 DEF Safe, Lawful, Held
  <2>3. QED
    BY <1>19, <1>0, <2>1, <2>2
<1>20. ASSUME NEW r \in Runs, HoldFails(r), r \in Users PROVE Safe'
  <2>1. FilesSafe'
    BY <1>20 DEF Safe, Lawful, HoldFails
  <2>2. Users' \subseteq Users /\ (r \in Users' => StageSafe(r)')
    BY <1>20 DEF Safe, Lawful, HoldFails
  <2>3. QED
    BY <1>20, <1>0, <2>1, <2>2
<1>21. ASSUME NEW r \in Runs, Release(r), r \in Users PROVE Safe'
  <2>1. FilesSafe'
    BY <1>21 DEF Safe, Lawful, Release, Forget
  <2>2. Users' \subseteq Users /\ (r \in Users' => StageSafe(r)')
    BY <1>21 DEF Safe, Lawful, Release, Forget
  <2>3. QED
    BY <1>21, <1>0, <2>1, <2>2
<1>22. ASSUME NEW r \in Runs, Relaunch(r), r \in Users PROVE Safe'
  <2>1. FilesSafe'
    BY <1>22 DEF Safe, Lawful, Relaunch, AfterKill
  <2>2. Users' \subseteq Users /\ (r \in Users' => StageSafe(r)')
    BY <1>22 DEF Safe, Lawful, Relaunch, AfterKill
  <2>3. QED
    BY <1>22, <1>0, <2>1, <2>2
<1>23. ASSUME NEW r \in Runs, RegisterAgain(r), r \in Users PROVE Safe'
  <2>1. FilesSafe'
    BY <1>23 DEF Safe, Lawful, RegisterAgain, Lapse
  <2>2. Users' \subseteq Users /\ (r \in Users' => StageSafe(r)')
    BY <1>23 DEF Safe, Lawful, RegisterAgain, Lapse
  <2>3. QED
    BY <1>23, <1>0, <2>1, <2>2
<1>24. ASSUME NEW r \in Runs, Dispose(r), r \in Users PROVE Safe'
  <2>1. FilesSafe'
    BY <1>24 DEF Safe, Lawful, Dispose, AfterKill
  <2>2. Users' \subseteq Users /\ (r \in Users' => StageSafe(r)')
    BY <1>24 DEF Safe, Lawful, Dispose, AfterKill
  <2>3. QED
    BY <1>24, <1>0, <2>1, <2>2
<1>25. ASSUME NEW r \in Runs, Crash(r), r \in Users PROVE Safe'
  <2>1. FilesSafe'
    BY <1>25 DEF Safe, Lawful, Crash, Forget
  <2>2. Users' \subseteq Users /\ (r \in Users' => StageSafe(r)')
    BY <1>25 DEF Safe, Lawful, Crash, Forget
  <2>3. QED
    BY <1>25, <1>0, <2>1, <2>2
<1>26. ASSUME NEW r \in Runs, ReadLock(r) PROVE Safe'
  BY <1>26 DEF ReadLock, Safe, OneUser
<1>27. ASSUME NEW r \in Runs, WriteLock(r) PROVE Safe'
  BY <1>27 DEF WriteLock, Lapse, Lawful, Safe, OneUser
<1>28. ASSUME NEW r \in Runs, Crash(r), r \notin Users PROVE Safe'
  BY <1>28 DEF Crash, Forget, Safe, OneUser
<1>29. ASSUME NEW r \in Runs, InstanceEnds(r) PROVE Safe'
  BY <1>29 DEF InstanceEnds, Safe, OneUser
<1>30. ASSUME NEW r \in Runs, AppWrites(r) PROVE Safe'
  BY <1>30 DEF AppWrites, Safe, OneUser
<1>31. CASE UNCHANGED vars
  BY <1>31 DEF vars, Safe, OneUser
<1>32. CASE Next
  <2>1. PICK r \in Runs :
          \/ Register(r) \/ Restore(r) \/ Hold(r) \/ Release(r)
          \/ Relaunch(r) \/ RegisterAgain(r) \/ Dispose(r)
          \/ Crash(r) \/ InstanceEnds(r) \/ AppWrites(r)
    BY <1>32 DEF Next
  <2>2. CASE r \in Users
    BY <2>1, <2>2, <1>1, <1>2, <1>3, <1>4, <1>5, <1>6, <1>7, <1>8, <1>9, <1>10, <1>11, <1>12,
       <1>13, <1>14, <1>15, <1>16, <1>17, <1>18, <1>19, <1>20, <1>21, <1>22, <1>23, <1>24,
       <1>25, <1>26, <1>27, <1>28, <1>29, <1>30
       DEF Register, Restore, Hold
  <2>3. CASE r \notin Users
    <3>1. ReadLock(r) \/ WriteLock(r) \/ Crash(r) \/ InstanceEnds(r) \/ AppWrites(r)
      BY <2>1, <2>3 DEF Register, Restore, Hold,
         Provision, Seed, Merge, Launch, ReadState, ClearOne, Cleared, PutBackOne, PutBack,
         Unflag, Rewrite, DropContents, RemoveHold, RestoreFails, MakeHold, ListOwn, RecordState,
         MoveOne, Held, HoldFails, Release, Relaunch, RegisterAgain, Dispose
    <3>2. QED
      BY <2>3, <3>1, <1>26, <1>27, <1>28, <1>29, <1>30
  <2>4. QED
    BY <2>2, <2>3
<1>33. QED
  BY <1>31, <1>32

-----------------------------------------------------------------------------
LEMMA IInvStep == IInv /\ [Next]_vars => IInv'
  BY TypeStep, LawfulBefore, SafeStep DEF IInv

LEMMA IInvHolds == Spec => []IInv
<1>1. Init => IInv
  BY TypeInit, SafeInit DEF IInv
<1>2. QED
  BY <1>1, IInvStep, PTL DEF Spec

\* No asar of the owner's is lost, whatever is killed, fails or is repeated, unless
\* two runs shared the profile, a restore found a hold without its state, or a caller
\* went on after a hold that failed.
THEOREM OwnAsarsAreKept == Spec => []AsarsKeptUnlessLapsed
<1>1. IInv => AsarsKeptUnlessLapsed
  BY DEF IInv, Lawful, Safe, FilesSafe, AsarsKeptUnlessLapsed, OwnAsarsKept
<1>2. QED
  BY <1>1, IInvHolds, PTL

\* An instance is launched only with the owner's asars held aside.
THEOREM LaunchesFindThemHeld == Spec => []HeldWhileLaunched
<1>1. IInv => HeldWhileLaunched
  BY DEF IInv, Lawful, Safe, StageSafe, OwnHeld, HeldWhileLaunched, Users, Inside, Using
<1>2. QED
  BY <1>1, IInvHolds, PTL

-----------------------------------------------------------------------------
(* What is handed back.                                                    *)

OwnState == [names |-> Own, flag |-> OwnFlag]

\* The profile holds the owner's asars and no others.
OwnOnly == \A v \in Versions : asar[v] = (IF v \in Own THEN "own" ELSE "none")

\* Whatever is read of obsidian.json has the owner's vaults, and the hold holds and says
\* only what the owner had.
HoldFaithful ==
  /\ registry # Torn => registry.isKept
  /\ \A r \in Runs : seen[r].isKept
  /\ \A v \in Versions \ Own : held[v] = "none"
  /\ IsRecorded => hold = OwnState
  /\ ~IsRecorded => OwnOnly /\ registry = OwnRegistry /\ instances = {}

\* What run r has still to undo at each of its steps.
StageFaithful(r) ==
  /\ pc[r] \in (Restoring \ {"reading"}) \cup Holding => instances = {}
  /\ pc[r] = "recording" => plan[r] = OwnState
  /\ pc[r] \in {"recording", "moving"} => todo[r] \subseteq Own
  /\ pc[r] = "moving" =>
       registry = OwnRegistry /\ \A v \in Versions \ Own : asar[v] = "none"
  /\ pc[r] \in Using /\ r \in armed => IsRecorded
  /\ pc[r] \in {"clearing", "putting", "unflagging", "rewriting", "dropping"} => IsRecorded
  /\ pc[r] \in {"clearing", "putting", "unflagging", "rewriting"} => plan[r] = OwnState
  /\ pc[r] = "clearing" => \A v \in Versions \ Own : v \in todo[r] \/ asar[v] = "none"
  /\ pc[r] = "putting" => todo[r] \subseteq Own /\ \A v \in Versions \ Own : asar[v] = "none"
  /\ pc[r] \in {"unflagging", "rewriting", "dropping"} => OwnOnly
  /\ pc[r] = "unflagging" => registry # Torn
  /\ pc[r] = "dropping" => registry = OwnRegistry

Faithful == HoldFaithful /\ \A r \in Users : StageFaithful(r)

\* As long as nothing lapsed, what was held can be handed back as it was.
FInv == IInv /\ (lapses = {} => Faithful)

\* What the owner had is none of the sentinels.
LEMMA Apart ==
  /\ NoHold # Bare /\ NoHold # Torn /\ Bare # Torn
  /\ OwnState \in States /\ OwnState \in Plans /\ OwnState \notin {NoHold, Bare, Torn}
  /\ OwnRegistry \in Registries /\ OwnRegistry # Torn
  /\ OwnRegistry.flag = OwnFlag /\ OwnRegistry.isKept
  /\ OwnState.names = Own /\ OwnState.flag = OwnFlag /\ OwnFlag # "unknown" /\ OwnFlag \in Flags
<1>1. OwnState \in States /\ OwnState \in Plans /\ OwnRegistry \in Registries
  BY ProfileAssumption DEF OwnState, States, Plans, OwnRegistry, Registries, Flags
<1> QED
  BY <1>1, ProfileAssumption DEF OwnState, OwnRegistry, Flags

\* A step of the run that uses the profile.
LEMMA FaithfulStep ==
  ASSUME TypeOK, Safe, Faithful, lapses = {}, lapses' = {}, NEW r \in Runs, r \in Users,
         \/ Register(r) \/ Restore(r) \/ Hold(r) \/ Release(r)
         \/ Relaunch(r) \/ RegisterAgain(r) \/ Dispose(r) \/ Crash(r)
  PROVE  Faithful'
<1> USE DEF Goto, fileVars, runVars, Location, Inside, Restoring, Holding, Using, HoldFaithful, StageFaithful,
            OwnOnly, IsRecorded, Users
<1>0. ASSUME HoldFaithful', Users' \subseteq Users, r \in Users' => StageFaithful(r)' PROVE Faithful'
  <2> HIDE DEF HoldFaithful, StageFaithful
  <2> QED
    BY <1>0 DEF Safe, OneUser, Faithful
<1>1. CASE Provision(r)
  <2>1. HoldFaithful'
    BY <1>1 DEF Safe, StageSafe, Faithful, Provision
  <2>2. Users' \subseteq Users /\ (r \in Users' => StageFaithful(r)')
    BY <1>1 DEF Faithful, Provision
  <2> QED
    BY <1>0, <2>1, <2>2
<1>2. CASE Seed(r)
  <2>1. HoldFaithful'
    BY <1>2 DEF Safe, StageSafe, Faithful, Seed, Lapse
  <2>2. Users' \subseteq Users /\ (r \in Users' => StageFaithful(r)')
    BY <1>2 DEF Faithful, Seed
  <2> QED
    BY <1>0, <2>1, <2>2
<1>3. CASE Merge(r)
  <2>1. HoldFaithful'
    BY <1>3 DEF Safe, StageSafe, Faithful, Merge
  <2>2. Users' \subseteq Users /\ (r \in Users' => StageFaithful(r)')
    BY <1>3 DEF Faithful, Merge
  <2> QED
    BY <1>0, <2>1, <2>2
<1>4. CASE Launch(r)
  <2>1. HoldFaithful'
    BY <1>4 DEF Safe, StageSafe, Faithful, Launch
  <2>2. Users' \subseteq Users /\ (r \in Users' => StageFaithful(r)')
    BY <1>4 DEF TypeOK, Faithful, Launch
  <2> QED
    BY <1>0, <2>1, <2>2
<1>5. CASE ReadState(r)
  <2>1. HoldFaithful'
    BY <1>5 DEF Faithful, ReadState
  <2>2. Users' \subseteq Users /\ (r \in Users' => StageFaithful(r)')
    BY <1>5, Apart DEF TypeOK, Faithful, ReadState, ReadableState, FilesIn
  <2> QED
    BY <1>0, <2>1, <2>2
<1>6. CASE ClearOne(r)
  <2>1. HoldFaithful'
    BY <1>6 DEF Faithful, ClearOne
  <2>2. Users' \subseteq Users /\ (r \in Users' => StageFaithful(r)')
    BY <1>6 DEF TypeOK, Faithful, ClearOne
  <2> QED
    BY <1>0, <2>1, <2>2
<1>7. CASE Cleared(r)
  <2>1. HoldFaithful'
    BY <1>7 DEF Faithful, Cleared
  <2>2. Users' \subseteq Users /\ (r \in Users' => StageFaithful(r)')
    BY <1>7 DEF Faithful, Cleared, FilesIn
  <2> QED
    BY <1>0, <2>1, <2>2
<1>8. CASE PutBackOne(r)
  <2>1. HoldFaithful'
    BY <1>8 DEF Faithful, PutBackOne
  <2>2. Users' \subseteq Users /\ (r \in Users' => StageFaithful(r)')
    BY <1>8 DEF Faithful, PutBackOne
  <2> QED
    BY <1>0, <2>1, <2>2
<1>9. CASE PutBack(r)
  <2>1. HoldFaithful'
    BY <1>9 DEF Faithful, PutBack
  <2>2. Users' \subseteq Users /\ (r \in Users' => StageFaithful(r)')
    BY <1>9, Apart DEF Safe, StageSafe, Faithful, PutBack, Lapse
  <2> QED
    BY <1>0, <2>1, <2>2
<1>10. CASE Unflag(r)
  <2>1. HoldFaithful'
    BY <1>10 DEF Faithful, Unflag
  <2>2. Users' \subseteq Users /\ (r \in Users' => StageFaithful(r)')
    BY <1>10 DEF TypeOK, Faithful, Unflag
  <2> QED
    BY <1>0, <2>1, <2>2
<1>11. CASE Rewrite(r)
  <2>1. HoldFaithful'
    BY <1>11 DEF Faithful, Rewrite
  <2>2. Users' \subseteq Users /\ (r \in Users' => StageFaithful(r)')
    <3>1. plan[r] = OwnState /\ seen[r] \in Registries /\ seen[r].isKept /\ OwnOnly /\ IsRecorded
      BY <1>11 DEF TypeOK, Faithful, Rewrite
    <3>2. registry' = OwnRegistry
      BY <1>11, <3>1, Apart DEF Rewrite, Registries
    <3>3. pc' = [pc EXCEPT ![r] = "dropping"] /\ asar' = asar /\ hold' = hold /\ instances' = instances
      BY <1>11 DEF Rewrite
    <3> QED
      BY <1>11, <3>2 DEF Faithful, Rewrite
  <2> QED
    BY <1>0, <2>1, <2>2
<1>12. CASE DropContents(r)
  <2>1. HoldFaithful'
    BY <1>12 DEF Faithful, DropContents
  <2>2. Users' \subseteq Users /\ (r \in Users' => StageFaithful(r)')
    BY <1>12 DEF TypeOK, Faithful, DropContents
  <2> QED
    BY <1>0, <2>1, <2>2
<1>13. CASE RemoveHold(r)
  <2>1. HoldFaithful'
    BY <1>13 DEF Safe, StageSafe, Faithful, RemoveHold
  <2>2. Users' \subseteq Users /\ (r \in Users' => StageFaithful(r)')
    BY <1>13 DEF TypeOK, Faithful, RemoveHold
  <2> QED
    BY <1>0, <2>1, <2>2
<1>14. CASE RestoreFails(r)
  <2>1. HoldFaithful'
    BY <1>14 DEF Faithful, RestoreFails
  <2>2. Users' \subseteq Users /\ (r \in Users' => StageFaithful(r)')
    BY <1>14 DEF TypeOK, Faithful, RestoreFails
  <2> QED
    BY <1>0, <2>1, <2>2
<1>15. CASE MakeHold(r)
  <2>1. HoldFaithful'
    BY <1>15 DEF Faithful, MakeHold
  <2>2. Users' \subseteq Users /\ (r \in Users' => StageFaithful(r)')
    BY <1>15 DEF Faithful, MakeHold
  <2> QED
    BY <1>0, <2>1, <2>2
<1>16. CASE ListOwn(r)
  <2>1. HoldFaithful'
    BY <1>16 DEF Safe, StageSafe, Faithful, ListOwn
  <2>2. Users' \subseteq Users /\ (r \in Users' => StageFaithful(r)')
    <3>1. OwnOnly /\ registry = OwnRegistry /\ instances = {}
      BY <1>16 DEF Safe, StageSafe, Faithful, ListOwn
    <3>2. FilesIn(asar) = Own
      BY <3>1, ProfileAssumption DEF FilesIn
    <3>3. plan'[r] = OwnState /\ todo'[r] = Own
      BY <1>16, <3>1, <3>2, Apart DEF TypeOK, ListOwn, OwnState
    <3>4. pc' = [pc EXCEPT ![r] = "recording"] /\ instances' = instances
      BY <1>16 DEF ListOwn
    <3> QED
      BY <3>1, <3>3, <3>4 DEF TypeOK
  <2> QED
    BY <1>0, <2>1, <2>2
<1>17. CASE RecordState(r)
  <2>1. HoldFaithful'
    BY <1>17 DEF Faithful, RecordState
  <2>2. Users' \subseteq Users /\ (r \in Users' => StageFaithful(r)')
    BY <1>17 DEF Safe, StageSafe, Faithful, RecordState
  <2> QED
    BY <1>0, <2>1, <2>2
<1>18. CASE MoveOne(r)
  <2>1. HoldFaithful'
    BY <1>18 DEF Safe, StageSafe, Faithful, MoveOne
  <2>2. Users' \subseteq Users /\ (r \in Users' => StageFaithful(r)')
    BY <1>18 DEF Faithful, MoveOne
  <2> QED
    BY <1>0, <2>1, <2>2
<1>19. CASE Held(r)
  <2>1. HoldFaithful'
    BY <1>19 DEF Faithful, Held
  <2>2. Users' \subseteq Users /\ (r \in Users' => StageFaithful(r)')
    BY <1>19 DEF Safe, StageSafe, Faithful, Held
  <2> QED
    BY <1>0, <2>1, <2>2
<1>20. CASE HoldFails(r)
  <2>1. HoldFaithful'
    BY <1>20 DEF Faithful, HoldFails
  <2>2. Users' \subseteq Users /\ (r \in Users' => StageFaithful(r)')
    BY <1>20 DEF Safe, StageSafe, Faithful, HoldFails
  <2> QED
    BY <1>0, <2>1, <2>2
<1>21. CASE Release(r)
  <2>1. HoldFaithful'
    BY <1>21 DEF Faithful, Release, Forget
  <2>2. Users' \subseteq Users /\ (r \in Users' => StageFaithful(r)')
    BY <1>21 DEF Release
  <2> QED
    BY <1>0, <2>1, <2>2
<1>22. CASE Relaunch(r)
  <2>1. HoldFaithful'
    BY <1>22 DEF Faithful, Relaunch, AfterKill
  <2>2. Users' \subseteq Users /\ (r \in Users' => StageFaithful(r)')
    BY <1>22 DEF TypeOK, Faithful, Relaunch
  <2> QED
    BY <1>0, <2>1, <2>2
<1>23. CASE RegisterAgain(r)
  <2>1. HoldFaithful'
    BY <1>23 DEF Faithful, RegisterAgain
  <2>2. Users' \subseteq Users /\ (r \in Users' => StageFaithful(r)')
    BY <1>23 DEF Faithful, RegisterAgain
  <2> QED
    BY <1>0, <2>1, <2>2
<1>24. CASE Dispose(r)
  <2>1. HoldFaithful'
    BY <1>24 DEF Faithful, Dispose, AfterKill
  <2>2. Users' \subseteq Users /\ (r \in Users' => StageFaithful(r)')
    BY <1>24 DEF Faithful, Dispose
  <2> QED
    BY <1>0, <2>1, <2>2
<1>25. CASE Crash(r)
  <2>1. HoldFaithful'
    BY <1>25 DEF Faithful, Crash, Forget
  <2>2. Users' \subseteq Users /\ (r \in Users' => StageFaithful(r)')
    BY <1>25 DEF TypeOK, Crash
  <2> QED
    BY <1>0, <2>1, <2>2
<1> QED
  BY <1>1, <1>2, <1>3, <1>4, <1>5, <1>6, <1>7, <1>8, <1>9, <1>10, <1>11, <1>12, <1>13, <1>14, <1>15, <1>16,
     <1>17, <1>18, <1>19, <1>20, <1>21, <1>22, <1>23, <1>24, <1>25
     DEF Register, Restore, Hold, ReadLock, WriteLock

\* A step of a run that does not use the profile, of an instance, or of nobody.
LEMMA FaithfulOutside ==
  ASSUME TypeOK, TypeOK', Safe, Faithful, lapses = {}, lapses' = {}, NEW r \in Runs,
         \/ r \notin Users /\ (ReadLock(r) \/ WriteLock(r) \/ Crash(r))
         \/ InstanceEnds(r) \/ AppWrites(r) \/ UNCHANGED vars
  PROVE  Faithful'
<1> USE DEF Goto, fileVars, runVars, HoldFaithful, StageFaithful, OwnOnly, IsRecorded
<1>1. CASE r \notin Users /\ (ReadLock(r) \/ Crash(r))
  <2>1. Users' = Users /\ \A s \in Users : s # r
    BY <1>1 DEF TypeOK, ReadLock, Crash, Users, Inside, Restoring, Holding, Using
  <2>2. \A s \in Users : /\ pc'[s] = pc[s] /\ plan'[s] = plan[s] /\ todo'[s] = todo[s]
                         /\ (s \in armed' <=> s \in armed)
    BY <1>1 DEF TypeOK, ReadLock, Crash, Forget, Users
  <2>3. UNCHANGED <<asar, held, hold, registry, instances, seen>>
    BY <1>1 DEF ReadLock, Crash, Forget
  <2> QED
    BY <2>1, <2>2, <2>3 DEF Faithful
<1>2. CASE WriteLock(r)
  <2>1. Users = {}
    BY <1>2 DEF WriteLock, Lapse
  <2>2. Users' \subseteq {r} /\ pc'[r] = "reading"
    BY <1>2, <2>1 DEF TypeOK, WriteLock, Users
  <2> QED
    BY <1>2, <2>2 DEF WriteLock, Faithful, Holding, Using
<1>3. CASE InstanceEnds(r)
  BY <1>3 DEF InstanceEnds, Faithful, Users
<1>4. CASE AppWrites(r)
  <2>1. IsRecorded /\ \A s \in Users : pc[s] \in Using \cup {"reading", "releasing"}
    BY <1>4 DEF AppWrites, Faithful, Users, Inside
  <2>2. registry' # Torn => registry'.isKept
    BY <1>4 DEF AppWrites, Faithful, TypeOK, Registries
  <2> QED
    BY <1>4, <2>1, <2>2 DEF AppWrites, Faithful, Users, Using
<1>5. CASE UNCHANGED vars
  BY <1>5 DEF vars, Faithful, Users
<1> QED
  BY <1>1, <1>2, <1>3, <1>4, <1>5

LEMMA FInvInit == Init => FInv
<1> SUFFICES ASSUME Init PROVE FInv
  OBVIOUS
<1>1. IInv
  BY TypeInit, SafeInit DEF IInv
<1>2. Users = {}
  BY DEF Init, Users, Inside, Restoring, Holding, Using
<1>3. HoldFaithful
  BY Apart DEF Init, HoldFaithful, OwnOnly, IsRecorded
<1> QED
  BY <1>1, <1>2, <1>3 DEF FInv, Faithful

LEMMA FInvStep == FInv /\ [Next]_vars => FInv'
<1> SUFFICES ASSUME FInv, [Next]_vars PROVE FInv'
  OBVIOUS
<1>1. IInv /\ IInv' /\ TypeOK /\ TypeOK'
  BY IInvStep DEF FInv, IInv
<1> SUFFICES ASSUME lapses' = {} PROVE Faithful'
  BY <1>1 DEF FInv
<1>2. lapses = {} /\ Safe /\ Faithful
  BY LapsesGrow DEF FInv, IInv, Lawful
<1>3. CASE Next
  <2>1. PICK r \in Runs :
          \/ Register(r) \/ Restore(r) \/ Hold(r) \/ Release(r)
          \/ Relaunch(r) \/ RegisterAgain(r) \/ Dispose(r)
          \/ Crash(r) \/ InstanceEnds(r) \/ AppWrites(r)
    BY <1>3 DEF Next
  <2>2. CASE r \in Users
    BY <1>1, <1>2, <2>1, <2>2, FaithfulStep, FaithfulOutside
  <2>3. CASE r \notin Users
    <3>1. ReadLock(r) \/ WriteLock(r) \/ Crash(r) \/ InstanceEnds(r) \/ AppWrites(r)
      BY <2>1, <2>3 DEF Users, Inside, Restoring, Holding, Using, Register, Restore, Hold, Provision, Seed,
         Merge, Launch, ReadState, ClearOne, Cleared, PutBackOne, PutBack, Unflag, Rewrite, DropContents,
         RemoveHold, RestoreFails, MakeHold, ListOwn, RecordState, MoveOne, Held, HoldFails, Release,
         Relaunch, RegisterAgain, Dispose
    <3> QED
      BY <1>1, <1>2, <2>3, <3>1, FaithfulOutside
  <2> QED
    BY <2>2, <2>3
<1>4. CASE UNCHANGED vars
  <2>1. CASE Runs = {}
    BY <1>2, <1>4, <2>1 DEF vars, fileVars, Faithful, HoldFaithful, OwnOnly, IsRecorded, Users
  <2>2. CASE Runs # {}
    BY <1>1, <1>2, <1>4, <2>2, FaithfulOutside
  <2> QED
    BY <2>1, <2>2
<1> QED
  BY <1>3, <1>4

\* What the owner's profile had is handed back, whatever is killed or fails, unless
\* the protocol was left.
THEOREM HandedBack == Spec => []HandedBackUnlessLapsed
<1>1. FInv => HandedBackUnlessLapsed
  <2> SUFFICES ASSUME FInv, lapses = {}, hold = NoHold
      PROVE  /\ asar = [v \in Versions |-> IF v \in Own THEN "own" ELSE "none"]
             /\ registry = OwnRegistry
    BY DEF HandedBackUnlessLapsed
  <2>1. OwnOnly /\ registry = OwnRegistry
    BY DEF FInv, Faithful, HoldFaithful, IsRecorded
  <2> QED
    BY <2>1 DEF FInv, IInv, TypeOK, OwnOnly
<1> QED
  BY <1>1, FInvInit, FInvStep, PTL DEF Spec
=============================================================================
