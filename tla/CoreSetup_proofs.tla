-------------------------- MODULE CoreSetup_proofs --------------------------
(***************************************************************************)
(* The safety properties of CoreSetup, for any number of projects, any     *)
(* faulty disposals and any moment of exit.                                *)
(*                                                                         *)
(* LockCoversUse is not inductive: that the lock survives until the        *)
(* transport is gone depends on where the project stands.  IInv ties the   *)
(* lock, the tables and what exists to the stages: it says which stages    *)
(* own the lock, which are on the books, and which may have a vault or a   *)
(* live transport.                                                         *)
(***************************************************************************)
EXTENDS CoreSetup, TLAPS

(* The stages of a setup that has not ended, those the tables know, those
   that may have a vault, and those that may have a live transport. *)
Completed == {"ready", "disposingVault", "disposingTransport"}
Locked == (SettingUp \ {"locking"}) \cup Completed
WithVault == {"filling", "registering", "enabling", "undoingVault", "ready", "disposingVault"}
WithTransport == WithVault \cup {"undoingTransport", "disposingTransport"}

(* What holds of the lock and the tables while the process runs. *)
Books ==
    /\ \A s \in Setups : lockOwner = s <=> s \in Android /\ stage[s] \in Locked
    /\ \A s \in Setups : s \in activeSetups <=> stage[s] \in Completed
    /\ setupLocks = activeSetups \cap Android
    /\ activeSetups # {} => isCleanupHandlerRegistered
    /\ \A s \in Setups : s \in disposedResults <=> stage[s] \in TearingDown \cup {"done"}
    /\ \A s \in Setups : stage[s] = "locking" => s \in Android
    /\ \A s \in Setups : caller[s] = "provided" => stage[s] \in {"ready"} \cup TearingDown \cup {"done"}

(* What holds of the world at every moment, the process dead or alive. *)
Bounded ==
    /\ \A s \in Setups : transport[s] = "live" => stage[s] \in WithTransport
    /\ \A s \in Setups : s \in directory \cup registered => stage[s] \in WithVault \/ s \in Faulty
    /\ \A s \in Setups : lockOwner = s => stage[s] \in Locked

IInv == TypeOK /\ (process = "running" => Books) /\ Bounded /\ ExitCleansCompleted

Stages == SettingUp \cup TearingDown \cup Settled

USE SetupsAssumption

LEMMA InitIInv == Init => IInv
<1> SUFFICES ASSUME Init PROVE IInv
  OBVIOUS
<1>1. TypeOK
  BY DEF Init, TypeOK, Settled
<1>2. Books
  BY DEF Init, Books, SettingUp, TearingDown, Completed, Locked
<1>3. Bounded
  BY DEF Init, Bounded
<1>4. ExitCleansCompleted
  BY DEF Init, ExitCleansCompleted
<1> QED
  BY <1>1, <1>2, <1>3, <1>4 DEF IInv

LEMMA NextIInv == IInv /\ [Next]_vars => IInv'
<1> SUFFICES ASSUME IInv, [Next]_vars PROVE IInv'
  OBVIOUS
<1> USE DEF IInv, TypeOK, Books, Bounded, SettingUp, TearingDown, Settled,
            Completed, Locked, WithVault, WithTransport
<1>1. ASSUME NEW s \in Setups, CallSetup(s) PROVE IInv'
  BY <1>1 DEF CallSetup, skipIfDesktopOnly, assertBuildIsFresh, Refuse, At, Goto, Tell, world, tables, ExitCleansCompleted
<1>2. ASSUME NEW s \in Setups, AcquireLock(s) PROVE IInv'
  BY <1>2 DEF AcquireLock, At, Goto, Tell, world, tables, ExitCleansCompleted
<1>3. ASSUME NEW s \in Setups, LockTimesOut(s) PROVE IInv'
  BY <1>3 DEF LockTimesOut, At, Goto, Tell, world, tables, ExitCleansCompleted
<1>4. ASSUME NEW s \in Setups, CreateTransport(s) PROVE IInv'
  BY <1>4 DEF CreateTransport, At, Goto, Tell, world, tables, ExitCleansCompleted
<1>5. ASSUME NEW s \in Setups, FillVault(s) PROVE IInv'
  BY <1>5 DEF FillVault, At, Goto, Tell, world, tables, ExitCleansCompleted
<1>6. ASSUME NEW s \in Setups, RegisterVault(s) PROVE IInv'
  BY <1>6 DEF RegisterVault, At, Goto, Tell, world, tables, ExitCleansCompleted
<1>7. ASSUME NEW s \in Setups, FinishSetup(s) PROVE IInv'
  BY <1>7 DEF FinishSetup, At, Goto, Tell, world, tables, ExitCleansCompleted
<1>8. ASSUME NEW s \in Setups, EnableFails(s) PROVE IInv'
  BY <1>8 DEF EnableFails, At, Goto, Tell, world, tables, ExitCleansCompleted
<1>9. ASSUME NEW s \in Setups, UndoVault(s) PROVE IInv'
  BY <1>9 DEF UndoVault, VaultDisposed, At, Goto, Tell, world, tables, ExitCleansCompleted
<1>10. ASSUME NEW s \in Setups, UndoTransport(s) PROVE IInv'
  BY <1>10 DEF UndoTransport, TransportDisposed, LeftOfTransport, LockAfterReleaseOf,
               At, Goto, Tell, world, tables, ExitCleansCompleted
<1>11. ASSUME NEW s \in Setups, CallTeardown(s) PROVE IInv'
  BY <1>11 DEF CallTeardown, At, Goto, Tell, world, tables, ExitCleansCompleted
<1>12. ASSUME NEW s \in Setups, DisposeVault(s) PROVE IInv'
  BY <1>12 DEF DisposeVault, VaultDisposed, At, Goto, Tell, world, tables, ExitCleansCompleted
<1>13. ASSUME NEW s \in Setups, DisposeTransport(s) PROVE IInv'
  BY <1>13 DEF DisposeTransport, releaseSetupLock, TransportDisposed, LeftOfTransport, LockAfterReleaseOf,
               At, Goto, Tell, world, tables, ExitCleansCompleted
<1>14. ASSUME NEW s \in Setups, FinishTeardown(s) PROVE IInv'
  BY <1>14 DEF FinishTeardown, At, Goto, Tell, world, tables, ExitCleansCompleted
<1>15. ASSUME TearDownActive PROVE IInv'
  BY <1>15 DEF TearDownActive, world, tables, ExitCleansCompleted
<1>16. ASSUME Exit PROVE IInv'
  BY <1>16 DEF Exit, LeftOfTransport, world, tables, ExitCleansCompleted
<1>17. ASSUME RunnerAborts PROVE IInv'
  BY <1>17 DEF RunnerAborts, world, tables, ExitCleansCompleted
<1>18. ASSUME Kill PROVE IInv'
  BY <1>18 DEF Kill, world, tables, ExitCleansCompleted
<1>19. ASSUME OtherStep PROVE IInv'
  BY <1>19 DEF OtherStep, OtherAcquires, OtherSteals, OtherReleases, world, tables, ExitCleansCompleted
<1>20. CASE UNCHANGED vars
  BY <1>20 DEF vars, world, tables, ExitCleansCompleted
<1> QED
  BY <1>1, <1>2, <1>3, <1>4, <1>5, <1>6, <1>7, <1>8, <1>9, <1>10, <1>11, <1>12, <1>13, <1>14,
     <1>15, <1>16, <1>17, <1>18, <1>19, <1>20
  DEF Next, SetupStep, TeardownStep, UnhandledRejection, BeforeExit

LEMMA Invariance == Spec => []IInv
  BY InitIInv, NextIInv, PTL DEF Spec

(* The type invariant, for every set of projects. *)
THEOREM TypeCorrect == Spec => []TypeOK
<1>1. IInv => TypeOK
  BY DEF IInv
<1> QED
  BY Invariance, <1>1, PTL

(* No Android transport is alive outside its setup lock. *)
THEOREM LockCovers == Spec => []LockCoversUse
<1>1. IInv => LockCoversUse
  BY DEF IInv, Books, Bounded, LockCoversUse, Completed, Locked, WithVault, WithTransport, SettingUp
<1> QED
  BY Invariance, <1>1, PTL

(* A setup that has ended, well or badly, leaves nothing it can dispose of. *)
THEOREM FinishedIsClean == Spec => []FinishedLeavesNothing
<1>1. IInv => FinishedLeavesNothing
  BY DEF IInv, Bounded, FinishedLeavesNothing, Completed, Locked, WithVault, WithTransport, SettingUp
<1> QED
  BY Invariance, <1>1, PTL

(* An exit cleans up after every setup that had completed. *)
THEOREM ExitIsClean == Spec => []ExitCleansCompleted
<1>1. IInv => ExitCleansCompleted
  BY DEF IInv
<1> QED
  BY Invariance, <1>1, PTL

(* Whichever way a setup ends, it leaves no lock, and nothing its disposals could remove. *)
THEOREM CleanEitherWay == Spec => []NothingIsLeft
BY FinishedIsClean, ExitIsClean, PTL DEF NothingIsLeft

(* No disposal is started a second time. *)
THEOREM DisposalIsOnce == Spec => DisposedOnce
<1>1. ASSUME IInv, Next,
             NEW s \in Setups, stage[s] \in {"disposingTransport", "sweeping", "done"}
      PROVE  stage'[s] # "disposingVault"
  <2> USE <1>1 DEF IInv, TypeOK, Books, TearingDown
  <2>1. ASSUME NEW t \in Setups, SetupStep(t) PROVE stage'[s] # "disposingVault"
    BY <2>1 DEF SetupStep, CallSetup, skipIfDesktopOnly, assertBuildIsFresh, Refuse, AcquireLock, LockTimesOut,
                CreateTransport, FillVault, RegisterVault,
                FinishSetup, EnableFails, UndoVault, UndoTransport, At, Goto
  <2>2. ASSUME NEW t \in Setups, TeardownStep(t) PROVE stage'[s] # "disposingVault"
    BY <2>2 DEF TeardownStep, CallTeardown, DisposeVault, DisposeTransport, FinishTeardown, At, Goto
  <2>3. ASSUME TearDownActive PROVE stage'[s] # "disposingVault"
    BY <2>3 DEF TearDownActive
  <2>4. ASSUME Exit \/ RunnerAborts \/ Kill \/ OtherStep PROVE stage'[s] # "disposingVault"
    BY <2>4 DEF Exit, RunnerAborts, Kill, OtherStep, OtherAcquires, OtherSteals, OtherReleases
  <2> QED
    BY <2>1, <2>2, <2>3, <2>4, <1>1 DEF Next, UnhandledRejection, BeforeExit
<1>2. ASSUME UNCHANGED vars,
             NEW s \in Setups, stage[s] \in {"disposingTransport", "sweeping", "done"}
      PROVE  stage'[s] # "disposingVault"
  BY <1>2 DEF vars
<1>3. IInv /\ [Next]_vars =>
        [\A s \in Setups : stage[s] \in {"disposingTransport", "sweeping", "done"} => stage'[s] # "disposingVault"]_vars
  BY <1>1, <1>2
<1> QED
  BY Invariance, <1>3, PTL DEF Spec, DisposedOnce

(* The locks the projects of this process take and give back, together with
   the runs of other processes, behave as the abstract mutex. *)
THEOREM MutexRefined == Spec => ImplementsMutex
<1>1. Init => Mutex!Init
  BY DEF Init, Mutex!Init, Holders
<1>2. ASSUME IInv, [Next]_vars PROVE [Mutex!Next]_Holders
  <2>0. TypeOK /\ (process = "running" => Books)
    BY <1>2 DEF IInv
  <2> DEFINE Kept == lockOwner' = lockOwner /\ (process' = process \/ lockOwner \notin Setups)
             Taken == lockOwner = None /\ lockOwner' \in Setups /\ process = "running" /\ process' = process
             TakenByOther == lockOwner' = Other /\ process' = process
                        /\ (lockOwner = None \/ (process # "running" /\ lockOwner \in Setups))
             GivenUp == lockOwner \in Setups /\ process = "running" /\ (lockOwner' = None \/ process' # "running")
                        /\ lockOwner' \in {lockOwner, None}
             GivenUpByOther == lockOwner = Other /\ lockOwner' = None
  <2>1. CASE Kept
    BY <2>1 DEF Holders
  <2>2. CASE Taken
    <3>1. Holders = {} /\ Holders' = {lockOwner'}
      BY <2>2 DEF Holders
    <3> QED
      BY <3>1, <2>2 DEF Mutex!Next, Mutex!Enter
  <2>3. CASE TakenByOther
    <3>1. Holders = {} /\ Holders' = {Other}
      BY <2>3 DEF Holders
    <3> QED
      BY <3>1 DEF Mutex!Next, Mutex!Enter
  <2>4. CASE GivenUp
    <3>1. Holders = {lockOwner} /\ Holders' = {}
      BY <2>4 DEF Holders
    <3> QED
      BY <3>1, <2>4 DEF Mutex!Next, Mutex!Leave
  <2>5. CASE GivenUpByOther
    <3>1. Holders = {Other} /\ Holders' = {}
      BY <2>5 DEF Holders
    <3> QED
      BY <3>1 DEF Mutex!Next, Mutex!Leave
  <2>6. ASSUME NEW s \in Setups, SetupStep(s) PROVE Kept \/ Taken \/ GivenUp
    BY <2>6 DEF SetupStep, CallSetup, skipIfDesktopOnly, assertBuildIsFresh, Refuse, AcquireLock, LockTimesOut,
                CreateTransport, FillVault, RegisterVault,
                FinishSetup, EnableFails, UndoVault, UndoTransport, At, LockAfterReleaseOf
  <2>7. ASSUME NEW s \in Setups, TeardownStep(s) PROVE Kept \/ GivenUp
    BY <2>7 DEF TeardownStep, CallTeardown, DisposeVault, DisposeTransport, releaseSetupLock, FinishTeardown,
                At, LockAfterReleaseOf
  <2>8. ASSUME TearDownActive \/ RunnerAborts \/ UNCHANGED vars PROVE Kept
    BY <2>8 DEF TearDownActive, RunnerAborts, vars
  <2>9. ASSUME Exit \/ Kill PROVE Kept \/ GivenUp
    BY <2>9, <2>0 DEF Exit, Kill, TypeOK
  <2>10. ASSUME OtherStep PROVE TakenByOther \/ GivenUpByOther
    BY <2>10 DEF OtherStep, OtherAcquires, OtherSteals, OtherReleases
  <2>11. Kept \/ Taken \/ TakenByOther \/ GivenUp \/ GivenUpByOther
    BY <2>6, <2>7, <2>8, <2>9, <2>10, <1>2 DEF Next, UnhandledRejection, BeforeExit
  <2> QED
    BY <2>1, <2>2, <2>3, <2>4, <2>5, <2>11
<1> QED
  BY <1>1, <1>2, Invariance, PTL DEF Spec, ImplementsMutex, Mutex!Spec
=============================================================================
