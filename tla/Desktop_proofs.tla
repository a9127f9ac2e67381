-------------------------- MODULE Desktop_proofs --------------------------
(***************************************************************************)
(* Proofs about the desktop: the windows of a running instance, for any    *)
(* number of visits, transports and vaults, whatever the user opens and    *)
(* closes; and the setups of a machine with the directories they share and *)
(* the instances they launch, for any number of setups, ports and          *)
(* attempts, whatever dies, is killed or fails.                            *)
(***************************************************************************)
EXTENDS VaultWindows, DesktopRun, TLAPS

-----------------------------------------------------------------------------
(* The visits: their invariant, in parts.                                  *)

\* Some visit of transport t to vault v is misled.
Stale(t, v) == \E y \in misled : TransportOf[y] = t /\ VaultOf[y] = v

\* What a transport records is backed by a visit that uses the vault, and tells the truth about
\* the window and the entry unless such a visit is misled.
Records ==
  \A t \in Transports : \A v \in selfRegisteredVaultPaths[t] :
    /\ \E y \in Visits : TransportOf[y] = t /\ VaultOf[y] = v /\ pc[y] = "registered"
    /\ window[v] \in {None, t} \/ Stale(t, v)
    /\ v \in preRegisteredVaultPaths[t] \/ entry[v] \in {None, t} \/ Stale(t, v)

\* A window that a transport opened is on its record, or a visit of it is yet to record or to
\* close it, or failed to.
Owned ==
  \A v \in Vaults : window[v] \in Transports =>
    \/ v \in selfRegisteredVaultPaths[window[v]]
    \/ \E x \in Visits : /\ VaultOf[x] = v /\ TransportOf[x] = window[v]
                         /\ pc[x] \in {"polling", "destroying"} \/ x \in lapsed

\* What a visit has looked at holds until it acts on it, unless it is misled.
Looks ==
  \A x \in Visits :
    /\ pc[x] \in {"choosing", "reading", "opening", "polling"} =>
         window[VaultOf[x]] \in {None, TransportOf[x]} \/ x \in misled
    /\ pc[x] \in {"opening", "polling"} =>
         \/ VaultOf[x] \in preRegisteredVaultPaths[TransportOf[x]]
         \/ entry[VaultOf[x]] \in {None, TransportOf[x]} \/ x \in misled
    /\ pc[x] = "destroying" =>
         window[VaultOf[x]] \in {None, TransportOf[x]} \/ Stale(TransportOf[x], VaultOf[x])
    /\ pc[x] \in Disposing =>
         \/ x \in keeps
         \/ entry[VaultOf[x]] \in {None, TransportOf[x]} \/ Stale(TransportOf[x], VaultOf[x])

\* The window that was there first stays, and with it the application.
HomeStays == userSteps = 0 /\ misled = {} => running /\ window[HomeVault] = User

IInv == TypeOK /\ Records /\ Owned /\ Looks /\ HomeStays

-----------------------------------------------------------------------------
(* The steps.                                                              *)

\* The constants, as the proofs use them.
LEMMA Constants ==
  /\ \A x \in Visits : TransportOf[x] \in Transports /\ VaultOf[x] \in Vaults
  /\ HomeVault \in Vaults /\ User \notin Transports /\ None \notin Transports /\ User # None
  /\ None \notin Vaults
<1> QED BY VisitsAssumption DEF Vaults

\* A visit looks for the window of its vault and for one to send its commands through.
LEMMA LookingKeeps ==
  ASSUME IInv, NEW x \in Visits,
         Register(x) \/ Adopt(x) \/ NotOpen(x) \/ Adopted(x) \/ Choose(x) \/ ReadRegistry(x)
  PROVE  IInv'
<1>1. ASSUME Register(x) PROVE IInv'
  <2>1. TypeOK'
    BY <1>1 DEF IInv, TypeOK, Register, Goto, RegistrationFails, Registering, instance, sets
  <2>2. Records'
    BY <1>1 DEF IInv, TypeOK, Records, Stale, Register, Goto, RegistrationFails, instance, sets
  <2>3. Owned'
    BY <1>1 DEF IInv, TypeOK, Owned, Register, Goto, RegistrationFails, instance, sets
  <2>4. Looks'
    BY <1>1 DEF IInv, TypeOK, Looks, Stale, Register, Goto, RegistrationFails, Disposing, instance, sets
  <2>5. HomeStays'
    BY <1>1 DEF IInv, HomeStays, Register, instance
  <2> QED BY <2>1, <2>2, <2>3, <2>4, <2>5 DEF IInv
<1>2. ASSUME Adopt(x) PROVE IInv'
  <2>1. TypeOK'
    BY <1>2 DEF IInv, TypeOK, Adopt, Goto, RegistrationFails, Registering, instance, sets
  <2>2. Records'
    BY <1>2 DEF IInv, Records, Stale, Adopt, Goto, instance, sets
  <2>3. Owned'
    BY <1>2 DEF IInv, Owned, Adopt, Goto, instance, sets
  <2>4. Looks'
    BY <1>2 DEF IInv, Looks, Stale, Adopt, Goto, Disposing, instance, sets
  <2>5. HomeStays'
    BY <1>2 DEF IInv, HomeStays, Adopt, instance
  <2> QED BY <2>1, <2>2, <2>3, <2>4, <2>5 DEF IInv
<1>3. ASSUME NotOpen(x) PROVE IInv'
  <2>1. TypeOK'
    BY <1>3 DEF IInv, TypeOK, NotOpen, Goto, RegistrationFails, Registering, instance, sets
  <2>2. Records'
    BY <1>3 DEF IInv, Records, Stale, NotOpen, Goto, instance, sets
  <2>3. Owned'
    BY <1>3 DEF IInv, Owned, NotOpen, Goto, instance, sets
  <2>4. Looks'
    BY <1>3 DEF IInv, Looks, Stale, NotOpen, Goto, Disposing, instance, sets
  <2>5. HomeStays'
    BY <1>3 DEF IInv, HomeStays, NotOpen, instance
  <2> QED BY <2>1, <2>2, <2>3, <2>4, <2>5 DEF IInv
<1>4. ASSUME Adopted(x) PROVE IInv'
  <2>1. TypeOK'
    BY <1>4 DEF IInv, TypeOK, Adopted, Goto, RegistrationFails, instance, sets
  <2>2. Records'
    BY <1>4 DEF IInv, Records, Stale, Adopted, Goto, instance, sets
  <2>3. Owned'
    BY <1>4 DEF IInv, Owned, Adopted, Goto, instance, sets
  <2>4. Looks'
    BY <1>4 DEF IInv, Looks, Stale, Adopted, Goto, Disposing, instance, sets
  <2>5. HomeStays'
    BY <1>4 DEF IInv, HomeStays, Adopted, instance
  <2> QED BY <2>1, <2>2, <2>3, <2>4, <2>5 DEF IInv
<1>5. ASSUME Choose(x) PROVE IInv'
  <2>1. TypeOK'
    BY <1>5 DEF IInv, TypeOK, Choose, Goto, RegistrationFails, Registering, instance, sets
  <2>2. Records'
    BY <1>5 DEF IInv, Records, Stale, Choose, Goto, instance, sets
  <2>3. Owned'
    BY <1>5 DEF IInv, Owned, Choose, Goto, instance, sets
  <2>4. Looks'
    BY <1>5 DEF IInv, Looks, Stale, Choose, Goto, Disposing, instance, sets
  <2>5. HomeStays'
    BY <1>5 DEF IInv, HomeStays, Choose, instance
  <2> QED BY <2>1, <2>2, <2>3, <2>4, <2>5 DEF IInv
<1>6. ASSUME ReadRegistry(x) PROVE IInv'
  <2>1. TypeOK'
    BY <1>6, Constants DEF IInv, TypeOK, ReadRegistry, Goto, RegistrationFails, Registering, instance
  <2>2. Records'
    BY <1>6 DEF IInv, Records, Stale, ReadRegistry, Goto, instance
  <2>3. Owned'
    BY <1>6 DEF IInv, Owned, ReadRegistry, Goto, instance
  <2>4. Looks'
    <3>1. /\ pc' = [pc EXCEPT ![x] = "opening"] /\ pc[x] = "reading"
          /\ UNCHANGED <<window, entry, misled, keeps>>
          /\ preRegisteredVaultPaths' \in [Transports -> SUBSET Vaults]
          /\ \A t \in Transports : preRegisteredVaultPaths[t] \subseteq preRegisteredVaultPaths'[t]
      BY <1>6, <2>1 DEF TypeOK, ReadRegistry, Goto, instance
    <3>2. PICK isListed \in {entry[VaultOf[x]] # None, TRUE} :
            preRegisteredVaultPaths' =
              IF isListed THEN [preRegisteredVaultPaths EXCEPT ![TransportOf[x]] = @ \cup {VaultOf[x]}]
                          ELSE preRegisteredVaultPaths
      BY <1>6 DEF ReadRegistry
    <3>3. VaultOf[x] \in preRegisteredVaultPaths'[TransportOf[x]] \/ entry[VaultOf[x]] = None
      <4>1. CASE isListed
        BY <3>2, Constants DEF IInv, TypeOK
      <4>2. CASE ~isListed
        BY <4>2
      <4> QED BY <4>1
    <3> QED BY <3>1, <3>3, Constants DEF IInv, Looks, Stale, Disposing
  <2>5. HomeStays'
    BY <1>6 DEF IInv, HomeStays, ReadRegistry, instance
  <2> QED BY <2>1, <2>2, <2>3, <2>4, <2>5 DEF IInv
<1> QED BY <1>1, <1>2, <1>3, <1>4, <1>5, <1>6

\* It opens a window and records it, or gives up.
LEMMA OpeningKeeps ==
  ASSUME IInv, NEW x \in Visits, VaultOpen(x) \/ Opened(x) \/ GiveUp(x)
  PROVE  IInv'
<1>1. ASSUME VaultOpen(x) PROVE IInv'
  <2>1. TypeOK'
    BY <1>1, Constants DEF IInv, TypeOK, VaultOpen, Goto, RegistrationFails, Registering, sets, OpenVault,
       LookedAt
  <2>2. Records'
    <3> SUFFICES ASSUME NEW t \in Transports, NEW v \in selfRegisteredVaultPaths[t]
                 PROVE  /\ \E y \in Visits : TransportOf[y] = t /\ VaultOf[y] = v /\ pc'[y] = "registered"
                        /\ window'[v] \in {None, t} \/ Stale(t, v)'
                        /\ v \in preRegisteredVaultPaths[t] \/ entry'[v] \in {None, t} \/ Stale(t, v)'
      BY <1>1 DEF Records, VaultOpen, sets
    <3>1. PICK y \in Visits : TransportOf[y] = t /\ VaultOf[y] = v /\ pc[y] = "registered"
      BY DEF IInv, Records
    <3>2. y # x /\ pc'[y] = "registered" /\ y \in LookedAt(v)
      BY <1>1, <3>1 DEF IInv, TypeOK, VaultOpen, Goto, RegistrationFails, LookedAt
    <3>3. misled \subseteq misled' /\ (Stale(t, v) => Stale(t, v)')
      BY <1>1 DEF VaultOpen, OpenVault, Stale
    <3>4. CASE v = VaultOf[x] /\ TransportOf[x] # t /\ (window[v] = None \/ entry[v] = None)
      <4>1. y \in misled'
        BY <1>1, <3>1, <3>2, <3>4 DEF VaultOpen, OpenVault
      <4> QED BY <3>1, <3>2, <4>1 DEF Stale
    <3>5. CASE ~(v = VaultOf[x] /\ TransportOf[x] # t /\ (window[v] = None \/ entry[v] = None))
      <4>1. /\ window'[v] \in {window[v], t}
            /\ entry'[v] \in {entry[v], t}
        BY <1>1, <3>5 DEF VaultOpen, OpenVault
      <4> QED BY <3>1, <3>2, <3>3, <4>1 DEF IInv, Records
    <3> QED BY <3>4, <3>5
  <2>3. Owned'
    BY <1>1 DEF IInv, TypeOK, Owned, VaultOpen, Goto, RegistrationFails, sets, OpenVault
  <2>4. Looks'
    BY <1>1 DEF IInv, TypeOK, Looks, Stale, VaultOpen, Goto, RegistrationFails, Disposing, sets, OpenVault,
       LookedAt
  <2>5. HomeStays'
    BY <1>1, Constants DEF IInv, HomeStays, VaultOpen, OpenVault
  <2> QED BY <2>1, <2>2, <2>3, <2>4, <2>5 DEF IInv
<1>2. ASSUME Opened(x) PROVE IInv'
  <2>1. TypeOK'
    BY <1>2 DEF IInv, TypeOK, Opened, Goto, RegistrationFails, instance
  <2>2. Records'
    <3> SUFFICES ASSUME NEW t \in Transports, NEW v \in selfRegisteredVaultPaths'[t]
                 PROVE  /\ \E y \in Visits : TransportOf[y] = t /\ VaultOf[y] = v /\ pc'[y] = "registered"
                        /\ window[v] \in {None, t} \/ Stale(t, v)
                        /\ v \in preRegisteredVaultPaths[t] \/ entry[v] \in {None, t} \/ Stale(t, v)
      BY <1>2 DEF Records, Opened, instance, Stale
    <3>1. pc' = [pc EXCEPT ![x] = "registered"] /\ pc[x] = "polling"
      BY <1>2 DEF Opened, Goto
    <3>2. CASE v \in selfRegisteredVaultPaths[t]
      BY <3>1, <3>2 DEF IInv, Records
    <3>3. CASE t = TransportOf[x] /\ v = VaultOf[x]
      BY <3>1, <3>3 DEF IInv, TypeOK, Looks, Stale
    <3> QED BY <1>2, <3>2, <3>3 DEF Opened
  <2>3. Owned'
    BY <1>2 DEF IInv, TypeOK, Owned, Opened, Goto, RegistrationFails, instance
  <2>4. Looks'
    BY <1>2 DEF IInv, Looks, Stale, Opened, Goto, Disposing, instance
  <2>5. HomeStays'
    BY <1>2 DEF IInv, HomeStays, Opened, instance
  <2> QED BY <2>1, <2>2, <2>3, <2>4, <2>5 DEF IInv
<1>3. ASSUME GiveUp(x) PROVE IInv'
  <2>1. TypeOK'
    BY <1>3 DEF IInv, TypeOK, GiveUp, Goto, RegistrationFails, Registering, instance, sets
  <2>2. Records'
    BY <1>3 DEF IInv, Records, Stale, GiveUp, Goto, RegistrationFails, Registering, instance, sets
  <2>3. Owned'
    BY <1>3 DEF IInv, Owned, GiveUp, Goto, RegistrationFails, instance, sets
  <2>4. Looks'
    BY <1>3 DEF IInv, Looks, Stale, GiveUp, Goto, RegistrationFails, Disposing, instance, sets
  <2>5. HomeStays'
    BY <1>3 DEF IInv, HomeStays, GiveUp, instance
  <2> QED BY <2>1, <2>2, <2>3, <2>4, <2>5 DEF IInv
<1> QED BY <1>1, <1>2, <1>3

\* What is on the record is torn down.
LEMMA DisposingKeeps ==
  ASSUME IInv, NEW x \in Visits, Dispose(x) \/ Destroy(x) \/ DestroyFails(x)
  PROVE  IInv'
<1>1. ASSUME Dispose(x) PROVE IInv'
  <2>1. TypeOK'
    BY <1>1, Constants DEF IInv, TypeOK, Dispose, Goto, RegistrationFails, Disposing, instance, sets,
       RemoveDirectory, LookedAt
  <2>2. Records'
    BY <1>1 DEF IInv, TypeOK, Records, Stale, Dispose, Goto, RegistrationFails, instance, sets,
       shouldTearDownVaultWindow, RemoveDirectory
  <2>3. Owned'
    BY <1>1 DEF IInv, TypeOK, Owned, Dispose, Goto, RegistrationFails, instance, sets, RemoveDirectory
  <2>4. Looks'
    <3>1. CASE ~shouldTearDownVaultWindow(x)
      BY <1>1, <3>1 DEF IInv, TypeOK, Looks, Stale, Dispose, RemoveDirectory, Goto, sets, instance,
         Disposing
    <3>2. CASE shouldTearDownVaultWindow(x)
      <4> DEFINE t == TransportOf[x]
                 v == VaultOf[x]
      <4>1. /\ pc[x] \in {"registered", "failed"} /\ pc' = [pc EXCEPT ![x] = "destroying"]
            /\ keeps' = IF v \in preRegisteredVaultPaths[t] THEN keeps \cup {x} ELSE keeps
            /\ preRegisteredVaultPaths' = [preRegisteredVaultPaths EXCEPT ![t] = @ \ {v}]
            /\ misled' = IF v \in preRegisteredVaultPaths[t]
                         THEN misled \cup {y \in LookedAt(v) \ {x} : TransportOf[y] = t} ELSE misled
            /\ UNCHANGED <<window, entry>>
        BY <1>1, <3>2 DEF Dispose, Goto, instance
      <4>2. /\ window[v] \in {None, t} \/ Stale(t, v)
            /\ v \in preRegisteredVaultPaths[t] \/ entry[v] \in {None, t} \/ Stale(t, v)
        BY <3>2, Constants DEF IInv, Records, shouldTearDownVaultWindow
      <4>3. misled \subseteq misled' /\ \A u \in Transports, w \in Vaults : Stale(u, w) => Stale(u, w)'
        BY <4>1 DEF Stale
      <4>4. ASSUME NEW y \in Visits, y # x, pc[y] \in {"opening", "polling"}
            PROVE  \/ VaultOf[y] \in preRegisteredVaultPaths'[TransportOf[y]]
                   \/ entry[VaultOf[y]] \in {None, TransportOf[y]} \/ y \in misled'
        <5>1. CASE VaultOf[y] = v /\ TransportOf[y] = t /\ v \in preRegisteredVaultPaths[t]
          BY <4>1, <4>4, <5>1 DEF LookedAt
        <5>2. CASE ~(VaultOf[y] = v /\ TransportOf[y] = t /\ v \in preRegisteredVaultPaths[t])
          <6>1. /\ VaultOf[y] \in preRegisteredVaultPaths[TransportOf[y]] =>
                     VaultOf[y] \in preRegisteredVaultPaths'[TransportOf[y]]
            BY <4>1, <5>2
          <6> QED BY <4>3, <4>4, <6>1 DEF IInv, Looks
        <5> QED BY <5>1, <5>2
      <4> HIDE DEF t, v
      <4>5. ASSUME NEW y \in Visits, y # x, pc[y] \in {"choosing", "reading", "opening", "polling"}
            PROVE  window[VaultOf[y]] \in {None, TransportOf[y]} \/ y \in misled'
        BY <4>3, <4>5 DEF IInv, Looks
      <4>6. ASSUME NEW y \in Visits, y # x
            PROVE  /\ pc[y] = "destroying" =>
                        window[VaultOf[y]] \in {None, TransportOf[y]} \/ Stale(TransportOf[y], VaultOf[y])'
                   /\ pc[y] \in Disposing =>
                        \/ y \in keeps'
                        \/ entry[VaultOf[y]] \in {None, TransportOf[y]} \/ Stale(TransportOf[y], VaultOf[y])'
        BY <4>1, <4>3, Constants DEF IInv, Looks
      <4>7. /\ \A y \in Visits : y # x => pc'[y] = pc[y]
            /\ pc'[x] = "destroying"
        BY <4>1 DEF IInv, TypeOK
      <4>8. /\ window[VaultOf[x]] \in {None, TransportOf[x]} \/ Stale(TransportOf[x], VaultOf[x])'
            /\ \/ x \in keeps'
               \/ entry[VaultOf[x]] \in {None, TransportOf[x]} \/ Stale(TransportOf[x], VaultOf[x])'
        BY <4>1, <4>2, <4>3, Constants DEF t, v
      <4> QED BY <4>1, <4>4, <4>5, <4>6, <4>8 DEF Looks
    <3> QED BY <3>1, <3>2
  <2>5. HomeStays'
    BY <1>1 DEF IInv, HomeStays, Dispose, instance
  <2> QED BY <2>1, <2>2, <2>3, <2>4, <2>5 DEF IInv
<1>2. ASSUME Destroy(x) PROVE IInv'
  <2>1. TypeOK'
    BY <1>2 DEF IInv, TypeOK, Destroy, Goto, RegistrationFails, Disposing, sets, CloseWindow
  <2>2. Records'
    BY <1>2 DEF IInv, Records, Stale, Destroy, Goto, sets, CloseWindow
  <2>3. Owned'
    BY <1>2, Constants DEF IInv, TypeOK, Owned, Destroy, Goto, RegistrationFails, sets, CloseWindow
  <2>4. Looks'
    BY <1>2 DEF IInv, Looks, Stale, Destroy, Goto, Disposing, sets, CloseWindow
  <2>5. HomeStays'
    <3> SUFFICES ASSUME userSteps = 0, misled = {} PROVE running' /\ window'[HomeVault] = User
      BY <1>2 DEF HomeStays, Destroy
    <3>1. running /\ window[HomeVault] = User
      BY DEF IInv, HomeStays
    <3>2. VaultOf[x] # HomeVault
      BY <1>2, <3>1, Constants DEF IInv, Looks, Stale, Destroy
    <3>3. HomeVault \in Windows
      BY <3>1, Constants DEF Windows
    <3> QED BY <1>2, <3>1, <3>2, <3>3, Constants DEF IInv, TypeOK, Destroy, CloseWindow
  <2> QED BY <2>1, <2>2, <2>3, <2>4, <2>5 DEF IInv
<1>3. ASSUME DestroyFails(x) PROVE IInv'
  <2>1. TypeOK'
    BY <1>3 DEF IInv, TypeOK, DestroyFails, Goto, RegistrationFails, Disposing, instance, sets
  <2>2. Records'
    BY <1>3 DEF IInv, Records, Stale, DestroyFails, Goto, instance, sets
  <2>3. Owned'
    BY <1>3 DEF IInv, Owned, DestroyFails, Goto, instance, sets
  <2>4. Looks'
    BY <1>3 DEF IInv, Looks, Stale, DestroyFails, Goto, Disposing, instance, sets
  <2>5. HomeStays'
    BY <1>3 DEF IInv, HomeStays, DestroyFails, instance
  <2> QED BY <2>1, <2>2, <2>3, <2>4, <2>5 DEF IInv
<1> QED BY <1>1, <1>2, <1>3

\* The entry is kept or removed, and the directory goes.
LEMMA ForgettingKeeps ==
  ASSUME IInv, NEW x \in Visits, KeepEntry(x) \/ LookForWindows(x) \/ Forget(x) \/ ForgetFails(x)
  PROVE  IInv'
<1>1. ASSUME KeepEntry(x) PROVE IInv'
  <2>1. TypeOK'
    BY <1>1, Constants DEF IInv, TypeOK, KeepEntry, Goto, RegistrationFails, instance, sets, RemoveDirectory
  <2>2. Records'
    BY <1>1 DEF IInv, Records, Stale, KeepEntry, Goto, instance, sets, RemoveDirectory
  <2>3. Owned'
    BY <1>1 DEF IInv, Owned, KeepEntry, Goto, instance, sets, RemoveDirectory
  <2>4. Looks'
    BY <1>1 DEF IInv, TypeOK, Looks, Stale, KeepEntry, Goto, Disposing, instance, sets, RemoveDirectory
  <2>5. HomeStays'
    BY <1>1 DEF IInv, HomeStays, KeepEntry, instance
  <2> QED BY <2>1, <2>2, <2>3, <2>4, <2>5 DEF IInv
<1>2. ASSUME LookForWindows(x) PROVE IInv'
  <2>1. TypeOK'
    BY <1>2, Constants DEF IInv, TypeOK, LookForWindows, Goto, RegistrationFails, Disposing, sets,
       RemoveDirectory
  <2>2. Records'
    BY <1>2 DEF IInv, TypeOK, Records, Stale, LookForWindows, Goto, RegistrationFails, sets, RemoveDirectory
  <2>3. Owned'
    BY <1>2 DEF IInv, TypeOK, Owned, LookForWindows, Goto, RegistrationFails, sets, RemoveDirectory
  <2>4. Looks'
    BY <1>2, Constants DEF IInv, TypeOK, Looks, Stale, LookForWindows, Goto, Disposing, sets,
       RemoveDirectory
  <2>5. HomeStays'
    BY <1>2 DEF IInv, HomeStays, LookForWindows
  <2> QED BY <2>1, <2>2, <2>3, <2>4, <2>5 DEF IInv
<1>3. ASSUME Forget(x) PROVE IInv'
  <2>1. TypeOK'
    BY <1>3, Constants DEF IInv, TypeOK, Forget, Goto, RegistrationFails, sets, RemoveDirectory
  <2>2. Records'
    BY <1>3 DEF IInv, Records, Stale, Forget, Goto, sets, RemoveDirectory
  <2>3. Owned'
    BY <1>3 DEF IInv, Owned, Forget, Goto, sets, RemoveDirectory
  <2>4. Looks'
    BY <1>3 DEF IInv, Looks, Stale, Forget, Goto, Disposing, sets, RemoveDirectory
  <2>5. HomeStays'
    BY <1>3 DEF IInv, HomeStays, Forget
  <2> QED BY <2>1, <2>2, <2>3, <2>4, <2>5 DEF IInv
<1>4. ASSUME ForgetFails(x) PROVE IInv'
  <2>1. TypeOK'
    BY <1>4, Constants DEF IInv, TypeOK, ForgetFails, Goto, RegistrationFails, instance, sets,
       RemoveDirectory
  <2>2. Records'
    BY <1>4 DEF IInv, Records, Stale, ForgetFails, Goto, instance, sets, RemoveDirectory
  <2>3. Owned'
    BY <1>4 DEF IInv, Owned, ForgetFails, Goto, instance, sets, RemoveDirectory
  <2>4. Looks'
    BY <1>4 DEF IInv, Looks, Stale, ForgetFails, Goto, Disposing, instance, sets, RemoveDirectory
  <2>5. HomeStays'
    BY <1>4 DEF IInv, HomeStays, ForgetFails, instance
  <2> QED BY <2>1, <2>2, <2>3, <2>4, <2>5 DEF IInv
<1> QED BY <1>1, <1>2, <1>3, <1>4

\* Windows open, get ready and close between the steps of the visits.
LEMMA UserKeeps ==
  ASSUME IInv, NEW v \in Vaults, BecomeReady(v) \/ UserOpens(v) \/ UserCloses(v)
  PROVE  IInv'
<1>1. ASSUME BecomeReady(v) PROVE IInv'
  <2>1. TypeOK'
    BY <1>1 DEF IInv, TypeOK, BecomeReady, sets
  <2>2. Records' /\ Owned' /\ Looks'
    BY <1>1 DEF IInv, Records, Owned, Looks, Stale, BecomeReady, sets
  <2>3. HomeStays'
    BY <1>1 DEF IInv, HomeStays, BecomeReady
  <2> QED BY <2>1, <2>2, <2>3 DEF IInv
<1>2. ASSUME UserOpens(v) PROVE IInv'
  <2>1. TypeOK'
    <3>1. userSteps' \in 0..UserLimit
      BY <1>2, VisitsAssumption DEF IInv, TypeOK, UserOpens
    <3>2. /\ window' \in [Vaults -> Transports \cup {User, None}]
          /\ entry' \in [Vaults -> Transports \cup {User, None}]
          /\ misled' \subseteq Visits
          /\ ready' \subseteq {w \in Vaults : window'[w] # None}
      BY <1>2 DEF IInv, TypeOK, UserOpens, OpenVault, LookedAt
    <3> QED BY <1>2, <3>1, <3>2 DEF IInv, TypeOK, UserOpens, sets
  <2>a. /\ misled \subseteq misled' /\ UNCHANGED <<pc, keeps, sets, lapsed, running>>
        /\ \A w \in Vaults : w # v => window'[w] = window[w] /\ entry'[w] = entry[w]
        /\ \A y \in LookedAt(v) : y \in misled'
        /\ window'[v] = User /\ entry'[v] \in {entry[v], User}
    BY <1>2, Constants DEF IInv, TypeOK, UserOpens, OpenVault, LookedAt
  <2>2. Records'
    BY <2>a DEF IInv, Records, TypeOK, Stale, LookedAt, sets
  <2>3. Owned'
    BY <2>a, Constants DEF IInv, Owned, sets
  <2>4. Looks'
    <3>1. ASSUME NEW y \in Visits, VaultOf[y] = v,
                 pc[y] \in {"choosing", "reading", "opening", "polling"} \cup Disposing
          PROVE  y \in misled'
      BY <2>a, <3>1 DEF LookedAt, Disposing
    <3>2. ASSUME NEW y \in Visits, VaultOf[y] # v
          PROVE  window'[VaultOf[y]] = window[VaultOf[y]] /\ entry'[VaultOf[y]] = entry[VaultOf[y]]
      BY <2>a, <3>2, Constants
    <3>3. \A t \in Transports, w \in Vaults : Stale(t, w) => Stale(t, w)'
      BY <2>a DEF Stale
    <3> SUFFICES ASSUME NEW y \in Visits
                 PROVE  /\ pc[y] \in {"choosing", "reading", "opening", "polling"} =>
                             window'[VaultOf[y]] \in {None, TransportOf[y]} \/ y \in misled'
                        /\ pc[y] \in {"opening", "polling"} =>
                             \/ VaultOf[y] \in preRegisteredVaultPaths[TransportOf[y]]
                             \/ entry'[VaultOf[y]] \in {None, TransportOf[y]} \/ y \in misled'
                        /\ pc[y] = "destroying" =>
                             \/ window'[VaultOf[y]] \in {None, TransportOf[y]}
                             \/ Stale(TransportOf[y], VaultOf[y])'
                        /\ pc[y] \in Disposing =>
                             \/ y \in keeps
                             \/ entry'[VaultOf[y]] \in {None, TransportOf[y]}
                             \/ Stale(TransportOf[y], VaultOf[y])'
      BY <2>a DEF Looks, sets
    <3>4. CASE VaultOf[y] = v
      BY <3>1, <3>4 DEF Stale, Disposing
    <3>5. CASE VaultOf[y] # v
      BY <2>a, <3>3, <3>5, Constants DEF IInv, Looks
    <3> QED BY <3>4, <3>5
  <2>5. HomeStays'
    BY <1>2 DEF IInv, TypeOK, HomeStays, UserOpens
  <2> QED BY <2>1, <2>2, <2>3, <2>4, <2>5 DEF IInv
<1>3. ASSUME UserCloses(v) PROVE IInv'
  <2>1. TypeOK'
    <3>1. userSteps' \in 0..UserLimit
      BY <1>3, VisitsAssumption DEF IInv, TypeOK, UserCloses
    <3> QED BY <1>3, <3>1 DEF IInv, TypeOK, UserCloses, CloseWindow, sets
  <2>2. Records' /\ Owned' /\ Looks'
    BY <1>3, Constants DEF IInv, Records, Owned, Looks, Stale, UserCloses, CloseWindow, sets
  <2>3. userSteps' # 0
    BY <1>3 DEF IInv, TypeOK, UserCloses
  <2> QED BY <2>1, <2>2, <2>3 DEF IInv, HomeStays
<1> QED BY <1>1, <1>2, <1>3

-----------------------------------------------------------------------------
(* What holds of the visits.                                               *)

\* The instance as the first transport finds it.
LEMMA InitIInv == Init => IInv
<1> SUFFICES ASSUME Init PROVE IInv
  OBVIOUS
<1>1. TypeOK
  BY Constants, VisitsAssumption DEF Init, TypeOK
<1>2. Records /\ Owned /\ Looks /\ HomeStays
  BY Constants DEF Init, Records, Owned, Looks, HomeStays, Disposing
<1> QED BY <1>1, <1>2 DEF IInv

\* Every step of a visit and of the user keeps the invariant.
LEMMA NextIInv == IInv /\ [Next]_vars => IInv'
<1> SUFFICES ASSUME IInv, [Next]_vars PROVE IInv'
  OBVIOUS
<1>1. ASSUME NEW x \in Visits, Register(x) \/ VisitStep(x) PROVE IInv'
  BY <1>1, LookingKeeps, OpeningKeeps, DisposingKeeps, ForgettingKeeps DEF VisitStep
<1>2. ASSUME NEW v \in Vaults, BecomeReady(v) \/ UserOpens(v) \/ UserCloses(v) PROVE IInv'
  BY <1>2, UserKeeps
<1>3. CASE UNCHANGED vars
  BY <1>3 DEF IInv, TypeOK, Records, Owned, Looks, HomeStays, Stale, vars, sets, instance
<1> QED BY <1>1, <1>2, <1>3 DEF Next

\* The invariant holds between any two steps.
LEMMA Inductive == Spec => []IInv
<1> QED BY InitIInv, NextIInv, PTL DEF Spec

\* The application outlives every visit, and no visit leaves a window of its transport behind,
\* for any number of visits that share vaults and transports.
THEOREM NothingIsLeftOpen == Spec => []VisitInv
<1>1. IInv => VisitInv
  <2> SUFFICES ASSUME IInv PROVE VisitInv
    OBVIOUS
  <2>1. InstanceSurvives
    BY DEF IInv, HomeStays, InstanceSurvives
  <2>2. NoWindowLeftBehind
    <3> SUFFICES ASSUME NEW v \in Vaults, window[v] \in Transports
                 PROVE  \E x \in Visits : /\ VaultOf[x] = v /\ TransportOf[x] = window[v]
                                          /\ pc[x] = "ended" => x \in lapsed
      BY DEF NoWindowLeftBehind
    <3>1. CASE v \in selfRegisteredVaultPaths[window[v]]
      BY <3>1 DEF IInv, Records
    <3>2. CASE v \notin selfRegisteredVaultPaths[window[v]]
      BY <3>2 DEF IInv, Owned
    <3> QED BY <3>1, <3>2
  <2> QED BY <2>1, <2>2 DEF IInv, VisitInv
<1> QED BY <1>1, Inductive, PTL

\* A visit destroys the window, and removes the entry, of somebody else only on the record of a
\* visit of its transport that was misled about them.
THEOREM OthersAreSpared == Spec => ForeignIsSpared
<1>1. ASSUME IInv, [Next]_vars, NEW x \in Visits, pc[x] = "destroying", pc'[x] = "closed", window' # window
      PROVE  window[VaultOf[x]] = TransportOf[x] \/ Misled(x)
  <2>1. Destroy(x)
    <3>1. ASSUME NEW y \in Visits, Register(y) \/ VisitStep(y) PROVE Destroy(x)
      <4>1. y = x
        BY <1>1, <3>1 DEF IInv, TypeOK, VisitStep, Register, Adopt, NotOpen, Adopted, Choose, ReadRegistry,
           VaultOpen, Opened, GiveUp, Dispose, Destroy, DestroyFails, KeepEntry, LookForWindows, Forget,
           ForgetFails, Goto, RegistrationFails, RemoveDirectory
      <4> QED BY <1>1, <3>1, <4>1 DEF VisitStep, Register, Adopt, NotOpen, Adopted, Choose, ReadRegistry,
                 VaultOpen, Opened, GiveUp, Dispose, DestroyFails, KeepEntry, LookForWindows, Forget,
                 ForgetFails, instance
    <3>2. ASSUME NEW v \in Vaults, BecomeReady(v) \/ UserOpens(v) \/ UserCloses(v) PROVE FALSE
      BY <1>1, <3>2 DEF BecomeReady, UserOpens, UserCloses
    <3> QED BY <1>1, <3>1, <3>2 DEF Next, vars
  <2>2. window[VaultOf[x]] # None
    <3>1. VaultOf[x] \in ready /\ ready \subseteq {v \in Vaults : window[v] # None}
      BY <1>1, <2>1 DEF IInv, TypeOK, Destroy
    <3> QED BY <3>1
  <2> QED BY <1>1, <2>2 DEF IInv, Looks, Stale, Misled
<1>2. ASSUME IInv, [Next]_vars, NEW x \in Visits, pc[x] \in Disposing, pc'[x] = "ended", entry' # entry
      PROVE  entry[VaultOf[x]] \in {None, TransportOf[x]} \/ Misled(x)
  <2>1. LookForWindows(x) \/ Forget(x)
    <3>1. ASSUME NEW y \in Visits, Register(y) \/ VisitStep(y) PROVE LookForWindows(x) \/ Forget(x)
      <4>1. y = x
        BY <1>2, <3>1 DEF IInv, TypeOK, Disposing, VisitStep, Register, Adopt, NotOpen, Adopted, Choose,
           ReadRegistry, VaultOpen, Opened, GiveUp, Dispose, Destroy, DestroyFails, KeepEntry, LookForWindows,
           Forget, ForgetFails, Goto, RegistrationFails, RemoveDirectory
      <4> QED BY <1>2, <3>1, <4>1 DEF Disposing, VisitStep, Register, Adopt, NotOpen, Adopted, Choose,
                 ReadRegistry, VaultOpen, Opened, GiveUp, Dispose, Destroy, DestroyFails, KeepEntry,
                 ForgetFails, instance
    <3>2. ASSUME NEW v \in Vaults, BecomeReady(v) \/ UserOpens(v) \/ UserCloses(v) PROVE FALSE
      BY <1>2, <3>2 DEF BecomeReady, UserOpens, UserCloses, Disposing
    <3> QED BY <1>2, <3>1, <3>2 DEF Next, vars, instance
  <2>2. x \notin keeps
    <3>1. CASE LookForWindows(x)
      BY <3>1 DEF LookForWindows
    <3>2. CASE Forget(x)
      <4>1. pc[x] = "forgetting" /\ keeps \subseteq {y \in Visits : pc[y] \in {"destroying", "closed"}}
        BY <1>2, <3>2 DEF IInv, TypeOK, Forget
      <4> QED BY <4>1
    <3> QED BY <2>1, <3>1, <3>2
  <2> QED BY <1>2, <2>2 DEF IInv, Looks, Stale, Misled
<1>3. IInv /\ [Next]_vars =>
        \A x \in Visits : pc[x] = "destroying" /\ pc'[x] = "closed" /\ window' # window =>
          window[VaultOf[x]] = TransportOf[x] \/ Misled(x)
  BY <1>1
<1>4. IInv /\ [Next]_vars =>
        \A x \in Visits : pc[x] \in Disposing /\ pc'[x] = "ended" =>
          \/ entry' = entry
          \/ entry[VaultOf[x]] \in {None, TransportOf[x]}
          \/ Misled(x)
  BY <1>2
<1> QED BY <1>3, <1>4, Inductive, PTL DEF Spec, ForeignIsSpared, ForeignWindowSpared, ForeignEntryKept


-----------------------------------------------------------------------------
(* The directories: their types, in parts.                                 *)

Places == {"idle", "dispose", "close", "last-sweep"} \cup SettingUp \cup InUse \cup SetupsOver

SweepRecords ==
  [root : 0..3, left : SUBSET Directories, from : 0..Horizon,
   failed : SUBSET Directories, excluded : SUBSET Setups, books : SUBSET Setups]

Losses == [dir : Directories, by : Setups, age : 0..Horizon, books : BOOLEAN]

\* A setup made its directories before now.
MadeBefore == \A s \in Setups : made[s] <= now

DirectoriesTypes ==
  /\ now \in 0..Horizon /\ faults \in 0..FaultLimit
  /\ stage \in [Setups -> Places]
  /\ got \in [Setups -> SUBSET Artifacts]
  /\ written \in [Directories -> 0..Gone]
  /\ sweep \in [Setups -> SweepRecords]
  /\ active \subseteq Setups \ Sessions
  /\ cache \in [Artifacts -> {"none", "begun", "part", "whole"}]
  /\ made \in [Setups -> 0..Horizon]
  /\ lost \subseteq Losses
  /\ cut \subseteq Artifacts

LEMMA SameTypes == (DirectoriesTypeOK <=> DirectoriesTypes) /\ (DirectoriesTypeOK' <=> DirectoriesTypes')
<1> QED BY DEF DirectoriesTypeOK, DirectoriesTypes, Places, SweepRecords, Losses

LEMMA Machine ==
  /\ Horizon \in Nat /\ FaultLimit \in Nat
  /\ Gone \in Nat /\ Gone > Horizon
  /\ \A s \in Setups : Needs[s] \subseteq Artifacts /\ MaxAge[s] \in Nat
  /\ \A d \in Directories : Owner(d) \in Setups /\ Root(d) \in {"vault", "userdata"}
  /\ \A s \in Setups : \A r \in {"vault", "userdata"} :
       <<s, r>> \in Directories /\ Owner(<<s, r>>) = s /\ Root(<<s, r>>) = r
  /\ Roots[1] = "vault" /\ Roots[2] = "userdata"
<1>1. Horizon \in Nat /\ FaultLimit \in Nat
  BY DirectoriesAssumption
<1>2. Gone \in Nat /\ Gone > Horizon
  BY <1>1 DEF Gone
<1>3. \A s \in Setups : Needs[s] \subseteq Artifacts /\ MaxAge[s] \in Nat
  BY DirectoriesAssumption
<1>4. \A d \in Directories : Owner(d) \in Setups /\ Root(d) \in {"vault", "userdata"}
  BY DEF Directories, Owner, Root
<1>5. \A s \in Setups : \A r \in {"vault", "userdata"} :
       <<s, r>> \in Directories /\ Owner(<<s, r>>) = s /\ Root(<<s, r>>) = r
  BY DEF Directories, Owner, Root
<1>6. Roots[1] = "vault" /\ Roots[2] = "userdata"
  BY DEF Roots
<1> QED BY <1>1, <1>2, <1>3, <1>4, <1>5, <1>6

LEMMA PlacesAre ==
  {"idle", "dispose", "close", "last-sweep", "sweep", "fetch", "download", "unpack", "launch", "up",
   "done", "failed", "dead"} \subseteq Places
<1> QED BY DEF Places, SettingUp, InUse, SetupsOver

LEMMA GoingKeepsTypes ==
  ASSUME DirectoriesTypes, NEW s \in Setups, NEW w \in Places, SetupGoto(s, w)
  PROVE  stage' \in [Setups -> Places]
<1> QED BY DEF SetupGoto, DirectoriesTypes

LEMMA FaultKeepsTypes ==
  ASSUME DirectoriesTypes, Fault
  PROVE  faults' \in 0..FaultLimit
<1> QED BY Machine DEF Fault, DirectoriesTypes

LEMMA BeginSweepTypes ==
  ASSUME DirectoriesTypes, NEW s \in Setups, BeginSweep(s)
  PROVE  DirectoriesTypes'
<1>1. now \in 0..Horizon /\ active \subseteq Setups /\ sweep \in [Setups -> SweepRecords]
  BY DEF DirectoriesTypes
<1>2. excludedNames(s) \subseteq Setups /\ Listing(1, excludedNames(s)) \subseteq Directories
  BY <1>1 DEF excludedNames, Listing
<1>3. [root |-> 1, left |-> Listing(1, excludedNames(s)), from |-> now,
       failed |-> {}, excluded |-> excludedNames(s), books |-> active] \in SweepRecords
  BY <1>1, <1>2 DEF SweepRecords
<1>4. sweep' \in [Setups -> SweepRecords]
  BY <1>1, <1>3 DEF BeginSweep
<1> QED BY <1>4 DEF BeginSweep, DirectoriesTypes

LEMMA NextRootTypes ==
  ASSUME DirectoriesTypes, NEW s \in Setups, NextRoot(s)
  PROVE  DirectoriesTypes'
<1>1. sweep \in [Setups -> SweepRecords] /\ sweep[s].root \in 1..2
  BY DEF DirectoriesTypes, NextRoot
<1>2. sweep[s].root + 1 \in 0..3
  BY <1>1
<1>3. (IF sweep[s].root = 2 THEN {} ELSE Listing(2, sweep[s].excluded)) \in SUBSET Directories
  BY DEF Listing
<1>4. PICK l \in SUBSET Directories, n \in 0..3 :
        sweep' = [sweep EXCEPT ![s].root = n, ![s].left = l]
  BY <1>2, <1>3 DEF NextRoot
<1>5. [sweep[s] EXCEPT !.root = n, !.left = l] \in SweepRecords
  <2> DEFINE Was == sweep[s]
  <2>1. Was \in SweepRecords
    BY <1>1
  <2> HIDE DEF Was
  <2>2. [Was EXCEPT !.root = n, !.left = l] \in SweepRecords
    BY <2>1 DEF SweepRecords
  <2> QED BY <2>2 DEF Was
<1>6. sweep' \in [Setups -> SweepRecords]
  BY <1>1, <1>4, <1>5
<1> QED BY <1>6 DEF NextRoot, DirectoriesTypes

LEMMA NoSweepIsSweep == NoSweep \in SweepRecords
<1> QED BY Machine DEF NoSweep, SweepRecords

LEMMA SweptTypes ==
  ASSUME DirectoriesTypes, NEW s \in Setups, Swept(s)
  PROVE  DirectoriesTypes'
<1>1. sweep' \in [Setups -> SweepRecords]
  BY NoSweepIsSweep DEF Swept, DirectoriesTypes
<1>2. stage' \in [Setups -> Places]
  BY PlacesAre, GoingKeepsTypes DEF Swept
<1> QED BY <1>1, <1>2 DEF Swept, DirectoriesTypes

LEMMA sweepTypes ==
  ASSUME DirectoriesTypes, MadeBefore, NEW s \in Setups, NEW d \in Directories, sweepHostLeftovers(d, s)
  PROVE  DirectoriesTypes'
<1>1. sweep \in [Setups -> SweepRecords] /\ sweep[s] \in SweepRecords /\ now \in 0..Horizon
      /\ made \in [Setups -> 0..Horizon] /\ lost \subseteq Losses /\ written \in [Directories -> 0..Gone]
  BY DEF DirectoriesTypes
<1>a. CASE /\ sweep' = [sweep EXCEPT ![s].left = @ \ {d}]
           /\ written' = [written EXCEPT ![d] = Gone]
           /\ lost' = lost \cup {[dir |-> d, by |-> s, age |-> now - made[t],
                               books |-> At(s, "last-sweep") /\ t \in sweep[s].books] :
                              t \in {t \in {Owner(d)} : stage[t] \in InUse}}
           /\ UNCHANGED faults
  <2>1. sweep' \in [Setups -> SweepRecords]
    BY <1>1, <1>a DEF SweepRecords
  <2>2. written' \in [Directories -> 0..Gone]
    BY <1>1, <1>a, Machine
  <2>3. Owner(d) \in Setups
    BY Machine
  <2>4. made[Owner(d)] <= now
    BY <2>3 DEF MadeBefore
  <2>5. now - made[Owner(d)] \in 0..Horizon
    BY <1>1, <2>3, <2>4, Machine
  <2>6. \A b \in BOOLEAN : [dir |-> d, by |-> s, age |-> now - made[Owner(d)], books |-> b] \in Losses
    BY <2>5 DEF Losses
  <2>7. (At(s, "last-sweep") /\ Owner(d) \in sweep[s].books) \in BOOLEAN
    OBVIOUS
  <2>8. lost' \subseteq Losses
    BY <1>1, <1>a, <2>6, <2>7
  <2> QED BY <1>a, <2>1, <2>2, <2>8 DEF sweepHostLeftovers, DirectoriesTypes
<1>b. CASE /\ Fault
           /\ sweep' = [sweep EXCEPT ![s].left = LeftAfterFailure(d, @), ![s].failed = @ \cup {d}]
           /\ UNCHANGED <<written, lost>>
  <2>1. /\ LeftAfterFailure(d, sweep[s].left) \in SUBSET Directories
        /\ sweep[s].failed \cup {d} \in SUBSET Directories
    BY <1>1 DEF LeftAfterFailure, SweepRecords
  <2>2. PICK l \in SUBSET Directories, f \in SUBSET Directories :
          sweep' = [sweep EXCEPT ![s].left = l, ![s].failed = f]
    BY <1>b, <2>1
  <2>3. sweep' \in [Setups -> SweepRecords]
    BY <1>1, <2>2 DEF SweepRecords
  <2>4. faults' \in 0..FaultLimit
    BY <1>b, FaultKeepsTypes
  <2> QED BY <1>b, <2>3, <2>4 DEF sweepHostLeftovers, DirectoriesTypes
<1> QED BY <1>a, <1>b DEF sweepHostLeftovers

LEMMA RemovesKeepsTypes ==
  ASSUME DirectoriesTypes, NEW d \in Directories, Removes(d)
  PROVE  written' \in [Directories -> 0..Gone] /\ faults' \in 0..FaultLimit
<1>1. Gone \in 0..Gone
  BY Machine
<1> QED BY <1>1, FaultKeepsTypes DEF Removes, DirectoriesTypes

LEMMA WantedIsArtifact == \A s \in Setups : Wanted(s) \in Artifacts
<1> QED BY DEF Wanted, Artifacts

LEMMA DirectoriesStepTypes ==
  ASSUME DirectoriesTypes, MadeBefore, DirectoriesStep
  PROVE  DirectoriesTypes'
<1>1. ASSUME NEW s \in Setups, SetupStep(s) PROVE DirectoriesTypes'
  <2>1. CASE BeginSetup(s)
    <3>1. stage' \in [Setups -> Places]
      BY <2>1, PlacesAre, GoingKeepsTypes DEF BeginSetup
    <3> QED BY <2>1, <3>1 DEF BeginSetup, DirectoriesTypes
  <2>2. CASE BeginSweep(s)
    BY <2>2, BeginSweepTypes
  <2>3. CASE NextRoot(s)
    BY <2>3, NextRootTypes
  <2>4. CASE Swept(s)
    BY <2>4, SweptTypes
  <2>5. CASE LookUp(s)
    <3>1. stage' \in [Setups -> Places]
      BY <2>5, PlacesAre, GoingKeepsTypes DEF LookUp, DirectoriesTypes
    <3>2. got' \in [Setups -> SUBSET Artifacts]
      BY <2>5, WantedIsArtifact DEF LookUp, DirectoriesTypes
    <3>3. cache' \in [Artifacts -> {"none", "begun", "part", "whole"}]
      BY <2>5, WantedIsArtifact DEF LookUp, DirectoriesTypes
    <3> QED BY <2>5, <3>1, <3>2, <3>3 DEF LookUp, DirectoriesTypes
  <2>6. CASE DownloadEnds(s)
    <3>1. stage' \in [Setups -> Places]
      BY <2>6, PlacesAre, GoingKeepsTypes DEF DownloadEnds
    <3>2. faults' \in 0..FaultLimit
      BY <2>6, FaultKeepsTypes DEF DownloadEnds, DirectoriesTypes
    <3> QED BY <2>6, <3>1, <3>2 DEF DownloadEnds, DirectoriesTypes
  <2>7. CASE UnpackAdvances(s)
    <3>1. cache' \in [Artifacts -> {"none", "begun", "part", "whole"}]
      BY <2>7, WantedIsArtifact DEF UnpackAdvances, DirectoriesTypes
    <3> QED BY <2>7, <3>1 DEF UnpackAdvances, DirectoriesTypes
  <2>8. CASE UnpackEnds(s)
    <3>1. stage' \in [Setups -> Places]
      BY <2>8, PlacesAre, GoingKeepsTypes DEF UnpackEnds
    <3>2. faults' \in 0..FaultLimit
      BY <2>8, FaultKeepsTypes DEF UnpackEnds, DirectoriesTypes
    <3>3. got' \in [Setups -> SUBSET Artifacts] /\ cut' \subseteq Artifacts
      BY <2>8, WantedIsArtifact DEF UnpackEnds, DirectoriesTypes
    <3>4. cache' \in [Artifacts -> {"none", "begun", "part", "whole"}]
      BY <2>8, WantedIsArtifact DEF UnpackEnds, DirectoriesTypes
    <3> QED BY <2>8, <3>1, <3>2, <3>3, <3>4 DEF UnpackEnds, DirectoriesTypes
  <2>9. CASE MakeDirectories(s)
    <3>1. stage' \in [Setups -> Places]
      BY <2>9, PlacesAre, GoingKeepsTypes DEF MakeDirectories
    <3>2. now \in 0..Gone
      BY Machine DEF DirectoriesTypes
    <3>3. written' \in [Directories -> 0..Gone] /\ made' \in [Setups -> 0..Horizon]
      BY <2>9, <3>2 DEF MakeDirectories, DirectoriesTypes
    <3> QED BY <2>9, <3>1, <3>3 DEF MakeDirectories, DirectoriesTypes
  <2>10. CASE RegisterSetup(s)
    <3>1. stage' \in [Setups -> Places]
      BY <2>10, PlacesAre, GoingKeepsTypes DEF RegisterSetup
    <3>2. now \in 0..Gone
      BY Machine DEF DirectoriesTypes
    <3>3. written' \in [Directories -> 0..Gone]
      BY <2>10, <3>2, Machine DEF RegisterSetup, DirectoriesTypes
    <3>4. faults' \in 0..FaultLimit
      BY <2>10, FaultKeepsTypes DEF RegisterSetup, DirectoriesTypes
    <3>5. active' \subseteq Setups \ Sessions
      BY <2>10 DEF RegisterSetup, DirectoriesTypes
    <3> QED BY <2>10, <3>1, <3>3, <3>4, <3>5 DEF RegisterSetup, DirectoriesTypes
  <2>11. CASE BeginTeardown(s)
    <3>1. stage' \in [Setups -> Places]
      BY <2>11, PlacesAre, GoingKeepsTypes DEF BeginTeardown
    <3> QED BY <2>11, <3>1 DEF BeginTeardown, DirectoriesTypes
  <2>12. CASE DisposeVault(s)
    <3>1. stage' \in [Setups -> Places]
      BY <2>12, PlacesAre, GoingKeepsTypes DEF DisposeVault
    <3>2. written' \in [Directories -> 0..Gone] /\ faults' \in 0..FaultLimit
      BY <2>12, RemovesKeepsTypes, Machine DEF DisposeVault
    <3> QED BY <2>12, <3>1, <3>2 DEF DisposeVault, DirectoriesTypes
  <2>13. CASE DisposeTransport(s)
    <3>1. stage' \in [Setups -> Places]
      BY <2>13, PlacesAre, GoingKeepsTypes DEF DisposeTransport
    <3>2. written' \in [Directories -> 0..Gone] /\ faults' \in 0..FaultLimit
      BY <2>13, RemovesKeepsTypes, Machine DEF DisposeTransport
    <3>3. active' \subseteq Setups \ Sessions
      BY <2>13 DEF DisposeTransport, DirectoriesTypes
    <3> QED BY <2>13, <3>1, <3>2, <3>3 DEF DisposeTransport, DirectoriesTypes
  <2> QED BY <1>1, <2>1, <2>2, <2>3, <2>4, <2>5, <2>6, <2>7, <2>8, <2>9, <2>10, <2>11, <2>12, <2>13 DEF
             SetupStep
<1>2. ASSUME NEW p, KillProcess(p) PROVE DirectoriesTypes'
  <2>1. stage' \in [Setups -> Places]
    BY <1>2, PlacesAre DEF KillProcess, DirectoriesTypes
  <2>2. sweep' \in [Setups -> SweepRecords]
    BY <1>2, NoSweepIsSweep DEF KillProcess, DirectoriesTypes
  <2>3. faults' \in 0..FaultLimit
    BY <1>2, FaultKeepsTypes DEF KillProcess
  <2>4. active' \subseteq Setups \ Sessions /\ cut' \subseteq Artifacts
    BY <1>2 DEF KillProcess, DirectoriesTypes
  <2> QED BY <1>2, <2>1, <2>2, <2>3, <2>4 DEF KillProcess, DirectoriesTypes
<1>3. ASSUME NEW d \in Directories, Writes(d) PROVE DirectoriesTypes'
  <2>1. now \in 0..Gone
    BY Machine DEF DirectoriesTypes
  <2> QED BY <1>3, <2>1 DEF Writes, DirectoriesTypes
<1>4. ASSUME NEW d \in Directories, NEW s \in Setups, sweepHostLeftovers(d, s) PROVE DirectoriesTypes'
  BY <1>4, sweepTypes
<1>5. CASE Tick
  <2>1. now' \in 0..Horizon
    BY <1>5, Machine DEF Tick, DirectoriesTypes
  <2> QED BY <1>5, <2>1 DEF Tick, DirectoriesTypes
<1> QED BY <1>1, <1>2, <1>3, <1>4, <1>5 DEF DirectoriesStep

-----------------------------------------------------------------------------
(* The sweeps.                                                             *)

\* A setup in use made its directories before anything else was made in them.
MadeFirst ==
  /\ MadeBefore
  /\ \A d \in Directories : stage[Owner(d)] \in InUse => made[Owner(d)] <= written[d]

\* What was old already when the sweep of s began.
Overdue(d, s) == written[d] < sweep[s].from /\ written[d] + MaxAge[s] <= sweep[s].from

IsExcluded(d, s) == Root(d) = "vault" /\ Owner(d) \in sweep[s].excluded

\* No time passes during a sweep; it excludes what its process has on the books.
SweepsNow ==
  \A s \in Setups :
    /\ sweep[s].root = 0 => sweep[s] = NoSweep
    /\ sweep[s].root # 0 => Sweeping(s) /\ sweep[s].from = now
    /\ sweep[s].root = 3 => sweep[s].left = {}
    /\ sweep[s].excluded \subseteq sweep[s].books
    /\ At(s, "last-sweep") =>
         \A t \in sweep[s].books : ProcessOf[t] = ProcessOf[s] => t \in sweep[s].excluded
    /\ \A d \in sweep[s].left : ~IsExcluded(d, s)

\* What is old is gone, or the sweep is still to look at it, or passes it by.
OldAreFound ==
  \A s \in Setups : sweep[s].root # 0 => \A d \in Directories : Overdue(d, s) =>
    \/ d \in sweep[s].failed \/ IsExcluded(d, s)
    \/ d \in sweep[s].left \/ (sweep[s].root = 1 /\ Root(d) = "userdata")

SweepInv == MadeFirst /\ SweepsNow /\ OldAreFound /\ YoungSpared /\ BooksSpared

\* What every step does that is none of a sweep, of a kill or of the clock.
LeavesSweeps ==
  /\ sweep' = sweep /\ now' = now /\ lost' = lost
  /\ \A d \in Directories : written'[d] \in {written[d], now, Gone}
  /\ \A t \in Setups : Sweeping(t) => stage'[t] = stage[t]

NoSweeping(s) == ~(BeginSweep(s) \/ NextRoot(s) \/ Swept(s))

LEMMA MostLeaveSweeps ==
  ASSUME DirectoriesTypes, MadeFirst,
         \/ \E s \in Setups : SetupStep(s) /\ NoSweeping(s)
         \/ \E d \in Directories : Writes(d)
  PROVE  LeavesSweeps /\ MadeFirst'
<1> USE DEF LeavesSweeps, Sweeping, At, SetupGoto
<1>0. /\ stage \in [Setups -> Places] /\ written \in [Directories -> 0..Gone]
      /\ made \in [Setups -> 0..Horizon] /\ now \in 0..Horizon
  BY DEF DirectoriesTypes
<1>k. ASSUME made' = made, now' = now,
             \A d \in Directories : written'[d] \in {written[d], now, Gone},
             \A t \in Setups : stage'[t] \in InUse => stage[t] \in InUse
      PROVE  MadeFirst'
  <2>1. MadeBefore'
    BY <1>k DEF MadeFirst, MadeBefore
  <2>2. ASSUME NEW d \in Directories, stage'[Owner(d)] \in InUse PROVE made'[Owner(d)] <= written'[d]
    <3>1. Owner(d) \in Setups /\ made[Owner(d)] \in 0..Horizon
      BY <1>0, Machine
    <3>2. made[Owner(d)] <= written[d] /\ made[Owner(d)] <= now /\ made[Owner(d)] <= Gone
      BY <1>k, <2>2, <3>1, Machine DEF MadeFirst, MadeBefore
    <3> QED BY <1>k, <3>2
  <2> QED BY <2>1, <2>2 DEF MadeFirst
<1>1. ASSUME NEW s \in Setups, SetupStep(s), NoSweeping(s) PROVE LeavesSweeps /\ MadeFirst'
  <2>1. CASE BeginSetup(s)
    <3>1. LeavesSweeps /\ made' = made /\ \A t \in Setups : stage'[t] \in InUse => stage[t] \in InUse
      BY <2>1, <1>0 DEF BeginSetup, InUse
    <3> QED BY <3>1, <1>k
  <2>2. CASE LookUp(s)
    <3>1. LeavesSweeps /\ made' = made /\ \A t \in Setups : stage'[t] \in InUse => stage[t] \in InUse
      BY <2>2, <1>0 DEF LookUp, InUse
    <3> QED BY <3>1, <1>k
  <2>3. CASE DownloadEnds(s)
    <3>1. LeavesSweeps /\ made' = made /\ \A t \in Setups : stage'[t] \in InUse => stage[t] \in InUse
      BY <2>3, <1>0 DEF DownloadEnds, InUse
    <3> QED BY <3>1, <1>k
  <2>4. CASE UnpackAdvances(s)
    <3>1. LeavesSweeps /\ made' = made /\ stage' = stage
      BY <2>4, <1>0 DEF UnpackAdvances
    <3> QED BY <3>1, <1>k
  <2>5. CASE UnpackEnds(s)
    <3>1. LeavesSweeps /\ made' = made /\ \A t \in Setups : stage'[t] \in InUse => stage[t] \in InUse
      BY <2>5, <1>0 DEF UnpackEnds, InUse
    <3> QED BY <3>1, <1>k
  <2>6. CASE MakeDirectories(s)
    <3>1. LeavesSweeps
      BY <2>6, <1>0 DEF MakeDirectories
    <3>2. MadeBefore'
      BY <2>6, <1>0 DEF MakeDirectories, MadeFirst, MadeBefore
    <3>3. ASSUME NEW d \in Directories, stage'[Owner(d)] \in InUse PROVE made'[Owner(d)] <= written'[d]
      <4>1. CASE Owner(d) = s
        BY <2>6, <1>0, <4>1 DEF MakeDirectories
      <4>2. CASE Owner(d) # s
        BY <2>6, <1>0, <3>3, <4>2, Machine DEF MakeDirectories, MadeFirst
      <4> QED BY <4>1, <4>2
    <3> QED BY <3>1, <3>2, <3>3 DEF MadeFirst
  <2>7. CASE RegisterSetup(s)
    <3>1. LeavesSweeps /\ made' = made /\ \A t \in Setups : stage'[t] \in InUse => stage[t] \in InUse
      BY <2>7, <1>0 DEF RegisterSetup, InUse
    <3> QED BY <3>1, <1>k
  <2>8. CASE BeginTeardown(s)
    <3>1. LeavesSweeps /\ made' = made /\ \A t \in Setups : stage'[t] \in InUse => stage[t] \in InUse
      BY <2>8, <1>0 DEF BeginTeardown, InUse
    <3> QED BY <3>1, <1>k
  <2>9. CASE DisposeVault(s)
    <3>1. LeavesSweeps /\ made' = made /\ \A t \in Setups : stage'[t] \in InUse => stage[t] \in InUse
      BY <2>9, <1>0 DEF DisposeVault, Removes, InUse
    <3> QED BY <3>1, <1>k
  <2>10. CASE DisposeTransport(s)
    <3>1. LeavesSweeps /\ made' = made /\ \A t \in Setups : stage'[t] \in InUse => stage[t] \in InUse
      BY <2>10, <1>0 DEF DisposeTransport, Removes, InUse
    <3> QED BY <3>1, <1>k
  <2> QED BY <1>1, <2>1, <2>2, <2>3, <2>4, <2>5, <2>6, <2>7, <2>8, <2>9, <2>10 DEF SetupStep, NoSweeping
<1>2. ASSUME NEW d \in Directories, Writes(d) PROVE LeavesSweeps /\ MadeFirst'
  <2>1. LeavesSweeps /\ made' = made /\ stage' = stage
    BY <1>2, <1>0 DEF Writes
  <2> QED BY <2>1, <1>k
<1> QED BY <1>1, <1>2

LEMMA LeavesSweepInv ==
  ASSUME DirectoriesTypes, SweepInv, LeavesSweeps, MadeFirst'
  PROVE  SweepInv'
<1>1. SweepsNow'
  <2> SUFFICES ASSUME NEW s \in Setups
               PROVE  /\ sweep'[s].root = 0 => sweep'[s] = NoSweep
                      /\ sweep'[s].root # 0 => Sweeping(s)' /\ sweep'[s].from = now'
                      /\ sweep'[s].root = 3 => sweep'[s].left = {}
                      /\ sweep'[s].excluded \subseteq sweep'[s].books
                      /\ At(s, "last-sweep")' =>
                           \A t \in sweep'[s].books : ProcessOf[t] = ProcessOf[s] => t \in sweep'[s].excluded
                      /\ \A d \in sweep'[s].left : ~IsExcluded(d, s)'
    BY DEF SweepsNow
  <2>1. Sweeping(s) \/ sweep[s] = NoSweep
    BY DEF SweepInv, SweepsNow, LeavesSweeps
  <2>2. CASE Sweeping(s)
    BY <2>2 DEF SweepInv, SweepsNow, LeavesSweeps, Sweeping, At, IsExcluded
  <2>3. CASE sweep[s] = NoSweep
    BY <2>3 DEF SweepInv, SweepsNow, LeavesSweeps, IsExcluded, NoSweep
  <2> QED BY <2>1, <2>2, <2>3
<1>2. OldAreFound'
  <2> SUFFICES ASSUME NEW s \in Setups, sweep[s].root # 0, NEW d \in Directories, Overdue(d, s)'
               PROVE  \/ d \in sweep[s].failed \/ IsExcluded(d, s)
                      \/ d \in sweep[s].left \/ (sweep[s].root = 1 /\ Root(d) = "userdata")
    BY DEF OldAreFound, LeavesSweeps, IsExcluded
  <2>1. sweep[s].from = now /\ now \in 0..Horizon
    BY DEF SweepInv, SweepsNow, DirectoriesTypes
  <2>2. written'[d] = written[d]
    BY <2>1, Machine DEF LeavesSweeps, Overdue
  <2>3. Overdue(d, s)
    BY <2>2 DEF Overdue, LeavesSweeps
  <2> QED BY <2>3 DEF SweepInv, OldAreFound
<1>3. YoungSpared' /\ BooksSpared'
  BY DEF SweepInv, LeavesSweeps, YoungSpared, BooksSpared
<1> QED BY <1>1, <1>2, <1>3 DEF SweepInv

LEMMA SweepingKeepsSweepInv ==
  ASSUME DirectoriesTypes, SweepInv, NEW s \in Setups, BeginSweep(s) \/ NextRoot(s) \/ Swept(s)
  PROVE  SweepInv'
<1>0. /\ stage \in [Setups -> Places] /\ written \in [Directories -> 0..Gone] /\ now \in 0..Horizon
      /\ sweep \in [Setups -> SweepRecords] /\ active \subseteq Setups
  BY DEF DirectoriesTypes
<1>1. /\ written' = written /\ now' = now /\ lost' = lost /\ made' = made
      /\ \A t \in Setups \ {s} : sweep'[t] = sweep[t] /\ stage'[t] = stage[t]
      /\ \A t \in Setups : stage'[t] \in InUse => stage[t] \in InUse
  BY <1>0 DEF BeginSweep, NextRoot, Swept, SetupGoto, InUse
<1>2. MadeFirst' /\ YoungSpared' /\ BooksSpared'
  BY <1>1, Machine DEF SweepInv, MadeFirst, MadeBefore, YoungSpared, BooksSpared
<1>3. ASSUME NEW t \in Setups \ {s}
      PROVE  /\ sweep'[t].root = 0 => sweep'[t] = NoSweep
             /\ sweep'[t].root # 0 => Sweeping(t)' /\ sweep'[t].from = now'
             /\ sweep'[t].root = 3 => sweep'[t].left = {}
             /\ sweep'[t].excluded \subseteq sweep'[t].books
             /\ At(t, "last-sweep")' =>
                  \A u \in sweep'[t].books : ProcessOf[u] = ProcessOf[t] => u \in sweep'[t].excluded
             /\ \A d \in sweep'[t].left : ~IsExcluded(d, t)'
             /\ sweep'[t].root # 0 => \A d \in Directories : Overdue(d, t)' =>
                  \/ d \in sweep'[t].failed \/ IsExcluded(d, t)'
                  \/ d \in sweep'[t].left \/ (sweep'[t].root = 1 /\ Root(d) = "userdata")
  BY <1>1, <1>3 DEF SweepInv, SweepsNow, OldAreFound, Sweeping, At, IsExcluded, Overdue
<1>4. /\ sweep'[s].root = 0 => sweep'[s] = NoSweep
      /\ sweep'[s].root # 0 => Sweeping(s)' /\ sweep'[s].from = now'
      /\ sweep'[s].root = 3 => sweep'[s].left = {}
      /\ sweep'[s].excluded \subseteq sweep'[s].books
      /\ At(s, "last-sweep")' =>
           \A u \in sweep'[s].books : ProcessOf[u] = ProcessOf[s] => u \in sweep'[s].excluded
      /\ \A d \in sweep'[s].left : ~IsExcluded(d, s)'
      /\ sweep'[s].root # 0 => \A d \in Directories : Overdue(d, s)' =>
           \/ d \in sweep'[s].failed \/ IsExcluded(d, s)'
           \/ d \in sweep'[s].left \/ (sweep'[s].root = 1 /\ Root(d) = "userdata")
  <2>1. CASE BeginSweep(s)
    <3>1. sweep'[s] = [root |-> 1, left |-> Listing(1, excludedNames(s)), from |-> now,
                       failed |-> {}, excluded |-> excludedNames(s), books |-> active]
      BY <2>1, <1>0 DEF BeginSweep
    <3>2. Sweeping(s)' /\ (At(s, "last-sweep")' <=> At(s, "last-sweep"))
      BY <2>1 DEF BeginSweep, Sweeping, At
    <3>3. excludedNames(s) \subseteq active
      BY DEF excludedNames
    <3>4. At(s, "last-sweep") => \A u \in active : ProcessOf[u] = ProcessOf[s] => u \in excludedNames(s)
      BY DEF excludedNames
    <3>5. \A d \in Listing(1, excludedNames(s)) : ~IsExcluded(d, s)'
      BY <3>1 DEF Listing, IsExcluded
    <3>6. ASSUME NEW d \in Directories, Overdue(d, s)'
          PROVE  IsExcluded(d, s)' \/ d \in sweep'[s].left \/ Root(d) = "userdata"
      <4>1. written[d] # Gone
        BY <1>0, <1>1, <3>1, <3>6, Machine DEF Overdue
      <4> QED BY <3>1, <4>1, Machine DEF Listing, IsExcluded
    <3> QED BY <1>1, <3>1, <3>2, <3>3, <3>4, <3>5, <3>6
  <2>2. CASE NextRoot(s)
    <3>1. /\ sweep[s].root \in 1..2 /\ stage' = stage
          /\ \A d \in sweep[s].left : ~checkIsRemovableDirectory(d, s)
      BY <2>2 DEF NextRoot
    <3>2. /\ sweep'[s].root = sweep[s].root + 1
          /\ sweep'[s].left = IF sweep[s].root = 2 THEN {} ELSE Listing(2, sweep[s].excluded)
          /\ sweep'[s].from = sweep[s].from /\ sweep'[s].failed = sweep[s].failed
          /\ sweep'[s].excluded = sweep[s].excluded /\ sweep'[s].books = sweep[s].books
      BY <2>2, <1>0 DEF NextRoot, SweepRecords
    <3>3. Sweeping(s) /\ sweep[s].from = now
      BY <3>1 DEF SweepInv, SweepsNow
    <3>4. \A d \in sweep'[s].left : ~IsExcluded(d, s)'
      BY <3>2 DEF Listing, IsExcluded
    <3>5. ASSUME NEW d \in Directories, Overdue(d, s)'
          PROVE  d \in sweep'[s].failed \/ IsExcluded(d, s)' \/ d \in sweep'[s].left
      <4>1. Overdue(d, s)
        BY <1>1, <3>2, <3>5 DEF Overdue
      <4>2. written[d] # Gone
        BY <1>0, <3>3, <4>1, Machine DEF Overdue
      <4>3. d \notin sweep[s].left
        BY <3>1, <4>1, <4>2 DEF checkIsRemovableDirectory, checkIsLeftoverStale, Overdue
      <4>4. d \in sweep[s].failed \/ IsExcluded(d, s) \/ (sweep[s].root = 1 /\ Root(d) = "userdata")
        BY <3>1, <4>1, <4>3 DEF SweepInv, OldAreFound
      <4>5. CASE sweep[s].root = 1 /\ Root(d) = "userdata"
        BY <3>2, <4>2, <4>5, Machine DEF Listing
      <4>6. CASE d \in sweep[s].failed \/ IsExcluded(d, s)
        BY <3>2, <4>6 DEF IsExcluded
      <4> QED BY <4>4, <4>5, <4>6
    <3>6. Sweeping(s)' /\ (At(s, "last-sweep")' <=> At(s, "last-sweep"))
      BY <3>1, <3>3 DEF Sweeping, At
    <3>7. /\ sweep'[s].excluded \subseteq sweep'[s].books
          /\ At(s, "last-sweep")' =>
               \A u \in sweep'[s].books : ProcessOf[u] = ProcessOf[s] => u \in sweep'[s].excluded
      BY <3>2, <3>6 DEF SweepInv, SweepsNow
    <3>8. sweep'[s].root # 0 /\ (sweep'[s].root = 3 => sweep'[s].left = {})
      BY <3>1, <3>2
    <3> QED BY <1>1, <3>2, <3>3, <3>4, <3>5, <3>6, <3>7, <3>8
  <2>3. CASE Swept(s)
    <3>1. sweep'[s] = NoSweep
      BY <2>3, <1>0 DEF Swept
    <3> QED BY <3>1 DEF NoSweep
  <2> QED BY <2>1, <2>2, <2>3
<1>5. SweepsNow'
  BY <1>3, <1>4 DEF SweepsNow
<1>6. OldAreFound'
  BY <1>3, <1>4 DEF OldAreFound
<1> QED BY <1>2, <1>5, <1>6 DEF SweepInv

LEMMA RemovalKeepsSweepInv ==
  ASSUME DirectoriesTypes, SweepInv, NEW s \in Setups, NEW d \in Directories, sweepHostLeftovers(d, s)
  PROVE  SweepInv'
<1>0. /\ written \in [Directories -> 0..Gone] /\ now \in 0..Horizon /\ lost \subseteq Losses
      /\ sweep \in [Setups -> SweepRecords] /\ made \in [Setups -> 0..Horizon]
  BY DEF DirectoriesTypes
<1>1. d \in sweep[s].left /\ checkIsRemovableDirectory(d, s) /\ stage' = stage /\ made' = made /\ now' = now
  BY DEF sweepHostLeftovers
<1>2. sweep[s].root # 0 /\ sweep[s].root # 3 /\ Sweeping(s) /\ sweep[s].from = now /\ ~IsExcluded(d, s)
  BY <1>1 DEF SweepInv, SweepsNow, NoSweep
<1>3. /\ \A t \in Setups \ {s} : sweep'[t] = sweep[t]
      /\ sweep'[s].root = sweep[s].root /\ sweep'[s].from = sweep[s].from
      /\ sweep'[s].excluded = sweep[s].excluded /\ sweep'[s].books = sweep[s].books
      /\ sweep'[s].left = sweep[s].left \ {d}
  BY <1>0 DEF sweepHostLeftovers, SweepRecords, LeftAfterFailure
<1>4. /\ sweep[s].failed \subseteq sweep'[s].failed
      /\ \A e \in Directories : written'[e] \in {written[e], Gone}
      /\ written'[d] = Gone \/ d \in sweep'[s].failed
  BY <1>0 DEF sweepHostLeftovers, SweepRecords
<1>5. MadeFirst'
  <2>1. MadeBefore'
    BY <1>1 DEF SweepInv, MadeFirst, MadeBefore
  <2>2. ASSUME NEW e \in Directories, stage'[Owner(e)] \in InUse PROVE made'[Owner(e)] <= written'[e]
    <3>1. made[Owner(e)] <= written[e] /\ made[Owner(e)] <= Gone
      BY <1>0, <1>1, <2>2, Machine DEF SweepInv, MadeFirst
    <3> QED BY <1>1, <1>4, <3>1
  <2> QED BY <2>1, <2>2 DEF MadeFirst
<1>6. SweepsNow'
  <2> SUFFICES ASSUME NEW t \in Setups
               PROVE  /\ sweep'[t].root = 0 => sweep'[t] = NoSweep
                      /\ sweep'[t].root # 0 => Sweeping(t)' /\ sweep'[t].from = now'
                      /\ sweep'[t].root = 3 => sweep'[t].left = {}
                      /\ sweep'[t].excluded \subseteq sweep'[t].books
                      /\ At(t, "last-sweep")' =>
                           \A u \in sweep'[t].books : ProcessOf[u] = ProcessOf[t] => u \in sweep'[t].excluded
                      /\ \A e \in sweep'[t].left : ~IsExcluded(e, t)'
    BY DEF SweepsNow
  <2>1. CASE t = s
    BY <2>1, <1>1, <1>2, <1>3 DEF SweepInv, SweepsNow, Sweeping, At, IsExcluded
  <2>2. CASE t # s
    BY <2>2, <1>1, <1>3 DEF SweepInv, SweepsNow, Sweeping, At, IsExcluded
  <2> QED BY <2>1, <2>2
<1>7. OldAreFound'
  <2> SUFFICES ASSUME NEW t \in Setups, sweep'[t].root # 0, NEW e \in Directories, Overdue(e, t)'
               PROVE  \/ e \in sweep'[t].failed \/ IsExcluded(e, t)'
                      \/ e \in sweep'[t].left \/ (sweep'[t].root = 1 /\ Root(e) = "userdata")
    BY DEF OldAreFound
  <2>1. /\ sweep'[t].from = sweep[t].from
        /\ sweep'[t].root = sweep[t].root
        /\ sweep'[t].excluded = sweep[t].excluded
    BY <1>3
  <2>2. sweep[t].from = now
    BY <2>1 DEF SweepInv, SweepsNow
  <2>3. written'[e] = written[e] /\ written'[e] # Gone
    BY <1>0, <1>4, <2>1, <2>2, Machine DEF Overdue
  <2>4. Overdue(e, t)
    BY <2>1, <2>3 DEF Overdue
  <2>5. \/ e \in sweep[t].failed \/ IsExcluded(e, t)
        \/ e \in sweep[t].left \/ (sweep[t].root = 1 /\ Root(e) = "userdata")
    BY <2>1, <2>4 DEF SweepInv, OldAreFound
  <2>6. CASE t = s
    BY <2>1, <2>3, <2>5, <2>6, <1>3, <1>4 DEF IsExcluded
  <2>7. CASE t # s
    BY <2>1, <2>5, <2>7, <1>3 DEF IsExcluded
  <2> QED BY <2>6, <2>7
<1>8. ASSUME NEW x \in lost' \ lost
      PROVE  /\ x.age >= MaxAge[x.by]
             /\ x.books /\ Root(x.dir) = "vault" => ProcessOf[Owner(x.dir)] # ProcessOf[x.by]
  <2> DEFINE o == Owner(d)
  <2>1. /\ stage[o] \in InUse
        /\ x = [dir |-> d, by |-> s, age |-> now - made[o],
                books |-> At(s, "last-sweep") /\ o \in sweep[s].books]
    BY <1>8 DEF sweepHostLeftovers
  <2>2. o \in Setups /\ made[o] \in 0..Horizon /\ made[o] <= written[d] /\ made[o] <= now
    BY <1>0, <2>1, Machine DEF SweepInv, MadeFirst, MadeBefore
  <2>3. MaxAge[s] = 0 \/ written[d] + MaxAge[s] <= now
    BY <1>1, <1>2 DEF checkIsRemovableDirectory, checkIsLeftoverStale
  <2>4. now - made[o] >= MaxAge[s]
    BY <1>0, <2>2, <2>3, Machine
  <2>5. x.age >= MaxAge[x.by]
    BY <2>1, <2>4
  <2>6. ASSUME x.books, Root(x.dir) = "vault", ProcessOf[Owner(x.dir)] = ProcessOf[x.by] PROVE FALSE
    <3>1. At(s, "last-sweep") /\ o \in sweep[s].books /\ Root(d) = "vault" /\ ProcessOf[o] = ProcessOf[s]
      BY <2>1, <2>6
    <3>2. o \in sweep[s].excluded
      BY <3>1 DEF SweepInv, SweepsNow
    <3> QED BY <1>2, <3>1, <3>2 DEF IsExcluded
  <2> QED BY <2>5, <2>6
<1>9. YoungSpared' /\ BooksSpared'
  BY <1>8 DEF SweepInv, YoungSpared, BooksSpared
<1> QED BY <1>5, <1>6, <1>7, <1>9 DEF SweepInv

LEMMA KillKeepsSweepInv ==
  ASSUME DirectoriesTypes, SweepInv, NEW p, KillProcess(p)
  PROVE  SweepInv'
<1>0. stage \in [Setups -> Places] /\ sweep \in [Setups -> SweepRecords]
  BY DEF DirectoriesTypes
<1>1. /\ written' = written /\ now' = now /\ lost' = lost /\ made' = made
      /\ \A t \in Setups : \/ stage'[t] = stage[t] /\ sweep'[t] = sweep[t]
                           \/ stage'[t] = "dead" /\ sweep'[t] = NoSweep
  BY <1>0 DEF KillProcess
<1>2. MadeFirst' /\ YoungSpared' /\ BooksSpared'
  BY <1>1, Machine DEF SweepInv, MadeFirst, MadeBefore, YoungSpared, BooksSpared, InUse
<1>3. SweepsNow'
  BY <1>1 DEF SweepInv, SweepsNow, Sweeping, At, IsExcluded, NoSweep
<1>4. OldAreFound'
  BY <1>1 DEF SweepInv, OldAreFound, Overdue, IsExcluded, NoSweep
<1> QED BY <1>2, <1>3, <1>4 DEF SweepInv

LEMMA TickKeepsSweepInv ==
  ASSUME DirectoriesTypes, SweepInv, Tick
  PROVE  SweepInv'
<1>1. /\ written' = written /\ lost' = lost /\ made' = made /\ stage' = stage /\ sweep' = sweep
      /\ now' = now + 1 /\ \A s \in Setups : ~Sweeping(s)
  BY DEF Tick
<1>2. \A s \in Setups : sweep[s] = NoSweep
  BY <1>1 DEF SweepInv, SweepsNow
<1>3. MadeFirst'
  <2>1. now \in Nat /\ \A s \in Setups : made[s] \in Nat
    BY DEF DirectoriesTypes
  <2> QED BY <1>1, <2>1 DEF SweepInv, MadeFirst, MadeBefore
<1>4. YoungSpared' /\ BooksSpared'
  BY <1>1 DEF SweepInv, YoungSpared, BooksSpared
<1>5. SweepsNow' /\ OldAreFound'
  BY <1>1, <1>2 DEF SweepsNow, OldAreFound, NoSweep
<1> QED BY <1>3, <1>4, <1>5 DEF SweepInv

LEMMA SweepInvStep ==
  ASSUME DirectoriesTypes, SweepInv, DirectoriesStep
  PROVE  SweepInv'
<1>1. ASSUME NEW s \in Setups, SetupStep(s) PROVE SweepInv'
  <2>1. CASE NoSweeping(s)
    BY <1>1, <2>1, MostLeaveSweeps, LeavesSweepInv DEF SweepInv
  <2>2. CASE ~NoSweeping(s)
    BY <2>2, SweepingKeepsSweepInv DEF NoSweeping
  <2> QED BY <2>1, <2>2
<1>2. ASSUME NEW d \in Directories, Writes(d) PROVE SweepInv'
  BY <1>2, MostLeaveSweeps, LeavesSweepInv DEF SweepInv
<1> QED BY <1>1, <1>2, RemovalKeepsSweepInv, KillKeepsSweepInv, TickKeepsSweepInv DEF DirectoriesStep

LEMMA SweepInvGives ==
  ASSUME DirectoriesTypes, SweepInv
  PROVE  MadeBefore /\ YoungSpared /\ BooksSpared /\ OldAreGone
<1> SUFFICES ASSUME NEW s \in Setups, sweep[s].root = 3, NEW d \in Directories, Overdue(d, s)
             PROVE  d \in sweep[s].failed \/ (Root(d) = "vault" /\ Owner(d) \in sweep[s].books)
  BY DEF SweepInv, MadeFirst, OldAreGone, Overdue
<1> QED BY DEF SweepInv, SweepsNow, OldAreFound, IsExcluded

-----------------------------------------------------------------------------
(* The files in the caches.                                                *)

\* Who fetches something has yet to be given it; what is there in part is being unpacked, or its
\* unpacking was broken off.
UnpackedBySome ==
  /\ \A s \in Setups : stage[s] \in {"download", "unpack"} => Missing(s) # {}
  /\ \A a \in Artifacts : cache[a] = "part" => a \in cut \/ Unpacking(a) # {}

FilesInv == UnpackedBySome /\ GotIsWhole

\* Nothing that concerns the files: no setup begins or ends unpacking.
LeavesFiles ==
  /\ got' = got /\ cache' = cache /\ cut' = cut
  /\ \A t \in Setups :
       \/ stage'[t] = stage[t]
       \/ /\ stage[t] \notin {"unpack", "download"} \cup SetupsOver
          /\ stage'[t] \notin {"unpack", "download"}

LEMMA LeavesFilesInv ==
  ASSUME FilesInv, LeavesFiles
  PROVE  FilesInv'
<1>1. \A t \in Setups : Missing(t)' = Missing(t) /\ Wanted(t)' = Wanted(t)
  BY DEF LeavesFiles, Missing, Wanted
<1>2. \A a \in Artifacts : Unpacking(a)' = Unpacking(a)
  BY <1>1 DEF LeavesFiles, Unpacking, At
<1>3. UnpackedBySome'
  BY <1>1, <1>2 DEF LeavesFiles, FilesInv, UnpackedBySome
<1>4. GotIsWhole'
  <2> SUFFICES ASSUME NEW s \in Setups, NEW a \in got[s], stage'[s] \notin SetupsOver
               PROVE  cache[a] = "whole" \/ a \in cut \/ Unpacking(a)' \ {s} # {}
    BY DEF GotIsWhole, LeavesFiles
  <2>1. stage[s] \notin SetupsOver
    BY DEF LeavesFiles
  <2>2. cache[a] = "whole" \/ a \in cut \/ Unpacking(a) \ {s} # {}
    BY <2>1 DEF FilesInv, GotIsWhole
  <2>3. Unpacking(a)' = Unpacking(a)
    BY <1>1 DEF LeavesFiles, Unpacking, At
  <2> QED BY <2>2, <2>3
<1> QED BY <1>3, <1>4 DEF FilesInv

\* What a setup wants it has not got.
LEMMA WantedIsMissing ==
  ASSUME DirectoriesTypes, NEW s \in Setups, Missing(s) # {}
  PROVE  Wanted(s) \in Missing(s) /\ Wanted(s) \in Artifacts /\ Wanted(s) \notin got[s]
<1>1. Needs[s] \subseteq {"shell", "asar"}
  BY Machine DEF Artifacts
<1> QED BY <1>1 DEF Missing, Wanted, Artifacts

LEMMA LookUpKeepsFiles ==
  ASSUME DirectoriesTypes, FilesInv, NEW s \in Setups, LookUp(s)
  PROVE  FilesInv'
<1>0. /\ stage \in [Setups -> Places] /\ got \in [Setups -> SUBSET Artifacts]
      /\ cache \in [Artifacts -> {"none", "begun", "part", "whole"}]
  BY DEF DirectoriesTypes
<1> DEFINE a == Wanted(s)
<1>1. stage[s] = "fetch" /\ a \in Artifacts /\ a \in Missing(s)
  BY WantedIsMissing DEF LookUp, At
<1>2. CASE Exists(a)
  <2>1. /\ cache[a] \in {"part", "whole"} /\ stage' = stage /\ cache' = cache /\ cut' = cut
        /\ got' = [got EXCEPT ![s] = @ \cup {a}]
    BY <1>2 DEF LookUp, Exists
  <2>2. \A t \in Setups \ {s} : Missing(t)' = Missing(t) /\ Wanted(t)' = Wanted(t)
    BY <1>0, <2>1 DEF Missing, Wanted
  <2>3. \A b \in Artifacts : Unpacking(b)' = Unpacking(b)
    BY <1>1, <2>1, <2>2 DEF Unpacking, At
  <2>4. UnpackedBySome'
    BY <1>1, <2>1, <2>2, <2>3 DEF FilesInv, UnpackedBySome
  <2>5. ASSUME NEW t \in Setups, NEW b \in got'[t], stage'[t] \notin SetupsOver
        PROVE  cache'[b] = "whole" \/ b \in cut' \/ Unpacking(b)' \ {t} # {}
    <3>1. b \in Artifacts
      BY <1>0, <1>1, <2>1
    <3>2. CASE b \in got[t]
      BY <2>1, <2>3, <2>5, <3>1, <3>2 DEF FilesInv, GotIsWhole
    <3>3. CASE b \notin got[t]
      <4>1. t = s /\ b = a
        BY <1>0, <2>1, <3>3
      <4>2. s \notin Unpacking(a)
        BY <1>1 DEF Unpacking, At
      <4>3. cache[a] = "whole" \/ a \in cut \/ Unpacking(a) # {}
        BY <1>1, <2>1 DEF FilesInv, UnpackedBySome
      <4> QED BY <2>1, <2>3, <3>1, <4>1, <4>2, <4>3
    <3> QED BY <3>2, <3>3
  <2> QED BY <2>4, <2>5 DEF FilesInv, GotIsWhole
<1>3. CASE ~Exists(a)
  <2>1. /\ stage' = [stage EXCEPT ![s] = "download"] /\ got' = got /\ cut' = cut
        /\ cache[a] \notin {"part", "whole"}
        /\ cache' = IF a = "shell" THEN [cache EXCEPT ![a] = "begun"] ELSE cache
    BY <1>3 DEF LookUp, Exists, SetupGoto
  <2>2. \A t \in Setups : Missing(t)' = Missing(t) /\ Wanted(t)' = Wanted(t)
    BY <2>1 DEF Missing, Wanted
  <2>3. \A b \in Artifacts : Unpacking(b)' = Unpacking(b)
    BY <1>0, <1>1, <2>1, <2>2 DEF Unpacking, At
  <2>4. \A b \in Artifacts : cache'[b] = cache[b] \/ (b = a /\ cache'[b] = "begun")
    BY <1>0, <1>1, <2>1
  <2>5. UnpackedBySome'
    BY <1>0, <1>1, <2>1, <2>2, <2>3, <2>4 DEF FilesInv, UnpackedBySome
  <2>6. ASSUME NEW t \in Setups, NEW b \in got'[t], stage'[t] \notin SetupsOver
        PROVE  cache'[b] = "whole" \/ b \in cut' \/ Unpacking(b)' \ {t} # {}
    <3>1. b \in Artifacts /\ b \in got[t]
      BY <1>0, <2>1
    <3>2. stage[t] \notin SetupsOver
      BY <1>0, <1>1, <2>1, <2>6 DEF SetupsOver
    <3>3. cache[b] = "whole" \/ b \in cut \/ Unpacking(b) \ {t} # {}
      BY <3>1, <3>2 DEF FilesInv, GotIsWhole
    <3> QED BY <2>1, <2>3, <2>4, <3>1, <3>3
  <2> QED BY <2>5, <2>6 DEF FilesInv, GotIsWhole
<1> QED BY <1>2, <1>3

LEMMA DownloadEndsKeepsFiles ==
  ASSUME DirectoriesTypes, FilesInv, NEW s \in Setups, DownloadEnds(s)
  PROVE  FilesInv'
<1>0. stage \in [Setups -> Places] /\ got \in [Setups -> SUBSET Artifacts]
  BY DEF DirectoriesTypes
<1>1. /\ stage[s] = "download" /\ got' = got /\ cache' = cache /\ cut' = cut
      /\ stage' = [stage EXCEPT ![s] = "unpack"] \/ stage' = [stage EXCEPT ![s] = "failed"]
  BY DEF DownloadEnds, At, SetupGoto
<1>2. \A t \in Setups : Missing(t)' = Missing(t) /\ Wanted(t)' = Wanted(t)
  BY <1>1 DEF Missing, Wanted
<1>3. \A b \in Artifacts : Unpacking(b) \subseteq Unpacking(b)'
  BY <1>0, <1>1, <1>2 DEF Unpacking, At
<1>4. UnpackedBySome'
  BY <1>0, <1>1, <1>2, <1>3 DEF FilesInv, UnpackedBySome
<1>5. ASSUME NEW t \in Setups, NEW b \in got'[t], stage'[t] \notin SetupsOver
      PROVE  cache'[b] = "whole" \/ b \in cut' \/ Unpacking(b)' \ {t} # {}
  <2>1. b \in Artifacts /\ b \in got[t] /\ stage[t] \notin SetupsOver
    BY <1>0, <1>1, <1>5 DEF SetupsOver
  <2>2. cache[b] = "whole" \/ b \in cut \/ Unpacking(b) \ {t} # {}
    BY <2>1 DEF FilesInv, GotIsWhole
  <2> QED BY <1>1, <1>3, <2>1, <2>2
<1> QED BY <1>4, <1>5 DEF FilesInv, GotIsWhole

LEMMA UnpackAdvancesKeepsFiles ==
  ASSUME DirectoriesTypes, FilesInv, NEW s \in Setups, UnpackAdvances(s)
  PROVE  FilesInv'
<1>0. cache \in [Artifacts -> {"none", "begun", "part", "whole"}] /\ got \in [Setups -> SUBSET Artifacts]
  BY DEF DirectoriesTypes
<1> DEFINE a == Wanted(s)
<1>1. /\ stage[s] = "unpack" /\ got' = got /\ stage' = stage /\ cut' = cut
      /\ cache' = [cache EXCEPT ![a] = "part"]
  BY DEF UnpackAdvances, At
<1>2. \A t \in Setups : Missing(t)' = Missing(t) /\ Wanted(t)' = Wanted(t)
  BY <1>1 DEF Missing, Wanted
<1>3. \A b \in Artifacts : Unpacking(b)' = Unpacking(b)
  BY <1>1, <1>2 DEF Unpacking, At
<1>4. s \in Unpacking(a) /\ a \in Artifacts /\ a \notin got[s]
  BY <1>1, WantedIsMissing DEF Unpacking, At, FilesInv, UnpackedBySome
<1>5. \A b \in Artifacts : cache'[b] = cache[b] \/ b = a
  BY <1>0, <1>1
<1>6. UnpackedBySome'
  BY <1>1, <1>2, <1>3, <1>4, <1>5 DEF FilesInv, UnpackedBySome
<1>7. ASSUME NEW t \in Setups, NEW b \in got'[t], stage'[t] \notin SetupsOver
      PROVE  cache'[b] = "whole" \/ b \in cut' \/ Unpacking(b)' \ {t} # {}
  <2>1. b \in Artifacts /\ b \in got[t]
    BY <1>0, <1>1
  <2>2. cache[b] = "whole" \/ b \in cut \/ Unpacking(b) \ {t} # {}
    BY <1>1, <1>7, <2>1 DEF FilesInv, GotIsWhole
  <2>3. CASE b = a
    <3>1. t # s
      BY <1>4, <2>1, <2>3
    <3> QED BY <1>3, <1>4, <2>3, <3>1
  <2>4. CASE b # a
    BY <1>1, <1>3, <1>5, <2>1, <2>2, <2>4
  <2> QED BY <2>3, <2>4
<1> QED BY <1>6, <1>7 DEF FilesInv, GotIsWhole

LEMMA UnpackEndsKeepsFiles ==
  ASSUME DirectoriesTypes, FilesInv, NEW s \in Setups, UnpackEnds(s)
  PROVE  FilesInv'
<1>0. /\ cache \in [Artifacts -> {"none", "begun", "part", "whole"}] /\ got \in [Setups -> SUBSET Artifacts]
      /\ stage \in [Setups -> Places]
  BY DEF DirectoriesTypes
<1>a. PICK a \in Artifacts : a = Wanted(s)
  BY WantedIsArtifact
<1>1. stage[s] = "unpack" /\ s \in Unpacking(a) /\ a \in Artifacts /\ a \notin got[s]
  BY <1>a, WantedIsMissing DEF UnpackEnds, Unpacking, At, FilesInv, UnpackedBySome
<1>2. CASE /\ cache' = [cache EXCEPT ![a] = IF Unpacking(a) = {s} THEN "whole" ELSE "part"]
           /\ got' = [got EXCEPT ![s] = @ \cup {a}]
           /\ stage' = [stage EXCEPT ![s] = "fetch"]
           /\ cut' = cut
  <2>1. \A t \in Setups \ {s} : Missing(t)' = Missing(t) /\ Wanted(t)' = Wanted(t) /\ stage'[t] = stage[t]
    BY <1>0, <1>2 DEF Missing, Wanted
  <2>2. stage'[s] = "fetch"
    BY <1>0, <1>2
  <2>3. \A b \in Artifacts : Unpacking(b)' = Unpacking(b) \ {s}
    BY <1>1, <2>1, <2>2 DEF Unpacking, At
  <2>4. \A b \in Artifacts \ {a} : Unpacking(b)' = Unpacking(b) /\ cache'[b] = cache[b]
    <3>1. \A b \in Artifacts \ {a} : s \notin Unpacking(b)
      BY <1>a DEF Unpacking
    <3> QED BY <1>0, <1>2, <2>3, <3>1
  <2>5. cache'[a] = IF Unpacking(a) = {s} THEN "whole" ELSE "part"
    BY <1>0, <1>1, <1>2
  <2>6. cache'[a] = "whole" \/ Unpacking(a)' # {}
    BY <1>1, <2>3, <2>5
  <2>7. UnpackedBySome'
    BY <1>1, <1>2, <2>1, <2>2, <2>4, <2>6 DEF FilesInv, UnpackedBySome
  <2>8. ASSUME NEW t \in Setups, NEW b \in got'[t], stage'[t] \notin SetupsOver
        PROVE  cache'[b] = "whole" \/ b \in cut' \/ Unpacking(b)' \ {t} # {}
    <3>1. CASE b = a
      <4>1. t \notin Unpacking(a)'
        <5>1. CASE t = s
          BY <2>3, <1>1, <5>1
        <5>2. CASE t # s
          <6>1. a \in got[t]
            BY <1>0, <1>2, <2>8, <3>1, <5>2
          <6>2. t \notin Unpacking(a)
            BY <6>1, WantedIsMissing DEF Unpacking, At, FilesInv, UnpackedBySome
          <6> QED BY <1>1, <2>3, <6>2
        <5> QED BY <5>1, <5>2
      <4> QED BY <2>6, <3>1, <4>1
    <3>2. CASE b # a
      <4>1. b \in got[t] /\ b \in Artifacts /\ stage[t] \notin SetupsOver
        BY <1>0, <1>1, <1>2, <2>1, <2>8, <3>2 DEF SetupsOver
      <4>2. cache[b] = "whole" \/ b \in cut \/ Unpacking(b) \ {t} # {}
        BY <4>1 DEF FilesInv, GotIsWhole
      <4> QED BY <1>2, <2>4, <3>2, <4>1, <4>2
    <3> QED BY <3>1, <3>2
  <2> QED BY <2>7, <2>8 DEF FilesInv, GotIsWhole
<1>3. CASE /\ stage' = [stage EXCEPT ![s] = "failed"]
           /\ cut' = cut \cup {a} /\ cache' = cache /\ got' = got
  <2>1. \A t \in Setups : Missing(t)' = Missing(t) /\ Wanted(t)' = Wanted(t)
    BY <1>3 DEF Missing, Wanted
  <2>2. \A b \in Artifacts \ {a} : Unpacking(b)' = Unpacking(b)
    BY <1>0, <1>3, <1>a, <2>1 DEF Unpacking, At
  <2>3. UnpackedBySome'
    BY <1>0, <1>3, <2>1, <2>2 DEF FilesInv, UnpackedBySome
  <2>4. ASSUME NEW t \in Setups, NEW b \in got'[t], stage'[t] \notin SetupsOver
        PROVE  cache'[b] = "whole" \/ b \in cut' \/ Unpacking(b)' \ {t} # {}
    <3>1. b \in got[t] /\ b \in Artifacts /\ stage[t] \notin SetupsOver
      BY <1>0, <1>1, <1>3, <2>4 DEF SetupsOver
    <3>2. cache[b] = "whole" \/ b \in cut \/ Unpacking(b) \ {t} # {}
      BY <3>1 DEF FilesInv, GotIsWhole
    <3> QED BY <1>3, <2>2, <3>1, <3>2
  <2> QED BY <2>3, <2>4 DEF FilesInv, GotIsWhole
<1> QED BY <1>a, <1>2, <1>3 DEF UnpackEnds, SetupGoto

LEMMA KillKeepsFiles ==
  ASSUME DirectoriesTypes, FilesInv, NEW p, KillProcess(p)
  PROVE  FilesInv'
<1>0. got \in [Setups -> SUBSET Artifacts]
  BY DEF DirectoriesTypes
<1> DEFINE ours == {s \in Setups : ProcessOf[s] = p}
<1>1. /\ stage' = [s \in Setups |-> IF s \in ours THEN "dead" ELSE stage[s]]
      /\ cut' = cut \cup {a \in Artifacts : Unpacking(a) \cap ours # {}}
      /\ got' = got /\ cache' = cache
  BY DEF KillProcess
<1>2. \A t \in Setups : Missing(t)' = Missing(t) /\ Wanted(t)' = Wanted(t)
  BY <1>1 DEF Missing, Wanted
<1>3. \A b \in Artifacts : Unpacking(b)' = Unpacking(b) \/ b \in cut'
  <2> SUFFICES ASSUME NEW b \in Artifacts, Unpacking(b) \cap ours = {} PROVE Unpacking(b)' = Unpacking(b)
    BY <1>1
  <2> QED BY <1>1, <1>2 DEF Unpacking, At
<1>4. UnpackedBySome'
  BY <1>1, <1>2, <1>3 DEF FilesInv, UnpackedBySome
<1>5. ASSUME NEW t \in Setups, NEW b \in got'[t], stage'[t] \notin SetupsOver
      PROVE  cache'[b] = "whole" \/ b \in cut' \/ Unpacking(b)' \ {t} # {}
  <2>1. b \in got[t] /\ b \in Artifacts /\ stage[t] \notin SetupsOver
    BY <1>0, <1>1, <1>5 DEF SetupsOver
  <2>2. cache[b] = "whole" \/ b \in cut \/ Unpacking(b) \ {t} # {}
    BY <2>1 DEF FilesInv, GotIsWhole
  <2> QED BY <1>1, <1>3, <2>1, <2>2
<1> QED BY <1>4, <1>5 DEF FilesInv, GotIsWhole

LEMMA FilesInvStep ==
  ASSUME DirectoriesTypes, SweepInv, FilesInv, DirectoriesStep
  PROVE  FilesInv'
<1>0. stage \in [Setups -> Places]
  BY DEF DirectoriesTypes
<1>1. ASSUME NEW s \in Setups, SetupStep(s) PROVE FilesInv'
  <2> USE <1>0 DEF LeavesFiles, SetupGoto, At, SetupsOver
  <2>1. CASE BeginSetup(s)
    <3>1. LeavesFiles
      BY <2>1 DEF BeginSetup
    <3> QED BY <3>1, LeavesFilesInv
  <2>2. CASE BeginSweep(s)
    <3>1. LeavesFiles
      BY <2>2 DEF BeginSweep
    <3> QED BY <3>1, LeavesFilesInv
  <2>3. CASE NextRoot(s)
    <3>1. LeavesFiles
      BY <2>3 DEF NextRoot
    <3> QED BY <3>1, LeavesFilesInv
  <2>4. CASE Swept(s)
    <3>1. Sweeping(s)
      BY <2>4 DEF Swept, SweepInv, SweepsNow
    <3>2. LeavesFiles
      BY <2>4, <3>1 DEF Swept, Sweeping
    <3> QED BY <3>2, LeavesFilesInv
  <2>5. CASE LookUp(s)
    BY <2>5, LookUpKeepsFiles
  <2>6. CASE DownloadEnds(s)
    BY <2>6, DownloadEndsKeepsFiles
  <2>7. CASE UnpackAdvances(s)
    BY <2>7, UnpackAdvancesKeepsFiles
  <2>8. CASE UnpackEnds(s)
    BY <2>8, UnpackEndsKeepsFiles
  <2>9. CASE MakeDirectories(s)
    <3>1. LeavesFiles
      BY <2>9 DEF MakeDirectories
    <3> QED BY <3>1, LeavesFilesInv
  <2>10. CASE RegisterSetup(s)
    <3>1. LeavesFiles
      BY <2>10 DEF RegisterSetup
    <3> QED BY <3>1, LeavesFilesInv
  <2>11. CASE BeginTeardown(s)
    <3>1. LeavesFiles
      BY <2>11 DEF BeginTeardown
    <3> QED BY <3>1, LeavesFilesInv
  <2>12. CASE DisposeVault(s)
    <3>1. LeavesFiles
      BY <2>12 DEF DisposeVault
    <3> QED BY <3>1, LeavesFilesInv
  <2>13. CASE DisposeTransport(s)
    <3>1. LeavesFiles
      BY <2>13 DEF DisposeTransport
    <3> QED BY <3>1, LeavesFilesInv
  <2> QED BY <1>1, <2>1, <2>2, <2>3, <2>4, <2>5, <2>6, <2>7, <2>8, <2>9, <2>10, <2>11, <2>12, <2>13 DEF
             SetupStep
<1>2. ASSUME NEW d \in Directories, Writes(d) PROVE FilesInv'
  BY <1>2, LeavesFilesInv DEF Writes, LeavesFiles
<1>3. ASSUME NEW d \in Directories, NEW s \in Setups, sweepHostLeftovers(d, s) PROVE FilesInv'
  BY <1>3, LeavesFilesInv DEF sweepHostLeftovers, LeavesFiles
<1>4. CASE Tick
  BY <1>4, LeavesFilesInv DEF Tick, LeavesFiles
<1> QED BY <1>1, <1>2, <1>3, <1>4, KillKeepsFiles DEF DirectoriesStep

-----------------------------------------------------------------------------
(* The invariant of the directories.                                       *)

DirectoriesIInv == DirectoriesTypes /\ SweepInv /\ FilesInv

LEMMA DirectoriesStart == ASSUME DirectoriesInit PROVE DirectoriesIInv
<1>1. DirectoriesTypes
  BY Machine, NoSweepIsSweep, PlacesAre DEF DirectoriesInit, DirectoriesTypes
<1>2. SweepInv
  <2>1. MadeFirst /\ SweepsNow /\ OldAreFound
    BY Machine DEF DirectoriesInit, MadeFirst, MadeBefore, SweepsNow, OldAreFound, NoSweep, IsExcluded,
       InUse, At
  <2> QED BY <2>1 DEF SweepInv, DirectoriesInit, YoungSpared, BooksSpared
<1>3. FilesInv
  BY DEF DirectoriesInit, FilesInv, UnpackedBySome, GotIsWhole
<1> QED BY <1>1, <1>2, <1>3 DEF DirectoriesIInv

LEMMA DirectoriesIInvStep ==
  ASSUME DirectoriesIInv, [DirectoriesStep]_directoriesVars
  PROVE  DirectoriesIInv'
<1>1. CASE DirectoriesStep
  BY <1>1, DirectoriesStepTypes, SweepInvStep, FilesInvStep DEF DirectoriesIInv, SweepInv, MadeFirst
<1>2. CASE UNCHANGED directoriesVars
  <2>1. DirectoriesTypes'
    BY <1>2 DEF DirectoriesIInv, directoriesVars, DirectoriesTypes
  <2>2. LeavesSweeps /\ MadeFirst'
    BY <1>2 DEF DirectoriesIInv, SweepInv, directoriesVars, LeavesSweeps, MadeFirst, MadeBefore
  <2>3. LeavesFiles
    BY <1>2 DEF directoriesVars, LeavesFiles
  <2> QED BY <2>1, <2>2, <2>3, LeavesSweepInv, LeavesFilesInv DEF DirectoriesIInv
<1> QED BY <1>1, <1>2

LEMMA DirectoriesIInvGives == DirectoriesIInv => DirectoriesInv
<1> QED BY SweepInvGives, SameTypes DEF DirectoriesIInv, DirectoriesInv, FilesInv


-----------------------------------------------------------------------------
(* Instances and processes.                                                *)

\* An instance is an attempt of a harness; it has a child and an heir, and no process is of two.
LEMMA InstanceFacts ==
  /\ \A h \in Harnesses : \A n \in 1..Attempts[h] : <<h, n>> \in Instances /\ Harness(<<h, n>>) = h
  /\ \A i \in Instances : /\ Harness(i) \in Harnesses /\ i[2] \in 1..Attempts[Harness(i)]
                          /\ i = <<Harness(i), i[2]>>
<1>1. ASSUME NEW i \in Instances
      PROVE  /\ Harness(i) \in Harnesses /\ i[2] \in 1..Attempts[Harness(i)]
             /\ i = <<Harness(i), i[2]>>
  <2>1. PICK h \in Harnesses : i \in {h} \X (1..Attempts[h])
    BY DEF Instances
  <2> QED BY <2>1 DEF Harness
<1>2. ASSUME NEW h \in Harnesses, NEW n \in 1..Attempts[h]
      PROVE  <<h, n>> \in Instances /\ Harness(<<h, n>>) = h
  <2>1. <<h, n>> \in {h} \X (1..Attempts[h])
    OBVIOUS
  <2> QED BY <2>1 DEF Instances, Harness
<1> QED BY <1>1, <1>2

LEMMA ProcessFacts ==
  /\ \A i \in Instances :
       Child(i) \in Processes /\ Heir(i) \in Processes /\ Of(Child(i)) = i /\ Of(Heir(i)) = i
  /\ \A q \in Processes : Of(q) \in Instances /\ q \in {Child(Of(q)), Heir(Of(q))}
  /\ \A i, j \in Instances :
       Child(i) # Heir(j) /\ (Child(i) = Child(j) => i = j) /\ (Heir(i) = Heir(j) => i = j)
<1> QED BY DEF Child, Heir, Processes, Of

LEMMA OwnedConstants ==
  /\ Nil \notin Ports /\ Nil \notin Instances /\ Nil \notin Processes
  /\ \A h \in Harnesses : Attempts[h] \in Nat /\ Attempts[h] >= 1
  /\ RoundLimit \in Nat /\ ProbeLimit \in Nat /\ ProbeLimit >= 1
  /\ RefusalLimit \in Nat /\ TroubleLimit \in Nat
<1> QED BY OwnedAssumption

-----------------------------------------------------------------------------
(* The instances: their types, in parts.                                   *)

Goals == {"none", "giveUp", "relaunch", "dispose"}

HarnessTypes ==
  /\ phase \in [Harnesses -> Location]
  /\ attempt \in [Harnesses -> Nat]
  /\ \A h \in Harnesses : attempt[h] \in 1..Attempts[h]
  /\ owned \in [Harnesses -> Instances \cup {Nil}]
  /\ round \in [Harnesses -> 0..RoundLimit]
  /\ found \in [Harnesses -> SUBSET Processes]
  /\ goal \in [Harnesses -> Goals]

ProcessTypes ==
  /\ port \in [Instances -> Ports \cup {Nil}]
  /\ alive \subseteq Processes
  /\ listener \in [Ports -> Processes \cup {Nil}]
  /\ \A p \in Ports : listener[p] # Nil => listener[p] \in alive
  /\ isKillExpected \subseteq Instances /\ exitPending \subseteq Instances
  /\ marker \in [Ports -> Instances \cup {Nil}]

WatchdogTypes ==
  /\ serverOpen \subseteq Instances
  /\ watchdog \in [Instances -> {"off", "connecting", "on", "asking", "fooled"}]
  /\ probes \in [Instances -> 0..ProbeLimit]
  /\ troubles \in 0..TroubleLimit /\ refusals \in 0..RefusalLimit
  /\ lapses \subseteq Harnesses /\ unseen \subseteq Instances /\ late \subseteq Ports

InstanceTypes == HarnessTypes /\ ProcessTypes /\ WatchdogTypes

LEMMA SameInstanceTypes == (InstanceTypeOK <=> InstanceTypes) /\ (InstanceTypeOK' <=> InstanceTypes')
<1>1. ASSUME alive \subseteq Processes
      PROVE  listener \in [Ports -> alive \cup {Nil}] <=>
               /\ listener \in [Ports -> Processes \cup {Nil}]
               /\ \A p \in Ports : listener[p] # Nil => listener[p] \in alive
  BY <1>1
<1>2. ASSUME alive' \subseteq Processes
      PROVE  listener' \in [Ports -> alive' \cup {Nil}] <=>
               /\ listener' \in [Ports -> Processes \cup {Nil}]
               /\ \A p \in Ports : listener'[p] # Nil => listener'[p] \in alive'
  BY <1>2
<1>3. InstanceTypeOK <=> InstanceTypes
  BY <1>1 DEF InstanceTypeOK, InstanceTypes, HarnessTypes, ProcessTypes, WatchdogTypes, Goals
<1>4. InstanceTypeOK' <=> InstanceTypes'
  BY <1>2 DEF InstanceTypeOK, InstanceTypes, HarnessTypes, ProcessTypes, WatchdogTypes, Goals
<1> QED BY <1>3, <1>4

LEMMA CurrentIs ==
  ASSUME HarnessTypes, NEW h \in Harnesses
  PROVE  Current(h) \in Instances /\ Harness(Current(h)) = h /\ Current(h)[2] = attempt[h]
<1>1. attempt[h] \in 1..Attempts[h]
  BY DEF HarnessTypes
<1> QED BY <1>1, InstanceFacts DEF Current

-----------------------------------------------------------------------------
(* The plan of a harness: launches, the kill, and what it is for.          *)

Launching == {"idle", "picked", "booting", "launched", "up"}
Ending == {"querying", "killing", "reaping", "exiting"}

PlanOf(h) ==
  /\ owned[h] \in {Nil, Current(h)}
  /\ phase[h] \in {"idle", "picked", "booting"} => owned[h] = Nil
  /\ phase[h] \in {"launched", "up"} => owned[h] = Current(h)
  /\ owned[h] # Nil => CdpPort(h) \in Ports
  /\ phase[h] = "idle" => CdpPort(h) = Nil
  /\ phase[h] \notin {"idle", "dead"} => CdpPort(h) \in Ports
  /\ phase[h] \in Ending => goal[h] # "none"
  /\ phase[h] = "exiting" => goal[h] = "relaunch"
  /\ phase[h] \in Ending /\ goal[h] = "relaunch" => attempt[h] < Attempts[h]

\* A harness owns the instance of its current attempt or none; an attempt that is on its way has
\* a port; a kill has a purpose, and a relaunch is another attempt that there may be.
Plans == \A h \in Harnesses : PlanOf(h)

\* An instance that is yet to be launched.
Fresh(i) ==
  /\ Child(i) \notin alive /\ Heir(i) \notin alive
  /\ i \notin exitPending /\ i \notin isKillExpected /\ i \notin serverOpen
  /\ watchdog[i] = "off" /\ probes[i] = 0

\* The instances of later attempts, and that of one that has not been spawned, are yet to be
\* launched; what is being launched has not been told to die; a child that was succeeded or whose
\* exit is pending does not live, and what lived has a port.
Launches ==
  /\ \A i \in Instances : attempt[Harness(i)] < i[2] => Fresh(i) /\ port[i] = Nil
  /\ \A h \in Harnesses : phase[h] \in {"idle", "picked"} => Fresh(Current(h))
  /\ \A h \in Harnesses : phase[h] \in Launching => Current(h) \notin isKillExpected
  /\ \A i \in Instances :
       /\ Heir(i) \in alive \/ i \in exitPending => Child(i) \notin alive
       /\ Lives(i) \/ i \in exitPending => port[i] \in Ports

\* The kill of an instance may have missed it.
Excused(i) == Harness(i) \in lapses \/ i \in unseen

\* A kill gets hold of the processes of its instance one after another, unless it is excused.
KillOf(h) ==
  ~Excused(Current(h)) =>
    /\ phase[h] \in {"killing", "reaping"} /\ Heir(Current(h)) \in alive => Heir(Current(h)) \in found[h]
    /\ phase[h] = "reaping" => Child(Current(h)) \notin alive
    /\ phase[h] \in {"exiting", "rechecking", "ended"} => ~Lives(Current(h))
    /\ phase[h] = "failed" /\ owned[h] = Nil => ~Lives(Current(h))

Kills == \A h \in Harnesses : KillOf(h)

\* Only an excused instance outlives its attempt, or one whose harness is dead.
EarlierEnded ==
  \A i \in Instances :
    Lives(i) => attempt[Harness(i)] <= i[2] \/ Excused(i) \/ phase[Harness(i)] = "dead"

\* What the marker of its port says to an instance that lives.
Markers ==
  \A i \in Instances :
    Lives(i) /\ marker[port[i]] # Nil => (marker[port[i]] = i /\ Child(i) \notin alive) \/ port[i] \in late

SharesPort(i) == \E j \in Instances \ {i} : port[j] = port[i]

\* A launch whose child is gone, with its exit handled, is on record.
DeathsOnRecord ==
  \A h \in Harnesses :
    (phase[h] \in {"booting", "launched", "up"} /\ Child(Current(h)) \notin alive
     /\ Current(h) \notin exitPending) =>
      marker[CdpPort(h)] = Current(h) \/ SharesPort(Current(h))

\* A server that listens has refused every probe that counts.
Probed == \A i \in serverOpen : probes[i] <= refusals

\* The inductive invariant of the instances.
InstanceIInv ==
  InstanceTypes /\ Plans /\ Launches /\ Kills /\ EarlierEnded /\ Markers /\ DeathsOnRecord /\ Probed

-----------------------------------------------------------------------------
(* The shapes of the steps.                                                *)

\* A step of h leaves what other harnesses are at alone.
HarnessFrame(h) ==
  \A g \in Harnesses \ {h} :
    /\ phase'[g] = phase[g] /\ attempt'[g] = attempt[g] /\ owned'[g] = owned[g]
    /\ found'[g] = found[g] /\ goal'[g] = goal[g]

\* Processes end, and nothing else happens to them; the exit of a child is pending.
Shrinks ==
  /\ alive' \subseteq alive
  /\ \A p \in Ports : \/ listener'[p] = Nil
                      \/ listener'[p] = listener[p] /\ listener[p] \in alive'
  /\ \A i \in Instances :
       /\ Child(i) \in alive \ alive' => i \in exitPending'
       /\ i \in exitPending' => i \in exitPending \/ Child(i) \in alive \ alive'
       /\ i \in exitPending => i \in exitPending'
       /\ watchdog'[i] \in {watchdog[i], "off"}
  /\ listener' \in [Ports -> Processes \cup {Nil}]
  /\ exitPending' \subseteq Instances
  /\ watchdog' \in [Instances -> {"off", "connecting", "on", "asking", "fooled"}]

LEMMA NothingShrinks ==
  ASSUME InstanceTypes, UNCHANGED <<alive, listener, exitPending, watchdog>>
  PROVE  Shrinks
<1> QED BY DEF InstanceTypes, ProcessTypes, WatchdogTypes, Shrinks

LEMMA DieShrinks ==
  ASSUME InstanceTypes, NEW dead, Die(dead)
  PROVE  Shrinks /\ dead \cap alive' = {}
<1>1. /\ alive \subseteq Processes /\ exitPending \subseteq Instances
      /\ listener \in [Ports -> Processes \cup {Nil}]
      /\ \A p \in Ports : listener[p] # Nil => listener[p] \in alive
      /\ watchdog \in [Instances -> {"off", "connecting", "on", "asking", "fooled"}]
  BY DEF InstanceTypes, ProcessTypes, WatchdogTypes
<1>2. alive' = alive \ dead
  BY DEF Die
<1>3. \A p \in Ports : \/ listener'[p] = Nil
                       \/ listener'[p] = listener[p] /\ listener[p] \in alive'
  BY <1>1, <1>2 DEF Die
<1>4. listener' \in [Ports -> Processes \cup {Nil}]
  BY <1>1 DEF Die
<1>5. exitPending' = exitPending \cup {i \in Instances : Child(i) \in dead \cap alive}
  BY DEF Die
<1>6. /\ watchdog' \in [Instances -> {"off", "connecting", "on", "asking", "fooled"}]
      /\ \A i \in Instances : watchdog'[i] \in {watchdog[i], "off"}
  BY <1>1 DEF Die
<1>7. \A i \in Instances :
       /\ Child(i) \in alive \ alive' => i \in exitPending'
       /\ i \in exitPending' => i \in exitPending \/ Child(i) \in alive \ alive'
       /\ i \in exitPending => i \in exitPending'
  BY <1>2, <1>5
<1>8. exitPending' \subseteq Instances
  BY <1>1, <1>5
<1> QED BY <1>2, <1>3, <1>4, <1>6, <1>7, <1>8 DEF Shrinks

LEMMA TroubleTypes == ASSUME InstanceTypes, Trouble PROVE troubles' \in 0..TroubleLimit
<1> QED BY OwnedConstants DEF Trouble, InstanceTypes, WatchdogTypes

LEMMA KillShrinks ==
  ASSUME InstanceTypes, NEW h \in Harnesses, NEW victims, Kill(h, victims)
  PROVE  /\ Shrinks
         /\ victims \cap alive' = {} \/ h \in lapses'
         /\ lapses \subseteq lapses' /\ lapses' \subseteq Harnesses
         /\ troubles' \in 0..TroubleLimit
<1>1. lapses \subseteq Harnesses /\ troubles \in 0..TroubleLimit
  BY DEF InstanceTypes, WatchdogTypes
<1>2. CASE Die(victims) /\ UNCHANGED <<troubles, lapses>>
  BY <1>1, <1>2, DieShrinks
<1>3. CASE Trouble /\ lapses' = lapses \cup {h} /\ UNCHANGED <<alive, listener, exitPending, watchdog>>
  BY <1>1, <1>3, NothingShrinks, TroubleTypes
<1> QED BY <1>2, <1>3 DEF Kill

LEMMA GoingIsTyped ==
  ASSUME HarnessTypes, NEW h \in Harnesses, NEW l \in Location, HarnessGoto(h, l)
  PROVE  /\ phase' \in [Harnesses -> Location] /\ phase'[h] = l
         /\ \A g \in Harnesses \ {h} : phase'[g] = phase[g]
<1> QED BY DEF HarnessGoto, HarnessTypes

LEMMA LocationsAre ==
  {"idle", "picked", "booting", "launched", "up", "failed", "querying", "killing",
   "reaping", "exiting", "rechecking", "ended", "dead"} = Location
<1> QED BY DEF Location

LEMMA OwnersAreProcesses ==
  ASSUME InstanceTypes, NEW p \in Ports
  PROVE  OwnersOf(p) \subseteq alive /\ OwnersOf(p) \in SUBSET Processes
<1> QED BY DEF InstanceTypes, ProcessTypes, OwnersOf

\* Who is found after a kill was begun, what it was for and where it leads to.
LEMMA AfterKillGoes ==
  ASSUME InstanceTypes, NEW h \in Harnesses, PlanOf(h), phase[h] = "reaping", AfterKill(h)
  PROVE  \E l \in {"exiting", "failed", "rechecking"} :
           HarnessGoto(h, l) /\ (l = "exiting" <=> goal[h] = "relaunch")
<1>1. goal[h] \in {"giveUp", "relaunch", "dispose"}
  BY DEF InstanceTypes, HarnessTypes, Goals, PlanOf, Ending
<1>2. CASE goal[h] = "giveUp"
  BY <1>2 DEF AfterKill
<1>3. CASE goal[h] = "relaunch"
  BY <1>3 DEF AfterKill
<1>4. CASE goal[h] = "dispose"
  BY <1>4 DEF AfterKill
<1> QED BY <1>1, <1>2, <1>3, <1>4

-----------------------------------------------------------------------------
(* The harness: where it goes, and its plan.                               *)

LEMMA PortsStay ==
  ASSUME InstanceTypes, NEW h \in Harnesses, NEW g \in Harnesses \ {h}, pickFreePort(h)
  PROVE  port'[Current(g)] = port[Current(g)]
<1> QED BY CurrentIs DEF pickFreePort, InstanceTypes, ProcessTypes

LEMMA PlanFrame ==
  ASSUME Plans, NEW g \in Harnesses,
         phase'[g] = phase[g], attempt'[g] = attempt[g], owned'[g] = owned[g], goal'[g] = goal[g],
         port'[Current(g)] = port[Current(g)]
  PROVE  PlanOf(g)'
<1>1. Current(g)' = Current(g)
  BY DEF Current
<1>2. PlanOf(g)
  BY DEF Plans
<1> QED BY <1>1, <1>2 DEF PlanOf, CdpPort

\* Every step of a harness keeps the plans, its own and those of the others.
LEMMA HarnessStepPlans ==
  ASSUME InstanceTypes, Plans, Launches, NEW h \in Harnesses, HarnessStep(h)
  PROVE  HarnessTypes' /\ Plans' /\ HarnessFrame(h)
<1>0. /\ HarnessTypes /\ PlanOf(h) /\ Current(h) \in Instances
      /\ port \in [Instances -> Ports \cup {Nil}]
      /\ phase \in [Harnesses -> Location] /\ attempt \in [Harnesses -> Nat]
      /\ owned \in [Harnesses -> Instances \cup {Nil}]
      /\ found \in [Harnesses -> SUBSET Processes] /\ goal \in [Harnesses -> Goals]
  BY CurrentIs DEF InstanceTypes, HarnessTypes, ProcessTypes, Plans
<1>f. ASSUME HarnessFrame(h), PlanOf(h)',
             \A g \in Harnesses \ {h} : port'[Current(g)] = port[Current(g)]
      PROVE  Plans'
  BY <1>f, PlanFrame DEF HarnessFrame, Plans
<1> USE LocationsAre
<1>1. CASE pickFreePort(h)
  <2>1. HarnessGoto(h, "picked")
    BY <1>1 DEF pickFreePort
  <2>2. /\ phase' \in [Harnesses -> Location]
        /\ phase'[h] = "picked"
        /\ \A g \in Harnesses \ {h} : phase'[g] = phase[g]
    BY <1>0, <2>1, GoingIsTyped
  <2>3. HarnessTypes'
    BY <1>1, <1>0, <2>2 DEF pickFreePort, HarnessTypes, Goals
  <2>4. HarnessFrame(h)
    BY <1>1, <1>0, <2>2 DEF pickFreePort, HarnessFrame
  <2>5. PlanOf(h)'
    BY <1>1, <1>0, <2>2 DEF pickFreePort, PlanOf, CdpPort, Current, Launching, Ending, processes
  <2>6. \A g \in Harnesses \ {h} : port'[Current(g)] = port[Current(g)]
    BY <1>1, <1>0, PortsStay DEF pickFreePort, processes
  <2> QED BY <1>f, <2>3, <2>4, <2>5, <2>6
<1>2. CASE Spawn(h)
  <2>1. HarnessGoto(h, "booting")
    BY <1>2 DEF Spawn
  <2>2. /\ phase' \in [Harnesses -> Location]
        /\ phase'[h] = "booting"
        /\ \A g \in Harnesses \ {h} : phase'[g] = phase[g]
    BY <1>0, <2>1, GoingIsTyped
  <2>3. HarnessTypes'
    BY <1>2, <1>0, <2>2 DEF Spawn, HarnessTypes, Goals
  <2>4. HarnessFrame(h)
    BY <1>2, <1>0, <2>2 DEF Spawn, HarnessFrame
  <2>5. PlanOf(h)'
    BY <1>2, <1>0, <2>2 DEF Spawn, PlanOf, CdpPort, Current, Launching, Ending, processes
  <2>6. \A g \in Harnesses \ {h} : port'[Current(g)] = port[Current(g)]
    BY <1>2, <1>0, PortsStay DEF Spawn, processes
  <2> QED BY <1>f, <2>3, <2>4, <2>5, <2>6
<1>3. CASE CdpReady(h)
  <2>1. HarnessGoto(h, "launched")
    BY <1>3 DEF CdpReady
  <2>2. /\ phase' \in [Harnesses -> Location]
        /\ phase'[h] = "launched"
        /\ \A g \in Harnesses \ {h} : phase'[g] = phase[g]
    BY <1>0, <2>1, GoingIsTyped
  <2>3. HarnessTypes'
    BY <1>3, <1>0, <2>2 DEF CdpReady, HarnessTypes, Goals
  <2>4. HarnessFrame(h)
    BY <1>3, <1>0, <2>2 DEF CdpReady, HarnessFrame
  <2>5. PlanOf(h)'
    BY <1>3, <1>0, <2>2 DEF CdpReady, PlanOf, CdpPort, Current, Launching, Ending, processes
  <2>6. \A g \in Harnesses \ {h} : port'[Current(g)] = port[Current(g)]
    BY <1>3, <1>0, PortsStay DEF CdpReady, processes
  <2> QED BY <1>f, <2>3, <2>4, <2>5, <2>6
<1>4. CASE CdpTimesOut(h)
  <2>1. HarnessGoto(h, "querying")
    BY <1>4 DEF CdpTimesOut, BeginKill
  <2>2. /\ phase' \in [Harnesses -> Location]
        /\ phase'[h] = "querying"
        /\ \A g \in Harnesses \ {h} : phase'[g] = phase[g]
    BY <1>0, <2>1, GoingIsTyped
  <2>3. HarnessTypes'
    BY <1>4, <1>0, <2>2 DEF CdpTimesOut, BeginKill, HarnessTypes, Goals
  <2>4. HarnessFrame(h)
    BY <1>4, <1>0, <2>2 DEF CdpTimesOut, BeginKill, HarnessFrame
  <2>5. PlanOf(h)'
    BY <1>4, <1>0, <2>2 DEF CdpTimesOut, BeginKill, PlanOf, CdpPort, Current, Launching, Ending, processes
  <2>6. \A g \in Harnesses \ {h} : port'[Current(g)] = port[Current(g)]
    BY <1>4, <1>0, PortsStay DEF CdpTimesOut, processes
  <2> QED BY <1>f, <2>3, <2>4, <2>5, <2>6
<1>5. CASE VaultReady(h)
  <2>1. HarnessGoto(h, "up")
    BY <1>5 DEF VaultReady
  <2>2. /\ phase' \in [Harnesses -> Location]
        /\ phase'[h] = "up"
        /\ \A g \in Harnesses \ {h} : phase'[g] = phase[g]
    BY <1>0, <2>1, GoingIsTyped
  <2>3. HarnessTypes'
    BY <1>5, <1>0, <2>2 DEF VaultReady, HarnessTypes, Goals
  <2>4. HarnessFrame(h)
    BY <1>5, <1>0, <2>2 DEF VaultReady, HarnessFrame
  <2>5. PlanOf(h)'
    BY <1>5, <1>0, <2>2 DEF VaultReady, PlanOf, CdpPort, Current, Launching, Ending, processes
  <2>6. \A g \in Harnesses \ {h} : port'[Current(g)] = port[Current(g)]
    BY <1>5, <1>0, PortsStay DEF VaultReady, processes
  <2> QED BY <1>f, <2>3, <2>4, <2>5, <2>6
<1>6. CASE VaultNotReady(h)
  <2>1. HarnessGoto(h, "querying")
    BY <1>6 DEF VaultNotReady, BeginKill
  <2>2. /\ phase' \in [Harnesses -> Location]
        /\ phase'[h] = "querying"
        /\ \A g \in Harnesses \ {h} : phase'[g] = phase[g]
    BY <1>0, <2>1, GoingIsTyped
  <2>3. HarnessTypes'
    BY <1>6, <1>0, <2>2 DEF VaultNotReady, BeginKill, HarnessTypes, Goals
  <2>4. HarnessFrame(h)
    BY <1>6, <1>0, <2>2 DEF VaultNotReady, BeginKill, HarnessFrame
  <2>5. PlanOf(h)'
    BY <1>6, <1>0, <2>2 DEF VaultNotReady, BeginKill, PlanOf, CdpPort, Current, Launching, Ending, processes
  <2>6. \A g \in Harnesses \ {h} : port'[Current(g)] = port[Current(g)]
    BY <1>6, <1>0, PortsStay DEF VaultNotReady, processes
  <2> QED BY <1>f, <2>3, <2>4, <2>5, <2>6
<1>7. CASE RegistrationThrows(h)
  <2>1. HarnessGoto(h, "failed")
    BY <1>7 DEF RegistrationThrows
  <2>2. /\ phase' \in [Harnesses -> Location]
        /\ phase'[h] = "failed"
        /\ \A g \in Harnesses \ {h} : phase'[g] = phase[g]
    BY <1>0, <2>1, GoingIsTyped
  <2>3. HarnessTypes'
    BY <1>7, <1>0, <2>2 DEF RegistrationThrows, HarnessTypes, Goals
  <2>4. HarnessFrame(h)
    BY <1>7, <1>0, <2>2 DEF RegistrationThrows, HarnessFrame
  <2>5. PlanOf(h)'
    BY <1>7, <1>0, <2>2 DEF RegistrationThrows, PlanOf, CdpPort, Current, Launching, Ending, processes
  <2>6. \A g \in Harnesses \ {h} : port'[Current(g)] = port[Current(g)]
    BY <1>7, <1>0, PortsStay DEF RegistrationThrows, processes
  <2> QED BY <1>f, <2>3, <2>4, <2>5, <2>6
<1>8. CASE QueryOwners(h)
  <2>1. HarnessGoto(h, "killing")
    BY <1>8 DEF QueryOwners
  <2>2. /\ phase' \in [Harnesses -> Location]
        /\ phase'[h] = "killing"
        /\ \A g \in Harnesses \ {h} : phase'[g] = phase[g]
    BY <1>0, <2>1, GoingIsTyped
  <2>3. HarnessTypes'
    BY <1>8, <1>0, <2>2, OwnersAreProcesses DEF QueryOwners, HarnessTypes, Goals, PlanOf
  <2>4. HarnessFrame(h)
    BY <1>8, <1>0, <2>2 DEF QueryOwners, HarnessFrame
  <2>5. PlanOf(h)'
    BY <1>8, <1>0, <2>2 DEF QueryOwners, PlanOf, CdpPort, Current, Launching, Ending, processes
  <2>6. \A g \in Harnesses \ {h} : port'[Current(g)] = port[Current(g)]
    BY <1>8, <1>0, PortsStay DEF QueryOwners, processes
  <2> QED BY <1>f, <2>3, <2>4, <2>5, <2>6
<1>9. CASE KillChild(h)
  <2>1. HarnessGoto(h, "reaping")
    BY <1>9 DEF KillChild
  <2>2. /\ phase' \in [Harnesses -> Location]
        /\ phase'[h] = "reaping"
        /\ \A g \in Harnesses \ {h} : phase'[g] = phase[g]
    BY <1>0, <2>1, GoingIsTyped
  <2>3. HarnessTypes'
    BY <1>9, <1>0, <2>2 DEF KillChild, HarnessTypes, Goals
  <2>4. HarnessFrame(h)
    BY <1>9, <1>0, <2>2 DEF KillChild, HarnessFrame
  <2>5. PlanOf(h)'
    BY <1>9, <1>0, <2>2 DEF KillChild, PlanOf, CdpPort, Current, Launching, Ending, processes
  <2>6. \A g \in Harnesses \ {h} : port'[Current(g)] = port[Current(g)]
    BY <1>9, <1>0, PortsStay DEF KillChild, processes
  <2> QED BY <1>f, <2>3, <2>4, <2>5, <2>6
<1>10. CASE KillOwners(h)
  <2>1. PICK l \in {"exiting", "failed", "rechecking"} :
          HarnessGoto(h, l) /\ (l = "exiting" <=> goal[h] = "relaunch")
    BY <1>10, <1>0, AfterKillGoes DEF KillOwners
  <2>2. /\ phase' \in [Harnesses -> Location]
        /\ phase'[h] = l
        /\ \A g \in Harnesses \ {h} : phase'[g] = phase[g]
    BY <1>0, <2>1, GoingIsTyped
  <2>3. HarnessTypes'
    BY <1>10, <1>0, <2>2 DEF KillOwners, HarnessTypes, Goals
  <2>4. HarnessFrame(h)
    BY <1>10, <1>0, <2>2 DEF KillOwners, HarnessFrame
  <2>5. PlanOf(h)'
    BY <1>10, <1>0, <2>1, <2>2 DEF KillOwners, PlanOf, CdpPort, Current, Launching, Ending
  <2>6. \A g \in Harnesses \ {h} : port'[Current(g)] = port[Current(g)]
    BY <1>10 DEF KillOwners
  <2> QED BY <1>f, <2>3, <2>4, <2>5, <2>6
<1>11. CASE InstanceExited(h)
  <2>1. Relaunch(h)
    BY <1>11 DEF InstanceExited
  <2> QED
    <3>1. /\ phase' \in [Harnesses -> Location]
          /\ phase'[h] = "idle"
          /\ \A g \in Harnesses \ {h} : phase'[g] = phase[g]
      BY <1>0, <2>1, GoingIsTyped DEF Relaunch
    <3>2. /\ attempt[h] < Attempts[h] /\ attempt' = [attempt EXCEPT ![h] = @ + 1]
          /\ owned' = [owned EXCEPT ![h] = Nil] /\ attempt[h] \in 1..Attempts[h]
      BY <1>11, <1>0, <2>1 DEF InstanceExited, Relaunch, PlanOf, Ending, HarnessTypes
    <3>3. attempt' \in [Harnesses -> Nat] /\ attempt'[h] = attempt[h] + 1 /\ attempt'[h] \in 1..Attempts[h]
          /\ \A g \in Harnesses \ {h} : attempt'[g] = attempt[g]
      BY <1>0, <3>2, OwnedConstants
    <3>4. HarnessTypes'
      BY <1>11, <1>0, <3>1, <3>2, <3>3 DEF InstanceExited, HarnessTypes
    <3>5. HarnessFrame(h)
      BY <1>11, <1>0, <3>1, <3>2, <3>3 DEF InstanceExited, HarnessFrame
    <3>6. Current(h)' \in Instances /\ Current(h)'[2] = attempt[h] + 1 /\ Harness(Current(h)') = h
      BY <3>3, InstanceFacts DEF Current
    <3>7. CdpPort(h)' = Nil
      BY <1>11, <3>3, <3>6, <1>0 DEF InstanceExited, processes, CdpPort, Launches
    <3>8. PlanOf(h)'
      BY <1>0, <3>1, <3>2, <3>7 DEF PlanOf, Ending
    <3>9. \A g \in Harnesses \ {h} : port'[Current(g)] = port[Current(g)]
      BY <1>11 DEF InstanceExited, processes
    <3> QED BY <1>f, <3>4, <3>5, <3>8, <3>9
<1>12. CASE ExitUnverified(h)
  <2>1. CASE Relaunch(h)
    <3>1. /\ phase' \in [Harnesses -> Location]
          /\ phase'[h] = "idle"
          /\ \A g \in Harnesses \ {h} : phase'[g] = phase[g]
      BY <1>0, <2>1, GoingIsTyped DEF Relaunch
    <3>2. /\ attempt[h] < Attempts[h] /\ attempt' = [attempt EXCEPT ![h] = @ + 1]
          /\ owned' = [owned EXCEPT ![h] = Nil] /\ attempt[h] \in 1..Attempts[h]
      BY <1>12, <1>0, <2>1 DEF ExitUnverified, Relaunch, PlanOf, Ending, HarnessTypes
    <3>3. attempt' \in [Harnesses -> Nat] /\ attempt'[h] = attempt[h] + 1 /\ attempt'[h] \in 1..Attempts[h]
          /\ \A g \in Harnesses \ {h} : attempt'[g] = attempt[g]
      BY <1>0, <3>2, OwnedConstants
    <3>4. HarnessTypes'
      BY <1>12, <1>0, <3>1, <3>2, <3>3 DEF ExitUnverified, HarnessTypes
    <3>5. HarnessFrame(h)
      BY <1>12, <1>0, <3>1, <3>2, <3>3 DEF ExitUnverified, HarnessFrame
    <3>6. Current(h)' \in Instances /\ Current(h)'[2] = attempt[h] + 1 /\ Harness(Current(h)') = h
      BY <3>3, InstanceFacts DEF Current
    <3>7. CdpPort(h)' = Nil
      BY <1>12, <3>3, <3>6, <1>0 DEF ExitUnverified, processes, CdpPort, Launches
    <3>8. PlanOf(h)'
      BY <1>0, <3>1, <3>2, <3>7 DEF PlanOf, Ending
    <3>9. \A g \in Harnesses \ {h} : port'[Current(g)] = port[Current(g)]
      BY <1>12 DEF ExitUnverified, processes
    <3> QED BY <1>f, <3>4, <3>5, <3>8, <3>9
  <2>2. CASE HarnessGoto(h, "failed") /\ owned' = [owned EXCEPT ![h] = Nil] /\ UNCHANGED attempt
    <3>1. /\ phase' \in [Harnesses -> Location]
          /\ phase'[h] = "failed"
          /\ \A g \in Harnesses \ {h} : phase'[g] = phase[g]
      BY <1>0, <2>2, GoingIsTyped
    <3>2. owned' = [owned EXCEPT ![h] = Nil] /\ attempt' = attempt
      BY <2>2
    <3>3. HarnessTypes'
      BY <1>12, <1>0, <3>1, <3>2 DEF ExitUnverified, HarnessTypes
    <3>4. HarnessFrame(h)
      BY <1>12, <1>0, <3>1, <3>2 DEF ExitUnverified, HarnessFrame
    <3>5. PlanOf(h)'
      BY <1>12, <1>0, <3>1, <3>2 DEF ExitUnverified, PlanOf, CdpPort, Current, Launching, Ending, processes
    <3>6. \A g \in Harnesses \ {h} : port'[Current(g)] = port[Current(g)]
      BY <1>12 DEF ExitUnverified, processes
    <3> QED BY <1>f, <3>3, <3>4, <3>5, <3>6
  <2> QED BY <1>12, <2>1, <2>2 DEF ExitUnverified
<1>13. CASE DisposeInstance(h)
  <2>1. CASE owned[h] # Nil
    <3>1. /\ phase' \in [Harnesses -> Location]
          /\ phase'[h] = "querying"
          /\ \A g \in Harnesses \ {h} : phase'[g] = phase[g]
      BY <1>13, <1>0, <2>1, GoingIsTyped DEF DisposeInstance, BeginKill
    <3>2. goal' = [goal EXCEPT ![h] = "dispose"]
      BY <1>13, <2>1 DEF DisposeInstance, BeginKill
    <3>3. HarnessTypes'
      BY <1>13, <1>0, <3>1, <3>2 DEF DisposeInstance, HarnessTypes, Goals
    <3>4. HarnessFrame(h)
      BY <1>13, <1>0, <3>1, <3>2 DEF DisposeInstance, HarnessFrame
    <3>5. PlanOf(h)'
      BY <1>13, <1>0, <3>1, <3>2 DEF DisposeInstance, PlanOf, CdpPort, Current, Launching, Ending, processes
    <3>6. \A g \in Harnesses \ {h} : port'[Current(g)] = port[Current(g)]
      BY <1>13 DEF DisposeInstance, processes
    <3> QED BY <1>f, <3>3, <3>4, <3>5, <3>6
  <2>2. CASE owned[h] = Nil
    <3>1. /\ phase' \in [Harnesses -> Location]
          /\ phase'[h] = "ended"
          /\ \A g \in Harnesses \ {h} : phase'[g] = phase[g]
      BY <1>13, <1>0, <2>2, GoingIsTyped DEF DisposeInstance
    <3>2. goal' = goal
      BY <1>13, <2>2 DEF DisposeInstance
    <3>3. HarnessTypes'
      BY <1>13, <1>0, <3>1, <3>2 DEF DisposeInstance, HarnessTypes, Goals
    <3>4. HarnessFrame(h)
      BY <1>13, <1>0, <3>1, <3>2 DEF DisposeInstance, HarnessFrame
    <3>5. PlanOf(h)'
      BY <1>13, <1>0, <3>1, <3>2 DEF DisposeInstance, PlanOf, CdpPort, Current, Launching, Ending, processes
    <3>6. \A g \in Harnesses \ {h} : port'[Current(g)] = port[Current(g)]
      BY <1>13 DEF DisposeInstance, processes
    <3> QED BY <1>f, <3>3, <3>4, <3>5, <3>6
  <2> QED BY <2>1, <2>2
<1>14. CASE Recheck(h)
  <2>1. CASE OwnersOf(CdpPort(h)) = {} \/ round[h] = RoundLimit
    <3>1. /\ phase' \in [Harnesses -> Location]
          /\ phase'[h] = "ended"
          /\ \A g \in Harnesses \ {h} : phase'[g] = phase[g]
      BY <1>14, <1>0, <2>1, GoingIsTyped DEF Recheck
    <3>2. round' = round
      BY <1>14, <2>1 DEF Recheck
    <3>3. HarnessTypes'
      BY <1>14, <1>0, <3>1, <3>2 DEF Recheck, HarnessTypes
    <3>4. HarnessFrame(h)
      BY <1>14, <1>0, <3>1, <3>2 DEF Recheck, HarnessFrame
    <3>5. PlanOf(h)'
      BY <1>14, <1>0, <3>1, <3>2 DEF Recheck, PlanOf, CdpPort, Current, Launching, Ending, processes
    <3>6. \A g \in Harnesses \ {h} : port'[Current(g)] = port[Current(g)]
      BY <1>14 DEF Recheck, processes
    <3> QED BY <1>f, <3>3, <3>4, <3>5, <3>6
  <2>2. CASE ~(OwnersOf(CdpPort(h)) = {} \/ round[h] = RoundLimit)
    <3>1. phase' = phase
      BY <1>14, <2>2 DEF Recheck
    <3>2. round' = [round EXCEPT ![h] = @ + 1]
      BY <1>14, <2>2 DEF Recheck
    <3>a. round[h] \in 0..RoundLimit /\ round[h] # RoundLimit
      BY <1>0, <2>2 DEF HarnessTypes
    <3>b. round[h] + 1 \in 0..RoundLimit
      BY <3>a, OwnedConstants
    <3>3. HarnessTypes'
      BY <1>14, <1>0, <3>1, <3>2, <3>b DEF Recheck, HarnessTypes
    <3>4. HarnessFrame(h)
      BY <1>14, <1>0, <3>1, <3>2 DEF Recheck, HarnessFrame
    <3>5. PlanOf(h)'
      BY <1>14, <1>0, <3>1, <3>2 DEF Recheck, PlanOf, CdpPort, Current, Launching, Ending, processes
    <3>6. \A g \in Harnesses \ {h} : port'[Current(g)] = port[Current(g)]
      BY <1>14 DEF Recheck, processes
    <3> QED BY <1>f, <3>3, <3>4, <3>5, <3>6
  <2> QED BY <2>1, <2>2
<1> QED BY <1>1, <1>2, <1>3, <1>4, <1>5, <1>6, <1>7, <1>8, <1>9, <1>10, <1>11, <1>12, <1>13, <1>14 DEF
           HarnessStep

LEMMA DyingPlans ==
  ASSUME InstanceTypes, Plans, NEW h \in Harnesses, Crash(h) \/ ExitWithInstance(h)
  PROVE  HarnessTypes' /\ Plans' /\ HarnessFrame(h)
<1>1. /\ HarnessGoto(h, "dead")
      /\ UNCHANGED <<attempt, owned, round, found, goal, port>>
  BY DEF Crash, ExitWithInstance, ProcessEnds, processes
<1>2. /\ phase' \in [Harnesses -> Location] /\ phase'[h] = "dead"
      /\ \A g \in Harnesses \ {h} : phase'[g] = phase[g]
  BY <1>1, GoingIsTyped, LocationsAre DEF InstanceTypes
<1>3. HarnessTypes' /\ HarnessFrame(h)
  BY <1>1, <1>2 DEF InstanceTypes, HarnessTypes, HarnessFrame
<1>4. PlanOf(h)'
  BY <1>1, <1>2 DEF Plans, PlanOf, CdpPort, Current, Ending
<1>5. \A g \in Harnesses \ {h} : PlanOf(g)'
  BY <1>1, <1>2, PlanFrame
<1> QED BY <1>3, <1>4, <1>5 DEF Plans

LEMMA HarnessUnchanged ==
  ASSUME InstanceTypes, Plans, UNCHANGED harness, UNCHANGED port
  PROVE  HarnessTypes' /\ Plans' /\ \A h \in Harnesses : HarnessFrame(h)
<1>1. HarnessTypes' /\ \A h \in Harnesses : HarnessFrame(h)
  BY DEF InstanceTypes, HarnessTypes, harness, HarnessFrame
<1>2. \A g \in Harnesses : PlanOf(g)'
  BY PlanFrame DEF harness
<1> QED BY <1>1, <1>2 DEF Plans

-----------------------------------------------------------------------------
(* The processes and the watchdogs are typed.                              *)

LEMMA ShrinksIsTyped ==
  ASSUME InstanceTypes, Shrinks, UNCHANGED port, UNCHANGED isKillExpected,
         marker' \in [Ports -> Instances \cup {Nil}]
  PROVE  ProcessTypes'
<1> QED BY DEF InstanceTypes, ProcessTypes, Shrinks

LEMMA BeginKillTypes ==
  ASSUME InstanceTypes, NEW h \in Harnesses, NEW i \in Instances, NEW why, BeginKill(h, i, why)
  PROVE  /\ isKillExpected' \subseteq Instances /\ marker' \in [Ports -> Instances \cup {Nil}]
         /\ serverOpen' \subseteq Instances
<1> QED BY DEF InstanceTypes, ProcessTypes, WatchdogTypes, BeginKill

LEMMA HarnessProcessTypes ==
  ASSUME InstanceTypes, Plans, NEW h \in Harnesses, HarnessStep(h)
  PROVE  ProcessTypes' /\ WatchdogTypes'
<1>0. Current(h) \in Instances /\ PlanOf(h)
  BY CurrentIs DEF InstanceTypes, Plans
<1> USE DEF InstanceTypes, ProcessTypes, WatchdogTypes
<1>1. CASE pickFreePort(h)
  BY <1>1, <1>0 DEF pickFreePort, processes, exits, liveness, history
<1>2. CASE Spawn(h)
  <2>1. Child(Current(h)) \in Processes
    BY <1>0, ProcessFacts
  <2>2. ProcessTypes'
    BY <1>2, <1>0, <2>1 DEF Spawn
  <2>3. WatchdogTypes'
    BY <1>2, <1>0 DEF Spawn, history
  <2> QED BY <2>2, <2>3
<1>3. CASE CdpReady(h)
  BY <1>3, <1>0 DEF CdpReady, processes, exits, liveness, history
<1>4. CASE CdpTimesOut(h)
  <2>1. BeginKill(h, Current(h), "giveUp")
    BY <1>4 DEF CdpTimesOut
  <2>2. /\ isKillExpected' \subseteq Instances
        /\ marker' \in [Ports -> Instances \cup {Nil}]
        /\ serverOpen' \subseteq Instances
    BY <1>0, <2>1, BeginKillTypes
  <2> QED BY <1>4, <2>2 DEF CdpTimesOut, processes, history
<1>5. CASE VaultReady(h)
  BY <1>5, <1>0 DEF VaultReady, processes, exits, liveness, history
<1>6. CASE VaultNotReady(h)
  <2>1. BeginKill(h, Current(h), "relaunch")
    BY <1>6 DEF VaultNotReady
  <2>2. /\ isKillExpected' \subseteq Instances
        /\ marker' \in [Ports -> Instances \cup {Nil}]
        /\ serverOpen' \subseteq Instances
    BY <1>0, <2>1, BeginKillTypes
  <2> QED BY <1>6, <2>2 DEF VaultNotReady, processes, history
<1>7. CASE RegistrationThrows(h)
  BY <1>7, <1>0 DEF RegistrationThrows, processes, exits, liveness, history
<1>8. CASE QueryOwners(h)
  <2>1. UnseenHeirs \subseteq Instances
    BY DEF UnseenHeirs
  <2>2. troubles' \in 0..TroubleLimit
    BY <1>8, TroubleTypes DEF QueryOwners
  <2> QED BY <1>8, <2>1, <2>2 DEF QueryOwners, processes, exits, liveness
<1>9. CASE KillChild(h)
  <2>1. Kill(h, {Child(Current(h))})
    BY <1>9 DEF KillChild
  <2>2. Shrinks /\ lapses' \subseteq Harnesses /\ troubles' \in 0..TroubleLimit
    BY <2>1, KillShrinks
  <2>3. ProcessTypes'
    BY <1>9, <2>2, ShrinksIsTyped DEF KillChild
  <2>4. WatchdogTypes'
    BY <1>9, <2>2 DEF KillChild, Shrinks
  <2> QED BY <2>3, <2>4
<1>10. CASE KillOwners(h)
  <2>1. Kill(h, found[h])
    BY <1>10 DEF KillOwners
  <2>2. Shrinks /\ lapses' \subseteq Harnesses /\ troubles' \in 0..TroubleLimit
    BY <2>1, KillShrinks
  <2>3. ProcessTypes'
    BY <1>10, <2>2, ShrinksIsTyped DEF KillOwners
  <2>4. WatchdogTypes'
    BY <1>10, <2>2 DEF KillOwners, Shrinks
  <2> QED BY <2>3, <2>4
<1>11. CASE InstanceExited(h)
  BY <1>11, <1>0 DEF InstanceExited, processes, exits, liveness, history
<1>12. CASE ExitUnverified(h)
  BY <1>12, <1>0 DEF ExitUnverified, processes, exits, liveness, history
<1>13. CASE DisposeInstance(h)
  <2>1. CASE owned[h] # Nil
    <3>1. owned[h] \in Instances /\ BeginKill(h, owned[h], "dispose")
      BY <1>13, <1>0, <2>1 DEF DisposeInstance, PlanOf
    <3>2. /\ isKillExpected' \subseteq Instances
          /\ marker' \in [Ports -> Instances \cup {Nil}]
          /\ serverOpen' \subseteq Instances
      BY <3>1, BeginKillTypes
    <3> QED BY <1>13, <3>2 DEF DisposeInstance, processes, history
  <2>2. CASE owned[h] = Nil
    BY <1>13, <2>2 DEF DisposeInstance, processes, history
  <2> QED BY <2>1, <2>2
<1>14. CASE Recheck(h)
  <2>1. UnseenHeirs \subseteq Instances
    BY DEF UnseenHeirs
  <2>2. CASE OwnersOf(CdpPort(h)) = {} \/ round[h] = RoundLimit
    <3>1. UNCHANGED <<alive, listener, exitPending, watchdog, troubles>> /\ lapses' \subseteq Harnesses
      BY <1>14, <2>2 DEF Recheck
    <3> QED BY <1>14, <2>1, <3>1 DEF Recheck
  <2>3. CASE ~(OwnersOf(CdpPort(h)) = {} \/ round[h] = RoundLimit)
    <3>1. Kill(h, OwnersOf(CdpPort(h)))
      BY <1>14, <2>3 DEF Recheck
    <3>2. Shrinks /\ lapses' \subseteq Harnesses /\ troubles' \in 0..TroubleLimit
      BY <3>1, KillShrinks
    <3>3. ProcessTypes'
      BY <1>14, <3>2, ShrinksIsTyped DEF Recheck
    <3>4. WatchdogTypes'
      BY <1>14, <2>1, <3>2 DEF Recheck, Shrinks
    <3> QED BY <3>3, <3>4
  <2> QED BY <2>2, <2>3
<1> QED BY <1>1, <1>2, <1>3, <1>4, <1>5, <1>6, <1>7, <1>8, <1>9, <1>10, <1>11, <1>12, <1>13, <1>14 DEF
           HarnessStep

\* What disposeSync does.
LEMMA ExitWithInstanceIs ==
  ASSUME InstanceTypes, Plans, NEW h \in Harnesses, ExitWithInstance(h)
  PROVE  /\ owned[h] = Current(h) /\ CdpPort(h) \in Ports /\ phase'[h] = "dead"
         /\ isKillExpected' = isKillExpected \cup {Current(h)}
         /\ marker' = [marker EXCEPT ![CdpPort(h)] = Nil]
         /\ Shrinks /\ lapses \subseteq lapses' /\ lapses' \subseteq Harnesses
         /\ troubles' \in 0..TroubleLimit
<1>1. owned[h] = Current(h) /\ CdpPort(h) \in Ports
  BY DEF ExitWithInstance, Plans, PlanOf
<1>2. Shrinks /\ lapses \subseteq lapses' /\ lapses' \subseteq Harnesses /\ troubles' \in 0..TroubleLimit
  BY KillShrinks DEF ExitWithInstance
<1>3. phase'[h] = "dead"
  BY DEF ExitWithInstance, ProcessEnds, HarnessGoto, InstanceTypes, HarnessTypes
<1> QED BY <1>1, <1>2, <1>3 DEF ExitWithInstance, CdpPort

LEMMA DyingProcessTypes ==
  ASSUME InstanceTypes, Plans, NEW h \in Harnesses, Crash(h) \/ ExitWithInstance(h)
  PROVE  ProcessTypes' /\ WatchdogTypes'
<1> USE DEF InstanceTypes, ProcessTypes, WatchdogTypes
<1>1. CASE Crash(h)
  BY <1>1 DEF Crash, ProcessEnds, processes, exits, history
<1>2. CASE ExitWithInstance(h)
  <2>1. UnseenHeirs \subseteq Instances /\ Current(h) \in Instances
    BY CurrentIs DEF UnseenHeirs
  <2>2. ProcessTypes'
    <3>1. isKillExpected' \subseteq Instances /\ marker' \in [Ports -> Instances \cup {Nil}] /\ port' = port
      BY <1>2, <2>1, ExitWithInstanceIs DEF ExitWithInstance
    <3> QED BY <1>2, <3>1, ExitWithInstanceIs DEF Shrinks
  <2>3. WatchdogTypes'
    BY <1>2, <2>1, ExitWithInstanceIs DEF ExitWithInstance, ProcessEnds, Shrinks
  <2> QED BY <2>2, <2>3
<1> QED BY <1>1, <1>2

LEMMA WatchdogStepTypes ==
  ASSUME InstanceTypes, NEW i \in Instances, WatchdogStep(i)
  PROVE  ProcessTypes' /\ WatchdogTypes'
<1> USE DEF InstanceTypes, ProcessTypes, WatchdogTypes
<1>1. CASE WatchdogConnects(i)
  BY <1>1 DEF WatchdogConnects, processes, exits, history
<1>2. CASE ConnectionCloses(i)
  <2>1. troubles' \in 0..TroubleLimit
    BY <1>2, TroubleTypes DEF ConnectionCloses
  <2>2. probes' \in [Instances -> 0..ProbeLimit]
    BY <1>2, OwnedConstants DEF ConnectionCloses
  <2> QED BY <1>2, <2>1, <2>2 DEF ConnectionCloses, processes, exits, history
<1>3. CASE ProbeAnswered(i)
  <2>1. troubles' \in 0..TroubleLimit
    BY <1>3, TroubleTypes DEF ProbeAnswered
  <2> QED BY <1>3, <2>1 DEF ProbeAnswered, processes, exits, history
<1>4. CASE ProbeRefused(i)
  <2>1. refusals' \in 0..RefusalLimit
    BY <1>4, OwnedConstants DEF ProbeRefused
  <2>2. CASE LastProbe(i)
    <3>1. Shrinks /\ UNCHANGED probes
      BY <1>4, <2>2, DieShrinks DEF ProbeRefused
    <3>2. ProcessTypes'
      BY <1>4, <3>1, ShrinksIsTyped DEF ProbeRefused
    <3>3. WatchdogTypes'
      BY <1>4, <2>1, <3>1 DEF ProbeRefused, Shrinks, history
    <3> QED BY <3>2, <3>3
  <2>3. CASE ~LastProbe(i)
    <3>1. probes' = [probes EXCEPT ![i] = @ + 1] /\ UNCHANGED <<alive, listener, exitPending, watchdog>>
          /\ probes[i] \in 0..ProbeLimit /\ probes[i] < ProbeLimit
      BY <1>4, <2>3 DEF ProbeRefused
    <3>2. probes[i] + 1 \in 0..ProbeLimit
      BY <3>1, OwnedConstants
    <3> QED BY <1>4, <2>1, <3>1, <3>2 DEF ProbeRefused, history
  <2> QED BY <2>2, <2>3
<1> QED BY <1>1, <1>2, <1>3, <1>4 DEF WatchdogStep

LEMMA ObsidianTypes ==
  ASSUME InstanceTypes, Launches,
         \/ \E i \in Instances : HandOff(i) \/ HandleExit(i)
         \/ \E q \in Processes : Bind(q) \/ InstanceDies(q)
  PROVE  ProcessTypes' /\ WatchdogTypes'
<1> USE DEF InstanceTypes, ProcessTypes, WatchdogTypes
<1>1. ASSUME NEW i \in Instances, HandOff(i) PROVE ProcessTypes' /\ WatchdogTypes'
  <2>1. troubles' \in 0..TroubleLimit
    BY <1>1, TroubleTypes DEF HandOff
  <2>2. alive' = (alive \ {Child(i)}) \cup {Heir(i)} /\ alive' \subseteq Processes
    BY <1>1, ProcessFacts DEF HandOff
  <2>3. /\ listener' \in [Ports -> Processes \cup {Nil}]
        /\ \A p \in Ports : listener'[p] # Nil => listener'[p] \in alive'
    BY <1>1, <2>2 DEF HandOff
  <2>4. ProcessTypes'
    BY <1>1, <2>2, <2>3 DEF HandOff
  <2>5. WatchdogTypes'
    BY <1>1, <2>1 DEF HandOff
  <2> QED BY <2>4, <2>5
<1>2. ASSUME NEW i \in Instances, HandleExit(i) PROVE ProcessTypes' /\ WatchdogTypes'
  <2>1. port[i] \in Ports
    BY <1>2 DEF HandleExit, Launches
  <2> QED BY <1>2, <2>1 DEF HandleExit, processes, liveness
<1>3. ASSUME NEW q \in Processes, Bind(q) PROVE ProcessTypes' /\ WatchdogTypes'
  BY <1>3 DEF Bind, exits, liveness, history
<1>4. ASSUME NEW q \in Processes, InstanceDies(q) PROVE ProcessTypes' /\ WatchdogTypes'
  <2>1. Shrinks /\ troubles' \in 0..TroubleLimit
    BY <1>4, DieShrinks, TroubleTypes DEF InstanceDies
  <2>2. ProcessTypes'
    BY <1>4, <2>1, ShrinksIsTyped DEF InstanceDies
  <2>3. WatchdogTypes'
    BY <1>4, <2>1 DEF InstanceDies, Shrinks, history
  <2> QED BY <2>2, <2>3
<1> QED BY <1>1, <1>2, <1>3, <1>4

-----------------------------------------------------------------------------
(* What most steps of a harness do to the instances.                       *)

\* Nothing is launched and no watchdog is armed; processes may end.
Quiet ==
  /\ Shrinks /\ port' = port /\ probes' = probes /\ serverOpen' \subseteq serverOpen
  /\ late' = late /\ lapses \subseteq lapses' /\ unseen \subseteq unseen'
  /\ refusals' \in {refusals, refusals + 1}

\* How a step of h that is not the launch goes on.
QuietOf(h) ==
  /\ phase[h] # "dead"
  /\ \/ isKillExpected' = isKillExpected /\ marker' = marker
     \/ /\ isKillExpected' = isKillExpected \cup {Current(h)}
        /\ marker' = [marker EXCEPT ![CdpPort(h)] = Nil]
        /\ phase'[h] \notin Launching
  /\ \/ attempt' = attempt /\ phase'[h] \notin {"idle", "picked"}
     \/ attempt'[h] = attempt[h] + 1 /\ phase'[h] = "idle" /\ phase[h] = "exiting"
        /\ isKillExpected' = isKillExpected
  /\ phase'[h] \in {"booting", "launched", "up"} => phase[h] \in {"booting", "launched", "up"}

QuietStep(h) ==
  \/ HarnessStep(h) /\ ~(pickFreePort(h) \/ Spawn(h) \/ VaultReady(h))
  \/ Crash(h) \/ ExitWithInstance(h)

\* All steps of a harness but three are quiet.
LEMMA QuietSteps ==
  ASSUME InstanceTypes, Plans, NEW h \in Harnesses, QuietStep(h)
  PROVE  Quiet /\ QuietOf(h)
<1>0. /\ HarnessTypes /\ PlanOf(h) /\ Current(h) \in Instances
      /\ phase \in [Harnesses -> Location] /\ attempt \in [Harnesses -> Nat]
  BY CurrentIs DEF InstanceTypes, HarnessTypes, Plans
<1> USE DEF Quiet, QuietOf, Launching
<1>1. CASE CdpReady(h)
  <2>1. HarnessGoto(h, "launched")
    BY <1>1 DEF CdpReady
  <2>2. phase'[h] = "launched"
    BY <1>0, <2>1, GoingIsTyped, LocationsAre
  <2>3. Shrinks
    BY <1>1, NothingShrinks DEF CdpReady, processes, exits, liveness, history
  <2> QED BY <1>1, <1>0, <2>2, <2>3 DEF CdpReady, CdpPort, processes, exits, liveness, history
<1>2. CASE CdpTimesOut(h)
  <2>1. HarnessGoto(h, "querying")
    BY <1>2 DEF CdpTimesOut, BeginKill
  <2>2. phase'[h] = "querying"
    BY <1>0, <2>1, GoingIsTyped, LocationsAre
  <2>3. Shrinks
    BY <1>2, NothingShrinks DEF CdpTimesOut, BeginKill, processes, exits, liveness, history
  <2> QED BY <1>2, <1>0, <2>2, <2>3 DEF CdpTimesOut, BeginKill, CdpPort, processes, exits, liveness, history
<1>3. CASE VaultNotReady(h)
  <2>1. HarnessGoto(h, "querying")
    BY <1>3 DEF VaultNotReady, BeginKill
  <2>2. phase'[h] = "querying"
    BY <1>0, <2>1, GoingIsTyped, LocationsAre
  <2>3. Shrinks
    BY <1>3, NothingShrinks DEF VaultNotReady, BeginKill, processes, exits, liveness, history
  <2> QED BY <1>3, <1>0, <2>2, <2>3 DEF VaultNotReady, BeginKill, CdpPort, processes, exits, liveness,
             history
<1>4. CASE RegistrationThrows(h)
  <2>1. HarnessGoto(h, "failed")
    BY <1>4 DEF RegistrationThrows
  <2>2. phase'[h] = "failed"
    BY <1>0, <2>1, GoingIsTyped, LocationsAre
  <2>3. Shrinks
    BY <1>4, NothingShrinks DEF RegistrationThrows, processes, exits, liveness, history
  <2> QED BY <1>4, <1>0, <2>2, <2>3 DEF RegistrationThrows, CdpPort, processes, exits, liveness, history
<1>5. CASE QueryOwners(h)
  <2>1. HarnessGoto(h, "killing")
    BY <1>5 DEF QueryOwners
  <2>2. phase'[h] = "killing"
    BY <1>0, <2>1, GoingIsTyped, LocationsAre
  <2>3. Shrinks
    BY <1>5, NothingShrinks DEF QueryOwners, processes, exits, liveness, history
  <2> QED BY <1>5, <1>0, <2>2, <2>3 DEF QueryOwners, CdpPort, processes, exits, liveness, history
<1>6. CASE KillChild(h)
  <2>1. phase'[h] = "reaping"
    BY <1>6, <1>0, GoingIsTyped, LocationsAre DEF KillChild
  <2>2. Shrinks /\ lapses \subseteq lapses'
    BY <1>6, KillShrinks DEF KillChild
  <2> QED BY <1>6, <1>0, <2>1, <2>2 DEF KillChild
<1>7. CASE KillOwners(h)
  <2>1. phase'[h] \in {"exiting", "failed", "rechecking"}
    BY <1>7, <1>0, AfterKillGoes, GoingIsTyped, LocationsAre DEF KillOwners
  <2>2. Shrinks /\ lapses \subseteq lapses'
    BY <1>7, KillShrinks DEF KillOwners
  <2> QED BY <1>7, <1>0, <2>1, <2>2 DEF KillOwners
<1>8. CASE InstanceExited(h)
  <2>1. Shrinks
    BY <1>8, NothingShrinks DEF InstanceExited, processes, exits, liveness, history
  <2>2. \/ attempt' = attempt /\ phase'[h] = "failed"
        \/ attempt'[h] = attempt[h] + 1 /\ phase'[h] = "idle"
    BY <1>8, <1>0, GoingIsTyped, LocationsAre DEF InstanceExited, Relaunch
  <2> QED BY <1>8, <1>0, <2>1, <2>2 DEF InstanceExited, processes, exits, liveness, history
<1>9. CASE ExitUnverified(h)
  <2>1. Shrinks
    BY <1>9, NothingShrinks DEF ExitUnverified, processes, exits, liveness, history
  <2>2. \/ attempt' = attempt /\ phase'[h] = "failed"
        \/ attempt'[h] = attempt[h] + 1 /\ phase'[h] = "idle"
    BY <1>9, <1>0, GoingIsTyped, LocationsAre DEF ExitUnverified, Relaunch
  <2> QED BY <1>9, <1>0, <2>1, <2>2 DEF ExitUnverified, processes, exits, liveness, history
<1>10. CASE DisposeInstance(h)
  <2>1. Shrinks
    BY <1>10, NothingShrinks DEF DisposeInstance, processes, history
  <2>2. CASE owned[h] # Nil
    <3>1. owned[h] = Current(h) /\ BeginKill(h, Current(h), "dispose")
      BY <1>10, <1>0, <2>2 DEF DisposeInstance, PlanOf
    <3>2. phase'[h] = "querying"
      BY <1>0, <3>1, GoingIsTyped, LocationsAre DEF BeginKill
    <3> QED BY <1>10, <1>0, <2>1, <3>1, <3>2 DEF DisposeInstance, BeginKill, CdpPort, processes, history
  <2>3. CASE owned[h] = Nil
    <3>1. phase'[h] = "ended"
      BY <1>10, <1>0, <2>3, GoingIsTyped, LocationsAre DEF DisposeInstance
    <3> QED BY <1>10, <1>0, <2>1, <2>3, <3>1 DEF DisposeInstance, processes, history
  <2> QED BY <2>2, <2>3
<1>11. CASE Recheck(h)
  <2>1. CASE OwnersOf(CdpPort(h)) = {} \/ round[h] = RoundLimit
    <3>1. phase'[h] = "ended"
      BY <1>11, <1>0, <2>1, GoingIsTyped, LocationsAre DEF Recheck
    <3>2. Shrinks /\ lapses \subseteq lapses'
      BY <1>11, <2>1, NothingShrinks DEF Recheck
    <3> QED BY <1>11, <1>0, <3>1, <3>2 DEF Recheck
  <2>2. CASE ~(OwnersOf(CdpPort(h)) = {} \/ round[h] = RoundLimit)
    <3>1. phase'[h] = "rechecking"
      BY <1>11, <2>2 DEF Recheck
    <3>2. Shrinks /\ lapses \subseteq lapses'
      BY <1>11, <2>2, KillShrinks DEF Recheck
    <3> QED BY <1>11, <1>0, <3>1, <3>2 DEF Recheck
  <2> QED BY <2>1, <2>2
<1>12. CASE Crash(h)
  <2>1. phase'[h] = "dead"
    BY <1>12, <1>0, GoingIsTyped, LocationsAre DEF Crash, ProcessEnds
  <2>2. Shrinks
    BY <1>12, NothingShrinks DEF Crash, processes, exits
  <2> QED BY <1>12, <1>0, <2>1, <2>2 DEF Crash, ProcessEnds, processes, exits, history
<1>13. CASE ExitWithInstance(h)
  <2> QED BY <1>13, ExitWithInstanceIs DEF ExitWithInstance, ProcessEnds, Running
<1> QED BY <1>1, <1>2, <1>3, <1>4, <1>5, <1>6, <1>7, <1>8, <1>9, <1>10, <1>11, <1>12, <1>13 DEF QuietStep,
           HarnessStep

LEMMA CurrentsDiffer ==
  ASSUME HarnessTypes, NEW h \in Harnesses, NEW g \in Harnesses \ {h}
  PROVE  Current(g) # Current(h) /\ Current(g) \in Instances /\ Harness(Current(g)) = g
<1> QED BY CurrentIs

LEMMA FrameCurrents ==
  ASSUME NEW h \in Harnesses, HarnessFrame(h)
  PROVE  \A g \in Harnesses \ {h} : Current(g)' = Current(g) /\ phase'[g] = phase[g]
<1> QED BY DEF HarnessFrame, Current

LEMMA LivingShrink ==
  ASSUME Shrinks
  PROVE  \A i \in Instances : Lives(i)' => Lives(i)
<1> QED BY DEF Shrinks, Lives

LEMMA QuietFresh ==
  ASSUME Quiet, NEW i \in Instances, Fresh(i), i \notin isKillExpected'
  PROVE  Fresh(i)'
<1> QED BY DEF Quiet, Shrinks, Fresh

LEMMA QuietSuccession ==
  ASSUME Quiet, Launches
  PROVE  \A i \in Instances :
           /\ Heir(i) \in alive' \/ i \in exitPending' => Child(i) \notin alive'
           /\ Lives(i)' \/ i \in exitPending' => port'[i] \in Ports
<1> SUFFICES ASSUME NEW i \in Instances
             PROVE  /\ Heir(i) \in alive' \/ i \in exitPending' => Child(i) \notin alive'
                    /\ Lives(i)' \/ i \in exitPending' => port'[i] \in Ports
  OBVIOUS
<1>1. /\ Heir(i) \in alive \/ i \in exitPending => Child(i) \notin alive
      /\ Lives(i) \/ i \in exitPending => port[i] \in Ports
  BY DEF Launches
<1>2. /\ alive' \subseteq alive /\ port' = port
      /\ i \in exitPending' => i \in exitPending \/ Child(i) \in alive \ alive'
  BY DEF Quiet, Shrinks
<1> QED BY <1>1, <1>2 DEF Lives

\* Quiet steps keep the invariant, one part after the other.
LEMMA QuietLaunches ==
  ASSUME InstanceTypes, HarnessTypes', Launches, NEW h \in Harnesses, HarnessFrame(h), Quiet, QuietOf(h)
  PROVE  Launches'
<1>0. /\ HarnessTypes /\ attempt[h] \in Nat
      /\ \A i \in Instances :
           Harness(i) \in Harnesses /\ attempt[Harness(i)] \in Nat /\ attempt'[Harness(i)] \in Nat
      /\ \A i \in Instances : i[2] \in Nat
  BY InstanceFacts DEF InstanceTypes, HarnessTypes
<1>1. \A i \in Instances : attempt'[Harness(i)] < i[2] => attempt[Harness(i)] < i[2]
  <2>1. \A i \in Instances : \/ attempt'[Harness(i)] = attempt[Harness(i)]
                             \/ attempt'[Harness(i)] = attempt[Harness(i)] + 1
    BY <1>0 DEF HarnessFrame, QuietOf
  <2> QED BY <1>0, <2>1
<1>2. /\ isKillExpected' \subseteq isKillExpected \cup {Current(h)}
      /\ Current(h)[2] = attempt[h] /\ Harness(Current(h)) = h /\ Current(h) \in Instances
  BY <1>0, CurrentIs DEF QuietOf
<1>3. ASSUME NEW i \in Instances, attempt[Harness(i)] < i[2]
      PROVE  Fresh(i)' /\ port'[i] = Nil
  <2>1. Fresh(i) /\ port[i] = Nil /\ i # Current(h)
    BY <1>0, <1>2, <1>3 DEF Launches
  <2>2. i \notin isKillExpected'
    BY <1>2, <2>1 DEF Fresh
  <2> QED BY <2>1, <2>2, QuietFresh DEF Quiet
<1>4. ASSUME NEW g \in Harnesses, phase'[g] \in {"idle", "picked"} PROVE Fresh(Current(g))'
  <2>1. CASE g = h
    <3>1. attempt'[h] = attempt[h] + 1
      BY <1>4, <2>1 DEF QuietOf
    <3>2. Current(h)' \in Instances /\ Harness(Current(h)') = h /\ Current(h)'[2] = attempt[h] + 1
      BY <3>1, InstanceFacts DEF HarnessTypes, Current
    <3>3. PICK i \in Instances : i = Current(h)'
      BY <3>2
    <3> QED BY <1>0, <1>3, <2>1, <3>2, <3>3
  <2>2. CASE g # h
    <3>1. /\ Current(g)' = Current(g)
          /\ phase'[g] = phase[g]
          /\ Current(g) \in Instances
          /\ Current(g) # Current(h)
      BY <1>0, <2>2, FrameCurrents, CurrentsDiffer
    <3>2. PICK i \in Instances : i = Current(g)
      BY <3>1
    <3>3. Fresh(i)
      BY <1>4, <3>1, <3>2 DEF Launches
    <3>4. i \notin isKillExpected'
      BY <1>2, <3>1, <3>2, <3>3 DEF Fresh
    <3> QED BY <3>1, <3>2, <3>3, <3>4, QuietFresh
  <2> QED BY <2>1, <2>2
<1>5. ASSUME NEW g \in Harnesses, phase'[g] \in Launching PROVE Current(g)' \notin isKillExpected'
  <2>1. CASE g = h
    <3>1. CASE phase'[h] \in {"idle", "picked"}
      BY <1>4, <2>1, <3>1 DEF Fresh
    <3>2. CASE phase'[h] \notin {"idle", "picked"}
      <4>1. attempt' = attempt /\ phase[h] \in Launching /\ isKillExpected' = isKillExpected
        BY <1>5, <2>1, <3>2 DEF QuietOf, Launching
      <4> QED BY <2>1, <4>1 DEF Launches, Current
    <3> QED BY <3>1, <3>2
  <2>2. CASE g # h
    <3>1. Current(g)' = Current(g) /\ phase'[g] = phase[g] /\ Current(g) # Current(h)
      BY <1>0, <2>2, FrameCurrents, CurrentsDiffer
    <3> QED BY <1>2, <1>5, <3>1 DEF Launches
  <2> QED BY <2>1, <2>2
<1>6. ASSUME NEW i \in Instances, attempt'[Harness(i)] < i[2] PROVE Fresh(i)' /\ port'[i] = Nil
  BY <1>1, <1>3, <1>6
<1>7. \A i \in Instances :
        /\ Heir(i) \in alive' \/ i \in exitPending' => Child(i) \notin alive'
        /\ Lives(i)' \/ i \in exitPending' => port'[i] \in Ports
  BY QuietSuccession
<1> QED BY <1>4, <1>5, <1>6, <1>7 DEF Launches

LEMMA QuietEarlierEnded ==
  ASSUME InstanceTypes, Kills, EarlierEnded, NEW h \in Harnesses, HarnessFrame(h), Quiet, QuietOf(h)
  PROVE  EarlierEnded'
<1> SUFFICES ASSUME NEW i \in Instances, Lives(i)'
             PROVE  attempt'[Harness(i)] <= i[2] \/ Excused(i)' \/ phase'[Harness(i)] = "dead"
  BY DEF EarlierEnded
<1>0. /\ HarnessTypes /\ Harness(i) \in Harnesses /\ attempt[Harness(i)] \in Nat /\ i[2] \in Nat
      /\ i = <<Harness(i), i[2]>>
  BY InstanceFacts DEF InstanceTypes, HarnessTypes
<1>1. Lives(i)
  BY LivingShrink DEF Quiet
<1>2. attempt[Harness(i)] <= i[2] \/ Excused(i) \/ phase[Harness(i)] = "dead"
  BY <1>1 DEF EarlierEnded
<1>3. Excused(i) => Excused(i)'
  BY DEF Excused, Quiet
<1>4. CASE Harness(i) # h
  BY <1>0, <1>2, <1>3, <1>4 DEF HarnessFrame
<1>5. CASE Harness(i) = h
  <2>1. CASE attempt' = attempt
    BY <1>2, <1>3, <1>5, <2>1 DEF QuietOf
  <2>2. CASE attempt'[h] = attempt[h] + 1 /\ phase[h] = "exiting"
    <3>1. i = Current(h) => Excused(i)
      BY <1>1, <1>5, <2>2 DEF Kills, KillOf
    <3>2. attempt[h] = i[2] => i = Current(h)
      BY <1>0, <1>5 DEF Current
    <3> QED BY <1>0, <1>2, <1>3, <1>5, <2>2, <3>1, <3>2
  <2> QED BY <2>1, <2>2 DEF QuietOf
<1> QED BY <1>4, <1>5

LEMMA QuietMarkers ==
  ASSUME InstanceTypes, Plans, Launches, Markers, NEW h \in Harnesses, Quiet, QuietOf(h)
  PROVE  Markers'
<1> SUFFICES ASSUME NEW i \in Instances, Lives(i)', marker'[port'[i]] # Nil
             PROVE  (marker'[port'[i]] = i /\ Child(i) \notin alive') \/ port'[i] \in late'
  BY DEF Markers
<1>1. /\ Lives(i) /\ port'[i] = port[i] /\ late' = late /\ alive' \subseteq alive
      /\ marker \in [Ports -> Instances \cup {Nil}]
  BY LivingShrink DEF Quiet, Shrinks, InstanceTypes, ProcessTypes
<1>2. port[i] \in Ports
  BY <1>1 DEF Launches
<1>3. marker'[port[i]] = marker[port[i]]
  BY <1>1, <1>2 DEF QuietOf
<1> QED BY <1>1, <1>3 DEF Markers

LEMMA QuietDeathsOnRecord ==
  ASSUME InstanceTypes, Plans, DeathsOnRecord, NEW h \in Harnesses, HarnessFrame(h), Quiet, QuietOf(h)
  PROVE  DeathsOnRecord'
<1> SUFFICES ASSUME NEW g \in Harnesses, phase'[g] \in {"booting", "launched", "up"},
                    Child(Current(g)') \notin alive', Current(g)' \notin exitPending'
             PROVE  marker'[CdpPort(g)'] = Current(g)' \/ SharesPort(Current(g))'
  BY DEF DeathsOnRecord, Child
<1>0. HarnessTypes /\ marker \in [Ports -> Instances \cup {Nil}] /\ port' = port
  BY DEF InstanceTypes, ProcessTypes, Quiet
<1>1. phase[g] \in {"booting", "launched", "up"} /\ Current(g)' = Current(g)
  BY FrameCurrents DEF QuietOf, Current
<1>2. Current(g) \in Instances /\ CdpPort(g) \in Ports
  BY <1>0, <1>1, CurrentIs DEF Plans, PlanOf
<1>3. Child(Current(g)) \notin alive /\ Current(g) \notin exitPending
  BY <1>1, <1>2 DEF Quiet, Shrinks
<1>4. marker[CdpPort(g)] = Current(g) \/ SharesPort(Current(g))
  BY <1>1, <1>3 DEF DeathsOnRecord
<1>5. CdpPort(g)' = CdpPort(g) /\ (SharesPort(Current(g)) => SharesPort(Current(g))')
  BY <1>0, <1>1 DEF CdpPort, SharesPort
<1>6. CASE g = h
  BY <1>1, <1>4, <1>5, <1>6 DEF QuietOf, Launching
<1>7. CASE g # h
  <2>1. CASE CdpPort(g) = CdpPort(h)
    <3>1. Current(h) \in Instances \ {Current(g)}
      BY <1>0, <1>7, CurrentIs, CurrentsDiffer
    <3>2. SharesPort(Current(g))
      BY <2>1, <3>1 DEF SharesPort, CdpPort
    <3> QED BY <1>5, <3>2
  <2>2. CASE CdpPort(g) # CdpPort(h)
    <3>1. marker'[CdpPort(g)] = marker[CdpPort(g)]
      BY <1>0, <1>2, <2>2 DEF QuietOf
    <3> QED BY <1>1, <1>4, <1>5, <3>1
  <2> QED BY <2>1, <2>2
<1> QED BY <1>6, <1>7

LEMMA QuietProbed ==
  ASSUME InstanceTypes, Probed, Quiet
  PROVE  Probed'
<1>1. /\ refusals \in Nat /\ \A i \in serverOpen : probes[i] \in Nat
  BY OwnedConstants DEF InstanceTypes, WatchdogTypes
<1>2. probes' = probes /\ serverOpen' \subseteq serverOpen /\ refusals' \in {refusals, refusals + 1}
  BY DEF Quiet
<1> QED BY <1>1, <1>2 DEF Probed

\* The kill of a harness goes on as it was, and so does that of one that only loses processes.
LEMMA KillFrame ==
  ASSUME InstanceTypes, Kills, NEW g \in Harnesses, phase'[g] = phase[g], attempt'[g] = attempt[g],
         owned'[g] = owned[g], found'[g] = found[g], alive' \subseteq alive,
         lapses \subseteq lapses', unseen \subseteq unseen'
  PROVE  KillOf(g)'
<1>1. Current(g)' = Current(g)
  BY DEF Current
<1>2. KillOf(g)
  BY DEF Kills
<1>3. Excused(Current(g)) => Excused(Current(g))'
  BY <1>1 DEF Excused
<1> QED BY <1>1, <1>2, <1>3 DEF KillOf, Lives, Child, Heir

LEMMA QuietKills ==
  ASSUME InstanceTypes, Plans, Launches, Kills, NEW h \in Harnesses, HarnessFrame(h), Quiet, QuietStep(h)
  PROVE  Kills'
<1>f. \A g \in Harnesses \ {h} : KillOf(g)'
  BY KillFrame DEF HarnessFrame, Quiet, Shrinks
<1>0. /\ HarnessTypes /\ PlanOf(h) /\ KillOf(h) /\ Current(h) \in Instances /\ Harness(Current(h)) = h
      /\ phase \in [Harnesses -> Location]
  BY CurrentIs DEF InstanceTypes, HarnessTypes, Plans, Kills
<1>q. /\ alive' \subseteq alive /\ lapses \subseteq lapses' /\ unseen \subseteq unseen'
  BY DEF Quiet, Shrinks
<1>s. attempt' = attempt => Current(h)' = Current(h)
  BY DEF Current
<1>p. ASSUME phase'[h] \in {"idle", "launched", "querying", "dead"} PROVE KillOf(h)'
  BY <1>p DEF KillOf
<1> SUFFICES KillOf(h)'
  BY <1>f DEF Kills
<1>1. CASE CdpReady(h)
  <2>1. phase'[h] = "launched"
    BY <1>1, <1>0, GoingIsTyped, LocationsAre DEF CdpReady
  <2> QED BY <2>1, <1>p
<1>2. CASE CdpTimesOut(h)
  <2>1. phase'[h] = "querying"
    BY <1>2, <1>0, GoingIsTyped, LocationsAre DEF CdpTimesOut, BeginKill
  <2> QED BY <2>1, <1>p
<1>3. CASE VaultNotReady(h)
  <2>1. phase'[h] = "querying"
    BY <1>3, <1>0, GoingIsTyped, LocationsAre DEF VaultNotReady, BeginKill
  <2> QED BY <2>1, <1>p
<1>4. CASE RegistrationThrows(h)
  <2>1. phase'[h] = "failed" /\ owned'[h] = Current(h) /\ Current(h) # Nil
    BY <1>4, <1>0, GoingIsTyped, LocationsAre, OwnedConstants DEF RegistrationThrows, PlanOf
  <2> QED BY <2>1, OwnedConstants DEF KillOf
<1>5. CASE QueryOwners(h)
  <2>1. phase'[h] = "killing" /\ attempt' = attempt /\ alive' = alive /\ unseen' = unseen \cup UnseenHeirs
    BY <1>5, <1>0, GoingIsTyped, LocationsAre DEF QueryOwners, processes
  <2>2. h \in lapses' \/ found' = [found EXCEPT ![h] = OwnersOf(CdpPort(h))]
    BY <1>5 DEF QueryOwners
  <2>3. ASSUME ~Excused(Current(h))', Heir(Current(h)) \in alive PROVE Heir(Current(h)) \in found'[h]
    <3>1. Current(h) \notin UnseenHeirs /\ h \notin lapses'
      BY <1>0, <1>s, <2>1, <2>3 DEF Excused
    <3>2. ServesItself(Current(h))
      BY <1>0, <2>3, <3>1 DEF UnseenHeirs
    <3>3. Child(Current(h)) \notin alive /\ CdpPort(h) \in Ports
      BY <1>5, <1>0, <2>3 DEF Launches, PlanOf, QueryOwners
    <3>4. listener[CdpPort(h)] # Nil => listener[CdpPort(h)] \in alive
      BY <3>3 DEF InstanceTypes, ProcessTypes
    <3>5. listener[CdpPort(h)] = Heir(Current(h))
      BY <1>0, <3>2, <3>3, <3>4, ProcessFacts, OwnedConstants DEF ServesItself, CdpPort
    <3>6. Heir(Current(h)) \in OwnersOf(CdpPort(h))
      BY <1>0, <3>5, ProcessFacts, OwnedConstants DEF OwnersOf
    <3> QED BY <2>2, <3>1, <3>6 DEF InstanceTypes, HarnessTypes
  <2> QED BY <1>s, <2>1, <2>3 DEF KillOf
<1>6. CASE KillChild(h)
  <2>1. phase'[h] = "reaping" /\ attempt' = attempt /\ found' = found /\ phase[h] = "killing"
    BY <1>6, <1>0, GoingIsTyped, LocationsAre DEF KillChild
  <2>2. Child(Current(h)) \notin alive' \/ h \in lapses'
    BY <1>6, KillShrinks DEF KillChild
  <2>3. Excused(Current(h)) => Excused(Current(h))'
    BY <1>q, <1>s, <2>1 DEF Excused
  <2> QED BY <1>0, <1>q, <1>s, <2>1, <2>2, <2>3 DEF KillOf, Excused
<1>7. CASE KillOwners(h)
  <2>1. phase'[h] \in {"exiting", "failed", "rechecking"} /\ attempt' = attempt /\ phase[h] = "reaping"
    BY <1>7, <1>0, AfterKillGoes, GoingIsTyped, LocationsAre DEF KillOwners
  <2>2. found[h] \cap alive' = {} \/ h \in lapses'
    BY <1>7, KillShrinks DEF KillOwners
  <2>3. Excused(Current(h)) => Excused(Current(h))'
    BY <1>q, <1>s, <2>1 DEF Excused
  <2>4. ~Excused(Current(h))' => ~Lives(Current(h))'
    BY <1>0, <1>q, <1>s, <2>1, <2>2, <2>3 DEF KillOf, Excused, Lives
  <2> QED BY <1>s, <2>1, <2>4 DEF KillOf
<1>8. CASE InstanceExited(h)
  <2>1. phase'[h] = "idle"
    BY <1>8, <1>0, GoingIsTyped, LocationsAre DEF InstanceExited, Relaunch
  <2> QED BY <2>1, <1>p
<1>9. CASE ExitUnverified(h)
  <2>1. phase'[h] = "idle" \/ (h \in lapses' /\ attempt' = attempt)
    BY <1>9, <1>0, GoingIsTyped, LocationsAre DEF ExitUnverified, Relaunch
  <2>2. CASE phase'[h] = "idle"
    BY <2>2, <1>p
  <2>3. CASE h \in lapses' /\ attempt' = attempt
    BY <1>0, <1>s, <2>3 DEF KillOf, Excused
  <2> QED BY <2>1, <2>2, <2>3
<1>10. CASE DisposeInstance(h)
  <2>1. CASE owned[h] # Nil
    <3>1. phase'[h] = "querying"
      BY <1>10, <1>0, <2>1, GoingIsTyped, LocationsAre DEF DisposeInstance, BeginKill
    <3> QED BY <3>1, <1>p
  <2>2. CASE owned[h] = Nil
    <3>1. phase[h] = "failed"
      BY <1>10, <1>0, <2>2, OwnedConstants DEF DisposeInstance, PlanOf
    <3>2. attempt' = attempt /\ phase'[h] = "ended"
      BY <1>10, <1>0, <2>2, GoingIsTyped, LocationsAre DEF DisposeInstance
    <3>3. Excused(Current(h)) => Excused(Current(h))'
      BY <1>q, <1>s, <3>2 DEF Excused
    <3> QED BY <1>0, <1>q, <1>s, <2>2, <3>1, <3>2, <3>3 DEF KillOf, Lives
  <2> QED BY <2>1, <2>2
<1>11. CASE Recheck(h)
  <2>1. phase[h] = "rechecking" /\ phase'[h] \in {"rechecking", "ended"} /\ attempt' = attempt
    BY <1>11, <1>0, GoingIsTyped, LocationsAre DEF Recheck
  <2>2. Excused(Current(h)) => Excused(Current(h))'
    BY <1>q, <1>s, <2>1 DEF Excused
  <2> QED BY <1>0, <1>q, <1>s, <2>1, <2>2 DEF KillOf, Lives
<1>12. CASE Crash(h)
  <2>1. phase'[h] = "dead"
    BY <1>12, <1>0, GoingIsTyped, LocationsAre DEF Crash, ProcessEnds
  <2> QED BY <2>1, <1>p
<1>13. CASE ExitWithInstance(h)
  BY <1>13, <1>p, ExitWithInstanceIs
<1> QED BY <1>1, <1>2, <1>3, <1>4, <1>5, <1>6, <1>7, <1>8, <1>9, <1>10, <1>11, <1>12, <1>13 DEF QuietStep,
           HarnessStep

-----------------------------------------------------------------------------
(* The launch.                                                             *)

\* A port is picked; an instance is spawned on it, whose marker is cleared; its watchdog is armed.
LEMMA PickingKeeps ==
  ASSUME InstanceIInv, NEW h \in Harnesses, HarnessFrame(h), pickFreePort(h)
  PROVE  Launches' /\ Kills' /\ EarlierEnded' /\ Markers' /\ DeathsOnRecord' /\ Probed'
<1>0. /\ InstanceTypes /\ HarnessTypes /\ Plans /\ Launches /\ PlanOf(h)
      /\ Current(h) \in Instances /\ Harness(Current(h)) = h /\ Current(h)[2] = attempt[h]
      /\ attempt[h] \in Nat /\ port \in [Instances -> Ports \cup {Nil}]
  BY CurrentIs DEF InstanceIInv, InstanceTypes, HarnessTypes, ProcessTypes, Plans
<1>1. /\ phase[h] = "idle" /\ phase'[h] = "picked" /\ attempt' = attempt
      /\ UNCHANGED <<owned, found, alive, exits, liveness, history>>
      /\ \E p \in Ports : port' = [port EXCEPT ![Current(h)] = p]
  BY <1>0, GoingIsTyped, LocationsAre DEF pickFreePort
<1>2. Fresh(Current(h)) /\ port[Current(h)] = Nil /\ ~Lives(Current(h))
  BY <1>0, <1>1 DEF Launches, PlanOf, CdpPort, Fresh, Lives
<1>3. /\ \A i \in Instances \ {Current(h)} : port'[i] = port[i]
      /\ port'[Current(h)] \in Ports
  BY <1>0, <1>1
<1>4. \A g \in Harnesses : Current(g)' = Current(g)
  BY <1>1 DEF Current
<1>5. \A i \in Instances :
        (Fresh(i)' <=> Fresh(i)) /\ (Lives(i)' <=> Lives(i)) /\ (Excused(i)' <=> Excused(i))
  BY <1>1 DEF Fresh, Lives, Excused, exits, liveness, history
<1>6. Launches'
  <2>1. \A i \in Instances : attempt[Harness(i)] < i[2] => i # Current(h)
    BY <1>0
  <2>2. \A i \in Instances : attempt'[Harness(i)] < i[2] => Fresh(i)' /\ port'[i] = Nil
    BY <1>0, <1>1, <1>3, <1>5, <2>1 DEF Launches
  <2>3. \A g \in Harnesses : Current(g) \in Instances
    BY <1>0, CurrentIs
  <2>4. \A g \in Harnesses : phase'[g] \in {"idle", "picked"} => Fresh(Current(g))
    BY <1>0, <1>1, <1>2 DEF HarnessFrame, Launches
  <2>5. \A g \in Harnesses : phase'[g] \in {"idle", "picked"} => Fresh(Current(g))'
    BY <1>1, <2>4 DEF Fresh, Current, exits, liveness
  <2>6. \A g \in Harnesses : phase'[g] \in Launching => Current(g)' \notin isKillExpected'
    BY <1>0, <1>1, <1>4 DEF HarnessFrame, Launches, Launching, exits
  <2>7. \A i \in Instances :
          /\ Heir(i) \in alive' \/ i \in exitPending' => Child(i) \notin alive'
          /\ Lives(i)' \/ i \in exitPending' => port'[i] \in Ports
    BY <1>0, <1>1, <1>3, <1>5 DEF Launches, exits
  <2> QED BY <2>2, <2>5, <2>6, <2>7 DEF Launches
<1>7. Kills'
  <2>1. \A g \in Harnesses \ {h} : KillOf(g)'
    BY <1>0, <1>1, KillFrame DEF InstanceIInv, HarnessFrame, history
  <2>2. KillOf(h)'
    BY <1>1 DEF KillOf
  <2> QED BY <2>1, <2>2 DEF Kills
<1>8. EarlierEnded'
  BY <1>0, <1>1, <1>5, InstanceFacts DEF InstanceIInv, EarlierEnded, HarnessFrame
<1>9. Markers'
  BY <1>1, <1>2, <1>3, <1>5 DEF InstanceIInv, Markers, exits, history
<1>10. DeathsOnRecord'
  <2> SUFFICES ASSUME NEW g \in Harnesses, phase'[g] \in {"booting", "launched", "up"},
                      Child(Current(g)) \notin alive, Current(g) \notin exitPending
               PROVE  marker'[CdpPort(g)'] = Current(g) \/ SharesPort(Current(g))'
    BY <1>1, <1>4 DEF DeathsOnRecord, Child, exits
  <2>1. g # h /\ phase[g] = phase'[g]
    BY <1>1 DEF HarnessFrame
  <2>2. Current(g) \in Instances /\ Current(g) # Current(h) /\ CdpPort(g) \in Ports
    BY <1>0, <2>1, CurrentsDiffer DEF Plans, PlanOf
  <2>3. CdpPort(g)' = CdpPort(g)
    BY <1>3, <1>4, <2>2 DEF CdpPort
  <2>4. marker[CdpPort(g)] = Current(g) \/ SharesPort(Current(g))
    BY <2>1 DEF InstanceIInv, DeathsOnRecord
  <2>5. SharesPort(Current(g)) => SharesPort(Current(g))'
    <3>1. ASSUME NEW j \in Instances \ {Current(g)}, port[j] = port[Current(g)]
          PROVE  port'[j] = port'[Current(g)]
      <4>1. j # Current(h)
        BY <1>2, <2>2, <3>1, OwnedConstants DEF CdpPort
      <4> QED BY <1>3, <2>2, <3>1, <4>1
    <3> QED BY <1>4, <3>1 DEF SharesPort
  <2> QED BY <1>1, <2>3, <2>4, <2>5 DEF exits
<1>11. Probed'
  BY <1>1 DEF InstanceIInv, Probed, liveness
<1> QED BY <1>6, <1>7, <1>8, <1>9, <1>10, <1>11

LEMMA SpawningKeeps ==
  ASSUME InstanceIInv, NEW h \in Harnesses, HarnessFrame(h), Spawn(h)
  PROVE  Launches' /\ Kills' /\ EarlierEnded' /\ Markers' /\ DeathsOnRecord' /\ Probed'
<1>0. /\ InstanceTypes /\ HarnessTypes /\ Plans /\ Launches /\ PlanOf(h)
      /\ Current(h) \in Instances /\ Harness(Current(h)) = h /\ Current(h)[2] = attempt[h]
      /\ attempt[h] \in Nat /\ marker \in [Ports -> Instances \cup {Nil}]
  BY CurrentIs DEF InstanceIInv, InstanceTypes, HarnessTypes, ProcessTypes, Plans
<1>1. /\ phase[h] = "picked" /\ phase'[h] = "booting" /\ attempt' = attempt
      /\ UNCHANGED <<owned, found, port, isKillExpected, exitPending, watchdog, probes, refusals, history>>
      /\ alive' = alive \cup {Child(Current(h))} /\ serverOpen' = serverOpen \cup {Current(h)}
      /\ marker' = [marker EXCEPT ![CdpPort(h)] = Nil]
  BY <1>0, GoingIsTyped, LocationsAre DEF Spawn
<1>2. Fresh(Current(h)) /\ CdpPort(h) \in Ports /\ Current(h) \notin isKillExpected
  BY <1>0, <1>1 DEF Launches, PlanOf, Fresh
<1>3. \A g \in Harnesses : Current(g)' = Current(g)
  BY <1>1 DEF Current
<1>4. \A i \in Instances \ {Current(h)} :
        /\ (Child(i) \in alive' <=> Child(i) \in alive) /\ (Heir(i) \in alive' <=> Heir(i) \in alive)
        /\ (Fresh(i)' <=> Fresh(i)) /\ (Lives(i)' <=> Lives(i))
  BY <1>0, <1>1, ProcessFacts DEF Fresh, Lives
<1>5. Heir(Current(h)) \notin alive' /\ Current(h) \notin exitPending /\ Child(Current(h)) \in alive'
  BY <1>0, <1>1, <1>2, ProcessFacts DEF Fresh
<1>6. Launches'
  <2>1. \A i \in Instances : attempt[Harness(i)] < i[2] => i # Current(h)
    BY <1>0
  <2>2. \A i \in Instances : attempt'[Harness(i)] < i[2] => Fresh(i)' /\ port'[i] = Nil
    BY <1>0, <1>1, <1>4, <2>1 DEF Launches
  <2>4. \A g \in Harnesses : phase'[g] \in {"idle", "picked"} => Fresh(Current(g))'
    <3> SUFFICES ASSUME NEW g \in Harnesses, phase'[g] \in {"idle", "picked"} PROVE Fresh(Current(g))'
      OBVIOUS
    <3>1. g # h /\ phase[g] = phase'[g]
      BY <1>1 DEF HarnessFrame
    <3>2. PICK i \in Instances \ {Current(h)} : i = Current(g)
      BY <1>0, <3>1, CurrentsDiffer
    <3>3. Fresh(i)'
      BY <1>0, <1>4, <3>1, <3>2 DEF Launches
    <3> QED BY <1>3, <3>2, <3>3
  <2>6. \A g \in Harnesses : phase'[g] \in Launching => Current(g)' \notin isKillExpected'
    BY <1>0, <1>1, <1>2, <1>3 DEF HarnessFrame, Launches
  <2>7. \A i \in Instances :
          /\ Heir(i) \in alive' \/ i \in exitPending' => Child(i) \notin alive'
          /\ Lives(i)' \/ i \in exitPending' => port'[i] \in Ports
    BY <1>0, <1>1, <1>2, <1>4, <1>5 DEF Launches, CdpPort
  <2> QED BY <2>2, <2>4, <2>6, <2>7 DEF Launches
<1>7. Kills'
  <2>1. ASSUME NEW g \in Harnesses \ {h} PROVE KillOf(g)'
    <3>1. /\ Current(g)' = Current(g) /\ phase'[g] = phase[g]
          /\ owned'[g] = owned[g] /\ found'[g] = found[g]
          /\ Current(g) \in Instances \ {Current(h)}
      BY <1>0, <1>3, CurrentsDiffer DEF HarnessFrame
    <3>2. KillOf(g)
      BY DEF InstanceIInv, Kills
    <3>3. Excused(Current(g))' <=> Excused(Current(g))
      BY <1>1, <3>1 DEF Excused, history
    <3>4. /\ Child(Current(g)) \in alive' <=> Child(Current(g)) \in alive
          /\ Heir(Current(g)) \in alive' <=> Heir(Current(g)) \in alive
      BY <1>4, <3>1
    <3> QED BY <3>1, <3>2, <3>3, <3>4 DEF KillOf, Lives, Child, Heir
  <2>2. KillOf(h)'
    BY <1>1 DEF KillOf
  <2> QED BY <2>1, <2>2 DEF Kills
<1>8. EarlierEnded'
  <2> SUFFICES ASSUME NEW i \in Instances, Lives(i)'
               PROVE  attempt'[Harness(i)] <= i[2] \/ Excused(i)' \/ phase'[Harness(i)] = "dead"
    BY DEF EarlierEnded
  <2>1. CASE i = Current(h)
    BY <1>0, <1>1, <2>1
  <2>2. CASE i # Current(h)
    <3>1. attempt[Harness(i)] <= i[2] \/ Excused(i) \/ phase[Harness(i)] = "dead"
      BY <1>4, <2>2 DEF InstanceIInv, EarlierEnded
    <3>2. Excused(i) => Excused(i)'
      BY <1>1 DEF Excused, history
    <3>3. phase[Harness(i)] = "dead" => phase'[Harness(i)] = "dead"
      BY <1>1, InstanceFacts DEF HarnessFrame
    <3> QED BY <1>1, <3>1, <3>2, <3>3
  <2> QED BY <2>1, <2>2
<1>9. Markers'
  <2> SUFFICES ASSUME NEW i \in Instances, Lives(i)', marker'[port'[i]] # Nil
               PROVE  (marker'[port'[i]] = i /\ Child(i) \notin alive') \/ port'[i] \in late'
    BY DEF Markers
  <2>1. i # Current(h) /\ port[i] # CdpPort(h)
    <3>1. ASSUME i = Current(h) \/ port[i] = CdpPort(h) PROVE FALSE
      BY <1>0, <1>1, <1>2, <3>1 DEF CdpPort
    <3> QED BY <3>1
  <2>2. Lives(i) /\ marker'[port'[i]] = marker[port[i]] /\ (Child(i) \notin alive => Child(i) \notin alive')
    BY <1>0, <1>1, <1>4, <2>1
  <2> QED BY <1>1, <2>2 DEF InstanceIInv, Markers, history
<1>10. DeathsOnRecord'
  <2> SUFFICES ASSUME NEW g \in Harnesses, phase'[g] \in {"booting", "launched", "up"},
                      Child(Current(g)) \notin alive', Current(g) \notin exitPending
               PROVE  marker'[CdpPort(g)] = Current(g) \/ SharesPort(Current(g))
    BY <1>1, <1>3 DEF DeathsOnRecord, Child, CdpPort, Current, SharesPort
  <2>1. g # h /\ phase[g] = phase'[g]
    BY <1>1, <1>5 DEF HarnessFrame
  <2>2. Current(g) \in Instances /\ Current(g) # Current(h) /\ CdpPort(g) \in Ports
    BY <1>0, <2>1, CurrentsDiffer DEF Plans, PlanOf
  <2>4. marker[CdpPort(g)] = Current(g) \/ SharesPort(Current(g))
    BY <1>4, <2>1, <2>2 DEF InstanceIInv, DeathsOnRecord
  <2>5. CdpPort(g) = CdpPort(h) => SharesPort(Current(g))
    BY <1>0, <2>2 DEF SharesPort, CdpPort
  <2> QED BY <1>0, <1>1, <2>2, <2>4, <2>5
<1>11. Probed'
  <2>1. probes[Current(h)] = 0 /\ refusals \in Nat
    BY <1>0, <1>2, OwnedConstants DEF Fresh, InstanceTypes, WatchdogTypes
  <2> QED BY <1>1, <2>1 DEF InstanceIInv, Probed
<1> QED BY <1>6, <1>7, <1>8, <1>9, <1>10, <1>11

LEMMA VaultReadyKeeps ==
  ASSUME InstanceIInv, NEW h \in Harnesses, HarnessFrame(h), VaultReady(h)
  PROVE  Launches' /\ Kills' /\ EarlierEnded' /\ Markers' /\ DeathsOnRecord' /\ Probed'
<1>0. /\ InstanceTypes /\ HarnessTypes /\ Plans /\ Launches
      /\ Current(h) \in Instances /\ Harness(Current(h)) = h /\ Current(h)[2] = attempt[h]
      /\ attempt[h] \in Nat /\ watchdog \in [Instances -> {"off", "connecting", "on", "asking", "fooled"}]
  BY CurrentIs DEF InstanceIInv, InstanceTypes, HarnessTypes, WatchdogTypes
<1>1. /\ phase[h] = "launched" /\ phase'[h] = "up" /\ attempt' = attempt
      /\ UNCHANGED <<owned, found, processes, exits, serverOpen, probes, refusals, history>>
      /\ \A i \in Instances \ {Current(h)} : watchdog'[i] = watchdog[i]
  BY <1>0, GoingIsTyped, LocationsAre DEF VaultReady
<1>3. \A g \in Harnesses : Current(g)' = Current(g)
  BY <1>1 DEF Current
<1>4. \A i \in Instances : /\ (Lives(i)' <=> Lives(i)) /\ (Excused(i)' <=> Excused(i))
                           /\ i # Current(h) => (Fresh(i)' <=> Fresh(i))
  BY <1>1 DEF Lives, Excused, Fresh, processes, exits, history
<1>6. Launches'
  <2>1. \A i \in Instances : attempt[Harness(i)] < i[2] => i # Current(h)
    BY <1>0
  <2>2. \A i \in Instances : attempt'[Harness(i)] < i[2] => Fresh(i)' /\ port'[i] = Nil
    BY <1>0, <1>1, <1>4, <2>1 DEF Launches, processes
  <2>4. \A g \in Harnesses : phase'[g] \in {"idle", "picked"} => Fresh(Current(g))'
    <3> SUFFICES ASSUME NEW g \in Harnesses, phase'[g] \in {"idle", "picked"} PROVE Fresh(Current(g))'
      OBVIOUS
    <3>1. g # h /\ phase[g] = phase'[g]
      BY <1>1 DEF HarnessFrame
    <3>2. PICK i \in Instances \ {Current(h)} : i = Current(g)
      BY <1>0, <3>1, CurrentsDiffer
    <3>3. Fresh(i)'
      BY <1>0, <1>4, <3>1, <3>2 DEF Launches
    <3> QED BY <1>3, <3>2, <3>3
  <2>6. \A g \in Harnesses : phase'[g] \in Launching => Current(g)' \notin isKillExpected'
    BY <1>0, <1>1, <1>3 DEF HarnessFrame, Launches, Launching, exits
  <2>7. \A i \in Instances :
          /\ Heir(i) \in alive' \/ i \in exitPending' => Child(i) \notin alive'
          /\ Lives(i)' \/ i \in exitPending' => port'[i] \in Ports
    BY <1>0, <1>1, <1>4 DEF Launches, processes, exits
  <2> QED BY <2>2, <2>4, <2>6, <2>7 DEF Launches
<1>7. Kills'
  <2>1. \A g \in Harnesses \ {h} : KillOf(g)'
    BY <1>0, <1>1, KillFrame DEF InstanceIInv, HarnessFrame, processes, history
  <2>2. KillOf(h)'
    BY <1>1 DEF KillOf
  <2> QED BY <2>1, <2>2 DEF Kills
<1>8. EarlierEnded'
  BY <1>0, <1>1, <1>4, InstanceFacts DEF InstanceIInv, EarlierEnded, HarnessFrame
<1>9. Markers'
  BY <1>1, <1>4 DEF InstanceIInv, Markers, processes, exits, history
<1>10. DeathsOnRecord'
  BY <1>1, <1>3 DEF InstanceIInv, DeathsOnRecord, HarnessFrame, SharesPort, CdpPort, Child, processes, exits
<1>11. Probed'
  BY <1>1 DEF InstanceIInv, Probed
<1> QED BY <1>6, <1>7, <1>8, <1>9, <1>10, <1>11


-----------------------------------------------------------------------------
(* What happens to the instances without their harnesses.                  *)

LEMMA LaunchesStay ==
  ASSUME InstanceTypes, Launches, UNCHANGED <<harness, port, isKillExpected>>,
         \A j \in Instances : Fresh(j) => Fresh(j)',
         \A j \in Instances : /\ Heir(j) \in alive' \/ j \in exitPending' => Child(j) \notin alive'
                              /\ Lives(j)' \/ j \in exitPending' => port'[j] \in Ports
  PROVE  Launches'
<1>1. phase' = phase /\ attempt' = attempt
  BY DEF harness
<1>2. \A g \in Harnesses : Current(g)' = Current(g) /\ Current(g) \in Instances
  BY <1>1, CurrentIs DEF Current, InstanceTypes
<1>3. ASSUME NEW g \in Harnesses, phase'[g] \in {"idle", "picked"} PROVE Fresh(Current(g))'
  <2>1. PICK i \in Instances : i = Current(g)
    BY <1>2
  <2>2. Fresh(i)'
    BY <1>1, <1>3, <2>1 DEF Launches
  <2> QED BY <1>2, <2>1, <2>2
<1>4. \A i \in Instances : attempt'[Harness(i)] < i[2] => Fresh(i)' /\ port'[i] = Nil
  BY <1>1 DEF Launches
<1>5. \A g \in Harnesses : phase'[g] \in Launching => Current(g)' \notin isKillExpected'
  BY <1>1, <1>2 DEF Launches
<1> QED BY <1>3, <1>4, <1>5 DEF Launches

\* An instance dies: nothing has been ordered, and nothing is told yet.
LEMMA LosingKeeps ==
  ASSUME InstanceIInv, Quiet, UNCHANGED <<harness, isKillExpected, marker>>
  PROVE  Launches' /\ Kills' /\ EarlierEnded' /\ Markers' /\ DeathsOnRecord' /\ Probed'
<1>0. /\ InstanceTypes /\ Launches /\ UNCHANGED <<phase, attempt, owned, found>> /\ port' = port
      /\ alive' \subseteq alive /\ lapses \subseteq lapses' /\ unseen \subseteq unseen' /\ late' = late
  BY DEF InstanceIInv, harness, Quiet, Shrinks
<1>1. \A g \in Harnesses : Current(g)' = Current(g) /\ Current(g) \in Instances
  BY <1>0, CurrentIs DEF Current, InstanceTypes
<1>2. \A i \in Instances : (Lives(i)' => Lives(i)) /\ (Excused(i) => Excused(i)')
  BY <1>0 DEF Lives, Excused
<1>3. Launches'
  BY <1>0, QuietFresh, QuietSuccession, LaunchesStay DEF Fresh
<1>4. Kills'
  <2>1. \A g \in Harnesses : KillOf(g)'
    BY <1>0, KillFrame DEF InstanceIInv
  <2> QED BY <2>1 DEF Kills
<1>5. EarlierEnded'
  BY <1>0, <1>2 DEF InstanceIInv, EarlierEnded
<1>6. Markers'
  BY <1>0, <1>2 DEF InstanceIInv, Markers
<1>7. DeathsOnRecord'
  <2> SUFFICES ASSUME NEW g \in Harnesses, phase[g] \in {"booting", "launched", "up"},
                      Child(Current(g)) \notin alive', Current(g) \notin exitPending'
               PROVE  marker[CdpPort(g)] = Current(g) \/ SharesPort(Current(g))
    BY <1>0, <1>1 DEF DeathsOnRecord, Child, CdpPort, SharesPort
  <2>1. Child(Current(g)) \notin alive /\ Current(g) \notin exitPending
    BY <1>1 DEF Quiet, Shrinks
  <2> QED BY <2>1 DEF InstanceIInv, DeathsOnRecord
<1>8. Probed'
  BY <1>0, QuietProbed DEF InstanceIInv
<1> QED BY <1>3, <1>4, <1>5, <1>6, <1>7, <1>8

\* A port is taken, or a watchdog is at work: the processes are the same, and so is the record.
LEMMA LivingKeeps ==
  ASSUME InstanceIInv, UNCHANGED <<harness, port, alive, exits, serverOpen, history>>,
         \A j \in Instances : Fresh(j) => watchdog'[j] = watchdog[j] /\ probes'[j] = probes[j],
         Probed'
  PROVE  Launches' /\ Kills' /\ EarlierEnded' /\ Markers' /\ DeathsOnRecord' /\ Probed'
<1>0. /\ InstanceTypes /\ Launches /\ UNCHANGED <<phase, attempt, owned, found>>
      /\ UNCHANGED <<isKillExpected, exitPending, marker, lapses, unseen, late>>
  BY DEF InstanceIInv, harness, exits, history
<1>1. \A g \in Harnesses : Current(g)' = Current(g)
  BY <1>0 DEF Current
<1>2. \A i \in Instances : /\ (Lives(i)' <=> Lives(i)) /\ (Excused(i)' <=> Excused(i))
                           /\ Fresh(i) => Fresh(i)'
  BY <1>0 DEF Lives, Excused, Fresh
<1>3. Launches'
  <2>1. \A j \in Instances : /\ Heir(j) \in alive' \/ j \in exitPending' => Child(j) \notin alive'
                             /\ Lives(j)' \/ j \in exitPending' => port'[j] \in Ports
    BY <1>0, <1>2 DEF Launches
  <2> QED BY <1>0, <1>2, <2>1, LaunchesStay
<1>4. Kills'
  <2>1. \A g \in Harnesses : KillOf(g)'
    BY <1>0, KillFrame DEF InstanceIInv
  <2> QED BY <2>1 DEF Kills
<1>5. EarlierEnded'
  BY <1>0, <1>2 DEF InstanceIInv, EarlierEnded
<1>6. Markers'
  BY <1>0, <1>2 DEF InstanceIInv, Markers
<1>7. DeathsOnRecord'
  BY <1>0, <1>1 DEF InstanceIInv, DeathsOnRecord, Child, CdpPort, SharesPort
<1> QED BY <1>3, <1>4, <1>5, <1>6, <1>7

\* The exit is handled: the marker tells of it, to whoever has the port by now as well.
LEMMA HandlingKeeps ==
  ASSUME InstanceIInv, NEW i \in Instances, HandleExit(i)
  PROVE  Launches' /\ Kills' /\ EarlierEnded' /\ Markers' /\ DeathsOnRecord' /\ Probed'
<1>0. /\ InstanceTypes /\ Launches /\ UNCHANGED <<phase, attempt, owned, found>>
      /\ UNCHANGED <<port, alive, isKillExpected, serverOpen, watchdog, probes, refusals, lapses, unseen>>
      /\ i \in exitPending /\ exitPending' = exitPending \ {i}
      /\ marker \in [Ports -> Instances \cup {Nil}] /\ late \subseteq late'
  BY DEF InstanceIInv, HandleExit, harness, processes, liveness, InstanceTypes, ProcessTypes
<1>1. \A g \in Harnesses : Current(g)' = Current(g) /\ Current(g) \in Instances /\ Harness(Current(g)) = g
  BY <1>0, CurrentIs DEF Current, InstanceTypes
<1>2. \A j \in Instances : /\ (Lives(j)' <=> Lives(j)) /\ (Excused(j)' <=> Excused(j))
                           /\ Fresh(j) => Fresh(j)'
  BY <1>0 DEF Lives, Excused, Fresh
<1>3. port[i] \in Ports /\ Child(i) \notin alive
  BY <1>0 DEF Launches
<1>4. Launches'
  <2>1. \A j \in Instances : /\ Heir(j) \in alive' \/ j \in exitPending' => Child(j) \notin alive'
                             /\ Lives(j)' \/ j \in exitPending' => port'[j] \in Ports
    BY <1>0, <1>2 DEF Launches
  <2>2. UNCHANGED harness
    BY DEF HandleExit
  <2> QED BY <1>0, <1>2, <2>1, <2>2, LaunchesStay
<1>5. Kills'
  <2>1. \A g \in Harnesses : KillOf(g)'
    BY <1>0, KillFrame DEF InstanceIInv
  <2> QED BY <2>1 DEF Kills
<1>6. EarlierEnded'
  BY <1>0, <1>2 DEF InstanceIInv, EarlierEnded
<1>7. CASE i \in isKillExpected \/ phase[Harness(i)] = "dead"
  <2>1. marker' = marker /\ late' = late
    BY <1>7 DEF HandleExit
  <2>2. Markers'
    BY <1>0, <1>2, <2>1 DEF InstanceIInv, Markers
  <2>3. DeathsOnRecord'
    <3> SUFFICES ASSUME NEW g \in Harnesses, phase[g] \in {"booting", "launched", "up"},
                        Child(Current(g)) \notin alive, Current(g) \notin exitPending'
                 PROVE  marker[CdpPort(g)] = Current(g) \/ SharesPort(Current(g))
      BY <1>0, <1>1, <2>1 DEF DeathsOnRecord, Child, CdpPort, SharesPort
    <3>1. Current(g) # i
      BY <1>0, <1>1, <1>7 DEF Launches, Launching
    <3> QED BY <1>0, <3>1 DEF InstanceIInv, DeathsOnRecord
  <2> QED BY <1>0, <1>4, <1>5, <1>6, <2>2, <2>3 DEF InstanceIInv, Probed
<1>8. CASE ~(i \in isKillExpected \/ phase[Harness(i)] = "dead")
  <2>1. /\ marker'[port[i]] = i /\ \A p \in Ports \ {port[i]} : marker'[p] = marker[p]
        /\ LaunchedLaterOn(port[i], i) # {} => port[i] \in late'
    BY <1>0, <1>3, <1>8 DEF HandleExit
  <2>2. Markers'
    <3> SUFFICES ASSUME NEW j \in Instances, Lives(j), marker'[port[j]] # Nil
                 PROVE  (marker'[port[j]] = j /\ Child(j) \notin alive) \/ port[j] \in late'
      BY <1>0, <1>2 DEF Markers
    <3>1. port[j] \in Ports
      BY <1>0 DEF Launches
    <3>2. CASE port[j] # port[i]
      BY <1>0, <2>1, <3>1, <3>2 DEF InstanceIInv, Markers
    <3>3. CASE port[j] = port[i] /\ j = i
      BY <1>3, <2>1, <3>3
    <3>4. CASE port[j] = port[i] /\ j # i
      BY <2>1, <3>4 DEF LaunchedLaterOn, Lives
    <3> QED BY <3>2, <3>3, <3>4
  <2>3. DeathsOnRecord'
    <3> SUFFICES ASSUME NEW g \in Harnesses, phase[g] \in {"booting", "launched", "up"},
                        Child(Current(g)) \notin alive, Current(g) \notin exitPending'
                 PROVE  marker'[CdpPort(g)] = Current(g) \/ SharesPort(Current(g))
      BY <1>0, <1>1 DEF DeathsOnRecord, Child, CdpPort, SharesPort
    <3>1. CASE Current(g) = i
      BY <2>1, <3>1 DEF CdpPort
    <3>2. CASE Current(g) # i
      <4>1. marker[CdpPort(g)] = Current(g) \/ SharesPort(Current(g))
        BY <1>0, <3>2 DEF InstanceIInv, DeathsOnRecord
      <4>2. CdpPort(g) \in Ports
        BY DEF InstanceIInv, Plans, PlanOf
      <4>3. CdpPort(g) = port[i] => SharesPort(Current(g))
        BY <3>2 DEF SharesPort, CdpPort
      <4> QED BY <2>1, <4>1, <4>2, <4>3
    <3> QED BY <3>1, <3>2
  <2> QED BY <1>0, <1>4, <1>5, <1>6, <2>2, <2>3 DEF InstanceIInv, Probed
<1> QED BY <1>7, <1>8

\* The heir takes over: a kill under way does not know of it.
LEMMA HandingOffKeeps ==
  ASSUME InstanceIInv, NEW i \in Instances, HandOff(i)
  PROVE  Launches' /\ Kills' /\ EarlierEnded' /\ Markers' /\ DeathsOnRecord' /\ Probed'
<1>0. /\ InstanceTypes /\ Launches /\ UNCHANGED <<phase, attempt, owned, found>>
      /\ UNCHANGED <<port, isKillExpected, marker, serverOpen, probes, refusals, lapses, late>>
      /\ Child(i) \in alive /\ alive' = (alive \ {Child(i)}) \cup {Heir(i)}
      /\ exitPending' = exitPending \cup {i} /\ unseen \subseteq unseen'
      /\ watchdog' = [watchdog EXCEPT ![i] = "off"]
      /\ watchdog \in [Instances -> {"off", "connecting", "on", "asking", "fooled"}]
  BY DEF InstanceIInv, HandOff, harness, InstanceTypes, WatchdogTypes
<1>1. \A g \in Harnesses : Current(g)' = Current(g) /\ Current(g) \in Instances /\ Harness(Current(g)) = g
  BY <1>0, CurrentIs DEF Current, InstanceTypes
<1>2. \A j \in Instances \ {i} : /\ (Child(j) \in alive' <=> Child(j) \in alive)
                                 /\ (Heir(j) \in alive' <=> Heir(j) \in alive)
                                 /\ (j \in exitPending' <=> j \in exitPending)
                                 /\ watchdog'[j] = watchdog[j]
  BY <1>0, ProcessFacts
<1>3. Child(i) \notin alive' /\ Lives(i) /\ port[i] \in Ports
  BY <1>0, ProcessFacts DEF Lives, Launches
<1>4. \A j \in Instances : (Lives(j)' => Lives(j)) /\ (Excused(j) => Excused(j)')
  BY <1>0, <1>2, <1>3 DEF Lives, Excused
<1>5. Launches'
  <2>1. \A j \in Instances : Fresh(j) => Fresh(j)'
    BY <1>0, <1>2 DEF Fresh
  <2>2. \A j \in Instances : /\ Heir(j) \in alive' \/ j \in exitPending' => Child(j) \notin alive'
                             /\ Lives(j)' \/ j \in exitPending' => port'[j] \in Ports
    BY <1>0, <1>2, <1>3 DEF Launches, Lives
  <2>3. UNCHANGED harness
    BY DEF HandOff
  <2> QED BY <1>0, <2>1, <2>2, <2>3, LaunchesStay
<1>6. Kills'
  <2> SUFFICES ASSUME NEW g \in Harnesses PROVE KillOf(g)'
    BY DEF Kills
  <2>1. KillOf(g)
    BY DEF InstanceIInv, Kills
  <2>2. Excused(Current(g)) => Excused(Current(g))'
    BY <1>0, <1>1, <1>4 DEF Excused
  <2>3. CASE Current(g) # i
    <3>1. /\ Child(Current(g)) \in alive' <=> Child(Current(g)) \in alive
          /\ Heir(Current(g)) \in alive' <=> Heir(Current(g)) \in alive
      BY <1>1, <1>2, <2>3
    <3> QED BY <1>0, <1>1, <2>1, <2>2, <3>1 DEF KillOf, Lives, Child, Heir
  <2>4. CASE Current(g) = i
    <3>1. CASE phase[g] \in {"killing", "reaping"}
      <4>1. Excused(Current(g))'
        BY <1>1, <2>4, <3>1 DEF HandOff, Excused
      <4> QED BY <4>1 DEF KillOf
    <3>2. CASE phase[g] \notin {"killing", "reaping"}
      <4>1. Lives(Current(g))
        BY <1>3, <2>4
      <4> QED BY <1>0, <2>1, <2>2, <3>2, <4>1 DEF KillOf
    <3> QED BY <3>1, <3>2
  <2> QED BY <2>3, <2>4
<1>7. EarlierEnded'
  BY <1>0, <1>4 DEF InstanceIInv, EarlierEnded
<1>8. Markers'
  BY <1>0, <1>2, <1>3, <1>4 DEF InstanceIInv, Markers
<1>9. DeathsOnRecord'
  <2> SUFFICES ASSUME NEW g \in Harnesses, phase[g] \in {"booting", "launched", "up"},
                      Child(Current(g)) \notin alive', Current(g) \notin exitPending'
               PROVE  marker[CdpPort(g)] = Current(g) \/ SharesPort(Current(g))
    BY <1>0, <1>1 DEF DeathsOnRecord, Child, CdpPort, SharesPort
  <2>1. Child(Current(g)) \notin alive /\ Current(g) \notin exitPending
    BY <1>0, <1>1, <1>2
  <2> QED BY <2>1 DEF InstanceIInv, DeathsOnRecord
<1>10. Probed'
  BY <1>0 DEF InstanceIInv, Probed
<1> QED BY <1>5, <1>6, <1>7, <1>8, <1>9, <1>10


\* A watchdog connects, asks, is answered and decides.
LEMMA WatchingKeeps ==
  ASSUME InstanceIInv, NEW i \in Instances, WatchdogStep(i)
  PROVE  Launches' /\ Kills' /\ EarlierEnded' /\ Markers' /\ DeathsOnRecord' /\ Probed'
<1>0. /\ InstanceTypes /\ Probed /\ refusals \in Nat
      /\ probes \in [Instances -> 0..ProbeLimit] /\ ProbeLimit \in Nat
      /\ watchdog \in [Instances -> {"off", "connecting", "on", "asking", "fooled"}]
  BY OwnedConstants DEF InstanceIInv, InstanceTypes, WatchdogTypes
<1>a. \A j \in Instances : probes[j] \in Nat
  BY <1>0
<1>f. ASSUME watchdog[i] # "off", UNCHANGED <<harness, processes, exits, serverOpen, history>>, Probed',
             \A j \in Instances \ {i} : watchdog'[j] = watchdog[j] /\ probes'[j] = probes[j]
      PROVE  Launches' /\ Kills' /\ EarlierEnded' /\ Markers' /\ DeathsOnRecord' /\ Probed'
  <2>1. \A j \in Instances : Fresh(j) => watchdog'[j] = watchdog[j] /\ probes'[j] = probes[j]
    BY <1>f DEF Fresh
  <2> QED BY <1>f, <2>1, LivingKeeps DEF processes
<1>1. CASE WatchdogConnects(i)
  BY <1>0, <1>1, <1>f DEF WatchdogConnects, Probed
<1>2. CASE ConnectionCloses(i)
  <2>1. probes' = [probes EXCEPT ![i] = 0] /\ UNCHANGED <<serverOpen, refusals>>
    BY <1>2 DEF ConnectionCloses
  <2>2. Probed'
    BY <1>0, <2>1 DEF Probed
  <2> QED BY <1>0, <1>2, <1>f, <2>2 DEF ConnectionCloses
<1>3. CASE ProbeAnswered(i)
  BY <1>0, <1>3, <1>f DEF ProbeAnswered, Probed
<1>4. CASE ProbeRefused(i)
  <2>1. CASE LastProbe(i)
    <3>1. Shrinks
      BY <1>0, <1>4, <2>1, DieShrinks DEF ProbeRefused
    <3>2. /\ UNCHANGED <<harness, port, isKillExpected, marker, serverOpen, probes, history>>
          /\ refusals' \in {refusals, refusals + 1}
      BY <1>4, <2>1 DEF ProbeRefused
    <3>3. Quiet
      BY <3>1, <3>2 DEF Quiet, history
    <3> QED BY <3>2, <3>3, LosingKeeps
  <2>2. CASE ~LastProbe(i)
    <3>1. /\ UNCHANGED <<harness, port, alive, listener, isKillExpected, exitPending, marker, serverOpen,
                         watchdog, history>>
          /\ probes' = [probes EXCEPT ![i] = @ + 1] /\ watchdog[i] = "asking"
          /\ \/ i \in serverOpen /\ refusals' = refusals + 1
             \/ i \notin serverOpen /\ refusals' = refusals
      BY <1>4, <2>2 DEF ProbeRefused, Listens
    <3>2. Probed'
      <4>1. probes'[i] = probes[i] + 1 /\ \A j \in Instances \ {i} : probes'[j] = probes[j]
        BY <1>0, <3>1
      <4>2. ASSUME NEW j \in serverOpen PROVE probes'[j] <= refusals'
        <5>1. j \in Instances /\ probes[j] <= refusals /\ probes[j] \in Nat
          BY <1>0, <1>a DEF Probed, InstanceTypes, WatchdogTypes
        <5>2. CASE j = i
          BY <1>0, <3>1, <4>1, <5>1, <5>2
        <5>3. CASE j # i
          BY <1>0, <3>1, <4>1, <5>1, <5>3
        <5> QED BY <5>2, <5>3
      <4> QED BY <3>1, <4>2 DEF Probed
    <3> QED BY <1>0, <3>1, <3>2, <1>f DEF processes, exits
  <2> QED BY <2>1, <2>2
<1> QED BY <1>1, <1>2, <1>3, <1>4 DEF WatchdogStep

-----------------------------------------------------------------------------
(* The invariant of the instances.                                         *)

\* It holds at the start, every step keeps it, and it gives what the instances promise.
LEMMA InstanceStarts == ASSUME InstanceInit PROVE InstanceIInv
<1> USE DEF InstanceInit
<1>1. InstanceTypes
  BY OwnedConstants DEF InstanceTypes, HarnessTypes, ProcessTypes, WatchdogTypes, Location, Goals
<1>2. \A h \in Harnesses : Current(h) \in Instances
  BY <1>1, CurrentIs DEF InstanceTypes
<1>3. Plans
  BY <1>2 DEF Plans, PlanOf, CdpPort, Ending
<1>4. Launches
  <2>1. \A i \in Instances : Fresh(i) /\ port[i] = Nil
    BY DEF Fresh
  <2> QED BY <1>2, <2>1 DEF Launches, Lives, Fresh
<1>5. Kills
  BY DEF Kills, KillOf
<1>6. EarlierEnded /\ Markers /\ DeathsOnRecord /\ Probed
  BY DEF EarlierEnded, Markers, DeathsOnRecord, Probed, Lives
<1> QED BY <1>1, <1>3, <1>4, <1>5, <1>6 DEF InstanceIInv

LEMMA HarnessKeeps ==
  ASSUME InstanceIInv, NEW h \in Harnesses, HarnessStep(h) \/ Crash(h) \/ ExitWithInstance(h)
  PROVE  InstanceIInv'
<1>0. InstanceTypes /\ Plans /\ Launches /\ Kills /\ EarlierEnded /\ Markers /\ DeathsOnRecord /\ Probed
  BY DEF InstanceIInv
<1>1. HarnessTypes' /\ Plans' /\ HarnessFrame(h)
  BY <1>0, HarnessStepPlans, DyingPlans
<1>2. ProcessTypes' /\ WatchdogTypes'
  BY <1>0, HarnessProcessTypes, DyingProcessTypes
<1>3. CASE QuietStep(h)
  <2>1. Quiet /\ QuietOf(h)
    BY <1>0, <1>3, QuietSteps
  <2>2. Launches' /\ EarlierEnded' /\ Kills'
    BY <1>0, <1>1, <1>3, <2>1, QuietLaunches, QuietEarlierEnded, QuietKills
  <2>3. Markers' /\ DeathsOnRecord' /\ Probed'
    BY <1>0, <1>1, <2>1, QuietMarkers, QuietDeathsOnRecord, QuietProbed
  <2> QED BY <1>1, <1>2, <2>2, <2>3 DEF InstanceIInv, InstanceTypes
<1>4. CASE pickFreePort(h)
  BY <1>1, <1>2, <1>4, PickingKeeps DEF InstanceIInv, InstanceTypes
<1>5. CASE Spawn(h)
  BY <1>1, <1>2, <1>5, SpawningKeeps DEF InstanceIInv, InstanceTypes
<1>6. CASE VaultReady(h)
  BY <1>1, <1>2, <1>6, VaultReadyKeeps DEF InstanceIInv, InstanceTypes
<1> QED BY <1>3, <1>4, <1>5, <1>6 DEF QuietStep

LEMMA ObsidianKeeps ==
  ASSUME InstanceIInv,
         \/ \E i \in Instances : WatchdogStep(i) \/ HandOff(i) \/ HandleExit(i)
         \/ \E q \in Processes : Bind(q) \/ InstanceDies(q)
  PROVE  InstanceIInv'
<1>0. InstanceTypes /\ Plans /\ Launches /\ Probed
  BY DEF InstanceIInv
<1>1. UNCHANGED harness /\ UNCHANGED port
  BY DEF WatchdogStep, WatchdogConnects, ConnectionCloses, ProbeAnswered, ProbeRefused, HandOff, HandleExit,
         Bind, InstanceDies, processes
<1>2. HarnessTypes' /\ Plans'
  BY <1>0, <1>1, HarnessUnchanged
<1>3. ProcessTypes' /\ WatchdogTypes'
  BY <1>0, WatchdogStepTypes, ObsidianTypes
<1>4. SUFFICES Launches' /\ Kills' /\ EarlierEnded' /\ Markers' /\ DeathsOnRecord' /\ Probed'
  BY <1>2, <1>3 DEF InstanceIInv, InstanceTypes
<1>5. CASE \E i \in Instances : WatchdogStep(i)
  BY <1>5, WatchingKeeps
<1>6. CASE \E i \in Instances : HandOff(i)
  BY <1>6, HandingOffKeeps
<1>7. CASE \E i \in Instances : HandleExit(i)
  BY <1>7, HandlingKeeps
<1>8. ASSUME NEW q \in Processes, Bind(q)
      PROVE  Launches' /\ Kills' /\ EarlierEnded' /\ Markers' /\ DeathsOnRecord' /\ Probed'
  <2>1. UNCHANGED <<harness, port, alive, exits, serverOpen, watchdog, probes, refusals, history>>
    BY <1>8 DEF Bind, liveness
  <2>2. Probed'
    BY <1>0, <2>1 DEF Probed
  <2> QED BY <2>1, <2>2, LivingKeeps
<1>9. ASSUME NEW q \in Processes, InstanceDies(q)
      PROVE  Launches' /\ Kills' /\ EarlierEnded' /\ Markers' /\ DeathsOnRecord' /\ Probed'
  <2>1. /\ Shrinks
        /\ UNCHANGED <<harness, port, isKillExpected, marker, serverOpen, probes, refusals, history>>
    BY <1>0, <1>9, DieShrinks DEF InstanceDies
  <2>2. Quiet
    BY <2>1 DEF Quiet, history
  <2> QED BY <2>1, <2>2, LosingKeeps
<1> QED BY <1>5, <1>6, <1>7, <1>8, <1>9

LEMMA InstanceStutters == ASSUME InstanceIInv, UNCHANGED instanceVars PROVE InstanceIInv'
<1> USE DEF instanceVars, harness, processes, exits, liveness, history
<1>1. InstanceTypes'
  BY DEF InstanceIInv, InstanceTypes, HarnessTypes, ProcessTypes, WatchdogTypes
<1>2. Plans'
  BY DEF InstanceIInv, Plans, PlanOf, CdpPort, Current
<1>3. Launches'
  BY DEF InstanceIInv, Launches, Fresh, Lives, Current
<1>4. Kills' /\ EarlierEnded'
  BY DEF InstanceIInv, Kills, KillOf, EarlierEnded, Excused, Lives, Current
<1>5. Markers' /\ DeathsOnRecord' /\ Probed'
  BY DEF InstanceIInv, Markers, DeathsOnRecord, Probed, SharesPort, Lives, CdpPort, Current
<1> QED BY <1>1, <1>2, <1>3, <1>4, <1>5 DEF InstanceIInv

LEMMA InstanceIInvStep == ASSUME InstanceIInv, [InstanceNext]_instanceVars PROVE InstanceIInv'
<1> QED BY HarnessKeeps, ObsidianKeeps, InstanceStutters DEF InstanceNext

LEMMA InstanceIInvGives == ASSUME InstanceIInv PROVE InstanceInv
<1>0. InstanceTypes /\ Launches /\ Kills /\ HarnessTypes
  BY DEF InstanceIInv, InstanceTypes
<1>1. ASSUME NEW i \in Instances, NEW h, h = Harness(i), Lives(i)
      PROVE  \/ i[2] = attempt[h] /\ phase[h] # "ended"
             \/ h \in lapses \/ i \in unseen
             \/ phase[h] = "dead"
  <2>0. h \in Harnesses /\ attempt[h] \in Nat /\ i[2] \in Nat /\ i = <<h, i[2]>>
    BY <1>0, <1>1, InstanceFacts DEF HarnessTypes
  <2>1. ~(attempt[h] < i[2])
    BY <1>0, <1>1 DEF Launches, Fresh, Lives
  <2>2. CASE i[2] < attempt[h]
    BY <1>1, <2>0, <2>2 DEF InstanceIInv, EarlierEnded, Excused
  <2>3. CASE i[2] = attempt[h]
    <3>1. i = Current(h)
      BY <2>0, <2>3 DEF Current
    <3> QED BY <1>0, <1>1, <2>0, <2>3, <3>1 DEF Kills, KillOf, Excused
  <2> QED BY <2>0, <2>1, <2>2, <2>3
<1>2. OneInstanceAtATime
  BY <1>1 DEF OneInstanceAtATime
<1>3. MarkerTellsOfItsInstance
  BY DEF InstanceIInv, Markers, MarkerTellsOfItsInstance
<1>4. DeathIsOnRecord
  BY DEF InstanceIInv, DeathsOnRecord, DeathIsOnRecord, SharesPort, Lives, CdpPort
<1> QED BY <1>0, <1>2, <1>3, <1>4, SameInstanceTypes DEF InstanceInv

-----------------------------------------------------------------------------
(* What a step may never do.                                               *)

\* What the two action properties say of one step.
OrderedStep ==
  \A p \in Ports : marker'[p] # marker[p] /\ marker'[p] # Nil => marker'[p] \notin isKillExpected

HealthyStep ==
  \A i \in Instances :
    watchdog[i] = "asking" /\ Lives(i) /\ ~Lives(i)' /\ UNCHANGED <<harness, troubles>> => ~Listens(i)

LEMMA OrderedSteps == ASSUME InstanceIInv, [InstanceNext]_instanceVars PROVE OrderedStep
<1>0. InstanceTypes /\ Plans /\ marker \in [Ports -> Instances \cup {Nil}]
  BY DEF InstanceIInv, InstanceTypes, ProcessTypes
<1>1. ASSUME NEW h \in Harnesses, HarnessStep(h) \/ Crash(h) \/ ExitWithInstance(h) PROVE OrderedStep
  <2>1. CASE QuietStep(h)
    <3>1. marker' = marker \/ marker' = [marker EXCEPT ![CdpPort(h)] = Nil]
      BY <1>0, <2>1, QuietSteps DEF QuietOf
    <3> QED BY <1>0, <3>1 DEF OrderedStep
  <2>2. CASE pickFreePort(h) \/ VaultReady(h)
    BY <2>2 DEF pickFreePort, VaultReady, exits, OrderedStep
  <2>3. CASE Spawn(h)
    BY <1>0, <2>3 DEF Spawn, OrderedStep
  <2> QED BY <1>1, <2>1, <2>2, <2>3 DEF QuietStep
<1>2. ASSUME NEW i \in Instances, WatchdogStep(i) \/ HandOff(i) PROVE OrderedStep
  BY <1>2 DEF WatchdogStep, WatchdogConnects, ConnectionCloses, ProbeAnswered, ProbeRefused, HandOff, exits,
              OrderedStep
<1>3. ASSUME NEW i \in Instances, HandleExit(i) PROVE OrderedStep
  <2>1. CASE marker' = marker
    BY <2>1 DEF OrderedStep
  <2>2. CASE i \notin isKillExpected /\ marker' = [marker EXCEPT ![port[i]] = i]
    BY <1>0, <2>2 DEF OrderedStep
  <2> QED BY <1>3, <2>1, <2>2 DEF HandleExit
<1>4. ASSUME NEW q \in Processes, Bind(q) \/ InstanceDies(q) PROVE OrderedStep
  BY <1>4 DEF Bind, InstanceDies, exits, OrderedStep
<1>5. CASE UNCHANGED instanceVars
  BY <1>5 DEF instanceVars, exits, OrderedStep
<1> QED BY <1>1, <1>2, <1>3, <1>4, <1>5 DEF InstanceNext

\* A harness that does something is elsewhere afterwards, or a round further.
LEMMA HarnessMoves ==
  ASSUME InstanceTypes, Plans, NEW h \in Harnesses, HarnessStep(h) \/ Crash(h) \/ ExitWithInstance(h)
  PROVE  ~UNCHANGED harness
<1>0. /\ phase \in [Harnesses -> Location] /\ round \in [Harnesses -> 0..RoundLimit]
      /\ PlanOf(h) /\ RoundLimit \in Nat
  BY OwnedConstants DEF InstanceTypes, HarnessTypes, Plans
<1> SUFFICES ASSUME phase' = phase, round' = round PROVE FALSE
  BY DEF harness
<1>1. \A l : HarnessGoto(h, l) => phase[h] = l
  BY <1>0 DEF HarnessGoto
<1>2. CASE pickFreePort(h) \/ Spawn(h) \/ CdpReady(h) \/ CdpTimesOut(h)
  BY <1>1, <1>2 DEF pickFreePort, Spawn, CdpReady, CdpTimesOut, BeginKill
<1>3. CASE VaultReady(h) \/ VaultNotReady(h) \/ RegistrationThrows(h)
  BY <1>1, <1>3 DEF VaultReady, VaultNotReady, RegistrationThrows, BeginKill
<1>4. CASE QueryOwners(h) \/ KillChild(h)
  BY <1>1, <1>4 DEF QueryOwners, KillChild
<1>5. CASE KillOwners(h)
  <2>1. phase[h] = "reaping" /\ AfterKill(h)
    BY <1>5 DEF KillOwners
  <2> QED BY <1>0, <1>1, <2>1, AfterKillGoes
<1>6. CASE InstanceExited(h) \/ ExitUnverified(h)
  BY <1>1, <1>6 DEF InstanceExited, ExitUnverified, Relaunch
<1>7. CASE DisposeInstance(h)
  BY <1>1, <1>7 DEF DisposeInstance, BeginKill
<1>8. CASE Recheck(h)
  <2>1. CASE OwnersOf(CdpPort(h)) = {} \/ round[h] = RoundLimit
    BY <1>1, <1>8, <2>1 DEF Recheck
  <2>2. CASE ~(OwnersOf(CdpPort(h)) = {} \/ round[h] = RoundLimit)
    <3>1. round' = [round EXCEPT ![h] = @ + 1]
      BY <1>8, <2>2 DEF Recheck
    <3>2. round'[h] = round[h] + 1 /\ round[h] \in Nat
      BY <1>0, <3>1
    <3> QED BY <3>2
  <2> QED BY <2>1, <2>2
<1>9. CASE Crash(h) \/ ExitWithInstance(h)
  BY <1>1, <1>9 DEF Crash, ExitWithInstance, ProcessEnds, Running
<1> QED BY <1>2, <1>3, <1>4, <1>5, <1>6, <1>7, <1>8, <1>9 DEF HarnessStep

\* A watchdog whose harness listens does not get as many refusals as it wants.
LEMMA HealthySteps ==
  ASSUME RefusalLimit < ProbeLimit, InstanceIInv, [InstanceNext]_instanceVars
  PROVE  HealthyStep
<1>0. /\ InstanceTypes /\ Plans /\ Probed
      /\ refusals \in Nat /\ RefusalLimit \in Nat /\ ProbeLimit \in Nat /\ troubles \in Nat
      /\ \A i \in Instances : probes[i] \in Nat
  BY OwnedConstants DEF InstanceIInv, InstanceTypes, WatchdogTypes
<1> SUFFICES ASSUME NEW i \in Instances, Lives(i), ~Lives(i)', UNCHANGED <<harness, troubles>>, Listens(i)
             PROVE  FALSE
  BY DEF HealthyStep
<1>1. alive' # alive
  BY DEF Lives
<1>2. ~\E h \in Harnesses : HarnessStep(h) \/ Crash(h) \/ ExitWithInstance(h)
  BY <1>0, HarnessMoves
<1>3. ~Trouble
  BY <1>0 DEF Trouble
<1>4. ~\E k \in Instances :
        \/ WatchdogConnects(k) \/ ConnectionCloses(k) \/ ProbeAnswered(k)
        \/ HandOff(k) \/ HandleExit(k)
  BY <1>1, <1>3 DEF WatchdogConnects, ConnectionCloses, ProbeAnswered, HandOff, HandleExit, processes
<1>5. ~\E q \in Processes : Bind(q) \/ InstanceDies(q)
  BY <1>1, <1>3 DEF Bind, InstanceDies
<1>6. ~UNCHANGED instanceVars
  BY <1>1 DEF instanceVars, processes
<1>7. PICK k \in Instances : ProbeRefused(k)
  BY <1>2, <1>4, <1>5, <1>6 DEF InstanceNext, WatchdogStep
<1>8. LastProbe(k) /\ Die({Child(k), Heir(k)})
  BY <1>1, <1>7 DEF ProbeRefused
<1>9. i = k
  BY <1>8, ProcessFacts DEF Die, Lives
<1>10. refusals < RefusalLimit /\ probes[k] <= refusals
  BY <1>0, <1>7, <1>9 DEF ProbeRefused, Listens, Probed
<1> QED BY <1>0, <1>8, <1>10 DEF LastProbe


-----------------------------------------------------------------------------
(* The machine.                                                            *)

\* The directories and the instances, which do not read each other's variables.
RunIInv == InstanceIInv /\ DirectoriesIInv

LEMMA RunStep == ASSUME RunIInv, [RunNext]_runVars PROVE RunIInv'
<1>1. [InstanceNext]_instanceVars /\ [DirectoriesStep]_directoriesVars
  BY DEF RunNext, Disk, Instance, runVars
<1> QED BY <1>1, InstanceIInvStep, DirectoriesIInvStep DEF RunIInv

LEMMA RunIInvHolds == RunSpec => []RunIInv
<1>1. RunInit => RunIInv
  BY InstanceStarts, DirectoriesStart DEF RunInit, RunIInv
<1>2. RunIInv /\ [RunNext]_runVars => RunIInv'
  BY RunStep
<1> QED BY <1>1, <1>2, PTL DEF RunSpec

\* Setups that nothing serializes leave each other what they use on the disk, have one instance at a
\* time on their user-data directories, and markers that are true and complete, for any number of
\* setups, ports, attempts and mishaps.
THEOREM MachineKept == RunSpec => []MachineInv
<1>1. RunIInv => MachineInv
  BY InstanceIInvGives, DirectoriesIInvGives DEF RunIInv, MachineInv
<1> QED BY <1>1, RunIInvHolds, PTL

\* No exit handler records a death that its harness has ordered.
THEOREM OrderedDeathsUnrecorded == RunSpec => OrderedDeathUnrecorded
<1>1. RunIInv /\ [RunNext]_runVars => [OrderedStep]_instanceVars
  <2> SUFFICES ASSUME RunIInv, [RunNext]_runVars PROVE [OrderedStep]_instanceVars
    OBVIOUS
  <2>1. [InstanceNext]_instanceVars
    BY DEF RunNext, Disk, Instance, runVars
  <2> QED BY <2>1, OrderedSteps DEF RunIInv
<1> QED BY <1>1, RunIInvHolds, PTL DEF RunSpec, OrderedDeathUnrecorded, OrderedStep

\* And no watchdog ends an instance whose harness listens, where a server that listens refuses
\* fewer connects than a watchdog makes before it decides.
THEOREM NoDeathIsMistaken ==
  ASSUME RefusalLimit < ProbeLimit
  PROVE  RunSpec => NoDeathMistaken
<1>1. RunIInv /\ [RunNext]_runVars => [HealthyStep]_instanceVars
  <2> SUFFICES ASSUME RunIInv, [RunNext]_runVars PROVE [HealthyStep]_instanceVars
    OBVIOUS
  <2>1. [InstanceNext]_instanceVars
    BY DEF RunNext, Disk, Instance, runVars
  <2> QED BY <2>1, HealthySteps DEF RunIInv
<1>2. RunSpec => [][HealthyStep]_instanceVars
  BY <1>1, RunIInvHolds, PTL DEF RunSpec
<1>3. ([][HealthyStep]_instanceVars) => HealthySpared
  BY PTL DEF HealthySpared, HealthyStep
<1> QED BY <1>2, <1>3, OrderedDeathsUnrecorded, PTL DEF NoDeathMistaken
=============================================================================
