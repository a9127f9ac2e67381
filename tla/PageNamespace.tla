--------------------------- MODULE PageNamespace ---------------------------
(***************************************************************************)
(* evalInObsidian and the namespace it installs in the page of a vault     *)
(* (src/eval/eval-in-obsidian.ts, src/namespace/namespace-bootstrap.ts):   *)
(* the version check, the bootstrap, the call of evalWrapper, the          *)
(* temporary plugin by which a namespace gets at the `obsidian` module,    *)
(* the contexts shared between closures, and on mobile the requests for    *)
(* trusted input, which every attached host hears and one may serve        *)
(* (src/android/appium/transport-appium.ts).                               *)
(*                                                                         *)
(* A namespace is an object of the page: a bootstrap replaces the one in   *)
(* force, while closures that were called in the old one go on with it.    *)
(* It is named by the evaluation that installed it.                        *)
(***************************************************************************)
EXTENDS Naturals, FiniteSets

CONSTANTS
  Evals,        (* calls of evalInObsidian; each bootstraps at most once *)
  Hosts,        (* Node processes attached to the page *)
  HostOf,       (* the host that makes each call *)
  VersionOf,    (* the bootstrap version of a host: the lib resolvers it registered *)
  ContextOf,    (* the context id of a call, or Nil *)
  Driving,      (* the calls whose closure may drive trusted input, once each *)
  Nil,
  EvalLimit,    (* bound on the calls of a behaviour, per platform *)
  TroubleLimit  (* bound on reloads, lost connections, failing calls and throws together *)

ContextIds == {ContextOf[e] : e \in Evals} \ {Nil}
Version(e) == VersionOf[HostOf[e]]

ASSUME PageAssumption ==
  /\ IsFiniteSet(Evals) /\ IsFiniteSet(Hosts)
  /\ HostOf \in [Evals -> Hosts]
  /\ DOMAIN VersionOf = Hosts /\ DOMAIN ContextOf = Evals
  /\ Nil \notin Evals /\ Driving \subseteq Evals
  /\ EvalLimit \in [{"desktop", "mobile"} -> Nat] /\ TroubleLimit \in Nat

VARIABLES
  platform,        (* "desktop", or "mobile": there one script runs at a time *)
  epc,              (* where each call stands *)
  ns,              (* the namespace in force, or Nil *)
  nsOf,            (* the namespace each call runs in *)
  obsidianModule,  (* the namespaces that have the module *)
  pendingObsidianModule, (* per namespace, the call whose load it shares, or Nil *)
  loading,         (* loading[e]: how far the load is that e started *)
  restricted,      (* community plugins are turned off *)
  directories,     (* the directory of the plugins, and the one it is in, exist *)
  manifests,       (* the loads whose temporary plugin the plugin manager knows *)
  folders,         (* the loads whose temporary plugin folder exists *)
  contexts,        (* per context id, the call that created the context *)
  context,         (* context[e]: the context the closure of e was given *)
  nextInputId, pendingInputs, claimedInputIds,
  idOf,            (* the id of the input request of a call *)
  tasks,           (* the requests that hosts are serving *)
  answer,          (* how the request of a call was answered *)
  troubles,
  injectors,       (* history: the hosts that injected the gesture of a call *)
  overtaken,       (* history: calls between whose check and call another version was installed *)
  replaced,        (* history: namespaces that were replaced during their load *)
  strays,          (* history: calls whose request was taken to another namespace than theirs *)
  threw,           (* history: calls that shared a load which threw *)
  excused          (* history: loads whose folder removal failed, or whose page went away *)

page == <<ns, obsidianModule, pendingObsidianModule, contexts>>
calls == <<epc, nsOf, context, loading>>
app == <<restricted, directories, manifests, folders>>
input == <<nextInputId, pendingInputs, claimedInputIds, idOf, answer, tasks>>
pageHistory == <<injectors, overtaken, replaced, strays, threw, excused>>
pageVars == <<platform, page, calls, app, input, troubles, pageHistory>>

Answers == {"none", "ok", "error", "timeout"}
Tasks == [host : Hosts, request : Evals, at : {"claim", "inject", "resolve", "reject"}]
Stages == {"no", "begun", "named", "absent", "rooted", "made", "written", "ran", "unloaded", "over"}
InPage == {"module", "enter", "callback", "input"}
Ended == {"answered", "load-failed", "no-namespace", "lost"}

PageTypeOK ==
  /\ platform \in {"desktop", "mobile"}
  /\ epc \in [Evals -> {"idle", "bootstrap", "call"} \cup InPage \cup Ended]
  /\ ns \in Evals \cup {Nil}
  /\ nsOf \in [Evals -> Evals \cup {Nil}]
  /\ obsidianModule \subseteq Evals
  /\ pendingObsidianModule \in [Evals -> Evals \cup {Nil}]
  /\ loading \in [Evals -> Stages]
  /\ restricted \in BOOLEAN /\ directories \in BOOLEAN
  /\ manifests \subseteq Evals /\ folders \subseteq Evals
  /\ contexts \in [ContextIds -> Evals \cup {Nil}]
  /\ context \in [Evals -> Evals \cup {Nil}]
  /\ nextInputId \in [Evals -> 0..Cardinality(Evals)]
  /\ pendingInputs \subseteq {e \in Evals : epc[e] = "input"}
  /\ claimedInputIds \in [Evals -> SUBSET (1..Cardinality(Evals))]
  /\ idOf \in [Evals -> 0..Cardinality(Evals)]
  /\ tasks \subseteq Tasks
  /\ answer \in [Evals -> Answers]
  /\ troubles \in 0..TroubleLimit
  /\ injectors \in [Evals -> SUBSET Hosts]
  /\ overtaken \subseteq Evals /\ replaced \subseteq Evals
  /\ strays \subseteq Evals /\ threw \subseteq Evals /\ excused \subseteq Evals

PageInit ==
  /\ platform \in {"desktop", "mobile"}
  /\ epc = [e \in Evals |-> "idle"]
  /\ ns = Nil /\ nsOf = [e \in Evals |-> Nil]
  /\ obsidianModule = {} /\ pendingObsidianModule = [n \in Evals |-> Nil]
  /\ loading = [e \in Evals |-> "no"]
  /\ restricted \in BOOLEAN /\ directories \in BOOLEAN
  /\ manifests = {} /\ folders = {}
  /\ contexts = [k \in ContextIds |-> Nil] /\ context = [e \in Evals |-> Nil]
  /\ nextInputId = [n \in Evals |-> 0]
  /\ pendingInputs = {} /\ claimedInputIds = [n \in Evals |-> {}]
  /\ idOf = [e \in Evals |-> 0] /\ tasks = {}
  /\ answer = [e \in Evals |-> "none"]
  /\ troubles = 0
  /\ injectors = [e \in Evals |-> {}]
  /\ overtaken = {} /\ replaced = {} /\ strays = {} /\ threw = {} /\ excused = {}

Trouble ==
  /\ troubles < TroubleLimit
  /\ troubles' = troubles + 1

(* Appium runs the scripts of a session one after another. *)
CanSend(e) == platform = "mobile" => \A f \in Evals : epc[f] \notin InPage

----------------------------------------------------------------------------
(* Node: the version check, the bootstrap, the call. *)

(* Mutant: a namespace of any version will do. *)
AnyNamespace(e) == ns # Nil

IsCurrent(e) ==
  /\ ns # Nil
  /\ Version(ns) = Version(e)

CheckVersion(e) ==
  /\ epc[e] = "idle" /\ CanSend(e)
  /\ Cardinality({f \in Evals : epc[f] # "idle"}) < EvalLimit[platform]
  /\ epc' = [epc EXCEPT ![e] = IF IsCurrent(e) THEN "call" ELSE "bootstrap"]
  /\ UNCHANGED <<platform, page, nsOf, context, loading, app, input, troubles, pageHistory>>

(* What a bootstrap takes over from the namespace it replaces. *)
(* Mutant: it starts with no contexts. *)
ForgetContexts == contexts' = [k \in ContextIds |-> Nil]

existingContexts == contexts' = contexts

existingObsidianModule(e) ==
  obsidianModule' = IF ns \in obsidianModule THEN obsidianModule \cup {e} ELSE obsidianModule

bootstrapNamespace(e) ==
  /\ epc[e] = "bootstrap" /\ CanSend(e)
  /\ ns' = e
  /\ existingContexts
  /\ existingObsidianModule(e)
  /\ epc' = [epc EXCEPT ![e] = "call"]
  /\ overtaken' = overtaken \cup {f \in Evals : epc[f] = "call" /\ Version(f) # Version(e)}
  /\ replaced' = IF ns # Nil /\ pendingObsidianModule[ns] # Nil
                 THEN replaced \cup {ns} ELSE replaced
  /\ UNCHANGED <<platform, pendingObsidianModule, nsOf, context, loading, app, input,
                 troubles, injectors, strays, threw, excused>>

(* loadObsidianModule up to its first await: community plugins are turned on first where they
   are off, and the temporary plugin is made known to the plugin manager. *)
NameTemporaryPlugin(e) ==
  /\ loading' = [loading EXCEPT ![e] = "named"]
  /\ manifests' = manifests \cup {e}

StartLoad(e) ==
  IF restricted
  THEN loading' = [loading EXCEPT ![e] = "begun"] /\ UNCHANGED manifests
  ELSE NameTemporaryPlugin(e)

(* getObsidianModule: the loads that are under way are shared. *)
(* Mutant: each caller starts a load of its own. *)
LoadAnyway(e) ==
  /\ pendingObsidianModule' = [pendingObsidianModule EXCEPT ![ns] = e]
  /\ StartLoad(e)

ShareOrLoad(e) ==
  IF pendingObsidianModule[ns] = Nil
  THEN /\ pendingObsidianModule' = [pendingObsidianModule EXCEPT ![ns] = e]
       /\ StartLoad(e)
  ELSE UNCHANGED <<pendingObsidianModule, loading, manifests>>

evalWrapper(e) ==
  /\ epc[e] = "call" /\ CanSend(e) /\ ns # Nil
  /\ nsOf' = [nsOf EXCEPT ![e] = ns]
  /\ IF ns \in obsidianModule
     THEN /\ epc' = [epc EXCEPT ![e] = "enter"]
          /\ UNCHANGED <<pendingObsidianModule, loading, manifests>>
     ELSE /\ epc' = [epc EXCEPT ![e] = "module"]
          /\ ShareOrLoad(e)
  /\ UNCHANGED <<platform, ns, obsidianModule, contexts, context, restricted, directories, folders,
                 input, troubles, pageHistory>>

(* The page was reloaded between the check and the call. *)
NoNamespace(e) ==
  /\ epc[e] = "call" /\ CanSend(e) /\ ns = Nil
  /\ epc' = [epc EXCEPT ![e] = "no-namespace"]
  /\ UNCHANGED <<platform, page, nsOf, context, loading, app, input, troubles, pageHistory>>

----------------------------------------------------------------------------
(* The page: loadObsidianModule, in the steps between its awaits. *)

IsLoading(e) == epc[e] = "module" /\ loading[e] # "no"

(* Mutant: restricted mode is not turned off first, in which loadPlugin runs nothing. *)
StayRestricted(e) ==
  /\ IsLoading(e) /\ loading[e] = "begun"
  /\ NameTemporaryPlugin(e)
  /\ UNCHANGED <<platform, page, epc, nsOf, context, restricted, directories, folders, input, troubles,
                 pageHistory>>

EnableCommunityPlugins(e) ==
  /\ IsLoading(e) /\ loading[e] = "begun"
  /\ restricted' = FALSE
  /\ NameTemporaryPlugin(e)
  /\ UNCHANGED <<platform, page, epc, nsOf, context, directories, folders, input, troubles, pageHistory>>

LoadGoesTo(e, stage) ==
  /\ loading' = [loading EXCEPT ![e] = stage]
  /\ UNCHANGED <<platform, ns, pendingObsidianModule, contexts, epc, nsOf, context, restricted, input,
                 troubles, pageHistory>>

(* The two directories above the folder are looked for and made alike, and are one here. *)
LookForDirectories(e) ==
  /\ IsLoading(e) /\ loading[e] = "named"
  /\ LoadGoesTo(e, IF directories THEN "rooted" ELSE "absent")
  /\ UNCHANGED <<obsidianModule, directories, manifests, folders>>

(* Another load may have made them meanwhile: then this throws, or does nothing. *)
MakeDirectories(e) ==
  /\ IsLoading(e) /\ loading[e] = "absent"
  /\ directories' = TRUE
  /\ LoadGoesTo(e, "rooted")
  /\ UNCHANGED <<obsidianModule, manifests, folders>>

MakeTemporaryFolder(e) ==
  /\ IsLoading(e) /\ loading[e] = "rooted"
  /\ folders' = folders \cup {e}
  /\ LoadGoesTo(e, "made")
  /\ UNCHANGED <<obsidianModule, directories, manifests>>

WriteTemporaryPlugin(e) ==
  /\ IsLoading(e) /\ loading[e] = "made"
  /\ LoadGoesTo(e, "written")
  /\ UNCHANGED <<obsidianModule, directories, manifests, folders>>

(* main.js of the temporary plugin stores the module in the namespace then in force. *)
StoreModule == obsidianModule' = IF restricted THEN obsidianModule ELSE obsidianModule \cup {ns}

RunTemporaryPlugin(e) ==
  /\ IsLoading(e) /\ loading[e] = "written"
  /\ StoreModule
  /\ LoadGoesTo(e, "ran")
  /\ UNCHANGED <<directories, manifests, folders>>

UnloadTemporaryPlugin(e) ==
  /\ IsLoading(e) /\ loading[e] = "ran"
  /\ manifests' = manifests \ {e}
  /\ LoadGoesTo(e, "unloaded")
  /\ UNCHANGED <<obsidianModule, directories, folders>>

(* The folder is removed; a failed removal is only reported. *)
(* Mutant: the folder stays. *)
KeepFolder(e) == UNCHANGED <<folders, troubles, excused>>

RemoveFolder(e) ==
  \/ /\ folders' = folders \ {e}
     /\ UNCHANGED <<troubles, excused>>
  \/ /\ Trouble
     /\ excused' = excused \cup {e}
     /\ UNCHANGED folders

(* All who share the load go on, or fail, together. *)
ForgetPending(n) ==
  pendingObsidianModule' = [pendingObsidianModule EXCEPT ![n] = Nil]

Sharing(n) == {f \in Evals : epc[f] = "module" /\ nsOf[f] = n}

EndLoad(e) ==
  LET n == nsOf[e] IN
  /\ IsLoading(e) /\ loading[e] = "unloaded"
  /\ RemoveFolder(e)
  /\ ForgetPending(n)
  /\ epc' = [f \in Evals |->
              IF f \in Sharing(n) THEN IF n \in obsidianModule THEN "enter" ELSE "load-failed"
              ELSE epc[f]]
  /\ loading' = [loading EXCEPT ![e] = "over"]
  /\ UNCHANGED <<platform, ns, obsidianModule, contexts, nsOf, context, restricted, directories,
                 manifests, input, injectors, overtaken, replaced, strays, threw>>

(* One of its awaits throws. No finally removes what has been made, and all who share the load
   fail, whatever has come of the await by then. *)
(* Mutant: only a load that ends well is forgotten. *)
ThrowsAndStaysPending(e) ==
  /\ IsLoading(e) /\ loading[e] \notin {"unloaded", "over"}
  /\ Trouble
  /\ epc' = [f \in Evals |-> IF f \in Sharing(nsOf[e]) THEN "load-failed" ELSE epc[f]]
  /\ loading' = [loading EXCEPT ![e] = "over"]
  /\ threw' = threw \cup Sharing(nsOf[e])
  /\ UNCHANGED <<platform, page, nsOf, context, app, input, injectors, overtaken, replaced, strays,
                 excused>>

LoadThrows(e) ==
  LET n == nsOf[e] IN
  /\ IsLoading(e) /\ loading[e] \notin {"unloaded", "over"}
  /\ \/ Trouble
     \/ loading[e] = "absent" /\ directories /\ UNCHANGED troubles
  /\ IF loading[e] = "begun" THEN restricted' \in {restricted, FALSE} ELSE UNCHANGED restricted
  /\ \/ UNCHANGED obsidianModule
     \/ loading[e] = "written" /\ StoreModule
  /\ ForgetPending(n)
  /\ epc' = [f \in Evals |-> IF f \in Sharing(n) THEN "load-failed" ELSE epc[f]]
  /\ loading' = [loading EXCEPT ![e] = "over"]
  /\ threw' = threw \cup Sharing(n)
  /\ UNCHANGED <<platform, ns, contexts, nsOf, context, directories, manifests, folders, input,
                 injectors, overtaken, replaced, strays, excused>>

----------------------------------------------------------------------------
(* The page: the closure. *)

EnterCallback(e) ==
  LET k == ContextOf[e] IN
  /\ epc[e] = "enter"
  /\ epc' = [epc EXCEPT ![e] = "callback"]
  /\ IF k = Nil
     THEN UNCHANGED <<contexts, context>>
     ELSE LET c == IF contexts[k] = Nil THEN e ELSE contexts[k]
          IN contexts' = [contexts EXCEPT ![k] = c] /\ context' = [context EXCEPT ![e] = c]
  /\ UNCHANGED <<platform, ns, obsidianModule, pendingObsidianModule, nsOf, loading, app,
                 input, troubles, pageHistory>>

LeaveCallback(e) ==
  /\ epc[e] = "callback"
  /\ epc' = [epc EXCEPT ![e] = "answered"]
  /\ UNCHANGED <<platform, page, nsOf, context, loading, app, input, troubles, pageHistory>>

(* The binding tells every attached host. *)
requestHostInput(e) ==
  LET n == nsOf[e] IN
  /\ platform = "mobile" /\ e \in Driving
  /\ epc[e] = "callback" /\ answer[e] = "none"
  /\ nextInputId' = [nextInputId EXCEPT ![n] = @ + 1]
  /\ idOf' = [idOf EXCEPT ![e] = nextInputId[n] + 1]
  /\ pendingInputs' = pendingInputs \cup {e}
  /\ tasks' = tasks \cup [host : Hosts, request : {e}, at : {"claim"}]
  /\ epc' = [epc EXCEPT ![e] = "input"]
  /\ UNCHANGED <<platform, page, nsOf, context, loading, app, claimedInputIds, answer,
                 troubles, pageHistory>>

(* Mutant: the request stays pending. *)
SettleAndKeep(e, how) ==
  /\ pendingInputs' = pendingInputs
  /\ answer' = [answer EXCEPT ![e] = how]
  /\ epc' = [epc EXCEPT ![e] = "callback"]

(* The promise of the request settles. *)
SettleInput(e, how) ==
  /\ pendingInputs' = pendingInputs \ {e}
  /\ answer' = [answer EXCEPT ![e] = how]
  /\ epc' = [epc EXCEPT ![e] = "callback"]

(* Mutant: only a request that no host is serving is given up. *)
TimeOutUnserved(e) ==
  /\ e \in pendingInputs
  /\ \E t \in tasks : t.request = e
  /\ SettleInput(e, "timeout")
  /\ UNCHANGED <<platform, page, nsOf, context, loading, app, nextInputId, claimedInputIds,
                 idOf, tasks, troubles, pageHistory>>

InputTimesOut(e) ==
  /\ e \in pendingInputs
  /\ SettleInput(e, "timeout")
  /\ UNCHANGED <<platform, page, nsOf, context, loading, app, nextInputId, claimedInputIds,
                 idOf, tasks, troubles, pageHistory>>

----------------------------------------------------------------------------
(* A host: handleInputRequest. Its calls go to the page and namespace of the moment. *)

Move(t, to) == tasks' = (tasks \ {t}) \cup {[t EXCEPT !.at = to]}
Stray(t) == strays' = IF ns = nsOf[t.request] THEN strays ELSE strays \cup {t.request}

(* Mutant: the loser answers as well, as the winner will have done its work. *)
LoserAnswers(t) == Move(t, "resolve")

LoserReturns(t) == tasks' = tasks \ {t}

(* Mutant: every host that hears of a request serves it. *)
ServeUnclaimed(t) ==
  /\ t \in tasks /\ t.at = "claim"
  /\ Move(t, "inject")
  /\ Stray(t)
  /\ UNCHANGED <<platform, page, calls, app, nextInputId, pendingInputs, claimedInputIds, idOf,
                 answer, troubles, injectors, overtaken, replaced, threw, excused>>

(* A page without the namespace denies nothing. *)
claimInput(t) ==
  LET id == idOf[t.request] IN
  /\ t \in tasks /\ t.at = "claim"
  /\ IF ns # Nil /\ id \in claimedInputIds[ns]
     THEN LoserReturns(t) /\ UNCHANGED claimedInputIds
     ELSE /\ Move(t, "inject")
          /\ IF ns = Nil THEN UNCHANGED claimedInputIds
             ELSE claimedInputIds' = [claimedInputIds EXCEPT ![ns] = @ \cup {id}]
  /\ Stray(t)
  /\ UNCHANGED <<platform, page, calls, app, nextInputId, pendingInputs, idOf, answer, troubles,
                 injectors, overtaken, replaced, threw, excused>>

sendAll(t) ==
  /\ t \in tasks /\ t.at = "inject"
  /\ Move(t, "resolve")
  /\ injectors' = [injectors EXCEPT ![t.request] = @ \cup {t.host}]
  /\ UNCHANGED <<platform, page, calls, app, nextInputId, pendingInputs, claimedInputIds, idOf,
                 answer, troubles, overtaken, replaced, strays, threw, excused>>

(* A command fails: the claim, or one of those of the gesture, after which part of it was injected. *)
HostFails(t) ==
  /\ t \in tasks /\ t.at \in {"claim", "inject"}
  /\ Trouble
  /\ Move(t, "reject")
  /\ injectors' = IF t.at = "inject"
                  THEN [injectors EXCEPT ![t.request] = @ \cup {t.host}] ELSE injectors
  /\ UNCHANGED <<platform, page, calls, app, nextInputId, pendingInputs, claimedInputIds, idOf,
                 answer, overtaken, replaced, strays, threw, excused>>

(* The request which the namespace in force knows by the id of the task. *)
AnsweredBy(t) == {r \in pendingInputs : nsOf[r] = ns /\ idOf[r] = idOf[t.request]}

resolveInput(t) ==
  /\ t \in tasks /\ t.at \in {"resolve", "reject"}
  /\ tasks' = tasks \ {t}
  /\ IF AnsweredBy(t) = {}
     THEN UNCHANGED <<pendingInputs, answer, epc>>
     ELSE \E r \in AnsweredBy(t) : SettleInput(r, IF t.at = "resolve" THEN "ok" ELSE "error")
  /\ Stray(t)
  /\ UNCHANGED <<platform, page, nsOf, context, loading, app, nextInputId, claimedInputIds, idOf,
                 troubles, injectors, overtaken, replaced, threw, excused>>

(* The socket of a host closes: what it was serving is never answered. *)
HostDetaches(h) ==
  /\ \E t \in tasks : t.host = h
  /\ Trouble
  /\ tasks' = {t \in tasks : t.host # h}
  /\ UNCHANGED <<platform, page, calls, app, nextInputId, pendingInputs, claimedInputIds, idOf,
                 answer, pageHistory>>

(* The page reloads: its namespaces, closures and manifests are gone, the folders on disk are not. *)
PageReloads ==
  /\ ns # Nil
  /\ Trouble
  /\ ns' = Nil
  /\ contexts' = [k \in ContextIds |-> Nil]
  /\ epc' = [e \in Evals |-> IF epc[e] \in InPage THEN "lost" ELSE epc[e]]
  /\ pendingInputs' = {}
  /\ manifests' = {}
  /\ excused' = excused \cup {e \in folders : IsLoading(e)}
  /\ UNCHANGED <<platform, obsidianModule, pendingObsidianModule, nsOf, context, loading, restricted,
                 directories, folders, nextInputId, claimedInputIds, idOf, answer, tasks, injectors,
                 overtaken, replaced, strays, threw>>

LoadStep(e) ==
  \/ EnableCommunityPlugins(e) \/ LookForDirectories(e) \/ MakeDirectories(e) \/ MakeTemporaryFolder(e)
  \/ WriteTemporaryPlugin(e) \/ RunTemporaryPlugin(e) \/ UnloadTemporaryPlugin(e)

PageStep ==
  \/ \E e \in Evals :
       \/ bootstrapNamespace(e) \/ evalWrapper(e) \/ NoNamespace(e)
       \/ LoadStep(e) \/ EndLoad(e)
       \/ EnterCallback(e) \/ LeaveCallback(e) \/ InputTimesOut(e)
  \/ \E t \in tasks : claimInput(t) \/ sendAll(t) \/ resolveInput(t)

PageNext ==
  \/ PageStep
  \/ \E e \in Evals : CheckVersion(e) \/ requestHostInput(e) \/ LoadThrows(e)
  \/ \E t \in tasks : HostFails(t)
  \/ \E h \in Hosts : HostDetaches(h)
  \/ PageReloads

PageSpec == PageInit /\ [][PageNext]_pageVars

(* Scripts are run, the promises of the page go on, its timers fire, and hosts go on. *)
PageFairSpec == PageSpec /\ WF_pageVars(PageStep)

----------------------------------------------------------------------------
(* A gesture is injected by one host only, unless a host put its claim to another namespace
   than the one that made the request (namespace-bootstrap.ts:464, transport-appium.ts:1036). *)
GestureOnce ==
  \A r \in Evals : Cardinality(injectors[r]) > 1 => r \in strays

(* A request that is answered with success was injected by the time, unless the host of another
   request with its id answered into a namespace that was not there when it started
   (namespace-bootstrap.ts:587). *)
AnsweredByItsGesture ==
  \A r \in Evals :
    answer[r] = "ok" =>
      \/ injectors[r] # {}
      \/ \E s \in strays \ {r} : idOf[s] = idOf[r]

(* A closure is given the lib of its own host, unless another version was installed between its
   check and its call (namespace-bootstrap.ts:84). *)
LibIsOwn ==
  \A e \in Evals : nsOf[e] # Nil => Version(nsOf[e]) = Version(e) \/ e \in overtaken

(* Loads of one namespace are shared, never run side by side (namespace-bootstrap.ts:545). *)
LoadsAreShared ==
  \A e, f \in Evals : IsLoading(e) /\ IsLoading(f) /\ nsOf[e] = nsOf[f] => e = f

(* What a namespace waits for is under way in it: a load that has ended, or has thrown, is not
   handed to the calls that come after it (namespace-bootstrap.ts:545). *)
PendingIsUnderWay ==
  ns # Nil /\ pendingObsidianModule[ns] # Nil =>
    IsLoading(pendingObsidianModule[ns]) /\ nsOf[pendingObsidianModule[ns]] = ns

(* A call fails for want of the module only if its namespace was replaced while it loaded, or if
   the load that it shared threw (namespace-bootstrap.ts:1445). *)
LoadFailsForAReason ==
  \A e \in Evals : epc[e] = "load-failed" => nsOf[e] \in replaced \/ e \in threw

(* A temporary plugin belongs to a load under way: its folder is left behind only if its removal
   failed, the page went away or the load threw, its manifest only if the load threw
   (namespace-bootstrap.ts:1430-1439). *)
NothingLeftOfLoads ==
  /\ \A e \in folders : IsLoading(e) \/ e \in excused \cup threw
  /\ \A e \in manifests : (IsLoading(e) /\ loading[e] # "unloaded") \/ e \in threw

(* As long as the page stands, all closures with one context id share one context, whichever
   namespace they run in (namespace-bootstrap.ts:442). *)
ContextIsShared ==
  \A e, f \in Evals :
    epc[e] \in {"callback", "input"} /\ epc[f] \in {"callback", "input"} /\ ContextOf[e] = ContextOf[f]
      => context[e] = context[f]

(* Every call that has begun ends, with no help of the transport's cap (eval-in-obsidian.ts:860). *)
EveryEvalEnds ==
  []<>(\A e \in Evals : epc[e] \in {"idle"} \cup Ended)

(* A gesture that several hosts hear of is made once, and answered when it is made. *)
GestureInv == PageTypeOK /\ GestureOnce /\ AnsweredByItsGesture

(* Evaluations that share a page get what they would have got alone, their lib, the module and their
   context, and nothing of a load is left behind but for the named reasons. *)
NamespaceInv ==
  /\ LibIsOwn /\ LoadsAreShared /\ PendingIsUnderWay /\ LoadFailsForAReason
  /\ NothingLeftOfLoads /\ ContextIsShared
=============================================================================
