----------------------------- MODULE IsolateProofs -----------------------------
(***************************************************************************)
(* Proofs about Isolate, for any bundles and any sequence of calls: what a *)
(* handler meets when it runs, and what the flags between calls are worth. *)
(***************************************************************************)
EXTENDS Isolate, TLAPS

Preparing == {"engine", "boot", "lock", "mount", "apply", "prepared"}

(* The steps of a preparation, each with what it leaves to the next.       *)
Stepwise ==
  /\ pc \in Preparing \ {"engine"} => engine = Language(bundle)
  /\ pc = "lock" => ready /\ policy.network = Nobody
  /\ pc \in {"mount", "apply"} => policy = Everything(Nobody)
  /\ pc = "apply" => bundle \in Manifested
  /\ pc = "prepared" => policy = PolicyOf(bundle)
  /\ pc \in {"apply", "prepared"} => current = bundle

Whole == upset \cap HalfWay = {}

(* Without an engine the flags say nothing: the next preparation creates   *)
(* one and clears them.                                                    *)
Flags ==
  /\ Whole /\ engine # "none" =>
       /\ ready => booted
       /\ current # Nobody => app = current
  /\ Whole /\ pc \in {"lock", "mount", "apply", "prepared"} => booted

(* An interpreter that was restored and has not had its hook is not ready, *)
(* and the hook is due.                                                    *)
Hooked ==
  upset \cap {"hook", "inPlace"} = {} /\ engine # "none" =>
    /\ warmRestored => booted
    /\ bare => booted /\ warm /\ ~warmRestored /\ ~ready

Untouched == upset \cap (Passing \cup HalfWay) = {}

Loaded(b) ==
  engine = Language(b) /\ booted /\ app = b /\ policy = PolicyOf(b)

(* An isolate nothing has happened to since it materialised a bundle still *)
(* has it, and prepares and runs that bundle only.                         *)
Materialised ==
  Untouched =>
    /\ fingerprint # Nobody /\ pc \notin Preparing => Loaded(fingerprint)
    /\ pc \in {"session", "import", "run", "reset", "cleanup"}
         => bundle = fingerprint
    /\ pc \in Preparing /\ ~materialising => bundle = fingerprint

(* Python has an entrypoint module only from a handler to its cleanup.     *)
OwnModule ==
  "module" \notin upset =>
    /\ code # Nobody => pc \in {"cleanup", "reset"} /\ bundle \notin JavaScript
    /\ Untouched /\ pc \in {"cleanup", "reset"} /\ bundle \notin JavaScript
         => code = bundle

JavaScriptRuns ==
  pc = "run" /\ bundle \in JavaScript => engine = "javascript"

IInv ==
  /\ TypeOK /\ Stepwise /\ Flags /\ Hooked /\ Materialised /\ OwnModule
  /\ JavaScriptRuns

-----------------------------------------------------------------------------
(* Every step below looks at the whole invariant, so it is in the open.      *)
USE IsolateAssumption DEF IInv, TypeOK, Stepwise, Flags, Hooked, Materialised,
    OwnModule, JavaScriptRuns, Loaded, Whole, Untouched, Preparing, Steps,
    Passing, HalfWay, Language, Everything, PolicyOf

(* Calls of the host: nothing but the call in progress changes.          *)

LEMMA LoadBundleStep ==
  ASSUME IInv, NEW b \in Bundles, LoadBundle(b)
  PROVE  IInv'
<1> USE DEF LoadBundle, Start, Goto, engineState, flags, config
<1>1. TypeOK'
  OBVIOUS
<1>2. Stepwise'
  OBVIOUS
<1>3. Flags'
  OBVIOUS
<1>4. Hooked'
  OBVIOUS
<1>5. Materialised'
  OBVIOUS
<1>6. OwnModule'
  OBVIOUS
<1>7. JavaScriptRuns'
  OBVIOUS
<1>8. QED
  BY <1>1, <1>2, <1>3, <1>4, <1>5, <1>6, <1>7

LEMMA InvokeStep ==
  ASSUME IInv, NEW b \in Bundles, Invoke(b)
  PROVE  IInv'
<1> USE DEF Invoke, Start, Goto, engineState, flags, config
<1>1. TypeOK'
  OBVIOUS
<1>2. Stepwise'
  OBVIOUS
<1>3. Flags'
  OBVIOUS
<1>4. Hooked'
  OBVIOUS
<1>5. Materialised'
  OBVIOUS
<1>6. OwnModule'
  OBVIOUS
<1>7. JavaScriptRuns'
  OBVIOUS
<1>8. QED
  BY <1>1, <1>2, <1>3, <1>4, <1>5, <1>6, <1>7

LEMMA PrewarmHandlerStep ==
  ASSUME IInv, NEW b \in Bundles, PrewarmHandler(b)
  PROVE  IInv'
<1> USE DEF PrewarmHandler, Start, Goto, engineState, flags, config
<1>1. TypeOK'
  OBVIOUS
<1>2. Stepwise'
  OBVIOUS
<1>3. Flags'
  OBVIOUS
<1>4. Hooked'
  OBVIOUS
<1>5. Materialised'
  OBVIOUS
<1>6. OwnModule'
  OBVIOUS
<1>7. JavaScriptRuns'
  OBVIOUS
<1>8. QED
  BY <1>1, <1>2, <1>3, <1>4, <1>5, <1>6, <1>7

LEMMA RunInlinePythonStep ==
  ASSUME IInv, NEW b \in Bundles, RunInlinePython(b)
  PROVE  IInv'
<1> USE DEF RunInlinePython, Goto, Upset, engineState, flags, config
<1>1. TypeOK'
  OBVIOUS
<1>2. Stepwise'
  OBVIOUS
<1>3. Flags'
  OBVIOUS
<1>4. Hooked'
  OBVIOUS
<1>5. Materialised'
  OBVIOUS
<1>6. OwnModule'
  OBVIOUS
<1>7. JavaScriptRuns'
  OBVIOUS
<1>8. QED
  BY <1>1, <1>2, <1>3, <1>4, <1>5, <1>6, <1>7

-----------------------------------------------------------------------------
(* Preparation: each step leaves what Stepwise says to the next.         *)

LEMMA EnsureEngineStep ==
  ASSUME IInv, EnsureEngine
  PROVE  IInv'
<1> USE DEF EnsureEngine, engineState, flags, Scrubbed, NotPrepared, Goto,
    call, config
<1>1. TypeOK'
  OBVIOUS
<1>2. Stepwise'
  OBVIOUS
<1>3. Flags'
  OBVIOUS
<1>4. Hooked'
  OBVIOUS
<1>5. Materialised'
  OBVIOUS
<1>6. OwnModule'
  OBVIOUS
<1>7. JavaScriptRuns'
  OBVIOUS
<1>8. QED
  BY <1>1, <1>2, <1>3, <1>4, <1>5, <1>6, <1>7

LEMMA EngineFailsStep ==
  ASSUME IInv, EngineFails
  PROVE  IInv'
<1> USE DEF EngineFails, Fail, Scrubbed, Goto, call, config, Upset
<1>1. TypeOK'
  OBVIOUS
<1>2. Stepwise'
  OBVIOUS
<1>3. Flags'
  OBVIOUS
<1>4. Hooked'
  OBVIOUS
<1>5. Materialised'
  OBVIOUS
<1>6. OwnModule'
  OBVIOUS
<1>7. JavaScriptRuns'
  OBVIOUS
<1>8. QED
  BY <1>1, <1>2, <1>3, <1>4, <1>5, <1>6, <1>7

LEMMA BootEnvironmentStep ==
  ASSUME IInv, BootEnvironment
  PROVE  IInv'
<1> USE DEF BootEnvironment, Forget, IsReady, NeedsHook, Restores, Goto, call,
    config, OtherLanguage
<1>1. TypeOK'
  OBVIOUS
<1>2. Stepwise'
  OBVIOUS
<1>3. Flags'
  OBVIOUS
<1>4. Hooked'
  OBVIOUS
<1>5. Materialised'
  OBVIOUS
<1>6. OwnModule'
  OBVIOUS
<1>7. JavaScriptRuns'
  OBVIOUS
<1>8. QED
  BY <1>1, <1>2, <1>3, <1>4, <1>5, <1>6, <1>7

LEMMA BootFailsStep ==
  ASSUME IInv, BootFails
  PROVE  IInv'
<1> USE DEF BootFails, IsReady, Fail, Forget, Restores, Goto, call, config,
    OtherLanguage, Upset
<1>1. TypeOK'
  OBVIOUS
<1>2. Stepwise'
  OBVIOUS
<1>3. Flags'
  OBVIOUS
<1>4. Hooked'
  <2>1. CASE booted' = booted
    BY <2>1
  <2>2. CASE booted' = TRUE
    BY <2>2
  <2>3. QED
    BY <2>1, <2>2
<1>5. Materialised'
  OBVIOUS
<1>6. OwnModule'
  OBVIOUS
<1>7. JavaScriptRuns'
  OBVIOUS
<1>8. QED
  BY <1>1, <1>2, <1>3, <1>4, <1>5, <1>6, <1>7

LEMMA AfterRestoreHookFailsStep ==
  ASSUME IInv, AfterRestoreHookFails
  PROVE  IInv'
<1> USE DEF AfterRestoreHookFails, NeedsHook, Fail, Forget, Restores, Goto,
    call, config, IsReady, Upset, OtherLanguage
<1>1. TypeOK'
  OBVIOUS
<1>2. Stepwise'
  OBVIOUS
<1>3. Flags'
  OBVIOUS
<1>4. Hooked'
  OBVIOUS
<1>5. Materialised'
  OBVIOUS
<1>6. OwnModule'
  OBVIOUS
<1>7. JavaScriptRuns'
  OBVIOUS
<1>8. QED
  BY <1>1, <1>2, <1>3, <1>4, <1>5, <1>6, <1>7

LEMMA LockPoliciesStep ==
  ASSUME IInv, LockPolicies
  PROVE  IInv'
<1> USE DEF LockPolicies, Locked, Goto, flags, call, config
<1>1. TypeOK'
  OBVIOUS
<1>2. Stepwise'
  OBVIOUS
<1>3. Flags'
  OBVIOUS
<1>4. Hooked'
  OBVIOUS
<1>5. Materialised'
  OBVIOUS
<1>6. OwnModule'
  OBVIOUS
<1>7. JavaScriptRuns'
  OBVIOUS
<1>8. QED
  BY <1>1, <1>2, <1>3, <1>4, <1>5, <1>6, <1>7

LEMMA LockFailsStep ==
  ASSUME IInv, LockFails
  PROVE  IInv'
<1> USE DEF LockFails, Fail, Locked, Goto, flags, call, config, Upset
<1>1. TypeOK'
  OBVIOUS
<1>2. Stepwise'
  OBVIOUS
<1>3. Flags'
  OBVIOUS
<1>4. Hooked'
  OBVIOUS
<1>5. Materialised'
  OBVIOUS
<1>6. OwnModule'
  OBVIOUS
<1>7. JavaScriptRuns'
  OBVIOUS
<1>8. QED
  BY <1>1, <1>2, <1>3, <1>4, <1>5, <1>6, <1>7

LEMMA MountStep ==
  ASSUME IInv, Mount
  PROVE  IInv'
<1> USE DEF Mount, Goto, call, config
<1>1. TypeOK'
  OBVIOUS
<1>2. Stepwise'
  OBVIOUS
<1>3. Flags'
  OBVIOUS
<1>4. Hooked'
  OBVIOUS
<1>5. Materialised'
  OBVIOUS
<1>6. OwnModule'
  OBVIOUS
<1>7. JavaScriptRuns'
  OBVIOUS
<1>8. QED
  BY <1>1, <1>2, <1>3, <1>4, <1>5, <1>6, <1>7

LEMMA MountFailsStep ==
  ASSUME IInv, MountFails
  PROVE  IInv'
<1> USE DEF MountFails, Fail, Goto, flags, call, config, Upset
<1>1. TypeOK'
  OBVIOUS
<1>2. Stepwise'
  OBVIOUS
<1>3. Flags'
  OBVIOUS
<1>4. Hooked'
  OBVIOUS
<1>5. Materialised'
  OBVIOUS
<1>6. OwnModule'
  OBVIOUS
<1>7. JavaScriptRuns'
  OBVIOUS
<1>8. QED
  BY <1>1, <1>2, <1>3, <1>4, <1>5, <1>6, <1>7

LEMMA ApplyManifestStep ==
  ASSUME IInv, ApplyManifest
  PROVE  IInv'
<1> USE DEF ApplyManifest, Goto, flags, call, config
<1>1. TypeOK'
  OBVIOUS
<1>2. Stepwise'
  OBVIOUS
<1>3. Flags'
  OBVIOUS
<1>4. Hooked'
  OBVIOUS
<1>5. Materialised'
  OBVIOUS
<1>6. OwnModule'
  OBVIOUS
<1>7. JavaScriptRuns'
  OBVIOUS
<1>8. QED
  BY <1>1, <1>2, <1>3, <1>4, <1>5, <1>6, <1>7

LEMMA ApplyFailsStep ==
  ASSUME IInv, ApplyFails
  PROVE  IInv'
<1> USE DEF ApplyFails, Fail, Goto, flags, call, config, Upset
<1>1. TypeOK'
  OBVIOUS
<1>2. Stepwise'
  OBVIOUS
<1>3. Flags'
  OBVIOUS
<1>4. Hooked'
  OBVIOUS
<1>5. Materialised'
  OBVIOUS
<1>6. OwnModule'
  OBVIOUS
<1>7. JavaScriptRuns'
  OBVIOUS
<1>8. QED
  BY <1>1, <1>2, <1>3, <1>4, <1>5, <1>6, <1>7

LEMMA PreparedStep ==
  ASSUME IInv, Prepared
  PROVE  IInv'
<1> USE DEF Prepared, Goto, engineState, flags, call, config
<1>1. TypeOK'
  OBVIOUS
<1>2. Stepwise'
  OBVIOUS
<1>3. Flags'
  OBVIOUS
<1>4. Hooked'
  OBVIOUS
<1>5. Materialised'
  OBVIOUS
<1>6. OwnModule'
  OBVIOUS
<1>7. JavaScriptRuns'
  OBVIOUS
<1>8. QED
  BY <1>1, <1>2, <1>3, <1>4, <1>5, <1>6, <1>7

LEMMA HandlerSessionStep ==
  ASSUME IInv, HandlerSession
  PROVE  IInv'
<1> USE DEF HandlerSession, Goto, engineState, flags, config
<1>1. TypeOK'
  OBVIOUS
<1>2. Stepwise'
  OBVIOUS
<1>3. Flags'
  OBVIOUS
<1>4. Hooked'
  OBVIOUS
<1>5. Materialised'
  OBVIOUS
<1>6. OwnModule'
  OBVIOUS
<1>7. JavaScriptRuns'
  OBVIOUS
<1>8. QED
  BY <1>1, <1>2, <1>3, <1>4, <1>5, <1>6, <1>7

-----------------------------------------------------------------------------
(* Running, and what the ways to end a session leave.                    *)

LEMMA PrewarmEntrypointStep ==
  ASSUME IInv, PrewarmEntrypoint
  PROVE  IInv'
<1> USE DEF PrewarmEntrypoint, Imported, Goto, Upset, flags, call, config
<1>1. TypeOK'
  OBVIOUS
<1>2. Stepwise'
  OBVIOUS
<1>3. Flags'
  OBVIOUS
<1>4. Hooked'
  OBVIOUS
<1>5. Materialised'
  OBVIOUS
<1>6. OwnModule'
  OBVIOUS
<1>7. JavaScriptRuns'
  OBVIOUS
<1>8. QED
  BY <1>1, <1>2, <1>3, <1>4, <1>5, <1>6, <1>7

LEMMA RunHandlerStep ==
  ASSUME IInv, RunHandler
  PROVE  IInv'
<1> USE DEF RunHandler, Imported, Goto, flags, call, config
<1>1. TypeOK'
  OBVIOUS
<1>2. Stepwise'
  OBVIOUS
<1>3. Flags'
  OBVIOUS
<1>4. Hooked'
  OBVIOUS
<1>5. Materialised'
  OBVIOUS
<1>6. OwnModule'
  OBVIOUS
<1>7. JavaScriptRuns'
  OBVIOUS
<1>8. QED
  BY <1>1, <1>2, <1>3, <1>4, <1>5, <1>6, <1>7

LEMMA RunWithoutEngineStep ==
  ASSUME IInv, RunWithoutEngine
  PROVE  IInv'
<1> USE DEF RunWithoutEngine, Goto, engineState, flags, call, config
<1>1. TypeOK'
  OBVIOUS
<1>2. Stepwise'
  OBVIOUS
<1>3. Flags'
  OBVIOUS
<1>4. Hooked'
  OBVIOUS
<1>5. Materialised'
  OBVIOUS
<1>6. OwnModule'
  OBVIOUS
<1>7. JavaScriptRuns'
  OBVIOUS
<1>8. QED
  BY <1>1, <1>2, <1>3, <1>4, <1>5, <1>6, <1>7

LEMMA RunIsAbandonedStep ==
  ASSUME IInv, RunIsAbandoned
  PROVE  IInv'
<1> USE DEF RunIsAbandoned, Fail, Imported, Goto, flags, call, config, Upset
<1>1. TypeOK'
  OBVIOUS
<1>2. Stepwise'
  OBVIOUS
<1>3. Flags'
  OBVIOUS
<1>4. Hooked'
  OBVIOUS
<1>5. Materialised'
  OBVIOUS
<1>6. OwnModule'
  OBVIOUS
<1>7. JavaScriptRuns'
  OBVIOUS
<1>8. QED
  BY <1>1, <1>2, <1>3, <1>4, <1>5, <1>6, <1>7

LEMMA ResetAfterInvocationStep ==
  ASSUME IInv, ResetAfterInvocation
  PROVE  IInv'
<1> USE DEF ResetAfterInvocation, Scrubbed, NotPrepared, Goto, Upset, call,
    config
<1>1. TypeOK'
  OBVIOUS
<1>2. Stepwise'
  OBVIOUS
<1>3. Flags'
  OBVIOUS
<1>4. Hooked'
  OBVIOUS
<1>5. Materialised'
  OBVIOUS
<1>6. OwnModule'
  OBVIOUS
<1>7. JavaScriptRuns'
  OBVIOUS
<1>8. QED
  BY <1>1, <1>2, <1>3, <1>4, <1>5, <1>6, <1>7

LEMMA ResetAfterInvocationFailsStep ==
  ASSUME IInv, ResetAfterInvocationFails
  PROVE  IInv'
<1> USE DEF ResetAfterInvocationFails, Fail, Scrubbed, Goto, call, config,
    Upset
<1>1. TypeOK'
  OBVIOUS
<1>2. Stepwise'
  OBVIOUS
<1>3. Flags'
  OBVIOUS
<1>4. Hooked'
  OBVIOUS
<1>5. Materialised'
  OBVIOUS
<1>6. OwnModule'
  OBVIOUS
<1>7. JavaScriptRuns'
  OBVIOUS
<1>8. QED
  BY <1>1, <1>2, <1>3, <1>4, <1>5, <1>6, <1>7

LEMMA FinishWithCleanupStep ==
  ASSUME IInv, FinishWithCleanup
  PROVE  IInv'
<1> USE DEF FinishWithCleanup, Mode, Goto, Upset, flags, call, config
<1>1. TypeOK'
  OBVIOUS
<1>2. Stepwise'
  OBVIOUS
<1>3. Flags'
  OBVIOUS
<1>4. Hooked'
  OBVIOUS
<1>5. Materialised'
  OBVIOUS
<1>6. OwnModule'
  OBVIOUS
<1>7. JavaScriptRuns'
  OBVIOUS
<1>8. QED
  BY <1>1, <1>2, <1>3, <1>4, <1>5, <1>6, <1>7

-----------------------------------------------------------------------------
(* Resets by the host, and warm states.                                  *)

LEMMA ResetToSnapshotStep ==
  ASSUME IInv, ResetToSnapshot
  PROVE  IInv'
<1> USE DEF ResetToSnapshot, HostReset, Scrubbed, NotPrepared, Upset, call,
    config
<1>1. TypeOK'
  OBVIOUS
<1>2. Stepwise'
  OBVIOUS
<1>3. Flags'
  OBVIOUS
<1>4. Hooked'
  OBVIOUS
<1>5. Materialised'
  OBVIOUS
<1>6. OwnModule'
  OBVIOUS
<1>7. JavaScriptRuns'
  OBVIOUS
<1>8. QED
  BY <1>1, <1>2, <1>3, <1>4, <1>5, <1>6, <1>7

LEMMA ResetToSnapshotFailsStep ==
  ASSUME IInv, ResetToSnapshotFails
  PROVE  IInv'
<1> USE DEF ResetToSnapshotFails, HostReset, Fail, Scrubbed, call, config,
    Upset
<1>1. TypeOK'
  OBVIOUS
<1>2. Stepwise'
  OBVIOUS
<1>3. Flags'
  OBVIOUS
<1>4. Hooked'
  OBVIOUS
<1>5. Materialised'
  OBVIOUS
<1>6. OwnModule'
  OBVIOUS
<1>7. JavaScriptRuns'
  OBVIOUS
<1>8. QED
  BY <1>1, <1>2, <1>3, <1>4, <1>5, <1>6, <1>7

LEMMA ResetInPlaceStep ==
  ASSUME IInv, ResetInPlace
  PROVE  IInv'
<1> USE DEF ResetInPlace, HostReset, Scrubbed, NotPrepared, Upset, call,
    config
<1>1. TypeOK'
  OBVIOUS
<1>2. Stepwise'
  OBVIOUS
<1>3. Flags'
  OBVIOUS
<1>4. Hooked'
  OBVIOUS
<1>5. Materialised'
  OBVIOUS
<1>6. OwnModule'
  OBVIOUS
<1>7. JavaScriptRuns'
  OBVIOUS
<1>8. QED
  BY <1>1, <1>2, <1>3, <1>4, <1>5, <1>6, <1>7

LEMMA ResetInPlaceFailsStep ==
  ASSUME IInv, ResetInPlaceFails
  PROVE  IInv'
<1> USE DEF ResetInPlaceFails, HostReset, Fail, Scrubbed, call, config, Upset
<1>1. TypeOK'
  OBVIOUS
<1>2. Stepwise'
  OBVIOUS
<1>3. Flags'
  OBVIOUS
<1>4. Hooked'
  OBVIOUS
<1>5. Materialised'
  OBVIOUS
<1>6. OwnModule'
  OBVIOUS
<1>7. JavaScriptRuns'
  OBVIOUS
<1>8. QED
  BY <1>1, <1>2, <1>3, <1>4, <1>5, <1>6, <1>7

LEMMA ResetInPlaceCreatesStep ==
  ASSUME IInv, ResetInPlaceCreates
  PROVE  IInv'
<1> USE DEF ResetInPlaceCreates, HostReset, Scrubbed, Upset, call, config
<1>1. TypeOK'
  OBVIOUS
<1>2. Stepwise'
  OBVIOUS
<1>3. Flags'
  OBVIOUS
<1>4. Hooked'
  OBVIOUS
<1>5. Materialised'
  OBVIOUS
<1>6. OwnModule'
  OBVIOUS
<1>7. JavaScriptRuns'
  OBVIOUS
<1>8. QED
  BY <1>1, <1>2, <1>3, <1>4, <1>5, <1>6, <1>7

LEMMA CaptureWarmStateStep ==
  ASSUME IInv, CaptureWarmState
  PROVE  IInv'
<1> USE DEF CaptureWarmState, HostReset, Upset, engineState, call, config
<1>1. TypeOK'
  OBVIOUS
<1>2. Stepwise'
  OBVIOUS
<1>3. Flags'
  OBVIOUS
<1>4. Hooked'
  OBVIOUS
<1>5. Materialised'
  OBVIOUS
<1>6. OwnModule'
  OBVIOUS
<1>7. JavaScriptRuns'
  OBVIOUS
<1>8. QED
  BY <1>1, <1>2, <1>3, <1>4, <1>5, <1>6, <1>7

-----------------------------------------------------------------------------
LEMMA Initially == Init => IInv
  BY DEF Init

LEMMA Stutters == IInv /\ UNCHANGED vars => IInv'
  BY DEF vars, engineState, flags, call, config

HIDE DEF IInv, TypeOK, Stepwise, Flags, Hooked, Materialised, OwnModule,
  JavaScriptRuns, Loaded, Whole, Untouched, Preparing, Steps, Passing,
  HalfWay, Language, Everything, PolicyOf

LEMMA StepKeepsIInv == IInv /\ [Next]_vars => IInv'
<1> SUFFICES ASSUME IInv, [Next]_vars
             PROVE  IInv'
  OBVIOUS
<1>1. CASE \E b \in Bundles :
             \/ LoadBundle(b) \/ Invoke(b)
             \/ PrewarmHandler(b) \/ RunInlinePython(b)
  BY <1>1, LoadBundleStep, InvokeStep, PrewarmHandlerStep, RunInlinePythonStep
<1>2. CASE Step
  BY <1>2, EnsureEngineStep, EngineFailsStep, BootEnvironmentStep,
     BootFailsStep, AfterRestoreHookFailsStep, LockPoliciesStep,
     LockFailsStep, MountStep, MountFailsStep, ApplyManifestStep,
     ApplyFailsStep, PreparedStep, HandlerSessionStep, PrewarmEntrypointStep,
     RunHandlerStep, RunWithoutEngineStep, RunIsAbandonedStep,
     ResetAfterInvocationStep, ResetAfterInvocationFailsStep,
     FinishWithCleanupStep
     DEF Step
<1>3. CASE ResetToSnapshot \/ ResetToSnapshotFails \/ ResetInPlace
             \/ ResetInPlaceFails \/ ResetInPlaceCreates
             \/ CaptureWarmState
  BY <1>3, ResetToSnapshotStep, ResetToSnapshotFailsStep, ResetInPlaceStep,
     ResetInPlaceFailsStep, ResetInPlaceCreatesStep, CaptureWarmStateStep
<1>4. CASE UNCHANGED vars
  BY <1>4, Stutters
<1>5. QED
  BY <1>1, <1>2, <1>3, <1>4 DEF Next

THEOREM Invariance == Spec => []IInv
<1>1. Init => IInv
  BY Initially
<1>2. IInv /\ [Next]_vars => IInv'
  BY StepKeepsIInv
<1>3. QED
  BY <1>1, <1>2, PTL DEF Spec

-----------------------------------------------------------------------------
(* Engine, policy, step and the bundles named are what they can be.        *)
THEOREM TypeCorrect == Spec => []TypeOK
<1>1. IInv => TypeOK
  BY DEF IInv
<1>2. QED
  BY <1>1, Invariance, PTL

(* A complete preparation ends under the policies of the bundle it is for, *)
(* whatever failed or was reset before.                                    *)
THEOREM PreparedUnderPolicy == Spec => []PreparedUnderOwnPolicy
<1>1. IInv => PreparedUnderOwnPolicy
  BY DEF IInv, Stepwise, Preparing, PreparedUnderOwnPolicy
<1>2. QED
  BY <1>1, Invariance, PTL

(* A handler runs with the engine, the files and the policies its bundle   *)
(* was materialised with.                                                  *)
THEOREM RunsMaterialised == Spec => []RunsAsMaterialised
<1>1. IInv => RunsAsMaterialised
  BY IsolateAssumption
     DEF IInv, TypeOK, Materialised, Untouched, Loaded, Preparing,
         RunsAsMaterialised
<1>2. QED
  BY <1>1, Invariance, PTL

(* No module of another bundle answers for a handler's.                    *)
THEOREM OwnCode == Spec => []RunsOwnCode
<1>1. IInv => RunsOwnCode
  BY DEF IInv, OwnModule, Untouched, RunsOwnCode
<1>2. QED
  BY <1>1, Invariance, PTL

(* What the flags claim between calls is true of the engine.               *)
THEOREM FlagsTrue == Spec => []FlagsAreTrue
<1>1. IInv => FlagsAreTrue
  BY IsolateAssumption
     DEF IInv, TypeOK, Stepwise, Flags, Hooked, Whole, Preparing, Language,
         FlagsAreTrue
<1>2. QED
  BY <1>1, Invariance, PTL
===============================================================================
