-------------------------------- MODULE Isolate --------------------------------
(***************************************************************************)
(* PythonIsolate (crates/aardvark-core/src/persistent/isolate.rs) over     *)
(* AardvarkRuntime (crates/aardvark-core/src/runtime/): which engine,      *)
(* files, policies and modules a handler meets when it runs, over any      *)
(* sequence of calls on one isolate, with steps that fail.                 *)
(*                                                                         *)
(* Everything runs on one thread.  A call is the sequence of steps the     *)
(* code makes; an Err ends it where it stands.  Errors that come before    *)
(* any change of state are left out.  All bundles use one entrypoint, as   *)
(* with the default main:handler.                                          *)
(***************************************************************************)
EXTENDS Naturals

CONSTANTS
  Bundles,
  Nobody,          \* no bundle
  JavaScript,      \* bundles in JavaScript; the others are in Python
  Manifested,      \* bundles with a manifest that sets all three policies
  Inline,          \* bundles built by run_inline_python
  AfterInvocation, \* whether the policy may be ResetPolicy::AfterInvocation
  Cleanups,        \* the values CleanupMode may have
  Prewarms,        \* the host calls prewarm_handler
  HostResets,      \* the host resets the runtime through runtime()
  WarmStart,       \* whether config.warm_state may be set at the start
  MaxFailures,     \* bound: steps that fail
  MaxResets        \* bound: resets by the host and captures of a warm state

ASSUME IsolateAssumption ==
  /\ Nobody \notin Bundles
  /\ JavaScript \subseteq Bundles /\ Manifested \subseteq Bundles
  /\ Inline \subseteq Manifested \ JavaScript
  /\ Cleanups \subseteq {"Full", "SharedBuffersOnly", "None"}
  /\ AfterInvocation \subseteq BOOLEAN /\ WarmStart \subseteq BOOLEAN
  /\ {Prewarms, HostResets} \subseteq BOOLEAN
  /\ MaxFailures \in Nat /\ MaxResets \in Nat

VARIABLES
  engine,       \* the language of the engine, "none" for None
  booted,       \* the engine's interpreter is loaded
  app,          \* whose files are in force in /app
  code,         \* whose entrypoint module the Python interpreter holds
  policy,       \* whose network, filesystem and capability policy is in force
  ready,        \* environment_ready
  current,      \* current_bundle
  warm,         \* config.warm_state is set
  warmRestored, \* warm_restored
  bare,         \* history: restored from a warm state, its hook not run
  fingerprint,  \* PythonIsolate::loaded_fingerprint
  pc, op, bundle,  \* the call in progress
  materialising,   \* the preparation is ensure_artifact's
  afterInvocation, cleanup,  \* the configuration, which never changes
  upset,           \* history: what happened to the isolate outside its
                   \* preparations (see Upset)
  failures, resets

engineState == <<engine, booted, app, code, policy>>
flags == <<ready, current, warm, warmRestored, bare>>
call == <<op, bundle, materialising>>
config == <<afterInvocation, cleanup>>
vars == <<engineState, flags, fingerprint, pc, call, config, upset, failures,
          resets>>

Language(b) == IF b \in JavaScript THEN "javascript" ELSE "python"

Everything(b) == [network |-> b, filesystem |-> b, capabilities |-> b]

(* What a session of b is to run under: the baseline without a manifest.   *)
PolicyOf(b) == Everything(IF b \in Manifested THEN b ELSE Nobody)

Init ==
  /\ engine = "python" /\ booted = FALSE /\ app = Nobody /\ code = Nobody
  /\ policy = Everything(Nobody)
  /\ ready = FALSE /\ current = Nobody
  /\ warm \in WarmStart /\ warmRestored = FALSE /\ bare = FALSE
  /\ fingerprint = Nobody
  /\ pc = "idle" /\ op = "load" /\ bundle \in Bundles /\ materialising = FALSE
  /\ afterInvocation \in AfterInvocation /\ cleanup \in Cleanups
  /\ upset = {}
  /\ failures = 0 /\ resets = 0

Goto(step) == pc' = step

Passing == {"reset", "failure", "inline"}
HalfWay == {"inPlace", "mount"}

(* Kept until the isolate next materialises a bundle: "reset", "failure"   *)
(* (a preparation that failed) and "inline".  Kept for good: "inPlace" (a  *)
(* reset_in_place that failed or found no engine), "hook" (a restore hook  *)
(* that failed, or a warm state captured before it), "mount" (a mount that *)
(* failed half-way), "module" (an entrypoint module left imported).        *)
Upset(kinds) == upset' = upset \cup kinds

Fail(kinds) ==
  /\ failures < MaxFailures
  /\ failures' = failures + 1
  /\ Upset(kinds)

(* A new engine or a scrubbed one: no interpreter, no files, no policy.    *)
Scrubbed ==
  /\ booted' = FALSE /\ app' = Nobody /\ code' = Nobody
  /\ policy' = Everything(Nobody)
  /\ bare' = FALSE

NotPrepared == ready' = FALSE /\ current' = Nobody /\ warmRestored' = FALSE

-----------------------------------------------------------------------------
(* Calls of the host                                                       *)

Start(o, b, step) ==
  /\ pc = "idle"
  /\ op' = o /\ bundle' = b
  /\ materialising' = (step = "engine")
  /\ Goto(step)
  /\ UNCHANGED <<engineState, flags, fingerprint, failures, resets, config,
                 upset>>

LoadBundle(b) ==
  /\ b \notin Inline /\ fingerprint # b
  /\ Start("load", b, "engine")

(* ensure_artifact: materialise the bundle unless its fingerprint is the   *)
(* one that was loaded last.                                               *)
Invoke(b) ==
  /\ b \notin Inline
  /\ Start("invoke", b, IF fingerprint = b THEN "session" ELSE "engine")

PrewarmHandler(b) ==
  /\ Prewarms /\ b \notin Inline
  /\ Start("prewarm", b, IF fingerprint = b THEN "session" ELSE "engine")

RunInlinePython(b) ==
  /\ b \in Inline
  /\ pc = "idle"
  /\ op' = "inline" /\ bundle' = b /\ materialising' = FALSE
  /\ Goto("engine")
  /\ Upset({"inline"})
  /\ UNCHANGED <<engineState, flags, fingerprint, failures, resets, config>>

-----------------------------------------------------------------------------
(* prepare_session_core and prepare_session_with_manifest_internal         *)

(* Mutant: the flags survive a change of engine.                           *)
EnsureEngineOnly ==
  /\ pc = "engine"
  /\ IF engine = Language(bundle)
     THEN UNCHANGED <<engineState, flags>>
     ELSE /\ engine' = Language(bundle) /\ Scrubbed
          /\ UNCHANGED <<ready, current, warm, warmRestored>>
  /\ Goto("boot")
  /\ UNCHANGED <<fingerprint, call, failures, resets, config, upset>>

EnsureEngine ==
  /\ pc = "engine"
  /\ IF engine = Language(bundle)
     THEN UNCHANGED <<engineState, flags>>
     ELSE /\ engine' = Language(bundle)
          /\ Scrubbed /\ NotPrepared /\ UNCHANGED warm
  /\ Goto("boot")
  /\ UNCHANGED <<fingerprint, call, failures, resets, config, upset>>

(* The old engine is gone when create_engine fails.                        *)
EngineFails ==
  /\ pc = "engine" /\ engine # Language(bundle)
  /\ Fail({"failure"})
  /\ engine' = "none" /\ Scrubbed
  /\ Goto("idle")
  /\ UNCHANGED <<ready, current, warm, warmRestored, fingerprint, call, resets,
                 config>>

(* ensure_environment_ready forgets a bundle in another language.          *)
OtherLanguage == current # Nobody /\ Language(current) # Language(bundle)
IsReady == ready /\ ~OtherLanguage
Forget == current' = IF OtherLanguage THEN Nobody ELSE current
NeedsHook == ~IsReady /\ warm /\ ~warmRestored

(* load_pyodide restores a Python interpreter that is not there yet.       *)
Restores == warm /\ ~IsReady /\ ~booted /\ bundle \notin JavaScript

BootEnvironment ==
  /\ pc = "boot"
  /\ Forget
  /\ ready' = TRUE
  /\ booted' = IF IsReady THEN booted ELSE TRUE
  /\ policy' = [policy EXCEPT !.network = Nobody]
  /\ warmRestored' = (warmRestored \/ NeedsHook)
  /\ bare' = ((bare \/ Restores) /\ ~NeedsHook)
  /\ Goto("lock")
  /\ UNCHANGED <<engine, app, code, warm, fingerprint, call, failures, resets,
                 config, upset>>

(* prepare_environment fails before or after the interpreter is loaded.    *)
BootFails ==
  /\ pc = "boot" /\ ~IsReady
  /\ Fail({"failure"})
  /\ Forget
  /\ ready' = FALSE
  /\ booted' \in {booted, TRUE}
  /\ bare' = (bare \/ (Restores /\ booted'))
  /\ Goto("idle")
  /\ UNCHANGED <<engine, app, code, policy, warm, warmRestored, fingerprint,
                 call, resets, config>>

AfterRestoreHookFails ==
  /\ pc = "boot" /\ NeedsHook
  /\ Fail({"failure", "hook"})
  /\ Forget
  /\ ready' = TRUE /\ booted' = TRUE
  /\ policy' = [policy EXCEPT !.network = Nobody]
  /\ bare' = (bare \/ Restores)
  /\ Goto("idle")
  /\ UNCHANGED <<engine, app, code, warm, warmRestored, fingerprint, call,
                 resets, config>>

(* Mutant: the host capabilities of the bundle before stay.                *)
LockedButCapable == [policy EXCEPT !.filesystem = Nobody]

Locked == [policy EXCEPT !.filesystem = Nobody, !.capabilities = Nobody]

LockPolicies ==
  /\ pc = "lock"
  /\ policy' = Locked
  /\ Goto("mount")
  /\ UNCHANGED <<engine, booted, app, code, flags, fingerprint, call, failures,
                 resets, config, upset>>

LockFails ==
  /\ pc = "lock"
  /\ Fail({"failure"})
  /\ policy' \in {policy, Locked}
  /\ Goto("idle")
  /\ UNCHANGED <<engine, booted, app, code, flags, fingerprint, call, resets,
                 config>>

(* The files are written over those of the bundle before; modules that     *)
(* are imported stay.                                                      *)
Mount ==
  /\ pc = "mount"
  /\ app' = IF current = bundle THEN app ELSE bundle
  /\ current' = bundle
  /\ Goto(IF bundle \in Manifested THEN "apply" ELSE "prepared")
  /\ UNCHANGED <<engine, booted, code, policy, ready, warm, warmRestored, bare,
                 fingerprint, call, failures, resets, config, upset>>

(* mount_bundle or publish_descriptor fails: current_bundle is not set.    *)
MountFails ==
  /\ pc = "mount"
  /\ Fail({"failure", "mount"})
  /\ app' \in IF current = bundle THEN {app} ELSE {app, bundle}
  /\ Goto("idle")
  /\ UNCHANGED <<engine, booted, code, policy, flags, fingerprint, call,
                 resets, config>>

(* Mutant: the network block of the manifest is forgotten.                 *)
ApplyWithoutNetwork ==
  /\ pc = "apply"
  /\ policy' = [policy EXCEPT !.filesystem = bundle, !.capabilities = bundle]
  /\ Goto("prepared")
  /\ UNCHANGED <<engine, booted, app, code, flags, fingerprint, call, failures,
                 resets, config, upset>>

(* The manifest's policies, then its packages.                             *)
ApplyManifest ==
  /\ pc = "apply"
  /\ policy' = Everything(bundle)
  /\ Goto("prepared")
  /\ UNCHANGED <<engine, booted, app, code, flags, fingerprint, call, failures,
                 resets, config, upset>>

ApplyFails ==
  /\ pc = "apply"
  /\ Fail({"failure"})
  /\ policy' \in {policy, [policy EXCEPT !.filesystem = bundle],
                  Everything(bundle)}
  /\ Goto("idle")
  /\ UNCHANGED <<engine, booted, app, code, flags, fingerprint, call, resets,
                 config>>

(* loaded_fingerprint is set only after a complete preparation.            *)
Prepared ==
  /\ pc = "prepared"
  /\ fingerprint' = IF materialising THEN bundle ELSE fingerprint
  /\ Goto(IF ~materialising THEN (IF op = "prewarm" THEN "import" ELSE "run")
          ELSE IF op = "load" THEN "idle" ELSE "session")
  /\ upset' = IF materialising THEN upset \ Passing ELSE upset
  /\ UNCHANGED <<engineState, flags, call, failures, resets, config>>

(* prepare_handler_session: Python handlers of the loaded bundle use what  *)
(* is there, JavaScript ones are prepared again.                           *)
HandlerSession ==
  /\ pc = "session"
  /\ materialising' = FALSE
  /\ Goto(IF bundle \in JavaScript THEN "engine"
          ELSE IF op = "prewarm" THEN "import" ELSE "run")
  /\ UNCHANGED <<engineState, flags, fingerprint, op, bundle, failures, resets,
                 config, upset>>

-----------------------------------------------------------------------------
(* Running                                                                 *)

Imported == IF engine = "python" /\ booted /\ code = Nobody THEN app ELSE code

(* prewarm_python_entrypoint fills the entrypoint cache and sys.modules.   *)
PrewarmEntrypoint ==
  /\ pc = "import"
  /\ code' = IF bundle \in JavaScript THEN code ELSE Imported
  /\ Goto(IF engine = "none" /\ bundle \notin JavaScript
          THEN "panicked" ELSE "idle")
  /\ Upset(IF bundle \in JavaScript THEN {} ELSE {"module"})
  /\ UNCHANGED <<engine, booted, app, policy, flags, fingerprint, call,
                 failures, resets, config>>

(* run_session_with_strategy_and_cleanup takes the engine for granted.  A  *)
(* handler that is within its budgets goes through the reset policy.       *)
RunHandler ==
  /\ pc = "run" /\ engine # "none"
  /\ code' = Imported
  /\ \E withinBudget \in BOOLEAN :
       Goto(IF withinBudget /\ afterInvocation THEN "reset" ELSE "cleanup")
  /\ UNCHANGED <<engine, booted, app, policy, flags, fingerprint, call,
                 failures, resets, config, upset>>

RunWithoutEngine ==
  /\ pc = "run" /\ engine = "none"
  /\ Goto("panicked")
  /\ UNCHANGED <<engineState, flags, fingerprint, call, failures, resets,
                 config, upset>>

(* The heap is over its limit before, or a strategy hook returns Err:      *)
(* the session ends without the cleanup of modules.                        *)
RunIsAbandoned ==
  /\ pc = "run" /\ engine # "none"
  /\ Fail({"module"})
  /\ code' \in {code, Imported}
  /\ Goto("idle")
  /\ UNCHANGED <<engine, booted, app, policy, flags, fingerprint, call, resets,
                 config>>

ResetAfterInvocation ==
  /\ pc = "reset"
  /\ Scrubbed /\ NotPrepared
  /\ Goto("cleanup")
  /\ Upset({"reset"})
  /\ UNCHANGED <<engine, warm, fingerprint, call, failures, resets, config>>

ResetAfterInvocationFails ==
  /\ pc = "reset"
  /\ Fail({"reset"})
  /\ engine' = "none" /\ Scrubbed
  /\ Goto("cleanup")
  /\ UNCHANGED <<ready, current, warm, warmRestored, fingerprint, call, resets,
                 config>>

Mode == IF op = "inline" THEN "Full" ELSE cleanup

(* Mutant: the module stays.                                               *)
CleanupKeepsModule ==
  /\ pc = "cleanup"
  /\ Goto("idle")
  /\ UNCHANGED <<engineState, flags, fingerprint, call, failures, resets,
                 config, upset>>

(* finish_with_cleanup; whatever touches the engine panics without one.    *)
(* Shared buffers that went out as the payload are drained already.        *)
FinishWithCleanup ==
  /\ pc = "cleanup"
  /\ code' = IF Mode = "Full" /\ bundle \notin JavaScript THEN Nobody ELSE code
  /\ \E drained \in BOOLEAN :
       Goto(IF /\ engine = "none"
               /\ Mode = "Full" \/ (Mode = "SharedBuffersOnly" /\ ~drained)
            THEN "panicked" ELSE "idle")
  /\ Upset(IF Mode = "Full" \/ bundle \in JavaScript THEN {} ELSE {"module"})
  /\ UNCHANGED <<engine, booted, app, policy, flags, fingerprint, call,
                 failures, resets, config>>

-----------------------------------------------------------------------------
(* Resets by the host, and warm states                                     *)

HostReset ==
  /\ HostResets /\ pc = "idle"
  /\ resets < MaxResets
  /\ resets' = resets + 1

ResetToSnapshot ==
  /\ HostReset
  /\ engine' = IF engine = "none" THEN "python" ELSE engine
  /\ Scrubbed /\ NotPrepared
  /\ Upset({"reset"})
  /\ UNCHANGED <<warm, fingerprint, pc, call, failures, config>>

ResetToSnapshotFails ==
  /\ HostReset /\ Fail({"reset"})
  /\ engine' = "none" /\ Scrubbed
  /\ UNCHANGED <<ready, current, warm, warmRestored, fingerprint, pc, call,
                 config>>

ResetInPlace ==
  /\ HostReset /\ engine # "none"
  /\ Scrubbed /\ NotPrepared
  /\ Upset({"reset"})
  /\ UNCHANGED <<engine, warm, fingerprint, pc, call, failures, config>>

ResetInPlaceFails ==
  /\ HostReset /\ engine # "none" /\ Fail({"reset", "inPlace"})
  /\ Scrubbed
  /\ UNCHANGED <<engine, ready, current, warm, warmRestored, fingerprint, pc,
                 call, config>>

(* Without an engine reset_in_place creates one and returns early.         *)
ResetInPlaceCreates ==
  /\ HostReset /\ engine = "none"
  /\ engine' = "python" /\ Scrubbed
  /\ warmRestored' = FALSE
  /\ Upset({"reset", "inPlace"})
  /\ UNCHANGED <<ready, current, warm, fingerprint, pc, call, failures,
                 config>>

(* capture_warm_state on a loaded Python engine, its hook included; the    *)
(* imports of preload_current_bundle_imports are not the entrypoint.       *)
CaptureWarmState ==
  /\ HostReset /\ engine = "python" /\ booted
  /\ warm' = TRUE /\ warmRestored' = TRUE
  /\ Upset(IF bare THEN {"hook"} ELSE {})
  /\ UNCHANGED <<engineState, ready, current, bare, fingerprint, pc, call,
                 failures, config>>

Step ==
  \/ EnsureEngine \/ EngineFails
  \/ BootEnvironment \/ BootFails \/ AfterRestoreHookFails
  \/ LockPolicies \/ LockFails \/ Mount \/ MountFails
  \/ ApplyManifest \/ ApplyFails \/ Prepared \/ HandlerSession
  \/ PrewarmEntrypoint \/ RunHandler \/ RunWithoutEngine \/ RunIsAbandoned
  \/ ResetAfterInvocation \/ ResetAfterInvocationFails \/ FinishWithCleanup

Next ==
  \/ \E b \in Bundles :
       LoadBundle(b) \/ Invoke(b) \/ PrewarmHandler(b) \/ RunInlinePython(b)
  \/ Step
  \/ ResetToSnapshot \/ ResetToSnapshotFails
  \/ ResetInPlace \/ ResetInPlaceFails \/ ResetInPlaceCreates
  \/ CaptureWarmState

Spec == Init /\ [][Next]_vars

-----------------------------------------------------------------------------
(* Properties                                                              *)

Steps == {"idle", "engine", "boot", "lock", "mount", "apply", "prepared",
          "session", "import", "run", "reset", "cleanup", "panicked"}

TypeOK ==
  /\ engine \in {"none", "python", "javascript"}
  /\ {app, code, current, fingerprint} \subseteq Bundles \cup {Nobody}
  /\ policy \in [{"network", "filesystem", "capabilities"} ->
                  Bundles \cup {Nobody}]
  /\ pc \in Steps
  /\ bundle \in Bundles

(* Whatever loads, switches of language and sessions came before, only a   *)
(* reset, an inline script or a failed preparation since the bundle was    *)
(* materialised, or a mount or a reset_in_place that failed half-way, lets *)
(* a handler run without its files or under another manifest's policies.   *)
RunsAsMaterialised ==
  pc = "run" /\ upset \cap (Passing \cup HalfWay) = {} =>
    engine = Language(bundle) /\ booted /\ app = bundle
      /\ policy = PolicyOf(bundle)

(* A complete preparation ends under the policies of the bundle it is for, *)
(* whatever failed or was reset before (sessions.rs:64-140).               *)
PreparedUnderOwnPolicy ==
  pc = "prepared" => engine = Language(bundle) /\ policy = PolicyOf(bundle)

(* ... and a handler runs its own code: modules are keyed by name, and     *)
(* none of another bundle answers for it unless one was left imported.     *)
RunsOwnCode ==
  pc = "cleanup" /\ bundle \notin JavaScript /\ booted
    /\ upset \cap (Passing \cup HalfWay \cup {"module"}) = {} => code = bundle

(* Once ensure_environment_ready has returned, the flags kept across calls *)
(* claim no more than the engine holds: the interpreter is there, the      *)
(* current bundle, if any, is what is mounted, unless a mount failed       *)
(* half-way or a reset_in_place failed or had no engine to reset; and the  *)
(* after_warm_restore hook, "Invoked after a warm snapshot has been        *)
(* applied to a runtime" (config.rs:105), has run on a restored            *)
(* interpreter, unless it failed once or a warm state was captured before. *)
FlagsAreTrue ==
  pc = "lock" =>
    /\ upset \cap HalfWay = {} =>
         booted /\ (current # Nobody => app = current)
    /\ upset \cap {"hook", "inPlace"} = {} => ~bare
===============================================================================
