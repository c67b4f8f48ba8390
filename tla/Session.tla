-------------------------------- MODULE Session --------------------------------
(***************************************************************************)
(* The calls of one AardvarkRuntime on one engine: prepare_session (which  *)
(* policies come into force), run_session_with_strategy_and_cleanup (its   *)
(* hooks, the handler, the diagnostics, the cleanup) and what the guest    *)
(* meets meanwhile: native fetch, the /session files, shared buffers and   *)
(* the inputs of the strategies (crates/aardvark-core/src/runtime/,        *)
(* engine/, strategy/, network.rs).                                        *)
(*                                                                         *)
(* Everything runs on one thread.  The guest takes steps inside a call,    *)
(* and outside of one in hooks, preloads and snippets.  The engine stays:  *)
(* changes of language and resets are the matter of Isolate.               *)
(***************************************************************************)
EXTENDS Naturals, FiniteSets, SequencesExt

CONSTANTS
  Bundle,
  Manifest,       \* per bundle: its network, filesystem, capabilities, limits
  HostCapabilities, \* config.host_capabilities
  Override,       \* the limits that budget_override sets
  Session,        \* records of a bundle, the RawCtx binding and the limits of
                  \* the descriptor
  Unset,          \* None
  Uses,           \* the languages and cleanup modes it may be used with
  Request,        \* the requests handlers make
  File, MaxSize,  \* the files in /session, bound: their size
  MaxCalls,       \* bound: calls
  MaxSteps,       \* bound: steps of the guest
  MaxFailures     \* bound: hooks and preparations that fail

ASSUME SessionAssumption ==
  /\ DOMAIN Manifest = Bundle /\ Unset \notin Bundle
  /\ \A s \in Session : s.bundle \in Bundle
  /\ Uses \subseteq {"python", "javascript"}
                \X {"Full", "SharedBuffersOnly", "None"}
  /\ \A b \in Bundle :
       LET filesystem == Manifest[b].filesystem IN
         filesystem # Unset => filesystem.quota \in Nat \cup {Unset}
  /\ IsFiniteSet(File)
  /\ {MaxSize, MaxCalls, MaxSteps, MaxFailures} \subseteq Nat

VARIABLES
  language, cleanup,  \* the configuration, which never changes
  policy,       \* the network and filesystem policy and the capabilities
  size, usage,  \* the files, and what the bootstrap counts them as
  slipped,      \* history: a file grew unguarded since the last recount
  buffers,      \* published and acquired shared buffers, each as the number
                \* of the call that ran, 0 for none
  json,         \* the call whose JSON input is published, 0 for none
  raw,          \* the call whose input buffers are registered, and whether
                \* the guest is told of "none", "empty" or "some"
  wrapper,      \* the RawCtx binding around the entrypoint
  installed,    \* the bindings Rust takes for installed
  timers,       \* calls that left a timer
  records,      \* the contacts, denials and violations recorded
  mounted,      \* the bundle of current_bundle
  prepared,     \* the bundle prepared last, if that succeeded
  sessions,     \* the sessions the host holds
  pc, call,     \* the call in progress, and its number
  seen,         \* history: what its handler met when it started
  did,          \* history: what happened while the handler ran
  outcome,      \* what the last call returned
  cut,          \* history: a call ended before its handler did
  steps, failures

files == <<size, usage, slipped>>
guest == <<files, buffers, timers>>
inputs == <<json, raw, wrapper, installed>>
config == <<language, cleanup>>
history == <<seen, did, cut>>
host == <<mounted, prepared, sessions>>
vars == <<config, policy, guest, inputs, records, host, pc, call, history,
          outcome, steps, failures>>

Nothing == [sent |-> {}, denied |-> {}, breached |-> {}]
NothingSeen == [json |-> 0, raw |-> 0, wrapper |-> Unset]
NoOutcome == [status |-> "none", reported |-> Nothing, payload |-> {}]

Call(n, s, strategy, input) ==
  [n |-> n, session |-> s, strategy |-> strategy, input |-> input,
   result |-> "ok"]

(* NetworkPolicy::default and set_network_policy(&[], true).               *)
Baseline == [allow |-> {}, httpsOnly |-> TRUE, maxBody |-> Unset]
ReadOnly == [mode |-> "read", quota |-> Unset]

Init ==
  /\ \E use \in Uses : language = use[1] /\ cleanup = use[2]
  /\ policy = [network |-> Baseline, filesystem |-> ReadOnly,
               capabilities |-> {}]
  /\ size = [f \in File |-> 0] /\ usage = 0 /\ slipped = FALSE
  /\ buffers = {} /\ timers = {}
  /\ json = 0 /\ raw = [by |-> 0, told |-> "none"]
  /\ wrapper = Unset /\ installed = {}
  /\ records = Nothing
  /\ mounted = Unset /\ prepared = Unset /\ sessions = {}
  /\ pc = "idle"
  /\ call = Call(0, Unset, "default", FALSE)
  /\ seen = NothingSeen /\ did = Nothing /\ cut = FALSE
  /\ outcome = NoOutcome
  /\ steps = 0 /\ failures = 0

(* Between calls; the bound also leaves out what follows the last one.     *)
Idle == pc = "idle" /\ call.n < MaxCalls

Fail == failures < MaxFailures /\ failures' = failures + 1

-----------------------------------------------------------------------------
(* Preparing a session                                                     *)

(* apply_host_capabilities: an empty list stands for the whole allowlist.  *)
Capabilities(requested) ==
  IF requested = {} THEN HostCapabilities
  ELSE requested \cap HostCapabilities

Or(value, default) == IF value = Unset THEN default ELSE value

(* Mutant: the network policy of the session before stays.                 *)
OpenCore(k) ==
  [network |-> policy.network, filesystem |-> ReadOnly,
   capabilities |-> Capabilities({})]

(* The policies after each step of a preparation of bundle b: those of     *)
(* prepare_session_core, then those of its manifest.                       *)
Core(k) ==
  [network |-> Baseline,
   filesystem |-> IF k > 1 THEN ReadOnly ELSE policy.filesystem,
   capabilities |-> IF k > 2 THEN Capabilities({}) ELSE policy.capabilities]

Own(b, k) ==
  LET m == Manifest[b] IN
    [network |-> IF k > 2 THEN Or(m.network, Core(3).network)
                 ELSE Core(3).network,
     filesystem |-> Or(m.filesystem, ReadOnly),
     capabilities |-> IF k > 1 THEN Capabilities(m.capabilities)
                      ELSE Core(3).capabilities]

(* Mutant: the count starts from nothing.                                  *)
RecountFromZero == 0

(* What the files hold together, counted unit by unit.                     *)
Units(sizes) == {u \in File \X (1..MaxSize) : u[2] <= sizes[u[1]]}
Total(sizes) == Cardinality(Units(sizes))

(* setFilesystemPolicy counts the files anew; JavaScript has none.         *)
Recount == Total(size)

Enforce(p) ==
  /\ policy' = p
  /\ usage' = Recount /\ slipped' = FALSE
  /\ records' = [records EXCEPT !.sent = {}, !.denied = {}]

(* mount_bundle of another bundle forgets what is installed.               *)
Mount(b) ==
  /\ mounted' = b
  /\ installed' = IF mounted = b THEN installed ELSE {}

PrepareSession(s) ==
  /\ Idle
  /\ Enforce(Own(s.bundle, 3))
  /\ Mount(s.bundle)
  /\ prepared' = s.bundle /\ sessions' = sessions \cup {s}
  /\ UNCHANGED <<config, size, buffers, timers, json, raw, wrapper, pc, call,
                 history, outcome, steps, failures>>

(* An Err before the mount, in it, or after it, leaves the policies that   *)
(* were set until then.                                                    *)
PrepareFails(s) ==
  /\ Idle /\ Fail
  /\ \/ /\ \E k \in 1..3 : Enforce(Core(k))
        /\ UNCHANGED <<mounted, installed>>
     \/ /\ mounted # s.bundle
        /\ Enforce(Core(3))
        /\ installed' = {} /\ UNCHANGED mounted
     \/ /\ \E k \in 1..3 : Enforce(Own(s.bundle, k))
        /\ Mount(s.bundle)
  /\ prepared' = Unset
  /\ UNCHANGED <<config, size, buffers, timers, json, raw, wrapper, sessions,
                 pc, call, history, outcome, steps>>

-----------------------------------------------------------------------------
(* A call, up to its handler                                               *)

(* effective_limits: the descriptor, whose CPU limit the manifest replaces,*)
(* and the override.                                                       *)
Limited(s) == s.limits \cup Manifest[s.bundle].limits \cup Override

Buffered == "rawctx_buffers" \in policy.capabilities

Begin(s, strategy, input) ==
  /\ Idle
  /\ call' = Call(call.n + 1, s, strategy, input)

(* Mutant: what was recorded outside of a call is kept.                    *)
RunSessionOnTop(s, strategy, input) ==
  /\ Begin(s, strategy, input)
  /\ pc' = "hooks"
  /\ UNCHANGED <<config, policy, guest, inputs, records, host, history, outcome,
                 steps, failures>>

RunSession(s, strategy, input) ==
  /\ Begin(s, strategy, input)
  /\ records' = Nothing
  /\ pc' = "hooks"
  /\ UNCHANGED <<config, policy, guest, inputs, host, history, outcome, steps,
                 failures>>

EmptyFiles == size' = [f \in File |-> 0] /\ usage' = 0 /\ slipped' = FALSE

(* The heap is over its limit already: Err, after cleanup_filesystem.      *)
HeapExceededBefore(s, strategy, input) ==
  /\ "heap" \in Limited(s)
  /\ Idle
  /\ call' = Call(call.n + 1, Unset, "default", FALSE)
  /\ EmptyFiles
  /\ UNCHANGED <<config, policy, buffers, timers, inputs, records, host, pc,
                 history, outcome, steps, failures>>

(* The JSON input is published for Python by calls with an input, for      *)
(* JavaScript by every call of that strategy.                              *)
PublishJsonPython ==
  language = "python" /\ json' = IF call.input THEN call.n ELSE json

PublishJsonJavaScript ==
  language = "javascript" /\ json' = IF call.input THEN call.n ELSE 0

(* publish_rawctx_inputs.  Python's bootstrap clears and registers buffers *)
(* only with the capability; a clear that throws is ignored.               *)
ClearsRaw == language = "javascript" \/ Buffered

PublishRaw ==
  raw' = [by |-> IF call.input /\ ClearsRaw THEN call.n
                 ELSE IF ClearsRaw THEN 0 ELSE raw.by,
          told |-> IF call.input THEN "some" ELSE "empty"]

(* install_js_auto_wrapper and install_auto_wrapper: Python's wrapper is   *)
(* written over the one before, unless Rust takes it for installed.        *)
InstallWrapper(binding) ==
  IF language = "javascript"
  THEN wrapper' = binding /\ UNCHANGED installed
  ELSE IF binding = Unset \/ binding \in installed
  THEN UNCHANGED <<wrapper, installed>>
  ELSE wrapper' = binding /\ installed' = installed \cup {binding}

(* prewarm_python_handler, for a handler of the bundle that is prepared.    *)
PrewarmHandler(s) ==
  /\ Idle /\ language = "python" /\ s \in sessions /\ prepared = s.bundle
  /\ InstallWrapper(s.binding)
  /\ UNCHANGED <<config, policy, guest, json, raw, records, host, pc, call,
                 history, outcome, steps, failures>>

PreExecute ==
  /\ pc = "hooks"
  /\ CASE call.strategy = "json" ->
            /\ PublishJsonPython \/ PublishJsonJavaScript
            /\ UNCHANGED <<raw, wrapper, installed>>
       [] call.strategy = "rawctx" ->
            /\ call.input => ClearsRaw
            /\ PublishRaw
            /\ InstallWrapper(call.session.binding)
            /\ UNCHANGED json
       [] OTHER -> UNCHANGED inputs
  /\ pc' = "enter"
  /\ UNCHANGED <<config, policy, guest, records, host, call, history, outcome,
                 steps, failures>>

(* The host has what it gets of the call.                                  *)
Return ==
  /\ pc' = "idle"
  /\ call' = Call(call.n, Unset, "default", FALSE)
  /\ outcome' = NoOutcome
  /\ seen' = NothingSeen /\ did' = Nothing

(* An Err of a hook ends the call where it stands, without a cleanup.      *)
Abandon ==
  /\ cut' = TRUE
  /\ Return
  /\ UNCHANGED <<config, policy, guest, records, host, steps>>

(* A buffer cannot be registered, or the wrapper not be installed.         *)
PreExecuteFails ==
  /\ pc = "hooks" /\ call.strategy = "rawctx" /\ Fail
  /\ PublishRaw
  /\ UNCHANGED <<json, wrapper, installed>>
  /\ Abandon

(* What the handler reads: __aardvark_prepare_pending_inputs, or the       *)
(* globals of JavaScript.                                                  *)
Visible ==
  [json |-> json, raw |-> IF raw.told = "some" THEN raw.by ELSE 0,
   wrapper |-> wrapper]

(* Mutant: the buffers of the call before stay.                            *)
EnterOverBuffers ==
  /\ pc = "enter" /\ language = "python"
  /\ seen' = Visible
  /\ pc' = "running"
  /\ UNCHANGED <<config, policy, guest, inputs, records, host, call, did, cut,
                 outcome, steps, failures>>

(* run_python_entrypoint_inner: the shared buffers are reset, the          *)
(* entrypoint resolved and called.                                         *)
EnterPython ==
  /\ pc = "enter" /\ language = "python"
  /\ buffers' = {}
  /\ seen' = Visible
  /\ pc' = "running"
  /\ UNCHANGED <<config, policy, files, timers, inputs, records, host,
                 call, did, cut, outcome, steps, failures>>

(* run_js_entrypoint: __aardvarkWrapRawctxFunction takes the binding.      *)
EnterJavaScript ==
  /\ pc = "enter" /\ language = "javascript"
  /\ buffers' = {}
  /\ seen' = Visible
  /\ wrapper' = Unset
  /\ pc' = "running"
  /\ UNCHANGED <<config, policy, files, timers, json, raw, installed,
                 records, host, call, did, cut, outcome, steps, failures>>

(* The module does not load or has no such function (Python's cache has a  *)
(* wrapped one): for Python after the reset of the buffers and before the  *)
(* inputs are touched, for JavaScript before or after the reset.           *)
EnterFails ==
  /\ pc = "enter" /\ Fail
  /\ language = "python" => wrapper = Unset
  /\ buffers' \in IF language = "python" THEN {{}} ELSE {{}, buffers}
  /\ call' = [call EXCEPT !.result = "err"]
  /\ cut' = TRUE
  /\ pc' = "finish"
  /\ UNCHANGED <<config, policy, files, timers, inputs, records, host,
                 seen, did, outcome, steps>>

-----------------------------------------------------------------------------
(* The guest                                                               *)

(* By the handler, or outside of a call.                                   *)
Guest ==
  /\ Idle \/ pc = "running"
  /\ steps < MaxSteps /\ steps' = steps + 1
  /\ UNCHANGED <<config, policy, inputs, host, pc, call, seen, cut, outcome,
                 failures>>

Author == IF pc = "running" THEN call.n ELSE 0

Record(kind, what) ==
  /\ records' = [records EXCEPT ![kind] = @ \cup {what}]
  /\ did' = IF pc = "running" THEN [did EXCEPT ![kind] = @ \cup {what}]
            ELSE did

(* HostPattern::matches: hosts are sequences of labels.                    *)
Matches(entry, request) ==
  /\ entry.port \in {Unset, request.port}
  /\ IF entry.wildcard THEN IsStrictSuffix(entry.host, request.host)
     ELSE entry.host = request.host

(* NetworkPolicy::evaluate                                                 *)
Evaluate(network, request) ==
  IF network.allow = {} THEN "no-allowlist"
  ELSE IF network.httpsOnly /\ ~request.https THEN "scheme-not-allowed"
  ELSE IF \E entry \in network.allow : Matches(entry, request) THEN "allowed"
  ELSE "host-not-allowed"

(* Requests that never meet the policy: a package of the distribution is   *)
(* served from its directory or refused, a URL that does not parse refused.*)
Remote(request) == request.kind = "remote"

(* native_fetch_init_from_value, before the contact is recorded.           *)
WithinBody(network, request) ==
  network.maxBody = Unset \/ request.body <= network.maxBody

(* What native_fetch_callback does with a request: it is answered or       *)
(* refused on the spot, denied, refused for its body, or sent; whether the *)
(* answer comes, and is not too large, is the guest's affair.              *)
FetchOnSpot(request) ==
  ~Remote(request) /\ UNCHANGED <<records, did>>

FetchDenied(request) ==
  LET decision == Evaluate(policy.network, request) IN
    /\ Remote(request) /\ decision # "allowed"
    /\ Record("denied", <<request.host, request.port, decision>>)

FetchTooLarge(request) ==
  /\ Remote(request) /\ Evaluate(policy.network, request) = "allowed"
  /\ ~WithinBody(policy.network, request)
  /\ UNCHANGED <<records, did>>

FetchSent(request) ==
  /\ Remote(request) /\ Evaluate(policy.network, request) = "allowed"
  /\ WithinBody(policy.network, request)
  /\ Record("sent", request)

NativeFetch(request) ==
  \/ FetchOnSpot(request) \/ FetchDenied(request)
  \/ FetchTooLarge(request) \/ FetchSent(request)

Fetch(request) ==
  /\ Guest
  /\ NativeFetch(request)
  /\ UNCHANGED guest

(* enforceFilesystemWrite, for a file that is to have n bytes.             *)
Refusal(f, n) ==
  IF policy.filesystem.mode # "readWrite" THEN "read-only"
  ELSE IF /\ policy.filesystem.quota # Unset
          /\ usage + n > policy.filesystem.quota + size[f]
  THEN "quota" ELSE "none"

(* The guarded write, unlink and truncate by path.  The count is never     *)
(* taken below zero.                                                       *)
ChangeFile(f, n) ==
  /\ Guest /\ language = "python"
  /\ IF Refusal(f, n) = "none"
     THEN /\ size' = [size EXCEPT ![f] = n]
          /\ usage' = IF usage + n < size[f] THEN 0 ELSE (usage + n) - size[f]
          /\ UNCHANGED <<slipped, records, did>>
     ELSE /\ Record("breached", <<f, Refusal(f, n)>>)
          /\ UNCHANGED files
  /\ UNCHANGED <<buffers, timers>>

(* What the guards do not see, whatever the mode: opening with O_TRUNC and *)
(* ftruncate, which truncate the node and not a path, and a rename into    *)
(* /session, out of it, or over one of its files.                          *)
ChangeUnguarded(f, n) ==
  /\ Guest /\ language = "python"
  /\ n # size[f] /\ size' = [size EXCEPT ![f] = n]
  /\ slipped' = (slipped \/ n > size[f])
  /\ UNCHANGED <<usage, buffers, timers, records, did>>

(* __aardvarkAcquireOutputBuffer and __aardvarkPublishBuffer: an acquired  *)
(* buffer is among the outputs whether or not it is published.             *)
ProvideBuffer ==
  /\ Guest /\ Buffered
  /\ buffers' = buffers \cup {Author}
  /\ UNCHANGED <<files, timers, records, did>>

SetTimer ==
  /\ Guest /\ language = "javascript" /\ pc = "running"
  /\ timers' = timers \cup {call.n}
  /\ UNCHANGED <<files, buffers, records, did>>

(* pump_event_loop runs what is due, whoever set it.                       *)
TimerFetches(t, request) ==
  /\ Guest /\ pc = "running"
  /\ timers' = timers \ {t}
  /\ NativeFetch(request)
  /\ UNCHANGED <<files, buffers>>

TimerProvidesBuffer(t) ==
  /\ Guest /\ pc = "running" /\ Buffered
  /\ timers' = timers \ {t}
  /\ buffers' = buffers \cup {Author}
  /\ UNCHANGED <<files, records, did>>

(* run_js_snippet and run_python_async_snippet of the compatibility runner *)
(* take the buffers with them.                                             *)
RunSnippet ==
  /\ Idle /\ language = "python"
  /\ buffers' = {}
  /\ UNCHANGED <<config, policy, files, timers, inputs, records, host,
                 pc, call, history, outcome, steps, failures>>

-----------------------------------------------------------------------------
(* The end of a call                                                       *)

NoRaw == [by |-> 0, told |-> "none"]

(* The finally of __aardvark_call_target.                                  *)
ForgetInputs ==
  /\ json' = 0
  /\ raw' = [raw EXCEPT !.told = "none"]

(* drain_shared_buffers: all that are there, and none is left.             *)
Drain(result) ==
  /\ outcome' = [outcome EXCEPT !.payload = buffers \cup result]
  /\ buffers' = {}

AfterHandler == IF call.strategy = "rawctx" THEN "posthooks" ELSE "finish"

(* A large value comes back as a buffer of its own.                        *)
SideChannel ==
  IF call.strategy = "default" THEN {{}} ELSE {{}, {call.n}}

(* The Python handler returns or raises.  The JSON strategy leaves the     *)
(* output buffers where they are.                                          *)
HandlerEndsPython ==
  /\ pc = "running" /\ language = "python"
  /\ \E ok \in BOOLEAN, result \in SideChannel :
       /\ ~ok => result = {}
       /\ call' = [call EXCEPT !.result = IF ok THEN "ok" ELSE "exception"]
       /\ IF call.strategy = "json"
          THEN outcome' = [outcome EXCEPT !.payload = result]
               /\ UNCHANGED buffers
          ELSE Drain(result)
  /\ ForgetInputs
  /\ pc' = AfterHandler
  /\ UNCHANGED <<config, policy, files, timers, wrapper, installed,
                 records, host, history, steps, failures>>

(* The JavaScript handler returns, throws, or settles its promise.         *)
HandlerEndsJavaScript ==
  /\ pc = "running" /\ language = "javascript"
  /\ \E result \in {"ok", "exception"} :
       call' = [call EXCEPT !.result = result]
  /\ Drain({})
  /\ pc' = AfterHandler
  /\ UNCHANGED <<config, policy, files, timers, inputs, records, host,
                 history, steps, failures>>

(* The watchdog terminates it: an exception for JavaScript, or an Err in   *)
(* the loop that waits for its promise; an Err for Python, whose finally   *)
(* does not run.                                                           *)
HandlerTerminated ==
  /\ pc = "running" /\ "wall" \in Limited(call.session)
  /\ cut' = TRUE
  /\ \/ /\ call' = [call EXCEPT !.result = "err"]
        /\ pc' = "finish"
        /\ UNCHANGED <<outcome, buffers>>
     \/ /\ language = "javascript"
        /\ call' = [call EXCEPT !.result = "exception"]
        /\ pc' = AfterHandler
        /\ Drain({})
  /\ UNCHANGED <<config, policy, files, timers, inputs, records, host,
                 seen, did, steps, failures>>

(* clear_rawctx_inputs                                                     *)
PostExecute ==
  /\ pc = "posthooks"
  /\ raw' = IF ClearsRaw THEN NoRaw ELSE [raw EXCEPT !.told = "none"]
  /\ pc' = "finish"
  /\ UNCHANGED <<config, policy, guest, json, wrapper, installed, records, host,
                 call, history, outcome, steps, failures>>

PostExecuteFails ==
  /\ pc = "posthooks" /\ Fail
  /\ UNCHANGED inputs
  /\ Abandon

(* What run_session makes of the call: the budgets come before its result. *)
Status(over) ==
  CASE "wall" \in over -> "timeout"
    [] "wall" \notin over /\ "cpu" \in over -> "cpu"
    [] over = {"heap"} -> "heap"
    [] over = {} -> call.result

Delivered(status) == IF status = "ok" THEN outcome.payload ELSE {}

(* Mutant: the wrapper is taken for installed in a module that is gone.    *)
CleanWithoutCache(status) ==
  /\ IF cleanup = "Full"
     THEN /\ wrapper' = IF language = "python" THEN Unset ELSE wrapper
          /\ EmptyFiles /\ buffers' = {}
     ELSE /\ buffers' = IF \/ cleanup = "None"
                           \/ Delivered(status) # {} THEN buffers ELSE {}
          /\ UNCHANGED <<wrapper, files>>
  /\ UNCHANGED installed

(* finish_with_cleanup: the module goes, and its wrapper with it.          *)
Clean(status) ==
  IF cleanup = "Full"
  THEN /\ wrapper' = IF language = "python" THEN Unset ELSE wrapper
       /\ installed' = {}
       /\ EmptyFiles /\ buffers' = {}
  ELSE /\ buffers' = IF cleanup = "None" \/ Delivered(status) # {}
                     THEN buffers ELSE {}
       /\ UNCHANGED <<wrapper, installed, files>>

(* The diagnostics are drained, whatever became of the call.               *)
FinishSession ==
  /\ pc = "finish"
  /\ \E over \in SUBSET Limited(call.session) :
       /\ outcome' = [status |-> Status(over), reported |-> records,
                      payload |-> Delivered(Status(over))]
       /\ Clean(Status(over))
  /\ records' = Nothing
  /\ pc' = "finished"
  /\ UNCHANGED <<config, policy, timers, json, raw, host, call, history, steps,
                 failures>>

TakeOutcome ==
  /\ pc = "finished" /\ Return
  /\ UNCHANGED <<config, policy, guest, inputs, records, host, cut, steps,
                 failures>>

Next ==
  \/ \E s \in Session :
       PrepareSession(s) \/ PrepareFails(s) \/ PrewarmHandler(s)
  \/ \E s \in sessions, strategy \in {"default", "json", "rawctx"},
        input \in BOOLEAN :
       /\ strategy = "default" => ~input
       /\ \/ RunSession(s, strategy, input)
          \/ HeapExceededBefore(s, strategy, input)
  \/ PreExecute \/ PreExecuteFails
  \/ EnterPython \/ EnterJavaScript \/ EnterFails \/ RunSnippet
  \/ \E request \in Request : Fetch(request)
  \/ \E f \in File, n \in 0..MaxSize : ChangeFile(f, n) \/ ChangeUnguarded(f, n)
  \/ ProvideBuffer \/ SetTimer
  \/ \E t \in timers, request \in Request : TimerFetches(t, request)
  \/ \E t \in timers : TimerProvidesBuffer(t)
  \/ HandlerEndsPython \/ HandlerEndsJavaScript \/ HandlerTerminated
  \/ PostExecute \/ PostExecuteFails
  \/ FinishSession \/ TakeOutcome

Spec == Init /\ [][Next]_vars

-----------------------------------------------------------------------------
(* Correctness                                                             *)

(* What a call reports (hosts contacted and denied, violations) is what    *)
(* happened while its handler ran, though the engine records between calls *)
(* too, and calls end by four paths that each leave or clear the records.  *)
ReportsMatchCall == outcome.status # "none" => outcome.reported = did

(* The shared buffers a call returns were all provided while it ran, also  *)
(* when the call before was cut short, did not drain its own, or cleans    *)
(* nothing up.                                                             *)
OutputsAreOwn == outcome.payload \subseteq {call.n}

(* A handler meets the input of its own call, and none if it has none:     *)
(* what a call published is gone once its handler has ended.  The JSON     *)
(* global of JavaScript is replaced by the JSON strategy alone.            *)
InputIsOwn ==
  /\ language = "python" \/ call.strategy = "json"
       => seen.json = IF call.input /\ call.strategy = "json" THEN call.n ELSE 0
  /\ seen.raw = IF call.input /\ call.strategy = "rawctx" THEN call.n ELSE 0

(* A handler with bindings runs under its own, unless others were          *)
(* installed since the bundle was mounted: the set of bindings Rust        *)
(* remembers follows the one wrapper Python has, over cleanups, mounts,    *)
(* failed hooks and prewarming.                                            *)
WrapperIsOwn ==
  LET binding == call.session.binding IN
    /\ call.strategy = "rawctx" /\ binding # Unset
    /\ language = "javascript" \/ installed \subseteq {binding}
    => seen.wrapper = binding

(* A handler sees nothing of other calls: its input is its call's, unless  *)
(* an earlier call was cut short, and its wrapper its own.                 *)
SeesOwnCall == pc = "running" => (cut \/ InputIsOwn) /\ WrapperIsOwn

(* A guarded change makes the files grow only under a policy that lets     *)
(* them, and never beyond its quota, whatever was written, truncated or    *)
(* renamed under the policies before: the count may be above the files,    *)
(* after unguarded truncations, but falls below them only if a file grew   *)
(* unguarded since it was last made.                                       *)
GrowsWithinQuota ==
  [][Total(size') > Total(size)
     => \/ \E f \in File, n \in 0..MaxSize : ChangeUnguarded(f, n)
        \/ /\ policy.filesystem.mode = "readWrite"
           /\ \/ policy.filesystem.quota = Unset \/ slipped
              \/ Total(size') <= policy.filesystem.quota]_vars

(* What a call sends has a place in the manifest of its bundle, if that    *)
(* was the last to be prepared: no permission of a bundle before is left.  *)
UnderOwnManifest ==
  pc # "idle" /\ prepared = call.session.bundle
  => \A request \in did.sent :
       /\ Manifest[prepared].network # Unset
       /\ Evaluate(Manifest[prepared].network, request) = "allowed"

===============================================================================
