---------------------------- MODULE InvocationProofs ----------------------------
(***************************************************************************)
(* Proofs about an invocation: about Session, for any bundles, requests    *)
(* and numbers of calls (what a call reports, returns and may send is its  *)
(* own), and about Watchdog, which limits the time of each call, for any   *)
(* number of invocations of one isolate.                                   *)
(***************************************************************************)
EXTENDS Session, Watchdog, FiniteSetTheorems, TLAPS

(***************************************************************************)
(* Session                                                                 *)
(***************************************************************************)

(* The call under way, and its records, have their fields.                 *)
Formed ==
  /\ pc \in {"idle", "hooks", "enter", "running", "posthooks", "finish",
             "finished"}
  /\ call = [n |-> call.n, session |-> call.session, strategy |-> call.strategy,
             input |-> call.input, result |-> call.result]
  /\ did = [sent |-> did.sent, denied |-> did.denied, breached |-> did.breached]
  /\ pc # "idle" => call.session \in Session
  /\ sessions \subseteq Session

(* What is recorded from the start of a handler on is what it does.        *)
Recorded ==
  /\ pc \in {"idle", "hooks", "enter"} => did = Nothing
  /\ pc \in {"hooks", "enter", "running", "posthooks", "finish"} => records = did

(* The outcome grows with the call: it is blank until the handler ends,    *)
(* has its payload then, and the rest when the call is over.               *)
Collected ==
  /\ pc = "running" => buffers \subseteq {call.n}
  /\ outcome.payload \subseteq {call.n}
  /\ pc \in {"idle", "hooks", "enter", "running"} => outcome = NoOutcome
  /\ pc \in {"posthooks", "finish"} =>
       outcome = [NoOutcome EXCEPT !.payload = outcome.payload]
  /\ pc = "finished" => outcome.reported = did

(* The policy is that of the bundle prepared last, and all that is sent    *)
(* met it.                                                                 *)
Permitted ==
  /\ prepared # Unset =>
       /\ prepared \in Bundle
       /\ policy.network = Or(Manifest[prepared].network, Baseline)
  /\ \A request \in did.sent : Evaluate(policy.network, request) = "allowed"

IInv == Formed /\ Recorded /\ Collected /\ Permitted

LEMMA InitIInv == Init => IInv
<1> SUFFICES ASSUME Init PROVE IInv
  OBVIOUS
<1> USE DEF Init
<1>1. Formed
  BY DEF Formed, Call, Nothing
<1>2. Recorded /\ Collected
  BY DEF Recorded, Collected, NoOutcome
<1>3. Permitted
  BY DEF Permitted, Nothing
<1>4. QED
  BY <1>1, <1>2, <1>3 DEF IInv

-----------------------------------------------------------------------------
(* Between calls                                                           *)

(* The preparations, which leave the call and its history alone.           *)
LEMMA PrepareStep ==
  ASSUME IInv, NEW s \in Session,
         PrepareSession(s) \/ PrepareFails(s) \/ PrewarmHandler(s)
  PROVE  IInv'
<1>1. /\ pc = "idle" /\ pc' = pc /\ call' = call /\ did' = did
      /\ outcome' = outcome /\ buffers' = buffers
  BY DEF PrepareSession, PrepareFails, PrewarmHandler, Idle, guest, history
<1>2. sessions' \subseteq Session
  BY DEF IInv, Formed, PrepareSession, PrepareFails, PrewarmHandler, host
<1>3. Formed'
  BY <1>1, <1>2 DEF IInv, Formed
<1>4. Recorded' /\ Collected'
  BY <1>1 DEF IInv, Recorded, Collected
<1>5. did.sent = {}
  BY <1>1 DEF IInv, Recorded, Nothing
<1>6. \/ prepared' = Unset
      \/ prepared' = prepared /\ policy' = policy
      \/ /\ prepared' = s.bundle /\ s.bundle \in Bundle
         /\ policy'.network = Or(Manifest[s.bundle].network, Baseline)
  <2>1. CASE PrepareSession(s)
    <3>1. Core(3).network = Baseline
      BY DEF Core
    <3>2. policy' = Own(s.bundle, 3) /\ prepared' = s.bundle
      BY <2>1 DEF PrepareSession, Enforce
    <3>3. Own(s.bundle, 3).network = Or(Manifest[s.bundle].network, Baseline)
      BY <3>1 DEF Own
    <3>4. QED
      BY <3>2, <3>3, SessionAssumption
  <2>2. CASE PrepareFails(s)
    BY <2>2 DEF PrepareFails
  <2>3. CASE PrewarmHandler(s)
    BY <2>3 DEF PrewarmHandler, host
  <2>4. QED
    BY <2>1, <2>2, <2>3
<1>7. Permitted'
  BY <1>1, <1>5, <1>6 DEF IInv, Permitted
<1>8. QED
  BY <1>3, <1>4, <1>7 DEF IInv

LEMMA BetweenStep ==
  ASSUME IInv,
         \/ RunSnippet
         \/ \E s \in sessions, strategy \in {"default", "json", "rawctx"},
              input \in BOOLEAN : HeapExceededBefore(s, strategy, input)
  PROVE  IInv'
<1>1. /\ pc = "idle" /\ pc' = pc /\ did' = did /\ outcome' = outcome
      /\ policy' = policy /\ prepared' = prepared /\ sessions' = sessions
      /\ call' = call \/ call' = Call(call.n + 1, Unset, "default", FALSE)
  BY DEF RunSnippet, HeapExceededBefore, Idle, host, history
<1>2. outcome.payload = {}
  BY <1>1 DEF IInv, Collected, NoOutcome
<1>3. Formed'
  BY <1>1 DEF IInv, Formed, Call
<1>4. Recorded' /\ Collected'
  BY <1>1, <1>2 DEF IInv, Recorded, Collected
<1>5. Permitted'
  BY <1>1 DEF IInv, Permitted
<1>6. QED
  BY <1>3, <1>4, <1>5 DEF IInv

-----------------------------------------------------------------------------
(* A call up to its handler                                                *)

LEMMA StartStep ==
  ASSUME IInv, NEW s \in sessions, NEW strategy, NEW input,
         RunSession(s, strategy, input)
  PROVE  IInv'
<1>1. /\ pc = "idle" /\ pc' = "hooks" /\ did' = did /\ outcome' = outcome
      /\ policy' = policy /\ prepared' = prepared /\ sessions' = sessions
      /\ records' = Nothing /\ call' = Call(call.n + 1, s, strategy, input)
  BY DEF RunSession, Begin, Idle, host, history
<1>2. outcome.payload = {} /\ did = Nothing
  BY <1>1 DEF IInv, Collected, NoOutcome, Recorded
<1>3. Formed'
  BY <1>1 DEF IInv, Formed, Call
<1>4. Recorded' /\ Collected'
  BY <1>1, <1>2 DEF IInv, Recorded, Collected
<1>5. Permitted'
  BY <1>1 DEF IInv, Permitted
<1>6. QED
  BY <1>3, <1>4, <1>5 DEF IInv

LEMMA EnterStep ==
  ASSUME IInv, PreExecute \/ EnterPython \/ EnterJavaScript \/ EnterFails
  PROVE  IInv'
<1>1. /\ did' = did /\ records' = records /\ outcome' = outcome
      /\ policy' = policy /\ prepared' = prepared /\ sessions' = sessions
      /\ call' = call \/ call' = [call EXCEPT !.result = "err"]
      /\ \/ pc = "hooks" /\ pc' = "enter"
         \/ pc = "enter" /\ pc' = "running" /\ buffers' = {}
         \/ pc = "enter" /\ pc' = "finish"
  BY DEF PreExecute, EnterPython, EnterJavaScript, EnterFails, host, history
<1>2. call'.n = call.n /\ call'.session = call.session
  BY <1>1 DEF IInv, Formed
<1>3. Formed'
  BY <1>1, <1>2 DEF IInv, Formed
<1>4. Recorded'
  BY <1>1 DEF IInv, Recorded
<1>5. Collected'
  BY <1>1, <1>2 DEF IInv, Collected, NoOutcome
<1>6. Permitted'
  BY <1>1 DEF IInv, Permitted
<1>7. QED
  BY <1>3, <1>4, <1>5, <1>6 DEF IInv

(* A call that ends in a hook leaves nothing behind in the history.        *)
LEMMA AbandonStep ==
  ASSUME IInv, PreExecuteFails \/ PostExecuteFails \/ TakeOutcome
  PROVE  IInv'
<1>1. Return /\ policy' = policy /\ prepared' = prepared /\ sessions' = sessions
  BY DEF PreExecuteFails, PostExecuteFails, TakeOutcome, Abandon, host
<1>2. Formed'
  BY <1>1 DEF IInv, Formed, Return, Call, Nothing
<1>3. Recorded' /\ Collected'
  BY <1>1 DEF IInv, Recorded, Collected, Return, NoOutcome
<1>4. Permitted'
  BY <1>1 DEF IInv, Permitted, Return, Nothing
<1>5. QED
  BY <1>2, <1>3, <1>4 DEF IInv

-----------------------------------------------------------------------------
(* The guest                                                               *)

(* What a step of the guest records; only an allowed request is sent.      *)
Noted(kind, what) ==
  \/ UNCHANGED <<records, did>>
  \/ /\ Record(kind, what)
     /\ kind = "sent" => Evaluate(policy.network, what) = "allowed"

LEMMA FetchNotes ==
  ASSUME NEW request, NativeFetch(request)
  PROVE  \E kind \in {"sent", "denied"}, what \in {request, <<request.host,
              request.port, Evaluate(policy.network, request)>>} :
           Noted(kind, what)
BY DEF NativeFetch, FetchOnSpot, FetchDenied, FetchTooLarge, FetchSent, Noted

LEMMA GuestStep ==
  ASSUME IInv, Guest, buffers' \in {buffers, buffers \cup {Author}},
         NEW kind \in {"sent", "denied", "breached"}, NEW what, Noted(kind, what)
  PROVE  IInv'
<1>1. /\ pc \in {"idle", "running"} /\ pc' = pc /\ call' = call
      /\ outcome' = outcome /\ policy' = policy /\ prepared' = prepared
      /\ sessions' = sessions
  BY DEF Guest, Idle, host
<1>2. CASE pc = "running"
  <2>1. \/ did' = did /\ records' = records
        \/ /\ did' = [did EXCEPT ![kind] = @ \cup {what}]
           /\ records' = [records EXCEPT ![kind] = @ \cup {what}]
    BY <1>2 DEF Noted, Record
  <2>2. records = did
    BY <1>2 DEF IInv, Recorded
  <2>3. Formed'
    BY <1>1, <2>1 DEF IInv, Formed
  <2>4. Recorded'
    BY <1>1, <1>2, <2>1, <2>2 DEF Recorded
  <2>5. Collected'
    BY <1>1, <1>2 DEF IInv, Collected, Author
  <2>6. Permitted'
    <3> SUFFICES ASSUME NEW request \in did'.sent
                 PROVE  Evaluate(policy.network, request) = "allowed"
      BY <1>1 DEF IInv, Permitted
    <3>1. request \in did.sent \/ (kind = "sent" /\ request = what)
      BY <2>1 DEF IInv, Formed
    <3>2. CASE request \in did.sent
      BY <3>2 DEF IInv, Permitted
    <3>3. CASE request \notin did.sent
      <4>1. kind = "sent" /\ request = what /\ did' # did
        BY <3>1, <3>3
      <4>2. QED
        BY <4>1 DEF Noted
    <3>4. QED
      BY <3>2, <3>3
  <2>7. QED
    BY <2>3, <2>4, <2>5, <2>6 DEF IInv
<1>3. CASE pc = "idle"
  <2>1. did' = did
    BY <1>3 DEF Noted, Record
  <2>2. Formed' /\ Recorded' /\ Collected' /\ Permitted'
    BY <1>1, <1>3, <2>1 DEF IInv, Formed, Recorded, Collected, Permitted
  <2>3. QED
    BY <2>2 DEF IInv
<1>4. QED
  BY <1>1, <1>2, <1>3

LEMMA GuestSteps ==
  ASSUME IInv,
         \/ \E request \in Request : Fetch(request)
         \/ \E f \in File, n \in 0..MaxSize : ChangeFile(f, n) \/ ChangeUnguarded(f, n)
         \/ ProvideBuffer \/ SetTimer
         \/ \E t \in timers, request \in Request : TimerFetches(t, request)
         \/ \E t \in timers : TimerProvidesBuffer(t)
  PROVE  IInv'
<1>1. ASSUME NEW request \in Request, Fetch(request) PROVE IInv'
  BY <1>1, FetchNotes, GuestStep DEF Fetch, guest
<1>2. ASSUME NEW f \in File, NEW n \in 0..MaxSize, ChangeFile(f, n) PROVE IInv'
  <2>1. Guest /\ buffers' = buffers
    BY <1>2 DEF ChangeFile
  <2>2. Noted("breached", <<f, Refusal(f, n)>>)
    BY <1>2 DEF ChangeFile, Noted
  <2>3. QED
    BY <2>1, <2>2, GuestStep
<1>3. ASSUME ProvideBuffer \/ SetTimer \/ \E t \in timers : TimerProvidesBuffer(t)
      PROVE  IInv'
  <2>1. Guest /\ buffers' \in {buffers, buffers \cup {Author}}
    BY <1>3 DEF ProvideBuffer, SetTimer, TimerProvidesBuffer
  <2>2. Noted("denied", "nothing")
    BY <1>3 DEF ProvideBuffer, SetTimer, TimerProvidesBuffer, Noted
  <2>3. QED
    BY <2>1, <2>2, GuestStep
<1>4. ASSUME NEW t \in timers, NEW request \in Request, TimerFetches(t, request)
      PROVE  IInv'
  BY <1>4, FetchNotes, GuestStep DEF TimerFetches
<1>5. ASSUME NEW f \in File, NEW n \in 0..MaxSize, ChangeUnguarded(f, n) PROVE IInv'
  <2>1. Guest /\ buffers' = buffers /\ Noted("denied", "nothing")
    BY <1>5 DEF ChangeUnguarded, Noted
  <2>2. QED
    BY <2>1, GuestStep
<1>6. QED
  BY <1>1, <1>2, <1>3, <1>4, <1>5

-----------------------------------------------------------------------------
(* The end of a call                                                       *)

(* The payload is made of the buffers of the call and its result.          *)
LEMMA EndStep ==
  ASSUME IInv, HandlerEndsPython \/ HandlerEndsJavaScript \/ HandlerTerminated
  PROVE  IInv'
<1>1. /\ pc = "running" /\ pc' \in {"posthooks", "finish"}
      /\ did' = did /\ records' = records
      /\ policy' = policy /\ prepared' = prepared /\ sessions' = sessions
      /\ \E result \in {"ok", "exception", "err"} :
           call' = [call EXCEPT !.result = result]
  BY DEF HandlerEndsPython, HandlerEndsJavaScript, HandlerTerminated,
         AfterHandler, host, history
<1>2. call'.n = call.n /\ call'.session = call.session /\ Formed'
  BY <1>1 DEF IInv, Formed
<1>3. outcome = NoOutcome /\ buffers \subseteq {call.n}
  BY <1>1 DEF IInv, Collected
<1>4. \E p \in SUBSET {call.n} : outcome' = [NoOutcome EXCEPT !.payload = p]
  <2>1. CASE HandlerEndsPython
    <3>1. PICK result \in SideChannel :
            \/ outcome' = [outcome EXCEPT !.payload = result]
            \/ Drain(result)
      BY <2>1 DEF HandlerEndsPython
    <3>2. result \subseteq {call.n}
      BY DEF SideChannel
    <3>3. QED
      BY <1>3, <3>1, <3>2 DEF Drain
  <2>2. CASE HandlerEndsJavaScript
    BY <1>3, <2>2 DEF HandlerEndsJavaScript, Drain
  <2>3. CASE HandlerTerminated
    <3>1. outcome' = NoOutcome \/ Drain({})
      BY <1>3, <2>3 DEF HandlerTerminated
    <3>2. QED
      BY <1>3, <3>1 DEF Drain, NoOutcome
  <2>4. QED
    BY <2>1, <2>2, <2>3
<1>5. Recorded'
  BY <1>1 DEF IInv, Recorded
<1>6. Collected'
  BY <1>1, <1>2, <1>4 DEF Collected, NoOutcome
<1>7. Permitted'
  BY <1>1 DEF IInv, Permitted
<1>8. QED
  BY <1>2, <1>5, <1>6, <1>7 DEF IInv

LEMMA FinishStep ==
  ASSUME IInv, PostExecute \/ FinishSession
  PROVE  IInv'
<1>1. /\ did' = did /\ call' = call
      /\ policy' = policy /\ prepared' = prepared /\ sessions' = sessions
  BY DEF PostExecute, FinishSession, host, history
<1>2. Formed' /\ Permitted'
  BY <1>1 DEF IInv, Formed, Permitted, PostExecute, FinishSession
<1>3. CASE PostExecute
  <2>1. /\ pc = "posthooks" /\ pc' = "finish" /\ records' = records
        /\ outcome' = outcome
    BY <1>3 DEF PostExecute
  <2>2. Recorded' /\ Collected'
    BY <1>1, <2>1 DEF IInv, Recorded, Collected
  <2>3. QED
    BY <1>2, <2>2 DEF IInv
<1>4. CASE FinishSession
  <2>1. pc = "finish" /\ pc' = "finished"
    BY <1>4 DEF FinishSession
  <2>2. PICK over \in SUBSET Limited(call.session) :
          outcome' = [status |-> Status(over), reported |-> records,
                      payload |-> Delivered(Status(over))]
    BY <1>4 DEF FinishSession
  <2>3. records = did /\ outcome.payload \subseteq {call.n}
    BY <2>1 DEF IInv, Recorded, Collected
  <2>4. outcome'.payload \subseteq {call.n} /\ outcome'.reported = did
    BY <2>2, <2>3 DEF Delivered
  <2>5. Recorded' /\ Collected'
    BY <1>1, <2>1, <2>4 DEF Recorded, Collected
  <2>6. QED
    BY <1>2, <2>5 DEF IInv
<1>5. QED
  BY <1>3, <1>4

LEMMA StutterStep ==
  ASSUME IInv, UNCHANGED vars
  PROVE  IInv'
BY DEF IInv, Formed, Recorded, Collected, Permitted, vars, guest, inputs, host,
       history

-----------------------------------------------------------------------------

LEMMA StepIInv == IInv /\ [Next]_vars => IInv'
<1> SUFFICES ASSUME IInv, [Next]_vars PROVE IInv'
  OBVIOUS
<1> HIDE DEF IInv
<1>1. CASE Next
  BY <1>1, PrepareStep, BetweenStep, StartStep, EnterStep, AbandonStep,
     GuestSteps, EndStep, FinishStep DEF Next
<1>2. QED
  BY <1>1, StutterStep

THEOREM Invariance == Spec => []IInv
BY InitIInv, StepIInv, PTL DEF Spec

(* Whatever the engine recorded before a call, between hooks or in calls   *)
(* that were cut short, the diagnostics of a call are its handler's.       *)
THEOREM ReportsAreOwn == Spec => []ReportsMatchCall
<1>1. IInv => ReportsMatchCall
  BY DEF IInv, Formed, Collected, ReportsMatchCall, NoOutcome
<1>2. QED
  BY Invariance, <1>1, PTL

(* No call returns a shared buffer of another.                             *)
THEOREM PayloadsAreOwn == Spec => []OutputsAreOwn
<1>1. IInv => OutputsAreOwn
  BY DEF IInv, Collected, OutputsAreOwn
<1>2. QED
  BY Invariance, <1>1, PTL

(* After a preparation that succeeded, a call sends only what the manifest *)
(* of its own bundle allows, whatever policies came before.                *)
THEOREM ManifestsAreKept == Spec => []UnderOwnManifest
<1>1. ASSUME NEW request PROVE Evaluate(Baseline, request) # "allowed"
  BY DEF Evaluate, Baseline
<1>2. IInv => UnderOwnManifest
  <2> SUFFICES ASSUME IInv, pc # "idle", prepared = call.session.bundle,
                      NEW request \in did.sent
               PROVE  /\ Manifest[prepared].network # Unset
                      /\ Evaluate(Manifest[prepared].network, request) = "allowed"
    BY DEF UnderOwnManifest
  <2>1. prepared # Unset
    BY SessionAssumption DEF IInv, Formed
  <2>2. Evaluate(Or(Manifest[prepared].network, Baseline), request) = "allowed"
    BY <2>1 DEF IInv, Permitted
  <2>3. QED
    BY <1>1, <2>2 DEF Or
<1>3. QED
  BY Invariance, <1>2, PTL

-----------------------------------------------------------------------------
(* What a handler meets                                                    *)

Steady ==
  /\ language \in {"python", "javascript"} /\ cut \in BOOLEAN
  /\ raw = [by |-> raw.by, told |-> raw.told]

Bound == call.strategy = "rawctx" /\ call.session.binding # Unset

(* Unless Rust takes nothing for installed, Python's wrapper is one of     *)
(* what it takes for installed; a hook installs the binding of its call.   *)
Tracked == language = "python" /\ installed # {} => wrapper \in installed

Wrapped ==
  /\ Tracked
  /\ Bound /\ pc \in {"enter", "running"} /\ language = "python"
       => call.session.binding \in installed
  /\ Bound /\ pc = "enter" /\ language = "javascript"
       => wrapper = call.session.binding
  /\ pc = "running" => WrapperIsOwn

(* No input outlives its call, if every handler came to its end: those of  *)
(* Python are forgotten with the handler, those of JavaScript in the hook. *)
Resting ==
  /\ pc # "posthooks" => raw.told # "some"
  /\ language = "python" => json = 0

JsonOfCall == IF call.input /\ call.strategy = "json" THEN call.n ELSE 0
RawOfCall == IF call.input /\ call.strategy = "rawctx" THEN call.n ELSE 0

Fed ==
  /\ pc \in {"idle", "hooks", "posthooks", "finish", "finished"} => Resting
  /\ pc = "enter" =>
       /\ language = "python" \/ call.strategy = "json" => json = JsonOfCall
       /\ Visible.raw = RawOfCall
  /\ pc \in {"enter", "running"} /\ call.strategy # "rawctx" => raw.told # "some"
  /\ pc = "running" => InputIsOwn

Meets == Steady /\ Wrapped /\ (~cut => Fed)

SeesInv == IInv /\ Meets

Outside == {"idle", "hooks", "posthooks", "finish", "finished"}

(* A step to where no handler is about to run.                             *)
LEMMA ToRest ==
  ASSUME Meets, IInv', pc' \in Outside, language' = language, Tracked',
         cut' \in BOOLEAN, raw' = [by |-> raw'.by, told |-> raw'.told],
         ~cut' => Resting'
  PROVE  SeesInv'
<1>1. Steady'
  BY DEF Meets, Steady
<1>2. Wrapped'
  BY DEF Wrapped, Outside
<1>3. ~cut' => Fed'
  BY DEF Fed, Outside
<1>4. QED
  BY <1>1, <1>2, <1>3 DEF SeesInv, Meets

(* A step that leaves the inputs and the call as they are.                 *)
LEMMA Elsewhere ==
  ASSUME Meets, IInv',
         UNCHANGED <<language, cut, raw, json, wrapper, installed, pc, call, seen>>
  PROVE  SeesInv'
<1>1. Steady' /\ Wrapped' /\ cut' = cut /\ (Fed' <=> Fed)
  BY DEF Meets, Steady, Wrapped, Tracked, Bound, WrapperIsOwn, Fed, Resting, JsonOfCall,
         RawOfCall, Visible, InputIsOwn
<1>2. QED
  BY <1>1 DEF Meets, SeesInv

LEMMA InstallKeeps ==
  ASSUME Steady, Tracked, language' = language, NEW b, InstallWrapper(b)
  PROVE  /\ Tracked'
         /\ b # Unset /\ language = "python" => b \in installed'
         /\ language = "javascript" => wrapper' = b
BY DEF Steady, Tracked, InstallWrapper

LEMMA PrepareSees ==
  ASSUME Meets, IInv', NEW s \in Session,
         PrepareSession(s) \/ PrepareFails(s) \/ PrewarmHandler(s)
  PROVE  SeesInv'
<1>1. /\ pc = "idle" /\ UNCHANGED <<language, cut, raw, json, pc>>
  BY DEF PrepareSession, PrepareFails, PrewarmHandler, Idle, config, history
<1>2. Tracked'
  <2>1. CASE PrewarmHandler(s)
    BY <1>1, <2>1, InstallKeeps DEF PrewarmHandler, Meets, Wrapped
  <2>2. CASE PrepareSession(s) \/ PrepareFails(s)
    <3>1. wrapper' = wrapper /\ installed' \in {installed, {}}
      BY <2>2 DEF PrepareSession, PrepareFails, Mount
    <3>2. QED
      BY <1>1, <3>1 DEF Meets, Wrapped, Tracked
  <2>3. QED
    BY <2>1, <2>2
<1>3. ~cut' => Resting'
  BY <1>1 DEF Meets, Fed, Resting
<1>4. QED
  BY <1>1, <1>2, <1>3, ToRest DEF Meets, Steady, Outside

(* Steps that leave the inputs and the wrapper alone.                      *)
LEMMA RestSees ==
  ASSUME Meets, IInv', UNCHANGED <<language, cut, inputs>>,
         pc \in Outside \ {"posthooks"}, pc' \in Outside \ {"posthooks"}
  PROVE  SeesInv'
<1>1. Tracked' /\ (~cut' => Resting')
  BY DEF inputs, Meets, Wrapped, Tracked, Fed, Resting, Outside
<1>2. QED
  BY <1>1, ToRest DEF inputs, Meets, Steady, Outside

(* A call that is cut short: what it leaves is no longer said.             *)
LEMMA CutSees ==
  ASSUME Meets, IInv', UNCHANGED <<language, wrapper, installed>>, cut' = TRUE,
         raw' = [by |-> raw'.by, told |-> raw'.told], pc' \in Outside
  PROVE  SeesInv'
<1>1. Tracked'
  BY DEF Meets, Wrapped, Tracked
<1>2. QED
  BY <1>1, ToRest

LEMMA PreExecuteSees ==
  ASSUME Meets, IInv', PreExecute
  PROVE  SeesInv'
<1>1. /\ pc = "hooks" /\ pc' = "enter" /\ UNCHANGED <<language, cut, call, seen>>
  BY DEF PreExecute, config, history
<1>2. \/ /\ call.strategy = "json" /\ UNCHANGED <<raw, wrapper, installed>>
         /\ PublishJsonPython \/ PublishJsonJavaScript
      \/ /\ call.strategy = "rawctx" /\ UNCHANGED json
         /\ call.input => ClearsRaw
         /\ PublishRaw /\ InstallWrapper(call.session.binding)
      \/ call.strategy \notin {"json", "rawctx"} /\ UNCHANGED <<json, raw, wrapper, installed>>
  BY DEF PreExecute, inputs
<1>3. Steady'
  BY <1>1, <1>2 DEF Meets, Steady, PublishRaw
<1>4. Wrapped'
  <2>1. CASE call.strategy = "rawctx"
    <3>1. InstallWrapper(call.session.binding)
      BY <1>2, <2>1
    <3>2. QED
      BY <1>1, <3>1, InstallKeeps DEF Meets, Wrapped, Bound
  <2>2. CASE call.strategy # "rawctx"
    BY <1>1, <1>2, <2>2 DEF Meets, Wrapped, Tracked, Bound
  <2>3. QED
    BY <2>1, <2>2
<1>5. ASSUME ~cut
      PROVE  Fed'
  <2>1. raw.told # "some" /\ (language = "python" => json = 0)
    BY <1>1, <1>5 DEF Meets, Fed, Resting
  <2>2. language = "python" \/ call.strategy = "json" => json' = JsonOfCall
    <3>1. CASE call.strategy = "json"
      BY <1>2, <2>1, <3>1 DEF PublishJsonPython, PublishJsonJavaScript, JsonOfCall
    <3>2. CASE call.strategy # "json"
      BY <1>2, <2>1, <3>2 DEF JsonOfCall
    <3>3. QED
      BY <3>1, <3>2
  <2>3. Visible'.raw = RawOfCall
    <3>1. CASE call.strategy = "rawctx"
      BY <1>2, <3>1 DEF PublishRaw, Visible, RawOfCall
    <3>2. CASE call.strategy # "rawctx"
      BY <1>2, <2>1, <3>2 DEF Visible, RawOfCall
    <3>3. QED
      BY <3>1, <3>2
  <2>4. call.strategy # "rawctx" => raw'.told # "some"
    BY <1>2, <2>1
  <2>5. JsonOfCall' = JsonOfCall /\ RawOfCall' = RawOfCall
    BY <1>1 DEF JsonOfCall, RawOfCall
  <2>6. QED
    BY <1>1, <2>2, <2>3, <2>4, <2>5 DEF Fed, Visible
<1>6. QED
  BY <1>1, <1>3, <1>4, <1>5 DEF SeesInv, Meets

LEMMA EnterSees ==
  ASSUME Meets, IInv', EnterPython \/ EnterJavaScript
  PROVE  SeesInv'
<1>1. /\ pc = "enter" /\ pc' = "running" /\ UNCHANGED <<language, cut, raw, json, installed, call>>
      /\ seen' = Visible /\ (language = "python" => wrapper' = wrapper)
  BY DEF EnterPython, EnterJavaScript, config, inputs
<1>2. Steady'
  BY <1>1 DEF Meets, Steady
<1>3. WrapperIsOwn'
  BY <1>1 DEF Meets, Steady, Wrapped, Tracked, Bound, WrapperIsOwn, Visible
<1>4. Wrapped'
  BY <1>1, <1>3 DEF Meets, Wrapped, Tracked, Bound
<1>5. ~cut' => Fed'
  BY <1>1 DEF Meets, Fed, InputIsOwn, Visible, JsonOfCall, RawOfCall
<1>6. QED
  BY <1>2, <1>4, <1>5 DEF SeesInv, Meets

(* A handler that comes to its end leaves the inputs at rest.              *)
LEMMA EndSees ==
  ASSUME Meets, IInv', HandlerEndsPython \/ HandlerEndsJavaScript
  PROVE  SeesInv'
<1>1. /\ pc = "running" /\ pc' = AfterHandler /\ UNCHANGED <<language, cut, wrapper, installed>>
  BY DEF HandlerEndsPython, HandlerEndsJavaScript, config, history, inputs
<1>2. \/ language = "python" /\ ForgetInputs
      \/ language = "javascript" /\ UNCHANGED <<json, raw>>
  BY DEF HandlerEndsPython, HandlerEndsJavaScript, inputs
<1>3. Tracked'
  BY <1>1 DEF Meets, Wrapped, Tracked
<1>4. raw' = [by |-> raw'.by, told |-> raw'.told]
  BY <1>2 DEF Meets, Steady, ForgetInputs
<1>5. ~cut' => Resting'
  <2>1. CASE language = "python"
    BY <1>1, <1>2, <2>1 DEF Meets, Steady, ForgetInputs, Resting
  <2>2. CASE language = "javascript"
    BY <1>1, <1>2, <2>2 DEF Meets, Fed, Resting, AfterHandler
  <2>3. QED
    BY <1>2, <2>1, <2>2
<1>6. QED
  BY <1>1, <1>3, <1>4, <1>5, ToRest DEF Meets, Steady, Outside, AfterHandler

LEMMA PostExecuteSees ==
  ASSUME Meets, IInv', PostExecute
  PROVE  SeesInv'
<1>1. /\ pc = "posthooks" /\ pc' = "finish" /\ UNCHANGED <<language, cut, json, wrapper, installed>>
      /\ raw' = NoRaw \/ raw' = [raw EXCEPT !.told = "none"]
  BY DEF PostExecute, config, history
<1>2. raw' = [by |-> raw'.by, told |-> raw'.told] /\ raw'.told = "none"
  BY <1>1 DEF Meets, Steady, NoRaw
<1>3. Tracked' /\ (~cut' => Resting')
  BY <1>1, <1>2 DEF Meets, Wrapped, Tracked, Fed, Resting
<1>4. QED
  BY <1>1, <1>2, <1>3, ToRest DEF Meets, Steady, Outside

LEMMA FinishSees ==
  ASSUME Meets, IInv', FinishSession
  PROVE  SeesInv'
<1>1. /\ pc = "finish" /\ pc' = "finished" /\ UNCHANGED <<language, cut, json, raw>>
  BY DEF FinishSession, config, history
<1>2. \/ wrapper' = wrapper /\ installed' = installed
      \/ installed' = {}
  BY DEF FinishSession, Clean
<1>3. Tracked' /\ (~cut' => Resting')
  BY <1>1, <1>2 DEF Meets, Wrapped, Tracked, Fed, Resting
<1>4. QED
  BY <1>1, <1>3, ToRest DEF Meets, Steady, Outside

LEMMA SeesKept == SeesInv /\ [Next]_vars => SeesInv'
<1> SUFFICES ASSUME SeesInv, [Next]_vars PROVE SeesInv'
  OBVIOUS
<1>1. IInv' /\ Meets
  BY StepIInv DEF SeesInv
<1>2. CASE \E s \in Session : PrepareSession(s) \/ PrepareFails(s) \/ PrewarmHandler(s)
  BY <1>1, <1>2, PrepareSees
<1>3. CASE \/ \E s \in sessions, strategy \in {"default", "json", "rawctx"}, input \in BOOLEAN :
                RunSession(s, strategy, input) \/ HeapExceededBefore(s, strategy, input)
           \/ TakeOutcome
  <2>1. /\ UNCHANGED <<language, cut, inputs>>
        /\ pc \in Outside \ {"posthooks"} /\ pc' \in Outside \ {"posthooks"}
    BY <1>3 DEF RunSession, HeapExceededBefore, TakeOutcome, Begin, Idle, Return, Outside,
         config, history
  <2>2. QED
    BY <1>1, <2>1, RestSees
<1>4. CASE PreExecuteFails \/ PostExecuteFails \/ EnterFails \/ HandlerTerminated
  <2>1. /\ UNCHANGED <<language, wrapper, installed>> /\ cut' = TRUE /\ pc' \in Outside
    BY <1>4 DEF PreExecuteFails, PostExecuteFails, EnterFails, HandlerTerminated, Abandon,
         Return, AfterHandler, Outside, config, inputs
  <2>2. raw' = [by |-> raw'.by, told |-> raw'.told]
    BY <1>1, <1>4 DEF Meets, Steady, PreExecuteFails, PostExecuteFails, EnterFails,
         HandlerTerminated, PublishRaw, inputs
  <2>3. QED
    BY <1>1, <2>1, <2>2, CutSees
<1>5. CASE \/ \E request \in Request : Fetch(request)
           \/ \E f \in File, n \in 0..MaxSize : ChangeFile(f, n) \/ ChangeUnguarded(f, n)
           \/ ProvideBuffer \/ SetTimer \/ RunSnippet \/ UNCHANGED vars
           \/ \E t \in timers, request \in Request : TimerFetches(t, request)
           \/ \E t \in timers : TimerProvidesBuffer(t)
  <2>1. UNCHANGED <<language, cut, raw, json, wrapper, installed, pc, call, seen>>
    BY <1>5 DEF Fetch, ChangeFile, ChangeUnguarded, ProvideBuffer, SetTimer, TimerFetches, TimerProvidesBuffer,
         RunSnippet, Guest, vars, config, inputs, history
  <2>2. QED
    BY <1>1, <2>1, Elsewhere
<1>6. QED
  BY <1>1, <1>2, <1>3, <1>4, <1>5, PreExecuteSees, EnterSees, EndSees, PostExecuteSees,
     FinishSees DEF Next

(* A handler meets the input of its own call, unless an earlier call was   *)
(* cut short, and the wrapper of its own binding, in Python as long as no  *)
(* other binding was installed since its bundle was mounted: Rust's record *)
(* of wrappers and Python's one wrapper agree over mounts and cleanups.    *)
THEOREM HandlerSeesItsOwn == Spec => []SeesOwnCall
<1>1. Init => SeesInv
  <2> SUFFICES ASSUME Init PROVE SeesInv
    OBVIOUS
  <2>1. Steady
    BY SessionAssumption DEF Init, Steady
  <2>2. Wrapped /\ Fed
    BY DEF Init, Wrapped, Tracked, Fed, Resting
  <2>3. QED
    BY <2>1, <2>2, InitIInv DEF SeesInv, Meets
<1>2. SeesInv => SeesOwnCall
  BY DEF SeesInv, Meets, Wrapped, Fed, SeesOwnCall
<1>3. QED
  BY <1>1, <1>2, SeesKept, PTL DEF Spec

-----------------------------------------------------------------------------
(* The files of the session                                                *)

(* The count the bootstrap keeps is never below the files, unless one has  *)
(* grown behind its back, so that a quota it compares the count with       *)
(* bounds them; a quota is a number of bytes.                              *)
FilesCounted ==
  /\ size \in [File -> 0..MaxSize]
  /\ usage \in Nat /\ slipped \in BOOLEAN
  /\ ~slipped => Total(size) <= usage
  /\ policy.filesystem.quota \in Nat \cup {Unset}

LEMMA TotalChanges ==
  ASSUME NEW s \in [File -> 0..MaxSize], NEW f \in File, NEW n \in 0..MaxSize
  PROVE  /\ Total(s) \in Nat
         /\ Total([s EXCEPT ![f] = n]) = (Total(s) + n) - s[f]
<1> DEFINE t == [s EXCEPT ![f] = n]
           Rest == {u \in Units(s) : u[1] # f}
           OfFile(k) == {f} \X (1..k)
<1>1. MaxSize \in Nat /\ IsFiniteSet(File)
  BY SessionAssumption
<1>2. s[f] \in 0..MaxSize /\ t[f] = n /\ \A g \in File : g # f => t[g] = s[g]
  OBVIOUS
<1>3. IsFiniteSet(Units(s)) /\ Total(s) \in Nat
  <2>1. IsFiniteSet(File \X (1..MaxSize))
    <3>1. IsFiniteSet(1..MaxSize)
      BY <1>1, FS_Interval
    <3>2. QED
      BY <1>1, <3>1, FS_Product
  <2>2. Units(s) \in SUBSET (File \X (1..MaxSize))
    BY DEF Units
  <2>3. IsFiniteSet(Units(s))
    BY <2>1, <2>2, FS_Subset
  <2>4. QED
    BY <2>3, FS_CardinalityType DEF Total
<1>4. ASSUME NEW k \in 0..MaxSize
      PROVE  IsFiniteSet(OfFile(k)) /\ Cardinality(OfFile(k)) = k
  <2>1. IsFiniteSet(1..k) /\ Cardinality(1..k) = k
    <3>1. k \in Nat
      BY <1>1
    <3>2. IsFiniteSet(1..k) /\ Cardinality(1..k) = IF 1 > k THEN 0 ELSE (k - 1) + 1
      BY <3>1, FS_Interval
    <3>3. QED
      BY <3>1, <3>2
  <2>2. IsFiniteSet({f}) /\ Cardinality({f}) = 1
    BY FS_Singleton
  <2>3. IsFiniteSet(OfFile(k)) /\ Cardinality(OfFile(k)) = 1 * k
    BY <2>1, <2>2, FS_Product
  <2>4. QED
    BY <2>3
<1>5. ASSUME NEW r, NEW k \in 0..MaxSize, r = s \/ r = t, k = r[f]
      PROVE  /\ Units(r) = Rest \cup OfFile(k) /\ Rest \cap OfFile(k) = {}
             /\ Total(r) = Cardinality(Rest) + k
  <2>1. Units(r) = Rest \cup OfFile(k)
    <3>1. \A u \in File \X (1..MaxSize) :
            u[2] <= r[u[1]] <=> (u[1] # f /\ u[2] <= s[u[1]]) \/ (u[1] = f /\ u[2] <= k)
      BY <1>2, <1>5
    <3>2. OfFile(k) \subseteq File \X (1..MaxSize)
      BY <1>1
    <3>3. \A u \in File \X (1..MaxSize) : u \in OfFile(k) <=> u[1] = f /\ u[2] <= k
      BY <1>1
    <3>4. QED
      BY <3>1, <3>2, <3>3 DEF Units
  <2>2. Rest \cap OfFile(k) = {}
    OBVIOUS
  <2>3. IsFiniteSet(Rest)
    BY <1>3, FS_Subset
  <2>4. Cardinality(Rest \cup OfFile(k)) = Cardinality(Rest) + Cardinality(OfFile(k))
                                          - Cardinality(Rest \cap OfFile(k))
    BY <1>4, <2>3, FS_Union
  <2>5. Cardinality(Rest \cap OfFile(k)) = 0 /\ Cardinality(OfFile(k)) = k
        /\ Cardinality(Rest) \in Nat
    BY <1>4, <2>2, <2>3, FS_EmptySet, FS_CardinalityType
  <2>6. QED
    BY <2>1, <2>2, <2>4, <2>5 DEF Total
<1>6. Total(s) = Cardinality(Rest) + s[f] /\ Total(t) = Cardinality(Rest) + n
  BY <1>2, <1>5
<1>7. Cardinality(Rest) \in Nat
  BY <1>3, FS_Subset, FS_CardinalityType
<1>8. QED
  BY <1>1, <1>2, <1>3, <1>6, <1>7

LEMMA TotalIsNatural == ASSUME NEW s PROVE Total(s) \in Nat
<1>1. IsFiniteSet(File) /\ MaxSize \in Nat
  BY SessionAssumption
<1>2. IsFiniteSet(File \X (1..MaxSize))
  <2>1. IsFiniteSet(1..MaxSize)
    BY <1>1, FS_Interval
  <2>2. QED
    BY <1>1, <2>1, FS_Product
<1>3. Units(s) \in SUBSET (File \X (1..MaxSize))
  BY DEF Units
<1>4. QED
  BY <1>2, <1>3, FS_Subset, FS_CardinalityType DEF Total

LEMMA TotalOfNone == Total([f \in File |-> 0]) = 0
<1>1. MaxSize \in Nat
  BY SessionAssumption
<1>2. Units([f \in File |-> 0]) = {}
  BY <1>1 DEF Units
<1>3. QED
  BY <1>2, FS_EmptySet DEF Total

(* The guest changes a file under guard.                                   *)
LEMMA ChangeCounted ==
  ASSUME FilesCounted, NEW f \in File, NEW n \in 0..MaxSize, ChangeFile(f, n)
  PROVE  /\ FilesCounted'
         /\ Total(size') > Total(size) =>
              /\ policy.filesystem.mode = "readWrite"
              /\ \/ policy.filesystem.quota = Unset \/ slipped
                 \/ Total(size') <= policy.filesystem.quota
<1>1. policy' = policy
  BY DEF ChangeFile, Guest
<1>2. CASE Refusal(f, n) = "none"
  <2>1. /\ size' = [size EXCEPT ![f] = n] /\ slipped' = slipped
        /\ usage' = IF usage + n < size[f] THEN 0 ELSE (usage + n) - size[f]
    BY <1>2 DEF ChangeFile
  <2>2. Total(size') = (Total(size) + n) - size[f] /\ Total(size) \in Nat
    BY <2>1, TotalChanges DEF FilesCounted
  <2>3. MaxSize \in Nat /\ size[f] \in 0..MaxSize
    BY SessionAssumption DEF FilesCounted
  <2>4. FilesCounted'
    <3>1. size' \in [File -> 0..MaxSize]
      BY <2>1 DEF FilesCounted
    <3>2. Total(size') \in Nat
      BY <3>1, TotalChanges
    <3>3. usage \in Nat /\ (~slipped => Total(size) <= usage)
      BY DEF FilesCounted
    <3>4. usage' \in Nat /\ (~slipped => Total(size') <= usage')
      BY <2>1, <2>2, <2>3, <3>2, <3>3
    <3>5. QED
      BY <1>1, <2>1, <3>1, <3>4 DEF FilesCounted
  <2>5. policy.filesystem.mode = "readWrite"
    BY <1>2 DEF Refusal
  <2>6. CASE policy.filesystem.quota = Unset
    BY <2>4, <2>5, <2>6
  <2>7. CASE policy.filesystem.quota # Unset
    <3>1. ~(usage + n > policy.filesystem.quota + size[f])
      BY <1>2, <2>7 DEF Refusal
    <3>2. /\ policy.filesystem.quota \in Nat /\ usage \in Nat
          /\ slipped \/ Total(size) <= usage
      BY <2>7 DEF FilesCounted
    <3>3. slipped \/ Total(size') <= policy.filesystem.quota
      BY <2>2, <2>3, <3>1, <3>2
    <3>4. QED
      BY <2>4, <2>5, <3>3
  <2>8. QED
    BY <2>6, <2>7
<1>3. CASE Refusal(f, n) # "none"
  <2>1. size' = size /\ usage' = usage /\ slipped' = slipped
    BY <1>3 DEF ChangeFile, files
  <2>2. Total(size) \in Nat /\ Total(size') = Total(size)
    BY <2>1, TotalChanges DEF FilesCounted
  <2>3. QED
    BY <1>1, <2>1, <2>2 DEF FilesCounted
<1>4. QED
  BY <1>2, <1>3

(* And past the guards.                                                    *)
LEMMA UnguardedCounted ==
  ASSUME FilesCounted, NEW f \in File, NEW n \in 0..MaxSize, ChangeUnguarded(f, n)
  PROVE  FilesCounted'
<1>1. /\ policy' = policy /\ usage' = usage /\ size' = [size EXCEPT ![f] = n]
      /\ slipped' = (slipped \/ n > size[f])
  BY DEF ChangeUnguarded, Guest
<1>2. /\ Total(size') = (Total(size) + n) - size[f] /\ Total(size) \in Nat
      /\ MaxSize \in Nat /\ size[f] \in 0..MaxSize
  BY <1>1, TotalChanges, SessionAssumption DEF FilesCounted
<1>3. slipped' \in BOOLEAN /\ (~slipped' => ~slipped /\ ~(n > size[f]))
  BY Zenon, <1>1 DEF FilesCounted
<1>4. ~slipped' => Total(size') <= usage'
  BY <1>1, <1>2, <1>3 DEF FilesCounted
<1>5. QED
  BY <1>1, <1>3, <1>4 DEF FilesCounted

(* The policies a preparation sets have a quota of bytes, or none.         *)
LEMMA QuotaType ==
  ASSUME policy.filesystem.quota \in Nat \cup {Unset}, NEW s \in Session, NEW k
  PROVE  /\ Core(k).filesystem.quota \in Nat \cup {Unset}
         /\ Own(s.bundle, k).filesystem.quota \in Nat \cup {Unset}
<1>1. Core(k).filesystem.quota \in Nat \cup {Unset}
  BY DEF Core, ReadOnly
<1>2. s.bundle \in Bundle
  BY SessionAssumption
<1>3. Manifest[s.bundle].filesystem # Unset =>
        Manifest[s.bundle].filesystem.quota \in Nat \cup {Unset}
  BY <1>2, SessionAssumption
<1>4. Own(s.bundle, k).filesystem = Or(Manifest[s.bundle].filesystem, ReadOnly)
  BY DEF Own
<1>5. QED
  BY <1>1, <1>3, <1>4 DEF Or, ReadOnly

(* Everything else leaves the files as they are, or empties them.          *)
LEMMA OthersCounted ==
  ASSUME FilesCounted, [Next]_vars,
         ~\E f \in File, n \in 0..MaxSize : ChangeFile(f, n) \/ ChangeUnguarded(f, n)
  PROVE  FilesCounted' /\ (size' = size \/ Total(size') = 0)
<1> USE DEF guest, files
<1>1. CASE \/ UNCHANGED <<policy, size, usage, slipped>>
           \/ EmptyFiles /\ policy' = policy
  <2>1. MaxSize \in Nat
    BY SessionAssumption
  <2>2. CASE UNCHANGED <<policy, size, usage, slipped>>
    BY <2>2 DEF FilesCounted, Total, Units
  <2>3. CASE EmptyFiles /\ policy' = policy
    <3>1. size' = [f \in File |-> 0] /\ usage' = 0 /\ slipped' = FALSE
      BY <2>3 DEF EmptyFiles
    <3>2. Total(size') = 0
      BY <3>1, TotalOfNone
    <3>3. size' \in [File -> 0..MaxSize]
      BY <2>1, <3>1
    <3>4. usage' \in Nat /\ Total(size') <= usage'
      BY <3>1, <3>2
    <3>5. QED
      BY <2>3, <3>1, <3>2, <3>3, <3>4 DEF FilesCounted
  <2>4. QED
    BY <1>1, <2>2, <2>3
<1>2. CASE \E s \in Session : PrepareSession(s) \/ PrepareFails(s)
  <2>1. PICK s \in Session : PrepareSession(s) \/ PrepareFails(s)
    BY <1>2
  <2>2. size' = size /\ \E k \in 1..3 : Enforce(Core(k)) \/ Enforce(Own(s.bundle, k))
    BY <2>1 DEF PrepareSession, PrepareFails
  <2>3. PICK p : Enforce(p) /\ p.filesystem.quota \in Nat \cup {Unset}
    BY <2>2, QuotaType DEF FilesCounted
  <2>4. policy' = p /\ usage' = Total(size) /\ slipped' = FALSE
    BY <2>3 DEF Enforce, Recount
  <2>5. Total(size) \in Nat /\ Total(size') = Total(size)
    BY <2>2, TotalIsNatural DEF Total, Units
  <2>6. usage' \in Nat /\ Total(size') <= usage'
    BY <2>4, <2>5
  <2>7. QED
    BY <2>2, <2>3, <2>4, <2>6 DEF FilesCounted
<1>3. CASE \/ \E s \in Session : PrewarmHandler(s)
           \/ \E s \in sessions, strategy \in {"default", "json", "rawctx"},
                input \in BOOLEAN :
                RunSession(s, strategy, input) \/ HeapExceededBefore(s, strategy, input)
           \/ PreExecute \/ PreExecuteFails \/ EnterPython \/ EnterJavaScript \/ EnterFails
           \/ RunSnippet
  BY <1>1, <1>3 DEF PrewarmHandler, RunSession, HeapExceededBefore, PreExecute,
     PreExecuteFails, Abandon, EnterPython, EnterJavaScript, EnterFails, RunSnippet
<1>4. CASE \/ \E request \in Request : Fetch(request)
           \/ ProvideBuffer \/ SetTimer
           \/ \E t \in timers, request \in Request : TimerFetches(t, request)
           \/ \E t \in timers : TimerProvidesBuffer(t)
  BY <1>1, <1>4 DEF Fetch, ProvideBuffer, SetTimer, TimerFetches, TimerProvidesBuffer,
     Guest
<1>5. CASE \/ HandlerEndsPython \/ HandlerEndsJavaScript \/ HandlerTerminated
           \/ PostExecute \/ PostExecuteFails \/ TakeOutcome \/ UNCHANGED vars
  BY <1>1, <1>5 DEF HandlerEndsPython, HandlerEndsJavaScript, HandlerTerminated,
     PostExecute, PostExecuteFails, Abandon, TakeOutcome, vars
<1>6. CASE FinishSession
  <2>1. policy' = policy /\ \E over \in SUBSET Limited(call.session) : Clean(Status(over))
    BY <1>6 DEF FinishSession
  <2>2. EmptyFiles \/ UNCHANGED <<size, usage, slipped>>
    BY <2>1 DEF Clean
  <2>3. QED
    BY <1>1, <2>1, <2>2
<1>7. QED
  BY <1>2, <1>3, <1>4, <1>5, <1>6 DEF Next

(* A guarded change makes the files grow only under a policy that lets     *)
(* them, and never beyond its quota, though files stay over changes of     *)
(* policy, cleanups set the count back, what is refused leaves no trace in *)
(* it and a truncation by open is not counted at all; what it does not     *)
(* bound is a count that an unguarded growth has left behind.              *)
THEOREM QuotaIsKept == Spec => GrowsWithinQuota
<1> DEFINE Grows ==
      Total(size') > Total(size) =>
        \/ \E f \in File, n \in 0..MaxSize : ChangeUnguarded(f, n)
        \/ /\ policy.filesystem.mode = "readWrite"
           /\ \/ policy.filesystem.quota = Unset \/ slipped
              \/ Total(size') <= policy.filesystem.quota
<1>1. Init => FilesCounted
  <2> SUFFICES ASSUME Init PROVE FilesCounted
    OBVIOUS
  <2>1. /\ size = [f \in File |-> 0] /\ usage = 0 /\ slipped = FALSE
        /\ policy.filesystem.quota = Unset
    BY DEF Init, ReadOnly
  <2>2. MaxSize \in Nat
    BY SessionAssumption
  <2>3. Total(size) = 0
    BY <2>1, TotalOfNone
  <2>4. size \in [File -> 0..MaxSize]
    BY <2>1, <2>2
  <2>5. usage \in Nat /\ Total(size) <= usage
    BY <2>1, <2>3
  <2>6. QED
    BY <2>1, <2>4, <2>5 DEF FilesCounted
<1>2. FilesCounted /\ [Next]_vars => FilesCounted' /\ [Grows]_vars
  <2> SUFFICES ASSUME FilesCounted, [Next]_vars PROVE FilesCounted' /\ Grows
    OBVIOUS
  <2>1. CASE \E f \in File, n \in 0..MaxSize : ChangeFile(f, n)
    BY <2>1, ChangeCounted
  <2>2. CASE \E f \in File, n \in 0..MaxSize : ChangeUnguarded(f, n)
    BY <2>2, UnguardedCounted
  <2>3. CASE ~\E f \in File, n \in 0..MaxSize : ChangeFile(f, n) \/ ChangeUnguarded(f, n)
    <3>1. FilesCounted' /\ (size' = size \/ Total(size') = 0)
      BY <2>3, OthersCounted
    <3>2. Total(size) \in Nat
      BY TotalIsNatural
    <3>3. ~(Total(size') > Total(size))
      <4>1. CASE size' = size
        BY <3>2, <4>1 DEF Total, Units
      <4>2. CASE Total(size') = 0
        BY <3>2, <4>2
      <4>3. QED
        BY <3>1, <4>1, <4>2
    <3>4. QED
      BY <3>1, <3>3
  <2>4. QED
    BY <2>1, <2>2, <2>3
<1>3. QED
  BY <1>1, <1>2, PTL DEF Spec, GrowsWithinQuota

(***************************************************************************)
(* Watchdog                                                                *)
(***************************************************************************)

Running == {"hooks", "guest", "post"}
Ending == {"returned", "sent", "loaded", "cleanup"}

(* Only the current invocation is under way; those to come are blank.      *)
Current ==
  /\ runtime # "idle" => latest \in Invocations /\ verdict[latest] = "none"
  /\ runtime \in {"sent", "loaded"} => latest \in limited
  /\ runtime \in {"sent", "loaded"} => latest \in cancelled
  /\ \A i \in Invocations : i > latest => verdict[i] = "none"

(* A guest stopped by its own watchdog ends as a timeout, or as the error  *)
(* of a hook: its flag is set before it is stopped, and complete reads the *)
(* flag after the cancel.                                                  *)
Reported ==
  \A i \in overran :
    /\ i = latest /\ runtime \in {"loaded", "cleanup"} => timedOut
    /\ i # latest \/ runtime = "idle" => verdict[i] \in {"timeout", "error"}

(* A thread can only expire before its invocation has sent the cancel.     *)
Armed ==
  /\ \A i \in Invocations : thread[i] # "off" => i \in limited
  /\ \A i \in Invocations : thread[i] = "flagged" => i \in fired
  /\ \A i \in Invocations : thread[i] = "waiting" /\ i \notin cancelled =>
       i = latest /\ runtime \in Running \cup {"returned"}

(* What is in flight or requested belongs to the invocation under way, or  *)
(* to one that is in late.                                                 *)
Explained ==
  \A i \in Invocations : InFlight(i) \/ i \in requests =>
    \/ i \in late
    \/ i = latest /\ runtime \in Running \cup {"returned", "sent", "loaded"}

WatchdogInv ==
  /\ WatchdogTypeOK /\ Current /\ Reported /\ Armed /\ Explained
  /\ InterruptsAreExplained

LEMMA WatchdogRanges ==
  ASSUME WatchdogTypeOK
  PROVE  /\ latest \in Nat /\ latest <= MaxInvocations
         /\ limited \subseteq Invocations /\ cancelled \subseteq Invocations
         /\ fired \subseteq Invocations /\ requests \subseteq Invocations
         /\ late \subseteq Invocations /\ overran \subseteq Invocations
         /\ overran \subseteq limited
<1>1. /\ latest \in Nat /\ latest <= MaxInvocations /\ 1..latest \subseteq Invocations
  BY WatchdogAssumption DEF WatchdogTypeOK, Invocations
<1>2. QED
  BY <1>1 DEF WatchdogTypeOK

LEMMA WatchdogInitInv == WatchdogInit => WatchdogInv
<1> SUFFICES ASSUME WatchdogInit PROVE WatchdogInv
  OBVIOUS
<1> USE DEF WatchdogInit, Invocations
<1>1. WatchdogTypeOK
  <2>1. latest \in 0..MaxInvocations
    BY WatchdogAssumption
  <2>7. /\ limited \subseteq 1..latest /\ cancelled \subseteq 1..latest /\ late \subseteq 1..latest
        /\ fired \subseteq limited /\ requests \subseteq fired
        /\ overran \subseteq fired /\ timedOut \in BOOLEAN
    <3> HIDE DEF Invocations
    <3> QED  OBVIOUS
  <2>2. thread \in [Invocations ->
                     {"off", "waiting", "expired", "flagged", "done"}]
    OBVIOUS
  <2>3. verdict \in [Invocations -> {"none", "ended", "timeout", "error"}]
    OBVIOUS
  <2>5. stoppedBy \in [Invocations -> SUBSET Invocations]
    OBVIOUS
  <2>6. QED
    BY <2>1, <2>2, <2>3, <2>5, <2>7 DEF WatchdogTypeOK
<1>2. Current
  BY WatchdogAssumption DEF Current, Running
<1>3. Reported
  BY DEF Reported
<1>4. Armed /\ Explained /\ InterruptsAreExplained
  BY DEF Armed, Explained, InFlight, InterruptsAreExplained
<1>5. QED
  BY <1>1, <1>2, <1>3, <1>4 DEF WatchdogInv

-----------------------------------------------------------------------------
(* What each step does to the state, in the terms of the invariant.        *)

(* A new invocation: only the thread armed for it changes.                 *)
LEMMA ArmStep ==
  ASSUME WatchdogInv, NEW limit \in BOOLEAN, Arm(limit)
  PROVE  WatchdogInv'
<1> USE DEF Invocations
<1>1. /\ latest \in Nat /\ latest' = latest + 1 /\ latest' \in Invocations
      /\ runtime = "idle" /\ runtime' = "hooks"
      /\ cancelled' = cancelled /\ fired' = fired /\ requests' = requests
      /\ verdict' = verdict /\ overran' = overran /\ stoppedBy' = stoppedBy
      /\ late' = late
  BY WatchdogAssumption DEF WatchdogInv, WatchdogTypeOK, Arm, shared, interrupts
<1>2. /\ limited \subseteq limited' /\ limited' \subseteq limited \cup {latest'}
      /\ limited' \subseteq 1..latest'
  BY <1>1 DEF WatchdogInv, WatchdogTypeOK, Arm
<1>3. thread' \in [Invocations -> {"off", "waiting", "expired", "flagged", "done"}]
  BY <1>1 DEF WatchdogInv, WatchdogTypeOK, Arm
<1>4. \A i \in Invocations :
        thread'[i] = thread[i] \/ (i = latest' /\ thread'[i] = "waiting" /\ i \in limited')
  BY <1>1 DEF WatchdogInv, WatchdogTypeOK, Arm
<1>5. WatchdogTypeOK'
  <2>1. 1..latest \subseteq 1..latest' /\ latest' \in 0..MaxInvocations
    BY <1>1, WatchdogAssumption
  <2>2. cancelled' \subseteq 1..latest' /\ late' \subseteq 1..latest' /\ fired' \subseteq limited'
    BY <1>1, <1>2, <2>1 DEF WatchdogInv, WatchdogTypeOK
  <2>3. timedOut' \in BOOLEAN
    BY DEF Arm
  <2>4. QED
    BY <1>1, <1>2, <1>3, <2>1, <2>2, <2>3 DEF WatchdogInv, WatchdogTypeOK
<1>6. Current'
  BY <1>1 DEF WatchdogInv, Current, Running
<1>7. Reported'
  <2> SUFFICES ASSUME NEW i \in overran
               PROVE  /\ i = latest' => runtime' \notin {"loaded", "cleanup"}
                      /\ i # latest' => verdict'[i] \in {"timeout", "error"}
    BY <1>1 DEF Reported
  <2>1. i # latest'
    BY <1>1 DEF WatchdogInv, WatchdogTypeOK
  <2>2. i # latest \/ runtime = "idle"
    BY <1>1
  <2>3. QED
    BY <1>1, <2>1, <2>2 DEF WatchdogInv, Reported
<1>8. Armed'
  BY <1>1, <1>2, <1>4 DEF WatchdogInv, Armed, Running
<1>9. Explained'
  BY <1>1, <1>4 DEF WatchdogInv, Explained, InFlight, Running
<1>10. InterruptsAreExplained'
  BY <1>1 DEF WatchdogInv, InterruptsAreExplained
<1>11. QED
  BY <1>5, <1>6, <1>7, <1>8, <1>9, <1>10 DEF WatchdogInv

(* A call that leaves through `?` is in late from then on.                 *)
LEMMA HookStep ==
  ASSUME WatchdogInv, HookFails \/ HookInterrupted
  PROVE  WatchdogInv'
<1> USE DEF Invocations
<1>1. /\ runtime \in {"hooks", "post"} /\ runtime' = "idle"
      /\ latest \in Invocations /\ latest' = latest
      /\ limited' = limited /\ thread' = thread /\ fired' = fired
      /\ timedOut' = timedOut /\ overran' = overran
      /\ cancelled' = cancelled \cup {latest} /\ late' = late \cup {latest}
      /\ verdict' = [verdict EXCEPT ![latest] = "error"]
  BY DEF WatchdogInv, Current, HookFails, HookInterrupted, LeaveEarly, Unwind,
         began
<1>2. /\ requests' \subseteq requests
      /\ \/ stoppedBy' = stoppedBy
         \/ stoppedBy' = [stoppedBy EXCEPT ![latest] = @ \cup requests]
  BY DEF HookFails, HookInterrupted, Unwind
<1>3. WatchdogTypeOK'
  <2>1. stoppedBy' \in [Invocations -> SUBSET Invocations]
    <3>1. requests \in SUBSET Invocations
      BY WatchdogRanges DEF WatchdogInv
    <3>2. /\ stoppedBy \in [Invocations -> SUBSET Invocations]
          /\ stoppedBy[latest] \cup requests \in SUBSET Invocations
      BY <1>1, <3>1 DEF WatchdogInv, WatchdogTypeOK
    <3>3. CASE stoppedBy' = stoppedBy
      BY <3>2, <3>3
    <3>4. CASE stoppedBy' = [stoppedBy EXCEPT ![latest] = @ \cup requests]
      BY <3>2, <3>4
    <3>5. QED
      BY <1>2, <3>3, <3>4
  <2>2. /\ verdict' \in [Invocations -> {"none", "ended", "timeout", "error"}]
        /\ cancelled' \subseteq 1..latest /\ late' \subseteq 1..latest
    BY <1>1, WatchdogRanges DEF WatchdogInv, WatchdogTypeOK
  <2>3. QED
    BY <1>1, <1>2, <2>1, <2>2 DEF WatchdogInv, WatchdogTypeOK
<1>4. Current'
  <2> SUFFICES ASSUME NEW i \in Invocations, i > latest
               PROVE  verdict'[i] = "none"
    BY <1>1 DEF Current, Running
  <2>1. i # latest /\ verdict[i] = "none"
    BY WatchdogRanges DEF WatchdogInv, Current
  <2>2. QED
    BY <1>1, <2>1 DEF WatchdogInv, WatchdogTypeOK
<1>6. Reported'
  <2> SUFFICES ASSUME NEW i \in overran PROVE verdict'[i] \in {"timeout", "error"}
    BY <1>1 DEF Reported
  <2>1. i \in Invocations
    BY WatchdogRanges DEF WatchdogInv
  <2>2. QED
    BY <1>1, <2>1 DEF WatchdogInv, WatchdogTypeOK, Reported
<1>7. Armed'
  BY <1>1 DEF WatchdogInv, Armed
<1>8. Explained'
  BY <1>1, <1>2 DEF WatchdogInv, Explained, InFlight
<1>9. InterruptsAreExplained'
  <2> SUFFICES ASSUME NEW i \in Invocations PROVE stoppedBy'[i] \ {i} \subseteq late'
    BY DEF InterruptsAreExplained
  <2>1. CASE stoppedBy'[i] = stoppedBy[i]
    BY <1>1, <2>1 DEF WatchdogInv, InterruptsAreExplained
  <2>2. CASE stoppedBy'[i] = stoppedBy[i] \cup requests /\ i = latest
    BY <1>1, <2>2, WatchdogRanges DEF WatchdogInv, Explained, InterruptsAreExplained
  <2>3. QED
    BY <1>2, <2>1, <2>2 DEF WatchdogInv, WatchdogTypeOK
<1>10. QED
  BY <1>3, <1>4, <1>6, <1>7, <1>8, <1>9 DEF WatchdogInv

(* Moves of the runtime thread that leave everything else alone.           *)
LEMMA RuntimeMoveStep ==
  ASSUME WatchdogInv, Invoke \/ GuestReturns \/ HooksReturn \/ NoGuard
  PROVE  WatchdogInv'
<1> USE DEF Invocations
<1>1. /\ latest' = latest /\ limited' = limited /\ thread' = thread /\ cancelled' = cancelled
      /\ fired' = fired /\ requests' = requests /\ timedOut' = timedOut
      /\ verdict' = verdict /\ overran' = overran /\ stoppedBy' = stoppedBy
      /\ late' = late
      /\ runtime \in Running \cup {"returned"}
      /\ \/ runtime' \in {"guest", "post", "returned"} /\ runtime \in Running
         \/ runtime' = "cleanup" /\ runtime = "returned" /\ latest \notin limited
  BY DEF Invoke, GuestReturns, HooksReturn, NoGuard, began, shared, interrupts,
         Running
<1>2. WatchdogTypeOK'
  BY <1>1 DEF WatchdogInv, WatchdogTypeOK
<1>3. Current'
  BY <1>1 DEF WatchdogInv, Current, Running
<1>4. Reported'
  BY <1>1 DEF WatchdogInv, WatchdogTypeOK, Reported, Running
<1>5. Armed'
  BY <1>1 DEF WatchdogInv, Armed, Running
<1>6. Explained'
  BY <1>1 DEF WatchdogInv, WatchdogTypeOK, Explained, Armed, InFlight, Running
<1>7. InterruptsAreExplained'
  BY <1>1 DEF WatchdogInv, InterruptsAreExplained
<1>8. QED
  BY <1>2, <1>3, <1>4, <1>5, <1>6, <1>7 DEF WatchdogInv

(* A guest is stopped: whoever asked has raised its flag.                  *)
LEMMA GuestInterruptedStep ==
  ASSUME WatchdogInv, GuestInterrupted
  PROVE  WatchdogInv'
<1> USE DEF Invocations
<1>1. /\ latest' = latest /\ limited' = limited /\ thread' = thread /\ cancelled' = cancelled
      /\ fired' = fired /\ timedOut' = timedOut /\ verdict' = verdict
      /\ late' = late /\ requests' = {}
      /\ runtime = "guest" /\ runtime' \in {"post", "returned"}
      /\ overran' = overran \cup (requests \cap {latest})
      /\ stoppedBy' = [stoppedBy EXCEPT ![latest] = @ \cup requests]
      /\ latest \in Invocations
  BY DEF WatchdogInv, Current, GuestInterrupted, Unwind, began
<1>2. WatchdogTypeOK'
  <2>1. stoppedBy' \in [Invocations -> SUBSET Invocations]
    BY <1>1, WatchdogRanges DEF WatchdogInv, WatchdogTypeOK
  <2>2. QED
    BY <1>1, <2>1 DEF WatchdogInv, WatchdogTypeOK
<1>3. Current'
  BY <1>1 DEF WatchdogInv, WatchdogTypeOK, Current, Running
<1>4. Reported'
  BY <1>1 DEF WatchdogInv, WatchdogTypeOK, Reported
<1>5. Armed'
  BY <1>1 DEF WatchdogInv, Armed, Running
<1>6. Explained'
  BY <1>1 DEF WatchdogInv, Explained, InFlight, Running
<1>7. InterruptsAreExplained'
  <2> SUFFICES ASSUME NEW i \in Invocations PROVE stoppedBy'[i] \ {i} \subseteq late'
    BY DEF InterruptsAreExplained
  <2>1. CASE i # latest
    BY <1>1, <2>1 DEF WatchdogInv, WatchdogTypeOK, InterruptsAreExplained
  <2>2. CASE i = latest
    <3>1. stoppedBy'[i] = stoppedBy[i] \cup requests
      BY <1>1, <2>2 DEF WatchdogInv, WatchdogTypeOK
    <3>2. QED
      BY <1>1, <2>2, <3>1, WatchdogRanges DEF WatchdogInv, Explained, InterruptsAreExplained
  <2>3. QED
    BY <2>1, <2>2
<1>8. QED
  BY <1>2, <1>3, <1>4, <1>5, <1>6, <1>7 DEF WatchdogInv

(* complete: the message, the flag, and the request taken back.            *)
LEMMA CompleteStep ==
  ASSUME WatchdogInv, SendCancel \/ LoadFired
  PROVE  WatchdogInv'
<1> USE DEF Invocations
<1>1. /\ latest' = latest /\ limited' = limited /\ thread' = thread
      /\ fired' = fired /\ requests' = requests /\ verdict' = verdict
      /\ overran' = overran /\ stoppedBy' = stoppedBy /\ late' = late
      /\ latest \in Invocations
      /\ \/ /\ runtime = "returned" /\ runtime' = "sent" /\ timedOut' = timedOut
            /\ cancelled' = cancelled \cup {latest} /\ latest \in limited
         \/ /\ runtime = "sent" /\ runtime' = "loaded" /\ timedOut' = (latest \in fired)
            /\ cancelled' = cancelled
  BY DEF WatchdogInv, Current, SendCancel, LoadFired, began, shared, interrupts
<1>2. WatchdogTypeOK'
  <2>1. cancelled' \subseteq 1..latest
    <3>1. latest \in 1..latest
      BY <1>1
    <3>2. QED
      BY <1>1, <3>1 DEF WatchdogInv, WatchdogTypeOK
  <2>3. timedOut' \in BOOLEAN
    <3>1. timedOut \in BOOLEAN
      BY DEF WatchdogInv, WatchdogTypeOK
    <3>2. timedOut' = timedOut \/ timedOut' = (latest \in fired)
      BY <1>1
    <3>3. CASE timedOut' = timedOut
      BY <3>1, <3>3
    <3>4. CASE timedOut' = (latest \in fired)
      <4>1. (latest \in fired) = TRUE \/ (latest \in fired) = FALSE
        OBVIOUS
      <4>2. QED
        BY <3>4, <4>1
    <3>5. QED
      BY <3>2, <3>3, <3>4
  <2>2. QED
    BY <1>1, <2>1, <2>3 DEF WatchdogInv, WatchdogTypeOK
<1>3. Current'
  BY <1>1 DEF WatchdogInv, Current, Running
<1>4. Reported'
  BY <1>1 DEF WatchdogInv, WatchdogTypeOK, Reported
<1>5. Armed'
  BY <1>1 DEF WatchdogInv, Armed, Running
<1>6. Explained'
  BY <1>1 DEF WatchdogInv, Explained, InFlight, Running
<1>7. InterruptsAreExplained'
  BY <1>1 DEF WatchdogInv, InterruptsAreExplained
<1>8. QED
  BY <1>2, <1>3, <1>4, <1>5, <1>6, <1>7 DEF WatchdogInv

LEMMA CancelStep ==
  ASSUME WatchdogInv, CancelTerminate \/ CleanupInterrupted
  PROVE  WatchdogInv'
<1> USE DEF Invocations
<1>1. /\ latest' = latest /\ limited' = limited /\ thread' = thread /\ cancelled' = cancelled
      /\ fired' = fired /\ requests' = {} /\ timedOut' = timedOut
      /\ verdict' = verdict /\ overran' = overran /\ stoppedBy' = stoppedBy
      /\ latest \in Invocations
      /\ \/ /\ runtime = "loaded" /\ runtime' = "cleanup"
            /\ late' = IF InFlight(latest) THEN late \cup {latest} ELSE late
         \/ runtime = "cleanup" /\ runtime' = runtime /\ late' = late
  BY DEF WatchdogInv, Current, CancelTerminate, CleanupInterrupted, began,
         shared, interrupts
<1>2. late \subseteq late' /\ late' \subseteq 1..latest
  <2>1. latest \in 1..latest
    BY <1>1
  <2>2. late' \in {late, late \cup {latest}}
    BY <1>1
  <2>3. QED
    BY <2>1, <2>2 DEF WatchdogInv, WatchdogTypeOK
<1>3. WatchdogTypeOK'
  BY <1>1, <1>2 DEF WatchdogInv, WatchdogTypeOK
<1>4. Current'
  BY <1>1 DEF WatchdogInv, Current, Running
<1>5. Reported'
  BY <1>1 DEF WatchdogInv, Reported
<1>6. Armed'
  BY <1>1 DEF WatchdogInv, Armed, Running
<1>7. Explained'
  BY <1>1, <1>2 DEF WatchdogInv, Explained, InFlight, Running
<1>8. InterruptsAreExplained'
  BY <1>1, <1>2 DEF WatchdogInv, InterruptsAreExplained
<1>9. QED
  BY <1>3, <1>4, <1>5, <1>6, <1>7, <1>8 DEF WatchdogInv

LEMMA WatchdogFinishStep ==
  ASSUME WatchdogInv, Finish
  PROVE  WatchdogInv'
<1> USE DEF Invocations
<1>1. /\ latest' = latest /\ limited' = limited /\ thread' = thread /\ cancelled' = cancelled
      /\ fired' = fired /\ requests' = requests /\ timedOut' = timedOut
      /\ overran' = overran /\ stoppedBy' = stoppedBy /\ late' = late
      /\ runtime = "cleanup" /\ runtime' = "idle" /\ latest \in Invocations
      /\ verdict' = [verdict EXCEPT ![latest] = IF timedOut THEN "timeout" ELSE "ended"]
  BY DEF WatchdogInv, Current, Finish, began, shared, interrupts
<1>2. WatchdogTypeOK'
  BY <1>1 DEF WatchdogInv, WatchdogTypeOK
<1>3. Current'
  BY <1>1 DEF WatchdogInv, WatchdogTypeOK, Current, Running
<1>4. Reported'
  BY <1>1 DEF WatchdogInv, WatchdogTypeOK, Reported
<1>5. Armed'
  BY <1>1 DEF WatchdogInv, Armed, Running
<1>6. Explained'
  BY <1>1 DEF WatchdogInv, Explained, InFlight, Running
<1>7. InterruptsAreExplained'
  BY <1>1 DEF WatchdogInv, InterruptsAreExplained
<1>8. QED
  BY <1>2, <1>3, <1>4, <1>5, <1>6, <1>7 DEF WatchdogInv

(* A watchdog thread: it takes up a request only for an invocation that    *)
(* was waiting, or was in flight already.                                  *)
LEMMA WatchStep ==
  ASSUME WatchdogInv, NEW i \in Invocations, Watch(i)
  PROVE  WatchdogInv'
<1> USE DEF Invocations
<1>1. /\ runtime' = runtime /\ latest' = latest /\ limited' = limited /\ cancelled' = cancelled
      /\ timedOut' = timedOut /\ verdict' = verdict
      /\ overran' = overran /\ stoppedBy' = stoppedBy /\ late' = late
      /\ thread[i] # "off" /\ i \in limited
  BY DEF WatchdogInv, Armed, Watch, Expires, StoreFired, TerminateExecution,
         IsCancelled, began, shared, interrupts
<1>2. /\ thread' \in [Invocations -> {"off", "waiting", "expired", "flagged", "done"}]
      /\ \A j \in Invocations : j # i => thread'[j] = thread[j]
      /\ thread'[i] \in {"expired", "flagged", "done"}
  BY DEF WatchdogInv, WatchdogTypeOK, Watch, Expires, StoreFired,
         TerminateExecution, IsCancelled
<1>3. /\ fired \subseteq fired' /\ fired' \subseteq fired \cup {i}
      /\ requests \subseteq requests' /\ requests' \subseteq requests \cup {i}
  BY DEF Watch, Expires, StoreFired, TerminateExecution, IsCancelled, shared
<1>4. InFlight(i)' \/ i \in requests' =>
        InFlight(i) \/ i \in requests \/ (thread[i] = "waiting" /\ i \notin cancelled)
  <2>1. CASE Expires(i)
    BY <2>1 DEF Expires
  <2>2. CASE StoreFired(i)
    BY <2>2 DEF StoreFired, InFlight
  <2>3. CASE TerminateExecution(i)
    BY <2>3 DEF TerminateExecution, InFlight
  <2>4. CASE IsCancelled(i)
    BY <2>4 DEF WatchdogInv, WatchdogTypeOK, IsCancelled, InFlight, shared
  <2>5. QED
    BY <2>1, <2>2, <2>3, <2>4 DEF Watch
<1>5. i \in requests' => i \in fired'
  BY DEF WatchdogInv, WatchdogTypeOK, Armed, Watch, Expires, StoreFired,
         TerminateExecution, IsCancelled, shared
<1>6. thread'[i] = "flagged" => i \in fired'
  BY DEF WatchdogInv, WatchdogTypeOK, Watch, Expires, StoreFired,
         TerminateExecution, IsCancelled, shared
<1>7. WatchdogTypeOK'
  BY <1>1, <1>2, <1>3, <1>5 DEF WatchdogInv, WatchdogTypeOK
<1>8. Current'
  BY <1>1 DEF WatchdogInv, Current
<1>9. Reported'
  BY <1>1, <1>3 DEF WatchdogInv, Reported
<1>10. Armed'
  BY <1>1, <1>2, <1>3, <1>6 DEF WatchdogInv, Armed
<1>11. Explained'
  <2> SUFFICES ASSUME NEW j \in Invocations, InFlight(j)' \/ j \in requests'
               PROVE  \/ j \in late
                      \/ j = latest /\ runtime \in Running \cup {"returned", "sent", "loaded"}
    BY <1>1 DEF Explained
  <2>1. CASE j # i
    BY <1>2, <1>3, <2>1 DEF WatchdogInv, Explained, InFlight
  <2>2. CASE j = i
    BY <1>4, <2>2 DEF WatchdogInv, Explained, Armed
  <2>3. QED
    BY <2>1, <2>2
<1>12. InterruptsAreExplained'
  BY <1>1 DEF WatchdogInv, InterruptsAreExplained
<1>13. QED
  BY <1>7, <1>8, <1>9, <1>10, <1>11, <1>12 DEF WatchdogInv

LEMMA WatchdogStutterStep ==
  ASSUME WatchdogInv, UNCHANGED watchdogVars
  PROVE  WatchdogInv'
BY DEF WatchdogInv, WatchdogTypeOK, Current, Reported, Armed,
       Explained, InFlight, InterruptsAreExplained, watchdogVars

-----------------------------------------------------------------------------

THEOREM WatchdogInvariance == WatchdogSpec => []WatchdogInv
<1>1. ASSUME WatchdogInv, [WatchdogNext]_watchdogVars PROVE WatchdogInv'
  <2>1. CASE WatchdogNext
    BY <1>1, <2>1, ArmStep, HookStep, RuntimeMoveStep, GuestInterruptedStep,
       CompleteStep, CancelStep, WatchdogFinishStep, WatchStep
    DEF WatchdogNext, Complete
  <2>2. QED
    BY <1>1, <2>1, WatchdogStutterStep
<1>2. QED
  BY WatchdogInitInv, <1>1, PTL DEF WatchdogSpec

(* Each variable has its type; in particular only threads of invocations   *)
(* with a limit raise a flag, and only those that have raised theirs ask   *)
(* V8 to terminate (terminate_execution comes after the store).            *)
THEOREM WatchdogTypeCorrect == WatchdogSpec => []WatchdogTypeOK
<1>1. WatchdogInv => WatchdogTypeOK
  BY DEF WatchdogInv
<1>2. QED
  BY WatchdogInvariance, <1>1, PTL

(* However the thread of the guest's own invocation and the runtime thread *)
(* interleave, complete reports the timeout that stopped the guest, unless *)
(* a hook after it fails and its error is reported.                        *)
THEOREM TimeoutsReported == WatchdogSpec => []TimeoutsAreReported
<1>1. WatchdogInv => TimeoutsAreReported
  <2> SUFFICES ASSUME WatchdogInv, NEW i \in overran PROVE verdict[i] # "ended"
    BY DEF TimeoutsAreReported
  <2>1. CASE i # latest \/ runtime = "idle"
    BY <2>1 DEF WatchdogInv, Reported
  <2>2. CASE i = latest /\ runtime # "idle"
    BY <2>2 DEF WatchdogInv, Current
  <2>3. QED
    BY <2>1, <2>2
<1>2. QED
  BY WatchdogInvariance, <1>1, PTL

(* A stray interrupt comes from a thread that was past recv_timeout when   *)
(* its invocation ended, or from one whose invocation never completed.     *)
THEOREM InterruptsExplained == WatchdogSpec => []InterruptsAreExplained
<1>1. WatchdogInv => InterruptsAreExplained
  BY DEF WatchdogInv
<1>2. QED
  BY WatchdogInvariance, <1>1, PTL
=================================================================================
