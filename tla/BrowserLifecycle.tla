--------------------------- MODULE BrowserLifecycle ---------------------------
(***************************************************************************)
(* The life of the browser package in a page                               *)
(* (packages/browser-observability/src: bootstrap/coordinator.js,          *)
(* lifecycle/, consent/consent-manager.js and                              *)
(* adapter/openobserve/create-adapter.js).                                 *)
(*                                                                         *)
(* The host application calls initialize, setTrackingConsent and shutdown  *)
(* whenever it likes.  initialize and shutdown await; each goes on working *)
(* on the runtime object it started with, while the module's variable may  *)
(* already hold another one.  The OpenObserve SDK is a singleton of the    *)
(* page: it is initialized once, with callbacks that belong to the first   *)
(* adapter, and every later adapter reuses it.                             *)
(***************************************************************************)
EXTENDS Naturals, FiniteSets

CONSTANTS
  Identity,     \* connection identities the host may pass (the fingerprint)
  NoIdentity,   \* none yet
  Closer,       \* names for shutdowns in progress (bounds their number)
  MaxRuntimes   \* runtime objects explored

ASSUME IdentityAssumption == NoIdentity \notin Identity
ASSUME RuntimesAssumption == MaxRuntimes \in Nat \ {0}

VARIABLES
  runtimes,     \* the runtime objects, in the order of their creation
  current,      \* the one in the module variable runtimeState
  made,         \* how many there are
  init,         \* the initialization in flight (registry.inFlightPromise)
  closing,      \* the shutdowns in progress
  applied,      \* whether a control document was applied in this page
  loop,         \* whether the runtime-control loop runs
  sdk,          \* the SDK singleton
  overlapped    \* history: the host did not await a lifecycle call

vars == <<runtimes, current, made, init, closing, applied, loop, sdk, overlapped>>

(***************************************************************************)
(* Runtime objects and the state machine.                                  *)
(***************************************************************************)
Transitions == [
  idle         |-> {"initializing"},
  initializing |-> {"active", "disabled", "degraded"},
  active       |-> {"degraded", "shuttingDown"},
  degraded     |-> {"shuttingDown"},
  disabled     |-> {"initializing", "shuttingDown"},
  shuttingDown |-> {"shutdown"},
  shutdown     |-> {"initializing"}]

State == DOMAIN Transitions

(* "epoch": whether the correlation context has an epoch; beforeSend drops *)
(* every event without one.                                                *)
Runtime == [state : State, consent : BOOLEAN, accepting : BOOLEAN,
            adapter : BOOLEAN, epoch : BOOLEAN]

NewRuntime(state, consent) ==
  [state |-> state, consent |-> consent, accepting |-> TRUE,
   adapter |-> FALSE, epoch |-> FALSE]

(* transition: what the table does not allow changes nothing.              *)
Transition(r, state) ==
  IF state \in Transitions[r.state] THEN [r EXCEPT !.state = state] ELSE r

DisableRuntime(r) ==
  Transition([r EXCEPT !.adapter = FALSE, !.accepting = FALSE], "disabled")

ActivateRuntime(r) ==
  Transition([r EXCEPT !.adapter = TRUE, !.accepting = TRUE], "active")

Live(r) == r.state \in {"active", "degraded"}

Here == runtimes[current]

(***************************************************************************)
(* The tasks in progress.                                                  *)
(***************************************************************************)

(* "consent" is what the adapter's context holds, read before the SDK is   *)
(* loaded.                                                                 *)
NoInit == [step |-> "none", on |-> 1, identity |-> NoIdentity, consent |-> FALSE, aborted |-> FALSE]

NotClosing == [step |-> "none", on |-> 1]

Initializing == init.step # "none"
ShuttingDown == \E k \in Closer : closing[k].step # "none"

Overlaps(busy) == overlapped' = (overlapped \/ busy)

(* prepareInitializationRuntime: a shutdown or disabled runtime is replaced *)
(* by a new one, an idle one is used; any other is taken as it is.         *)
Prepared ==
  IF Here.state \in {"shutdown", "disabled"} THEN NewRuntime("initializing", Here.consent)
  ELSE IF Here.state = "idle" THEN [Here EXCEPT !.state = "initializing"]
  ELSE Here

PutPrepared(r) ==
  IF Here.state \in {"shutdown", "disabled"}
  THEN /\ made < MaxRuntimes
       /\ made' = made + 1
       /\ current' = made + 1
       /\ runtimes' = [runtimes EXCEPT ![made + 1] = r]
  ELSE /\ runtimes' = [runtimes EXCEPT ![current] = r]
       /\ UNCHANGED <<current, made>>

(* initializeCoordinator with options that do not validate.                *)
InitializeInvalid ==
  /\ PutPrepared(DisableRuntime(Prepared))
  /\ Overlaps(Initializing \/ ShuttingDown)
  /\ UNCHANGED <<init, closing, applied, loop, sdk>>

(* initializeCoordinator, up to the first await.  While the package is     *)
(* live or an initialization is in flight the call changes nothing.        *)
Initialize(identity) ==
  /\ ~ Live(Here)
  /\ ~ Initializing
  /\ PutPrepared(Prepared)
  /\ init' = [NoInit EXCEPT !.step = "config", !.on = current', !.identity = identity]
  /\ Overlaps(ShuttingDown)
  /\ UNCHANGED <<closing, applied, loop, sdk>>

(* A plausible bug: the failure is reported, the runtime left as it is.    *)
InitFailsSilently ==
  /\ Initializing
  /\ init' = NoInit
  /\ UNCHANGED <<runtimes, current, made, closing, applied, loop, sdk, overlapped>>

(* The configuration or the control document is missing, invalid, disabled *)
(* or aborted, the epoch cannot be made, the SDK cannot be loaded, or it   *)
(* runs under another identity.                                            *)
InitFails ==
  /\ Initializing
  /\ runtimes' = [runtimes EXCEPT ![init.on] = DisableRuntime(@)]
  /\ applied' \in {applied, applied \/ (init.step = "control" /\ ~ init.aborted)}
  /\ init' = NoInit
  /\ UNCHANGED <<current, made, closing, loop, sdk, overlapped>>

(* Past the last gate: the epoch, and the context of the adapter.          *)
EnterAdapter ==
  /\ init' = [init EXCEPT !.step = "adapter", !.consent = runtimes[init.on].consent]
  /\ runtimes' = [runtimes EXCEPT ![init.on].epoch = @ \/ runtimes[init.on].consent]

(* The configuration was fetched in time, of the right shape, and is       *)
(* neither expired nor disabled.  performInitialControlFetch fetches only  *)
(* in a page that has no document.                                         *)
ConfigLoaded ==
  /\ init.step = "config"
  /\ ~ init.aborted
  /\ IF applied THEN EnterAdapter
                ELSE init' = [init EXCEPT !.step = "control"] /\ UNCHANGED runtimes
  /\ UNCHANGED <<current, made, closing, applied, loop, sdk, overlapped>>

ControlFetched ==
  /\ init.step = "control"
  /\ ~ init.aborted
  /\ applied' = TRUE
  /\ EnterAdapter
  /\ UNCHANGED <<current, made, closing, loop, sdk, overlapped>>

(* The adapter's initialize: the first one initializes the SDK, whose      *)
(* callbacks keep its correlation context.                                 *)
SdkReady ==
  IF sdk.identity = NoIdentity
  THEN [identity |-> init.identity, correlation |-> init.on, consent |-> FALSE]
  ELSE sdk

SameIdentity == sdk.identity \in {NoIdentity, init.identity}

(* Consent is applied, the runtime activated and the control loop started; *)
(* without the logs channel the runtime is degraded.                       *)
AdapterReady ==
  /\ init.step = "adapter"
  /\ SameIdentity
  /\ sdk' = [SdkReady EXCEPT !.consent = init.consent]
  /\ \E state \in {"active", "degraded"} :
       LET r == [runtimes[init.on] EXCEPT !.epoch = @ /\ init.consent]
       IN runtimes' = [runtimes EXCEPT ![init.on] = Transition(ActivateRuntime(r), state)]
  /\ loop' = TRUE
  /\ init' = NoInit
  /\ UNCHANGED <<current, made, closing, applied, overlapped>>

(* The SDK throws, before or after it has learned the consent: no adapter, *)
(* and degraded.                                                           *)
AdapterThrows ==
  /\ init.step = "adapter"
  /\ SameIdentity
  /\ sdk' \in {SdkReady, [SdkReady EXCEPT !.consent = init.consent]}
  /\ runtimes' = [runtimes EXCEPT ![init.on] = Transition(@, "degraded")]
  /\ init' = NoInit
  /\ UNCHANGED <<current, made, closing, applied, loop, overlapped>>

(***************************************************************************)
(* Consent.                                                                *)
(***************************************************************************)
HasAdapter(r) == Live(r) /\ r.adapter

(* A plausible bug: withdrawing consent is left to the SDK alone.          *)
ConsentedKeepsEpoch(r, consent) ==
  [r EXCEPT !.consent = consent, !.epoch = @ \/ (consent /\ ~ r.consent)]

Consented(r, consent) ==
  [r EXCEPT !.consent = consent,
            !.epoch = IF r.consent = consent THEN @ ELSE consent]

(* setConsent; an SDK that throws, before or after it has learned the      *)
(* consent, degrades the runtime.  If no epoch can be made, nothing        *)
(* changes.                                                                *)
SetConsent(consent) ==
  LET r == Consented(Here, consent)
  IN /\ \/ /\ HasAdapter(r)
           /\ \E told, thrown \in BOOLEAN :
                /\ told \/ thrown
                /\ sdk' = IF told THEN [sdk EXCEPT !.consent = consent] ELSE sdk
                /\ LET q == [r EXCEPT !.epoch = @ /\ (consent \/ ~ told)]
                   IN runtimes' = [runtimes EXCEPT ![current] =
                                     IF thrown THEN Transition(q, "degraded") ELSE q]
        \/ /\ ~ HasAdapter(r)
           /\ runtimes' = [runtimes EXCEPT ![current] = r]
           /\ UNCHANGED sdk
     /\ Overlaps(ShuttingDown)
     /\ UNCHANGED <<current, made, init, closing, applied, loop>>

(* Any other value is answered with INVALID_CONSENT: consent, the epoch    *)
(* and the SDK stay as they are, granted or not.                           *)
RefuseConsent == UNCHANGED vars

(* recordAction or recordError with an SDK that throws.                    *)
RecordFails ==
  /\ Here.state = "active" /\ Here.accepting /\ Here.consent
  /\ runtimes' = [runtimes EXCEPT ![current] = Transition(@, "degraded")]
  /\ UNCHANGED <<current, made, init, closing, applied, loop, sdk, overlapped>>

(***************************************************************************)
(* Shutdown.                                                               *)
(***************************************************************************)

(* The runtime's own fetches, and whichever fetch of a control document.   *)
Aborts == Initializing /\ (init.on = current \/ init.step = "control")

(* A plausible bug: the control loop goes on.                              *)
ShutdownKeepsLoop(k) ==
  /\ closing[k].step = "none"
  /\ Here.state \notin {"idle", "shutdown"}
  /\ runtimes' = [runtimes EXCEPT ![current] =
                    Transition([Here EXCEPT !.accepting = FALSE, !.epoch = FALSE], "shuttingDown")]
  /\ init' = [init EXCEPT !.aborted = @ \/ Aborts]
  /\ closing' = [closing EXCEPT ![k] = [step |-> "replay", on |-> current]]
  /\ Overlaps(Initializing \/ ShuttingDown)
  /\ UNCHANGED <<current, made, applied, loop, sdk>>

(* shutdownObservability, up to its first await.  Only the two fetches can *)
(* be aborted, not the loading of the SDK.                                 *)
Shutdown(k) ==
  /\ closing[k].step = "none"
  /\ Here.state \notin {"idle", "shutdown"}
  /\ runtimes' = [runtimes EXCEPT ![current] =
                    Transition([Here EXCEPT !.accepting = FALSE, !.epoch = FALSE], "shuttingDown")]
  /\ init' = [init EXCEPT !.aborted = @ \/ Aborts]
  /\ loop' = FALSE
  /\ closing' = [closing EXCEPT ![k] = [step |-> "replay", on |-> current]]
  /\ Overlaps(Initializing \/ ShuttingDown)
  /\ UNCHANGED <<current, made, applied, sdk>>

(* The adapter of the runtime, if it has one by now, closes the SDK; what  *)
(* the SDK throws is swallowed.                                            *)
CloseAdapter(k) ==
  /\ closing[k].step = "replay"
  /\ LET on == closing[k].on
     IN IF runtimes[on].adapter
        THEN \/ /\ sdk' = [sdk EXCEPT !.consent = FALSE]
                /\ runtimes' = [runtimes EXCEPT ![on].epoch = FALSE]
             \/ UNCHANGED <<sdk, runtimes>>
        ELSE UNCHANGED <<sdk, runtimes>>
  /\ closing' = [closing EXCEPT ![k].step = "adapter"]
  /\ UNCHANGED <<current, made, init, applied, loop, overlapped>>

(* The module gets a fresh runtime in the shutdown state.                  *)
ReplaceRuntime(k) ==
  /\ closing[k].step = "adapter"
  /\ made < MaxRuntimes
  /\ made' = made + 1
  /\ current' = made + 1
  /\ runtimes' = [runtimes EXCEPT ![made + 1] =
                    NewRuntime("shutdown", runtimes[closing[k].on].consent)]
  /\ closing' = [closing EXCEPT ![k] = NotClosing]
  /\ UNCHANGED <<init, applied, loop, sdk, overlapped>>

Init ==
  /\ runtimes = [i \in 1 .. MaxRuntimes |-> NewRuntime("idle", FALSE)]
  /\ current = 1
  /\ made = 1
  /\ init = NoInit
  /\ closing = [k \in Closer |-> NotClosing]
  /\ applied = FALSE
  /\ loop = FALSE
  /\ sdk = [identity |-> NoIdentity, correlation |-> 1, consent |-> FALSE]
  /\ overlapped = FALSE

Next ==
  \/ InitializeInvalid
  \/ \E identity \in Identity : Initialize(identity)
  \/ InitFails
  \/ ConfigLoaded
  \/ ControlFetched
  \/ AdapterReady
  \/ AdapterThrows
  \/ \E consent \in BOOLEAN : SetConsent(consent)
  \/ RefuseConsent
  \/ RecordFails
  \/ \E k \in Closer : Shutdown(k) \/ CloseAdapter(k) \/ ReplaceRuntime(k)

Spec == Init /\ [][Next]_vars

TypeOK ==
  /\ runtimes \in [1 .. MaxRuntimes -> Runtime]
  /\ current \in 1 .. made
  /\ made \in 1 .. MaxRuntimes
  /\ init \in [step : {"none", "config", "control", "adapter"}, on : 1 .. MaxRuntimes,
               identity : Identity \cup {NoIdentity}, consent : BOOLEAN, aborted : BOOLEAN]
  /\ closing \in [Closer -> [step : {"none", "replay", "adapter"}, on : 1 .. MaxRuntimes]]
  /\ applied \in BOOLEAN
  /\ loop \in BOOLEAN
  /\ sdk \in [identity : Identity \cup {NoIdentity}, correlation : 1 .. MaxRuntimes,
              consent : BOOLEAN]
  /\ overlapped \in BOOLEAN

(***************************************************************************)
(* Properties.                                                             *)
(***************************************************************************)

(* The SDK collects on its own (views, resources, errors): an event leaves *)
(* the page when the SDK has consent and beforeSend, which belongs to the  *)
(* first adapter, finds an epoch.  The kill-switch gate comes on top.      *)
Emits ==
  /\ sdk.identity # NoIdentity
  /\ sdk.consent
  /\ runtimes[sdk.correlation].epoch

(* No event leaves a page whose visitor has not granted consent.           *)
EmitsOnlyWithConsent == Emits => Here.consent

(* Nor one whose package is not live, for a host that awaits each          *)
(* initialize and shutdown before the next call; only consent may change   *)
(* while an initialization is in flight, and the SDK may throw.  Consent   *)
(* is what the package holds: a value that it refuses withdraws nothing,   *)
(* although the API's comment says that it does (index.js:88).             *)
AwaitedEmitsOnlyWithConsent == ~ overlapped /\ Emits => Here.consent /\ Live(Here)

(* For such a host the control loop runs only for a live package.  An      *)
(* initialization that goes on after a shutdown, or after its runtime was  *)
(* replaced, starts the loop all the same: but for any host it runs only   *)
(* in a page to which a control document was applied.                      *)
LoopOnlyWhileLive == loop => applied /\ (~ overlapped => Live(Here))

(* Whatever the host does, once nothing is in progress the package is in   *)
(* a state from which it can go on: never initializing or shutting down.   *)
NoLimbo ==
  ~ Initializing /\ ~ ShuttingDown => Here.state \notin {"initializing", "shuttingDown"}

(* A live package with consent, whose SDK has consent too, emits.          *)
LiveConsentEmits ==
  ~ overlapped /\ HasAdapter(Here) /\ Here.consent /\ Here.epoch /\ sdk.consent => Emits

(* The types, and a control loop that runs when it may.                    *)
LifecycleOK == TypeOK /\ LoopOnlyWhileLive

(***************************************************************************)
(* The inductive invariant behind the three invariants.                    *)
(***************************************************************************)

(* Tasks and the SDK name runtimes that were made.                         *)
NamesOK == init.on \in 1 .. made /\ sdk.correlation \in 1 .. made

(* The runtime an initialization works on is the only one initializing,    *)
(* and the current one shuts down only while a shutdown is in progress.    *)
TransientOK ==
  /\ \A i \in 1 .. MaxRuntimes :
       runtimes[i].state = "initializing" => Initializing /\ init.on = i
  /\ Here.state = "shuttingDown" => ShuttingDown

(* An epoch is made only with consent and dropped with it.                 *)
EpochOK == \A i \in 1 .. MaxRuntimes : runtimes[i].epoch => runtimes[i].consent

(* For a host that awaits: one task at a time, on the current runtime ...  *)
AloneOK ==
  /\ Initializing => init.on = current /\ Here.state = "initializing" /\ ~ ShuttingDown
  /\ \A k, l \in Closer :
       closing[k].step # "none" =>
         /\ closing[k].on = current /\ Here.state = "shuttingDown"
         /\ ~ Here.epoch /\ ~ loop
         /\ closing[l].step # "none" => k = l

(* ... and the runtime behind the SDK's callbacks is live, or its epoch is *)
(* gone for good.                                                          *)
CallbacksOK ==
  sdk.identity # NoIdentity =>
    \/ ~ runtimes[sdk.correlation].epoch
         /\ (sdk.correlation = current => Live(Here) \/ Here.state = "shuttingDown")
    \/ sdk.correlation = current /\ Live(Here)

LoopAwaited == loop => Live(Here)

AwaitedInv == AloneOK /\ LoopAwaited /\ CallbacksOK

LifecycleInv ==
  /\ TypeOK /\ NamesOK /\ TransientOK /\ EpochOK
  /\ ~ overlapped => AwaitedInv

(* Nobody gets to the SDK, let alone to the loop, without a document.      *)
DocumentFirst == loop \/ init.step = "adapter" => applied
=============================================================================
