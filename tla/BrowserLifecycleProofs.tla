----------------------- MODULE BrowserLifecycleProofs -----------------------
(***************************************************************************)
(* For any number of runtimes, identities and shutdowns in progress: the   *)
(* package never gets stuck between two states, and for a host that awaits *)
(* its calls the control loop and the SDK outlive neither the package nor  *)
(* the visitor's consent.                                                  *)
(***************************************************************************)
EXTENDS BrowserLifecycle, TLAPS

(***************************************************************************)
(* The state machine of a runtime.                                         *)
(***************************************************************************)
LEMMA States ==
  State = {"idle", "initializing", "active", "degraded", "disabled", "shuttingDown", "shutdown"}
BY DEF State, Transitions

LEMMA TransitionTypes ==
  ASSUME NEW r \in Runtime, NEW s \in State
  PROVE  /\ Transition(r, s) \in Runtime
         /\ Transition(r, s).state \in {r.state, s}
         /\ Transition(r, s).consent = r.consent /\ Transition(r, s).epoch = r.epoch
         /\ Transition(r, s).adapter = r.adapter /\ Transition(r, s).accepting = r.accepting
BY DEF Transition, Runtime

(* What an initialization settles on it reaches; nothing but the           *)
(* replacement of the runtime ends a shutdown; a live runtime that fails   *)
(* degrades and lives.                                                     *)
LEMMA TransitionTable ==
  ASSUME NEW r \in Runtime
  PROVE  /\ r.state = "initializing" =>
              \A s \in {"active", "disabled", "degraded"} : Transition(r, s).state = s
         /\ r.state \in {"active", "degraded", "disabled"} =>
              Transition(r, "shuttingDown").state = "shuttingDown"
         /\ r.state = "shuttingDown" =>
              \A s \in State \ {"shutdown"} : Transition(r, s).state = "shuttingDown"
         /\ Live(r) => /\ Live(Transition(r, "disabled"))
                       /\ Live(Transition(r, "degraded"))
                       /\ Live(Transition(r, "active"))
BY States DEF Transition, Transitions, Runtime, Live

(***************************************************************************)
(* The steps of an initialization.                                         *)
(***************************************************************************)

(* The record types, by name: the provers keep them apart from the sets    *)
(* of names and states.                                                    *)
LEMMA HereMade == TypeOK => /\ current \in 1 .. MaxRuntimes /\ Here \in Runtime
                            /\ \A i \in 1 .. MaxRuntimes : runtimes[i] \in Runtime
                            /\ 1 .. made \subseteq 1 .. MaxRuntimes
<1> SUFFICES ASSUME TypeOK PROVE HereMade!2
  OBVIOUS
<1>1. made \in Nat /\ MaxRuntimes \in Nat /\ made <= MaxRuntimes /\ current \in 1 .. made
  BY RuntimesAssumption DEF TypeOK
<1> QED
  BY <1>1 DEF TypeOK, Here

LEMMA PreparedFacts ==
  ASSUME TypeOK
  PROVE  /\ Prepared \in Runtime
         /\ Prepared.epoch => Here.epoch /\ Prepared = [Here EXCEPT !.state = Prepared.state]
         /\ Prepared.consent = Here.consent
         /\ Here.state \in {"idle", "shutdown", "disabled"} => Prepared.state = "initializing"
         /\ Here.state \notin {"idle", "shutdown", "disabled"} => Prepared = Here
<1>1. Here \in Runtime
  BY HereMade
<1>2. CASE Here.state \in {"shutdown", "disabled"}
  <2>1. Prepared = NewRuntime("initializing", Here.consent)
    BY <1>2 DEF Prepared
  <2> QED
    BY <1>1, <1>2, <2>1, States DEF NewRuntime, Runtime
<1>3. CASE Here.state = "idle"
  <2>1. Prepared = [Here EXCEPT !.state = "initializing"]
    BY <1>3 DEF Prepared
  <2> QED
    BY <1>1, <1>3, <2>1, States DEF Runtime
<1>4. CASE Here.state \notin {"idle", "shutdown", "disabled"}
  <2>1. Prepared = Here
    BY <1>4 DEF Prepared
  <2> QED
    BY <1>1, <1>4, <2>1, States DEF Runtime
<1> QED
  BY <1>2, <1>3, <1>4

LEMMA DisableFacts ==
  ASSUME NEW r \in Runtime
  PROVE  /\ DisableRuntime(r) \in Runtime
         /\ DisableRuntime(r).consent = r.consent /\ DisableRuntime(r).epoch = r.epoch
         /\ DisableRuntime(r).state \in {r.state, "disabled"}
         /\ DisableRuntime(r).state # "initializing"
         /\ r.state = "shuttingDown" => DisableRuntime(r).state = "shuttingDown"
         /\ Live(r) => Live(DisableRuntime(r))
<1> DEFINE q == [r EXCEPT !.adapter = FALSE, !.accepting = FALSE]
<1>1. q \in Runtime /\ q.state = r.state /\ q.consent = r.consent /\ q.epoch = r.epoch
  BY DEF Runtime
<1>2. DisableRuntime(r) = Transition(q, "disabled") /\ "disabled" \in State
  BY States DEF DisableRuntime
<1> HIDE DEF q
<1>3. /\ Transition(q, "disabled") \in Runtime
      /\ Transition(q, "disabled").consent = r.consent /\ Transition(q, "disabled").epoch = r.epoch
      /\ Transition(q, "disabled").state \in {r.state, "disabled"}
  BY <1>1, <1>2, TransitionTypes
<1>4. /\ r.state = "initializing" => Transition(q, "disabled").state = "disabled"
      /\ r.state = "shuttingDown" => Transition(q, "disabled").state = "shuttingDown"
  BY <1>1, <1>2, TransitionTable
<1>5. Live(q) => Live(Transition(q, "disabled"))
  BY <1>1, TransitionTable
<1> QED
  BY <1>1, <1>2, <1>3, <1>4, <1>5 DEF Live

LEMMA ActivateFacts ==
  ASSUME NEW r \in Runtime, NEW s \in {"active", "degraded"}
  PROVE  LET q == Transition(ActivateRuntime(r), s)
         IN /\ q \in Runtime /\ q.consent = r.consent /\ q.epoch = r.epoch
            /\ q.state # "initializing"
            /\ r.state = "initializing" => Live(q)
            /\ r.state = "shuttingDown" => q.state = "shuttingDown"
            /\ q.state = "shuttingDown" => r.state = "shuttingDown"
<1> DEFINE p == [r EXCEPT !.adapter = TRUE, !.accepting = TRUE]
<1>1. p \in Runtime /\ p.state = r.state /\ p.consent = r.consent /\ p.epoch = r.epoch
  BY DEF Runtime
<1>2. ActivateRuntime(r) = Transition(p, "active") /\ {"active", "degraded"} \subseteq State
  BY States DEF ActivateRuntime
<1> HIDE DEF p
<1>3. /\ Transition(p, "active") \in Runtime
      /\ Transition(p, "active").consent = r.consent /\ Transition(p, "active").epoch = r.epoch
      /\ Transition(p, "active").state \in {r.state, "active"} \ {"initializing"}
      /\ r.state = "initializing" => Live(Transition(p, "active"))
  BY <1>1, <1>2, TransitionTypes, TransitionTable DEF Live
<1>4. Live(Transition(p, "active")) => Live(Transition(Transition(p, "active"), s))
  BY <1>2, <1>3, TransitionTable
<1>5. r.state = "shuttingDown" => Transition(p, "active").state = "shuttingDown"
  BY <1>1, <1>2, TransitionTable, States
<1> DEFINE a == Transition(p, "active")
<1>6. /\ Transition(a, s) \in Runtime
      /\ Transition(a, s).consent = r.consent /\ Transition(a, s).epoch = r.epoch
      /\ Transition(a, s).state \in {a.state, s}
  BY <1>2, <1>3, TransitionTypes
<1>7. a.state = "shuttingDown" => Transition(a, s).state = "shuttingDown"
  BY <1>2, <1>3, TransitionTable
<1>8. /\ Live(a) => Live(Transition(a, s))
      /\ a.state \in {r.state, "active"} \ {"initializing"}
      /\ r.state = "initializing" => Live(a)
      /\ r.state = "shuttingDown" => a.state = "shuttingDown"
      /\ ActivateRuntime(r) = a
  BY <1>2, <1>3, <1>4, <1>5
<1> HIDE DEF a
<1> QED
  BY <1>6, <1>7, <1>8 DEF Live

(* A step that writes one runtime and makes none.                          *)
LEMMA OneRuntime ==
  ASSUME TypeOK, NEW n \in 1 .. MaxRuntimes, NEW q \in Runtime,
         runtimes' = [runtimes EXCEPT ![n] = q], current' = current
  PROVE  /\ runtimes' \in [1 .. MaxRuntimes -> Runtime]
         /\ runtimes'[n] = q
         /\ \A i \in 1 .. MaxRuntimes : i # n => runtimes'[i] = runtimes[i]
         /\ Here' = IF n = current THEN q ELSE Here
<1>1. runtimes \in [1 .. MaxRuntimes -> Runtime] /\ current \in 1 .. MaxRuntimes
  BY HereMade DEF TypeOK
<1> QED
  BY <1>1 DEF Here

LEMMA TasksTyped ==
  ASSUME TypeOK
  PROVE  /\ init.step \in {"none", "config", "control", "adapter"}
         /\ init.on \in 1 .. MaxRuntimes /\ init.identity \in Identity \cup {NoIdentity}
         /\ \A k \in Closer : closing[k].on \in 1 .. MaxRuntimes
         /\ sdk.identity \in Identity \cup {NoIdentity} /\ sdk.correlation \in 1 .. MaxRuntimes
         /\ made \in Nat /\ MaxRuntimes \in Nat /\ 1 \in 1 .. MaxRuntimes
         /\ NoInit.step = "none" /\ NoInit.on = 1
BY RuntimesAssumption DEF TypeOK, NoInit

InitTask == [step : {"none", "config", "control", "adapter"}, on : 1 .. MaxRuntimes,
             identity : Identity \cup {NoIdentity}, consent : BOOLEAN, aborted : BOOLEAN]
ClosingTask == [step : {"none", "replay", "adapter"}, on : 1 .. MaxRuntimes]
Singleton == [identity : Identity \cup {NoIdentity}, correlation : 1 .. MaxRuntimes,
              consent : BOOLEAN]

LEMMA TypesKept ==
  ASSUME TypeOK, runtimes' \in [1 .. MaxRuntimes -> Runtime],
         current' \in 1 .. made', made' \in 1 .. MaxRuntimes,
         init' \in InitTask, closing' \in [Closer -> ClosingTask], sdk' \in Singleton,
         applied' \in BOOLEAN, loop' \in BOOLEAN, overlapped' \in BOOLEAN
  PROVE  TypeOK'
BY Zenon DEF TypeOK, InitTask, ClosingTask, Singleton

(* What a step leaves alone, or only marks, keeps its type.                *)
LEMMA TasksKept ==
  ASSUME TypeOK
  PROVE  /\ NoInit \in InitTask
         /\ init' = init \/ init' = NoInit => init' \in InitTask
         /\ closing' = closing => closing' \in [Closer -> ClosingTask]
         /\ sdk' = sdk => sdk' \in Singleton
         /\ UNCHANGED <<current, made>> => current' \in 1 .. made' /\ made' \in 1 .. MaxRuntimes
         /\ applied' = applied => applied' \in BOOLEAN
         /\ loop' = loop => loop' \in BOOLEAN
         /\ overlapped' = overlapped => overlapped' \in BOOLEAN
         /\ \A busy : Overlaps(busy) => overlapped' \in BOOLEAN
<1>1. NoInit \in InitTask
  BY RuntimesAssumption DEF NoInit, InitTask
<1>2. init \in InitTask /\ closing \in [Closer -> ClosingTask] /\ sdk \in Singleton
  BY DEF TypeOK, InitTask, ClosingTask, Singleton
<1>3. applied \in BOOLEAN /\ loop \in BOOLEAN /\ overlapped \in BOOLEAN
  BY DEF TypeOK
<1>4. \A busy : Overlaps(busy) => overlapped' \in BOOLEAN
  BY Zenon DEF Overlaps
<1>5. current \in 1 .. made /\ made \in 1 .. MaxRuntimes
  BY DEF TypeOK
<1> QED
  BY <1>1, <1>2, <1>3, <1>4, <1>5, Zenon

(* However an initialization ends, its runtime is settled.  What is left   *)
(* to show is that of the loop and of the SDK.                             *)
LEMMA InitEnds ==
  ASSUME LifecycleInv, Initializing, init' = NoInit,
         UNCHANGED <<current, made, closing, overlapped>>,
         NEW q \in Runtime, runtimes' = [runtimes EXCEPT ![init.on] = q],
         q.state # "initializing", q.epoch => q.consent,
         q.state = "shuttingDown" => runtimes[init.on].state = "shuttingDown",
         applied' \in BOOLEAN, loop' \in BOOLEAN, sdk' \in Singleton,
         sdk'.correlation \in 1 .. made,
         init.on = current /\ Here.state = "initializing" /\ ~ overlapped /\ LifecycleInv
           => LoopAwaited' /\ CallbacksOK'
  PROVE  LifecycleInv'
<1>1. TypeOK /\ init.on \in 1 .. MaxRuntimes /\ runtimes[init.on] \in Runtime /\ 1 \in 1 .. made
  BY TasksTyped, HereMade DEF LifecycleInv, TypeOK
<1>2. /\ runtimes' \in [1 .. MaxRuntimes -> Runtime]
      /\ runtimes'[init.on] = q
      /\ \A i \in 1 .. MaxRuntimes : i # init.on => runtimes'[i] = runtimes[i]
      /\ Here' = IF init.on = current THEN q ELSE Here
  BY <1>1, OneRuntime
<1>3. TypeOK'
  BY <1>1, <1>2, TasksKept, TypesKept
<1>4. NamesOK' /\ ~ Initializing' /\ (ShuttingDown' <=> ShuttingDown)
  BY <1>1, TasksTyped DEF LifecycleInv, NamesOK, Initializing, ShuttingDown
<1>5. TransientOK'
  BY <1>1, <1>2, <1>4 DEF LifecycleInv, TransientOK, Here
<1>6. EpochOK'
  BY <1>1, <1>2 DEF LifecycleInv, EpochOK
<1>7. ASSUME ~ overlapped
      PROVE  AwaitedInv'
  <2>1. init.on = current /\ Here.state = "initializing" /\ ~ ShuttingDown
    BY <1>7 DEF LifecycleInv, AwaitedInv, AloneOK
  <2>2. AloneOK'
    BY <1>4, <2>1 DEF AloneOK, ShuttingDown
  <2> QED
    BY <1>7, <2>1, <2>2 DEF AwaitedInv
<1> QED
  BY <1>3, <1>4, <1>5, <1>6, <1>7 DEF LifecycleInv

LEMMA InitFailsStep == LifecycleInv /\ InitFails => LifecycleInv'
<1> SUFFICES ASSUME LifecycleInv, InitFails
             PROVE  LifecycleInv'
  OBVIOUS
<1> DEFINE n == init.on
           q == DisableRuntime(runtimes[n])
<1>1. TypeOK /\ n \in 1 .. MaxRuntimes /\ runtimes[n] \in Runtime
  BY TasksTyped, HereMade DEF LifecycleInv
<1>2. /\ runtimes' = [runtimes EXCEPT ![n] = q]
      /\ init' = NoInit /\ Initializing
      /\ UNCHANGED <<current, made, closing, loop, sdk, overlapped>>
  BY DEF InitFails
<1>3. /\ q \in Runtime /\ q.state # "initializing"
      /\ q.consent = runtimes[n].consent /\ q.epoch = runtimes[n].epoch
      /\ q.state = "shuttingDown" => runtimes[n].state = "shuttingDown"
  BY <1>1, DisableFacts
<1> HIDE DEF q
<1>4. applied' \in BOOLEAN
  BY Zenon DEF InitFails, LifecycleInv, TypeOK
<1>5. q.epoch => q.consent
  BY <1>1, <1>3 DEF LifecycleInv, EpochOK
<1>6. ASSUME n = current, Here.state = "initializing", ~ overlapped
      PROVE  LoopAwaited' /\ CallbacksOK'
  <2>1. ~ loop
    BY <1>6 DEF LifecycleInv, AwaitedInv, LoopAwaited, Live
  <2>2. sdk.identity # NoIdentity =>
          /\ sdk.correlation # current /\ ~ runtimes[sdk.correlation].epoch
          /\ sdk.correlation \in 1 .. MaxRuntimes
    BY <1>1, <1>6, TasksTyped DEF LifecycleInv, AwaitedInv, CallbacksOK, Live
  <2>3. \A i \in 1 .. MaxRuntimes : i # n => runtimes'[i] = runtimes[i]
    BY <1>1, <1>2, <1>3, OneRuntime
  <2> QED
    BY <1>2, <1>6, <2>1, <2>2, <2>3 DEF LoopAwaited, CallbacksOK
<1>7. loop' \in BOOLEAN /\ sdk' \in Singleton /\ sdk'.correlation \in 1 .. made
  BY <1>1, <1>2, TasksKept DEF LifecycleInv, NamesOK
<1> QED
  BY <1>2, <1>3, <1>4, <1>5, <1>6, <1>7, InitEnds

(* A later adapter reuses the SDK, callbacks and all.                      *)
LEMMA SdkReadyFacts ==
  ASSUME LifecycleInv
  PROVE  /\ SdkReady \in Singleton
         /\ SdkReady.correlation \in {init.on, sdk.correlation} \cap 1 .. made
         /\ SdkReady.correlation # init.on => SdkReady = sdk /\ sdk.identity # NoIdentity
         /\ \A b \in BOOLEAN : /\ [SdkReady EXCEPT !.consent = b] \in Singleton
                               /\ [SdkReady EXCEPT !.consent = b].correlation = SdkReady.correlation
                               /\ [SdkReady EXCEPT !.consent = b].identity = SdkReady.identity
<1>1. sdk \in Singleton
  BY DEF LifecycleInv, TypeOK, Singleton
<1>2. /\ init.identity \in Identity \cup {NoIdentity} /\ init.on \in 1 .. MaxRuntimes
      /\ {init.on, sdk.correlation} \subseteq 1 .. made
  BY TasksTyped DEF LifecycleInv, NamesOK
<1>3. \/ SdkReady = sdk /\ sdk.identity # NoIdentity
      \/ SdkReady = [identity |-> init.identity, correlation |-> init.on, consent |-> FALSE]
  BY DEF SdkReady
<1>4. SdkReady \in Singleton
  <2>1. \A name \in Identity \cup {NoIdentity}, on \in 1 .. MaxRuntimes :
          [identity |-> name, correlation |-> on, consent |-> FALSE] \in Singleton
    BY DEF Singleton
  <2> QED
    BY <1>1, <1>2, <1>3, <2>1
<1>5. \A b \in BOOLEAN : /\ [SdkReady EXCEPT !.consent = b] \in Singleton
                         /\ [SdkReady EXCEPT !.consent = b].correlation = SdkReady.correlation
                         /\ [SdkReady EXCEPT !.consent = b].identity = SdkReady.identity
  <2> DEFINE ready == SdkReady
  <2>1. ready \in Singleton
    BY <1>4
  <2> HIDE DEF ready
  <2>2. \A b \in BOOLEAN : /\ [ready EXCEPT !.consent = b] \in Singleton
                           /\ [ready EXCEPT !.consent = b].correlation = ready.correlation
                           /\ [ready EXCEPT !.consent = b].identity = ready.identity
    BY <2>1 DEF Singleton
  <2> QED
    BY <2>2 DEF ready
<1> QED
  BY <1>2, <1>3, <1>4, <1>5

LEMMA AdapterStep == LifecycleInv /\ (AdapterReady \/ AdapterThrows) => LifecycleInv'
<1> SUFFICES ASSUME LifecycleInv, AdapterReady \/ AdapterThrows
             PROVE  LifecycleInv'
  OBVIOUS
<1> DEFINE n == init.on
<1>1. TypeOK /\ n \in 1 .. MaxRuntimes /\ runtimes[n] \in Runtime
  BY TasksTyped, HereMade DEF LifecycleInv
<1>2. /\ init' = NoInit /\ Initializing
      /\ UNCHANGED <<current, made, closing, applied, overlapped>>
  BY DEF AdapterReady, AdapterThrows, Initializing
<1>3. PICK q \in Runtime :
        /\ runtimes' = [runtimes EXCEPT ![n] = q]
        /\ q.state # "initializing"
        /\ q.epoch => q.consent
        /\ q.state = "shuttingDown" => runtimes[n].state = "shuttingDown"
        /\ runtimes[n].state = "initializing" => Live(q)
  <2>1. runtimes[n].epoch => runtimes[n].consent
    BY <1>1 DEF LifecycleInv, EpochOK
  <2>2. CASE AdapterReady
    <3> DEFINE r == [runtimes[n] EXCEPT !.epoch = @ /\ init.consent]
    <3>1. PICK s \in {"active", "degraded"} :
            runtimes' = [runtimes EXCEPT ![n] = Transition(ActivateRuntime(r), s)]
      BY <2>2 DEF AdapterReady
    <3>2. r \in Runtime /\ r.state = runtimes[n].state /\ r.consent = runtimes[n].consent
      BY <1>1 DEF Runtime
    <3>3. r.epoch = (runtimes[n].epoch /\ init.consent)
      BY <1>1 DEF Runtime
    <3>4. r.epoch => r.consent
      BY <2>1, <3>2, <3>3
    <3> HIDE DEF r
    <3> DEFINE q == Transition(ActivateRuntime(r), s)
    <3>5. /\ q \in Runtime /\ q.consent = r.consent /\ q.epoch = r.epoch
          /\ q.state # "initializing"
          /\ r.state = "initializing" => Live(q)
          /\ q.state = "shuttingDown" => r.state = "shuttingDown"
      BY <3>2, ActivateFacts
    <3> HIDE DEF q
    <3> QED
      BY <3>1, <3>2, <3>4, <3>5 DEF q
  <2>3. CASE AdapterThrows
    <3> DEFINE q == Transition(runtimes[n], "degraded")
    <3>1. runtimes' = [runtimes EXCEPT ![n] = q]
      BY <2>3 DEF AdapterThrows
    <3>2. /\ q \in Runtime /\ q.consent = runtimes[n].consent /\ q.epoch = runtimes[n].epoch
          /\ q.state \in {runtimes[n].state, "degraded"}
      BY <1>1, TransitionTypes, States
    <3>3. runtimes[n].state = "initializing" => q.state = "degraded"
      BY <1>1, TransitionTable
    <3> HIDE DEF q
    <3> QED
      BY <2>1, <3>1, <3>2, <3>3 DEF Live
  <2> QED
    BY <2>2, <2>3
<1>4. /\ sdk' \in Singleton /\ sdk'.correlation = SdkReady.correlation
      /\ sdk'.identity = SdkReady.identity
  <2>1. init.consent \in BOOLEAN
    BY DEF LifecycleInv, TypeOK
  <2> QED
    BY <2>1, SdkReadyFacts DEF AdapterReady, AdapterThrows
<1>5. /\ runtimes'[n] = q
      /\ \A i \in 1 .. MaxRuntimes : i # n => runtimes'[i] = runtimes[i]
      /\ Here' = IF n = current THEN q ELSE Here
  BY <1>1, <1>2, <1>3, OneRuntime
<1>6. loop' \in BOOLEAN /\ applied' \in BOOLEAN
  <2>1. CASE AdapterReady
    BY <1>1, <1>2, <2>1, TasksKept, Zenon DEF AdapterReady
  <2>2. CASE AdapterThrows
    BY <1>1, <1>2, <2>2, TasksKept DEF AdapterThrows
  <2> QED
    BY <2>1, <2>2
<1>7. ASSUME n = current, Here.state = "initializing", ~ overlapped
      PROVE  LoopAwaited' /\ CallbacksOK'
  <2>1. Live(Here')
    BY <1>3, <1>5, <1>7 DEF Here
  <2>2. LoopAwaited'
    BY <2>1 DEF LoopAwaited, Live
  <2>3. CASE SdkReady.correlation = n
    <3>1. sdk'.correlation = current' /\ Live(Here)'
      BY <1>2, <1>4, <1>7, <2>1, <2>3 DEF Live
    <3> QED
      BY <2>2, <3>1 DEF CallbacksOK
  <2>4. CASE SdkReady.correlation # n
    <3>1. /\ sdk.correlation # n /\ sdk.identity # NoIdentity
          /\ sdk'.correlation = sdk.correlation /\ sdk.correlation \in 1 .. MaxRuntimes
      BY <1>1, <1>4, <2>4, SdkReadyFacts, TasksTyped
    <3>2. ~ runtimes[sdk.correlation].epoch
      BY <1>7, <3>1 DEF LifecycleInv, AwaitedInv, CallbacksOK
    <3> QED
      BY <1>2, <1>5, <1>7, <2>2, <3>1, <3>2 DEF CallbacksOK
  <2> QED
    BY <2>2, <2>3, <2>4
<1> QED
  BY <1>2, <1>3, <1>4, <1>6, <1>7, SdkReadyFacts, InitEnds

(***************************************************************************)
(* Steps that change one runtime while every task goes on.                 *)
(***************************************************************************)
LEMMA RuntimeChanges ==
  ASSUME LifecycleInv, UNCHANGED <<current, made, loop>>,
         NEW n \in 1 .. MaxRuntimes, NEW q \in Runtime,
         runtimes' = [runtimes EXCEPT ![n] = q], q.epoch => q.consent,
         q.state \in {"initializing", "shuttingDown"} => q.state = runtimes[n].state,
         init' \in InitTask, init'.on = init.on, Initializing' <=> Initializing,
         closing' \in [Closer -> ClosingTask],
         \A k \in Closer : /\ closing'[k].on = closing[k].on
                           /\ closing'[k].step = "none" <=> closing[k].step = "none",
         sdk' \in Singleton, sdk'.identity = sdk.identity, sdk'.correlation = sdk.correlation,
         applied' \in BOOLEAN, overlapped' \in BOOLEAN,
         ~ overlapped' =>
           /\ ~ overlapped /\ n = current
           /\ Initializing => q.state = Here.state
           /\ Here.state = "shuttingDown" => q.state = "shuttingDown" /\ (q.epoch => Here.epoch)
           /\ Live(Here) => Live(q)
  PROVE  LifecycleInv'
<1>1. TypeOK
  BY DEF LifecycleInv
<1>2. /\ runtimes' \in [1 .. MaxRuntimes -> Runtime]
      /\ runtimes'[n] = q
      /\ \A i \in 1 .. MaxRuntimes : i # n => runtimes'[i] = runtimes[i]
      /\ Here' = IF n = current THEN q ELSE Here
  BY <1>1, OneRuntime
<1>3. TypeOK'
  BY <1>1, <1>2, TasksKept, TypesKept
<1>4. NamesOK' /\ (ShuttingDown' <=> ShuttingDown)
  BY DEF LifecycleInv, NamesOK, ShuttingDown
<1>5. TransientOK'
  BY <1>1, <1>2, <1>4, HereMade DEF LifecycleInv, TransientOK, Here
<1>6. EpochOK'
  BY <1>2 DEF LifecycleInv, EpochOK
<1>7. ASSUME ~ overlapped'
      PROVE  AwaitedInv'
  <2>1. ~ overlapped /\ Here' = q /\ AwaitedInv
    BY <1>2, <1>7 DEF LifecycleInv
  <2>2. AloneOK'
    BY <1>4, <1>7, <2>1 DEF AwaitedInv, AloneOK
  <2>3. LoopAwaited'
    <3>1. loop => Live(Here)'
      BY <1>7, <2>1 DEF AwaitedInv, LoopAwaited, Live
    <3> QED
      BY <3>1 DEF LoopAwaited
  <2>4. CallbacksOK'
    <3> SUFFICES ASSUME sdk'.identity # NoIdentity
                 PROVE  \/ /\ ~ runtimes'[sdk'.correlation].epoch
                           /\ sdk'.correlation = current' => Live(q) \/ q.state = "shuttingDown"
                        \/ sdk'.correlation = current' /\ Live(q)
      BY <2>1 DEF CallbacksOK, Live
    <3>1. sdk.correlation \in 1 .. MaxRuntimes
      BY <1>1, TasksTyped
    <3>2. CASE sdk.correlation # current
      BY <1>2, <1>7, <2>1, <3>1, <3>2 DEF AwaitedInv, CallbacksOK
    <3>3. CASE sdk.correlation = current
      <4>1. Live(Here) \/ (Here.state = "shuttingDown" /\ ~ Here.epoch)
        BY <2>1, <3>3 DEF AwaitedInv, CallbacksOK, Here
      <4> QED
        BY <1>2, <1>7, <3>3, <4>1
    <3> QED
      BY <3>2, <3>3
  <2> QED
    BY <2>2, <2>3, <2>4 DEF AwaitedInv
<1> QED
  BY <1>3, <1>4, <1>5, <1>6, <1>7 DEF LifecycleInv

LEMMA EpochTypes ==
  ASSUME NEW r \in Runtime, NEW e \in BOOLEAN
  PROVE  LET q == [r EXCEPT !.epoch = e]
         IN /\ q \in Runtime /\ q.state = r.state /\ q.consent = r.consent
            /\ q.adapter = r.adapter /\ q.epoch = e
BY DEF Runtime

LEMMA FetchStep == LifecycleInv /\ (ConfigLoaded \/ ControlFetched) => LifecycleInv'
<1> SUFFICES ASSUME LifecycleInv, ConfigLoaded \/ ControlFetched
             PROVE  LifecycleInv'
  OBVIOUS
<1> DEFINE n == init.on
<1>1. TypeOK /\ n \in 1 .. MaxRuntimes /\ runtimes[n] \in Runtime /\ init \in InitTask
  BY TasksTyped, HereMade DEF LifecycleInv, TypeOK, InitTask
<1>2. /\ Initializing
      /\ UNCHANGED <<current, made, closing, loop, sdk, overlapped>>
  BY DEF ConfigLoaded, ControlFetched, Initializing
<1>3. runtimes[n].consent \in BOOLEAN /\ runtimes[n].epoch \in BOOLEAN
  BY <1>1 DEF Runtime
<1>4. /\ init' \in InitTask /\ init'.on = init.on /\ Initializing'
      /\ \E e \in BOOLEAN : /\ runtimes' = [runtimes EXCEPT ![n].epoch = e]
                            /\ e => runtimes[n].epoch \/ runtimes[n].consent
  <2>1. CASE EnterAdapter
    <3>1. init' = [init EXCEPT !.step = "adapter", !.consent = runtimes[n].consent]
      BY <2>1 DEF EnterAdapter
    <3>2. \A b \in BOOLEAN : [init EXCEPT !.step = "adapter", !.consent = b] \in InitTask
      BY <1>1 DEF InitTask
    <3>3. init' \in InitTask
      BY <1>3, <3>1, <3>2
    <3>4. init'.on = init.on /\ init'.step = "adapter"
      BY <1>1, <3>1 DEF InitTask
    <3>5. (runtimes[n].epoch \/ runtimes[n].consent) \in BOOLEAN
      BY Zenon
    <3>6. runtimes' = [runtimes EXCEPT ![n].epoch = runtimes[n].epoch \/ runtimes[n].consent]
      BY <1>1, <2>1 DEF EnterAdapter, TypeOK
    <3> QED
      BY <3>3, <3>4, <3>5, <3>6 DEF Initializing
  <2>2. CASE init' = [init EXCEPT !.step = "control"] /\ UNCHANGED runtimes
    <3>1. init' \in InitTask /\ init'.on = init.on /\ init'.step = "control"
      BY <1>1, <2>2 DEF InitTask
    <3>2. runtimes' = [runtimes EXCEPT ![n].epoch = runtimes[n].epoch]
      BY <1>1, <2>2 DEF TypeOK, Runtime
    <3> QED
      BY <1>3, <3>1, <3>2 DEF Initializing
  <2> QED
    BY <2>1, <2>2 DEF ConfigLoaded, ControlFetched
<1>5. PICK e \in BOOLEAN : /\ runtimes' = [runtimes EXCEPT ![n].epoch = e]
                           /\ e => runtimes[n].epoch \/ runtimes[n].consent
  BY <1>4
<1> DEFINE q == [runtimes[n] EXCEPT !.epoch = e]
<1>6. /\ q \in Runtime /\ q.state = runtimes[n].state /\ q.consent = runtimes[n].consent
      /\ q.epoch = e
  BY <1>1, EpochTypes
<1>7. runtimes' = [runtimes EXCEPT ![n] = q]
  BY <1>5
<1> HIDE DEF q
<1>8. q.epoch => q.consent
  BY <1>1, <1>5, <1>6 DEF LifecycleInv, EpochOK
<1>9. ~ overlapped => n = current /\ Here.state = "initializing" /\ runtimes[n] = Here
  BY <1>2 DEF LifecycleInv, AwaitedInv, AloneOK, Here
<1>10. /\ closing' \in [Closer -> ClosingTask] /\ sdk' \in Singleton /\ overlapped' \in BOOLEAN
  BY <1>1, <1>2, TasksKept
<1>11. applied' \in BOOLEAN
  BY <1>1, Zenon DEF ConfigLoaded, ControlFetched, TypeOK
<1>12. ~ Live(Here) \/ Here.state # "initializing"
  BY DEF Live
<1> QED
  BY <1>1, <1>2, <1>4, <1>6, <1>7, <1>8, <1>9, <1>10, <1>11, <1>12, RuntimeChanges

LEMMA RecordFailsStep == LifecycleInv /\ RecordFails => LifecycleInv'
<1> SUFFICES ASSUME LifecycleInv, RecordFails
             PROVE  LifecycleInv'
  OBVIOUS
<1> DEFINE q == Transition(Here, "degraded")
<1>1. TypeOK /\ current \in 1 .. MaxRuntimes /\ Here \in Runtime /\ runtimes[current] = Here
  BY HereMade DEF LifecycleInv, Here
<1>2. /\ runtimes' = [runtimes EXCEPT ![current] = q]
      /\ Here.state = "active"
      /\ UNCHANGED <<current, made, init, closing, applied, loop, sdk, overlapped>>
  BY <1>1 DEF RecordFails, Here
<1>3. /\ q \in Runtime /\ q.consent = Here.consent /\ q.epoch = Here.epoch
      /\ q.state \in {Here.state, "degraded"}
  BY <1>1, TransitionTypes, States
<1> HIDE DEF q
<1>4. q.epoch => q.consent
  BY <1>1, <1>3 DEF LifecycleInv, EpochOK
<1>5. /\ init' \in InitTask /\ closing' \in [Closer -> ClosingTask] /\ sdk' \in Singleton
      /\ applied' \in BOOLEAN /\ overlapped' \in BOOLEAN
  BY <1>1, <1>2, TasksKept
<1>6. ~ overlapped => ~ Initializing
  BY <1>2 DEF LifecycleInv, AwaitedInv, AloneOK
<1>7. Initializing' <=> Initializing
  BY <1>2 DEF Initializing
<1> QED
  BY <1>1, <1>2, <1>3, <1>4, <1>5, <1>6, <1>7, RuntimeChanges DEF Live

LEMMA ConsentedFacts ==
  ASSUME NEW r \in Runtime, NEW consent \in BOOLEAN, r.epoch => r.consent
  PROVE  LET q == Consented(r, consent)
         IN /\ q \in Runtime /\ q.state = r.state /\ q.consent = consent
            /\ q.adapter = r.adapter /\ (q.epoch => q.consent)
<1> DEFINE e == IF r.consent = consent THEN r.epoch ELSE consent
<1>1. e \in BOOLEAN /\ (e => consent)
  BY DEF Runtime
<1>2. Consented(r, consent) = [r EXCEPT !.consent = consent, !.epoch = e]
  BY DEF Consented, Runtime
<1> HIDE DEF e
<1>3. LET q == [r EXCEPT !.consent = consent, !.epoch = e]
      IN q \in Runtime /\ q.state = r.state /\ q.consent = consent /\ q.adapter = r.adapter /\ q.epoch = e
  BY <1>1 DEF Runtime
<1> QED
  BY <1>1, <1>2, <1>3

LEMMA SetConsentStep ==
  ASSUME LifecycleInv, NEW consent \in BOOLEAN, SetConsent(consent)
  PROVE  LifecycleInv'
<1> DEFINE r == Consented(Here, consent)
<1>1. TypeOK /\ current \in 1 .. MaxRuntimes /\ Here \in Runtime /\ runtimes[current] = Here
  BY HereMade DEF LifecycleInv, Here
<1>2. Here.epoch => Here.consent
  BY <1>1 DEF LifecycleInv, EpochOK
<1>3. /\ r \in Runtime /\ r.state = Here.state /\ r.consent = consent
      /\ r.adapter = Here.adapter /\ (r.epoch => r.consent)
  BY <1>1, <1>2, ConsentedFacts
<1>4. /\ Overlaps(ShuttingDown)
      /\ UNCHANGED <<current, made, init, closing, applied, loop>>
      /\ \/ /\ HasAdapter(r)
            /\ \E told, thrown \in BOOLEAN :
                 /\ sdk' = IF told THEN [sdk EXCEPT !.consent = consent] ELSE sdk
                 /\ LET q == [r EXCEPT !.epoch = @ /\ (consent \/ ~ told)]
                    IN runtimes' = [runtimes EXCEPT ![current] =
                                      IF thrown THEN Transition(q, "degraded") ELSE q]
         \/ /\ runtimes' = [runtimes EXCEPT ![current] = r]
            /\ UNCHANGED sdk
  BY DEF SetConsent
<1> HIDE DEF r
<1>5. PICK q \in Runtime : /\ runtimes' = [runtimes EXCEPT ![current] = q]
                           /\ q.state = Here.state \/ (Live(Here) /\ Live(q))
                           /\ q.epoch => q.consent
  <2>1. CASE runtimes' = [runtimes EXCEPT ![current] = r]
    BY <1>3, <2>1
  <2>2. ASSUME HasAdapter(r), NEW told \in BOOLEAN, NEW thrown \in BOOLEAN,
               LET q == [r EXCEPT !.epoch = @ /\ (consent \/ ~ told)]
               IN runtimes' = [runtimes EXCEPT ![current] =
                                 IF thrown THEN Transition(q, "degraded") ELSE q]
        PROVE  \E q \in Runtime : /\ runtimes' = [runtimes EXCEPT ![current] = q]
                                  /\ Live(Here) /\ Live(q)
                                  /\ q.epoch => q.consent
    <3> DEFINE q == [r EXCEPT !.epoch = @ /\ (consent \/ ~ told)]
               e == r.epoch /\ (consent \/ ~ told)
    <3>1. Live(Here) /\ Live(r)
      BY <1>3, <2>2 DEF HasAdapter, Live
    <3>2. e \in BOOLEAN /\ (e => r.consent)
      BY <1>3, Zenon
    <3>3. q = [r EXCEPT !.epoch = e]
      OBVIOUS
    <3> HIDE DEF e, q
    <3>4. q \in Runtime /\ q.state = r.state /\ q.consent = r.consent /\ q.epoch = e
      BY <1>3, <3>2, <3>3, EpochTypes
    <3>5. LET d == Transition(q, "degraded")
          IN d \in Runtime /\ d.consent = q.consent /\ d.epoch = q.epoch
      BY <3>4, TransitionTypes, States
    <3>6. Live(q) => Live(Transition(q, "degraded"))
      BY <3>4, TransitionTable
    <3>7. Live(q)
      BY <3>1, <3>4 DEF Live
    <3>8. runtimes' = [runtimes EXCEPT ![current] = IF thrown THEN Transition(q, "degraded") ELSE q]
      BY <2>2 DEF q
    <3> QED
      BY <3>1, <3>2, <3>4, <3>5, <3>6, <3>7, <3>8
  <2> QED
    BY <1>4, <2>1, <2>2
<1>6. /\ init' \in InitTask /\ closing' \in [Closer -> ClosingTask] /\ applied' \in BOOLEAN
      /\ overlapped' \in BOOLEAN
  BY <1>1, <1>4, TasksKept
<1>7. sdk' \in Singleton /\ sdk'.identity = sdk.identity /\ sdk'.correlation = sdk.correlation
  <2>1. sdk \in Singleton
    BY <1>1 DEF TypeOK, Singleton
  <2>2. LET s == [sdk EXCEPT !.consent = consent]
        IN s \in Singleton /\ s.identity = sdk.identity /\ s.correlation = sdk.correlation
    BY <2>1 DEF Singleton
  <2> QED
    BY <1>4, <2>1, <2>2
<1>8. ~ overlapped' => ~ overlapped /\ ~ ShuttingDown
  BY <1>4 DEF Overlaps
<1>9. /\ ~ overlapped' => Here.state # "shuttingDown"
      /\ ~ overlapped' /\ Initializing => Here.state = "initializing"
      /\ Initializing' <=> Initializing
  BY <1>4, <1>8 DEF LifecycleInv, TransientOK, AwaitedInv, AloneOK, Initializing
<1> QED
  BY <1>1, <1>4, <1>5, <1>6, <1>7, <1>8, <1>9, RuntimeChanges DEF Live

LEMMA CloseAdapterStep ==
  ASSUME LifecycleInv, NEW k \in Closer, CloseAdapter(k)
  PROVE  LifecycleInv'
<1> DEFINE n == closing[k].on
<1>1. /\ TypeOK /\ n \in 1 .. MaxRuntimes /\ runtimes[n] \in Runtime
      /\ sdk \in Singleton /\ closing \in [Closer -> ClosingTask]
  BY TasksTyped, HereMade DEF LifecycleInv, TypeOK, Singleton, ClosingTask
<1>2. /\ closing[k].step = "replay"
      /\ closing' = [closing EXCEPT ![k].step = "adapter"]
      /\ UNCHANGED <<current, made, init, applied, loop, overlapped>>
  BY DEF CloseAdapter
<1>3. PICK q \in Runtime : /\ runtimes' = [runtimes EXCEPT ![n] = q]
                           /\ q.state = runtimes[n].state /\ q.consent = runtimes[n].consent
                           /\ q.epoch => runtimes[n].epoch
  <2>1. CASE UNCHANGED runtimes
    <3>1. runtimes' = [runtimes EXCEPT ![n] = runtimes[n]]
      BY <1>1, <2>1 DEF TypeOK
    <3> QED
      BY <1>1, <3>1
  <2>2. CASE runtimes' = [runtimes EXCEPT ![n].epoch = FALSE]
    <3> DEFINE q == [runtimes[n] EXCEPT !.epoch = FALSE]
    <3>1. q \in Runtime /\ q.state = runtimes[n].state /\ q.consent = runtimes[n].consent
          /\ q.epoch = FALSE
      BY <1>1, EpochTypes
    <3>2. runtimes' = [runtimes EXCEPT ![n] = q]
      BY <2>2
    <3> HIDE DEF q
    <3> QED
      BY <3>1, <3>2
  <2> QED
    BY <2>1, <2>2 DEF CloseAdapter
<1>4. sdk' \in Singleton /\ sdk'.identity = sdk.identity /\ sdk'.correlation = sdk.correlation
  <2>1. LET s == [sdk EXCEPT !.consent = FALSE]
        IN s \in Singleton /\ s.identity = sdk.identity /\ s.correlation = sdk.correlation
    BY <1>1 DEF Singleton
  <2>2. sdk' = sdk \/ sdk' = [sdk EXCEPT !.consent = FALSE]
    BY DEF CloseAdapter
  <2> QED
    BY <1>1, <2>1, <2>2
<1>5. closing' \in [Closer -> ClosingTask]
  <2>1. [closing[k] EXCEPT !.step = "adapter"] \in ClosingTask
    BY <1>1 DEF ClosingTask
  <2> QED
    BY <1>1, <1>2, <2>1
<1>6. \A l \in Closer : /\ closing'[l].on = closing[l].on
                        /\ closing'[l].step = "none" <=> closing[l].step = "none"
  <2>1. closing[k] \in ClosingTask
    BY <1>1
  <2>2. LET c == [closing[k] EXCEPT !.step = "adapter"]
        IN c.on = closing[k].on /\ c.step = "adapter"
    BY <2>1 DEF ClosingTask
  <2> QED
    BY <1>1, <1>2, <2>2
<1>7. q.epoch => q.consent
  BY <1>1, <1>3 DEF LifecycleInv, EpochOK
<1>8. init' \in InitTask /\ applied' \in BOOLEAN /\ overlapped' \in BOOLEAN
  BY <1>1, <1>2, TasksKept
<1>9. /\ ~ overlapped => n = current /\ runtimes[n] = Here
      /\ Initializing' <=> Initializing
  BY <1>2 DEF LifecycleInv, AwaitedInv, AloneOK, Initializing, Here
<1> QED
  BY <1>1, <1>2, <1>3, <1>4, <1>5, <1>6, <1>7, <1>8, <1>9, RuntimeChanges, ZenonT(30) DEF Live

(***************************************************************************)
(* Steps that start a task or make a runtime.                              *)
(***************************************************************************)

(* A new runtime takes a slot no task and no callback knows.               *)
LEMMA NewRuntimeFacts ==
  ASSUME TypeOK, made < MaxRuntimes
  PROVE  /\ made + 1 \in 1 .. MaxRuntimes
         /\ made + 1 \in 1 .. made + 1
         /\ \A i \in 1 .. made : i # made + 1 /\ i \in 1 .. made + 1
         /\ \A i \in 1 .. made : i \in 1 .. MaxRuntimes
<1>1. made \in Nat /\ MaxRuntimes \in Nat
  BY RuntimesAssumption DEF TypeOK
<1> QED
  BY <1>1

LEMMA ReplaceRuntimeStep ==
  ASSUME LifecycleInv, NEW k \in Closer, ReplaceRuntime(k)
  PROVE  LifecycleInv'
<1> DEFINE q == NewRuntime("shutdown", runtimes[closing[k].on].consent)
<1>1. /\ closing[k].step = "adapter" /\ made < MaxRuntimes
      /\ made' = made + 1 /\ current' = made + 1
      /\ runtimes' = [runtimes EXCEPT ![made + 1] = q]
      /\ closing' = [closing EXCEPT ![k] = NotClosing]
      /\ UNCHANGED <<init, applied, loop, sdk, overlapped>>
  BY DEF ReplaceRuntime
<1>2. /\ TypeOK /\ runtimes \in [1 .. MaxRuntimes -> Runtime]
      /\ closing \in [Closer -> ClosingTask]
      /\ closing[k].on \in 1 .. MaxRuntimes
  BY TasksTyped DEF LifecycleInv, TypeOK, ClosingTask
<1>3. /\ q \in Runtime /\ q.state = "shutdown" /\ q.epoch = FALSE
  <2>1. runtimes[closing[k].on].consent \in BOOLEAN
    BY <1>2 DEF Runtime
  <2> QED
    BY <2>1, States DEF NewRuntime, Runtime
<1> HIDE DEF q
<1>4. /\ runtimes' \in [1 .. MaxRuntimes -> Runtime]
      /\ Here' = q
      /\ \A i \in 1 .. MaxRuntimes : runtimes'[i] = IF i = made + 1 THEN q ELSE runtimes[i]
      /\ current' \in 1 .. made' /\ made' \in 1 .. MaxRuntimes
  BY <1>1, <1>2, <1>3, NewRuntimeFacts DEF Here
<1>5. NotClosing \in ClosingTask /\ NotClosing.step = "none"
  BY <1>2, TasksTyped DEF NotClosing, ClosingTask
<1>6. TypeOK'
  BY <1>1, <1>2, <1>4, <1>5, TasksKept, TypesKept
<1>7. NamesOK'
  BY <1>1, <1>2, NewRuntimeFacts DEF LifecycleInv, NamesOK
<1>8. TransientOK'
  BY <1>1, <1>3, <1>4 DEF LifecycleInv, TransientOK, Initializing
<1>9. EpochOK'
  BY <1>3, <1>4 DEF LifecycleInv, EpochOK
<1>10. ASSUME ~ overlapped
       PROVE  AwaitedInv'
  <2>1. /\ AwaitedInv /\ ShuttingDown
        /\ closing[k].step # "none"
        /\ \A l \in Closer : l # k => closing[l].step = "none"
    BY <1>1, <1>10 DEF LifecycleInv, AwaitedInv, AloneOK, ShuttingDown
  <2>2. ~ Initializing /\ ~ loop /\ Here.state = "shuttingDown" /\ ~ Here.epoch
    BY <2>1 DEF AwaitedInv, AloneOK
  <2>3. AloneOK' /\ LoopAwaited'
    BY <1>1, <1>2, <1>5, <2>1, <2>2 DEF AloneOK, LoopAwaited, Initializing
  <2>4. CallbacksOK'
    <3>1. sdk.correlation \in 1 .. made /\ sdk.correlation # made + 1
          /\ sdk.correlation \in 1 .. MaxRuntimes
      BY <1>1, <1>2, NewRuntimeFacts DEF LifecycleInv, NamesOK
    <3>2. sdk.identity # NoIdentity => ~ runtimes[sdk.correlation].epoch
      BY <2>1, <2>2 DEF AwaitedInv, CallbacksOK, Live
    <3> QED
      BY <1>1, <1>4, <3>1, <3>2 DEF CallbacksOK
  <2> QED
    BY <2>3, <2>4 DEF AwaitedInv
<1> QED
  BY <1>1, <1>6, <1>7, <1>8, <1>9, <1>10 DEF LifecycleInv

(* prepareInitializationRuntime leaves the package with a runtime that the *)
(* call then disables or hands to a new initialization.                    *)
LEMMA PreparesStep ==
  ASSUME LifecycleInv, NEW q \in Runtime, PutPrepared(q), q.epoch => q.consent,
         UNCHANGED <<closing, applied, loop, sdk>>, overlapped' \in BOOLEAN,
         ~ overlapped' => ~ overlapped /\ ~ ShuttingDown /\ ~ Initializing,
         init' \in InitTask,
         \/ init' = init /\ q.state # "initializing"
         \/ /\ init'.step # "none" /\ init'.on = current' /\ ~ Initializing
            /\ ~ overlapped' => q.state = "initializing",
         q.state = "shuttingDown" => Here.state = "shuttingDown",
         Live(Here) => Live(q)
  PROVE  LifecycleInv'
<1>1. /\ TypeOK /\ runtimes \in [1 .. MaxRuntimes -> Runtime]
      /\ current \in 1 .. made /\ made \in 1 .. MaxRuntimes /\ init \in InitTask
      /\ current \in 1 .. MaxRuntimes
  BY HereMade DEF LifecycleInv, TypeOK, InitTask
<1>2. /\ runtimes' = [runtimes EXCEPT ![current'] = q]
      /\ \/ /\ Here.state \in {"shutdown", "disabled"} /\ made < MaxRuntimes
            /\ made' = made + 1 /\ current' = made + 1
         \/ UNCHANGED <<current, made>>
  BY DEF PutPrepared
<1>3. /\ current' \in 1 .. made' /\ made' \in 1 .. MaxRuntimes /\ current' \in 1 .. MaxRuntimes
      /\ \A i \in 1 .. made : i \in 1 .. made' /\ i \in 1 .. MaxRuntimes
      /\ \A i \in 1 .. made : i = current' => UNCHANGED <<current, made>>
  BY <1>1, <1>2, NewRuntimeFacts, HereMade
<1>4. /\ runtimes' \in [1 .. MaxRuntimes -> Runtime]
      /\ Here' = q
      /\ \A i \in 1 .. MaxRuntimes : runtimes'[i] = IF i = current' THEN q ELSE runtimes[i]
  BY <1>1, <1>2, <1>3 DEF Here
<1>5. TypeOK'
  BY <1>1, <1>3, <1>4, TasksKept, TypesKept
<1>6. NamesOK' /\ (ShuttingDown' <=> ShuttingDown)
  BY <1>3 DEF LifecycleInv, NamesOK, ShuttingDown
<1>7. TransientOK'
  <2>1. ASSUME NEW i \in 1 .. MaxRuntimes, runtimes'[i].state = "initializing"
        PROVE  Initializing' /\ init'.on = i
    BY <1>4, <2>1 DEF LifecycleInv, TransientOK, Initializing
  <2>2. Here'.state = "shuttingDown" => ShuttingDown'
    BY <1>4, <1>6 DEF LifecycleInv, TransientOK
  <2> QED
    BY <2>1, <2>2 DEF TransientOK
<1>8. EpochOK'
  BY <1>4 DEF LifecycleInv, EpochOK
<1>9. ASSUME ~ overlapped'
      PROVE  AwaitedInv'
  <2>1. AwaitedInv /\ ~ overlapped /\ ~ ShuttingDown /\ ~ Initializing
        /\ Here.state # "shuttingDown"
    BY <1>9 DEF LifecycleInv, TransientOK
  <2>2. AloneOK'
    BY <1>4, <1>6, <1>9, <2>1 DEF AloneOK, ShuttingDown, Initializing
  <2>3. LoopAwaited'
    <3>1. loop => Live(Here)'
      BY <1>4, <2>1 DEF AwaitedInv, LoopAwaited, Live
    <3> QED
      BY <3>1 DEF LoopAwaited
  <2>4. CallbacksOK'
    <3> SUFFICES ASSUME sdk.identity # NoIdentity
                 PROVE  \/ /\ ~ runtimes'[sdk.correlation].epoch
                           /\ sdk.correlation # current'
                        \/ sdk.correlation = current' /\ Live(q)
      BY <1>4 DEF CallbacksOK, Live
    <3>1. sdk.correlation \in 1 .. made
      BY DEF LifecycleInv, NamesOK
    <3>2. CASE sdk.correlation # current
      <4>1. ~ runtimes[sdk.correlation].epoch
        BY <2>1, <3>2 DEF AwaitedInv, CallbacksOK
      <4> QED
        BY <1>3, <1>4, <3>1, <3>2, <4>1
    <3>3. CASE sdk.correlation = current
      <4>1. Live(Here)
        BY <2>1, <3>3 DEF AwaitedInv, CallbacksOK
      <4>2. Here.state \notin {"shutdown", "disabled"}
        BY <4>1 DEF Live
      <4> QED
        BY <1>2, <3>3, <4>1, <4>2
    <3> QED
      BY <3>2, <3>3
  <2> QED
    BY <2>2, <2>3, <2>4 DEF AwaitedInv
<1> QED
  BY <1>5, <1>6, <1>7, <1>8, <1>9 DEF LifecycleInv

LEMMA InitializeStep ==
  ASSUME LifecycleInv, NEW identity \in Identity, Initialize(identity)
  PROVE  LifecycleInv'
<1> DEFINE q == Prepared
<1>1. /\ TypeOK /\ Here \in Runtime /\ current \in 1 .. MaxRuntimes
      /\ Here.epoch => Here.consent
  BY HereMade DEF LifecycleInv, EpochOK, Here
<1>2. /\ q \in Runtime
      /\ q.epoch => Here.epoch
      /\ q.consent = Here.consent
      /\ Here.state \in {"idle", "shutdown", "disabled"} => q.state = "initializing"
      /\ Here.state \notin {"idle", "shutdown", "disabled"} => q = Here
  BY <1>1, PreparedFacts
<1>3. /\ PutPrepared(q) /\ ~ Live(Here) /\ ~ Initializing /\ Overlaps(ShuttingDown)
      /\ init' = [NoInit EXCEPT !.step = "config", !.on = current', !.identity = identity]
      /\ UNCHANGED <<closing, applied, loop, sdk>>
  BY DEF Initialize
<1> HIDE DEF q
<1>4. current' \in 1 .. MaxRuntimes
  BY <1>1, <1>3, NewRuntimeFacts DEF PutPrepared
<1>5. init' \in InitTask /\ init'.step = "config" /\ init'.on = current'
  BY <1>3, <1>4 DEF NoInit, InitTask
<1>6. overlapped' \in BOOLEAN /\ (~ overlapped' => ~ overlapped /\ ~ ShuttingDown)
  <2>1. overlapped' \in BOOLEAN
    BY <1>1, <1>3, TasksKept
  <2> QED
    BY <1>3, <2>1 DEF Overlaps
<1>7. ~ ShuttingDown => q.state = "initializing"
  <2>1. Here.state # "initializing" /\ (~ ShuttingDown => Here.state # "shuttingDown")
    BY <1>1, <1>3 DEF LifecycleInv, TransientOK, Here
  <2> QED
    BY <1>1, <1>2, <1>3, <2>1, States DEF Live, Runtime
<1> QED
  BY <1>1, <1>2, <1>3, <1>5, <1>6, <1>7, PreparesStep DEF Live

LEMMA InitializeInvalidStep == LifecycleInv /\ InitializeInvalid => LifecycleInv'
<1> SUFFICES ASSUME LifecycleInv, InitializeInvalid
             PROVE  LifecycleInv'
  OBVIOUS
<1> DEFINE p == Prepared
           q == DisableRuntime(p)
<1>1. /\ TypeOK /\ Here \in Runtime /\ current \in 1 .. MaxRuntimes
      /\ Here.epoch => Here.consent
  BY HereMade DEF LifecycleInv, EpochOK, Here
<1>2. /\ p \in Runtime
      /\ p.epoch => Here.epoch
      /\ p.consent = Here.consent
      /\ Here.state \in {"idle", "shutdown", "disabled"} => p.state = "initializing"
      /\ Here.state \notin {"idle", "shutdown", "disabled"} => p = Here
  BY <1>1, PreparedFacts
<1> HIDE DEF p
<1>3. /\ q \in Runtime
      /\ q.consent = p.consent /\ q.epoch = p.epoch
      /\ q.state \in {p.state, "disabled"}
      /\ q.state # "initializing"
      /\ Live(p) => Live(q)
  BY <1>2, DisableFacts
<1>4. /\ PutPrepared(q) /\ Overlaps(Initializing \/ ShuttingDown)
      /\ UNCHANGED <<init, closing, applied, loop, sdk>>
  BY DEF InitializeInvalid, p
<1> HIDE DEF q
<1>5. overlapped' \in BOOLEAN /\ (~ overlapped' => ~ overlapped /\ ~ ShuttingDown /\ ~ Initializing)
  <2>1. overlapped' \in BOOLEAN
    BY <1>1, <1>4, TasksKept
  <2> QED
    BY <1>4, <2>1 DEF Overlaps
<1>6. init' \in InitTask
  BY <1>1, <1>4, TasksKept
<1>7. Live(Here) => p = Here
  BY <1>2 DEF Live
<1> QED
  BY <1>1, <1>2, <1>3, <1>4, <1>5, <1>6, <1>7, PreparesStep

LEMMA ShutdownStep ==
  ASSUME LifecycleInv, NEW k \in Closer, Shutdown(k)
  PROVE  LifecycleInv'
<1> DEFINE p == [Here EXCEPT !.accepting = FALSE, !.epoch = FALSE]
           q == Transition(p, "shuttingDown")
<1>1. /\ TypeOK /\ Here \in Runtime /\ current \in 1 .. MaxRuntimes /\ runtimes[current] = Here
      /\ closing \in [Closer -> ClosingTask] /\ init \in InitTask
  BY HereMade DEF LifecycleInv, Here, TypeOK, ClosingTask, InitTask
<1>2. /\ closing[k].step = "none"
      /\ Here.state \notin {"idle", "shutdown"}
      /\ runtimes' = [runtimes EXCEPT ![current] = q]
      /\ init' = [init EXCEPT !.aborted = @ \/ Aborts]
      /\ loop' = FALSE
      /\ closing' = [closing EXCEPT ![k] = [step |-> "replay", on |-> current]]
      /\ Overlaps(Initializing \/ ShuttingDown)
      /\ UNCHANGED <<current, made, applied, sdk>>
  BY DEF Shutdown
<1>3. p \in Runtime /\ p.state = Here.state /\ p.consent = Here.consent /\ p.epoch = FALSE
  BY <1>1 DEF Runtime
<1> HIDE DEF p
<1>4. /\ q \in Runtime /\ q.consent = Here.consent /\ q.epoch = FALSE
      /\ q.state \in {Here.state, "shuttingDown"}
  BY <1>3, TransitionTypes, States
<1>5. /\ Here.state \in {"active", "degraded", "disabled"} => q.state = "shuttingDown"
      /\ Here.state = "shuttingDown" => q.state = "shuttingDown"
  BY <1>3, TransitionTable, States
<1> HIDE DEF q
<1>6. /\ runtimes' \in [1 .. MaxRuntimes -> Runtime]
      /\ runtimes'[current] = q
      /\ \A i \in 1 .. MaxRuntimes : i # current => runtimes'[i] = runtimes[i]
      /\ Here' = q
  BY <1>1, <1>2, <1>4, OneRuntime
<1>7. init' \in InitTask /\ init'.on = init.on /\ init'.step = init.step
  <2>1. (init.aborted \/ Aborts) \in BOOLEAN
    BY Zenon
  <2>2. \A b \in BOOLEAN : LET i == [init EXCEPT !.aborted = b]
                           IN i \in InitTask /\ i.on = init.on /\ i.step = init.step
    BY <1>1 DEF InitTask
  <2> QED
    BY <1>2, <2>1, <2>2
<1>8. /\ closing' \in [Closer -> ClosingTask]
      /\ closing'[k].step = "replay" /\ closing'[k].on = current
      /\ \A l \in Closer : l # k => closing'[l] = closing[l]
  BY <1>1, <1>2 DEF ClosingTask
<1>9. overlapped' \in BOOLEAN /\ (~ overlapped' => ~ overlapped /\ ~ ShuttingDown /\ ~ Initializing)
  <2>1. overlapped' \in BOOLEAN
    BY <1>1, <1>2, TasksKept
  <2> QED
    BY <1>2, <2>1 DEF Overlaps
<1>10. TypeOK'
  <2>1. loop' \in BOOLEAN
    BY <1>2
  <2> QED
    BY <1>1, <1>2, <1>6, <1>7, <1>8, <1>9, <2>1, TasksKept, TypesKept
<1>11. NamesOK' /\ ShuttingDown' /\ (Initializing' <=> Initializing)
  BY <1>2, <1>7, <1>8 DEF LifecycleInv, NamesOK, ShuttingDown, Initializing
<1>12. TransientOK'
  BY <1>1, <1>4, <1>6, <1>7, <1>11 DEF LifecycleInv, TransientOK
<1>13. EpochOK'
  BY <1>4, <1>6 DEF LifecycleInv, EpochOK
<1>14. ASSUME ~ overlapped'
       PROVE  AwaitedInv'
  <2>1. AwaitedInv /\ ~ overlapped /\ ~ ShuttingDown /\ ~ Initializing
    BY <1>9, <1>14 DEF LifecycleInv
  <2>2. q.state = "shuttingDown"
    <3>1. Here.state # "initializing"
      BY <1>1, <2>1 DEF LifecycleInv, TransientOK
    <3> QED
      BY <1>1, <1>2, <1>5, <3>1, States DEF Runtime
  <2>3. AloneOK'
    BY <1>2, <1>4, <1>6, <1>8, <1>11, <2>1, <2>2 DEF AloneOK, ShuttingDown
  <2>4. LoopAwaited'
    BY <1>2 DEF LoopAwaited
  <2>5. CallbacksOK'
    <3>1. sdk.correlation \in 1 .. MaxRuntimes
      BY <1>1, TasksTyped
    <3>2. sdk.identity # NoIdentity => ~ runtimes'[sdk.correlation].epoch
      BY <1>4, <1>6, <2>1, <3>1 DEF AwaitedInv, CallbacksOK
    <3> QED
      BY <1>2, <1>6, <2>2, <3>2 DEF CallbacksOK
  <2> QED
    BY <2>3, <2>4, <2>5 DEF AwaitedInv
<1> QED
  BY <1>10, <1>11, <1>12, <1>13, <1>14 DEF LifecycleInv

(***************************************************************************)
(* The life of the package.                                                *)
(***************************************************************************)
LEMMA RefuseConsentStep == LifecycleInv /\ RefuseConsent => LifecycleInv'
BY DEF RefuseConsent, vars, LifecycleInv, TypeOK, NamesOK, TransientOK, EpochOK, AwaitedInv, AloneOK,
       LoopAwaited, CallbacksOK, Initializing, ShuttingDown, Here

LEMMA LifecycleStart == Init => LifecycleInv
<1> SUFFICES ASSUME Init
             PROVE  LifecycleInv
  OBVIOUS
<1>1. /\ MaxRuntimes \in Nat \ {0} /\ 1 \in 1 .. MaxRuntimes
      /\ runtimes = [i \in 1 .. MaxRuntimes |-> NewRuntime("idle", FALSE)]
      /\ current = 1 /\ made = 1 /\ init = NoInit
      /\ closing = [k \in Closer |-> NotClosing]
      /\ sdk = [identity |-> NoIdentity, correlation |-> 1, consent |-> FALSE]
      /\ applied = FALSE /\ loop = FALSE /\ overlapped = FALSE
  BY RuntimesAssumption DEF Init
<1>2. LET r == NewRuntime("idle", FALSE)
      IN r \in Runtime /\ r.state = "idle" /\ r.epoch = FALSE
  BY States DEF NewRuntime, Runtime
<1>3. TypeOK
  <2>1. runtimes \in [1 .. MaxRuntimes -> Runtime] /\ current \in 1 .. made /\ made \in 1 .. MaxRuntimes
    <3> DEFINE r == NewRuntime("idle", FALSE)
    <3>1. r \in Runtime /\ runtimes = [i \in 1 .. MaxRuntimes |-> r]
      BY <1>1, <1>2
    <3> HIDE DEF r
    <3>2. runtimes \in [1 .. MaxRuntimes -> Runtime]
      BY <3>1
    <3>3. current \in 1 .. made /\ made \in 1 .. MaxRuntimes
      BY <1>1
    <3> QED
      BY <3>2, <3>3
  <2>2. NoInit \in InitTask /\ closing \in [Closer -> ClosingTask]
    BY <1>1 DEF NoInit, InitTask, NotClosing, ClosingTask
  <2>3. sdk \in Singleton
    BY <1>1 DEF Singleton
  <2>4. applied \in BOOLEAN /\ loop \in BOOLEAN /\ overlapped \in BOOLEAN
    BY <1>1, Zenon
  <2> QED
    BY <1>1, <2>1, <2>2, <2>3, <2>4, Zenon DEF TypeOK, InitTask, ClosingTask, Singleton
<1>4. Here = NewRuntime("idle", FALSE) /\ ~ Initializing /\ ~ ShuttingDown
  BY <1>1 DEF Here, Initializing, ShuttingDown, NoInit, NotClosing
<1>5. NamesOK
  <2>1. init.on = 1 /\ sdk.correlation = 1 /\ 1 \in 1 .. made
    BY <1>1 DEF NoInit
  <2> QED
    BY <2>1 DEF NamesOK
<1>6. \A i \in 1 .. MaxRuntimes : runtimes[i].state = "idle" /\ ~ runtimes[i].epoch
  BY <1>1, <1>2
<1>7. TransientOK /\ EpochOK
  BY <1>2, <1>4, <1>6 DEF TransientOK, EpochOK
<1>8. AwaitedInv
  BY <1>1, <1>4 DEF AwaitedInv, AloneOK, LoopAwaited, CallbacksOK, ShuttingDown
<1> QED
  BY <1>3, <1>5, <1>7, <1>8 DEF LifecycleInv

LEMMA LifecycleStep == LifecycleInv /\ [Next]_vars => LifecycleInv'
<1> SUFFICES ASSUME LifecycleInv, [Next]_vars
             PROVE  LifecycleInv'
  OBVIOUS
<1>1. CASE Next
  BY <1>1, InitializeInvalidStep, InitializeStep, InitFailsStep, FetchStep, AdapterStep,
     SetConsentStep, RefuseConsentStep, RecordFailsStep, ShutdownStep, CloseAdapterStep,
     ReplaceRuntimeStep DEF Next
<1>2. CASE UNCHANGED vars
  BY <1>2 DEF vars, LifecycleInv, TypeOK, NamesOK, TransientOK, EpochOK, AwaitedInv, AloneOK,
              LoopAwaited, CallbacksOK, Initializing, ShuttingDown, Here
<1> QED
  BY <1>1, <1>2

LEMMA Lives == Spec => []LifecycleInv
BY LifecycleStart, LifecycleStep, PTL DEF Spec

LEMMA DocumentFirstStep ==
  ASSUME TypeOK, DocumentFirst, [Next]_vars
  PROVE  DocumentFirst'
<1> USE DEF DocumentFirst
<1>1. applied \in BOOLEAN /\ loop \in BOOLEAN
  BY DEF TypeOK
<1>2. CASE InitializeInvalid \/ RecordFails \/ RefuseConsent \/ UNCHANGED vars
  <2>1. UNCHANGED <<init, applied, loop>>
    BY <1>2, Zenon DEF InitializeInvalid, RecordFails, RefuseConsent, vars
  <2> QED
    BY <2>1
<1>3. ASSUME NEW identity \in Identity, Initialize(identity)
      PROVE  DocumentFirst'
  <2>1. init'.step = "config" /\ UNCHANGED <<loop, applied>>
    BY <1>3 DEF Initialize, Overlaps, NoInit
  <2> QED
    BY <2>1
<1>4. CASE InitFails
  BY <1>1, <1>4 DEF InitFails, NoInit
<1>5. CASE ConfigLoaded
  BY <1>1, <1>5, TasksKept DEF ConfigLoaded, EnterAdapter, TypeOK
<1>6. CASE ControlFetched
  BY <1>6 DEF ControlFetched
<1>7. CASE AdapterReady \/ AdapterThrows
  BY <1>1, <1>7 DEF AdapterReady, AdapterThrows, NoInit
<1>8. ASSUME NEW consent \in BOOLEAN, SetConsent(consent)
      PROVE  DocumentFirst'
  <2>1. UNCHANGED <<loop, applied, init>>
    BY <1>8 DEF SetConsent
  <2> QED
    BY <2>1, Zenon
<1>9. ASSUME NEW k \in Closer, Shutdown(k)
      PROVE  DocumentFirst'
  <2>1. ~ loop' /\ UNCHANGED <<applied>> /\ init' = [init EXCEPT !.aborted = @ \/ Aborts]
    BY <1>9 DEF Shutdown, Overlaps
  <2>2. init'.step = init.step
    BY <2>1 DEF TypeOK
  <2> QED
    BY <2>1, <2>2
<1>10. ASSUME NEW k \in Closer, CloseAdapter(k) \/ ReplaceRuntime(k)
       PROVE  DocumentFirst'
  BY <1>10 DEF CloseAdapter, ReplaceRuntime
<1> QED
  BY <1>2, <1>3, <1>4, <1>5, <1>6, <1>7, <1>8, <1>9, <1>10 DEF Next

LEMMA DocumentIsFirst == Spec => []DocumentFirst
<1>1. Init => DocumentFirst
  <2>1. NoInit.step = "none"
    BY DEF NoInit
  <2> QED
    BY <2>1 DEF Init, DocumentFirst
<1>2. LifecycleInv /\ DocumentFirst /\ [Next]_vars
        => DocumentFirst'
  BY DocumentFirstStep DEF LifecycleInv
<1> QED
  BY <1>1, <1>2, Lives, PTL DEF Spec

(* The control loop runs only in a page to which a control document was    *)
(* applied, however calls overlap; and only for a package that lives, for  *)
(* a host that awaits its calls.                                           *)
THEOREM LoopLivesWithPackage == Spec => []LifecycleOK
<1>1. LifecycleInv /\ DocumentFirst => LifecycleOK
  BY DEF LifecycleInv, AwaitedInv, DocumentFirst, LifecycleOK, LoopOnlyWhileLive, LoopAwaited, TypeOK
<1> QED
  BY <1>1, Lives, DocumentIsFirst, PTL

(* Whatever the host does, once nothing is in progress the package is in   *)
(* a state from which it can go on.                                        *)
THEOREM NeverStuck == Spec => []NoLimbo
<1>1. LifecycleInv => NoLimbo
  BY HereMade DEF LifecycleInv, TransientOK, NoLimbo, Here
<1> QED
  BY <1>1, Lives, PTL

(* For a host that awaits its calls an event leaves the page only with the *)
(* visitor's consent and a live package, whichever adapter the SDK's       *)
(* callbacks belong to.                                                    *)
THEOREM ConsentDecides == Spec => []AwaitedEmitsOnlyWithConsent
<1>1. LifecycleInv => AwaitedEmitsOnlyWithConsent
  <2> SUFFICES ASSUME LifecycleInv, ~ overlapped, Emits
               PROVE  Here.consent /\ Live(Here)
    BY DEF AwaitedEmitsOnlyWithConsent
  <2>1. sdk.correlation = current /\ Live(Here) /\ runtimes[current].epoch
    BY DEF LifecycleInv, AwaitedInv, CallbacksOK, Emits
  <2>2. current \in 1 .. MaxRuntimes
    BY HereMade DEF LifecycleInv
  <2> QED
    BY <2>1, <2>2 DEF LifecycleInv, EpochOK, Here
<1> QED
  BY <1>1, Lives, PTL
=============================================================================
