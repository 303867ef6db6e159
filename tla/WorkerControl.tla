--------------------------- MODULE WorkerControl ---------------------------
(***************************************************************************)
(* How the delivery worker follows its control file:                       *)
(* resumeConsumers, holdConsumers, the polling loop and the shutdown of    *)
(* apps/telemetry-delivery-worker/src/runtime.js, with the decisions of    *)
(* control-state.js.                                                       *)
(*                                                                         *)
(* The polling timer starts an async function every two seconds and awaits *)
(* nothing: a run ("task") that is still waiting for RabbitMQ to answer a  *)
(* consume or a cancel overlaps with the next one.  The requests of all    *)
(* tasks share one channel, which sends them in order, one at a time.      *)
(***************************************************************************)
EXTENDS Naturals, Sequences, FiniteSets, SequencesExt

CONSTANTS
  Queues,        \* the main queues, in the order of RABBITMQ.queues
  Task,          \* names for concurrently running polls (bounds the overlap)
  ChangeBudget   \* changes of the control file explored

ASSUME QueuesAssumption ==
  Queues \in Seq(STRING) /\ Queues # <<>> /\ IsInjective(Queues)
ASSUME BudgetAssumption == ChangeBudget \in Nat

VARIABLES
  file,          \* what the control file says
  controlState,  \* its last evaluation (module variable controlState)
  consuming,     \* module variable consuming
  consumers,     \* the Map consumers: entries in insertion order
  shuttingDown,  \* module variable shuttingDown
  process,       \* "starting" or "running"
  tasks,         \* the running async functions
  channel,       \* requests sent and not yet answered, oldest first
  live,          \* the consumers RabbitMQ knows: it delivers to these
  nextTag,       \* consumer tags handed out so far
  changes,       \* changes of the control file so far
  everClear,     \* history: this process has read an explicit hold=false
  overlapped     \* history: a poll of this process began during another task

vars == <<file, controlState, consuming, consumers, shuttingDown, process,
          tasks, channel, live, nextTag, changes, everClear, overlapped>>

(* readControlState: a missing, unreadable or malformed document is        *)
(* "invalid".  Only "clear", a valid hold=false, allows consumption.       *)
File == {"clear", "hold", "invalid"}
IsConsumptionAllowed(state) == state = "clear"

(* isDeliveryReady, what /readyz answers.                                  *)
Ready == process = "running" /\ ~ shuttingDown /\ IsConsumptionAllowed(controlState)

(***************************************************************************)
(* A task is idle, or waits for the answer of one request: "resume" at the *)
(* n-th queue, or "hold" with the queues it has cancelled so far ("seen"). *)
(* A Map iterator visits the entries added behind it, and starts over      *)
(* after a clear.                                                          *)
(***************************************************************************)
Idle == [kind |-> "idle", at |-> 0, seen |-> {}]
Resuming(n) == [kind |-> "resume", at |-> n, seen |-> {}]
Holding(seen) == [kind |-> "hold", at |-> 0, seen |-> seen]

(* The shutdown handler is one more task.                                  *)
Main == "main"
Tasks == Task \cup {Main}

Busy(t) == tasks[t].kind # "idle"
Quiescent == \A t \in Tasks : ~ Busy(t)

Unvisited(seen) == {i \in DOMAIN consumers : consumers[i].queue \notin seen}

Request(t, tag, queue) == [task |-> t, tag |-> tag, queue |-> queue]

(* A plausible bug: consumption starts whatever the control state says.    *)
ResumeUnguarded(t, state) ==
  IF consuming \/ shuttingDown
  THEN UNCHANGED <<consuming, tasks, channel>>
  ELSE /\ consuming' = TRUE
       /\ tasks' = [tasks EXCEPT ![t] = Resuming(1)]
       /\ channel' = Append(channel, Request(t, 0, Queues[1]))

(* resumeConsumers, up to its first await.                                 *)
Resume(t, state) ==
  IF consuming \/ shuttingDown \/ ~ IsConsumptionAllowed(state)
  THEN UNCHANGED <<consuming, tasks, channel>>
  ELSE /\ consuming' = TRUE
       /\ tasks' = [tasks EXCEPT ![t] = Resuming(1)]
       /\ channel' = Append(channel, Request(t, 0, Queues[1]))

(* The last step of holdConsumers.                                         *)
Forget(t, requests) ==
  /\ consumers' = <<>>
  /\ consuming' = FALSE
  /\ tasks' = [u \in Tasks |->
                 IF u = t THEN Idle ELSE [tasks[u] EXCEPT !.seen = {}]]
  /\ channel' = requests

CancelNext(t, seen, requests, entry) ==
  /\ tasks' = [tasks EXCEPT ![t] = Holding(seen \cup {entry.queue})]
  /\ channel' = Append(requests, Request(t, entry.tag, entry.queue))
  /\ UNCHANGED <<consuming, consumers>>

(* One turn of holdConsumers' loop: cancel the next known consumer, or     *)
(* forget them all and finish.                                             *)
HoldNext(t, seen, requests) ==
  LET todo == Unvisited(seen)
  IN IF todo # {}
     THEN CancelNext(t, seen, requests, consumers[Min(todo)])
     ELSE Forget(t, requests)

(* A plausible bug: the consumers are forgotten, not cancelled.            *)
HoldForgets(t) ==
  IF consuming THEN Forget(t, channel)
  ELSE UNCHANGED <<consuming, consumers, tasks, channel>>

(* holdConsumers, up to its first await.                                   *)
Hold(t) ==
  IF consuming THEN HoldNext(t, {}, channel)
  ELSE UNCHANGED <<consuming, consumers, tasks, channel>>

(* startTelemetryDeliveryWorker: the file is read, then consumption starts *)
(* if it may.  The polling loop is already running.                        *)
Start ==
  /\ process = "starting"
  /\ process' = "running"
  /\ controlState' = file
  /\ everClear' = (everClear \/ file = "clear")
  /\ Resume(Main, file)
  /\ UNCHANGED <<file, consumers, shuttingDown, live, nextTag, changes, overlapped>>

(* A plausible bug: an invalid document leaves the worker as it is.        *)
PollIgnoresInvalid(t) ==
  /\ process = "running"
  /\ ~ shuttingDown
  /\ ~ Busy(t)
  /\ file # controlState
  /\ overlapped' = (overlapped \/ ~ Quiescent)
  /\ controlState' = file
  /\ everClear' = (everClear \/ file = "clear")
  /\ IF IsConsumptionAllowed(file)
     THEN Resume(t, file) /\ UNCHANGED consumers
     ELSE IF file = "hold" THEN Hold(t)
     ELSE UNCHANGED <<consuming, consumers, tasks, channel>>
  /\ UNCHANGED <<file, shuttingDown, process, live, nextTag, changes>>

(* One run of the polling timer: applyControlState acts only on a change.  *)
Poll(t) ==
  /\ process = "running"
  /\ ~ shuttingDown
  /\ ~ Busy(t)
  /\ file # controlState
  /\ overlapped' = (overlapped \/ ~ Quiescent)
  /\ controlState' = file
  /\ everClear' = (everClear \/ file = "clear")
  /\ IF IsConsumptionAllowed(file)
     THEN Resume(t, file) /\ UNCHANGED consumers
     ELSE Hold(t)
  /\ UNCHANGED <<file, shuttingDown, process, live, nextTag, changes>>

(* Map.set keeps the place of a known key; a plausible bug: a list, where  *)
(* it is added once more.                                                  *)
RememberTwice(entries, entry) == Append(entries, entry)

Remember(entries, entry) ==
  IF \E i \in DOMAIN entries : entries[i].queue = entry.queue
  THEN [i \in DOMAIN entries |->
          IF entries[i].queue = entry.queue THEN entry ELSE entries[i]]
  ELSE Append(entries, entry)

(* RabbitMQ registers a consumer and answers with its tag; the task goes   *)
(* on with the next queue.                                                 *)
ConsumeOk ==
  /\ channel # <<>>
  /\ LET request == Head(channel)
         t == request.task
         entry == [queue |-> request.queue, tag |-> nextTag + 1]
         n == tasks[t].at
     IN /\ tasks[t].kind = "resume"
        /\ live' = live \cup {entry}
        /\ nextTag' = nextTag + 1
        /\ consumers' = Remember(consumers, entry)
        /\ IF n < Len(Queues)
           THEN /\ tasks' = [tasks EXCEPT ![t] = Resuming(n + 1)]
                /\ channel' = Append(Tail(channel), Request(t, 0, Queues[n + 1]))
           ELSE /\ tasks' = [tasks EXCEPT ![t] = Idle]
                /\ channel' = Tail(channel)
  /\ UNCHANGED <<file, controlState, consuming, shuttingDown, process, changes, everClear, overlapped>>

(* RabbitMQ forgets a consumer (or does not know the tag any more) and     *)
(* answers; the task goes on with the next entry.                          *)
CancelOk ==
  /\ channel # <<>>
  /\ LET request == Head(channel)
         t == request.task
     IN /\ tasks[t].kind = "hold"
        /\ live' = {entry \in live : entry.tag # request.tag}
        /\ HoldNext(t, tasks[t].seen, Tail(channel))
  /\ UNCHANGED <<file, controlState, shuttingDown, process, nextTag, changes, everClear, overlapped>>

(* SIGTERM: from here on the polls do nothing; the consumers are cancelled *)
(* while earlier tasks go on.                                              *)
Shutdown ==
  /\ process = "running"
  /\ ~ shuttingDown
  /\ ~ Busy(Main)
  /\ shuttingDown' = TRUE
  /\ Hold(Main)
  /\ UNCHANGED <<file, controlState, process, live, nextTag, changes, everClear, overlapped>>

(* The shutdown handler is done, its timer fires, or the process fails at  *)
(* any time (exitOnAmqpFailure): RabbitMQ drops its consumers, and    *)
(* Docker, or the operator, starts a process that knows nothing of it.     *)
Exit ==
  /\ process = "running"
  /\ process' = "starting"
  /\ controlState' = "invalid"
  /\ consuming' = FALSE
  /\ consumers' = <<>>
  /\ shuttingDown' = FALSE
  /\ tasks' = [t \in Tasks |-> Idle]
  /\ channel' = <<>>
  /\ live' = {}
  /\ nextTag' = 0
  /\ everClear' = FALSE
  /\ overlapped' = FALSE
  /\ UNCHANGED <<file, changes>>

(* The operator or the control plane replaces the file.                    *)
FileChanges ==
  /\ changes < ChangeBudget
  /\ changes' = changes + 1
  /\ file' \in File \ {file}
  /\ UNCHANGED <<controlState, consuming, consumers, shuttingDown, process,
                 tasks, channel, live, nextTag, everClear, overlapped>>

Init ==
  /\ file \in File
  /\ controlState = "invalid"
  /\ consuming = FALSE
  /\ consumers = <<>>
  /\ shuttingDown = FALSE
  /\ process = "starting"
  /\ tasks = [t \in Tasks |-> Idle]
  /\ channel = <<>>
  /\ live = {}
  /\ nextTag = 0
  /\ changes = 0
  /\ everClear = FALSE
  /\ overlapped = FALSE

Next ==
  \/ Start
  \/ \E t \in Task : Poll(t)
  \/ ConsumeOk
  \/ CancelOk
  \/ Shutdown
  \/ Exit
  \/ FileChanges

Spec == Init /\ [][Next]_vars

(* The timer keeps firing and RabbitMQ answers every request.              *)
ControlFairness ==
  /\ WF_vars(Start)
  /\ WF_vars(\E t \in Task : Poll(t))
  /\ WF_vars(ConsumeOk)
  /\ WF_vars(CancelOk)

FairSpec == Spec /\ ControlFairness

(***************************************************************************)
(* Properties.                                                             *)
(***************************************************************************)
QueueNames == {Queues[i] : i \in DOMAIN Queues}
Entry == [queue : QueueNames, tag : Nat]
TaskState == [kind : {"idle", "resume", "hold"}, at : 0 .. Len(Queues),
              seen : SUBSET QueueNames]

TypeOK ==
  /\ file \in File
  /\ controlState \in File
  /\ consuming \in BOOLEAN
  /\ consumers \in Seq(Entry)
  /\ \A i, j \in DOMAIN consumers : consumers[i].queue = consumers[j].queue => i = j
  /\ shuttingDown \in BOOLEAN
  /\ process \in {"starting", "running"}
  /\ tasks \in [Tasks -> TaskState]
  /\ channel \in Seq([task : Tasks, tag : Nat, queue : QueueNames])
  /\ live \subseteq Entry
  /\ nextTag \in Nat
  /\ changes \in 0 .. ChangeBudget
  /\ everClear \in BOOLEAN
  /\ overlapped \in BOOLEAN

(* Consumption never begins on a missing, invalid or unevaluated control   *)
(* state, however the tasks overlap: a consumer exists only after some     *)
(* poll has read an explicit hold=false.                                   *)
NeverConsumesUnevaluated == live # {} => everClear

(* Once the worker has acted on an invalid or holding document and waits   *)
(* for nothing, RabbitMQ delivers nothing to it.                           *)
HeldMeansNotConsuming ==
  process = "running" /\ Quiescent /\ ~ IsConsumptionAllowed(controlState) => live = {}

(* A worker that reports itself ready and waits for nothing consumes from  *)
(* every queue.                                                            *)
ReadyMeansConsuming ==
  Ready /\ Quiescent => \A q \in QueueNames : \E entry \in live : entry.queue = q

(* While RabbitMQ answers within a polling period, so that no poll began   *)
(* during another task, control state and consumption agree; shutdowns and *)
(* failures at any point change nothing about it.                          *)
PromptControlHolds ==
  ~ overlapped => HeldMeansNotConsuming /\ ReadyMeansConsuming

(* Nor has any queue two consumers of the worker then: the prefetch bounds *)
(* what is in the handlers' hands.                                         *)
SingleConsumer ==
  ~ overlapped => \A e1, e2 \in live : e1.queue = e2.queue => e1 = e2

(* A document that stays takes effect in a process that stays: a hold ends *)
(* consumption for good, a clear starts it on every queue.                 *)
ControlTakesEffect ==
  LET stays(word) == file = word /\ process = "running" /\ ~ shuttingDown /\ ~ overlapped
  IN /\ <>[](stays("hold") \/ stays("invalid")) => <>[](live = {})
     /\ <>[]stays("clear")
          => <>[](\A q \in QueueNames : \E entry \in live : entry.queue = q)

(***************************************************************************)
(* The inductive invariant.                                                *)
(***************************************************************************)

(* A process that is starting knows nothing and waits for nothing.         *)
FreshStart ==
  process = "starting" =>
    /\ Quiescent /\ channel = <<>> /\ consumers = <<>> /\ live = {}
    /\ ~ consuming /\ ~ shuttingDown /\ ~ overlapped
    /\ controlState = "invalid"

(* Every request on the channel is the one its task waits for.             *)
RequestsOK ==
  /\ \A i \in DOMAIN channel :
       LET task == tasks[channel[i].task]
       IN /\ task.kind # "idle"
          /\ task.kind = "resume" => channel[i].queue = Queues[task.at]
  /\ \A i, j \in DOMAIN channel : channel[i].task = channel[j].task => i = j
  /\ \A t \in Tasks : tasks[t].kind = "resume" => tasks[t].at \in 1 .. Len(Queues)

(* Consumption is only ever asked for on an explicit hold=false.           *)
Granted ==
  live # {} \/ (\E t \in Tasks : tasks[t].kind = "resume") => everClear

(* While no polls overlap.  One task registers consumers, queue by queue,  *)
(* and only on a clear document, as long as no shutdown has begun it is    *)
(* the only one.                                                           *)
ResumeOK ==
  /\ \A t \in Tasks : tasks[t].kind = "resume" =>
       /\ controlState = "clear"
       /\ \A e \in live : \E i \in 1 .. tasks[t].at - 1 : e.queue = Queues[i]
       /\ ~ shuttingDown =>
            \A i \in 1 .. tasks[t].at - 1 : \E e \in live : e.queue = Queues[i]
       /\ \A u \in Tasks : tasks[u].kind = "resume" => t = u
  /\ ~ shuttingDown => \A t, u \in Tasks : Busy(t) /\ Busy(u) => t = u

(* Unless it is a shutdown that cancels them, consumers are remembered;    *)
(* what a hold has visited is cancelled, but for what it waits for.        *)
HoldOK ==
  /\ ~ shuttingDown \/ controlState # "clear" =>
       /\ \A e \in live : \E i \in DOMAIN consumers : consumers[i] = e
       /\ live # {} => consuming
  /\ controlState # "clear" =>
       /\ consuming => \E t \in Tasks : tasks[t].kind = "hold"
       /\ \A i \in DOMAIN channel : tasks[channel[i].task].kind = "hold" =>
            \A e \in live : e.queue \in tasks[channel[i].task].seen => e.tag = channel[i].tag
  /\ ~ shuttingDown /\ controlState = "clear" =>
       /\ consuming
       /\ \A t \in Tasks : tasks[t].kind # "hold"

LoopInv == TypeOK /\ FreshStart /\ RequestsOK /\ Granted

PromptInv == ResumeOK /\ HoldOK /\ SingleConsumer /\ ReadyMeansConsuming

ControlInv == LoopInv /\ (~ overlapped => PromptInv)
=============================================================================
