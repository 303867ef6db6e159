----------------------------- MODULE LabScripts -----------------------------
(***************************************************************************)
(* The lab and the scripts that verify it.  A script is a sequence of      *)
(* steps; each step is what one call of it does to the lab or reads from   *)
(* it.  A step may add a finding and go on, or throw: a throw runs the     *)
(* cleanup blocks around it, innermost first, up to the block that catches *)
(* it or the end of the command.                                           *)
(***************************************************************************)
EXTENDS Integers, Sequences, FiniteSets

CONSTANT FaultBudget   \* calls that fail and waits that run out, in a behaviour
ASSUME FaultAssumption == FaultBudget \in Nat

VARIABLES
  services,   \* how far each container is
  control,    \* the hold and the worker's view of it, the control document and the
              \* kill of the page's own scope, the gate's file and the proxy's
              \* view of it, the alert a check made
  queue,      \* the queue each batch is in
  indexed,    \* the batches OpenObserve has
  page,       \* the browser page a check looks at
  todo,       \* the steps left of the block being run
  frames,     \* the blocks around it
  found,      \* the command has a finding
  faults,     \* faults left
  disturbed   \* something outside the script came between

labVars == <<services, control, queue, indexed, page, todo, frames, found, faults, disturbed>>

Service == {"openobserve", "rabbitmq", "ingest", "worker", "http"}
Batch == {"left", "first", "second"}
Place == {"none", "main", "taken", "retry"}
Document == {"open", "older", "kill", "invalid"}

Open == [hold |-> FALSE, held |-> FALSE, document |-> "open",
         scoped |-> FALSE, gate |-> FALSE, closed |-> FALSE, alert |-> FALSE]

(***************************************************************************)
(* Steps.                                                                  *)
(***************************************************************************)
Stop(s) == [do |-> "stop", services |-> {s}]
Start(S) == [do |-> "start", services |-> S]
Recreate(S) == [do |-> "recreate", services |-> S]
Await(S, otherwise) == [do |-> "await", services |-> S, otherwise |-> otherwise]
Publish(b, statuses) ==
  [do |-> "publish", batch |-> b, statuses |-> statuses, origin |-> "primary"]
PublishElsewhere(b, statuses) == [Publish(b, statuses) EXCEPT !.origin = "alternate"]
Depth(is, otherwise) == [do |-> "depth", is |-> is, otherwise |-> otherwise, blind |-> FALSE]
BlindDepth(is) == [Depth(is, "found") EXCEPT !.blind = TRUE]
Look(is) == [do |-> "look", is |-> is]
Count(b) == [do |-> "count", batch |-> b]
AwaitAny(batches, otherwise) == [do |-> "index", batches |-> batches, otherwise |-> otherwise]
Ask == [do |-> "ask"]
Rotate(s) == [do |-> "rotate", services |-> {s}]
Harness(b) == [do |-> "harness", batch |-> b]
Purge(place) == [do |-> "purge", place |-> place]
Set(field, value) == [do |-> field, value |-> value]
Settle == [do |-> "settle"]
Derive == [do |-> "derive"]
Reload == [do |-> "reload"]
Outlive == [do |-> "outlive"]
Browse == [do |-> "browse"]
See(states) == [do |-> "see", states |-> states]
Probe(what) == [do |-> "probe", what |-> what]
Wipe == [do |-> "wipe"]
Throw == [do |-> "throw"]
Protect(body, cleanup) ==
  [do |-> "enter", body |-> body, always |-> TRUE, cleanup |-> cleanup, caught |-> FALSE]
Rescue(body, cleanup) == [Protect(body, cleanup) EXCEPT !.always = FALSE]
Caught(body) == [Protect(body, <<>>) EXCEPT !.caught = TRUE]

(***************************************************************************)
(* How a step ends.                                                        *)
(***************************************************************************)
Continues == todo' = Tail(todo) /\ UNCHANGED <<frames, found>>
Finds == todo' = Tail(todo) /\ found' = TRUE /\ UNCHANGED frames

Throws ==
  IF frames = <<>>
  THEN todo' = <<>> /\ found' = TRUE /\ UNCHANGED frames
  ELSE LET frame == Head(frames) IN
       /\ frames' = Tail(frames)
       /\ IF frame.caught
          THEN todo' = frame.rest /\ found' = TRUE
          ELSE todo' = frame.cleanup \o <<Throw>> /\ UNCHANGED found

Ends(otherwise) ==
  \/ otherwise = "ignored" /\ Continues
  \/ otherwise = "found" /\ Finds
  \/ otherwise = "thrown" /\ Throws

(***************************************************************************)
(* The lab by itself.                                                      *)
(***************************************************************************)
Up(s) == services[s] = "up"
InQueue == {b \in Batch : queue[b] \in {"main", "taken"}}
Queued == {b \in Batch : queue[b] # "none"}
Consuming == Up("worker") /\ Up("rabbitmq")

CanRise(s) == services[s] = "starting" /\ (s \in {"ingest", "worker"} => Up("rabbitmq"))

Rise(s) ==
  /\ CanRise(s)
  /\ services' = [services EXCEPT ![s] = "up"]
  /\ control' = IF s = "worker" THEN [control EXCEPT !.held = control.hold] ELSE control
  /\ UNCHANGED <<queue, indexed, page>>

CanNotice == Up("worker") /\ control.held # control.hold

Notice ==
  /\ CanNotice
  /\ control' = [control EXCEPT !.held = control.hold]
  /\ UNCHANGED <<services, queue, indexed, page>>

CanTake(b) == Consuming /\ ~control.held /\ queue[b] = "main"

Take(b) ==
  /\ CanTake(b)
  /\ queue' = [queue EXCEPT ![b] = "taken"]
  /\ UNCHANGED <<services, control, indexed, page>>

CanDeliver(b) == Consuming /\ queue[b] = "taken"

Deliver(b) ==
  /\ CanDeliver(b)
  /\ IF Up("openobserve")
     THEN queue' = [queue EXCEPT ![b] = "none"] /\ indexed' = indexed \cup {b}
     ELSE queue' = [queue EXCEPT ![b] = "retry"] /\ UNCHANGED indexed
  /\ UNCHANGED <<services, control, page>>

CanExpire(b) == Up("rabbitmq") /\ queue[b] = "retry"

Expire(b) ==
  /\ CanExpire(b)
  /\ queue' = [queue EXCEPT ![b] = "main"]
  /\ UNCHANGED <<services, control, indexed, page>>

(* The document an origin is served.                                       *)
Served(origin) ==
  IF control.scoped /\ origin = "primary" /\ control.document # "invalid"
  THEN "kill" ELSE control.document

CanPoll == page = "active" /\ Served("primary") \in {"kill", "older"}

Poll ==
  /\ CanPoll
  /\ page' = IF Served("primary") = "kill" THEN "latched" ELSE "rejected"
  /\ UNCHANGED <<services, control, queue, indexed>>

Still ==
  /\ \A s \in Service : ~CanRise(s)
  /\ \A b \in Batch : ~CanTake(b) /\ ~CanDeliver(b) /\ ~CanExpire(b)
  /\ ~CanNotice /\ ~CanPoll

(***************************************************************************)
(* The steps of a script.                                                  *)
(***************************************************************************)
Step == Head(todo)
Doing(kind) == todo # <<>> /\ Step.do = kind

(* A message whose delay runs out while the queues are purged one by one   *)
(* escapes to a queue that was purged before.                              *)
LabMoves ==
  /\ \/ \E s \in Service : Rise(s)
     \/ Notice
     \/ \E b \in Batch : Take(b) \/ Deliver(b) \/ Expire(b)
     \/ Poll
  /\ disturbed' =
       (disturbed \/ (Doing("purge") /\ \E b \in Batch : queue[b] = "retry" /\ queue'[b] = "main"))
  /\ UNCHANGED <<todo, frames, found, faults>>

Untaken == [b \in Batch |-> IF queue[b] = "taken" THEN "main" ELSE queue[b]]

StopContainer ==
  /\ Doing("stop")
  /\ services' = [s \in Service |->
       IF s \in Step.services THEN "down"
       ELSE IF "rabbitmq" \in Step.services /\ s \in {"ingest", "worker"} /\ Up(s) THEN "starting"
       ELSE services[s]]
  /\ queue' = IF Step.services \cap {"rabbitmq", "worker"} # {} THEN Untaken ELSE queue
  /\ UNCHANGED <<control, indexed, page, disturbed>> /\ Continues

StartContainers ==
  /\ Doing("start")
  /\ services' = [s \in Service |->
       IF s \in Step.services /\ services[s] = "down" THEN "starting" ELSE services[s]]
  /\ UNCHANGED <<control, queue, indexed, page, disturbed>> /\ Continues

Recreated ==
  /\ services' = [s \in Service |-> IF s \in Step.services THEN "starting" ELSE services[s]]
  /\ queue' = IF "worker" \in Step.services THEN Untaken ELSE queue

RecreateContainers ==
  /\ Doing("recreate") /\ Recreated
  /\ UNCHANGED <<control, indexed, page, disturbed>> /\ Continues

(* Without a broker there is no password to change, and no container is    *)
(* recreated for it.                                                       *)
RotateCredential ==
  /\ Doing("rotate")
  /\ IF Up("rabbitmq") THEN Recreated /\ Continues ELSE UNCHANGED <<services, queue>> /\ Finds
  /\ UNCHANGED <<control, indexed, page, disturbed>>

(* lab:purge, lab:init and the start of lab:up: no volume, nothing held or *)
(* switched off, every container new.                                      *)
WipeLab ==
  /\ Doing("wipe")
  /\ services' = [s \in Service |-> "starting"]
  /\ control' = Open
  /\ queue' = [b \in Batch |-> "none"]
  /\ indexed' = {} /\ page' = "none"
  /\ UNCHANGED disturbed /\ Continues

SetControl ==
  /\ \E field \in {"hold", "document", "scoped", "gate", "alert"} :
       /\ Doing(field)
       /\ control' = [control EXCEPT ![field] = Step.value]
  /\ UNCHANGED <<services, queue, indexed, page, disturbed>> /\ Continues

(* The operator's command holds the delivery while any scope is killed.    *)
DeriveHold ==
  /\ Doing("derive")
  /\ control' = [control EXCEPT !.hold = control.scoped \/ control.document \in {"kill", "invalid"}]
  /\ UNCHANGED <<services, queue, indexed, page, disturbed>> /\ Continues

ReloadProxy ==
  /\ Doing("reload")
  /\ control' = [control EXCEPT !.closed = control.gate]
  /\ UNCHANGED <<services, queue, indexed, page, disturbed>> /\ Continues

(* The document's short life passes while the page has it.                 *)
OutliveDocument ==
  /\ Doing("outlive")
  /\ control' = [control EXCEPT !.document = "invalid"]
  /\ page' = IF page = "active" THEN "blocked" ELSE page
  /\ UNCHANGED <<services, queue, indexed, disturbed>> /\ Continues

(* Ingest does not listen before it has the broker, and ends without it.   *)
Ingests(origin) == Up("rabbitmq") /\ Up("ingest") /\ Served(origin) \notin {"kill", "invalid"}

(* What ingest answers but a 202, and that it does not answer, is a 503 of *)
(* the proxy's: error_page 500, 502, 503 and 504.                          *)
Status(origin) ==
  IF control.closed THEN "410" ELSE IF Ingests(origin) THEN "202" ELSE "503"

(* An older batch of this name that is still queued stays as what is left. *)
PublishBatch ==
  /\ Doing("publish")
  /\ LET batch == Step.batch IN
     IF Status(Step.origin) = "202"
     THEN /\ queue' = [queue EXCEPT !["left"] = IF queue[batch] = "none" THEN @ ELSE queue[batch], ![batch] = "main"]
          /\ indexed' = indexed \ {batch}
     ELSE UNCHANGED <<queue, indexed>>
  /\ IF Status(Step.origin) \in Step.statuses THEN Continues ELSE Finds
  /\ UNCHANGED <<services, control, page, disturbed>>

(* rabbitmqctl purges the messages that are ready in one queue, not those  *)
(* the worker has; its failure is recorded, not acted upon.                *)
PurgeQueue ==
  /\ Doing("purge")
  /\ queue' = [b \in Batch |->
       IF Up("rabbitmq") /\ queue[b] = Step.place THEN "none" ELSE queue[b]]
  /\ disturbed' = (disturbed \/ \E b \in Batch : queue[b] = "taken")
  /\ UNCHANGED <<services, control, indexed, page>> /\ Continues

DepthIs(is) ==
  CASE is = "one" -> Cardinality(InQueue) = 1
    [] is = "some" -> InQueue # {}
    [] is = "none" -> InQueue = {}
    [] is = "drained" -> Queued = {}
    [] is = "queued" -> Queued # {}
    [] is = "any" -> TRUE

(* What a wait is for is there, or it runs out: because nothing more can   *)
(* happen or, with an OpenObserve that an earlier failure left stopped,    *)
(* batches only go round; or sooner than what is under way.                *)
Waits(condition, otherwise) ==
  \/ condition /\ Continues /\ UNCHANGED <<faults, disturbed>>
  \/ ~condition /\ Still /\ Ends(otherwise) /\ UNCHANGED <<faults, disturbed>>
  \/ /\ ~condition /\ ~Still /\ disturbed /\ services["openobserve"] = "down"
     /\ Ends(otherwise) /\ UNCHANGED <<faults, disturbed>>
  \/ /\ ~condition /\ ~Still /\ faults > 0
     /\ faults' = faults - 1 /\ disturbed' = TRUE /\ Ends(otherwise)

AwaitContainers ==
  /\ Doing("await")
  /\ Waits(\A s \in Step.services : Up(s), Step.otherwise)
  /\ UNCHANGED <<services, control, queue, indexed, page>>

(* Without a broker some scripts throw, and one takes what it cannot read  *)
(* for an empty queue.                                                     *)
WaitForDepth ==
  /\ Doing("depth")
  /\ IF Up("rabbitmq") \/ Step.blind
     THEN Waits(IF Up("rabbitmq") THEN DepthIs(Step.is) ELSE Step.is = "none", Step.otherwise)
     ELSE Throws /\ UNCHANGED <<faults, disturbed>>
  /\ UNCHANGED <<services, control, queue, indexed, page>>

WaitForRows ==
  /\ Doing("index")
  /\ Waits(Up("openobserve") /\ Step.batches \cap indexed # {}, Step.otherwise)
  /\ UNCHANGED <<services, control, queue, indexed, page>>

LookAtDepth ==
  /\ Doing("look")
  /\ IF ~Up("rabbitmq") THEN Throws ELSE IF DepthIs(Step.is) THEN Continues ELSE Finds
  /\ UNCHANGED <<services, control, queue, indexed, page, disturbed>>

(* The three seconds a hold is given to reach the worker.                  *)
SettleHold ==
  /\ Doing("settle")
  /\ Waits(~CanNotice, "ignored")
  /\ UNCHANGED <<services, control, queue, indexed, page>>

SeePage ==
  /\ Doing("see")
  /\ Waits(page \in Step.states, "found")
  /\ UNCHANGED <<services, control, queue, indexed, page>>

BrowsePage ==
  /\ Doing("browse")
  /\ page' = CASE Served("primary") = "kill" -> "latched"
                [] Served("primary") = "invalid" -> "blocked"
                [] OTHER -> "active"
  /\ UNCHANGED <<services, control, queue, indexed, disturbed>> /\ Continues

CountBatch ==
  /\ Doing("count")
  /\ IF Up("openobserve") /\ Step.batch \in indexed THEN Continues ELSE Finds
  /\ UNCHANGED <<services, control, queue, indexed, page, disturbed>>

(* A call to OpenObserve's API whose failure is not caught.                *)
AskOpenObserve ==
  /\ Doing("ask")
  /\ IF Up("openobserve") THEN Continues ELSE Throws
  /\ UNCHANGED <<services, control, queue, indexed, page, disturbed>>

(* The harness delivers the batch and dies before it acknowledges it.      *)
RunHarness ==
  /\ Doing("harness")
  /\ LET batch == Step.batch IN
     IF Up("rabbitmq") /\ Up("openobserve") /\ ~control.hold /\ queue[batch] = "main"
     THEN indexed' = indexed \cup {batch} /\ Continues
     ELSE UNCHANGED indexed /\ Finds
  /\ UNCHANGED <<services, control, queue, page, disturbed>>

(* A look at one thing; most of them do not depend on what is modelled.    *)
AsItShould(what) ==
  CASE what \in Service -> Up(what)
    [] what = "gate" -> ~control.gate
    [] what = "hold" -> control.hold
    [] what = "scopes" -> Served("primary") = "kill" /\ Served("alternate") # "kill"
    [] what = "alert" -> control.alert
    [] OTHER -> TRUE

ProbeLab ==
  /\ Doing("probe")
  /\ IF AsItShould(Step.what) THEN Continues ELSE Finds
  /\ UNCHANGED <<services, control, queue, indexed, page, disturbed>>

EnterBlock ==
  /\ Doing("enter")
  /\ todo' = Step.body
  /\ frames' = <<[rest |-> Tail(todo), always |-> Step.always,
                   cleanup |-> Step.cleanup, caught |-> Step.caught]>> \o frames
  /\ UNCHANGED <<services, control, queue, indexed, page, found, disturbed>>

LeaveBlock ==
  /\ todo = <<>> /\ frames # <<>>
  /\ todo' = (IF Head(frames).always THEN Head(frames).cleanup ELSE <<>>) \o Head(frames).rest
  /\ frames' = Tail(frames)
  /\ UNCHANGED <<services, control, queue, indexed, page, found, disturbed>>

ThrowOn ==
  /\ Doing("throw")
  /\ Throws
  /\ UNCHANGED <<services, control, queue, indexed, page, disturbed>>

(* A call fails: docker, the proxy's reload, the browser.                  *)
CallFails ==
  /\ faults > 0
  /\ \E kind \in {"stop", "start", "recreate", "wipe", "reload", "publish", "look", "browse", "probe", "ask",
                  "derive"} :
       Doing(kind)
  /\ faults' = faults - 1 /\ disturbed' = TRUE
  /\ Throws
  /\ UNCHANGED <<services, control, queue, indexed, page>>

ScriptStep ==
  \/ /\ \/ StopContainer \/ StartContainers \/ RecreateContainers \/ RotateCredential \/ WipeLab
        \/ SetControl \/ DeriveHold \/ ReloadProxy \/ PublishBatch \/ PurgeQueue \/ LookAtDepth
        \/ BrowsePage \/ OutliveDocument
        \/ CountBatch \/ AskOpenObserve \/ RunHarness \/ ProbeLab
        \/ EnterBlock \/ LeaveBlock \/ ThrowOn
     /\ UNCHANGED faults
  \/ AwaitContainers \/ WaitForDepth \/ WaitForRows \/ SettleHold \/ SeePage
  \/ CallFails
=============================================================================
