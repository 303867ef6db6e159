------------------------ MODULE WorkerRuntimeProofs ------------------------
(***************************************************************************)
(* For every list of queues, however many polls can overlap and however    *)
(* often the control file changes: the delivery worker consumes only after *)
(* an explicit hold=false, and while RabbitMQ answers within a polling     *)
(* period it consumes exactly when its control state says so.              *)
(***************************************************************************)
EXTENDS WorkerRuntime, WellFoundedInduction, TLAPS

RequestRecord == [task : Tasks, tag : Nat, queue : QueueNames]

LEMMA QueueFacts ==
  /\ Len(Queues) \in Nat \ {0} /\ DOMAIN Queues = 1 .. Len(Queues)
  /\ \A i \in 1 .. Len(Queues) : Queues[i] \in QueueNames
  /\ \A i, j \in 1 .. Len(Queues) : Queues[i] = Queues[j] => i = j
  /\ \A q \in QueueNames : \E i \in 1 .. Len(Queues) : q = Queues[i]
BY QueuesAssumption DEF QueueNames, IsInjective

(***************************************************************************)
(* A turn of holdConsumers.                                                *)
(***************************************************************************)
LEMMA LeastIndex ==
  ASSUME NEW S \in SUBSET Nat, S # {}
  PROVE  Min(S) \in S
<1>1. \E x \in S : \A y \in S : x <= y
  <2> DEFINE R == OpToRel(<, Nat)
  <2>1. IsWellFoundedOn(R, Nat)
    BY NatLessThanWellFounded
  <2>2. PICK x \in S : \A y \in S : <<y, x>> \notin R
    <3> HIDE DEF R
    <3> QED
      BY <2>1, WFMin
  <2>3. \A y \in S : ~ (y < x)
    BY <2>2 DEF OpToRel
  <2> QED
    BY <2>3
<1> QED
  BY <1>1 DEF Min

(* It cancels some known consumer it has not visited, or there is none.    *)
LEMMA HoldNextCases ==
  ASSUME TypeOK, NEW t \in Tasks, NEW seen, NEW requests, HoldNext(t, seen, requests)
  PROVE  \/ \E i \in DOMAIN consumers : /\ consumers[i].queue \notin seen
                                        /\ CancelNext(t, seen, requests, consumers[i])
         \/ /\ \A i \in DOMAIN consumers : consumers[i].queue \in seen
            /\ Forget(t, requests)
<1>1. CASE Unvisited(seen) # {}
  <2>1. Unvisited(seen) \in SUBSET Nat
    BY DEF Unvisited, TypeOK
  <2>2. Min(Unvisited(seen)) \in Unvisited(seen)
    BY <1>1, <2>1, LeastIndex
  <2> QED
    BY <1>1, <2>2 DEF HoldNext, Unvisited
<1>2. CASE Unvisited(seen) = {}
  BY <1>2 DEF HoldNext, Unvisited
<1> QED
  BY <1>1, <1>2

(* What the Map of consumers holds after one more is set.                  *)
LEMMA Remembered ==
  ASSUME NEW entries \in Seq(Entry), NEW entry \in Entry,
         \A i, j \in DOMAIN entries : entries[i].queue = entries[j].queue => i = j
  PROVE  LET after == Remember(entries, entry)
         IN /\ after \in Seq(Entry)
            /\ \A i, j \in DOMAIN after : after[i].queue = after[j].queue => i = j
            /\ \E i \in DOMAIN after : after[i] = entry
            /\ \A i \in DOMAIN entries : entries[i].queue # entry.queue =>
                 \E j \in DOMAIN after : after[j] = entries[i]
<1> DEFINE after == Remember(entries, entry)
<1>1. CASE \E i \in DOMAIN entries : entries[i].queue = entry.queue
  <2>1. after = [i \in DOMAIN entries |->
                   IF entries[i].queue = entry.queue THEN entry ELSE entries[i]]
    BY <1>1 DEF Remember
  <2>2. /\ DOMAIN after = DOMAIN entries
        /\ \A i \in DOMAIN entries :
             after[i] = IF entries[i].queue = entry.queue THEN entry ELSE entries[i]
    BY <2>1
  <2>3. after \in Seq(Entry)
    BY <2>1
  <2>4. \A i \in DOMAIN entries : after[i].queue = entries[i].queue
    BY <2>2
  <2>5. PICK k \in DOMAIN entries : entries[k].queue = entry.queue
    BY <1>1
  <2> HIDE DEF after
  <2>0. \E i \in DOMAIN after : after[i] = entry
    BY <2>2, <2>5
  <2>7. \A i \in DOMAIN entries : entries[i].queue # entry.queue =>
          \E j \in DOMAIN after : after[j] = entries[i]
    BY <2>2
  <2>8. \A i, j \in DOMAIN after : after[i].queue = after[j].queue => i = j
    BY <2>2, <2>4
  <2> QED
    BY <2>3, <2>0, <2>7, <2>8 DEF after
<1>2. CASE ~ \E i \in DOMAIN entries : entries[i].queue = entry.queue
  <2>1. after = Append(entries, entry)
    BY <1>2 DEF Remember
  <2>2. /\ after \in Seq(Entry) /\ Len(after) = Len(entries) + 1
        /\ DOMAIN after = 1 .. Len(entries) + 1 /\ DOMAIN entries = 1 .. Len(entries)
        /\ \A i \in 1 .. Len(entries) : after[i] = entries[i]
        /\ after[Len(entries) + 1] = entry /\ Len(entries) \in Nat
    BY <2>1
  <2> HIDE DEF after
  <2>3. \A i, j \in DOMAIN after : after[i].queue = after[j].queue => i = j
    BY <1>2, <2>2
  <2> QED
    BY <2>2, <2>3 DEF after
<1> QED
  BY <1>1, <1>2

(***************************************************************************)
(* Types.                                                                  *)
(***************************************************************************)

(* The variables the asynchronous functions share.                         *)
SharedOK ==
  /\ consuming \in BOOLEAN
  /\ consumers \in Seq(Entry)
  /\ \A i, j \in DOMAIN consumers : consumers[i].queue = consumers[j].queue => i = j
  /\ tasks \in [Tasks -> TaskState]
  /\ channel \in Seq(RequestRecord)

LEMMA TypeParts ==
  TypeOK <=> /\ SharedOK
             /\ file \in File /\ controlState \in File
             /\ shuttingDown \in BOOLEAN /\ process \in {"starting", "running"}
             /\ live \subseteq Entry /\ nextTag \in Nat
             /\ changes \in 0 .. ChangeBudget
             /\ everClear \in BOOLEAN /\ overlapped \in BOOLEAN
BY Zenon DEF TypeOK, SharedOK, RequestRecord

LEMMA TaskStates ==
  /\ Idle \in TaskState
  /\ \A n \in 1 .. Len(Queues) : Resuming(n) \in TaskState
  /\ \A seen \in SUBSET QueueNames : Holding(seen) \in TaskState
BY QueueFacts DEF Idle, Resuming, Holding, TaskState

LEMMA NothingKnown ==
  ASSUME consumers' = <<>>, consuming' = FALSE,
         tasks' \in [Tasks -> TaskState], channel' \in Seq(RequestRecord)
  PROVE  SharedOK'
<1>1. consumers' \in Seq(Entry) /\ DOMAIN consumers' = {}
  OBVIOUS
<1>2. consuming' \in BOOLEAN
  BY Zenon
<1>3. \A i, j \in DOMAIN consumers' : consumers'[i].queue = consumers'[j].queue => i = j
  BY <1>1, Zenon
<1> QED
  BY <1>1, <1>2, <1>3, Zenon DEF SharedOK

LEMMA HoldNextTypes ==
  ASSUME TypeOK, NEW t \in Tasks, NEW seen \in SUBSET QueueNames,
         NEW requests \in Seq(RequestRecord), HoldNext(t, seen, requests)
  PROVE  SharedOK'
<1>1. ASSUME NEW i \in DOMAIN consumers, CancelNext(t, seen, requests, consumers[i])
      PROVE  SharedOK'
  <2>1. consumers[i] \in Entry
    BY DEF TypeOK
  <2>2. /\ Holding(seen \cup {consumers[i].queue}) \in TaskState
        /\ Request(t, consumers[i].tag, consumers[i].queue) \in RequestRecord
    BY <2>1, TaskStates DEF Entry, Request, RequestRecord
  <2> HIDE DEF RequestRecord, TaskState
  <2>3. tasks' \in [Tasks -> TaskState] /\ channel' \in Seq(RequestRecord)
    BY <1>1, <2>2 DEF CancelNext, TypeOK
  <2> QED
    BY <1>1, <2>3 DEF CancelNext, TypeOK, SharedOK
<1>2. ASSUME Forget(t, requests)
      PROVE  SharedOK'
  <2>1. \A u \in Tasks : (IF u = t THEN Idle ELSE [tasks[u] EXCEPT !.seen = {}]) \in TaskState
    <3>1. \A u \in Tasks : [tasks[u] EXCEPT !.seen = {}] \in TaskState
      BY DEF TypeOK, TaskState
    <3> QED
      BY <3>1, TaskStates
  <2>2. tasks' \in [Tasks -> TaskState]
    BY <1>2, <2>1 DEF Forget
  <2> QED
    BY <1>2, <2>2, NothingKnown DEF Forget
<1> QED
  BY <1>1, <1>2, HoldNextCases

LEMMA ResumeTypes ==
  ASSUME TypeOK, NEW t \in Tasks, NEW state, Resume(t, state), UNCHANGED consumers
  PROVE  SharedOK'
<1>1. Resuming(1) \in TaskState /\ Request(t, 0, Queues[1]) \in RequestRecord
  BY QueueFacts, TaskStates DEF Request, RequestRecord
<1>2. SharedOK
  BY TypeParts
<1>3. CASE consuming \/ shuttingDown \/ ~ IsConsumptionAllowed(state)
  BY <1>2, <1>3 DEF Resume, SharedOK
<1>4. CASE ~ (consuming \/ shuttingDown \/ ~ IsConsumptionAllowed(state))
  <2>1. /\ tasks' = [tasks EXCEPT ![t] = Resuming(1)]
        /\ channel' = Append(channel, Request(t, 0, Queues[1]))
    BY <1>4, Zenon DEF Resume
  <2>2. consuming' \in BOOLEAN
    BY <1>4, Zenon DEF Resume
  <2>3. tasks' \in [Tasks -> TaskState] /\ channel' \in Seq(RequestRecord)
    BY <1>1, <1>2, <2>1 DEF SharedOK
  <2> QED
    BY <1>2, <2>2, <2>3, Zenon DEF SharedOK
<1> QED
  BY <1>3, <1>4

LEMMA ControlTypes ==
  ASSUME TypeOK, RequestsOK, [Next]_vars
  PROVE  TypeOK'
<1>1. /\ SharedOK
      /\ file \in File /\ controlState \in File
      /\ shuttingDown \in BOOLEAN /\ process \in {"starting", "running"}
      /\ live \subseteq Entry /\ nextTag \in Nat
      /\ changes \in 0 .. ChangeBudget
      /\ everClear \in BOOLEAN /\ overlapped \in BOOLEAN
  BY TypeParts
<1>2. Main \in Tasks /\ Task \subseteq Tasks /\ "invalid" \in File
  BY DEF Tasks, File
<1>3. SUFFICES /\ SharedOK'
               /\ file' \in File /\ controlState' \in File
               /\ shuttingDown' \in BOOLEAN /\ process' \in {"starting", "running"}
               /\ live' \subseteq Entry /\ nextTag' \in Nat
               /\ changes' \in 0 .. ChangeBudget
               /\ everClear' \in BOOLEAN /\ overlapped' \in BOOLEAN
  BY Zenon DEF TypeOK, SharedOK, RequestRecord
<1>4. ASSUME NEW t \in Tasks, Hold(t)
      PROVE  SharedOK'
  <2>1. CASE consuming
    <3>1. HoldNext(t, {}, channel) /\ {} \in SUBSET QueueNames
      BY <1>4, <2>1 DEF Hold
    <3> QED
      BY <1>1, <3>1, HoldNextTypes DEF SharedOK
  <2>2. CASE ~ consuming
    BY <1>1, <1>4, <2>2 DEF Hold, SharedOK
  <2> QED
    BY <2>1, <2>2
<1>5. CASE Start
  <2>1. SharedOK'
    BY <1>2, <1>5, ResumeTypes DEF Start
  <2>2. everClear' \in BOOLEAN /\ process' \in {"starting", "running"}
    BY <1>5, Zenon DEF Start
  <2> QED
    BY <1>1, <1>5, <2>1, <2>2 DEF Start
<1>6. CASE \E t \in Task : Poll(t)
  <2>1. PICK t \in Task : Poll(t)
    BY <1>6
  <2>2. SharedOK'
    BY <1>2, <1>4, <2>1, ResumeTypes DEF Poll
  <2>3. everClear' \in BOOLEAN /\ overlapped' \in BOOLEAN
    BY <2>1, Zenon DEF Poll
  <2> QED
    BY <1>1, <2>1, <2>2, <2>3 DEF Poll
<1>7. CASE ConsumeOk
  <2> DEFINE request == Head(channel)
             t == request.task
             n == tasks[t].at
             entry == [queue |-> request.queue, tag |-> nextTag + 1]
  <2>1. /\ channel # <<>>
        /\ live' = live \cup {entry}
        /\ nextTag' = nextTag + 1
        /\ consumers' = Remember(consumers, entry)
        /\ IF n < Len(Queues)
           THEN /\ tasks' = [tasks EXCEPT ![t] = Resuming(n + 1)]
                /\ channel' = Append(Tail(channel), Request(t, 0, Queues[n + 1]))
           ELSE /\ tasks' = [tasks EXCEPT ![t] = Idle]
                /\ channel' = Tail(channel)
    BY <1>7 DEF ConsumeOk
  <2>0. request \in RequestRecord /\ n \in 1 .. Len(Queues)
    <3>1. request \in RequestRecord /\ request = channel[1] /\ 1 \in DOMAIN channel
      BY <1>1, <2>1 DEF SharedOK
    <3>2. t \in Tasks /\ tasks[t].kind = "resume"
      BY <1>7, <3>1 DEF ConsumeOk, RequestRecord
    <3> QED
      BY <3>1, <3>2 DEF RequestsOK
  <2>2. t \in Tasks /\ entry \in Entry /\ nextTag + 1 \in Nat /\ Tail(channel) \in Seq(RequestRecord)
    BY <1>1, <2>1, <2>0 DEF RequestRecord, Entry, SharedOK
  <2>3. consumers' \in Seq(Entry)
        /\ \A i, j \in DOMAIN consumers' : consumers'[i].queue = consumers'[j].queue => i = j
    BY <1>1, <2>1, <2>2, Remembered DEF SharedOK
  <2>4. tasks' \in [Tasks -> TaskState] /\ channel' \in Seq(RequestRecord)
    <3> HIDE DEF n
    <3>1. CASE n < Len(Queues)
      <4>1. n + 1 \in 1 .. Len(Queues)
        BY <2>0, <3>1, QueueFacts
      <4>2. Resuming(n + 1) \in TaskState /\ Request(t, 0, Queues[n + 1]) \in RequestRecord
        BY <2>2, <4>1, QueueFacts, TaskStates DEF Request, RequestRecord
      <4>3. /\ tasks' = [tasks EXCEPT ![t] = Resuming(n + 1)]
            /\ channel' = Append(Tail(channel), Request(t, 0, Queues[n + 1]))
        BY <2>1, <3>1, Zenon
      <4> HIDE DEF t
      <4> QED
        BY <1>1, <2>2, <4>2, <4>3 DEF SharedOK
    <3>2. CASE ~ (n < Len(Queues))
      BY <1>1, <2>1, <2>2, <3>2, TaskStates DEF SharedOK
    <3> QED
      BY <3>1, <3>2
  <2>5. SharedOK'
    BY <1>1, <1>7, <2>3, <2>4 DEF SharedOK, ConsumeOk
  <2> QED
    BY <1>1, <1>7, <2>1, <2>2, <2>5 DEF ConsumeOk
<1>8. CASE CancelOk
  <2>1. PICK request \in RequestRecord :
          /\ channel # <<>>
          /\ live' \subseteq live
          /\ HoldNext(request.task, tasks[request.task].seen, Tail(channel))
    <3>1. channel # <<>> /\ Head(channel) \in RequestRecord
      BY <1>1, <1>8 DEF CancelOk, SharedOK
    <3> QED
      BY <1>8, <3>1 DEF CancelOk
  <2>2. /\ request.task \in Tasks
        /\ tasks[request.task].seen \in SUBSET QueueNames
        /\ Tail(channel) \in Seq(RequestRecord)
    BY <1>1, <2>1 DEF SharedOK, RequestRecord, TaskState
  <2>3. SharedOK'
    BY <2>1, <2>2, HoldNextTypes
  <2> QED
    BY <1>1, <1>8, <2>1, <2>3 DEF CancelOk
<1>9. CASE Shutdown
  <2>1. SharedOK'
    BY <1>2, <1>4, <1>9 DEF Shutdown
  <2> QED
    BY <1>1, <1>9, <2>1 DEF Shutdown
<1>10. CASE Exit
  <2>1. tasks' \in [Tasks -> TaskState] /\ channel' \in Seq(RequestRecord)
    BY <1>10, TaskStates DEF Exit
  <2>2. SharedOK'
    BY <1>10, <2>1, NothingKnown DEF Exit
  <2>3. shuttingDown' \in BOOLEAN /\ everClear' \in BOOLEAN /\ overlapped' \in BOOLEAN
    BY <1>10, Zenon DEF Exit
  <2> QED
    BY <1>1, <1>2, <1>10, <2>2, <2>3 DEF Exit
<1>11. CASE FileChanges
  BY <1>1, <1>11, BudgetAssumption DEF FileChanges, SharedOK
<1>12. CASE UNCHANGED vars
  BY <1>1, <1>12 DEF vars, SharedOK
<1> QED
  BY <1>5, <1>6, <1>7, <1>8, <1>9, <1>10, <1>11, <1>12 DEF Next

(***************************************************************************)
(* The requests on the channel.                                            *)
(***************************************************************************)

(* The requests of the tasks other than t.                                 *)
OthersOK(t, requests) ==
  /\ requests \in Seq(RequestRecord)
  /\ \A i \in DOMAIN requests :
       LET task == tasks[requests[i].task]
       IN /\ requests[i].task # t
          /\ task.kind # "idle"
          /\ task.kind = "resume" => requests[i].queue = Queues[task.at]
  /\ \A i, j \in DOMAIN requests : requests[i].task = requests[j].task => i = j
  /\ \A u \in Tasks : tasks[u].kind = "resume" => tasks[u].at \in 1 .. Len(Queues)

OthersGoOn(t) ==
  \A u \in Tasks \ {t} : tasks'[u].kind = tasks[u].kind /\ tasks'[u].at = tasks[u].at

LEMMA RequestSent ==
  ASSUME NEW t \in Tasks, NEW requests, OthersOK(t, requests), OthersGoOn(t),
         NEW request \in RequestRecord, request.task = t,
         channel' = Append(requests, request),
         tasks'[t].kind # "idle",
         tasks'[t].kind = "resume" => /\ tasks'[t].at \in 1 .. Len(Queues)
                                      /\ request.queue = Queues[tasks'[t].at]
  PROVE  RequestsOK'
<1>1. /\ requests \in Seq(RequestRecord) /\ Len(requests) \in Nat
      /\ DOMAIN requests = 1 .. Len(requests)
      /\ DOMAIN channel' = 1 .. Len(requests) + 1
      /\ \A i \in 1 .. Len(requests) : channel'[i] = requests[i] /\ requests[i].task \in Tasks
      /\ channel'[Len(requests) + 1] = request
  <2>1. /\ requests \in Seq(RequestRecord) /\ Len(requests) \in Nat
        /\ DOMAIN requests = 1 .. Len(requests)
        /\ DOMAIN channel' = 1 .. Len(requests) + 1
        /\ \A i \in 1 .. Len(requests) : channel'[i] = requests[i] /\ requests[i] \in RequestRecord
        /\ channel'[Len(requests) + 1] = request
    BY DEF OthersOK
  <2> QED
    BY <2>1 DEF RequestRecord
<1>2. ASSUME NEW i \in DOMAIN channel'
      PROVE  /\ tasks'[channel'[i].task].kind # "idle"
             /\ tasks'[channel'[i].task].kind = "resume" =>
                  channel'[i].queue = Queues[tasks'[channel'[i].task].at]
  <2>1. CASE i \in 1 .. Len(requests)
    BY <1>1, <2>1 DEF OthersOK, OthersGoOn
  <2>2. CASE i = Len(requests) + 1
    BY <1>1, <2>2
  <2> QED
    BY <1>1, <2>1, <2>2
<1>3. \A i, j \in DOMAIN channel' : channel'[i].task = channel'[j].task => i = j
  BY <1>1 DEF OthersOK
<1>4. \A u \in Tasks : tasks'[u].kind = "resume" => tasks'[u].at \in 1 .. Len(Queues)
  BY DEF OthersOK, OthersGoOn
<1> QED
  BY <1>2, <1>3, <1>4 DEF RequestsOK

LEMMA NothingSent ==
  ASSUME NEW t \in Tasks, NEW requests, OthersOK(t, requests), OthersGoOn(t),
         channel' = requests, tasks'[t].kind = "idle"
  PROVE  RequestsOK'
<1>1. \A i \in DOMAIN requests : requests[i].task \in Tasks
  <2>1. \A i \in DOMAIN requests : requests[i] \in RequestRecord
    BY DEF OthersOK
  <2> QED
    BY <2>1 DEF RequestRecord
<1> QED
  BY <1>1 DEF RequestsOK, OthersOK, OthersGoOn

(* A task that waits for nothing has no request; one whose request is      *)
(* answered has no other.                                                  *)
LEMMA Waiting ==
  ASSUME TypeOK, RequestsOK, NEW t \in Tasks
  PROVE  /\ ~ Busy(t) => OthersOK(t, channel)
         /\ channel # <<>> /\ t = Head(channel).task =>
              /\ OthersOK(t, Tail(channel))
              /\ \A i \in DOMAIN Tail(channel) :
                   i + 1 \in DOMAIN channel /\ Tail(channel)[i] = channel[i + 1]
<1>1. channel \in Seq(RequestRecord)
  BY DEF TypeOK, RequestRecord
<1>2. ASSUME ~ Busy(t) PROVE OthersOK(t, channel)
  BY <1>1, <1>2 DEF RequestsOK, OthersOK, Busy
<1>3. ASSUME channel # <<>>, t = Head(channel).task
      PROVE  /\ OthersOK(t, Tail(channel))
             /\ \A i \in DOMAIN Tail(channel) :
                  i + 1 \in DOMAIN channel /\ Tail(channel)[i] = channel[i + 1]
  <2>1. /\ Tail(channel) \in Seq(RequestRecord)
        /\ t = channel[1].task /\ 1 \in DOMAIN channel
        /\ DOMAIN Tail(channel) = 1 .. Len(channel) - 1 /\ DOMAIN channel = 1 .. Len(channel)
        /\ \A i \in 1 .. Len(channel) - 1 : Tail(channel)[i] = channel[i + 1]
        /\ Len(channel) \in Nat
    BY <1>1, <1>3
  <2>2. \A i \in DOMAIN Tail(channel) :
          i + 1 \in DOMAIN channel /\ Tail(channel)[i] = channel[i + 1] /\ i + 1 # 1
    BY <2>1
  <2>3. \A i, j \in DOMAIN Tail(channel) : i + 1 = j + 1 => i = j
    BY <2>1
  <2> QED
    BY <2>1, <2>2, <2>3 DEF RequestsOK, OthersOK
<1> QED
  BY <1>2, <1>3

LEMMA HoldNextRequests ==
  ASSUME TypeOK, NEW t \in Tasks, NEW seen \in SUBSET QueueNames, NEW requests,
         OthersOK(t, requests), HoldNext(t, seen, requests)
  PROVE  RequestsOK' /\ OthersGoOn(t) /\ tasks'[t].kind \in {"hold", "idle"}
<1>1. ASSUME NEW i \in DOMAIN consumers, CancelNext(t, seen, requests, consumers[i])
      PROVE  RequestsOK' /\ OthersGoOn(t) /\ tasks'[t].kind \in {"hold", "idle"}
  <2>1. Request(t, consumers[i].tag, consumers[i].queue) \in RequestRecord
        /\ Request(t, consumers[i].tag, consumers[i].queue).task = t
    <3>1. consumers[i] \in Entry
      BY DEF TypeOK
    <3> QED
      BY <3>1 DEF Entry, Request, RequestRecord
  <2>2. OthersGoOn(t) /\ tasks'[t].kind = "hold"
    BY <1>1 DEF CancelNext, OthersGoOn, Holding, TypeOK
  <2> QED
    BY <1>1, <2>1, <2>2, RequestSent DEF CancelNext
<1>2. ASSUME Forget(t, requests)
      PROVE  RequestsOK' /\ OthersGoOn(t) /\ tasks'[t].kind \in {"hold", "idle"}
  <2>1. tasks'[t].kind = "idle"
    BY <1>2 DEF Forget, Idle
  <2>2. OthersGoOn(t)
    <3>1. \A u \in Tasks : [tasks[u] EXCEPT !.seen = {}].kind = tasks[u].kind
                           /\ [tasks[u] EXCEPT !.seen = {}].at = tasks[u].at
      BY DEF TypeOK, TaskState
    <3> QED
      BY <1>2, <3>1 DEF Forget, OthersGoOn
  <2> QED
    BY <1>2, <2>1, <2>2, NothingSent DEF Forget
<1> QED
  BY <1>1, <1>2, HoldNextCases

LEMMA ResumeRequests ==
  ASSUME TypeOK, NEW t \in Tasks, NEW state, Resume(t, state),
         RequestsOK, ~ Busy(t)
  PROVE  /\ RequestsOK' /\ OthersGoOn(t)
         /\ (\E u \in Tasks : tasks'[u].kind = "resume")
              => (\E u \in Tasks : tasks[u].kind = "resume") \/ state = "clear"
<1>1. CASE consuming \/ shuttingDown \/ ~ IsConsumptionAllowed(state)
  BY <1>1 DEF Resume, RequestsOK, OthersGoOn
<1>2. CASE ~ (consuming \/ shuttingDown \/ ~ IsConsumptionAllowed(state))
  <2>1. /\ tasks' = [tasks EXCEPT ![t] = Resuming(1)]
        /\ channel' = Append(channel, Request(t, 0, Queues[1]))
    BY <1>2, Zenon DEF Resume
  <2>2. /\ OthersGoOn(t) /\ tasks'[t].kind = "resume" /\ tasks'[t].at = 1
    BY <2>1 DEF OthersGoOn, Resuming, TypeOK
  <2>3. /\ Request(t, 0, Queues[1]) \in RequestRecord
        /\ Request(t, 0, Queues[1]).task = t /\ Request(t, 0, Queues[1]).queue = Queues[1]
        /\ 1 \in 1 .. Len(Queues)
    BY QueueFacts DEF Request, RequestRecord
  <2>4. RequestsOK'
    BY <2>1, <2>2, <2>3, RequestSent, Waiting
  <2> QED
    BY <1>2, <2>2, <2>4 DEF IsConsumptionAllowed
<1> QED
  BY <1>1, <1>2

LEMMA HoldRequests ==
  ASSUME TypeOK, NEW t \in Tasks, Hold(t), RequestsOK, ~ Busy(t)
  PROVE  RequestsOK' /\ OthersGoOn(t) /\ tasks'[t].kind \in {"hold", "idle"}
<1>1. CASE consuming
  <2>1. HoldNext(t, {}, channel) /\ {} \in SUBSET QueueNames
    BY <1>1 DEF Hold
  <2> QED
    BY <2>1, HoldNextRequests, Waiting
<1>2. CASE ~ consuming
  BY <1>2 DEF Hold, RequestsOK, OthersGoOn, Busy
<1> QED
  BY <1>1, <1>2

LEMMA FirstRequest ==
  ASSUME TypeOK, channel # <<>>
  PROVE  Head(channel) \in RequestRecord /\ Head(channel) = channel[1] /\ 1 \in DOMAIN channel
<1>1. channel \in Seq(RequestRecord)
  BY DEF TypeOK, RequestRecord
<1> QED
  BY <1>1

LEMMA LastQueue ==
  ASSUME NEW n \in 1 .. Len(Queues)
  PROVE  \/ n < Len(Queues) /\ n + 1 \in 1 .. Len(Queues) /\ n # Len(Queues)
         \/ n = Len(Queues) /\ ~ (n < Len(Queues))
<1>1. Len(Queues) \in Nat
  BY QueueFacts
<1> QED
  BY <1>1

(* A task that answers its consume request.                                *)
LEMMA ConsumeFacts ==
  ASSUME TypeOK, RequestsOK, ConsumeOk
  PROVE  \E t \in Tasks, n \in 1 .. Len(Queues), entry \in Entry :
           /\ tasks[t].kind = "resume" /\ tasks[t].at = n
           /\ channel # <<>> /\ t = Head(channel).task
           /\ entry.queue = Queues[n]
           /\ live' = live \cup {entry}
           /\ consumers' = Remember(consumers, entry)
           /\ \/ /\ n < Len(Queues)
                 /\ tasks' = [tasks EXCEPT ![t] = Resuming(n + 1)]
                 /\ channel' = Append(Tail(channel), Request(t, 0, Queues[n + 1]))
              \/ /\ n = Len(Queues)
                 /\ tasks' = [tasks EXCEPT ![t] = Idle]
                 /\ channel' = Tail(channel)
<1> DEFINE request == Head(channel)
           t == request.task
           n == tasks[t].at
           entry == [queue |-> request.queue, tag |-> nextTag + 1]
<1>1. /\ channel # <<>> /\ tasks[t].kind = "resume"
      /\ live' = live \cup {entry}
      /\ consumers' = Remember(consumers, entry)
      /\ IF n < Len(Queues)
         THEN /\ tasks' = [tasks EXCEPT ![t] = Resuming(n + 1)]
              /\ channel' = Append(Tail(channel), Request(t, 0, Queues[n + 1]))
         ELSE /\ tasks' = [tasks EXCEPT ![t] = Idle]
              /\ channel' = Tail(channel)
  BY DEF ConsumeOk
<1>2. request \in RequestRecord /\ request = channel[1] /\ 1 \in DOMAIN channel
  BY <1>1, FirstRequest
<1>3. t \in Tasks /\ entry \in Entry /\ entry.queue = request.queue
  BY <1>2 DEF RequestRecord, Entry, TypeOK
<1>4. n \in 1 .. Len(Queues) /\ request.queue = Queues[n]
  BY <1>1, <1>2, <1>3 DEF RequestsOK
<1> HIDE DEF n, t, entry, request
<1>5. n < Len(Queues) \/ (n = Len(Queues) /\ ~ (n < Len(Queues)))
  BY <1>4, LastQueue
<1>6. t = Head(channel).task /\ tasks[t].at = n
  BY DEF t, n, request
<1> QED
  BY <1>1, <1>3, <1>4, <1>5, <1>6

LEMMA ConsumeRequests ==
  ASSUME TypeOK, RequestsOK, ConsumeOk
  PROVE  /\ RequestsOK'
         /\ \E u \in Tasks : tasks[u].kind = "resume"
<1>1. PICK t \in Tasks, n \in 1 .. Len(Queues), entry \in Entry :
        /\ tasks[t].kind = "resume"
        /\ channel # <<>> /\ t = Head(channel).task
        /\ \/ /\ n < Len(Queues)
              /\ tasks' = [tasks EXCEPT ![t] = Resuming(n + 1)]
              /\ channel' = Append(Tail(channel), Request(t, 0, Queues[n + 1]))
           \/ /\ n = Len(Queues)
              /\ tasks' = [tasks EXCEPT ![t] = Idle]
              /\ channel' = Tail(channel)
  BY ConsumeFacts
<1>2. OthersOK(t, Tail(channel)) /\ OthersGoOn(t)
  BY <1>1, Waiting DEF OthersGoOn, TypeOK
<1>3. CASE n < Len(Queues)
  <2>1. /\ tasks' = [tasks EXCEPT ![t] = Resuming(n + 1)]
        /\ channel' = Append(Tail(channel), Request(t, 0, Queues[n + 1]))
    BY <1>1, <1>3, LastQueue
  <2>2. n + 1 \in 1 .. Len(Queues)
    BY <1>3, LastQueue
  <2>3. tasks'[t].kind = "resume" /\ tasks'[t].at = n + 1
    BY <2>1 DEF Resuming, TypeOK
  <2>4. /\ Request(t, 0, Queues[n + 1]) \in RequestRecord
        /\ Request(t, 0, Queues[n + 1]).task = t
        /\ Request(t, 0, Queues[n + 1]).queue = Queues[n + 1]
    BY <2>2, QueueFacts DEF Request, RequestRecord
  <2> QED
    BY <1>1, <1>2, <2>1, <2>2, <2>3, <2>4, RequestSent
<1>4. CASE n = Len(Queues)
  <2>1. tasks'[t].kind = "idle" /\ channel' = Tail(channel)
    BY <1>1, <1>4, LastQueue DEF Idle, TypeOK
  <2> QED
    BY <1>1, <1>2, <2>1, NothingSent
<1> QED
  BY <1>1, <1>3, <1>4

LEMMA CancelFacts ==
  ASSUME TypeOK, CancelOk
  PROVE  \E t \in Tasks :
           /\ channel # <<>> /\ t = Head(channel).task
           /\ tasks[t].kind = "hold" /\ tasks[t].seen \in SUBSET QueueNames
           /\ live' = {entry \in live : entry.tag # Head(channel).tag}
           /\ HoldNext(t, tasks[t].seen, Tail(channel))
<1>1. Head(channel) \in RequestRecord
  BY FirstRequest DEF CancelOk
<1>2. Head(channel).task \in Tasks
  BY <1>1 DEF RequestRecord
<1>3. tasks[Head(channel).task] \in TaskState
  BY <1>2 DEF TypeOK
<1>4. tasks[Head(channel).task].seen \in SUBSET QueueNames
  BY <1>3 DEF TaskState
<1> QED
  BY <1>2, <1>4 DEF CancelOk

(***************************************************************************)
(* Consumption begins only on an explicit hold=false.                      *)
(***************************************************************************)
LEMMA LoopStep ==
  ASSUME LoopInv, [Next]_vars
  PROVE  LoopInv'
<1> USE DEF LoopInv
<1>1. TypeOK'
  BY ControlTypes
<1>2. Main \in Tasks /\ Task \subseteq Tasks
  BY DEF Tasks
<1>3. CASE Start
  <2>1. ~ Busy(Main)
    BY <1>2, <1>3 DEF Start, FreshStart, Quiescent
  <2>2. /\ RequestsOK'
        /\ (\E u \in Tasks : tasks'[u].kind = "resume")
             => (\E u \in Tasks : tasks[u].kind = "resume") \/ file = "clear"
    BY <1>2, <1>3, <2>1, ResumeRequests DEF Start
  <2>3. everClear' = (everClear \/ file = "clear") /\ UNCHANGED live /\ process' = "running"
    BY <1>3 DEF Start
  <2> QED
    BY <1>1, <2>2, <2>3 DEF FreshStart, Granted
<1>4. CASE \E t \in Task : Poll(t)
  <2>1. PICK t \in Task : Poll(t)
    BY <1>4
  <2>2. /\ ~ Busy(t) /\ UNCHANGED live /\ process' = "running"
        /\ everClear' = (everClear \/ file = "clear")
    BY <2>1 DEF Poll
  <2>3. /\ RequestsOK'
        /\ (\E u \in Tasks : tasks'[u].kind = "resume")
             => (\E u \in Tasks : tasks[u].kind = "resume") \/ file = "clear"
    <3>1. CASE IsConsumptionAllowed(file)
      BY <1>2, <2>1, <2>2, <3>1, ResumeRequests DEF Poll
    <3>2. CASE ~ IsConsumptionAllowed(file)
      BY <1>2, <2>1, <2>2, <3>2, HoldRequests DEF Poll, OthersGoOn
    <3> QED
      BY <3>1, <3>2
  <2> QED
    BY <1>1, <2>2, <2>3 DEF FreshStart, Granted
<1>5. CASE ConsumeOk
  <2>1. RequestsOK' /\ everClear /\ UNCHANGED <<everClear, process>>
    BY <1>5, ConsumeRequests DEF Granted, ConsumeOk
  <2>2. process = "running"
    BY <1>5 DEF ConsumeOk, FreshStart, TypeOK
  <2> QED
    BY <1>1, <2>1, <2>2 DEF FreshStart, Granted
<1>6. CASE CancelOk
  <2>1. PICK t \in Tasks :
          /\ channel # <<>> /\ t = Head(channel).task
          /\ tasks[t].seen \in SUBSET QueueNames
          /\ live' = {entry \in live : entry.tag # Head(channel).tag}
          /\ HoldNext(t, tasks[t].seen, Tail(channel))
    BY <1>6, CancelFacts
  <2>2. OthersOK(t, Tail(channel))
    BY <2>1, Waiting
  <2>3. RequestsOK' /\ OthersGoOn(t) /\ tasks'[t].kind \in {"hold", "idle"}
    BY <2>1, <2>2, HoldNextRequests
  <2>4. process = "running" /\ UNCHANGED <<process, everClear>>
    BY <1>6 DEF CancelOk, FreshStart, TypeOK
  <2> QED
    BY <1>1, <2>1, <2>3, <2>4 DEF FreshStart, Granted, OthersGoOn
<1>7. CASE Shutdown
  <2>1. ~ Busy(Main) /\ Hold(Main) /\ process = "running" /\ UNCHANGED <<process, everClear, live>>
    BY <1>7 DEF Shutdown
  <2>2. RequestsOK' /\ OthersGoOn(Main) /\ tasks'[Main].kind \in {"hold", "idle"}
    BY <1>2, <2>1, HoldRequests
  <2> QED
    BY <1>1, <2>1, <2>2 DEF FreshStart, Granted, OthersGoOn
<1>8. CASE Exit
  <2>1. \A t \in Tasks : tasks'[t].kind = "idle"
    BY <1>8 DEF Exit, Idle
  <2>2. FreshStart'
    BY <1>8, <2>1 DEF Exit, FreshStart, Quiescent, Busy
  <2>3. RequestsOK' /\ Granted'
    BY <1>8, <2>1 DEF Exit, RequestsOK, Granted
  <2> QED
    BY <1>1, <2>2, <2>3
<1>9. CASE FileChanges \/ UNCHANGED vars
  BY <1>1, <1>9 DEF FileChanges, vars, FreshStart, RequestsOK, Granted, Quiescent, Busy
<1> QED
  BY <1>3, <1>4, <1>5, <1>6, <1>7, <1>8, <1>9 DEF Next

(***************************************************************************)
(* While no polls overlap.                                                 *)
(***************************************************************************)
(* What is hung on to while the rest is cancelled: the consumers of a task *)
(* that registers some during a shutdown.                                  *)
ResumeGoesOn(t) ==
  \A u \in Tasks \ {t} : tasks[u].kind = "resume" =>
    /\ controlState' = "clear" /\ shuttingDown'
    /\ \A e \in live : \E i \in 1 .. tasks[u].at - 1 : e.queue = Queues[i]
    /\ \A w \in Tasks \ {t} : tasks[w].kind = "resume" => u = w

(* What holds of the consumers at each turn of a hold.                     *)
HoldTurn(t, seen, requests) ==
  /\ ~ shuttingDown' => controlState' # "clear" /\ \A u \in Tasks : Busy(u) => u = t
  /\ controlState' # "clear" =>
       /\ \A e \in live' : e.queue \notin seen /\ \E i \in DOMAIN consumers : consumers[i] = e
       /\ live' # {} => consuming
       /\ \A i \in DOMAIN requests : tasks[requests[i].task].kind = "hold" =>
            \A e \in live' : e.queue \in tasks[requests[i].task].seen => e.tag = requests[i].tag

LEMMA HoldPrompt ==
  ASSUME TypeOK, NEW t \in Tasks, NEW seen \in SUBSET QueueNames, NEW requests,
         OthersOK(t, requests), HoldNext(t, seen, requests),
         live' \subseteq live,
         \A e1, e2 \in live : e1.queue = e2.queue => e1 = e2,
         ResumeGoesOn(t), HoldTurn(t, seen, requests)
  PROVE  PromptInv'
<1>1. /\ OthersGoOn(t) /\ tasks'[t].kind \in {"hold", "idle"}
  BY HoldNextRequests
<1>2. SingleConsumer'
  BY DEF SingleConsumer
<1>3. ResumeOK'
  <2>1. \A u \in Tasks : tasks'[u].kind = "resume" =>
          u # t /\ tasks[u].kind = "resume" /\ tasks'[u].at = tasks[u].at
    BY <1>1 DEF OthersGoOn
  <2>2. ~ shuttingDown' => \A u \in Tasks : tasks'[u].kind # "idle" => u = t
    BY <1>1 DEF OthersGoOn, HoldTurn, Busy
  <2> QED
    BY <2>1, <2>2 DEF ResumeOK, ResumeGoesOn, Busy
<1>4. ReadyMeansConsuming'
  BY DEF ReadyMeansConsuming, Ready, IsConsumptionAllowed, HoldTurn
<1>5. \A i \in DOMAIN requests : requests[i].task \in Tasks \ {t}
  <2>1. \A i \in DOMAIN requests : requests[i] \in RequestRecord
    BY DEF OthersOK
  <2> QED
    BY <2>1 DEF RequestRecord, OthersOK
<1>6. requests \in Seq(RequestRecord)
  BY DEF OthersOK
<1>7. ASSUME NEW k \in DOMAIN consumers, consumers[k].queue \notin seen,
             CancelNext(t, seen, requests, consumers[k])
      PROVE  HoldOK'
  <2>1. /\ UNCHANGED <<consuming, consumers>> /\ tasks'[t] = Holding(seen \cup {consumers[k].queue})
        /\ \A u \in Tasks \ {t} : tasks'[u] = tasks[u]
    BY <1>7 DEF CancelNext, TypeOK
  <2>2. tasks'[t].kind = "hold" /\ tasks'[t].seen = seen \cup {consumers[k].queue}
    BY <2>1 DEF Holding
  <2>3. /\ DOMAIN channel' = 1 .. Len(requests) + 1 /\ DOMAIN requests = 1 .. Len(requests)
        /\ Len(requests) \in Nat
        /\ \A i \in 1 .. Len(requests) : channel'[i] = requests[i]
        /\ channel'[Len(requests) + 1].task = t
        /\ channel'[Len(requests) + 1].tag = consumers[k].tag
    BY <1>6, <1>7 DEF CancelNext, Request
  <2>4. ASSUME controlState' # "clear", NEW i \in DOMAIN channel', NEW e \in live',
               tasks'[channel'[i].task].kind = "hold", e.queue \in tasks'[channel'[i].task].seen
        PROVE  e.tag = channel'[i].tag
    <3>1. CASE i \in 1 .. Len(requests)
      BY <1>5, <2>1, <2>3, <2>4, <3>1 DEF HoldTurn
    <3>2. CASE i = Len(requests) + 1
      <4>1. e.queue \notin seen
        BY <2>4 DEF HoldTurn
      <4>2. PICK j \in DOMAIN consumers : consumers[j] = e
        BY <2>4 DEF HoldTurn
      <4>3. e.queue = consumers[k].queue
        BY <2>2, <2>3, <2>4, <3>2, <4>1
      <4>4. j = k
        BY <4>2, <4>3 DEF TypeOK
      <4> QED
        BY <2>3, <3>2, <4>2, <4>4
    <3> QED
      BY <2>3, <3>1, <3>2
  <2> QED
    BY <2>1, <2>2, <2>4 DEF HoldOK, HoldTurn
<1>8. ASSUME \A i \in DOMAIN consumers : consumers[i].queue \in seen, Forget(t, requests)
      PROVE  HoldOK'
  <2>1. ~ consuming' /\ channel' = requests
    BY <1>8 DEF Forget
  <2>2. \A u \in Tasks \ {t} : tasks'[u].seen = {}
    BY <1>8 DEF Forget, TypeOK, TaskState
  <2>3. controlState' # "clear" => live' = {}
    BY <1>8 DEF HoldTurn
  <2>4. ~ shuttingDown' => controlState' # "clear"
    BY DEF HoldTurn
  <2> QED
    BY <1>5, <2>1, <2>2, <2>3, <2>4 DEF HoldOK
<1>9. HoldOK'
  BY <1>7, <1>8, HoldNextCases
<1> QED
  BY <1>2, <1>3, <1>4, <1>9 DEF PromptInv

(* A poll that finds the document changed, while nobody waits.             *)
LEMMA PollPrompt ==
  ASSUME LoopInv, PromptInv, NEW t \in Tasks, Quiescent, ~ overlapped, ~ shuttingDown,
         file # controlState, UNCHANGED <<live, shuttingDown>>, controlState' = file,
         IF IsConsumptionAllowed(file) THEN Resume(t, file) /\ UNCHANGED consumers ELSE Hold(t)
  PROVE  PromptInv'
<1> USE DEF LoopInv, PromptInv
<1>1. \A u \in Tasks : tasks[u].kind = "idle"
  BY DEF Quiescent, Busy
<1>2. channel = <<>>
  <2>1. channel \in Seq(RequestRecord)
    BY DEF TypeOK, RequestRecord
  <2>2. \A i \in DOMAIN channel : channel[i] \in RequestRecord
    BY <2>1
  <2>3. \A i \in DOMAIN channel : channel[i].task \in Tasks
    BY <2>2 DEF RequestRecord
  <2>4. DOMAIN channel = {}
    BY <1>1, <2>3 DEF RequestsOK
  <2> QED
    BY <2>1, <2>4
<1>3. \A e1, e2 \in live : e1.queue = e2.queue => e1 = e2
  BY DEF SingleConsumer
<1>4. CASE file = "clear"
  <2>1. ~ consuming /\ live = {}
    BY <1>1, <1>4 DEF HoldOK
  <2>2. Resume(t, file) /\ UNCHANGED consumers
    BY <1>4 DEF IsConsumptionAllowed
  <2>3. consuming' /\ tasks' = [tasks EXCEPT ![t] = Resuming(1)]
    BY <1>4, <2>1, <2>2, Zenon DEF Resume, IsConsumptionAllowed
  <2>4. /\ tasks'[t].kind = "resume" /\ tasks'[t].at = 1
        /\ \A u \in Tasks \ {t} : tasks'[u].kind = "idle"
    BY <1>1, <2>3 DEF Resuming, TypeOK
  <2>5. ResumeOK'
    BY <1>4, <2>1, <2>4 DEF ResumeOK, Busy
  <2>6. HoldOK'
    BY <1>4, <2>1, <2>3, <2>4 DEF HoldOK
  <2>7. SingleConsumer' /\ ReadyMeansConsuming'
    BY <1>3, <2>4 DEF SingleConsumer, ReadyMeansConsuming, Quiescent, Busy
  <2> QED
    BY <2>5, <2>6, <2>7
<1>5. CASE file # "clear"
  <2>1. Hold(t) /\ controlState' # "clear"
    BY <1>5 DEF IsConsumptionAllowed
  <2>2. CASE consuming
    <3>1. HoldNext(t, {}, channel) /\ {} \in SUBSET QueueNames
      BY <2>1, <2>2 DEF Hold
    <3>2. OthersOK(t, channel)
      BY <1>1, Waiting DEF Busy
    <3>3. ResumeGoesOn(t)
      BY <1>1 DEF ResumeGoesOn
    <3>4. HoldTurn(t, {}, channel)
      BY <1>1, <1>2, <2>1, <2>2 DEF HoldTurn, HoldOK, Busy
    <3> QED
      BY <1>3, <3>1, <3>2, <3>3, <3>4, HoldPrompt
  <2>3. CASE ~ consuming
    <3>1. live = {} /\ UNCHANGED <<consuming, consumers, tasks, channel>>
      BY <2>1, <2>3 DEF Hold, HoldOK
    <3>2. ResumeOK' /\ SingleConsumer' /\ ReadyMeansConsuming'
      BY <1>1, <2>1, <3>1
      DEF ResumeOK, Busy, SingleConsumer, ReadyMeansConsuming, Ready, IsConsumptionAllowed
    <3>3. HoldOK'
      BY <1>1, <1>2, <2>1, <2>3, <3>1 DEF HoldOK
    <3> QED
      BY <3>2, <3>3
  <2> QED
    BY <2>2, <2>3
<1> QED
  BY <1>4, <1>5

(* The cancellation a hold waits for is answered.                          *)
LEMMA CancelPrompt ==
  ASSUME LoopInv, PromptInv, ~ overlapped, CancelOk
  PROVE  PromptInv'
<1> USE DEF LoopInv, PromptInv
<1>1. PICK t \in Tasks :
        /\ channel # <<>> /\ t = Head(channel).task
        /\ tasks[t].kind = "hold" /\ tasks[t].seen \in SUBSET QueueNames
        /\ live' = {entry \in live : entry.tag # Head(channel).tag}
        /\ HoldNext(t, tasks[t].seen, Tail(channel))
  BY CancelFacts
<1>2. /\ OthersOK(t, Tail(channel))
      /\ \A i \in DOMAIN Tail(channel) :
           i + 1 \in DOMAIN channel /\ Tail(channel)[i] = channel[i + 1]
  BY <1>1, Waiting
<1>3. UNCHANGED <<controlState, shuttingDown>>
  BY DEF CancelOk
<1>4. Head(channel) = channel[1] /\ 1 \in DOMAIN channel
  BY <1>1, FirstRequest
<1>5. ResumeGoesOn(t)
  BY <1>1, <1>3 DEF ResumeGoesOn, ResumeOK, Busy
<1>6. HoldTurn(t, tasks[t].seen, Tail(channel))
  <2>1. ~ shuttingDown => controlState # "clear" /\ \A u \in Tasks : Busy(u) => u = t
    BY <1>1 DEF HoldOK, ResumeOK, Busy
  <2>2. ASSUME controlState # "clear", NEW e \in live'
        PROVE  e.queue \notin tasks[t].seen /\ \E i \in DOMAIN consumers : consumers[i] = e
    BY <1>1, <1>4, <2>2 DEF HoldOK
  <2>3. controlState # "clear" /\ live' # {} => consuming
    BY <1>1 DEF HoldOK
  <2>4. ASSUME controlState # "clear", NEW i \in DOMAIN Tail(channel),
               tasks[Tail(channel)[i].task].kind = "hold", NEW e \in live',
               e.queue \in tasks[Tail(channel)[i].task].seen
        PROVE  e.tag = Tail(channel)[i].tag
    BY <1>1, <1>2, <2>4 DEF HoldOK
  <2> QED
    BY <1>3, <2>1, <2>2, <2>3, <2>4 DEF HoldTurn
<1> QED
  BY <1>1, <1>2, <1>5, <1>6, HoldPrompt DEF SingleConsumer

(* The shutdown begins to cancel, whatever a poll is waiting for.          *)
LEMMA ShutdownPrompt ==
  ASSUME LoopInv, PromptInv, ~ overlapped, Shutdown
  PROVE  PromptInv'
<1> USE DEF LoopInv, PromptInv
<1>1. /\ Main \in Tasks /\ ~ Busy(Main) /\ Hold(Main)
      /\ shuttingDown' /\ UNCHANGED <<controlState, live>>
  BY Zenon DEF Shutdown, Tasks
<1>2. ~ shuttingDown
  BY DEF Shutdown
<1>3. \A e1, e2 \in live : e1.queue = e2.queue => e1 = e2
  BY DEF SingleConsumer
<1>4. CASE consuming
  <2>1. HoldNext(Main, {}, channel) /\ {} \in SUBSET QueueNames
    BY <1>1, <1>4 DEF Hold
  <2>2. OthersOK(Main, channel)
    BY <1>1, Waiting
  <2>3. ResumeGoesOn(Main)
    BY <1>1 DEF ResumeGoesOn, ResumeOK
  <2>4. HoldTurn(Main, {}, channel)
    BY <1>1, <1>2, <1>4 DEF HoldTurn, HoldOK
  <2> QED
    BY <1>1, <1>3, <2>1, <2>2, <2>3, <2>4, HoldPrompt
<1>5. CASE ~ consuming
  <2>1. UNCHANGED <<consuming, consumers, tasks, channel>>
    BY <1>1, <1>5 DEF Hold
  <2>2. ResumeOK' /\ SingleConsumer' /\ ReadyMeansConsuming'
    BY <1>1, <1>2, <1>3, <2>1
    DEF ResumeOK, Busy, SingleConsumer, ReadyMeansConsuming, Ready
  <2>3. HoldOK'
    BY <1>1, <1>2, <2>1 DEF HoldOK
  <2> QED
    BY <2>2, <2>3
<1> QED
  BY <1>4, <1>5

(* A consumer is registered: on a queue that has none yet.                 *)
LEMMA ConsumePrompt ==
  ASSUME LoopInv, PromptInv, ~ overlapped, ConsumeOk
  PROVE  PromptInv'
<1> USE DEF LoopInv, PromptInv
<1>1. PICK t \in Tasks, n \in 1 .. Len(Queues), entry \in Entry :
        /\ tasks[t].kind = "resume" /\ tasks[t].at = n
        /\ entry.queue = Queues[n]
        /\ live' = live \cup {entry}
        /\ consumers' = Remember(consumers, entry)
        /\ \/ /\ n < Len(Queues)
              /\ tasks' = [tasks EXCEPT ![t] = Resuming(n + 1)]
           \/ /\ n = Len(Queues)
              /\ tasks' = [tasks EXCEPT ![t] = Idle]
  BY ConsumeFacts
<1>2. UNCHANGED <<controlState, consuming, shuttingDown, process>> /\ controlState = "clear"
  BY <1>1 DEF ConsumeOk, ResumeOK
<1>3. \A e \in live : \E i \in 1 .. n - 1 : e.queue = Queues[i]
  BY <1>1 DEF ResumeOK
<1>4. \A e \in live : e.queue # entry.queue
  <2>1. \A i \in 1 .. n - 1 : i \in 1 .. Len(Queues) /\ i # n
    BY QueueFacts
  <2>2. \A i, j \in 1 .. Len(Queues) : Queues[i] = Queues[j] => i = j
    BY QueueFacts
  <2> QED
    BY <1>1, <1>3, <2>1, <2>2
<1>5. SingleConsumer'
  BY <1>1, <1>4 DEF SingleConsumer
<1>6. HoldOK'
  <2>0. /\ \E i \in DOMAIN consumers' : consumers'[i] = entry
        /\ \A i \in DOMAIN consumers : consumers[i].queue # entry.queue =>
             \E j \in DOMAIN consumers' : consumers'[j] = consumers[i]
    <3>1. /\ consumers \in Seq(Entry)
          /\ \A i, j \in DOMAIN consumers : consumers[i].queue = consumers[j].queue => i = j
      BY DEF TypeOK
    <3> QED
      BY <1>1, <3>1, Remembered
  <2>1. ~ shuttingDown => \A e \in live' : \E i \in DOMAIN consumers' : consumers'[i] = e
    <3> SUFFICES ASSUME ~ shuttingDown, NEW e \in live'
                 PROVE  \E i \in DOMAIN consumers' : consumers'[i] = e
      OBVIOUS
    <3>1. CASE e = entry
      BY <2>0, <3>1
    <3>2. CASE e # entry
      <4>1. e \in live /\ e.queue # entry.queue
        BY <1>1, <1>4, <3>2
      <4>2. PICK j \in DOMAIN consumers : consumers[j] = e
        BY <4>1 DEF HoldOK
      <4> QED
        BY <2>0, <4>1, <4>2
    <3> QED
      BY <3>1, <3>2
  <2>2. ~ shuttingDown => consuming /\ \A u \in Tasks : tasks'[u].kind # "hold"
    BY <1>1, <1>2, SMTT(30) DEF HoldOK, Resuming, Idle, TypeOK
  <2> QED
    BY <1>2, <2>1, <2>2 DEF HoldOK
<1>7. ResumeOK'
  <2>1. \A u \in Tasks \ {t} : tasks'[u] = tasks[u] /\ tasks'[u].kind # "resume"
    BY <1>1 DEF ResumeOK, TypeOK
  <2>2. \/ tasks'[t].kind = "resume" /\ tasks'[t].at = n + 1
        \/ tasks'[t].kind = "idle"
    BY <1>1 DEF Resuming, Idle, TypeOK
  <2>3. \A i \in 1 .. (n + 1) - 1 : i \in 1 .. n - 1 \/ i = n
    OBVIOUS
  <2>4. n \in 1 .. (n + 1) - 1 /\ \A i \in 1 .. n - 1 : i \in 1 .. (n + 1) - 1
    OBVIOUS
  <2>5. \A e \in live' : \E i \in 1 .. (n + 1) - 1 : e.queue = Queues[i]
    BY <1>1, <1>3, <2>4
  <2>6. ~ shuttingDown => \A i \in 1 .. (n + 1) - 1 : \E e \in live' : e.queue = Queues[i]
    BY <1>1, <2>3 DEF ResumeOK
  <2>7. ~ shuttingDown => \A u \in Tasks \ {t} : tasks'[u].kind = "idle"
    BY <1>1, <2>1 DEF ResumeOK, Busy
  <2>8. ~ shuttingDown => \A u, w \in Tasks : Busy(u)' /\ Busy(w)' => u = w
    BY <2>7 DEF Busy
  <2>9. ASSUME NEW u \in Tasks, tasks'[u].kind = "resume"
        PROVE  u = t /\ tasks'[u].at = n + 1
    BY <2>1, <2>2, <2>9
  <2> QED
    BY <1>2, <2>5, <2>6, <2>8, <2>9 DEF ResumeOK
<1>8. ReadyMeansConsuming'
  <2> SUFFICES ASSUME ~ shuttingDown, tasks'[t].kind = "idle", NEW q \in QueueNames
               PROVE  \E e \in live' : e.queue = q
    BY <1>2 DEF ReadyMeansConsuming, Ready, Quiescent, Busy
  <2>1. n = Len(Queues)
    BY <1>1 DEF Resuming, TypeOK
  <2>2. PICK i \in 1 .. Len(Queues) : q = Queues[i]
    BY QueueFacts
  <2>3. i \in 1 .. n - 1 \/ i = n
    BY <2>1, QueueFacts
  <2> QED
    BY <1>1, <2>2, <2>3 DEF ResumeOK
<1> QED
  BY <1>5, <1>6, <1>7, <1>8

LEMMA ControlStep ==
  ASSUME ControlInv, [Next]_vars
  PROVE  ControlInv'
<1> USE DEF ControlInv
<1>1. LoopInv'
  BY LoopStep
<1>2. SUFFICES ASSUME ~ overlapped' PROVE PromptInv'
  BY <1>1
<1>3. CASE Start
  <2>1. /\ Quiescent /\ channel = <<>> /\ consumers = <<>> /\ live = {}
        /\ ~ consuming /\ ~ shuttingDown /\ ~ overlapped /\ controlState = "invalid"
    BY <1>3 DEF LoopInv, FreshStart, Start
  <2>2. /\ Main \in Tasks /\ Resume(Main, file) /\ controlState' = file
        /\ UNCHANGED <<consumers, live, shuttingDown>>
    BY <1>3, Zenon DEF Start, Tasks
  <2>3. CASE file = "clear"
    BY <2>1, <2>2, <2>3, PollPrompt DEF IsConsumptionAllowed
  <2>4. CASE file # "clear"
    <3>1. UNCHANGED <<consuming, tasks, channel>>
      BY <2>2, <2>4 DEF Resume, IsConsumptionAllowed
    <3>2. \A u \in Tasks : tasks'[u].kind = "idle"
      BY <2>1, <3>1 DEF Quiescent, Busy
    <3>3. channel' = <<>> /\ DOMAIN channel' = {}
      BY <2>1, <3>1
    <3>4. HoldOK'
      BY <2>1, <2>2, <2>4, <3>1, <3>3 DEF HoldOK
    <3> QED
      BY <2>1, <2>2, <2>4, <3>2, <3>4
      DEF PromptInv, ResumeOK, Busy, SingleConsumer, ReadyMeansConsuming, Ready, IsConsumptionAllowed
  <2> QED
    BY <2>3, <2>4
<1>4. CASE \E t \in Task : Poll(t)
  <2>1. PICK t \in Task : Poll(t)
    BY <1>4
  <2>2. /\ t \in Tasks /\ Quiescent /\ ~ overlapped
    BY <1>2, <2>1, Zenon DEF Poll, Tasks
  <2> QED
    BY <2>1, <2>2, PollPrompt DEF Poll
<1>5. CASE ConsumeOk
  BY <1>2, <1>5, ConsumePrompt DEF ConsumeOk
<1>6. CASE CancelOk
  BY <1>2, <1>6, CancelPrompt DEF CancelOk
<1>7. CASE Shutdown
  BY <1>2, <1>7, ShutdownPrompt DEF Shutdown
<1>8. CASE Exit
  <2>1. \A u \in Tasks : tasks'[u].kind = "idle"
    BY <1>8 DEF Exit, Idle
  <2>2. /\ consumers' = <<>> /\ DOMAIN channel' = {} /\ live' = {}
        /\ ~ consuming' /\ ~ shuttingDown' /\ controlState' = "invalid"
    BY <1>8 DEF Exit
  <2>3. HoldOK'
    BY <2>1, <2>2 DEF HoldOK
  <2> QED
    BY <2>1, <2>2, <2>3
    DEF PromptInv, ResumeOK, Busy, SingleConsumer, ReadyMeansConsuming, Ready, IsConsumptionAllowed
<1>9. CASE FileChanges \/ UNCHANGED vars
  <2>1. UNCHANGED <<controlState, consuming, consumers, shuttingDown, process,
                    tasks, channel, live, overlapped>>
    BY <1>9 DEF FileChanges, vars
  <2> QED
    BY <1>2, <2>1 DEF PromptInv, ResumeOK, HoldOK, Busy, SingleConsumer, ReadyMeansConsuming,
                      Ready, Quiescent
<1> QED
  BY <1>3, <1>4, <1>5, <1>6, <1>7, <1>8, <1>9 DEF Next

LEMMA ControlStart == Init => ControlInv
<1> SUFFICES ASSUME Init PROVE ControlInv
  OBVIOUS
<1>1. /\ \A u \in Tasks : tasks[u].kind = "idle"
      /\ consumers = <<>> /\ channel = <<>> /\ DOMAIN channel = {} /\ live = {}
      /\ controlState = "invalid"
  BY DEF Init, Idle
<1>2. ~ consuming /\ ~ shuttingDown /\ ~ overlapped
  BY Zenon DEF Init
<1>3. TypeOK
  <2>1. /\ consuming \in BOOLEAN /\ shuttingDown \in BOOLEAN
        /\ everClear \in BOOLEAN /\ overlapped \in BOOLEAN
    BY Zenon DEF Init
  <2>2. tasks \in [Tasks -> TaskState]
    BY TaskStates DEF Init
  <2>3. /\ consumers \in Seq(Entry) /\ DOMAIN consumers = {}
        /\ channel \in Seq(RequestRecord)
    BY <1>1
  <2>4. /\ file \in File /\ controlState \in File /\ process \in {"starting", "running"}
        /\ nextTag \in Nat /\ changes \in 0 .. ChangeBudget
    BY BudgetAssumption DEF Init, File
  <2> QED
    BY <1>1, <2>1, <2>2, <2>3, <2>4 DEF TypeOK, RequestRecord
<1>4. FreshStart /\ RequestsOK /\ Granted
  BY <1>1, <1>2 DEF FreshStart, Quiescent, Busy, RequestsOK, Granted
<1>5. HoldOK
  BY <1>1, <1>2 DEF HoldOK
<1>6. ResumeOK /\ SingleConsumer /\ ReadyMeansConsuming
  BY <1>1 DEF ResumeOK, Busy, SingleConsumer, ReadyMeansConsuming, Ready, IsConsumptionAllowed
<1> QED
  BY <1>3, <1>4, <1>5, <1>6 DEF ControlInv, LoopInv, PromptInv

(* The handlers of a backlog leave the loop alone.                         *)
LEMMA RuntimeControlled == RuntimeSpec => []ControlInv
<1>1. RuntimeInit => Init
  BY DEF RuntimeInit
<1>2. [RuntimeNext]_runtimeVars => [Next]_vars
  BY DEF RuntimeNext, runtimeVars
<1>3. ControlInv /\ [Next]_vars => ControlInv'
  BY ControlStep
<1> QED
  BY <1>1, <1>2, <1>3, ControlStart, PTL DEF RuntimeSpec

(* While no polls overlap, a worker that has acted on a hold, an invalid   *)
(* or a missing document and waits for nothing is delivered nothing; one   *)
(* that is ready and waits for nothing consumes from every queue.          *)
THEOREM PromptControl == RuntimeSpec => []PromptControlHolds
<1>1. ControlInv => PromptControlHolds
  <2> SUFFICES ASSUME ControlInv, ~ overlapped
               PROVE  HeldMeansNotConsuming /\ ReadyMeansConsuming
    BY DEF PromptControlHolds
  <2>1. HeldMeansNotConsuming
    BY DEF ControlInv, PromptInv, HoldOK, HeldMeansNotConsuming, Quiescent, Busy, IsConsumptionAllowed
  <2> QED
    BY <2>1 DEF ControlInv, PromptInv
<1> QED
  BY <1>1, RuntimeControlled, PTL

(***************************************************************************)
(* The backlog.  Its handlers are those of the delivery pipeline, seen     *)
(* after every request was answered 202: what the pipeline's proofs say of *)
(* a step of the broker or the worker holds here as well.                  *)
(***************************************************************************)
Pipeline == INSTANCE DeliveryPipelineProofs WITH
  ingest <- "up", ready <- TRUE, blocked <- FALSE,
  phase <- [m \in Message |-> "answered"], wire <- [m \in Message |-> "enqueued"],
  response <- [m \in Message |-> "202"], control <- "open", sawOpen <- [m \in Message |-> TRUE]

(* Both instances count alike.                                             *)
LEMMA SameCount == \A S : Backlog!Cardinality(S) = Pipeline!Cardinality(S)
BY DEF Backlog!Cardinality, Pipeline!Cardinality

LEMMA SameRoom == \A copy : Backlog!HasRoom(copy) <=> Pipeline!HasRoom(copy)
<1>1. /\ \A s : Backlog!MainOf(s) = Pipeline!MainOf(s)
      /\ \A s, level : Backlog!RetryOf(s, level) = Pipeline!RetryOf(s, level)
      /\ \A s : Backlog!DeadOf(s) = Pipeline!DeadOf(s)
  BY DEF Backlog!MainOf, Pipeline!MainOf, Backlog!RetryOf, Pipeline!RetryOf,
         Backlog!DeadOf, Pipeline!DeadOf
<1> QED
  BY <1>1, SameCount DEF Backlog!HasRoom, Pipeline!HasRoom

LEMMA SameCopies ==
  /\ Backlog!FreeSlot = Pipeline!FreeSlot
  /\ \A m, a : Backlog!MainCopy(m, a) = Pipeline!MainCopy(m, a)
  /\ \A m, a, r : Backlog!DeadCopy(m, a, r) = Pipeline!DeadCopy(m, a, r)
  /\ \A c : Backlog!Successor(c) = Pipeline!Successor(c)
BY DEF Backlog!FreeSlot, Pipeline!FreeSlot, Backlog!MainCopy, Pipeline!MainCopy,
       Backlog!DeadCopy, Pipeline!DeadCopy, Backlog!BrokerCopy, Pipeline!BrokerCopy,
       Backlog!Successor, Pipeline!Successor, Backlog!DeadSuccessor, Pipeline!DeadSuccessor,
       Backlog!RetryCopy, Pipeline!RetryCopy, Backlog!RetryLevel, Pipeline!RetryLevel

LEMMA SameHandlerStep ==
  ASSUME NEW c \in Copy, Backlog!HandlerStep(c)
  PROVE  Pipeline!HandlerStep(c)
<1> USE DEF Pipeline!HandlerStep
<1>1. CASE Backlog!Deliver(c)
  <2>1. \A s : Backlog!InHand(s) = Pipeline!InHand(s)
    BY DEF Backlog!InHand, Pipeline!InHand
  <2> QED
    BY <1>1, <2>1, SameCount
    DEF Backlog!Deliver, Pipeline!Deliver, Backlog!OverLimit, Pipeline!OverLimit
<1>2. CASE Backlog!OpenObserveStores(c)
  BY <1>2 DEF Backlog!OpenObserveStores, Pipeline!OpenObserveStores
<1>3. CASE Backlog!AckStored(c)
  BY <1>3, SameCopies DEF Backlog!AckStored, Pipeline!AckStored, Backlog!Acknowledge, Pipeline!Acknowledge
<1>4. CASE Backlog!RetryableFailure(c)
  BY <1>4 DEF Backlog!RetryableFailure, Pipeline!RetryableFailure,
              Backlog!CountPost, Pipeline!CountPost
<1>5. CASE Backlog!PermanentFailure(c)
  BY <1>5 DEF Backlog!PermanentFailure, Pipeline!PermanentFailure,
              Backlog!CountPost, Pipeline!CountPost
<1>6. ASSUME NEW d \in Copy, Backlog!StoreSuccessor(c, d)
      PROVE  Pipeline!StoreSuccessor(c, d)
  BY <1>6, SameRoom, SameCopies
  DEF Backlog!StoreSuccessor, Pipeline!StoreSuccessor, Backlog!Enqueue, Pipeline!Enqueue,
      Backlog!Live, Pipeline!Live, Backlog!Burying, Pipeline!Burying
<1>7. CASE Backlog!AckSucceeded(c)
  BY <1>7, SameCopies DEF Backlog!AckSucceeded, Pipeline!AckSucceeded, Backlog!Acknowledge, Pipeline!Acknowledge
<1>8. CASE Backlog!SuccessorRefused(c)
  BY <1>8, SameRoom, SameCopies
  DEF Backlog!SuccessorRefused, Pipeline!SuccessorRefused, Backlog!Refuses, Pipeline!Refuses,
      Backlog!WorkerEnds, Pipeline!WorkerEnds, Backlog!ReturnUnacked, Pipeline!ReturnUnacked,
      Backlog!Burying, Pipeline!Burying
<1> QED
  BY <1>1, <1>2, <1>3, <1>4, <1>5, <1>6, <1>7, <1>8 DEF Backlog!HandlerStep

LEMMA SameBrokerStep == Backlog!BrokerStep => Pipeline!BrokerStep
<1>1. \A c, copy : Backlog!Transfer(c, copy) => Pipeline!Transfer(c, copy)
  BY SameRoom, SameCopies DEF Backlog!Transfer, Pipeline!Transfer
<1>2. \A c \in Copy : Backlog!RetryExpires(c) => Pipeline!RetryExpires(c)
  BY <1>1, SameCopies DEF Backlog!RetryExpires, Pipeline!RetryExpires
<1>3. \A c \in Copy : Backlog!DeadLetterOverLimit(c) => Pipeline!DeadLetterOverLimit(c)
  BY <1>1, SameCopies DEF Backlog!DeadLetterOverLimit, Pipeline!DeadLetterOverLimit,
                          Backlog!OverLimit, Pipeline!OverLimit
<1>4. Backlog!AlarmChanges => Pipeline!AlarmChanges
  BY DEF Backlog!AlarmChanges, Pipeline!AlarmChanges
<1> QED
  BY <1>2, <1>3, <1>4 DEF Backlog!BrokerStep, Pipeline!BrokerStep

LEMMA SameStep == Backlog!Next => Pipeline!DeliveryStep \/ Pipeline!WorkerStops
<1>1. Backlog!WorkerStops => Pipeline!WorkerStops
  BY DEF Backlog!WorkerStops, Pipeline!WorkerStops, Backlog!Fault, Pipeline!Fault,
         Backlog!WorkerEnds, Pipeline!WorkerEnds, Backlog!ReturnUnacked, Pipeline!ReturnUnacked
<1>2. Backlog!WorkerStart => Pipeline!WorkerStart
  BY DEF Backlog!WorkerStart, Pipeline!WorkerStart
<1>3. \A s \in Signal : /\ Backlog!Subscribe(s) => Pipeline!Subscribe(s)
                        /\ Backlog!Unsubscribe(s) => Pipeline!Unsubscribe(s)
  BY DEF Backlog!Subscribe, Pipeline!Subscribe, Backlog!Unsubscribe, Pipeline!Unsubscribe
<1>4. UNCHANGED Backlog!workerVars => UNCHANGED Pipeline!workerVars
  BY DEF Backlog!workerVars, Pipeline!workerVars
<1> QED
  BY <1>1, <1>2, <1>3, <1>4, SameHandlerStep, SameBrokerStep
  DEF Backlog!Next, Backlog!DeliveryStep, Pipeline!DeliveryStep

(* Custody of the backlog: every copy is of the right type, a handler      *)
(* works only on a copy in hand, and every message has a copy somebody     *)
(* answers for, is stored, or was lost in a transfer of the broker.        *)
LEMMA BacklogStep == Pipeline!CustodyInv /\ Backlog!Next => Pipeline!CustodyInv'
<1> SUFFICES ASSUME Pipeline!CustodyInv, Backlog!Next
             PROVE  Pipeline!CustodyInv'
  OBVIOUS
<1>1. crashes' \in Nat
  <2>1. crashes \in Nat
    BY DEF Pipeline!CustodyInv, Pipeline!BrokerTypeOK
  <2>2. crashes' = crashes \/ crashes' = crashes + 1
    BY DEF Backlog!Next, Backlog!DeliveryStep, Backlog!WorkerStops, Backlog!Fault
  <2> QED
    BY <2>1, <2>2
<1>2. UNCHANGED Pipeline!ingestVars
  BY DEF Pipeline!ingestVars
<1> QED
  BY <1>1, <1>2, SameStep, BacklogAssumption, Pipeline!DeliveryPreserves

LEMMA BacklogStart == Backlog!Init => Pipeline!CustodyInv
<1> SUFFICES ASSUME Backlog!Init
             PROVE  Pipeline!CustodyInv
  OBVIOUS
<1>1. PICK slot \in [Message -> Copy] :
        /\ \A m, n \in Message : slot[m] = slot[n] => m = n
        /\ copies = [c \in Copy |->
                      IF \E m \in Message : slot[m] = c
                      THEN Backlog!MainCopy(CHOOSE m \in Message : slot[m] = c, 0)
                      ELSE Backlog!FreeSlot]
  BY DEF Backlog!Init
<1>2. 0 \in 0 .. MaxAttempts - 1 /\ "none" \in Pipeline!Reason
  BY BacklogAssumption DEF Pipeline!Reason
<1>3. /\ Pipeline!FreeSlot.place = "free" /\ Pipeline!FreeSlot.msg = NoMessage
      /\ \A m \in Message : /\ Pipeline!MainCopy(m, 0) \in Pipeline!CopyRecord
                            /\ Pipeline!MainCopy(m, 0).place = "main"
                            /\ Pipeline!MainCopy(m, 0).msg = m
  BY <1>2, BacklogAssumption, Pipeline!RecordTypes
  DEF Pipeline!FreeSlot, Pipeline!MainCopy, Pipeline!BrokerCopy
<1>4. Pipeline!FreeSlot \in Pipeline!CopyRecord
  BY BacklogAssumption
  DEF Pipeline!FreeSlot, Pipeline!BrokerCopy, Pipeline!CopyRecord, Pipeline!Place, Pipeline!Reason
<1>5. ASSUME NEW c \in Copy
      PROVE  \/ /\ copies[c] = Pipeline!FreeSlot
                /\ \A m \in Message : slot[m] # c
             \/ \E m \in Message : slot[m] = c /\ copies[c] = Pipeline!MainCopy(m, 0)
  BY <1>1, SameCopies
<1>6. Pipeline!BrokerTypeOK
  <2>1. copies \in [Copy -> Pipeline!CopyRecord]
    BY <1>1, <1>3, <1>4, <1>5
  <2>2. \A c \in Copy : Pipeline!Live(c) <=> copies[c].msg \in Message
    BY <1>3, <1>5, BacklogAssumption DEF Pipeline!Live
  <2>3. dropped = {} /\ crashes = 0
    BY DEF Backlog!Init
  <2>4. alarm \in BOOLEAN
    BY Zenon DEF Backlog!Init
  <2> QED
    BY <2>1, <2>2, <2>3, <2>4 DEF Pipeline!BrokerTypeOK
<1>7. /\ handler = [c \in Copy |-> "none"]
      /\ Pipeline!WorkerTypeOK
  BY BacklogAssumption DEF Backlog!Init, Backlog!WorkerInit, Pipeline!WorkerTypeOK, Pipeline!Handler
<1>8. Pipeline!HandlersOK
  BY <1>7 DEF Pipeline!HandlersOK
<1>9. Pipeline!Custody
  <2>1. \A m \in Message : copies[slot[m]].msg = m /\ slot[m] \in Copy
    BY <1>1, <1>3, <1>5
  <2> QED
    BY <1>7, <2>1 DEF Pipeline!Custody, Pipeline!Held
<1> QED
  BY <1>6, <1>7, <1>8, <1>9 DEF Pipeline!CustodyInv

LEMMA BacklogInCustody == RuntimeSpec => []Pipeline!CustodyInv
<1>1. RuntimeInit => Pipeline!CustodyInv
  BY BacklogStart DEF RuntimeInit
<1>2. Pipeline!CustodyInv /\ [RuntimeNext]_runtimeVars => Pipeline!CustodyInv'
  <2>1. Pipeline!CustodyInv /\ UNCHANGED backlogVars => Pipeline!CustodyInv'
    BY DEF backlogVars, Pipeline!CustodyInv, Pipeline!BrokerTypeOK, Pipeline!WorkerTypeOK,
           Pipeline!HandlersOK, Pipeline!Custody, Pipeline!Held, Pipeline!HasCopy, Pipeline!Live
  <2> QED
    BY <2>1, BacklogStep DEF RuntimeNext, runtimeVars
<1> QED
  BY <1>1, <1>2, PTL DEF RuntimeSpec

(* Consumption begins only after some poll has read an explicit            *)
(* hold=false, however polls overlap, and while they do not no queue has   *)
(* two consumers.                                                          *)
THEOREM ConsumersSound == RuntimeSpec => []ConsumersOK
<1>1. ControlInv => TypeOK /\ NeverConsumesUnevaluated /\ SingleConsumer
  BY DEF ControlInv, LoopInv, PromptInv, Granted, NeverConsumesUnevaluated, SingleConsumer
<1>2. Pipeline!CustodyInv => Backlog!TypeOK
  BY DEF Pipeline!CustodyInv, Pipeline!BrokerTypeOK, Backlog!BrokerTypeOK,
         Pipeline!WorkerTypeOK, Backlog!WorkerTypeOK, Backlog!TypeOK, Pipeline!Live, Backlog!Live,
         Pipeline!CopyRecord, Backlog!CopyRecord, Pipeline!Place, Backlog!Place,
         Pipeline!Reason, Backlog!Reason, Pipeline!Handler, Backlog!Handler
<1> QED
  BY <1>1, <1>2, RuntimeControlled, BacklogInCustody, PTL DEF ConsumersOK, RuntimeTypeOK
=============================================================================
