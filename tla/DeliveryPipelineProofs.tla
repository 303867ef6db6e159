----------------------- MODULE DeliveryPipelineProofs -----------------------
(***************************************************************************)
(* For every set of requests, every pool of copies and every limit: the    *)
(* pipeline is type-correct, accepts only what is durable, never loses     *)
(* what is durable, publishes nothing while collection is closed, and      *)
(* implements at-least-once delivery.                                      *)
(*                                                                         *)
(* The admission half of the invariant moves only with ingestVars and the  *)
(* custody half with the copies; the lemmas take them one at a time.       *)
(***************************************************************************)
EXTENDS DeliveryPipeline, TLAPS

(***************************************************************************)
(* The admission service.                                                  *)
(***************************************************************************)
AdmissionInv == IngestTypeOK /\ AdmissionOK

(* Steps of the service that involve neither the broker nor a failure.     *)
LEMMA AdmissionRequestStep ==
  ASSUME AdmissionInv, NEW m \in Message,
         \/ Arrive(m) \/ CheckControl(m) \/ Publish(m)
         \/ Confirm(m) \/ ConfirmTimeout(m) \/ BrokerRefusesPublish(m)
  PROVE  AdmissionInv'
<1> USE DEF AdmissionInv, IngestTypeOK, AdmissionOK, InFlight, Answer,
            RejectRequest, RejectPayload, Phase, Wire, Response, Control
<1>1. CASE Arrive(m)
  BY <1>1 DEF Arrive
<1>2. CASE CheckControl(m)
  BY <1>2 DEF CheckControl
<1>3. CASE Publish(m)
  BY <1>3 DEF Publish
<1>4. CASE Confirm(m)
  BY <1>4 DEF Confirm
<1>5. CASE ConfirmTimeout(m)
  BY <1>5 DEF ConfirmTimeout
<1>6. CASE BrokerRefusesPublish(m)
  BY <1>6 DEF BrokerRefusesPublish
<1> QED
  BY <1>1, <1>2, <1>3, <1>4, <1>5, <1>6

LEMMA AdmissionServiceStep ==
  ASSUME AdmissionInv, alarm \in BOOLEAN,
         \/ ObserveAlarm \/ Shutdown \/ ShutdownCompletes \/ ShutdownTimeout
         \/ IngestStart \/ ControlChanges \/ IngestCrash \/ ConnectionLostWhileClosing
  PROVE  AdmissionInv'
<1> USE DEF AdmissionInv, IngestTypeOK, AdmissionOK, InFlight,
            Phase, Wire, Response, Control
<1>1. CASE ObserveAlarm
  BY <1>1 DEF ObserveAlarm
<1>2. CASE Shutdown
  BY <1>2 DEF Shutdown
<1>3. CASE ProcessEnds
  BY <1>3 DEF ProcessEnds
<1>4. CASE IngestStart
  BY <1>4 DEF IngestStart
<1>5. CASE ControlChanges
  BY <1>5 DEF ControlChanges
<1>6. CASE ConnectionLostWhileClosing
  BY <1>6 DEF ConnectionLostWhileClosing
<1> QED
  BY <1>1, <1>2, <1>3, <1>4, <1>5, <1>6 DEF ShutdownCompletes, ShutdownTimeout, IngestCrash

LEMMA AdmissionStoreStep ==
  ASSUME AdmissionInv, NEW m \in Message, NEW c \in Copy, BrokerStoresPublish(m, c)
  PROVE  AdmissionInv'
BY DEF BrokerStoresPublish, AdmissionInv, IngestTypeOK, AdmissionOK, InFlight,
       Phase, Wire, Response, Control

(***************************************************************************)
(* The copies and their handlers.                                          *)
(***************************************************************************)
CustodyInv == BrokerTypeOK /\ WorkerTypeOK /\ HandlersOK /\ Custody

(* What the broker stores is a record of the right type.                   *)
LEMMA RecordTypes ==
  ASSUME NEW m \in Message, NEW a \in 0 .. MaxAttempts - 1, NEW r \in Reason
  PROVE  /\ FreeSlot \in CopyRecord
         /\ MainCopy(m, a) \in CopyRecord
         /\ RetryCopy(m, a) \in CopyRecord
         /\ DeadCopy(m, a, r) \in CopyRecord
<1>1. 0 \in 0 .. MaxAttempts - 1 /\ 0 \in 0 .. RetryLevels
  BY LimitAssumption
<1>2. RetryLevel(a) \in 0 .. RetryLevels
  BY LimitAssumption DEF RetryLevel
<1>3. \A p \in Place, n \in Message \cup {NoMessage}, l \in 0 .. RetryLevels,
         b \in 0 .. MaxAttempts - 1, q \in Reason :
        BrokerCopy(p, n, b, l, q) \in CopyRecord
  BY DEF BrokerCopy, CopyRecord
<1> QED
  BY <1>1, <1>2, <1>3 DEF FreeSlot, MainCopy, RetryCopy, DeadCopy, Place, Reason

(* What the broker stores for a handler is a live copy of its message.     *)
LEMMA SuccessorType ==
  ASSUME BrokerTypeOK, HandlersOK, NEW c \in Copy,
         handler[c] \in {"retrying"} \cup Burying
  PROVE  /\ Successor(c) \in CopyRecord
         /\ Successor(c).place \in {"retry", "dlq"}
         /\ Successor(c).msg = copies[c].msg
         /\ copies[c].msg \in Message
<1>1. /\ copies[c] \in CopyRecord
      /\ copies[c].place = "unacked"
      /\ copies[c].msg \in Message
      /\ copies[c].attempts \in 0 .. MaxAttempts - 1
  BY DEF BrokerTypeOK, HandlersOK, CopyRecord, Live, Burying
<1>2. CASE handler[c] = "retrying"
  <2>1. copies[c].attempts + 1 \in 0 .. MaxAttempts - 1
    BY <1>1, <1>2, LimitAssumption DEF HandlersOK
  <2>2. RetryCopy(copies[c].msg, copies[c].attempts + 1) \in CopyRecord
    BY <1>1, <2>1, RecordTypes DEF Reason
  <2> QED
    BY <1>1, <1>2, <2>2 DEF Successor, RetryCopy, BrokerCopy
<1>3. CASE handler[c] \in Burying
  <2>1. \A r \in Reason : DeadCopy(copies[c].msg, copies[c].attempts, r) \in CopyRecord
    BY <1>1, RecordTypes
  <2> QED
    BY <1>1, <1>3, <2>1 DEF Successor, DeadSuccessor, DeadCopy, BrokerCopy, Burying, Reason
<1> QED
  BY <1>2, <1>3

(* What the copies and handlers rest on, besides the admission state: a    *)
(* publish of the ingest is never taken back, and crashes are counted.     *)
Frame == /\ \A m \in Message : wire'[m] = "enqueued" => wire[m] = "enqueued"
         /\ crashes' \in Nat

(* An acknowledgement is harmless once the message is stored or the copy   *)
(* is one that somebody else answers for.                                  *)
LEMMA AckStep ==
  ASSUME CustodyInv, Frame, NEW c \in Copy, AckStored(c) \/ AckSucceeded(c)
  PROVE  CustodyInv'
<1>1. /\ copies' = [copies EXCEPT ![c] = FreeSlot]
      /\ handler' = [handler EXCEPT ![c] = "none"]
      /\ UNCHANGED <<dropped, alarm, worker, subscribed, stored, posts>>
      /\ handler[c] \in {"stored", "confirmed"}
  BY DEF AckStored, AckSucceeded, Acknowledge
<1>2. copies[c].msg \in Message /\ (handler[c] = "stored" => copies[c].msg \in stored)
  BY <1>1 DEF CustodyInv, BrokerTypeOK, HandlersOK, Live
<1>3. FreeSlot \in CopyRecord /\ FreeSlot.place = "free" /\ FreeSlot.msg = NoMessage
  BY <1>2, LimitAssumption, RecordTypes DEF FreeSlot, BrokerCopy, Reason
<1>4. BrokerTypeOK'
  BY <1>1, <1>3, NoMessageAssumption DEF CustodyInv, BrokerTypeOK, Live, Frame
<1>5. WorkerTypeOK'
  BY <1>1 DEF CustodyInv, WorkerTypeOK, Handler
<1>6. HandlersOK'
  BY <1>1 DEF CustodyInv, BrokerTypeOK, WorkerTypeOK, HandlersOK
<1>7. ASSUME NEW m \in Message, (wire[m] = "enqueued" \/ HasCopy(m))'
      PROVE  Held(m)'
  <2>1. wire[m] = "enqueued" \/ HasCopy(m)
    BY <1>1, <1>3, <1>7, NoMessageAssumption DEF HasCopy, Frame, CustodyInv, BrokerTypeOK
  <2>2. Held(m)
    BY <2>1 DEF CustodyInv, Custody
  <2> QED
    BY <1>1, <1>2, <2>2 DEF Held, CustodyInv, BrokerTypeOK, WorkerTypeOK
<1> QED
  BY <1>4, <1>5, <1>6, <1>7 DEF CustodyInv, Custody

(* A delivered copy keeps its message; its handler starts afresh.          *)
LEMMA DeliverStep ==
  ASSUME CustodyInv, Frame, NEW c \in Copy, Deliver(c)
  PROVE  CustodyInv'
<1>1. /\ copies[c].place = "main" /\ copies[c] \in CopyRecord
      /\ copies' = [copies EXCEPT ![c].place = "unacked"]
      /\ \E h \in {"burying_payload", "posting"} : handler' = [handler EXCEPT ![c] = h]
      /\ UNCHANGED <<dropped, alarm, worker, subscribed, stored, posts>>
  BY DEF Deliver, CustodyInv, BrokerTypeOK
<1>2. [copies[c] EXCEPT !.place = "unacked"] \in CopyRecord
  BY <1>1 DEF CopyRecord, Place
<1>3. /\ \A d \in Copy : copies'[d].msg = copies[d].msg
      /\ \A d \in Copy : handler'[d] = "confirmed" => handler[d] = "confirmed"
  BY <1>1 DEF CustodyInv, BrokerTypeOK, WorkerTypeOK, CopyRecord
<1>4. BrokerTypeOK'
  BY <1>1, <1>2 DEF CustodyInv, BrokerTypeOK, CopyRecord, Live, Frame
<1>5. WorkerTypeOK'
  BY <1>1 DEF CustodyInv, WorkerTypeOK, Handler
<1>6. HandlersOK'
  BY <1>1 DEF CustodyInv, BrokerTypeOK, WorkerTypeOK, HandlersOK, CopyRecord
<1>7. Custody'
  BY <1>1, <1>3 DEF CustodyInv, Custody, Held, HasCopy, Frame
<1> QED
  BY <1>4, <1>5, <1>6, <1>7 DEF CustodyInv

(* Steps of a handler that only decide what to do with its copy.           *)
LEMMA DecisionStep ==
  ASSUME CustodyInv, Frame, NEW c \in Copy,
         OpenObserveStores(c) \/ RetryableFailure(c) \/ PermanentFailure(c)
  PROVE  CustodyInv'
<1>1. /\ handler[c] \in {"posting", "stored"}
      /\ UNCHANGED <<copies, dropped, alarm, worker, subscribed>>
  BY DEF OpenObserveStores, RetryableFailure, PermanentFailure
<1>2. copies[c].msg \in Message /\ copies[c].attempts \in Nat
  BY <1>1, LimitAssumption DEF CustodyInv, BrokerTypeOK, HandlersOK, Live, CopyRecord
<1>3. \E h \in {"stored", "retrying", "burying_limit", "burying_rejected"} :
        /\ handler' = [handler EXCEPT ![c] = h]
        /\ h = "retrying" => copies[c].attempts + 1 < MaxAttempts
        /\ h = "stored" => copies[c].msg \in stored'
        /\ stored \subseteq stored' /\ stored' \subseteq Message
        /\ posts' \in [Message -> 0 .. MaxAttempts]
  <2>1. CASE OpenObserveStores(c)
    BY <1>2, <2>1 DEF OpenObserveStores, CustodyInv, WorkerTypeOK
  <2>2. CASE RetryableFailure(c)
    <3>1. posts' \in [Message -> 0 .. MaxAttempts] /\ UNCHANGED stored
      BY <1>2, <2>2, LimitAssumption DEF RetryableFailure, CountPost, CustodyInv, WorkerTypeOK
    <3>2. CASE copies[c].attempts + 1 < MaxAttempts
      BY <2>2, <3>1, <3>2 DEF RetryableFailure, CustodyInv, WorkerTypeOK
    <3>3. CASE ~ (copies[c].attempts + 1 < MaxAttempts)
      BY <2>2, <3>1, <3>3 DEF RetryableFailure, CustodyInv, WorkerTypeOK
    <3> QED
      BY <3>2, <3>3
  <2>3. CASE PermanentFailure(c)
    BY <1>2, <2>3, LimitAssumption DEF PermanentFailure, CountPost, CustodyInv, WorkerTypeOK
  <2> QED
    BY <2>1, <2>2, <2>3
<1>4. BrokerTypeOK'
  BY <1>1 DEF CustodyInv, BrokerTypeOK, Live, Frame
<1>5. WorkerTypeOK'
  BY <1>1, <1>3 DEF CustodyInv, WorkerTypeOK, Handler
<1>6. HandlersOK'
  BY <1>1, <1>3 DEF CustodyInv, WorkerTypeOK, HandlersOK
<1>7. Custody'
  BY <1>1, <1>3 DEF CustodyInv, WorkerTypeOK, Custody, Held, HasCopy, Frame
<1> QED
  BY <1>4, <1>5, <1>6, <1>7 DEF CustodyInv

(* A confirmed successor is a new copy in a slot that was free: it takes   *)
(* over from the copy that is about to be acknowledged.                    *)
LEMMA SuccessorStep ==
  ASSUME CustodyInv, Frame, NEW c \in Copy, NEW d \in Copy, StoreSuccessor(c, d)
  PROVE  CustodyInv'
<1>1. /\ handler[c] \in {"retrying"} \cup Burying
      /\ ~ Live(d)
      /\ copies' = [copies EXCEPT ![d] = Successor(c)]
      /\ handler' = [handler EXCEPT ![c] = "confirmed"]
      /\ UNCHANGED <<dropped, alarm, worker, subscribed, stored, posts>>
  BY DEF StoreSuccessor, Enqueue
<1>2. /\ Successor(c) \in CopyRecord
      /\ Successor(c).place # "free"
      /\ Successor(c).msg = copies[c].msg
      /\ copies[c].msg \in Message
  BY <1>1, SuccessorType DEF CustodyInv
<1>3. handler[d] = "none" /\ handler[c] # "none" /\ d # c
  BY <1>1 DEF CustodyInv, HandlersOK, Live, Burying
<1>4. BrokerTypeOK'
  BY <1>1, <1>2 DEF CustodyInv, BrokerTypeOK, Live, Frame
<1>5. WorkerTypeOK'
  BY <1>1 DEF CustodyInv, WorkerTypeOK, Handler
<1>6. HandlersOK'
  BY <1>1, <1>3 DEF CustodyInv, BrokerTypeOK, WorkerTypeOK, HandlersOK
<1>7. ASSUME NEW m \in Message, (wire[m] = "enqueued" \/ HasCopy(m))'
      PROVE  Held(m)'
  <2>1. CASE m = copies[c].msg
    BY <1>1, <1>2, <1>3, <2>1 DEF Held, CustodyInv, BrokerTypeOK, WorkerTypeOK
  <2>2. CASE m # copies[c].msg
    <3>1. wire[m] = "enqueued" \/ HasCopy(m)
      BY <1>1, <1>2, <1>7, <2>2 DEF HasCopy, Frame, CustodyInv, BrokerTypeOK
    <3>2. Held(m)
      BY <3>1 DEF CustodyInv, Custody
    <3> QED
      BY <1>1, <1>2, <1>3, <2>2, <3>2 DEF Held, CustodyInv, BrokerTypeOK, WorkerTypeOK, Live
  <2> QED
    BY <2>1, <2>2
<1> QED
  BY <1>4, <1>5, <1>6, <1>7 DEF CustodyInv, Custody

(* When the process ends nobody acknowledges anything any more: every copy *)
(* is held by a queue again.                                               *)
LEMMA WorkerEndsStep ==
  ASSUME CustodyInv, Frame, WorkerEnds
  PROVE  CustodyInv'
<1>1. /\ copies' = [c \in Copy |-> IF copies[c].place = "unacked"
                                   THEN [copies[c] EXCEPT !.place = "main", !.returns = @ + 1]
                                   ELSE copies[c]]
      /\ handler' = [c \in Copy |-> "none"]
      /\ UNCHANGED <<dropped, alarm, stored, posts>>
  BY DEF WorkerEnds, ReturnUnacked
<1>2. ASSUME NEW c \in Copy
      PROVE  /\ copies'[c] \in CopyRecord
             /\ copies'[c].msg = copies[c].msg
             /\ copies'[c].place = "free" <=> copies[c].place = "free"
             /\ copies'[c].attempts = copies[c].attempts
             /\ handler'[c] = "none"
  <2>1. copies[c] \in CopyRecord
    BY DEF CustodyInv, BrokerTypeOK
  <2>2. CASE copies[c].place = "unacked"
    <3>1. copies'[c] = [copies[c] EXCEPT !.place = "main", !.returns = @ + 1]
      BY <1>1, <2>2
    <3>2. /\ copies'[c].place = "main" /\ copies'[c].msg = copies[c].msg
          /\ copies'[c].attempts = copies[c].attempts
      BY <2>1, <3>1 DEF CopyRecord
    <3>3. copies'[c] \in CopyRecord
      <4>1. copies[c].returns + 1 \in Nat /\ "main" \in Place
        BY <2>1 DEF CopyRecord, Place
      <4>2. \A n \in Nat, p \in Place :
              [copies[c] EXCEPT !.place = p, !.returns = n] \in CopyRecord
        BY <2>1 DEF CopyRecord
      <4> QED
        BY <3>1, <4>1, <4>2
    <3> QED
      BY <1>1, <2>2, <3>2, <3>3
  <2>3. CASE copies[c].place # "unacked"
    BY <1>1, <2>1, <2>3
  <2> QED
    BY <2>2, <2>3
<1>3. BrokerTypeOK'
  <2>1. copies' \in [Copy -> CopyRecord]
    <3>1. copies' = [c \in Copy |-> copies'[c]]
      BY <1>1
    <3> QED
      BY <1>2, <3>1
  <2> QED
    BY <1>1, <1>2, <2>1 DEF CustodyInv, BrokerTypeOK, Live, Frame
<1>4. WorkerTypeOK'
  BY <1>1 DEF WorkerEnds, CustodyInv, WorkerTypeOK, Handler
<1>5. HandlersOK'
  BY <1>2 DEF HandlersOK
<1>6. ASSUME NEW m \in Message, (wire[m] = "enqueued" \/ HasCopy(m))'
      PROVE  Held(m)'
  <2>1. wire[m] = "enqueued" \/ HasCopy(m)
    BY <1>2, <1>6 DEF HasCopy, Frame
  <2>2. Held(m)
    BY <2>1 DEF CustodyInv, Custody
  <2> QED
    BY <1>1, <1>2, <2>2 DEF Held
<1> QED
  BY <1>3, <1>4, <1>5, <1>6 DEF CustodyInv, Custody

(* Starting, subscribing and the alarm concern neither copies nor handlers.*)
LEMMA QuietStep ==
  ASSUME CustodyInv, Frame, UNCHANGED <<copies, dropped, handler, stored, posts>>,
         alarm' \in BOOLEAN, worker' \in {"up", "down"}, subscribed' \subseteq Signal
  PROVE  CustodyInv'
<1>1. BrokerTypeOK'
  BY DEF CustodyInv, BrokerTypeOK, Live, Frame
<1>2. WorkerTypeOK'
  BY DEF CustodyInv, WorkerTypeOK
<1>3. HandlersOK'
  BY DEF CustodyInv, HandlersOK
<1>4. Custody'
  BY DEF CustodyInv, Custody, Held, HasCopy, Frame
<1> QED
  BY <1>1, <1>2, <1>3, <1>4 DEF CustodyInv

(* A transfer inside the broker moves a copy no handler has, or records    *)
(* its loss.                                                               *)
LEMMA TransferStep ==
  ASSUME CustodyInv, Frame, UNCHANGED workerVars, NEW c \in Copy,
         RetryExpires(c) \/ DeadLetterOverLimit(c)
  PROVE  CustodyInv'
<1>1. copies[c].place \in {"retry", "main"}
  BY DEF RetryExpires, DeadLetterOverLimit, OverLimit
<1>2. /\ copies[c].msg \in Message /\ handler[c] = "none"
      /\ copies[c].attempts \in 0 .. MaxAttempts - 1
  BY <1>1 DEF CustodyInv, BrokerTypeOK, HandlersOK, Live, CopyRecord
<1>3. /\ FreeSlot \in CopyRecord /\ FreeSlot.place = "free" /\ FreeSlot.msg = NoMessage
      /\ MainCopy(copies[c].msg, copies[c].attempts) \in CopyRecord
      /\ DeadCopy(copies[c].msg, copies[c].attempts, "delivery_limit") \in CopyRecord
  <2>1. "delivery_limit" \in Reason
    BY DEF Reason
  <2> QED
    BY <1>2, <2>1, RecordTypes DEF FreeSlot, BrokerCopy
<1>4. PICK copy \in CopyRecord : /\ Transfer(c, copy)
                                 /\ copy.msg = copies[c].msg /\ copy.place # "free"
  <2>1. CASE RetryExpires(c)
    BY <1>3, <2>1 DEF RetryExpires, MainCopy, BrokerCopy
  <2>2. CASE DeadLetterOverLimit(c)
    BY <1>3, <2>2 DEF DeadLetterOverLimit, DeadCopy, BrokerCopy
  <2> QED
    BY <2>1, <2>2
<1>5. UNCHANGED <<worker, subscribed, handler, stored, posts>>
  BY DEF workerVars
<1>6. WorkerTypeOK'
  BY <1>5 DEF CustodyInv, WorkerTypeOK
<1>7. CASE copies' = [copies EXCEPT ![c] = copy] /\ UNCHANGED <<dropped, alarm>>
  <2>1. BrokerTypeOK'
    BY <1>2, <1>4, <1>7 DEF CustodyInv, BrokerTypeOK, Live, Frame
  <2>2. HandlersOK'
    BY <1>2, <1>5, <1>7 DEF CustodyInv, BrokerTypeOK, HandlersOK
  <2>3. \A d \in Copy : copies'[d].msg = copies[d].msg
    BY <1>4, <1>7 DEF CustodyInv, BrokerTypeOK
  <2>4. Custody'
    BY <1>5, <1>7, <2>3 DEF CustodyInv, Custody, Held, HasCopy, Frame
  <2> QED
    BY <1>6, <2>1, <2>2, <2>4 DEF CustodyInv
<1>8. CASE /\ copies' = [copies EXCEPT ![c] = FreeSlot]
           /\ dropped' = dropped \cup {copies[c].msg} /\ UNCHANGED alarm
  <2>1. BrokerTypeOK'
    BY <1>2, <1>3, <1>8, NoMessageAssumption DEF CustodyInv, BrokerTypeOK, Live, Frame
  <2>2. HandlersOK'
    BY <1>2, <1>5, <1>8 DEF CustodyInv, BrokerTypeOK, HandlersOK
  <2>3. \A d \in Copy : /\ d # c => copies'[d].msg = copies[d].msg
                        /\ d = c => copies'[d].msg = NoMessage
    BY <1>3, <1>8 DEF CustodyInv, BrokerTypeOK
  <2>4. ASSUME NEW m \in Message, (wire[m] = "enqueued" \/ HasCopy(m))'
        PROVE  Held(m)'
    <3>1. wire[m] = "enqueued" \/ HasCopy(m)
      BY <2>3, <2>4, NoMessageAssumption DEF HasCopy, Frame
    <3>2. Held(m)
      BY <3>1 DEF CustodyInv, Custody
    <3> QED
      BY <1>5, <1>8, <2>3, <3>2 DEF Held
  <2> QED
    BY <1>6, <2>1, <2>2, <2>4 DEF CustodyInv, Custody
<1> QED
  BY <1>4, <1>7, <1>8 DEF Transfer

(* A publish of the ingest is stored in a slot that was free.              *)
LEMMA StoreStep ==
  ASSUME CustodyInv, crashes' \in Nat, UNCHANGED workerVars,
         wire \in [Message -> Wire], NEW m \in Message, NEW c \in Copy, BrokerStoresPublish(m, c)
  PROVE  CustodyInv'
<1>1. /\ ~ Live(c)
      /\ copies' = [copies EXCEPT ![c] = MainCopy(m, 0)]
      /\ UNCHANGED <<dropped, alarm>>
      /\ UNCHANGED <<worker, subscribed, handler, stored, posts>>
      /\ \A n \in Message : n # m => wire'[n] = wire[n]
  BY DEF BrokerStoresPublish, Enqueue, workerVars
<1>2. /\ MainCopy(m, 0) \in CopyRecord
      /\ MainCopy(m, 0).place = "main" /\ MainCopy(m, 0).msg = m
  <2>1. 0 \in 0 .. MaxAttempts - 1 /\ "none" \in Reason
    BY LimitAssumption DEF Reason
  <2> QED
    BY <2>1, RecordTypes DEF MainCopy, BrokerCopy
<1>3. handler[c] = "none" /\ copies[c].msg \notin Message
  BY <1>1 DEF CustodyInv, HandlersOK, BrokerTypeOK, Live
<1>4. BrokerTypeOK'
  BY <1>1, <1>2 DEF CustodyInv, BrokerTypeOK, Live
<1>5. WorkerTypeOK'
  BY <1>1 DEF CustodyInv, WorkerTypeOK
<1>6. HandlersOK'
  BY <1>1, <1>3 DEF CustodyInv, BrokerTypeOK, HandlersOK
<1>7. ASSUME NEW n \in Message, (wire[n] = "enqueued" \/ HasCopy(n))'
      PROVE  Held(n)'
  <2>1. CASE n = m
    BY <1>1, <1>2, <1>3, <2>1 DEF Held, CustodyInv, BrokerTypeOK
  <2>2. CASE n # m
    <3>1. wire[n] = "enqueued" \/ HasCopy(n)
      BY <1>1, <1>2, <1>7, <2>2 DEF HasCopy, CustodyInv, BrokerTypeOK
    <3>2. Held(n)
      BY <3>1 DEF CustodyInv, Custody
    <3> QED
      BY <1>1, <1>3, <2>2, <3>2 DEF Held, CustodyInv, BrokerTypeOK
  <2> QED
    BY <2>1, <2>2
<1> QED
  BY <1>4, <1>5, <1>6, <1>7 DEF CustodyInv, Custody

(***************************************************************************)
(* The whole pipeline.                                                     *)
(***************************************************************************)

(* Nothing but the broker's confirm makes a publish enqueued.              *)
LEMMA IngestKeepsWire ==
  ASSUME IngestTypeOK, IngestStep \/ IngestFault
  PROVE  \A m \in Message : wire'[m] = "enqueued" => wire[m] = "enqueued"
<1> USE DEF IngestTypeOK, Wire
<1>1. CASE UNCHANGED wire
  BY <1>1
<1>2. ASSUME NEW m \in Message, Publish(m)
      PROVE  \A n \in Message : wire'[n] = "enqueued" => wire[n] = "enqueued"
  BY <1>2 DEF Publish
<1>3. ASSUME NEW m \in Message, BrokerRefusesPublish(m)
      PROVE  \A n \in Message : wire'[n] = "enqueued" => wire[n] = "enqueued"
  BY <1>3 DEF BrokerRefusesPublish
<1>4. CASE ProcessEnds
  BY <1>4 DEF ProcessEnds
<1>5. CASE ConnectionLostWhileClosing
  BY <1>5 DEF ConnectionLostWhileClosing
<1>6. CASE IngestStep
  <2>1. \/ UNCHANGED wire \/ ProcessEnds
        \/ \E m \in Message : Publish(m) \/ BrokerRefusesPublish(m)
    BY <1>6 DEF IngestStep, Arrive, CheckControl, Confirm, ConfirmTimeout, ObserveAlarm,
                Shutdown, ShutdownCompletes, ShutdownTimeout, IngestStart, ControlChanges
  <2> QED
    BY <2>1, <1>1, <1>2, <1>3, <1>4
<1> QED
  BY <1>4, <1>5, <1>6 DEF IngestFault, IngestCrash

(* The two halves of the inductive invariant.                              *)
LEMMA Halves == IInv <=> AdmissionInv /\ CustodyInv
BY DEF IInv, TypeOK, AdmissionInv, CustodyInv

(* Nothing is admitted, stored or in hand when the system starts.          *)
LEMMA InitIInv == Init => IInv
<1> SUFFICES ASSUME Init PROVE IInv
  OBVIOUS
<1> USE DEF Init, BrokerInit, IngestInit, WorkerInit
<1>1. FreeSlot \in CopyRecord /\ FreeSlot.place = "free" /\ FreeSlot.msg = NoMessage
  BY LimitAssumption DEF FreeSlot, BrokerCopy, CopyRecord, Place, Reason
<1>2. BrokerTypeOK
  BY <1>1, NoMessageAssumption DEF BrokerTypeOK, Live
<1>3. IngestTypeOK
  BY DEF IngestTypeOK, Phase, Wire, Response, Control
<1>4. WorkerTypeOK
  BY LimitAssumption DEF WorkerTypeOK, Handler
<1>5. HandlersOK
  BY DEF HandlersOK
<1>6. Custody
  BY <1>1, NoMessageAssumption DEF Custody, HasCopy
<1>7. AdmissionOK
  BY DEF AdmissionOK, InFlight
<1> QED
  BY <1>2, <1>3, <1>4, <1>5, <1>6, <1>7 DEF IInv, TypeOK

(* A step of the admission service alone, or its failure.                  *)
LEMMA IngestPreserves ==
  ASSUME AdmissionInv, CustodyInv, crashes' \in Nat,
         IngestStep \/ IngestFault, UNCHANGED <<brokerVars, workerVars>>
  PROVE  AdmissionInv' /\ CustodyInv'
<1>1. alarm \in BOOLEAN
  BY DEF CustodyInv, BrokerTypeOK
<1>2. AdmissionInv'
  BY <1>1, AdmissionRequestStep, AdmissionServiceStep DEF IngestStep, IngestFault
<1>3. Frame
  BY IngestKeepsWire DEF Frame, AdmissionInv
<1>4. /\ UNCHANGED <<copies, dropped, handler, stored, posts>>
      /\ UNCHANGED <<alarm, worker, subscribed>>
  BY DEF brokerVars, workerVars
<1>5. alarm' \in BOOLEAN /\ worker' \in {"up", "down"} /\ subscribed' \subseteq Signal
  BY <1>4 DEF CustodyInv, BrokerTypeOK, WorkerTypeOK
<1> QED
  BY <1>2, <1>3, <1>4, <1>5, QuietStep

(* A step of the worker or of the broker's timers, or the worker's end.    *)
LEMMA DeliveryPreserves ==
  ASSUME CustodyInv, UNCHANGED ingestVars, crashes' \in Nat, DeliveryStep \/ WorkerStops
  PROVE  CustodyInv'
<1>1. Frame
  BY DEF Frame, ingestVars
<1>2. ASSUME NEW c \in Copy, HandlerStep(c)
      PROVE  CustodyInv'
  BY <1>1, <1>2, DeliverStep, DecisionStep, AckStep, SuccessorStep, WorkerEndsStep
     DEF HandlerStep, SuccessorRefused
<1>3. CASE WorkerStart
  BY <1>1, <1>3, QuietStep DEF WorkerStart, CustodyInv, BrokerTypeOK, WorkerTypeOK
<1>4. ASSUME NEW s \in Signal, Subscribe(s) \/ Unsubscribe(s)
      PROVE  CustodyInv'
  BY <1>1, <1>4, QuietStep DEF Subscribe, Unsubscribe, CustodyInv, BrokerTypeOK, WorkerTypeOK
<1>5. CASE AlarmChanges /\ UNCHANGED workerVars
  BY <1>1, <1>5, QuietStep DEF AlarmChanges, workerVars, CustodyInv, BrokerTypeOK, WorkerTypeOK
<1>6. CASE BrokerStep /\ UNCHANGED workerVars
  BY <1>1, <1>5, <1>6, TransferStep DEF BrokerStep
<1>7. CASE WorkerStops
  BY <1>1, <1>7, WorkerEndsStep DEF WorkerStops
<1> QED
  BY <1>2, <1>3, <1>4, <1>6, <1>7 DEF DeliveryStep

(* The invariant is inductive.                                             *)
LEMMA NextIInv == IInv /\ [Next]_vars => IInv'
<1> SUFFICES ASSUME AdmissionInv, CustodyInv, [Next]_vars
             PROVE  AdmissionInv' /\ CustodyInv'
  BY Halves DEF IInv, TypeOK, AdmissionInv, CustodyInv
<1>1. crashes \in Nat /\ (Fault => crashes' \in Nat)
  BY DEF CustodyInv, BrokerTypeOK, Fault
<1>2. ASSUME UNCHANGED ingestVars
      PROVE  AdmissionInv'
  BY <1>2 DEF ingestVars, AdmissionInv, IngestTypeOK, AdmissionOK, InFlight
<1>3. CASE IngestStep /\ UNCHANGED <<brokerVars, workerVars, crashes>>
  BY <1>1, <1>3, IngestPreserves
<1>4. CASE IngestFault /\ UNCHANGED <<brokerVars, workerVars>>
  BY <1>1, <1>4, IngestPreserves DEF IngestFault, IngestCrash, ConnectionLostWhileClosing
<1>5. ASSUME NEW m \in Message, NEW c \in Copy,
             BrokerStoresPublish(m, c), UNCHANGED <<workerVars, crashes>>
      PROVE  AdmissionInv' /\ CustodyInv'
  BY <1>1, <1>5, AdmissionStoreStep, StoreStep DEF AdmissionInv, IngestTypeOK
<1>6. CASE DeliveryStep /\ UNCHANGED ingestVars
  BY <1>1, <1>2, <1>6, DeliveryPreserves DEF DeliveryStep
<1>7. CASE WorkerStops /\ UNCHANGED ingestVars
  BY <1>1, <1>2, <1>7, DeliveryPreserves DEF WorkerStops
<1>8. CASE UNCHANGED vars
  <2>1. UNCHANGED ingestVars /\ UNCHANGED <<copies, dropped, alarm, crashes, worker, subscribed,
                                            handler, stored, posts>>
    BY <1>8 DEF vars, brokerVars, workerVars
  <2>2. Frame
    BY <1>1, <2>1 DEF Frame, ingestVars
  <2> QED
    BY <1>2, <2>1, <2>2, QuietStep DEF CustodyInv, BrokerTypeOK, WorkerTypeOK
<1> QED
  BY <1>3, <1>4, <1>5, <1>6, <1>7, <1>8 DEF Next

(* The inductive invariant holds in every reachable state.                 *)
LEMMA InvariantHolds == Spec => []IInv
BY InitIInv, NextIInv, PTL DEF Spec

(* Every variable keeps its type: the attempt count carried in a body      *)
(* never reaches the limit, and free slots hold nothing.                   *)
THEOREM TypeCorrect == Spec => []TypeOK
<1>1. IInv => TypeOK
  BY DEF IInv
<1> QED
  BY <1>1, InvariantHolds, PTL

(* Whatever the crashes, refusals, timeouts and restarts of ingest and     *)
(* worker, a message the broker has taken is stored by OpenObserve, still  *)
(* has a copy in a queue, or was lost in the broker's own transfer.        *)
THEOREM NeverLost == Spec => []DurableNeverLost
<1>1. IInv => DurableNeverLost
  BY DEF IInv, Custody, Held, DurableNeverLost, HasCopy
<1> QED
  BY <1>1, InvariantHolds, PTL

(* The browser is told 202 only for a request the broker has taken.        *)
THEOREM AcceptedDurable == Spec => []AcceptedIsDurable
<1>1. IInv => AcceptedIsDurable
  BY DEF IInv, AdmissionOK, AcceptedIsDurable
<1> QED
  BY <1>1, InvariantHolds, PTL

(* A request that arrives while the collection is closed, and finds it     *)
(* closed for as long as it waits, is never published.                     *)
THEOREM KillSwitchStops == Spec => []KillSwitchStopsAdmission
<1>1. IInv => KillSwitchStopsAdmission
  BY DEF IInv, AdmissionOK, KillSwitchStopsAdmission
<1> QED
  BY <1>1, InvariantHolds, PTL

(***************************************************************************)
(* The attempt count.  Only a retryable failure and the broker's storing   *)
(* of a copy can disturb it; everywhere else a copy is carried along.      *)
(***************************************************************************)
PostsGrow ==
  \A m \in Message : posts'[m] \in 0 .. MaxAttempts /\ posts[m] <= posts'[m]

(* Nothing that the count says of d can have become wrong for d itself.    *)
Carried(d) ==
  /\ copies'[d].msg = copies[d].msg
  /\ copies'[d].attempts = copies[d].attempts
  /\ copies'[d].reason \in {copies[d].reason} \cup (Reason \ {"attempt_limit_exceeded"})
  /\ Live(d)' <=> Live(d)
  /\ handler'[d] = handler[d] \/ handler'[d] \notin {"retrying", "burying_limit"}

LEMMA CarriedCount ==
  ASSUME CustodyInv, PostsGrow, NEW d \in Copy, Counted(d), Carried(d)
  PROVE  Counted(d)'
<1>1. /\ Live(d) => copies[d].msg \in Message /\ copies[d].attempts \in Nat
      /\ handler[d] # "none" => Live(d)
  BY LimitAssumption DEF CustodyInv, BrokerTypeOK, HandlersOK, CopyRecord, Live
<1>2. \A m \in Message : posts[m] \in 0 .. MaxAttempts
  BY DEF CustodyInv, WorkerTypeOK
<1>3. CASE ~ Live(d)
  BY <1>1, <1>3 DEF Carried, Counted, Live
<1>4. CASE Live(d)
  <2> DEFINE old == posts[copies[d].msg]
             new == posts'[copies[d].msg]
  <2>1. /\ old \in 0 .. MaxAttempts /\ new \in 0 .. MaxAttempts /\ old <= new
        /\ copies[d].attempts \in Nat /\ MaxAttempts \in Nat
    BY <1>1, <1>2, <1>4, LimitAssumption DEF PostsGrow
  <2>2. /\ copies[d].attempts <= old => copies[d].attempts <= new
        /\ copies[d].attempts + 1 <= old => copies[d].attempts + 1 <= new
        /\ old = MaxAttempts => new = MaxAttempts
    BY <2>1
  <2> QED
    BY <1>4, <2>2 DEF Carried, Counted, Live
<1> QED
  BY <1>3, <1>4

LEMMA FreedCount ==
  ASSUME NEW d \in Copy, copies'[d] = FreeSlot, handler'[d] = "none"
  PROVE  Counted(d)'
BY DEF Counted, Live, FreeSlot, BrokerCopy

(* A handler that gives up a post counts it before it decides.             *)
LEMMA DecisionCount ==
  ASSUME CustodyInv, AttemptsCounted, NEW c \in Copy,
         OpenObserveStores(c) \/ RetryableFailure(c) \/ PermanentFailure(c)
  PROVE  AttemptsCounted'
<1>1. /\ handler[c] \in {"posting", "stored"}
      /\ UNCHANGED copies
      /\ \A d \in Copy \ {c} : handler'[d] = handler[d]
  BY DEF OpenObserveStores, RetryableFailure, PermanentFailure, CustodyInv, WorkerTypeOK
<1>2. /\ Live(c) /\ copies[c].msg \in Message
      /\ copies[c].attempts \in 0 .. MaxAttempts - 1
  BY <1>1 DEF CustodyInv, BrokerTypeOK, HandlersOK, CopyRecord, Live
<1> DEFINE old == posts[copies[c].msg]
           new == posts'[copies[c].msg]
<1>3. PostsGrow
  BY <1>2, LimitAssumption DEF PostsGrow, OpenObserveStores, RetryableFailure,
     PermanentFailure, CountPost, CustodyInv, WorkerTypeOK
<1>4. ASSUME NEW d \in Copy, d # c
      PROVE  Counted(d)'
  BY <1>1, <1>3, <1>4, CarriedCount DEF AttemptsCounted, Carried, Live
<1>5. CASE handler'[c] \notin {"retrying", "burying_limit"}
  BY <1>1, <1>3, <1>4, <1>5, CarriedCount DEF AttemptsCounted, Carried, Live
<1>6. CASE RetryableFailure(c)
  <2>1. /\ old \in 0 .. MaxAttempts
        /\ new = IF old < MaxAttempts THEN old + 1 ELSE old
        /\ handler'[c] = IF copies[c].attempts + 1 < MaxAttempts
                         THEN "retrying" ELSE "burying_limit"
    BY <1>2, <1>6 DEF RetryableFailure, CountPost, CustodyInv, WorkerTypeOK
  <2>2. /\ copies[c].attempts <= old
        /\ copies[c].reason = "attempt_limit_exceeded" => old = MaxAttempts
    BY <1>2 DEF AttemptsCounted, Counted
  <2>3. /\ copies[c].attempts <= new
        /\ handler'[c] = "retrying" => copies[c].attempts + 1 <= new
        /\ handler'[c] = "burying_limit" => new = MaxAttempts
        /\ copies[c].reason = "attempt_limit_exceeded" => new = MaxAttempts
    BY <1>2, <2>1, <2>2, LimitAssumption
  <2>4. Counted(c)'
    BY <1>1, <1>2, <2>3 DEF Counted, Live
  <2> QED
    BY <1>4, <2>4 DEF AttemptsCounted
<1>7. CASE ~ RetryableFailure(c)
  <2>1. handler'[c] \notin {"retrying", "burying_limit"}
    BY <1>7 DEF OpenObserveStores, PermanentFailure, CustodyInv, WorkerTypeOK
  <2> QED
    BY <1>4, <1>5, <2>1 DEF AttemptsCounted
<1> QED
  BY <1>6, <1>7

(* A retry carries the attempt its handler has just counted, and only the  *)
(* limit's own dead letter is marked with it.                              *)
LEMMA SuccessorCount ==
  ASSUME CustodyInv, AttemptsCounted, NEW c \in Copy, NEW d \in Copy, StoreSuccessor(c, d)
  PROVE  AttemptsCounted'
<1>1. /\ handler[c] \in {"retrying"} \cup Burying
      /\ ~ Live(d)
      /\ copies' = [copies EXCEPT ![d] = Successor(c)]
      /\ handler' = [handler EXCEPT ![c] = "confirmed"]
      /\ UNCHANGED posts
  BY DEF StoreSuccessor, Enqueue
<1>2. handler[d] = "none" /\ d # c /\ Live(c) /\ copies[c].msg \in Message
  BY <1>1 DEF CustodyInv, HandlersOK, BrokerTypeOK, Live, Burying
<1>3. PostsGrow
  BY <1>1 DEF PostsGrow, CustodyInv, WorkerTypeOK
<1>4. ASSUME NEW e \in Copy, e # d
      PROVE  Counted(e)'
  <2>1. Carried(e)
    BY <1>1, <1>4 DEF Carried, Live, CustodyInv, BrokerTypeOK, WorkerTypeOK
  <2> QED
    BY <1>3, <2>1, CarriedCount DEF AttemptsCounted
<1>5. Counted(d)'
  <2>1. Counted(c)
    BY DEF AttemptsCounted
  <2>2. copies'[d] = Successor(c) /\ handler'[d] = "none"
    BY <1>1, <1>2 DEF CustodyInv, BrokerTypeOK, WorkerTypeOK
  <2>3. CASE handler[c] = "retrying"
    BY <1>1, <2>1, <2>2, <2>3 DEF Successor, RetryCopy, BrokerCopy, Counted, Live
  <2>4. CASE handler[c] = "burying_limit"
    BY <1>1, <1>2, <2>1, <2>2, <2>4
       DEF Successor, DeadSuccessor, DeadCopy, BrokerCopy, Counted, Live
  <2>5. CASE handler[c] \in {"burying_rejected", "burying_payload"}
    BY <1>1, <1>2, <2>1, <2>2, <2>5
       DEF Successor, DeadSuccessor, DeadCopy, BrokerCopy, Counted, Live
  <2> QED
    BY <1>1, <2>3, <2>4, <2>5 DEF Burying
<1> QED
  BY <1>4, <1>5 DEF AttemptsCounted

(* Every other step frees copies, moves them, or leaves them alone.        *)
LEMMA CarryingCount ==
  ASSUME CustodyInv, AttemptsCounted, UNCHANGED posts,
         \A d \in Copy : Carried(d) \/ (copies'[d] = FreeSlot /\ handler'[d] = "none")
  PROVE  AttemptsCounted'
<1>1. PostsGrow
  BY DEF PostsGrow, CustodyInv, WorkerTypeOK
<1> QED
  BY <1>1, CarriedCount, FreedCount DEF AttemptsCounted

LEMMA HandlerCount ==
  ASSUME CustodyInv, AttemptsCounted, NEW c \in Copy,
         Deliver(c) \/ AckStored(c) \/ AckSucceeded(c)
  PROVE  AttemptsCounted'
<1>1. UNCHANGED posts
  BY DEF Deliver, AckStored, AckSucceeded
<1>2. ASSUME NEW d \in Copy, d # c
      PROVE  Carried(d)
  BY <1>2 DEF Deliver, AckStored, AckSucceeded, Acknowledge, Carried, Live,
              CustodyInv, BrokerTypeOK, WorkerTypeOK
<1>3. CASE Deliver(c)
  <2>1. /\ copies[c] \in CopyRecord /\ copies[c].place = "main"
        /\ copies'[c] = [copies[c] EXCEPT !.place = "unacked"]
        /\ handler'[c] \in {"burying_payload", "posting"}
    BY <1>3 DEF Deliver, CustodyInv, BrokerTypeOK, WorkerTypeOK
  <2>2. Carried(c)
    BY <2>1 DEF Carried, Live, CopyRecord
  <2> QED
    BY <1>1, <1>2, <2>2, CarryingCount
<1>4. CASE AckStored(c) \/ AckSucceeded(c)
  <2>1. copies'[c] = FreeSlot /\ handler'[c] = "none"
    BY <1>4 DEF AckStored, AckSucceeded, Acknowledge, CustodyInv, BrokerTypeOK, WorkerTypeOK
  <2> QED
    BY <1>1, <1>2, <2>1, CarryingCount
<1> QED
  BY <1>3, <1>4

LEMMA WorkerEndsCount ==
  ASSUME CustodyInv, AttemptsCounted, WorkerEnds
  PROVE  AttemptsCounted'
<1>1. UNCHANGED posts /\ handler' = [c \in Copy |-> "none"]
  BY DEF WorkerEnds
<1>2. ASSUME NEW d \in Copy
      PROVE  Carried(d)
  <2>1. copies[d] \in CopyRecord
    BY DEF CustodyInv, BrokerTypeOK
  <2>2. copies'[d] = IF copies[d].place = "unacked"
                     THEN [copies[d] EXCEPT !.place = "main", !.returns = @ + 1]
                     ELSE copies[d]
    BY DEF WorkerEnds, ReturnUnacked
  <2>3. /\ copies'[d].msg = copies[d].msg /\ copies'[d].attempts = copies[d].attempts
        /\ copies'[d].reason = copies[d].reason
        /\ copies'[d].place = "free" <=> copies[d].place = "free"
    BY <2>1, <2>2 DEF CopyRecord
  <2> QED
    BY <1>1, <2>3 DEF Carried, Live
<1> QED
  BY <1>1, <1>2, CarryingCount

(* The broker's own transfers keep the count, and mark a dead letter with  *)
(* a reason of their own.                                                  *)
LEMMA TransferCount ==
  ASSUME CustodyInv, AttemptsCounted, UNCHANGED workerVars, NEW c \in Copy,
         RetryExpires(c) \/ DeadLetterOverLimit(c)
  PROVE  AttemptsCounted'
<1>1. /\ copies[c].place \in {"retry", "main"}
      /\ UNCHANGED <<posts, handler>>
  BY DEF RetryExpires, DeadLetterOverLimit, OverLimit, workerVars
<1>2. handler[c] = "none"
  BY <1>1 DEF CustodyInv, HandlersOK
<1>3. PICK copy : /\ Transfer(c, copy) /\ copy.msg = copies[c].msg
                  /\ copy.attempts = copies[c].attempts /\ copy.place # "free"
                  /\ copy.reason \in {"none", "delivery_limit"}
  <2>1. CASE RetryExpires(c)
    BY <2>1 DEF RetryExpires, MainCopy, BrokerCopy
  <2>2. CASE DeadLetterOverLimit(c)
    BY <2>2 DEF DeadLetterOverLimit, DeadCopy, BrokerCopy
  <2> QED
    BY <2>1, <2>2
<1>4. ASSUME NEW d \in Copy, d # c
      PROVE  Carried(d)
  BY <1>1, <1>3, <1>4 DEF Transfer, Carried, Live, CustodyInv, BrokerTypeOK
<1>5. CASE copies' = [copies EXCEPT ![c] = copy]
  <2>1. copies'[c] = copy
    BY <1>5 DEF CustodyInv, BrokerTypeOK
  <2>2. Carried(c)
    BY <1>1, <1>3, <2>1 DEF Carried, Live, Reason
  <2> QED
    BY <1>1, <1>4, <2>2, CarryingCount
<1>6. CASE copies' = [copies EXCEPT ![c] = FreeSlot]
  <2>1. copies'[c] = FreeSlot /\ handler'[c] = "none"
    BY <1>1, <1>2, <1>6 DEF CustodyInv, BrokerTypeOK
  <2> QED
    BY <1>1, <1>4, <2>1, CarryingCount
<1> QED
  BY <1>3, <1>5, <1>6 DEF Transfer

(* A new publish of the ingest has made no attempt yet.                    *)
LEMMA StoreCount ==
  ASSUME CustodyInv, AttemptsCounted, UNCHANGED workerVars,
         NEW m \in Message, NEW c \in Copy, BrokerStoresPublish(m, c)
  PROVE  AttemptsCounted'
<1>1. /\ ~ Live(c) /\ copies' = [copies EXCEPT ![c] = MainCopy(m, 0)]
      /\ UNCHANGED <<posts, handler>>
  BY DEF BrokerStoresPublish, Enqueue, workerVars
<1>2. PostsGrow /\ posts'[m] \in Nat
  BY <1>1, LimitAssumption DEF PostsGrow, CustodyInv, WorkerTypeOK
<1>3. ASSUME NEW d \in Copy, d # c
      PROVE  Counted(d)'
  <2>1. Carried(d)
    BY <1>1, <1>3 DEF Carried, Live, CustodyInv, BrokerTypeOK
  <2> QED
    BY <1>2, <2>1, CarriedCount DEF AttemptsCounted
<1>4. Counted(c)'
  <2>1. copies'[c] = MainCopy(m, 0) /\ handler'[c] = "none"
    BY <1>1 DEF CustodyInv, HandlersOK, BrokerTypeOK, Live
  <2> QED
    BY <1>2, <2>1 DEF Counted, Live, MainCopy, BrokerCopy
<1> QED
  BY <1>3, <1>4 DEF AttemptsCounted

LEMMA InitCount == Init => AttemptsCounted
BY DEF Init, BrokerInit, WorkerInit, AttemptsCounted, Counted, Live, FreeSlot, BrokerCopy

LEMMA NextCount == IInv /\ AttemptsCounted /\ [Next]_vars => AttemptsCounted'
<1> SUFFICES ASSUME CustodyInv, AttemptsCounted, [Next]_vars
             PROVE  AttemptsCounted'
  BY Halves
<1>1. CASE UNCHANGED <<copies, handler, posts>>
  BY <1>1, CarryingCount DEF Carried, Live
<1>2. ASSUME NEW c \in Copy, HandlerStep(c)
      PROVE  AttemptsCounted'
  BY <1>2, HandlerCount, DecisionCount, SuccessorCount, WorkerEndsCount
     DEF HandlerStep, SuccessorRefused
<1>3. CASE BrokerStep /\ UNCHANGED workerVars
  BY <1>1, <1>3, TransferCount DEF BrokerStep, AlarmChanges, workerVars
<1>4. CASE DeliveryStep
  BY <1>1, <1>2, <1>3, <1>4 DEF DeliveryStep, WorkerStart, Subscribe, Unsubscribe
<1>5. CASE WorkerStops
  BY <1>5, WorkerEndsCount DEF WorkerStops
<1>6. CASE \E m \in Message, c \in Copy :
             BrokerStoresPublish(m, c) /\ UNCHANGED <<workerVars, crashes>>
  BY <1>6, StoreCount
<1>7. CASE UNCHANGED <<brokerVars, workerVars>> \/ UNCHANGED vars
  BY <1>1, <1>7 DEF vars, brokerVars, workerVars
<1> QED
  BY <1>4, <1>5, <1>6, <1>7 DEF Next

(* A dead letter that says attempt_limit_exceeded was posted as often as   *)
(* the limit allows: no duplicate, crash or redelivery counts an attempt   *)
(* that was not made.                                                      *)
THEOREM LimitIsAttempts == Spec => []LimitMeansAttempts
<1>1. AttemptsCounted => LimitMeansAttempts
  BY DEF AttemptsCounted, Counted, LimitMeansAttempts
<1>2. Spec => []AttemptsCounted
  BY InvariantHolds, InitCount, NextCount, PTL DEF Spec
<1> QED
  BY <1>1, <1>2, PTL

(***************************************************************************)
(* The pipeline implements at-least-once delivery.  Each step of the       *)
(* services and the broker changes the fate of at most one message, in a   *)
(* way that the promise allows, or of none.                                *)
(***************************************************************************)

(* The mapped state.                                                       *)
Durable == {m \in Message : wire[m] = "enqueued"}
Accepted == {m \in Message : response[m] = "202"}
Outstanding == {m \in Message : \E c \in Copy : Undecided(c) /\ copies[c].msg = m}
DeadLettered == {m \in Message : Buried(m)}

Promised == Promise!Next \/ UNCHANGED Promise!vars

AdmissionFate == <<Durable, Accepted>>
DeliveryFate == <<Outstanding, stored, DeadLettered, dropped>>

LEMMA StutterIsPromised ==
  ASSUME UNCHANGED <<AdmissionFate, DeliveryFate>>
  PROVE  Promised
BY DEF Promised, AdmissionFate, DeliveryFate, Promise!vars,
       Durable, Accepted, Outstanding, DeadLettered

LEMMA FateIsPromised ==
  ASSUME NEW m \in Message,
         \/ Promise!MakeDurable(m) \/ Promise!Accept(m) \/ Promise!Deliver(m)
         \/ Promise!Bury(m) \/ Promise!Lose(m) \/ Promise!Finish(m)
  PROVE  Promised
BY DEF Promised, Promise!Next

(***************************************************************************)
(* The admission service.                                                  *)
(***************************************************************************)

(* A 202 goes out by a confirm only, and answers are given once.           *)
LEMMA AdmissionFateStep ==
  ASSUME AdmissionInv, IngestStep \/ IngestFault
  PROVE  /\ Durable' = Durable
         /\ \/ Accepted' = Accepted
            \/ \E m \in Durable : Accepted' = Accepted \cup {m}
<1> USE DEF AdmissionInv, IngestTypeOK, AdmissionOK, InFlight, Durable, Accepted,
            Wire, Response, Phase, Answer, RejectRequest, RejectPayload
<1>1. CASE UNCHANGED <<wire, response>>
  BY <1>1
<1>2. CASE ProcessEnds
  BY <1>2 DEF ProcessEnds
<1>3. CASE ConnectionLostWhileClosing
  BY <1>3 DEF ConnectionLostWhileClosing
<1>4. ASSUME NEW m \in Message, Arrive(m) \/ CheckControl(m) \/ ConfirmTimeout(m)
      PROVE  Durable' = Durable /\ Accepted' = Accepted
  BY <1>4 DEF Arrive, CheckControl, ConfirmTimeout
<1>5. ASSUME NEW m \in Message, Publish(m) \/ BrokerRefusesPublish(m)
      PROVE  Durable' = Durable /\ Accepted' = Accepted
  BY <1>5 DEF Publish, BrokerRefusesPublish
<1>6. ASSUME NEW m \in Message, Confirm(m)
      PROVE  /\ Durable' = Durable
             /\ Accepted' = Accepted \/ (m \in Durable /\ Accepted' = Accepted \cup {m})
  BY <1>6 DEF Confirm
<1>7. CASE ObserveAlarm \/ Shutdown \/ IngestStart \/ ControlChanges
  BY <1>1, <1>7 DEF ObserveAlarm, Shutdown, IngestStart, ControlChanges
<1> QED
  BY <1>2, <1>3, <1>4, <1>5, <1>6, <1>7
     DEF IngestStep, IngestFault, IngestCrash, ShutdownCompletes, ShutdownTimeout

(***************************************************************************)
(* The copies.                                                             *)
(***************************************************************************)

(* The copy says the same about the fate of its message.                   *)
KeepsStanding(c) ==
  /\ copies'[c].msg = copies[c].msg
  /\ Undecided(c)' <=> Undecided(c)
  /\ copies'[c].place = "dlq" <=> copies[c].place = "dlq"

LEMMA SameStanding ==
  ASSUME \A c \in Copy : KeepsStanding(c)
  PROVE  Outstanding' = Outstanding /\ DeadLettered' = DeadLettered
BY DEF KeepsStanding, Outstanding, DeadLettered, Buried

(* A message stops being outstanding when its last undecided copy goes.    *)
LEMMA CopyRemoved ==
  ASSUME BrokerTypeOK, NEW c \in Copy, Undecided(c), copies' = [copies EXCEPT ![c] = FreeSlot]
  PROVE  /\ copies[c].msg \in Outstanding
         /\ Outstanding' \in {Outstanding, Outstanding \ {copies[c].msg}}
         /\ DeadLettered' = DeadLettered
         /\ \A d \in Copy : /\ d # c /\ Undecided(d) /\ copies[d].msg = copies[c].msg
                            => copies[c].msg \in Outstanding'
<1>1. FreeSlot.place = "free" /\ FreeSlot.msg = NoMessage /\ copies'[c] = FreeSlot
  BY DEF FreeSlot, BrokerCopy, BrokerTypeOK
<1>2. \A d \in Copy : d # c => copies'[d] = copies[d]
  BY DEF BrokerTypeOK
<1>3. copies[c].msg \in Message /\ copies[c].place # "dlq"
  BY DEF BrokerTypeOK, Undecided, Live
<1>4. copies[c].msg \in Outstanding
  BY <1>3 DEF Outstanding
<1>5. DeadLettered' = DeadLettered
  BY <1>1, <1>2, <1>3 DEF DeadLettered, Buried
<1>6. Outstanding' \subseteq Outstanding /\ Outstanding \ {copies[c].msg} \subseteq Outstanding'
  BY <1>1, <1>2 DEF Outstanding, Undecided
<1>7. ASSUME NEW d \in Copy, d # c, Undecided(d), copies[d].msg = copies[c].msg
      PROVE  copies[c].msg \in Outstanding'
  BY <1>2, <1>3, <1>7 DEF Outstanding, Undecided
<1> QED
  BY <1>4, <1>5, <1>6, <1>7

(* OpenObserve has the message of an acknowledged copy, or the copy of a   *)
(* confirmed successor stays behind.                                       *)
LEMMA AckIsPromised ==
  ASSUME CustodyInv, UNCHANGED AdmissionFate, NEW c \in Copy, AckStored(c) \/ AckSucceeded(c)
  PROVE  Promised
<1> DEFINE m == copies[c].msg
<1>1. /\ copies' = [copies EXCEPT ![c] = FreeSlot]
      /\ UNCHANGED <<dropped, stored>>
      /\ handler[c] \in {"stored", "confirmed"}
  BY DEF AckStored, AckSucceeded, Acknowledge
<1>2. Undecided(c) /\ BrokerTypeOK /\ m \in Message
  BY <1>1 DEF CustodyInv, HandlersOK, Undecided, BrokerTypeOK, Live
<1>3. /\ m \in Outstanding
      /\ Outstanding' \in {Outstanding, Outstanding \ {m}}
      /\ DeadLettered' = DeadLettered
      /\ \A d \in Copy : d # c /\ Undecided(d) /\ copies[d].msg = m => m \in Outstanding'
  BY <1>1, <1>2, CopyRemoved
<1>4. m \in stored \cup DeadLettered \cup dropped \/ m \in Outstanding'
  <2>1. CASE handler[c] = "stored"
    BY <2>1 DEF CustodyInv, HandlersOK
  <2>2. CASE handler[c] = "confirmed"
    <3>1. Held(m)
      BY <1>2 DEF CustodyInv, Custody, HasCopy
    <3>2. CASE m \in stored \cup dropped
      BY <3>2
    <3>3. ASSUME NEW d \in Copy, copies[d].msg = m, handler[d] # "confirmed"
          PROVE  m \in DeadLettered \/ m \in Outstanding'
      <4>1. d # c /\ Live(d)
        BY <1>2, <2>2, <3>3 DEF BrokerTypeOK
      <4>2. Undecided(d) \/ copies[d].place = "dlq"
        BY <4>1 DEF CustodyInv, BrokerTypeOK, CopyRecord, Place, Live, Undecided
      <4> QED
        BY <1>2, <1>3, <3>3, <4>1, <4>2 DEF DeadLettered, Buried
    <3> QED
      BY <3>1, <3>2, <3>3 DEF Held
  <2> QED
    BY <1>1, <2>1, <2>2
<1>5. CASE Outstanding' = Outstanding
  BY <1>1, <1>3, <1>5, StutterIsPromised DEF DeliveryFate, AdmissionFate
<1>6. CASE Outstanding' = Outstanding \ {m}
  <2>1. m \in stored \cup DeadLettered \cup dropped
    BY <1>4, <1>6
  <2>2. \E n \in Message : Promise!Finish(n)
    BY <1>1, <1>3, <1>6, <2>1
       DEF Promise!Finish, AdmissionFate, Durable, Accepted, Outstanding, DeadLettered
  <2> QED
    BY <1>2, <2>2, FateIsPromised
<1> QED
  BY <1>3, <1>5, <1>6

(* OpenObserve stores the batch of a copy that is still in hand.           *)
LEMMA StoringIsPromised ==
  ASSUME CustodyInv, UNCHANGED AdmissionFate, NEW c \in Copy, OpenObserveStores(c)
  PROVE  Promised
<1> DEFINE m == copies[c].msg
<1>1. UNCHANGED <<copies, dropped>> /\ stored' = stored \cup {m} /\ handler[c] = "posting"
  BY DEF OpenObserveStores
<1>2. m \in Message /\ Undecided(c)
  BY <1>1 DEF CustodyInv, HandlersOK, BrokerTypeOK, Live, Undecided
<1>3. m \in Outstanding /\ Outstanding' = Outstanding /\ DeadLettered' = DeadLettered
  BY <1>1, <1>2, SameStanding DEF Outstanding, KeepsStanding, Undecided
<1>4. \E n \in Message : Promise!Deliver(n)
  BY <1>1, <1>3 DEF Promise!Deliver, AdmissionFate, Durable, Accepted, Outstanding, DeadLettered
<1> QED
  BY <1>2, <1>4, FateIsPromised

(* A new copy of an outstanding message: a retry changes nothing, a dead   *)
(* letter buries the message while the original is still in hand.          *)
LEMMA SuccessorIsPromised ==
  ASSUME CustodyInv, UNCHANGED AdmissionFate, NEW c \in Copy, NEW d \in Copy, StoreSuccessor(c, d)
  PROVE  Promised
<1> DEFINE m == copies[c].msg
<1>1. /\ handler[c] \in {"retrying"} \cup Burying
      /\ ~ Live(d)
      /\ copies' = [copies EXCEPT ![d] = Successor(c)]
      /\ UNCHANGED <<dropped, stored>>
  BY DEF StoreSuccessor, Enqueue
<1>2. /\ Successor(c).place \in {"retry", "dlq"}
      /\ Successor(c).msg = m
      /\ m \in Message
  BY <1>1, SuccessorType DEF CustodyInv
<1>3. copies[c].place = "unacked" /\ d # c
  BY <1>1 DEF CustodyInv, HandlersOK, Live, Burying
<1>4. copies'[d] = Successor(c) /\ \A e \in Copy : e # d => copies'[e] = copies[e]
  BY <1>1 DEF CustodyInv, BrokerTypeOK
<1>5. copies[d].place = "free" /\ m \in Outstanding
  BY <1>1, <1>2, <1>3 DEF Live, Outstanding, Undecided
<1>6. Outstanding' = Outstanding
  BY <1>2, <1>4, <1>5 DEF Outstanding, Undecided
<1>7. CASE Successor(c).place = "retry"
  <2>1. DeadLettered' = DeadLettered
    BY <1>4, <1>5, <1>7 DEF DeadLettered, Buried
  <2> QED
    BY <1>1, <1>6, <2>1, StutterIsPromised DEF DeliveryFate, AdmissionFate
<1>8. CASE Successor(c).place = "dlq"
  <2>1. DeadLettered' = DeadLettered \cup {m}
    BY <1>2, <1>4, <1>5, <1>8 DEF DeadLettered, Buried
  <2>2. \E n \in Message : Promise!Bury(n)
    BY <1>1, <1>5, <1>6, <2>1 DEF Promise!Bury, Promise!MayFinish, AdmissionFate,
       Durable, Accepted, Outstanding, DeadLettered
  <2> QED
    BY <1>2, <2>2, FateIsPromised
<1> QED
  BY <1>2, <1>7, <1>8

(* A transfer moves a copy, buries its message, or loses it.               *)
LEMMA TransferIsPromised ==
  ASSUME CustodyInv, UNCHANGED <<AdmissionFate, stored>>, NEW c \in Copy,
         RetryExpires(c) \/ DeadLetterOverLimit(c)
  PROVE  Promised
<1> DEFINE m == copies[c].msg
<1>1. Undecided(c) /\ BrokerTypeOK
  BY DEF RetryExpires, DeadLetterOverLimit, OverLimit, Undecided, CustodyInv
<1>2. m \in Message /\ m \in Outstanding
  BY <1>1 DEF BrokerTypeOK, Live, Undecided, Outstanding
<1>3. PICK copy : Transfer(c, copy) /\ copy.msg = m /\ copy.place \in {"main", "dlq"}
  BY DEF RetryExpires, DeadLetterOverLimit, MainCopy, DeadCopy, BrokerCopy
<1>4. CASE copies' = [copies EXCEPT ![c] = FreeSlot] /\ dropped' = dropped \cup {m}
  <2>1. Outstanding' \in {Outstanding, Outstanding \ {m}} /\ DeadLettered' = DeadLettered
    BY <1>1, <1>4, CopyRemoved
  <2>2. \E n \in Message : Promise!Lose(n)
    BY <1>2, <1>4, <2>1 DEF Promise!Lose, Promise!MayFinish, AdmissionFate,
       Durable, Accepted, Outstanding, DeadLettered
  <2> QED
    BY <1>2, <2>2, FateIsPromised
<1>5. CASE copies' = [copies EXCEPT ![c] = copy] /\ UNCHANGED dropped
  <2>1. copies'[c] = copy /\ \A d \in Copy : d # c => copies'[d] = copies[d]
    BY <1>1, <1>5 DEF BrokerTypeOK
  <2>2. CASE copy.place = "main"
    <3>1. \A d \in Copy : KeepsStanding(d)
      BY <1>1, <1>3, <2>1, <2>2 DEF KeepsStanding, Undecided
    <3> QED
      BY <1>5, <3>1, SameStanding, StutterIsPromised DEF DeliveryFate, AdmissionFate
  <2>3. CASE copy.place = "dlq"
    <3>1. DeadLettered' = DeadLettered \cup {m}
      BY <1>1, <1>2, <1>3, <2>1, <2>3 DEF DeadLettered, Buried, Undecided
    <3>2. Outstanding' \subseteq Outstanding /\ Outstanding \ {m} \subseteq Outstanding'
      BY <1>3, <2>1, <2>3 DEF Outstanding, Undecided
    <3>3. \E n \in Message : Promise!Bury(n)
      BY <1>2, <1>5, <3>1, <3>2 DEF Promise!Bury, Promise!MayFinish, AdmissionFate,
         Durable, Accepted, Outstanding, DeadLettered
    <3> QED
      BY <1>2, <3>3, FateIsPromised
  <2> QED
    BY <1>3, <2>2, <2>3
<1> QED
  BY <1>3, <1>4, <1>5 DEF Transfer

(* A publish of the ingest makes its message durable and outstanding.      *)
LEMMA StoreIsPromised ==
  ASSUME CustodyInv, IngestTypeOK, UNCHANGED workerVars,
         NEW m \in Message, NEW c \in Copy, BrokerStoresPublish(m, c)
  PROVE  Promised
<1>1. /\ wire[m] = "sent" /\ wire' = [wire EXCEPT ![m] = "enqueued"]
      /\ ~ Live(c)
      /\ copies' = [copies EXCEPT ![c] = MainCopy(m, 0)]
      /\ UNCHANGED <<response, dropped, stored>>
  BY DEF BrokerStoresPublish, Enqueue, workerVars
<1>2. MainCopy(m, 0).place = "main" /\ MainCopy(m, 0).msg = m
  BY DEF MainCopy, BrokerCopy
<1>3. copies'[c] = MainCopy(m, 0) /\ \A d \in Copy : d # c => copies'[d] = copies[d]
  BY <1>1 DEF CustodyInv, BrokerTypeOK
<1>4. m \notin Durable /\ Durable' = Durable \cup {m} /\ Accepted' = Accepted
  BY <1>1 DEF Durable, Accepted, IngestTypeOK
<1>5. copies[c].place = "free"
  BY <1>1 DEF Live
<1>6. Outstanding' = Outstanding \cup {m}
  BY <1>2, <1>3, <1>5 DEF Outstanding, Undecided
<1>7. DeadLettered' = DeadLettered
  BY <1>2, <1>3, <1>5 DEF DeadLettered, Buried
<1>8. Promise!MakeDurable(m)
  BY <1>1, <1>4, <1>6, <1>7 DEF Promise!MakeDurable,
     Durable, Accepted, Outstanding, DeadLettered
<1> QED
  BY <1>8, FateIsPromised

(* Steps that leave every copy's message and its standing alone.           *)
LEMMA QuietIsPromised ==
  ASSUME CustodyInv, UNCHANGED AdmissionFate,
         \/ \E c \in Copy : Deliver(c) \/ RetryableFailure(c) \/ PermanentFailure(c)
         \/ WorkerEnds
         \/ UNCHANGED <<copies, dropped, stored>>
  PROVE  Promised
<1>1. UNCHANGED <<dropped, stored>>
  BY DEF Deliver, RetryableFailure, PermanentFailure, WorkerEnds, ReturnUnacked
<1>2. ASSUME NEW d \in Copy
      PROVE  KeepsStanding(d)
  <2>1. copies[d] \in CopyRecord
    BY DEF CustodyInv, BrokerTypeOK
  <2>2. \/ copies'[d] = copies[d]
        \/ /\ copies[d].place = "main"
           /\ copies'[d] = [copies[d] EXCEPT !.place = "unacked"]
        \/ /\ copies[d].place = "unacked"
           /\ copies'[d] = [copies[d] EXCEPT !.place = "main", !.returns = @ + 1]
    <3>1. ASSUME NEW c \in Copy, Deliver(c)
          PROVE  \/ copies'[d] = copies[d]
                 \/ /\ copies[d].place = "main"
                    /\ copies'[d] = [copies[d] EXCEPT !.place = "unacked"]
      BY <3>1 DEF Deliver, CustodyInv, BrokerTypeOK
    <3>2. CASE WorkerEnds
      BY <3>2 DEF WorkerEnds, ReturnUnacked
    <3> QED
      BY <3>1, <3>2 DEF RetryableFailure, PermanentFailure
  <2>3. /\ copies'[d].msg = copies[d].msg
        /\ Undecided(d)' <=> Undecided(d)
        /\ copies'[d].place = "dlq" <=> copies[d].place = "dlq"
    BY <2>1, <2>2 DEF Undecided, CopyRecord
  <2> QED
    BY <2>3 DEF KeepsStanding
<1> QED
  BY <1>1, <1>2, SameStanding, StutterIsPromised DEF DeliveryFate, AdmissionFate

(***************************************************************************)
(* The whole pipeline.                                                     *)
(***************************************************************************)
LEMMA InitPromised == Init => Promise!Init
BY NoMessageAssumption DEF Init, BrokerInit, IngestInit, WorkerInit, Promise!Init, FreeSlot,
   BrokerCopy, Undecided, Buried

LEMMA NextPromised == IInv /\ [Next]_vars => Promised
<1> SUFFICES ASSUME AdmissionInv, CustodyInv, [Next]_vars
             PROVE  Promised
  BY Halves
<1>1. UNCHANGED ingestVars => UNCHANGED AdmissionFate
  BY DEF ingestVars, AdmissionFate, Durable, Accepted
<1>2. CASE (IngestStep \/ IngestFault) /\ UNCHANGED <<brokerVars, workerVars>>
  <2>1. Outstanding' = Outstanding /\ DeadLettered' = DeadLettered
    BY <1>2, SameStanding DEF brokerVars, KeepsStanding, Undecided
  <2>2. UNCHANGED <<stored, dropped>>
    BY <1>2 DEF brokerVars, workerVars
  <2>3. Durable' = Durable
    BY <1>2, AdmissionFateStep
  <2>4. CASE Accepted' = Accepted
    BY <2>1, <2>2, <2>3, <2>4, StutterIsPromised DEF AdmissionFate, DeliveryFate
  <2>5. ASSUME NEW m \in Durable, Accepted' = Accepted \cup {m}
        PROVE  Promised
    <3>1. Promise!Accept(m) /\ m \in Message
      BY <2>1, <2>2, <2>3, <2>5 DEF Promise!Accept, Durable, Accepted, Outstanding, DeadLettered
    <3> QED
      BY <3>1, FateIsPromised
  <2> QED
    BY <1>2, <2>4, <2>5, AdmissionFateStep
<1>3. CASE \E m \in Message, c \in Copy :
             BrokerStoresPublish(m, c) /\ UNCHANGED <<workerVars, crashes>>
  BY <1>3, StoreIsPromised DEF AdmissionInv
<1>4. CASE DeliveryStep /\ UNCHANGED ingestVars
  <2>1. ASSUME NEW c \in Copy, HandlerStep(c)
        PROVE  Promised
    BY <1>1, <1>4, <2>1, QuietIsPromised, StoringIsPromised, AckIsPromised, SuccessorIsPromised
       DEF HandlerStep, SuccessorRefused
  <2>2. CASE WorkerStart \/ \E s \in Signal : Subscribe(s) \/ Unsubscribe(s)
    BY <1>1, <1>4, <2>2, QuietIsPromised DEF WorkerStart, Subscribe, Unsubscribe
  <2>3. CASE BrokerStep /\ UNCHANGED workerVars
    BY <1>1, <1>4, <2>3, TransferIsPromised, QuietIsPromised DEF BrokerStep, AlarmChanges, workerVars
  <2> QED
    BY <1>4, <2>1, <2>2, <2>3 DEF DeliveryStep
<1>5. CASE WorkerStops /\ UNCHANGED ingestVars
  BY <1>1, <1>5, QuietIsPromised DEF WorkerStops
<1>6. CASE UNCHANGED vars
  BY <1>1, <1>6, QuietIsPromised DEF vars, brokerVars, workerVars
<1> QED
  BY <1>2, <1>3, <1>4, <1>5, <1>6 DEF Next

(* Admission, broker and worker together are at-least-once delivery: a     *)
(* message is accepted only when durable, leaves the queues and hands only *)
(* once it is stored, buried or lost in the broker's transfer, and neither *)
(* of these is ever taken back.                                            *)
THEOREM ImplementsPromise == Spec => ImplementsDurableDelivery
BY InvariantHolds, InitPromised, NextPromised, PTL
   DEF Spec, ImplementsDurableDelivery, Promise!Spec, Promised
=============================================================================
