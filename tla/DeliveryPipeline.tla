-------------------------- MODULE DeliveryPipeline --------------------------
(***************************************************************************)
(* The delivery pipeline: admission service, broker, delivery worker and   *)
(* OpenObserve, composed.  The ingest and the worker meet only in the      *)
(* broker's queues.                                                        *)
(***************************************************************************)
EXTENDS TelemetryIngest, DeliveryWorker

vars == <<brokerVars, ingestVars, workerVars, crashes>>

Init ==
  /\ BrokerInit
  /\ IngestInit
  /\ WorkerInit

(* Steps of the admission service that leave the broker's queues alone.    *)
IngestStep ==
  \/ \E m \in Message : \/ Arrive(m)
                        \/ CheckControl(m)
                        \/ Publish(m)
                        \/ Confirm(m)
                        \/ ConfirmTimeout(m)
                        \/ BrokerRefusesPublish(m)
  \/ ObserveAlarm
  \/ Shutdown
  \/ ShutdownCompletes
  \/ ShutdownTimeout
  \/ IngestStart
  \/ ControlChanges

IngestFault == IngestCrash \/ ConnectionLostWhileClosing

Next ==
  \/ IngestStep /\ UNCHANGED <<brokerVars, workerVars, crashes>>
  \/ IngestFault /\ UNCHANGED <<brokerVars, workerVars>>
  \/ \E m \in Message, c \in Copy :
       BrokerStoresPublish(m, c) /\ UNCHANGED <<workerVars, crashes>>
  \/ DeliveryStep /\ UNCHANGED ingestVars
  \/ WorkerStops /\ UNCHANGED ingestVars

Spec == Init /\ [][Next]_vars

(***************************************************************************)
(* Fairness of the admission service: its event loop runs what is ready,   *)
(* and both its waits end, with an answer or with the timer.               *)
(***************************************************************************)
IngestAlone(A) == A /\ UNCHANGED <<brokerVars, workerVars, crashes>>

FairSpec ==
  /\ Spec
  /\ \A m \in Message :
       /\ WF_vars(IngestAlone(CheckControl(m)))
       /\ WF_vars(IngestAlone(Publish(m)))
       /\ WF_vars(IngestAlone(Confirm(m) \/ ConfirmTimeout(m)))

TypeOK ==
  /\ BrokerTypeOK
  /\ IngestTypeOK
  /\ WorkerTypeOK

(***************************************************************************)
(* Safety.                                                                 *)
(***************************************************************************)
HasCopy(m) == \E c \in Copy : copies[c].msg = m

(* Once the broker holds a message it is never lost by the two services:   *)
(* it is in a queue, in the worker's hands, in a dead-letter queue, stored *)
(* by OpenObserve, or lost in the broker's own unconfirmed transfer,       *)
(* through any crash, refusal, shutdown or lost confirm.                   *)
DurableNeverLost ==
  \A m \in Message : wire[m] = "enqueued" => m \in stored \cup dropped \/ HasCopy(m)

(* A 202 is a promise: the browser is told "accepted" only for a message   *)
(* the broker confirmed.                                                   *)
AcceptedIsDurable ==
  \A m \in Message : response[m] = "202" => wire[m] = "enqueued"

(* A request is published only if the collection was open at some moment   *)
(* of its processing: the kill switch stops every request that arrives     *)
(* while it is on, and stays on.                                           *)
KillSwitchStopsAdmission ==
  \A m \in Message : wire[m] # "none" => sawOpen[m]

(* A dead letter marked attempt_limit_exceeded was really posted           *)
(* maxDeliveryAttempts times: the count carried in the body survives the   *)
(* retries, the duplicates and the crashes without running ahead.          *)
LimitMeansAttempts ==
  \A c \in Copy : copies[c].reason = "attempt_limit_exceeded"
                    => posts[copies[c].msg] = MaxAttempts

(***************************************************************************)
(* The inductive invariant behind the safety properties.                   *)
(***************************************************************************)

(* A handler runs for an unacknowledged copy only, retries only below the  *)
(* limit, and sees a 2xx only from an OpenObserve that stored the batch.   *)
HandlersOK ==
  \A c \in Copy :
    /\ handler[c] # "none" => copies[c].place = "unacked"
    /\ handler[c] = "retrying" => copies[c].attempts + 1 < MaxAttempts
    /\ handler[c] = "stored" => copies[c].msg \in stored

(* Somebody answers for m: OpenObserve, the record of transfer losses, or  *)
(* a copy that no handler is about to acknowledge in favour of another.    *)
Held(m) ==
  \/ m \in stored \cup dropped
  \/ \E c \in Copy : copies[c].msg = m /\ handler[c] # "confirmed"

(* Two copies may wait to be acknowledged because of each other's          *)
(* successors; what keeps a message safe is a copy that does not.          *)
Custody == \A m \in Message : wire[m] = "enqueued" \/ HasCopy(m) => Held(m)

(* The attempt count of a body never runs ahead of the posts made for its  *)
(* message, so a handler at the limit has seen all of them fail.           *)
Counted(c) ==
  LET posted == posts[copies[c].msg]
  IN /\ Live(c) => copies[c].attempts <= posted
     /\ handler[c] = "retrying" => copies[c].attempts + 1 <= posted
     /\ handler[c] = "burying_limit" => posted = MaxAttempts
     /\ copies[c].reason = "attempt_limit_exceeded" => Live(c) /\ posted = MaxAttempts

AttemptsCounted == \A c \in Copy : Counted(c)

(* A request is published at most once, after it was cleared, and answered *)
(* at most once; whoever waits while collection is open has seen it open.  *)
AdmissionOK ==
  \A m \in Message :
    /\ phase[m] \in {"idle", "checking", "cleared"} => wire[m] = "none"
    /\ response[m] # "none" => phase[m] = "answered"
    /\ response[m] = "202" => wire[m] = "enqueued"
    /\ InFlight(m) /\ control = "open" => sawOpen[m]
    /\ phase[m] = "cleared" => sawOpen[m]
    /\ wire[m] # "none" => sawOpen[m]

IInv == TypeOK /\ HandlersOK /\ Custody /\ AdmissionOK

(***************************************************************************)
(* The pipeline implements at-least-once delivery.                         *)
(***************************************************************************)
Promise == INSTANCE DurableDelivery WITH
  durable <- {m \in Message : wire[m] = "enqueued"},
  accepted <- {m \in Message : response[m] = "202"},
  outstanding <- {m \in Message : \E c \in Copy : Undecided(c) /\ copies[c].msg = m},
  delivered <- stored,
  buried <- {m \in Message : Buried(m)},
  lost <- dropped

(* Every behaviour of the two services and the broker is one of at-least-  *)
(* once delivery: no accept before durability, and no message leaves the   *)
(* queues and the worker's hands before its fate is settled.               *)
ImplementsDurableDelivery == Promise!Spec

(* Every admitted request is answered, whatever the broker does: a wait    *)
(* for the control plane or for a confirm always ends.                     *)
EveryRequestAnswered ==
  \A m \in Message : InFlight(m) ~> (phase[m] = "answered")
=============================================================================
