--------------------------- MODULE DeliveryWorker ---------------------------
(***************************************************************************)
(* The delivery worker's message handling,                                 *)
(* apps/telemetry-delivery-worker/src/runtime.js: every delivered copy is  *)
(* posted to OpenObserve; the copy is acknowledged after OpenObserve took  *)
(* it, or after a successor copy (a retry or a dead letter) is confirmed   *)
(* by the broker.                                                          *)
(*                                                                         *)
(* Up to Prefetch handlers run at once per queue.  Each await of a handler *)
(* is a point where the process can end, with the copy still unacked.      *)
(* Which queues are consumed (hold and resume) is the subject of           *)
(* WorkerControl; here it changes at will.                                 *)
(***************************************************************************)
EXTENDS Broker

CONSTANTS
  Prefetch,   \* channel.prefetch, per consumer
  Poison      \* messages the worker cannot parse, validate or deem safe

ASSUME PrefetchAssumption == Prefetch \in Nat \ {0}
ASSUME PoisonAssumption == Poison \subseteq Message

VARIABLES
  worker,      \* the process: "up" or "down"
  subscribed,  \* signals whose main queue has a consumer of this worker
  handler,     \* where the handler of each unacked copy stands
  stored,      \* messages OpenObserve has stored at least once
  posts        \* history: failed deliveries per message, up to MaxAttempts

workerVars == <<worker, subscribed, handler, stored, posts>>

(***************************************************************************)
(* A handler posts, then publishes a successor and waits for its confirm.  *)
(* "stored" is the moment between OpenObserve's commit and its answer.     *)
(***************************************************************************)
Handler == {"none", "posting", "stored", "retrying", "burying_limit",
            "burying_rejected", "burying_payload", "confirmed"}

Burying == {"burying_limit", "burying_rejected", "burying_payload"}

InHand(s) == {c \in Copy : copies[c].place = "unacked" /\ SignalOf[copies[c].msg] = s}

(* A consumer is handed a copy.  handleMessage parses and validates it at  *)
(* once: a poison message goes straight to the dead-letter queue.          *)
Deliver(c) ==
  /\ worker = "up"
  /\ copies[c].place = "main"
  /\ ~ OverLimit(c)
  /\ SignalOf[copies[c].msg] \in subscribed
  /\ Cardinality(InHand(SignalOf[copies[c].msg])) < Prefetch
  /\ copies' = [copies EXCEPT ![c].place = "unacked"]
  /\ handler' = [handler EXCEPT
       ![c] = IF copies[c].msg \in Poison THEN "burying_payload" ELSE "posting"]
  /\ UNCHANGED <<dropped, alarm, worker, subscribed, stored, posts>>

(* OpenObserve commits the batch; the worker does not know yet.            *)
OpenObserveStores(c) ==
  /\ handler[c] = "posting"
  /\ handler' = [handler EXCEPT ![c] = "stored"]
  /\ stored' = stored \cup {copies[c].msg}
  /\ UNCHANGED <<worker, subscribed, posts>>
  /\ UNCHANGED <<copies, dropped, alarm>>

(* A plausible bug: the copy is acknowledged before the answer is known.   *)
AckWithoutAnswer(c) ==
  /\ handler[c] \in {"posting", "stored"}
  /\ Acknowledge(c)
  /\ handler' = [handler EXCEPT ![c] = "none"]
  /\ UNCHANGED <<worker, subscribed, stored, posts>>

(* A 2xx arrives: acknowledge.                                             *)
AckStored(c) ==
  /\ handler[c] = "stored"
  /\ Acknowledge(c)
  /\ handler' = [handler EXCEPT ![c] = "none"]
  /\ UNCHANGED <<worker, subscribed, stored, posts>>

CountPost(m) ==
  posts' = [posts EXCEPT ![m] = IF @ < MaxAttempts THEN @ + 1 ELSE @]

(* A plausible bug: one attempt too many is retried.                       *)
RetryableFailureOffByOne(c) ==
  /\ handler[c] \in {"posting", "stored"}
  /\ handler' = [handler EXCEPT
       ![c] = IF copies[c].attempts + 1 <= MaxAttempts THEN "retrying" ELSE "burying_limit"]
  /\ CountPost(copies[c].msg)
  /\ UNCHANGED <<worker, subscribed, stored>>
  /\ UNCHANGED <<copies, dropped, alarm>>

(* A timeout, a connection error, 408, 429 or 5xx; the batch may have been *)
(* stored all the same.  This was attempt number attempts + 1.             *)
RetryableFailure(c) ==
  /\ handler[c] \in {"posting", "stored"}
  /\ handler' = [handler EXCEPT
       ![c] = IF copies[c].attempts + 1 < MaxAttempts THEN "retrying" ELSE "burying_limit"]
  /\ CountPost(copies[c].msg)
  /\ UNCHANGED <<worker, subscribed, stored>>
  /\ UNCHANGED <<copies, dropped, alarm>>

(* Any other status: OpenObserve rejected the batch for good.              *)
PermanentFailure(c) ==
  /\ handler[c] = "posting"
  /\ handler' = [handler EXCEPT ![c] = "burying_rejected"]
  /\ CountPost(copies[c].msg)
  /\ UNCHANGED <<worker, subscribed, stored>>
  /\ UNCHANGED <<copies, dropped, alarm>>

DeadSuccessor(c) ==
  LET copy == copies[c]
  IN CASE handler[c] = "burying_limit" ->
            DeadCopy(copy.msg, copy.attempts, "attempt_limit_exceeded")
       [] handler[c] = "burying_rejected" ->
            DeadCopy(copy.msg, copy.attempts, "permanent_rejection")
       [] handler[c] = "burying_payload" ->
            DeadCopy(copy.msg, copy.attempts, "permanent_payload_failure")

(* Plausible bugs: a retry repeats the attempt it was delivered with, or   *)
(* counts it twice.                                                        *)
SuccessorForgetsAttempt(c) ==
  IF handler[c] = "retrying" THEN RetryCopy(copies[c].msg, copies[c].attempts)
  ELSE DeadSuccessor(c)

SuccessorCountsTwice(c) ==
  IF handler[c] = "retrying" THEN RetryCopy(copies[c].msg, copies[c].attempts + 2)
  ELSE DeadSuccessor(c)

(* What publishRetry or publishDlq sends.  A retry carries the attempt     *)
(* just made, a dead letter repeats the body that was delivered.           *)
Successor(c) ==
  IF handler[c] = "retrying" THEN RetryCopy(copies[c].msg, copies[c].attempts + 1)
  ELSE DeadSuccessor(c)

(* The broker stores the successor and confirms it.                        *)
StoreSuccessor(c, d) ==
  /\ handler[c] \in {"retrying"} \cup Burying
  /\ Enqueue(d, Successor(c))
  /\ handler' = [handler EXCEPT ![c] = "confirmed"]
  /\ UNCHANGED <<worker, subscribed, stored, posts>>

(* A plausible bug: the original is acknowledged without waiting for the   *)
(* broker's confirm of its successor.                                      *)
AckUnconfirmed(c) ==
  /\ handler[c] \in {"retrying", "confirmed"} \cup Burying
  /\ Acknowledge(c)
  /\ handler' = [handler EXCEPT ![c] = "none"]
  /\ UNCHANGED <<worker, subscribed, stored, posts>>

(* The confirm arrives: acknowledge the original.                          *)
AckSucceeded(c) ==
  /\ handler[c] = "confirmed"
  /\ Acknowledge(c)
  /\ handler' = [handler EXCEPT ![c] = "none"]
  /\ UNCHANGED <<worker, subscribed, stored, posts>>

(***************************************************************************)
(* The process ends and its channel with it: every handler is gone and     *)
(* every copy in hand returns to its queue.                                *)
(***************************************************************************)
WorkerEnds ==
  /\ worker' = "down"
  /\ subscribed' = {}
  /\ handler' = [c \in Copy |-> "none"]
  /\ ReturnUnacked
  /\ UNCHANGED <<stored, posts>>

(* A plausible bug: the rejection is caught and forgotten, the copy neither *)
(* acknowledged nor returned.                                              *)
SuccessorRefusedSwallowed(c) ==
  /\ worker = "up"
  /\ handler[c] \in {"retrying"} \cup Burying
  /\ Refuses(Successor(c))
  /\ handler' = [handler EXCEPT ![c] = "none"]
  /\ UNCHANGED <<copies, dropped, alarm, worker, subscribed, stored, posts>>

(* The broker refuses the successor (its queue is full): the nack rejects  *)
(* the promise nobody awaits, and the unhandled rejection ends Node.       *)
SuccessorRefused(c) ==
  /\ worker = "up"
  /\ handler[c] \in {"retrying"} \cup Burying
  /\ Refuses(Successor(c))
  /\ WorkerEnds

(* A crash, a lost connection (exit(1)) or a SIGTERM shutdown, which       *)
(* closes the channel without waiting for the handlers.                    *)
WorkerStops ==
  /\ worker = "up"
  /\ Fault
  /\ WorkerEnds

(* Docker restarts the process, which consumes only if it is not held.     *)
WorkerStart ==
  /\ worker = "down"
  /\ worker' = "up"
  /\ UNCHANGED <<subscribed, handler, stored, posts>>
  /\ UNCHANGED <<copies, dropped, alarm>>

(* Consumers are registered or cancelled; handlers in progress go on.      *)
Subscribe(s) ==
  /\ worker = "up"
  /\ s \notin subscribed
  /\ subscribed' = subscribed \cup {s}
  /\ UNCHANGED <<worker, handler, stored, posts>>
  /\ UNCHANGED <<copies, dropped, alarm>>

Unsubscribe(s) ==
  /\ s \in subscribed
  /\ subscribed' = subscribed \ {s}
  /\ UNCHANGED <<worker, handler, stored, posts>>
  /\ UNCHANGED <<copies, dropped, alarm>>

HandlerStep(c) ==
  \/ Deliver(c)
  \/ OpenObserveStores(c)
  \/ AckStored(c)
  \/ RetryableFailure(c)
  \/ PermanentFailure(c)
  \/ \E d \in Copy : StoreSuccessor(c, d)
  \/ AckSucceeded(c)
  \/ SuccessorRefused(c)

(* Everything the worker and the broker's own timers do between faults.    *)
DeliveryStep ==
  /\ UNCHANGED crashes
  /\ \/ \E c \in Copy : HandlerStep(c)
     \/ WorkerStart
     \/ \E s \in Signal : Subscribe(s) \/ Unsubscribe(s)
     \/ BrokerStep /\ UNCHANGED workerVars

Undecided(c) == copies[c].place \in {"main", "unacked", "retry"}

Buried(m) == \E c \in Copy : copies[c].place = "dlq" /\ copies[c].msg = m

WorkerInit ==
  /\ worker = "up"
  /\ subscribed = Signal
  /\ handler = [c \in Copy |-> "none"]
  /\ stored = {}
  /\ posts = [m \in Message |-> 0]

WorkerTypeOK ==
  /\ worker \in {"up", "down"}
  /\ subscribed \subseteq Signal
  /\ handler \in [Copy -> Handler]
  /\ stored \subseteq Message
  /\ posts \in [Message -> 0 .. MaxAttempts]
=============================================================================
