------------------------------- MODULE Broker -------------------------------
(***************************************************************************)
(* The RabbitMQ side of the delivery pipeline, as assertTopology declares  *)
(* it (packages/telemetry-delivery-core/src/rabbitmq.js): for every signal *)
(* a main quorum queue, retry queues whose messages expire back into the   *)
(* main queue, and a dead-letter queue.  RabbitMQ itself is external: what *)
(* is modelled is the behaviour the declared arguments ask for.            *)
(*                                                                         *)
(* A message is named by the admitted request it comes from.  The broker   *)
(* stores COPIES of messages: a retry or a dead letter is a new copy,      *)
(* published before the old one is acknowledged, so a message can have     *)
(* several copies at once.  Copy is the pool of storage slots.             *)
(***************************************************************************)
EXTENDS Naturals, FiniteSets

CONSTANTS
  Message,        \* admitted requests, each building one durable message
  Signal,         \* the signals, "rum" and "logs" in the code
  SignalOf,       \* the signal of each message
  Copy,           \* slots for broker copies (bounds the duplicates explored)
  NoMessage,      \* the message of a free slot
  MaxAttempts,    \* RABBITMQ.maxDeliveryAttempts
  DeliveryLimit,  \* x-delivery-limit of the main queues
  RetryLevels,    \* number of retry queues of a signal (RETRY_DELAYS_MS)
  QueueMax,       \* x-max-length of main and retry queues
  DlqMax,         \* x-max-length of dead-letter queues
  CrashBudget     \* crashes and lost connections explored per behaviour

ASSUME SignalAssumption == SignalOf \in [Message -> Signal]
ASSUME NoMessageAssumption == NoMessage \notin Message
ASSUME LimitAssumption ==
  /\ MaxAttempts \in Nat \ {0}
  /\ DeliveryLimit \in Nat
  /\ RetryLevels \in Nat \ {0}
  /\ QueueMax \in Nat \ {0}
  /\ DlqMax \in Nat \ {0}
  /\ CrashBudget \in Nat

VARIABLES
  copies,   \* the broker's copies, one record per slot
  dropped,  \* messages with a copy lost in an unconfirmed dead-letter transfer
  alarm,    \* a resource alarm: the broker takes no publishes
  crashes   \* crashes so far, to bound the exploration

brokerVars == <<copies, dropped, alarm>>


(***************************************************************************)
(* A copy is ready in the main queue, delivered but unacknowledged, in a   *)
(* retry queue, or dead-lettered.  "attempts" is the deliveryAttempt of    *)
(* the message body, "returns" the broker's own delivery count, "reason"   *)
(* the dlqReason of a dead letter.                                         *)
(***************************************************************************)
Place == {"free", "main", "unacked", "retry", "dlq"}

Reason == {"none", "attempt_limit_exceeded", "permanent_rejection",
           "permanent_payload_failure", "delivery_limit"}

BrokerCopy(place, m, attempts, level, reason) ==
  [place |-> place, msg |-> m, attempts |-> attempts,
   level |-> level, returns |-> 0, reason |-> reason]

FreeSlot == BrokerCopy("free", NoMessage, 0, 0, "none")

MainCopy(m, attempts) == BrokerCopy("main", m, attempts, 0, "none")

(* retryRoutingKey: the n-th attempt waits in the n-th retry queue, and in *)
(* the last one once there are no more.                                    *)
RetryLevel(attempts) == IF attempts < RetryLevels THEN attempts ELSE RetryLevels

RetryCopy(m, attempts) == BrokerCopy("retry", m, attempts, RetryLevel(attempts), "none")

DeadCopy(m, attempts, reason) == BrokerCopy("dlq", m, attempts, 0, reason)

Live(c) == copies[c].place # "free"

(***************************************************************************)
(* Length limits.  All queues overflow with reject-publish.  The length of *)
(* a quorum queue counts the unacknowledged messages too.                  *)
(***************************************************************************)
MainOf(s) ==
  {c \in Copy : copies[c].place \in {"main", "unacked"} /\ SignalOf[copies[c].msg] = s}

RetryOf(s, level) ==
  {c \in Copy : /\ copies[c].place = "retry"
                /\ copies[c].level = level
                /\ SignalOf[copies[c].msg] = s}

DeadOf(s) ==
  {c \in Copy : copies[c].place = "dlq" /\ SignalOf[copies[c].msg] = s}

HasRoom(copy) ==
  LET s == SignalOf[copy.msg]
  IN CASE copy.place = "main"  -> Cardinality(MainOf(s)) < QueueMax
       [] copy.place = "retry" -> Cardinality(RetryOf(s, copy.level)) < QueueMax
       [] copy.place = "dlq"   -> Cardinality(DeadOf(s)) < DlqMax

(* A publish is stored in a free slot, unless the queue is full (nack) or  *)
(* an alarm holds the publisher back.                                      *)
Enqueue(c, copy) ==
  /\ ~ alarm
  /\ ~ Live(c)
  /\ HasRoom(copy)
  /\ copies' = [copies EXCEPT ![c] = copy]
  /\ UNCHANGED <<dropped, alarm>>

Refuses(copy) == ~ alarm /\ ~ HasRoom(copy)

(* channel.ack: the copy is gone for good.                                 *)
Acknowledge(c) ==
  /\ copies' = [copies EXCEPT ![c] = FreeSlot]
  /\ UNCHANGED <<dropped, alarm>>

(* The consumer's channel is gone: every unacknowledged copy is returned   *)
(* to the main queue and its delivery count grows.                         *)
ReturnUnacked ==
  /\ copies' = [c \in Copy |->
                  IF copies[c].place = "unacked"
                  THEN [copies[c] EXCEPT !.place = "main", !.returns = @ + 1]
                  ELSE copies[c]]
  /\ UNCHANGED <<dropped, alarm>>

(***************************************************************************)
(* Broker-internal transfers through the dead-letter exchange.  They are   *)
(* not confirmed: no x-dead-letter-strategy is declared, so RabbitMQ's     *)
(* default at-most-once holds, and a transfer to a full queue may lose the *)
(* copy.                                                                   *)
(***************************************************************************)
Transfer(c, copy) ==
  \/ /\ copies' = [copies EXCEPT ![c] = copy]
     /\ UNCHANGED <<dropped, alarm>>
  \/ /\ ~ HasRoom(copy)
     /\ copies' = [copies EXCEPT ![c] = FreeSlot]
     /\ dropped' = dropped \cup {copies[c].msg}
     /\ UNCHANGED alarm

(* x-message-ttl elapses in a retry queue.                                 *)
RetryExpires(c) ==
  /\ copies[c].place = "retry"
  /\ Transfer(c, MainCopy(copies[c].msg, copies[c].attempts))

OverLimit(c) == copies[c].place = "main" /\ copies[c].returns > DeliveryLimit

(* x-delivery-limit: a copy returned too often is dead-lettered.           *)
DeadLetterOverLimit(c) ==
  /\ OverLimit(c)
  /\ Transfer(c, DeadCopy(copies[c].msg, copies[c].attempts, "delivery_limit"))

(* A fault of some process, counted against the budget.                    *)
Fault ==
  /\ crashes < CrashBudget
  /\ crashes' = crashes + 1

AlarmChanges ==
  /\ alarm' = ~ alarm
  /\ UNCHANGED <<copies, dropped>>

BrokerStep ==
  \/ \E c \in Copy : RetryExpires(c) \/ DeadLetterOverLimit(c)
  \/ AlarmChanges

BrokerInit ==
  /\ copies = [c \in Copy |-> FreeSlot]
  /\ dropped = {}
  /\ alarm = FALSE
  /\ crashes = 0

CopyRecord ==
  [place : Place, msg : Message \cup {NoMessage}, attempts : 0 .. MaxAttempts - 1,
   level : 0 .. RetryLevels, returns : Nat, reason : Reason]

BrokerTypeOK ==
  /\ copies \in [Copy -> CopyRecord]
  /\ \A c \in Copy : Live(c) <=> copies[c].msg \in Message
  /\ dropped \subseteq Message
  /\ alarm \in BOOLEAN
  /\ crashes \in Nat
=============================================================================
