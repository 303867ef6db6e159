---------------------------- MODULE BacklogDrain ----------------------------
(***************************************************************************)
(* The delivery worker working off a backlog: the main queues hold one     *)
(* copy of every message, as after an outage or a hold, and nothing new is *)
(* admitted.  The worker may crash, be refused by full queues, be held and *)
(* resumed, and OpenObserve may fail at will.                              *)
(***************************************************************************)
EXTENDS DeliveryWorker

vars == <<brokerVars, workerVars, crashes>>

(* Which slot a message starts in does not matter: any placement with one  *)
(* copy of each message.                                                   *)
Init ==
  /\ \E slot \in [Message -> Copy] :
       /\ \A m, n \in Message : slot[m] = slot[n] => m = n
       /\ copies = [c \in Copy |->
                     IF \E m \in Message : slot[m] = c
                     THEN MainCopy(CHOOSE m \in Message : slot[m] = c, 0)
                     ELSE FreeSlot]
  /\ dropped = {}
  /\ alarm = FALSE
  /\ crashes = 0
  /\ WorkerInit

Next == DeliveryStep \/ WorkerStops

(***************************************************************************)
(* Fairness.  Faults, refusals and OpenObserve's answers are not fair, but *)
(* an HTTP delivery ends, if only by its timer, and so does every wait for *)
(* a broker confirm once there is no alarm.  Docker restarts the worker.   *)
(* A hold and a resource alarm do not last forever; while they come and go *)
(* a delivery or a publish that is possible over and over takes place.     *)
(***************************************************************************)
Quiet(A) == A /\ UNCHANGED crashes
BrokerAlone(A) == A /\ UNCHANGED <<workerVars, crashes>>

Publishes(c) == (\E d \in Copy : StoreSuccessor(c, d)) \/ SuccessorRefused(c)
Outcome(c) == AckStored(c) \/ RetryableFailure(c) \/ PermanentFailure(c)

Fairness ==
  /\ \A c \in Copy :
       /\ SF_vars(Quiet(Deliver(c)))
       /\ WF_vars(Quiet(Outcome(c)))
       /\ SF_vars(Quiet(Publishes(c)))
       /\ WF_vars(Quiet(AckSucceeded(c)))
       /\ WF_vars(BrokerAlone(RetryExpires(c)))
       /\ WF_vars(BrokerAlone(DeadLetterOverLimit(c)))
  /\ \A s \in Signal : WF_vars(Quiet(Subscribe(s)))
  /\ WF_vars(Quiet(WorkerStart))
  /\ WF_vars(BrokerAlone(alarm /\ AlarmChanges))

Spec == Init /\ [][Next]_vars

FairSpec == Spec /\ Fairness

TypeOK == BrokerTypeOK /\ WorkerTypeOK

(* Every message of the backlog is eventually stored, dead-lettered or     *)
(* lost in a transfer of the broker: the retries end, and so does the      *)
(* crash loop of a worker whose successors are refused.                    *)
EventuallySettled ==
  \A m \in Message : <>(m \in stored \cup dropped \/ Buried(m))

(* The queues drain: at last every copy, duplicates included, has been     *)
(* acknowledged or dead-lettered.                                          *)
QueuesDrain == <>[](\A c \in Copy : ~ Undecided(c))
=============================================================================
