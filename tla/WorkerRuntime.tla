--------------------------- MODULE WorkerRuntime ----------------------------
(***************************************************************************)
(* The two sides of the delivery worker's process: the loop that follows   *)
(* the control file (WorkerControl), and the handlers that work off a      *)
(* backlog while consumption is held and resumed at will (BacklogDrain).   *)
(* A behaviour looks at one of them; what the loop promises when a         *)
(* document stays, ControlTakesEffect, is what the fairness of a           *)
(* subscription in the other one rests on.                                 *)
(***************************************************************************)
EXTENDS WorkerControl

CONSTANTS Message, Signal, SignalOf, Copy, NoMessage, MaxAttempts, DeliveryLimit,
          RetryLevels, QueueMax, DlqMax, CrashBudget, Prefetch, Poison

(* What Broker and DeliveryWorker assume of them.                          *)
ASSUME BacklogAssumption ==
  /\ SignalOf \in [Message -> Signal] /\ NoMessage \notin Message
  /\ Poison \subseteq Message
  /\ MaxAttempts \in Nat \ {0} /\ DeliveryLimit \in Nat /\ RetryLevels \in Nat \ {0}
  /\ QueueMax \in Nat \ {0} /\ DlqMax \in Nat \ {0} /\ CrashBudget \in Nat
  /\ Prefetch \in Nat \ {0}

VARIABLES copies, dropped, alarm, crashes, worker, subscribed, handler, stored, posts,
          focus

Backlog == INSTANCE BacklogDrain

backlogVars ==
  <<copies, dropped, alarm, crashes, worker, subscribed, handler, stored, posts>>

runtimeVars == <<vars, backlogVars, focus>>

RuntimeInit ==
  /\ focus \in {"control", "backlog"}
  /\ Init /\ Backlog!Init
  /\ focus = "backlog" => file = "clear"

(* A backlog may come to rest; the control loop never does.                *)
RuntimeNext ==
  /\ \/ focus = "control" /\ Next /\ UNCHANGED backlogVars
     \/ focus = "backlog" /\ Backlog!Next /\ UNCHANGED vars
     \/ focus = "backlog" /\ UNCHANGED <<vars, backlogVars>>
  /\ UNCHANGED focus

RuntimeSpec ==
  /\ RuntimeInit /\ [][RuntimeNext]_runtimeVars
  /\ focus = "control" => ControlFairness
  /\ focus = "backlog" => Backlog!Fairness

RuntimeTypeOK == TypeOK /\ Backlog!TypeOK

(* Every message of the backlog is eventually stored, dead-lettered or     *)
(* lost in a transfer of the broker: the retries end, and so does the      *)
(* crash loop of a worker whose successors are refused.                    *)
EventuallySettled == focus = "backlog" => Backlog!EventuallySettled

(* The queues drain: at last every copy, duplicates included, has been     *)
(* acknowledged or dead-lettered.                                          *)
QueuesDrain == focus = "backlog" => Backlog!QueuesDrain

(* A document that stays takes effect in a process that stays.             *)
DocumentTakesEffect == focus = "control" => ControlTakesEffect

(* Consumption begins only after some poll has read an explicit            *)
(* hold=false, however polls overlap, and while they do not no queue has   *)
(* two consumers.                                                          *)
ConsumersOK == RuntimeTypeOK /\ NeverConsumesUnevaluated /\ SingleConsumer
=============================================================================
