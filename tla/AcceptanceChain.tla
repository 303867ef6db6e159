--------------------------- MODULE AcceptanceChain ---------------------------
(***************************************************************************)
(* The full acceptance chain: one full reset, then the gates in order,     *)
(* each after no reset or after one that only purges the queues.  A gate   *)
(* that fails is recorded and the next one runs, in whatever lab the       *)
(* failed one left.  The verifications that are no gate run by themselves. *)
(***************************************************************************)
EXTENDS LabChecks

VARIABLES
  program,   \* the chain, or a verification by itself
  gate,      \* the gate being run: 0 is the full reset
  command,   \* its command being run: 0 is its reset
  broken,    \* a command of this gate failed
  failed     \* a gate failed

chainVars == <<labVars, program, gate, command, broken, failed>>

Elsewhere == <<Probe("command")>>

Gate(id, reset, commands) == [id |-> id, reset |-> reset, commands |-> commands]

Gates ==
  <<Gate("streams-functions-pipelines", FALSE, <<Elsewhere, VerifySanitizationLeakage, VerifyCorrelation>>),
    Gate("dashboards-alerts", FALSE, <<Elsewhere, Elsewhere, Elsewhere>>),
    Gate("runtime-control", TRUE, <<VerifyRuntimeControl>>),
    Gate("session-metadata", FALSE, <<VerifySessionMetadata>>),
    Gate("durable-quick", TRUE, <<VerifyDurableDelivery>>),
    Gate("queue-storage-privacy", TRUE, <<VerifyQueueStoragePrivacy>>),
    Gate("pre-ack-redelivery", TRUE, <<VerifyPreAckRedelivery>>),
    Gate("backup-restore-upgrade-rollback", FALSE, <<Elsewhere>>),
    Gate("token-rotation", TRUE, <<VerifyTokenRotation>>),
    Gate("linux-systemd-reference", FALSE, <<Elsewhere>>),
    Gate("flask-jinja-consumer", TRUE, <<Elsewhere>>),
    Gate("service-scope-isolation", TRUE, <<VerifyServiceScopeIsolation>>),
    Gate("health-readiness", TRUE, <<LabVerify>>),
    Gate("security-scan", TRUE, <<Elsewhere, Elsewhere>>)>>

Program ==
  [chain |-> Gates,
   soak |-> <<Gate("real-soak", FALSE, <<VerifyRealDurableOutageSoak>>)>>,
   proxy |-> <<Gate("proxy-security", FALSE, <<VerifyProxySecurity>>)>>,
   resilience |-> <<Gate("resilience", FALSE, <<VerifyResilience>>)>>,
   resilienceSoak |-> <<Gate("resilience-soak", FALSE, <<RunResilienceSoak>>)>>]

FullReset == <<Wipe, Await(Service, "thrown")>>
QueueOnlyReset == <<Probe("toolchain")>> \o PurgeQueues

(* The lab before the chain is in any state; the other programs are run in *)
(* a lab that is up and open.                                              *)
ChainInit ==
  /\ program \in DOMAIN Program
  /\ services = [s \in Service |-> "up"]
  /\ control \in IF program = "chain"
                 THEN {Open, [Open EXCEPT !.hold = TRUE, !.held = TRUE, !.document = "kill",
                                          !.scoped = TRUE, !.gate = TRUE, !.closed = TRUE]}
                 ELSE {Open}
  /\ queue \in [Batch -> {"none", "retry"}]
  /\ \A b \in Batch : queue[b] # "none" => b = "left" /\ program = "chain"
  /\ indexed = {} /\ page = "none" /\ frames = <<>>
  /\ faults = FaultBudget
  /\ found = FALSE /\ disturbed = FALSE /\ broken = FALSE /\ failed = FALSE
  /\ IF program = "chain"
     THEN gate = 0 /\ command = 0 /\ todo = FullReset
     ELSE gate = 1 /\ command = 1 /\ todo = Program[program][1].commands[1]

Finished == gate > Len(Program[program])
CommandEnded == ~Finished /\ todo = <<>> /\ frames = <<>>

(* The gate after this one: its reset, or its first command.  What earlier *)
(* gates delivered is not asked again.                                     *)
OpenGate(g) ==
  /\ gate' = g /\ indexed' = {} /\ page' = "none"
  /\ broken' = FALSE
  /\ IF g > Len(Program[program])
     THEN command' = 0 /\ todo' = <<>>
     ELSE LET next == Program[program][g] IN
          /\ command' = IF next.reset THEN 0 ELSE 1
          /\ todo' = IF next.reset THEN QueueOnlyReset ELSE next.commands[1]

FullResetEnds ==
  /\ CommandEnded /\ gate = 0
  /\ IF found THEN OpenGate(Len(Gates) + 1) ELSE OpenGate(1)
  /\ failed' = found

(* A gate whose queues could not be purged has failed, and is not run.     *)
QueueResetEnds ==
  /\ CommandEnded /\ gate > 0 /\ command = 0
  /\ IF found
     THEN OpenGate(gate + 1) /\ failed' = TRUE
     ELSE /\ command' = 1 /\ todo' = Program[program][gate].commands[1]
          /\ UNCHANGED <<gate, broken, failed, indexed, page>>

(* Every command of a gate is run, whatever those before it found.         *)
CommandEnds ==
  /\ CommandEnded /\ command > 0
  /\ LET commands == Program[program][gate].commands IN
     IF command < Len(commands)
     THEN /\ command' = command + 1 /\ todo' = commands[command + 1]
          /\ broken' = (broken \/ found)
          /\ UNCHANGED <<gate, failed, indexed, page>>
     ELSE OpenGate(gate + 1) /\ failed' = (failed \/ broken \/ found)

ChainNext ==
  \/ (LabMoves \/ ScriptStep) /\ ~Finished /\ UNCHANGED <<program, gate, command, broken, failed>>
  \/ /\ FullResetEnds \/ QueueResetEnds \/ CommandEnds
     /\ found' = FALSE
     /\ UNCHANGED <<program, services, control, queue, frames, faults, disturbed>>

ChainSpec == ChainInit /\ [][ChainNext]_chainVars

ChainTypeOK ==
  /\ services \in [Service -> {"up", "starting", "down"}]
  /\ control.document \in Document
  /\ queue \in [Batch -> Place] /\ indexed \subseteq Batch
  /\ page \in {"none", "active", "latched", "blocked", "rejected"}
  /\ faults \in 0..FaultBudget
  /\ gate \in 0..Len(Program[program]) + 1

(* A chain that passed leaves the lab as it was built: nothing held,       *)
(* switched off or stopped, and no object of its own.                      *)
PassedMeansOpen ==
  Finished /\ ~failed
    => [control EXCEPT !.held = FALSE] = Open /\ \A s \in Service : services[s] # "down"

(* When no call failed, no wait ran out early and no purge missed a        *)
(* message, every gate passes: none of them is in the way of a later one.  *)
QuietRunsPass == Finished /\ ~disturbed => ~failed

(* A proof of delivery that passes has delivered: its batch is in          *)
(* OpenObserve and in no queue.                                            *)
ProvedMeansDelivered ==
  [][gate' # gate /\ gate > 0 /\ command > 0 /\ ~broken /\ ~found
     /\ Program[program][gate].id \in {"queue-storage-privacy", "pre-ack-redelivery", "real-soak"}
       => "first" \in indexed /\ queue["first"] = "none"]_chainVars
=============================================================================
