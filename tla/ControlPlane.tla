---------------------------- MODULE ControlPlane ----------------------------
(***************************************************************************)
(* The runtime control documents: the control plane's state directory      *)
(* (apps/observability-control-plane/src/state.js, io.js) and the operator *)
(* command that writes it (scripts/operator/runtime-control.mjs).          *)
(*                                                                         *)
(* There is one global document and at most one document per scope (a      *)
(* service in an environment).  Files are replaced atomically, but each    *)
(* command is a process of its own and takes no lock: it reads the highest *)
(* revision, writes its document, reads everything again and writes the    *)
(* delivery worker's hold file.  The directory is read in one step, which  *)
(* is what its sequential reads amount to unless two writes fall between.  *)
(***************************************************************************)
EXTENDS Integers, FiniteSets, FiniteSetsExt

CONSTANTS
  Scope,       \* pairs of service and environment
  Global,      \* the target of commands without a scope
  Operator,    \* operator commands that can run at the same time
  Ttl,         \* lifetime of a document, MAX_CONTROL_TTL_MS
  Horizon,     \* bound of the clock
  CommandBudget,  \* commands and daemon refreshes explored per behaviour
  DeathBudget     \* processes killed half-way per behaviour

ASSUME GlobalAssumption == Global \notin Scope
ASSUME ScopeAssumption == IsFiniteSet(Scope)
ASSUME TimeAssumption == Ttl \in Nat \ {0} /\ Horizon \in Nat
ASSUME BudgetAssumption == CommandBudget \in Nat /\ DeathBudget \in Nat

VARIABLES
  files,     \* the document on file for each target
  hold,      \* what the delivery worker's control file says
  op,        \* the running operator commands
  now,       \* the clock all processes share
  commands,  \* commands and refreshes so far
  deaths     \* processes killed so far

controlVars == <<files, hold, op, now, commands, deaths>>

Target == Scope \cup {Global}

(* A missing file; -1 is the revision maxControlRevision assumes then.     *)
NoDocument == [revision |-> -1, active |-> FALSE, expires |-> 0]

Document == [revision : Nat, active : BOOLEAN, expires : Nat]

NewDocument(revision, active) ==
  [revision |-> revision, active |-> active, expires |-> now + Ttl]

(* validateControlDocument, for documents these programs write: only the   *)
(* lifetime can fail.                                                      *)
ValidAt(document, time) == document # NoDocument /\ document.expires > time

Valid(document) == ValidAt(document, now)

(* A plausible bug: a scoped document wins whatever its revision.          *)
ResolveScopedFirst(scope) ==
  LET scopedWins == /\ Valid(files[Global])
                    /\ ~ files[Global].active
                    /\ files[scope] # NoDocument
  IN IF scopedWins THEN files[scope] ELSE files[Global]

(* resolveControlDocument: what the control plane serves to a scope.  A    *)
(* missing global file is an error, served as NoDocument.                  *)
Resolve(scope) ==
  LET global == files[Global]
      scoped == files[scope]
      scopedWins == /\ Valid(global)
                    /\ ~ global.active
                    /\ scoped # NoDocument
                    /\ scoped.active \/ scoped.revision >= global.revision
  IN IF scopedWins THEN scoped ELSE global

MaxControlRevision == Max({files[t].revision : t \in Target})

(* A plausible bug: the delivery hold forgets the scoped documents.        *)
DeliveryHoldGlobalOnly == ~ Valid(files[Global]) \/ files[Global].active

(* deliveryControlDocument                                                 *)
DeliveryHold ==
  \/ ~ Valid(files[Global])
  \/ files[Global].active
  \/ \E s \in Scope : Valid(files[s]) /\ files[s].active

(***************************************************************************)
(* An operator command.                                                    *)
(***************************************************************************)
IdleOperator == [step |-> "idle", target |-> Global, document |-> NoDocument, hold |-> TRUE]

Spend == commands < CommandBudget /\ commands' = commands + 1

(* disable or enable: read the revisions on file and build the document.   *)
Begin(o, target, active) ==
  /\ op[o].step = "idle"
  /\ Spend
  /\ op' = [op EXCEPT ![o] = [step |-> "publish", target |-> target, hold |-> TRUE,
                              document |-> NewDocument(MaxControlRevision + 1, active)]]
  /\ UNCHANGED <<files, hold, now, deaths>>

Publish(o) ==
  /\ op[o].step = "publish"
  /\ files' = [files EXCEPT ![op[o].target] = op[o].document]
  /\ op' = [op EXCEPT ![o].step = "compute"]
  /\ UNCHANGED <<hold, now, commands, deaths>>

(* syncDeliveryControl reads the directory once more, then writes the file *)
(* the delivery worker polls.                                              *)
ComputeHold(o) ==
  /\ op[o].step = "compute"
  /\ op' = [op EXCEPT ![o].step = "sync", ![o].hold = DeliveryHold]
  /\ UNCHANGED <<files, hold, now, commands, deaths>>

SyncDeliveryControl(o) ==
  /\ op[o].step = "sync"
  /\ hold' = op[o].hold
  /\ op' = [op EXCEPT ![o] = IdleOperator]
  /\ UNCHANGED <<files, now, commands, deaths>>

Dies == deaths < DeathBudget /\ deaths' = deaths + 1

(* The command is interrupted after its first write, or that of the hold   *)
(* file fails; before the first write there is nothing to leave behind.    *)
OperatorDies(o) ==
  /\ op[o].step = "sync"
  /\ Dies
  /\ op' = [op EXCEPT ![o] = IdleOperator]
  /\ UNCHANGED <<files, hold, now, commands>>

Tick ==
  /\ now < Horizon
  /\ now' = now + 1
  /\ UNCHANGED <<files, hold, op, commands, deaths>>

OperatorStep ==
  \E o \in Operator :
    \/ \E t \in Target, active \in BOOLEAN : Begin(o, t, active)
    \/ Publish(o)
    \/ ComputeHold(o)
    \/ SyncDeliveryControl(o)
    \/ OperatorDies(o)

(* The directory as lab:init leaves it, or empty.  A missing delivery file *)
(* is a hold.                                                              *)
ControlInit ==
  /\ now = 0
  /\ \E global \in {NoDocument, NewDocument(0, FALSE)} :
       files = [t \in Target |-> IF t = Global THEN global ELSE NoDocument]
  /\ hold = TRUE
  /\ op = [o \in Operator |-> IdleOperator]
  /\ commands = 0
  /\ deaths = 0

ControlTypeOK ==
  /\ files \in [Target -> Document \cup {NoDocument}]
  /\ hold \in BOOLEAN
  /\ op \in [Operator -> [step : {"idle", "publish", "compute", "sync"},
                          target : Target,
                          document : Document \cup {NoDocument},
                          hold : BOOLEAN]]
  /\ now \in 0 .. Horizon
  /\ commands \in 0 .. CommandBudget
  /\ deaths \in 0 .. DeathBudget
=============================================================================
