------------------------ MODULE RuntimeControlProofs ------------------------
(***************************************************************************)
(* For every set of scopes and every lifetime of a document: the page's    *)
(* gate does what it reports and its loop lives, whoever writes the        *)
(* documents; one operator's commands keep the hold file and the revisions *)
(* in order, and every kill switch a page receives closes it; and the      *)
(* lab's locked kill switch stays as it was switched.                      *)
(***************************************************************************)
EXTENDS RuntimeControl, FiniteSetTheorems, TLAPS

(***************************************************************************)
(* The highest revision on file.                                           *)
(***************************************************************************)

(* A set without a highest revision would have a smallest nonempty subset  *)
(* without one, and taking an element from that leaves one that has.       *)
LEMMA HighestExists ==
  ASSUME NEW S, IsFiniteSet(S), S # {}, NEW f, \A x \in S : f[x] \in Int
  PROVE  \E x \in S : \A y \in S : f[y] <= f[x]
<1> DEFINE HasHighest(T) == \E x \in T : \A y \in T : f[y] <= f[x]
           R == StrictSubsetOrdering(S)
           Bad == {T \in FiniteSubsetsOf(S) : T # {} /\ ~ HasHighest(T)}
<1>1. SUFFICES ASSUME ~ HasHighest(S) PROVE FALSE
  OBVIOUS
<1>2. Bad \subseteq FiniteSubsetsOf(S) /\ Bad # {}
  BY <1>1 DEF FiniteSubsetsOf
<1>3. IsWellFoundedOn(R, FiniteSubsetsOf(S))
  BY FS_StrictSubsetOrderingWellFounded
<1>4. PICK T \in Bad : \A U \in Bad : <<U, T>> \notin R
  <2> HIDE DEF R, Bad
  <2> QED
    BY <1>2, <1>3, WFMin
<1>5. T \subseteq S /\ IsFiniteSet(T) /\ T # {} /\ ~ HasHighest(T)
  BY DEF FiniteSubsetsOf
<1>6. PICK x : x \in T
  BY <1>5
<1>7. /\ T \ {x} \in FiniteSubsetsOf(S)
      /\ <<T \ {x}, T>> \in R
  <2>1. IsFiniteSet(T \ {x})
    BY <1>5, FS_Subset
  <2> QED
    BY <1>5, <1>6, <2>1 DEF FiniteSubsetsOf, StrictSubsetOrdering
<1>8. CASE T \ {x} = {}
  <2>1. \A y \in T : y = x
    BY <1>8
  <2> QED
    BY <1>5, <1>6, <2>1
<1>9. CASE HasHighest(T \ {x})
  <2>1. PICK h \in T \ {x} : \A y \in T \ {x} : f[y] <= f[h]
    BY <1>9
  <2>2. f[x] \in Int /\ f[h] \in Int /\ \A y \in T : f[y] \in Int
    BY <1>5, <1>6
  <2>3. CASE f[x] <= f[h]
    BY <1>5, <2>1, <2>3
  <2>4. CASE f[h] <= f[x]
    <3>1. \A y \in T : f[y] <= f[x]
      BY <2>1, <2>2, <2>4
    <3> QED
      BY <1>5, <1>6, <3>1
  <2> QED
    BY <2>2, <2>3, <2>4
<1> QED
  BY <1>4, <1>7, <1>8, <1>9

(* A document, or a missing one.                                           *)
LEMMA DocumentFields ==
  ASSUME NEW d \in Document \cup {NoDocument}
  PROVE  /\ d.revision \in Int /\ d.revision >= -1
         /\ d.active \in BOOLEAN /\ d.expires \in Nat
         /\ d # NoDocument => d \in Document /\ d.revision \in Nat
         /\ d.active => d # NoDocument
<1>1. /\ NoDocument.revision = -1 /\ NoDocument.active = FALSE
      /\ NoDocument.expires = 0
  BY DEF NoDocument
<1>2. NoDocument.active \in BOOLEAN
  BY <1>1, Zenon
<1>3. CASE d = NoDocument
  BY <1>1, <1>2, <1>3
<1>4. CASE d \in Document
  <2>1. d.revision \in Nat /\ d.active \in BOOLEAN /\ d.expires \in Nat
    BY <1>4 DEF Document
  <2> QED
    BY <1>1, <1>4, <2>1
<1> QED
  BY <1>3, <1>4

LEMMA HighestRevision ==
  ASSUME ControlTypeOK
  PROVE  /\ MaxControlRevision \in Int /\ MaxControlRevision >= -1
         /\ \A t \in Target : files[t].revision <= MaxControlRevision
         /\ \E t \in Target : files[t].revision = MaxControlRevision
<1> DEFINE f == [t \in Target |-> files[t].revision]
           R == {files[t].revision : t \in Target}
<1>1. \A t \in Target : f[t] = files[t].revision /\ f[t] \in Int /\ f[t] >= -1
  BY DocumentFields DEF ControlTypeOK
<1>2. IsFiniteSet(Target) /\ Target # {}
  BY ScopeAssumption, FS_AddElement DEF Target
<1>3. PICK t \in Target : \A u \in Target : f[u] <= f[t]
  <2> HIDE DEF f
  <2> QED
    BY <1>1, <1>2, HighestExists
<1>4. f[t] \in R /\ \A x \in R : f[t] >= x
  BY <1>1, <1>3
<1>5. Max(R) \in R /\ \A x \in R : Max(R) >= x
  BY <1>4 DEF Max
<1> QED
  BY <1>1, <1>5 DEF MaxControlRevision

LEMMA NewDocumentType ==
  ASSUME ControlTypeOK, NEW r \in Nat, NEW active \in BOOLEAN
  PROVE  /\ NewDocument(r, active) \in Document
         /\ NewDocument(r, active).revision = r
         /\ NewDocument(r, active).active = active
BY TimeAssumption DEF NewDocument, Document, ControlTypeOK

(***************************************************************************)
(* Types.                                                                  *)
(***************************************************************************)
LEMMA OperatorTypes ==
  ASSUME ControlTypeOK, OperatorStep \/ Tick
  PROVE  ControlTypeOK'
<1> USE TimeAssumption, BudgetAssumption DEF ControlTypeOK
<1>1. CASE Tick
  BY <1>1 DEF Tick
<1>2. ASSUME NEW o \in Operator, NEW t \in Target, NEW active \in BOOLEAN, Begin(o, t, active)
      PROVE  ControlTypeOK'
  <2>1. MaxControlRevision + 1 \in Nat
    BY HighestRevision
  <2>2. NewDocument(MaxControlRevision + 1, active) \in Document
    BY <2>1, NewDocumentType
  <2> QED
    BY <1>2, <2>2 DEF Begin, Spend
<1>3. ASSUME NEW o \in Operator, Publish(o)
      PROVE  ControlTypeOK'
  BY <1>3 DEF Publish
<1>4. ASSUME NEW o \in Operator, ComputeHold(o)
      PROVE  ControlTypeOK'
  <2>1. DeliveryHold \in BOOLEAN
    BY DEF DeliveryHold
  <2> QED
    BY <1>4, <2>1, ZenonT(30) DEF ComputeHold
<1>5. ASSUME NEW o \in Operator, SyncDeliveryControl(o) \/ OperatorDies(o)
      PROVE  ControlTypeOK'
  <2>1. IdleOperator \in [step : {"idle", "publish", "compute", "sync"}, target : Target,
                          document : Document \cup {NoDocument}, hold : BOOLEAN]
    BY DEF IdleOperator, Target
  <2> QED
    BY <1>5, <2>1 DEF SyncDeliveryControl, OperatorDies, Dies
<1> QED
  BY <1>1, <1>2, <1>3, <1>4, <1>5 DEF OperatorStep

LEMMA LabTypes ==
  ASSUME ControlTypeOK, LabTypeOK, LabStep
  PROVE  ControlTypeOK' /\ LabTypeOK'
<1> USE TimeAssumption, BudgetAssumption, NoOneAssumption DEF ControlTypeOK, LabTypeOK
<1>1. Global \in Target /\ files[Global] \in Document \cup {NoDocument}
  BY DEF Target
<1>2. ASSUME NEW active \in BOOLEAN
      PROVE  NextLabDocument(active) \in Document
  <2>1. files[Global].revision + 1 \in Nat
    BY <1>1, DocumentFields
  <2> QED
    BY <2>1, NewDocumentType DEF NextLabDocument
<1>3. IdleLab \in [step : {"idle", "lock", "gate", "build", "publish", "deliver"},
                   active : BOOLEAN, document : Document \cup {NoDocument}]
  BY DEF IdleLab
<1>4. ASSUME NEW l \in Lab, NEW active \in BOOLEAN, LabBegin(l, active)
      PROVE  ControlTypeOK' /\ LabTypeOK'
  <2>1. [IdleLab EXCEPT !.step = "lock", !.active = active]
          \in [step : {"idle", "lock", "gate", "build", "publish", "deliver"},
               active : BOOLEAN, document : Document \cup {NoDocument}]
    BY DEF IdleLab
  <2> QED
    BY <1>4, <2>1 DEF LabBegin, Spend
<1>5. ASSUME NEW l \in Lab, LabLock(l) \/ LabGivesUp(l)
      PROVE  ControlTypeOK' /\ LabTypeOK'
  BY <1>3, <1>5 DEF LabLock, LabGivesUp, LabGoes, controlVars
<1>6. ASSUME NEW l \in Lab, SetProxyGate(l)
      PROVE  ControlTypeOK' /\ LabTypeOK'
  BY <1>3, <1>6 DEF SetProxyGate, LabReturns, LabGoes, controlVars
<1>7. ASSUME NEW l \in Lab, BuildLabDocument(l)
      PROVE  ControlTypeOK' /\ LabTypeOK'
  <2>1. lab[l].active \in BOOLEAN
    OBVIOUS
  <2>2. PICK d \in Document : lab' = [lab EXCEPT ![l].step = "publish", ![l].document = d]
    BY <1>2, <1>7, <2>1 DEF BuildLabDocument
  <2>3. UNCHANGED <<controlVars, lock, proxy, daemon, wanted, decided>>
    BY <1>7 DEF BuildLabDocument
  <2>4. lab'[l] = [lab[l] EXCEPT !.step = "publish", !.document = d]
    BY <2>2
  <2>5. lab'[l] \in [step : {"publish"}, active : BOOLEAN, document : Document]
    <3>1. lab[l] \in [step : {"idle", "lock", "gate", "build", "publish", "deliver"},
                     active : BOOLEAN, document : Document \cup {NoDocument}]
      OBVIOUS
    <3> QED
      BY <2>4, <3>1
  <2>6. lab' = [lab EXCEPT ![l] = lab'[l]]
    BY <2>2
  <2> QED
    BY <2>3, <2>5, <2>6 DEF controlVars
<1>8. ASSUME NEW l \in Lab, PublishLabDocument(l)
      PROVE  ControlTypeOK' /\ LabTypeOK'
  BY <1>1, <1>8 DEF PublishLabDocument, LabGoes
<1>9. ASSUME NEW l \in Lab, WriteDeliveryControl(l)
      PROVE  ControlTypeOK' /\ LabTypeOK'
  <2>1. lab[l].active \in BOOLEAN
    OBVIOUS
  <2>2. ControlTypeOK'
    BY <1>9, <2>1 DEF WriteDeliveryControl
  <2>3. LabTypeOK'
    <3>1. UNCHANGED <<proxy, daemon>>
      BY <1>9 DEF WriteDeliveryControl
    <3>2. CASE lab[l].active
      BY <1>3, <1>9, <3>1, <3>2 DEF WriteDeliveryControl, LabReturns
    <3>3. CASE ~ lab[l].active
      BY <1>9, <3>1, <3>3 DEF WriteDeliveryControl, LabGoes
    <3> QED
      BY <3>2, <3>3
  <2> QED
    BY <2>2, <2>3
<1>10. ASSUME NEW l \in Lab, LabDies(l)
       PROVE  ControlTypeOK' /\ LabTypeOK'
  BY <1>3, <1>10 DEF LabDies, Dies
<1>11. CASE DaemonReads
  <2>1. files[Global].active \in BOOLEAN
    BY <1>1, DocumentFields
  <2> QED
    BY <1>2, <1>11, <2>1 DEF DaemonReads, Spend
<1>12. CASE DaemonWrites
  BY <1>1, <1>12 DEF DaemonWrites
<1> QED
  BY <1>4, <1>5, <1>6, <1>7, <1>8, <1>9, <1>10, <1>11, <1>12 DEF LabStep

LEMMA PageTypes ==
  ASSUME ControlTypeOK, PageTypeOK, PageStep
  PROVE  PageTypeOK'
<1> USE TimeAssumption DEF PageTypeOK, ControlTypeOK
<1> DEFINE Flight == [step : {"none", "asked", "answered", "aborted"},
                      document : Document \cup {NoDocument},
                      since : 0 .. Horizon, again : BOOLEAN]
<1>1. NoFlight \in Flight /\ Asked(TRUE) \in Flight /\ Asked(FALSE) \in Flight
  BY DEF NoFlight, Asked
<1>2. Resolve(PageScope) \in Document \cup {NoDocument}
  BY PageScopeAssumption DEF Resolve, Target
<1>3. CASE InitialFetch \/ StartLoop \/ Reload
  BY <1>1, <1>3 DEF InitialFetch, StartLoop, Reload
<1>4. CASE StopLoop \/ TimerFires \/ Wakeup
  <2>1. CASE StopLoop
    BY <1>1, <2>1 DEF StopLoop, Aborted, NoFlight
  <2>2. CASE TimerFires
    BY <1>1, <2>2 DEF TimerFires
  <2>3. CASE Wakeup
    BY <1>1, <2>3 DEF Wakeup
  <2> QED
    BY <1>4, <2>1, <2>2, <2>3
<1>5. CASE ServeDocument
  BY <1>2, <1>5 DEF ServeDocument
<1>6. FlightEnds => flight' \in Flight /\ timer' \in BOOLEAN
  BY <1>1 DEF FlightEnds
<1>7. CASE FetchFails
  BY <1>6, <1>7 DEF FetchFails, FlightEnds, FailureState
<1>8. CASE RejectInvalid
  BY <1>6, <1>8 DEF RejectInvalid, FlightEnds
<1>9. CASE Apply
  BY <1>6, <1>9 DEF Apply, FlightEnds
<1> QED
  BY <1>3, <1>4, <1>5, <1>7, <1>8, <1>9 DEF PageStep

LEMMA NextTypes ==
  ASSUME TypeOK, [Next]_vars
  PROVE  TypeOK'
<1> USE DEF TypeOK
<1>1. CASE OperatorsAlone
  <2>1. ControlTypeOK'
    BY <1>1, OperatorTypes DEF OperatorsAlone
  <2> QED
    BY <1>1, <2>1 DEF OperatorsAlone, pageVars, LabTypeOK, PageTypeOK
<1>2. CASE LabAlone
  BY <1>2, LabTypes DEF LabAlone, pageVars, PageTypeOK
<1>3. CASE PageAlone(PageStep)
  BY <1>3, PageTypes DEF PageAlone, controlVars, labVars, ControlTypeOK, LabTypeOK
<1>4. CASE UNCHANGED vars
  BY <1>4 DEF vars, controlVars, labVars, pageVars, ControlTypeOK, LabTypeOK, PageTypeOK
<1> QED
  BY <1>1, <1>2, <1>3, <1>4 DEF Next

LEMMA InitTypes == Init => TypeOK
<1> SUFFICES ASSUME Init PROVE TypeOK
  OBVIOUS
<1> USE TimeAssumption, BudgetAssumption DEF Init
<1>1. ControlTypeOK
  <2>1. now = 0
    BY DEF ControlInit
  <2>2. NewDocument(0, FALSE) \in Document
    BY <2>1 DEF NewDocument, Document
  <2>3. hold \in BOOLEAN /\ TRUE \in BOOLEAN
    BY Zenon DEF ControlInit
  <2>4. files \in [Target -> Document \cup {NoDocument}]
    BY <2>2 DEF ControlInit
  <2>5. op \in [Operator -> [step : {"idle", "publish", "compute", "sync"}, target : Target,
                             document : Document \cup {NoDocument}, hold : BOOLEAN]]
    BY <2>3 DEF ControlInit, IdleOperator, Target
  <2> QED
    BY <2>1, <2>3, <2>4, <2>5 DEF ControlInit, ControlTypeOK
<1>2. LabTypeOK
  BY DEF LabInit, LabTypeOK, IdleLab
<1>3. PageTypeOK
  <2>1. latched \in BOOLEAN /\ loop \in BOOLEAN /\ timer \in BOOLEAN /\ FALSE \in BOOLEAN
    BY Zenon DEF PageInit
  <2> QED
    BY <2>1 DEF PageInit, PageTypeOK, NoFlight
<1> QED
  BY <1>1, <1>2, <1>3 DEF TypeOK

(***************************************************************************)
(* The page.                                                               *)
(***************************************************************************)
LEMMA PageStepKeeps ==
  ASSUME PageInv, PageStep, UNCHANGED controlVars, TypeOK'
  PROVE  PageInv'
<1> USE DEF PageInv, LoopNeverDies, Refreshing
<1>1. UNCHANGED now /\ now \in Nat
  BY TimeAssumption DEF controlVars, TypeOK, ControlTypeOK
<1>2. /\ flight.step \in {"none", "asked", "answered", "aborted"}
      /\ flight.again \in BOOLEAN /\ timer \in BOOLEAN /\ loop \in BOOLEAN
  BY DEF TypeOK, PageTypeOK
<1>3. CASE InitialFetch
  BY <1>1, <1>3 DEF InitialFetch, Asked
<1>4. CASE StartLoop \/ Reload
  BY <1>1, <1>4 DEF StartLoop, Reload, NoFlight
<1>5. CASE StopLoop
  BY <1>1, <1>2, <1>5 DEF StopLoop, Aborted, NoFlight
<1>6. CASE TimerFires
  BY <1>1, <1>6 DEF TimerFires, Asked, TypeOK, PageTypeOK
<1>7. CASE Wakeup
  BY <1>1, <1>7 DEF Wakeup, Asked
<1>8. CASE ServeDocument
  BY <1>1, <1>8 DEF ServeDocument, TypeOK, PageTypeOK
<1>9. FlightEnds => /\ flight'.step = "none" /\ loop' = loop
                    /\ timer' = (timer \/ (flight.again /\ loop))
  <2>1. FlightEnds => loop' = loop /\ timer' = (timer \/ (flight.again /\ loop))
    BY Zenon DEF FlightEnds
  <2> QED
    BY <2>1 DEF FlightEnds, NoFlight
<1>10. CASE FetchFails
  <2>1. current # NoDocument => current.expires \in Nat
    BY DocumentFields DEF TypeOK, PageTypeOK
  <2> QED
    BY <1>1, <1>2, <1>9, <1>10, <2>1 DEF FetchFails, FailureState
<1>11. CASE RejectInvalid \/ Apply
  <2>1. /\ FlightEnds /\ outcome' # "expired" /\ flight.step = "answered"
        /\ current' = current \/ (current' # NoDocument /\ ~ loop)
           \/ (current' # NoDocument /\ loop)
    <3>1. flight.document.revision > current.revision => flight.document # NoDocument
      BY DocumentFields DEF NoDocument, TypeOK, PageTypeOK
    <3> QED
      BY <1>11, <3>1 DEF RejectInvalid, Apply
  <2> QED
    BY <1>1, <1>2, <1>9, <2>1
<1> QED
  BY <1>3, <1>4, <1>5, <1>6, <1>7, <1>8, <1>10, <1>11 DEF PageStep

LEMMA PageInvStep == PageInv /\ [Next]_vars => PageInv'
<1> SUFFICES ASSUME PageInv, [Next]_vars PROVE PageInv'
  OBVIOUS
<1>1. TypeOK'
  BY NextTypes DEF PageInv
<1>2. CASE PageAlone(PageStep)
  BY <1>1, <1>2, PageStepKeeps DEF PageAlone
<1>3. CASE UNCHANGED pageVars /\ (OperatorStep \/ Tick \/ LabStep \/ UNCHANGED now)
  <2>1. now' \in Nat /\ now \in Nat /\ now <= now'
    <3>1. UNCHANGED now \/ Tick
      BY <1>3 DEF OperatorStep, Begin, Publish, ComputeHold, SyncDeliveryControl, OperatorDies,
         LabStep, LabBegin, LabLock, LabGivesUp, SetProxyGate, BuildLabDocument,
         PublishLabDocument, WriteDeliveryControl, LabDies, DaemonReads, DaemonWrites, controlVars
    <3> QED
      BY <3>1, TimeAssumption DEF Tick, PageInv, TypeOK, ControlTypeOK
  <2>2. current # NoDocument => current.expires \in Nat
    BY DocumentFields DEF PageInv, TypeOK, PageTypeOK
  <2> QED
    BY <1>1, <1>3, <2>1, <2>2 DEF PageInv, LoopNeverDies, Refreshing, pageVars
<1>4. CASE OperatorsAlone \/ LabAlone \/ UNCHANGED vars
  BY <1>3, <1>4 DEF OperatorsAlone, LabAlone, vars, controlVars
<1> QED
  BY <1>2, <1>4 DEF Next

LEMMA PageInvHolds == Spec => []PageInv
<1>1. Init => PageInv
  BY InitTypes DEF Init, PageInit, PageInv, LoopNeverDies, Refreshing, NoFlight
<1> QED
  BY <1>1, PageInvStep, PTL DEF Spec

(* An expired document is never reported as anything else, so the state    *)
(* tells whether the gate is open.                                         *)
LEMMA StateTellsGate == PageInv => GateMatchesState
<1> SUFFICES ASSUME PageInv PROVE GateMatchesState
  OBVIOUS
<1>1. /\ latched \in BOOLEAN
      /\ outcome \in {"none", "fresh", "degraded", "expired", "invalid", "rollback-rejected"}
      /\ now \in Nat /\ current.expires \in Nat
  BY DocumentFields, TimeAssumption DEF PageInv, TypeOK, PageTypeOK, ControlTypeOK
<1>2. CASE latched
  BY <1>2 DEF GateMatchesState, GateOpen, PageState
<1>3. CASE current = NoDocument
  BY <1>3 DEF GateMatchesState, GateOpen
<1>4. CASE ~ latched /\ current # NoDocument /\ current.expires <= now
  BY <1>1, <1>4 DEF GateMatchesState, GateOpen, PageState
<1>5. CASE ~ latched /\ current # NoDocument /\ ~ (current.expires <= now)
  <2>1. PageState = IF Refreshing THEN "refreshing" ELSE outcome
    BY <1>5 DEF PageState
  <2>2. outcome # "expired"
    BY <1>5 DEF PageInv
  <2>3. PageState \notin {"kill-switched", "expired"}
    BY <1>1, <2>1, <2>2
  <2> QED
    BY <1>1, <1>5, <2>3 DEF GateMatchesState, GateOpen
<1> QED
  BY <1>1, <1>2, <1>3, <1>4, <1>5

(* Whoever writes the documents, in whatever order: the page's gate is     *)
(* open exactly when its reported state says so, and a started loop has a  *)
(* timer or a fetch that will set one.                                     *)
THEOREM PageIsSound == Spec => []PageOK
<1>1. PageInv => PageOK
  BY StateTellsGate DEF PageInv, PageOK
<1> QED
  BY <1>1, PageInvHolds, PTL

(***************************************************************************)
(* Operator commands, one after another.  Two at once can leave the hold   *)
(* file behind the documents: each is a process of its own and takes no    *)
(* lock.                                                                   *)
(***************************************************************************)
OneCommandAtATime == \A o, p \in Operator : o = p

OperatorNext == OperatorsAlone \/ PageAlone(PageStep)

(* A deployment stays one, and has no lab.                                 *)
LEMMA DeploymentSteps ==
  ASSUME place = "deployment", [Next]_vars
  PROVE  [OperatorNext]_vars /\ place' = "deployment"
<1>1. ~ LabAlone
  BY DEF LabAlone
<1>2. UNCHANGED place
  BY <1>1 DEF Next, OperatorsAlone, PageAlone, vars
<1> QED
  BY <1>1, <1>2 DEF Next, OperatorNext

LEMMA PlaceStays == [Next]_vars => UNCHANGED place
BY DEF Next, OperatorsAlone, LabAlone, PageAlone, vars

LEMMA TypesHold == Spec => []TypeOK
BY InitTypes, NextTypes, PTL DEF Spec

(* The clock only ends a kill switch that is in force.                     *)
LEMMA KillEnds ==
  ASSUME TypeOK, TypeOK', UNCHANGED files, now <= now', KillOnFile'
  PROVE  KillOnFile
<1>1. \A t \in Target : /\ files[t].expires \in Nat
                        /\ now \in Nat /\ now' \in Nat
  BY DocumentFields, TimeAssumption DEF TypeOK, ControlTypeOK
<1> QED
  BY <1>1 DEF KillOnFile, Valid, ValidAt

(* A kill switch in force, for everybody or for one scope, is a hold.      *)
LEMMA KillIsHold == KillOnFile => DeliveryHold
BY DEF KillOnFile, DeliveryHold, Target

LEMMA HoldStep ==
  ASSUME OneCommandAtATime, TypeOK, TypeOK', HoldInv, [OperatorNext]_vars
  PROVE  HoldInv'
<1> USE DEF TypeOK, ControlTypeOK
<1>1. SUFFICES ASSUME deaths' = 0, KillOnFile'
               PROVE  /\ (\A o \in Operator : op'[o].step \in {"idle", "publish"}) => hold'
                      /\ \A o \in Operator : op'[o].step = "sync" => op'[o].hold
  BY DEF HoldInv
<1>2. now \in Nat /\ now' \in Nat
  BY TimeAssumption
<1>3. CASE Tick \/ UNCHANGED controlVars
  <2>1. UNCHANGED <<files, hold, op, deaths>> /\ now <= now'
    BY <1>2, <1>3 DEF Tick, controlVars
  <2> QED
    BY <1>1, <2>1, KillEnds DEF HoldInv
<1>4. ASSUME NEW o \in Operator, NEW t \in Target, NEW active \in BOOLEAN, Begin(o, t, active)
      PROVE  HoldInv'
  <2>1. /\ UNCHANGED <<files, hold, now, deaths>>
        /\ op[o].step = "idle" /\ op'[o].step = "publish"
        /\ \A p \in Operator : p = o
    BY <1>4 DEF Begin, OneCommandAtATime
  <2>2. KillOnFile
    BY <1>1, <1>2, <2>1, KillEnds
  <2> QED
    BY <1>1, <2>1, <2>2 DEF HoldInv
<1>5. ASSUME NEW o \in Operator, Publish(o)
      PROVE  HoldInv'
  <2>1. op'[o].step = "compute" /\ \A p \in Operator : p = o
    BY <1>5 DEF Publish, OneCommandAtATime
  <2> QED
    BY <2>1 DEF HoldInv
<1>6. ASSUME NEW o \in Operator, ComputeHold(o)
      PROVE  HoldInv'
  <2>1. op'[o].step = "sync" /\ UNCHANGED <<files, hold, now, deaths>>
        /\ \A p \in Operator : p = o
    BY <1>6 DEF ComputeHold, OneCommandAtATime
  <2>2. op'[o].hold = DeliveryHold
    BY <1>6 DEF ComputeHold
  <2>3. KillOnFile
    BY <1>1, <1>2, <2>1, KillEnds
  <2> QED
    BY <2>1, <2>2, <2>3, KillIsHold DEF HoldInv
<1>7. ASSUME NEW o \in Operator, SyncDeliveryControl(o)
      PROVE  HoldInv'
  <2>1. /\ op[o].step = "sync" /\ op'[o].step = "idle" /\ UNCHANGED <<files, now, deaths>>
        /\ \A p \in Operator : p = o
    BY <1>7 DEF SyncDeliveryControl, IdleOperator, OneCommandAtATime
  <2>2. KillOnFile
    BY <1>1, <1>2, <2>1, KillEnds
  <2>3. op[o].hold
    BY <1>1, <2>1, <2>2 DEF HoldInv
  <2>4. hold'
    BY <1>7, <2>3, Zenon DEF SyncDeliveryControl
  <2> QED
    BY <2>1, <2>4 DEF HoldInv
<1>8. ASSUME NEW o \in Operator, OperatorDies(o)
      PROVE  FALSE
  BY <1>1, <1>8, BudgetAssumption DEF OperatorDies, Dies
<1> QED
  BY <1>1, <1>3, <1>4, <1>5, <1>6, <1>7, <1>8
  DEF OperatorNext, OperatorsAlone, OperatorStep, PageAlone, vars, HoldInv

(* Between the commands of one operator that was never interrupted, the    *)
(* delivery worker of a deployment is held whenever a kill switch is in    *)
(* force for anybody.                                                      *)
THEOREM HoldFollowsKill == OneCommandAtATime => (Spec => []DeliveryFollowsKill)
<1> SUFFICES ASSUME OneCommandAtATime PROVE Spec => []DeliveryFollowsKill
  OBVIOUS
<1> DEFINE Inv == place = "deployment" => HoldInv
<1>1. Init => Inv
  BY DEF Init, ControlInit, HoldInv, IdleOperator
<1>2. TypeOK /\ TypeOK' /\ Inv /\ [Next]_vars => Inv'
  BY HoldStep, DeploymentSteps, PlaceStays
<1>3. Inv => DeliveryFollowsKill
  BY DEF HoldInv, DeliveryFollowsKill, OperatorsIdle
<1> QED
  BY <1>1, <1>2, <1>3, TypesHold, PTL DEF Spec

(***************************************************************************)
(* The lab's locked kill switch, beside a refresh daemon and operators     *)
(* that write the global document without the lock.                        *)
(***************************************************************************)
LEMMA NextLabFields ==
  ASSUME ControlTypeOK, NEW active \in BOOLEAN
  PROVE  /\ NextLabDocument(active) \in Document
         /\ NextLabDocument(active).active = active
         /\ NextLabDocument(active) # NoDocument
<1>1. files[Global].revision + 1 \in Nat
  BY DocumentFields DEF ControlTypeOK, Target
<1>2. NextLabDocument(active) \in Document /\ NextLabDocument(active).active = active
  BY <1>1, NewDocumentType DEF NextLabDocument
<1>3. NoDocument \notin Document
  BY DEF NoDocument, Document
<1> QED
  BY <1>2, <1>3

LEMMA SwitchStep ==
  ASSUME TypeOK, SwitchInv, LabStep
  PROVE  SwitchInv'
<1> USE DEF TypeOK, ControlTypeOK, LabTypeOK, SwitchInv, SwitchHolds, KillHasProxyClosed,
            SwitchStaysOn
<1>1. /\ Global \in Target /\ files[Global].active \in BOOLEAN
      /\ \A l \in Lab : lab[l].active \in BOOLEAN /\ l # NoOne
  BY DocumentFields, NoOneAssumption DEF Target
<1>2. ASSUME NEW l \in Lab, NEW active \in BOOLEAN, LabBegin(l, active)
      PROVE  SwitchInv'
  <2>1. lab'[l].step = "lock" /\ UNCHANGED <<files, lock, proxy, wanted, decided>>
        /\ \A m \in Lab \ {l} : lab'[m] = lab[m]
    BY <1>2 DEF LabBegin, IdleLab
  <2> QED
    BY <2>1
<1>3. ASSUME NEW l \in Lab, LabLock(l)
      PROVE  SwitchInv'
  BY <1>1, <1>3 DEF LabLock, LabGoes, controlVars
<1>4. ASSUME NEW l \in Lab, LabGivesUp(l)
      PROVE  SwitchInv'
  <2>1. lab'[l].step = "idle" /\ UNCHANGED <<files, lock, proxy, wanted, decided>>
        /\ \A m \in Lab \ {l} : lab'[m] = lab[m]
    BY <1>4 DEF LabGivesUp, IdleLab, controlVars
  <2> QED
    BY <2>1
<1>5. ASSUME NEW l \in Lab, SetProxyGate(l)
      PROVE  SwitchInv'
  BY <1>1, <1>5 DEF SetProxyGate, LabGoes, LabReturns, IdleLab, controlVars
<1>6. ASSUME NEW l \in Lab, BuildLabDocument(l)
      PROVE  SwitchInv'
  BY <1>1, <1>6, NextLabFields DEF BuildLabDocument, controlVars
<1>7. ASSUME NEW l \in Lab, PublishLabDocument(l)
      PROVE  SwitchInv'
  BY <1>1, <1>7 DEF PublishLabDocument, LabGoes
<1>8. ASSUME NEW l \in Lab, WriteDeliveryControl(l)
      PROVE  SwitchInv'
  BY <1>1, <1>8 DEF WriteDeliveryControl, LabGoes, LabReturns, IdleLab
<1>9. ASSUME NEW l \in Lab, LabDies(l)
      PROVE  SwitchInv'
  <2>1. lab'[l].step = "idle" /\ UNCHANGED <<files, lock, proxy, wanted, decided>>
        /\ \A m \in Lab \ {l} : lab'[m] = lab[m]
    BY <1>9 DEF LabDies, IdleLab
  <2> QED
    BY <2>1
<1>10. CASE DaemonReads
  BY <1>1, <1>10, NextLabFields DEF DaemonReads
<1>11. CASE DaemonWrites
  BY <1>1, <1>11 DEF DaemonWrites
<1> QED
  BY <1>2, <1>3, <1>4, <1>5, <1>6, <1>7, <1>8, <1>9, <1>10, <1>11 DEF LabStep

(* Nobody else touches the lock, the proxy or the commands; what an        *)
(* operator writes is not the lab's decision.                              *)
LEMMA OthersKeepSwitch ==
  ASSUME SwitchInv, OperatorsAlone \/ PageAlone(PageStep) \/ UNCHANGED vars
  PROVE  SwitchInv'
<1>1. UNCHANGED <<lab, lock, proxy, wanted>>
  BY DEF OperatorsAlone, PageAlone, vars, labVars
<1>2. decided' = "lab" => decided = "lab" /\ UNCHANGED files[Global]
  <2>1. CASE OperatorsAlone
    BY <2>1 DEF OperatorsAlone
  <2>2. CASE PageAlone(PageStep) \/ UNCHANGED vars
    BY <2>2 DEF PageAlone, vars, controlVars, labVars
  <2> QED
    BY <2>1, <2>2
<1> QED
  BY <1>1, <1>2 DEF SwitchInv, SwitchHolds, KillHasProxyClosed, SwitchStaysOn

(* However commands stop half-way and whatever refreshes and operators     *)
(* write in between: as long as the global document says what the lab's    *)
(* commands decided, its kill switch has the proxy closed, and stays on    *)
(* until a command begins to switch it off.                                *)
THEOREM SwitchStays == Spec => []SwitchHolds
<1>1. Init => SwitchInv
  BY DEF Init, ControlInit, LabInit, SwitchInv, SwitchHolds, KillHasProxyClosed, SwitchStaysOn,
     Target, NoDocument, NewDocument, IdleLab
<1>2. TypeOK /\ SwitchInv /\ [Next]_vars => SwitchInv'
  BY SwitchStep, OthersKeepSwitch DEF Next, LabAlone
<1>3. SwitchInv => SwitchHolds
  BY DEF SwitchInv
<1> QED
  BY <1>1, <1>2, <1>3, TypesHold, PTL DEF Spec

(***************************************************************************)
(* One operator's revisions, and what a page makes of them.                *)
(***************************************************************************)
LEMMA NewestStep ==
  ASSUME OneCommandAtATime, TypeOK, NewestInv, [OperatorNext]_vars
  PROVE  NewestInv'
<1> USE DEF TypeOK, ControlTypeOK, NewestInv
<1>1. CASE Tick \/ UNCHANGED controlVars
  BY <1>1 DEF Tick, controlVars
<1>2. ASSUME NEW o \in Operator, NEW t \in Target, NEW active \in BOOLEAN, Begin(o, t, active)
      PROVE  NewestInv'
  <2>1. MaxControlRevision + 1 \in Nat /\ \A u \in Target : files[u].revision \in Int
    BY HighestRevision, DocumentFields
  <2>2. UNCHANGED files /\ \A p \in Operator : p = o
    BY <1>2 DEF Begin, OneCommandAtATime
  <2>3. op'[o].document.revision = MaxControlRevision + 1
    BY <1>2, <2>1, NewDocumentType DEF Begin
  <2> QED
    BY <2>1, <2>2, <2>3, HighestRevision
<1>3. ASSUME NEW o \in Operator, Publish(o) \/ ComputeHold(o) \/ SyncDeliveryControl(o) \/ OperatorDies(o)
      PROVE  NewestInv'
  <2>1. op'[o].step # "publish" /\ \A p \in Operator : p = o
    BY <1>3 DEF Publish, ComputeHold, SyncDeliveryControl, OperatorDies, IdleOperator, OneCommandAtATime
  <2> QED
    BY <2>1
<1> QED
  BY <1>1, <1>2, <1>3 DEF OperatorNext, OperatorsAlone, OperatorStep, PageAlone, vars

(* What a step does to the files: nothing, or one newer document.          *)
LEMMA Published ==
  ASSUME TypeOK, NewestInv, [OperatorNext]_vars, ~ UNCHANGED files
  PROVE  \E u \in Target :
           /\ files' = [files EXCEPT ![u] = files'[u]]
           /\ files'[u] \in Document \cup {NoDocument}
           /\ \A t \in Target : files[t].revision < files'[u].revision
           /\ UNCHANGED <<now, pageVars>>
<1> USE DEF TypeOK, ControlTypeOK
<1>1. PICK o \in Operator : Publish(o) /\ UNCHANGED pageVars
  BY DEF OperatorNext, OperatorsAlone, OperatorStep, PageAlone, vars, controlVars,
     Tick, Begin, ComputeHold, SyncDeliveryControl, OperatorDies
<1>2. /\ op[o].target \in Target /\ files'[op[o].target] = op[o].document
      /\ files' = [files EXCEPT ![op[o].target] = op[o].document]
      /\ \A t \in Target : files[t].revision < op[o].document.revision
      /\ op[o].document \in Document \cup {NoDocument}
  BY <1>1 DEF Publish, NewestInv
<1> QED
  BY <1>1, <1>2 DEF Publish

(* Each publication is newer than every document on file, and what a scope *)
(* is served goes back only to a kill switch: when one operator publishes. *)
LEMMA GrowStep ==
  ASSUME TypeOK, TypeOK', NewestInv, [OperatorNext]_vars
  PROVE  /\ files' # files => \E t \in Target : /\ files'[t] # files[t]
                                                /\ files'[t].revision > MaxControlRevision
         /\ \A s \in Scope :
              Valid(Resolve(s))' /\ Resolve(s)'.revision < Resolve(s).revision
                => Resolve(s)'.active
<1> USE DEF TypeOK, ControlTypeOK
<1>1. \A t \in Target : files[t].revision \in Int /\ files'[t].revision \in Int
  BY DocumentFields
<1>2. ASSUME NEW s \in Scope
      PROVE  s \in Target /\ Global \in Target /\ s # Global
  BY GlobalAssumption DEF Target
<1>3. CASE UNCHANGED files
  <2>1. ASSUME NEW s \in Scope, Resolve(s)' # Resolve(s), Valid(Resolve(s))'
        PROVE  FALSE
    <3>1. now' \in Nat /\ now \in Nat /\ now <= now' /\ files[Global].expires \in Nat
      <4>1. UNCHANGED now \/ Tick
        BY DEF OperatorNext, OperatorsAlone, OperatorStep, PageAlone, vars, controlVars,
           Begin, Publish, ComputeHold, SyncDeliveryControl, OperatorDies
      <4> QED
        BY <1>2, <2>1, <4>1, DocumentFields, TimeAssumption DEF Tick
    <3> QED
      BY <1>3, <2>1, <3>1 DEF Resolve, Valid, ValidAt
  <2> QED
    BY <1>1, <1>2, <1>3, <2>1 DEF Resolve
<1>4. CASE ~ UNCHANGED files
  <2>1. PICK u \in Target :
           /\ files' = [files EXCEPT ![u] = files'[u]]
           /\ files'[u] \in Document \cup {NoDocument}
           /\ \A t \in Target : files[t].revision < files'[u].revision
           /\ UNCHANGED <<now, pageVars>>
    BY <1>4, Published
  <2>2. \E t \in Target : files'[t] # files[t] /\ files'[t].revision > MaxControlRevision
    BY <1>1, <2>1, HighestRevision
  <2>3. ASSUME NEW s \in Scope, Valid(Resolve(s))', Resolve(s)'.revision < Resolve(s).revision
        PROVE  Resolve(s)'.active
    <3>1. s \in Target /\ Global \in Target /\ s # Global
      BY <1>2
    <3>2. Resolve(s) = files[s] \/ Resolve(s) = files[Global]
      BY DEF Resolve
    <3>3. CASE Resolve(s)' = files'[u]
      BY <1>1, <2>1, <2>3, <3>1, <3>2, <3>3
    <3>4. CASE u = Global /\ Resolve(s)' # files'[u]
      BY <1>1, <2>1, <2>3, <3>1, <3>4 DEF Resolve
    <3>5. CASE u = s /\ Resolve(s)' # files'[u]
      <4>1. files'[s] # NoDocument
        BY <1>1, <2>1, <3>1, <3>5, DocumentFields DEF NoDocument
      <4> QED
        BY <1>1, <2>1, <2>3, <3>1, <3>5, <4>1 DEF Resolve
    <3>6. CASE u # Global /\ u # s
      <4>1. files'[s] = files[s] /\ files'[Global] = files[Global] /\ UNCHANGED now
        BY <2>1, <3>1, <3>6
      <4>2. Resolve(s)' = Resolve(s)
        BY <4>1 DEF Resolve, Valid, ValidAt
      <4> QED
        BY <1>1, <2>3, <3>1, <3>2, <4>2
    <3> QED
      BY <3>3, <3>4, <3>5, <3>6
  <2> QED
    BY <2>2, <2>3
<1> QED
  BY <1>3, <1>4

(* The invariant of a deployment.                                          *)
DeploymentNewest == place = "deployment" => NewestInv

LEMMA DeploymentInvariants ==
  OneCommandAtATime => (Spec => [](TypeOK /\ DeploymentNewest))
<1> SUFFICES ASSUME OneCommandAtATime PROVE Spec => [](TypeOK /\ DeploymentNewest)
  OBVIOUS
<1>1. Init => DeploymentNewest
  BY DEF Init, ControlInit, NewestInv, IdleOperator, DeploymentNewest
<1>2. TypeOK /\ DeploymentNewest /\ [Next]_vars => DeploymentNewest'
  BY NewestStep, DeploymentSteps, PlaceStays DEF DeploymentNewest
<1> QED
  BY <1>1, <1>2, TypesHold, PTL DEF Spec

(* One operator's commands in a deployment, scoped or global, interrupted  *)
(* or not: each publication is newer than every document, and what a scope *)
(* is served goes back only to a kill switch.                              *)
THEOREM RevisionsOnlyGrow == OneCommandAtATime => (Spec => RevisionsGrow)
<1> SUFFICES ASSUME OneCommandAtATime PROVE Spec => RevisionsGrow
  OBVIOUS
<1>1. TypeOK /\ TypeOK' /\ DeploymentNewest /\ [Next]_vars
        => /\ [place = "deployment" /\ files' # files =>
                  \E t \in Target : /\ files'[t] # files[t]
                                    /\ files'[t].revision > MaxControlRevision]_vars
           /\ [place = "deployment" =>
                  \A s \in Scope :
                    Valid(Resolve(s))' /\ Resolve(s)'.revision < Resolve(s).revision
                      => Resolve(s)'.active]_vars
  BY GrowStep, DeploymentSteps DEF DeploymentNewest
<1> QED
  BY <1>1, DeploymentInvariants, PTL
  DEF Spec, RevisionsGrow, PublishedIsNewest, ServedRegressesOnlyToKill

(* What is served, read at the page's scope.                               *)
LEMMA ServedIsOnFile ==
  ASSUME ControlTypeOK
  PROVE  /\ Global \in Target /\ PageScope \in Target
         /\ Resolve(PageScope) \in {files[Global], files[PageScope]}
         /\ Resolve(PageScope).expires > now /\ ~ Resolve(PageScope).active
              => NoOlderKill(Resolve(PageScope))
<1>1. Global \in Target /\ PageScope \in Target
  BY PageScopeAssumption DEF Target
<1>2. Resolve(PageScope) \in {files[Global], files[PageScope]}
  BY DEF Resolve
<1>3. ASSUME Resolve(PageScope).expires > now, ~ Resolve(PageScope).active
      PROVE  ~ files[Global].active /\ ~ files[PageScope].active
  <2>1. /\ now \in Nat /\ files[Global].active \in BOOLEAN
        /\ files[Global] = NoDocument => files[Global].expires = 0
        /\ files[PageScope].active => files[PageScope] # NoDocument
    BY <1>1, TimeAssumption, DocumentFields DEF ControlTypeOK, NoDocument
  <2> QED
    BY <1>3, <2>1 DEF Resolve, Valid, ValidAt
<1> QED
  BY <1>1, <1>2, <1>3 DEF NoOlderKill

LEMMA KillSeenStep ==
  ASSUME TypeOK, TypeOK', NewestInv, KillSeenInv, [OperatorNext]_vars
  PROVE  KillSeenInv'
<1> USE DEF TypeOK, ControlTypeOK, PageTypeOK, KillSeenInv, SeenOnFile, NoOlderKill
<1>1. /\ \A t \in Target : files[t].revision \in Int /\ files'[t].revision \in Int
                           /\ files[t].revision >= -1
      /\ current.revision \in Int /\ flight.document.revision \in Int
      /\ current.expires \in Nat /\ flight.document.expires \in Nat
      /\ current.revision >= -1 /\ flight.document.revision >= -1
      /\ now \in Nat /\ now' \in Nat
  BY DocumentFields, TimeAssumption
<1>2. Global \in Target /\ PageScope \in Target
  BY ServedIsOnFile
<1>3. NoDocument.revision = -1
  BY DEF NoDocument
<1>4. CASE ~ UNCHANGED files
  <2>1. PICK u \in Target :
           /\ files' = [files EXCEPT ![u] = files'[u]]
           /\ files'[u] \in Document \cup {NoDocument}
           /\ \A t \in Target : files[t].revision < files'[u].revision
           /\ UNCHANGED <<now, pageVars>>
    BY <1>4, Published
  <2>2. \A t \in Target : files[t].revision <= files'[t].revision
    BY <1>1, <2>1
  <2>3. SeenOnFile(current)' /\ SeenOnFile(flight.document)'
    BY <1>1, <2>1, <2>2 DEF pageVars
  <2>4. ASSUME NEW d \in Document \cup {NoDocument}, SeenOnFile(d), NoOlderKill(d)
        PROVE  \A t \in {Global, PageScope} : files'[t].active => files'[t].revision > d.revision
    <3>1. d.revision \in Int
      BY DocumentFields
    <3>2. files'[u].revision > d.revision
      BY <1>1, <2>1, <2>4, <3>1
    <3> QED
      BY <1>2, <2>1, <2>4, <3>2
  <2> QED
    BY <2>1, <2>3, <2>4 DEF GateOpen, pageVars
<1>5. CASE Tick /\ UNCHANGED pageVars
  BY <1>1, <1>5 DEF Tick, GateOpen, pageVars
<1>6. CASE UNCHANGED <<files, now, pageVars>>
  BY <1>6 DEF GateOpen, pageVars
<1>7. CASE UNCHANGED <<files, now>> /\ PageStep
  <2>1. CASE InitialFetch
    BY <1>1, <1>2, <1>3, <1>7, <2>1 DEF InitialFetch, Asked, GateOpen
  <2>2. CASE Reload
    BY <1>1, <1>2, <1>3, <1>7, <2>2 DEF Reload, NoFlight, GateOpen
  <2>3. CASE StartLoop \/ StopLoop
    BY <1>1, <1>2, <1>3, <1>7, <2>3 DEF StartLoop, StopLoop, Aborted, NoFlight, GateOpen
  <2>4. CASE TimerFires \/ Wakeup
    BY <1>1, <1>2, <1>3, <1>7, <2>4 DEF TimerFires, Wakeup, Asked, GateOpen
  <2>5. CASE ServeDocument
    BY <1>1, <1>2, <1>7, <2>5, ServedIsOnFile DEF ServeDocument, GateOpen
  <2>6. CASE FetchFails \/ RejectInvalid
    BY <1>1, <1>2, <1>3, <1>7, <2>6 DEF FetchFails, RejectInvalid, FlightEnds, NoFlight, GateOpen
  <2>7. CASE Apply
    BY <1>1, <1>2, <1>3, <1>7, <2>7 DEF Apply, FlightEnds, NoFlight, GateOpen
  <2> QED
    BY <1>7, <2>1, <2>2, <2>3, <2>4, <2>5, <2>6, <2>7 DEF PageStep
<1>8. UNCHANGED files => (Tick /\ UNCHANGED pageVars) \/ UNCHANGED <<files, now, pageVars>>
                         \/ (UNCHANGED <<files, now>> /\ PageStep)
  BY DEF OperatorNext, OperatorsAlone, OperatorStep, PageAlone, vars, controlVars,
     Begin, Publish, ComputeHold, SyncDeliveryControl, OperatorDies
<1> QED
  BY <1>4, <1>5, <1>6, <1>7, <1>8

(* Every kill switch in force that the page of a deployment receives       *)
(* closes its gate: it is newer than what the page has applied, or the     *)
(* gate is closed already.                                                 *)
THEOREM KillClosesPage == OneCommandAtATime => (Spec => KillSeenCloses)
<1> SUFFICES ASSUME OneCommandAtATime PROVE Spec => KillSeenCloses
  OBVIOUS
<1> DEFINE Inv == place = "deployment" => KillSeenInv
<1>1. Init => Inv
  <2> SUFFICES ASSUME Init PROVE KillSeenInv
    OBVIOUS
  <2>1. /\ current = NoDocument /\ flight = NoFlight /\ Global \in Target
        /\ files[Global].revision \in Int /\ files[Global].revision >= -1
    BY InitTypes, DocumentFields DEF Init, PageInit, TypeOK, ControlTypeOK, Target
  <2> QED
    BY <2>1 DEF KillSeenInv, SeenOnFile, GateOpen, NoFlight, NoDocument
<1>2. TypeOK /\ TypeOK' /\ DeploymentNewest /\ Inv /\ [Next]_vars => Inv'
  BY KillSeenStep, DeploymentSteps, PlaceStays DEF DeploymentNewest
<1>3. TypeOK /\ Inv
        => [place = "deployment" /\ PageAlone(Apply) /\ flight.document.active
              => ~ GateOpen']_vars
  <2> SUFFICES ASSUME TypeOK, KillSeenInv, Apply, flight.document.active,
                      UNCHANGED controlVars, GateOpen'
               PROVE  FALSE
    BY DEF PageAlone
  <2>1. current.revision \in Int /\ flight.document.revision \in Int
    BY DocumentFields DEF TypeOK, PageTypeOK
  <2>2. CASE flight.document.revision > current.revision
    <3>1. latched' = (latched \/ flight.document.active)
      BY <2>1, <2>2 DEF Apply
    <3>2. latched'
      BY <3>1, Zenon
    <3> QED
      BY <3>2 DEF GateOpen
  <2>3. CASE ~ (flight.document.revision > current.revision)
    <3>1. UNCHANGED <<current, latched>> /\ UNCHANGED now /\ flight.step = "answered"
      BY <2>1, <2>3 DEF Apply, controlVars
    <3>2. GateOpen
      BY <3>1 DEF GateOpen
    <3> QED
      BY <2>3, <3>1, <3>2 DEF KillSeenInv
  <2> QED
    BY <2>2, <2>3
<1> QED
  BY <1>1, <1>2, <1>3, DeploymentInvariants, PTL DEF Spec, KillSeenCloses
=============================================================================
