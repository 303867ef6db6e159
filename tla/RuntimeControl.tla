--------------------------- MODULE RuntimeControl ---------------------------
(***************************************************************************)
(* Runtime control as a whole: the writers of the control documents        *)
(* (operator commands, the lab's kill switch, its refresh daemon), the     *)
(* control plane that serves them, and one open page that polls.           *)
(***************************************************************************)
EXTENDS LabKillSwitch, PageControl

CONSTANT PageIn   \* the places whose page is explored

VARIABLE place    \* a "deployment" has operators alone; the "lab" has both

vars == <<controlVars, labVars, pageVars, place>>

Init ==
  /\ ControlInit /\ LabInit /\ PageInit
  /\ place \in {"deployment", "lab"}

(* An operator's command replaces what the lab's commands decided, without *)
(* their lock and without their proxy.                                     *)
OperatorsAlone ==
  /\ OperatorStep \/ Tick
  /\ decided' = IF files'[Global] = files[Global] THEN decided ELSE "operator"
  /\ UNCHANGED <<lab, lock, proxy, daemon, wanted, pageVars, place>>

LabAlone == place = "lab" /\ LabStep /\ UNCHANGED <<pageVars, place>>

PageAlone(A) == place \in PageIn /\ A /\ UNCHANGED <<controlVars, labVars, place>>

Next == OperatorsAlone \/ LabAlone \/ PageAlone(PageStep)

Spec == Init /\ [][Next]_vars

(***************************************************************************)
(* The page's event loop runs its timers and continuations, a fetch ends   *)
(* within its three seconds, and of the fetches that are asked for over    *)
(* and over some are answered in time.                                     *)
(***************************************************************************)
FairPage ==
  /\ WF_vars(PageAlone(TimerFires))
  /\ WF_vars(PageAlone(FetchFails \/ RejectInvalid \/ Apply))
  /\ SF_vars(PageAlone(ServeDocument))
  /\ SF_vars(PageAlone(Apply))

FairSpec == Spec /\ FairPage

TypeOK ==
  /\ ControlTypeOK
  /\ LabTypeOK
  /\ PageTypeOK
  /\ place \in {"deployment", "lab"}

OperatorsIdle == \A o \in Operator : op[o].step = "idle"

KillOnFile == \E t \in Target : Valid(files[t]) /\ files[t].active

(***************************************************************************)
(* The writers.                                                            *)
(***************************************************************************)

(* In a deployment, between commands, the delivery worker is held whenever *)
(* a kill switch is in force for anybody: the second file of a command     *)
(* agrees with the first, whatever expired or was enabled elsewhere in the *)
(* meantime, unless a command was interrupted between the two.             *)
DeliveryFollowsKill ==
  place = "deployment" /\ deaths = 0 /\ OperatorsIdle /\ KillOnFile => hold

(* Revisions grow across all scopes, so what a scope is served goes back   *)
(* to an older document only when that document is a kill switch: a page   *)
(* that refuses the older revision is closed already or never saw more.    *)
ServedRegressesOnlyToKill ==
  [][place = "deployment" =>
       \A s \in Scope :
         Valid(Resolve(s))' /\ Resolve(s)'.revision < Resolve(s).revision
           => Resolve(s)'.active]_vars

(* Each published document is newer than every document on file.           *)
PublishedIsNewest ==
  [][place = "deployment" /\ files' # files =>
       \E t \in Target : /\ files'[t] # files[t]
                         /\ files'[t].revision > MaxControlRevision]_vars

(* The reverse proxy never accepts traffic while the global document of    *)
(* the lab's commands tells pages that the kill switch is on.              *)
KillHasProxyClosed == decided = "lab" /\ files[Global].active => proxy = "closed"

(* Once a command has switched the kill switch on, it stays on as long as  *)
(* the document says what the lab's commands decided: neither a command    *)
(* that stops half-way nor a refresh between two commands ends it.         *)
SwitchStaysOn == decided = "lab" /\ wanted = "on" => files[Global].active

(* "A periodic refresh must never silently undo an operator's              *)
(* `pnpm lab:kill-switch:on`" (generate-runtime-control.mjs:75): what only *)
(* a command or a refresh wrote stays on.                                  *)
RefreshKeepsSwitch == decided # "operator" /\ wanted = "on" => files[Global].active

(***************************************************************************)
(* The page.                                                               *)
(***************************************************************************)

(* Whenever the page of a deployment receives a kill switch in force, its  *)
(* gate is closed from then on, although a revision it has seen or an      *)
(* older one is not applied.                                               *)
KillSeenCloses ==
  [][place = "deployment" /\ PageAlone(Apply) /\ flight.document.active => ~ GateOpen']_vars

(* The reported state and the gate never disagree, although neither is     *)
(* derived from the other: the gate is open exactly when a document was    *)
(* applied and the state is neither kill-switched nor expired.             *)
GateMatchesState ==
  GateOpen <=> current # NoDocument /\ PageState \notin {"kill-switched", "expired"}

(* A started loop never dies: there is a timer, or a fetch in progress     *)
(* whose end will set one, however stops, starts and events interleave.    *)
LoopNeverDies == loop => timer \/ (Refreshing /\ flight.again)

(* A kill switch that stays in force reaches every page whose loop runs.   *)
KillReachesPage ==
  (loop /\ Resolve(PageScope).active /\ Valid(Resolve(PageScope)))
    ~> (~ GateOpen \/ ~ loop \/ ~ Resolve(PageScope).active)

(* The page of every run: its loop lives, and what it reports is what its  *)
(* gate does.                                                              *)
PageOK == TypeOK /\ GateMatchesState /\ LoopNeverDies

(* The two layers of the lab's kill switch hold together, however commands *)
(* stop half-way and whatever refreshes and operators write in between.    *)
SwitchHolds == KillHasProxyClosed /\ SwitchStaysOn

(* Revisions grow: each publication is newer than every document, and what *)
(* a scope is served goes back only to a kill switch.                      *)
RevisionsGrow == PublishedIsNewest /\ ServedRegressesOnlyToKill

(***************************************************************************)
(* The inductive invariants.                                               *)
(***************************************************************************)

(* Only the first fetch of a page has no loop waiting for it, and it is    *)
(* over before the loop starts; "expired" is reported only while it is so. *)
PageInv ==
  /\ TypeOK
  /\ LoopNeverDies
  /\ loop => current # NoDocument
  /\ Refreshing /\ current # NoDocument => flight.again
  /\ outcome = "expired" /\ current # NoDocument => current.expires <= now

(* Until a command has published, and once it has, the hold it found or    *)
(* computed covers every kill switch in force.                             *)
HoldInv ==
  deaths = 0 /\ KillOnFile =>
    /\ (\A o \in Operator : op[o].step \in {"idle", "publish"}) => hold
    /\ \A o \in Operator : op[o].step = "sync" => op[o].hold

(* A document that is about to be published is newer than all on file.     *)
NewestInv ==
  \A o \in Operator, t \in Target :
    op[o].step = "publish" => files[t].revision < op[o].document.revision

(* A page with an open gate, or about to be given a live document, has     *)
(* seen nothing newer than the files, and no kill switch of its scope is   *)
(* on file that it could take for an old one.                              *)
NoOlderKill(document) ==
  \A t \in {Global, PageScope} : files[t].active => files[t].revision > document.revision

SeenOnFile(document) == \E t \in Target : document.revision <= files[t].revision

KillSeenInv ==
  /\ SeenOnFile(current)
  /\ SeenOnFile(flight.document)
  /\ GateOpen => NoOlderKill(current)
  /\ /\ flight.step = "answered"
     /\ flight.document.expires > now
     /\ ~ flight.document.active
     => NoOlderKill(flight.document)
  /\ flight.step = "answered" /\ flight.document.active /\ GateOpen
       => flight.document.revision > current.revision

(* The lock is held by whoever is between its gate and its hold file; what *)
(* it has written so far is what the next command finds, unless a refresh  *)
(* or an operator wrote something else.                                    *)
SwitchInv ==
  /\ SwitchHolds
  /\ \A l \in Lab :
       /\ lab[l].step \in {"gate", "build", "publish", "deliver"} => lock = l
       /\ lab[l].step \in {"build", "publish", "deliver"} /\ lab[l].active => proxy = "closed"
       /\ lab[l].step = "publish" => lab[l].document.active = lab[l].active
       /\ lab[l].step = "deliver" /\ decided = "lab" => files[Global].active = lab[l].active
       /\ lab[l].step = "gate" /\ ~ lab[l].active /\ decided = "lab" => ~ files[Global].active
       /\ lab[l].step \in {"gate", "build", "publish", "deliver"} /\ ~ lab[l].active
            => wanted = "off"
=============================================================================
