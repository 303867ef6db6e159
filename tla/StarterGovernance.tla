-------------------------- MODULE StarterGovernance --------------------------
(***************************************************************************)
(* The starters: dashboards and alerts that the repository's tooling       *)
(* creates in an OpenObserve which belongs to the company.  A marker in    *)
(* the description tells a starter from the company's own objects, and a   *)
(* local record tells one that was never installed from one that the       *)
(* company deleted.  install-starters, restore-starters, import and the    *)
(* verification run one at a time, call by call; the company works in the  *)
(* UI meanwhile, any call may fail, a listing that is not readable looks   *)
(* empty and a command may end anywhere.                                   *)
(***************************************************************************)
EXTENDS Naturals, Sequences, FiniteSets, SequencesExt

CONSTANTS
  Order,       \* the starters, in the order of the manifests
  Id,          \* identifiers the server can give to objects
  Own,         \* a title of the company's own
  NoMarker,    \* the description carries no marker
  Absent,      \* no object has this identifier
  Batches,     \* the directories an import can be given: sequences of files
  EditBudget,  \* bound: changes by the company, releases and losses of the record
  RunBudget    \* bound: commands

Starter == {Order[n] : n \in DOMAIN Order}

ASSUME OrderAssumption ==
  /\ Order \in Seq(Starter) /\ Order # <<>>
  /\ \A m, n \in DOMAIN Order : Order[m] = Order[n] => m = n
  /\ NoMarker \notin Starter /\ Own \notin Starter

Object ==
  [title : Starter \cup {Own},       \* a starter's title is its own name
   marker : Starter \cup {NoMarker},
   current : BOOLEAN,                \* the marker has the released version
   by : {"tool", "company"},
   rev : Nat]                        \* what the server's hash stands for

ASSUME AbsentAssumption == Absent \notin Object /\ Absent \notin Id

VARIABLES
  kind,        \* which family of commands is looked at: dashboards or alerts
  store,       \* the objects in the starters' folder
  recorded,    \* install-state: the starters installed at least once
  cmd,         \* the command that is running
  outcome,     \* what the last command reported for each starter
  script,      \* the lifecycle verification: its step, findings and probe
  removed,     \* history: how the company deleted a starter: on record or not
  stranded,    \* history: starters a restore deleted or an import replaced
  copied,      \* history: a second copy may be: from an import, a sweep, a hidden listing
  edits, runs  \* changes by the company and commands so far

work == <<kind, edits, runs, script>>
history == <<removed, stranded, copied>>
starterVars == <<work, store, recorded, cmd, outcome, history>>

NoListing == [i \in Id |-> Absent]

NoCommand ==
  [phase |-> "none", step |-> "idle", todo |-> <<>>, record |-> {}, then |-> FALSE,
   seen |-> NoListing, overwrite |-> FALSE, titles |-> {}, read |-> Absent]

First == Head(cmd.todo)

(* parseMarker over a listing.                                             *)
Managed(objects, s) == {i \in Id : objects[i] # Absent /\ objects[i].marker = s}

(* An identifier the server has not given away: it never uses one twice,   *)
(* so none that a listing or a script still refers to.                     *)
Free == {i \in Id : /\ store[i] = Absent /\ cmd.seen[i] = Absent
                    /\ script.probe # i /\ (cmd.read # Absent => cmd.read.id # i)}

Titled(objects, title) == {i \in Id : objects[i] # Absent /\ objects[i].title = title}

StarterCopy(s) ==
  [title |-> s, marker |-> s, current |-> TRUE, by |-> "tool", rev |-> 0]

(* The listing of the dashboards is not looked at again for this starter.  *)
Moved(step) == [cmd EXCEPT !.step = step, !.seen = IF kind = "dashboards" THEN NoListing ELSE @]

Goes(step) == cmd' = Moved(step)

(* Where the loop of a phase begins for each starter or file: dashboards   *)
(* are listed anew each time, alerts once.                                 *)
Entry ==
  CASE cmd.phase = "import" -> "candidate"
    [] cmd.phase # "import" /\ kind = "dashboards" -> "list"
    [] cmd.phase = "install" /\ kind = "alerts" -> "decide"
    [] cmd.phase = "restore" /\ kind = "alerts" -> "create"

NextTodo ==
  cmd' = [cmd EXCEPT !.todo = Tail(@), !.read = Absent,
                     !.seen = IF kind = "dashboards" \/ Len(cmd.todo) = 1 THEN NoListing ELSE @,
                     !.step = IF Len(cmd.todo) = 1 THEN "done" ELSE Entry]

GoesOn(report) == NextTodo /\ outcome' = [outcome EXCEPT ![First] = report]

Begins(command) ==
  /\ cmd.step = "idle"
  /\ cmd' = command
  /\ outcome' = [s \in Starter |-> "none"]
  /\ UNCHANGED <<store, recorded, history>>

(* The record of what was installed is read once.                          *)
Installing ==
  [NoCommand EXCEPT !.phase = "install", !.step = "list", !.todo = Order, !.record = recorded]

(* restore-starters of alerts runs the installation first.                 *)
Restoring ==
  IF kind = "dashboards" THEN [Installing EXCEPT !.phase = "restore"]
                         ELSE [Installing EXCEPT !.then = TRUE]

Returns ==
  /\ cmd.step = "done"
  /\ cmd' = IF cmd.then
              THEN [NoCommand EXCEPT !.phase = "restore", !.step = "list", !.todo = Order]
              ELSE NoCommand
  /\ UNCHANGED <<work, store, recorded, outcome, history>>

AfterListing ==
  CASE cmd.phase = "install" -> "decide"
    [] cmd.phase = "import" -> "candidate"
    [] cmd.phase = "restore" -> IF kind = "dashboards" THEN "delete" ELSE "sweep"

MarkedObjects == {i \in Id : store[i] # Absent /\ store[i].marker # NoMarker}

(* An answer that has another status than 200, or no list in its body, is  *)
(* taken for an empty folder.                                              *)
List ==
  /\ cmd.step = "list"
  /\ \E seen \in {store, NoListing} :
       /\ cmd' = [cmd EXCEPT !.seen = seen, !.step = AfterListing]
       /\ copied' = (copied \/ (seen # store /\ MarkedObjects # {}))
  /\ UNCHANGED <<work, store, recorded, outcome, removed, stranded>>

(* A plausible bug: only a copy of the released version counts as present. *)
DecideByVersion(s) ==
  IF \E i \in Managed(cmd.seen, s) : cmd.seen[i].current THEN {"NO_CHANGE"}
    ELSE IF Managed(cmd.seen, s) = {} /\ s \in cmd.record THEN {"SKIP_DELETED"}
    ELSE {"CREATE"}

(* decideInstallAction; of several copies the first of the listing counts. *)
Decide(s) ==
  IF Managed(cmd.seen, s) # {}
    THEN {IF cmd.seen[i].current THEN "NO_CHANGE" ELSE "SKIP_VERSION" : i \in Managed(cmd.seen, s)}
    ELSE IF s \in cmd.record THEN {"SKIP_DELETED"}
    ELSE IF \E i \in Titled(cmd.seen, s) : cmd.seen[i].marker = NoMarker THEN {"SKIP_COLLISION"}
    ELSE {"CREATE"}

(* A starter that is there already is recorded once more.                  *)
InstallDecides ==
  /\ cmd.step = "decide"
  /\ \E action \in Decide(First) :
       IF action = "CREATE"
         THEN Goes("create") /\ UNCHANGED <<recorded, outcome>>
         ELSE /\ recorded' = IF action = "NO_CHANGE" THEN recorded \cup {First} ELSE recorded
              /\ GoesOn(action)
  /\ UNCHANGED <<work, store, history>>

(* The server names dashboards by identifiers of its own and takes any     *)
(* title; the name of an alert is unique.                                  *)
Accepts(title) == kind = "dashboards" \/ Titled(store, title) = {}

(* The create call answers 200 ...                                         *)
Create ==
  /\ cmd.step = "create"
  /\ Accepts(First)
  /\ \E i \in Free :
       /\ store' = [store EXCEPT ![i] = StarterCopy(First)]
       /\ cmd' = [Moved("created") EXCEPT !.read = IF kind = "alerts" THEN @
                    ELSE [id |-> i, object |-> StarterCopy(First)]]
  /\ removed' = [removed EXCEPT ![First] = "no"]
  /\ stranded' = stranded \ {First}
  /\ UNCHANGED <<work, recorded, outcome, copied>>

(* ... or anything else, which is reported.                                *)
CreateFails ==
  /\ cmd.step = "create"
  /\ GoesOn("FAILED")
  /\ UNCHANGED <<work, store, recorded, history>>

(* What reading the dashboard back leads to, after the company may have    *)
(* deleted, renamed or edited it.                                          *)
ReadBackShows ==
  LET now == store[cmd.read.id]
  IN  IF now = Absent \/ (cmd.phase = "install" /\ now.title # First) THEN {"MISREAD"}
        ELSE IF cmd.phase = "install" /\ now # cmd.read.object THEN {"CREATED", "MISREAD"}
        ELSE {"CREATED"}

(* The starter is recorded whatever the reading shows.                     *)
Record ==
  /\ cmd.step = "created"
  /\ recorded' = recorded \cup {First}
  /\ \E report \in IF kind = "alerts" THEN {"CREATED"} ELSE ReadBackShows : GoesOn(report)
  /\ UNCHANGED <<work, store, history>>

(***************************************************************************)
(* restore-starters --confirm                                              *)
(***************************************************************************)

(* A plausible bug: the starter is looked for by its title.                *)
RestoreDeletesByTitle ==
  /\ cmd.step = "delete"
  /\ LET found == Titled(cmd.seen, First)
     IN  \/ found = {} /\ Goes("create") /\ UNCHANGED <<store, outcome, stranded>>
         \/ \E i \in found : /\ store' = [store EXCEPT ![i] = Absent]
                             /\ stranded' = stranded \cup {First}
                             /\ Goes("create") /\ UNCHANGED outcome
  /\ UNCHANGED <<work, recorded, removed, copied>>

(* The first marked dashboard of the listing is deleted; it may be gone.   *)
RestoreDeletes ==
  /\ cmd.step = "delete"
  /\ LET found == Managed(cmd.seen, First)
     IN  \/ found = {} /\ Goes("create") /\ UNCHANGED <<store, outcome, stranded>>
         \/ found # {} /\ GoesOn("FAILED") /\ UNCHANGED <<store, stranded>>
         \/ \E i \in found : /\ store' = [store EXCEPT ![i] = Absent]
                             /\ stranded' = stranded \cup {First}
                             /\ Goes("create") /\ UNCHANGED outcome
  /\ UNCHANGED <<work, recorded, removed, copied>>

Marked == {i \in Id : cmd.seen[i] # Absent /\ cmd.seen[i].marker # NoMarker}

(* Every marked alert of the listing is deleted, failures are reported ... *)
Sweep ==
  /\ cmd.step = "sweep"
  /\ \E i \in Marked :
       /\ cmd' = [cmd EXCEPT !.seen[i] = Absent]
       /\ \/ /\ copied' = (copied \/ store[i] # Absent)
             /\ UNCHANGED <<store, stranded>>
          \/ /\ store' = [store EXCEPT ![i] = Absent]
             /\ stranded' = stranded \cup {cmd.seen[i].marker}
             /\ UNCHANGED copied
  /\ UNCHANGED <<work, recorded, outcome, removed>>

(* ... before the first is created again.                                  *)
SweepEnds ==
  /\ cmd.step = "sweep"
  /\ Marked = {}
  /\ Goes("create")
  /\ UNCHANGED <<work, store, recorded, outcome, history>>

(***************************************************************************)
(* lab:dashboards:import --apply.  The files of one run are a sequence of  *)
(* titles and markers, as an export wrote them, of a renamed starter too.  *)
(***************************************************************************)

File == [title : Starter \cup {Own}, marker : Starter \cup {NoMarker}]

ASSUME BatchesAssumption == Batches \subseteq Seq(File) /\ <<>> \notin Batches

Importing(files, overwrite) ==
  [NoCommand EXCEPT !.phase = "import", !.step = "list", !.todo = files,
                    !.overwrite = overwrite]

ImportedCopy(file) ==
  [title |-> file.title, marker |-> file.marker, current |-> TRUE, by |-> "company", rev |-> 0]

NextFile ==
  /\ cmd' = IF Len(cmd.todo) = 1 THEN [NoCommand EXCEPT !.step = "done"]
            ELSE [cmd EXCEPT !.titles = @ \cup {First.title}, !.read = Absent,
                             !.todo = Tail(@), !.step = Entry]
  /\ UNCHANGED outcome

(* decideImportAction: a title that was in the batch before is refused, an *)
(* existing one skipped unless the policy says overwrite.                  *)
ImportSkips ==
  /\ cmd.step = "candidate"
  /\ \/ First.title \in cmd.titles
     \/ Titled(cmd.seen, First.title) # {} /\ ~ cmd.overwrite
  /\ NextFile
  /\ UNCHANGED <<work, store, recorded, history>>

ImportCreates ==
  /\ cmd.step = "candidate"
  /\ First.title \notin cmd.titles
  /\ Titled(cmd.seen, First.title) = {}
  /\ \/ \E i \in Free : store' = [store EXCEPT ![i] = ImportedCopy(First)]
     \/ UNCHANGED store
  /\ copied' = (copied \/ (First.marker # NoMarker /\ store' # store))
  /\ NextFile
  /\ UNCHANGED <<work, recorded, removed, stranded>>

(* getDashboard of the first of that title, for the hash to send along ... *)
ImportReads ==
  /\ cmd.step = "candidate"
  /\ First.title \notin cmd.titles
  /\ cmd.overwrite
  /\ \E i \in Titled(cmd.seen, First.title) :
       /\ store[i] # Absent
       /\ cmd' = [cmd EXCEPT !.step = "put", !.read = [id |-> i, object |-> store[i]]]
  /\ UNCHANGED <<work, store, recorded, outcome, history>>

ReplacedBy(old, file) ==
  [old EXCEPT !.title = file.title, !.marker = file.marker, !.rev = @ + 1]

Overwrites(i) ==
  /\ store[i] # Absent
  /\ store' = [store EXCEPT ![i] = ReplacedBy(@, First)]
  /\ copied' = (copied \/ First.marker \notin {NoMarker, store[i].marker})
  /\ stranded' = stranded \cup ({store[i].marker} \ {NoMarker, First.marker})

(* ... with the update, which the server refuses when the hash is another. *)
ImportPuts ==
  /\ cmd.step = "put"
  /\ \/ store[cmd.read.id] = cmd.read.object /\ Overwrites(cmd.read.id)
     \/ UNCHANGED <<store, copied, stranded>>
  /\ NextFile
  /\ UNCHANGED <<work, recorded, removed>>

(***************************************************************************)
(* The company, and what else happens to the lab.                          *)
(***************************************************************************)

Edits == edits < EditBudget /\ edits' = edits + 1

CompanyCreates ==
  /\ Edits
  /\ \E i \in Free, title \in Starter \cup {Own} :
       /\ Accepts(title)
       /\ store' = [store EXCEPT ![i] = [title |-> title, marker |-> NoMarker, current |-> FALSE,
                                         by |-> "company", rev |-> 0]]
  /\ UNCHANGED <<kind, runs, script, recorded, cmd, outcome, history>>

(* A title is changed, or something else of the contents.                  *)
CompanyEdits ==
  /\ Edits
  /\ \E i \in Id :
       /\ store[i] # Absent
       /\ \E title \in {store[i].title, Own} :
            /\ title = store[i].title \/ Accepts(title)
            /\ store' = [store EXCEPT ![i].title = title, ![i].rev = @ + 1]
  /\ UNCHANGED <<kind, runs, script, recorded, cmd, outcome, history>>

CompanyDeletes ==
  /\ Edits
  /\ \E i \in Id :
       /\ store[i] # Absent
       /\ store' = [store EXCEPT ![i] = Absent]
       /\ LET s == store[i].marker
          IN  removed' = IF s # NoMarker /\ Managed(store, s) = {i}
                           THEN [removed EXCEPT ![s] = IF s \in recorded THEN "recorded"
                                                       ELSE "unrecorded"]
                           ELSE removed
  /\ UNCHANGED <<kind, runs, script, recorded, cmd, outcome, stranded, copied>>

(* The operator's own acts: the repository releases a new version of a     *)
(* starter ...                                                             *)
Release ==
  /\ Edits
  /\ script.at = 0
  /\ cmd.step = "idle"
  /\ \E s \in Starter :
       store' = [i \in Id |-> IF i \in Managed(store, s) THEN [store[i] EXCEPT !.current = FALSE]
                                                         ELSE store[i]]
  /\ UNCHANGED <<kind, runs, script, recorded, cmd, outcome, history>>

(* ... the record is lost: .runtime is removed, or its file unreadable ... *)
RecordLost ==
  /\ Edits
  /\ script.at = 0
  /\ cmd.step = "idle"
  /\ recorded # {}
  /\ recorded' = {}
  /\ removed' = [s \in Starter |-> IF removed[s] = "recorded" THEN "unrecorded" ELSE removed[s]]
  /\ UNCHANGED <<kind, runs, script, store, cmd, outcome, stranded, copied>>

(* ... and a command is run.                                               *)
RunBegins(command) ==
  /\ runs < RunBudget
  /\ script.at = 0
  /\ runs' = runs + 1
  /\ Begins(command)
  /\ UNCHANGED <<kind, edits, script>>

Runs ==
  \/ RunBegins(Installing)
  \/ RunBegins(Restoring)
  \/ /\ kind = "dashboards"
     /\ \E files \in Batches, overwrite \in BOOLEAN : RunBegins(Importing(files, overwrite))

(* The process is killed, or a call throws: a server that is not reached,  *)
(* a read-back that answers neither 200 nor 404.                           *)
Interrupted ==
  /\ cmd.step \notin {"idle", "done"}
  /\ cmd' = NoCommand
  /\ script' = IF script.at = 0 THEN script ELSE [script EXCEPT !.at = 0, !.verdict = "thrown"]
  /\ UNCHANGED <<kind, edits, runs, store, recorded, outcome, history>>

(***************************************************************************)
(* The lifecycle verification of test:dashboards and test:alerts, a script *)
(* that runs the commands and plays the company, which works on beside it: *)
(* the first is one of findings, the second throws at the first surprise.  *)
(* It lists as the commands do.                                            *)
(***************************************************************************)

NoScript == [at |-> 0, findings |-> FALSE, probe |-> Absent, target |-> NoMarker, count |-> 0,
             verdict |-> "none"]

ScriptGoes(at, surprise) ==
  script' = IF surprise /\ kind = "alerts"
              THEN [script EXCEPT !.at = 0, !.verdict = "thrown"]
              ELSE [script EXCEPT !.at = at, !.findings = @ \/ surprise]

AtStep(at) == script.at = at /\ cmd.step = "idle"

MarkedCount == Cardinality(MarkedObjects)

(* Two installations; the second must find everything in its place.        *)
VerifyInstalls ==
  /\ \/ AtStep(0) /\ runs < RunBudget /\ runs' = runs + 1
        /\ script' = [NoScript EXCEPT !.at = 2]
     \/ AtStep(2) /\ UNCHANGED runs
        /\ ScriptGoes(3, kind = "dashboards" /\ \E s \in Starter : outcome[s] \in {"FAILED", "MISREAD"})
  /\ Begins(Installing)
  /\ UNCHANGED <<kind, edits>>

InPlace == IF kind = "dashboards" THEN \A s \in Starter : outcome[s] = "NO_CHANGE"
                                  ELSE MarkedCount = Len(Order)

(* The company creates an object of its own ...                            *)
VerifyProbe ==
  /\ AtStep(3)
  /\ \/ /\ InPlace \/ kind = "dashboards"
        /\ Accepts(Own)
        /\ \E i \in Free :
             /\ store' = [store EXCEPT ![i] = [title |-> Own, marker |-> NoMarker, by |-> "company",
                                               current |-> FALSE, rev |-> 0]]
             /\ script' = [script EXCEPT !.at = 4, !.probe = i, !.findings = @ \/ ~ InPlace]
     \/ /\ script' = [script EXCEPT !.at = 0, !.verdict = IF kind = "alerts" THEN "thrown"
                                                          ELSE "failed"]
        /\ UNCHANGED store
  /\ UNCHANGED <<kind, edits, runs, recorded, cmd, outcome, history>>

Targets == {s \in IF kind = "dashboards" THEN {Head(Order)} ELSE Starter : Managed(store, s) # {}}

(* ... and deletes a starter, of the dashboards a certain one; when it     *)
(* finds none to delete, nothing more is tried.                            *)
VerifyDeletion ==
  /\ AtStep(4)
  /\ \/ \E s \in Targets : \E i \in Managed(store, s) :
          \/ /\ store' = [store EXCEPT ![i] = Absent]
             /\ removed' = IF Managed(store, s) = {i}
                             THEN [removed EXCEPT ![s] = IF s \in recorded THEN "recorded"
                                                         ELSE "unrecorded"]
                             ELSE removed
             /\ script' = [script EXCEPT !.at = 5, !.target = s, !.count = MarkedCount - 1]
          \/ /\ script' = [script EXCEPT !.at = 5, !.target = s, !.count = MarkedCount,
                                         !.findings = @ \/ kind = "dashboards"]
             /\ UNCHANGED <<store, removed>>
     \/ /\ ScriptGoes(8, TRUE)
        /\ UNCHANGED <<store, removed>>
  /\ UNCHANGED <<kind, edits, runs, recorded, cmd, outcome, stranded, copied>>

VerifyReinstall ==
  /\ AtStep(5)
  /\ Begins(Installing)
  /\ script' = [script EXCEPT !.at = 6]
  /\ UNCHANGED <<kind, edits, runs>>

Respected == IF kind = "dashboards" THEN outcome[script.target] = "SKIP_DELETED"
                                    ELSE MarkedCount = script.count /\ store[script.probe] # Absent

(* test:alerts deletes the company's object before it restores; whether it *)
(* is gone is not asked.                                                   *)
VerifyCleans ==
  /\ AtStep(6)
  /\ kind = "alerts"
  /\ \/ /\ Respected
        /\ store' \in {store, [store EXCEPT ![script.probe] = Absent]}
        /\ script' = [script EXCEPT !.at = 9, !.probe = Absent]
     \/ ScriptGoes(0, TRUE) /\ UNCHANGED store
  /\ UNCHANGED <<kind, edits, runs, recorded, cmd, outcome, history>>

(* The deletion was respected, and a restore brings the starter back.      *)
VerifyRestore ==
  /\ AtStep(IF kind = "dashboards" THEN 6 ELSE 9)
  /\ Begins(Restoring)
  /\ script' = [script EXCEPT !.at = 7, !.findings = @ \/ (kind = "dashboards" /\ ~ Respected)]
  /\ UNCHANGED <<kind, edits, runs>>

(* A plausible bug: what the restore of the dashboards did is not looked at. *)
RestoredUnasked == kind = "dashboards" \/ MarkedCount = Len(Order)

Restored == IF kind = "dashboards" THEN \A s \in Starter : outcome[s] = "CREATED"
                                   ELSE MarkedCount = Len(Order)

(* The company's dashboard must have survived; it is deleted at last.      *)
Survived == kind = "alerts" \/ store[script.probe] # Absent

VerifyEnds ==
  /\ AtStep(7) \/ AtStep(8)
  /\ store' \in {store} \cup (IF kind = "alerts" THEN {}
                               ELSE {[store EXCEPT ![script.probe] = Absent]})
  /\ \E verdict \in IF script.findings \/ ~ Survived \/ ~ Restored THEN {"failed"}
                                                                 ELSE {"passed", "failed"} :
       script' = [NoScript EXCEPT !.verdict = verdict]
  /\ UNCHANGED <<kind, edits, runs, recorded, cmd, outcome, history>>

Verifies == VerifyInstalls \/ VerifyProbe \/ VerifyDeletion \/ VerifyReinstall \/ VerifyCleans
              \/ VerifyRestore \/ VerifyEnds

CommandStep ==
  \/ Returns \/ List \/ InstallDecides \/ Create \/ CreateFails \/ Record
  \/ RestoreDeletes \/ Sweep \/ SweepEnds
  \/ ImportSkips \/ ImportCreates \/ ImportReads \/ ImportPuts

CompanyStep == CompanyCreates \/ CompanyEdits \/ CompanyDeletes \/ Release \/ RecordLost

StarterInit ==
  /\ kind \in {"dashboards", "alerts"}
  /\ store = [i \in Id |-> Absent]
  /\ recorded = {}
  /\ cmd = NoCommand
  /\ outcome = [s \in Starter |-> "none"]
  /\ script = NoScript
  /\ removed = [s \in Starter |-> "no"]
  /\ stranded = {}
  /\ copied = FALSE
  /\ edits = 0
  /\ runs = 0

StarterNext == CommandStep \/ CompanyStep \/ Runs \/ Interrupted \/ Verifies

StarterSpec == StarterInit /\ [][StarterNext]_starterVars

(***************************************************************************)
(* Properties                                                              *)
(***************************************************************************)

StarterTypeOK ==
  /\ kind \in {"dashboards", "alerts"}
  /\ store \in [Id -> Object \cup {Absent}]
  /\ recorded \subseteq Starter
  /\ cmd.phase \in {"none", "install", "restore", "import"}
  /\ cmd.step \in {"idle", "list", "decide", "create", "created", "delete", "sweep",
                   "candidate", "put", "done"}
  /\ cmd.seen \in [Id -> Object \cup {Absent}]
  /\ outcome \in [Starter -> {"none", "NO_CHANGE", "SKIP_VERSION", "SKIP_DELETED",
                              "SKIP_COLLISION", "FAILED", "CREATED", "MISREAD"}]
  /\ script.at \in {0} \cup 2..9
  /\ script.verdict \in {"none", "passed", "failed", "thrown"}
  /\ removed \in [Starter -> {"no", "recorded", "unrecorded"}]
  /\ stranded \subseteq Starter
  /\ copied \in BOOLEAN

(* No command deletes or changes what the company made itself, however old *)
(* the listing is that it works from; only an import that was told to      *)
(* overwrite does, and then only the contents.                             *)
CompanyWorkSurvives ==
  [][CommandStep =>
       \A i \in Id :
         store[i] # Absent /\ store[i].by = "company" /\ store[i].marker = NoMarker
           => \/ store'[i] = store[i]
              \/ cmd.phase = "import" /\ cmd.overwrite /\ store'[i] # Absent]_starterVars

(* A starter the company deleted, with the installation on record, is not  *)
(* brought back by a normal installation.                                  *)
RecordedDeletionRespected ==
  [][\A s \in Starter :
       removed[s] = "recorded" /\ cmd.phase = "install" /\ Managed(store, s) = {}
         => Managed(store', s) = {}]_starterVars

(* Installations, restores and interruptions in any order make at most one *)
(* copy of a starter, unless an import made marked copies, the sweep of a  *)
(* restore has failed to delete one, or a command was given an unreadable  *)
(* listing of a folder with starters in it: then a second copy may appear. *)
OneCopyEach == ~ copied => \A s \in Starter : Cardinality(Managed(store, s)) <= 1

(* A starter on record that is not there was deleted by the company, or by *)
(* a restore that did not get any further, or replaced by an overwriting   *)
(* import: nothing else is reported as a deletion to respect.              *)
AbsenceExplained ==
  \A s \in recorded : Managed(store, s) = {} => removed[s] # "no" \/ s \in stranded

(* An overwriting import replaces the very contents it read: an edit made  *)
(* in between is not lost.                                                 *)
OverwriteKeepsEdits ==
  [][cmd.step = "put" /\ store' # store /\ cmd' # cmd => store[cmd.read.id] = cmd.read.object]_starterVars

InRelease(s) == \E i \in Managed(store, s) : store[i].current

(* The company deleted the starter since it was created, or it is there,   *)
(* and in the released version where no second copy has come to be.        *)
InstalledOrDeleted(s) ==
  removed[s] # "no" \/ (Managed(store, s) # {} /\ (~ copied => InRelease(s)))

(* When the verification of the dashboards has passed, every starter is on *)
(* record, and there unless the company, which may act during the          *)
(* verification too, deleted what its restore had created.                 *)
VerifiedMeansInstalled ==
  [][kind = "dashboards" /\ script.verdict # "passed" /\ script'.verdict = "passed"
       => \A s \in Starter : s \in recorded /\ InstalledOrDeleted(s)]_starterVars

(***************************************************************************)
(* The inductive invariant behind them.                                    *)
(***************************************************************************)
OrderRests == {SubSeq(Order, n, Len(Order)) : n \in 1..(Len(Order) + 1)}

CmdShape ==
  /\ cmd = [phase |-> cmd.phase, step |-> cmd.step, todo |-> cmd.todo, record |-> cmd.record,
            then |-> cmd.then, seen |-> cmd.seen, overwrite |-> cmd.overwrite,
            titles |-> cmd.titles, read |-> cmd.read]
  /\ cmd.phase \in {"none", "install", "restore", "import"}
  /\ cmd.seen \in [Id -> Object \cup {Absent}]
  /\ cmd.then => kind = "alerts" /\ cmd.phase = "install"
  /\ cmd.phase = "none" => cmd.step \in {"idle", "done"} /\ cmd.seen = NoListing
  /\ cmd.phase = "install" =>
       cmd.step \in {"list", "decide", "create", "created", "done"}
  /\ cmd.phase = "restore" =>
       /\ cmd.step \in {"list", "delete", "sweep", "create", "created", "done"}
       /\ cmd.step = "delete" => kind = "dashboards"
       /\ cmd.step = "sweep" => kind = "alerts"
  /\ cmd.phase \in {"install", "restore"} =>
       cmd.todo \in OrderRests /\ (cmd.step = "done" <=> cmd.todo = <<>>)
  /\ cmd.phase = "import" =>
       /\ cmd.step \in {"list", "candidate", "put"} /\ cmd.todo \in Seq(File) /\ cmd.todo # <<>>
       /\ cmd.step = "put" =>
            cmd.overwrite /\ cmd.read.id \in Id /\ cmd.read.object \in Object

ScriptShape ==
  /\ script = [at |-> script.at, findings |-> script.findings, probe |-> script.probe,
               target |-> script.target, count |-> script.count, verdict |-> script.verdict]
  /\ script.at \in {0} \cup 2..9 /\ script.findings \in BOOLEAN
  /\ script.probe \in Id \cup {Absent} /\ script.verdict \in {"none", "passed", "failed", "thrown"}

StarterShape ==
  /\ StarterTypeOK /\ CmdShape /\ ScriptShape
  /\ edits \in Nat /\ runs \in Nat

Single(ids) == \A i, j \in ids : i = j

Explained(s) == removed[s] # "no" \/ s \in stranded

(* Since the listing was made nobody has added a copy of the starter,      *)
(* unless the listing hid it, and one that is gone is accounted for.       *)
Follows(s) ==
  /\ ~ copied => Managed(store, s) \subseteq Managed(cmd.seen, s)
  /\ Managed(cmd.seen, s) # {} /\ Managed(store, s) = {} => Explained(s)

(* An identifier stands for the same object in a listing and in the store. *)
SameMarkers ==
  cmd.phase \in {"install", "restore"} =>
    \A i \in Id : cmd.seen[i] # Absent /\ store[i] # Absent => cmd.seen[i].marker = store[i].marker

InstallOK ==
  cmd.phase = "install" =>
    /\ cmd.step = "decide" => \A s \in ToSet(cmd.todo) : Follows(s)
    /\ cmd.step \in {"create", "created"} /\ kind = "alerts" => \A s \in ToSet(Tail(cmd.todo)) : Follows(s)
    /\ cmd.step = "create" => First \notin recorded /\ (~ copied => Managed(store, First) = {})
    /\ \A s \in ToSet(cmd.todo) : s \in recorded => s \in cmd.record

(* Nothing is created in place of a copy that is still there.              *)
RestoreOK ==
  /\ cmd.step = "delete" /\ ~ copied =>
       /\ Managed(store, First) \subseteq Managed(cmd.seen, First)
       /\ Single(Managed(cmd.seen, First))
  /\ cmd.step = "sweep" /\ ~ copied =>
       \A s \in Starter : Managed(store, s) \subseteq Managed(cmd.seen, s)
  /\ cmd.phase = "restore" /\ ~ copied =>
       /\ cmd.step = "create" => Managed(store, First) = {}
       /\ cmd.step \in {"create", "created"} /\ kind = "alerts" =>
            \A s \in ToSet(Tail(cmd.todo)) : Managed(store, s) = {}

HistoryOK ==
  /\ ~ copied => \A s \in Starter : Single(Managed(store, s))
  /\ AbsenceExplained
  /\ cmd.step = "created" /\ Managed(store, First) = {} => Explained(First)
  /\ \A s \in Starter : removed[s] = "recorded" => s \in recorded

(* The script's own object is the company's, and what its restore reports  *)
(* as created is there.                                                    *)
ScriptOK ==
  /\ script.at # 0 => cmd.phase # "import"
  /\ script.at # 0 /\ script.probe \in Id /\ store[script.probe] # Absent
       => store[script.probe].marker = NoMarker
  /\ script.at = 8 /\ kind = "dashboards" => script.findings
  /\ script.at = 7 /\ kind = "dashboards" =>
       /\ cmd.phase \in {"none", "restore"}
       /\ \A s \in Starter : outcome[s] = "CREATED" => s \in recorded /\ InstalledOrDeleted(s)
       /\ cmd.phase = "restore" => \A s \in ToSet(cmd.todo) : outcome[s] = "none"
       /\ cmd.step = "created" => InstalledOrDeleted(First)

StarterInv ==
  StarterShape /\ SameMarkers /\ InstallOK /\ RestoreOK /\ HistoryOK /\ ScriptOK
=============================================================================
