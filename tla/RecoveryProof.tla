--------------------------- MODULE RecoveryProof ---------------------------
(***************************************************************************)
(* test:recovery: the control plane of the main lab is exported and its    *)
(* data cloned; disposable projects of OpenObserve are started one after   *)
(* the other, empty or on an archive, looked at, and thrown away; at the   *)
(* end what they showed is judged.  The proof can throw at every command   *)
(* and be killed between any two, and the next one finds what is left.     *)
(***************************************************************************)
EXTENDS ControlPlaneCopy

CONSTANTS
  Sources,  \* what the main lab can be configured with
  Company,  \* what the company adds to or takes from it meanwhile
  Fixture,  \* what the source fixture is configured with
  Manifests, \* the canonical streams as their manifests want them
  Changes,  \* bound: changes by the company
  MaxRuns   \* bound: proofs

Stages ==
  <<"export", "clone", "roundTrip", "restoreTarget", "source", "sourceRestore", "upgrade",
    "rollback", "reUpgrade", "targetLogicalRestore", "governance", "judgement">>

Chain == {"sourceRestore", "upgrade", "rollback", "reUpgrade"}
Projects == Chain \cup {"roundTrip", "restoreTarget", "source", "targetLogicalRestore"}

Streams == {"_rumdata", "_rumlog"}

(* Alerts need streams and destinations only, only dashboards are in       *)
(* folders, and folders are names.                                         *)
Proper ==
  {o \in Object :
     /\ o.group # "dashboards" => o.folder = ""
     /\ o.group = "alerts" => o.needs \subseteq {"streams", "destinations"} \X STRING
     /\ IsFolder(o) => o.body = {} /\ o.needs = {} /\ o.name \notin {"default", "folders"}}

OneStreamPerName(objects) ==
  \A o, p \in objects : o.group = "streams" /\ p.group = "streams" /\ o.name = p.name => o = p

(* A marker is a new UUID in every proof; whose record it is is known here *)
(* only.                                                                   *)
Mark == [stream : Streams, text : Nat, of : Nat]

Volume == [objects : SUBSET Proper, marks : SUBSET Mark]

(* That "folders" is a string TLC finds true; the provers have to be told. *)
ASSUME RecoveryAssumption ==
  /\ "folders" \in STRING
  /\ Places = Projects \cup {"main"} /\ NoVolume \notin Volume
  /\ \A objects \in Sources : objects \subseteq Proper /\ IsFiniteSet(objects)
  /\ Fixture \subseteq Proper /\ IsFiniteSet(Fixture) /\ OneStreamPerName(Fixture)
  /\ Company \subseteq Proper
  /\ Manifests \subseteq {o \in Proper : o.group = "streams"} /\ OneStreamPerName(Manifests)
  /\ Writable \cap Additive = {} /\ FirstTemplate \in STRING
  /\ FaultBudget \in Nat /\ Changes \in Nat /\ MaxRuns \in Nat

VARIABLES
  proof,    \* the stage the proof is in, the step of it, the decision, and the faults before it
  up,       \* the projects that have containers
  clone,    \* whether the clone of the main lab's volume is there
  archives, \* the archives of this proof
  results,  \* what each stage found, with what was really there
  logical,  \* the export of the main lab, and the re-export of the round trip
  changes

recoveryVars == <<stored, copying, faults, proof, up, clone, archives, results, logical, changes>>

Empty == [objects |-> {}, marks |-> {}]

NoResult == [old |-> FALSE, smoke |-> FALSE, marks |-> {}]

(* A plausible bug: one marker for all proofs.                             *)
SameMarker(run) == "source"
SourceMarker(run) == run

Marks(run) == {[stream |-> s, text |-> SourceMarker(run), of |-> run] : s \in Streams}

Archive(stage) ==
  IF stage \in Chain \cup {"targetLogicalRestore"} THEN "source"
  ELSE IF stage = "restoreTarget" THEN "main" ELSE "none"

At(stage, step) == proof.stage = stage /\ proof.step = step

Project == proof.stage

Goes(step) == proof' = [proof EXCEPT !.step = step]

Position(stage) == CHOOSE k \in 1..Len(Stages) : Stages[k] = stage

Following(stage) == Stages[1 + Position(stage)]

FirstStep(stage) == IF stage \in Projects THEN "prepare" ELSE "begin"

Advances ==
  proof' = [proof EXCEPT !.stage = Following(@), !.step = FirstStep(Following(proof.stage))]

Ends(decision) == proof' = [proof EXCEPT !.step = "ended", !.decision = decision]

(* A throw inside try: the project is stopped, and then the proof ends.    *)
Throws == proof' = [proof EXCEPT !.step = "stop", !.decision = "thrown"]

Begin ==
  /\ proof.step = "ended" /\ proof.run < MaxRuns
  /\ proof' = [run |-> proof.run + 1, stage |-> "export", step |-> "begin",
               decision |-> "ACCEPTED", since |-> faults]
  /\ clone' = FALSE
  /\ archives' = [main |-> NoVolume, source |-> NoVolume]
  /\ results' = [s \in ToSet(Stages) |-> NoResult]
  /\ logical' = [main |-> {}, again |-> {}]
  /\ copying' = NotCopying
  /\ UNCHANGED <<stored, faults, up, changes>>

-----------------------------------------------------------------------------
ExportMain ==
  /\ At("export", "begin")
  /\ ExportStarts("main") /\ Goes("exporting")
  /\ UNCHANGED <<stored, faults, up, clone, archives, results, logical, changes>>

Copies ==
  /\ proof.step \in {"exporting", "reexporting", "restoring", "again"}
  /\ CopyStep
  /\ UNCHANGED <<proof, up, clone, archives, results, logical, changes>>

MainExported ==
  /\ At("export", "exporting")
  /\ \/ Exported /\ logical' = [logical EXCEPT !.main = copying.read] /\ Advances
     \/ ExportThrows /\ Ends("thrown") /\ UNCHANGED logical
  /\ UNCHANGED <<stored, copying, faults, up, clone, archives, results, changes>>

(* The volume is copied while the main lab runs, and removed once it is in *)
(* the archive; a tar that throws leaves it.                               *)
ClonesVolume ==
  /\ At("clone", "begin")
  /\ clone' = TRUE /\ Goes("tar")
  /\ UNCHANGED <<stored, copying, faults, up, archives, results, logical, changes>>

TarsClone ==
  /\ At("clone", "tar")
  /\ \/ /\ archives' = [archives EXCEPT !.main = stored["main"]]
        /\ \/ clone' = FALSE /\ UNCHANGED faults
           \/ Fault /\ UNCHANGED clone
        /\ Advances
     \/ Fault /\ Ends("thrown") /\ UNCHANGED <<archives, clone>>
  /\ UNCHANGED <<stored, copying, up, results, logical, changes>>

-----------------------------------------------------------------------------
(* startProject.  The containers and the volume of an earlier proof are    *)
(* removed, and nobody looks whether they were; a volume in use stays.     *)
Prepare ==
  /\ proof.step = "prepare"
  /\ \/ /\ up' = up \ {Project}
        /\ stored' = [stored EXCEPT ![Project] = NoVolume]
        /\ UNCHANGED faults
     \/ /\ stored[Project] # NoVolume /\ Fault
        /\ up' \in {up, up \ {Project}}
        /\ UNCHANGED stored
  /\ Goes("unpack")
  /\ UNCHANGED <<copying, clone, archives, results, logical, changes>>

(* What OpenObserve makes of an archive that was unpacked over the files   *)
(* of another volume is not known.                                         *)
Overlaid(below, archive) ==
  IF below = NoVolume THEN {archive}
  ELSE {archive, below,
        [objects |-> archive.objects, marks |-> below.marks \cup archive.marks]}

Unpacked ==
  IF Archive(Project) = "none"
    THEN {IF stored[Project] = NoVolume THEN Empty ELSE stored[Project]}
    ELSE Overlaid(stored[Project], archives[Archive(Project)])

Unpack ==
  /\ proof.step = "unpack"
  /\ \/ \E volume \in Unpacked : stored' = [stored EXCEPT ![Project] = volume]
        /\ Goes("start") /\ UNCHANGED faults
     \/ Fault /\ Ends("thrown") /\ UNCHANGED stored
  /\ UNCHANGED <<copying, up, clone, archives, results, logical, changes>>

(* compose up, and the wait for health; both throw outside the caller's    *)
(* try, and the containers stay.                                           *)
StartProject ==
  /\ proof.step = "start"
  /\ up' = up \cup {Project}
  /\ \/ Goes("use") /\ UNCHANGED faults
     \/ Fault /\ Ends("thrown")
  /\ UNCHANGED <<stored, copying, clone, archives, results, logical, changes>>

(* A plausible bug: the volume survives the project.                       *)
StopsContainers ==
  /\ up' = up \ {Project}
  /\ UNCHANGED <<stored, faults>>

Down ==
  \/ /\ up' = up \ {Project}
     /\ stored' = [stored EXCEPT ![Project] = NoVolume]
     /\ UNCHANGED faults
  \/ Fault /\ UNCHANGED <<up, stored>>

StopProject ==
  /\ proof.step = "stop"
  /\ Down
  /\ IF proof.decision = "ACCEPTED" THEN Advances ELSE Ends(proof.decision)
  /\ UNCHANGED <<copying, clone, archives, results, logical, changes>>

UseFails ==
  /\ proof.step \in {"use", "smoke", "compare"} /\ proof.stage \in Projects
  /\ Fault /\ Throws
  /\ UNCHANGED <<stored, copying, up, clone, archives, results, logical, changes>>

(* The calls go to the OpenObserve of the project, on a port of its own.   *)
Address(stage) == stage

-----------------------------------------------------------------------------
(* The export is restored to an empty project, exported from there, and    *)
(* restored again; what the restores report is not looked at.              *)
Restores(step) ==
  /\ RestoreStarts(Address(Project), logical.main)
  /\ Goes(step)
  /\ UNCHANGED <<stored, faults, up, clone, archives, results, logical, changes>>

RestoreBegins ==
  /\ proof.step = "use" /\ proof.stage \in {"roundTrip", "targetLogicalRestore"}
  /\ Restores("restoring")

RestoreThrows ==
  /\ proof.step \in {"restoring", "again", "reexporting"} /\ proof.stage \in Projects
  /\ copying.op = "thrown" \/ ExportThrows
  /\ Throws
  /\ UNCHANGED <<stored, copying, faults, up, clone, archives, results, logical, changes>>

ReexportBegins ==
  /\ proof.step = "restoring" /\ Restored
  /\ ExportStarts(Address(Project)) /\ Goes("reexporting")
  /\ UNCHANGED <<stored, faults, up, clone, archives, results, logical, changes>>

RestoresAgain ==
  /\ At("roundTrip", "reexporting") /\ Exported
  /\ logical' = [logical EXCEPT !.again = copying.read]
  /\ RestoreStarts(Address(Project), logical.main) /\ Goes("again")
  /\ UNCHANGED <<stored, faults, up, clone, archives, results, changes>>

RoundTripJudged ==
  /\ At("roundTrip", "again") /\ Restored
  /\ proof' = [proof EXCEPT !.step = "stop",
                 !.decision = IF SameHashes(logical.main, logical.again) THEN @ ELSE "BLOCKED"]
  /\ UNCHANGED <<stored, copying, faults, up, clone, archives, results, logical, changes>>

-----------------------------------------------------------------------------
Visible(place) == \A s \in Streams :
  \E m \in stored[place].marks : m.stream = s /\ m.text = SourceMarker(proof.run)

Found(old, smoke) ==
  results' = [results EXCEPT ![Project] =
    [old |-> old, smoke |-> smoke, marks |-> stored[Project].marks]]

(* A new record, the sanitization and a real alert; a marker may also not  *)
(* become visible in time.                                                 *)
LooksForMarkers ==
  /\ proof.step = "use" /\ proof.stage \in Chain
  /\ \/ Found(Visible(Project), FALSE) /\ UNCHANGED faults
     \/ Fault /\ Found(FALSE, FALSE)
  /\ Goes("smoke")
  /\ UNCHANGED <<stored, copying, up, clone, archives, logical, changes>>

Smokes ==
  /\ At("restoreTarget", "use") \/ proof.step = "smoke"
  /\ \/ Found(results[Project].old, TRUE) /\ UNCHANGED faults
     \/ Fault /\ Found(results[Project].old, FALSE)
  /\ Goes("stop")
  /\ UNCHANGED <<stored, copying, up, clone, archives, logical, changes>>

FinalLooked ==
  /\ At("targetLogicalRestore", "reexporting") /\ Exported
  /\ Found(Visible(Project), TRUE)
  /\ Goes("stop")
  /\ UNCHANGED <<stored, copying, faults, up, clone, archives, logical, changes>>

(* The fixture: two records, seen, and a control plane of its own; an      *)
(* alert that is there already is refused.                                 *)
CreatesFixture ==
  /\ At("source", "use")
  /\ \/ /\ Objects("source") = {}
        /\ stored' = [stored EXCEPT !["source"].objects = Fixture,
                                    !["source"].marks = @ \cup Marks(proof.run)]
        /\ Goes("compare")
     \/ /\ Objects("source") # {}
        /\ Throws /\ UNCHANGED stored
  /\ UNCHANGED <<copying, faults, up, clone, archives, results, logical, changes>>

(* OpenObserve is stopped before its volume is archived, and nobody looks  *)
(* whether it was: of a running one the last records may be missing.       *)
TarsSource ==
  /\ At("source", "compare")
  /\ \/ archives' = [archives EXCEPT !.source = stored["source"]] /\ UNCHANGED faults
     \/ /\ Fault
        /\ \E s \in Streams : archives' = [archives EXCEPT !.source =
             [stored["source"] EXCEPT !.marks = {m \in @ : ~(m.stream = s /\ m.of = proof.run)}]]
  /\ Goes("stop")
  /\ UNCHANGED <<stored, copying, up, clone, results, logical, changes>>

-----------------------------------------------------------------------------
(* lab:streams:provision in the main lab, twice, and lab:streams:verify.   *)
(* The first run may write: what StreamGovernance says of a stream, with   *)
(* the settings that a guard accepts being the writable and additive ones. *)
IsOf(want, o) == o.group = "streams" /\ o.name = want.name

Refuses(want, have) == ~ (want.body \ have.body \subseteq Writable \cup Additive)

(* The next PUT: all but the names, or one of the names.                   *)
NextPut(want, have) ==
  IF have.body \ Additive # want.body \ Additive
    THEN {[have EXCEPT !.body = (want.body \ Additive) \cup (@ \cap Additive)]}
    ELSE {[have EXCEPT !.body = @ \cup {name}] : name \in want.body \ have.body}

ToProvision ==
  {pair \in Manifests \X Objects("main") :
     /\ IsOf(pair[1], pair[2]) /\ ~Refuses(pair[1], pair[2])
     /\ NextPut(pair[1], pair[2]) # {}}

Provisions ==
  /\ At("governance", "begin")
  /\ \E pair \in ToProvision : \E now \in NextPut(pair[1], pair[2]) :
       stored' = [stored EXCEPT !["main"].objects = (@ \ {pair[2]}) \cup {now}]
  /\ UNCHANGED <<copying, faults, proof, up, clone, archives, results, logical, changes>>

AsWanted == \A want \in Manifests : \E o \in Objects("main") : IsOf(want, o) /\ o.body = want.body

(* Something was refused, is not there, or has a name too many: the second *)
(* run does not say NO_CHANGE.                                             *)
Governs ==
  /\ At("governance", "begin")
  /\ \/ ToProvision = {} /\ AsWanted /\ Advances /\ UNCHANGED faults
     \/ ToProvision = {} /\ ~AsWanted /\ Ends("thrown") /\ UNCHANGED faults
     \/ Fault /\ Ends("thrown")
  /\ UNCHANGED <<stored, copying, up, clone, archives, results, logical, changes>>

EveryStageHolds ==
  /\ \A s \in Chain \cup {"restoreTarget"} : results[s].smoke
  /\ \A s \in Chain \cup {"targetLogicalRestore"} : results[s].old

Judges ==
  /\ At("judgement", "begin")
  /\ Ends(IF EveryStageHolds THEN "ACCEPTED" ELSE "BLOCKED")
  /\ UNCHANGED <<stored, copying, faults, up, clone, archives, results, logical, changes>>

Killed ==
  /\ proof.step # "ended" /\ proof.run < MaxRuns /\ Fault
  /\ Ends("killed")
  /\ UNCHANGED <<stored, copying, up, clone, archives, results, logical, changes>>

(* The company works in the main lab; what it does after the round trip    *)
(* no stage looks at, nor what it does before the next proof begins.       *)
CompanyWorks ==
  /\ changes < Changes /\ proof.stage \in {"export", "roundTrip"} /\ proof.step # "ended"
  /\ \E o \in Company : stored' = [stored EXCEPT !["main"].objects =
       IF o \in @ THEN @ \ {o} ELSE @ \cup {o}]
  /\ changes' = changes + 1
  /\ UNCHANGED <<copying, faults, proof, up, clone, archives, results, logical>>

-----------------------------------------------------------------------------
Init ==
  /\ \E objects \in Sources :
       stored = [p \in Places |-> IF p = "main" THEN [Empty EXCEPT !.objects = objects] ELSE NoVolume]
  /\ copying = NotCopying
  /\ faults = 0
  /\ proof = [run |-> 1, stage |-> "export", step |-> "begin", decision |-> "ACCEPTED", since |-> 0]
  /\ up = {} /\ clone = FALSE
  /\ archives = [main |-> NoVolume, source |-> NoVolume]
  /\ results = [s \in ToSet(Stages) |-> NoResult]
  /\ logical = [main |-> {}, again |-> {}]
  /\ changes = 0

Next ==
  \/ Begin \/ ExportMain \/ Copies \/ MainExported \/ ClonesVolume \/ TarsClone
  \/ Prepare \/ Unpack \/ StartProject \/ StopProject \/ UseFails
  \/ RestoreBegins \/ RestoreThrows \/ ReexportBegins \/ RestoresAgain \/ RoundTripJudged
  \/ LooksForMarkers \/ Smokes \/ FinalLooked \/ CreatesFixture \/ TarsSource
  \/ Provisions \/ Governs \/ Judges \/ Killed \/ CompanyWorks

Spec == Init /\ [][Next]_recoveryVars

-----------------------------------------------------------------------------
TypeOK ==
  /\ \A p \in Places : stored[p] # NoVolume => stored[p].objects \subseteq Object
  /\ stored["main"] # NoVolume
  /\ proof.stage \in ToSet(Stages)
  /\ proof.decision \in {"ACCEPTED", "BLOCKED", "thrown", "killed"}
  /\ copying.op \in {"none", "export", "restore", "thrown"}
  /\ up \subseteq Projects
  /\ faults \in 0..FaultBudget /\ changes \in 0..Changes

Accepted == proof.step = "ended" /\ proof.decision = "ACCEPTED"

(* An accepted proof saw the two records of its own source in every        *)
(* project of the chain and under the last restore, whatever earlier       *)
(* proofs left in their volumes and whatever was missing in the archive.   *)
AcceptedSawThisSource ==
  Accepted => \A p \in Chain \cup {"targetLogicalRestore"}, s \in Streams :
                \E m \in results[p].marks : m.stream = s /\ m.of = proof.run

Says(objects) ==
  [c \in {Content(o) : o \in objects} |-> Cardinality({o \in objects : Content(o) = c})]

Closed(objects) ==
  \A o \in objects : o.group = "alerts" => \A ref \in o.needs : \E p \in objects : <<p.group, p.name>> = ref

(* An accepted proof has an export that is complete in itself, although    *)
(* its groups are read while the company works, and that a project without *)
(* any of it was brought to say exactly.                                   *)
AcceptedRoundTrip ==
  Accepted => Says(logical.main) = Says(logical.again) /\ Closed(logical.main)

(* What can be restored: settings that are written, destinations of the    *)
(* one template, no folder without a dashboard or the other way round, and *)
(* no title twice in one.                                                  *)
Restorable(objects) ==
  /\ Closed(objects)
  /\ \A o \in objects :
       /\ o.group = "streams" => o.body \subseteq Writable \cup Additive
       /\ o.group = "destinations" =>
            /\ o.body = {FirstTemplate} /\ o.needs = {<<"templates", FirstTemplate>>}
            /\ \E p \in objects : <<p.group, p.name>> = <<"templates", FirstTemplate>>
       /\ IsFolder(o) => \E p \in objects : p.group = "dashboards" /\ p.folder = o.name
       /\ o.group = "dashboards" /\ o.folder \notin {"default", "folders"}
            => \E p \in objects : IsFolder(p) /\ p.name = o.folder
       /\ \A p \in objects \ {o} : <<o.group, o.name, o.folder>> # <<p.group, p.name, p.folder>>

Undisturbed == faults = proof.since

(* An export of such a control plane makes the round trip: nothing is      *)
(* refused for what comes later in the order, and nothing is left out.     *)
RestorableRoundTrips ==
  proof.stage = "roundTrip" /\ proof.decision # "ACCEPTED" /\ Undisturbed
    => ~Restorable(logical.main)

(* Where the hashes agree a restore finds nothing to do: what it compares  *)
(* is what the export hashes.                                              *)
SecondRestoreSettles ==
  At("roundTrip", "again") /\ Restored /\ Undisturbed /\ Says(logical.main) = Says(logical.again)
    => AllNoChange

(* An accepted proof none of whose commands failed leaves no containers    *)
(* and no volume, not even those an earlier proof left.                    *)
AcceptedLeavesNothing ==
  Accepted /\ Undisturbed => up = {} /\ ~clone /\ \A p \in Projects : stored[p] = NoVolume

(* A stream's settings, and what a write of them may make of it.           *)
Follows(o, p, want) ==
  /\ p = [o EXCEPT !.body = p.body]
  /\ o.body \cap Additive \subseteq p.body
  /\ p.body \ o.body \subseteq want.body \cap (Writable \cup Additive)

(* Of the main lab the proof changes only what lab:streams:provision does  *)
(* to the canonical streams there, after everything else: nothing appears  *)
(* or goes, no other object is written, and no stream loses a name or is   *)
(* given what its manifest does not want.                                  *)
MainLabKept ==
  [][stored["main"]' # stored["main"] /\ changes' = changes =>
       /\ At("governance", "begin")
       /\ stored'["main"].marks = stored["main"].marks
       /\ \A o \in Objects("main") :
            \/ o \in stored'["main"].objects
            \/ \E want \in Manifests : IsOf(want, o) /\ \E p \in stored'["main"].objects : Follows(o, p, want)
       /\ \A p \in stored'["main"].objects :
            \/ p \in Objects("main")
            \/ \E want \in Manifests, o \in Objects("main") : IsOf(want, o) /\ Follows(o, p, want)]_recoveryVars

(* A restore over data that has a control plane keeps every object of it   *)
(* as it is, and every name a stream was given.                            *)
RestoreKeepsWhatIsThere ==
  [][Copying("restore") /\ copying' # copying /\ proof' = proof =>
       \A o \in Objects(copying.place) :
         \/ o \in stored'[copying.place].objects
         \/ o.group = "streams" /\ \E p \in stored'[copying.place].objects :
              <<p.group, p.name>> = <<o.group, o.name>> /\ o.body \cap Additive \subseteq p.body]_recoveryVars

(* What a project is brought to is all of what could be brought, and a     *)
(* second restore has nothing to add.                                      *)
RestoreComplete == RestorableRoundTrips /\ SecondRestoreSettles

(* An accepted proof cleans up after itself and its predecessors.          *)
ProofOK == TypeOK /\ AcceptedLeavesNothing

(* The main lab is kept but for its streams' settings, and what a project  *)
(* already has is.                                                         *)
NothingElseTouched == MainLabKept /\ RestoreKeepsWhatIsThere

(***************************************************************************)
(* The inductive invariant behind them.                                    *)
(***************************************************************************)
Steps ==
  {"begin", "exporting", "tar", "prepare", "unpack", "start", "use", "smoke", "compare",
   "restoring", "reexporting", "again", "stop", "ended"}

Proofs ==
  [run : Nat, stage : ToSet(Stages), step : Steps,
   decision : {"ACCEPTED", "BLOCKED", "thrown", "killed"}, since : Nat]

CopyShape ==
  /\ copying = [op |-> copying.op, place |-> copying.place, left |-> copying.left,
                read |-> copying.read, actions |-> copying.actions]
  /\ copying.op \in {"none", "export", "restore", "thrown"} /\ copying.place \in Places
  /\ copying.op = "export" => copying.left \subseteq ToSet(Groups)
  /\ copying.op = "restore" => copying.left \subseteq Proper
  /\ copying.read \subseteq Proper

Findings == [old : BOOLEAN, smoke : BOOLEAN, marks : SUBSET Mark]

Data(volume) == volume = NoVolume \/ (volume \in Volume /\ IsFiniteSet(volume.objects))

Shape ==
  /\ DOMAIN stored = Places /\ \A p \in Places : Data(stored[p])
  /\ proof \in Proofs /\ CopyShape
  /\ DOMAIN archives = {"main", "source"} /\ Data(archives["main"]) /\ Data(archives["source"])
  /\ results \in [ToSet(Stages) -> Findings]
  /\ logical \in [main : SUBSET Proper, again : SUBSET Proper]
  /\ up \subseteq Projects /\ clone \in BOOLEAN
  /\ faults \in 0..FaultBudget /\ changes \in 0..Changes

Later(stage) == Position(proof.stage) > Position(stage)

(* Which steps belong to which stage, and how a proof ends.                *)
FlowOK ==
  /\ proof.step \in {"prepare", "unpack", "start", "use", "stop"} => proof.stage \in Projects
  /\ proof.step = "begin" => proof.stage \notin Projects
  /\ proof.step = "exporting" => proof.stage = "export"
  /\ proof.step = "tar" => proof.stage = "clone"
  /\ proof.step = "smoke" => proof.stage \in Chain
  /\ proof.step = "compare" => proof.stage = "source"
  /\ proof.step \in {"restoring", "reexporting"} => proof.stage \in {"roundTrip", "targetLogicalRestore"}
  /\ proof.step = "again" => proof.stage = "roundTrip"
  /\ proof.decision # "ACCEPTED" => proof.step \in {"stop", "ended"}
  /\ Accepted => proof.stage = "judgement" /\ EveryStageHolds
  /\ proof.since <= faults

(* What is used is there.                                                  *)
VolumesOK ==
  /\ stored["main"] # NoVolume
  /\ proof.step \in {"start", "use", "smoke", "compare", "restoring", "reexporting", "again"}
       => stored[proof.stage] # NoVolume
  /\ Later("clone") => archives["main"] # NoVolume
  /\ Later("source") \/ (At("source", "stop") /\ proof.decision = "ACCEPTED")
       => archives["source"] # NoVolume

(* The export or restore that a step waits for is the one it has started.  *)
CopyingOK ==
  /\ proof.step = "exporting" => copying.place = "main" /\ copying.op \in {"export", "thrown"}
  /\ proof.step = "reexporting" =>
       /\ copying.place = proof.stage /\ copying.op \in {"export", "thrown"}
       /\ copying.op = "export" =>
            /\ copying.read \subseteq {o \in Objects(proof.stage) : o.group \notin copying.left}
            /\ \A o \in Objects(proof.stage) : o.group \notin copying.left =>
                 o \in copying.read \/ (o.group = "dashboards" /\ ~Undisturbed)
  /\ proof.step \in {"restoring", "again"} =>
       /\ copying.place = proof.stage /\ copying.op \in {"restore", "thrown"}
       /\ copying.op = "restore" => copying.left \subseteq logical.main

(* Whose record a marker is, its text says; and what was found was there.  *)
MarksOK ==
  /\ \A p \in Places : stored[p] # NoVolume => \A m \in stored[p].marks : m.text = m.of
  /\ \A a \in {"main", "source"} : archives[a] # NoVolume => \A m \in archives[a].marks : m.text = m.of
  /\ \A p \in ToSet(Stages), s \in Streams :
       results[p].old => \E m \in results[p].marks : m.stream = s /\ m.of = proof.run
  /\ proof.step = "smoke" => results[proof.stage].marks = stored[proof.stage].marks
  /\ ~results["restoreTarget"].old

(* A stream is there once wherever something is restored.                  *)
StreamsOK ==
  /\ \A p \in Projects \ {"restoreTarget"} : stored[p] # NoVolume => OneStreamPerName(Objects(p))
  /\ archives["source"] # NoVolume => OneStreamPerName(archives["source"].objects)

SameContents(here, there) == {Content(o) : o \in here} = {Content(o) : o \in there}

(* An alert in the project of the round trip has what it needs; what the   *)
(* project was asked for is what it has.                                   *)
RoundTripOK ==
  /\ stored["roundTrip"] # NoVolume => Closed(Objects("roundTrip"))
  /\ proof.step = "again" => Closed(logical.again)
  /\ Later("roundTrip") \/ (At("roundTrip", "stop") /\ proof.decision = "ACCEPTED")
       => SameHashes(logical.main, logical.again) /\ Closed(logical.again)

(* Undisturbed, every stage removes its project.                           *)
CleanOK ==
  Undisturbed /\ proof.decision = "ACCEPTED" =>
    /\ Later("clone") => ~clone
    /\ \A p \in Projects : Later(p) => p \notin up /\ stored[p] = NoVolume

(* Undisturbed, the round trip begins with nothing, has each object once,  *)
(* and brings all of what can be restored.                                 *)
OncePerName(objects) ==
  \A o, p \in objects : <<o.group, o.name, o.folder>> = <<p.group, p.name, p.folder>> => o = p

Brought(objects, there) ==
  /\ \A o \in objects : ~IsFolder(o) => \E p \in there : Content(p) = Content(o)
  /\ \A o \in objects : o.group = "dashboards" /\ o.folder \notin {"default", "folders"}
       => \E p \in there : IsFolder(p) /\ p.name = o.folder

RestoringOK ==
  Undisturbed /\ proof.stage = "roundTrip" =>
    /\ proof.step = "unpack" => stored["roundTrip"] = NoVolume
    /\ proof.step \in {"start", "use"} => stored["roundTrip"] = Empty
    /\ proof.step \in {"restoring", "reexporting", "again"} => OncePerName(Objects("roundTrip"))
    /\ proof.step = "restoring" /\ Restorable(logical.main) =>
         /\ copying.op = "restore"
         /\ Brought(logical.main \ copying.left, Objects("roundTrip"))
         /\ \A p \in Objects("roundTrip") : \E o \in logical.main :
              Content(p) = Content(o) /\ (IsFolder(p) \/ o \notin copying.left)
    /\ proof.step = "reexporting" /\ Restorable(logical.main) =>
         /\ copying.op = "export"
         /\ SameContents(logical.main, Objects("roundTrip"))
    /\ proof.step = "again" =>
         /\ Restorable(logical.main) => SameHashes(logical.main, logical.again)
         /\ SameContents(logical.main, logical.again) =>
              /\ copying.op = "restore" /\ AllNoChange
              /\ SameContents(logical.main, Objects("roundTrip"))
    /\ proof.decision # "ACCEPTED" => ~Restorable(logical.main)

ExportOK == Later("export") => \A g \in ToSet(Groups) : \E o \in logical.main : o.group = g

RecoveryInv ==
  /\ Shape /\ FlowOK /\ VolumesOK /\ CopyingOK /\ MarksOK /\ StreamsOK
  /\ RoundTripOK /\ CleanOK /\ RestoringOK /\ ExportOK
=============================================================================
