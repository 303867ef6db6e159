-------------------------- MODULE ControlPlaneCopy --------------------------
(***************************************************************************)
(* The logical export and restore of what OpenObserve is configured with:  *)
(* an export reads seven groups of objects concurrently and hashes each;   *)
(* a restore brings them to another OpenObserve, group after group, object *)
(* by object.  It creates what is missing and leaves what is there, and a  *)
(* call that fails ends it, except for a destination.                      *)
(***************************************************************************)
EXTENDS Naturals, FiniteSets, Sequences, SequencesExt

CONSTANTS
  Places,        \* the OpenObserves
  Writable,      \* the settings of a stream that one PUT writes
  Additive,      \* the distinct_value_fields, which are added name by name
  FirstTemplate, \* the template of the repository that a destination is given
  NoVolume,      \* a place without data
  FaultBudget    \* bound: calls that fail, commands that fail, and kills

Groups ==
  <<"streams", "functions", "pipelines", "dashboards", "templates", "destinations", "alerts">>

(* An object: its name, the folder a dashboard is in, what it says (for a  *)
(* stream the settings that are not the default), and the objects it       *)
(* refers to.  A copy has its own identifier, which no hash contains.      *)
Object == [group : ToSet(Groups), name : STRING, folder : STRING,
           body : SUBSET STRING, needs : SUBSET (ToSet(Groups) \X STRING), id : Nat]

VARIABLES
  stored,  \* what each place has: objects, the markers of records, and the stages that ran on it
  copying, \* the export or restore under way, or the last one
  faults   \* what went wrong so far

NotCopying == [op |-> "none", place |-> "main", left |-> {}, read |-> {}, actions |-> {}]

Copying(op) == copying.op = op /\ copying.left # {}

Fault == faults < FaultBudget /\ faults' = faults + 1

Objects(place) == stored[place].objects

(* sha256 of a group: what its objects say, each as often as it occurs.    *)
Content(o) == [o EXCEPT !.id = 0]
GroupHash(objects, g) ==
  LET of == {o \in objects : o.group = g}
  IN  [c \in {Content(o) : o \in of} |-> Cardinality({o \in of : Content(o) = c})]

(* A plausible bug: the groups are compared by their counts.               *)
SameCounts(here, there) ==
  \A g \in ToSet(Groups) :
    Cardinality({o \in here : o.group = g}) = Cardinality({o \in there : o.group = g})

SameHashes(here, there) == \A g \in ToSet(Groups) : GroupHash(here, g) = GroupHash(there, g)

-----------------------------------------------------------------------------
ExportStarts(place) ==
  copying' = [op |-> "export", place |-> place, left |-> ToSet(Groups), read |-> {}, actions |-> {}]

(* The folder "default" is always there and is no object.                  *)
ReadGroup(g) ==
  /\ Copying("export") /\ g \in copying.left
  /\ copying' = [copying EXCEPT !.left = @ \ {g},
                                !.read = @ \cup {o \in Objects(copying.place) : o.group = g}]
  /\ UNCHANGED <<stored, faults>>

(* The list of a folder that cannot be read is an empty list, and the      *)
(* export goes on without the dashboards of the folder.                    *)
FolderUnlisted ==
  /\ Copying("export") /\ "dashboards" \in copying.left /\ Fault
  /\ \E unlisted \in SUBSET ({o.folder : o \in Objects(copying.place)} \ {"folders"}) :
       copying' = [copying EXCEPT !.left = @ \ {"dashboards"},
         !.read = @ \cup {o \in Objects(copying.place) : o.group = "dashboards" /\ o.folder \notin unlisted}]
  /\ UNCHANGED stored

ExportFails == Copying("export") /\ Fault /\ copying' = [copying EXCEPT !.op = "thrown"] /\ UNCHANGED stored

(* An empty group is no success.                                           *)
Exported ==
  /\ copying.op = "export" /\ copying.left = {}
  /\ \A g \in ToSet(Groups) : \E o \in copying.read : o.group = g

ExportThrows ==
  \/ copying.op = "thrown"
  \/ copying.op = "export" /\ copying.left = {} /\ ~Exported

-----------------------------------------------------------------------------
RestoreStarts(place, objects) ==
  copying' = [op |-> "restore", place |-> place, left |-> objects, read |-> {}, actions |-> {}]

(* A plausible bug: the order of the export, where alerts come before the  *)
(* templates and destinations they need.                                   *)
AlertsFirst(g) == IF g = "alerts" THEN 0 ELSE CHOOSE k \in 1..Len(Groups) : Groups[k] = g

Rank(g) == CHOOSE k \in 1..Len(Groups) : Groups[k] = g

IsNext(o) == Copying("restore") /\ o \in copying.left /\ \A p \in copying.left : Rank(o.group) <= Rank(p.group)

Named(o) == {p \in Objects(copying.place) : p.group = o.group /\ p.name = o.name /\ p.folder = o.folder}

NewId(objects) == 1 + Cardinality(objects)

With(objects, o) == objects \cup {[o EXCEPT !.id = NewId(objects)]}

Reports(o, action) ==
  copying' = [copying EXCEPT !.left = @ \ {o}, !.actions = @ \cup {action}]

Writes(objects) == stored' = [stored EXCEPT ![copying.place].objects = objects]

(* What a new object may not lack: an alert its stream and destination, a  *)
(* destination its template.                                               *)
Creatable(o) == \A ref \in o.needs : \E p \in Objects(copying.place) : <<p.group, p.name>> = ref

(* A plausible bug: what has the name is replaced by what was exported.    *)
ReplacesExisting(o) ==
  /\ IsNext(o) /\ o.group \notin {"streams", "dashboards"}
  /\ Named(o) # {}
  /\ Writes((Objects(copying.place) \ Named(o)) \cup {o})
  /\ Reports(o, "NO_CHANGE")
  /\ UNCHANGED faults

KeepsExisting(o) ==
  /\ IsNext(o) /\ o.group \notin {"streams", "dashboards"}
  /\ Named(o) # {}
  /\ Reports(o, "NO_CHANGE")
  /\ UNCHANGED <<stored, faults>>

CreatesNamed(o) ==
  /\ IsNext(o) /\ o.group \in {"functions", "pipelines", "templates", "alerts"}
  /\ Named(o) = {} /\ Creatable(o)
  /\ Writes(With(Objects(copying.place), o))
  /\ Reports(o, "CREATED")
  /\ UNCHANGED faults

(* Neither the address nor the template of a destination comes from the    *)
(* export; a refused creation is reported and the restore goes on.         *)
Redirected(o) == [o EXCEPT !.body = {FirstTemplate}, !.needs = {<<"templates", FirstTemplate>>}]

CreatesDestination(o) ==
  /\ IsNext(o) /\ o.group = "destinations" /\ Named(o) = {}
  /\ IF Creatable(Redirected(o))
       THEN Writes(With(Objects(copying.place), Redirected(o))) /\ Reports(o, "CREATED")
       ELSE Reports(o, "FAILED") /\ UNCHANGED stored
  /\ UNCHANGED faults

DestinationFails(o) ==
  /\ IsNext(o) /\ o.group = "destinations" /\ Fault
  /\ Reports(o, "FAILED")
  /\ UNCHANGED stored

-----------------------------------------------------------------------------
(* A stream is created by a first record.  Of its settings one PUT writes  *)
(* the writable ones and further PUTs add one name each; what is neither   *)
(* (store_original_data) is exported, hashed, and never written.           *)
Bootstrapped(o) == [o EXCEPT !.body = {}]

Current(o) == IF Named(o) = {} THEN Bootstrapped(o) ELSE CHOOSE p \in Named(o) : TRUE

Settled(o, have) == o.body \cap Writable = have.body \cap Writable

MissingNames(o, have) == (o.body \cap Additive) \ have.body

(* The server registers every name that comes in a PUT of its own.         *)
Registered(names) == names

RestoresStream(o) ==
  /\ IsNext(o) /\ o.group = "streams"
  /\ LET have == Current(o)
         names == MissingNames(o, have)
         now == [have EXCEPT !.body = (have.body \ Writable) \cup (o.body \cap Writable)
                                        \cup Registered(names)]
     IN  /\ Writes((Objects(copying.place) \ Named(o)) \cup {now})
         /\ Reports(o, IF Settled(o, have) /\ names = {} THEN "NO_CHANGE" ELSE "CREATED")
  /\ UNCHANGED faults

(* The first record is not accepted, and nobody looks.                     *)
StreamSkipped(o) ==
  /\ IsNext(o) /\ o.group = "streams" /\ Named(o) = {} /\ Fault
  /\ Reports(o, "SKIPPED_STREAM_DOES_NOT_EXIST")
  /\ UNCHANGED stored

-----------------------------------------------------------------------------
(* A dashboard goes to the folder of its name, which is made if there is   *)
(* none, and is there if the folder has one of its title.  The folders of  *)
(* the export are passed over.                                             *)
IsFolder(o) == o.group = "dashboards" /\ o.folder = "folders"

FolderOf(o) == [group |-> "dashboards", name |-> o.folder, folder |-> "folders",
                body |-> {}, needs |-> {}, id |-> 0]

InFolder(o) ==
  IF o.folder = "default" \/ \E p \in Objects(copying.place) : IsFolder(p) /\ p.name = o.folder
    THEN Objects(copying.place)
    ELSE With(Objects(copying.place), FolderOf(o))

PassesFolder(o) ==
  /\ IsNext(o) /\ IsFolder(o)
  /\ copying' = [copying EXCEPT !.left = @ \ {o}]
  /\ UNCHANGED <<stored, faults>>

RestoresDashboard(o) ==
  /\ IsNext(o) /\ o.group = "dashboards" /\ ~IsFolder(o)
  /\ IF Named(o) # {}
       THEN Reports(o, "NO_CHANGE") /\ UNCHANGED stored
       ELSE Writes(With(InFolder(o), o)) /\ Reports(o, "CREATED")
  /\ UNCHANGED faults

(* A list that cannot be read is an empty list: the title is there twice.  *)
DashboardUnlisted(o) ==
  /\ IsNext(o) /\ o.group = "dashboards" /\ ~IsFolder(o) /\ Named(o) # {} /\ Fault
  /\ Writes(With(Objects(copying.place), o))
  /\ Reports(o, "CREATED")

-----------------------------------------------------------------------------
(* A refused creation or PUT throws.  Of a stream some of the names, of a  *)
(* dashboard its folder may have been written.                             *)
CallFails(o) ==
  /\ IsNext(o) /\ o.group # "destinations" /\ ~IsFolder(o) /\ Fault
  /\ \/ UNCHANGED stored
     \/ /\ o.group = "streams"
        /\ Writes((Objects(copying.place) \ Named(o))
                    \cup {[Current(o) EXCEPT !.body = (@ \ Writable) \cup (o.body \cap Writable)]})
     \/ o.group = "dashboards" /\ Named(o) = {} /\ Writes(InFolder(o))
  /\ copying' = [copying EXCEPT !.op = "thrown"]

Refused(o) ==
  /\ IsNext(o) /\ o.group = "alerts" /\ Named(o) = {} /\ ~Creatable(o)
  /\ copying' = [copying EXCEPT !.op = "thrown"]
  /\ UNCHANGED <<stored, faults>>

Restored == copying.op = "restore" /\ copying.left = {}

AllNoChange == copying.actions \subseteq {"NO_CHANGE"}

CopyStep ==
  \/ \E g \in ToSet(Groups) : ReadGroup(g)
  \/ FolderUnlisted \/ ExportFails
  \/ \E o \in copying.left :
       /\ copying.op = "restore"
       /\ \/ KeepsExisting(o) \/ CreatesNamed(o) \/ CreatesDestination(o) \/ DestinationFails(o)
          \/ RestoresStream(o) \/ StreamSkipped(o)
          \/ PassesFolder(o) \/ RestoresDashboard(o) \/ DashboardUnlisted(o)
          \/ CallFails(o) \/ Refused(o)
=============================================================================
