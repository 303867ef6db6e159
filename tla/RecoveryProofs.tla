---------------------------- MODULE RecoveryProofs ----------------------------
(***************************************************************************)
(* What an accepted recovery proof has shown, for every control plane of   *)
(* the main lab, any number of proofs, of failing commands, of kills and   *)
(* of changes by the company.                                              *)
(***************************************************************************)
EXTENDS RecoveryProof, FiniteSetTheorems, TLAPS

(***************************************************************************)
(* The order of the stages.                                                *)
(***************************************************************************)
LEMMA StageSet ==
  /\ ToSet(Stages) = {"export", "clone", "roundTrip", "restoreTarget", "source", "sourceRestore",
                      "upgrade", "rollback", "reUpgrade", "targetLogicalRestore", "governance",
                      "judgement"}
  /\ Len(Stages) = 12 /\ Projects \subseteq ToSet(Stages)
BY DEF ToSet, Stages, Projects, Chain

LEMMA StageAt ==
  ASSUME NEW k \in 1 .. 12
  PROVE  Position(Stages[k]) = k
<1>1. \A i, j \in 1 .. 12 : Stages[i] = Stages[j] => i = j
  BY DEF Stages
<1>2. Len(Stages) = 12
  BY DEF Stages
<1> QED
  BY <1>1, <1>2 DEF Position

LEMMA Positions ==
  /\ Position("export") = 1 /\ Position("clone") = 2 /\ Position("roundTrip") = 3
  /\ Position("restoreTarget") = 4 /\ Position("source") = 5 /\ Position("sourceRestore") = 6
  /\ Position("upgrade") = 7 /\ Position("rollback") = 8 /\ Position("reUpgrade") = 9
  /\ Position("targetLogicalRestore") = 10 /\ Position("governance") = 11
  /\ Position("judgement") = 12
<1>1. /\ Stages[1] = "export" /\ Stages[2] = "clone" /\ Stages[3] = "roundTrip"
      /\ Stages[4] = "restoreTarget" /\ Stages[5] = "source" /\ Stages[6] = "sourceRestore"
      /\ Stages[7] = "upgrade" /\ Stages[8] = "rollback" /\ Stages[9] = "reUpgrade"
      /\ Stages[10] = "targetLogicalRestore" /\ Stages[11] = "governance"
      /\ Stages[12] = "judgement"
  BY DEF Stages
<1>2. \A k \in 1 .. 12 : Position(Stages[k]) = k
  BY StageAt
<1> QED
  BY <1>1, <1>2

LEMMA Advancing ==
  ASSUME NEW s \in ToSet(Stages), s # "judgement"
  PROVE  /\ Following(s) \in ToSet(Stages)
         /\ Position(Following(s)) = Position(s) + 1
         /\ Position(s) \in 1 .. 11
<1>1. /\ Stages[1] = "export" /\ Stages[2] = "clone" /\ Stages[3] = "roundTrip"
      /\ Stages[4] = "restoreTarget" /\ Stages[5] = "source" /\ Stages[6] = "sourceRestore"
      /\ Stages[7] = "upgrade" /\ Stages[8] = "rollback" /\ Stages[9] = "reUpgrade"
      /\ Stages[10] = "targetLogicalRestore" /\ Stages[11] = "governance"
      /\ Stages[12] = "judgement"
  BY DEF Stages
<1>2. PICK k \in 1 .. 11 : s = Stages[k] /\ Position(s) = k
  BY <1>1, StageSet, Positions
<1>3. Following(s) = Stages[k + 1] /\ k + 1 \in 1 .. 12
  BY <1>2 DEF Following
<1>4. Following(s) \in ToSet(Stages)
  BY <1>3 DEF ToSet, Stages
<1> QED
  BY <1>2, <1>3, <1>4, StageAt

(***************************************************************************)
(* What the helpers of the proof make of its state.                        *)
(***************************************************************************)
LEMMA GoesTo ==
  ASSUME proof \in Proofs, NEW s \in Steps, Goes(s)
  PROVE  /\ proof' \in Proofs
         /\ proof'.step = s /\ proof'.stage = proof.stage /\ proof'.decision = proof.decision
         /\ proof'.run = proof.run /\ proof'.since = proof.since
BY DEF Goes, Proofs

LEMMA EndsWith ==
  ASSUME proof \in Proofs, NEW d \in {"ACCEPTED", "BLOCKED", "thrown", "killed"}, Ends(d)
  PROVE  /\ proof' \in Proofs
         /\ proof'.step = "ended" /\ proof'.stage = proof.stage /\ proof'.decision = d
         /\ proof'.run = proof.run /\ proof'.since = proof.since
BY DEF Ends, Proofs, Steps

LEMMA ThrowsTo ==
  ASSUME proof \in Proofs, Throws
  PROVE  /\ proof' \in Proofs
         /\ proof'.step = "stop" /\ proof'.stage = proof.stage /\ proof'.decision = "thrown"
         /\ proof'.run = proof.run /\ proof'.since = proof.since
BY DEF Throws, Proofs, Steps

LEMMA AdvancesTo ==
  ASSUME proof \in Proofs, proof.stage # "judgement", Advances
  PROVE  /\ proof' \in Proofs
         /\ proof'.stage = Following(proof.stage)
         /\ proof'.step = FirstStep(Following(proof.stage))
         /\ Position(proof'.stage) = Position(proof.stage) + 1
         /\ proof'.decision = proof.decision
         /\ proof'.run = proof.run /\ proof'.since = proof.since
<1>1. proof.stage \in ToSet(Stages)
  BY DEF Proofs
<1>2. Following(proof.stage) \in ToSet(Stages) /\ FirstStep(Following(proof.stage)) \in Steps
  BY <1>1, Advancing DEF FirstStep, Steps
<1>3. Position(Following(proof.stage)) = Position(proof.stage) + 1
  BY <1>1, Advancing
<1>4. proof' = [proof EXCEPT !.stage = Following(proof.stage),
                             !.step = FirstStep(Following(proof.stage))]
  BY DEF Advances, Proofs
<1> HIDE DEF Following, FirstStep
<1> QED
  BY <1>2, <1>3, <1>4 DEF Proofs

(***************************************************************************)
(* What a write of a restore makes of the place it goes to.                *)
(***************************************************************************)
StoredShape == DOMAIN stored = Places /\ \A p \in Places : Data(stored[p])

LEMMA VolumeFields ==
  ASSUME NEW v, Data(v), v # NoVolume
  PROVE  /\ v = [objects |-> v.objects, marks |-> v.marks] /\ v \in Volume
         /\ v.objects \subseteq Proper /\ v.marks \subseteq Mark /\ IsFiniteSet(v.objects)
BY DEF Data, Volume

LEMMA IsVolume ==
  ASSUME NEW X, X \subseteq Proper, IsFiniteSet(X), NEW M, M \subseteq Mark
  PROVE  Data([objects |-> X, marks |-> M]) /\ [objects |-> X, marks |-> M] # NoVolume
BY RecoveryAssumption DEF Data, Volume

LEMMA Written ==
  ASSUME StoredShape, copying.place \in Places, stored[copying.place] # NoVolume,
         NEW X, X \subseteq Proper, IsFiniteSet(X), Writes(X)
  PROVE  /\ StoredShape'
         /\ \A p \in Places : p # copying.place => stored'[p] = stored[p]
         /\ stored'[copying.place] = [objects |-> X, marks |-> stored[copying.place].marks]
         /\ stored'[copying.place] # NoVolume
         /\ stored'[copying.place].objects = X
         /\ stored'[copying.place].marks = stored[copying.place].marks
<1> DEFINE v == stored[copying.place]
           w == [objects |-> X, marks |-> v.marks]
<1>1. v = [objects |-> v.objects, marks |-> v.marks] /\ v.marks \subseteq Mark
  BY VolumeFields DEF StoredShape
<1>2. stored' = [stored EXCEPT ![copying.place] = w]
  <2>1. [v EXCEPT !.objects = X] = w
    BY <1>1
  <2> QED
    BY <2>1 DEF Writes
<1>3. Data(w) /\ w # NoVolume
  BY <1>1, IsVolume
<1>4. w.objects = X /\ w.marks = v.marks
  OBVIOUS
<1> HIDE DEF v, w
<1>5. /\ DOMAIN stored' = Places /\ stored'[copying.place] = w
      /\ \A p \in Places : p # copying.place => stored'[p] = stored[p]
  BY <1>2 DEF StoredShape
<1>6. \A p \in Places : Data(stored'[p])
  BY <1>5, <1>3 DEF StoredShape
<1>7. StoredShape'
  BY <1>5, <1>6 DEF StoredShape
<1> QED
  BY <1>3, <1>4, <1>5, <1>7 DEF v, w

(***************************************************************************)
(* The objects a restore writes.                                           *)
(***************************************************************************)
LEMMA ObjectFields ==
  ASSUME NEW o \in Proper
  PROVE  /\ o \in Object
         /\ o = [group |-> o.group, name |-> o.name, folder |-> o.folder, body |-> o.body,
                 needs |-> o.needs, id |-> o.id]
         /\ o.group \in ToSet(Groups) /\ o.name \in STRING /\ o.folder \in STRING
         /\ o.body \subseteq STRING /\ o.needs \subseteq ToSet(Groups) \X STRING /\ o.id \in Nat
         /\ o.group = "alerts" => o.needs \subseteq {"streams", "destinations"} \X STRING
         /\ o.group # "dashboards" => o.folder = ""
         /\ IsFolder(o) => o.body = {} /\ o.needs = {} /\ o.name \notin {"default", "folders"}
BY DEF Proper, Object

LEMMA Copied ==
  ASSUME NEW o \in Proper, NEW X, X \subseteq Proper, IsFiniteSet(X)
  PROVE  LET c == [o EXCEPT !.id = NewId(X)]
         IN  /\ c \in Proper /\ With(X, o) = X \cup {c}
             /\ Content(c) = Content(o)
             /\ c.group = o.group /\ c.name = o.name /\ c.folder = o.folder
             /\ c.body = o.body /\ c.needs = o.needs
             /\ With(X, o) \subseteq Proper /\ IsFiniteSet(With(X, o))
<1> DEFINE c == [o EXCEPT !.id = NewId(X)]
<1>1. NewId(X) \in Nat
  BY FS_CardinalityType DEF NewId
<1>2. /\ c \in Object /\ c.group = o.group /\ c.name = o.name /\ c.folder = o.folder
      /\ c.body = o.body /\ c.needs = o.needs
  BY <1>1, ObjectFields DEF Object
<1>3. Content(c) = Content(o)
  BY ObjectFields DEF Content
<1>4. With(X, o) = X \cup {c}
  BY DEF With
<1> HIDE DEF c
<1>5. c \in Proper
  BY <1>2, ObjectFields DEF Proper, IsFolder
<1>6. IsFiniteSet(X \cup {c})
  BY FS_AddElement
<1> QED
  BY <1>2, <1>3, <1>4, <1>5, <1>6 DEF c

LEMMA GroupNames ==
  ToSet(Groups) = {"streams", "functions", "pipelines", "dashboards", "templates", "destinations",
                   "alerts"}
BY DEF ToSet, Groups

LEMMA FolderCopied ==
  ASSUME NEW o \in Proper, o.group = "dashboards", ~IsFolder(o), o.folder # "default"
  PROVE  FolderOf(o) \in Proper /\ IsFolder(FolderOf(o)) /\ FolderOf(o).name = o.folder
<1>1. o.folder \in STRING /\ "dashboards" \in ToSet(Groups) /\ o.folder \notin {"default", "folders"}
  BY ObjectFields, GroupNames DEF IsFolder
<1>0. \A S : {} \in SUBSET S
  OBVIOUS
<1>2. {} \in SUBSET STRING
  BY <1>0, Zenon
<1>6. {} \in SUBSET (ToSet(Groups) \X STRING)
  BY <1>0, Zenon
<1>3. PICK b, n : b = {} /\ n = {} /\ b \in SUBSET STRING /\ n \in SUBSET (ToSet(Groups) \X STRING)
  BY <1>2, <1>6, Zenon
<1>4. FolderOf(o) = [group |-> "dashboards", name |-> o.folder, folder |-> "folders",
                     body |-> b, needs |-> n, id |-> 0]
  BY <1>3 DEF FolderOf
<1>5. FolderOf(o) \in Object
  <2>1. "folders" \in STRING
    BY RecoveryAssumption
  <2>2. "dashboards" \in ToSet(Groups) /\ o.folder \in STRING /\ 0 \in Nat
    BY <1>1
  <2>3. b \in SUBSET STRING /\ n \in SUBSET (ToSet(Groups) \X STRING)
    BY <1>3, Zenon
  <2> QED
    BY <2>1, <2>2, <2>3, <1>4 DEF Object
<1> QED
  BY <1>1, <1>5 DEF FolderOf, Proper, IsFolder

LEMMA RedirectedCopied ==
  ASSUME NEW o \in Proper, o.group = "destinations"
  PROVE  /\ Redirected(o) \in Proper
         /\ Redirected(o).group = o.group /\ Redirected(o).name = o.name
         /\ Redirected(o).folder = o.folder
<1>1. {FirstTemplate} \subseteq STRING
      /\ {<<"templates", FirstTemplate>>} \subseteq ToSet(Groups) \X STRING
  BY RecoveryAssumption, GroupNames
<1>2. PICK b, n : b = {FirstTemplate} /\ n = {<<"templates", FirstTemplate>>}
  OBVIOUS
<1>3. Redirected(o) = [o EXCEPT !.body = b, !.needs = n]
  BY <1>2 DEF Redirected
<1>4. o \in Object /\ b \in SUBSET STRING /\ n \in SUBSET (ToSet(Groups) \X STRING)
  BY <1>1, <1>2, ObjectFields
<1>5. /\ Redirected(o).group = o.group /\ Redirected(o).name = o.name
      /\ Redirected(o).folder = o.folder /\ Redirected(o) \in Object
  BY <1>3, <1>4 DEF Object
<1> HIDE DEF Redirected
<1> QED
  BY <1>5, ObjectFields DEF Proper, IsFolder

LEMMA FolderIn ==
  ASSUME NEW o \in Proper, o.group = "dashboards", ~IsFolder(o),
         Objects(copying.place) \subseteq Proper, IsFiniteSet(Objects(copying.place))
  PROVE  /\ InFolder(o) \subseteq Proper /\ IsFiniteSet(InFolder(o))
         /\ \E N \in SUBSET Proper :
              /\ InFolder(o) = Objects(copying.place) \cup N
              /\ \A n \in N : IsFolder(n) /\ n.name = o.folder
         /\ o.folder = "default" \/ \E p \in InFolder(o) : IsFolder(p) /\ p.name = o.folder
<1> DEFINE T == Objects(copying.place)
           there == o.folder = "default" \/ \E p \in T : IsFolder(p) /\ p.name = o.folder
<1>1. InFolder(o) = IF there THEN T ELSE With(T, FolderOf(o))
  BY DEF InFolder
<1>2. CASE there
  <2>1. InFolder(o) = T /\ T = T \cup {}
    BY <1>1, <1>2
  <2>2. {} \in SUBSET Proper /\ \A n \in {} : IsFolder(n) /\ n.name = o.folder
    OBVIOUS
  <2> HIDE DEF T
  <2>3. \E N \in SUBSET Proper :
           InFolder(o) = T \cup N /\ \A n \in N : IsFolder(n) /\ n.name = o.folder
    BY <2>1, <2>2
  <2> QED
    BY <2>1, <2>3, <1>2 DEF T
<1>3. CASE ~there
  <2>1. FolderOf(o) \in Proper /\ IsFolder(FolderOf(o)) /\ FolderOf(o).name = o.folder
    BY <1>3, FolderCopied
  <2> DEFINE c == [FolderOf(o) EXCEPT !.id = NewId(T)]
  <2>2. /\ c \in Proper /\ With(T, FolderOf(o)) = T \cup {c}
        /\ c.group = FolderOf(o).group /\ c.name = FolderOf(o).name
        /\ c.folder = FolderOf(o).folder
        /\ With(T, FolderOf(o)) \subseteq Proper /\ IsFiniteSet(With(T, FolderOf(o)))
    BY <2>1, Copied
  <2>3. IsFolder(c) /\ c.name = o.folder
    BY <2>1, <2>2 DEF IsFolder
  <2> HIDE DEF c, T
  <2> QED
    BY <2>2, <2>3, <1>1, <1>3 DEF T
<1> QED
  BY <1>2, <1>3

LEMMA HandledReported ==
  ASSUME CopyShape, copying.op = "restore", NEW o,
         \/ \E a : Reports(o, a)
         \/ copying' = [copying EXCEPT !.left = @ \ {o}]
  PROVE  /\ CopyShape'
         /\ copying'.op = "restore" /\ copying'.place = copying.place
         /\ copying'.left = copying.left \ {o} /\ copying'.read = copying.read
<1>1. PICK l, acts : /\ l = copying.left \ {o}
                     /\ copying' = [op |-> copying.op, place |-> copying.place, left |-> l,
                                    read |-> copying.read, actions |-> acts]
  <2>1. CASE \E a : Reports(o, a)
    BY <2>1 DEF CopyShape, Reports
  <2>2. CASE copying' = [copying EXCEPT !.left = @ \ {o}]
    BY <2>2 DEF CopyShape
  <2> QED
    BY <2>1, <2>2
<1>2. /\ copying'.op = "restore" /\ copying'.place = copying.place
      /\ copying'.left = copying.left \ {o} /\ copying'.read = copying.read
      /\ copying'.actions = acts
  BY <1>1
<1>3. CopyShape'
  BY <1>1, <1>2 DEF CopyShape
<1> QED
  BY <1>2, <1>3

LEMMA HandledThrown ==
  ASSUME CopyShape, copying' = [copying EXCEPT !.op = "thrown"]
  PROVE  /\ CopyShape'
         /\ copying'.op = "thrown" /\ copying'.place = copying.place
         /\ copying'.left = copying.left /\ copying'.read = copying.read
<1>1. copying' = [op |-> "thrown", place |-> copying.place, left |-> copying.left,
                  read |-> copying.read, actions |-> copying.actions]
  BY DEF CopyShape
<1>2. /\ copying'.op = "thrown" /\ copying'.place = copying.place
      /\ copying'.left = copying.left /\ copying'.read = copying.read
      /\ copying'.actions = copying.actions
  BY <1>1
<1>3. CopyShape'
  BY <1>1, <1>2 DEF CopyShape
<1> QED
  BY <1>2, <1>3

(***************************************************************************)
(* One object of a restore: what it may add, and what becomes of a stream. *)
(***************************************************************************)
Handles(o) ==
  \/ KeepsExisting(o) \/ CreatesNamed(o) \/ CreatesDestination(o) \/ DestinationFails(o)
  \/ RestoresStream(o) \/ StreamSkipped(o)
  \/ PassesFolder(o) \/ RestoresDashboard(o) \/ DashboardUnlisted(o)
  \/ CallFails(o) \/ Refused(o)

There == Objects(copying.place)

Met(o, objects) == \A ref \in o.needs : \E p \in objects : <<p.group, p.name>> = ref

Adds(N) ==
  /\ N \subseteq Proper /\ There \cup N \subseteq Proper /\ IsFiniteSet(There \cup N)
  /\ \A n \in N : n.group # "streams" /\ (n.group = "alerts" => Met(n, There))
  /\ Writes(There \cup N)

Becomes(o, now) ==
  /\ o.group = "streams" /\ now \in Proper /\ now.group = "streams" /\ now.name = o.name
  /\ \A p \in Named(o) : p.body \cap Additive \subseteq now.body
  /\ Writes((There \ Named(o)) \cup {now})

RestoreReady ==
  /\ StoredShape /\ CopyShape /\ faults \in 0..FaultBudget
  /\ copying.op = "restore" /\ stored[copying.place] # NoVolume
  /\ OneStreamPerName(There)

LEMMA ReadyFacts ==
  ASSUME RestoreReady
  PROVE  /\ There \subseteq Proper /\ IsFiniteSet(There) /\ copying.left \subseteq Proper
         /\ copying.place \in Places
BY VolumeFields DEF RestoreReady, StoredShape, CopyShape, There, Objects

LEMMA AddsOne ==
  ASSUME RestoreReady, NEW o \in Proper, o.group # "streams", Writes(With(There, o)),
         o.group = "alerts" => Met(o, There)
  PROVE  \E N : Adds(N)
<1> DEFINE c == [o EXCEPT !.id = NewId(There)]
<1>1. There \subseteq Proper /\ IsFiniteSet(There)
  BY ReadyFacts
<1>2. /\ c \in Proper /\ With(There, o) = There \cup {c}
      /\ c.group = o.group /\ c.needs = o.needs
      /\ With(There, o) \subseteq Proper /\ IsFiniteSet(With(There, o))
  BY <1>1, Copied
<1> HIDE DEF c
<1>3. c.group = "alerts" => Met(c, There)
  BY <1>2 DEF Met
<1>4. Adds({c})
  BY <1>2, <1>3 DEF Adds
<1> QED
  BY <1>4

LEMMA AddsFolder ==
  ASSUME RestoreReady, NEW o \in Proper, o.group = "dashboards", ~IsFolder(o), Writes(InFolder(o))
  PROVE  \E N : Adds(N)
<1>1. There \subseteq Proper /\ IsFiniteSet(There)
  BY ReadyFacts
<1>2. PICK N \in SUBSET Proper : /\ InFolder(o) = There \cup N
                                 /\ \A n \in N : IsFolder(n) /\ n.name = o.folder
  BY <1>1, FolderIn DEF There
<1>3. InFolder(o) \subseteq Proper /\ IsFiniteSet(InFolder(o))
  BY <1>1, FolderIn DEF There
<1>4. Adds(N)
  BY <1>2, <1>3 DEF Adds, IsFolder
<1> QED
  BY <1>4

LEMMA AddsDashboard ==
  ASSUME RestoreReady, NEW o \in Proper, o.group = "dashboards", ~IsFolder(o),
         Writes(With(InFolder(o), o))
  PROVE  \E N : Adds(N)
<1> DEFINE c == [o EXCEPT !.id = NewId(InFolder(o))]
<1>1. There \subseteq Proper /\ IsFiniteSet(There)
  BY ReadyFacts
<1>2. PICK N \in SUBSET Proper : /\ InFolder(o) = There \cup N
                                 /\ \A n \in N : IsFolder(n) /\ n.name = o.folder
  BY <1>1, FolderIn DEF There
<1>3. InFolder(o) \subseteq Proper /\ IsFiniteSet(InFolder(o))
  BY <1>1, FolderIn DEF There
<1>4. /\ c \in Proper /\ With(InFolder(o), o) = InFolder(o) \cup {c}
      /\ c.group = o.group
      /\ With(InFolder(o), o) \subseteq Proper /\ IsFiniteSet(With(InFolder(o), o))
  BY <1>3, Copied
<1> HIDE DEF c
<1>5. With(InFolder(o), o) = There \cup (N \cup {c})
  BY <1>2, <1>4
<1>6. Adds(N \cup {c})
  BY <1>2, <1>4, <1>5 DEF Adds, IsFolder
<1> QED
  BY <1>6

(* A stream keeps its name and the names it was given, whatever is         *)
(* written to it.                                                          *)
LEMMA StreamBecomes ==
  ASSUME RestoreReady, NEW o \in Proper, o.group = "streams",
         NEW names, names \subseteq o.body,
         NEW now,
         now = [Current(o) EXCEPT !.body = (Current(o).body \ Writable) \cup (o.body \cap Writable)
                                             \cup names],
         Writes((There \ Named(o)) \cup {now})
  PROVE  Becomes(o, now)
<1>1. There \subseteq Proper /\ Named(o) \subseteq There
  BY ReadyFacts DEF Named, There
<1>2. Current(o) \in Proper /\ Current(o).group = "streams" /\ Current(o).name = o.name
  <2>1. CASE Named(o) = {}
    <3>1. Current(o) = [o EXCEPT !.body = {}]
      BY <2>1 DEF Current, Bootstrapped
    <3>2. \A S : {} \in SUBSET S
      OBVIOUS
    <3>3. PICK b : b = {} /\ b \in SUBSET STRING
      BY <3>2, Zenon
    <3>4. Current(o) = [o EXCEPT !.body = b] /\ o \in Object
      BY <3>1, <3>3, ObjectFields
    <3>5. /\ Current(o).group = o.group /\ Current(o).name = o.name
          /\ Current(o).folder = o.folder /\ Current(o) \in Object
      BY <3>3, <3>4 DEF Object
    <3> QED
      BY <3>5, ObjectFields DEF Proper, IsFolder
  <2>2. CASE Named(o) # {}
    <3>1. Current(o) \in Named(o)
      BY <2>2 DEF Current
    <3> QED
      BY <3>1, <1>1 DEF Named
  <2> QED
    BY <2>1, <2>2
<1> DEFINE have == Current(o)
           body == (have.body \ Writable) \cup (o.body \cap Writable) \cup names
<1>3. have \in Object /\ body \in SUBSET STRING /\ have.folder = ""
  BY <1>2, ObjectFields
<1>4. now = [have EXCEPT !.body = body]
  OBVIOUS
<1>5. \A p \in Named(o) : p = have
  <2>1. SUFFICES ASSUME NEW p \in Named(o) PROVE p = have
    OBVIOUS
  <2>2. Current(o) \in Named(o)
    BY <2>1 DEF Current
  <2> QED
    BY <2>1, <2>2, <1>1 DEF RestoreReady, OneStreamPerName, Named
<1>6. \A p \in Named(o) : p.body \cap Additive \subseteq body
  BY <1>5, RecoveryAssumption
<1>7. have.group = "streams" /\ have.name = o.name
  BY <1>2
<1> HIDE DEF have, body
<1>8. /\ now.group = "streams" /\ now.name = o.name /\ now.folder = "" /\ now.body = body
      /\ now \in Object
  BY <1>3, <1>4, <1>7 DEF Object
<1>9. now \in Proper
  BY <1>8 DEF Proper, IsFolder
<1> QED
  BY <1>6, <1>8, <1>9 DEF Becomes

Effect(o) == stored' = stored \/ (\E N : Adds(N)) \/ (\E now : Becomes(o, now))

LEMMA HandlesStored ==
  ASSUME RestoreReady, NEW o \in copying.left, Handles(o)
  PROVE  Effect(o)
<1>1. o \in Proper
  BY ReadyFacts
<1>2. CASE KeepsExisting(o) \/ DestinationFails(o) \/ StreamSkipped(o) \/ PassesFolder(o) \/ Refused(o)
  BY <1>2 DEF KeepsExisting, DestinationFails, StreamSkipped, PassesFolder, Refused, Effect
<1>3. CASE CreatesNamed(o)
  <2>1. o.group # "streams" /\ Writes(With(There, o)) /\ Met(o, There)
    BY <1>3 DEF CreatesNamed, Creatable, Met, There
  <2> QED
    BY <2>1, <1>1, AddsOne DEF Effect
<1>4. CASE CreatesDestination(o)
  <2>1. CASE Creatable(Redirected(o))
    <3>1. Writes(With(There, Redirected(o))) /\ o.group = "destinations"
      BY <1>4, <2>1 DEF CreatesDestination, There
    <3>2. Redirected(o) \in Proper /\ Redirected(o).group = o.group
      BY <1>1, <3>1, RedirectedCopied
    <3> HIDE DEF Redirected
    <3> QED
      BY <3>1, <3>2, AddsOne DEF Effect
  <2>2. CASE ~Creatable(Redirected(o))
    BY <1>4, <2>2 DEF CreatesDestination, Effect
  <2> QED
    BY <2>1, <2>2
<1>5. CASE RestoresStream(o)
  <2> DEFINE names == MissingNames(o, Current(o))
             now == [Current(o) EXCEPT !.body = (Current(o).body \ Writable) \cup (o.body \cap Writable)
                                                  \cup names]
  <2>1. o.group = "streams" /\ Writes((There \ Named(o)) \cup {now})
    BY <1>5 DEF RestoresStream, There, Registered
  <2>2. names \subseteq o.body
    BY DEF MissingNames
  <2>3. Becomes(o, now)
    BY <1>1, <2>1, <2>2, StreamBecomes
  <2> QED
    BY <2>3 DEF Effect
<1>6. CASE RestoresDashboard(o)
  <2>1. CASE Named(o) # {}
    BY <1>6, <2>1 DEF RestoresDashboard, Effect
  <2>2. CASE Named(o) = {}
    <3>1. o.group = "dashboards" /\ ~IsFolder(o) /\ Writes(With(InFolder(o), o))
      BY <1>6, <2>2 DEF RestoresDashboard
    <3> QED
      BY <3>1, <1>1, AddsDashboard DEF Effect
  <2> QED
    BY <2>1, <2>2
<1>7. CASE DashboardUnlisted(o)
  <2>1. o.group = "dashboards" /\ Writes(With(There, o))
    BY <1>7 DEF DashboardUnlisted, There
  <2> QED
    BY <2>1, <1>1, AddsOne DEF Effect
<1>8. CASE CallFails(o)
  <2>1. CASE UNCHANGED stored
    BY <2>1 DEF Effect
  <2>2. CASE /\ o.group = "streams"
             /\ Writes((Objects(copying.place) \ Named(o))
                    \cup {[Current(o) EXCEPT !.body = (@ \ Writable) \cup (o.body \cap Writable)]})
    <3> DEFINE now == [Current(o) EXCEPT !.body = (Current(o).body \ Writable)
                                                    \cup (o.body \cap Writable) \cup {}]
    <3>1. \A S : S \cup {} = S
      OBVIOUS
    <3>2. now = [Current(o) EXCEPT !.body = (@ \ Writable) \cup (o.body \cap Writable)]
      BY <3>1
    <3>3. Writes((There \ Named(o)) \cup {now})
      BY <2>2, <3>2 DEF There
    <3>4. {} \subseteq o.body
      OBVIOUS
    <3>5. Becomes(o, now)
      BY <1>1, <2>2, <3>3, <3>4, StreamBecomes
    <3> QED
      BY <3>5 DEF Effect
  <2>3. CASE o.group = "dashboards" /\ Named(o) = {} /\ Writes(InFolder(o))
    <3>1. ~IsFolder(o)
      BY <1>8 DEF CallFails
    <3> QED
      BY <3>1, <2>3, <1>1, AddsFolder DEF Effect
  <2> QED
    BY <1>8, <2>1, <2>2, <2>3 DEF CallFails
<1> QED
  BY <1>2, <1>3, <1>4, <1>5, <1>6, <1>7, <1>8 DEF Handles

LEMMA HandlesCopying ==
  ASSUME RestoreReady, NEW o \in copying.left, Handles(o)
  PROVE  /\ CopyShape' /\ copying'.place = copying.place /\ copying'.read = copying.read
         /\ \/ copying'.op = "restore" /\ copying'.left = copying.left \ {o}
            \/ copying'.op = "thrown" /\ copying'.left = copying.left
         /\ faults' \in 0..FaultBudget /\ faults <= faults'
<1>1. CopyShape /\ copying.op = "restore" /\ faults \in 0..FaultBudget
  BY DEF RestoreReady
<1>2. \/ \E a : Reports(o, a)
      \/ copying' = [copying EXCEPT !.left = @ \ {o}]
      \/ copying' = [copying EXCEPT !.op = "thrown"]
  BY DEF Handles, KeepsExisting, CreatesNamed, CreatesDestination, DestinationFails, RestoresStream,
         StreamSkipped, PassesFolder, RestoresDashboard, DashboardUnlisted, CallFails, Refused
<1>3. UNCHANGED faults \/ Fault
  BY DEF Handles, KeepsExisting, CreatesNamed, CreatesDestination, DestinationFails, RestoresStream,
         StreamSkipped, PassesFolder, RestoresDashboard, DashboardUnlisted, CallFails, Refused
<1>4. faults' \in 0..FaultBudget /\ faults <= faults'
  BY <1>1, <1>3, RecoveryAssumption DEF Fault
<1>5. CASE (\E a : Reports(o, a)) \/ copying' = [copying EXCEPT !.left = @ \ {o}]
  BY <1>1, <1>4, <1>5, HandledReported
<1>6. CASE copying' = [copying EXCEPT !.op = "thrown"]
  BY <1>1, <1>4, <1>6, HandledThrown
<1> QED
  BY <1>2, <1>5, <1>6

(* Whatever a restore writes, what was there stays, a stream is there      *)
(* once, and an alert has what it needs.                                   *)
LEMMA EffectKeeps ==
  ASSUME RestoreReady, NEW o \in copying.left, Effect(o)
  PROVE  LET after == stored'[copying.place].objects
         IN  /\ StoredShape'
             /\ \A p \in Places : p # copying.place => stored'[p] = stored[p]
             /\ stored'[copying.place] # NoVolume
             /\ stored'[copying.place].marks = stored[copying.place].marks
             /\ OneStreamPerName(after)
             /\ Closed(There) => Closed(after)
             /\ \A p \in There :
                  \/ p \in after
                  \/ p.group = "streams" /\ \E q \in after :
                       <<q.group, q.name>> = <<p.group, p.name>> /\ p.body \cap Additive \subseteq q.body
<1> DEFINE after == stored'[copying.place].objects
<1>1. /\ There \subseteq Proper /\ IsFiniteSet(There) /\ copying.place \in Places /\ o \in Proper
      /\ StoredShape /\ stored[copying.place] # NoVolume /\ OneStreamPerName(There)
  BY ReadyFacts DEF RestoreReady
<1>2. CASE stored' = stored
  <2>1. StoredShape'
    BY <1>1, <1>2 DEF StoredShape
  <2>2. after = There
    BY <1>2 DEF There, Objects
  <2> QED
    BY <1>1, <1>2, <2>1, <2>2
<1>3. CASE \E N : Adds(N)
  <2>1. PICK N : Adds(N)
    BY <1>3
  <2> DEFINE X == There \cup N
  <2>2. X \subseteq Proper /\ IsFiniteSet(X) /\ Writes(X)
    BY <2>1 DEF Adds
  <2>3. /\ StoredShape'
        /\ \A p \in Places : p # copying.place => stored'[p] = stored[p]
        /\ stored'[copying.place] # NoVolume
        /\ stored'[copying.place].objects = X
        /\ stored'[copying.place].marks = stored[copying.place].marks
    <3> HIDE DEF X
    <3> QED
      BY <1>1, <2>2, Written
  <2>4. OneStreamPerName(X)
    BY <1>1, <2>1 DEF Adds, OneStreamPerName
  <2>5. Closed(There) => Closed(X)
    <3>1. SUFFICES ASSUME Closed(There), NEW p \in X, p.group = "alerts", NEW ref \in p.needs
                   PROVE  \E q \in X : <<q.group, q.name>> = ref
      BY DEF Closed
    <3>2. \E q \in There : <<q.group, q.name>> = ref
      BY <3>1, <2>1 DEF Adds, Closed, Met
    <3> QED
      BY <3>2
  <2> QED
    BY <2>3, <2>4, <2>5
<1>4. CASE \E now : Becomes(o, now)
  <2>1. PICK now : Becomes(o, now)
    BY <1>4
  <2> DEFINE X == (There \ Named(o)) \cup {now}
  <2>2. /\ now \in Proper /\ now.group = "streams" /\ now.name = o.name /\ o.group = "streams"
        /\ \A p \in Named(o) : p.body \cap Additive \subseteq now.body
        /\ Writes(X)
    BY <2>1 DEF Becomes
  <2>3. IsFiniteSet(There \ Named(o))
    <3>1. There \ Named(o) \subseteq There
      OBVIOUS
    <3> QED
      BY <1>1, <3>1, FS_Subset
  <2>4. X \subseteq Proper /\ IsFiniteSet(X)
    BY <1>1, <2>2, <2>3, FS_AddElement
  <2>5. /\ StoredShape'
        /\ \A p \in Places : p # copying.place => stored'[p] = stored[p]
        /\ stored'[copying.place] # NoVolume
        /\ stored'[copying.place].objects = X
        /\ stored'[copying.place].marks = stored[copying.place].marks
    <3> HIDE DEF X
    <3> QED
      BY <1>1, <2>2, <2>4, Written
  <2>6. \A p \in There : p.group = "streams" /\ p.name = o.name => p \in Named(o)
    BY <1>1, <2>2, ObjectFields DEF Named, There
  <2>7. OneStreamPerName(X)
    BY <1>1, <2>2, <2>6 DEF OneStreamPerName
  <2>8. \A p \in Named(o) : p.group = "streams" /\ p.name = o.name
    BY <2>2 DEF Named
  <2>9. \A p \in There : \E q \in X : q.group = p.group /\ q.name = p.name
    BY <2>2, <2>8
  <2>10. Closed(There) => Closed(X)
    <3>1. SUFFICES ASSUME Closed(There), NEW p \in X, p.group = "alerts", NEW ref \in p.needs
                   PROVE  \E q \in X : <<q.group, q.name>> = ref
      BY DEF Closed
    <3>2. PICK q \in There : <<q.group, q.name>> = ref
      BY <3>1, <2>2 DEF Closed
    <3> QED
      BY <3>2, <2>9
  <2>11. \A p \in There : \/ p \in X
                          \/ p.group = "streams" /\ \E q \in X :
                               <<q.group, q.name>> = <<p.group, p.name>> /\ p.body \cap Additive \subseteq q.body
    BY <2>2, <2>8
  <2> HIDE DEF X
  <2> QED
    BY <2>5, <2>7, <2>10, <2>11
<1> QED
  BY <1>2, <1>3, <1>4 DEF Effect

(***************************************************************************)
(* A step of the export or restore under way.                              *)
(***************************************************************************)
LEMMA CopyingRestores ==
  ASSUME Shape, FlowOK, VolumesOK, CopyingOK, StreamsOK, Copies, copying.op = "restore"
  PROVE  /\ RestoreReady
         /\ copying.place = proof.stage /\ proof.step \in {"restoring", "again"}
         /\ proof.stage \in {"roundTrip", "targetLogicalRestore"} /\ proof.stage \in Projects
         /\ UNCHANGED <<proof, up, clone, archives, results, logical, changes>>
         /\ \E o \in copying.left : Handles(o)
<1>1. proof.step \in {"restoring", "again"} /\ copying.place = proof.stage
  BY DEF Copies, CopyingOK
<1>2. proof.stage \in {"roundTrip", "targetLogicalRestore"}
  BY <1>1 DEF FlowOK
<1>3. proof.stage \in Projects /\ proof.stage \in Places
  BY <1>2, RecoveryAssumption DEF Projects
<1>4. stored[copying.place] # NoVolume
  BY <1>1 DEF VolumesOK
<1>5. OneStreamPerName(There)
  BY <1>1, <1>2, <1>3, <1>4 DEF StreamsOK, There
<1>6. RestoreReady
  BY <1>4, <1>5 DEF RestoreReady, Shape, StoredShape
<1>7. \E o \in copying.left : Handles(o)
  BY DEF Copies, CopyStep, Handles, ReadGroup, FolderUnlisted, ExportFails, Copying
<1> QED
  BY <1>1, <1>2, <1>3, <1>6, <1>7 DEF Copies

LEMMA FaultOrNot ==
  ASSUME faults \in 0..FaultBudget, UNCHANGED faults \/ Fault
  PROVE  faults' \in 0..FaultBudget /\ faults <= faults' /\ (Fault => faults < faults')
BY RecoveryAssumption DEF Fault

(* What an export reads of a group is all of it, or dashboards of a folder *)
(* are missing and a call has failed.                                      *)
Reads(g, of) ==
  /\ copying'.op = "export" /\ copying'.left = copying.left \ {g}
  /\ copying'.read = copying.read \cup of
  /\ \A o \in of : o \in Objects(copying.place) /\ o.group = g
  /\ \A o \in Objects(copying.place) :
       o.group = g => o \in of \/ (g = "dashboards" /\ Fault)

LEMMA CopyingExports ==
  ASSUME Shape, VolumesOK, CopyingOK, Copies, copying.op # "restore"
  PROVE  /\ copying.op = "export" /\ proof.step \in {"exporting", "reexporting"}
         /\ UNCHANGED <<stored, proof, up, clone, archives, results, logical, changes>>
         /\ CopyShape' /\ copying'.place = copying.place
         /\ faults' \in 0..FaultBudget /\ faults <= faults'
         /\ \/ /\ copying'.op = "thrown" /\ copying'.read = copying.read /\ faults < faults'
            \/ \E g \in copying.left, of \in SUBSET Proper : Reads(g, of)
<1>1. (\E g \in ToSet(Groups) : ReadGroup(g)) \/ FolderUnlisted \/ ExportFails
  BY DEF Copies, CopyStep
<1>2. copying.op = "export" /\ CopyShape /\ copying.left \subseteq ToSet(Groups)
  BY <1>1 DEF Shape, CopyShape, ReadGroup, FolderUnlisted, ExportFails, Copying
<1>3. proof.step \in {"exporting", "reexporting"} /\ UNCHANGED stored
  BY <1>1, <1>2 DEF Copies, CopyingOK, ReadGroup, FolderUnlisted, ExportFails
<1>4. faults \in 0..FaultBudget
  BY DEF Shape
<1>5. CASE ExportFails
  BY <1>2, <1>3, <1>4, <1>5, HandledThrown, RecoveryAssumption DEF ExportFails, Fault, Copies
<1>6. CASE (\E g \in ToSet(Groups) : ReadGroup(g)) \/ FolderUnlisted
  <2>1. stored[copying.place] # NoVolume /\ copying.place \in Places
    <3>1. copying.place \in Places
      BY DEF Shape, CopyShape
    <3>2. copying.place = "main" \/ (copying.place = proof.stage /\ proof.step = "reexporting")
      BY <1>3 DEF CopyingOK
    <3> QED
      BY <3>1, <3>2 DEF VolumesOK
  <2>2. Objects(copying.place) \subseteq Proper
    BY <2>1, VolumeFields DEF Shape, Objects
  <2>3. PICK g \in copying.left, of \in SUBSET Objects(copying.place) :
          /\ copying' = [copying EXCEPT !.left = @ \ {g}, !.read = @ \cup of]
          /\ \A o \in of : o.group = g
          /\ \A o \in Objects(copying.place) : o.group = g => o \in of \/ (g = "dashboards" /\ Fault)
          /\ UNCHANGED faults \/ Fault
    <3>1. CASE \E g \in ToSet(Groups) : ReadGroup(g)
      BY <3>1 DEF ReadGroup
    <3>2. CASE FolderUnlisted
      <4> DEFINE all == {o.folder : o \in Objects(copying.place)} \ {"folders"}
                 read(unlisted) ==
                   {o \in Objects(copying.place) : o.group = "dashboards" /\ o.folder \notin unlisted}
      <4>1. PICK unlisted \in SUBSET all :
              copying' = [copying EXCEPT !.left = @ \ {"dashboards"}, !.read = @ \cup read(unlisted)]
        BY <3>2 DEF FolderUnlisted
      <4>2. "dashboards" \in copying.left /\ Fault
        BY <3>2 DEF FolderUnlisted
      <4>3. /\ read(unlisted) \in SUBSET Objects(copying.place)
            /\ \A o \in read(unlisted) : o.group = "dashboards"
        OBVIOUS
      <4> HIDE DEF all, read
      <4> QED
        BY <4>1, <4>2, <4>3
    <3> QED
      BY <1>6, <3>1, <3>2
  <2>4. copying' = [op |-> "export", place |-> copying.place, left |-> copying.left \ {g},
                    read |-> copying.read \cup of, actions |-> copying.actions]
    BY <1>2, <2>3 DEF CopyShape
  <2>5. /\ copying'.op = "export" /\ copying'.place = copying.place
        /\ copying'.left = copying.left \ {g} /\ copying'.read = copying.read \cup of
        /\ copying'.actions = copying.actions
    BY <2>4
  <2>6. copying'.read \subseteq Proper /\ copying'.left \subseteq ToSet(Groups) /\ of \in SUBSET Proper
    BY <1>2, <2>2, <2>5 DEF CopyShape
  <2>7. CopyShape'
    BY <1>2, <2>4, <2>5, <2>6 DEF CopyShape
  <2>8. faults' \in 0..FaultBudget /\ faults <= faults'
    BY <1>4, <2>3, FaultOrNot
  <2>9. Reads(g, of)
    BY <2>3, <2>5 DEF Reads
  <2> QED
    BY <1>2, <1>3, <2>5, <2>6, <2>7, <2>8, <2>9 DEF Copies
<1> QED
  BY <1>1, <1>5, <1>6

(***************************************************************************)
(* The shape of the state, action by action.                               *)
(***************************************************************************)
LEMMA StageInStages ==
  ASSUME proof \in Proofs
  PROVE  proof.stage \in ToSet(Stages) /\ proof.step \in Steps /\ proof.since \in Nat /\ proof.run \in Nat
BY DEF Proofs

LEMMA PlaceIs ==
  "main" \in Places /\ Projects \subseteq Places /\ Projects \subseteq ToSet(Stages)
BY RecoveryAssumption, StageSet

LEMMA MarksAre ==
  ASSUME NEW r \in Nat
  PROVE  Marks(r) \subseteq Mark /\ \A m \in Marks(r) : m.text = m.of /\ m.of = r /\ m.stream \in Streams
BY DEF Marks, Mark, SourceMarker

LEMMA Empties ==
  /\ Empty = [objects |-> {}, marks |-> {}] /\ Data(Empty) /\ Data(NoVolume) /\ Empty # NoVolume
  /\ NotCopying.op = "none" /\ NotCopying.place = "main" /\ NotCopying.read = {}
  /\ NoResult \in Findings
<1>1. Data(Empty) /\ Empty # NoVolume
  BY IsVolume, FS_EmptySet DEF Empty
<1>2. \A S : {} \in SUBSET S
  OBVIOUS
<1>3. NoResult \in Findings
  BY <1>2 DEF NoResult, Findings
<1> QED
  BY <1>1, <1>3 DEF Empty, Data, NotCopying

LEMMA StoredAfter ==
  ASSUME StoredShape, NEW p \in Places, NEW v, Data(v), stored' = [stored EXCEPT ![p] = v]
  PROVE  /\ StoredShape' /\ stored'[p] = v
         /\ \A q \in Places : q # p => stored'[q] = stored[q]
<1>1. /\ DOMAIN stored' = Places /\ stored'[p] = v
      /\ \A q \in Places : q # p => stored'[q] = stored[q]
  BY DEF StoredShape
<1>2. \A q \in Places : Data(stored'[q])
  BY <1>1 DEF StoredShape
<1> QED
  BY <1>1, <1>2 DEF StoredShape

LEMMA ArchiveThere ==
  ASSUME VolumesOK, proof.stage \in Projects, Archive(proof.stage) # "none"
  PROVE  /\ Archive(proof.stage) \in {"main", "source"}
         /\ archives[Archive(proof.stage)] # NoVolume
BY Positions DEF VolumesOK, Later, Archive, Projects, Chain

LEMMA UnpackedIs ==
  ASSUME Shape, VolumesOK, proof.stage \in Projects, NEW v \in Unpacked
  PROVE  /\ Data(v) /\ v # NoVolume
         /\ \/ v = Empty
            \/ v = stored[proof.stage]
            \/ /\ Archive(proof.stage) # "none"
               /\ v.objects = archives[Archive(proof.stage)].objects
               /\ \/ v.marks = archives[Archive(proof.stage)].marks
                  \/ /\ stored[proof.stage] # NoVolume
                     /\ v.marks = stored[proof.stage].marks \cup archives[Archive(proof.stage)].marks
         /\ Archive(proof.stage) = "none" /\ stored[proof.stage] = NoVolume => v = Empty
<1> DEFINE a == archives[Archive(proof.stage)]
           b == stored[proof.stage]
           both == [objects |-> a.objects, marks |-> b.marks \cup a.marks]
<1>1. Data(b)
  BY PlaceIs DEF Shape
<1>2. CASE Archive(proof.stage) = "none"
  <2>1. v = IF b = NoVolume THEN Empty ELSE b
    BY <1>2 DEF Unpacked, Project
  <2> HIDE DEF b
  <2> QED
    BY <1>1, <1>2, <2>1, Empties DEF b
<1>3. CASE Archive(proof.stage) # "none"
  <2>1. Data(a) /\ a # NoVolume
    BY <1>3, ArchiveThere DEF Shape
  <2>2. v \in Overlaid(b, a)
    BY <1>3 DEF Unpacked, Project
  <2>3. CASE v = a
    BY <2>1, <2>3, <1>3
  <2>4. CASE b # NoVolume /\ v = b
    BY <1>1, <2>4, <1>3
  <2>5. CASE b # NoVolume /\ v = both
    <3>1. /\ a.objects \subseteq Proper /\ IsFiniteSet(a.objects)
          /\ a.marks \subseteq Mark /\ b.marks \subseteq Mark
      BY <1>1, <2>1, <2>5, VolumeFields
    <3>2. b.marks \cup a.marks \subseteq Mark
      BY <3>1
    <3>3. Data(both) /\ both # NoVolume
      <4> HIDE DEF a, b
      <4> QED
        BY <3>1, <3>2, IsVolume
    <3>4. both.objects = a.objects /\ both.marks = b.marks \cup a.marks
      OBVIOUS
    <3> HIDE DEF both
    <3> QED
      BY <2>5, <3>3, <3>4, <1>3
  <2> QED
    BY <2>2, <2>3, <2>4, <2>5 DEF Overlaid
<1> QED
  BY <1>2, <1>3

MainWorks == CompanyWorks \/ Provisions

(* A write of lab:streams:provision leaves a stream with its name and its  *)
(* names, and gives it what its manifest wants.                            *)
LEMMA PutFollows ==
  ASSUME NEW want \in Manifests, NEW have \in Proper, IsOf(want, have), ~Refuses(want, have),
         NEW now \in NextPut(want, have)
  PROVE  now \in Proper /\ IsOf(want, now) /\ Follows(have, now, want)
<1>1. want \in Proper /\ have.group = "streams" /\ have.name = want.name
  BY RecoveryAssumption DEF IsOf
<1>2. want.body \subseteq STRING /\ have.body \subseteq STRING /\ have \in Object /\ have.folder = ""
  BY <1>1, ObjectFields
<1>3. want.body \ have.body \subseteq Writable \cup Additive
  BY DEF Refuses
<1>4. PICK b : /\ now = [have EXCEPT !.body = b] /\ b \in SUBSET STRING
               /\ have.body \cap Additive \subseteq b
               /\ b \ have.body \subseteq want.body \cap (Writable \cup Additive)
  <2> DEFINE c == (want.body \ Additive) \cup (have.body \cap Additive)
  <2>1. CASE now = [have EXCEPT !.body = (want.body \ Additive) \cup (@ \cap Additive)]
    <3>1. now = [have EXCEPT !.body = c]
      BY <2>1
    <3>2. /\ c \in SUBSET STRING /\ have.body \cap Additive \subseteq c
          /\ c \ have.body \subseteq want.body \cap (Writable \cup Additive)
      BY <1>2, <1>3
    <3> HIDE DEF c
    <3> QED
      BY <3>1, <3>2
  <2>2. CASE \E name \in want.body \ have.body : now = [have EXCEPT !.body = @ \cup {name}]
    <3>1. PICK name \in want.body \ have.body : now = [have EXCEPT !.body = @ \cup {name}]
      BY <2>2
    <3> DEFINE d == have.body \cup {name}
    <3>2. now = [have EXCEPT !.body = d]
      BY <3>1
    <3>3. /\ d \in SUBSET STRING /\ have.body \cap Additive \subseteq d
          /\ d \ have.body \subseteq want.body \cap (Writable \cup Additive)
      BY <1>2, <1>3
    <3> HIDE DEF d
    <3> QED
      BY <3>2, <3>3
  <2> QED
    BY <2>1, <2>2 DEF NextPut
<1>5. /\ now.group = have.group /\ now.name = have.name /\ now.folder = "" /\ now.body = b
      /\ now \in Object /\ now = [have EXCEPT !.body = now.body]
  BY <1>2, <1>4 DEF Object
<1>6. now \in Proper
  BY <1>1, <1>5 DEF Proper, IsFolder
<1>7. IsOf(want, now)
  BY <1>1, <1>5 DEF IsOf
<1>8. Follows(have, now, want)
  BY <1>4, <1>5 DEF Follows
<1> QED
  BY <1>6, <1>7, <1>8

LEMMA MainIs ==
  ASSUME Shape, VolumesOK
  PROVE  LET v == stored["main"]
         IN  /\ "main" \in Places /\ v # NoVolume /\ Data(v) /\ StoredShape
             /\ v = [objects |-> v.objects, marks |-> v.marks] /\ v.marks \subseteq Mark
             /\ v.objects \subseteq Proper /\ IsFiniteSet(v.objects)
<1>1. "main" \in Places /\ stored["main"] # NoVolume /\ Data(stored["main"]) /\ StoredShape
  BY PlaceIs DEF VolumesOK, Shape, StoredShape
<1> QED
  BY <1>1, VolumeFields

LEMMA ProvisionsOne ==
  ASSUME Shape, VolumesOK, Provisions
  PROVE  \E want \in Manifests, have \in Objects("main"), now \in Proper :
           /\ IsOf(want, have) /\ Follows(have, now, want)
           /\ stored' = [stored EXCEPT !["main"].objects = (@ \ {have}) \cup {now}]
<1>0. PICK pair \in ToProvision : \E now \in NextPut(pair[1], pair[2]) :
        stored' = [stored EXCEPT !["main"].objects = (@ \ {pair[2]}) \cup {now}]
  BY DEF Provisions
<1>1. PICK now \in NextPut(pair[1], pair[2]) :
        stored' = [stored EXCEPT !["main"].objects = (@ \ {pair[2]}) \cup {now}]
  BY <1>0
<1>2. /\ pair[1] \in Manifests /\ pair[2] \in Objects("main")
      /\ IsOf(pair[1], pair[2]) /\ ~Refuses(pair[1], pair[2])
  BY DEF ToProvision
<1>3. pair[2] \in Proper
  BY <1>2, MainIs DEF Objects
<1>4. now \in Proper /\ Follows(pair[2], now, pair[1])
  BY <1>1, <1>2, <1>3, PutFollows
<1> QED
  BY <1>1, <1>2, <1>4

LEMMA MainWritten ==
  ASSUME Shape, VolumesOK, MainWorks
  PROVE  \E X : /\ X \subseteq Proper /\ IsFiniteSet(X)
                /\ stored' = [stored EXCEPT !["main"].objects = X]
<1> DEFINE v == stored["main"]
<1>1. v.objects \subseteq Proper /\ IsFiniteSet(v.objects) /\ StoredShape /\ "main" \in Places
  BY MainIs
<1>2. CASE CompanyWorks
  <2>1. PICK o \in Company : stored' = [stored EXCEPT !["main"].objects =
          IF o \in @ THEN @ \ {o} ELSE @ \cup {o}]
    BY <1>2 DEF CompanyWorks
  <2> DEFINE X == IF o \in v.objects THEN v.objects \ {o} ELSE v.objects \cup {o}
  <2>2. X \subseteq Proper
    BY <1>1, RecoveryAssumption
  <2>3. IsFiniteSet(X)
    BY <1>1, FS_RemoveElement, FS_AddElement
  <2>4. stored' = [stored EXCEPT !["main"].objects = X]
    BY <2>1
  <2> HIDE DEF X
  <2> QED
    BY <2>2, <2>3, <2>4
<1>3. CASE Provisions
  <2>1. PICK have \in Objects("main"), now \in Proper :
          stored' = [stored EXCEPT !["main"].objects = (@ \ {have}) \cup {now}]
    BY <1>3, ProvisionsOne
  <2> DEFINE X == (v.objects \ {have}) \cup {now}
  <2>2. X \subseteq Proper
    BY <1>1
  <2>3. IsFiniteSet(v.objects \ {have})
    BY <1>1, FS_RemoveElement
  <2>4. IsFiniteSet(X)
    BY <2>3, FS_AddElement
  <2>5. stored' = [stored EXCEPT !["main"].objects = X]
    BY <2>1
  <2> HIDE DEF X
  <2> QED
    BY <2>2, <2>4, <2>5
<1> QED
  BY <1>2, <1>3 DEF MainWorks

LEMMA MainChanges ==
  ASSUME Shape, VolumesOK, MainWorks
  PROVE  /\ stored'["main"] # NoVolume /\ stored'["main"].marks = stored["main"].marks
         /\ \A p \in Places : p # "main" => stored'[p] = stored[p]
         /\ StoredShape'
<1> DEFINE v == stored["main"]
<1>1. /\ "main" \in Places /\ StoredShape
      /\ v = [objects |-> v.objects, marks |-> v.marks] /\ v.marks \subseteq Mark
  BY MainIs
<1>2. PICK X : /\ X \subseteq Proper /\ IsFiniteSet(X)
               /\ stored' = [stored EXCEPT !["main"].objects = X]
  BY MainWritten
<1> DEFINE w == [objects |-> X, marks |-> v.marks]
<1>3. stored' = [stored EXCEPT !["main"] = w]
  <2>1. [v EXCEPT !.objects = X] = w
    BY <1>1
  <2>2. stored' = [stored EXCEPT !["main"] = [v EXCEPT !.objects = X]]
    BY <1>2
  <2> QED
    BY <2>1, <2>2
<1>4. Data(w) /\ w # NoVolume
  <2> HIDE DEF v
  <2> QED
    BY <1>1, <1>2, IsVolume
<1>5. w.marks = v.marks
  OBVIOUS
<1> HIDE DEF w, v
<1>6. /\ StoredShape' /\ stored'["main"] = w
      /\ \A q \in Places : q # "main" => stored'[q] = stored[q]
  BY <1>1, <1>3, <1>4, StoredAfter
<1> QED
  BY <1>4, <1>5, <1>6 DEF v

LEMMA ShapeStored ==
  ASSUME Shape, FlowOK, VolumesOK, CopyingOK, StreamsOK, Next
  PROVE  StoredShape'
<1>1. StoredShape /\ proof \in Proofs
  BY DEF Shape, StoredShape
<1>2. CASE UNCHANGED stored
  BY <1>1, <1>2 DEF StoredShape
<1>3. CASE Copies
  <2>1. CASE copying.op = "restore"
    BY <1>3, <2>1, CopyingRestores, HandlesStored, EffectKeeps
  <2>2. CASE copying.op # "restore"
    BY <1>2, <1>3, <2>2, CopyingExports
  <2> QED
    BY <2>1, <2>2
<1>4. CASE Prepare
  <2>1. proof.stage \in Places
    BY <1>4, PlaceIs DEF Prepare, FlowOK
  <2>2. UNCHANGED stored \/ stored' = [stored EXCEPT ![proof.stage] = NoVolume]
    BY <1>4 DEF Prepare, Project
  <2> QED
    BY <1>1, <1>2, <2>1, <2>2, Empties, StoredAfter
<1>5. CASE Unpack
  <2>1. proof.stage \in Places /\ proof.stage \in Projects
    BY <1>5, PlaceIs DEF Unpack, FlowOK
  <2>2. UNCHANGED stored \/ \E v \in Unpacked : stored' = [stored EXCEPT ![proof.stage] = v]
    BY <1>5 DEF Unpack, Project
  <2> QED
    BY <1>1, <1>2, <2>1, <2>2, StoredAfter, UnpackedIs
<1>6. CASE StopProject
  <2>1. proof.stage \in Places
    BY <1>6, PlaceIs DEF StopProject, FlowOK
  <2>2. UNCHANGED stored \/ stored' = [stored EXCEPT ![proof.stage] = NoVolume]
    BY <1>6 DEF StopProject, Down, Project
  <2> QED
    BY <1>1, <1>2, <2>1, <2>2, Empties, StoredAfter
<1>7. CASE CreatesFixture
  <2> DEFINE v == stored["source"]
             w == [objects |-> Fixture, marks |-> v.marks \cup Marks(proof.run)]
  <2>1. "source" \in Places /\ v # NoVolume /\ Data(v)
    BY <1>7, PlaceIs DEF CreatesFixture, At, Projects, VolumesOK, Shape
  <2>2. v = [objects |-> v.objects, marks |-> v.marks] /\ v.marks \subseteq Mark
    BY <2>1, VolumeFields
  <2>3. UNCHANGED stored \/ stored' = [stored EXCEPT !["source"] = w]
    <3>1. CASE UNCHANGED stored
      BY <3>1
    <3>2. CASE stored' = [stored EXCEPT !["source"].objects = Fixture,
                                        !["source"].marks = @ \cup Marks(proof.run)]
      <4>1. [v EXCEPT !.objects = Fixture, !.marks = @ \cup Marks(proof.run)] = w
        <5> DEFINE u == [v EXCEPT !.objects = Fixture]
        <5>1. u = [objects |-> Fixture, marks |-> v.marks]
          BY <2>2
        <5>2. \A m : [u EXCEPT !.marks = m] = [objects |-> Fixture, marks |-> m]
          <6> HIDE DEF u
          <6> QED
            BY <5>1
        <5> QED
          BY <5>2
      <4>2. stored' = [stored EXCEPT !["source"] =
                         [v EXCEPT !.objects = Fixture, !.marks = @ \cup Marks(proof.run)]]
        BY <3>2, <2>1, <1>1 DEF StoredShape
      <4> QED
        BY <4>1, <4>2
    <3> QED
      BY <1>7, <3>1, <3>2 DEF CreatesFixture
  <2>4. Marks(proof.run) \subseteq Mark
    BY <1>1, StageInStages, MarksAre
  <2>5. Data(w)
    BY <2>2, <2>4, IsVolume, RecoveryAssumption
  <2> HIDE DEF w
  <2> QED
    BY <1>1, <1>2, <2>1, <2>3, <2>5, StoredAfter
<1>8. CASE MainWorks
  BY <1>8, MainChanges
<1> QED
  BY <1>2, <1>3, <1>4, <1>5, <1>6, <1>7, <1>8
     DEF Next, MainWorks, Begin, ExportMain, MainExported, ClonesVolume, TarsClone, StartProject, UseFails,
         RestoreBegins, Restores, RestoreThrows, ReexportBegins, RestoresAgain, RoundTripJudged,
         LooksForMarkers, Smokes, FinalLooked, TarsSource, Governs, Judges, Killed

LEMMA BeginsWith ==
  ASSUME Shape, Begin
  PROVE  /\ proof' \in Proofs
         /\ proof'.run = proof.run + 1 /\ proof'.stage = "export" /\ proof'.step = "begin"
         /\ proof'.decision = "ACCEPTED" /\ proof'.since = faults
BY StageInStages, StageSet DEF Begin, Shape, Proofs, Steps

LEMMA JudgedTo ==
  ASSUME proof \in Proofs, RoundTripJudged
  PROVE  /\ proof' \in Proofs
         /\ proof'.step = "stop" /\ proof'.stage = proof.stage
         /\ proof'.decision = IF SameHashes(logical.main, logical.again)
                                THEN proof.decision ELSE "BLOCKED"
         /\ proof'.run = proof.run /\ proof'.since = proof.since
<1> DEFINE d == IF SameHashes(logical.main, logical.again) THEN proof.decision ELSE "BLOCKED"
<1>1. d \in {"ACCEPTED", "BLOCKED", "thrown", "killed"}
  BY DEF Proofs
<1>2. proof' = [proof EXCEPT !.step = "stop", !.decision = d]
  BY DEF RoundTripJudged, Proofs
<1> HIDE DEF d
<1>3. /\ proof' \in Proofs
      /\ proof'.step = "stop" /\ proof'.stage = proof.stage /\ proof'.decision = d
      /\ proof'.run = proof.run /\ proof'.since = proof.since
  BY <1>1, <1>2 DEF Proofs, Steps
<1> QED
  BY <1>3 DEF d

LEMMA ShapeProof ==
  ASSUME Shape, FlowOK, Next
  PROVE  proof' \in Proofs
<1>1. proof \in Proofs
  BY DEF Shape
<1>2. CASE Begin
  BY <1>2, BeginsWith
<1>3. CASE RoundTripJudged
  BY <1>1, <1>3, JudgedTo
<1>4. CASE UNCHANGED proof
  BY <1>1, <1>4
<1>5. CASE \E s \in Steps : Goes(s)
  BY <1>1, <1>5, GoesTo
<1>6. CASE \E d \in {"ACCEPTED", "BLOCKED", "thrown", "killed"} : Ends(d)
  BY <1>1, <1>6, EndsWith
<1>7. CASE Throws
  BY <1>1, <1>7, ThrowsTo
<1>8. CASE Advances /\ proof.stage # "judgement"
  BY <1>1, <1>8, AdvancesTo
<1>9. CASE MainExported \/ TarsClone \/ Governs
  BY <1>6, <1>8, <1>9 DEF MainExported, TarsClone, Governs, At
<1>10. CASE StopProject
  <2>1. proof.stage # "judgement" /\ proof.decision \in {"ACCEPTED", "BLOCKED", "thrown", "killed"}
    BY <1>1, <1>10 DEF StopProject, FlowOK, Projects, Chain, Proofs
  <2> QED
    BY <1>6, <1>8, <1>10, <2>1 DEF StopProject
<1>11. CASE ExportMain \/ ClonesVolume \/ Prepare \/ ReexportBegins \/ RestoresAgain \/ LooksForMarkers
            \/ Smokes \/ FinalLooked \/ TarsSource
  BY <1>5, <1>11 DEF Steps, ExportMain, ClonesVolume, Prepare, ReexportBegins, RestoresAgain,
                     LooksForMarkers, Smokes, FinalLooked, TarsSource
<1>12. CASE RestoreBegins
  BY <1>5, <1>12 DEF Steps, RestoreBegins, Restores
<1>13. CASE Unpack \/ StartProject \/ CreatesFixture
  BY <1>5, <1>6, <1>7, <1>13 DEF Steps, Unpack, StartProject, CreatesFixture
<1>14. CASE UseFails \/ RestoreThrows
  BY <1>7, <1>14 DEF UseFails, RestoreThrows
<1>15. CASE Judges \/ Killed
  BY <1>6, <1>15 DEF Judges, Killed
<1>16. CASE Copies \/ MainWorks
  BY <1>4, <1>16 DEF Copies, MainWorks, CompanyWorks, Provisions
<1> QED
  BY <1>2, <1>3, <1>9, <1>10, <1>11, <1>12, <1>13, <1>14, <1>15, <1>16 DEF Next, MainWorks

LEMMA ShapeFaults ==
  ASSUME Shape, FlowOK, VolumesOK, CopyingOK, StreamsOK, Next
  PROVE  faults' \in 0..FaultBudget /\ faults <= faults'
<1>1. faults \in 0..FaultBudget
  BY DEF Shape
<1>2. CASE UNCHANGED faults \/ Fault
  BY <1>1, <1>2, FaultOrNot
<1>3. CASE Copies
  BY <1>3, CopyingRestores, CopyingExports, HandlesCopying
<1> QED
  BY <1>2, <1>3
     DEF Next, Begin, ExportMain, MainExported, ClonesVolume, TarsClone, Prepare, Unpack, StartProject,
         StopProject, Down, UseFails, RestoreBegins, Restores, RestoreThrows, ReexportBegins,
         RestoresAgain, RoundTripJudged, LooksForMarkers, Smokes, FinalLooked, CreatesFixture,
         TarsSource, Governs, Judges, Killed, MainWorks, CompanyWorks, Provisions

LEMMA Started ==
  ASSUME NEW p \in Places
  PROVE  /\ ExportStarts(p) => /\ CopyShape' /\ copying'.op = "export" /\ copying'.place = p
                               /\ copying'.left = ToSet(Groups) /\ copying'.read = {}
                               /\ copying'.actions = {}
         /\ \A objects \in SUBSET Proper :
              RestoreStarts(p, objects) =>
                /\ CopyShape' /\ copying'.op = "restore" /\ copying'.place = p
                /\ copying'.left = objects /\ copying'.read = {} /\ copying'.actions = {}
<1>1. ASSUME ExportStarts(p)
      PROVE  /\ CopyShape' /\ copying'.op = "export" /\ copying'.place = p
             /\ copying'.left = ToSet(Groups) /\ copying'.read = {} /\ copying'.actions = {}
  BY <1>1 DEF ExportStarts, CopyShape
<1>2. ASSUME NEW objects \in SUBSET Proper, RestoreStarts(p, objects)
      PROVE  /\ CopyShape' /\ copying'.op = "restore" /\ copying'.place = p
             /\ copying'.left = objects /\ copying'.read = {} /\ copying'.actions = {}
  BY <1>2 DEF RestoreStarts, CopyShape
<1> QED
  BY <1>1, <1>2

LEMMA ShapeCopying ==
  ASSUME Shape, FlowOK, VolumesOK, CopyingOK, StreamsOK, Next
  PROVE  CopyShape'
<1>1. CopyShape /\ logical.main \in SUBSET Proper
  BY DEF Shape
<1>2. CASE UNCHANGED copying
  BY <1>1, <1>2 DEF CopyShape
<1>3. CASE Copies
  BY <1>3, CopyingRestores, CopyingExports, HandlesCopying
<1>4. CASE Begin
  <2>1. copying' = [op |-> "none", place |-> "main", left |-> {}, read |-> {}, actions |-> {}]
    BY <1>4 DEF Begin, NotCopying
  <2> QED
    BY <2>1, PlaceIs DEF CopyShape
<1>5. CASE ExportMain
  BY <1>5, Started, PlaceIs DEF ExportMain
<1>6. CASE RestoreBegins \/ RestoresAgain \/ ReexportBegins
  <2>1. proof.stage \in Places
    BY <1>6, PlaceIs DEF RestoreBegins, RestoresAgain, ReexportBegins, FlowOK, At, Projects
  <2> QED
    BY <1>1, <1>6, <2>1, Started
       DEF RestoreBegins, RestoresAgain, ReexportBegins, Restores, Address, Project
<1> QED
  BY <1>2, <1>3, <1>4, <1>5, <1>6
     DEF Next, MainExported, ClonesVolume, TarsClone, Prepare, Unpack, StartProject,
         StopProject, UseFails, RestoreThrows, RoundTripJudged, LooksForMarkers, Smokes, FinalLooked,
         CreatesFixture, TarsSource, Governs, Judges, Killed, MainWorks, CompanyWorks, Provisions

LEMMA ShapeArchives ==
  ASSUME Shape, FlowOK, VolumesOK, Next
  PROVE  DOMAIN archives' = {"main", "source"} /\ Data(archives'["main"]) /\ Data(archives'["source"])
<1>1. DOMAIN archives = {"main", "source"} /\ Data(archives["main"]) /\ Data(archives["source"])
  BY DEF Shape
<1>2. CASE UNCHANGED archives
  BY <1>1, <1>2
<1>3. CASE Begin
  BY <1>3, Empties DEF Begin
<1>4. CASE TarsClone
  <2>1. Data(stored["main"])
    BY PlaceIs DEF Shape
  <2>2. UNCHANGED archives \/ archives' = [archives EXCEPT !.main = stored["main"]]
    BY <1>4 DEF TarsClone
  <2> QED
    BY <1>1, <2>1, <2>2
<1>5. CASE TarsSource
  <2> DEFINE v == stored["source"]
  <2>1. Data(v) /\ v # NoVolume
    BY <1>5, PlaceIs DEF Shape, TarsSource, At, VolumesOK, Projects
  <2>2. v = [objects |-> v.objects, marks |-> v.marks]
        /\ v.objects \subseteq Proper /\ v.marks \subseteq Mark /\ IsFiniteSet(v.objects)
    BY <2>1, VolumeFields
  <2>3. \E w : Data(w) /\ archives' = [archives EXCEPT !.source = w]
    <3>1. CASE archives' = [archives EXCEPT !.source = v]
      BY <2>1, <3>1
    <3>2. CASE \E s \in Streams : archives' = [archives EXCEPT !.source =
                 [v EXCEPT !.marks = {m \in @ : ~(m.stream = s /\ m.of = proof.run)}]]
      <4>1. PICK s \in Streams : archives' = [archives EXCEPT !.source =
                 [v EXCEPT !.marks = {m \in @ : ~(m.stream = s /\ m.of = proof.run)}]]
        BY <3>2
      <4> DEFINE ms == {m \in v.marks : ~(m.stream = s /\ m.of = proof.run)}
      <4>2. ms \subseteq Mark
        BY <2>2
      <4>3. archives' = [archives EXCEPT !.source = [v EXCEPT !.marks = ms]]
        BY <4>1
      <4> HIDE DEF ms, v
      <4>4. [v EXCEPT !.marks = ms] = [objects |-> v.objects, marks |-> ms]
        BY <2>2
      <4>5. Data([v EXCEPT !.marks = ms])
        BY <2>2, <4>2, <4>4, IsVolume
      <4> QED
        BY <4>3, <4>5
    <3> QED
      BY <1>5, <3>1, <3>2 DEF TarsSource
  <2> QED
    BY <1>1, <2>3
<1> QED
  BY <1>2, <1>3, <1>4, <1>5
     DEF Next, ExportMain, Copies, MainExported, ClonesVolume, Prepare, Unpack, StartProject,
         StopProject, UseFails, RestoreBegins, Restores, RestoreThrows, ReexportBegins,
         RestoresAgain, RoundTripJudged, LooksForMarkers, Smokes, FinalLooked, CreatesFixture,
         Governs, Judges, Killed, MainWorks, CompanyWorks, Provisions

LEMMA FoundIs ==
  ASSUME Shape, proof.stage \in Projects, stored[proof.stage] # NoVolume,
         NEW old \in BOOLEAN, NEW smoke \in BOOLEAN, Found(old, smoke)
  PROVE  /\ results' \in [ToSet(Stages) -> Findings]
         /\ results'[proof.stage].old = old /\ results'[proof.stage].smoke = smoke
         /\ results'[proof.stage].marks = stored[proof.stage].marks
         /\ \A s \in ToSet(Stages) : s # proof.stage => results'[s] = results[s]
<1> DEFINE f == [old |-> old, smoke |-> smoke, marks |-> stored[proof.stage].marks]
<1>1. proof.stage \in Places /\ proof.stage \in ToSet(Stages)
  BY PlaceIs
<1>2. stored[proof.stage].marks \subseteq Mark
  BY <1>1, VolumeFields DEF Shape
<1>3. f \in Findings
  BY <1>2 DEF Findings
<1>4. f.old = old /\ f.smoke = smoke /\ f.marks = stored[proof.stage].marks
  OBVIOUS
<1>5. results \in [ToSet(Stages) -> Findings] /\ results' = [results EXCEPT ![proof.stage] = f]
  BY DEF Found, Shape, Project
<1> HIDE DEF f
<1> QED
  BY <1>1, <1>3, <1>4, <1>5

LEMMA OldIs ==
  ASSUME Shape, proof.stage \in Projects
  PROVE  results[proof.stage].old \in BOOLEAN /\ Visible(proof.stage) \in BOOLEAN
BY PlaceIs, Zenon DEF Shape, Findings, Visible

LEMMA ShapeResults ==
  ASSUME Shape, FlowOK, VolumesOK, Next
  PROVE  results' \in [ToSet(Stages) -> Findings]
<1>1. results \in [ToSet(Stages) -> Findings]
  BY DEF Shape
<1>2. CASE UNCHANGED results
  BY <1>1, <1>2
<1>3. CASE Begin
  BY <1>3, Empties DEF Begin
<1>4. CASE LooksForMarkers \/ Smokes \/ FinalLooked
  <2>1. proof.stage \in Projects /\ stored[proof.stage] # NoVolume
    BY <1>4 DEF LooksForMarkers, Smokes, FinalLooked, FlowOK, VolumesOK, At, Projects
  <2>2. \E old, smoke \in BOOLEAN : Found(old, smoke)
    <3>1. CASE LooksForMarkers
      BY <3>1, <2>1, OldIs DEF LooksForMarkers, Project
    <3>2. CASE Smokes
      BY <3>2, <2>1, OldIs DEF Smokes, Project
    <3>3. CASE FinalLooked
      BY <3>3, <2>1, OldIs DEF FinalLooked, Project
    <3> QED
      BY <1>4, <3>1, <3>2, <3>3
  <2> QED
    BY <2>1, <2>2, FoundIs
<1> QED
  BY <1>2, <1>3, <1>4
     DEF Next, ExportMain, Copies, MainExported, ClonesVolume, TarsClone, Prepare, Unpack, StartProject,
         StopProject, UseFails, RestoreBegins, Restores, RestoreThrows, ReexportBegins,
         RestoresAgain, RoundTripJudged, CreatesFixture, TarsSource, Governs, Judges, Killed,
         MainWorks, CompanyWorks, Provisions

LEMMA ShapeLogical ==
  ASSUME Shape, Next
  PROVE  logical' \in [main : SUBSET Proper, again : SUBSET Proper]
<1>1. logical \in [main : SUBSET Proper, again : SUBSET Proper] /\ copying.read \in SUBSET Proper
  BY DEF Shape, CopyShape
<1>2. CASE UNCHANGED logical
  BY <1>1, <1>2
<1>3. CASE Begin
  <2>1. \A S : {} \in SUBSET S
    OBVIOUS
  <2> QED
    BY <1>3, <2>1 DEF Begin
<1>4. CASE MainExported \/ RestoresAgain
  BY <1>1, <1>4 DEF MainExported, RestoresAgain
<1> QED
  BY <1>2, <1>3, <1>4
     DEF Next, ExportMain, Copies, ClonesVolume, TarsClone, Prepare, Unpack, StartProject,
         StopProject, UseFails, RestoreBegins, Restores, RestoreThrows, ReexportBegins,
         RoundTripJudged, LooksForMarkers, Smokes, FinalLooked, CreatesFixture, TarsSource,
         Governs, Judges, Killed, MainWorks, CompanyWorks, Provisions

LEMMA ShapeRest ==
  ASSUME Shape, FlowOK, Next
  PROVE  up' \subseteq Projects /\ clone' \in BOOLEAN /\ changes' \in 0..Changes
<1>1. up \subseteq Projects /\ clone \in BOOLEAN /\ changes \in 0..Changes
  BY DEF Shape
<1>2. up' \subseteq Projects
  <2>1. StartProject => proof.stage \in Projects
    BY DEF StartProject, FlowOK
  <2> QED
    BY <1>1, <2>1
     DEF Next, Begin, ExportMain, Copies, MainExported, ClonesVolume, TarsClone, Prepare, Unpack,
         StartProject, StopProject, Down, UseFails, RestoreBegins, Restores, RestoreThrows,
         ReexportBegins, RestoresAgain, RoundTripJudged, LooksForMarkers, Smokes, FinalLooked,
         CreatesFixture, TarsSource, Governs, Judges, Killed, MainWorks, CompanyWorks, Provisions, Project
<1>3. clone' \in BOOLEAN
  <2>1. UNCHANGED clone \/ clone' = TRUE \/ clone' = FALSE
    BY DEF Next, Begin, ExportMain, Copies, MainExported, ClonesVolume, TarsClone, Prepare, Unpack,
         StartProject, StopProject, UseFails, RestoreBegins, Restores, RestoreThrows,
         ReexportBegins, RestoresAgain, RoundTripJudged, LooksForMarkers, Smokes, FinalLooked,
         CreatesFixture, TarsSource, Governs, Judges, Killed, MainWorks, CompanyWorks, Provisions
  <2> QED
    BY <1>1, <2>1, Zenon
<1>4. changes' \in 0..Changes
  <2>1. UNCHANGED changes \/ (changes < Changes /\ changes' = changes + 1)
    BY DEF Next, Begin, ExportMain, Copies, MainExported, ClonesVolume, TarsClone, Prepare, Unpack,
         StartProject, StopProject, UseFails, RestoreBegins, Restores, RestoreThrows,
         ReexportBegins, RestoresAgain, RoundTripJudged, LooksForMarkers, Smokes, FinalLooked,
         CreatesFixture, TarsSource, Governs, Judges, Killed, MainWorks, CompanyWorks, Provisions
  <2> QED
    BY <1>1, <2>1, RecoveryAssumption
<1> QED
  BY <1>2, <1>3, <1>4

LEMMA ShapeStep ==
  ASSUME Shape, FlowOK, VolumesOK, CopyingOK, StreamsOK, Next
  PROVE  Shape'
<1>1. StoredShape' /\ proof' \in Proofs /\ CopyShape'
  BY ShapeStored, ShapeProof, ShapeCopying
<1>2. faults' \in 0..FaultBudget
  BY ShapeFaults
<1>3. DOMAIN archives' = {"main", "source"} /\ Data(archives'["main"]) /\ Data(archives'["source"])
  BY ShapeArchives
<1>4. /\ results' \in [ToSet(Stages) -> Findings]
      /\ logical' \in [main : SUBSET Proper, again : SUBSET Proper]
  BY ShapeResults, ShapeLogical
<1>5. up' \subseteq Projects /\ clone' \in BOOLEAN /\ changes' \in 0..Changes
  BY ShapeRest
<1> QED
  BY <1>1, <1>2, <1>3, <1>4, <1>5 DEF Shape, StoredShape

(***************************************************************************)
(* Which steps belong to which stage.                                      *)
(***************************************************************************)
LEMMA FlowStep ==
  ASSUME Shape, FlowOK, VolumesOK, CopyingOK, StreamsOK, Next
  PROVE  FlowOK'
<1>1. proof \in Proofs /\ proof.since <= faults
  BY DEF Shape, FlowOK
<1>2. faults' \in 0..FaultBudget /\ faults \in 0..FaultBudget /\ faults <= faults'
  BY ShapeFaults DEF Shape
<1>3. proof.since \in Nat /\ faults \in Nat /\ faults' \in Nat
  BY <1>1, <1>2, StageInStages, RecoveryAssumption
<1>4. CASE Begin
  BY <1>4, <1>3, BeginsWith, StageSet DEF FlowOK, Accepted, Projects, Chain, Begin
<1>5. CASE UNCHANGED <<proof, results>>
  BY <1>1, <1>2, <1>3, <1>5 DEF FlowOK, Accepted, EveryStageHolds
<1>6. CASE Throws /\ proof.stage \in Projects
  BY <1>1, <1>2, <1>3, <1>6, ThrowsTo DEF FlowOK, Accepted
<1>7. CASE \E d \in {"BLOCKED", "thrown", "killed"} : Ends(d)
  <2>1. PICK d \in {"BLOCKED", "thrown", "killed"} : Ends(d)
    BY <1>7
  <2>2. /\ proof'.step = "ended" /\ proof'.stage = proof.stage /\ proof'.decision = d
        /\ proof'.since = proof.since
    BY <1>1, <2>1, EndsWith
  <2> QED
    BY <1>1, <1>2, <1>3, <2>1, <2>2 DEF FlowOK, Accepted
<1>8. CASE Advances /\ proof.stage # "judgement" /\ proof.decision = "ACCEPTED"
  <2>1. /\ proof'.step = FirstStep(proof'.stage) /\ proof'.decision = "ACCEPTED"
        /\ proof'.since = proof.since
    BY <1>1, <1>8, AdvancesTo
  <2>2. \/ proof'.step = "prepare" /\ proof'.stage \in Projects
        \/ proof'.step = "begin" /\ proof'.stage \notin Projects
    BY <2>1 DEF FirstStep
  <2> QED
    BY <1>1, <1>2, <1>3, <2>1, <2>2 DEF FlowOK, Accepted
<1>9. CASE ExportMain \/ ClonesVolume \/ Prepare \/ RestoreBegins \/ ReexportBegins \/ RestoresAgain
            \/ LooksForMarkers \/ Smokes \/ FinalLooked \/ TarsSource
  <2>1. PICK s \in Steps : Goes(s) /\ s # "ended" /\ s # "begin"
    BY <1>9 DEF Steps, ExportMain, ClonesVolume, Prepare, RestoreBegins, Restores, ReexportBegins,
                RestoresAgain, LooksForMarkers, Smokes, FinalLooked, TarsSource
  <2>2. /\ proof'.step = s /\ proof'.stage = proof.stage /\ proof'.decision = proof.decision
        /\ proof'.since = proof.since
    BY <1>1, <2>1, GoesTo
  <2>3. proof.decision = "ACCEPTED"
    BY <1>9 DEF ExportMain, ClonesVolume, Prepare, RestoreBegins, Restores, ReexportBegins,
                RestoresAgain, LooksForMarkers, Smokes, FinalLooked, TarsSource, At, FlowOK
  <2>4. CASE ExportMain
    <3>1. s = "exporting" /\ proof.stage = "export"
      BY <2>2, <2>4, <1>1, GoesTo DEF ExportMain, At, Steps
    <3> QED
      BY <1>1, <1>2, <1>3, <2>2, <2>3, <3>1 DEF FlowOK, Accepted
  <2>5. CASE ClonesVolume
    <3>1. s = "tar" /\ proof.stage = "clone"
      BY <2>2, <2>5, <1>1, GoesTo DEF ClonesVolume, At, Steps
    <3> QED
      BY <1>1, <1>2, <1>3, <2>2, <2>3, <3>1 DEF FlowOK, Accepted
  <2>6. CASE Prepare
    <3>1. s = "unpack" /\ proof.stage \in Projects
      BY <2>2, <2>6, <1>1, GoesTo DEF Prepare, FlowOK, Steps
    <3> QED
      BY <1>1, <1>2, <1>3, <2>2, <2>3, <3>1 DEF FlowOK, Accepted
  <2>7. CASE RestoreBegins
    <3>1. s = "restoring" /\ proof.stage \in {"roundTrip", "targetLogicalRestore"}
      BY <2>2, <2>7, <1>1, GoesTo DEF RestoreBegins, Restores, Steps
    <3> QED
      BY <1>1, <1>2, <1>3, <2>2, <2>3, <3>1 DEF FlowOK, Accepted
  <2>8. CASE ReexportBegins
    <3>1. s = "reexporting" /\ proof.stage \in {"roundTrip", "targetLogicalRestore"}
      BY <2>2, <2>8, <1>1, GoesTo DEF ReexportBegins, FlowOK, Steps
    <3> QED
      BY <1>1, <1>2, <1>3, <2>2, <2>3, <3>1 DEF FlowOK, Accepted
  <2>9. CASE RestoresAgain
    <3>1. s = "again" /\ proof.stage = "roundTrip"
      BY <2>2, <2>9, <1>1, GoesTo DEF RestoresAgain, At, Steps
    <3> QED
      BY <1>1, <1>2, <1>3, <2>2, <2>3, <3>1 DEF FlowOK, Accepted
  <2>10. CASE LooksForMarkers
    <3>1. s = "smoke" /\ proof.stage \in Chain
      BY <2>2, <2>10, <1>1, GoesTo DEF LooksForMarkers, Steps
    <3> QED
      BY <1>1, <1>2, <1>3, <2>2, <2>3, <3>1 DEF FlowOK, Accepted, Projects
  <2>11. CASE Smokes \/ FinalLooked \/ TarsSource
    <3>1. s = "stop" /\ proof.stage \in Projects
      BY <2>2, <2>11, <1>1, GoesTo DEF Smokes, FinalLooked, TarsSource, At, FlowOK, Projects, Steps
    <3> QED
      BY <1>1, <1>2, <1>3, <2>2, <2>3, <3>1 DEF FlowOK, Accepted
  <2> QED
    BY <1>9, <2>4, <2>5, <2>6, <2>7, <2>8, <2>9, <2>10, <2>11
<1>10. CASE Copies \/ MainWorks
  BY <1>5, <1>10 DEF Copies, MainWorks, CompanyWorks, Provisions
<1>11. CASE MainExported \/ TarsClone \/ Governs
  <2>1. proof.decision = "ACCEPTED" /\ proof.stage # "judgement"
    BY <1>11 DEF MainExported, TarsClone, Governs, At, FlowOK
  <2> QED
    BY <1>7, <1>8, <1>11, <2>1 DEF MainExported, TarsClone, Governs
<1>12. CASE StopProject
  <2>1. proof.stage # "judgement" /\ proof.decision \in {"ACCEPTED", "BLOCKED", "thrown", "killed"}
    BY <1>1, <1>12 DEF StopProject, FlowOK, Projects, Chain, Proofs
  <2> QED
    BY <1>7, <1>8, <1>12, <2>1 DEF StopProject
<1>13. CASE Unpack
  <2>1. CASE Goes("start")
    <3>1. /\ proof'.step = "start" /\ proof'.stage = proof.stage /\ proof'.decision = proof.decision
          /\ proof'.since = proof.since
      BY <1>1, <2>1, GoesTo DEF Steps
    <3> QED
      BY <1>1, <1>2, <1>3, <1>13, <3>1 DEF FlowOK, Accepted, Unpack
  <2> QED
    BY <1>7, <1>13, <2>1 DEF Unpack
<1>14. CASE StartProject
  <2>1. CASE Goes("use")
    <3>1. /\ proof'.step = "use" /\ proof'.stage = proof.stage /\ proof'.decision = proof.decision
          /\ proof'.since = proof.since
      BY <1>1, <2>1, GoesTo DEF Steps
    <3> QED
      BY <1>1, <1>2, <1>3, <1>14, <3>1 DEF FlowOK, Accepted, StartProject
  <2> QED
    BY <1>7, <1>14, <2>1 DEF StartProject
<1>15. CASE CreatesFixture
  <2>1. CASE Goes("compare")
    <3>1. /\ proof'.step = "compare" /\ proof'.stage = proof.stage
          /\ proof'.decision = proof.decision /\ proof'.since = proof.since
      BY <1>1, <2>1, GoesTo DEF Steps
    <3> QED
      BY <1>1, <1>2, <1>3, <1>15, <3>1 DEF FlowOK, Accepted, CreatesFixture, At
  <2> QED
    BY <1>6, <1>15, <2>1 DEF CreatesFixture, At, Projects
<1>16. CASE UseFails \/ RestoreThrows
  BY <1>6, <1>16 DEF UseFails, RestoreThrows
<1>17. CASE RoundTripJudged
  <2>1. /\ proof'.step = "stop" /\ proof'.stage = "roundTrip" /\ proof'.since = proof.since
    BY <1>1, <1>17, JudgedTo DEF RoundTripJudged, At
  <2> QED
    BY <1>1, <1>2, <1>3, <2>1 DEF FlowOK, Accepted, Projects
<1>18. CASE Judges
  <2>1. CASE EveryStageHolds
    <3>1. Ends("ACCEPTED") /\ proof.stage = "judgement" /\ UNCHANGED results
      BY <1>18, <2>1 DEF Judges, At
    <3>2. /\ proof'.step = "ended" /\ proof'.stage = "judgement" /\ proof'.decision = "ACCEPTED"
          /\ proof'.since = proof.since
      BY <1>1, <3>1, EndsWith
    <3>3. EveryStageHolds'
      BY <2>1, <3>1 DEF EveryStageHolds
    <3> QED
      BY <1>1, <1>2, <1>3, <3>2, <3>3 DEF FlowOK, Accepted
  <2> QED
    BY <1>7, <1>18, <2>1 DEF Judges
<1>19. CASE Killed
  BY <1>7, <1>19 DEF Killed
<1> QED
  BY <1>4, <1>9, <1>10, <1>11, <1>12, <1>13, <1>14, <1>15, <1>16, <1>17, <1>18, <1>19 DEF Next, MainWorks

(***************************************************************************)
(* Only the project of the stage is written, and only by these actions.    *)
(***************************************************************************)
LEMMA Elsewhere ==
  ASSUME Shape, FlowOK, VolumesOK, CopyingOK, StreamsOK, Next, ~MainWorks
  PROVE  \A p \in Places : p # proof.stage => stored'[p] = stored[p]
<1>1. StoredShape
  BY DEF Shape, StoredShape
<1>2. CASE UNCHANGED stored
  BY <1>2
<1>3. CASE Copies
  <2>1. CASE copying.op = "restore"
    <3>1. RestoreReady /\ copying.place = proof.stage /\ \E o \in copying.left : Handles(o)
      BY <1>3, <2>1, CopyingRestores
    <3> QED
      BY <3>1, HandlesStored, EffectKeeps
  <2>2. CASE copying.op # "restore"
    BY <1>2, <1>3, <2>2, CopyingExports
  <2> QED
    BY <2>1, <2>2
<1>4. CASE \E v : stored' = [stored EXCEPT ![proof.stage] = v]
  BY <1>1, <1>4 DEF StoredShape
<1>5. CASE Prepare
  BY <1>2, <1>4, <1>5 DEF Prepare, Project
<1>6. CASE Unpack
  BY <1>2, <1>4, <1>6 DEF Unpack, Project
<1>7. CASE StopProject
  BY <1>2, <1>4, <1>7 DEF StopProject, Down, Project
<1>8. CASE CreatesFixture
  <2>1. CASE stored' = [stored EXCEPT !["source"].objects = Fixture,
                                      !["source"].marks = @ \cup Marks(proof.run)]
    BY <1>1, <1>8, <2>1 DEF StoredShape, CreatesFixture, At
  <2> QED
    BY <1>2, <1>8, <2>1 DEF CreatesFixture
<1> QED
  BY <1>2, <1>3, <1>5, <1>6, <1>7, <1>8
     DEF Next, MainWorks, Begin, ExportMain, MainExported, ClonesVolume, TarsClone, StartProject, UseFails,
         RestoreBegins, Restores, RestoreThrows, ReexportBegins, RestoresAgain, RoundTripJudged,
         LooksForMarkers, Smokes, FinalLooked, TarsSource, Governs, Judges, Killed

LEMMA FixtureCreated ==
  ASSUME Shape, VolumesOK, At("source", "use"),
         stored' = [stored EXCEPT !["source"].objects = Fixture,
                                  !["source"].marks = @ \cup Marks(proof.run)]
  PROVE  /\ stored'["source"] = [objects |-> Fixture,
                                 marks |-> stored["source"].marks \cup Marks(proof.run)]
         /\ stored'["source"] # NoVolume
         /\ stored'["source"].objects = Fixture
         /\ stored'["source"].marks = stored["source"].marks \cup Marks(proof.run)
<1> DEFINE v == stored["source"]
           w == [objects |-> Fixture, marks |-> v.marks \cup Marks(proof.run)]
           u == [v EXCEPT !.objects = Fixture]
<1>1. "source" \in Places /\ v # NoVolume /\ Data(v) /\ StoredShape
  BY PlaceIs DEF At, Projects, VolumesOK, Shape, StoredShape
<1>2. v = [objects |-> v.objects, marks |-> v.marks] /\ v.marks \subseteq Mark
  BY <1>1, VolumeFields
<1>3. u = [objects |-> Fixture, marks |-> v.marks]
  BY <1>2
<1>4. \A m : [u EXCEPT !.marks = m] = [objects |-> Fixture, marks |-> m]
  <2> HIDE DEF u
  <2> QED
    BY <1>3
<1>5. [v EXCEPT !.objects = Fixture, !.marks = @ \cup Marks(proof.run)] = w
  BY <1>4
<1>6. stored'["source"] = [v EXCEPT !.objects = Fixture, !.marks = @ \cup Marks(proof.run)]
  BY <1>1 DEF StoredShape
<1>7. w # NoVolume
  <2>1. Marks(proof.run) \subseteq Mark
    BY StageInStages, MarksAre DEF Shape
  <2>2. v.marks \cup Marks(proof.run) \subseteq Mark
    BY <1>2, <2>1
  <2> QED
    BY <2>2, IsVolume, RecoveryAssumption
<1> QED
  BY <1>5, <1>6, <1>7

(***************************************************************************)
(* A proof stays in its stage or goes on to the following one.             *)
(***************************************************************************)
Stays == proof'.stage = proof.stage /\ proof'.run = proof.run /\ proof'.since = proof.since

GoesOn ==
  /\ MainExported \/ TarsClone \/ Governs \/ StopProject
  /\ proof.stage # "judgement" /\ proof.decision = "ACCEPTED" /\ proof'.decision = "ACCEPTED"
  /\ proof'.stage = Following(proof.stage) /\ proof'.step = FirstStep(proof'.stage)
  /\ Position(proof'.stage) = Position(proof.stage) + 1
  /\ proof'.run = proof.run /\ proof'.since = proof.since

EndsOrThrows ==
  /\ Stays
  /\ \/ proof'.step = "ended" /\ proof'.decision \in {"BLOCKED", "thrown", "killed"}
     \/ proof'.step = "stop" /\ proof'.decision = "thrown"
     \/ Judges /\ proof'.step = "ended" /\ proof'.decision = "ACCEPTED"

LEMMA StageMoves ==
  ASSUME Shape, FlowOK, Next, ~Begin
  PROVE  \/ GoesOn
         \/ EndsOrThrows
         \/ /\ Stays /\ proof'.decision = proof.decision
            /\ \/ ExportMain /\ proof'.step = "exporting"
               \/ UNCHANGED proof /\ (Copies \/ MainWorks)
               \/ ClonesVolume /\ proof'.step = "tar"
               \/ Prepare /\ proof'.step = "unpack"
               \/ Unpack /\ proof'.step = "start"
               \/ StartProject /\ proof'.step = "use"
               \/ RestoreBegins /\ proof'.step = "restoring"
               \/ ReexportBegins /\ proof'.step = "reexporting"
               \/ RestoresAgain /\ proof'.step = "again"
               \/ LooksForMarkers /\ proof'.step = "smoke"
               \/ Smokes /\ proof'.step = "stop"
               \/ FinalLooked /\ proof'.step = "stop"
               \/ CreatesFixture /\ proof'.step = "compare"
               \/ TarsSource /\ proof'.step = "stop"
         \/ /\ Stays /\ RoundTripJudged /\ proof'.step = "stop"
            /\ proof'.decision = IF SameHashes(logical.main, logical.again)
                                   THEN proof.decision ELSE "BLOCKED"
<1>1. proof \in Proofs
  BY DEF Shape
<1>2. ASSUME NEW s \in Steps, Goes(s)
      PROVE  Stays /\ proof'.step = s /\ proof'.decision = proof.decision
  BY <1>1, <1>2, GoesTo DEF Stays
<1>3. ASSUME NEW d \in {"BLOCKED", "thrown", "killed"}, Ends(d)
      PROVE  EndsOrThrows
  BY <1>1, <1>3, EndsWith DEF Stays, EndsOrThrows
<1>4. Throws => EndsOrThrows
  BY <1>1, ThrowsTo DEF Stays, EndsOrThrows
<1>5. ASSUME Advances, MainExported \/ TarsClone \/ Governs \/ StopProject,
             proof.stage # "judgement", proof.decision = "ACCEPTED"
      PROVE  GoesOn
  BY <1>1, <1>5, AdvancesTo DEF GoesOn
<1>6. CASE ExportMain \/ ClonesVolume \/ Prepare \/ RestoreBegins \/ ReexportBegins \/ RestoresAgain
  BY <1>2, <1>6 DEF Steps, ExportMain, ClonesVolume, Prepare, RestoreBegins, Restores,
                    ReexportBegins, RestoresAgain
<1>7. CASE LooksForMarkers \/ Smokes \/ FinalLooked \/ TarsSource
  BY <1>2, <1>7 DEF Steps, LooksForMarkers, Smokes, FinalLooked, TarsSource
<1>8. CASE Unpack \/ StartProject \/ CreatesFixture
  BY <1>2, <1>3, <1>4, <1>8 DEF Steps, Unpack, StartProject, CreatesFixture
<1>9. CASE Copies \/ MainWorks
  BY <1>9 DEF Copies, MainWorks, CompanyWorks, Provisions, Stays
<1>10. CASE MainExported \/ TarsClone \/ Governs
  <2>1. proof.decision = "ACCEPTED" /\ proof.stage # "judgement"
    BY <1>10 DEF MainExported, TarsClone, Governs, At, FlowOK
  <2> QED
    BY <1>3, <1>5, <1>10, <2>1 DEF MainExported, TarsClone, Governs
<1>11. CASE StopProject
  <2>1. proof.stage # "judgement" /\ proof.decision \in {"ACCEPTED", "BLOCKED", "thrown", "killed"}
    BY <1>1, <1>11 DEF StopProject, FlowOK, Projects, Chain, Proofs
  <2> QED
    BY <1>3, <1>5, <1>11, <2>1 DEF StopProject
<1>12. CASE UseFails \/ RestoreThrows
  BY <1>4, <1>12 DEF UseFails, RestoreThrows
<1>13. CASE RoundTripJudged
  BY <1>1, <1>13, JudgedTo DEF Stays
<1>14. CASE Judges
  <2>1. CASE EveryStageHolds
    <3>1. Ends("ACCEPTED")
      BY <1>14, <2>1 DEF Judges
    <3> QED
      BY <1>1, <1>14, <3>1, EndsWith DEF EndsOrThrows, Stays
  <2> QED
    BY <1>3, <1>14, <2>1 DEF Judges
<1>15. CASE Killed
  BY <1>3, <1>15 DEF Killed
<1> QED
  BY <1>6, <1>7, <1>8, <1>9, <1>10, <1>11, <1>12, <1>13, <1>14, <1>15 DEF Next, MainWorks

(***************************************************************************)
(* What is used is there.                                                  *)
(***************************************************************************)
Using == {"start", "use", "smoke", "compare", "restoring", "reexporting", "again"}

LEMMA StageIsNoMain ==
  ASSUME proof \in Proofs
  PROVE  /\ proof.stage # "main" /\ Position(proof.stage) \in Nat
         /\ Position("clone") = 2 /\ Position("source") = 5 /\ Position("roundTrip") = 3
         /\ Position("export") = 1
BY StageInStages, StageSet, Positions DEF Proofs

LEMMA ArchivesKept ==
  ASSUME Shape, Next, ~Begin
  PROVE  /\ ~TarsClone /\ ~TarsSource => UNCHANGED archives
         /\ ~TarsClone => archives'["main"] = archives["main"]
         /\ ~TarsSource => archives'["source"] = archives["source"]
<1>1. ~TarsClone /\ ~TarsSource => UNCHANGED archives
  BY DEF Next, ExportMain, Copies, MainExported, ClonesVolume, Prepare, Unpack, StartProject,
         StopProject, UseFails, RestoreBegins, Restores, RestoreThrows, ReexportBegins,
         RestoresAgain, RoundTripJudged, LooksForMarkers, Smokes, FinalLooked, CreatesFixture,
         Governs, Judges, Killed, MainWorks, CompanyWorks, Provisions
<1>2. TarsClone => archives'["source"] = archives["source"]
  BY DEF TarsClone, Shape
<1>3. TarsSource => archives'["main"] = archives["main"]
  BY DEF TarsSource, Shape
<1> QED
  BY <1>1, <1>2, <1>3

LEMMA VolumesStep ==
  ASSUME Shape, FlowOK, VolumesOK, CopyingOK, StreamsOK, Next
  PROVE  VolumesOK'
<1>0. /\ proof \in Proofs /\ proof.stage # "main" /\ Position(proof.stage) \in Nat
      /\ Position("clone") = 2 /\ Position("source") = 5
  BY StageIsNoMain DEF Shape
<1>1. stored'["main"] # NoVolume
  <2>1. CASE MainWorks
    BY <2>1, MainChanges
  <2>2. CASE ~MainWorks
    <3>1. stored'["main"] = stored["main"]
      BY <1>0, <2>2, Elsewhere, PlaceIs
    <3> QED
      BY <3>1 DEF VolumesOK
  <2> QED
    BY <2>1, <2>2
<1>2. proof'.step \in Using => stored'[proof'.stage] # NoVolume
  <2>1. SUFFICES ASSUME proof'.step \in Using PROVE stored'[proof'.stage] # NoVolume
    OBVIOUS
  <2>2. ~Begin /\ ~GoesOn /\ ~EndsOrThrows
    BY <2>1, BeginsWith DEF Using, GoesOn, FirstStep, EndsOrThrows
  <2>3. proof'.stage = proof.stage
    BY <2>2, StageMoves DEF Stays
  <2>4. CASE UNCHANGED <<proof, stored>>
    BY <2>1, <2>3, <2>4 DEF VolumesOK, Using
  <2>5. CASE Unpack /\ proof'.step = "start"
    <3>1. proof.step = "unpack" /\ proof.stage \in Projects
      BY <2>5 DEF Unpack, FlowOK
    <3>2. ~Ends("thrown")
      BY <1>0, <2>5, EndsWith
    <3>3. PICK v \in Unpacked : stored' = [stored EXCEPT ![proof.stage] = v]
      BY <2>5, <3>2 DEF Unpack, Project
    <3>4. v # NoVolume
      BY <3>1, UnpackedIs
    <3> QED
      BY <2>3, <3>1, <3>3, <3>4, PlaceIs DEF Shape
  <2>6. CASE CreatesFixture /\ proof'.step = "compare"
    <3>1. ~Throws
      BY <1>0, <2>6, ThrowsTo
    <3>2. proof.stage = "source" /\ stored'["source"] # NoVolume
      BY <2>6, <3>1, FixtureCreated DEF CreatesFixture, At
    <3> QED
      BY <2>3, <3>2
  <2>7. CASE Copies
    <3>1. CASE copying.op = "restore"
      <4>1. RestoreReady /\ copying.place = proof.stage /\ \E o \in copying.left : Handles(o)
        BY <2>7, <3>1, CopyingRestores
      <4>2. stored'[copying.place] # NoVolume
        BY <4>1, HandlesStored, EffectKeeps
      <4> QED
        BY <2>3, <4>1, <4>2
    <3>2. CASE copying.op # "restore"
      BY <2>4, <2>7, <3>2, CopyingExports
    <3> QED
      BY <3>1, <3>2
  <2>8. CASE MainWorks
    <3>1. proof.step \in Using
      BY <2>1, <2>8 DEF MainWorks, CompanyWorks, Provisions
    <3>2. proof.stage \in Places
      BY <3>1, PlaceIs DEF Using, FlowOK, Chain, Projects
    <3>3. stored'[proof.stage] = stored[proof.stage]
      BY <1>0, <2>8, <3>2, MainChanges
    <3> QED
      BY <2>3, <3>1, <3>3 DEF VolumesOK, Using
  <2>9. CASE StartProject \/ RestoreBegins \/ ReexportBegins \/ RestoresAgain \/ LooksForMarkers
    <3>1. proof.step \in Using /\ UNCHANGED stored
      BY <2>9 DEF StartProject, RestoreBegins, Restores, ReexportBegins, RestoresAgain,
                  LooksForMarkers, Using, At
    <3> QED
      BY <2>3, <3>1 DEF VolumesOK, Using
  <2> QED
    BY <2>1, <2>2, <2>5, <2>6, <2>7, <2>8, <2>9, StageMoves DEF Using
<1>3. (Later("clone"))' => archives'["main"] # NoVolume
  <2>1. CASE TarsClone /\ GoesOn
    <3>1. ~Ends("thrown")
      BY <1>0, <2>1, EndsWith, StageSet, Advancing DEF GoesOn, TarsClone, At, FirstStep
    <3>2. archives' = [archives EXCEPT !.main = stored["main"]]
      BY <2>1, <3>1 DEF TarsClone
    <3> QED
      BY <3>2 DEF VolumesOK, Shape
  <2>2. CASE Begin
    BY <1>0, <2>2, BeginsWith, Positions DEF Later
  <2>3. CASE ~Begin /\ ~(TarsClone /\ GoesOn)
    <3>1. CASE GoesOn /\ MainExported
      BY <1>0, <3>1, Positions DEF GoesOn, MainExported, At, Later
    <3>2. CASE GoesOn /\ (Governs \/ StopProject)
      <4>1. Position(proof.stage) > 2 /\ UNCHANGED archives
        BY <3>2, Positions DEF Governs, StopProject, At, FlowOK, Projects, Chain
      <4> QED
        BY <1>0, <4>1 DEF VolumesOK, Later
    <3>3. CASE ~GoesOn
      <4>1. proof'.stage = proof.stage
        BY <2>3, <3>3, StageMoves DEF EndsOrThrows, Stays
      <4>2. Later("clone") => archives'["main"] = archives["main"]
        <5>1. ~TarsClone \/ ~Later("clone")
          BY <1>0 DEF TarsClone, At, Later
        <5> QED
          BY <2>3, <5>1, ArchivesKept
      <4> QED
        BY <4>1, <4>2 DEF VolumesOK, Later
    <3> QED
      BY <3>1, <3>2, <3>3, <2>3 DEF GoesOn
  <2> QED
    BY <2>1, <2>2, <2>3
<1>4. (Later("source") \/ (At("source", "stop") /\ proof.decision = "ACCEPTED"))'
        => archives'["source"] # NoVolume
  <2>1. CASE Begin
    BY <1>0, <2>1, BeginsWith, Positions DEF Later, At
  <2>2. CASE TarsSource
    <3> DEFINE v == stored["source"]
    <3>1. v # NoVolume /\ Data(v)
      BY <2>2, PlaceIs DEF TarsSource, At, VolumesOK, Shape, Projects
    <3>2. v = [objects |-> v.objects, marks |-> v.marks] /\ v.objects \subseteq Proper
          /\ v.marks \subseteq Mark /\ IsFiniteSet(v.objects)
      BY <3>1, VolumeFields
    <3>3. CASE archives' = [archives EXCEPT !.source = v]
      BY <3>1, <3>3 DEF Shape
    <3>4. CASE \E s \in Streams : archives' = [archives EXCEPT !.source =
                 [v EXCEPT !.marks = {m \in @ : ~(m.stream = s /\ m.of = proof.run)}]]
      <4>1. PICK s \in Streams : archives' = [archives EXCEPT !.source =
                 [v EXCEPT !.marks = {m \in @ : ~(m.stream = s /\ m.of = proof.run)}]]
        BY <3>4
      <4> DEFINE ms == {m \in v.marks : ~(m.stream = s /\ m.of = proof.run)}
      <4>2. ms \subseteq Mark
        BY <3>2
      <4>3. archives' = [archives EXCEPT !.source = [v EXCEPT !.marks = ms]]
        BY <4>1
      <4> HIDE DEF ms, v
      <4>4. [v EXCEPT !.marks = ms] = [objects |-> v.objects, marks |-> ms]
        BY <3>2
      <4>5. [v EXCEPT !.marks = ms] # NoVolume
        BY <3>2, <4>2, <4>4, IsVolume
      <4> QED
        BY <4>3, <4>5 DEF Shape
    <3> QED
      BY <2>2, <3>3, <3>4 DEF TarsSource
  <2>3. CASE ~Begin /\ ~TarsSource
    <3>1. archives'["source"] = archives["source"]
      BY <2>3, ArchivesKept
    <3>2. CASE GoesOn
      <4>1. \/ Position(proof.stage) # 5
            \/ proof.stage = "source" /\ proof.step = "stop"
        <5>1. CASE StopProject
          BY <5>1, Positions DEF StopProject, FlowOK, Projects, Chain
        <5>2. CASE MainExported \/ TarsClone \/ Governs
          BY <5>2, Positions DEF MainExported, TarsClone, Governs, At
        <5> QED
          BY <3>2, <5>1, <5>2 DEF GoesOn
      <4>2. ~(At("source", "stop"))'
        BY <3>2 DEF GoesOn, At, FirstStep
      <4> QED
        BY <1>0, <3>1, <3>2, <4>1, <4>2 DEF GoesOn, VolumesOK, Later, At
    <3>3. CASE EndsOrThrows
      BY <1>0, <3>1, <3>3 DEF EndsOrThrows, Stays, VolumesOK, Later, At, Judges
    <3>4. CASE ~GoesOn /\ ~EndsOrThrows
      <4>1. proof'.stage = proof.stage
        BY <2>3, <3>4, StageMoves DEF Stays
      <4>2. proof'.stage = "source" /\ proof'.step = "stop" => UNCHANGED proof
        BY <2>3, <3>4, <4>1, StageMoves DEF Smokes, FinalLooked, RoundTripJudged, At, FlowOK, Chain
      <4> QED
        BY <1>0, <3>1, <4>1, <4>2 DEF VolumesOK, Later, At
    <3> QED
      BY <3>2, <3>3, <3>4
  <2> QED
    BY <2>1, <2>2, <2>3
<1> QED
  BY <1>1, <1>2, <1>3, <1>4 DEF VolumesOK, Using

(***************************************************************************)
(* The export or restore a step waits for.                                 *)
(***************************************************************************)
LEMMA StillUndisturbed ==
  ASSUME Shape, FlowOK, VolumesOK, CopyingOK, StreamsOK, Next, ~Begin, Undisturbed'
  PROVE  Undisturbed /\ faults' = faults /\ ~Fault
<1>1. faults' \in 0..FaultBudget /\ faults <= faults' /\ proof.since <= faults
      /\ faults \in 0..FaultBudget /\ proof.since \in Nat
  BY ShapeFaults, StageInStages DEF Shape, FlowOK
<1>2. proof'.since = proof.since
  BY StageMoves DEF GoesOn, EndsOrThrows, Stays
<1> QED
  BY <1>1, <1>2, RecoveryAssumption DEF Undisturbed, Fault

CopyingSteps == {"exporting", "reexporting", "restoring", "again"}

LEMMA CopyingStep ==
  ASSUME Shape, FlowOK, VolumesOK, CopyingOK, StreamsOK, Next
  PROVE  CopyingOK'
<1>1. proof \in Proofs /\ proof.stage # "main" /\ logical.main \in SUBSET Proper
  BY StageIsNoMain DEF Shape
<1>2. CASE proof'.step \notin CopyingSteps
  BY <1>2 DEF CopyingOK, CopyingSteps
<1>3. CASE proof'.step \in CopyingSteps
  <2>1. ~Begin /\ ~GoesOn /\ ~EndsOrThrows
    BY <1>3, BeginsWith DEF CopyingSteps, GoesOn, FirstStep, EndsOrThrows
  <2>2. proof'.stage = proof.stage
    BY <2>1, StageMoves DEF Stays
  <2>3. CASE ExportMain /\ proof'.step = "exporting"
    BY <2>3, Started, PlaceIs DEF ExportMain, CopyingOK
  <2>4. CASE RestoreBegins /\ proof'.step = "restoring"
    <3>1. proof.stage \in Places /\ RestoreStarts(proof.stage, logical.main) /\ UNCHANGED logical
      BY <2>4, PlaceIs DEF RestoreBegins, Restores, Address, Project, Projects
    <3> QED
      BY <1>1, <2>2, <2>4, <3>1, Started DEF CopyingOK
  <2>5. CASE RestoresAgain /\ proof'.step = "again"
    <3>1. proof.stage \in Places /\ RestoreStarts(proof.stage, logical.main)
      BY <2>5, PlaceIs DEF RestoresAgain, Address, Project, Projects, At
    <3>2. logical'.main = logical.main
      BY <2>5 DEF RestoresAgain, Shape
    <3> QED
      BY <1>1, <2>2, <2>5, <3>1, <3>2, Started DEF CopyingOK
  <2>6. CASE ReexportBegins /\ proof'.step = "reexporting"
    <3>1. proof.stage \in Places /\ ExportStarts(proof.stage) /\ UNCHANGED stored
          /\ stored[proof.stage] # NoVolume
      BY <2>6, PlaceIs DEF ReexportBegins, Address, Project, Projects, FlowOK, VolumesOK
    <3>2. Objects(proof.stage) \subseteq Proper
      BY <3>1, VolumeFields DEF Shape, Objects
    <3>3. \A o \in Objects(proof.stage) : o.group \in ToSet(Groups)
      BY <3>2, ObjectFields
    <3>4. {o \in Objects(proof.stage) : o.group \notin ToSet(Groups)} = {}
      BY <3>3
    <3>5. copying'.op = "export" /\ copying'.place = proof.stage
          /\ copying'.left = ToSet(Groups) /\ copying'.read = {}
      BY <3>1, Started
    <3> QED
      BY <2>2, <2>6, <3>1, <3>4, <3>5 DEF CopyingOK, Objects
  <2>7. CASE Copies /\ UNCHANGED proof
    <3>1. CASE copying.op = "restore"
      <4>1. /\ RestoreReady /\ copying.place = proof.stage /\ proof.step \in {"restoring", "again"}
            /\ UNCHANGED logical
        BY <2>7, <3>1, CopyingRestores
      <4>2. PICK o \in copying.left : Handles(o)
        BY <2>7, <3>1, CopyingRestores
      <4>3. /\ copying'.place = copying.place
            /\ \/ copying'.op = "restore" /\ copying'.left = copying.left \ {o}
               \/ copying'.op = "thrown" /\ copying'.left = copying.left
        BY <4>1, <4>2, HandlesCopying
      <4>4. copying.left \subseteq logical.main
        BY <3>1, <4>1 DEF CopyingOK
      <4>5. /\ copying'.place = proof'.stage /\ copying'.op \in {"restore", "thrown"}
            /\ copying'.op = "restore" => copying'.left \subseteq logical'.main
        BY <2>7, <4>1, <4>3, <4>4
      <4>6. proof'.step \in {"restoring", "again"}
        BY <2>7, <4>1
      <4> QED
        BY <4>5, <4>6 DEF CopyingOK
    <3>2. CASE copying.op # "restore"
      <4>1. /\ copying.op = "export" /\ proof.step \in {"exporting", "reexporting"}
            /\ UNCHANGED stored /\ copying'.place = copying.place
        BY <2>7, <3>2, CopyingExports
      <4>2. CASE copying'.op = "thrown"
        BY <2>7, <4>1, <4>2 DEF CopyingOK
      <4>3. CASE \E g \in copying.left, of \in SUBSET Proper : Reads(g, of)
        <5>1. PICK g \in copying.left, of \in SUBSET Proper : Reads(g, of)
          BY <4>3
        <5>2. CASE proof.step = "exporting"
          BY <2>7, <4>1, <5>1, <5>2 DEF CopyingOK, Reads
        <5>3. CASE proof.step = "reexporting"
          <6> DEFINE O == Objects(proof.stage)
          <6>1. /\ copying.place = proof.stage
                /\ copying.read \subseteq {o \in O : o.group \notin copying.left}
                /\ \A o \in O : o.group \notin copying.left =>
                     o \in copying.read \/ (o.group = "dashboards" /\ ~Undisturbed)
            BY <4>1, <5>3 DEF CopyingOK
          <6>2. (~Undisturbed \/ Fault) => ~Undisturbed'
            BY <2>1, StillUndisturbed
          <6>3. copying'.read \subseteq {o \in O : o.group \notin copying'.left}
            BY <5>1, <6>1 DEF Reads
          <6>4. \A o \in O : o.group \notin copying'.left =>
                  o \in copying'.read \/ (o.group = "dashboards" /\ ~Undisturbed')
            BY <5>1, <6>1, <6>2 DEF Reads
          <6>5. O' = O
            BY <2>7, <4>1 DEF Objects
          <6> QED
            BY <2>7, <4>1, <5>1, <5>3, <6>1, <6>3, <6>4, <6>5 DEF CopyingOK, Reads
        <5> QED
          BY <4>1, <5>2, <5>3
      <4> QED
        BY <2>7, <3>2, <4>2, <4>3, CopyingExports
    <3> QED
      BY <3>1, <3>2
  <2>8. CASE MainWorks
    <3>1. UNCHANGED <<copying, proof, logical>> /\ copying.place \in Places
      BY <2>8 DEF MainWorks, CompanyWorks, Provisions, Shape, CopyShape
    <3>2. proof.step = "reexporting" => stored'[proof.stage] = stored[proof.stage]
      BY <1>1, <2>8, <3>1, MainChanges DEF CopyingOK
    <3>3. Undisturbed' = Undisturbed
      BY <2>8 DEF MainWorks, CompanyWorks, Provisions, Undisturbed
    <3> QED
      BY <3>1, <3>2, <3>3 DEF CopyingOK, Objects
  <2> QED
    BY <1>3, <2>1, <2>3, <2>4, <2>5, <2>6, <2>7, <2>8, StageMoves DEF CopyingSteps
<1> QED
  BY <1>2, <1>3

(***************************************************************************)
(* Whose record a marker is.                                               *)
(***************************************************************************)
LEMMA ResultsKept ==
  ASSUME Next, ~Begin, ~LooksForMarkers, ~Smokes, ~FinalLooked
  PROVE  UNCHANGED results
BY DEF Next, ExportMain, Copies, MainExported, ClonesVolume, TarsClone, Prepare, Unpack, StartProject,
       StopProject, UseFails, RestoreBegins, Restores, RestoreThrows, ReexportBegins,
       RestoresAgain, RoundTripJudged, CreatesFixture, TarsSource, Governs, Judges, Killed,
       MainWorks, CompanyWorks, Provisions

Honest(marks) == \A m \in marks : m.text = m.of

(* What becomes of the records of a place.                                 *)
LEMMA MarksStored ==
  ASSUME Shape, FlowOK, VolumesOK, CopyingOK, StreamsOK, MarksOK, Next,
         NEW p \in Places, stored'[p] # NoVolume
  PROVE  Honest(stored'[p].marks)
<1>1. /\ proof \in Proofs /\ proof.stage # "main" /\ StoredShape
      /\ stored[p] # NoVolume => Honest(stored[p].marks)
  BY StageIsNoMain DEF Shape, StoredShape, MarksOK, Honest
<1>2. CASE stored'[p] = stored[p]
  BY <1>1, <1>2
<1>3. CASE MainWorks
  BY <1>1, <1>3, MainChanges DEF VolumesOK
<1>4. CASE ~MainWorks /\ p # proof.stage
  BY <1>2, <1>4, Elsewhere
<1>5. CASE p = proof.stage /\ Copies
  <2>1. CASE copying.op = "restore"
    <3>1. RestoreReady /\ copying.place = proof.stage /\ \E o \in copying.left : Handles(o)
      BY <1>5, <2>1, CopyingRestores
    <3>2. stored'[p].marks = stored[p].marks /\ stored[p] # NoVolume
      BY <1>5, <3>1, HandlesStored, EffectKeeps DEF RestoreReady
    <3> QED
      BY <1>1, <3>2
  <2>2. CASE copying.op # "restore"
    BY <1>2, <1>5, <2>2, CopyingExports
  <2> QED
    BY <2>1, <2>2
<1>6. CASE p = proof.stage /\ Unpack
  <2>1. proof.stage \in Projects
    BY <1>6 DEF Unpack, FlowOK
  <2>2. CASE \E v \in Unpacked : stored' = [stored EXCEPT ![proof.stage] = v]
    <3>1. PICK v \in Unpacked : stored'[p] = v
      BY <1>1, <1>6, <2>2 DEF StoredShape
    <3>2. Honest(Empty.marks)
      BY Empties DEF Honest
    <3>3. Archive(proof.stage) # "none" => Honest(archives[Archive(proof.stage)].marks)
      BY <2>1, ArchiveThere DEF MarksOK, Honest
    <3> QED
      BY <1>1, <1>6, <2>1, <3>1, <3>2, <3>3, UnpackedIs DEF Honest
  <2> QED
    BY <1>2, <1>6, <2>2 DEF Unpack, Project
<1>7. CASE p = proof.stage /\ CreatesFixture
  <2>1. CASE stored' = [stored EXCEPT !["source"].objects = Fixture,
                                      !["source"].marks = @ \cup Marks(proof.run)]
    <3>1. stored'["source"].marks = stored["source"].marks \cup Marks(proof.run)
          /\ p = "source" /\ stored["source"] # NoVolume
      BY <1>7, <2>1, FixtureCreated DEF CreatesFixture, At, VolumesOK
    <3>2. Honest(Marks(proof.run))
      BY <1>1, StageInStages, MarksAre DEF Honest
    <3> QED
      BY <1>1, <3>1, <3>2 DEF Honest
  <2> QED
    BY <1>2, <1>7, <2>1 DEF CreatesFixture
<1>8. CASE p = proof.stage /\ (Prepare \/ StopProject)
  <2>1. UNCHANGED stored \/ stored' = [stored EXCEPT ![proof.stage] = NoVolume]
    BY <1>8 DEF Prepare, StopProject, Down, Project
  <2> QED
    BY <1>1, <1>2, <1>8, <2>1 DEF StoredShape
<1>9. CASE UNCHANGED stored
  BY <1>2, <1>9
<1> QED
  BY <1>3, <1>4, <1>5, <1>6, <1>7, <1>8, <1>9
     DEF Next, MainWorks, Begin, ExportMain, MainExported, ClonesVolume, TarsClone, StartProject, UseFails,
         RestoreBegins, Restores, RestoreThrows, ReexportBegins, RestoresAgain, RoundTripJudged,
         LooksForMarkers, Smokes, FinalLooked, TarsSource, Governs, Judges, Killed

LEMMA SourceArchived ==
  ASSUME Shape, FlowOK, VolumesOK, TarsSource
  PROVE  /\ archives'["source"].objects = stored["source"].objects
         /\ archives'["source"].marks \subseteq stored["source"].marks
         /\ stored["source"] # NoVolume
<1> DEFINE v == stored["source"]
<1>1. v # NoVolume /\ Data(v) /\ DOMAIN archives = {"main", "source"}
  BY PlaceIs DEF TarsSource, At, VolumesOK, Shape, Projects
<1>2. v = [objects |-> v.objects, marks |-> v.marks]
  BY <1>1, VolumeFields
<1>3. CASE archives' = [archives EXCEPT !.source = v]
  BY <1>1, <1>3
<1>4. CASE \E s \in Streams : archives' = [archives EXCEPT !.source =
             [v EXCEPT !.marks = {m \in @ : ~(m.stream = s /\ m.of = proof.run)}]]
  <2>1. PICK s \in Streams : archives' = [archives EXCEPT !.source =
             [v EXCEPT !.marks = {m \in @ : ~(m.stream = s /\ m.of = proof.run)}]]
    BY <1>4
  <2> DEFINE ms == {m \in v.marks : ~(m.stream = s /\ m.of = proof.run)}
  <2>2. ms \subseteq v.marks
    OBVIOUS
  <2>3. archives' = [archives EXCEPT !.source = [v EXCEPT !.marks = ms]]
    BY <2>1
  <2> HIDE DEF ms, v
  <2>4. [v EXCEPT !.marks = ms] = [objects |-> v.objects, marks |-> ms]
    BY <1>2
  <2> QED
    BY <1>1, <2>2, <2>3, <2>4 DEF v
<1> QED
  BY <1>3, <1>4 DEF TarsSource

LEMMA MarksStep ==
  ASSUME Shape, FlowOK, VolumesOK, CopyingOK, StreamsOK, MarksOK, Next
  PROVE  MarksOK'
<1>1. /\ proof \in Proofs /\ "restoreTarget" \in ToSet(Stages)
      /\ results \in [ToSet(Stages) -> Findings]
  BY StageSet DEF Shape
<1>2. \A p \in Places : stored'[p] # NoVolume => Honest(stored'[p].marks)
  BY MarksStored
<1>3. \A a \in {"main", "source"} : archives'[a] # NoVolume => Honest(archives'[a].marks)
  <2>1. \A a \in {"main", "source"} : archives[a] # NoVolume => Honest(archives[a].marks)
    BY DEF MarksOK, Honest
  <2>2. CASE Begin
    BY <2>2 DEF Begin
  <2>3. CASE ~Begin /\ TarsClone
    <3>1. archives'["source"] = archives["source"]
      BY <2>3, ArchivesKept DEF TarsSource, TarsClone, At
    <3>2. archives'["main"] \in {archives["main"], stored["main"]}
      BY <2>3 DEF TarsClone, Shape
    <3>3. Honest(stored["main"].marks)
      BY PlaceIs DEF MarksOK, Honest, VolumesOK
    <3> QED
      BY <2>1, <3>1, <3>2, <3>3
  <2>4. CASE ~Begin /\ TarsSource
    <3>1. archives'["main"] = archives["main"]
      BY <2>4, ArchivesKept DEF TarsSource, TarsClone, At
    <3>2. Honest(stored["source"].marks)
      BY <2>4, SourceArchived, PlaceIs DEF MarksOK, Honest, Projects
    <3>3. Honest(archives'["source"].marks)
      BY <2>4, <3>2, SourceArchived DEF Honest
    <3> QED
      BY <2>1, <3>1, <3>3
  <2>5. CASE ~Begin /\ ~TarsClone /\ ~TarsSource
    BY <2>1, <2>5, ArchivesKept
  <2> QED
    BY <2>2, <2>3, <2>4, <2>5
<1>4. /\ \A p \in ToSet(Stages), s \in Streams :
            results'[p].old => \E m \in results'[p].marks : m.stream = s /\ m.of = proof'.run
      /\ proof'.step = "smoke" => results'[proof'.stage].marks = stored'[proof'.stage].marks
      /\ ~results'["restoreTarget"].old
  <2>1. CASE Begin
    <3>1. \A p \in ToSet(Stages) : results'[p] = NoResult
      BY <2>1 DEF Begin
    <3> QED
      BY <1>1, <2>1, <3>1, BeginsWith DEF NoResult
  <2>2. CASE ~Begin /\ ~LooksForMarkers /\ ~Smokes /\ ~FinalLooked
    <3>1. UNCHANGED results /\ proof'.run = proof.run
      BY <2>2, ResultsKept, StageMoves DEF GoesOn, EndsOrThrows, Stays
    <3>2. proof'.step # "smoke" \/ (UNCHANGED proof /\ (Copies \/ MainWorks))
      BY <2>2, StageMoves DEF GoesOn, EndsOrThrows, FirstStep
    <3>3. ~(Copies /\ proof.step = "smoke")
      BY DEF Copies
    <3>4. ~(MainWorks /\ proof.step = "smoke")
      BY DEF MainWorks, CompanyWorks, Provisions, At, FlowOK, Chain
    <3> QED
      BY <3>1, <3>2, <3>3, <3>4 DEF MarksOK
  <2>3. CASE ~Begin /\ (LooksForMarkers \/ Smokes \/ FinalLooked)
    <3>1. proof.stage \in Projects /\ stored[proof.stage] # NoVolume /\ UNCHANGED stored
          /\ proof.stage \in Places
      BY <2>3, PlaceIs DEF LooksForMarkers, Smokes, FinalLooked, FlowOK, VolumesOK, At, Projects
    <3>2. proof'.run = proof.run /\ proof'.stage = proof.stage
      <4>1. ~GoesOn
        BY <2>3 DEF GoesOn, LooksForMarkers, Smokes, FinalLooked, MainExported, TarsClone, Governs,
                    StopProject, At
      <4> QED
        BY <2>3, <4>1, StageMoves DEF EndsOrThrows, Stays
    <3>3. Visible(proof.stage) => \A s \in Streams :
            \E m \in stored[proof.stage].marks : m.stream = s /\ m.of = proof.run
      BY <3>1 DEF Visible, MarksOK, SourceMarker
    <3>4. \E old, smoke \in BOOLEAN :
            /\ Found(old, smoke)
            /\ \/ old = FALSE
               \/ (old = Visible(proof.stage) /\ proof.stage # "restoreTarget")
               \/ (old = results[proof.stage].old /\ proof.step = "smoke")
      <4>1. CASE LooksForMarkers
        <5>1. proof.stage # "restoreTarget"
          BY <4>1 DEF LooksForMarkers, Chain
        <5>2. Found(Visible(proof.stage), FALSE) \/ Found(FALSE, FALSE)
          BY <4>1 DEF LooksForMarkers, Project
        <5> QED
          BY <3>1, <5>1, <5>2, OldIs
      <4>2. CASE Smokes
        <5>1. At("restoreTarget", "use") => results[proof.stage].old = FALSE
          BY <1>1 DEF At, MarksOK, Findings
        <5>2. Found(results[proof.stage].old, TRUE) \/ Found(results[proof.stage].old, FALSE)
          BY <4>2 DEF Smokes, Project
        <5>3. At("restoreTarget", "use") \/ proof.step = "smoke"
          BY <4>2 DEF Smokes
        <5> QED
          BY <3>1, <5>1, <5>2, <5>3, OldIs
      <4>3. CASE FinalLooked
        <5>1. Found(Visible(proof.stage), TRUE) /\ proof.stage # "restoreTarget"
          BY <4>3 DEF FinalLooked, Project, At
        <5> QED
          BY <3>1, <5>1, OldIs
      <4> QED
        BY <2>3, <4>1, <4>2, <4>3
    <3>5. PICK old, smoke \in BOOLEAN :
            /\ Found(old, smoke)
            /\ \/ old = FALSE
               \/ (old = Visible(proof.stage) /\ proof.stage # "restoreTarget")
               \/ (old = results[proof.stage].old /\ proof.step = "smoke")
      BY <3>4
    <3>6. /\ results'[proof.stage].old = old
          /\ results'[proof.stage].marks = stored[proof.stage].marks
          /\ \A s \in ToSet(Stages) : s # proof.stage => results'[s] = results[s]
      BY <3>1, <3>5, FoundIs
    <3>7. old => \A s \in Streams : \E m \in stored[proof.stage].marks : m.stream = s /\ m.of = proof.run
      <4>1. CASE old = Visible(proof.stage)
        BY <3>3, <4>1
      <4>2. CASE old = results[proof.stage].old /\ proof.step = "smoke"
        <5>1. results[proof.stage].marks = stored[proof.stage].marks
          BY <4>2 DEF MarksOK
        <5>2. proof.stage \in ToSet(Stages)
          BY <3>1, PlaceIs
        <5>3. SUFFICES ASSUME results[proof.stage].old, NEW s \in Streams
                       PROVE  \E m \in stored[proof.stage].marks : m.stream = s /\ m.of = proof.run
          BY <4>2, Zenon
        <5>4. \E m \in results[proof.stage].marks : m.stream = s /\ m.of = proof.run
          BY <5>2, <5>3 DEF MarksOK
        <5> QED
          BY <5>1, <5>4
      <4>3. CASE old = FALSE
        BY <4>3, Zenon
      <4> QED
        BY <3>5, <4>1, <4>2, <4>3
    <3>8. proof.stage = "restoreTarget" => old = FALSE
      BY <1>1, <3>5 DEF MarksOK, FlowOK, Chain
    <3>9. ~results'["restoreTarget"].old
      <4>1. CASE proof.stage = "restoreTarget"
        BY <3>6, <3>8, <4>1, Zenon
      <4>2. CASE proof.stage # "restoreTarget"
        BY <1>1, <3>6, <4>2 DEF MarksOK
      <4> QED
        BY <4>1, <4>2
    <3>10. ASSUME NEW p \in ToSet(Stages), NEW s \in Streams, results'[p].old
           PROVE  \E m \in results'[p].marks : m.stream = s /\ m.of = proof'.run
      <4>1. CASE p = proof.stage
        <5>1. old
          BY <3>6, <3>10, <4>1, Zenon
        <5>2. PICK m \in stored[proof.stage].marks : m.stream = s /\ m.of = proof.run
          BY <3>7, <5>1
        <5> QED
          BY <3>2, <3>6, <4>1, <5>2
      <4>2. CASE p # proof.stage
        BY <3>2, <3>6, <3>10, <4>2 DEF MarksOK
      <4> QED
        BY <4>1, <4>2
    <3> QED
      BY <3>1, <3>2, <3>6, <3>9, <3>10
  <2> QED
    BY <2>1, <2>2, <2>3
<1> QED
  BY <1>2, <1>3, <1>4 DEF MarksOK, Honest

(***************************************************************************)
(* A stream is there once.                                                 *)
(***************************************************************************)
LEMMA OneOfEmpty == OneStreamPerName({}) /\ Closed({})
BY DEF OneStreamPerName, Closed

LEMMA StreamsStep ==
  ASSUME Shape, FlowOK, VolumesOK, CopyingOK, StreamsOK, Next
  PROVE  StreamsOK'
<1>1. proof \in Proofs /\ proof.stage # "main" /\ StoredShape
  BY StageIsNoMain DEF Shape, StoredShape
<1>2. ASSUME NEW p \in Projects \ {"restoreTarget"}, stored'[p] # NoVolume
      PROVE  OneStreamPerName(stored'[p].objects)
  <2>1. p \in Places /\ p # "main" /\ (stored[p] # NoVolume => OneStreamPerName(stored[p].objects))
    BY PlaceIs DEF StreamsOK, Objects, Projects, Chain
  <2>2. CASE stored'[p] = stored[p]
    BY <1>2, <2>1, <2>2
  <2>3. CASE MainWorks
    BY <2>1, <2>2, <2>3, MainChanges
  <2>4. CASE ~MainWorks /\ p # proof.stage
    BY <2>1, <2>2, <2>4, Elsewhere
  <2>5. CASE p = proof.stage /\ Copies
    <3>1. CASE copying.op = "restore"
      <4>1. RestoreReady /\ copying.place = proof.stage /\ \E o \in copying.left : Handles(o)
        BY <2>5, <3>1, CopyingRestores
      <4> QED
        BY <2>5, <4>1, HandlesStored, EffectKeeps
    <3>2. CASE copying.op # "restore"
      BY <2>2, <2>5, <3>2, CopyingExports
    <3> QED
      BY <3>1, <3>2
  <2>6. CASE p = proof.stage /\ Unpack
    <3>1. CASE \E v \in Unpacked : stored' = [stored EXCEPT ![proof.stage] = v]
      <4>1. PICK v \in Unpacked : stored'[p] = v
        BY <1>1, <2>1, <2>6, <3>1 DEF StoredShape
      <4>2. Archive(proof.stage) # "none" =>
              Archive(proof.stage) = "source" /\ archives["source"] # NoVolume
        BY <1>2, <2>6, ArchiveThere DEF Archive
      <4>3. /\ v # NoVolume
            /\ \/ v = Empty
               \/ v = stored[proof.stage]
               \/ v.objects = archives["source"].objects /\ archives["source"] # NoVolume
        BY <1>2, <2>6, <4>1, <4>2, UnpackedIs
      <4>4. OneStreamPerName(Empty.objects)
        BY Empties, OneOfEmpty
      <4> QED
        BY <2>1, <2>6, <4>1, <4>3, <4>4 DEF StreamsOK
    <3> QED
      BY <2>2, <2>6, <3>1 DEF Unpack, Project
  <2>7. CASE p = proof.stage /\ CreatesFixture
    <3>1. CASE stored' = [stored EXCEPT !["source"].objects = Fixture,
                                        !["source"].marks = @ \cup Marks(proof.run)]
      BY <2>7, <3>1, FixtureCreated, RecoveryAssumption DEF CreatesFixture, At
    <3> QED
      BY <2>2, <2>7, <3>1 DEF CreatesFixture
  <2>8. CASE p = proof.stage /\ (Prepare \/ StopProject)
    <3>1. UNCHANGED stored \/ stored' = [stored EXCEPT ![proof.stage] = NoVolume]
      BY <2>8 DEF Prepare, StopProject, Down, Project
    <3> QED
      BY <1>1, <1>2, <2>1, <2>2, <2>8, <3>1 DEF StoredShape
  <2>9. CASE UNCHANGED stored
    BY <2>2, <2>9
  <2> QED
    BY <2>3, <2>4, <2>5, <2>6, <2>7, <2>8, <2>9
     DEF Next, MainWorks, Begin, ExportMain, MainExported, ClonesVolume, TarsClone, StartProject, UseFails,
         RestoreBegins, Restores, RestoreThrows, ReexportBegins, RestoresAgain, RoundTripJudged,
         LooksForMarkers, Smokes, FinalLooked, TarsSource, Governs, Judges, Killed
<1>3. archives'["source"] # NoVolume => OneStreamPerName(archives'["source"].objects)
  <2>1. CASE Begin
    BY <2>1 DEF Begin
  <2>2. CASE TarsSource
    BY <2>2, SourceArchived DEF StreamsOK, Objects, Projects
  <2>3. CASE ~Begin /\ ~TarsSource
    BY <2>3, ArchivesKept DEF StreamsOK
  <2> QED
    BY <2>1, <2>2, <2>3
<1> QED
  BY <1>2, <1>3 DEF StreamsOK, Objects

(***************************************************************************)
(* What was exported from the main lab and from the round trip.            *)
(***************************************************************************)
LEMMA LogicalKept ==
  ASSUME Shape, Next, ~Begin
  PROVE  /\ ~MainExported => logical'.main = logical.main
         /\ ~RestoresAgain => logical'.again = logical.again
         /\ MainExported => logical'.main \in {logical.main, copying.read}
         /\ RestoresAgain => logical'.again = copying.read
BY DEF Shape, Next, ExportMain, Copies, MainExported, ClonesVolume, TarsClone, Prepare, Unpack, StartProject,
       StopProject, UseFails, RestoreBegins, Restores, RestoreThrows, ReexportBegins, RestoresAgain,
       RoundTripJudged, LooksForMarkers, Smokes, FinalLooked, CreatesFixture, TarsSource, Governs,
       Judges, Killed, MainWorks, CompanyWorks, Provisions

LEMMA ExportStep ==
  ASSUME Shape, FlowOK, ExportOK, Next
  PROVE  ExportOK'
<1>1. proof \in Proofs /\ Position("export") = 1 /\ Position(proof.stage) \in Nat
  BY StageIsNoMain DEF Shape
<1>2. CASE Begin
  BY <1>1, <1>2, BeginsWith DEF ExportOK, Later
<1>3. CASE MainExported
  <2>1. CASE Ends("thrown")
    BY <1>1, <1>3, <2>1, EndsWith DEF ExportOK, Later, MainExported, At
  <2>2. CASE Exported /\ logical' = [logical EXCEPT !.main = copying.read]
    BY <1>3, <2>2 DEF ExportOK, Exported, Shape
  <2> QED
    BY <1>3, <2>1, <2>2 DEF MainExported
<1>4. CASE ~Begin /\ ~MainExported
  <2>1. logical'.main = logical.main
    BY <1>4, LogicalKept
  <2>2. (Later("export"))' => Later("export")
    <3>1. CASE GoesOn
      BY <1>1, <1>4, <3>1, Positions
         DEF GoesOn, Later, TarsClone, Governs, StopProject, At, FlowOK, Projects, Chain
    <3>2. CASE ~GoesOn
      BY <1>4, <3>2, StageMoves DEF EndsOrThrows, Stays, Later
    <3> QED
      BY <3>1, <3>2
  <2> QED
    BY <2>1, <2>2 DEF ExportOK
<1> QED
  BY <1>2, <1>3, <1>4

(***************************************************************************)
(* An alert in the round trip has what it needs, and where the hashes      *)
(* agree the stage is passed.                                              *)
(***************************************************************************)
Passed == Later("roundTrip") \/ (At("roundTrip", "stop") /\ proof.decision = "ACCEPTED")

LEMMA RoundTripClosed ==
  ASSUME Shape, FlowOK, VolumesOK, CopyingOK, StreamsOK, RoundTripOK, Next,
         stored'["roundTrip"] # NoVolume
  PROVE  Closed(stored'["roundTrip"].objects)
<1>1. /\ "roundTrip" \in Places /\ StoredShape
      /\ stored["roundTrip"] # NoVolume => Closed(stored["roundTrip"].objects)
  BY PlaceIs DEF Shape, StoredShape, RoundTripOK, Objects, Projects
<1>2. CASE stored'["roundTrip"] = stored["roundTrip"]
  BY <1>1, <1>2
<1>3. CASE MainWorks
  BY <1>1, <1>2, <1>3, MainChanges
<1>4. CASE ~MainWorks /\ proof.stage # "roundTrip"
  BY <1>1, <1>2, <1>4, Elsewhere
<1>5. CASE proof.stage = "roundTrip" /\ Copies
  <2>1. CASE copying.op = "restore"
    <3>1. RestoreReady /\ copying.place = proof.stage /\ \E o \in copying.left : Handles(o)
      BY <1>5, <2>1, CopyingRestores
    <3>2. Closed(There)
      BY <1>1, <1>5, <3>1 DEF There, Objects, RestoreReady
    <3> QED
      BY <1>5, <3>1, <3>2, HandlesStored, EffectKeeps
  <2>2. CASE copying.op # "restore"
    BY <1>2, <1>5, <2>2, CopyingExports
  <2> QED
    BY <2>1, <2>2
<1>6. CASE proof.stage = "roundTrip" /\ Unpack
  <2>1. CASE \E v \in Unpacked : stored' = [stored EXCEPT ![proof.stage] = v]
    <3>1. PICK v \in Unpacked : stored'["roundTrip"] = v
      BY <1>1, <1>6, <2>1 DEF StoredShape
    <3>2. v = Empty \/ v = stored["roundTrip"]
      BY <1>6, UnpackedIs DEF Archive, Projects, Chain
    <3>3. Empty.objects = {}
      BY Empties
    <3> QED
      BY <1>1, <3>1, <3>2, <3>3, OneOfEmpty
  <2> QED
    BY <1>2, <1>6, <2>1 DEF Unpack, Project
<1>7. CASE proof.stage = "roundTrip" /\ (Prepare \/ StopProject)
  <2>1. UNCHANGED stored \/ stored' = [stored EXCEPT ![proof.stage] = NoVolume]
    BY <1>7 DEF Prepare, StopProject, Down, Project
  <2> QED
    BY <1>1, <1>2, <1>7, <2>1 DEF StoredShape
<1>8. CASE UNCHANGED stored
  BY <1>2, <1>8
<1> QED
  BY <1>3, <1>4, <1>5, <1>6, <1>7, <1>8
   DEF Next, MainWorks, Begin, ExportMain, MainExported, ClonesVolume, TarsClone, StartProject, UseFails,
       RestoreBegins, Restores, RestoreThrows, ReexportBegins, RestoresAgain, RoundTripJudged,
       LooksForMarkers, Smokes, FinalLooked, CreatesFixture, At, TarsSource, Governs, Judges, Killed

LEMMA RoundTripStep ==
  ASSUME Shape, FlowOK, VolumesOK, CopyingOK, StreamsOK, RoundTripOK, Next
  PROVE  RoundTripOK'
<1>1. stored'["roundTrip"] # NoVolume => Closed(stored'["roundTrip"].objects)
  BY RoundTripClosed
<1>2. proof'.step = "again" => Closed(logical'.again)
  <2>1. SUFFICES ASSUME proof'.step = "again" PROVE Closed(logical'.again)
    OBVIOUS
  <2>2. ~Begin /\ ~GoesOn /\ ~EndsOrThrows
    BY <2>1, BeginsWith DEF GoesOn, FirstStep, EndsOrThrows
  <2>3. CASE RestoresAgain
    <3>1. logical'.again = copying.read
      BY <2>2, <2>3, LogicalKept
    <3>2. /\ copying.op = "export" /\ copying.left = {} /\ proof.stage = "roundTrip"
          /\ proof.step = "reexporting"
      BY <2>3 DEF RestoresAgain, Exported, At
    <3>3. stored["roundTrip"] # NoVolume /\ Closed(Objects("roundTrip"))
      BY <3>2 DEF VolumesOK, RoundTripOK
    <3>4. Objects("roundTrip") \subseteq Proper
      BY <3>3, PlaceIs, VolumeFields DEF Shape, Objects, Projects
    <3>5. /\ copying.read \subseteq Objects("roundTrip")
          /\ \A o \in Objects("roundTrip") : o.group # "dashboards" => o \in copying.read
      BY <3>2 DEF CopyingOK
    <3>6. ASSUME NEW o \in copying.read, o.group = "alerts", NEW ref \in o.needs
          PROVE  \E p \in copying.read : <<p.group, p.name>> = ref
      <4>1. o \in Proper /\ o \in Objects("roundTrip")
        BY <3>4, <3>5
      <4>2. PICK p \in Objects("roundTrip") : <<p.group, p.name>> = ref
        BY <3>3, <3>6, <4>1 DEF Closed
      <4>3. ref \in {"streams", "destinations"} \X STRING
        BY <3>6, <4>1 DEF Proper
      <4>4. p.group # "dashboards"
        BY <4>2, <4>3
      <4> QED
        BY <3>5, <4>2, <4>4
    <3> QED
      BY <3>1, <3>6 DEF Closed
  <2>4. CASE UNCHANGED proof /\ (Copies \/ MainWorks)
    BY <2>1, <2>4 DEF Copies, MainWorks, CompanyWorks, Provisions, RoundTripOK
  <2> QED
    BY <2>1, <2>2, <2>3, <2>4, StageMoves
<1>3. Passed' => SameHashes(logical'.main, logical'.again) /\ Closed(logical'.again)
  <2>1. /\ Position("roundTrip") = 3 /\ Position(proof.stage) \in Nat /\ Position("export") = 1
    BY StageIsNoMain DEF Shape
  <2>2. Passed => SameHashes(logical.main, logical.again) /\ Closed(logical.again)
    BY DEF RoundTripOK, Passed
  <2>3. CASE Begin
    BY <2>1, <2>3, BeginsWith DEF Passed, Later, At
  <2>4. CASE ~Begin /\ RoundTripJudged
    <3>1. /\ proof'.decision = IF SameHashes(logical.main, logical.again)
                                 THEN proof.decision ELSE "BLOCKED"
          /\ proof'.stage = proof.stage /\ UNCHANGED logical /\ Closed(logical.again)
          /\ proof.stage = "roundTrip"
      BY <2>4, JudgedTo DEF Shape, RoundTripJudged, At, RoundTripOK
    <3>2. Passed' => SameHashes(logical.main, logical.again)
      BY <2>1, <3>1 DEF Passed, Later, At
    <3> QED
      BY <3>1, <3>2
  <2>5. CASE ~Begin /\ GoesOn
    <3>1. CASE MainExported \/ TarsClone
      BY <2>1, <2>5, <3>1, Positions DEF GoesOn, MainExported, TarsClone, At, Passed, Later, FirstStep
    <3>2. CASE Governs \/ StopProject
      <4>1. Passed
        BY <2>1, <2>5, <3>2, Positions
           DEF GoesOn, Governs, StopProject, At, FlowOK, Projects, Chain, Passed, Later
      <4>2. UNCHANGED logical
        BY <3>2 DEF Governs, StopProject
      <4> QED
        BY <2>2, <4>1, <4>2
    <3> QED
      BY <2>5, <3>1, <3>2 DEF GoesOn
  <2>6. CASE ~Begin /\ ~GoesOn /\ ~RoundTripJudged
    <3>1. CASE MainExported
      BY <2>1, <2>6, <3>1, StageMoves, Positions
         DEF MainExported, At, EndsOrThrows, Stays, Passed, Later, TarsClone
    <3>2. CASE RestoresAgain
      <4>1. ~Passed'
        BY <2>1, <2>6, <3>2, GoesTo DEF RestoresAgain, At, Passed, Later, Shape, Steps
      <4> QED
        BY <4>1
    <3>3. CASE ~MainExported /\ ~RestoresAgain
      <4>1. logical'.main = logical.main /\ logical'.again = logical.again
        BY <2>6, <3>3, LogicalKept
      <4>2. Passed' => Passed
        <5>1. CASE EndsOrThrows
          BY <2>1, <5>1 DEF EndsOrThrows, Stays, Passed, Later, At, Judges
        <5>2. CASE ~EndsOrThrows
          <6>1. proof'.stage = proof.stage
            BY <2>6, <5>2, StageMoves DEF Stays
          <6>2. proof'.stage = "roundTrip" /\ proof'.step = "stop" => UNCHANGED proof
            BY <2>6, <5>2, <6>1, StageMoves
               DEF Smokes, FinalLooked, TarsSource, At, FlowOK, Chain
          <6> QED
            BY <6>1, <6>2 DEF Passed, Later, At
        <5> QED
          BY <5>1, <5>2
      <4> QED
        BY <2>2, <4>1, <4>2
    <3> QED
      BY <3>1, <3>2, <3>3
  <2> QED
    BY <2>3, <2>4, <2>5, <2>6
<1> QED
  BY <1>1, <1>2, <1>3 DEF RoundTripOK, Objects, Passed, At, Later

(***************************************************************************)
(* Undisturbed, every stage removes its project.                           *)
(***************************************************************************)
LEMMA SamePosition ==
  ASSUME NEW p \in ToSet(Stages), NEW q \in ToSet(Stages), Position(p) = Position(q)
  PROVE  p = q
<1> DEFINE Pos(s) == Position(s)
<1>1. p \in {"export", "clone", "roundTrip", "restoreTarget", "source", "sourceRestore",
             "upgrade", "rollback", "reUpgrade", "targetLogicalRestore", "governance", "judgement"}
      /\ q \in {"export", "clone", "roundTrip", "restoreTarget", "source", "sourceRestore",
             "upgrade", "rollback", "reUpgrade", "targetLogicalRestore", "governance", "judgement"}
  BY StageSet
<1> QED
  BY <1>1, Positions

LEMMA ProjectPositions ==
  \A p \in Projects : Position(p) \in 3..10
BY Positions DEF Projects, Chain

LEMMA CleanStep ==
  ASSUME Shape, FlowOK, VolumesOK, CopyingOK, StreamsOK, CleanOK, Next
  PROVE  CleanOK'
<1> SUFFICES ASSUME Undisturbed', proof'.decision = "ACCEPTED"
             PROVE  /\ (Later("clone"))' => ~clone'
                    /\ \A p \in Projects : (Later(p))' => p \notin up' /\ stored'[p] = NoVolume
  BY DEF CleanOK
<1>1. proof \in Proofs /\ proof.stage # "main" /\ Position(proof.stage) \in Nat
      /\ Position("clone") = 2 /\ StoredShape /\ proof.stage \in ToSet(Stages)
  BY StageIsNoMain, StageInStages DEF Shape, StoredShape
<1>2. CASE Begin
  <2>1. Position(proof'.stage) = 1
    BY <1>2, BeginsWith, Positions
  <2> QED
    BY <1>1, <2>1, ProjectPositions DEF Later
<1>3. CASE ~Begin
  <2>1. Undisturbed /\ faults' = faults /\ ~Fault
    BY <1>3, StillUndisturbed
  <2>2. proof.decision = "ACCEPTED"
    <3>1. CASE EndsOrThrows
      BY <3>1 DEF EndsOrThrows, Judges, At, FlowOK
    <3> QED
      BY <1>3, <3>1, StageMoves DEF GoesOn, RoundTripJudged, At, FlowOK
  <2>3. /\ Later("clone") => ~clone
        /\ \A p \in Projects : Later(p) => p \notin up /\ stored[p] = NoVolume
    BY <2>1, <2>2 DEF CleanOK
  <2>4. CASE GoesOn /\ MainExported
    <3>1. Position(proof'.stage) = 2
      BY <2>4, Positions DEF GoesOn, MainExported, At
    <3> QED
      BY <1>1, <3>1, ProjectPositions DEF Later
  <2>5. CASE GoesOn /\ TarsClone
    <3>1. Position(proof'.stage) = 3
      BY <2>5, Positions DEF GoesOn, TarsClone, At
    <3>2. ~clone'
      BY <2>1, <2>5 DEF TarsClone
    <3> QED
      BY <3>1, <3>2, ProjectPositions DEF Later
  <2>6. CASE GoesOn /\ Governs
    <3>1. Position(proof.stage) = 11 /\ Position(proof'.stage) = 12
          /\ UNCHANGED <<stored, up, clone>>
      BY <2>6, Positions DEF GoesOn, Governs, At
    <3>2. \A p \in Projects : Later(p)
      BY <3>1, ProjectPositions DEF Later
    <3> QED
      BY <1>1, <2>3, <3>1, <3>2 DEF Later
  <2>7. CASE GoesOn /\ StopProject
    <3>1. /\ up' = up \ {proof.stage} /\ stored' = [stored EXCEPT ![proof.stage] = NoVolume]
          /\ UNCHANGED clone /\ proof.stage \in Projects
      BY <2>1, <2>7 DEF StopProject, Down, Project, FlowOK
    <3>2. Position(proof'.stage) = Position(proof.stage) + 1 /\ Position(proof.stage) \in 3..10
      BY <2>7, <3>1, ProjectPositions DEF GoesOn
    <3>3. ASSUME NEW p \in Projects, (Later(p))'
          PROVE  p \notin up' /\ stored'[p] = NoVolume
      <4>1. Position(p) <= Position(proof.stage) /\ Position(p) \in 3..10
        BY <3>2, <3>3, ProjectPositions DEF Later
      <4>2. CASE Position(p) = Position(proof.stage)
        <5>1. p = proof.stage
          BY <1>1, <4>2, SamePosition, PlaceIs
        <5> QED
          BY <1>1, <3>1, <5>1, PlaceIs DEF StoredShape
      <4>3. CASE Position(p) # Position(proof.stage)
        <5>1. Later(p)
          BY <3>2, <4>1, <4>3 DEF Later
        <5>2. p \notin up /\ stored[p] = NoVolume /\ p \in Places
          BY <2>3, <5>1, PlaceIs
        <5> QED
          BY <1>1, <3>1, <5>2 DEF StoredShape
      <4> QED
        BY <4>2, <4>3
    <3> QED
      BY <1>1, <2>3, <3>1, <3>2, <3>3 DEF Later
  <2>8. CASE ~GoesOn
    <3>1. proof'.stage = proof.stage
      BY <1>3, <2>8, StageMoves DEF EndsOrThrows, Stays
    <3>2. \A p \in Projects : Later(p) => p # proof.stage /\ p \in Places /\ p # "main"
      BY <1>1, PlaceIs DEF Later, Projects, Chain
    <3>3. \A p \in Projects : Later(p) => stored'[p] = stored[p]
      <4>1. CASE MainWorks
        BY <3>2, <4>1, MainChanges
      <4>2. CASE ~MainWorks
        BY <3>2, <4>2, Elsewhere
      <4> QED
        BY <4>1, <4>2
    <3>4. up' \subseteq up \cup {proof.stage}
      BY <1>3 DEF Next, ExportMain, Copies, MainExported, ClonesVolume, TarsClone, Prepare, Unpack,
           StartProject, StopProject, Down, UseFails, RestoreBegins, Restores, RestoreThrows,
           ReexportBegins, RestoresAgain, RoundTripJudged, LooksForMarkers, Smokes, FinalLooked,
           CreatesFixture, TarsSource, Governs, Judges, Killed, MainWorks, CompanyWorks, Provisions, Project
    <3>5. UNCHANGED clone \/ proof.stage = "clone"
      BY <1>3 DEF Next, ExportMain, Copies, MainExported, ClonesVolume, TarsClone, Prepare, Unpack,
           StartProject, StopProject, UseFails, RestoreBegins, Restores, RestoreThrows,
           ReexportBegins, RestoresAgain, RoundTripJudged, LooksForMarkers, Smokes, FinalLooked,
           CreatesFixture, TarsSource, Governs, Judges, Killed, MainWorks, CompanyWorks, Provisions, At
    <3>6. (Later("clone"))' => ~clone'
      BY <1>1, <2>3, <3>1, <3>5 DEF Later
    <3>7. \A p \in Projects : (Later(p))' => p \notin up' /\ stored'[p] = NoVolume
      BY <2>3, <3>1, <3>2, <3>3, <3>4 DEF Later
    <3> QED
      BY <3>6, <3>7
  <2> QED
    BY <2>4, <2>5, <2>6, <2>7, <2>8 DEF GoesOn
<1> QED
  BY <1>2, <1>3

(***************************************************************************)
(* Where each object is there once, equal contents are equal hashes.       *)
(***************************************************************************)
LEMMA SameContent ==
  ASSUME NEW o \in Proper, NEW p \in Proper
  PROVE  Content(o) = Content(p) <=> /\ o.group = p.group /\ o.name = p.name /\ o.folder = p.folder
                                     /\ o.body = p.body /\ o.needs = p.needs
<1>1. ASSUME NEW q \in Proper
      PROVE  Content(q) = [group |-> q.group, name |-> q.name, folder |-> q.folder, body |-> q.body,
                           needs |-> q.needs, id |-> 0]
  <2>1. q = [group |-> q.group, name |-> q.name, folder |-> q.folder, body |-> q.body,
             needs |-> q.needs, id |-> q.id]
    BY ObjectFields
  <2> QED
    BY <2>1 DEF Content
<1> HIDE DEF Content
<1>2. /\ Content(o) = [group |-> o.group, name |-> o.name, folder |-> o.folder, body |-> o.body,
                       needs |-> o.needs, id |-> 0]
      /\ Content(p) = [group |-> p.group, name |-> p.name, folder |-> p.folder, body |-> p.body,
                       needs |-> p.needs, id |-> 0]
  BY <1>1
<1> QED
  BY <1>2

LEMMA OnceEach ==
  ASSUME NEW A, A \subseteq Proper, OncePerName(A), NEW a \in A, NEW g, g = a.group,
         NEW c, c = Content(a)
  PROVE  {o \in {o \in A : o.group = g} : Content(o) = c} = {a}
<1>1. \A o \in A : Content(o) = Content(a) => o = a
  BY SameContent DEF OncePerName
<1> QED
  BY <1>1

LEMMA EqualHashes ==
  ASSUME NEW A, A \subseteq Proper, OncePerName(A), NEW B, B \subseteq Proper, OncePerName(B),
         SameContents(A, B)
  PROVE  SameHashes(A, B)
<1> SUFFICES ASSUME NEW g \in ToSet(Groups) PROVE GroupHash(A, g) = GroupHash(B, g)
  BY DEF SameHashes
<1> DEFINE OfA == {o \in A : o.group = g}
           OfB == {o \in B : o.group = g}
           CA == {Content(o) : o \in OfA}
           CB == {Content(o) : o \in OfB}
<1>1. ASSUME NEW a \in A PROVE \E b \in B : Content(b) = Content(a) /\ b.group = a.group
  <2>1. PICK b \in B : Content(b) = Content(a)
    BY DEF SameContents
  <2> QED
    BY <2>1, SameContent
<1>2. ASSUME NEW b \in B PROVE \E a \in A : Content(a) = Content(b) /\ a.group = b.group
  <2>1. PICK a \in A : Content(a) = Content(b)
    BY DEF SameContents
  <2> QED
    BY <2>1, SameContent
<1>3. CA = CB
  <2>1. \A c \in CA : c \in CB
    BY <1>1
  <2>2. \A c \in CB : c \in CA
    BY <1>2
  <2> QED
    BY <2>1, <2>2
<1>4. ASSUME NEW c \in CA
      PROVE  /\ Cardinality({o \in OfA : Content(o) = c}) = 1
             /\ Cardinality({o \in OfB : Content(o) = c}) = 1
  <2>1. PICK a \in A : a.group = g /\ Content(a) = c
    OBVIOUS
  <2>2. PICK b \in B : b.group = g /\ Content(b) = c
    BY <1>1, <2>1
  <2>3. {o \in OfA : Content(o) = c} = {a}
    BY <2>1, OnceEach
  <2>4. {o \in OfB : Content(o) = c} = {b}
    BY <2>2, OnceEach
  <2> QED
    BY <2>3, <2>4, FS_Singleton
<1>5. /\ GroupHash(A, g) = [c \in CA |-> Cardinality({o \in OfA : Content(o) = c})]
      /\ GroupHash(B, g) = [c \in CB |-> Cardinality({o \in OfB : Content(o) = c})]
  BY DEF GroupHash
<1> HIDE DEF OfA, OfB, CA, CB
<1> QED
  BY <1>3, <1>4, <1>5

(* And equal hashes are equal contents.                                    *)
LEMMA HashesContents ==
  ASSUME NEW A, A \subseteq Proper, NEW B, B \subseteq Proper, SameHashes(A, B)
  PROVE  SameContents(A, B)
<1>1. ASSUME NEW X, X \subseteq Proper, NEW Y, Y \subseteq Proper, SameHashes(X, Y), NEW x \in X
      PROVE  \E y \in Y : Content(y) = Content(x)
  <2> DEFINE g == x.group
             CX == {Content(o) : o \in {o \in X : o.group = g}}
             CY == {Content(o) : o \in {o \in Y : o.group = g}}
  <2>1. g \in ToSet(Groups)
    <3>1. x \in Proper
      BY <1>1
    <3> QED
      BY <3>1, ObjectFields
  <2>2. GroupHash(X, g) = GroupHash(Y, g)
    BY <1>1, <2>1 DEF SameHashes
  <2>3. DOMAIN GroupHash(X, g) = CX /\ DOMAIN GroupHash(Y, g) = CY
    BY DEF GroupHash
  <2>4. Content(x) \in CX
    OBVIOUS
  <2>5. Content(x) \in CY
    BY <2>2, <2>3, <2>4
  <2> QED
    BY <2>5
<1>2. SameHashes(B, A)
  BY DEF SameHashes
<1>3. \A a \in A : \E b \in B : Content(b) = Content(a)
  BY <1>1
<1>4. \A b \in B : \E a \in A : Content(a) = Content(b)
  BY <1>1, <1>2
<1> QED
  BY <1>3, <1>4 DEF SameContents

(***************************************************************************)
(* Undisturbed, a restore keeps each object once.                          *)
(***************************************************************************)
LEMMA AddedOnce ==
  ASSUME NEW X, OncePerName(X), NEW c,
         \A p \in X : ~(p.group = c.group /\ p.name = c.name /\ p.folder = c.folder)
  PROVE  OncePerName(X \cup {c})
BY DEF OncePerName

LEMMA FolderOnce ==
  ASSUME NEW o \in Proper, o.group = "dashboards", ~IsFolder(o),
         There \subseteq Proper, IsFiniteSet(There), OncePerName(There)
  PROVE  OncePerName(InFolder(o))
<1> DEFINE there == o.folder = "default" \/ \E p \in There : IsFolder(p) /\ p.name = o.folder
<1>1. InFolder(o) = IF there THEN There ELSE With(There, FolderOf(o))
  BY DEF InFolder, There
<1>2. CASE there
  BY <1>1, <1>2
<1>3. CASE ~there
  <2>1. FolderOf(o) \in Proper /\ IsFolder(FolderOf(o)) /\ FolderOf(o).name = o.folder
    BY <1>3, FolderCopied
  <2> DEFINE c == [FolderOf(o) EXCEPT !.id = NewId(There)]
  <2>2. /\ With(There, FolderOf(o)) = There \cup {c}
        /\ c.group = FolderOf(o).group /\ c.name = FolderOf(o).name
        /\ c.folder = FolderOf(o).folder
    BY <2>1, Copied
  <2>3. IsFolder(c) /\ c.name = o.folder
    BY <2>1, <2>2 DEF IsFolder
  <2> HIDE DEF c
  <2>4. OncePerName(There \cup {c})
    BY <1>3, <2>3, AddedOnce DEF IsFolder
  <2> QED
    BY <1>1, <1>3, <2>2, <2>4
<1> QED
  BY <1>2, <1>3

LEMMA WritesAfter ==
  ASSUME RestoreReady, NEW X, X \subseteq Proper, IsFiniteSet(X), Writes(X)
  PROVE  stored'[copying.place].objects = X
BY Written, ReadyFacts DEF RestoreReady

LEMMA CopyWritten ==
  ASSUME RestoreReady, NEW o \in Proper, NEW X, X \subseteq Proper, IsFiniteSet(X), Writes(With(X, o))
  PROVE  \E c \in Proper :
           /\ stored'[copying.place].objects = X \cup {c} /\ Content(c) = Content(o)
           /\ c.group = o.group /\ c.name = o.name /\ c.folder = o.folder
<1> DEFINE c == [o EXCEPT !.id = NewId(X)]
<1>1. /\ c \in Proper /\ With(X, o) = X \cup {c} /\ Content(c) = Content(o)
      /\ c.group = o.group /\ c.name = o.name /\ c.folder = o.folder
      /\ With(X, o) \subseteq Proper /\ IsFiniteSet(With(X, o))
  BY Copied
<1>2. stored'[copying.place].objects = With(X, o)
  BY <1>1, WritesAfter
<1> HIDE DEF c
<1> QED
  BY <1>1, <1>2

LEMMA StreamWritten ==
  ASSUME RestoreReady, NEW o \in Proper, o.group = "streams", RestoresStream(o)
  PROVE  LET now == [Current(o) EXCEPT !.body = (Current(o).body \ Writable) \cup (o.body \cap Writable)
                                                  \cup MissingNames(o, Current(o))]
         IN  /\ now \in Proper /\ now.group = o.group /\ now.name = o.name
             /\ stored'[copying.place].objects = (There \ Named(o)) \cup {now}
<1> DEFINE now == [Current(o) EXCEPT !.body = (Current(o).body \ Writable) \cup (o.body \cap Writable)
                                                \cup MissingNames(o, Current(o))]
<1>1. MissingNames(o, Current(o)) \subseteq o.body
  BY DEF MissingNames
<1>2. Writes((There \ Named(o)) \cup {now})
  BY DEF RestoresStream, There, Registered
<1>3. Becomes(o, now)
  BY <1>1, <1>2, StreamBecomes
<1> HIDE DEF now
<1>4. now \in Proper /\ now.group = o.group /\ now.name = o.name
  BY <1>3 DEF Becomes
<1>5. There \ Named(o) \subseteq There
  OBVIOUS
<1>6. (There \ Named(o)) \cup {now} \subseteq Proper /\ IsFiniteSet((There \ Named(o)) \cup {now})
  BY <1>4, <1>5, ReadyFacts, FS_Subset, FS_AddElement
<1>7. stored'[copying.place].objects = (There \ Named(o)) \cup {now}
  BY <1>2, <1>6, WritesAfter
<1> QED
  BY <1>4, <1>7 DEF now

LEMMA OnceKept ==
  ASSUME RestoreReady, OncePerName(There), NEW o \in copying.left, Handles(o), ~Fault
  PROVE  OncePerName(stored'[copying.place].objects)
<1> DEFINE after == stored'[copying.place].objects
<1>1. o \in Proper /\ There \subseteq Proper /\ IsFiniteSet(There)
  BY ReadyFacts
<1>2. Named(o) = {} => \A p \in There : ~(p.group = o.group /\ p.name = o.name /\ p.folder = o.folder)
  BY DEF Named, There
<1>3. CASE UNCHANGED stored
  BY <1>3 DEF There, Objects
<1>4. ASSUME NEW r \in Proper, Named(o) = {}, Writes(With(There, r)),
             r.group = o.group, r.name = o.name, r.folder = o.folder
      PROVE  OncePerName(after)
  <2>1. PICK c \in Proper : /\ after = There \cup {c}
                            /\ c.group = r.group /\ c.name = r.name /\ c.folder = r.folder
    BY <1>1, <1>4, CopyWritten
  <2> QED
    BY <1>2, <1>4, <2>1, AddedOnce
<1>5. CASE CreatesNamed(o)
  BY <1>1, <1>4, <1>5 DEF CreatesNamed, There
<1>6. CASE CreatesDestination(o)
  <2>1. CASE Creatable(Redirected(o))
    <3>1. Writes(With(There, Redirected(o))) /\ o.group = "destinations" /\ Named(o) = {}
      BY <1>6, <2>1 DEF CreatesDestination, There
    <3>2. /\ Redirected(o) \in Proper /\ Redirected(o).group = o.group
          /\ Redirected(o).name = o.name /\ Redirected(o).folder = o.folder
      BY <1>1, <3>1, RedirectedCopied
    <3> HIDE DEF Redirected
    <3> QED
      BY <1>4, <3>1, <3>2
  <2>2. CASE ~Creatable(Redirected(o))
    BY <1>3, <1>6, <2>2 DEF CreatesDestination
  <2> QED
    BY <2>1, <2>2
<1>7. CASE RestoresStream(o)
  <2>1. o.group = "streams"
    BY <1>7 DEF RestoresStream
  <2>2. PICK now \in Proper : /\ now.group = o.group /\ now.name = o.name
                              /\ after = (There \ Named(o)) \cup {now}
    BY <1>1, <1>7, <2>1, StreamWritten
  <2>3. now.folder = "" /\ o.folder = ""
    BY <1>1, <2>1, <2>2, ObjectFields
  <2>4. \A p \in There \ Named(o) :
          ~(p.group = now.group /\ p.name = now.name /\ p.folder = now.folder)
    BY <2>2, <2>3 DEF Named, There
  <2>5. OncePerName(There \ Named(o))
    BY DEF OncePerName
  <2> QED
    BY <2>2, <2>4, <2>5, AddedOnce
<1>8. CASE RestoresDashboard(o)
  <2>1. CASE Named(o) # {}
    BY <1>3, <1>8, <2>1 DEF RestoresDashboard
  <2>2. CASE Named(o) = {}
    <3>1. o.group = "dashboards" /\ ~IsFolder(o) /\ Writes(With(InFolder(o), o))
      BY <1>8, <2>2 DEF RestoresDashboard
    <3>2. OncePerName(InFolder(o))
      BY <1>1, <3>1, FolderOnce
    <3>3. PICK N \in SUBSET Proper : /\ InFolder(o) = There \cup N
                                     /\ \A n \in N : IsFolder(n) /\ n.name = o.folder
      BY <1>1, <3>1, FolderIn DEF There
    <3>4. InFolder(o) \subseteq Proper /\ IsFiniteSet(InFolder(o))
      BY <1>1, <3>1, FolderIn DEF There
    <3>5. PICK c \in Proper : /\ after = InFolder(o) \cup {c}
                              /\ c.group = o.group /\ c.name = o.name /\ c.folder = o.folder
      BY <1>1, <3>1, <3>4, CopyWritten
    <3>6. \A p \in InFolder(o) : ~(p.group = c.group /\ p.name = c.name /\ p.folder = c.folder)
      BY <1>2, <2>2, <3>1, <3>3, <3>5 DEF IsFolder
    <3> QED
      BY <3>2, <3>5, <3>6, AddedOnce
  <2> QED
    BY <2>1, <2>2
<1> QED
  BY <1>3, <1>5, <1>6, <1>7, <1>8
     DEF Handles, KeepsExisting, DestinationFails, StreamSkipped, PassesFolder, DashboardUnlisted,
         CallFails, Refused

(***************************************************************************)
(* Undisturbed, a restore of what is there already changes nothing.        *)
(***************************************************************************)
LEMMA ReportedActions ==
  ASSUME CopyShape, copying.op = "restore", NEW o, NEW a, Reports(o, a)
  PROVE  copying'.actions = copying.actions \cup {a} /\ copying'.op = "restore"
         /\ copying'.left = copying.left \ {o}
<1>1. copying' = [op |-> copying.op, place |-> copying.place, left |-> copying.left \ {o},
                  read |-> copying.read, actions |-> copying.actions \cup {a}]
  BY DEF Reports, CopyShape
<1> QED
  BY <1>1

LEMMA PassedActions ==
  ASSUME CopyShape, copying.op = "restore", NEW o, copying' = [copying EXCEPT !.left = @ \ {o}]
  PROVE  copying'.actions = copying.actions /\ copying'.op = "restore"
         /\ copying'.left = copying.left \ {o}
<1>1. copying' = [op |-> copying.op, place |-> copying.place, left |-> copying.left \ {o},
                  read |-> copying.read, actions |-> copying.actions]
  BY DEF CopyShape
<1> QED
  BY <1>1

LEMMA SameStream ==
  ASSUME RestoreReady, NEW o \in Proper, o.group = "streams",
         NEW p \in Named(o), Content(p) = Content(o), RestoresStream(o)
  PROVE  stored'[copying.place].objects = There /\ Reports(o, "NO_CHANGE")
<1>1. There \subseteq Proper /\ p \in There /\ p \in Proper
  BY ReadyFacts DEF Named, There
<1>2. \A q \in Named(o) : q = p
  <2>1. SUFFICES ASSUME NEW q \in Named(o) PROVE q = p
    OBVIOUS
  <2> QED
    BY <1>1 DEF RestoreReady, OneStreamPerName, Named, There
<1>3. Current(o) = p
  BY <1>2 DEF Current
<1>4. p.body = o.body
  BY <1>1, SameContent
<1>5. MissingNames(o, p) = {} /\ Settled(o, p)
  BY <1>4 DEF MissingNames, Settled
<1>6. Reports(o, "NO_CHANGE")
  BY <1>3, <1>5 DEF RestoresStream
<1>7. (p.body \ Writable) \cup (o.body \cap Writable) \cup MissingNames(o, p) = p.body
  BY <1>4, <1>5
<1>8. [p EXCEPT !.body = p.body] = p
  <2>1. p \in Object
    BY <1>1, ObjectFields
  <2> QED
    BY <2>1 DEF Object
<1>9. stored'[copying.place].objects = (There \ Named(o)) \cup {p}
  BY <1>3, <1>7, <1>8, StreamWritten
<1>10. Named(o) = {p}
  BY <1>2
<1> QED
  BY <1>1, <1>6, <1>9, <1>10

LEMMA AgainHandled ==
  ASSUME RestoreReady, NEW o \in copying.left, Handles(o), ~Fault,
         NEW p \in There, Content(p) = Content(o)
  PROVE  /\ stored'[copying.place].objects = There
         /\ copying'.op = "restore" /\ copying'.left = copying.left \ {o}
         /\ copying'.actions \subseteq copying.actions \cup {"NO_CHANGE"}
<1>1. o \in Proper /\ There \subseteq Proper /\ CopyShape /\ copying.op = "restore"
  BY ReadyFacts DEF RestoreReady
<1>2. p \in Named(o)
  BY <1>1, SameContent DEF Named, There
<1>3. CASE KeepsExisting(o)
  BY <1>1, <1>3, ReportedActions DEF KeepsExisting, There, Objects
<1>4. CASE RestoresStream(o)
  <2>1. o.group = "streams"
    BY <1>4 DEF RestoresStream
  <2>2. stored'[copying.place].objects = There /\ Reports(o, "NO_CHANGE")
    BY <1>1, <1>2, <1>4, <2>1, SameStream
  <2> QED
    BY <1>1, <2>2, ReportedActions
<1>5. CASE PassesFolder(o)
  BY <1>1, <1>5, PassedActions DEF PassesFolder, There, Objects
<1>6. CASE RestoresDashboard(o)
  BY <1>1, <1>2, <1>6, ReportedActions DEF RestoresDashboard, There, Objects
<1> QED
  BY <1>2, <1>3, <1>4, <1>5, <1>6
     DEF Handles, CreatesNamed, CreatesDestination, DestinationFails, StreamSkipped, DashboardUnlisted,
         CallFails, Refused

(***************************************************************************)
(* Undisturbed, a restore of what can be restored brings each object.      *)
(***************************************************************************)
LEMMA Ranks ==
  /\ Rank("streams") = 1 /\ Rank("templates") = 5 /\ Rank("destinations") = 6 /\ Rank("alerts") = 7
  /\ Rank("dashboards") = 4 /\ Rank("functions") = 2 /\ Rank("pipelines") = 3
<1>1. /\ Len(Groups) = 7 /\ Groups[1] = "streams" /\ Groups[2] = "functions"
      /\ Groups[3] = "pipelines" /\ Groups[4] = "dashboards" /\ Groups[5] = "templates"
      /\ Groups[6] = "destinations" /\ Groups[7] = "alerts"
  BY DEF Groups
<1>2. \A i, j \in 1..7 : Groups[i] = Groups[j] => i = j
  BY DEF Groups
<1>3. ASSUME NEW k \in 1..7 PROVE Rank(Groups[k]) = k
  BY <1>1, <1>2 DEF Rank
<1> QED
  BY <1>1, <1>3

(* What has been brought so far.                                           *)
BroughtSoFar(E) ==
  /\ E \subseteq Proper /\ Restorable(E) /\ copying.left \subseteq E
  /\ Brought(E \ copying.left, There)
  /\ \A p \in There : \E e \in E : Content(p) = Content(e) /\ (IsFolder(p) \/ e \notin copying.left)

LEMMA OnlyOne ==
  ASSUME NEW E, Restorable(E), NEW o \in E, NEW p \in E,
         o.group = p.group, o.name = p.name, o.folder = p.folder
  PROVE  o = p
BY DEF Restorable

LEMMA NotThereYet ==
  ASSUME RestoreReady, NEW E, BroughtSoFar(E), NEW o \in copying.left, ~IsFolder(o)
  PROVE  Named(o) = {}
<1>1. SUFFICES ASSUME NEW p \in Named(o) PROVE FALSE
  OBVIOUS
<1>2. p \in There /\ p.group = o.group /\ p.name = o.name /\ p.folder = o.folder
      /\ p \in Proper /\ o \in Proper /\ o \in E
  BY ReadyFacts DEF Named, There, BroughtSoFar
<1>3. PICK e \in E : Content(p) = Content(e) /\ (IsFolder(p) \/ e \notin copying.left)
  BY <1>2 DEF BroughtSoFar
<1>4. ~IsFolder(p)
  BY <1>2 DEF IsFolder
<1>5. e.group = o.group /\ e.name = o.name /\ e.folder = o.folder
  BY <1>2, <1>3, SameContent DEF BroughtSoFar
<1>6. e = o
  BY <1>2, <1>5, OnlyOne DEF BroughtSoFar
<1> QED
  BY <1>3, <1>4, <1>6

(* What comes later in the order finds what it needs.                      *)
LEMMA EarlierIsThere ==
  ASSUME RestoreReady, NEW E, BroughtSoFar(E), NEW o \in copying.left, IsNext(o),
         NEW p \in E, p.group \in {"streams", "templates", "destinations"},
         Rank(p.group) < Rank(o.group)
  PROVE  \E q \in There : q.group = p.group /\ q.name = p.name
<1>1. p \notin copying.left
  <2>1. Rank(p.group) \in Nat /\ Rank(o.group) \in Nat
    <3>1. o \in Proper
      BY ReadyFacts
    <3>2. o.group \in ToSet(Groups)
      BY <3>1, ObjectFields
    <3> QED
      BY <3>2, Ranks, GroupNames
  <2> QED
    BY <2>1 DEF IsNext
<1>2. ~IsFolder(p) /\ p \in Proper /\ There \subseteq Proper
  BY ReadyFacts DEF IsFolder, BroughtSoFar
<1>3. PICK q \in There : Content(q) = Content(p)
  BY <1>1, <1>2 DEF BroughtSoFar, Brought
<1> QED
  BY <1>2, <1>3, SameContent

LEMMA AlertCreatable ==
  ASSUME RestoreReady, NEW E, BroughtSoFar(E), NEW o \in copying.left, IsNext(o), o.group = "alerts"
  PROVE  Creatable(o)
<1>1. SUFFICES ASSUME NEW ref \in o.needs PROVE \E q \in There : <<q.group, q.name>> = ref
  BY DEF Creatable, There
<1>2. o \in E /\ o \in Proper /\ Closed(E)
  BY ReadyFacts DEF BroughtSoFar, Restorable
<1>3. PICK p \in E : <<p.group, p.name>> = ref
  BY <1>1, <1>2 DEF Closed
<1>4. ref \in {"streams", "destinations"} \X STRING
  BY <1>1, <1>2, ObjectFields
<1>5. p.group \in {"streams", "destinations"}
  BY <1>3, <1>4
<1>6. PICK q \in There : q.group = p.group /\ q.name = p.name
  BY <1>5, EarlierIsThere, Ranks
<1> QED
  BY <1>3, <1>6

LEMMA DestinationCreatable ==
  ASSUME RestoreReady, NEW E, BroughtSoFar(E), NEW o \in copying.left, IsNext(o),
         o.group = "destinations"
  PROVE  Redirected(o) = o /\ Creatable(o)
<1>1. o \in E /\ o \in Proper
  BY ReadyFacts DEF BroughtSoFar
<1>2. /\ o.body = {FirstTemplate} /\ o.needs = {<<"templates", FirstTemplate>>}
      /\ \E p \in E : <<p.group, p.name>> = <<"templates", FirstTemplate>>
  BY <1>1 DEF BroughtSoFar, Restorable
<1>3. Redirected(o) = o
  <2>1. o \in Object
    BY <1>1, ObjectFields
  <2>2. PICK b, n : b = o.body /\ n = o.needs
    OBVIOUS
  <2>3. Redirected(o) = [o EXCEPT !.body = b, !.needs = n]
    BY <1>2, <2>2 DEF Redirected
  <2> QED
    BY <2>1, <2>2, <2>3 DEF Object
<1>4. PICK p \in E : p.group = "templates" /\ p.name = FirstTemplate
  BY <1>2
<1>5. PICK q \in There : q.group = p.group /\ q.name = p.name
  BY <1>4, EarlierIsThere, Ranks
<1>6. <<q.group, q.name>> = <<"templates", FirstTemplate>>
  BY <1>4, <1>5
<1> QED
  BY <1>2, <1>3, <1>5, <1>6 DEF Creatable, There

(* A folder that is made for a dashboard says what the exported one says.  *)
LEMMA FoldersAlike ==
  ASSUME NEW p \in Proper, NEW q \in Proper, IsFolder(p), IsFolder(q), p.name = q.name
  PROVE  Content(p) = Content(q)
<1>1. p.body = {} /\ p.needs = {} /\ q.body = {} /\ q.needs = {}
  BY ObjectFields
<1>2. p.group = q.group /\ p.folder = q.folder
  BY DEF IsFolder
<1> QED
  BY <1>1, <1>2, SameContent

RestoresOne(E, o) ==
  LET after == stored'[copying.place].objects
  IN  /\ There \subseteq after /\ after \subseteq Proper
      /\ IsFolder(o) \/ \E c \in after : Content(c) = Content(o)
      /\ o.group = "dashboards" /\ o.folder \notin {"default", "folders"}
           => \E f \in after : IsFolder(f) /\ f.name = o.folder
      /\ \A p \in after : \/ p \in There
                          \/ Content(p) = Content(o)
                          \/ IsFolder(p) /\ \E e \in E : Content(p) = Content(e)
      /\ copying'.op = "restore" /\ copying'.left = copying.left \ {o}

LEMMA CopyRestores ==
  ASSUME RestoreReady, NEW E, BroughtSoFar(E), NEW o \in copying.left, o.group # "dashboards",
         NEW c \in Proper, Content(c) = Content(o),
         stored'[copying.place].objects = There \cup {c},
         NEW a, Reports(o, a)
  PROVE  RestoresOne(E, o)
<1>1. There \subseteq Proper /\ CopyShape /\ copying.op = "restore"
  BY ReadyFacts DEF RestoreReady
<1>2. copying'.op = "restore" /\ copying'.left = copying.left \ {o}
  BY <1>1, ReportedActions
<1> QED
  BY <1>1, <1>2 DEF RestoresOne

LEMMA StreamCreated ==
  ASSUME RestoreReady, NEW E, BroughtSoFar(E), NEW o \in copying.left, o.group = "streams",
         Named(o) = {}, RestoresStream(o)
  PROVE  stored'[copying.place].objects = There \cup {o}
<1>1. o \in E /\ o \in Proper
  BY ReadyFacts DEF BroughtSoFar
<1>2. o.body \subseteq Writable \cup Additive
  BY <1>1 DEF BroughtSoFar, Restorable
<1>3. PICK b : b = {}
  OBVIOUS
<1>4. Current(o) = [o EXCEPT !.body = b]
  BY <1>3 DEF Current, Bootstrapped
<1>5. o \in Object
  BY <1>1, ObjectFields
<1>6. Current(o).body = {}
  BY <1>3, <1>4, <1>5 DEF Object
<1>7. (Current(o).body \ Writable) \cup (o.body \cap Writable) \cup MissingNames(o, Current(o)) = o.body
  BY <1>2, <1>6 DEF MissingNames
<1>8. [Current(o) EXCEPT !.body = o.body] = o
  BY <1>4, <1>5 DEF Object
<1>9. stored'[copying.place].objects = (There \ Named(o)) \cup {o}
  BY <1>1, <1>7, <1>8, StreamWritten
<1> QED
  BY <1>9

LEMMA DashboardCreated ==
  ASSUME RestoreReady, NEW E, BroughtSoFar(E), NEW o \in copying.left,
         Named(o) = {}, RestoresDashboard(o)
  PROVE  RestoresOne(E, o)
<1> DEFINE after == stored'[copying.place].objects
<1>1. o \in E /\ o \in Proper /\ There \subseteq Proper /\ IsFiniteSet(There) /\ E \subseteq Proper
      /\ CopyShape /\ copying.op = "restore"
  BY ReadyFacts DEF BroughtSoFar, RestoreReady
<1>2. o.group = "dashboards" /\ ~IsFolder(o) /\ Writes(With(InFolder(o), o)) /\ Reports(o, "CREATED")
  BY DEF RestoresDashboard
<1>3. PICK N \in SUBSET Proper : /\ InFolder(o) = There \cup N
                                 /\ \A n \in N : IsFolder(n) /\ n.name = o.folder
  BY <1>1, <1>2, FolderIn DEF There
<1>4. /\ InFolder(o) \subseteq Proper /\ IsFiniteSet(InFolder(o))
      /\ o.folder = "default" \/ \E p \in InFolder(o) : IsFolder(p) /\ p.name = o.folder
  BY <1>1, <1>2, FolderIn DEF There
<1>5. PICK c \in Proper : after = InFolder(o) \cup {c} /\ Content(c) = Content(o)
  BY <1>1, <1>2, <1>4, CopyWritten
<1>6. copying'.op = "restore" /\ copying'.left = copying.left \ {o}
  BY <1>1, <1>2, ReportedActions
<1>7. ASSUME NEW n \in N PROVE IsFolder(n) /\ \E e \in E : Content(n) = Content(e)
  <2>1. IsFolder(n) /\ n.name = o.folder /\ n \in Proper
    BY <1>3
  <2>2. o.folder \notin {"default", "folders"}
    BY <2>1, ObjectFields
  <2>3. PICK e \in E : IsFolder(e) /\ e.name = o.folder
    BY <1>1, <1>2, <2>2 DEF BroughtSoFar, Restorable
  <2> QED
    BY <1>1, <2>1, <2>3, FoldersAlike
<1> HIDE DEF after
<1>8. There \subseteq after /\ after \subseteq Proper
  BY <1>3, <1>4, <1>5
<1>9. \E d \in after : Content(d) = Content(o)
  BY <1>5
<1>10. o.folder # "default" => \E f \in after : IsFolder(f) /\ f.name = o.folder
  BY <1>4, <1>5
<1>11. \A p \in after : \/ p \in There
                        \/ Content(p) = Content(o)
                        \/ IsFolder(p) /\ \E e \in E : Content(p) = Content(e)
  BY <1>3, <1>5, <1>7
<1> QED
  BY <1>6, <1>8, <1>9, <1>10, <1>11 DEF RestoresOne, after

LEMMA RestoringHandled ==
  ASSUME RestoreReady, NEW E, BroughtSoFar(E), NEW o \in copying.left, Handles(o), ~Fault
  PROVE  RestoresOne(E, o)
<1>1. o \in E /\ o \in Proper /\ There \subseteq Proper /\ IsFiniteSet(There)
      /\ CopyShape /\ copying.op = "restore"
  BY ReadyFacts DEF BroughtSoFar, RestoreReady
<1>2. ~IsFolder(o) => Named(o) = {}
  BY NotThereYet
<1>3. CASE PassesFolder(o)
  <2>1. copying'.op = "restore" /\ copying'.left = copying.left \ {o} /\ IsFolder(o)
    BY <1>1, <1>3, PassedActions DEF PassesFolder
  <2>2. stored'[copying.place].objects = There
    BY <1>3 DEF PassesFolder, There, Objects
  <2> QED
    BY <1>1, <2>1, <2>2 DEF RestoresOne, IsFolder
<1>4. CASE CreatesNamed(o)
  <2>1. o.group # "dashboards" /\ Writes(With(There, o)) /\ Reports(o, "CREATED")
    BY <1>4 DEF CreatesNamed, There
  <2>2. PICK c \in Proper : stored'[copying.place].objects = There \cup {c} /\ Content(c) = Content(o)
    BY <1>1, <2>1, CopyWritten
  <2> QED
    BY <2>1, <2>2, CopyRestores
<1>5. CASE CreatesDestination(o)
  <2>1. o.group = "destinations" /\ IsNext(o)
    BY <1>5 DEF CreatesDestination
  <2>2. Redirected(o) = o /\ Creatable(o)
    BY <2>1, DestinationCreatable
  <2>3. Writes(With(There, o)) /\ Reports(o, "CREATED")
    <3> HIDE DEF Redirected
    <3> QED
      BY <1>5, <2>2 DEF CreatesDestination, There
  <2>4. PICK c \in Proper : stored'[copying.place].objects = There \cup {c} /\ Content(c) = Content(o)
    BY <1>1, <2>3, CopyWritten
  <2> QED
    BY <2>1, <2>3, <2>4, CopyRestores
<1>6. CASE RestoresStream(o)
  <2>1. o.group = "streams" /\ \E a : Reports(o, a)
    BY <1>6 DEF RestoresStream
  <2>2. Named(o) = {}
    BY <1>2, <2>1 DEF IsFolder
  <2>3. stored'[copying.place].objects = There \cup {o}
    BY <1>6, <2>1, <2>2, StreamCreated
  <2> QED
    BY <1>1, <2>1, <2>3, CopyRestores
<1>7. CASE RestoresDashboard(o)
  <2>1. Named(o) = {}
    BY <1>2, <1>7 DEF RestoresDashboard
  <2> QED
    BY <1>7, <2>1, DashboardCreated
<1>8. ~KeepsExisting(o)
  BY <1>2 DEF KeepsExisting, IsFolder
<1>9. ~Refused(o)
  BY AlertCreatable DEF Refused
<1> QED
  BY <1>3, <1>4, <1>5, <1>6, <1>7, <1>8, <1>9
     DEF Handles, DestinationFails, StreamSkipped, DashboardUnlisted, CallFails

LEMMA BroughtMore ==
  ASSUME RestoreReady, NEW E, BroughtSoFar(E), NEW o \in copying.left, RestoresOne(E, o)
  PROVE  LET after == stored'[copying.place].objects
         IN  /\ copying'.op = "restore"
             /\ Brought(E \ copying'.left, after)
             /\ \A p \in after :
                  \E e \in E : Content(p) = Content(e) /\ (IsFolder(p) \/ e \notin copying'.left)
<1> DEFINE after == stored'[copying.place].objects
<1>1. /\ There \subseteq after /\ copying'.op = "restore" /\ copying'.left = copying.left \ {o}
      /\ o \in E /\ after \subseteq Proper
  BY DEF RestoresOne, BroughtSoFar
<1>2. \A e \in E \ copying'.left : e \in E \ copying.left \/ e = o
  BY <1>1
<1>3. ASSUME NEW e \in E \ copying'.left, ~IsFolder(e)
      PROVE  \E p \in after : Content(p) = Content(e)
  <2>1. CASE e = o
    BY <1>3, <2>1 DEF RestoresOne
  <2>2. CASE e \in E \ copying.left
    <3>1. PICK p \in There : Content(p) = Content(e)
      BY <1>3, <2>2 DEF BroughtSoFar, Brought
    <3> QED
      BY <1>1, <3>1
  <2> QED
    BY <1>2, <2>1, <2>2
<1>4. ASSUME NEW e \in E \ copying'.left, e.group = "dashboards", e.folder \notin {"default", "folders"}
      PROVE  \E p \in after : IsFolder(p) /\ p.name = e.folder
  <2>1. CASE e = o
    BY <1>4, <2>1 DEF RestoresOne
  <2>2. CASE e \in E \ copying.left
    <3>1. PICK p \in There : IsFolder(p) /\ p.name = e.folder
      BY <1>4, <2>2 DEF BroughtSoFar, Brought
    <3> QED
      BY <1>1, <3>1
  <2> QED
    BY <1>2, <2>1, <2>2
<1>5. ASSUME NEW p \in after
      PROVE  \E e \in E : Content(p) = Content(e) /\ (IsFolder(p) \/ e \notin copying'.left)
  <2>1. CASE p \in There
    <3>1. PICK e \in E : Content(p) = Content(e) /\ (IsFolder(p) \/ e \notin copying.left)
      BY <2>1 DEF BroughtSoFar
    <3> QED
      BY <1>1, <3>1
  <2>2. CASE Content(p) = Content(o)
    BY <1>1, <2>2
  <2>3. CASE IsFolder(p) /\ \E e \in E : Content(p) = Content(e)
    BY <2>3
  <2> QED
    BY <2>1, <2>2, <2>3 DEF RestoresOne
<1> QED
  BY <1>1, <1>3, <1>4, <1>5 DEF Brought

LEMMA BroughtAll ==
  ASSUME NEW E, E \subseteq Proper, Restorable(E), NEW T, T \subseteq Proper, Brought(E, T),
         \A p \in T : \E e \in E : Content(p) = Content(e)
  PROVE  SameContents(E, T)
<1>1. ASSUME NEW e \in E PROVE \E p \in T : Content(p) = Content(e)
  <2>1. CASE ~IsFolder(e)
    BY <2>1 DEF Brought
  <2>2. CASE IsFolder(e)
    <3>1. PICK d \in E : d.group = "dashboards" /\ d.folder = e.name
      BY <2>2 DEF Restorable
    <3>2. e.name \notin {"default", "folders"} /\ e \in Proper
      BY <2>2, ObjectFields
    <3>3. PICK p \in T : IsFolder(p) /\ p.name = e.name
      BY <3>1, <3>2 DEF Brought
    <3> QED
      BY <2>2, <3>2, <3>3, FoldersAlike
  <2> QED
    BY <2>1, <2>2
<1> QED
  BY <1>1 DEF SameContents

LEMMA RestorableOnce ==
  ASSUME NEW E, Restorable(E)
  PROVE  OncePerName(E)
BY OnlyOne DEF OncePerName

(* The export of such a control plane has every group again.               *)
LEMMA ExportedAgain ==
  ASSUME NEW E, E \subseteq Proper, NEW T, T \subseteq Proper, SameContents(E, T),
         \A g \in ToSet(Groups) : \E o \in E : o.group = g
  PROVE  \A g \in ToSet(Groups) : \E o \in T : o.group = g
<1>1. ASSUME NEW g \in ToSet(Groups) PROVE \E o \in T : o.group = g
  <2>1. PICK o \in E : o.group = g
    OBVIOUS
  <2>2. PICK p \in T : Content(p) = Content(o)
    BY DEF SameContents
  <2> QED
    BY <2>1, <2>2, SameContent
<1> QED
  BY <1>1

(***************************************************************************)
(* The round trip, undisturbed.                                            *)
(***************************************************************************)
LEMMA RoundTripEnds ==
  ASSUME Shape, FlowOK, VolumesOK, CopyingOK, StreamsOK, ExportOK, RestoringOK, Next, ~Begin,
         Undisturbed', proof.stage = "roundTrip", EndsOrThrows
  PROVE  ~Restorable(logical'.main) /\ proof'.step \in {"stop", "ended"}
<1>1. Undisturbed /\ ~Fault
  BY StillUndisturbed
<1>2. proof'.step \in {"stop", "ended"}
  BY DEF EndsOrThrows
<1>3. CASE RestoreThrows
  <2>1. /\ UNCHANGED logical /\ proof.step \in {"restoring", "again", "reexporting"}
        /\ copying.op = "thrown" \/ ExportThrows
    BY <1>3 DEF RestoreThrows
  <2>2. SUFFICES ASSUME Restorable(logical.main) PROVE FALSE
    BY <1>2, <2>1
  <2>3. /\ logical.main \subseteq Proper /\ stored["roundTrip"] # NoVolume
        /\ Objects("roundTrip") \subseteq Proper
    BY <2>1, PlaceIs, VolumeFields DEF Shape, VolumesOK, Objects, Projects
  <2>4. CASE proof.step = "restoring"
    BY <1>1, <2>1, <2>2, <2>4 DEF RestoringOK, ExportThrows
  <2>5. CASE proof.step = "reexporting"
    <3>1. copying.op = "export" /\ SameContents(logical.main, Objects("roundTrip"))
      BY <1>1, <2>2, <2>5 DEF RestoringOK
    <3>2. copying.left = {} /\ ~Exported
      BY <2>1, <3>1 DEF ExportThrows
    <3>3. copying.read = Objects("roundTrip")
      BY <1>1, <2>5, <3>1, <3>2 DEF CopyingOK
    <3>4. Later("export")
      BY Positions DEF Later
    <3>5. \A g \in ToSet(Groups) : \E o \in Objects("roundTrip") : o.group = g
      BY <2>3, <3>1, <3>4, ExportedAgain DEF ExportOK
    <3> QED
      BY <3>1, <3>2, <3>3, <3>5 DEF Exported
  <2>6. CASE proof.step = "again"
    <3>1. SameHashes(logical.main, logical.again)
      BY <1>1, <2>2, <2>6 DEF RestoringOK
    <3>2. logical.again \subseteq Proper
      BY DEF Shape
    <3>3. SameContents(logical.main, logical.again)
      BY <2>3, <3>1, <3>2, HashesContents
    <3>4. copying.op = "restore"
      BY <1>1, <2>6, <3>3 DEF RestoringOK
    <3> QED
      BY <2>1, <3>4 DEF ExportThrows
  <2> QED
    BY <2>1, <2>4, <2>5, <2>6
<1>4. CASE StopProject
  <2>1. UNCHANGED logical /\ proof.decision # "ACCEPTED"
    <3>1. proof.decision = "ACCEPTED" => Advances
      BY <1>4 DEF StopProject
    <3>2. Advances => proof'.stage # proof.stage
      BY AdvancesTo, StageIsNoMain, Positions DEF Shape
    <3> QED
      BY <1>4, <3>1, <3>2 DEF EndsOrThrows, Stays, StopProject
  <2> QED
    BY <1>1, <1>2, <2>1 DEF RestoringOK
<1>5. CASE ~RestoreThrows /\ ~StopProject
  <2>1. ~UseFails /\ ~Killed /\ ~Judges /\ ~Governs /\ ~TarsClone /\ ~MainExported /\ ~CreatesFixture
        /\ ~ExportMain /\ ~ClonesVolume /\ ~TarsSource /\ ~FinalLooked /\ ~LooksForMarkers /\ ~Smokes
    BY <1>1 DEF UseFails, Killed, Judges, Governs, TarsClone, MainExported, CreatesFixture, ExportMain,
                ClonesVolume, TarsSource, FinalLooked, LooksForMarkers, Smokes, At, FlowOK, Chain
  <2>2. proof \in Proofs
    BY DEF Shape
  <2>3. CASE Prepare \/ RestoreBegins \/ ReexportBegins \/ RestoresAgain
    BY <1>2, <2>2, <2>3, GoesTo DEF Steps, Prepare, RestoreBegins, Restores, ReexportBegins, RestoresAgain
  <2>4. CASE Unpack \/ StartProject
    BY <1>1, <1>2, <2>2, <2>4, GoesTo DEF Steps, Unpack, StartProject
  <2>5. CASE Copies
    BY <1>2, <2>5 DEF Copies
  <2>7. CASE MainWorks
    <3>1. UNCHANGED <<proof, logical>> /\ proof.step # "ended"
      BY <2>7 DEF MainWorks, CompanyWorks, Provisions, At
    <3>2. proof.decision # "ACCEPTED"
      BY <2>1, <3>1 DEF EndsOrThrows
    <3> QED
      BY <1>1, <1>2, <3>1, <3>2 DEF RestoringOK
  <2>6. CASE RoundTripJudged
    <3>1. proof'.decision = IF SameHashes(logical.main, logical.again) THEN proof.decision ELSE "BLOCKED"
      BY <2>2, <2>6, JudgedTo
    <3>2. proof.decision = "ACCEPTED" /\ proof'.step = "stop"
      BY <2>2, <2>6, JudgedTo DEF RoundTripJudged, At, FlowOK
    <3> QED
      BY <3>1, <3>2 DEF EndsOrThrows
  <2> QED
    BY <1>5, <2>1, <2>3, <2>4, <2>5, <2>6, <2>7 DEF Next, MainWorks
<1> QED
  BY <1>3, <1>4, <1>5

(* The restore of the export, object by object.                            *)
LEMMA RoundTripCopies ==
  ASSUME Shape, FlowOK, VolumesOK, CopyingOK, StreamsOK, RestoringOK, Copies, ~Fault,
         Undisturbed, proof.stage = "roundTrip"
  PROVE  LET T == Objects("roundTrip")'
         IN  /\ UNCHANGED <<proof, logical>> /\ OncePerName(T)
             /\ proof.step = "restoring" /\ Restorable(logical.main) =>
                  /\ copying'.op = "restore"
                  /\ Brought(logical.main \ copying'.left, T)
                  /\ \A p \in T : \E o \in logical.main :
                       Content(p) = Content(o) /\ (IsFolder(p) \/ o \notin copying'.left)
             /\ proof.step = "reexporting" /\ Restorable(logical.main) =>
                  copying'.op = "export" /\ SameContents(logical.main, T)
             /\ proof.step = "again" /\ SameContents(logical.main, logical.again) =>
                  copying'.op = "restore" /\ AllNoChange' /\ SameContents(logical.main, T)
<1>1. /\ UNCHANGED <<proof, logical>> /\ logical.main \subseteq Proper
      /\ proof.step \in {"exporting", "reexporting", "restoring", "again"}
      /\ proof.step # "exporting"
  BY DEF Copies, Shape, FlowOK
<1>2. OncePerName(Objects("roundTrip"))
  BY <1>1 DEF RestoringOK
<1>3. CASE copying.op # "restore"
  <2>1. proof.step = "reexporting" /\ UNCHANGED stored /\ copying.op = "export"
    BY <1>1, <1>3, CopyingExports
  <2>3. ~ExportFails /\ ~FolderUnlisted
    BY DEF ExportFails, FolderUnlisted
  <2>4. \E g \in ToSet(Groups) : ReadGroup(g)
    BY <1>3, <2>3 DEF Copies, CopyStep
  <2>5. copying'.op = "export"
    BY <2>1, <2>4 DEF ReadGroup, Shape, CopyShape
  <2>2. Objects("roundTrip")' = Objects("roundTrip")
    BY <2>1 DEF Objects
  <2> QED
    BY <1>1, <1>2, <2>1, <2>2, <2>5 DEF RestoringOK
<1>4. CASE copying.op = "restore"
  <2>1. /\ RestoreReady /\ copying.place = "roundTrip" /\ proof.step \in {"restoring", "again"}
    BY <1>4, CopyingRestores
  <2>2. PICK o \in copying.left : Handles(o)
    BY <1>4, CopyingRestores
  <2> DEFINE T == stored'["roundTrip"].objects
  <2>3. There = Objects("roundTrip") /\ Objects("roundTrip")' = T /\ T = stored'[copying.place].objects
    BY <2>1 DEF There, Objects
  <2>4. OncePerName(T)
    BY <1>2, <2>1, <2>2, <2>3, OnceKept
  <2>5. CASE proof.step = "restoring"
    <3>1. SUFFICES ASSUME Restorable(logical.main)
                   PROVE  /\ copying'.op = "restore"
                          /\ Brought(logical.main \ copying'.left, T)
                          /\ \A p \in T : \E e \in logical.main :
                               Content(p) = Content(e) /\ (IsFolder(p) \/ e \notin copying'.left)
      BY <1>1, <2>3, <2>4, <2>5
    <3>2. copying.left \subseteq logical.main
      BY <1>4, <2>5 DEF CopyingOK
    <3>3. BroughtSoFar(logical.main)
      BY <1>1, <2>3, <2>5, <3>1, <3>2 DEF RestoringOK, BroughtSoFar
    <3>4. RestoresOne(logical.main, o)
      BY <2>1, <2>2, <3>3, RestoringHandled
    <3> QED
      BY <2>1, <2>2, <2>3, <3>3, <3>4, BroughtMore
  <2>6. CASE proof.step = "again"
    <3>1. SUFFICES ASSUME SameContents(logical.main, logical.again)
                   PROVE  copying'.op = "restore" /\ AllNoChange' /\ SameContents(logical.main, T)
      BY <1>1, <2>3, <2>4, <2>6
    <3>2. AllNoChange /\ SameContents(logical.main, Objects("roundTrip"))
      BY <2>6, <3>1 DEF RestoringOK
    <3>3. copying.left \subseteq logical.main
      BY <1>4, <2>6 DEF CopyingOK
    <3>4. PICK p \in There : Content(p) = Content(o)
      BY <2>2, <2>3, <3>2, <3>3 DEF SameContents
    <3>5. /\ T = There /\ copying'.op = "restore"
          /\ copying'.actions \subseteq copying.actions \cup {"NO_CHANGE"}
      BY <2>1, <2>2, <2>3, <3>4, AgainHandled
    <3> QED
      BY <2>3, <3>2, <3>5 DEF AllNoChange
  <2> QED
    BY <2>1, <2>5, <2>6
<1> QED
  BY <1>3, <1>4

(* The steps that prepare the project, and those between the copies.       *)
LEMMA RoundTripPrepared ==
  ASSUME Shape, FlowOK, VolumesOK, CopyingOK, StreamsOK, RestoringOK, Next, ~Fault,
         Undisturbed, proof.stage = "roundTrip"
  PROVE  /\ Prepare => stored'["roundTrip"] = NoVolume
         /\ Unpack \/ StartProject => stored'["roundTrip"] = Empty
         /\ RestoreBegins =>
              LET T == stored'["roundTrip"].objects
              IN  /\ T = {} /\ logical' = logical
                  /\ copying'.op = "restore" /\ copying'.left = logical.main
<1>1. /\ StoredShape /\ "roundTrip" \in Places /\ proof.stage \in Projects
      /\ logical.main \in SUBSET Proper
  BY PlaceIs DEF Shape, StoredShape, Projects
<1>2. CASE Prepare
  <2>1. proof.step = "prepare" /\ stored' = [stored EXCEPT !["roundTrip"] = NoVolume]
    BY <1>2 DEF Prepare, Project
  <2> QED
    BY <1>1, <2>1 DEF StoredShape, Unpack, StartProject, RestoreBegins
<1>3. CASE Unpack
  <2>1. /\ stored["roundTrip"] = NoVolume /\ proof.step = "unpack"
        /\ \E v \in Unpacked : stored' = [stored EXCEPT !["roundTrip"] = v]
    BY <1>3 DEF Unpack, Project, RestoringOK
  <2>2. PICK v \in Unpacked : stored'["roundTrip"] = v
    BY <1>1, <2>1 DEF StoredShape
  <2>3. v = Empty
    BY <1>1, <2>1, UnpackedIs DEF Archive, Chain
  <2> QED
    BY <2>1, <2>2, <2>3 DEF Prepare, RestoreBegins
<1>4. CASE StartProject
  <2>1. proof.step = "start" /\ UNCHANGED stored
    BY <1>4 DEF StartProject
  <2> QED
    BY <2>1 DEF RestoringOK, Prepare, RestoreBegins
<1>5. CASE RestoreBegins
  <2>1. /\ proof.step = "use" /\ UNCHANGED <<stored, logical>>
        /\ RestoreStarts("roundTrip", logical.main)
    BY <1>5 DEF RestoreBegins, Restores, Address, Project
  <2>2. copying'.op = "restore" /\ copying'.left = logical.main
    BY <1>1, <2>1, Started
  <2>3. stored["roundTrip"] = Empty
    BY <2>1 DEF RestoringOK
  <2>4. stored'["roundTrip"].objects = {}
    BY <2>1, <2>3, Empties
  <2> QED
    BY <2>1, <2>2, <2>4 DEF Prepare, Unpack, StartProject
<1> QED
  BY <1>2, <1>3, <1>4, <1>5

LEMMA RoundTripReexports ==
  ASSUME Shape, VolumesOK, RestoringOK, Undisturbed, proof.stage = "roundTrip", ReexportBegins
  PROVE  /\ UNCHANGED <<stored, logical>> /\ copying'.op = "export"
         /\ OncePerName(Objects("roundTrip"))
         /\ Restorable(logical.main) => SameContents(logical.main, Objects("roundTrip"))
<1>1. /\ proof.step = "restoring" /\ copying.left = {} /\ UNCHANGED <<stored, logical>>
      /\ ExportStarts("roundTrip")
  BY DEF ReexportBegins, Restored, Address, Project
<1>2. copying'.op = "export"
  BY <1>1, PlaceIs, Started DEF Projects
<1>3. logical.main \subseteq Proper /\ Objects("roundTrip") \subseteq Proper
  BY <1>1, PlaceIs, VolumeFields DEF Shape, VolumesOK, Objects, Projects
<1>4. ASSUME Restorable(logical.main)
      PROVE  SameContents(logical.main, Objects("roundTrip"))
  <2>1. /\ Brought(logical.main, Objects("roundTrip"))
        /\ \A p \in Objects("roundTrip") : \E o \in logical.main : Content(p) = Content(o)
    BY <1>1, <1>4 DEF RestoringOK
  <2> QED
    BY <1>3, <1>4, <2>1, BroughtAll
<1>5. OncePerName(Objects("roundTrip"))
  BY <1>1 DEF RestoringOK
<1> QED
  BY <1>1, <1>2, <1>4, <1>5

LEMMA RoundTripAgain ==
  ASSUME Shape, VolumesOK, CopyingOK, RestoringOK, Undisturbed, proof.stage = "roundTrip", RestoresAgain
  PROVE  LET T == stored'["roundTrip"].objects
         IN  /\ OncePerName(T) /\ copying'.op = "restore" /\ AllNoChange'
             /\ logical'.again = T /\ logical'.main = logical.main
             /\ Restorable(logical.main) => SameHashes(logical.main, T)
<1> DEFINE T == Objects("roundTrip")
<1>1. /\ proof.step = "reexporting" /\ copying.op = "export" /\ copying.left = {} /\ UNCHANGED stored
      /\ logical' = [logical EXCEPT !.again = copying.read]
      /\ RestoreStarts("roundTrip", logical.main)
  BY DEF RestoresAgain, At, Exported, Address, Project
<1>2. copying.read = {o \in T : o.group \notin copying.left}
  <2> HIDE DEF T
  <2> QED
    BY <1>1 DEF CopyingOK, T
<1>3. logical.main \in SUBSET Proper /\ T \subseteq Proper /\ logical \in [main : SUBSET Proper, again : SUBSET Proper]
  BY <1>1, PlaceIs, VolumeFields DEF Shape, VolumesOK, Objects, Projects
<1>4. copying.read = T
  BY <1>1, <1>2
<1>5. logical'.again = T /\ logical'.main = logical.main
  BY <1>1, <1>3, <1>4
<1>6. copying'.op = "restore" /\ copying'.actions = {}
  BY <1>1, <1>3, PlaceIs, Started DEF Projects
<1>7. OncePerName(T)
  BY <1>1 DEF RestoringOK
<1>8. Restorable(logical.main) => SameHashes(logical.main, T)
  <2>1. SUFFICES ASSUME Restorable(logical.main) PROVE SameHashes(logical.main, T)
    OBVIOUS
  <2>2. SameContents(logical.main, T)
    BY <1>1, <2>1 DEF RestoringOK
  <2>3. OncePerName(logical.main)
    BY <2>1, RestorableOnce
  <2> QED
    BY <1>3, <1>7, <2>2, <2>3, EqualHashes
<1>9. T = stored'["roundTrip"].objects
  BY <1>1 DEF Objects
<1> HIDE DEF T
<1> QED
  BY <1>5, <1>6, <1>7, <1>8, <1>9 DEF AllNoChange

LEMMA RestoringStep ==
  ASSUME Shape, FlowOK, VolumesOK, CopyingOK, StreamsOK, ExportOK, RestoringOK, Next
  PROVE  RestoringOK'
<1> SUFFICES ASSUME Undisturbed', proof'.stage = "roundTrip" PROVE RestoringOK'
  BY DEF RestoringOK
<1>1. ~Begin
  BY BeginsWith
<1>2. Undisturbed /\ ~Fault
  BY <1>1, StillUndisturbed
<1>3. CASE GoesOn
  BY <1>3 DEF GoesOn, FirstStep, Projects, RestoringOK
<1>4. CASE EndsOrThrows
  <2>1. proof.stage = "roundTrip"
    BY <1>4 DEF EndsOrThrows, Stays
  <2>2. ~Restorable(logical'.main) /\ proof'.step \in {"stop", "ended"}
    BY <1>1, <1>4, <2>1, RoundTripEnds
  <2> QED
    BY <2>2 DEF RestoringOK
<1>5. CASE Stays /\ RoundTripJudged
  <2>1. /\ proof.stage = "roundTrip" /\ proof.step = "again" /\ UNCHANGED logical
        /\ proof.decision = "ACCEPTED"
    BY <1>5 DEF RoundTripJudged, At, FlowOK
  <2>2. /\ proof'.step = "stop"
        /\ proof'.decision = IF SameHashes(logical.main, logical.again) THEN proof.decision ELSE "BLOCKED"
    BY <1>5, JudgedTo DEF Shape
  <2>3. Restorable(logical.main) => proof'.decision = "ACCEPTED"
    BY <1>2, <2>1, <2>2 DEF RestoringOK
  <2> QED
    BY <2>1, <2>2, <2>3 DEF RestoringOK
<1>6. CASE Stays /\ ~RoundTripJudged /\ ~EndsOrThrows /\ ~GoesOn
  <2>1. proof.stage = "roundTrip" /\ proof'.decision = proof.decision
    BY <1>1, <1>6, StageMoves DEF Stays
  <2>2. /\ ~ExportMain /\ ~ClonesVolume /\ ~LooksForMarkers /\ ~Smokes /\ ~FinalLooked
        /\ ~CreatesFixture /\ ~TarsSource
    BY <2>1 DEF ExportMain, ClonesVolume, LooksForMarkers, Smokes, FinalLooked, CreatesFixture,
                TarsSource, At, FlowOK, Chain
  <2>3. CASE UNCHANGED proof /\ MainWorks
    <3>1. stored'["roundTrip"] = stored["roundTrip"] /\ UNCHANGED <<copying, logical>>
      BY <2>3, PlaceIs, MainChanges DEF MainWorks, CompanyWorks, Provisions, Projects
    <3> QED
      BY <1>2, <2>1, <2>3, <3>1 DEF RestoringOK, Objects, AllNoChange
  <2>4. CASE UNCHANGED proof /\ Copies
    <3>1. proof.step \in {"reexporting", "restoring", "again"} /\ proof.decision = "ACCEPTED"
      BY <2>1, <2>4 DEF Copies, FlowOK
    <3> QED
      BY <1>2, <2>1, <2>4, <3>1, RoundTripCopies DEF RestoringOK
  <2>5. CASE Prepare \/ Unpack \/ StartProject
    <3>1. /\ proof.decision = "ACCEPTED" /\ proof'.step \in {"unpack", "start", "use"}
          /\ proof'.step = "unpack" => Prepare
          /\ proof'.step \in {"start", "use"} => Unpack \/ StartProject
      <4>1. proof \in Proofs /\ proof.decision = "ACCEPTED"
        BY <2>5 DEF Prepare, Unpack, StartProject, FlowOK, Shape
      <4>2. Prepare => proof'.step = "unpack"
        BY <4>1, GoesTo DEF Prepare, Steps
      <4>3. Unpack => proof'.step = "start"
        BY <1>2, <4>1, GoesTo DEF Unpack, Steps
      <4>4. StartProject => proof'.step = "use"
        BY <1>2, <4>1, GoesTo DEF StartProject, Steps
      <4> QED
        BY <2>5, <4>1, <4>2, <4>3, <4>4
    <3> QED
      BY <1>2, <2>1, <3>1, RoundTripPrepared DEF RestoringOK
  <2>6. CASE RestoreBegins /\ proof'.step = "restoring"
    <3>1. /\ stored'["roundTrip"].objects = {} /\ logical' = logical /\ copying'.op = "restore"
          /\ copying'.left = logical.main
      BY <1>2, <2>1, <2>6, RoundTripPrepared
    <3>2. proof'.decision = "ACCEPTED"
      BY <2>1, <2>6 DEF RestoreBegins, FlowOK
    <3>3. OncePerName({}) /\ Brought(logical'.main \ copying'.left, {})
      BY <3>1 DEF OncePerName, Brought
    <3> QED
      BY <2>6, <3>1, <3>2, <3>3 DEF RestoringOK, Objects
  <2>7. CASE ReexportBegins /\ proof'.step = "reexporting"
    <3>1. proof'.decision = "ACCEPTED"
      BY <2>1, <2>7 DEF ReexportBegins, FlowOK
    <3> QED
      BY <1>2, <2>1, <2>7, <3>1, RoundTripReexports DEF RestoringOK, Objects
  <2>8. CASE RestoresAgain /\ proof'.step = "again"
    <3>1. proof'.decision = "ACCEPTED"
      BY <2>1, <2>8 DEF RestoresAgain, At, FlowOK
    <3> QED
      BY <1>2, <2>1, <2>8, <3>1, RoundTripAgain DEF RestoringOK, Objects
  <2> QED
    BY <1>1, <1>6, <2>2, <2>3, <2>4, <2>5, <2>6, <2>7, <2>8, StageMoves
<1> QED
  BY <1>1, <1>3, <1>4, <1>5, <1>6, StageMoves

(***************************************************************************)
(* The invariant holds in the beginning and is kept.                       *)
(***************************************************************************)
LEMMA BeforeTheFirst ==
  ASSUME Init
  PROVE  Shape /\ \A p \in Projects : stored[p] = NoVolume
<1> DEFINE lab(objects) == [Empty EXCEPT !.objects = objects]
<1>1. PICK objects \in Sources :
        stored = [p \in Places |-> IF p = "main" THEN lab(objects) ELSE NoVolume]
  BY DEF Init
<1>2. objects \subseteq Proper /\ IsFiniteSet(objects)
  BY RecoveryAssumption
<1>3. lab(objects) = [objects |-> objects, marks |-> {}]
  BY DEF Empty
<1>4. Data(lab(objects)) /\ lab(objects) # NoVolume
  BY <1>2, <1>3, IsVolume
<1> HIDE DEF lab
<1>5. DOMAIN stored = Places /\ \A p \in Places : Data(stored[p])
  BY <1>1, <1>4, Empties
<1>6. \A p \in Projects : stored[p] = NoVolume
  BY <1>1, PlaceIs DEF Projects, Chain
<1>7. proof \in Proofs
  BY StageSet DEF Init, Proofs, Steps
<1>8. CopyShape
  BY PlaceIs DEF Init, NotCopying, CopyShape
<1>9. results \in [ToSet(Stages) -> Findings]
  BY Empties DEF Init
<1>10. logical \in [main : SUBSET Proper, again : SUBSET Proper]
  <2>1. \A S : {} \in SUBSET S
    OBVIOUS
  <2> QED
    BY <2>1 DEF Init
<1>11. DOMAIN archives = {"main", "source"} /\ Data(archives["main"]) /\ Data(archives["source"])
  BY Empties DEF Init
<1>12. up \subseteq Projects /\ clone \in BOOLEAN
  BY Zenon DEF Init
<1>13. faults \in 0..FaultBudget /\ changes \in 0..Changes
  BY RecoveryAssumption DEF Init
<1> QED
  BY <1>5, <1>6, <1>7, <1>8, <1>9, <1>10, <1>11, <1>12, <1>13 DEF Shape

LEMMA RecoveryInit ==
  ASSUME Init
  PROVE  RecoveryInv
<1>1. /\ Shape /\ \A p \in Projects : stored[p] = NoVolume
  BY BeforeTheFirst
<1>2. /\ proof.run = 1 /\ proof.stage = "export" /\ proof.step = "begin" /\ proof.decision = "ACCEPTED"
      /\ proof.since = 0 /\ faults = 0
      /\ archives["main"] = NoVolume /\ archives["source"] = NoVolume
  BY DEF Init
<1>3. \A p \in Projects : ~Later(p)
  BY <1>2, Positions, ProjectPositions DEF Later
<1>4. ~Later("clone") /\ ~Later("export") /\ ~Later("source") /\ ~Later("roundTrip")
  BY <1>2, Positions DEF Later
<1>5. stored["main"] # NoVolume /\ stored["main"].marks = {}
  BY Empties, IsVolume, RecoveryAssumption, PlaceIs DEF Init, Empty
<1>6. FlowOK
  BY <1>2 DEF FlowOK, Projects, Chain, Accepted
<1>7. VolumesOK
  BY <1>2, <1>4, <1>5 DEF VolumesOK, At
<1>8. CopyingOK
  BY <1>2 DEF CopyingOK
<1>9. MarksOK
  <2>1. \A p \in ToSet(Stages) : ~results[p].old
    BY DEF Init, NoResult
  <2>2. \A p \in Places : stored[p] # NoVolume => p = "main"
    BY <1>1, RecoveryAssumption
  <2> QED
    BY <1>2, <1>5, <2>1, <2>2, StageSet DEF MarksOK
<1>10. StreamsOK
  BY <1>1, <1>2 DEF StreamsOK
<1>11. RoundTripOK
  BY <1>1, <1>2, <1>4 DEF RoundTripOK, At, Projects
<1>12. CleanOK
  BY <1>3, <1>4 DEF CleanOK
<1>13. RestoringOK
  BY <1>2 DEF RestoringOK
<1>14. ExportOK
  BY <1>4 DEF ExportOK
<1> QED
  BY <1>1, <1>6, <1>7, <1>8, <1>9, <1>10, <1>11, <1>12, <1>13, <1>14 DEF RecoveryInv

LEMMA RecoveryStutters ==
  ASSUME RecoveryInv, UNCHANGED recoveryVars
  PROVE  RecoveryInv'
<1>1. /\ stored' = stored /\ copying' = copying /\ faults' = faults /\ proof' = proof /\ up' = up
      /\ clone' = clone /\ archives' = archives /\ results' = results /\ logical' = logical
      /\ changes' = changes
  BY DEF recoveryVars
<1>2. Shape'
  BY <1>1 DEF RecoveryInv, Shape, CopyShape
<1>3. FlowOK' /\ VolumesOK'
  BY <1>1 DEF RecoveryInv, FlowOK, VolumesOK, Accepted, EveryStageHolds, Later, At
<1>4. CopyingOK' /\ MarksOK' /\ StreamsOK'
  BY <1>1 DEF RecoveryInv, CopyingOK, MarksOK, StreamsOK, Objects, Undisturbed
<1>5. RoundTripOK' /\ CleanOK' /\ ExportOK'
  BY <1>1 DEF RecoveryInv, RoundTripOK, CleanOK, ExportOK, Objects, Later, At, Undisturbed
<1>6. RestoringOK'
  BY <1>1 DEF RecoveryInv, RestoringOK, Objects, Undisturbed, AllNoChange
<1> QED
  BY <1>2, <1>3, <1>4, <1>5, <1>6 DEF RecoveryInv

(* The inductive invariant, of every reachable state.                      *)
THEOREM RecoveryInvariant == Spec => []RecoveryInv
<1>1. Init => RecoveryInv
  BY RecoveryInit
<1>2. RecoveryInv /\ [Next]_recoveryVars => RecoveryInv'
  <2>1. RecoveryInv /\ Next => RecoveryInv'
    BY ShapeStep, FlowStep, VolumesStep, CopyingStep, MarksStep, StreamsStep, RoundTripStep,
       CleanStep, RestoringStep, ExportStep DEF RecoveryInv
  <2>2. RecoveryInv /\ UNCHANGED recoveryVars => RecoveryInv'
    BY RecoveryStutters
  <2> QED
    BY <2>1, <2>2
<1> QED
  BY <1>1, <1>2, PTL DEF Spec

(***************************************************************************)
(* What the invariant says of an accepted proof.                           *)
(***************************************************************************)
LEMMA SaysHashed ==
  ASSUME NEW A, A \subseteq Proper, NEW B, B \subseteq Proper, SameHashes(A, B)
  PROVE  Says(A) = Says(B)
<1> DEFINE CA == {Content(o) : o \in A}
           CB == {Content(o) : o \in B}
           Of(X, g) == {o \in X : o.group = g}
           Times(X, c) == Cardinality({o \in X : Content(o) = c})
<1>1. CA = CB
  BY HashesContents DEF SameContents
<1>2. ASSUME NEW a \in A
      PROVE  Times(A, Content(a)) = Times(B, Content(a))
  <2> DEFINE g == a.group
             c == Content(a)
             DA == {Content(o) : o \in Of(A, g)}
             DB == {Content(o) : o \in Of(B, g)}
  <2>1. a \in Proper /\ g \in ToSet(Groups)
    BY ObjectFields
  <2>2. GroupHash(A, g) = GroupHash(B, g)
    BY <2>1 DEF SameHashes
  <2>3. /\ GroupHash(A, g) = [d \in DA |-> Times(Of(A, g), d)]
        /\ GroupHash(B, g) = [d \in DB |-> Times(Of(B, g), d)]
    BY DEF GroupHash
  <2>4. c \in DA
    OBVIOUS
  <2>5. \A o \in Proper : Content(o) = c => o.group = g
    BY <2>1, SameContent
  <2>6. /\ {o \in Of(A, g) : Content(o) = c} = {o \in A : Content(o) = c}
        /\ {o \in Of(B, g) : Content(o) = c} = {o \in B : Content(o) = c}
    <3> HIDE DEF g, c
    <3> QED
      BY <2>5
  <2>7. Times(Of(A, g), c) = Times(Of(B, g), c)
    <3>1. DOMAIN GroupHash(A, g) = DA /\ DOMAIN GroupHash(B, g) = DB
      BY <2>3
    <3> HIDE DEF DA, DB, Times, c
    <3> QED
      BY <2>2, <2>3, <2>4, <3>1
  <2> HIDE DEF g, c
  <2> QED
    BY <2>6, <2>7 DEF c
<1>3. \A c \in CA : Times(A, c) = Times(B, c)
  BY <1>2
<1>4. Says(A) = [c \in CA |-> Times(A, c)] /\ Says(B) = [c \in CB |-> Times(B, c)]
  BY DEF Says
<1> HIDE DEF CA, CB, Times
<1> QED
  BY <1>1, <1>3, <1>4

LEMMA SaidContents ==
  ASSUME NEW A, NEW B, Says(A) = Says(B)
  PROVE  SameContents(A, B)
<1>1. DOMAIN Says(A) = {Content(o) : o \in A} /\ DOMAIN Says(B) = {Content(o) : o \in B}
  BY DEF Says
<1> QED
  BY <1>1 DEF SameContents

LEMMA ClosedAlike ==
  ASSUME NEW A, A \subseteq Proper, NEW B, B \subseteq Proper, SameContents(A, B), Closed(B)
  PROVE  Closed(A)
<1>1. ASSUME NEW a \in A, a.group = "alerts", NEW ref \in a.needs
      PROVE  \E p \in A : <<p.group, p.name>> = ref
  <2>1. PICK b \in B : Content(b) = Content(a)
    BY DEF SameContents
  <2>2. b.group = "alerts" /\ ref \in b.needs
    BY <1>1, <2>1, SameContent
  <2>3. PICK q \in B : <<q.group, q.name>> = ref
    BY <2>2 DEF Closed
  <2>4. PICK p \in A : Content(p) = Content(q)
    BY DEF SameContents
  <2> QED
    BY <2>3, <2>4, SameContent
<1> QED
  BY <1>1 DEF Closed

LEMMA AcceptedLater ==
  ASSUME RecoveryInv, Accepted
  PROVE  /\ EveryStageHolds /\ Later("clone") /\ Later("roundTrip")
         /\ \A p \in Projects : Later(p)
<1>1. proof.stage = "judgement" /\ EveryStageHolds
  BY DEF RecoveryInv, FlowOK
<1> QED
  BY <1>1, Positions, ProjectPositions DEF Later

LEMMA SawThisSource ==
  ASSUME RecoveryInv
  PROVE  AcceptedSawThisSource
<1> SUFFICES ASSUME Accepted, NEW p \in Chain \cup {"targetLogicalRestore"}, NEW s \in Streams
             PROVE  \E m \in results[p].marks : m.stream = s /\ m.of = proof.run
  BY DEF AcceptedSawThisSource
<1>1. results[p].old
  BY AcceptedLater DEF EveryStageHolds
<1>2. p \in ToSet(Stages)
  BY StageSet DEF Chain
<1> QED
  BY <1>1, <1>2 DEF RecoveryInv, MarksOK

LEMMA MadeTheRoundTrip ==
  ASSUME RecoveryInv
  PROVE  AcceptedRoundTrip
<1> SUFFICES ASSUME Accepted
             PROVE  Says(logical.main) = Says(logical.again) /\ Closed(logical.main)
  BY DEF AcceptedRoundTrip
<1>1. SameHashes(logical.main, logical.again) /\ Closed(logical.again)
  BY AcceptedLater DEF RecoveryInv, RoundTripOK
<1>2. logical.main \subseteq Proper /\ logical.again \subseteq Proper
  BY DEF RecoveryInv, Shape
<1>3. SameContents(logical.main, logical.again)
  BY <1>1, <1>2, HashesContents
<1>4. Says(logical.main) = Says(logical.again)
  BY <1>1, <1>2, SaysHashed
<1>5. Closed(logical.main)
  BY <1>1, <1>2, <1>3, ClosedAlike
<1> QED
  BY <1>4, <1>5

LEMMA RestoresCompletely ==
  ASSUME RecoveryInv
  PROVE  RestoreComplete
<1>1. RestorableRoundTrips
  BY DEF RecoveryInv, RestoringOK, RestorableRoundTrips
<1>2. SecondRestoreSettles
  BY SaidContents DEF RecoveryInv, RestoringOK, SecondRestoreSettles, At
<1> QED
  BY <1>1, <1>2 DEF RestoreComplete

LEMMA LeavesNothing ==
  ASSUME RecoveryInv
  PROVE  ProofOK
<1>1. ASSUME NEW p \in Places, stored[p] # NoVolume PROVE stored[p].objects \subseteq Object
  <2>1. stored[p].objects \subseteq Proper
    BY <1>1, VolumeFields DEF RecoveryInv, Shape
  <2> QED
    BY <2>1 DEF Proper
<1>2. /\ stored["main"] # NoVolume /\ proof.stage \in ToSet(Stages)
      /\ proof.decision \in {"ACCEPTED", "BLOCKED", "thrown", "killed"}
      /\ copying.op \in {"none", "export", "restore", "thrown"}
      /\ up \subseteq Projects /\ faults \in 0..FaultBudget /\ changes \in 0..Changes
  BY DEF RecoveryInv, Shape, VolumesOK, Proofs, CopyShape
<1>3. AcceptedLeavesNothing
  <2>1. SUFFICES ASSUME Accepted, Undisturbed
                 PROVE  up = {} /\ ~clone /\ \A p \in Projects : stored[p] = NoVolume
    BY DEF AcceptedLeavesNothing
  <2>2. ~clone /\ \A p \in Projects : p \notin up /\ stored[p] = NoVolume
    BY <2>1, AcceptedLater DEF RecoveryInv, CleanOK, Accepted
  <2>3. up = {}
    BY <1>2, <2>2
  <2> QED
    BY <2>2, <2>3
<1> QED
  BY <1>1, <1>2, <1>3 DEF ProofOK, TypeOK

(***************************************************************************)
(* What a step leaves alone.                                               *)
(***************************************************************************)
LEMMA MainLabStep ==
  ASSUME RecoveryInv, Next, stored'["main"] # stored["main"], changes' = changes
  PROVE  /\ At("governance", "begin")
         /\ stored'["main"].marks = stored["main"].marks
         /\ \A o \in Objects("main") :
              \/ o \in stored'["main"].objects
              \/ \E want \in Manifests : IsOf(want, o) /\ \E p \in stored'["main"].objects : Follows(o, p, want)
         /\ \A p \in stored'["main"].objects :
              \/ p \in Objects("main")
              \/ \E want \in Manifests, o \in Objects("main") : IsOf(want, o) /\ Follows(o, p, want)
<1>1. proof.stage # "main" /\ changes \in 0..Changes
  BY StageIsNoMain DEF RecoveryInv, Shape
<1>2. MainWorks
  BY <1>1, Elsewhere, PlaceIs DEF RecoveryInv
<1>3. Provisions
  BY <1>1, <1>2, RecoveryAssumption DEF MainWorks, CompanyWorks
<1>4. PICK want \in Manifests, have \in Objects("main"), now \in Proper :
        /\ IsOf(want, have) /\ Follows(have, now, want)
        /\ stored' = [stored EXCEPT !["main"].objects = (@ \ {have}) \cup {now}]
  BY <1>3, ProvisionsOne DEF RecoveryInv
<1>5. /\ "main" \in Places /\ StoredShape
      /\ stored["main"] = [objects |-> stored["main"].objects, marks |-> stored["main"].marks]
  BY MainIs DEF RecoveryInv
<1>6. stored'["main"].objects = (Objects("main") \ {have}) \cup {now}
  BY <1>4, <1>5 DEF StoredShape, Objects
<1>7. stored'["main"].marks = stored["main"].marks
  BY <1>2, MainChanges DEF RecoveryInv
<1> QED
  BY <1>3, <1>4, <1>6, <1>7 DEF Provisions

LEMMA RestoreKeeps ==
  ASSUME RecoveryInv, Next, Copying("restore"), copying' # copying, proof' = proof
  PROVE  \A o \in Objects(copying.place) :
           \/ o \in stored'[copying.place].objects
           \/ o.group = "streams" /\ \E p \in stored'[copying.place].objects :
                <<p.group, p.name>> = <<o.group, o.name>> /\ o.body \cap Additive \subseteq p.body
<1>1. proof \in Proofs /\ copying.op = "restore"
  BY DEF RecoveryInv, Shape, Copying
<1>2. ~Begin
  BY <1>1, BeginsWith DEF RecoveryInv, Proofs
<1>3. ~ExportMain /\ ~RestoreBegins /\ ~ReexportBegins /\ ~RestoresAgain
  BY <1>1, GoesTo DEF Steps, ExportMain, RestoreBegins, Restores, ReexportBegins, RestoresAgain, At
<1>4. Copies
  BY <1>2, <1>3
   DEF Next, MainExported, ClonesVolume, TarsClone, Prepare, Unpack, StartProject, StopProject,
       UseFails, RestoreThrows, RoundTripJudged, LooksForMarkers, Smokes, FinalLooked,
       CreatesFixture, TarsSource, Governs, Judges, Killed, MainWorks, CompanyWorks, Provisions
<1>5. RestoreReady /\ \E o \in copying.left : Handles(o)
  BY <1>1, <1>4, CopyingRestores DEF RecoveryInv
<1> QED
  BY <1>5, HandlesStored, EffectKeeps DEF There

(***************************************************************************)
(* The theorems.                                                           *)
(***************************************************************************)

(* An accepted proof saw the two records of its own source in every        *)
(* project of the chain and under the last restore: no leftover of an      *)
(* earlier proof, and no archive that lacks records, is taken for it.      *)
THEOREM AcceptedProofSawItsSource == Spec => []AcceptedSawThisSource
<1>1. RecoveryInv => AcceptedSawThisSource
  BY SawThisSource
<1> QED
  BY <1>1, RecoveryInvariant, PTL

(* The export of an accepted proof is complete in itself, although its     *)
(* groups are read while the company works, and says exactly what the      *)
(* project says that it was restored to.                                   *)
THEOREM AcceptedExportRoundTrips == Spec => []AcceptedRoundTrip
<1>1. RecoveryInv => AcceptedRoundTrip
  BY MadeTheRoundTrip
<1> QED
  BY <1>1, RecoveryInvariant, PTL

(* Undisturbed, the round trip only fails for what cannot be restored, and *)
(* where the contents agree the second restore changes nothing.            *)
THEOREM RestoreIsComplete == Spec => []RestoreComplete
<1>1. RecoveryInv => RestoreComplete
  BY RestoresCompletely
<1> QED
  BY <1>1, RecoveryInvariant, PTL

(* The state is well typed, and an accepted proof none of whose commands   *)
(* failed leaves no containers and no volume, not even of earlier proofs.  *)
THEOREM AcceptedCleansUp == Spec => []ProofOK
<1>1. RecoveryInv => ProofOK
  BY LeavesNothing
<1> QED
  BY <1>1, RecoveryInvariant, PTL

(* Of the main lab the steps of the proof change only the settings of      *)
(* canonical streams, the way lab:streams:provision may; and no step of a  *)
(* restore removes or rewrites what the project has.                       *)
THEOREM NothingElseIsTouched == Spec => NothingElseTouched
<1>1. RecoveryInv /\ [Next]_recoveryVars
        => [stored["main"]' # stored["main"] /\ changes' = changes =>
              /\ At("governance", "begin")
              /\ stored'["main"].marks = stored["main"].marks
              /\ \A o \in Objects("main") :
                   \/ o \in stored'["main"].objects
                   \/ \E want \in Manifests :
                        IsOf(want, o) /\ \E p \in stored'["main"].objects : Follows(o, p, want)
              /\ \A p \in stored'["main"].objects :
                   \/ p \in Objects("main")
                   \/ \E want \in Manifests, o \in Objects("main") :
                        IsOf(want, o) /\ Follows(o, p, want)]_recoveryVars
  BY MainLabStep
<1>2. RecoveryInv /\ [Next]_recoveryVars
        => [Copying("restore") /\ copying' # copying /\ proof' = proof =>
              \A o \in Objects(copying.place) :
                \/ o \in stored'[copying.place].objects
                \/ o.group = "streams" /\ \E p \in stored'[copying.place].objects :
                     <<p.group, p.name>> = <<o.group, o.name>>
                       /\ o.body \cap Additive \subseteq p.body]_recoveryVars
  BY RestoreKeeps
<1>3. Spec => MainLabKept
  BY <1>1, RecoveryInvariant, PTL DEF Spec, MainLabKept
<1>4. Spec => RestoreKeepsWhatIsThere
  BY <1>2, RecoveryInvariant, PTL DEF Spec, RestoreKeepsWhatIsThere
<1> QED
  BY <1>3, <1>4 DEF NothingElseTouched
=============================================================================
