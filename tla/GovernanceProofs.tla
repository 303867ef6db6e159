--------------------------- MODULE GovernanceProofs ---------------------------
(***************************************************************************)
(* What the commands around the pipeline keep, for any number of faults,   *)
(* of changes by others and of runs.  A behaviour of Governance looks at   *)
(* one component while the others stand still; each invariant is therefore *)
(* proved of the steps of its component alone.                             *)
(***************************************************************************)
EXTENDS Governance, FiniteSetTheorems, TLAPS

(***************************************************************************)
(* The starters, for every manifest, every set of identifiers and every    *)
(* number of commands and of changes by the company: one copy of each, no  *)
(* deletion that nobody made, and the company's own work left alone.       *)
(***************************************************************************)

(* What is left of a list of different elements.                           *)
LEMMA SuffixFacts ==
  ASSUME NEW S, NEW list \in Seq(S), IsInjective(list),
         NEW ahead \in {SubSeq(list, n, Len(list)) : n \in 1..(Len(list) + 1)}, ahead # <<>>
  PROVE  /\ Head(ahead) \in S
         /\ Tail(ahead) \in {SubSeq(list, n, Len(list)) : n \in 1..(Len(list) + 1)}
         /\ Len(ahead) = 1 <=> Tail(ahead) = <<>>
         /\ ToSet(ahead) = {Head(ahead)} \cup ToSet(Tail(ahead))
         /\ Head(ahead) \notin ToSet(Tail(ahead)) /\ ToSet(ahead) \subseteq S
<1>1. list \in Seq(S) /\ Len(list) \in Nat /\ DOMAIN list = 1..Len(list)
  OBVIOUS
<1>2. PICK n \in 1..(Len(list) + 1) : ahead = SubSeq(list, n, Len(list))
  OBVIOUS
<1>3. n <= Len(list) /\ n \in Nat /\ n >= 1 /\ n + 1 \in 1..(Len(list) + 1)
  BY <1>1, <1>2
<1>4. /\ ahead \in Seq(S) /\ Len(ahead) = Len(list) - n + 1
      /\ \A i \in 1..Len(ahead) : ahead[i] = list[n + i - 1]
  BY <1>1, <1>2, <1>3
<1>5. Tail(ahead) = SubSeq(list, n + 1, Len(list))
  BY <1>1, <1>2, <1>3
<1>6. Tail(ahead) \in {SubSeq(list, k, Len(list)) : k \in 1..(Len(list) + 1)}
  BY <1>3, <1>5
<1>7. /\ Tail(ahead) \in Seq(S) /\ Len(Tail(ahead)) = Len(ahead) - 1
      /\ \A i \in 1..Len(Tail(ahead)) : Tail(ahead)[i] = ahead[i + 1]
      /\ Head(ahead) = ahead[1] /\ ahead[1] \in S
  BY <1>3, <1>4
<1>8. Len(ahead) = 1 <=> Tail(ahead) = <<>>
  <2>1. \A s \in Seq(S) : s = <<>> <=> Len(s) = 0
    OBVIOUS
  <2>2. Len(ahead) \in Nat
    BY <1>4
  <2>3. Tail(ahead) \in Seq(S) /\ Len(Tail(ahead)) = Len(ahead) - 1
    BY <1>7
  <2>4. Tail(ahead) = <<>> <=> Len(Tail(ahead)) = 0
    BY <2>1, <2>3
  <2> QED
    BY <2>2, <2>3, <2>4
<1>9. ToSet(ahead) = {Head(ahead)} \cup ToSet(Tail(ahead))
  <2>1. DOMAIN ahead = 1..Len(ahead) /\ DOMAIN Tail(ahead) = 1..Len(Tail(ahead))
    BY <1>4, <1>7
  <2>2. \A i \in DOMAIN ahead :
          i = 1 \/ (i - 1 \in DOMAIN Tail(ahead) /\ ahead[i] = Tail(ahead)[i - 1])
    <3> TAKE i \in DOMAIN ahead
    <3>1. i \in Nat /\ i >= 1 /\ i <= Len(ahead) /\ Len(ahead) \in Nat
      BY <1>4, <2>1
    <3>2. i = 1 \/ (i - 1 \in 1..Len(Tail(ahead)) /\ i - 1 + 1 = i)
      BY <1>7, <3>1
    <3> QED
      BY <1>7, <2>1, <3>2
  <2>3. 1 \in DOMAIN ahead /\ \A i \in DOMAIN Tail(ahead) : i + 1 \in DOMAIN ahead
    BY <1>3, <1>4, <1>7, <2>1
  <2> QED
    <3>1. ASSUME NEW i \in DOMAIN ahead
          PROVE  ahead[i] \in {Head(ahead)} \cup ToSet(Tail(ahead))
      <4>1. CASE i = 1
        BY <1>7, <4>1
      <4>2. CASE i - 1 \in DOMAIN Tail(ahead) /\ ahead[i] = Tail(ahead)[i - 1]
        BY <4>2 DEF ToSet
      <4> QED
        BY <2>2, <4>1, <4>2
    <3>2. \A i \in DOMAIN Tail(ahead) : Tail(ahead)[i] \in ToSet(ahead)
      BY <1>7, <2>1, <2>3 DEF ToSet
    <3>3. Head(ahead) \in ToSet(ahead)
      BY <1>7, <2>3 DEF ToSet
    <3>4. \A x \in ToSet(Tail(ahead)) : x \in ToSet(ahead)
      BY <3>2 DEF ToSet
    <3>5. \A x \in ToSet(ahead) : x \in {Head(ahead)} \cup ToSet(Tail(ahead))
      BY <3>1 DEF ToSet
    <3> QED
      BY <3>3, <3>4, <3>5
<1>10. Head(ahead) \notin ToSet(Tail(ahead))
  <2> SUFFICES ASSUME NEW i \in 1..Len(Tail(ahead)), Tail(ahead)[i] = Head(ahead)
               PROVE  FALSE
    BY <1>7 DEF ToSet
  <2>1. list[n] = list[n + i] /\ n \in DOMAIN list /\ n + i \in DOMAIN list
    BY <1>1, <1>3, <1>4, <1>7
  <2>2. n = n + i
    BY <2>1 DEF IsInjective
  <2>3. i \in Nat /\ i >= 1
    BY <1>7
  <2> QED
    BY <1>3, <2>2, <2>3
<1>11. ToSet(ahead) \subseteq S
  BY <1>4 DEF ToSet
<1> QED
  BY <1>6, <1>7, <1>8, <1>9, <1>10, <1>11

LEMMA OrderFacts ==
  ASSUME NEW ahead \in OrderRests, ahead # <<>>
  PROVE  /\ Head(ahead) \in Starter /\ Tail(ahead) \in OrderRests
         /\ Len(ahead) = 1 <=> Tail(ahead) = <<>>
         /\ ToSet(ahead) = {Head(ahead)} \cup ToSet(Tail(ahead))
         /\ Head(ahead) \notin ToSet(Tail(ahead)) /\ ToSet(ahead) \subseteq Starter
<1>1. Order \in Seq(Starter) /\ IsInjective(Order)
  BY OrderAssumption DEF IsInjective
<1> QED
  BY <1>1, SuffixFacts DEF OrderRests

LEMMA OrderStart ==
  Order \in OrderRests /\ <<>> \in OrderRests /\ Order # <<>> /\ ToSet(<<>>) = {}
    /\ ToSet(Order) = Starter
<1>1. Order \in Seq(Starter) /\ Len(Order) \in Nat /\ Order # <<>>
  BY OrderAssumption
<1>2. Order = SubSeq(Order, 1, Len(Order)) /\ <<>> = SubSeq(Order, Len(Order) + 1, Len(Order))
  BY <1>1
<1>3. 1 \in 1..(Len(Order) + 1) /\ Len(Order) + 1 \in 1..(Len(Order) + 1)
  BY <1>1
<1>4. ToSet(<<>>) = {}
  BY DEF ToSet
<1>5. ToSet(Order) = Starter
  BY DEF ToSet, Starter
<1> QED
  BY <1>1, <1>2, <1>3, <1>4, <1>5 DEF OrderRests

(* A write at one identifier changes whose copied there are at that one.   *)
LEMMA ManagedFacts ==
  ASSUME NEW objects \in [Id -> Object \cup {Absent}], NEW i \in Id, NEW o \in Object \cup {Absent}
  PROVE  \A s : /\ (o = Absent \/ o.marker # s)
                     => Managed([objects EXCEPT ![i] = o], s) = Managed(objects, s) \ {i}
                /\ (o # Absent /\ o.marker = s)
                     => Managed([objects EXCEPT ![i] = o], s) = Managed(objects, s) \cup {i}
BY DEF Managed

LEMMA SingleFacts ==
  ASSUME NEW ids, Single(ids)
  PROVE  Cardinality(ids) <= 1
<1>1. ids = {} \/ \E i : ids = {i}
  BY DEF Single
<1>2. ids = {} => Cardinality(ids) = 0
  BY FS_EmptySet
<1>3. \A i : ids = {i} => Cardinality(ids) = 1
  BY FS_Singleton
<1>4. Cardinality(ids) = 0 \/ Cardinality(ids) = 1
  BY <1>1, <1>2, <1>3, Zenon
<1> QED
  BY <1>4

LEMMA EmptyManaged == \A s : Managed(NoListing, s) = {}
BY DEF Managed, NoListing

(* Whoever works while the commands wait adds no copy of a starter, and    *)
(* what it removes is remembered.                                          *)
LEMMA OthersKeep ==
  ASSUME StarterInv, StarterShape', ScriptOK',
         UNCHANGED <<kind, cmd, outcome, stranded, copied>>,
         recorded' \subseteq recorded,
         \A s \in Starter :
           /\ Managed(store', s) \subseteq Managed(store, s)
           /\ Managed(store, s) # {} /\ Managed(store', s) = {} => removed'[s] # "no"
           /\ removed[s] # "no" => removed'[s] # "no"
           /\ removed'[s] = "recorded" => s \in recorded',
         \A i \in Id : store'[i] # Absent /\ cmd.seen[i] # Absent
                         => store[i] # Absent /\ store'[i].marker = store[i].marker
  PROVE  StarterInv'
<1>1. First' = First
  BY DEF First
<1>2. cmd.phase \in {"install", "restore"} /\ cmd.step # "done" =>
        First \in Starter /\ ToSet(cmd.todo) \subseteq Starter /\ ToSet(Tail(cmd.todo)) \subseteq Starter
  <2>1. cmd.phase \in {"install", "restore"} /\ cmd.step # "done" => cmd.todo \in OrderRests /\ cmd.todo # <<>>
    BY DEF StarterInv, StarterShape, CmdShape
  <2> QED
    BY <2>1, OrderFacts DEF First
<1>3. \A s \in Starter : Explained(s) => (Explained(s))'
  BY DEF Explained
<1>4. \A s \in Starter : Follows(s) => (Follows(s))'
  BY DEF Follows, Explained
<1>5. SameMarkers'
  BY DEF StarterInv, SameMarkers
<1>6. InstallOK'
  <2>1. cmd.phase = "install" /\ cmd.step = "done" => ToSet(cmd.todo) = {}
    BY OrderStart DEF StarterInv, StarterShape, CmdShape
  <2> QED
    BY <1>1, <1>2, <1>4, <2>1 DEF StarterInv, InstallOK
<1>7. RestoreOK'
  <2>1. cmd.step \in {"delete", "sweep"} => cmd.phase = "restore"
    BY DEF StarterInv, StarterShape, CmdShape
  <2> QED
    BY <1>1, <1>2, <2>1 DEF StarterInv, RestoreOK
<1>8. HistoryOK'
  <2>1. (~ copied => \A s \in Starter : Single(Managed(store, s)))'
    BY DEF StarterInv, HistoryOK, Single
  <2>2. AbsenceExplained'
    BY DEF StarterInv, StarterShape, StarterTypeOK, HistoryOK, AbsenceExplained
  <2>3. (cmd.step = "created" /\ Managed(store, First) = {} => Explained(First))'
    <3>1. cmd.step = "created" => cmd.phase \in {"install", "restore"}
      BY DEF StarterInv, StarterShape, CmdShape
    <3> QED
      BY <1>1, <1>2, <3>1 DEF StarterInv, HistoryOK, Explained
  <2> QED
    BY <2>1, <2>2, <2>3 DEF HistoryOK
<1> QED
  BY <1>5, <1>6, <1>7, <1>8 DEF StarterInv

(* What was installed counts as installed while its copies stay, whatever  *)
(* else comes into the folder.                                             *)
LEMMA InstalledStays ==
  ASSUME NEW s, InstalledOrDeleted(s), removed[s] # "no" => removed'[s] # "no",
         \A i \in Managed(store, s) : i \in Managed(store', s) /\ store'[i].current = store[i].current,
         ~ copied' => ~ copied
  PROVE  (InstalledOrDeleted(s))'
BY DEF InstalledOrDeleted, InRelease

(* A starter is done with and the loop goes on with the next one.          *)
LEMMA NextKeeps ==
  ASSUME StarterInv, cmd.phase \in {"install", "restore"},
         cmd.step \in {"decide", "delete", "create", "created"},
         NEW answer \in {"NO_CHANGE", "SKIP_VERSION", "SKIP_DELETED", "SKIP_COLLISION", "FAILED", "CREATED", "MISREAD"},
         GoesOn(answer), UNCHANGED <<work, store, history>>,
         recorded \subseteq recorded', recorded' \subseteq recorded \cup {First},
         First \in recorded' /\ Managed(store, First) = {} => Explained(First),
         script.at = 7 /\ kind = "dashboards" /\ answer = "CREATED"
           => First \in recorded' /\ InstalledOrDeleted(First)
  PROVE  StarterInv'
<1> DEFINE rest == Tail(cmd.todo)
           seen == IF kind = "dashboards" \/ Len(cmd.todo) = 1 THEN NoListing ELSE cmd.seen
           step == IF Len(cmd.todo) = 1 THEN "done" ELSE Entry
           here == First
<1>1. /\ cmd.todo \in OrderRests /\ cmd.todo # <<>>
      /\ kind \in {"dashboards", "alerts"}
  BY DEF StarterInv, StarterShape, CmdShape, StarterTypeOK
<1>2. /\ here \in Starter /\ rest \in OrderRests /\ (step = "done" <=> rest = <<>>)
      /\ ToSet(cmd.todo) = {here} \cup ToSet(rest) /\ here \notin ToSet(rest)
      /\ ToSet(rest) \subseteq Starter
  <2>1. Len(cmd.todo) = 1 <=> Tail(cmd.todo) = <<>>
    BY <1>1, OrderFacts
  <2>2. Entry # "done"
    BY <1>1 DEF Entry
  <2>3. step = "done" <=> rest = <<>>
    BY <2>1, <2>2
  <2> QED
    BY <1>1, <2>3, OrderFacts DEF First
<1>3. \/ step = "done" /\ seen = NoListing
      \/ step = "list" /\ kind = "dashboards" /\ seen = NoListing
      \/ step = "decide" /\ kind = "alerts" /\ cmd.phase = "install" /\ seen = cmd.seen
      \/ step = "create" /\ kind = "alerts" /\ cmd.phase = "restore" /\ seen = cmd.seen
  BY <1>1 DEF Entry
<1>4. cmd' = [phase |-> cmd.phase, step |-> step, todo |-> rest, record |-> cmd.record,
              then |-> cmd.then, seen |-> seen, overwrite |-> cmd.overwrite,
              titles |-> cmd.titles, read |-> Absent]
  BY DEF GoesOn, NextTodo, StarterInv, StarterShape, CmdShape
<1>5. /\ outcome' = [outcome EXCEPT ![here] = answer]
      /\ UNCHANGED <<kind, edits, runs, script, store, removed, stranded, copied>>
  BY DEF GoesOn, work, history
<1> HIDE DEF rest, seen, step, here
<1>6. seen \in [Id -> Object \cup {Absent}]
  BY <1>3 DEF NoListing, StarterInv, StarterShape, CmdShape
<1>7. CmdShape'
  <2>1. cmd.then => kind = "alerts" /\ cmd.phase = "install"
    BY DEF StarterInv, StarterShape, CmdShape
  <2> QED
    BY <1>2, <1>3, <1>4, <1>5, <1>6, <2>1 DEF CmdShape
<1>8. \A s \in Starter : outcome'[s] = IF s = here THEN answer ELSE outcome[s]
  BY <1>2, <1>5 DEF StarterInv, StarterShape, StarterTypeOK
<1>9. StarterShape'
  <2>1. ScriptShape' /\ edits' \in Nat /\ runs' \in Nat
    BY <1>5 DEF StarterInv, StarterShape, ScriptShape
  <2>2. recorded' \subseteq Starter
    BY <1>2 DEF StarterInv, StarterShape, StarterTypeOK, here
  <2>3. outcome' \in [Starter -> {"none", "NO_CHANGE", "SKIP_VERSION", "SKIP_DELETED",
                                  "SKIP_COLLISION", "FAILED", "CREATED", "MISREAD"}]
    BY <1>5 DEF StarterInv, StarterShape, StarterTypeOK
  <2>4. cmd'.step \in {"done", "list", "decide", "create"} /\ cmd'.phase = cmd.phase /\ cmd'.seen = seen
    BY <1>3, <1>4
  <2>5. StarterTypeOK'
    BY <1>5, <1>6, <2>2, <2>3, <2>4 DEF StarterInv, StarterShape, StarterTypeOK
  <2> QED
    BY <1>7, <2>1, <2>5 DEF StarterShape
<1>10. \A s : Managed(store', s) = Managed(store, s)
  BY <1>5
<1>11. SameMarkers'
  <2>1. \A i \in Id : seen[i] # Absent => seen[i] = cmd.seen[i]
    BY <1>3 DEF NoListing
  <2> QED
    BY <1>4, <1>5, <2>1 DEF StarterInv, SameMarkers
<1>12. InstallOK'
  <2> SUFFICES ASSUME cmd.phase = "install"
               PROVE  /\ cmd'.step = "decide" => \A s \in ToSet(rest) : (Follows(s))'
                      /\ \A s \in ToSet(rest) : s \in recorded' => s \in cmd.record
    BY <1>3, <1>4 DEF InstallOK
  <2>1. \A s \in ToSet(rest) : s \in recorded' => s \in cmd.record
    BY <1>2 DEF StarterInv, InstallOK, here
  <2>2. CASE cmd'.step = "decide"
    <3>1. kind = "alerts" /\ seen = cmd.seen /\ cmd.step \in {"decide", "create", "created"}
      <4>1. kind = "alerts" /\ seen = cmd.seen
        BY <1>3, <1>4, <2>2
      <4>2. cmd.step # "delete"
        BY <4>1 DEF StarterInv, StarterShape, CmdShape
      <4> QED
        BY <4>1, <4>2
    <3>2. \A s \in ToSet(rest) : Follows(s)
      BY <1>2, <3>1 DEF StarterInv, InstallOK, rest
    <3> QED
      BY <1>4, <1>5, <2>1, <3>1, <3>2 DEF Follows, Explained
  <2> QED
    BY <2>1, <2>2
<1>13. RestoreOK'
  <2>1. cmd'.step \notin {"delete", "sweep", "created"} /\ cmd'.phase = cmd.phase /\ cmd'.todo = rest
    BY <1>3, <1>4
  <2>2. SUFFICES ASSUME cmd.phase = "restore", ~ copied, cmd'.step = "create"
                 PROVE  /\ Managed(store, First') = {}
                        /\ \A s \in ToSet(Tail(rest)) : Managed(store, s) = {}
    BY <1>5, <1>10, <2>1 DEF RestoreOK
  <2>3. /\ kind = "alerts" /\ rest # <<>> /\ cmd.step \in {"create", "created"}
    <3>1. kind = "alerts" /\ rest # <<>>
      BY <1>2, <1>3, <1>4, <2>2
    <3>2. cmd.step \notin {"delete", "decide"}
      BY <2>2, <3>1 DEF StarterInv, StarterShape, CmdShape
    <3> QED
      BY <3>1, <3>2
  <2>4. \A s \in ToSet(rest) : Managed(store, s) = {}
    BY <2>2, <2>3 DEF StarterInv, RestoreOK, rest
  <2>5. First' = Head(rest) /\ Head(rest) \in ToSet(rest) /\ ToSet(Tail(rest)) \subseteq ToSet(rest)
    BY <1>2, <1>4, <2>3, OrderFacts DEF First
  <2> QED
    BY <2>4, <2>5
<1>14. HistoryOK'
  <2>1. cmd'.step # "created"
    BY <1>3, <1>4
  <2> QED
    BY <1>5, <1>10, <2>1 DEF StarterInv, HistoryOK, AbsenceExplained, Explained, here
<1>15. ScriptOK'
  <2>1. cmd'.phase = cmd.phase /\ cmd'.step # "created" /\ cmd'.todo = rest
    BY <1>3, <1>4
  <2>2. \A s : (InstalledOrDeleted(s))' <=> InstalledOrDeleted(s)
    BY <1>5 DEF InstalledOrDeleted, InRelease, Managed
  <2>3. ASSUME script.at = 7, kind = "dashboards"
        PROVE  /\ \A s \in Starter : outcome'[s] = "CREATED" => s \in recorded' /\ InstalledOrDeleted(s)
               /\ cmd.phase = "restore" => \A s \in ToSet(rest) : outcome'[s] = "none"
    BY <1>2, <1>8, <2>3 DEF StarterInv, ScriptOK, here
  <2> QED
    BY <1>5, <2>1, <2>2, <2>3 DEF StarterInv, ScriptOK
<1> QED
  BY <1>9, <1>11, <1>12, <1>13, <1>14, <1>15 DEF StarterInv

(* A command is at another of its steps, with the store as it was.         *)
LEMMA MoveShape ==
  ASSUME StarterInv, CmdShape', ScriptShape', edits' \in Nat, runs' \in Nat,
         UNCHANGED <<kind, store, recorded, history>>,
         cmd'.step \in {"idle", "list", "decide", "create", "created", "delete", "sweep",
                        "candidate", "put", "done"},
         outcome' = outcome \/ outcome' = [s \in Starter |-> "none"]
  PROVE  StarterShape'
<1>1. outcome' \in [Starter -> {"none", "NO_CHANGE", "SKIP_VERSION", "SKIP_DELETED",
                                "SKIP_COLLISION", "FAILED", "CREATED", "MISREAD"}]
  BY DEF StarterInv, StarterShape, StarterTypeOK
<1>2. cmd'.phase \in {"none", "install", "restore", "import"} /\ cmd'.seen \in [Id -> Object \cup {Absent}]
  BY DEF CmdShape
<1>3. script'.at \in {0} \cup 2..9 /\ script'.verdict \in {"none", "passed", "failed", "thrown"}
  BY DEF ScriptShape
<1>4. StarterTypeOK'
  BY <1>1, <1>2, <1>3 DEF StarterInv, StarterShape, StarterTypeOK, history
<1> QED
  BY <1>4 DEF StarterShape

LEMMA MoveHistory ==
  ASSUME StarterInv, UNCHANGED <<store, recorded, history>>, cmd'.step # "created"
  PROVE  HistoryOK'
<1>1. \A s : Managed(store', s) = Managed(store, s)
  BY DEF Managed
<1> QED
  BY <1>1 DEF StarterInv, HistoryOK, AbsenceExplained, Explained, history

LEMMA ListingType == NoListing \in [Id -> Object \cup {Absent}]
BY DEF NoListing

LEMMA ReturnsKeeps == StarterInv /\ Returns => StarterInv'
<1> SUFFICES ASSUME StarterInv, Returns PROVE StarterInv'
  OBVIOUS
<1>1. UNCHANGED <<kind, edits, runs, script, store, recorded, outcome, history>> /\ cmd.step = "done"
  BY DEF Returns, work
<1>2. ScriptShape' /\ edits' \in Nat /\ runs' \in Nat
  BY <1>1 DEF StarterInv, StarterShape, ScriptShape
<1>3. \A s : Managed(store', s) = Managed(store, s)
  BY <1>1
<1>4. CASE ~ cmd.then
  <2>1. cmd' = [phase |-> "none", step |-> "idle", todo |-> <<>>, record |-> {},
                then |-> FALSE, seen |-> NoListing, overwrite |-> FALSE, titles |-> {},
                read |-> Absent]
    BY <1>4 DEF Returns, NoCommand
  <2>2. CmdShape'
    BY <2>1, ListingType DEF CmdShape
  <2>3. StarterShape'
    BY <1>1, <1>2, <2>1, <2>2, MoveShape
  <2>4. HistoryOK'
    BY <1>1, <2>1, MoveHistory
  <2>5. SameMarkers' /\ InstallOK' /\ RestoreOK'
    BY <2>1 DEF SameMarkers, InstallOK, RestoreOK
  <2>6. ScriptOK'
    BY <1>1, <2>1 DEF StarterInv, ScriptOK, InstalledOrDeleted, InRelease, Managed, history
  <2> QED
    BY <2>3, <2>4, <2>5, <2>6 DEF StarterInv
<1>5. CASE cmd.then
  <2>1. cmd' = [phase |-> "restore", step |-> "list", todo |-> Order, record |-> {},
                then |-> FALSE, seen |-> NoListing, overwrite |-> FALSE, titles |-> {},
                read |-> Absent]
    BY <1>5 DEF Returns, NoCommand
  <2>2. kind = "alerts"
    BY <1>5 DEF StarterInv, StarterShape, CmdShape
  <2>3. CmdShape'
    BY <1>1, <2>1, <2>2, ListingType, OrderStart DEF CmdShape
  <2>4. StarterShape'
    BY <1>1, <1>2, <2>1, <2>3, MoveShape
  <2>5. HistoryOK'
    BY <1>1, <2>1, MoveHistory
  <2>6. SameMarkers' /\ InstallOK'
    BY <1>1, <2>1 DEF SameMarkers, InstallOK, NoListing
  <2>7. RestoreOK'
    BY <1>1, <2>1 DEF RestoreOK
  <2>8. ScriptOK'
    BY <1>1, <2>1, <2>2 DEF StarterInv, ScriptOK
  <2> QED
    BY <2>4, <2>5, <2>6, <2>7, <2>8 DEF StarterInv
<1> QED
  BY <1>4, <1>5

(* A listing is either what the folder holds, or empty and remembered as a *)
(* cause of second copies.                                                 *)
LEMMA ListKeeps == StarterInv /\ List => StarterInv'
<1> SUFFICES ASSUME StarterInv, List PROVE StarterInv'
  OBVIOUS
<1>1. /\ UNCHANGED <<kind, edits, runs, script, store, recorded, outcome, removed, stranded>>
      /\ cmd.step = "list" /\ cmd.phase \in {"install", "restore", "import"}
      /\ cmd.phase # "import" => cmd.todo \in OrderRests /\ cmd.todo # <<>>
      /\ kind \in {"dashboards", "alerts"} /\ store \in [Id -> Object \cup {Absent}]
  BY DEF List, work, StarterInv, StarterShape, StarterTypeOK, CmdShape
<1>2. PICK seen \in {store, NoListing} :
        /\ cmd' = [cmd EXCEPT !.seen = seen, !.step = AfterListing]
        /\ copied' = (copied \/ (seen # store /\ MarkedObjects # {}))
  BY DEF List
<1>3. PICK step \in {"decide", "candidate", "delete", "sweep"} :
        /\ step = AfterListing
        /\ step = "decide" <=> cmd.phase = "install"
        /\ step = "candidate" <=> cmd.phase = "import"
        /\ step = "delete" <=> cmd.phase = "restore" /\ kind = "dashboards"
        /\ step = "sweep" <=> cmd.phase = "restore" /\ kind = "alerts"
  BY <1>1 DEF AfterListing
<1>4. cmd' = [phase |-> cmd.phase, step |-> step, todo |-> cmd.todo, record |-> cmd.record,
              then |-> cmd.then, seen |-> seen, overwrite |-> cmd.overwrite,
              titles |-> cmd.titles, read |-> cmd.read]
  BY <1>2, <1>3 DEF StarterInv, StarterShape, CmdShape
<1>5. /\ seen \in [Id -> Object \cup {Absent}]
      /\ \A i \in Id : seen[i] # Absent => seen[i] = store[i]
  BY <1>1, <1>2, ListingType DEF NoListing
<1>6. copied' \in BOOLEAN /\ (~ copied' => ~ copied)
      /\ (~ copied' => \A s \in Starter : Managed(store, s) \subseteq Managed(seen, s))
  <2>1. copied' \in BOOLEAN /\ (~ copied' => ~ copied) /\ (~ copied' => seen = store \/ MarkedObjects = {})
    BY <1>2, Zenon
  <2>2. MarkedObjects = {} => \A s \in Starter : Managed(store, s) = {}
    BY OrderAssumption DEF MarkedObjects, Managed
  <2> QED
    BY <2>1, <2>2
<1>7. \A s : /\ Managed(store', s) = Managed(store, s)
             /\ Managed(seen, s) \subseteq Managed(store, s)
  BY <1>1, <1>5 DEF Managed
<1>8. ScriptShape' /\ edits' \in Nat /\ runs' \in Nat
  BY <1>1 DEF StarterInv, StarterShape, ScriptShape
<1>9. CmdShape'
  <2>1. cmd.then => kind = "alerts" /\ cmd.phase = "install"
    BY DEF StarterInv, StarterShape, CmdShape
  <2>2. cmd.phase = "import" => cmd.todo \in Seq(File) /\ cmd.todo # <<>>
    BY DEF StarterInv, StarterShape, CmdShape
  <2> QED
    BY <1>1, <1>3, <1>4, <1>5, <2>1, <2>2 DEF CmdShape
<1>10. StarterShape'
  <2>1. cmd'.phase = cmd.phase /\ cmd'.step = step /\ cmd'.seen = seen
    BY <1>4
  <2>2. StarterTypeOK'
    BY <1>1, <1>3, <1>5, <1>6, <2>1 DEF StarterInv, StarterShape, StarterTypeOK
  <2> QED
    BY <1>8, <1>9, <2>2 DEF StarterShape
<1>11. SameMarkers'
  BY <1>1, <1>4, <1>5 DEF SameMarkers
<1>12. \A s \in Starter : (Follows(s))'
  BY <1>4, <1>6, <1>7 DEF Follows
<1>13. InstallOK'
  <2>1. cmd.phase = "install" => ToSet(cmd.todo) \subseteq Starter
    BY <1>1, OrderFacts
  <2> QED
    BY <1>1, <1>3, <1>4, <1>12, <2>1 DEF StarterInv, InstallOK
<1>14. RestoreOK'
  <2>1. cmd.phase = "restore" => First' = First /\ First \in Starter
    BY <1>1, <1>4, OrderFacts DEF First
  <2>2. ~ copied' => \A s \in Starter : Single(Managed(seen, s))
    BY <1>6, <1>7 DEF StarterInv, HistoryOK, Single
  <2>3. cmd'.step = step /\ cmd'.seen = seen /\ step \notin {"create", "created"}
        /\ (step = "delete" => cmd.phase = "restore")
    BY <1>3, <1>4
  <2> QED
    BY <1>6, <1>7, <2>1, <2>2, <2>3 DEF RestoreOK
<1>15. HistoryOK'
  <2>1. cmd'.step # "created"
    BY <1>3, <1>4
  <2> QED
    BY <1>1, <1>6, <1>7, <2>1 DEF StarterInv, HistoryOK, AbsenceExplained
<1>16. ScriptOK'
  <2>1. cmd'.phase = cmd.phase /\ cmd'.todo = cmd.todo /\ cmd'.step # "created"
    BY <1>3, <1>4
  <2>2. \A s : InstalledOrDeleted(s) => (InstalledOrDeleted(s))'
    BY <1>1, <1>6, <1>7, InstalledStays
  <2> QED
    BY <1>1, <2>1, <2>2 DEF StarterInv, ScriptOK
<1> QED
  BY <1>10, <1>11, <1>13, <1>14, <1>15, <1>16 DEF StarterInv

LEMMA DecidesKeeps == StarterInv /\ InstallDecides => StarterInv'
<1> SUFFICES ASSUME StarterInv, InstallDecides PROVE StarterInv'
  OBVIOUS
<1>1. /\ UNCHANGED <<kind, edits, runs, script, store, removed, stranded, copied>>
      /\ UNCHANGED <<work, store, history>>
      /\ cmd.step = "decide" /\ cmd.phase = "install"
      /\ cmd.todo \in OrderRests /\ cmd.todo # <<>>
  BY DEF InstallDecides, work, history, StarterInv, StarterShape, CmdShape
<1>2. First \in Starter /\ First \in ToSet(cmd.todo)
  BY <1>1, OrderFacts DEF First
<1>3. PICK action \in Decide(First) :
        IF action = "CREATE"
          THEN Goes("create") /\ UNCHANGED <<recorded, outcome>>
          ELSE /\ recorded' = IF action = "NO_CHANGE" THEN recorded \cup {First} ELSE recorded
               /\ GoesOn(action)
  BY DEF InstallDecides
<1>4. /\ action \in {"NO_CHANGE", "SKIP_VERSION", "SKIP_DELETED", "SKIP_COLLISION", "CREATE"}
      /\ action = "NO_CHANGE" => Managed(cmd.seen, First) # {}
      /\ action = "CREATE" => Managed(cmd.seen, First) = {} /\ First \notin cmd.record
  BY DEF Decide
<1>5. Follows(First)
  BY <1>1, <1>2 DEF StarterInv, InstallOK
<1>6. CASE action # "CREATE"
  <2>1. First \in recorded' /\ Managed(store, First) = {} => Explained(First)
    <3>1. CASE action = "NO_CHANGE"
      BY <1>4, <1>5, <3>1 DEF Follows
    <3>2. CASE action # "NO_CHANGE"
      BY <1>2, <1>3, <1>6, <3>2 DEF StarterInv, HistoryOK, AbsenceExplained, Explained
    <3> QED
      BY <3>1, <3>2
  <2>2. recorded \subseteq recorded' /\ recorded' \subseteq recorded \cup {First}
    BY <1>3, <1>6
  <2> QED
    BY <1>1, <1>3, <1>4, <1>6, <2>1, <2>2, NextKeeps
<1>7. CASE action = "CREATE"
  <2> DEFINE seen == IF kind = "dashboards" THEN NoListing ELSE cmd.seen
  <2>1. cmd' = [phase |-> cmd.phase, step |-> "create", todo |-> cmd.todo, record |-> cmd.record,
                then |-> cmd.then, seen |-> seen, overwrite |-> cmd.overwrite,
                titles |-> cmd.titles, read |-> cmd.read]
    BY <1>3, <1>7 DEF Goes, Moved, StarterInv, StarterShape, CmdShape
  <2>2. UNCHANGED <<recorded, outcome>> /\ UNCHANGED history
    BY <1>1, <1>3, <1>7
  <2>3. seen \in [Id -> Object \cup {Absent}] /\ (seen = NoListing \/ seen = cmd.seen)
        /\ (kind = "alerts" => seen = cmd.seen)
    BY ListingType DEF StarterInv, StarterShape, CmdShape
  <2> HIDE DEF seen
  <2>4. CmdShape'
    BY <1>1, <2>1, <2>3 DEF StarterInv, StarterShape, CmdShape
  <2>5. ScriptShape' /\ edits' \in Nat /\ runs' \in Nat
    BY <1>1 DEF StarterInv, StarterShape, ScriptShape
  <2>6. StarterShape'
    BY <1>1, <2>1, <2>2, <2>4, <2>5, MoveShape
  <2>7. HistoryOK'
    BY <1>1, <2>1, <2>2, MoveHistory
  <2>8. SameMarkers'
    BY <1>1, <2>1, <2>3 DEF StarterInv, SameMarkers, NoListing
  <2>9. First' = First
    BY <2>1 DEF First
  <2>10. InstallOK'
    <3>1. First \notin recorded' /\ (~ copied' => Managed(store', First) = {})
      BY <1>1, <1>2, <1>4, <1>5, <1>7, <2>2 DEF StarterInv, InstallOK, Follows
    <3>2. kind = "alerts" => \A s \in ToSet(Tail(cmd.todo)) : (Follows(s))'
      <4>1. \A s \in ToSet(Tail(cmd.todo)) : Follows(s)
        BY <1>1, OrderFacts DEF StarterInv, InstallOK
      <4> QED
        BY <1>1, <2>1, <2>2, <2>3, <4>1 DEF Follows, Explained
    <3> QED
      BY <1>1, <2>1, <2>2, <2>9, <3>1, <3>2 DEF StarterInv, InstallOK
  <2>11. RestoreOK'
    BY <1>1, <2>1 DEF RestoreOK
  <2>12. ScriptOK'
    BY <1>1, <2>1, <2>2 DEF StarterInv, ScriptOK, InstalledOrDeleted, InRelease, Managed
  <2> QED
    BY <2>6, <2>7, <2>8, <2>10, <2>11, <2>12 DEF StarterInv
<1> QED
  BY <1>6, <1>7

(* What the store gains from one new object, and what the release gains.   *)
StoreGains(i, o) ==
  /\ store' \in [Id -> Object \cup {Absent}]
  /\ \A s : /\ o.marker # s => Managed(store', s) = Managed(store, s)
            /\ o.marker = s => Managed(store', s) = Managed(store, s) \cup {i}
  /\ \A k \in Id : k = i \/ store'[k] = store[k]

ReleaseGains(o) ==
  /\ \A s : InRelease(s) => (InRelease(s))'
  /\ o.current => (InRelease(o.marker))'

(* An object at an identifier that was free hides none and changes none.   *)
LEMMA AddedFacts ==
  ASSUME StarterInv, NEW i \in Free, NEW o \in Object, store' = [store EXCEPT ![i] = o]
  PROVE  StoreGains(i, o) /\ ReleaseGains(o)
<1>1. i \in Id /\ store[i] = Absent /\ store \in [Id -> Object \cup {Absent}] /\ o # Absent
  BY AbsentAssumption DEF Free, StarterInv, StarterShape, StarterTypeOK
<1>2. \A k \in Id : store'[k] = IF k = i THEN o ELSE store[k]
  BY <1>1
<1>3. store' \in [Id -> Object \cup {Absent}]
  BY <1>1
<1>4. \A s : /\ o.marker # s => Managed(store', s) = Managed(store, s)
             /\ o.marker = s => Managed(store', s) = Managed(store, s) \cup {i}
  BY <1>1, <1>2 DEF Managed
<1>5. \A s, k : k \in Managed(store, s) => k \in Managed(store', s) /\ store'[k] = store[k]
  BY <1>1, <1>2 DEF Managed
<1>6. \A s : InRelease(s) => (InRelease(s))'
  BY <1>5 DEF InRelease
<1>7. o.current => (InRelease(o.marker))'
  <2>1. i \in Managed(store', o.marker) /\ store'[i] = o
    BY <1>1, <1>2, <1>4
  <2> QED
    BY <2>1 DEF InRelease
<1> QED
  BY <1>2, <1>3, <1>4, <1>6, <1>7 DEF StoreGains, ReleaseGains

LEMMA CreateKeeps == StarterInv /\ Create => StarterInv'
<1> SUFFICES ASSUME StarterInv, Create PROVE StarterInv'
  OBVIOUS
<1> DEFINE seen == IF kind = "dashboards" THEN NoListing ELSE cmd.seen
<1>0. First \in Starter
  BY OrderFacts DEF Create, First, StarterInv, StarterShape, CmdShape
<1> PICK here \in Starter : here = First
  BY <1>0
<1>1. /\ UNCHANGED <<kind, edits, runs, script, recorded, outcome, copied>>
      /\ cmd.step = "create" /\ cmd.phase \in {"install", "restore"}
      /\ cmd.todo \in OrderRests /\ cmd.todo # <<>>
      /\ stranded' = stranded \ {here} /\ removed' = [removed EXCEPT ![here] = "no"]
  BY DEF Create, work, StarterInv, StarterShape, CmdShape
<1>2. here \in Starter /\ here \notin ToSet(Tail(cmd.todo)) /\ ToSet(Tail(cmd.todo)) \subseteq Starter
      /\ ToSet(cmd.todo) = {here} \cup ToSet(Tail(cmd.todo))
  BY <1>1, OrderFacts DEF First
<1>3. PICK i \in Free : store' = [store EXCEPT ![i] = StarterCopy(here)]
  BY DEF Create
<1>4. cmd' = [phase |-> cmd.phase, step |-> "created", todo |-> cmd.todo, record |-> cmd.record,
              then |-> cmd.then, seen |-> seen, overwrite |-> cmd.overwrite,
              titles |-> cmd.titles, read |-> cmd'.read]
  <2>1. PICK read : cmd' = [Moved("created") EXCEPT !.read = read]
    BY DEF Create
  <2> QED
    BY <2>1 DEF Moved, StarterInv, StarterShape, CmdShape
<1>5. seen \in [Id -> Object \cup {Absent}] /\ (seen = NoListing \/ seen = cmd.seen)
      /\ (kind = "alerts" => seen = cmd.seen)
  BY ListingType DEF StarterInv, StarterShape, CmdShape
<1>6. First' = here
  BY <1>4 DEF First
<1>7. PICK o \in Object : o = StarterCopy(here)
  BY DEF StarterCopy, Object
<1>8. store' = [store EXCEPT ![i] = o] /\ o.marker = here /\ o.current = TRUE
  BY <1>3, <1>7 DEF StarterCopy
<1> HIDE DEF seen
<1>9. /\ store' \in [Id -> Object \cup {Absent}]
      /\ \A s : s # here => Managed(store', s) = Managed(store, s)
      /\ Managed(store', here) = Managed(store, here) \cup {i}
      /\ \A s : InRelease(s) => (InRelease(s))'
      /\ (InRelease(here))'
      /\ \A k \in Id : k = i \/ store'[k] = store[k]
  <2>1. o.current
    BY <1>8
  <2>0. StoreGains(i, o) /\ ReleaseGains(o)
    BY <1>8, AddedFacts, Zenon
  <2>2. (InRelease(o.marker))' /\ \A s : InRelease(s) => (InRelease(s))'
    BY <2>0, <2>1, Zenon DEF ReleaseGains
  <2>3. (InRelease(here))'
    BY <1>8, <2>2
  <2>4. /\ store' \in [Id -> Object \cup {Absent}]
        /\ \A s : /\ o.marker # s => Managed(store', s) = Managed(store, s)
                  /\ o.marker = s => Managed(store', s) = Managed(store, s) \cup {i}
        /\ \A k \in Id : k = i \/ store'[k] = store[k]
    BY <2>0 DEF StoreGains
  <2> QED
    BY <1>8, <2>2, <2>3, <2>4
<1>10. cmd.seen[i] = Absent /\ script.probe # i /\ i \in Id /\ store[i] = Absent
  BY DEF Free
<1>11. \A s \in Starter : removed'[s] = IF s = here THEN "no" ELSE removed[s]
  BY <1>1, <1>2 DEF StarterInv, StarterShape, StarterTypeOK
<1>12. \A s \in Starter : s # here /\ Explained(s) => (Explained(s))'
  BY <1>1, <1>11 DEF Explained
<1>13. CmdShape'
  BY <1>1, <1>4, <1>5 DEF StarterInv, StarterShape, CmdShape
<1>14. StarterShape'
  <2>1. ScriptShape' /\ edits' \in Nat /\ runs' \in Nat
    BY <1>1 DEF StarterInv, StarterShape, ScriptShape
  <2>2. removed' \in [Starter -> {"no", "recorded", "unrecorded"}] /\ stranded' \subseteq Starter
    BY <1>1, <1>2 DEF StarterInv, StarterShape, StarterTypeOK
  <2>3. cmd'.phase = cmd.phase /\ cmd'.step = "created" /\ cmd'.seen = seen
    BY <1>4
  <2>4. StarterTypeOK'
    BY <1>1, <1>5, <1>9, <2>2, <2>3 DEF StarterInv, StarterShape, StarterTypeOK
  <2> QED
    BY <1>13, <2>1, <2>4 DEF StarterShape
<1>15. SameMarkers'
  <2>1. \A k \in Id : seen[k] # Absent => k # i /\ seen[k] = cmd.seen[k]
    BY <1>5, <1>10 DEF NoListing
  <2> QED
    BY <1>1, <1>4, <1>9, <2>1 DEF StarterInv, SameMarkers
<1>16. InstallOK'
  <2>1. cmd.phase = "install" /\ kind = "alerts" => \A s \in ToSet(Tail(cmd.todo)) : (Follows(s))'
    <3> SUFFICES ASSUME cmd.phase = "install", kind = "alerts", NEW s \in ToSet(Tail(cmd.todo))
                 PROVE  (Follows(s))'
      OBVIOUS
    <3>1. Follows(s) /\ s \in Starter /\ s # here
      BY <1>1, <1>2 DEF StarterInv, InstallOK
    <3> QED
      BY <1>1, <1>4, <1>5, <1>9, <1>12, <3>1 DEF Follows
  <2> QED
    BY <1>1, <1>4, <2>1 DEF StarterInv, InstallOK
<1>17. RestoreOK'
  BY <1>1, <1>2, <1>4, <1>9 DEF StarterInv, RestoreOK
<1>18. HistoryOK'
  <2>1. (~ copied => \A s \in Starter : Single(Managed(store, s)))'
    <3> SUFFICES ASSUME ~ copied, NEW s \in Starter PROVE Single(Managed(store', s))
      BY <1>1
    <3>1. Managed(store, here) = {}
      BY <1>1 DEF StarterInv, InstallOK, RestoreOK
    <3>2. Single(Managed(store, s))
      BY DEF StarterInv, HistoryOK
    <3> QED
      BY <1>9, <3>1, <3>2 DEF Single
  <2>2. AbsenceExplained'
    BY <1>1, <1>2, <1>9, <1>12 DEF StarterInv, StarterShape, StarterTypeOK, HistoryOK, AbsenceExplained, Explained
  <2>3. Managed(store', First') # {}
    BY <1>6, <1>9
  <2>4. (\A s \in Starter : removed[s] = "recorded" => s \in recorded)'
    BY <1>1, <1>11 DEF StarterInv, HistoryOK
  <2> QED
    BY <2>1, <2>2, <2>3, <2>4 DEF HistoryOK
<1>19. ScriptOK'
  <2>1. script'.at # 0 => cmd'.phase # "import"
    BY <1>1, <1>4
  <2>2. script.at # 0 /\ script.probe \in Id /\ store'[script.probe] # Absent
           => store'[script.probe].marker = NoMarker
    BY <1>9, <1>10 DEF StarterInv, ScriptOK
  <2>3. cmd'.phase = cmd.phase /\ cmd'.todo = cmd.todo
    BY <1>4
  <2>4. ASSUME script.at = 7, kind = "dashboards"
        PROVE  /\ cmd.phase \in {"none", "restore"}
               /\ \A s \in Starter : outcome[s] = "CREATED"
                                      => s \in recorded /\ (InstalledOrDeleted(s))'
               /\ cmd.phase = "restore" => \A s \in ToSet(cmd.todo) : outcome[s] = "none"
    <3>1. \A s \in Starter : InstalledOrDeleted(s) => (InstalledOrDeleted(s))'
      <4> SUFFICES ASSUME NEW s \in Starter, InstalledOrDeleted(s) PROVE (InstalledOrDeleted(s))'
        OBVIOUS
      <4>1. CASE s = here
        BY <1>9, <4>1 DEF InstalledOrDeleted
      <4>2. CASE s # here
        BY <1>1, <1>9, <1>11, <4>2 DEF InstalledOrDeleted
      <4> QED
        BY <4>1, <4>2
    <3> QED
      BY <2>4, <3>1 DEF StarterInv, ScriptOK
  <2>5. (InstalledOrDeleted(First))'
    BY <1>6, <1>9 DEF InstalledOrDeleted, InRelease
  <2> QED
    BY <1>1, <2>1, <2>2, <2>3, <2>4, <2>5 DEF StarterInv, ScriptOK
<1> QED
  BY <1>14, <1>15, <1>16, <1>17, <1>18, <1>19 DEF StarterInv

LEMMA CreateFailsKeeps == StarterInv /\ CreateFails => StarterInv'
<1> SUFFICES ASSUME StarterInv, CreateFails PROVE StarterInv'
  OBVIOUS
<1>1. /\ GoesOn("FAILED") /\ UNCHANGED <<work, store, history>> /\ recorded' = recorded
      /\ cmd.step = "create" /\ cmd.phase \in {"install", "restore"}
      /\ cmd.todo \in OrderRests /\ cmd.todo # <<>>
  BY DEF CreateFails, StarterInv, StarterShape, CmdShape
<1>2. First \in recorded' /\ Managed(store, First) = {} => Explained(First)
  BY <1>1 DEF StarterInv, HistoryOK, AbsenceExplained, Explained
<1> QED
  BY <1>1, <1>2, NextKeeps

LEMMA RecordKeeps == StarterInv /\ Record => StarterInv'
<1> SUFFICES ASSUME StarterInv, Record PROVE StarterInv'
  OBVIOUS
<1>0. PICK answer \in {"CREATED", "MISREAD"} : GoesOn(answer)
  BY DEF Record, ReadBackShows
<1>1. /\ GoesOn(answer) /\ UNCHANGED <<work, store, history>>
      /\ recorded' = recorded \cup {First}
      /\ cmd.step = "created" /\ cmd.phase \in {"install", "restore"}
      /\ cmd.todo \in OrderRests /\ cmd.todo # <<>>
  BY <1>0 DEF Record, StarterInv, StarterShape, CmdShape
<1>2. Managed(store, First) = {} => Explained(First)
  BY <1>1 DEF StarterInv, HistoryOK
<1>3. script.at = 7 /\ kind = "dashboards" => First \in recorded' /\ InstalledOrDeleted(First)
  BY <1>1 DEF StarterInv, ScriptOK
<1> QED
  BY <1>1, <1>2, <1>3, NextKeeps

LEMMA RestoreDeletesKeeps == StarterInv /\ RestoreDeletes => StarterInv'
<1> SUFFICES ASSUME StarterInv, RestoreDeletes PROVE StarterInv'
  OBVIOUS
<1>1. /\ UNCHANGED <<kind, edits, runs, script, recorded, removed, copied>> /\ UNCHANGED work
      /\ cmd.step = "delete" /\ cmd.phase = "restore" /\ kind = "dashboards"
      /\ cmd.todo \in OrderRests /\ cmd.todo # <<>>
  BY DEF RestoreDeletes, work, StarterInv, StarterShape, CmdShape
<1>2. /\ First \in Starter /\ First \in ToSet(cmd.todo)
      /\ store \in [Id -> Object \cup {Absent}]
      /\ ~ copied => /\ Managed(store, First) \subseteq Managed(cmd.seen, First)
                      /\ Single(Managed(cmd.seen, First))
  BY <1>1, OrderFacts DEF First, StarterInv, StarterShape, StarterTypeOK, RestoreOK
<1>3. CASE GoesOn("FAILED") /\ UNCHANGED <<store, stranded>>
  <2>1. First \in recorded' /\ Managed(store, First) = {} => Explained(First)
    BY <1>1 DEF StarterInv, HistoryOK, AbsenceExplained, Explained
  <2> QED
    BY <1>1, <1>3, <2>1, NextKeeps DEF history
<1> PICK here \in Starter : here = First
  BY <1>2
<1>4. CASE /\ Goes("create") /\ outcome' = outcome
           /\ \/ Managed(cmd.seen, here) = {} /\ UNCHANGED <<store, stranded>>
              \/ \E i \in Managed(cmd.seen, here) :
                   store' = [store EXCEPT ![i] = Absent] /\ stranded' = stranded \cup {here}
  <2>1. cmd' = [phase |-> "restore", step |-> "create", todo |-> cmd.todo, record |-> cmd.record,
                then |-> cmd.then, seen |-> NoListing, overwrite |-> cmd.overwrite,
                titles |-> cmd.titles, read |-> cmd.read]
    BY <1>1, <1>4 DEF Goes, Moved, StarterInv, StarterShape, CmdShape
  <2>2. /\ \A k \in Id : store'[k] = store[k] \/ store'[k] = Absent
        /\ \A s, k : s # here /\ k \in Managed(store, s) => store'[k] = store[k]
        /\ store' \in [Id -> Object \cup {Absent}]
        /\ stranded \subseteq stranded' /\ stranded' \subseteq stranded \cup {here}
        /\ Managed(store, here) # {} /\ Managed(store', here) = {} => here \in stranded'
        /\ ~ copied => Managed(store', here) = {}
    <3>1. CASE Managed(cmd.seen, here) = {} /\ UNCHANGED <<store, stranded>>
      BY <1>2, <3>1
    <3>2. ASSUME NEW i \in Managed(cmd.seen, here), store' = [store EXCEPT ![i] = Absent],
                 stranded' = stranded \cup {here}
          PROVE  <2>2!:
      <4>1. i \in Id /\ cmd.seen[i] # Absent /\ cmd.seen[i].marker = here
        BY DEF Managed
      <4>2. \A k \in Id : store'[k] = IF k = i THEN Absent ELSE store[k]
        BY <1>2, <3>2, <4>1
      <4>3. store[i] = Absent \/ store[i].marker = here
        BY <1>1, <4>1 DEF StarterInv, SameMarkers
      <4>4. \A s, k : s # here /\ k \in Managed(store, s) => store'[k] = store[k]
        BY <4>2, <4>3 DEF Managed
      <4>5. store' \in [Id -> Object \cup {Absent}]
        BY <1>2, <3>2
      <4>6. ~ copied => Managed(store', here) = {}
        <5> SUFFICES ASSUME ~ copied, NEW k \in Managed(store', here) PROVE FALSE
          OBVIOUS
        <5>1. k \in Id /\ k # i /\ k \in Managed(store, here)
          BY <4>2 DEF Managed
        <5>2. k \in Managed(cmd.seen, here) /\ Single(Managed(cmd.seen, here))
          BY <1>2, <5>1
        <5> QED
          BY <5>1, <5>2 DEF Single
      <4> QED
        BY <3>2, <4>2, <4>4, <4>5, <4>6
    <3> QED
      BY <1>4, <3>1, <3>2
  <2>3. \A s : /\ Managed(store', s) \subseteq Managed(store, s)
               /\ s # here => Managed(store', s) = Managed(store, s)
    BY <2>2 DEF Managed
  <2>4. CmdShape'
    BY <1>1, <2>1, ListingType DEF StarterInv, StarterShape, CmdShape
  <2>5. StarterShape'
    <3>1. ScriptShape' /\ edits' \in Nat /\ runs' \in Nat
      BY <1>1 DEF StarterInv, StarterShape, ScriptShape
    <3>2. stranded' \subseteq Starter
      BY <2>2 DEF StarterInv, StarterShape, StarterTypeOK
    <3>3. cmd'.phase = "restore" /\ cmd'.step = "create" /\ cmd'.seen = NoListing
      BY <2>1
    <3>4. StarterTypeOK'
      BY <1>1, <1>4, <2>2, <3>2, <3>3, ListingType DEF StarterInv, StarterShape, StarterTypeOK
    <3> QED
      BY <2>4, <3>1, <3>4 DEF StarterShape
  <2>6. SameMarkers'
    BY <2>1 DEF SameMarkers, NoListing
  <2>7. InstallOK'
    BY <2>1 DEF InstallOK
  <2>8. First' = here
    BY <2>1 DEF First
  <2>9. RestoreOK'
    BY <1>1, <2>1, <2>2, <2>8 DEF RestoreOK
  <2>10. HistoryOK'
    <3>1. (~ copied => \A s \in Starter : Single(Managed(store, s)))'
      BY <1>1, <2>3 DEF StarterInv, HistoryOK, Single
    <3>2. AbsenceExplained'
      BY <1>1, <2>2, <2>3 DEF StarterInv, HistoryOK, AbsenceExplained
    <3> QED
      BY <1>1, <2>1, <3>1, <3>2 DEF StarterInv, HistoryOK
  <2>11. ScriptOK'
    <3>1. \A s : s # here /\ InstalledOrDeleted(s) => (InstalledOrDeleted(s))'
      <4> SUFFICES ASSUME NEW s, s # here, InstalledOrDeleted(s) PROVE (InstalledOrDeleted(s))'
        OBVIOUS
      <4>1. \A k \in Managed(store, s) : store'[k] = store[k] /\ k \in Managed(store', s)
        BY <2>2, <2>3
      <4> QED
        BY <1>1, <4>1, InstalledStays
    <3>2. script.at = 7 => outcome[here] = "none"
      BY <1>1, <1>2 DEF StarterInv, ScriptOK
    <3>3. cmd'.phase = "restore" /\ cmd'.step = "create" /\ cmd'.todo = cmd.todo
      BY <2>1
    <3>4. script.at = 7 => \A s \in Starter : outcome[s] = "CREATED"
                                               => s \in recorded /\ (InstalledOrDeleted(s))'
      BY <1>1, <3>1, <3>2 DEF StarterInv, ScriptOK
    <3>5. script.probe \in Id /\ store'[script.probe] # Absent => store'[script.probe] = store[script.probe]
      BY <2>2
    <3> QED
      BY <1>1, <1>4, <3>3, <3>4, <3>5 DEF StarterInv, ScriptOK
  <2> QED
    BY <2>5, <2>6, <2>7, <2>9, <2>10, <2>11 DEF StarterInv
<1> QED
  BY <1>3, <1>4 DEF RestoreDeletes

LEMMA SweepKeeps == StarterInv /\ Sweep => StarterInv'
<1> SUFFICES ASSUME StarterInv, Sweep PROVE StarterInv'
  OBVIOUS
<1>1. /\ UNCHANGED <<kind, edits, runs, script, recorded, outcome, removed>>
      /\ cmd.step = "sweep" /\ cmd.phase = "restore" /\ kind = "alerts"
      /\ cmd.todo \in OrderRests /\ cmd.todo # <<>>
  BY DEF Sweep, work, StarterInv, StarterShape, CmdShape
<1>2. PICK i \in Marked :
        /\ cmd' = [cmd EXCEPT !.seen[i] = Absent]
        /\ \/ /\ copied' = (copied \/ store[i] # Absent)
              /\ UNCHANGED <<store, stranded>>
           \/ /\ store' = [store EXCEPT ![i] = Absent]
              /\ stranded' = stranded \cup {cmd.seen[i].marker}
              /\ UNCHANGED copied
  BY DEF Sweep
<1> DEFINE seen == [cmd.seen EXCEPT ![i] = Absent]
<1>3. cmd' = [phase |-> "restore", step |-> "sweep", todo |-> cmd.todo, record |-> cmd.record,
              then |-> cmd.then, seen |-> seen, overwrite |-> cmd.overwrite,
              titles |-> cmd.titles, read |-> cmd.read]
  BY <1>1, <1>2 DEF StarterInv, StarterShape, CmdShape
<1>4. /\ cmd.seen \in [Id -> Object \cup {Absent}] /\ store \in [Id -> Object \cup {Absent}]
      /\ i \in Id /\ cmd.seen[i] # Absent /\ cmd.seen[i].marker # NoMarker
      /\ copied \in BOOLEAN /\ stranded \subseteq Starter
  BY DEF Marked, StarterInv, StarterShape, StarterTypeOK, CmdShape
<1>5. cmd.seen[i].marker \in Starter
  BY <1>4 DEF Object
<1>6. \A k \in Id : seen[k] = IF k = i THEN Absent ELSE cmd.seen[k]
  BY <1>4
<1>7. seen \in [Id -> Object \cup {Absent}]
  BY <1>4
<1>8. store[i] = Absent \/ store[i].marker = cmd.seen[i].marker
  BY <1>1, <1>4 DEF StarterInv, SameMarkers
<1> HIDE DEF seen
<1>9. /\ store' \in [Id -> Object \cup {Absent}] /\ copied' \in BOOLEAN /\ stranded' \subseteq Starter
      /\ stranded \subseteq stranded'
      /\ \A k \in Id : store'[k] = store[k] \/ store'[k] = Absent
      /\ \A s : Managed(store, s) # {} /\ Managed(store', s) = {} => s \in stranded'
      /\ ~ copied' => ~ copied /\ \A k \in Id : store'[k] # Absent => k # i
  <2>1. CASE copied' = (copied \/ store[i] # Absent) /\ UNCHANGED <<store, stranded>>
    <3>1. ~ copied' => ~ copied /\ store[i] = Absent
      BY <1>4, <2>1
    <3>2. copied' \in BOOLEAN
      BY <1>4, <2>1
    <3> QED
      BY <1>4, <2>1, <3>1, <3>2
  <2>2. CASE /\ store' = [store EXCEPT ![i] = Absent]
             /\ stranded' = stranded \cup {cmd.seen[i].marker} /\ UNCHANGED copied
    <3>1. \A k \in Id : store'[k] = IF k = i THEN Absent ELSE store[k]
      BY <1>4, <2>2
    <3>2. ASSUME NEW s, Managed(store, s) # {}, Managed(store', s) = {} PROVE s \in stranded'
      <4>1. PICK k \in Id : store[k] # Absent /\ store[k].marker = s
        BY <3>2 DEF Managed
      <4>2. k = i
        BY <3>1, <3>2, <4>1 DEF Managed
      <4> QED
        BY <1>8, <2>2, <4>1, <4>2
    <3>3. store' \in [Id -> Object \cup {Absent}]
      BY <1>4, <2>2
    <3> QED
      BY <1>4, <1>5, <2>2, <3>1, <3>2, <3>3
  <2> QED
    BY <1>2, <2>1, <2>2
<1>10. \A s : Managed(store', s) \subseteq Managed(store, s)
  BY <1>9 DEF Managed
<1>11. CmdShape'
  BY <1>1, <1>3, <1>7 DEF StarterInv, StarterShape, CmdShape
<1>12. StarterShape'
  <2>1. ScriptShape' /\ edits' \in Nat /\ runs' \in Nat
    BY <1>1 DEF StarterInv, StarterShape, ScriptShape
  <2>2. cmd'.phase = "restore" /\ cmd'.step = "sweep" /\ cmd'.seen = seen
    BY <1>3
  <2>3. StarterTypeOK'
    BY <1>1, <1>7, <1>9, <2>2 DEF StarterInv, StarterShape, StarterTypeOK
  <2> QED
    BY <1>11, <2>1, <2>3 DEF StarterShape
<1>13. SameMarkers'
  <2>1. \A k \in Id : seen[k] # Absent => seen[k] = cmd.seen[k]
    BY <1>6
  <2>2. cmd'.seen = seen
    BY <1>3
  <2> QED
    BY <1>1, <1>9, <2>1, <2>2 DEF StarterInv, SameMarkers
<1>14. InstallOK'
  BY <1>3 DEF InstallOK
<1>15. RestoreOK'
  <2>1. ~ copied' => \A s \in Starter : Managed(store', s) \subseteq Managed(seen, s)
    <3> SUFFICES ASSUME ~ copied', NEW s \in Starter, NEW k \in Managed(store', s)
                 PROVE  k \in Managed(seen, s)
      OBVIOUS
    <3>1. k \in Managed(store, s) /\ k \in Id /\ k # i
      BY <1>9, <1>10 DEF Managed
    <3>2. k \in Managed(cmd.seen, s)
      BY <1>1, <1>9, <3>1 DEF StarterInv, RestoreOK
    <3> QED
      BY <1>6, <3>1, <3>2 DEF Managed
  <2>2. cmd'.seen = seen /\ cmd'.step = "sweep"
    BY <1>3
  <2> QED
    BY <2>1, <2>2 DEF RestoreOK
<1>16. HistoryOK'
  <2>1. (~ copied => \A s \in Starter : Single(Managed(store, s)))'
    BY <1>9, <1>10 DEF StarterInv, HistoryOK, Single
  <2>2. AbsenceExplained'
    BY <1>1, <1>9 DEF StarterInv, HistoryOK, AbsenceExplained
  <2>3. cmd'.step = "sweep"
    BY <1>3
  <2> QED
    BY <1>1, <2>1, <2>2, <2>3 DEF StarterInv, HistoryOK
<1>17. ScriptOK'
  <2>1. script.probe \in Id /\ store'[script.probe] # Absent => store'[script.probe] = store[script.probe]
    BY <1>9
  <2>2. cmd'.phase = "restore" /\ cmd'.step = "sweep"
    BY <1>3
  <2> QED
    BY <1>1, <2>1, <2>2 DEF StarterInv, ScriptOK
<1> QED
  BY <1>12, <1>13, <1>14, <1>15, <1>16, <1>17 DEF StarterInv

LEMMA SweepEndsKeeps == StarterInv /\ SweepEnds => StarterInv'
<1> SUFFICES ASSUME StarterInv, SweepEnds PROVE StarterInv'
  OBVIOUS
<1>1. /\ UNCHANGED <<kind, edits, runs, script, store, recorded, outcome, history>>
      /\ UNCHANGED <<stranded, removed, copied>>
      /\ cmd.step = "sweep" /\ cmd.phase = "restore" /\ kind = "alerts"
      /\ cmd.todo \in OrderRests /\ cmd.todo # <<>>
  BY DEF SweepEnds, work, history, StarterInv, StarterShape, CmdShape
<1>2. cmd' = [phase |-> "restore", step |-> "create", todo |-> cmd.todo, record |-> cmd.record,
              then |-> cmd.then, seen |-> cmd.seen, overwrite |-> cmd.overwrite,
              titles |-> cmd.titles, read |-> cmd.read]
  BY <1>1 DEF SweepEnds, Goes, Moved, StarterInv, StarterShape, CmdShape
<1>3. CmdShape'
  BY <1>1, <1>2 DEF StarterInv, StarterShape, CmdShape
<1>4. ScriptShape' /\ edits' \in Nat /\ runs' \in Nat
  BY <1>1 DEF StarterInv, StarterShape, ScriptShape
<1>5. StarterShape'
  BY <1>1, <1>2, <1>3, <1>4, MoveShape
<1>6. HistoryOK'
  BY <1>1, <1>2, MoveHistory
<1>7. SameMarkers'
  BY <1>1, <1>2 DEF StarterInv, SameMarkers
<1>8. InstallOK'
  BY <1>2 DEF InstallOK
<1>9. RestoreOK'
  <2>1. First \in Starter /\ ToSet(Tail(cmd.todo)) \subseteq Starter /\ First' = First
    BY <1>1, <1>2, OrderFacts DEF First
  <2>2. \A s \in Starter : Managed(cmd.seen, s) = {}
    BY OrderAssumption DEF SweepEnds, Marked, Managed
  <2>3. ~ copied => \A s \in Starter : Managed(store, s) = {}
    BY <1>1, <2>2 DEF StarterInv, RestoreOK
  <2> QED
    BY <1>1, <1>2, <2>1, <2>3 DEF RestoreOK
<1>10. ScriptOK'
  BY <1>1, <1>2 DEF StarterInv, ScriptOK
<1> QED
  BY <1>5, <1>6, <1>7, <1>8, <1>9, <1>10 DEF StarterInv

(* An import sets the rest of the state aside; what it adds is counted.    *)
LEMMA ImportKeeps ==
  ASSUME StarterInv, cmd.phase = "import", CmdShape', cmd'.phase \in {"import", "none"},
         cmd'.step \in {"list", "candidate", "put", "done"},
         UNCHANGED <<kind, edits, runs, script, recorded, outcome, removed>>,
         store' \in [Id -> Object \cup {Absent}], copied' \in BOOLEAN,
         stranded' \subseteq Starter, stranded \subseteq stranded',
         ~ copied' => ~ copied /\ \A s \in Starter : Managed(store', s) \subseteq Managed(store, s),
         \A s \in Starter : Managed(store, s) # {} /\ Managed(store', s) = {} => s \in stranded'
  PROVE  StarterInv'
<1>1. StarterShape'
  <2>1. ScriptShape'
    BY DEF StarterInv, StarterShape, ScriptShape
  <2>2. cmd'.seen \in [Id -> Object \cup {Absent}]
    BY DEF CmdShape
  <2>3. StarterTypeOK'
    BY <2>2 DEF StarterInv, StarterShape, StarterTypeOK
  <2> QED
    BY <2>1, <2>3 DEF StarterInv, StarterShape
<1>2. SameMarkers' /\ InstallOK' /\ RestoreOK'
  BY DEF SameMarkers, InstallOK, RestoreOK
<1>3. HistoryOK'
  <2>1. (~ copied => \A s \in Starter : Single(Managed(store, s)))'
    BY DEF StarterInv, HistoryOK, Single
  <2>2. AbsenceExplained'
    BY DEF StarterInv, StarterShape, StarterTypeOK, HistoryOK, AbsenceExplained
  <2> QED
    BY <2>1, <2>2 DEF StarterInv, HistoryOK
<1>4. ScriptOK'
  BY DEF StarterInv, ScriptOK
<1> QED
  BY <1>1, <1>2, <1>3, <1>4 DEF StarterInv

LEMMA FileFacts ==
  ASSUME StarterInv, cmd.phase = "import"
  PROVE  First.title \in Starter \cup {Own} /\ First.marker \in Starter \cup {NoMarker}
<1>1. cmd.todo \in Seq(File) /\ cmd.todo # <<>>
  BY DEF StarterInv, StarterShape, CmdShape
<1>2. First \in File
  BY <1>1 DEF First
<1> QED
  BY <1>2 DEF File

LEMMA NextFileFacts ==
  ASSUME StarterInv, cmd.phase = "import", NextFile, UNCHANGED kind
  PROVE  /\ CmdShape' /\ outcome' = outcome /\ cmd'.phase \in {"import", "none"}
         /\ cmd'.step \in {"list", "candidate", "put", "done"}
<1>1. cmd.todo \in Seq(File) /\ cmd.todo # <<>> /\ Len(cmd.todo) \in Nat
  BY DEF StarterInv, StarterShape, CmdShape
<1>2. ASSUME Len(cmd.todo) # 1 PROVE Tail(cmd.todo) \in Seq(File) /\ Tail(cmd.todo) # <<>>
  <2>1. \A list \in Seq(File) : list # <<>> =>
          Len(list) \in Nat /\ Len(list) # 0 /\ Tail(list) \in Seq(File) /\ Len(Tail(list)) = Len(list) - 1
    OBVIOUS
  <2>2. Len(cmd.todo) # 0 /\ Tail(cmd.todo) \in Seq(File) /\ Len(Tail(cmd.todo)) = Len(cmd.todo) - 1
    BY <1>1, <2>1, Zenon
  <2>3. Len(Tail(cmd.todo)) # 0
    BY <1>1, <1>2, <2>2
  <2>4. Len(<<>>) = 0
    OBVIOUS
  <2> QED
    BY <2>2, <2>3, <2>4
<1>3. outcome' = outcome
  BY DEF NextFile
<1>4. CASE Len(cmd.todo) = 1
  <2>1. cmd' = [phase |-> "none", step |-> "done", todo |-> <<>>, record |-> {}, then |-> FALSE,
                seen |-> NoListing, overwrite |-> FALSE, titles |-> {}, read |-> Absent]
    BY <1>4 DEF NextFile, NoCommand
  <2>2. CmdShape'
    BY <2>1, ListingType DEF CmdShape
  <2> QED
    BY <1>3, <2>1, <2>2
<1>5. CASE Len(cmd.todo) # 1
  <2> DEFINE titles == cmd.titles \cup {First.title}
             tail == Tail(cmd.todo)
  <2>1. cmd' = [phase |-> "import", step |-> "candidate", todo |-> tail, record |-> cmd.record,
                then |-> cmd.then, seen |-> cmd.seen, overwrite |-> cmd.overwrite,
                titles |-> titles, read |-> Absent]
    BY <1>5 DEF NextFile, Entry, StarterInv, StarterShape, CmdShape
  <2>2. cmd.seen \in [Id -> Object \cup {Absent}] /\ ~ cmd.then
    BY DEF StarterInv, StarterShape, CmdShape
  <2>3. tail \in Seq(File) /\ tail # <<>>
    BY <1>2, <1>5
  <2> HIDE DEF titles, tail
  <2>4. CmdShape'
    BY <2>1, <2>2, <2>3 DEF CmdShape
  <2> QED
    BY <1>3, <2>1, <2>4
<1> QED
  BY <1>4, <1>5

LEMMA ImportSkipsKeeps == StarterInv /\ ImportSkips => StarterInv'
<1> SUFFICES ASSUME StarterInv, ImportSkips PROVE StarterInv'
  OBVIOUS
<1>1. /\ UNCHANGED <<kind, edits, runs, script, recorded, removed, stranded, copied, store>>
      /\ cmd.phase = "import" /\ NextFile
  BY DEF ImportSkips, work, history, StarterInv, StarterShape, CmdShape
<1>2. /\ CmdShape' /\ outcome' = outcome /\ cmd'.phase \in {"import", "none"}
      /\ cmd'.step \in {"list", "candidate", "put", "done"}
  BY <1>1, NextFileFacts
<1> QED
  BY <1>1, <1>2, ImportKeeps DEF StarterInv, StarterShape, StarterTypeOK

LEMMA ImportCreatesKeeps == StarterInv /\ ImportCreates => StarterInv'
<1> SUFFICES ASSUME StarterInv, ImportCreates PROVE StarterInv'
  OBVIOUS
<1>1. /\ UNCHANGED <<kind, edits, runs, script, recorded, removed, stranded>>
      /\ cmd.phase = "import" /\ NextFile /\ copied \in BOOLEAN
      /\ copied' = (copied \/ (First.marker # NoMarker /\ store' # store))
  BY DEF ImportCreates, work, StarterInv, StarterShape, StarterTypeOK, CmdShape
<1>2. /\ CmdShape' /\ outcome' = outcome /\ cmd'.phase \in {"import", "none"}
      /\ cmd'.step \in {"list", "candidate", "put", "done"}
  BY <1>1, NextFileFacts
<1>3. /\ store' \in [Id -> Object \cup {Absent}]
      /\ \A s : Managed(store, s) \subseteq Managed(store', s)
      /\ First.marker = NoMarker \/ store' = store =>
           \A s \in Starter : Managed(store', s) \subseteq Managed(store, s)
  <2>1. CASE store' = store
    BY <2>1 DEF StarterInv, StarterShape, StarterTypeOK
  <2>2. CASE store' # store
    <3>1. PICK i \in Free : store' = [store EXCEPT ![i] = ImportedCopy(First)]
      BY <2>2 DEF ImportCreates
    <3>2. PICK o \in Object : o = ImportedCopy(First)
      BY <1>1, FileFacts DEF ImportedCopy, Object
    <3>3. o.marker = First.marker /\ store' = [store EXCEPT ![i] = o]
      BY <3>1, <3>2 DEF ImportedCopy
    <3>4. StoreGains(i, o)
      BY <3>3, AddedFacts, Zenon
    <3>5. /\ store' \in [Id -> Object \cup {Absent}]
          /\ \A s : First.marker # s => Managed(store', s) = Managed(store, s)
          /\ \A s : First.marker = s => Managed(store', s) = Managed(store, s) \cup {i}
      BY <3>3, <3>4 DEF StoreGains
    <3>6. \A s : Managed(store, s) \subseteq Managed(store', s)
      BY <3>5
    <3> QED
      BY <2>2, <3>5, <3>6, OrderAssumption
  <2> QED
    BY <2>1, <2>2
<1>4. copied' \in BOOLEAN /\ (~ copied' => ~ copied /\ (First.marker = NoMarker \/ store' = store))
  BY <1>1
<1>5. ~ copied' => ~ copied /\ \A s \in Starter : Managed(store', s) \subseteq Managed(store, s)
  BY <1>3, <1>4
<1>6. stranded' \subseteq Starter
  BY <1>1 DEF StarterInv, StarterShape, StarterTypeOK
<1> QED
  BY <1>1, <1>2, <1>3, <1>4, <1>5, <1>6, ImportKeeps

LEMMA ImportReadsKeeps == StarterInv /\ ImportReads => StarterInv'
<1> SUFFICES ASSUME StarterInv, ImportReads PROVE StarterInv'
  OBVIOUS
<1>1. /\ UNCHANGED <<kind, edits, runs, script, recorded, removed, stranded, copied, store, outcome>>
      /\ cmd.phase = "import" /\ cmd.overwrite
  BY DEF ImportReads, work, history, StarterInv, StarterShape, CmdShape
<1>2. PICK i \in Titled(cmd.seen, First.title) :
        store[i] # Absent /\ cmd' = [cmd EXCEPT !.step = "put", !.read = [id |-> i, object |-> store[i]]]
  BY DEF ImportReads
<1> DEFINE read == [id |-> i, object |-> store[i]]
<1>3. i \in Id /\ store[i] \in Object
  BY <1>2 DEF Titled, StarterInv, StarterShape, StarterTypeOK
<1>4. read.id \in Id /\ read.object \in Object
  BY <1>3
<1>5. cmd' = [phase |-> "import", step |-> "put", todo |-> cmd.todo, record |-> cmd.record,
              then |-> cmd.then, seen |-> cmd.seen, overwrite |-> cmd.overwrite,
              titles |-> cmd.titles, read |-> read]
  BY <1>1, <1>2 DEF StarterInv, StarterShape, CmdShape
<1> HIDE DEF read
<1>6. CmdShape'
  BY <1>1, <1>4, <1>5 DEF StarterInv, StarterShape, CmdShape
<1>7. cmd'.phase = "import" /\ cmd'.step = "put"
  BY <1>5
<1> QED
  BY <1>1, <1>6, <1>7, ImportKeeps DEF StarterInv, StarterShape, StarterTypeOK

LEMMA ReplacedFacts ==
  ASSUME NEW old \in Object, NEW copy, copy.title \in Starter \cup {Own},
         copy.marker \in Starter \cup {NoMarker}
  PROVE  ReplacedBy(old, copy) \in Object /\ ReplacedBy(old, copy).marker = copy.marker
<1> DEFINE rev == old.rev + 1
           titled == [old EXCEPT !.title = copy.title]
           marked == [titled EXCEPT !.marker = copy.marker]
           new == [marked EXCEPT !.rev = rev]
<1>1. ReplacedBy(old, copy) = new
  BY DEF ReplacedBy
<1>2. rev \in Nat
  BY DEF Object
<1>3. titled \in Object
  BY DEF Object
<1> HIDE DEF rev, titled
<1>4. marked \in Object /\ marked.marker = copy.marker
  BY <1>3 DEF Object
<1> HIDE DEF marked
<1>5. new \in Object /\ new.marker = copy.marker
  BY <1>2, <1>4 DEF Object
<1> QED
  BY <1>1, <1>5

LEMMA ImportPutsKeeps == StarterInv /\ ImportPuts => StarterInv'
<1> SUFFICES ASSUME StarterInv, ImportPuts PROVE StarterInv'
  OBVIOUS
<1>1. /\ UNCHANGED <<kind, edits, runs, script, recorded, removed>>
      /\ cmd.phase = "import" /\ NextFile /\ copied \in BOOLEAN
      /\ stranded \subseteq Starter /\ store \in [Id -> Object \cup {Absent}]
  BY DEF ImportPuts, work, StarterInv, StarterShape, StarterTypeOK, CmdShape
<1>2. /\ CmdShape' /\ outcome' = outcome /\ cmd'.phase \in {"import", "none"}
      /\ cmd'.step \in {"list", "candidate", "put", "done"}
  BY <1>1, NextFileFacts
<1>3. CASE UNCHANGED <<store, copied, stranded>>
  BY <1>1, <1>2, <1>3, ImportKeeps
<1>4. CASE Overwrites(cmd.read.id)
  <2>1. cmd.read.id \in Id
    BY DEF ImportPuts, StarterInv, StarterShape, CmdShape
  <2>2. PICK i \in Id : i = cmd.read.id
    BY <2>1
  <2> DEFINE old == store[i]
             new == ReplacedBy(old, First)
  <2>3. old \in Object /\ First.title \in Starter \cup {Own} /\ First.marker \in Starter \cup {NoMarker}
    BY <1>1, <1>4, <2>2, FileFacts DEF Overwrites
  <2>4. new \in Object /\ new.marker = First.marker /\ new # Absent
    BY <2>3, AbsentAssumption, ReplacedFacts
  <2>5. store' = [store EXCEPT ![i] = new]
    BY <1>4, <2>2 DEF Overwrites
  <2>6. /\ copied' = (copied \/ First.marker \notin {NoMarker, old.marker})
        /\ stranded' = stranded \cup ({old.marker} \ {NoMarker, First.marker})
    BY <1>4, <2>2 DEF Overwrites
  <2>7. old.marker \in Starter \cup {NoMarker}
    BY <2>3 DEF Object
  <2>8. old = store[i]
    OBVIOUS
  <2> HIDE DEF old, new
  <2>9. \A k \in Id : store'[k] = IF k = i THEN new ELSE store[k]
    BY <1>1, <2>5
  <2>10. store' \in [Id -> Object \cup {Absent}]
    BY <1>1, <2>4, <2>5
  <2>11. /\ copied' \in BOOLEAN /\ (~ copied' => ~ copied /\ First.marker \in {NoMarker, old.marker})
         /\ stranded' \subseteq Starter /\ stranded \subseteq stranded'
    BY <1>1, <2>6, <2>7
  <2>12. ASSUME ~ copied', NEW s \in Starter, NEW k \in Managed(store', s)
         PROVE  k \in Managed(store, s)
    <3>1. k \in Id /\ store'[k] # Absent /\ store'[k].marker = s /\ s # NoMarker
      BY OrderAssumption DEF Managed
    <3>2. CASE k = i
      <4>1. First.marker = s /\ old.marker = s
        BY <2>4, <2>9, <2>11, <2>12, <3>1, <3>2
      <4>2. old # Absent
        BY <2>3, AbsentAssumption
      <4> QED
        BY <2>8, <3>1, <3>2, <4>1, <4>2 DEF Managed
    <3>3. CASE k # i
      BY <2>9, <3>1, <3>3 DEF Managed
    <3> QED
      BY <3>2, <3>3
  <2>13. ASSUME NEW s \in Starter, Managed(store, s) # {}, Managed(store', s) = {}
         PROVE  s \in stranded'
    <3>1. PICK k \in Id : store[k] # Absent /\ store[k].marker = s
      BY <2>13 DEF Managed
    <3>2. k = i
      BY <2>9, <2>13, <3>1 DEF Managed
    <3>3. old.marker = s /\ s # NoMarker
      BY <2>8, <3>1, <3>2, OrderAssumption
    <3>4. First.marker # s
      BY <2>4, <2>9, <2>13 DEF Managed
    <3> QED
      BY <2>6, <3>3, <3>4
  <2> QED
    BY <1>1, <1>2, <2>10, <2>11, <2>12, <2>13, ImportKeeps
<1> QED
  BY <1>3, <1>4 DEF ImportPuts

(* What the company, or the script in its place, may do to the store.      *)
Leaves ==
  /\ recorded' \subseteq recorded
  /\ store' \in [Id -> Object \cup {Absent}]
  /\ removed' \in [Starter -> {"no", "recorded", "unrecorded"}]
  /\ \A s \in Starter :
       /\ Managed(store', s) \subseteq Managed(store, s)
       /\ Managed(store, s) # {} /\ Managed(store', s) = {} => removed'[s] # "no"
       /\ removed[s] # "no" => removed'[s] # "no"
       /\ removed'[s] = "recorded" => s \in recorded'
  /\ \A i \in Id : store'[i] # Absent /\ cmd.seen[i] # Absent
                     => store[i] # Absent /\ store'[i].marker = store[i].marker
  /\ \A i \in Id : store'[i] # Absent
                     => \/ store'[i].marker = NoMarker
                        \/ store[i] # Absent /\ store'[i].marker = store[i].marker

(* What the company does while a restore is verified.                      *)
LeavesInstalled == \A s \in Starter : InstalledOrDeleted(s) => (InstalledOrDeleted(s))'

LEMMA LeavesKeeps ==
  ASSUME StarterInv, Leaves, UNCHANGED <<kind, cmd, outcome, stranded, copied>>,
         ScriptShape', ScriptOK', edits' \in Nat, runs' \in Nat
  PROVE  StarterInv'
<1>1. CmdShape'
  BY DEF StarterInv, StarterShape, CmdShape
<1>2. StarterTypeOK'
  <2>1. script'.at \in {0} \cup 2..9 /\ script'.verdict \in {"none", "passed", "failed", "thrown"}
    BY DEF ScriptShape
  <2> QED
    BY <2>1 DEF Leaves, StarterInv, StarterShape, StarterTypeOK
<1>3. StarterShape'
  BY <1>1, <1>2 DEF StarterShape
<1> QED
  BY <1>3, OthersKeep DEF Leaves

LEMMA EditsKeeps ==
  ASSUME StarterInv, Leaves, Edits, UNCHANGED <<kind, runs, script, cmd, outcome, stranded, copied>>,
         script.at = 0 \/ (recorded' = recorded /\ LeavesInstalled)
  PROVE  StarterInv'
<1>1. edits' \in Nat /\ runs' \in Nat /\ ScriptShape'
  BY DEF Edits, StarterInv, StarterShape, ScriptShape
<1>2. ScriptOK'
  <2>1. CASE script.at = 0
    BY <2>1 DEF ScriptOK
  <2>2. CASE script.at # 0 /\ recorded' = recorded /\ LeavesInstalled
    <3>1. script.probe \in Id /\ store'[script.probe] # Absent => store'[script.probe].marker = NoMarker
      BY <2>2 DEF Leaves, StarterInv, ScriptOK
    <3>2. First' = First
      BY DEF First
    <3>3. cmd.step = "created" => cmd.phase \in {"install", "restore"} /\ cmd.todo \in OrderRests
                                   /\ cmd.todo # <<>>
      BY DEF StarterInv, StarterShape, CmdShape
    <3>4. cmd.step = "created" => First \in Starter
      BY <3>3, OrderFacts DEF First
    <3> QED
      BY <2>2, <3>1, <3>2, <3>4 DEF StarterInv, ScriptOK, LeavesInstalled
  <2> QED
    BY <2>1, <2>2
<1> QED
  BY <1>1, <1>2, LeavesKeeps

(* An object that carries no marker changes nothing for the starters.      *)
LEMMA UnmarkedLeaves ==
  ASSUME StarterInv, UNCHANGED <<recorded, removed>>, NEW i \in Free, NEW o \in Object,
         o.marker = NoMarker, store' = [store EXCEPT ![i] = o]
  PROVE  Leaves /\ (copied' = copied => LeavesInstalled)
<1>0. StoreGains(i, o) /\ ReleaseGains(o)
  BY AddedFacts, Zenon
<1>1. /\ store' \in [Id -> Object \cup {Absent}]
      /\ \A s : o.marker # s => Managed(store', s) = Managed(store, s)
      /\ \A k \in Id : k = i \/ store'[k] = store[k]
  BY <1>0 DEF StoreGains
<1>2. \A s \in Starter : Managed(store', s) = Managed(store, s)
  BY <1>1, OrderAssumption
<1>3. cmd.seen[i] = Absent
  BY DEF Free
<1>4. store'[i] = o
  BY DEF Free, StarterInv, StarterShape, StarterTypeOK
<1>5. \A k \in Id : store'[k] # Absent
                     => \/ store'[k].marker = NoMarker
                        \/ store[k] # Absent /\ store'[k].marker = store[k].marker
  BY <1>1, <1>4
<1>6. Leaves
  BY <1>1, <1>2, <1>3, <1>5, ZenonT(30)
  DEF Leaves, StarterInv, StarterShape, StarterTypeOK, HistoryOK
<1>7. ASSUME copied' = copied, NEW s \in Starter, InstalledOrDeleted(s)
      PROVE  (InstalledOrDeleted(s))'
  <2>1. ~ copied' => ~ copied
    BY <1>7
  <2>2. InRelease(s) => (InRelease(s))'
    BY <1>0 DEF ReleaseGains
  <2> QED
    BY <1>2, <1>7, <2>1, <2>2 DEF InstalledOrDeleted
<1> QED
  BY <1>6, <1>7 DEF LeavesInstalled

LEMMA SameLeaves ==
  ASSUME StarterInv, UNCHANGED <<recorded, removed, store>>
  PROVE  Leaves
BY ZenonT(30) DEF Leaves, StarterInv, StarterShape, StarterTypeOK, HistoryOK

LEMMA DeletedLeaves ==
  ASSUME StarterInv, NEW i \in Id, store[i] # Absent, recorded' = recorded,
         store' = [store EXCEPT ![i] = Absent],
         removed' = IF store[i].marker # NoMarker /\ Managed(store, store[i].marker) = {i}
                      THEN [removed EXCEPT ![store[i].marker] =
                              IF store[i].marker \in recorded THEN "recorded" ELSE "unrecorded"]
                      ELSE removed
  PROVE  Leaves /\ (copied' = copied => LeavesInstalled)
<1>1. /\ store \in [Id -> Object \cup {Absent}]
      /\ removed \in [Starter -> {"no", "recorded", "unrecorded"}]
  BY DEF StarterInv, StarterShape, StarterTypeOK
<1>2. \A k \in Id : store'[k] = IF k = i THEN Absent ELSE store[k]
  BY <1>1
<1>3. store' \in [Id -> Object \cup {Absent}]
  BY <1>1
<1>4. PICK m \in Starter \cup {NoMarker} : m = store[i].marker
  BY <1>1 DEF Object
<1>5. \A s : /\ Managed(store', s) \subseteq Managed(store, s)
             /\ s # m => Managed(store', s) = Managed(store, s)
  BY <1>2, <1>4 DEF Managed
<1>6. removed' = IF m # NoMarker /\ Managed(store, m) = {i}
                   THEN [removed EXCEPT ![m] = IF m \in recorded THEN "recorded" ELSE "unrecorded"]
                   ELSE removed
  BY <1>4
<1>7. /\ removed' \in [Starter -> {"no", "recorded", "unrecorded"}]
      /\ \A s \in Starter : removed'[s] = removed[s]
                              \/ (s = m /\ removed'[s] = IF m \in recorded THEN "recorded" ELSE "unrecorded")
      /\ m # NoMarker /\ Managed(store, m) = {i} => removed'[m] # "no"
  <2>1. CASE m # NoMarker /\ Managed(store, m) = {i}
    <3>1. m \in Starter /\ removed' = [removed EXCEPT ![m] = IF m \in recorded THEN "recorded" ELSE "unrecorded"]
      BY <1>6, <2>1
    <3> QED
      BY <1>1, <3>1
  <2>2. CASE ~ (m # NoMarker /\ Managed(store, m) = {i})
    BY <1>1, <1>6, <2>2
  <2> QED
    BY <2>1, <2>2
<1>8. ASSUME NEW s \in Starter, Managed(store, s) # {}, Managed(store', s) = {} PROVE removed'[s] # "no"
  <2>1. s = m /\ m # NoMarker
    BY <1>5, <1>8, OrderAssumption
  <2>2. \A k \in Managed(store, m) : k = i
    BY <1>2, <1>8, <2>1 DEF Managed
  <2>3. Managed(store, m) = {i}
    BY <1>8, <2>1, <2>2
  <2> QED
    BY <1>7, <2>1, <2>3
<1>9. \A s \in Starter : /\ removed[s] # "no" => removed'[s] # "no"
                         /\ removed'[s] = "recorded" => s \in recorded'
  BY <1>7 DEF StarterInv, HistoryOK
<1>10. \A k \in Id : store'[k] # Absent => store[k] # Absent /\ store'[k].marker = store[k].marker
  BY <1>2
<1>11. Leaves
  BY <1>3, <1>5, <1>7, <1>8, <1>9, <1>10 DEF Leaves
<1>12. ASSUME copied' = copied, NEW s \in Starter, InstalledOrDeleted(s)
       PROVE  (InstalledOrDeleted(s))'
  <2>1. CASE removed'[s] # "no"
    BY <2>1 DEF InstalledOrDeleted
  <2>2. CASE removed'[s] = "no"
    <3>1. removed[s] = "no" /\ Managed(store, s) # {} /\ (~ copied => InRelease(s))
      BY <1>9, <1>12, <2>2 DEF InstalledOrDeleted
    <3>2. Managed(store', s) # {}
      BY <1>8, <2>2, <3>1
    <3>3. ASSUME ~ copied PROVE (InRelease(s))'
      <4>1. PICK k \in Managed(store, s) : store[k].current
        BY <3>1, <3>3 DEF InRelease
      <4>2. PICK j \in Managed(store', s) : TRUE
        BY <3>2
      <4>3. j = k
        BY <1>5, <3>3 DEF StarterInv, HistoryOK, Single
      <4>4. store'[j] = store[j]
        BY <1>2, <4>2 DEF Managed
      <4> QED
        BY <4>1, <4>2, <4>3, <4>4 DEF InRelease
    <3> QED
      BY <1>12, <3>2, <3>3 DEF InstalledOrDeleted
  <2> QED
    BY <2>1, <2>2
<1> QED
  BY <1>11, <1>12 DEF LeavesInstalled

(* The same objects stay, with the markers they have.                      *)
LEMMA ChangedLeaves ==
  ASSUME StarterInv, UNCHANGED <<recorded, removed>>, store' \in [Id -> Object \cup {Absent}],
         \A k \in Id : /\ store'[k] = Absent <=> store[k] = Absent
                       /\ store[k] # Absent => store'[k].marker = store[k].marker
  PROVE  Leaves /\ (copied' = copied /\ (\A k \in Id : store[k] # Absent => store'[k].current = store[k].current)
                       => LeavesInstalled)
<1>1. \A s : Managed(store', s) = Managed(store, s)
  BY DEF Managed
<1>2. Leaves
  BY <1>1 DEF Leaves, StarterInv, StarterShape, StarterTypeOK, HistoryOK
<1>3. ASSUME copied' = copied, \A k \in Id : store[k] # Absent => store'[k].current = store[k].current,
             NEW s \in Starter, InstalledOrDeleted(s)
      PROVE  (InstalledOrDeleted(s))'
  <2>1. \A k \in Managed(store, s) : store'[k].current = store[k].current
    BY <1>3 DEF Managed
  <2> QED
    BY <1>1, <1>3, <2>1, InstalledStays
<1> QED
  BY <1>2, <1>3 DEF LeavesInstalled

LEMMA CompanyCreatesKeeps == StarterInv /\ CompanyCreates => Leaves /\ StarterInv'
<1> SUFFICES ASSUME StarterInv, CompanyCreates PROVE Leaves /\ StarterInv'
  OBVIOUS
<1>1. UNCHANGED <<kind, runs, script, recorded, cmd, outcome, removed, stranded, copied>> /\ Edits
  BY DEF CompanyCreates, history
<1>2. PICK i \in Free, title \in Starter \cup {Own} :
        store' = [store EXCEPT ![i] = [title |-> title, marker |-> NoMarker, current |-> FALSE,
                                       by |-> "company", rev |-> 0]]
  BY DEF CompanyCreates
<1>3. PICK o \in Object : o = [title |-> title, marker |-> NoMarker, current |-> FALSE,
                               by |-> "company", rev |-> 0]
  BY DEF Object
<1>4. o.marker = NoMarker /\ store' = [store EXCEPT ![i] = o]
  BY <1>2, <1>3
<1>5. Leaves /\ LeavesInstalled
  BY <1>1, <1>4, UnmarkedLeaves
<1> QED
  BY <1>1, <1>5, EditsKeeps

LEMMA CompanyEditsKeeps == StarterInv /\ CompanyEdits => Leaves /\ StarterInv'
<1> SUFFICES ASSUME StarterInv, CompanyEdits PROVE Leaves /\ StarterInv'
  OBVIOUS
<1>1. /\ UNCHANGED <<kind, runs, script, recorded, cmd, outcome, removed, stranded, copied>> /\ Edits
      /\ store \in [Id -> Object \cup {Absent}]
  BY DEF CompanyEdits, history, StarterInv, StarterShape, StarterTypeOK
<1>2. PICK i \in Id : /\ store[i] # Absent
                      /\ \E title \in {store[i].title, Own} :
                           store' = [store EXCEPT ![i].title = title, ![i].rev = @ + 1]
  BY DEF CompanyEdits
<1>3. PICK title \in {store[i].title, Own} :
        store' = [store EXCEPT ![i].title = title, ![i].rev = @ + 1]
  BY <1>2
<1>4. PICK old \in Object : old = store[i]
  BY <1>1, <1>2
<1> DEFINE rev == old.rev + 1
           titled == [old EXCEPT !.title = title]
           new == [titled EXCEPT !.rev = rev]
           half == [store EXCEPT ![i] = titled]
<1>5. title \in Starter \cup {Own} /\ rev \in Nat
  BY <1>3, <1>4 DEF Object
<1>6. titled \in Object /\ titled.marker = old.marker /\ titled.rev = old.rev
      /\ titled.current = old.current
  BY <1>5 DEF Object
<1>7. store' = [half EXCEPT ![i] = [half[i] EXCEPT !.rev = half[i].rev + 1]]
  BY <1>3, <1>4
<1> HIDE DEF titled
<1>8. half \in [Id -> Object \cup {Absent}] /\ half[i] = titled
      /\ \A k \in Id : k # i => half[k] = store[k]
  BY <1>1, <1>6
<1> HIDE DEF half
<1>9. store' = [half EXCEPT ![i] = new]
  BY <1>6, <1>7, <1>8
<1> HIDE DEF rev
<1>10. new \in Object /\ new.marker = old.marker /\ new.current = old.current
  BY <1>5, <1>6 DEF Object
<1> HIDE DEF new
<1>11. /\ store' \in [Id -> Object \cup {Absent}]
       /\ \A k \in Id : store'[k] = IF k = i THEN new ELSE store[k]
  BY <1>8, <1>9, <1>10
<1>12. new # Absent
  BY <1>10, AbsentAssumption
<1>13. /\ \A k \in Id : /\ store'[k] = Absent <=> store[k] = Absent
                        /\ store[k] # Absent => /\ store'[k].marker = store[k].marker
                                                /\ store'[k].current = store[k].current
  BY <1>1, <1>2, <1>4, <1>10, <1>11, <1>12
<1>14. Leaves /\ LeavesInstalled
  BY <1>1, <1>11, <1>13, ChangedLeaves
<1> QED
  BY <1>1, <1>14, EditsKeeps

LEMMA CompanyDeletesKeeps == StarterInv /\ CompanyDeletes => Leaves /\ StarterInv'
<1> SUFFICES ASSUME StarterInv, CompanyDeletes PROVE Leaves /\ StarterInv'
  OBVIOUS
<1>1. UNCHANGED <<kind, runs, script, recorded, cmd, outcome, stranded, copied>> /\ Edits
  BY DEF CompanyDeletes
<1>2. Leaves /\ LeavesInstalled
  BY <1>1, DeletedLeaves DEF CompanyDeletes
<1> QED
  BY <1>1, <1>2, EditsKeeps

LEMMA ReleaseKeeps == StarterInv /\ Release => Leaves /\ StarterInv'
<1> SUFFICES ASSUME StarterInv, Release PROVE Leaves /\ StarterInv'
  OBVIOUS
<1>1. /\ UNCHANGED <<kind, runs, script, recorded, cmd, outcome, removed, stranded, copied>> /\ Edits
      /\ store \in [Id -> Object \cup {Absent}] /\ script.at = 0
  BY DEF Release, history, StarterInv, StarterShape, StarterTypeOK
<1>2. PICK s \in Starter :
        store' = [i \in Id |-> IF i \in Managed(store, s) THEN [store[i] EXCEPT !.current = FALSE]
                                                          ELSE store[i]]
  BY DEF Release
<1>3. \A o \in Object : /\ [o EXCEPT !.current = FALSE] \in Object
                        /\ [o EXCEPT !.current = FALSE].marker = o.marker
  BY DEF Object
<1>4. \A k \in Id : k \in Managed(store, s) => store[k] \in Object
  BY <1>1 DEF Managed
<1>5. \A k \in Id : /\ store'[k] \in Object \cup {Absent}
                    /\ store'[k] = Absent <=> store[k] = Absent
                    /\ store[k] # Absent => store'[k].marker = store[k].marker
  <2> TAKE k \in Id
  <2>1. CASE k \in Managed(store, s)
    <3>1. store'[k] = [store[k] EXCEPT !.current = FALSE] /\ store[k] \in Object
      BY <1>2, <1>4, <2>1
    <3>2. store'[k] \in Object /\ store'[k].marker = store[k].marker
      BY <1>3, <3>1
    <3> QED
      BY <3>1, <3>2, AbsentAssumption
  <2>2. CASE k \notin Managed(store, s)
    BY <1>1, <1>2, <2>2
  <2> QED
    BY <2>1, <2>2
<1>6. store' \in [Id -> Object \cup {Absent}]
  BY <1>2, <1>5
<1>7. Leaves
  BY <1>1, <1>5, <1>6, ChangedLeaves
<1> QED
  BY <1>1, <1>7, EditsKeeps

LEMMA RecordLostKeeps == StarterInv /\ RecordLost => Leaves /\ StarterInv'
<1> SUFFICES ASSUME StarterInv, RecordLost PROVE Leaves /\ StarterInv'
  OBVIOUS
<1>1. /\ UNCHANGED <<kind, runs, script, store, cmd, outcome, stranded, copied>> /\ Edits
      /\ recorded' = {} /\ script.at = 0
      /\ removed' = [s \in Starter |-> IF removed[s] = "recorded" THEN "unrecorded" ELSE removed[s]]
  BY DEF RecordLost
<1>2. Leaves
  BY <1>1 DEF Leaves, StarterInv, StarterShape, StarterTypeOK
<1> QED
  BY <1>1, <1>2, EditsKeeps

LEMMA InstallingShape ==
  /\ Installing = [phase |-> "install", step |-> "list", todo |-> Order, record |-> recorded,
                   then |-> FALSE, seen |-> NoListing, overwrite |-> FALSE, titles |-> {},
                   read |-> Absent]
  /\ kind = "dashboards" =>
       Restoring = [phase |-> "restore", step |-> "list", todo |-> Order, record |-> recorded,
                    then |-> FALSE, seen |-> NoListing, overwrite |-> FALSE, titles |-> {},
                    read |-> Absent]
  /\ kind # "dashboards" =>
       Restoring = [phase |-> "install", step |-> "list", todo |-> Order, record |-> recorded,
                    then |-> TRUE, seen |-> NoListing, overwrite |-> FALSE, titles |-> {},
                    read |-> Absent]
<1> DEFINE step == "list"
           phase == "install"
<1>1. Installing = [NoCommand EXCEPT !.phase = phase, !.step = step, !.todo = Order,
                                     !.record = recorded]
  BY DEF Installing
<1> HIDE DEF step, phase
<1>2. Installing = [phase |-> phase, step |-> step, todo |-> Order, record |-> recorded,
                    then |-> FALSE, seen |-> NoListing, overwrite |-> FALSE, titles |-> {},
                    read |-> Absent]
  BY <1>1 DEF NoCommand
<1>3. kind = "dashboards" =>
        Restoring = [phase |-> "restore", step |-> step, todo |-> Order, record |-> recorded,
                     then |-> FALSE, seen |-> NoListing, overwrite |-> FALSE, titles |-> {},
                     read |-> Absent]
  BY <1>2 DEF Restoring
<1>4. kind # "dashboards" =>
        Restoring = [phase |-> phase, step |-> step, todo |-> Order, record |-> recorded,
                     then |-> TRUE, seen |-> NoListing, overwrite |-> FALSE, titles |-> {},
                     read |-> Absent]
  BY <1>2 DEF Restoring
<1> QED
  BY <1>2, <1>3, <1>4 DEF step, phase

(* A command begins with what is on record, and lists the folder first.    *)
LEMMA InstallBegins ==
  ASSUME StarterInv, Begins(Installing) \/ Begins(Restoring), UNCHANGED kind, ScriptShape',
         edits' \in Nat, runs' \in Nat, script'.at # 8, script'.at = 7 => Begins(Restoring),
         script'.at # 0 => script'.probe = Absent \/ (script.at # 0 /\ script'.probe = script.probe)
  PROVE  StarterInv'
<1>1. UNCHANGED <<kind, store, recorded, history>> /\ outcome' = [s \in Starter |-> "none"]
      /\ UNCHANGED <<removed, stranded, copied>>
  BY DEF Begins, history
<1>2. kind \in {"dashboards", "alerts"}
  BY DEF StarterInv, StarterShape, StarterTypeOK
<1> DEFINE phase == IF Begins(Restoring) /\ kind = "dashboards" THEN "restore" ELSE "install"
<1>3. cmd' = [phase |-> phase, step |-> "list", todo |-> Order, record |-> recorded,
              then |-> cmd'.then, seen |-> NoListing, overwrite |-> FALSE, titles |-> {},
              read |-> Absent]
      /\ (cmd'.then => kind = "alerts")
  <2>1. CASE Begins(Restoring)
    BY <1>2, <2>1, InstallingShape DEF Begins
  <2>2. CASE ~ Begins(Restoring)
    <3>1. cmd' = [phase |-> "install", step |-> "list", todo |-> Order, record |-> recorded,
                  then |-> FALSE, seen |-> NoListing, overwrite |-> FALSE, titles |-> {},
                  read |-> Absent]
      BY <2>2, InstallingShape DEF Begins
    <3> QED
      BY <2>2, <3>1
  <2> QED
    BY <2>1, <2>2
<1>4. /\ phase \in {"install", "restore"}
      /\ Begins(Restoring) /\ kind = "dashboards" => phase = "restore"
      /\ cmd'.then => phase = "install"
  BY <1>2, <1>3
<1> HIDE DEF phase
<1>6. CmdShape'
  BY <1>1, <1>3, <1>4, ListingType, OrderStart DEF CmdShape
<1>7. cmd'.phase = phase /\ cmd'.step = "list" /\ cmd'.seen = NoListing /\ cmd'.todo = Order
      /\ cmd'.record = recorded
  BY <1>3
<1>8. StarterShape'
  BY <1>1, <1>6, <1>7, MoveShape
<1>9. HistoryOK'
  BY <1>1, <1>7, MoveHistory
<1>10. SameMarkers'
  BY <1>7 DEF SameMarkers, NoListing
<1>11. InstallOK'
  BY <1>1, <1>7 DEF InstallOK
<1>12. RestoreOK'
  BY <1>7 DEF RestoreOK
<1>13. ScriptOK'
  <2>1. \A s \in Starter : outcome'[s] = "none"
    BY <1>1
  <2>2. ToSet(Order) = Starter
    BY OrderStart
  <2>3. script'.at # 0 /\ script'.probe \in Id /\ store[script'.probe] # Absent
          => store[script'.probe].marker = NoMarker
    BY AbsentAssumption DEF StarterInv, ScriptOK
  <2> QED
    BY <1>1, <1>4, <1>7, <2>1, <2>2, <2>3 DEF ScriptOK
<1> QED
  BY <1>8, <1>9, <1>10, <1>11, <1>12, <1>13 DEF StarterInv

LEMMA RunsKeeps == StarterInv /\ Runs => StarterInv'
<1> SUFFICES ASSUME StarterInv, Runs PROVE StarterInv'
  OBVIOUS
<1>1. /\ UNCHANGED <<kind, edits, script>> /\ script.at = 0
      /\ edits' \in Nat /\ runs' \in Nat
  BY DEF Runs, RunBegins, StarterInv, StarterShape
<1>2. ScriptShape'
  BY <1>1 DEF StarterInv, StarterShape, ScriptShape
<1>3. CASE Begins(Installing) \/ Begins(Restoring)
  BY <1>1, <1>2, <1>3, InstallBegins
<1>4. ASSUME NEW files \in Batches, NEW overwrite \in BOOLEAN, Begins(Importing(files, overwrite))
      PROVE  StarterInv'
  <2>1. UNCHANGED <<kind, store, recorded, history>> /\ outcome' = [s \in Starter |-> "none"]
    BY <1>1, <1>4 DEF Begins
  <2>2. cmd' = [phase |-> "import", step |-> "list", todo |-> files, record |-> {},
                then |-> FALSE, seen |-> NoListing, overwrite |-> overwrite, titles |-> {},
                read |-> Absent]
    BY <1>4 DEF Begins, Importing, NoCommand
  <2>3. files \in Seq(File) /\ files # <<>>
    BY BatchesAssumption
  <2>4. CmdShape'
    BY <2>2, <2>3, ListingType DEF CmdShape
  <2>5. StarterShape'
    BY <1>1, <1>2, <2>1, <2>2, <2>4, MoveShape
  <2>6. HistoryOK'
    BY <2>1, <2>2, MoveHistory
  <2>7. SameMarkers' /\ InstallOK' /\ RestoreOK'
    BY <2>2 DEF SameMarkers, InstallOK, RestoreOK
  <2>8. ScriptOK'
    BY <1>1 DEF ScriptOK
  <2> QED
    BY <2>5, <2>6, <2>7, <2>8 DEF StarterInv
<1> QED
  BY <1>3, <1>4 DEF Runs, RunBegins

LEMMA KilledKeeps == StarterInv /\ Interrupted => StarterInv'
<1> SUFFICES ASSUME StarterInv, Interrupted PROVE StarterInv'
  OBVIOUS
<1>1. UNCHANGED <<kind, edits, runs, store, recorded, outcome, history>>
  BY DEF Interrupted
<1>2. cmd' = [phase |-> "none", step |-> "idle", todo |-> <<>>, record |-> {}, then |-> FALSE,
              seen |-> NoListing, overwrite |-> FALSE, titles |-> {}, read |-> Absent]
  BY DEF Interrupted, NoCommand
<1>3. ScriptShape' /\ script'.at = 0
  BY DEF Interrupted, StarterInv, StarterShape, ScriptShape
<1>4. CmdShape'
  BY <1>2, ListingType DEF CmdShape
<1>5. StarterShape'
  BY <1>1, <1>2, <1>3, <1>4, MoveShape DEF StarterInv, StarterShape
<1>6. HistoryOK'
  BY <1>1, <1>2, MoveHistory
<1>7. SameMarkers' /\ InstallOK' /\ RestoreOK' /\ ScriptOK'
  BY <1>2, <1>3 DEF SameMarkers, InstallOK, RestoreOK, ScriptOK
<1> QED
  BY <1>5, <1>6, <1>7 DEF StarterInv

LEMMA ScriptGoesFacts ==
  ASSUME StarterInv, NEW at \in {0} \cup 2..9, NEW STATE surprise, ScriptGoes(at, surprise)
  PROVE  /\ ScriptShape' /\ script'.probe = script.probe /\ script'.at \in {0, at}
         /\ surprise => script'.at = 0 \/ script'.findings
<1>1. script = [at |-> script.at, findings |-> script.findings, probe |-> script.probe,
                target |-> script.target, count |-> script.count, verdict |-> script.verdict]
      /\ script.probe \in Id \cup {Absent} /\ script.verdict \in {"none", "passed", "failed", "thrown"}
  BY DEF StarterInv, StarterShape, ScriptShape
<1>2. script.findings \in BOOLEAN
  BY Zenon DEF StarterInv, StarterShape, ScriptShape
<1>3. CASE surprise /\ kind = "alerts"
  <2>1. script' = [at |-> 0, findings |-> script.findings, probe |-> script.probe,
                   target |-> script.target, count |-> script.count, verdict |-> "thrown"]
    BY <1>1, <1>3 DEF ScriptGoes
  <2>2. script'.findings \in BOOLEAN
    BY <1>2, <2>1
  <2> QED
    BY <1>1, <2>1, <2>2 DEF ScriptShape
<1>4. CASE ~ (surprise /\ kind = "alerts")
  <2> DEFINE some == script.findings \/ surprise
  <2>1. some \in BOOLEAN /\ (surprise => some)
    BY Zenon
  <2>2. script' = [script EXCEPT !.at = at, !.findings = some]
    BY <1>4 DEF ScriptGoes
  <2> HIDE DEF some
  <2>3. script' = [at |-> at, findings |-> some, probe |-> script.probe,
                   target |-> script.target, count |-> script.count, verdict |-> script.verdict]
    BY <1>1, <2>2
  <2>4. script'.findings \in BOOLEAN
    BY <2>1, <2>3
  <2>5. surprise => script'.findings
    BY <2>1, <2>3
  <2> QED
    BY <1>1, <2>3, <2>4, <2>5 DEF ScriptShape
<1> QED
  BY <1>3, <1>4

LEMMA NoCommandRuns == StarterInv /\ cmd.step = "idle" => cmd.phase = "none"
BY DEF StarterInv, StarterShape, CmdShape

(* The script is at another step while no command runs.                    *)
LEMMA ScriptMoves ==
  ASSUME StarterInv, cmd.step = "idle", Leaves,
         UNCHANGED <<kind, edits, runs, cmd, outcome, stranded, copied>>,
         ScriptShape', script'.at # 7, script'.at = 8 /\ kind = "dashboards" => script'.findings,
         script'.at # 0 /\ script'.probe \in Id /\ store'[script'.probe] # Absent
           => store'[script'.probe].marker = NoMarker
  PROVE  StarterInv'
<1>1. cmd'.phase = "none"
  BY NoCommandRuns
<1>2. ScriptOK'
  BY <1>1 DEF ScriptOK
<1>3. edits' \in Nat /\ runs' \in Nat
  BY DEF StarterInv, StarterShape
<1> QED
  BY <1>2, <1>3, LeavesKeeps

LEMMA ProbeLeaves ==
  ASSUME StarterInv, script.at # 0, UNCHANGED <<recorded, removed>>,
         store' \in {store, [store EXCEPT ![script.probe] = Absent]}
  PROVE  Leaves
<1>1. store \in [Id -> Object \cup {Absent}]
  BY DEF StarterInv, StarterShape, StarterTypeOK
<1>2. CASE script.probe \in Id /\ store[script.probe] # Absent /\ store' # store
  <2>1. PICK i \in Id : i = script.probe
    BY <1>2
  <2>2. store[i] # Absent /\ store[i].marker = NoMarker /\ store' = [store EXCEPT ![i] = Absent]
    BY <1>2, <2>1 DEF StarterInv, ScriptOK
  <2> QED
    BY <2>2, DeletedLeaves
<1>3. CASE ~ (script.probe \in Id /\ store[script.probe] # Absent) \/ store' = store
  <2>1. store' = store
    BY <1>1, <1>3
  <2> QED
    BY <2>1, SameLeaves
<1> QED
  BY <1>2, <1>3

LEMMA VerifyInstallsKeeps == StarterInv /\ VerifyInstalls => StarterInv'
<1> SUFFICES ASSUME StarterInv, VerifyInstalls PROVE StarterInv'
  OBVIOUS
<1>1. /\ UNCHANGED <<kind, edits>> /\ Begins(Installing) /\ edits' \in Nat /\ runs' \in Nat
  BY DEF VerifyInstalls, StarterInv, StarterShape
<1>2. CASE script' = [NoScript EXCEPT !.at = 2]
  <2>1. script' = [at |-> 2, findings |-> FALSE, probe |-> Absent, target |-> NoMarker, count |-> 0,
                   verdict |-> "none"]
    BY <1>2 DEF NoScript
  <2>2. FALSE \in BOOLEAN
    OBVIOUS
  <2>3. ScriptShape' /\ script'.at = 2 /\ script'.probe = Absent
    BY <2>1, <2>2 DEF ScriptShape
  <2> QED
    BY <1>1, <2>3, InstallBegins
<1>3. CASE AtStep(2) /\ ScriptGoes(3, kind = "dashboards" /\ \E s \in Starter : outcome[s] \in {"FAILED", "MISREAD"})
  <2>1. ScriptShape' /\ script'.probe = script.probe /\ script'.at \in {0, 3}
    BY <1>3, ScriptGoesFacts
  <2> QED
    BY <1>1, <1>3, <2>1, InstallBegins DEF AtStep
<1> QED
  BY <1>2, <1>3 DEF VerifyInstalls

LEMMA VerifyProbeKeeps == StarterInv /\ VerifyProbe => Leaves /\ StarterInv'
<1> SUFFICES ASSUME StarterInv, VerifyProbe PROVE Leaves /\ StarterInv'
  OBVIOUS
<1>1. /\ UNCHANGED <<kind, edits, runs, recorded, cmd, outcome, removed, stranded, copied>>
      /\ cmd.step = "idle"
  BY DEF VerifyProbe, history, AtStep
<1>2. /\ script = [at |-> script.at, findings |-> script.findings, probe |-> script.probe,
                   target |-> script.target, count |-> script.count, verdict |-> script.verdict]
      /\ script.probe \in Id \cup {Absent} /\ script.verdict \in {"none", "passed", "failed", "thrown"}
  BY DEF StarterInv, StarterShape, ScriptShape
<1>3. script.findings \in BOOLEAN
  BY Zenon DEF StarterInv, StarterShape, ScriptShape
<1>4. ASSUME NEW i \in Free,
             store' = [store EXCEPT ![i] = [title |-> Own, marker |-> NoMarker, by |-> "company",
                                            current |-> FALSE, rev |-> 0]],
             script' = [script EXCEPT !.at = 4, !.probe = i, !.findings = @ \/ ~ InPlace]
      PROVE  Leaves /\ StarterInv'
  <2>1. PICK o \in Object : o = [title |-> Own, marker |-> NoMarker, by |-> "company",
                                 current |-> FALSE, rev |-> 0]
    BY DEF Object
  <2>2. o.marker = NoMarker /\ store' = [store EXCEPT ![i] = o]
    BY <1>4, <2>1
  <2>3. Leaves
    BY <1>1, <2>2, UnmarkedLeaves
  <2> DEFINE some == script.findings \/ ~ InPlace
  <2>4. some \in BOOLEAN
    BY Zenon
  <2>5. script' = [script EXCEPT !.at = 4, !.probe = i, !.findings = some]
    BY <1>4
  <2> HIDE DEF some
  <2>6. script' = [at |-> 4, findings |-> some, probe |-> i, target |-> script.target,
                   count |-> script.count, verdict |-> script.verdict]
    BY <1>2, <2>5
  <2>7. script'.findings \in BOOLEAN /\ i \in Id
    BY <2>4, <2>6 DEF Free
  <2>8. ScriptShape' /\ script'.at = 4 /\ script'.probe = i
    BY <1>2, <2>6, <2>7 DEF ScriptShape
  <2>9. store'[i].marker = NoMarker
    <3>1. store \in [Id -> Object \cup {Absent}]
      BY DEF StarterInv, StarterShape, StarterTypeOK
    <3> QED
      BY <2>2, <2>7, <3>1
  <2> QED
    BY <1>1, <2>3, <2>8, <2>9, ScriptMoves
<1>5. ASSUME NEW v \in {"thrown", "failed"}, script' = [script EXCEPT !.at = 0, !.verdict = v],
             UNCHANGED store
      PROVE  Leaves /\ StarterInv'
  <2>1. Leaves
    BY <1>1, <1>5, SameLeaves
  <2>2. script' = [at |-> 0, findings |-> script.findings, probe |-> script.probe,
                   target |-> script.target, count |-> script.count, verdict |-> v]
    BY <1>2, <1>5
  <2>3. script'.findings \in BOOLEAN
    BY <1>3, <2>2
  <2>4. ScriptShape' /\ script'.at = 0
    BY <1>2, <2>2, <2>3 DEF ScriptShape
  <2> QED
    BY <1>1, <2>1, <2>4, ScriptMoves
<1> QED
  BY <1>4, <1>5 DEF VerifyProbe

LEMMA ScriptParts ==
  StarterInv =>
    /\ script = [at |-> script.at, findings |-> script.findings, probe |-> script.probe,
                 target |-> script.target, count |-> script.count, verdict |-> script.verdict]
    /\ script.probe \in Id \cup {Absent} /\ script.verdict \in {"none", "passed", "failed", "thrown"}
    /\ script.findings \in BOOLEAN
<1> SUFFICES ASSUME StarterInv
             PROVE  /\ script = [at |-> script.at, findings |-> script.findings, probe |-> script.probe,
                                 target |-> script.target, count |-> script.count,
                                 verdict |-> script.verdict]
                    /\ script.probe \in Id \cup {Absent}
                    /\ script.verdict \in {"none", "passed", "failed", "thrown"}
                    /\ script.findings \in BOOLEAN
  OBVIOUS
<1>1. script.findings \in BOOLEAN
  BY Zenon DEF StarterInv, StarterShape, ScriptShape
<1> QED
  BY <1>1 DEF StarterInv, StarterShape, ScriptShape

LEMMA VerifyDeletionKeeps == StarterInv /\ VerifyDeletion => Leaves /\ StarterInv'
<1> SUFFICES ASSUME StarterInv, VerifyDeletion PROVE Leaves /\ StarterInv'
  OBVIOUS
<1>1. /\ UNCHANGED <<kind, edits, runs, recorded, cmd, outcome, stranded, copied>>
      /\ cmd.step = "idle" /\ script.at = 4 /\ store \in [Id -> Object \cup {Absent}]
  BY DEF VerifyDeletion, AtStep, StarterInv, StarterShape, StarterTypeOK
<1>2. ASSUME ScriptShape', Leaves, script'.at \in {0, 5, 8}, script'.probe = script.probe,
             script'.at = 8 => script'.findings,
             \A k \in Id : store'[k] # Absent => store'[k] = store[k]
      PROVE  StarterInv'
  <2>1. script.probe \in Id /\ store'[script.probe] # Absent => store'[script.probe].marker = NoMarker
    BY <1>1, <1>2 DEF StarterInv, ScriptOK
  <2> QED
    BY <1>1, <1>2, <2>1, ScriptMoves
<1>3. ASSUME NEW s \in Targets, NEW i \in Managed(store, s),
             store' = [store EXCEPT ![i] = Absent],
             removed' = IF Managed(store, s) = {i}
                          THEN [removed EXCEPT ![s] = IF s \in recorded THEN "recorded"
                                                      ELSE "unrecorded"]
                          ELSE removed,
             script' = [script EXCEPT !.at = 5, !.target = s, !.count = MarkedCount - 1]
      PROVE  Leaves /\ StarterInv'
  <2>1. i \in Id /\ store[i] # Absent /\ store[i].marker = s
    BY DEF Managed
  <2>2. s \in Starter /\ s # NoMarker
    BY OrderAssumption, OrderStart DEF Targets, Starter
  <2>3. Leaves
    BY <1>1, <1>3, <2>1, <2>2, DeletedLeaves
  <2> DEFINE count == MarkedCount - 1
  <2>4. script' = [script EXCEPT !.at = 5, !.target = s, !.count = count]
    BY <1>3
  <2> HIDE DEF count
  <2>5. script' = [at |-> 5, findings |-> script.findings, probe |-> script.probe, target |-> s,
                   count |-> count, verdict |-> script.verdict]
    BY <2>4, ScriptParts
  <2>6. script'.findings \in BOOLEAN
    BY <2>5, ScriptParts
  <2>7. ScriptShape' /\ script'.at = 5 /\ script'.probe = script.probe
    BY <2>5, <2>6, ScriptParts DEF ScriptShape
  <2> QED
    BY <1>1, <1>2, <1>3, <2>1, <2>3, <2>7
<1>4. ASSUME NEW s \in Targets, UNCHANGED <<store, removed>>,
             script' = [script EXCEPT !.at = 5, !.target = s, !.count = MarkedCount,
                                      !.findings = @ \/ kind = "dashboards"]
      PROVE  Leaves /\ StarterInv'
  <2>1. Leaves
    BY <1>1, <1>4, SameLeaves
  <2> DEFINE some == script.findings \/ kind = "dashboards"
             count == MarkedCount
  <2>2. some \in BOOLEAN
    BY Zenon
  <2>3. script' = [script EXCEPT !.at = 5, !.target = s, !.count = count, !.findings = some]
    BY <1>4
  <2> HIDE DEF some, count
  <2>4. script' = [at |-> 5, findings |-> some, probe |-> script.probe, target |-> s,
                   count |-> count, verdict |-> script.verdict]
    BY <2>3, ScriptParts
  <2>5. script'.findings \in BOOLEAN
    BY <2>2, <2>4
  <2>6. ScriptShape' /\ script'.at = 5 /\ script'.probe = script.probe
    BY <2>4, <2>5, ScriptParts DEF ScriptShape
  <2> QED
    BY <1>2, <1>4, <2>1, <2>6
<1>5. ASSUME ScriptGoes(8, TRUE), UNCHANGED <<store, removed>>
      PROVE  Leaves /\ StarterInv'
  <2>1. Leaves
    BY <1>1, <1>5, SameLeaves
  <2>2. 8 \in {0} \cup 2..9
    OBVIOUS
  <2>3. ScriptShape' /\ script'.probe = script.probe /\ script'.at \in {0, 8}
        /\ (script'.at = 0 \/ script'.findings)
    BY <1>5, <2>2, ScriptGoesFacts, Zenon
  <2> QED
    BY <1>2, <1>5, <2>1, <2>3
<1> QED
  BY <1>3, <1>4, <1>5 DEF VerifyDeletion

LEMMA VerifyReinstallKeeps == StarterInv /\ VerifyReinstall => StarterInv'
<1> SUFFICES ASSUME StarterInv, VerifyReinstall PROVE StarterInv'
  OBVIOUS
<1>1. /\ UNCHANGED <<kind, edits, runs>> /\ Begins(Installing) /\ edits' \in Nat /\ runs' \in Nat
      /\ script.at = 5
  BY DEF VerifyReinstall, AtStep, StarterInv, StarterShape
<1>2. script' = [at |-> 6, findings |-> script.findings, probe |-> script.probe,
                 target |-> script.target, count |-> script.count, verdict |-> script.verdict]
  BY ScriptParts DEF VerifyReinstall
<1>3. script'.findings \in BOOLEAN
  BY <1>2, ScriptParts
<1>4. ScriptShape' /\ script'.at = 6 /\ script'.probe = script.probe
  BY <1>2, <1>3, ScriptParts DEF ScriptShape
<1> QED
  BY <1>1, <1>4, InstallBegins

LEMMA VerifyRestoreKeeps == StarterInv /\ VerifyRestore => StarterInv'
<1> SUFFICES ASSUME StarterInv, VerifyRestore PROVE StarterInv'
  OBVIOUS
<1>1. /\ UNCHANGED <<kind, edits, runs>> /\ Begins(Restoring) /\ edits' \in Nat /\ runs' \in Nat
      /\ script.at # 0
  BY DEF VerifyRestore, AtStep, StarterInv, StarterShape
<1> DEFINE some == script.findings \/ (kind = "dashboards" /\ ~ Respected)
<1>2. some \in BOOLEAN
  BY Zenon
<1>3. script' = [script EXCEPT !.at = 7, !.findings = some]
  BY DEF VerifyRestore
<1> HIDE DEF some
<1>4. script' = [at |-> 7, findings |-> some, probe |-> script.probe,
                 target |-> script.target, count |-> script.count, verdict |-> script.verdict]
  BY <1>3, ScriptParts
<1>5. script'.findings \in BOOLEAN
  BY <1>2, <1>4
<1>6. ScriptShape' /\ script'.at = 7 /\ script'.probe = script.probe
  BY <1>4, <1>5, ScriptParts DEF ScriptShape
<1> QED
  BY <1>1, <1>6, InstallBegins

LEMMA VerifyCleansKeeps == StarterInv /\ VerifyCleans => Leaves /\ StarterInv'
<1> SUFFICES ASSUME StarterInv, VerifyCleans PROVE Leaves /\ StarterInv'
  OBVIOUS
<1>1. /\ UNCHANGED <<kind, edits, runs, recorded, cmd, outcome, removed, stranded, copied>>
      /\ cmd.step = "idle" /\ script.at = 6 /\ kind = "alerts"
  BY DEF VerifyCleans, history, AtStep
<1>2. CASE /\ store' \in {store, [store EXCEPT ![script.probe] = Absent]}
           /\ script' = [script EXCEPT !.at = 9, !.probe = Absent]
  <2>1. Leaves
    BY <1>1, <1>2, ProbeLeaves
  <2>2. script' = [at |-> 9, findings |-> script.findings, probe |-> Absent,
                   target |-> script.target, count |-> script.count, verdict |-> script.verdict]
    BY <1>2, ScriptParts
  <2>3. script'.findings \in BOOLEAN
    BY <2>2, ScriptParts
  <2>4. ScriptShape' /\ script'.at = 9 /\ script'.probe = Absent
    BY <2>2, <2>3, ScriptParts DEF ScriptShape
  <2> QED
    BY <1>1, <2>1, <2>4, AbsentAssumption, ScriptMoves
<1>3. CASE ScriptGoes(0, TRUE) /\ UNCHANGED store
  <2>1. Leaves
    BY <1>1, <1>3, SameLeaves
  <2>2. ScriptShape' /\ script'.at = 0
    <3>1. 0 \in {0} \cup 2..9
      OBVIOUS
    <3>2. ScriptShape' /\ script'.at \in {0, 0}
      BY <1>3, <3>1, ScriptGoesFacts, Zenon
    <3> QED
      BY <3>2
  <2> QED
    BY <1>1, <2>1, <2>2, ScriptMoves
<1> QED
  BY <1>2, <1>3 DEF VerifyCleans

LEMMA VerifyEndsKeeps == StarterInv /\ VerifyEnds => Leaves /\ StarterInv'
<1> SUFFICES ASSUME StarterInv, VerifyEnds PROVE Leaves /\ StarterInv'
  OBVIOUS
<1>1. /\ UNCHANGED <<kind, edits, runs, recorded, cmd, outcome, removed, stranded, copied>>
      /\ cmd.step = "idle" /\ script.at # 0
      /\ store' \in {store, [store EXCEPT ![script.probe] = Absent]}
  BY DEF VerifyEnds, history, AtStep
<1>2. Leaves
  BY <1>1, ProbeLeaves
<1>3. PICK v \in {"failed", "passed"} : script' = [NoScript EXCEPT !.verdict = v]
  BY DEF VerifyEnds
<1>4. script' = [at |-> 0, findings |-> FALSE, probe |-> Absent, target |-> NoMarker, count |-> 0,
                 verdict |-> v]
  BY <1>3 DEF NoScript
<1>5. FALSE \in BOOLEAN
  OBVIOUS
<1>6. ScriptShape' /\ script'.at = 0
  BY <1>4, <1>5 DEF ScriptShape
<1> QED
  BY <1>1, <1>2, <1>6, ScriptMoves

LEMMA StarterStart == StarterInit => StarterInv
<1> SUFFICES ASSUME StarterInit PROVE StarterInv
  OBVIOUS
<1>1. cmd = [phase |-> "none", step |-> "idle", todo |-> <<>>, record |-> {}, then |-> FALSE,
             seen |-> NoListing, overwrite |-> FALSE, titles |-> {}, read |-> Absent]
  BY DEF StarterInit, NoCommand
<1>2. script = [at |-> 0, findings |-> FALSE, probe |-> Absent, target |-> NoMarker, count |-> 0,
                verdict |-> "none"]
  BY DEF StarterInit, NoScript
<1>3. FALSE \in BOOLEAN
  OBVIOUS
<1>4. CmdShape /\ ScriptShape
  BY <1>1, <1>2, <1>3, ListingType DEF CmdShape, ScriptShape
<1>5. StarterShape
  <2>1. /\ store \in [Id -> Object \cup {Absent}]
        /\ outcome \in [Starter -> {"none", "NO_CHANGE", "SKIP_VERSION", "SKIP_DELETED",
                                    "SKIP_COLLISION", "FAILED", "CREATED", "MISREAD"}]
        /\ removed \in [Starter -> {"no", "recorded", "unrecorded"}]
    BY DEF StarterInit
  <2>2. StarterTypeOK
    <3>1. copied \in BOOLEAN
      BY DEF StarterInit
    <3> QED
      BY <1>1, <1>2, <2>1, <3>1, ListingType DEF StarterTypeOK, StarterInit
  <2> QED
    BY <1>4, <2>2 DEF StarterShape, StarterInit
<1>6. SameMarkers /\ InstallOK /\ RestoreOK
  BY <1>1 DEF SameMarkers, InstallOK, RestoreOK
<1>7. HistoryOK
  <2>1. \A s : Managed(store, s) = {}
    BY DEF StarterInit, Managed
  <2> QED
    BY <1>1, <2>1 DEF HistoryOK, AbsenceExplained, Single, StarterInit
<1>8. ScriptOK
  BY <1>2 DEF ScriptOK
<1> QED
  BY <1>5, <1>6, <1>7, <1>8 DEF StarterInv

LEMMA StarterKept == StarterInv /\ [StarterNext]_starterVars => StarterInv'
<1> SUFFICES ASSUME StarterInv, [StarterNext]_starterVars PROVE StarterInv'
  OBVIOUS
<1>1. CASE UNCHANGED starterVars
  <2>1. UNCHANGED <<kind, edits, runs, script, store, recorded, cmd, outcome, removed, stranded, copied>>
    BY <1>1 DEF starterVars, work, history
  <2>2. Leaves
    BY <2>1, SameLeaves
  <2>3. ScriptShape' /\ ScriptOK' /\ edits' \in Nat /\ runs' \in Nat
    <3>1. ScriptShape' /\ edits' \in Nat /\ runs' \in Nat
      BY <2>1 DEF StarterInv, StarterShape, ScriptShape
    <3>2. First' = First /\ \A s : Managed(store', s) = Managed(store, s)
      BY <2>1 DEF First
    <3> QED
      BY <2>1, <3>1, <3>2 DEF StarterInv, ScriptOK, InstalledOrDeleted, InRelease
  <2> QED
    BY <2>1, <2>2, <2>3, LeavesKeeps
<1>2. CASE CommandStep
  BY <1>2, ReturnsKeeps, ListKeeps, DecidesKeeps, CreateKeeps, CreateFailsKeeps, RecordKeeps,
     RestoreDeletesKeeps, SweepKeeps, SweepEndsKeeps, ImportSkipsKeeps, ImportCreatesKeeps,
     ImportReadsKeeps, ImportPutsKeeps
  DEF CommandStep
<1>3. CASE CompanyStep
  BY <1>3, CompanyCreatesKeeps, CompanyEditsKeeps, CompanyDeletesKeeps, ReleaseKeeps,
     RecordLostKeeps
  DEF CompanyStep
<1>4. CASE Verifies
  BY <1>4, VerifyInstallsKeeps, VerifyProbeKeeps, VerifyDeletionKeeps, VerifyReinstallKeeps,
     VerifyCleansKeeps, VerifyRestoreKeeps, VerifyEndsKeeps
  DEF Verifies
<1> QED
  BY <1>1, <1>2, <1>3, <1>4, RunsKeeps, KilledKeeps DEF StarterNext

(* Two copies of one starter are never in the folder, unless an import made *)
(* one, the sweep of a restore left one or a listing was unreadable; a      *)
(* starter on record that is missing was deleted or replaced, and its       *)
(* absence is never one that nobody caused: what the decision of            *)
(* install-starters to respect a deletion rests on.                         *)
THEOREM StartersStayWhole == Spec => []StartersOK
<1>1. Init => StarterInv
  BY StarterStart DEF Init
<1>2. [Next]_governanceVars => [StarterNext]_starterVars
  BY DEF Next, governanceVars
<1>3. StarterInv => StartersOK
  <2> SUFFICES ASSUME StarterInv PROVE StartersOK
    OBVIOUS
  <2>1. StarterTypeOK /\ AbsenceExplained
    BY DEF StarterInv, StarterShape, HistoryOK
  <2>2. ~ copied => \A s \in Starter : Single(Managed(store, s))
    BY DEF StarterInv, HistoryOK
  <2>3. OneCopyEach
    BY <2>2, SingleFacts DEF OneCopyEach
  <2> QED
    BY <2>1, <2>3 DEF StartersOK
<1> QED
  BY <1>1, <1>2, <1>3, StarterKept, PTL DEF Spec

(* A step that neither is a command's nor the company's leaves the folder  *)
(* as it is, and so do most of the commands' steps.                        *)
LEMMA QuietSteps ==
  StarterNext =>
    \/ UNCHANGED store
    \/ Create \/ RestoreDeletes \/ Sweep \/ ImportCreates \/ ImportPuts
    \/ CompanyStep \/ VerifyProbe \/ VerifyDeletion \/ VerifyCleans \/ VerifyEnds
<1>1. CommandStep => \/ UNCHANGED store
                     \/ Create \/ RestoreDeletes \/ Sweep \/ ImportCreates \/ ImportPuts
  BY DEF CommandStep, Returns, List, InstallDecides, CreateFails, Record, SweepEnds, ImportSkips,
         ImportReads
<1>2. Runs \/ Interrupted => UNCHANGED store
  BY DEF Runs, RunBegins, Begins, Interrupted
<1>3. VerifyInstalls \/ VerifyReinstall \/ VerifyRestore => UNCHANGED store
  BY DEF VerifyInstalls, VerifyReinstall, VerifyRestore, Begins
<1> QED
  BY <1>1, <1>2, <1>3 DEF StarterNext, Verifies

(* However old its listing is, a command only deletes what carries the     *)
(* marker of a starter, and only an import that was told to overwrite      *)
(* changes what the company made.                                          *)
LEMMA WorkSurvives ==
  ASSUME StarterInv, CommandStep, NEW i \in Id,
         store[i] # Absent, store[i].by = "company", store[i].marker = NoMarker
  PROVE  store'[i] = store[i] \/ (cmd.phase = "import" /\ cmd.overwrite /\ store'[i] # Absent)
<1>1. store \in [Id -> Object \cup {Absent}]
  BY DEF StarterInv, StarterShape, StarterTypeOK
<1>2. \A k \in Free : \A o : store' = [store EXCEPT ![k] = o] => store'[i] = store[i]
  BY <1>1 DEF Free
<1>3. \A k \in Id : store' = [store EXCEPT ![k] = Absent] /\ store[k].marker # NoMarker
                      => store'[i] = store[i]
  BY <1>1
<1>4. CASE Create
  BY <1>2, <1>4 DEF Create
<1>5. CASE ImportCreates
  BY <1>2, <1>5 DEF ImportCreates
<1>6. ASSUME NEW k \in Id, store' = [store EXCEPT ![k] = Absent], cmd.phase = "restore",
             cmd.seen[k] # Absent, cmd.seen[k].marker # NoMarker
      PROVE  store'[i] = store[i]
  <2>1. CASE store[k] = Absent
    BY <1>1, <1>6, <2>1
  <2>2. CASE store[k] # Absent
    BY <1>3, <1>6, <2>2 DEF StarterInv, SameMarkers
  <2> QED
    BY <2>1, <2>2
<1>7. CASE RestoreDeletes
  <2>1. cmd.phase = "restore" /\ First \in Starter
    BY <1>7, OrderFacts DEF RestoreDeletes, First, StarterInv, StarterShape, CmdShape
  <2>2. UNCHANGED store \/ \E k \in Managed(cmd.seen, First) : store' = [store EXCEPT ![k] = Absent]
    BY <1>7 DEF RestoreDeletes
  <2>3. \A k \in Managed(cmd.seen, First) : k \in Id /\ cmd.seen[k] # Absent /\ cmd.seen[k].marker # NoMarker
    BY <2>1, OrderAssumption DEF Managed
  <2> QED
    BY <1>6, <2>1, <2>2, <2>3
<1>8. CASE Sweep
  <2>1. cmd.phase = "restore"
    BY <1>8 DEF Sweep, StarterInv, StarterShape, CmdShape
  <2>2. UNCHANGED store \/ \E k \in Marked : store' = [store EXCEPT ![k] = Absent]
    BY <1>8 DEF Sweep
  <2> QED
    BY <1>6, <2>1, <2>2 DEF Marked
<1>9. CASE ImportPuts /\ ~ UNCHANGED store
  <2>1. cmd.phase = "import" /\ cmd.overwrite /\ cmd.read.id \in Id
    BY <1>9 DEF ImportPuts, StarterInv, StarterShape, CmdShape
  <2>2. /\ store[cmd.read.id] # Absent
        /\ store' = [store EXCEPT ![cmd.read.id] = ReplacedBy(@, First)]
    BY <1>9 DEF ImportPuts, Overwrites
  <2>3. /\ store[cmd.read.id] \in Object /\ First.title \in Starter \cup {Own}
        /\ First.marker \in Starter \cup {NoMarker}
    BY <1>1, <2>1, <2>2, FileFacts
  <2>4. ReplacedBy(store[cmd.read.id], First) # Absent
    BY <2>3, ReplacedFacts, AbsentAssumption
  <2> QED
    BY <1>1, <2>1, <2>2, <2>4
<1>10. Create \/ RestoreDeletes \/ Sweep \/ ImportCreates \/ ImportPuts \/ UNCHANGED store
  BY DEF CommandStep, Returns, List, InstallDecides, CreateFails, Record, SweepEnds, ImportSkips,
         ImportReads
<1> QED
  BY <1>4, <1>5, <1>7, <1>8, <1>9, <1>10

(* An installation finds the deletion in the record that it read, and      *)
(* nobody else adds a copy while it runs.                                  *)
LEMMA DeletionsRespected ==
  ASSUME StarterInv, StarterNext, NEW s \in Starter,
         removed[s] = "recorded", cmd.phase = "install", Managed(store, s) = {}
  PROVE  Managed(store', s) = {}
<1>1. CASE UNCHANGED store
  BY <1>1
<1>2. CASE Create
  <2>1. cmd.step = "create" /\ cmd.todo \in OrderRests /\ cmd.todo # <<>>
    BY <1>2 DEF Create, StarterInv, StarterShape, CmdShape
  <2>2. First \in Starter /\ First \notin recorded /\ s \in recorded
    BY <2>1, OrderFacts DEF First, StarterInv, InstallOK, HistoryOK
  <2>3. PICK i \in Free : store' = [store EXCEPT ![i] = StarterCopy(First)]
    BY <1>2 DEF Create
  <2>4. PICK o \in Object : o = StarterCopy(First)
    BY <2>2 DEF StarterCopy, Object
  <2>5. o.marker # s /\ store' = [store EXCEPT ![i] = o]
    BY <2>2, <2>3, <2>4 DEF StarterCopy
  <2>6. StoreGains(i, o)
    BY <2>5, AddedFacts, Zenon
  <2> QED
    BY <2>5, <2>6 DEF StoreGains
<1>3. CASE RestoreDeletes \/ Sweep \/ ImportCreates \/ ImportPuts
  BY <1>3 DEF RestoreDeletes, Sweep, ImportCreates, ImportPuts, StarterInv, StarterShape, CmdShape
<1>4. CASE CompanyStep \/ VerifyProbe \/ VerifyDeletion \/ VerifyCleans \/ VerifyEnds
  <2>1. Leaves
    BY <1>4, CompanyCreatesKeeps, CompanyEditsKeeps, CompanyDeletesKeeps, ReleaseKeeps,
       RecordLostKeeps, VerifyProbeKeeps, VerifyDeletionKeeps, VerifyCleansKeeps, VerifyEndsKeeps
    DEF CompanyStep
  <2> QED
    BY <2>1 DEF Leaves
<1> QED
  BY <1>1, <1>2, <1>3, <1>4, QuietSteps

LEMMA EditsKept ==
  ASSUME StarterInv, StarterNext, cmd.step = "put", store' # store, cmd' # cmd
  PROVE  store[cmd.read.id] = cmd.read.object
<1>1. CASE ImportPuts
  BY <1>1 DEF ImportPuts
<1>2. CASE Create \/ RestoreDeletes \/ Sweep \/ ImportCreates
  BY <1>2 DEF Create, RestoreDeletes, Sweep, ImportCreates
<1>3. CASE CompanyStep
  BY <1>3 DEF CompanyStep, CompanyCreates, CompanyEdits, CompanyDeletes, Release, RecordLost
<1>4. CASE VerifyProbe \/ VerifyDeletion \/ VerifyCleans \/ VerifyEnds
  BY <1>4 DEF VerifyProbe, VerifyDeletion, VerifyCleans, VerifyEnds
<1> QED
  BY <1>1, <1>2, <1>3, <1>4, QuietSteps

(* What the company made, renamed, edited or deleted stays as it left it,  *)
(* for every length of its work and of the commands'.                      *)
THEOREM CompanyKeepsItsWork == Spec => CompanyWorkKept
<1> DEFINE Survives ==
             CommandStep =>
               \A i \in Id :
                 store[i] # Absent /\ store[i].by = "company" /\ store[i].marker = NoMarker
                   => \/ store'[i] = store[i]
                      \/ cmd.phase = "import" /\ cmd.overwrite /\ store'[i] # Absent
           Respects ==
             \A s \in Starter :
               removed[s] = "recorded" /\ cmd.phase = "install" /\ Managed(store, s) = {}
                 => Managed(store', s) = {}
           Checks == cmd.step = "put" /\ store' # store /\ cmd' # cmd
                       => store[cmd.read.id] = cmd.read.object
<1>1. Init => StarterInv
  BY StarterStart DEF Init
<1>2. [Next]_governanceVars => [StarterNext]_starterVars
  BY DEF Next, governanceVars
<1>3. StarterInv /\ StarterNext => Survives
  BY WorkSurvives
<1>4. StarterInv /\ StarterNext => Respects
  BY DeletionsRespected
<1>5. StarterInv /\ StarterNext => Checks
  BY EditsKept
<1>6. StarterInv /\ [StarterNext]_starterVars
        => [Survives]_starterVars /\ [Respects]_starterVars /\ [Checks]_starterVars
  BY <1>3, <1>4, <1>5
<1> HIDE DEF Survives, Respects, Checks
<1>7. Spec => [][Survives]_starterVars /\ [][Respects]_starterVars /\ [][Checks]_starterVars
  BY <1>1, <1>2, <1>6, StarterKept, PTL DEF Spec
<1> QED
  BY <1>7 DEF Survives, Respects, Checks, CompanyWorkKept, CompanyWorkSurvives,
              RecordedDeletionRespected, OverwriteKeepsEdits

(* Only the last step of the verification says that it passed, and the     *)
(* restore before it said of every starter that it was created.            *)
LEMMA VerdictsEarned ==
  ASSUME StarterInv, StarterNext, kind = "dashboards",
         script.verdict # "passed", script'.verdict = "passed"
  PROVE  \A s \in Starter : s \in recorded /\ InstalledOrDeleted(s)
<1>1. script' # script
  OBVIOUS
<1>2. ~ CommandStep
  BY <1>1 DEF CommandStep, Returns, List, InstallDecides, Create, CreateFails, Record, RestoreDeletes,
              Sweep, SweepEnds, ImportSkips, ImportCreates, ImportReads, ImportPuts, work
<1>3. ~ CompanyStep /\ ~ Runs
  BY <1>1 DEF CompanyStep, CompanyCreates, CompanyEdits, CompanyDeletes, Release, RecordLost, Runs,
              RunBegins
<1>4. \A at \in Nat, v \in {"thrown", "failed"} :
        script' # [script EXCEPT !.at = at, !.verdict = v]
  BY ScriptParts
<1>5. ~ Interrupted
  <2>1. Interrupted => script' = [script EXCEPT !.at = 0, !.verdict = "thrown"]
    BY <1>1 DEF Interrupted
  <2> QED
    BY <1>4, <2>1
<1>6. \A at \in {3, 8}, f \in BOOLEAN : ~ ScriptGoes(at, f)
  BY ScriptParts DEF ScriptGoes
<1>7. ~ VerifyInstalls
  BY ScriptParts DEF VerifyInstalls, ScriptGoes, NoScript
<1>8. ~ VerifyProbe /\ ~ VerifyDeletion /\ ~ VerifyReinstall /\ ~ VerifyRestore /\ ~ VerifyCleans
  BY <1>4, <1>6, ScriptParts DEF VerifyProbe, VerifyDeletion, VerifyReinstall, VerifyRestore, VerifyCleans
<1>9. VerifyEnds
  BY <1>2, <1>3, <1>5, <1>7, <1>8 DEF StarterNext, Verifies
<1>10. ~ script.findings /\ Restored /\ (script.at = 7 \/ script.at = 8)
  BY <1>9 DEF VerifyEnds, AtStep, NoScript
<1>11. script.at = 7 /\ \A s \in Starter : outcome[s] = "CREATED"
  BY <1>10 DEF Restored, StarterInv, ScriptOK
<1> QED
  BY <1>11 DEF StarterInv, ScriptOK

(* When test:dashboards passes, every starter is on record, and there in   *)
(* the released version unless a second copy may be; whatever the company  *)
(* did in between, its deletions alone are excepted.                       *)
THEOREM VerifiedIsInstalled == Spec => VerifiedMeansInstalled
<1> DEFINE Earned ==
             kind = "dashboards" /\ script.verdict # "passed" /\ script'.verdict = "passed"
               => \A s \in Starter : s \in recorded /\ InstalledOrDeleted(s)
<1>1. Init => StarterInv
  BY StarterStart DEF Init
<1>2. [Next]_governanceVars => [StarterNext]_starterVars
  BY DEF Next, governanceVars
<1>3. StarterInv /\ StarterNext => Earned
  BY VerdictsEarned
<1>4. StarterInv /\ [StarterNext]_starterVars => [Earned]_starterVars
  BY <1>3
<1> HIDE DEF Earned
<1>5. Spec => [][Earned]_starterVars
  BY <1>1, <1>2, <1>4, StarterKept, PTL DEF Spec
<1> QED
  BY <1>5 DEF Earned, VerifiedMeansInstalled

(***************************************************************************)
(* lab:purge and lab:up.                                                   *)
(***************************************************************************)

LEMMA SerialNat == certs \in Certificates => Serial \in Nat
BY DEF Certificates, Serial

(* No debt is another one.                                                 *)
LEMMA DebtsDiffer ==
  /\ LeafDebt # GateDebt /\ LeafDebt \in Debt /\ GateDebt \in Debt
  /\ \A t \in Token : <<"reader", t>> \in Debt /\ <<"reader", t>> # LeafDebt /\ <<"reader", t>> # GateDebt
  /\ \A t \in Accounts : <<"account", t>> \in Debt /\ <<"account", t>> # LeafDebt
                          /\ <<"account", t>> # GateDebt
  /\ \A s \in Piped : <<"list", s>> \in Debt /\ <<"list", s>> # LeafDebt /\ <<"list", s>> # GateDebt
  /\ \A s \in Piped : \A t \in Token : <<"list", s>> # <<"reader", t>> /\ <<"list", s>> # <<"account", t>>
  /\ <<"list", "_rumdata">> # <<"list", "_rumlog">>
  /\ \A t \in Token : \A debt \in {"reader"} \X Token : <<"account", t>> # debt
  /\ \A debt \in {"reader"} \X Token : debt # LeafDebt /\ debt # GateDebt
  /\ \A s \in Piped : \A debt \in {"reader"} \X Token : debt # <<"list", s>>
BY DEF Debt, LeafDebt, GateDebt, Token, Accounts, Piped

(* The containers that start have what they were owed, and no other.       *)
LEMMA RecreatedOwes ==
  ASSUME NEW set, StartAgain(set)
  PROVE  /\ owing' \subseteq owing
         /\ LeafDebt \in owing => LeafDebt \in owing'
         /\ GateDebt \in owing => GateDebt \in owing'
         /\ \A t \in Accounts : <<"account", t>> \in owing => <<"account", t>> \in owing'
         /\ \A s \in Piped : <<"list", s>> \in owing => <<"list", s>> \in owing'
         /\ \A t \in Token : <<"reader", t>> \in owing =>
              <<"reader", t>> \in owing' \/ Reader(t) \in set
<1>1. owing' = owing \ UNION {ReaderDebt(c) : c \in set}
  BY DEF StartAgain
<1>2. \A debt \in UNION {ReaderDebt(c) : c \in set} :
        debt \in {"reader"} \X Token /\ \E t \in Token : debt = <<"reader", t>> /\ Reader(t) \in set
  BY DEF ReaderDebt
<1>3. \A t \in Token : <<"reader", t>> \in UNION {ReaderDebt(c) : c \in set} => Reader(t) \in set
  BY <1>2
<1>4. \A t \in Accounts : t \in Token
  BY DEF Accounts, Token
<1> QED
  BY <1>1, <1>2, <1>3, <1>4, DebtsDiffer

LEMMA ComposeOwes ==
  ASSUME ComposeUp
  PROVE  /\ owing' \subseteq owing
         /\ LeafDebt \in owing => LeafDebt \in owing'
         /\ GateDebt \in owing => GateDebt \in owing'
         /\ \A t \in Accounts : <<"account", t>> \in owing => <<"account", t>> \in owing'
         /\ \A s \in Piped : <<"list", s>> \in owing => <<"list", s>> \in owing'
         /\ \A t \in Token : <<"reader", t>> \in owing =>
              <<"reader", t>> \in owing' \/ Reader(t) \in {c \in Container : used[c] = NoContainer}
<1>1. StartAgain({c \in Container : used[c] = NoContainer})
  BY DEF ComposeUp
<1> QED
  BY <1>1, RecreatedOwes

(* lab:kill-switch writes some of the files and may reload the proxy.      *)
LEMMA KillSwitchSteps ==
  ASSUME KillSwitch, ProvisioningTypeOK
  PROVE  /\ stage \in {"idle", "refused"} /\ up' = FALSE
         /\ UNCHANGED <<stage, file, issued, used, changed, certs, lists, crashes>>
         /\ upsets > 0 /\ upsets' = upsets - 1
         /\ posted' \in [Control -> Switch] /\ posted'["gate"] # "none"
         /\ \/ UNCHANGED <<served, loaded, owing>> /\ posted["gate"] # "none"
            \/ served' = certs.leaf /\ loaded' \in {"off", "on"} /\ owing' = owing \ {GateDebt}
         /\ \A debt : debt \in owing /\ debt # GateDebt => debt \in owing'
<1>1. /\ stage \in {"idle", "refused"} /\ up' = FALSE
      /\ UNCHANGED <<stage, file, issued, used, changed, certs, lists, crashes>>
      /\ upsets > 0 /\ upsets' = upsets - 1 /\ posted["gate"] # "none"
  BY DEF KillSwitch, Between
<1>2. PICK way \in {"off", "on"}, n \in 1..4 :
        LET did == {SwitchOrder(way)[k] : k \in 1..n} IN
        /\ posted' = [f \in Control |-> IF f \in did THEN way ELSE posted[f]]
        /\ IF "reload" \in did
           THEN served' = certs.leaf /\ loaded' = way /\ owing' = owing \ {GateDebt}
           ELSE UNCHANGED <<served, loaded, owing>>
  BY DEF KillSwitch
<1> DEFINE did == {SwitchOrder(way)[k] : k \in 1..n}
<1>3. /\ posted' = [f \in Control |-> IF f \in did THEN way ELSE posted[f]]
      /\ \/ served' = certs.leaf /\ loaded' = way /\ owing' = owing \ {GateDebt}
         \/ UNCHANGED <<served, loaded, owing>>
  BY <1>2
<1> HIDE DEF did
<1>4. posted' \in [Control -> Switch] /\ posted'["gate"] # "none"
  BY <1>1, <1>3 DEF ProvisioningTypeOK, Control, Switch
<1> QED
  BY <1>1, <1>3, <1>4

(* The steps by the state they write.                                      *)
LEMMA FileSteps ==
  ASSUME ProvisioningNext
  PROVE  \/ UNCHANGED file
         \/ file' = [t \in Token |-> IF file[t] = "real" THEN "old" ELSE file[t]]
         \/ file' = NoContainer
         \/ file' = [t \in Token |-> IF file[t] = Unset THEN "placeholder" ELSE file[t]]
         \/ \E t \in Token : Persist(t)
BY DEF ProvisioningNext, Token, PurgeVolumes, PurgeFiles, Down, EnsureSecrets,
       EnsureCertificates, OpenControls, Opens, ComposeUp, FetchRumToken, CreateOpsToken,
       PersistOpsToken, EnsureServiceAccount, RecreateReaders, EnsurePipeline,
       PipelineInterrupted, VerifyProvisioned, Restamp, RotateLeaf, KillSwitch, Upset, Interrupt,
       Refuse

LEMMA ContainerSteps ==
  ASSUME ProvisioningNext
  PROVE  \/ UNCHANGED used
         \/ used' = [c \in Container |-> NoContainer]
         \/ \E set : used' = [c \in Container |-> IF c \in set THEN Started(c) ELSE used[c]]
<1>1. \A set : StartAgain(set) =>
        used' = [c \in Container |-> IF c \in set THEN Started(c) ELSE used[c]]
  BY DEF StartAgain
<1> QED
  BY <1>1
  DEF ProvisioningNext, PurgeVolumes, PurgeFiles, Down, EnsureSecrets,
      EnsureCertificates, OpenControls, Opens, ComposeUp, FetchRumToken, CreateOpsToken,
      PersistOpsToken, EnsureServiceAccount, RecreateReaders, EnsurePipeline,
      PipelineInterrupted, VerifyProvisioned, Restamp, RotateLeaf, KillSwitch, Upset, Interrupt,
      Refuse

LEMMA CertificateSteps ==
  ASSUME ProvisioningNext
  PROVE  \/ UNCHANGED certs
         \/ certs' = NoCerts
         \/ certs' = [certs EXCEPT !.caKey = Serial]
         \/ certs' = [certs EXCEPT !.ca = certs.caKey, !.due = @ \ {"ca"}]
         \/ certs' = [certs EXCEPT !.key = Serial]
         \/ certs' = [certs EXCEPT !.leaf = certs.key, !.signer = certs.ca, !.due = @ \ {"leaf"}]
         \/ \E what \in {"ca", "leaf"} : certs' = [certs EXCEPT !.due = @ \cup {what}]
BY DEF ProvisioningNext, Token, PurgeVolumes, PurgeFiles, Down, EnsureSecrets,
       EnsureCertificates, LeafIssued, OpenControls, Opens, ComposeUp, FetchRumToken,
       CreateOpsToken, PersistOpsToken, EnsureServiceAccount, RecreateReaders, EnsurePipeline,
       PipelineInterrupted, VerifyProvisioned, Restamp, RotateLeaf, KillSwitch, Upset, Interrupt,
       Refuse

LEMMA OwingSteps ==
  ASSUME ProvisioningNext
  PROVE  \/ owing' \subseteq owing
         \/ owing' = owing \cup {GateDebt}
         \/ \E s \in Piped : owing' = owing \cup {<<"list", s>>}
         \/ LeavesOwing
<1>1. \A set : StartAgain(set) => owing' \subseteq owing
  BY DEF StartAgain
<1>2. "_rumdata" \in Piped /\ "_rumlog" \in Piped
  BY DEF Piped
<1> QED
  BY <1>1, <1>2
  DEF ProvisioningNext, PurgeVolumes, PurgeFiles, Down, EnsureSecrets,
      EnsureCertificates, LeafIssued, OpenControls, Opens, ComposeUp, FetchRumToken,
      CreateOpsToken, PersistOpsToken, EnsureServiceAccount, RecreateReaders, EnsurePipeline,
      PipelineInterrupted, VerifyProvisioned, Restamp, RotateLeaf, Reloads, KillSwitch, Upset,
      Interrupt, Refuse

LEMMA ListSteps ==
  ASSUME ProvisioningNext, ProvisioningTypeOK
  PROVE  lists' \in [Piped -> SUBSET {"desired", "drifted", "twin", "company"}]
<1> DEFINE All == {"desired", "drifted", "twin", "company"}
<1>1. \/ UNCHANGED lists
      \/ lists' = [s \in Piped |-> {}]
      \/ \E s \in Piped : \E left \in SUBSET All : lists' = [lists EXCEPT ![s] = left]
  <2>1. lists \in [Piped -> SUBSET All] /\ {"_rumdata", "_rumlog"} = Piped
    BY DEF ProvisioningTypeOK, Piped
  <2>2. ASSUME NEW s \in Piped, NEW next, EnsurePipeline(s, next)
        PROVE  \E left \in SUBSET All : lists' = [lists EXCEPT ![s] = left]
    BY <2>1, <2>2 DEF EnsurePipeline
  <2>3. ASSUME NEW s \in Piped, PipelineInterrupted(s)
        PROVE  \E left \in SUBSET All : lists' = [lists EXCEPT ![s] = left]
    BY <2>1, <2>3 DEF PipelineInterrupted
  <2>4. CASE Upset
    BY <2>1, <2>4 DEF Upset
  <2>5. \A s \in Piped : \A next :
          EnsurePipeline(s, next) => \E left \in SUBSET All : lists' = [lists EXCEPT ![s] = left]
    BY <2>2
  <2> HIDE DEF All
  <2> QED
    BY <2>1, <2>3, <2>4, <2>5
    DEF ProvisioningNext, PurgeVolumes, PurgeFiles, Down, EnsureSecrets,
        EnsureCertificates, OpenControls, Opens, ComposeUp, FetchRumToken, CreateOpsToken,
        PersistOpsToken, EnsureServiceAccount, RecreateReaders,
        VerifyProvisioned, Restamp, RotateLeaf, KillSwitch, Interrupt, Refuse
<1> QED
  BY <1>1 DEF ProvisioningTypeOK

LEMMA ContentTypes ==
  ASSUME ProvisioningTypeOK
  PROVE  /\ NoContainer \in Content
         /\ \A c \in Container : Started(c) \in Content
         /\ [t \in Token |-> IF file[t] = "real" THEN "old" ELSE file[t]] \in Content
         /\ [t \in Token |-> IF file[t] = Unset THEN "placeholder" ELSE file[t]] \in Content
         /\ \A t \in Token : [file EXCEPT ![t] = "real"] \in Content
BY DEF ProvisioningTypeOK, Content, NoContainer, Unset, Started

LEMMA ProvisioningTypes ==
  ASSUME ProvisioningTypeOK, ProvisioningNext
  PROVE  ProvisioningTypeOK'
<1>1. file' \in Content
  BY FileSteps, ContentTypes DEF ProvisioningTypeOK, Persist
<1>2. used' \in [Container -> Content]
  BY ContainerSteps, ContentTypes DEF ProvisioningTypeOK
<1>3. certs' \in Certificates
  <2>1. NoCerts \in Certificates
    BY DEF NoCerts, Certificates
  <2>2. certs \in Certificates /\ Serial \in Nat
    BY SerialNat DEF ProvisioningTypeOK
  <2> DEFINE Kinds == SUBSET {"ca", "leaf"}
  <2>3. /\ certs.due \in Kinds /\ certs.due \ {"ca"} \in Kinds /\ certs.due \ {"leaf"} \in Kinds
        /\ \A what \in {"ca", "leaf"} : certs.due \cup {what} \in Kinds
    BY <2>2 DEF Certificates
  <2>4. /\ certs \in [caKey : Nat, ca : Nat, key : Nat, leaf : Nat, signer : Nat, due : Kinds]
        /\ Certificates = [caKey : Nat, ca : Nat, key : Nat, leaf : Nat, signer : Nat, due : Kinds]
    BY <2>2 DEF Certificates
  <2> HIDE DEF Kinds
  <2>5. CASE \/ certs' = [certs EXCEPT !.ca = certs.caKey, !.due = @ \ {"ca"}]
             \/ certs' = [certs EXCEPT !.leaf = certs.key, !.signer = certs.ca, !.due = @ \ {"leaf"}]
    BY <2>3, <2>4, <2>5
  <2>6. CASE \E what \in {"ca", "leaf"} : certs' = [certs EXCEPT !.due = @ \cup {what}]
    BY <2>3, <2>4, <2>6
  <2>7. CASE certs' = [certs EXCEPT !.caKey = Serial] \/ certs' = [certs EXCEPT !.key = Serial]
    BY <2>2, <2>4, <2>7
  <2> QED
    BY <2>1, <2>2, <2>5, <2>6, <2>7, CertificateSteps
<1>4. lists' \in [Piped -> SUBSET {"desired", "drifted", "twin", "company"}]
  BY ListSteps
<1>5. issued' \subseteq Token /\ changed' \subseteq Token
  <2>1. \A t \in Token : Persist(t) => changed' \subseteq Token
    BY DEF Persist, ProvisioningTypeOK
  <2>2. {"rum", "ops", "read", "write"} = Token
    BY DEF Token
  <2> QED
    BY <2>1, <2>2
    DEF ProvisioningTypeOK, ProvisioningNext, PurgeVolumes, PurgeFiles, Down,
        EnsureSecrets, EnsureCertificates, OpenControls, Opens, ComposeUp, FetchRumToken,
        CreateOpsToken, PersistOpsToken, EnsureServiceAccount, RecreateReaders, EnsurePipeline,
        PipelineInterrupted, VerifyProvisioned, Restamp, RotateLeaf, KillSwitch, Upset,
        Interrupt, Refuse
<1>6. served' \in Nat
  <2>1. certs.leaf \in Nat /\ served \in Nat
    BY DEF ProvisioningTypeOK, Certificates
  <2>2. KillSwitch => UNCHANGED served \/ served' = certs.leaf
    BY KillSwitchSteps
  <2>3. UNCHANGED served \/ served' = 0 \/ served' = certs.leaf
    BY <2>2
    DEF ProvisioningNext, PurgeVolumes, PurgeFiles, Down, EnsureSecrets,
        EnsureCertificates, OpenControls, Opens, ComposeUp, FetchRumToken, CreateOpsToken,
        PersistOpsToken, EnsureServiceAccount, RecreateReaders, EnsurePipeline,
        PipelineInterrupted, VerifyProvisioned, Restamp, RotateLeaf, Reloads, Upset, Interrupt,
        Refuse
  <2> QED
    BY <2>1, <2>3
<1>7. up' \in BOOLEAN
  <2>1. UNCHANGED up \/ up' = TRUE \/ up' = FALSE
    BY DEF ProvisioningNext, PurgeVolumes, PurgeFiles, Down, EnsureSecrets,
        EnsureCertificates, OpenControls, Opens, ComposeUp, FetchRumToken, CreateOpsToken,
        PersistOpsToken, EnsureServiceAccount, RecreateReaders, EnsurePipeline,
        PipelineInterrupted, VerifyProvisioned, Restamp, RotateLeaf, KillSwitch, Upset, Interrupt,
        Refuse
  <2> QED
    BY <2>1, Zenon DEF ProvisioningTypeOK
<1>8. crashes' \in 0 .. Crashes /\ upsets' \in 0 .. Upsets
  <2>1. \/ UNCHANGED crashes
        \/ crashes > 0 /\ crashes' = crashes - 1
    BY DEF ProvisioningNext, Budgets, PurgeVolumes, PurgeFiles, Down, EnsureSecrets,
        EnsureCertificates, OpenControls, Opens, ComposeUp, FetchRumToken, CreateOpsToken,
        PersistOpsToken, EnsureServiceAccount, RecreateReaders, EnsurePipeline,
        PipelineInterrupted, VerifyProvisioned, Restamp, RotateLeaf, KillSwitch, Upset, Interrupt,
        Refuse
  <2>2. \/ UNCHANGED upsets
        \/ upsets > 0 /\ upsets' = upsets - 1
    BY DEF ProvisioningNext, Budgets, PurgeVolumes, PurgeFiles, Down, EnsureSecrets,
        EnsureCertificates, OpenControls, Opens, ComposeUp, FetchRumToken, CreateOpsToken,
        PersistOpsToken, EnsureServiceAccount, RecreateReaders, EnsurePipeline,
        PipelineInterrupted, VerifyProvisioned, Restamp, RotateLeaf, KillSwitch, Upset, Interrupt,
        Refuse
  <2> QED
    BY <2>1, <2>2, ProvisioningAssumption DEF ProvisioningTypeOK
<1>9. posted' \in [Control -> Switch] /\ loaded' \in Switch
  <2>1. posted \in [Control -> Switch] /\ posted["gate"] \in Switch /\ loaded \in Switch
        /\ {"none", "off", "on"} = Switch
    BY DEF ProvisioningTypeOK, Control, Switch
  <2>2. KillSwitch => posted' \in [Control -> Switch] /\ loaded' \in Switch
    BY <2>1, KillSwitchSteps
  <2>3. \A step, f, next : Opens(step, f, next) =>
          posted' = [posted EXCEPT ![f] = "off"] /\ UNCHANGED loaded
    BY DEF Opens
  <2>4. \/ KillSwitch \/ UNCHANGED posted \/ posted' = [f \in Control |-> "none"]
        \/ \E f : posted' = [posted EXCEPT ![f] = "off"]
    BY <2>3
    DEF ProvisioningNext, PurgeVolumes, PurgeFiles, Down, EnsureSecrets,
        EnsureCertificates, OpenControls, ComposeUp, FetchRumToken, CreateOpsToken,
        PersistOpsToken, EnsureServiceAccount, RecreateReaders, EnsurePipeline,
        PipelineInterrupted, VerifyProvisioned, Restamp, RotateLeaf, Upset, Interrupt,
        Refuse
  <2>5. \/ KillSwitch \/ UNCHANGED loaded \/ loaded' = "none" \/ loaded' = posted["gate"]
    BY <2>3
    DEF ProvisioningNext, PurgeVolumes, PurgeFiles, Down, EnsureSecrets,
        EnsureCertificates, OpenControls, ComposeUp, FetchRumToken, CreateOpsToken,
        PersistOpsToken, EnsureServiceAccount, RecreateReaders, EnsurePipeline,
        PipelineInterrupted, VerifyProvisioned, Restamp, RotateLeaf, Reloads, Upset, Interrupt,
        Refuse
  <2> QED
    BY <2>1, <2>2, <2>4, <2>5
<1>10. owing' \subseteq Debt
  <2>1. LeavesOwing => owing' \subseteq Debt
    BY DebtsDiffer DEF LeavesOwing, ProvisioningTypeOK
  <2> QED
    BY <2>1, OwingSteps, DebtsDiffer DEF ProvisioningTypeOK
<1> QED
  BY <1>1, <1>2, <1>3, <1>4, <1>5, <1>6, <1>7, <1>8, <1>9, <1>10, Zenon DEF ProvisioningTypeOK

(* A container that compose starts or recreates has what the files have,   *)
(* and they are there.                                                     *)
LEMMA StartedFacts ==
  ASSUME ProvisioningInv, NEW c \in Container
  PROVE  /\ \A t \in Token : Reader(t) = c => Started(c)[t] = file[t]
         /\ stage \in BeforeStart \cup AfterStart => Started(c) # NoContainer
<1>1. \A t \in Token : Started(c)[t] = IF Reader(t) = c THEN file[t] ELSE Unset
  BY DEF Started
<1>2. \E t \in Token : Reader(t) = c
  BY DEF Token, Container, Reader, Accounts
<1>3. \A t \in Token : NoContainer[t] = Unset
  BY DEF NoContainer
<1>4. stage \in BeforeStart \cup AfterStart => \A t \in Token : file[t] # Unset
  BY DEF ProvisioningInv, FilesOK
<1> QED
  BY <1>1, <1>2, <1>3, <1>4

Recreates ==
  \/ RecreateReaders("rum containers", {"rum"}, "ops")
  \/ RecreateReaders("ops containers", {"ops"}, "read")
  \/ RecreateReaders("sync containers", Accounts, "_rumdata")

LEMMA RecreatesOwe ==
  ASSUME Recreates
  PROVE  /\ owing' \subseteq owing
         /\ LeafDebt \in owing => LeafDebt \in owing'
         /\ GateDebt \in owing => GateDebt \in owing'
         /\ \A t \in Accounts : <<"account", t>> \in owing => <<"account", t>> \in owing'
         /\ \A s \in Piped : <<"list", s>> \in owing => <<"list", s>> \in owing'
<1>1. UNCHANGED owing \/ \E set : StartAgain(set)
  BY DEF Recreates, RecreateReaders
<1> QED
  BY <1>1, RecreatedOwes

(* compose up and the recreations leave both containers running, with the  *)
(* tokens of the files or with what they had.                              *)
LEMMA ContainersStart ==
  ASSUME ProvisioningInv, ComposeUp \/ Recreates, NEW c \in Container
  PROVE  /\ Running(c)'
         /\ \/ used'[c] = Started(c)
            \/ Running(c) /\ used'[c] = used[c]
<1>1. stage \in BeforeStart \cup AfterStart /\ (Recreates => Running(c))
  BY DEF ComposeUp, Recreates, RecreateReaders, AtStage, BeforeStart, AfterCa, AfterStart, AfterRum,
         AfterOps, AfterRead, AfterWrite, ProvisioningInv, EstablishedOK
<1>2. Started(c) # NoContainer
  BY <1>1, StartedFacts
<1>3. \/ used'[c] = Started(c)
      \/ Running(c) /\ used'[c] = used[c]
  BY <1>1 DEF ComposeUp, Recreates, RecreateReaders, StartAgain, Running
<1> QED
  BY <1>2, <1>3 DEF Running

(* What is owing is why a lab:up cannot go on.                             *)
LEMMA RefusalExplained ==
  ASSUME ProvisioningInv, Refuse
  PROVE  \/ Owes(LeafDebt) \/ \E t \in Accounts : Owes(<<"account", t>>)
         \/ \E s \in Piped : Owes(<<"list", s>>)
<1> USE DEF ProvisioningInv, AtStage
<1>1. CASE stage = "compose up" /\ ~PairFits
  BY <1>1 DEF CertsOK, LeafFits, Renewing, PairFits
<1>2. ASSUME NEW t \in Accounts, stage = t, t \in issued, ~CanSearch(t)
      PROVE  Owes(<<"account", t>>)
  BY <1>2 DEF AccountsOK, Accounts, CanSearch, Untold
<1>3. CASE stage = "read back" /\ ~Provisioned
  BY <1>3 DEF PipelinesOK, Provisioned, Piped
<1> QED
  BY <1>1, <1>2, <1>3 DEF Refuse

LEMMA EstablishedStep ==
  ASSUME ProvisioningInv, ProvisioningNext
  PROVE  EstablishedOK'
<1> USE DEF Budgets, Proceed, AtStage, Between, BeforeStart, AfterCa, AfterStart, AfterRum,
            AfterOps, AfterRead, AfterWrite, ProvisioningInv
<1>1. CASE PurgeVolumes
  BY <1>1, DebtsDiffer
  DEF PurgeVolumes, NoContainer, EstablishedOK, UpOK, Running, Provisioned,
          ProvisioningTypeOK, Content, Piped
<1>2. CASE PurgeFiles
  BY <1>2
  DEF PurgeFiles, NoCerts, NoContainer, EstablishedOK, UpOK, Running, Provisioned,
          ProvisioningTypeOK, Content, Piped
<1>3. CASE Down
  BY <1>3, DebtsDiffer
  DEF Down, EstablishedOK, UpOK, Running, Provisioned, ProvisioningTypeOK, Content,
          Piped
<1>4. CASE EnsureSecrets
  BY <1>4
  DEF EnsureSecrets, EstablishedOK, UpOK, Running, Provisioned, ProvisioningTypeOK,
          Content, Piped
<1>5. CASE EnsureCertificates
  BY <1>5, DebtsDiffer
  DEF EnsureCertificates, CaValid, LeafValid, LeafIssued, EstablishedOK, UpOK,
          Running, Provisioned, ProvisioningTypeOK, Content, Piped
<1>6. CASE OpenControls
  BY <1>6, DebtsDiffer
  DEF OpenControls, Opens, EstablishedOK, UpOK, Running, Provisioned,
          ProvisioningTypeOK, Content, Piped
<1>7. CASE ComposeUp
  BY <1>7, ContainersStart, StartedFacts, ComposeOwes
  DEF ComposeUp, PairFits, EstablishedOK, UpOK, Running, Provisioned,
          ProvisioningTypeOK, Content, Piped
<1>8. CASE FetchRumToken
  BY <1>8
  DEF FetchRumToken, Persist, EstablishedOK, UpOK, Running, Provisioned,
          ProvisioningTypeOK, Content, Piped
<1>9. CASE CreateOpsToken
  BY <1>9
  DEF CreateOpsToken, EstablishedOK, UpOK, Running, Provisioned, ProvisioningTypeOK,
          Content, Piped
<1>10. CASE PersistOpsToken
  BY <1>10
  DEF PersistOpsToken, Persist, EstablishedOK, UpOK, Running, Provisioned,
          ProvisioningTypeOK, Content, Piped
<1>11. CASE EnsureServiceAccount("read", "read file", "write")
  BY <1>11
  DEF EnsureServiceAccount, Persist, CanSearch, EstablishedOK, UpOK, Running,
          Provisioned, ProvisioningTypeOK, Content, Piped
<1>12. CASE EnsureServiceAccount("write", "write file", "sync containers")
  BY <1>12
  DEF EnsureServiceAccount, Persist, CanSearch, EstablishedOK, UpOK, Running,
          Provisioned, ProvisioningTypeOK, Content, Piped
<1>13. CASE Recreates
  BY <1>13, ContainersStart, StartedFacts, RecreatesOwe
  DEF Recreates, RecreateReaders, EstablishedOK, UpOK, Running, Provisioned,
          ProvisioningTypeOK, Content, Piped
<1>14. CASE EnsurePipeline("_rumdata", "_rumlog")
  BY <1>14, DebtsDiffer
  DEF EnsurePipeline, EstablishedOK, UpOK, Running, Provisioned, ProvisioningTypeOK,
          Content, Piped
<1>15. CASE EnsurePipeline("_rumlog", "read back")
  BY <1>15, DebtsDiffer
  DEF EnsurePipeline, EstablishedOK, UpOK, Running, Provisioned, ProvisioningTypeOK,
          Content, Piped
<1>16. ASSUME NEW s \in Piped, PipelineInterrupted(s)
      PROVE  EstablishedOK'
  BY <1>16
  DEF PipelineInterrupted, EstablishedOK, UpOK, Running, Provisioned,
          ProvisioningTypeOK, Content, Piped
<1>17. CASE VerifyProvisioned
  BY <1>17
  DEF VerifyProvisioned, EstablishedOK, UpOK, Running, Provisioned,
          ProvisioningTypeOK, Content, Piped
<1>18. CASE Restamp
  BY <1>18
  DEF Restamp, EstablishedOK, UpOK, Running, Provisioned, ProvisioningTypeOK,
          Content, Piped
<1>19. CASE RotateLeaf
  BY <1>19, DebtsDiffer
  DEF RotateLeaf, LeafIssued, Reloads, PairFits, EstablishedOK, UpOK, Running,
          Provisioned, ProvisioningTypeOK, Content, Piped
<1>20. CASE KillSwitch
  BY <1>20, KillSwitchSteps, DebtsDiffer
  DEF EstablishedOK, UpOK, Running, Provisioned, ProvisioningTypeOK, Content, Piped
<1>21. CASE Upset
  BY <1>21
  DEF Upset, EstablishedOK, UpOK, Running, Provisioned, ProvisioningTypeOK, Content,
          Piped
<1>22. CASE Interrupt
  BY <1>22
  DEF Interrupt, LeavesOwing, EstablishedOK, UpOK, Running, Provisioned,
          ProvisioningTypeOK, Content, Piped
<1>23. CASE Refuse
  BY <1>23, RefusalExplained
  DEF Refuse, LeavesOwing, EstablishedOK, UpOK, Running, Provisioned,
          ProvisioningTypeOK, Content, Piped
<1> QED
  BY <1>1, <1>2, <1>3, <1>4, <1>5, <1>6, <1>7, <1>8, <1>9, <1>10, <1>11, <1>12,
          <1>13, <1>14, <1>15, <1>16, <1>17, <1>18, <1>19, <1>20, <1>21, <1>22,
          <1>23
  DEF ProvisioningNext, Recreates

LEMMA ControlsStep ==
  ASSUME ProvisioningInv, ProvisioningNext
  PROVE  ControlsOK'
<1> USE DEF Budgets, Proceed, AtStage, Between, BeforeStart, AfterCa, AfterStart, AfterRum,
            AfterOps, AfterRead, AfterWrite, ProvisioningInv
<1>1. CASE PurgeVolumes
  BY <1>1, DebtsDiffer
  DEF PurgeVolumes, NoContainer, ControlsOK, Owes
<1>2. CASE PurgeFiles
  BY <1>2 DEF PurgeFiles, ControlsOK, FilesOK
<1>3. CASE Down
  BY <1>3, DebtsDiffer
  DEF Down, ControlsOK, Owes
<1>4. CASE EnsureSecrets
  BY <1>4
  DEF EnsureSecrets, ControlsOK, Owes
<1>5. CASE EnsureCertificates
  BY <1>5, DebtsDiffer
  DEF EnsureCertificates, CaValid, LeafValid, LeafIssued, ControlsOK, Owes
<1>6. CASE OpenControls
  <2>1. posted \in [Control -> Switch] /\ {"document", "gate", "hold"} = Control
        /\ loaded \in {"none", "off", "on"}
    BY DEF ProvisioningTypeOK, Control, Switch
  <2>2. CASE Opens("open", "document", "open gate")
    BY <2>1, <2>2 DEF Opens, ControlsOK, Owes
  <2>3. CASE Opens("open gate", "gate", "open hold")
    <3>1. GateDebt \in owing' \/ loaded # "on"
      BY <2>3 DEF Opens
    <3>2. /\ stage = "open gate" /\ stage' = "open hold" /\ UNCHANGED <<served, loaded>>
          /\ posted' = [posted EXCEPT !["gate"] = "off"]
      BY <2>3 DEF Opens
    <3> QED
      BY <2>1, <3>1, <3>2 DEF ControlsOK, Owes
  <2>4. CASE Opens("open hold", "hold", "compose up")
    BY <2>1, <2>4 DEF Opens, ControlsOK, Owes
  <2> QED
    BY <1>6, <2>2, <2>3, <2>4 DEF OpenControls
<1>7. CASE ComposeUp
  BY <1>7, ContainersStart, StartedFacts, ComposeOwes
  DEF ComposeUp, PairFits, ControlsOK, Owes
<1>8. CASE FetchRumToken
  BY <1>8
  DEF FetchRumToken, Persist, ControlsOK, Owes
<1>9. CASE CreateOpsToken
  BY <1>9
  DEF CreateOpsToken, ControlsOK, Owes
<1>10. CASE PersistOpsToken
  BY <1>10
  DEF PersistOpsToken, Persist, ControlsOK, Owes
<1>11. CASE EnsureServiceAccount("read", "read file", "write")
  BY <1>11
  DEF EnsureServiceAccount, Persist, CanSearch, ControlsOK, Owes
<1>12. CASE EnsureServiceAccount("write", "write file", "sync containers")
  BY <1>12
  DEF EnsureServiceAccount, Persist, CanSearch, ControlsOK, Owes
<1>13. CASE Recreates
  BY <1>13, ContainersStart, StartedFacts, RecreatesOwe
  DEF Recreates, RecreateReaders, ControlsOK, Owes
<1>14. CASE EnsurePipeline("_rumdata", "_rumlog")
  <2>1. GateDebt \in owing => GateDebt \in owing'
    BY <1>14, DebtsDiffer DEF EnsurePipeline, Piped
  <2>2. stage = "_rumdata" /\ stage' = "_rumlog" /\ UNCHANGED <<posted, loaded, served>>
    BY <1>14 DEF EnsurePipeline
  <2> QED
    BY <2>1, <2>2 DEF ControlsOK, Owes
<1>15. CASE EnsurePipeline("_rumlog", "read back")
  <2>1. GateDebt \in owing => GateDebt \in owing'
    BY <1>15, DebtsDiffer DEF EnsurePipeline, Piped
  <2>2. stage = "_rumlog" /\ stage' = "read back" /\ UNCHANGED <<posted, loaded, served>>
    BY <1>15 DEF EnsurePipeline
  <2> QED
    BY <2>1, <2>2 DEF ControlsOK, Owes
<1>16. ASSUME NEW s \in Piped, PipelineInterrupted(s)
      PROVE  ControlsOK'
  BY <1>16
  DEF PipelineInterrupted, ControlsOK, Owes
<1>17. CASE VerifyProvisioned
  BY <1>17
  DEF VerifyProvisioned, ControlsOK, Owes
<1>18. CASE Restamp
  BY <1>18
  DEF Restamp, ControlsOK, Owes
<1>19. CASE RotateLeaf
  <2>1. up /\ posted["gate"] = "off"
    BY <1>19 DEF RotateLeaf, UpOK, Control
  <2> QED
    BY <1>19, <2>1 DEF RotateLeaf, LeafIssued, Reloads, PairFits, ControlsOK
<1>20. CASE KillSwitch
  BY <1>20, KillSwitchSteps DEF ControlsOK
<1>21. CASE Upset
  BY <1>21
  DEF Upset, ControlsOK, Owes
<1>22. CASE Interrupt
  BY <1>22
  DEF Interrupt, LeavesOwing, ControlsOK, Owes
<1>23. CASE Refuse
  BY <1>23, RefusalExplained
  DEF Refuse, LeavesOwing, ControlsOK, Owes
<1> QED
  BY <1>1, <1>2, <1>3, <1>4, <1>5, <1>6, <1>7, <1>8, <1>9, <1>10, <1>11, <1>12,
          <1>13, <1>14, <1>15, <1>16, <1>17, <1>18, <1>19, <1>20, <1>21, <1>22,
          <1>23
  DEF ProvisioningNext, Recreates

LEMMA UpStep ==
  ASSUME ProvisioningInv, ProvisioningNext
  PROVE  UpOK'
<1> USE DEF Budgets, Proceed, AtStage, Between, BeforeStart, AfterCa, AfterStart, AfterRum,
            AfterOps, AfterRead, AfterWrite, ProvisioningInv
<1>1. CASE PurgeVolumes
  BY <1>1, DebtsDiffer
  DEF PurgeVolumes, NoContainer, UpOK, Owes, Control, EstablishedOK, Running,
          Provisioned, Piped, ProvisioningTypeOK, Content, Token
<1>2. CASE PurgeFiles
  BY <1>2
  DEF PurgeFiles, NoCerts, NoContainer, UpOK, Owes, Control, EstablishedOK, Running,
          Provisioned, Piped, ProvisioningTypeOK, Content, Token
<1>3. CASE Down
  BY <1>3, DebtsDiffer
  DEF Down, UpOK, Owes, Control, EstablishedOK, Running, Provisioned, Piped,
          ProvisioningTypeOK, Content, Token
<1>4. CASE EnsureSecrets
  BY <1>4
  DEF EnsureSecrets, UpOK, Owes, Control, EstablishedOK, Running, Provisioned,
          Piped, ProvisioningTypeOK, Content, Token
<1>5. CASE EnsureCertificates
  BY <1>5, DebtsDiffer
  DEF EnsureCertificates, CaValid, LeafValid, LeafIssued, UpOK, Owes, Control,
          EstablishedOK, Running, Provisioned, Piped, ProvisioningTypeOK, Content,
          Token
<1>6. CASE OpenControls
  <2>1. stage \in BeforeStart /\ UNCHANGED up /\ stage' \in BeforeStart
    BY <1>6 DEF OpenControls, Opens
  <2> QED
    BY <2>1 DEF UpOK
<1>7. CASE ComposeUp
  BY <1>7, ContainersStart, StartedFacts, ComposeOwes
  DEF ComposeUp, PairFits, UpOK, Owes, Control, EstablishedOK, Running, Provisioned,
          Piped, ProvisioningTypeOK, Content, Token
<1>8. CASE FetchRumToken
  BY <1>8
  DEF FetchRumToken, Persist, UpOK, Owes, Control, EstablishedOK, Running,
          Provisioned, Piped, ProvisioningTypeOK, Content, Token
<1>9. CASE CreateOpsToken
  BY <1>9
  DEF CreateOpsToken, UpOK, Owes, Control, EstablishedOK, Running, Provisioned,
          Piped, ProvisioningTypeOK, Content, Token
<1>10. CASE PersistOpsToken
  BY <1>10
  DEF PersistOpsToken, Persist, UpOK, Owes, Control, EstablishedOK, Running,
          Provisioned, Piped, ProvisioningTypeOK, Content, Token
<1>11. CASE EnsureServiceAccount("read", "read file", "write")
  BY <1>11
  DEF EnsureServiceAccount, Persist, CanSearch, UpOK, Owes, Control, EstablishedOK,
          Running, Provisioned, Piped, ProvisioningTypeOK, Content, Token
<1>12. CASE EnsureServiceAccount("write", "write file", "sync containers")
  BY <1>12
  DEF EnsureServiceAccount, Persist, CanSearch, UpOK, Owes, Control, EstablishedOK,
          Running, Provisioned, Piped, ProvisioningTypeOK, Content, Token
<1>13. CASE Recreates
  <2>1. stage \in AfterStart /\ UNCHANGED up /\ stage' \in AfterStart
    BY <1>13 DEF Recreates, RecreateReaders
  <2> QED
    BY <2>1 DEF UpOK
<1>14. CASE EnsurePipeline("_rumdata", "_rumlog")
  BY <1>14, DebtsDiffer
  DEF EnsurePipeline, UpOK, Owes, Control, EstablishedOK, Running, Provisioned,
          Piped, ProvisioningTypeOK, Content, Token
<1>15. CASE EnsurePipeline("_rumlog", "read back")
  BY <1>15, DebtsDiffer
  DEF EnsurePipeline, UpOK, Owes, Control, EstablishedOK, Running, Provisioned,
          Piped, ProvisioningTypeOK, Content, Token
<1>16. ASSUME NEW s \in Piped, PipelineInterrupted(s)
      PROVE  UpOK'
  BY <1>16
  DEF PipelineInterrupted, UpOK, Owes, Control, EstablishedOK, Running, Provisioned,
          Piped, ProvisioningTypeOK, Content, Token
<1>17. CASE VerifyProvisioned
  BY <1>17
  DEF VerifyProvisioned, UpOK, Owes, Control, EstablishedOK, Running, Provisioned,
          Piped, ProvisioningTypeOK, Content, Token
<1>18. CASE Restamp
  <2>1. /\ stage' = "idle" /\ posted' = [posted EXCEPT !["document"] = "off"]
        /\ UNCHANGED <<file, issued, used, lists, loaded, owing>> /\ stage = "restamp"
    BY <1>18 DEF Restamp
  <2>2. /\ Provisioned /\ \A c \in Container : Running(c)
        /\ {"rum", "ops", "read", "write"} \subseteq issued
        /\ \A t \in {"rum", "ops", "read", "write"} : file[t] = "real"
    BY <2>1 DEF EstablishedOK
  <2>3. issued = Token
    BY <2>2 DEF ProvisioningTypeOK, Token
  <2>4. \A f \in Control : posted'[f] = "off"
    BY <2>1 DEF ControlsOK, ProvisioningTypeOK, Control
  <2>5. loaded = "off" \/ Owes(GateDebt)
    BY <2>1 DEF ControlsOK, ProvisioningTypeOK, Switch
  <2> QED
    BY <2>1, <2>2, <2>3, <2>4, <2>5 DEF UpOK, Running, Provisioned, Token, Owes
<1>19. CASE RotateLeaf
  BY <1>19, DebtsDiffer
  DEF RotateLeaf, LeafIssued, Reloads, PairFits, UpOK, Owes, Control, EstablishedOK,
          Running, Provisioned, Piped, ProvisioningTypeOK, Content, Token
<1>20. CASE KillSwitch
  BY <1>20, KillSwitchSteps, DebtsDiffer
  DEF UpOK, Owes, Control, EstablishedOK, Running, Provisioned, Piped,
          ProvisioningTypeOK, Content, Token
<1>21. CASE Upset
  BY <1>21
  DEF Upset, UpOK, Owes, Control, EstablishedOK, Running, Provisioned, Piped,
          ProvisioningTypeOK, Content, Token
<1>22. CASE Interrupt
  BY <1>22
  DEF Interrupt, LeavesOwing, UpOK, Owes, Control, EstablishedOK, Running,
          Provisioned, Piped, ProvisioningTypeOK, Content, Token
<1>23. CASE Refuse
  BY <1>23, RefusalExplained
  DEF Refuse, LeavesOwing, UpOK, Owes, Control, EstablishedOK, Running, Provisioned,
          Piped, ProvisioningTypeOK, Content, Token
<1> QED
  BY <1>1, <1>2, <1>3, <1>4, <1>5, <1>6, <1>7, <1>8, <1>9, <1>10, <1>11, <1>12,
          <1>13, <1>14, <1>15, <1>16, <1>17, <1>18, <1>19, <1>20, <1>21, <1>22,
          <1>23
  DEF ProvisioningNext, Recreates

LEMMA FilesStep ==
  ASSUME ProvisioningInv, ProvisioningNext
  PROVE  FilesOK'
<1> USE DEF Budgets, Proceed, AtStage, Between, BeforeStart, AfterCa, AfterStart, AfterRum,
            AfterOps, AfterRead, AfterWrite, ProvisioningInv
<1>1. CASE PurgeVolumes
  BY <1>1, DebtsDiffer
  DEF PurgeVolumes, NoContainer, FilesOK, Running, UpOK, EstablishedOK,
          ProvisioningTypeOK, Content, Token, Unset, NoContainer
<1>2. CASE PurgeFiles
  BY <1>2
  DEF PurgeFiles, NoCerts, NoContainer, FilesOK, Running, UpOK, EstablishedOK,
          ProvisioningTypeOK, Content, Token, Unset, NoContainer
<1>3. CASE Down
  BY <1>3, DebtsDiffer
  DEF Down, FilesOK, Running, UpOK, EstablishedOK, ProvisioningTypeOK, Content,
          Token, Unset, NoContainer
<1>4. CASE EnsureSecrets
  BY <1>4
  DEF EnsureSecrets, FilesOK, Running, UpOK, EstablishedOK, ProvisioningTypeOK,
          Content, Token, Unset, NoContainer
<1>5. CASE EnsureCertificates
  BY <1>5, DebtsDiffer
  DEF EnsureCertificates, CaValid, LeafValid, LeafIssued, FilesOK, Running, UpOK,
          EstablishedOK, ProvisioningTypeOK, Content, Token, Unset, NoContainer
<1>6. CASE OpenControls
  BY <1>6, DebtsDiffer
  DEF OpenControls, Opens, FilesOK, Running, UpOK, EstablishedOK,
          ProvisioningTypeOK, Content, Token, Unset, NoContainer
<1>7. CASE ComposeUp
  BY <1>7, ContainersStart, StartedFacts, ComposeOwes
  DEF ComposeUp, PairFits, FilesOK, Running, UpOK, EstablishedOK,
          ProvisioningTypeOK, Content, Token, Unset, NoContainer
<1>8. CASE FetchRumToken
  BY <1>8
  DEF FetchRumToken, Persist, FilesOK, Running, UpOK, EstablishedOK,
          ProvisioningTypeOK, Content, Token, Unset, NoContainer
<1>9. CASE CreateOpsToken
  BY <1>9
  DEF CreateOpsToken, FilesOK, Running, UpOK, EstablishedOK, ProvisioningTypeOK,
          Content, Token, Unset, NoContainer
<1>10. CASE PersistOpsToken
  BY <1>10
  DEF PersistOpsToken, Persist, FilesOK, Running, UpOK, EstablishedOK,
          ProvisioningTypeOK, Content, Token, Unset, NoContainer
<1>11. CASE EnsureServiceAccount("read", "read file", "write")
  BY <1>11
  DEF EnsureServiceAccount, Persist, CanSearch, FilesOK, Running, UpOK,
          EstablishedOK, ProvisioningTypeOK, Content, Token, Unset, NoContainer
<1>12. CASE EnsureServiceAccount("write", "write file", "sync containers")
  BY <1>12
  DEF EnsureServiceAccount, Persist, CanSearch, FilesOK, Running, UpOK,
          EstablishedOK, ProvisioningTypeOK, Content, Token, Unset, NoContainer
<1>13. CASE Recreates
  BY <1>13, ContainersStart, StartedFacts, RecreatesOwe
  DEF Recreates, RecreateReaders, FilesOK, Running, UpOK, EstablishedOK,
          ProvisioningTypeOK, Content, Token, Unset, NoContainer
<1>14. CASE EnsurePipeline("_rumdata", "_rumlog")
  BY <1>14, DebtsDiffer
  DEF EnsurePipeline, FilesOK, Running, UpOK, EstablishedOK, ProvisioningTypeOK,
          Content, Token, Unset, NoContainer
<1>15. CASE EnsurePipeline("_rumlog", "read back")
  BY <1>15, DebtsDiffer
  DEF EnsurePipeline, FilesOK, Running, UpOK, EstablishedOK, ProvisioningTypeOK,
          Content, Token, Unset, NoContainer
<1>16. ASSUME NEW s \in Piped, PipelineInterrupted(s)
      PROVE  FilesOK'
  BY <1>16
  DEF PipelineInterrupted, FilesOK, Running, UpOK, EstablishedOK,
          ProvisioningTypeOK, Content, Token, Unset, NoContainer
<1>17. CASE VerifyProvisioned
  BY <1>17
  DEF VerifyProvisioned, FilesOK, Running, UpOK, EstablishedOK, ProvisioningTypeOK,
          Content, Token, Unset, NoContainer
<1>18. CASE Restamp
  BY <1>18
  DEF Restamp, FilesOK, Running, UpOK, EstablishedOK, ProvisioningTypeOK, Content,
          Token, Unset, NoContainer
<1>19. CASE RotateLeaf
  BY <1>19, DebtsDiffer
  DEF RotateLeaf, LeafIssued, Reloads, PairFits, FilesOK, Running, UpOK,
          EstablishedOK, ProvisioningTypeOK, Content, Token, Unset, NoContainer
<1>20. CASE KillSwitch
  BY <1>20, KillSwitchSteps, DebtsDiffer
  DEF FilesOK, Running, UpOK, EstablishedOK, ProvisioningTypeOK, Content, Token,
          Unset, NoContainer
<1>21. CASE Upset
  BY <1>21
  DEF Upset, FilesOK, Running, UpOK, EstablishedOK, ProvisioningTypeOK, Content,
          Token, Unset, NoContainer
<1>22. CASE Interrupt
  BY <1>22
  DEF Interrupt, LeavesOwing, FilesOK, Running, UpOK, EstablishedOK,
          ProvisioningTypeOK, Content, Token, Unset, NoContainer
<1>23. CASE Refuse
  BY <1>23, RefusalExplained
  DEF Refuse, LeavesOwing, FilesOK, Running, UpOK, EstablishedOK,
          ProvisioningTypeOK, Content, Token, Unset, NoContainer
<1> QED
  BY <1>1, <1>2, <1>3, <1>4, <1>5, <1>6, <1>7, <1>8, <1>9, <1>10, <1>11, <1>12,
          <1>13, <1>14, <1>15, <1>16, <1>17, <1>18, <1>19, <1>20, <1>21, <1>22,
          <1>23
  DEF ProvisioningNext, Recreates

LEMMA CertsStep ==
  ASSUME ProvisioningInv, ProvisioningNext
  PROVE  CertsOK'
<1> USE DEF Budgets, Proceed, AtStage, Between, BeforeStart, AfterCa, AfterStart, AfterRum,
            AfterOps, AfterRead, AfterWrite, ProvisioningInv
<1>1. CASE PurgeVolumes
  BY <1>1, DebtsDiffer
  DEF PurgeVolumes, NoContainer, CertsOK, LeafFits, Renewing, Owes, UpOK, Piped
<1>2. CASE PurgeFiles
  BY <1>2
  DEF PurgeFiles, NoCerts, NoContainer, CertsOK, LeafFits, Renewing, Owes, UpOK,
          Piped
<1>3. CASE Down
  BY <1>3, DebtsDiffer
  DEF Down, CertsOK, LeafFits, Renewing, Owes, UpOK, Piped
<1>4. CASE EnsureSecrets
  BY <1>4
  DEF EnsureSecrets, CertsOK, LeafFits, Renewing, Owes, UpOK, Piped
<1>5. CASE EnsureCertificates
  <2>1. certs \in Certificates /\ Serial \in Nat
    BY SerialNat DEF ProvisioningTypeOK
  <2>2. CASE stage = "ca"
    <3>1. UNCHANGED <<owing, up>> /\ ~up
      BY <1>5, <2>2 DEF EnsureCertificates, UpOK
    <3>2. CASE CaValid
      <4>1. certs.ca # 0 /\ "ca" \notin certs.due
        BY <2>1, <3>2 DEF CaValid, Certificates
      <4>2. UNCHANGED certs /\ stage' \in {"open", "leaf key"}
        BY <1>5, <2>2, <3>2 DEF EnsureCertificates
      <4> QED
        BY <2>2, <3>1, <4>1, <4>2 DEF CertsOK, LeafFits, Renewing, Owes
    <3>3. CASE ~CaValid
      <4>1. certs' = [certs EXCEPT !.caKey = Serial] /\ stage' = "ca certificate"
        BY <1>5, <2>2, <3>3 DEF EnsureCertificates
      <4>2. certs.ca = 0 \/ "ca" \in certs.due
        <5>1. certs.caKey \in Nat /\ certs.ca \in Nat
          BY <2>1 DEF Certificates
        <5>2. certs.caKey = 0 \/ certs.ca = 0 \/ "ca" \in certs.due
          BY <3>3, <5>1 DEF CaValid
        <5>3. certs.caKey = certs.ca \/ certs.ca = 0 \/ "ca" \in certs.due
          BY DEF CertsOK
        <5> QED
          BY <5>2, <5>3
      <4>3. /\ certs'.ca = certs.ca /\ certs'.due = certs.due /\ certs'.key = certs.key
            /\ certs'.leaf = certs.leaf /\ certs'.signer = certs.signer
        BY <2>1, <4>1 DEF Certificates
      <4> QED
        BY <2>2, <3>1, <4>1, <4>2, <4>3 DEF CertsOK, LeafFits, Renewing, Owes
    <3> QED
      BY <3>2, <3>3
  <2>3. CASE stage = "ca certificate"
    BY <1>5, <2>1, <2>3 DEF EnsureCertificates, CertsOK, LeafFits, Renewing, Owes, UpOK, Certificates
  <2>4. CASE stage = "leaf key"
    BY <1>5, <2>1, <2>4 DEF EnsureCertificates, CertsOK, LeafFits, Renewing, Owes, UpOK, Certificates
  <2>5. CASE stage = "leaf certificate"
    <3>1. /\ certs' = [certs EXCEPT !.leaf = certs.key, !.signer = certs.ca, !.due = certs.due \ {"leaf"}]
          /\ UNCHANGED up /\ certs.caKey = certs.ca
      BY <1>5, <2>5 DEF EnsureCertificates, LeafIssued, CertsOK
    <3>2. certs'.leaf = certs'.key /\ certs'.signer = certs'.ca /\ certs'.caKey = certs'.ca
      BY <2>1, <3>1 DEF Certificates
    <3> QED
      BY <3>2 DEF CertsOK, LeafFits
  <2> QED
    BY <1>5, <2>2, <2>3, <2>4, <2>5 DEF EnsureCertificates
<1>6. CASE OpenControls
  BY <1>6, DebtsDiffer
  DEF OpenControls, Opens, CertsOK, LeafFits, Renewing, Owes, UpOK, Piped
<1>7. CASE ComposeUp
  BY <1>7, ContainersStart, StartedFacts, ComposeOwes
  DEF ComposeUp, PairFits, CertsOK, LeafFits, Renewing, Owes, UpOK, Piped
<1>8. CASE FetchRumToken
  BY <1>8
  DEF FetchRumToken, Persist, CertsOK, LeafFits, Renewing, Owes, UpOK, Piped
<1>9. CASE CreateOpsToken
  BY <1>9
  DEF CreateOpsToken, CertsOK, LeafFits, Renewing, Owes, UpOK, Piped
<1>10. CASE PersistOpsToken
  BY <1>10
  DEF PersistOpsToken, Persist, CertsOK, LeafFits, Renewing, Owes, UpOK, Piped
<1>11. CASE EnsureServiceAccount("read", "read file", "write")
  BY <1>11
  DEF EnsureServiceAccount, Persist, CanSearch, CertsOK, LeafFits, Renewing, Owes,
          UpOK, Piped
<1>12. CASE EnsureServiceAccount("write", "write file", "sync containers")
  BY <1>12
  DEF EnsureServiceAccount, Persist, CanSearch, CertsOK, LeafFits, Renewing, Owes,
          UpOK, Piped
<1>13. CASE Recreates
  BY <1>13, ContainersStart, StartedFacts, RecreatesOwe
  DEF Recreates, RecreateReaders, CertsOK, LeafFits, Renewing, Owes, UpOK, Piped
<1>14. CASE EnsurePipeline("_rumdata", "_rumlog")
  BY <1>14, DebtsDiffer
  DEF EnsurePipeline, CertsOK, LeafFits, Renewing, Owes, UpOK, Piped
<1>15. CASE EnsurePipeline("_rumlog", "read back")
  BY <1>15, DebtsDiffer
  DEF EnsurePipeline, CertsOK, LeafFits, Renewing, Owes, UpOK, Piped
<1>16. ASSUME NEW s \in Piped, PipelineInterrupted(s)
      PROVE  CertsOK'
  BY <1>16
  DEF PipelineInterrupted, CertsOK, LeafFits, Renewing, Owes, UpOK, Piped
<1>17. CASE VerifyProvisioned
  BY <1>17
  DEF VerifyProvisioned, CertsOK, LeafFits, Renewing, Owes, UpOK, Piped
<1>18. CASE Restamp
  BY <1>18
  DEF Restamp, CertsOK, LeafFits, Renewing, Owes, UpOK, Piped
<1>19. CASE RotateLeaf
  <2>1. certs \in Certificates /\ Serial \in Nat
    BY SerialNat DEF ProvisioningTypeOK
  <2>2. UNCHANGED up /\ stage \in {"idle", "refused", "new key", "reload"} /\ up
    BY <1>19 DEF RotateLeaf, UpOK
  <2>3. certs.caKey = certs.ca
    BY <2>2 DEF CertsOK
  <2>4. CASE stage \in {"idle", "refused"}
    BY <1>19, <2>1, <2>2, <2>3, <2>4
    DEF RotateLeaf, CertsOK, LeafFits, Renewing, Owes, Certificates
  <2>5. CASE stage = "new key"
    <3>1. certs' = [certs EXCEPT !.leaf = certs.key, !.signer = certs.ca, !.due = certs.due \ {"leaf"}]
      BY <1>19, <2>5 DEF RotateLeaf, LeafIssued
    <3>2. certs'.leaf = certs'.key /\ certs'.signer = certs'.ca /\ certs'.caKey = certs'.ca
      BY <2>1, <2>3, <3>1 DEF Certificates
    <3> QED
      BY <3>2 DEF CertsOK, LeafFits
  <2>6. CASE stage = "reload"
    <3>1. UNCHANGED certs /\ (LeafDebt \in owing => LeafDebt \in owing')
      BY <1>19, <2>6, DebtsDiffer DEF RotateLeaf, Reloads
    <3> QED
      BY <2>2, <2>3, <2>6, <3>1 DEF CertsOK, LeafFits, Renewing, Owes
  <2> QED
    BY <2>2, <2>4, <2>5, <2>6
<1>20. CASE KillSwitch
  BY <1>20, KillSwitchSteps, DebtsDiffer
  DEF CertsOK, LeafFits, Renewing, Owes, UpOK, Piped
<1>21. CASE Upset
  <2>1. certs \in Certificates
    BY DEF ProvisioningTypeOK
  <2>2. \/ UNCHANGED certs
        \/ \E what \in {"ca", "leaf"} : certs' = [certs EXCEPT !.due = certs.due \cup {what}]
    BY <1>21 DEF Upset
  <2>3. /\ certs'.caKey = certs.caKey /\ certs'.ca = certs.ca /\ certs'.key = certs.key
        /\ certs'.leaf = certs.leaf /\ certs'.signer = certs.signer /\ certs.due \subseteq certs'.due
    BY <2>1, <2>2 DEF Certificates
  <2>4. stage \in {"idle", "refused"} /\ UNCHANGED <<stage, owing>> /\ ~up'
    BY <1>21 DEF Upset
  <2> QED
    BY <2>3, <2>4 DEF CertsOK, LeafFits, Renewing, Owes
<1>22. CASE Interrupt
  BY <1>22
  DEF Interrupt, LeavesOwing, CertsOK, LeafFits, Renewing, Owes, UpOK, Piped
<1>23. CASE Refuse
  BY <1>23, RefusalExplained
  DEF Refuse, LeavesOwing, CertsOK, LeafFits, Renewing, Owes, UpOK, Piped
<1> QED
  BY <1>1, <1>2, <1>3, <1>4, <1>5, <1>6, <1>7, <1>8, <1>9, <1>10, <1>11, <1>12,
          <1>13, <1>14, <1>15, <1>16, <1>17, <1>18, <1>19, <1>20, <1>21, <1>22,
          <1>23
  DEF ProvisioningNext, Recreates

LEMMA AccountsStep ==
  ASSUME ProvisioningInv, ProvisioningNext
  PROVE  AccountsOK'
<1> USE DEF Budgets, Proceed, AtStage, Between, BeforeStart, AfterCa, AfterStart, AfterRum,
            AfterOps, AfterRead, AfterWrite, ProvisioningInv
<1>1. CASE PurgeVolumes
  BY <1>1, DebtsDiffer
  DEF PurgeVolumes, NoContainer, AccountsOK, Untold, Owes, FilesOK,
          ProvisioningTypeOK, Content, Accounts, Token, Unset, Piped
<1>2. CASE PurgeFiles
  BY <1>2
  DEF PurgeFiles, NoCerts, NoContainer, AccountsOK, Untold, Owes, FilesOK,
          ProvisioningTypeOK, Content, Accounts, Token, Unset, Piped
<1>3. CASE Down
  BY <1>3, DebtsDiffer
  DEF Down, AccountsOK, Untold, Owes, FilesOK, ProvisioningTypeOK, Content,
          Accounts, Token, Unset, Piped
<1>4. CASE EnsureSecrets
  BY <1>4
  DEF EnsureSecrets, AccountsOK, Untold, Owes, FilesOK, ProvisioningTypeOK, Content,
          Accounts, Token, Unset, Piped
<1>5. CASE EnsureCertificates
  BY <1>5, DebtsDiffer
  DEF EnsureCertificates, CaValid, LeafValid, LeafIssued, AccountsOK, Untold, Owes,
          FilesOK, ProvisioningTypeOK, Content, Accounts, Token, Unset, Piped
<1>6. CASE OpenControls
  BY <1>6, DebtsDiffer
  DEF OpenControls, Opens, AccountsOK, Untold, Owes, FilesOK, ProvisioningTypeOK,
          Content, Accounts, Token, Unset, Piped
<1>7. CASE ComposeUp
  BY <1>7, ContainersStart, StartedFacts, ComposeOwes
  DEF ComposeUp, PairFits, AccountsOK, Untold, Owes, FilesOK, ProvisioningTypeOK,
          Content, Accounts, Token, Unset, Piped
<1>8. CASE FetchRumToken
  BY <1>8
  DEF FetchRumToken, Persist, AccountsOK, Untold, Owes, FilesOK, ProvisioningTypeOK,
          Content, Accounts, Token, Unset, Piped
<1>9. CASE CreateOpsToken
  BY <1>9
  DEF CreateOpsToken, AccountsOK, Untold, Owes, FilesOK, ProvisioningTypeOK,
          Content, Accounts, Token, Unset, Piped
<1>10. CASE PersistOpsToken
  BY <1>10
  DEF PersistOpsToken, Persist, AccountsOK, Untold, Owes, FilesOK,
          ProvisioningTypeOK, Content, Accounts, Token, Unset, Piped
<1>11. CASE EnsureServiceAccount("read", "read file", "write")
  BY <1>11
  DEF EnsureServiceAccount, Persist, CanSearch, AccountsOK, Untold, Owes, FilesOK,
          ProvisioningTypeOK, Content, Accounts, Token, Unset, Piped
<1>12. CASE EnsureServiceAccount("write", "write file", "sync containers")
  BY <1>12
  DEF EnsureServiceAccount, Persist, CanSearch, AccountsOK, Untold, Owes, FilesOK,
          ProvisioningTypeOK, Content, Accounts, Token, Unset, Piped
<1>13. CASE Recreates
  BY <1>13, ContainersStart, StartedFacts, RecreatesOwe
  DEF Recreates, RecreateReaders, AccountsOK, Untold, Owes, FilesOK,
          ProvisioningTypeOK, Content, Accounts, Token, Unset, Piped
<1>14. CASE EnsurePipeline("_rumdata", "_rumlog")
  BY <1>14, DebtsDiffer
  DEF EnsurePipeline, AccountsOK, Untold, Owes, FilesOK, ProvisioningTypeOK,
          Content, Accounts, Token, Unset, Piped
<1>15. CASE EnsurePipeline("_rumlog", "read back")
  BY <1>15, DebtsDiffer
  DEF EnsurePipeline, AccountsOK, Untold, Owes, FilesOK, ProvisioningTypeOK,
          Content, Accounts, Token, Unset, Piped
<1>16. ASSUME NEW s \in Piped, PipelineInterrupted(s)
      PROVE  AccountsOK'
  BY <1>16
  DEF PipelineInterrupted, AccountsOK, Untold, Owes, FilesOK, ProvisioningTypeOK,
          Content, Accounts, Token, Unset, Piped
<1>17. CASE VerifyProvisioned
  BY <1>17
  DEF VerifyProvisioned, AccountsOK, Untold, Owes, FilesOK, ProvisioningTypeOK,
          Content, Accounts, Token, Unset, Piped
<1>18. CASE Restamp
  BY <1>18
  DEF Restamp, AccountsOK, Untold, Owes, FilesOK, ProvisioningTypeOK, Content,
          Accounts, Token, Unset, Piped
<1>19. CASE RotateLeaf
  BY <1>19, DebtsDiffer
  DEF RotateLeaf, LeafIssued, Reloads, PairFits, AccountsOK, Untold, Owes, FilesOK,
          ProvisioningTypeOK, Content, Accounts, Token, Unset, Piped
<1>20. CASE KillSwitch
  BY <1>20, KillSwitchSteps, DebtsDiffer
  DEF AccountsOK, Untold, Owes, FilesOK, ProvisioningTypeOK, Content, Accounts,
          Token, Unset, Piped
<1>21. CASE Upset
  BY <1>21
  DEF Upset, AccountsOK, Untold, Owes, FilesOK, ProvisioningTypeOK, Content,
          Accounts, Token, Unset, Piped
<1>22. CASE Interrupt
  BY <1>22
  DEF Interrupt, LeavesOwing, AccountsOK, Untold, Owes, FilesOK, ProvisioningTypeOK,
          Content, Accounts, Token, Unset, Piped
<1>23. CASE Refuse
  BY <1>23, RefusalExplained
  DEF Refuse, LeavesOwing, AccountsOK, Untold, Owes, FilesOK, ProvisioningTypeOK,
          Content, Accounts, Token, Unset, Piped
<1> QED
  BY <1>1, <1>2, <1>3, <1>4, <1>5, <1>6, <1>7, <1>8, <1>9, <1>10, <1>11, <1>12,
          <1>13, <1>14, <1>15, <1>16, <1>17, <1>18, <1>19, <1>20, <1>21, <1>22,
          <1>23
  DEF ProvisioningNext, Recreates

LEMMA ReadersStep ==
  ASSUME ProvisioningInv, ProvisioningNext
  PROVE  ReadersOK'
<1> USE DEF Budgets, Proceed, AtStage, Between, BeforeStart, AfterCa, AfterStart, AfterRum,
            AfterOps, AfterRead, AfterWrite, ProvisioningInv
<1>1. CASE PurgeVolumes
  BY <1>1, DebtsDiffer
  DEF PurgeVolumes, NoContainer, ReadersOK, Outdated, Owes, Running, FilesOK,
          ProvisioningTypeOK, Content, Token, Container, Reader, Accounts, Piped
<1>2. CASE PurgeFiles
  BY <1>2
  DEF PurgeFiles, NoCerts, NoContainer, ReadersOK, Outdated, Owes, Running, FilesOK,
          ProvisioningTypeOK, Content, Token, Container, Reader, Accounts, Piped
<1>3. CASE Down
  BY <1>3, DebtsDiffer
  DEF Down, ReadersOK, Outdated, Owes, Running, FilesOK, ProvisioningTypeOK,
          Content, Token, Container, Reader, Accounts, Piped
<1>4. CASE EnsureSecrets
  BY <1>4
  DEF EnsureSecrets, ReadersOK, Outdated, Owes, Running, FilesOK,
          ProvisioningTypeOK, Content, Token, Container, Reader, Accounts, Piped
<1>5. CASE EnsureCertificates
  BY <1>5, DebtsDiffer
  DEF EnsureCertificates, CaValid, LeafValid, LeafIssued, ReadersOK, Outdated, Owes,
          Running, FilesOK, ProvisioningTypeOK, Content, Token, Container, Reader,
          Accounts, Piped
<1>6. CASE OpenControls
  BY <1>6, DebtsDiffer
  DEF OpenControls, Opens, ReadersOK, Outdated, Owes, Running, FilesOK,
          ProvisioningTypeOK, Content, Token, Container, Reader, Accounts, Piped
<1>7. CASE ComposeUp
  BY <1>7, ContainersStart, StartedFacts, ComposeOwes
  DEF ComposeUp, PairFits, ReadersOK, Outdated, Owes, Running, FilesOK,
          ProvisioningTypeOK, Content, Token, Container, Reader, Accounts, Piped
<1>8. CASE FetchRumToken
  BY <1>8
  DEF FetchRumToken, Persist, ReadersOK, Outdated, Owes, Running, FilesOK,
          ProvisioningTypeOK, Content, Token, Container, Reader, Accounts, Piped
<1>9. CASE CreateOpsToken
  BY <1>9
  DEF CreateOpsToken, ReadersOK, Outdated, Owes, Running, FilesOK,
          ProvisioningTypeOK, Content, Token, Container, Reader, Accounts, Piped
<1>10. CASE PersistOpsToken
  BY <1>10
  DEF PersistOpsToken, Persist, ReadersOK, Outdated, Owes, Running, FilesOK,
          ProvisioningTypeOK, Content, Token, Container, Reader, Accounts, Piped
<1>11. CASE EnsureServiceAccount("read", "read file", "write")
  BY <1>11
  DEF EnsureServiceAccount, Persist, CanSearch, ReadersOK, Outdated, Owes, Running,
          FilesOK, ProvisioningTypeOK, Content, Token, Container, Reader, Accounts,
          Piped
<1>12. CASE EnsureServiceAccount("write", "write file", "sync containers")
  BY <1>12
  DEF EnsureServiceAccount, Persist, CanSearch, ReadersOK, Outdated, Owes, Running,
          FilesOK, ProvisioningTypeOK, Content, Token, Container, Reader, Accounts,
          Piped
<1>13. CASE Recreates
  <2>1. CASE RecreateReaders("rum containers", {"rum"}, "ops")
    <3>1. stage = "rum containers" /\ stage' = "ops" /\ UNCHANGED <<file, changed>>
      BY <2>1 DEF RecreateReaders
    <3>2. CASE changed \cap {"rum"} = {}
      BY <2>1, <3>1, <3>2 DEF RecreateReaders, ReadersOK, Running, Outdated, Owes, Token, Accounts
    <3>3. CASE changed \cap {"rum"} # {}
      <4>1. StartAgain({Reader(t) : t \in {"rum"}}) /\ {Reader(t) : t \in {"rum"}} = {"worker"}
        BY <2>1, <3>3 DEF RecreateReaders, Reader, Accounts
      <4>2. /\ used' = [c \in Container |-> IF c = "worker" THEN Started(c) ELSE used[c]]
            /\ \A t \in Token : <<"reader", t>> \in owing =>
                 <<"reader", t>> \in owing' \/ Reader(t) = "worker"
        BY <4>1, RecreatedOwes DEF StartAgain
      <4>3. \A t \in Token : Reader(t) \in Container /\ (Reader(t) = "worker" => Started("worker")[t] = file[t])
        BY DEF Container, Reader, Started
      <4>4. \A t \in Token : Reader(t) # "worker" => ~Outdated(t)
        BY <3>1 DEF Outdated, Reader, Accounts
      <4> QED
        BY <3>1, <4>2, <4>3, <4>4 DEF ReadersOK, Running, Owes
    <3> QED
      BY <3>2, <3>3
  <2>2. CASE RecreateReaders("ops containers", {"ops"}, "read")
    <3>1. stage = "ops containers" /\ stage' = "read" /\ UNCHANGED <<file, changed>>
      BY <2>2 DEF RecreateReaders
    <3>2. CASE changed \cap {"ops"} = {}
      BY <2>2, <3>1, <3>2 DEF RecreateReaders, ReadersOK, Running, Outdated, Owes, Token, Accounts
    <3>3. CASE changed \cap {"ops"} # {}
      <4>1. StartAgain({Reader(t) : t \in {"ops"}}) /\ {Reader(t) : t \in {"ops"}} = {"worker"}
        BY <2>2, <3>3 DEF RecreateReaders, Reader, Accounts
      <4>2. /\ used' = [c \in Container |-> IF c = "worker" THEN Started(c) ELSE used[c]]
            /\ \A t \in Token : <<"reader", t>> \in owing =>
                 <<"reader", t>> \in owing' \/ Reader(t) = "worker"
        BY <4>1, RecreatedOwes DEF StartAgain
      <4>3. \A t \in Token : Reader(t) \in Container /\ (Reader(t) = "worker" => Started("worker")[t] = file[t])
        BY DEF Container, Reader, Started
      <4>4. \A t \in Token : Reader(t) # "worker" => ~Outdated(t)
        BY <3>1 DEF Outdated, Reader, Accounts
      <4> QED
        BY <3>1, <4>2, <4>3, <4>4 DEF ReadersOK, Running, Owes
    <3> QED
      BY <3>2, <3>3
  <2>3. CASE RecreateReaders("sync containers", Accounts, "_rumdata")
    <3>1. stage = "sync containers" /\ stage' = "_rumdata" /\ UNCHANGED <<file, changed>>
      BY <2>3 DEF RecreateReaders
    <3>2. CASE changed \cap Accounts = {}
      BY <2>3, <3>1, <3>2 DEF RecreateReaders, ReadersOK, Running, Outdated, Owes, Token, Accounts
    <3>3. CASE changed \cap Accounts # {}
      <4>1. StartAgain({Reader(t) : t \in Accounts}) /\ {Reader(t) : t \in Accounts} = {"sync"}
        BY <2>3, <3>3 DEF RecreateReaders, Reader, Accounts
      <4>2. /\ used' = [c \in Container |-> IF c = "sync" THEN Started(c) ELSE used[c]]
            /\ \A t \in Token : <<"reader", t>> \in owing =>
                 <<"reader", t>> \in owing' \/ Reader(t) = "sync"
        BY <4>1, RecreatedOwes DEF StartAgain
      <4>3. \A t \in Token : Reader(t) \in Container /\ (Reader(t) = "sync" => Started("sync")[t] = file[t])
        BY DEF Container, Reader, Started
      <4>4. \A t \in Token : Reader(t) # "sync" => ~Outdated(t)
        BY <3>1 DEF Outdated, Reader, Accounts
      <4> QED
        BY <3>1, <4>2, <4>3, <4>4 DEF ReadersOK, Running, Owes
    <3> QED
      BY <3>2, <3>3
  <2> QED
    BY <1>13, <2>1, <2>2, <2>3 DEF Recreates
<1>14. CASE EnsurePipeline("_rumdata", "_rumlog")
  BY <1>14, DebtsDiffer
  DEF EnsurePipeline, ReadersOK, Outdated, Owes, Running, FilesOK,
          ProvisioningTypeOK, Content, Token, Container, Reader, Accounts, Piped
<1>15. CASE EnsurePipeline("_rumlog", "read back")
  BY <1>15, DebtsDiffer
  DEF EnsurePipeline, ReadersOK, Outdated, Owes, Running, FilesOK,
          ProvisioningTypeOK, Content, Token, Container, Reader, Accounts, Piped
<1>16. ASSUME NEW s \in Piped, PipelineInterrupted(s)
      PROVE  ReadersOK'
  BY <1>16
  DEF PipelineInterrupted, ReadersOK, Outdated, Owes, Running, FilesOK,
          ProvisioningTypeOK, Content, Token, Container, Reader, Accounts, Piped
<1>17. CASE VerifyProvisioned
  BY <1>17
  DEF VerifyProvisioned, ReadersOK, Outdated, Owes, Running, FilesOK,
          ProvisioningTypeOK, Content, Token, Container, Reader, Accounts, Piped
<1>18. CASE Restamp
  BY <1>18
  DEF Restamp, ReadersOK, Outdated, Owes, Running, FilesOK, ProvisioningTypeOK,
          Content, Token, Container, Reader, Accounts, Piped
<1>19. CASE RotateLeaf
  BY <1>19, DebtsDiffer
  DEF RotateLeaf, LeafIssued, Reloads, PairFits, ReadersOK, Outdated, Owes, Running,
          FilesOK, ProvisioningTypeOK, Content, Token, Container, Reader, Accounts,
          Piped
<1>20. CASE KillSwitch
  BY <1>20, KillSwitchSteps, DebtsDiffer
  DEF ReadersOK, Outdated, Owes, Running, FilesOK, ProvisioningTypeOK, Content,
          Token, Container, Reader, Accounts, Piped
<1>21. CASE Upset
  BY <1>21
  DEF Upset, ReadersOK, Outdated, Owes, Running, FilesOK, ProvisioningTypeOK,
          Content, Token, Container, Reader, Accounts, Piped
<1>22. CASE Interrupt
  BY <1>22
  DEF Interrupt, LeavesOwing, ReadersOK, Outdated, Owes, Running, FilesOK,
          ProvisioningTypeOK, Content, Token, Container, Reader, Accounts, Piped
<1>23. CASE Refuse
  BY <1>23, RefusalExplained
  DEF Refuse, LeavesOwing, ReadersOK, Outdated, Owes, Running, FilesOK,
          ProvisioningTypeOK, Content, Token, Container, Reader, Accounts, Piped
<1> QED
  BY <1>1, <1>2, <1>3, <1>4, <1>5, <1>6, <1>7, <1>8, <1>9, <1>10, <1>11, <1>12,
          <1>13, <1>14, <1>15, <1>16, <1>17, <1>18, <1>19, <1>20, <1>21, <1>22,
          <1>23
  DEF ProvisioningNext, Recreates

LEMMA PipelinesStep ==
  ASSUME ProvisioningInv, ProvisioningNext
  PROVE  PipelinesOK'
<1> USE DEF Budgets, Proceed, AtStage, Between, BeforeStart, AfterCa, AfterStart, AfterRum,
            AfterOps, AfterRead, AfterWrite, ProvisioningInv
<1>1. CASE PurgeVolumes
  BY <1>1, DebtsDiffer
  DEF PurgeVolumes, NoContainer, PipelinesOK, Owes, ProvisioningTypeOK, Piped
<1>2. CASE PurgeFiles
  BY <1>2
  DEF PurgeFiles, NoCerts, NoContainer, PipelinesOK, Owes, ProvisioningTypeOK, Piped
<1>3. CASE Down
  BY <1>3, DebtsDiffer
  DEF Down, PipelinesOK, Owes, ProvisioningTypeOK, Piped
<1>4. CASE EnsureSecrets
  BY <1>4
  DEF EnsureSecrets, PipelinesOK, Owes, ProvisioningTypeOK, Piped
<1>5. CASE EnsureCertificates
  BY <1>5, DebtsDiffer
  DEF EnsureCertificates, CaValid, LeafValid, LeafIssued, PipelinesOK, Owes,
          ProvisioningTypeOK, Piped
<1>6. CASE OpenControls
  BY <1>6, DebtsDiffer
  DEF OpenControls, Opens, PipelinesOK, Owes, ProvisioningTypeOK, Piped
<1>7. CASE ComposeUp
  BY <1>7, ContainersStart, StartedFacts, ComposeOwes
  DEF ComposeUp, PairFits, PipelinesOK, Owes, ProvisioningTypeOK, Piped
<1>8. CASE FetchRumToken
  BY <1>8
  DEF FetchRumToken, Persist, PipelinesOK, Owes, ProvisioningTypeOK, Piped
<1>9. CASE CreateOpsToken
  BY <1>9
  DEF CreateOpsToken, PipelinesOK, Owes, ProvisioningTypeOK, Piped
<1>10. CASE PersistOpsToken
  BY <1>10
  DEF PersistOpsToken, Persist, PipelinesOK, Owes, ProvisioningTypeOK, Piped
<1>11. CASE EnsureServiceAccount("read", "read file", "write")
  BY <1>11
  DEF EnsureServiceAccount, Persist, CanSearch, PipelinesOK, Owes,
          ProvisioningTypeOK, Piped
<1>12. CASE EnsureServiceAccount("write", "write file", "sync containers")
  BY <1>12
  DEF EnsureServiceAccount, Persist, CanSearch, PipelinesOK, Owes,
          ProvisioningTypeOK, Piped
<1>13. CASE Recreates
  BY <1>13, ContainersStart, StartedFacts, RecreatesOwe
  DEF Recreates, RecreateReaders, PipelinesOK, Owes, ProvisioningTypeOK, Piped
<1>14. CASE EnsurePipeline("_rumdata", "_rumlog")
  BY <1>14, DebtsDiffer
  DEF EnsurePipeline, PipelinesOK, Owes, ProvisioningTypeOK, Piped
<1>15. CASE EnsurePipeline("_rumlog", "read back")
  BY <1>15, DebtsDiffer
  DEF EnsurePipeline, PipelinesOK, Owes, ProvisioningTypeOK, Piped
<1>16. ASSUME NEW s \in Piped, PipelineInterrupted(s)
      PROVE  PipelinesOK'
  BY <1>16
  DEF PipelineInterrupted, PipelinesOK, Owes, ProvisioningTypeOK, Piped
<1>17. CASE VerifyProvisioned
  BY <1>17
  DEF VerifyProvisioned, PipelinesOK, Owes, ProvisioningTypeOK, Piped
<1>18. CASE Restamp
  BY <1>18
  DEF Restamp, PipelinesOK, Owes, ProvisioningTypeOK, Piped
<1>19. CASE RotateLeaf
  BY <1>19, DebtsDiffer
  DEF RotateLeaf, LeafIssued, Reloads, PairFits, PipelinesOK, Owes,
          ProvisioningTypeOK, Piped
<1>20. CASE KillSwitch
  BY <1>20, KillSwitchSteps, DebtsDiffer
  DEF PipelinesOK, Owes, ProvisioningTypeOK, Piped
<1>21. CASE Upset
  BY <1>21
  DEF Upset, PipelinesOK, Owes, ProvisioningTypeOK, Piped
<1>22. CASE Interrupt
  BY <1>22
  DEF Interrupt, LeavesOwing, PipelinesOK, Owes, ProvisioningTypeOK, Piped
<1>23. CASE Refuse
  BY <1>23, RefusalExplained
  DEF Refuse, LeavesOwing, PipelinesOK, Owes, ProvisioningTypeOK, Piped
<1> QED
  BY <1>1, <1>2, <1>3, <1>4, <1>5, <1>6, <1>7, <1>8, <1>9, <1>10, <1>11, <1>12,
          <1>13, <1>14, <1>15, <1>16, <1>17, <1>18, <1>19, <1>20, <1>21, <1>22,
          <1>23
  DEF ProvisioningNext, Recreates

LEMMA RefusedStep ==
  ASSUME ProvisioningInv, ProvisioningNext
  PROVE  RefusedOK'
<1> USE DEF Budgets, Proceed, AtStage, Between, BeforeStart, AfterCa, AfterStart, AfterRum,
            AfterOps, AfterRead, AfterWrite, ProvisioningInv
<1>1. CASE PurgeVolumes
  BY <1>1, DebtsDiffer
  DEF PurgeVolumes, NoContainer, RefusedOK, Owes
<1>2. CASE PurgeFiles
  BY <1>2
  DEF PurgeFiles, NoCerts, NoContainer, RefusedOK, Owes
<1>3. CASE Down
  BY <1>3, DebtsDiffer
  DEF Down, RefusedOK, Owes
<1>4. CASE EnsureSecrets
  BY <1>4
  DEF EnsureSecrets, RefusedOK, Owes
<1>5. CASE EnsureCertificates
  BY <1>5, DebtsDiffer
  DEF EnsureCertificates, CaValid, LeafValid, LeafIssued, RefusedOK, Owes
<1>6. CASE OpenControls
  BY <1>6, DebtsDiffer
  DEF OpenControls, Opens, RefusedOK, Owes
<1>7. CASE ComposeUp
  BY <1>7, ContainersStart, StartedFacts, ComposeOwes
  DEF ComposeUp, PairFits, RefusedOK, Owes
<1>8. CASE FetchRumToken
  BY <1>8
  DEF FetchRumToken, Persist, RefusedOK, Owes
<1>9. CASE CreateOpsToken
  BY <1>9
  DEF CreateOpsToken, RefusedOK, Owes
<1>10. CASE PersistOpsToken
  BY <1>10
  DEF PersistOpsToken, Persist, RefusedOK, Owes
<1>11. CASE EnsureServiceAccount("read", "read file", "write")
  BY <1>11
  DEF EnsureServiceAccount, Persist, CanSearch, RefusedOK, Owes
<1>12. CASE EnsureServiceAccount("write", "write file", "sync containers")
  BY <1>12
  DEF EnsureServiceAccount, Persist, CanSearch, RefusedOK, Owes
<1>13. CASE Recreates
  BY <1>13, ContainersStart, StartedFacts, RecreatesOwe
  DEF Recreates, RecreateReaders, RefusedOK, Owes
<1>14. CASE EnsurePipeline("_rumdata", "_rumlog")
  BY <1>14, DebtsDiffer
  DEF EnsurePipeline, RefusedOK, Owes
<1>15. CASE EnsurePipeline("_rumlog", "read back")
  BY <1>15, DebtsDiffer
  DEF EnsurePipeline, RefusedOK, Owes
<1>16. ASSUME NEW s \in Piped, PipelineInterrupted(s)
      PROVE  RefusedOK'
  BY <1>16
  DEF PipelineInterrupted, RefusedOK, Owes
<1>17. CASE VerifyProvisioned
  BY <1>17
  DEF VerifyProvisioned, RefusedOK, Owes
<1>18. CASE Restamp
  BY <1>18
  DEF Restamp, RefusedOK, Owes
<1>19. CASE RotateLeaf
  BY <1>19, DebtsDiffer
  DEF RotateLeaf, LeafIssued, Reloads, PairFits, RefusedOK, Owes
<1>20. CASE KillSwitch
  BY <1>20, KillSwitchSteps, DebtsDiffer
  DEF RefusedOK, Owes
<1>21. CASE Upset
  BY <1>21
  DEF Upset, RefusedOK, Owes
<1>22. CASE Interrupt
  BY <1>22
  DEF Interrupt, LeavesOwing, RefusedOK, Owes
<1>23. CASE Refuse
  BY <1>23, RefusalExplained
  DEF Refuse, LeavesOwing, RefusedOK, Owes
<1> QED
  BY <1>1, <1>2, <1>3, <1>4, <1>5, <1>6, <1>7, <1>8, <1>9, <1>10, <1>11, <1>12,
          <1>13, <1>14, <1>15, <1>16, <1>17, <1>18, <1>19, <1>20, <1>21, <1>22,
          <1>23
  DEF ProvisioningNext, Recreates

LEMMA ProvisioningStart == ProvisioningInit => ProvisioningInv
<1> SUFFICES ASSUME ProvisioningInit
             PROVE  ProvisioningInv
  OBVIOUS
<1>1. ProvisioningTypeOK
  <2>1. NoContainer \in Content
    BY DEF NoContainer, Content, Unset
  <2>2. NoCerts \in Certificates
    BY DEF NoCerts, Certificates
  <2>3. used \in [Container -> Content]
    BY <2>1 DEF ProvisioningInit
  <2>4. lists \in [Piped -> SUBSET {"desired", "drifted", "twin", "company"}]
    BY DEF ProvisioningInit
  <2>5. crashes \in 0 .. Crashes /\ upsets \in 0 .. Upsets
    BY ProvisioningAssumption DEF ProvisioningInit
  <2>6. /\ issued \subseteq Token /\ changed \subseteq Token /\ served \in Nat
        /\ up \in BOOLEAN /\ owing \subseteq Debt
    BY DEF ProvisioningInit
  <2>7. posted \in [Control -> Switch] /\ loaded \in Switch
    BY DEF ProvisioningInit, Switch
  <2> QED
    BY <2>1, <2>2, <2>3, <2>4, <2>5, <2>6, <2>7 DEF ProvisioningTypeOK, ProvisioningInit
<1> USE DEF ProvisioningInit
<1>2. EstablishedOK /\ UpOK /\ FilesOK /\ ControlsOK
  BY DEF EstablishedOK, UpOK, FilesOK, ControlsOK, Running, BeforeStart, AfterCa, AfterStart, AfterRum,
         AfterOps, AfterRead, AfterWrite
<1>3. CertsOK /\ AccountsOK /\ ReadersOK /\ PipelinesOK /\ RefusedOK
  BY DEF CertsOK, LeafFits, NoCerts, AccountsOK, ReadersOK, PipelinesOK, RefusedOK, Running,
         Container, Reader, BeforeStart, AfterCa, AfterStart, AfterRum, AfterOps, AfterRead, AfterWrite
<1> QED
  BY <1>1, <1>2, <1>3 DEF ProvisioningInv

LEMMA ProvisioningKept == ProvisioningInv /\ [ProvisioningNext]_provisioningVars => ProvisioningInv'
<1> SUFFICES ASSUME ProvisioningInv, [ProvisioningNext]_provisioningVars
             PROVE  ProvisioningInv'
  OBVIOUS
<1>1. CASE ProvisioningNext
  <2>1. ProvisioningTypeOK'
    BY <1>1, ProvisioningTypes DEF ProvisioningInv
  <2> QED
    BY <1>1, <2>1, EstablishedStep, ControlsStep, UpStep, FilesStep, CertsStep, AccountsStep,
       ReadersStep, PipelinesStep, RefusedStep
    DEF ProvisioningInv
<1>2. CASE UNCHANGED provisioningVars
  <2> USE <1>2 DEF provisioningVars, ProvisioningInv, Running, Provisioned, Owes
  <2>1. ProvisioningTypeOK'
    BY DEF ProvisioningTypeOK
  <2>2. EstablishedOK'
    BY DEF EstablishedOK
  <2>3. UpOK' /\ FilesOK' /\ ControlsOK'
    BY DEF UpOK, FilesOK, ControlsOK
  <2>4. CertsOK' /\ AccountsOK'
    BY DEF CertsOK, LeafFits, Renewing, AccountsOK, Untold
  <2>5. ReadersOK' /\ PipelinesOK' /\ RefusedOK'
    BY DEF ReadersOK, Outdated, PipelinesOK, RefusedOK
  <2> QED
    BY <2>1, <2>2, <2>3, <2>4, <2>5
<1> QED
  BY <1>1, <1>2

(* lab:up and lab:purge, with any number of interruptions, of certificates *)
(* that near their end, of pipelines edited by others and of uses of the   *)
(* kill switch: a lab:up that came to its end leaves tokens that           *)
(* OpenObserve knows, the pipelines alone and a kill switch that is off in *)
(* every file; what it may leave otherwise, or stop at, is what an         *)
(* interruption, a closed proxy or an unreadable listing explains.         *)
THEOREM LabComesUpCurrent == Spec => []ProvisioningOK
<1>1. Init => ProvisioningInv
  BY ProvisioningStart DEF Init
<1>2. [Next]_governanceVars => [ProvisioningNext]_provisioningVars
  BY DEF Next, governanceVars
<1>3. ProvisioningInv => ProvisioningOK
  <2> SUFFICES ASSUME ProvisioningInv
               PROVE  UpMeansCurrent
    BY DEF ProvisioningOK, ProvisioningInv
  <2>1. up => /\ issued = Token /\ Provisioned
              /\ \A t \in Token : file[t] = "real"
              /\ \A f \in Control : posted[f] = "off"
              /\ loaded = "off" \/ Owes(GateDebt)
    BY DEF ProvisioningInv, UpOK
  <2>2. ASSUME up, Between
        PROVE  /\ certs.caKey = certs.ca
               /\ LeafFits \/ Owes(LeafDebt)
               /\ \A t \in Token : used[Reader(t)][t] = file[t] \/ Owes(<<"reader", t>>)
    <3>1. stage \in {"idle", "refused"}
      BY <2>2 DEF Between
    <3>2. certs.caKey = certs.ca /\ (LeafFits \/ Owes(LeafDebt))
      BY <2>2, <3>1 DEF ProvisioningInv, CertsOK, Renewing
    <3>3. \A t \in Token : Running(Reader(t)) /\ ~Outdated(t)
      BY <2>2, <3>1 DEF ProvisioningInv, UpOK, Container, Reader, Outdated
    <3> QED
      BY <3>2, <3>3 DEF ProvisioningInv, ReadersOK
  <2>3. RefusedOK
    BY DEF ProvisioningInv
  <2> QED
    BY <2>1, <2>2, <2>3 DEF UpMeansCurrent, RefusedOK
<1> QED
  BY <1>1, <1>2, <1>3, ProvisioningKept, PTL DEF Spec

(***************************************************************************)
(* The policies of the alerts.                                             *)
(***************************************************************************)

(* A sample changes the notifications by a firing, a resolution or not at  *)
(* all; it is one that was earned, and keeps the counters.                 *)
LEMMA AlertSteps ==
  ASSUME AlertInv, AlertNext
  PROVE  /\ UNCHANGED policy /\ minute' \in Nat /\ minute' >= minute
         /\ streak' \in Nat /\ healed' \in Nat
         /\ alert' \in Alerts /\ CountersOK'
         /\ \/ UNCHANGED notes /\ alert'.open = alert.open /\ alert'.last = alert.last
            \/ \E key \in Keys :
                 /\ notes' = Append(notes, Note("firing", key, minute'))
                 /\ CooledDown(minute') /\ alert.open # key
                 /\ alert'.open = key /\ alert'.last = minute'
                 /\ streak' >= policy.breaches
            \/ /\ notes' = Append(notes, Note("resolved", alert.open, minute'))
               /\ alert.open # NoKey
               /\ alert'.open = NoKey /\ alert'.last = alert.last
               /\ policy.healthy # Unstated /\ healed' >= policy.healthy
<1> USE DEF AlertInv, AlertShape, Alerts, CountersOK
<1>0. /\ policy.breaches \in Int /\ policy.healthy \in Int \cup {Unstated}
      /\ \A value \in Values : value \in Int
      /\ \A m \in minute .. MaxMinute : m \in Nat /\ m >= minute
  BY PolicyAssumption
<1>1. CASE Unusable
  BY <1>0, <1>1 DEF Unusable, Later
<1>2. CASE TooSmall
  <2>1. /\ Later /\ streak' = 0 /\ UNCHANGED <<policy, notes, healed>>
        /\ alert' = [alert EXCEPT !.status = "INSUFFICIENT_SAMPLE", !.breaches = 0]
    BY <1>2 DEF TooSmall
  <2>2. /\ alert' \in Alerts /\ alert'.breaches = 0 /\ alert'.healthy = alert.healthy
        /\ alert'.open = alert.open /\ alert'.last = alert.last
    BY <2>1
  <2> QED
    BY <1>0, <2>1, <2>2 DEF Later
<1>3. ASSUME NEW key \in Keys, Breach(key)
      PROVE  /\ UNCHANGED policy /\ minute' \in Nat /\ minute' >= minute
             /\ streak' \in Nat /\ healed' \in Nat
             /\ alert' \in Alerts /\ CountersOK'
             /\ \/ UNCHANGED notes /\ alert'.open = alert.open /\ alert'.last = alert.last
                \/ /\ notes' = Append(notes, Note("firing", key, minute'))
                   /\ CooledDown(minute') /\ alert.open # key
                   /\ alert'.open = key /\ alert'.last = minute'
                   /\ streak' >= policy.breaches
  <2>0. /\ Later /\ streak' = streak + 1 /\ healed' = 0 /\ UNCHANGED policy
    BY <1>3 DEF Breach
  <2>1. CASE Fires(key, minute')
    <3>1. /\ alert' = [alert EXCEPT !.status = "FIRING", !.breaches = @ + 1, !.healthy = 0,
                                    !.open = key, !.last = minute']
          /\ notes' = Append(notes, Note("firing", key, minute'))
      BY <1>3, <2>1 DEF Breach
    <3>2. /\ alert'.breaches = alert.breaches + 1 /\ alert'.healthy = 0
          /\ alert'.open = key /\ alert'.last = minute' /\ alert'.status = "FIRING"
      BY <3>1
    <3>3. minute' \in Nat /\ minute' >= minute
      BY <1>0, <2>0 DEF Later
    <3>4. alert' \in Alerts
      <4>1. alert.breaches + 1 \in Nat /\ minute' \in Int /\ key \in Keys \cup {NoKey}
        BY <3>3
      <4> QED
        BY <3>1, <4>1
    <3> QED
      BY <1>0, <2>0, <2>1, <3>1, <3>2, <3>3, <3>4, SMTT(30) DEF Fires, Enough
  <2>2. CASE ~Fires(key, minute')
    <3>1. UNCHANGED notes /\ \E status \in {"FIRING", "PENDING"} :
            alert' = [alert EXCEPT !.status = status, !.breaches = @ + 1, !.healthy = 0]
      BY <1>3, <2>2 DEF Breach
    <3>2. /\ alert' \in Alerts
          /\ alert'.breaches = alert.breaches + 1 /\ alert'.healthy = 0
          /\ alert'.open = alert.open /\ alert'.last = alert.last
      <4>1. PICK status \in {"FIRING", "PENDING"} :
              alert' = [alert EXCEPT !.status = status, !.breaches = @ + 1, !.healthy = 0]
        BY <3>1
      <4>2. alert.breaches + 1 \in Nat
        OBVIOUS
      <4> QED
        BY <4>1, <4>2
    <3> QED
      BY <1>0, <2>0, <3>1, <3>2 DEF Later
  <2> QED
    BY <2>1, <2>2
<1>4. ASSUME NEW value \in Values, NEW observed \in BOOLEAN, NoBreach(Recovers(value, observed))
      PROVE  /\ UNCHANGED policy /\ minute' \in Nat /\ minute' >= minute
             /\ streak' \in Nat /\ healed' \in Nat
             /\ alert' \in Alerts /\ CountersOK'
             /\ \/ UNCHANGED notes /\ alert'.open = alert.open /\ alert'.last = alert.last
                \/ /\ notes' = Append(notes, Note("resolved", alert.open, minute'))
                   /\ alert.open # NoKey
                   /\ alert'.open = NoKey /\ alert'.last = alert.last
                   /\ policy.healthy # Unstated /\ healed' >= policy.healthy
  <2> DEFINE recovers == Recovers(value, observed)
             steps == alert.open # NoKey /\ recovers
             healthy == IF steps THEN alert.healthy + 1 ELSE alert.healthy
             counted == IF recovers THEN healed + 1 ELSE healed
  <2>1. /\ Later /\ streak' = 0 /\ UNCHANGED policy
        /\ healed' = counted
        /\ IF steps /\ policy.healthy # Unstated /\ healthy >= policy.healthy
             THEN /\ alert' = [alert EXCEPT !.status = "RESOLVED", !.breaches = 0,
                                            !.healthy = healthy, !.open = NoKey]
                  /\ notes' = Append(notes, Note("resolved", alert.open, minute'))
             ELSE /\ alert' = [alert EXCEPT !.status = "HEALTHY", !.breaches = 0,
                                            !.healthy = healthy]
                  /\ UNCHANGED notes
    BY <1>4 DEF NoBreach
  <2>2. healthy \in Nat /\ counted \in Nat /\ healthy <= counted
    OBVIOUS
  <2>3. steps => alert.open # NoKey
    OBVIOUS
  <2> HIDE DEF recovers, steps, healthy, counted
  <2>4. CASE steps /\ policy.healthy # Unstated /\ healthy >= policy.healthy
    <3>1. alert' = [alert EXCEPT !.status = "RESOLVED", !.breaches = 0,
                                 !.healthy = healthy, !.open = NoKey]
      BY <2>1, <2>4
    <3>2. /\ alert' \in Alerts /\ alert'.breaches = 0 /\ alert'.healthy = healthy
          /\ alert'.open = NoKey /\ alert'.last = alert.last
      BY <2>2, <3>1
    <3> QED
      BY <1>0, <2>1, <2>2, <2>3, <2>4, <3>2 DEF Later
  <2>5. CASE ~(steps /\ policy.healthy # Unstated /\ healthy >= policy.healthy)
    <3>1. alert' = [alert EXCEPT !.status = "HEALTHY", !.breaches = 0, !.healthy = healthy]
      BY <2>1, <2>5
    <3>2. /\ alert' \in Alerts /\ alert'.breaches = 0 /\ alert'.healthy = healthy
          /\ alert'.open = alert.open /\ alert'.last = alert.last
      BY <2>2, <3>1
    <3> QED
      BY <1>0, <2>1, <2>2, <2>5, <3>2 DEF Later
  <2> QED
    BY <2>4, <2>5
<1> QED
  BY <1>1, <1>2, <1>3, <1>4 DEF AlertNext, Measured

LEMMA AlertStart == AlertInit => AlertInv
<1> SUFFICES ASSUME AlertInit
             PROVE  AlertInv
  OBVIOUS
<1> USE DEF AlertInit, NewAlert
<1>1. AlertShape
  BY DEF AlertShape, Alerts, NotYet
<1>2. CountersOK /\ OpenOK /\ LastOK
  BY DEF CountersOK, OpenOK, LastOK, NotYet
<1>3. CooldownBetweenFirings /\ IncidentsAlternate
  BY DEF CooldownBetweenFirings, IncidentsAlternate
<1> QED
  BY <1>1, <1>2, <1>3 DEF AlertInv

LEMMA AlertKept == AlertInv /\ [AlertNext]_alertVars => AlertInv'
<1> SUFFICES ASSUME AlertInv, [AlertNext]_alertVars
             PROVE  AlertInv'
  OBVIOUS
<1>1. CASE AlertNext
  <2>1. ASSUME UNCHANGED notes, alert'.open = alert.open, alert'.last = alert.last
        PROVE  AlertInv'
    <3>1. AlertShape' /\ CountersOK'
      BY <1>1, <2>1, AlertSteps DEF AlertInv, AlertShape
    <3>2. OpenOK' /\ LastOK'
      BY <1>1, <2>1, AlertSteps DEF AlertInv, AlertShape, Alerts, OpenOK, LastOK
    <3>3. CooldownBetweenFirings'
      BY <1>1, <2>1, AlertSteps DEF AlertInv, CooldownBetweenFirings
    <3>4. IncidentsAlternate'
      BY <2>1 DEF AlertInv, IncidentsAlternate
    <3> QED
      BY <3>1, <3>2, <3>3, <3>4 DEF AlertInv
  <2>2. ASSUME NEW type \in {"firing", "resolved"}, NEW key \in Keys,
               notes' = Append(notes, Note(type, key, minute'))
        PROVE  /\ notes' \in Seq(Notes) /\ Len(notes') = Len(notes) + 1
               /\ notes'[Len(notes')] = Note(type, key, minute')
               /\ \A n \in DOMAIN notes : n \in DOMAIN notes' /\ notes'[n] = notes[n]
               /\ DOMAIN notes' = 1 .. Len(notes) + 1 /\ DOMAIN notes = 1 .. Len(notes)
               /\ Len(notes) \in Nat
               /\ \A n \in DOMAIN notes : notes[n] \in Notes
    <3>1. Note(type, key, minute') \in Notes
      BY <1>1, AlertSteps DEF Note, Notes
    <3> QED
      BY <2>2, <3>1 DEF AlertInv, AlertShape
  <2>3. ASSUME NEW key \in Keys,
               notes' = Append(notes, Note("firing", key, minute')),
               CooledDown(minute'), alert.open # key,
               alert'.open = key, alert'.last = minute'
        PROVE  AlertInv'
    <3>1. AlertShape' /\ CountersOK'
      BY <1>1, <2>2, <2>3, AlertSteps DEF AlertInv, AlertShape
    <3>2. OpenOK'
      BY <2>2, <2>3, PolicyAssumption DEF OpenOK, Note
    <3>3. LastOK'
      <4>1. minute' \in Nat /\ minute' >= minute /\ minute \in Nat /\ alert.last \in Int
        BY <1>1, AlertSteps DEF AlertInv, AlertShape, Alerts
      <4>2. ASSUME NEW n \in DOMAIN notes', notes'[n].type = "firing"
            PROVE  notes'[n].at <= minute'
        <5>1. CASE n \in DOMAIN notes
          <6>1. notes[n] \in Notes /\ notes'[n] = notes[n]
            BY <2>2, <2>3, <5>1
          <6>2. notes[n].at <= alert.last /\ alert.last <= minute
            BY <4>2, <5>1, <6>1 DEF AlertInv, LastOK
          <6>3. notes[n].at \in Nat
            BY <6>1 DEF Notes
          <6> QED
            BY <4>1, <6>1, <6>2, <6>3
        <5>2. CASE n = Len(notes')
          BY <2>2, <2>3, <4>1, <5>2 DEF Note
        <5> QED
          BY <2>2, <2>3, <5>1, <5>2
      <4> QED
        BY <2>3, <4>1, <4>2 DEF LastOK, NotYet
    <3>4. CooldownBetweenFirings'
      <4> SUFFICES ASSUME NEW m \in DOMAIN notes', NEW n \in DOMAIN notes', m < n,
                          notes'[m].type = "firing", notes'[n].type = "firing"
                   PROVE  notes'[n].at - notes'[m].at >= policy.cooldown
        BY <1>1, AlertSteps DEF CooldownBetweenFirings
      <4>1. CASE n \in DOMAIN notes
        BY <4>1, <2>2, <2>3 DEF AlertInv, CooldownBetweenFirings
      <4>2. CASE n = Len(notes')
        <5>1. m \in DOMAIN notes /\ notes'[m] = notes[m] /\ notes'[n].at = minute'
          BY <2>2, <2>3, <4>2 DEF Note
        <5>2. notes[m].at <= alert.last /\ alert.last # NotYet
          BY <5>1 DEF AlertInv, LastOK
        <5>3. minute' - alert.last >= policy.cooldown
          BY <2>3, <5>2 DEF CooledDown
        <5>4. /\ minute' \in Int /\ alert.last \in Int /\ notes[m].at \in Int
              /\ policy.cooldown \in Int
          <6>1. notes[m] \in Notes
            BY <2>2, <2>3, <5>1
          <6>2. minute' \in Int /\ alert.last \in Int /\ notes[m].at \in Int
            BY <1>1, <6>1, AlertSteps, SMTT(30) DEF AlertInv, AlertShape, Alerts, Notes
          <6>3. policy.cooldown \in Int
            BY PolicyAssumption DEF AlertInv, AlertShape
          <6> QED
            BY <6>2, <6>3
        <5> QED
          BY <5>1, <5>2, <5>3, <5>4
      <4> QED
        BY <2>2, <2>3, <4>1, <4>2
    <3>5. IncidentsAlternate'
      <4>1. ASSUME NEW n \in DOMAIN notes
            PROVE  n > 1 => n - 1 \in DOMAIN notes
        BY <2>2, <2>3
      <4>2. Len(notes) > 0 /\ notes[Len(notes)].type = "firing" => notes[Len(notes)].key # key
        BY <2>2, <2>3 DEF AlertInv, OpenOK
      <4>3. notes'[Len(notes')].type = "firing" /\ notes'[Len(notes')].key = key
        BY <2>2, <2>3 DEF Note
      <4>4. /\ DOMAIN notes' = 1 .. Len(notes) + 1 /\ DOMAIN notes = 1 .. Len(notes)
            /\ Len(notes) \in Nat /\ Len(notes') = Len(notes) + 1
            /\ \A n \in DOMAIN notes : notes'[n] = notes[n]
        BY <2>2, <2>3
      <4> SUFFICES ASSUME NEW n \in DOMAIN notes'
                   PROVE  IF notes'[n].type = "resolved"
                            THEN n > 1 /\ notes'[n - 1] = [notes'[n - 1] EXCEPT !.type = "firing",
                                                                               !.key = notes'[n].key]
                            ELSE n > 1 /\ notes'[n - 1].type = "firing"
                                   => notes'[n - 1].key # notes'[n].key
        BY DEF IncidentsAlternate
      <4>5. CASE n \in DOMAIN notes
        BY <4>1, <4>4, <4>5 DEF AlertInv, IncidentsAlternate
      <4>6. CASE n = Len(notes')
        <5>1. n > 1 => n - 1 = Len(notes) /\ n - 1 \in DOMAIN notes /\ Len(notes) > 0
          BY <4>4, <4>6
        <5> QED
          BY <4>2, <4>3, <4>4, <4>6, <5>1
      <4> QED
        BY <4>4, <4>5, <4>6
    <3> QED
      BY <3>1, <3>2, <3>3, <3>4, <3>5 DEF AlertInv
  <2>4. ASSUME notes' = Append(notes, Note("resolved", alert.open, minute')),
               alert.open # NoKey, alert'.open = NoKey, alert'.last = alert.last
        PROVE  AlertInv'
    <3>0. alert.open \in Keys
      BY <2>4 DEF AlertInv, AlertShape, Alerts
    <3>1. AlertShape' /\ CountersOK'
      BY <1>1, <2>2, <2>4, <3>0, AlertSteps DEF AlertInv, AlertShape
    <3>2. OpenOK'
      BY <2>2, <2>4, <3>0 DEF OpenOK, Note
    <3>3. LastOK'
      BY <1>1, <2>2, <2>4, <3>0, AlertSteps, SMTT(30)
      DEF AlertInv, LastOK, AlertShape, Note, Notes, Alerts
    <3>4. notes'[Len(notes')].type = "resolved" /\ notes'[Len(notes')].key = alert.open
      BY <2>2, <2>4, <3>0 DEF Note
    <3>5. CooldownBetweenFirings'
      BY <1>1, <2>2, <2>4, <3>0, <3>4, AlertSteps DEF AlertInv, CooldownBetweenFirings
    <3>6. IncidentsAlternate'
      <4>1. ASSUME NEW n \in DOMAIN notes
            PROVE  n > 1 => n - 1 \in DOMAIN notes
        BY <2>2, <2>4, <3>0
      <4>2. /\ Len(notes) > 0 /\ notes[Len(notes)] \in Notes
            /\ notes[Len(notes)].type = "firing" /\ notes[Len(notes)].key = alert.open
        BY <2>2, <2>4, <3>0 DEF AlertInv, OpenOK
      <4>3. notes[Len(notes)] = [notes[Len(notes)] EXCEPT !.type = "firing", !.key = alert.open]
        BY <4>2 DEF Notes
      <4>4. /\ DOMAIN notes' = 1 .. Len(notes) + 1 /\ DOMAIN notes = 1 .. Len(notes)
            /\ Len(notes) \in Nat /\ Len(notes') = Len(notes) + 1
            /\ \A n \in DOMAIN notes : notes'[n] = notes[n]
        BY <2>2, <2>4, <3>0
      <4> SUFFICES ASSUME NEW n \in DOMAIN notes'
                   PROVE  IF notes'[n].type = "resolved"
                            THEN n > 1 /\ notes'[n - 1] = [notes'[n - 1] EXCEPT !.type = "firing",
                                                                               !.key = notes'[n].key]
                            ELSE n > 1 /\ notes'[n - 1].type = "firing"
                                   => notes'[n - 1].key # notes'[n].key
        BY DEF IncidentsAlternate
      <4>5. CASE n \in DOMAIN notes
        BY <4>1, <4>4, <4>5 DEF AlertInv, IncidentsAlternate
      <4>6. CASE n = Len(notes')
        <5>1. n > 1 /\ n - 1 = Len(notes) /\ n - 1 \in DOMAIN notes
          BY <4>2, <4>4, <4>6
        <5> QED
          BY <3>4, <4>3, <4>4, <4>6, <5>1
      <4> QED
        BY <4>4, <4>5, <4>6
    <3> QED
      BY <3>1, <3>2, <3>3, <3>5, <3>6 DEF AlertInv
  <2> QED
    BY <1>1, <2>1, <2>3, <2>4, AlertSteps
<1>2. CASE UNCHANGED alertVars
  BY <1>2
  DEF alertVars, AlertInv, AlertShape, CountersOK, OpenOK, LastOK,
      CooldownBetweenFirings,
      IncidentsAlternate
<1> QED
  BY <1>1, <1>2

(* For every policy that validateAlertPolicy lets pass, every key and      *)
(* value, and samples of any number in the order of their minutes:         *)
(* incidents open and close in turn, two notifications of a breach are a   *)
(* cooldown apart, and each is only sent after as many samples of its kind *)
(* as the policy asks.                                                     *)
THEOREM AlertsAreEarned == Spec => AlertingSound
<1>1. Init => AlertInv
  BY AlertStart DEF Init
<1>2. [Next]_governanceVars => [AlertNext]_alertVars
  BY DEF Next, governanceVars
<1>3. AlertInv => AlertTypeOK /\ CooldownBetweenFirings /\ IncidentsAlternate
  <2> SUFFICES ASSUME AlertInv PROVE AlertTypeOK
    BY DEF AlertInv
  <2>1. /\ alert \in Alerts /\ notes \in Seq(Notes) /\ minute \in Nat /\ alert.last <= minute
        /\ alert.last = NotYet \/ alert.last >= 0
    BY DEF AlertInv, AlertShape, LastOK
  <2>2. alert.open # NoKey => alert.last # NotYet
    BY <2>1 DEF AlertInv, OpenOK, LastOK
  <2> QED
    BY <2>1, <2>2 DEF AlertTypeOK, Alerts
<1>4. AlertInv /\ [AlertNext]_alertVars
        => [Len(notes') > Len(notes) /\ notes'[Len(notes')].type = "firing"
              => streak' >= policy.breaches]_alertVars
  <2> SUFFICES ASSUME AlertInv, AlertNext, Len(notes') > Len(notes),
                      notes'[Len(notes')].type = "firing"
               PROVE  streak' >= policy.breaches
    OBVIOUS
  <2>1. notes' # Append(notes, Note("resolved", alert.open, minute'))
    BY DEF AlertInv, AlertShape, Note
  <2>2. Len(notes) \in Nat
    BY DEF AlertInv, AlertShape
  <2> QED
    BY <2>1, <2>2, AlertSteps
<1>5. AlertInv /\ [AlertNext]_alertVars
        => [Len(notes') > Len(notes) /\ notes'[Len(notes')].type = "resolved"
              => policy.healthy # Unstated /\ healed' >= policy.healthy]_alertVars
  <2> SUFFICES ASSUME AlertInv, AlertNext, Len(notes') > Len(notes),
                      notes'[Len(notes')].type = "resolved"
               PROVE  policy.healthy # Unstated /\ healed' >= policy.healthy
    OBVIOUS
  <2>1. \A key \in Keys : notes' # Append(notes, Note("firing", key, minute'))
    BY DEF AlertInv, AlertShape, Note
  <2>2. Len(notes) \in Nat
    BY DEF AlertInv, AlertShape
  <2> QED
    BY <2>1, <2>2, AlertSteps
<1> QED
  BY <1>1, <1>2, <1>3, <1>4, <1>5, AlertKept, PTL
  DEF Spec, AlertingSound, FiringIsEarned, ResolutionIsEarned

(***************************************************************************)
(* The canonical streams.                                                  *)
(***************************************************************************)

(* The streams a run still has to look at are an end of the list.          *)
LEMMA RestFacts ==
  ASSUME NEW ahead \in Rests, ahead # <<>>
  PROVE  /\ Head(ahead) \in Stream /\ Tail(ahead) \in Rests
         /\ Len(ahead) = 1 <=> Tail(ahead) = <<>>
         /\ ToSet(ahead) = {Head(ahead)} \cup ToSet(Tail(ahead))
         /\ Head(ahead) \notin ToSet(Tail(ahead)) /\ ToSet(ahead) \subseteq Stream
BY SuffixFacts, StreamAssumption DEF Rests

LEMMA RestStart ==
  /\ Streams \in Rests /\ <<>> \in Rests /\ Streams # <<>>
  /\ ToSet(Streams) = Stream /\ ToSet(<<>>) = {}
<1>1. Streams \in Seq(Stream) /\ Len(Streams) \in Nat /\ Streams # <<>>
  BY StreamAssumption
<1>2. Streams = SubSeq(Streams, 1, Len(Streams)) /\ <<>> = SubSeq(Streams, Len(Streams) + 1, Len(Streams))
  BY <1>1
<1>3. 1 \in 1..(Len(Streams) + 1) /\ Len(Streams) + 1 \in 1..(Len(Streams) + 1)
  BY <1>1
<1>4. ToSet(<<>>) = {}
  BY DEF ToSet
<1> QED
  BY <1>1, <1>2, <1>3, <1>4 DEF Rests, Stream

(* The verdict is the first class of the list that was found.              *)
LEMMA OverallIsFirst ==
  ASSUME NEW classes \in SUBSET Classes, classes # {}
  PROVE  \E i \in 1..8 :
           /\ Overall(classes) = Severity[i] /\ Severity[i] \in classes
           /\ \A j \in 1..8 : Severity[j] \in classes => i <= j
<1> DEFINE I == {i \in 1..Len(Severity) : Severity[i] \in classes}
<1>1. Len(Severity) = 8 /\ DOMAIN Severity = 1..8
  BY DEF Severity
<1>2. I = {i \in 1..8 : Severity[i] \in classes}
  BY <1>1
<1>3. I # {}
  BY <1>1 DEF Classes, ToSet
<1>4. \E x \in I : \A y \in I : x =< y
  <2>1. \A y \in I : y \in 1..8
    BY <1>2
  <2> HIDE DEF I
  <2>2. CASE 1 \in I
    BY <2>1, <2>2
  <2>3. CASE 1 \notin I /\ 2 \in I
    BY <2>1, <2>3
  <2>4. CASE 1 \notin I /\ 2 \notin I /\ 3 \in I
    BY <2>1, <2>4
  <2>5. CASE 1 \notin I /\ 2 \notin I /\ 3 \notin I /\ 4 \in I
    BY <2>1, <2>5
  <2>6. CASE 1 \notin I /\ 2 \notin I /\ 3 \notin I /\ 4 \notin I
    BY <1>3, <2>1, <2>6
  <2> QED
    BY <2>2, <2>3, <2>4, <2>5, <2>6
<1>5. Min(I) \in I /\ \A y \in I : Min(I) <= y
  BY <1>4 DEF Min
<1>6. Overall(classes) = Severity[Min(I)]
  BY <1>3 DEF Overall, SelectInSeq
<1> QED
  BY <1>2, <1>5, <1>6

LEMMA NoneMeansNothing ==
  ASSUME NEW classes \in SUBSET Classes, Overall(classes) = "NONE"
  PROVE  classes = {}
BY OverallIsFirst DEF Classes

LEMMA BreakingShows ==
  ASSUME NEW classes \in SUBSET Classes, "BREAKING" \in classes
  PROVE  Overall(classes) \in {"SECURITY", "BREAKING"}
<1>1. PICK i \in 1..8 :
        /\ Overall(classes) = Severity[i]
        /\ \A j \in 1..8 : Severity[j] \in classes => i <= j
  BY OverallIsFirst
<1>2. Severity[2] = "BREAKING" /\ Severity[1] = "SECURITY"
  BY DEF Severity
<1>3. i <= 2
  BY <1>1, <1>2
<1> QED
  BY <1>1, <1>2, <1>3

LEMMA StreamTypes ==
  /\ NoResult \in [Stream -> Results] /\ NoReport \in [Stream -> SUBSET Classes]
  /\ Fresh \in Settings
  /\ \A f \in Fields, have \in Settings : ClassOf(f, have) \in Classes
  /\ \A record : RecordClasses(record) \subseteq Classes
  /\ {"BREAKING", "DESTINATION"} \subseteq Classes
<1>1. Classes = {"SECURITY", "BREAKING", "DESTINATION", "RETENTION", "INDEX", "SETTINGS", "ADDITIVE"}
  <2>1. Len(Severity) = 8 /\ DOMAIN Severity = 1..8
    BY DEF Severity
  <2> QED
    BY <2>1 DEF Classes, ToSet, Severity
<1>2. NoResult \in [Stream -> Results]
  BY DEF NoResult, Results
<1>3. {} \in SUBSET Classes
  OBVIOUS
<1>4. NoReport \in [Stream -> SUBSET Classes]
  BY <1>3 DEF NoReport
<1>5. Fresh \in Settings
  BY DEF Fresh, Settings
<1>6. \A f \in Fields, have \in Settings : ClassOf(f, have) \in Classes
  BY <1>1 DEF Fields, Settings, ClassOf
<1>7. \A record : RecordClasses(record) \subseteq Classes
  BY <1>1 DEF RecordClasses
<1> QED
  BY <1>1, <1>2, <1>4, <1>5, <1>6, <1>7

(* A stream is left: its outcome is noted and the next one is read.        *)
LEMMA ReportsKeeps ==
  ASSUME StreamInv, job.step \in {"read", "patch", "names"}, NEW answer \in Results,
         Reports(answer), Good(answer) => Settled(Here),
         Alone /\ test.step = "second" /\ Good(test.first[Here]) => answer = "NO_CHANGE",
         UNCHANGED <<desired, server, pipeline, report, test, disposable, changes, commands>>
  PROVE  StreamInv'
<1> DEFINE rest == Tail(job.todo)
           step == IF Len(job.todo) = 1 THEN "idle" ELSE "read"
           here == Here
<1>1. /\ job.todo \in Rests /\ job.todo # <<>>
      /\ result \in [Stream -> Results]
  BY DEF StreamInv, StreamShape, JobShape
<1>2. /\ here \in Stream /\ rest \in Rests /\ (step = "idle" <=> rest = <<>>)
      /\ ToSet(job.todo) = {here} \cup ToSet(rest) /\ here \notin ToSet(rest)
      /\ ToSet(rest) \subseteq Stream
  BY <1>1, RestFacts DEF Here
<1>3. /\ job' = [todo |-> rest, step |-> step, before |-> Missing, names |-> {}]
      /\ result' = [result EXCEPT ![here] = answer]
      /\ step \in {"idle", "read"}
  BY DEF Reports, Idle
<1> HIDE DEF rest, step, here
<1>4. JobShape'
  BY <1>2, <1>3 DEF JobShape
<1>5. StreamShape'
  BY <1>1, <1>2, <1>3, <1>4 DEF StreamInv, StreamShape, TestShape
<1>6. TurnsOK' /\ PlannedOK'
  BY <1>3 DEF StreamInv, TurnsOK, PlannedOK
<1>7. \A s \in Stream : result'[s] = IF s = here THEN answer ELSE result[s]
  BY <1>1, <1>3
<1>8. \A s : (Settled(s))' <=> Settled(s)
  BY DEF Settled, Diffs
<1>9. SettledOK'
  <2>1. job'.step \in {"read", "patch", "names"} => \A s \in ToSet(job'.todo) : result'[s] = "none"
    BY <1>2, <1>3, <1>7 DEF StreamInv, SettledOK
  <2>2. (Alone /\ test.step = "first" => \A s \in Stream : Good(result[s]) => Settled(s))'
    BY <1>7, <1>8 DEF StreamInv, SettledOK, Alone, here
  <2>3. (Alone /\ test.step = "second" =>
           \A s \in Stream : Good(test.first[s]) =>
             /\ Settled(s)
             /\ s \notin ToSet(job.todo) => result[s] = "NO_CHANGE"
             /\ job.step \in {"patch", "names"} => Here # s)'
    BY <1>2, <1>3, <1>7, <1>8 DEF StreamInv, SettledOK, Alone, here
  <2> QED
    BY <2>1, <2>2, <2>3 DEF SettledOK
<1>10. ConformOK'
  <2>1. test.step \in {"none", "first", "second"}
    BY DEF StreamInv, StreamShape, TestShape, TurnsOK
  <2> QED
    BY <2>1 DEF ConformOK, PassedMeansConform
<1> QED
  BY <1>5, <1>6, <1>9, <1>10 DEF StreamInv

(* A write to the stream that was looked at.                               *)
LEMMA WriteKeeps ==
  ASSUME StreamInv, job.step \in {"patch", "names"},
         NEW names \in SUBSET job.names, job' = [job EXCEPT !.step = "names", !.names = names],
         NEW settings \in Settings, server' = [server EXCEPT ![Here] = settings],
         UNCHANGED <<desired, pipeline, result, report, test, disposable, changes, commands>>
  PROVE  StreamInv'
<1>1. /\ job.todo \in Rests /\ job.todo # <<>>
      /\ server \in [Stream -> Settings \cup {Missing}]
      /\ job = [todo |-> job.todo, step |-> job.step, before |-> job.before, names |-> job.names]
      /\ job.before \in Settings
  BY DEF StreamInv, StreamShape, JobShape
<1>2. Here \in Stream /\ settings # Missing
  BY <1>1, RestFacts, StreamAssumption DEF Here
<1>3. /\ job' = [todo |-> job.todo, step |-> "names", before |-> job.before, names |-> names]
      /\ Here' = Here
  BY <1>1 DEF Here
<1>4. /\ server' \in [Stream -> Settings \cup {Missing}] /\ server'[Here] = settings
      /\ \A s \in Stream : s # Here => server'[s] = server[s]
  BY <1>1, <1>2
<1>5. StreamShape'
  BY <1>1, <1>3, <1>4 DEF StreamInv, StreamShape, JobShape, TestShape
<1>6. TurnsOK'
  BY <1>3 DEF StreamInv, TurnsOK
<1>7. PlannedOK'
  BY <1>2, <1>3, <1>4 DEF StreamInv, PlannedOK, Diffs
<1>8. \A s \in Stream : s # Here => ((Settled(s))' <=> Settled(s))
  BY <1>4 DEF Settled, Diffs
<1>9. SettledOK'
  <2>1. Here \in ToSet(job.todo)
    BY <1>1, RestFacts DEF Here
  <2>2. job'.step \in {"read", "patch", "names"} => \A s \in ToSet(job'.todo) : result'[s] = "none"
    BY <1>3 DEF StreamInv, SettledOK
  <2>3. (Alone /\ test.step = "first" => \A s \in Stream : Good(result[s]) => Settled(s))'
    <3>1. ~ Good(result[Here])
      BY <2>1 DEF StreamInv, SettledOK, Good
    <3> QED
      BY <1>8, <3>1 DEF StreamInv, SettledOK, Alone
  <2>4. (Alone /\ test.step = "second" =>
           \A s \in Stream : Good(test.first[s]) =>
             /\ Settled(s)
             /\ s \notin ToSet(job.todo) => result[s] = "NO_CHANGE"
             /\ job.step \in {"patch", "names"} => Here # s)'
    BY <1>3, <1>8 DEF StreamInv, SettledOK, Alone
  <2> QED
    BY <2>2, <2>3, <2>4 DEF SettledOK
<1>10. ConformOK'
  <2>1. test.step \in {"none", "first", "second"}
    BY DEF StreamInv, StreamShape, TestShape, TurnsOK
  <2> QED
    BY <2>1 DEF ConformOK, PassedMeansConform
<1> QED
  BY <1>5, <1>6, <1>7, <1>9, <1>10 DEF StreamInv

LEMMA PlanKeeps == StreamInv /\ Plan => StreamInv'
<1> SUFFICES ASSUME StreamInv, Plan PROVE StreamInv'
  OBVIOUS
<1>1. /\ job.step = "read" /\ job.todo \in Rests /\ job.todo # <<>>
      /\ UNCHANGED <<desired, server, pipeline, report, test, disposable, changes, commands>>
  BY DEF Plan, Untouched, StreamInv, StreamShape, JobShape
<1>2. Here \in Stream
  BY <1>1, RestFacts DEF Here
<1>3. Alone /\ test.step = "second" /\ Good(test.first[Here]) => Settled(Here)
  BY <1>2 DEF StreamInv, SettledOK
<1>4. CASE \E answer \in {"SKIPPED", "NO_CHANGE", "REFUSED"} :
             /\ Reports(answer)
             /\ answer = "NO_CHANGE" <=> Settled(Here)
  BY <1>1, <1>3, <1>4, ReportsKeeps DEF Good, Results
<1>5. CASE /\ server[Here] # Missing /\ Diffs(desired[Here], server[Here]) # {}
           /\ \A f \in Diffs(desired[Here], server[Here]) : NonDestructive(f, desired[Here][f])
           /\ job' = [job EXCEPT !.step = "patch", !.before = server[Here],
                                 !.names = ToSet(desired[Here].distinct)
                                             \ ToSet(server[Here].distinct)]
           /\ UNCHANGED result
  <2> DEFINE names == ToSet(desired[Here].distinct) \ ToSet(server[Here].distinct)
             have == server[Here]
  <2>1. /\ job' = [todo |-> job.todo, step |-> "patch", before |-> have, names |-> names]
        /\ have \in Settings
    BY <1>2, <1>5 DEF StreamInv, StreamShape, JobShape
  <2>2. names \subseteq ToSet(desired[Here].distinct)
    OBVIOUS
  <2>3. names # {} => "distinct" \in Diffs(desired[Here], have)
    BY DEF Diffs, Fields
  <2> HIDE DEF names, have
  <2>4. Here' = Here /\ job.todo' = job.todo /\ job'.step = "patch" /\ job'.before = have /\ job'.names = names
    BY <2>1 DEF Here
  <2>5. StreamShape'
    <3>1. JobShape'
      BY <1>1, <2>1 DEF JobShape
    <3>2. UNCHANGED result
      BY <1>5
    <3> QED
      BY <1>1, <3>1, <3>2 DEF StreamInv, StreamShape, TestShape
  <2>6. TurnsOK'
    BY <1>1, <2>4 DEF StreamInv, TurnsOK
  <2>7. PlannedOK'
    BY <1>1, <1>5, <2>2, <2>3, <2>4 DEF PlannedOK, have, Diffs
  <2>8. \A s : (Settled(s))' <=> Settled(s)
    BY <1>1 DEF Settled, Diffs
  <2>9. SettledOK'
    <3>1. ~ Settled(Here)
      BY <1>5 DEF Settled
    <3> QED
      BY <1>1, <1>5, <2>4, <2>8, <3>1 DEF StreamInv, SettledOK, Alone
  <2>10. ConformOK'
    <3>1. test.step \in {"none", "first", "second"}
      BY <1>1 DEF StreamInv, StreamShape, TestShape, TurnsOK
    <3> QED
      BY <1>1, <3>1 DEF ConformOK, PassedMeansConform
  <2> QED
    BY <2>5, <2>6, <2>7, <2>9, <2>10 DEF StreamInv
<1> QED
  BY <1>4, <1>5 DEF Plan, Settled

LEMMA PatchKeeps == StreamInv /\ Patch => StreamInv'
<1> SUFFICES ASSUME StreamInv, Patch PROVE StreamInv'
  OBVIOUS
<1>1. /\ job.step = "patch" /\ job.todo \in Rests /\ job.todo # <<>>
      /\ UNCHANGED <<desired, pipeline, report, test, disposable, changes, commands>>
  BY DEF Patch, StreamInv, StreamShape, JobShape
<1>2. Here \in Stream /\ server[Here] \in Settings /\ desired[Here] \in Settings
  BY <1>1, RestFacts, StreamAssumption DEF Here, StreamInv, StreamShape, PlannedOK
<1>3. CASE Reports("APPLY_FAILED") /\ UNCHANGED server
  <2>1. Alone /\ test.step = "second" => ~ Good(test.first[Here])
    BY <1>1, <1>2 DEF StreamInv, SettledOK
  <2> QED
    BY <1>1, <1>3, <2>1, ReportsKeeps DEF Good, Results
<1>4. CASE /\ server' = [server EXCEPT ![Here] =
                           [f \in Fields |-> IF f \in Patched THEN desired[Here][f] ELSE @[f]]]
           /\ job' = [job EXCEPT !.step = "names"] /\ UNCHANGED result
  <2> DEFINE settings == [f \in Fields |-> IF f \in Patched THEN desired[Here][f] ELSE server[Here][f]]
  <2>1. settings \in Settings
    <3>1. /\ settings = [retention |-> settings.retention, original |-> settings.original,
                         index |-> settings.index, distinct |-> settings.distinct]
      BY DEF Fields
    <3>2. /\ settings.retention \in {desired[Here].retention, server[Here].retention}
          /\ settings.index \in {desired[Here].index, server[Here].index}
          /\ settings.distinct = server[Here].distinct
      BY DEF Fields, Patched
    <3>3. settings.original = desired[Here].original \/ settings.original = server[Here].original
      BY Zenon DEF Fields
    <3>4. settings.original \in BOOLEAN
      <4>1. desired[Here].original \in BOOLEAN /\ server[Here].original \in BOOLEAN
        BY <1>2 DEF Settings
      <4> QED
        BY <3>3, <4>1, Zenon
    <3> HIDE DEF settings
    <3>5. /\ desired[Here].retention \in Nat /\ server[Here].retention \in Nat
          /\ desired[Here].index \in {"empty", "custom"} /\ server[Here].index \in {"empty", "custom"}
          /\ server[Here].distinct \in Seq(ToSet(Allowed) \cup {"other"})
      BY <1>2 DEF Settings
    <3>6. settings.retention \in Nat /\ settings.index \in {"empty", "custom"} /\ settings.distinct \in Seq(ToSet(Allowed) \cup {"other"})
      BY <3>2, <3>5
    <3> QED
      BY <3>1, <3>4, <3>6 DEF Settings
  <2>2. server' = [server EXCEPT ![Here] = settings]
    BY <1>4
  <2>3. job' = [job EXCEPT !.step = "names", !.names = job.names]
    BY <1>4 DEF StreamInv, StreamShape, JobShape
  <2> HIDE DEF settings
  <2> QED
    BY <1>1, <1>4, <2>1, <2>2, <2>3, WriteKeeps
<1> QED
  BY <1>3, <1>4 DEF Patch

LEMMA NamesKeeps == StreamInv /\ Names => StreamInv'
<1> SUFFICES ASSUME StreamInv, Names PROVE StreamInv'
  OBVIOUS
<1>1. /\ job.step = "names" /\ job.todo \in Rests /\ job.todo # <<>>
      /\ UNCHANGED <<desired, pipeline, report, test, disposable, changes, commands>>
  BY DEF Names, StreamInv, StreamShape, JobShape
<1>2. Here \in Stream /\ server[Here] \in Settings /\ desired[Here] \in Settings
  BY <1>1, RestFacts, StreamAssumption DEF Here, StreamInv, StreamShape, PlannedOK
<1>3. CASE Reports("APPLY_FAILED") /\ UNCHANGED server
  <2>1. Alone /\ test.step = "second" => ~ Good(test.first[Here])
    BY <1>1, <1>2 DEF StreamInv, SettledOK
  <2> QED
    BY <1>1, <1>3, <2>1, ReportsKeeps DEF Good, Results
<1>4. ASSUME NEW n \in job.names, job' = [job EXCEPT !.names = @ \ {n}], UNCHANGED result,
             server' = [server EXCEPT ![Here].distinct =
                          IF n \in ToSet(@) THEN @ ELSE Append(@, n)]
      PROVE  StreamInv'
  <2> DEFINE have == server[Here]
             list == IF n \in ToSet(have.distinct) THEN have.distinct ELSE Append(have.distinct, n)
             settings == [have EXCEPT !.distinct = list]
             names == job.names \ {n}
  <2>1. /\ server' = [server EXCEPT ![Here] = settings]
        /\ job' = [job EXCEPT !.step = "names", !.names = names]
    BY <1>1, <1>2, <1>4 DEF StreamInv, StreamShape, JobShape
  <2>2. n \in ToSet(Allowed) \cup {"other"}
    <3>1. n \in ToSet(desired[Here].distinct)
      BY <1>1, <1>4 DEF StreamInv, PlannedOK
    <3>2. desired[Here].distinct \in Seq(ToSet(Allowed) \cup {"other"})
      BY <1>2 DEF Settings
    <3>3. \A S, q : q \in Seq(S) => ToSet(q) \subseteq S
      BY DEF ToSet
    <3> QED
      BY <3>1, <3>2, <3>3
  <2>3. have.distinct \in Seq(ToSet(Allowed) \cup {"other"})
    BY <1>2 DEF Settings
  <2>4. list \in Seq(ToSet(Allowed) \cup {"other"})
    BY <2>2, <2>3
  <2>5. settings \in Settings
    <3> HIDE DEF list, have
    <3>1. have \in Settings
      BY <1>2 DEF have
    <3> QED
      BY <2>4, <3>1 DEF Settings
  <2>6. names \in SUBSET job.names
    OBVIOUS
  <2> HIDE DEF settings, names
  <2> QED
    BY <1>1, <1>4, <2>1, <2>5, <2>6, WriteKeeps
<1> QED
  BY <1>3, <1>4 DEF Names

LEMMA ReadBackKeeps == StreamInv /\ ReadBack => StreamInv'
<1> SUFFICES ASSUME StreamInv, ReadBack PROVE StreamInv'
  OBVIOUS
<1>1. /\ job.step = "names" /\ job.todo \in Rests /\ job.todo # <<>>
      /\ UNCHANGED <<desired, server, pipeline, report, test, disposable, changes, commands>>
  BY DEF ReadBack, Untouched, StreamInv, StreamShape, JobShape
<1>2. Here \in Stream /\ server[Here] # Missing
  BY <1>1, RestFacts DEF Here, StreamInv, PlannedOK
<1>3. Alone /\ test.step = "second" => ~ Good(test.first[Here])
  BY <1>1, <1>2 DEF StreamInv, SettledOK
<1>4. PICK answer \in {"APPLIED", "MISMATCH"} :
        Reports(answer) /\ (answer = "APPLIED" => Settled(Here))
  BY <1>2 DEF ReadBack, Settled
<1> QED
  BY <1>1, <1>3, <1>4, ReportsKeeps DEF Good, Results

LEMMA CheckKeeps == StreamInv /\ Check => StreamInv'
<1> SUFFICES ASSUME StreamInv, Check PROVE StreamInv'
  OBVIOUS
<1>1. /\ job.step = "check" /\ job.todo \in Rests /\ job.todo # <<>>
      /\ UNCHANGED <<desired, server, pipeline, result, test, disposable, changes, commands>>
  BY DEF Check, StreamInv, StreamShape, JobShape
<1> DEFINE rest == Tail(job.todo)
           step == IF Len(job.todo) = 1 THEN "idle" ELSE "check"
           here == Here
<1>2. /\ here \in Stream /\ rest \in Rests /\ (step = "idle" <=> rest = <<>>)
      /\ ToSet(job.todo) = {here} \cup ToSet(rest) /\ here \notin ToSet(rest)
  BY <1>1, RestFacts DEF Here
<1>3. /\ job' = [todo |-> rest, step |-> step, before |-> job.before, names |-> job.names]
      /\ step \in {"idle", "check"}
  BY <1>1 DEF Check, StreamInv, StreamShape, JobShape
<1>4. PICK changedType \in BOOLEAN :
        report' = [report EXCEPT ![here] =
          IF server[here] = Missing THEN {"BREAKING"}
          ELSE {ClassOf(f, server[here]) : f \in Diffs(desired[here], server[here])}
                 \cup (IF changedType THEN {"BREAKING"} ELSE {})
                 \cup (IF job.before[here] THEN {} ELSE {"DESTINATION"})]
  BY DEF Check
<1> DEFINE classes == IF server[here] = Missing THEN {"BREAKING"}
                    ELSE {ClassOf(f, server[here]) : f \in Diffs(desired[here], server[here])}
                           \cup (IF changedType THEN {"BREAKING"} ELSE {})
                           \cup (IF job.before[here] THEN {} ELSE {"DESTINATION"})
<1>5. classes \subseteq Classes
  <2>1. server[here] # Missing => server[here] \in Settings
    BY <1>2 DEF StreamInv, StreamShape
  <2>2. server[here] # Missing =>
          {ClassOf(f, server[here]) : f \in Diffs(desired[here], server[here])} \subseteq Classes
    BY <2>1, StreamTypes DEF Diffs
  <2> QED
    BY <2>2, StreamTypes
<1>6. classes = {} => Settled(here) /\ job.before[here]
  BY DEF Settled
<1>7. report' = [report EXCEPT ![here] = classes]
  BY <1>4
<1> HIDE DEF rest, step, here, classes
<1>8. report' \in [Stream -> SUBSET Classes] /\ \A s \in Stream : report'[s] = IF s = here THEN classes ELSE report[s]
  BY <1>2, <1>5, <1>7 DEF StreamInv, StreamShape
<1>9. StreamShape'
  BY <1>1, <1>2, <1>3, <1>8 DEF StreamInv, StreamShape, JobShape, TestShape
<1>10. TurnsOK' /\ PlannedOK'
  BY <1>1, <1>3 DEF StreamInv, TurnsOK, PlannedOK
<1>11. \A s : (Settled(s))' <=> Settled(s)
  BY <1>1 DEF Settled, Diffs
<1>12. test.step \notin {"first", "second", "disposable", "canary", "told"}
  BY <1>1 DEF StreamInv, TurnsOK
<1>13. SettledOK'
  BY <1>1, <1>3, <1>12 DEF SettledOK
<1>14. ConformOK'
  <2>1. (Alone /\ test.step = "verified" /\ job.step = "check" => job.before = pipeline)'
    BY <1>1, <1>3 DEF StreamInv, ConformOK, Alone
  <2>2. (Alone /\ test.step = "verified" =>
          \A s \in Stream : s \notin ToSet(job.todo) /\ report[s] = {} => Conforms(s))'
    BY <1>1, <1>2, <1>3, <1>6, <1>8, <1>11 DEF StreamInv, ConformOK, Alone, Conforms
  <2> QED
    BY <1>1, <1>12, <2>1, <2>2 DEF ConformOK, PassedMeansConform
<1> QED
  BY <1>9, <1>10, <1>13, <1>14 DEF StreamInv

(* A run begins; the manifests are read from the first stream on.          *)
LEMMA ProvisioningBegins ==
  ASSUME StreamShape, job' = Provisioning \/ (job' = Verifying /\ pipeline' = pipeline)
  PROVE  /\ JobShape' /\ job'.todo = Streams /\ job'.names = {} /\ ToSet(job'.todo) = Stream
         /\ job' = Provisioning => job'.step = "read"
         /\ job' = Verifying => job'.step = "check" /\ job'.before = pipeline
<1> DEFINE begun == [Idle EXCEPT !.todo = Streams]
           checking == [begun EXCEPT !.step = "check"]
<1>1. Idle = [todo |-> <<>>, step |-> "idle", before |-> Missing, names |-> {}]
  BY DEF Idle
<1>2. begun = [todo |-> Streams, step |-> "idle", before |-> Missing, names |-> {}]
  BY <1>1
<1>3. /\ [begun EXCEPT !.step = "read"]
           = [todo |-> Streams, step |-> "read", before |-> Missing, names |-> {}]
      /\ checking = [todo |-> Streams, step |-> "check", before |-> Missing, names |-> {}]
  <2> HIDE DEF begun
  <2> QED
    BY <1>2
<1>4. [checking EXCEPT !.before = pipeline]
        = [todo |-> Streams, step |-> "check", before |-> pipeline, names |-> {}]
  <2> HIDE DEF checking
  <2> QED
    BY <1>3
<1>5. /\ Provisioning = [begun EXCEPT !.step = "read"]
      /\ Verifying = [checking EXCEPT !.before = pipeline]
  BY DEF Provisioning, Verifying
<1> HIDE DEF begun, checking
<1>6. pipeline \in [Stream -> BOOLEAN]
  BY DEF StreamShape
<1>7. CASE job' = Provisioning
  BY <1>3, <1>4, <1>5, <1>7, RestStart DEF JobShape
<1>8. CASE job' = Verifying
  BY <1>3, <1>4, <1>5, <1>6, <1>8, RestStart DEF JobShape
<1> QED
  BY <1>7, <1>8

LEMMA SeedsKeeps == StreamInv /\ TestSeeds => StreamInv'
<1> SUFFICES ASSUME StreamInv, TestSeeds PROVE StreamInv'
  OBVIOUS
<1>1. /\ server' = [s \in Stream |-> IF server[s] = Missing THEN Fresh ELSE server[s]]
      /\ job' = Provisioning /\ result' = NoResult
      /\ UNCHANGED <<desired, pipeline, report, disposable, changes>>
  BY DEF TestSeeds
<1>2. test' = [step |-> "first", findings |-> FALSE, first |-> NoResult, since |-> changes,
               records |-> {}, verdict |-> "none"]
  BY DEF TestSeeds, NoTest
<1>3. JobShape' /\ job'.step = "read"
  BY <1>1, ProvisioningBegins DEF StreamInv
<1>4. server' \in [Stream -> Settings \cup {Missing}]
  <2>1. server \in [Stream -> Settings \cup {Missing}] /\ Fresh \in Settings
    BY StreamTypes DEF StreamInv, StreamShape
  <2> QED
    BY <1>1, <2>1
<1>5. StreamShape'
  BY <1>1, <1>2, <1>3, <1>4, StreamTypes DEF StreamInv, StreamShape, TestShape
<1>6. TurnsOK' /\ PlannedOK'
  BY <1>2, <1>3 DEF TurnsOK, PlannedOK
<1>7. \A s \in Stream : result'[s] = "none"
  BY <1>1 DEF NoResult
<1>8. SettledOK'
  <2>1. ToSet(job'.todo) = Stream
    BY <1>1, ProvisioningBegins DEF StreamInv
  <2> QED
    BY <1>2, <1>7, <2>1 DEF SettledOK, Good
<1>9. ConformOK'
  BY <1>2 DEF ConformOK, PassedMeansConform
<1> QED
  BY <1>5, <1>6, <1>8, <1>9 DEF StreamInv

LEMMA AgainKeeps == StreamInv /\ TestProvisionsAgain => StreamInv'
<1> SUFFICES ASSUME StreamInv, TestProvisionsAgain PROVE StreamInv'
  OBVIOUS
<1>1. /\ job.step = "idle" /\ test.step = "first"
      /\ job' = Provisioning /\ result' = NoResult
      /\ UNCHANGED <<desired, server, pipeline, report, disposable, changes>>
  BY DEF TestProvisionsAgain, At, Untouched
<1>2. test' = [step |-> "second", findings |-> test.findings, first |-> result,
               since |-> test.since, records |-> test.records, verdict |-> test.verdict]
  BY DEF TestProvisionsAgain, StreamInv, StreamShape, TestShape
<1>3. JobShape' /\ job'.step = "read" /\ ToSet(job'.todo) = Stream
  BY <1>1, ProvisioningBegins DEF StreamInv
<1>4. StreamShape'
  BY <1>1, <1>2, <1>3, StreamTypes DEF StreamInv, StreamShape, TestShape
<1>5. TurnsOK' /\ PlannedOK'
  BY <1>2, <1>3 DEF TurnsOK, PlannedOK
<1>6. \A s \in Stream : result'[s] = "none"
  BY <1>1 DEF NoResult
<1>7. \A s : (Settled(s))' <=> Settled(s)
  BY <1>1 DEF Settled, Diffs
<1>8. SettledOK'
  <2>1. Alone => \A s \in Stream : Good(result[s]) => Settled(s)
    BY <1>1 DEF StreamInv, SettledOK
  <2>2. Alone' <=> Alone
    BY <1>1, <1>2 DEF Alone
  <2> QED
    BY <1>2, <1>3, <1>6, <1>7, <2>1, <2>2 DEF SettledOK
<1>9. ConformOK'
  BY <1>2 DEF ConformOK, PassedMeansConform
<1> QED
  BY <1>4, <1>5, <1>8, <1>9 DEF StreamInv

LEMMA VerifiesKeeps == StreamInv /\ TestVerifies => StreamInv'
<1> SUFFICES ASSUME StreamInv, TestVerifies PROVE StreamInv'
  OBVIOUS
<1>1. /\ job' = Verifying /\ report' = NoReport
      /\ UNCHANGED <<desired, server, pipeline, result, disposable, changes>>
  BY DEF TestVerifies
<1>2. PICK surprise \in BOOLEAN :
        test' = [step |-> "verified", findings |-> test.findings \/ surprise, first |-> test.first,
                 since |-> test.since, records |-> test.records, verdict |-> test.verdict]
  BY DEF TestVerifies, TestGoes, StreamInv, StreamShape, TestShape
<1>3. /\ JobShape' /\ job'.step = "check" /\ job'.before = pipeline
      /\ ToSet(job'.todo) = Stream
  BY <1>1, ProvisioningBegins DEF StreamInv
<1>4. (test.findings \/ surprise) \in BOOLEAN
  BY <1>2, Zenon DEF StreamInv, StreamShape, TestShape
<1>5. TestShape' /\ test'.since = test.since /\ test'.step = "verified"
  <2> DEFINE findings == test.findings \/ surprise
  <2>1. test' = [step |-> "verified", findings |-> findings, first |-> test.first,
                 since |-> test.since, records |-> test.records, verdict |-> test.verdict]
    BY <1>2
  <2>2. findings \in BOOLEAN
    BY <1>4
  <2> HIDE DEF findings
  <2> QED
    BY <2>1, <2>2 DEF StreamInv, StreamShape, TestShape
<1>6. StreamShape'
  BY <1>1, <1>3, <1>5, StreamTypes DEF StreamInv, StreamShape
<1>7. TurnsOK' /\ PlannedOK' /\ SettledOK'
  BY <1>3, <1>5 DEF TurnsOK, PlannedOK, SettledOK
<1>8. ConformOK'
  BY <1>1, <1>3, <1>5 DEF ConformOK, PassedMeansConform
<1> QED
  BY <1>6, <1>7, <1>8 DEF StreamInv

(* The steps of test:streams while no run is under way change little.      *)
LEMMA LaterKeeps ==
  ASSUME StreamInv, job.step = "idle", NEW step \in {"disposable", "canary"}, NEW surprise \in BOOLEAN,
         TestGoes(step, surprise), disposable' \in BOOLEAN,
         test.step \in {"verified", "disposable"},
         ~ surprise /\ test.step = "verified" => \A s \in Stream : Overall(report[s]) = "NONE",
         UNCHANGED <<desired, server, pipeline, job, result, report, changes, commands>>
  PROVE  StreamInv'
<1> DEFINE findings == test.findings \/ surprise
<1>1. test' = [step |-> step, findings |-> findings, first |-> test.first,
               since |-> test.since, records |-> test.records, verdict |-> test.verdict]
  BY DEF TestGoes, StreamInv, StreamShape, TestShape
<1>2. findings \in BOOLEAN
  BY Zenon DEF StreamInv, StreamShape, TestShape
<1>3. ~ findings => ~ test.findings /\ ~ surprise
  OBVIOUS
<1> HIDE DEF findings
<1>4. StreamShape'
  BY <1>1, <1>2 DEF StreamInv, StreamShape, TestShape, JobShape
<1>5. TurnsOK' /\ PlannedOK' /\ SettledOK'
  BY <1>1 DEF TurnsOK, PlannedOK, SettledOK
<1>6. \A s : (Conforms(s))' <=> Conforms(s)
  BY DEF Conforms, Settled, Diffs
<1>7. Alone' <=> Alone
  BY <1>1 DEF Alone
<1>8. ConformOK'
  <2>1. SUFFICES ASSUME Alone, ~ findings PROVE \A s \in Stream : Conforms(s)
    BY <1>1, <1>6, <1>7 DEF ConformOK, PassedMeansConform
  <2>2. CASE test.step = "disposable"
    BY <1>3, <2>1, <2>2 DEF StreamInv, ConformOK
  <2>3. CASE test.step = "verified"
    <3>1. ToSet(job.todo) = {}
      BY RestStart DEF StreamInv, StreamShape, JobShape
    <3>2. \A s \in Stream : report[s] \in SUBSET Classes /\ Overall(report[s]) = "NONE"
      BY <1>3, <2>1, <2>3 DEF StreamInv, StreamShape
    <3>3. \A s \in Stream : report[s] = {}
      BY <3>2, NoneMeansNothing
    <3> QED
      BY <2>1, <2>3, <3>1, <3>3 DEF StreamInv, ConformOK
  <2> QED
    BY <2>2, <2>3
<1> QED
  BY <1>4, <1>5, <1>8 DEF StreamInv

LEMMA CreatesKeeps == StreamInv /\ TestCreatesDisposable => StreamInv'
<1> SUFFICES ASSUME StreamInv, TestCreatesDisposable PROVE StreamInv'
  OBVIOUS
<1>1. /\ job.step = "idle" /\ test.step = "verified" /\ disposable \in BOOLEAN
      /\ UNCHANGED <<desired, server, pipeline, job, result, report, changes, commands>>
  BY DEF TestCreatesDisposable, At, StreamInv, StreamShape
<1> DEFINE surprise == \E s \in Stream : Overall(report[s]) # "NONE"
<1>2. surprise \in BOOLEAN /\ (~ surprise => \A s \in Stream : Overall(report[s]) = "NONE")
  OBVIOUS
<1>3. \/ disposable' = TRUE /\ TestGoes("disposable", surprise)
      \/ disposable' = disposable /\ TestGoes("canary", TRUE)
  BY DEF TestCreatesDisposable
<1> HIDE DEF surprise
<1>4. CASE disposable' = TRUE /\ TestGoes("disposable", surprise)
  BY <1>1, <1>2, <1>4, LaterKeeps
<1>5. CASE disposable' = disposable /\ TestGoes("canary", TRUE)
  BY <1>1, <1>5, LaterKeeps
<1> QED
  BY <1>3, <1>4, <1>5

LEMMA DeletesKeeps == StreamInv /\ TestDeletesDisposable => StreamInv'
<1> SUFFICES ASSUME StreamInv, TestDeletesDisposable PROVE StreamInv'
  OBVIOUS
<1>1. /\ job.step = "idle" /\ test.step = "disposable" /\ disposable \in BOOLEAN
      /\ UNCHANGED <<desired, server, pipeline, job, result, report, changes, commands>>
  BY DEF TestDeletesDisposable, At, StreamInv, StreamShape
<1>2. PICK surprise \in BOOLEAN : TestGoes("canary", surprise) /\ disposable' \in {FALSE, disposable}
  BY DEF TestDeletesDisposable
<1>3. disposable' \in BOOLEAN
  BY <1>1, <1>2
<1> QED
  BY <1>1, <1>2, <1>3, LaterKeeps

LEMMA CleanMeansSound ==
  ASSUME NEW records, ~ Surprising(records)
  PROVE  \A r \in records : ~ Leaks(r) /\ ~ Breaks(r)
<1> TAKE r \in records
<1> DEFINE classes == UNION {RecordClasses(x) : x \in records}
<1>1. classes \in SUBSET Classes
  BY StreamTypes
<1>2. Clean(r) /\ Overall(classes) \notin {"SECURITY", "BREAKING"}
  BY DEF Surprising
<1>3. RecordClasses(r) \subseteq classes
  OBVIOUS
<1>4. Breaks(r) => "BREAKING" \in RecordClasses(r)
  BY DEF RecordClasses
<1> HIDE DEF classes
<1>5. "BREAKING" \notin classes
  BY <1>1, <1>2, BreakingShows
<1> QED
  BY <1>2, <1>3, <1>4, <1>5 DEF Clean

LEMMA CanaryKeeps == StreamInv /\ TestCanary => StreamInv'
<1> SUFFICES ASSUME StreamInv, TestCanary PROVE StreamInv'
  OBVIOUS
<1>1. /\ job.step = "idle" /\ test.step = "canary"
      /\ UNCHANGED <<desired, server, pipeline, job, result, report, disposable, changes>>
  BY DEF TestCanary, At, Untouched
<1>2. PICK records \in Canaries, verdict \in {"failed", "passed"} :
        /\ test' = [step |-> "told", findings |-> FALSE, first |-> NoResult, since |-> test.since,
                    records |-> records, verdict |-> verdict]
        /\ verdict = "passed" => ~ test.findings /\ records # {} /\ ~ Surprising(records)
  <2>1. PICK records \in Canaries :
          test' = [NoTest EXCEPT !.step = "told", !.since = test.since, !.records = records,
                     !.verdict = IF test.findings \/ records = {} \/ Surprising(records)
                                 THEN "failed" ELSE "passed"]
    BY DEF TestCanary
  <2> DEFINE verdict == IF test.findings \/ records = {} \/ Surprising(records)
                        THEN "failed" ELSE "passed"
  <2>2. verdict \in {"failed", "passed"}
    OBVIOUS
  <2>3. verdict = "passed" => ~ test.findings /\ records # {} /\ ~ Surprising(records)
    OBVIOUS
  <2>4. test' = [NoTest EXCEPT !.step = "told", !.since = test.since, !.records = records,
                               !.verdict = verdict]
    BY <2>1
  <2> HIDE DEF verdict
  <2>5. test' = [step |-> "told", findings |-> FALSE, first |-> NoResult, since |-> test.since,
                 records |-> records, verdict |-> verdict]
    BY <2>4 DEF NoTest
  <2> QED
    BY <2>2, <2>3, <2>5
<1>3. StreamShape'
  BY <1>1, <1>2, StreamTypes DEF StreamInv, StreamShape, TestShape, JobShape
<1>4. TurnsOK' /\ PlannedOK' /\ SettledOK'
  BY <1>1, <1>2 DEF TurnsOK, PlannedOK, SettledOK
<1>5. \A s : (Conforms(s))' <=> Conforms(s)
  BY <1>1 DEF Conforms, Settled, Diffs
<1>6. verdict = "passed" /\ Alone => \A s \in Stream : Conforms(s)
  BY <1>1, <1>2 DEF StreamInv, ConformOK
<1>7. Alone' <=> Alone
  BY <1>1, <1>2 DEF Alone
<1>8. PassedMeansConform'
  <2>1. SUFFICES ASSUME verdict = "passed"
                 PROVE  /\ test'.records # {} /\ \A r \in test'.records : ~ Leaks(r) /\ ~ Breaks(r)
                        /\ changes' = test'.since => \A s \in Stream : (Conforms(s))'
    BY <1>2 DEF PassedMeansConform, Conforms, Settled
  <2>2. test'.records # {} /\ \A r \in test'.records : ~ Leaks(r) /\ ~ Breaks(r)
    BY <1>2, <2>1, CleanMeansSound
  <2>3. changes' = test'.since => \A s \in Stream : (Conforms(s))'
    BY <1>1, <1>2, <1>5, <1>6, <2>1 DEF Alone
  <2> QED
    BY <2>2, <2>3
<1>9. ConformOK'
  BY <1>2, <1>8 DEF ConformOK
<1> QED
  BY <1>3, <1>4, <1>9 DEF StreamInv

(* Between tests, and after one that ended, nothing is promised.           *)
LEMMA ForgottenKeeps ==
  ASSUME StreamInv, NEW verdict \in {"none", "passed", "failed", "thrown"},
         test' = [NoTest EXCEPT !.verdict = verdict], JobShape', job'.names = {} \/ job' = job,
         result' \in [Stream -> Results], report' \in [Stream -> SUBSET Classes],
         job'.step \in {"idle", "check"} \/ (job'.step = "read" /\ result' = NoResult),
         UNCHANGED <<desired, server, pipeline, disposable, changes>>
  PROVE  StreamInv'
<1>1. test' = [step |-> "none", findings |-> FALSE, first |-> NoResult, since |-> 0,
               records |-> {}, verdict |-> verdict]
  BY DEF NoTest
<1>2. StreamShape'
  <2>1. TestShape' /\ test'.since = 0
    <3>1. NoResult \in [Stream -> Results]
      BY StreamTypes
    <3>2. /\ test'.step = "none" /\ test'.findings = FALSE /\ test'.first = NoResult
          /\ test'.since = 0 /\ test'.verdict = verdict /\ test'.records = {}
      BY <1>1
    <3>3. test' = [step |-> test'.step, findings |-> test'.findings, first |-> test'.first,
                   since |-> test'.since, records |-> test'.records, verdict |-> test'.verdict]
      BY <1>1, <3>2
    <3>4. test'.findings \in BOOLEAN
      BY <3>2, Zenon
    <3> QED
      BY <3>1, <3>2, <3>3, <3>4 DEF TestShape
  <2>2. changes' \in Nat /\ 0 <= changes'
    BY DEF StreamInv, StreamShape
  <2> QED
    BY <2>1, <2>2 DEF StreamInv, StreamShape
<1>3. TurnsOK' /\ PlannedOK'
  BY <1>1 DEF TurnsOK, PlannedOK
<1>4. SettledOK'
  <2>1. ToSet(job'.todo) \subseteq Stream
    BY RestFacts, RestStart DEF JobShape
  <2> QED
    BY <1>1, <2>1 DEF SettledOK, NoResult
<1>5. ConformOK'
  BY <1>1 DEF ConformOK, PassedMeansConform
<1> QED
  BY <1>2, <1>3, <1>4, <1>5 DEF StreamInv

LEMMA EndsKeeps == StreamInv /\ TestEnds => StreamInv'
<1> SUFFICES ASSUME StreamInv, TestEnds PROVE StreamInv'
  OBVIOUS
<1>1. /\ job.step = "idle" /\ test' = [NoTest EXCEPT !.verdict = test.verdict]
      /\ UNCHANGED <<desired, server, pipeline, job, result, report, disposable, changes>>
  BY DEF TestEnds, At, Untouched
<1>2. JobShape'
  BY <1>1 DEF StreamInv, StreamShape, JobShape
<1>3. /\ test.verdict \in {"none", "passed", "failed", "thrown"}
      /\ result \in [Stream -> Results] /\ report \in [Stream -> SUBSET Classes]
  BY DEF StreamInv, StreamShape, TestShape
<1> QED
  BY <1>1, <1>2, <1>3, ForgottenKeeps

LEMMA InterruptedKeeps == StreamInv /\ StreamInterrupted => StreamInv'
<1> SUFFICES ASSUME StreamInv, StreamInterrupted PROVE StreamInv'
  OBVIOUS
<1>1. /\ job' = [todo |-> <<>>, step |-> "idle", before |-> Missing, names |-> {}]
      /\ UNCHANGED <<desired, server, pipeline, result, report, disposable, changes>>
  BY DEF StreamInterrupted, Untouched, Idle
<1>2. JobShape' /\ job'.names = {} /\ job'.step = "idle"
  BY <1>1, RestStart DEF JobShape
<1>3. PICK verdict \in {"none", "passed", "failed", "thrown"} :
        test' = [NoTest EXCEPT !.verdict = verdict]
  <2>1. test.verdict \in {"none", "passed", "failed", "thrown"}
    BY DEF StreamInv, StreamShape, TestShape
  <2>2. (IF test.step = "none" THEN test.verdict ELSE "thrown") \in {"none", "passed", "failed", "thrown"}
    BY <2>1
  <2> QED
    BY <2>2 DEF StreamInterrupted
<1>4. result \in [Stream -> Results] /\ report \in [Stream -> SUBSET Classes]
  BY DEF StreamInv, StreamShape
<1> QED
  BY <1>1, <1>2, <1>3, <1>4, ForgottenKeeps

LEMMA CommandKeeps == StreamInv /\ StreamCommand => StreamInv'
<1> SUFFICES ASSUME StreamInv, StreamCommand PROVE StreamInv'
  OBVIOUS
<1>1. /\ test.step = "none" /\ (job' = Provisioning \/ job' = Verifying)
      /\ result' = NoResult /\ report' = NoReport
      /\ UNCHANGED <<desired, server, pipeline, test, disposable, changes>>
  BY DEF StreamCommand, Command, At
<1>2. /\ JobShape' /\ job'.todo = Streams /\ job'.names = {}
      /\ job'.step \in {"read", "check"}
  BY <1>1, ProvisioningBegins DEF StreamInv
<1>3. StreamShape'
  BY <1>1, <1>2, StreamTypes DEF StreamInv, StreamShape, TestShape
<1>4. TurnsOK' /\ PlannedOK' /\ ConformOK'
  BY <1>1, <1>2 DEF TurnsOK, PlannedOK, ConformOK, PassedMeansConform
<1>5. SettledOK'
  <2>1. ToSet(job'.todo) = Stream
    BY <1>2, RestStart
  <2> QED
    BY <1>1, <2>1 DEF SettledOK, NoResult
<1> QED
  BY <1>3, <1>4, <1>5 DEF StreamInv

(* The company's changes end what is only promised of undisturbed runs.    *)
LEMMA ChangeKeeps ==
  ASSUME StreamInv, changes' = changes + 1,
         server' \in [Stream -> Settings \cup {Missing}],
         \A s \in Stream : server[s] # Missing => server'[s] # Missing,
         pipeline' \in [Stream -> BOOLEAN],
         UNCHANGED <<desired, job, result, report, test, disposable, commands>>
  PROVE  StreamInv'
<1>1. changes \in Nat /\ test.since \in Nat /\ test.since <= changes
  BY DEF StreamInv, StreamShape, TestShape
<1>2. ~ Alone' /\ test.since <= changes' /\ changes' \in Nat
  BY <1>1 DEF Alone
<1>3. StreamShape'
  BY <1>1, <1>2 DEF StreamInv, StreamShape, JobShape, TestShape
<1>4. TurnsOK'
  BY DEF StreamInv, TurnsOK
<1>5. PlannedOK'
  <2>1. job.step \in {"patch", "names"} => Here \in Stream
    BY RestFacts DEF Here, StreamInv, StreamShape, JobShape
  <2> QED
    BY <2>1 DEF StreamInv, PlannedOK, Diffs, Here
<1>6. SettledOK'
  BY <1>2 DEF StreamInv, SettledOK
<1>7. ConformOK'
  BY <1>2 DEF StreamInv, ConformOK, PassedMeansConform, Alone
<1> QED
  BY <1>3, <1>4, <1>5, <1>6, <1>7 DEF StreamInv

LEMMA CompanyKeeps == StreamInv /\ (CompanyChanges \/ PipelineChanges) => StreamInv'
<1>1. ASSUME StreamInv, CompanyChanges PROVE StreamInv'
  <2>1. /\ changes' = changes + 1
        /\ UNCHANGED <<desired, pipeline, job, result, report, test, disposable, commands>>
    BY <1>1 DEF CompanyChanges
  <2>2. PICK s \in Stream :
          /\ server[s] # Missing
          /\ \/ \E value \in {0, 1, 2} : server' = [server EXCEPT ![s].retention = value]
             \/ server' = [server EXCEPT ![s].original = ~ @]
             \/ server' = [server EXCEPT ![s].index = "custom"]
             \/ \E name \in (ToSet(Allowed) \cup {"other"}) \ ToSet(server[s].distinct) :
                  server' = [server EXCEPT ![s].distinct = Append(@, name)]
    BY <1>1 DEF CompanyChanges
  <2>3. /\ server \in [Stream -> Settings \cup {Missing}] /\ server[s] \in Settings
        /\ pipeline \in [Stream -> BOOLEAN]
    BY <1>1, <2>2 DEF StreamInv, StreamShape
  <2>4. \E settings \in Settings : server' = [server EXCEPT ![s] = settings]
    <3> DEFINE have == server[s]
    <3>1. have \in Settings
      BY <2>3
    <3> HIDE DEF have
    <3>2. /\ \A value \in {0, 1, 2} : [have EXCEPT !.retention = value] \in Settings
          /\ [have EXCEPT !.index = "custom"] \in Settings
      BY <3>1 DEF Settings
    <3>3. [have EXCEPT !.original = ~ @] \in Settings
      <4>1. \A bit \in BOOLEAN : [have EXCEPT !.original = bit] \in Settings
        BY <3>1 DEF Settings
      <4>2. (~ have.original) \in BOOLEAN
        BY Zenon
      <4> QED
        BY <4>1, <4>2
    <3>4. \A name \in ToSet(Allowed) \cup {"other"} :
            [have EXCEPT !.distinct = Append(@, name)] \in Settings
      <4> SUFFICES ASSUME NEW name \in ToSet(Allowed) \cup {"other"}
                   PROVE  [have EXCEPT !.distinct = Append(have.distinct, name)] \in Settings
        OBVIOUS
      <4> DEFINE names == Append(have.distinct, name)
      <4>1. names \in Seq(ToSet(Allowed) \cup {"other"})
        BY <3>1 DEF Settings
      <4> HIDE DEF names
      <4>2. [have EXCEPT !.distinct = names] \in Settings
        BY <3>1, <4>1 DEF Settings
      <4> QED
        BY <4>2 DEF names
    <3>5. CASE \E value \in {0, 1, 2} : server' = [server EXCEPT ![s].retention = value]
      BY <3>2, <3>5 DEF have
    <3>6. CASE server' = [server EXCEPT ![s].original = ~ @]
      BY <3>3, <3>6 DEF have
    <3>7. CASE server' = [server EXCEPT ![s].index = "custom"]
      BY <3>2, <3>7 DEF have
    <3>8. CASE \E name \in (ToSet(Allowed) \cup {"other"}) \ ToSet(server[s].distinct) :
                  server' = [server EXCEPT ![s].distinct = Append(@, name)]
      BY <3>4, <3>8 DEF have
    <3> QED
      BY <2>2, <3>5, <3>6, <3>7, <3>8
  <2>5. /\ server' \in [Stream -> Settings \cup {Missing}]
        /\ \A x \in Stream : server[x] # Missing => server'[x] # Missing
    BY <2>3, <2>4, StreamAssumption
  <2> QED
    BY <1>1, <2>1, <2>3, <2>5, ChangeKeeps
<1>2. ASSUME StreamInv, PipelineChanges PROVE StreamInv'
  <2>1. /\ changes' = changes + 1
        /\ UNCHANGED <<desired, server, job, result, report, test, disposable, commands>>
        /\ server \in [Stream -> Settings \cup {Missing}]
    BY <1>2 DEF PipelineChanges, StreamInv, StreamShape
  <2>2. pipeline' \in [Stream -> BOOLEAN]
    <3>1. PICK s \in Stream : pipeline' = [pipeline EXCEPT ![s] = ~ @]
      BY <1>2 DEF PipelineChanges
    <3>2. pipeline \in [Stream -> BOOLEAN]
      BY <1>2 DEF StreamInv, StreamShape
    <3>3. (~ pipeline[s]) \in BOOLEAN
      BY Zenon
    <3> QED
      BY <3>1, <3>2, <3>3
  <2> QED
    BY <1>2, <2>1, <2>2, ChangeKeeps
<1> QED
  BY <1>1, <1>2

LEMMA StreamStart == StreamInit => StreamInv
<1> SUFFICES ASSUME StreamInit PROVE StreamInv
  OBVIOUS
<1>1. /\ job = [todo |-> <<>>, step |-> "idle", before |-> Missing, names |-> {}]
      /\ test = [step |-> "none", findings |-> FALSE, first |-> NoResult, since |-> 0,
                 records |-> {}, verdict |-> "none"]
  BY DEF StreamInit, Idle, NoTest
<1>2. JobShape /\ TestShape
  BY <1>1, RestStart, StreamTypes DEF JobShape, TestShape
<1>3. StreamShape
  <2>1. /\ server \in [Stream -> Settings \cup {Missing}] /\ pipeline \in [Stream -> BOOLEAN]
        /\ disposable \in BOOLEAN
    BY DEF StreamInit
  <2>2. changes \in Nat /\ test.since <= changes
    BY <1>1 DEF StreamInit
  <2>3. /\ desired \in [Stream -> Manifests] /\ result \in [Stream -> Results]
        /\ report \in [Stream -> SUBSET Classes]
    BY StreamTypes DEF StreamInit
  <2> QED
    BY <1>2, <2>1, <2>2, <2>3 DEF StreamShape
<1> QED
  BY <1>1, <1>3
  DEF StreamInv, TurnsOK, PlannedOK, SettledOK, ConformOK, PassedMeansConform

LEMMA StreamKept == StreamInv /\ [StreamNext]_streamVars => StreamInv'
<1>1. StreamInv /\ StreamNext => StreamInv'
  BY PlanKeeps, PatchKeeps, NamesKeeps, ReadBackKeeps, CheckKeeps, SeedsKeeps, AgainKeeps,
     VerifiesKeeps, CreatesKeeps, DeletesKeeps, CanaryKeeps, EndsKeeps, InterruptedKeeps,
     CommandKeeps, CompanyKeeps
  DEF StreamNext, ProvisionStep
<1>2. StreamInv /\ UNCHANGED streamVars => StreamInv'
  BY DEF streamVars, StreamInv, StreamShape, JobShape, TestShape, TurnsOK, PlannedOK, SettledOK,
         ConformOK, PassedMeansConform, Alone, Conforms, Settled, Diffs, Here
<1> QED
  BY <1>1, <1>2

(* Whatever manifests and company want: provisioning never has originals   *)
(* stored, makes an index or takes a name out of distinct_value_fields,    *)
(* and it writes only what differed when it looked.                        *)
THEOREM StreamsStayTheirs == Spec => StreamsKept
<1> DEFINE Gently ==
             ProvisionStep =>
               \A s \in Stream :
                 server[s] # Missing =>
                   /\ server'[s].original => server[s].original
                   /\ server'[s].index = "custom" => server[s].index = "custom"
                   /\ IsPrefix(server[s].distinct, server'[s].distinct)
           OnlyDiffering ==
             ProvisionStep =>
               \A s \in Stream, f \in Fields :
                 server[s] # Missing /\ server'[s][f] # server[s][f]
                   => f \in Diffs(desired[s], job.before)
<1>1. Init => StreamInv
  BY StreamStart DEF Init
<1>2. [Next]_governanceVars => [StreamNext]_streamVars
  BY DEF Next, governanceVars
<1>3. ASSUME NEW list \in Seq(ToSet(Allowed) \cup {"other"})
      PROVE  /\ IsPrefix(list, list)
             /\ \A n \in ToSet(Allowed) \cup {"other"} : IsPrefix(list, Append(list, n))
  BY DEF IsPrefix
<1>4. ASSUME StreamInv, ProvisionStep
      PROVE  Gently /\ OnlyDiffering
  <2>1. /\ job.todo \in Rests /\ server \in [Stream -> Settings \cup {Missing}]
        /\ desired \in [Stream -> Manifests]
    BY <1>4 DEF StreamInv, StreamShape, JobShape
  <2>2. CASE UNCHANGED server
    <3>1. \A s \in Stream : server[s] # Missing =>
            server[s].distinct \in Seq(ToSet(Allowed) \cup {"other"})
      BY <2>1 DEF Settings
    <3> QED
      BY <1>3, <2>2, <3>1
  <2>3. ASSUME Patch, ~ UNCHANGED server
        PROVE  Gently /\ OnlyDiffering
    <3>1. /\ job.step = "patch" /\ job.todo # <<>>
          /\ server' = [server EXCEPT ![Here] =
                          [f \in Fields |-> IF f \in Patched THEN desired[Here][f] ELSE @[f]]]
      BY <1>4, <2>3 DEF Patch, StreamInv, StreamShape, JobShape
    <3>2. Here \in Stream /\ server[Here] \in Settings /\ desired[Here] \in Settings
      BY <1>4, <2>1, <3>1, RestFacts, StreamAssumption DEF Here, StreamInv, PlannedOK
    <3>3. /\ \A f \in Fields : server'[Here][f] = IF f \in Patched THEN desired[Here][f]
                                                                  ELSE server[Here][f]
          /\ \A s \in Stream : s # Here => server'[s] = server[s]
      BY <2>1, <3>1, <3>2
    <3>4. \A f \in Patched : f \in Diffs(desired[Here], job.before)
                               /\ NonDestructive(f, desired[Here][f])
      BY <1>4, <3>1 DEF Patched, StreamInv, PlannedOK
    <3>5. server'[Here].original => server[Here].original
      <4>1. "original" \in Patched => ~ desired[Here].original
        BY <3>4 DEF NonDestructive
      <4> QED
        BY <3>3, <4>1, Zenon DEF Fields
    <3>6. server'[Here].index = "custom" => server[Here].index = "custom"
      <4>1. "index" \in Patched => desired[Here].index = "empty"
        BY <3>4 DEF NonDestructive
      <4> QED
        BY <3>3, <4>1 DEF Fields
    <3>7. server'[Here].distinct = server[Here].distinct
      BY <3>3 DEF Fields, Patched
    <3>8. \A s \in Stream : server[s] # Missing =>
            server[s].distinct \in Seq(ToSet(Allowed) \cup {"other"})
      BY <2>1 DEF Settings
    <3>9. Gently
      <4> SUFFICES ASSUME NEW s \in Stream, server[s] # Missing
                   PROVE  /\ server'[s].original => server[s].original
                          /\ server'[s].index = "custom" => server[s].index = "custom"
                          /\ IsPrefix(server[s].distinct, server'[s].distinct)
        OBVIOUS
      <4>1. CASE s = Here
        BY <1>3, <3>5, <3>6, <3>7, <3>8, <4>1
      <4>2. CASE s # Here
        BY <1>3, <3>3, <3>8, <4>2
      <4> QED
        BY <4>1, <4>2
    <3>10. OnlyDiffering
      BY <3>3, <3>4
    <3> QED
      BY <3>9, <3>10
  <2>4. ASSUME Names, ~ UNCHANGED server
        PROVE  Gently /\ OnlyDiffering
    <3>1. /\ job.step = "names" /\ job.todo # <<>>
          /\ \E n \in job.names :
               server' = [server EXCEPT ![Here].distinct = IF n \in ToSet(@) THEN @ ELSE Append(@, n)]
      BY <1>4, <2>4 DEF Names, StreamInv, StreamShape, JobShape
    <3>2. Here \in Stream /\ server[Here] \in Settings /\ desired[Here] \in Settings
      BY <1>4, <2>1, <3>1, RestFacts, StreamAssumption DEF Here, StreamInv, PlannedOK
    <3>3. PICK n \in job.names :
            server' = [server EXCEPT ![Here].distinct = IF n \in ToSet(@) THEN @ ELSE Append(@, n)]
      BY <3>1
    <3> DEFINE have == server[Here]
               list == IF n \in ToSet(have.distinct) THEN have.distinct ELSE Append(have.distinct, n)
    <3>4. n \in ToSet(Allowed) \cup {"other"}
      <4>1. n \in ToSet(desired[Here].distinct)
        BY <1>4, <3>1, <3>3 DEF StreamInv, PlannedOK
      <4>2. desired[Here].distinct \in Seq(ToSet(Allowed) \cup {"other"})
        BY <3>2 DEF Settings
      <4>3. \A S, q : q \in Seq(S) => ToSet(q) \subseteq S
        BY DEF ToSet
      <4> QED
        BY <4>1, <4>2, <4>3
    <3>5. have.distinct \in Seq(ToSet(Allowed) \cup {"other"}) /\ have \in Settings
      BY <3>2 DEF Settings
    <3>6. IsPrefix(have.distinct, list)
      BY <1>3, <3>4, <3>5
    <3>7. server'[Here] = [have EXCEPT !.distinct = list]
      BY <2>1, <3>2, <3>3
    <3>8. \A s \in Stream : s # Here => server'[s] = server[s]
      BY <2>1, <3>2, <3>3
    <3>9. "distinct" \in Diffs(desired[Here], job.before)
      BY <1>4, <3>1, <3>3 DEF StreamInv, PlannedOK
    <3> HIDE DEF list, have
    <3>10. /\ server'[Here].distinct = list
           /\ \A f \in Fields : f # "distinct" => server'[Here][f] = have[f]
      BY <3>5, <3>7 DEF Settings, Fields
    <3>11. \A s \in Stream : server[s] # Missing =>
             server[s].distinct \in Seq(ToSet(Allowed) \cup {"other"})
      BY <2>1 DEF Settings
    <3>12. Gently
      <4> SUFFICES ASSUME NEW s \in Stream, server[s] # Missing
                   PROVE  /\ server'[s].original => server[s].original
                          /\ server'[s].index = "custom" => server[s].index = "custom"
                          /\ IsPrefix(server[s].distinct, server'[s].distinct)
        OBVIOUS
      <4>1. CASE s = Here
        <5>1. server'[s].original = server[s].original /\ server'[s].index = server[s].index
          BY <3>10, <4>1 DEF have, Fields
        <5>2. IsPrefix(server[s].distinct, server'[s].distinct)
          BY <3>6, <3>10, <4>1 DEF have
        <5> QED
          BY <5>1, <5>2, Zenon
      <4>2. CASE s # Here
        BY <1>3, <3>8, <3>11, <4>2
      <4> QED
        BY <4>1, <4>2
    <3>13. OnlyDiffering
      BY <3>8, <3>9, <3>10 DEF have
    <3> QED
      BY <3>12, <3>13
  <2>5. Plan \/ ReadBack => UNCHANGED server
    BY DEF Plan, ReadBack, Untouched
  <2> QED
    BY <1>4, <2>2, <2>3, <2>4, <2>5 DEF ProvisionStep
<1>5. StreamInv /\ [StreamNext]_streamVars => [Gently /\ OnlyDiffering]_streamVars
  BY <1>4
<1> HIDE DEF Gently, OnlyDiffering
<1>6. Spec => [][Gently /\ OnlyDiffering]_streamVars
  BY <1>1, <1>2, <1>5, StreamKept, PTL DEF Spec
<1>7. /\ [Gently /\ OnlyDiffering]_streamVars => [Gently]_streamVars
      /\ [Gently /\ OnlyDiffering]_streamVars => [OnlyDiffering]_streamVars
  OBVIOUS
<1>8. Spec => [][Gently]_streamVars /\ [][OnlyDiffering]_streamVars
  BY <1>6, <1>7, PTL
<1>9. StreamInv => StreamTypeOK
  <2>1. StreamInv => server \in [Stream -> Settings \cup {Missing}]
    BY DEF StreamInv, StreamShape
  <2>2. StreamInv => pipeline \in [Stream -> BOOLEAN] /\ disposable \in BOOLEAN
    BY Zenon DEF StreamInv, StreamShape
  <2>3. StreamInv => report \in [Stream -> SUBSET ToSet(Severity)]
    BY DEF StreamInv, StreamShape, Classes
  <2> QED
    BY <2>1, <2>2, <2>3, Zenon
    DEF StreamInv, StreamShape, JobShape, TestShape, Rests, Results, StreamTypeOK
<1>10. Spec => []StreamTypeOK
  BY <1>1, <1>2, <1>9, StreamKept, PTL DEF Spec
<1> QED
  BY <1>8, <1>10 DEF Gently, OnlyDiffering, StreamsKept, NeverDestructive, OnlyWhatDiffered

(* Two runs with nobody in between: of a stream that the first brought to  *)
(* its manifest, or found so, the second has nothing to change.            *)
THEOREM SecondRunIsIdle == Spec => SecondRunSettles
<1> DEFINE Settles ==
             At("second") /\ test'.step = "verified" /\ changes = test.since
               => \A s \in Stream :
                    test.first[s] \in {"APPLIED", "NO_CHANGE"} => result[s] = "NO_CHANGE"
<1>1. Init => StreamInv
  BY StreamStart DEF Init
<1>2. [Next]_governanceVars => [StreamNext]_streamVars
  BY DEF Next, governanceVars
<1>3. StreamInv => Settles
  <2>1. StreamInv /\ At("second") => ToSet(job.todo) = {}
    BY RestStart DEF StreamInv, StreamShape, JobShape, At
  <2> QED
    BY <2>1 DEF StreamInv, SettledOK, Alone, Good, At
<1>4. StreamInv /\ [StreamNext]_streamVars => [Settles]_streamVars
  BY <1>3
<1> HIDE DEF Settles
<1>5. Spec => [][Settles]_streamVars
  BY <1>1, <1>2, <1>4, StreamKept, PTL DEF Spec
<1> QED
  BY <1>5 DEF Settles, SecondRunSettles

(* Whoever reads that test:streams passed may rely on it: alone, every     *)
(* stream is as its manifest says with its pipeline in place, and however  *)
(* it was disturbed, no record of the canary leaks or breaks a contract.   *)
THEOREM PassedIsConform == Spec => []PassedMeansConform
<1>1. Init => StreamInv
  BY StreamStart DEF Init
<1>2. [Next]_governanceVars => [StreamNext]_streamVars
  BY DEF Next, governanceVars
<1>3. StreamInv => PassedMeansConform
  BY DEF StreamInv, ConformOK
<1> QED
  BY <1>1, <1>2, <1>3, StreamKept, PTL DEF Spec
=============================================================================
