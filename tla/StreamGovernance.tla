-------------------------- MODULE StreamGovernance --------------------------
(***************************************************************************)
(* The canonical streams: provisioning brings the settings of a stream in  *)
(* OpenObserve to those of its manifest, but only with writes a guard      *)
(* accepts; verify compares without writing; and test:streams runs both    *)
(* and looks at records of a real browser.  The company may change the     *)
(* settings at any time, every call may fail, and the additive             *)
(* distinct_value_fields are written name by name.                         *)
(***************************************************************************)
EXTENDS Naturals, Sequences, FiniteSets, SequencesExt

CONSTANTS
  Streams,       \* the canonical streams, in the order they are looked at
  Manifests,     \* the desired settings a stream's manifest can have
  Allowed,       \* the one list of distinct_value_fields the guard accepts
  Canaries,      \* what a browser's canary can find: sets of records
  Missing,       \* the stream does not exist
  MaxSafe,       \* MAX_SAFE_ADDITIVE_FIELDS_PER_CANARY
  ChangeBudget,  \* bound: changes by the company
  StreamRuns     \* bound: commands

Stream == ToSet(Streams)

(* data_retention and max_query_range are numbers, the index fields lists  *)
(* of which only the empty one may be written.                             *)
Settings ==
  [retention : Nat, original : BOOLEAN, index : {"empty", "custom"},
   distinct : Seq(ToSet(Allowed) \cup {"other"})]

Fields == {"retention", "original", "index", "distinct"}

ASSUME StreamAssumption ==
  /\ Streams \in Seq(Stream) /\ IsInjective(Streams) /\ Streams # <<>>
  /\ Manifests \subseteq Settings
  /\ IsInjective(Allowed) /\ "other" \notin ToSet(Allowed)
  /\ MaxSafe \in Nat /\ Missing \notin Settings

VARIABLES
  desired,    \* the manifest of each stream
  server,     \* the settings of each stream that exists
  pipeline,   \* whether each sanitization pipeline has its stream at both ends
  job,        \* the provisioning or verification that is running
  result,     \* what the last provisioning reported
  report,     \* what the last verification found
  test,       \* test:streams
  disposable, \* the stream that test:streams creates and deletes: there or not
  changes, commands

streamVars == <<desired, server, pipeline, job, result, report, test, disposable, changes, commands>>

NoResult == [s \in Stream |-> "none"]
NoReport == [s \in Stream |-> {}]
Idle == [todo |-> <<>>, step |-> "idle", before |-> Missing, names |-> {}]

Here == Head(job.todo)

(* diffSettings.  distinct_value_fields are compared in their order.       *)
Diffs(want, have) == {f \in Fields : want[f] # have[f]}

(* A plausible bug: the stored original is taken for a switch like others. *)
NonDestructiveSwitch(f, value) ==
  CASE f = "original" -> value \in BOOLEAN
    [] f = "retention" -> value >= 0
    [] f = "index" -> value = "empty"
    [] f = "distinct" -> value \in {<<>>, Allowed}

NonDestructive(f, value) ==
  CASE f = "original" -> ~ value
    [] f = "retention" -> value >= 0
    [] f = "index" -> value = "empty"
    [] f = "distinct" -> value \in {<<>>, Allowed}

(* What is the matter with a field's name, and what with its value.        *)
FieldName == {"required", "known", "forbidden", "foreign", "unknown"}
FieldValue == {"plain", "secret", "query"}

ASSUME CanariesAssumption == Canaries \subseteq SUBSET SUBSET (FieldName \X FieldValue \X {1, 2})

Named(record, name) == {field \in record : field[1] = name}

(* validateRecord and classifySchemaFindings.  A secret value or a query   *)
(* in a URL counts whatever the name.                                      *)
Leaks(record) == \E field \in record : field[1] = "forbidden" \/ field[2] # "plain"

Breaks(record) ==
  \/ Named(record, "required") = {}
  \/ Named(record, "foreign") # {}
  \/ Cardinality(Named(record, "unknown")) > MaxSafe

Clean(record) ==
  ~ Leaks(record) /\ Named(record, "required") # {} /\ Named(record, "foreign") = {}

RecordClasses(record) ==
  (IF Leaks(record) THEN {"SECURITY"} ELSE {})
    \cup (IF Breaks(record) THEN {"BREAKING"} ELSE {})
    \cup (IF Cardinality(Named(record, "unknown")) \in 1..MaxSafe THEN {"ADDITIVE"} ELSE {})

(* classifySettingsDiff.                                                   *)
ClassOf(f, have) ==
  CASE f = "original" /\ have[f] -> "SECURITY"
    [] f = "original" /\ ~ have[f] -> "SETTINGS"
    [] f = "retention" -> "RETENTION"
    [] f \in {"index", "distinct"} -> "INDEX"

Severity ==
  <<"SECURITY", "BREAKING", "DESTINATION", "RETENTION", "INDEX", "SETTINGS", "ADDITIVE", "NONE">>

(* highestSeverity.                                                        *)
Overall(classes) ==
  IF classes = {} THEN "NONE" ELSE Severity[SelectInSeq(Severity, LAMBDA c : c \in classes)]

(***************************************************************************)
(* lab:streams:provision                                                   *)
(***************************************************************************)

Untouched == UNCHANGED <<desired, server, pipeline, report, disposable, changes>>

Reports(outcome) ==
  /\ result' = [result EXCEPT ![Here] = outcome]
  /\ job' = [Idle EXCEPT !.todo = Tail(job.todo),
                         !.step = IF Len(job.todo) = 1 THEN "idle" ELSE "read"]

Provisioning == [Idle EXCEPT !.todo = Streams, !.step = "read"]

(* Read, compare, and refuse the whole stream when one field is refused.   *)
Plan ==
  /\ job.step = "read"
  /\ IF server[Here] = Missing THEN Reports("SKIPPED")
     ELSE LET diffs == Diffs(desired[Here], server[Here])
          IN IF diffs = {} THEN Reports("NO_CHANGE")
             ELSE IF \E f \in diffs : ~ NonDestructive(f, desired[Here][f])
               THEN Reports("REFUSED")
             ELSE /\ job' = [job EXCEPT !.step = "patch", !.before = server[Here],
                                        !.names = ToSet(desired[Here].distinct)
                                                    \ ToSet(server[Here].distinct)]
                  /\ UNCHANGED result
  /\ Untouched /\ UNCHANGED <<test, commands>>

Patched == Diffs(desired[Here], job.before) \ {"distinct"}

(* One PUT with every other field that differed when it was read.          *)
Patch ==
  /\ job.step = "patch"
  /\ \/ /\ server' = [server EXCEPT ![Here] =
                        [f \in Fields |-> IF f \in Patched THEN desired[Here][f] ELSE @[f]]]
        /\ job' = [job EXCEPT !.step = "names"]
        /\ UNCHANGED result
     \/ Patched # {} /\ Reports("APPLY_FAILED") /\ UNCHANGED server
  /\ UNCHANGED <<desired, pipeline, report, test, disposable, changes, commands>>

(* Of the names left the first in the manifest.                            *)
IsNextName(n) ==
  \E i \in DOMAIN desired[Here].distinct :
    /\ desired[Here].distinct[i] = n
    /\ \A j \in 1..(i - 1) : desired[Here].distinct[j] \notin job.names

(* One PUT for each name that was missing; the server only ever adds.      *)
Names ==
  /\ job.step = "names"
  /\ \E n \in job.names :
       /\ IsNextName(n)
       /\ \/ /\ server' = [server EXCEPT ![Here].distinct =
                             IF n \in ToSet(@) THEN @ ELSE Append(@, n)]
             /\ job' = [job EXCEPT !.names = @ \ {n}]
             /\ UNCHANGED result
          \/ Reports("APPLY_FAILED") /\ UNCHANGED server
  /\ UNCHANGED <<desired, pipeline, report, test, disposable, changes, commands>>

(* A plausible bug: the answers to the writes are believed.                *)
NoReadBack ==
  /\ job.step = "names"
  /\ job.names = {}
  /\ Reports("APPLIED")
  /\ Untouched /\ UNCHANGED <<test, commands>>

ReadBack ==
  /\ job.step = "names"
  /\ job.names = {}
  /\ Reports(IF Diffs(desired[Here], server[Here]) = {} THEN "APPLIED" ELSE "MISMATCH")
  /\ Untouched /\ UNCHANGED <<test, commands>>

(***************************************************************************)
(* lab:streams:verify.  The pipelines are listed first.                    *)
(***************************************************************************)

Verifying == [Idle EXCEPT !.todo = Streams, !.step = "check", !.before = pipeline]

(* A schema has a field of a type the contract does not know: changed.     *)
Check ==
  /\ job.step = "check"
  /\ \E changedType \in BOOLEAN :
       report' = [report EXCEPT ![Here] =
         IF server[Here] = Missing THEN {"BREAKING"}
         ELSE {ClassOf(f, server[Here]) : f \in Diffs(desired[Here], server[Here])}
                \cup (IF changedType THEN {"BREAKING"} ELSE {})
                \cup (IF job.before[Here] THEN {} ELSE {"DESTINATION"})]
  /\ job' = [job EXCEPT !.todo = Tail(@), !.step = IF Len(job.todo) = 1 THEN "idle" ELSE @]
  /\ UNCHANGED <<desired, server, pipeline, result, test, disposable, changes, commands>>

(***************************************************************************)
(* test:streams: what it finds decides, a call that throws ends it.        *)
(***************************************************************************)

NoTest == [step |-> "none", findings |-> FALSE, first |-> NoResult, since |-> 0,
           records |-> {}, verdict |-> "none"]

At(step) == job.step = "idle" /\ test.step = step

TestGoes(step, surprise) ==
  test' = [test EXCEPT !.step = step, !.findings = @ \/ surprise]

(* A stream that does not exist is created by ingesting a record, with the *)
(* settings that the server gives to a new one.                            *)
Fresh == [retention |-> 0, original |-> FALSE, index |-> "empty", distinct |-> <<>>]

TestSeeds ==
  /\ At("none") /\ commands < StreamRuns
  /\ server' = [s \in Stream |-> IF server[s] = Missing THEN Fresh ELSE server[s]]
  /\ job' = Provisioning
  /\ result' = NoResult
  /\ test' = [NoTest EXCEPT !.step = "first", !.since = changes]
  /\ commands' = commands + 1
  /\ UNCHANGED <<desired, pipeline, report, disposable, changes>>

TestProvisionsAgain ==
  /\ At("first")
  /\ job' = Provisioning
  /\ result' = NoResult
  /\ test' = [test EXCEPT !.step = "second", !.first = result]
  /\ Untouched /\ UNCHANGED commands

TestVerifies ==
  /\ At("second")
  /\ job' = Verifying
  /\ report' = NoReport
  /\ TestGoes("verified", \E s \in Stream : \/ result[s] # "NO_CHANGE"
                                         \/ test.first[s] \in {"REFUSED", "APPLY_FAILED"})
  /\ UNCHANGED <<desired, server, pipeline, result, disposable, changes, commands>>

(* The disposable stream: created by a first record, set twice, deleted.   *)
(* An ingestion that is not answered 200 ends the lifecycle.               *)
TestCreatesDisposable ==
  /\ At("verified")
  /\ \/ disposable' = TRUE /\ TestGoes("disposable", \E s \in Stream : Overall(report[s]) # "NONE")
     \/ UNCHANGED disposable /\ TestGoes("canary", TRUE)
  /\ UNCHANGED <<desired, server, pipeline, job, result, report, changes, commands>>

TestDeletesDisposable ==
  /\ At("disposable")
  /\ \/ disposable' = FALSE /\ \E surprise \in BOOLEAN : TestGoes("canary", surprise)
     \/ UNCHANGED disposable /\ TestGoes("canary", TRUE)
  /\ UNCHANGED <<desired, server, pipeline, job, result, report, changes, commands>>

(* A plausible bug: only the classes are looked at, and of them only leaks. *)
SurprisingLeaksOnly(records) == \E r \in records : "SECURITY" \in RecordClasses(r)

Surprising(records) ==
  \/ \E r \in records : ~ Clean(r)
  \/ Overall(UNION {RecordClasses(r) : r \in records}) \in {"SECURITY", "BREAKING"}

(* The records of a real browser; none at all is a finding too.            *)
TestCanary ==
  /\ At("canary")
  /\ \E records \in Canaries :
       LET findings == test.findings \/ records = {} \/ Surprising(records)
       IN  test' = [NoTest EXCEPT !.step = "told", !.since = test.since, !.records = records,
                                  !.verdict = IF findings THEN "failed" ELSE "passed"]
  /\ Untouched /\ UNCHANGED <<job, result, commands>>

TestEnds ==
  /\ At("told")
  /\ test' = [NoTest EXCEPT !.verdict = test.verdict]
  /\ Untouched /\ UNCHANGED <<job, result, commands>>

(* A schema that is answered neither 200 nor 404, or the process is killed. *)
StreamInterrupted ==
  /\ job.step # "idle" \/ test.step \notin {"none", "told"}
  /\ job' = Idle
  /\ test' = [NoTest EXCEPT !.verdict = IF test.step = "none" THEN test.verdict ELSE "thrown"]
  /\ Untouched /\ UNCHANGED <<result, commands>>

(***************************************************************************)
(* What the commands find, and the company at its UI.                      *)
(***************************************************************************)

Command(begins) ==
  /\ At("none") /\ commands < StreamRuns
  /\ commands' = commands + 1
  /\ job' = begins
  /\ result' = NoResult /\ report' = NoReport
  /\ UNCHANGED <<desired, server, pipeline, test, disposable, changes>>

StreamCommand == Command(Provisioning) \/ Command(Verifying)

CompanyChanges ==
  /\ changes < ChangeBudget
  /\ changes' = changes + 1
  /\ \E s \in Stream :
       /\ server[s] # Missing
       /\ \/ \E value \in {0, 1, 2} : server' = [server EXCEPT ![s].retention = value]
          \/ server' = [server EXCEPT ![s].original = ~ @]
          \/ server' = [server EXCEPT ![s].index = "custom"]
          \/ \E name \in (ToSet(Allowed) \cup {"other"}) \ ToSet(server[s].distinct) :
               server' = [server EXCEPT ![s].distinct = Append(@, name)]
  /\ UNCHANGED <<desired, pipeline, job, result, report, test, disposable, commands>>

PipelineChanges ==
  /\ changes < ChangeBudget
  /\ changes' = changes + 1
  /\ \E s \in Stream : pipeline' = [pipeline EXCEPT ![s] = ~ @]
  /\ UNCHANGED <<desired, server, job, result, report, test, disposable, commands>>

StreamInit ==
  /\ desired \in [Stream -> Manifests]
  /\ server = [s \in Stream |-> Missing]
  /\ pipeline = [s \in Stream |-> TRUE]
  /\ job = Idle /\ result = NoResult /\ report = NoReport
  /\ test = NoTest /\ disposable = FALSE
  /\ changes = 0 /\ commands = 0

ProvisionStep == Plan \/ Patch \/ Names \/ ReadBack

StreamNext ==
  \/ ProvisionStep \/ Check
  \/ TestSeeds \/ TestProvisionsAgain \/ TestVerifies
  \/ TestCreatesDisposable \/ TestDeletesDisposable \/ TestCanary \/ TestEnds
  \/ StreamInterrupted \/ StreamCommand \/ CompanyChanges \/ PipelineChanges

StreamSpec == StreamInit /\ [][StreamNext]_streamVars

(***************************************************************************)
(* Properties                                                              *)
(***************************************************************************)

StreamTypeOK ==
  /\ server \in [Stream -> Settings \cup {Missing}]
  /\ pipeline \in [Stream -> BOOLEAN]
  /\ job.step \in {"idle", "read", "patch", "names", "check"}
  /\ job.todo \in {SubSeq(Streams, n, Len(Streams)) : n \in 1..(Len(Streams) + 1)}
  /\ result \in [Stream -> {"none", "SKIPPED", "NO_CHANGE", "REFUSED", "APPLY_FAILED", "APPLIED",
                            "MISMATCH"}]
  /\ report \in [Stream -> SUBSET ToSet(Severity)]
  /\ test.verdict \in {"none", "passed", "failed", "thrown"}
  /\ disposable \in BOOLEAN

(* Whatever a manifest says and whatever the company does between read and *)
(* write, provisioning never has the originals stored, never makes an      *)
(* index and never takes a name out of distinct_value_fields.              *)
NeverDestructive ==
  [][ProvisionStep =>
       \A s \in Stream :
         server[s] # Missing =>
           /\ server'[s].original => server[s].original
           /\ server'[s].index = "custom" => server[s].index = "custom"
           /\ IsPrefix(server[s].distinct, server'[s].distinct)]_streamVars

(* What the company set to the desired value itself stays its own: a write *)
(* only touches fields that differed when the stream was read.             *)
OnlyWhatDiffered ==
  [][ProvisionStep =>
       \A s \in Stream, f \in Fields :
         server[s] # Missing /\ server'[s][f] # server[s][f]
           => f \in Diffs(desired[s], job.before)]_streamVars

(* Two provisionings that nobody disturbed: the second finds nothing to    *)
(* change, unless the first was refused, a call failed, or the stream had  *)
(* names of its own or in another order, which can never be taken out.     *)
SecondRunSettles ==
  [][At("second") /\ test'.step = "verified" /\ changes = test.since
       => \A s \in Stream :
            test.first[s] \in {"APPLIED", "NO_CHANGE"} => result[s] = "NO_CHANGE"]_streamVars

(* test:streams passes only with every stream as its manifest says, when   *)
(* nobody changed anything meanwhile, and with records without a leak.     *)
PassedMeansConform ==
  test.step = "told" /\ test.verdict = "passed"
    => /\ test.records # {} /\ \A r \in test.records : ~ Leaks(r) /\ ~ Breaks(r)
       /\ changes = test.since
            => \A s \in Stream : server[s] # Missing /\ Diffs(desired[s], server[s]) = {} /\ pipeline[s]

(***************************************************************************)
(* The inductive invariant behind them.                                    *)
(***************************************************************************)
Results == {"none", "SKIPPED", "NO_CHANGE", "REFUSED", "APPLY_FAILED", "APPLIED", "MISMATCH"}

Classes == ToSet(Severity) \ {"NONE"}

Rests == {SubSeq(Streams, n, Len(Streams)) : n \in 1..(Len(Streams) + 1)}

JobShape ==
  /\ job = [todo |-> job.todo, step |-> job.step, before |-> job.before, names |-> job.names]
  /\ job.step \in {"idle", "read", "patch", "names", "check"} /\ job.todo \in Rests
  /\ job.step = "idle" <=> job.todo = <<>>
  /\ job.step = "check" => job.before \in [Stream -> BOOLEAN]
  /\ job.step \in {"patch", "names"} => job.before \in Settings

TestShape ==
  /\ test = [step |-> test.step, findings |-> test.findings, first |-> test.first,
             since |-> test.since, records |-> test.records, verdict |-> test.verdict]
  /\ test.step \in {"none", "first", "second", "verified", "disposable", "canary", "told"}
  /\ test.findings \in BOOLEAN /\ test.first \in [Stream -> Results] /\ test.since \in Nat
  /\ test.verdict \in {"none", "passed", "failed", "thrown"}

StreamShape ==
  /\ desired \in [Stream -> Manifests] /\ server \in [Stream -> Settings \cup {Missing}]
  /\ pipeline \in [Stream -> BOOLEAN]
  /\ JobShape /\ TestShape
  /\ result \in [Stream -> Results] /\ report \in [Stream -> SUBSET Classes]
  /\ disposable \in BOOLEAN /\ changes \in Nat /\ test.since <= changes

(* A command the test is not waiting for is one of the company's.          *)
TurnsOK ==
  /\ test.step \in {"first", "second"} => job.step # "check"
  /\ test.step = "verified" => job.step \in {"idle", "check"}
  /\ test.step \in {"disposable", "canary", "told"} => job.step = "idle"

(* What is about to be written was looked at, and each field accepted.     *)
PlannedOK ==
  job.step \in {"patch", "names"} =>
    /\ server[Here] # Missing
    /\ \A f \in Diffs(desired[Here], job.before) : NonDestructive(f, desired[Here][f])
    /\ job.names \subseteq ToSet(desired[Here].distinct)
    /\ job.names # {} => "distinct" \in Diffs(desired[Here], job.before)

Alone == changes = test.since

Settled(s) == server[s] # Missing /\ Diffs(desired[s], server[s]) = {}

Good(outcome) == outcome \in {"APPLIED", "NO_CHANGE"}

(* Alone, a stream of which the first run said that it is as it should be  *)
(* stays so, and the second run has nothing to write to it.                *)
SettledOK ==
  /\ job.step \in {"read", "patch", "names"} => \A s \in ToSet(job.todo) : result[s] = "none"
  /\ Alone /\ test.step = "first" => \A s \in Stream : Good(result[s]) => Settled(s)
  /\ Alone /\ test.step = "second" =>
       \A s \in Stream : Good(test.first[s]) =>
         /\ Settled(s)
         /\ s \notin ToSet(job.todo) => result[s] = "NO_CHANGE"
         /\ job.step \in {"patch", "names"} => Here # s

Conforms(s) == Settled(s) /\ pipeline[s]

(* Alone, a stream that the verification had nothing to say about is as    *)
(* its manifest says, and stays so.                                        *)
ConformOK ==
  /\ Alone /\ test.step = "verified" =>
       /\ job.step = "check" => job.before = pipeline
       /\ \A s \in Stream : s \notin ToSet(job.todo) /\ report[s] = {} => Conforms(s)
  /\ Alone /\ test.step \in {"disposable", "canary"} /\ ~test.findings =>
       \A s \in Stream : Conforms(s)
  /\ PassedMeansConform

StreamInv == StreamShape /\ TurnsOK /\ PlannedOK /\ SettledOK /\ ConformOK
=============================================================================
